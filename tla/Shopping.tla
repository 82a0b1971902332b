------------------------------- MODULE Shopping -------------------------------
(***************************************************************************)
(* A customer's browser: the session and the cart.  Both live twice, in    *)
(* localStorage, which all tabs share, and in the React contexts of every  *)
(* tab, which are read from it when the tab loads and written to it when   *)
(* they change.  Requests carry the user id localStorage has at that       *)
(* moment, pages show the user the context has.  Saving the cart is part   *)
(* of the step that changes it: the effect runs before the next event.     *)
(* The service is one step per request; its statements are in Orders.      *)
(***************************************************************************)
EXTENDS Integers, FiniteSets

CONSTANTS
    Tabs,      \* browser tabs
    Users,     \* e-mail addresses, each at most one account
    Registered,\* those that have an account at the start
    MaxStock,  \* bound: units of the product
    MaxAdds,   \* bound: clicks on "Add to Cart"
    MaxOrders, \* bound: clicks on "Place Order"
    Nobody

ASSUME ShoppingAssumption ==
    /\ MaxStock \in Nat /\ MaxAdds \in Nat /\ MaxOrders \in Nat
    /\ Registered \subseteq Users
    /\ Nobody \notin Users

VARIABLES
    accounts,  \* users table: the e-mails that have a row
    stock,     \* products.stock of the product
    storage,   \* localStorage: userId and cart
    user,      \* tab -> auth context: the user shown
    me,        \* tab -> loadUser: whom it asked for, Nobody when it does not run
    at,        \* tab -> page
    cart,      \* tab -> cart context: quantity and the stock of the product copied with it
    seen,      \* tab -> stock of the copy the product page shows
    removing,  \* tab -> whether the timer of "Remove" runs
    call,      \* tab -> request the page waits for
    orphans,   \* orders on their way whose page was left
    adds, clicks, \* clicks so far
    orders,    \* history: the orders placed, the user of each and the one its page showed
    added, ordered, unheard, \* history: units put in, placed, placed and the page not told
    overtaken  \* history: a sign-in came before the session was loaded

server == <<accounts, stock, orders, ordered>>
history == <<added, unheard, overtaken>>
vars == <<accounts, stock, storage, user, me, at, cart, seen, removing, call, orphans,
          adds, clicks, orders, added, ordered, unheard, overtaken>>

EmptyCart == [quantity |-> 0, stock |-> 0]
Cart == [quantity : 0 .. MaxStock, stock : 0 .. MaxStock]
Call(op, as, shown, quantity, n) ==
    [op |-> op, as |-> as, shown |-> shown, quantity |-> quantity, n |-> n, phase |-> "sent"]
NoCall == Call("none", Nobody, Nobody, 0, 0)
Order == [as : Users \cup {Nobody}, shown : Users, quantity : 0 .. MaxStock]
Orphan == [order : Order, phase : {"sent", "ok"}, tab : Tabs \cup {Nobody}, n : 1 .. MaxOrders]

Guarded == {"shop", "cart", "checkout"}   \* the pages DashboardLayout wraps in AuthGuard

TypeOK ==
    /\ accounts \subseteq Users
    /\ stock \in 0 .. MaxStock
    /\ storage \in [user : Users \cup {Nobody}, cart : Cart]
    /\ user \in [Tabs -> Users \cup {Nobody}]
    /\ me \in [Tabs -> Users \cup {Nobody}]
    /\ at \in [Tabs -> {"closed", "signin", "left"} \cup Guarded]
    /\ cart \in [Tabs -> Cart]
    /\ seen \in [Tabs -> 0 .. MaxStock]
    /\ call \in [Tabs -> [op : {"none", "login", "register", "order"}, as : Users \cup {Nobody},
                          shown : Users \cup {Nobody}, quantity : 0 .. MaxStock, n : 0 .. MaxOrders,
                          phase : {"sent", "ok", "threw", "denied"}]]
    /\ removing \in [Tabs -> BOOLEAN]
    /\ orphans \subseteq Orphan
    /\ orders \subseteq Order
    /\ adds \in 0 .. MaxAdds /\ clicks \in 0 .. MaxOrders
    /\ added \in Nat /\ ordered \in Nat /\ unheard \in Int
    /\ overtaken \in BOOLEAN

Init ==
    /\ accounts = Registered
    /\ stock = MaxStock
    /\ storage = [user |-> Nobody, cart |-> EmptyCart]
    /\ user = [t \in Tabs |-> Nobody]
    /\ me = [t \in Tabs |-> Nobody]
    /\ at = [t \in Tabs |-> "closed"]
    /\ cart = [t \in Tabs |-> EmptyCart]
    /\ seen = [t \in Tabs |-> 0]
    /\ removing = [t \in Tabs |-> FALSE]
    /\ call = [t \in Tabs |-> NoCall]
    /\ orphans = {} /\ orders = {}
    /\ adds = 0 /\ clicks = 0
    /\ added = 0 /\ ordered = 0 /\ unheard = 0
    /\ overtaken = FALSE

----------------------------------------------------------------------------
\* The order a tab asks for: for the user localStorage has then, and the one its page shows.
Placed(t) == [as |-> call[t].as, shown |-> call[t].shown, quantity |-> call[t].quantity]

(* Leaving a page, and loading one anew: both providers start from         *)
(* localStorage then.                                                      *)

Waits(t, phase) == call[t].op = "order" /\ call[t].phase = phase

\* An order under way whose page is left, and the tab whose document still takes the answer.
LeftBehind(t, tab) ==
    IF Waits(t, "sent") \/ (Waits(t, "ok") /\ tab # Nobody)
    THEN {[order |-> Placed(t), phase |-> call[t].phase, tab |-> tab, n |-> call[t].n]}
    ELSE {}

\* The page that comes next does not know of the order: it is unheard, answer or not.
Unheard(t) == IF Waits(t, "sent") THEN call[t].quantity ELSE 0

\* Another page of the same document.
Leave(t) ==
    /\ orphans' = orphans \cup LeftBehind(t, t)
    /\ unheard' = unheard + Unheard(t)
    /\ call' = [call EXCEPT ![t] = NoCall]

\* Timers and answers of the document go nowhere; AuthProvider asks for the stored user,
\* CartProvider takes the stored cart.
Load(t, page, stored, items) ==
    /\ at' = [at EXCEPT ![t] = page]
    /\ user' = [user EXCEPT ![t] = Nobody]
    /\ me' = [me EXCEPT ![t] = stored]
    /\ cart' = [cart EXCEPT ![t] = items]
    /\ seen' = [seen EXCEPT ![t] = 0]
    /\ removing' = [removing EXCEPT ![t] = FALSE]
    /\ orphans' = {o \in orphans : o.tab # t} \cup LeftBehind(t, Nobody)
          \cup {[o EXCEPT !.tab = Nobody] : o \in {x \in orphans : x.tab = t /\ x.phase = "sent"}}
    /\ call' = [call EXCEPT ![t] = NoCall]

\* A checkout that is loaded anew finds the cart still empty and goes to the cart page.
Landings == {"shop", "cart"}

\* A tab is opened, or its page reloaded.
OpenTab(t) ==
    /\ \E page \in Landings : Load(t, page, storage.user, storage.cart)
    /\ unheard' = unheard + Unheard(t)
    /\ UNCHANGED <<server, storage, adds, clicks, added, overtaken>>

\* getCurrentUser swallows every error; the answer sets the user whatever happened since.
ReceiveMe(t) ==
    /\ me[t] # Nobody
    /\ \E u \in {me[t], Nobody} : user' = [user EXCEPT ![t] = u]
    /\ me' = [me EXCEPT ![t] = Nobody]
    /\ UNCHANGED <<server, storage, at, cart, seen, removing, call, orphans, adds, clicks, history>>

\* AuthGuard: no user, and none being loaded.
Guard(t) ==
    /\ at[t] \in Guarded /\ user[t] = Nobody /\ me[t] = Nobody
    /\ at' = [at EXCEPT ![t] = "signin"]
    /\ Leave(t)
    /\ UNCHANGED <<server, storage, user, me, cart, seen, removing, adds, clicks, added, overtaken>>

\* What a guarded page shows is there only for a user that is loaded.
On(t, page) == at[t] = page /\ user[t] # Nobody

Logout(t) ==
    /\ at[t] \in Guarded /\ user[t] # Nobody
    /\ storage' = [storage EXCEPT !.user = Nobody]
    /\ Load(t, "signin", Nobody, storage.cart)
    /\ unheard' = unheard + Unheard(t)
    /\ UNCHANGED <<server, adds, clicks, added, overtaken>>

----------------------------------------------------------------------------
(* Signing in and up: the form is disabled while it waits.                 *)

FormEnabled(t) == at[t] = "signin" /\ call[t].op = "none"

Submit(t, op) ==
    /\ FormEnabled(t)
    /\ \E u \in Users : call' = [call EXCEPT ![t] = Call(op, u, Nobody, 0, 0)]
    /\ UNCHANGED <<server, storage, user, me, at, cart, seen, removing, orphans, adds, clicks, history>>

SignIn(t) == Submit(t, "login")
SignUp(t) == Submit(t, "register")

Answer(t, phase) == call' = [call EXCEPT ![t].phase = phase]

\* The password is compared with the row's: it may be wrong.
ServeLogin(t) ==
    /\ call[t].op = "login" /\ call[t].phase = "sent"
    /\ \/ call[t].as \in accounts /\ Answer(t, "ok")
       \/ Answer(t, "denied")
    /\ UNCHANGED <<server, storage, user, me, at, cart, seen, removing, orphans, adds, clicks, history>>

\* The SELECT finds the row, or the unique constraint refuses the INSERT.
ServeRegister(t) ==
    /\ call[t].op = "register" /\ call[t].phase = "sent"
    /\ Answer(t, IF call[t].as \in accounts THEN "threw" ELSE "ok")
    /\ accounts' = accounts \cup {call[t].as}
    /\ UNCHANGED <<stock, orders, ordered, storage, user, me, at, cart, seen, removing, orphans,
                   adds, clicks, history>>

\* Mutant: a user id that is stored already is kept.
SignedInBeside(t) ==
    /\ call[t].op \in {"login", "register"} /\ call[t].phase = "ok"
    /\ storage' = [storage EXCEPT !.user = IF @ = Nobody THEN call[t].as ELSE @]
    /\ user' = [user EXCEPT ![t] = call[t].as]
    /\ at' = [at EXCEPT ![t] = "shop"]
    /\ call' = [call EXCEPT ![t] = NoCall]
    /\ overtaken' = (overtaken \/ me[t] # Nobody)
    /\ UNCHANGED <<server, me, cart, seen, removing, orphans, adds, clicks, added, unheard>>

SignedIn(t) ==
    /\ call[t].op \in {"login", "register"} /\ call[t].phase = "ok"
    /\ storage' = [storage EXCEPT !.user = call[t].as]
    /\ user' = [user EXCEPT ![t] = call[t].as]
    /\ at' = [at EXCEPT ![t] = "shop"]
    /\ call' = [call EXCEPT ![t] = NoCall]
    /\ overtaken' = (overtaken \/ me[t] # Nobody)
    /\ UNCHANGED <<server, me, cart, seen, removing, orphans, adds, clicks, added, unheard>>

\* The interceptor takes every 401, a wrong password's too, for the end of the session.
Unauthorized(t) ==
    /\ call[t].phase = "denied"
    /\ storage' = [storage EXCEPT !.user = Nobody]
    /\ Load(t, "signin", Nobody, storage.cart)
    /\ UNCHANGED <<server, adds, clicks, history>>

\* Any other error is shown and the form enabled again.
FormFails(t) ==
    /\ call[t].phase = "threw" /\ call[t].op = "register"
    /\ call' = [call EXCEPT ![t] = NoCall]
    /\ UNCHANGED <<server, storage, user, me, at, cart, seen, removing, orphans, adds, clicks, history>>

----------------------------------------------------------------------------
(* The cart.                                                               *)

Smaller(a, b) == IF a < b THEN a ELSE b

\* setItems and the effect that saves what it left.
SetItems(t, items) ==
    /\ cart' = [cart EXCEPT ![t] = items]
    /\ storage' = [storage EXCEPT !.cart = items]

\* From page to page through the links of the dashboard, without loading anew.
Visit(t) ==
    /\ at[t] \in Guarded /\ user[t] # Nobody
    /\ \E page \in {"shop", "cart"} : at' = [at EXCEPT ![t] = page]
    /\ seen' = [seen EXCEPT ![t] = 0]
    /\ Leave(t)
    /\ UNCHANGED <<server, storage, user, me, cart, removing, adds, clicks, added, overtaken>>

\* The product list and the product page load the product.
LoadProduct(t) ==
    /\ On(t, "shop")
    /\ seen' = [seen EXCEPT ![t] = stock]
    /\ UNCHANGED <<server, storage, user, me, at, cart, removing, call, orphans, adds, clicks, history>>

\* Mutant: a line that exists grows beyond the stock.
AddItemUnclamped(t, n) ==
    LET line == cart[t]
        items == IF line.quantity > 0
                 THEN [line EXCEPT !.quantity = @ + n]
                 ELSE [quantity |-> Smaller(n, seen[t]), stock |-> seen[t]]
    IN  /\ adds < MaxAdds /\ adds' = adds + 1
        /\ SetItems(t, items)
        /\ added' = added + n
        /\ UNCHANGED <<server, user, me, at, seen, removing, call, orphans, clicks, unheard, overtaken>>

\* A line that exists keeps the copy of the product it was made with.
AddItem(t, n) ==
    LET line == cart[t]
        items == IF line.quantity > 0
                 THEN [line EXCEPT !.quantity = Smaller(line.quantity + n, seen[t])]
                 ELSE [quantity |-> Smaller(n, seen[t]), stock |-> seen[t]]
    IN  /\ adds < MaxAdds /\ adds' = adds + 1
        /\ SetItems(t, items)
        /\ added' = added + n
        /\ UNCHANGED <<server, user, me, at, seen, removing, call, orphans, clicks, unheard, overtaken>>

\* The button is there for a product in stock: the list adds one, the product page what its
\* selector shows, between one and the stock.
AddOffered(t) == On(t, "shop") /\ seen[t] > 0

AddFromList(t) == AddOffered(t) /\ AddItem(t, 1)
AddFromPage(t) == AddOffered(t) /\ \E n \in 1 .. seen[t] : AddItem(t, n)

\* The page of a cart that has a line; minus is enabled down to one, plus up to the copied stock.
CartShown(t) == On(t, "cart") /\ cart[t].quantity > 0

SetQuantity(t, n) ==
    /\ SetItems(t, [cart[t] EXCEPT !.quantity = Smaller(n, cart[t].stock)])
    /\ UNCHANGED <<server, user, me, at, seen, removing, call, orphans, clicks, unheard, overtaken>>

UpdateQuantity(t) ==
    /\ CartShown(t)
    /\ \/ /\ cart[t].quantity > 1
          /\ SetQuantity(t, cart[t].quantity - 1)
          /\ UNCHANGED <<adds, added>>
       \/ /\ cart[t].quantity < cart[t].stock
          /\ adds < MaxAdds /\ adds' = adds + 1
          /\ SetQuantity(t, cart[t].quantity + 1)
          /\ added' = added + 1

\* "Remove" starts a timer of a fifth of a second; everything stays enabled.
HandleRemove(t) ==
    /\ CartShown(t)
    /\ removing' = [removing EXCEPT ![t] = TRUE]
    /\ UNCHANGED <<server, storage, user, me, at, cart, seen, call, orphans, adds, clicks, history>>

\* The timer takes the line wherever the customer is by then; an empty checkout goes to the cart.
RemoveItem(t) ==
    /\ removing[t] /\ removing' = [removing EXCEPT ![t] = FALSE]
    /\ SetItems(t, EmptyCart)
    /\ IF at[t] = "checkout" THEN at' = [at EXCEPT ![t] = "cart"] /\ Leave(t)
                              ELSE UNCHANGED <<at, call, orphans, unheard>>
    /\ UNCHANGED <<server, user, me, seen, adds, clicks, added, overtaken>>

----------------------------------------------------------------------------
(* The checkout.                                                           *)

\* The button of the cart page, which an empty cart does not have.
Checkout(t) ==
    /\ CartShown(t)
    /\ at' = [at EXCEPT ![t] = "checkout"]
    /\ UNCHANGED <<server, storage, user, me, cart, seen, removing, call, orphans, adds, clicks, history>>

\* Disabled while an order is placed; the customer has an address.
OrderOffered(t) == On(t, "checkout") /\ cart[t].quantity > 0 /\ call[t].op = "none"

PlaceOrder(t) ==
    /\ OrderOffered(t)
    /\ clicks < MaxOrders /\ clicks' = clicks + 1
    /\ call' = [call EXCEPT ![t] = Call("order", storage.user, user[t], cart[t].quantity, clicks')]
    /\ UNCHANGED <<server, storage, user, me, at, cart, seen, removing, orphans, adds, history>>

Place(o) ==
    /\ o.as # Nobody /\ o.quantity <= stock
    /\ stock' = stock - o.quantity
    /\ ordered' = ordered + o.quantity
    /\ orders' = orders \cup {o}

ServeOrder(t) ==
    /\ Waits(t, "sent")
    /\ Place(Placed(t)) /\ Answer(t, "ok")
    /\ unheard' = unheard + call[t].quantity
    /\ UNCHANGED <<accounts, storage, user, me, at, cart, seen, removing, orphans, adds, clicks,
                   added, overtaken>>

\* Too little in stock or no user: nothing is placed.
ServeRefusal(t) ==
    /\ Waits(t, "sent")
    /\ Answer(t, "threw")
    /\ UNCHANGED <<server, storage, user, me, at, cart, seen, removing, orphans, adds, clicks, history>>

\* The order is placed and the handler throws on, or its answer is lost.
ServeAndThrow(t) ==
    /\ Waits(t, "sent")
    /\ Place(Placed(t)) /\ Answer(t, "threw")
    /\ unheard' = unheard + call[t].quantity
    /\ UNCHANGED <<accounts, storage, user, me, at, cart, seen, removing, orphans, adds, clicks,
                   added, overtaken>>

\* An order whose page was left is served all the same; its answer may find a document or not.
ServeOrphan ==
    /\ \E o \in orphans :
          /\ o.phase = "sent"
          /\ \/ /\ Place(o.order)
                /\ orphans' = (orphans \ {o})
                      \cup (IF o.tab = Nobody THEN {} ELSE {[o EXCEPT !.phase = "ok"]})
             \/ /\ Place(o.order) \/ UNCHANGED <<stock, ordered, orders>>
                /\ orphans' = orphans \ {o}
    /\ UNCHANGED <<accounts, storage, user, me, at, cart, seen, removing, call, adds, clicks, history>>

\* Mutant: the cart is kept.
OrderPlacedCartKept(t) ==
    /\ Waits(t, "ok")
    /\ Load(t, "left", storage.user, storage.cart)
    /\ unheard' = unheard - call[t].quantity
    /\ UNCHANGED <<server, storage, adds, clicks, added, overtaken>>

\* The cart is cleared and the payment page loaded; it is no page of this module.
PaymentPage(t) ==
    /\ storage' = [storage EXCEPT !.cart = EmptyCart]
    /\ Load(t, "left", storage.user, EmptyCart)

OrderPlaced(t) ==
    /\ Waits(t, "ok")
    /\ PaymentPage(t)
    /\ unheard' = unheard - call[t].quantity
    /\ UNCHANGED <<server, adds, clicks, added, overtaken>>

\* handlePlaceOrder goes on after its page was left: it clears whatever cart there is by now.
OrphanPlaced(t) ==
    /\ \E o \in orphans : o.tab = t /\ o.phase = "ok"
    /\ PaymentPage(t)
    /\ unheard' = unheard + Unheard(t)
    /\ UNCHANGED <<server, adds, clicks, added, overtaken>>

\* The error is shown, the cart kept and the button enabled.
OrderFails(t) ==
    /\ Waits(t, "threw")
    /\ call' = [call EXCEPT ![t] = NoCall]
    /\ UNCHANGED <<server, storage, user, me, at, cart, seen, removing, orphans, adds, clicks, history>>

\* The stock moves: other customers, the admin.
StockMoves ==
    /\ stock' \in 0 .. MaxStock /\ stock' # stock
    /\ UNCHANGED <<accounts, orders, ordered, storage, user, me, at, cart, seen, removing,
                   call, orphans, adds, clicks, history>>

----------------------------------------------------------------------------
Session(t) ==
    \/ OpenTab(t) \/ ReceiveMe(t) \/ Guard(t) \/ Logout(t) \/ SignIn(t) \/ SignUp(t)
    \/ ServeLogin(t) \/ ServeRegister(t) \/ SignedIn(t) \/ Unauthorized(t) \/ FormFails(t)

Shop(t) ==
    \/ Visit(t) \/ LoadProduct(t) \/ AddFromList(t) \/ AddFromPage(t)
    \/ UpdateQuantity(t) \/ HandleRemove(t) \/ RemoveItem(t) \/ Checkout(t) \/ PlaceOrder(t)
    \/ ServeOrder(t) \/ ServeRefusal(t) \/ ServeAndThrow(t)
    \/ OrderPlaced(t) \/ OrphanPlaced(t) \/ OrderFails(t)

Next == (\E t \in Tabs : Session(t) \/ Shop(t)) \/ ServeOrphan \/ StockMoves

Spec == Init /\ [][Next]_vars

----------------------------------------------------------------------------
OneTab == Cardinality({t \in Tabs : at[t] # "closed"}) <= 1

\* With one tab nothing is bought that was not put into the cart: an order empties the cart,
\* here and in localStorage, and only an answer that is lost or whose page was left makes the
\* customer order the same units again.
BoughtOnce ==
    OneTab => ordered + storage.cart.quantity <= added + unheard

\* With one tab an order is placed for the user its page shows, unless that user signed in
\* while the session of another one was still being loaded: sign-in, sign-out and a refused
\* password change localStorage and the page together.
ActsAsShown ==
    OneTab /\ ~overtaken => \A o \in orders : o.as = o.shown

==============================================================================
