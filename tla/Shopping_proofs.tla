---------------------------- MODULE Shopping_proofs ----------------------------
(***************************************************************************)
(* Proofs about Shopping, for any number of tabs, users and orders: the    *)
(* state has its type, and a customer with one tab orders as the user that *)
(* the page shows and buys nothing twice.                                  *)
(***************************************************************************)
EXTENDS Shopping, FiniteSetTheorems, TLAPS

-----------------------------------------------------------------------------
(* Type correctness. *)

CallType ==
    [op : {"none", "login", "register", "order"}, as : Users \cup {Nobody},
     shown : Users \cup {Nobody}, quantity : 0 .. MaxStock, n : 0 .. MaxOrders,
     phase : {"sent", "ok", "threw", "denied"}]

\* An order was sent by a page that showed a user, a form with a user's address.
CallsNameUsers ==
    \A t \in Tabs :
        /\ call[t].op = "order" => call[t].shown \in Users /\ call[t].n \in 1 .. MaxOrders
        /\ call[t].op \in {"login", "register"} => call[t].as \in Users

TypeInv == TypeOK /\ CallsNameUsers

LEMMA NoCallType == NoCall \in CallType /\ NoCall.op = "none"
  BY ShoppingAssumption DEF NoCall, Call, CallType

LEMMA EmptyCartType == EmptyCart \in Cart
  BY ShoppingAssumption DEF EmptyCart, Cart

LEMMA InitType == Init => TypeInv
<1> SUFFICES ASSUME Init PROVE TypeInv
  OBVIOUS
<1>1. call \in [Tabs -> CallType] /\ CallsNameUsers
  BY NoCallType DEF Init, CallsNameUsers
<1>2. /\ storage \in [user : Users \cup {Nobody}, cart : Cart]
      /\ cart \in [Tabs -> Cart]
  BY EmptyCartType DEF Init
<1>3. /\ stock \in 0 .. MaxStock /\ adds \in 0 .. MaxAdds /\ clicks \in 0 .. MaxOrders
      /\ seen \in [Tabs -> 0 .. MaxStock]
      /\ added \in Nat /\ ordered \in Nat /\ unheard \in Int
  BY ShoppingAssumption DEF Init
<1> QED
  BY <1>1, <1>2, <1>3, ShoppingAssumption DEF Init, TypeInv, TypeOK, CallType

\* What a page that is left makes of its request.
LEMMA LeftBehindType ==
  ASSUME TypeInv, NEW t \in Tabs, NEW tab \in Tabs \cup {Nobody}
  PROVE  LeftBehind(t, tab) \subseteq Orphan
<1> SUFFICES ASSUME LeftBehind(t, tab) # {} PROVE LeftBehind(t, tab) \subseteq Orphan
  OBVIOUS
<1>1. /\ call[t] \in CallType /\ call[t].op = "order" /\ call[t].phase \in {"sent", "ok"}
      /\ LeftBehind(t, tab) =
           {[order |-> Placed(t), phase |-> call[t].phase, tab |-> tab, n |-> call[t].n]}
  BY DEF LeftBehind, Waits, TypeInv, TypeOK, CallType
<1>2. call[t].shown \in Users /\ call[t].n \in 1 .. MaxOrders
  BY <1>1 DEF TypeInv, CallsNameUsers
<1>3. Placed(t) \in Order
  BY <1>1, <1>2 DEF Placed, Order, CallType
<1> QED
  BY <1>1, <1>2, <1>3 DEF Orphan

LEMMA UnheardType ==
  ASSUME TypeInv, NEW t \in Tabs
  PROVE  unheard + Unheard(t) \in Int
  BY ShoppingAssumption DEF Unheard, TypeInv, TypeOK

\* The parts of the state that a page which is left, or loaded anew, changes.
LEMMA LeaveType ==
  ASSUME TypeInv, NEW t \in Tabs, Leave(t)
  PROVE  /\ orphans' \subseteq Orphan /\ unheard' \in Int
         /\ call' \in [Tabs -> CallType] /\ CallsNameUsers'
<1>1. orphans' \subseteq Orphan /\ unheard' \in Int
  BY LeftBehindType, UnheardType DEF Leave, TypeInv, TypeOK
<1>2. call' \in [Tabs -> CallType] /\ CallsNameUsers'
  BY NoCallType DEF Leave, TypeInv, TypeOK, CallsNameUsers, CallType
<1> QED
  BY <1>1, <1>2

LEMMA LoadType ==
  ASSUME TypeInv, NEW t \in Tabs, NEW page \in {"signin", "shop", "cart", "left"},
         NEW stored \in Users \cup {Nobody}, NEW items \in Cart,
         Load(t, page, stored, items)
  PROVE  /\ at' \in [Tabs -> {"closed", "signin", "left"} \cup Guarded]
         /\ user' \in [Tabs -> Users \cup {Nobody}] /\ me' \in [Tabs -> Users \cup {Nobody}]
         /\ cart' \in [Tabs -> Cart] /\ seen' \in [Tabs -> 0 .. MaxStock]
         /\ removing' \in [Tabs -> BOOLEAN]
         /\ orphans' \subseteq Orphan
         /\ call' \in [Tabs -> CallType] /\ CallsNameUsers'
<1>1. orphans' \subseteq Orphan
  <2>1. \A o \in orphans : [o EXCEPT !.tab = Nobody] \in Orphan
    BY DEF TypeInv, TypeOK, Orphan
  <2>2. LeftBehind(t, Nobody) \subseteq Orphan
    BY LeftBehindType
  <2> QED
    BY <2>1, <2>2 DEF Load, TypeInv, TypeOK
<1>2. call' \in [Tabs -> CallType] /\ CallsNameUsers'
  BY NoCallType DEF Load, TypeInv, TypeOK, CallsNameUsers, CallType
<1> QED
  BY <1>1, <1>2, ShoppingAssumption DEF Load, TypeInv, TypeOK, Guarded

LEMMA AnswerType ==
  ASSUME TypeInv, NEW t \in Tabs, NEW phase \in {"ok", "threw", "denied"}, Answer(t, phase)
  PROVE  call' \in [Tabs -> CallType] /\ CallsNameUsers'
<1>1. call \in [Tabs -> CallType]
  BY DEF TypeInv, TypeOK, CallType
<1>2. /\ call' = [call EXCEPT ![t] = [call[t] EXCEPT !.phase = phase]]
      /\ [call[t] EXCEPT !.phase = phase] \in CallType
      /\ [call[t] EXCEPT !.phase = phase].op = call[t].op
      /\ [call[t] EXCEPT !.phase = phase].shown = call[t].shown
      /\ [call[t] EXCEPT !.phase = phase].n = call[t].n
      /\ [call[t] EXCEPT !.phase = phase].as = call[t].as
  BY <1>1 DEF Answer, CallType
<1> QED
  BY <1>1, <1>2 DEF TypeInv, CallsNameUsers

LEMMA PlaceType ==
  ASSUME TypeInv, NEW o \in Order, Place(o)
  PROVE  stock' \in 0 .. MaxStock /\ ordered' \in Nat /\ orders' \subseteq Order
<1>1. o.quantity \in 0 .. MaxStock
  BY DEF Order
<1> QED
  BY <1>1, ShoppingAssumption DEF Place, TypeInv, TypeOK

LEMMA SetItemsType ==
  ASSUME TypeInv, NEW t \in Tabs, NEW items \in Cart, SetItems(t, items)
  PROVE  /\ cart' \in [Tabs -> Cart]
         /\ storage' \in [user : Users \cup {Nobody}, cart : Cart]
         /\ storage'.user = storage.user
  BY DEF SetItems, TypeInv, TypeOK

\* The session of a tab: opening, guard, sign-in and -out.
LEMMA SessionType ==
  ASSUME TypeInv, NEW t \in Tabs, Session(t)
  PROVE  TypeInv'
<1>0. /\ storage.user \in Users \cup {Nobody} /\ storage.cart \in Cart
      /\ call[t] \in CallType
  BY DEF TypeInv, TypeOK, CallType
<1>1. CASE OpenTab(t)
  <2>1. PICK page \in Landings : Load(t, page, storage.user, storage.cart)
    BY <1>1 DEF OpenTab
  <2>2. page \in {"signin", "shop", "cart", "left"}
    BY DEF Landings
  <2>3. unheard' \in Int
    BY <1>1, UnheardType DEF OpenTab
  <2>4. UNCHANGED <<accounts, stock, orders, ordered, storage, adds, clicks, added, overtaken>>
    BY <1>1 DEF OpenTab, server
  <2>5. /\ at' \in [Tabs -> {"closed", "signin", "left"} \cup Guarded]
        /\ user' \in [Tabs -> Users \cup {Nobody}] /\ me' \in [Tabs -> Users \cup {Nobody}]
        /\ cart' \in [Tabs -> Cart] /\ seen' \in [Tabs -> 0 .. MaxStock]
        /\ removing' \in [Tabs -> BOOLEAN]
        /\ orphans' \subseteq Orphan
        /\ call' \in [Tabs -> CallType] /\ CallsNameUsers'
    BY <1>0, <2>1, <2>2, LoadType
  <2> QED
    BY <2>3, <2>4, <2>5 DEF TypeInv, TypeOK, CallType
<1>2. CASE ReceiveMe(t)
  BY <1>2 DEF ReceiveMe, TypeInv, TypeOK, CallsNameUsers, server, history
<1>3. CASE Guard(t)
  BY <1>3, LeaveType DEF Guard, TypeInv, TypeOK, server, Guarded, CallType
<1>4. CASE Logout(t)
  BY <1>0, <1>4, LoadType, UnheardType DEF Logout, TypeInv, TypeOK, server, CallType
<1>5. CASE SignIn(t) \/ SignUp(t)
  <2>1. PICK op \in {"login", "register"}, u \in Users :
           call' = [call EXCEPT ![t] = Call(op, u, Nobody, 0, 0)]
    BY <1>5 DEF SignIn, SignUp, Submit
  <2>2. Call(op, u, Nobody, 0, 0) \in CallType /\ Call(op, u, Nobody, 0, 0).op # "order"
      /\ Call(op, u, Nobody, 0, 0).as \in Users
    BY ShoppingAssumption DEF Call, CallType
  <2>3. call' \in [Tabs -> CallType] /\ CallsNameUsers'
    BY <2>1, <2>2 DEF TypeInv, TypeOK, CallsNameUsers, CallType
  <2> QED
    BY <1>5, <2>3 DEF SignIn, SignUp, Submit, TypeInv, TypeOK, server, history, CallType
<1>6. CASE ServeLogin(t)
  <2>1. call' \in [Tabs -> CallType] /\ CallsNameUsers'
    BY <1>6, AnswerType DEF ServeLogin
  <2> QED
    BY <1>6, <2>1 DEF ServeLogin, TypeInv, TypeOK, server, history, CallType
<1>7. CASE ServeRegister(t)
  <2>1. call' \in [Tabs -> CallType] /\ CallsNameUsers'
    BY <1>7, AnswerType DEF ServeRegister
  <2>2. call[t].as \in Users
    BY <1>7 DEF ServeRegister, TypeInv, CallsNameUsers
  <2> QED
    BY <1>7, <2>1, <2>2 DEF ServeRegister, TypeInv, TypeOK, history, CallType
<1>8. CASE SignedIn(t)
  <2>1. call' \in [Tabs -> CallType] /\ CallsNameUsers'
    BY <1>8, NoCallType DEF SignedIn, TypeInv, TypeOK, CallsNameUsers, CallType
  <2>2. call[t].as \in Users \cup {Nobody}
    BY <1>0 DEF CallType
  <2> QED
    BY <1>8, <2>1, <2>2 DEF SignedIn, TypeInv, TypeOK, server, CallType, Guarded
<1>9. CASE Unauthorized(t)
  BY <1>0, <1>9, LoadType DEF Unauthorized, TypeInv, TypeOK, server, history, CallType
<1>10. CASE FormFails(t)
  <2>1. call' \in [Tabs -> CallType] /\ CallsNameUsers'
    BY <1>10, NoCallType DEF FormFails, TypeInv, TypeOK, CallsNameUsers, CallType
  <2> QED
    BY <1>10, <2>1 DEF FormFails, TypeInv, TypeOK, server, history, CallType
<1> QED
  BY <1>1, <1>2, <1>3, <1>4, <1>5, <1>6, <1>7, <1>8, <1>9, <1>10 DEF Session

LEMMA SmallerType ==
  ASSUME NEW a \in Nat, NEW b \in 0 .. MaxStock
  PROVE  Smaller(a, b) \in 0 .. MaxStock
  BY ShoppingAssumption DEF Smaller

\* The cart of a tab, and the order placed from it.
LEMMA CartType ==
  ASSUME TypeInv, NEW t \in Tabs,
         \/ Visit(t) \/ LoadProduct(t) \/ AddFromList(t) \/ AddFromPage(t)
         \/ UpdateQuantity(t) \/ HandleRemove(t) \/ RemoveItem(t) \/ Checkout(t)
  PROVE  TypeInv'
<1>0. /\ cart[t] \in Cart /\ cart[t].quantity \in 0 .. MaxStock /\ cart[t].stock \in 0 .. MaxStock
      /\ seen[t] \in 0 .. MaxStock
  BY DEF TypeInv, TypeOK, Cart
<1>1. CASE Visit(t)
  BY <1>1, LeaveType, ShoppingAssumption
     DEF Visit, TypeInv, TypeOK, server, Guarded, CallType
<1>2. CASE LoadProduct(t)
  BY <1>2 DEF LoadProduct, TypeInv, TypeOK, CallsNameUsers, server, history
<1>3. ASSUME NEW n \in Nat, AddItem(t, n)
      PROVE  TypeInv'
  <2>1. PICK items : /\ SetItems(t, items)
                     /\ \/ cart[t].quantity > 0 /\ items =
                              [cart[t] EXCEPT !.quantity = Smaller(cart[t].quantity + n, seen[t])]
                        \/ items = [quantity |-> Smaller(n, seen[t]), stock |-> seen[t]]
    BY <1>3 DEF AddItem
  <2>2. cart[t].quantity + n \in Nat
    BY <1>0, ShoppingAssumption
  <2>3. items \in Cart
    BY <1>0, <2>1, <2>2, SmallerType DEF Cart
  <2>4. adds' \in 0 .. MaxAdds /\ added' \in Nat
    BY <1>3, ShoppingAssumption DEF AddItem, TypeInv, TypeOK
  <2> QED
    BY <1>3, <2>1, <2>3, <2>4, SetItemsType
       DEF AddItem, TypeInv, TypeOK, CallsNameUsers, server
<1>4. CASE AddFromList(t) \/ AddFromPage(t)
  BY <1>0, <1>3, <1>4, ShoppingAssumption DEF AddFromList, AddFromPage
<1>5. ASSUME NEW n \in Nat, SetQuantity(t, n), adds' \in 0 .. MaxAdds, added' \in Nat
      PROVE  TypeInv'
  <2>1. [cart[t] EXCEPT !.quantity = Smaller(n, cart[t].stock)] \in Cart
    BY <1>0, SmallerType DEF Cart
  <2> QED
    BY <1>5, <2>1, SetItemsType DEF SetQuantity, TypeInv, TypeOK, CallsNameUsers, server
<1>6. CASE UpdateQuantity(t)
  <2>1. \E n \in Nat : SetQuantity(t, n)
    BY <1>0, <1>6, ShoppingAssumption DEF UpdateQuantity
  <2>2. adds' \in 0 .. MaxAdds /\ added' \in Nat
    BY <1>6, ShoppingAssumption DEF UpdateQuantity, TypeInv, TypeOK
  <2> QED
    BY <1>5, <2>1, <2>2
<1>7. CASE HandleRemove(t)
  BY <1>7 DEF HandleRemove, TypeInv, TypeOK, CallsNameUsers, server, history
<1>8. CASE RemoveItem(t)
  <2>1. SetItems(t, EmptyCart)
    BY <1>8 DEF RemoveItem
  <2>2. /\ cart' \in [Tabs -> Cart]
        /\ storage' \in [user : Users \cup {Nobody}, cart : Cart]
    BY <2>1, EmptyCartType, SetItemsType
  <2>3. CASE at[t] = "checkout"
    BY <1>8, <2>2, <2>3, LeaveType DEF RemoveItem, TypeInv, TypeOK, server, Guarded, CallType
  <2>4. CASE at[t] # "checkout"
    BY <1>8, <2>2, <2>4 DEF RemoveItem, TypeInv, TypeOK, CallsNameUsers, server
  <2> QED
    BY <2>3, <2>4
<1>9. CASE Checkout(t)
  BY <1>9 DEF Checkout, TypeInv, TypeOK, CallsNameUsers, server, history, Guarded
<1> QED
  BY <1>1, <1>2, <1>4, <1>6, <1>7, <1>8, <1>9

\* What a tab does when an order of its document was placed.
LEMMA PaymentPageType ==
  ASSUME TypeInv, NEW t \in Tabs, PaymentPage(t), unheard' \in Int,
         UNCHANGED <<server, adds, clicks, added, overtaken>>
  PROVE  TypeInv'
<1>1. storage.user \in Users \cup {Nobody} /\ Load(t, "left", storage.user, EmptyCart)
  BY DEF PaymentPage, TypeInv, TypeOK
<1>2. storage' \in [user : Users \cup {Nobody}, cart : Cart]
  BY EmptyCartType DEF PaymentPage, TypeInv, TypeOK
<1> QED
  BY <1>1, <1>2, EmptyCartType, LoadType DEF TypeInv, TypeOK, server, CallType

LEMMA CheckoutType ==
  ASSUME TypeInv, NEW t \in Tabs,
         \/ PlaceOrder(t) \/ ServeOrder(t) \/ ServeRefusal(t) \/ ServeAndThrow(t)
         \/ OrderPlaced(t) \/ OrphanPlaced(t) \/ OrderFails(t)
  PROVE  TypeInv'
<1>0. /\ call[t] \in CallType /\ call[t].quantity \in 0 .. MaxStock
      /\ call[t].op = "order" => Placed(t) \in Order
  BY DEF TypeInv, TypeOK, CallsNameUsers, CallType, Placed, Order
<1>1. CASE PlaceOrder(t)
  <2>1. /\ storage.user \in Users \cup {Nobody} /\ user[t] \in Users
        /\ cart[t].quantity \in 0 .. MaxStock
    BY <1>1 DEF PlaceOrder, OrderOffered, On, TypeInv, TypeOK, Cart
  <2>2. clicks' \in 1 .. MaxOrders
    BY <1>1, ShoppingAssumption DEF PlaceOrder, TypeInv, TypeOK
  <2> DEFINE sent == Call("order", storage.user, user[t], cart[t].quantity, clicks')
  <2>3. sent \in CallType /\ sent.op = "order" /\ sent.shown \in Users /\ sent.n \in 1 .. MaxOrders
    BY <2>1, <2>2 DEF Call, CallType
  <2> HIDE DEF sent
  <2>4. call' = [call EXCEPT ![t] = sent]
    BY <1>1 DEF PlaceOrder, sent
  <2>5. call' \in [Tabs -> CallType] /\ CallsNameUsers'
    BY <2>3, <2>4 DEF TypeInv, TypeOK, CallsNameUsers, CallType
  <2> QED
    BY <1>1, <2>2, <2>5 DEF PlaceOrder, TypeInv, TypeOK, server, history, CallType
<1>2. CASE ServeOrder(t) \/ ServeAndThrow(t)
  <2>1. Placed(t) \in Order /\ Place(Placed(t)) /\ unheard' = unheard + call[t].quantity
    BY <1>0, <1>2 DEF ServeOrder, ServeAndThrow, Waits
  <2>2. stock' \in 0 .. MaxStock /\ ordered' \in Nat /\ orders' \subseteq Order
    BY <2>1, PlaceType
  <2>3. unheard' \in Int
    BY <1>0, <2>1, ShoppingAssumption DEF TypeInv, TypeOK
  <2>4. call' \in [Tabs -> CallType] /\ CallsNameUsers'
    BY <1>2, AnswerType DEF ServeOrder, ServeAndThrow
  <2> QED
    BY <1>2, <2>2, <2>3, <2>4 DEF ServeOrder, ServeAndThrow, TypeInv, TypeOK, CallType
<1>3. CASE ServeRefusal(t)
  <2>1. call' \in [Tabs -> CallType] /\ CallsNameUsers'
    BY <1>3, AnswerType DEF ServeRefusal
  <2> QED
    BY <1>3, <2>1 DEF ServeRefusal, TypeInv, TypeOK, server, history, CallType
<1>4. CASE OrderPlaced(t)
  <2>1. unheard' \in Int
    BY <1>0, <1>4, ShoppingAssumption DEF OrderPlaced, TypeInv, TypeOK
  <2> QED
    BY <1>4, <2>1, PaymentPageType DEF OrderPlaced
<1>5. CASE OrphanPlaced(t)
  <2>1. unheard' \in Int
    BY <1>5, UnheardType DEF OrphanPlaced
  <2> QED
    BY <1>5, <2>1, PaymentPageType DEF OrphanPlaced
<1>6. CASE OrderFails(t)
  <2>1. call' \in [Tabs -> CallType] /\ CallsNameUsers'
    BY <1>6, NoCallType DEF OrderFails, TypeInv, TypeOK, CallsNameUsers, CallType
  <2> QED
    BY <1>6, <2>1 DEF OrderFails, TypeInv, TypeOK, server, history, CallType
<1> QED
  BY <1>1, <1>2, <1>3, <1>4, <1>5, <1>6

LEMMA NextType == TypeInv /\ [Next]_vars => TypeInv'
<1> SUFFICES ASSUME TypeInv, [Next]_vars PROVE TypeInv'
  OBVIOUS
<1>1. ASSUME NEW t \in Tabs, Session(t) \/ Shop(t) PROVE TypeInv'
  BY <1>1, SessionType, CartType, CheckoutType DEF Shop
<1>2. CASE ServeOrphan
  <2>1. PICK o \in orphans :
           /\ Place(o.order) \/ UNCHANGED <<stock, ordered, orders>>
           /\ orphans' \subseteq orphans \cup {[o EXCEPT !.phase = "ok"]}
    BY <1>2 DEF ServeOrphan
  <2>2. o \in Orphan
    BY DEF TypeInv, TypeOK
  <2>3. o.order \in Order /\ [o EXCEPT !.phase = "ok"] \in Orphan
    BY <2>2 DEF Orphan
  <2>4. stock' \in 0 .. MaxStock /\ ordered' \in Nat /\ orders' \subseteq Order
    BY <2>1, <2>3, PlaceType DEF TypeInv, TypeOK
  <2> QED
    BY <1>2, <2>1, <2>3, <2>4 DEF ServeOrphan, TypeInv, TypeOK, CallsNameUsers, history
<1>3. CASE StockMoves
  BY <1>3 DEF StockMoves, TypeInv, TypeOK, CallsNameUsers, history
<1>4. CASE UNCHANGED vars
  BY <1>4 DEF vars, TypeInv, TypeOK, CallsNameUsers
<1> QED
  BY <1>1, <1>2, <1>3, <1>4 DEF Next

LEMMA AlwaysTyped == Spec => []TypeInv
  BY InitType, NextType, PTL DEF Spec

\* Every variable of the shop has its type: no cart holds more than the stock it has seen, no
\* stock is negative, for any number of tabs, users and orders.
THEOREM TypeCorrect == Spec => []TypeOK
<1>1. TypeInv => TypeOK
  BY DEF TypeInv
<1> QED
  BY <1>1, AlwaysTyped, PTL

-----------------------------------------------------------------------------
(* A customer with one tab orders as the user that the page shows. *)

OpenTabs == {t \in Tabs : at[t] # "closed"}

\* No two tabs are open: what OneTab says without counting.
Single == \A t, u \in OpenTabs : t = u

\* A tab shows, and waits for, no other user than the one localStorage has; what it orders it
\* orders as the user it shows.
InStep(t) ==
    /\ me[t] \in {Nobody, storage.user} /\ user[t] \in {Nobody, storage.user}
    /\ call[t].op = "order" => call[t].as = call[t].shown
    /\ at[t] = "closed" => me[t] = Nobody /\ user[t] = Nobody /\ call[t] = NoCall

Matching == \A o \in orders \cup {x.order : x \in orphans} : o.as = o.shown

InStepInv ==
    /\ IsFiniteSet(OpenTabs)
    /\ Single /\ ~overtaken => Matching /\ \A t \in Tabs : InStep(t)

LEMMA OneTabIsSingle ==
  ASSUME IsFiniteSet(OpenTabs), OneTab
  PROVE  Single
<1> SUFFICES ASSUME NEW t \in OpenTabs, NEW u \in OpenTabs, t # u PROVE FALSE
  BY DEF Single
<1>1. IsFiniteSet({t}) /\ Cardinality({t}) = 1
  BY FS_Singleton
<1>2. Cardinality({t} \cup {u}) = 2
  <2>1. u \notin {t}
    OBVIOUS
  <2>2. Cardinality({t} \cup {u}) =
            IF u \in {t} THEN Cardinality({t}) ELSE Cardinality({t}) + 1
    BY <1>1, FS_AddElement
  <2> QED
    BY <1>1, <2>1, <2>2
<1>3. {t} \cup {u} \in SUBSET OpenTabs
  OBVIOUS
<1>4. Cardinality(OpenTabs) \in Nat /\ Cardinality({t} \cup {u}) <= Cardinality(OpenTabs)
  BY <1>3, FS_Subset, FS_CardinalityType
<1> QED
  BY <1>2, <1>4 DEF OneTab, OpenTabs

LEMMA InStepInit == Init => InStepInv
<1> SUFFICES ASSUME Init PROVE InStepInv
  OBVIOUS
<1>1. OpenTabs = {}
  BY DEF Init, OpenTabs
<1>2. Matching /\ \A t \in Tabs : InStep(t)
  BY DEF Init, Matching, InStep, NoCall, Call
<1> QED
  BY <1>1, <1>2, FS_EmptySet DEF InStepInv

\* Tabs are opened and never closed, and an overtaken session stays one.
LEMMA OpenTabsGrow ==
  ASSUME TypeOK, IsFiniteSet(OpenTabs), [Next]_vars
  PROVE  IsFiniteSet(OpenTabs') /\ (Single' => Single) /\ (overtaken => overtaken')
<1>0. ASSUME NEW t \in Tabs, Session(t)
      PROVE  at' = at \/ \E page \in {"signin", "left"} \cup Guarded : at' = [at EXCEPT ![t] = page]
  BY <1>0 DEF Session, OpenTab, ReceiveMe, Guard, Logout, SignIn, SignUp, Submit, ServeLogin,
         ServeRegister, SignedIn, Unauthorized, FormFails, Load, Landings, Guarded
<1>1. \/ at' = at
      \/ \E t \in Tabs, page \in {"signin", "left"} \cup Guarded : at' = [at EXCEPT ![t] = page]
  <2>1. ASSUME NEW t \in Tabs, Shop(t)
        PROVE  \/ at' = at
               \/ \E page \in {"signin", "left"} \cup Guarded : at' = [at EXCEPT ![t] = page]
    BY <2>1 DEF Shop, Visit, LoadProduct, AddFromList, AddFromPage, AddItem, UpdateQuantity,
         SetQuantity, HandleRemove, RemoveItem, Checkout, PlaceOrder, ServeOrder, ServeRefusal,
         ServeAndThrow, OrderPlaced, OrphanPlaced, PaymentPage, OrderFails, Load, Guarded
  <2>2. ServeOrphan \/ StockMoves \/ UNCHANGED vars => at' = at
    BY DEF ServeOrphan, StockMoves, vars
  <2> QED
    BY <1>0, <2>1, <2>2 DEF Next
<1>2. overtaken => overtaken'
  BY DEF Next, Session, Shop, OpenTab, ReceiveMe, Guard, Logout, SignIn, SignUp, Submit, ServeLogin,
         ServeRegister, SignedIn, Unauthorized, FormFails, Visit, LoadProduct, AddFromList,
         AddFromPage, AddItem, UpdateQuantity, SetQuantity, HandleRemove, RemoveItem, Checkout,
         PlaceOrder, ServeOrder, ServeRefusal, ServeAndThrow, OrderPlaced, OrphanPlaced,
         OrderFails, ServeOrphan, StockMoves, history, vars
<1>3. CASE at' = at
  BY <1>2, <1>3 DEF OpenTabs, Single
<1>4. ASSUME NEW t \in Tabs, NEW page \in {"signin", "left"} \cup Guarded,
             at' = [at EXCEPT ![t] = page]
      PROVE  IsFiniteSet(OpenTabs') /\ (Single' => Single)
  <2>1. OpenTabs \subseteq OpenTabs' /\ OpenTabs' \in SUBSET (OpenTabs \cup {t})
    BY <1>4 DEF OpenTabs, TypeOK, Guarded
  <2>2. IsFiniteSet(OpenTabs')
    BY <2>1, FS_AddElement, FS_Subset
  <2> QED
    BY <2>1, <2>2 DEF Single
<1> QED
  BY <1>1, <1>2, <1>3, <1>4

\* A step of one tab that is open afterwards: the others are closed and have nobody to show.
LEMMA TabKeepsStep ==
  ASSUME TypeOK, NEW t \in Tabs, \A u \in Tabs : InStep(u), Single', at'[t] # "closed",
         \A u \in Tabs \ {t} : /\ at'[u] = at[u] /\ user'[u] = user[u] /\ me'[u] = me[u]
                                /\ call'[u] = call[u],
         InStep(t)'
  PROVE  \A u \in Tabs : InStep(u)'
<1> SUFFICES ASSUME NEW u \in Tabs, u # t PROVE InStep(u)'
  OBVIOUS
<1>1. t \in OpenTabs'
  BY DEF OpenTabs
<1>2. at'[u] = "closed"
  BY <1>1 DEF OpenTabs, Single
<1> QED
  BY <1>2 DEF InStep, NoCall, Call

\* What is left behind is what the tab ordered.
LEMMA LeftBehindMatches ==
  ASSUME NEW t \in Tabs, InStep(t), NEW tab
  PROVE  \A x \in LeftBehind(t, tab) : x.order.as = x.order.shown
  BY DEF LeftBehind, Waits, Placed, InStep

LEMMA LeaveKeepsStep ==
  ASSUME TypeOK, NEW t \in Tabs, Matching, InStep(t), Leave(t), orders' = orders
  PROVE  Matching' /\ call'[t] = NoCall /\ \A u \in Tabs \ {t} : call'[u] = call[u]
  BY LeftBehindMatches DEF Leave, Matching, TypeOK

LEMMA LoadKeepsStep ==
  ASSUME TypeOK, NEW t \in Tabs, Matching, \A u \in Tabs : InStep(u), Single',
         NEW page \in {"signin", "shop", "cart", "left"}, NEW stored, NEW items,
         Load(t, page, stored, items), orders' = orders,
         storage'.user = stored
  PROVE  Matching' /\ \A u \in Tabs : InStep(u)'
<1>1. Matching'
  <2>1. ASSUME NEW x \in orphans' PROVE x.order.as = x.order.shown
    <3>1. \/ x \in orphans
          \/ x \in LeftBehind(t, Nobody)
          \/ \E y \in orphans : x = [y EXCEPT !.tab = Nobody]
      BY DEF Load
    <3>2. \A y \in orphans : y.order.as = y.order.shown /\ y \in Orphan
      BY DEF Matching, TypeOK
    <3> QED
      BY <3>1, <3>2, LeftBehindMatches DEF Orphan
  <2> QED
    BY <2>1 DEF Matching
<1>2. /\ at'[t] = page /\ user'[t] = Nobody /\ me'[t] = stored /\ call'[t] = NoCall
      /\ \A u \in Tabs \ {t} : /\ at'[u] = at[u] /\ user'[u] = user[u] /\ me'[u] = me[u]
                                /\ call'[u] = call[u]
  BY DEF Load, TypeOK
<1>3. InStep(t)'
  BY <1>2 DEF InStep, NoCall, Call
<1> QED
  BY <1>1, <1>2, <1>3, TabKeepsStep

LEMMA SessionKeepsStep ==
  ASSUME TypeOK, NEW t \in Tabs, Matching, \A u \in Tabs : InStep(u), Single', ~overtaken',
         Session(t)
  PROVE  Matching' /\ \A u \in Tabs : InStep(u)'
<1>1. CASE OpenTab(t)
  <2>1. PICK page \in {"signin", "shop", "cart", "left"} :
           Load(t, page, storage.user, storage.cart)
    BY <1>1 DEF OpenTab, Landings
  <2> QED
    BY <1>1, <2>1, LoadKeepsStep DEF OpenTab, server
<1>2. CASE ReceiveMe(t)
  <2>1. /\ UNCHANGED <<at, call, orphans, orders, storage>>
        /\ me'[t] = Nobody /\ user'[t] \in {me[t], Nobody} /\ me[t] # Nobody
        /\ \A u \in Tabs \ {t} : user'[u] = user[u] /\ me'[u] = me[u]
    BY <1>2 DEF ReceiveMe, server, TypeOK
  <2> QED
    BY <2>1 DEF Matching, InStep
<1>3. CASE Guard(t)
  <2>1. Matching' /\ call'[t] = NoCall /\ \A u \in Tabs \ {t} : call'[u] = call[u]
    BY <1>3, LeaveKeepsStep DEF Guard, server
  <2>2. /\ at'[t] = "signin" /\ UNCHANGED <<user, me, storage>>
        /\ \A u \in Tabs \ {t} : at'[u] = at[u]
    BY <1>3 DEF Guard, TypeOK
  <2> QED
    BY <2>1, <2>2 DEF InStep, NoCall, Call
<1>4. CASE Logout(t)
  <2>1. Load(t, "signin", Nobody, storage.cart) /\ storage'.user = Nobody /\ orders' = orders
    BY <1>4 DEF Logout, server, TypeOK
  <2> QED
    BY <2>1, LoadKeepsStep
<1>5. CASE SignIn(t) \/ SignUp(t)
  <2>1. /\ UNCHANGED <<at, user, me, orphans, orders, storage>>
        /\ at[t] = "signin" /\ call'[t].op # "order"
        /\ \A u \in Tabs \ {t} : call'[u] = call[u]
    BY <1>5 DEF SignIn, SignUp, Submit, FormEnabled, Call, server, TypeOK
  <2> QED
    BY <2>1 DEF Matching, InStep
<1>6. CASE ServeLogin(t) \/ ServeRegister(t)
  <2>1. /\ UNCHANGED <<at, user, me, orphans, orders, storage>>
        /\ call[t].op \in {"login", "register"} /\ call'[t].op = call[t].op
        /\ \A u \in Tabs \ {t} : call'[u] = call[u]
    BY <1>6 DEF ServeLogin, ServeRegister, Answer, server, TypeOK
  <2> QED
    BY <2>1 DEF Matching, InStep, NoCall, Call
<1>7. CASE SignedIn(t)
  <2>1. /\ UNCHANGED <<me, orphans, orders>> /\ me[t] = Nobody
        /\ storage'.user = call[t].as /\ user'[t] = call[t].as
        /\ at'[t] = "shop" /\ call'[t] = NoCall
        /\ \A u \in Tabs \ {t} : at'[u] = at[u] /\ user'[u] = user[u] /\ call'[u] = call[u]
    BY <1>7 DEF SignedIn, server, TypeOK
  <2>2. InStep(t)'
    BY <2>1 DEF InStep, NoCall, Call
  <2>3. Matching'
    BY <2>1 DEF Matching
  <2> QED
    BY <2>1, <2>2, <2>3, TabKeepsStep
<1>8. CASE Unauthorized(t)
  <2>1. Load(t, "signin", Nobody, storage.cart) /\ storage'.user = Nobody /\ orders' = orders
    BY <1>8 DEF Unauthorized, server, TypeOK
  <2> QED
    BY <2>1, LoadKeepsStep
<1>9. CASE FormFails(t)
  <2>1. /\ UNCHANGED <<at, user, me, orphans, orders, storage>> /\ call'[t] = NoCall
        /\ \A u \in Tabs \ {t} : call'[u] = call[u]
    BY <1>9 DEF FormFails, server, TypeOK
  <2> QED
    BY <2>1 DEF Matching, InStep, NoCall, Call
<1> QED
  BY <1>1, <1>2, <1>3, <1>4, <1>5, <1>6, <1>7, <1>8, <1>9 DEF Session

LEMMA ShopKeepsStep ==
  ASSUME TypeOK, NEW t \in Tabs, Matching, \A u \in Tabs : InStep(u), Single', Shop(t)
  PROVE  Matching' /\ \A u \in Tabs : InStep(u)'
<1>1. CASE LoadProduct(t) \/ AddFromList(t) \/ AddFromPage(t) \/ UpdateQuantity(t) \/ HandleRemove(t)
  <2>1. UNCHANGED <<at, user, me, call, orphans, orders>> /\ storage'.user = storage.user
    BY <1>1 DEF LoadProduct, AddFromList, AddFromPage, AddItem, UpdateQuantity, SetQuantity, SetItems,
                HandleRemove, server, TypeOK
  <2> QED
    BY <2>1 DEF Matching, InStep
<1>2. CASE Visit(t) \/ (RemoveItem(t) /\ at[t] = "checkout")
  <2>1. /\ Leave(t) /\ UNCHANGED <<user, me, orders>> /\ storage'.user = storage.user
        /\ at'[t] # "closed" /\ \A u \in Tabs \ {t} : at'[u] = at[u]
    BY <1>2 DEF Visit, RemoveItem, SetItems, server, TypeOK
  <2>2. Matching' /\ call'[t] = NoCall /\ \A u \in Tabs \ {t} : call'[u] = call[u]
    BY <2>1, LeaveKeepsStep
  <2> QED
    BY <2>1, <2>2 DEF InStep, NoCall, Call
<1>3. CASE RemoveItem(t) /\ at[t] # "checkout"
  <2>1. UNCHANGED <<at, user, me, call, orphans, orders>> /\ storage'.user = storage.user
    BY <1>3 DEF RemoveItem, SetItems, server, TypeOK
  <2> QED
    BY <2>1 DEF Matching, InStep
<1>4. CASE Checkout(t)
  <2>1. /\ UNCHANGED <<user, me, call, orphans, orders, storage>>
        /\ at'[t] # "closed" /\ \A u \in Tabs \ {t} : at'[u] = at[u]
    BY <1>4 DEF Checkout, server, TypeOK
  <2> QED
    BY <2>1 DEF Matching, InStep
<1>5. CASE PlaceOrder(t)
  <2>1. /\ UNCHANGED <<at, user, me, orphans, orders, storage>> /\ at[t] = "checkout"
        /\ user[t] # Nobody
        /\ call'[t] = Call("order", storage.user, user[t], cart[t].quantity, clicks')
        /\ \A u \in Tabs \ {t} : call'[u] = call[u]
    BY <1>5 DEF PlaceOrder, OrderOffered, On, server, TypeOK
  <2>2. call'[t].as = storage.user /\ call'[t].shown = user[t]
    BY <2>1 DEF Call
  <2> QED
    BY <2>1, <2>2 DEF Matching, InStep
<1>6. CASE ServeOrder(t) \/ ServeAndThrow(t) \/ ServeRefusal(t)
  <2>1. /\ UNCHANGED <<at, user, me, orphans, storage>> /\ call[t].op = "order"
        /\ orders' \in {orders, orders \cup {Placed(t)}}
        /\ \E phase \in {"ok", "threw"} : Answer(t, phase)
    BY <1>6 DEF ServeOrder, ServeAndThrow, ServeRefusal, Waits, Place, server
  <2>2. /\ call'[t].op = call[t].op /\ call'[t].as = call[t].as /\ call'[t].shown = call[t].shown
        /\ \A u \in Tabs \ {t} : call'[u] = call[u]
    BY <2>1 DEF Answer, TypeOK
  <2>3. Placed(t).as = Placed(t).shown
    BY <2>1 DEF Placed, InStep
  <2>4. Matching'
    BY <2>1, <2>3 DEF Matching
  <2> QED
    BY <2>1, <2>2, <2>4 DEF InStep, NoCall, Call
<1>7. CASE OrderPlaced(t) \/ OrphanPlaced(t)
  <2>1. Load(t, "left", storage.user, EmptyCart) /\ storage'.user = storage.user /\ orders' = orders
    BY <1>7 DEF OrderPlaced, OrphanPlaced, PaymentPage, server, TypeOK
  <2> QED
    BY <2>1, LoadKeepsStep
<1>8. CASE OrderFails(t)
  <2>1. /\ UNCHANGED <<at, user, me, orphans, orders, storage>> /\ call'[t] = NoCall
        /\ \A u \in Tabs \ {t} : call'[u] = call[u]
    BY <1>8 DEF OrderFails, server, TypeOK
  <2> QED
    BY <2>1 DEF Matching, InStep, NoCall, Call
<1> QED
  BY <1>1, <1>2, <1>3, <1>4, <1>5, <1>6, <1>7, <1>8 DEF Shop

LEMMA NextInStep == TypeOK /\ InStepInv /\ [Next]_vars => InStepInv'
<1> SUFFICES ASSUME TypeOK, InStepInv, [Next]_vars PROVE InStepInv'
  OBVIOUS
<1>0. IsFiniteSet(OpenTabs') /\ (Single' => Single) /\ (overtaken => overtaken')
  BY OpenTabsGrow DEF InStepInv
<1> SUFFICES ASSUME Single', ~overtaken', Matching, \A t \in Tabs : InStep(t)
             PROVE  Matching' /\ \A t \in Tabs : InStep(t)'
  BY <1>0 DEF InStepInv
<1>1. ASSUME NEW t \in Tabs, Session(t) \/ Shop(t)
      PROVE  Matching' /\ \A u \in Tabs : InStep(u)'
  BY <1>1, SessionKeepsStep, ShopKeepsStep
<1>2. CASE ServeOrphan
  <2>1. PICK o \in orphans :
           /\ orders' \in {orders, orders \cup {o.order}}
           /\ orphans' \subseteq orphans \cup {[o EXCEPT !.phase = "ok"]}
    BY <1>2 DEF ServeOrphan, Place
  <2>2. o.order.as = o.order.shown /\ [o EXCEPT !.phase = "ok"].order = o.order
    BY DEF Matching, TypeOK, Orphan
  <2>3. Matching'
    BY <2>1, <2>2 DEF Matching
  <2> QED
    BY <1>2, <2>3 DEF ServeOrphan, InStep
<1>3. CASE StockMoves
  BY <1>3 DEF StockMoves, Matching, InStep
<1>4. CASE UNCHANGED vars
  BY <1>4 DEF vars, Matching, InStep
<1> QED
  BY <1>1, <1>2, <1>3, <1>4 DEF Next

\* With one tab every order is placed for the user its page shows, unless a sign-in came before
\* the session was loaded: what changes localStorage changes the page with it.
THEOREM OrdersAreForTheUserShown == Spec => []ActsAsShown
<1>1. InStepInv => ActsAsShown
  BY OneTabIsSingle DEF InStepInv, ActsAsShown, Matching
<1> QED
  BY <1>1, InStepInit, NextInStep, TypeCorrect, PTL DEF Spec

-----------------------------------------------------------------------------
(* A customer with one tab buys nothing that was not put into the cart. *)

\* The units of the n-th order, and those of orders under way whose page was left.
Units(n, q) == {u \in (1 .. MaxOrders) \X (1 .. MaxStock) : u[1] = n /\ u[2] <= q}
UnderWay == {u \in (1 .. MaxOrders) \X (1 .. MaxStock) :
                \E o \in orphans : o.phase = "sent" /\ u \in Units(o.n, o.order.quantity)}

\* No two orders have one number, waited for or left behind.
Numbered ==
    /\ \A o \in orphans : o.n <= clicks
    /\ \A o, p \in orphans : o.n = p.n => o = p
    /\ \A t \in Tabs : call[t].op = "order" =>
          /\ call[t].n <= clicks /\ at[t] = "checkout"
          /\ \A o \in orphans : o.n # call[t].n
          /\ \A u \in Tabs : call[u].op = "order" /\ call[u].n = call[t].n => u = t

\* The cart of the tab is the stored one, and does not change while an order waits.
InCart(t) ==
    /\ at[t] = "closed" => call[t] = NoCall /\ ~removing[t]
    /\ at[t] # "closed" => cart[t] = storage.cart
    /\ call[t].op = "order" => call[t].quantity = cart[t].quantity

\* What may still be placed by orders left behind counts as placed: they were counted as
\* unheard when their page was left.
Paid == Cardinality(UnderWay) + ordered + storage.cart.quantity <= added + unheard

BuyInv == Numbered /\ (Single => Paid /\ \A t \in Tabs : InCart(t))

LEMMA UnitsCount ==
  ASSUME NEW n \in 1 .. MaxOrders, NEW q \in 0 .. MaxStock
  PROVE  IsFiniteSet(Units(n, q)) /\ Cardinality(Units(n, q)) = q
<1> DEFINE f == [k \in 1 .. q |-> <<n, k>>]
<1>1. IsFiniteSet(1 .. q) /\ Cardinality(1 .. q) = q
  BY FS_Interval, ShoppingAssumption
<1>2. /\ f \in [1 .. q -> Units(n, q)]
      /\ \A u \in Units(n, q) : \E k \in 1 .. q : f[k] = u
  BY ShoppingAssumption DEF Units
<1>3. \A k, l \in 1 .. q : f[k] = f[l] => k = l
  OBVIOUS
<1>4. f \in Bijection(1 .. q, Units(n, q))
  BY <1>2, <1>3 DEF Bijection, Injection, Surjection, IsInjective
<1> QED
  BY <1>1, <1>4, FS_Bijection DEF ExistsBijection

LEMMA AllUnits ==
  ASSUME NEW S, S \subseteq (1 .. MaxOrders) \X (1 .. MaxStock)
  PROVE  IsFiniteSet(S) /\ Cardinality(S) \in Nat
<1>1. IsFiniteSet(1 .. MaxOrders) /\ IsFiniteSet(1 .. MaxStock)
  BY FS_Interval, ShoppingAssumption
<1>2. IsFiniteSet((1 .. MaxOrders) \X (1 .. MaxStock))
  BY <1>1, FS_Product
<1>3. S \in SUBSET ((1 .. MaxOrders) \X (1 .. MaxStock))
  OBVIOUS
<1> QED
  BY <1>2, <1>3, FS_Subset, FS_CardinalityType

LEMMA UnderWayCounts ==
  /\ IsFiniteSet(UnderWay) /\ Cardinality(UnderWay) \in Nat
  /\ IsFiniteSet(UnderWay') /\ Cardinality(UnderWay') \in Nat
<1>1. /\ UnderWay \subseteq (1 .. MaxOrders) \X (1 .. MaxStock)
      /\ UnderWay' \subseteq (1 .. MaxOrders) \X (1 .. MaxStock)
  BY DEF UnderWay
<1> HIDE DEF UnderWay
<1> QED
  BY <1>1, AllUnits

\* Fewer orders under way, or none that is new.
LEMMA UnderWayShrinks ==
  ASSUME UnderWay' \subseteq UnderWay
  PROVE  Cardinality(UnderWay') <= Cardinality(UnderWay)
<1>1. UnderWay' \in SUBSET UnderWay
  OBVIOUS
<1> HIDE DEF UnderWay
<1> QED
  BY <1>1, UnderWayCounts, FS_Subset

\* An order that is left behind adds its units.
LEMMA UnderWayGrows ==
  ASSUME NEW n \in 1 .. MaxOrders, NEW q \in 0 .. MaxStock,
         UnderWay' \subseteq UnderWay \cup Units(n, q)
  PROVE  Cardinality(UnderWay') <= Cardinality(UnderWay) + q
<1> HIDE DEF UnderWay, Units
<1>1. IsFiniteSet(Units(n, q)) /\ Cardinality(Units(n, q)) = q
  BY UnitsCount
<1> DEFINE both == UnderWay \cup Units(n, q)
           common == UnderWay \cap Units(n, q)
<1>2. /\ IsFiniteSet(both)
      /\ Cardinality(both) = Cardinality(UnderWay) + q - Cardinality(common)
  BY <1>1, UnderWayCounts, FS_Union
<1>3. Cardinality(common) \in Nat
  <2>1. common \in SUBSET UnderWay
    OBVIOUS
  <2> QED
    BY <2>1, UnderWayCounts, FS_Subset, FS_CardinalityType
<1>4. UnderWay' \in SUBSET both
  OBVIOUS
<1>5. Cardinality(UnderWay') <= Cardinality(both)
  BY <1>2, <1>4, FS_Subset
<1> HIDE DEF both, common
<1> QED
  BY <1>2, <1>3, <1>5, UnderWayCounts

\* An order that is served takes its units away.
LEMMA UnderWayServed ==
  ASSUME NEW n \in 1 .. MaxOrders, NEW q \in 0 .. MaxStock,
         Units(n, q) \subseteq UnderWay, UnderWay' \subseteq UnderWay \ Units(n, q)
  PROVE  Cardinality(UnderWay') + q <= Cardinality(UnderWay)
<1> HIDE DEF UnderWay, Units
<1>1. IsFiniteSet(Units(n, q)) /\ Cardinality(Units(n, q)) = q
  BY UnitsCount
<1> DEFINE both == UnderWay' \cup Units(n, q)
<1>2. UnderWay' \cap Units(n, q) = {}
  OBVIOUS
<1>3. Cardinality(both) = Cardinality(UnderWay') + q - Cardinality(UnderWay' \cap Units(n, q))
  BY <1>1, UnderWayCounts, FS_Union
<1>4. Cardinality(UnderWay' \cap Units(n, q)) = 0
  BY <1>2, FS_EmptySet
<1>5. both \in SUBSET UnderWay
  OBVIOUS
<1>6. Cardinality(both) <= Cardinality(UnderWay)
  BY <1>5, UnderWayCounts, FS_Subset
<1> HIDE DEF both
<1> QED
  BY <1>3, <1>4, <1>6, UnderWayCounts

LEMMA BuyInit == Init => BuyInv
<1> SUFFICES ASSUME Init PROVE BuyInv
  OBVIOUS
<1>1. UnderWay = {} /\ Cardinality({}) = 0
  BY FS_EmptySet DEF Init, UnderWay
<1>2. Numbered /\ \A t \in Tabs : InCart(t)
  BY DEF Init, Numbered, InCart, NoCall, Call
<1> QED
  BY <1>1, <1>2 DEF Init, BuyInv, Paid, EmptyCart

LEMMA LeftBehindIs ==
  ASSUME TypeInv, NEW t \in Tabs, NEW tab, NEW x \in LeftBehind(t, tab)
  PROVE  /\ call[t].op = "order" /\ x.n = call[t].n /\ x.phase = call[t].phase
         /\ x.order.quantity = call[t].quantity
         /\ call[t].phase = "sent" => Unheard(t) = call[t].quantity
BY DEF LeftBehind, Waits, Placed, Unheard

LEMMA UnheardIs ==
  ASSUME TypeInv, NEW t \in Tabs
  PROVE  Unheard(t) \in 0 .. MaxStock
BY ShoppingAssumption DEF Unheard, TypeInv, TypeOK

\* Orders are inherited, or the one of the page is left behind.
LEMMA UnderWayLeft ==
  ASSUME TypeInv, NEW t \in Tabs, NEW tab,
         \A x \in orphans' : \/ x \in LeftBehind(t, tab)
                             \/ \E o \in orphans : x.n = o.n /\ x.phase = o.phase /\ x.order = o.order
  PROVE  Cardinality(UnderWay') <= Cardinality(UnderWay) + Unheard(t)
<1>1. CASE Waits(t, "sent")
  <2>1. /\ call[t].n \in 1 .. MaxOrders /\ call[t].quantity \in 0 .. MaxStock
        /\ Unheard(t) = call[t].quantity
    BY <1>1 DEF Waits, Unheard, TypeInv, TypeOK, CallsNameUsers
  <2>2. UnderWay' \subseteq UnderWay \cup Units(call[t].n, call[t].quantity)
    <3> SUFFICES ASSUME NEW u \in UnderWay', u \notin UnderWay
                 PROVE  u \in Units(call[t].n, call[t].quantity)
      OBVIOUS
    <3>1. PICK x \in orphans' : x.phase = "sent" /\ u \in Units(x.n, x.order.quantity)
      BY DEF UnderWay
    <3>2. x \in LeftBehind(t, tab)
      BY <3>1 DEF UnderWay
    <3>3. x.n = call[t].n /\ x.order.quantity = call[t].quantity
      BY <3>2, LeftBehindIs
    <3> QED
      BY <3>1, <3>3
  <2> QED
    BY <2>1, <2>2, UnderWayGrows
<1>2. CASE ~Waits(t, "sent")
  <2>1. Unheard(t) = 0
    BY <1>2 DEF Unheard
  <2>2. UnderWay' \subseteq UnderWay
    <3> SUFFICES ASSUME NEW u \in UnderWay' PROVE u \in UnderWay
      OBVIOUS
    <3>1. PICK x \in orphans' : x.phase = "sent" /\ u \in Units(x.n, x.order.quantity)
      BY DEF UnderWay
    <3>2. x \notin LeftBehind(t, tab)
      BY <1>2, <3>1, LeftBehindIs DEF Waits
    <3> QED
      BY <3>1, <3>2 DEF UnderWay
  <2> QED
    BY <2>1, <2>2, UnderWayShrinks, UnderWayCounts
<1> QED
  BY <1>1, <1>2

\* What a tab leaves behind has a number that nothing else has.
LEMMA NumbersLeft ==
  ASSUME TypeInv, Numbered, NEW t \in Tabs, NEW tab,
         \A x \in orphans' : \/ x \in LeftBehind(t, tab)
                             \/ \E o \in orphans : x.n = o.n,
         \A x, y \in orphans' : x.n = y.n /\ x \notin LeftBehind(t, tab)
                                /\ y \notin LeftBehind(t, tab) => x = y,
         call' = [call EXCEPT ![t] = NoCall], clicks' = clicks,
         \A u \in Tabs \ {t} : at'[u] = at[u]
  PROVE  Numbered'
<1>1. \A x \in orphans' : x.n <= clicks
  BY LeftBehindIs DEF Numbered
<1>2. ASSUME NEW x \in orphans', NEW y \in orphans', x.n = y.n
      PROVE  x = y
  <2>1. CASE x \notin LeftBehind(t, tab) /\ y \notin LeftBehind(t, tab)
    BY <1>2, <2>1
  <2>2. CASE x \in LeftBehind(t, tab) /\ y \in LeftBehind(t, tab)
    BY <2>2 DEF LeftBehind
  <2>3. CASE x \in LeftBehind(t, tab) /\ y \notin LeftBehind(t, tab)
    BY <1>2, <2>3, LeftBehindIs DEF Numbered
  <2>4. CASE x \notin LeftBehind(t, tab) /\ y \in LeftBehind(t, tab)
    BY <1>2, <2>4, LeftBehindIs DEF Numbered
  <2> QED
    BY <2>1, <2>2, <2>3, <2>4
<1>3. /\ call'[t].op = "none" /\ \A u \in Tabs \ {t} : call'[u] = call[u]
  BY NoCallType DEF TypeInv, TypeOK
<1>4. ASSUME NEW u \in Tabs, u # t, call[u].op = "order", NEW x \in orphans'
      PROVE  x.n # call[u].n
  BY <1>4, LeftBehindIs DEF Numbered
<1> QED
  BY <1>1, <1>2, <1>3, <1>4 DEF Numbered

LEMMA LeaveCounts ==
  ASSUME TypeInv, Numbered, NEW t \in Tabs, Leave(t), clicks' = clicks,
         \A u \in Tabs \ {t} : at'[u] = at[u]
  PROVE  /\ Numbered' /\ Cardinality(UnderWay') <= Cardinality(UnderWay) + Unheard(t)
         /\ call'[t] = NoCall /\ \A u \in Tabs \ {t} : call'[u] = call[u]
<1>1. \A x \in orphans' : x \in LeftBehind(t, t) \/ x \in orphans
  BY DEF Leave
<1>2. Cardinality(UnderWay') <= Cardinality(UnderWay) + Unheard(t)
  BY <1>1, UnderWayLeft
<1>3. \A x, y \in orphans' : x.n = y.n /\ x \notin LeftBehind(t, t)
                             /\ y \notin LeftBehind(t, t) => x = y
  BY <1>1 DEF Numbered
<1>4. Numbered'
  BY <1>1, <1>3, NumbersLeft DEF Leave
<1> QED
  BY <1>2, <1>4 DEF Leave, TypeInv, TypeOK

LEMMA LoadCounts ==
  ASSUME TypeInv, Numbered, NEW t \in Tabs, NEW page, NEW stored, NEW items,
         Load(t, page, stored, items), clicks' = clicks
  PROVE  /\ Numbered' /\ Cardinality(UnderWay') <= Cardinality(UnderWay) + Unheard(t)
         /\ at'[t] = page /\ call'[t] = NoCall /\ cart'[t] = items
         /\ \A u \in Tabs \ {t} : at'[u] = at[u] /\ call'[u] = call[u] /\ cart'[u] = cart[u]
<1>0. \A o \in orphans : o \in Orphan
  BY DEF TypeInv, TypeOK
<1>1. ASSUME NEW x \in orphans'
      PROVE  \/ x \in LeftBehind(t, Nobody)
             \/ \E o \in orphans :
                   /\ x.n = o.n /\ x.phase = o.phase /\ x.order = o.order
                   /\ x = IF o.tab = t THEN [o EXCEPT !.tab = Nobody] ELSE o
  <2>1. CASE x \in orphans /\ x.tab # t
    BY <2>1
  <2>2. ASSUME NEW o \in orphans, o.tab = t, x = [o EXCEPT !.tab = Nobody]
        PROVE  \/ x \in LeftBehind(t, Nobody)
               \/ \E y \in orphans :
                   /\ x.n = y.n /\ x.phase = y.phase /\ x.order = y.order
                   /\ x = IF y.tab = t THEN [y EXCEPT !.tab = Nobody] ELSE y
    BY <1>0, <2>2 DEF Orphan
  <2> QED
    BY <1>1, <2>1, <2>2 DEF Load
<1>2. Cardinality(UnderWay') <= Cardinality(UnderWay) + Unheard(t)
  BY <1>1, UnderWayLeft
<1>3. ASSUME NEW x \in orphans', NEW y \in orphans', x.n = y.n,
             x \notin LeftBehind(t, Nobody), y \notin LeftBehind(t, Nobody)
      PROVE  x = y
  <2>1. PICK o \in orphans :
            x.n = o.n /\ x = IF o.tab = t THEN [o EXCEPT !.tab = Nobody] ELSE o
    BY <1>1, <1>3
  <2>2. PICK p \in orphans :
            y.n = p.n /\ y = IF p.tab = t THEN [p EXCEPT !.tab = Nobody] ELSE p
    BY <1>1, <1>3
  <2>3. o = p
    BY <1>3, <2>1, <2>2 DEF Numbered
  <2> QED
    BY <2>1, <2>2, <2>3
<1>4. Numbered'
  <2>1. /\ call' = [call EXCEPT ![t] = NoCall]
        /\ \A u \in Tabs \ {t} : at'[u] = at[u]
    BY DEF Load, TypeInv, TypeOK
  <2>2. \A x \in orphans' : \/ x \in LeftBehind(t, Nobody)
                             \/ \E o \in orphans : x.n = o.n
    BY <1>1
  <2> QED
    BY <1>3, <2>1, <2>2, NumbersLeft
<1> QED
  BY <1>2, <1>4 DEF Load, TypeInv, TypeOK

\* What a step of one tab, open afterwards, has to show; the other tabs are closed.
LEMMA TabKeepsBuy ==
  ASSUME TypeInv, BuyInv, Single' => Single, NEW t \in Tabs, at'[t] # "closed", Numbered',
         \A u \in Tabs \ {t} : at'[u] = at[u] /\ call'[u] = call[u] /\ removing'[u] = removing[u],
         Single /\ Paid /\ InCart(t) => Paid' /\ InCart(t)'
  PROVE  BuyInv'
<1> SUFFICES ASSUME Single' PROVE Paid' /\ \A u \in Tabs : InCart(u)'
  BY DEF BuyInv
<1>1. Paid' /\ InCart(t)'
  BY DEF BuyInv
<1>2. ASSUME NEW u \in Tabs, u # t PROVE InCart(u)'
  <2>1. at'[u] = "closed" /\ at[u] = "closed"
    BY <1>2 DEF OpenTabs, Single
  <2>2. call'[u] = NoCall /\ call'[u].op # "order" /\ ~removing'[u]
    BY <1>2, <2>1, NoCallType DEF BuyInv, InCart
  <2> QED
    BY <2>1, <2>2 DEF InCart
<1> QED
  BY <1>1, <1>2

\* The numbers behind Paid.
LEMMA PaidTypes ==
  ASSUME TypeInv
  PROVE  /\ Cardinality(UnderWay) \in Nat /\ Cardinality(UnderWay') \in Nat
         /\ ordered \in Nat /\ added \in Nat /\ unheard \in Int
         /\ storage.cart \in Cart /\ storage.cart.quantity \in Nat
         /\ \A t \in Tabs : /\ cart[t] \in Cart /\ cart[t].quantity \in Nat
                            /\ call[t].quantity \in Nat /\ Unheard(t) \in Nat
<1>1. /\ storage.cart \in Cart /\ storage.cart.quantity \in Nat
      /\ \A t \in Tabs : cart[t] \in Cart /\ cart[t].quantity \in Nat
  BY ShoppingAssumption DEF TypeInv, TypeOK, Cart
<1>2. \A t \in Tabs : call[t].quantity \in Nat /\ Unheard(t) \in Nat
  BY UnheardIs, ShoppingAssumption DEF TypeInv, TypeOK
<1> QED
  BY <1>1, <1>2, UnderWayCounts DEF TypeInv, TypeOK

LEMMA LoadKeepsBuy ==
  ASSUME TypeInv, BuyInv, Single' => Single, NEW t \in Tabs, NEW page, page # "closed",
         NEW stored, NEW items \in Cart, Load(t, page, stored, items),
         clicks' = clicks, ordered' = ordered, added' = added, unheard' \in Int,
         storage'.cart = items,
         Single /\ Paid /\ InCart(t) =>
             unheard + Unheard(t) + items.quantity <= unheard' + storage.cart.quantity
  PROVE  BuyInv'
<1>1. /\ Numbered' /\ Cardinality(UnderWay') <= Cardinality(UnderWay) + Unheard(t)
      /\ at'[t] = page /\ call'[t] = NoCall /\ cart'[t] = items
      /\ \A u \in Tabs \ {t} : at'[u] = at[u] /\ call'[u] = call[u] /\ cart'[u] = cart[u]
  BY LoadCounts DEF BuyInv
<1>2. ~removing'[t] /\ \A u \in Tabs \ {t} : removing'[u] = removing[u]
  BY DEF Load, TypeInv, TypeOK
<1>3. InCart(t)'
  BY <1>1, NoCallType DEF InCart
<1>4. items.quantity \in Nat
  BY ShoppingAssumption DEF Cart
<1>5. Single /\ Paid /\ InCart(t) => Paid'
  BY <1>1, <1>4, PaidTypes DEF Paid
<1> QED
  BY <1>1, <1>2, <1>3, <1>5, TabKeepsBuy

LEMMA LeaveKeepsBuy ==
  ASSUME TypeInv, BuyInv, Single' => Single, NEW t \in Tabs, Leave(t), at'[t] # "closed",
         \A u \in Tabs \ {t} : at'[u] = at[u] /\ removing'[u] = removing[u],
         clicks' = clicks, ordered' = ordered, added' = added,
         storage'.cart \in Cart, storage'.cart.quantity <= storage.cart.quantity,
         Single /\ InCart(t) => cart'[t] = storage'.cart
  PROVE  BuyInv'
<1>1. /\ Numbered' /\ Cardinality(UnderWay') <= Cardinality(UnderWay) + Unheard(t)
      /\ call'[t] = NoCall /\ \A u \in Tabs \ {t} : call'[u] = call[u]
  BY LeaveCounts DEF BuyInv
<1>2. Single /\ InCart(t) => InCart(t)'
  BY <1>1, NoCallType DEF InCart
<1>3. storage'.cart.quantity \in Nat /\ unheard' = unheard + Unheard(t)
  BY ShoppingAssumption DEF Cart, Leave
<1>4. Paid => Paid'
  BY <1>1, <1>3, PaidTypes DEF Paid
<1> QED
  BY <1>1, <1>2, <1>4, TabKeepsBuy

\* A step that sets aside or answers a form: no order is involved.
LEMMA FormKeepsBuy ==
  ASSUME TypeInv, BuyInv, Single' => Single, NEW t \in Tabs,
         UNCHANGED <<orphans, clicks, ordered, added, unheard, cart, removing>>,
         storage'.cart = storage.cart, call'[t].op # "order",
         at[t] # "closed" \/ call[t] # NoCall, at'[t] = "closed" => at[t] = "closed",
         \A u \in Tabs \ {t} : at'[u] = at[u] /\ call'[u] = call[u]
  PROVE  BuyInv'
<1>1. Numbered'
  BY DEF BuyInv, Numbered
<1>2. Paid => Paid'
  BY DEF Paid, UnderWay
<1>3. CASE Single
  <2>1. at[t] # "closed" /\ at'[t] # "closed"
    BY <1>3 DEF BuyInv, InCart
  <2>2. InCart(t) => InCart(t)'
    BY <2>1 DEF InCart
  <2> QED
    BY <1>1, <1>2, <2>1, <2>2, TabKeepsBuy
<1> QED
  BY <1>1, <1>3 DEF BuyInv

\* A step that touches neither orders nor the cart.
LEMMA OtherKeepsBuy ==
  ASSUME BuyInv,
         UNCHANGED <<at, call, orphans, clicks, ordered, added, unheard, cart>>,
         storage'.cart = storage.cart,
         \A t \in Tabs : removing'[t] => removing[t] \/ at[t] # "closed"
  PROVE  BuyInv'
<1>1. Numbered' /\ (Single' => Single) /\ (Paid => Paid')
  BY DEF BuyInv, Numbered, Single, OpenTabs, Paid, UnderWay
<1>2. \A t \in Tabs : InCart(t) => InCart(t)'
  BY DEF InCart
<1> QED
  BY <1>1, <1>2 DEF BuyInv

LEMMA SessionKeepsBuy ==
  ASSUME TypeInv, BuyInv, Single' => Single, NEW t \in Tabs, Session(t)
  PROVE  BuyInv'
<1>0. Unheard(t) \in Nat /\ unheard \in Int /\ storage.cart \in Cart /\ storage.cart.quantity \in Nat
  BY PaidTypes
<1>1. CASE OpenTab(t)
  <2>1. PICK page \in Landings : Load(t, page, storage.user, storage.cart)
    BY <1>1 DEF OpenTab
  <2>2. UNCHANGED <<clicks, ordered, added, storage>> /\ unheard' = unheard + Unheard(t)
    BY <1>1 DEF OpenTab, server
  <2> QED
    BY <1>0, <2>1, <2>2, LoadKeepsBuy DEF Landings
<1>2. CASE ReceiveMe(t)
  BY <1>2, OtherKeepsBuy DEF ReceiveMe, server, history
<1>3. CASE Guard(t)
  <2>1. /\ Leave(t) /\ UNCHANGED <<clicks, ordered, added, storage, cart, removing>>
        /\ at'[t] = "signin" /\ at[t] # "closed" /\ \A u \in Tabs \ {t} : at'[u] = at[u]
    BY <1>3 DEF Guard, Guarded, server, TypeInv, TypeOK
  <2>2. InCart(t) => cart'[t] = storage'.cart
    BY <2>1 DEF InCart
  <2> QED
    BY <1>0, <2>1, <2>2, LeaveKeepsBuy
<1>4. CASE Logout(t)
  <2>1. /\ Load(t, "signin", Nobody, storage.cart) /\ storage'.cart = storage.cart
        /\ UNCHANGED <<clicks, ordered, added>> /\ unheard' = unheard + Unheard(t)
    BY <1>4 DEF Logout, server, TypeInv, TypeOK
  <2> QED
    BY <1>0, <2>1, LoadKeepsBuy
<1>5. CASE SignIn(t) \/ SignUp(t)
  <2>1. /\ UNCHANGED <<orphans, clicks, ordered, added, unheard, cart, removing, storage, at>>
        /\ at[t] = "signin" /\ call'[t].op \in {"login", "register"}
        /\ \A u \in Tabs \ {t} : call'[u] = call[u]
    BY <1>5 DEF SignIn, SignUp, Submit, FormEnabled, Call, server, history, TypeInv, TypeOK
  <2> QED
    BY <2>1, FormKeepsBuy
<1>6. CASE ServeLogin(t) \/ ServeRegister(t)
  <2>1. /\ UNCHANGED <<orphans, clicks, ordered, added, unheard, cart, removing, storage, at>>
        /\ call[t].op \in {"login", "register"} /\ call'[t].op = call[t].op
        /\ \A u \in Tabs \ {t} : call'[u] = call[u]
    BY <1>6 DEF ServeLogin, ServeRegister, Answer, server, history, TypeInv, TypeOK
  <2> QED
    BY <2>1, FormKeepsBuy, NoCallType
<1>7. CASE SignedIn(t)
  <2>1. /\ UNCHANGED <<orphans, clicks, ordered, added, unheard, cart, removing>>
        /\ storage'.cart = storage.cart
        /\ call[t].op \in {"login", "register"} /\ call'[t] = NoCall /\ at'[t] = "shop"
        /\ \A u \in Tabs \ {t} : call'[u] = call[u] /\ at'[u] = at[u]
    BY <1>7 DEF SignedIn, server, TypeInv, TypeOK
  <2> QED
    BY <2>1, FormKeepsBuy, NoCallType
<1>8. CASE Unauthorized(t)
  <2>1. /\ Load(t, "signin", Nobody, storage.cart) /\ storage'.cart = storage.cart
        /\ UNCHANGED <<clicks, ordered, added, unheard>> /\ call[t].phase = "denied"
    BY <1>8 DEF Unauthorized, server, history, TypeInv, TypeOK
  <2>2. Unheard(t) = 0
    BY <2>1 DEF Unheard, Waits
  <2> QED
    BY <1>0, <2>1, <2>2, LoadKeepsBuy
<1>9. CASE FormFails(t)
  <2>1. /\ UNCHANGED <<orphans, clicks, ordered, added, unheard, cart, removing, storage, at>>
        /\ call[t].op = "register" /\ call'[t] = NoCall
        /\ \A u \in Tabs \ {t} : call'[u] = call[u]
    BY <1>9 DEF FormFails, server, history, TypeInv, TypeOK
  <2> QED
    BY <2>1, FormKeepsBuy, NoCallType
<1> QED
  BY <1>1, <1>2, <1>3, <1>4, <1>5, <1>6, <1>7, <1>8, <1>9 DEF Session

\* A step that sets what is in the cart of an open tab which waits for no order.
LEMMA ItemsKeepBuy ==
  ASSUME TypeInv, BuyInv, Single' => Single, NEW t \in Tabs, NEW items \in Cart,
         SetItems(t, items), call[t].op # "order",
         UNCHANGED <<at, call, orphans, clicks, ordered, unheard>>,
         removing' = removing \/ \A u \in Tabs : removing'[u] => removing[u],
         at[t] # "closed" \/ removing[t], added' \in Nat,
         Single /\ InCart(t) =>
             items.quantity + added <= storage.cart.quantity + added'
  PROVE  BuyInv'
<1>1. /\ cart'[t] = items /\ storage'.cart = items
      /\ \A u \in Tabs \ {t} : cart'[u] = cart[u]
  BY DEF SetItems, TypeInv, TypeOK
<1>2. Numbered' /\ UnderWay' = UnderWay
  BY DEF BuyInv, Numbered, UnderWay
<1>3. items.quantity \in Nat
  BY ShoppingAssumption DEF Cart
<1> SUFFICES ASSUME Single', Single, Paid, \A u \in Tabs : InCart(u)
             PROVE  Paid' /\ \A u \in Tabs : InCart(u)'
  BY <1>2 DEF BuyInv
<1>4. at[t] # "closed" /\ t \in OpenTabs
  BY DEF InCart, OpenTabs
<1>5. Paid'
  BY <1>1, <1>2, <1>3, PaidTypes DEF Paid
<1>6. ASSUME NEW u \in Tabs PROVE InCart(u)'
  <2>1. CASE u = t
    BY <1>1, <1>4, <2>1 DEF InCart
  <2>2. CASE u # t
    <3>1. at[u] = "closed"
      BY <1>4, <2>2 DEF OpenTabs, Single
    <3>2. call[u] = NoCall /\ call[u].op # "order" /\ ~removing[u]
      BY <3>1, NoCallType DEF InCart
    <3> QED
      BY <3>1, <3>2 DEF InCart
  <2> QED
    BY <2>1, <2>2
<1> QED
  BY <1>5, <1>6

\* What is added grows the line by no more.
LEMMA AddKeepsBuy ==
  ASSUME TypeInv, BuyInv, Single' => Single, NEW t \in Tabs, NEW n \in Nat,
         at[t] = "shop", AddItem(t, n)
  PROVE  BuyInv'
<1> DEFINE line == cart[t]
           items == IF line.quantity > 0
                    THEN [line EXCEPT !.quantity = Smaller(line.quantity + n, seen[t])]
                    ELSE [quantity |-> Smaller(n, seen[t]), stock |-> seen[t]]
<1>1. /\ SetItems(t, items) /\ added' = added + n
      /\ UNCHANGED <<at, call, orphans, clicks, ordered, unheard, removing>>
  BY DEF AddItem, server
<1>2. /\ line \in Cart /\ line.quantity \in Nat /\ seen[t] \in 0 .. MaxStock /\ seen[t] \in Nat
      /\ added \in Nat /\ MaxStock \in Nat
  BY ShoppingAssumption, PaidTypes DEF TypeInv, TypeOK
<1>3. items \in Cart /\ items.quantity <= line.quantity + n
  <2>1. /\ Smaller(line.quantity + n, seen[t]) \in 0 .. MaxStock
        /\ Smaller(line.quantity + n, seen[t]) <= line.quantity + n
        /\ Smaller(n, seen[t]) \in 0 .. MaxStock /\ Smaller(n, seen[t]) <= n
    BY <1>2 DEF Smaller
  <2> QED
    BY <1>2, <2>1 DEF Cart
<1>4. call[t].op # "order"
  BY DEF BuyInv, Numbered
<1>5. InCart(t) => storage.cart = line
  BY DEF InCart
<1>6. items.quantity \in Nat
  BY <1>3, ShoppingAssumption DEF Cart
<1> HIDE DEF items
<1> QED
  BY <1>1, <1>2, <1>3, <1>4, <1>5, <1>6, ItemsKeepBuy

LEMMA CartKeepsBuy ==
  ASSUME TypeInv, BuyInv, Single' => Single, NEW t \in Tabs,
         \/ Visit(t) \/ LoadProduct(t) \/ AddFromList(t) \/ AddFromPage(t)
         \/ UpdateQuantity(t) \/ HandleRemove(t) \/ RemoveItem(t) \/ Checkout(t)
  PROVE  BuyInv'
<1>0. /\ unheard \in Int /\ added \in Nat
      /\ storage.cart \in Cart /\ storage.cart.quantity \in Nat
      /\ cart[t] \in Cart /\ cart[t].quantity \in Nat /\ cart[t].stock \in 0 .. MaxStock
      /\ MaxStock \in Nat
  BY PaidTypes, ShoppingAssumption DEF Cart
<1>1. CASE Visit(t)
  <2>1. /\ Leave(t) /\ UNCHANGED <<clicks, ordered, added, storage, cart, removing>>
        /\ at'[t] # "closed" /\ at[t] # "closed" /\ \A u \in Tabs \ {t} : at'[u] = at[u]
    BY <1>1 DEF Visit, Guarded, server, TypeInv, TypeOK
  <2>2. InCart(t) => cart'[t] = storage'.cart
    BY <2>1 DEF InCart
  <2> QED
    BY <1>0, <2>1, <2>2, LeaveKeepsBuy
<1>2. CASE LoadProduct(t)
  BY <1>2, OtherKeepsBuy DEF LoadProduct, server, history
<1>3. CASE AddFromList(t)
  BY <1>3, AddKeepsBuy DEF AddFromList, AddOffered, On
<1>4. CASE AddFromPage(t)
  <2>1. PICK n \in 1 .. seen[t] : AddItem(t, n)
    BY <1>4 DEF AddFromPage
  <2>2. n \in Nat /\ at[t] = "shop"
    BY <1>4, <2>1 DEF AddFromPage, AddOffered, On, TypeInv, TypeOK
  <2> QED
    BY <2>1, <2>2, AddKeepsBuy
<1>5. CASE UpdateQuantity(t)
  <2>1. PICK n \in Nat :
           /\ n <= MaxStock + 1 /\ SetQuantity(t, n) /\ added' \in Nat
           /\ n + added <= cart[t].quantity + added'
    BY <1>0, <1>5, PaidTypes DEF UpdateQuantity, Cart
  <2> DEFINE items == [cart[t] EXCEPT !.quantity = Smaller(n, cart[t].stock)]
  <2>2. /\ SetItems(t, items)
        /\ UNCHANGED <<at, call, orphans, clicks, ordered, unheard, removing>>
    BY <2>1 DEF SetQuantity, server
  <2>3. /\ items \in Cart /\ items.quantity \in Nat /\ items.quantity <= n
    <3>1. Smaller(n, cart[t].stock) \in 0 .. MaxStock /\ Smaller(n, cart[t].stock) <= n
      BY <1>0, <2>1 DEF Smaller
    <3> QED
      BY <1>0, <3>1 DEF Cart
  <2>4. at[t] = "cart" /\ call[t].op # "order"
    BY <1>5 DEF UpdateQuantity, CartShown, On, BuyInv, Numbered
  <2>5. InCart(t) => storage.cart = cart[t]
    BY <2>4 DEF InCart
  <2> HIDE DEF items
  <2>6. InCart(t) => items.quantity + added <= storage.cart.quantity + added'
    BY <1>0, <2>1, <2>3, <2>5
  <2> QED
    BY <2>1, <2>2, <2>3, <2>4, <2>6, ItemsKeepBuy
<1>6. CASE HandleRemove(t)
  <2>1. at[t] = "cart" /\ \A u \in Tabs : removing'[u] => removing[u] \/ u = t
    BY <1>6 DEF HandleRemove, CartShown, On, TypeInv, TypeOK
  <2> QED
    BY <1>6, <2>1, OtherKeepsBuy DEF HandleRemove, server, history
<1>7. CASE RemoveItem(t) /\ at[t] = "checkout"
  <2>1. /\ Leave(t) /\ UNCHANGED <<clicks, ordered, added>> /\ SetItems(t, EmptyCart)
        /\ at'[t] = "cart" /\ \A u \in Tabs \ {t} : at'[u] = at[u] /\ removing'[u] = removing[u]
    BY <1>7 DEF RemoveItem, server, TypeInv, TypeOK
  <2>2. cart'[t] = EmptyCart /\ storage'.cart = EmptyCart
    BY <2>1 DEF SetItems, TypeInv, TypeOK
  <2>3. EmptyCart.quantity = 0
    BY DEF EmptyCart
  <2> QED
    BY <1>0, <2>1, <2>2, <2>3, EmptyCartType, LeaveKeepsBuy
<1>8. CASE RemoveItem(t) /\ at[t] # "checkout"
  <2>1. /\ UNCHANGED <<at, call, orphans, clicks, ordered, unheard, added>>
        /\ SetItems(t, EmptyCart) /\ removing[t] /\ \A u \in Tabs : removing'[u] => removing[u]
    BY <1>8 DEF RemoveItem, server, TypeInv, TypeOK
  <2>2. call[t].op # "order" /\ EmptyCart.quantity = 0
    BY <1>8 DEF BuyInv, Numbered, EmptyCart
  <2> QED
    BY <1>0, <2>1, <2>2, EmptyCartType, ItemsKeepBuy
<1>9. CASE Checkout(t)
  <2>1. /\ UNCHANGED <<orphans, clicks, ordered, added, unheard, cart, removing, storage, call>>
        /\ at[t] = "cart" /\ at'[t] = "checkout"
        /\ \A u \in Tabs \ {t} : at'[u] = at[u]
    BY <1>9 DEF Checkout, CartShown, On, server, history, TypeInv, TypeOK
  <2>2. call[t].op # "order"
    BY <2>1 DEF BuyInv, Numbered
  <2> QED
    BY <2>1, <2>2, FormKeepsBuy
<1> QED
  BY <1>1, <1>2, <1>3, <1>4, <1>5, <1>6, <1>7, <1>8, <1>9

\* An answer leaves the request what it was.
LEMMA AnswerIs ==
  ASSUME TypeInv, NEW t \in Tabs, NEW phase, Answer(t, phase)
  PROVE  /\ call'[t].op = call[t].op /\ call'[t].n = call[t].n
         /\ call'[t].quantity = call[t].quantity /\ call'[t].phase = phase
         /\ \A u \in Tabs \ {t} : call'[u] = call[u]
BY DEF Answer, TypeInv, TypeOK

LEMMA CheckoutKeepsBuy ==
  ASSUME TypeInv, BuyInv, Single' => Single, NEW t \in Tabs,
         \/ PlaceOrder(t) \/ ServeOrder(t) \/ ServeRefusal(t) \/ ServeAndThrow(t)
         \/ OrderPlaced(t) \/ OrphanPlaced(t) \/ OrderFails(t)
  PROVE  BuyInv'
<1>0. /\ unheard \in Int /\ added \in Nat /\ ordered \in Nat /\ Cardinality(UnderWay) \in Nat
      /\ storage.cart.quantity \in Nat /\ call[t].quantity \in Nat /\ Unheard(t) \in Nat
      /\ cart[t].quantity \in Nat
  BY PaidTypes
<1>1. CASE PlaceOrder(t)
  <2>1. /\ UNCHANGED <<at, orphans, ordered, added, unheard, cart, removing, storage>>
        /\ at[t] = "checkout" /\ clicks' = clicks + 1 /\ clicks \in Nat
        /\ call'[t] = Call("order", storage.user, user[t], cart[t].quantity, clicks')
        /\ \A u \in Tabs \ {t} : call'[u] = call[u]
    BY <1>1 DEF PlaceOrder, OrderOffered, On, server, history, TypeInv, TypeOK
  <2>2. call'[t].op = "order" /\ call'[t].n = clicks' /\ call'[t].quantity = cart[t].quantity
    BY <2>1 DEF Call
  <2>3. /\ \A o \in orphans : o.n \in Nat /\ o.n <= clicks
        /\ \A u \in Tabs : call[u].n \in Nat /\ (call[u].op = "order" => call[u].n <= clicks)
    BY ShoppingAssumption DEF TypeInv, TypeOK, Orphan, BuyInv, Numbered
  <2>4. Numbered'
    BY <2>1, <2>2, <2>3 DEF BuyInv, Numbered
  <2>5. Paid => Paid'
    BY <2>1 DEF Paid, UnderWay
  <2>6. InCart(t) => InCart(t)'
    BY <2>1, <2>2 DEF InCart
  <2> QED
    BY <2>1, <2>4, <2>5, <2>6, TabKeepsBuy
<1>2. CASE ServeOrder(t) \/ ServeAndThrow(t) \/ ServeRefusal(t)
  <2>1. /\ UNCHANGED <<at, orphans, added, cart, removing, storage, clicks>> /\ call[t].op = "order"
        /\ \E phase \in {"ok", "threw"} : Answer(t, phase)
        /\ \/ ordered' = ordered + call[t].quantity /\ unheard' = unheard + call[t].quantity
           \/ ordered' = ordered /\ unheard' = unheard
    BY <1>2 DEF ServeOrder, ServeAndThrow, ServeRefusal, Waits, Place, Placed, server, history
  <2>2. /\ call'[t].op = call[t].op /\ call'[t].n = call[t].n /\ call'[t].quantity = call[t].quantity
        /\ \A u \in Tabs \ {t} : call'[u] = call[u]
    BY <2>1, AnswerIs
  <2>3. Numbered'
    BY <2>1, <2>2 DEF BuyInv, Numbered
  <2>4. UnderWay' = UnderWay
    BY <2>1 DEF UnderWay
  <2>5. Paid => Paid'
    <3> HIDE DEF UnderWay
    <3> QED
      BY <1>0, <2>1, <2>4 DEF Paid
  <2>6. at[t] = "checkout"
    BY <2>1 DEF BuyInv, Numbered
  <2>7. InCart(t) => InCart(t)'
    BY <2>1, <2>2, <2>6 DEF InCart
  <2> QED
    BY <2>1, <2>2, <2>3, <2>5, <2>6, <2>7, TabKeepsBuy
<1>3. CASE OrderPlaced(t)
  <2>1. /\ Load(t, "left", storage.user, EmptyCart) /\ storage'.cart = EmptyCart
        /\ UNCHANGED <<clicks, ordered, added>> /\ unheard' = unheard - call[t].quantity
        /\ call[t].op = "order" /\ call[t].phase = "ok"
    BY <1>3 DEF OrderPlaced, PaymentPage, Waits, server, TypeInv, TypeOK
  <2>2. Unheard(t) = 0 /\ at[t] = "checkout" /\ EmptyCart.quantity = 0
    BY <2>1 DEF Unheard, Waits, BuyInv, Numbered, EmptyCart
  <2>3. InCart(t) => call[t].quantity = storage.cart.quantity
    BY <2>1, <2>2 DEF InCart
  <2> QED
    BY <1>0, <2>1, <2>2, <2>3, EmptyCartType, LoadKeepsBuy
<1>4. CASE OrphanPlaced(t)
  <2>1. /\ Load(t, "left", storage.user, EmptyCart) /\ storage'.cart = EmptyCart
        /\ UNCHANGED <<clicks, ordered, added>> /\ unheard' = unheard + Unheard(t)
        /\ EmptyCart.quantity = 0
    BY <1>4 DEF OrphanPlaced, PaymentPage, server, TypeInv, TypeOK, EmptyCart
  <2> QED
    BY <1>0, <2>1, EmptyCartType, LoadKeepsBuy
<1>5. CASE OrderFails(t)
  <2>1. /\ UNCHANGED <<orphans, clicks, ordered, added, unheard, cart, removing, storage, at>>
        /\ call[t].op = "order" /\ call'[t] = NoCall
        /\ \A u \in Tabs \ {t} : call'[u] = call[u]
    BY <1>5 DEF OrderFails, Waits, server, history, TypeInv, TypeOK
  <2> QED
    BY <2>1, FormKeepsBuy, NoCallType
<1> QED
  BY <1>1, <1>2, <1>3, <1>4, <1>5

\* An order of a page that was left: its units leave those under way for the placed ones.
LEMMA OrphanKeepsBuy ==
  ASSUME TypeInv, BuyInv, ServeOrphan
  PROVE  BuyInv'
<1>1. PICK o \in orphans :
         /\ o.phase = "sent"
         /\ \/ ordered' = ordered + o.order.quantity
            \/ ordered' = ordered
         /\ orphans' \subseteq (orphans \ {o}) \cup {[o EXCEPT !.phase = "ok"]}
  BY DEF ServeOrphan, Place
<1>2. /\ UNCHANGED <<at, call, clicks, added, unheard, storage, cart, removing>>
  BY DEF ServeOrphan, history
<1>3. /\ o \in Orphan /\ o.n \in 1 .. MaxOrders /\ o.order.quantity \in 0 .. MaxStock
      /\ [o EXCEPT !.phase = "ok"].n = o.n /\ [o EXCEPT !.phase = "ok"].phase = "ok"
  BY DEF TypeInv, TypeOK, Orphan, Order
<1>4. Numbered'
  <2>1. \A x \in orphans' : \E y \in orphans : x.n = y.n /\ (x # y => y = o /\ x = [o EXCEPT !.phase = "ok"])
    BY <1>1, <1>3
  <2>2. \A x \in orphans' : x = o => FALSE
    BY <1>1, <1>3
  <2>3. \A x, y \in orphans' : x.n = y.n => x = y
    BY <2>1, <2>2 DEF BuyInv, Numbered
  <2>4. \A x \in orphans' : x.n <= clicks
    BY <2>1 DEF BuyInv, Numbered
  <2>5. \A t \in Tabs : call[t].op = "order" => \A x \in orphans' : x.n # call[t].n
    BY <2>1 DEF BuyInv, Numbered
  <2> QED
    BY <1>2, <2>3, <2>4, <2>5 DEF BuyInv, Numbered
<1>5. Units(o.n, o.order.quantity) \subseteq UnderWay
  BY <1>1 DEF UnderWay, Units
<1>6. UnderWay' \subseteq UnderWay \ Units(o.n, o.order.quantity)
  <2> SUFFICES ASSUME NEW u \in UnderWay'
               PROVE  u \in UnderWay /\ u \notin Units(o.n, o.order.quantity)
    OBVIOUS
  <2>1. PICK x \in orphans' : x.phase = "sent" /\ u \in Units(x.n, x.order.quantity)
    BY DEF UnderWay
  <2>2. x \in orphans /\ x # o
    BY <1>1, <1>3, <2>1
  <2>3. x.n # o.n
    BY <2>2 DEF BuyInv, Numbered
  <2>4. u[1] # o.n
    BY <2>1, <2>3 DEF Units
  <2> QED
    BY <2>1, <2>2, <2>4 DEF UnderWay, Units
<1>7. Cardinality(UnderWay') + o.order.quantity <= Cardinality(UnderWay)
  BY <1>3, <1>5, <1>6, UnderWayServed
<1>8. Paid => Paid'
  <2> HIDE DEF UnderWay
  <2>1. o.order.quantity \in Nat
    BY <1>3, ShoppingAssumption
  <2> QED
    BY <1>1, <1>2, <1>7, <2>1, PaidTypes DEF Paid
<1>9. (Single' => Single) /\ \A t \in Tabs : InCart(t) => InCart(t)'
  BY <1>2 DEF Single, OpenTabs, InCart
<1> QED
  BY <1>4, <1>8, <1>9 DEF BuyInv

LEMMA NextBuy == TypeInv /\ InStepInv /\ BuyInv /\ [Next]_vars => BuyInv'
<1> SUFFICES ASSUME TypeInv, InStepInv, BuyInv, [Next]_vars PROVE BuyInv'
  OBVIOUS
<1>0. Single' => Single
  BY OpenTabsGrow DEF InStepInv, TypeInv
<1>1. ASSUME NEW t \in Tabs, Session(t) PROVE BuyInv'
  BY <1>0, <1>1, SessionKeepsBuy
<1>2. ASSUME NEW t \in Tabs, Shop(t) PROVE BuyInv'
  BY <1>0, <1>2, CartKeepsBuy, CheckoutKeepsBuy DEF Shop
<1>3. CASE ServeOrphan
  BY <1>3, OrphanKeepsBuy
<1>4. CASE StockMoves
  BY <1>4, OtherKeepsBuy DEF StockMoves, history
<1>5. CASE UNCHANGED vars
  BY <1>5, OtherKeepsBuy DEF vars
<1> QED
  BY <1>1, <1>2, <1>3, <1>4, <1>5 DEF Next

\* With one tab the units ordered and those in the cart never exceed those that were put in,
\* but for the orders whose answer the customer has not seen.
THEOREM NothingIsBoughtTwice == Spec => []BoughtOnce
<1>1. TypeInv /\ InStepInv /\ BuyInv => BoughtOnce
  <2> SUFFICES ASSUME TypeInv, InStepInv, BuyInv, OneTab
               PROVE  ordered + storage.cart.quantity <= added + unheard
    BY DEF BoughtOnce
  <2>1. Paid
    BY OneTabIsSingle DEF InStepInv, BuyInv
  <2> QED
    BY <2>1, PaidTypes DEF Paid
<1> QED
  BY <1>1, AlwaysTyped, InStepInit, NextInStep, BuyInit, NextBuy, TypeCorrect, PTL DEF Spec

==============================================================================
