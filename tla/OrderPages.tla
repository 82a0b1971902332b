------------------------------ MODULE OrderPages ------------------------------
(***************************************************************************)
(* The pages of one order: the customer's list, detail, payment and        *)
(* success pages and the admin's list and detail pages.  A page acts on    *)
(* the copy of the order its last load brought; what it may do with it is  *)
(* decided in the browser, the handlers of the order service check almost  *)
(* nothing.  Module Orders models the statements of those handlers; here a *)
(* handler is one step that may throw between two of its statements.       *)
(* A page is left through its links, with Back or by its address, whatever *)
(* it waits for: the request on its way is served all the same.            *)
(***************************************************************************)
EXTENDS Integers, FiniteSets

CONSTANTS
    Tabs,       \* the customer's browser tabs
    Desks,      \* the pages the admin has open
    MaxClicks,  \* bound: requests that change the order
    MayThrow    \* whether a request may fail

ASSUME PagesAssumption ==
    /\ Tabs \cap Desks = {}
    /\ MaxClicks \in Nat
    /\ MayThrow \in BOOLEAN

Pages == Tabs \cup Desks

StatusOptions == <<"PENDING", "PROCESSING", "SHIPPED", "DELIVERED", "CANCELLED">>
Status == {StatusOptions[i] : i \in 1 .. 5}
PaymentStatus == {"PENDING", "SUCCESS", "FAILED"}

OrderCopy == [status : Status, payment : PaymentStatus]
NoCopy == [status |-> "none", payment |-> "none"]   \* nothing loaded, or an error shown

VARIABLES
    order,     \* the rows of orders and payments: status and payment
    restocks,  \* how often a cancellation put the stock back
    at,        \* page -> where it is; "paid" is the pay page's last step
    copy,      \* page -> what its last load brought
    call,      \* page -> the request it waits for
    orphans,   \* requests on their way whose page was left: <<page, operation, clicks>>
    redirect,  \* pages whose script opens the success page when its timer fires
    clicks,    \* requests sent that change the order
    revived, undone,  \* history: cancellations and successful payments that were overwritten
    orphaned,         \* history: payments and cancellations whose page was left meanwhile
    lost              \* history: cancellations that threw

order_vars == <<order, restocks, revived, undone>>
vars == <<order, restocks, at, copy, call, orphans, redirect, clicks, revived, undone, orphaned,
          lost>>

NoCall == [op |-> "none", phase |-> "sent", got |-> NoCopy]
Request(op) == [op |-> op, phase |-> "sent", got |-> NoCopy]

\* What changes the order: a payment, a cancellation, the admin's choice of a status.
Writes == {"pay", "cancel"} \cup Status

Calls == [op : {"none", "load"} \cup Writes, phase : {"sent", "ok", "threw"},
          got : OrderCopy \cup {NoCopy}]

TypeOK ==
    /\ order \in OrderCopy
    /\ restocks \in Nat
    /\ at \in [Pages -> {"closed", "orders", "order", "pay", "paid", "success"}]
    /\ copy \in [Pages -> OrderCopy \cup {NoCopy}]
    /\ call \in [Pages -> Calls]
    /\ orphans \subseteq Pages \X Writes \X Nat
    /\ redirect \subseteq Pages
    /\ clicks \in 0 .. MaxClicks
    /\ revived \in Nat /\ undone \in Nat /\ lost \in Nat
    /\ orphaned \in [{"pay", "cancel"} -> Nat]

\* The order has just been placed, or was paid before; no page shows it yet.
Init ==
    /\ order \in {[status |-> "PENDING", payment |-> "PENDING"],
                  [status |-> "PROCESSING", payment |-> "SUCCESS"]}
    /\ restocks = 0
    /\ at = [p \in Pages |-> "closed"]
    /\ copy = [p \in Pages |-> NoCopy]
    /\ call = [p \in Pages |-> NoCall]
    /\ orphans = {}
    /\ redirect = {}
    /\ clicks = 0
    /\ revived = 0 /\ undone = 0 /\ lost = 0
    /\ orphaned = [op \in {"pay", "cancel"} |-> 0]

----------------------------------------------------------------------------
(* What the pages show and offer.                                          *)

\* A page shows the order unless it loads or shows an error.
Loading(p) == call[p].op = "load"
Failed(p) == copy[p] = NoCopy
Shown(p) == ~Loading(p) /\ ~Failed(p)

IsPaymentPending(o) == o.payment = "PENDING"

\* "No further actions can be taken", says the admin's page.
IsFinal(o) == o.status \in {"CANCELLED", "DELIVERED"}

\* The customer's links to the payment page, in the list and in the detail.
CanPay(o) == IsPaymentPending(o) /\ o.status # "CANCELLED"

\* Mutant: the button stays under the animation of a payment that ended.
PayOfferedAgain(t) == at[t] \in {"pay", "paid"} /\ Shown(t) /\ call[t].op = "none"

\* The button of the payment page is there in its step "select" only.
PayOffered(t) == at[t] = "pay" /\ Shown(t) /\ call[t].op = "none"

\* The customer's cancel button, disabled while a cancellation runs.
CanCancel(o) == o.status \in {"PENDING", "PROCESSING"}
CancelOffered(t) ==
    at[t] = "order" /\ Shown(t) /\ CanCancel(copy[t]) /\ call[t].op # "cancel"

\* Mutant: a pending payment does not disable the select box.
CanChangeUnpaid(o) == ~IsFinal(o)

\* The admin's select box: disabled, or the statuses from the current one on.
CanChangeStatus(o) == ~IsPaymentPending(o) /\ ~IsFinal(o)
IndexOf(s) == CHOOSE i \in 1 .. 5 : StatusOptions[i] = s
AvailableStatuses(o) == {StatusOptions[i] : i \in IndexOf(o.status) .. 5}

\* A write whose page is left has nobody to answer.
Orphan(p) ==
    LET op == call[p].op
    IN  IF op \in Writes /\ call[p].phase = "sent"
        THEN /\ orphans' = orphans \cup {<<p, op, clicks>>}
             /\ orphaned' = [o \in DOMAIN orphaned |-> orphaned[o] + IF o = op THEN 1 ELSE 0]
        ELSE UNCHANGED <<orphans, orphaned>>

\* A page that opens loads the order before it shows anything.
Open(p, where) ==
    /\ at' = [at EXCEPT ![p] = where]
    /\ copy' = [copy EXCEPT ![p] = NoCopy]
    /\ call' = [call EXCEPT ![p] = Request("load")]
    /\ Orphan(p)
    /\ UNCHANGED <<order_vars, clicks, lost>>

\* The order list: from the menu of the dashboard, which every page but the payment's has.
OpenOrders(p) ==
    /\ at[p] \in {"closed", "orders", "order", "success"}
    /\ Open(p, "orders")
    /\ UNCHANGED redirect

OpenOrder(p) ==
    /\ at[p] = "orders" /\ Shown(p)
    /\ Open(p, "order")
    /\ UNCHANGED redirect

\* The checkout ends on the payment page of the order it has placed.
OpenPayFromCheckout(t) ==
    /\ \A p \in Pages : at[p] = "closed"
    /\ Open(t, "pay")
    /\ UNCHANGED redirect

OpenPay(t) ==
    /\ at[t] \in {"orders", "order"} /\ Shown(t)
    /\ CanPay(copy[t])
    /\ Open(t, "pay")
    /\ UNCHANGED redirect

\* Back, Forward, a reload or the address of a page of the order, whatever the page waits
\* for.  What its script has begun goes on unless the browser loads the page anew: a timer, and
\* the load of a payment page, which opens the success page of a paid order.
Revisit(p) ==
    /\ \E where \in {"orders", "order"} \cup (IF p \in Tabs THEN {"pay", "success"} ELSE {}) :
          Open(p, where)
    /\ redirect' \in {redirect, redirect \ {p}}
                      \cup (IF at[p] = "pay" /\ Loading(p) THEN {redirect \cup {p}} ELSE {})

\* The timer of a payment that ended is not cleared when its page is left.
OpenSuccess(t) ==
    /\ t \in redirect
    /\ redirect' = redirect \ {t}
    /\ Open(t, "success")

\* "Try Again" of the lists that show an error.
Reload(p) ==
    /\ at[p] = "orders" /\ call[p].op = "none" /\ copy[p] = NoCopy
    /\ Open(p, "orders")
    /\ UNCHANGED redirect

----------------------------------------------------------------------------
(* What a user sends.                                                      *)

Send(p, op) ==
    /\ clicks < MaxClicks
    /\ clicks' = clicks + 1
    /\ call' = [call EXCEPT ![p] = Request(op)]
    /\ UNCHANGED <<order_vars, at, copy, orphans, redirect, orphaned, lost>>

\* handlePay leaves the step "select" before it sends anything.
HandlePay(t) ==
    /\ PayOffered(t)
    /\ Send(t, "pay")

HandleCancel(t) ==
    /\ CancelOffered(t)
    /\ Send(t, "cancel")

\* The select boxes of the list and of the detail, disabled while an update runs.
ChooseStatus(d, page) ==
    /\ at[d] = page /\ Shown(d) /\ call[d].op = "none"
    /\ CanChangeStatus(copy[d])
    /\ \E s \in AvailableStatuses(copy[d]) \ {copy[d].status} : Send(d, s)

UpdateStatusInList(d) == ChooseStatus(d, "orders")
UpdateStatus(d) == ChooseStatus(d, "order")

----------------------------------------------------------------------------
(* What the service does with it.                                          *)

\* The order after `done` statements of the handler, with the outcome of the payment.
ProcessPayment(success, done) ==
    /\ order' = [status |-> IF success /\ done = 2 THEN "PROCESSING" ELSE order.status,
                 payment |-> IF done = 0 THEN order.payment
                             ELSE IF success THEN "SUCCESS" ELSE "FAILED"]
    /\ UNCHANGED restocks

\* Mutant: the cancelled quantity is taken from the stock once more.
CancelTakesStock(done) ==
    /\ order.status \notin {"SHIPPED", "DELIVERED"}
    /\ restocks' = IF done > 0 THEN restocks - 1 ELSE restocks
    /\ order' = IF done = 2 THEN [order EXCEPT !.status = "CANCELLED"] ELSE order

Cancel(done) ==
    /\ order.status \notin {"SHIPPED", "DELIVERED"}
    /\ restocks' = IF done > 0 THEN restocks + 1 ELSE restocks
    /\ order' = IF done = 2 THEN [order EXCEPT !.status = "CANCELLED"] ELSE order

RefuseCancel ==
    /\ order.status \in {"SHIPPED", "DELIVERED"}
    /\ UNCHANGED <<order, restocks>>

SetStatus(s, done) ==
    /\ order' = IF done = 2 THEN [order EXCEPT !.status = s] ELSE order
    /\ UNCHANGED restocks

Serve(op, done) ==
    /\ \/ op = "pay" /\ \E success \in BOOLEAN : ProcessPayment(success, done)
       \/ op = "cancel" /\ Cancel(done)
       \/ op \in Status /\ SetStatus(op, done)
    /\ revived' = IF order.status = "CANCELLED" /\ order'.status # "CANCELLED"
                  THEN revived + 1 ELSE revived
    /\ undone' = IF order.payment = "SUCCESS" /\ order'.payment # "SUCCESS"
                 THEN undone + 1 ELSE undone

Answered(p, phase, got) ==
    call' = [call EXCEPT ![p].phase = phase, ![p].got = got]

ServeWrite(p) ==
    /\ call[p].op \in Writes /\ call[p].phase = "sent"
    /\ Serve(call[p].op, 2)
    /\ Answered(p, "ok", NoCopy)
    /\ UNCHANGED <<at, copy, orphans, redirect, clicks, orphaned, lost>>

ServeRefusal(p) ==
    /\ call[p].op = "cancel" /\ call[p].phase = "sent"
    /\ RefuseCancel
    /\ Answered(p, "threw", NoCopy)
    /\ UNCHANGED <<at, copy, orphans, redirect, clicks, revived, undone, orphaned, lost>>

\* The handler throws, before, between or after its statements.
ServeAndThrow(p) ==
    /\ MayThrow
    /\ call[p].op \in Writes /\ call[p].phase = "sent"
    /\ \E done \in 0 .. 2 : Serve(call[p].op, done)
    /\ Answered(p, "threw", NoCopy)
    /\ lost' = IF call[p].op = "cancel" THEN lost + 1 ELSE lost
    /\ UNCHANGED <<at, copy, orphans, redirect, clicks, orphaned>>

\* The payment page's script takes its answer after Back as well and starts the timer.
ServeOrphan ==
    /\ \E o \in orphans :
          /\ \/ \E done \in (IF MayThrow THEN 0 .. 2 ELSE {2}) : Serve(o[2], done)
             \/ o[2] = "cancel" /\ RefuseCancel /\ UNCHANGED <<revived, undone>>
          /\ orphans' = orphans \ {o}
          /\ redirect' \in {redirect} \cup (IF o[2] = "pay" THEN {redirect \cup {o[1]}} ELSE {})
    /\ UNCHANGED <<at, copy, call, clicks, orphaned, lost>>

\* GET /orders, /orders/all and /orders/:id
ServeLoad(p) ==
    /\ call[p].op = "load" /\ call[p].phase = "sent"
    /\ \/ Answered(p, "ok", order)
       \/ MayThrow /\ Answered(p, "threw", NoCopy)
    /\ UNCHANGED <<order_vars, at, copy, orphans, redirect, clicks, orphaned, lost>>

----------------------------------------------------------------------------
(* What the page does with the answer.                                     *)

\* The payment page sends an order that is paid to the success page.
ReceiveLoad(p) ==
    /\ call[p].op = "load" /\ call[p].phase # "sent"
    /\ IF at[p] = "pay" /\ call[p].got.payment = "SUCCESS"
       THEN Open(p, "success") /\ UNCHANGED redirect
       ELSE /\ copy' = [copy EXCEPT ![p] = call[p].got]
            /\ call' = [call EXCEPT ![p] = NoCall]
            /\ UNCHANGED <<order_vars, at, orphans, redirect, clicks, orphaned, lost>>

\* Mutant: an error ends the animation and nothing more.
ReceivePaidOrStay(t) ==
    /\ call[t].op = "pay" /\ call[t].phase # "sent"
    /\ at' = [at EXCEPT ![t] = "paid"]
    /\ call' = [call EXCEPT ![t] = NoCall]
    /\ redirect' = IF call[t].phase = "ok" THEN redirect \cup {t} ELSE redirect
    /\ UNCHANGED <<order_vars, copy, orphans, clicks, orphaned, lost>>

\* Whatever the answer is, the payment page shows success and starts the timer.
ReceivePaid(t) ==
    /\ call[t].op = "pay" /\ call[t].phase # "sent"
    /\ at' = [at EXCEPT ![t] = "paid"]
    /\ call' = [call EXCEPT ![t] = NoCall]
    /\ redirect' = redirect \cup {t}
    /\ UNCHANGED <<order_vars, copy, orphans, clicks, orphaned, lost>>

\* Mutant: the order is not loaded again.
ReceiveUnloaded(p, ops) ==
    /\ call[p].op \in ops /\ call[p].phase # "sent"
    /\ call' = [call EXCEPT ![p] = NoCall]
    /\ UNCHANGED <<order_vars, at, copy, orphans, redirect, clicks, orphaned, lost>>

\* A cancellation or a new status is followed by a load, an error by an alert.
ReceiveChanged(p, ops) ==
    /\ call[p].op \in ops /\ call[p].phase # "sent"
    /\ call' = [call EXCEPT ![p] = IF call[p].phase = "ok" THEN Request("load") ELSE NoCall]
    /\ UNCHANGED <<order_vars, at, copy, orphans, redirect, clicks, orphaned, lost>>

CancelAnswered(p) == ReceiveChanged(p, {"cancel"})
StatusAnswered(p) == ReceiveChanged(p, Status)

----------------------------------------------------------------------------
Answers(p) ==
    \/ ServeWrite(p) \/ ServeRefusal(p) \/ ServeAndThrow(p) \/ ServeLoad(p)
    \/ ReceiveLoad(p) \/ CancelAnswered(p) \/ StatusAnswered(p)

TabNext(t) ==
    \/ OpenPayFromCheckout(t) \/ OpenPay(t) \/ OpenSuccess(t)
    \/ HandlePay(t) \/ HandleCancel(t) \/ ReceivePaid(t)

Next ==
    \/ \E p \in Pages : OpenOrders(p) \/ OpenOrder(p) \/ Reload(p) \/ Revisit(p) \/ Answers(p)
    \/ \E t \in Tabs : TabNext(t)
    \/ \E d \in Desks : UpdateStatusInList(d) \/ UpdateStatus(d)
    \/ ServeOrphan

Spec == Init /\ [][Next]_vars

\* A request is answered in the end, the event loop of the page takes the answer, timers fire.
Fairness ==
    /\ \A p \in Pages : WF_vars(Answers(p))
    /\ \A t \in Tabs : WF_vars(ReceivePaid(t)) /\ WF_vars(OpenSuccess(t))

FairSpec == Spec /\ Fairness

----------------------------------------------------------------------------
OneTab == Cardinality({t \in Tabs : at[t] # "closed"}) <= 1

\* While the payment is pending the order is pending or cancelled, however old the copies
\* are the admin and the customer act on: "Payment is pending. Order status cannot be
\* updated until payment is completed" (admin/orders/[id]/page.tsx), which no handler checks.
UnpaidStaysPending ==
    order.payment = "PENDING" => order.status \in {"PENDING", "CANCELLED"}

\* A customer with one tab makes a cancellation put the stock back once, unless the order was
\* brought back to life in between, an answer was lost or the page of a cancellation was left
\* before its answer: the button and the reload behind it are all that stands against a second one.
RestockedOnce ==
    OneTab => restocks <= 1 + revived + lost + orphaned["cancel"]

\* A payment that succeeded is overwritten by one that fails no more often, for a customer with one
\* tab, than a payment page was left, with Back or a reload, while its request was on its way:
\* whatever is thrown, the page of a payment that was answered leads to no second one.
SuccessSticks ==
    OneTab => undone <= orphaned["pay"]

\* A payment that was started ends on the success page, whatever the service answered and
\* whatever it did, unless the customer opens a page before.
PayingEnds ==
    \A t \in Tabs : call[t].op = "pay" ~> at[t] = "success" \/ Loading(t)

==============================================================================
