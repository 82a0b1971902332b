-------------------------- MODULE OrderPages_proofs --------------------------
(***************************************************************************)
(* Proofs about OrderPages, for any number of pages and of requests: the   *)
(* state has its type; an order is pending or cancelled until its payment  *)
(* is decided; and for a customer with one tab what overwrites a payment   *)
(* that succeeded, or puts stock back twice, is counted: the payments and  *)
(* the cancellations whose page was left before they were answered.        *)
(***************************************************************************)
EXTENDS OrderPages, FiniteSetTheorems, TLAPS

-----------------------------------------------------------------------------
(* Type correctness. *)

LEMMA StatusIs == Status = {"PENDING", "PROCESSING", "SHIPPED", "DELIVERED", "CANCELLED"}
<1>1. \A i \in 1 .. 5 : StatusOptions[i] \in
          {"PENDING", "PROCESSING", "SHIPPED", "DELIVERED", "CANCELLED"}
  BY DEF StatusOptions
<1>2. /\ StatusOptions[1] = "PENDING" /\ StatusOptions[2] = "PROCESSING"
      /\ StatusOptions[3] = "SHIPPED" /\ StatusOptions[4] = "DELIVERED"
      /\ StatusOptions[5] = "CANCELLED"
  BY DEF StatusOptions
<1> HIDE DEF StatusOptions
<1> QED
  BY <1>1, <1>2 DEF Status

\* The select box offers statuses.
LEMMA AvailableAreStatuses ==
  ASSUME NEW o \in OrderCopy
  PROVE  AvailableStatuses(o) \subseteq Status
<1>1. \E i \in 1 .. 5 : StatusOptions[i] = o.status
  BY DEF OrderCopy, Status
<1>2. IndexOf(o.status) \in 1 .. 5
  BY <1>1 DEF IndexOf
<1> HIDE DEF IndexOf, StatusOptions
<1>3. IndexOf(o.status) .. 5 \subseteq 1 .. 5
  BY <1>2
<1> QED
  BY <1>3 DEF AvailableStatuses, Status

\* A row of the tables is no copy that was never loaded.
LEMMA CopyIsLoaded == NoCopy \notin OrderCopy
  BY StatusIs DEF NoCopy, OrderCopy

\* The two requests of the customer are none of the statuses, and no load is a write.
LEMMA OpsDiffer ==
  /\ "pay" \notin Status /\ "cancel" \notin Status /\ "load" \notin Writes /\ "none" \notin Writes
  /\ Status \subseteq Writes /\ "pay" \in Writes /\ "cancel" \in Writes
  BY StatusIs DEF Writes

LEMMA RequestType ==
  ASSUME NEW op \in {"none", "load"} \cup Writes
  PROVE  Request(op) \in Calls /\ NoCall \in Calls
  BY DEF Request, NoCall, Calls

LEMMA InitType == Init => TypeOK
<1> SUFFICES ASSUME Init PROVE TypeOK
  OBVIOUS
<1>1. order \in OrderCopy
  BY StatusIs DEF Init, OrderCopy, PaymentStatus
<1>2. call \in [Pages -> Calls]
  BY RequestType DEF Init
<1> QED
  BY <1>1, <1>2, PagesAssumption DEF Init, TypeOK

\* Leaving a page leaves at most one request behind.
LEMMA OrphanType ==
  ASSUME TypeOK, NEW p \in Pages, Orphan(p)
  PROVE  /\ orphans' \subseteq Pages \X Writes \X Nat
         /\ orphaned' \in [{"pay", "cancel"} -> Nat]
         /\ \/ orphans' = orphans /\ orphaned' = orphaned
            \/ /\ call[p].op \in Writes /\ call[p].phase = "sent"
               /\ orphans' = orphans \cup {<<p, call[p].op, clicks>>}
               /\ \A op \in {"pay", "cancel"} :
                      orphaned'[op] = orphaned[op] + IF op = call[p].op THEN 1 ELSE 0
<1>1. /\ orphaned \in [{"pay", "cancel"} -> Nat] /\ orphans \subseteq Pages \X Writes \X Nat
      /\ clicks \in Nat
  BY PagesAssumption DEF TypeOK
<1>2. CASE call[p].op \in Writes /\ call[p].phase = "sent"
  <2>1. /\ orphans' = orphans \cup {<<p, call[p].op, clicks>>}
        /\ orphaned' = [o \in DOMAIN orphaned |-> orphaned[o] + IF o = call[p].op THEN 1 ELSE 0]
    BY <1>2 DEF Orphan
  <2>2. \A op \in {"pay", "cancel"} :
            orphaned'[op] = orphaned[op] + IF op = call[p].op THEN 1 ELSE 0
    BY <1>1, <2>1
  <2>3. orphaned' \in [{"pay", "cancel"} -> Nat]
    BY <1>1, <2>1
  <2> QED
    BY <1>1, <1>2, <2>1, <2>2, <2>3
<1>3. CASE ~(call[p].op \in Writes /\ call[p].phase = "sent")
  BY <1>1, <1>3 DEF Orphan
<1> QED
  BY <1>2, <1>3

LEMMA OpenType ==
  ASSUME TypeOK, NEW p \in Pages, NEW where, Open(p, where),
         where \in {"orders", "order", "pay", "success"}, redirect' \subseteq Pages
  PROVE  TypeOK'
<1>1. Orphan(p)
  BY DEF Open
<1>2. call' \in [Pages -> Calls]
  BY RequestType DEF Open, TypeOK
<1>3. /\ at' \in [Pages -> {"closed", "orders", "order", "pay", "paid", "success"}]
      /\ copy' \in [Pages -> OrderCopy \cup {NoCopy}]
  BY DEF Open, TypeOK
<1> QED
  BY <1>1, <1>2, <1>3, OrphanType DEF Open, TypeOK, order_vars

\* A handler writes statuses of its columns and counts up.
LEMMA ServeType ==
  ASSUME TypeOK, NEW op, NEW done \in 0 .. 2, Serve(op, done)
  PROVE  order' \in OrderCopy /\ restocks' \in Nat /\ revived' \in Nat /\ undone' \in Nat
<1>1. /\ order.status \in Status /\ order.payment \in PaymentStatus
      /\ order = [status |-> order.status, payment |-> order.payment]
  BY DEF TypeOK, OrderCopy
<1>2. order' \in OrderCopy /\ restocks' \in Nat
  <2>1. CASE \E success \in BOOLEAN : ProcessPayment(success, done)
    BY <2>1, <1>1, StatusIs DEF ProcessPayment, OrderCopy, PaymentStatus, TypeOK
  <2>2. CASE Cancel(done)
    BY <2>2, <1>1, StatusIs DEF Cancel, OrderCopy, TypeOK
  <2>3. CASE op \in Status /\ SetStatus(op, done)
    BY <2>3, <1>1 DEF SetStatus, OrderCopy, TypeOK
  <2> QED
    BY <2>1, <2>2, <2>3 DEF Serve
<1> QED
  BY <1>2 DEF Serve, TypeOK

LEMMA AnsweredType ==
  ASSUME TypeOK, NEW p \in Pages, NEW phase \in {"ok", "threw"},
         NEW got \in OrderCopy \cup {NoCopy}, Answered(p, phase, got)
  PROVE  call' \in [Pages -> Calls]
<1>1. call[p] \in Calls
  BY DEF TypeOK
<1>2. [[call[p] EXCEPT !.phase = phase] EXCEPT !.got = got] \in Calls
  BY <1>1 DEF Calls
<1> QED
  BY <1>2 DEF Answered, TypeOK

LEMMA SendType ==
  ASSUME TypeOK, NEW p \in Pages, NEW op \in Writes, Send(p, op)
  PROVE  TypeOK'
<1>1. call' \in [Pages -> Calls]
  BY RequestType DEF Send, TypeOK
<1>2. clicks' \in 0 .. MaxClicks
  BY PagesAssumption DEF Send, TypeOK
<1> QED
  BY <1>1, <1>2 DEF Send, TypeOK, order_vars

\* The requests of the select boxes are statuses, and what they act on is paid or failed.
LEMMA ChosenStatus ==
  ASSUME TypeOK, NEW d \in Pages, NEW page, ChooseStatus(d, page)
  PROVE  /\ copy[d] \in OrderCopy /\ copy[d].payment # "PENDING"
         /\ at[d] = page /\ call[d].op = "none"
         /\ \E s \in Status : Send(d, s)
<1>1. copy[d] \in OrderCopy
  BY DEF ChooseStatus, Shown, Failed, TypeOK
<1>2. AvailableStatuses(copy[d]) \subseteq Status
  BY <1>1, AvailableAreStatuses
<1> QED
  BY <1>1, <1>2 DEF ChooseStatus, CanChangeStatus, IsPaymentPending

LEMMA NextType == TypeOK /\ [Next]_vars => TypeOK'
<1> SUFFICES ASSUME TypeOK, [Next]_vars PROVE TypeOK'
  OBVIOUS
<1>1. ASSUME NEW p \in Pages, OpenOrders(p) \/ OpenOrder(p) \/ Reload(p)
      PROVE  TypeOK'
  <2>1. \E where \in {"orders", "order"} : Open(p, where) /\ redirect' = redirect
    BY <1>1 DEF OpenOrders, OpenOrder, Reload
  <2> QED
    BY <2>1, OpenType DEF TypeOK
<1>2. ASSUME NEW t \in Tabs, OpenPayFromCheckout(t) \/ OpenPay(t) \/ OpenSuccess(t)
      PROVE  TypeOK'
  <2>1. \E where \in {"pay", "success"} : Open(t, where) /\ redirect' \subseteq redirect
    BY <1>2 DEF OpenPayFromCheckout, OpenPay, OpenSuccess
  <2> QED
    BY <2>1, OpenType DEF Pages, TypeOK
<1>3. ASSUME NEW p \in Pages, Answers(p)
      PROVE  TypeOK'
  <2>1. CASE ServeWrite(p) \/ ServeAndThrow(p)
    <3>1. /\ \E done \in 0 .. 2 : Serve(call[p].op, done)
          /\ \E phase \in {"ok", "threw"} : Answered(p, phase, NoCopy)
          /\ lost' \in Nat /\ UNCHANGED <<at, copy, orphans, redirect, clicks, orphaned>>
      BY <2>1 DEF ServeWrite, ServeAndThrow, TypeOK
    <3>2. order' \in OrderCopy /\ restocks' \in Nat /\ revived' \in Nat /\ undone' \in Nat
      BY <3>1, ServeType
    <3>3. call' \in [Pages -> Calls]
      BY <3>1, AnsweredType
    <3> QED
      BY <3>1, <3>2, <3>3 DEF TypeOK
  <2>2. CASE ServeRefusal(p)
    <3>1. call' \in [Pages -> Calls]
      BY <2>2, AnsweredType DEF ServeRefusal
    <3> QED
      BY <2>2, <3>1 DEF ServeRefusal, RefuseCancel, TypeOK
  <2>3. CASE ServeLoad(p)
    <3>1. call' \in [Pages -> Calls]
      BY <2>3, AnsweredType DEF ServeLoad, TypeOK
    <3> QED
      BY <2>3, <3>1 DEF ServeLoad, TypeOK, order_vars
  <2>4. CASE ReceiveLoad(p)
    <3>1. CASE at[p] = "pay" /\ call[p].got.payment = "SUCCESS"
      BY <2>4, <3>1, OpenType DEF ReceiveLoad, TypeOK
    <3>2. CASE ~(at[p] = "pay" /\ call[p].got.payment = "SUCCESS")
      <4>1. call[p].got \in OrderCopy \cup {NoCopy}
        BY DEF TypeOK, Calls
      <4> QED
        BY <2>4, <3>2, <4>1, RequestType DEF ReceiveLoad, TypeOK, order_vars
    <3> QED
      BY <3>1, <3>2
  <2>5. CASE CancelAnswered(p) \/ StatusAnswered(p)
    BY <2>5, RequestType DEF CancelAnswered, StatusAnswered, ReceiveChanged, TypeOK, order_vars
  <2> QED
    BY <1>3, <2>1, <2>2, <2>3, <2>4, <2>5 DEF Answers
<1>4. ASSUME NEW t \in Tabs, HandlePay(t) \/ HandleCancel(t)
      PROVE  TypeOK'
  BY <1>4, SendType, OpsDiffer DEF HandlePay, HandleCancel, Pages
<1>5. ASSUME NEW t \in Tabs, ReceivePaid(t)
      PROVE  TypeOK'
  BY <1>5, RequestType DEF ReceivePaid, TypeOK, order_vars, Pages
<1>6. ASSUME NEW d \in Desks, UpdateStatusInList(d) \/ UpdateStatus(d)
      PROVE  TypeOK'
  <2>1. \E s \in Status : Send(d, s)
    BY <1>6, ChosenStatus DEF UpdateStatusInList, UpdateStatus, Pages
  <2> QED
    BY <2>1, SendType, OpsDiffer DEF Pages
<1>7. CASE ServeOrphan
  <2>1. PICK o \in orphans :
           /\ \/ \E done \in 0 .. 2 : Serve(o[2], done)
              \/ RefuseCancel /\ UNCHANGED <<revived, undone>>
           /\ orphans' = orphans \ {o}
           /\ redirect' \in {redirect} \cup (IF o[2] = "pay" THEN {redirect \cup {o[1]}} ELSE {})
    BY <1>7 DEF ServeOrphan
  <2>2. /\ order' \in OrderCopy /\ restocks' \in Nat /\ revived' \in Nat /\ undone' \in Nat
    BY <2>1, ServeType DEF RefuseCancel, TypeOK
  <2>3. redirect' \subseteq Pages
    <3>1. o[1] \in Pages
      BY DEF TypeOK
    <3> QED
      BY <2>1, <3>1 DEF TypeOK
  <2>4. orphans' \subseteq orphans /\ UNCHANGED <<at, copy, call, clicks, orphaned, lost>>
    BY <1>7, <2>1 DEF ServeOrphan
  <2> QED
    BY <2>2, <2>3, <2>4 DEF TypeOK
<1>8. ASSUME NEW p \in Pages, Revisit(p)
      PROVE  TypeOK'
  <2>1. \E where \in {"orders", "order", "pay", "success"} : Open(p, where)
    BY <1>8 DEF Revisit
  <2>2. redirect' \subseteq Pages
    BY <1>8 DEF Revisit, TypeOK
  <2> QED
    BY <2>1, <2>2, OpenType
<1>9. CASE UNCHANGED vars
  BY <1>9 DEF vars, order_vars, TypeOK
<1> QED
  BY <1>1, <1>2, <1>3, <1>4, <1>5, <1>6, <1>7, <1>8, <1>9 DEF Next, TabNext

\* Every variable of the pages of an order has its type, for any number of pages.
THEOREM TypeCorrect == Spec => []TypeOK
  BY InitType, NextType, PTL DEF Spec

-----------------------------------------------------------------------------
(* An order whose payment is not decided is pending or cancelled. *)

Decided == order.payment # "PENDING"

\* What a page saw decided is decided, and a status was only asked for once it was:
\* the reason why copies as old as one likes do no harm.
SeenIsDecided ==
    /\ \A p \in Pages : copy[p] # NoCopy /\ copy[p].payment # "PENDING" => Decided
    /\ \A p \in Pages :
           call[p].got # NoCopy /\ call[p].got.payment # "PENDING" => Decided
    /\ \A p \in Pages : call[p].op \in Status => Decided
    /\ \A o \in orphans : o[2] \in Status => Decided

UnpaidInv == UnpaidStaysPending /\ SeenIsDecided

LEMMA UnpaidInit == Init => UnpaidInv
  BY OpsDiffer, StatusIs
     DEF Init, UnpaidInv, UnpaidStaysPending, SeenIsDecided, NoCall

\* No handler takes a decision on the payment back, and a status is only written on one.
LEMMA ServeKeepsDecided ==
  ASSUME TypeOK, UnpaidStaysPending, NEW op, NEW done \in 0 .. 2, Serve(op, done),
         op \in Status => Decided
  PROVE  (Decided => Decided') /\ UnpaidStaysPending'
<1> USE DEF Decided, UnpaidStaysPending, TypeOK, OrderCopy
<1>1. CASE \E success \in BOOLEAN : ProcessPayment(success, done)
  BY <1>1 DEF ProcessPayment
<1>2. CASE Cancel(done)
  BY <1>2 DEF Cancel
<1>3. CASE op \in Status /\ SetStatus(op, done)
  BY <1>3 DEF SetStatus
<1> QED
  BY <1>1, <1>2, <1>3 DEF Serve

\* A page that opens forgets its copy; the request it leaves is none that was not decided.
LEMMA OpenKeepsUnpaid ==
  ASSUME TypeOK, UnpaidInv, NEW p \in Pages, NEW where, Open(p, where)
  PROVE  UnpaidInv'
<1>1. order' = order
  BY DEF Open, order_vars
<1>2. \A o \in orphans' : o[2] \in Status => Decided
  <2>1. orphans' = orphans \/ orphans' = orphans \cup {<<p, call[p].op, clicks>>}
    BY OrphanType DEF Open
  <2> QED
    BY <2>1 DEF UnpaidInv, SeenIsDecided
<1>3. \A q \in Pages : /\ copy'[q] \in {copy[q], NoCopy}
                        /\ call'[q] \in {call[q], Request("load")}
  BY DEF Open, TypeOK
<1>4. Request("load").got = NoCopy /\ Request("load").op \notin Status
  BY OpsDiffer DEF Request
<1> QED
  BY <1>1, <1>2, <1>3, <1>4 DEF UnpaidInv, UnpaidStaysPending, SeenIsDecided, Decided

\* A request sent from a copy that was seen decided.
LEMMA SendKeepsUnpaid ==
  ASSUME TypeOK, UnpaidInv, NEW p \in Pages, NEW op \in Writes, Send(p, op),
         op \in Status => Decided
  PROVE  UnpaidInv'
<1>1. order' = order /\ copy' = copy /\ orphans' = orphans
  BY DEF Send, order_vars
<1>2. \A q \in Pages : call'[q] \in {call[q], Request(op)}
  BY DEF Send, TypeOK
<1>3. Request(op).got = NoCopy /\ Request(op).op = op
  BY DEF Request
<1> QED
  BY <1>1, <1>2, <1>3 DEF UnpaidInv, UnpaidStaysPending, SeenIsDecided, Decided

LEMMA AnsweredIs ==
  ASSUME TypeOK, NEW p \in Pages, NEW phase, NEW got, Answered(p, phase, got)
  PROVE  /\ call'[p].op = call[p].op /\ call'[p].got = got /\ call'[p].phase = phase
         /\ \A q \in Pages : q # p => call'[q] = call[q]
  BY DEF Answered, TypeOK, Calls

LEMMA AnswersKeepUnpaid ==
  ASSUME TypeOK, UnpaidInv, NEW p \in Pages, Answers(p)
  PROVE  UnpaidInv'
<1>1. CASE ServeWrite(p) \/ ServeAndThrow(p)
  <2>1. /\ \E done \in 0 .. 2 : Serve(call[p].op, done)
        /\ \E phase \in {"ok", "threw"} : Answered(p, phase, NoCopy)
        /\ UNCHANGED <<copy, orphans>>
    BY <1>1 DEF ServeWrite, ServeAndThrow
  <2>2. (Decided => Decided') /\ UnpaidStaysPending'
    BY <2>1, ServeKeepsDecided DEF UnpaidInv, SeenIsDecided
  <2>3. \A q \in Pages : call'[q].op = call[q].op /\ call'[q].got \in {call[q].got, NoCopy}
    BY <2>1, AnsweredIs
  <2> QED
    BY <2>1, <2>2, <2>3 DEF UnpaidInv, SeenIsDecided
<1>2. CASE ServeRefusal(p)
  <2>1. order' = order /\ copy' = copy /\ orphans' = orphans
    BY <1>2 DEF ServeRefusal, RefuseCancel
  <2>2. \A q \in Pages : call'[q].op = call[q].op /\ call'[q].got \in {call[q].got, NoCopy}
    BY <1>2, AnsweredIs DEF ServeRefusal
  <2> QED
    BY <2>1, <2>2 DEF UnpaidInv, UnpaidStaysPending, SeenIsDecided, Decided
<1>3. CASE ServeLoad(p)
  <2>1. order' = order /\ copy' = copy /\ orphans' = orphans
    BY <1>3 DEF ServeLoad, order_vars
  <2>2. \A q \in Pages : call'[q].op = call[q].op
                          /\ call'[q].got \in {call[q].got, NoCopy, order}
    BY <1>3, AnsweredIs DEF ServeLoad
  <2> QED
    BY <2>1, <2>2 DEF UnpaidInv, UnpaidStaysPending, SeenIsDecided, Decided
<1>4. CASE ReceiveLoad(p)
  <2>1. CASE at[p] = "pay" /\ call[p].got.payment = "SUCCESS"
    BY <1>4, <2>1, OpenKeepsUnpaid DEF ReceiveLoad
  <2>2. CASE ~(at[p] = "pay" /\ call[p].got.payment = "SUCCESS")
    <3>1. order' = order /\ orphans' = orphans
      BY <1>4, <2>2 DEF ReceiveLoad, order_vars
    <3>2. \A q \in Pages : /\ copy'[q] = copy[q] \/ copy'[q] = call[q].got
                           /\ call'[q] \in {call[q], NoCall}
      BY <1>4, <2>2 DEF ReceiveLoad, TypeOK
    <3>3. NoCall.got = NoCopy /\ NoCall.op \notin Status
      BY OpsDiffer DEF NoCall
    <3> QED
      BY <3>1, <3>2, <3>3 DEF UnpaidInv, UnpaidStaysPending, SeenIsDecided, Decided
  <2> QED
    BY <2>1, <2>2
<1>5. CASE CancelAnswered(p) \/ StatusAnswered(p)
  <2>1. order' = order /\ copy' = copy /\ orphans' = orphans
    BY <1>5 DEF CancelAnswered, StatusAnswered, ReceiveChanged, order_vars
  <2>2. \A q \in Pages : call'[q] \in {call[q], NoCall, Request("load")}
    BY <1>5 DEF CancelAnswered, StatusAnswered, ReceiveChanged, TypeOK
  <2>3. /\ NoCall.got = NoCopy /\ NoCall.op \notin Status
        /\ Request("load").got = NoCopy /\ Request("load").op \notin Status
    BY OpsDiffer DEF NoCall, Request
  <2> QED
    BY <2>1, <2>2, <2>3 DEF UnpaidInv, UnpaidStaysPending, SeenIsDecided, Decided
<1> QED
  BY <1>1, <1>2, <1>3, <1>4, <1>5 DEF Answers

LEMMA NextUnpaid == TypeOK /\ UnpaidInv /\ [Next]_vars => UnpaidInv'
<1> SUFFICES ASSUME TypeOK, UnpaidInv, [Next]_vars PROVE UnpaidInv'
  OBVIOUS
<1>1. ASSUME NEW p \in Pages, NEW where, Open(p, where)
      PROVE  UnpaidInv'
  BY <1>1, OpenKeepsUnpaid
<1>2. ASSUME NEW p \in Pages, OpenOrders(p) \/ OpenOrder(p) \/ Reload(p) \/ Revisit(p)
      PROVE  UnpaidInv'
  BY <1>1, <1>2 DEF OpenOrders, OpenOrder, Reload, Revisit
<1>3. ASSUME NEW t \in Tabs, OpenPayFromCheckout(t) \/ OpenPay(t) \/ OpenSuccess(t)
      PROVE  UnpaidInv'
  BY <1>1, <1>3 DEF OpenPayFromCheckout, OpenPay, OpenSuccess, Pages
<1>4. ASSUME NEW p \in Pages, Answers(p)
      PROVE  UnpaidInv'
  BY <1>4, AnswersKeepUnpaid
<1>5. ASSUME NEW t \in Tabs, HandlePay(t) \/ HandleCancel(t)
      PROVE  UnpaidInv'
  BY <1>5, SendKeepsUnpaid, OpsDiffer DEF HandlePay, HandleCancel, Pages
<1>6. ASSUME NEW t \in Tabs, ReceivePaid(t)
      PROVE  UnpaidInv'
  <2>1. order' = order /\ copy' = copy /\ orphans' = orphans
    BY <1>6 DEF ReceivePaid, order_vars
  <2>2. \A q \in Pages : call'[q] \in {call[q], NoCall}
    BY <1>6 DEF ReceivePaid, TypeOK
  <2>3. NoCall.got = NoCopy /\ NoCall.op \notin Status
    BY OpsDiffer DEF NoCall
  <2> QED
    BY <2>1, <2>2, <2>3 DEF UnpaidInv, UnpaidStaysPending, SeenIsDecided, Decided
<1>7. ASSUME NEW d \in Desks, UpdateStatusInList(d) \/ UpdateStatus(d)
      PROVE  UnpaidInv'
  <2>1. PICK s \in Status : Send(d, s)
    BY <1>7, ChosenStatus DEF UpdateStatusInList, UpdateStatus, Pages
  <2>2. copy[d] \in OrderCopy /\ copy[d].payment # "PENDING"
    BY <1>7, ChosenStatus DEF UpdateStatusInList, UpdateStatus, Pages
  <2>3. Decided
    BY <2>2, CopyIsLoaded DEF UnpaidInv, SeenIsDecided, Pages
  <2> QED
    BY <2>1, <2>3, SendKeepsUnpaid, OpsDiffer DEF Pages
<1>8. CASE ServeOrphan
  <2>1. PICK o \in orphans :
           /\ (\E done \in 0 .. 2 : Serve(o[2], done)) \/ RefuseCancel
           /\ orphans' = orphans \ {o}
    BY <1>8 DEF ServeOrphan
  <2>2. copy' = copy /\ call' = call
    BY <1>8 DEF ServeOrphan
  <2>3. (Decided => Decided') /\ UnpaidStaysPending'
    <3>1. CASE \E done \in 0 .. 2 : Serve(o[2], done)
      BY <3>1, ServeKeepsDecided DEF UnpaidInv, SeenIsDecided
    <3>2. CASE RefuseCancel
      BY <3>2 DEF RefuseCancel, UnpaidInv, UnpaidStaysPending, Decided
    <3> QED
      BY <2>1, <3>1, <3>2
  <2> QED
    BY <2>1, <2>2, <2>3 DEF UnpaidInv, SeenIsDecided
<1>9. CASE UNCHANGED vars
  BY <1>9 DEF vars, order_vars, UnpaidInv, UnpaidStaysPending, SeenIsDecided, Decided
<1> QED
  BY <1>2, <1>3, <1>4, <1>5, <1>6, <1>7, <1>8, <1>9 DEF Next, TabNext

\* While the payment is pending the order is pending or cancelled: the select boxes of the admin
\* and what they know of the order suffice, although no handler looks at the payment.
THEOREM UnpaidOrdersStayPending == Spec => []UnpaidStaysPending
<1>1. UnpaidInv => UnpaidStaysPending
  BY DEF UnpaidInv
<1> QED
  BY <1>1, UnpaidInit, NextUnpaid, TypeCorrect, PTL DEF Spec

-----------------------------------------------------------------------------
(* A payment that succeeded is overwritten no more often than a payment was left behind. *)

OpenTabs == {t \in Tabs : at[t] # "closed"}

\* No two tabs are open: what OneTab says without counting.
Single == \A t, u \in OpenTabs : t = u

\* A copy that was loaded and shows no payment that succeeded.
Unpaid(o) == o # NoCopy /\ o.payment # "SUCCESS"

\* A page that has a payment on its way, or may send one from what it has loaded.
MayPay(p) ==
    \/ call[p].op = "pay" /\ call[p].phase = "sent"
    \/ at[p] = "pay" /\ call[p].op = "load" /\ Unpaid(call[p].got)
    \/ at[p] = "pay" /\ call[p].op = "none" /\ copy[p] # NoCopy

\* The requests of an operation on their way whose page was left.
LeftBehind(op) == {o \in orphans : o[2] = op}

\* One more payment comes for an order that is paid.
Overpays == order.payment = "SUCCESS" /\ \E t \in Tabs : MayPay(t)
Overpayment == IF Overpays THEN 1 ELSE 0

\* What was overwritten, what was left behind and may overwrite, and what still may be sent fit
\* the payments that were left behind: that is kept by every step, which the bound alone is not.
PaidBudget ==
    undone + Cardinality(LeftBehind("pay")) + Overpayment <= orphaned["pay"]

\* A closed page has loaded nothing; the admin pays and cancels nothing, and the payment page
\* changes nothing else.
Orderly ==
    /\ \A p \in Pages : at[p] = "closed" => call[p] = NoCall /\ copy[p] = NoCopy
    /\ \A d \in Desks :
           at[d] \in {"closed", "orders", "order"} /\ call[d].op \notin {"pay", "cancel"}
    /\ \A p \in Pages : at[p] = "pay" => call[p].op \in {"none", "load", "pay"}

Base == IsFiniteSet(OpenTabs) /\ IsFiniteSet(orphans) /\ Orderly

LEMMA OneTabIsSingle ==
  ASSUME IsFiniteSet(OpenTabs), OneTab
  PROVE  Single
<1> SUFFICES ASSUME NEW t \in OpenTabs, NEW u \in OpenTabs, t # u PROVE FALSE
  BY DEF Single
<1>1. IsFiniteSet({t}) /\ Cardinality({t}) = 1
  BY FS_Singleton
<1>2. Cardinality({t} \cup {u}) = 2
  <2>1. u \notin {t}
    OBVIOUS
  <2>2. Cardinality({t} \cup {u}) =
            IF u \in {t} THEN Cardinality({t}) ELSE Cardinality({t}) + 1
    BY <1>1, FS_AddElement
  <2> QED
    BY <1>1, <2>1, <2>2
<1>3. {t} \cup {u} \in SUBSET OpenTabs
  OBVIOUS
<1>4. Cardinality(OpenTabs) \in Nat /\ Cardinality({t} \cup {u}) <= Cardinality(OpenTabs)
  BY <1>3, FS_Subset, FS_CardinalityType
<1> QED
  BY <1>2, <1>4 DEF OneTab, OpenTabs

LEMMA BaseInit == Init => Base
<1> SUFFICES ASSUME Init PROVE Base
  OBVIOUS
<1>1. OpenTabs = {}
  BY DEF Init, OpenTabs, Pages
<1>2. Orderly
  BY DEF Init, Orderly, NoCall, Pages
<1> QED
  BY <1>1, <1>2, FS_EmptySet DEF Base, Init

\* Tabs are opened and never closed: what holds of a single tab held before.
LEMMA OpenTabsGrow ==
  ASSUME TypeOK, IsFiniteSet(OpenTabs), [Next]_vars
  PROVE  IsFiniteSet(OpenTabs') /\ (Single' => Single)
<1>1. \/ at' = at
      \/ \E p \in Pages, where \in {"orders", "order", "pay", "paid", "success"} :
             at' = [at EXCEPT ![p] = where]
  BY DEF Next, TabNext, Answers, OpenOrders, OpenOrder, Reload, Revisit, OpenPayFromCheckout,
         OpenPay, OpenSuccess, Open, HandlePay, HandleCancel, ReceivePaid, UpdateStatusInList,
         UpdateStatus, ChooseStatus, Send, ServeWrite, ServeRefusal, ServeAndThrow, ServeLoad,
         ReceiveLoad, CancelAnswered, StatusAnswered, ReceiveChanged, ServeOrphan, Pages, vars
<1>2. CASE at' = at
  BY <1>2 DEF OpenTabs, Single
<1>3. ASSUME NEW p \in Pages, NEW where \in {"orders", "order", "pay", "paid", "success"},
             at' = [at EXCEPT ![p] = where]
      PROVE  IsFiniteSet(OpenTabs') /\ (Single' => Single)
  <2>1. OpenTabs \subseteq OpenTabs' /\ OpenTabs' \in SUBSET (OpenTabs \cup {p})
    BY <1>3 DEF OpenTabs, TypeOK, Pages
  <2>2. IsFiniteSet(OpenTabs')
    BY <2>1, FS_AddElement, FS_Subset
  <2> QED
    BY <2>1, <2>2 DEF Single
<1> QED
  BY <1>1, <1>2, <1>3

LEMMA LeftBehindCounts ==
  ASSUME IsFiniteSet(orphans), NEW op
  PROVE  IsFiniteSet(LeftBehind(op)) /\ Cardinality(LeftBehind(op)) \in Nat
<1>1. LeftBehind(op) \in SUBSET orphans
  BY DEF LeftBehind
<1> QED
  BY <1>1, FS_Subset, FS_CardinalityType

LEMMA LeftBehindStillCounts ==
  ASSUME IsFiniteSet(orphans'), NEW op
  PROVE  Cardinality(LeftBehind(op)') \in Nat
<1>1. LeftBehind(op)' \in SUBSET orphans'
  BY DEF LeftBehind
<1> QED
  BY <1>1, FS_Subset, FS_CardinalityType

\* A payment or a cancellation is left behind together with a count of it.
LEMMA OrphanCounts ==
  ASSUME TypeOK, IsFiniteSet(orphans), NEW p \in Pages, Orphan(p), NEW op \in {"pay", "cancel"}
  PROVE  /\ IsFiniteSet(orphans') /\ orphaned'[op] \in Nat
         /\ Cardinality(LeftBehind(op)') + orphaned[op] <=
                Cardinality(LeftBehind(op)) + orphaned'[op]
<1>1. /\ orphaned[op] \in Nat /\ orphaned'[op] \in Nat
      /\ IsFiniteSet(LeftBehind(op)) /\ Cardinality(LeftBehind(op)) \in Nat
  BY LeftBehindCounts, OrphanType DEF TypeOK
<1>2. CASE orphans' = orphans /\ orphaned' = orphaned
  BY <1>1, <1>2 DEF LeftBehind
<1>3. CASE /\ call[p].op \in Writes /\ call[p].phase = "sent"
           /\ orphans' = orphans \cup {<<p, call[p].op, clicks>>}
           /\ \A o \in {"pay", "cancel"} :
                  orphaned'[o] = orphaned[o] + IF o = call[p].op THEN 1 ELSE 0
  <2> DEFINE left == <<p, call[p].op, clicks>>
  <2>0. left[2] = call[p].op
    OBVIOUS
  <2>1. IsFiniteSet(orphans')
    BY <1>3, FS_AddElement
  <2>2. CASE call[p].op = op
    <3>1. LeftBehind(op)' = LeftBehind(op) \cup {left} /\ orphaned'[op] = orphaned[op] + 1
      BY <1>3, <2>0, <2>2 DEF LeftBehind
    <3>2. Cardinality(LeftBehind(op) \cup {left}) =
              IF left \in LeftBehind(op) THEN Cardinality(LeftBehind(op))
              ELSE Cardinality(LeftBehind(op)) + 1
      BY <1>1, FS_AddElement
    <3> HIDE DEF left
    <3> QED
      BY <1>1, <2>1, <3>1, <3>2
  <2>3. CASE call[p].op # op
    <3>1. LeftBehind(op)' = LeftBehind(op) /\ orphaned'[op] = orphaned[op]
      BY <1>1, <1>3, <2>0, <2>3 DEF LeftBehind
    <3> QED
      BY <1>1, <2>1, <3>1
  <2> QED
    BY <2>2, <2>3
<1> QED
  BY <1>2, <1>3, OrphanType

\* An orphan that is served is behind no longer.
LEMMA OrphanServed ==
  ASSUME IsFiniteSet(orphans), NEW o \in orphans, orphans' = orphans \ {o}, NEW op
  PROVE  /\ IsFiniteSet(orphans')
         /\ Cardinality(LeftBehind(op)') = IF o[2] = op THEN Cardinality(LeftBehind(op)) - 1
                                          ELSE Cardinality(LeftBehind(op))
<1>1. IsFiniteSet(orphans') /\ IsFiniteSet(LeftBehind(op))
  BY FS_RemoveElement, LeftBehindCounts
<1>2. LeftBehind(op)' = LeftBehind(op) \ {o} /\ (o \in LeftBehind(op) <=> o[2] = op)
  BY DEF LeftBehind
<1> QED
  BY <1>1, <1>2, FS_RemoveElement

\* A page that opens is in order.
LEMMA OpenKeepsOrderly ==
  ASSUME TypeOK, Orderly, NEW p \in Pages, NEW where, Open(p, where),
         where \in {"orders", "order", "pay", "success"},
         p \in Desks => where \in {"orders", "order"}
  PROVE  Orderly'
<1>1. /\ at'[p] = where /\ call'[p] = Request("load") /\ copy'[p] = NoCopy
      /\ \A q \in Pages \ {p} : at'[q] = at[q] /\ copy'[q] = copy[q] /\ call'[q] = call[q]
  BY DEF Open, TypeOK
<1>2. Request("load").op = "load"
  BY DEF Request
<1> QED
  BY <1>1, <1>2 DEF Orderly, Pages

\* So is one that sends, loads or shows something.
LEMMA ViewKeepsOrderly ==
  ASSUME TypeOK, Orderly, NEW p \in Pages, at[p] # "closed", at'[p] \in {at[p], "paid"},
         \A q \in Pages \ {p} : at'[q] = at[q] /\ copy'[q] = copy[q] /\ call'[q] = call[q],
         p \in Desks => at'[p] = at[p] /\ call'[p].op \notin {"pay", "cancel"},
         at[p] = "pay" => call'[p].op \in {"none", "load", "pay"}
  PROVE  Orderly'
  BY DEF Orderly, Pages

\* What the answers of a page do to it, whatever page it is.
LEMMA AnswersKeepOrderly ==
  ASSUME TypeOK, Orderly, NEW p \in Pages, Answers(p)
  PROVE  Orderly'
<1>1. at[p] # "closed"
  BY OpsDiffer
     DEF Answers, ServeWrite, ServeRefusal, ServeAndThrow, ServeLoad, ReceiveLoad, CancelAnswered,
         StatusAnswered, ReceiveChanged, Orderly, NoCall
<1>2. CASE ReceiveLoad(p) /\ at[p] = "pay" /\ call[p].got.payment = "SUCCESS"
  <2>1. Open(p, "success") /\ p \notin Desks
    BY <1>2 DEF ReceiveLoad, Orderly
  <2> QED
    BY <2>1, OpenKeepsOrderly
<1>3. CASE ~(ReceiveLoad(p) /\ at[p] = "pay" /\ call[p].got.payment = "SUCCESS")
  <2>1. /\ at' = at
        /\ \A q \in Pages : q # p => call'[q] = call[q] /\ copy'[q] = copy[q]
        /\ call'[p].op \in {call[p].op, "none", "load"}
    <3>1. CASE ServeWrite(p) \/ ServeAndThrow(p)
      BY <3>1, AnsweredIs DEF ServeWrite, ServeAndThrow
    <3>2. CASE ServeRefusal(p) \/ ServeLoad(p)
      BY <3>2, AnsweredIs DEF ServeRefusal, ServeLoad
    <3>3. CASE ReceiveLoad(p)
      BY <1>3, <3>3 DEF ReceiveLoad, TypeOK, NoCall
    <3>4. CASE CancelAnswered(p) \/ StatusAnswered(p)
      BY <3>4 DEF CancelAnswered, StatusAnswered, ReceiveChanged, TypeOK, NoCall, Request
    <3> QED
      BY <3>1, <3>2, <3>3, <3>4 DEF Answers
  <2>2. /\ p \in Desks => call[p].op \notin {"pay", "cancel"}
        /\ at[p] = "pay" => call[p].op \in {"none", "load", "pay"}
    BY DEF Orderly
  <2> QED
    BY <1>1, <2>1, <2>2, ViewKeepsOrderly
<1> QED
  BY <1>2, <1>3

\* A step of a page that opens another, or comes back to one.
Opens(p) ==
    /\ \E where \in {"orders", "order", "pay", "success"} : Open(p, where)
    /\ p \in Desks => \E where \in {"orders", "order"} : Open(p, where)

LEMMA WhatOpens ==
  ASSUME NEW p \in Pages,
         \/ OpenOrders(p) \/ OpenOrder(p) \/ Reload(p) \/ Revisit(p)
         \/ p \in Tabs /\ (OpenPayFromCheckout(p) \/ OpenPay(p) \/ OpenSuccess(p))
  PROVE  Opens(p)
<1>1. p \in Desks => p \notin Tabs
  BY PagesAssumption
<1> QED
  BY <1>1 DEF OpenOrders, OpenOrder, Reload, Revisit, OpenPayFromCheckout, OpenPay, OpenSuccess,
              Opens

\* A step of a page that sends a request: the payment's, the cancellation's or a status.
Sends(p, op) ==
    /\ Send(p, op) /\ op \in Writes
    /\ p \in Desks => op \notin {"pay", "cancel"}
    /\ at[p] # "closed" /\ copy[p] # NoCopy /\ call[p].op # "load"
    /\ op # "cancel" => call[p].op = "none"
    /\ op = "pay" <=> at[p] = "pay"
    /\ op = "cancel" => copy[p].status # "CANCELLED" /\ call[p].op # "cancel"

LEMMA WhatSends ==
  ASSUME TypeOK, NEW p \in Pages,
         \/ p \in Tabs /\ (HandlePay(p) \/ HandleCancel(p))
         \/ p \in Desks /\ (UpdateStatusInList(p) \/ UpdateStatus(p))
  PROVE  \E op \in Writes : Sends(p, op)
<1>1. p \in Desks => p \notin Tabs
  BY PagesAssumption
<1>2. CASE p \in Tabs /\ HandlePay(p)
  BY <1>1, <1>2, OpsDiffer DEF HandlePay, PayOffered, Shown, Failed, Sends
<1>3. CASE p \in Tabs /\ HandleCancel(p)
  BY <1>1, <1>3, OpsDiffer
     DEF HandleCancel, CancelOffered, CanCancel, Shown, Failed, Loading, Sends
<1>4. CASE p \in Desks /\ (UpdateStatusInList(p) \/ UpdateStatus(p))
  <2>1. PICK page \in {"orders", "order"} : ChooseStatus(p, page)
    BY <1>4 DEF UpdateStatusInList, UpdateStatus
  <2>2. PICK s \in Status : Send(p, s)
    BY <2>1, ChosenStatus
  <2>3. at[p] = page /\ call[p].op = "none" /\ copy[p] # NoCopy
    BY <2>1, ChosenStatus, CopyIsLoaded
  <2> QED
    BY <2>2, <2>3, OpsDiffer DEF Sends
<1> QED
  BY <1>2, <1>3, <1>4

\* Every step is one of these.
LEMMA Steps ==
  ASSUME TypeOK, [Next]_vars
  PROVE  \/ \E p \in Pages : Opens(p) \/ Answers(p) \/ \E op \in Writes : Sends(p, op)
         \/ \E t \in Tabs : ReceivePaid(t)
         \/ ServeOrphan
         \/ UNCHANGED vars
  BY WhatOpens, WhatSends DEF Next, TabNext, Pages

LEMMA NextBase == TypeOK /\ Base /\ [Next]_vars => Base'
<1> SUFFICES ASSUME TypeOK, Base, [Next]_vars PROVE Base'
  OBVIOUS
<1>1. IsFiniteSet(OpenTabs') /\ Orderly /\ IsFiniteSet(orphans)
  BY OpenTabsGrow DEF Base
<1>2. ASSUME NEW p \in Pages, Opens(p)
      PROVE  Base'
  <2>1. PICK where \in {"orders", "order", "pay", "success"} :
            Open(p, where) /\ (p \in Desks => where \in {"orders", "order"})
    BY <1>2 DEF Opens
  <2>2. IsFiniteSet(orphans')
    BY <1>1, <2>1, OrphanCounts DEF Open
  <2> QED
    BY <1>1, <2>1, <2>2, OpenKeepsOrderly DEF Base
<1>3. ASSUME NEW p \in Pages, Answers(p)
      PROVE  Base'
  <2>1. IsFiniteSet(orphans')
    BY <1>1, <1>3, OrphanCounts
       DEF Answers, ServeWrite, ServeRefusal, ServeAndThrow, ServeLoad, ReceiveLoad, Open,
           CancelAnswered, StatusAnswered, ReceiveChanged
  <2> QED
    BY <1>1, <1>3, <2>1, AnswersKeepOrderly DEF Base
<1>4. ASSUME NEW p \in Pages, NEW op \in Writes, Sends(p, op)
      PROVE  Base'
  <2>1. /\ UNCHANGED <<at, copy, orphans>> /\ call'[p].op = op /\ at[p] # "closed"
        /\ \A q \in Pages \ {p} : call'[q] = call[q]
        /\ p \in Desks => op \notin {"pay", "cancel"}
        /\ op = "pay" <=> at[p] = "pay"
    BY <1>4 DEF Sends, Send, Request, TypeOK
  <2>2. Orderly'
    BY <1>1, <2>1, ViewKeepsOrderly
  <2> QED
    BY <1>1, <2>1, <2>2 DEF Base
<1>5. ASSUME NEW t \in Tabs, ReceivePaid(t)
      PROVE  Base'
  <2>1. t \in Pages /\ t \notin Desks
    BY PagesAssumption DEF Pages
  <2>2. /\ at[t] # "closed" /\ at'[t] = "paid" /\ call'[t].op = "none"
        /\ \A q \in Pages \ {t} : at'[q] = at[q] /\ call'[q] = call[q]
        /\ UNCHANGED <<copy, orphans>>
    BY <1>1, <1>5, <2>1 DEF ReceivePaid, NoCall, Orderly, TypeOK
  <2>3. Orderly'
    BY <1>1, <2>1, <2>2, ViewKeepsOrderly
  <2> QED
    BY <1>1, <2>2, <2>3 DEF Base
<1>6. CASE ServeOrphan
  <2>1. PICK o \in orphans : orphans' = orphans \ {o}
    BY <1>6 DEF ServeOrphan
  <2>2. IsFiniteSet(orphans')
    BY <1>1, <2>1, FS_RemoveElement
  <2> QED
    BY <1>1, <1>6, <2>2 DEF ServeOrphan, Base, Orderly
<1>7. CASE UNCHANGED vars
  BY <1>1, <1>7 DEF vars, Base, Orderly
<1> QED
  BY <1>2, <1>3, <1>4, <1>5, <1>6, <1>7, Steps


\* A step that overwrites nothing: no payment may come for a paid order that could not before.
LEMMA PaidBudgetKept ==
  ASSUME TypeOK, Base, Base', Single => PaidBudget, Single' => Single,
         undone' = undone, orphaned'["pay"] \in Nat,
         Cardinality(LeftBehind("pay")') + orphaned["pay"] <=
             Cardinality(LeftBehind("pay")) + orphaned'["pay"],
         Overpays' => Overpays
  PROVE  Single' => PaidBudget'
<1> DEFINE C == Cardinality(LeftBehind("pay"))
<1>1. C \in Nat /\ C' \in Nat
  BY LeftBehindCounts, LeftBehindStillCounts DEF Base
<1>2. undone \in Nat /\ orphaned["pay"] \in Nat
  BY DEF TypeOK
<1>3. Overpayment \in 0 .. 1 /\ Overpayment' \in 0 .. 1 /\ Overpayment' <= Overpayment
  BY DEF Overpayment
<1>4. Single => undone + C + Overpayment <= orphaned["pay"]
  BY DEF PaidBudget
<1>5. C' + orphaned["pay"] <= C + orphaned'["pay"]
  OBVIOUS
<1>6. PaidBudget' <=> undone' + C' + Overpayment' <= orphaned'["pay"]
  BY DEF PaidBudget
<1> HIDE DEF C, Overpayment
<1> QED
  BY <1>1, <1>2, <1>3, <1>4, <1>5, <1>6

\* A step of one page that leaves the order alone.
LEMMA ViewKeepsPaid ==
  ASSUME TypeOK, Base, Base', Single => PaidBudget, Single' => Single, NEW p \in Pages,
         order' = order, undone' = undone, orphaned' = orphaned, orphans' = orphans,
         \A q \in Pages \ {p} : at'[q] = at[q] /\ copy'[q] = copy[q] /\ call'[q] = call[q],
         p \in Tabs /\ order.payment = "SUCCESS" /\ MayPay(p)' => MayPay(p)
  PROVE  Single' => PaidBudget'
<1>1. \A t \in Tabs : MayPay(t)' /\ order.payment = "SUCCESS" => MayPay(t)
  BY DEF MayPay, Pages
<1>2. Overpays' => Overpays
  BY <1>1 DEF Overpays
<1>3. LeftBehind("pay")' = LeftBehind("pay") /\ Cardinality(LeftBehind("pay")) \in Nat
  BY LeftBehindCounts DEF LeftBehind, Base
<1>4. orphaned'["pay"] \in Nat
  BY DEF TypeOK
<1> HIDE DEF LeftBehind
<1> QED
  BY <1>2, <1>3, <1>4, PaidBudgetKept DEF TypeOK

\* A page that opens may not pay, before it has loaded the order.
LEMMA OpenKeepsPaid ==
  ASSUME TypeOK, Base, Base', Single => PaidBudget, Single' => Single,
         NEW p \in Pages, NEW where, Open(p, where)
  PROVE  Single' => PaidBudget'
<1>1. /\ orphaned'["pay"] \in Nat
      /\ Cardinality(LeftBehind("pay")') + orphaned["pay"] <=
             Cardinality(LeftBehind("pay")) + orphaned'["pay"]
  BY OrphanCounts DEF Open, Base
<1>2. /\ UNCHANGED <<order, undone>>
      /\ \A q \in Pages \ {p} : at'[q] = at[q] /\ copy'[q] = copy[q] /\ call'[q] = call[q]
      /\ call'[p] = Request("load")
  BY DEF Open, order_vars, TypeOK
<1>3. ~MayPay(p)'
  BY <1>2 DEF MayPay, Unpaid, Request
<1>4. Overpays' => Overpays
  BY <1>2, <1>3 DEF Overpays, MayPay, Pages
<1> HIDE DEF LeftBehind
<1> QED
  BY <1>1, <1>2, <1>4, PaidBudgetKept

\* Only a payment decides a payment, and counts what it overwrites.
LEMMA ServePays ==
  ASSUME TypeOK, NEW op, NEW done \in 0 .. 2, Serve(op, done)
  PROVE  /\ op # "pay" => order'.payment = order.payment /\ undone' = undone
         /\ order.payment # "SUCCESS" => undone' = undone
         /\ undone' \in {undone, undone + 1}
         /\ order.payment = "SUCCESS" /\ undone' = undone => order'.payment = "SUCCESS"
<1>1. undone \in Nat
  BY DEF TypeOK
<1>2. op # "pay" => order'.payment = order.payment
  BY OpsDiffer DEF Serve, Cancel, SetStatus, TypeOK, OrderCopy
<1>3. undone' = IF order.payment = "SUCCESS" /\ order'.payment # "SUCCESS"
                THEN undone + 1 ELSE undone
  BY DEF Serve
<1> QED
  BY <1>1, <1>2, <1>3

LEMMA ServeKeepsPaid ==
  ASSUME TypeOK, Base, Base', Single => PaidBudget, Single' => Single,
         NEW p \in Pages, ServeWrite(p) \/ ServeAndThrow(p)
  PROVE  Single' => PaidBudget'
<1>1. PICK done \in 0 .. 2, phase \in {"ok", "threw"} :
          /\ call[p].op \in Writes /\ call[p].phase = "sent"
          /\ Serve(call[p].op, done) /\ Answered(p, phase, NoCopy)
          /\ UNCHANGED <<at, copy, orphans, orphaned>>
  BY DEF ServeWrite, ServeAndThrow
<1>2. /\ call'[p].op = call[p].op /\ call'[p].phase # "sent"
      /\ \A q \in Pages : q # p => call'[q] = call[q]
  BY <1>1, AnsweredIs
<1>3. LeftBehind("pay")' = LeftBehind("pay") /\ Cardinality(LeftBehind("pay")) \in Nat
  BY <1>1, LeftBehindCounts DEF LeftBehind, Base
<1>4. orphaned' = orphaned /\ orphaned["pay"] \in Nat /\ undone \in Nat
  BY <1>1 DEF TypeOK
<1>5. /\ call[p].op # "pay" => order'.payment = order.payment /\ undone' = undone
      /\ order.payment # "SUCCESS" => undone' = undone
      /\ undone' \in {undone, undone + 1}
  BY <1>1, ServePays
<1>6. CASE call[p].op # "pay"
  <2>1. \A t \in Tabs : MayPay(t)' => MayPay(t)
    BY <1>1, <1>2, <1>6, OpsDiffer DEF MayPay, Pages
  <2>2. Overpays' => Overpays
    BY <1>5, <1>6, <2>1 DEF Overpays
  <2> HIDE DEF LeftBehind
  <2> QED
    BY <1>3, <1>4, <1>5, <1>6, <2>2, PaidBudgetKept
<1>7. CASE call[p].op = "pay" /\ Single
  <2>1. p \in Tabs /\ at[p] # "closed" /\ MayPay(p)
    BY <1>1, <1>7 DEF Base, Orderly, Pages, MayPay, NoCall
  <2>2. \A t \in Tabs : t # p => call[t] = NoCall /\ copy[t] = NoCopy
    BY <1>7, <2>1 DEF Single, OpenTabs, Base, Orderly, Pages
  <2>3. ~MayPay(p)'
    BY <1>2, <1>7 DEF MayPay
  <2>4. \A t \in Tabs : t # p => ~MayPay(t)'
    BY <1>1, <1>2, <2>2 DEF MayPay, NoCall, Pages
  <2>5. Overpayment' = 0
    BY <2>3, <2>4 DEF Overpayment, Overpays
  <2>6. Overpayment = IF order.payment = "SUCCESS" THEN 1 ELSE 0
    BY <2>1 DEF Overpayment, Overpays
  <2>7. PaidBudget
    BY <1>7
  <2> HIDE DEF LeftBehind, Overpayment
  <2> QED
    BY <1>3, <1>4, <1>5, <2>5, <2>6, <2>7 DEF PaidBudget
<1> QED
  BY <1>6, <1>7

LEMMA AnswersKeepPaid ==
  ASSUME TypeOK, Base, Base', Single => PaidBudget, Single' => Single,
         NEW p \in Pages, Answers(p)
  PROVE  Single' => PaidBudget'
<1>1. CASE ServeWrite(p) \/ ServeAndThrow(p)
  BY <1>1, ServeKeepsPaid
<1>2. CASE ServeRefusal(p)
  <2>1. /\ UNCHANGED <<order, undone, orphaned, orphans, at, copy>>
        /\ call[p].op = "cancel" /\ call'[p].op = "cancel"
        /\ \A q \in Pages : q # p => call'[q] = call[q]
    BY <1>2, AnsweredIs DEF ServeRefusal, RefuseCancel
  <2>2. ~MayPay(p)'
    BY <2>1 DEF MayPay
  <2> QED
    BY <2>1, <2>2, ViewKeepsPaid
<1>3. CASE ServeLoad(p)
  <2>1. /\ UNCHANGED <<order, undone, orphaned, orphans, at, copy>>
        /\ call'[p].op = "load" /\ call'[p].got \in {order, NoCopy}
        /\ \A q \in Pages : q # p => call'[q] = call[q]
    BY <1>3, AnsweredIs DEF ServeLoad, order_vars
  <2>2. order.payment = "SUCCESS" => ~MayPay(p)'
    BY <2>1 DEF MayPay, Unpaid
  <2> QED
    BY <2>1, <2>2, ViewKeepsPaid
<1>4. CASE ReceiveLoad(p)
  <2>1. CASE at[p] = "pay" /\ call[p].got.payment = "SUCCESS"
    BY <1>4, <2>1, OpenKeepsPaid DEF ReceiveLoad
  <2>2. CASE ~(at[p] = "pay" /\ call[p].got.payment = "SUCCESS")
    <3>1. /\ UNCHANGED <<order, undone, orphaned, orphans, at>>
          /\ call[p].op = "load" /\ copy'[p] = call[p].got /\ call'[p] = NoCall
          /\ \A q \in Pages : q # p => copy'[q] = copy[q] /\ call'[q] = call[q]
      BY <1>4, <2>2 DEF ReceiveLoad, order_vars, TypeOK
    <3>2. MayPay(p)' => MayPay(p)
      BY <2>2, <3>1 DEF MayPay, NoCall, Unpaid
    <3> QED
      BY <3>1, <3>2, ViewKeepsPaid
  <2> QED
    BY <2>1, <2>2
<1>5. CASE CancelAnswered(p) \/ StatusAnswered(p)
  <2>1. /\ UNCHANGED <<order, undone, orphaned, orphans, at, copy>>
        /\ call'[p] \in {NoCall, Request("load")}
        /\ call[p].op \in {"cancel"} \cup Status
        /\ \A q \in Pages : q # p => call'[q] = call[q]
    BY <1>5 DEF CancelAnswered, StatusAnswered, ReceiveChanged, order_vars, TypeOK
  <2>2. at[p] # "pay"
    BY <2>1, OpsDiffer, StatusIs DEF Base, Orderly
  <2>3. ~MayPay(p)'
    BY <2>1, <2>2 DEF MayPay, NoCall, Request
  <2> QED
    BY <2>1, <2>3, ViewKeepsPaid
<1> QED
  BY <1>1, <1>2, <1>3, <1>4, <1>5 DEF Answers

LEMMA OrphanKeepsPaid ==
  ASSUME TypeOK, Base, Base', Single => PaidBudget, Single' => Single, ServeOrphan
  PROVE  Single' => PaidBudget'
<1>1. PICK o \in orphans :
         /\ \/ \E done \in 0 .. 2 : Serve(o[2], done)
            \/ o[2] = "cancel" /\ RefuseCancel /\ UNCHANGED <<revived, undone>>
         /\ orphans' = orphans \ {o}
  BY DEF ServeOrphan
<1>2. UNCHANGED <<at, copy, call, orphaned>>
  BY DEF ServeOrphan
<1> DEFINE C == Cardinality(LeftBehind("pay"))
<1>3. C' = IF o[2] = "pay" THEN C - 1 ELSE C
  BY <1>1, OrphanServed DEF Base
<1>4. C \in Nat /\ C' \in Nat /\ undone \in Nat /\ orphaned["pay"] \in Nat
  BY LeftBehindCounts, LeftBehindStillCounts DEF Base, TypeOK
<1>5. \A t \in Tabs : MayPay(t)' <=> MayPay(t)
  BY <1>2 DEF MayPay
<1>6. Overpayment \in 0 .. 1 /\ Overpayment' \in 0 .. 1
  BY DEF Overpayment
<1>7. Single => undone + C + Overpayment <= orphaned["pay"]
  BY DEF PaidBudget
<1>8. PaidBudget' <=> undone' + C' + Overpayment' <= orphaned'["pay"]
  BY DEF PaidBudget
<1>9. CASE o[2] = "pay"
  <2>1. PICK done \in 0 .. 2 : Serve(o[2], done)
    BY <1>1, <1>9
  <2>2. /\ order.payment # "SUCCESS" => undone' = undone
        /\ undone' \in {undone, undone + 1}
        /\ order.payment = "SUCCESS" /\ undone' = undone => order'.payment = "SUCCESS"
        /\ undone' # undone => order'.payment # "SUCCESS"
    BY <2>1, ServePays DEF Serve, TypeOK
  <2>3. /\ undone' # undone => Overpayment' = 0
        /\ order.payment = "SUCCESS" => Overpayment' <= Overpayment
    BY <1>5, <2>2 DEF Overpayment, Overpays
  <2> HIDE DEF C, Overpayment
  <2> QED
    BY <1>2, <1>3, <1>4, <1>6, <1>7, <1>8, <1>9, <2>2, <2>3
<1>10. CASE o[2] # "pay"
  <2>1. order'.payment = order.payment /\ undone' = undone
    BY <1>1, <1>10, ServePays DEF RefuseCancel
  <2>2. Overpayment' = Overpayment
    BY <1>5, <2>1 DEF Overpayment, Overpays
  <2> HIDE DEF C, Overpayment
  <2> QED
    BY <1>2, <1>3, <1>4, <1>6, <1>7, <1>8, <1>10, <2>1, <2>2
<1> QED
  BY <1>9, <1>10

PaidInv == Single => PaidBudget

LEMMA PaidInit == Init => PaidInv
<1> SUFFICES ASSUME Init PROVE PaidBudget
  BY DEF PaidInv
<1>1. LeftBehind("pay") = {} /\ Cardinality({}) = 0
  BY FS_EmptySet DEF Init, LeftBehind
<1>2. undone = 0 /\ orphaned["pay"] = 0
  BY DEF Init
<1>3. Overpayment = 0
  <2>1. \A t \in Tabs : at[t] = "closed" /\ call[t].op = "none"
    BY DEF Init, Pages, NoCall
  <2> QED
    BY <2>1 DEF Overpayment, Overpays, MayPay
<1> QED
  BY <1>1, <1>2, <1>3 DEF PaidBudget

LEMMA NextPaid == TypeOK /\ Base /\ Base' /\ PaidInv /\ [Next]_vars => PaidInv'
<1> SUFFICES ASSUME TypeOK, Base, Base', PaidInv, [Next]_vars PROVE Single' => PaidBudget'
  BY DEF PaidInv
<1>1. (Single' => Single) /\ (Single => PaidBudget)
  BY OpenTabsGrow DEF Base, PaidInv
<1>2. ASSUME NEW p \in Pages, Opens(p)
      PROVE  Single' => PaidBudget'
  BY <1>1, <1>2, OpenKeepsPaid DEF Opens
<1>3. ASSUME NEW p \in Pages, Answers(p)
      PROVE  Single' => PaidBudget'
  BY <1>1, <1>3, AnswersKeepPaid
<1>4. ASSUME NEW p \in Pages, NEW op \in Writes, Sends(p, op)
      PROVE  Single' => PaidBudget'
  <2>1. /\ UNCHANGED <<order, undone, orphaned, orphans, at, copy>>
        /\ call'[p] = Request(op) /\ \A q \in Pages : q # p => call'[q] = call[q]
        /\ op = "pay" => call[p].op = "none" /\ at[p] = "pay"
        /\ copy[p] # NoCopy
    BY <1>4 DEF Sends, Send, order_vars, TypeOK
  <2>2. MayPay(p)' => MayPay(p)
    BY <2>1, OpsDiffer DEF MayPay, Request
  <2> QED
    BY <1>1, <2>1, <2>2, ViewKeepsPaid
<1>5. ASSUME NEW t \in Tabs, ReceivePaid(t)
      PROVE  Single' => PaidBudget'
  <2>1. t \in Pages
    BY DEF Pages
  <2>2. /\ UNCHANGED <<order, undone, orphaned, orphans, copy>>
        /\ at'[t] = "paid" /\ \A q \in Pages : q # t => at'[q] = at[q]
        /\ call'[t] = NoCall /\ \A q \in Pages : q # t => call'[q] = call[q]
    BY <1>5, <2>1 DEF ReceivePaid, order_vars, TypeOK
  <2>3. ~MayPay(t)'
    BY <2>2 DEF MayPay, NoCall
  <2> QED
    BY <1>1, <2>1, <2>2, <2>3, ViewKeepsPaid
<1>6. CASE ServeOrphan
  BY <1>1, <1>6, OrphanKeepsPaid
<1>7. CASE UNCHANGED vars
  BY <1>1, <1>7 DEF vars, order_vars, Single, OpenTabs, PaidBudget, LeftBehind, Overpayment,
                    Overpays, MayPay
<1> QED
  BY <1>2, <1>3, <1>4, <1>5, <1>6, <1>7, Steps

\* A payment that succeeded is overwritten no more often, as long as the customer has one tab open,
\* than a payment page was left while its request was on its way: a page that was answered, or has
\* loaded an order that is paid, leads to no second payment.
THEOREM SucceededPaymentSticks == Spec => []SuccessSticks
<1>1. TypeOK /\ Base /\ PaidInv => SuccessSticks
  <2> SUFFICES ASSUME TypeOK, Base, PaidInv, OneTab
               PROVE  undone <= orphaned["pay"]
    BY DEF SuccessSticks
  <2>1. PaidBudget
    BY OneTabIsSingle DEF Base, PaidInv
  <2>2. /\ Overpayment \in 0 .. 1 /\ Cardinality(LeftBehind("pay")) \in Nat
        /\ undone \in Nat /\ orphaned["pay"] \in Nat
    BY LeftBehindCounts DEF Overpayment, Base, TypeOK
  <2> HIDE DEF Overpayment, LeftBehind
  <2> QED
    BY <2>1, <2>2 DEF PaidBudget
<1>2. Spec => []Base
  BY BaseInit, NextBase, TypeCorrect, PTL DEF Spec
<1> QED
  BY <1>1, <1>2, PaidInit, NextPaid, TypeCorrect, PTL DEF Spec

-----------------------------------------------------------------------------
(* A cancellation puts the stock back once for a customer with one tab. *)

Live(o) == o # NoCopy /\ o.status # "CANCELLED"

\* A tab that has a cancellation on its way, or may send one from what it has loaded.
MayCancel(t) ==
    \/ call[t].op = "cancel" /\ call[t].phase = "sent"
    \/ call[t].op = "load" /\ Live(call[t].got)
    \/ call[t].op # "load" /\ ~(call[t].op = "cancel" /\ call[t].phase = "ok") /\ Live(copy[t])

\* One more cancellation may come as long as the order lives or is shown alive.
Uncounted == Live(order) \/ \E t \in Tabs : MayCancel(t)
ToCome == IF Uncounted THEN 1 ELSE 0

\* What was put back, what is under way and what may come fit what is allowed: that is
\* kept by every step, which the bound on the restocks alone is not.
WithinBudget ==
    restocks + Cardinality(LeftBehind("cancel")) + ToCome <=
        1 + revived + lost + orphaned["cancel"]

RestockInv == Single => WithinBudget

LEMMA RestockInit == Init => RestockInv
<1> SUFFICES ASSUME Init PROVE WithinBudget
  BY DEF RestockInv
<1>1. LeftBehind("cancel") = {} /\ Cardinality({}) = 0
  BY FS_EmptySet DEF Init, LeftBehind
<1>2. restocks = 0 /\ revived = 0 /\ lost = 0 /\ orphaned["cancel"] = 0 /\ ToCome \in 0 .. 1
  BY DEF Init, ToCome
<1> QED
  BY <1>1, <1>2 DEF WithinBudget

\* A handler cancels at most once, and counts whom it brings back to life.
LEMMA ServeCounts ==
  ASSUME TypeOK, NEW op, NEW done \in 0 .. 2, Serve(op, done)
  PROVE  /\ revived' \in {revived, revived + 1}
         /\ Live(order') => Live(order) \/ revived' = revived + 1
         /\ restocks' \in {restocks, restocks + 1}
         /\ op # "cancel" => restocks' = restocks
         /\ op = "cancel" /\ done = 2 =>
               ~Live(order') /\ revived' = revived /\ restocks' = restocks + 1
<1>1. order \in OrderCopy /\ order' \in OrderCopy /\ restocks \in Nat
  BY ServeType DEF TypeOK
<1>2. /\ Live(order) <=> order.status # "CANCELLED"
      /\ Live(order') <=> order'.status # "CANCELLED"
  BY <1>1, CopyIsLoaded DEF Live
<1>3. CASE op = "cancel"
  <2>1. Cancel(done)
    BY <1>3, OpsDiffer DEF Serve
  <2> QED
    <3>1. revived' \in {revived, revived + 1}
          /\ (Live(order') => Live(order) \/ revived' = revived + 1)
      BY <1>2 DEF Serve
    <3>2. restocks' = IF done > 0 THEN restocks + 1 ELSE restocks
      BY <2>1 DEF Cancel
    <3>3. done = 2 => order'.status = "CANCELLED" /\ restocks' = restocks + 1
      BY <1>1, <2>1, <3>2 DEF Cancel, OrderCopy
    <3>4. done = 2 => ~Live(order') /\ revived' = revived
      BY <1>2, <3>3 DEF Serve
    <3> QED
      BY <1>3, <3>1, <3>2, <3>3, <3>4
<1>4. CASE op # "cancel"
  <2>1. restocks' = restocks
    BY <1>4 DEF Serve, ProcessPayment, SetStatus
  <2> QED
    BY <1>2, <1>4, <2>1 DEF Serve
<1> QED
  BY <1>3, <1>4

\* A step that puts nothing back: no tab may cancel that none could before.
LEMMA BudgetKept ==
  ASSUME TypeOK, Base, Base', RestockInv, Single' => Single,
         restocks' = restocks, lost' \in Nat, lost <= lost',
         revived' \in Nat, revived <= revived', orphaned'["cancel"] \in Nat,
         Cardinality(LeftBehind("cancel")') + orphaned["cancel"] <=
             Cardinality(LeftBehind("cancel")) + orphaned'["cancel"],
         Uncounted' => Uncounted \/ revived' = revived + 1
  PROVE  Single' => WithinBudget'
<1> DEFINE C == Cardinality(LeftBehind("cancel"))
<1>1. Single => restocks + C + ToCome <= 1 + revived + lost + orphaned["cancel"]
  BY DEF RestockInv, WithinBudget
<1>2. /\ restocks \in Nat /\ revived \in Nat /\ lost \in Nat /\ orphaned["cancel"] \in Nat
      /\ C \in Nat /\ C' \in Nat
  BY LeftBehindCounts, LeftBehindStillCounts DEF Base, TypeOK
<1>3. /\ ToCome \in 0 .. 1 /\ ToCome' \in 0 .. 1
      /\ ToCome' <= ToCome \/ revived' = revived + 1
  BY DEF ToCome
<1>4. WithinBudget' <=>
          restocks' + C' + ToCome' <= 1 + revived' + lost' + orphaned'["cancel"]
  BY DEF WithinBudget
<1>5. C' + orphaned["cancel"] <= C + orphaned'["cancel"]
  OBVIOUS
<1> HIDE DEF ToCome, C
<1> QED
  BY <1>1, <1>2, <1>3, <1>4, <1>5

\* A step of the browser: the order is as before, and one page is not.
LEMMA ViewKeepsBudget ==
  ASSUME TypeOK, Base, Base', RestockInv, Single' => Single, NEW p \in Pages,
         order' = order, restocks' = restocks, revived' = revived, lost' = lost,
         orphaned' = orphaned, orphans' = orphans,
         \A q \in Pages \ {p} : copy'[q] = copy[q] /\ call'[q] = call[q],
         p \in Tabs /\ MayCancel(p)' => Uncounted
  PROVE  Single' => WithinBudget'
<1>1. \A t \in Tabs : MayCancel(t)' => MayCancel(t) \/ t = p
  BY DEF MayCancel, Pages
<1>2. Uncounted' => Uncounted
  BY <1>1 DEF Uncounted
<1>3. lost \in Nat /\ revived \in Nat /\ orphaned["cancel"] \in Nat
  BY DEF TypeOK
<1>4. LeftBehind("cancel")' = LeftBehind("cancel")
      /\ Cardinality(LeftBehind("cancel")) \in Nat
  BY LeftBehindCounts DEF LeftBehind, Base
<1> HIDE DEF LeftBehind
<1> QED
  BY <1>2, <1>3, <1>4, BudgetKept

LEMMA OpenKeepsBudget ==
  ASSUME TypeOK, Base, Base', RestockInv, Single' => Single,
         NEW p \in Pages, NEW where, Open(p, where)
  PROVE  Single' => WithinBudget'
<1>1. /\ orphaned'["cancel"] \in Nat
      /\ Cardinality(LeftBehind("cancel")') + orphaned["cancel"] <=
             Cardinality(LeftBehind("cancel")) + orphaned'["cancel"]
  BY OrphanCounts DEF Open, Base
<1>2. /\ UNCHANGED <<order, restocks, revived, lost>>
      /\ \A q \in Pages \ {p} : copy'[q] = copy[q] /\ call'[q] = call[q]
      /\ call'[p] = Request("load") /\ copy'[p] = NoCopy
  BY DEF Open, order_vars, TypeOK
<1>3. ~MayCancel(p)'
  BY <1>2 DEF MayCancel, Live, Request
<1>4. Uncounted' => Uncounted
  BY <1>2, <1>3 DEF Uncounted, MayCancel, Pages
<1>5. lost \in Nat /\ revived \in Nat
  BY DEF TypeOK
<1> HIDE DEF LeftBehind
<1> QED
  BY <1>1, <1>2, <1>4, <1>5, BudgetKept

LEMMA AnswersKeepBudget ==
  ASSUME TypeOK, Base, Base', RestockInv, Single' => Single, NEW p \in Pages, Answers(p)
  PROVE  Single' => WithinBudget'
<1>0. /\ Cardinality(LeftBehind("cancel")) \in Nat /\ orphaned["cancel"] \in Nat
      /\ restocks \in Nat /\ revived \in Nat /\ lost \in Nat
  BY LeftBehindCounts DEF Base, TypeOK
<1>1. CASE ServeWrite(p) \/ ServeAndThrow(p)
  <2>1. PICK done \in 0 .. 2, phase \in {"ok", "threw"} :
            /\ Serve(call[p].op, done)
            /\ Answered(p, phase, NoCopy)
            /\ \/ phase = "ok" /\ done = 2 /\ lost' = lost
               \/ phase = "threw" /\ lost' = IF call[p].op = "cancel" THEN lost + 1 ELSE lost
            /\ call[p].op \in Writes /\ call[p].phase = "sent"
            /\ UNCHANGED <<at, copy, orphans, orphaned>>
    <3>1. CASE ServeWrite(p)
      BY <3>1 DEF ServeWrite
    <3>2. CASE ServeAndThrow(p)
      BY <3>2 DEF ServeAndThrow
    <3> QED
      BY <1>1, <3>1, <3>2
  <2>2. /\ call'[p].op = call[p].op /\ call'[p].phase = phase /\ call'[p].got = NoCopy
        /\ \A q \in Pages : q # p => call'[q] = call[q]
    BY <2>1, AnsweredIs
  <2>3. /\ revived' \in {revived, revived + 1}
        /\ Live(order') => Live(order) \/ revived' = revived + 1
        /\ restocks' \in {restocks, restocks + 1}
        /\ call[p].op # "cancel" => restocks' = restocks
        /\ call[p].op = "cancel" /\ done = 2 =>
              ~Live(order') /\ revived' = revived /\ restocks' = restocks + 1
    BY <2>1, ServeCounts
  <2>4. LeftBehind("cancel")' = LeftBehind("cancel") /\ orphaned' = orphaned
    BY <2>1 DEF LeftBehind
  <2>5. CASE call[p].op # "cancel"
    <3>1. call[p].op # "load"
      BY <2>1, OpsDiffer
    <3>2. \A t \in Tabs : MayCancel(t)' => MayCancel(t)
      BY <2>1, <2>2, <2>5, <3>1 DEF MayCancel, Pages
    <3>3. Uncounted' => Uncounted \/ revived' = revived + 1
      BY <2>3, <3>2 DEF Uncounted
    <3>4. lost' = lost /\ restocks' = restocks
      BY <2>1, <2>3, <2>5
    <3> HIDE DEF LeftBehind
    <3> QED
      BY <1>0, <2>3, <2>4, <3>3, <3>4, BudgetKept
  <2>6. CASE call[p].op = "cancel"
    <3>1. p \in Tabs /\ MayCancel(p) /\ ToCome = 1
      BY <2>1, <2>6 DEF Base, Orderly, Pages, MayCancel, Uncounted, ToCome
    <3>2. CASE phase = "threw"
      <4>1. ToCome' \in 0 .. 1
        BY DEF ToCome
      <4>2. lost' = lost + 1
        BY <2>1, <2>6, <3>2
      <4> HIDE DEF LeftBehind, ToCome
      <4> QED
        BY <1>0, <2>3, <2>4, <3>1, <4>1, <4>2 DEF RestockInv, WithinBudget
    <3>3. CASE phase = "ok" /\ Single
      <4>1. at[p] # "closed"
        BY <2>6 DEF Base, Orderly, NoCall
      <4>2. \A t \in Tabs : t # p => call[t] = NoCall /\ copy[t] = NoCopy
        BY <3>1, <3>3, <4>1 DEF Single, OpenTabs, Base, Orderly, Pages
      <4>3. \A t \in Tabs : ~MayCancel(t)'
        BY <2>1, <2>2, <2>6, <3>3, <4>2 DEF MayCancel, Live, NoCall, Pages
      <4>4. ToCome' = 0
        BY <2>1, <2>3, <2>6, <3>3, <4>3 DEF ToCome, Uncounted
      <4>5. lost' = lost /\ done = 2
        BY <2>1, <3>3
      <4> HIDE DEF LeftBehind, ToCome
      <4> QED
        BY <1>0, <2>3, <2>4, <2>6, <3>1, <3>3, <4>4, <4>5 DEF RestockInv, WithinBudget
    <3> QED
      BY <2>1, <3>2, <3>3
  <2> QED
    BY <2>5, <2>6
<1>2. CASE ServeRefusal(p)
  <2>1. /\ UNCHANGED <<order, restocks, revived, lost, orphaned, orphans, copy>>
        /\ order.status # "CANCELLED"
        /\ \A q \in Pages : q # p => call'[q] = call[q]
    BY <1>2, AnsweredIs DEF ServeRefusal, RefuseCancel
  <2>2. Live(order)
    BY <2>1, CopyIsLoaded DEF Live, TypeOK
  <2> QED
    BY <1>0, <2>1, <2>2, ViewKeepsBudget DEF Uncounted
<1>3. CASE ServeLoad(p)
  <2>1. /\ UNCHANGED <<order, restocks, revived, lost, orphaned, orphans, copy>>
        /\ call'[p].op = "load" /\ call'[p].got \in {order, NoCopy}
        /\ \A q \in Pages : q # p => call'[q] = call[q]
    BY <1>3, AnsweredIs DEF ServeLoad, order_vars
  <2>2. MayCancel(p)' => Live(order)
    BY <2>1 DEF MayCancel, Live
  <2> QED
    BY <1>0, <2>1, <2>2, ViewKeepsBudget DEF Uncounted
<1>4. CASE ReceiveLoad(p)
  <2>1. CASE at[p] = "pay" /\ call[p].got.payment = "SUCCESS"
    BY <1>4, <2>1, OpenKeepsBudget DEF ReceiveLoad
  <2>2. CASE ~(at[p] = "pay" /\ call[p].got.payment = "SUCCESS")
    <3>1. /\ UNCHANGED <<order, restocks, revived, lost, orphaned, orphans>>
          /\ call[p].op = "load" /\ copy'[p] = call[p].got /\ call'[p] = NoCall
          /\ \A q \in Pages : q # p => copy'[q] = copy[q] /\ call'[q] = call[q]
      BY <1>4, <2>2 DEF ReceiveLoad, order_vars, TypeOK
    <3>2. MayCancel(p)' => MayCancel(p)
      BY <3>1 DEF MayCancel, NoCall, Live
    <3> QED
      BY <1>0, <3>1, <3>2, ViewKeepsBudget DEF Uncounted
  <2> QED
    BY <2>1, <2>2
<1>5. CASE CancelAnswered(p) \/ StatusAnswered(p)
  <2>1. /\ UNCHANGED <<order, restocks, revived, lost, orphaned, orphans, copy>>
        /\ \/ call[p].phase = "ok" /\ call'[p] = Request("load")
           \/ call[p].phase # "ok" /\ call'[p] = NoCall
        /\ call[p].op \in {"cancel"} \cup Status
        /\ \A q \in Pages : q # p => call'[q] = call[q]
    BY <1>5 DEF CancelAnswered, StatusAnswered, ReceiveChanged, order_vars, TypeOK
  <2>2. call[p].op # "load"
    BY <2>1, OpsDiffer
  <2>3. MayCancel(p)' => MayCancel(p)
    BY <2>1, <2>2 DEF MayCancel, NoCall, Request, Live
  <2> QED
    BY <1>0, <2>1, <2>3, ViewKeepsBudget DEF Uncounted
<1> QED
  BY <1>1, <1>2, <1>3, <1>4, <1>5 DEF Answers

LEMMA OrphanKeepsBudget ==
  ASSUME TypeOK, Base, Base', RestockInv, Single' => Single, ServeOrphan
  PROVE  Single' => WithinBudget'
<1>1. PICK o \in orphans :
         /\ \/ \E done \in 0 .. 2 : Serve(o[2], done)
            \/ o[2] = "cancel" /\ RefuseCancel /\ UNCHANGED <<revived, undone>>
         /\ orphans' = orphans \ {o}
  BY DEF ServeOrphan
<1>2. UNCHANGED <<at, copy, call, orphaned, lost>>
  BY DEF ServeOrphan
<1> DEFINE C == Cardinality(LeftBehind("cancel"))
<1>3. C' = IF o[2] = "cancel" THEN C - 1 ELSE C
  BY <1>1, OrphanServed DEF Base
<1>4. /\ C \in Nat /\ C' \in Nat /\ orphaned["cancel"] \in Nat
      /\ restocks \in Nat /\ revived \in Nat /\ lost \in Nat
  BY LeftBehindCounts, LeftBehindStillCounts DEF Base, TypeOK
<1>5. \A t \in Tabs : MayCancel(t)' <=> MayCancel(t)
  BY <1>2 DEF MayCancel
<1>6. /\ restocks' \in {restocks, restocks + 1} /\ (o[2] # "cancel" => restocks' = restocks)
      /\ revived' \in {revived, revived + 1}
      /\ Live(order') => Live(order) \/ revived' = revived + 1
  <2>1. CASE \E done \in 0 .. 2 : Serve(o[2], done)
    BY <2>1, ServeCounts
  <2>2. CASE RefuseCancel /\ UNCHANGED <<revived, undone>>
    BY <2>2 DEF RefuseCancel
  <2> QED
    BY <1>1, <2>1, <2>2
<1>7. ToCome \in 0 .. 1 /\ ToCome' \in 0 .. 1 /\ (ToCome' <= ToCome \/ revived' = revived + 1)
  BY <1>5, <1>6 DEF ToCome, Uncounted
<1>8. Single => restocks + C + ToCome <= 1 + revived + lost + orphaned["cancel"]
  BY DEF RestockInv, WithinBudget
<1>9. WithinBudget' <=>
          restocks' + C' + ToCome' <= 1 + revived' + lost' + orphaned'["cancel"]
  BY DEF WithinBudget
<1> HIDE DEF C, ToCome
<1> QED
  BY <1>2, <1>3, <1>4, <1>6, <1>7, <1>8, <1>9

LEMMA NextRestock == TypeOK /\ Base /\ Base' /\ RestockInv /\ [Next]_vars => RestockInv'
<1> SUFFICES ASSUME TypeOK, Base, Base', RestockInv, [Next]_vars PROVE Single' => WithinBudget'
  BY DEF RestockInv
<1>1. Single' => Single
  BY OpenTabsGrow DEF Base
<1>2. ASSUME NEW p \in Pages, Opens(p)
      PROVE  Single' => WithinBudget'
  BY <1>1, <1>2, OpenKeepsBudget DEF Opens
<1>3. ASSUME NEW p \in Pages, Answers(p)
      PROVE  Single' => WithinBudget'
  BY <1>1, <1>3, AnswersKeepBudget
<1>4. ASSUME NEW p \in Pages, NEW op \in Writes, Sends(p, op)
      PROVE  Single' => WithinBudget'
  <2>1. /\ UNCHANGED <<order, restocks, revived, lost, orphaned, orphans, at, copy>>
        /\ call'[p] = Request(op) /\ \A q \in Pages : q # p => call'[q] = call[q]
    BY <1>4 DEF Sends, Send, order_vars, TypeOK
  <2>2. /\ copy[p] # NoCopy /\ call[p].op # "load"
        /\ op # "cancel" => call[p].op = "none"
        /\ op = "cancel" => copy[p].status # "CANCELLED" /\ call[p].op # "cancel"
    BY <1>4 DEF Sends
  <2>3. MayCancel(p)' => MayCancel(p)
    BY <2>1, <2>2, OpsDiffer DEF MayCancel, Request, Live
  <2> QED
    BY <1>1, <2>1, <2>3, ViewKeepsBudget DEF Uncounted
<1>5. ASSUME NEW t \in Tabs, ReceivePaid(t)
      PROVE  Single' => WithinBudget'
  <2>1. t \in Pages
    BY DEF Pages
  <2>2. /\ UNCHANGED <<order, restocks, revived, lost, orphaned, orphans, copy>>
        /\ call[t].op = "pay"
        /\ call'[t] = NoCall /\ \A q \in Pages : q # t => call'[q] = call[q]
    BY <1>5, <2>1 DEF ReceivePaid, order_vars, TypeOK
  <2>3. MayCancel(t)' => MayCancel(t)
    BY <2>2 DEF MayCancel, NoCall, Live
  <2> QED
    BY <1>1, <2>1, <2>2, <2>3, ViewKeepsBudget DEF Uncounted
<1>6. CASE ServeOrphan
  BY <1>1, <1>6, OrphanKeepsBudget
<1>7. CASE UNCHANGED vars
  BY <1>1, <1>7 DEF vars, order_vars, RestockInv, WithinBudget, Single, OpenTabs, LeftBehind,
                    ToCome, Uncounted, MayCancel
<1> QED
  BY <1>2, <1>3, <1>4, <1>5, <1>6, <1>7, Steps

\* A customer with one tab never makes cancellations put the stock back twice, but for the
\* three things the pages cannot see: an order brought back to life, an answer that was lost
\* and a cancellation whose page was left.
THEOREM CancellationsRestockOnce == Spec => []RestockedOnce
<1>1. TypeOK /\ Base /\ RestockInv => RestockedOnce
  <2> SUFFICES ASSUME TypeOK, Base, RestockInv, OneTab
               PROVE  restocks <= 1 + revived + lost + orphaned["cancel"]
    BY DEF RestockedOnce
  <2>1. WithinBudget
    BY OneTabIsSingle DEF Base, RestockInv
  <2>2. /\ ToCome \in 0 .. 1 /\ Cardinality(LeftBehind("cancel")) \in Nat
        /\ restocks \in Nat /\ revived \in Nat /\ lost \in Nat /\ orphaned["cancel"] \in Nat
    BY LeftBehindCounts DEF ToCome, Base, TypeOK
  <2> HIDE DEF ToCome, LeftBehind
  <2> QED
    BY <2>1, <2>2 DEF WithinBudget
<1>2. Spec => []Base
  BY BaseInit, NextBase, TypeCorrect, PTL DEF Spec
<1> QED
  BY <1>1, <1>2, RestockInit, NextRestock, TypeCorrect, PTL DEF Spec

==============================================================================
