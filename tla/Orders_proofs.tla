---------------------------- MODULE Orders_proofs ----------------------------
(***************************************************************************)
(* Theorems about Orders, for any number of products, customers, requests  *)
(* and carts, any degree of overlap, with and without faults.              *)
(***************************************************************************)
EXTENDS Orders, FiniteSetTheorems, TLAPS

(* Which handlers may be suspended at which point. *)
OpsAt(point) ==
    CASE point \in {"check", "items", "take"} -> {"create"}
      [] point = "find"                       -> {"pay", "cancel", "update"}
      [] point = "settle"                     -> {"pay"}
      [] point \in {"load", "restore"}        -> {"cancel"}
      [] point = "status"                     -> {"pay", "update"}
      [] point \in {"log", "notify"}          -> {"create", "pay", "cancel", "update"}
      [] point = "notify2"                    -> {"pay", "update"}

Control ==
    \A r \in Requests :
        /\ pc[r] \in Points => call[r].op \in OpsAt(pc[r])
        /\ pc[r] \in {"status", "notify2"} /\ call[r].op = "pay"
               => call[r].outcome = "SUCCESS"

TypeInv == TypeOK /\ Control

-----------------------------------------------------------------------------
(* The shape of a call follows from its op. *)
LEMMA CallShape ==
    ASSUME NEW c \in Calls
    PROVE  /\ c.order \in Requests
           /\ c.op \in {"create", "pay", "cancel", "update"}
           /\ c.op = "create" => c.user \in Users /\ c.items \in Carts
           /\ c.op = "pay" => c.user \in Users /\ c.outcome \in {"SUCCESS", "FAILED"}
           /\ c.op = "cancel" => c.user \in Users
           /\ c.op = "update" => c.to \in Statuses
<1>1. CASE c \in CreateCall  BY <1>1 DEF CreateCall
<1>2. CASE c \in PayCall     BY <1>2 DEF PayCall
<1>3. CASE c \in CancelCall  BY <1>3 DEF CancelCall
<1>4. CASE c \in UpdateCall  BY <1>4 DEF UpdateCall
<1>5. QED  BY <1>1, <1>2, <1>3, <1>4 DEF Calls

(* What a handler logs and sends is well formed. *)
LEMMA TargetType ==
    ASSUME TypeOK, NEW r \in Requests, call[r] \in Calls
    PROVE  /\ Target(r) \in Statuses \cup {None}
           /\ Target(r) = None <=> call[r].op = "pay" /\ call[r].outcome = "FAILED"
           /\ LogEntry(r) \in Event
<1>1. /\ Target(r) \in Statuses \cup {None}
      /\ Target(r) = None <=> call[r].op = "pay" /\ call[r].outcome = "FAILED"
  BY CallShape DEF Target, Statuses, None
<1>2. LogType(r) \in {"ORDER_CREATED", "PAYMENT_SUCCESS", "PAYMENT_FAILED",
                      "ORDER_CANCELLED", "STATUS_CHANGED"}
  BY CallShape DEF LogType
<1>3. seen[r] \in Statuses \cup {None}  BY DEF TypeOK
<1>4. QED  BY <1>1, <1>2, <1>3, CallShape DEF LogEntry, Event

-----------------------------------------------------------------------------
(* Type correctness. *)

LEMMA TypeInit == Init => TypeInv
<1> SUFFICES ASSUME Init PROVE TypeInv
  OBVIOUS
<1>1. TypeOK
  BY InitialStockAssumption DEF Init, TypeOK, NoRows, NoCall, None
<1>2. Control
  BY DEF Init, Control, Points
<1>3. QED  BY <1>1, <1>2 DEF TypeInv

(* A request starts: only its own pc, call and lines change. *)
LEMMA TypeStart ==
    ASSUME TypeInv, NEW r \in Requests, Receive(r)
    PROVE  TypeInv'
<1> USE DEF TypeInv
<1>1. ASSUME NEW c \in Calls, NEW point \in {"check", "find"}, Start(r, c, point),
             c.op \in OpsAt(point),
             lines' \in [Requests -> Seq(Line)]
      PROVE  TypeInv'
  <2>1. TypeOK'
    BY <1>1 DEF TypeOK, Start, Goto, database, channels, Points
  <2>2. Control'
    BY <1>1 DEF TypeOK, Control, Start, Goto, Points
  <2>3. QED  BY <2>1, <2>2
<1>2. CASE StartCreate(r)
  <2>1. PICK u \in Users, cart \in Carts :
            /\ Start(r, [op |-> "create", user |-> u, order |-> r, items |-> cart], "check")
            /\ lines' = [lines EXCEPT ![r] = cart]
    BY <1>2 DEF StartCreate
  <2>2. [op |-> "create", user |-> u, order |-> r, items |-> cart] \in Calls
    BY DEF Calls, CreateCall
  <2>3. lines' \in [Requests -> Seq(Line)]
    BY <2>1, CartsAssumption DEF TypeOK
  <2>4. QED  BY <1>1, <2>1, <2>2, <2>3 DEF OpsAt
<1>3. CASE StartPay(r)
  <2>1. PICK u \in Users, o \in DOMAIN orders, outcome \in {"SUCCESS", "FAILED"} :
            Start(r, [op |-> "pay", user |-> u, order |-> o, outcome |-> outcome], "find")
    BY <1>3 DEF StartPay
  <2>2. [op |-> "pay", user |-> u, order |-> o, outcome |-> outcome] \in Calls
    BY DEF Calls, PayCall, TypeOK
  <2>3. lines' \in [Requests -> Seq(Line)]
    BY <1>3 DEF StartPay, TypeOK
  <2>4. QED  BY <1>1, <2>1, <2>2, <2>3 DEF OpsAt
<1>4. CASE StartCancel(r)
  <2>1. PICK u \in Users, o \in DOMAIN orders :
            Start(r, [op |-> "cancel", user |-> u, order |-> o], "find")
    BY <1>4 DEF StartCancel
  <2>2. [op |-> "cancel", user |-> u, order |-> o] \in Calls
    BY DEF Calls, CancelCall, TypeOK
  <2>3. lines' \in [Requests -> Seq(Line)]
    BY <1>4 DEF StartCancel, TypeOK
  <2>4. QED  BY <1>1, <2>1, <2>2, <2>3 DEF OpsAt
<1>5. CASE StartUpdate(r)
  <2>1. PICK o \in DOMAIN orders, to \in Statuses :
            Start(r, [op |-> "update", order |-> o, to |-> to], "find")
    BY <1>5 DEF StartUpdate
  <2>2. [op |-> "update", order |-> o, to |-> to] \in Calls
    BY DEF Calls, UpdateCall, TypeOK
  <2>3. lines' \in [Requests -> Seq(Line)]
    BY <1>5 DEF StartUpdate, TypeOK
  <2>4. QED  BY <1>1, <2>1, <2>2, <2>3 DEF OpsAt
<1>6. QED  BY <1>2, <1>3, <1>4, <1>5 DEF Receive

(* A handler takes a step.  Each keeps the parameters of the call, and goes *)
(* to a point its op allows.                                                *)
LEMMA TypeStep ==
    ASSUME TypeInv, NEW r \in Requests, Step(r)
    PROVE  TypeInv'
<1> USE DEF TypeInv, Goto, database, channels, locals
<1>1. pc[r] \in Points
  BY DEF Step, Points, CheckProduct, InsertOrder, InsertItems, TakeStock, InsertPayment,
         RefuseOrder, FindOrder, SettlePayment, LoadItems, RestoreStock, SetStatus,
         AddLog, Notify, NotifyAgain
<1>2. call[r] \in Calls /\ call[r].op \in OpsAt(pc[r])
  BY <1>1 DEF TypeOK, Control, Points
<1>3. CASE CheckProduct(r)
  <2> k' \in [Requests -> Nat \ {0}]  BY <1>3 DEF CheckProduct, TypeOK
  <2> pc' \in [Requests -> Points \cup Terminal \cup {"idle"}]
    BY <1>3 DEF CheckProduct, TypeOK, Terminal
  <2>1. TypeOK'  BY <1>2, <1>3 DEF CheckProduct, TypeOK
  <2>2. Control'  BY <1>2, <1>3 DEF CheckProduct, TypeOK, Control, Points
  <2>3. QED  BY <2>1, <2>2
<1>4. CASE InsertOrder(r)
  <2>1. call[r].op = "create"  BY <1>2, <1>4 DEF InsertOrder, OpsAt
  <2>2. TypeOK'
    BY <1>2, <1>4, <2>1, CallShape DEF InsertOrder, TypeOK, Insert, Points, Statuses
  <2>3. Control'  BY <1>2, <1>4, <2>1 DEF InsertOrder, TypeOK, Control, Points, OpsAt
  <2>4. QED  BY <2>2, <2>3
<1>5. CASE InsertItems(r)
  <2>1. call[r].op = "create"  BY <1>2, <1>5 DEF InsertItems, OpsAt
  <2>2. UNCHANGED <<stock, orders, payments, stream, notified, call, lines, seen>>
    BY <1>5 DEF InsertItems
  <2>3. CASE /\ items' = Insert(items, r, lines[r])
             /\ k' = [k EXCEPT ![r] = 1]
             /\ pc' = [pc EXCEPT ![r] = "take"]
    <3>1. k' \in [Requests -> Nat \ {0}]  BY <2>3 DEF TypeOK
    <3>2. DOMAIN items' \subseteq Requests /\ items' \in [DOMAIN items' -> Seq(Line)]
      BY <2>3 DEF TypeOK, Insert
    <3>3. TypeOK'  BY <1>2, <2>2, <2>3, <3>1, <3>2 DEF TypeOK, Points
    <3>4. Control'  BY <2>1, <2>2, <2>3 DEF TypeOK, Control, Points, OpsAt
    <3>5. QED  BY <3>3, <3>4
  <2>4. CASE UNCHANGED <<items, k>> /\ pc' = [pc EXCEPT ![r] = "failed"]
    <3>1. TypeOK'  BY <1>2, <2>2, <2>4 DEF TypeOK, Terminal
    <3>2. Control'  BY <2>2, <2>4 DEF TypeOK, Control, Points
    <3>3. QED  BY <3>1, <3>2
  <2>5. QED  BY <1>5, <2>3, <2>4 DEF InsertItems
<1>6. CASE TakeStock(r)
  <2>1. lines[r][k[r]] \in Line  BY <1>6 DEF TakeStock, TypeOK
  <2> k' \in [Requests -> Nat \ {0}]  BY <1>6 DEF TakeStock, TypeOK
  <2> DOMAIN stock' = DOMAIN stock /\ stock' \in [DOMAIN stock -> Int]
    BY <1>6, <2>1 DEF TakeStock, TypeOK, AddStock, Line
  <2>2. TypeOK'  BY <1>2, <1>6 DEF TakeStock, TypeOK
  <2>3. Control'  BY <1>2, <1>6 DEF TakeStock, TypeOK, Control
  <2>4. QED  BY <2>2, <2>3
<1>7. CASE InsertPayment(r)
  <2>1. call[r].op = "create"  BY <1>2, <1>7 DEF InsertPayment, OpsAt
  <2>2. TypeOK'  BY <1>2, <1>7 DEF InsertPayment, TypeOK, Insert, Points, PaymentStatuses
  <2>3. Control'  BY <1>2, <1>7, <2>1 DEF InsertPayment, TypeOK, Control, Points, OpsAt
  <2>4. QED  BY <2>2, <2>3
<1>8. CASE RefuseOrder(r)
  <2>1. TypeOK'  BY <1>2, <1>8 DEF RefuseOrder, TypeOK, Terminal
  <2>2. Control'  BY <1>2, <1>8 DEF RefuseOrder, TypeOK, Control, Points
  <2>3. QED  BY <2>1, <2>2
<1>9. CASE FindOrder(r)
  <2>1. call[r].op \in {"pay", "cancel", "update"}  BY <1>2, <1>9 DEF FindOrder, OpsAt
  <2>2. AfterFind(r) \in Points /\ call[r].op \in OpsAt(AfterFind(r)) /\ AfterFind(r) # "notify2"
        /\ (AfterFind(r) = "status" => call[r].op = "update")
    BY <2>1 DEF AfterFind, Points, OpsAt
  <2>3. orders[call[r].order].status \in Statuses
    BY <1>9 DEF FindOrder, Refused, Visible, TypeOK
  <2>4. TypeOK'  BY <1>2, <1>9, <2>2, <2>3 DEF FindOrder, TypeOK
  <2>5. Control'  BY <1>2, <1>9, <2>2 DEF FindOrder, TypeOK, Control
  <2>6. QED  BY <2>4, <2>5
<1>10. CASE SettlePayment(r)
  <2>1. call[r].op = "pay" /\ call[r].outcome \in {"SUCCESS", "FAILED"}
    BY <1>2, <1>10, CallShape DEF SettlePayment, OpsAt
  <2>2. TypeOK'
    BY <1>2, <1>10, <2>1 DEF SettlePayment, TypeOK, Update, Points, PaymentStatuses
  <2>3. Control'  BY <1>2, <1>10, <2>1 DEF SettlePayment, TypeOK, Control, Points, OpsAt
  <2>4. QED  BY <2>2, <2>3
<1>11. CASE LoadItems(r)
  <2>1. call[r].op = "cancel"  BY <1>2, <1>11 DEF LoadItems, OpsAt
  <2>2. TypeOK'  BY <1>2, <1>11 DEF LoadItems, TypeOK, Points
  <2>3. Control'  BY <1>2, <1>11, <2>1 DEF LoadItems, TypeOK, Control, Points, OpsAt
  <2>4. QED  BY <2>2, <2>3
<1>12. CASE RestoreStock(r)
  <2>1. lines[r][k[r]] \in Line  BY <1>12 DEF RestoreStock, TypeOK
  <2> k' \in [Requests -> Nat \ {0}]  BY <1>12 DEF RestoreStock, TypeOK
  <2> DOMAIN stock' = DOMAIN stock /\ stock' \in [DOMAIN stock -> Int]
    BY <1>12, <2>1 DEF RestoreStock, TypeOK, AddStock, Line
  <2>2. TypeOK'  BY <1>2, <1>12 DEF RestoreStock, TypeOK
  <2>3. Control'  BY <1>2, <1>12 DEF RestoreStock, TypeOK, Control
  <2>4. QED  BY <2>2, <2>3
<1>13. CASE SetStatus(r)
  <2>1. call[r].op \in {"pay", "cancel", "update"}
    BY <1>2, <1>13 DEF SetStatus, OpsAt
  <2>2. Target(r) \in Statuses
    <3>1. pc[r] = "status" /\ call[r].op = "pay" => call[r].outcome = "SUCCESS"
      BY <1>1 DEF Control
    <3>2. pc[r] = "restore" => call[r].op = "cancel"
      BY <1>2 DEF OpsAt
    <3>3. QED  BY <1>2, <1>13, <3>1, <3>2, TargetType DEF SetStatus
  <2>3. orders' \in [DOMAIN orders -> [user : Users, status : Statuses]]
    BY <1>13, <2>2 DEF SetStatus, Update, TypeOK
  <2>4. TypeOK'  BY <1>2, <1>13, <2>3 DEF SetStatus, TypeOK, Points
  <2>5. Control'  BY <1>2, <1>13, <2>1 DEF SetStatus, TypeOK, Control, Points, OpsAt
  <2>6. QED  BY <2>4, <2>5
<1>14. CASE AddLog(r)
  <2>1. LogEntry(r) \in Event  BY <1>2, TargetType
  <2>2. TypeOK'  BY <1>2, <1>14, <2>1 DEF AddLog, TypeOK, Points
  <2>3. Control'  BY <1>2, <1>14, CallShape DEF AddLog, TypeOK, Control, Points, OpsAt
  <2>4. QED  BY <2>2, <2>3
<1>15. CASE Notify(r)
  <2>1. FirstMessage(r) \in Message
    BY <1>2, CallShape, TargetType
       DEF FirstMessage, PaymentNotice, OrderUpdate, Message, PaymentStatuses
  <2>2. TypeOK'  BY <1>2, <1>15, <2>1 DEF Notify, TypeOK, Points, Terminal
  <2>3. Control'
    BY <1>2, <1>15 DEF Notify, HasSecondMessage, TypeOK, Control, Points, OpsAt
  <2>4. QED  BY <2>2, <2>3
<1>16. CASE NotifyAgain(r)
  <2>1. Target(r) \in Statuses
    BY <1>1, <1>2, <1>16, TargetType DEF NotifyAgain, Control
  <2>2. SecondMessage(r) \in Message
    BY <1>2, <2>1, CallShape DEF SecondMessage, OrderUpdate, AdminNotice, Message
  <2>3. TypeOK'  BY <1>2, <1>16, <2>2 DEF NotifyAgain, TypeOK, Terminal
  <2>4. Control'  BY <1>2, <1>16 DEF NotifyAgain, TypeOK, Control, Points
  <2>5. QED  BY <2>3, <2>4
<1>17. QED
  BY <1>3, <1>4, <1>5, <1>6, <1>7, <1>8, <1>9, <1>10, <1>11, <1>12, <1>13, <1>14,
     <1>15, <1>16 DEF Step

LEMMA TypeRest ==
    ASSUME TypeInv,
           \/ \E r \in Requests : Abort(r)
           \/ \E p \in Products : RemoveProduct(p)
           \/ UNCHANGED vars
    PROVE  TypeInv'
<1> USE DEF TypeInv, database, channels, locals
<1>1. ASSUME NEW r \in Requests, Abort(r) PROVE TypeInv'
  <2>1. TypeOK'  BY <1>1 DEF Abort, Goto, TypeOK, Points, Terminal
  <2>2. Control'  BY <1>1 DEF Abort, Goto, TypeOK, Control, Points
  <2>3. QED  BY <2>1, <2>2
<1>2. ASSUME NEW p \in Products, RemoveProduct(p) PROVE TypeInv'
  <2>1. stock' = [q \in DOMAIN stock \ {p} |-> stock[q]]
    BY <1>2 DEF RemoveProduct
  <2>2. DOMAIN stock' \subseteq Products /\ stock' \in [DOMAIN stock' -> Int]
    BY <2>1 DEF TypeOK
  <2>3. TypeOK'  BY <1>2, <2>2 DEF RemoveProduct, TypeOK
  <2>4. Control'  BY <1>2 DEF RemoveProduct, Control
  <2>5. QED  BY <2>3, <2>4
<1>3. ASSUME UNCHANGED vars PROVE TypeInv'
  BY <1>3 DEF vars, TypeOK, Control
<1>4. QED  BY <1>1, <1>2, <1>3

LEMMA TypeNext == TypeInv /\ [Next]_vars => TypeInv'
  BY TypeStart, TypeStep, TypeRest DEF Next, Rest

(* Every table, channel and handler keeps its type, and each handler is only *)
(* ever suspended at a point of its own.                                     *)
THEOREM TypeCorrect == Spec => [](TypeOK /\ Control)
<1>1. Init => TypeInv  BY TypeInit
<1>2. TypeInv /\ [Next]_vars => TypeInv'  BY TypeNext
<1>3. TypeInv => TypeOK /\ Control  BY DEF TypeInv
<1>4. QED  BY <1>1, <1>2, <1>3, PTL DEF Spec

-----------------------------------------------------------------------------
(* Lines name existing products. *)

(* LinesNameProducts: the foreign key of order_items, checked both when     *)
(* lines are inserted and when a product is deleted, keeps every line's     *)
(* product in the table.                                                    *)
THEOREM LinesAlwaysNameProducts == Spec => []LinesNameProducts
<1> USE DEF database, channels, locals
<1>1. Init => LinesNameProducts
  BY DEF Init, NoRows, LinesNameProducts
<1>2. TypeInv /\ LinesNameProducts /\ [Next]_vars => LinesNameProducts'
  <2> SUFFICES ASSUME TypeInv, LinesNameProducts, [Next]_vars
               PROVE  LinesNameProducts'
    OBVIOUS
  <2>1. ASSUME NEW r \in Requests, InsertItems(r) PROVE LinesNameProducts'
    <3>1. CASE UNCHANGED items
      BY <2>1, <3>1 DEF InsertItems, LinesNameProducts
    <3>2. CASE ~UNCHANGED items
      <4>1. /\ items' = Insert(items, r, lines[r])
            /\ \A i \in 1..Len(lines[r]) : lines[r][i].product \in DOMAIN stock
            /\ stock' = stock
        BY <2>1, <3>2 DEF InsertItems
      <4>2. QED  BY <4>1 DEF Insert, LinesNameProducts
    <3>3. QED  BY <3>1, <3>2
  <2>2. ASSUME NEW p \in Products, RemoveProduct(p) PROVE LinesNameProducts'
    BY <2>2 DEF RemoveProduct, LinesNameProducts
  <2>3. ASSUME UNCHANGED items, DOMAIN stock' = DOMAIN stock PROVE LinesNameProducts'
    BY <2>3 DEF LinesNameProducts
  <2>4. ASSUME NEW r \in Requests, Step(r), ~InsertItems(r)
        PROVE  UNCHANGED items /\ DOMAIN stock' = DOMAIN stock
    BY <2>4 DEF Step, CheckProduct, InsertOrder, TakeStock, InsertPayment, RefuseOrder,
                FindOrder, SettlePayment, LoadItems, RestoreStock, SetStatus, AddLog,
                Notify, NotifyAgain, AddStock
  <2>5. ASSUME NEW r \in Requests, Receive(r) \/ Abort(r)
        PROVE  UNCHANGED items /\ DOMAIN stock' = DOMAIN stock
    BY <2>5 DEF Receive, StartCreate, StartPay, StartCancel, StartUpdate, Start, Abort
  <2>6. CASE UNCHANGED vars
    BY <2>6, <2>3 DEF vars
  <2>7. QED  BY <2>1, <2>2, <2>3, <2>4, <2>5, <2>6 DEF Next, Rest
<1>3. Spec => []TypeInv  BY TypeCorrect, PTL DEF TypeInv
<1>4. QED  BY <1>1, <1>2, <1>3, PTL DEF Spec

-----------------------------------------------------------------------------
(* Facts about steps that the theorems below share. *)

(* The audit stream is append-only, and only AddLog appends to it. *)
LEMMA StreamGrows ==
    ASSUME TypeInv, [Next]_vars
    PROVE  \/ UNCHANGED stream
           \/ \E r \in Requests : AddLog(r)
<1> USE DEF database, channels, locals
<1>1. ASSUME NEW r \in Requests, Step(r), ~AddLog(r) PROVE UNCHANGED stream
  BY <1>1 DEF Step, CheckProduct, InsertOrder, InsertItems, TakeStock, InsertPayment,
              RefuseOrder, FindOrder, SettlePayment, LoadItems, RestoreStock, SetStatus,
              Notify, NotifyAgain
<1>2. ASSUME NEW r \in Requests, Receive(r) \/ Abort(r) PROVE UNCHANGED stream
  BY <1>2 DEF Receive, StartCreate, StartPay, StartCancel, StartUpdate, Start, Abort
<1>3. ASSUME NEW p \in Products, RemoveProduct(p) PROVE UNCHANGED stream
  BY <1>3 DEF RemoveProduct
<1>4. QED  BY <1>1, <1>2, <1>3 DEF Next, Rest, vars

(* What AddLog(r) appends, and that it keeps what was there. *)
LEMMA AddLogAppends ==
    ASSUME TypeInv, NEW r \in Requests, AddLog(r)
    PROVE  /\ call[r] \in Calls
           /\ Len(stream') = Len(stream) + 1
           /\ stream'[Len(stream) + 1] = LogEntry(r)
           /\ \A i \in 1..Len(stream) : stream'[i] = stream[i]
<1>1. call[r] \in Calls  BY DEF TypeInv, TypeOK, AddLog
<1>2. LogEntry(r) \in Event  BY <1>1, TargetType DEF TypeInv
<1>3. QED  BY <1>1, <1>2 DEF AddLog, TypeInv, TypeOK

(* An entry once written stays. *)
LEMMA EntriesStay ==
    ASSUME TypeInv, [Next]_vars, NEW i \in 1..Len(stream)
    PROVE  i \in 1..Len(stream') /\ stream'[i] = stream[i]
<1>1. Len(stream) \in Nat  BY DEF TypeInv, TypeOK
<1>2. CASE UNCHANGED stream  BY <1>2
<1>3. ASSUME NEW r \in Requests, AddLog(r)
      PROVE  i \in 1..Len(stream') /\ stream'[i] = stream[i]
  BY <1>1, <1>3, AddLogAppends
<1>4. QED  BY <1>2, <1>3, StreamGrows

(* The parameters of a request that has started never change. *)
LEMMA CallStays ==
    ASSUME TypeInv, [Next]_vars, NEW q \in Requests, pc[q] # "idle"
    PROVE  call'[q] = call[q] /\ pc'[q] # "idle"
<1> USE DEF TypeInv, TypeOK, database, channels, locals, Goto
<1>1. ASSUME NEW r \in Requests, Receive(r) PROVE call'[q] = call[q] /\ pc'[q] # "idle"
  <2>1. PICK c, point : Start(r, c, point)
    BY <1>1 DEF Receive, StartCreate, StartPay, StartCancel, StartUpdate
  <2>2. QED  BY <2>1 DEF Start
<1>2. ASSUME NEW r \in Requests, Step(r) PROVE call' = call /\ pc'[q] # "idle"
  <2>1. PICK point : pc' = pc \/ (pc' = [pc EXCEPT ![r] = point] /\ point # "idle")
    <3>1. ASSUME FindOrder(r) PROVE AfterFind(r) # "idle"
      <4>1. call[r].op \in {"pay", "cancel", "update"}
        BY <3>1 DEF FindOrder, Control, Points, OpsAt
      <4>2. QED  BY <4>1 DEF AfterFind
    <3>2. QED
      BY <1>2, <3>1
         DEF Step, CheckProduct, InsertOrder, InsertItems, TakeStock, InsertPayment,
             RefuseOrder, FindOrder, SettlePayment, LoadItems, RestoreStock, SetStatus,
             AddLog, Notify, NotifyAgain
  <2>2. call' = call
    BY <1>2 DEF Step, CheckProduct, InsertOrder, InsertItems, TakeStock, InsertPayment,
                RefuseOrder, FindOrder, SettlePayment, LoadItems, RestoreStock, SetStatus,
                AddLog, Notify, NotifyAgain
  <2>3. QED  BY <2>1, <2>2
<1>3. ASSUME NEW r \in Requests, Abort(r) PROVE call' = call /\ pc'[q] # "idle"
  BY <1>3 DEF Abort
<1>4. ASSUME NEW p \in Products, RemoveProduct(p) PROVE call' = call /\ pc' = pc
  BY <1>4 DEF RemoveProduct
<1>5. QED  BY <1>1, <1>2, <1>3, <1>4 DEF Next, Rest, vars

-----------------------------------------------------------------------------
(* Nobody is told what is not logged. *)

LoggedBeforeNotify ==
    \A r \in Requests : pc[r] \in {"notify", "notify2"} =>
        \E i \in 1..Len(stream) : stream[i] = LogEntry(r)

NotifyInv == LoggedBeforeNotify /\ NotifiedIsLogged

(* A handler is about to notify only after AddLog, and keeps what it logged. *)
LEMMA NotifyComesFromLog ==
    ASSUME TypeInv, [Next]_vars, NEW q \in Requests, pc'[q] \in {"notify", "notify2"}
    PROVE  \/ AddLog(q)
           \/ /\ pc[q] \in {"notify", "notify2"}
              /\ call'[q] = call[q] /\ seen'[q] = seen[q]
<1> USE DEF TypeInv, TypeOK, database, channels, locals, Goto
<1>1. ASSUME NEW r \in Requests, Receive(r)
      PROVE  pc[q] \in {"notify", "notify2"} /\ call'[q] = call[q] /\ seen'[q] = seen[q]
  <2>1. PICK point \in {"check", "find"} : \E c : Start(r, c, point)
    BY <1>1 DEF Receive, StartCreate, StartPay, StartCancel, StartUpdate
  <2>2. QED  BY <2>1 DEF Start
<1>2. ASSUME NEW r \in Requests, Step(r), ~AddLog(q)
      PROVE  pc[q] \in {"notify", "notify2"} /\ call'[q] = call[q] /\ seen'[q] = seen[q]
  <2>1. CASE FindOrder(r)
    <3>1. call[r].op \in {"pay", "cancel", "update"}
      BY <2>1 DEF FindOrder, Control, Points, OpsAt
    <3>2. AfterFind(r) \notin {"notify", "notify2"}  BY <3>1 DEF AfterFind
    <3>3. QED  BY <2>1, <3>2 DEF FindOrder
  <2>2. CASE ~FindOrder(r)
    BY <1>2, <2>2
       DEF Step, CheckProduct, InsertOrder, InsertItems, TakeStock, InsertPayment,
           RefuseOrder, SettlePayment, LoadItems, RestoreStock, SetStatus,
           AddLog, Notify, NotifyAgain
  <2>3. QED  BY <2>1, <2>2
<1>3. ASSUME NEW r \in Requests, Abort(r)
      PROVE  pc[q] \in {"notify", "notify2"} /\ call'[q] = call[q] /\ seen'[q] = seen[q]
  BY <1>3 DEF Abort
<1>4. ASSUME UNCHANGED <<pc, call, seen>>
      PROVE  pc[q] \in {"notify", "notify2"} /\ call'[q] = call[q] /\ seen'[q] = seen[q]
  BY <1>4
<1>5. ASSUME NEW p \in Products, RemoveProduct(p) PROVE UNCHANGED <<pc, call, seen>>
  BY <1>5 DEF RemoveProduct
<1>6. QED  BY <1>1, <1>2, <1>3, <1>4, <1>5 DEF Next, Rest, vars

LEMMA LoggedBeforeNotifyNext ==
    ASSUME TypeInv, LoggedBeforeNotify, [Next]_vars
    PROVE  LoggedBeforeNotify'
<1> SUFFICES ASSUME NEW r \in Requests, pc'[r] \in {"notify", "notify2"}
             PROVE  \E i \in 1..Len(stream') : stream'[i] = LogEntry(r)'
  BY DEF LoggedBeforeNotify
<1>1. Len(stream) \in Nat  BY DEF TypeInv, TypeOK
<1>2. CASE AddLog(r)
  <2>1. call'[r] = call[r] /\ seen'[r] = seen[r]
    BY <1>2 DEF AddLog, locals
  <2>2. LogEntry(r)' = LogEntry(r)
    BY <2>1 DEF LogEntry, LogType, Target
  <2>3. QED  BY <1>1, <1>2, <2>2, AddLogAppends
<1>3. CASE /\ pc[r] \in {"notify", "notify2"}
           /\ call'[r] = call[r] /\ seen'[r] = seen[r]
  <2>1. LogEntry(r)' = LogEntry(r)
    BY <1>3 DEF LogEntry, LogType, Target
  <2>2. PICK i \in 1..Len(stream) : stream[i] = LogEntry(r)
    BY <1>3 DEF LoggedBeforeNotify
  <2>3. QED  BY <2>1, <2>2, EntriesStay
<1>4. QED  BY <1>2, <1>3, NotifyComesFromLog

(* The message m is covered by the stream. *)
Covered(m) ==
    \E i \in 1..Len(stream) :
        /\ stream[i].order = m.order
        /\ IF m.type = "PAYMENT"
           THEN stream[i].type = IF m.status = "SUCCESS"
                                 THEN "PAYMENT_SUCCESS" ELSE "PAYMENT_FAILED"
           ELSE stream[i].status = m.status

LEMMA CoveredStays ==
    ASSUME TypeInv, [Next]_vars, NEW m, Covered(m)
    PROVE  \E i \in 1..Len(stream') :
               /\ stream'[i].order = m.order
               /\ IF m.type = "PAYMENT"
                  THEN stream'[i].type = IF m.status = "SUCCESS"
                                         THEN "PAYMENT_SUCCESS" ELSE "PAYMENT_FAILED"
                  ELSE stream'[i].status = m.status
<1>1. PICK i \in 1..Len(stream) :
          /\ stream[i].order = m.order
          /\ IF m.type = "PAYMENT"
             THEN stream[i].type = IF m.status = "SUCCESS"
                                   THEN "PAYMENT_SUCCESS" ELSE "PAYMENT_FAILED"
             ELSE stream[i].status = m.status
  BY DEF Covered
<1>2. i \in 1..Len(stream') /\ stream'[i] = stream[i]  BY EntriesStay
<1>3. QED  BY <1>1, <1>2

(* What a handler sends is covered by its own entry. *)
LEMMA MessageCovered ==
    ASSUME TypeInv, LoggedBeforeNotify, NEW r \in Requests
    PROVE  /\ Notify(r) => FirstMessage(r) \in Message /\ Covered(FirstMessage(r))
           /\ NotifyAgain(r) => SecondMessage(r) \in Message /\ Covered(SecondMessage(r))
<1>1. SUFFICES ASSUME pc[r] \in {"notify", "notify2"}
               PROVE  /\ pc[r] = "notify" => FirstMessage(r) \in Message /\ Covered(FirstMessage(r))
                      /\ pc[r] = "notify2" => SecondMessage(r) \in Message /\ Covered(SecondMessage(r))
  BY DEF Notify, NotifyAgain
<1>2. call[r] \in Calls  BY <1>1 DEF TypeInv, TypeOK
<1>3. PICK i \in 1..Len(stream) : stream[i] = LogEntry(r)
  BY <1>1 DEF LoggedBeforeNotify
<1>4. stream[i].order = call[r].order /\ stream[i].type = LogType(r)
      /\ stream[i].status = Target(r)
  BY <1>3 DEF LogEntry
<1>5. CASE call[r].op = "pay"
  <2>1. FirstMessage(r) \in Message /\ Covered(FirstMessage(r))
    BY <1>2, <1>4, <1>5, CallShape
       DEF FirstMessage, PaymentNotice, Covered, LogType, Message, PaymentStatuses
  <2>2. ASSUME pc[r] = "notify2"
        PROVE  SecondMessage(r) \in Message /\ Covered(SecondMessage(r))
    <3>1. Target(r) \in Statuses
      BY <1>2, <1>5, <2>2, TargetType DEF TypeInv, Control
    <3>2. QED  BY <1>2, <1>4, <1>5, <3>1, CallShape
                  DEF SecondMessage, OrderUpdate, Covered, Message
  <2>3. QED  BY <2>1, <2>2
<1>6. CASE call[r].op # "pay"
  <2>1. Target(r) \in Statuses
    BY <1>2, <1>6, TargetType DEF TypeInv
  <2>2. QED  BY <1>2, <1>4, <1>6, <2>1, CallShape
                DEF FirstMessage, SecondMessage, OrderUpdate, AdminNotice, Covered, Message
<1>7. QED  BY <1>5, <1>6

LEMMA NotifiedIsLoggedNext ==
    ASSUME TypeInv, NotifyInv, [Next]_vars
    PROVE  NotifiedIsLogged'
<1> USE DEF database, channels, locals
<1>1. \A m \in 1..Len(notified) : Covered(notified[m])
  BY DEF NotifyInv, NotifiedIsLogged, Covered
<1>2. ASSUME UNCHANGED notified PROVE NotifiedIsLogged'
  BY <1>1, <1>2, CoveredStays DEF NotifiedIsLogged
<1>3. ASSUME NEW message \in Message, Covered(message), UNCHANGED stream,
             notified' = Append(notified, message)
      PROVE  NotifiedIsLogged'
  <2>1. notified \in Seq(Message)  BY DEF TypeInv, TypeOK
  <2>2. \A m \in 1..Len(notified') : m \in 1..Len(notified) \/ notified'[m] = message
    BY <1>3, <2>1
  <2>3. \A m \in 1..Len(notified) : notified'[m] = notified[m]
    BY <1>3, <2>1
  <2>4. QED  BY <1>1, <1>3, <2>2, <2>3 DEF NotifiedIsLogged, Covered
<1>4. ASSUME NEW r \in Requests, Notify(r) PROVE NotifiedIsLogged'
  BY <1>3, <1>4, MessageCovered DEF Notify, NotifyInv
<1>5. ASSUME NEW r \in Requests, NotifyAgain(r) PROVE NotifiedIsLogged'
  BY <1>3, <1>5, MessageCovered DEF NotifyAgain, NotifyInv
<1>6. ASSUME NEW r \in Requests, Step(r), ~Notify(r), ~NotifyAgain(r)
      PROVE  UNCHANGED notified
  BY <1>6 DEF Step, CheckProduct, InsertOrder, InsertItems, TakeStock, InsertPayment,
              RefuseOrder, FindOrder, SettlePayment, LoadItems, RestoreStock, SetStatus,
              AddLog
<1>7. ASSUME NEW r \in Requests, Receive(r) \/ Abort(r) PROVE UNCHANGED notified
  BY <1>7 DEF Receive, StartCreate, StartPay, StartCancel, StartUpdate, Start, Abort
<1>8. ASSUME NEW p \in Products, RemoveProduct(p) PROVE UNCHANGED notified
  BY <1>8 DEF RemoveProduct
<1>9. QED  BY <1>2, <1>4, <1>5, <1>6, <1>7, <1>8 DEF Next, Rest, vars

(* NotifiedIsLogged: no customer and no admin is told of a payment or a      *)
(* status before the audit stream holds it, whatever overlaps or fails.      *)
THEOREM NotificationsAreLogged == Spec => []NotifiedIsLogged
<1>1. Init => NotifyInv
  BY DEF Init, NotifyInv, LoggedBeforeNotify, NotifiedIsLogged
<1>2. TypeInv /\ NotifyInv /\ [Next]_vars => NotifyInv'
  BY LoggedBeforeNotifyNext, NotifiedIsLoggedNext DEF NotifyInv
<1>3. NotifyInv => NotifiedIsLogged  BY DEF NotifyInv
<1>4. Spec => []TypeInv  BY TypeCorrect, PTL DEF TypeInv
<1>5. QED  BY <1>1, <1>2, <1>3, <1>4, PTL DEF Spec

-----------------------------------------------------------------------------
(* Every status is explained by the stream, or by a handler that is about   *)
(* to log it or failed before it could.                                     *)

(* An explanation that does not depend on the row survives every step: the  *)
(* handler that owed the entry writes it, or fails owing it.                *)
Owed(o, status) ==
    \E r \in Requests : /\ pc[r] \in {"log", "failed"}
                        /\ call[r].order = o
                        /\ Target(r) = status
Entered(o, status) ==
    \E i \in 1..Len(stream) : stream[i].order = o /\ stream[i].status = status

LEMMA ExplanationStays ==
    ASSUME TypeInv, [Next]_vars, NEW CONSTANT o, NEW CONSTANT status,
           Owed(o, status) \/ Entered(o, status)
    PROVE  Owed(o, status)' \/ Entered(o, status)'
<1> USE DEF database, channels, locals
<1>1. CASE Entered(o, status)
  BY <1>1, EntriesStay DEF Entered
<1>2. CASE Owed(o, status)
  <2>1. PICK r \in Requests : /\ pc[r] \in {"log", "failed"}
                              /\ call[r].order = o
                              /\ Target(r) = status
    BY <1>2 DEF Owed
  <2>2. call'[r] = call[r]  BY <2>1, CallStays
  <2>3. Target(r)' = Target(r)  BY <2>2 DEF Target
  <2>4. CASE AddLog(r)
    <3>1. stream'[Len(stream) + 1] = LogEntry(r) /\ Len(stream') = Len(stream) + 1
      BY <2>4, AddLogAppends
    <3>2. Len(stream) \in Nat  BY DEF TypeInv, TypeOK
    <3>3. QED  BY <2>1, <3>1, <3>2 DEF Entered, LogEntry
  <2>5. CASE ~AddLog(r)
    <3>1. pc'[r] \in {"log", "failed"}
      <4> USE DEF TypeInv, TypeOK, Goto
      <4>1. ASSUME NEW q \in Requests, Receive(q) PROVE pc'[r] = pc[r]
        <5>1. PICK c, point : Start(q, c, point)
          BY <4>1 DEF Receive, StartCreate, StartPay, StartCancel, StartUpdate
        <5>2. QED  BY <2>1, <5>1 DEF Start
      <4>2. ASSUME NEW q \in Requests, Step(q) PROVE pc'[r] = pc[r]
        BY <2>1, <2>5, <4>2
           DEF Step, CheckProduct, InsertOrder, InsertItems, TakeStock, InsertPayment,
               RefuseOrder, FindOrder, SettlePayment, LoadItems, RestoreStock, SetStatus,
               AddLog, Notify, NotifyAgain
      <4>3. ASSUME NEW q \in Requests, Abort(q) PROVE pc'[r] \in {"log", "failed"}
        BY <2>1, <4>3 DEF Abort
      <4>4. ASSUME NEW p \in Products, RemoveProduct(p) PROVE pc' = pc
        BY <4>4 DEF RemoveProduct
      <4>5. QED  BY <2>1, <4>1, <4>2, <4>3, <4>4 DEF Next, Rest, vars
    <3>2. QED  BY <2>1, <2>2, <2>3, <3>1 DEF Owed
  <2>6. QED  BY <2>4, <2>5
<1>3. QED  BY <1>1, <1>2

(* An order keeps its status, unless SetStatus gives it one or InsertOrder   *)
(* inserts it.                                                               *)
LEMMA StatusChanges ==
    ASSUME TypeInv, [Next]_vars, NEW CONSTANT o, o \in DOMAIN orders'
    PROVE  \/ o \in DOMAIN orders /\ orders'[o].status = orders[o].status
           \/ \E r \in Requests : SetStatus(r) /\ call[r].order = o
           \/ InsertOrder(o) /\ o \in Requests
<1> USE DEF database, channels, locals
<1>1. ASSUME NEW r \in Requests, Step(r),
             ~(SetStatus(r) /\ call[r].order = o), ~(InsertOrder(r) /\ r = o)
      PROVE  o \in DOMAIN orders /\ orders'[o].status = orders[o].status
  <2>1. CASE SetStatus(r)  BY <1>1, <2>1 DEF SetStatus, Update
  <2>2. CASE InsertOrder(r)  BY <1>1, <2>2 DEF InsertOrder, Insert
  <2>3. CASE ~SetStatus(r) /\ ~InsertOrder(r)
    <3>1. UNCHANGED orders
      BY <1>1, <2>3
         DEF Step, CheckProduct, InsertItems, TakeStock, InsertPayment, RefuseOrder,
             FindOrder, SettlePayment, LoadItems, RestoreStock, AddLog, Notify, NotifyAgain
    <3>2. QED  BY <3>1
  <2>4. QED  BY <2>1, <2>2, <2>3
<1>2. ASSUME UNCHANGED orders
      PROVE  o \in DOMAIN orders /\ orders'[o].status = orders[o].status
  BY <1>2
<1>3. ASSUME NEW r \in Requests, Receive(r) \/ Abort(r) PROVE UNCHANGED orders
  BY <1>3 DEF Receive, StartCreate, StartPay, StartCancel, StartUpdate, Start, Abort
<1>4. ASSUME NEW p \in Products, RemoveProduct(p) PROVE UNCHANGED orders
  BY <1>4 DEF RemoveProduct
<1>5. QED  BY <1>1, <1>2, <1>3, <1>4 DEF Next, Rest, vars

(* SetStatus writes the target, and leaves the handler about to log it. *)
LEMMA SetStatusWrites ==
    ASSUME TypeInv, NEW r \in Requests, SetStatus(r), call[r].order \in DOMAIN orders
    PROVE  /\ orders'[call[r].order].status = Target(r)
           /\ pc'[r] = "log" /\ call' = call /\ UNCHANGED channels
<1> USE DEF database, channels, locals
<1>1. orders[call[r].order] \in [user : Users, status : Statuses]
  BY DEF TypeInv, TypeOK
<1>2. orders'[call[r].order] = [orders[call[r].order] EXCEPT !.status = Target(r)]
  BY DEF SetStatus, Update
<1>3. pc'[r] = "log" /\ call' = call
  BY DEF SetStatus, Goto, TypeInv, TypeOK
<1>4. QED  BY <1>1, <1>2, <1>3 DEF SetStatus

LEMMA StatusExplainedNext ==
    ASSUME TypeInv, StatusExplained, [Next]_vars
    PROVE  StatusExplained'
<1> USE DEF database, channels, locals
<1> SUFFICES ASSUME NEW CONSTANT o, o \in DOMAIN orders' PROVE Explained(o)'
  BY DEF StatusExplained
<1>1. CASE o \in DOMAIN orders /\ orders'[o].status = orders[o].status
  <2>1. PICK status : status = orders[o].status
    OBVIOUS
  <2>2. status = "PENDING" \/ Owed(o, status) \/ Entered(o, status)
    BY <1>1, <2>1 DEF StatusExplained, Explained, Owed, Entered
  <2>3. status = "PENDING" \/ Owed(o, status)' \/ Entered(o, status)'
    BY <2>2, ExplanationStays
  <2>4. QED  BY <1>1, <2>1, <2>3 DEF Explained, Owed, Entered
<1>2. ASSUME NEW r \in Requests, SetStatus(r), call[r].order = o PROVE Explained(o)'
  <2>1. o \in DOMAIN orders  BY <1>2 DEF SetStatus, Update
  <2>2. orders'[o].status = Target(r) /\ pc'[r] = "log" /\ call'[r] = call[r]
    BY <1>2, <2>1, SetStatusWrites
  <2>3. Target(r)' = Target(r)  BY <2>2 DEF Target
  <2>4. QED  BY <1>2, <2>2, <2>3 DEF Explained
<1>3. ASSUME InsertOrder(o), o \in Requests PROVE Explained(o)'
  BY <1>3 DEF InsertOrder, Insert, Explained
<1>4. QED  BY <1>1, <1>2, <1>3, StatusChanges

(* StatusExplained: each status other than PENDING is in the audit stream,  *)
(* or the handler that gave it is about to log it, or failed in between.    *)
THEOREM StatusesAreExplained == Spec => []StatusExplained
<1>1. Init => StatusExplained  BY DEF Init, NoRows, StatusExplained
<1>2. TypeInv /\ StatusExplained /\ [Next]_vars => StatusExplained'
  BY StatusExplainedNext
<1>3. Spec => []TypeInv  BY TypeCorrect, PTL DEF TypeInv
<1>4. QED  BY <1>1, <1>2, <1>3, PTL DEF Spec

-----------------------------------------------------------------------------
(* A logged creation is complete. *)

(* How far a creation has got, by the point it is suspended at. *)
Progress(r) ==
    call[r].op = "create" =>
        /\ call[r].order = r
        /\ pc[r] \in {"items", "take", "log", "notify"} => r \in DOMAIN orders
        /\ pc[r] \in {"take", "log", "notify"} =>
               r \in DOMAIN items /\ items[r] = lines[r]
        /\ pc[r] = "take" => k[r] <= Len(lines[r]) + 1
        /\ pc[r] \in {"log", "notify"} =>
               r \in DOMAIN payments /\ k[r] = Len(lines[r]) + 1

Complete(o) ==
    /\ o \in DOMAIN orders \cap DOMAIN items \cap DOMAIN payments
    /\ items[o] = lines[o]
    /\ k[o] = Len(items[o]) + 1

CompleteInv ==
    /\ \A r \in Requests : Progress(r)
    /\ \A i \in 1..Len(stream) : stream[i].type = "ORDER_CREATED" =>
           /\ call[stream[i].order].op = "create"
           /\ pc[stream[i].order] \in {"notify", "done", "failed"}
           /\ Complete(stream[i].order)

(* A step of one handler leaves the rows, the parameters and the position   *)
(* of another's creation alone.                                             *)
LEMMA OtherStep ==
    ASSUME TypeInv, NEW r \in Requests, NEW q \in Requests, q # r,
           Receive(r) \/ Step(r) \/ Abort(r)
    PROVE  /\ pc'[q] = pc[q] /\ call'[q] = call[q]
           /\ lines'[q] = lines[q] /\ k'[q] = k[q]
           /\ q \in DOMAIN orders => q \in DOMAIN orders'
           /\ q \in DOMAIN items => q \in DOMAIN items' /\ items'[q] = items[q]
           /\ q \in DOMAIN payments => q \in DOMAIN payments'
<1> USE DEF TypeInv, TypeOK, database, channels, locals, Goto
<1>1. CASE Receive(r)
  <2>1. PICK c, point : Start(r, c, point)
    BY <1>1 DEF Receive, StartCreate, StartPay, StartCancel, StartUpdate
  <2>2. lines'[q] = lines[q]
    BY <1>1 DEF Receive, StartCreate, StartPay, StartCancel, StartUpdate
  <2>3. QED  BY <2>1, <2>2 DEF Start
<1>2. CASE Abort(r)
  BY <1>2 DEF Abort
<1>3. CASE Step(r)
  <2>1. pc'[q] = pc[q] /\ call'[q] = call[q] /\ lines'[q] = lines[q] /\ k'[q] = k[q]
    BY <1>3 DEF Step, CheckProduct, InsertOrder, InsertItems, TakeStock, InsertPayment,
                RefuseOrder, FindOrder, SettlePayment, LoadItems, RestoreStock, SetStatus,
                AddLog, Notify, NotifyAgain
  <2>2. q \in DOMAIN orders => q \in DOMAIN orders'
    BY <1>3 DEF Step, CheckProduct, InsertOrder, InsertItems, TakeStock, InsertPayment,
                RefuseOrder, FindOrder, SettlePayment, LoadItems, RestoreStock, SetStatus,
                AddLog, Notify, NotifyAgain, Insert, Update
  <2>3. q \in DOMAIN items => q \in DOMAIN items' /\ items'[q] = items[q]
    BY <1>3 DEF Step, CheckProduct, InsertOrder, InsertItems, TakeStock, InsertPayment,
                RefuseOrder, FindOrder, SettlePayment, LoadItems, RestoreStock, SetStatus,
                AddLog, Notify, NotifyAgain, Insert
  <2>4. q \in DOMAIN payments => q \in DOMAIN payments'
    BY <1>3 DEF Step, CheckProduct, InsertOrder, InsertItems, TakeStock, InsertPayment,
                RefuseOrder, FindOrder, SettlePayment, LoadItems, RestoreStock, SetStatus,
                AddLog, Notify, NotifyAgain, Insert, Update
  <2>5. QED  BY <2>1, <2>2, <2>3, <2>4
<1>4. QED  BY <1>1, <1>2, <1>3

(* The handler's own step keeps its progress. *)
LEMMA ProgressStep ==
    ASSUME TypeInv, NEW r \in Requests, Progress(r), Step(r)
    PROVE  Progress(r)'
<1> USE DEF TypeInv, TypeOK, database, channels, locals, Goto
<1> SUFFICES ASSUME call[r].op = "create", call' = call
             PROVE  Progress(r)'
  <2>1. call' = call
    BY DEF Step, CheckProduct, InsertOrder, InsertItems, TakeStock, InsertPayment,
           RefuseOrder, FindOrder, SettlePayment, LoadItems, RestoreStock, SetStatus,
           AddLog, Notify, NotifyAgain
  <2>2. QED  BY <2>1 DEF Progress
<1>1. CASE CheckProduct(r)
  BY <1>1 DEF CheckProduct, Progress
<1>2. CASE InsertOrder(r)
  BY <1>2 DEF InsertOrder, Progress, Insert
<1>3. CASE InsertItems(r)
  <2>1. CASE /\ lines[r] # << >>
             /\ items' = Insert(items, r, lines[r])
             /\ k' = [k EXCEPT ![r] = 1]
             /\ pc' = [pc EXCEPT ![r] = "take"]
    <3>1. UNCHANGED <<orders, lines>> /\ pc[r] = "items"  BY <1>3 DEF InsertItems
    <3>2. Len(lines[r]) \in Nat /\ k'[r] <= Len(lines[r]) + 1  BY <2>1
    <3>3. QED  BY <2>1, <3>1, <3>2 DEF Progress, Insert
  <2>2. CASE pc' = [pc EXCEPT ![r] = "failed"]
    BY <2>2 DEF Progress
  <2>3. QED  BY <1>3, <2>1, <2>2 DEF InsertItems
<1>4. CASE TakeStock(r)
  <2>1. k[r] \in Nat /\ Len(lines[r]) \in Nat /\ k'[r] = k[r] + 1
    BY <1>4 DEF TakeStock
  <2>2. QED  BY <1>4, <2>1 DEF TakeStock, Progress
<1>5. CASE InsertPayment(r)
  <2>1. k[r] \in Nat /\ Len(lines[r]) \in Nat  OBVIOUS
  <2>2. QED  BY <1>5, <2>1 DEF InsertPayment, Progress, Insert
<1>6. CASE AddLog(r)
  BY <1>6 DEF AddLog, Progress
<1>7. CASE Notify(r)
  <2>1. pc'[r] = "done"  BY <1>7 DEF Notify, HasSecondMessage
  <2>2. QED  BY <1>7, <2>1 DEF Notify, Progress
<1>8. CASE NotifyAgain(r)
  BY <1>8 DEF NotifyAgain, Progress
<1>9. ASSUME RefuseOrder(r) \/ FindOrder(r) \/ SettlePayment(r) \/ LoadItems(r)
             \/ RestoreStock(r) \/ SetStatus(r)
      PROVE  FALSE
  <2>1. pc[r] \in {"find", "settle", "load", "restore", "status"}
    BY <1>9 DEF RefuseOrder, FindOrder, SettlePayment, LoadItems, RestoreStock, SetStatus
  <2>2. QED  BY <2>1 DEF Control, Points, OpsAt
<1>10. QED  BY <1>1, <1>2, <1>3, <1>4, <1>5, <1>6, <1>7, <1>8, <1>9 DEF Step

LEMMA ProgressNext ==
    ASSUME TypeInv, \A r \in Requests : Progress(r), [Next]_vars
    PROVE  (\A r \in Requests : Progress(r))'
<1> USE DEF database, channels, locals
<1> SUFFICES ASSUME NEW q \in Requests PROVE Progress(q)'
  OBVIOUS
<1>0. Progress(q)  OBVIOUS
<1>1. ASSUME NEW r \in Requests, q # r, Receive(r) \/ Step(r) \/ Abort(r)
      PROVE  Progress(q)'
  BY <1>0, <1>1, OtherStep DEF Progress
<1>2. CASE Step(q)
  BY <1>2, ProgressStep
<1>3. CASE Abort(q)
  BY <1>0, <1>3 DEF Abort, Goto, Progress, TypeInv, TypeOK
<1>4. CASE Receive(q)
  <2>1. PICK point \in {"check", "find"} :
            \E c : Start(q, c, point) /\ (c.op = "create" => c.order = q)
    <3>1. CASE StartCreate(q)  BY <3>1 DEF StartCreate
    <3>2. CASE StartPay(q)     BY <3>2 DEF StartPay
    <3>3. CASE StartCancel(q)  BY <3>3 DEF StartCancel
    <3>4. CASE StartUpdate(q)  BY <3>4 DEF StartUpdate
    <3>5. QED  BY <1>4, <3>1, <3>2, <3>3, <3>4 DEF Receive
  <2>2. QED  BY <2>1 DEF Start, Goto, Progress, TypeInv, TypeOK
<1>5. ASSUME NEW p \in Products, RemoveProduct(p) PROVE Progress(q)'
  BY <1>0, <1>5 DEF RemoveProduct, Progress
<1>6. CASE UNCHANGED vars
  BY <1>0, <1>6 DEF vars, Progress
<1>7. QED  BY <1>1, <1>2, <1>3, <1>4, <1>5, <1>6 DEF Next, Rest

LEMMA CompleteNext ==
    ASSUME TypeInv, CompleteInv, [Next]_vars
    PROVE  CompleteInv'
<1> USE DEF database, channels, locals
<1> DEFINE Settled(o) == /\ call[o].op = "create"
                         /\ pc[o] \in {"notify", "done", "failed"}
                         /\ Complete(o)
<1>1. (\A r \in Requests : Progress(r))'
  BY ProgressNext DEF CompleteInv
<1>2. ASSUME NEW o \in Requests, Settled(o) PROVE Settled(o)'
  <2>1. ASSUME NEW r \in Requests, o # r, Receive(r) \/ Step(r) \/ Abort(r)
        PROVE  Settled(o)'
    BY <1>2, <2>1, OtherStep DEF Complete
  <2>2. CASE Step(o)
    <3>1. pc[o] = "notify" /\ Notify(o)
      BY <1>2, <2>2
         DEF Step, CheckProduct, InsertOrder, InsertItems, TakeStock, InsertPayment,
             RefuseOrder, FindOrder, SettlePayment, LoadItems, RestoreStock, SetStatus,
             AddLog, Notify, NotifyAgain
    <3>2. pc'[o] = "done"
      BY <1>2, <3>1 DEF Notify, HasSecondMessage, Goto, TypeInv, TypeOK
    <3>3. QED  BY <1>2, <3>1, <3>2 DEF Notify, Complete
  <2>3. CASE Abort(o)
    BY <1>2, <2>3 DEF Abort, Goto, Complete, TypeInv, TypeOK
  <2>4. CASE Receive(o)
    <3>1. pc[o] = "idle"
      BY <2>4 DEF Receive, StartCreate, StartPay, StartCancel, StartUpdate, Start
    <3>2. QED  BY <1>2, <3>1
  <2>5. ASSUME NEW p \in Products, RemoveProduct(p) PROVE Settled(o)'
    BY <1>2, <2>5 DEF RemoveProduct, Complete
  <2>6. CASE UNCHANGED vars
    BY <1>2, <2>6 DEF vars, Complete
  <2>7. QED  BY <2>1, <2>2, <2>3, <2>4, <2>5, <2>6 DEF Next, Rest
<1>3. ASSUME NEW r \in Requests, AddLog(r), LogEntry(r).type = "ORDER_CREATED"
      PROVE  LogEntry(r).order = r /\ Settled(r)'
  <2>1. call[r] \in Calls /\ call'[r] = call[r]
    BY <1>3, AddLogAppends DEF AddLog
  <2>2. call[r].op = "create"
    BY <1>3, <2>1, CallShape DEF LogEntry, LogType
  <2>3. Progress(r)  BY DEF CompleteInv
  <2>4. Complete(r) /\ LogEntry(r).order = r
    BY <1>3, <2>2, <2>3 DEF AddLog, Progress, Complete, LogEntry
  <2>5. pc'[r] = "notify"  BY <1>3 DEF AddLog, Goto, TypeInv, TypeOK
  <2>6. Settled(r)'  BY <1>3, <2>1, <2>2, <2>4, <2>5 DEF AddLog, Complete
  <2>7. QED  BY <2>4, <2>6
<1>4. ASSUME NEW CONSTANT i, i \in 1..Len(stream'), stream'[i].type = "ORDER_CREATED"
      PROVE  \E o \in Requests : o = stream'[i].order /\ Settled(o)'
  <2>1. Len(stream) \in Nat  BY DEF TypeInv, TypeOK
  <2>2. CASE i \in 1..Len(stream)
    <3>1. stream'[i] = stream[i]  BY <2>2, EntriesStay
    <3>2. PICK o \in Requests : o = stream[i].order
      <4>1. stream \in Seq(Event)  BY DEF TypeInv, TypeOK
      <4>2. stream[i] \in Event  BY <2>2, <4>1
      <4>3. QED  BY <4>2 DEF Event
    <3>3. Settled(o)  BY <1>4, <2>2, <3>1, <3>2 DEF CompleteInv
    <3>4. Settled(o)'  BY <1>2, <3>3
    <3>5. QED  BY <3>1, <3>2, <3>4
  <2>3. CASE i \notin 1..Len(stream)
    <3>1. PICK r \in Requests : AddLog(r)
      BY <1>4, <2>3, StreamGrows
    <3>2. stream'[i] = LogEntry(r)
      <4>1. Len(stream') = Len(stream) + 1 /\ stream'[Len(stream) + 1] = LogEntry(r)
        BY <3>1, AddLogAppends
      <4>2. i = Len(stream) + 1  BY <1>4, <2>1, <2>3, <4>1
      <4>3. QED  BY <4>1, <4>2
    <3>3. LogEntry(r).order = r /\ Settled(r)'
      BY <1>3, <1>4, <3>1, <3>2
    <3>4. QED  BY <3>2, <3>3
  <2>4. QED  BY <2>2, <2>3
<1>5. ASSUME NEW CONSTANT i, i \in 1..Len(stream'), stream'[i].type = "ORDER_CREATED"
      PROVE  Settled(stream[i].order)'
  <2>1. PICK o \in Requests : o = stream'[i].order /\ Settled(o)'
    BY <1>4, <1>5
  <2>2. QED  BY <2>1 DEF Complete
<1>6. QED  BY <1>1, <1>5 DEF CompleteInv

(* LoggedOrderIsComplete: an order the audit stream calls created has all    *)
(* its lines, its payment row and its whole decrement of the stock.          *)
THEOREM LoggedOrdersAreComplete == Spec => []LoggedOrderIsComplete
<1>1. Init => CompleteInv
  BY DEF Init, CompleteInv, Progress, NoCall, None
<1>2. TypeInv /\ CompleteInv /\ [Next]_vars => CompleteInv'
  BY CompleteNext
<1>3. CompleteInv => LoggedOrderIsComplete
  BY DEF CompleteInv, LoggedOrderIsComplete, Logged, Complete
<1>4. Spec => []TypeInv  BY TypeCorrect, PTL DEF TypeInv
<1>5. QED  BY <1>1, <1>2, <1>3, <1>4, PTL DEF Spec

-----------------------------------------------------------------------------
(* When no call fails, the audit stream is complete at rest.                *)

(* Without faults, only a creation can fail: its INSERT of the lines. *)
OnlyCreationsFail == \A r \in Requests : pc[r] = "failed" => call[r].op = "create"

OutcomeType(outcome) ==
    IF outcome = "SUCCESS" THEN "PAYMENT_SUCCESS" ELSE "PAYMENT_FAILED"

(* A payment handler has settled the row of o, and has yet to log it. *)
PaymentOwed(o, outcome) ==
    \E r \in Requests : /\ pc[r] \in {"status", "log"}
                        /\ call[r].op = "pay"
                        /\ call[r].order = o
                        /\ call[r].outcome = outcome

PaymentExplained(o) ==
    \/ payments[o] = "PENDING"
    \/ Logged(o, OutcomeType(payments[o]))
    \/ PaymentOwed(o, payments[o])

AuditInv ==
    /\ OnlyCreationsFail
    /\ StatusExplained
    /\ \A o \in DOMAIN payments : PaymentExplained(o)

(* What a step of a handler does to its place, when no call fails. *)
LEMMA OnlyCreationsFailNext ==
    ASSUME TypeInv, ~Faults, OnlyCreationsFail, [Next]_vars
    PROVE  OnlyCreationsFail'
<1> SUFFICES ASSUME NEW q \in Requests, pc'[q] = "failed"
             PROVE  call'[q].op = "create"
  BY DEF OnlyCreationsFail
<1> USE DEF TypeInv, TypeOK, database, channels, locals, Goto
<1>1. CASE pc[q] = "failed"
  BY <1>1, CallStays DEF OnlyCreationsFail
<1>2. CASE pc[q] # "failed"
  <2>1. ASSUME NEW r \in Requests, Receive(r) PROVE FALSE
    <3>1. PICK point \in {"check", "find"} : \E c : Start(r, c, point)
      BY <2>1 DEF Receive, StartCreate, StartPay, StartCancel, StartUpdate
    <3>2. QED  BY <1>2, <3>1 DEF Start
  <2>2. ASSUME NEW r \in Requests, Step(r), ~InsertItems(r) PROVE FALSE
    <3>1. CASE FindOrder(r)
      <4>1. call[r].op \in {"pay", "cancel", "update"}
        BY <3>1 DEF FindOrder, Control, Points, OpsAt
      <4>2. AfterFind(r) # "failed"  BY <4>1 DEF AfterFind
      <4>3. QED  BY <1>2, <3>1, <4>2 DEF FindOrder
    <3>2. CASE ~FindOrder(r)
      BY <1>2, <2>2, <3>2
         DEF Step, CheckProduct, InsertOrder, TakeStock, InsertPayment, RefuseOrder,
             SettlePayment, LoadItems, RestoreStock, SetStatus, AddLog, Notify, NotifyAgain
    <3>3. QED  BY <3>1, <3>2
  <2>3. ASSUME NEW r \in Requests, InsertItems(r) PROVE call'[q].op = "create"
    <3>1. r = q /\ call' = call  BY <1>2, <2>3 DEF InsertItems
    <3>2. call[q].op = "create"  BY <2>3, <3>1 DEF InsertItems, Control, Points, OpsAt
    <3>3. QED  BY <3>1, <3>2
  <2>4. ASSUME NEW r \in Requests, Abort(r) PROVE FALSE
    BY <2>4 DEF Abort
  <2>5. ASSUME NEW p \in Products, RemoveProduct(p) PROVE pc' = pc
    BY <2>5 DEF RemoveProduct
  <2>6. QED  BY <1>2, <2>1, <2>2, <2>3, <2>4, <2>5 DEF Next, Rest, vars
<1>3. QED  BY <1>1, <1>2

(* A settled payment that is owed to the stream is logged, or still owed. *)
LEMMA PaymentOwedStays ==
    ASSUME TypeInv, ~Faults, [Next]_vars, NEW CONSTANT o, NEW CONSTANT outcome,
           PaymentOwed(o, outcome)
    PROVE  PaymentOwed(o, outcome)' \/ Logged(o, OutcomeType(outcome))'
<1> USE DEF database, channels, locals
<1>1. PICK r \in Requests : /\ pc[r] \in {"status", "log"}
                            /\ call[r].op = "pay"
                            /\ call[r].order = o
                            /\ call[r].outcome = outcome
  BY DEF PaymentOwed
<1>2. call'[r] = call[r]  BY <1>1, CallStays
<1>3. CASE AddLog(r)
  <2>1. /\ call[r] \in Calls
        /\ stream'[Len(stream) + 1] = LogEntry(r) /\ Len(stream') = Len(stream) + 1
    BY <1>3, AddLogAppends
  <2>2. Len(stream) \in Nat  BY DEF TypeInv, TypeOK
  <2>3. LogEntry(r).order = o /\ LogEntry(r).type = OutcomeType(outcome)
    BY <1>1, <2>1, CallShape DEF LogEntry, LogType, OutcomeType
  <2>4. QED  BY <2>1, <2>2, <2>3 DEF Logged
<1>4. CASE ~AddLog(r)
  <2>1. pc'[r] \in {"status", "log"}
    <3> USE DEF TypeInv, TypeOK, Goto
    <3>1. ASSUME NEW q \in Requests, Receive(q) PROVE pc'[r] = pc[r]
      <4>1. PICK c, point : Start(q, c, point)
        BY <3>1 DEF Receive, StartCreate, StartPay, StartCancel, StartUpdate
      <4>2. QED  BY <1>1, <4>1 DEF Start
    <3>2. ASSUME NEW q \in Requests, Step(q) PROVE pc'[r] \in {"status", "log"}
      BY <1>1, <1>4, <3>2
         DEF Step, CheckProduct, InsertOrder, InsertItems, TakeStock, InsertPayment,
             RefuseOrder, FindOrder, SettlePayment, LoadItems, RestoreStock, SetStatus,
             AddLog, Notify, NotifyAgain
    <3>3. ASSUME NEW q \in Requests, Abort(q) PROVE FALSE
      BY <3>3 DEF Abort
    <3>4. ASSUME NEW p \in Products, RemoveProduct(p) PROVE pc' = pc
      BY <3>4 DEF RemoveProduct
    <3>5. QED  BY <1>1, <3>1, <3>2, <3>3, <3>4 DEF Next, Rest, vars
  <2>2. QED  BY <1>1, <1>2, <2>1 DEF PaymentOwed
<1>5. QED  BY <1>3, <1>4

LEMMA LoggedStays ==
    ASSUME TypeInv, [Next]_vars, NEW CONSTANT o, NEW CONSTANT type, Logged(o, type)
    PROVE  Logged(o, type)'
BY EntriesStay DEF Logged

LEMMA PaymentExplainedNext ==
    ASSUME TypeInv, ~Faults, \A o \in DOMAIN payments : PaymentExplained(o), [Next]_vars
    PROVE  (\A o \in DOMAIN payments : PaymentExplained(o))'
<1> USE DEF database, channels, locals
<1> SUFFICES ASSUME NEW CONSTANT o, o \in DOMAIN payments' PROVE PaymentExplained(o)'
  OBVIOUS
<1>1. CASE o \in DOMAIN payments /\ payments'[o] = payments[o]
  <2>1. PICK outcome : outcome = payments[o]
    OBVIOUS
  <2>2. \/ outcome = "PENDING"
        \/ Logged(o, OutcomeType(outcome)) \/ PaymentOwed(o, outcome)
    BY <1>1, <2>1 DEF PaymentExplained
  <2>3. \/ outcome = "PENDING"
        \/ Logged(o, OutcomeType(outcome))' \/ PaymentOwed(o, outcome)'
    BY <2>2, LoggedStays, PaymentOwedStays
  <2>4. outcome = payments'[o]  BY <1>1, <2>1
  <2>5. QED  BY <2>3, <2>4 DEF PaymentExplained, Logged, PaymentOwed, OutcomeType
<1>2. ASSUME NEW r \in Requests, SettlePayment(r), call[r].order = o PROVE PaymentExplained(o)'
  <2>1. call[r].op = "pay"
    BY <1>2 DEF SettlePayment, TypeInv, Control, Points, OpsAt
  <2>2. payments'[o] = call[r].outcome
    BY <1>2 DEF SettlePayment, Update
  <2>3. pc'[r] \in {"status", "log"} /\ call'[r] = call[r]
    BY <1>2 DEF SettlePayment, Goto, TypeInv, TypeOK
  <2>4. QED  BY <1>2, <2>1, <2>2, <2>3 DEF PaymentExplained, PaymentOwed
<1>3. ASSUME NEW r \in Requests, InsertPayment(r), r = o PROVE PaymentExplained(o)'
  BY <1>3 DEF InsertPayment, Insert, PaymentExplained
<1>4. ASSUME NEW r \in Requests, Step(r),
             ~(SettlePayment(r) /\ call[r].order = o), ~(InsertPayment(r) /\ r = o)
      PROVE  o \in DOMAIN payments /\ payments'[o] = payments[o]
  <2>1. CASE SettlePayment(r)  BY <1>4, <2>1 DEF SettlePayment, Update
  <2>2. CASE InsertPayment(r)  BY <1>4, <2>2 DEF InsertPayment, Insert
  <2>3. CASE ~SettlePayment(r) /\ ~InsertPayment(r)
    <3>1. UNCHANGED payments
      BY <1>4, <2>3
         DEF Step, CheckProduct, InsertOrder, InsertItems, TakeStock, RefuseOrder, FindOrder,
             LoadItems, RestoreStock, SetStatus, AddLog, Notify, NotifyAgain
    <3>2. QED  BY <3>1
  <2>4. QED  BY <2>1, <2>2, <2>3
<1>5. ASSUME UNCHANGED payments
      PROVE  o \in DOMAIN payments /\ payments'[o] = payments[o]
  BY <1>5
<1>6. ASSUME NEW r \in Requests, Receive(r) \/ Abort(r) PROVE UNCHANGED payments
  BY <1>6 DEF Receive, StartCreate, StartPay, StartCancel, StartUpdate, Start, Abort
<1>7. ASSUME NEW p \in Products, RemoveProduct(p) PROVE UNCHANGED payments
  BY <1>7 DEF RemoveProduct
<1>8. QED  BY <1>1, <1>2, <1>3, <1>4, <1>5, <1>6, <1>7 DEF Next, Rest, vars

(* At rest nobody owes the stream an entry, but a creation that failed, and *)
(* that one owes PENDING.                                                   *)
LEMMA AuditAtRest ==
    ASSUME AuditInv
    PROVE  AuditIsComplete
<1> SUFFICES ASSUME Quiet PROVE AuditIsComplete
  BY DEF AuditIsComplete
<1>1. \A r \in Requests : pc[r] \notin {"status", "log"}
  BY DEF Quiet, Terminal
<1>2. ASSUME NEW r \in Requests, pc[r] \in {"log", "failed"} PROVE Target(r) = "PENDING"
  BY <1>1, <1>2 DEF AuditInv, OnlyCreationsFail, Target
<1>3. ASSUME NEW o \in DOMAIN orders
      PROVE  \/ orders[o].status = "PENDING"
             \/ \E i \in 1..Len(stream) :
                    stream[i].order = o /\ stream[i].status = orders[o].status
  BY <1>2 DEF AuditInv, StatusExplained, Explained
<1>4. ASSUME NEW o \in DOMAIN payments, payments[o] # "PENDING"
      PROVE  Logged(o, OutcomeType(payments[o]))
  BY <1>1, <1>4 DEF AuditInv, PaymentExplained, PaymentOwed
<1>5. QED  BY <1>3, <1>4 DEF AuditIsComplete, OutcomeType

(* AuditIsComplete: when no call fails, then however the handlers overlap,   *)
(* at rest the stream holds an entry for every status and every settled      *)
(* payment.                                                                  *)
THEOREM AuditTrailIsComplete == ~Faults => (Spec => []AuditIsComplete)
<1> SUFFICES ASSUME ~Faults PROVE Spec => []AuditIsComplete
  OBVIOUS
<1>1. Init => AuditInv
  BY DEF Init, NoRows, AuditInv, OnlyCreationsFail, StatusExplained
<1>2. TypeInv /\ AuditInv /\ [Next]_vars => AuditInv'
  BY OnlyCreationsFailNext, StatusExplainedNext, PaymentExplainedNext DEF AuditInv
<1>3. AuditInv => AuditIsComplete  BY AuditAtRest
<1>4. Spec => []TypeInv  BY TypeCorrect, PTL DEF TypeInv
<1>5. QED  BY <1>1, <1>2, <1>3, <1>4, PTL DEF Spec

-----------------------------------------------------------------------------
(* No stock update is lost.                                                  *)

(* q units of line n of the list of r, and the units of p on that line. *)
UnitsOfLine(r, n, q) == {<<r, n, u>> : u \in 1..q}
Batch(r, list, p, n) ==
    IF list[n].product = p THEN UnitsOfLine(r, n, list[n].quantity) ELSE {}

LEMMA UnitsGrow ==
    ASSUME NEW r, NEW list \in Seq(Line), NEW n \in 1..Len(list), NEW p
    PROVE  Units(r, list, p, n) = Units(r, list, p, n - 1) \cup Batch(r, list, p, n)
<1>1. 1..n = (1..(n - 1)) \cup {n}
  OBVIOUS
<1>2. CASE list[n].product = p
  <2>1. {j \in 1..n : list[j].product = p}
            = {j \in 1..(n - 1) : list[j].product = p} \cup {n}
    BY <1>1, <1>2
  <2>2. QED  BY <1>2, <2>1 DEF Units, Batch, UnitsOfLine
<1>3. CASE list[n].product # p
  <2>1. {j \in 1..n : list[j].product = p} = {j \in 1..(n - 1) : list[j].product = p}
    BY <1>1, <1>3
  <2>2. QED  BY <1>3, <2>1 DEF Units, Batch, UnitsOfLine
<1>4. QED  BY <1>2, <1>3

LEMMA NoUnits == ASSUME NEW r, NEW list, NEW p PROVE Units(r, list, p, 0) = {}
<1>1. 1..0 = {}  OBVIOUS
<1>2. QED  BY <1>1 DEF Units

(* The units of a line number its quantity. *)
LEMMA BatchSize ==
    ASSUME NEW r, NEW n, NEW q \in Nat \ {0}
    PROVE  IsFiniteSet(UnitsOfLine(r, n, q)) /\ Cardinality(UnitsOfLine(r, n, q)) = q
<1> DEFINE f == [u \in 1..q |-> <<r, n, u>>]
<1>1. IsFiniteSet(1..q) /\ Cardinality(1..q) = q
  BY FS_Interval
<1>2. f \in [1..q -> UnitsOfLine(r, n, q)] /\ \A t \in UnitsOfLine(r, n, q) : \E u \in 1..q : f[u] = t
  BY DEF UnitsOfLine
<1>3. \A u, w \in 1..q : f[u] = f[w] => u = w
  OBVIOUS
<1>4. f \in Bijection(1..q, UnitsOfLine(r, n, q))
  BY <1>2, <1>3 DEF Bijection, Injection, Surjection, IsInjective
<1>5. QED  BY <1>1, <1>4, FS_Bijection DEF ExistsBijection

Ledger(p) ==
    /\ IsFiniteSet(Taken(p)) /\ IsFiniteSet(Restored(p))
    /\ stock[p] = InitialStock[p] - Cardinality(Taken(p)) + Cardinality(Restored(p))

(* Lines are counted from the first, and the lines in the table are those    *)
(* that the creation goes through.                                           *)
Counting ==
    /\ \A r \in Requests : pc[r] \in {"idle", "find", "load"} => k[r] = 1
    /\ \A r \in DOMAIN items : /\ call[r].op = "create"
                               /\ pc[r] \in Points \cup Terminal
                               /\ pc[r] \notin {"check", "items"}
                               /\ items[r] = lines[r]

LedgerInv == Counting /\ \A p \in DOMAIN stock : Ledger(p)

LEMMA CountingNext ==
    ASSUME TypeInv, Counting, [Next]_vars
    PROVE  Counting'
<1> USE DEF TypeInv, TypeOK, database, channels, locals, Goto
<1>1. ASSUME NEW r \in Requests, Receive(r) PROVE Counting'
  <2>1. PICK point \in {"check", "find"} : \E c : Start(r, c, point)
    BY <1>1 DEF Receive, StartCreate, StartPay, StartCancel, StartUpdate
  <2>2. r \notin DOMAIN items
    BY <2>1 DEF Start, Counting, Points, Terminal
  <2>3. \A q \in Requests \ {r} : lines'[q] = lines[q]
    BY <1>1 DEF Receive, StartCreate, StartPay, StartCancel, StartUpdate
  <2>4. QED  BY <2>1, <2>2, <2>3 DEF Start, Counting
<1>2. ASSUME NEW r \in Requests, Step(r) PROVE Counting'
  <2>1. pc[r] \in Points /\ call[r].op \in OpsAt(pc[r])
    BY <1>2 DEF Step, CheckProduct, InsertOrder, InsertItems, TakeStock, InsertPayment,
           RefuseOrder, FindOrder, SettlePayment, LoadItems, RestoreStock, SetStatus,
           AddLog, Notify, NotifyAgain, Points, Control
  <2>2. r \in DOMAIN items => pc[r] \in {"take", "log", "notify"}
    BY <2>1 DEF Counting, OpsAt, Points
  <2>3. call' = call
    BY <1>2 DEF Step, CheckProduct, InsertOrder, InsertItems, TakeStock, InsertPayment,
           RefuseOrder, FindOrder, SettlePayment, LoadItems, RestoreStock, SetStatus,
           AddLog, Notify, NotifyAgain
  <2>4. CASE CheckProduct(r) \/ InsertOrder(r)
    BY <2>2, <2>3, <2>4 DEF CheckProduct, InsertOrder, Counting
  <2>5. CASE InsertItems(r)
    <3>1. call[r].op = "create"  BY <2>1, <2>5 DEF InsertItems, OpsAt
    <3>2. r \notin DOMAIN items  BY <2>2, <2>5 DEF InsertItems
    <3>3. CASE /\ items' = Insert(items, r, lines[r])
               /\ k' = [k EXCEPT ![r] = 1]
               /\ pc' = [pc EXCEPT ![r] = "take"]
      <4>1. UNCHANGED lines  BY <2>5 DEF InsertItems
      <4>2. DOMAIN items' = DOMAIN items \cup {r} /\ items'[r] = lines[r]
            /\ \A q \in DOMAIN items : items'[q] = items[q]
        BY <3>2, <3>3 DEF Insert
      <4>3. QED  BY <2>3, <3>1, <3>3, <4>1, <4>2 DEF Counting, Points
    <3>4. CASE UNCHANGED <<items, k>> /\ pc' = [pc EXCEPT ![r] = "failed"]
      BY <2>3, <2>5, <3>2, <3>4 DEF InsertItems, Counting
    <3>5. QED  BY <2>5, <3>3, <3>4 DEF InsertItems
  <2>6. CASE TakeStock(r)
    BY <2>3, <2>6 DEF TakeStock, Counting
  <2>7. CASE InsertPayment(r)
    BY <2>3, <2>7 DEF InsertPayment, Counting, Points
  <2>8. CASE RefuseOrder(r) \/ SettlePayment(r) \/ RestoreStock(r) \/ SetStatus(r)
    BY <2>2, <2>3, <2>8 DEF RefuseOrder, SettlePayment, RestoreStock, SetStatus, Counting
  <2>9. CASE FindOrder(r)
    <3>1. k[r] = 1 /\ r \notin DOMAIN items
      BY <2>2, <2>9 DEF FindOrder, Counting
    <3>2. QED  BY <2>3, <2>9, <3>1 DEF FindOrder, Counting
  <2>10. CASE LoadItems(r)
    <3>1. r \notin DOMAIN items  BY <2>2, <2>10 DEF LoadItems
    <3>2. QED  BY <2>3, <2>10, <3>1 DEF LoadItems, Counting
  <2>11. CASE AddLog(r)
    BY <2>3, <2>11 DEF AddLog, Counting, Points
  <2>12. CASE Notify(r) \/ NotifyAgain(r)
    BY <2>2, <2>3, <2>12 DEF Notify, NotifyAgain, Counting, Points, Terminal
  <2>13. QED
    BY <1>2, <2>4, <2>5, <2>6, <2>7, <2>8, <2>9, <2>10, <2>11, <2>12 DEF Step
<1>3. ASSUME NEW r \in Requests, Abort(r) PROVE Counting'
  BY <1>3 DEF Abort, Counting, Points, Terminal
<1>4. ASSUME UNCHANGED <<items, pc, call, lines, k>> PROVE Counting'
  BY <1>4 DEF Counting
<1>5. ASSUME NEW p \in Products, RemoveProduct(p) PROVE Counting'
  BY <1>4, <1>5 DEF RemoveProduct
<1>6. QED  BY <1>1, <1>2, <1>3, <1>4, <1>5 DEF Next, Rest, vars

(* A step that neither takes nor restores leaves both sets as they are. *)
LEMMA TakenSame ==
    ASSUME NEW p, TypeInv,
           \A r \in DOMAIN items :
               r \in DOMAIN items' /\ items'[r] = items[r] /\ k'[r] = k[r],
           \A r \in DOMAIN items' \ DOMAIN items : k'[r] = 1
    PROVE  Taken(p)' = Taken(p)
<1>1. \A r \in DOMAIN items' \ DOMAIN items : Units(r, items'[r], p, k'[r] - 1) = {}
  BY NoUnits
<1>2. Taken(p)' = UNION {Units(r, items'[r], p, k'[r] - 1) : r \in DOMAIN items'}
  BY DEF Taken, Units
<1>3. QED  BY <1>1, <1>2 DEF Taken

LEMMA RestoredSame ==
    ASSUME NEW p, TypeInv,
           \A r \in Requests :
               \/ k[r] = 1 /\ k'[r] = 1
               \/ call'[r] = call[r] /\ call[r].op # "cancel"
               \/ call'[r] = call[r] /\ lines'[r] = lines[r] /\ k'[r] = k[r]
    PROVE  Restored(p)' = Restored(p)
<1>1. \A r \in Requests : k[r] = 1 => Units(r, lines[r], p, k[r] - 1) = {}
  BY NoUnits
<1>2. \A r \in Requests : k'[r] = 1 => Units(r, lines'[r], p, k'[r] - 1) = {}
  BY NoUnits
<1>3. Restored(p)' = UNION {Units(r, lines'[r], p, k'[r] - 1) :
                              r \in {q \in Requests : call'[q].op = "cancel"}}
  BY DEF Restored, Units
<1>4. QED  BY <1>1, <1>2, <1>3 DEF Restored

(* When one of the sets grows, their union S grows to T, by as much. *)
LEMMA UnionGrows ==
    ASSUME NEW D, NEW r \in D, NEW F, NEW G, NEW B, NEW S, NEW T,
           \A q \in D \ {r} : G[q] = F[q], G[r] = F[r] \cup B,
           \A x : x \in S <=> \E q \in D : x \in F[q],
           \A x : x \in T <=> \E q \in D : x \in G[q]
    PROVE  T = S \cup B
<1>1. ASSUME NEW x, x \in T PROVE x \in S \cup B
  <2>1. PICK q \in D : x \in G[q]  BY <1>1
  <2>2. x \in F[q] \/ x \in B  BY <2>1
  <2>3. QED  BY <2>2
<1>2. ASSUME NEW x, x \in S PROVE x \in T
  <2>1. PICK q \in D : x \in F[q]  BY <1>2
  <2>2. x \in G[q]  BY <2>1
  <2>3. QED  BY <2>2
<1>3. B \subseteq T
  OBVIOUS
<1>4. QED  BY <1>1, <1>2, <1>3

(* A handler that takes or puts back line k[r] of its list adds the units    *)
(* of that line to the set it belongs to, and moves on.                      *)
LEMMA TakeGrows ==
    ASSUME TypeInv, Counting, NEW r \in Requests, TakeStock(r), NEW p, Progress(r)
    PROVE  /\ Taken(p)' = Taken(p) \cup Batch(r, lines[r], p, k[r])
           /\ Taken(p) \cap Batch(r, lines[r], p, k[r]) = {}
<1> USE DEF TypeInv, TypeOK, database, channels, locals
<1>1. /\ k[r] \in 1..Len(lines[r]) /\ k'[r] - 1 = k[r]
      /\ \A q \in Requests \ {r} : k'[q] = k[q]
      /\ UNCHANGED <<items, lines>>
  BY DEF TakeStock
<1>2. call[r].op = "create"
  BY DEF TakeStock, Control, Points, OpsAt
<1>3. r \in DOMAIN items /\ items[r] = lines[r] /\ lines[r] \in Seq(Line)
  BY <1>2 DEF TakeStock, Progress
<1>4. Units(r, items[r], p, k[r])
          = Units(r, items[r], p, k[r] - 1) \cup Batch(r, lines[r], p, k[r])
  BY <1>1, <1>3, UnitsGrow
<1>5. Taken(p)' = UNION {Units(q, items[q], p, k'[q] - 1) : q \in DOMAIN items}
  BY <1>1 DEF Taken, Units
<1>6. \A q \in DOMAIN items \ {r} :
          Units(q, items[q], p, k'[q] - 1) = Units(q, items[q], p, k[q] - 1)
  BY <1>1
<1>7. Units(r, items[r], p, k'[r] - 1) = Units(r, items[r], p, k[r])
  BY <1>1
<1>8. Taken(p)' = Taken(p) \cup Batch(r, lines[r], p, k[r])
  <2> DEFINE F == [q \in DOMAIN items |-> Units(q, items[q], p, k[q] - 1)]
             G == [q \in DOMAIN items |-> Units(q, items[q], p, k'[q] - 1)]
  <2>1. \A x : x \in Taken(p)' <=> \E q \in DOMAIN items : x \in G[q]  BY <1>5
  <2>2. \A x : x \in Taken(p) <=> \E q \in DOMAIN items : x \in F[q]  BY DEF Taken
  <2>3. \A q \in DOMAIN items \ {r} : G[q] = F[q]  BY <1>6
  <2>4. G[r] = F[r] \cup Batch(r, lines[r], p, k[r])  BY <1>3, <1>4, <1>7
  <2> HIDE DEF F, G
  <2>5. QED  BY <1>3, <2>1, <2>2, <2>3, <2>4, UnionGrows
<1>9. ASSUME NEW x \in Taken(p), x \in Batch(r, lines[r], p, k[r]) PROVE FALSE
  <2>1. PICK u : x = <<r, k[r], u>>
    BY <1>9 DEF Batch, UnitsOfLine
  <2>2. PICK q \in DOMAIN items : \E i \in 1..(k[q] - 1) : \E w : x = <<q, i, w>>
    BY <1>9 DEF Taken, Units
  <2>3. q = r /\ k[r] \in 1..(k[r] - 1)  BY <2>1, <2>2
  <2>4. QED  BY <1>1, <2>3
<1>10. QED  BY <1>8, <1>9

LEMMA RestoreGrows ==
    ASSUME TypeInv, NEW r \in Requests, RestoreStock(r), NEW p
    PROVE  /\ Restored(p)' = Restored(p) \cup Batch(r, lines[r], p, k[r])
           /\ Restored(p) \cap Batch(r, lines[r], p, k[r]) = {}
<1> USE DEF TypeInv, TypeOK, database, channels, locals
<1> DEFINE Cancels == {q \in Requests : call[q].op = "cancel"}
<1>1. /\ k[r] \in 1..Len(lines[r]) /\ k'[r] - 1 = k[r]
      /\ \A q \in Requests \ {r} : k'[q] = k[q]
      /\ UNCHANGED <<call, lines>>
  BY DEF RestoreStock
<1>2. r \in Cancels
  BY DEF RestoreStock, Control, Points, OpsAt
<1>3. lines[r] \in Seq(Line)
  OBVIOUS
<1>4. Units(r, lines[r], p, k[r])
          = Units(r, lines[r], p, k[r] - 1) \cup Batch(r, lines[r], p, k[r])
  BY <1>1, <1>3, UnitsGrow
<1>5. Restored(p)' = UNION {Units(q, lines[q], p, k'[q] - 1) : q \in Cancels}
  BY <1>1 DEF Restored, Units
<1>6. \A q \in Cancels \ {r} :
          Units(q, lines[q], p, k'[q] - 1) = Units(q, lines[q], p, k[q] - 1)
  BY <1>1
<1>7. Units(r, lines[r], p, k'[r] - 1) = Units(r, lines[r], p, k[r])
  BY <1>1
<1>8. Restored(p) = UNION {Units(q, lines[q], p, k[q] - 1) : q \in Cancels}
  BY DEF Restored
<1>9. Restored(p)' = Restored(p) \cup Batch(r, lines[r], p, k[r])
  <2> DEFINE F == [q \in Cancels |-> Units(q, lines[q], p, k[q] - 1)]
             G == [q \in Cancels |-> Units(q, lines[q], p, k'[q] - 1)]
  <2> HIDE DEF Cancels
  <2>1. \A x : x \in Restored(p)' <=> \E q \in Cancels : x \in G[q]  BY <1>5
  <2>2. \A x : x \in Restored(p) <=> \E q \in Cancels : x \in F[q]  BY <1>8
  <2>3. \A q \in Cancels \ {r} : G[q] = F[q]  BY <1>6
  <2>4. G[r] = F[r] \cup Batch(r, lines[r], p, k[r])  BY <1>2, <1>4, <1>7
  <2> HIDE DEF F, G
  <2>5. QED  BY <1>2, <2>1, <2>2, <2>3, <2>4, UnionGrows
<1>10. ASSUME NEW x \in Restored(p), x \in Batch(r, lines[r], p, k[r]) PROVE FALSE
  <2>1. PICK u : x = <<r, k[r], u>>
    BY <1>10 DEF Batch, UnitsOfLine
  <2>2. PICK q \in Cancels : \E i \in 1..(k[q] - 1) : \E w : x = <<q, i, w>>
    BY <1>10 DEF Restored, Units
  <2>3. q = r /\ k[r] \in 1..(k[r] - 1)  BY <2>1, <2>2
  <2>4. QED  BY <1>1, <2>3
<1>11. QED  BY <1>9, <1>10

(* The units of one more line. *)
LEMMA BatchCounts ==
    ASSUME NEW S, IsFiniteSet(S), NEW r, NEW n, NEW list, list[n] \in Line, NEW p,
           S \cap Batch(r, list, p, n) = {}
    PROVE  /\ IsFiniteSet(S \cup Batch(r, list, p, n))
           /\ Cardinality(S \cup Batch(r, list, p, n))
                  = Cardinality(S) + IF list[n].product = p THEN list[n].quantity ELSE 0
<1>1. CASE list[n].product = p
  <2> DEFINE T == Batch(r, list, p, n)
  <2>1. list[n].quantity \in Nat \ {0}  BY DEF Line
  <2>2. T = UnitsOfLine(r, n, list[n].quantity)  BY <1>1 DEF Batch
  <2> HIDE DEF T
  <2>3. IsFiniteSet(T) /\ Cardinality(T) = list[n].quantity  BY <2>1, <2>2, BatchSize
  <2>4. Cardinality(S \cap T) = 0  BY FS_EmptySet DEF T
  <2>5. /\ IsFiniteSet(S \cup T)
        /\ Cardinality(S \cup T) = Cardinality(S) + Cardinality(T) - Cardinality(S \cap T)
    BY <2>3, FS_Union
  <2>6. Cardinality(S) \in Nat  BY FS_CardinalityType
  <2>7. QED  BY <1>1, <2>1, <2>3, <2>4, <2>5, <2>6 DEF T
<1>2. CASE list[n].product # p
  <2>1. S \cup Batch(r, list, p, n) = S  BY <1>2 DEF Batch
  <2>2. Cardinality(S) \in Nat  BY FS_CardinalityType
  <2>3. QED  BY <1>2, <2>1, <2>2
<1>3. QED  BY <1>1, <1>2

(* Every other step leaves the stock, and both sets, as they are. *)
LEMMA LedgerSame ==
    ASSUME TypeInv, LedgerInv, [Next]_vars, NEW CONSTANT p, p \in DOMAIN stock',
           \A r \in Requests : ~TakeStock(r) /\ ~RestoreStock(r)
    PROVE  /\ p \in DOMAIN stock /\ stock'[p] = stock[p]
           /\ Taken(p)' = Taken(p) /\ Restored(p)' = Restored(p)
<1> USE DEF TypeInv, TypeOK, database, channels, locals, Goto
<1> DEFINE TakenKept == /\ \A r \in DOMAIN items :
                               r \in DOMAIN items' /\ items'[r] = items[r] /\ k'[r] = k[r]
                        /\ \A r \in DOMAIN items' \ DOMAIN items : k'[r] = 1
           RestoredKept == \A r \in Requests :
                               \/ k[r] = 1 /\ k'[r] = 1
                               \/ call'[r] = call[r] /\ call[r].op # "cancel"
                               \/ call'[r] = call[r] /\ lines'[r] = lines[r] /\ k'[r] = k[r]
           StockKept == p \in DOMAIN stock /\ stock'[p] = stock[p]
<1>1. ASSUME NEW r \in Requests, Receive(r) PROVE StockKept /\ TakenKept /\ RestoredKept
  <2>1. PICK c, point : Start(r, c, point)
    BY <1>1 DEF Receive, StartCreate, StartPay, StartCancel, StartUpdate
  <2>2. \A q \in Requests \ {r} : lines'[q] = lines[q]
    BY <1>1 DEF Receive, StartCreate, StartPay, StartCancel, StartUpdate
  <2>3. k[r] = 1  BY <2>1 DEF Start, LedgerInv, Counting
  <2>4. QED  BY <2>1, <2>2, <2>3 DEF Start
<1>2. ASSUME NEW r \in Requests, Step(r) PROVE StockKept /\ TakenKept /\ RestoredKept
  <2>1. call' = call /\ UNCHANGED stock
    BY <1>2 DEF Step, CheckProduct, InsertOrder, InsertItems, InsertPayment,
           RefuseOrder, FindOrder, SettlePayment, LoadItems, SetStatus,
           AddLog, Notify, NotifyAgain
  <2>2. CASE CheckProduct(r)
    <3>1. call[r].op = "create"  BY <2>2 DEF CheckProduct, Control, Points, OpsAt
    <3>2. r \notin DOMAIN items  BY <2>2 DEF CheckProduct, LedgerInv, Counting
    <3>3. UNCHANGED <<items, lines>> /\ \A q \in Requests \ {r} : k'[q] = k[q]
      BY <2>2 DEF CheckProduct
    <3>4. QED  BY <2>1, <3>1, <3>2, <3>3
  <2>3. CASE InsertItems(r)
    <3>1. call[r].op = "create"  BY <2>3 DEF InsertItems, Control, Points, OpsAt
    <3>2. r \notin DOMAIN items  BY <2>3 DEF InsertItems, LedgerInv, Counting
    <3>3. \/ items' = Insert(items, r, lines[r]) /\ k' = [k EXCEPT ![r] = 1]
          \/ UNCHANGED <<items, k>>
      BY <2>3 DEF InsertItems
    <3>4. UNCHANGED lines  BY <2>3 DEF InsertItems
    <3>5. QED  BY <2>1, <3>1, <3>2, <3>3, <3>4 DEF Insert
  <2>4. CASE LoadItems(r)
    <3>1. k[r] = 1  BY <2>4 DEF LoadItems, LedgerInv, Counting
    <3>2. QED  BY <2>1, <2>4, <3>1 DEF LoadItems
  <2>5. CASE ~CheckProduct(r) /\ ~InsertItems(r) /\ ~LoadItems(r)
    <3>1. UNCHANGED <<items, lines, k>>
      BY <1>2, <2>5
         DEF Step, InsertOrder, InsertPayment, RefuseOrder, FindOrder, SettlePayment,
             SetStatus, AddLog, Notify, NotifyAgain
    <3>2. QED  BY <2>1, <3>1
  <2>6. QED  BY <2>2, <2>3, <2>4, <2>5
<1>3. ASSUME UNCHANGED <<items, call, lines, k>>, StockKept
      PROVE  StockKept /\ TakenKept /\ RestoredKept
  BY <1>3
<1>4. ASSUME NEW r \in Requests, Abort(r) PROVE StockKept /\ TakenKept /\ RestoredKept
  BY <1>3, <1>4 DEF Abort
<1>5. ASSUME NEW q \in Products, RemoveProduct(q) PROVE StockKept /\ TakenKept /\ RestoredKept
  BY <1>3, <1>5 DEF RemoveProduct
<1>6. StockKept /\ TakenKept /\ RestoredKept
  BY <1>1, <1>2, <1>3, <1>4, <1>5 DEF Next, Rest, vars
<1>7. Taken(p)' = Taken(p)  BY <1>6, TakenSame
<1>8. Restored(p)' = Restored(p)  BY <1>6, RestoredSame
<1>9. QED  BY <1>6, <1>7, <1>8

LEMMA LedgerNext ==
    ASSUME TypeInv, LedgerInv, \A r \in Requests : Progress(r), [Next]_vars
    PROVE  LedgerInv'
<1> SUFFICES ASSUME NEW CONSTANT p, p \in DOMAIN stock' PROVE Ledger(p)'
  BY CountingNext DEF LedgerInv
<1> USE DEF database, channels, locals
<1>1. ASSUME p \in DOMAIN stock
      PROVE  /\ InitialStock[p] \in Nat /\ stock[p] \in Int
             /\ IsFiniteSet(Taken(p)) /\ Cardinality(Taken(p)) \in Nat
             /\ IsFiniteSet(Restored(p)) /\ Cardinality(Restored(p)) \in Nat
             /\ stock[p] = InitialStock[p] - Cardinality(Taken(p)) + Cardinality(Restored(p))
  BY <1>1, FS_CardinalityType, InitialStockAssumption DEF LedgerInv, Ledger, TypeInv, TypeOK
<1>2. ASSUME NEW r \in Requests, TakeStock(r) PROVE Ledger(p)'
  <2> DEFINE line == lines[r][k[r]]
             batch == Batch(r, lines[r], p, k[r])
             units == IF line.product = p THEN line.quantity ELSE 0
  <2>1. line \in Line /\ units \in Nat
    <3>1. line \in Line  BY <1>2 DEF TakeStock, TypeInv, TypeOK
    <3>2. line.quantity \in Nat  BY <3>1 DEF Line
    <3>3. QED  BY <3>1, <3>2
  <2>2. p \in DOMAIN stock /\ stock'[p] = stock[p] - units
    BY <1>2, <2>1 DEF TakeStock, AddStock, TypeInv, TypeOK, Line
  <2>3. Taken(p)' = Taken(p) \cup batch /\ Taken(p) \cap batch = {}
    BY <1>2, TakeGrows DEF LedgerInv
  <2>4. IsFiniteSet(Taken(p)) /\ IsFiniteSet(Restored(p))
    BY <1>1, <2>2
  <2>5. /\ IsFiniteSet(Taken(p) \cup batch)
        /\ Cardinality(Taken(p) \cup batch) = Cardinality(Taken(p)) + units
    BY <2>1, <2>3, <2>4, BatchCounts
  <2>6. Restored(p)' = Restored(p)
    <3>1. call[r].op = "create" /\ call' = call /\ lines' = lines
          /\ \A q \in Requests \ {r} : k'[q] = k[q]
      BY <1>2 DEF TakeStock, TypeInv, TypeOK, Control, Points, OpsAt
    <3>2. QED  BY <3>1, RestoredSame
  <2> HIDE DEF batch, units
  <2>7. QED  BY <1>1, <2>1, <2>2, <2>3, <2>4, <2>5, <2>6 DEF Ledger
<1>3. ASSUME NEW r \in Requests, RestoreStock(r) PROVE Ledger(p)'
  <2> DEFINE line == lines[r][k[r]]
             batch == Batch(r, lines[r], p, k[r])
             units == IF line.product = p THEN line.quantity ELSE 0
  <2>1. line \in Line /\ units \in Nat
    <3>1. line \in Line  BY <1>3 DEF RestoreStock, TypeInv, TypeOK
    <3>2. line.quantity \in Nat  BY <3>1 DEF Line
    <3>3. QED  BY <3>1, <3>2
  <2>2. p \in DOMAIN stock /\ stock'[p] = stock[p] + units
    BY <1>3, <2>1 DEF RestoreStock, AddStock, TypeInv, TypeOK, Line
  <2>3. Restored(p)' = Restored(p) \cup batch /\ Restored(p) \cap batch = {}
    BY <1>3, RestoreGrows
  <2>4. IsFiniteSet(Taken(p)) /\ IsFiniteSet(Restored(p))
    BY <1>1, <2>2
  <2>5. /\ IsFiniteSet(Restored(p) \cup batch)
        /\ Cardinality(Restored(p) \cup batch) = Cardinality(Restored(p)) + units
    BY <2>1, <2>3, <2>4, BatchCounts
  <2>6. Taken(p)' = Taken(p)
    <3>1. call[r].op = "cancel" /\ items' = items /\ \A q \in Requests \ {r} : k'[q] = k[q]
      BY <1>3 DEF RestoreStock, TypeInv, TypeOK, Control, Points, OpsAt
    <3>2. r \notin DOMAIN items  BY <3>1 DEF LedgerInv, Counting
    <3>3. DOMAIN items \subseteq Requests  BY DEF TypeInv, TypeOK
    <3>4. QED  BY <3>1, <3>2, <3>3, TakenSame
  <2> HIDE DEF batch, units
  <2>7. QED  BY <1>1, <2>1, <2>2, <2>3, <2>4, <2>5, <2>6 DEF Ledger
<1>4. ASSUME \A r \in Requests : ~TakeStock(r) /\ ~RestoreStock(r) PROVE Ledger(p)'
  BY <1>1, <1>4, LedgerSame DEF Ledger
<1>5. QED  BY <1>2, <1>3, <1>4

(* StockLedger: whatever overlaps, fails or is deleted, a product's stock is *)
(* its opening stock less the units taken plus the units put back: the       *)
(* relative UPDATEs lose nothing.                                            *)
THEOREM StockIsConserved == Spec => []StockLedger
<1> DEFINE Inv == LedgerInv /\ \A r \in Requests : Progress(r)
<1>1. Init => Inv
  <2> SUFFICES ASSUME Init PROVE Inv
    OBVIOUS
  <2>1. \A r \in Requests : Progress(r)
    BY DEF Init, Progress, NoCall, None
  <2>2. Counting
    BY DEF Init, Counting, NoRows
  <2>3. ASSUME NEW p \in DOMAIN stock PROVE Ledger(p)
    <3>1. Taken(p) = {}
      BY DEF Init, Taken, NoRows
    <3>2. Restored(p) = {}
      BY DEF Init, Restored, NoCall, None
    <3>3. InitialStock[p] \in Nat /\ stock[p] = InitialStock[p]
      BY InitialStockAssumption DEF Init
    <3>4. QED  BY <3>1, <3>2, <3>3, FS_EmptySet DEF Ledger
  <2>4. QED  BY <2>1, <2>2, <2>3 DEF LedgerInv
<1>2. TypeInv /\ Inv /\ [Next]_vars => Inv'
  BY LedgerNext, ProgressNext
<1>3. Inv => StockLedger
  BY DEF LedgerInv, Ledger, StockLedger
<1>4. Spec => []TypeInv  BY TypeCorrect, PTL DEF TypeInv
<1>5. QED  BY <1>1, <1>2, <1>3, <1>4, PTL DEF Spec

-----------------------------------------------------------------------------
(* One handler at a time.                                                    *)

(* MaxInFlight = 1: at most one request is in its handler. *)
Solo == IsFiniteSet(InFlight) /\ \A q, r \in InFlight : q = r

LEMMA SoloStart ==
    ASSUME Solo, Cardinality(InFlight) < 1
    PROVE  InFlight = {}
<1>1. Cardinality(InFlight) \in Nat  BY FS_CardinalityType DEF Solo
<1>2. Cardinality(InFlight) = 0  BY <1>1
<1>3. QED  BY <1>2, FS_EmptySet DEF Solo

LEMMA SoloNext ==
    ASSUME MaxInFlight = 1, TypeInv, Solo, [Next]_vars
    PROVE  Solo'
<1> USE DEF TypeInv, TypeOK, database, channels, locals, Goto
<1>1. ASSUME NEW r \in Requests, Receive(r) PROVE Solo'
  <2>1. PICK c, point : Start(r, c, point)
    BY <1>1 DEF Receive, StartCreate, StartPay, StartCancel, StartUpdate
  <2>2. InFlight = {}  BY <2>1, SoloStart DEF Start
  <2>3. InFlight' \subseteq {r}  BY <2>1, <2>2 DEF Start, InFlight
  <2>4. IsFiniteSet({r})  BY FS_Singleton
  <2>5. IsFiniteSet(InFlight')  BY <2>3, <2>4, FS_Subset
  <2>6. QED  BY <2>3, <2>5 DEF Solo, InFlight
<1>2. ASSUME InFlight' \subseteq InFlight PROVE Solo'
  <2>1. IsFiniteSet(InFlight')  BY <1>2, FS_Subset DEF Solo
  <2>2. QED  BY <1>2, <2>1 DEF Solo
<1>3. ASSUME NEW r \in Requests, Step(r) \/ Abort(r) PROVE InFlight' \subseteq InFlight
  <2>1. r \in InFlight
    BY <1>3 DEF Step, CheckProduct, InsertOrder, InsertItems, TakeStock, InsertPayment,
           RefuseOrder, FindOrder, SettlePayment, LoadItems, RestoreStock, SetStatus,
           AddLog, Notify, NotifyAgain, Abort, Points, InFlight, Terminal
  <2>2. \A q \in Requests \ {r} : pc'[q] = pc[q]
    BY <1>3, OtherStep
  <2>3. QED  BY <2>1, <2>2 DEF InFlight
<1>4. ASSUME UNCHANGED pc PROVE InFlight' \subseteq InFlight
  BY <1>4 DEF InFlight
<1>5. ASSUME NEW p \in Products, RemoveProduct(p) PROVE UNCHANGED pc
  BY <1>5 DEF RemoveProduct
<1>6. QED  BY <1>1, <1>2, <1>3, <1>4, <1>5 DEF Next, Rest, vars

(* What the two notifications of a handler are. *)
LEMMA SentMessage ==
    ASSUME TypeInv, NEW r \in Requests
    PROVE  /\ Notify(r) =>
                  /\ FirstMessage(r) \in Message /\ FirstMessage(r).order = call[r].order
                  /\ FirstMessage(r).type = "ORDER_UPDATE" <=> call[r].op # "pay"
                  /\ call[r].op # "pay" => FirstMessage(r).status = Target(r)
           /\ NotifyAgain(r) =>
                  /\ SecondMessage(r) \in Message /\ SecondMessage(r).order = call[r].order
                  /\ SecondMessage(r).type = "ORDER_UPDATE" <=> call[r].op = "pay"
                  /\ call[r].op = "pay" => SecondMessage(r).status = Target(r)
<1>1. SUFFICES ASSUME pc[r] \in {"notify", "notify2"}
               PROVE  /\ /\ FirstMessage(r).order = call[r].order
                         /\ FirstMessage(r).type = "ORDER_UPDATE" <=> call[r].op # "pay"
                         /\ call[r].op # "pay" => FirstMessage(r).status = Target(r)
                         /\ FirstMessage(r) \in Message
                      /\ pc[r] = "notify2" =>
                             /\ SecondMessage(r).order = call[r].order
                             /\ SecondMessage(r).type = "ORDER_UPDATE" <=> call[r].op = "pay"
                             /\ call[r].op = "pay" => SecondMessage(r).status = Target(r)
                             /\ SecondMessage(r) \in Message
  BY DEF Notify, NotifyAgain
<1>2. call[r] \in Calls  BY <1>1 DEF TypeInv, TypeOK
<1>3. call[r].op # "pay" => Target(r) \in Statuses
  BY <1>2, TargetType DEF TypeInv
<1>4. pc[r] = "notify2" => Target(r) \in Statuses
  BY <1>1, <1>2, TargetType DEF TypeInv, Control
<1>5. FirstMessage(r) \in Message
  BY <1>2, <1>3, CallShape
     DEF FirstMessage, PaymentNotice, OrderUpdate, Message, PaymentStatuses
<1>6. pc[r] = "notify2" => SecondMessage(r) \in Message
  BY <1>2, <1>4, CallShape DEF SecondMessage, OrderUpdate, AdminNotice, Message
<1>7. QED  BY <1>5, <1>6 DEF FirstMessage, SecondMessage, PaymentNotice, OrderUpdate, AdminNotice

LEMMA NotifiedGrows ==
    ASSUME TypeInv, [Next]_vars
    PROVE  UNCHANGED notified \/ \E r \in Requests : Notify(r) \/ NotifyAgain(r)
<1> USE DEF database, channels, locals
<1>1. ASSUME NEW r \in Requests, Step(r), ~Notify(r), ~NotifyAgain(r)
      PROVE  UNCHANGED notified
  BY <1>1 DEF Step, CheckProduct, InsertOrder, InsertItems, TakeStock, InsertPayment,
              RefuseOrder, FindOrder, SettlePayment, LoadItems, RestoreStock, SetStatus,
              AddLog
<1>2. ASSUME NEW r \in Requests, Receive(r) \/ Abort(r) PROVE UNCHANGED notified
  BY <1>2 DEF Receive, StartCreate, StartPay, StartCancel, StartUpdate, Start, Abort
<1>3. ASSUME NEW p \in Products, RemoveProduct(p) PROVE UNCHANGED notified
  BY <1>3 DEF RemoveProduct
<1>4. QED  BY <1>1, <1>2, <1>3 DEF Next, Rest, vars

(* The requests that name an order in the table. *)
Known ==
    /\ \A r \in DOMAIN orders : call[r].op = "create" /\ pc[r] \notin {"idle", "check"}
    /\ \A r \in Requests : pc[r] \in Points /\ call[r].op # "create"
                               => call[r].order \in DOMAIN orders
    /\ \A i \in 1..Len(stream) : stream[i].order \in DOMAIN orders
    /\ \A m \in 1..Len(notified) : notified[m].order \in DOMAIN orders

LEMMA KnownNext ==
    ASSUME TypeInv, \A r \in Requests : Progress(r), Known, [Next]_vars
    PROVE  Known'
<1> USE DEF TypeInv, TypeOK, database, channels, locals, Goto
<1>1. DOMAIN orders \subseteq DOMAIN orders'
  <2>1. ASSUME NEW r \in Requests, Step(r) PROVE DOMAIN orders \subseteq DOMAIN orders'
    BY <2>1 DEF Step, CheckProduct, InsertOrder, InsertItems, TakeStock, InsertPayment,
           RefuseOrder, FindOrder, SettlePayment, LoadItems, RestoreStock, SetStatus,
           AddLog, Notify, NotifyAgain, Insert, Update
  <2>2. ASSUME NEW r \in Requests, Receive(r) \/ Abort(r) PROVE UNCHANGED orders
    BY <2>2 DEF Receive, StartCreate, StartPay, StartCancel, StartUpdate, Start, Abort
  <2>3. ASSUME NEW p \in Products, RemoveProduct(p) PROVE UNCHANGED orders
    BY <2>3 DEF RemoveProduct
  <2>4. QED  BY <2>1, <2>2, <2>3 DEF Next, Rest, vars
<1>2. ASSUME NEW r \in Requests, pc[r] \in {"log", "notify", "notify2"}
      PROVE  call[r].order \in DOMAIN orders
  <2>1. CASE call[r].op = "create"
    <3>1. pc[r] # "notify2"  BY <2>1 DEF Control, Points, OpsAt
    <3>2. QED  BY <1>2, <2>1, <3>1 DEF Progress
  <2>2. CASE call[r].op # "create"
    BY <1>2, <2>2 DEF Known, Points
  <2>3. QED  BY <2>1, <2>2
<1>3. ASSUME NEW i \in 1..Len(stream') PROVE stream'[i].order \in DOMAIN orders'
  <2>1. CASE UNCHANGED stream  BY <1>1, <1>3, <2>1 DEF Known
  <2>2. ASSUME NEW r \in Requests, AddLog(r) PROVE stream'[i].order \in DOMAIN orders'
    <3>1. /\ Len(stream') = Len(stream) + 1
          /\ stream'[Len(stream) + 1] = LogEntry(r)
          /\ \A j \in 1..Len(stream) : stream'[j] = stream[j]
      BY <2>2, AddLogAppends
    <3>2. call[r].order \in DOMAIN orders  BY <1>2, <2>2 DEF AddLog
    <3>3. LogEntry(r).order = call[r].order  BY DEF LogEntry
    <3>4. i \in 1..Len(stream) \/ i = Len(stream) + 1  BY <1>3, <3>1
    <3>5. QED  BY <1>1, <3>1, <3>2, <3>3, <3>4 DEF Known
  <2>3. QED  BY <2>1, <2>2, StreamGrows
<1>4. ASSUME NEW r \in DOMAIN orders' PROVE call'[r].op = "create" /\ pc'[r] \notin {"idle", "check"}
  <2>1. CASE r \in DOMAIN orders
    <3>1. r \in Requests /\ call[r].op = "create" /\ pc[r] \notin {"idle", "check"}
      BY <2>1 DEF Known
    <3>2. call'[r] = call[r] /\ pc'[r] # "idle"  BY <3>1, CallStays
    <3>3. pc'[r] # "check"
      <4>1. ASSUME NEW q \in Requests, Receive(q) PROVE pc'[r] = pc[r]
        <5>1. PICK c, point : Start(q, c, point)
          BY <4>1 DEF Receive, StartCreate, StartPay, StartCancel, StartUpdate
        <5>2. QED  BY <3>1, <5>1 DEF Start
      <4>2. ASSUME NEW q \in Requests, Step(q) PROVE pc'[r] # "check"
        <5>1. CASE FindOrder(q)
          <6>1. call[q].op \in {"pay", "cancel", "update"}
            BY <5>1 DEF FindOrder, Control, Points, OpsAt
          <6>2. QED  BY <3>1, <5>1, <6>1 DEF FindOrder, AfterFind
        <5>2. CASE ~FindOrder(q)
          BY <3>1, <4>2, <5>2
             DEF Step, CheckProduct, InsertOrder, InsertItems, TakeStock, InsertPayment,
                 RefuseOrder, SettlePayment, LoadItems, RestoreStock, SetStatus,
                 AddLog, Notify, NotifyAgain
        <5>3. QED  BY <5>1, <5>2
      <4>3. ASSUME NEW q \in Requests, Abort(q) PROVE pc'[r] # "check"
        BY <3>1, <4>3 DEF Abort
      <4>4. ASSUME NEW p \in Products, RemoveProduct(p) PROVE UNCHANGED pc
        BY <4>4 DEF RemoveProduct
      <4>5. QED  BY <3>1, <4>1, <4>2, <4>3, <4>4 DEF Next, Rest, vars
    <3>4. QED  BY <3>1, <3>2, <3>3
  <2>2. CASE r \notin DOMAIN orders
    <3>1. ASSUME NEW q \in Requests, Step(q), ~InsertOrder(q) PROVE DOMAIN orders' = DOMAIN orders
      BY <3>1 DEF Step, CheckProduct, InsertItems, TakeStock, InsertPayment,
           RefuseOrder, FindOrder, SettlePayment, LoadItems, RestoreStock, SetStatus,
           AddLog, Notify, NotifyAgain, Update
    <3>2. ASSUME NEW q \in Requests, Receive(q) \/ Abort(q) PROVE UNCHANGED orders
      BY <3>2 DEF Receive, StartCreate, StartPay, StartCancel, StartUpdate, Start, Abort
    <3>3. ASSUME NEW p \in Products, RemoveProduct(p) PROVE UNCHANGED orders
      BY <3>3 DEF RemoveProduct
    <3>4. PICK q \in Requests : InsertOrder(q)
      BY <1>4, <2>2, <3>1, <3>2, <3>3 DEF Next, Rest, vars
    <3>5. r = q  BY <1>4, <2>2, <3>4 DEF InsertOrder, Insert
    <3>6. call[q].op = "create"  BY <3>4 DEF InsertOrder, Control, Points, OpsAt
    <3>7. QED  BY <3>4, <3>5, <3>6 DEF InsertOrder
  <2>3. QED  BY <2>1, <2>2
<1>5. ASSUME NEW r \in Requests, pc'[r] \in Points, call'[r].op # "create"
      PROVE  call'[r].order \in DOMAIN orders'
  <2>1. CASE pc[r] = "idle"
    <3>1. Receive(r)
      <4>1. ASSUME NEW q \in Requests, q # r, Receive(q) \/ Step(q) \/ Abort(q) PROVE FALSE
        BY <1>5, <2>1, <4>1, OtherStep DEF Points
      <4>2. ASSUME Step(r) \/ Abort(r) PROVE FALSE
        BY <2>1, <4>2
           DEF Step, CheckProduct, InsertOrder, InsertItems, TakeStock, InsertPayment,
               RefuseOrder, FindOrder, SettlePayment, LoadItems, RestoreStock, SetStatus,
               AddLog, Notify, NotifyAgain, Abort, Points
      <4>3. ASSUME NEW p \in Products, RemoveProduct(p) PROVE FALSE
        BY <1>5, <2>1, <4>3 DEF RemoveProduct, Points
      <4>4. QED  BY <1>5, <2>1, <4>1, <4>2, <4>3 DEF Next, Rest, vars, Points
    <3>2. \E c, point : Start(r, c, point) /\ (c.op # "create" => c.order \in DOMAIN orders)
      <4>1. CASE StartCreate(r)  BY <4>1 DEF StartCreate
      <4>2. CASE StartPay(r)     BY <4>2 DEF StartPay
      <4>3. CASE StartCancel(r)  BY <4>3 DEF StartCancel
      <4>4. CASE StartUpdate(r)  BY <4>4 DEF StartUpdate
      <4>5. QED  BY <3>1, <4>1, <4>2, <4>3, <4>4 DEF Receive
    <3>3. QED  BY <1>1, <1>5, <3>2 DEF Start
  <2>2. CASE pc[r] # "idle"
    <3>1. call'[r] = call[r]  BY <2>2, CallStays
    <3>2. pc[r] \in Points
      <4>1. ASSUME NEW q \in Requests, Receive(q) PROVE pc'[r] = pc[r]
        <5>1. PICK c, point : Start(q, c, point)
          BY <4>1 DEF Receive, StartCreate, StartPay, StartCancel, StartUpdate
        <5>2. QED  BY <2>2, <5>1 DEF Start
      <4>2. ASSUME NEW q \in Requests, Step(q) \/ Abort(q) PROVE pc[r] \in Points
        <5>1. pc[q] \in Points
          BY <4>2 DEF Step, CheckProduct, InsertOrder, InsertItems, TakeStock, InsertPayment,
               RefuseOrder, FindOrder, SettlePayment, LoadItems, RestoreStock, SetStatus,
               AddLog, Notify, NotifyAgain, Abort, Points
        <5>2. q # r => pc'[r] = pc[r]  BY <4>2, OtherStep
        <5>3. QED  BY <1>5, <5>1, <5>2
      <4>3. ASSUME NEW p \in Products, RemoveProduct(p) PROVE UNCHANGED pc
        BY <4>3 DEF RemoveProduct
      <4>4. QED  BY <1>5, <4>1, <4>2, <4>3 DEF Next, Rest, vars
    <3>3. QED  BY <1>1, <1>5, <3>1, <3>2 DEF Known
  <2>3. QED  BY <2>1, <2>2
<1>6. ASSUME NEW m \in 1..Len(notified') PROVE notified'[m].order \in DOMAIN orders'
  <2>1. CASE UNCHANGED notified  BY <1>1, <1>6, <2>1 DEF Known
  <2>2. ASSUME NEW r \in Requests, Notify(r) \/ NotifyAgain(r)
        PROVE  notified'[m].order \in DOMAIN orders'
    <3>1. PICK message \in Message : /\ notified' = Append(notified, message)
                                      /\ message.order = call[r].order
      BY <2>2, SentMessage DEF Notify, NotifyAgain
    <3>2. call[r].order \in DOMAIN orders  BY <1>2, <2>2 DEF Notify, NotifyAgain
    <3>3. (m \in 1..Len(notified) /\ notified'[m] = notified[m]) \/ notified'[m] = message
      BY <1>6, <3>1
    <3>4. QED  BY <1>1, <3>1, <3>2, <3>3 DEF Known
  <2>3. QED  BY <2>1, <2>2, NotifiedGrows
<1>7. QED  BY <1>3, <1>4, <1>5, <1>6 DEF Known

(* What holds of the trail of an order when handlers do not overlap: only    *)
(* the handler in flight may know more than the stream and the customer.     *)

(* A handler that has written its status finds it in the row. *)
Written ==
    \A r \in Requests :
        pc[r] \in {"items", "take", "log", "notify", "notify2"} /\ Target(r) # None
            => orders[call[r].order].status = Target(r)

Unlogged(r, o) == pc[r] = "log" /\ call[r].order = o /\ Target(r) # None
Untold(r, o) ==
    /\ call[r].order = o /\ Target(r) # None
    /\ pc[r] \in {"log", "notify"} \/ (pc[r] = "notify2" /\ call[r].op = "pay")

(* What a handler read is what the stream says last. *)
SeenIsLast ==
    \A r \in Requests :
        pc[r] \in {"load", "restore", "status", "log"} /\ call[r].op \in {"cancel", "update"}
            => \A i \in 1..Len(stream) :
                   LastOf(i, Len(stream), call[r].order) => stream[i].status = seen[r]

Replays ==
    \A o \in DOMAIN orders : \A i \in 1..Len(stream) : \A n \in (i + 1)..Len(stream) :
        LastOf(i, n - 1, o) /\ GivesStatus(n, o) /\ stream[n].prev # None
            => stream[n].prev = stream[i].status

LastIsStatus ==
    \A o \in DOMAIN orders : \A i \in 1..Len(stream) :
        LastOf(i, Len(stream), o) =>
            stream[i].status = orders[o].status \/ \E r \in Requests : Unlogged(r, o)

LastUpdate(m, o) ==
    IsUpdate(m, o) /\ \A n \in (m + 1)..Len(notified) : ~IsUpdate(n, o)

ToldIsStatus ==
    \A o \in DOMAIN orders : \A m \in 1..Len(notified) :
        LastUpdate(m, o) =>
            notified[m].status = orders[o].status \/ \E r \in Requests : Untold(r, o)

TrailInv == Written /\ SeenIsLast /\ Replays /\ LastIsStatus /\ ToldIsStatus

(* When a handler takes a step, it is the only one in flight. *)
LEMMA OnlyOne ==
    ASSUME TypeInv, Solo, NEW r \in Requests, Step(r), NEW q \in Requests, pc[q] \in Points
    PROVE  q = r
<1>1. pc[r] \in Points
  BY DEF Step, CheckProduct, InsertOrder, InsertItems, TakeStock, InsertPayment,
         RefuseOrder, FindOrder, SettlePayment, LoadItems, RestoreStock, SetStatus,
         AddLog, Notify, NotifyAgain, Points
<1>2. q \in InFlight /\ r \in InFlight  BY <1>1 DEF InFlight, Points, Terminal
<1>3. QED  BY <1>2 DEF Solo

(* A handler in flight after a step was either received in that step, or    *)
(* took it, or nothing happened to it.                                      *)
LEMMA SoloStep ==
    ASSUME MaxInFlight = 1, TypeInv, Solo, [Next]_vars, NEW q \in Requests, pc'[q] \in Points
    PROVE  \/ Step(q)
           \/ pc'[q] \in {"check", "find"} /\ UNCHANGED <<database, channels>>
           \/ UNCHANGED <<orders, channels, pc, call, seen>>
<1> USE DEF database, channels, locals
<1>1. ASSUME NEW r \in Requests, Receive(r)
      PROVE  pc'[q] \in {"check", "find"} /\ UNCHANGED <<database, channels>>
  <2>1. PICK point \in {"check", "find"} : \E c : Start(r, c, point)
    BY <1>1 DEF Receive, StartCreate, StartPay, StartCancel, StartUpdate
  <2>2. InFlight = {}  BY <2>1, SoloStart DEF Start
  <2>3. pc[q] \notin Points
    BY <2>2 DEF InFlight, Points, Terminal
  <2>4. QED  BY <2>1, <2>3 DEF Start, Goto, TypeInv, TypeOK
<1>2. ASSUME NEW r \in Requests, Step(r) PROVE Step(q)
  <2>1. CASE q = r  BY <1>2, <2>1
  <2>2. CASE q # r
    <3>1. pc[q] \in Points  BY <1>2, <2>2, OtherStep
    <3>2. QED  BY <1>2, <2>2, <3>1, OnlyOne
  <2>3. QED  BY <2>1, <2>2
<1>3. ASSUME NEW r \in Requests, Abort(r) PROVE FALSE
  <2>1. pc[r] \in Points /\ pc'[r] = "failed"  BY <1>3 DEF Abort, Goto, TypeInv, TypeOK
  <2>2. q # r  BY <2>1 DEF Points
  <2>3. pc[q] \in Points  BY <1>3, <2>2, OtherStep
  <2>4. q \in InFlight /\ r \in InFlight  BY <2>1, <2>3 DEF InFlight, Points, Terminal
  <2>5. QED  BY <2>2, <2>4 DEF Solo
<1>4. ASSUME NEW p \in Products, RemoveProduct(p)
      PROVE  UNCHANGED <<orders, channels, pc, call, seen>>
  BY <1>4 DEF RemoveProduct
<1>5. QED  BY <1>1, <1>2, <1>3, <1>4 DEF Next, Rest, vars

LEMMA WrittenNext ==
    ASSUME MaxInFlight = 1, TypeInv, Solo, \A r \in Requests : Progress(r), Known, Written,
           [Next]_vars
    PROVE  Written'
<1> SUFFICES ASSUME NEW q \in Requests,
                    pc'[q] \in {"items", "take", "log", "notify", "notify2"},
                    Target(q)' # None
             PROVE  orders'[call'[q].order].status = Target(q)'
  BY DEF Written
<1> USE DEF database, channels, locals, Goto
<1>1. pc'[q] \in Points  BY DEF Points
<1>2. CASE UNCHANGED <<orders, channels, pc, call, seen>>
  BY <1>2 DEF Written, Target
<1>3. CASE Step(q)
  <2>1. call' = call
    BY <1>3 DEF Step, CheckProduct, InsertOrder, InsertItems, TakeStock, InsertPayment,
           RefuseOrder, FindOrder, SettlePayment, LoadItems, RestoreStock, SetStatus,
           AddLog, Notify, NotifyAgain
  <2>2. Target(q)' = Target(q)  BY <2>1 DEF Target
  <2>3. CASE InsertOrder(q)
    <3>1. call[q].op = "create"
      BY <2>3 DEF InsertOrder, TypeInv, Control, Points, OpsAt
    <3>2. call[q].order = q  BY <3>1 DEF Progress
    <3>3. orders'[q].status = "PENDING"  BY <2>3 DEF InsertOrder, Insert
    <3>4. QED  BY <2>1, <2>2, <3>1, <3>2, <3>3 DEF Target
  <2>4. CASE SetStatus(q)
    <3>1. call[q].op # "create" /\ pc[q] \in Points
      BY <2>4 DEF SetStatus, TypeInv, Control, Points, OpsAt
    <3>2. call[q].order \in DOMAIN orders  BY <3>1 DEF Known
    <3>3. QED  BY <2>1, <2>2, <2>4, <3>2, SetStatusWrites
  <2>5. CASE InsertItems(q) \/ TakeStock(q) \/ InsertPayment(q)
             \/ AddLog(q) \/ Notify(q) \/ NotifyAgain(q)
    <3>1. UNCHANGED orders /\ pc[q] \in {"items", "take", "log", "notify", "notify2"}
      BY <2>5 DEF InsertItems, TakeStock, InsertPayment, AddLog, Notify, NotifyAgain
    <3>2. QED  BY <2>1, <2>2, <3>1 DEF Written
  <2>6. CASE SettlePayment(q)
    <3>1. call[q].op = "pay" /\ call[q] \in Calls
      BY <2>6 DEF SettlePayment, TypeInv, TypeOK, Control, Points, OpsAt
    <3>2. call[q].outcome # "SUCCESS"
      BY <2>6 DEF SettlePayment, TypeInv, TypeOK
    <3>3. Target(q) = None  BY <3>1, <3>2, CallShape DEF Target
    <3>4. QED  BY <2>2, <3>3
  <2>7. ASSUME CheckProduct(q) \/ RefuseOrder(q) \/ LoadItems(q) \/ RestoreStock(q)
        PROVE  FALSE
    BY <2>7 DEF CheckProduct, RefuseOrder, LoadItems, RestoreStock, TypeInv, TypeOK
  <2>8. ASSUME FindOrder(q) PROVE FALSE
    <3>1. call[q].op \in {"pay", "cancel", "update"}
      BY <2>8 DEF FindOrder, TypeInv, Control, Points, OpsAt
    <3>2. pc'[q] = AfterFind(q)  BY <2>8 DEF FindOrder, TypeInv, TypeOK
    <3>3. QED  BY <3>1, <3>2 DEF AfterFind
  <2>9. QED  BY <1>3, <2>3, <2>4, <2>5, <2>6, <2>7, <2>8 DEF Step
<1>4. QED  BY <1>1, <1>2, <1>3, SoloStep

LEMMA SeenIsLastNext ==
    ASSUME MaxInFlight = 1, TypeInv, Solo, Known, SeenIsLast, LastIsStatus, [Next]_vars
    PROVE  SeenIsLast'
<1> SUFFICES ASSUME NEW q \in Requests,
                    pc'[q] \in {"load", "restore", "status", "log"},
                    call'[q].op \in {"cancel", "update"},
                    NEW CONSTANT i, i \in 1..Len(stream'),
                    LastOf(i, Len(stream), call[q].order)'
             PROVE  stream'[i].status = seen'[q]
  BY DEF SeenIsLast
<1> USE DEF database, channels, locals, Goto
<1>1. pc'[q] \in Points  BY DEF Points
<1>2. CASE UNCHANGED <<orders, channels, pc, call, seen>>
  BY <1>2 DEF SeenIsLast, LastOf, GivesStatus
<1>3. CASE Step(q)
  <2>1. call' = call
    BY <1>3 DEF Step, CheckProduct, InsertOrder, InsertItems, TakeStock, InsertPayment,
           RefuseOrder, FindOrder, SettlePayment, LoadItems, RestoreStock, SetStatus,
           AddLog, Notify, NotifyAgain
  <2>2. CASE FindOrder(q)
    <3>1. UNCHANGED <<stream, orders>> /\ seen'[q] = orders[call[q].order].status
      BY <2>2 DEF FindOrder, TypeInv, TypeOK
    <3>2. call[q].order \in DOMAIN orders
      BY <2>2 DEF FindOrder, Refused, Visible
    <3>3. LastOf(i, Len(stream), call[q].order) /\ i \in 1..Len(stream)
      BY <2>1, <3>1 DEF LastOf, GivesStatus
    <3>4. \A r \in Requests : pc[r] # "log"
      BY <1>3, <2>2, OnlyOne DEF FindOrder, Points
    <3>5. stream[i].status = orders[call[q].order].status
      BY <3>2, <3>3, <3>4 DEF LastIsStatus, Unlogged
    <3>6. QED  BY <3>1, <3>5
  <2>3. CASE LoadItems(q) \/ RestoreStock(q) \/ SetStatus(q)
    <3>1. UNCHANGED <<stream, seen>> /\ pc[q] \in {"load", "restore", "status", "log"}
      BY <2>3 DEF LoadItems, RestoreStock, SetStatus
    <3>2. LastOf(i, Len(stream), call[q].order) /\ i \in 1..Len(stream)
      BY <2>1, <3>1 DEF LastOf, GivesStatus
    <3>3. QED  BY <2>1, <3>1, <3>2 DEF SeenIsLast
  <2>4. ASSUME \/ CheckProduct(q) \/ InsertOrder(q) \/ InsertItems(q) \/ TakeStock(q)
               \/ InsertPayment(q) \/ SettlePayment(q)
        PROVE  FALSE
    <3>1. call[q].op \in {"create", "pay"}
      BY <2>4 DEF CheckProduct, InsertOrder, InsertItems, TakeStock, InsertPayment,
                  SettlePayment, TypeInv, Control, Points, OpsAt
    <3>2. QED  BY <2>1, <3>1
  <2>5. ASSUME RefuseOrder(q) \/ AddLog(q) \/ Notify(q) \/ NotifyAgain(q) PROVE FALSE
    BY <2>5 DEF RefuseOrder, AddLog, Notify, NotifyAgain, TypeInv, TypeOK
  <2>6. QED  BY <1>3, <2>2, <2>3, <2>4, <2>5 DEF Step
<1>4. QED  BY <1>1, <1>2, <1>3, SoloStep

(* What an entry among the first says does not depend on those that follow. *)
LEMMA LastOfStays ==
    ASSUME TypeInv, [Next]_vars, NEW CONSTANT o, NEW CONSTANT i, NEW CONSTANT n,
           i \in 1..Len(stream), n \in Nat, n <= Len(stream)
    PROVE  /\ LastOf(i, n, o)' <=> LastOf(i, n, o)
           /\ GivesStatus(i, o)' <=> GivesStatus(i, o)
<1>1. Len(stream) \in Nat  BY DEF TypeInv, TypeOK
<1>2. \A j \in 1..Len(stream) : stream'[j] = stream[j]  BY EntriesStay
<1>3. \A j \in (i + 1)..n : j \in 1..Len(stream)  BY <1>1
<1>4. QED  BY <1>2, <1>3 DEF LastOf, GivesStatus

(* A new order has no entries. *)
LEMMA NewIsUnknown ==
    ASSUME TypeInv, Known, [Next]_vars, NEW CONSTANT o, o \notin DOMAIN orders
    PROVE  /\ \A i \in 1..Len(stream) : ~GivesStatus(i, o)
           /\ \A m \in 1..Len(notified) : ~IsUpdate(m, o)
BY DEF Known, GivesStatus, IsUpdate

LEMMA ReplaysNext ==
    ASSUME TypeInv, Known, SeenIsLast, Replays, [Next]_vars
    PROVE  Replays'
<1> SUFFICES ASSUME NEW CONSTANT o, o \in DOMAIN orders',
                    NEW CONSTANT i, i \in 1..Len(stream'),
                    NEW CONSTANT n, n \in (i + 1)..Len(stream'),
                    LastOf(i, n - 1, o)', GivesStatus(n, o)', stream'[n].prev # None
             PROVE  stream'[n].prev = stream'[i].status
  BY DEF Replays
<1>1. Len(stream) \in Nat  BY DEF TypeInv, TypeOK
<1>2. CASE n <= Len(stream)
  <2>1. i \in 1..Len(stream) /\ n \in (i + 1)..Len(stream) /\ n - 1 \in Nat /\ n - 1 <= Len(stream)
        /\ n \in 1..Len(stream)
    BY <1>1, <1>2
  <2>2. stream'[n] = stream[n] /\ stream'[i] = stream[i]  BY <2>1, EntriesStay
  <2>3. LastOf(i, n - 1, o)  BY <2>1, LastOfStays
  <2>4. GivesStatus(n, o)  BY <2>2 DEF GivesStatus
  <2>5. o \in DOMAIN orders  BY <2>1, <2>4, NewIsUnknown
  <2>6. QED  BY <2>1, <2>2, <2>3, <2>4, <2>5 DEF Replays
<1>3. CASE ~(n <= Len(stream))
  <2>1. PICK r \in Requests : AddLog(r)
    <3>1. ~UNCHANGED stream  BY <1>1, <1>3
    <3>2. QED  BY <3>1, StreamGrows
  <2>2. /\ call[r] \in Calls /\ Len(stream') = Len(stream) + 1
        /\ stream'[Len(stream) + 1] = LogEntry(r)
    BY <2>1, AddLogAppends
  <2>3. n = Len(stream) + 1 /\ i \in 1..Len(stream) /\ n - 1 = Len(stream)
    BY <1>1, <1>3, <2>2
  <2>4. stream'[n] = LogEntry(r)  BY <2>2, <2>3
  <2>5. call[r].order = o /\ call[r].op \in {"cancel", "update"} /\ stream'[n].prev = seen[r]
    BY <2>4 DEF GivesStatus, LogEntry
  <2>6. stream'[i] = stream[i]  BY <2>3, EntriesStay
  <2>7. LastOf(i, Len(stream), o)  BY <1>1, <2>3, LastOfStays
  <2>8. pc[r] = "log"  BY <2>1 DEF AddLog
  <2>9. QED  BY <2>3, <2>5, <2>6, <2>7, <2>8 DEF SeenIsLast
<1>4. QED  BY <1>2, <1>3

(* A handler that owes the stream or the customer something still does,     *)
(* unless it has just paid.                                                  *)
LEMMA DebtStays ==
    ASSUME ~Faults, TypeInv, [Next]_vars, NEW r \in Requests, NEW CONSTANT o
    PROVE  /\ Unlogged(r, o) /\ ~AddLog(r) => Unlogged(r, o)'
           /\ Untold(r, o) /\ ~Notify(r) /\ ~NotifyAgain(r) => Untold(r, o)'
<1> USE DEF TypeInv, TypeOK, database, channels, locals, Goto
<1> SUFFICES ASSUME pc[r] \in {"log", "notify", "notify2"}, ~Notify(r), ~NotifyAgain(r)
             PROVE  /\ call'[r] = call[r]
                    /\ ~AddLog(r) => pc'[r] = pc[r]
                    /\ AddLog(r) => pc[r] = "log" /\ pc'[r] = "notify"
  <2>1. call'[r] = call[r] => (Target(r)' = Target(r))  BY DEF Target
  <2>2. ASSUME pc[r] = "log" PROVE ~Notify(r) /\ ~NotifyAgain(r)
    BY <2>2 DEF Notify, NotifyAgain
  <2>3. QED  BY <2>1, <2>2 DEF Unlogged, Untold
<1>1. call'[r] = call[r]  BY CallStays
<1>2. ASSUME NEW q \in Requests, q # r, Receive(q) \/ Step(q) \/ Abort(q)
      PROVE  pc'[r] = pc[r] /\ ~AddLog(r)
  <2>1. pc'[r] = pc[r]  BY <1>2, OtherStep
  <2>2. QED  BY <2>1 DEF AddLog
<1>3. ASSUME Step(r) PROVE AddLog(r) /\ pc'[r] = "notify" /\ pc[r] = "log"
  <2>1. AddLog(r)
    BY <1>3 DEF Step, CheckProduct, InsertOrder, InsertItems, TakeStock, InsertPayment,
           RefuseOrder, FindOrder, SettlePayment, LoadItems, RestoreStock, SetStatus
  <2>2. QED  BY <2>1 DEF AddLog
<1>4. ASSUME Receive(r) \/ Abort(r) PROVE FALSE
  BY <1>4 DEF Receive, StartCreate, StartPay, StartCancel, StartUpdate, Start, Abort
<1>5. ASSUME UNCHANGED pc PROVE pc'[r] = pc[r] /\ ~AddLog(r)
  BY <1>5 DEF AddLog
<1>6. ASSUME NEW p \in Products, RemoveProduct(p) PROVE UNCHANGED pc
  BY <1>6 DEF RemoveProduct
<1>7. QED  BY <1>1, <1>2, <1>3, <1>4, <1>5, <1>6 DEF Next, Rest, vars

LEMMA LastIsStatusNext ==
    ASSUME ~Faults, MaxInFlight = 1, TypeInv, Solo, Known, Written, LastIsStatus, [Next]_vars
    PROVE  LastIsStatus'
<1> SUFFICES ASSUME NEW CONSTANT o, o \in DOMAIN orders',
                    NEW CONSTANT i, i \in 1..Len(stream'),
                    LastOf(i, Len(stream), o)'
             PROVE  stream'[i].status = orders'[o].status \/ \E r \in Requests : Unlogged(r, o)'
  BY DEF LastIsStatus
<1> USE DEF database, channels, locals, Goto
<1>1. Len(stream) \in Nat  BY DEF TypeInv, TypeOK
<1>2. ASSUME NEW r \in Requests, SetStatus(r), call[r].order = o
      PROVE  Unlogged(r, o)'
  <2>1. pc[r] \in Points /\ call[r].op # "create" /\ call[r] \in Calls
    BY <1>2 DEF SetStatus, TypeInv, TypeOK, Control, Points, OpsAt
  <2>2. o \in DOMAIN orders  BY <1>2, <2>1 DEF Known
  <2>3. pc'[r] = "log" /\ call' = call  BY <1>2, <2>2, SetStatusWrites
  <2>4. Target(r) # None
    BY <1>2, <2>1, TargetType DEF SetStatus, TypeInv, Control, Points, OpsAt
  <2>5. QED  BY <1>2, <2>3, <2>4 DEF Unlogged, Target
<1>3. ASSUME InsertOrder(o), o \in Requests PROVE FALSE
  <2>1. o \notin DOMAIN orders  BY <1>3 DEF InsertOrder, Known
  <2>2. UNCHANGED stream  BY <1>3 DEF InsertOrder
  <2>3. QED  BY <2>1, <2>2, NewIsUnknown DEF LastOf, GivesStatus
<1>4. CASE o \in DOMAIN orders /\ orders'[o].status = orders[o].status
  <2>1. CASE UNCHANGED stream
    <3>1. LastOf(i, Len(stream), o) /\ i \in 1..Len(stream)
      BY <2>1 DEF LastOf, GivesStatus
    <3>2. stream[i].status = orders[o].status \/ \E r \in Requests : Unlogged(r, o)
      BY <1>4, <3>1 DEF LastIsStatus
    <3>3. \A r \in Requests : ~AddLog(r)
      BY <1>1, <2>1, AddLogAppends
    <3>4. QED  BY <1>4, <2>1, <3>2, <3>3, DebtStays
  <2>2. ASSUME NEW r \in Requests, AddLog(r)
        PROVE  stream'[i].status = orders'[o].status
    <3>1. /\ call[r] \in Calls /\ Len(stream') = Len(stream) + 1
          /\ stream'[Len(stream) + 1] = LogEntry(r)
      BY <2>2, AddLogAppends
    <3>2. LogEntry(r).order = call[r].order /\ LogEntry(r).status = Target(r)
      BY DEF LogEntry
    <3>3. CASE i = Len(stream) + 1
      <4>1. call[r].order = o /\ Target(r) # None /\ stream'[i].status = Target(r)
        BY <3>1, <3>2, <3>3 DEF LastOf, GivesStatus
      <4>2. orders[o].status = Target(r)
        BY <2>2, <4>1 DEF Written, AddLog
      <4>3. QED  BY <1>4, <4>1, <4>2
    <3>4. CASE i # Len(stream) + 1
      <4>1. i \in 1..Len(stream)  BY <1>1, <3>1, <3>4
      <4>2. Len(stream) + 1 \in (i + 1)..Len(stream')  BY <1>1, <3>1, <4>1
      <4>3. ~(call[r].order = o /\ Target(r) # None)
        BY <3>1, <3>2, <4>2 DEF LastOf, GivesStatus
      <4>4. \A q \in Requests : ~Unlogged(q, o)
        BY <2>2, <4>3, OnlyOne DEF Unlogged, Points, Step
      <4>5. LastOf(i, Len(stream), o)
        <5>1. GivesStatus(i, o)' /\ \A j \in (i + 1)..Len(stream) : ~GivesStatus(j, o)'
          BY <1>1, <3>1, <4>1 DEF LastOf
        <5>2. \A j \in 1..Len(stream) : stream'[j] = stream[j]  BY EntriesStay
        <5>3. \A j \in (i + 1)..Len(stream) : j \in 1..Len(stream)  BY <1>1, <4>1
        <5>4. QED  BY <4>1, <5>1, <5>2, <5>3 DEF LastOf, GivesStatus
      <4>6. stream'[i] = stream[i]  BY <4>1, EntriesStay
      <4>7. QED  BY <1>4, <4>1, <4>4, <4>5, <4>6 DEF LastIsStatus
    <3>5. QED  BY <3>3, <3>4
  <2>3. QED  BY <2>1, <2>2, StreamGrows
<1>5. QED  BY <1>2, <1>3, <1>4, StatusChanges

(* Notifications: the same argument over what customers are sent. *)
LEMMA ToldIsStatusNext ==
    ASSUME ~Faults, MaxInFlight = 1, TypeInv, Solo, Known, Written, ToldIsStatus, [Next]_vars
    PROVE  ToldIsStatus'
<1> SUFFICES ASSUME NEW CONSTANT o, o \in DOMAIN orders',
                    NEW CONSTANT m, m \in 1..Len(notified'),
                    LastUpdate(m, o)'
             PROVE  notified'[m].status = orders'[o].status \/ \E r \in Requests : Untold(r, o)'
  BY DEF ToldIsStatus
<1> USE DEF database, channels, locals, Goto
<1>1. Len(notified) \in Nat /\ notified \in Seq(Message)  BY DEF TypeInv, TypeOK
<1>2. ASSUME NEW r \in Requests, SetStatus(r), call[r].order = o
      PROVE  Untold(r, o)'
  <2>1. pc[r] \in Points /\ call[r].op # "create" /\ call[r] \in Calls
    BY <1>2 DEF SetStatus, TypeInv, TypeOK, Control, Points, OpsAt
  <2>2. o \in DOMAIN orders  BY <1>2, <2>1 DEF Known
  <2>3. pc'[r] = "log" /\ call' = call  BY <1>2, <2>2, SetStatusWrites
  <2>4. Target(r) # None
    BY <1>2, <2>1, TargetType DEF SetStatus, TypeInv, Control, Points, OpsAt
  <2>5. QED  BY <1>2, <2>3, <2>4 DEF Untold, Target
<1>3. ASSUME InsertOrder(o), o \in Requests PROVE FALSE
  <2>1. o \notin DOMAIN orders  BY <1>3 DEF InsertOrder, Known
  <2>2. UNCHANGED notified  BY <1>3 DEF InsertOrder
  <2>3. QED  BY <2>1, <2>2, NewIsUnknown DEF LastUpdate, IsUpdate
<1>4. CASE o \in DOMAIN orders /\ orders'[o].status = orders[o].status
  <2>1. CASE UNCHANGED notified
    <3>1. LastUpdate(m, o) /\ m \in 1..Len(notified)
      BY <2>1 DEF LastUpdate, IsUpdate
    <3>2. notified[m].status = orders[o].status \/ \E r \in Requests : Untold(r, o)
      BY <1>4, <3>1 DEF ToldIsStatus
    <3>3. \A r \in Requests : ~Notify(r) /\ ~NotifyAgain(r)
      <4>1. ASSUME NEW r \in Requests, Notify(r) \/ NotifyAgain(r) PROVE FALSE
        <5>1. PICK message \in Message : notified' = Append(notified, message)
          BY <4>1, SentMessage DEF Notify, NotifyAgain
        <5>2. QED  BY <1>1, <2>1, <5>1
      <4>2. QED  BY <4>1
    <3>4. QED  BY <1>4, <2>1, <3>2, <3>3, DebtStays
  <2>2. ASSUME NEW r \in Requests, NEW message \in Message, Notify(r) \/ NotifyAgain(r),
               notified' = Append(notified, message), message.order = call[r].order,
               message.type = "ORDER_UPDATE" => message.status = Target(r) /\ Target(r) # None,
               message.type # "ORDER_UPDATE" => \A q : Untold(r, q) => Untold(r, q)'
        PROVE  notified'[m].status = orders'[o].status \/ Untold(r, o)'
    <3>1. Len(notified') = Len(notified) + 1 /\ notified'[Len(notified) + 1] = message
          /\ \A n \in 1..Len(notified) : notified'[n] = notified[n]
      BY <1>1, <2>2
    <3>2. CASE m = Len(notified) + 1
      <4>1. call[r].order = o /\ message.type = "ORDER_UPDATE" /\ notified'[m] = message
        BY <2>2, <3>1, <3>2 DEF LastUpdate, IsUpdate
      <4>2. orders[o].status = Target(r)
        BY <2>2, <4>1 DEF Written, Notify, NotifyAgain
      <4>3. QED  BY <1>4, <2>2, <4>1, <4>2
    <3>3. CASE m # Len(notified) + 1
      <4>1. m \in 1..Len(notified)  BY <1>1, <3>1, <3>3
      <4>2. Len(notified) + 1 \in (m + 1)..Len(notified')  BY <1>1, <3>1, <4>1
      <4>3. message.order # o \/ message.type # "ORDER_UPDATE"
        BY <3>1, <4>2 DEF LastUpdate, IsUpdate
      <4>4. LastUpdate(m, o)
        <5>1. IsUpdate(m, o)' /\ \A n \in (m + 1)..Len(notified) : ~IsUpdate(n, o)'
          BY <1>1, <3>1, <4>1 DEF LastUpdate
        <5>2. \A n \in (m + 1)..Len(notified) : n \in 1..Len(notified)  BY <1>1, <4>1
        <5>3. QED  BY <3>1, <4>1, <5>1, <5>2 DEF LastUpdate, IsUpdate
      <4>5. notified'[m] = notified[m]  BY <3>1, <4>1
      <4>6. \A q \in Requests : Untold(q, o) => q = r
        <5>1. Step(r)  BY <2>2 DEF Step
        <5>2. ASSUME NEW q \in Requests, Untold(q, o) PROVE pc[q] \in Points
          BY <5>2 DEF Untold, Points
        <5>3. QED  BY <5>1, <5>2, OnlyOne
      <4>7. Untold(r, o) => Untold(r, o)'
        <5>1. Untold(r, o) => call[r].order = o  BY DEF Untold
        <5>2. QED  BY <2>2, <4>3, <5>1
      <4>8. notified[m].status = orders[o].status \/ \E q \in Requests : Untold(q, o)
        BY <1>4, <4>1, <4>4 DEF ToldIsStatus
      <4>9. QED  BY <1>4, <4>5, <4>6, <4>7, <4>8
    <3>4. QED  BY <3>2, <3>3
  <2>3. ASSUME NEW r \in Requests, Notify(r) \/ NotifyAgain(r)
        PROVE  notified'[m].status = orders'[o].status \/ Untold(r, o)'
    <3>1. call[r] \in Calls /\ call' = call /\ pc[r] \in {"notify", "notify2"}
      BY <2>3 DEF Notify, NotifyAgain, TypeInv, TypeOK
    <3>2. Target(r)' = Target(r)  BY <3>1 DEF Target
    <3>3. Target(r) = None <=> call[r].op = "pay" /\ call[r].outcome = "FAILED"
      BY <3>1, TargetType DEF TypeInv
    <3>4. CASE Notify(r)
      <4>1. pc[r] = "notify" /\ pc'[r] = (IF HasSecondMessage(r) THEN "notify2" ELSE "done")
            /\ notified' = Append(notified, FirstMessage(r))
        BY <3>4 DEF Notify, TypeInv, TypeOK
      <4>2. /\ FirstMessage(r) \in Message /\ FirstMessage(r).order = call[r].order
            /\ FirstMessage(r).type = "ORDER_UPDATE" <=> call[r].op # "pay"
            /\ call[r].op # "pay" => FirstMessage(r).status = Target(r)
        BY <3>4, SentMessage
      <4>3. \A q : Untold(r, q) <=> call[r].order = q /\ Target(r) # None
        BY <4>1 DEF Untold
      <4>4. \A q : Untold(r, q)' <=> call[r].order = q /\ Target(r) # None /\ call[r].op = "pay"
        BY <3>1, <3>2, <3>3, <4>1, CallShape DEF Untold, HasSecondMessage
      <4>5. QED  BY <2>2, <3>3, <3>4, <4>1, <4>2, <4>3, <4>4
    <3>5. CASE NotifyAgain(r)
      <4>1. pc[r] = "notify2" /\ pc'[r] = "done"
            /\ notified' = Append(notified, SecondMessage(r))
        BY <3>5 DEF NotifyAgain, TypeInv, TypeOK
      <4>2. /\ SecondMessage(r) \in Message /\ SecondMessage(r).order = call[r].order
            /\ SecondMessage(r).type = "ORDER_UPDATE" <=> call[r].op = "pay"
            /\ call[r].op = "pay" => SecondMessage(r).status = Target(r)
        BY <3>5, SentMessage
      <4>3. Target(r) # None
        BY <3>3, <4>1 DEF TypeInv, Control
      <4>4. \A q : Untold(r, q) <=> call[r].order = q /\ call[r].op = "pay"
        BY <4>1, <4>3 DEF Untold
      <4>5. \A q : ~Untold(r, q)'
        BY <4>1 DEF Untold
      <4>6. QED  BY <2>2, <3>5, <4>1, <4>2, <4>3, <4>4, <4>5
    <3>6. QED  BY <2>3, <3>4, <3>5
  <2>4. QED  BY <2>1, <2>3, NotifiedGrows
<1>5. QED  BY <1>2, <1>3, <1>4, StatusChanges

(* The strengthening of the two properties, when handlers do not overlap.   *)
SoloInv ==
    /\ Solo /\ Known /\ TrailInv
    /\ \A r \in Requests : Progress(r)

LEMMA SoloTrail ==
    ASSUME MaxInFlight = 1, ~Faults
    PROVE  Spec => []SoloInv
<1>1. Init => SoloInv
  <2> SUFFICES ASSUME Init PROVE SoloInv
    OBVIOUS
  <2>1. InFlight = {}  BY DEF Init, InFlight
  <2>2. Solo  BY <2>1, FS_EmptySet DEF Solo
  <2>3. Known
    BY DEF Init, Known, NoRows, Points
  <2>4. TrailInv
    BY DEF Init, TrailInv, Written, SeenIsLast, Replays, LastIsStatus, ToldIsStatus, NoRows
  <2>5. \A r \in Requests : Progress(r)
    BY DEF Init, Progress, NoCall, None
  <2>6. QED  BY <2>2, <2>3, <2>4, <2>5 DEF SoloInv
<1>2. TypeInv /\ SoloInv /\ [Next]_vars => SoloInv'
  <2> SUFFICES ASSUME TypeInv, SoloInv, [Next]_vars PROVE SoloInv'
    OBVIOUS
  <2> USE DEF SoloInv, TrailInv
  <2>1. Solo'  BY SoloNext
  <2>2. Known'  BY KnownNext
  <2>3. (\A r \in Requests : Progress(r))'  BY ProgressNext
  <2>4. Written'  BY WrittenNext
  <2>5. SeenIsLast'  BY SeenIsLastNext
  <2>6. Replays'  BY ReplaysNext
  <2>7. LastIsStatus'  BY LastIsStatusNext
  <2>8. ToldIsStatus'  BY ToldIsStatusNext
  <2>9. QED  BY <2>1, <2>2, <2>3, <2>4, <2>5, <2>6, <2>7, <2>8
<1>3. Spec => []TypeInv  BY TypeCorrect, PTL DEF TypeInv
<1>4. QED  BY <1>1, <1>2, <1>3, PTL DEF Spec

(* AuditReplays: when handlers do not overlap and no call fails, each        *)
(* previousStatus in the stream is what its predecessor left, and at rest    *)
(* the last entry of an order gives the status of its row.                   *)
THEOREM AuditTrailReplays == MaxInFlight = 1 /\ ~Faults => (Spec => []AuditReplays)
<1> SUFFICES ASSUME MaxInFlight = 1, ~Faults PROVE Spec => []AuditReplays
  OBVIOUS
<1>1. SoloInv => AuditReplays
  <2> SUFFICES ASSUME SoloInv PROVE AuditReplays
    OBVIOUS
  <2>1. ASSUME Quiet PROVE \A r \in Requests : \A o : ~Unlogged(r, o)
    BY <2>1 DEF Quiet, Terminal, Unlogged
  <2>2. QED  BY <2>1 DEF SoloInv, TrailInv, Replays, LastIsStatus, AuditReplays
<1>2. QED  BY <1>1, SoloTrail, PTL

(* CustomerIsUpToDate: then too, what the customer was last told of an order *)
(* is its status.                                                            *)
THEOREM CustomersAreUpToDate == MaxInFlight = 1 /\ ~Faults => (Spec => []CustomerIsUpToDate)
<1> SUFFICES ASSUME MaxInFlight = 1, ~Faults PROVE Spec => []CustomerIsUpToDate
  OBVIOUS
<1>1. SoloInv => CustomerIsUpToDate
  <2> SUFFICES ASSUME SoloInv, Quiet PROVE CustomerIsUpToDate
    BY DEF CustomerIsUpToDate
  <2>1. \A r \in Requests : \A o : ~Untold(r, o)
    BY DEF Quiet, Terminal, Untold
  <2>2. QED  BY <2>1 DEF SoloInv, TrailInv, ToldIsStatus, LastUpdate, CustomerIsUpToDate
<1>2. QED  BY <1>1, SoloTrail, PTL

=============================================================================
