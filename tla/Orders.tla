------------------------------- MODULE Orders -------------------------------
(***************************************************************************)
(* The order lifecycle of the NestJS service (orders.service.ts): placing, *)
(* paying, cancelling and administering orders over the PostgreSQL tables  *)
(* products, orders, order_items and payments, with the audit stream       *)
(* (order-logs.queue.ts) and the notifications each handler sends.         *)
(*                                                                         *)
(* No handler opens a transaction, so every awaited call is a step of its  *)
(* own, and two replicas of the service run handlers side by side.  A      *)
(* member of Requests is one HTTP request; the uuid of the order that a    *)
(* POST /orders inserts is identified with the request that inserted it.   *)
(* Prices, addresses, methods and texts are left out.                      *)
(***************************************************************************)
EXTENDS Integers, Sequences, FiniteSets

CONSTANTS
    Products,      \* product uuids
    Users,         \* customers
    Requests,      \* HTTP requests, each used once: bounds the number of calls
    Carts,         \* the item lists a POST /orders body may carry
    InitialStock,  \* products.stock at the start
    MaxInFlight,   \* handlers that may be suspended at the same time
    Faults         \* whether an awaited call may throw, or the pod die

Line == [product : Products, quantity : Nat \ {0}]

ASSUME CartsAssumption == Carts \subseteq Seq(Line)
ASSUME InitialStockAssumption == InitialStock \in [Products -> Nat]
ASSUME MaxInFlightAssumption == MaxInFlight \in Nat
ASSUME FaultsAssumption == Faults \in BOOLEAN

VARIABLES
    stock,     \* products: id -> stock, for the rows that exist
    orders,    \* orders: id -> [user, status]
    items,     \* order_items: order id -> the lines inserted for it
    payments,  \* payments: order id -> status of the one row inserted for it
    stream,    \* the Redis stream order-logs:events
    notified,  \* what NotificationsService.publish has sent, in order
    pc,        \* where the handler of a request is suspended
    call,      \* the request's parameters
    lines,     \* the item list the handler iterates over
    k,         \* its position in that list
    seen       \* the order status its first SELECT returned

database == <<stock, orders, items, payments>>
channels == <<stream, notified>>
locals   == <<call, lines, k, seen>>
vars     == <<database, channels, pc, locals>>

Statuses        == {"PENDING", "PROCESSING", "SHIPPED", "DELIVERED", "CANCELLED"}
PaymentStatuses == {"PENDING", "SUCCESS", "FAILED"}
None            == "none"

CreateCall == [op : {"create"}, user : Users, order : Requests, items : Carts]
PayCall    == [op : {"pay"}, user : Users, order : Requests,
               outcome : {"SUCCESS", "FAILED"}]
CancelCall == [op : {"cancel"}, user : Users, order : Requests]
UpdateCall == [op : {"update"}, order : Requests, to : Statuses]
NoCall     == [op |-> None]
Calls      == CreateCall \cup PayCall \cup CancelCall \cup UpdateCall

Event   == [type : {"ORDER_CREATED", "PAYMENT_SUCCESS", "PAYMENT_FAILED",
                    "ORDER_CANCELLED", "STATUS_CHANGED"},
            order : Requests, prev : Statuses \cup {None}, status : Statuses \cup {None}]
Message == [type : {"ORDER_UPDATE", "PAYMENT", "SYSTEM"},
            order : Requests, status : Statuses \cup PaymentStatuses]

Terminal == {"done", "rejected", "failed"}
Points   == {"check", "items", "take", "find", "settle", "load", "restore",
             "status", "log", "notify", "notify2"}

TypeOK ==
    /\ DOMAIN stock \subseteq Products
    /\ stock \in [DOMAIN stock -> Int]
    /\ DOMAIN orders \subseteq Requests
    /\ orders \in [DOMAIN orders -> [user : Users, status : Statuses]]
    /\ DOMAIN items \subseteq Requests
    /\ items \in [DOMAIN items -> Seq(Line)]
    /\ DOMAIN payments \subseteq Requests
    /\ payments \in [DOMAIN payments -> PaymentStatuses]
    /\ stream \in Seq(Event)
    /\ notified \in Seq(Message)
    /\ pc \in [Requests -> Points \cup Terminal \cup {"idle"}]
    /\ call \in [Requests -> Calls \cup {NoCall}]
    /\ \A r \in Requests : pc[r] # "idle" => call[r] \in Calls
    /\ lines \in [Requests -> Seq(Line)]
    /\ k \in [Requests -> Nat \ {0}]
    /\ seen \in [Requests -> Statuses \cup {None}]

-----------------------------------------------------------------------------
(* Tables. *)

NoRows == [id \in {} |-> None]

\* INSERT ... VALUES of a row with a fresh key.
Insert(table, id, row) ==
    [i \in DOMAIN table \cup {id} |-> IF i = id THEN row ELSE table[i]]

\* UPDATE ... SET ... WHERE key = id: no effect when no row matches.
Update(table, id, row) ==
    [i \in DOMAIN table |-> IF i = id THEN row ELSE table[i]]

\* Mutant: the UPDATE writes a value computed from an earlier read.
AddStockFromSnapshot(p, delta) ==
    [q \in DOMAIN stock |-> IF q = p THEN InitialStock[q] + delta ELSE stock[q]]

\* UPDATE products SET stock = stock + delta, evaluated inside the database.
AddStock(p, delta) ==
    [q \in DOMAIN stock |-> IF q = p THEN stock[q] + delta ELSE stock[q]]

-----------------------------------------------------------------------------
(* What a handler writes to the audit stream and sends as notifications. *)

\* The status a handler gives its order, None when it gives none.
Target(r) ==
    CASE call[r].op = "create" -> "PENDING"
      [] call[r].op = "pay" /\ call[r].outcome = "SUCCESS" -> "PROCESSING"
      [] call[r].op = "pay" /\ call[r].outcome = "FAILED" -> None
      [] call[r].op = "cancel" -> "CANCELLED"
      [] call[r].op = "update" -> call[r].to

LogType(r) ==
    CASE call[r].op = "create" -> "ORDER_CREATED"
      [] call[r].op = "pay" /\ call[r].outcome = "SUCCESS" -> "PAYMENT_SUCCESS"
      [] call[r].op = "pay" /\ call[r].outcome = "FAILED" -> "PAYMENT_FAILED"
      [] call[r].op = "cancel" -> "ORDER_CANCELLED"
      [] call[r].op = "update" -> "STATUS_CHANGED"

\* Mutant: previousStatus is taken after the update.
LogEntryRereadsStatus(r) ==
    [type   |-> LogType(r),
     order  |-> call[r].order,
     prev   |-> IF call[r].op \in {"cancel", "update"}
                THEN orders[call[r].order].status ELSE None,
     status |-> Target(r)]

\* metadata.previousStatus is logged by cancel and updateStatus only.
LogEntry(r) ==
    [type   |-> LogType(r),
     order  |-> call[r].order,
     prev   |-> IF call[r].op \in {"cancel", "update"} THEN seen[r] ELSE None,
     status |-> Target(r)]

OrderUpdate(r) == [type |-> "ORDER_UPDATE", order |-> call[r].order, status |-> Target(r)]
AdminNotice(r) == [type |-> "SYSTEM", order |-> call[r].order, status |-> Target(r)]
PaymentNotice(r) == [type |-> "PAYMENT", order |-> call[r].order,
                     status |-> call[r].outcome]

FirstMessage(r) == IF call[r].op = "pay" THEN PaymentNotice(r) ELSE OrderUpdate(r)

\* Mutant: a successful payment sends the payment notice only.
OnlyUpdatesSendTwo(r) == call[r].op = "update"

HasSecondMessage(r) ==
    \/ call[r].op = "pay" /\ call[r].outcome = "SUCCESS"
    \/ call[r].op = "update"

SecondMessage(r) == IF call[r].op = "pay" THEN OrderUpdate(r) ELSE AdminNotice(r)

-----------------------------------------------------------------------------
Init ==
    /\ stock = InitialStock
    /\ orders = NoRows /\ items = NoRows /\ payments = NoRows
    /\ stream = << >> /\ notified = << >>
    /\ pc = [r \in Requests |-> "idle"]
    /\ call = [r \in Requests |-> NoCall]
    /\ lines = [r \in Requests |-> << >>]
    /\ k = [r \in Requests |-> 1]
    /\ seen = [r \in Requests |-> None]

Goto(r, point) == pc' = [pc EXCEPT ![r] = point]

InFlight == {r \in Requests : pc[r] \notin Terminal \cup {"idle"}}

\* A request reaches its handler.
Start(r, c, point) ==
    /\ pc[r] = "idle"
    /\ Cardinality(InFlight) < MaxInFlight
    /\ call' = [call EXCEPT ![r] = c]
    /\ Goto(r, point)
    /\ UNCHANGED <<database, channels, k, seen>>

StartCreate(r) ==
    \E u \in Users, cart \in Carts :
        /\ Start(r, [op |-> "create", user |-> u, order |-> r, items |-> cart], "check")
        /\ lines' = [lines EXCEPT ![r] = cart]

StartPay(r) ==
    \E u \in Users, o \in DOMAIN orders, outcome \in {"SUCCESS", "FAILED"} :
        /\ Start(r, [op |-> "pay", user |-> u, order |-> o, outcome |-> outcome], "find")
        /\ UNCHANGED lines

StartCancel(r) ==
    \E u \in Users, o \in DOMAIN orders :
        /\ Start(r, [op |-> "cancel", user |-> u, order |-> o], "find")
        /\ UNCHANGED lines

StartUpdate(r) ==
    \E o \in DOMAIN orders, to \in Statuses :
        /\ Start(r, [op |-> "update", order |-> o, to |-> to], "find")
        /\ UNCHANGED lines

-----------------------------------------------------------------------------
(* POST /orders *)

Available(line) ==
    line.product \in DOMAIN stock /\ stock[line.product] >= line.quantity

\* One SELECT of the validation loop; a missing product or too little stock
\* answers 400.
CheckProduct(r) ==
    /\ pc[r] = "check"
    /\ k[r] <= Len(lines[r])
    /\ \/ /\ Available(lines[r][k[r]])
          /\ k' = [k EXCEPT ![r] = @ + 1]
          /\ UNCHANGED pc
       \/ /\ ~Available(lines[r][k[r]])
          /\ Goto(r, "rejected")
          /\ UNCHANGED k
    /\ UNCHANGED <<database, channels, call, lines, seen>>

\* Mutant: the creation is logged as soon as the order row exists.
InsertOrderThenLog(r) ==
    /\ pc[r] = "check"
    /\ k[r] > Len(lines[r])
    /\ orders' = Insert(orders, r, [user |-> call[r].user, status |-> "PENDING"])
    /\ Goto(r, "log")
    /\ UNCHANGED <<stock, items, payments, channels, locals>>

InsertOrder(r) ==
    /\ pc[r] = "check"
    /\ k[r] > Len(lines[r])
    /\ orders' = Insert(orders, r, [user |-> call[r].user, status |-> "PENDING"])
    /\ Goto(r, "items")
    /\ UNCHANGED <<stock, items, payments, channels, locals>>

\* One INSERT of all lines.  It throws when there is no line to insert, and
\* when the foreign key finds no product.
InsertItems(r) ==
    /\ pc[r] = "items"
    /\ LET insertable == /\ lines[r] # << >>
                         /\ \A i \in 1..Len(lines[r]) :
                                lines[r][i].product \in DOMAIN stock
       IN  \/ /\ insertable
              /\ items' = Insert(items, r, lines[r])
              /\ k' = [k EXCEPT ![r] = 1]
              /\ Goto(r, "take")
           \/ /\ ~insertable
              /\ Goto(r, "failed")
              /\ UNCHANGED <<items, k>>
    /\ UNCHANGED <<stock, orders, payments, channels, call, lines, seen>>

TakeStock(r) ==
    /\ pc[r] = "take"
    /\ k[r] <= Len(lines[r])
    /\ stock' = AddStock(lines[r][k[r]].product, -lines[r][k[r]].quantity)
    /\ k' = [k EXCEPT ![r] = @ + 1]
    /\ UNCHANGED <<orders, items, payments, channels, pc, call, lines, seen>>

\* Mutant: the handler returns after the payment row.
InsertPaymentAndReturn(r) ==
    /\ pc[r] = "take"
    /\ k[r] > Len(lines[r])
    /\ payments' = Insert(payments, r, "PENDING")
    /\ Goto(r, "done")
    /\ UNCHANGED <<stock, orders, items, channels, locals>>

InsertPayment(r) ==
    /\ pc[r] = "take"
    /\ k[r] > Len(lines[r])
    /\ payments' = Insert(payments, r, "PENDING")
    /\ Goto(r, "log")
    /\ UNCHANGED <<stock, orders, items, channels, locals>>

-----------------------------------------------------------------------------
(* The SELECT that opens POST /orders/:id/pay, POST /orders/:id/cancel and *)
(* PUT /orders/:id/status: the customers' handlers match the order's user, *)
(* the admin's does not.                                                   *)

Visible(r) ==
    /\ call[r].order \in DOMAIN orders
    /\ call[r].op = "update" \/ orders[call[r].order].user = call[r].user

Refused(r) ==
    \/ ~Visible(r)
    \/ call[r].op = "cancel" /\ orders[call[r].order].status \in {"SHIPPED", "DELIVERED"}

AfterFind(r) ==
    CASE call[r].op = "pay" -> "settle"
      [] call[r].op = "cancel" -> "load"
      [] call[r].op = "update" -> "status"

RefuseOrder(r) ==
    /\ pc[r] = "find"
    /\ Refused(r)
    /\ Goto(r, "rejected")
    /\ UNCHANGED <<database, channels, locals>>

FindOrder(r) ==
    /\ pc[r] = "find"
    /\ ~Refused(r)
    /\ seen' = [seen EXCEPT ![r] = orders[call[r].order].status]
    /\ Goto(r, AfterFind(r))
    /\ UNCHANGED <<database, channels, call, lines, k>>

-----------------------------------------------------------------------------
(* POST /orders/:id/pay *)

\* Mutant: a failed payment is not logged.
SettlePaymentQuietly(r) ==
    /\ pc[r] = "settle"
    /\ payments' = Update(payments, call[r].order, call[r].outcome)
    /\ Goto(r, IF call[r].outcome = "SUCCESS" THEN "status" ELSE "notify")
    /\ UNCHANGED <<stock, orders, items, channels, locals>>

\* UPDATE payments; the outcome is Math.random() > 0.1.
SettlePayment(r) ==
    /\ pc[r] = "settle"
    /\ payments' = Update(payments, call[r].order, call[r].outcome)
    /\ Goto(r, IF call[r].outcome = "SUCCESS" THEN "status" ELSE "log")
    /\ UNCHANGED <<stock, orders, items, channels, locals>>

-----------------------------------------------------------------------------
(* POST /orders/:id/cancel *)

LoadItems(r) ==
    /\ pc[r] = "load"
    /\ lines' = [lines EXCEPT ![r] = IF call[r].order \in DOMAIN items
                                     THEN items[call[r].order] ELSE << >>]
    /\ Goto(r, "restore")
    /\ UNCHANGED <<database, channels, call, k, seen>>

RestoreStock(r) ==
    /\ pc[r] = "restore"
    /\ k[r] <= Len(lines[r])
    /\ stock' = AddStock(lines[r][k[r]].product, lines[r][k[r]].quantity)
    /\ k' = [k EXCEPT ![r] = @ + 1]
    /\ UNCHANGED <<orders, items, payments, channels, pc, call, lines, seen>>

-----------------------------------------------------------------------------
(* The ends the handlers share. *)

\* Mutant: the customer and the admin are told, nothing is logged.
SetStatusUnlogged(r) ==
    /\ \/ pc[r] = "status"
       \/ pc[r] = "restore" /\ k[r] > Len(lines[r])
    /\ orders' = Update(orders, call[r].order,
                        [orders[call[r].order] EXCEPT !.status = Target(r)])
    /\ Goto(r, "notify")
    /\ UNCHANGED <<stock, items, payments, channels, locals>>

\* Mutant: the payment handler writes the outcome of the payment to the order.
SetStatusToOutcome(r) ==
    /\ \/ pc[r] = "status"
       \/ pc[r] = "restore" /\ k[r] > Len(lines[r])
    /\ orders' = Update(orders, call[r].order,
                        [orders[call[r].order] EXCEPT !.status =
                            IF call[r].op = "pay" THEN call[r].outcome ELSE Target(r)])
    /\ Goto(r, "log")
    /\ UNCHANGED <<stock, items, payments, channels, locals>>

\* UPDATE orders SET status: the payment handler after the payment, cancel
\* after its last line, updateStatus at once.
SetStatus(r) ==
    /\ \/ pc[r] = "status"
       \/ pc[r] = "restore" /\ k[r] > Len(lines[r])
    /\ orders' = Update(orders, call[r].order,
                        [orders[call[r].order] EXCEPT !.status = Target(r)])
    /\ Goto(r, "log")
    /\ UNCHANGED <<stock, items, payments, channels, locals>>

\* OrderLogsQueue.addLog: XADD.
AddLog(r) ==
    /\ pc[r] = "log"
    /\ stream' = Append(stream, LogEntry(r))
    /\ Goto(r, "notify")
    /\ UNCHANGED <<database, notified, locals>>

\* NotificationsService.publish, up to and including the gRPC call whose
\* errors it swallows.
Notify(r) ==
    /\ pc[r] = "notify"
    /\ notified' = Append(notified, FirstMessage(r))
    /\ Goto(r, IF HasSecondMessage(r) THEN "notify2" ELSE "done")
    /\ UNCHANGED <<database, stream, locals>>

NotifyAgain(r) ==
    /\ pc[r] = "notify2"
    /\ notified' = Append(notified, SecondMessage(r))
    /\ Goto(r, "done")
    /\ UNCHANGED <<database, stream, locals>>

-----------------------------------------------------------------------------
(* Around the handlers. *)

\* The call a handler awaits throws, or its pod is killed: the request ends
\* where it stands and nothing is rolled back.
Abort(r) ==
    /\ Faults
    /\ pc[r] \in Points
    /\ Goto(r, "failed")
    /\ UNCHANGED <<database, channels, locals>>

\* DELETE FROM products (products.service.ts), which the foreign key of
\* order_items refuses while a line names the product.
RemoveProduct(p) ==
    /\ p \in DOMAIN stock
    /\ \A o \in DOMAIN items : \A i \in 1..Len(items[o]) : items[o][i].product # p
    /\ stock' = [q \in DOMAIN stock \ {p} |-> stock[q]]
    /\ UNCHANGED <<orders, items, payments, channels, pc, locals>>

\* No request is outstanding; a deadlock is a handler that cannot go on.
Quiet == \A r \in Requests : pc[r] \in Terminal \cup {"idle"}
Rest  == Quiet /\ UNCHANGED vars

Receive(r) == StartCreate(r) \/ StartPay(r) \/ StartCancel(r) \/ StartUpdate(r)

Step(r) ==
    \/ CheckProduct(r) \/ InsertOrder(r) \/ InsertItems(r)
    \/ TakeStock(r) \/ InsertPayment(r)
    \/ RefuseOrder(r) \/ FindOrder(r) \/ SettlePayment(r)
    \/ LoadItems(r) \/ RestoreStock(r)
    \/ SetStatus(r) \/ AddLog(r) \/ Notify(r) \/ NotifyAgain(r)

Next ==
    \/ \E r \in Requests : Receive(r) \/ Step(r) \/ Abort(r)
    \/ \E p \in Products : RemoveProduct(p)
    \/ Rest

Spec == Init /\ [][Next]_vars

\* The event loop resumes every suspended handler.
FairSpec == Spec /\ \A r \in Requests : WF_vars(Step(r))

-----------------------------------------------------------------------------
(* Properties of every interleaving, with faults. *)

\* The units of product p in the first n lines of the list of request r.
Units(r, list, p, n) ==
    UNION {{<<r, i, u>> : u \in 1..list[i].quantity} : i \in {j \in 1..n : list[j].product = p}}

\* The units of p that creations have taken from the stock so far, and those
\* that cancellations have put back.
Taken(p)    == UNION {Units(r, items[r], p, k[r] - 1) : r \in DOMAIN items}
Restored(p) == UNION {Units(r, lines[r], p, k[r] - 1) :
                          r \in {q \in Requests : call[q].op = "cancel"}}

\* No stock update is lost: however handlers overlap or die, the stock of a
\* product is its opening stock, less every unit taken by a creation, plus
\* every unit put back by a cancellation (the relative UPDATEs of create and
\* cancel).
StockLedger ==
    \A p \in DOMAIN stock :
        stock[p] = InitialStock[p] - Cardinality(Taken(p)) + Cardinality(Restored(p))

Logged(o, type) == \E i \in 1..Len(stream) : stream[i].order = o /\ stream[i].type = type

\* An ORDER_CREATED entry in the audit stream is about a complete order: its
\* row, all its lines, the whole decrement of the stock and its payment row
\* were written before it (create logs last).
LoggedOrderIsComplete ==
    \A o \in Requests : Logged(o, "ORDER_CREATED") =>
        /\ o \in DOMAIN orders \cap DOMAIN items \cap DOMAIN payments
        /\ items[o] = lines[o]
        /\ k[o] = Len(items[o]) + 1

\* A customer or an admin is never told of something the audit stream does
\* not hold: an entry of the same order and status precedes the message
\* (every handler awaits addLog before it publishes).
NotifiedIsLogged ==
    \A m \in 1..Len(notified) : \E i \in 1..Len(stream) :
        /\ stream[i].order = notified[m].order
        /\ IF notified[m].type = "PAYMENT"
           THEN stream[i].type = IF notified[m].status = "SUCCESS"
                                 THEN "PAYMENT_SUCCESS" ELSE "PAYMENT_FAILED"
           ELSE stream[i].status = notified[m].status

\* Every order line names an existing product, so that the stock a creation
\* takes and a cancellation gives back has a row to be taken from and given
\* back to, although products are deleted at any time.
LinesNameProducts ==
    \A o \in DOMAIN items : \A i \in 1..Len(items[o]) :
        items[o][i].product \in DOMAIN stock

\* Whatever an order's status, the audit stream holds an entry that gave it,
\* or the handler that did is about to write the entry, or died before it
\* could: a status no admin can explain from the log is the mark of a fault.
Explained(o) ==
    \/ orders[o].status = "PENDING"
    \/ \E i \in 1..Len(stream) :
           stream[i].order = o /\ stream[i].status = orders[o].status
    \/ \E r \in Requests :
           /\ pc[r] \in {"log", "failed"}
           /\ call[r].order = o
           /\ Target(r) = orders[o].status
StatusExplained == \A o \in DOMAIN orders : Explained(o)

-----------------------------------------------------------------------------
(* Properties of the handlers when no call fails. *)

\* Once every handler has ended, each status an order or a payment row holds
\* is found in the audit stream (README: comprehensive audit logging).
AuditIsComplete ==
    Quiet =>
        /\ \A o \in DOMAIN orders :
               \/ orders[o].status = "PENDING"
               \/ \E i \in 1..Len(stream) :
                      stream[i].order = o /\ stream[i].status = orders[o].status
        /\ \A o \in DOMAIN payments :
               payments[o] # "PENDING" => Logged(o, IF payments[o] = "SUCCESS"
                                                    THEN "PAYMENT_SUCCESS"
                                                    ELSE "PAYMENT_FAILED")

\* An order that has its lines, and so begins to take stock, reaches the
\* audit stream and its customer is told.
PlacedOrderIsAnnounced ==
    \A r \in Requests :
        (r \in DOMAIN items) ~>
            /\ Logged(r, "ORDER_CREATED")
            /\ \E m \in 1..Len(notified) :
                   /\ notified[m].type = "ORDER_UPDATE"
                   /\ notified[m].order = r /\ notified[m].status = "PENDING"

-----------------------------------------------------------------------------
(* Properties of one handler at a time: what the checks at the top of the   *)
(* handlers are worth when nothing overlaps (MaxInFlight = 1).              *)

\* No more is sold than there is (create validates the stock of all items).
NoOversell == \A p \in DOMAIN stock : stock[p] >= 0

\* Entry i gives order o a status, and no later one of the first n does.
GivesStatus(i, o) == stream[i].order = o /\ stream[i].status # None
LastOf(i, n, o)   == GivesStatus(i, o) /\ \A j \in (i + 1)..n : ~GivesStatus(j, o)

\* The audit stream replays: read in order, the entries of an order account
\* for every status it went through, each previousStatus being the status its
\* predecessor left, and at rest the last one is the status of the row.
AuditReplays ==
    \A o \in DOMAIN orders : \A i \in 1..Len(stream) :
        /\ \A n \in (i + 1)..Len(stream) :
               LastOf(i, n - 1, o) /\ GivesStatus(n, o) /\ stream[n].prev # None
                   => stream[n].prev = stream[i].status
        /\ Quiet /\ LastOf(i, Len(stream), o) => stream[i].status = orders[o].status

\* At rest, the last order update a customer received is the status of the
\* order.
IsUpdate(m, o) == notified[m].order = o /\ notified[m].type = "ORDER_UPDATE"
CustomerIsUpToDate ==
    Quiet => \A o \in DOMAIN orders : \A m \in 1..Len(notified) :
        IsUpdate(m, o) /\ (\A n \in (m + 1)..Len(notified) : ~IsUpdate(n, o))
            => notified[m].status = orders[o].status

=============================================================================
