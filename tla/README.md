# Shoptik in TLA+

Specifications of the Shoptik shop (`src/`): TLA+ modules translated from its
services, TLC configurations that model-check them on small instances, and
TLAPS proofs for every value of their constants. Paths below are relative to
`src/`; `nestjs/` stands for `apps/nestjs-service/src/`, `go/` for
`apps/go-service/`, `web/` for `apps/web/`.

## 1. The system

Three programs, each deployed with two replicas (`infra/k8s/*/deployment.yaml`):

- **NestJS service**: HTTP API over PostgreSQL. Orders, products, addresses,
  accounts. It sends notifications to Redis pub/sub and over gRPC to the Go
  service, and appends order events to a Redis stream.
- **Go service**: gRPC services over MongoDB (delivery zones, notifications,
  order logs), a subscriber that turns pub/sub messages into WebSocket
  messages, and a consumer that moves the stream of order events into MongoDB.
- **Web**: Next.js pages. Cart and session in local storage, notifications by
  REST and WebSocket, an admin terminal of order events over SSE.

```
 web ── HTTP ──> NestJS ── SQL ──> PostgreSQL
  ^                │ ├─ XADD order-logs:events ─> Redis stream ─> consumer ─> MongoDB order logs
  │                │ ├─ PUBLISH notifications:* ─> subscriber ─> hub ─┐
  │                │ └─ gRPC CreateNotification ─> MongoDB            │
  ├──── SSE ───────┘ (order logs, polled over gRPC)                   │
  └──── WebSocket <───────────────────────────────────────────────────┘
```

### Inventory

| Component | State | Operations | What is hard about it | What makes it correct |
|---|---|---|---|---|
| Order lifecycle `nestjs/orders` | tables orders, order_items, payments, products.stock | create, pay, cancel, update status | no transactions: every `await` is a point where another request, another replica or a failure comes in | no lost stock update, nothing announced that is not logged, nothing logged that is not complete, checks that still hold when acted on |
| Order log producer `nestjs/order-logs/order-logs.queue.ts` | the stream | addLog | between the database write and the XADD nothing is atomic | every status is explained by the stream |
| Order log consumer `go/internal/service/order_logs_consumer.go` | cursor in Redis, batch and lastID in memory, collection in MongoDB | read, batch, flush, start, stop | three goroutines share `batch` without a lock; crashes; failing inserts; two replicas | each log is stored, and once, as far as the cursor can be saved; nothing is skipped |
| WebSocket hub `go/internal/service/websocket_hub.go` | map of clients, bounded channels, two goroutines per client | register, unregister, broadcast, pumps | `send` is closed in three places; slow and vanished clients; everything goes through one goroutine | no panic, no message to a stranger, none skipped or repeated, nothing leaks, nobody blocks the hub |
| Redis subscriber `go/internal/service/redis_subscriber.go` | one subscription | handleMessage | pub/sub forgets what nobody hears | each message reaches the hub at most once, in order |
| Notification publisher and store `nestjs/notifications`, `go/internal/service/notification_service.go` | a MongoDB collection | publish, list, mark read | two channels, errors of one swallowed | pushed and stored agree |
| Addresses, delivery zones `nestjs/addresses`, `go/internal/service/delivery_zone_service.go` | addresses.is_default, zones | create, update, set default, delete | clear-then-set without a transaction | one default per customer who has an address |
| Products, accounts `nestjs/products`, `nestjs/auth` | products, users | CRUD, register, login | absolute stock written over relative updates | stock reflects orders; a list, its filters and its pager show what is stored |
| Order log live stream `nestjs/order-logs/order-logs.gateway.ts`, `web/app/admin/order-logs` | an interval per connection, the page's list | poll, append, pause, reconnect | polls overlap, the interval is set after an await, reconnection resends | every new log shows up once, without a gap; what the badge says is true |
| Cart and session `web/context`, sign-in, cart and checkout pages | both in localStorage and in the contexts of every tab | sign in and out, add, change, order | localStorage and context disagree; a page is left while its order is placed; timers outlive their page | nothing is bought twice; orders are placed for the user the page shows |
| Pages of an order `web/app/dashboard/orders`, pay and success page, `web/app/admin/orders` | each page's copy of the order, timers | load, pay, cancel, choose a status | the service checks almost nothing: what stands against an illegal change is a copy that may be old | an unpaid order is not processed, stock is restored once, a success sticks |
| Admin tables `web/app/admin/products`, `web/app/admin/delivery-zones` | the loaded list, form, switches | load, create, edit, switch, delete, turn pages | several requests under way, answers in any order | the list is the table |
| Product list `web/app/dashboard/products` | filters, text, order, page, the answer shown last | search, filter, sort, turn pages | one request per change, none taken back; controls and answer disagree | nothing that matches is hidden |
| Address page and form `web/app/dashboard/addresses`, `AddressModal` | list, form, timer and verdict of a pincode | edit, check, save, set default, delete | the verdict comes after the pincode has changed | a verdict is about the pincode in the form; the page lists the book |
| Notification bell `web/hooks/use-notifications.ts` | list, badge, socket | receive, fetch, mark | history races live messages | badge exact, nothing due is missed |
| gRPC client, start-up, generated code, migrations, manifests, display-only pages | – | – | – | see section 8 |

## 2. Plan

Done, in this order of importance:

1. **Orders** – the lifecycle of an order, with its audit and notifications.
2. **WebSocketHub** – the hub, its pumps and the subscriber's hand-over. It
   implements **NotificationChannel**, the abstract at-most-once channel.
3. **OrderLogsConsumer** – the stream consumer with its crashes and replicas.
4. **Addresses** – the default address and the pincode check.
5. **Inbox** – a notification from `publish` to the bell of the page, over the
   abstract channel of 2 and the collection of the Go service.

6. **OrderPages** – the pages of one order in front of the handlers, each handler
   one step: what pages decide from old copies. Proofs in `OrderPages_proofs`.
7. **Shopping** – session and cart in localStorage and in the contexts, accounts,
   checkout. Proofs in `Shopping_proofs`.
8. **AdminTables**, **ProductShelf**, **AddressForm**, **LogTerminal** – the pages that
   keep a list over several requests, with the service handlers they call. They
   share no state; **MCWebPages** puts the browser on one of them.

Left, in this order:

9. **OrderBook** – the abstract order lifecycle (one atomic step per request) that
   Orders with `MaxInFlight = 1` and no faults implements, and whose handlers
   OrderPages and Shopping restate as single steps.
10. **AuditPath** – the stream between Orders, OrderLogsConsumer and LogTerminal: "each
    event is stored at most once and in order", duplicated XADDs by ioredis.

Theorems still worth proving: the refinement steps of 9 and 10. Every safety property of the
runs has its theorem.

## 3. Modules

| Module | Contents |
|---|---|
| `Orders`, `MCOrders`, `Orders_proofs` | order handlers; instances; theorems |
| `NotificationChannel` | what the hub promises |
| `WebSocketHub`, `MCWebSocketHub`, `WebSocketHub_proofs` | hub; instances; theorems, the refinement among them |
| `OrderLogsConsumer`, `MCOrderLogsConsumer`, `OrderLogsConsumer_proofs` | consumer; instances; theorems |
| `Addresses`, `MCAddresses`, `Addresses_proofs` | address book and zones; instances; theorems |
| `Inbox`, `MCInbox`, `Inbox_proofs` | publisher, subscriber, store and bell; instance; theorems |
| `OrderPages`, `MCOrderPages`, `OrderPages_proofs` | pages of one order; instance; theorems |
| `Shopping`, `MCShopping`, `Shopping_proofs` | session, cart, checkout; instance; theorems |
| `AdminTables` | admin pages of products and zones |
| `ProductShelf` | the customer's product list |
| `AddressForm` | address page and its form |
| `Listing` | ORDER BY and filter, for the three modules above |
| `LogTerminal` | SSE gateway and the admin's terminal |
| `MCWebPages`, `WebPages_proofs` | instance of the pages; theorems about each of them |

Each module states its properties at its end. A definition whose comment begins
with "Mutant:" is a variant of the definition after it with a plausible bug; no
specification uses it, it is there to confirm that a property notices.

### Orders

State: `stock`, `orders`, `items`, `payments` are the tables, a table being a
function from the keys of its rows; `stream` and `notified` are what has been
sent; `pc`, `call`, `lines`, `k`, `seen` are a suspended handler's position and
locals. One action is one awaited call (`CheckProduct`, `InsertOrder`,
`InsertItems`, `TakeStock`, `InsertPayment`, `FindOrder`/`RefuseOrder`,
`SettlePayment`, `LoadItems`, `RestoreStock`, `SetStatus`, `AddLog`, `Notify`,
`NotifyAgain`), with the plain code up to the next `await` in it. Statements of
PostgreSQL are atomic, transactions there are none. `SetStatus`, `AddLog` and
the notifications are shared by the handlers, whose parameters say what each
writes. `Abort` is a call that throws or a pod that is killed: nothing is rolled
back. `RemoveProduct` is the product handler that interferes, with the foreign
key that restrains it.

Left out: prices, addresses, payment methods, texts, the read-only handlers;
an order's uuid is the request that created it, so that a request names an
order that exists (a request for another is refused like one of a stranger).
A publish is one step: Inbox takes its Redis and gRPC calls apart.

### WebSocketHub

State: `clients` is `h.clients`; `broadcast` and `send[c]` the buffered
channels; `handler`, `reader`, `writer`, `conn` where each goroutine of a client
is and what became of its socket; `hub` where `Run` is. `register` and
`unregister` are unbuffered, a send and its receive are one step. The loop over
one user's clients is one step (`Offer`): nothing it does depends on the order,
and a writer that drains a queue during the loop is the same as before it. The
loop over admins is a step per user, because writers run in between and the
first admin client is any one of the map. Sending on a closed channel and
closing one twice set `panicked`.

Left out: the upgrade failing, JSON, deadlines (a peer that stops answering is
`PeerGone` and the errors that follow), `GetStats`.

`Channel` maps this state to `NotificationChannel`: the log is what `Run` has
taken from the broadcast channel, what a connection got is what was written to
its socket and what waits in `send`, and it has joined while it is in the map.

### OrderLogsConsumer

State: `added` is the length of the stream, a log its position in it; `cursor`
the Redis key; `store` the collection; per replica its `life`, `lastID`,
`batch`, the reader's place and the three possible callers of `flushBatch`.
`lastID` and `batch` are read and written without a lock, so that each access is a step:
`Take` advances lastID and `SaveTaken` sets the cursor to it, `ReadLastID` and `SaveCursor` are
the two halves of what `Stop` does beside the running reader; a SET may fail, and its error is
not looked at.
`LoadBatch`/`StoreBatch` are the two halves of `append`, `FlushBegin` reads the
length, `FlushCopy` copies (or `FlushPanic`: the index is out of range),
`FlushClear` assigns the new slice. `InsertFails` inserts what an ordered
`InsertMany` may have inserted before its error. `Down` ends a process, by
`Crash`, by a panic or by `Cancel` at the end of `Stop`.

Left out: a slice header read half written (the model's accesses are whole);
entries that cannot be decoded; a crash between Redis or MongoDB applying a
call and its reply, which leaves the same state as a crash after the reply; a SET that
takes effect although it failed, or after a later one.
`Saving` is the set of entries whose id ends in 0 or 5: "every id" is the
usual case, in which the part after the dash is 0.

The code may store a log twice, skip one and lose one (section 9). History variables name
each of these ways, so that a property can say that there is no other: `unsaved` are the
entries whose id was not saved, or overwritten by an older one; `unseen` those a start
without a cursor passed over; `dropped` those that an assignment to `batch` left out.

### Addresses

State: `addresses` is the table, `zones` the collection of the Go service,
`ordered` the addresses that an order refers to, which cannot be deleted; `pc`,
`call`, `first`, `next` are a suspended handler's position and locals. One action
is one awaited call: `NotFound`/`FindAddress`, `ApprovePincode`/`RefusePincode`
(the gRPC call; an error of it is a refusal), `ClearDefaults`, `CountAddresses`,
`InsertAddress`, `WriteAddress` (update and setDefault), `DeleteAddress`/
`DeleteFails`, `ChooseNext`, `Promote`. `CreateZone`, `UpdateZone`, `DeleteZone`
are the handlers of the Go service. `approved` and `overlapped` are history
variables: which requests had their pincode approved, and whose requests were in
flight at once. They let one run with overlapping requests say what holds of
the customers whose requests do not overlap.

Left out: names, streets and phones; an address's uuid is the request that
created it; an update with no field at all throws in the query builder, as in
`Abort`.

### Inbox

State: `published` is where each `publish` stands; `queue` the messages on their
way to the subscriber; `collection` the notifications of the Go service; `log`,
`got`, `status` the abstract channel; per bell (one mount of `useNotifications`)
its `mounted`, its socket and timer `link`, the fetch of the `history`, the
`list`, the ids `seen` and the badge `unread`; `marks` the PATCH requests on
their way. A stored notification and its live copy have different ids, because
the subscriber makes an ObjectID of its own (`redis_subscriber.go:111`). The
channel instead of the hub keeps the state space small; `hub_liveness` shows that
the hub implements it. `due` is a history variable: what a bell whose history is
loaded and whose socket is open must get.

Left out: `isConnected`, texts, the browser's own notifications, more than one
Go replica (a bell hears only the replica it is connected to, and both
replicas subscribe, so that each behaves as the one of the model).

### OrderPages

State: `order` is the row and its payment's status, `restocks` how often stock was
put back; per page (a customer's tab or an admin's desk) `at`, the `copy` its last
load brought and the `call` it waits for; `orphans` are requests whose page was
left, `redirect` the timers that open the success page. A page offers what its
copy lets it offer (`CanPay`, `CanCancel`, `CanChangeStatus`, `AvailableStatuses`); a
handler (`ProcessPayment`, `Cancel`, `SetStatus`) is one step, of which
`ServeAndThrow` does only the first `done` statements before it throws. Every answer may
be late. A page is left through its links, or with Back, Forward, a reload or an address
(`Revisit`) whatever it waits for: its request is served all the same, and the script of a payment
page goes on to its timer unless the browser has loaded the page anew.
`revived`, `lost`, `orphaned` and `undone` are history variables that count what undid a
cancellation, what hid an answer, and the successful payments that were overwritten.

Left out: a second order on the same pages (rows of a list do not read each
other), texts, the steps of the animation (a payment is sent when its animation
begins), pages closed by the browser (the request goes on as an orphan does).

### Shopping

State: `accounts`, `stock` are tables; `storage` is localStorage; per tab the auth
context (`user`, and `me` while `loadUser` runs), the cart context, the page, the stock
the product page shows, the timer of "Remove" and the request it waits for.
`orphans` are orders whose page was left; the document, if it is still there, takes
the answer (`OrphanPlaced`). Requests carry `storage.user`, pages show `user[t]`.
`Load` is a document loaded anew: both providers start from localStorage. The
interceptor's redirect on every 401 is `Unauthorized`. `added`, `ordered`, `unheard`
count units put in the cart, ordered, and ordered without the page having heard.

Left out: prices and addresses, more than one product (a line of the cart does not
read another), profile pages, password rules.

### AdminTables

State: the two tables `rows` (products, zones), and per desk its `kind` (which page),
`list`, `page`, `total`, `view`, `modal`, `form`, `saving`, `deleting`, the requests `sent` and
the `answers`, taken in any order. Both pages are written alike; what differs (the
pager of the zones, which switches there are, hidden products) is a condition on
`kind`. `blurred` marks a desk whose load ran beside a write, which an answer did not reach, or
which took two answers about one row in the wrong order: there the list may be wrong until
it is loaded again. Answers about different rows come in any order.

### ProductShelf

State: the controls (`search`, `filter`, `sortBy`, `pageNumber`), what is shown
(`products`, `totalCount`, `hasMore`, `loadingProducts`, `loadError`), the `queries` under way
and the `results`. `Effect` is the `useEffect` on filter, order and page; typing sends
nothing. A query sorted by price may order ties differently each time, so that any
sequence of them is an answer. `muddled` and `walked` are history variables: requests
overlapped, or the pager was used with a text or an order that is not the one shown, which
the code does not handle; and what "Next" led past.

### AddressForm

State: `book`, the user's rows; the page (`addresses`, `status`, `modalOpen`, `editing`,
`deletingId`), the form (`pincode`, `isDefault`, `touched`, `timeout`, `validation`), the
pincode questions `checks` and the requests `asked` with their `replies`. The handlers
are those of Addresses: one that moves the default mark is two steps,
`ClearDefaultAddress` and then `ServeCreate` or `ServeUpdate` (or `ServeGone`, the row having been
deleted, or `ServeBroken`), with `begun` the requests in between, so that two may overlap; the
others are single steps. `retyped`, `crossed`, `unmarked` and `overlapped` are history variables:
the conditions under which the page is wrong (section 9).

### LogTerminal

State: `stored`, the collection; the page's flags, list and newest `source`; per
connection the gateway's `handler`, `interval` and `gone`; of the newest source the
`polls` under way and the `wire`. `InitialLogs` sends the first logs and only then sets
the interval and attaches the close handler, as the code does. `newest` and `burst` are
history variables: the newest log sent, and that an answer did not reach back to the newest
one sent before, which leaves a gap.

## 4. Runs

| Run | Question | Answer |
|---|---|---|
| `orders_interleaved` | three requests, all interleavings, every call may fail | no stock update is lost; what is logged is complete, what is announced is logged; a status without an entry is the mark of a fault |
| `orders_answered` | two customers and the admin, no faults, fair event loop | the audit is complete and every order that is placed is announced |
| `orders_sequential` | five requests, one at a time | when nothing overlaps, the audit replays and the customer's last message is the status |
| `orders_oversell` | two creations overlap | overselling (finding) |
| `hub_liveness` | an admin and a customer, fair goroutines, queues of one | no panic, no message skipped; the hub implements the channel; connections are cleaned up; the hub never stalls |
| `logs_failures` | one replica, every end, failing reads, inserts and SETs, races | a log is stored twice only if its id was not saved or was overwritten; only a start without a readable cursor skips logs |
| `logs_kept` | one replica that keeps running, inserts refused before or partway, races | what was taken is stored in the end, unless an assignment that overlapped dropped it or a document stored before an error blocks the batch |
| `addresses_book` | two customers, overlapping requests, zones that change, every call may fail | a customer whose requests never overlap has at most one default, and has one if none of them fails |
| `inbox` | one bell, a personal notification and one for all admins, every call may fail | the badge is exact; what an attentive bell is due is shown; a bell on the page gets its connection back |
| `shopping` | one tab, two accounts of which one exists, orders refused, lost or left | nothing the page was told of is bought twice; orders are placed for the user shown |
| `order_pages` | a customer's tab and an admin's desk, two changes, pages left by links or Back, every answer late, lost or an error | an unpaid order stays pending; stock is restored once; a success is overwritten only where a payment page was left; a payment ends on the success page |
| `web_pages` | the four pages of lists and forms, several requests under way, answers late, in any order, lost | the list is the table, unless an answer was lost, a load ran beside a write or two answers about one row came in the wrong order; the shelf hides nothing, unless requests overlapped or the pager took along another text or order; a verdict is about the pincode in the form, unless that was retyped meanwhile; the page is the book, unless an answer was lost, overtaken or beside a load, its mark moved by a form or a deletion, or two requests for the mark overlapped; the terminal, until it is full, has no gap as long as answers reach back to what was sent, and does not pretend to be live |

## 5. Bounds

Every bound is a constant of a module or a set given in an MC module.

- *Orders.* `Requests` bounds the HTTP requests of a behaviour, `MaxInFlight`
  those suspended at once. Three that overlap are a creation, a payment or
  cancellation of its order and an update by the admin, the most that can meet
  on one order with distinct roles; two products let a handler be between two
  lines of an order. A stock of two units and carts of no, one or two lines
  make the stock run out, and run short in the middle of an order.
  `orders_sequential` has five requests so that an order can be created, paid,
  shipped, delivered and refused, or cancelled twice.
- *WebSocketHub.* `SendCap = 1` instead of 256 and `BroadcastCap = 1` instead of
  256 make full queues common; the two clients are of two users, an admin and a
  customer, so that both loops of a broadcast have someone to serve. Two
  notifications fill a queue of one and the one in the writer's hand. Several tabs of
  one user are left to the theorems, which hold for any number.
- *OrderLogsConsumer.* `BatchSize = 2` (50) and `ReadCount = 2` (10) with three logs, of which
  the second has no id to save, give a full batch, a partial one and a read that crosses the
  two; `MaxStarts = 3` two restarts, the second of which begins where a restarted replica died.
  `logs_kept` has five logs: two that block the batch or are dropped, and others after them.
- *Addresses.* Three requests of which two overlap: two addresses and a removal,
  or two requests racing for the default of a third. One zone and two pincodes:
  a pincode that is served, one that is not, and both change.
- *Inbox.* One bell (the theorems hold for any number): bells share only the server,
  and do not read each other's effect before they mount. Two notifications: one to overwrite, hide or count
  against the other. `Page = 1` instead of 30 makes the page shorter than the
  collection. Reconnections are not bounded: a new connection begins with nothing, so that
  the state space is finite all the same.
- *OrderPages.* One tab and one desk, two requests that change the order: any two of a
  payment, a cancellation and a status, or one and its repetition, which is what the
  properties relate; the order is new or was paid before. Loads and ways to leave a page are not bounded. More requests, tabs and desks
  are left to the theorems.
- *Shopping.* One tab, as the properties are about customers with one tab; a stock of
  two, three units put in the cart, two orders: one that goes wrong and the one placed
  after it. Two accounts, one of which is still to be created.
- *Web pages.* AdminTables: one desk with three requests (a load and two writes, or a
  load of the next page), three rows on pages of two. ProductShelf: three products on
  pages of one, of which one is in the filter and two match the text, three
  requests: the pager can be a page on when the list becomes shorter. AddressForm: three
  addresses, so that both of the two that are not the default can be made it at once (the first
  is the default, `FirstDefaults`); two pincodes of which one is served, two changes of the
  pincode, two requests besides the load, three of these together (`MaxMoves`). LogTerminal:
  two logs to begin with (50), two per poll (5), so that an answer may overlap the one before
  it and polls may fail or overtake each other without a gap; a page of six (200), seven
  logs, two connections.

## 6. Fairness

- *Orders* (`FairSpec`): weak fairness of every handler's `Step`. Node's event
  loop resumes a handler whose awaited call has returned, and a run with
  `Faults = FALSE` is one whose calls return. Requests are not bound to be sent.
- *WebSocketHub*: weak fairness of the pumps, which are goroutines; strong
  fairness of `Run`'s cases, because `select` chooses at random among the ready
  ones, and a sender on `register` or `unregister` waits until it is chosen.
  Nothing is assumed of peers or of the publisher.
- *OrderLogsConsumer*: weak fairness of every goroutine, which the Go scheduler gives,
  and strong fairness of `InsertSucceeds`: MongoDB does not refuse for ever. Without it
  nothing would be stored in the end.
- *OrderPages*: weak fairness of what a page waits for (`Answers`, `ReceivePaid`): the
  service answers or the connection breaks, and an error is an answer; and of
  `OpenSuccess`, a browser timer that nothing clears. Nothing is assumed of users.
- *Inbox*: weak fairness of `Reconnect`, a browser timer, and strong fairness of
  `Open`: the Go service does not refuse a bell for ever. Nothing is assumed of
  Redis or of the publisher.

## 7. Proofs

Proved by TLAPS for all values of the constants, under the modules' `ASSUME`s,
which only say what kind of value a constant is.

| Theorem | Statement |
|---|---|
| `Orders_proofs!TypeCorrect` | type invariant, and where each handler can be |
| `Orders_proofs!LinesAlwaysNameProducts` | lines of orders name existing products |
| `Orders_proofs!NotificationsAreLogged` | what is announced is in the stream |
| `Orders_proofs!StatusesAreExplained` | a status without its entry has a handler about to write it, or dead |
| `Orders_proofs!LoggedOrdersAreComplete` | a logged order has row, lines, stock decrement and payment |
| `Orders_proofs!StockIsConserved` | stock = opening stock - units taken + units put back, under every interleaving and fault |
| `Orders_proofs!AuditTrailIsComplete` | without faults, at rest every status and settled payment is in the stream, however handlers overlap |
| `Orders_proofs!AuditTrailReplays`, `CustomersAreUpToDate` | one request at a time, without faults: the stream replays to the table; the last update a customer got is the status |
| `WebSocketHub_proofs!TypeCorrect`, `HubNeverPanics`, `OnlyAddresseesAreSentTo` | type and capacities; no panic; only addressees |
| `WebSocketHub_proofs!MessagesAreInOrder`, `HubImplementsChannel` | messages in order, none twice; the hub implements `NotificationChannel` |
| `WebSocketHub_proofs!NothingIsSkipped` | a registered client is given every note of its user since it registered |
| `OrderLogsConsumer_proofs!TypeCorrect` | type; no id or document from nowhere |
| `OrderLogsConsumer_proofs!SoleReplicaStoresOnce` | one replica stores a log twice only if its id was not saved or was overwritten by `Stop` |
| `OrderLogsConsumer_proofs!SoleReplicaMovesBackInStop` | the cursor of one replica goes back only where `Stop` sets it to the id it read before |
| `OrderLogsConsumer_proofs!SoleReplicaSkipsNothing` | one replica moves its cursor over a log nobody took only after a start without a readable cursor |
| `Addresses_proofs!TypeCorrect`, `OthersAreSafe`, `PincodesAreApproved`, `AtMostOneDefault`, `DefaultStays` | type; foreign addresses untouched; pincodes approved; one default, and not none |
| `OrderPages_proofs!TypeCorrect`, `UnpaidOrdersStayPending`, `SucceededPaymentSticks`, `CancellationsRestockOnce` | type; an order without a decided payment is pending or cancelled; a customer with one tab has a success overwritten at most once for each payment page left while it waited, and stock restored once but for cancellations revived, unanswered or left |
| `Shopping_proofs!TypeCorrect`, `OrdersAreForTheUserShown`, `NothingIsBoughtTwice` | type; with one tab nothing is bought that was not put in the cart, but for answers the page did not hear; with one tab an order is placed for the user its page shows, unless a sign-in came before the session was loaded |
| `Inbox_proofs!TypeCorrect`, `BadgeAlwaysExact`, `LiveAlwaysShown` | type; the badge counts the unread entries; what an attentive bell is due is shown or on its way |
| `WebPages_proofs!VerdictIsTrue` | a verdict is about the pincode in the form |
| `WebPages_proofs!PageIsTrue` | the page of addresses lists the book once nothing is under way, and its mark, with the exceptions of section 4 |
| `WebPages_proofs!ShelfIsHonest` | an empty shelf means that nothing matches, its last page that everything was seen, with the exceptions of section 4 |
| `WebPages_proofs!TerminalIsTrue` | the terminal does not pretend to be live and, until it is full, has no gap as long as answers reach back to what was sent |
| `WebPages_proofs!TablesAreTrue` | an admin who works alone sees each row once and as it is stored, and the right number of zones, with the exceptions of section 4 |
| `WebPages_proofs!PagesKeepTypes` | type invariant of the four pages |

The arguments:

- *Orders.* `Control` adds to the type what a position implies (a handler at
  `stock` of a creation has its order and items in the tables). `NotifiedIsLogged`
  needs that the handler about to announce has logged (`LoggedBeforeNotify`);
  `LoggedOrderIsComplete` is not inductive, because an entry appears only at the
  end: the strengthening says of each creation how much it has written at each
  position, and that no other handler takes that back. The ledger: a unit of a line is
  a triple (request, line, unit), and `Taken` and `Restored` are sets of them, so that a
  handler that goes from line to line adds a set disjoint from what was there; `Counting`
  says that the position is the first line until the loop begins and that the table's
  lines are the ones the loop goes through. `AuditIsComplete` follows from
  `StatusExplained`, its counterpart for payments, and from `OnlyCreationsFail`: without
  faults the one call that can fail is a creation's `InsertItems`, and what such an order
  owes the stream is PENDING, which the property allows for. The two theorems about requests
  that do not overlap (`~Faults`, `MaxInFlight = 1`) rest on `SoloInv`: at most one handler
  is suspended (`Solo`), what it has read is still the status and what it has written is
  its own (`TrailInv`), so that the last entry and the last message of an order
  agree with the table, but for those the handler has yet to send.
- *WebSocketHub.* `HubInv` says that a client in the map is there under its own
  user, was registered and is open; that a closed one was registered, so that it
  is not registered again; and that pumps run only after the registration. A
  send or a close happens only to members of the map, so none hits a closed
  channel. The refinement adds `OrderInv`: whatever a client was given is older
  than all that waits in the broadcast channel, and older than the note the
  second loop holds as long as the loop has not come to the client's user. That
  the loop gives nobody a note twice needs `AdminFeed`, an assumption of the
  theorems: a note for all admins names a user without connections, as
  `sendAdminNotification` does with `"all"`. `NothingSkipped` rests on `CompleteInv`: each
  registered client has a note of its user exactly when `Run` took it since the
  registration, and a client whose queue was full is no longer registered.
- *OrderLogsConsumer.* The assumption `One` (there is one replica) is in the theorems'
  statements, and it is needed: two replicas both take each log (section 9). Any ids may be saved,
  any call may fail. `OneInv` has five parts: the reader stands where lastID says (`Stands`); the
  cursor is not ahead of it (`Ahead`); between the cursor, or what `Stop` is about to make it,
  and lastID every entry was taken or unseen, but for the one on its way into the batch
  (`Gapless`), whose id is saved or marked as unsaved (`Marked`); and what was taken is
  behind the cursor or unsaved, what was taken twice is unsaved (`Explained`). A restart takes
  again only what lies beyond the cursor.
- *Addresses.* `Owned`: a handler past its SELECT works on an address of its own
  user (or one that is gone). `Covered`: the pincode a handler will write, or will
  leave, has been approved. `Alone`: of a customer who never overlapped, at most
  one handler is suspended, and between clear and set there is no default.
  `Kept`: of a customer for whom nothing overlapped, failed or unset the default, there
  is a default or a handler about to make one; that it will find the address it has read
  (`Found`) is what not overlapping gives.
- *OrderPages.* `SeenIsDecided`: what any page has seen decided about the payment is
  decided, because no handler takes a decision back; so a status chosen from a copy
  of a paid order, however old, is written on a paid order. For `SucceededPaymentSticks`
  the strengthening `PaidInv` counts, for a single tab, what may still overwrite a success
  (`PaidBudget`): a payment left behind, which was counted when its page was left, and a page that
  pays, or offers to, while the order is not paid. The payment page loads before it
  offers, and a payment that was answered leads to the success page. `OneTab` counts tabs; that at most one is open (`Single`) follows because
  the set of open tabs is finite and only grows, which holds for any set of tabs.
  The restocks: that they are within the allowance is not inductive; `WithinBudget` adds the
  cancellations on their way whose page was left, and one more as long as the order lives or
  a page shows it alive (`Uncounted`). Each step that adds to one side adds to the other.
- *Shopping.* The type needs to know that an order was sent by a page that showed a
  user and a form with that user's address (`CallsNameUsers`). `InStep`: of a single
  tab, the context, the session it still loads and what its request is sent as name
  nobody else than localStorage does, and every order sent or left behind names one
  user twice (`Matching`). Every step that moves one of the two moves the other, except a
  sign-in before the session is loaded, which `overtaken` remembers. That a state
  with one tab comes from one with at most one tab is the argument of OrderPages again.
  `BuyInv`: with what orders left behind may still buy (`UnderWay`, a set of units, each
  order's told apart by its number) the count still fits, since they were counted
  as unheard when their page was left; and while an order waits, the cart of the tab is
  the stored one and has the quantity the order was sent with.
- *Inbox.* The badge: prepending an unread entry shifts the positions of the others
  (`ShiftedCardinality`), marking one takes its position out of a finite set, and a
  step of the hook that changes the list changes the badge by as much (`ListStep`), for
  lists of any length. What is due: a bell has seen exactly what it lists, so a message
  that `onmessage` drops because it was seen is in the list; `LiveInv` adds that only an
  attentive bell is due anything and that no socket has taken more than it was
  given, so what the hub appends is still to be taken.
- *Web pages.* `Asked`: unless the pincode was retyped, every question under way is about
  the pincode in the form. The terminal: what it shows, what is on the wire and what
  polls have yet to send, put together, has no hole below `newest` (`Gapless`), which
  needs that only the newest source feeds it (`Connections`). The assumptions say that
  the short text is no pincode and that the first batch is not larger than the log.
- *Lists.* `Ascending` and `AtPositions` say which entry of a list comes from where, so
  that what they yield follows from counting (`AscendingLists`: each number once;
  `FilterKeeps`: exactly the entries that pass), without induction on the list.
- *The page of addresses.* That it lists the book says nothing while answers are on their
  way. `Told` supplies what is missing: there are books `h[0] .. h[n]`, one more than answers
  waiting, of which the first is what the page lists, the last is the table, and each
  answer tells the step from one to the next (`Tells`). The service appends to this
  history, the page takes its first answer off it. A load has to run alone
  (`LoadAlone`), else its answer would skip what was told meanwhile; `crossed` remembers
  when one did not, or when an answer was lost. While a handler is between its two
  statements the table has no mark at all (`Cleared`), so that the last book agrees with
  it but for the marks (`Agrees`), and with its second statement again; when two are, one
  clears what the other is to tell, and nothing is said of marks any more (`Marked`).
- *The shelf.* `ShelfInv`: what is shown answers some query (`ShownIsAnswer`), the newest query is
  the one of the controls (`NewestIsSet`) and is shown or on its way (`NewestArrives`, where
  `NothingOlder` is what not overlapping gives), and a later page is reached only through
  the earlier ones of the same order and filter (`PageIsReached`). That the pages of one
  order add up to all of it is arithmetic on positions (`PageIs`, `EarlierPages`).
  The assumption added for the proof is that a catalogue is finite.
- *The admin's tables.* Answers are taken in any order here, so there is no history to
  follow; `Sound` speaks of each row instead. The last answer under way about a row tells
  what it is (`LastTells`), and a row that no answer is about is in the table as it is
  listed (`EntriesTell`). An answer that overtakes none with its id overtakes none about its
  row (`EarlierIsOther`), so whichever is taken, the rest still tells the truth. A row
  that was just created has an id that no list, form or request can name before its answer is
  taken (`NewToAll`), which is why no other desk may use the table: `Undisturbed` says so. The
  number on the page is what there is, less the creations and plus the removals whose answers
  are under way (`Counts`); taking one answer out of the middle renumbers the others, and
  `TakenCounted` is the bijection. A load counts anew, and has to run alone (`LoadsAlone`).
- *The four pages.* A step of one is a stutter of the others (`NextPages`), so that the
  conjunction of their invariants is one of `PagesSpec`.

Only model-checked are the liveness properties (`PlacedOrderIsAnnounced`, `EndedIsCleanedUp`,
`HubKeepsMoving`, `TakenIsStored`, `StaysConnected`, `PayingEnds`) and the fairness they
assume, which are out of the prover's reach.

`OnlyAddressees`, `InOrder`, `LinesNameProducts`, `OnlyStopMovesBack`, `OwnershipRespected` and
`PincodesWereApproved` are proved and have no run of their own.

## 8. Not modelled

- Roles: every guard of the NestJS service compares one header of the request with a
  constant and keeps no state.
- The gRPC client's connection, and its wrappers: a call is answered or fails in the
  models of its callers. It has no deadline and no retry.
- Products: the single statements of create, update, delete and of the switches are in
  AdminTables, the listing in ProductShelf, the stock in Orders. Bulk stock updates,
  featured and category listings and statistics are not: no page calls them or they
  change nothing.
- Landing, theme, profile, overview pages, headers and ui primitives: they show what a
  service answers and keep nothing across requests.
- Generated protobuf code, styles.
- Start-up, routing, health probes, migrations, manifests: wiring without state
  of its own. What main stops first is in the models.
- Read-only queries (counts, statistics), unless a page acts on them.
- Redis, MongoDB and PostgreSQL themselves: single statements are atomic,
  committed data survives; a pub/sub message without a listener is gone.

## 9. What the code does not keep

With a run that shows it (finding): overlapping orders oversell (`orders_oversell`).

Met while modelling, without a run of its own. The services:

- Two replicas of the Go service read the stream without a consumer group
  (`order_logs_consumer.go:122`, `infra/k8s/go/deployment.yaml`): each log is
  stored by both, although "Cursor Prevents Duplicates"
  (`docs/mermaid/sequence.mermaid:85`): the cursor is one key for both.
- An ordered `InsertMany` that stores a part before it fails keeps the whole batch
  ("will retry next flush", `:222`): the ids of the stored part make every later flush
  fail, and the batch grows.
- `flushBatch` and the reader share `batch` without a lock (`:177`, `:208-227`): a log
  appended while an insert runs is dropped when line 227 makes the new batch.
- The cursor is saved only at ids that end in 0 or 5 and at `Stop`; a crash in
  between makes the next start store logs again when several share a millisecond. So does a
  SET that fails, whose error nobody looks at (`:146`), and a `Stop` that sets the cursor to an
  id it read before the reader took and saved a newer one (`:100-101`).
  `Stop` and a crash lose what is in the batch, the cursor being past it.
- A start that cannot read the cursor, or finds none, begins at the latest entry and
  passes over what came before (`:62-66`).
- A cancellation that read the status before the admin shipped the order cancels
  a shipped order (`orders.service.ts:304`, `:326`); two overlapping cancellations
  both restore the stock (`:308`).
- A payment that overlaps a cancellation, or comes after it, puts the order back
  into processing (`:221` reads the order and does not look at its status), and no
  handler refunds a cancelled order.
- A fault between a table's update and `addLog` leaves a change without an entry.
- The admin's product form writes all fields: a stock read before an order was placed
  overwrites the order's decrement (`products.service.ts:230`).
- Overlapping requests of one customer can leave two default addresses or none
  (`addresses.service.ts:109`, `:216`). The page of addresses then shows one of the two.
- The gateway attaches its close handler after the first awaited call
  (`order-logs.gateway.ts:46`): a client that leaves before that keeps its interval.

The pages:

- The stored and the live copy of a notification have different ids, so that the
  deduplication of `use-notifications.ts:34` and `:91` never finds one: a message
  that arrives while the history is on its way is shown twice, or overwritten by
  the history. Marking a live entry as read marks nothing in the collection
  (`:165` "Actions that persist to backend"). A bell that has left the page
  reconnects for ever: `disconnect` clears the timer before the `onclose` it
  causes sets a new one (`:126-148`). Notifications for all admins are stored under
  `userId "all"` and are in nobody's history.
- The payment page shows success and goes to the success page when the payment failed
  ("Retry once - always succeed on retry", `pay/page.tsx`, sends no second request).
- A payment page left by Back or a reload while its payment is under way offers the payment
  again, and a second payment that fails overwrites the success of the first
  (`pay/page.tsx:53-71`, `orders.service.ts:269`).
- The admin can choose CANCELLED for a SHIPPED order, although the list says "Can also
  cancel from PENDING or PROCESSING" (`admin/orders/page.tsx:169-170`); this way of
  cancelling restores no stock. With a copy older than the cancellation an order of
  which the page says "No further actions can be taken"
  (`admin/orders/[id]/page.tsx:247`) is brought back to life.
- An admin who hides a product does not see it again after a reload: the list asks for
  active products only (`products.service.ts:34`), so that no page can show it again.
- "Clear Filters" after a bare search loads nothing and leaves the search's list; with
  text typed but not searched for, "Next" asks for a later page of another list and
  may say "No products found". Products of one price may come twice or not at all
  when the pages of a list sorted by price are turned.
- Two answers about one row of an admin's table that come in the wrong order leave the older row
  in the list until it is loaded again (`admin/products/page.tsx:122`).
- The number of delivery zones is counted down by answers to deletions beside a load
  and may fall below what there is, and a zone deleted from a full page disables "Next"
  although there are more (`delivery-zones/page.tsx:389`).
- A click beside a form closes it while it is being saved; the answer then closes
  whatever form is open by that time.
- The verdict on a pincode that changed while it was asked about is shown for the new
  one ("Validate pincode when it changes", `AddressModal.tsx:80`).
- The page of addresses shows two "Default" badges after a form made one the default,
  and none after the default was deleted, until it is loaded again
  (`dashboard/addresses/page.tsx:71-76`, `:111`).
- The terminal's EventSource is closed on an error and never opened again; the timer
  that says "Reconnecting..." only writes that (`admin/order-logs/page.tsx:127`).
  A terminal that is paused goes on saying "Live". When more logs than a poll sends have
  come since the last poll that was answered, the ones in between are never shown.
- Two tabs of one browser may show one user and order for another: requests carry the
  user of localStorage. In one tab, a sign-in during `loadUser` is overwritten by its
  answer (`auth-context.tsx:25-27`).
- Leaving the checkout while an order is placed enables "Place Order" again on return,
  and the late answer clears whatever the cart holds by then
  (`checkout/page.tsx:79-84`). The timer of "Remove" (`cart/page.tsx:22`) may take the
  line while the customer is at the checkout.
