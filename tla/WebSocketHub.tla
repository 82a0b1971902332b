---------------------------- MODULE WebSocketHub ----------------------------
(***************************************************************************)
(* The WebSocket hub of the Go service (websocket_hub.go), with the two    *)
(* pumps of every connection and the subscriber that feeds it              *)
(* (redis_subscriber.go handleMessage).                                    *)
(*                                                                         *)
(* The goroutines are Run (one), HandleWebSocket, readPump and writePump   *)
(* (one each per client) and the subscriber (one).  register and           *)
(* unregister are unbuffered channels, so a send on them and Run's receive *)
(* are one step; broadcast and each client's send are bounded queues.  The *)
(* map of clients is touched by Run only.  A member of Clients is one      *)
(* connection attempt.                                                     *)
(***************************************************************************)
EXTENDS Naturals, Sequences, FiniteSets

CONSTANTS
    Clients,      \* *Client values, one per connection
    Users,        \* user ids, of clients and of notifications ("all" among them)
    UserOf,       \* the userId a connection gave
    Admins,       \* the connections whose role is ADMIN
    Feed,         \* the (user, role) pairs the subscriber may hand over
    SendCap,      \* capacity of Client.send (256)
    BroadcastCap, \* capacity of WebSocketHub.broadcast (256)
    MaxNotes      \* bound on the notifications published

ASSUME UserOfAssumption == UserOf \in [Clients -> Users]
ASSUME AdminsAssumption == Admins \subseteq Clients
ASSUME FeedAssumption == Feed \subseteq [user : Users, role : {"USER", "ADMIN"}]
ASSUME CapAssumption == SendCap \in Nat /\ BroadcastCap \in Nat /\ MaxNotes \in Nat

VARIABLES
    clients,    \* h.clients: user -> set of clients, for the users with an entry
    broadcast,  \* h.broadcast
    published,  \* number of notifications handed to Broadcast so far
    hub,        \* Run: at its select, or offering a note to admins
    handler,    \* HandleWebSocket of each client
    reader,     \* readPump of each client
    writer,     \* writePump of each client
    conn,       \* the TCP connection: open, broken (peer gone), closed (by us)
    send,       \* Client.send: messages not yet taken by the writer
    closed,     \* the clients whose send channel has been closed
    written,    \* what the writer has taken from send, in order
    panicked,   \* some goroutine sent on, or closed, a closed channel
    handled,    \* history: the notes Run has finished offering to their user
    since       \* history: how many of them when the client was registered

channels  == <<broadcast, published>>
pumps     == <<handler, reader, writer, conn>>
history   == <<handled, since>>
vars == <<clients, channels, hub, pumps, send, closed, written, panicked, history>>

Note == [id : 1..MaxNotes, user : Users, role : {"USER", "ADMIN"}]
Selecting == [phase |-> "select"]
Offering == [phase : {"admins"}, note : Note, todo : SUBSET Users]

\* The state has its type, and no channel holds more than its capacity: the
\* broadcast channel and each client's send are bounded by their make(chan).
TypeOK ==
    /\ DOMAIN clients \subseteq Users
    /\ clients \in [DOMAIN clients -> SUBSET Clients]
    /\ broadcast \in Seq(Note) /\ Len(broadcast) <= BroadcastCap
    /\ published \in 0..MaxNotes
    /\ hub \in Offering \cup {Selecting}
    /\ handler \in [Clients -> {"absent", "register", "start", "done"}]
    /\ reader \in [Clients -> {"absent", "reading", "unregister", "closing", "done"}]
    /\ writer \in [Clients -> {"absent", "loop", "done"}]
    /\ conn \in [Clients -> {"none", "open", "broken", "closed"}]
    /\ send \in [Clients -> Seq(Note)]
    /\ \A c \in Clients : Len(send[c]) <= SendCap
    /\ closed \subseteq Clients
    /\ written \in [Clients -> Seq(Note)]
    /\ panicked \in BOOLEAN
    /\ handled \in Seq(Note)
    /\ since \in [Clients -> Nat]

Init ==
    /\ clients = [u \in {} |-> {}]
    /\ broadcast = << >> /\ published = 0
    /\ hub = Selecting
    /\ handler = [c \in Clients |-> "absent"]
    /\ reader = [c \in Clients |-> "absent"]
    /\ writer = [c \in Clients |-> "absent"]
    /\ conn = [c \in Clients |-> "none"]
    /\ send = [c \in Clients |-> << >>]
    /\ closed = {}
    /\ written = [c \in Clients |-> << >>]
    /\ panicked = FALSE
    /\ handled = << >>
    /\ since = [c \in Clients |-> 0]

\* The clients h.clients holds for a user; a nil map ranges like an empty one.
ClientsOf(u) == IF u \in DOMAIN clients THEN clients[u] ELSE {}
Registered == {c \in Clients : c \in ClientsOf(UserOf[c])}

-----------------------------------------------------------------------------
(* The subscriber. *)

\* handleMessage: a new notification goes into the broadcast channel, which
\* blocks the subscriber while it is full.
Publish ==
    /\ published < MaxNotes
    /\ Len(broadcast) < BroadcastCap
    /\ \E f \in Feed :
           broadcast' = Append(broadcast, [id |-> published + 1, user |-> f.user,
                                           role |-> f.role])
    /\ published' = published + 1
    /\ UNCHANGED <<clients, hub, pumps, send, closed, written, panicked, history>>

-----------------------------------------------------------------------------
(* HandleWebSocket. *)

\* The upgrade succeeds and the handler blocks on h.register.
Connect(c) ==
    /\ handler[c] = "absent"
    /\ handler' = [handler EXCEPT ![c] = "register"]
    /\ conn' = [conn EXCEPT ![c] = "open"]
    /\ UNCHANGED <<clients, channels, hub, reader, writer, send, closed, written,
                   panicked, history>>

\* Run receives from h.register.
Register(c) ==
    /\ hub = Selecting
    /\ handler[c] = "register"
    /\ handler' = [handler EXCEPT ![c] = "start"]
    /\ clients' = [u \in DOMAIN clients \cup {UserOf[c]} |->
                       IF u = UserOf[c] THEN ClientsOf(u) \cup {c} ELSE clients[u]]
    /\ since' = [since EXCEPT ![c] = Len(handled)]
    /\ UNCHANGED <<channels, hub, reader, writer, conn, send, closed, written,
                   panicked, handled>>

StartPumps(c) ==
    /\ handler[c] = "start"
    /\ handler' = [handler EXCEPT ![c] = "done"]
    /\ reader' = [reader EXCEPT ![c] = "reading"]
    /\ writer' = [writer EXCEPT ![c] = "loop"]
    /\ UNCHANGED <<clients, channels, hub, conn, send, closed, written, panicked, history>>

-----------------------------------------------------------------------------
(* Run: unregister and broadcast. *)

\* Mutant: the reader closes the channel whether or not the hub still has the client.
UnregisterUnchecked(c) ==
    /\ hub = Selecting
    /\ reader[c] = "unregister"
    /\ reader' = [reader EXCEPT ![c] = "closing"]
    /\ LET rest == ClientsOf(UserOf[c]) \ {c}
           kept == IF rest = {} THEN DOMAIN clients \ {UserOf[c]} ELSE DOMAIN clients
       IN  clients' = [u \in kept |-> IF u = UserOf[c] THEN rest ELSE clients[u]]
    /\ closed' = closed \cup {c}
    /\ panicked' = (panicked \/ c \in closed)
    /\ UNCHANGED <<channels, hub, handler, writer, conn, send, written, history>>

\* Run receives from h.unregister; a client the hub has already dropped is
\* left alone.
Unregister(c) ==
    /\ hub = Selecting
    /\ reader[c] = "unregister"
    /\ reader' = [reader EXCEPT ![c] = "closing"]
    /\ IF c \in ClientsOf(UserOf[c])
       THEN LET rest == clients[UserOf[c]] \ {c}
                kept == IF rest = {} THEN DOMAIN clients \ {UserOf[c]} ELSE DOMAIN clients
            IN  /\ clients' = [u \in kept |-> IF u = UserOf[c] THEN rest ELSE clients[u]]
                /\ closed' = closed \cup {c}
                /\ panicked' = (panicked \/ c \in closed)
       ELSE UNCHANGED <<clients, closed, panicked>>
    /\ UNCHANGED <<channels, hub, handler, writer, conn, send, written, history>>

\* Mutant: a queue is full one message too late.
FullTooLate(c) == Len(send[c]) > SendCap

Full(c) == Len(send[c]) >= SendCap

\* Mutant: a full client is closed but stays in the map.
OfferKeepsDropped(S, note) ==
    LET dropped == {c \in S : c \notin closed /\ Full(c)}
    IN  /\ send' = [c \in Clients |-> IF c \in S \ (dropped \cup closed)
                                      THEN Append(send[c], note) ELSE send[c]]
        /\ closed' = closed \cup dropped
        /\ panicked' = (panicked \/ S \cap closed # {})
        /\ UNCHANGED clients

\* The select with a default that broadcastNotification runs for each client
\* of a set: the message is queued, or the client's channel is full and is
\* closed and the client dropped.
Offer(S, note) ==
    LET dropped == {c \in S : c \notin closed /\ Full(c)}
    IN  /\ send' = [c \in Clients |-> IF c \in S \ (dropped \cup closed)
                                      THEN Append(send[c], note) ELSE send[c]]
        /\ closed' = closed \cup dropped
        /\ clients' = [u \in DOMAIN clients |-> clients[u] \ dropped]
        /\ panicked' = (panicked \/ S \cap closed # {})

\* Run receives from h.broadcast and offers the note to every client of its
\* user; a note of role ADMIN goes on to the admins.
Broadcast ==
    /\ hub = Selecting
    /\ broadcast # << >>
    /\ LET note == Head(broadcast)
       IN  /\ Offer(ClientsOf(note.user), note)
           /\ hub' = IF note.role = "ADMIN"
                     THEN [phase |-> "admins", note |-> note, todo |-> DOMAIN clients]
                     ELSE Selecting
           /\ handled' = Append(handled, note)
    /\ broadcast' = Tail(broadcast)
    /\ UNCHANGED <<published, pumps, written, since>>

\* Mutant: the send to an admin has no default and waits for room.
BroadcastToAdminBlocking(u) ==
    /\ hub # Selecting
    /\ u \in hub.todo
    /\ hub' = [hub EXCEPT !.todo = @ \ {u}]
    /\ \/ \E c \in clients[u] \cap Admins : ~Full(c) /\ Offer({c}, hub.note)
       \/ /\ clients[u] \cap Admins = {}
          /\ UNCHANGED <<clients, send, closed, panicked>>
    /\ UNCHANGED <<channels, pumps, written, history>>

\* Mutant: the second loop does not look at the role.
BroadcastToAnyone(u) ==
    /\ hub # Selecting
    /\ u \in hub.todo
    /\ hub' = [hub EXCEPT !.todo = @ \ {u}]
    /\ \/ \E c \in clients[u] : Offer({c}, hub.note)
       \/ clients[u] = {} /\ UNCHANGED <<clients, send, closed, panicked>>
    /\ UNCHANGED <<channels, pumps, written, history>>

\* One user of the second loop: the first admin client that the iteration of
\* the inner map yields is offered the note, and the loop breaks.
BroadcastToAdmin(u) ==
    /\ hub # Selecting
    /\ u \in hub.todo
    /\ hub' = [hub EXCEPT !.todo = @ \ {u}]
    /\ \/ \E c \in clients[u] \cap Admins : Offer({c}, hub.note)
       \/ /\ clients[u] \cap Admins = {}
          /\ UNCHANGED <<clients, send, closed, panicked>>
    /\ UNCHANGED <<channels, pumps, written, history>>

EndBroadcast ==
    /\ hub # Selecting
    /\ hub.todo = {}
    /\ hub' = Selecting
    /\ UNCHANGED <<clients, channels, pumps, send, closed, written, panicked, history>>

-----------------------------------------------------------------------------
(* The pumps. *)

\* The peer goes away, or stops answering.
PeerGone(c) ==
    /\ conn[c] = "open"
    /\ conn' = [conn EXCEPT ![c] = "broken"]
    /\ UNCHANGED <<clients, channels, hub, handler, reader, writer, send, closed,
                   written, panicked, history>>

\* ReadMessage fails: the peer is gone, its pong is overdue, or the writer
\* has closed the connection.
ReadError(c) ==
    /\ reader[c] = "reading"
    /\ conn[c] \in {"broken", "closed"}
    /\ reader' = [reader EXCEPT ![c] = "unregister"]
    /\ UNCHANGED <<clients, channels, hub, handler, writer, conn, send, closed,
                   written, panicked, history>>

ReaderClose(c) ==
    /\ reader[c] = "closing"
    /\ reader' = [reader EXCEPT ![c] = "done"]
    /\ conn' = [conn EXCEPT ![c] = "closed"]
    /\ UNCHANGED <<clients, channels, hub, handler, writer, send, closed, written,
                   panicked, history>>

\* The writer takes a message and writes it; the error of a write to a broken
\* connection is ignored.
WriteMessage(c) ==
    /\ writer[c] = "loop"
    /\ send[c] # << >>
    /\ written' = [written EXCEPT ![c] = Append(@, Head(send[c]))]
    /\ send' = [send EXCEPT ![c] = Tail(@)]
    /\ UNCHANGED <<clients, channels, hub, pumps, closed, panicked, history>>

\* Mutant: the writer returns without closing the connection.
WriterCloseKeepsConn(c) ==
    /\ writer[c] = "loop"
    /\ send[c] = << >>
    /\ c \in closed
    /\ writer' = [writer EXCEPT ![c] = "done"]
    /\ UNCHANGED <<clients, channels, hub, handler, reader, conn, send, closed,
                   written, panicked, history>>

\* The channel is closed and drained: a close frame, then the connection.
WriterClose(c) ==
    /\ writer[c] = "loop"
    /\ send[c] = << >>
    /\ c \in closed
    /\ writer' = [writer EXCEPT ![c] = "done"]
    /\ conn' = [conn EXCEPT ![c] = "closed"]
    /\ UNCHANGED <<clients, channels, hub, handler, reader, send, closed, written,
                   panicked, history>>

\* The ticker fires and the ping fails.
PingError(c) ==
    /\ writer[c] = "loop"
    /\ conn[c] \in {"broken", "closed"}
    /\ writer' = [writer EXCEPT ![c] = "done"]
    /\ conn' = [conn EXCEPT ![c] = "closed"]
    /\ UNCHANGED <<clients, channels, hub, handler, reader, send, closed, written,
                   panicked, history>>

Pump(c) ==
    \/ StartPumps(c) \/ ReadError(c) \/ ReaderClose(c)
    \/ WriteMessage(c) \/ WriterClose(c) \/ PingError(c)

\* Every goroutine waits for something new; a deadlock is one that waits for
\* another.
Rest ==
    /\ hub = Selecting /\ broadcast = << >>
    /\ \A c \in Clients :
           \/ handler[c] = "absent"
           \/ conn[c] = "open" /\ reader[c] = "reading" /\ writer[c] = "loop" /\ send[c] = << >>
           \/ reader[c] = "done" /\ writer[c] = "done"
    /\ UNCHANGED vars

Next ==
    \/ Publish \/ Broadcast \/ EndBroadcast
    \/ \E u \in Users : BroadcastToAdmin(u)
    \/ \E c \in Clients : Connect(c) \/ Register(c) \/ Unregister(c) \/ PeerGone(c) \/ Pump(c)
    \/ Rest

Spec == Init /\ [][Next]_vars

\* Every goroutine that can run runs.  Run's select picks at random among its
\* ready cases, so that none of them is passed over for ever.
FairSpec ==
    /\ Spec
    /\ SF_vars(Broadcast)
    /\ WF_vars(EndBroadcast \/ \E u \in Users : BroadcastToAdmin(u))
    /\ \A c \in Clients :
           /\ SF_vars(Register(c)) /\ SF_vars(Unregister(c))
           /\ WF_vars(Pump(c))

-----------------------------------------------------------------------------
(* Safety. *)

\* No goroutine sends on or closes a closed channel, which would bring the
\* process down: although both the broadcast and the unregistration close
\* send, a client is closed only together with its removal from the map.
NeverPanics == ~panicked

Queued(c) == written[c] \o send[c]

\* A message reaches only clients of its user, or admins when its role is
\* ADMIN.
OnlyAddressees ==
    \A c \in Clients : \A i \in 1..Len(Queued(c)) :
        \/ Queued(c)[i].user = UserOf[c]
        \/ Queued(c)[i].role = "ADMIN" /\ c \in Admins

\* A client gets its messages in the order they were published, none twice.
InOrder ==
    \A c \in Clients : \A i \in 2..Len(Queued(c)) :
        Queued(c)[i - 1].id < Queued(c)[i].id

\* A registered client misses nothing: what it was written and still has
\* queued of its user's notifications is every one that Run took from the
\* broadcast channel since it registered, in that order and once each.
NothingSkipped ==
    /\ InOrder
    /\ \A c \in Registered : \A note \in Note :
           note.user = UserOf[c] =>
               ((\E i \in 1..Len(Queued(c)) : Queued(c)[i] = note)
                 <=> (\E i \in 1..Len(handled) : i > since[c] /\ handled[i] = note))

Given  == [c \in Clients |-> Queued(c)]
Status == [c \in Clients |-> IF c \in Registered THEN "joined"
                             ELSE IF handler[c] \in {"absent", "register"} THEN "away"
                             ELSE "left"]

Channel == INSTANCE NotificationChannel WITH
    Notes <- Note, log <- handled, got <- Given, status <- Status

\* The hub keeps the promise of NotificationChannel, its log being what Run
\* has taken from the broadcast channel: a connection gets every notification
\* of its user from registration to removal, once and in order, whatever the
\* pumps, the full queues and the loop over the admins do in between.
ImplementsChannel == Channel!Spec

-----------------------------------------------------------------------------
(* Liveness. *)

\* A connection whose peer is gone, or that was dropped for being slow, is
\* cleaned up: it leaves the map, both its goroutines end and the socket is
\* closed.
EndedIsCleanedUp ==
    \A c \in Clients :
        (conn[c] \in {"broken", "closed"} \/ c \in closed) ~>
            /\ c \notin Registered /\ conn[c] = "closed"
            /\ reader[c] = "done" /\ writer[c] = "done"

\* No client holds the hub up: the broadcast channel keeps moving, so the
\* subscriber is never blocked for ever.
HubKeepsMoving == (broadcast # << >> \/ hub # Selecting) ~> (hub = Selecting /\ broadcast = << >>)

=============================================================================
