------------------------- MODULE WebSocketHub_proofs -------------------------
(***************************************************************************)
(* Theorems about WebSocketHub, for any number of connections, users and   *)
(* notifications and any capacities of the channels.                       *)
(***************************************************************************)
EXTENDS WebSocketHub, SequenceTheorems, TLAPS

(* What makes closing safe: a client of the map is the user's own, has been *)
(* registered, and its channel is open; a closed channel belongs to a       *)
(* client that was registered, so that it is not registered again.          *)
MapInv ==
    /\ \A u \in DOMAIN clients : \A c \in clients[u] :
           UserOf[c] = u /\ c \notin closed /\ handler[c] \in {"start", "done"}
    /\ \A c \in closed : handler[c] \in {"start", "done"}

(* The pumps of a client run only once it has been registered. *)
PumpInv ==
    \A c \in Clients : handler[c] # "done" => reader[c] = "absent" /\ writer[c] = "absent"

(* The users still to be looked at by the second loop of a broadcast have an *)
(* entry in the map.                                                        *)
TodoInv == hub # Selecting => hub.todo \subseteq DOMAIN clients

HubInv == TypeOK /\ ~panicked /\ MapInv /\ PumpInv /\ TodoInv

-----------------------------------------------------------------------------
LEMMA HubInit == Init => HubInv
<1> SUFFICES ASSUME Init PROVE HubInv
  OBVIOUS
<1>1. /\ DOMAIN clients \subseteq Users /\ clients \in [DOMAIN clients -> SUBSET Clients]
      /\ hub \in Offering \cup {Selecting}
  BY DEF Init
<1>2. published \in 0..MaxNotes
  BY CapAssumption DEF Init
<1>3. TypeOK
  <2>1. Len(broadcast) <= BroadcastCap /\ \A c \in Clients : Len(send[c]) <= SendCap
    BY CapAssumption DEF Init
  <2>2. handled \in Seq(Note) /\ broadcast \in Seq(Note) /\ closed \subseteq Clients
        /\ send \in [Clients -> Seq(Note)] /\ written \in [Clients -> Seq(Note)]
    BY DEF Init
  <2>3. since \in [Clients -> Nat] /\ panicked \in BOOLEAN
    BY DEF Init
  <2>4. /\ handler \in [Clients -> {"absent", "register", "start", "done"}]
        /\ reader \in [Clients -> {"absent", "reading", "unregister", "closing", "done"}]
        /\ writer \in [Clients -> {"absent", "loop", "done"}]
        /\ conn \in [Clients -> {"none", "open", "broken", "closed"}]
    BY DEF Init
  <2>5. QED  BY <1>1, <1>2, <2>1, <2>2, <2>3, <2>4 DEF TypeOK
<1>4. MapInv /\ PumpInv /\ TodoInv /\ ~panicked
  BY DEF Init, MapInv, PumpInv, TodoInv
<1>5. QED  BY <1>3, <1>4 DEF HubInv

(* Offering a message to clients of the map closes only open channels, and   *)
(* takes out of the map whom it closes.                                      *)
LEMMA OfferKeepsMap ==
    ASSUME HubInv, NEW u \in Users, NEW S \in SUBSET ClientsOf(u),
           NEW note \in Note, Offer(S, note), UNCHANGED handler
    PROVE  /\ DOMAIN clients' = DOMAIN clients
           /\ clients' \in [DOMAIN clients -> SUBSET Clients]
           /\ send' \in [Clients -> Seq(Note)]
           /\ \A c \in Clients : Len(send'[c]) <= SendCap
           /\ closed' \subseteq Clients
           /\ panicked' = FALSE
           /\ MapInv'
<1> USE DEF HubInv
<1>1. S \subseteq Clients /\ S \cap closed = {}
  BY DEF ClientsOf, TypeOK, MapInv
<1>2. PICK dropped : /\ dropped = {c \in S : c \notin closed /\ Full(c)}
                     /\ send' = [c \in Clients |-> IF c \in S \ (dropped \cup closed)
                                                   THEN Append(send[c], note) ELSE send[c]]
                     /\ closed' = closed \cup dropped
                     /\ clients' = [v \in DOMAIN clients |-> clients[v] \ dropped]
                     /\ panicked' = (panicked \/ S \cap closed # {})
  BY DEF Offer
<1>3. dropped \subseteq S  BY <1>2
<1>4. /\ DOMAIN clients' = DOMAIN clients
      /\ clients' \in [DOMAIN clients -> SUBSET Clients]
  BY <1>2 DEF TypeOK
<1>5. send' \in [Clients -> Seq(Note)]  BY <1>2 DEF TypeOK
<1>10. ASSUME NEW c \in Clients PROVE Len(send'[c]) <= SendCap
  <2>1. send[c] \in Seq(Note) /\ Len(send[c]) <= SendCap /\ SendCap \in Nat
    BY CapAssumption DEF TypeOK
  <2>2. CASE c \in S \ (dropped \cup closed)
    <3>1. Len(send[c]) < SendCap  BY <1>2, <2>1, <2>2 DEF Full
    <3>2. send'[c] = Append(send[c], note)  BY <1>2, <2>2
    <3>3. QED  BY <2>1, <3>1, <3>2
  <2>3. CASE c \notin S \ (dropped \cup closed)
    BY <1>2, <2>1, <2>3
  <2>4. QED  BY <2>2, <2>3
<1>6. closed' \subseteq Clients  BY <1>1, <1>2, <1>3 DEF TypeOK
<1>7. panicked' = FALSE  BY <1>1, <1>2 DEF TypeOK
<1>8. MapInv'
  <2>1. \A c \in dropped : handler[c] \in {"start", "done"}
    BY <1>3 DEF ClientsOf, MapInv
  <2>2. QED  BY <1>2, <2>1 DEF MapInv
<1>9. QED  BY <1>4, <1>5, <1>6, <1>7, <1>8, <1>10

-----------------------------------------------------------------------------
(* The steps of Run. *)

LEMMA HubRun ==
    ASSUME HubInv,
           \/ Broadcast \/ EndBroadcast
           \/ \E u \in Users : BroadcastToAdmin(u)
           \/ \E c \in Clients : Register(c) \/ Unregister(c)
    PROVE  HubInv'
<1> USE DEF HubInv, channels, pumps, history
<1>1. CASE Broadcast
  <2> DEFINE note == Head(broadcast)
  <2>1. note \in Note /\ Tail(broadcast) \in Seq(Note)
    BY <1>1 DEF Broadcast, TypeOK
  <2>2. note.user \in Users /\ Offer(ClientsOf(note.user), note) /\ UNCHANGED handler
    BY <1>1, <2>1 DEF Broadcast, Note
  <2>3. /\ DOMAIN clients' = DOMAIN clients
        /\ clients' \in [DOMAIN clients -> SUBSET Clients]
        /\ send' \in [Clients -> Seq(Note)]
        /\ \A c \in Clients : Len(send'[c]) <= SendCap
        /\ closed' \subseteq Clients
        /\ panicked' = FALSE
        /\ MapInv'
    BY <2>1, <2>2, OfferKeepsMap
  <2>4. hub' \in Offering \cup {Selecting}
    <3>1. CASE note.role = "ADMIN"
      <4>1. hub' = [phase |-> "admins", note |-> note, todo |-> DOMAIN clients]
        BY <1>1, <3>1 DEF Broadcast
      <4>2. QED  BY <2>1, <4>1 DEF Offering, TypeOK
    <3>2. CASE note.role # "ADMIN"
      BY <1>1, <3>2 DEF Broadcast
    <3>3. QED  BY <3>1, <3>2
  <2>5. handled' \in Seq(Note)  BY <1>1, <2>1 DEF Broadcast, TypeOK
  <2>10. broadcast' \in Seq(Note) /\ Len(broadcast') <= BroadcastCap
    BY <1>1, <2>1, CapAssumption DEF Broadcast, TypeOK
  <2>6. TypeOK'
    BY <1>1, <2>10, <2>3, <2>4, <2>5 DEF Broadcast, TypeOK
  <2>7. PumpInv'  BY <1>1 DEF Broadcast, PumpInv
  <2>9. TodoInv'
    <3>1. hub' = Selecting \/ hub'.todo = DOMAIN clients
      BY <1>1 DEF Broadcast
    <3>2. QED  BY <2>3, <3>1 DEF TodoInv
  <2>8. QED  BY <2>3, <2>6, <2>7, <2>9
<1>2. CASE EndBroadcast
  <2>1. TypeOK'  BY <1>2 DEF EndBroadcast, TypeOK
  <2>2. QED  BY <1>2, <2>1 DEF EndBroadcast, MapInv, PumpInv, TodoInv
<1>3. ASSUME NEW u \in Users, BroadcastToAdmin(u) PROVE HubInv'
  <2>1. hub \in Offering  BY <1>3 DEF BroadcastToAdmin, TypeOK
  <2>2. hub.note \in Note /\ hub.todo \in SUBSET Users  BY <2>1 DEF Offering
  <2>3. hub' \in Offering  BY <1>3, <2>1 DEF BroadcastToAdmin, Offering
  <2>7. u \in DOMAIN clients  BY <1>3 DEF BroadcastToAdmin, TodoInv
  <2>8. hub'.todo \subseteq DOMAIN clients
    BY <1>3, <2>1 DEF BroadcastToAdmin, TodoInv, Offering
  <2>4. CASE UNCHANGED <<clients, send, closed, panicked>>
    <3>1. TypeOK'  BY <1>3, <2>3, <2>4 DEF BroadcastToAdmin, TypeOK
    <3>2. QED  BY <1>3, <2>4, <2>8, <3>1 DEF BroadcastToAdmin, MapInv, PumpInv, TodoInv
  <2>5. ASSUME NEW c \in clients[u] \cap Admins, Offer({c}, hub.note) PROVE HubInv'
    <3>1. {c} \in SUBSET ClientsOf(u)  BY <2>5, <2>7 DEF ClientsOf
    <3>2. UNCHANGED handler  BY <1>3 DEF BroadcastToAdmin
    <3>3. /\ DOMAIN clients' = DOMAIN clients
          /\ clients' \in [DOMAIN clients -> SUBSET Clients]
          /\ send' \in [Clients -> Seq(Note)]
          /\ \A d \in Clients : Len(send'[d]) <= SendCap
          /\ closed' \subseteq Clients
          /\ panicked' = FALSE
          /\ MapInv'
      BY <2>2, <2>5, <3>1, <3>2, OfferKeepsMap
    <3>4. TypeOK'  BY <1>3, <2>3, <3>3 DEF BroadcastToAdmin, TypeOK
    <3>5. PumpInv'  BY <1>3 DEF BroadcastToAdmin, PumpInv
    <3>6. TodoInv'  BY <2>8, <3>3 DEF TodoInv
    <3>7. QED  BY <3>3, <3>4, <3>5, <3>6
  <2>6. QED  BY <1>3, <2>4, <2>5 DEF BroadcastToAdmin
<1>4. ASSUME NEW c \in Clients, Register(c) PROVE HubInv'
  <2>1. UserOf[c] \in Users  BY UserOfAssumption
  <2>2. c \notin closed /\ handler[c] = "register"
    BY <1>4 DEF Register, MapInv
  <2>3. clients' = [u \in DOMAIN clients \cup {UserOf[c]} |->
                        IF u = UserOf[c] THEN ClientsOf(u) \cup {c} ELSE clients[u]]
    BY <1>4 DEF Register
  <2>4. DOMAIN clients' \subseteq Users /\ clients' \in [DOMAIN clients' -> SUBSET Clients]
    BY <2>1, <2>3 DEF TypeOK, ClientsOf
  <2>5. since' \in [Clients -> Nat]
    BY <1>4 DEF Register, TypeOK
  <2>6. handler' = [handler EXCEPT ![c] = "start"]
    BY <1>4 DEF Register
  <2>7. TypeOK'
    BY <1>4, <2>4, <2>5, <2>6 DEF Register, TypeOK
  <2>8. MapInv'
    BY <1>4, <2>2, <2>3, <2>6 DEF Register, MapInv, ClientsOf, TypeOK
  <2>9. PumpInv'
    BY <1>4, <2>2, <2>6 DEF Register, PumpInv, TypeOK
  <2>10. TodoInv'  BY <1>4 DEF Register, TodoInv
  <2>11. QED  BY <1>4, <2>7, <2>8, <2>9, <2>10 DEF Register
<1>5. ASSUME NEW c \in Clients, Unregister(c) PROVE HubInv'
  <2>1. handler[c] = "done" /\ UserOf[c] \in Users
    BY <1>5, UserOfAssumption DEF Unregister, PumpInv, TypeOK
  <2>2. reader' = [reader EXCEPT ![c] = "closing"]  BY <1>5 DEF Unregister
  <2>3. PumpInv'  BY <1>5, <2>1, <2>2 DEF Unregister, PumpInv, TypeOK
  <2>7. TodoInv'  BY <1>5 DEF Unregister, TodoInv
  <2>4. CASE c \notin ClientsOf(UserOf[c])
    <3>1. UNCHANGED <<clients, closed, panicked>>  BY <1>5, <2>4 DEF Unregister
    <3>2. TypeOK'  BY <1>5, <2>2, <3>1 DEF Unregister, TypeOK
    <3>3. MapInv'  BY <1>5, <3>1 DEF Unregister, MapInv
    <3>4. QED  BY <2>3, <2>7, <3>1, <3>2, <3>3
  <2>5. CASE c \in ClientsOf(UserOf[c])
    <3>1. UserOf[c] \in DOMAIN clients /\ c \in clients[UserOf[c]]
      BY <2>5 DEF ClientsOf
    <3>2. PICK kept \in SUBSET DOMAIN clients :
              clients' = [u \in kept |-> IF u = UserOf[c] THEN clients[u] \ {c} ELSE clients[u]]
      <4>1. CASE clients[UserOf[c]] \ {c} = {}
        BY <1>5, <2>5, <4>1 DEF Unregister
      <4>2. CASE clients[UserOf[c]] \ {c} # {}
        BY <1>5, <2>5, <4>2 DEF Unregister
      <4>3. QED  BY <4>1, <4>2
    <3>3. closed' = closed \cup {c} /\ panicked' = (panicked \/ c \in closed)
      BY <1>5, <2>5 DEF Unregister
    <3>4. c \notin closed  BY <3>1 DEF MapInv
    <3>5. panicked' = FALSE  BY <3>3, <3>4 DEF TypeOK
    <3>6. DOMAIN clients' \subseteq Users /\ clients' \in [DOMAIN clients' -> SUBSET Clients]
      BY <3>2 DEF TypeOK
    <3>7. TypeOK'  BY <1>5, <2>2, <3>3, <3>5, <3>6 DEF Unregister, TypeOK
    <3>8. MapInv'  BY <1>5, <2>1, <3>2, <3>3 DEF Unregister, MapInv
    <3>9. QED  BY <2>3, <2>7, <3>5, <3>7, <3>8
  <2>6. QED  BY <2>4, <2>5
<1>6. QED  BY <1>1, <1>2, <1>3, <1>4, <1>5

-----------------------------------------------------------------------------
(* The steps of the other goroutines. *)

LEMMA HubOthers ==
    ASSUME HubInv,
           \/ Publish
           \/ \E c \in Clients : Connect(c) \/ PeerGone(c) \/ Pump(c)
           \/ UNCHANGED vars
    PROVE  HubInv'
<1> USE DEF HubInv, channels, pumps, history
<1>1. CASE Publish
  <2>1. PICK f \in Feed :
            broadcast' = Append(broadcast, [id |-> published + 1, user |-> f.user, role |-> f.role])
    BY <1>1 DEF Publish
  <2>2. f.user \in Users /\ f.role \in {"USER", "ADMIN"}
    BY FeedAssumption
  <2>3. published + 1 \in 1..MaxNotes /\ published' \in 0..MaxNotes
    BY <1>1, CapAssumption DEF Publish, TypeOK
  <2>4. [id |-> published + 1, user |-> f.user, role |-> f.role] \in Note
    BY <2>2, <2>3 DEF Note
  <2>5. broadcast' \in Seq(Note) /\ Len(broadcast') <= BroadcastCap
    BY <1>1, <2>1, <2>4, CapAssumption DEF Publish, TypeOK
  <2>6. TypeOK'  BY <1>1, <2>3, <2>5 DEF Publish, TypeOK
  <2>7. QED  BY <1>1, <2>6 DEF Publish, MapInv, PumpInv, TodoInv
<1>2. ASSUME NEW c \in Clients, Connect(c) PROVE HubInv'
  <2>1. TypeOK'  BY <1>2 DEF Connect, TypeOK
  <2>2. MapInv'  BY <1>2 DEF Connect, MapInv, TypeOK
  <2>3. PumpInv' /\ TodoInv'  BY <1>2 DEF Connect, PumpInv, TodoInv, TypeOK
  <2>4. QED  BY <1>2, <2>1, <2>2, <2>3 DEF Connect
<1>3. ASSUME NEW c \in Clients, PeerGone(c) PROVE HubInv'
  <2>1. TypeOK'  BY <1>3 DEF PeerGone, TypeOK
  <2>2. QED  BY <1>3, <2>1 DEF PeerGone, MapInv, PumpInv, TodoInv
<1>4. ASSUME NEW c \in Clients, StartPumps(c) PROVE HubInv'
  <2>1. TypeOK'  BY <1>4 DEF StartPumps, TypeOK
  <2>2. MapInv'  BY <1>4 DEF StartPumps, MapInv, TypeOK
  <2>3. PumpInv' /\ TodoInv'  BY <1>4 DEF StartPumps, PumpInv, TodoInv, TypeOK
  <2>4. QED  BY <1>4, <2>1, <2>2, <2>3 DEF StartPumps
<1>5. ASSUME NEW c \in Clients, ReadError(c) \/ ReaderClose(c) PROVE HubInv'
  <2>1. TypeOK'  BY <1>5 DEF ReadError, ReaderClose, TypeOK
  <2>2. MapInv' /\ TodoInv'  BY <1>5 DEF ReadError, ReaderClose, MapInv, TodoInv
  <2>3. PumpInv'  BY <1>5 DEF ReadError, ReaderClose, PumpInv, TypeOK
  <2>4. QED  BY <1>5, <2>1, <2>2, <2>3 DEF ReadError, ReaderClose
<1>6. ASSUME NEW c \in Clients, WriteMessage(c) PROVE HubInv'
  <2>1. send[c] \in Seq(Note) /\ send[c] # << >> /\ Len(send[c]) <= SendCap
    BY <1>6 DEF WriteMessage, TypeOK
  <2>2. Head(send[c]) \in Note /\ Tail(send[c]) \in Seq(Note) /\ Len(Tail(send[c])) <= SendCap
    BY <2>1, CapAssumption
  <2>3. /\ send' \in [Clients -> Seq(Note)] /\ written' \in [Clients -> Seq(Note)]
        /\ \A d \in Clients : Len(send'[d]) <= SendCap
    BY <1>6, <2>2 DEF WriteMessage, TypeOK
  <2>4. TypeOK'  BY <1>6, <2>3 DEF WriteMessage, TypeOK
  <2>5. QED  BY <1>6, <2>4 DEF WriteMessage, MapInv, PumpInv, TodoInv
<1>7. ASSUME NEW c \in Clients, WriterClose(c) \/ PingError(c) PROVE HubInv'
  <2>1. TypeOK'  BY <1>7 DEF WriterClose, PingError, TypeOK
  <2>2. MapInv' /\ TodoInv'  BY <1>7 DEF WriterClose, PingError, MapInv, TodoInv
  <2>3. PumpInv'  BY <1>7 DEF WriterClose, PingError, PumpInv, TypeOK
  <2>4. QED  BY <1>7, <2>1, <2>2, <2>3 DEF WriterClose, PingError
<1>8. CASE UNCHANGED vars
  BY <1>8 DEF vars, TypeOK, MapInv, PumpInv, TodoInv
<1>9. QED  BY <1>1, <1>2, <1>3, <1>4, <1>5, <1>6, <1>7, <1>8 DEF Pump

THEOREM HubInvariant == Spec => []HubInv
<1>1. HubInv /\ [Next]_vars => HubInv'
  BY HubRun, HubOthers DEF Next, Rest
<1>2. QED  BY HubInit, <1>1, PTL DEF Spec

(* The state has its type and no channel ever holds more than its capacity. *)
THEOREM TypeCorrect == Spec => []TypeOK
<1>1. HubInv => TypeOK  BY DEF HubInv
<1>2. QED  BY HubInvariant, <1>1, PTL

(* No goroutine ever sends on, or closes, a closed channel, in whatever      *)
(* order clients come and go, messages arrive and queues fill up, although   *)
(* send is closed in three places and no flag says that it was.              *)
THEOREM HubNeverPanics == Spec => []NeverPanics
<1>1. HubInv => NeverPanics  BY DEF HubInv, NeverPanics
<1>2. QED  BY HubInvariant, <1>1, PTL

-----------------------------------------------------------------------------
(* Who gets a message. *)

Addressed(c, note) ==
    note.user = UserOf[c] \/ (note.role = "ADMIN" /\ c \in Admins)

AllAddressed(c, notes) == \A i \in 1..Len(notes) : Addressed(c, notes[i])

(* Whatever is queued or written is addressed to the client, and the second  *)
(* loop runs only for notes of role ADMIN.                                   *)
AddressInv ==
    /\ \A c \in Clients : AllAddressed(c, send[c]) /\ AllAddressed(c, written[c])
    /\ hub # Selecting => hub.note.role = "ADMIN"

LEMMA OfferKeepsAddressed ==
    ASSUME HubInv, AddressInv, NEW S \in SUBSET Clients, NEW note \in Note,
           \A c \in S : Addressed(c, note), Offer(S, note)
    PROVE  \A c \in Clients : AllAddressed(c, send'[c])
<1> SUFFICES ASSUME NEW c \in Clients PROVE AllAddressed(c, send'[c])
  OBVIOUS
<1>1. send[c] \in Seq(Note) /\ AllAddressed(c, send[c])
  BY DEF HubInv, TypeOK, AddressInv
<1>2. send'[c] = send[c] \/ (c \in S /\ send'[c] = Append(send[c], note))
  BY DEF Offer
<1>3. CASE send'[c] = send[c]  BY <1>1, <1>3
<1>4. CASE c \in S /\ send'[c] = Append(send[c], note)
  BY <1>1, <1>4 DEF AllAddressed
<1>5. QED  BY <1>2, <1>3, <1>4

LEMMA ConcatAddressed ==
    ASSUME NEW CONSTANT c \in Clients, NEW s \in Seq(Note), NEW t \in Seq(Note),
           AllAddressed(c, s), AllAddressed(c, t)
    PROVE  AllAddressed(c, s \o t)
<1> SUFFICES ASSUME NEW i \in 1..Len(s \o t) PROVE Addressed(c, (s \o t)[i])
  BY DEF AllAddressed
<1>1. Len(s) \in Nat /\ Len(t) \in Nat /\ Len(s \o t) = Len(s) + Len(t) /\ i \in Nat /\ i >= 1
  OBVIOUS
<1>2. CASE i <= Len(s)
  BY <1>1, <1>2 DEF AllAddressed
<1>3. CASE i > Len(s)
  <2>1. i - Len(s) \in 1..Len(t) /\ (s \o t)[i] = t[i - Len(s)]
    BY <1>1, <1>3
  <2>2. QED  BY <2>1 DEF AllAddressed
<1>4. QED  BY <1>1, <1>2, <1>3

LEMMA AddressStep == HubInv /\ AddressInv /\ [Next]_vars => AddressInv'
<1> SUFFICES ASSUME HubInv, AddressInv, [Next]_vars PROVE AddressInv'
  OBVIOUS
<1> USE DEF channels, pumps, history
<1>1. CASE Broadcast
  <2> DEFINE note == Head(broadcast)
  <2>1. note \in Note  BY <1>1 DEF Broadcast, HubInv, TypeOK
  <2>2. \A c \in ClientsOf(note.user) : c \in Clients /\ UserOf[c] = note.user
    BY DEF ClientsOf, HubInv, TypeOK, MapInv
  <2>3. /\ ClientsOf(note.user) \in SUBSET Clients
        /\ \A c \in ClientsOf(note.user) : Addressed(c, note)
    BY <2>2 DEF Addressed
  <2>4. Offer(ClientsOf(note.user), note)  BY <1>1 DEF Broadcast
  <2>5. \A c \in Clients : AllAddressed(c, send'[c])
    BY <2>1, <2>3, <2>4, OfferKeepsAddressed
  <2>6. hub' # Selecting => hub'.note.role = "ADMIN"  BY <1>1 DEF Broadcast
  <2>7. UNCHANGED written  BY <1>1 DEF Broadcast
  <2>8. QED  BY <2>5, <2>6, <2>7 DEF AddressInv
<1>2. ASSUME NEW u \in Users, BroadcastToAdmin(u) PROVE AddressInv'
  <2>1. hub \in Offering /\ hub.note.role = "ADMIN"
    BY <1>2 DEF BroadcastToAdmin, HubInv, TypeOK, AddressInv
  <2>2. hub.note \in Note /\ hub'.note = hub.note
    BY <1>2, <2>1 DEF BroadcastToAdmin, Offering
  <2>3. UNCHANGED written  BY <1>2 DEF BroadcastToAdmin
  <2>4. CASE UNCHANGED <<clients, send, closed, panicked>>
    BY <2>1, <2>2, <2>3, <2>4 DEF AddressInv
  <2>5. ASSUME NEW c \in clients[u] \cap Admins, Offer({c}, hub.note) PROVE AddressInv'
    <3>1. {c} \in SUBSET Clients /\ \A d \in {c} : Addressed(d, hub.note)
      BY <2>1, AdminsAssumption DEF Addressed
    <3>2. \A d \in Clients : AllAddressed(d, send'[d])
      BY <2>2, <2>5, <3>1, OfferKeepsAddressed
    <3>3. QED  BY <2>1, <2>2, <2>3, <3>2 DEF AddressInv
  <2>6. QED  BY <1>2, <2>4, <2>5 DEF BroadcastToAdmin
<1>3. ASSUME NEW c \in Clients, WriteMessage(c) PROVE AddressInv'
  <2>1. /\ send[c] \in Seq(Note) /\ send[c] # << >> /\ written[c] \in Seq(Note)
        /\ AllAddressed(c, send[c]) /\ AllAddressed(c, written[c])
    BY <1>3 DEF WriteMessage, HubInv, TypeOK, AddressInv
  <2>2. AllAddressed(c, Tail(send[c]))
    BY <2>1 DEF AllAddressed
  <2>3. Addressed(c, Head(send[c]))
    BY <2>1 DEF AllAddressed
  <2>4. AllAddressed(c, Append(written[c], Head(send[c])))
    BY <2>1, <2>3 DEF AllAddressed
  <2>5. /\ send' = [send EXCEPT ![c] = Tail(send[c])]
        /\ written' = [written EXCEPT ![c] = Append(written[c], Head(send[c]))]
        /\ hub' = hub
    BY <1>3 DEF WriteMessage
  <2>6. ASSUME NEW d \in Clients PROVE AllAddressed(d, send'[d]) /\ AllAddressed(d, written'[d])
    <3>1. CASE d = c  BY <2>2, <2>4, <2>5, <3>1 DEF HubInv, TypeOK
    <3>2. CASE d # c  BY <2>5, <3>2 DEF HubInv, TypeOK, AddressInv
    <3>3. QED  BY <3>1, <3>2
  <2>7. QED  BY <2>5, <2>6 DEF AddressInv
<1>4. CASE EndBroadcast
  BY <1>4 DEF EndBroadcast, AddressInv
<1>5. CASE Publish \/ Rest \/ UNCHANGED vars
  BY <1>5 DEF Publish, Rest, vars, AddressInv
<1>6. ASSUME NEW c \in Clients,
             \/ Connect(c) \/ Register(c) \/ Unregister(c) \/ PeerGone(c)
             \/ StartPumps(c) \/ ReadError(c) \/ ReaderClose(c) \/ WriterClose(c) \/ PingError(c)
      PROVE  AddressInv'
  <2>1. UNCHANGED <<send, written>>
    BY <1>6 DEF Connect, Register, Unregister, PeerGone, StartPumps, ReadError,
                ReaderClose, WriterClose, PingError
  <2>2. UNCHANGED hub
    BY <1>6 DEF Connect, Register, Unregister, PeerGone, StartPumps, ReadError,
                ReaderClose, WriterClose, PingError
  <2>3. QED  BY <2>1, <2>2 DEF AddressInv
<1>7. QED  BY <1>1, <1>2, <1>3, <1>4, <1>5, <1>6 DEF Next, Pump

(* A message reaches only clients of the user it names, and admins when its  *)
(* role is ADMIN: no customer is sent another customer's notification.       *)
THEOREM OnlyAddresseesAreSentTo == Spec => []OnlyAddressees
<1>1. Init => AddressInv
  BY DEF Init, AddressInv, AllAddressed
<1>2. HubInv /\ AddressInv => OnlyAddressees
  <2> SUFFICES ASSUME HubInv, AddressInv, NEW c \in Clients, NEW i \in 1..Len(Queued(c))
               PROVE  Addressed(c, Queued(c)[i])
    BY DEF OnlyAddressees, Addressed
  <2>1. /\ send[c] \in Seq(Note) /\ written[c] \in Seq(Note)
        /\ AllAddressed(c, send[c]) /\ AllAddressed(c, written[c])
    BY DEF HubInv, TypeOK, AddressInv
  <2>2. AllAddressed(c, written[c] \o send[c])
    BY <2>1, ConcatAddressed
  <2>3. QED  BY <2>2 DEF Queued, AllAddressed
<1>3. QED  BY HubInvariant, <1>1, <1>2, AddressStep, PTL DEF Spec

-----------------------------------------------------------------------------
(***************************************************************************)
(* The hub implements NotificationChannel: for any number of connections,  *)
(* users and notifications and any capacities of the channels.             *)
(***************************************************************************)

(* Notifications for all admins name a user who has no connection           *)
(* (sendAdminNotification: userId "all").                                   *)
ForNobody(note) == note.role = "ADMIN" => \A c \in Clients : UserOf[c] # note.user
AdminFeed == \A f \in Feed : ForNobody(f)

-----------------------------------------------------------------------------
(* The order of notifications. *)

Rising(s)   == \A i, j \in 1..Len(s) : i < j => s[i].id < s[j].id
Below(s, n) == \A i \in 1..Len(s) : s[i].id < n

(* What was taken from the broadcast channel is older than what is in it.   *)
Older(s, queue, last) ==
    \A i \in 1..Len(s) : s[i].id <= last
                         /\ \A j \in 1..Len(queue) : s[i].id < queue[j].id

(* The broadcast channel is in order and what clients were given is older.  *)
QueueInv ==
    /\ Rising(broadcast)
    /\ \A j \in 1..Len(broadcast) : broadcast[j].id <= published /\ ForNobody(broadcast[j])
    /\ \A c \in Clients : Rising(Queued(c)) /\ Older(Queued(c), broadcast, published)

(* Who has not been registered has been given nothing. *)
FreshInv ==
    \A c \in Clients : handler[c] \in {"absent", "register"} =>
        send[c] = << >> /\ written[c] = << >>

(* The note the second loop offers is the last one taken, and new to every  *)
(* client of the users the loop has yet to come to.                         *)
LoopInv ==
    hub # Selecting =>
        /\ handled # << >> /\ hub.note = handled[Len(handled)]
        /\ hub.note.role = "ADMIN" /\ Older(<<hub.note>>, broadcast, published)
        /\ \A u \in hub.todo : \A c \in clients[u] : Below(Queued(c), hub.note.id)

OrderInv == QueueInv /\ FreshInv /\ LoopInv

-----------------------------------------------------------------------------
(* Sequences. *)

LEMMA IdsAreNumbers == \A note \in Note : note.id \in Nat
  BY CapAssumption DEF Note

LEMMA RisingAppend ==
    ASSUME NEW s \in Seq(Note), NEW note \in Note, Rising(s), Below(s, note.id)
    PROVE  Rising(Append(s, note))
  BY DEF Rising, Below

LEMMA ConcatAppend ==
    ASSUME NEW s \in Seq(Note), NEW t \in Seq(Note), NEW note \in Note
    PROVE  s \o Append(t, note) = Append(s \o t, note)
<1>1. <<note>> \in Seq(Note) /\ s \o t \in Seq(Note)
  OBVIOUS
<1>2. Append(t, note) = t \o <<note>>  BY AppendIsConcat
<1>3. Append(s \o t, note) = (s \o t) \o <<note>>  BY <1>1, AppendIsConcat
<1>4. s \o (t \o <<note>>) = (s \o t) \o <<note>>
  BY <1>1, ConcatAssociative
<1>5. QED  BY <1>2, <1>3, <1>4

LEMMA MoveHead ==
    ASSUME NEW s \in Seq(Note), NEW t \in Seq(Note), t # << >>
    PROVE  Append(s, Head(t)) \o Tail(t) = s \o t
<1>1. /\ Head(t) \in Note /\ Tail(t) \in Seq(Note) /\ <<Head(t)>> \in Seq(Note)
      /\ t = <<Head(t)>> \o Tail(t)
  BY HeadTailProperties, ConcatSimplifications
<1>2. Append(s, Head(t)) = s \o <<Head(t)>>  BY <1>1, AppendIsConcat
<1>3. (s \o <<Head(t)>>) \o Tail(t) = s \o (<<Head(t)>> \o Tail(t))
  BY <1>1, ConcatAssociative
<1>4. QED  BY <1>1, <1>2, <1>3

LEMMA QueuedType ==
    ASSUME TypeOK, NEW c \in Clients
    PROVE  /\ send[c] \in Seq(Note) /\ written[c] \in Seq(Note)
           /\ Queued(c) \in Seq(Note) /\ Queued(c) = written[c] \o send[c]
  BY DEF TypeOK, Queued

-----------------------------------------------------------------------------
(* What offering a note to a set of registered clients does. *)

LEMMA OfferGives ==
    ASSUME TypeOK, MapInv, NEW S \in SUBSET Registered, NEW note \in Note, Offer(S, note),
           UNCHANGED written
    PROVE  /\ \A c \in Clients :
                  Queued(c)' = IF c \in S /\ ~Full(c) THEN Append(Queued(c), note) ELSE Queued(c)
           /\ Registered' = Registered \ {c \in S : Full(c)}
           /\ \A u \in DOMAIN clients : clients'[u] \subseteq clients[u]
           /\ DOMAIN clients' = DOMAIN clients
<1>1. S \subseteq Clients /\ S \cap closed = {}
  BY DEF Registered, ClientsOf, MapInv
<1>2. ASSUME NEW c \in Clients
      PROVE  Queued(c)' = IF c \in S /\ ~Full(c) THEN Append(Queued(c), note) ELSE Queued(c)
  <2>1. send'[c] = IF c \in S /\ ~Full(c) THEN Append(send[c], note) ELSE send[c]
    BY <1>1, <1>2 DEF Offer
  <2>2. Queued(c)' = written[c] \o send'[c]  BY DEF Queued
  <2>3. QED  BY <2>1, <2>2, QueuedType, ConcatAppend
<1>3. Registered' = Registered \ {c \in S : Full(c)}
  <2>1. clients' = [u \in DOMAIN clients |-> clients[u] \ {c \in S : Full(c)}]
    BY <1>1 DEF Offer
  <2>2. QED  BY <2>1 DEF Registered, ClientsOf
<1>4. QED  BY <1>2, <1>3 DEF Offer

-----------------------------------------------------------------------------
(* The order is kept: one lemma for each kind of step. *)

LEMMA OrderInit == AdminFeed /\ Init => OrderInv
<1> SUFFICES ASSUME Init PROVE OrderInv
  OBVIOUS
<1>1. broadcast = << >> /\ hub = Selecting
      /\ \A c \in Clients : send[c] = << >> /\ written[c] = << >>
  BY DEF Init
<1>2. \A c \in Clients : Queued(c) = << >>
  BY <1>1 DEF Queued
<1>3. QED  BY <1>1, <1>2 DEF OrderInv, QueueInv, FreshInv, LoopInv, Rising, Older

LEMMA OrderPublish ==
    ASSUME AdminFeed, HubInv, OrderInv, Publish
    PROVE  OrderInv'
<1>1. PICK f \in Feed :
          broadcast' = Append(broadcast, [id |-> published + 1, user |-> f.user, role |-> f.role])
  BY DEF Publish
<1> DEFINE note == [id |-> published + 1, user |-> f.user, role |-> f.role]
<1>2. /\ published \in Nat /\ published' = published + 1 /\ broadcast \in Seq(Note)
      /\ UNCHANGED <<clients, hub, handler, send, written, handled>>
  BY CapAssumption DEF Publish, HubInv, TypeOK, pumps, history
<1>3. ForNobody(note)
  BY DEF AdminFeed, ForNobody
<1>4. note \in Note
  BY <1>2, CapAssumption, FeedAssumption DEF Publish, HubInv, TypeOK, Note
<1>5. /\ Len(broadcast') = Len(broadcast) + 1
      /\ \A j \in 1..Len(broadcast') :
             \/ j \in 1..Len(broadcast) /\ broadcast'[j] = broadcast[j]
             \/ j = Len(broadcast) + 1 /\ broadcast'[j] = note
      /\ \A j \in 1..Len(broadcast) : broadcast'[j] = broadcast[j]
  BY <1>1, <1>2, <1>4
<1>6. \A s \in Seq(Note) : Older(s, broadcast, published) => Older(s, broadcast', published')
  <2> SUFFICES ASSUME NEW s \in Seq(Note), Older(s, broadcast, published), NEW i \in 1..Len(s)
               PROVE  /\ s[i].id <= published'
                      /\ \A j \in 1..Len(broadcast') : s[i].id < broadcast'[j].id
    BY DEF Older
  <2>0. s[i] \in Note  OBVIOUS
  <2>1. s[i].id \in Nat /\ s[i].id <= published
    BY <2>0, IdsAreNumbers DEF Older
  <2>2. QED  BY <1>2, <1>5, <2>1 DEF Older
<1>7. \A c \in Clients : Queued(c)' = Queued(c) /\ Queued(c) \in Seq(Note)
  BY <1>2, QueuedType DEF HubInv, Queued
<1>8. \A j \in 1..Len(broadcast) : broadcast[j].id \in Nat /\ broadcast[j].id <= published
                                   /\ ForNobody(broadcast[j])
  <2>1. \A j \in 1..Len(broadcast) : broadcast[j] \in Note  BY <1>2
  <2>2. QED  BY <2>1, IdsAreNumbers DEF OrderInv, QueueInv
<1>9. Rising(broadcast')
  <2>1. Rising(broadcast) /\ Below(broadcast, published + 1)
    BY <1>2, <1>8 DEF OrderInv, QueueInv, Below
  <2>2. QED  BY <1>1, <1>2, <1>4, <2>1, RisingAppend
<1>10. \A j \in 1..Len(broadcast') : broadcast'[j].id <= published' /\ ForNobody(broadcast'[j])
  BY <1>2, <1>3, <1>5, <1>8
<1>11. QueueInv'
  BY <1>6, <1>7, <1>9, <1>10 DEF OrderInv, QueueInv, ForNobody, Rising
<1>12. FreshInv'
  BY <1>2 DEF OrderInv, FreshInv
<1>13. LoopInv'
  <2>1. hub # Selecting => Older(<<hub.note>>, broadcast', published')
    <3>1. hub # Selecting => <<hub.note>> \in Seq(Note)
      BY DEF HubInv, TypeOK, Offering
    <3>2. QED  BY <1>6, <3>1 DEF OrderInv, LoopInv
  <2>2. ASSUME hub # Selecting, NEW u \in hub.todo, NEW c \in clients[u]
        PROVE  Below(Queued(c)', hub.note.id)
    <3>1. u \in DOMAIN clients /\ c \in Clients
      BY <2>2 DEF HubInv, TypeOK, TodoInv
    <3>2. QED  BY <1>7, <2>2, <3>1 DEF OrderInv, LoopInv
  <2>3. QED  BY <1>2, <2>1, <2>2 DEF OrderInv, LoopInv
<1>14. QED  BY <1>11, <1>12, <1>13 DEF OrderInv

(* Broadcast offers a note newer than all that clients have; when it is for  *)
(* all admins nobody has it yet.                                             *)
LEMMA OrderBroadcast ==
    ASSUME HubInv, OrderInv, Broadcast
    PROVE  OrderInv'
<1> DEFINE note == Head(broadcast)
           S == ClientsOf(note.user)
<1>1. /\ broadcast \in Seq(Note) /\ broadcast # << >> /\ note = broadcast[1] /\ note \in Note
      /\ Len(broadcast') = Len(broadcast) - 1 /\ broadcast' = Tail(broadcast)
      /\ \A j \in 1..Len(broadcast') : j + 1 \in 1..Len(broadcast)
                                       /\ broadcast'[j] = broadcast[j + 1]
  BY HeadTailProperties DEF Broadcast, HubInv, TypeOK
<1>2. /\ UNCHANGED <<published, handler, written>> /\ Offer(S, note)
      /\ handled' = Append(handled, note) /\ handled \in Seq(Note)
      /\ hub' = IF note.role = "ADMIN"
                THEN [phase |-> "admins", note |-> note, todo |-> DOMAIN clients]
                ELSE Selecting
  BY DEF Broadcast, pumps, HubInv, TypeOK
<1>3. S \subseteq Registered /\ \A c \in S : UserOf[c] = note.user
  BY DEF ClientsOf, Registered, HubInv, TypeOK, MapInv
<1>4. /\ \A c \in Clients :
             Queued(c)' = IF c \in S /\ ~Full(c) THEN Append(Queued(c), note) ELSE Queued(c)
      /\ \A u \in DOMAIN clients : clients'[u] \subseteq clients[u]
      /\ DOMAIN clients' = DOMAIN clients
  BY <1>1, <1>2, <1>3, OfferGives DEF HubInv
<1>5. \A c \in Clients : Queued(c) \in Seq(Note) /\ Below(Queued(c), note.id) /\ Rising(Queued(c))
                         /\ Older(Queued(c), broadcast, published)
  <2>1. 1 \in 1..Len(broadcast)  BY <1>1
  <2>2. QED  BY <1>1, <2>1, QueuedType DEF HubInv, OrderInv, QueueInv, Older, Below
<1>6. /\ note.id \in Nat /\ note.id <= published /\ published \in Nat /\ ForNobody(note)
      /\ \A j \in 1..Len(broadcast') : note.id < broadcast'[j].id
      /\ \A j \in 1..Len(broadcast') : broadcast'[j].id <= published /\ ForNobody(broadcast'[j])
  <2>1. \A j \in 1..Len(broadcast) : broadcast[j].id <= published /\ ForNobody(broadcast[j])
    BY DEF OrderInv, QueueInv
  <2>2. 1 \in 1..Len(broadcast)
    BY <1>1
  <2>3. \A j \in 1..Len(broadcast') : 1 < j + 1
    BY <1>1
  <2>4. published \in Nat  BY CapAssumption DEF HubInv, TypeOK
  <2>5. QED  BY <1>1, <2>1, <2>2, <2>3, <2>4 DEF OrderInv, QueueInv, Rising, Note
<1>7. \A s \in Seq(Note) : Older(s, broadcast, published) => Older(s, broadcast', published')
  BY <1>1, <1>2 DEF Older
<1>8. ASSUME NEW c \in Clients PROVE Rising(Queued(c)') /\ Older(Queued(c)', broadcast', published')
  <2>1. CASE Queued(c)' = Queued(c)
    BY <1>5, <1>7, <2>1
  <2>2. CASE Queued(c)' = Append(Queued(c), note)
    <3>1. Rising(Queued(c)')  BY <1>1, <1>5, <2>2, RisingAppend
    <3>2. Older(Queued(c)', broadcast', published')
      <4> SUFFICES ASSUME NEW i \in 1..Len(Queued(c)')
                   PROVE  /\ Queued(c)'[i].id <= published'
                          /\ \A j \in 1..Len(broadcast') : Queued(c)'[i].id < broadcast'[j].id
        BY DEF Older
      <4>1. \/ i \in 1..Len(Queued(c)) /\ Queued(c)'[i] = Queued(c)[i]
            \/ Queued(c)'[i] = note
        BY <1>1, <1>5, <2>2
      <4>2. QED  BY <1>1, <1>2, <1>5, <1>6, <1>7, <4>1 DEF Older
    <3>3. QED  BY <3>1, <3>2
  <2>3. QED  BY <1>4, <2>1, <2>2
<1>9. Rising(broadcast')
  BY <1>1 DEF OrderInv, QueueInv, Rising
<1>10. QueueInv'
  BY <1>6, <1>2, <1>8, <1>9 DEF QueueInv, ForNobody, Rising
<1>11. FreshInv'
  <2>1. ASSUME NEW c \in Clients, handler[c] \in {"absent", "register"} PROVE send'[c] = send[c]
    <3>1. c \notin S  BY <1>3, <2>1 DEF HubInv, MapInv, Registered, ClientsOf
    <3>2. QED  BY <1>2, <3>1 DEF Offer
  <2>2. QED  BY <1>2, <2>1 DEF OrderInv, FreshInv
<1>12. LoopInv'
  <2> SUFFICES ASSUME hub' # Selecting PROVE LoopInv'
    BY DEF LoopInv
  <2>1. note.role = "ADMIN" /\ hub' = [phase |-> "admins", note |-> note, todo |-> DOMAIN clients]
    BY <1>2
  <2>2. hub'.note = note /\ hub'.todo = DOMAIN clients
    BY <2>1
  <2>3. handled' # << >> /\ handled'[Len(handled')] = note
    BY <1>1, <1>2
  <2>4. Older(<<note>>, broadcast', published')
    BY <1>2, <1>6 DEF Older
  <2>5. S = {}
    BY <1>3, <1>6, <2>1 DEF ForNobody, Registered
  <2>6. \A u \in DOMAIN clients : \A c \in clients'[u] : c \in Clients
    BY <1>4 DEF HubInv, TypeOK
  <2>7. \A u \in DOMAIN clients : \A c \in clients'[u] : Below(Queued(c)', note.id)
    BY <1>4, <1>5, <2>5, <2>6
  <2>8. QED  BY <2>1, <2>2, <2>3, <2>4, <2>7 DEF LoopInv
<1>13. QED  BY <1>10, <1>11, <1>12 DEF OrderInv

(* The client the second loop offers the note to does not have it yet, and   *)
(* is looked at once: it is of the user the loop leaves behind.              *)
LEMMA OrderToAdmin ==
    ASSUME HubInv, OrderInv, NEW u \in Users, BroadcastToAdmin(u)
    PROVE  OrderInv'
<1>1. /\ hub \in Offering /\ hub.note \in Note /\ u \in hub.todo
      /\ hub'.note = hub.note /\ hub'.todo = hub.todo \ {u} /\ hub # Selecting
      /\ UNCHANGED <<broadcast, published, handler, written, handled>>
  BY DEF BroadcastToAdmin, Offering, HubInv, TypeOK, channels, pumps, history
<1>2. CASE UNCHANGED <<clients, send, closed, panicked>>
  <2>1. \A c \in Clients : Queued(c)' = Queued(c)
    BY <1>1, <1>2 DEF Queued
  <2>2. \A d \in hub.todo : \A c \in clients[d] : c \in Clients
    BY <1>1 DEF HubInv, TypeOK, TodoInv
  <2>3. QueueInv'
    BY <1>1, <2>1 DEF OrderInv, QueueInv
  <2>4. FreshInv' /\ LoopInv'
    BY <1>1, <1>2, <2>1, <2>2 DEF OrderInv, FreshInv, LoopInv
  <2>5. QED  BY <2>3, <2>4 DEF OrderInv
<1>3. ASSUME NEW c \in clients[u] \cap Admins, Offer({c}, hub.note)
      PROVE  OrderInv'
  <2>1. u \in DOMAIN clients /\ c \in Clients /\ UserOf[c] = u /\ {c} \subseteq Registered
    BY <1>1, <1>3 DEF HubInv, TypeOK, MapInv, TodoInv, Registered, ClientsOf
  <2>2. /\ \A d \in Clients : Queued(d)' = IF d \in {c} /\ ~Full(d) THEN Append(Queued(d), hub.note)
                                          ELSE Queued(d)
        /\ \A d \in DOMAIN clients : clients'[d] \subseteq clients[d]
        /\ DOMAIN clients' = DOMAIN clients
    BY <1>1, <1>3, <2>1, OfferGives DEF HubInv
  <2>3. /\ \A d \in Clients : Queued(d) \in Seq(Note) /\ Rising(Queued(d))
                              /\ Older(Queued(d), broadcast, published)
        /\ Below(Queued(c), hub.note.id) /\ Older(<<hub.note>>, broadcast, published)
    BY <1>1, <1>3, QueuedType DEF HubInv, OrderInv, QueueInv, LoopInv
  <2>4. Rising(Queued(c)') /\ Older(Queued(c)', broadcast, published)
    <3>1. CASE Queued(c)' = Queued(c)
      BY <2>1, <2>3, <3>1
    <3>2. CASE Queued(c)' = Append(Queued(c), hub.note)
      <4>1. Rising(Queued(c)')
        BY <1>1, <2>1, <2>3, <3>2, RisingAppend
      <4>2. /\ hub.note.id <= published
            /\ \A j \in 1..Len(broadcast) : hub.note.id < broadcast[j].id
        BY <2>3 DEF Older
      <4>3. \A i \in 1..Len(Queued(c)') :
                \/ i \in 1..Len(Queued(c)) /\ Queued(c)'[i] = Queued(c)[i]
                \/ Queued(c)'[i] = hub.note
        BY <1>1, <2>1, <2>3, <3>2
      <4>4. Older(Queued(c)', broadcast, published)
        BY <2>1, <2>3, <4>2, <4>3 DEF Older
      <4>5. QED  BY <4>1, <4>4
    <3>3. QED  BY <2>1, <2>2, <3>1, <3>2
  <2>5. QueueInv'
    BY <1>1, <2>2, <2>3, <2>4 DEF OrderInv, QueueInv
  <2>6. FreshInv'
    <3>1. handler[c] \notin {"absent", "register"}
      BY <1>3, <2>1 DEF HubInv, MapInv
    <3>2. \A d \in Clients : d # c => send'[d] = send[d]
      BY <1>3 DEF Offer
    <3>3. QED  BY <1>1, <3>1, <3>2 DEF OrderInv, FreshInv
  <2>7. LoopInv'
    <3>1. ASSUME NEW d \in hub'.todo, NEW e \in clients'[d] PROVE Below(Queued(e)', hub.note.id)
      <4>1. d \in hub.todo /\ d \in DOMAIN clients /\ e \in clients[d] /\ e \in Clients /\ UserOf[e] = d
        BY <1>1, <2>2, <3>1 DEF HubInv, TypeOK, TodoInv, MapInv
      <4>2. Queued(e)' = Queued(e)
        BY <1>1, <2>1, <2>2, <3>1, <4>1
      <4>3. QED  BY <1>1, <4>1, <4>2 DEF OrderInv, LoopInv
    <3>2. QED  BY <1>1, <3>1 DEF OrderInv, LoopInv
  <2>8. QED  BY <2>5, <2>6, <2>7 DEF OrderInv
<1>4. QED  BY <1>2, <1>3 DEF BroadcastToAdmin

(* The writer moves a note from one part of what a client has to the other. *)
LEMMA WriteKeepsQueued ==
    ASSUME HubInv, NEW c \in Clients, WriteMessage(c)
    PROVE  \A d \in Clients : Queued(d)' = Queued(d)
<1>1. /\ send' = [send EXCEPT ![c] = Tail(send[c])] /\ send[c] # << >>
      /\ written' = [written EXCEPT ![c] = Append(written[c], Head(send[c]))]
  BY DEF WriteMessage
<1>2. ASSUME NEW d \in Clients PROVE Queued(d)' = Queued(d)
  <2>1. Queued(d)' = written'[d] \o send'[d]  BY DEF Queued
  <2>2. CASE d = c
    <3>1. send'[d] = Tail(send[c]) /\ written'[d] = Append(written[c], Head(send[c]))
      BY <1>1, <2>2 DEF HubInv, TypeOK
    <3>2. send[c] \in Seq(Note) /\ written[c] \in Seq(Note) /\ Queued(c) = written[c] \o send[c]
      BY QueuedType DEF HubInv
    <3>3. Append(written[c], Head(send[c])) \o Tail(send[c]) = written[c] \o send[c]
      BY <1>1, <3>2, MoveHead
    <3>4. QED  BY <2>1, <2>2, <3>1, <3>2, <3>3
  <2>3. CASE d # c
    BY <1>1, <2>1, <2>3, QueuedType DEF HubInv, TypeOK
  <2>4. QED  BY <2>2, <2>3
<1>3. QED  BY <1>2

LEMMA OrderWrite ==
    ASSUME HubInv, OrderInv, NEW c \in Clients, WriteMessage(c)
    PROVE  OrderInv'
<1>1. \A d \in Clients : Queued(d)' = Queued(d)
  BY WriteKeepsQueued
<1>2. /\ UNCHANGED <<broadcast, published, hub, clients, handler, handled>>
      /\ send[c] # << >> /\ \A d \in Clients : d # c => send'[d] = send[d] /\ written'[d] = written[d]
  BY DEF WriteMessage, channels, pumps, history, HubInv, TypeOK
<1>3. QueueInv'  BY <1>1, <1>2 DEF OrderInv, QueueInv
<1>4. FreshInv'  BY <1>2 DEF OrderInv, FreshInv
<1>5. LoopInv'
  <2>1. hub # Selecting => \A u \in hub.todo : \A d \in clients[u] : d \in Clients
    BY DEF HubInv, TypeOK, TodoInv
  <2>2. QED  BY <1>1, <1>2, <2>1 DEF OrderInv, LoopInv
<1>6. QED  BY <1>3, <1>4, <1>5 DEF OrderInv

(* The other steps touch neither channels nor what clients were given. *)
LEMMA OrderRest ==
    ASSUME HubInv, OrderInv, UNCHANGED <<broadcast, published, send, written, handled>>,
           \/ hub' = hub /\ clients' = clients
           \/ hub' = Selecting,
           \A c \in Clients : handler'[c] \in {"absent", "register"} =>
               handler[c] \in {"absent", "register"}
    PROVE  OrderInv'
<1>1. \A c \in Clients : Queued(c)' = Queued(c)  BY DEF Queued
<1>2. QueueInv'  BY <1>1 DEF OrderInv, QueueInv
<1>3. FreshInv'  BY DEF OrderInv, FreshInv
<1>4. LoopInv'
  <2>1. hub # Selecting => \A u \in hub.todo : \A d \in clients[u] : d \in Clients
    BY DEF HubInv, TypeOK, TodoInv
  <2>2. QED  BY <1>1, <2>1 DEF OrderInv, LoopInv, Selecting
<1>5. QED  BY <1>2, <1>3, <1>4 DEF OrderInv

LEMMA OrderStep == AdminFeed /\ HubInv /\ OrderInv /\ [Next]_vars => OrderInv'
<1> SUFFICES ASSUME AdminFeed, HubInv, OrderInv, [Next]_vars PROVE OrderInv'
  OBVIOUS
<1> USE DEF channels, pumps, history
<1>1. CASE Publish  BY <1>1, OrderPublish
<1>2. CASE Broadcast  BY <1>2, OrderBroadcast
<1>3. ASSUME NEW u \in Users, BroadcastToAdmin(u) PROVE OrderInv'
  BY <1>3, OrderToAdmin
<1>4. ASSUME NEW c \in Clients, WriteMessage(c) PROVE OrderInv'
  BY <1>4, OrderWrite
<1>5. CASE EndBroadcast
  BY <1>5, OrderRest DEF EndBroadcast
<1>6. CASE Rest \/ UNCHANGED vars
  BY <1>6, OrderRest DEF Rest, vars
<1>7. ASSUME NEW c \in Clients, Register(c) \/ Unregister(c)
      PROVE  OrderInv'
  BY <1>7, OrderRest DEF Register, Unregister, HubInv, TypeOK
<1>8. ASSUME NEW c \in Clients,
             \/ Connect(c) \/ PeerGone(c) \/ StartPumps(c)
             \/ ReadError(c) \/ ReaderClose(c) \/ WriterClose(c) \/ PingError(c)
      PROVE  OrderInv'
  <2>1. /\ UNCHANGED <<broadcast, published, send, written, handled, hub, clients>>
        /\ \/ handler' = handler
           \/ handler' = [handler EXCEPT ![c] = "register"] /\ handler[c] = "absent"
           \/ handler' = [handler EXCEPT ![c] = "done"]
    <3>1. CASE Connect(c)  BY <3>1 DEF Connect
    <3>2. CASE StartPumps(c)  BY <3>2 DEF StartPumps
    <3>3. CASE PeerGone(c) \/ ReadError(c) \/ ReaderClose(c)
      BY <3>3 DEF PeerGone, ReadError, ReaderClose
    <3>4. CASE WriterClose(c) \/ PingError(c)
      BY <3>4 DEF WriterClose, PingError
    <3>5. QED  BY <1>8, <3>1, <3>2, <3>3, <3>4
  <2>2. \A d \in Clients : handler'[d] \in {"absent", "register"} => handler[d] \in {"absent", "register"}
    BY <2>1 DEF HubInv, TypeOK
  <2>3. QED  BY <2>1, <2>2, OrderRest
<1>9. QED  BY <1>1, <1>2, <1>3, <1>4, <1>5, <1>6, <1>7, <1>8 DEF Next, Pump

(* Every client gets its messages in the order in which they were published, *)
(* and none twice: the two loops of a broadcast never give a client the same *)
(* note, and a note waits in one queue only.                                 *)
THEOREM MessagesAreInOrder ==
    ASSUME AdminFeed PROVE Spec => []InOrder
<1>1. HubInv /\ OrderInv => InOrder
  <2> SUFFICES ASSUME HubInv, OrderInv, NEW c \in Clients, NEW i \in 2..Len(Queued(c))
               PROVE  Queued(c)[i - 1].id < Queued(c)[i].id
    BY DEF InOrder
  <2>1. i - 1 \in 1..Len(Queued(c)) /\ i \in 1..Len(Queued(c)) /\ i - 1 < i
    BY QueuedType DEF HubInv
  <2>2. QED  BY <2>1 DEF OrderInv, QueueInv, Rising
<1>2. QED  BY HubInvariant, OrderInit, OrderStep, <1>1, PTL DEF Spec

-----------------------------------------------------------------------------
(* Nothing is skipped. *)

Among(s, note) == \E i \in 1..Len(s) : s[i] = note
Since(c, note) == \E i \in 1..Len(handled) : i > since[c] /\ handled[i] = note

(* A registered client has of its user's notes the ones taken since then.   *)
Complete(c) ==
    \A note \in Note : note.user = UserOf[c] => (Among(Queued(c), note) <=> Since(c, note))

(* The note of the second loop is nobody's own.                             *)
CompleteInv ==
    /\ \A c \in Registered : since[c] <= Len(handled) /\ Complete(c)
    /\ hub # Selecting => ForNobody(hub.note)

LEMMA AmongAppend ==
    ASSUME NEW s \in Seq(Note), NEW m \in Note, NEW note \in Note
    PROVE  Among(Append(s, m), note) <=> Among(s, note) \/ note = m
<1>1. Len(Append(s, m)) = Len(s) + 1 /\ Append(s, m)[Len(s) + 1] = m
      /\ \A i \in 1..Len(s) : Append(s, m)[i] = s[i]
  OBVIOUS
<1>2. QED  BY <1>1 DEF Among

(* Taking a note offers it to all clients of its user: one that stays has it. *)
LEMMA CompleteBroadcast ==
    ASSUME HubInv, OrderInv, CompleteInv, Broadcast
    PROVE  CompleteInv'
<1> DEFINE note == Head(broadcast)
           S    == ClientsOf(note.user)
<1>1. /\ note \in Note /\ Offer(S, note) /\ handled' = Append(handled, note)
      /\ handled \in Seq(Note) /\ UNCHANGED <<written, since>>
      /\ hub' = IF note.role = "ADMIN"
                THEN [phase |-> "admins", note |-> note, todo |-> DOMAIN clients]
                ELSE Selecting
  BY DEF Broadcast, HubInv, TypeOK
<1>2. /\ S = {c \in Registered : UserOf[c] = note.user}
      /\ S \in SUBSET Registered /\ S \subseteq Clients
  BY DEF ClientsOf, Registered, HubInv, TypeOK, MapInv
<1>3. /\ \A c \in Clients :
             Queued(c)' = IF c \in S /\ ~Full(c) THEN Append(Queued(c), note) ELSE Queued(c)
      /\ Registered' = Registered \ {c \in S : Full(c)}
  BY <1>1, <1>2, OfferGives DEF HubInv
<1>4. ForNobody(note)
  <2>1. note = broadcast[1] /\ 1 \in 1..Len(broadcast)
    BY DEF Broadcast, HubInv, TypeOK
  <2>2. QED  BY <2>1 DEF OrderInv, QueueInv
<1>5. /\ Len(handled') = Len(handled) + 1 /\ handled'[Len(handled) + 1] = note
      /\ \A i \in 1..Len(handled) : handled'[i] = handled[i]
  BY <1>1
<1>6. ASSUME NEW c \in Registered'
      PROVE  since'[c] <= Len(handled') /\ Complete(c)'
  <2>1. c \in Registered /\ c \in Clients /\ since[c] \in Nat /\ since[c] <= Len(handled)
        /\ Queued(c) \in Seq(Note) /\ Complete(c)
    BY <1>3, QueuedType DEF Registered, CompleteInv, HubInv, TypeOK
  <2>2. UserOf[c] = note.user => c \in S /\ ~Full(c)
    BY <1>2, <1>3, <2>1
  <2>3. UserOf[c] # note.user => c \notin S
    BY <1>2
  <2>4. ASSUME NEW m \in Note, m.user = UserOf[c]
        PROVE  Among(Queued(c)', m) <=> Since(c, m)'
    <3>1. Since(c, m)' <=> Since(c, m) \/ m = note
      BY <1>1, <1>5, <2>1 DEF Since
    <3>2. Among(Queued(c), m) <=> Since(c, m)
      BY <2>1, <2>4 DEF Complete
    <3>3. CASE UserOf[c] = note.user
      <4>1. Queued(c)' = Append(Queued(c), note)  BY <1>3, <2>1, <2>2, <3>3
      <4>2. QED  BY <1>1, <2>1, <3>1, <3>2, <4>1, AmongAppend
    <3>4. CASE UserOf[c] # note.user
      <4>1. Queued(c)' = Queued(c) /\ m # note  BY <1>3, <2>1, <2>3, <2>4, <3>4
      <4>2. QED  BY <3>1, <3>2, <4>1
    <3>5. QED  BY <3>3, <3>4
  <2>5. Complete(c)'  BY <2>4 DEF Complete, Among
  <2>6. QED  BY <1>1, <1>5, <2>1, <2>5
<1>7. hub' # Selecting => ForNobody(hub'.note)
  BY <1>1, <1>4
<1>8. QED  BY <1>6, <1>7 DEF CompleteInv, ForNobody

(* What the second loop offers is not a note of any client's user. *)
LEMMA CompleteToAdmin ==
    ASSUME HubInv, OrderInv, CompleteInv, NEW u \in Users, BroadcastToAdmin(u)
    PROVE  CompleteInv'
<1>1. /\ hub \in Offering /\ hub.note \in Note /\ u \in hub.todo /\ hub # Selecting
      /\ hub'.note = hub.note /\ UNCHANGED <<written, handled, since>>
  BY DEF BroadcastToAdmin, Offering, HubInv, TypeOK, history
<1>2. CASE UNCHANGED <<clients, send, closed, panicked>>
  <2>1. \A c \in Clients : Queued(c)' = Queued(c)  BY <1>1, <1>2 DEF Queued
  <2>2. Registered' = Registered /\ Registered \subseteq Clients
    BY <1>2 DEF Registered, ClientsOf
  <2>3. QED  BY <1>1, <2>1, <2>2 DEF CompleteInv, Complete, Among, Since, ForNobody
<1>3. ASSUME NEW c \in clients[u] \cap Admins, Offer({c}, hub.note)
      PROVE  CompleteInv'
  <2>1. u \in DOMAIN clients /\ c \in Clients /\ {c} \subseteq Registered
    BY <1>1, <1>3 DEF HubInv, TypeOK, MapInv, TodoInv, Registered, ClientsOf
  <2>2. /\ \A d \in Clients : Queued(d)' = IF d \in {c} /\ ~Full(d) THEN Append(Queued(d), hub.note)
                                          ELSE Queued(d)
        /\ Registered' \subseteq Registered /\ Registered \subseteq Clients
    BY <1>1, <1>3, <2>1, OfferGives DEF HubInv, Registered
  <2>3. ForNobody(hub.note) /\ hub.note.role = "ADMIN"
    BY <1>1 DEF CompleteInv, OrderInv, LoopInv
  <2>4. ASSUME NEW d \in Registered', NEW m \in Note, m.user = UserOf[d]
        PROVE  Among(Queued(d)', m) <=> Among(Queued(d), m)
    <3>1. d \in Clients /\ m # hub.note /\ Queued(d) \in Seq(Note)
      BY <2>2, <2>3, <2>4, QueuedType DEF ForNobody, HubInv
    <3>2. CASE Queued(d)' = Queued(d)  BY <3>2
    <3>3. CASE Queued(d)' = Append(Queued(d), hub.note)
      BY <1>1, <3>1, <3>3, AmongAppend
    <3>4. QED  BY <2>2, <3>1, <3>2, <3>3
  <2>5. \A d \in Registered' : since[d] <= Len(handled) /\ Complete(d)
    BY <2>2 DEF CompleteInv
  <2>6. \A d \in Registered' : Complete(d)'
    BY <1>1, <2>4, <2>5 DEF Complete, Among, Since
  <2>7. QED  BY <1>1, <2>3, <2>5, <2>6 DEF CompleteInv, ForNobody
<1>4. QED  BY <1>2, <1>3 DEF BroadcastToAdmin

(* Who registers has nothing, and nothing has been taken since. *)
LEMMA CompleteRegister ==
    ASSUME HubInv, OrderInv, CompleteInv, NEW c \in Clients, Register(c)
    PROVE  CompleteInv'
<1>1. /\ handler[c] = "register" /\ since' = [since EXCEPT ![c] = Len(handled)]
      /\ hub = Selecting
      /\ clients' = [u \in DOMAIN clients \cup {UserOf[c]} |->
                        IF u = UserOf[c] THEN ClientsOf(u) \cup {c} ELSE clients[u]]
      /\ UNCHANGED <<send, written, handled, hub>>
  BY DEF Register
<1>2. Registered' = Registered \cup {c} /\ c \notin Registered /\ Registered \subseteq Clients
  <2>1. Registered' = Registered \cup {c}  BY <1>1 DEF Registered, ClientsOf
  <2>2. c \notin Registered
    BY <1>1 DEF HubInv, MapInv, Registered, ClientsOf
  <2>3. QED  BY <2>1, <2>2 DEF Registered
<1>3. Queued(c) = << >> /\ \A d \in Clients : Queued(d)' = Queued(d)
  BY <1>1 DEF OrderInv, FreshInv, Queued
<1>4. since \in [Clients -> Nat] /\ handled \in Seq(Note)
  BY DEF HubInv, TypeOK
<1>5. ASSUME NEW d \in Registered PROVE since'[d] <= Len(handled') /\ Complete(d)'
  <2>1. since'[d] = since[d] /\ Queued(d)' = Queued(d)
    BY <1>1, <1>2, <1>3, <1>4
  <2>2. QED  BY <1>1, <2>1 DEF CompleteInv, Complete, Among, Since
<1>6. since'[c] <= Len(handled') /\ Complete(c)'
  <2>1. since'[c] = Len(handled) /\ Queued(c)' = << >> /\ Len(handled) \in Nat
    BY <1>1, <1>3, <1>4
  <2>2. QED  BY <1>1, <2>1 DEF Complete, Among, Since
<1>7. QED  BY <1>1, <1>2, <1>5, <1>6 DEF CompleteInv

LEMMA CompleteRest ==
    ASSUME HubInv, CompleteInv, UNCHANGED <<handled, since>>,
           \A c \in Clients : Queued(c)' = Queued(c),
           Registered' \subseteq Registered, hub' = hub \/ hub' = Selecting
    PROVE  CompleteInv'
<1>1. Registered \subseteq Clients  BY DEF Registered
<1>2. \A c \in Registered' : since'[c] <= Len(handled') /\ Complete(c)'
  BY <1>1 DEF CompleteInv, Complete, Among, Since
<1>3. QED  BY <1>2 DEF CompleteInv, ForNobody, Selecting

LEMMA CompleteStep == HubInv /\ OrderInv /\ CompleteInv /\ [Next]_vars => CompleteInv'
<1> SUFFICES ASSUME HubInv, OrderInv, CompleteInv, [Next]_vars PROVE CompleteInv'
  OBVIOUS
<1> USE DEF channels, pumps, history
<1>1. CASE Broadcast  BY <1>1, CompleteBroadcast
<1>2. ASSUME NEW u \in Users, BroadcastToAdmin(u) PROVE CompleteInv'
  BY <1>2, CompleteToAdmin
<1>3. ASSUME NEW c \in Clients, Register(c) PROVE CompleteInv'
  BY <1>3, CompleteRegister
<1>4. ASSUME NEW c \in Clients, Unregister(c) PROVE CompleteInv'
  <2>1. UNCHANGED <<hub, send, written, handled, since>>  BY <1>4 DEF Unregister
  <2>2. \A d \in Clients : Queued(d)' = Queued(d)  BY <2>1 DEF Queued
  <2>3. Registered' \subseteq Registered
    BY <1>4 DEF Unregister, Registered, ClientsOf
  <2>4. QED  BY <2>1, <2>2, <2>3, CompleteRest
<1>5. ASSUME NEW c \in Clients, WriteMessage(c) PROVE CompleteInv'
  <2>1. UNCHANGED <<clients, hub, handled, since>>  BY <1>5 DEF WriteMessage
  <2>2. Registered' = Registered  BY <2>1 DEF Registered, ClientsOf
  <2>3. QED  BY <1>5, <2>1, <2>2, WriteKeepsQueued, CompleteRest
<1>6. ASSUME UNCHANGED <<clients, send, written, handled, since>>, hub' = hub \/ hub' = Selecting
      PROVE  CompleteInv'
  <2>1. Registered' = Registered /\ \A c \in Clients : Queued(c)' = Queued(c)
    BY <1>6 DEF Registered, ClientsOf, Queued
  <2>2. QED  BY <1>6, <2>1, CompleteRest
<1>7. CASE Publish  BY <1>6, <1>7 DEF Publish
<1>8. CASE EndBroadcast \/ Rest \/ UNCHANGED vars
  BY <1>6, <1>8 DEF EndBroadcast, Rest, vars
<1>9. ASSUME NEW c \in Clients,
             \/ Connect(c) \/ StartPumps(c) \/ PeerGone(c) \/ ReadError(c)
             \/ ReaderClose(c) \/ WriterClose(c) \/ PingError(c)
      PROVE  CompleteInv'
  <2>1. UNCHANGED <<clients, send, written, handled, since, hub>>
    <3>1. CASE Connect(c) \/ StartPumps(c) \/ PeerGone(c)
      BY <3>1 DEF Connect, StartPumps, PeerGone
    <3>2. CASE ReadError(c) \/ ReaderClose(c)
      BY <3>2 DEF ReadError, ReaderClose
    <3>3. CASE WriterClose(c) \/ PingError(c)
      BY <3>3 DEF WriterClose, PingError
    <3>4. QED  BY <1>9, <3>1, <3>2, <3>3
  <2>2. QED  BY <1>6, <2>1
<1>10. QED  BY <1>1, <1>2, <1>3, <1>4, <1>5, <1>7, <1>8, <1>9 DEF Next, Pump

(* A registered client misses nothing: of its user's notifications it has    *)
(* exactly those Run took since it registered, in their order, however many  *)
(* tabs the user has and whoever of them is dropped on the way.              *)
THEOREM NothingIsSkipped ==
    ASSUME AdminFeed PROVE Spec => []NothingSkipped
<1>1. Init => CompleteInv
  BY DEF Init, CompleteInv, Registered, ClientsOf, Selecting
<1>2. InOrder /\ CompleteInv => NothingSkipped
  BY DEF CompleteInv, Complete, Among, Since, NothingSkipped
<1>3. QED
  BY HubInvariant, OrderInit, OrderStep, CompleteStep, MessagesAreInOrder, <1>1, <1>2, PTL
  DEF Spec

-----------------------------------------------------------------------------
(* The refinement: what a step of the hub is for the channel. *)

LEMMA JoinedRegistered == Channel!Joined = Registered
  BY DEF Channel!Joined, Status, Registered

LEMMA ChannelInit == Init => Channel!Init
<1> SUFFICES ASSUME Init PROVE Channel!Init
  OBVIOUS
<1>1. handled = << >> /\ \A c \in Clients : Queued(c) = << >>
  BY DEF Init, Queued
<1>2. \A c \in Clients : c \notin Registered /\ handler[c] = "absent"
  BY DEF Init, Registered, ClientsOf
<1>3. QED  BY <1>1, <1>2 DEF Channel!Init, Given, Status

(* Steps that neither give anything nor let anyone in or out. *)
LEMMA ChannelStutters ==
    ASSUME handled' = handled, \A c \in Clients : Queued(c)' = Queued(c),
           Registered' = Registered,
           \A c \in Clients \ Registered :
               handler'[c] \in {"absent", "register"} <=> handler[c] \in {"absent", "register"}
    PROVE  UNCHANGED <<handled, Given, Status>>
  BY DEF Given, Status

LEMMA ChannelAccept ==
    ASSUME HubInv, OrderInv, Broadcast
    PROVE  Channel!Next
<1> DEFINE note    == Head(broadcast)
           S       == ClientsOf(note.user)
           dropped == {c \in S : Full(c)}
<1>1. /\ note \in Note /\ Offer(S, note) /\ handled' = Append(handled, note)
      /\ UNCHANGED <<written, handler>>
  BY DEF Broadcast, HubInv, TypeOK, pumps
<1>2. /\ S = {c \in Registered : UserOf[c] = note.user}
      /\ S \subseteq Registered /\ dropped \subseteq S /\ S \subseteq Clients
  BY DEF ClientsOf, Registered, HubInv, TypeOK, MapInv
<1>3. /\ \A c \in Clients :
             Queued(c)' = IF c \in S \ dropped THEN Append(Queued(c), note) ELSE Queued(c)
      /\ Registered' = Registered \ dropped
  <2>1. /\ \A c \in Clients : Queued(c)' =
               IF c \in S /\ ~Full(c) THEN Append(Queued(c), note) ELSE Queued(c)
        /\ Registered' = Registered \ {c \in S : Full(c)}
    <3>1. S \in SUBSET Registered /\ TypeOK /\ MapInv  BY <1>2 DEF HubInv
    <3>2. QED  BY <1>1, <3>1, OfferGives
  <2>2. QED  BY <2>1
<1>4. \A c \in Registered : handler[c] \notin {"absent", "register"}
  BY DEF HubInv, MapInv, Registered, ClientsOf
<1>5. Given' = [c \in Clients |-> IF c \in S \ dropped THEN Append(Given[c], note) ELSE Given[c]]
  BY <1>3 DEF Given
<1>6. Status' = [c \in Clients |-> IF c \in dropped THEN "left" ELSE Status[c]]
  BY <1>1, <1>2, <1>3, <1>4 DEF Status
<1>7. Channel!Accept(note, dropped)
  BY <1>1, <1>2, <1>5, <1>6, JoinedRegistered DEF Channel!Accept
<1>8. dropped \in SUBSET Clients  BY <1>2
<1>9. QED  BY <1>1, <1>7, <1>8 DEF Channel!Next

LEMMA ChannelForward ==
    ASSUME HubInv, OrderInv, NEW u \in Users, BroadcastToAdmin(u)
    PROVE  [Channel!Next]_<<handled, Given, Status>>
<1>1. /\ hub \in Offering /\ hub.note \in Note /\ u \in hub.todo /\ hub # Selecting
      /\ UNCHANGED <<handler, written, handled>>
  BY DEF BroadcastToAdmin, Offering, HubInv, TypeOK, pumps, history
<1>2. CASE UNCHANGED <<clients, send, closed, panicked>>
  <2>1. \A c \in Clients : Queued(c)' = Queued(c)  BY <1>1, <1>2 DEF Queued
  <2>2. Registered' = Registered  BY <1>2 DEF Registered, ClientsOf
  <2>3. QED  BY <1>1, <2>1, <2>2, ChannelStutters
<1>3. ASSUME NEW c \in clients[u] \cap Admins, Offer({c}, hub.note)
      PROVE  Channel!Next
  <2>1. u \in DOMAIN clients /\ c \in Clients /\ UserOf[c] = u /\ c \in Registered
    BY <1>1, <1>3 DEF HubInv, TypeOK, MapInv, TodoInv, Registered, ClientsOf
  <2>2. /\ \A d \in Clients : Queued(d)' = IF d \in {c} /\ ~Full(d) THEN Append(Queued(d), hub.note)
                                          ELSE Queued(d)
        /\ Registered' = Registered \ {d \in {c} : Full(d)}
    BY <1>1, <1>3, <2>1, OfferGives DEF HubInv
  <2>3. CASE Full(c)
    <3>1. Given' = Given  BY <2>2, <2>3 DEF Given
    <3>2. Registered' = Registered \ {c}  BY <2>2, <2>3
    <3>3. handler[c] \notin {"absent", "register"}
      BY <1>3, <2>1 DEF HubInv, MapInv
    <3>4. Status' = [Status EXCEPT ![c] = "left"]
      BY <1>1, <2>1, <3>2, <3>3 DEF Status
    <3>5. Channel!Leave(c)
      BY <1>1, <2>1, <3>1, <3>4, JoinedRegistered DEF Channel!Leave
    <3>6. QED  BY <2>1, <3>5 DEF Channel!Next
  <2>4. CASE ~Full(c)
    <3>1. Given' = [Given EXCEPT ![c] = Append(Given[c], hub.note)]
      BY <2>1, <2>2, <2>4 DEF Given
    <3>2. Registered' = Registered  BY <2>2, <2>4
    <3>3. Status' = Status  BY <1>1, <3>2 DEF Status
    <3>4. /\ handled # << >> /\ handled[Len(handled)] = hub.note /\ hub.note.role = "ADMIN"
          /\ Below(Queued(c), hub.note.id)
      BY <1>1, <1>3 DEF OrderInv, LoopInv
    <3>5. Given[c] # << >> => Given[c][Len(Given[c])] # hub.note
      <4>1. Given[c] = Queued(c) /\ Queued(c) \in Seq(Note) /\ hub.note.id \in Nat
        BY <1>1, <2>1, QueuedType, IdsAreNumbers DEF Given, HubInv
      <4>2. Queued(c) # << >> => Len(Queued(c)) \in 1..Len(Queued(c))
        BY <4>1
      <4>3. QED  BY <3>4, <4>1, <4>2 DEF Below
    <3>6. Channel!Forward(c)
      BY <1>1, <1>3, <2>1, <3>1, <3>3, <3>4, <3>5, JoinedRegistered DEF Channel!Forward
    <3>7. QED  BY <2>1, <3>6 DEF Channel!Next
  <2>5. QED  BY <2>3, <2>4
<1>4. QED  BY <1>2, <1>3 DEF BroadcastToAdmin

LEMMA ChannelJoin ==
    ASSUME HubInv, OrderInv, NEW c \in Clients, Register(c)
    PROVE  Channel!Next
<1>1. /\ handler[c] = "register" /\ handler' = [handler EXCEPT ![c] = "start"]
      /\ clients' = [u \in DOMAIN clients \cup {UserOf[c]} |->
                        IF u = UserOf[c] THEN ClientsOf(u) \cup {c} ELSE clients[u]]
      /\ UNCHANGED <<send, written, handled>>
  BY DEF Register
<1>2. c \notin Registered
  BY <1>1 DEF HubInv, MapInv, Registered, ClientsOf
<1>3. Registered' = Registered \cup {c}
  BY <1>1 DEF Registered, ClientsOf
<1>4. Queued(c) = << >> /\ \A d \in Clients : Queued(d)' = Queued(d)
  BY <1>1 DEF OrderInv, FreshInv, Queued
<1>5. Given' = [Given EXCEPT ![c] = << >>]
  BY <1>4 DEF Given
<1>6. Status' = [Status EXCEPT ![c] = "joined"]
  BY <1>1, <1>3 DEF Status, HubInv, TypeOK
<1>7. Channel!Join(c)
  BY <1>1, <1>2, <1>5, <1>6, JoinedRegistered DEF Channel!Join
<1>8. QED  BY <1>7 DEF Channel!Next

LEMMA ChannelLeave ==
    ASSUME HubInv, NEW c \in Clients, Unregister(c)
    PROVE  [Channel!Next]_<<handled, Given, Status>>
<1>1. UNCHANGED <<handler, send, written, handled>>
  BY DEF Unregister, pumps, history
<1>2. \A d \in Clients : Queued(d)' = Queued(d)
  BY <1>1 DEF Queued
<1>3. CASE c \in ClientsOf(UserOf[c])
  <2> DEFINE rest == clients[UserOf[c]] \ {c}
             kept == IF rest = {} THEN DOMAIN clients \ {UserOf[c]} ELSE DOMAIN clients
  <2>1. clients' = [u \in kept |-> IF u = UserOf[c] THEN rest ELSE clients[u]]
    BY <1>3 DEF Unregister
  <2>2. Registered' = Registered \ {c}
    BY <1>3, <2>1 DEF Registered, ClientsOf
  <2>3. c \in Registered /\ handler[c] \notin {"absent", "register"}
    BY <1>3 DEF Registered, ClientsOf, HubInv, MapInv
  <2>4. Status' = [Status EXCEPT ![c] = "left"]
    BY <1>1, <2>2, <2>3 DEF Status
  <2>5. Given' = Given  BY <1>2 DEF Given
  <2>6. Channel!Leave(c)
    BY <1>1, <2>3, <2>4, <2>5, JoinedRegistered DEF Channel!Leave
  <2>7. QED  BY <2>6 DEF Channel!Next
<1>4. CASE c \notin ClientsOf(UserOf[c])
  <2>1. Registered' = Registered
    BY <1>4 DEF Unregister, Registered, ClientsOf
  <2>2. QED  BY <1>1, <1>2, <2>1, ChannelStutters
<1>5. QED  BY <1>3, <1>4

LEMMA ChannelStep ==
    HubInv /\ OrderInv /\ [Next]_vars => [Channel!Next]_<<handled, Given, Status>>
<1> SUFFICES ASSUME HubInv, OrderInv, [Next]_vars
             PROVE  [Channel!Next]_<<handled, Given, Status>>
  OBVIOUS
<1> USE DEF channels, pumps, history
<1>1. CASE Broadcast  BY <1>1, ChannelAccept
<1>2. ASSUME NEW u \in Users, BroadcastToAdmin(u)
      PROVE  [Channel!Next]_<<handled, Given, Status>>
  BY <1>2, ChannelForward
<1>3. ASSUME NEW c \in Clients, Register(c)
      PROVE  [Channel!Next]_<<handled, Given, Status>>
  BY <1>3, ChannelJoin
<1>4. ASSUME NEW c \in Clients, Unregister(c)
      PROVE  [Channel!Next]_<<handled, Given, Status>>
  BY <1>4, ChannelLeave
<1>5. ASSUME NEW c \in Clients, WriteMessage(c)
      PROVE  [Channel!Next]_<<handled, Given, Status>>
  <2>1. UNCHANGED <<clients, handler, handled>>  BY <1>5 DEF WriteMessage
  <2>2. Registered' = Registered  BY <2>1 DEF Registered, ClientsOf
  <2>3. QED  BY <1>5, <2>1, <2>2, WriteKeepsQueued, ChannelStutters
<1>6. ASSUME UNCHANGED <<clients, send, written, handled>>,
             \A c \in Clients :
                 handler'[c] \in {"absent", "register"} <=> handler[c] \in {"absent", "register"}
      PROVE  [Channel!Next]_<<handled, Given, Status>>
  <2>1. Registered' = Registered /\ \A c \in Clients : Queued(c)' = Queued(c)
    BY <1>6 DEF Registered, ClientsOf, Queued
  <2>2. QED  BY <1>6, <2>1, ChannelStutters
<1>7. CASE Publish  BY <1>6, <1>7 DEF Publish
<1>8. CASE EndBroadcast \/ Rest \/ UNCHANGED vars
  BY <1>6, <1>8 DEF EndBroadcast, Rest, vars
<1>9. ASSUME NEW c \in Clients, Connect(c) \/ StartPumps(c)
      PROVE  [Channel!Next]_<<handled, Given, Status>>
  <2>1. UNCHANGED <<clients, send, written, handled>>
    BY <1>9 DEF Connect, StartPumps
  <2>2. \A d \in Clients :
            handler'[d] \in {"absent", "register"} <=> handler[d] \in {"absent", "register"}
    BY <1>9 DEF Connect, StartPumps, HubInv, TypeOK
  <2>3. QED  BY <1>6, <2>1, <2>2
<1>10. ASSUME NEW c \in Clients, PeerGone(c) \/ ReadError(c) \/ ReaderClose(c)
       PROVE  [Channel!Next]_<<handled, Given, Status>>
  BY <1>6, <1>10 DEF PeerGone, ReadError, ReaderClose
<1>11. ASSUME NEW c \in Clients, WriterClose(c) \/ PingError(c)
       PROVE  [Channel!Next]_<<handled, Given, Status>>
  BY <1>6, <1>11 DEF WriterClose, PingError
<1>12. QED  BY <1>1, <1>2, <1>3, <1>4, <1>5, <1>7, <1>8, <1>9, <1>10, <1>11 DEF Next, Pump

(* The hub keeps the promise of the abstract channel: goroutines, bounded    *)
(* queues, the loops of a broadcast and the three ways a connection ends     *)
(* show to the outside as connections that join, are given every             *)
(* notification of their user once and in order, and leave.                  *)
THEOREM HubImplementsChannel ==
    ASSUME AdminFeed PROVE Spec => ImplementsChannel
<1>1. QED
  BY HubInvariant, OrderInit, OrderStep, ChannelInit, ChannelStep, PTL
  DEF Spec, ImplementsChannel, Channel!Spec

=============================================================================
