-------------------------------- MODULE Inbox --------------------------------
(***************************************************************************)
(* The way of a notification to the bell of one user: published by the     *)
(* NestJS service (notifications.service.ts), to Redis for the subscriber  *)
(* and the hub of the Go service (redis_subscriber.go), and over gRPC into *)
(* its collection (notification_service.go); shown by the hook of the page *)
(* (use-notifications.ts), which loads the collection once and then adds   *)
(* what its WebSocket brings.                                              *)
(*                                                                         *)
(* The hub is the abstract NotificationChannel, which WebSocketHub         *)
(* implements; there is one replica of it.  A bell is one mount of the     *)
(* hook: a page of its own, or the header of one layout after another.     *)
(* React's updates of one event handler are one step.                      *)
(***************************************************************************)
EXTENDS Naturals, Sequences, FiniteSets

CONSTANTS
    Bells,       \* mounts of the hook, each used once
    Posts,       \* notifications, each published once, to the user of the bells
    Broadcasts,  \* those for all admins (the user is one), under userId "all"
    Page,        \* how many notifications the history asks for (30)
    Faults       \* whether Redis, gRPC and HTTP calls may fail

ASSUME PostsAssumption == IsFiniteSet(Posts)
ASSUME BroadcastsAssumption == Broadcasts \subseteq Posts
ASSUME PageAssumption == Page \in Nat
ASSUME FaultsAssumption == Faults \in BOOLEAN

VARIABLES
    published,   \* publish(): where the call for each notification is
    subscribed,  \* whether the Go service's subscription stands
    queue,       \* pub/sub messages on their way to the subscriber
    collection,  \* the collection: [id, read], oldest first
    log, got, status,  \* the hub (NotificationChannel)
    mounted,     \* whether a bell is on the page
    link,        \* its WebSocket and reconnection timer
    taken,       \* how much of got[b] the socket has handed to the hook
    history,     \* fetchHistory: not begun, asked, or the answer on its way
    list,        \* the hook's notifications, newest first
    seen,        \* seenIdsRef
    unread,      \* unreadCount
    marks,       \* PATCH requests on their way to the server
    due          \* history variable: what a bell must get through its socket

hub     == <<log, got, status>>
server  == <<published, subscribed, queue, collection>>
bell    == <<mounted, link, taken, history, list, seen, unread>>
vars    == <<server, hub, bell, marks, due>>

\* The subscriber gives the live message an id of its own; the collection
\* gives the stored one another.
LiveId(n)   == <<"live", n>>
StoredId(n) == <<"stored", n>>
Ids == {"live", "stored"} \X Posts
All == <<"all", "all">>  \* the mark of all, which is no id
Entry == [id : Ids, read : BOOLEAN]

Note(n) == IF n \in Broadcasts THEN [id |-> LiveId(n), user |-> "all", role |-> "ADMIN"]
                               ELSE [id |-> LiveId(n), user |-> "me", role |-> "USER"]

Hub == INSTANCE NotificationChannel WITH
    Clients <- Bells,
    UserOf  <- [b \in Bells |-> "me"],
    Admins  <- IF Broadcasts = {} THEN {} ELSE Bells,
    Notes   <- {Note(n) : n \in Posts}

NotAsked == [phase |-> "none", items |-> << >>]
Asked    == [phase |-> "asked", items |-> << >>]
Loaded   == [phase |-> "loaded", items |-> << >>]
Answer(items) == [phase |-> "answered", items |-> items]

Unread(entries) == Cardinality({i \in DOMAIN entries : ~entries[i].read})
InList(b) == {list[b][i].id : i \in DOMAIN list[b]}

\* The state has its type; a bell that was never mounted has no socket.
TypeOK ==
    /\ published \in [Posts -> {"new", "pushed", "done"}]
    /\ subscribed \in BOOLEAN
    /\ queue \in Seq(Posts)
    /\ collection \in Seq(Entry) /\ Len(collection) <= Cardinality(Posts)
    /\ log \in Seq({Note(n) : n \in Posts})
    /\ got \in [Bells -> Seq({Note(n) : n \in Posts})]
    /\ status \in [Bells -> {"away", "joined", "left"}]
    /\ mounted \in [Bells -> {"before", "mounted", "gone"}]
    /\ link \in [Bells -> {"off", "connecting", "open", "closing", "waiting"}]
    /\ \A b \in Bells : mounted[b] = "before" => link[b] = "off"
    /\ taken \in [Bells -> Nat]
    /\ history \in [Bells -> [phase : {"none", "asked", "answered", "loaded"}, items : Seq(Entry)]]
    /\ list \in [Bells -> Seq(Entry)]
    /\ \A b \in Bells : seen[b] \subseteq Ids /\ InList(b) \subseteq seen[b]
    /\ unread \in [Bells -> Nat]
    /\ marks \subseteq Ids \cup {All}
    /\ due \in [Bells -> SUBSET Posts]

Init ==
    /\ published = [n \in Posts |-> "new"]
    /\ subscribed = TRUE
    /\ queue = << >> /\ collection = << >>
    /\ Hub!Init
    /\ mounted = [b \in Bells |-> "before"]
    /\ link = [b \in Bells |-> "off"]
    /\ taken = [b \in Bells |-> 0]
    /\ history = [b \in Bells |-> NotAsked]
    /\ list = [b \in Bells |-> << >>]
    /\ seen = [b \in Bells |-> {}]
    /\ unread = [b \in Bells |-> 0]
    /\ marks = {}
    /\ due = [b \in Bells |-> {}]

-----------------------------------------------------------------------------
(* The history variable. *)

\* A bell whose history is loaded and whose socket has joined is due what is
\* published from now on, until the socket, the subscription or the user's
\* clearing of the list ends that.
Attentive(b) ==
    /\ subscribed /\ mounted[b] = "mounted"
    /\ history[b] = Loaded /\ link[b] = "open" /\ status[b] = "joined"

PushedNow == {n \in Posts \ Broadcasts : published[n] = "new" /\ published'[n] = "pushed"}

Expect ==
    due' = [b \in Bells |-> IF ~Attentive(b)' THEN {}
                            ELSE IF Attentive(b) THEN due[b] \cup PushedNow ELSE {}]

-----------------------------------------------------------------------------
(* publish() of the NestJS service. *)

\* PUBLISH to a channel the subscriber listens to (the one to the user's own
\* channel has no listener); pub/sub forgets what nobody hears.
Push(n) ==
    /\ published[n] = "new"
    /\ published' = [published EXCEPT ![n] = "pushed"]
    /\ queue' = IF subscribed THEN Append(queue, n) ELSE queue
    /\ UNCHANGED <<subscribed, collection, hub, bell, marks>>
    /\ Expect

PushFails(n) ==
    /\ Faults
    /\ published[n] = "new"
    /\ published' = [published EXCEPT ![n] = "done"]
    /\ UNCHANGED <<subscribed, queue, collection, hub, bell, marks, due>>

\* CreateNotification inserts, and does not broadcast.
Store(n) ==
    /\ published[n] = "pushed"
    /\ published' = [published EXCEPT ![n] = "done"]
    /\ collection' = Append(collection, [id |-> StoredId(n), read |-> FALSE])
    /\ UNCHANGED <<subscribed, queue, hub, bell, marks, due>>

\* The error is caught: the notification has been pushed but is not stored.
StoreFails(n) ==
    /\ Faults
    /\ published[n] = "pushed"
    /\ published' = [published EXCEPT ![n] = "done"]
    /\ UNCHANGED <<subscribed, queue, collection, hub, bell, marks, due>>

-----------------------------------------------------------------------------
(* The subscriber and the hub. *)

\* What has reached the Go service's channel is kept.
SubscriptionLost ==
    /\ Faults /\ subscribed
    /\ subscribed' = FALSE
    /\ \E kept \in 0..Len(queue) : queue' = SubSeq(queue, 1, kept)
    /\ UNCHANGED <<published, collection, hub, bell, marks>>
    /\ Expect

Resubscribe ==
    /\ ~subscribed
    /\ subscribed' = TRUE
    /\ UNCHANGED <<published, queue, collection, hub, bell, marks>>
    /\ Expect

HandleMessage ==
    /\ queue # << >>
    /\ \E dropped \in SUBSET Bells : Hub!Accept(Note(Head(queue)), dropped)
    /\ queue' = Tail(queue)
    /\ UNCHANGED <<published, subscribed, collection, bell, marks>>
    /\ Expect

HubForwards(b) ==
    /\ Hub!Forward(b)
    /\ UNCHANGED <<server, bell, marks, due>>

-----------------------------------------------------------------------------
(* The hook: mounting, history, socket. *)

Set(f, b, value) == f' = [f EXCEPT ![b] = value]

Mount(b) ==
    /\ mounted[b] = "before"
    /\ Set(mounted, b, "mounted")
    /\ Set(history, b, Asked)
    /\ Set(link, b, "connecting")
    /\ UNCHANGED <<server, hub, taken, list, seen, unread, marks>>
    /\ Expect

\* disconnect(): the timer is cleared and the socket closed.  React forgets the
\* hook's state, and an answer to fetchHistory has nobody to go to.
Unmount(b) ==
    /\ mounted[b] = "mounted"
    /\ Set(mounted, b, "gone")
    /\ Set(history, b, NotAsked)
    /\ Set(list, b, << >>) /\ Set(seen, b, {}) /\ Set(unread, b, 0)
    /\ Set(link, b, IF link[b] \in {"connecting", "open"} THEN "closing"
                    ELSE IF link[b] = "waiting" THEN "off" ELSE link[b])
    /\ UNCHANGED <<server, hub, taken, marks>>
    /\ Expect

\* ListUserNotifications: the newest stored under the user's own id.
AnswerHistory(b) ==
    /\ history[b] = Asked
    /\ LET own  == {i \in DOMAIN collection : collection[i].id[2] \notin Broadcasts}
           rows == 1..(IF Cardinality(own) < Page THEN Cardinality(own) ELSE Page)
       IN  \E place \in [rows -> own] :
               /\ \A j, k \in rows : j < k => place[k] < place[j]
               /\ \A i \in own : (\A j \in rows : place[j] # i) => \A j \in rows : i < place[j]
               /\ Set(history, b, Answer([j \in rows |-> collection[place[j]]]))
    /\ UNCHANGED <<server, hub, mounted, link, taken, list, seen, unread, marks>>
    /\ Expect

\* Mutant: the badge counts the whole page.
HistoryArrivesUncounted(b) ==
    /\ history[b].phase = "answered"
    /\ Set(history, b, Loaded)
    /\ LET items == history[b].items
       IN  /\ Set(list, b, items)
           /\ Set(seen, b, {items[i].id : i \in DOMAIN items})
           /\ Set(unread, b, Len(items))
    /\ UNCHANGED <<server, hub, mounted, link, taken, marks>>
    /\ Expect

\* Mutant: what the hook has seen survives the history.
HistoryArrivesUnseen(b) ==
    /\ history[b].phase = "answered"
    /\ Set(history, b, Loaded)
    /\ LET items == history[b].items
       IN  /\ Set(list, b, items)
           /\ Set(unread, b, Unread(items))
    /\ UNCHANGED <<server, hub, mounted, link, taken, seen, marks>>
    /\ Expect

\* The answer replaces the list, whatever the socket has brought so far.
HistoryArrives(b) ==
    /\ history[b].phase = "answered"
    /\ Set(history, b, Loaded)
    /\ LET items == history[b].items
       IN  /\ Set(list, b, items)
           /\ Set(seen, b, {items[i].id : i \in DOMAIN items})
           /\ Set(unread, b, Unread(items))
    /\ UNCHANGED <<server, hub, mounted, link, taken, marks>>
    /\ Expect

HistoryFails(b) ==
    /\ Faults
    /\ history[b].phase \in {"asked", "answered"}
    /\ Set(history, b, Loaded)
    /\ UNCHANGED <<server, hub, mounted, link, taken, list, seen, unread, marks>>
    /\ Expect

\* The socket opens and the hub registers it.
Open(b) ==
    /\ link[b] = "connecting"
    /\ Hub!Join(b)
    /\ Set(link, b, "open")
    /\ Set(taken, b, 0)
    /\ UNCHANGED <<server, mounted, history, list, seen, unread, marks>>
    /\ Expect

\* onclose, whoever closed: the hub lets go of the connection and the hook
\* starts the timer.
Close(b) ==
    /\ link[b] \in {"connecting", "open", "closing"}
    /\ Set(link, b, "waiting")
    /\ IF b \in Hub!Joined THEN Hub!Leave(b) ELSE UNCHANGED hub
    /\ UNCHANGED <<server, mounted, taken, history, list, seen, unread, marks>>
    /\ Expect

\* Mutant: a reconnection waits until the bell is mounted anew.
ReconnectOnlyOnce(b) ==
    /\ link[b] = "waiting"
    /\ status[b] = "away"
    /\ Set(link, b, "connecting")
    /\ UNCHANGED <<server, hub, mounted, taken, history, list, seen, unread, marks>>
    /\ Expect

Reconnect(b) ==
    /\ link[b] = "waiting"
    /\ Set(link, b, "connecting")
    /\ UNCHANGED <<server, hub, mounted, taken, history, list, seen, unread, marks>>
    /\ Expect

\* Mutant: the list is the one of the time the socket was made.
ReceiveStale(b) ==
    /\ link[b] = "open"
    /\ taken[b] < Len(got[b])
    /\ Set(taken, b, taken[b] + 1)
    /\ LET id == got[b][taken[b] + 1].id
       IN  IF mounted[b] = "mounted" /\ id \notin seen[b]
           THEN /\ Set(list, b, <<[id |-> id, read |-> FALSE]>>)
                /\ Set(seen, b, seen[b] \cup {id})
                /\ Set(unread, b, 1)
           ELSE UNCHANGED <<list, seen, unread>>
    /\ UNCHANGED <<server, hub, mounted, link, history, marks, due>>

\* onmessage: a message whose id was seen is dropped, another one is put on
\* top.  What the socket of a bell that is gone brings is not shown.
Receive(b) ==
    /\ link[b] = "open"
    /\ taken[b] < Len(got[b])
    /\ Set(taken, b, taken[b] + 1)
    /\ LET id == got[b][taken[b] + 1].id
       IN  IF mounted[b] = "mounted" /\ id \notin seen[b]
           THEN /\ Set(list, b, <<[id |-> id, read |-> FALSE]>> \o list[b])
                /\ Set(seen, b, seen[b] \cup {id})
                /\ Set(unread, b, unread[b] + 1)
           ELSE UNCHANGED <<list, seen, unread>>
    /\ UNCHANGED <<server, hub, mounted, link, history, marks, due>>

-----------------------------------------------------------------------------
(* The hook: the user's actions, and the PATCH requests they send. *)

\* The button of an unread entry.
MarkAsRead(b) ==
    /\ mounted[b] = "mounted"
    /\ \E i \in DOMAIN list[b] :
           /\ ~list[b][i].read
           /\ list' = [list EXCEPT ![b][i].read = TRUE]
           /\ marks' = marks \cup {list[b][i].id}
    /\ Set(unread, b, IF unread[b] > 0 THEN unread[b] - 1 ELSE 0)
    /\ UNCHANGED <<server, hub, mounted, link, taken, history, seen, due>>

\* The button shown while the badge is positive.
MarkAllAsRead(b) ==
    /\ mounted[b] = "mounted" /\ unread[b] > 0
    /\ Set(list, b, [i \in DOMAIN list[b] |-> [list[b][i] EXCEPT !.read = TRUE]])
    /\ Set(unread, b, 0)
    /\ marks' = marks \cup {All}
    /\ UNCHANGED <<server, hub, mounted, link, taken, history, seen, due>>

ClearNotifications(b) ==
    /\ mounted[b] = "mounted" /\ list[b] # << >>
    /\ Set(list, b, << >>) /\ Set(unread, b, 0) /\ Set(seen, b, {})
    /\ UNCHANGED <<server, hub, mounted, link, taken, history, marks>>
    /\ due' = [due EXCEPT ![b] = {}]

\* MarkAsRead finds nothing under the id of a live message; MarkAllAsRead
\* concerns what is stored under the user's own id.
MarkArrives(m) ==
    /\ m \in marks
    /\ marks' = marks \ {m}
    /\ collection' = [i \in DOMAIN collection |->
                         IF \/ collection[i].id = m
                            \/ m = All /\ collection[i].id[2] \notin Broadcasts
                         THEN [collection[i] EXCEPT !.read = TRUE]
                         ELSE collection[i]]
    /\ UNCHANGED <<published, subscribed, queue, hub, bell, due>>

MarkFails(m) ==
    /\ Faults
    /\ m \in marks
    /\ marks' = marks \ {m}
    /\ UNCHANGED <<server, hub, bell, due>>

-----------------------------------------------------------------------------
Publishing(n) == Push(n) \/ PushFails(n) \/ Store(n) \/ StoreFails(n)

Hook(b) ==
    \/ Mount(b) \/ Unmount(b) \/ AnswerHistory(b) \/ HistoryArrives(b) \/ HistoryFails(b)
    \/ Open(b) \/ Close(b) \/ Reconnect(b) \/ Receive(b)
    \/ MarkAsRead(b) \/ MarkAllAsRead(b) \/ ClearNotifications(b)

Next ==
    \/ \E n \in Posts : Publishing(n)
    \/ SubscriptionLost \/ Resubscribe \/ HandleMessage
    \/ \E b \in Bells : HubForwards(b) \/ Hook(b)
    \/ \E m \in marks : MarkArrives(m) \/ MarkFails(m)

Spec == Init /\ [][Next]_vars

\* Timers fire, and the Go service does not refuse a bell for ever.
FairSpec ==
    /\ Spec
    /\ \A b \in Bells : SF_vars(Open(b)) /\ WF_vars(Reconnect(b))

-----------------------------------------------------------------------------
(* Properties. *)

\* The badge counts the unread entries of the list, although history, live
\* messages and the user's actions change the two by different statements.
BadgeIsExact == \A b \in Bells : unread[b] = Unread(list[b])

\* What an attentive bell is due is shown, or still on its way to the socket:
\* reconnections, answers and deduplication lose none of it.
LiveIsShown ==
    \A b \in Bells : \A n \in due[b] :
        \/ \E i \in DOMAIN queue : queue[i] = n
        \/ \E i \in DOMAIN got[b] : i > taken[b] /\ got[b][i] = Note(n)
        \/ LiveId(n) \in InList(b)

\* A bell on the page is connected again and again.
StaysConnected == \A b \in Bells : (mounted[b] = "mounted") ~> (link[b] = "open" \/ mounted[b] = "gone")

=============================================================================
