----------------------------- MODULE Inbox_proofs -----------------------------
(***************************************************************************)
(* Proofs about Inbox, for any number of bells and notifications and any   *)
(* length of the history: the state has its type, the badge counts the     *)
(* unread entries of the list, and nothing that an attentive bell is due   *)
(* is lost.                                                                *)
(***************************************************************************)
EXTENDS Inbox, SequenceTheorems, FiniteSetTheorems, TLAPS

-----------------------------------------------------------------------------
(* Type correctness, in three parts. *)

Stored == {n \in Posts : published[n] = "done"}
Given  == {Note(n) : n \in Posts}

\* The collection holds no more than was published to its end.
ServerTyped ==
    /\ published \in [Posts -> {"new", "pushed", "done"}]
    /\ subscribed \in BOOLEAN
    /\ queue \in Seq(Posts)
    /\ collection \in Seq(Entry) /\ Len(collection) <= Cardinality(Stored)

HubTyped ==
    /\ log \in Seq(Given)
    /\ got \in [Bells -> Seq(Given)]
    /\ status \in [Bells -> {"away", "joined", "left"}]

\* The hook has seen exactly what it lists.
HookTyped ==
    /\ mounted \in [Bells -> {"before", "mounted", "gone"}]
    /\ link \in [Bells -> {"off", "connecting", "open", "closing", "waiting"}]
    /\ \A b \in Bells : mounted[b] = "before" => link[b] = "off"
    /\ taken \in [Bells -> Nat]
    /\ history \in [Bells -> [phase : {"none", "asked", "answered", "loaded"}, items : Seq(Entry)]]
    /\ list \in [Bells -> Seq(Entry)]
    /\ seen = [b \in Bells |-> InList(b)]
    /\ unread \in [Bells -> Nat]

TypeInv ==
    /\ ServerTyped /\ HubTyped /\ HookTyped
    /\ marks \subseteq Ids \cup {All}
    /\ due \in [Bells -> SUBSET Posts]

LEMMA NoteId ==
  ASSUME NEW n \in Posts
  PROVE  Note(n).id = LiveId(n) /\ LiveId(n) \in Ids /\ StoredId(n) \in Ids
  BY DEF Note, LiveId, StoredId, Ids

LEMMA StoredFinite ==
  /\ IsFiniteSet(Stored) /\ Cardinality(Stored) \in Nat
  /\ Cardinality(Posts) \in Nat /\ Cardinality(Stored) <= Cardinality(Posts)
<1>1. Stored \in SUBSET Posts
  BY DEF Stored
<1> QED
  BY <1>1, PostsAssumption, FS_Subset, FS_CardinalityType

LEMMA TypeInvImplies == TypeInv => TypeOK
<1> SUFFICES ASSUME TypeInv PROVE TypeOK
  OBVIOUS
<1>1. \A b \in Bells : seen[b] \subseteq Ids /\ InList(b) \subseteq seen[b]
  <2>1. \A b \in Bells : \A i \in DOMAIN list[b] : list[b][i] \in Entry
    BY LenProperties, ElementOfSeq DEF TypeInv, HookTyped
  <2> QED
    BY <2>1 DEF TypeInv, HookTyped, InList, Entry
<1>2. Len(collection) <= Cardinality(Posts)
  BY StoredFinite, LenProperties DEF TypeInv, ServerTyped
<1> QED
  BY <1>1, <1>2 DEF TypeInv, ServerTyped, HubTyped, HookTyped, Given, TypeOK

LEMMA InitType == Init => TypeInv
<1> SUFFICES ASSUME Init PROVE TypeInv
  OBVIOUS
<1>1. ServerTyped
  BY StoredFinite DEF Init, ServerTyped
<1>2. HubTyped
  BY DEF Init, Hub!Init, HubTyped
<1>3. HookTyped
  BY DEF Init, HookTyped, NotAsked, InList
<1> QED
  BY <1>1, <1>2, <1>3 DEF Init, TypeInv

LEMMA SameServer == ServerTyped /\ UNCHANGED server => ServerTyped'
  BY DEF ServerTyped, server, Stored

LEMMA SameHub == HubTyped /\ UNCHANGED hub => HubTyped'
  BY DEF HubTyped, hub

LEMMA SameBell == HookTyped /\ UNCHANGED bell => HookTyped'
  BY DEF HookTyped, bell, InList

\* The history variable has its type in any step that says so.
LEMMA ExpectType ==
  ASSUME TypeInv, Expect
  PROVE  due' \in [Bells -> SUBSET Posts]
  BY DEF Expect, PushedNow, TypeInv

-----------------------------------------------------------------------------
(* The steps of the server. *)

\* One more notification is done: it may have been stored.
LEMMA OneMoreDone ==
  ASSUME ServerTyped, NEW n \in Posts, published[n] # "done",
         published' = [published EXCEPT ![n] = "done"]
  PROVE  /\ Cardinality(Stored') = Cardinality(Stored) + 1
         /\ published' \in [Posts -> {"new", "pushed", "done"}]
<1>1. Stored' = Stored \cup {n} /\ n \notin Stored
  BY DEF Stored, ServerTyped
<1> QED
  BY <1>1, StoredFinite, FS_AddElement DEF ServerTyped

LEMMA PublishingType ==
  ASSUME TypeInv, NEW n \in Posts, Publishing(n)
  PROVE  TypeInv'
<1>0. ServerTyped /\ Len(collection) \in Nat
  BY LenProperties DEF TypeInv, ServerTyped
<1>1. HubTyped' /\ HookTyped' /\ marks' \subseteq Ids \cup {All}
  BY SameHub, SameBell DEF Publishing, Push, PushFails, Store, StoreFails, TypeInv
<1>2. due' \in [Bells -> SUBSET Posts]
  <2>1. CASE Push(n)
    BY <2>1, ExpectType DEF Push
  <2>2. CASE PushFails(n) \/ Store(n) \/ StoreFails(n)
    BY <2>2 DEF PushFails, Store, StoreFails, TypeInv
  <2> QED
    BY <2>1, <2>2 DEF Publishing
<1>3. ServerTyped'
  <2>1. CASE Push(n)
    <3>1. Stored' = Stored
      BY <1>0, <2>1 DEF Push, Stored, ServerTyped
    <3>2. queue' \in Seq(Posts)
      BY <1>0, <2>1 DEF Push, ServerTyped
    <3>3. published' \in [Posts -> {"new", "pushed", "done"}]
      BY <1>0, <2>1 DEF Push, ServerTyped
    <3> QED
      BY <1>0, <2>1, <3>1, <3>2, <3>3 DEF Push, ServerTyped
  <2>2. CASE PushFails(n) \/ StoreFails(n)
    <3>1. /\ Cardinality(Stored') = Cardinality(Stored) + 1
          /\ published' \in [Posts -> {"new", "pushed", "done"}]
      BY <1>0, <2>2, OneMoreDone DEF PushFails, StoreFails
    <3> QED
      BY <1>0, <2>2, <3>1, StoredFinite DEF PushFails, StoreFails, ServerTyped
  <2>3. CASE Store(n)
    <3>1. /\ Cardinality(Stored') = Cardinality(Stored) + 1
          /\ published' \in [Posts -> {"new", "pushed", "done"}]
      BY <1>0, <2>3, OneMoreDone DEF Store
    <3>2. [id |-> StoredId(n), read |-> FALSE] \in Entry
      BY NoteId DEF Entry
    <3>3. collection' \in Seq(Entry) /\ Len(collection') = Len(collection) + 1
      BY <1>0, <2>3, <3>2 DEF Store, ServerTyped
    <3> QED
      BY <1>0, <2>3, <3>1, <3>3, StoredFinite DEF Store, ServerTyped
  <2> QED
    BY <2>1, <2>2, <2>3 DEF Publishing
<1> QED
  BY <1>1, <1>2, <1>3 DEF TypeInv

LEMMA SubscriberType ==
  ASSUME TypeInv, SubscriptionLost \/ Resubscribe \/ HandleMessage
  PROVE  TypeInv'
<1>1. due' \in [Bells -> SUBSET Posts]
  BY ExpectType DEF SubscriptionLost, Resubscribe, HandleMessage
<1>2. HookTyped' /\ marks' \subseteq Ids \cup {All}
  BY SameBell DEF SubscriptionLost, Resubscribe, HandleMessage, TypeInv
<1>3. queue' \in Seq(Posts)
  <2>1. CASE SubscriptionLost
    <3>1. PICK kept \in 0..Len(queue) : queue' = SubSeq(queue, 1, kept)
      BY <2>1 DEF SubscriptionLost
    <3>2. queue \in Seq(Posts) /\ kept \in Nat /\ kept <= Len(queue)
      BY LenProperties DEF TypeInv, ServerTyped
    <3>3. \A i \in 1..kept : queue[i] \in Posts
      BY <3>2, ElementOfSeq, LenProperties
    <3> QED
      BY <3>1, <3>2, <3>3, SubSeqProperties
  <2>2. CASE Resubscribe
    BY <2>2 DEF Resubscribe, TypeInv, ServerTyped
  <2>3. CASE HandleMessage
    BY <2>3, HeadTailProperties DEF HandleMessage, TypeInv, ServerTyped
  <2> QED
    BY <2>1, <2>2, <2>3
<1>4. ServerTyped'
  BY <1>3 DEF SubscriptionLost, Resubscribe, HandleMessage, TypeInv, ServerTyped, Stored
<1>5. HubTyped'
  <2>1. CASE SubscriptionLost \/ Resubscribe
    BY <2>1, SameHub DEF SubscriptionLost, Resubscribe, TypeInv
  <2>2. CASE HandleMessage
    <3>1. Note(Head(queue)) \in Given
      BY <2>2, HeadTailProperties DEF HandleMessage, TypeInv, ServerTyped, Given
    <3>2. PICK dropped \in SUBSET Bells : Hub!Accept(Note(Head(queue)), dropped)
      BY <2>2 DEF HandleMessage
    <3>3. log' \in Seq(Given)
      BY <3>1, <3>2 DEF Hub!Accept, TypeInv, HubTyped
    <3>4. got' \in [Bells -> Seq(Given)]
      BY <3>1, <3>2 DEF Hub!Accept, TypeInv, HubTyped
    <3>5. status' \in [Bells -> {"away", "joined", "left"}]
      BY <3>2 DEF Hub!Accept, TypeInv, HubTyped
    <3> QED
      BY <3>3, <3>4, <3>5 DEF HubTyped
  <2> QED
    BY <2>1, <2>2
<1> QED
  BY <1>1, <1>2, <1>4, <1>5 DEF TypeInv

LEMMA ForwardType ==
  ASSUME TypeInv, NEW b \in Bells, HubForwards(b)
  PROVE  TypeInv'
<1>1. log \in Seq(Given) /\ log # << >>
  BY DEF HubForwards, Hub!Forward, TypeInv, HubTyped
<1>2. log[Len(log)] \in Given
  BY <1>1, EmptySeq, LenProperties, ElementOfSeq
<1>3. got' \in [Bells -> Seq(Given)]
  BY <1>2 DEF HubForwards, Hub!Forward, TypeInv, HubTyped
<1>4. HubTyped'
  BY <1>3 DEF HubForwards, Hub!Forward, TypeInv, HubTyped
<1> QED
  BY <1>4, SameServer, SameBell DEF HubForwards, TypeInv

-----------------------------------------------------------------------------
(* The steps of the hook. *)

\* A step of one bell that leaves its list alone, or that replaces it.
LEMMA HookKeepsList ==
  ASSUME HookTyped, UNCHANGED <<list, seen, unread>>,
         mounted' \in [Bells -> {"before", "mounted", "gone"}],
         link' \in [Bells -> {"off", "connecting", "open", "closing", "waiting"}],
         \A b \in Bells : mounted'[b] = "before" => link'[b] = "off",
         taken' \in [Bells -> Nat],
         history' \in [Bells -> [phase : {"none", "asked", "answered", "loaded"}, items : Seq(Entry)]]
  PROVE  HookTyped'
  BY DEF HookTyped, InList

LEMMA HookSetsList ==
  ASSUME HookTyped, NEW b \in Bells, NEW items \in Seq(Entry), NEW n \in Nat,
         Set(list, b, items), Set(unread, b, n),
         Set(seen, b, {items[i].id : i \in DOMAIN items}),
         mounted' \in [Bells -> {"before", "mounted", "gone"}],
         link' \in [Bells -> {"off", "connecting", "open", "closing", "waiting"}],
         \A c \in Bells : mounted'[c] = "before" => link'[c] = "off",
         taken' \in [Bells -> Nat],
         history' \in [Bells -> [phase : {"none", "asked", "answered", "loaded"}, items : Seq(Entry)]]
  PROVE  HookTyped'
<1>1. list' \in [Bells -> Seq(Entry)] /\ unread' \in [Bells -> Nat]
  BY DEF HookTyped, Set
<1>2. \A c \in Bells : seen'[c] = InList(c)'
  BY DEF HookTyped, Set, InList
<1>3. seen' \in [Bells -> {seen'[c] : c \in Bells}]
  BY DEF HookTyped, Set
<1>4. seen' = [c \in Bells |-> InList(c)']
  BY <1>2, <1>3
<1> QED
  BY <1>1, <1>4 DEF HookTyped, InList

LEMMA NoItems == << >> \in Seq(Entry) /\ {<< >>[i].id : i \in DOMAIN << >>} = {}
  OBVIOUS

\* The number of unread entries of a list.
LEMMA UnreadType ==
  ASSUME NEW items \in Seq(Entry)
  PROVE  /\ Unread(items) \in Nat
         /\ IsFiniteSet({i \in DOMAIN items : ~items[i].read})
<1>1. IsFiniteSet(DOMAIN items)
  BY LenProperties, FS_Interval
<1>2. {i \in DOMAIN items : ~items[i].read} \in SUBSET DOMAIN items
  OBVIOUS
<1> QED
  BY <1>1, <1>2, FS_Subset, FS_CardinalityType DEF Unread

\* The answer to fetchHistory.
LEMMA HistoryType ==
  ASSUME TypeInv, NEW b \in Bells, AnswerHistory(b)
  PROVE  history' \in [Bells -> [phase : {"none", "asked", "answered", "loaded"}, items : Seq(Entry)]]
<1> DEFINE own == {i \in DOMAIN collection : collection[i].id[2] \notin Broadcasts}
           k == IF Cardinality(own) < Page THEN Cardinality(own) ELSE Page
<1>1. collection \in Seq(Entry) /\ IsFiniteSet(DOMAIN collection)
  BY LenProperties, FS_Interval DEF TypeInv, ServerTyped
<1>2. own \in SUBSET DOMAIN collection
  OBVIOUS
<1>3. k \in Nat
  BY <1>1, <1>2, FS_Subset, FS_CardinalityType, PageAssumption
<1>4. PICK place \in [1..k -> own] : Set(history, b, Answer([j \in 1..k |-> collection[place[j]]]))
  BY DEF AnswerHistory
<1>5. \A j \in 1..k : collection[place[j]] \in Entry
  BY <1>1, <1>2, <1>4, LenProperties, ElementOfSeq
<1> HIDE DEF k, own
<1>6. [j \in 1..k |-> collection[place[j]]] \in Seq(Entry)
  BY <1>3, <1>5
<1> QED
  BY <1>4, <1>6 DEF Set, Answer, TypeInv, HookTyped

LEMMA ConnectionType ==
  ASSUME TypeInv, NEW b \in Bells,
         \/ Mount(b) \/ AnswerHistory(b) \/ HistoryFails(b)
         \/ Open(b) \/ Close(b) \/ Reconnect(b)
  PROVE  TypeInv'
<1>1. due' \in [Bells -> SUBSET Posts]
  BY ExpectType DEF Mount, AnswerHistory, HistoryFails, Open, Close, Reconnect
<1>2. ServerTyped' /\ marks' \subseteq Ids \cup {All}
  BY SameServer DEF Mount, AnswerHistory, HistoryFails, Open, Close, Reconnect, TypeInv
<1>3. HubTyped'
  <2>1. CASE UNCHANGED hub
    BY <2>1, SameHub DEF TypeInv
  <2>2. CASE Hub!Join(b) \/ Hub!Leave(b)
    <3>1. got' \in [Bells -> Seq(Given)] /\ UNCHANGED log
      <4>1. << >> \in Seq(Given)
        OBVIOUS
      <4> QED
        BY <2>2, <4>1 DEF Hub!Join, Hub!Leave, TypeInv, HubTyped
    <3>2. status' \in [Bells -> {"away", "joined", "left"}]
      BY <2>2 DEF Hub!Join, Hub!Leave, TypeInv, HubTyped
    <3> QED
      BY <3>1, <3>2 DEF TypeInv, HubTyped
  <2> QED
    BY <2>1, <2>2 DEF Mount, AnswerHistory, HistoryFails, Open, Close, Reconnect
<1>4. HookTyped'
  <2>1. UNCHANGED <<list, seen, unread>>
    BY DEF Mount, AnswerHistory, HistoryFails, Open, Close, Reconnect
  <2>2. history' \in [Bells -> [phase : {"none", "asked", "answered", "loaded"}, items : Seq(Entry)]]
    <3>1. CASE AnswerHistory(b)
      BY <3>1, HistoryType
    <3>2. Asked \in [phase : {"none", "asked", "answered", "loaded"}, items : Seq(Entry)]
          /\ Loaded \in [phase : {"none", "asked", "answered", "loaded"}, items : Seq(Entry)]
      BY DEF Asked, Loaded
    <3> QED
      BY <3>1, <3>2 DEF Mount, HistoryFails, Open, Close, Reconnect, Set, TypeInv, HookTyped
  <2>3. taken' \in [Bells -> Nat]
    BY DEF Mount, AnswerHistory, HistoryFails, Open, Close, Reconnect, Set, TypeInv, HookTyped
  <2>4. /\ mounted' \in [Bells -> {"before", "mounted", "gone"}]
        /\ link' \in [Bells -> {"off", "connecting", "open", "closing", "waiting"}]
    BY DEF Mount, AnswerHistory, HistoryFails, Open, Close, Reconnect, Set, TypeInv, HookTyped
  <2>5. \A c \in Bells : mounted'[c] = "before" => link'[c] = "off"
    <3>1. CASE Mount(b)
      BY <3>1 DEF Mount, Set, TypeInv, HookTyped
    <3>2. CASE AnswerHistory(b) \/ HistoryFails(b)
      BY <3>2 DEF AnswerHistory, HistoryFails, TypeInv, HookTyped
    <3>3. CASE Open(b) \/ Close(b) \/ Reconnect(b)
      <4>1. mounted[b] # "before" /\ UNCHANGED mounted
        BY <3>3 DEF Open, Close, Reconnect, TypeInv, HookTyped
      <4>2. \A c \in Bells \ {b} : link'[c] = link[c]
        BY <3>3 DEF Open, Close, Reconnect, Set, TypeInv, HookTyped
      <4> QED
        BY <4>1, <4>2 DEF TypeInv, HookTyped
    <3> QED
      BY <3>1, <3>2, <3>3
  <2> QED
    BY <2>1, <2>2, <2>3, <2>4, <2>5, HookKeepsList DEF TypeInv
<1> QED
  BY <1>1, <1>2, <1>3, <1>4 DEF TypeInv

-----------------------------------------------------------------------------
(* What the hook does to its list, and how many unread entries that leaves. *)

\* A set of numbers, each increased by one.
LEMMA ShiftedCardinality ==
  ASSUME NEW S \in SUBSET Nat, IsFiniteSet(S)
  PROVE  /\ IsFiniteSet({i + 1 : i \in S})
         /\ Cardinality({i + 1 : i \in S}) = Cardinality(S)
<1> DEFINE T == {i + 1 : i \in S}
           f == [i \in S |-> i + 1]
<1>1. f \in Bijection(S, T)
  <2>1. f \in [S -> T] /\ \A i, j \in S : f[i] = f[j] => i = j
    OBVIOUS
  <2>2. \A t \in T : \E i \in S : f[i] = t
    OBVIOUS
  <2> QED
    BY <2>1, <2>2 DEF Bijection, Injection, Surjection, IsInjective
<1> QED
  BY <1>1, FS_Bijection DEF ExistsBijection

LEMMA Prepended ==
  ASSUME NEW items \in Seq(Entry), NEW e \in Entry, ~e.read
  PROVE  LET longer == <<e>> \o items
         IN  /\ longer \in Seq(Entry)
             /\ {longer[i].id : i \in DOMAIN longer}
                  = {items[i].id : i \in DOMAIN items} \cup {e.id}
             /\ Unread(longer) = Unread(items) + 1
<1> DEFINE longer == <<e>> \o items
           U == {i \in DOMAIN items : ~items[i].read}
           V == {i \in DOMAIN longer : ~longer[i].read}
           W == {i + 1 : i \in U}
<1>1. /\ longer \in Seq(Entry) /\ Len(longer) = Len(items) + 1
      /\ longer[1] = e /\ \A i \in 1..Len(items) : longer[i + 1] = items[i]
  OBVIOUS
<1>2. /\ DOMAIN items = 1..Len(items) /\ Len(items) \in Nat
      /\ DOMAIN longer = 1..(Len(items) + 1)
  BY <1>1, LenProperties
<1> HIDE DEF longer
<1>3. \A j \in DOMAIN longer : j = 1 \/ \E i \in DOMAIN items : j = i + 1
  <2> SUFFICES ASSUME NEW j \in 1..(Len(items) + 1), j # 1
               PROVE  j - 1 \in 1..Len(items) /\ j = (j - 1) + 1
    BY <1>2
  <2> QED
    BY <1>2
<1>4. {longer[i].id : i \in DOMAIN longer} = {items[i].id : i \in DOMAIN items} \cup {e.id}
  BY <1>1, <1>2, <1>3
<1>5. V = W \cup {1} /\ 1 \notin W
  BY <1>1, <1>2, <1>3
<1>6. U \in SUBSET Nat /\ IsFiniteSet(U)
  <2>1. U \in SUBSET Nat
    BY <1>2
  <2> QED
    BY <2>1, UnreadType
<1>7. IsFiniteSet(W) /\ Cardinality(W) = Cardinality(U)
  BY <1>6, ShiftedCardinality
<1>8. Cardinality(V) = Cardinality(W) + 1
  BY <1>5, <1>7, FS_AddElement
<1>9. Unread(longer) = Cardinality(V) /\ Unread(items) = Cardinality(U)
  BY DEF Unread
<1> QED
  BY <1>1, <1>4, <1>7, <1>8, <1>9 DEF longer

LEMMA MarkedOne ==
  ASSUME NEW items \in Seq(Entry), NEW i \in DOMAIN items, ~items[i].read
  PROVE  LET marked == [items EXCEPT ![i].read = TRUE]
         IN  /\ marked \in Seq(Entry)
             /\ {marked[j].id : j \in DOMAIN marked} = {items[j].id : j \in DOMAIN items}
             /\ Unread(items) > 0
             /\ Unread(marked) = Unread(items) - 1
<1> DEFINE marked == [items EXCEPT ![i].read = TRUE]
           U == {j \in DOMAIN items : ~items[j].read}
           V == {j \in DOMAIN marked : ~marked[j].read}
<1>1. /\ DOMAIN items = 1..Len(items) /\ items[i] \in Entry
      /\ \A j \in DOMAIN items : items[j] \in Entry
  BY LenProperties, ElementOfSeq
<1>2. [items[i] EXCEPT !.read = TRUE] \in Entry /\ [items[i] EXCEPT !.read = TRUE].id = items[i].id
      /\ [items[i] EXCEPT !.read = TRUE].read = TRUE
  BY <1>1 DEF Entry
<1>3. marked = [items EXCEPT ![i] = [items[i] EXCEPT !.read = TRUE]]
  OBVIOUS
<1>4. marked \in Seq(Entry) /\ DOMAIN marked = DOMAIN items
  BY <1>1, <1>2, <1>3, ExceptSeq
<1>5. \A j \in DOMAIN items : /\ marked[j].id = items[j].id
                             /\ marked[j].read = (j = i \/ items[j].read)
  BY <1>1, <1>2, <1>3 DEF Entry
<1> HIDE DEF marked
<1>6. V = U \ {i} /\ i \in U
  BY <1>4, <1>5
<1>7. IsFiniteSet(U) /\ Cardinality(U) \in Nat /\ IsFiniteSet(V) /\ Cardinality(V) \in Nat
  BY <1>4, UnreadType, FS_CardinalityType
<1>8. Cardinality(V) = Cardinality(U) - 1
  BY <1>6, <1>7, FS_RemoveElement
<1>9. Unread(marked) = Cardinality(V) /\ Unread(items) = Cardinality(U)
  BY DEF Unread
<1>10. {marked[j].id : j \in DOMAIN marked} = {items[j].id : j \in DOMAIN items}
  BY <1>4, <1>5
<1> QED
  BY <1>4, <1>7, <1>8, <1>9, <1>10 DEF marked

LEMMA MarkedAll ==
  ASSUME NEW items \in Seq(Entry)
  PROVE  LET marked == [i \in DOMAIN items |-> [items[i] EXCEPT !.read = TRUE]]
         IN  /\ marked \in Seq(Entry)
             /\ {marked[j].id : j \in DOMAIN marked} = {items[j].id : j \in DOMAIN items}
             /\ Unread(marked) = 0
<1> DEFINE marked == [i \in DOMAIN items |-> [items[i] EXCEPT !.read = TRUE]]
<1>1. /\ DOMAIN items = 1..Len(items) /\ Len(items) \in Nat
      /\ \A j \in DOMAIN items : items[j] \in Entry
  BY LenProperties, ElementOfSeq
<1>2. \A j \in DOMAIN items : /\ marked[j] \in Entry /\ marked[j].id = items[j].id
                             /\ marked[j].read = TRUE
  BY <1>1 DEF Entry
<1>3. marked \in Seq(Entry) /\ DOMAIN marked = DOMAIN items
  BY <1>1, <1>2
<1> HIDE DEF marked
<1>4. {j \in DOMAIN marked : ~marked[j].read} = {}
  BY <1>2, <1>3
<1>5. Unread(marked) = 0
  BY <1>4, FS_EmptySet DEF Unread
<1> QED
  BY <1>2, <1>3, <1>5 DEF marked

-----------------------------------------------------------------------------
(* The steps of the hook that change its list. *)

Exact(b) == unread[b] = Unread(list[b])

\* The bell shows these entries, has seen their ids, and counts n; if the badge was
\* exact before, it is.
Shows(b, items, n) ==
    /\ items \in Seq(Entry) /\ n \in Nat
    /\ Set(list, b, items) /\ Set(unread, b, n)
    /\ Set(seen, b, {items[i].id : i \in DOMAIN items})
    /\ Exact(b) => n = Unread(items)

ChangesList(b) ==
    \/ Unmount(b) \/ HistoryArrives(b) \/ Receive(b)
    \/ MarkAsRead(b) \/ MarkAllAsRead(b) \/ ClearNotifications(b)

LEMMA UnreadNone == Unread(<< >>) = 0
<1>1. {i \in DOMAIN << >> : ~<< >>[i].read} = {}
  OBVIOUS
<1> QED
  BY <1>1, FS_EmptySet DEF Unread

\* What the steps have in common: an exact badge stays exact.
LEMMA ListStep ==
  ASSUME TypeInv, NEW b \in Bells, ChangesList(b)
  PROVE  \E items, n : Shows(b, items, n)
<1>0. /\ list[b] \in Seq(Entry) /\ unread[b] \in Nat
      /\ seen[b] = {list[b][i].id : i \in DOMAIN list[b]}
      /\ list \in [Bells -> Seq(Entry)] /\ unread \in [Bells -> Nat]
      /\ seen = [c \in Bells |-> seen[c]]
  BY DEF TypeInv, HookTyped, InList
<1>1. CASE Unmount(b) \/ ClearNotifications(b)
  <2>1. Shows(b, << >>, 0)
    BY <1>1, NoItems, UnreadNone DEF Unmount, ClearNotifications, Shows
  <2> QED
    BY <2>1
<1>2. CASE HistoryArrives(b)
  <2>1. history[b].items \in Seq(Entry)
    BY DEF TypeInv, HookTyped
  <2>2. Shows(b, history[b].items, Unread(history[b].items))
    BY <1>2, <2>1, UnreadType DEF HistoryArrives, Shows
  <2> QED
    BY <2>2 DEF Shows, Set, Exact
<1>3. CASE Receive(b)
  <2>1. CASE UNCHANGED <<list, seen, unread>>
    <3>1. Shows(b, list[b], unread[b])
      BY <1>0, <2>1 DEF Shows, Set, Exact
    <3> QED
      BY <3>1 DEF Shows, Set, Exact
  <2>2. CASE ~UNCHANGED <<list, seen, unread>>
    <3> DEFINE note == got[b][taken[b] + 1]
               e == [id |-> note.id, read |-> FALSE]
    <3>1. taken[b] + 1 \in 1..Len(got[b]) /\ got[b] \in Seq(Given)
      BY <1>3, LenProperties DEF Receive, TypeInv, HookTyped, HubTyped
    <3>2. note \in Given
      BY <3>1, ElementOfSeq
    <3>3. note.id \in Ids /\ e \in Entry /\ ~e.read
      BY <3>2, NoteId DEF Given, Entry
    <3>4. /\ Set(list, b, <<e>> \o list[b])
          /\ Set(seen, b, seen[b] \cup {e.id}) /\ Set(unread, b, unread[b] + 1)
      BY <1>3, <2>2 DEF Receive
    <3> HIDE DEF e
    <3> DEFINE longer == <<e>> \o list[b]
    <3>5. /\ longer \in Seq(Entry)
          /\ {longer[i].id : i \in DOMAIN longer} = seen[b] \cup {e.id}
          /\ Unread(longer) = Unread(list[b]) + 1
      BY <1>0, <3>3, Prepended
    <3> HIDE DEF longer
    <3>6. Shows(b, longer, unread[b] + 1)
      <4>1. Set(list, b, longer)
        BY <3>4 DEF longer
      <4>2. Set(seen, b, {longer[i].id : i \in DOMAIN longer})
        BY <3>4, <3>5 DEF Set
      <4> QED
        BY <1>0, <3>4, <3>5, <4>1, <4>2 DEF Shows, Exact
    <3> QED
      BY <3>6 DEF Shows, Set, Exact
  <2> QED
    BY <2>1, <2>2
<1>4. CASE MarkAsRead(b)
  <2>1. PICK i \in DOMAIN list[b] :
            ~list[b][i].read /\ list' = [list EXCEPT ![b][i].read = TRUE]
    BY <1>4 DEF MarkAsRead
  <2> DEFINE marked == [list[b] EXCEPT ![i].read = TRUE]
             n == IF unread[b] > 0 THEN unread[b] - 1 ELSE 0
  <2>2. /\ marked \in Seq(Entry) /\ Unread(list[b]) > 0 /\ Unread(marked) = Unread(list[b]) - 1
        /\ {marked[j].id : j \in DOMAIN marked} = {list[b][j].id : j \in DOMAIN list[b]}
    BY <1>0, <2>1, MarkedOne
  <2>3. Set(list, b, marked)
    BY <1>0, <2>1 DEF Set
  <2>4. Set(unread, b, n) /\ n \in Nat /\ UNCHANGED seen
    BY <1>0, <1>4 DEF MarkAsRead
  <2> HIDE DEF marked, n
  <2>5. Shows(b, marked, n)
    <3>1. Set(seen, b, {marked[j].id : j \in DOMAIN marked})
      BY <1>0, <2>2, <2>4 DEF Set
    <3>2. Exact(b) => n = Unread(marked)
      BY <2>2 DEF Exact, n
    <3> QED
      BY <2>2, <2>3, <2>4, <3>1, <3>2 DEF Shows
  <2> QED
    BY <2>5 DEF Shows, Set, Exact
<1>5. CASE MarkAllAsRead(b)
  <2> DEFINE marked == [i \in DOMAIN list[b] |-> [list[b][i] EXCEPT !.read = TRUE]]
  <2>1. /\ marked \in Seq(Entry) /\ Unread(marked) = 0
        /\ {marked[j].id : j \in DOMAIN marked} = {list[b][j].id : j \in DOMAIN list[b]}
    BY <1>0, MarkedAll
  <2>2. Set(list, b, marked) /\ Set(unread, b, 0) /\ UNCHANGED seen
    BY <1>5 DEF MarkAllAsRead
  <2> HIDE DEF marked
  <2>3. Shows(b, marked, 0)
    <3>1. Set(seen, b, {marked[j].id : j \in DOMAIN marked})
      BY <1>0, <2>1, <2>2 DEF Set
    <3> QED
      BY <2>1, <2>2, <3>1 DEF Shows
  <2> QED
    BY <2>3 DEF Shows, Set, Exact
<1> QED
  BY <1>1, <1>2, <1>3, <1>4, <1>5 DEF ChangesList

LEMMA ListType ==
  ASSUME TypeInv, NEW b \in Bells, ChangesList(b)
  PROVE  TypeInv'
<1>1. PICK items, n : Shows(b, items, n)
  BY ListStep
<1>2. ServerTyped' /\ HubTyped'
  BY SameServer, SameHub DEF ChangesList, Unmount, HistoryArrives, Receive, MarkAsRead,
     MarkAllAsRead, ClearNotifications, TypeInv
<1>3. due' \in [Bells -> SUBSET Posts]
  <2>1. CASE Unmount(b) \/ HistoryArrives(b)
    BY <2>1, ExpectType DEF Unmount, HistoryArrives
  <2>2. CASE Receive(b) \/ MarkAsRead(b) \/ MarkAllAsRead(b) \/ ClearNotifications(b)
    BY <2>2 DEF Receive, MarkAsRead, MarkAllAsRead, ClearNotifications, TypeInv
  <2> QED
    BY <2>1, <2>2 DEF ChangesList
<1>4. marks' \subseteq Ids \cup {All}
  <2>1. CASE MarkAsRead(b)
    <3>1. \A i \in DOMAIN list[b] : list[b][i].id \in Ids
      <4>1. \A i \in DOMAIN list[b] : list[b][i] \in Entry
        BY LenProperties, ElementOfSeq DEF TypeInv, HookTyped
      <4> QED
        BY <4>1 DEF Entry
    <3> QED
      BY <2>1, <3>1 DEF MarkAsRead, TypeInv
  <2>2. CASE ~MarkAsRead(b)
    BY <2>2 DEF ChangesList, Unmount, HistoryArrives, Receive, MarkAllAsRead,
       ClearNotifications, TypeInv
  <2> QED
    BY <2>1, <2>2
<1>5. HookTyped'
  <2>1. history' \in [Bells -> [phase : {"none", "asked", "answered", "loaded"}, items : Seq(Entry)]]
    <3>1. CASE Unmount(b) \/ HistoryArrives(b)
      <4>1. /\ NotAsked \in [phase : {"none", "asked", "answered", "loaded"}, items : Seq(Entry)]
            /\ Loaded \in [phase : {"none", "asked", "answered", "loaded"}, items : Seq(Entry)]
        BY DEF NotAsked, Loaded
      <4> QED
        BY <3>1, <4>1 DEF Unmount, HistoryArrives, Set, TypeInv, HookTyped
    <3>2. CASE Receive(b) \/ MarkAsRead(b) \/ MarkAllAsRead(b) \/ ClearNotifications(b)
      BY <3>2 DEF Receive, MarkAsRead, MarkAllAsRead, ClearNotifications, TypeInv, HookTyped
    <3> QED
      BY <3>1, <3>2 DEF ChangesList
  <2>2. taken' \in [Bells -> Nat]
    BY DEF ChangesList, Unmount, HistoryArrives, Receive, MarkAsRead, MarkAllAsRead,
       ClearNotifications, Set, TypeInv, HookTyped
  <2>3. /\ mounted' \in [Bells -> {"before", "mounted", "gone"}]
        /\ link' \in [Bells -> {"off", "connecting", "open", "closing", "waiting"}]
        /\ \A c \in Bells : mounted'[c] = "before" => link'[c] = "off"
    <3>1. CASE Unmount(b)
      <4>1. /\ mounted' = [mounted EXCEPT ![b] = "gone"]
            /\ \E l \in {"off", "connecting", "open", "closing", "waiting"} :
                   link' = [link EXCEPT ![b] = l]
        BY <3>1 DEF Unmount, Set, TypeInv, HookTyped
      <4> QED
        BY <4>1 DEF TypeInv, HookTyped
    <3>2. CASE ~Unmount(b)
      BY <3>2 DEF ChangesList, HistoryArrives, Receive, MarkAsRead, MarkAllAsRead,
         ClearNotifications, TypeInv, HookTyped
    <3> QED
      BY <3>1, <3>2
  <2> QED
    BY <1>1, <2>1, <2>2, <2>3, HookSetsList DEF Shows, TypeInv
<1> QED
  BY <1>2, <1>3, <1>4, <1>5 DEF TypeInv

LEMMA MarkRequestType ==
  ASSUME TypeInv, NEW m \in marks, MarkArrives(m) \/ MarkFails(m)
  PROVE  TypeInv'
<1>1. HubTyped' /\ HookTyped' /\ marks' \subseteq Ids \cup {All} /\ UNCHANGED due
  BY SameHub, SameBell DEF MarkArrives, MarkFails, TypeInv
<1>2. ServerTyped'
  <2>1. CASE MarkArrives(m)
    <3>1. /\ DOMAIN collection = 1..Len(collection) /\ Len(collection) \in Nat
          /\ \A i \in DOMAIN collection : collection[i] \in Entry
      BY LenProperties, ElementOfSeq DEF TypeInv, ServerTyped
    <3>2. /\ DOMAIN collection' = 1..Len(collection)
          /\ \A i \in 1..Len(collection) : collection'[i] \in Entry
          /\ collection' = [i \in 1..Len(collection) |-> collection'[i]]
      BY <2>1, <3>1 DEF MarkArrives, Entry
    <3>3. collection' \in Seq(Entry) /\ Len(collection') = Len(collection)
      BY <3>1, <3>2
    <3> QED
      BY <2>1, <3>3 DEF MarkArrives, TypeInv, ServerTyped, Stored
  <2>2. CASE MarkFails(m)
    BY <2>2, SameServer DEF MarkFails, TypeInv
  <2> QED
    BY <2>1, <2>2
<1> QED
  BY <1>1, <1>2 DEF TypeInv

LEMMA NextType == TypeInv /\ [Next]_vars => TypeInv'
<1> SUFFICES ASSUME TypeInv, [Next]_vars PROVE TypeInv'
  OBVIOUS
<1>1. CASE \E n \in Posts : Publishing(n)
  BY <1>1, PublishingType
<1>2. CASE SubscriptionLost \/ Resubscribe \/ HandleMessage
  BY <1>2, SubscriberType
<1>3. CASE \E b \in Bells : HubForwards(b) \/ Hook(b)
  BY <1>3, ForwardType, ConnectionType, ListType DEF Hook, ChangesList
<1>4. CASE \E m \in marks : MarkArrives(m) \/ MarkFails(m)
  BY <1>4, MarkRequestType
<1>5. CASE UNCHANGED vars
  <2>1. UNCHANGED server /\ UNCHANGED hub /\ UNCHANGED bell /\ UNCHANGED <<marks, due>>
    BY <1>5 DEF vars
  <2> QED
    BY <2>1, SameServer, SameHub, SameBell DEF TypeInv
<1> QED
  BY <1>1, <1>2, <1>3, <1>4, <1>5 DEF Next

LEMMA AlwaysTyped == Spec => []TypeInv
  BY InitType, NextType, PTL DEF Spec

(* Every reachable state of the bells, their sockets and the collection has *)
(* its type, whatever is lost or fails on the way.                          *)
THEOREM TypeCorrect == Spec => []TypeOK
  BY AlwaysTyped, TypeInvImplies, PTL

-----------------------------------------------------------------------------
(* The badge. *)

LEMMA InitBadge == Init => BadgeIsExact
  BY UnreadNone DEF Init, BadgeIsExact

LEMMA NextBadge == TypeInv /\ BadgeIsExact /\ [Next]_vars => BadgeIsExact'
<1> SUFFICES ASSUME TypeInv, BadgeIsExact, [Next]_vars PROVE BadgeIsExact'
  OBVIOUS
<1>1. CASE UNCHANGED <<list, unread>>
  BY <1>1 DEF BadgeIsExact, Unread
<1>2. ASSUME NEW b \in Bells, ChangesList(b) PROVE BadgeIsExact'
  <2>1. PICK items, n : Shows(b, items, n)
    BY <1>2, ListStep
  <2>2. Exact(b)
    BY DEF BadgeIsExact, Exact
  <2>3. list'[b] = items /\ unread'[b] = Unread(items)
    BY <2>1, <2>2 DEF Shows, Set, TypeInv, HookTyped
  <2>4. \A c \in Bells \ {b} : list'[c] = list[c] /\ unread'[c] = unread[c]
    BY <2>1 DEF Shows, Set, TypeInv, HookTyped
  <2>5. \A c \in Bells : unread'[c] = Unread(list'[c])
    BY <2>3, <2>4 DEF BadgeIsExact
  <2> QED
    BY <2>5 DEF BadgeIsExact, Unread
<1>3. UNCHANGED <<list, unread>> \/ \E b \in Bells : ChangesList(b)
  <2>1. CASE \E n \in Posts : Publishing(n)
    BY <2>1 DEF Publishing, Push, PushFails, Store, StoreFails, bell
  <2>2. CASE SubscriptionLost \/ Resubscribe \/ HandleMessage
    BY <2>2 DEF SubscriptionLost, Resubscribe, HandleMessage, bell
  <2>3. CASE \E b \in Bells : HubForwards(b) \/ Hook(b)
    BY <2>3 DEF HubForwards, Hook, ChangesList, Mount, AnswerHistory, HistoryFails, Open,
       Close, Reconnect, bell
  <2>4. CASE \E m \in marks : MarkArrives(m) \/ MarkFails(m)
    BY <2>4 DEF MarkArrives, MarkFails, bell
  <2>5. CASE UNCHANGED vars
    BY <2>5 DEF vars, bell
  <2> QED
    BY <2>1, <2>2, <2>3, <2>4, <2>5 DEF Next
<1> QED
  BY <1>1, <1>2, <1>3

(* The badge always counts the unread entries of the list, whatever order   *)
(* history, live messages and the user's clicks come in.                    *)
THEOREM BadgeAlwaysExact == Spec => []BadgeIsExact
  BY InitBadge, NextBadge, AlwaysTyped, PTL DEF Spec

-----------------------------------------------------------------------------
(* What an attentive bell is due. *)

\* On its way to the bell, or seen by it; a bell that has seen it shows it.
Waiting(n)    == \E i \in DOMAIN queue : queue[i] = n
InSocket(b, n) == \E i \in DOMAIN got[b] : i > taken[b] /\ got[b][i] = Note(n)
Carried(b, n) == Waiting(n) \/ InSocket(b, n) \/ LiveId(n) \in seen[b]

\* Only an attentive bell is due anything, and no socket is ahead of the hub.
LiveInv ==
    \A b \in Bells :
        /\ taken[b] <= Len(got[b])
        /\ due[b] \subseteq Posts \ Broadcasts
        /\ due[b] # {} => Attentive(b)
        /\ \A n \in due[b] : Carried(b, n)

LEMMA InitLive == Init => LiveInv
  BY EmptySeq DEF Init, Hub!Init, LiveInv

\* A step that publishes nothing adds nothing to what is due.
LEMMA DueShrinks ==
  ASSUME TypeInv, LiveInv, Expect, UNCHANGED published
  PROVE  \A b \in Bells : /\ due'[b] \subseteq due[b]
                          /\ due'[b] # {} => Attentive(b) /\ Attentive(b)'
<1>1. PushedNow = {}
  BY DEF PushedNow
<1> QED
  BY <1>1 DEF Expect

LEMMA SameAttentive ==
  UNCHANGED <<subscribed, mounted, history, link, status>>
      => \A b \in Bells : Attentive(b)' = Attentive(b)
  BY DEF Attentive

LEMMA SameCarried ==
  ASSUME UNCHANGED <<queue, got, taken, seen>>, NEW b \in Bells, NEW n
  PROVE  Carried(b, n)' = Carried(b, n)
  BY DEF Carried, Waiting, InSocket, Note, LiveId

\* What stands in a queue, or in what a bell was given, is still there after more
\* has been appended.
LEMMA GivenMore ==
  ASSUME NEW s \in Seq(Given), NEW note \in Given
  PROVE  /\ Len(Append(s, note)) = Len(s) + 1
         /\ Append(s, note)[Len(s) + 1] = note
         /\ \A i \in DOMAIN s : i \in DOMAIN Append(s, note) /\ Append(s, note)[i] = s[i]
  OBVIOUS

LEMMA PublishingLive ==
  ASSUME TypeInv, LiveInv, NEW n \in Posts, Publishing(n)
  PROVE  LiveInv'
<1>1. UNCHANGED <<subscribed, got, taken, seen, mounted, history, link, status>>
  BY DEF Publishing, Push, PushFails, Store, StoreFails, hub, bell
<1>2. \A b \in Bells : Attentive(b)' = Attentive(b)
  BY <1>1, SameAttentive
<1>3. CASE PushFails(n) \/ Store(n) \/ StoreFails(n)
  <2>1. UNCHANGED <<queue, due>>
    BY <1>3 DEF PushFails, Store, StoreFails
  <2> QED
    BY <1>1, <1>2, <2>1, SameCarried DEF LiveInv
<1>4. CASE Push(n)
  <2>1. PushedNow \subseteq {n} \ Broadcasts
    BY <1>4 DEF Push, PushedNow, TypeInv, ServerTyped
  <2>2. \A b \in Bells : due'[b] \subseteq due[b] \cup ({n} \ Broadcasts)
    BY <1>4, <2>1 DEF Push, Expect
  <2>3. \A b \in Bells : due'[b] # {} => Attentive(b)'
    BY <1>4 DEF Push, Expect
  <2>4. queue \in Seq(Posts) /\ (subscribed => queue' = Append(queue, n))
    BY <1>4 DEF Push, TypeInv, ServerTyped
  <2>5. subscribed => Waiting(n)' /\ \A m : Waiting(m) => Waiting(m)'
    <3> SUFFICES ASSUME subscribed PROVE Waiting(n)' /\ \A m : Waiting(m) => Waiting(m)'
      OBVIOUS
    <3>1. /\ Len(queue) + 1 \in DOMAIN queue' /\ queue'[Len(queue) + 1] = n
          /\ \A i \in DOMAIN queue : i \in DOMAIN queue' /\ queue'[i] = queue[i]
      BY <2>4
    <3> QED
      BY <3>1 DEF Waiting
  <2>6. ASSUME NEW b \in Bells, NEW m \in due'[b] PROVE Carried(b, m)'
    <3>1. subscribed /\ (m = n \/ m \in due[b])
      BY <1>1, <2>2, <2>3, <2>6 DEF Attentive
    <3>2. CASE m = n
      BY <2>5, <3>1, <3>2 DEF Carried
    <3>3. CASE m \in due[b]
      <4>1. Carried(b, m)
        BY <3>3 DEF LiveInv
      <4> QED
        BY <1>1, <2>5, <3>1, <4>1 DEF Carried, InSocket, Note, LiveId
    <3> QED
      BY <3>1, <3>2, <3>3
  <2> QED
    BY <1>1, <2>2, <2>3, <2>6 DEF LiveInv
<1> QED
  BY <1>3, <1>4 DEF Publishing

LEMMA SubscriberLive ==
  ASSUME TypeInv, LiveInv, SubscriptionLost \/ Resubscribe \/ HandleMessage
  PROVE  LiveInv'
<1>1. \A b \in Bells : due'[b] \subseteq due[b] /\ (due'[b] # {} => Attentive(b) /\ Attentive(b)')
  BY DueShrinks DEF SubscriptionLost, Resubscribe, HandleMessage
<1>2. UNCHANGED <<taken, seen>>
  BY DEF SubscriptionLost, Resubscribe, HandleMessage, bell
<1>3. CASE SubscriptionLost \/ Resubscribe
  <2>1. \A b \in Bells : due'[b] = {}
    BY <1>1, <1>3 DEF SubscriptionLost, Resubscribe, Attentive
  <2>2. UNCHANGED got
    BY <1>3 DEF SubscriptionLost, Resubscribe, hub
  <2> QED
    BY <1>2, <2>1, <2>2 DEF LiveInv
<1>4. CASE HandleMessage
  <2> DEFINE head == Head(queue)
  <2>1. /\ queue \in Seq(Posts) /\ queue # << >> /\ queue' = Tail(queue) /\ head \in Posts
        /\ \A i \in DOMAIN queue : queue[i] = head \/ \E j \in DOMAIN queue' : queue'[j] = queue[i]
    <3>1. queue \in Seq(Posts) /\ queue # << >> /\ queue' = Tail(queue)
      BY <1>4 DEF HandleMessage, TypeInv, ServerTyped
    <3>2. /\ DOMAIN queue = 1..Len(queue) /\ Len(queue) \in Nat /\ head = queue[1]
          /\ DOMAIN Tail(queue) = 1..(Len(queue) - 1)
          /\ \A j \in 1..(Len(queue) - 1) : Tail(queue)[j] = queue[j + 1]
      BY <3>1
    <3>3. \A i \in DOMAIN queue : i = 1 \/ (i - 1 \in 1..(Len(queue) - 1) /\ (i - 1) + 1 = i)
      BY <3>2
    <3> QED
      BY <3>1, <3>2, <3>3, HeadTailProperties
  <2>2. PICK dropped \in SUBSET Bells : Hub!Accept(Note(head), dropped)
    BY <1>4 DEF HandleMessage
  <2>3. Note(head) \in Given
    BY <2>1 DEF Given
  <2> HIDE DEF head
  <2>4. \A b \in Bells : got'[b] = got[b] \/ got'[b] = Append(got[b], Note(head))
    BY <2>2 DEF Hub!Accept
  <2>5. \A b \in Bells : /\ Len(got[b]) <= Len(got'[b])
                        /\ \A n : InSocket(b, n) => InSocket(b, n)'
    <3> SUFFICES ASSUME NEW b \in Bells
                 PROVE  /\ Len(got[b]) <= Len(got'[b])
                        /\ \A n : InSocket(b, n) => InSocket(b, n)'
      OBVIOUS
    <3>1. got[b] \in Seq(Given) /\ Len(got[b]) \in Nat
      BY LenProperties DEF TypeInv, HubTyped
    <3>2. /\ Len(got[b]) <= Len(got'[b])
          /\ \A i \in DOMAIN got[b] : i \in DOMAIN got'[b] /\ got'[b][i] = got[b][i]
      BY <2>3, <2>4, <3>1, GivenMore
    <3> QED
      BY <1>2, <3>2 DEF InSocket, Note, LiveId
  <2>6. ASSUME NEW b \in Bells, NEW n \in due'[b] PROVE Carried(b, n)'
    <3>1. /\ n \in due[b] /\ n \in Posts \ Broadcasts /\ Carried(b, n)
          /\ status[b] = "joined" /\ status'[b] = "joined"
      BY <1>1, <2>6 DEF LiveInv, Attentive
    <3>2. CASE n = head
      <4>1. Note(head).user = "me"
        BY <3>1, <3>2 DEF Note
      <4>2. b \in Bells \ dropped
        BY <2>2, <3>1 DEF Hub!Accept
      <4>3. got'[b] = Append(got[b], Note(head))
        BY <2>2, <3>1, <4>1, <4>2 DEF Hub!Accept, Hub!Joined
      <4>4. got[b] \in Seq(Given) /\ Len(got[b]) \in Nat /\ taken[b] \in Nat
            /\ taken[b] <= Len(got[b])
        BY LenProperties DEF TypeInv, HubTyped, HookTyped, LiveInv
      <4>5. /\ Len(got[b]) + 1 \in DOMAIN got'[b] /\ Len(got[b]) + 1 > taken'[b]
            /\ got'[b][Len(got[b]) + 1] = Note(head)
        BY <1>2, <2>3, <4>3, <4>4
      <4> QED
        BY <3>2, <4>5 DEF Carried, InSocket, Note, LiveId
    <3>3. CASE n # head
      <4>1. Waiting(n) => Waiting(n)'
        BY <2>1, <3>3 DEF Waiting
      <4> QED
        BY <1>2, <2>5, <3>1, <4>1 DEF Carried, LiveId
    <3> QED
      BY <3>2, <3>3
  <2>7. \A b \in Bells : taken'[b] <= Len(got'[b])
    <3>1. \A b \in Bells : taken[b] \in Nat /\ Len(got[b]) \in Nat /\ Len(got'[b]) \in Nat
      <4>1. TypeInv'
        BY SubscriberType
      <4> QED
        BY <4>1, LenProperties DEF TypeInv, HubTyped, HookTyped
    <3> QED
      BY <1>2, <2>5, <3>1 DEF LiveInv
  <2> QED
    BY <1>1, <2>6, <2>7 DEF LiveInv
<1> QED
  BY <1>3, <1>4

LEMMA ForwardLive ==
  ASSUME TypeInv, LiveInv, NEW b \in Bells, HubForwards(b)
  PROVE  LiveInv'
<1>1. UNCHANGED <<queue, taken, seen, due, subscribed, mounted, history, link, status>>
  BY DEF HubForwards, Hub!Forward, server, bell
<1>2. \A c \in Bells : Attentive(c)' = Attentive(c)
  BY <1>1, SameAttentive
<1>3. log[Len(log)] \in Given
  <2>1. log \in Seq(Given) /\ log # << >>
    BY DEF HubForwards, Hub!Forward, TypeInv, HubTyped
  <2> QED
    BY <2>1, EmptySeq, LenProperties, ElementOfSeq
<1>4. \A c \in Bells : got'[c] = got[c] \/ got'[c] = Append(got[c], log[Len(log)])
  BY DEF HubForwards, Hub!Forward, TypeInv, HubTyped
<1>5. ASSUME NEW c \in Bells
      PROVE  taken'[c] <= Len(got'[c]) /\ \A n : InSocket(c, n) => InSocket(c, n)'
  <2>1. got[c] \in Seq(Given) /\ Len(got[c]) \in Nat /\ taken[c] \in Nat
        /\ taken[c] <= Len(got[c])
    BY LenProperties DEF TypeInv, HubTyped, HookTyped, LiveInv
  <2>2. /\ Len(got'[c]) = Len(got[c]) \/ Len(got'[c]) = Len(got[c]) + 1
        /\ \A i \in DOMAIN got[c] : i \in DOMAIN got'[c] /\ got'[c][i] = got[c][i]
    BY <1>3, <1>4, <2>1, GivenMore
  <2> QED
    <3>1. taken'[c] <= Len(got'[c])
      BY <1>1, <2>1, <2>2
    <3>2. \A n : InSocket(c, n) => InSocket(c, n)'
      BY <1>1, <2>2 DEF InSocket, Note, LiveId
    <3> QED
      BY <3>1, <3>2
<1>6. \A c \in Bells : \A n : Carried(c, n) => Carried(c, n)'
  BY <1>1, <1>5 DEF Carried, Waiting, LiveId
<1> QED
  BY <1>1, <1>2, <1>5, <1>6 DEF LiveInv

\* Steps of a bell other than those of onmessage and of its buttons: a bell that
\* was attentive and still is has neither its socket nor its list changed.
LEMMA ConnectionLive ==
  ASSUME TypeInv, LiveInv, NEW b \in Bells,
         \/ Mount(b) \/ Unmount(b) \/ AnswerHistory(b) \/ HistoryArrives(b) \/ HistoryFails(b)
         \/ Open(b) \/ Close(b) \/ Reconnect(b)
  PROVE  LiveInv'
<1>1. Expect /\ UNCHANGED published /\ UNCHANGED queue
  BY DEF Mount, Unmount, AnswerHistory, HistoryArrives, HistoryFails, Open, Close, Reconnect, server
<1>2. \A c \in Bells : due'[c] \subseteq due[c] /\ (due'[c] # {} => Attentive(c) /\ Attentive(c)')
  BY <1>1, DueShrinks
<1>3. /\ b \in DOMAIN seen /\ b \in DOMAIN got /\ b \in DOMAIN taken
      /\ b \in DOMAIN link /\ b \in DOMAIN mounted /\ b \in DOMAIN history
  BY DEF TypeInv, HubTyped, HookTyped
<1>4. \A c \in Bells \ {b} : seen'[c] = seen[c] /\ got'[c] = got[c] /\ taken'[c] = taken[c]
  BY DEF Mount, Unmount, AnswerHistory, HistoryArrives, HistoryFails, Open, Close, Reconnect,
     Set, hub, Hub!Join, Hub!Leave, TypeInv, HubTyped, HookTyped
<1>5. CASE ~Open(b)
  <2>1. UNCHANGED <<got, taken>>
    BY <1>5 DEF Mount, Unmount, AnswerHistory, HistoryArrives, HistoryFails, Close, Reconnect,
       hub, Hub!Leave
  <2>2. seen'[b] = seen[b] \/ ~Attentive(b) \/ ~Attentive(b)'
    <3>1. CASE Unmount(b)
      BY <1>3, <3>1 DEF Unmount, Set, Attentive
    <3>2. CASE HistoryArrives(b)
      BY <3>2 DEF HistoryArrives, Attentive, Loaded
    <3>3. CASE ~Unmount(b) /\ ~HistoryArrives(b)
      BY <1>5, <3>3 DEF Mount, AnswerHistory, HistoryFails, Close, Reconnect
    <3> QED
      BY <3>1, <3>2, <3>3
  <2>3. ASSUME NEW c \in Bells, NEW n \in due'[c] PROVE Carried(c, n)'
    <3>1. n \in due[c] /\ Attentive(c) /\ Attentive(c)' /\ Carried(c, n)
      BY <1>2, <2>3 DEF LiveInv
    <3>2. seen'[c] = seen[c]
      BY <1>4, <2>2, <3>1
    <3> QED
      BY <1>1, <2>1, <3>1, <3>2 DEF Carried, Waiting, InSocket, Note, LiveId
  <2> QED
    <3>1. \A c \in Bells : taken'[c] <= Len(got'[c])
      BY <2>1 DEF LiveInv
    <3> QED
      BY <1>2, <2>3, <3>1 DEF LiveInv
<1>6. CASE Open(b)
  <2>1. due'[b] = {}
    BY <1>2, <1>6 DEF Open, Attentive
  <2>2. UNCHANGED seen
    BY <1>6 DEF Open
  <2>3. taken'[b] <= Len(got'[b])
    <3>1. got'[b] = << >> /\ taken'[b] = 0
      BY <1>3, <1>6 DEF Open, Set, Hub!Join
    <3> QED
      BY <3>1
  <2>4. ASSUME NEW c \in Bells, NEW n \in due'[c] PROVE Carried(c, n)'
    <3>1. c # b /\ n \in due[c] /\ Carried(c, n)
      BY <1>2, <2>1, <2>4 DEF LiveInv
    <3> QED
      BY <1>1, <1>4, <2>2, <3>1 DEF Carried, Waiting, InSocket, Note, LiveId
  <2>5. \A c \in Bells : taken'[c] <= Len(got'[c])
    BY <1>4, <2>3 DEF LiveInv
  <2> QED
    BY <1>2, <2>4, <2>5 DEF LiveInv
<1> QED
  BY <1>5, <1>6

\* onmessage puts what it takes from the socket on top, or has seen it.
LEMMA ReceiveLive ==
  ASSUME TypeInv, LiveInv, NEW b \in Bells, Receive(b)
  PROVE  LiveInv'
<1>1. /\ UNCHANGED <<queue, got, due, subscribed, mounted, history, link, status>>
      /\ taken[b] < Len(got[b]) /\ taken' = [taken EXCEPT ![b] = taken[b] + 1]
  BY DEF Receive, Set, server, hub
<1>2. \A c \in Bells : Attentive(c)' = Attentive(c)
  BY <1>1, SameAttentive
<1>3. /\ taken'[b] = taken[b] + 1 /\ taken[b] \in Nat /\ Len(got[b]) \in Nat
      /\ \A c \in Bells \ {b} : taken'[c] = taken[c]
  BY <1>1, LenProperties DEF TypeInv, HubTyped, HookTyped
<1>4. /\ \A c \in Bells : seen[c] \subseteq seen'[c]
      /\ mounted[b] = "mounted" => got[b][taken[b] + 1].id \in seen'[b]
  <2> DEFINE id == got[b][taken[b] + 1].id
  <2>1. IF mounted[b] = "mounted" /\ id \notin seen[b]
        THEN seen' = [seen EXCEPT ![b] = seen[b] \cup {id}]
        ELSE seen' = seen
    BY DEF Receive, Set
  <2>2. DOMAIN seen = Bells
    BY DEF TypeInv, HookTyped
  <2> QED
    BY <2>1, <2>2
<1>5. ASSUME NEW c \in Bells, NEW n \in due[c] PROVE Carried(c, n)'
  <2>1. Carried(c, n) /\ mounted[c] = "mounted" /\ n \in Posts
    BY <1>5 DEF LiveInv, Attentive
  <2>2. CASE InSocket(c, n) /\ c = b
    <3>1. PICK i \in DOMAIN got[b] : i > taken[b] /\ got[b][i] = Note(n)
      BY <2>2 DEF InSocket
    <3>2. i \in Nat
      BY LenProperties DEF TypeInv, HubTyped
    <3>3. CASE i = taken[b] + 1
      BY <1>4, <2>1, <2>2, <3>1, <3>3, NoteId DEF Carried, LiveId
    <3>4. CASE i # taken[b] + 1
      <4>1. i > taken'[b]
        BY <1>3, <3>1, <3>2, <3>4
      <4> QED
        BY <1>1, <2>2, <3>1, <4>1 DEF Carried, InSocket, Note, LiveId
    <3> QED
      BY <3>3, <3>4
  <2>3. CASE ~(InSocket(c, n) /\ c = b)
    BY <1>1, <1>3, <1>4, <2>1, <2>3 DEF Carried, Waiting, InSocket, Note, LiveId
  <2> QED
    BY <2>2, <2>3
<1>6. \A c \in Bells : taken'[c] <= Len(got'[c])
  BY <1>1, <1>3 DEF LiveInv
<1> QED
  BY <1>1, <1>2, <1>5, <1>6 DEF LiveInv

LEMMA ButtonsLive ==
  ASSUME TypeInv, LiveInv, NEW b \in Bells,
         MarkAsRead(b) \/ MarkAllAsRead(b) \/ ClearNotifications(b)
  PROVE  LiveInv'
<1>1. UNCHANGED <<queue, got, taken, subscribed, mounted, history, link, status>>
  BY DEF MarkAsRead, MarkAllAsRead, ClearNotifications, server, hub
<1>2. \A c \in Bells : Attentive(c)' = Attentive(c)
  BY <1>1, SameAttentive
<1>3. \A c \in Bells : due'[c] = {} \/ (due'[c] = due[c] /\ seen'[c] = seen[c])
  BY DEF MarkAsRead, MarkAllAsRead, ClearNotifications, Set, TypeInv, HookTyped
<1>4. ASSUME NEW c \in Bells, NEW n \in due'[c] PROVE Carried(c, n)'
  <2>1. n \in due[c] /\ seen'[c] = seen[c]
    BY <1>3, <1>4
  <2> QED
    BY <1>1, <2>1 DEF LiveInv, Carried, Waiting, InSocket, Note, LiveId
<1> QED
  BY <1>1, <1>2, <1>3, <1>4 DEF LiveInv

LEMMA NextLive == TypeInv /\ LiveInv /\ [Next]_vars => LiveInv'
<1> SUFFICES ASSUME TypeInv, LiveInv, [Next]_vars PROVE LiveInv'
  OBVIOUS
<1>1. CASE \E n \in Posts : Publishing(n)
  BY <1>1, PublishingLive
<1>2. CASE SubscriptionLost \/ Resubscribe \/ HandleMessage
  BY <1>2, SubscriberLive
<1>3. CASE \E b \in Bells : HubForwards(b) \/ Hook(b)
  BY <1>3, ForwardLive, ConnectionLive, ReceiveLive, ButtonsLive DEF Hook
<1>4. CASE (\E m \in marks : MarkArrives(m) \/ MarkFails(m)) \/ UNCHANGED vars
  <2>1. UNCHANGED <<queue, got, taken, seen, due, subscribed, mounted, history, link, status>>
    BY <1>4 DEF MarkArrives, MarkFails, server, hub, bell, vars
  <2>2. \A c \in Bells : Attentive(c)' = Attentive(c)
    BY <2>1, SameAttentive
  <2> QED
    BY <2>1, <2>2, SameCarried DEF LiveInv
<1> QED
  BY <1>1, <1>2, <1>3, <1>4 DEF Next

LEMMA LiveInvImplies == TypeInv /\ LiveInv => LiveIsShown
<1> SUFFICES ASSUME TypeInv, LiveInv, NEW b \in Bells, NEW n \in due[b]
             PROVE  \/ \E i \in DOMAIN queue : queue[i] = n
                    \/ \E i \in DOMAIN got[b] : i > taken[b] /\ got[b][i] = Note(n)
                    \/ LiveId(n) \in InList(b)
  BY DEF LiveIsShown
<1>1. Carried(b, n) /\ seen[b] = InList(b)
  BY DEF TypeInv, HookTyped, LiveInv
<1> QED
  BY <1>1 DEF Carried, Waiting, InSocket

(* What is published while a bell is attentive is in the list, in the       *)
(* socket or on its way to it, until something ends the attention.          *)
THEOREM LiveAlwaysShown == Spec => []LiveIsShown
  BY InitLive, NextLive, LiveInvImplies, AlwaysTyped, PTL DEF Spec

=============================================================================
