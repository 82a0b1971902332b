---------------------- MODULE OrderLogsConsumer_proofs ----------------------
(***************************************************************************)
(* Theorems about OrderLogsConsumer, for any number of replicas, logs and  *)
(* starts, any batch and read size, and any failures.                      *)
(***************************************************************************)
EXTENDS OrderLogsConsumer, TLAPS

USE DEF locals, history

LEMMA EmptyMade == << >> \in Seq(Doc) /\ Made(<< >>)
  BY DEF Made

LEMMA Records ==
    /\ Looping \in Reader /\ NotFlushing \in Flusher
    /\ Looping.from = 0 /\ Looping.last = 0 /\ Looping.at = "loop" /\ Looping.held = << >>
    /\ NotFlushing.docs = << >>
  BY LogsAssumption, EmptyMade DEF Looping, NotFlushing, Reader, Flusher

LEMMA TypeInit == Init => TypeOK
<1> SUFFICES ASSUME Init PROVE TypeOK
  OBVIOUS
<1>1. /\ added \in 0..MaxLogs /\ cursor \in 0..added
      /\ taken \subseteq Doc /\ store \subseteq taken
      /\ unsaved \subseteq 1..MaxLogs /\ unseen \subseteq 1..MaxLogs /\ dropped \subseteq 1..MaxLogs
  BY LogsAssumption DEF Init
<1>2. /\ life \in [Replicas -> Lives]
      /\ starts \in [Replicas -> 0..MaxStarts] /\ lastID \in [Replicas -> 0..MaxLogs]
      /\ saving \in [Replicas -> 0..MaxLogs]
  BY LogsAssumption DEF Init, Lives
<1>3. batch \in [Replicas -> Seq(Doc)] /\ reader \in [Replicas -> Reader]
      /\ flush \in [Replicas -> [Goroutines -> Flusher]]
  BY Records, EmptyMade DEF Init
<1>4. ASSUME NEW r \in Replicas PROVE InBounds(r)
  BY Records, EmptyMade DEF Init, InBounds
<1>5. QED  BY <1>1, <1>2, <1>3, <1>4 DEF TypeOK, Sorts

(* A step of one replica leaves the variables of the others alone. *)
OnlyOf(r) ==
    /\ added' = added /\ taken \subseteq taken'
    /\ \A s \in Replicas \ {r} :
           /\ life'[s] = life[s] /\ starts'[s] = starts[s] /\ lastID'[s] = lastID[s]
           /\ saving'[s] = saving[s]
           /\ batch'[s] = batch[s] /\ reader'[s] = reader[s] /\ flush'[s] = flush[s]

LEMMA OneReplicaTyped ==
    ASSUME TypeOK, NEW CONSTANT r \in Replicas, Sorts', InBounds(r)', OnlyOf(r)
    PROVE  TypeOK'
<1>1. ASSUME NEW CONSTANT s \in Replicas \ {r} PROVE InBounds(s)'
  <2>1. /\ life'[s] = life[s] /\ starts'[s] = starts[s] /\ lastID'[s] = lastID[s]
        /\ saving'[s] = saving[s]
        /\ batch'[s] = batch[s] /\ reader'[s] = reader[s] /\ flush'[s] = flush[s]
        /\ added' = added /\ taken \subseteq taken'
    BY DEF OnlyOf
  <2>2. InBounds(s)  BY DEF TypeOK
  <2>3. Made(batch[s])' /\ Made(reader[s].held)' /\ \A g \in Goroutines : Made(flush[s][g].docs)'
    BY <2>1, <2>2 DEF InBounds, Made
  <2>4. QED  BY <2>1, <2>2, <2>3 DEF InBounds
<1>2. QED  BY <1>1 DEF TypeOK

(* One replica's variables, read out of the type invariant. *)
LEMMA OneReplica ==
    ASSUME TypeOK, NEW CONSTANT r \in Replicas
    PROVE  /\ life[r] \in Lives
           /\ starts[r] \in 0..MaxStarts /\ lastID[r] \in 0..added /\ saving[r] \in 0..added
           /\ batch[r] \in Seq(Doc) /\ reader[r] \in Reader
           /\ flush[r] \in [Goroutines -> Flusher]
           /\ added \in 0..MaxLogs /\ MaxLogs \in Nat
           /\ added \in Nat /\ cursor \in 0..added /\ taken \subseteq Doc /\ store \subseteq taken
           /\ InBounds(r) /\ Sorts
           /\ reader[r].from \in Nat /\ reader[r].last \in Nat
           /\ unsaved \subseteq 1..MaxLogs /\ unseen \subseteq 1..MaxLogs
           /\ dropped \subseteq 1..MaxLogs
<1>1. lastID[r] \in 0..added /\ saving[r] \in 0..added
  BY LogsAssumption DEF TypeOK, Sorts, InBounds
<1>2. added \in Nat /\ added \in 0..MaxLogs /\ MaxLogs \in Nat
  BY LogsAssumption DEF TypeOK, Sorts
<1>3. reader[r] \in Reader
  BY DEF TypeOK, Sorts
<1>4. Sorts /\ InBounds(r)  BY DEF TypeOK
<1>5. life[r] \in Lives /\ starts[r] \in 0..MaxStarts
  BY DEF TypeOK, Sorts
<1>6. batch[r] \in Seq(Doc) /\ flush[r] \in [Goroutines -> Flusher]
  BY DEF TypeOK, Sorts
<1>7. /\ cursor \in 0..added /\ taken \subseteq Doc /\ store \subseteq taken
      /\ unsaved \subseteq 1..MaxLogs /\ unseen \subseteq 1..MaxLogs
      /\ dropped \subseteq 1..MaxLogs
  BY DEF TypeOK, Sorts
<1>8. reader[r].from \in Nat /\ reader[r].last \in Nat
  BY <1>2, <1>3 DEF Reader
<1>9. QED  BY <1>1, <1>2, <1>3, <1>4, <1>5, <1>6, <1>7, <1>8

-----------------------------------------------------------------------------
(* The start and the end of a replica. *)

LEMMA DownTyped ==
    ASSUME TypeOK, NEW CONSTANT r \in Replicas, Down(r),
           UNCHANGED <<added, cursor, store, starts, history>>
    PROVE  TypeOK'
<1> DEFINE none == [g \in Goroutines |-> NotFlushing]
<1>1. none \in [Goroutines -> Flusher] /\ \A g \in Goroutines : none[g].docs = << >>
  BY Records
<1>2. /\ life' = [life EXCEPT ![r] = "down"] /\ lastID' = [lastID EXCEPT ![r] = 0]
      /\ saving' = [saving EXCEPT ![r] = 0]
      /\ batch' = [batch EXCEPT ![r] = << >>] /\ reader' = [reader EXCEPT ![r] = Looping]
      /\ flush' = [flush EXCEPT ![r] = none]
  BY DEF Down
<1>3. 0 \in 0..MaxLogs /\ 0 <= added /\ Sorts
  BY OneReplica
<1> HIDE DEF none
<1>4. Sorts'  BY <1>1, <1>2, <1>3, Records, EmptyMade DEF Sorts, Lives
<1>5. /\ life'[r] = "down" /\ lastID'[r] = 0 /\ saving'[r] = 0 /\ batch'[r] = << >>
      /\ reader'[r] = Looping /\ flush'[r] = none /\ added' = added
  BY <1>2, <1>3 DEF Sorts
<1>6. InBounds(r)'
  BY <1>1, <1>3, <1>5, Records DEF InBounds, Made
<1>7. OnlyOf(r)
  BY <1>2, <1>3 DEF OnlyOf, Sorts
<1>8. QED  BY <1>4, <1>6, <1>7, OneReplicaTyped

LEMMA SaveTyped ==
    ASSUME TypeOK, NEW id \in 0..added, Save(id)
    PROVE  cursor' \in 0..added /\ unsaved' \subseteq 1..MaxLogs
<1>1. /\ cursor \in 0..added /\ added \in 0..MaxLogs /\ MaxLogs \in Nat
      /\ unsaved \subseteq 1..MaxLogs
  BY LogsAssumption DEF TypeOK, Sorts
<1>2. (id + 1)..cursor \subseteq 1..MaxLogs  BY <1>1
<1>3. QED  BY <1>1, <1>2 DEF Save

LEMMA LifeTyped ==
    ASSUME TypeOK, NEW CONSTANT r \in Replicas,
           Start(r) \/ Crash(r) \/ Stop(r) \/ ReadLastID(r) \/ SaveCursor(r) \/ Cancel(r)
    PROVE  TypeOK'
<1>0. Sorts /\ InBounds(r)  BY OneReplica
<1>1. CASE Start(r)
  <2>1. PICK id \in {cursor} \cup (IF "cursor" \in Failures THEN {0} ELSE {}) :
            lastID' = [lastID EXCEPT ![r] = id]
    BY <1>1 DEF Start
  <2>2. /\ id <= added /\ id \in 0..MaxLogs
        /\ starts[r] + 1 \in 0..MaxStarts /\ starts[r] + 1 >= 1
    BY <1>1, <2>1, OneReplica, LogsAssumption DEF Start
  <2>3. /\ life' = [life EXCEPT ![r] = "up"] /\ starts' = [starts EXCEPT ![r] = starts[r] + 1]
        /\ UNCHANGED <<added, cursor, store, saving, batch, reader, flush, history>>
    BY <1>1 DEF Start
  <2>4. Sorts'  BY <1>0, <2>1, <2>2, <2>3 DEF Sorts, Lives
  <2>5. InBounds(r)'  BY <1>0, <2>1, <2>2, <2>3 DEF Sorts, InBounds, Made
  <2>6. OnlyOf(r)  BY <1>0, <2>1, <2>3 DEF OnlyOf, Sorts
  <2>7. QED  BY <2>4, <2>5, <2>6, OneReplicaTyped
<1>2. CASE Crash(r) \/ Cancel(r)
  BY <1>2, DownTyped DEF Crash, Cancel
<1>3. CASE Stop(r)
  <2>1. Sorts'  BY <1>0, <1>3 DEF Stop, Sorts, Lives
  <2>2. InBounds(r)'  BY <1>0, <1>3 DEF Stop, Sorts, InBounds, Made
  <2>3. OnlyOf(r)  BY <1>0, <1>3 DEF Stop, OnlyOf, Sorts
  <2>4. QED  BY <2>1, <2>2, <2>3, OneReplicaTyped
<1>4. CASE SaveCursor(r)
  <2>1. cursor' \in 0..added /\ unsaved' \subseteq 1..MaxLogs
    BY <1>4, OneReplica, SaveTyped DEF SaveCursor, Sorts
  <2>2. Sorts'  BY <1>0, <1>4, <2>1 DEF SaveCursor, Sorts, Lives
  <2>3. InBounds(r)'  BY <1>0, <1>4 DEF SaveCursor, Sorts, InBounds, Made
  <2>4. OnlyOf(r)  BY <1>0, <1>4 DEF SaveCursor, OnlyOf, Sorts
  <2>5. QED  BY <2>2, <2>3, <2>4, OneReplicaTyped
<1>5. CASE ReadLastID(r)
  <2>1. saving' = [saving EXCEPT ![r] = lastID[r]] /\ UNCHANGED <<lastID, added>>
    BY <1>5 DEF ReadLastID
  <2>2. life' = [life EXCEPT ![r] = "set"] \/ life' = [life EXCEPT ![r] = "cancel"]
    BY <1>5 DEF ReadLastID
  <2>3. Sorts'  BY <1>0, <1>5, <2>1, <2>2 DEF ReadLastID, Sorts, Lives
  <2>4. saving'[r] <= added' /\ life[r] # "down"
    BY <1>0, <1>5, <2>1, OneReplica DEF ReadLastID, Sorts
  <2>5. InBounds(r)'  BY <1>0, <1>5, <2>4 DEF ReadLastID, Sorts, InBounds, Made
  <2>6. OnlyOf(r)  BY <1>0, <1>5 DEF ReadLastID, OnlyOf, Sorts
  <2>7. QED  BY <2>3, <2>5, <2>6, OneReplicaTyped
<1>6. QED  BY <1>1, <1>2, <1>3, <1>4, <1>5

-----------------------------------------------------------------------------
(* The reader. *)

LEMMA ReaderTyped ==
    ASSUME TypeOK, NEW CONSTANT r \in Replicas, NEW rd \in Reader,
           reader' = [reader EXCEPT ![r] = rd],
           rd.from <= rd.last, rd.last <= added, rd.at = "take" => rd.from < rd.last,
           rd.at \in {"save", "load", "store"} => rd.from >= 1, Made(rd.held),
           unseen' \subseteq 1..MaxLogs, UNCHANGED <<added, cursor, store, life, starts, lastID>>,
           UNCHANGED <<saving, batch, flush, taken, unsaved, dropped>>
    PROVE  TypeOK'
<1>0. Sorts /\ InBounds(r)  BY OneReplica
<1>1. Sorts'  BY <1>0 DEF Sorts
<1>2. reader'[r] = rd  BY <1>0 DEF Sorts
<1>3. InBounds(r)'  BY <1>0, <1>2 DEF InBounds, Made
<1>4. OnlyOf(r)  BY <1>0 DEF OnlyOf, Sorts
<1>5. QED  BY <1>1, <1>3, <1>4, OneReplicaTyped

LEMMA LeftOutTyped ==
    ASSUME NEW docs \in Seq(Doc), NEW copied PROVE LeftOut(docs, copied) \subseteq 1..MaxLogs
<1>1. \A i \in 1..Len(docs) : docs[i].log \in 1..MaxLogs
  <2>1. \A i \in 1..Len(docs) : docs[i] \in Doc  OBVIOUS
  <2>2. QED  BY <2>1 DEF Doc
<1>2. QED  BY <1>1 DEF LeftOut

LEMMA OnwardTyped ==
    ASSUME TypeOK, NEW CONSTANT r \in Replicas
    PROVE  LET rd == Onward(reader[r])
           IN  /\ rd \in Reader /\ rd.from <= rd.last /\ rd.last <= added
               /\ rd.at = "take" => rd.from < rd.last
               /\ rd.at \in {"take", "loop"} /\ rd.held = << >>
<1>1. reader[r] \in Reader /\ InBounds(r) /\ added \in Nat
  BY OneReplica
<1>2. CASE reader[r].from = reader[r].last
  BY <1>1, <1>2, Records DEF Onward
<1>3. CASE reader[r].from # reader[r].last
  <2>1. Onward(reader[r]) = [reader[r] EXCEPT !.at = "take", !.held = << >>]
    BY <1>3 DEF Onward
  <2>2. reader[r].from < reader[r].last
    BY <1>1, <1>3, OneReplica DEF InBounds
  <2>3. QED  BY <1>1, <2>1, <2>2, EmptyMade DEF Reader, InBounds
<1>4. QED  BY <1>2, <1>3

LEMMA ReadTyped ==
    ASSUME TypeOK, NEW CONSTANT r \in Replicas, Read(r) \/ XReadNothing(r)
    PROVE  TypeOK'
<1>0. Sorts /\ InBounds(r)  BY OneReplica
<1>1. CASE XRead(r)
  <2> DEFINE rd == [Looping EXCEPT !.at = "blocked", !.from = After(r), !.last = After(r)]
  <2>1. After(r) \in 0..added /\ After(r) \in 0..MaxLogs
    BY OneReplica DEF After
  <2>2. /\ rd \in Reader /\ rd.from = After(r) /\ rd.last = After(r) /\ rd.at = "blocked"
        /\ rd.held = << >>
    BY <2>1, Records DEF Reader
  <2>3. reader' = [reader EXCEPT ![r] = rd]
    BY <1>1 DEF XRead
  <2>4. UNCHANGED <<added, cursor, store, life, starts, lastID, saving, batch, flush,
                    taken, unsaved, dropped>>
    BY <1>1 DEF XRead
  <2>5. rd.from <= rd.last /\ rd.last <= added
    BY <2>1, <2>2, OneReplica
  <2>6. unseen' \subseteq 1..MaxLogs
    BY <1>1, OneReplica DEF XRead
  <2> HIDE DEF rd
  <2>7. QED  BY <2>2, <2>3, <2>4, <2>5, <2>6, EmptyMade, ReaderTyped
<1>2. CASE XReadNothing(r)
  <2>1. reader' = [reader EXCEPT ![r] = Looping]
    BY <1>2 DEF XReadNothing
  <2>2. UNCHANGED <<added, cursor, store, life, starts, lastID, saving, batch, flush, history>>
    BY <1>2 DEF XReadNothing
  <2>3. /\ Looping \in Reader /\ Looping.from <= Looping.last /\ Looping.last <= added
        /\ Looping.at = "loop" /\ Made(Looping.held)
    BY Records, EmptyMade, OneReplica
  <2>4. QED  BY <2>1, <2>2, <2>3, OneReplica, ReaderTyped
<1>3. CASE XReadReturn(r)
  <2>1. PICK last \in (reader[r].from + 1)..added :
            reader' = [reader EXCEPT ![r] = [reader[r] EXCEPT !.at = "take", !.last = last]]
    BY <1>3 DEF XReadReturn
  <2> DEFINE rd == [reader[r] EXCEPT !.at = "take", !.last = last]
  <2>2. last \in 0..MaxLogs /\ reader[r].from < last /\ last <= added /\ reader[r].from <= last
    BY <2>1, OneReplica
  <2>3. /\ rd \in Reader /\ rd.from = reader[r].from /\ rd.last = last
        /\ rd.at = "take" /\ rd.held = reader[r].held
    BY <2>2, OneReplica DEF Reader
  <2>4. UNCHANGED <<added, cursor, store, life, starts, lastID, saving, batch, flush, history>>
    BY <1>3 DEF XReadReturn
  <2>5. reader' = [reader EXCEPT ![r] = rd]  BY <2>1
  <2> HIDE DEF rd
  <2>6. Made(rd.held)  BY <1>0, <2>3 DEF InBounds
  <2>7. QED  BY <2>2, <2>3, <2>4, <2>5, <2>6, OneReplica, ReaderTyped
<1>4. CASE Take(r)
  <2> DEFINE id == reader[r].from + 1
             at == IF id \in Saving THEN "save" ELSE "load"
             rd == [reader[r] EXCEPT !.at = at, !.from = id]
  <2>1. reader[r].from < reader[r].last /\ reader[r].last <= added
    BY <1>0, <1>4 DEF Take, InBounds
  <2>2. id \in 0..added /\ id \in 1..MaxLogs /\ id <= reader[r].last
    BY <2>1, OneReplica
  <2>3. at \in {"save", "load"}  OBVIOUS
  <2>4. /\ reader' = [reader EXCEPT ![r] = rd] /\ lastID' = [lastID EXCEPT ![r] = id]
        /\ unsaved' = IF id \in Saving THEN unsaved ELSE unsaved \cup {id}
        /\ UNCHANGED <<added, cursor, store, life, starts, saving, batch, flush,
                       taken, unseen, dropped>>
    BY <1>4 DEF Take, Unsaved
  <2> HIDE DEF id, at
  <2>5. /\ rd \in Reader /\ rd.from = id /\ rd.last = reader[r].last /\ rd.at = at
        /\ rd.held = reader[r].held
    <3>1. reader[r] \in Reader /\ id \in 0..MaxLogs  BY <2>2, OneReplica
    <3>2. QED  BY <2>3, <3>1 DEF Reader
  <2>6. unsaved' \subseteq 1..MaxLogs  BY <1>0, <2>2, <2>4 DEF Sorts
  <2> HIDE DEF rd
  <2>7. Sorts'  BY <1>0, <2>2, <2>4, <2>5, <2>6 DEF Sorts
  <2>8. reader'[r] = rd /\ lastID'[r] = id  BY <1>0, <2>4 DEF Sorts
  <2>9. id <= added /\ id >= 1  BY <2>2, OneReplica
  <2>10. InBounds(r)'  BY <1>0, <2>1, <2>2, <2>3, <2>4, <2>5, <2>8, <2>9 DEF InBounds, Made
  <2>11. OnlyOf(r)  BY <1>0, <2>4 DEF OnlyOf, Sorts
  <2>12. QED  BY <2>7, <2>10, <2>11, OneReplicaTyped
<1>5. CASE LoadBatch(r)
  <2> DEFINE rd == [reader[r] EXCEPT !.at = "store", !.held = batch[r]]
  <2>1. /\ rd \in Reader /\ rd.from = reader[r].from /\ rd.last = reader[r].last
        /\ rd.at = "store" /\ rd.held = batch[r]
    BY OneReplica DEF Reader
  <2>2. /\ reader' = [reader EXCEPT ![r] = rd] /\ reader[r].at = "load"
        /\ UNCHANGED <<added, cursor, store, life, starts, lastID, saving, batch, flush, history>>
    BY <1>5 DEF LoadBatch
  <2> HIDE DEF rd
  <2>3. /\ rd.from <= rd.last /\ rd.last <= added /\ rd.from >= 1 /\ Made(rd.held)
    BY <1>0, <2>1, <2>2 DEF InBounds
  <2>4. QED  BY <2>1, <2>2, <2>3, OneReplica, ReaderTyped
<1>6. CASE StoreBatch(r)
  <2> DEFINE doc == [log |-> reader[r].from, by |-> r, start |-> starts[r]]
             b == Append(reader[r].held, doc)
             full == [reader[r] EXCEPT !.at = "flush", !.held = << >>]
             rd == IF Len(batch'[r]) >= BatchSize THEN full ELSE Onward(reader[r])
  <2>1. reader[r].from \in 1..MaxLogs /\ starts[r] \in 1..MaxStarts
    BY <1>0, <1>6, OneReplica, LogsAssumption DEF StoreBatch, InBounds, Running
  <2>2. doc \in Doc
    BY <2>1 DEF Doc
  <2>3. reader[r].held \in Seq(Doc)
    BY OneReplica DEF Reader
  <2>4. /\ batch' = [batch EXCEPT ![r] = b] /\ taken' = taken \cup {doc}
        /\ reader' = [reader EXCEPT ![r] = rd]
        /\ UNCHANGED <<added, cursor, store, life, starts, lastID, saving, flush, unsaved, unseen>>
    BY <1>6 DEF StoreBatch
  <2>5. /\ full \in Reader /\ full.from = reader[r].from /\ full.last = reader[r].last
        /\ full.at = "flush" /\ full.held = << >>
    BY OneReplica, EmptyMade DEF Reader
  <2>6. /\ rd \in Reader /\ rd.from <= rd.last /\ rd.last <= added /\ rd.held = << >>
        /\ rd.at = "take" => rd.from < rd.last
        /\ rd.at \notin {"save", "load", "store"}
    <3>1. CASE Len(batch'[r]) >= BatchSize
      <4>1. rd = full  BY <3>1
      <4>2. QED  BY <1>0, <2>5, <4>1 DEF InBounds
    <3>2. CASE ~(Len(batch'[r]) >= BatchSize)
      <4>1. rd = Onward(reader[r])  BY <3>2
      <4>2. QED  BY <4>1, OnwardTyped
    <3>3. QED  BY <3>1, <3>2
  <2> HIDE DEF doc, full, rd
  <2>7. b \in Seq(Doc) /\ \A i \in 1..Len(b) : b[i] \in taken'
    <3>1. \A i \in 1..Len(reader[r].held) : reader[r].held[i] \in taken
      BY <1>0 DEF InBounds, Made
    <3>2. QED  BY <2>2, <2>3, <2>4, <3>1
  <2> HIDE DEF b
  <2>8. Sorts'
    <3>1. taken' \subseteq Doc /\ store' \subseteq taken'  BY <1>0, <2>2, <2>4 DEF Sorts
    <3>2. batch' \in [Replicas -> Seq(Doc)] /\ reader' \in [Replicas -> Reader]
      BY <1>0, <2>4, <2>6, <2>7 DEF Sorts
    <3>3. dropped' \subseteq 1..MaxLogs
      <4>1. LeftOut(batch[r], reader[r].held) \subseteq 1..MaxLogs
        BY LeftOutTyped, OneReplica
      <4>2. QED  BY <1>0, <1>6, <4>1 DEF StoreBatch, Sorts
    <3>4. QED  BY <1>0, <2>4, <3>1, <3>2, <3>3 DEF Sorts
  <2>9. reader'[r] = rd /\ batch'[r] = b  BY <1>0, <2>4 DEF Sorts
  <2>10. InBounds(r)'
    <3>1. \A g \in Goroutines : Made(flush[r][g].docs)'
      BY <1>0, <2>4 DEF InBounds, Made
    <3>2. Made(batch[r])' /\ Made(reader[r].held)'
      BY <2>6, <2>7, <2>9 DEF Made
    <3>3. QED  BY <1>0, <2>4, <2>6, <2>9, <3>1, <3>2 DEF InBounds
  <2>11. OnlyOf(r)  BY <1>0, <2>4 DEF OnlyOf, Sorts
  <2>12. QED  BY <2>8, <2>10, <2>11, OneReplicaTyped
<1>7. CASE SaveTaken(r)
  <2> DEFINE rd == [reader[r] EXCEPT !.at = "load"]
  <2>1. /\ rd \in Reader /\ rd.from = reader[r].from /\ rd.last = reader[r].last
        /\ rd.at = "load" /\ rd.held = reader[r].held
    BY OneReplica DEF Reader
  <2>2. /\ reader' = [reader EXCEPT ![r] = rd] /\ reader[r].at = "save"
        /\ UNCHANGED <<added, store, life, starts, lastID, saving, batch, flush,
                       taken, unseen, dropped>>
    BY <1>0, <1>7 DEF SaveTaken, Sorts
  <2> HIDE DEF rd
  <2>3. cursor' \in 0..added /\ unsaved' \subseteq 1..MaxLogs
    <3>1. CASE Save(lastID[r])  BY <3>1, OneReplica, SaveTyped
    <3>2. CASE ~Save(lastID[r])
      <4>1. cursor' = cursor /\ unsaved' = unsaved \cup {reader[r].from}
        BY <1>7, <3>2 DEF SaveTaken
      <4>2. reader[r].from \in 1..MaxLogs
        BY <1>0, <2>2, OneReplica DEF InBounds
      <4>3. QED  BY <1>0, <4>1, <4>2 DEF Sorts
    <3>3. QED  BY <3>1, <3>2
  <2>4. Sorts'  BY <1>0, <2>1, <2>2, <2>3 DEF Sorts
  <2>5. reader'[r] = rd  BY <1>0, <2>2 DEF Sorts
  <2>6. InBounds(r)'  BY <1>0, <2>1, <2>2, <2>5 DEF InBounds, Made
  <2>7. OnlyOf(r)  BY <1>0, <2>2 DEF OnlyOf, Sorts
  <2>8. QED  BY <2>4, <2>6, <2>7, OneReplicaTyped
<1>8. QED  BY <1>1, <1>2, <1>3, <1>4, <1>5, <1>6, <1>7 DEF Read

-----------------------------------------------------------------------------
(* flushBatch. *)

LEMMA FlusherTyped ==
    ASSUME TypeOK, NEW CONSTANT r \in Replicas, NEW CONSTANT g \in Goroutines, NEW f \in Flusher,
           Made(f.docs), flush' = [flush EXCEPT ![r] = [flush[r] EXCEPT ![g] = f]],
           taken \subseteq taken'
    PROVE  /\ flush' \in [Replicas -> [Goroutines -> Flusher]]
           /\ \A h \in Goroutines : Made(flush[r][h].docs)'
           /\ \A s \in Replicas \ {r} : flush'[s] = flush[s]
<1>0. Sorts /\ InBounds(r)  BY OneReplica
<1>1. flush[r] \in [Goroutines -> Flusher]  BY OneReplica
<1>2. flush'[r] = [flush[r] EXCEPT ![g] = f]  BY <1>0 DEF Sorts
<1>3. ASSUME NEW CONSTANT h \in Goroutines PROVE Made(flush[r][h].docs)'
  <2>1. CASE h = g  BY <1>1, <1>2, <2>1 DEF Made
  <2>2. CASE h # g  BY <1>0, <1>1, <1>2, <2>2 DEF Made, InBounds
  <2>3. QED  BY <2>1, <2>2
<1>4. QED  BY <1>0, <1>1, <1>3 DEF Sorts

(* Returning from flushBatch, with the batch kept or made anew and documents *)
(* that had been made added to the collection.                               *)
LEMMA ReturnTyped ==
    ASSUME TypeOK, NEW CONSTANT r \in Replicas, NEW CONSTANT g \in Goroutines, Return(r, g),
           batch' = batch \/ batch' = [batch EXCEPT ![r] = << >>],
           store' \subseteq taken, life[r] # "down", dropped' \subseteq 1..MaxLogs,
           UNCHANGED <<added, cursor, starts, lastID, saving, taken, unsaved, unseen>>
    PROVE  TypeOK'
<1>0. Sorts /\ InBounds(r)  BY OneReplica
<1>1. flush' = [flush EXCEPT ![r] = [flush[r] EXCEPT ![g] = NotFlushing]]
  BY DEF Return
<1>2. /\ flush' \in [Replicas -> [Goroutines -> Flusher]]
      /\ \A h \in Goroutines : Made(flush[r][h].docs)'
      /\ \A s \in Replicas \ {r} : flush'[s] = flush[s]
  BY <1>1, Records, EmptyMade, FlusherTyped
<1>3. reader' = reader \/ reader' = [reader EXCEPT ![r] = Onward(reader[r])]
  BY DEF Return
<1>4. life' = life \/ life' = [life EXCEPT ![r] = "save"]
  BY DEF Return
<1>5. /\ reader' \in [Replicas -> Reader] /\ reader'[r].from <= reader'[r].last
      /\ reader'[r].last <= added
      /\ reader'[r].at = "take" => reader'[r].from < reader'[r].last
      /\ reader'[r].at \in {"save", "load", "store"} => reader'[r].from >= 1
      /\ Made(reader[r].held)'
      /\ \A s \in Replicas \ {r} : reader'[s] = reader[s]
  <2>1. CASE reader' = reader
    BY <1>0, <2>1 DEF Sorts, InBounds, Made
  <2>2. CASE reader' = [reader EXCEPT ![r] = Onward(reader[r])]
    <3> DEFINE rd == Onward(reader[r])
    <3>1. /\ rd \in Reader /\ rd.from <= rd.last /\ rd.last <= added
          /\ rd.at = "take" => rd.from < rd.last
          /\ rd.at \in {"take", "loop"} /\ rd.held = << >>
      BY OnwardTyped
    <3> HIDE DEF rd
    <3>2. reader' = [reader EXCEPT ![r] = rd]  BY <2>2 DEF rd
    <3>3. reader'[r] = rd  BY <1>0, <3>2 DEF Sorts
    <3>4. Made(reader[r].held)'  BY <3>1, <3>3 DEF Made
    <3>5. /\ reader' \in [Replicas -> Reader]
          /\ \A s \in Replicas \ {r} : reader'[s] = reader[s]
      BY <1>0, <3>1, <3>2 DEF Sorts
    <3>6. QED  BY <3>1, <3>3, <3>4, <3>5
  <2>3. QED  BY <1>3, <2>1, <2>2
<1>6. /\ batch' \in [Replicas -> Seq(Doc)] /\ Made(batch[r])'
      /\ \A s \in Replicas \ {r} : batch'[s] = batch[s]
  <2>1. CASE batch' = batch
    BY <1>0, <2>1 DEF Sorts, InBounds, Made
  <2>2. CASE batch' = [batch EXCEPT ![r] = << >>]
    <3>1. batch'[r] = << >>  BY <1>0, <2>2 DEF Sorts
    <3>2. Made(batch[r])'  BY <3>1 DEF Made
    <3>3. QED  BY <1>0, <2>2, <3>2, EmptyMade DEF Sorts
  <2>3. QED  BY <2>1, <2>2
<1>7. /\ life' \in [Replicas -> Lives]
      /\ \A s \in Replicas \ {r} : life'[s] = life[s]
  BY <1>0, <1>4 DEF Sorts, Lives
<1>8. Sorts'  BY <1>0, <1>2, <1>5, <1>6, <1>7 DEF Sorts
<1>9. InBounds(r)'
  <2>1. starts'[r] >= 1 /\ lastID'[r] <= added' /\ saving'[r] <= added'
    BY <1>0 DEF InBounds
  <2>2. /\ reader'[r].from <= reader'[r].last /\ reader'[r].last <= added'
        /\ reader'[r].at = "take" => reader'[r].from < reader'[r].last
        /\ reader'[r].at \in {"save", "load", "store"} => reader'[r].from >= 1
    BY <1>5
  <2>3. QED  BY <1>2, <1>5, <1>6, <2>1, <2>2 DEF InBounds
<1>10. OnlyOf(r)  BY <1>2, <1>5, <1>6, <1>7 DEF OnlyOf
<1>11. QED  BY <1>8, <1>9, <1>10, OneReplicaTyped

(* A goroutine in the middle of a flush belongs to a running replica. *)
FlushRuns == \A r \in Replicas : \A g \in Goroutines : flush[r][g].at # "idle" => Running(r)

LEMMA FlushTyped ==
    ASSUME TypeOK, FlushRuns, NEW CONSTANT r \in Replicas, NEW CONSTANT g \in Goroutines,
           Flush(r, g)
    PROVE  TypeOK'
<1>0. Sorts /\ InBounds(r) /\ flush[r][g] \in Flusher /\ batch[r] \in Seq(Doc)
  BY OneReplica
<1>1. ASSUME NEW f \in Flusher, Made(f.docs), store' \subseteq taken,
             flush' = [flush EXCEPT ![r] = [flush[r] EXCEPT ![g] = f]],
             UNCHANGED <<added, cursor, life, starts, lastID, saving, batch, reader, history>>
      PROVE  TypeOK'
  <2>1. /\ flush' \in [Replicas -> [Goroutines -> Flusher]]
        /\ \A h \in Goroutines : Made(flush[r][h].docs)'
        /\ \A s \in Replicas \ {r} : flush'[s] = flush[s]
    BY <1>1, FlusherTyped
  <2>2. Sorts'  BY <1>0, <1>1, <2>1 DEF Sorts
  <2>3. InBounds(r)'  BY <1>0, <1>1, <2>1 DEF InBounds, Made
  <2>4. OnlyOf(r)  BY <1>1, <2>1 DEF OnlyOf
  <2>5. QED  BY <2>2, <2>3, <2>4, OneReplicaTyped
<1>2. Made(flush[r][g].docs) /\ flush[r][g].docs \in Seq(Doc) /\ Made(batch[r]) /\ store \subseteq taken
  BY <1>0 DEF InBounds, Flusher, Sorts
<1>3. \A j \in Fresh(flush[r][g].docs) \cup {0} :
          store \cup FirstDocs(flush[r][g].docs, j) \subseteq taken
  BY <1>2 DEF Fresh, FirstDocs, Made
<1>4. flush[r][g].at # "idle" => life[r] # "down"
  BY DEF FlushRuns, Running
<1>5. CASE FlushEmpty(r, g)
  <2>1. life[r] # "down"  BY <1>5 DEF FlushEmpty, CallsFlush, Running, Goroutines
  <2>2. QED  BY <1>2, <1>5, <2>1, OneReplica, ReturnTyped DEF FlushEmpty
<1>6. CASE FlushBegin(r, g)
  <2> DEFINE f == [flush[r][g] EXCEPT !.at = "copy", !.n = Len(batch[r])]
  <2>0. Len(batch[r]) \in Nat  BY <1>0
  <2>1. f \in Flusher /\ f.docs = flush[r][g].docs
    BY <1>0, <2>0 DEF Flusher
  <2>2. flush' = [flush EXCEPT ![r] = [flush[r] EXCEPT ![g] = f]]
    BY <1>6 DEF FlushBegin
  <2>3. UNCHANGED <<added, cursor, store, life, starts, lastID, saving, batch, reader, history>>
    BY <1>6 DEF FlushBegin
  <2> HIDE DEF f
  <2>4. QED  BY <1>1, <1>2, <2>1, <2>2, <2>3
<1>7. CASE FlushCopy(r, g)
  <2> DEFINE f == [flush[r][g] EXCEPT !.at = "insert", !.docs = batch[r]]
  <2>1. f \in Flusher /\ f.docs = batch[r]
    BY <1>0 DEF Flusher
  <2>2. flush' = [flush EXCEPT ![r] = [flush[r] EXCEPT ![g] = f]]
    BY <1>7 DEF FlushCopy
  <2>3. UNCHANGED <<added, cursor, store, life, starts, lastID, saving, batch, reader, history>>
    BY <1>7 DEF FlushCopy
  <2> HIDE DEF f
  <2>4. QED  BY <1>1, <1>2, <2>1, <2>2, <2>3
<1>8. CASE FlushPanic(r, g)
  BY <1>8, DownTyped DEF FlushPanic
<1>9. CASE InsertSucceeds(r, g)
  <2> DEFINE f == [flush[r][g] EXCEPT !.at = "clear"]
  <2>1. f \in Flusher /\ f.docs = flush[r][g].docs
    BY <1>0 DEF Flusher
  <2>2. flush' = [flush EXCEPT ![r] = [flush[r] EXCEPT ![g] = f]]
    BY <1>0, <1>9 DEF InsertSucceeds
  <2>3. UNCHANGED <<added, cursor, life, starts, lastID, saving, batch, reader, history>>
    BY <1>9 DEF InsertSucceeds
  <2>4. store' \subseteq taken
    BY <1>3, <1>9 DEF InsertSucceeds
  <2> HIDE DEF f
  <2>5. QED  BY <1>1, <1>2, <2>1, <2>2, <2>3, <2>4
<1>10. CASE InsertFails(r, g)
  <2>1. PICK j \in InsertedOnError(flush[r][g]) :
            store' = store \cup FirstDocs(flush[r][g].docs, j)
    BY <1>10 DEF InsertFails
  <2>2. j \in Fresh(flush[r][g].docs) \cup {0}
    BY <2>1 DEF InsertedOnError
  <2>3. store' \subseteq taken  BY <1>3, <2>1, <2>2
  <2>4. QED  BY <1>4, <1>10, <2>3, OneReplica, ReturnTyped DEF InsertFails
<1>11. CASE FlushClear(r, g)
  <2>1. LeftOut(batch[r], flush[r][g].docs) \subseteq 1..MaxLogs
    BY <1>0, LeftOutTyped
  <2>2. dropped' \subseteq 1..MaxLogs
    BY <1>11, <2>1, OneReplica DEF FlushClear
  <2>3. QED  BY <1>2, <1>4, <1>11, <2>2, ReturnTyped DEF FlushClear
<1>12. QED  BY <1>5, <1>6, <1>7, <1>8, <1>9, <1>10, <1>11 DEF Flush

-----------------------------------------------------------------------------
(* Types, along every behaviour. *)

LEMMA FlushRunsStep == TypeOK /\ FlushRuns /\ [Next]_vars => FlushRuns'
<1> SUFFICES ASSUME TypeOK, FlushRuns, [Next]_vars,
                    NEW CONSTANT s \in Replicas, NEW CONSTANT h \in Goroutines
             PROVE  flush'[s][h].at # "idle" => life'[s] # "down"
  BY DEF FlushRuns, Running
<1>0. /\ flush[s][h].at # "idle" => life[s] # "down"
      /\ life \in [Replicas -> Lives]
      /\ flush \in [Replicas -> [Goroutines -> Flusher]]
      /\ NotFlushing.at = "idle"
  BY DEF FlushRuns, Running, TypeOK, Sorts, NotFlushing
<1>1. ASSUME UNCHANGED <<life, flush>> PROVE flush'[s][h].at # "idle" => life'[s] # "down"
  BY <1>0, <1>1
<1>2. ASSUME NEW r \in Replicas, Down(r) PROVE flush'[s][h].at # "idle" => life'[s] # "down"
  BY <1>0, <1>2 DEF Down
<1>3. ASSUME NEW r \in Replicas, Start(r) \/ Stop(r) \/ ReadLastID(r) \/ SaveCursor(r)
      PROVE flush'[s][h].at # "idle" => life'[s] # "down"
  BY <1>0, <1>3 DEF Start, Stop, ReadLastID, SaveCursor
<1>4. ASSUME NEW r \in Replicas, NEW g \in Goroutines, Return(r, g)
      PROVE flush'[s][h].at # "idle" => life'[s] # "down"
  <2>1. life'[s] = life[s] \/ life'[s] = "save"  BY <1>0, <1>4 DEF Return
  <2>2. flush'[s][h] = flush[s][h] \/ flush'[s][h] = NotFlushing  BY <1>0, <1>4 DEF Return
  <2>3. QED  BY <1>0, <2>1, <2>2
<1>5. ASSUME NEW r \in Replicas, NEW g \in Goroutines,
             FlushBegin(r, g) \/ FlushCopy(r, g) \/ InsertSucceeds(r, g)
      PROVE flush'[s][h].at # "idle" => life'[s] # "down"
  <2>1. life[r] # "down"
    <3>1. CASE FlushBegin(r, g)
      BY <3>1 DEF FlushBegin, CallsFlush, Running, Goroutines
    <3>2. CASE FlushCopy(r, g) \/ InsertSucceeds(r, g)
      BY <3>2 DEF FlushCopy, InsertSucceeds, FlushRuns, Running
    <3>3. QED  BY <1>5, <3>1, <3>2
  <2>2. life' = life /\ (s = r \/ flush'[s] = flush[s])
    BY <1>0, <1>5 DEF FlushBegin, FlushCopy, InsertSucceeds
  <2>3. QED  BY <1>0, <2>1, <2>2
<1>6. CASE AddLog \/ Rest \/ UNCHANGED vars
  BY <1>1, <1>6 DEF AddLog, Rest, vars
<1>7. ASSUME NEW r \in Replicas, Read(r) \/ XReadNothing(r)
      PROVE flush'[s][h].at # "idle" => life'[s] # "down"
  <2>1. UNCHANGED <<life, flush>>
    BY <1>7 DEF Read, XReadNothing, XRead, XReadReturn, Take, SaveTaken, LoadBatch, StoreBatch
  <2>2. QED  BY <1>1, <2>1
<1>8. ASSUME NEW r \in Replicas, Crash(r) \/ Cancel(r)
      PROVE flush'[s][h].at # "idle" => life'[s] # "down"
  BY <1>2, <1>8 DEF Crash, Cancel
<1>9. ASSUME NEW r \in Replicas, NEW g \in Goroutines, Flush(r, g)
      PROVE flush'[s][h].at # "idle" => life'[s] # "down"
  <2>1. CASE FlushEmpty(r, g) \/ InsertFails(r, g) \/ FlushClear(r, g)
    BY <1>4, <2>1 DEF FlushEmpty, InsertFails, FlushClear
  <2>2. CASE FlushPanic(r, g)
    BY <1>2, <2>2 DEF FlushPanic
  <2>3. QED  BY <1>5, <1>9, <2>1, <2>2 DEF Flush
<1>10. QED  BY <1>3, <1>6, <1>7, <1>8, <1>9 DEF Next

LEMMA TypeStep == TypeOK /\ FlushRuns /\ [Next]_vars => TypeOK'
<1> SUFFICES ASSUME TypeOK, FlushRuns, [Next]_vars PROVE TypeOK'
  OBVIOUS
<1>1. CASE AddLog
  <2>1. added' = added + 1 /\ added' \in 0..MaxLogs /\ added \in Nat
    BY <1>1, LogsAssumption DEF AddLog, TypeOK, Sorts
  <2>2. UNCHANGED <<cursor, store, life, starts, lastID, saving, batch, reader, flush, history>>
    BY <1>1 DEF AddLog
  <2>3. Sorts'
    <3>1. cursor' \in 0..added'  BY <2>1, <2>2 DEF TypeOK, Sorts
    <3>2. QED  BY <2>1, <2>2, <3>1 DEF TypeOK, Sorts
  <2>4. ASSUME NEW CONSTANT r \in Replicas PROVE InBounds(r)'
    <3>1. InBounds(r) /\ lastID[r] \in 0..MaxLogs /\ saving[r] \in Nat /\ reader[r].last \in Nat
      BY OneReplica DEF Sorts
    <3>2. lastID'[r] <= added' /\ saving'[r] <= added' /\ reader'[r].last <= added'
      BY <2>1, <2>2, <3>1, LogsAssumption DEF InBounds
    <3>3. QED  BY <2>2, <3>1, <3>2 DEF InBounds, Made
  <2>5. QED  BY <2>3, <2>4 DEF TypeOK
<1>2. ASSUME NEW CONSTANT r \in Replicas,
             \/ Start(r) \/ Crash(r) \/ Stop(r) \/ ReadLastID(r) \/ SaveCursor(r) \/ Cancel(r)
             \/ Read(r) \/ XReadNothing(r)
             \/ \E g \in Goroutines : Flush(r, g)
      PROVE  TypeOK'
  BY <1>2, LifeTyped, ReadTyped, FlushTyped
<1>3. CASE Rest \/ UNCHANGED vars
  BY <1>3 DEF Rest, vars, TypeOK, Sorts, InBounds, Made
<1>4. QED  BY <1>1, <1>2, <1>3 DEF Next

(* Every id a replica or the cursor holds is one the stream has given, and    *)
(* every document was made from an entry.                                    *)
THEOREM TypeCorrect == Spec => []TypeOK
<1>1. Init => FlushRuns
  BY DEF Init, FlushRuns, NotFlushing
<1>2. QED  BY TypeInit, TypeStep, FlushRunsStep, <1>1, PTL DEF Spec

-----------------------------------------------------------------------------
(* A single replica, whatever ids are saved and whatever fails. *)

One == \A r, s \in Replicas : r = s

IsTaken(id) == \E d \in taken : d.log = id

(* Where the reader stands.  With an id in lastID it is at that entry or on   *)
(* its way from it; without one it has read nothing yet.                     *)
Stands(r) ==
    /\ life[r] = "down" => reader[r].at = "loop" /\ lastID[r] = 0
    /\ flush[r]["reader"].at # "idle" => reader[r].at = "flush"
    /\ lastID[r] # 0 /\ reader[r].at # "loop" => reader[r].from = lastID[r]
    /\ lastID[r] = 0 => reader[r].at \in {"loop", "blocked", "take"}
    /\ lastID[r] = 0 /\ reader[r].at # "loop" => 1..reader[r].from \subseteq unseen
    /\ life[r] = "set" => saving[r] # 0 /\ saving[r] <= lastID[r]

(* The cursor is never ahead of the reader.                                  *)
Ahead(r) ==
    /\ lastID[r] # 0 => lastID[r] >= cursor
    /\ lastID[r] = 0 /\ reader[r].at # "loop" => reader[r].from >= cursor

(* From an id on, every entry up to lastID has been taken, or read over by a  *)
(* "$", but for the last one while it is on its way into the batch.          *)
NoGap(r, c) ==
    \A id \in (c + 1)..lastID[r] :
        \/ IsTaken(id) \/ id \in unseen
        \/ id = lastID[r] /\ reader[r].at \in {"save", "load", "store"}

(* From the cursor on there is no gap, nor from the one that Stop may set.   *)
Gapless(r) == NoGap(r, cursor) /\ (life[r] = "set" => NoGap(r, saving[r]))

(* An entry on its way into the batch has its id saved by the time it is      *)
(* there, unless unsaved says so, and has not been taken before.             *)
Marked(r) ==
    /\ reader[r].at \in {"load", "store"} =>
           lastID[r] \in unsaved \/ lastID[r] <= cursor
    /\ reader[r].at \in {"save", "load", "store"} =>
           \A d \in taken : d.log = lastID[r] => d.log \in unsaved

(* What has been taken is behind the cursor or unsaved, and what has been     *)
(* taken twice is unsaved.                                                   *)
Explained ==
    /\ \A d \in taken : d.log \in unsaved \/ d.log <= cursor
    /\ \A d, e \in taken : d.log = e.log /\ d # e => d.log \in unsaved

OneInv ==
    /\ \A r \in Replicas : Stands(r) /\ Ahead(r) /\ Gapless(r) /\ Marked(r)
    /\ Explained

NoneSkipped == \A id \in (cursor + 1)..(cursor' - 1) : id \in unseen \/ IsTaken(id)

StopOnly ==
    cursor' < cursor =>
        \E r \in Replicas : life[r] = "set" /\ cursor' = saving[r] /\ life'[r] = "cancel"

Good == OneInv' /\ NoneSkipped /\ StopOnly

LEMMA Alone ==
    ASSUME One, TypeOK, OneInv, NEW CONSTANT r \in Replicas
    PROVE  /\ \A s \in Replicas : s = r
           /\ Stands(r) /\ Ahead(r) /\ Gapless(r) /\ Marked(r) /\ Explained
           /\ cursor \in Nat /\ added \in Nat /\ cursor <= added
           /\ lastID[r] \in Nat /\ saving[r] \in Nat
           /\ reader[r].from \in Nat /\ reader[r] \in Reader
           /\ \A d \in taken : d.log \in Nat
           /\ reader \in [Replicas -> Reader] /\ lastID \in [Replicas -> 0..MaxLogs]
           /\ saving \in [Replicas -> 0..MaxLogs] /\ life \in [Replicas -> Lives]
           /\ flush \in [Replicas -> [Goroutines -> Flusher]] /\ "reader" \in Goroutines
<1>1. \A d \in taken : d.log \in Nat  BY OneReplica DEF Doc
<1>2. cursor \in Nat /\ added \in Nat /\ cursor <= added /\ lastID[r] \in Nat /\ saving[r] \in Nat
  BY OneReplica
<1>3. Sorts /\ reader[r].from \in Nat /\ reader[r] \in Reader  BY OneReplica
<1>4. QED  BY <1>1, <1>2, <1>3 DEF One, OneInv, Sorts, Goroutines

LEMMA AloneNext ==
    ASSUME One, NEW CONSTANT r \in Replicas,
           Stands(r)', Ahead(r)', Gapless(r)', Marked(r)', Explained'
    PROVE  OneInv'
  BY DEF One, OneInv

(* A step that leaves the cursor, what it stands for and what was taken alone: *)
(* the reader may move, but not with an entry on its way into the batch.      *)
LEMMA OneKept ==
    ASSUME One, TypeOK, OneInv, NEW CONSTANT r \in Replicas,
           UNCHANGED <<cursor, taken, unsaved, lastID, saving>>, unseen \subseteq unseen',
           life'[r] = "set" => life[r] = "set", Stands(r)', Ahead(r)',
           reader'[r].at \in {"load", "store"} <=> reader[r].at \in {"load", "store"},
           reader'[r].at = "save" <=> reader[r].at = "save"
    PROVE  Good
<1>0. /\ Gapless(r) /\ Marked(r) /\ Explained /\ cursor \in Nat  BY Alone
<1>1. Gapless(r)'
  BY <1>0 DEF Gapless, NoGap, IsTaken
<1>2. Marked(r)'  BY <1>0 DEF Marked
<1>3. Explained'  BY <1>0 DEF Explained
<1>4. NoneSkipped /\ StopOnly  BY <1>0 DEF NoneSkipped, StopOnly
<1>5. QED  BY <1>1, <1>2, <1>3, <1>4, AloneNext DEF Good

LEMMA OneDown ==
    ASSUME One, TypeOK, OneInv, NEW CONSTANT r \in Replicas, Down(r),
           UNCHANGED <<cursor, taken, unsaved>>
    PROVE  Good
<1>0. Explained /\ cursor \in Nat  BY Alone
<1>1. /\ life'[r] = "down" /\ reader'[r].at = "loop" /\ flush'[r]["reader"].at = "idle"
      /\ lastID'[r] = 0
  BY Records, Alone DEF Down, NotFlushing
<1>2. Stands(r)' /\ Ahead(r)' /\ Marked(r)'  BY <1>1 DEF Stands, Ahead, Marked
<1>3. Gapless(r)'  BY <1>0, <1>1 DEF Gapless, NoGap
<1>4. Explained'  BY <1>0 DEF Explained
<1>5. NoneSkipped /\ StopOnly  BY <1>0 DEF NoneSkipped, StopOnly
<1>6. QED  BY <1>2, <1>3, <1>4, <1>5, AloneNext DEF Good

-----------------------------------------------------------------------------
(* The start and the end of the replica. *)

LEMMA OneLife ==
    ASSUME One, TypeOK, OneInv, NEW CONSTANT r \in Replicas,
           Start(r) \/ Crash(r) \/ Stop(r) \/ ReadLastID(r) \/ SaveCursor(r) \/ Cancel(r)
    PROVE  Good
<1>0. /\ Stands(r) /\ Ahead(r) /\ Gapless(r) /\ Marked(r) /\ Explained
      /\ cursor \in Nat /\ lastID[r] \in Nat /\ saving[r] \in Nat
      /\ \A d \in taken : d.log \in Nat
      /\ lastID \in [Replicas -> 0..MaxLogs] /\ saving \in [Replicas -> 0..MaxLogs]
      /\ life \in [Replicas -> Lives]
  BY Alone
<1>1. CASE Start(r)
  <2>1. /\ UNCHANGED <<cursor, taken, unsaved, unseen, reader, flush, saving>>
        /\ life[r] = "down" /\ life'[r] = "up"
    BY <1>0, <1>1 DEF Start
  <2>2. lastID'[r] \in {0, cursor}
    BY <1>0, <1>1 DEF Start
  <2>3. reader'[r].at = "loop"  BY <1>0, <2>1 DEF Stands
  <2>4. Stands(r)' /\ Ahead(r)' /\ Marked(r)'
    BY <1>0, <2>1, <2>2, <2>3 DEF Stands, Ahead, Marked
  <2>5. Gapless(r)'  BY <1>0, <2>1, <2>2 DEF Gapless, NoGap
  <2>6. Explained' /\ NoneSkipped /\ StopOnly
    BY <1>0, <2>1 DEF Explained, NoneSkipped, StopOnly
  <2>7. QED  BY <2>4, <2>5, <2>6, AloneNext DEF Good
<1>2. CASE Crash(r) \/ Cancel(r)
  BY <1>2, OneDown DEF Crash, Cancel
<1>3. CASE Stop(r)
  <2>1. /\ UNCHANGED <<cursor, taken, unsaved, lastID, saving, unseen, reader, flush>>
        /\ life[r] = "up" /\ life'[r] = "flush"
    BY <1>0, <1>3 DEF Stop
  <2>2. Stands(r)' /\ Ahead(r)'  BY <1>0, <2>1 DEF Stands, Ahead
  <2>3. QED  BY <2>1, <2>2, OneKept
<1>4. CASE ReadLastID(r)
  <2>1. /\ UNCHANGED <<cursor, taken, unsaved, lastID, unseen, reader, flush>>
        /\ life[r] = "save" /\ life'[r] = (IF lastID[r] # 0 THEN "set" ELSE "cancel")
        /\ saving'[r] = lastID[r]
    BY <1>0, <1>4 DEF ReadLastID
  <2>2. Stands(r)'  BY <1>0, <2>1 DEF Stands
  <2>3. Ahead(r)' /\ Marked(r)' /\ Explained'  BY <1>0, <2>1 DEF Ahead, Marked, Explained
  <2>4. Gapless(r)'  BY <1>0, <2>1 DEF Gapless, NoGap, IsTaken
  <2>5. NoneSkipped /\ StopOnly  BY <1>0, <2>1 DEF NoneSkipped, StopOnly
  <2>6. QED  BY <2>2, <2>3, <2>4, <2>5, AloneNext DEF Good
<1>5. CASE SaveCursor(r)
  <2>1. /\ UNCHANGED <<taken, unseen, lastID, saving, reader, flush>>
        /\ life[r] = "set" /\ life'[r] = "cancel"
    BY <1>0, <1>5 DEF SaveCursor
  <2>2. \/ cursor' = saving[r] /\ unsaved' = unsaved \cup (saving[r] + 1)..cursor
        \/ cursor' = cursor /\ unsaved' = unsaved
    BY <1>5 DEF SaveCursor, Save
  <2>3. saving[r] <= lastID[r] /\ lastID[r] # 0  BY <1>0, <2>1 DEF Stands
  <2>4. Stands(r)' /\ Ahead(r)'  BY <1>0, <2>1, <2>2, <2>3 DEF Stands, Ahead
  <2>5. Gapless(r)'  BY <1>0, <2>1, <2>2 DEF Gapless, NoGap, IsTaken
  <2>6. Marked(r)'  BY <1>0, <2>1, <2>2 DEF Marked
  <2>7. Explained'  BY <1>0, <2>1, <2>2 DEF Explained
  <2>8. NoneSkipped
    BY <1>0, <2>1, <2>2, <2>3 DEF NoneSkipped, Gapless, NoGap
  <2>9. StopOnly  BY <1>0, <2>1, <2>2 DEF StopOnly
  <2>10. QED  BY <2>4, <2>5, <2>6, <2>7, <2>8, <2>9, AloneNext DEF Good
<1>6. QED  BY <1>1, <1>2, <1>3, <1>4, <1>5

-----------------------------------------------------------------------------
(* The reader and the flushes. *)

LEMMA OneReader ==
    ASSUME One, TypeOK, OneInv, NEW CONSTANT r \in Replicas, Read(r) \/ XReadNothing(r)
    PROVE  Good
<1>0. /\ Stands(r) /\ Ahead(r) /\ Gapless(r) /\ Marked(r) /\ Explained
      /\ cursor \in Nat /\ added \in Nat /\ cursor <= added /\ lastID[r] \in Nat
      /\ reader[r].from \in Nat /\ reader[r] \in Reader
      /\ \A d \in taken : d.log \in Nat
      /\ reader \in [Replicas -> Reader] /\ lastID \in [Replicas -> 0..MaxLogs]
      /\ saving[r] \in Nat
  BY Alone
<1>00. flush' = flush /\ life' = life /\ life[r] # "down"
  BY DEF Read, XRead, XReadNothing, XReadReturn, Take, SaveTaken, LoadBatch, StoreBatch, Running
<1>1. CASE XRead(r)
  <2>1. reader'[r] = [Looping EXCEPT !.at = "blocked", !.from = After(r), !.last = After(r)]
    BY <1>0, <1>1 DEF XRead
  <2>2. reader'[r].at = "blocked" /\ reader'[r].from = After(r)
    BY <2>1 DEF Looping
  <2>3. /\ UNCHANGED <<cursor, taken, unsaved, lastID, saving>> /\ reader[r].at = "loop"
        /\ unseen' = IF lastID[r] = 0 THEN unseen \cup 1..added ELSE unseen
    BY <1>1 DEF XRead
  <2>4. flush'[r]["reader"].at = "idle"  BY <1>0, <1>00, <2>3 DEF Stands
  <2>5. Stands(r)'  BY <1>0, <1>00, <2>2, <2>3, <2>4 DEF Stands, After
  <2>6. Ahead(r)'  BY <1>0, <2>2, <2>3 DEF Ahead, After
  <2>7. QED  BY <1>00, <2>2, <2>3, <2>5, <2>6, OneKept
<1>2. CASE XReadNothing(r)
  <2>1. reader'[r].at = "loop" /\ reader[r].at = "blocked"
    BY <1>0, <1>2, Records DEF XReadNothing
  <2>2. UNCHANGED <<cursor, taken, unsaved, lastID, saving, unseen>>  BY <1>2 DEF XReadNothing
  <2>3. Stands(r)' /\ Ahead(r)'  BY <1>0, <1>00, <2>1, <2>2 DEF Stands, Ahead
  <2>4. QED  BY <1>00, <2>1, <2>2, <2>3, OneKept
<1>3. CASE XReadReturn(r)
  <2>1. \E last : reader' = [reader EXCEPT ![r] = [reader[r] EXCEPT !.at = "take", !.last = last]]
    BY <1>3 DEF XReadReturn
  <2>2. reader'[r].at = "take" /\ reader'[r].from = reader[r].from /\ reader[r].at = "blocked"
    BY <1>0, <1>3, <2>1 DEF Reader, XReadReturn
  <2>3. UNCHANGED <<cursor, taken, unsaved, lastID, saving, unseen>>  BY <1>3 DEF XReadReturn
  <2>4. Stands(r)' /\ Ahead(r)'  BY <1>0, <1>00, <2>2, <2>3 DEF Stands, Ahead
  <2>5. QED  BY <1>00, <2>2, <2>3, <2>4, OneKept
<1>4. CASE Take(r)
  <2> DEFINE id == reader[r].from + 1
  <2>1. /\ reader[r].at = "take" /\ UNCHANGED <<cursor, taken, saving, unseen>>
        /\ unsaved' = IF id \in Saving THEN unsaved ELSE unsaved \cup {id}
    BY <1>4 DEF Take, Unsaved
  <2>2. /\ lastID'[r] = id /\ reader'[r].from = id
        /\ reader'[r].at = (IF id \in Saving THEN "save" ELSE "load")
    BY <1>0, <1>4 DEF Take, Reader
  <2>3. reader[r].from >= cursor /\ (lastID[r] # 0 => reader[r].from = lastID[r])
    BY <1>0, <2>1 DEF Stands, Ahead
  <2>4. id \in Nat /\ id # 0 /\ id > cursor /\ (lastID[r] # 0 => id = lastID[r] + 1)
    BY <1>0, <2>3
  <2>5. lastID[r] = 0 => 1..(id - 1) \subseteq unseen
    BY <1>0, <2>1 DEF Stands
  <2> HIDE DEF id
  <2>6. life'[r] = "set" => saving'[r] # 0 /\ saving'[r] <= lastID'[r] /\ lastID[r] # 0
    BY <1>0, <1>00, <2>1, <2>2, <2>4 DEF Stands
  <2>7. flush'[r]["reader"].at = "idle"  BY <1>0, <1>00, <2>1 DEF Stands
  <2>8. Stands(r)'  BY <1>0, <1>00, <2>2, <2>4, <2>6, <2>7 DEF Stands
  <2>9. Ahead(r)'  BY <1>0, <2>1, <2>2, <2>4 DEF Ahead
  <2>10. NoGap(r, cursor)'
    BY <1>0, <2>1, <2>2, <2>4, <2>5 DEF Gapless, NoGap, IsTaken
  <2>11. life'[r] = "set" => NoGap(r, saving[r])'
    BY <1>0, <1>00, <2>1, <2>2, <2>4, <2>6 DEF Gapless, NoGap, IsTaken
  <2>12. Marked(r)'
    BY <1>0, <2>1, <2>2, <2>4 DEF Marked, Explained
  <2>13. Explained'  BY <1>0, <2>1 DEF Explained
  <2>14. NoneSkipped /\ StopOnly  BY <1>0, <2>1 DEF NoneSkipped, StopOnly
  <2>15. QED  BY <2>8, <2>9, <2>10, <2>11, <2>12, <2>13, <2>14, AloneNext DEF Good, Gapless
<1>5. CASE SaveTaken(r)
  <2>1. reader[r].at = "save" /\ UNCHANGED <<taken, unseen, lastID, saving>>
    BY <1>5 DEF SaveTaken
  <2>2. reader'[r].at = "load" /\ reader'[r].from = reader[r].from
    BY <1>0, <1>5 DEF SaveTaken, Reader
  <2>3. lastID[r] # 0 /\ reader[r].from = lastID[r] /\ lastID[r] >= cursor
    BY <1>0, <2>1 DEF Stands, Ahead
  <2>4. \/ cursor' = lastID[r] /\ unsaved' = unsaved \cup (lastID[r] + 1)..cursor
        \/ cursor' = cursor /\ unsaved' = unsaved \cup {lastID[r]}
    BY <1>5, <2>3 DEF SaveTaken, Save
  <2>5. Stands(r)'  BY <1>0, <1>00, <2>1, <2>2, <2>3 DEF Stands
  <2>6. Ahead(r)'  BY <1>0, <2>1, <2>2, <2>3, <2>4 DEF Ahead
  <2>7. Gapless(r)'
    BY <1>0, <1>00, <2>1, <2>2, <2>3, <2>4 DEF Gapless, NoGap, IsTaken
  <2>8. Marked(r)'  BY <1>0, <2>1, <2>2, <2>3, <2>4 DEF Marked
  <2>9. Explained'  BY <1>0, <2>1, <2>3, <2>4 DEF Explained
  <2>10. NoneSkipped
    BY <1>0, <2>1, <2>4 DEF NoneSkipped, Gapless, NoGap
  <2>11. StopOnly  BY <1>0, <2>3, <2>4 DEF StopOnly
  <2>12. QED  BY <2>5, <2>6, <2>7, <2>8, <2>9, <2>10, <2>11, AloneNext DEF Good
<1>6. CASE LoadBatch(r)
  <2>1. reader'[r].at = "store" /\ reader'[r].from = reader[r].from /\ reader[r].at = "load"
    BY <1>0, <1>6 DEF LoadBatch, Reader
  <2>2. UNCHANGED <<cursor, taken, unsaved, lastID, saving, unseen>>  BY <1>6 DEF LoadBatch
  <2>3. Stands(r)' /\ Ahead(r)'  BY <1>0, <1>00, <2>1, <2>2 DEF Stands, Ahead
  <2>4. QED  BY <1>00, <2>1, <2>2, <2>3, OneKept
<1>7. CASE StoreBatch(r)
  <2> DEFINE doc == [log |-> reader[r].from, by |-> r, start |-> starts[r]]
  <2>1. /\ reader[r].at = "store" /\ taken' = taken \cup {doc}
        /\ UNCHANGED <<cursor, lastID, saving, unsaved, unseen>>
    BY <1>7 DEF StoreBatch
  <2>2. \/ reader'[r] = [reader[r] EXCEPT !.at = "flush", !.held = << >>]
        \/ reader'[r] = Onward(reader[r])
    BY <1>0, <1>7 DEF StoreBatch
  <2>3. \/ reader'[r].at = "loop"
        \/ reader'[r].at \in {"flush", "take"} /\ reader'[r].from = reader[r].from
    BY <1>0, <2>2, Records DEF Onward, Reader
  <2>4. lastID[r] # 0 /\ reader[r].from = lastID[r] /\ lastID[r] >= cursor
    BY <1>0, <2>1 DEF Stands, Ahead
  <2>5. doc.log = lastID[r]  BY <2>4
  <2>6. flush'[r]["reader"].at = "idle"  BY <1>0, <1>00, <2>1 DEF Stands
  <2>7. (lastID[r] \in unsaved \/ lastID[r] <= cursor)
        /\ \A d \in taken : d.log = lastID[r] => d.log \in unsaved
    BY <1>0, <2>1 DEF Marked
  <2> HIDE DEF doc
  <2>8. Stands(r)'  BY <1>0, <1>00, <2>1, <2>3, <2>4, <2>6 DEF Stands
  <2>9. Ahead(r)' /\ Marked(r)'  BY <1>0, <2>1, <2>3, <2>4 DEF Ahead, Marked
  <2>10. \A i : (IsTaken(i) => IsTaken(i)') /\ (i = lastID[r] => IsTaken(i)')
    BY <2>1, <2>5 DEF IsTaken
  <2>11. Gapless(r)'
    BY <1>0, <1>00, <2>1, <2>10 DEF Gapless, NoGap
  <2>12. Explained'  BY <1>0, <2>1, <2>5, <2>7 DEF Explained
  <2>13. NoneSkipped /\ StopOnly  BY <1>0, <2>1 DEF NoneSkipped, StopOnly
  <2>14. QED  BY <2>8, <2>9, <2>11, <2>12, <2>13, AloneNext DEF Good
<1>8. QED  BY <1>1, <1>2, <1>3, <1>4, <1>5, <1>6, <1>7 DEF Read

LEMMA OneFlush ==
    ASSUME One, TypeOK, FlushRuns, OneInv, NEW CONSTANT r \in Replicas,
           NEW CONSTANT g \in Goroutines, Flush(r, g)
    PROVE  Good
<1>0. /\ Stands(r) /\ Ahead(r) /\ reader[r] \in Reader
      /\ reader \in [Replicas -> Reader] /\ flush \in [Replicas -> [Goroutines -> Flusher]]
      /\ life \in [Replicas -> Lives] /\ "reader" \in Goroutines
  BY Alone
<1>00. UNCHANGED <<cursor, taken, unsaved, unseen>>
  BY DEF Flush, FlushEmpty, FlushBegin, FlushCopy, FlushPanic, InsertSucceeds, InsertFails, FlushClear
<1>1. CASE FlushPanic(r, g)
  BY <1>00, <1>1, OneDown DEF FlushPanic
<1>2. CASE FlushBegin(r, g) \/ FlushCopy(r, g) \/ InsertSucceeds(r, g)
  <2>1. UNCHANGED <<reader, lastID, saving, life>>
    BY <1>2 DEF FlushBegin, FlushCopy, InsertSucceeds
  <2>2. \E f : flush' = [flush EXCEPT ![r][g] = f]
    BY <1>2 DEF FlushBegin, FlushCopy, InsertSucceeds
  <2>3. \A h \in Goroutines : h # g => flush'[r][h] = flush[r][h]
    BY <1>0, <2>2
  <2>4. g = "reader" => reader[r].at = "flush"
    BY <1>0, <1>2 DEF FlushBegin, FlushCopy, InsertSucceeds, CallsFlush, Stands
  <2>5. Stands(r)'  BY <1>0, <1>00, <2>1, <2>3, <2>4 DEF Stands
  <2>6. Ahead(r)'  BY <1>0, <1>00, <2>1 DEF Ahead
  <2>7. QED  BY <1>00, <2>1, <2>5, <2>6, OneKept
<1>3. CASE FlushEmpty(r, g) \/ InsertFails(r, g) \/ FlushClear(r, g)
  <2>1. UNCHANGED <<lastID, saving>> /\ Return(r, g)
    BY <1>3 DEF FlushEmpty, InsertFails, FlushClear
  <2>2. life[r] # "down" /\ life'[r] # "down" /\ (life'[r] = "set" => life[r] = "set")
    <3>1. life[r] # "down"
      BY <1>3 DEF FlushEmpty, InsertFails, FlushClear, CallsFlush, FlushRuns, Running, Goroutines
    <3>2. QED  BY <1>0, <2>1, <3>1 DEF Return
  <2>3. /\ flush'[r][g].at = "idle" /\ \A h \in Goroutines : h # g => flush'[r][h] = flush[r][h]
    BY <1>0, <2>1 DEF Return, NotFlushing
  <2>4. CASE g = "reader"
    <3>1. reader[r].at = "flush" /\ reader'[r] = Onward(reader[r])
      BY <1>0, <1>3, <2>1, <2>4 DEF FlushEmpty, InsertFails, FlushClear, CallsFlush, Stands, Return
    <3>2. reader'[r].at = "loop" \/ (reader'[r].at = "take" /\ reader'[r].from = reader[r].from)
      BY <1>0, <3>1, Records DEF Onward, Reader
    <3>3. Stands(r)' /\ Ahead(r)'
      BY <1>0, <1>00, <2>1, <2>2, <2>3, <2>4, <3>1, <3>2 DEF Stands, Ahead
    <3>4. QED  BY <1>00, <2>1, <2>2, <3>1, <3>2, <3>3, OneKept
  <2>5. CASE g # "reader"
    <3>1. reader' = reader  BY <2>1, <2>5 DEF Return
    <3>2. Stands(r)' /\ Ahead(r)'
      BY <1>0, <1>00, <2>1, <2>2, <2>3, <2>5, <3>1 DEF Stands, Ahead
    <3>3. QED  BY <1>00, <2>1, <2>2, <3>1, <3>2, OneKept
  <2>6. QED  BY <2>4, <2>5
<1>4. QED  BY <1>1, <1>2, <1>3 DEF Flush

LEMMA OneStep ==
    ASSUME One
    PROVE  /\ TypeOK /\ FlushRuns /\ OneInv /\ [Next]_vars => OneInv'
           /\ TypeOK /\ FlushRuns /\ OneInv /\ [Next]_vars => NoneSkipped /\ StopOnly
<1> SUFFICES ASSUME TypeOK, FlushRuns, OneInv, [Next]_vars PROVE Good
  BY DEF Good
<1>1. CASE AddLog \/ Rest \/ UNCHANGED vars
  <2>1. UNCHANGED <<cursor, taken, unsaved, unseen, lastID, saving, life, reader, flush>>
    BY <1>1 DEF AddLog, Rest, vars
  <2>2. OneInv'
    BY <2>1 DEF OneInv, Stands, Ahead, Gapless, NoGap, IsTaken, Marked, Explained
  <2>3. cursor \in Nat  BY LogsAssumption DEF TypeOK, Sorts
  <2>4. QED  BY <2>1, <2>2, <2>3 DEF Good, NoneSkipped, StopOnly
<1>2. ASSUME NEW CONSTANT r \in Replicas,
             \/ Start(r) \/ Crash(r) \/ Stop(r) \/ ReadLastID(r) \/ SaveCursor(r) \/ Cancel(r)
             \/ Read(r) \/ XReadNothing(r) \/ \E g \in Goroutines : Flush(r, g)
      PROVE  Good
  BY <1>2, OneLife, OneReader, OneFlush
<1>3. QED  BY <1>1, <1>2 DEF Next

LEMMA OneInit == Init => FlushRuns /\ OneInv
<1> SUFFICES ASSUME Init PROVE FlushRuns /\ OneInv
  OBVIOUS
<1>1. FlushRuns  BY DEF Init, FlushRuns, NotFlushing
<1>2. ASSUME NEW r \in Replicas PROVE Stands(r) /\ Ahead(r) /\ Gapless(r) /\ Marked(r)
  <2>1. /\ lastID[r] = 0 /\ reader[r].at = "loop" /\ life[r] = "down" /\ cursor = 0
        /\ flush[r]["reader"].at = "idle"
    BY Records DEF Init, NotFlushing, Goroutines
  <2>2. QED  BY <2>1 DEF Stands, Ahead, Gapless, NoGap, Marked
<1>3. QED  BY <1>1, <1>2 DEF Init, OneInv, Explained

(* One replica stores no log twice but those whose id was not saved or was    *)
(* overwritten by Stop: not after a crash, a stop, a failed insert, an        *)
(* overlapping flush, or a start that cannot read the cursor.                *)
THEOREM SoleReplicaStoresOnce ==
    ASSUME One PROVE Spec => []AtMostOnce
<1>1. TypeOK /\ OneInv => AtMostOnce
  BY DEF TypeOK, Sorts, OneInv, Explained, AtMostOnce
<1>2. TypeOK /\ FlushRuns /\ OneInv /\ [Next]_vars => OneInv'
  BY OneStep
<1>3. QED  BY TypeCorrect, FlushRunsStep, OneInit, <1>1, <1>2, PTL DEF Spec

(* The cursor of one replica moves back only in Stop, to the id read there.   *)
THEOREM SoleReplicaMovesBackInStop ==
    ASSUME One PROVE Spec => OnlyStopMovesBack
<1>1. TypeOK /\ FlushRuns /\ OneInv /\ [Next]_vars => OneInv'
  BY OneStep
<1>2. TypeOK /\ FlushRuns /\ OneInv /\ [Next]_vars =>
          [cursor' < cursor =>
              \E r \in Replicas : life[r] = "set" /\ cursor' = saving[r] /\ life'[r] = "cancel"]_vars
  BY OneStep DEF StopOnly
<1>3. QED  BY TypeCorrect, FlushRunsStep, OneInit, <1>1, <1>2, PTL DEF Spec, OnlyStopMovesBack

(* One replica moves the cursor over no entry that nobody has taken, but for  *)
(* those a read from "$" passed over: whichever ids are saved, however it     *)
(* ends and whatever calls fail.                                             *)
THEOREM SoleReplicaSkipsNothing ==
    ASSUME One PROVE Spec => CursorSkipsNothing
<1>1. TypeOK /\ FlushRuns /\ OneInv /\ [Next]_vars => OneInv'
  BY OneStep
<1>2. TypeOK /\ FlushRuns /\ OneInv /\ [Next]_vars =>
          [\A id \in (cursor + 1)..(cursor' - 1) :
              id \in unseen \/ \E d \in taken : d.log = id]_vars
  BY OneStep DEF NoneSkipped, IsTaken
<1>3. QED  BY TypeCorrect, FlushRunsStep, OneInit, <1>1, <1>2, PTL DEF Spec, CursorSkipsNothing

=============================================================================
