------------------------- MODULE OrderLogsConsumer -------------------------
(***************************************************************************)
(* The consumer of the order log stream in the Go service                  *)
(* (order_logs_consumer.go): replicas of the service read the Redis stream *)
(* order-logs:events from a cursor, batch what they read and insert the    *)
(* batches into the MongoDB collection of order logs.                      *)
(*                                                                         *)
(* The goroutines of a replica are consumeFromQueue (the reader), the      *)
(* ticker of batchFlushLoop, and main, which calls Stop.  They share the   *)
(* fields batch and lastID without a lock, and all three call flushBatch:  *)
(* each read and each write of batch is a step.                            *)
(*                                                                         *)
(* A log is its position in the stream.  0 stands for no id: in Redis for  *)
(* a cursor key that does not exist, in a replica for lastID "$".          *)
(***************************************************************************)
EXTENDS Naturals, Sequences, FiniteSets, Functions

CONSTANTS
    Replicas,   \* the replicas of the Go service
    MaxLogs,    \* bound on the entries added to the stream
    MaxStarts,  \* bound on the times a replica is started
    ReadCount,  \* Count of an XREAD (10)
    BatchSize,  \* c.batchSize (50)
    Saving,     \* the entries whose id ends in 0 or 5
    Ends,       \* how a replica may end: "stop" (SIGTERM), "crash"
    Failures    \* what may fail: "cursor" (GET), "set" (SET), "read" (XREAD),
                \* "before" (InsertMany stores nothing), "partway" (a part)

ASSUME LogsAssumption ==
    /\ MaxLogs \in Nat /\ MaxStarts \in Nat
    /\ ReadCount \in Nat \ {0} /\ BatchSize \in Nat \ {0}
    /\ Saving \subseteq 1..MaxLogs
ASSUME EndsAssumption ==
    /\ Ends \subseteq {"stop", "crash"}
    /\ Failures \subseteq {"cursor", "set", "read", "before", "partway"}

VARIABLES
    added,   \* the length of the stream
    cursor,  \* the key order-logs:cursor
    store,   \* the documents of the collection
    life,    \* down, up, or how far main has got in Stop
    starts,  \* how many times the replica has been started
    lastID,  \* c.lastID
    saving,  \* the c.lastID that Stop has read for its SET
    batch,   \* c.batch
    reader,  \* consumeFromQueue: where it is, the entries from+1..last of its
             \* XREAD still to process, and the c.batch it has loaded
    flush,   \* flushBatch of each goroutine: where it is, the length it
             \* allocated, the documents it copied
    taken,   \* history: every document made from an entry
    unsaved, \* history: entries taken whose id was not saved, or was saved
             \* and overwritten by an older one
    unseen,  \* history: entries that were there when an XREAD from "$" began
    dropped  \* history: logs that an assignment to c.batch left out although
             \* no flush had copied them

locals == <<lastID, saving, batch, reader, flush>>
history == <<taken, unsaved, unseen, dropped>>
vars == <<added, cursor, store, life, starts, locals, history>>

Goroutines == {"reader", "ticker", "stop"}

\* A document: NewObjectID makes a new _id each time an entry is taken, and an
\* incarnation takes an entry at most once, so that these three identify it.
Doc == [log : 1..MaxLogs, by : Replicas, start : 1..MaxStarts]

Looping == [at |-> "loop", from |-> 0, last |-> 0, held |-> << >>]
NotFlushing == [at |-> "idle", n |-> 0, docs |-> << >>]

Lives == {"down", "up", "flush", "save", "set", "cancel"}
Reader == [at : {"loop", "blocked", "take", "save", "load", "store", "flush"},
           from : 0..MaxLogs, last : 0..MaxLogs, held : Seq(Doc)]
Flusher == [at : {"idle", "copy", "insert", "clear"}, n : Nat, docs : Seq(Doc)]

Made(docs) == \A i \in 1..Len(docs) : docs[i] \in taken

Sorts ==
    /\ added \in 0..MaxLogs
    /\ cursor \in 0..added
    /\ taken \subseteq Doc /\ store \subseteq taken
    /\ unsaved \subseteq 1..MaxLogs /\ unseen \subseteq 1..MaxLogs /\ dropped \subseteq 1..MaxLogs
    /\ life \in [Replicas -> Lives]
    /\ starts \in [Replicas -> 0..MaxStarts]
    /\ lastID \in [Replicas -> 0..MaxLogs] /\ saving \in [Replicas -> 0..MaxLogs]
    /\ batch \in [Replicas -> Seq(Doc)]
    /\ reader \in [Replicas -> Reader]
    /\ flush \in [Replicas -> [Goroutines -> Flusher]]

InBounds(r) ==
    /\ life[r] # "down" => starts[r] >= 1
    /\ lastID[r] <= added /\ saving[r] <= added /\ reader[r].from <= reader[r].last /\ reader[r].last <= added
    /\ reader[r].at = "take" => reader[r].from < reader[r].last
    /\ reader[r].at \in {"save", "load", "store"} => reader[r].from >= 1
    /\ Made(batch[r]) /\ Made(reader[r].held)
    /\ \A g \in Goroutines : Made(flush[r][g].docs)

\* The state has its type; no id is one that the stream has not given, and
\* every document in memory or in the collection was made from an entry.
TypeOK == Sorts /\ \A r \in Replicas : InBounds(r)

Init ==
    /\ added = 0 /\ cursor = 0 /\ store = {}
    /\ taken = {} /\ unsaved = {} /\ unseen = {} /\ dropped = {}
    /\ life = [r \in Replicas |-> "down"]
    /\ starts = [r \in Replicas |-> 0]
    /\ lastID = [r \in Replicas |-> 0] /\ saving = [r \in Replicas |-> 0]
    /\ batch = [r \in Replicas |-> << >>]
    /\ reader = [r \in Replicas |-> Looping]
    /\ flush = [r \in Replicas |-> [g \in Goroutines |-> NotFlushing]]

\* The process of a replica is gone, and its memory with it.
Down(r) ==
    /\ life' = [life EXCEPT ![r] = "down"]
    /\ lastID' = [lastID EXCEPT ![r] = 0] /\ saving' = [saving EXCEPT ![r] = 0]
    /\ batch' = [batch EXCEPT ![r] = << >>]
    /\ reader' = [reader EXCEPT ![r] = Looping]
    /\ flush' = [flush EXCEPT ![r] = [g \in Goroutines |-> NotFlushing]]

\* addLog of a NestJS process: XADD.
AddLog ==
    /\ added < MaxLogs
    /\ added' = added + 1
    /\ UNCHANGED <<cursor, store, life, starts, locals, history>>

-----------------------------------------------------------------------------
(* Start and end of a replica. *)

\* NewOrderLogsConsumer loads the cursor, or takes "$" when there is none or
\* it cannot be read; then Start.
Start(r) ==
    /\ life[r] = "down" /\ starts[r] < MaxStarts
    /\ life' = [life EXCEPT ![r] = "up"]
    /\ starts' = [starts EXCEPT ![r] = @ + 1]
    /\ \E id \in {cursor} \cup (IF "cursor" \in Failures THEN {0} ELSE {}) :
           lastID' = [lastID EXCEPT ![r] = id]
    /\ UNCHANGED <<added, cursor, store, saving, batch, reader, flush, history>>

Crash(r) ==
    /\ "crash" \in Ends
    /\ life[r] # "down"
    /\ Down(r)
    /\ UNCHANGED <<added, cursor, store, starts, history>>

\* main has been told to end and calls Stop, which flushes first.
Stop(r) ==
    /\ "stop" \in Ends
    /\ life[r] = "up"
    /\ life' = [life EXCEPT ![r] = "flush"]
    /\ UNCHANGED <<added, cursor, store, starts, locals, history>>

\* The key is set.  The entries that it had covered and no longer covers have
\* lost their saved id.
Save(id) ==
    /\ cursor' = id
    /\ unsaved' = unsaved \cup (id + 1)..cursor

\* Stop reads lastID while the other goroutines run on ...
ReadLastID(r) ==
    /\ life[r] = "save"
    /\ saving' = [saving EXCEPT ![r] = lastID[r]]
    /\ life' = [life EXCEPT ![r] = IF lastID[r] # 0 THEN "set" ELSE "cancel"]
    /\ UNCHANGED <<added, cursor, store, starts, lastID, batch, reader, flush, history>>

\* ... and sets the cursor to what it read.  An error is not looked at.
SaveCursor(r) ==
    /\ life[r] = "set"
    /\ life' = [life EXCEPT ![r] = "cancel"]
    /\ \/ Save(saving[r])
       \/ "set" \in Failures /\ UNCHANGED <<cursor, unsaved>>
    /\ UNCHANGED <<added, store, starts, locals, taken, unseen, dropped>>

\* Stop cancels the context, which fails every call still to be made, and
\* main returns.
Cancel(r) ==
    /\ life[r] = "cancel"
    /\ Down(r)
    /\ UNCHANGED <<added, cursor, store, starts, history>>

-----------------------------------------------------------------------------
(* consumeFromQueue. *)

Running(r) == life[r] # "down"

\* What XREAD reads after; "$" is the entry that is last when it arrives.
After(r) == IF lastID[r] = 0 THEN added ELSE lastID[r]

XRead(r) ==
    /\ Running(r) /\ reader[r].at = "loop"
    /\ reader' = [reader EXCEPT ![r] =
                      [Looping EXCEPT !.at = "blocked", !.from = After(r), !.last = After(r)]]
    /\ unseen' = IF lastID[r] = 0 THEN unseen \cup 1..added ELSE unseen
    /\ UNCHANGED <<added, cursor, store, life, starts, lastID, saving, batch, flush,
                   taken, unsaved, dropped>>

\* It times out with nothing new, or fails; the loop goes round.
XReadNothing(r) ==
    /\ Running(r) /\ reader[r].at = "blocked"
    /\ added = reader[r].from \/ "read" \in Failures
    /\ reader' = [reader EXCEPT ![r] = Looping]
    /\ UNCHANGED <<added, cursor, store, life, starts, lastID, saving, batch, flush, history>>

\* Mutant: the reply is taken to be full whatever the stream holds.
XReadAlwaysFull(r) ==
    /\ Running(r) /\ reader[r].at = "blocked"
    /\ added > reader[r].from
    /\ reader' = [reader EXCEPT ![r] =
                      [@ EXCEPT !.at = "take", !.last = reader[r].from + ReadCount]]
    /\ UNCHANGED <<added, cursor, store, life, starts, lastID, saving, batch, flush, history>>

\* It returns the entries after from that were there when Redis served it.
XReadReturn(r) ==
    /\ Running(r) /\ reader[r].at = "blocked"
    /\ \E last \in (reader[r].from + 1)..added :
           /\ last <= reader[r].from + ReadCount
           /\ reader' = [reader EXCEPT ![r] = [@ EXCEPT !.at = "take", !.last = last]]
    /\ UNCHANGED <<added, cursor, store, life, starts, lastID, saving, batch, flush, history>>

\* Taking an entry whose id is not one to save leaves it without a saved id.
Unsaved(id) == unsaved' = IF id \in Saving THEN unsaved ELSE unsaved \cup {id}

\* Mutant: lastID is advanced to the last message of the reply at once.
TakeReply(r) ==
    /\ Running(r) /\ reader[r].at = "take"
    /\ LET id == reader[r].from + 1
       IN  /\ lastID' = [lastID EXCEPT ![r] = reader[r].last]
           /\ reader' = [reader EXCEPT ![r] =
                             [@ EXCEPT !.at = IF id \in Saving THEN "save" ELSE "load", !.from = id]]
           /\ Unsaved(id)
    /\ UNCHANGED <<added, cursor, store, life, starts, saving, batch, flush, taken, unseen, dropped>>

\* The next message: lastID is advanced, and is to be saved when its text
\* says so.
Take(r) ==
    /\ Running(r) /\ reader[r].at = "take"
    /\ LET id == reader[r].from + 1
       IN  /\ lastID' = [lastID EXCEPT ![r] = id]
           /\ reader' = [reader EXCEPT ![r] =
                             [@ EXCEPT !.at = IF id \in Saving THEN "save" ELSE "load", !.from = id]]
           /\ Unsaved(id)
    /\ UNCHANGED <<added, cursor, store, life, starts, saving, batch, flush, taken, unseen, dropped>>

\* Mutant: the id before the one taken is saved.
SaveBeforeTaken(r) ==
    /\ Running(r) /\ reader[r].at = "save"
    /\ reader' = [reader EXCEPT ![r].at = "load"]
    /\ Save(lastID[r] - 1)
    /\ UNCHANGED <<added, store, life, starts, lastID, saving, batch, flush, taken, unseen, dropped>>

\* The cursor is set to lastID before the entry is batched.  An error is not
\* looked at.
SaveTaken(r) ==
    /\ Running(r) /\ reader[r].at = "save"
    /\ reader' = [reader EXCEPT ![r].at = "load"]
    /\ \/ Save(lastID[r])
       \/ /\ "set" \in Failures
          /\ unsaved' = unsaved \cup {reader[r].from} /\ cursor' = cursor
    /\ UNCHANGED <<added, store, life, starts, lastID, saving, batch, flush, taken, unseen, dropped>>

\* append reads c.batch ...
LoadBatch(r) ==
    /\ Running(r) /\ reader[r].at = "load"
    /\ reader' = [reader EXCEPT ![r] = [@ EXCEPT !.at = "store", !.held = batch[r]]]
    /\ UNCHANGED <<added, cursor, store, life, starts, lastID, saving, batch, flush, history>>

\* The reader goes on to its next message, or to the next XREAD.
Onward(rd) == IF rd.from = rd.last THEN Looping ELSE [rd EXCEPT !.at = "take", !.held = << >>]

\* The logs of c.batch that are not among the documents that were copied or
\* loaded from it.
LeftOut(docs, copied) == {docs[i].log : i \in {k \in 1..Len(docs) : docs[k] \notin Range(copied)}}

\* ... and c.batch is assigned; a full batch is flushed.
StoreBatch(r) ==
    /\ Running(r) /\ reader[r].at = "store"
    /\ LET doc == [log |-> reader[r].from, by |-> r, start |-> starts[r]]
       IN  /\ batch' = [batch EXCEPT ![r] = Append(reader[r].held, doc)]
           /\ taken' = taken \cup {doc}
           /\ dropped' = dropped \cup LeftOut(batch[r], reader[r].held)
           /\ reader' = [reader EXCEPT ![r] =
                             IF Len(batch'[r]) >= BatchSize
                             THEN [@ EXCEPT !.at = "flush", !.held = << >>]
                             ELSE Onward(@)]
    /\ UNCHANGED <<added, cursor, store, life, starts, lastID, saving, flush, unsaved, unseen>>

-----------------------------------------------------------------------------
(* flushBatch, called by a full batch, by the ticker and by Stop. *)

CallsFlush(r, g) ==
    CASE g = "reader" -> Running(r) /\ reader[r].at = "flush"
      [] g = "ticker" -> Running(r)
      [] g = "stop"   -> life[r] = "flush"

\* flushBatch returns to its caller.
Return(r, g) ==
    /\ flush' = [flush EXCEPT ![r][g] = NotFlushing]
    /\ reader' = IF g = "reader" THEN [reader EXCEPT ![r] = Onward(@)] ELSE reader
    /\ life' = IF g = "stop" THEN [life EXCEPT ![r] = "save"] ELSE life

FlushEmpty(r, g) ==
    /\ CallsFlush(r, g) /\ flush[r][g].at = "idle"
    /\ batch[r] = << >>
    /\ Return(r, g)
    /\ UNCHANGED <<added, cursor, store, starts, lastID, saving, batch, history>>

\* Mutant: only a full batch is flushed, whoever asks.
FlushBeginWhenFull(r, g) ==
    /\ CallsFlush(r, g) /\ flush[r][g].at = "idle"
    /\ Len(batch[r]) >= BatchSize
    /\ flush' = [flush EXCEPT ![r][g] = [@ EXCEPT !.at = "copy", !.n = Len(batch[r])]]
    /\ UNCHANGED <<added, cursor, store, life, starts, lastID, saving, batch, reader, history>>

\* The length is read and docs is made.
FlushBegin(r, g) ==
    /\ CallsFlush(r, g) /\ flush[r][g].at = "idle"
    /\ batch[r] # << >>
    /\ flush' = [flush EXCEPT ![r][g] = [@ EXCEPT !.at = "copy", !.n = Len(batch[r])]]
    /\ UNCHANGED <<added, cursor, store, life, starts, lastID, saving, batch, reader, history>>

\* batch is read again and copied into docs.
FlushCopy(r, g) ==
    /\ flush[r][g].at = "copy"
    /\ Len(batch[r]) <= flush[r][g].n
    /\ flush' = [flush EXCEPT ![r][g] = [@ EXCEPT !.at = "insert", !.docs = batch[r]]]
    /\ UNCHANGED <<added, cursor, store, life, starts, lastID, saving, batch, reader, history>>

\* batch has grown since docs was made: docs[i] is out of range, and the panic
\* ends the process.
FlushPanic(r, g) ==
    /\ flush[r][g].at = "copy"
    /\ Len(batch[r]) > flush[r][g].n
    /\ Down(r)
    /\ UNCHANGED <<added, cursor, store, starts, history>>

\* The first documents of a flush that the collection does not have yet:
\* InsertMany inserts in order and stops at the first duplicate _id.
Fresh(docs) == {j \in 0..Len(docs) : \A i \in 1..j : docs[i] \notin store}
FirstDocs(docs, j) == {docs[i] : i \in 1..j}

InsertSucceeds(r, g) ==
    LET f == flush[r][g]
    IN  /\ f.at = "insert"
        /\ Len(f.docs) = f.n /\ f.n \in Fresh(f.docs)
        /\ store' = store \cup FirstDocs(f.docs, f.n)
        /\ flush' = [flush EXCEPT ![r][g].at = "clear"]
        /\ UNCHANGED <<added, cursor, life, starts, lastID, saving, batch, reader, history>>

\* How many documents a failing InsertMany has inserted: none when docs has a
\* nil left at its end or the call does not get through, those before the
\* first duplicate, any number when the connection fails partway.
InsertedOnError(f) ==
    (IF Len(f.docs) < f.n \/ "before" \in Failures THEN {0} ELSE {})
    \cup {j \in Fresh(f.docs) :
              /\ Len(f.docs) = f.n
              /\ \/ "partway" \in Failures
                 \/ j < f.n /\ f.docs[j + 1] \in store}

\* The error is logged and the batch kept for the next flush.
InsertFails(r, g) ==
    /\ flush[r][g].at = "insert"
    /\ \E j \in InsertedOnError(flush[r][g]) :
           store' = store \cup FirstDocs(flush[r][g].docs, j)
    /\ Return(r, g)
    /\ UNCHANGED <<added, cursor, starts, lastID, saving, batch, history>>

\* A new batch is made, whatever c.batch holds by now.
FlushClear(r, g) ==
    /\ flush[r][g].at = "clear"
    /\ batch' = [batch EXCEPT ![r] = << >>]
    /\ dropped' = dropped \cup LeftOut(batch[r], flush[r][g].docs)
    /\ Return(r, g)
    /\ UNCHANGED <<added, cursor, store, starts, lastID, saving, taken, unsaved, unseen>>

-----------------------------------------------------------------------------
Read(r) ==
    \/ XRead(r) \/ XReadReturn(r) \/ Take(r) \/ SaveTaken(r) \/ LoadBatch(r) \/ StoreBatch(r)

Flush(r, g) ==
    \/ FlushEmpty(r, g) \/ FlushBegin(r, g) \/ FlushCopy(r, g) \/ FlushPanic(r, g)
    \/ InsertSucceeds(r, g) \/ InsertFails(r, g) \/ FlushClear(r, g)

\* The bounds are used up.
Rest ==
    /\ added = MaxLogs
    /\ \A r \in Replicas : life[r] = "down" /\ starts[r] = MaxStarts
    /\ UNCHANGED vars

Next ==
    \/ AddLog
    \/ \E r \in Replicas :
           \/ Start(r) \/ Crash(r) \/ Stop(r) \/ ReadLastID(r) \/ SaveCursor(r) \/ Cancel(r)
           \/ Read(r) \/ XReadNothing(r)
           \/ \E g \in Goroutines : Flush(r, g)
    \/ Rest

Spec == Init /\ [][Next]_vars

\* The goroutines of a running replica run, the ticker keeps ticking, and
\* MongoDB does not fail for ever.
FairSpec ==
    /\ Spec
    /\ \A r \in Replicas :
           /\ WF_vars(XRead(r)) /\ WF_vars(XReadReturn(r))
           /\ WF_vars(Take(r)) /\ WF_vars(SaveTaken(r))
           /\ WF_vars(LoadBatch(r)) /\ WF_vars(StoreBatch(r))
           /\ \A g \in Goroutines :
                  /\ WF_vars(FlushBegin(r, g))
                  /\ WF_vars(FlushEmpty(r, g) \/ FlushCopy(r, g) \/ FlushPanic(r, g))
                  /\ SF_vars(InsertSucceeds(r, g))
                  /\ WF_vars(InsertFails(r, g)) /\ WF_vars(FlushClear(r, g))

-----------------------------------------------------------------------------
(* Properties. *)

\* A log is stored a second time only when its id had not been saved, because
\* its SET failed or its text is not one to save, or when Stop had overwritten
\* it with an older one: the cursor is set before the entry is batched, and no
\* crash, failed insert or overlapping flush stores a log twice by itself.
AtMostOnce == \A d, e \in store : d.log = e.log /\ d # e => d.log \in unsaved

\* The cursor of a single replica goes back to an earlier entry only where
\* Stop sets it, to the id it read before the reader took more.
OnlyStopMovesBack ==
    [][cursor' < cursor =>
          \E r \in Replicas : life[r] = "set" /\ cursor' = saving[r] /\ life'[r] = "cancel"]_vars

\* The cursor passes over an entry that nobody has taken only when a replica
\* that found no cursor, or could not read it, began at "$" after the entry
\* had been added: no other restart and no failing call skips a log.
CursorSkipsNothing ==
    [][\A id \in (cursor + 1)..(cursor' - 1) :
          id \in unseen \/ \E d \in taken : d.log = id]_vars

\* A document of the batch is in the collection, so that no InsertMany of the
\* batch gets past it.
Stuck(r) == \E i \in 1..Len(batch[r]) : batch[r][i] \in store

\* A log that a replica has taken is stored in the end, by the full batch, the
\* ticker or a later flush, as long as the process does not panic, but for
\* two ways to lose it: an assignment to c.batch that a flush or an append
\* overlapped, and a batch that holds for ever a document already stored.
TakenIsStored ==
    \A r \in Replicas : \A id \in 1..MaxLogs :
        (\E d \in taken : d.log = id /\ d.by = r)
            ~> \/ (\E d \in store : d.log = id) \/ id \in dropped
               \/ life[r] = "down" \/ []Stuck(r)

=============================================================================
