------------------------------ MODULE LogTerminal ------------------------------
(***************************************************************************)
(* The admin's live terminal of order logs: the SSE stream of the NestJS   *)
(* service (order-logs.gateway.ts), which polls the Go service for the     *)
(* newest logs, and the page that shows them (admin/order-logs/page.tsx).  *)
(* Logs are numbered in the order of their timestamps.                     *)
(***************************************************************************)
EXTENDS Integers, Sequences, FiniteSets, SequencesExt

CONSTANTS
    MaxLogs,       \* bound: logs that are ever stored
    MaxSources,    \* bound: connections the page opens
    InitialLimit,  \* logs sent when a stream begins
    Slice,         \* logs sent after each poll
    MaxShown,      \* logs the page keeps
    MaxBacklog     \* bound: events on the wire beside which the stream still polls

ASSUME TerminalAssumption ==
    /\ MaxLogs \in Nat /\ MaxSources \in Nat \ {0} /\ Slice \in Nat \ {0}
    /\ InitialLimit \in 0 .. MaxLogs /\ Slice <= InitialLimit /\ InitialLimit < MaxShown
    /\ MaxBacklog \in Nat /\ MaxShown \in Nat

Sources == 1 .. MaxSources

VARIABLES
    stored,     \* number of logs in the collection
    \* the page
    autoRefresh, connected, shown, resumeTimer,
    source,     \* the EventSource it made last
    sourceOpen, \* whether that one is not closed
    \* the gateway, for every connection
    handler,    \* "none", "fetching", "streaming", "failed"
    interval,   \* whether setInterval runs
    gone,       \* whether the server knows that the client has left
    \* the stream of the last source; what is on its way to a closed one is lost
    polls,      \* what the polls under way have read: the newest log at that time
    wire,       \* what was written and not received
    \* history: the newest log sent; an answer did not reach back to the newest one sent before
    newest, burst

page_vars == <<autoRefresh, connected, shown, resumeTimer, source, sourceOpen>>
gateway_vars == <<handler, interval, gone>>
stream_vars == <<polls, wire, newest, burst>>
terminal_vars == <<stored, page_vars, gateway_vars, stream_vars>>

\* What goes over the wire besides logs.
Opened == 0
ErrorEvent == -1

TerminalTypeOK ==
    /\ stored \in 0 .. MaxLogs
    /\ {autoRefresh, connected, resumeTimer, sourceOpen, burst} \subseteq BOOLEAN
    /\ shown \in Seq(1 .. MaxLogs) /\ Len(shown) <= MaxShown
    /\ source \in Sources
    /\ handler \in [Sources -> {"none", "fetching", "streaming", "failed"}]
    /\ {interval, gone} \subseteq [Sources -> BOOLEAN]
    /\ polls \subseteq 0 .. MaxLogs /\ wire \in Seq(-1 .. MaxLogs) /\ newest \in 0 .. MaxLogs

\* The page has just opened its first EventSource.
TerminalInit ==
    /\ stored = InitialLimit
    /\ autoRefresh = TRUE /\ connected = FALSE /\ shown = <<>> /\ resumeTimer = FALSE
    /\ source = 1 /\ sourceOpen = TRUE
    /\ handler = [c \in Sources |-> "none"] /\ interval = [c \in Sources |-> FALSE]
    /\ gone = [c \in Sources |-> FALSE]
    /\ polls = {} /\ wire = <<>> /\ newest = 0 /\ burst = FALSE

----------------------------------------------------------------------------
(* The services.                                                           *)

StoreLog ==
    /\ stored < MaxLogs /\ stored' = stored + 1
    /\ UNCHANGED <<page_vars, gateway_vars, stream_vars>>

\* GetRecentLogs: the newest ones, newest first.
RecentLogs(upTo, limit) ==
    [i \in 1 .. (IF upTo < limit THEN upTo ELSE limit) |-> upTo + 1 - i]

Heard(c) == c = source /\ sourceOpen
WriteEvents(c, events) == wire' = IF Heard(c) THEN wire \o events ELSE wire

\* The headers are flushed; the event "connected" changes nothing at the page.
StreamOrderLogs(c) ==
    /\ handler[c] = "none" /\ c <= source /\ ~gone[c]
    /\ handler' = [handler EXCEPT ![c] = "fetching"]
    /\ WriteEvents(c, <<Opened>>)
    /\ UNCHANGED <<stored, page_vars, interval, gone, polls, newest, burst>>

\* The first logs, and the interval.  The close handler is attached only now: it never hears of
\* a client that is gone already.
InitialLogs(c) ==
    /\ handler[c] = "fetching"
    /\ handler' = [handler EXCEPT ![c] = "streaming"]
    /\ interval' = [interval EXCEPT ![c] = TRUE]
    /\ LET logs == RecentLogs(stored, InitialLimit)
           held == ToSet(shown) \cup ToSet(logs)
       IN  /\ WriteEvents(c, logs)
           /\ IF Heard(c) THEN /\ newest' = stored
                               /\ burst' = \E n \in held : ~(n .. stored \subseteq held)
                          ELSE UNCHANGED <<newest, burst>>
    /\ UNCHANGED <<stored, page_vars, gone, polls>>

\* The client gets an event that is named like its connection's errors, and nothing after it.
InitialLogsFail(c) ==
    /\ handler[c] = "fetching"
    /\ handler' = [handler EXCEPT ![c] = "failed"]
    /\ WriteEvents(c, <<ErrorEvent>>)
    /\ UNCHANGED <<stored, page_vars, interval, gone, polls, newest, burst>>

\* The interval does not wait for the poll before; for a closed source it polls in vain.
Poll ==
    /\ interval[source] /\ sourceOpen /\ Len(wire) + Cardinality(polls) <= MaxBacklog
    /\ polls' = polls \cup {stored}
    /\ UNCHANGED <<stored, page_vars, gateway_vars, wire, newest, burst>>

PollAnswers ==
    /\ \E s \in polls :
          /\ polls' = polls \ {s}
          /\ wire' = wire \o RecentLogs(s, Slice)
          /\ newest' = IF s > newest THEN s ELSE newest
          /\ burst' = (burst \/ s > newest + Slice)
    /\ UNCHANGED <<stored, page_vars, gateway_vars>>

PollFails ==
    /\ \E s \in polls : polls' = polls \ {s}
    /\ UNCHANGED <<stored, page_vars, gateway_vars, wire, newest, burst>>

\* The connection of a closed EventSource ends.
NoticeClose(c) ==
    /\ c <= source /\ ~Heard(c) /\ ~gone[c]
    /\ gone' = [gone EXCEPT ![c] = TRUE]
    /\ interval' = [interval EXCEPT ![c] = FALSE]
    /\ UNCHANGED <<stored, page_vars, handler, stream_vars>>

----------------------------------------------------------------------------
(* The page.                                                               *)

CloseSource ==
    /\ sourceOpen' = FALSE
    /\ polls' = {} /\ wire' = <<>> /\ newest' = 0
    /\ UNCHANGED <<stored, source, gateway_vars, burst>>

\* The effect makes a new EventSource when autoRefresh becomes true.
Connect ==
    /\ autoRefresh' = TRUE
    /\ IF autoRefresh THEN UNCHANGED <<source, sourceOpen>>
       ELSE source < MaxSources /\ source' = source + 1 /\ sourceOpen' = TRUE
    /\ UNCHANGED <<stored, connected, shown, gateway_vars, stream_vars>>

\* Mutant: nothing is taken away at the bottom.
WithEveryLog(logs, n) == IF Contains(logs, n) THEN logs ELSE <<n>> \o logs

\* Mutant: only what is newer than the top is taken.
WithNewerLog(logs, n) ==
    IF logs # <<>> /\ n <= Head(logs) THEN logs
    ELSE SubSeq(<<n>> \o logs, 1, IF Len(logs) < MaxShown THEN Len(logs) + 1 ELSE MaxShown)

\* Logs that are shown already are ignored; the newest arrival stands on top.
WithLog(logs, n) ==
    IF Contains(logs, n) THEN logs
    ELSE SubSeq(<<n>> \o logs, 1, IF Len(logs) < MaxShown THEN Len(logs) + 1 ELSE MaxShown)

Receive ==
    /\ sourceOpen /\ wire # <<>> /\ Head(wire) # ErrorEvent
    /\ IF Head(wire) = Opened THEN connected' = TRUE /\ UNCHANGED shown
                              ELSE shown' = WithLog(shown, Head(wire)) /\ UNCHANGED connected
    /\ wire' = Tail(wire)
    /\ UNCHANGED <<stored, autoRefresh, resumeTimer, source, sourceOpen, gateway_vars,
                   polls, newest, burst>>

\* The stream says so, or the connection breaks: the source is closed and not made anew; the
\* timer of three seconds only writes to the console.
OnError ==
    /\ sourceOpen /\ CloseSource
    /\ connected' = FALSE
    /\ UNCHANGED <<autoRefresh, shown, resumeTimer>>

\* "Pause": the effect closes the source; what the badge says stays.
Pause ==
    /\ autoRefresh /\ autoRefresh' = FALSE
    /\ CloseSource
    /\ UNCHANGED <<connected, shown, resumeTimer>>

\* "Resume", and the timer of a tenth of a second behind "Reconnect".
Resume == ~autoRefresh /\ Connect /\ UNCHANGED resumeTimer
ResumeAfterReconnect == resumeTimer /\ Connect /\ resumeTimer' = FALSE

Reconnect ==
    /\ ~resumeTimer /\ resumeTimer' = TRUE
    /\ autoRefresh' = FALSE /\ CloseSource
    /\ UNCHANGED <<connected, shown>>

TerminalNext ==
    \/ StoreLog \/ Poll \/ PollAnswers \/ PollFails
    \/ Receive \/ OnError \/ Pause \/ Resume \/ Reconnect \/ ResumeAfterReconnect
    \/ \E c \in Sources :
          StreamOrderLogs(c) \/ InitialLogs(c) \/ InitialLogsFail(c) \/ NoticeClose(c)

TerminalSpec == TerminalInit /\ [][TerminalNext]_terminal_vars

----------------------------------------------------------------------------
\* A terminal that is not paused says "Live" only while its source is open: after an error, a
\* pause, a reconnection or any overlap of them it does not pretend.
LiveMeansOpen == autoRefresh /\ connected => sourceOpen

\* From the oldest log the terminal shows to the newest the stream has sent every one is there:
\* polls may overlap, answer in any order or fail, and the page may reconnect, as long as the
\* first logs of a connection and every answer of a poll reach back to what was sent before.  They
\* do not when more logs than Slice have come since the last poll that was answered, be it that
\* polls failed or were late or that logs came fast (burst); then there is a gap that nothing
\* closes.  Nothing is said either of a full terminal, from which an older log that arrives late
\* takes away another one.
NoGapInTheTerminal ==
    sourceOpen /\ handler[source] = "streaming" /\ wire = <<>> /\ ~burst
       /\ Len(shown) < MaxShown =>
           \A n \in ToSet(shown) : n .. newest \subseteq ToSet(shown)

\* What the terminal says of itself and of the logs is true.
TerminalIsFaithful == LiveMeansOpen /\ NoGapInTheTerminal

================================================================================
