------------------------ MODULE NotificationChannel ------------------------
(***************************************************************************)
(* What the WebSocket hub of the Go service promises to the connections it *)
(* holds: from joining to leaving, every notification of its user, once    *)
(* and in the order of the log, and perhaps some of those for all admins.  *)
(* A connection may be dropped at any time, and never gets anything after. *)
(* WebSocketHub implements this, Inbox relies on it.                       *)
(***************************************************************************)
EXTENDS Naturals, Sequences

CONSTANTS
    Clients,  \* connections
    UserOf,   \* whose connection it is
    Admins,   \* the connections of admins
    Notes     \* the notifications there may be, with fields user and role

VARIABLES
    log,      \* the notifications accepted so far
    got,      \* what each connection has been given since it joined
    status    \* whether a connection is away, has joined or has left

Init ==
    /\ log = << >>
    /\ got = [c \in Clients |-> << >>]
    /\ status = [c \in Clients |-> "away"]

Joined == {c \in Clients : status[c] = "joined"}

Join(c) ==
    /\ c \notin Joined
    /\ status' = [status EXCEPT ![c] = "joined"]
    /\ got' = [got EXCEPT ![c] = << >>]
    /\ UNCHANGED log

Leave(c) ==
    /\ c \in Joined
    /\ status' = [status EXCEPT ![c] = "left"]
    /\ UNCHANGED <<log, got>>

\* A notification is accepted: every connection of its user is given it or
\* dropped.
Accept(note, dropped) ==
    LET own == {c \in Joined : UserOf[c] = note.user}
    IN  /\ dropped \subseteq own
        /\ log' = Append(log, note)
        /\ got' = [c \in Clients |-> IF c \in own \ dropped THEN Append(got[c], note)
                                     ELSE got[c]]
        /\ status' = [c \in Clients |-> IF c \in dropped THEN "left" ELSE status[c]]

\* A connection of an admin is given the last notification, which is for all
\* admins, unless it has it.
Forward(c) ==
    /\ c \in Joined \cap Admins
    /\ log # << >>
    /\ LET note == log[Len(log)]
       IN  /\ note.role = "ADMIN"
           /\ got[c] # << >> => got[c][Len(got[c])] # note
           /\ got' = [got EXCEPT ![c] = Append(@, note)]
    /\ UNCHANGED <<log, status>>

Next ==
    \/ \E c \in Clients : Join(c) \/ Leave(c) \/ Forward(c)
    \/ \E note \in Notes, dropped \in SUBSET Clients : Accept(note, dropped)

Spec == Init /\ [][Next]_<<log, got, status>>
=============================================================================
