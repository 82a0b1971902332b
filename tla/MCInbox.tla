------------------------------- MODULE MCInbox -------------------------------
(* Instances of Inbox for TLC. *)
EXTENDS Inbox, TLC

CONSTANTS b1, n1, n2

OneBell  == {b1}
TwoPosts == {n1, n2}
ToAdmins == {n2}
=============================================================================
