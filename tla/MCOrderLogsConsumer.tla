------------------------ MODULE MCOrderLogsConsumer ------------------------
(* Instances of OrderLogsConsumer for TLC. *)
EXTENDS OrderLogsConsumer, TLC

CONSTANT r1

OneReplica == {r1}

\* The sequence number of an id is 0 unless two entries come in a millisecond:
\* the second entry is such a one.
EveryId == 1..MaxLogs
NotTheSecond == EveryId \ {2}

NeverEnds == {}
AnyEnd    == {"stop", "crash"}

AnyInsert == {"before", "partway"}
AnyCall   == {"cursor", "set", "read"} \cup AnyInsert
=============================================================================
