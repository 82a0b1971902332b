\* One replica that keeps running; its goroutines overlap, inserts fail before or partway.
CONSTANTS
  r1 = r1
  Replicas <- OneReplica
  MaxLogs = 5
  MaxStarts = 1
  ReadCount = 2
  BatchSize = 2
  Saving <- EveryId
  Ends <- NeverEnds
  Failures <- AnyInsert
SPECIFICATION FairSpec
PROPERTIES
  TakenIsStored
