\* One replica that stops, crashes and is started again; calls may fail.
CONSTANTS
  r1 = r1
  Replicas <- OneReplica
  MaxLogs = 3
  MaxStarts = 3
  ReadCount = 2
  BatchSize = 2
  Saving <- NotTheSecond
  Ends <- AnyEnd
  Failures <- AnyCall
SPECIFICATION Spec
INVARIANTS
  TypeOK
  AtMostOnce
PROPERTIES
  CursorSkipsNothing
