CONSTANTS
  Users = {u1, u2, u3}
  Owner = u1
  Worker = w
  Nobody = Nobody
  MaxLogs = 3
  SharedReads = TRUE
  WritersFirst = FALSE
SPECIFICATION FairSpec
CHECK_DEADLOCK FALSE
INVARIANTS TypeOK FirstFatalKept SinkDrained NobodyStuck
PROPERTIES NobodyInRemovedSink LogReturns
