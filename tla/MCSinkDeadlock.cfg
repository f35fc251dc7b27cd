CONSTANTS
  Users = {u1, u2}
  Owner = u1
  Worker = w
  Nobody = Nobody
  MaxLogs = 3
  SharedReads = TRUE
  WritersFirst = TRUE
SPECIFICATION Spec
CHECK_DEADLOCK FALSE
INVARIANT NeverStuck
