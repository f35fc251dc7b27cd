CONSTANTS
  Calls = 3
  Prompt = {1, 3}
  Deadline = 2
  Nap = 1
  MinPatience = 10
  RequiredEnforced = FALSE
  TermMod = 16
  IntMod = 8
SPECIFICATION Spec
CHECK_DEADLOCK FALSE
INVARIANTS TypeOK VotersWait LeaderKept
