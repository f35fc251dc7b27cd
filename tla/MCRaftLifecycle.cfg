CONSTANTS
  Peers = {p1, p2}
  Nobody = Nobody
  Slots = {s1}
  MaxTerm = 2
  MaxKills = 1
  MinPatience = 1
  RequiredEnforced = FALSE
  TermMod = 16
  IntMod = 8
SPECIFICATION FairSpec
CHECK_DEADLOCK FALSE
INVARIANTS IInv StubForEveryCall
PROPERTIES DeadIsFinal KillReturns ImplementsElection
