CONSTANTS
  Peers = {p1, p2}
  Nobody = Nobody
  Slots = {}
  MaxTerm = 0
  MaxKills = 0
  MinPatience = 0
  RequiredEnforced = FALSE
  TermMod = 16
  IntMod = 8
  Clients = {c1, c2}
  MaxOps = 2
SPECIFICATION ClientFairSpec
CHECK_DEADLOCK FALSE
INVARIANTS ClaimsAgree LogLockHeld
PROPERTY OpReturns
