CONSTANTS
  Peers = {p1, p2}
  Nobody = Nobody
  Slots = {}
  MaxTerm = 0
  MaxKills = 0
  MinPatience = 1
  RequiredEnforced = FALSE
  TermMod = 16
  IntMod = 8
SPECIFICATION Spec
CHECK_DEADLOCK FALSE
INVARIANT OnlyStaleLeadersRejected
