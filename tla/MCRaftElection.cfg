CONSTANTS
  Peers = {p1, p2, p3}
  Nobody = Nobody
  Slots = {}
  MaxTerm = 1
  MaxKills = 0
  MinPatience = 0
  RequiredEnforced = FALSE
  TermMod = 16
  IntMod = 8
SPECIFICATION Spec
CHECK_DEADLOCK FALSE
SYMMETRY Symmetry
INVARIANTS TypeOK VoteBinds TwoLeadersNeedExpulsion OnlyExLeadersExpelThemselves
PROPERTY OnlyRefusedLeadersGoBack
