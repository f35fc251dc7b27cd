CONSTANTS
  Peers = {p1, p2, p3}
  Nobody = Nobody
  Slots = {}
  MaxTerm = 0
  MaxKills = 0
  MinPatience = 0
  RequiredEnforced = TRUE
  TermMod = 16
  IntMod = 8
SPECIFICATION FairSpec
CHECK_DEADLOCK FALSE
PROPERTY CampaignEnds
