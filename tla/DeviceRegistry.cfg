SPECIFICATION FairSpec
CONSTANTS
  Device = {d1, d2}
  Code = {c1}
  Request = {r1, r2}
  Config = {k1, k2}
  NoConfig = NoConfig
  MaxToken = 3
  MaxAdmin = 4
  None = None
CHECK_DEADLOCK FALSE
INVARIANTS OneDevicePerCode LastDecisionHolds EndedTokensAreDead
PROPERTIES ConfigConverges
