SPECIFICATION FairSpec
CONSTANTS
  a1 = a1
  a2 = a2
  e1 = e1
  e2 = e2
  e3 = e3
  Agent = {a1}
  Event = {e1, e2, e3}
  SourceOf <- OneAgentSource
  Request = {r1, r2}
  BatchLimit = 2
  DrainLimit = 1
  MaxClaims = 2
  Malformed = {e1}
  Unrecordable = {}
  ReplyFirst = FALSE
INVARIANTS OneDeviceLosesNothing
PROPERTIES EventuallyRecorded
