SPECIFICATION ReadsSpec
CONSTANTS
  User = {u1}
  Time = {1, 2}
  Rate <- Rates
  EventsLimit = 3
  InboxLimit = 2
  MineLimit = 2
  LiveLimit = 2
  ReadLimit = 3
  MaxEvents = 3
  None = None
INVARIANTS   LiveFollowsRecord 
