SPECIFICATION DaySpec
CONSTANTS
  Staff = {w1}
  Machine = {m1}
  DayTicks = 4
  Late = 2
  ShortTrip = 3
  Walk = {1}
  Operate = 2
  Rest = 1
  Capacity = 2
  MaxDay = 2
  MaxLife = 2
INVARIANTS DayAddsUp ReportedOnce BoostedOnce
