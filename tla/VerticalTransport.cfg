SPECIFICATION FairSpec
CONSTANTS
  w1 = w1
  w2 = w2
  w3 = w3
  e = e
  s = s
  Crew <- ThreeWorkers
  Shafts <- OneLift
  Stair = {s}
  Top = 4
  Height <- Heights
  Serves <- Hybrid
  Seats <- TwoSeats
  Home = {2}
  Goal = {1, 4}
  Dt = {2, 3}
  Dwell = 1
  Climb = 2
  None = None
INVARIANTS EachRiderOnce WantedCabMoves
PROPERTIES TravellersArrive
