SPECIFICATION FairSpec
CONSTANTS
  Trucks = {t1, t2}
  Tasks = {w1, w2}
  Pass = pass
  NoTruck = none
  MaxPings = 3
  MaxPerTruck = 2
  MaxExpired = 1
  MaxFailures = 1
INVARIANTS PositionsInv PositionNeverLags PassFindsNoOrphan OnlyExpiredAreLost
PROPERTY PingsArrive
CHECK_DEADLOCK FALSE
