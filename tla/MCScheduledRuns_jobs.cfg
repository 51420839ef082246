SPECIFICATION Spec
CONSTANTS
  p1 = p1
  p2 = p2
  k1 = k1
  k2 = k2
  k3 = k3
  c1 = c1
  c2 = c2
  Houses = {1, 2, 3}
  MetaHouses = {3}
  MonitorHouse = 1
  NoHouse = NoHouse
  Procs = {p1, p2}
  Pool <- MCPool
  Jobs = {"quarterly_sweep", "watch_tick", "distillation"}
  Coverages = {c1, c2}
  Desk = {c1}
  Explicit <- MCExplicit
  FirstState <- MCFirstState
  FirstLead <- MCFirstLead
  PmTypes = {"initiation", "deep_review"}
  IncludeDataChecker = TRUE
  VerifyCounts <- MCVerifyCounts
  LastPeriod = 2
  StalePeriods = 1
  NoConn = NoConn
SYMMETRY ConnSymmetry
CHECK_DEADLOCK FALSE
INVARIANTS
  PlansAreSound
  TypeOK
  OneRunPerPeriod
  OneSweepAtATime
  SuccessMeansWork
