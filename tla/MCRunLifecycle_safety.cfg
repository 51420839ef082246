SPECIFICATION Spec
CONSTANTS
  Coverages = {c1}
  RunIds = {r1, r2}
  GateIds = {g1, g2}
  Houses = {h1}
  Types = {"initiation", "deep_review", "monitor_tick"}
  Answers = {"reject"}
  NoRun = NoRun
  NoHouse = NoHouse
  Absent = Absent
CHECK_DEADLOCK FALSE
INVARIANTS
  TypeOK
  OneMutatingRun
  LockNotLeaked
  GatesFitRuns
  LiveOnlyByDecision
