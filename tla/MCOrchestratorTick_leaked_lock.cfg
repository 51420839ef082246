SPECIFICATION Spec
CONSTANTS
  e1 = e1
  e2 = e2
  i1 = i1
  c1 = c1
  Runs = {e1, e2}
  Coverages = {c1}
  CovOf <- MCOneCoverage
  TypeOf <- MCTypeOf
  Prices = {100, 150}
  NoPrice = NoPrice
  TpChangePct = 10
  Lingering = {}
  Cancellable = {e1}
  FirstCov = {"proposed", "failed"}
  MaxCrashes = 1
  NoRun = NoRun
CHECK_DEADLOCK FALSE
INVARIANT EndedRunFreesTicker
