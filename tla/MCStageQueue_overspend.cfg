SPECIFICATION Spec
CONSTANTS
  author = author
  verifier = verifier
  r1 = r1
  w1 = w1
  w2 = w2
  NoStage = NoStage
  NoWorker = NoWorker
  Runs = {r1}
  Stages <- MCChain
  Workers = {w1, w2}
  RunOf <- MCRunOf
  DependsOn <- MCDependsOn
  Rank <- MCRank
  CanRun <- MCCanRun
  GatedRuns = {}
  MaxAttempts = 2
  Costs = {0, 1}
  BudgetCap = 1
CHECK_DEADLOCK FALSE
PROPERTIES
  NoSilentOverspend
