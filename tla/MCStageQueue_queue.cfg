SPECIFICATION FairSpec
CONSTANTS
  author = author
  verifier = verifier
  r1 = r1
  w1 = w1
  w2 = w2
  NoStage = NoStage
  NoWorker = NoWorker
  Runs = {r1}
  Stages <- MCChain
  Workers = {w1, w2}
  RunOf <- MCRunOf
  DependsOn <- MCDependsOn
  Rank <- MCRank
  CanRun <- MCCanRunDedicated
  GatedRuns = {r1}
  MaxAttempts = 2
  Costs = {1}
  BudgetCap = 1
CHECK_DEADLOCK FALSE
INVARIANTS
  TypeOK
  AttemptsBounded
  AttemptRowsAgree
  DependencyDelivered
  SucceededRunIsComplete
PROPERTIES
  ChargesBalance
  ReopenedOnlyByOverlap
  HangsOnlyIfAbandoned
