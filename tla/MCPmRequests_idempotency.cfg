SPECIFICATION FairSpec
CONSTANTS
  Requests = {q1, q2, q3}
  Keys = {k1, k2}
  Bodies = {b1, b2}
  Ops = {"demote"}
  Coverages = {c1, c2}
  NoRequest = NoRequest
INVARIANTS
  TypeOK
  OneEffectPerKey
  ReplaysAreEarned
PROPERTIES
  RequestsAreAnswered
