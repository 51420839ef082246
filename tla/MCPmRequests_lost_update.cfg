SPECIFICATION FairSpec
CONSTANTS
  Requests = {q1, q2, q3}
  Keys = {k1, k2, k3}
  Bodies = {b1}
  Ops = {"demote", "exit"}
  Coverages = {c1}
  NoRequest = NoRequest
PROPERTIES
  LegalMovesOnly
