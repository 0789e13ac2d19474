SPECIFICATION Spec
CONSTANTS
  Writers = {w1}
  Replicas = {p1}
  Transactions = {x1}
  Approved = {}
  FirstRevision = 2
  FirstPermits = {1, 2}
  MaxRevision = 2
  MaxFaults = 0
CHECK_DEADLOCK FALSE
INVARIANT StaleRevisionsFailClosed
