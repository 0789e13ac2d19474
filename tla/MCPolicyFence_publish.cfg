SPECIFICATION FairSpec
CONSTANTS
  Writers = {w1, w2}
  Replicas = {p1}
  Transactions = {x1}
  Approved = {x1}
  FirstRevision = 2
  FirstPermits = {1, 2}
  MaxRevision = 3
  MaxFaults = 1
INVARIANTS ReadyRowIsCurrent
           CommitsUnderCurrentPolicy CommitsUnrevoked CommitsUnderLocalAuthority
PROPERTIES FenceReopens
