SPECIFICATION FairSpec
CONSTANTS
  Replicas = {r1, r2}
  Revokers = {r1}
  Checkers = {r2}
  Grants = {g1}
  TTL = 1
  Skew = 0
  MaxTime = 2
  MaxRevokes = 1
  MaxFaults = 1
INVARIANTS RevokedStaysDenied NoLostRevocation
PROPERTIES RevocationsOnlyGrow RevocationReachesReplicas ReplicasRecover
