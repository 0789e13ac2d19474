SPECIFICATION Spec
CONSTANTS
  Sessions = {s1, s2}
  GrantUntil = 2
  TTL = 1
  CoreAllows = {TRUE, FALSE}
  MaxTime = 2
  MaxVersion = 3
SYMMETRY Symmetry
INVARIANTS
  OneEffect
  EffectMatchesIntent
  LedgerAgrees
PROPERTIES
  EffectsUnderAuthority
  ApprovalMovesForward
