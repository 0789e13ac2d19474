SPECIFICATION AdminSpec
CONSTANTS
  Policies = {p1}
  Good = {good1, good2}
  Pairs = {pair}
  Broken = {broken}
  Sessions = {s1}
  NoText = NoText
  MaxRevision = 3
INVARIANT ActivatesWhatItCompiled
CHECK_DEADLOCK FALSE
