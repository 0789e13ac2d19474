SPECIFICATION Spec
CONSTANTS
  Policies = {p1, p2}
  Good = {good}
  Pairs = {pair}
  Broken = {}
  Sessions = {s1}
  NoText = NoText
  MaxRevision = 3
INVARIANTS ServedAsCommitted SavedSnapshotsRestore
PROPERTY TickerCatchesUp
