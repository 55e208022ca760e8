\* Every fault, two overlapping requests: the cache catches up once the edits are over.
SPECIFICATION FairSpec
CONSTANTS
  r1 = r1
  r2 = r2
  Request = {r1, r2}
  Base = Base
  Alias = {alias}
  Gated = {1}
  MaxEdits = 2
  Faults <- FaultKinds
  Nothing = Nothing

INVARIANTS
  GatedNeverStored
PROPERTIES
  CacheConverges
