\* A link deleted while one of its domains is inactive.
SPECIFICATION Spec
CONSTANTS
  r1 = r1
  r2 = r2
  Request = {r1, r2}
  Base = Base
  Alias = {alias}
  Gated = {}
  MaxEdits = 1
  Faults = {}
  Nothing = Nothing

INVARIANTS
  AliasesInvalidated
