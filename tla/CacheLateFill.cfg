\* A visit stores what it read before an edit, after the edit was invalidated.
SPECIFICATION Spec
CONSTANTS
  r1 = r1
  r2 = r2
  Request = {r1, r2}
  Base = Base
  Alias = {alias}
  Gated = {}
  MaxEdits = 1
  Faults = {}
  Nothing = Nothing

INVARIANTS
  NoStaleAfterInvalidation
