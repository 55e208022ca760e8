\* Escape closes a dialog after an earlier one was confirmed.
SPECIFICATION ChangesSpec
CONSTANTS
  c1 = c1
  c2 = c2
  i1 = i1
  Nil = Nil
  Id = {i1}
  Call = {c1, c2}
  MaxOps = 3
  ChangeFaults = {}
INVARIANTS
  NothingUnconfirmed
CHECK_DEADLOCK FALSE
