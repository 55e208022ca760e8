\* Limits: three redirects of a link, a worker, an editor, two edits, deletions or failures.
\* Cache: three overlapping requests, two edits, a deletion, one alias; Redis and loads may fail.
SPECIFICATION RedirectsSpec
CONSTANTS
  v1 = v1
  v2 = v2
  v3 = v3
  w1 = w1
  ed = ed
  Nil = Nil
  Visit = {v1, v2, v3}
  Worker = {w1}
  Editor = {ed}
  Limits = {1, 2}
  BatchSize = 2
  MaxChanges = 2
  Request = {v1, v2, v3}
  Base = Base
  Alias = {alias}
  Gated = {}
  MaxEdits = 2
  Faults <- FillFaults
  Nothing = Nothing
SYMMETRY Interchangeable
INVARIANTS
  LimitTypeOK
  OverrunIsBounded
  RefusedOnlyWhenSpent
  BooksMatchAnswers
  TypeOK
  StaleOnlyWhilePending
CHECK_DEADLOCK FALSE
