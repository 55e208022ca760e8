\* A late retry confirmation is read as that of the next retry.
SPECIFICATION Spec
CONSTANTS
  e1 = e1
  e2 = e2
  l1 = l1
  Event = {e1, e2}
  Link = {l1}
  LinkOf <- OneLink
  Counting = {e1, e2}
  Undecodable = {}
  MaxRetries = 2
  MaxCrashes = 0
  Faults = {"db_error", "nack", "confirm_timeout"}
  NoMsg = NoMsg
INVARIANTS
  AcceptedClicksKept
CHECK_DEADLOCK FALSE
