\* Two events of one link, every fault but the two of the known divergences.
SPECIFICATION Spec
CONSTANTS
  e1 = e1
  e2 = e2
  l1 = l1
  Event = {e1, e2}
  Link = {l1}
  LinkOf <- OneLink
  Counting = {e1, e2}
  Undecodable = {}
  MaxRetries = 2
  MaxCrashes = 1
  Faults <- TolerableFaults
  NoMsg = NoMsg
INVARIANTS
  TypeOK
  CountersMatchEvents
  AcceptedClicksKept
  RefusedClicksStayUncounted
PROPERTIES
  ImplementsLedger
CHECK_DEADLOCK FALSE
