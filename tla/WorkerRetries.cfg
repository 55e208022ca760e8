\* Late retry confirmations of two events in one batch; the loop with two processes.
SPECIFICATION WorkerSpec
CONSTANTS
  e1 = e1
  e2 = e2
  l1 = l1
  Event = {e1, e2}
  Link = {l1}
  LinkOf <- OneLink
  Counting = {e1}
  Undecodable = {}
  MaxRetries = 2
  MaxCrashes = 0
  Faults = {"confirm_timeout", "db_error"}
  NoMsg = NoMsg
  d1 = d1
  d2 = d2
  d3 = d3
  Delivery = {d1, d2, d3}
  Malformed = {d3}
  BatchSize = 2
  MaxTimeouts = 2
  MaxRestarts = 1
  None = None
INVARIANTS
  CountersMatchEvents
  LoopTypeOK
  HandedOnce
  GracefulStopSettlesAll
PROPERTIES
  HandedDeliveriesSettle
  StoppedWorkerReturns
CHECK_DEADLOCK FALSE
