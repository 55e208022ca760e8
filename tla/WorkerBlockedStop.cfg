\* Two retries time out and are confirmed late, then the worker is told to stop.
SPECIFICATION WorkerSpec
CONSTANTS
  e1 = e1
  e2 = e2
  l1 = l1
  Event = {e1, e2}
  Link = {l1}
  LinkOf <- OneLink
  Counting = {}
  Undecodable = {}
  MaxRetries = 1
  MaxCrashes = 0
  Faults = {}
  NoMsg = NoMsg
  d1 = d1
  d2 = d2
  d3 = d3
  Delivery = {d1, d2}
  Malformed = {}
  BatchSize = 2
  MaxTimeouts = 2
  MaxRestarts = 0
  None = None
PROPERTIES
  EveryStopReturns
CHECK_DEADLOCK FALSE
