\* Retries up to three failures, restarts, redelivery and an undecodable event come to an end.
SPECIFICATION FairSpec
CONSTANTS
  e1 = e1
  e2 = e2
  l1 = l1
  Event = {e1, e2}
  Link = {l1}
  LinkOf <- OneLink
  Counting = {e1}
  Undecodable = {e2}
  MaxRetries = 3
  MaxCrashes = 1
  Faults = {"db_error", "nack"}
  NoMsg = NoMsg
PROPERTIES
  QueuedClicksSettle
  QueuesDrain
CHECK_DEADLOCK FALSE
