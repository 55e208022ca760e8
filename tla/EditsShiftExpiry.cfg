\* The web client alone, seven hours ahead of UTC.
SPECIFICATION EditsSpec
CONSTANTS
  l1 = l1
  u1 = u1
  u2 = u2
  r1 = r1
  c1 = c1
  Call = {c1}
  Keep = Keep
  Nil = Nil
  Link = {l1}
  Url = {u1, u2}
  Expiry <- Noon
  Typeable <- Noon
  Offset <- SevenHours
  Request = {r1}
  Patches = {}
  Bulks = {}
  MaxRequests = 1
  MaxTyped = 1
PROPERTIES
  UpdatesStoreTheEdit
CHECK_DEADLOCK FALSE
