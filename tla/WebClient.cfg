\* Every part of the web client: lists, confirmed changes, session and views,
\* the report page, the edit dialog and the charts.
SPECIFICATION Spec
CONSTANTS
  c1 = c1
  c2 = c2
  i1 = i1
  wide = wide
  narrow = narrow
  a = a
  b = b
  l1 = l1
  u1 = u1
  u2 = u2
  r1 = r1
  r2 = r2
  Nil = Nil
  Call = {c1, c2}
  List = {"links", "users", "clicks", "audit"}
  Query = {wide, narrow}
  Cursor = {2, 3, 4}
  After <- Listings
  MaxDepth = 4
  MaxHandlers = 4
  Id = {i1}
  MaxOps = 3
  ChangeFaults <- NetworkFaults
  Key = {"home", "links", "admin/users", "admin/audit", "admin/runtime"}
  Role = "superadmin"
  MaxSteps = 3
  SessionFaults = {"load_fails", "change_fails", "other_tab", "expiry"}
  Report = {a, b}
  Preset <- Presets
  DefaultDays = 30
  Typed <- Dates
  Midnights = 1
  MaxInputs = 4
  Link = {l1}
  Url = {u1, u2}
  Expiry <- WithSeconds
  Typeable <- AMinute
  Offset = 0
  Request = {r1, r2}
  Patches <- SomePatches
  Bulks <- SomeBulks
  MaxRequests = 2
  MaxTyped = 1
  Keep = Keep
  Clicks <- Counts
  MaxPoints = 9
  LabelWidth = 400
SYMMETRY Interchangeable
CONSTRAINT OneListWalked
INVARIANTS
  ListsTypeOK
  StackWalksListing
  PageShownIsCurrent
  ChangesTypeOK
  SettledRowsAreCurrent
  DashboardTypeOK
  AdminPanelsOnlyInAdminMode
  LoadedViewsShowModeUnlessCrossed
  LoadedViewsAreCurrent
  ReportTypeOK
  SettledReportIsCurrent
  PresetIsAcceptedTheSameDay
  EditsTypeOK
  ExpiringIsNotPermanent
  TrendIsFaithful
  BreakdownIsFaithful
PROPERTIES
  FreshUpdatesStoreTheEdit
CHECK_DEADLOCK FALSE
