SPECIFICATION Spec
CONSTANTS
  t1 = t1
  t2 = t2
  Tasks = {t1}
  Connections = {t1}
  Events <- LongEvents
  ValidEvents <- MCValidEvents
  Routes <- MCRoutes
  Channels = {"chat", "mail"}
  NoEvent = NoEvent
  Limits = {0, 3}
  MaxLimit = 2
  AnyStatus = AnyStatus
  NoAlert = NoAlert
  NoTime = NoTime
  NoTxn = NoTxn
  NoConn = NoConn
INVARIANTS
  AlertsMatchHistory
  JobsMatchHistory
  ListingIsCurrent
