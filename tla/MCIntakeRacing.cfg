SPECIFICATION Spec
CONSTANTS
  t1 = t1
  t2 = t2
  Tasks = {t1, t2}
  Connections = {t1, t2}
  Events <- RacingEvents
  ValidEvents <- MCValidEvents
  Routes <- MCRoutes
  Channels = {"chat", "mail"}
  NoEvent = NoEvent
  NoAlert = NoAlert
  NoTime = NoTime
  NoTxn = NoTxn
  NoConn = NoConn
SYMMETRY MCSymmetry
INVARIANTS
  TypeOK
  AckedIsStored
  EventIdsUnique
  AlertsMatchHistory
  JobsMatchHistory
  RefusalsJustified
PROPERTIES
  EventsOnlyGrow
  ImplementsLedger
