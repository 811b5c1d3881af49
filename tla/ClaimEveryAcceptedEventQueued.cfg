SPECIFICATION Spec
CONSTANTS
  t1 = t1
  t2 = t2
  Tasks = {t1}
  Connections = {t1}
  Events <- LongEvents
  ValidEvents <- MCValidEvents
  Routes <- MCRoutes
  Channels = {"chat", "mail"}
  NoEvent = NoEvent
  NoAlert = NoAlert
  NoTime = NoTime
  NoTxn = NoTxn
  NoConn = NoConn
INVARIANT EveryAcceptedEventQueued
