SPECIFICATION ServerSpec
CONSTANTS
  Tasks = {"t"}
  Worker = "worker"
  Connections = {"t", "worker"}
  Events <- MCEvents
  ValidEvents <- MCEvents
  Routes <- MCRoutes
  Channels = {"chat"}
  Configured = {"chat"}
  MaxAttempts = 1
  Limit = 2
  RetryDelays = {0}
  MaxJobs = 2
  MaxCrashes = 1
  NoEvent = NoEvent
  NoAlert = NoAlert
  NoTime = NoTime
  NoTxn = NoTxn
  NoConn = "none"
INVARIANT AckedIsQueued
PROPERTIES
  ImplementsService
  FirstAttemptsInOrder
