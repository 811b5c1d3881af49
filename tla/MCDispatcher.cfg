SPECIFICATION FairSpec
CONSTANTS
  Worker = Worker
  Server = Server
  Connections = {Worker, Server}
  Events <- MCEvents
  ValidEvents <- MCEvents
  Channels = {"telegram", "mail"}
  Configured = {"telegram"}
  MaxAttempts = 2
  Limit = 2
  RetryDelays = {0, 30}
  Headlines = {"firing"}
  MaxJobs = 2
  MaxCrashes = 1
  NoAlert = NoAlert
  NoTime = NoTime
  NoTxn = NoTxn
  NoConn = NoConn
INVARIANTS
  TypeOK
  SendsAreCounted
  SentWasDelivered
  DuplicatesExplained
  HeldIsInFlight
PROPERTIES
  FinalStaysFinal
  EveryJobSettles
