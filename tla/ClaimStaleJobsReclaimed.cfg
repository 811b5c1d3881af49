SPECIFICATION FairSpec
CONSTANTS
  Worker = Worker
  Server = Server
  Connections = {Worker, Server}
  Events <- MCEvents
  ValidEvents <- MCEvents
  Channels = {"telegram"}
  Configured = {"telegram"}
  MaxAttempts = 2
  Limit = 1
  RetryDelays = {1}
  Headlines = {"firing"}
  MaxJobs = 1
  MaxCrashes = 1
  NoAlert = NoAlert
  NoTime = NoTime
  NoTxn = NoTxn
  NoConn = NoConn
PROPERTY StaleJobsReclaimed
