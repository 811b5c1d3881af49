SPECIFICATION Spec
CONSTANTS
  Sent = 3
  Events <- MCEvents
  Name <- MCName
  Limit = 2
  MaxAttempts = 2
  Drains = {d1, d2}
  Nobody = Nobody
INVARIANTS
  TypeOK
  QueuedIsKept
  BatchIsOnDisk
PROPERTIES
  RemovedOnlyStored
