SPECIFICATION FairSpec
CONSTANTS
  Sent = 2
  Events <- MCEvents
  Name <- MCName
  Limit = 1
  MaxAttempts = 2
  Drains = {d1}
  Nobody = Nobody
PROPERTY QueuedIsDelivered
