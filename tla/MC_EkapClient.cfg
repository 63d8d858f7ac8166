CONSTANTS
  alarm = alarm
  interest = interest
  saved = saved
  Clients <- ThreeClients
  Concurrency = 2
  Capacity = 4
  Cost = 2
  Rate = 1
  Jitters <- MCJitters
  RetryAfters <- MCRetryAfter
  MaxAttempts = 2
  BackoffMin = 1
  BackoffMax = 2
  MaxRequests = 1
SPECIFICATION ClientFairSpec
INVARIANTS
  ClientTypeOK
  SlotsKept
  PaidOnce
  GivesUpLast
PROPERTIES
  PacedRequests
  RequestsEnd
