SPECIFICATION ServedSpec
CONSTANTS
  e1 = e1
  e2 = e2
  e3 = e3
  NoOne = NoOne
  Events <- MCEvents
  MaxConcurrentRequests = 2
  EnableCompression = TRUE
INVARIANTS
  TypeOK
  ConcurrencyLimit
  SemaphoreReady
  OneTransport
  AccountsBalance
  AckedIsNotError
PROPERTY ImplementsLedger
\* All events are counted and the client is at rest.
CHECK_DEADLOCK FALSE
