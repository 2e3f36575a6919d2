SPECIFICATION Spec
CONSTANTS
  e1 = e1
  e2 = e2
  e3 = e3
  NoOne = NoOne
  Events <- MCEvents
  MaxConcurrentRequests = 2
  EnableCompression = TRUE
INVARIANT OkIsAcked
CHECK_DEADLOCK FALSE
