SPECIFICATION Spec
CONSTANTS
  r1 = r1
  r2 = r2
  Deployed <- NilClients
  Minimum <- MCMinimum
  Requests <- OneRequest
  Kinds <- OneEvent
INVARIANT OnlyEnabledServed
\* Every request is answered and every goroutine has run.
CHECK_DEADLOCK FALSE
