SPECIFICATION Spec
CONSTANTS
  r1 = r1
  r2 = r2
  Deployed <- SoundClients
  Minimum <- MCMinimum
  Requests <- TwoRequests
  Kinds <- AllKinds
INVARIANTS
  TypeOK
  RequestsBalance
  OnlyEnabledServed
  TestReachesAll
PROPERTY EventuallyServed
\* Every request is answered and every goroutine has run.
CHECK_DEADLOCK FALSE
