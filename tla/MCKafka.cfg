SPECIFICATION Spec
CONSTANTS
  e1 = e1
  e2 = e2
  e3 = e3
  e4 = e4
  Events <- MCEvents
  Unmarshalable <- MCUnmarshalable
  Async = FALSE
INVARIANTS
  TypeOK
  OutcomeReported
PROPERTY EventuallyReported
\* All messages are produced or dropped.
CHECK_DEADLOCK FALSE
