SPECIFICATION BulkSpec
CONSTANTS
  e1 = e1
  e2 = e2
  e3 = e3
  e4 = e4
  NoOne = NoOne
  Events <- MCEvents
  Size <- MCSize
  Unmarshalable <- MCUnmarshalable
  BatchSize = 2
INVARIANTS
  BulkTypeOK
  NoLossNoDuplicate
  PendingIsTimed
  BatchWithinSize
  PostedOnce
  NeverOverclaims
PROPERTIES
  ImplementsSink
  AllAccounted
\* When all events are posted the output is at rest.
CHECK_DEADLOCK FALSE
