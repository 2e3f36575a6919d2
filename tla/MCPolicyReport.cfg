SPECIFICATION Spec
CONSTANTS
  e1 = e1
  e2 = e2
  e3 = e3
  e4 = e4
  o1 = o1
  Events <- MCEvents
  Clusterwide <- MCClusterwide
  WithSubjects <- MostEvents
  Unchecked <- TwoUnchecked
  Priority <- MCPriority
  MaxEvents = 2
  Older <- OneOlder
  ServerFails = TRUE
INVARIANTS
  TypeOK
  RecordedOnce
  SummaryMatches
PROPERTIES
  ReportBounded
  ImplementsLog
  EventuallyCounted
\* All events are counted.
CHECK_DEADLOCK FALSE
