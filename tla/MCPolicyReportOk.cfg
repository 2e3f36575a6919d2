SPECIFICATION Spec
CONSTANTS
  e1 = e1
  e2 = e2
  e3 = e3
  e4 = e4
  o1 = o1
  Events <- MCEvents
  Clusterwide <- MCClusterwide
  WithSubjects <- MCEvents
  Unchecked = {}
  Priority <- MCPriority
  MaxEvents = 9
  Older <- NoOlder
  ServerFails = FALSE
INVARIANT OkIsRecorded
CHECK_DEADLOCK FALSE
