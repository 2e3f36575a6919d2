SPECIFICATION Spec
CONSTANTS
  g1 = g1
  g2 = g2
  Goroutines <- MCGoroutines
  Events = {1, 2}
  Programs <- Handlers
  Accounts <- MCAccounts
  Jobs <- MCJobs
  ReceivedTags <- MCTags
  Exempt <- MiscountedBackends
  Unreliable <- UnreliableOutputs
  Repeating <- RepeatingOutputs
  Leaky <- LeakyOutputs
  Editing <- EditingOutputs
  Deleting <- DeletingOutputs
  Asserting <- AssertingOutputs
  Panicking <- PanickingOutputs
  Caching <- CachingOutputs
INVARIANTS
  HandlersTypeOK
  Accounted
  ReportsResult
  SeesTheEvent
  Survives
  ResourcesKept
\* The handlers end, or the process does.
CHECK_DEADLOCK FALSE
