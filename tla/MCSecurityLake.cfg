SPECIFICATION Spec
CONSTANTS
  e1 = e1
  e2 = e2
  e3 = e3
  e4 = e4
  Events <- MCEvents
  Unparsable <- MCUnparsable
  Segment = 1
  BatchSize = 2
  MaxFailures = 2
INVARIANTS
  TypeOK
  ReadMeansUploaded
  ConfirmedOnce
  RetryCoversBatch
PROPERTY EventuallyUploaded
\* All events are enqueued; the worker goes on polling.
