\* One Call over either of two ends to a server that is started three times.
SPECIFICATION FairSpec
CONSTANTS
  Calls = {k1}
  Ends = {e1, e2}
  MaxStarts = 3
INVARIANTS
  AcknowledgedIsDurable
PROPERTIES
  ImplementsContract
  CallReturns
