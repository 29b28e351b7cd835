\* One Call to a server that is shut down while its handler runs.
SPECIFICATION Spec
CONSTANTS
  Calls = {k1}
  Ends = {e1}
  MaxStarts = 1
PROPERTIES
  NoReplyAfterCheckpoint
