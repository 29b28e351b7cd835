\* Two calls, two Closes, and a server that closes or dies.
SPECIFICATION FairSpec
CONSTANTS
  Callers = {c1, c2}
  Closers = {k1, k2}
  MaxTag = 3
  Nobody = Nobody
\* The calls end and nothing is left to do.
CHECK_DEADLOCK FALSE
INVARIANTS
  ReplyHasMatchingReq
  NobodyLeftBehind
  AnswersAreOwn
PROPERTIES
  ImplementsRPC
  CallsReturn
  ReaderLeaves
