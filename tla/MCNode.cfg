SPECIFICATION NodeSpec
CONSTANTS
  Name = Name
  Msg = Msg
  Extra = Extra
  Garbage = Garbage
  Arg <- Args
  Curryings <- ArgLists
  MaxCurrying = 2
  CheckSign = TRUE
  HeaderLen = 2
  LenSize = 1
  MaxLen = 1
  Datagrams <- Arrivals
  MaxArrivals = 2
  MaxFaults = 1
INVARIANTS
  NodeTypeOK
  NoUseAfterRelease
  NothingLeftBehind
  HandledFaithful
  PacketsAccounted
  LogArguments
  ClosureOutlivesCalls
PROPERTY
  DatagramsConsumed
\* A reply that is delivered ends the process.
CHECK_DEADLOCK FALSE
