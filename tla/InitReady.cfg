SPECIFICATION Spec
CONSTANTS
  Main = Main
  Other = Other
  Thread <- TwoThreads
  Name = Name
  Msg = Msg
  Garbage = Garbage
  Arg <- Args
  Curryings <- ArgLists
  MaxCurrying = 2
  CheckSign = TRUE
  HeaderLen = 2
  LenSize = 1
  MaxLen = 1
  Datagrams <- Arrivals
  MaxArrivals = 2
  MaxFaults = 2
INVARIANTS
  AnswerMeansReady
CHECK_DEADLOCK FALSE
