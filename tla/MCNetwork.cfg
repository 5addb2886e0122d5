SPECIFICATION FairSpec
CONSTANTS
  HexBase = 4
  AddrLen = 1
  LeafsetSize = 2
  NoNet = NoNet
  NetAddress <- TwoNets
  Node <- TwoNodes
  Target <- Targets
  Signs <- OnlyA
  Checks <- OnlyB
  Listens <- OnlyB
  Length <- Lengths
  MaxLen = 3
  LenModulus = 6
  PingLen = 2
  DefaultTTL = 3
  MaxSends = 1
  MaxChanges = 3
  MaxDuplicates = 1
  MaxRestarts = 1
INVARIANTS
  TypeOK
  NotMultiplied
  UpcallsFaithful
  OnlyPingsAbort
PROPERTIES
  EventuallyQuiet
CHECK_DEADLOCK FALSE
