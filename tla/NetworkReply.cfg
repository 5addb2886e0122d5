SPECIFICATION Spec
CONSTANTS
  HexBase = 4
  AddrLen = 1
  LeafsetSize = 2
  NoNet = NoNet
  NetAddress <- TwoNets
  Node <- TwoNodes
  Target <- Targets
  Signs <- OnlyA
  Checks <- OnlyB
  Listens <- OnlyB
  Length <- OneLength
  MaxLen = 3
  LenModulus = 6
  PingLen = 2
  DefaultTTL = 3
  MaxSends = 1
  MaxChanges = 1
  MaxDuplicates = 0
  MaxRestarts = 0
INVARIANT
  RepliesNeverDelivered
CHECK_DEADLOCK FALSE
