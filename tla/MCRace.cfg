SPECIFICATION Spec
CONSTANTS
  HexBase = 2
  AddrLen = 2
  LeafsetSize = 2
  m = m
  n = n
  NoNet = m
  NetAddress <- TwoNets
  Net <- n
  Nets <- OneNet
  Self <- SelfInside
  Peers <- SharedSlot
  Wanted <- TwoWanted
  MaxWrites = 2
INVARIANTS
  RaceTypeOK
  TornHopsNearer
  TornHopsOfSlot
PROPERTIES
  WritesAreAtomic
  QuietReadsExact
