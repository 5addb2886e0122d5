SPECIFICATION Spec
CONSTANTS
  HexBase = 4
  AddrLen = 1
  LeafsetSize = 2
  NoNet = NoNet
  Net = Net
  NetAddress <- TwoNets
  Nets <- TwoNets
  Self <- SelfInside
  Peers <- PeersAround
INVARIANT
  QueryTableFits
