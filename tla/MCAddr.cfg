SPECIFICATION Spec
CONSTANTS
  HexBase = 2
  AddrLen = 3
  h1 = h1
  h2 = h2
  p1 = p1
  p2 = p2
  c1 = c1
  c2 = c2
  mark = mark
  nul = nul
  Hosts <- TwoHosts
  Ports <- TwoPorts
  Chars <- TwoChars
  Mark = mark
  Nul = nul
  MaxPath = 4
  PrefixLen = 2
INVARIANTS
  DistIsRingDistance
  IndexAgreesWithOrder
  LevelIsUltrametric
  HexRoundTrip
PROPERTY
  PassedOnFaithfully
