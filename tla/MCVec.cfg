SPECIFICATION Spec
CONSTANTS
  e1 = e1
  e2 = e2
  Elem <- TwoElems
  Junk = Junk
  Nothing = Nothing
  DefaultCapacity = 2
  Capacities <- Created
  MaxSize = 5
INVARIANTS
  TypeOK
  SizeWithinCapacity
  OverrunsOnlyAfterDenial
PROPERTIES
  IsCollection
\* A process that wrote past the buffer has no further behaviour.
CHECK_DEADLOCK FALSE
