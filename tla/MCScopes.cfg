SPECIFICATION Spec
CONSTANTS
  undefined = undefined
  one = one
  n1 = n1
  n2 = n2
  n3 = n3
  Nodes <- MCNodes
  Undefined = undefined
  Names <- MCNames
  Values <- MCValues
  Codes <- MCCodes
  Programs <- MCPrograms
  Plain <- MCPlain
  TreesReused = FALSE
  MaxObjects = 10
  MaxDepth = 3
SYMMETRY MCSymmetry
INVARIANT TypeOK
INVARIANT CachesAligned
INVARIANT CodeInItsScope
PROPERTY BlockObjectsGainNothing
INVARIANT DeclarationsTakeEffect
CHECK_DEADLOCK FALSE
