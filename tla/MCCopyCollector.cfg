SPECIFICATION Spec
CONSTANTS
  h1 = h1
  h2 = h2
  i1 = i1
  i2 = i2
  i3 = i3
  a1 = a1
  a2 = a2
  a3 = a3
  b1 = b1
  b2 = b2
  b3 = b3
  Handles <- MCHandles
  Ids <- MCIds
  Types <- MCTypes
  Fields <- MCFields
  StrongOf <- MCStrongOf
  WeakOf <- MCWeakOf
  Half0 <- MCHalf0
  Half1 <- MCHalf1
  Null = Null
  Free = Free
  Moved = Moved
SYMMETRY MCSymmetry
INVARIANT RefinementInv
PROPERTY ImplementsGraph
PROPERTY GarbageStaysGarbage
