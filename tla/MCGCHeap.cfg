SPECIFICATION Spec
CONSTANTS
  h1 = h1
  h2 = h2
  i1 = i1
  i2 = i2
  i3 = i3
  Handles <- MCHandles
  Ids <- MCIds
  Types <- MixTypes
  Layout <- MixLayout
  Body <- MixBody
  Half = 6
  Free = Free
  Moved = Moved
  Uninit = Uninit
SYMMETRY MCSymmetry
INVARIANT HeapTiled
INVARIANT PointersExact
INVARIANT FixupsExact
INVARIANT MoveFits
INVARIANT NoDanglingPointer
