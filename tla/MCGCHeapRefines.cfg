SPECIFICATION Spec
CONSTANTS
  h1 = h1
  h2 = h2
  i1 = i1
  i2 = i2
  i3 = i3
  Handles <- MCHandles
  Ids <- MCIds
  Types <- MixTypes
  Layout <- SmallLayout
  Body <- SmallBody
  Half = 4
  Free = Free
  Moved = Moved
  Uninit = Uninit
PROPERTY ImplementsCollector
PROPERTY CollectionEnds
