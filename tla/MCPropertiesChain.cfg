SPECIFICATION Spec
CONSTANTS
  obj = obj
  proto = proto
  x = x
  v1 = v1
  v2 = v2
  f1 = f1
  f2 = f2
  Undefined = Undefined
  Objects <- Two
  Names <- OneName
  Values <- OneValue
  Functions <- OneFunction
  Returns <- OneReturns
  Prototypes <- Chain
  Descriptors <- FewestDescriptors
  Literals <- SecondLiteral
  MaxDepth = 1
INVARIANT AccessorAgreement
PROPERTY StrictPutTakesEffect
