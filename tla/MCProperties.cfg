SPECIFICATION Spec
CONSTANTS
  obj = obj
  proto = proto
  x = x
  v1 = v1
  v2 = v2
  f1 = f1
  f2 = f2
  Undefined = Undefined
  Objects <- One
  Names <- OneName
  Values <- TwoValues
  Functions <- TwoFunctions
  Returns <- TwoReturns
  Prototypes <- NoChain
  Descriptors <- AllDescriptors
  Literals <- FirstLiteral
  MaxDepth = 0
INVARIANT TypeOK
PROPERTY NonConfigurableStays
PROPERTY ReadOnlyFixed
PROPERTY IntegrityLevelStays
PROPERTY RedefineByOwnDescriptor
PROPERTY NonExtensibleGainsNothing
