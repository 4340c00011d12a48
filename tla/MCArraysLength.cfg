SPECIFICATION Spec
CONSTANTS
  v1 = v1
  v2 = v2
  Undefined = Undefined
  Hole = Hole
  Values <- MCValues
  Inherited <- MCInherited
  Modulus <- MCModulus
  Receivers <- MCReceivers
  Calls <- MCCalls
  UserCalls <- MCUserCalls
  Lengths <- MCLengths
  QuietLengths = FALSE
  MaxDepth = 1
INVARIANT NoStaleThis
