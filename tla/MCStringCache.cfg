SPECIFICATION Spec
CONSTANTS
  n1 = n1
  n2 = n2
  n3 = n3
  n4 = n4
  s1 = s1
  s2 = s2
  s3 = s3
  s4 = s4
  s5 = s5
  s6 = s6
  Names <- MCNames
  Strings <- MCStrings
  Capacity = 3
  Null = Null
SYMMETRY MCSymmetry
INVARIANT RecentNamesShared
