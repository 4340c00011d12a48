SPECIFICATION Spec
CONSTANTS
  Version = 5
  Programs <- MCPrograms
INVARIANT ParsesAsWritten
INVARIANT LineBreaksRestricted
INVARIANT SemicolonsInserted
CHECK_DEADLOCK FALSE
