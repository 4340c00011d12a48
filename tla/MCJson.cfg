SPECIFICATION Spec
CONSTANTS
  Texts <- MCTexts
  Calls <- MCCalls
  Returns <- MCReturns
  MaxInt = 100
  MaxLength = 2
INVARIANT ParsesJson
INVARIANT ResultIsJSON
INVARIANT TextStandsForValue
PROPERTY StringifyEnds
CHECK_DEADLOCK FALSE
