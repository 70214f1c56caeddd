SPECIFICATION Spec
CONSTANTS
  Methods <- MCMethods
  Strings <- MCStrings
  Numbers <- MCNumbers
  MaxVector = 2
  Foreign <- MCForeign
INVARIANTS TypeOK SizedRight Accepted ReadBack ReadToEnd
CHECK_DEADLOCK FALSE
