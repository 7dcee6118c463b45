CONSTANTS
  Situations <- MCSituations
  MaxNumeric <- MCMaxNumeric
  MaxPlace <- MCMaxPlace
SPECIFICATION FindSpec
CHECK_DEADLOCK FALSE
INVARIANTS WholeSetFound HoleNeverCrossed
