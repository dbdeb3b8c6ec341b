SPECIFICATION Spec
CONSTANTS
  MaxRows = 5
  MaxGone = 2
  MaxCount = 2
  Asks <- UnpagedAsks
CHECK_DEADLOCK FALSE
INVARIANT PageIsTheWindow
