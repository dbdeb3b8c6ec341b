SPECIFICATION Spec
CONSTANTS
  MaxRows = 5
  MaxGone = 2
  MaxCount = 2
  Asks <- MCAsks
CHECK_DEADLOCK FALSE
INVARIANTS PageIsTheWindow UpwardsInOrder RepeatsAtMostAdded MissesAtMostGone
