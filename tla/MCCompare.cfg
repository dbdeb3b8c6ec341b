SPECIFICATION CompareSpec
CONSTANTS
  MaxHeight = 8
  MaxDepth = 1
  MaxForks = 1
  EpochLength = 2
  CaseLists <- MCCaseLists
  Deep = 2
  Count = 1
  Floor = 2
  PageSize = 2
  HistoryPage = 2
  Updates = {2}
  MaxLag = 1
  Environments = {{}, {"pool", "address", "stake"}, {"pool"}}
CHECK_DEADLOCK FALSE
INVARIANTS CompareTypeOK AlarmHasReason ComparedEpochIsOver PassHasCompared
