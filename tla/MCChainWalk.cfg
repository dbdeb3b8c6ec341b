SPECIFICATION FairSpec
CONSTANTS
  MaxHeight = 5
  MaxDepth = 2
  MaxForks = 1
  EpochLength = 2
  Source = "koios"
  Asks <- MCAsks
CHECK_DEADLOCK FALSE
INVARIANTS RowsAreTrue NothingIsMissing PagesTile
PROPERTIES WalksEnd ImplementsPromise
