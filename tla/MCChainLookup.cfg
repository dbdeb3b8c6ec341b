SPECIFICATION Spec
CONSTANTS
  MaxHeight = 4
  MaxDepth = 3
  MaxForks = 2
  EpochLength = 2
INVARIANTS AnswerIsOneBlock LatestWasLatest LatestEpochExists LookupFits EmptyPageHasReason BalanceWasTrue
