SPECIFICATION Spec
CONSTANTS
  Recent = 2
  SummaryLimit = 4
  ResultLimit = 4
  TextBudget = 13
  ImageBudget = 3
  Overhead = 5
  Batches <- MCBatches
  MaxTurns = 4
  MaxMessages = 1
CHECK_DEADLOCK FALSE
INVARIANT NeverRejectedIfItFits
