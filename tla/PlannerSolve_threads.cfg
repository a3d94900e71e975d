SPECIFICATION FairSpec
CONSTANTS
  MaxMessages = 2
  MaxTurns = 2
  MaxBatch = 2
  MaxProposalRepairs = 1
CHECK_DEADLOCK FALSE
INVARIANTS
  FateIsTrue
  ActsOnAnsweredInput
  AtMostOneLateCall
  ReturnIsSealed
PROPERTIES
  DeskSpec
  DeadlineEndsSolve
  StopEndsSolve
