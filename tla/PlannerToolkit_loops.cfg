SPECIFICATION FairSpec
CONSTANTS
  Calls <- McCalls
  ToolOf <- McToolOf
  Results <- McResults
  States = {"s1", "s2"}
  Codes = {"E1"}
  Texts = {"unreachable", "dark"}
  Families = {"grasp"}
  Prints = {0}
  None = None
  MaxIdenticalErrors = 2
  MaxConsecutiveErrors = 3
  MaxIdenticalOutcomes = 3
  MaxRepeatedFailureFamilies = 1
  MaxObservationsWithoutAction = 1
  MaxStagnantActions = 2
  MaxConsecutiveIdenticalActions = 2
  MaxEquivalentCappedActions = 2
  BatchSafe = {"look"}
  WorkspaceTools = {"search"}
  MaxBatch = 2
  MaxProposalRepairs = 1
  Fallible = {"front"}
INVARIANTS
  RefusalIsFresh
  StopIsNoticed
PROPERTIES
  AcceptedIsExecuted
  WarnedBeforeStopped
  NoFruitlessLoop
CHECK_DEADLOCK FALSE
