SPECIFICATION FairSpec
CONSTANTS
  Procs = {p1, p2}
  NoProc = NoProc
  NJobs = 2
  MaxWorkers = 2
  MaxInvocations = 3
  MaxCrashes = 1
  MaxFaults = 0
  MaxReadFaults = 0
  MaxInterrupts = 0
CHECK_DEADLOCK FALSE
INVARIANTS
  OneScheduler
  NoLostAttempt
PROPERTIES
  NoRerunOfCompleted
  ReturnIsAccurate
  InvocationEnds
