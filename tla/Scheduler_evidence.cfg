SPECIFICATION FairSpec
CONSTANTS
  Procs = {p1, p2}
  NoProc = NoProc
  NJobs = 1
  MaxWorkers = 1
  MaxInvocations = 3
  MaxCrashes = 1
  MaxFaults = 1
  MaxReadFaults = 1
  MaxInterrupts = 2
CHECK_DEADLOCK FALSE
INVARIANT NoSharedAttempt
PROPERTIES
  LedgerSpec
  RequestedIsDecided
