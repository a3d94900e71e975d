SPECIFICATION Spec
CONSTANTS
  Procs = {p1, p2}
  NoProc = NoProc
  NJobs = 1
  MaxWorkers = 1
  MaxInvocations = 2
  MaxCrashes = 0
  MaxFaults = 0
  MaxReadFaults = 1
  MaxInterrupts = 0
CHECK_DEADLOCK FALSE
SYMMETRY ProcSymmetry
PROPERTY NoRerunOfCompleted
