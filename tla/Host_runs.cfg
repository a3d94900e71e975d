SPECIFICATION HostFairSpec
CONSTANTS
  c1 = c1
  c2 = c2
  p1 = p1
  p2 = p2
  Launches <- MCLaunches
  EvaProcs = {p1, p2}
  LockRoots <- MCLockRoots
  ProcOf <- MCProcOf
  Slots = {g0, g1}
  KindOf <- MCKindOf
  Need <- MCNeed
  MaxFaults = 1
  MaxCrashes = 1
CHECK_DEADLOCK FALSE
INVARIANTS
  CommandEndedOnReturn
  EvidenceTruthful
  OneCommandPerSlot
  CoveredByLease
PROPERTIES
  SlotsComeFree
