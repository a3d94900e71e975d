SPECIFICATION Spec
CONSTANTS
  c1 = c1
  c2 = c2
  c3 = c3
  p1 = p1
  p2 = p2
  r1 = r1
  r2 = r2
  g0 = g0
  g1 = g1
  q0 = q0
  Clients <- MCClients
  NoClient = NoClient
  EvaProcs = {p1, p2}
  ProcOf <- MCProcOf
  Roots = {r1, r2}
  Root <- MCRootPerRun
  Slots <- MCSlots
  KindOf <- MCKindOf
  Scan <- MCScan
  Need <- MCNeed
  Patient = {c1, c3}
  MaxCrashes = 0
  MaxFaults = 0
INVARIANT LeaseExclusive
