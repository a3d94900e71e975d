SPECIFICATION Spec
CONSTANTS
  p1 = p1
  t1 = t1
  t2 = t2
  RpentJobs <- MCRpentJobs
  RatsJobs <- MCRatsJobs
  OtherSeeds <- MCOtherSeeds
  MaxAttempts = 2
INVARIANTS
  SuccessIsEvidenced
  ReportsCountEveryJob
  ProbeAgrees
PROPERTIES
  VerdictIsFinal
CHECK_DEADLOCK FALSE
