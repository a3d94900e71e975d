SPECIFICATION Spec
CONSTANTS
  i1 = i1
  i2 = i2
  l1 = l1
  l2 = l2
  Inits <- MCInits
  Loads <- MCLoads
  Absent = Absent
  Garbled = Garbled
  MaxKills = 1
  MaxFaults = 1
  MaxEdits = 2
SYMMETRY Symmetry
INVARIANTS
  OneExperimentPerRun
  LoadsWhatWasFrozen
  UntouchedRunLoads
CHECK_DEADLOCK FALSE
