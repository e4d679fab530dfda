SPECIFICATION Spec
CONSTANTS
  Runs = 2
  MaxFaults = 3
INVARIANTS AccusationHasCause DefectIsFound AutocommitLossHasCause LeftoverTableHasCause
