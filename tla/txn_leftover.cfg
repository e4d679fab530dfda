SPECIFICATION Spec
CONSTANTS
  Runs = 1
  MaxFaults = 0
INVARIANT FailMeansDefect
