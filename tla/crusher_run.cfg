SPECIFICATION FairSpec
CONSTANTS
  Categories = 2
  MaxTests = 2
INVARIANTS CountersAgree ExitIsHonest  OutputSurvives GuardIsClosed HandlesAreFreed
PROPERTY Terminates
CHECK_DEADLOCK FALSE
