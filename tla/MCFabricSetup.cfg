SPECIFICATION FairSpec
CONSTANTS
  MaxRuns = 4
  MaxFaults = 2
INVARIANTS
  StateNamesWhatExists
  MirrorsAreRecorded
PROPERTY
  ConflictsAreExplained
CHECK_DEADLOCK FALSE
