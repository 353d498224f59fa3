CONSTANTS
  MaxPasses = 2
  MaxRuns = 2
SPECIFICATION Spec
INVARIANTS TypeOK ErrorsReachTheUser TreesAccount FilesSettled
CHECK_DEADLOCK FALSE
