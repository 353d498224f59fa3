CONSTANTS
  Spawners = {1, 2}
  Pipers = {3}
  FdLimit = 10
  Requests <- MCRequests
  Open <- MCOpen
  Platforms = {"linux", "apple", "windows"}
SPECIFICATION Spec
CHECK_DEADLOCK FALSE
INVARIANTS
  TypeOK
  ProgramsInheritOnlyTheirs
  SignalsAndGroup
  NothingLeftBehind
  ErrorsRaise
PROPERTIES
  EveryCallAnswers
  CallsKeepPromise
