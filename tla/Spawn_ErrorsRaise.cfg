CONSTANTS
  Spawners = {1}
  Pipers = {}
  FdLimit = 10
  Requests <- MCDaemonRequests
  Open <- MCDaemon
  Platforms = {"linux"}
SPECIFICATION Spec
CHECK_DEADLOCK FALSE
INVARIANT ErrorsRaise
