CONSTANTS
  plain = plain
  known = known
  ignored = ignored
  Absent = Absent
  Key <- MCKey
  Whitelisted <- MCWhitelisted
  Ignored <- MCIgnored
  PerformChecks = TRUE
  MaxOcc = 2
  MaxMarks = 2
  MaxFiles = 2
SPECIFICATION Spec
INVARIANTS TypeOK TableIsOfThisFile NothingLost ErrorsAreJust
 
CHECK_DEADLOCK FALSE
