CONSTANTS
  Half = 4
  HalfBits = 2
  Memories <- MCMemories
  Ranges1 <- MCRanges1
  Ranges2 <- MCRanges2
  Cell = 6
  Naturals <- MCNaturals
  Scratch <- MCScratch
SPECIFICATION Spec
CHECK_DEADLOCK FALSE
INVARIANTS
  ResultsExact
  ValueDecides
  WritesInRange
