CONSTANTS
  NoList = NoList
  Candidates <- MCCandidates
  Names <- MCNames
  NameLists <- MCNameLists
  MaxTransforms = 3
SPECIFICATION Spec
INVARIANTS EachOnceInStageOrder RulesIgnoreLinkOrder
CHECK_DEADLOCK FALSE
