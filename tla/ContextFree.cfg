SPECIFICATION FairSpec
CONSTANTS
  Names <- MCNames
  Kind <- MCKind
  Children <- MCChildren
  Yields <- MCYields
  Derived <- MCDerived
  Expected <- MCExpected
  Failing <- MCFailing
  Altered <- MCAltered
  Programs <- MCPrograms
INVARIANTS TypeOK OutputIsExpansion HookCoversRules CorrectionsConverge
PROPERTY PassEnds
CHECK_DEADLOCK FALSE
