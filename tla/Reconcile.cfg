CONSTANTS
  Contents <- MCContents
  MaxRepls = 3
SPECIFICATION Spec
INVARIANTS TypeOK KeptInOrder OutermostKept TextTrue
CHECK_DEADLOCK FALSE
