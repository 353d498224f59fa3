CONSTANTS
  Writers = {1, 2}
  Readers = {3}
  Total <- MCTotal
  MaxLen = 2
  BufferSize = 2
  WireSize = 2
  Iovecs <- MCIovecs
  Vias <- MCVias
SPECIFICATION Spec
CHECK_DEADLOCK FALSE
INVARIANTS
  TypeOK
  StreamIntact
  
PROPERTIES
  StreamOnlyGrows
  EveryOutputAnswers
