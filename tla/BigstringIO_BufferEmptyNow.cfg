CONSTANTS
  Writers = {1}
  Readers = {3, 4}
  Total <- MCTotal
  MaxLen = 2
  BufferSize = 2
  WireSize = 3
  Iovecs <- MCIovecs
  Vias <- MCChannels
SPECIFICATION Spec
CHECK_DEADLOCK FALSE
INVARIANT BufferEmptyNow
