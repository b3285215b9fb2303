SPECIFICATION FairSpec
CONSTANTS
  Total = 5
  BufferSize = 3
  ReadSize = 2
  FifoSize = 2
  BlockSize = 2
INVARIANTS NoOverrun EndIsEnd
PROPERTIES StreamInOrder OpenAndCloseReturn
