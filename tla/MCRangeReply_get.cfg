SPECIFICATION Spec
CONSTANTS
  Requests <- AllRequests
  Sizes <- SomeSizes
  Chunk = 3
  IntMax = 7
  LongMod = 64
INVARIANTS RangeAsAsked BodyInRange PromiseKept
