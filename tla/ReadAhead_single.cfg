SPECIFICATION Spec
CONSTANTS
  Volumes = 1
  Start <- OneVolume
  BlockMax = 3
  Mins <- SomeMins
  Amounts <- SomeAmounts
  Offsets <- SomeOffsets
  Clients = {{"seek"}}
  SeekSkipMin = 2
  SeeksPastEnd = FALSE
  Bidding = TRUE
  SkipErrorMax = 0
  Faults = {"read", "seek", "alloc"}
INVARIANTS TypeOK BufferBounds InStep GrowthBounded
PROPERTY ImplementsByteStream
