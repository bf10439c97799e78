SPECIFICATION Spec
CONSTANTS
  Volumes = 1
  Start <- OneVolume
  BlockMax = 3
  Mins <- SomeMins
  Amounts <- SomeAmounts
  Offsets <- SomeOffsets
  Clients = {{"skip"}}
  SeekSkipMin = 2
  SeeksPastEnd = FALSE
  Bidding = FALSE
  SkipErrorMax = 1
  Faults = {"skip"}
PROPERTY SkipErrorReported
