SPECIFICATION FairSpec
CONSTANTS
  Volumes = 3
  Start <- ThreeVolumes
  BlockMax = 2
  Mins <- FewMins
  Amounts <- FewAmounts
  Offsets <- FewOffsets
  Clients = {{"skip"}, {"skip", "seek"}}
  SeekSkipMin = 2
  SeeksPastEnd = TRUE
  Bidding = FALSE
  SkipErrorMax = 1
  Faults = {"skip", "switch"}
INVARIANT InStep
PROPERTIES ImplementsByteStream CallsReturn
