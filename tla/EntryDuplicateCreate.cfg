SPECIFICATION Spec
CONSTANTS
  Workers = {1, 2}
  Offers <- MCOffers
  HeartbeatDisks = {2}
  Jobs = {1, 2}
  SegmentCount = 2
  SourceOf <- MCSameSource
  VideoOf <- MCSameVideo
  DiskNeeds = {2}
  LossyStart = TRUE
INVARIANTS
  TypeOK
  NoSlotLeaks
  OneJobPerIdentity
  OneAssembleTaskPerJob
  AssembleAfterSegments
PROPERTIES
  FinalTaskStays
