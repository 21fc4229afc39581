SPECIFICATION Spec
CONSTANTS
  Workers = {1, 2}
  Offers <- MCMixedOffers
  HeartbeatDisks = {1}
  Jobs = {1, 2}
  SegmentCount = 1
  SourceOf <- MCSameSource
  VideoOf <- MCTwoVideos
  DiskNeeds = {1, 2}
  LossyStart = FALSE
INVARIANTS
  SlotsExact
  DiskExact
  NoOrphanJob
  JobAgreesWithAssembleTask
