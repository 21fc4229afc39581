SPECIFICATION Spec
CONSTANTS
  Workers = {1, 2}
  Offers <- MCOffers
  HeartbeatDisks = {2}
  Jobs = {1, 2}
  SegmentCount = 1
  SourceOf <- MCSameSource
  VideoOf <- MCTwoVideos
  DiskNeeds = {1}
  LossyStart = TRUE
INVARIANT
  JobAgreesWithAssembleTask
