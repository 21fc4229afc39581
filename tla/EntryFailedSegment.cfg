SPECIFICATION FairSpec
CONSTANTS
  Workers = {1, 2}
  Offers <- MCOffers
  HeartbeatDisks = {1}
  Jobs = {1}
  SegmentCount = 2
  SourceOf <- MCSameSource
  VideoOf <- MCSameVideo
  DiskNeeds = {1, 2}
  LossyStart = FALSE
PROPERTIES
  FailedSegmentFailsJob
