SPECIFICATION FairFleetSpec
CONSTANTS
  Workers = {1, 2}
  Offers <- MCOffers
  HeartbeatDisks = {2}
  Jobs = {1}
  SegmentCount = 2
  SourceOf <- MCSourceOf
  VideoOf <- MCVideoOf
  DiskNeeds = {1}
  LossyStart = TRUE
  MaxCrashes = 1
  Losses = {"create", "upload", "accept", "report"}
INVARIANTS
  ClaimsAreBacked
PROPERTIES
  TaskIsReported
  FleetJobSettles
  OnlyCutTasksKeepSlots
  ImplementsVideoResults
