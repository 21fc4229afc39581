SPECIFICATION FairSpec
CONSTANTS
  Slots = 1
  Videos = {1}
  SegmentCount = 2
  Attempts = 2
  Uploads = {1}
  Faults = {"create_answer", "upload", "report"}
  Holders <- MCHolders
INVARIANTS
  TypeOK
  LeasesReturned
PROPERTIES
  HandledOnce
  WaiterIsServed
  SplitVideoIsHandled
