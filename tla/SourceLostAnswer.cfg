SPECIFICATION FairSpec
CONSTANTS
  Slots = 1
  Videos = {1}
  SegmentCount = 2
  Attempts = 2
  Uploads = {}
  Faults = {"create_answer"}
  Holders <- MCHolders
PROPERTIES
  EverySegmentReports
