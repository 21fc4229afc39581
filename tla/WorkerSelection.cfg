SPECIFICATION SelectionSpec
CONSTANTS
  Workers = {1, 2, 3}
  Offers = {}
  HeartbeatDisks = {}
  SlotCounts = {0, 1}
  FreeDisks = {2, 4}
  HeldDisks = {0, 1}
  TotalSizes = {1, 3}
  SizeLists <- MCSizeLists
INVARIANTS
  ChosenWorkerAccepts
PROPERTIES
  SegmentChoiceIsAtomic
  AssemblyChoiceIsAtomic
