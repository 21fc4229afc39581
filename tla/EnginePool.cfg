SPECIFICATION FairPoolSpec
CONSTANTS
  Slots = 2
  Holders = {h1, h2, h3}
CHECK_DEADLOCK FALSE
INVARIANTS
  EngineInOnePlace
  SlotTableIsTrue
  NoStaleResponse
PROPERTIES
  StopReturns
  ImplementsSlotPool
