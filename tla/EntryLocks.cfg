SPECIFICATION LocksSpec
CONSTANTS
  Goroutines = {g1, g2, g3}
  MaxSegments = 2
SYMMETRY Symmetry
INVARIANTS
  NoLockAcrossHttp
  UnlocksOwnLock
  NoWaitCycle
