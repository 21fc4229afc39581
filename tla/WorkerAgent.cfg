SPECIFICATION AgentSpec
CONSTANTS
  Workers = {1}
  Offers <- MCOffers
  HeartbeatDisks = {1}
  Interval = 1
  Patience = 2
  CheckInterval = 1
  Timeout = 8
  MaxLost = 1
  MaxReserved = 3
INVARIANTS
  LiveWorkerStaysOnline
  SilentWorkerIsFound
  PauseFollowsLoad
