SPECIFICATION EngineSpec
CONSTANTS MaxRuns = 4  MaxCores = 2  Mbuf = {m1, m2, m3}  RingSize = 1  QueueSz = 2
INVARIANTS IInv QueuesArePaired UpMeansConnected FailedEngineLeavesNothing
  NicOwnsItsBuffers
PROPERTIES EveryPacketTaken StopsOnSignal
CHECK_DEADLOCK FALSE
