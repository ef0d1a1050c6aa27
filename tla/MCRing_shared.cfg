\* AdRingBufferMRMW, every thread on both sides: push waits, tryPop does not
SPECIFICATION FairSpec
CONSTANTS
  Writers = {worker1, worker2}
  Readers = {worker3, worker4}
  Value = {p1, p2}
  NoValue = NoValue
  NoThread = NoThread
  N = 3
  WriteLock = TRUE
  ReadLock = TRUE
  TimedPop = FALSE
  PushOps = {"block"}
  PopOps = {"try"}
INVARIANTS LocksHeld StoreIsOutsideQueue LoadIsHead
PROPERTIES QueueSpec SoleSleeperIsWoken
