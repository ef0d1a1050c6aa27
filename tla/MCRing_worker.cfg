\* m_vMsgRead: the server thread calls tryPush, one worker calls pop(1000)
SPECIFICATION FairSpec
CONSTANTS
  Writers = {server}
  Readers = {worker}
  Value = {s1, s2, s3}
  NoValue = NoValue
  NoThread = NoThread
  N = 4
  WriteLock = FALSE
  ReadLock = FALSE
  TimedPop = TRUE
  PushOps = {"try"}
  PopOps = {"block"}
INVARIANTS RingInv
PROPERTIES QueueSpec NonEmptyIsDrained
