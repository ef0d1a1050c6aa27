\* one worker that answers; the peer's window closes and opens
SPECIFICATION FairSpec
CONSTANTS
  Session = {s1, s2}
  Fd = {f1}
  None = None
  Workers = {w1}
  MaxQueue = 1
  MaxActive = 3
  CanBlock = TRUE
  SetsTimeout = FALSE
  NoGapRace = TRUE
PROPERTIES StartsClean LeftoverIsTried BrokenIsUnregistered ReadSessionsAreRecycled
