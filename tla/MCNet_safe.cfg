\* two workers, two descriptor numbers: sessions and numbers are recycled
SPECIFICATION Spec
CONSTANTS
  Session = {s1, s2, s3}
  Fd = {f1, f2}
  None = None
  Workers = {w1, w2}
  MaxQueue = 1
  MaxActive = 4
  CanBlock = FALSE
  SetsTimeout = TRUE
  NoGapRace = TRUE
SYMMETRY Symmetry
INVARIANTS NetInv
PROPERTIES StartsClean RecyclingSpec
