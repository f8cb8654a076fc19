CONSTANTS
  a = a
  b = b
  c = c
  t1 = t1
  t2 = t2
  noStart = noStart
  noTitle = noTitle
  Starts = {a, b, c}
  NoStart = noStart
  Titles = {t1, t2}
  NoTitle = noTitle
  MaxStamps = 2
  Faults = TRUE
  Overlaps = FALSE
SYMMETRY MCSymmetry
SPECIFICATION Spec
INVARIANTS
  NoLeakedLease
  RenameNotForgotten
  RecorderDirStays
  
  NoMoveWhileRecording
