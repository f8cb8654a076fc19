CONSTANTS
  r1 = r1
  r2 = r2
  r3 = r3
  small = small
  large = large
  noName = noName
  free = free
  theMonitor = theMonitor
  never = never
  Callers = {r1, r2, r3}
  Names = {small, large}
  NoName = noName
  Free = free
  Monitor = theMonitor
  Never = never
  Timeout = 2
SPECIFICATION Spec
SYMMETRY MCSymmetry

  
PROPERTIES
  OnlyIdleEvicted
CHECK_DEADLOCK FALSE
