CONSTANTS
  r1 = r1
  r2 = r2
  r3 = r3
  small = small
  large = large
  noName = noName
  free = free
  theMonitor = theMonitor
  never = never
  Callers = {r1, r2}
  Names = {small}
  NoName = noName
  Free = free
  Monitor = theMonitor
  Never = never
  Timeout = 1
SPECIFICATION FairSpec
PROPERTIES
  GetAnswered
CHECK_DEADLOCK FALSE
