CONSTANTS
  OldPieces = 2
  MaxPieces = 4
  TornEncode = FALSE
SPECIFICATION DiskSpec
INVARIANTS
  NothingLost
  
