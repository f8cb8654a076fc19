CONSTANTS
  alpha = alpha
  beta = beta
  s1 = s1
  s2 = s2
  s3 = s3
  noSession = noSession
  noSup = noSup
  Sessions = {alpha, beta}
  NoSession = noSession
  Supervisors = {s1, s2, s3}
  NoSup = noSup
  MaxInbox = 1
  MaxMail = 1
  Faults = TRUE
SPECIFICATION FairSpec
INVARIANTS
  OneSupervisorPerSession
  OneGoesOn
  ActiveIsAnnounced
  TracksRightSession
  NoOrphan
  
PROPERTIES
  FinalizingCompletes
CHECK_DEADLOCK FALSE
