CONSTANTS
  en = en
  ko = ko
  ann = ann
  bob = bob
  nobody = nobody
  Langs = {en, ko}
  Humans = {ann, bob}
  NoHuman = nobody
  Updates <- MCOneUpdate
  MaxAttempt = 1
  MaxId = 4
  MaxInbox = 1
  MaxSourceQ = 1
  MaxRestarts = 1
  Window = 0
  ResetAfter = 0
SPECIFICATION FairSpec
PROPERTIES
  ShutdownCompletes
  DeadChildHandled
CHECK_DEADLOCK FALSE
