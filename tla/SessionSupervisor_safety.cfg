CONSTANTS
  en = en
  ko = ko
  ann = ann
  bob = bob
  nobody = nobody
  Langs = {en, ko}
  Humans = {ann, bob}
  NoHuman = nobody
  Updates <- MCThreeUpdates
  MaxAttempt = 1
  MaxId = 4
  MaxInbox = 1
  MaxSourceQ = 1
  MaxRestarts = 1
  Window = 0
  ResetAfter = 0
VIEW Forgetful
SPECIFICATION Spec
INVARIANTS
  RoutingAgrees
  LiveHasListener
  OneRetry
  NoLeakedChild
  RecorderAgrees
  ListenerConfigured
PROPERTIES
  HealthyListenerKept
CHECK_DEADLOCK FALSE
