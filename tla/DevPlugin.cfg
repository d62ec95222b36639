SPECIFICATION Spec
CONSTANTS
  N = 2
  MaxFaults = 1
  MaxRestarts = 2
  MaxSignals = 1
INVARIANTS
  TypeOK
  RegistrationKnown
  EndpointInPlace
  NoOrphanHandler
  LockedOutOnlyByFault
PROPERTIES
  EventuallySettled
  TermHonoured
  FollowsFeed
  FollowsEndpoint
CHECK_DEADLOCK FALSE
