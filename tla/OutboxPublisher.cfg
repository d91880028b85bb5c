SPECIFICATION Spec
CONSTANTS
  w1 = w1
  w2 = w2
  Workers <- MCWorkers
  Events <- MCEvents
  Invalid <- MCInvalid
  NoEvent = NoEvent
  BatchSize = 2
  MaxAttempts = 2
  MaxFaults = 2
INVARIANTS
  TypeOK
  PublishedWasSent
  OnlyInvalidFails
  DuplicatesNeedFaults
PROPERTIES
  RelayKept
  PendingIsSettled
