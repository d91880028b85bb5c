SPECIFICATION Spec
CONSTANTS
  w1 = w1
  w2 = w2
  d1 = d1
  d2 = d2
  d3 = d3
  Workers <- TwoWorkers
  Deliveries <- Three
  Raising <- Third
  NoDelivery = NoDelivery
  BatchSize = 1
  MaxAttempts = 2
  Timeout = 1
  MaxOverdue = 0
  MaxFaults = 1
INVARIANTS
  TypeOK
  DeliveredWasAnswered
  FailureIsEarned
  RequestsAccounted
PROPERTIES
  AttemptsAreSpaced
  NotificationKept
  DeliverySettles
