SPECIFICATION Spec
CONSTANTS
  w1 = w1
  w2 = w2
  d1 = d1
  d2 = d2
  d3 = d3
  Workers <- OneWorker
  Deliveries <- Two
  Raising <- First
  NoDelivery = NoDelivery
  BatchSize = 2
  MaxAttempts = 2
  Timeout = 1
  MaxOverdue = 2
  MaxFaults = 0
PROPERTY
  OthersSettle
