SPECIFICATION Spec
CONSTANTS
  p1 = p1
  unknown = unknown
  m1 = m1
  m2 = m2
  m3 = m3
  c1 = c1
  c2 = c2
  t1 = t1
  t2 = t2
  Payments <- MCPayments
  Messages <- DupMessages
  PaymentOf <- DupPaymentOf
  Consumers <- MCConsumers
  Tasks <- MCTasks
  Owner <- MCOwner
  NoMessage = NoMessage
  Prefetch = 1
  MaxAttempts <- TwoAttempts
  MaxFaults = 3
INVARIANT
  RetriesAreBounded
