SPECIFICATION Spec
CONSTANTS
  p1 = p1
  unknown = unknown
  m1 = m1
  m2 = m2
  m3 = m3
  c1 = c1
  c2 = c2
  t1 = t1
  t2 = t2
  Payments <- MCPayments
  Messages <- MCMessages
  PaymentOf <- MCPaymentOf
  Consumers <- MCConsumers
  Tasks <- MCTasks
  Owner <- MCOwner
  NoMessage = NoMessage
  Prefetch = 1
  MaxAttempts <- MixedAttempts
  MaxFaults = 2
INVARIANTS
  TypeOK
  OneWebhookPerFinalPayment
  AckedIsProcessed
  OnlyOverlapDiverges
PROPERTIES
  DeadLetterIsEarned
  SettlementKept
  MessagesSettle
