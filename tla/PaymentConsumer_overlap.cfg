SPECIFICATION Spec
CONSTANTS
  p1 = p1
  unknown = unknown
  m1 = m1
  m2 = m2
  m3 = m3
  c1 = c1
  c2 = c2
  t1 = t1
  t2 = t2
  Payments <- MCPayments
  Messages <- DupMessages
  PaymentOf <- DupPaymentOf
  Consumers <- OneConsumer
  Tasks <- MCTasks
  Owner <- OneOwner
  NoMessage = NoMessage
  Prefetch = 2
  MaxAttempts <- OneAttempts
  MaxFaults = 0
INVARIANT
  WebhookTellsResult
