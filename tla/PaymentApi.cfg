SPECIFICATION Spec
CONSTANTS
  r1 = r1
  r2 = r2
  r3 = r3
  k1 = k1
  k2 = k2
  Requests <- MCRequests
  Keys <- MCKeys
  Inputs <- MCInputs
  NoKey = NoKey
  NoPayment = NoPayment
  MaxFaults = 2
INVARIANTS
  TypeOK
  OnePaymentPerKey
  AcceptedIsDurable
  AnswersAgree
  EventIffPayment
  ServerErrorsExplained
PROPERTIES
  PromiseKept
  RequestsAnswered
