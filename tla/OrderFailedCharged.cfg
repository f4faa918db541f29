\* A deadline passes while payment-service records the payment.
SPECIFICATION Spec
CONSTANTS
  Reqs = {r1, r2}
  Orders = {o1}
  Keys = {k1}
  Amounts <- MCAuthorized
  NoKey = NoKey
  NoOrder = NoOrder
  NoArg = NoArg
  Adapter = "grpc"
  HasCache = FALSE
INVARIANT FailedNotCharged
