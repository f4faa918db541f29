\* A client that repeats its request, over gRPC.
SPECIFICATION FairSpec
CONSTANTS
  Reqs = {r1}
  Orders = {o1}
  Keys = {k1}
  Amounts <- MCAuthorized
  NoKey = NoKey
  NoOrder = NoOrder
  NoArg = NoArg
  Adapter = "grpc"
  HasCache = FALSE
PROPERTY PendingPaymentSettles
