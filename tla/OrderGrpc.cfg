\* Two concurrent requests, with two keys, for one order over gRPC, with a cache.
SPECIFICATION FairSpec
CONSTANTS
  Reqs = {r1, r2}
  Orders = {o1}
  Keys = {k1, k2}
  Amounts <- MCAmounts
  NoKey = NoKey
  NoOrder = NoOrder
  NoArg = NoArg
  Adapter = "grpc"
  HasCache = TRUE
INVARIANTS TypeOK PaidIsAuthorized ChargeMatchesOrder FailedHasCause OneOrderPerKey
PROPERTIES OnlyStaleReadersOverwrite RequestsEnd
