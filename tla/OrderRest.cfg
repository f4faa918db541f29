\* Two concurrent requests for one order over REST, with a cache.
SPECIFICATION FairSpec
CONSTANTS
  Reqs = {r1, r2}
  Orders = {o1}
  Keys = {k1}
  Amounts <- MCAuthorized
  NoKey = NoKey
  NoOrder = NoOrder
  NoArg = NoArg
  Adapter = "rest"
  HasCache = TRUE
INVARIANT FailedHasCause
PROPERTIES CacheConverges PendingPaymentSettles
