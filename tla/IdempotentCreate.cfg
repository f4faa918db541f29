\* Three calls; two keys that share a lock and one that has none.
SPECIFICATION FairSpec
CONSTANTS
  Calls = {c1, c2, c3}
  k1 = k1
  k2 = k2
  k3 = k3
  Keys <- MCKeys
  Hash <- MCHash
  NoKey = NoKey
  NoOrder = NoOrder
CHECK_DEADLOCK FALSE
INVARIANTS TypeOK NoKeyConflict KeyedOrdersFound
PROPERTIES CallsEnd ImplementsStore
