\* Two events that can be announced and two that cannot; two attempts at
\* sending; two faults.  When all are settled the service waits.
SPECIFICATION FairSpec
CONSTANTS
  e1 = e1
  e2 = e2
  e3 = e3
  e4 = e4
  Events <- MCEvents
  Kind <- MCKind
  None = None
  MaxAttempts = 2
  MaxFaults = 2
CHECK_DEADLOCK FALSE
INVARIANTS TypeOK OneEmailButForGaps HeldOnce
PROPERTIES NoEmailOnceRecorded ImplementsDelivery
