\* Two calls, racing for one order or publishing for two, with a confirms
\* channel of capacity one; connection and process are lost up to three times.
SPECIFICATION FairSpec
CONSTANTS
  Calls = {c1, c2}
  Orders = {o1, o2}
  Blank = Blank
  NoArg = NoArg
  Amounts <- MCAmounts
  HasPublisher = TRUE
  ConfirmCap = 1
  MaxFaults = 3
INVARIANTS TypeOK OnePaymentPerOrder EventsBacked ReplyTruthful WaitersCovered
PROPERTIES ImplementsLedger CallsReturn
CHECK_DEADLOCK FALSE
