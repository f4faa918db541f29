\* Two calls share the confirms channel; no faults are needed.
SPECIFICATION Spec
CONSTANTS
  Calls = {c1, c2}
  Orders = {o1, o2}
  Blank = Blank
  NoArg = NoArg
  Amounts <- MCAuthorized
  HasPublisher = TRUE
  ConfirmCap = 8
  MaxFaults = 0
CHECK_DEADLOCK FALSE
INVARIANT ConfirmedBeforeSuccess
