\* Three clients of one order, one change of its status.
SPECIFICATION Spec
CONSTANTS
  Streams = {c1, c2, c3}
  Orders = {o1}
  Blank = Blank
  Capacities = {0, 1, 2, 4}
  MaxChanges = 1
  MaxGone = 2
  Outcomes = {"Paid"}
CHECK_DEADLOCK FALSE
SYMMETRY Symmetry
INVARIANTS TypeOK RegistryExact MissedAtMostLeavers GivenUpOnlyIfBroken
