\* One client of one order, which leaves.
SPECIFICATION FairSpec
CONSTANTS
  Streams = {c1}
  Orders = {o1}
  Blank = Blank
  Capacities = {0, 1, 2, 4}
  Outcomes = {"Paid"}
  MaxChanges = 1
  MaxGone = 1
CHECK_DEADLOCK FALSE
PROPERTY StopEnds
