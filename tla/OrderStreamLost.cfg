\* One client of one order, one change of its status.
SPECIFICATION FairSpec
CONSTANTS
  Streams = {c1}
  Orders = {o1}
  Blank = Blank
  Capacities = {0, 1, 2, 4}
  Outcomes = {"Paid"}
  MaxChanges = 1
  MaxGone = 0
CHECK_DEADLOCK FALSE
PROPERTY SubscribersLearnStatus
