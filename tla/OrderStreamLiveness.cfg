\* Two clients of one order, two changes of its status.
SPECIFICATION FairSpec
CONSTANTS
  Streams = {c1, c2}
  Orders = {o1}
  Blank = Blank
  Capacities = {0, 1, 2, 4}
  Outcomes = {"Paid", "Failed"}
  MaxChanges = 2
  MaxGone = 1
CHECK_DEADLOCK FALSE
PROPERTIES PollCatchesUp UpdateReleasesBroken
