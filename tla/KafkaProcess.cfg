\* Two threads that keep pushing, and room for three messages; or four messages to
\* pull, data, errors and ends of the partition in any order, and two operations; or
\* a command line of up to four arguments.  The options end, and the caller may stop
\* pulling.
CHECK_DEADLOCK FALSE
CONSTANTS
  Pusher = {p1, p2}
  Slot = {m1, m2, m3}
  MaxMessages = 4
  MaxOps = 2
  Program = "tele"
  Value = {"2", "7"}
  MaxArgs = 4
  atoi <- MCatoi
SPECIFICATION MCSpec
INVARIANTS PulledOnce GivenOptionsRead OneDefaultAtMost
PROPERTIES ReportsServed CloseReturns
