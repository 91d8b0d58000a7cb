\* A slave that follows its master at a minute's distance through a window of two
\* indices, in one word of the map, and one extra index; either may crash once, or
\* have begun another window.  The bounds on the clock, the crashes and the other
\* windows let the model stop.
CHECK_DEADLOCK FALSE
CONSTANTS
  master = master
  slave = slave
  Process = {master, slave}
  Slave = {slave}
  SlaveDelay = 2
  Delay <- MCDelay
  Threads = 2
  ClockPeriod = 3
  ONE_DAY_MINUTE = 3
  WordBits = 2
  MAX_FETCH_INDEX = 2
  EXTRA_END = 3
  Common = 2
  MaxDetours = 1
  MaxReach = 1
SPECIFICATION MCSpec
INVARIANTS LedgerTypeOK MarkMeansStored NothingMissed PushedOncePerLife ExtraFollowsLast
