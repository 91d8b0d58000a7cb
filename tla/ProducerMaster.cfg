\* The master: three indices, batches of two, a queue of two, words of two
\* bits, and a clock of four minutes.  The row of the map does not matter to
\* the producer of the master, so a day is one minute long.
CONSTANTS
  WordBits = 2
  ONE_DAY_MINUTE = 1
  MAX_FETCH_INDEX = 3
  Token = {t1, t2}
  NoToken = NoToken
  ClockPeriod = 4
  Consumer = {c1, c2}
  BATCHNUMS = 2
  MAX_TASK_QUEUE_SIZE = 2
  MinutesPerHour = 2
  TokenMinutes = 2
  DelayMin = 1
  IsSlave = FALSE
  UninitInt <- MCUninit
SYMMETRY Symmetry
SPECIFICATION SafeSpec
INVARIANTS TypeOK IndexReady NoLostWakeup QueueOfWindow NothingSkipped WindowOfMinute
PROPERTIES IdentityErrorKept ImplementsDispenser
