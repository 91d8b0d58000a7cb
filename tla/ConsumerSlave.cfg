\* A whole slave process, both bits in one word, over two windows, while others
\* store in the map: as a slave of FetchLedger among others.
CONSTANTS
  WordBits = 2
  ONE_DAY_MINUTE = 3
  MAX_FETCH_INDEX = 2
  Token = {t1}
  NoToken = NoToken
  ClockPeriod = 3
  Consumer = {c1}
  BATCHNUMS = 2
  MAX_TASK_QUEUE_SIZE = 2
  MinutesPerHour = 3
  TokenMinutes = 2
  DelayMin = 1
  IsSlave = TRUE
  UninitInt = {5}
  NoTask = NoTask
  EXTRA_END = 2
  MAX_DELAY_SIZE = 0
  MAX_FAIL_SIZE = 1
  RETRY_MAX = 1
SPECIFICATION MCAmongOthersSpec
PROPERTIES ImplementsLedgerAmongOthers ImplementsDispenser
