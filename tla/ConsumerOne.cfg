\* One consumer over two windows: the queues, the fail list, the extra tasks.
CONSTANTS
  WordBits = 3
  ONE_DAY_MINUTE = 3
  MAX_FETCH_INDEX = 2
  Token = {t1}
  NoToken = NoToken
  ClockPeriod = 3
  Consumer = {c1}
  BATCHNUMS = 2
  MAX_TASK_QUEUE_SIZE = 2
  MinutesPerHour = 3
  TokenMinutes = 2
  DelayMin = 1
  IsSlave = FALSE
  UninitInt = {5}
  NoTask = NoTask
  EXTRA_END = 4
  MAX_DELAY_SIZE = 2
  MAX_FAIL_SIZE = 2
  RETRY_MAX = 2
SPECIFICATION MCSafeSpec
INVARIANTS SystemTypeOK DelayWhole ExtraAfterLast
