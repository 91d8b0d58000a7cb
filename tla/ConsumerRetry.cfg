\* One consumer, two tasks that may fail for ever, the retries of the code; also a
\* master of FetchLedger.  Both bits are in one word, and a batch is one task, so a
\* consumer works between the master's steps, and stores that lose updates happen.
CONSTANTS
  WordBits = 2
  ONE_DAY_MINUTE = 2
  MAX_FETCH_INDEX = 2
  Token = {t1}
  NoToken = NoToken
  ClockPeriod = 2
  Consumer = {c1}
  BATCHNUMS = 1
  MAX_TASK_QUEUE_SIZE = 2
  MinutesPerHour = 2
  TokenMinutes = 2
  DelayMin = 1
  IsSlave = FALSE
  UninitInt = {5}
  NoTask = NoTask
  EXTRA_END = 3
  MAX_DELAY_SIZE = 1
  MAX_FAIL_SIZE = 2
  RETRY_MAX = 3
SPECIFICATION MCSpec
PROPERTIES FailedTaskSettles ImplementsLedger 
