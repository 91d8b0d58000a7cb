\* Two consumers and the producer on one word of the map, in one window.
CONSTANTS
  WordBits = 3
  ONE_DAY_MINUTE = 2
  MAX_FETCH_INDEX = 3
  Token = {t1}
  NoToken = NoToken
  ClockPeriod = 2
  Consumer = {c1, c2}
  BATCHNUMS = 2
  MAX_TASK_QUEUE_SIZE = 2
  MinutesPerHour = 2
  TokenMinutes = 2
  DelayMin = 1
  IsSlave = FALSE
  UninitInt = {5}
  NoTask = NoTask
  EXTRA_END = 4
  MAX_DELAY_SIZE = 1
  MAX_FAIL_SIZE = 1
  RETRY_MAX = 1
SYMMETRY Symmetry
SPECIFICATION MCSafeSpec
INVARIANTS OneOwner BitMeansPushed PushedMeansBit
PROPERTIES ImplementsProducer
