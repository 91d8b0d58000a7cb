\* The slave, with a clock that may stop: three indices, a queue shorter than a
\* batch, and marks that others set and clear.
CONSTANTS
  WordBits = 4
  ONE_DAY_MINUTE = 1
  MAX_FETCH_INDEX = 3
  Token = {t1}
  NoToken = NoToken
  ClockPeriod = 2
  Consumer = {c1}
  BATCHNUMS = 2
  MAX_TASK_QUEUE_SIZE = 1
  MinutesPerHour = 2
  TokenMinutes = 2
  DelayMin = 1
  IsSlave = TRUE
  UninitInt = {5}
SPECIFICATION ThreadSpec
PROPERTIES WindowProgress
