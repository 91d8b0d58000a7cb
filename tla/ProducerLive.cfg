\* With the clock running: two indices, batches of one, a queue of one.
CONSTANTS
  WordBits = 3
  ONE_DAY_MINUTE = 1
  MAX_FETCH_INDEX = 2
  Token = {t1}
  NoToken = NoToken
  ClockPeriod = 2
  Consumer = {c1, c2}
  BATCHNUMS = 1
  MAX_TASK_QUEUE_SIZE = 1
  MinutesPerHour = 2
  TokenMinutes = 2
  DelayMin = 1
  IsSlave = FALSE
  UninitInt = {5}
SPECIFICATION Spec
PROPERTIES WaiterWakes WindowMoves TokenReplaced
