--------------------------- MODULE TeleTaskConsumer ---------------------------
(***************************************************************************)
(* The consumer threads and the refetch thread of tele_task_consumer.cpp,  *)
(* composed with the producer and the shared map: one whole process.       *)
(*                                                                         *)
(* Grain.  What a fetch is answered, what is decoded out of the answer and *)
(* whether Kafka takes it are one choice of the environment, made in the   *)
(* step in which the thread acts on it: in between, the thread touches     *)
(* nothing that another one sees.  Setting a bit of the shared map is a    *)
(* load and a store, the granularity at which threads lose updates.        *)
(*                                                                         *)
(* A process is followed for ClockPeriod minutes, in which no name of a    *)
(* minute is used twice.                                                   *)
(***************************************************************************)
EXTENDS TeleTaskProducer

CONSTANTS
  NoTask,           \* the null pointer
  EXTRA_END,        \* end of the extra indices: 30000 in the code
  MAX_DELAY_SIZE,   \* 20000 in the code
  MAX_FAIL_SIZE,    \* bound of fail_task_list_: 300 in the code
  RETRY_MAX         \* failures after which a task is given up: 3 in the code

SystemTask ==
  [index : 0 .. EXTRA_END - 1, time_str : ClockMinute,
   token : Token \cup {NoToken}, type : {TASK_NORMAL, TASK_DELAY},
   minute_index : Minute, retry_count : 0 .. RETRY_MAX]

ASSUME ConsumerAssumption ==
  /\ NoTask \notin SystemTask
  /\ EXTRA_END \in Nat /\ EXTRA_END >= MAX_FETCH_INDEX
  /\ MAX_DELAY_SIZE = EXTRA_END - MAX_FETCH_INDEX
  /\ MAX_FAIL_SIZE \in Nat
  /\ RETRY_MAX \in Nat \ {0}

VARIABLES
  cpc,                \* where each consumer thread is
  task,               \* its task
  cword,              \* the word it loaded from the map
  delay_task_queue,   \* its own queue of extra tasks
  fail_task_list_,
  refetch_task,       \* the task of the refetch thread
  \* History, read by the properties only:
  pushed,             \* the <<time_str, index>> the consumers got into Kafka
  repushed,           \* and those the refetch thread got there
  spoiled             \* the <<minute, index>> whose bit a lost update changed

threadVars  == <<cpc, task, cword, delay_task_queue, fail_task_list_,
                 refetch_task>>
historyVars == <<pushed, repushed, spoiled>>
systemVars  == <<producerVars, threadVars, historyVars>>

SystemInit ==
  /\ Init
  /\ now = 0
  /\ cpc = [c \in Consumer |-> "get"]
  /\ task = [c \in Consumer |-> NoTask]
  /\ cword = [c \in Consumer |-> {}]
  /\ delay_task_queue = [c \in Consumer |-> <<>>]
  /\ fail_task_list_ = <<>>
  /\ refetch_task = NoTask
  /\ pushed = {} /\ repushed = {} /\ spoiled = {}

Key(t) == <<t.time_str, t.index>>

Smaller(a, b) == IF a <= b THEN a ELSE b

-----------------------------------------------------------------------------
(* The fail list and the extra tasks. *)

SaveFailTask_Fault(list, t) ==
  IF Len(list) < MAX_FAIL_SIZE THEN Append(list, t) ELSE list

\* The list after the call.  A task it has no room for is deleted by both
\* callers.
SaveFailTask(list, t) ==
  IF Len(list) < MAX_FAIL_SIZE
  THEN Append(list, [t EXCEPT !.retry_count = @ + 1])
  ELSE list

ExtraTasks(number, tok, time_str) ==
  [k \in 1 .. number |->
     BuildTask(MAX_FETCH_INDEX + k - 1, tok, time_str, TASK_DELAY)]

NumberOfExtra == EXTRA_END - MAX_FETCH_INDEX

CreateExtroTasks_Fault(queue, tok, time_str) ==
  queue \o ExtraTasks(Smaller(NumberOfExtra, MAX_DELAY_SIZE - 1 - Len(queue)),
                      tok, time_str)

\* A task the queue has no room for is deleted.
CreateExtroTasks(queue, tok, time_str) ==
  queue \o ExtraTasks(Smaller(NumberOfExtra, MAX_DELAY_SIZE - Len(queue)),
                      tok, time_str)

\* What producer_push_data may make of a value: the queue of the Kafka
\* library may be full.
Store == {0, -1}

-----------------------------------------------------------------------------
(* TeleConsumerThread. *)

TakeTask(c, t) ==
  /\ task' = [task EXCEPT ![c] = t]
  /\ cpc' = [cpc EXCEPT ![c] = "fetch"]

DeleteTask(c) ==
  /\ task' = [task EXCEPT ![c] = NoTask]
  /\ cpc' = [cpc EXCEPT ![c] = "get"]

(* The indices whose bit another thread changed after w was loaded for     *)
(* index j of minute m: a store of w changes it back.                      *)
LostUpdates(m, j, w) ==
  {<<m, k>> : k \in {k \in Index \ {j} :
                      /\ WordOf(k) = WordOf(j)
                      /\ (BitOf(k) \in w) # IS_SET(fetch_map, m, k)}}

Consumer_Delay(c) ==
  /\ ppc # "init"   \* main starts the threads after the producer's Init
  /\ cpc[c] = "get" /\ delay_task_queue[c] # <<>>
  /\ TakeTask(c, Head(delay_task_queue[c]))
  /\ delay_task_queue' = [delay_task_queue EXCEPT ![c] = Tail(@)]
  /\ UNCHANGED <<producerVars, cword, fail_task_list_, refetch_task,
                 historyVars>>

Consumer_Pop_Fault(c) ==
  /\ cpc[c] = "get" /\ delay_task_queue[c] = <<>>
  /\ c \notin waiting /\ producer_queue_ # <<>>
  /\ producer_queue_' = Tail(producer_queue_)
  /\ TakeTask(c, Head(producer_queue_))
  /\ UNCHANGED <<now, ppc, task_lock_, waiting, index_, fetch_time_str_,
                 old_tm_min, current_min, i, n, word, token, fetch_map, cword,
                 delay_task_queue, fail_task_list_, refetch_task, historyVars>>

Consumer_Pop(c) ==
  /\ cpc[c] = "get" /\ delay_task_queue[c] = <<>>
  /\ GetTask_Pop(c)
  /\ TakeTask(c, Head(producer_queue_))
  /\ UNCHANGED <<cword, delay_task_queue, fail_task_list_, refetch_task,
                 historyVars>>

Consumer_Wait(c) ==
  /\ cpc[c] = "get" /\ delay_task_queue[c] = <<>>
  /\ GetTask_Wait(c)
  /\ UNCHANGED <<threadVars, historyVars>>

Consumer_Wakeup(c) ==
  /\ GetTask_Wakeup(c)
  /\ UNCHANGED <<threadVars, historyVars>>

Consumer_FetchFails(c) ==
  /\ cpc[c] = "fetch" /\ "fail" \in FetchOutcome
  /\ fail_task_list_' = SaveFailTask(fail_task_list_, task[c])
  /\ DeleteTask(c)
  /\ UNCHANGED <<producerVars, cword, delay_task_queue, refetch_task,
                 historyVars>>

\* Only the task with index 0 reports a refused token.
Consumer_FetchDropped(c) ==
  /\ cpc[c] = "fetch"
  /\ \/ "drop" \in FetchOutcome
     \/ "refused" \in FetchOutcome /\ task[c].index # 0
     \/ "store" \in FetchOutcome /\ -1 \in Store
  /\ DeleteTask(c)
  /\ UNCHANGED <<producerVars, cword, delay_task_queue, fail_task_list_,
                 refetch_task, historyVars>>

Consumer_FetchRefused(c) ==
  /\ cpc[c] = "fetch" /\ "refused" \in FetchOutcome
  /\ task[c].index = 0
  /\ SetIdentityError
  /\ DeleteTask(c)
  /\ UNCHANGED <<cword, delay_task_queue, fail_task_list_, refetch_task,
                 historyVars>>

Marks(t) == t.type = TASK_NORMAL /\ t.index < MAX_FETCH_INDEX

Consumer_Store(c) ==
  /\ cpc[c] = "fetch" /\ "store" \in FetchOutcome /\ 0 \in Store
  /\ pushed' = pushed \cup {Key(task[c])}
  /\ IF Marks(task[c])
     THEN cpc' = [cpc EXCEPT ![c] = "load"] /\ UNCHANGED task
     ELSE DeleteTask(c)
  /\ UNCHANGED <<producerVars, cword, delay_task_queue, fail_task_list_,
                 refetch_task, repushed, spoiled>>

Consumer_Load(c) ==
  /\ cpc[c] = "load"
  /\ cword' = [cword EXCEPT
                 ![c] = LoadWord(fetch_map, task[c].minute_index, task[c].index)]
  /\ cpc' = [cpc EXCEPT ![c] = "store"]
  /\ UNCHANGED <<producerVars, task, delay_task_queue, fail_task_list_,
                 refetch_task, historyVars>>

CreatesExtra_Fault(t) == t.index = MAX_FETCH_INDEX - 2

\* The literal 9999.
CreatesExtra(t) == t.index = MAX_FETCH_INDEX - 1

Consumer_SetBit(c) ==
  LET t == task[c] IN
  /\ cpc[c] = "store"
  /\ ShmWrite(t.minute_index, t.index, WithBit(cword[c], t.index))
  /\ spoiled' = spoiled \cup LostUpdates(t.minute_index, t.index, cword[c])
  /\ delay_task_queue' =
       IF CreatesExtra(t)
       THEN [delay_task_queue EXCEPT ![c] =
                CreateExtroTasks(@, t.token, t.time_str)]
       ELSE delay_task_queue
  /\ cword' = [cword EXCEPT ![c] = {}]   \* the loaded word dies
  /\ DeleteTask(c)
  /\ UNCHANGED <<fail_task_list_, refetch_task, pushed, repushed>>

TeleConsumerThread(c) ==
  \/ Consumer_Delay(c)
  \/ Consumer_Pop(c)
  \/ Consumer_Wait(c)
  \/ Consumer_FetchFails(c)
  \/ Consumer_FetchDropped(c)
  \/ Consumer_FetchRefused(c)
  \/ Consumer_Store(c)
  \/ Consumer_Load(c)
  \/ Consumer_SetBit(c)

-----------------------------------------------------------------------------
(* TeleConsumerRefetchThread. *)

RefetchUnchanged == <<producerVars, cpc, task, cword, delay_task_queue>>

GetFailTask ==
  /\ refetch_task = NoTask /\ fail_task_list_ # <<>>
  /\ refetch_task' = Head(fail_task_list_)
  /\ fail_task_list_' = Tail(fail_task_list_)
  /\ UNCHANGED <<RefetchUnchanged, historyVars>>

Refetch_Fails_Fault ==
  /\ refetch_task # NoTask /\ "fail" \in FetchOutcome
  /\ fail_task_list_' = IF refetch_task.retry_count <= RETRY_MAX
                        THEN SaveFailTask(fail_task_list_, refetch_task)
                        ELSE fail_task_list_
  /\ refetch_task' = NoTask
  /\ UNCHANGED <<RefetchUnchanged, historyVars>>

Refetch_Fails ==
  /\ refetch_task # NoTask /\ "fail" \in FetchOutcome
  /\ fail_task_list_' = IF refetch_task.retry_count < RETRY_MAX
                        THEN SaveFailTask(fail_task_list_, refetch_task)
                        ELSE fail_task_list_
  /\ refetch_task' = NoTask
  /\ UNCHANGED <<RefetchUnchanged, historyVars>>

\* A refused token is not reported from here.
Refetch_Dropped ==
  /\ refetch_task # NoTask
  /\ \/ FetchOutcome \cap {"drop", "refused"} # {}
     \/ "store" \in FetchOutcome /\ -1 \in Store
  /\ refetch_task' = NoTask
  /\ UNCHANGED <<RefetchUnchanged, fail_task_list_, historyVars>>

Refetch_Store_Fault ==
  /\ refetch_task # NoTask /\ "store" \in FetchOutcome /\ 0 \in Store
  /\ repushed' = repushed \cup {Key(refetch_task)}
  /\ UNCHANGED <<RefetchUnchanged, refetch_task, fail_task_list_, pushed,
                 spoiled>>

\* The bit of the index is not set, and no extra tasks are created.
Refetch_Store ==
  /\ refetch_task # NoTask /\ "store" \in FetchOutcome /\ 0 \in Store
  /\ repushed' = repushed \cup {Key(refetch_task)}
  /\ refetch_task' = NoTask
  /\ UNCHANGED <<RefetchUnchanged, fail_task_list_, pushed, spoiled>>

TeleConsumerRefetchThread ==
  GetFailTask \/ Refetch_Fails \/ Refetch_Dropped \/ Refetch_Store

-----------------------------------------------------------------------------
(* The process. *)

Producer_Step ==
  /\ ProducerInit \/ TeleProducerThread
  /\ spoiled' = IF ppc = "clear"
                 THEN spoiled \cup LostUpdates(MinuteIndex, i, word)
                 ELSE spoiled
  /\ UNCHANGED <<threadVars, pushed, repushed>>

\* Bound: the clock stops before a name of a minute would come again.
Clock_Step ==
  /\ now + 1 < ClockPeriod
  /\ Tick
  /\ UNCHANGED <<threadVars, historyVars>>

SystemNext ==
  \/ Producer_Step
  \/ \E c \in Consumer : TeleConsumerThread(c) \/ Consumer_Wakeup(c)
  \/ TeleConsumerRefetchThread
  \/ Clock_Step

SystemSafeSpec == SystemInit /\ [][SystemNext]_systemVars

(* Fairness: every thread keeps running; every HTTP request ends by its    *)
(* timeout.  No answer of the service is promised.                         *)
SystemFairness ==
  /\ WF_systemVars(Producer_Step)
  /\ WF_systemVars(TeleConsumerRefetchThread)
  /\ \A c \in Consumer : SF_systemVars(TeleConsumerThread(c))

SystemSpec == SystemSafeSpec /\ SystemFairness

(* The process among others that share its map: their threads store words  *)
(* of it at any moment, also between a load and a store of this process.   *)
Others_Store ==
  /\ \E m \in Minute, j \in Index, w \in Word : ShmWrite(m, j, w)
  /\ UNCHANGED <<threadVars, historyVars>>

AmongOthersSpec == SystemInit /\ [][SystemNext \/ Others_Store]_systemVars

-----------------------------------------------------------------------------
(* Properties. *)

Elements(q) == {q[k] : k \in 1 .. Len(q)}

SystemTypeOK ==
  /\ cpc \in [Consumer -> {"get", "fetch", "load", "store"}]
  /\ \A c \in Consumer :
       /\ task[c] = NoTask <=> cpc[c] = "get"
       /\ cword[c] \in Word
       /\ c \in waiting => cpc[c] = "get" /\ delay_task_queue[c] = <<>>
       /\ cpc[c] \in {"load", "store"} => Marks(task[c])
  /\ Len(fail_task_list_) <= MAX_FAIL_SIZE
  /\ \A t \in Elements(fail_task_list_) \cup ({refetch_task} \ {NoTask}) :
       t.retry_count \in 1 .. RETRY_MAX
  /\ pushed \subseteq ClockMinute \X (0 .. EXTRA_END - 1)
  /\ repushed \subseteq ClockMinute \X (0 .. EXTRA_END - 1)
  /\ spoiled \subseteq Minute \X Index

(* Every task alive, with the place that owns it.                          *)
Owned ==
  {<<"queue", 0, k, Key(producer_queue_[k])>> : k \in 1 .. Len(producer_queue_)}
    \cup {<<"fetch", c, 0, Key(task[c])>> : c \in {d \in Consumer : cpc[d] = "fetch"}}
    \cup (UNION {{<<"delay", c, k, Key(delay_task_queue[c][k])>> :
                   k \in 1 .. Len(delay_task_queue[c])} : c \in Consumer})
    \cup {<<"fail", 0, k, Key(fail_task_list_[k])>> : k \in 1 .. Len(fail_task_list_)}
    \cup {<<"refetch", 0, 0, Key(t)>> : t \in {refetch_task} \ {NoTask}}

(* A task is in one place at a time, whichever of the two queues, the fail *)
(* list and the threads hand it on, and no longer anywhere once it has     *)
(* been pushed: no pointer is deleted or used twice, and no value of a     *)
(* minute reaches Kafka twice from one process.                            *)
OneOwner ==
  /\ \A x, y \in Owned : x[4] = y[4] => x = y
  /\ \A x \in Owned : x[4] \notin pushed \cup repushed
  /\ pushed \cap repushed = {}

(* A delay queue always is what is left of all the extra tasks of one      *)
(* window: CreateExtroTasks finds the queue empty, so MAX_DELAY_SIZE,      *)
(* which is exactly their number, never makes it delete one.               *)
DelayWhole ==
  \A c \in Consumer :
    LET q == delay_task_queue[c]
    IN  \A k \in 1 .. Len(q) :
          /\ q[k].index = EXTRA_END - 1 - (Len(q) - k)
          /\ q[k].index >= MAX_FETCH_INDEX
          /\ q[k].time_str = q[1].time_str

(* Extra tasks exist only after the last index of their window was pushed  *)
(* by the thread that has them.                                            *)
ExtraAfterLast ==
  \A x \in Owned : x[4][2] >= MAX_FETCH_INDEX =>
    <<x[4][1], MAX_FETCH_INDEX - 1>> \in pushed

(* In the part of the window the master has been through, a bit that is    *)
(* one is the bit of an index that was pushed in this window, whatever the *)
(* map held before, but for lost updates.                                  *)
BitMeansPushed ==
  ~IsSlave /\ Window =>
    \A j \in Index :
      j < NextIndex /\ IS_SET(fetch_map, MinuteIndex, j) =>
        \/ <<fetch_time_str_, j>> \in pushed
        \/ <<MinuteIndex, j>> \in spoiled

(* What a consumer pushed is marked in the map as soon as the consumer     *)
(* takes another task, and stays marked for the rest of the day, but for   *)
(* lost updates.                                                           *)
PushedMeansBit ==
  \A x \in pushed :
    \/ x[2] >= MAX_FETCH_INDEX
    \/ IS_SET(fetch_map, x[1] % ONE_DAY_MINUTE, x[2])
    \/ <<x[1] % ONE_DAY_MINUTE, x[2]>> \in spoiled
    \/ \E c \in Consumer : cpc[c] \in {"load", "store"} /\ Key(task[c]) = x

(* Composed with its consumers, the producer still does only what its own  *)
(* specification allows, so what is shown of it there holds here.          *)
ImplementsProducer == SafeSpec

(* Seen by the keys alone, a process does what FetchLedger says a process  *)
(* does, so what MasterSlave shows of several of them is about this code.  *)
StageOf(k) ==
  CASE \E t \in Elements(producer_queue_) : Key(t) = k -> "queued"
    [] \E c \in Consumer : k \in {Key(t) : t \in Elements(delay_task_queue[c])}
         -> "queued"
    [] \E c \in Consumer : cpc[c] = "fetch" /\ Key(task[c]) = k -> "fetching"
    [] \E c \in Consumer : cpc[c] \in {"load", "store"} /\ Key(task[c]) = k
         -> "marking"
    [] \E t \in Elements(fail_task_list_) \cup ({refetch_task} \ {NoTask}) :
         Key(t) = k -> "failed"
    [] OTHER -> "none"

LedgerKey == ClockMinute \X (0 .. EXTRA_END - 1)

Ledger ==
  INSTANCE FetchLedger WITH
    Process <- {"this"},
    Slave <- IF IsSlave THEN {"this"} ELSE {},
    Delay <- [p \in {"this"} |-> DelayMin],
    Threads <- Cardinality(Consumer),
    minute <- [p \in {"this"} |->
                 IF Window THEN (fetch_time_str_ + DelayMin) % ClockPeriod ELSE -1],
    next <- [p \in {"this"} |-> IF Window THEN NextIndex ELSE -1],
    stage <- [p \in {"this"} |-> [k \in LedgerKey |-> StageOf(k)]],
    marked <- {b \in Minute \X Index : IS_SET(fetch_map, b[1], b[2])},
    stored <- [k \in LedgerKey |-> IF k \in pushed THEN 1 ELSE 0],
    restored <- [k \in LedgerKey |-> IF k \in repushed THEN 1 ELSE 0]

ImplementsLedger == Ledger!LedgerSpec

(* Among others too: whatever they do to the map between any two of its    *)
(* steps, a process does what FetchLedger says, and nothing else.          *)
ImplementsLedgerAmongOthers == Ledger!AmongOthersSpec

(* A task in the fail list is fetched again until it is pushed, dropped or *)
(* given up: it does not go round for ever, however often it fails.        *)
FailedTaskSettles ==
  \A x \in ClockMinute \X (0 .. EXTRA_END - 1) :
    (\E t \in Elements(fail_task_list_) : Key(t) = x)
      ~> \A y \in Owned : y[4] # x

=============================================================================
