--------------------------- MODULE TeleTaskProducer ---------------------------
(***************************************************************************)
(* The task producer of tele_task_producer.cpp: the bounded queue of the   *)
(* current fetch window, the token, and the thread that fills the queue    *)
(* and moves the window with the clock.                                    *)
(*                                                                         *)
(* The rest of the program appears as what it may do to this component at  *)
(* any moment: take a task (GetTask), report a refused token               *)
(* (SetIdentityError), store a word of the shared map (ShmWrite).          *)
(* TeleTaskConsumer gives the consumers their own state and code.          *)
(*                                                                         *)
(* Grain.  task_lock_ is held over several steps only by PushTaskBatch,    *)
(* whose loop touches the unlocked shared map; every other critical        *)
(* section is one step, enabled while the lock is free.                    *)
(***************************************************************************)
EXTENDS TeleMat, HttpJson, Sequences, FiniteSets

CONSTANTS
  Consumer,              \* the threads that call GetTask
  BATCHNUMS,             \* tasks of one PushTaskBatch: 200 in the code
  MAX_TASK_QUEUE_SIZE,   \* 600 in the code
  MinutesPerHour,        \* range of tm_min: 60 in the code
  TokenMinutes,          \* minutes a token is kept: 60 in the code
  DelayMin,              \* delay_min_: the option -m, any int
  IsSlave,               \* the option --slave
  UninitInt              \* ints an uninitialised member may hold

ASSUME ProducerAssumption ==
  /\ BATCHNUMS \in Nat \ {0}
  /\ MAX_TASK_QUEUE_SIZE \in Nat \ {0}
  /\ MinutesPerHour \in Nat \ {0}
  /\ TokenMinutes \in Nat \ {0}
  /\ DelayMin \in Int
  /\ IsSlave \in BOOLEAN
  /\ UninitInt \subseteq Int
  /\ ClockPeriod % ONE_DAY_MINUTE = 0
  /\ ClockPeriod % MinutesPerHour = 0

VARIABLES
  now,               \* the wall clock, in minutes
  ppc,               \* where the producer thread is
  task_lock_,        \* is task_lock_ held by PushTaskBatch?
  waiting,           \* the consumers blocked on not_empty_
  producer_queue_,
  index_,
  fetch_time_str_,
  old_tm_min,        \* old_tm_->tm_min
  current_min,       \* current_tm of CheckandUpdateTask, as a minute
  i, n, word,        \* the locals of PushTaskBatch's loop; the loaded word
  token,             \* token_str_, need_update_token_, token_update_minutes_
  fetch_map          \* the shared map

producerVars == <<now, ppc, task_lock_, waiting, producer_queue_, index_,
                  fetch_time_str_, old_tm_min, current_min, i, n, word,
                  token, fetch_map>>

FetchTime(t) == (t - DelayMin) % ClockPeriod

Init ==
  /\ now \in ClockMinute
  /\ ppc = "init"
  /\ task_lock_ = FALSE
  /\ waiting = {}
  /\ producer_queue_ = <<>>
  /\ index_ \in UninitInt
  /\ fetch_time_str_ = NoTime
  /\ old_tm_min = 0
  /\ current_min = 0
  /\ i = 0 /\ n = 0 /\ word = {}
  /\ token \in [token_str_ : {NoToken}, need_update_token_ : BOOLEAN,
                token_update_minutes_ : UninitInt]
  /\ fetch_map \in FetchMap

-----------------------------------------------------------------------------
(* The token. *)

CheckTokenTimeout_Fault(t) ==
  [t EXCEPT !.token_update_minutes_ = @ + 1, !.need_update_token_ = FALSE]

CheckTokenTimeout(t) ==
  LET minutes == t.token_update_minutes_ + 1
      timeout == minutes >= TokenMinutes
  IN  [token_str_            |-> t.token_str_,
       need_update_token_    |-> t.need_update_token_ \/ timeout,
       token_update_minutes_ |-> IF timeout THEN 0 ELSE minutes]

UpdateToken_Fault(t, answer) ==
  IF answer = NoToken THEN t ELSE [t EXCEPT !.token_str_ = answer]

\* answer is what get_toKen_by_url returned.
UpdateToken(t, answer) ==
  IF answer = NoToken
  THEN t
  ELSE [token_str_ |-> answer, need_update_token_ |-> FALSE,
        token_update_minutes_ |-> 0]

(* TeleTaskProducer::Init, called by main before any other thread exists. *)
ProducerInit ==
  /\ ppc = "init"
  /\ \E answer \in TokenAnswer : token' = UpdateToken(token, answer)
  /\ ppc' = "enter"
  /\ UNCHANGED <<now, task_lock_, waiting, producer_queue_, index_,
                 fetch_time_str_, old_tm_min, current_min, i, n, word,
                 fetch_map>>

-----------------------------------------------------------------------------
(* PushTaskBatch.  The thread takes task_lock_, and keeps it from "loop"   *)
(* to the step that leaves "loop" or "full".                               *)

BatchLocals == <<i, n, word>>

PushTaskBatch_Enter_Fault ==
  /\ ppc = "enter"
  /\ ~task_lock_
  /\ task_lock_' = TRUE
  /\ i' = index_ /\ n' = 0
  /\ ppc' = "loop"
  /\ UNCHANGED <<now, waiting, producer_queue_, index_, fetch_time_str_,
                 old_tm_min, current_min, word, token, fetch_map>>

\* The early return (no window yet) leaves the lock free and n at 0.
PushTaskBatch_Enter ==
  /\ ppc = "enter"
  /\ ~task_lock_
  /\ IF fetch_time_str_ = NoTime
     THEN ppc' = "check" /\ UNCHANGED <<task_lock_, i, n>>
     ELSE /\ task_lock_' = TRUE
          /\ i' = index_ /\ n' = 0
          /\ ppc' = "loop"
  /\ UNCHANGED <<now, waiting, producer_queue_, index_, fetch_time_str_,
                 old_tm_min, current_min, word, token, fetch_map>>

InBatch == i < index_ + BATCHNUMS /\ i < MAX_FETCH_INDEX

\* minute_index: the hour and the minute parsed out of fetch_time_str_.
MinuteIndex == fetch_time_str_ % ONE_DAY_MINUTE

NewTask ==
  [BuildTask(i, token.token_str_, fetch_time_str_, TASK_NORMAL)
     EXCEPT !.minute_index = MinuteIndex]

PushTask_Fault(q, task) == <<Append(q, task), TRUE>>

\* The queue after the call, and whether the task was accepted (rc = 0).
PushTask(q, task) ==
  IF Len(q) < MAX_TASK_QUEUE_SIZE THEN <<Append(q, task), TRUE>>
                                  ELSE <<q, FALSE>>

PushNext_Fault ==
  LET pushed == PushTask(producer_queue_, NewTask)
  IN  /\ producer_queue_' = pushed[1]
      /\ ppc' = IF pushed[2] THEN "loop" ELSE "full"
      /\ i' = i + 1 /\ n' = n + 1

\* A task the queue refuses is deleted, is not counted, and ends the loop.
PushNext ==
  LET pushed == PushTask(producer_queue_, NewTask)
  IN  /\ producer_queue_' = pushed[1]
      /\ IF pushed[2] THEN ppc' = "loop" /\ i' = i + 1 /\ n' = n + 1
                      ELSE ppc' = "full" /\ UNCHANGED <<i, n>>

\* The master's CLEAR_SET loads the word in one step ...
PushTaskBatch_Load ==
  /\ ppc = "loop" /\ InBatch /\ ~IsSlave
  /\ word' = LoadWord(fetch_map, MinuteIndex, i)
  /\ ppc' = "clear"
  /\ UNCHANGED <<now, task_lock_, waiting, producer_queue_, index_,
                 fetch_time_str_, old_tm_min, current_min, i, n, token,
                 fetch_map>>

\* ... and stores it in another, before it pushes the task.
PushTaskBatch_Clear ==
  /\ ppc = "clear"
  /\ fetch_map' = StoreWord(fetch_map, MinuteIndex, i, WithoutBit(word, i))
  /\ word' = {}
  /\ PushNext
  /\ UNCHANGED <<now, task_lock_, waiting, index_, fetch_time_str_,
                 old_tm_min, current_min, token>>

PushTaskBatch_Slave_Fault ==
  /\ ppc = "loop" /\ InBatch /\ IsSlave
  /\ IF IS_SET(fetch_map, MinuteIndex, i)
     THEN i' = i + 1 /\ UNCHANGED <<n, ppc, producer_queue_>>
     ELSE PushNext
  /\ UNCHANGED <<now, task_lock_, waiting, index_, fetch_time_str_,
                 old_tm_min, current_min, word, token, fetch_map>>

\* The slave counts a task whose bit is set, and pushes the others.
PushTaskBatch_Slave ==
  /\ ppc = "loop" /\ InBatch /\ IsSlave
  /\ IF IS_SET(fetch_map, MinuteIndex, i)
     THEN i' = i + 1 /\ n' = n + 1 /\ UNCHANGED <<ppc, producer_queue_>>
     ELSE PushNext
  /\ UNCHANGED <<now, task_lock_, waiting, index_, fetch_time_str_,
                 old_tm_min, current_min, word, token, fetch_map>>


PushTaskBatch_Return ==
  /\ ppc = "full" \/ (ppc = "loop" /\ ~InBatch)
  /\ index_' = index_ + n
  /\ n' = 0 /\ i' = 0   \* the locals die
  /\ task_lock_' = FALSE
  /\ ppc' = IF n > 0 THEN "broadcast" ELSE "check"
  /\ UNCHANGED <<now, waiting, producer_queue_, fetch_time_str_, old_tm_min,
                 current_min, word, token, fetch_map>>

PushTaskBatch_Broadcast_Fault ==
  /\ ppc = "broadcast"
  /\ IF waiting = {} THEN UNCHANGED waiting
                     ELSE \E c \in waiting : waiting' = waiting \ {c}
  /\ ppc' = "check"
  /\ UNCHANGED <<now, task_lock_, producer_queue_, index_, fetch_time_str_,
                 old_tm_min, current_min, i, n, word, token, fetch_map>>

PushTaskBatch_Broadcast ==
  /\ ppc = "broadcast"
  /\ waiting' = {}
  /\ ppc' = "check"
  /\ UNCHANGED <<now, task_lock_, producer_queue_, index_, fetch_time_str_,
                 old_tm_min, current_min, i, n, word, token, fetch_map>>

PushTaskBatch ==
  \/ PushTaskBatch_Enter
  \/ PushTaskBatch_Load
  \/ PushTaskBatch_Clear
  \/ PushTaskBatch_Slave
  \/ PushTaskBatch_Return
  \/ PushTaskBatch_Broadcast

-----------------------------------------------------------------------------
(* CheckandUpdateTask: the clock is read and compared without the lock ... *)

CheckandUpdateTask_Same ==
  /\ ppc = "check"
  /\ now % MinutesPerHour = old_tm_min
  /\ ppc' = "enter"
  /\ UNCHANGED <<now, task_lock_, waiting, producer_queue_, index_,
                 fetch_time_str_, old_tm_min, current_min, i, n, word, token,
                 fetch_map>>

CheckandUpdateTask_Moved ==
  /\ ppc = "check"
  /\ now % MinutesPerHour # old_tm_min
  /\ current_min' = now
  /\ ppc' = "update"
  /\ UNCHANGED <<now, task_lock_, waiting, producer_queue_, index_,
                 fetch_time_str_, old_tm_min, i, n, word, token, fetch_map>>

OpenWindow_Fault ==
  /\ fetch_time_str_' = FetchTime(current_min)
  /\ index_' = 0
  /\ UNCHANGED producer_queue_

OpenWindow ==
  /\ fetch_time_str_' = FetchTime(current_min)
  /\ index_' = 0
  /\ producer_queue_' = <<>>

NewToken(answer) ==
  LET checked == CheckTokenTimeout(token)
  IN  IF checked.need_update_token_ THEN UpdateToken(checked, answer)
                                    ELSE checked

RememberMinute_Fault == UNCHANGED old_tm_min

RememberMinute == old_tm_min' = current_min % MinutesPerHour

(* ... and UpdateTask runs in one critical section, which includes the     *)
(* HTTP request for a token.  answer is what that request would return.    *)
UpdateTask(answer) ==
  /\ ppc = "update"
  /\ ~task_lock_
  /\ OpenWindow
  /\ token' = NewToken(answer)
  /\ RememberMinute
  /\ current_min' = 0   \* current_tm dies
  /\ ppc' = "enter"
  /\ UNCHANGED <<now, task_lock_, waiting, i, n, word, fetch_map>>

CheckandUpdateTask ==
  \/ CheckandUpdateTask_Same
  \/ CheckandUpdateTask_Moved
  \/ \E answer \in TokenAnswer : UpdateTask(answer)

TeleProducerThread == PushTaskBatch \/ CheckandUpdateTask

-----------------------------------------------------------------------------
(* What the other threads do to the producer. *)

CanLock(c) == ppc # "init" /\ ~task_lock_ /\ c \notin waiting

GetTask_Pop_Fault(c) ==
  /\ CanLock(c)
  /\ producer_queue_ # <<>>
  /\ producer_queue_' =
       SubSeq(producer_queue_, 1, Len(producer_queue_) - 1)
  /\ UNCHANGED <<now, ppc, task_lock_, waiting, index_, fetch_time_str_,
                 old_tm_min, current_min, i, n, word, token, fetch_map>>

\* GetTask finds the queue non-empty, and pops its front.
GetTask_Pop(c) ==
  /\ CanLock(c)
  /\ producer_queue_ # <<>>
  /\ producer_queue_' = Tail(producer_queue_)
  /\ UNCHANGED <<now, ppc, task_lock_, waiting, index_, fetch_time_str_,
                 old_tm_min, current_min, i, n, word, token, fetch_map>>

\* GetTask finds it empty: pthread_cond_wait releases the lock and blocks.
GetTask_Wait(c) ==
  /\ CanLock(c)
  /\ producer_queue_ = <<>>
  /\ waiting' = waiting \cup {c}
  /\ UNCHANGED <<now, ppc, task_lock_, producer_queue_, index_,
                 fetch_time_str_, old_tm_min, current_min, i, n, word, token,
                 fetch_map>>

\* pthread_cond_wait may return without a broadcast.
GetTask_Wakeup(c) ==
  /\ c \in waiting
  /\ waiting' = waiting \ {c}
  /\ UNCHANGED <<now, ppc, task_lock_, producer_queue_, index_,
                 fetch_time_str_, old_tm_min, current_min, i, n, word, token,
                 fetch_map>>

SetIdentityError ==
  /\ ppc # "init" /\ ~task_lock_
  /\ token' = [token EXCEPT !.need_update_token_ = TRUE]
  /\ UNCHANGED <<now, ppc, task_lock_, waiting, producer_queue_, index_,
                 fetch_time_str_, old_tm_min, current_min, i, n, word,
                 fetch_map>>

\* Another thread, of this or of another process, stores a word of the map.
ShmWrite(m, j, w) ==
  /\ fetch_map' = StoreWord(fetch_map, m, j, w)
  /\ UNCHANGED <<now, ppc, task_lock_, waiting, producer_queue_, index_,
                 fetch_time_str_, old_tm_min, current_min, i, n, word, token>>

Tick ==
  /\ now' = (now + 1) % ClockPeriod
  /\ UNCHANGED <<ppc, task_lock_, waiting, producer_queue_, index_,
                 fetch_time_str_, old_tm_min, current_min, i, n, word, token,
                 fetch_map>>

Next ==
  \/ ProducerInit
  \/ TeleProducerThread
  \/ \E c \in Consumer : GetTask_Pop(c) \/ GetTask_Wait(c) \/ GetTask_Wakeup(c)
  \/ SetIdentityError
  \/ \E m \in Minute, j \in Index, w \in Word : ShmWrite(m, j, w)
  \/ Tick

SafeSpec == Init /\ [][Next]_producerVars

(***************************************************************************)
(* Fairness of the threads.  The producer thread keeps running: its sleeps *)
(* end, the token request ends by CURLOPT_TIMEOUT, and no consumer keeps   *)
(* task_lock_.  The consumers come back for tasks, and find the lock free  *)
(* while the producer sleeps.  The other writers of the map owe nothing.   *)
(***************************************************************************)
ThreadFairness ==
  /\ WF_producerVars(ProducerInit)
  /\ WF_producerVars(TeleProducerThread)
  /\ \A c \in Consumer : SF_producerVars(GetTask_Pop(c))

(***************************************************************************)
(* Fairness of the world.  The clock moves, sometimes just before the      *)
(* producer thread looks at it: a thread that looks every second or two    *)
(* does not look only at moments that lie a whole number of hours apart.   *)
(* A token service asked again and again answers.                          *)
(***************************************************************************)
WorldFairness ==
  /\ WF_producerVars(Tick)
  /\ SF_producerVars(Tick /\ ppc = "check")
  /\ SF_producerVars(CheckandUpdateTask_Moved)
  /\ SF_producerVars(\E answer \in Token : UpdateTask(answer))

ThreadSpec == SafeSpec /\ ThreadFairness

Spec == ThreadSpec /\ WorldFairness

-----------------------------------------------------------------------------
(* Properties. *)

InLoop == ppc \in {"loop", "clear", "full"}

\* The first index of the window PushTaskBatch has not accounted for.
NextIndex == IF InLoop THEN i ELSE index_

Window == fetch_time_str_ # NoTime

QueuedTask ==
  [index : Index, time_str : ClockMinute, token : Token \cup {NoToken},
   type : {TASK_NORMAL}, minute_index : Minute, retry_count : {0}]

TokenState ==
  [token_str_ : Token \cup {NoToken}, need_update_token_ : BOOLEAN,
   token_update_minutes_ : Int]

(* Types, with the two bounds that are not declarations in the code: the   *)
(* queue never exceeds MAX_TASK_QUEUE_SIZE, and task_lock_ is held exactly *)
(* in the loop of PushTaskBatch (each of its paths out unlocks).           *)
TypeOK ==
  /\ now \in ClockMinute
  /\ ppc \in {"init", "enter", "loop", "clear", "full", "broadcast",
              "check", "update"}
  /\ task_lock_ \in BOOLEAN /\ (task_lock_ <=> InLoop)
  /\ waiting \subseteq Consumer
  /\ producer_queue_ \in Seq(QueuedTask)
  /\ Len(producer_queue_) <= MAX_TASK_QUEUE_SIZE
  /\ index_ \in Int
  /\ fetch_time_str_ \in ClockMinute \cup {NoTime}
  /\ old_tm_min \in 0 .. MinutesPerHour - 1
  /\ current_min \in ClockMinute
  /\ i \in Int /\ n \in Nat /\ word \in Word
  /\ token \in TokenState
  /\ fetch_map \in FetchMap

(* index_, which no constructor sets, is a proper index from the first     *)
(* window on, and so is the loop's i: PushTaskBatch never uses the value   *)
(* the member happened to start with to address the shared map.            *)
IndexReady ==
  /\ Window => index_ \in 0 .. MAX_FETCH_INDEX
  /\ InLoop => Window /\ i = index_ + n /\ i <= MAX_FETCH_INDEX
  /\ ppc = "clear" => i < MAX_FETCH_INDEX

(* No consumer sleeps beside a task: while the queue holds one and some    *)
(* consumer is blocked, the broadcast is still to come, because the loop   *)
(* has counted a task or the thread stands before pthread_cond_broadcast.  *)
NoLostWakeup ==
  producer_queue_ # <<>> /\ waiting # {} =>
    ppc = "broadcast" \/ (InLoop /\ n > 0)

(* What is queued belongs to the current window, and was built with the    *)
(* current token: UpdateTask empties the queue before it replaces either.  *)
(* Indices increase and stay below the next index, so no task is queued    *)
(* twice in a window.                                                      *)
QueueOfWindow ==
  \A k \in 1 .. Len(producer_queue_) :
    /\ producer_queue_[k].time_str = fetch_time_str_
    /\ producer_queue_[k].minute_index = MinuteIndex
    /\ producer_queue_[k].token = token.token_str_
    /\ producer_queue_[k].index < NextIndex
    /\ \A j \in 1 .. k - 1 :
         producer_queue_[j].index < producer_queue_[k].index

(* The master passes over no index: what is queued is the run of indices   *)
(* that ends just before the next one, also when a full queue ends a batch *)
(* early or a batch ends in the middle of the window.                      *)
NothingSkipped ==
  ~IsSlave =>
    \A k \in 1 .. Len(producer_queue_) :
      producer_queue_[k].index = NextIndex - (Len(producer_queue_) - k) - 1

(* A window is the one of the minute the thread last acted on, so that     *)
(* minute cannot open it a second time.                                    *)
WindowOfMinute ==
  /\ Window => \E t \in ClockMinute :
                 /\ fetch_time_str_ = FetchTime(t)
                 /\ old_tm_min = t % MinutesPerHour
  /\ ~Window => old_tm_min = 0
  /\ ppc = "update" => current_min % MinutesPerHour # old_tm_min

(* A report of a refused token is never dropped: need_update_token_ is     *)
(* only taken back by a new window, opened with a token the service gave   *)
(* and a full term before it, so every task queued from then on has it.    *)
IdentityErrorKept ==
  [][token.need_update_token_ /\ ~token'.need_update_token_ =>
       /\ token'.token_str_ \in Token
       /\ token'.token_update_minutes_ = 0
       /\ producer_queue_' = <<>>]_producerVars

(* The producer implements TaskDispenser: whatever the queue, the batches, *)
(* the shared map and the clock do, tasks leave in the order of their      *)
(* indices, none twice, none out of an earlier window, and a master's      *)
(* without a gap.                                                          *)
Dispenser ==
  INSTANCE TaskDispenser WITH
    DispenserWindow <- ClockMinute,
    NoWindow <- NoTime,
    LastIndex <- MAX_FETCH_INDEX - 1,
    MaySkip <- IsSlave,
    window <- fetch_time_str_,
    next <- IF ~Window THEN 0
            ELSE IF producer_queue_ # <<>> THEN Head(producer_queue_).index
            ELSE NextIndex

ImplementsDispenser == Dispenser!DispenserSpec

(* A blocked consumer gets out of pthread_cond_wait: every window the      *)
(* master opens fills the queue and broadcasts.                            *)
WaiterWakes == \A c \in Consumer : c \in waiting ~> c \notin waiting

(* With no help from the clock, a window is worked through to its last     *)
(* index, through every full queue and past the indices the slave finds    *)
(* marked, unless the next window cuts it short.                           *)
WindowProgress ==
  \A t \in ClockMinute :
    fetch_time_str_ = t ~> fetch_time_str_ # t \/ index_ = MAX_FETCH_INDEX

(* The window follows the clock. *)
WindowMoves == \A t \in ClockMinute : fetch_time_str_ = t ~> fetch_time_str_ # t

(* A token that was refused, or is too old, is replaced in the end. *)
TokenReplaced == token.need_update_token_ ~> ~token.need_update_token_

=============================================================================
