------------------------ MODULE TeleTaskConsumerProofs ------------------------
(***************************************************************************)
(* Proofs about TeleTaskConsumer, a whole process, for every number of     *)
(* consumers and every value of the other constants.                       *)
(*                                                                         *)
(* The producer's state is typed by TypeInv of TeleTaskProducerProofs:     *)
(* every step of the process is a step of the producer's specification,    *)
(* once what the consumers store in the shared map is known to be typed.   *)
(***************************************************************************)
EXTENDS TeleTaskConsumer, TeleTaskProducerProofs

-----------------------------------------------------------------------------
(* The inductive invariant. *)

FirstTryTask == {t \in SystemTask : t.retry_count = 0}

ExtraTask == {t \in FirstTryTask : t.index >= MAX_FETCH_INDEX /\ t.type = TASK_DELAY}

FailedTask == {t \in SystemTask : t.retry_count >= 1}

SystemKey == ClockMinute \X (0 .. EXTRA_END - 1)

ThreadTypes ==
  /\ cpc \in [Consumer -> {"get", "fetch", "load", "store"}]
  /\ task \in [Consumer -> FirstTryTask \cup {NoTask}]
  /\ cword \in [Consumer -> Word]
  /\ delay_task_queue \in [Consumer -> Seq(ExtraTask)]
  /\ fail_task_list_ \in Seq(FailedTask)
  /\ Len(fail_task_list_) <= MAX_FAIL_SIZE
  /\ refetch_task \in FailedTask \cup {NoTask}

HistoryTypes ==
  /\ pushed \subseteq SystemKey
  /\ repushed \subseteq SystemKey
  /\ spoiled \subseteq Minute \X Index

\* Where a thread is says what it holds.  A thread with a normal task has no
\* delay queue: that is what CreateExtroTasks finds.
StagesOK ==
  \A c \in Consumer :
    /\ task[c] = NoTask <=> cpc[c] = "get"
    /\ c \in waiting => cpc[c] = "get" /\ delay_task_queue[c] = <<>>
    /\ cpc[c] \in {"load", "store"} => Marks(task[c]) /\ Key(task[c]) \in pushed
    /\ task[c] # NoTask /\ task[c].type = TASK_NORMAL => delay_task_queue[c] = <<>>

\* An extra task follows the last index of its window.
Follows(t) == t.index >= MAX_FETCH_INDEX => <<t.time_str, MAX_FETCH_INDEX - 1>> \in pushed

ExtraFollows ==
  /\ \A c \in Consumer : task[c] # NoTask => Follows(task[c])
  /\ \A c \in Consumer : \A k \in 1 .. Len(delay_task_queue[c]) :
       Follows(delay_task_queue[c][k])
  /\ \A k \in 1 .. Len(fail_task_list_) : Follows(fail_task_list_[k])
  /\ refetch_task # NoTask => Follows(refetch_task)

ThreadInv ==
  /\ ThreadTypes
  /\ HistoryTypes
  /\ StagesOK
  /\ DelayWhole
  /\ ExtraFollows

SystemInv == TypeInv /\ ThreadInv

-----------------------------------------------------------------------------
(* Tasks and queues. *)

\* What the producer queues is a task nobody tried yet.
LEMMA QueuedIsFirstTry == QueuedTask \subseteq FirstTryTask
<1>1. Index \subseteq 0 .. EXTRA_END - 1
  BY ConsumerAssumption, MatAssumption DEF Index
<1>2. 0 \in 0 .. RETRY_MAX
  BY ConsumerAssumption
<1>3. ASSUME NEW t \in QueuedTask
      PROVE  t \in FirstTryTask
  <2>1. t \in SystemTask
    BY <1>1, <1>2, <1>3 DEF QueuedTask, SystemTask
  <2>2. t.retry_count = 0
    BY <1>3 DEF QueuedTask
  <2>3. QED
    BY <2>1, <2>2 DEF FirstTryTask
<1>4. QED
  BY <1>3

\* The key of a task is one of the keys.
LEMMA KeyType ==
  ASSUME NEW t \in SystemTask
  PROVE  Key(t) \in SystemKey
  BY DEF SystemTask, Key, SystemKey

\* The task taken from the front of a queue, and what is left.
LEMMA FrontOfQueue ==
  ASSUME NEW S, NEW q \in Seq(S), q # <<>>
  PROVE  /\ Head(q) \in S /\ Head(q) = q[1]
         /\ Tail(q) \in Seq(S) /\ Len(Tail(q)) = Len(q) - 1
         /\ Len(q) \in Nat \ {0}
         /\ \A k \in 1 .. Len(Tail(q)) : Tail(q)[k] = q[k + 1]
  OBVIOUS

\* SaveFailTask adds the task with one more failure, or nothing.
LEMMA SaveFailTaskType ==
  ASSUME NEW q \in Seq(FailedTask), Len(q) <= MAX_FAIL_SIZE,
         NEW t \in SystemTask, t.retry_count < RETRY_MAX
  PROVE  /\ SaveFailTask(q, t) \in Seq(FailedTask)
         /\ Len(SaveFailTask(q, t)) <= MAX_FAIL_SIZE
         /\ \A k \in 1 .. Len(SaveFailTask(q, t)) :
              \/ k \in 1 .. Len(q) /\ SaveFailTask(q, t)[k] = q[k]
              \/ /\ SaveFailTask(q, t)[k].index = t.index
                 /\ SaveFailTask(q, t)[k].time_str = t.time_str
<1> DEFINE u == [t EXCEPT !.retry_count = @ + 1]
<1>1. /\ u \in FailedTask
      /\ u.index = t.index /\ u.time_str = t.time_str
  BY ConsumerAssumption DEF SystemTask, FailedTask
<1>2. CASE Len(q) < MAX_FAIL_SIZE
  <2>1. SaveFailTask(q, t) = Append(q, u)
    BY <1>2 DEF SaveFailTask
  <2>2. /\ Append(q, u) \in Seq(FailedTask)
        /\ Len(Append(q, u)) = Len(q) + 1
        /\ \A k \in 1 .. Len(q) + 1 :
             Append(q, u)[k] = IF k = Len(q) + 1 THEN u ELSE q[k]
    BY <1>1
  <2> HIDE DEF u
  <2>3. Len(Append(q, u)) <= MAX_FAIL_SIZE
    BY <1>2, <2>2, ConsumerAssumption
  <2>4. QED
    BY <1>1, <2>1, <2>2, <2>3
<1>3. CASE ~(Len(q) < MAX_FAIL_SIZE)
  BY <1>3 DEF SaveFailTask
<1>4. QED
  BY <1>2, <1>3

\* The extra tasks a thread with an empty delay queue makes are all there are.
LEMMA CreateExtroTasksWhole ==
  ASSUME NEW tok \in Token \cup {NoToken}, NEW time_str \in ClockMinute
  PROVE  LET q == CreateExtroTasks(<<>>, tok, time_str) IN
         /\ q \in Seq(ExtraTask)
         /\ Len(q) = NumberOfExtra
         /\ \A k \in 1 .. Len(q) :
              q[k].index = MAX_FETCH_INDEX + k - 1 /\ q[k].time_str = time_str
<1> DEFINE e == ExtraTasks(NumberOfExtra, tok, time_str)
<1>1. NumberOfExtra \in Nat
  BY ConsumerAssumption, MatAssumption DEF NumberOfExtra
<1>2. Smaller(NumberOfExtra, MAX_DELAY_SIZE - Len(<<>>)) = NumberOfExtra
  BY <1>1, ConsumerAssumption DEF Smaller, NumberOfExtra
<1>3. ASSUME NEW k \in 1 .. NumberOfExtra
      PROVE  /\ e[k] \in ExtraTask
             /\ e[k].index = MAX_FETCH_INDEX + k - 1
             /\ e[k].time_str = time_str
  <2>1. e[k] = BuildTask(MAX_FETCH_INDEX + k - 1, tok, time_str, TASK_DELAY)
    BY DEF ExtraTasks
  <2>2. MAX_FETCH_INDEX + k - 1 \in MAX_FETCH_INDEX .. EXTRA_END - 1
    BY <1>3, ConsumerAssumption, MatAssumption DEF NumberOfExtra
  <2>3. 0 \in Minute /\ 0 \in 0 .. RETRY_MAX
    BY MatAssumption, ConsumerAssumption DEF Minute
  <2> HIDE DEF e
  <2>4. e[k] \in SystemTask
    BY <2>1, <2>2, <2>3, MatAssumption DEF BuildTask, SystemTask
  <2>5. QED
    BY <2>1, <2>2, <2>4, MatAssumption DEF BuildTask, ExtraTask, FirstTryTask
<1>4. e \in [1 .. NumberOfExtra -> ExtraTask]
  <2>1. e = [k \in 1 .. NumberOfExtra |-> e[k]]
    BY DEF ExtraTasks
  <2> HIDE DEF e
  <2>2. QED
    BY <1>3, <2>1
<1> HIDE DEF e
<1>5. e \in Seq(ExtraTask) /\ Len(e) = NumberOfExtra
  BY <1>1, <1>4
<1>6. CreateExtroTasks(<<>>, tok, time_str) = e
  <2>1. CreateExtroTasks(<<>>, tok, time_str) = <<>> \o e
    BY <1>2 DEF CreateExtroTasks, e
  <2>2. QED
    BY <2>1, <1>5
<1>7. QED
  BY <1>3, <1>5, <1>6
-----------------------------------------------------------------------------
(* Initially. *)

LEMMA SystemInvInit == SystemInit => SystemInv
<1> SUFFICES ASSUME SystemInit PROVE SystemInv
  OBVIOUS
<1>1. TypeInv
  BY TypeInit DEF SystemInit
<1>2. /\ {} \in Word
      /\ <<>> \in Seq(ExtraTask) /\ <<>> \in Seq(FailedTask) /\ Len(<<>>) = 0
  BY DEF Word
<1>3. ThreadTypes /\ HistoryTypes
  BY <1>2, ConsumerAssumption DEF SystemInit, ThreadTypes, HistoryTypes
<1>4. StagesOK
  BY DEF SystemInit, Init, StagesOK
<1>5. DelayWhole /\ ExtraFollows
  BY <1>2 DEF SystemInit, DelayWhole, ExtraFollows
<1>6. QED
  BY <1>1, <1>3, <1>4, <1>5 DEF SystemInv, ThreadInv

-----------------------------------------------------------------------------
(* Every step of the process is a step of the producer's specification. *)

\* The bit a consumer stores is one of the map's.
LEMMA SetBitIsShmWrite ==
  ASSUME SystemInv, NEW c \in Consumer, Consumer_SetBit(c)
  PROVE  Next
<1> DEFINE t == task[c]
<1>1. t \in SystemTask /\ Marks(t)
  BY DEF Consumer_SetBit, SystemInv, ThreadInv, StagesOK, ThreadTypes, FirstTryTask
<1>2. t.minute_index \in Minute /\ t.index \in Index
  BY <1>1, MatAssumption, ConsumerAssumption DEF SystemTask, Marks, Index
<1>3. WithBit(cword[c], t.index) \in Word
  BY <1>2, BitRange DEF SystemInv, ThreadInv, ThreadTypes, WithBit, Word
<1>4. ShmWrite(t.minute_index, t.index, WithBit(cword[c], t.index))
  BY DEF Consumer_SetBit
<1> HIDE DEF t
<1>5. QED
  BY <1>2, <1>3, <1>4 DEF Next

LEMMA ProducerPart ==
  ASSUME SystemInv, [SystemNext]_systemVars
  PROVE  [Next]_producerVars
<1>1. CASE Producer_Step
  BY <1>1 DEF Producer_Step, Next
<1>2. ASSUME NEW c \in Consumer, TeleConsumerThread(c) \/ Consumer_Wakeup(c)
      PROVE  [Next]_producerVars
  <2>1. CASE Consumer_SetBit(c)
    BY <2>1, SetBitIsShmWrite
  <2>2. CASE Consumer_FetchRefused(c)
    BY <2>2 DEF Consumer_FetchRefused, Next
  <2>3. CASE Consumer_Pop(c)
    BY <2>3 DEF Consumer_Pop, Next
  <2>4. CASE Consumer_Wait(c)
    BY <2>4 DEF Consumer_Wait, Next
  <2>5. CASE Consumer_Wakeup(c)
    BY <2>5 DEF Consumer_Wakeup, Next
  <2>6. CASE \/ Consumer_Delay(c)
             \/ Consumer_FetchFails(c)
             \/ Consumer_FetchDropped(c)
             \/ Consumer_Store(c)
             \/ Consumer_Load(c)
    BY <2>6 DEF Consumer_Delay, Consumer_FetchFails, Consumer_FetchDropped,
                Consumer_Store, Consumer_Load
  <2>7. QED
    BY <1>2, <2>1, <2>2, <2>3, <2>4, <2>5, <2>6 DEF TeleConsumerThread
<1>3. CASE TeleConsumerRefetchThread
  BY <1>3 DEF TeleConsumerRefetchThread, GetFailTask, Refetch_Fails,
              Refetch_Dropped, Refetch_Store, RefetchUnchanged
<1>4. CASE Clock_Step
  BY <1>4 DEF Clock_Step, Next
<1>5. CASE UNCHANGED systemVars
  BY <1>5 DEF systemVars
<1>6. QED
  BY <1>1, <1>2, <1>3, <1>4, <1>5 DEF SystemNext
-----------------------------------------------------------------------------
(* The steps of the consumers. *)

LEMMA DelayKeeps ==
  ASSUME SystemInv, NEW c \in Consumer, Consumer_Delay(c)
  PROVE  ThreadInv'
<1> DEFINE q == delay_task_queue[c]
<1> USE DEF SystemInv, ThreadInv
<1>1. /\ q \in Seq(ExtraTask) /\ q # <<>>
      /\ task' = [task EXCEPT ![c] = Head(q)]
      /\ cpc' = [cpc EXCEPT ![c] = "fetch"]
      /\ delay_task_queue' = [delay_task_queue EXCEPT ![c] = Tail(q)]
      /\ UNCHANGED <<waiting, cword, fail_task_list_, refetch_task, pushed,
                     repushed, spoiled>>
  BY DEF Consumer_Delay, TakeTask, ThreadTypes, producerVars, historyVars
<1>2. /\ Head(q) \in ExtraTask /\ Head(q) = q[1]
      /\ Tail(q) \in Seq(ExtraTask) /\ Len(Tail(q)) = Len(q) - 1
      /\ Len(q) \in Nat \ {0}
      /\ \A k \in 1 .. Len(Tail(q)) : Tail(q)[k] = q[k + 1]
  BY <1>1, FrontOfQueue
<1>3. Head(q) \in FirstTryTask /\ Head(q).type = TASK_DELAY /\ Head(q) # NoTask
  BY <1>2, ConsumerAssumption DEF ExtraTask, FirstTryTask
<1>4. c \notin waiting
  BY <1>1 DEF StagesOK
<1>5. /\ \A k \in 1 .. Len(q) :
           /\ q[k].index = EXTRA_END - 1 - (Len(q) - k)
           /\ q[k].index >= MAX_FETCH_INDEX
           /\ q[k].time_str = q[1].time_str
           /\ Follows(q[k])
  BY DEF DelayWhole, ExtraFollows
<1> HIDE DEF q
<1>6. ThreadTypes'
  BY <1>1, <1>2, <1>3 DEF ThreadTypes
<1>7. HistoryTypes'
  BY <1>1 DEF HistoryTypes
<1>8. StagesOK'
  BY <1>1, <1>3, <1>4 DEF StagesOK, ThreadTypes, TASK_NORMAL, TASK_DELAY
<1>9. \A k \in 1 .. Len(Tail(q)) : k + 1 \in 1 .. Len(q) /\ 1 \in 1 .. Len(Tail(q))
  BY <1>2
<1>10. DelayWhole'
  <2>1. SUFFICES ASSUME NEW d \in Consumer, NEW k \in 1 .. Len(delay_task_queue'[d])
                 PROVE  LET r == delay_task_queue'[d] IN
                        /\ r[k].index = EXTRA_END - 1 - (Len(r) - k)
                        /\ r[k].index >= MAX_FETCH_INDEX
                        /\ r[k].time_str = r[1].time_str
    BY DEF DelayWhole
  <2>2. CASE d = c
    <3>1. delay_task_queue'[d] = Tail(q)
      BY <1>1, <2>2 DEF ThreadTypes
    <3>2. k \in Nat /\ EXTRA_END \in Nat
      BY ConsumerAssumption
    <3>3. QED
      BY <1>2, <1>5, <1>9, <3>1, <3>2
  <2>3. CASE d # c
    BY <1>1, <2>3 DEF DelayWhole, ThreadTypes
  <2>4. QED
    BY <2>2, <2>3
<1>11. ExtraFollows'
  <2>1. Follows(Head(q))
    BY <1>2, <1>5
  <2>2. \A k \in 1 .. Len(Tail(q)) : Follows(Tail(q)[k])
    BY <1>2, <1>5, <1>9
  <2>3. QED
    BY <1>1, <2>1, <2>2 DEF ExtraFollows, Follows, ThreadTypes
<1>12. QED
  BY <1>6, <1>7, <1>8, <1>10, <1>11

\* The other steps of a consumer leave its delay queue alone, or find it empty.
LEMMA SameDelay ==
  ASSUME DelayWhole, UNCHANGED delay_task_queue
  PROVE  DelayWhole'
  BY DEF DelayWhole

LEMMA PopKeeps ==
  ASSUME SystemInv, NEW c \in Consumer, Consumer_Pop(c)
  PROVE  ThreadInv'
<1> DEFINE t == Head(producer_queue_)
<1> USE DEF SystemInv, ThreadInv
<1>1. /\ task' = [task EXCEPT ![c] = t]
      /\ cpc' = [cpc EXCEPT ![c] = "fetch"]
      /\ c \notin waiting /\ delay_task_queue[c] = <<>>
      /\ producer_queue_ # <<>>
      /\ UNCHANGED <<waiting, cword, delay_task_queue, fail_task_list_,
                     refetch_task, pushed, repushed, spoiled>>
  BY DEF Consumer_Pop, GetTask_Pop, CanLock, TakeTask, historyVars
<1>2. producer_queue_ \in Seq(QueuedTask)
  BY DEF TypeInv, TypeOK
<1>3. t \in QueuedTask
  BY <1>1, <1>2, FrontOfQueue
<1>4. /\ t \in FirstTryTask /\ t # NoTask
      /\ t.index \in Index
  BY <1>3, QueuedIsFirstTry, ConsumerAssumption DEF FirstTryTask, QueuedTask
<1>5. Follows(t)
  BY <1>4, MatAssumption DEF Follows, Index
<1> HIDE DEF t
<1>6. ThreadTypes'
  BY <1>1, <1>4 DEF ThreadTypes
<1>7. HistoryTypes'
  BY <1>1 DEF HistoryTypes
<1>8. StagesOK'
  BY <1>1, <1>4 DEF StagesOK, ThreadTypes
<1>9. DelayWhole'
  BY <1>1, SameDelay
<1>10. ExtraFollows'
  BY <1>1, <1>5 DEF ExtraFollows, Follows, ThreadTypes
<1>11. QED
  BY <1>6, <1>7, <1>8, <1>9, <1>10

LEMMA WaitKeeps ==
  ASSUME SystemInv, NEW c \in Consumer, Consumer_Wait(c) \/ Consumer_Wakeup(c)
  PROVE  ThreadInv'
<1> USE DEF SystemInv, ThreadInv
<1>1. /\ UNCHANGED <<threadVars, historyVars>>
      /\ \A d \in waiting' : \/ d \in waiting
                             \/ cpc[d] = "get" /\ delay_task_queue[d] = <<>>
  BY DEF Consumer_Wait, GetTask_Wait, Consumer_Wakeup, GetTask_Wakeup
<1>2. ThreadTypes' /\ HistoryTypes'
  BY <1>1 DEF ThreadTypes, HistoryTypes, threadVars, historyVars
<1>3. StagesOK'
  BY <1>1 DEF StagesOK, threadVars, historyVars
<1>4. DelayWhole' /\ ExtraFollows'
  BY <1>1, SameDelay DEF ExtraFollows, Follows, threadVars, historyVars
<1>5. QED
  BY <1>2, <1>3, <1>4
\* A consumer that is done with its task, whatever it did with it before.
LEMMA DeleteKeeps ==
  ASSUME SystemInv, NEW c \in Consumer, cpc[c] # "get", DeleteTask(c),
         cword' \in [Consumer -> Word],
         fail_task_list_' \in Seq(FailedTask),
         Len(fail_task_list_') <= MAX_FAIL_SIZE,
         \A k \in 1 .. Len(fail_task_list_') : Follows(fail_task_list_'[k]),
         pushed \subseteq pushed', pushed' \subseteq SystemKey,
         spoiled' \subseteq Minute \X Index,
         UNCHANGED <<waiting, delay_task_queue, refetch_task, repushed>>
  PROVE  ThreadInv'
<1> USE DEF SystemInv, ThreadInv
<1>1. /\ task' = [task EXCEPT ![c] = NoTask]
      /\ cpc' = [cpc EXCEPT ![c] = "get"]
  BY DEF DeleteTask
<1>2. ThreadTypes'
  BY <1>1 DEF ThreadTypes
<1>3. HistoryTypes'
  BY DEF HistoryTypes
<1>4. c \notin waiting
  BY DEF StagesOK
<1>5. StagesOK'
  BY <1>1, <1>4 DEF StagesOK, ThreadTypes
<1>6. DelayWhole'
  BY SameDelay
<1>7. ExtraFollows'
  BY <1>1 DEF ExtraFollows, Follows, ThreadTypes
<1>8. QED
  BY <1>2, <1>3, <1>5, <1>6, <1>7

LEMMA FetchFailsKeeps ==
  ASSUME SystemInv, NEW c \in Consumer, Consumer_FetchFails(c)
  PROVE  ThreadInv'
<1> USE DEF SystemInv, ThreadInv
<1>1. /\ cpc[c] = "fetch" /\ DeleteTask(c)
      /\ fail_task_list_' = SaveFailTask(fail_task_list_, task[c])
      /\ UNCHANGED <<waiting, cword, delay_task_queue, refetch_task, pushed,
                     repushed, spoiled>>
  BY DEF Consumer_FetchFails, producerVars, historyVars
<1>2. task[c] # NoTask
  BY <1>1 DEF StagesOK
<1>3. /\ task[c] \in SystemTask /\ task[c].retry_count < RETRY_MAX
      /\ Follows(task[c])
  BY <1>2, ConsumerAssumption DEF ThreadTypes, FirstTryTask, ExtraFollows
<1>4. /\ fail_task_list_' \in Seq(FailedTask)
      /\ Len(fail_task_list_') <= MAX_FAIL_SIZE
      /\ \A k \in 1 .. Len(fail_task_list_') :
           \/ k \in 1 .. Len(fail_task_list_) /\ fail_task_list_'[k] = fail_task_list_[k]
           \/ /\ fail_task_list_'[k].index = task[c].index
              /\ fail_task_list_'[k].time_str = task[c].time_str
  BY <1>1, <1>3, SaveFailTaskType DEF ThreadTypes
<1>5. \A k \in 1 .. Len(fail_task_list_') : Follows(fail_task_list_'[k])
  BY <1>3, <1>4 DEF Follows, ExtraFollows
<1>6. QED
  BY <1>1, <1>4, <1>5, DeleteKeeps DEF ThreadTypes, HistoryTypes

LEMMA FetchDroppedKeeps ==
  ASSUME SystemInv, NEW c \in Consumer,
         Consumer_FetchDropped(c) \/ Consumer_FetchRefused(c)
  PROVE  ThreadInv'
<1> USE DEF SystemInv, ThreadInv
<1>1. /\ cpc[c] = "fetch" /\ DeleteTask(c)
      /\ UNCHANGED <<waiting, cword, delay_task_queue, fail_task_list_,
                     refetch_task, pushed, repushed, spoiled>>
  BY DEF Consumer_FetchDropped, Consumer_FetchRefused, SetIdentityError,
         producerVars, historyVars
<1>2. QED
  BY <1>1, DeleteKeeps DEF ThreadTypes, HistoryTypes, ExtraFollows, Follows

LEMMA StoreKeeps ==
  ASSUME SystemInv, NEW c \in Consumer, Consumer_Store(c)
  PROVE  ThreadInv'
<1> USE DEF SystemInv, ThreadInv
<1>1. /\ cpc[c] = "fetch"
      /\ pushed' = pushed \cup {Key(task[c])}
      /\ UNCHANGED <<waiting, cword, delay_task_queue, fail_task_list_,
                     refetch_task, repushed, spoiled>>
  BY DEF Consumer_Store, producerVars
<1>2. task[c] # NoTask
  BY <1>1 DEF StagesOK
<1>3. pushed \subseteq pushed' /\ pushed' \subseteq SystemKey
  BY <1>1, <1>2, KeyType DEF ThreadTypes, HistoryTypes, FirstTryTask
<1>4. CASE Marks(task[c])
  <2>1. cpc' = [cpc EXCEPT ![c] = "load"] /\ task' = task
    BY <1>4 DEF Consumer_Store
  <2>2. ThreadTypes' /\ HistoryTypes'
    BY <1>1, <1>3, <2>1 DEF ThreadTypes, HistoryTypes
  <2>3. StagesOK'
    <3>1. Marks(task[c])' /\ Key(task[c])' \in pushed'
      BY <1>1, <1>4, <2>1 DEF Marks, Key
    <3>2. c \notin waiting
      BY <1>1 DEF StagesOK
    <3>3. QED
      BY <1>1, <1>2, <1>3, <2>1, <3>1, <3>2 DEF StagesOK, ThreadTypes, Marks, Key
  <2>4. DelayWhole' /\ ExtraFollows'
    BY <1>1, <1>3, <2>1, SameDelay DEF ExtraFollows, Follows
  <2>5. QED
    BY <2>2, <2>3, <2>4
<1>5. CASE ~Marks(task[c])
  <2>1. DeleteTask(c)
    BY <1>5 DEF Consumer_Store
  <2>2. QED
    BY <1>1, <1>3, <2>1, DeleteKeeps
    DEF ThreadTypes, HistoryTypes, ExtraFollows, Follows
<1>6. QED
  BY <1>4, <1>5

LEMMA LoadKeeps ==
  ASSUME SystemInv, NEW c \in Consumer, Consumer_Load(c)
  PROVE  ThreadInv'
<1> USE DEF SystemInv, ThreadInv
<1>1. /\ cpc[c] = "load"
      /\ cpc' = [cpc EXCEPT ![c] = "store"]
      /\ cword' = [cword EXCEPT ![c] =
                     LoadWord(fetch_map, task[c].minute_index, task[c].index)]
      /\ UNCHANGED <<waiting, task, delay_task_queue, fail_task_list_,
                     refetch_task, pushed, repushed, spoiled>>
  BY DEF Consumer_Load, producerVars, historyVars
<1>2. task[c] \in SystemTask /\ Marks(task[c]) /\ Key(task[c]) \in pushed
  BY <1>1 DEF StagesOK, ThreadTypes, FirstTryTask
<1>3. task[c].minute_index \in Minute /\ task[c].index \in Index
  BY <1>2, MatAssumption, ConsumerAssumption DEF SystemTask, Marks, Index
<1>4. LoadWord(fetch_map, task[c].minute_index, task[c].index) \in Word
  BY <1>3, LoadWordType DEF TypeInv, TypeOK
<1>5. ThreadTypes' /\ HistoryTypes'
  BY <1>1, <1>4 DEF ThreadTypes, HistoryTypes
<1>6. StagesOK'
  BY <1>1, <1>2 DEF StagesOK, ThreadTypes, Marks, Key
<1>7. DelayWhole' /\ ExtraFollows'
  BY <1>1, SameDelay DEF ExtraFollows, Follows
<1>8. QED
  BY <1>5, <1>6, <1>7

LEMMA SetBitKeeps ==
  ASSUME SystemInv, NEW c \in Consumer, Consumer_SetBit(c)
  PROVE  ThreadInv'
<1> DEFINE t == task[c]
           q == CreateExtroTasks(<<>>, t.token, t.time_str)
<1> USE DEF SystemInv, ThreadInv
<1>1. /\ cpc[c] = "store" /\ DeleteTask(c)
      /\ cword' = [cword EXCEPT ![c] = {}]
      /\ spoiled' = spoiled \cup LostUpdates(t.minute_index, t.index, cword[c])
      /\ UNCHANGED <<waiting, fail_task_list_, refetch_task, pushed, repushed>>
  BY DEF Consumer_SetBit, ShmWrite
<1>2. /\ t \in SystemTask /\ Marks(t) /\ Key(t) \in pushed /\ t # NoTask
      /\ c \notin waiting
  BY <1>1 DEF StagesOK, ThreadTypes, FirstTryTask
<1>3. t.minute_index \in Minute /\ t.token \in Token \cup {NoToken}
      /\ t.time_str \in ClockMinute
  BY <1>2 DEF SystemTask
<1>4. delay_task_queue[c] = <<>>
  BY <1>2 DEF Marks, StagesOK
<1>5. cword' \in [Consumer -> Word] /\ spoiled' \subseteq Minute \X Index
  BY <1>1, <1>3 DEF ThreadTypes, HistoryTypes, Word, LostUpdates
<1>6. CASE ~CreatesExtra(t)
  <2>1. UNCHANGED delay_task_queue
    BY <1>6 DEF Consumer_SetBit
  <2>2. QED
    BY <1>1, <1>5, <2>1, DeleteKeeps
    DEF ThreadTypes, HistoryTypes, ExtraFollows, Follows
<1>7. CASE CreatesExtra(t)
  <2>1. delay_task_queue' = [delay_task_queue EXCEPT ![c] = q]
    BY <1>4, <1>7 DEF Consumer_SetBit, ThreadTypes
  <2>2. /\ q \in Seq(ExtraTask)
        /\ Len(q) = EXTRA_END - MAX_FETCH_INDEX
        /\ \A k \in 1 .. Len(q) : /\ q[k].index = MAX_FETCH_INDEX + k - 1
                                  /\ q[k].time_str = t.time_str
    BY <1>3, CreateExtroTasksWhole DEF NumberOfExtra
  <2>3. <<t.time_str, MAX_FETCH_INDEX - 1>> \in pushed
    BY <1>2, <1>7 DEF CreatesExtra, Key
  <2>4. /\ task' = [task EXCEPT ![c] = NoTask]
        /\ cpc' = [cpc EXCEPT ![c] = "get"]
    BY <1>1 DEF DeleteTask
  <2> HIDE DEF t, q
  <2>5. ThreadTypes' /\ HistoryTypes'
    BY <1>1, <1>5, <2>1, <2>2, <2>4 DEF ThreadTypes, HistoryTypes
  <2>6. StagesOK'
    BY <1>1, <1>2, <2>1, <2>4 DEF StagesOK, ThreadTypes
  <2>7. DelayWhole'
    <3>1. SUFFICES ASSUME NEW d \in Consumer, NEW k \in 1 .. Len(delay_task_queue'[d])
                   PROVE  LET r == delay_task_queue'[d] IN
                          /\ r[k].index = EXTRA_END - 1 - (Len(r) - k)
                          /\ r[k].index >= MAX_FETCH_INDEX
                          /\ r[k].time_str = r[1].time_str
      BY DEF DelayWhole
    <3>2. CASE d = c
      <4>1. delay_task_queue'[d] = q
        BY <2>1, <3>2 DEF ThreadTypes
      <4>2. /\ k \in 1 .. Len(q) /\ 1 \in 1 .. Len(q)
            /\ EXTRA_END \in Nat /\ MAX_FETCH_INDEX \in Nat
        BY <2>2, <4>1, ConsumerAssumption, MatAssumption
      <4>3. QED
        BY <2>2, <4>1, <4>2
    <3>3. CASE d # c
      BY <2>1, <3>3 DEF DelayWhole, ThreadTypes
    <3>4. QED
      BY <3>2, <3>3
  <2>8. ExtraFollows'
    <3>1. \A k \in 1 .. Len(q) : Follows(q[k])
      BY <2>2, <2>3 DEF Follows
    <3>2. QED
      BY <1>1, <2>1, <2>4, <3>1 DEF ExtraFollows, Follows, ThreadTypes
  <2>9. QED
    BY <2>5, <2>6, <2>7, <2>8
<1>8. QED
  BY <1>6, <1>7
-----------------------------------------------------------------------------
(* The steps of the refetch thread and of the producer. *)

LEMMA RefetchKeeps ==
  ASSUME SystemInv, TeleConsumerRefetchThread
  PROVE  ThreadInv'
<1> USE DEF SystemInv, ThreadInv
<1>1. /\ UNCHANGED <<waiting, cpc, task, cword, delay_task_queue, pushed, spoiled>>
  BY DEF TeleConsumerRefetchThread, GetFailTask, Refetch_Fails,
         Refetch_Dropped, Refetch_Store, RefetchUnchanged, producerVars,
         historyVars
<1>2. SUFFICES
        /\ fail_task_list_' \in Seq(FailedTask)
        /\ Len(fail_task_list_') <= MAX_FAIL_SIZE
        /\ refetch_task' \in FailedTask \cup {NoTask}
        /\ repushed' \subseteq SystemKey
        /\ \A k \in 1 .. Len(fail_task_list_') : Follows(fail_task_list_'[k])
        /\ refetch_task' # NoTask => Follows(refetch_task')
  <2>1. ASSUME /\ fail_task_list_' \in Seq(FailedTask)
               /\ Len(fail_task_list_') <= MAX_FAIL_SIZE
               /\ refetch_task' \in FailedTask \cup {NoTask}
               /\ repushed' \subseteq SystemKey
        PROVE  ThreadTypes' /\ HistoryTypes'
    BY <1>1, <2>1 DEF ThreadTypes, HistoryTypes
  <2>2. StagesOK' /\ DelayWhole'
    BY <1>1, SameDelay DEF StagesOK
  <2>3. ASSUME /\ \A k \in 1 .. Len(fail_task_list_') : Follows(fail_task_list_'[k])
               /\ refetch_task' # NoTask => Follows(refetch_task')
        PROVE  ExtraFollows'
    BY <1>1, <2>3 DEF ExtraFollows, Follows
  <2>4. QED
    BY <2>1, <2>2, <2>3
<1>3. /\ fail_task_list_ \in Seq(FailedTask)
      /\ Len(fail_task_list_) <= MAX_FAIL_SIZE
      /\ refetch_task \in FailedTask \cup {NoTask}
      /\ repushed \subseteq SystemKey
      /\ \A k \in 1 .. Len(fail_task_list_) : Follows(fail_task_list_[k])
      /\ refetch_task # NoTask => Follows(refetch_task)
  BY DEF ThreadTypes, HistoryTypes, ExtraFollows
<1>4. CASE GetFailTask
  <2>1. /\ fail_task_list_ # <<>>
        /\ refetch_task' = Head(fail_task_list_)
        /\ fail_task_list_' = Tail(fail_task_list_)
        /\ repushed' = repushed
    BY <1>4 DEF GetFailTask, historyVars
  <2>2. /\ Head(fail_task_list_) \in FailedTask
        /\ Head(fail_task_list_) = fail_task_list_[1]
        /\ Tail(fail_task_list_) \in Seq(FailedTask)
        /\ Len(Tail(fail_task_list_)) = Len(fail_task_list_) - 1
        /\ Len(fail_task_list_) \in Nat \ {0}
        /\ \A k \in 1 .. Len(Tail(fail_task_list_)) :
             Tail(fail_task_list_)[k] = fail_task_list_[k + 1]
    BY <1>3, <2>1, FrontOfQueue
  <2>3. Follows(Head(fail_task_list_))
    BY <1>3, <2>2
  <2>4. \A k \in 1 .. Len(Tail(fail_task_list_)) : Follows(Tail(fail_task_list_)[k])
    BY <1>3, <2>2
  <2>5. Len(Tail(fail_task_list_)) <= MAX_FAIL_SIZE
    BY <1>3, <2>2, ConsumerAssumption
  <2>6. QED
    BY <1>3, <2>1, <2>2, <2>3, <2>4, <2>5
<1>5. CASE Refetch_Fails
  <2>1. /\ refetch_task # NoTask /\ refetch_task' = NoTask
        /\ repushed' = repushed
    BY <1>5 DEF Refetch_Fails, historyVars
  <2>2. CASE ~(refetch_task.retry_count < RETRY_MAX)
    BY <1>3, <1>5, <2>1, <2>2 DEF Refetch_Fails
  <2>3. CASE refetch_task.retry_count < RETRY_MAX
    <3>1. fail_task_list_' = SaveFailTask(fail_task_list_, refetch_task)
      BY <1>5, <2>3 DEF Refetch_Fails
    <3>2. refetch_task \in SystemTask /\ Follows(refetch_task)
      BY <1>3, <2>1 DEF FailedTask
    <3>3. /\ fail_task_list_' \in Seq(FailedTask)
          /\ Len(fail_task_list_') <= MAX_FAIL_SIZE
          /\ \A k \in 1 .. Len(fail_task_list_') :
               \/ k \in 1 .. Len(fail_task_list_) /\ fail_task_list_'[k] = fail_task_list_[k]
               \/ /\ fail_task_list_'[k].index = refetch_task.index
                  /\ fail_task_list_'[k].time_str = refetch_task.time_str
      BY <1>3, <2>3, <3>1, <3>2, SaveFailTaskType
    <3>4. \A k \in 1 .. Len(fail_task_list_') : Follows(fail_task_list_'[k])
      BY <1>3, <3>2, <3>3 DEF Follows
    <3>5. QED
      BY <1>3, <2>1, <3>3, <3>4
  <2>4. QED
    BY <2>2, <2>3
<1>6. CASE Refetch_Dropped
  BY <1>3, <1>6 DEF Refetch_Dropped, historyVars
<1>7. CASE Refetch_Store
  <2>1. /\ refetch_task # NoTask /\ refetch_task' = NoTask
        /\ fail_task_list_' = fail_task_list_
        /\ repushed' = repushed \cup {Key(refetch_task)}
    BY <1>7 DEF Refetch_Store
  <2>2. Key(refetch_task) \in SystemKey
    BY <1>3, <2>1, KeyType DEF FailedTask
  <2>3. QED
    BY <1>3, <2>1, <2>2
<1>8. QED
  BY <1>4, <1>5, <1>6, <1>7 DEF TeleConsumerRefetchThread

\* The producer thread blocks nobody; it may wake the consumers.
LEMMA ProducerWaits ==
  ASSUME ProducerInit \/ TeleProducerThread
  PROVE  waiting' \subseteq waiting
  BY DEF ProducerInit, TeleProducerThread, PushTaskBatch, PushTaskBatch_Enter,
         PushTaskBatch_Load, PushTaskBatch_Clear, PushTaskBatch_Slave,
         PushTaskBatch_Return, PushTaskBatch_Broadcast, CheckandUpdateTask,
         CheckandUpdateTask_Same, CheckandUpdateTask_Moved, UpdateTask

\* A step that touches neither the threads nor what they pushed.
LEMMA OthersKeep ==
  ASSUME SystemInv, UNCHANGED <<threadVars, pushed, repushed>>,
         waiting' \subseteq waiting, spoiled' \subseteq Minute \X Index
  PROVE  ThreadInv'
<1> USE DEF SystemInv, ThreadInv
<1>1. ThreadTypes' /\ HistoryTypes'
  BY DEF ThreadTypes, HistoryTypes, threadVars
<1>2. StagesOK' /\ DelayWhole' /\ ExtraFollows'
  BY SameDelay DEF StagesOK, ExtraFollows, Follows, threadVars
<1>3. QED
  BY <1>1, <1>2

LEMMA ProducerKeeps ==
  ASSUME SystemInv, Producer_Step
  PROVE  ThreadInv'
<1>1. spoiled' \subseteq spoiled \cup LostUpdates(MinuteIndex, i, word)
  BY DEF Producer_Step
<1>2. spoiled \subseteq Minute \X Index
  BY DEF SystemInv, ThreadInv, HistoryTypes
<1>3. fetch_time_str_ \in Int
  BY TaskAssumption DEF SystemInv, TypeInv, TypeOK, ClockMinute, NoTime
<1>4. LostUpdates(MinuteIndex, i, word) \subseteq Minute \X Index
  BY <1>3, MinuteIndexRange DEF LostUpdates
<1>5. waiting' \subseteq waiting
  BY ProducerWaits DEF Producer_Step
<1>6. UNCHANGED <<threadVars, pushed, repushed>>
  BY DEF Producer_Step
<1>7. QED
  BY <1>1, <1>2, <1>4, <1>5, <1>6, OthersKeep

LEMMA SystemInvStep == SystemInv /\ [SystemNext]_systemVars => SystemInv'
<1> SUFFICES ASSUME SystemInv, [SystemNext]_systemVars
             PROVE  SystemInv'
  OBVIOUS
<1>1. TypeInv'
  BY ProducerPart, TypeStep DEF SystemInv
<1>2. ASSUME NEW c \in Consumer, TeleConsumerThread(c) \/ Consumer_Wakeup(c)
      PROVE  ThreadInv'
  BY <1>2, DelayKeeps, PopKeeps, WaitKeeps, FetchFailsKeeps, FetchDroppedKeeps,
     StoreKeeps, LoadKeeps, SetBitKeeps
  DEF TeleConsumerThread
<1>3. ASSUME Clock_Step \/ UNCHANGED systemVars
      PROVE  ThreadInv'
  <2>1. UNCHANGED <<threadVars, historyVars, waiting>>
    BY <1>3 DEF Clock_Step, Tick, systemVars, producerVars
  <2>2. QED
    BY <2>1, OthersKeep DEF historyVars, SystemInv, ThreadInv, HistoryTypes
<1>4. ThreadInv'
  <2>1. CASE Producer_Step
    BY <2>1, ProducerKeeps
  <2>2. CASE TeleConsumerRefetchThread
    BY <2>2, RefetchKeeps
  <2>3. CASE \E c \in Consumer : TeleConsumerThread(c) \/ Consumer_Wakeup(c)
    BY <1>2, <2>3
  <2>4. QED
    BY <1>3, <2>1, <2>2, <2>3 DEF SystemNext
<1>5. QED
  BY <1>1, <1>4 DEF SystemInv

-----------------------------------------------------------------------------
(* The theorems. *)

LEMMA SystemInvCorrect == SystemSafeSpec => []SystemInv
  BY SystemInvInit, SystemInvStep, PTL DEF SystemSafeSpec

(* The process only does what the producer's specification allows, so the  *)
(* theorems of TeleTaskProducerProofs hold of the process as well.         *)
THEOREM ProcessImplementsProducer == SystemSafeSpec => ImplementsProducer
<1>1. SystemInit => Init
  BY DEF SystemInit
<1>2. SystemInv /\ [SystemNext]_systemVars => [Next]_producerVars
  BY ProducerPart
<1>3. QED
  BY <1>1, <1>2, SystemInvCorrect, PTL
  DEF SystemSafeSpec, ImplementsProducer, SafeSpec

(* CreateExtroTasks always finds an empty delay queue, so no extra task is *)
(* dropped and the queue is always the rest of one window's extra tasks.   *)
THEOREM DelayIsWhole == SystemSafeSpec => []DelayWhole
<1>1. SystemInv => DelayWhole
  BY DEF SystemInv, ThreadInv
<1>2. QED
  BY <1>1, SystemInvCorrect, PTL

LEMMA SystemInvTypes == SystemInv => SystemTypeOK
<1> SUFFICES ASSUME SystemInv PROVE SystemTypeOK
  OBVIOUS
<1> USE DEF SystemInv, ThreadInv
<1>1. \A t \in FailedTask : t.retry_count \in 1 .. RETRY_MAX
  BY ConsumerAssumption DEF FailedTask, SystemTask
<1>2. Elements(fail_task_list_) \subseteq FailedTask
  BY DEF ThreadTypes, Elements
<1>3. {refetch_task} \ {NoTask} \subseteq FailedTask
  BY DEF ThreadTypes
<1>4. QED
  BY <1>1, <1>2, <1>3
  DEF SystemTypeOK, ThreadTypes, HistoryTypes, StagesOK, SystemKey

(* Where a thread stands and what it holds agree; a failed task is counted *)
(* between one and RETRY_MAX failures, and the list never outgrows its     *)
(* bound.                                                                  *)
THEOREM SystemTypeCorrect == SystemSafeSpec => []SystemTypeOK
<1>1. SystemInv => SystemTypeOK
  BY SystemInvTypes
<1>2. QED
  BY <1>1, SystemInvCorrect, PTL

\* Wherever an extra task is, ExtraFollows speaks of it.
LEMMA ExtraFollowsIsAfter == SystemInv => ExtraAfterLast
<1> SUFFICES ASSUME SystemInv, NEW x \in Owned, x[4][2] >= MAX_FETCH_INDEX
             PROVE  <<x[4][1], MAX_FETCH_INDEX - 1>> \in pushed
  BY DEF ExtraAfterLast
<1> USE DEF SystemInv, ThreadInv
<1>1. ASSUME NEW t, Follows(t), x[4] = Key(t)
      PROVE  <<x[4][1], MAX_FETCH_INDEX - 1>> \in pushed
  BY <1>1 DEF Follows, Key
<1>2. ASSUME NEW k \in 1 .. Len(producer_queue_), x[4] = Key(producer_queue_[k])
      PROVE  FALSE
  <2>1. producer_queue_[k].index \in Index
    BY QueuedTaskFields
  <2>2. QED
    BY <1>2, <2>1, MatAssumption DEF Key, Index
<1>3. ASSUME NEW c \in Consumer, cpc[c] = "fetch", x[4] = Key(task[c])
      PROVE  Follows(task[c])
  BY <1>3 DEF StagesOK, ExtraFollows
<1>4. \/ \E k \in 1 .. Len(producer_queue_) : x[4] = Key(producer_queue_[k])
      \/ \E c \in Consumer : cpc[c] = "fetch" /\ x[4] = Key(task[c])
      \/ \E c \in Consumer : \E k \in 1 .. Len(delay_task_queue[c]) :
           x[4] = Key(delay_task_queue[c][k])
      \/ \E k \in 1 .. Len(fail_task_list_) : x[4] = Key(fail_task_list_[k])
      \/ refetch_task # NoTask /\ x[4] = Key(refetch_task)
  <2>1. CASE x \in {<<"queue", 0, k, Key(producer_queue_[k])>> :
                     k \in 1 .. Len(producer_queue_)}
    BY <2>1
  <2>2. CASE x \in {<<"fetch", c, 0, Key(task[c])>> :
                     c \in {d \in Consumer : cpc[d] = "fetch"}}
    BY <2>2
  <2>3. CASE x \in UNION {{<<"delay", c, k, Key(delay_task_queue[c][k])>> :
                            k \in 1 .. Len(delay_task_queue[c])} : c \in Consumer}
    BY <2>3
  <2>4. CASE x \in {<<"fail", 0, k, Key(fail_task_list_[k])>> :
                     k \in 1 .. Len(fail_task_list_)}
    BY <2>4
  <2>5. CASE x \in {<<"refetch", 0, 0, Key(t)>> : t \in {refetch_task} \ {NoTask}}
    BY <2>5
  <2>6. QED
    BY <2>1, <2>2, <2>3, <2>4, <2>5 DEF Owned
<1>5. QED
  BY <1>1, <1>2, <1>3, <1>4 DEF ExtraFollows

(* An extra task, wherever it is, follows the last index of its window:    *)
(* that index was pushed before the task was made.                         *)
THEOREM ExtraComesAfterLast == SystemSafeSpec => []ExtraAfterLast
<1>1. SystemInv => ExtraAfterLast
  BY ExtraFollowsIsAfter
<1>2. QED
  BY <1>1, SystemInvCorrect, PTL

=============================================================================
