--------------------------- MODULE TeleTaskMarkProofs ---------------------------
(***************************************************************************)
(* Proofs of BitMeansPushed and PushedMeansBit of TeleTaskConsumer: what   *)
(* the shared map tells of what one process pushed, lost updates apart,    *)
(* within one day, in which a row of the map is of one minute (OneDay).    *)
(*                                                                         *)
(* A store changes the bit of its index, and bits that another thread      *)
(* changed since the word was loaded, which are recorded in spoiled.  The  *)
(* master clears the bit of an index only before it hands the index on,    *)
(* and no index of the window is pushed before that (OwnerInv).            *)
(***************************************************************************)
EXTENDS TeleTaskOwnerProofs

OneDay == ClockPeriod = ONE_DAY_MINUTE

\* What a thread has in hand: an extra task, or one of the producer's, whose
\* minute_index is the row of its window.
HandsOK ==
  \A c \in Consumer : task[c] # NoTask =>
    \/ task[c].type = TASK_DELAY /\ task[c].index >= MAX_FETCH_INDEX
    \/ /\ task[c].type = TASK_NORMAL /\ task[c].index \in Index
       /\ task[c].minute_index = task[c].time_str % ONE_DAY_MINUTE

MarkBase == SystemInv /\ OwnerInv /\ QueueOfWindow /\ HandsOK

-----------------------------------------------------------------------------
(* Rows, words and bits. *)

LEMMA RowOfMinute ==
  ASSUME OneDay, NEW w \in ClockMinute
  PROVE  w % ONE_DAY_MINUTE = w
  BY MatAssumption DEF OneDay, ClockMinute

\* Two indices do not share a bit.
LEMMA BitsDiffer ==
  ASSUME NEW j \in Index, NEW k \in Index,
         WordOf(j) = WordOf(k), BitOf(j) = BitOf(k)
  PROVE  j = k
<1>1. /\ j = WordBits * (j \div WordBits) + (j % WordBits)
      /\ k = WordBits * (k \div WordBits) + (k % WordBits)
  BY MatAssumption DEF Index
<1>2. QED
  BY <1>1 DEF WordOf, BitOf

\* A store changes the bit of its index and nothing else, lost updates apart.
LEMMA StoreChanges ==
  ASSUME fetch_map \in FetchMap, NEW m \in Minute, NEW j \in Index,
         NEW w \in Word, NEW v \in {WithBit(w, j), WithoutBit(w, j)},
         fetch_map' = StoreWord(fetch_map, m, j, v)
  PROVE  /\ IS_SET(fetch_map', m, j) <=> BitOf(j) \in v
         /\ \A r \in Minute, k \in Index :
              \/ IS_SET(fetch_map', r, k) <=> IS_SET(fetch_map, r, k)
              \/ r = m /\ k = j
              \/ <<r, k>> \in LostUpdates(m, j, w)
<1>1. WordOf(j) \in 0 .. MAX_INDEX - 1
  BY WordRange
<1>2. \A r \in Minute, k \in Index :
        LoadWord(fetch_map', r, k) =
          IF r = m /\ WordOf(k) = WordOf(j) THEN v ELSE LoadWord(fetch_map, r, k)
  <2>1. \A k \in Index : WordOf(k) \in 0 .. MAX_INDEX - 1
    BY WordRange
  <2>2. QED
    BY <1>1, <2>1 DEF LoadWord, StoreWord, FetchMap
<1>3. IS_SET(fetch_map', m, j) <=> BitOf(j) \in v
  BY <1>2 DEF IS_SET
<1>4. ASSUME NEW r \in Minute, NEW k \in Index, ~(r = m /\ k = j)
      PROVE  \/ IS_SET(fetch_map', r, k) <=> IS_SET(fetch_map, r, k)
             \/ <<r, k>> \in LostUpdates(m, j, w)
  <2>1. CASE r = m /\ WordOf(k) = WordOf(j)
    <3>1. k # j /\ BitOf(k) # BitOf(j)
      BY <1>4, <2>1, BitsDiffer
    <3>2. BitOf(k) \in v <=> BitOf(k) \in w
      BY <3>1 DEF WithBit, WithoutBit
    <3>3. IS_SET(fetch_map', r, k) <=> BitOf(k) \in w
      BY <1>2, <2>1, <3>2 DEF IS_SET
    <3>4. CASE BitOf(k) \in w <=> IS_SET(fetch_map, r, k)
      BY <3>3, <3>4
    <3>5. CASE ~(BitOf(k) \in w <=> IS_SET(fetch_map, r, k))
      BY <2>1, <3>1, <3>5 DEF LostUpdates
    <3>6. QED
      BY <3>4, <3>5
  <2>2. CASE ~(r = m /\ WordOf(k) = WordOf(j))
    BY <1>2, <2>2 DEF IS_SET
  <2>3. QED
    BY <2>1, <2>2
<1>5. QED
  BY <1>3, <1>4

-----------------------------------------------------------------------------
(* What the steps do to the map, the window and the marking threads. *)

\* The map is only written by a consumer's and by the master's store.
LEMMA MapSteps ==
  ASSUME [SystemNext]_systemVars
  PROVE  \/ fetch_map' = fetch_map
         \/ \E c \in Consumer : Consumer_SetBit(c)
         \/ Producer_Step /\ PushTaskBatch_Clear
<1>1. CASE Producer_Step
  BY <1>1
  DEF Producer_Step, ProducerInit, TeleProducerThread, PushTaskBatch,
      PushTaskBatch_Enter, PushTaskBatch_Load, PushTaskBatch_Slave,
      PushTaskBatch_Return, PushTaskBatch_Broadcast, CheckandUpdateTask,
      CheckandUpdateTask_Same, CheckandUpdateTask_Moved, UpdateTask
<1>2. ASSUME NEW c \in Consumer, TeleConsumerThread(c) \/ Consumer_Wakeup(c),
             ~Consumer_SetBit(c)
      PROVE  fetch_map' = fetch_map
  BY <1>2
  DEF TeleConsumerThread, Consumer_Delay, Consumer_Pop, Consumer_Wait,
      Consumer_Wakeup, Consumer_FetchFails, Consumer_FetchDropped,
      Consumer_FetchRefused, Consumer_Store, Consumer_Load, GetTask_Pop,
      GetTask_Wait, GetTask_Wakeup, SetIdentityError, producerVars
<1>3. CASE TeleConsumerRefetchThread \/ Clock_Step \/ UNCHANGED systemVars
  BY <1>3
  DEF TeleConsumerRefetchThread, GetFailTask, Refetch_Fails, Refetch_Dropped,
      Refetch_Store, RefetchUnchanged, Clock_Step, Tick, systemVars, producerVars
<1>4. QED
  BY <1>1, <1>2, <1>3 DEF SystemNext

\* A master moves on in its window only with the store that clears a bit.
LEMMA MasterMoves ==
  ASSUME SystemInv, ~IsSlave, [SystemNext]_systemVars, ~PushTaskBatch_Clear
  PROVE  NextIndex' = 0 \/ (SameWindow /\ NextIndex' = NextIndex)
<1>1. CASE Producer_Step
  <2>1. CASE PushTaskBatch_Return
    BY <2>1
    DEF PushTaskBatch_Return, SystemInv, TypeInv, IndexReady, NextIndex, InLoop,
        SameWindow
  <2>2. CASE \E answer \in TokenAnswer : UpdateTask(answer)
    BY <2>2 DEF UpdateTask, OpenWindow, NextIndex, InLoop
  <2>3. CASE \/ ProducerInit \/ PushTaskBatch_Enter \/ PushTaskBatch_Load
             \/ PushTaskBatch_Broadcast \/ CheckandUpdateTask_Same
             \/ CheckandUpdateTask_Moved
    BY <2>3
    DEF ProducerInit, PushTaskBatch_Enter, PushTaskBatch_Load,
        PushTaskBatch_Broadcast, CheckandUpdateTask_Same,
        CheckandUpdateTask_Moved, NextIndex, InLoop, SameWindow
  <2>4. QED
    BY <1>1, <2>1, <2>2, <2>3
    DEF Producer_Step, TeleProducerThread, PushTaskBatch, PushTaskBatch_Slave,
        CheckandUpdateTask
<1>2. ASSUME NEW c \in Consumer, TeleConsumerThread(c) \/ Consumer_Wakeup(c)
      PROVE  SameWindow /\ NextIndex' = NextIndex
  BY <1>2
  DEF TeleConsumerThread, Consumer_Delay, Consumer_Pop, Consumer_Wait,
      Consumer_Wakeup, Consumer_FetchFails, Consumer_FetchDropped,
      Consumer_FetchRefused, Consumer_Store, Consumer_Load, Consumer_SetBit,
      GetTask_Pop, GetTask_Wait, GetTask_Wakeup, SetIdentityError, ShmWrite,
      producerVars, NextIndex, InLoop, SameWindow
<1>3. CASE TeleConsumerRefetchThread \/ Clock_Step \/ UNCHANGED systemVars
  BY <1>3
  DEF TeleConsumerRefetchThread, GetFailTask, Refetch_Fails, Refetch_Dropped,
      Refetch_Store, RefetchUnchanged, Clock_Step, Tick, systemVars,
      producerVars, NextIndex, InLoop, SameWindow
<1>4. QED
  BY <1>1, <1>2, <1>3 DEF SystemNext

LEMMA HistoryGrows ==
  ASSUME [SystemNext]_systemVars
  PROVE  spoiled \subseteq spoiled' /\ pushed \subseteq pushed'
<1>1. CASE Producer_Step
  BY <1>1 DEF Producer_Step
<1>2. ASSUME NEW c \in Consumer, TeleConsumerThread(c) \/ Consumer_Wakeup(c)
      PROVE  spoiled \subseteq spoiled' /\ pushed \subseteq pushed'
  BY <1>2
  DEF TeleConsumerThread, Consumer_Delay, Consumer_Pop, Consumer_Wait,
      Consumer_Wakeup, Consumer_FetchFails, Consumer_FetchDropped,
      Consumer_FetchRefused, Consumer_Store, Consumer_Load, Consumer_SetBit,
      historyVars
<1>3. CASE TeleConsumerRefetchThread \/ Clock_Step \/ UNCHANGED systemVars
  BY <1>3
  DEF TeleConsumerRefetchThread, GetFailTask, Refetch_Fails, Refetch_Dropped,
      Refetch_Store, Clock_Step, systemVars, historyVars
<1>4. QED
  BY <1>1, <1>2, <1>3 DEF SystemNext

\* The store of a consumer, and the bit it sets.
LEMMA SetBitStores ==
  ASSUME MarkBase, NEW c \in Consumer, Consumer_SetBit(c)
  PROVE  LET m == task[c].time_str % ONE_DAY_MINUTE
             j == task[c].index
         IN  /\ Key(task[c]) \in pushed
             /\ m \in Minute /\ j \in Index /\ task[c].time_str \in ClockMinute
             /\ IS_SET(fetch_map', m, j)
             /\ \A r \in Minute, k \in Index :
                  \/ IS_SET(fetch_map', r, k) <=> IS_SET(fetch_map, r, k)
                  \/ r = m /\ k = j
                  \/ r = m /\ WordOf(k) = WordOf(j) /\ <<r, k>> \in spoiled'
<1> DEFINE t == task[c]
           m == t.minute_index
           j == t.index
<1>1. /\ cpc[c] = "store"
      /\ fetch_map' = StoreWord(fetch_map, m, j, WithBit(cword[c], j))
      /\ spoiled' = spoiled \cup LostUpdates(m, j, cword[c])
  BY DEF Consumer_SetBit, ShmWrite
<1>2. /\ t \in SystemTask /\ Marks(t) /\ Key(t) \in pushed /\ t # NoTask
      /\ cword[c] \in Word /\ fetch_map \in FetchMap
  BY <1>1 DEF MarkBase, SystemInv, ThreadInv, StagesOK, ThreadTypes,
              FirstTryTask, TypeInv, TypeOK
<1>3. /\ m \in Minute /\ j \in Index /\ t.time_str \in ClockMinute
      /\ m = t.time_str % ONE_DAY_MINUTE
  BY <1>2, MatAssumption DEF MarkBase, HandsOK, Marks, SystemTask, TASK_NORMAL, TASK_DELAY
<1> HIDE DEF m, j
<1>4. /\ IS_SET(fetch_map', m, j) <=> BitOf(j) \in WithBit(cword[c], j)
      /\ \A r \in Minute, k \in Index :
           \/ IS_SET(fetch_map', r, k) <=> IS_SET(fetch_map, r, k)
           \/ r = m /\ k = j
           \/ <<r, k>> \in LostUpdates(m, j, cword[c])
  BY <1>1, <1>2, <1>3, StoreChanges
<1>5. IS_SET(fetch_map', m, j)
  BY <1>4 DEF WithBit
<1>6. \A r, k : <<r, k>> \in LostUpdates(m, j, cword[c])
                => r = m /\ WordOf(k) = WordOf(j)
  BY DEF LostUpdates
<1>7. QED
  BY <1>1, <1>2, <1>3, <1>4, <1>5, <1>6 DEF m, j

\* The master's store, and the bit it clears.
LEMMA ClearStores ==
  ASSUME MarkBase, Producer_Step, PushTaskBatch_Clear
  PROVE  /\ Window /\ SameWindow /\ pushed' = pushed
         /\ fetch_time_str_ \in ClockMinute /\ MinuteIndex \in Minute
         /\ i \in Index /\ NextIndex = i /\ NextIndex' \in {i, i + 1}
         /\ ~IS_SET(fetch_map', MinuteIndex, i)
         /\ \A r \in Minute, k \in Index :
              \/ IS_SET(fetch_map', r, k) <=> IS_SET(fetch_map, r, k)
              \/ r = MinuteIndex /\ k = i
              \/ r = MinuteIndex /\ WordOf(k) = WordOf(i) /\ <<r, k>> \in spoiled'
<1>1. /\ ppc = "clear"
      /\ fetch_map' = StoreWord(fetch_map, MinuteIndex, i, WithoutBit(word, i))
      /\ spoiled' = spoiled \cup LostUpdates(MinuteIndex, i, word)
      /\ pushed' = pushed /\ SameWindow
      /\ \/ ppc' = "loop" /\ i' = i + 1
         \/ ppc' = "full" /\ i' = i
  <2>1. /\ ppc = "clear" /\ PushNext /\ SameWindow
        /\ fetch_map' = StoreWord(fetch_map, MinuteIndex, i, WithoutBit(word, i))
    BY DEF PushTaskBatch_Clear, SameWindow
  <2>2. /\ spoiled' = spoiled \cup LostUpdates(MinuteIndex, i, word)
        /\ pushed' = pushed
    BY <2>1 DEF Producer_Step
  <2>3. \/ ppc' = "loop" /\ i' = i + 1
        \/ ppc' = "full" /\ i' = i
    BY <2>1 DEF PushNext
  <2>4. QED
    BY <2>1, <2>2, <2>3
<1>2. InLoop /\ Window /\ i < MAX_FETCH_INDEX /\ fetch_time_str_ \in ClockMinute
  BY <1>1 DEF MarkBase, SystemInv, TypeInv, TypeOK, IndexReady, InLoop, Window
<1>3. i \in Index /\ MinuteIndex \in Minute /\ word \in Word /\ fetch_map \in FetchMap
  <2>1. i \in Index
    BY <1>2, MatAssumption DEF MarkBase, SystemInv, TypeInv, TypeOK, IndexReady, Index
  <2>2. MinuteIndex \in Minute
    BY <1>2, MinuteIndexRange DEF ClockMinute
  <2>3. QED
    BY <2>1, <2>2 DEF MarkBase, SystemInv, TypeInv, TypeOK
<1>4. NextIndex = i /\ NextIndex' \in {i, i + 1}
  BY <1>1, <1>2 DEF NextIndex, InLoop
<1>5. /\ IS_SET(fetch_map', MinuteIndex, i) <=> BitOf(i) \in WithoutBit(word, i)
      /\ \A r \in Minute, k \in Index :
           \/ IS_SET(fetch_map', r, k) <=> IS_SET(fetch_map, r, k)
           \/ r = MinuteIndex /\ k = i
           \/ <<r, k>> \in LostUpdates(MinuteIndex, i, word)
  BY <1>1, <1>3, StoreChanges
<1>6. ~IS_SET(fetch_map', MinuteIndex, i)
  BY <1>5 DEF WithoutBit
<1>7. \A r, k : <<r, k>> \in LostUpdates(MinuteIndex, i, word)
                => r = MinuteIndex /\ WordOf(k) = WordOf(i)
  BY DEF LostUpdates
<1>8. QED
  BY <1>1, <1>2, <1>3, <1>4, <1>5, <1>6, <1>7

-----------------------------------------------------------------------------
(* What the threads have in hand. *)

LEMMA HandsStep ==
  ASSUME SystemInv, QueueOfWindow, HandsOK, [SystemNext]_systemVars
  PROVE  HandsOK'
<1>1. task \in [Consumer -> FirstTryTask \cup {NoTask}]
  BY DEF SystemInv, ThreadInv, ThreadTypes
<1>2. CASE \A d \in Consumer : task'[d] = task[d] \/ task'[d] = NoTask
  BY <1>2 DEF HandsOK
<1>3. ASSUME NEW c \in Consumer, Consumer_Delay(c)
      PROVE  HandsOK'
  <2>1. /\ delay_task_queue[c] \in Seq(ExtraTask) /\ delay_task_queue[c] # <<>>
        /\ task' = [task EXCEPT ![c] = Head(delay_task_queue[c])]
    BY <1>3 DEF Consumer_Delay, TakeTask, SystemInv, ThreadInv, ThreadTypes
  <2>2. Head(delay_task_queue[c]) \in ExtraTask
    BY <2>1, FrontOfQueue
  <2>3. QED
    BY <1>1, <2>1, <2>2 DEF HandsOK, ExtraTask
<1>4. ASSUME NEW c \in Consumer, Consumer_Pop(c)
      PROVE  HandsOK'
  <2> DEFINE t == Head(producer_queue_)
  <2>1. /\ producer_queue_ \in Seq(QueuedTask) /\ producer_queue_ # <<>>
        /\ task' = [task EXCEPT ![c] = t]
    BY <1>4 DEF Consumer_Pop, GetTask_Pop, TakeTask, SystemInv, TypeInv, TypeOK
  <2>2. t \in QueuedTask /\ t = producer_queue_[1] /\ 1 \in 1 .. Len(producer_queue_)
    BY <2>1, FrontOfQueue
  <2>3. t.minute_index = t.time_str % ONE_DAY_MINUTE
    BY <2>2 DEF QueueOfWindow, MinuteIndex
  <2>4. t.type = TASK_NORMAL /\ t.index \in Index
    BY <2>2 DEF QueuedTask
  <2> HIDE DEF t
  <2>5. QED
    BY <1>1, <2>1, <2>3, <2>4 DEF HandsOK
<1>5. ASSUME NEW c \in Consumer, TeleConsumerThread(c) \/ Consumer_Wakeup(c),
             ~Consumer_Delay(c), ~Consumer_Pop(c)
      PROVE  \A d \in Consumer : task'[d] = task[d] \/ task'[d] = NoTask
  BY <1>1, <1>5
  DEF TeleConsumerThread, Consumer_Wait, Consumer_Wakeup, Consumer_FetchFails,
      Consumer_FetchDropped, Consumer_FetchRefused, Consumer_Store,
      Consumer_Load, Consumer_SetBit, DeleteTask, threadVars
<1>6. CASE Producer_Step \/ TeleConsumerRefetchThread \/ Clock_Step \/ UNCHANGED systemVars
  <2>1. task' = task
    BY <1>6
    DEF Producer_Step, TeleConsumerRefetchThread, GetFailTask, Refetch_Fails,
        Refetch_Dropped, Refetch_Store, RefetchUnchanged, Clock_Step,
        systemVars, threadVars
  <2>2. QED
    BY <1>2, <2>1
<1>7. QED
  BY <1>2, <1>3, <1>4, <1>5, <1>6 DEF SystemNext

LEMMA MarkBaseCorrect == SystemSafeSpec => []MarkBase
<1>1. SystemInit => QueueOfWindow /\ HandsOK
  BY DEF SystemInit, Init, QueueOfWindow, HandsOK
<1>2. SystemInv /\ QueueOfWindow /\ HandsOK /\ [SystemNext]_systemVars
        => QueueOfWindow' /\ HandsOK'
  BY ProducerPart, QueueOfWindowStep, HandsStep DEF SystemInv
<1>3. SystemSafeSpec => [](QueueOfWindow /\ HandsOK)
  BY <1>1, <1>2, SystemInvCorrect, PTL DEF SystemSafeSpec
<1>4. QED
  BY <1>3, SystemInvCorrect, OwnerInvCorrect, PTL DEF MarkBase

-----------------------------------------------------------------------------
(* A mark means a push. *)

LEMMA BitStep ==
  ASSUME OneDay, MarkBase, BitMeansPushed, [SystemNext]_systemVars
  PROVE  BitMeansPushed'
<1>1. SUFFICES ASSUME ~IsSlave, Window', NEW j \in Index, j < NextIndex',
                      IS_SET(fetch_map', MinuteIndex', j)
               PROVE  \/ <<fetch_time_str_', j>> \in pushed'
                      \/ <<MinuteIndex', j>> \in spoiled'
  BY DEF BitMeansPushed
<1>2. spoiled \subseteq spoiled' /\ pushed \subseteq pushed'
  BY HistoryGrows
<1>3. CASE Producer_Step /\ PushTaskBatch_Clear
  <2>1. /\ Window /\ SameWindow /\ pushed' = pushed /\ MinuteIndex \in Minute
        /\ i \in Index /\ NextIndex = i /\ NextIndex' \in {i, i + 1}
        /\ ~IS_SET(fetch_map', MinuteIndex, i)
        /\ \A r \in Minute, k \in Index :
             \/ IS_SET(fetch_map', r, k) <=> IS_SET(fetch_map, r, k)
             \/ r = MinuteIndex /\ k = i
             \/ <<r, k>> \in spoiled'
    BY <1>3, ClearStores
  <2>2. MinuteIndex' = MinuteIndex /\ fetch_time_str_' = fetch_time_str_
    BY <2>1 DEF MinuteIndex, SameWindow
  <2>3. j # i /\ j < NextIndex
    BY <1>1, <2>1, <2>2, MatAssumption DEF Index
  <2>4. QED
    BY <1>1, <1>2, <2>1, <2>2, <2>3 DEF BitMeansPushed
<1>4. CASE ~PushTaskBatch_Clear
  <2>1. SameWindow /\ NextIndex' = NextIndex
    <3>1. NextIndex' # 0
      BY <1>1, MatAssumption DEF Index
    <3>2. QED
      BY <1>1, <1>4, <3>1, MasterMoves DEF MarkBase
  <2>2. Window /\ MinuteIndex' = MinuteIndex /\ fetch_time_str_' = fetch_time_str_
    BY <1>1, <2>1 DEF MinuteIndex, SameWindow, Window
  <2>3. fetch_time_str_ \in ClockMinute /\ MinuteIndex \in Minute
    <3>1. fetch_time_str_ \in ClockMinute
      BY <2>2 DEF MarkBase, SystemInv, TypeInv, TypeOK, Window
    <3>2. QED
      BY <3>1, MinuteIndexRange DEF ClockMinute
  <2>4. CASE fetch_map' = fetch_map
    BY <1>1, <1>2, <2>1, <2>2, <2>4 DEF BitMeansPushed
  <2>5. ASSUME NEW c \in Consumer, Consumer_SetBit(c)
        PROVE  \/ <<fetch_time_str_', j>> \in pushed'
               \/ <<MinuteIndex', j>> \in spoiled'
    <3> DEFINE w == task[c].time_str
               x == task[c].index
    <3>1. /\ Key(task[c]) \in pushed /\ w \in ClockMinute
          /\ \A r \in Minute, k \in Index :
               \/ IS_SET(fetch_map', r, k) <=> IS_SET(fetch_map, r, k)
               \/ r = w % ONE_DAY_MINUTE /\ k = x
               \/ <<r, k>> \in spoiled'
      BY <2>5, SetBitStores
    <3>2. CASE MinuteIndex = w % ONE_DAY_MINUTE /\ j = x
      <4>1. fetch_time_str_ = w
        BY <2>3, <3>1, <3>2, RowOfMinute DEF MinuteIndex
      <4>2. QED
        BY <1>2, <2>2, <3>1, <3>2, <4>1 DEF Key
    <3>3. CASE ~(MinuteIndex = w % ONE_DAY_MINUTE /\ j = x)
      <4> HIDE DEF w, x
      <4>1. \/ IS_SET(fetch_map, MinuteIndex, j)
            \/ <<MinuteIndex, j>> \in spoiled'
        BY <1>1, <2>2, <2>3, <3>1, <3>3
      <4>2. QED
        BY <1>1, <1>2, <2>1, <2>2, <4>1 DEF BitMeansPushed
    <3>4. QED
      BY <3>2, <3>3
  <2>6. QED
    BY <1>4, <2>4, <2>5, MapSteps
<1>5. CASE PushTaskBatch_Clear /\ ~Producer_Step
  <2>1. UNCHANGED ppc
    BY <1>5
    DEF SystemNext, TeleConsumerThread, Consumer_Delay, Consumer_Pop,
        Consumer_Wait, Consumer_Wakeup, Consumer_FetchFails,
        Consumer_FetchDropped, Consumer_FetchRefused, Consumer_Store,
        Consumer_Load, Consumer_SetBit, GetTask_Pop, GetTask_Wait,
        GetTask_Wakeup, SetIdentityError, ShmWrite, TeleConsumerRefetchThread,
        GetFailTask, Refetch_Fails, Refetch_Dropped, Refetch_Store,
        RefetchUnchanged, Clock_Step, Tick, systemVars, producerVars
  <2>2. QED
    BY <1>5, <2>1 DEF PushTaskBatch_Clear, PushNext
<1>6. QED
  BY <1>3, <1>4, <1>5

(* In the part of the window the master has been through, a bit that is    *)
(* one is of an index pushed in this window, or a lost update changed it:  *)
(* what an earlier day or another process left in the map does not pass    *)
(* for a fetch of today.                                                   *)
THEOREM BitMeansPushedCorrect ==
  ASSUME OneDay
  PROVE  SystemSafeSpec => []BitMeansPushed
<1>1. SystemInit => BitMeansPushed
  BY DEF SystemInit, Init, BitMeansPushed, Window
<1>2. MarkBase /\ BitMeansPushed /\ [SystemNext]_systemVars => BitMeansPushed'
  BY BitStep
<1>3. QED
  BY <1>1, <1>2, MarkBaseCorrect, PTL DEF SystemSafeSpec

-----------------------------------------------------------------------------
(* A push is marked. *)

\* A thread that marks goes on until it stores the bit.
LEMMA MarkingGoesOn ==
  ASSUME SystemInv, [SystemNext]_systemVars, NEW c \in Consumer, Marking(c),
         ~Consumer_SetBit(c)
  PROVE  Marking(c)' /\ task'[c] = task[c]
<1>1. /\ cpc \in [Consumer -> {"get", "fetch", "load", "store"}]
      /\ task \in [Consumer -> FirstTryTask \cup {NoTask}]
      /\ cpc[c] \in {"load", "store"}
  BY DEF SystemInv, ThreadInv, ThreadTypes, Marking
<1>2. ASSUME NEW d \in Consumer, TeleConsumerThread(d) \/ Consumer_Wakeup(d)
      PROVE  cpc'[c] \in {"load", "store"} /\ task'[c] = task[c]
  <2>1. CASE d = c
    BY <1>1, <1>2, <2>1
    DEF TeleConsumerThread, Consumer_Delay, Consumer_Pop, Consumer_Wait,
        Consumer_Wakeup, Consumer_FetchFails, Consumer_FetchDropped,
        Consumer_FetchRefused, Consumer_Store, Consumer_Load, threadVars
  <2>2. CASE d # c
    BY <1>1, <1>2, <2>2
    DEF TeleConsumerThread, Consumer_Delay, Consumer_Pop, Consumer_Wait,
        Consumer_Wakeup, Consumer_FetchFails, Consumer_FetchDropped,
        Consumer_FetchRefused, Consumer_Store, Consumer_Load,
        Consumer_SetBit, TakeTask, DeleteTask, threadVars
  <2>3. QED
    BY <2>1, <2>2
<1>3. CASE Producer_Step \/ TeleConsumerRefetchThread \/ Clock_Step \/ UNCHANGED systemVars
  <2>1. UNCHANGED <<cpc, task>>
    BY <1>3
    DEF Producer_Step, TeleConsumerRefetchThread, GetFailTask, Refetch_Fails,
        Refetch_Dropped, Refetch_Store, RefetchUnchanged, Clock_Step,
        systemVars, threadVars
  <2>2. QED
    BY <1>1, <2>1 DEF Marking
<1>4. QED
  BY <1>2, <1>3 DEF SystemNext, Marking

MarkedOrSpoiled(x) ==
  \/ IS_SET(fetch_map, x[1] % ONE_DAY_MINUTE, x[2])
  \/ <<x[1] % ONE_DAY_MINUTE, x[2]>> \in spoiled

\* A mark stays, lost updates apart: the master clears only what was not yet
\* pushed in its window.
LEMMA MarkStays ==
  ASSUME OneDay, MarkBase, [SystemNext]_systemVars,
         NEW x \in pushed, x[2] < MAX_FETCH_INDEX, MarkedOrSpoiled(x)
  PROVE  MarkedOrSpoiled(x)'
<1> DEFINE r == x[1] % ONE_DAY_MINUTE
           k == x[2]
<1>1. x \in SystemKey /\ x[1] \in ClockMinute /\ k \in Index
  BY MatAssumption, ConsumerAssumption
  DEF MarkBase, SystemInv, ThreadInv, HistoryTypes, SystemKey, Index
<1>2. r \in Minute
  BY <1>1, RowOfMinute DEF Minute, ClockMinute, OneDay
<1>3. spoiled \subseteq spoiled'
  BY HistoryGrows
<1> HIDE DEF r, k
<1>4. SUFFICES ASSUME IS_SET(fetch_map, r, k), <<r, k>> \notin spoiled'
               PROVE  IS_SET(fetch_map', r, k)
  BY <1>3 DEF MarkedOrSpoiled, r, k
<1>5. ASSUME NEW c \in Consumer, Consumer_SetBit(c)
      PROVE  IS_SET(fetch_map', r, k)
  BY <1>1, <1>2, <1>4, <1>5, SetBitStores
<1>6. CASE Producer_Step /\ PushTaskBatch_Clear
  <2>1. /\ Window /\ fetch_time_str_ \in ClockMinute /\ MinuteIndex \in Minute
        /\ i \in Index /\ NextIndex = i
        /\ \A m \in Minute, j \in Index :
             \/ IS_SET(fetch_map', m, j) <=> IS_SET(fetch_map, m, j)
             \/ m = MinuteIndex /\ j = i
             \/ <<m, j>> \in spoiled'
    BY <1>6, ClearStores
  <2>2. ~(r = MinuteIndex /\ k = i)
    <3> SUFFICES ASSUME r = MinuteIndex, k = i
                 PROVE  FALSE
      OBVIOUS
    <3>1. x[1] = fetch_time_str_
      BY <1>1, <2>1, RowOfMinute DEF MinuteIndex, r
    <3>2. x \in Fitting
      BY HeldViews, Places DEF MarkBase, OwnerInv, Fits, Views
    <3>3. QED
      BY <1>1, <2>1, <3>1, <3>2, MatAssumption DEF Fitting, k, Index
  <2>3. QED
    BY <1>1, <1>2, <1>4, <2>1, <2>2
<1>7. CASE fetch_map' = fetch_map
  BY <1>4, <1>7
<1>8. QED
  BY <1>5, <1>6, <1>7, MapSteps

LEMMA PushedStep ==
  ASSUME OneDay, MarkBase, PushedMeansBit, [SystemNext]_systemVars
  PROVE  PushedMeansBit'
<1>1. SUFFICES ASSUME NEW x \in pushed', ~(x[2] >= MAX_FETCH_INDEX),
                      \A c \in Consumer : ~(Marking(c)' /\ Key(task'[c]) = x)
               PROVE  MarkedOrSpoiled(x)'
  BY DEF PushedMeansBit, MarkedOrSpoiled, Marking, Key
<1>2. CASE x \in pushed
  <2>1. x[2] \in Int
    BY <1>2, ConsumerAssumption
    DEF MarkBase, SystemInv, ThreadInv, HistoryTypes, SystemKey
  <2>2. x[2] < MAX_FETCH_INDEX
    BY <1>1, <2>1, MatAssumption
  <2>3. CASE MarkedOrSpoiled(x)
    BY <1>2, <2>2, <2>3, MarkStays
  <2>4. ASSUME NEW c \in Consumer, Marking(c), Key(task[c]) = x
        PROVE  MarkedOrSpoiled(x)'
    <3>1. Consumer_SetBit(c)
      BY <1>1, <2>4, MarkingGoesOn DEF MarkBase
    <3>2. x[1] = task[c].time_str /\ x[2] = task[c].index
      BY <2>4 DEF Key
    <3>3. IS_SET(fetch_map', x[1] % ONE_DAY_MINUTE, x[2])
      BY <3>1, <3>2, SetBitStores
    <3>4. QED
      BY <3>3 DEF MarkedOrSpoiled
  <2>5. QED
    BY <1>1, <1>2, <2>3, <2>4 DEF PushedMeansBit, MarkedOrSpoiled, Marking
<1>3. CASE x \notin pushed
  <2>1. PICK c \in Consumer : Consumer_Store(c) /\ x = Key(task[c])
    <3>1. CASE Producer_Step \/ TeleConsumerRefetchThread \/ Clock_Step
                 \/ UNCHANGED systemVars
      <4>1. UNCHANGED pushed
        BY <3>1
        DEF Producer_Step, TeleConsumerRefetchThread, GetFailTask,
            Refetch_Fails, Refetch_Dropped, Refetch_Store, Clock_Step,
            systemVars, historyVars
      <4>2. QED
        BY <1>1, <1>3, <4>1
    <3>2. ASSUME NEW c \in Consumer, TeleConsumerThread(c) \/ Consumer_Wakeup(c)
          PROVE  Consumer_Store(c) \/ UNCHANGED pushed
      BY <3>2
      DEF TeleConsumerThread, Consumer_Delay, Consumer_Pop, Consumer_Wait,
          Consumer_Wakeup, Consumer_FetchFails, Consumer_FetchDropped,
          Consumer_FetchRefused, Consumer_Load, Consumer_SetBit, historyVars
    <3>3. ASSUME NEW c \in Consumer, Consumer_Store(c)
          PROVE  x = Key(task[c])
      BY <1>1, <1>3, <3>3 DEF Consumer_Store
    <3>4. QED
      BY <1>1, <1>3, <3>1, <3>2, <3>3 DEF SystemNext
  <2>2. /\ cpc \in [Consumer -> {"get", "fetch", "load", "store"}]
        /\ task[c] # NoTask /\ task[c] \in FirstTryTask
    BY <2>1
    DEF Consumer_Store, MarkBase, SystemInv, ThreadInv, ThreadTypes, StagesOK
  <2>3. Marks(task[c])
    <3>1. ~(task[c].index >= MAX_FETCH_INDEX)
      BY <1>1, <2>1 DEF Key
    <3>2. task[c].type = TASK_NORMAL /\ task[c].index \in Index
      BY <2>2, <3>1 DEF MarkBase, HandsOK
    <3>3. QED
      BY <3>2, MatAssumption DEF Marks, Index
  <2>4. cpc'[c] = "load" /\ task' = task
    BY <2>1, <2>2, <2>3 DEF Consumer_Store
  <2>5. QED
    BY <1>1, <2>1, <2>4 DEF Marking
<1>4. QED
  BY <1>2, <1>3

(* What a consumer pushed is marked as soon as the consumer takes another  *)
(* task, and stays marked for the rest of the day, lost updates apart.     *)
THEOREM PushedMeansBitCorrect ==
  ASSUME OneDay
  PROVE  SystemSafeSpec => []PushedMeansBit
<1>1. SystemInit => PushedMeansBit
  BY DEF SystemInit, PushedMeansBit
<1>2. MarkBase /\ PushedMeansBit /\ [SystemNext]_systemVars => PushedMeansBit'
  BY PushedStep
<1>3. QED
  BY <1>1, <1>2, MarkBaseCorrect, PTL DEF SystemSafeSpec

=============================================================================
