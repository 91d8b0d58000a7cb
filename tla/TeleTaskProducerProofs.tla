------------------------ MODULE TeleTaskProducerProofs ------------------------
(***************************************************************************)
(* Proofs about TeleTaskProducer, for every value of its constants.        *)
(***************************************************************************)
EXTENDS TeleTaskProducer, SequenceTheorems, TLAPS

-----------------------------------------------------------------------------
(* Arithmetic of rows, words and bits. *)

\* A remainder is in the range of the modulus: minutes of the day, tm_min,
\* bits of a word, names of minutes.
LEMMA ModRange ==
  ASSUME NEW a \in Int, NEW b \in Nat \ {0}
  PROVE  a % b \in 0 .. b - 1
  OBVIOUS

\* The word of an index is a word of its row: MAX_INDEX is large enough.
LEMMA WordRange ==
  ASSUME NEW j \in Index
  PROVE  WordOf(j) \in 0 .. MAX_INDEX - 1
  BY MatAssumption DEF WordOf, MAX_INDEX, Index

LEMMA BitRange ==
  ASSUME NEW j \in Index
  PROVE  BitOf(j) \in Bit
  BY MatAssumption DEF BitOf, Bit, Index

\* The rows of the map that MinuteIndex and FetchTime address.
LEMMA MinuteIndexRange ==
  ASSUME fetch_time_str_ \in Int
  PROVE  MinuteIndex \in Minute
  BY ModRange, MatAssumption DEF MinuteIndex, Minute

LEMMA FetchTimeRange ==
  ASSUME NEW t \in Int
  PROVE  FetchTime(t) \in ClockMinute
  BY ModRange, TaskAssumption, ProducerAssumption DEF FetchTime, ClockMinute

-----------------------------------------------------------------------------
(* The shared map. *)

LEMMA LoadWordType ==
  ASSUME NEW s \in FetchMap, NEW m \in Minute, NEW j \in Index
  PROVE  LoadWord(s, m, j) \in Word
  BY WordRange DEF LoadWord, FetchMap

LEMMA StoreWordType ==
  ASSUME NEW s \in FetchMap, NEW m, NEW j, NEW w \in Word
  PROVE  StoreWord(s, m, j, w) \in FetchMap
  BY DEF StoreWord, FetchMap

-----------------------------------------------------------------------------
(* Types.  TypeOK is inductive only together with IndexReady: that a task  *)
(* pushed has an index of the map rests on where the loop's i comes from.  *)
(* QuietStart is what main's call of Init finds.                           *)

QuietStart == ppc = "init" => producer_queue_ = <<>> /\ ~Window

TypeInv == TypeOK /\ IndexReady /\ QuietStart

\* Whatever the service answers, get_toKen_by_url gives a token or none.
LEMMA TokenAnswerRange == TokenAnswer \subseteq Token \cup {NoToken}
  BY DEF TokenAnswer, get_toKen_by_url

LEMMA UpdateTokenType ==
  ASSUME NEW t \in TokenState, NEW answer \in TokenAnswer
  PROVE  UpdateToken(t, answer) \in TokenState
  BY TokenAnswerRange DEF UpdateToken, TokenState

LEMMA CheckTokenTimeoutType ==
  ASSUME NEW t \in TokenState
  PROVE  CheckTokenTimeout(t) \in TokenState
  BY DEF CheckTokenTimeout, TokenState

\* The task PushTaskBatch builds in its loop.
LEMMA NewTaskType ==
  ASSUME TypeOK, IndexReady, InLoop, i < MAX_FETCH_INDEX
  PROVE  NewTask \in QueuedTask
<1>1. i \in Index
  BY MatAssumption DEF TypeOK, IndexReady, Window, NoTime, ClockMinute, Index
<1>2. fetch_time_str_ \in ClockMinute
  BY DEF TypeOK, IndexReady, Window
<1>3. MinuteIndex \in Minute
  BY <1>2, MinuteIndexRange DEF ClockMinute
<1>4. token.token_str_ \in Token \cup {NoToken}
  BY DEF TypeOK, TokenState
<1> QED
  BY <1>1, <1>2, <1>3, <1>4
  DEF NewTask, BuildTask, QueuedTask, TASK_NORMAL

\* PushTask keeps the bound of the queue.
LEMMA PushTaskType ==
  ASSUME NEW q \in Seq(QueuedTask), Len(q) <= MAX_TASK_QUEUE_SIZE,
         NEW t \in QueuedTask
  PROVE  /\ PushTask(q, t)[1] \in Seq(QueuedTask)
         /\ Len(PushTask(q, t)[1]) <= MAX_TASK_QUEUE_SIZE
  BY ProducerAssumption DEF PushTask

THEOREM TypeInit == Init => TypeInv
<1> SUFFICES ASSUME Init PROVE TypeInv
  OBVIOUS
<1>1. TypeOK
  <2>1. token \in TokenState
    BY ProducerAssumption DEF Init, TokenState
  <2>2. /\ 0 \in ClockMinute
        /\ 0 \in 0 .. MinutesPerHour - 1
        /\ 0 <= MAX_TASK_QUEUE_SIZE
    BY TaskAssumption, ProducerAssumption DEF ClockMinute
  <2>3. {} \in Word
    BY DEF Word
  <2>4. /\ <<>> \in Seq(QueuedTask) /\ Len(<<>>) = 0
    OBVIOUS
  <2>5. task_lock_ \in BOOLEAN /\ (task_lock_ <=> InLoop)
    BY Zenon DEF Init, InLoop
  <2>6. index_ \in Int
    BY ProducerAssumption DEF Init
  <2> QED
    BY <2>1, <2>2, <2>3, <2>4, <2>5, <2>6 DEF Init, TypeOK
<1>2. IndexReady
  BY DEF Init, IndexReady, Window, InLoop, NoTime
<1>3. QuietStart
  BY DEF Init, QuietStart, Window
<1> QED
  BY <1>1, <1>2, <1>3 DEF TypeInv


THEOREM TypeStep == TypeInv /\ [Next]_producerVars => TypeInv'
<1> SUFFICES ASSUME TypeInv, [Next]_producerVars
             PROVE  TypeInv'
  OBVIOUS
<1> USE DEF TypeInv
<1>1. CASE ProducerInit
  <2>1. PICK answer \in TokenAnswer : token' = UpdateToken(token, answer)
    BY <1>1 DEF ProducerInit
  <2>2. token' \in TokenState
    BY <2>1, UpdateTokenType DEF TypeOK
  <2>3. TypeOK'
    BY <1>1, <2>2 DEF ProducerInit, TypeOK, InLoop
  <2> QED
    BY <1>1, <2>3 DEF ProducerInit, IndexReady, QuietStart, Window, InLoop
<1>2. CASE PushTaskBatch_Enter
  <2>1. TypeOK'
    <3>1. task_lock_' \in BOOLEAN /\ (task_lock_ <=> InLoop)'
      BY <1>2, Zenon DEF PushTaskBatch_Enter, TypeOK, InLoop
    <3> QED
      BY <1>2, <3>1 DEF PushTaskBatch_Enter, TypeOK
  <2>2. IndexReady'
    BY <1>2 DEF PushTaskBatch_Enter, TypeOK, IndexReady, Window, InLoop
  <2> QED
    BY <1>2, <2>1, <2>2 DEF PushTaskBatch_Enter, QuietStart
<1>3. CASE PushTaskBatch_Load
  <2>1. i \in Index /\ MinuteIndex \in Minute
    BY <1>3, MatAssumption, MinuteIndexRange
    DEF PushTaskBatch_Load, InBatch, TypeOK, IndexReady, Window, InLoop,
        NoTime, ClockMinute, Index
  <2>2. word' \in Word
    BY <1>3, <2>1, LoadWordType DEF PushTaskBatch_Load, TypeOK
  <2>3. TypeOK'
    BY <1>3, <2>2 DEF PushTaskBatch_Load, TypeOK, InLoop
  <2> QED
    BY <1>3, <2>3
    DEF PushTaskBatch_Load, InBatch, IndexReady, QuietStart, Window, InLoop
<1>4. ASSUME PushNext, InLoop, i < MAX_FETCH_INDEX,
             UNCHANGED <<now, task_lock_, waiting, index_, fetch_time_str_,
                         old_tm_min, current_min, token>>,
             word' \in Word, fetch_map' \in FetchMap
      PROVE  TypeInv'
  <2>1. NewTask \in QueuedTask
    BY <1>4, NewTaskType
  <2>2. /\ producer_queue_' \in Seq(QueuedTask)
        /\ Len(producer_queue_') <= MAX_TASK_QUEUE_SIZE
    BY <1>4, <2>1, PushTaskType DEF PushNext, TypeOK
  <2>3. \/ ppc' = "loop" /\ i' = i + 1 /\ n' = n + 1
        \/ ppc' = "full" /\ i' = i /\ n' = n
    BY <1>4 DEF PushNext
  <2>4. TypeOK'
    BY <1>4, <2>2, <2>3 DEF TypeOK, InLoop
  <2>5. IndexReady'
    BY <1>4, <2>3, MatAssumption DEF TypeOK, IndexReady, Window, InLoop
  <2> QED
    BY <2>3, <2>4, <2>5 DEF QuietStart
<1>5. CASE PushTaskBatch_Clear
  <2>1. WithoutBit(word, i) \in Word /\ {} \in Word
    BY DEF TypeOK, WithoutBit, Word
  <2>2. fetch_map' \in FetchMap
    BY <1>5, <2>1, StoreWordType DEF PushTaskBatch_Clear, TypeOK
  <2> QED
    BY <1>4, <1>5, <2>1, <2>2
    DEF PushTaskBatch_Clear, IndexReady, InLoop
<1>6. CASE PushTaskBatch_Slave
  <2>1. CASE PushNext
    BY <1>4, <1>6, <2>1 DEF PushTaskBatch_Slave, InBatch, InLoop, TypeOK
  <2>2. CASE i' = i + 1 /\ n' = n + 1 /\ UNCHANGED <<ppc, producer_queue_>>
    <3>1. TypeOK'
      BY <1>6, <2>2 DEF PushTaskBatch_Slave, TypeOK, InLoop
    <3>2. IndexReady'
      BY <1>6, <2>2, MatAssumption
      DEF PushTaskBatch_Slave, InBatch, TypeOK, IndexReady, Window, InLoop
    <3> QED
      BY <1>6, <2>2, <3>1, <3>2 DEF PushTaskBatch_Slave, QuietStart
  <2> QED
    BY <1>6, <2>1, <2>2 DEF PushTaskBatch_Slave
<1>7. CASE PushTaskBatch_Return
  <2>1. TypeOK'
    <3>1. ppc' \in {"broadcast", "check"}
      BY <1>7 DEF PushTaskBatch_Return
    <3>2. task_lock_' \in BOOLEAN /\ (task_lock_ <=> InLoop)'
      BY <1>7, <3>1, Zenon DEF PushTaskBatch_Return, InLoop
    <3>3. index_' \in Int /\ i' \in Int /\ n' \in Nat
      BY <1>7 DEF PushTaskBatch_Return, TypeOK
    <3> QED
      BY <1>7, <3>1, <3>2, <3>3 DEF PushTaskBatch_Return, TypeOK
  <2>2. IndexReady'
    BY <1>7, MatAssumption
    DEF PushTaskBatch_Return, TypeOK, IndexReady, Window, InLoop
  <2> QED
    BY <1>7, <2>1, <2>2 DEF PushTaskBatch_Return, QuietStart
<1>8. CASE PushTaskBatch_Broadcast
  BY <1>8
  DEF PushTaskBatch_Broadcast, TypeOK, IndexReady, QuietStart, Window, InLoop
<1>9. CASE CheckandUpdateTask_Same
  BY <1>9
  DEF CheckandUpdateTask_Same, TypeOK, IndexReady, QuietStart, Window, InLoop
<1>10. CASE CheckandUpdateTask_Moved
  BY <1>10
  DEF CheckandUpdateTask_Moved, TypeOK, IndexReady, QuietStart, Window, InLoop
<1>11. ASSUME NEW answer \in TokenAnswer, UpdateTask(answer)
       PROVE  TypeInv'
  <2>1. fetch_time_str_' \in ClockMinute
    BY <1>11, FetchTimeRange
    DEF UpdateTask, OpenWindow, TypeOK, ClockMinute
  <2>2. token' \in TokenState
    BY <1>11, UpdateTokenType, CheckTokenTimeoutType
    DEF UpdateTask, NewToken, TypeOK
  <2>3. old_tm_min' \in 0 .. MinutesPerHour - 1
    BY <1>11, ModRange, ProducerAssumption
    DEF UpdateTask, RememberMinute, TypeOK, ClockMinute
  <2>4. /\ 0 \in ClockMinute /\ <<>> \in Seq(QueuedTask)
        /\ Len(<<>>) <= MAX_TASK_QUEUE_SIZE
    BY TaskAssumption, ProducerAssumption DEF ClockMinute
  <2>5. TypeOK'
    BY <1>11, <2>1, <2>2, <2>3, <2>4
    DEF UpdateTask, OpenWindow, TypeOK, InLoop
  <2>6. IndexReady'
    BY <1>11, <2>1, MatAssumption
    DEF UpdateTask, OpenWindow, IndexReady, InLoop
  <2> QED
    BY <1>11, <2>5, <2>6 DEF UpdateTask, QuietStart
<1>12. ASSUME NEW c \in Consumer, GetTask_Pop(c)
       PROVE  TypeInv'
  <2>1. /\ producer_queue_' \in Seq(QueuedTask)
        /\ Len(producer_queue_') <= MAX_TASK_QUEUE_SIZE
    BY <1>12, HeadTailProperties, ProducerAssumption DEF GetTask_Pop, TypeOK
  <2> QED
    BY <1>12, <2>1
    DEF GetTask_Pop, CanLock, TypeOK, IndexReady, QuietStart, Window, InLoop
<1>13. ASSUME NEW c \in Consumer, GetTask_Wait(c) \/ GetTask_Wakeup(c)
       PROVE  TypeInv'
  BY <1>13
  DEF GetTask_Wait, GetTask_Wakeup, TypeOK, IndexReady, QuietStart, Window, InLoop
<1>14. CASE SetIdentityError
  <2>1. token' \in TokenState
    BY <1>14 DEF SetIdentityError, TypeOK, TokenState
  <2> QED
    BY <1>14, <2>1
    DEF SetIdentityError, TypeOK, IndexReady, QuietStart, Window, InLoop
<1>15. ASSUME NEW m \in Minute, NEW j \in Index, NEW w \in Word,
              ShmWrite(m, j, w)
       PROVE  TypeInv'
  <2>1. fetch_map' \in FetchMap
    BY <1>15, StoreWordType DEF ShmWrite, TypeOK
  <2> QED
    BY <1>15, <2>1
    DEF ShmWrite, TypeOK, IndexReady, QuietStart, Window, InLoop
<1>16. CASE Tick
  <2>1. now' \in ClockMinute
    BY <1>16, ModRange, TaskAssumption DEF Tick, TypeOK, ClockMinute
  <2> QED
    BY <1>16, <2>1
    DEF Tick, TypeOK, IndexReady, QuietStart, Window, InLoop
<1>17. CASE UNCHANGED producerVars
  BY <1>17
  DEF producerVars, TypeOK, IndexReady, QuietStart, Window, InLoop
<1> QED
  BY <1>1, <1>2, <1>3, <1>5, <1>6, <1>7, <1>8, <1>9, <1>10, <1>11, <1>12,
     <1>13, <1>14, <1>15, <1>16, <1>17
  DEF Next, TeleProducerThread, PushTaskBatch, CheckandUpdateTask

\* The types of the producer's state, the bound of its queue, and who holds
\* task_lock_, in every reachable state.
THEOREM TypeCorrect == SafeSpec => []TypeOK
<1>1. SafeSpec => []TypeInv
  BY TypeInit, TypeStep, PTL DEF SafeSpec
<1>2. TypeInv => TypeOK
  BY DEF TypeInv
<1> QED
  BY <1>1, <1>2, PTL

\* PushTaskBatch never addresses the shared map with the value index_ was
\* left with by the constructor.
THEOREM IndexIsReady == SafeSpec => []IndexReady
<1>1. SafeSpec => []TypeInv
  BY TypeInit, TypeStep, PTL DEF SafeSpec
<1>2. TypeInv => IndexReady
  BY DEF TypeInv
<1> QED
  BY <1>1, <1>2, PTL


-----------------------------------------------------------------------------
(* What a step does to the queue.  Every step of the specification is of   *)
(* one of five kinds; the proofs about the order of the tasks look at the  *)
(* kinds only.                                                             *)

SameWindow == fetch_time_str_' = fetch_time_str_

SameToken == token'.token_str_ = token.token_str_

Pushes ==
  /\ InLoop /\ i < MAX_FETCH_INDEX /\ NextIndex' = NextIndex + 1
  /\ producer_queue_' = Append(producer_queue_, NewTask)
  /\ SameWindow /\ SameToken

PassesOver ==
  /\ IsSlave
  /\ InLoop /\ i < MAX_FETCH_INDEX /\ NextIndex' = NextIndex + 1
  /\ UNCHANGED producer_queue_
  /\ SameWindow /\ SameToken

Pops ==
  /\ NextIndex' = NextIndex
  /\ producer_queue_ # <<>>
  /\ producer_queue_' = Tail(producer_queue_)
  /\ SameWindow /\ SameToken

Opens ==
  /\ ppc = "update"
  /\ NextIndex' = 0
  /\ producer_queue_' = <<>>
  /\ fetch_time_str_' = FetchTime(current_min)

Quiet ==
  /\ NextIndex' = NextIndex
  /\ UNCHANGED producer_queue_
  /\ SameWindow
  /\ producer_queue_ = <<>> \/ SameToken

\* A batch step pushes the task or finds the queue full.
LEMMA PushNextKinds ==
  ASSUME PushNext, InLoop, i < MAX_FETCH_INDEX, SameWindow, SameToken,
         index_' = index_
  PROVE  Pushes \/ Quiet
<1>1. \/ /\ producer_queue_' = Append(producer_queue_, NewTask)
         /\ ppc' = "loop" /\ i' = i + 1
      \/ /\ producer_queue_' = producer_queue_
         /\ ppc' = "full" /\ i' = i
  BY DEF PushNext, PushTask
<1> QED
  BY <1>1 DEF Pushes, Quiet, NextIndex, InLoop

LEMMA StepKinds ==
  ASSUME TypeInv, [Next]_producerVars
  PROVE  Pushes \/ PassesOver \/ Pops \/ Opens \/ Quiet
<1>1. CASE ProducerInit
  BY <1>1 DEF ProducerInit, TypeInv, QuietStart, Quiet, SameWindow, NextIndex, InLoop
<1>2. CASE PushTaskBatch_Enter
  BY <1>2 DEF PushTaskBatch_Enter, Quiet, SameWindow, SameToken, NextIndex, InLoop
<1>3. CASE PushTaskBatch_Load
  BY <1>3 DEF PushTaskBatch_Load, Quiet, SameWindow, SameToken, NextIndex, InLoop
<1>4. CASE PushTaskBatch_Clear
  BY <1>4, PushNextKinds
  DEF PushTaskBatch_Clear, SameWindow, SameToken, TypeInv, IndexReady, InLoop
<1>5. CASE PushTaskBatch_Slave
  <2>1. CASE PushNext
    BY <1>5, <2>1, PushNextKinds
    DEF PushTaskBatch_Slave, InBatch, SameWindow, SameToken, InLoop
  <2>2. CASE i' = i + 1 /\ UNCHANGED <<ppc, producer_queue_>>
    BY <1>5, <2>2
    DEF PushTaskBatch_Slave, InBatch, PassesOver, SameWindow, SameToken,
        NextIndex, InLoop
  <2> QED
    BY <1>5, <2>1, <2>2 DEF PushTaskBatch_Slave
<1>6. CASE PushTaskBatch_Return
  <2>1. InLoop /\ ~InLoop' /\ i = index_ + n
    BY <1>6 DEF PushTaskBatch_Return, TypeInv, IndexReady, InLoop
  <2> QED
    BY <1>6, <2>1
    DEF PushTaskBatch_Return, Quiet, SameWindow, SameToken, NextIndex
<1>7. CASE PushTaskBatch_Broadcast \/ CheckandUpdateTask_Same
             \/ CheckandUpdateTask_Moved
  BY <1>7
  DEF PushTaskBatch_Broadcast, CheckandUpdateTask_Same,
      CheckandUpdateTask_Moved, Quiet, SameWindow, SameToken, NextIndex, InLoop
<1>8. ASSUME NEW answer \in TokenAnswer, UpdateTask(answer)
      PROVE  Opens
  BY <1>8 DEF UpdateTask, OpenWindow, Opens, NextIndex, InLoop
<1>9. ASSUME NEW c \in Consumer, GetTask_Pop(c)
      PROVE  Pops
  BY <1>9 DEF GetTask_Pop, Pops, SameWindow, SameToken, NextIndex, InLoop
<1>10. ASSUME NEW c \in Consumer, GetTask_Wait(c) \/ GetTask_Wakeup(c)
       PROVE  Quiet
  BY <1>10
  DEF GetTask_Wait, GetTask_Wakeup, Quiet, SameWindow, SameToken, NextIndex,
      InLoop
<1>11. CASE SetIdentityError
  <2>1. SameToken
    BY <1>11 DEF SetIdentityError, SameToken, TypeInv, TypeOK, TokenState
  <2> QED
    BY <1>11, <2>1 DEF SetIdentityError, Quiet, SameWindow, NextIndex, InLoop
<1>12. ASSUME NEW m \in Minute, NEW j \in Index, NEW w \in Word,
              ShmWrite(m, j, w)
       PROVE  Quiet
  BY <1>12 DEF ShmWrite, Quiet, SameWindow, SameToken, NextIndex, InLoop
<1>13. CASE Tick \/ UNCHANGED producerVars
  BY <1>13
  DEF Tick, producerVars, Quiet, SameWindow, SameToken, NextIndex, InLoop
<1> QED
  BY <1>1, <1>2, <1>3, <1>4, <1>5, <1>6, <1>7, <1>8, <1>9, <1>10, <1>11,
     <1>12, <1>13
  DEF Next, TeleProducerThread, PushTaskBatch, CheckandUpdateTask


-----------------------------------------------------------------------------
(* The order of the queue. *)

LEMMA NewTaskFields ==
  /\ NewTask.index = i
  /\ NewTask.time_str = fetch_time_str_
  /\ NewTask.minute_index = MinuteIndex
  /\ NewTask.token = token.token_str_
  BY DEF NewTask, BuildTask

LEMMA QueuedTaskFields ==
  ASSUME TypeInv, NEW k \in 1 .. Len(producer_queue_)
  PROVE  /\ producer_queue_[k].index \in Index
         /\ producer_queue_[k].time_str \in ClockMinute
<1>1. producer_queue_[k] \in QueuedTask
  BY DEF TypeInv, TypeOK
<1> QED
  BY <1>1 DEF QueuedTask

LEMMA QueueOfWindowStep ==
  ASSUME TypeInv, QueueOfWindow, [Next]_producerVars
  PROVE  QueueOfWindow'
<1>1. /\ producer_queue_ \in Seq(QueuedTask)
      /\ NextIndex \in Int
  BY DEF TypeInv, TypeOK, NextIndex
<1>2. CASE Pushes
  <2> DEFINE q == producer_queue_
  <2>1. /\ Len(q') = Len(q) + 1
        /\ \A k \in 1 .. Len(q) : q'[k] = q[k]
        /\ q'[Len(q) + 1] = NewTask
    BY <1>1, <1>2 DEF Pushes
  <2>2. NextIndex = i /\ NextIndex' = i + 1 /\ MinuteIndex' = MinuteIndex
    BY <1>2 DEF Pushes, NextIndex, MinuteIndex, SameWindow
  <2>3. \A k \in 1 .. Len(q) : q[k].index \in Int
    BY QueuedTaskFields DEF Index
  <2> HIDE DEF q
  <2>4. ASSUME NEW k \in 1 .. Len(q')
        PROVE  /\ q'[k].time_str = fetch_time_str_'
               /\ q'[k].minute_index = MinuteIndex'
               /\ q'[k].token = token'.token_str_
               /\ q'[k].index < NextIndex'
               /\ \A j \in 1 .. k - 1 : q'[j].index < q'[k].index
    <3>1. CASE k \in 1 .. Len(q)
      BY <1>1, <1>2, <2>1, <2>2, <2>3, <3>1
      DEF q, QueueOfWindow, Pushes, SameWindow, SameToken
    <3>2. CASE k = Len(q) + 1
      BY <1>1, <1>2, <2>1, <2>2, <2>3, <3>2, NewTaskFields
      DEF q, QueueOfWindow, Pushes, SameWindow, SameToken
    <3> QED
      BY <1>1, <2>1, <3>1, <3>2 DEF q
  <2> QED
    BY <2>4 DEF QueueOfWindow, q
<1>3. CASE PassesOver
  <2>1. /\ NextIndex' = NextIndex + 1 /\ producer_queue_' = producer_queue_
        /\ fetch_time_str_' = fetch_time_str_ /\ MinuteIndex' = MinuteIndex
        /\ token'.token_str_ = token.token_str_
    BY <1>3 DEF PassesOver, SameWindow, SameToken, MinuteIndex
  <2>2. \A k \in 1 .. Len(producer_queue_) : producer_queue_[k].index \in Int
    BY QueuedTaskFields DEF Index
  <2> QED
    BY <1>1, <2>1, <2>2 DEF QueueOfWindow
<1>4. CASE Pops
  <2>1. /\ NextIndex' = NextIndex
        /\ fetch_time_str_' = fetch_time_str_ /\ MinuteIndex' = MinuteIndex
        /\ token'.token_str_ = token.token_str_
    BY <1>4 DEF Pops, SameWindow, SameToken, MinuteIndex
  <2>2. /\ Len(producer_queue_') = Len(producer_queue_) - 1
        /\ Len(producer_queue_') \in Nat
        /\ \A k \in 1 .. Len(producer_queue_') :
             producer_queue_'[k] = producer_queue_[k + 1]
    BY <1>1, <1>4, HeadTailProperties DEF Pops
  <2>3. ASSUME NEW k \in 1 .. Len(producer_queue_')
        PROVE  /\ producer_queue_'[k].time_str = fetch_time_str_'
               /\ producer_queue_'[k].minute_index = MinuteIndex'
               /\ producer_queue_'[k].token = token'.token_str_
               /\ producer_queue_'[k].index < NextIndex'
               /\ \A j \in 1 .. k - 1 :
                    producer_queue_'[j].index < producer_queue_'[k].index
    <3>1. /\ k + 1 \in 1 .. Len(producer_queue_)
          /\ producer_queue_'[k] = producer_queue_[k + 1]
      BY <1>1, <2>2
    <3>2. ASSUME NEW j \in 1 .. k - 1
          PROVE  producer_queue_'[j].index < producer_queue_'[k].index
      <4>1. j + 1 \in 1 .. (k + 1) - 1 /\ j \in 1 .. Len(producer_queue_')
        BY <2>2, <3>1
      <4>2. producer_queue_'[j] = producer_queue_[j + 1]
        BY <2>2, <4>1
      <4> QED
        BY <3>1, <4>1, <4>2 DEF QueueOfWindow
    <3> QED
      BY <2>1, <3>1, <3>2 DEF QueueOfWindow
  <2> QED
    BY <2>3 DEF QueueOfWindow
<1>5. CASE Opens
  BY <1>5 DEF Opens, QueueOfWindow
<1>6. CASE Quiet
  BY <1>6 DEF Quiet, SameWindow, SameToken, MinuteIndex, QueueOfWindow
<1> QED
  BY <1>2, <1>3, <1>4, <1>5, <1>6, StepKinds

\* What is queued is of the current window and token, in the order of the
\* indices, each once.
THEOREM QueueIsOfWindow == SafeSpec => []QueueOfWindow
<1>1. Init => QueueOfWindow
  BY DEF Init, QueueOfWindow
<1>2. TypeInv /\ QueueOfWindow /\ [Next]_producerVars => QueueOfWindow'
  BY QueueOfWindowStep
<1> QED
  BY <1>1, <1>2, TypeInit, TypeStep, PTL DEF SafeSpec

LEMMA NothingSkippedStep ==
  ASSUME TypeInv, NothingSkipped, [Next]_producerVars
  PROVE  NothingSkipped'
<1> SUFFICES ASSUME ~IsSlave PROVE NothingSkipped'
  BY DEF NothingSkipped
<1> DEFINE q == producer_queue_
<1>1. /\ q \in Seq(QueuedTask) /\ Len(q) \in Nat
      /\ NextIndex \in Int
  BY DEF TypeInv, TypeOK, NextIndex
<1>2. \A k \in 1 .. Len(q) : q[k].index = NextIndex - (Len(q) - k) - 1
  BY DEF NothingSkipped
<1>3. SUFFICES \A k \in 1 .. Len(q') :
                 q'[k].index = NextIndex' - (Len(q') - k) - 1
  BY DEF NothingSkipped
<1>4. CASE Pushes
  <2>1. /\ Len(q') = Len(q) + 1
        /\ \A k \in 1 .. Len(q) : q'[k] = q[k]
        /\ q'[Len(q) + 1] = NewTask
    BY <1>1, <1>4 DEF Pushes
  <2>2. NewTask.index = NextIndex /\ NextIndex' = NextIndex + 1
    BY <1>4, NewTaskFields DEF Pushes, NextIndex
  <2> QED
    BY <1>1, <1>2, <2>1, <2>2
<1>5. CASE Pops
  <2>1. /\ Len(q') = Len(q) - 1
        /\ \A k \in 1 .. Len(q') : q'[k] = q[k + 1]
    BY <1>1, <1>5, HeadTailProperties DEF Pops
  <2>2. NextIndex' = NextIndex
    BY <1>5 DEF Pops
  <2> HIDE DEF q
  <2> QED
    BY <1>1, <1>2, <2>1, <2>2
<1>6. CASE Opens
  BY <1>6 DEF Opens
<1>7. CASE Quiet
  BY <1>2, <1>7 DEF Quiet
<1> QED
  BY <1>4, <1>5, <1>6, <1>7, StepKinds DEF PassesOver

\* The master queues every index of the window: a batch that ends early, at
\* a full queue, loses none.
THEOREM NothingIsSkipped == SafeSpec => []NothingSkipped
<1>1. Init => NothingSkipped
  BY DEF Init, NothingSkipped
<1>2. TypeInv /\ NothingSkipped /\ [Next]_producerVars => NothingSkipped'
  BY NothingSkippedStep
<1> QED
  BY <1>1, <1>2, TypeInit, TypeStep, PTL DEF SafeSpec


-----------------------------------------------------------------------------
(* The condition variable. *)

LEMMA NoLostWakeupStep ==
  ASSUME TypeInv, NoLostWakeup, [Next]_producerVars
  PROVE  NoLostWakeup'
<1>1. producer_queue_ \in Seq(QueuedTask) /\ n \in Nat
  BY DEF TypeInv, TypeOK
<1>2. CASE ProducerInit
  BY <1>2 DEF ProducerInit, TypeInv, QuietStart, NoLostWakeup
<1>3. CASE PushTaskBatch_Enter
  BY <1>3 DEF PushTaskBatch_Enter, NoLostWakeup, InLoop
<1>4. CASE PushTaskBatch_Load
  BY <1>4 DEF PushTaskBatch_Load, NoLostWakeup, InLoop
<1>5. CASE InLoop /\ PushNext /\ waiting' = waiting
  BY <1>1, <1>5 DEF PushNext, PushTask, NoLostWakeup, InLoop
<1>6. CASE PushTaskBatch_Clear
  BY <1>5, <1>6 DEF PushTaskBatch_Clear, InLoop
<1>7. CASE PushTaskBatch_Slave
  <2>1. CASE i' = i + 1 /\ n' = n + 1 /\ UNCHANGED <<ppc, producer_queue_>>
    BY <1>1, <1>7, <2>1 DEF PushTaskBatch_Slave, NoLostWakeup, InLoop
  <2> QED
    BY <1>5, <1>7, <2>1 DEF PushTaskBatch_Slave, InLoop
<1>8. CASE PushTaskBatch_Return
  BY <1>1, <1>8 DEF PushTaskBatch_Return, NoLostWakeup, InLoop
<1>9. CASE PushTaskBatch_Broadcast
  BY <1>9 DEF PushTaskBatch_Broadcast, NoLostWakeup
<1>10. CASE CheckandUpdateTask_Same \/ CheckandUpdateTask_Moved
  BY <1>10
  DEF CheckandUpdateTask_Same, CheckandUpdateTask_Moved, NoLostWakeup, InLoop
<1>11. ASSUME NEW answer \in TokenAnswer, UpdateTask(answer)
       PROVE  NoLostWakeup'
  BY <1>11 DEF UpdateTask, OpenWindow, NoLostWakeup
<1>12. ASSUME NEW c \in Consumer, GetTask_Pop(c)
       PROVE  NoLostWakeup'
  BY <1>12 DEF GetTask_Pop, NoLostWakeup, InLoop
<1>13. ASSUME NEW c \in Consumer, GetTask_Wait(c) \/ GetTask_Wakeup(c)
       PROVE  NoLostWakeup'
  BY <1>13 DEF GetTask_Wait, GetTask_Wakeup, NoLostWakeup, InLoop
<1>14. CASE SetIdentityError \/ Tick \/ UNCHANGED producerVars
  BY <1>14 DEF SetIdentityError, Tick, producerVars, NoLostWakeup, InLoop
<1>15. ASSUME NEW m \in Minute, NEW j \in Index, NEW w \in Word,
              ShmWrite(m, j, w)
       PROVE  NoLostWakeup'
  BY <1>15 DEF ShmWrite, NoLostWakeup, InLoop
<1> QED
  BY <1>2, <1>3, <1>4, <1>6, <1>7, <1>8, <1>9, <1>10, <1>11, <1>12, <1>13,
     <1>14, <1>15
  DEF Next, TeleProducerThread, PushTaskBatch, CheckandUpdateTask

\* Broadcasting after the unlock, and only when the batch counted a task, is
\* enough: no consumer is left asleep beside a task.
THEOREM NoWakeupIsLost == SafeSpec => []NoLostWakeup
<1>1. Init => NoLostWakeup
  BY DEF Init, NoLostWakeup
<1>2. TypeInv /\ NoLostWakeup /\ [Next]_producerVars => NoLostWakeup'
  BY NoLostWakeupStep
<1> QED
  BY <1>1, <1>2, TypeInit, TypeStep, PTL DEF SafeSpec

-----------------------------------------------------------------------------
(* The window and the minute. *)

WindowSteady ==
  /\ UNCHANGED <<fetch_time_str_, old_tm_min>>
  /\ ppc' = "update" => ppc = "update" /\ current_min' = current_min

\* The window only moves in UpdateTask, and only a look at a clock that
\* shows another minute leads there.
LEMMA WindowKinds ==
  ASSUME [Next]_producerVars
  PROVE  \/ WindowSteady
         \/ CheckandUpdateTask_Moved
         \/ \E answer \in TokenAnswer : UpdateTask(answer)
<1>1. CASE PushNext /\ UNCHANGED <<fetch_time_str_, old_tm_min>>
  BY <1>1 DEF PushNext, WindowSteady
<1>2. CASE ProducerInit
  BY <1>2 DEF ProducerInit, WindowSteady
<1>3. CASE PushTaskBatch
  BY <1>1, <1>3
  DEF PushTaskBatch, PushTaskBatch_Enter, PushTaskBatch_Load,
      PushTaskBatch_Clear, PushTaskBatch_Slave, PushTaskBatch_Return,
      PushTaskBatch_Broadcast, WindowSteady
<1>4. CASE CheckandUpdateTask_Same
  BY <1>4 DEF CheckandUpdateTask_Same, WindowSteady
<1>5. ASSUME NEW c \in Consumer,
             GetTask_Pop(c) \/ GetTask_Wait(c) \/ GetTask_Wakeup(c)
      PROVE  WindowSteady
  BY <1>5 DEF GetTask_Pop, GetTask_Wait, GetTask_Wakeup, WindowSteady
<1>6. CASE SetIdentityError \/ Tick \/ UNCHANGED producerVars
  BY <1>6 DEF SetIdentityError, Tick, producerVars, WindowSteady
<1>7. ASSUME NEW m \in Minute, NEW j \in Index, NEW w \in Word,
             ShmWrite(m, j, w)
      PROVE  WindowSteady
  BY <1>7 DEF ShmWrite, WindowSteady
<1> QED
  BY <1>2, <1>3, <1>4, <1>5, <1>6, <1>7
  DEF Next, TeleProducerThread, CheckandUpdateTask

LEMMA WindowOfMinuteStep ==
  ASSUME TypeInv, WindowOfMinute, [Next]_producerVars
  PROVE  WindowOfMinute'
<1>1. CASE WindowSteady
  BY <1>1 DEF WindowSteady, WindowOfMinute, Window
<1>2. CASE CheckandUpdateTask_Moved
  BY <1>2 DEF CheckandUpdateTask_Moved, WindowOfMinute, Window
<1>3. ASSUME NEW answer \in TokenAnswer, UpdateTask(answer)
      PROVE  WindowOfMinute'
  <2>1. /\ fetch_time_str_' = FetchTime(current_min)
        /\ old_tm_min' = current_min % MinutesPerHour
        /\ ppc' = "enter"
    BY <1>3 DEF UpdateTask, OpenWindow, RememberMinute
  <2>2. current_min \in ClockMinute
    BY DEF TypeInv, TypeOK
  <2>3. Window'
    BY <2>1, <2>2, FetchTimeRange DEF ClockMinute, Window, NoTime
  <2> QED
    BY <2>1, <2>2, <2>3 DEF WindowOfMinute
<1> QED
  BY <1>1, <1>2, <1>3, WindowKinds

\* The window is the one of the minute last acted on, and a minute is acted
\* on only if it differs.
THEOREM WindowIsOfMinute == SafeSpec => []WindowOfMinute
<1>1. Init => WindowOfMinute
  BY DEF Init, WindowOfMinute, Window
<1>2. TypeInv /\ WindowOfMinute /\ [Next]_producerVars => WindowOfMinute'
  BY WindowOfMinuteStep
<1> QED
  BY <1>1, <1>2, TypeInit, TypeStep, PTL DEF SafeSpec


-----------------------------------------------------------------------------
(* The refused token. *)

Answered ==
  /\ token'.token_str_ \in Token
  /\ token'.token_update_minutes_ = 0
  /\ producer_queue_' = <<>>

\* An answer of the service clears the flag only with a token in it.
LEMMA UpdateTokenAnswered ==
  ASSUME NEW t, NEW answer \in TokenAnswer,
         t.need_update_token_, ~UpdateToken(t, answer).need_update_token_
  PROVE  /\ UpdateToken(t, answer).token_str_ \in Token
         /\ UpdateToken(t, answer).token_update_minutes_ = 0
  BY TokenAnswerRange, Zenon DEF UpdateToken

LEMMA IdentityErrorStep ==
  ASSUME TypeInv, [Next]_producerVars,
         token.need_update_token_, ~token'.need_update_token_
  PROVE  Answered
<1>1. CASE token' = token
  BY <1>1
<1>2. CASE ProducerInit
  <2>1. PICK answer \in TokenAnswer : token' = UpdateToken(token, answer)
    BY <1>2 DEF ProducerInit
  <2>2. producer_queue_' = <<>>
    BY <1>2 DEF ProducerInit, TypeInv, QuietStart
  <2> QED
    BY <2>1, <2>2, UpdateTokenAnswered DEF Answered
<1>3. ASSUME NEW answer \in TokenAnswer, UpdateTask(answer)
      PROVE  Answered
  <2> DEFINE checked == CheckTokenTimeout(token)
  <2>1. checked.need_update_token_
    BY Zenon DEF CheckTokenTimeout
  <2>2. token' = UpdateToken(checked, answer)
    BY <1>3, <2>1, Zenon DEF UpdateTask, NewToken
  <2>3. producer_queue_' = <<>>
    BY <1>3 DEF UpdateTask, OpenWindow
  <2> HIDE DEF checked
  <2> QED
    BY <2>1, <2>2, <2>3, UpdateTokenAnswered DEF Answered
<1>4. CASE SetIdentityError
  BY <1>4 DEF SetIdentityError, TypeInv, TypeOK, TokenState
<1> QED
  BY <1>1, <1>2, <1>3, <1>4
  DEF Next, TeleProducerThread, PushTaskBatch, CheckandUpdateTask,
      PushTaskBatch_Enter, PushTaskBatch_Load, PushTaskBatch_Clear,
      PushTaskBatch_Slave, PushTaskBatch_Return, PushTaskBatch_Broadcast,
      CheckandUpdateTask_Same, CheckandUpdateTask_Moved, GetTask_Pop,
      GetTask_Wait, GetTask_Wakeup, ShmWrite, Tick, producerVars

\* A report of a refused token stands until a token comes of it.
THEOREM IdentityErrorIsKept == SafeSpec => IdentityErrorKept
<1>1. TypeInv /\ [Next]_producerVars =>
        [token.need_update_token_ /\ ~token'.need_update_token_ =>
           /\ token'.token_str_ \in Token
           /\ token'.token_update_minutes_ = 0
           /\ producer_queue_' = <<>>]_producerVars
  BY IdentityErrorStep DEF Answered
<1> QED
  BY <1>1, TypeInit, TypeStep, PTL DEF SafeSpec, IdentityErrorKept

-----------------------------------------------------------------------------
(* The refinement. *)

\* Two minutes of the clock with the same fetch time are the same minute.
LEMMA FetchTimeInjective ==
  ASSUME NEW s \in ClockMinute, NEW t \in ClockMinute,
         FetchTime(s) = FetchTime(t)
  PROVE  s = t
<1> DEFINE p == ClockPeriod
           u == (s - DelayMin) \div p
           v == (t - DelayMin) \div p
<1>1. /\ p \in Nat \ {0} /\ DelayMin \in Int
      /\ s \in 0 .. p - 1 /\ t \in 0 .. p - 1
  BY TaskAssumption, ProducerAssumption DEF ClockMinute
<1>2. /\ u \in Int /\ s - DelayMin = p * u + ((s - DelayMin) % p)
      /\ v \in Int /\ t - DelayMin = p * v + ((t - DelayMin) % p)
      /\ (s - DelayMin) % p \in Int
  BY <1>1
<1>3. (s - DelayMin) % p = (t - DelayMin) % p
  BY DEF FetchTime
<1> HIDE DEF p, u, v
<1>4. s - t = p * (u - v)
  BY <1>1, <1>2, <1>3
<1>5. u - v < 1
  <2> SUFFICES ASSUME u - v >= 1 PROVE FALSE
    BY <1>2
  <2>1. p * (u - v) >= p
    BY <1>1, <1>2
  <2> QED
    BY <1>1, <1>2, <1>4, <2>1
<1>6. v - u < 1
  <2> SUFFICES ASSUME v - u >= 1 PROVE FALSE
    BY <1>2
  <2>1. p * (v - u) >= p
    BY <1>1, <1>2
  <2> QED
    BY <1>1, <1>2, <1>4, <2>1
<1> QED
  BY <1>1, <1>2, <1>4, <1>5, <1>6

NextOut ==
  IF ~Window THEN 0
  ELSE IF producer_queue_ # <<>> THEN Head(producer_queue_).index
  ELSE NextIndex

ImplInv ==
  TypeInv /\ QueueOfWindow /\ NothingSkipped /\ WindowOfMinute

\* A pop of the master hands out the next index, one of a slave may have
\* passed over some.
LEMMA PopHandsOut ==
  ASSUME ImplInv, Pops
  PROVE  /\ Window /\ Window'
         /\ NextOut \in Index
         /\ NextOut' \in NextOut + 1 .. MAX_FETCH_INDEX
         /\ ~IsSlave => NextOut' = NextOut + 1
<1> DEFINE q == producer_queue_
<1>1. q \in Seq(QueuedTask) /\ q # <<>> /\ q' = Tail(q)
  BY DEF ImplInv, TypeInv, TypeOK, Pops
<1>2. /\ Len(q) \in Nat \ {0} /\ Head(q) = q[1]
      /\ Len(q') = Len(q) - 1
      /\ q' # <<>> => Len(q) > 1 /\ Head(q') = q[2]
      /\ q' = <<>> => Len(q) = 1
  <2>1. /\ Len(q) \in Nat \ {0} /\ Head(q) = q[1]
        /\ q' \in Seq(QueuedTask) /\ Len(q') = Len(q) - 1
        /\ \A k \in 1 .. Len(q') : q'[k] = q[k + 1]
    BY <1>1, HeadTailProperties
  <2>2. q' # <<>> => Len(q') > 0 /\ Head(q') = q'[1]
    BY <2>1, HeadTailProperties
  <2>3. q' = <<>> => Len(q') = 0
    OBVIOUS
  <2> HIDE DEF q
  <2> QED
    BY <2>1, <2>2, <2>3
<1>3. /\ q[1].index \in Index /\ q[1].time_str \in ClockMinute
      /\ q' # <<>> => q[2].index \in Index
  BY <1>2, QueuedTaskFields DEF ImplInv
<1>4. Window /\ Window'
  BY <1>2, <1>3
  DEF ImplInv, QueueOfWindow, Window, ClockMinute, NoTime, Pops, SameWindow
<1>5. NextIndex' = NextIndex /\ NextIndex \in 0 .. MAX_FETCH_INDEX
  BY <1>4, MatAssumption
  DEF Pops, ImplInv, TypeInv, TypeOK, IndexReady, NextIndex
<1>6. NextOut = q[1].index
  BY <1>1, <1>2, <1>4 DEF NextOut
<1>7. NextOut' = IF q' # <<>> THEN q[2].index ELSE NextIndex
  BY <1>2, <1>4, <1>5 DEF NextOut
<1>8. NextOut' \in NextOut + 1 .. MAX_FETCH_INDEX
  <2>1. q[1].index < NextIndex
    BY <1>2 DEF ImplInv, QueueOfWindow
  <2>2. q' # <<>> => q[1].index < q[2].index
    BY <1>2 DEF ImplInv, QueueOfWindow
  <2> HIDE DEF q
  <2> QED
    BY <1>3, <1>5, <1>6, <1>7, <2>1, <2>2, MatAssumption DEF Index
<1>9. ~IsSlave => NextOut' = NextOut + 1
  <2> SUFFICES ASSUME ~IsSlave PROVE NextOut' = NextOut + 1
    OBVIOUS
  <2>1. \A k \in 1 .. Len(q) : q[k].index = NextIndex - (Len(q) - k) - 1
    BY DEF ImplInv, NothingSkipped
  <2>2. q[1].index = NextIndex - (Len(q) - 1) - 1
    BY <1>2, <2>1
  <2>3. q' # <<>> => q[2].index = NextIndex - (Len(q) - 2) - 1
    BY <1>2, <2>1
  <2> HIDE DEF q
  <2> QED
    BY <1>2, <1>5, <1>6, <1>7, <2>2, <2>3
<1> QED
  BY <1>3, <1>4, <1>6, <1>8, <1>9

LEMMA DispenserStep ==
  ASSUME ImplInv, [Next]_producerVars
  PROVE  [Dispenser!DispenserNext]_<<fetch_time_str_, NextOut>>
<1> USE DEF Dispenser!DispenserNext
<1>0. producer_queue_ \in Seq(QueuedTask)
  BY DEF ImplInv, TypeInv, TypeOK
<1>1. CASE Pushes
  <2>1. NextIndex = i /\ NewTask.index = i /\ Window /\ Window'
    BY <1>1, NewTaskFields
    DEF Pushes, NextIndex, ImplInv, TypeInv, IndexReady, Window, SameWindow
  <2>2. /\ producer_queue_' # <<>>
        /\ Head(producer_queue_') = IF producer_queue_ = <<>>
                                    THEN NewTask ELSE Head(producer_queue_)
    BY <1>0, <1>1 DEF Pushes
  <2> QED
    BY <1>1, <2>1, <2>2 DEF NextOut, Pushes, SameWindow
<1>2. CASE PassesOver
  <2>1. /\ NextIndex = i /\ NextIndex' = i + 1 /\ Window /\ Window'
        /\ i \in Int /\ i < MAX_FETCH_INDEX
    BY <1>2
    DEF PassesOver, NextIndex, ImplInv, TypeInv, TypeOK, IndexReady, Window,
        SameWindow
  <2>2. CASE producer_queue_ = <<>>
    <3>1. Dispenser!Skip
      BY <1>2, <2>1, <2>2, MatAssumption
      DEF Dispenser!Skip, PassesOver, NextOut, SameWindow, Window
    <3> QED
      BY <3>1
  <2> QED
    BY <1>2, <2>1, <2>2 DEF NextOut, PassesOver, SameWindow
<1>3. CASE Pops
  <2>1. CASE IsSlave
    <3>1. Dispenser!Skip
      BY <1>3, <2>1, PopHandsOut, MatAssumption
      DEF Dispenser!Skip, Pops, NextOut, SameWindow, Window
    <3> QED
      BY <3>1
  <2>2. CASE ~IsSlave
    <3>1. Dispenser!HandOut
      BY <1>3, <2>2, PopHandsOut, MatAssumption
      DEF Dispenser!HandOut, Pops, NextOut, SameWindow, Window, Index
    <3> QED
      BY <3>1
  <2> QED
    BY <2>1, <2>2
<1>4. CASE Opens
  <2>1. current_min \in ClockMinute /\ fetch_time_str_' \in ClockMinute
    BY <1>4, FetchTimeRange
    DEF Opens, ImplInv, TypeInv, TypeOK, ClockMinute
  <2>2. fetch_time_str_' # fetch_time_str_
    <3>1. CASE ~Window
      BY <2>1, <3>1 DEF Window, ClockMinute, NoTime
    <3>2. CASE Window
      <4>1. PICK t \in ClockMinute : /\ fetch_time_str_ = FetchTime(t)
                                     /\ old_tm_min = t % MinutesPerHour
        BY <3>2 DEF ImplInv, WindowOfMinute
      <4>2. current_min % MinutesPerHour # old_tm_min
        BY <1>4 DEF ImplInv, WindowOfMinute, Opens
      <4> QED
        BY <1>4, <2>1, <4>1, <4>2, FetchTimeInjective DEF Opens
    <3> QED
      BY <3>1, <3>2
  <2>3. NextOut' = 0
    BY <1>4 DEF Opens, NextOut
  <2>4. Dispenser!Open(fetch_time_str_')
    BY <2>1, <2>2, <2>3 DEF Dispenser!Open, NextOut
  <2> QED
    BY <2>1, <2>4
<1>5. CASE Quiet
  BY <1>5 DEF Quiet, NextOut, SameWindow, Window
<1> QED
  BY <1>1, <1>2, <1>3, <1>4, <1>5, StepKinds DEF ImplInv

\* The producer implements TaskDispenser.
THEOREM ProducerImplementsDispenser == SafeSpec => ImplementsDispenser
<1>1. Init => Dispenser!DispenserInit
  BY DEF Init, Dispenser!DispenserInit, Window
<1>2. ImplInv /\ [Next]_producerVars =>
        [Dispenser!DispenserNext]_<<fetch_time_str_, NextOut>>
  BY DispenserStep
<1>3. SafeSpec => []ImplInv
  <2>1. SafeSpec => []TypeInv
    BY TypeInit, TypeStep, PTL DEF SafeSpec
  <2> QED
    BY <2>1, QueueIsOfWindow, NothingIsSkipped, WindowIsOfMinute, PTL
    DEF ImplInv
<1>4. SafeSpec => Dispenser!DispenserInit
                  /\ [][Dispenser!DispenserNext]_<<fetch_time_str_, NextOut>>
  BY <1>1, <1>2, <1>3, PTL DEF SafeSpec
<1> QED
  BY <1>4
  DEF ImplementsDispenser, Dispenser!DispenserSpec, Dispenser!dispenserVars,
      NextOut


=============================================================================
