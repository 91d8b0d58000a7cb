-------------------------- MODULE TeleTaskLedgerProofs --------------------------
(***************************************************************************)
(* Proof that TeleTaskConsumer, a whole process, implements FetchLedger    *)
(* with that one process, for every value of the constants: what           *)
(* MasterSlaveProofs shows of several processes is then about this code,   *)
(* the updates of the shared map that its threads lose included.           *)
(*                                                                         *)
(* The places of OwnerInv are disjoint, so a key is in one stage, and a    *)
(* step of a thread moves one key, or none, from its stage to another.     *)
(***************************************************************************)
EXTENDS TeleTaskMarkProofs, FiniteSetTheorems

-----------------------------------------------------------------------------
(* The stage of a key, in terms of the keys each place holds. *)

QueuedAt(k) ==
  \/ k \in KeysOf(producer_queue_)
  \/ \E c \in Consumer : k \in KeysOf(delay_task_queue[c])

FetchingAt(k) == \E c \in Consumer : cpc[c] = "fetch" /\ Key(task[c]) = k

MarkingAt(k) == \E c \in Consumer : Marking(c) /\ Key(task[c]) = k

FailedAt(k) ==
  \/ k \in KeysOf(fail_task_list_)
  \/ refetch_task # NoTask /\ Key(refetch_task) = k

StageView ==
  \A k :
    /\ QueuedAt(k)   => StageOf(k) = "queued"
    /\ FetchingAt(k) => StageOf(k) = "fetching"
    /\ MarkingAt(k)  => StageOf(k) = "marking"
    /\ FailedAt(k)   => StageOf(k) = "failed"
    /\ ~(QueuedAt(k) \/ FetchingAt(k) \/ MarkingAt(k) \/ FailedAt(k))
         => StageOf(k) = "none"

\* A key is in one of the stages at most.
OneStage ==
  \A k :
    /\ QueuedAt(k)   => ~FetchingAt(k) /\ ~MarkingAt(k) /\ ~FailedAt(k)
    /\ FetchingAt(k) => ~MarkingAt(k) /\ ~FailedAt(k)
    /\ MarkingAt(k)  => ~FailedAt(k)
    /\ MarkingAt(k)  => k \in pushed
    /\ QueuedAt(k) \/ FetchingAt(k) \/ FailedAt(k)
         => k \notin pushed /\ k \notin repushed

LEMMA OneStageHolds == SystemInv /\ OwnerInv => OneStage
<1> SUFFICES ASSUME SystemInv, OwnerInv, NEW k
             PROVE  /\ QueuedAt(k)   => ~FetchingAt(k) /\ ~MarkingAt(k) /\ ~FailedAt(k)
                    /\ FetchingAt(k) => ~MarkingAt(k) /\ ~FailedAt(k)
                    /\ MarkingAt(k)  => ~FailedAt(k)
                    /\ MarkingAt(k)  => k \in pushed
                    /\ QueuedAt(k) \/ FetchingAt(k) \/ FailedAt(k)
                         => k \notin pushed /\ k \notin repushed
  BY DEF OneStage
<1>1. /\ QueuedAt(k) => \/ k \in Held[Queue]
                        \/ \E c \in Consumer : k \in Held[DelayOf(c)]
      /\ FetchingAt(k) => \E c \in Consumer : k \in Held[Hand(c)]
      /\ FailedAt(k) => k \in Held[FailList] \/ k \in Held[Refetch]
  BY HeldViews DEF Views, QueuedAt, FetchingAt, FailedAt
<1>2. MarkingAt(k) => k \in pushed
  BY DEF MarkingAt, Marking, SystemInv, ThreadInv, StagesOK
<1>3. pushed = Held[Pushed] /\ repushed = Held[Repushed]
  BY HeldViews DEF Views
<1>4. \A p, r \in Place : k \in Held[p] /\ k \in Held[r] => p = r
  BY DEF OwnerInv, Apart
<1>5. QED
  BY <1>1, <1>2, <1>3, <1>4, Places, PlacesDiffer

LEMMA StageViewHolds == OneStage => StageView
<1> SUFFICES ASSUME OneStage, NEW k
             PROVE  /\ QueuedAt(k)   => StageOf(k) = "queued"
                    /\ FetchingAt(k) => StageOf(k) = "fetching"
                    /\ MarkingAt(k)  => StageOf(k) = "marking"
                    /\ FailedAt(k)   => StageOf(k) = "failed"
                    /\ ~(QueuedAt(k) \/ FetchingAt(k) \/ MarkingAt(k) \/ FailedAt(k))
                         => StageOf(k) = "none"
  BY DEF StageView
<1> DEFINE A == \E t \in Elements(producer_queue_) : Key(t) = k
           B == \E c \in Consumer : k \in {Key(t) : t \in Elements(delay_task_queue[c])}
           C == \E c \in Consumer : cpc[c] = "fetch" /\ Key(task[c]) = k
           D == \E c \in Consumer : cpc[c] \in {"load", "store"} /\ Key(task[c]) = k
           F == \E t \in Elements(fail_task_list_) \cup ({refetch_task} \ {NoTask}) :
                  Key(t) = k
<1>1. A \/ B <=> QueuedAt(k)
  BY DEF Elements, QueuedAt, KeysOf
<1>2. C <=> FetchingAt(k)
  BY DEF FetchingAt
<1>3. D <=> MarkingAt(k)
  BY DEF MarkingAt, Marking
<1>4. F <=> FailedAt(k)
  BY DEF Elements, FailedAt, KeysOf
<1>5. StageOf(k) = CASE A -> "queued" [] B -> "queued" [] C -> "fetching"
                     [] D -> "marking" [] F -> "failed" [] OTHER -> "none"
  BY DEF StageOf
<1> HIDE DEF A, B, C, D, F
<1>6. /\ A \/ B => ~C /\ ~D /\ ~F
      /\ C => ~D /\ ~F
      /\ D => ~F
  BY <1>1, <1>2, <1>3, <1>4 DEF OneStage
<1>7. /\ A \/ B => StageOf(k) = "queued"
      /\ C => StageOf(k) = "fetching"
      /\ D => StageOf(k) = "marking"
      /\ F => StageOf(k) = "failed"
      /\ ~(A \/ B \/ C \/ D \/ F) => StageOf(k) = "none"
  BY <1>5, <1>6
<1>8. QED
  BY <1>1, <1>2, <1>3, <1>4, <1>7

LEMMA StageViewNext == OneStage' => StageView'
  BY StageViewHolds, PTL

LEMMA OneStageNext == SystemInv' /\ OwnerInv' => OneStage'
  BY OneStageHolds, PTL

-----------------------------------------------------------------------------
(* The state FetchLedger sees. *)

TheMinute ==
  [p \in {"this"} |->
     IF Window THEN (fetch_time_str_ + DelayMin) % ClockPeriod ELSE -1]

TheNext == [p \in {"this"} |-> IF Window THEN NextIndex ELSE -1]

TheStage == [p \in {"this"} |-> [k \in LedgerKey |-> StageOf(k)]]

TheMarked == {b \in Minute \X Index : IS_SET(fetch_map, b[1], b[2])}

Counts(S) == [k \in LedgerKey |-> IF k \in S THEN 1 ELSE 0]

TheStored   == Counts(pushed)
TheRestored == Counts(repushed)

SameStage(k) == StageOf(k)' = StageOf(k)

LEMMA ViewsSame ==
  /\ SameWindow => TheMinute' = TheMinute
  /\ SameWindow /\ NextIndex' = NextIndex => TheNext' = TheNext
  /\ (\A k \in LedgerKey : SameStage(k)) => TheStage' = TheStage
  /\ fetch_map' = fetch_map => TheMarked' = TheMarked
  /\ pushed' = pushed => TheStored' = TheStored
  /\ repushed' = repushed => TheRestored' = TheRestored
<1>1. SameWindow => TheMinute' = TheMinute
  BY DEF SameWindow, TheMinute, Window
<1>2. SameWindow /\ NextIndex' = NextIndex => TheNext' = TheNext
  BY DEF SameWindow, TheNext, Window
<1>3. (\A k \in LedgerKey : SameStage(k)) => TheStage' = TheStage
  BY DEF SameStage, TheStage
<1>4. fetch_map' = fetch_map => TheMarked' = TheMarked
  BY DEF TheMarked
<1>5. QED
  BY <1>1, <1>2, <1>3, <1>4 DEF TheStored, TheRestored,
      Counts

\* What FetchLedger and TeleTaskConsumer call differently.
LEMMA LedgerNames ==
  /\ Ledger!Key = LedgerKey /\ Ledger!Index = Index
  /\ SystemKey = LedgerKey
  BY DEF Ledger!Key, Ledger!Window, Ledger!Index, Ledger!LastIndex, LedgerKey,
         SystemKey, ClockMinute, Index

\* One key goes to another stage.
LEMMA MoveMaps ==
  ASSUME NEW k \in LedgerKey, NEW s, StageOf(k)' = s,
         \A j \in LedgerKey : j # k => SameStage(j)
  PROVE  Ledger!Move("this", k, s)
<1>1. TheStage' = [TheStage EXCEPT !["this"][k] = s]
  BY DEF TheStage, SameStage
<1>2. QED
  BY <1>1 DEF Ledger!Move, TheStage

SameAt(k) ==
  /\ QueuedAt(k)' <=> QueuedAt(k)
  /\ FetchingAt(k)' <=> FetchingAt(k)
  /\ MarkingAt(k)' <=> MarkingAt(k)
  /\ FailedAt(k)' <=> FailedAt(k)

LEMMA SameAtStage ==
  ASSUME StageView, StageView', NEW k, SameAt(k)
  PROVE  SameStage(k)
<1>1. /\ QueuedAt(k)   => StageOf(k) = "queued"
      /\ FetchingAt(k) => StageOf(k) = "fetching"
      /\ MarkingAt(k)  => StageOf(k) = "marking"
      /\ FailedAt(k)   => StageOf(k) = "failed"
      /\ ~(QueuedAt(k) \/ FetchingAt(k) \/ MarkingAt(k) \/ FailedAt(k))
           => StageOf(k) = "none"
  BY DEF StageView
<1>2. /\ QueuedAt(k)'   => StageOf(k)' = "queued"
      /\ FetchingAt(k)' => StageOf(k)' = "fetching"
      /\ MarkingAt(k)'  => StageOf(k)' = "marking"
      /\ FailedAt(k)'   => StageOf(k)' = "failed"
      /\ ~(QueuedAt(k)' \/ FetchingAt(k)' \/ MarkingAt(k)' \/ FailedAt(k)')
           => StageOf(k)' = "none"
  BY DEF StageView
<1>3. QED
  BY <1>1, <1>2 DEF SameAt, SameStage

-----------------------------------------------------------------------------
(* What every step's proof starts from. *)

\* Two reachable states.
Calm ==
  /\ MarkBase /\ MarkBase'
  /\ OneStage /\ OneStage' /\ StageView /\ StageView'

\* A step the processes of FetchLedger do not take.
Stutters == UNCHANGED <<now, TheMinute, TheNext, TheStage, TheMarked, TheStored,
                        TheRestored>>

LEMMA StutterMaps == Stutters => UNCHANGED Ledger!ledgerVars
  BY DEF Stutters, Ledger!ledgerVars, TheMinute, TheNext, TheStage, TheMarked,
         TheStored, TheRestored, Counts

\* The keys of a queue without its front.
LEMMA KeysOfRest ==
  ASSUME NEW S, NEW q \in Seq(S), q # <<>>, Distinct(q)
  PROVE  KeysOf(Tail(q)) = KeysOf(q) \ {Key(Head(q))}
<1>1. /\ Head(q) = q[1]
      /\ Len(Tail(q)) = Len(q) - 1
      /\ Len(q) \in Nat \ {0}
      /\ \A k \in 1 .. Len(Tail(q)) : Tail(q)[k] = q[k + 1]
  BY FrontOfQueue
<1>2. \A k \in 1 .. Len(q) : k = 1 \/ (k - 1 \in 1 .. Len(Tail(q)) /\ (k - 1) + 1 = k)
  BY <1>1
<1>3. KeysOf(q) \ {Key(Head(q))} \subseteq KeysOf(Tail(q))
  <2>1. SUFFICES ASSUME NEW k \in 1 .. Len(q), Key(q[k]) # Key(Head(q))
                 PROVE  Key(q[k]) \in KeysOf(Tail(q))
    BY DEF KeysOf
  <2>2. k - 1 \in 1 .. Len(Tail(q)) /\ (k - 1) + 1 = k
    BY <1>1, <1>2, <2>1
  <2>3. Tail(q)[k - 1] = q[k]
    BY <1>1, <2>2
  <2>4. QED
    BY <2>2, <2>3 DEF KeysOf
<1>4. QED
  BY <1>3, KeysOfTail

-----------------------------------------------------------------------------
(* Taking a task. *)

LEMMA LedgerCount ==
  ASSUME NEW S
  PROVE  Ledger!Cardinality(S) = Cardinality(S)
  BY DEF Ledger!Cardinality, Cardinality

\* A thread that asks for a task has none, so one thread fewer than there
\* are is busy.
LEMMA BusyBound ==
  ASSUME IsFiniteSet(Consumer), StageView, NEW c \in Consumer, cpc[c] = "get"
  PROVE  Ledger!Cardinality(Ledger!Busy("this")) < Cardinality(Consumer)
<1> DEFINE S == Consumer \ {c}
           f == [d \in S |-> Key(task[d])]
           T == {Key(task[d]) : d \in S}
           B == Ledger!Busy("this")
<1>1. /\ IsFiniteSet(S) /\ Cardinality(S) = Cardinality(Consumer) - 1
      /\ Cardinality(S) \in Nat /\ Cardinality(Consumer) \in Nat
  BY FS_RemoveElement, FS_CardinalityType
<1>2. f \in Surjection(S, T)
  BY DEF Surjection
<1> HIDE DEF f, S, T
<1>3. IsFiniteSet(T) /\ Cardinality(T) <= Cardinality(S)
  BY <1>1, <1>2, FS_Surjection
<1>4. B \subseteq T
  <2>1. SUFFICES ASSUME NEW k \in LedgerKey, StageOf(k) \in {"fetching", "marking"}
                 PROVE  k \in T
    BY LedgerNames DEF Ledger!Busy
  <2>2. FetchingAt(k) \/ MarkingAt(k)
    BY <2>1 DEF StageView
  <2>3. PICK d \in Consumer : cpc[d] # "get" /\ Key(task[d]) = k
    BY <2>2 DEF FetchingAt, MarkingAt, Marking
  <2>4. d \in S
    BY <2>3 DEF S
  <2>5. QED
    BY <2>3, <2>4 DEF T
<1> HIDE DEF B
<1>5. Cardinality(B) <= Cardinality(T) /\ Cardinality(B) \in Nat /\ Cardinality(T) \in Nat
  BY <1>3, <1>4, FS_Subset, FS_CardinalityType
<1>6. Cardinality(B) < Cardinality(Consumer)
  BY <1>1, <1>3, <1>5
<1>7. QED
  BY <1>6, LedgerCount DEF B

\* A key in a stage is one of the keys of FetchLedger.
LEMMA KeysKnown ==
  ASSUME SystemInv, OwnerInv, NEW k,
         QueuedAt(k) \/ FetchingAt(k) \/ MarkingAt(k) \/ FailedAt(k)
  PROVE  k \in LedgerKey
<1>1. \/ \E p \in Place : k \in Held[p]
      \/ MarkingAt(k)
  BY HeldViews, Places DEF Views, QueuedAt, FetchingAt, FailedAt
<1>2. MarkingAt(k) => k \in pushed
  BY DEF MarkingAt, Marking, SystemInv, ThreadInv, StagesOK
<1>3. pushed = Held[Pushed]
  BY HeldViews DEF Views
<1>4. \E p \in Place : k \in Held[p]
  BY <1>1, <1>2, <1>3, Places
<1>5. QED
  BY <1>4, LedgerNames DEF OwnerInv, Fits, Fitting

\* The producer's part of what FetchLedger sees.
ProducerSame == now' = now /\ SameWindow /\ NextIndex' = NextIndex /\ fetch_map' = fetch_map

TakesKey(c, k) ==
  /\ cpc[c] = "get" /\ QueuedAt(k) /\ FetchingAt(k)'
  /\ \A j : j # k => SameAt(j)
  /\ ProducerSame /\ UNCHANGED <<pushed, repushed>>

LEMMA TakesMaps ==
  ASSUME Calm, IsFiniteSet(Consumer), NEW c \in Consumer, NEW k, TakesKey(c, k)
  PROVE  Ledger!ProcessStep("this")
<1>1. k \in LedgerKey
  BY KeysKnown DEF Calm, MarkBase, TakesKey
<1>2. StageOf(k) = "queued" /\ StageOf(k)' = "fetching"
  BY DEF Calm, StageView, TakesKey
<1>3. \A j \in LedgerKey : j # k => SameStage(j)
  BY SameAtStage DEF Calm, TakesKey
<1>4. Ledger!Move("this", k, "fetching")
  BY <1>1, <1>2, <1>3, MoveMaps
<1>5. Ledger!Cardinality(Ledger!Busy("this")) < Cardinality(Consumer)
  BY BusyBound DEF Calm, TakesKey
<1>6. UNCHANGED <<now, TheMinute, TheNext, TheMarked, TheStored, TheRestored>>
  BY ViewsSame DEF TakesKey, ProducerSame
<1>7. Ledger!Take("this", k)
  BY <1>1, <1>2, <1>4, <1>5, <1>6
  DEF Ledger!Take, TheMinute, TheNext, TheStage, TheMarked, TheStored, TheRestored,
      Counts
<1>8. QED
  BY <1>1, <1>7, LedgerNames DEF Ledger!ProcessStep

LEMMA DelayMaps ==
  ASSUME Calm, IsFiniteSet(Consumer), NEW c \in Consumer, Consumer_Delay(c)
  PROVE  Ledger!ProcessStep("this")
<1> DEFINE q == delay_task_queue[c]
<1>0. PICK k : k = Key(Head(q))
  OBVIOUS
<1>1. /\ q \in Seq(ExtraTask) /\ q # <<>>
      /\ cpc[c] = "get"
      /\ task' = [task EXCEPT ![c] = Head(q)]
      /\ cpc' = [cpc EXCEPT ![c] = "fetch"]
      /\ delay_task_queue' = [delay_task_queue EXCEPT ![c] = Tail(q)]
      /\ UNCHANGED <<producer_queue_, fail_task_list_, refetch_task, pushed,
                     repushed>>
      /\ ProducerSame
  BY DEF Consumer_Delay, TakeTask, Calm, MarkBase, SystemInv, ThreadInv, ThreadTypes,
         producerVars, historyVars, ProducerSame, SameWindow, NextIndex, InLoop
<1>2. /\ cpc \in [Consumer -> {"get", "fetch", "load", "store"}]
      /\ task \in [Consumer -> FirstTryTask \cup {NoTask}]
      /\ delay_task_queue \in [Consumer -> Seq(ExtraTask)]
  BY DEF Calm, MarkBase, SystemInv, ThreadInv, ThreadTypes
<1>3. /\ k \in KeysOf(q)
      /\ KeysOf(Tail(q)) = KeysOf(q) \ {k}
  BY <1>0, <1>1, KeysOfTail, KeysOfRest DEF Calm, MarkBase, OwnerInv, DistinctKeys
<1>4. QueuedAt(k)
  BY <1>3 DEF QueuedAt
<1>5. cpc'[c] = "fetch" /\ Key(task'[c]) = k
  BY <1>0, <1>1, <1>2
<1>6. \A d \in Consumer : d # c => /\ cpc'[d] = cpc[d] /\ task'[d] = task[d]
                                   /\ delay_task_queue'[d] = delay_task_queue[d]
  BY <1>1, <1>2
<1>7. delay_task_queue'[c] = Tail(q)
  BY <1>1, <1>2
<1>8. FetchingAt(k)'
  BY <1>5 DEF FetchingAt, Key
<1> HIDE DEF q
<1>9. ASSUME NEW j, j # k
      PROVE  SameAt(j)
  <2>1. QueuedAt(j)' <=> QueuedAt(j)
    <3>1. \A d \in Consumer : j \in KeysOf(delay_task_queue'[d]) <=> j \in KeysOf(delay_task_queue[d])
      BY <1>3, <1>6, <1>7, <1>9 DEF q
    <3>2. QED
      BY <1>1, <3>1 DEF QueuedAt, KeysOf, Key
  <2>2. FetchingAt(j)' <=> FetchingAt(j)
    BY <1>1, <1>5, <1>6, <1>9 DEF FetchingAt, Key
  <2>3. MarkingAt(j)' <=> MarkingAt(j)
    BY <1>1, <1>5, <1>6 DEF MarkingAt, Marking, Key
  <2>4. FailedAt(j)' <=> FailedAt(j)
    BY <1>1 DEF FailedAt, KeysOf, Key
  <2>5. QED
    BY <2>1, <2>2, <2>3, <2>4 DEF SameAt
<1>10. QED
  BY <1>1, <1>4, <1>8, <1>9, TakesMaps DEF TakesKey

LEMMA PopMaps ==
  ASSUME Calm, IsFiniteSet(Consumer), NEW c \in Consumer, Consumer_Pop(c)
  PROVE  Ledger!ProcessStep("this")
<1> DEFINE q == producer_queue_
<1>0. PICK k : k = Key(Head(q))
  OBVIOUS
<1>1. /\ q \in Seq(QueuedTask) /\ q # <<>>
      /\ cpc[c] = "get"
      /\ task' = [task EXCEPT ![c] = Head(q)]
      /\ cpc' = [cpc EXCEPT ![c] = "fetch"]
      /\ producer_queue_' = Tail(q)
      /\ UNCHANGED <<delay_task_queue, fail_task_list_, refetch_task, pushed,
                     repushed>>
      /\ ProducerSame
  BY DEF Consumer_Pop, GetTask_Pop, TakeTask, Calm, MarkBase, SystemInv, TypeInv,
         TypeOK, historyVars, ProducerSame, SameWindow, NextIndex, InLoop
<1>2. /\ cpc \in [Consumer -> {"get", "fetch", "load", "store"}]
      /\ task \in [Consumer -> FirstTryTask \cup {NoTask}]
  BY DEF Calm, MarkBase, SystemInv, ThreadInv, ThreadTypes
<1>3. /\ k \in KeysOf(q)
      /\ KeysOf(Tail(q)) = KeysOf(q) \ {k}
  BY <1>0, <1>1, KeysOfTail, KeysOfRest DEF Calm, MarkBase, OwnerInv, DistinctKeys
<1>4. QueuedAt(k)
  BY <1>3 DEF QueuedAt
<1>5. cpc'[c] = "fetch" /\ Key(task'[c]) = k
  BY <1>0, <1>1, <1>2
<1>6. \A d \in Consumer : d # c => cpc'[d] = cpc[d] /\ task'[d] = task[d]
  BY <1>1, <1>2
<1>7. FetchingAt(k)'
  BY <1>5 DEF FetchingAt, Key
<1>8. ASSUME NEW j, j # k
      PROVE  SameAt(j)
  <2>1. QueuedAt(j)' <=> QueuedAt(j)
    <3>1. j \in KeysOf(producer_queue_') <=> j \in KeysOf(producer_queue_)
      BY <1>1, <1>3, <1>8
    <3>2. \A d \in Consumer : KeysOf(delay_task_queue'[d]) = KeysOf(delay_task_queue[d])
      BY <1>1
    <3>3. QED
      BY <3>1, <3>2 DEF QueuedAt, KeysOf, Key
  <2>2. FetchingAt(j)' <=> FetchingAt(j)
    BY <1>1, <1>5, <1>6, <1>8 DEF FetchingAt, Key
  <2>3. MarkingAt(j)' <=> MarkingAt(j)
    BY <1>1, <1>5, <1>6 DEF MarkingAt, Marking, Key
  <2>4. FailedAt(j)' <=> FailedAt(j)
    BY <1>1 DEF FailedAt, KeysOf, Key
  <2>5. QED
    BY <2>1, <2>2, <2>3, <2>4 DEF SameAt
<1>9. QED
  BY <1>1, <1>4, <1>7, <1>8, TakesMaps DEF TakesKey

-----------------------------------------------------------------------------
(* Losing a task, or pushing it. *)

\* No two threads fetch the same key.
LEMMA HandsApart ==
  ASSUME OwnerInv, NEW c \in Consumer, NEW d \in Consumer,
         cpc[c] = "fetch", cpc[d] = "fetch", Key(task[c]) = Key(task[d])
  PROVE  c = d
<1>1. Key(task[c]) \in Held[Hand(c)] /\ Key(task[c]) \in Held[Hand(d)]
  BY HeldViews DEF Views
<1>2. QED
  BY <1>1, Places, PlacesDiffer DEF OwnerInv, Apart

\* A thread is done with its task: the key is in no thread and no queue.
LEMMA LetsGo ==
  ASSUME Calm, NEW c \in Consumer, cpc[c] = "fetch", DeleteTask(c),
         UNCHANGED <<producer_queue_, delay_task_queue>>,
         NEW k, k = Key(task[c])
  PROVE  /\ FetchingAt(k)
         /\ ~QueuedAt(k)' /\ ~FetchingAt(k)' /\ ~MarkingAt(k)'
         /\ ~FailedAt(k)
         /\ \A j : j # k => /\ QueuedAt(j)' <=> QueuedAt(j)
                            /\ FetchingAt(j)' <=> FetchingAt(j)
                            /\ MarkingAt(j)' <=> MarkingAt(j)
<1>1. /\ cpc \in [Consumer -> {"get", "fetch", "load", "store"}]
      /\ task \in [Consumer -> FirstTryTask \cup {NoTask}]
  BY DEF Calm, MarkBase, SystemInv, ThreadInv, ThreadTypes
<1>2. /\ cpc'[c] = "get"
      /\ \A d \in Consumer : d # c => cpc'[d] = cpc[d] /\ task'[d] = task[d]
  BY <1>1 DEF DeleteTask
<1>3. FetchingAt(k)
  BY DEF FetchingAt
<1>4. ~QueuedAt(k) /\ ~MarkingAt(k) /\ ~FailedAt(k)
  BY <1>3 DEF Calm, OneStage
<1>5. \A j : QueuedAt(j)' <=> QueuedAt(j)
  BY DEF QueuedAt, KeysOf, Key
<1>6. \A j : MarkingAt(j)' <=> MarkingAt(j)
  BY <1>2 DEF MarkingAt, Marking, Key
<1>7. ~FetchingAt(k)'
  <2>1. \A d \in Consumer : cpc'[d] = "fetch" => Key(task'[d]) # k
    BY <1>2, HandsApart DEF Calm, MarkBase, Key
  <2>2. QED
    BY <2>1 DEF FetchingAt, Key
<1>8. \A j : j # k => (FetchingAt(j)' <=> FetchingAt(j))
  BY <1>2 DEF FetchingAt, Key
<1>9. QED
  BY <1>3, <1>4, <1>5, <1>6, <1>7, <1>8

\* It may be in the fail list then.
LEMMA LosesMaps ==
  ASSUME Calm, NEW c \in Consumer, cpc[c] = "fetch", DeleteTask(c),
         UNCHANGED <<producer_queue_, delay_task_queue, pushed, repushed>>,
         ProducerSame,
         \A j : j # Key(task[c]) => (FailedAt(j)' <=> FailedAt(j))
  PROVE  Ledger!ProcessStep("this")
<1>0. PICK k : k = Key(task[c])
  OBVIOUS
<1>1. /\ FetchingAt(k)
      /\ ~QueuedAt(k)' /\ ~FetchingAt(k)' /\ ~MarkingAt(k)'
      /\ \A j : j # k => SameAt(j)
  BY <1>0, LetsGo DEF SameAt
<1>2. k \in LedgerKey
  BY <1>1, KeysKnown DEF Calm, MarkBase
<1>3. StageOf(k) = "fetching"
  BY <1>1 DEF Calm, StageView
<1>4. PICK s \in {"failed", "none"} : StageOf(k)' = s
  BY <1>1 DEF Calm, StageView
<1>5. \A j \in LedgerKey : j # k => SameStage(j)
  BY <1>1, SameAtStage DEF Calm
<1>6. Ledger!Move("this", k, s)
  BY <1>2, <1>4, <1>5, MoveMaps
<1>7. UNCHANGED <<now, TheMinute, TheNext, TheMarked, TheStored, TheRestored>>
  BY ViewsSame DEF ProducerSame
<1>8. Ledger!FetchFails("this", k)
  BY <1>2, <1>3, <1>6, <1>7
  DEF Ledger!FetchFails, TheMinute, TheNext, TheMarked, TheStored, TheRestored,
      Counts
<1>9. QED
  BY <1>2, <1>8, LedgerNames DEF Ledger!ProcessStep

\* The fail list may have one key more.
LEMMA SavesKey ==
  ASSUME NEW q \in Seq(FailedTask), NEW t \in SystemTask, t.retry_count < RETRY_MAX
  PROVE  \/ KeysOf(SaveFailTask(q, t)) = KeysOf(q)
         \/ KeysOf(SaveFailTask(q, t)) = KeysOf(q) \cup {Key(t)}
<1> DEFINE u == [t EXCEPT !.retry_count = @ + 1]
<1>1. /\ u \in FailedTask
      /\ u.index = t.index /\ u.time_str = t.time_str
  BY ConsumerAssumption DEF SystemTask, FailedTask
<1>2. SaveFailTask(q, t) = q \/ SaveFailTask(q, t) = Append(q, u)
  BY DEF SaveFailTask
<1> HIDE DEF u
<1>3. Key(u) = Key(t)
  BY <1>1 DEF Key
<1>4. /\ Len(q) \in Nat /\ Len(Append(q, u)) = Len(q) + 1
      /\ \A k \in 1 .. Len(q) : Append(q, u)[k] = q[k]
      /\ Append(q, u)[Len(q) + 1] = u
  BY <1>1
<1>5. \A k : k \in 1 .. Len(q) + 1 <=> k \in 1 .. Len(q) \/ k = Len(q) + 1
  BY <1>4
<1>6. KeysOf(Append(q, u)) = KeysOf(q) \cup {Key(t)}
  BY <1>3, <1>4, <1>5 DEF KeysOf
<1>7. QED
  BY <1>2, <1>6

LEMMA FailsMaps ==
  ASSUME Calm, NEW c \in Consumer,
         \/ Consumer_FetchFails(c)
         \/ Consumer_FetchDropped(c)
         \/ Consumer_FetchRefused(c)
  PROVE  Ledger!ProcessStep("this")
<1>1. /\ cpc[c] = "fetch" /\ DeleteTask(c)
      /\ UNCHANGED <<producer_queue_, delay_task_queue, refetch_task, pushed, repushed>>
      /\ ProducerSame
  BY DEF Consumer_FetchFails, Consumer_FetchDropped, Consumer_FetchRefused,
         SetIdentityError, producerVars, historyVars, ProducerSame, SameWindow,
         NextIndex, InLoop
<1>2. \/ fail_task_list_' = fail_task_list_
      \/ fail_task_list_' = SaveFailTask(fail_task_list_, task[c])
  BY DEF Consumer_FetchFails, Consumer_FetchDropped, Consumer_FetchRefused
<1>3. /\ fail_task_list_ \in Seq(FailedTask) /\ task[c] \in SystemTask
      /\ task[c].retry_count < RETRY_MAX
  <2>1. task[c] \in FirstTryTask
    BY <1>1 DEF Calm, MarkBase, SystemInv, ThreadInv, ThreadTypes, StagesOK
  <2>2. QED
    BY <2>1, ConsumerAssumption
    DEF FirstTryTask, Calm, MarkBase, SystemInv, ThreadInv, ThreadTypes
<1>4. \/ KeysOf(fail_task_list_') = KeysOf(fail_task_list_)
      \/ KeysOf(fail_task_list_') = KeysOf(fail_task_list_) \cup {Key(task[c])}
  BY <1>2, <1>3, SavesKey
<1>5. \A j : j # Key(task[c]) => (FailedAt(j)' <=> FailedAt(j))
  BY <1>1, <1>4 DEF FailedAt, KeysOf, Key
<1>6. QED
  BY <1>1, <1>5, LosesMaps

\* A key that is new to a set is counted once.
LEMMA CountsOnce ==
  ASSUME NEW S, NEW T, NEW k \in LedgerKey, k \notin S, T = S \cup {k}
  PROVE  Counts(T) = [Counts(S) EXCEPT ![k] = @ + 1]
<1>1. Counts(S)[k] = 0 /\ Counts(T)[k] = 1
  BY DEF Counts
<1>2. \A x \in LedgerKey : x # k => Counts(T)[x] = Counts(S)[x]
  BY DEF Counts
<1>3. /\ Counts(S) = [x \in LedgerKey |-> Counts(S)[x]]
      /\ Counts(T) = [x \in LedgerKey |-> Counts(T)[x]]
  BY DEF Counts
<1>4. QED
  BY <1>1, <1>2, <1>3

\* The value is in Kafka once: the key was nowhere among what was pushed.
LEMMA StoreMaps ==
  ASSUME Calm, NEW c \in Consumer, Consumer_Store(c)
  PROVE  Ledger!ProcessStep("this")
<1>0. PICK k : k = Key(task[c])
  OBVIOUS
<1>1. /\ cpc[c] = "fetch"
      /\ pushed' = pushed \cup {k}
      /\ UNCHANGED <<producer_queue_, delay_task_queue, fail_task_list_,
                     refetch_task, repushed>>
      /\ ProducerSame
  BY <1>0 DEF Consumer_Store, producerVars, ProducerSame, SameWindow, NextIndex, InLoop
<1>2. FetchingAt(k)
  BY <1>0, <1>1 DEF FetchingAt
<1>3. k \in LedgerKey /\ k \notin pushed /\ StageOf(k) = "fetching"
  BY <1>2, KeysKnown DEF Calm, MarkBase, OneStage, StageView
<1>4. /\ StageOf(k)' = IF k[2] \in Index THEN "marking" ELSE "none"
      /\ \A j \in LedgerKey : j # k => SameStage(j)
  <2>1. \A j : FailedAt(j)' <=> FailedAt(j)
    BY <1>1 DEF FailedAt, KeysOf, Key
  <2>2. /\ task[c] # NoTask
        /\ cpc \in [Consumer -> {"get", "fetch", "load", "store"}]
    BY <1>1 DEF Calm, MarkBase, SystemInv, ThreadInv, ThreadTypes, StagesOK
  <2>3. k[2] = task[c].index
    BY <1>0 DEF Key
  <2>4. Marks(task[c]) <=> k[2] \in Index
    BY <2>2, <2>3, MatAssumption
    DEF Marks, Calm, MarkBase, HandsOK, Index, TASK_NORMAL, TASK_DELAY
  <2>5. CASE Marks(task[c])
    <3>1. /\ cpc' = [cpc EXCEPT ![c] = "load"] /\ task' = task
      BY <2>5 DEF Consumer_Store
    <3>2. /\ cpc'[c] = "load"
          /\ \A d \in Consumer : d # c => cpc'[d] = cpc[d]
      BY <2>2, <3>1
    <3>3. MarkingAt(k)'
      BY <1>0, <3>1, <3>2 DEF MarkingAt, Marking, Key
    <3>4. ASSUME NEW j, j # k
          PROVE  SameAt(j)
      <4>1. QueuedAt(j)' <=> QueuedAt(j)
        BY <1>1 DEF QueuedAt, KeysOf, Key
      <4>2. FetchingAt(j)' <=> FetchingAt(j)
        BY <1>0, <3>1, <3>2, <3>4 DEF FetchingAt, Key
      <4>3. MarkingAt(j)' <=> MarkingAt(j)
        BY <1>0, <1>1, <3>1, <3>2, <3>4 DEF MarkingAt, Marking, Key
      <4>4. QED
        BY <2>1, <4>1, <4>2, <4>3 DEF SameAt
    <3>5. QED
      BY <2>4, <2>5, <3>3, <3>4, SameAtStage DEF Calm, StageView
  <2>6. CASE ~Marks(task[c])
    <3>1. DeleteTask(c)
      BY <2>6 DEF Consumer_Store
    <3>2. /\ ~QueuedAt(k)' /\ ~FetchingAt(k)' /\ ~MarkingAt(k)' /\ ~FailedAt(k)'
          /\ \A j : j # k => SameAt(j)
      BY <1>0, <1>1, <2>1, <3>1, LetsGo DEF SameAt
    <3>3. QED
      BY <2>4, <2>6, <3>2, SameAtStage DEF Calm, StageView
  <2>7. QED
    BY <2>5, <2>6
<1>5. Ledger!Move("this", k, IF k[2] \in Index THEN "marking" ELSE "none")
  BY <1>3, <1>4, MoveMaps
<1>6. TheStored' = [TheStored EXCEPT ![k] = @ + 1]
  BY <1>1, <1>3, CountsOnce DEF TheStored
<1>7. UNCHANGED <<now, TheMinute, TheNext, TheMarked, TheRestored>>
  BY <1>1, ViewsSame DEF ProducerSame
<1>8. Ledger!Store("this", k)
  BY <1>3, <1>5, <1>6, <1>7, LedgerNames
  DEF Ledger!Store, TheMinute, TheNext, TheMarked, TheStored, TheRestored,
      Counts
<1>9. QED
  BY <1>3, <1>8, LedgerNames DEF Ledger!ProcessStep

-----------------------------------------------------------------------------
(* Steps FetchLedger does not see, and marking an index. *)

LEMMA StillMaps ==
  ASSUME Calm, ProducerSame, UNCHANGED <<pushed, repushed>>, \A k : SameAt(k)
  PROVE  UNCHANGED Ledger!ledgerVars
<1>1. \A k \in LedgerKey : SameStage(k)
  BY SameAtStage DEF Calm
<1>2. Stutters
  BY <1>1, ViewsSame DEF Stutters, ProducerSame
<1>3. QED
  BY <1>2, StutterMaps

\* Blocking, waking and loading a word.
LEMMA QuietMaps ==
  ASSUME Calm, NEW c \in Consumer,
         Consumer_Wait(c) \/ Consumer_Wakeup(c) \/ Consumer_Load(c)
  PROVE  UNCHANGED Ledger!ledgerVars
<1>1. /\ UNCHANGED <<producer_queue_, delay_task_queue, fail_task_list_,
                     refetch_task, pushed, repushed, task>>
      /\ ProducerSame
  BY DEF Consumer_Wait, Consumer_Wakeup, Consumer_Load, GetTask_Wait,
         GetTask_Wakeup, threadVars, historyVars, producerVars, ProducerSame,
         SameWindow, NextIndex, InLoop
<1>2. \A d \in Consumer : /\ cpc'[d] = "fetch" <=> cpc[d] = "fetch"
                          /\ Marking(d)' <=> Marking(d)
  <2>1. cpc \in [Consumer -> {"get", "fetch", "load", "store"}]
    BY DEF Calm, MarkBase, SystemInv, ThreadInv, ThreadTypes
  <2>2. cpc' = cpc \/ (cpc[c] = "load" /\ cpc' = [cpc EXCEPT ![c] = "store"])
    BY DEF Consumer_Wait, Consumer_Wakeup, Consumer_Load, threadVars
  <2>3. QED
    BY <2>1, <2>2 DEF Marking
<1>3. \A k : SameAt(k)
  BY <1>1, <1>2
  DEF SameAt, QueuedAt, FetchingAt, MarkingAt, FailedAt, KeysOf, Key
<1>4. QED
  BY <1>1, <1>3, StillMaps

\* What a store does to the map: the bit of its index gets the value, and of the
\* others only those in the word may change.
LEMMA StoreMapsBit ==
  ASSUME NEW m \in Minute, NEW j \in Index, NEW value \in {0, 1},
         IS_SET(fetch_map', m, j) <=> value = 1,
         \A r \in Minute, k \in Index :
           \/ IS_SET(fetch_map', r, k) <=> IS_SET(fetch_map, r, k)
           \/ r = m /\ WordOf(k) = WordOf(j)
  PROVE  \E stale \in SUBSET (Ledger!WordOf(<<m, j>>) \ {<<m, j>>}) :
           TheMarked' = (TheMarked \ Ledger!WordOf(<<m, j>>)) \cup stale
                          \cup (IF value = 1 THEN {<<m, j>>} ELSE {})
<1> DEFINE b == <<m, j>>
           W == Ledger!WordOf(b)
           stale == (TheMarked' \cap W) \ {b}
<1>1. \A x \in Minute \X Index : x \in W <=> x[1] = m /\ WordOf(x[2]) = WordOf(j)
  BY LedgerNames DEF Ledger!WordOf, WordOf
<1>2. \A x : /\ x \in TheMarked  <=> x \in Minute \X Index /\ IS_SET(fetch_map, x[1], x[2])
             /\ x \in TheMarked' <=> x \in Minute \X Index /\ IS_SET(fetch_map', x[1], x[2])
  BY DEF TheMarked
<1>3. b \in TheMarked' <=> value = 1
  BY <1>2
<1>4. \A x \in Minute \X Index : x \notin W => (x \in TheMarked' <=> x \in TheMarked)
  BY <1>1, <1>2
<1>5. TheMarked \subseteq Minute \X Index /\ TheMarked' \subseteq Minute \X Index
  BY <1>2
<1>6. b \in W
  BY <1>1
<1> HIDE DEF b, W
<1>7. TheMarked' = (TheMarked \ W) \cup stale \cup (IF value = 1 THEN {b} ELSE {})
  BY <1>3, <1>4, <1>5, <1>6
<1>8. stale \in SUBSET (W \ {b})
  OBVIOUS
<1>9. QED
  BY <1>7, <1>8 DEF b, W

\* The bit of the index of the task is set.
LEMMA SetBitMarks ==
  ASSUME Calm, NEW c \in Consumer, Consumer_SetBit(c)
  PROVE  Ledger!StoreBit(Ledger!MapBit(Key(task[c])), 1)
<1> DEFINE m == task[c].time_str % ONE_DAY_MINUTE
           j == task[c].index
<1>1. /\ m \in Minute /\ j \in Index
      /\ IS_SET(fetch_map', m, j)
      /\ \A r \in Minute, k \in Index :
           \/ IS_SET(fetch_map', r, k) <=> IS_SET(fetch_map, r, k)
           \/ r = m /\ WordOf(k) = WordOf(j)
  BY SetBitStores DEF Calm
<1>2. Ledger!MapBit(Key(task[c])) = <<m, j>>
  BY DEF Ledger!MapBit, Key
<1>3. PICK row, col : row = m /\ col = j
  OBVIOUS
<1>4. /\ row \in Minute /\ col \in Index
      /\ IS_SET(fetch_map', row, col)
      /\ \A r \in Minute, k \in Index :
           \/ IS_SET(fetch_map', r, k) <=> IS_SET(fetch_map, r, k)
           \/ r = row /\ WordOf(k) = WordOf(col)
  BY <1>1, <1>3
<1> HIDE DEF m, j
<1>5. \E stale \in SUBSET (Ledger!WordOf(<<row, col>>) \ {<<row, col>>}) :
        TheMarked' = (TheMarked \ Ledger!WordOf(<<row, col>>)) \cup stale
                       \cup (IF 1 = 1 THEN {<<row, col>>} ELSE {})
  BY <1>4, StoreMapsBit
<1>6. QED
  BY <1>2, <1>3, <1>5 DEF Ledger!StoreBit, TheMarked

\* The thread with the last index queues all the extra keys of its window.
LEMMA ExtraKeys ==
  ASSUME NEW tok \in Token \cup {NoToken}, NEW w \in ClockMinute
  PROVE  KeysOf(CreateExtroTasks(<<>>, tok, w))
           = {k \in LedgerKey : k[1] = w /\ k[2] \in Ledger!ExtraIndex}
<1> DEFINE q == CreateExtroTasks(<<>>, tok, w)
<1>1. /\ q \in Seq(ExtraTask)
      /\ Len(q) = NumberOfExtra
      /\ \A k \in 1 .. Len(q) :
           q[k].index = MAX_FETCH_INDEX + k - 1 /\ q[k].time_str = w
  BY CreateExtroTasksWhole
<1> HIDE DEF q
<1>2. NumberOfExtra = EXTRA_END - MAX_FETCH_INDEX
      /\ MAX_FETCH_INDEX \in Nat \ {0} /\ EXTRA_END \in Nat /\ NumberOfExtra \in Nat
  BY ConsumerAssumption, MatAssumption DEF NumberOfExtra
<1>3. \A x \in Ledger!ExtraIndex : /\ x - MAX_FETCH_INDEX + 1 \in 1 .. Len(q)
                                   /\ MAX_FETCH_INDEX + (x - MAX_FETCH_INDEX + 1) - 1 = x
                                   /\ x \in 0 .. EXTRA_END - 1
  BY <1>1, <1>2 DEF Ledger!ExtraIndex
<1>4. \A k \in 1 .. Len(q) : MAX_FETCH_INDEX + k - 1 \in Ledger!ExtraIndex
  BY <1>1, <1>2 DEF Ledger!ExtraIndex
<1>5. ASSUME NEW k \in KeysOf(q)
      PROVE  k \in LedgerKey /\ k[1] = w /\ k[2] \in Ledger!ExtraIndex
  BY <1>1, <1>3, <1>4, <1>5 DEF KeysOf, Key, LedgerKey
<1>6. ASSUME NEW k \in LedgerKey, k[1] = w, k[2] \in Ledger!ExtraIndex
      PROVE  k \in KeysOf(q)
  <2>1. PICK j \in 1 .. Len(q) : MAX_FETCH_INDEX + j - 1 = k[2]
    BY <1>3, <1>6
  <2>2. k = <<k[1], k[2]>>
    BY DEF LedgerKey
  <2>3. Key(q[j]) = k
    BY <1>1, <1>6, <2>1, <2>2 DEF Key
  <2>4. QED
    BY <2>3 DEF KeysOf
<1>7. QED
  BY <1>5, <1>6 DEF q

LEMMA SetBitMaps ==
  ASSUME Calm, NEW c \in Consumer, Consumer_SetBit(c)
  PROVE  Ledger!ProcessStep("this")
<1>0. PICK k, w, tok : /\ k = Key(task[c]) /\ w = task[c].time_str
                       /\ tok = task[c].token
  OBVIOUS
<1>1. /\ cpc[c] = "store" /\ DeleteTask(c)
      /\ UNCHANGED <<now, producer_queue_, fail_task_list_, refetch_task,
                     pushed, repushed>>
      /\ SameWindow /\ NextIndex' = NextIndex
  BY DEF Consumer_SetBit, ShmWrite, SameWindow, NextIndex, InLoop
<1>2. /\ cpc \in [Consumer -> {"get", "fetch", "load", "store"}]
      /\ task \in [Consumer -> FirstTryTask \cup {NoTask}]
      /\ delay_task_queue \in [Consumer -> Seq(ExtraTask)]
  BY DEF Calm, MarkBase, SystemInv, ThreadInv, ThreadTypes
<1>3. /\ cpc'[c] = "get"
      /\ \A d \in Consumer : d # c => cpc'[d] = cpc[d] /\ task'[d] = task[d]
  BY <1>1, <1>2 DEF DeleteTask
<1>4. MarkingAt(k) /\ k \in LedgerKey /\ StageOf(k) = "marking"
  <2>1. MarkingAt(k)
    BY <1>0, <1>1 DEF MarkingAt, Marking
  <2>2. QED
    BY <2>1, KeysKnown DEF Calm, MarkBase, StageView
<1>5. /\ tok \in Token \cup {NoToken} /\ w \in ClockMinute
      /\ delay_task_queue[c] = <<>>
      /\ k = <<w, task[c].index>>
  <2>1. task[c] # NoTask /\ Marks(task[c])
    BY <1>1 DEF Calm, MarkBase, SystemInv, ThreadInv, StagesOK
  <2>2. task[c] \in SystemTask /\ delay_task_queue[c] = <<>>
    BY <1>2, <2>1
    DEF FirstTryTask, Marks, Calm, MarkBase, SystemInv, ThreadInv, StagesOK
  <2>3. QED
    BY <1>0, <2>2 DEF SystemTask, Key
<1> DEFINE N == {x \in LedgerKey : /\ k[2] = Ledger!LastIndex
                                   /\ x[1] = k[1] /\ x[2] \in Ledger!ExtraIndex}
<1>6. /\ KeysOf(delay_task_queue'[c]) = N
      /\ KeysOf(delay_task_queue[c]) = {}
      /\ \A d \in Consumer : d # c => delay_task_queue'[d] = delay_task_queue[d]
  <2>1. KeysOf(<<>>) = {}
    BY DEF KeysOf
  <2>2. CreatesExtra(task[c]) <=> k[2] = Ledger!LastIndex
    BY <1>0 DEF CreatesExtra, Key, Ledger!LastIndex
  <2>3. CASE CreatesExtra(task[c])
    <3>1. delay_task_queue' =
            [delay_task_queue EXCEPT ![c] = CreateExtroTasks(<<>>, tok, w)]
      BY <1>0, <1>2, <1>5, <2>3 DEF Consumer_SetBit
    <3>2. KeysOf(CreateExtroTasks(<<>>, tok, w)) = N
      BY <1>5, <2>2, <2>3, ExtraKeys
    <3>3. QED
      BY <1>2, <1>5, <2>1, <3>1, <3>2
  <2>4. CASE ~CreatesExtra(task[c])
    <3>1. delay_task_queue' = delay_task_queue /\ N = {}
      BY <2>2, <2>4 DEF Consumer_SetBit
    <3>2. QED
      BY <1>5, <2>1, <3>1
  <2>5. QED
    BY <2>3, <2>4
<1> HIDE DEF N
<1>7. /\ ~FetchingAt(k)' /\ ~MarkingAt(k)' /\ ~FailedAt(k)' /\ ~QueuedAt(k)'
  <2>1. ~FetchingAt(k) /\ ~FailedAt(k) /\ ~QueuedAt(k)
    BY <1>4 DEF Calm, OneStage
  <2>2. k \notin N
    BY <1>4, MatAssumption DEF N, Ledger!LastIndex, Ledger!ExtraIndex
  <2>3. ~FetchingAt(k)' /\ ~FailedAt(k)' /\ ~QueuedAt(k)'
    BY <1>1, <1>3, <1>6, <2>1, <2>2
    DEF FetchingAt, FailedAt, QueuedAt, KeysOf, Key
  <2>4. \A d \in Consumer : d # c /\ Marking(d) => Key(task[d]) # k
    BY <1>0, <1>1 DEF Calm, MarkBase, OwnerInv, MarksApart, Marking
  <2>5. ~MarkingAt(k)'
    BY <1>3, <2>4 DEF MarkingAt, Marking, Key
  <2>6. QED
    BY <2>3, <2>5
<1>8. ASSUME NEW x, x # k
      PROVE  /\ x \notin N => SameAt(x)
             /\ x \in N => QueuedAt(x)'
  <2>1. x \notin N => (QueuedAt(x)' <=> QueuedAt(x))
    <3>1. \A d \in Consumer : x \notin N =>
            (x \in KeysOf(delay_task_queue'[d]) <=> x \in KeysOf(delay_task_queue[d]))
      BY <1>6
    <3>2. QED
      BY <1>1, <3>1 DEF QueuedAt, KeysOf, Key
  <2>2. x \in N => QueuedAt(x)'
    BY <1>6 DEF QueuedAt, KeysOf, Key
  <2>3. FetchingAt(x)' <=> FetchingAt(x)
    BY <1>1, <1>3 DEF FetchingAt, Key
  <2>4. MarkingAt(x)' <=> MarkingAt(x)
    BY <1>0, <1>3, <1>8 DEF MarkingAt, Marking, Key
  <2>5. FailedAt(x)' <=> FailedAt(x)
    BY <1>1 DEF FailedAt, KeysOf, Key
  <2>6. QED
    BY <2>1, <2>2, <2>3, <2>4, <2>5 DEF SameAt
<1>9. \A x \in LedgerKey :
        StageOf(x)' = IF x = k THEN "none"
                      ELSE IF /\ k[2] = Ledger!LastIndex
                              /\ x[1] = k[1] /\ x[2] \in Ledger!ExtraIndex
                      THEN "queued" ELSE StageOf(x)
  <2>1. SUFFICES ASSUME NEW x \in LedgerKey
                 PROVE  StageOf(x)' = IF x = k THEN "none"
                                      ELSE IF x \in N THEN "queued" ELSE StageOf(x)
    BY DEF N
  <2>2. CASE x = k
    BY <1>7, <2>2 DEF Calm, StageView
  <2>3. CASE x # k /\ x \in N
    BY <1>8, <2>3 DEF Calm, StageView
  <2>4. CASE x # k /\ x \notin N
    BY <1>8, <2>4, SameAtStage DEF Calm, SameStage
  <2>5. QED
    BY <2>2, <2>3, <2>4
<1>10. UNCHANGED <<now, TheMinute, TheNext, TheStored, TheRestored>>
  BY <1>1, ViewsSame
<1>11. Ledger!StoreBit(Ledger!MapBit(k), 1)
  BY <1>0, SetBitMarks
<1>12. TheStage' = [TheStage EXCEPT !["this"] =
         [x \in LedgerKey |->
            IF x = k THEN "none"
            ELSE IF /\ k[2] = Ledger!LastIndex
                    /\ x[1] = k[1] /\ x[2] \in Ledger!ExtraIndex
                 THEN "queued" ELSE @[x]]]
  BY <1>9 DEF TheStage
<1>13. Ledger!MarkIndex("this", k)
  BY <1>4, <1>10, <1>11, <1>12, LedgerNames
  DEF Ledger!MarkIndex, TheMinute, TheNext, TheStage, TheMarked, TheStored,
      TheRestored, Counts
<1>14. QED
  BY <1>4, <1>13, LedgerNames DEF Ledger!ProcessStep

-----------------------------------------------------------------------------
(* The refetch thread. *)

\* What the consumers and the producer's queue hold is theirs.
RefetchSame ==
  /\ UNCHANGED <<producer_queue_, cpc, task, delay_task_queue, pushed>>
  /\ ProducerSame

LEMMA RefetchSameAt ==
  ASSUME RefetchSame, NEW k, FailedAt(k)' <=> FailedAt(k)
  PROVE  SameAt(k)
  BY DEF RefetchSame, SameAt, QueuedAt, FetchingAt, MarkingAt, Marking, KeysOf, Key

\* From the front of the list into the thread's hand a key stays failed.
LEMMA GetFailMaps ==
  ASSUME Calm, GetFailTask
  PROVE  UNCHANGED Ledger!ledgerVars
<1> DEFINE q == fail_task_list_
<1>0. PICK k : k = Key(Head(q))
  OBVIOUS
<1>1. /\ q \in Seq(FailedTask) /\ q # <<>>
      /\ refetch_task = NoTask
      /\ refetch_task' = Head(q) /\ fail_task_list_' = Tail(q)
      /\ RefetchSame /\ UNCHANGED repushed
  BY DEF GetFailTask, RefetchUnchanged, producerVars, historyVars, Calm, MarkBase,
         SystemInv, ThreadInv, ThreadTypes, RefetchSame, ProducerSame, SameWindow,
         NextIndex, InLoop
<1>2. /\ k \in KeysOf(q) /\ KeysOf(Tail(q)) = KeysOf(q) \ {k}
  BY <1>0, <1>1, KeysOfTail, KeysOfRest DEF Calm, MarkBase, OwnerInv, DistinctKeys
<1>3. refetch_task' # NoTask /\ Key(refetch_task') = k
  <2>1. Head(q) \in FailedTask
    BY <1>1, FrontOfQueue
  <2>2. QED
    BY <1>0, <1>1, <2>1, ConsumerAssumption DEF FailedTask
<1>4. \A j : FailedAt(j)' <=> FailedAt(j)
  BY <1>1, <1>2, <1>3 DEF FailedAt, KeysOf, Key
<1>5. QED
  BY <1>1, <1>4, RefetchSameAt, StillMaps DEF RefetchSame

\* The thread is done with its key, which may be back in the list.
LEMMA RefetchLetsGo ==
  ASSUME Calm, RefetchSame, refetch_task # NoTask, refetch_task' = NoTask,
         NEW k, k = Key(refetch_task),
         \/ KeysOf(fail_task_list_') = KeysOf(fail_task_list_)
         \/ KeysOf(fail_task_list_') = KeysOf(fail_task_list_) \cup {k}
  PROVE  /\ k \in LedgerKey /\ StageOf(k) = "failed"
         /\ StageOf(k)' \in {"failed", "none"}
         /\ KeysOf(fail_task_list_') = KeysOf(fail_task_list_) => StageOf(k)' = "none"
         /\ \A j : j # k => SameAt(j)
<1>1. FailedAt(k)
  BY DEF FailedAt
<1>2. k \in LedgerKey /\ StageOf(k) = "failed"
  BY <1>1, KeysKnown DEF Calm, MarkBase, StageView
<1>3. ~QueuedAt(k)' /\ ~FetchingAt(k)' /\ ~MarkingAt(k)'
  <2>1. ~QueuedAt(k) /\ ~FetchingAt(k) /\ ~MarkingAt(k)
    BY <1>1 DEF Calm, OneStage
  <2>2. QED
    BY <2>1
    DEF RefetchSame, QueuedAt, FetchingAt, MarkingAt, Marking, KeysOf, Key
<1>4. StageOf(k)' \in {"failed", "none"}
  BY <1>3 DEF Calm, StageView
<1>5. ASSUME KeysOf(fail_task_list_') = KeysOf(fail_task_list_)
      PROVE  StageOf(k)' = "none"
  <2>1. k \in Held[Refetch]
    BY HeldViews DEF Views
  <2>2. k \notin Held[FailList]
    BY <2>1, Places, PlacesDiffer DEF Calm, MarkBase, OwnerInv, Apart
  <2>3. k \notin KeysOf(fail_task_list_')
    BY <1>5, <2>2, HeldViews DEF Views
  <2>4. ~FailedAt(k)'
    BY <2>3 DEF FailedAt, KeysOf, Key
  <2>5. QED
    BY <1>3, <2>4 DEF Calm, StageView
<1>6. ASSUME NEW j, j # k
      PROVE  SameAt(j)
  <2>1. FailedAt(j)' <=> FailedAt(j)
    BY <1>6 DEF FailedAt, KeysOf, Key
  <2>2. QED
    BY <2>1, RefetchSameAt
<1>7. QED
  BY <1>2, <1>4, <1>5, <1>6

LEMMA RefetchMaps ==
  ASSUME Calm, Refetch_Fails \/ Refetch_Dropped \/ Refetch_Store
  PROVE  Ledger!ProcessStep("this") \/ UNCHANGED Ledger!ledgerVars
<1>0. PICK k : k = Key(refetch_task)
  OBVIOUS
<1>1. /\ refetch_task # NoTask /\ refetch_task' = NoTask /\ RefetchSame
  BY DEF Refetch_Fails, Refetch_Dropped, Refetch_Store, RefetchUnchanged,
         producerVars, historyVars, RefetchSame, ProducerSame, SameWindow,
         NextIndex, InLoop
<1>2. \/ repushed' = repushed
      \/ repushed' = repushed \cup {k} /\ fail_task_list_' = fail_task_list_
  BY <1>0 DEF Refetch_Fails, Refetch_Dropped, Refetch_Store, historyVars
<1>3. \/ KeysOf(fail_task_list_') = KeysOf(fail_task_list_)
      \/ KeysOf(fail_task_list_') = KeysOf(fail_task_list_) \cup {k}
  <2>1. \/ fail_task_list_' = fail_task_list_
        \/ /\ refetch_task.retry_count < RETRY_MAX
           /\ fail_task_list_' = SaveFailTask(fail_task_list_, refetch_task)
    BY DEF Refetch_Fails, Refetch_Dropped, Refetch_Store
  <2>2. refetch_task \in SystemTask /\ fail_task_list_ \in Seq(FailedTask)
    BY <1>1 DEF Calm, MarkBase, SystemInv, ThreadInv, ThreadTypes, FailedTask
  <2>3. QED
    BY <1>0, <2>1, <2>2, SavesKey
<1>4. /\ k \in LedgerKey /\ StageOf(k) = "failed"
      /\ StageOf(k)' \in {"failed", "none"}
      /\ KeysOf(fail_task_list_') = KeysOf(fail_task_list_) => StageOf(k)' = "none"
      /\ \A j : j # k => SameAt(j)
  BY <1>0, <1>1, <1>3, RefetchLetsGo
<1>5. k \notin repushed
  <2>1. FailedAt(k)
    BY <1>0, <1>1 DEF FailedAt
  <2>2. QED
    BY <2>1 DEF Calm, OneStage
<1>6. \A j \in LedgerKey : j # k => SameStage(j)
  BY <1>4, SameAtStage DEF Calm
<1>7. UNCHANGED <<now, TheMinute, TheNext, TheMarked, TheStored>>
  BY <1>1, ViewsSame DEF RefetchSame, ProducerSame
<1>8. CASE StageOf(k)' = "none"
  <2>1. Ledger!Move("this", k, "none")
    BY <1>4, <1>6, <1>8, MoveMaps
  <2>2. TheRestored' = TheRestored \/ TheRestored' = [TheRestored EXCEPT ![k] = @ + 1]
    BY <1>2, <1>4, <1>5, CountsOnce DEF TheRestored
  <2>3. Ledger!Refetch("this", k)
    BY <1>4, <1>7, <2>1, <2>2
    DEF Ledger!Refetch, TheMinute, TheNext, TheMarked, TheStored, TheRestored, Counts
  <2>4. QED
    BY <1>4, <2>3, LedgerNames DEF Ledger!ProcessStep
<1>9. CASE StageOf(k)' = "failed"
  <2>1. \A j \in LedgerKey : SameStage(j)
    BY <1>4, <1>6, <1>9 DEF SameStage
  <2>2. repushed' = repushed
    BY <1>2, <1>4, <1>9
  <2>3. Stutters
    BY <1>7, <2>1, <2>2, ViewsSame DEF Stutters
  <2>4. QED
    BY <2>3, StutterMaps
<1>10. QED
  BY <1>4, <1>8, <1>9

-----------------------------------------------------------------------------
(* The clock. *)

LEMMA ClockMaps ==
  ASSUME Calm, Clock_Step
  PROVE  Ledger!Tick
<1>1. /\ now' = now + 1 /\ now + 1 < ClockPeriod
      /\ now \in Int
  BY TaskAssumption
  DEF Clock_Step, Tick, Calm, MarkBase, SystemInv, TypeInv, TypeOK, ClockMinute
<1>2. /\ UNCHANGED <<producer_queue_, delay_task_queue, fail_task_list_, cpc, task,
                     refetch_task, pushed, repushed, fetch_map>>
      /\ SameWindow /\ NextIndex' = NextIndex
  BY DEF Clock_Step, Tick, threadVars, historyVars, SameWindow, NextIndex, InLoop
<1>3. \A k : SameAt(k)
  BY <1>2 DEF SameAt, QueuedAt, FetchingAt, MarkingAt, Marking, FailedAt, KeysOf, Key
<1>4. UNCHANGED <<TheMinute, TheNext, TheStage, TheMarked, TheStored, TheRestored>>
  BY <1>2, <1>3, SameAtStage, ViewsSame DEF Calm
<1>5. \A p, q \in {"this"} : now + 1 + [r \in {"this"} |-> DelayMin][p]
                               - [r \in {"this"} |-> DelayMin][q] < ClockPeriod
  BY <1>1, ProducerAssumption, TaskAssumption
<1>6. QED
  BY <1>1, <1>4, <1>5
  DEF Ledger!Tick, TheMinute, TheNext, TheStage, TheMarked, TheStored, TheRestored,
      Counts

-----------------------------------------------------------------------------
(* The minute of a window, and the window of a minute. *)

\* Taking a delay off a minute, and adding it again.
LEMMA ModBack ==
  ASSUME NEW P \in Nat \ {0}, NEW a \in 0 .. P - 1, NEW d \in Int
  PROVE  (((a - d) % P) + d) % P = a
<1> DEFINE x == a - d
           q == x \div P
           r == x % P
           y == r + d
           u == y \div P
           s == y % P
<1>1. x \in Int
  OBVIOUS
<1>2. q \in Int /\ r \in 0 .. P - 1 /\ x = (P * q) + r
  BY <1>1
<1>3. y \in Int
  BY <1>2
<1>4. u \in Int /\ s \in 0 .. P - 1 /\ y = (P * u) + s
  BY <1>3
<1>5. a = x + d /\ y = r + d
  BY <1>1
<1> HIDE DEF x, q, r, y, u, s
<1>6. a - s = (P * q) + (P * u)
  BY <1>1, <1>2, <1>3, <1>4, <1>5
<1>7. (P * q) + (P * u) = P * (q + u)
  BY <1>2, <1>4
<1>8. q + u < 1
  <2>1. SUFFICES ASSUME q + u >= 1 PROVE FALSE
    BY <1>2, <1>4
  <2>2. P * (q + u) >= P
    BY <1>2, <1>4, <2>1
  <2>3. QED
    BY <1>4, <1>6, <1>7, <2>2
<1>9. q + u > -1
  <2>1. SUFFICES ASSUME q + u <= -1 PROVE FALSE
    BY <1>2, <1>4
  <2>2. P * (q + u) <= -P
    BY <1>2, <1>4, <2>1
  <2>3. QED
    BY <1>4, <1>6, <1>7, <2>2
<1>10. q + u = 0
  BY <1>2, <1>4, <1>8, <1>9
<1>11. a = s
  BY <1>4, <1>6, <1>7, <1>10
<1>12. QED
  BY <1>11 DEF s, y, r, x

LEMMA MinuteOfWindow ==
  ASSUME NEW t \in ClockMinute
  PROVE  (FetchTime(t) + DelayMin) % ClockPeriod = t
  BY ModBack, TaskAssumption, ProducerAssumption DEF FetchTime, ClockMinute

\* While there is a window, FetchLedger names it as the producer does.
LEMMA WindowOfThis ==
  ASSUME Window, fetch_time_str_ \in ClockMinute
  PROVE  Ledger!WindowOf("this") = fetch_time_str_
<1>1. 0 - DelayMin \in Int /\ ClockPeriod \in Nat \ {0}
  BY TaskAssumption, ProducerAssumption
<1>2. fetch_time_str_ - (0 - DelayMin) = fetch_time_str_ + DelayMin
  BY <1>1, ProducerAssumption DEF ClockMinute
<1>3. \A x \in Int : x + (0 - DelayMin) = x - DelayMin
  BY ProducerAssumption
<1>4. (fetch_time_str_ + DelayMin) % ClockPeriod \in Int
  BY <1>1, ProducerAssumption DEF ClockMinute
<1>5. (((fetch_time_str_ + DelayMin) % ClockPeriod) - DelayMin) % ClockPeriod
        = fetch_time_str_
  <2>1. fetch_time_str_ \in 0 .. ClockPeriod - 1
    BY DEF ClockMinute
  <2>2. (((fetch_time_str_ - (0 - DelayMin)) % ClockPeriod) + (0 - DelayMin))
          % ClockPeriod = fetch_time_str_
    BY <1>1, <2>1, ModBack
  <2>3. QED
    BY <1>2, <1>3, <1>4, <2>2
<1>6. QED
  BY <1>5 DEF Ledger!WindowOf

-----------------------------------------------------------------------------
(* The producer. *)

\* The bit of an index is cleared by a master only.
MasterClears == ppc = "clear" => ~IsSlave

LEMMA MasterClearsStep ==
  ASSUME MasterClears, [SystemNext]_systemVars
  PROVE  MasterClears'
<1>1. CASE Producer_Step
  <2>1. CASE PushTaskBatch_Load
    BY <2>1 DEF PushTaskBatch_Load, MasterClears
  <2>2. CASE PushTaskBatch_Clear \/ PushTaskBatch_Slave
    BY <2>2 DEF PushTaskBatch_Clear, PushTaskBatch_Slave, PushNext, MasterClears
  <2>3. CASE ~(PushTaskBatch_Load \/ PushTaskBatch_Clear \/ PushTaskBatch_Slave)
    BY <1>1, <2>3
    DEF Producer_Step, ProducerInit, TeleProducerThread, PushTaskBatch,
        PushTaskBatch_Enter, PushTaskBatch_Return, PushTaskBatch_Broadcast,
        CheckandUpdateTask, CheckandUpdateTask_Same, CheckandUpdateTask_Moved,
        UpdateTask, MasterClears
  <2>4. QED
    BY <2>1, <2>2, <2>3
<1>2. ASSUME NEW c \in Consumer, TeleConsumerThread(c) \/ Consumer_Wakeup(c)
      PROVE  ppc' = ppc
  BY <1>2
  DEF TeleConsumerThread, Consumer_Delay, Consumer_Pop, Consumer_Wait,
      Consumer_Wakeup, Consumer_FetchFails, Consumer_FetchDropped,
      Consumer_FetchRefused, Consumer_Store, Consumer_Load, Consumer_SetBit,
      GetTask_Pop, GetTask_Wait, GetTask_Wakeup, SetIdentityError, ShmWrite,
      producerVars
<1>3. CASE TeleConsumerRefetchThread \/ Clock_Step \/ UNCHANGED systemVars
  <2>1. ppc' = ppc
    BY <1>3
    DEF TeleConsumerRefetchThread, GetFailTask, Refetch_Fails, Refetch_Dropped,
        Refetch_Store, RefetchUnchanged, Clock_Step, Tick, systemVars, producerVars
  <2>2. QED
    BY <2>1 DEF MasterClears
<1>4. QED
  BY <1>1, <1>2, <1>3 DEF SystemNext, MasterClears

LEMMA MasterClearsCorrect == SystemSafeSpec => []MasterClears
<1>1. SystemInit => MasterClears
  BY DEF SystemInit, Init, MasterClears
<1>2. MasterClears /\ [SystemNext]_systemVars => MasterClears'
  BY MasterClearsStep
<1>3. QED
  BY <1>1, <1>2, PTL DEF SystemSafeSpec

\* What it does to its own program counter and locals is not seen.
LEMMA ProducerQuietMaps ==
  ASSUME Calm, Producer_Step,
         \/ ProducerInit \/ PushTaskBatch_Enter \/ PushTaskBatch_Load
         \/ PushTaskBatch_Return \/ PushTaskBatch_Broadcast
         \/ CheckandUpdateTask_Same \/ CheckandUpdateTask_Moved
  PROVE  UNCHANGED Ledger!ledgerVars
<1>1. /\ UNCHANGED <<now, producer_queue_, fetch_map>> /\ SameWindow
      /\ UNCHANGED <<threadVars, pushed, repushed>>
  BY DEF ProducerInit, PushTaskBatch_Enter, PushTaskBatch_Load,
         PushTaskBatch_Return, PushTaskBatch_Broadcast, CheckandUpdateTask_Same,
         CheckandUpdateTask_Moved, Producer_Step, SameWindow
<1>2. NextIndex' = NextIndex
  <2>1. CASE PushTaskBatch_Return
    BY <2>1
    DEF PushTaskBatch_Return, Calm, MarkBase, SystemInv, TypeInv, IndexReady,
        NextIndex, InLoop
  <2>2. CASE ~PushTaskBatch_Return
    BY <2>2
    DEF ProducerInit, PushTaskBatch_Enter, PushTaskBatch_Load,
        PushTaskBatch_Broadcast, CheckandUpdateTask_Same,
        CheckandUpdateTask_Moved, NextIndex, InLoop
  <2>3. QED
    BY <2>1, <2>2
<1>3. \A k : SameAt(k)
  BY <1>1
  DEF SameAt, QueuedAt, FetchingAt, MarkingAt, Marking, FailedAt, KeysOf, Key,
      threadVars
<1>4. QED
  BY <1>1, <1>2, <1>3, StillMaps DEF ProducerSame

\* The index PushTaskBatch is at, as FetchLedger sees it.
InBatchAt == InLoop /\ i < MAX_FETCH_INDEX

LEMMA IndexOfThis ==
  ASSUME SystemInv, InBatchAt
  PROVE  /\ Window /\ fetch_time_str_ \in ClockMinute /\ i \in Index
         /\ NextIndex = i /\ TheNext["this"] = i
         /\ Ledger!NextKey("this") = <<fetch_time_str_, i>>
         /\ Ledger!MapBit(<<fetch_time_str_, i>>) = <<MinuteIndex, i>>
         /\ <<fetch_time_str_, i>> \in LedgerKey
<1>1. Window /\ fetch_time_str_ \in ClockMinute
  BY DEF InBatchAt, SystemInv, TypeInv, TypeOK, IndexReady, Window
<1>2. i \in Index
  BY <1>1, MatAssumption
  DEF InBatchAt, SystemInv, TypeInv, TypeOK, IndexReady, Index
<1>3. NextIndex = i /\ TheNext["this"] = i
  BY <1>1 DEF InBatchAt, NextIndex, TheNext
<1>4. Ledger!NextKey("this") = <<fetch_time_str_, i>>
  BY <1>1, <1>3, WindowOfThis DEF Ledger!NextKey, TheNext
<1>5. Ledger!MapBit(<<fetch_time_str_, i>>) = <<MinuteIndex, i>>
  BY DEF Ledger!MapBit, MinuteIndex
<1>6. i \in 0 .. EXTRA_END - 1
  BY <1>2, MatAssumption, ConsumerAssumption DEF Index
<1>7. QED
  BY <1>1, <1>2, <1>3, <1>4, <1>5, <1>6 DEF LedgerKey

LEMMA PushNextMaps ==
  ASSUME Calm, InBatchAt, PushNext, SameWindow, index_' = index_,
         UNCHANGED <<threadVars, pushed, repushed>>
  PROVE  Ledger!PushTask("this")
<1>0. PICK k : k = <<fetch_time_str_, i>>
  OBVIOUS
<1>1. /\ Window /\ i \in Index /\ NextIndex = i /\ TheNext["this"] = i
      /\ Ledger!NextKey("this") = k /\ k \in LedgerKey
  BY <1>0, IndexOfThis DEF Calm, MarkBase
<1>2. CASE /\ producer_queue_' = Append(producer_queue_, NewTask)
           /\ ppc' = "loop" /\ i' = i + 1
  <2>1. NextIndex' = i + 1
    BY <1>2 DEF NextIndex, InLoop
  <2>2. TheNext' = [TheNext EXCEPT !["this"] = @ + 1]
    BY <1>1, <2>1 DEF TheNext, Window, SameWindow
  <2>3. Key(NewTask) = k
    BY <1>0, NewTaskFields DEF Key
  <2>4. \A p \in Place : k \notin Held[p]
    <3>1. k[1] = fetch_time_str_ /\ k[2] = i
      BY <1>0
    <3>2. k \notin Fitting
      BY <1>1, <3>1, MatAssumption DEF Fitting, Index
    <3>3. QED
      BY <3>2 DEF Calm, MarkBase, OwnerInv, Fits
  <2>5. KeysOf(producer_queue_') = KeysOf(producer_queue_) \cup {k}
    <3>1. NewTask \in QueuedTask /\ producer_queue_ \in Seq(QueuedTask)
      BY NewTaskType DEF InBatchAt, Calm, MarkBase, SystemInv, TypeInv, TypeOK
    <3>2. k \notin KeysOf(producer_queue_) /\ Distinct(producer_queue_)
      BY <2>4, HeldViews, Places
      DEF Views, Calm, MarkBase, OwnerInv, DistinctKeys
    <3>3. QED
      BY <1>2, <2>3, <3>1, <3>2, KeysOfAppend
  <2>6. \A j : j # k => SameAt(j)
    BY <2>5
    DEF SameAt, QueuedAt, FetchingAt, MarkingAt, Marking, FailedAt, KeysOf, Key,
        threadVars
  <2>7. StageOf(k)' = "queued"
    <3>1. QueuedAt(k)'
      BY <2>5 DEF QueuedAt, KeysOf, Key
    <3>2. QED
      BY <3>1 DEF Calm, StageView
  <2>8. \A j \in LedgerKey : j # k => SameStage(j)
    BY <2>6, SameAtStage DEF Calm
  <2>9. Ledger!Move("this", k, "queued")
    BY <1>1, <2>7, <2>8, MoveMaps
  <2>10. QED
    BY <1>1, <2>2, <2>9 DEF Ledger!PushTask, TheNext
<1>3. CASE producer_queue_' = producer_queue_ /\ ppc' = "full" /\ i' = i
  <2>1. NextIndex' = NextIndex
    BY <1>1, <1>3 DEF NextIndex, InLoop
  <2>2. \A j : SameAt(j)
    BY <1>3
    DEF SameAt, QueuedAt, FetchingAt, MarkingAt, Marking, FailedAt, KeysOf, Key,
        threadVars
  <2>3. UNCHANGED <<TheNext, TheStage>>
    BY <2>1, <2>2, SameAtStage, ViewsSame DEF Calm
  <2>4. QED
    BY <2>3 DEF Ledger!PushTask, TheNext, TheStage
<1>4. QED
  BY <1>2, <1>3 DEF PushNext, PushTask

\* The master clears the bit of its index, and no other, and queues the key.
LEMMA ClearMaps ==
  ASSUME Calm, MasterClears, Producer_Step, PushTaskBatch_Clear
  PROVE  Ledger!ProcessStep("this")
<1>1. /\ PushNext /\ SameWindow /\ index_' = index_ /\ now' = now /\ ~IsSlave
      /\ UNCHANGED <<threadVars, pushed, repushed>>
  BY DEF PushTaskBatch_Clear, Producer_Step, SameWindow, MasterClears
<1>2. InBatchAt
  BY DEF PushTaskBatch_Clear, InBatchAt, InLoop, Calm, MarkBase, SystemInv,
         TypeInv, IndexReady
<1>3. Ledger!PushTask("this")
  BY <1>1, <1>2, PushNextMaps
<1>4. /\ TheNext["this"] \in Index
      /\ Ledger!MapBit(Ledger!NextKey("this")) = <<MinuteIndex, i>>
  BY <1>2, IndexOfThis DEF Calm, MarkBase
<1>5. Ledger!StoreBit(Ledger!MapBit(Ledger!NextKey("this")), 0)
  <2>1. /\ MinuteIndex \in Minute /\ i \in Index
        /\ ~IS_SET(fetch_map', MinuteIndex, i)
        /\ \A r \in Minute, k \in Index :
             \/ IS_SET(fetch_map', r, k) <=> IS_SET(fetch_map, r, k)
             \/ r = MinuteIndex /\ WordOf(k) = WordOf(i)
    BY ClearStores DEF Calm
  <2>2. PICK m, j : m = MinuteIndex /\ j = i
    OBVIOUS
  <2>3. /\ m \in Minute /\ j \in Index
        /\ ~IS_SET(fetch_map', m, j)
        /\ \A r \in Minute, k \in Index :
             \/ IS_SET(fetch_map', r, k) <=> IS_SET(fetch_map, r, k)
             \/ r = m /\ WordOf(k) = WordOf(j)
    BY <2>1, <2>2
  <2>4. \E stale \in SUBSET (Ledger!WordOf(<<m, j>>) \ {<<m, j>>}) :
          TheMarked' = (TheMarked \ Ledger!WordOf(<<m, j>>)) \cup stale
                         \cup (IF 0 = 1 THEN {<<m, j>>} ELSE {})
    BY <2>3, StoreMapsBit
  <2>5. QED
    BY <1>4, <2>2, <2>4 DEF Ledger!StoreBit, TheMarked
<1>6. UNCHANGED <<now, TheMinute, TheStored, TheRestored>>
  BY <1>1, ViewsSame
<1>7. Ledger!MasterQueues("this")
  BY <1>1, <1>3, <1>4, <1>5, <1>6, LedgerNames
  DEF Ledger!MasterQueues, TheMinute, TheNext, TheMarked, TheStored, TheRestored, Counts
<1>8. QED
  BY <1>7 DEF Ledger!ProcessStep

\* The slave queues the key, or passes over an index whose bit is set.
LEMMA SlaveMaps ==
  ASSUME Calm, Producer_Step, PushTaskBatch_Slave
  PROVE  Ledger!ProcessStep("this")
<1>1. /\ SameWindow /\ index_' = index_ /\ now' = now /\ IsSlave
      /\ fetch_map' = fetch_map
      /\ UNCHANGED <<threadVars, pushed, repushed>>
  BY DEF PushTaskBatch_Slave, Producer_Step, SameWindow
<1>2. InBatchAt
  BY DEF PushTaskBatch_Slave, InBatch, InBatchAt, InLoop
<1>3. /\ TheNext["this"] \in Index /\ TheNext["this"] = i /\ NextIndex = i
      /\ Ledger!MapBit(Ledger!NextKey("this")) = <<MinuteIndex, i>>
      /\ Window
  BY <1>2, IndexOfThis DEF Calm, MarkBase
<1>4. <<MinuteIndex, i>> \in TheMarked <=> IS_SET(fetch_map, MinuteIndex, i)
  <2>1. i \in Index /\ fetch_time_str_ \in Int
    BY <1>2, IndexOfThis DEF Calm, MarkBase, ClockMinute
  <2>2. MinuteIndex \in Minute
    BY <2>1, MinuteIndexRange
  <2>3. QED
    BY <2>1, <2>2 DEF TheMarked
<1>5. UNCHANGED <<now, TheMinute, TheMarked, TheStored, TheRestored>>
  BY <1>1, ViewsSame
<1>6. CASE IS_SET(fetch_map, MinuteIndex, i)
  <2>1. i' = i + 1 /\ UNCHANGED <<ppc, producer_queue_>>
    BY <1>6 DEF PushTaskBatch_Slave
  <2>2. TheNext' = [TheNext EXCEPT !["this"] = @ + 1]
    <3>1. NextIndex' = i + 1
      BY <1>2, <2>1 DEF NextIndex, InLoop, InBatchAt
    <3>2. QED
      BY <1>1, <1>3, <3>1 DEF TheNext, Window, SameWindow
  <2>3. \A j : SameAt(j)
    BY <1>1, <2>1
    DEF SameAt, QueuedAt, FetchingAt, MarkingAt, Marking, FailedAt, KeysOf, Key,
        threadVars
  <2>4. TheStage' = TheStage
    BY <2>3, SameAtStage, ViewsSame DEF Calm
  <2>5. Ledger!SlaveSkips("this")
    BY <1>1, <1>3, <1>4, <1>5, <1>6, <2>2, <2>4, LedgerNames
    DEF Ledger!SlaveSkips, TheMinute, TheNext, TheStage, TheMarked, TheStored,
        TheRestored, Counts
  <2>6. QED
    BY <2>5 DEF Ledger!ProcessStep
<1>7. CASE ~IS_SET(fetch_map, MinuteIndex, i)
  <2>1. PushNext
    BY <1>7 DEF PushTaskBatch_Slave
  <2>2. Ledger!PushTask("this")
    BY <1>1, <1>2, <2>1, PushNextMaps
  <2>3. Ledger!SlaveQueues("this")
    BY <1>1, <1>3, <1>4, <1>5, <1>7, <2>2, LedgerNames
    DEF Ledger!SlaveQueues, TheMinute, TheNext, TheMarked, TheStored,
        TheRestored, Counts
  <2>4. QED
    BY <2>3 DEF Ledger!ProcessStep
<1>8. QED
  BY <1>6, <1>7

\* The keys of the queues tell whose they are.
LEMMA QueueKeys ==
  ASSUME SystemInv, NEW k
  PROVE  /\ k \in KeysOf(producer_queue_) => k[2] \in Index
         /\ \A c \in Consumer : k \in KeysOf(delay_task_queue[c]) => k[2] \notin Index
<1>1. ASSUME k \in KeysOf(producer_queue_)
      PROVE  k[2] \in Index
  <2>1. PICK j \in 1 .. Len(producer_queue_) : k = Key(producer_queue_[j])
    BY <1>1 DEF KeysOf
  <2>2. producer_queue_[j] \in QueuedTask
    BY DEF SystemInv, TypeInv, TypeOK
  <2>3. producer_queue_[j].index \in Index
    BY <2>2 DEF QueuedTask
  <2>4. QED
    BY <2>1, <2>3 DEF Key
<1>2. ASSUME NEW c \in Consumer, k \in KeysOf(delay_task_queue[c])
      PROVE  k[2] \notin Index
  <2>1. PICK j \in 1 .. Len(delay_task_queue[c]) : k = Key(delay_task_queue[c][j])
    BY <1>2 DEF KeysOf
  <2>2. delay_task_queue[c] \in Seq(ExtraTask)
    BY DEF SystemInv, ThreadInv, ThreadTypes
  <2>3. delay_task_queue[c][j] \in ExtraTask
    BY <2>2
  <2>4. delay_task_queue[c][j].index >= MAX_FETCH_INDEX
    BY <2>3 DEF ExtraTask
  <2>5. QED
    BY <2>1, <2>4, MatAssumption DEF Key, Index
<1>3. QED
  BY <1>1, <1>2

\* A new window: the producer's queue is emptied, no other place is.
LEMMA OpenMaps ==
  ASSUME Calm, Producer_Step, NEW answer \in TokenAnswer, UpdateTask(answer)
  PROVE  Ledger!ProcessStep("this")
<1>1. /\ producer_queue_' = <<>> /\ fetch_time_str_' = FetchTime(current_min)
      /\ index_' = 0 /\ ppc = "update" /\ ppc' = "enter"
      /\ UNCHANGED <<now, fetch_map, threadVars, pushed, repushed>>
  BY DEF UpdateTask, OpenWindow, Producer_Step
<1>2. PICK t : t = current_min
  OBVIOUS
<1>3. PICK L \in Int : Minutes(L)
  BY DEF Calm, MarkBase, OwnerInv, WindowsKnown
<1>4. t \in ClockMinute /\ L < t /\ t <= now /\ now \in ClockMinute /\ -1 <= L
  BY <1>1, <1>2, <1>3 DEF Minutes, Calm, MarkBase, SystemInv, TypeInv, TypeOK
<1>5. TheMinute["this"] = L
  <2>1. CASE Window
    <3>1. fetch_time_str_ = FetchTime(L) /\ L >= 0
      BY <1>3, <2>1 DEF Minutes
    <3>2. L \in ClockMinute
      BY <1>4, <3>1, TaskAssumption DEF ClockMinute
    <3>3. (fetch_time_str_ + DelayMin) % ClockPeriod = L
      BY <3>1, <3>2, MinuteOfWindow
    <3>4. QED
      BY <2>1, <3>3 DEF TheMinute
  <2>2. CASE ~Window
    BY <1>3, <2>2 DEF Minutes, TheMinute
  <2>3. QED
    BY <2>1, <2>2
<1>6. Window'
  BY <1>1, <1>2, <1>4, FetchTimeRange DEF ClockMinute, Window, NoTime
<1>7. TheMinute' = [TheMinute EXCEPT !["this"] = t]
  <2>1. fetch_time_str_' = FetchTime(t)
    BY <1>1, <1>2
  <2>2. (fetch_time_str_' + DelayMin) % ClockPeriod = t
    BY <1>4, <2>1, MinuteOfWindow
  <2>3. QED
    BY <1>6, <2>2 DEF TheMinute
<1>8. TheNext' = [TheNext EXCEPT !["this"] = 0]
  BY <1>1, <1>6 DEF TheNext, NextIndex, InLoop
<1>9. \A k \in LedgerKey :
        StageOf(k)' = IF StageOf(k) = "queued" /\ k[2] \in Index THEN "none"
                                                                 ELSE StageOf(k)
  <2>1. SUFFICES ASSUME NEW k \in LedgerKey
                 PROVE  StageOf(k)' = IF StageOf(k) = "queued" /\ k[2] \in Index
                                      THEN "none" ELSE StageOf(k)
    OBVIOUS
  <2>2. /\ k \in KeysOf(producer_queue_) => k[2] \in Index
        /\ \A c \in Consumer : k \in KeysOf(delay_task_queue[c]) => k[2] \notin Index
    BY QueueKeys DEF Calm, MarkBase
  <2>3. KeysOf(producer_queue_') = {}
    BY <1>1 DEF KeysOf
  <2>4. /\ FetchingAt(k)' <=> FetchingAt(k)
        /\ MarkingAt(k)' <=> MarkingAt(k)
        /\ FailedAt(k)' <=> FailedAt(k)
    BY <1>1 DEF FetchingAt, MarkingAt, Marking, FailedAt, KeysOf, Key, threadVars
  <2>5. QueuedAt(k)' <=> QueuedAt(k) /\ k[2] \notin Index
    <3>1. QueuedAt(k)' <=> \E c \in Consumer : k \in KeysOf(delay_task_queue[c])
      BY <1>1, <2>3 DEF QueuedAt, KeysOf, Key, threadVars
    <3>2. QED
      BY <2>2, <3>1 DEF QueuedAt
  <2>6. StageOf(k) = "queued" <=> QueuedAt(k)
    BY DEF Calm, StageView, OneStage
  <2>7. CASE QueuedAt(k) /\ k[2] \in Index
    <3>1. ~QueuedAt(k)' /\ ~FetchingAt(k)' /\ ~MarkingAt(k)' /\ ~FailedAt(k)'
      BY <2>4, <2>5, <2>7 DEF Calm, OneStage
    <3>2. QED
      BY <2>6, <2>7, <3>1 DEF Calm, StageView
  <2>8. CASE ~(QueuedAt(k) /\ k[2] \in Index)
    <3>1. SameAt(k)
      BY <2>4, <2>5, <2>8 DEF SameAt
    <3>2. QED
      BY <2>6, <2>8, <3>1, SameAtStage DEF Calm, SameStage
  <2>9. QED
    BY <2>7, <2>8
<1>10. TheStage' = [TheStage EXCEPT !["this"] =
         [k \in LedgerKey |->
            IF @[k] = "queued" /\ k[2] \in Index THEN "none" ELSE @[k]]]
  BY <1>9 DEF TheStage
<1>11. UNCHANGED <<now, TheMarked, TheStored, TheRestored>>
  BY <1>1, ViewsSame
<1>12. t \in TheMinute["this"] + 1 .. now
  BY <1>4, <1>5 DEF ClockMinute
<1>13. Ledger!Open("this", t)
  BY <1>7, <1>8, <1>10, <1>11, <1>12, LedgerNames
  DEF Ledger!Open, TheMinute, TheNext, TheStage, TheMarked, TheStored,
      TheRestored, Counts
<1>14. t \in Ledger!Window
  BY <1>4 DEF Ledger!Window, ClockMinute
<1>15. QED
  BY <1>13, <1>14 DEF Ledger!ProcessStep

-----------------------------------------------------------------------------
(* The refinement. *)

LedgerStepOf == [Ledger!LedgerNext]_(Ledger!ledgerVars)

LEMMA LedgerInitMaps ==
  ASSUME SystemInit
  PROVE  Ledger!LedgerInit
<1>1. /\ now = 0 /\ fetch_time_str_ = NoTime /\ producer_queue_ = <<>>
      /\ fail_task_list_ = <<>> /\ refetch_task = NoTask
      /\ pushed = {} /\ repushed = {}
      /\ cpc = [c \in Consumer |-> "get"]
      /\ delay_task_queue = [c \in Consumer |-> <<>>]
  BY DEF SystemInit, Init
<1>2. TheMinute = [p \in {"this"} |-> -1] /\ TheNext = [p \in {"this"} |-> -1]
  BY <1>1 DEF TheMinute, TheNext, Window
<1>3. \A k : StageOf(k) = "none"
  <2>1. KeysOf(<<>>) = {}
    BY DEF KeysOf
  <2>2. \A k : ~QueuedAt(k) /\ ~FetchingAt(k) /\ ~MarkingAt(k) /\ ~FailedAt(k)
    BY <1>1, <2>1 DEF QueuedAt, FetchingAt, MarkingAt, Marking, FailedAt
  <2>3. OneStage
    BY <2>2 DEF OneStage
  <2>4. QED
    BY <2>2, <2>3, StageViewHolds DEF StageView
<1>4. /\ TheStored = [k \in LedgerKey |-> 0]
      /\ TheRestored = [k \in LedgerKey |-> 0]
  BY <1>1 DEF TheStored, TheRestored, Counts
<1>5. TheStage = [p \in {"this"} |-> [k \in LedgerKey |-> "none"]]
  BY <1>3 DEF TheStage
<1>6. TheMarked \in SUBSET ((0 .. ONE_DAY_MINUTE - 1) \X Ledger!Index)
  BY LedgerNames DEF TheMarked, Minute
<1>7. QED
  BY <1>1, <1>2, <1>4, <1>5, <1>6, LedgerNames
  DEF Ledger!LedgerInit, Ledger!NoIndex, TheMinute, TheNext, TheStage, TheMarked,
      TheStored, TheRestored, Counts

LEMMA LedgerStep ==
  ASSUME IsFiniteSet(Consumer), MarkBase, MarkBase', MasterClears,
         [SystemNext]_systemVars
  PROVE  LedgerStepOf
<1>1. Calm
  BY OneStageHolds, OneStageNext, StageViewHolds, StageViewNext DEF Calm, MarkBase
<1>2. Ledger!ProcessStep("this") \/ Ledger!Tick \/ UNCHANGED Ledger!ledgerVars
      => LedgerStepOf
  BY DEF LedgerStepOf, Ledger!LedgerNext
<1>3. CASE Producer_Step
  BY <1>1, <1>2, <1>3, ProducerQuietMaps, ClearMaps, SlaveMaps, OpenMaps
  DEF Producer_Step, TeleProducerThread, PushTaskBatch, CheckandUpdateTask
<1>4. ASSUME NEW c \in Consumer, TeleConsumerThread(c) \/ Consumer_Wakeup(c)
      PROVE  LedgerStepOf
  BY <1>1, <1>2, <1>4, DelayMaps, PopMaps, QuietMaps, FailsMaps, StoreMaps, SetBitMaps
  DEF TeleConsumerThread
<1>5. CASE TeleConsumerRefetchThread
  BY <1>1, <1>2, <1>5, GetFailMaps, RefetchMaps DEF TeleConsumerRefetchThread
<1>6. CASE Clock_Step
  BY <1>1, <1>2, <1>6, ClockMaps
<1>7. CASE UNCHANGED systemVars
  <2>1. UNCHANGED <<now, producer_queue_, delay_task_queue, fail_task_list_, cpc,
                    task, refetch_task, pushed, repushed, fetch_map,
                    fetch_time_str_, ppc, i, index_>>
    BY <1>7 DEF systemVars, producerVars, threadVars, historyVars
  <2>2. ProducerSame /\ \A k : SameAt(k)
    BY <2>1
    DEF ProducerSame, SameWindow, NextIndex, InLoop, SameAt, QueuedAt, FetchingAt,
        MarkingAt, Marking, FailedAt, KeysOf, Key
  <2>3. QED
    BY <1>1, <1>2, <2>1, <2>2, StillMaps
<1>8. QED
  BY <1>3, <1>4, <1>5, <1>6, <1>7 DEF SystemNext

(* A process implements FetchLedger, whatever the words of the map hold:   *)
(* each step of a thread is one of FetchLedger's on one key, or none, and  *)
(* the updates it loses by storing a word it loaded before are of that     *)
(* word.                                                                   *)
THEOREM ProcessImplementsLedger ==
  ASSUME IsFiniteSet(Consumer)
  PROVE  SystemSafeSpec => ImplementsLedger
<1>1. SystemInit => Ledger!LedgerInit
  BY LedgerInitMaps
<1>2. MarkBase /\ MarkBase' /\ MasterClears /\ [SystemNext]_systemVars => LedgerStepOf
  BY LedgerStep
<1>3. MarkBase /\ MarkBase' /\ MasterClears /\ [SystemNext]_systemVars
      => [Ledger!LedgerNext]_(Ledger!ledgerVars)
  BY <1>2 DEF LedgerStepOf
<1>4. SystemSafeSpec =>
        Ledger!LedgerInit /\ [][Ledger!LedgerNext]_(Ledger!ledgerVars)
  BY <1>1, <1>3, MarkBaseCorrect, MasterClearsCorrect, PTL DEF SystemSafeSpec
<1>5. QED
  BY <1>4 DEF ImplementsLedger, Ledger!LedgerSpec

-----------------------------------------------------------------------------
(* The process among others. *)

\* What others store in the map is all that their steps change.
LEMMA OthersStep ==
  ASSUME MarkBase, Others_Store
  PROVE  /\ UNCHANGED <<now, ppc, waiting, producer_queue_, index_,
                        fetch_time_str_, old_tm_min, current_min, i, token,
                        threadVars, historyVars>>
         /\ [Next]_producerVars
         /\ \E m \in Minute, j \in Index, w \in Word :
              fetch_map' = StoreWord(fetch_map, m, j, w)
  BY DEF Others_Store, ShmWrite, Next

LEMMA OthersKeepOwner ==
  ASSUME MarkBase, Others_Store
  PROVE  OwnerInv'
<1>1. UNCHANGED <<now, ppc, producer_queue_, index_, fetch_time_str_, old_tm_min,
                  current_min, i, cpc, task, delay_task_queue, fail_task_list_,
                  refetch_task, pushed, repushed>>
  BY OthersStep DEF threadVars, historyVars
<1>2. Held' = Held
  BY <1>1 DEF Held, KeysOf, Key
<1>3. Apart' /\ DistinctKeys' /\ MarksApart'
  BY <1>1, <1>2
  DEF MarkBase, OwnerInv, Apart, DistinctKeys, Distinct, MarksApart, Marking, Key
<1>4. Fitting' = Fitting
  BY <1>1 DEF Fitting, NextIndex, InLoop, Marking, Key
<1>5. Fits'
  BY <1>2, <1>4 DEF MarkBase, OwnerInv, Fits
<1>6. \A L \in Int : Minutes(L)' <=> Minutes(L)
  BY <1>1 DEF Minutes, Window
<1>7. WindowsKnown'
  BY <1>2, <1>6 DEF MarkBase, OwnerInv, WindowsKnown, Opened
<1>8. QED
  BY <1>3, <1>5, <1>7 DEF OwnerInv

LEMMA OthersKeepBase ==
  ASSUME MarkBase, MasterClears, Others_Store
  PROVE  MarkBase' /\ MasterClears'
<1>1. TypeInv' /\ QueueOfWindow'
  BY OthersStep, TypeStep, QueueOfWindowStep DEF MarkBase, SystemInv
<1>2. ThreadInv'
  <2>1. spoiled \subseteq Minute \X Index
    BY DEF MarkBase, SystemInv, ThreadInv, HistoryTypes
  <2>2. QED
    BY <2>1, OthersStep, OthersKeep DEF MarkBase, historyVars
<1>3. HandsOK' /\ MasterClears'
  BY OthersStep DEF MarkBase, HandsOK, MasterClears, threadVars
<1>4. QED
  BY <1>1, <1>2, <1>3, OthersKeepOwner DEF MarkBase, SystemInv

\* The word is stored as that of any of its bits, with the value it has there.
LEMMA OthersMap ==
  ASSUME Calm, Others_Store
  PROVE  Ledger!OthersStore
<1>1. PICK m \in Minute, j \in Index, w \in Word :
        fetch_map' = StoreWord(fetch_map, m, j, w)
  BY OthersStep DEF Calm
<1>2. PICK value \in {0, 1} : value = 1 <=> BitOf(j) \in w
  <2>1. CASE BitOf(j) \in w
    BY <2>1
  <2>2. CASE BitOf(j) \notin w
    BY <2>2
  <2>3. QED
    BY <2>1, <2>2
<1>3. \A r \in Minute, k \in Index :
        LoadWord(fetch_map', r, k) =
          IF r = m /\ WordOf(k) = WordOf(j) THEN w ELSE LoadWord(fetch_map, r, k)
  <2>1. fetch_map \in FetchMap
    BY DEF Calm, MarkBase, SystemInv, TypeInv, TypeOK
  <2>2. \A k \in Index : WordOf(k) \in 0 .. MAX_INDEX - 1
    BY WordRange
  <2>3. QED
    BY <1>1, <2>1, <2>2 DEF LoadWord, StoreWord, FetchMap
<1>4. /\ IS_SET(fetch_map', m, j) <=> value = 1
      /\ \A r \in Minute, k \in Index :
           \/ IS_SET(fetch_map', r, k) <=> IS_SET(fetch_map, r, k)
           \/ r = m /\ WordOf(k) = WordOf(j)
  BY <1>2, <1>3 DEF IS_SET
<1>5. \E stale \in SUBSET (Ledger!WordOf(<<m, j>>) \ {<<m, j>>}) :
        TheMarked' = (TheMarked \ Ledger!WordOf(<<m, j>>)) \cup stale
                       \cup (IF value = 1 THEN {<<m, j>>} ELSE {})
  BY <1>4, StoreMapsBit
<1>6. Ledger!StoreBit(<<m, j>>, value)
  BY <1>5 DEF Ledger!StoreBit, TheMarked
<1>7. UNCHANGED <<now, TheMinute, TheNext, TheStage, TheStored, TheRestored>>
  <2>1. UNCHANGED <<now, ppc, producer_queue_, index_, fetch_time_str_, i, cpc,
                    task, delay_task_queue, fail_task_list_, refetch_task, pushed,
                    repushed>>
    BY OthersStep DEF Calm, threadVars, historyVars
  <2>2. SameWindow /\ NextIndex' = NextIndex
    BY <2>1 DEF SameWindow, NextIndex, InLoop
  <2>3. \A k : SameAt(k)
    BY <2>1 DEF SameAt, QueuedAt, FetchingAt, MarkingAt, Marking, FailedAt, KeysOf, Key
  <2>4. \A k \in LedgerKey : SameStage(k)
    BY <2>3, SameAtStage DEF Calm
  <2>5. QED
    BY <2>1, <2>2, <2>4, ViewsSame
<1>8. <<m, j>> \in (0 .. ONE_DAY_MINUTE - 1) \X Ledger!Index
  BY LedgerNames DEF Minute
<1>9. QED
  BY <1>6, <1>7, <1>8
  DEF Ledger!OthersStore, TheMinute, TheNext, TheStage, TheStored, TheRestored,
      Counts

LEMMA AmongOthersInit == SystemInit => MarkBase /\ MasterClears
  BY SystemInvInit, OwnerInvInit
  DEF SystemInit, Init, MarkBase, QueueOfWindow, HandsOK, MasterClears

LEMMA AmongOthersStep ==
  MarkBase /\ MasterClears /\ [SystemNext \/ Others_Store]_systemVars
    => MarkBase' /\ MasterClears'
<1>1. MarkBase /\ MasterClears /\ [SystemNext]_systemVars => MarkBase' /\ MasterClears'
  BY SystemInvStep, OwnerInvStep, QueueOfWindowStep, HandsStep, ProducerPart,
     MasterClearsStep
  DEF MarkBase, SystemInv
<1>2. QED
  BY <1>1, OthersKeepBase

LEMMA AmongOthersBase == AmongOthersSpec => [](MarkBase /\ MasterClears)
  BY AmongOthersInit, AmongOthersStep, PTL DEF AmongOthersSpec

(* Whatever is stored in the map between any two steps of a process, also  *)
(* between its load of a word and its store: its tasks have one owner, its *)
(* delay queues are whole, and no extra task comes before the last index.  *)
THEOREM ProcessSafeAmongOthers ==
  AmongOthersSpec => [](SystemTypeOK /\ OneOwner /\ DelayWhole /\ ExtraAfterLast)
<1>1. MarkBase => SystemTypeOK /\ OneOwner /\ DelayWhole /\ ExtraAfterLast
  BY SystemInvTypes, OwnerInvIsOne, ExtraFollowsIsAfter
  DEF MarkBase, SystemInv, ThreadInv
<1>2. QED
  BY <1>1, AmongOthersBase, PTL

(* And a process among others does what FetchLedger says that one of       *)
(* several processes over a map does: every step of its threads is one of  *)
(* FetchLedger's, from the map as the others left it.                      *)
THEOREM ProcessImplementsLedgerAmongOthers ==
  ASSUME IsFiniteSet(Consumer)
  PROVE  AmongOthersSpec => ImplementsLedgerAmongOthers
<1>1. SystemInit => Ledger!LedgerInit
  BY LedgerInitMaps
<1>2. MarkBase /\ MarkBase' /\ MasterClears /\ [SystemNext \/ Others_Store]_systemVars
        => [Ledger!LedgerNext \/ Ledger!OthersStore]_(Ledger!ledgerVars)
  <2>1. ASSUME MarkBase, MarkBase', Others_Store
        PROVE  Ledger!OthersStore
    BY <2>1, OthersMap, OneStageHolds, OneStageNext, StageViewHolds, StageViewNext
    DEF Calm, MarkBase
  <2>2. QED
    BY <2>1, LedgerStep DEF LedgerStepOf
<1>3. AmongOthersSpec =>
        Ledger!LedgerInit
          /\ [][Ledger!LedgerNext \/ Ledger!OthersStore]_(Ledger!ledgerVars)
  BY <1>1, <1>2, AmongOthersBase, PTL DEF AmongOthersSpec
<1>4. QED
  BY <1>3 DEF ImplementsLedgerAmongOthers, Ledger!AmongOthersSpec

=============================================================================
