-------------------------- MODULE TeleTaskOwnerProofs --------------------------
(***************************************************************************)
(* Proof of OneOwner of TeleTaskConsumer, for every number of consumers    *)
(* and every value of the other constants: a task is in one place at a     *)
(* time, and no value of a window is pushed twice by one process.          *)
(*                                                                         *)
(* The places a key can be in, what was pushed among them, are disjoint.   *)
(* A step takes a key from one place to another, forgets some, or brings   *)
(* new ones.  New keys are no one else's because the producer's next index *)
(* is above those of its window, a window is opened once, and the extra    *)
(* tasks of a window come from the one thread that marks its last index.   *)
(***************************************************************************)
EXTENDS TeleTaskConsumerProofs

-----------------------------------------------------------------------------
(* Places and the keys they hold. *)

KeysOf(q) == {Key(q[k]) : k \in 1 .. Len(q)}

Distinct(q) == \A j, k \in 1 .. Len(q) : Key(q[j]) = Key(q[k]) => j = k

Queue    == <<"queue", 0>>
FailList == <<"fail", 0>>
Refetch  == <<"refetch", 0>>
Pushed   == <<"pushed", 0>>
Repushed == <<"repushed", 0>>
Hand(c)  == <<"fetch", c>>
DelayOf(c) == <<"delay", c>>

Place ==
  {Queue, FailList, Refetch, Pushed, Repushed}
    \cup {Hand(c) : c \in Consumer} \cup {DelayOf(c) : c \in Consumer}

Held ==
  [p \in Place |->
     CASE p[1] = "queue"    -> KeysOf(producer_queue_)
       [] p[1] = "fail"     -> KeysOf(fail_task_list_)
       [] p[1] = "refetch"  -> IF refetch_task = NoTask THEN {} ELSE {Key(refetch_task)}
       [] p[1] = "pushed"   -> pushed
       [] p[1] = "repushed" -> repushed
       [] p[1] = "fetch"    -> IF cpc[p[2]] = "fetch" THEN {Key(task[p[2]])} ELSE {}
       [] p[1] = "delay"    -> KeysOf(delay_task_queue[p[2]])]

Marking(c) == cpc[c] \in {"load", "store"}

LastKey(w) == <<w, MAX_FETCH_INDEX - 1>>

\* A key that may be anywhere: below the next index of its window; if it is
\* extra, after the last index of its window, whose mark has been set.
Fitting ==
  {k \in SystemKey :
     /\ k[1] = fetch_time_str_ /\ k[2] \in Index => k[2] < NextIndex
     /\ k[2] >= MAX_FETCH_INDEX =>
          /\ LastKey(k[1]) \in pushed
          /\ \A c \in Consumer : Marking(c) => Key(task[c]) # LastKey(k[1])}

Opened(L) == {FetchTime(s) : s \in 0 .. L}

\* The thread has opened windows for no minute after L.
Minutes(L) ==
  /\ L \in Int /\ -1 <= L /\ L <= now
  /\ Window => L >= 0 /\ fetch_time_str_ = FetchTime(L)
                      /\ old_tm_min = L % MinutesPerHour
  /\ ~Window => L = -1
  /\ ppc = "update" => L < current_min /\ current_min <= now

Apart == \A p, r \in Place : p # r => Held[p] \cap Held[r] = {}

Fits == \A p \in Place : Held[p] \subseteq Fitting

DistinctKeys ==
  /\ Distinct(producer_queue_)
  /\ Distinct(fail_task_list_)
  /\ \A c \in Consumer : Distinct(delay_task_queue[c])

MarksApart ==
  \A c, d \in Consumer :
    c # d /\ Marking(c) /\ Marking(d) => Key(task[c]) # Key(task[d])

\* Every window a key is of has been opened.
WindowsKnown ==
  \E L \in Int :
    Minutes(L) /\ \A p \in Place : \A k \in Held[p] : k[1] \in Opened(L)

OwnerInv == Apart /\ Fits /\ DistinctKeys /\ MarksApart /\ WindowsKnown

-----------------------------------------------------------------------------
(* Places. *)

LEMMA Places ==
  /\ {Queue, FailList, Refetch, Pushed, Repushed} \subseteq Place
  /\ \A c \in Consumer : Hand(c) \in Place /\ DelayOf(c) \in Place
  /\ \A p \in Place :
       \/ p \in {Queue, FailList, Refetch, Pushed, Repushed}
       \/ \E c \in Consumer : p = Hand(c) \/ p = DelayOf(c)
  BY DEF Place

LEMMA PlacesDiffer ==
  /\ Queue # FailList /\ Queue # Refetch /\ Queue # Pushed /\ Queue # Repushed
  /\ FailList # Refetch /\ FailList # Pushed /\ FailList # Repushed
  /\ Refetch # Pushed /\ Refetch # Repushed /\ Pushed # Repushed
  /\ \A c, d \in Consumer :
       /\ Hand(c) \notin {Queue, FailList, Refetch, Pushed, Repushed}
       /\ DelayOf(c) \notin {Queue, FailList, Refetch, Pushed, Repushed}
       /\ Hand(c) # DelayOf(d)
       /\ c # d => Hand(c) # Hand(d) /\ DelayOf(c) # DelayOf(d)
  BY DEF Queue, FailList, Refetch, Pushed, Repushed, Hand, DelayOf

Views ==
  /\ Held[Queue] = KeysOf(producer_queue_)
  /\ Held[FailList] = KeysOf(fail_task_list_)
  /\ Held[Refetch] = IF refetch_task = NoTask THEN {} ELSE {Key(refetch_task)}
  /\ Held[Pushed] = pushed
  /\ Held[Repushed] = repushed
  /\ \A c \in Consumer :
       /\ Held[Hand(c)] = IF cpc[c] = "fetch" THEN {Key(task[c])} ELSE {}
       /\ Held[DelayOf(c)] = KeysOf(delay_task_queue[c])

LEMMA HeldViews == Views
<1>1. /\ Held[Queue] = KeysOf(producer_queue_)
      /\ Held[FailList] = KeysOf(fail_task_list_)
      /\ Held[Refetch] = IF refetch_task = NoTask THEN {} ELSE {Key(refetch_task)}
      /\ Held[Pushed] = pushed
      /\ Held[Repushed] = repushed
  BY Places DEF Held, Queue, FailList, Refetch, Pushed, Repushed
<1>2. ASSUME NEW c \in Consumer
      PROVE  /\ Held[Hand(c)] = IF cpc[c] = "fetch" THEN {Key(task[c])} ELSE {}
             /\ Held[DelayOf(c)] = KeysOf(delay_task_queue[c])
  BY Places DEF Held, Hand, DelayOf
<1>3. QED
  BY <1>1, <1>2 DEF Views

LEMMA NextViews == Views'
  BY HeldViews, PTL

\* The keys of a queue whose front is taken.
LEMMA KeysOfTail ==
  ASSUME NEW S, NEW q \in Seq(S), q # <<>>, Distinct(q)
  PROVE  /\ Key(Head(q)) \in KeysOf(q)
         /\ KeysOf(Tail(q)) \subseteq KeysOf(q) \ {Key(Head(q))}
         /\ Distinct(Tail(q))
<1>1. /\ Head(q) = q[1]
      /\ Len(Tail(q)) = Len(q) - 1
      /\ Len(q) \in Nat \ {0}
      /\ \A k \in 1 .. Len(Tail(q)) : Tail(q)[k] = q[k + 1]
  BY FrontOfQueue
<1>2. 1 \in 1 .. Len(q) /\ \A k \in 1 .. Len(Tail(q)) : k + 1 \in 1 .. Len(q) /\ k + 1 # 1
  BY <1>1
<1>3. QED
  BY <1>1, <1>2 DEF KeysOf, Distinct

\* The keys of a queue with one task more.
LEMMA KeysOfAppend ==
  ASSUME NEW S, NEW q \in Seq(S), NEW t \in S, Distinct(q),
         Key(t) \notin KeysOf(q)
  PROVE  /\ KeysOf(Append(q, t)) = KeysOf(q) \cup {Key(t)}
         /\ Distinct(Append(q, t))
<1>1. /\ Len(q) \in Nat /\ Len(Append(q, t)) = Len(q) + 1
      /\ \A k \in 1 .. Len(q) : Append(q, t)[k] = q[k]
      /\ Append(q, t)[Len(q) + 1] = t
  OBVIOUS
<1>2. \A k : k \in 1 .. Len(q) + 1 <=> k \in 1 .. Len(q) \/ k = Len(q) + 1
  BY <1>1
<1>3. \A k \in 1 .. Len(q) : k # Len(q) + 1
  BY <1>1
<1>4. QED
  BY <1>1, <1>2, <1>3 DEF KeysOf, Distinct

-----------------------------------------------------------------------------
(* What a step does to the places: one of them may get keys that no other  *)
(* has afterwards.                                                         *)

Gets(b, N) ==
  /\ Held'[b] \subseteq Held[b] \cup N
  /\ \A p \in Place : p # b => Held'[p] \subseteq Held[p] /\ Held'[p] \cap N = {}

LEMMA GetsKeepsApart ==
  ASSUME Apart, NEW b \in Place, NEW N, Gets(b, N)
  PROVE  Apart'
  BY DEF Apart, Gets

\* A key that goes from one place to another.
LEMMA MovesGets ==
  ASSUME Apart, NEW a \in Place, NEW b \in Place, a # b, NEW k \in Held[a],
         k \notin Held'[a], Held'[b] \subseteq Held[b] \cup {k},
         \A p \in Place : p # b => Held'[p] \subseteq Held[p]
  PROVE  Gets(b, {k})
<1>1. ASSUME NEW p \in Place, p # b
      PROVE  k \notin Held'[p]
  <2>1. CASE p = a
    BY <2>1
  <2>2. CASE p # a
    BY <1>1, <2>2 DEF Apart
  <2>3. QED
    BY <2>1, <2>2
<1>2. QED
  BY <1>1 DEF Gets

LEMMA ShrinksGets ==
  ASSUME \A p \in Place : Held'[p] \subseteq Held[p]
  PROVE  Gets(Queue, {})
  BY Places DEF Gets

\* While no thread begins to mark an index, a key that fits goes on fitting.
LEMMA FittingStays ==
  ASSUME SystemInv, SameWindow, NextIndex' >= NextIndex, NextIndex' \in Int,
         pushed \subseteq pushed',
         \A c \in Consumer : Marking(c)' => Marking(c) /\ task'[c] = task[c]
  PROVE  Fitting \subseteq Fitting'
<1>1. NextIndex \in Int
  BY DEF SystemInv, TypeInv, TypeOK, NextIndex
<1>2. SUFFICES ASSUME NEW k \in Fitting
               PROVE  k \in Fitting'
  OBVIOUS
<1>3. k \in SystemKey
  BY DEF Fitting
<1>4. k[1] = fetch_time_str_' /\ k[2] \in Index => k[2] < NextIndex'
  <2>1. k[2] \in Int
    BY <1>3, ConsumerAssumption DEF SystemKey
  <2>2. QED
    BY <1>1, <2>1 DEF Fitting, SameWindow
<1>5. k[2] >= MAX_FETCH_INDEX =>
        /\ LastKey(k[1]) \in pushed'
        /\ \A c \in Consumer : Marking(c)' => Key(task'[c]) # LastKey(k[1])
  BY DEF Fitting
<1>6. QED
  BY <1>3, <1>4, <1>5 DEF Fitting, LastKey, Key

-----------------------------------------------------------------------------
(* The minutes. *)

\* The clock only moves on: it stops before a name of a minute comes again.
LEMMA ClockMovesOn ==
  ASSUME SystemInv, [SystemNext]_systemVars
  PROVE  now' \in Int /\ now' >= now
<1>1. now \in Int /\ 0 <= now /\ ClockPeriod \in Nat
  BY TaskAssumption DEF SystemInv, TypeInv, TypeOK, ClockMinute
<1>2. CASE Clock_Step
  BY <1>1, <1>2 DEF Clock_Step, Tick
<1>3. CASE Producer_Step
  <2>1. UNCHANGED now
    BY <1>3 DEF Producer_Step, ProducerInit, TeleProducerThread, PushTaskBatch,
       PushTaskBatch_Enter, PushTaskBatch_Load, PushTaskBatch_Clear,
       PushTaskBatch_Slave, PushTaskBatch_Return, PushTaskBatch_Broadcast,
       CheckandUpdateTask, CheckandUpdateTask_Same, CheckandUpdateTask_Moved,
       UpdateTask
  <2>2. QED
    BY <1>1, <2>1
<1>4. ASSUME NEW c \in Consumer, TeleConsumerThread(c) \/ Consumer_Wakeup(c)
      PROVE  UNCHANGED now
  BY <1>4 DEF TeleConsumerThread, Consumer_Wakeup, Consumer_Delay, Consumer_Pop,
     Consumer_Wait, Consumer_FetchFails, Consumer_FetchDropped,
     Consumer_FetchRefused, Consumer_Store, Consumer_Load, Consumer_SetBit,
     GetTask_Pop, GetTask_Wait, GetTask_Wakeup, SetIdentityError, ShmWrite,
     producerVars
<1>5. CASE TeleConsumerRefetchThread \/ UNCHANGED systemVars
  <2>1. UNCHANGED now
    BY <1>5 DEF TeleConsumerRefetchThread, GetFailTask, Refetch_Fails,
       Refetch_Dropped, Refetch_Store, RefetchUnchanged, systemVars, producerVars
  <2>2. QED
    BY <1>1, <2>1
<1>6. QED
  BY <1>1, <1>2, <1>3, <1>4, <1>5 DEF SystemNext

\* A step opens at most one window, that of a later minute.
LEMMA MinutesStep ==
  ASSUME SystemInv, [SystemNext]_systemVars, NEW L \in Int, Minutes(L)
  PROVE  \E M \in Int : L <= M /\ Minutes(M)'
<1>1. now \in Int /\ 0 <= now /\ now' \in Int /\ now' >= now
  BY ClockMovesOn DEF SystemInv, TypeInv, TypeOK, ClockMinute
<1>2. CASE WindowSteady
  <2>1. Minutes(L)'
    BY <1>1, <1>2 DEF WindowSteady, Minutes, Window, SystemInv, TypeInv, TypeOK, ClockMinute
  <2>2. QED
    BY <2>1
<1>3. CASE CheckandUpdateTask_Moved
  <2>1. L < now
    <3>1. CASE Window
      BY <1>1, <1>3, <3>1 DEF CheckandUpdateTask_Moved, Minutes
    <3>2. CASE ~Window
      BY <1>1, <3>2 DEF Minutes
    <3>3. QED
      BY <3>1, <3>2
  <2>2. Minutes(L)'
    BY <1>1, <1>3, <2>1 DEF CheckandUpdateTask_Moved, Minutes, Window
  <2>3. QED
    BY <2>2
<1>4. ASSUME NEW answer \in TokenAnswer, UpdateTask(answer)
      PROVE  \E M \in Int : L <= M /\ Minutes(M)'
  <2> DEFINE M == current_min
  <2>1. M \in Int /\ 0 <= M /\ L < M /\ M <= now
    BY <1>4 DEF UpdateTask, Minutes, SystemInv, TypeInv, TypeOK, ClockMinute
  <2>2. /\ fetch_time_str_' = FetchTime(M)
        /\ old_tm_min' = M % MinutesPerHour
        /\ ppc' = "enter"
    BY <1>4 DEF UpdateTask, OpenWindow, RememberMinute
  <2>3. Window'
    BY <2>1, <2>2, FetchTimeRange DEF ClockMinute, Window, NoTime
  <2> HIDE DEF M
  <2>4. PICK m \in Int : m = M
    BY <2>1
  <2>5. Minutes(m)'
    BY <1>1, <2>1, <2>2, <2>3, <2>4 DEF Minutes
  <2>6. QED
    BY <2>1, <2>4, <2>5
<1>5. QED
  BY <1>2, <1>3, <1>4, ProducerPart, WindowKinds

-----------------------------------------------------------------------------
(* A step keeps the invariant if the keys it brings fit and are of windows *)
(* already open.                                                           *)

KnownWindow(w) ==
  \/ Window /\ w = fetch_time_str_
  \/ \E p \in Place : \E k \in Held[p] : w = k[1]

LEMMA WindowsStep ==
  ASSUME SystemInv, OwnerInv, [SystemNext]_systemVars,
         NEW b \in Place, NEW N, Gets(b, N),
         \A k \in N : KnownWindow(k[1])
  PROVE  WindowsKnown'
<1>1. PICK L \in Int :
        Minutes(L) /\ \A p \in Place : \A k \in Held[p] : k[1] \in Opened(L)
  BY DEF OwnerInv, WindowsKnown
<1>2. PICK M \in Int : L <= M /\ Minutes(M)'
  BY <1>1, MinutesStep
<1>3. Opened(L) \subseteq Opened(M)
  BY <1>2 DEF Opened
<1>4. \A k \in N : k[1] \in Opened(L)
  <2>1. Window => fetch_time_str_ \in Opened(L)
    BY <1>1 DEF Minutes, Opened
  <2>2. QED
    BY <1>1, <2>1 DEF KnownWindow
<1>5. \A p \in Place : \A k \in Held'[p] : k[1] \in Opened(M)
  BY <1>1, <1>3, <1>4 DEF Gets
<1>6. QED
  BY <1>2, <1>5 DEF WindowsKnown, Opened, FetchTime

LEMMA OwnerStep ==
  ASSUME SystemInv, OwnerInv, [SystemNext]_systemVars,
         NEW b \in Place, NEW N, Gets(b, N),
         \A k \in N : KnownWindow(k[1]),
         \A p \in Place : Held[p] \subseteq Fitting', N \subseteq Fitting',
         DistinctKeys', MarksApart'
  PROVE  OwnerInv'
<1>1. Apart'
  BY GetsKeepsApart DEF OwnerInv
<1>2. Fits'
  BY DEF Fits, Gets
<1>3. WindowsKnown'
  BY WindowsStep
<1>4. QED
  BY <1>1, <1>2, <1>3 DEF OwnerInv

-----------------------------------------------------------------------------
(* The consumers. *)

\* What only moves or forgets tasks keeps the invariant.
LEMMA MovesOwner ==
  ASSUME SystemInv, OwnerInv, [SystemNext]_systemVars,
         NEW b \in Place, NEW N, Gets(b, N),
         \A k \in N : \E p \in Place : k \in Held[p],
         SameWindow, NextIndex' = NextIndex, pushed' = pushed,
         \A c \in Consumer : Marking(c)' => Marking(c) /\ task'[c] = task[c],
         DistinctKeys'
  PROVE  OwnerInv'
<1>1. NextIndex \in Int
  BY DEF SystemInv, TypeInv, TypeOK, NextIndex
<1>2. Fitting \subseteq Fitting'
  BY <1>1, FittingStays
<1>3. N \subseteq Fitting'
  BY <1>2 DEF OwnerInv, Fits
<1>4. \A p \in Place : Held[p] \subseteq Fitting'
  BY <1>2 DEF OwnerInv, Fits
<1>5. \A k \in N : KnownWindow(k[1])
  BY DEF KnownWindow
<1>6. MarksApart'
  BY DEF OwnerInv, MarksApart, Key
<1>7. QED
  BY <1>3, <1>4, <1>5, <1>6, OwnerStep

LEMMA DelayOwner ==
  ASSUME SystemInv, OwnerInv, NEW c \in Consumer, Consumer_Delay(c)
  PROVE  OwnerInv'
<1> DEFINE q == delay_task_queue[c]
           k == Key(Head(q))
<1>1. /\ q \in Seq(ExtraTask) /\ q # <<>>
      /\ cpc[c] = "get"
      /\ task' = [task EXCEPT ![c] = Head(q)]
      /\ cpc' = [cpc EXCEPT ![c] = "fetch"]
      /\ delay_task_queue' = [delay_task_queue EXCEPT ![c] = Tail(q)]
      /\ UNCHANGED <<producer_queue_, fail_task_list_, refetch_task, pushed,
                     repushed, fetch_time_str_>>
      /\ NextIndex' = NextIndex
  BY DEF Consumer_Delay, TakeTask, SystemInv, ThreadInv, ThreadTypes,
         producerVars, historyVars, NextIndex, InLoop
<1>2. /\ cpc \in [Consumer -> {"get", "fetch", "load", "store"}]
      /\ task \in [Consumer -> FirstTryTask \cup {NoTask}]
      /\ delay_task_queue \in [Consumer -> Seq(ExtraTask)]
  BY DEF SystemInv, ThreadInv, ThreadTypes
<1>3. Distinct(q)
  BY DEF OwnerInv, DistinctKeys
<1>4. /\ k \in KeysOf(q)
      /\ KeysOf(Tail(q)) \subseteq KeysOf(q) \ {k}
      /\ Distinct(Tail(q))
  BY <1>1, <1>3, KeysOfTail
<1>5. /\ k \in Held[DelayOf(c)]
      /\ Held'[DelayOf(c)] \subseteq Held[DelayOf(c)] \ {k}
      /\ Held'[Hand(c)] = {k}
  BY <1>1, <1>2, <1>4, HeldViews, NextViews DEF Views
<1>6. \A p \in Place : p # Hand(c) => Held'[p] \subseteq Held[p]
  <2>1. /\ \A p \in {Queue, FailList, Refetch, Pushed, Repushed} : Held'[p] = Held[p]
    BY <1>1, HeldViews, NextViews DEF Views
  <2>2. \A d \in Consumer : d # c => Held'[Hand(d)] = Held[Hand(d)]
    BY <1>1, <1>2, HeldViews, NextViews DEF Views
  <2>3. \A d \in Consumer : d # c => Held'[DelayOf(d)] = Held[DelayOf(d)]
    BY <1>1, <1>2, HeldViews, NextViews DEF Views
  <2>4. QED
    BY <1>5, <2>1, <2>2, <2>3, Places
<1> HIDE DEF k
<1>7. Gets(Hand(c), {k})
  BY <1>5, <1>6, MovesGets, Places, PlacesDiffer DEF OwnerInv
<1> HIDE DEF q
<1>8. DistinctKeys'
  BY <1>1, <1>2, <1>4 DEF OwnerInv, DistinctKeys
<1>9. \A d \in Consumer : Marking(d)' => Marking(d) /\ task'[d] = task[d]
  BY <1>1, <1>2 DEF Marking
<1>10. [SystemNext]_systemVars
  BY DEF SystemNext, TeleConsumerThread
<1>11. QED
  BY <1>1, <1>5, <1>7, <1>8, <1>9, <1>10, MovesOwner, Places DEF SameWindow

LEMMA PopOwner ==
  ASSUME SystemInv, OwnerInv, NEW c \in Consumer, Consumer_Pop(c)
  PROVE  OwnerInv'
<1> DEFINE q == producer_queue_
           k == Key(Head(q))
<1>1. /\ q \in Seq(QueuedTask) /\ q # <<>>
      /\ cpc[c] = "get"
      /\ task' = [task EXCEPT ![c] = Head(q)]
      /\ cpc' = [cpc EXCEPT ![c] = "fetch"]
      /\ producer_queue_' = Tail(q)
      /\ UNCHANGED <<delay_task_queue, fail_task_list_, refetch_task, pushed,
                     repushed, fetch_time_str_>>
      /\ NextIndex' = NextIndex
  BY DEF Consumer_Pop, GetTask_Pop, TakeTask, SystemInv, TypeInv, TypeOK,
         ThreadInv, StagesOK, historyVars, NextIndex, InLoop
<1>2. /\ cpc \in [Consumer -> {"get", "fetch", "load", "store"}]
      /\ task \in [Consumer -> FirstTryTask \cup {NoTask}]
  BY DEF SystemInv, ThreadInv, ThreadTypes
<1>3. Distinct(q)
  BY DEF OwnerInv, DistinctKeys
<1>4. /\ k \in KeysOf(q)
      /\ KeysOf(Tail(q)) \subseteq KeysOf(q) \ {k}
      /\ Distinct(Tail(q))
  BY <1>1, <1>3, KeysOfTail
<1>5. /\ k \in Held[Queue]
      /\ Held'[Queue] \subseteq Held[Queue] \ {k}
      /\ Held'[Hand(c)] = {k}
  BY <1>1, <1>2, <1>4, HeldViews, NextViews DEF Views
<1>6. \A p \in Place : p # Hand(c) => Held'[p] \subseteq Held[p]
  <2>1. \A p \in {FailList, Refetch, Pushed, Repushed} : Held'[p] = Held[p]
    BY <1>1, HeldViews, NextViews DEF Views
  <2>2. \A d \in Consumer : d # c => Held'[Hand(d)] = Held[Hand(d)]
    BY <1>1, <1>2, HeldViews, NextViews DEF Views
  <2>3. \A d \in Consumer : Held'[DelayOf(d)] = Held[DelayOf(d)]
    BY <1>1, HeldViews, NextViews DEF Views
  <2>4. QED
    BY <1>5, <2>1, <2>2, <2>3, Places
<1> HIDE DEF k
<1>7. Gets(Hand(c), {k})
  BY <1>5, <1>6, MovesGets, Places, PlacesDiffer DEF OwnerInv
<1> HIDE DEF q
<1>8. DistinctKeys'
  BY <1>1, <1>4 DEF OwnerInv, DistinctKeys
<1>9. \A d \in Consumer : Marking(d)' => Marking(d) /\ task'[d] = task[d]
  BY <1>1, <1>2 DEF Marking
<1>10. [SystemNext]_systemVars
  BY DEF SystemNext, TeleConsumerThread
<1>11. QED
  BY <1>1, <1>5, <1>7, <1>8, <1>9, <1>10, MovesOwner, Places DEF SameWindow

\* A step that brings no key anywhere.
LEMMA ShrinksOwner ==
  ASSUME SystemInv, OwnerInv, [SystemNext]_systemVars,
         \A p \in Place : Held'[p] \subseteq Held[p],
         SameWindow, NextIndex' = NextIndex, pushed' = pushed,
         \A c \in Consumer : Marking(c)' => Marking(c) /\ task'[c] = task[c],
         DistinctKeys'
  PROVE  OwnerInv'
BY ShrinksGets, MovesOwner, Places

\* Blocking, waking and loading a word concern no task, and forgetting one
\* makes room.
LEMMA QuietOwner ==
  ASSUME SystemInv, OwnerInv, NEW c \in Consumer,
         \/ Consumer_Wait(c) \/ Consumer_Wakeup(c) \/ Consumer_Load(c)
         \/ Consumer_FetchDropped(c) \/ Consumer_FetchRefused(c)
  PROVE  OwnerInv'
<1>1. /\ UNCHANGED <<producer_queue_, delay_task_queue, fail_task_list_,
                     refetch_task, pushed, repushed, fetch_time_str_>>
      /\ NextIndex' = NextIndex
  BY DEF Consumer_Wait, GetTask_Wait, Consumer_Wakeup, GetTask_Wakeup,
         Consumer_Load, Consumer_FetchDropped, Consumer_FetchRefused,
         SetIdentityError, threadVars, historyVars, producerVars, NextIndex, InLoop
<1>2. /\ cpc \in [Consumer -> {"get", "fetch", "load", "store"}]
      /\ task \in [Consumer -> FirstTryTask \cup {NoTask}]
  BY DEF SystemInv, ThreadInv, ThreadTypes
<1>3. \A d \in Consumer :
        \/ cpc'[d] = cpc[d] /\ task'[d] = task[d]
        \/ cpc[d] = "load" /\ cpc'[d] = "store" /\ task'[d] = task[d]
        \/ cpc[d] = "fetch" /\ cpc'[d] = "get"
  <2>1. CASE Consumer_Wait(c) \/ Consumer_Wakeup(c)
    BY <2>1 DEF Consumer_Wait, Consumer_Wakeup, threadVars
  <2>2. CASE Consumer_Load(c)
    BY <1>2, <2>2 DEF Consumer_Load
  <2>3. CASE Consumer_FetchDropped(c) \/ Consumer_FetchRefused(c)
    BY <1>2, <2>3 DEF Consumer_FetchDropped, Consumer_FetchRefused, DeleteTask
  <2>4. QED
    BY <2>1, <2>2, <2>3
<1>4. \A p \in Place : Held'[p] \subseteq Held[p]
  <2>1. \A p \in {Queue, FailList, Refetch, Pushed, Repushed} : Held'[p] = Held[p]
    BY <1>1, HeldViews, NextViews DEF Views
  <2>2. \A d \in Consumer : Held'[Hand(d)] \subseteq Held[Hand(d)]
    BY <1>3, HeldViews, NextViews DEF Views
  <2>3. \A d \in Consumer : Held'[DelayOf(d)] = Held[DelayOf(d)]
    BY <1>1, HeldViews, NextViews DEF Views
  <2>4. QED
    BY <2>1, <2>2, <2>3, Places
<1>5. DistinctKeys'
  BY <1>1 DEF OwnerInv, DistinctKeys
<1>6. \A d \in Consumer : Marking(d)' => Marking(d) /\ task'[d] = task[d]
  BY <1>3 DEF Marking
<1>7. [SystemNext]_systemVars
  BY DEF SystemNext, TeleConsumerThread
<1>8. QED
  BY <1>1, <1>4, <1>5, <1>6, <1>7, ShrinksOwner DEF SameWindow

\* The keys of the fail list after SaveFailTask.
LEMMA KeysOfSaved ==
  ASSUME NEW q \in Seq(FailedTask), NEW t \in SystemTask,
         t.retry_count < RETRY_MAX, Distinct(q), Key(t) \notin KeysOf(q)
  PROVE  /\ KeysOf(SaveFailTask(q, t)) \subseteq KeysOf(q) \cup {Key(t)}
         /\ Distinct(SaveFailTask(q, t))
<1> DEFINE u == [t EXCEPT !.retry_count = @ + 1]
<1>1. /\ u \in FailedTask
      /\ u.index = t.index /\ u.time_str = t.time_str
  BY ConsumerAssumption DEF SystemTask, FailedTask
<1>2. SaveFailTask(q, t) = q \/ SaveFailTask(q, t) = Append(q, u)
  BY DEF SaveFailTask
<1> HIDE DEF u
<1>3. Key(u) = Key(t)
  BY <1>1 DEF Key
<1>4. /\ KeysOf(Append(q, u)) = KeysOf(q) \cup {Key(t)}
      /\ Distinct(Append(q, u))
  BY <1>1, <1>3, KeysOfAppend
<1>5. CASE SaveFailTask(q, t) = q
  BY <1>5
<1>6. CASE SaveFailTask(q, t) = Append(q, u)
  BY <1>4, <1>6
<1>7. QED
  BY <1>2, <1>5, <1>6

LEMMA FetchFailsOwner ==
  ASSUME SystemInv, OwnerInv, NEW c \in Consumer, Consumer_FetchFails(c)
  PROVE  OwnerInv'
<1> DEFINE k == Key(task[c])
<1>1. /\ cpc[c] = "fetch"
      /\ fail_task_list_' = SaveFailTask(fail_task_list_, task[c])
      /\ task' = [task EXCEPT ![c] = NoTask]
      /\ cpc' = [cpc EXCEPT ![c] = "get"]
      /\ UNCHANGED <<producer_queue_, delay_task_queue, refetch_task, pushed,
                     repushed, fetch_time_str_>>
      /\ NextIndex' = NextIndex
  BY DEF Consumer_FetchFails, DeleteTask, producerVars, historyVars, NextIndex, InLoop
<1>2. /\ cpc \in [Consumer -> {"get", "fetch", "load", "store"}]
      /\ task \in [Consumer -> FirstTryTask \cup {NoTask}]
      /\ fail_task_list_ \in Seq(FailedTask)
      /\ task[c] # NoTask
  BY <1>1 DEF SystemInv, ThreadInv, ThreadTypes, StagesOK
<1>3. task[c] \in SystemTask /\ task[c].retry_count < RETRY_MAX
  BY <1>2, ConsumerAssumption DEF FirstTryTask
<1>4. k \in Held[Hand(c)] /\ k \notin Held'[Hand(c)]
  BY <1>1, <1>2, HeldViews, NextViews DEF Views
<1>5. k \notin KeysOf(fail_task_list_)
  BY <1>4, Places, PlacesDiffer, HeldViews DEF Views, OwnerInv, Apart
<1>6. Distinct(fail_task_list_)
  BY DEF OwnerInv, DistinctKeys
<1>7. /\ KeysOf(fail_task_list_') \subseteq KeysOf(fail_task_list_) \cup {k}
      /\ Distinct(fail_task_list_')
  BY <1>1, <1>2, <1>3, <1>5, <1>6, KeysOfSaved
<1>8. Held'[FailList] \subseteq Held[FailList] \cup {k}
  BY <1>7, HeldViews, NextViews DEF Views
<1>9. \A p \in Place : p # FailList => Held'[p] \subseteq Held[p]
  <2>1. \A p \in {Queue, Refetch, Pushed, Repushed} : Held'[p] = Held[p]
    BY <1>1, HeldViews, NextViews DEF Views
  <2>2. \A d \in Consumer : Held'[Hand(d)] \subseteq Held[Hand(d)]
    BY <1>1, <1>2, HeldViews, NextViews DEF Views
  <2>3. \A d \in Consumer : Held'[DelayOf(d)] = Held[DelayOf(d)]
    BY <1>1, HeldViews, NextViews DEF Views
  <2>4. QED
    BY <2>1, <2>2, <2>3, Places
<1> HIDE DEF k
<1>10. Gets(FailList, {k})
  BY <1>4, <1>8, <1>9, MovesGets, Places, PlacesDiffer DEF OwnerInv
<1>11. DistinctKeys'
  BY <1>1, <1>7 DEF OwnerInv, DistinctKeys
<1>12. \A d \in Consumer : Marking(d)' => Marking(d) /\ task'[d] = task[d]
  BY <1>1, <1>2 DEF Marking
<1>13. [SystemNext]_systemVars
  BY DEF SystemNext, TeleConsumerThread
<1>14. QED
  BY <1>1, <1>4, <1>10, <1>11, <1>12, <1>13, MovesOwner, Places DEF SameWindow

\* A task pushed, and with it the thread that goes on to mark its index.
LEMMA StoreOwner ==
  ASSUME SystemInv, OwnerInv, NEW c \in Consumer, Consumer_Store(c)
  PROVE  OwnerInv'
<1> DEFINE k == Key(task[c])
<1>1. /\ cpc[c] = "fetch"
      /\ pushed' = pushed \cup {k}
      /\ UNCHANGED <<producer_queue_, delay_task_queue, fail_task_list_,
                     refetch_task, repushed, fetch_time_str_>>
      /\ NextIndex' = NextIndex
  BY DEF Consumer_Store, producerVars, NextIndex, InLoop
<1>2. /\ cpc \in [Consumer -> {"get", "fetch", "load", "store"}]
      /\ task \in [Consumer -> FirstTryTask \cup {NoTask}]
  BY DEF SystemInv, ThreadInv, ThreadTypes
<1>3. \/ cpc' = [cpc EXCEPT ![c] = "load"] /\ task' = task /\ Marks(task[c])
      \/ cpc' = [cpc EXCEPT ![c] = "get"] /\ task' = [task EXCEPT ![c] = NoTask]
  BY DEF Consumer_Store, DeleteTask
<1>4. /\ \A d \in Consumer : d # c => cpc'[d] = cpc[d] /\ task'[d] = task[d]
      /\ cpc'[c] \in {"load", "get"}
      /\ cpc'[c] = "load" => task'[c] = task[c]
  BY <1>2, <1>3
<1>5. k \in Held[Hand(c)] /\ k \notin Held'[Hand(c)]
  BY <1>1, <1>4, HeldViews, NextViews DEF Views
<1>6. Held'[Pushed] = Held[Pushed] \cup {k}
  BY <1>1, HeldViews, NextViews DEF Views
<1>7. \A p \in Place : p # Pushed => Held'[p] \subseteq Held[p]
  <2>1. \A p \in {Queue, FailList, Refetch, Repushed} : Held'[p] = Held[p]
    BY <1>1, HeldViews, NextViews DEF Views
  <2>2. \A d \in Consumer : Held'[Hand(d)] \subseteq Held[Hand(d)]
    BY <1>4, HeldViews, NextViews DEF Views
  <2>3. \A d \in Consumer : Held'[DelayOf(d)] = Held[DelayOf(d)]
    BY <1>1, HeldViews, NextViews DEF Views
  <2>4. QED
    BY <2>1, <2>2, <2>3, Places
<1>8. k \notin pushed
  BY <1>5, Places, PlacesDiffer, HeldViews DEF Views, OwnerInv, Apart
<1> HIDE DEF k
<1>9. Gets(Pushed, {k})
  BY <1>5, <1>6, <1>7, MovesGets, Places, PlacesDiffer DEF OwnerInv
<1>10. DistinctKeys'
  BY <1>1 DEF OwnerInv, DistinctKeys
<1>11. \A d \in Consumer : d # c /\ Marking(d)' => Marking(d) /\ task'[d] = task[d]
  BY <1>4 DEF Marking
<1>12. MarksApart'
  <2>1. \A d \in Consumer : Marking(d) => Key(task[d]) \in pushed
    BY DEF Marking, SystemInv, ThreadInv, StagesOK
  <2>2. Marking(c)' => Key(task'[c]) = k
    BY <1>4 DEF Marking, k
  <2>3. SUFFICES ASSUME NEW d \in Consumer, NEW e \in Consumer, d # e,
                        Marking(d)', Marking(e)'
                 PROVE  Key(task'[d]) # Key(task'[e])
    BY DEF MarksApart, Key
  <2>4. CASE d # c /\ e # c
    BY <1>11, <2>3, <2>4 DEF OwnerInv, MarksApart
  <2>5. CASE d = c
    BY <1>8, <1>11, <2>1, <2>2, <2>3, <2>5
  <2>6. CASE e = c
    BY <1>8, <1>11, <2>1, <2>2, <2>3, <2>6
  <2>7. QED
    BY <2>4, <2>5, <2>6
<1>13. Fitting \subseteq Fitting'
  <2>1. SUFFICES ASSUME NEW x \in Fitting
                 PROVE  x \in Fitting'
    OBVIOUS
  <2>2. x[2] >= MAX_FETCH_INDEX =>
          /\ LastKey(x[1]) \in pushed'
          /\ \A d \in Consumer : Marking(d)' => Key(task'[d]) # LastKey(x[1])
    <3>1. Marking(c)' => Key(task'[c]) = k
      BY <1>4 DEF Marking, k
    <3>2. QED
      BY <1>1, <1>8, <1>11, <3>1 DEF Fitting
  <2>3. QED
    BY <1>1, <2>2 DEF Fitting, LastKey, Key
<1>14. \A p \in Place : Held[p] \subseteq Fitting'
  BY <1>13 DEF OwnerInv, Fits
<1>15. {k} \subseteq Fitting' /\ KnownWindow(k[1])
  BY <1>5, <1>14, Places DEF KnownWindow
<1>16. [SystemNext]_systemVars
  BY DEF SystemNext, TeleConsumerThread
<1>17. QED
  BY <1>9, <1>10, <1>12, <1>14, <1>15, <1>16, OwnerStep, Places

\* The extra tasks of a window come from the one thread that marks its last
\* index; before it is done, there are none.
LEMMA SetBitOwner ==
  ASSUME SystemInv, OwnerInv, NEW c \in Consumer, Consumer_SetBit(c)
  PROVE  OwnerInv'
<1> DEFINE t == task[c]
           q == CreateExtroTasks(<<>>, t.token, t.time_str)
<1>1. /\ cpc[c] = "store"
      /\ task' = [task EXCEPT ![c] = NoTask]
      /\ cpc' = [cpc EXCEPT ![c] = "get"]
      /\ UNCHANGED <<producer_queue_, fail_task_list_, refetch_task, pushed,
                     repushed, fetch_time_str_>>
      /\ NextIndex' = NextIndex
  BY DEF Consumer_SetBit, ShmWrite, DeleteTask, NextIndex, InLoop
<1>2. /\ cpc \in [Consumer -> {"get", "fetch", "load", "store"}]
      /\ task \in [Consumer -> FirstTryTask \cup {NoTask}]
      /\ delay_task_queue \in [Consumer -> Seq(ExtraTask)]
  BY DEF SystemInv, ThreadInv, ThreadTypes
<1>3. t \in SystemTask /\ Marks(t) /\ Key(t) \in pushed /\ t # NoTask
  BY <1>1, <1>2 DEF SystemInv, ThreadInv, StagesOK, FirstTryTask
<1>4. /\ t.token \in Token \cup {NoToken} /\ t.time_str \in ClockMinute
      /\ t.index \in Nat
  BY <1>3, ConsumerAssumption DEF SystemTask
<1>5. delay_task_queue[c] = <<>>
  BY <1>3 DEF Marks, SystemInv, ThreadInv, StagesOK
<1>6. \A d \in Consumer : Marking(d)' => d # c /\ Marking(d) /\ task'[d] = task[d]
  BY <1>1, <1>2 DEF Marking
<1>7. [SystemNext]_systemVars
  BY DEF SystemNext, TeleConsumerThread
<1>8. \A p \in Place : p # DelayOf(c) => Held'[p] \subseteq Held[p]
  <2>1. \A p \in {Queue, FailList, Refetch, Pushed, Repushed} : Held'[p] = Held[p]
    BY <1>1, HeldViews, NextViews DEF Views
  <2>2. \A d \in Consumer : Held'[Hand(d)] \subseteq Held[Hand(d)]
    BY <1>1, <1>2, HeldViews, NextViews DEF Views
  <2>3. \A d \in Consumer : d # c => Held'[DelayOf(d)] = Held[DelayOf(d)]
    <3>1. \A d \in Consumer : d # c => delay_task_queue'[d] = delay_task_queue[d]
      BY <1>2 DEF Consumer_SetBit
    <3>2. \A d \in Consumer :
            /\ Held[DelayOf(d)] = KeysOf(delay_task_queue[d])
            /\ Held'[DelayOf(d)] = KeysOf(delay_task_queue'[d])
      BY HeldViews, NextViews DEF Views
    <3>3. QED
      BY <3>1, <3>2
  <2>4. QED
    BY <2>1, <2>2, <2>3, Places
<1>9. CASE ~CreatesExtra(t)
  <2>1. UNCHANGED delay_task_queue
    BY <1>9 DEF Consumer_SetBit
  <2>2. Held'[DelayOf(c)] = Held[DelayOf(c)]
    BY <2>1, HeldViews, NextViews DEF Views
  <2>3. DistinctKeys'
    BY <1>1, <2>1 DEF OwnerInv, DistinctKeys
  <2>4. \A p \in Place : Held'[p] \subseteq Held[p]
    BY <1>8, <2>2
  <2>5. QED
    BY <1>1, <1>6, <1>7, <2>3, <2>4, ShrinksOwner DEF SameWindow
<1>10. CASE CreatesExtra(t)
  <2> DEFINE N == KeysOf(q)
  <2>1. /\ q \in Seq(ExtraTask)
        /\ Len(q) = NumberOfExtra
        /\ \A k \in 1 .. Len(q) : q[k].index = MAX_FETCH_INDEX + k - 1
                                  /\ q[k].time_str = t.time_str
    BY <1>4, CreateExtroTasksWhole
  <2>2. delay_task_queue' = [delay_task_queue EXCEPT ![c] = q]
    BY <1>2, <1>5, <1>10 DEF Consumer_SetBit
  <2>3. Key(t) = LastKey(t.time_str)
    BY <1>10 DEF CreatesExtra, Key, LastKey
  <2> HIDE DEF q
  <2>4. Distinct(q)
    <3>1. MAX_FETCH_INDEX \in Nat
      BY MatAssumption
    <3>2. \A j, k \in 1 .. Len(q) : q[j].index = q[k].index => j = k
      BY <2>1, <3>1
    <3>3. QED
      BY <3>2 DEF Distinct, Key
  <2>5. \A x \in N : x \in SystemKey /\ x[1] = t.time_str /\ x[2] >= MAX_FETCH_INDEX
    <3>1. \A k \in 1 .. Len(q) : q[k] \in ExtraTask
      BY <2>1
    <3>2. \A k \in 1 .. Len(q) : /\ Key(q[k]) \in SystemKey
                                 /\ q[k].index >= MAX_FETCH_INDEX
      BY <3>1, KeyType DEF ExtraTask, FirstTryTask
    <3>3. QED
      BY <2>1, <3>2 DEF KeysOf, Key
  <2> HIDE DEF t
  <2>6. \A p \in Place : Held[p] \cap N = {}
    <3>1. Marking(c) /\ task[c] = t
      BY <1>1 DEF Marking, t
    <3>2. \A x \in N : x \notin Fitting
      BY <2>3, <2>5, <3>1 DEF Fitting
    <3>3. QED
      BY <3>2 DEF OwnerInv, Fits
  <2>7. Held'[DelayOf(c)] = N
    BY <1>2, <2>2, HeldViews, NextViews DEF Views
  <2>8. Gets(DelayOf(c), N)
    BY <1>8, <2>6, <2>7 DEF Gets
  <2>9. NextIndex \in Int
    BY DEF SystemInv, TypeInv, TypeOK, NextIndex
  <2>10. Fitting \subseteq Fitting'
    BY <1>1, <1>6, <2>9, FittingStays DEF SameWindow
  <2>11. N \subseteq Fitting'
    <3>1. \A d \in Consumer : Marking(d)' => Key(task'[d]) # LastKey(t.time_str)
      <4>1. Marking(c) /\ Key(task[c]) = LastKey(t.time_str)
        BY <1>1, <2>3 DEF Marking, t
      <4>2. QED
        BY <1>6, <4>1 DEF OwnerInv, MarksApart
    <3>2. \A x \in N : x[2] \notin Index
      BY <2>5, MatAssumption DEF Index
    <3>3. LastKey(t.time_str) \in pushed'
      BY <1>1, <1>3, <2>3 DEF t
    <3>4. QED
      BY <2>5, <3>1, <3>2, <3>3 DEF Fitting, LastKey, Key
  <2>12. \A x \in N : KnownWindow(x[1])
    <3>1. LastKey(t.time_str) \in Held[Pushed]
      BY <1>3, <2>3, HeldViews DEF Views, t
    <3>2. LastKey(t.time_str)[1] = t.time_str
      BY DEF LastKey
    <3>3. KnownWindow(t.time_str)
      BY <3>1, <3>2, Places DEF KnownWindow
    <3>4. QED
      BY <2>5, <3>3
  <2>13. DistinctKeys'
    BY <1>1, <1>2, <2>2, <2>4 DEF OwnerInv, DistinctKeys
  <2>14. MarksApart'
    BY <1>6 DEF OwnerInv, MarksApart, Key
  <2>15. \A p \in Place : Held[p] \subseteq Fitting'
    BY <2>10 DEF OwnerInv, Fits
  <2> HIDE DEF N
  <2>16. QED
    BY <1>7, <2>8, <2>11, <2>12, <2>13, <2>14, <2>15, OwnerStep, Places
<1>11. QED
  BY <1>9, <1>10

-----------------------------------------------------------------------------
(* The refetch thread. *)

LEMMA GetFailOwner ==
  ASSUME SystemInv, OwnerInv, GetFailTask
  PROVE  OwnerInv'
<1> DEFINE q == fail_task_list_
           k == Key(Head(q))
<1>1. /\ q \in Seq(FailedTask) /\ q # <<>>
      /\ refetch_task' = Head(q)
      /\ fail_task_list_' = Tail(q)
      /\ UNCHANGED <<producer_queue_, cpc, task, delay_task_queue, pushed,
                     repushed, fetch_time_str_>>
      /\ NextIndex' = NextIndex
  BY DEF GetFailTask, RefetchUnchanged, producerVars, historyVars, SystemInv,
         ThreadInv, ThreadTypes, NextIndex, InLoop
<1>2. Distinct(q)
  BY DEF OwnerInv, DistinctKeys
<1>3. /\ k \in KeysOf(q)
      /\ KeysOf(Tail(q)) \subseteq KeysOf(q) \ {k}
      /\ Distinct(Tail(q))
  BY <1>1, <1>2, KeysOfTail
<1>4. /\ k \in Held[FailList]
      /\ Held'[FailList] \subseteq Held[FailList] \ {k}
      /\ Held'[Refetch] \subseteq {k}
  BY <1>1, <1>3, HeldViews, NextViews DEF Views
<1>5. \A p \in Place : p # Refetch => Held'[p] \subseteq Held[p]
  <2>1. \A p \in {Queue, Pushed, Repushed} : Held'[p] = Held[p]
    BY <1>1, HeldViews, NextViews DEF Views
  <2>2. \A d \in Consumer : Held'[Hand(d)] = Held[Hand(d)]
    BY <1>1, HeldViews, NextViews DEF Views
  <2>3. \A d \in Consumer : Held'[DelayOf(d)] = Held[DelayOf(d)]
    BY <1>1, HeldViews, NextViews DEF Views
  <2>4. QED
    BY <1>4, <2>1, <2>2, <2>3, Places
<1> HIDE DEF k
<1>6. Gets(Refetch, {k})
  BY <1>4, <1>5, MovesGets, Places, PlacesDiffer DEF OwnerInv
<1> HIDE DEF q
<1>7. DistinctKeys'
  BY <1>1, <1>3 DEF OwnerInv, DistinctKeys
<1>8. \A d \in Consumer : Marking(d)' => Marking(d) /\ task'[d] = task[d]
  BY <1>1 DEF Marking
<1>9. [SystemNext]_systemVars
  BY DEF SystemNext, TeleConsumerRefetchThread
<1>10. QED
  BY <1>1, <1>4, <1>6, <1>7, <1>8, <1>9, MovesOwner, Places DEF SameWindow

\* What the refetch thread does with its task: back to the list, forgotten,
\* or pushed.
LEMMA RefetchOwner ==
  ASSUME SystemInv, OwnerInv, Refetch_Fails \/ Refetch_Dropped \/ Refetch_Store
  PROVE  OwnerInv'
<1> DEFINE k == Key(refetch_task)
<1>1. /\ refetch_task # NoTask
      /\ refetch_task' = NoTask
      /\ UNCHANGED <<producer_queue_, cpc, task, delay_task_queue, pushed,
                     fetch_time_str_>>
      /\ NextIndex' = NextIndex
  BY DEF Refetch_Fails, Refetch_Dropped, Refetch_Store, RefetchUnchanged,
         producerVars, historyVars, NextIndex, InLoop
<1>2. k \in Held[Refetch] /\ Held'[Refetch] = {}
  BY <1>1, HeldViews, NextViews DEF Views
<1>3. /\ Held'[Queue] = Held[Queue] /\ Held'[Pushed] = Held[Pushed]
      /\ \A d \in Consumer : Held'[Hand(d)] = Held[Hand(d)]
      /\ \A d \in Consumer : Held'[DelayOf(d)] = Held[DelayOf(d)]
  BY <1>1, HeldViews, NextViews DEF Views
<1>4. \A d \in Consumer : Marking(d)' => Marking(d) /\ task'[d] = task[d]
  BY <1>1 DEF Marking
<1>5. [SystemNext]_systemVars
  BY DEF SystemNext, TeleConsumerRefetchThread
<1>6. refetch_task \in SystemTask /\ fail_task_list_ \in Seq(FailedTask)
  BY <1>1 DEF SystemInv, ThreadInv, ThreadTypes, FailedTask
<1>7. k \notin KeysOf(fail_task_list_)
  BY <1>2, Places, PlacesDiffer, HeldViews DEF Views, OwnerInv, Apart
<1>8. Distinct(fail_task_list_)
  BY DEF OwnerInv, DistinctKeys
<1>9. CASE UNCHANGED <<fail_task_list_, repushed>>
  <2>1. \A p \in {FailList, Repushed} : Held'[p] = Held[p]
    BY <1>9, HeldViews, NextViews DEF Views
  <2>2. \A p \in Place : Held'[p] \subseteq Held[p]
    BY <1>2, <1>3, <2>1, Places
  <2>3. DistinctKeys'
    BY <1>1, <1>9 DEF OwnerInv, DistinctKeys
  <2>4. QED
    BY <1>1, <1>4, <1>5, <2>2, <2>3, ShrinksOwner DEF SameWindow
<1>10. CASE /\ refetch_task.retry_count < RETRY_MAX
            /\ fail_task_list_' = SaveFailTask(fail_task_list_, refetch_task)
            /\ UNCHANGED repushed
  <2>1. /\ KeysOf(fail_task_list_') \subseteq KeysOf(fail_task_list_) \cup {k}
        /\ Distinct(fail_task_list_')
    BY <1>6, <1>7, <1>8, <1>10, KeysOfSaved
  <2>2. /\ Held'[FailList] \subseteq Held[FailList] \cup {k}
        /\ Held'[Repushed] = Held[Repushed]
    BY <1>10, <2>1, HeldViews, NextViews DEF Views
  <2>3. \A p \in Place : p # FailList => Held'[p] \subseteq Held[p]
    BY <1>2, <1>3, <2>2, Places
  <2> HIDE DEF k
  <2>4. Gets(FailList, {k})
    BY <1>2, <2>2, <2>3, MovesGets, Places, PlacesDiffer DEF OwnerInv
  <2>5. DistinctKeys'
    BY <1>1, <2>1 DEF OwnerInv, DistinctKeys
  <2>6. QED
    BY <1>1, <1>2, <1>4, <1>5, <2>4, <2>5, MovesOwner, Places DEF SameWindow
<1>11. CASE /\ repushed' = repushed \cup {k}
            /\ UNCHANGED fail_task_list_
  <2>1. /\ Held'[Repushed] = Held[Repushed] \cup {k}
        /\ Held'[FailList] = Held[FailList]
    BY <1>11, HeldViews, NextViews DEF Views
  <2>2. \A p \in Place : p # Repushed => Held'[p] \subseteq Held[p]
    BY <1>2, <1>3, <2>1, Places
  <2> HIDE DEF k
  <2>3. Gets(Repushed, {k})
    BY <1>2, <2>1, <2>2, MovesGets, Places, PlacesDiffer DEF OwnerInv
  <2>4. DistinctKeys'
    BY <1>1, <1>11 DEF OwnerInv, DistinctKeys
  <2>5. QED
    BY <1>1, <1>2, <1>4, <1>5, <2>3, <2>4, MovesOwner, Places DEF SameWindow
<1>12. QED
  BY <1>9, <1>10, <1>11
  DEF Refetch_Fails, Refetch_Dropped, Refetch_Store, historyVars

-----------------------------------------------------------------------------
(* The producer and the clock. *)

\* A new task has an index its window never had.
LEMMA PushesOwner ==
  ASSUME SystemInv, OwnerInv, Producer_Step, Pushes
  PROVE  OwnerInv'
<1> DEFINE k == Key(NewTask)
<1>1. /\ InLoop /\ i < MAX_FETCH_INDEX /\ NextIndex = i /\ NextIndex' = i + 1
      /\ producer_queue_' = Append(producer_queue_, NewTask)
      /\ SameWindow
      /\ UNCHANGED <<threadVars, pushed, repushed>>
  BY DEF Pushes, Producer_Step, NextIndex
<1>2. /\ NewTask \in QueuedTask /\ k = <<fetch_time_str_, i>>
      /\ producer_queue_ \in Seq(QueuedTask)
      /\ Window
  BY <1>1, NewTaskType, NewTaskFields DEF SystemInv, TypeInv, TypeOK, IndexReady, Key
<1>3. i \in Index /\ k \in SystemKey
  <2>1. NewTask \in SystemTask /\ NewTask.index \in Index
    BY <1>2, QueuedIsFirstTry DEF FirstTryTask, QueuedTask
  <2>2. QED
    BY <2>1, KeyType, NewTaskFields
<1>4. \A p \in Place : k \notin Held[p]
  <2>1. k \notin Fitting
    BY <1>1, <1>2, <1>3, MatAssumption DEF Fitting, Index
  <2>2. QED
    BY <2>1 DEF OwnerInv, Fits
<1> HIDE DEF k
<1>5. /\ KeysOf(producer_queue_') = KeysOf(producer_queue_) \cup {k}
      /\ Distinct(producer_queue_')
  <2>1. k \notin KeysOf(producer_queue_) /\ Distinct(producer_queue_)
    BY <1>4, HeldViews, Places DEF Views, OwnerInv, DistinctKeys
  <2>2. QED
    BY <1>1, <1>2, <2>1, KeysOfAppend DEF k
<1>6. Held'[Queue] = Held[Queue] \cup {k}
  BY <1>5, HeldViews, NextViews DEF Views
<1>7. \A p \in Place : p # Queue => Held'[p] = Held[p]
  <2>1. \A p \in {FailList, Refetch, Pushed, Repushed} : Held'[p] = Held[p]
    BY <1>1, HeldViews, NextViews DEF Views, threadVars
  <2>2. \A d \in Consumer : Held'[Hand(d)] = Held[Hand(d)]
    BY <1>1, HeldViews, NextViews DEF Views, threadVars
  <2>3. \A d \in Consumer : Held'[DelayOf(d)] = Held[DelayOf(d)]
    BY <1>1, HeldViews, NextViews DEF Views, threadVars
  <2>4. QED
    BY <2>1, <2>2, <2>3, Places
<1>8. Gets(Queue, {k})
  BY <1>4, <1>6, <1>7 DEF Gets
<1>9. \A d \in Consumer : Marking(d)' => Marking(d) /\ task'[d] = task[d]
  BY <1>1 DEF Marking, threadVars
<1>10. Fitting \subseteq Fitting'
  <2>1. NextIndex' \in Int /\ NextIndex' >= NextIndex
    BY <1>1, <1>3, MatAssumption DEF Index
  <2>2. QED
    BY <1>1, <1>9, <2>1, FittingStays
<1>11. \A p \in Place : Held[p] \subseteq Fitting'
  BY <1>10 DEF OwnerInv, Fits
<1>12. {k} \subseteq Fitting'
  <2>1. k[2] = i /\ i < NextIndex' /\ ~(i >= MAX_FETCH_INDEX)
    BY <1>1, <1>2, <1>3, MatAssumption DEF Index
  <2>2. QED
    BY <1>3, <2>1 DEF Fitting
<1>13. KnownWindow(k[1])
  BY <1>2 DEF KnownWindow
<1>14. DistinctKeys' /\ MarksApart'
  <2>1. DistinctKeys'
    BY <1>1, <1>5 DEF OwnerInv, DistinctKeys, threadVars
  <2>2. MarksApart'
    BY <1>9 DEF OwnerInv, MarksApart, Key
  <2>3. QED
    BY <2>1, <2>2
<1>15. [SystemNext]_systemVars
  BY DEF SystemNext
<1>16. QED
  BY <1>8, <1>11, <1>12, <1>13, <1>14, <1>15, OwnerStep, Places

\* A new window is none that a key is of.
LEMMA OpensOwner ==
  ASSUME SystemInv, OwnerInv, Producer_Step, Opens
  PROVE  OwnerInv'
<1>1. /\ ppc = "update" /\ NextIndex' = 0 /\ producer_queue_' = <<>>
      /\ fetch_time_str_' = FetchTime(current_min)
      /\ UNCHANGED <<threadVars, pushed, repushed>>
  BY DEF Opens, Producer_Step
<1>2. KeysOf(producer_queue_') = {} /\ Distinct(producer_queue_')
  BY <1>1 DEF KeysOf, Distinct
<1>3. \A p \in Place : Held'[p] \subseteq Held[p]
  <2>1. \A p \in {FailList, Refetch, Pushed, Repushed} : Held'[p] = Held[p]
    BY <1>1, HeldViews, NextViews DEF Views, threadVars
  <2>2. \A d \in Consumer : Held'[Hand(d)] = Held[Hand(d)]
    BY <1>1, HeldViews, NextViews DEF Views, threadVars
  <2>3. \A d \in Consumer : Held'[DelayOf(d)] = Held[DelayOf(d)]
    BY <1>1, HeldViews, NextViews DEF Views, threadVars
  <2>4. Held'[Queue] = {}
    BY <1>2, NextViews DEF Views
  <2>5. QED
    BY <2>1, <2>2, <2>3, <2>4, Places
<1>4. \A d \in Consumer : Marking(d)' => Marking(d) /\ task'[d] = task[d]
  BY <1>1 DEF Marking, threadVars
<1>5. \A p \in Place : \A k \in Held[p] : k[1] # fetch_time_str_'
  <2>1. PICK L \in Int :
          Minutes(L) /\ \A p \in Place : \A k \in Held[p] : k[1] \in Opened(L)
    BY DEF OwnerInv, WindowsKnown
  <2>2. L < current_min /\ current_min \in ClockMinute
    BY <1>1, <2>1 DEF Minutes, SystemInv, TypeInv, TypeOK
  <2>3. \A s \in 0 .. L : s \in ClockMinute /\ s # current_min
    BY <2>2, TaskAssumption DEF ClockMinute
  <2>4. \A s \in 0 .. L : FetchTime(s) # FetchTime(current_min)
    BY <2>2, <2>3, FetchTimeInjective
  <2>5. QED
    BY <1>1, <2>1, <2>4 DEF Opened
<1>6. \A p \in Place : Held[p] \subseteq Fitting'
  <2>1. SUFFICES ASSUME NEW p \in Place, NEW k \in Held[p]
                 PROVE  k \in Fitting'
    OBVIOUS
  <2>2. k \in Fitting /\ k[1] # fetch_time_str_'
    BY <1>5 DEF OwnerInv, Fits
  <2>3. k[2] >= MAX_FETCH_INDEX =>
          /\ LastKey(k[1]) \in pushed'
          /\ \A c \in Consumer : Marking(c)' => Key(task'[c]) # LastKey(k[1])
    BY <1>1, <1>4, <2>2 DEF Fitting
  <2>4. QED
    BY <2>2, <2>3 DEF Fitting, LastKey, Key
<1>7. DistinctKeys'
  BY <1>1, <1>2 DEF OwnerInv, DistinctKeys, threadVars
<1>8. MarksApart'
  BY <1>4 DEF OwnerInv, MarksApart, Key
<1>9. [SystemNext]_systemVars
  BY DEF SystemNext
<1>10. Gets(Queue, {})
  BY <1>3, ShrinksGets
<1>11. QED
  BY <1>6, <1>7, <1>8, <1>9, <1>10, OwnerStep, Places

\* The other steps of the producer, and the clock, bring no key.
LEMMA IdleOwner ==
  ASSUME SystemInv, OwnerInv, [SystemNext]_systemVars,
         UNCHANGED <<threadVars, pushed, repushed>>,
         PassesOver \/ Pops \/ Quiet
  PROVE  OwnerInv'
<1>1. /\ SameWindow /\ NextIndex' \in {NextIndex, NextIndex + 1}
      /\ \/ producer_queue_' = producer_queue_
         \/ producer_queue_ # <<>> /\ producer_queue_' = Tail(producer_queue_)
  BY DEF PassesOver, Pops, Quiet
<1>2. NextIndex \in Int
  BY DEF SystemInv, TypeInv, TypeOK, NextIndex
<1>3. KeysOf(producer_queue_') \subseteq KeysOf(producer_queue_) /\ Distinct(producer_queue_')
  <2>1. producer_queue_ \in Seq(QueuedTask) /\ Distinct(producer_queue_)
    BY DEF SystemInv, TypeInv, TypeOK, OwnerInv, DistinctKeys
  <2>2. CASE producer_queue_' = producer_queue_
    BY <2>1, <2>2
  <2>3. CASE producer_queue_ # <<>> /\ producer_queue_' = Tail(producer_queue_)
    BY <2>1, <2>3, KeysOfTail
  <2>4. QED
    BY <1>1, <2>2, <2>3
<1>4. \A p \in Place : Held'[p] \subseteq Held[p]
  <2>1. \A p \in {FailList, Refetch, Pushed, Repushed} : Held'[p] = Held[p]
    BY HeldViews, NextViews DEF Views, threadVars
  <2>2. \A d \in Consumer : Held'[Hand(d)] = Held[Hand(d)]
    BY HeldViews, NextViews DEF Views, threadVars
  <2>3. \A d \in Consumer : Held'[DelayOf(d)] = Held[DelayOf(d)]
    BY HeldViews, NextViews DEF Views, threadVars
  <2>4. Held'[Queue] \subseteq Held[Queue]
    BY <1>3, HeldViews, NextViews DEF Views
  <2>5. QED
    BY <2>1, <2>2, <2>3, <2>4, Places
<1>5. \A d \in Consumer : Marking(d)' => Marking(d) /\ task'[d] = task[d]
  BY DEF Marking, threadVars
<1>6. Fitting \subseteq Fitting'
  BY <1>1, <1>2, <1>5, FittingStays
<1>7. \A p \in Place : Held[p] \subseteq Fitting'
  BY <1>6 DEF OwnerInv, Fits
<1>8. DistinctKeys'
  BY <1>3 DEF OwnerInv, DistinctKeys, threadVars
<1>9. MarksApart'
  BY <1>5 DEF OwnerInv, MarksApart, Key
<1>10. Gets(Queue, {})
  BY <1>4, ShrinksGets
<1>11. QED
  BY <1>7, <1>8, <1>9, <1>10, OwnerStep, Places

-----------------------------------------------------------------------------
(* The invariant. *)

LEMMA OwnerInvInit == SystemInit => OwnerInv
<1> SUFFICES ASSUME SystemInit PROVE OwnerInv
  OBVIOUS
<1>1. /\ producer_queue_ = <<>> /\ fail_task_list_ = <<>>
      /\ refetch_task = NoTask /\ pushed = {} /\ repushed = {}
      /\ \A c \in Consumer : cpc[c] = "get" /\ delay_task_queue[c] = <<>>
      /\ now = 0 /\ fetch_time_str_ = NoTime /\ ppc = "init"
  BY DEF SystemInit, Init
<1>2. KeysOf(<<>>) = {} /\ Distinct(<<>>)
  BY DEF KeysOf, Distinct
<1>3. \A p \in Place : Held[p] = {}
  <2>1. \A p \in {Queue, FailList, Refetch, Pushed, Repushed} : Held[p] = {}
    BY <1>1, <1>2, HeldViews DEF Views
  <2>2. \A c \in Consumer : Held[Hand(c)] = {} /\ Held[DelayOf(c)] = {}
    BY <1>1, <1>2, HeldViews DEF Views
  <2>3. QED
    BY <2>1, <2>2, Places
<1>4. Apart /\ Fits
  BY <1>3 DEF Apart, Fits
<1>5. DistinctKeys /\ MarksApart
  BY <1>1, <1>2 DEF DistinctKeys, MarksApart, Marking
<1>6. WindowsKnown
  <2>1. -1 \in Int /\ Minutes(-1)
    BY <1>1 DEF Minutes, Window
  <2>2. QED
    BY <1>3, <2>1 DEF WindowsKnown
<1>7. QED
  BY <1>4, <1>5, <1>6 DEF OwnerInv

LEMMA OwnerInvStep ==
  SystemInv /\ OwnerInv /\ [SystemNext]_systemVars => OwnerInv'
<1> SUFFICES ASSUME SystemInv, OwnerInv, [SystemNext]_systemVars
             PROVE  OwnerInv'
  OBVIOUS
<1>1. Pushes \/ PassesOver \/ Pops \/ Opens \/ Quiet
  BY ProducerPart, StepKinds DEF SystemInv
<1>2. CASE Producer_Step
  <2>1. UNCHANGED <<threadVars, pushed, repushed>>
    BY <1>2 DEF Producer_Step
  <2>2. QED
    BY <1>1, <1>2, <2>1, PushesOwner, OpensOwner, IdleOwner
<1>3. ASSUME NEW c \in Consumer, TeleConsumerThread(c) \/ Consumer_Wakeup(c)
      PROVE  OwnerInv'
  BY <1>3, DelayOwner, PopOwner, QuietOwner, FetchFailsOwner, StoreOwner, SetBitOwner
  DEF TeleConsumerThread
<1>4. CASE TeleConsumerRefetchThread
  BY <1>4, GetFailOwner, RefetchOwner DEF TeleConsumerRefetchThread
<1>5. CASE Clock_Step \/ UNCHANGED systemVars
  <2>1. UNCHANGED <<threadVars, pushed, repushed>>
    BY <1>5 DEF Clock_Step, systemVars, historyVars
  <2>2. Quiet
    BY <1>5 DEF Clock_Step, Tick, systemVars, producerVars, Quiet, SameWindow,
       SameToken, NextIndex, InLoop
  <2>3. QED
    BY <2>1, <2>2, IdleOwner
<1>6. QED
  BY <1>2, <1>3, <1>4, <1>5 DEF SystemNext

LEMMA OwnerInvCorrect == SystemSafeSpec => []OwnerInv
  BY OwnerInvInit, OwnerInvStep, SystemInvCorrect, PTL DEF SystemSafeSpec

\* A task that is alive is in one of the five kinds of place.
LEMMA OwnedPlaces ==
  ASSUME OwnerInv, NEW x \in Owned
  PROVE  \/ \E k \in 1 .. Len(producer_queue_) :
              x = <<"queue", 0, k, Key(producer_queue_[k])>>
         \/ \E c \in Consumer : cpc[c] = "fetch" /\ x = <<"fetch", c, 0, Key(task[c])>>
         \/ \E c \in Consumer : \E k \in 1 .. Len(delay_task_queue[c]) :
              x = <<"delay", c, k, Key(delay_task_queue[c][k])>>
         \/ \E k \in 1 .. Len(fail_task_list_) :
              x = <<"fail", 0, k, Key(fail_task_list_[k])>>
         \/ refetch_task # NoTask /\ x = <<"refetch", 0, 0, Key(refetch_task)>>
<1>1. CASE x \in {<<"queue", 0, k, Key(producer_queue_[k])>> :
                   k \in 1 .. Len(producer_queue_)}
  BY <1>1
<1>2. CASE x \in {<<"fetch", c, 0, Key(task[c])>> :
                   c \in {d \in Consumer : cpc[d] = "fetch"}}
  BY <1>2
<1>3. CASE x \in UNION {{<<"delay", c, k, Key(delay_task_queue[c][k])>> :
                          k \in 1 .. Len(delay_task_queue[c])} : c \in Consumer}
  BY <1>3
<1>4. CASE x \in {<<"fail", 0, k, Key(fail_task_list_[k])>> :
                   k \in 1 .. Len(fail_task_list_)}
  BY <1>4
<1>5. CASE x \in {<<"refetch", 0, 0, Key(t)>> : t \in {refetch_task} \ {NoTask}}
  BY <1>5
<1>6. QED
  BY <1>1, <1>2, <1>3, <1>4, <1>5 DEF Owned

\* Its key is among those of its place, which is not one of what was pushed.
LEMMA OwnedIsHeld ==
  ASSUME OwnerInv, NEW x \in Owned
  PROVE  /\ <<x[1], x[2]>> \in Place \ {Pushed, Repushed}
         /\ x[4] \in Held[<<x[1], x[2]>>]
<1>1. ASSUME NEW k \in 1 .. Len(producer_queue_),
             x = <<"queue", 0, k, Key(producer_queue_[k])>>
      PROVE  <<x[1], x[2]>> = Queue /\ x[4] \in Held[Queue]
  BY <1>1, HeldViews DEF Views, KeysOf, Queue
<1>2. ASSUME NEW c \in Consumer, cpc[c] = "fetch",
             x = <<"fetch", c, 0, Key(task[c])>>
      PROVE  <<x[1], x[2]>> = Hand(c) /\ x[4] \in Held[Hand(c)]
  BY <1>2, HeldViews DEF Views, Hand
<1>3. ASSUME NEW c \in Consumer, NEW k \in 1 .. Len(delay_task_queue[c]),
             x = <<"delay", c, k, Key(delay_task_queue[c][k])>>
      PROVE  <<x[1], x[2]>> = DelayOf(c) /\ x[4] \in Held[DelayOf(c)]
  <2>1. <<x[1], x[2]>> = DelayOf(c) /\ x[4] \in KeysOf(delay_task_queue[c])
    BY <1>3 DEF KeysOf, DelayOf
  <2>2. Held[DelayOf(c)] = KeysOf(delay_task_queue[c])
    BY HeldViews DEF Views
  <2>3. QED
    BY <2>1, <2>2
<1>4. ASSUME NEW k \in 1 .. Len(fail_task_list_),
             x = <<"fail", 0, k, Key(fail_task_list_[k])>>
      PROVE  <<x[1], x[2]>> = FailList /\ x[4] \in Held[FailList]
  BY <1>4, HeldViews DEF Views, KeysOf, FailList
<1>5. ASSUME refetch_task # NoTask, x = <<"refetch", 0, 0, Key(refetch_task)>>
      PROVE  <<x[1], x[2]>> = Refetch /\ x[4] \in Held[Refetch]
  BY <1>5, HeldViews DEF Views, Refetch
<1>6. QED
  BY <1>1, <1>2, <1>3, <1>4, <1>5, OwnedPlaces, Places, PlacesDiffer

\* Keys of places that are disjoint have one owner.
LEMMA OwnerInvIsOne == OwnerInv => OneOwner
<1> SUFFICES ASSUME OwnerInv PROVE OneOwner
  OBVIOUS
<1>1. ASSUME NEW x \in Owned, NEW y \in Owned, x[4] = y[4]
      PROVE  x = y
  <2>1. x[1] = y[1] /\ x[2] = y[2]
    <3>1. <<x[1], x[2]>> = <<y[1], y[2]>>
      BY <1>1, OwnedIsHeld DEF OwnerInv, Apart
    <3>2. QED
      BY <3>1
  <2>2. CASE x[1] = "queue"
    <3>1. PICK j \in 1 .. Len(producer_queue_) :
            x = <<"queue", 0, j, Key(producer_queue_[j])>>
      BY <2>2, OwnedPlaces
    <3>2. y[1] = "queue"
      BY <2>1, <2>2
    <3>3. PICK k \in 1 .. Len(producer_queue_) :
            y = <<"queue", 0, k, Key(producer_queue_[k])>>
      BY <3>2, OwnedPlaces
    <3>4. j = k
      BY <1>1, <3>1, <3>3 DEF OwnerInv, DistinctKeys, Distinct
    <3>5. QED
      BY <3>1, <3>3, <3>4
  <2>3. CASE x[1] = "fail"
    <3>1. PICK j \in 1 .. Len(fail_task_list_) :
            x = <<"fail", 0, j, Key(fail_task_list_[j])>>
      BY <2>3, OwnedPlaces
    <3>2. y[1] = "fail"
      BY <2>1, <2>3
    <3>3. PICK k \in 1 .. Len(fail_task_list_) :
            y = <<"fail", 0, k, Key(fail_task_list_[k])>>
      BY <3>2, OwnedPlaces
    <3>4. j = k
      BY <1>1, <3>1, <3>3 DEF OwnerInv, DistinctKeys, Distinct
    <3>5. QED
      BY <3>1, <3>3, <3>4
  <2>4. CASE x[1] = "delay"
    <3>1. PICK c \in Consumer : \E j \in 1 .. Len(delay_task_queue[c]) :
            x = <<"delay", c, j, Key(delay_task_queue[c][j])>>
      BY <2>4, OwnedPlaces
    <3>2. PICK j \in 1 .. Len(delay_task_queue[c]) :
            x = <<"delay", c, j, Key(delay_task_queue[c][j])>>
      BY <3>1
    <3>3. y[1] = "delay"
      BY <2>1, <2>4
    <3>4. PICK d \in Consumer : \E k \in 1 .. Len(delay_task_queue[d]) :
            y = <<"delay", d, k, Key(delay_task_queue[d][k])>>
      BY <3>3, OwnedPlaces
    <3>5. PICK k \in 1 .. Len(delay_task_queue[d]) :
            y = <<"delay", d, k, Key(delay_task_queue[d][k])>>
      BY <3>4
    <3>6. c = d
      BY <2>1, <3>2, <3>5
    <3>7. j = k
      BY <1>1, <3>2, <3>5, <3>6 DEF OwnerInv, DistinctKeys, Distinct
    <3>8. QED
      BY <3>2, <3>5, <3>6, <3>7
  <2>5. CASE x[1] \in {"fetch", "refetch"}
    BY <2>1, <2>5, OwnedPlaces
  <2>6. QED
    BY <2>2, <2>3, <2>4, <2>5, OwnedPlaces
<1>2. \A x \in Owned : x[4] \notin pushed \cup repushed
  BY OwnedIsHeld, Places, HeldViews DEF Views, OwnerInv, Apart
<1>3. pushed \cap repushed = {}
  BY Places, PlacesDiffer, HeldViews DEF Views, OwnerInv, Apart
<1>4. QED
  BY <1>1, <1>2, <1>3 DEF OneOwner

(* A task is in one place at a time, and nowhere once it has been pushed;  *)
(* no value of a window is pushed twice by one process.  The invariant     *)
(* says why: a window is opened once, its indices are counted up, and its  *)
(* extra tasks come from the one thread that marks its last index.         *)
THEOREM TaskHasOneOwner == SystemSafeSpec => []OneOwner
<1>1. OwnerInv => OneOwner
  BY OwnerInvIsOne
<1>2. QED
  BY <1>1, OwnerInvCorrect, PTL

=============================================================================
