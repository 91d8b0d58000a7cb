--------------------------- MODULE MasterSlaveProofs ---------------------------
(***************************************************************************)
(* Proofs about MasterSlave, for every number of masters and slaves, of    *)
(* windows, indices and threads, and any number of crashes.                *)
(***************************************************************************)
EXTENDS MasterSlave, FiniteSetTheorems, TLAPS

-----------------------------------------------------------------------------
(* Keys and bits. *)

\* A remainder is in the range of the modulus: windows and rows of the map.
LEMMA LedgerModRange ==
  ASSUME NEW a \in Int, NEW b \in Nat \ {0}
  PROVE  a % b \in 0 .. b - 1
  OBVIOUS

\* The window of a process is one of the windows.
LEMMA WindowOfRange ==
  ASSUME NEW p \in Process, minute[p] \in Int
  PROVE  WindowOf(p) \in Window
<1>1. Delay[p] \in Int
  BY LedgerAssumption
<1>2. minute[p] - Delay[p] \in Int
  BY <1>1
<1>3. ClockPeriod \in Nat \ {0}
  BY LedgerAssumption
<1>4. QED
  BY <1>2, <1>3, LedgerModRange DEF WindowOf, Window

\* No two keys of the windows share a bit: the clock stops before that.
LEMMA MapBitInjective ==
  ASSUME NEW k \in Key, NEW x \in Key, MapBit(k) = MapBit(x)
  PROVE  k = x
<1>1. /\ k[1] \in 0 .. ClockPeriod - 1 /\ x[1] \in 0 .. ClockPeriod - 1
      /\ k = <<k[1], k[2]>> /\ x = <<x[1], x[2]>>
  BY DEF Key, Window
<1>2. k[1] % ONE_DAY_MINUTE = x[1] % ONE_DAY_MINUTE /\ k[2] = x[2]
  BY DEF MapBit
<1>3. ASSUME NEW a \in 0 .. ClockPeriod - 1 PROVE a % ONE_DAY_MINUTE = a
  BY LedgerAssumption
<1>4. QED
  BY <1>1, <1>2, <1>3

\* The bit of a key of an index is a bit of the map.
LEMMA MapBitRange ==
  ASSUME NEW k \in Key, k[2] \in Index
  PROVE  MapBit(k) \in (0 .. ONE_DAY_MINUTE - 1) \X Index
<1>1. k[1] \in Int
  BY LedgerAssumption DEF Key, Window
<1>2. k[1] % ONE_DAY_MINUTE \in 0 .. ONE_DAY_MINUTE - 1
  BY <1>1, LedgerAssumption, LedgerModRange
<1>3. QED
  BY <1>2 DEF MapBit

\* A store leaves the bits of the map, and the one it is for with its value.
LEMMA StoreBitStores ==
  ASSUME NEW b \in (0 .. ONE_DAY_MINUTE - 1) \X Index, NEW value, StoreBit(b, value),
         marked \subseteq (0 .. ONE_DAY_MINUTE - 1) \X Index
  PROVE  /\ marked' \subseteq (0 .. ONE_DAY_MINUTE - 1) \X Index
         /\ value = 0 => b \notin marked'
<1>1. WordOf(b) \subseteq (0 .. ONE_DAY_MINUTE - 1) \X Index /\ b \in WordOf(b)
  BY DEF WordOf
<1>2. PICK stale \in SUBSET (WordOf(b) \ {b}) :
        marked' = (marked \ WordOf(b)) \cup stale \cup (IF value = 1 THEN {b} ELSE {})
  BY DEF StoreBit
<1>3. QED
  BY <1>1, <1>2

\* What a process has been through are keys.
LEMMA PassedKeys == LedgerTypeOK => \A p \in Process : Passed(p) \subseteq Key
<1> SUFFICES ASSUME LedgerTypeOK, NEW p \in Process PROVE Passed(p) \subseteq Key
  OBVIOUS
<1>1. minute[p] \in Int
  BY LedgerAssumption DEF LedgerTypeOK, Window
<1>2. Index \subseteq 0 .. EXTRA_END - 1
  BY LedgerAssumption DEF Index, LastIndex
<1>3. QED
  BY <1>1, <1>2, WindowOfRange DEF Passed, Key

\* The key a process has its next index for.
LEMMA NextKeyType ==
  ASSUME LedgerTypeOK, NEW p \in Process, next[p] \in Index
  PROVE  NextKey(p) \in Key /\ NextKey(p)[2] \in Index
<1>1. minute[p] \in Int
  BY LedgerAssumption DEF LedgerTypeOK, Window
<1>2. Index \subseteq 0 .. EXTRA_END - 1
  BY LedgerAssumption DEF Index, LastIndex
<1>3. QED
  BY <1>1, <1>2, WindowOfRange DEF NextKey, Key

-----------------------------------------------------------------------------
(* The inductive invariant. *)

\* A thread that is about to set a bit has stored the value of its key.
MarkingStored ==
  \A p \in Process : \A k \in Key :
    stage[p][k] = "marking" => k[2] \in Index /\ stored[k] > 0

\* What a master has been through counts as cleared.
PassedCleared == \A p \in Process \ Slave : Passed(p) \subseteq cleared

SharedInv ==
  /\ LedgerTypeOK
  /\ settled \in [Process -> SUBSET Key] /\ cleared \subseteq Key
  /\ MarkingStored /\ PassedCleared
  /\ MarkMeansStored /\ NothingMissed

LEMMA SharedInitInv == SharedInit => SharedInv
<1> SUFFICES ASSUME SharedInit PROVE SharedInv
  OBVIOUS
<1> USE DEF SharedInit, LedgerInit
<1>1. LedgerTypeOK
  <2>1. now \in Window /\ minute \in [Process -> Window \cup {-1}]
    BY LedgerAssumption DEF Window
  <2>2. next \in [Process -> 0 .. MAX_FETCH_INDEX \cup {NoIndex}]
    OBVIOUS
  <2>3. stage \in [Process -> [Key -> Stage]]
    BY DEF Stage
  <2>4. /\ marked \subseteq (0 .. ONE_DAY_MINUTE - 1) \X Index
        /\ stored \in [Key -> Nat] /\ restored \in [Key -> Nat]
    OBVIOUS
  <2>5. QED
    BY <2>1, <2>2, <2>3, <2>4 DEF LedgerTypeOK
<1>2. \A p \in Process : Passed(p) = {}
  BY DEF Passed, NoIndex, Index
<1>3. MarkingStored /\ PassedCleared /\ MarkMeansStored /\ NothingMissed
  BY <1>2 DEF MarkingStored, PassedCleared, MarkMeansStored, NothingMissed
<1>4. QED
  BY <1>1, <1>3 DEF SharedInv

-----------------------------------------------------------------------------
(* A step.  StepKeeps is what each action is shown to do; of the history,  *)
(* only a slave that skips needs more than that.                           *)

StepKeeps ==
  /\ LedgerTypeOK' /\ MarkingStored'
  /\ \A k \in Key : stored[k] > 0 => stored'[k] > 0
  /\ \A p \in Process \ Slave : \A k \in Passed(p)' :
       k \in Passed(p) \/ MapBit(k) \notin marked'
  /\ \A p \in Process : \A k \in Passed(p)' :
       \/ k \in Passed(p) /\ (stage[p][k] = "queued" => stage'[p][k] # "none")
       \/ stage'[p][k] # "none"
       \/ p \in Slave /\ (stored'[k] > 0 \/ k \in ahead')

\* A bit that a step leaves one, and not for nothing, was so before, or it is
\* one the step marks, and that of a value that is stored.
LEMMA MarksStored ==
  ASSUME SharedInv, Observe, NEW k \in Key, MapBit(k) \in marked' \ revived'
  PROVE  MapBit(k) \in marked \ revived \/ stored[k] > 0
<1> DEFINE b == MapBit(k)
<1>1. CASE b \in Marks
  <2>1. PICK x \in Key : b = MapBit(x) /\ \E p \in Process : stage[p][x] = "marking"
    BY <1>1 DEF Marks
  <2>2. stored[x] > 0
    BY <2>1 DEF SharedInv, MarkingStored
  <2>3. x = k
    BY <2>1, MapBitInjective
  <2>4. QED
    BY <2>2, <2>3
<1>2. CASE b \notin Marks
  <2> HIDE DEF b
  <2>1. b \in marked' /\ b \notin revived'
    BY DEF b
  <2>2. QED
    BY <1>2, <2>1 DEF Observe, b
<1>3. QED
  BY <1>1, <1>2

LEMMA StepInv == SharedInv /\ Observe /\ StepKeeps => SharedInv'
<1> SUFFICES ASSUME SharedInv, Observe, StepKeeps PROVE SharedInv'
  OBVIOUS
<1>1. \A p \in Process : Passed(p)' \subseteq Key
  <2>1. LedgerTypeOK'
    BY DEF StepKeeps
  <2>2. (\A p \in Process : Passed(p) \subseteq Key)'
    BY <2>1, PassedKeys, PTL
  <2>3. QED
    BY <2>2
<1>2. settled' \in [Process -> SUBSET Key]
  BY DEF SharedInv, Observe
<1>3. cleared' \subseteq Key /\ cleared \subseteq cleared' /\ PassedCleared'
  BY <1>1 DEF SharedInv, Observe, PassedCleared
<1>4. MarkMeansStored'
  <2> SUFFICES ASSUME NEW k \in cleared', MapBit(k) \in marked' \ revived'
               PROVE  stored'[k] > 0
    BY DEF MarkMeansStored, MapBit
  <2>1. k \in Key
    BY <1>3
  <2>2. CASE k \in cleared
    BY <2>1, <2>2, MarksStored DEF SharedInv, MarkMeansStored, StepKeeps
  <2>3. CASE \E p \in Process \ Slave : k \in Passed(p)'
    <3>1. PICK p \in Process \ Slave : k \in Passed(p)'
      BY <2>3
    <3>2. k \in cleared
      BY <3>1 DEF StepKeeps, SharedInv, PassedCleared
    <3>3. QED
      BY <2>2, <3>2
  <2>4. QED
    BY <2>2, <2>3 DEF Observe
<1>5. NothingMissed'
  <2> SUFFICES ASSUME NEW p \in Process, NEW k \in Passed(p)', stage'[p][k] = "none"
               PROVE  \/ k \in settled'[p]
                      \/ p \in Slave /\ (stored'[k] > 0 \/ k \in ahead')
    BY DEF NothingMissed
  <2>1. k \in Key
    BY <1>1
  <2>2. next'[p] # NoIndex
    BY DEF Passed, NoIndex, Index
  <2>3. CASE p \in Slave /\ (stored'[k] > 0 \/ k \in ahead')
    BY <2>3
  <2>4. CASE k \in Passed(p) /\ stage[p][k] # "queued"
    <3>1. CASE stage[p][k] # "none"
      BY <2>1, <2>2, <2>4, <3>1 DEF Observe
    <3>2. CASE k \in settled[p]
      BY <2>2, <3>2 DEF Observe
    <3>3. CASE p \in Slave /\ (stored[k] > 0 \/ k \in ahead)
      BY <2>1, <3>3 DEF Observe, StepKeeps
    <3>4. QED
      BY <2>4, <3>1, <3>2, <3>3 DEF SharedInv, NothingMissed
  <2>5. QED
    BY <2>3, <2>4 DEF StepKeeps
<1>6. QED
  BY <1>2, <1>3, <1>4, <1>5 DEF SharedInv, StepKeeps

-----------------------------------------------------------------------------
(* The actions. *)

\* One key of one process moves to another stage, the others stay.
LEMMA MoveStage ==
  ASSUME stage \in [Process -> [Key -> Stage]],
         NEW p \in Process, NEW k \in Key, NEW s \in Stage, Move(p, k, s)
  PROVE  /\ stage' \in [Process -> [Key -> Stage]]
         /\ stage'[p][k] = s
         /\ \A q \in Process : \A x \in Key :
              q # p \/ x # k => stage'[q][x] = stage[q][x]
  BY DEF Move

\* Where next and minute do not change, no process gets any further.
LEMMA PassedSame ==
  ASSUME UNCHANGED <<minute, next>>, NEW p
  PROVE  Passed(p)' = Passed(p)
  BY DEF Passed, WindowOf

LEMMA OpenKeeps ==
  ASSUME SharedInv, NEW p \in Process, NEW t \in Window, Open(p, t)
  PROVE  StepKeeps
<1> USE DEF SharedInv, LedgerTypeOK, Open
<1>1. LedgerTypeOK'
  <2>1. minute' \in [Process -> Window \cup {-1}]
    OBVIOUS
  <2>2. next' \in [Process -> 0 .. MAX_FETCH_INDEX \cup {NoIndex}]
    BY LedgerAssumption
  <2>3. stage' \in [Process -> [Key -> Stage]]
    BY DEF Stage
  <2>4. QED
    BY <2>1, <2>2, <2>3
<1>2. \A q \in Process : \A k \in Key : stage'[q][k] \in {stage[q][k], "none"}
  OBVIOUS
<1>3. MarkingStored'
  BY <1>2 DEF MarkingStored
<1>4. Passed(p)' = {}
  BY DEF Passed, Index
<1>5. \A q \in Process \ {p} : Passed(q)' = Passed(q) /\ stage'[q] = stage[q]
  BY DEF Passed, WindowOf
<1>6. QED
  BY <1>1, <1>3, <1>4, <1>5 DEF StepKeeps

LEMMA CrashKeeps ==
  ASSUME SharedInv, NEW p \in Process, Crash(p)
  PROVE  StepKeeps
<1> USE DEF SharedInv, LedgerTypeOK, Crash
<1>1. LedgerTypeOK'
  <2>1. minute' \in [Process -> Window \cup {-1}]
    BY LedgerAssumption DEF Window
  <2>2. next' \in [Process -> 0 .. MAX_FETCH_INDEX \cup {NoIndex}]
    OBVIOUS
  <2>3. stage' \in [Process -> [Key -> Stage]]
    BY DEF Stage
  <2>4. QED
    BY <2>1, <2>2, <2>3
<1>2. \A q \in Process : \A k \in Key : stage'[q][k] \in {stage[q][k], "none"}
  OBVIOUS
<1>3. MarkingStored'
  BY <1>2 DEF MarkingStored
<1>4. Passed(p)' = {}
  BY DEF Passed, Index, NoIndex
<1>5. \A q \in Process \ {p} : Passed(q)' = Passed(q) /\ stage'[q] = stage[q]
  BY DEF Passed, WindowOf
<1>6. QED
  BY <1>1, <1>3, <1>4, <1>5 DEF StepKeeps

LEMMA TickKeeps == SharedInv /\ Tick => StepKeeps
<1> SUFFICES ASSUME SharedInv, Tick PROVE StepKeeps
  OBVIOUS
<1>1. now' \in Window
  <2>1. PICK p \in Process : TRUE
    BY LedgerAssumption
  <2>2. now + 1 + Delay[p] - Delay[p] < ClockPeriod /\ now' = now + 1
    BY DEF Tick
  <2>3. Delay[p] \in Int /\ now \in 0 .. ClockPeriod - 1 /\ ClockPeriod \in Nat
    BY LedgerAssumption DEF SharedInv, LedgerTypeOK, Window
  <2>4. QED
    BY <2>2, <2>3 DEF Window
<1>2. LedgerTypeOK' /\ MarkingStored'
  BY <1>1 DEF SharedInv, LedgerTypeOK, MarkingStored, Tick
<1>3. \A p \in Process : Passed(p)' = Passed(p)
  BY PassedSame DEF Tick
<1>4. QED
  BY <1>2, <1>3 DEF StepKeeps, Tick

\* What the producer thread of p does to its next key, queued or skipped, keeps
\* all that does not depend on the bit.
LEMMA PushTaskKeeps ==
  ASSUME SharedInv, NEW p \in Process, next[p] \in Index, PushTask(p),
         UNCHANGED <<now, minute, stored, restored>>,
         marked' \subseteq (0 .. ONE_DAY_MINUTE - 1) \X Index
  PROVE  /\ LedgerTypeOK' /\ MarkingStored'
         /\ \A q \in Process \ {p} : Passed(q)' = Passed(q)
         /\ \A k \in Passed(p)' : k \in Passed(p) \/ k = NextKey(p)
         /\ \A q \in Process : \A k \in Key :
              stage[q][k] = "queued" => stage'[q][k] = "queued"
         /\ next' # next => stage'[p][NextKey(p)] = "queued"
<1> USE DEF SharedInv, LedgerTypeOK
<1>1. NextKey(p) \in Key /\ NextKey(p)[2] \in Index
  BY NextKeyType
<1>2. next' \in [Process -> 0 .. MAX_FETCH_INDEX \cup {NoIndex}]
  BY LedgerAssumption DEF PushTask, Index, LastIndex
<1>3. /\ stage' \in [Process -> [Key -> Stage]]
      /\ \A q \in Process : \A k \in Key :
           stage'[q][k] = stage[q][k] \/ stage'[q][k] = "queued"
      /\ next' # next => stage'[p][NextKey(p)] = "queued"
  <2>1. CASE Move(p, NextKey(p), "queued")
    BY <1>1, <2>1, MoveStage DEF Stage
  <2>2. CASE UNCHANGED <<next, stage>>
    BY <2>2
  <2>3. QED
    BY <2>1, <2>2 DEF PushTask
<1>4. LedgerTypeOK'
  BY <1>2, <1>3
<1>5. MarkingStored'
  BY <1>3 DEF MarkingStored
<1>6. \A q \in Process \ {p} : Passed(q)' = Passed(q)
  BY DEF Passed, WindowOf, PushTask
<1>7. \A k \in Passed(p)' : k \in Passed(p) \/ k = NextKey(p)
  <2>1. next'[p] \in {next[p], next[p] + 1} /\ minute'[p] = minute[p]
    BY DEF PushTask
  <2>2. Index \subseteq Int
    BY LedgerAssumption DEF Index, LastIndex
  <2>3. \A n \in Int, j \in Int : j < n + 1 => j < n \/ j = n
    OBVIOUS
  <2>4. \A j \in Index : j < next'[p] => j < next[p] \/ j = next[p]
    BY <2>1, <2>2, <2>3
  <2>5. QED
    BY <2>1, <2>4 DEF Passed, WindowOf, NextKey
<1>8. QED
  BY <1>3, <1>4, <1>5, <1>6, <1>7

\* A key that p has got past in this step is its next one, and is queued.
LEMMA PushTaskQueued ==
  ASSUME SharedInv, NEW p \in Process, next[p] \in Index, PushTask(p),
         UNCHANGED <<now, minute, stored, restored>>,
         marked' \subseteq (0 .. ONE_DAY_MINUTE - 1) \X Index,
         NEW q \in Process, NEW k \in Passed(q)'
  PROVE  \/ k \in Passed(q) /\ (stage[q][k] = "queued" => stage'[q][k] # "none")
         \/ stage'[q][k] # "none"
<1>1. CASE k \in Passed(q)
  <2>1. k \in Key
    BY <1>1, PassedKeys DEF SharedInv
  <2>2. QED
    BY <1>1, <2>1, PushTaskKeeps
<1>2. CASE k \notin Passed(q)
  <2>1. q = p /\ k = NextKey(p)
    BY <1>2, PushTaskKeeps
  <2>2. next' # next
    BY <1>2, <2>1 DEF Passed, WindowOf
  <2>3. QED
    BY <2>1, <2>2, PushTaskKeeps
<1>3. QED
  BY <1>1, <1>2

LEMMA MasterQueuesKeeps ==
  ASSUME SharedInv, NEW p \in Process, MasterQueues(p)
  PROVE  StepKeeps
<1>0. NextKey(p) \in Key /\ NextKey(p)[2] \in Index
  BY NextKeyType DEF MasterQueues, SharedInv
<1>1. /\ next[p] \in Index /\ PushTask(p)
      /\ marked' \subseteq (0 .. ONE_DAY_MINUTE - 1) \X Index
      /\ MapBit(NextKey(p)) \notin marked'
      /\ UNCHANGED <<now, minute, stored, restored>>
  BY <1>0, MapBitRange, StoreBitStores DEF MasterQueues, SharedInv, LedgerTypeOK
<1>2. \A q \in Process \ Slave : \A k \in Passed(q)' :
        k \in Passed(q) \/ MapBit(k) \notin marked'
  BY <1>1, PushTaskKeeps
<1>3. QED
  BY <1>1, <1>2, PushTaskKeeps, PushTaskQueued DEF StepKeeps

LEMMA SlaveQueuesKeeps ==
  ASSUME SharedInv, NEW p \in Process, SlaveQueues(p)
  PROVE  StepKeeps
<1>1. /\ p \in Slave /\ next[p] \in Index /\ PushTask(p)
      /\ marked' \subseteq (0 .. ONE_DAY_MINUTE - 1) \X Index
      /\ UNCHANGED <<now, minute, marked, stored, restored>>
  BY DEF SlaveQueues, SharedInv, LedgerTypeOK
<1>2. \A q \in Process \ Slave : \A k \in Passed(q)' : k \in Passed(q)
  BY <1>1, PushTaskKeeps
<1>3. QED
  BY <1>1, <1>2, PushTaskKeeps, PushTaskQueued DEF StepKeeps

\* The slave skips what is marked.  If a master has been there, the value is
\* stored, or a stale word put the bit back; if none has, the slave was ahead of
\* all of them.
LEMMA SlaveSkipsKeeps ==
  ASSUME SharedInv, Observe, NEW p \in Process, SlaveSkips(p)
  PROVE  StepKeeps
<1> USE DEF SharedInv, LedgerTypeOK, SlaveSkips
<1>1. NextKey(p) \in Key
  BY NextKeyType
<1>2. next' \in [Process -> 0 .. MAX_FETCH_INDEX \cup {NoIndex}]
  BY LedgerAssumption DEF Index, LastIndex
<1>3. LedgerTypeOK' /\ MarkingStored'
  BY <1>2 DEF MarkingStored
<1>4. \A q \in Process \ {p} : Passed(q)' = Passed(q)
  BY DEF Passed, WindowOf
<1>5. \A k \in Passed(p)' : k \in Passed(p) \/ k = NextKey(p)
  <2>1. next'[p] = next[p] + 1 /\ minute'[p] = minute[p]
    OBVIOUS
  <2>2. Index \subseteq Int
    BY LedgerAssumption DEF Index, LastIndex
  <2>3. \A n \in Int, j \in Int : j < n + 1 => j < n \/ j = n
    OBVIOUS
  <2>4. \A j \in Index : j < next'[p] => j < next[p] \/ j = next[p]
    BY <2>1, <2>2, <2>3
  <2>5. QED
    BY <2>1, <2>4 DEF Passed, WindowOf, NextKey
<1>6. stored'[NextKey(p)] > 0 \/ NextKey(p) \in ahead'
  <2>1. CASE NextKey(p) \in cleared /\ MapBit(NextKey(p)) \notin revived
    BY <2>1 DEF MarkMeansStored
  <2>2. CASE NextKey(p) \notin cleared \/ MapBit(NextKey(p)) \in revived
    <3>1. Skips(p)
      BY DEF Skips, NoIndex, Index
    <3>2. QED
      BY <2>2, <3>1 DEF Observe
  <2>3. QED
    BY <2>1, <2>2
<1>7. QED
  BY <1>3, <1>4, <1>5, <1>6 DEF StepKeeps

LEMMA TakeKeeps ==
  ASSUME SharedInv, NEW p \in Process, NEW k \in Key, Take(p, k)
  PROVE  StepKeeps
<1>1. /\ Move(p, k, "fetching") /\ "fetching" \in Stage
      /\ UNCHANGED <<now, minute, next, marked, stored, restored>>
  BY DEF Take, Stage
<1>2. /\ stage' \in [Process -> [Key -> Stage]] /\ stage'[p][k] = "fetching"
      /\ \A q \in Process : \A x \in Key : q # p \/ x # k => stage'[q][x] = stage[q][x]
  BY <1>1, MoveStage DEF SharedInv, LedgerTypeOK
<1>3. LedgerTypeOK'
  BY <1>1, <1>2 DEF SharedInv, LedgerTypeOK
<1>4. MarkingStored'
  BY <1>1, <1>2 DEF SharedInv, MarkingStored
<1>5. \A q \in Process : Passed(q)' = Passed(q)
  BY <1>1, PassedSame
<1>6. \A q \in Process : \A x \in Passed(q) :
        stage[q][x] = "queued" => stage'[q][x] # "none"
  BY <1>2, PassedKeys DEF SharedInv
<1>7. QED
  BY <1>1, <1>3, <1>4, <1>5, <1>6 DEF StepKeeps

LEMMA FetchFailsKeeps ==
  ASSUME SharedInv, NEW p \in Process, NEW k \in Key, FetchFails(p, k)
  PROVE  StepKeeps
<1>1. PICK s \in {"failed", "none"} : Move(p, k, s)
  BY DEF FetchFails
<1>2. /\ s \in Stage /\ stage[p][k] = "fetching"
      /\ UNCHANGED <<now, minute, next, marked, stored, restored>>
  BY DEF FetchFails, Stage
<1>3. /\ stage' \in [Process -> [Key -> Stage]] /\ stage'[p][k] = s
      /\ \A q \in Process : \A x \in Key : q # p \/ x # k => stage'[q][x] = stage[q][x]
  BY <1>1, <1>2, MoveStage DEF SharedInv, LedgerTypeOK
<1>4. LedgerTypeOK'
  BY <1>2, <1>3 DEF SharedInv, LedgerTypeOK
<1>5. MarkingStored'
  BY <1>2, <1>3 DEF SharedInv, MarkingStored
<1>6. \A q \in Process : Passed(q)' = Passed(q)
  BY <1>2, PassedSame
<1>7. \A q \in Process : \A x \in Passed(q) :
        stage[q][x] = "queued" => stage'[q][x] # "none"
  BY <1>2, <1>3, PassedKeys DEF SharedInv
<1>8. QED
  BY <1>2, <1>4, <1>5, <1>6, <1>7 DEF StepKeeps

LEMMA StoreKeeps ==
  ASSUME SharedInv, NEW p \in Process, NEW k \in Key, Store(p, k)
  PROVE  StepKeeps
<1> DEFINE s == IF k[2] \in Index THEN "marking" ELSE "none"
<1>1. /\ Move(p, k, s) /\ s \in Stage /\ stage[p][k] = "fetching"
      /\ stored' = [stored EXCEPT ![k] = @ + 1]
      /\ UNCHANGED <<now, minute, next, marked, restored>>
  BY DEF Store, Stage
<1>2. /\ stored' \in [Key -> Nat] /\ stored'[k] > 0
      /\ \A x \in Key : stored[x] > 0 => stored'[x] > 0
  BY <1>1 DEF SharedInv, LedgerTypeOK
<1>3. /\ stage' \in [Process -> [Key -> Stage]] /\ stage'[p][k] = s
      /\ \A q \in Process : \A x \in Key : q # p \/ x # k => stage'[q][x] = stage[q][x]
  BY <1>1, MoveStage DEF SharedInv, LedgerTypeOK
<1>4. LedgerTypeOK'
  BY <1>1, <1>2, <1>3 DEF SharedInv, LedgerTypeOK
<1>5. MarkingStored'
  BY <1>2, <1>3 DEF SharedInv, MarkingStored
<1>6. \A q \in Process : Passed(q)' = Passed(q)
  BY <1>1, PassedSame
<1>7. \A q \in Process : \A x \in Passed(q) :
        stage[q][x] = "queued" => stage'[q][x] # "none"
  BY <1>1, <1>3, PassedKeys DEF SharedInv
<1>8. QED
  BY <1>1, <1>2, <1>4, <1>5, <1>6, <1>7 DEF StepKeeps

\* The key whose bit is set leaves the thread, and no other key does.
LEMMA MarkIndexKeeps ==
  ASSUME SharedInv, NEW p \in Process, NEW k \in Key, MarkIndex(p, k)
  PROVE  StepKeeps
<1> USE DEF SharedInv, LedgerTypeOK
<1>1. /\ stage[p][k] = "marking" /\ k[2] \in Index /\ stored[k] > 0
      /\ UNCHANGED <<now, minute, next, stored, restored>>
  BY DEF MarkIndex, MarkingStored
<1>2. /\ stage' \in [Process -> [Key -> Stage]]
      /\ \A q \in Process : \A x \in Key :
           \/ stage'[q][x] = stage[q][x] \/ stage'[q][x] = "queued"
           \/ q = p /\ x = k /\ stage'[q][x] = "none"
  BY DEF MarkIndex, Stage
<1>3. LedgerTypeOK'
  <2>1. marked' \subseteq (0 .. ONE_DAY_MINUTE - 1) \X Index
    BY <1>1, MapBitRange, StoreBitStores DEF MarkIndex
  <2>2. QED
    BY <1>1, <1>2, <2>1
<1>4. MarkingStored'
  <2>1. SUFFICES ASSUME NEW q \in Process, NEW x \in Key, stage'[q][x] = "marking"
                 PROVE  x[2] \in Index /\ stored[x] > 0
    BY <1>1 DEF MarkingStored
  <2>2. stage[q][x] = "marking"
    BY <1>2, <2>1
  <2>3. QED
    BY <2>2 DEF MarkingStored
<1>5. \A q \in Process : Passed(q)' = Passed(q)
  BY <1>1, PassedSame
<1>6. \A q \in Process : \A x \in Passed(q) :
        stage[q][x] = "queued" => stage'[q][x] # "none"
  BY <1>1, <1>2, PassedKeys
<1>7. QED
  BY <1>1, <1>3, <1>4, <1>5, <1>6 DEF StepKeeps

LEMMA RefetchKeeps ==
  ASSUME SharedInv, NEW p \in Process, NEW k \in Key, Refetch(p, k)
  PROVE  StepKeeps
<1>1. /\ Move(p, k, "none") /\ "none" \in Stage /\ stage[p][k] = "failed"
      /\ restored' \in {restored, [restored EXCEPT ![k] = @ + 1]}
      /\ UNCHANGED <<now, minute, next, marked, stored>>
  BY DEF Refetch, Stage
<1>2. restored' \in [Key -> Nat]
  BY <1>1 DEF SharedInv, LedgerTypeOK
<1>3. /\ stage' \in [Process -> [Key -> Stage]] /\ stage'[p][k] = "none"
      /\ \A q \in Process : \A x \in Key : q # p \/ x # k => stage'[q][x] = stage[q][x]
  BY <1>1, MoveStage DEF SharedInv, LedgerTypeOK
<1>4. LedgerTypeOK'
  BY <1>1, <1>2, <1>3 DEF SharedInv, LedgerTypeOK
<1>5. MarkingStored'
  BY <1>1, <1>3 DEF SharedInv, MarkingStored
<1>6. \A q \in Process : Passed(q)' = Passed(q)
  BY <1>1, PassedSame
<1>7. \A q \in Process : \A x \in Passed(q) :
        stage[q][x] = "queued" => stage'[q][x] # "none"
  BY <1>1, <1>3, PassedKeys DEF SharedInv
<1>8. QED
  BY <1>1, <1>4, <1>5, <1>6, <1>7 DEF StepKeeps

-----------------------------------------------------------------------------
(* The theorems. *)

LEMMA SharedNextInv == SharedInv /\ [SharedNext]_sharedVars => SharedInv'
<1> SUFFICES ASSUME SharedInv, [SharedNext]_sharedVars PROVE SharedInv'
  OBVIOUS
<1>1. CASE SharedNext
  <2>1. Observe /\ LedgerNext
    BY <1>1 DEF SharedNext
  <2>2. CASE Tick
    BY <2>1, <2>2, TickKeeps, StepInv
  <2>3. CASE \E p \in Process : Crash(p)
    BY <2>1, <2>3, CrashKeeps, StepInv
  <2>4. ASSUME NEW p \in Process, ProcessStep(p) PROVE StepKeeps
    BY <2>1, <2>4, OpenKeeps, MasterQueuesKeeps, SlaveQueuesKeeps,
       SlaveSkipsKeeps, TakeKeeps, FetchFailsKeeps, StoreKeeps, MarkIndexKeeps,
       RefetchKeeps DEF ProcessStep
  <2>5. QED
    BY <2>1, <2>2, <2>3, <2>4, StepInv DEF LedgerNext
<1>2. CASE UNCHANGED sharedVars
  BY <1>2 DEF SharedInv, LedgerTypeOK, MarkingStored, PassedCleared, Passed,
              WindowOf, MarkMeansStored, NothingMissed, sharedVars, ledgerVars,
              historyVars
<1>3. QED
  BY <1>1, <1>2

LEMMA SharedInvHolds == SharedSpec => []SharedInv
  BY SharedInitInv, SharedNextInv, PTL DEF SharedSpec

(* The state of several processes over one map has its types: no index     *)
(* leaves its range, and no bit outside the map is set.                    *)
THEOREM LedgerTypeCorrect == SharedSpec => []LedgerTypeOK
<1>1. SharedInv => LedgerTypeOK
  BY DEF SharedInv
<1>2. QED
  BY <1>1, SharedInvHolds, PTL

(* Behind a master, a bit that is one tells of a value in Kafka.           *)
THEOREM MarkMeansStoredCorrect == SharedSpec => []MarkMeansStored
<1>1. SharedInv => MarkMeansStored
  BY DEF SharedInv
<1>2. QED
  BY <1>1, SharedInvHolds, PTL

(* No process loses an index of its window, whoever crashes; what a slave  *)
(* skips is stored, but for a slave ahead of every master.                 *)
THEOREM NothingMissedCorrect == SharedSpec => []NothingMissed
<1>1. SharedInv => NothingMissed
  BY DEF SharedInv
<1>2. QED
  BY <1>1, SharedInvHolds, PTL

-----------------------------------------------------------------------------
(* How often a value is pushed.  A process may push the value of an index  *)
(* once for each time it opens the window: until it has, it has the key in *)
(* a stage before the push, or is yet to come to it.                       *)

LastKey(k) == <<k[1], LastIndex>>

Unpushed == {"queued", "fetching", "failed"}

MayPush(p, k) ==
  \/ stage[p][k] \in Unpushed
  \/ next[p] # NoIndex /\ WindowOf(p) = k[1] /\ next[p] <= k[2]

Pushers(k) == {p \in Process : MayPush(p, k)}

\* Of an extra value, for the thread that has stored the last index.
ExtraPushers(k) ==
  {p \in Process : stage[p][k] \in Unpushed \/ stage[p][LastKey(k)] = "marking"}

\* The windows of the minutes a process has come through.
PastWindows(p) == {(t - Delay[p]) % ClockPeriod : t \in 0 .. minute[p]}

Opened == \A p \in Process : next[p] # NoIndex => minute[p] >= 0

StagesPast ==
  \A p \in Process : \A k \in Key :
    stage[p][k] # "none" => k[1] \in PastWindows(p)

\* In its window a process has nothing of an index it is yet to come to.
BehindNext ==
  \A p \in Process : \A k \in Key :
    k[2] \in Index /\ stage[p][k] # "none" /\ WindowOf(p) = k[1] =>
      k[2] < next[p]

\* A process that has an extra task of a window is done with its last index.
LastDone ==
  \A p \in Process : \A k \in Key :
    k[2] \in ExtraIndex /\ stage[p][k] # "none" =>
      /\ stage[p][LastKey(k)] = "none"
      /\ WindowOf(p) = k[1] => LastIndex < next[p]

StageInv == Opened /\ StagesPast /\ BehindNext /\ LastDone

OneChance ==
  \A k \in Key : k[2] \in Index =>
    Pushes(k) + Cardinality(Pushers(k)) <= lives[k[1]]

ExtraChance ==
  \A k \in Key : k[2] \in ExtraIndex =>
    Pushes(k) + Cardinality(ExtraPushers(k)) <= stored[LastKey(k)]

PushInv ==
  /\ SharedInv /\ StageInv
  /\ lives \in [Window -> Nat]
  /\ OneChance /\ ExtraChance

\* The minutes of the clock have windows of their own.
LEMMA WindowInjective ==
  ASSUME NEW d \in Int, NEW x \in 0 .. ClockPeriod - 1, NEW y \in 0 .. ClockPeriod - 1,
         (x - d) % ClockPeriod = (y - d) % ClockPeriod
  PROVE  x = y
<1>1. ClockPeriod \in Nat \ {0} /\ x \in Int /\ y \in Int
  BY LedgerAssumption
<1>2. ASSUME NEW a \in Int, NEW b \in Int, a % ClockPeriod = b % ClockPeriod,
             a < b, b - a < ClockPeriod
      PROVE  FALSE
  <2> DEFINE qa == a \div ClockPeriod
             qb == b \div ClockPeriod
  <2>1. /\ qa \in Int /\ qb \in Int
        /\ a = (ClockPeriod * qa) + (a % ClockPeriod)
        /\ b = (ClockPeriod * qb) + (b % ClockPeriod)
    <3>1. ASSUME NEW m \in Nat \ {0}, NEW c \in Int
          PROVE  c \div m \in Int /\ c = (m * (c \div m)) + (c % m)
      OBVIOUS
    <3>2. QED
      BY <1>1, <3>1
  <2>2. b - a = ClockPeriod * (qb - qa)
    BY <1>1, <1>2, <2>1
  <2> HIDE DEF qa, qb
  <2>3. ASSUME NEW e \in Int, ClockPeriod * e < ClockPeriod, ClockPeriod * e > 0
        PROVE  FALSE
    <3>1. CASE e <= 0
      BY <1>1, <2>3, <3>1
    <3>2. CASE e >= 1
      BY <1>1, <2>3, <3>2
    <3>3. QED
      BY <3>1, <3>2
  <2>4. QED
    BY <1>1, <1>2, <2>1, <2>2, <2>3
<1>3. x - d \in Int /\ y - d \in Int
  BY <1>1
<1>4. CASE x < y
  <2>1. x - d < y - d /\ (y - d) - (x - d) < ClockPeriod
    BY <1>1, <1>4
  <2>2. QED
    BY <1>2, <1>3, <2>1
<1>5. CASE y < x
  <2>1. y - d < x - d /\ (x - d) - (y - d) < ClockPeriod
    BY <1>1, <1>5
  <2>2. QED
    BY <1>2, <1>3, <2>1
<1>6. QED
  BY <1>1, <1>4, <1>5

-----------------------------------------------------------------------------
(* The stages along a step. *)

\* The last key of a window is a key of an index.
LEMMA LastKeyType ==
  ASSUME NEW k \in Key
  PROVE  /\ LastKey(k) \in Key /\ LastKey(k)[1] = k[1] /\ LastKey(k)[2] = LastIndex
         /\ LastIndex \in Index
         /\ k[2] \in Int /\ (k[2] \in ExtraIndex => k[2] \notin Index)
         /\ k[2] \in Index \/ k[2] \in ExtraIndex
  BY LedgerAssumption DEF LastKey, Key, Index, ExtraIndex, LastIndex

\* A producer thread that goes on, or not, and may queue its next key; other
\* keys are only taken out.
LEMMA StagesKept ==
  ASSUME SharedInv, LedgerTypeOK', StageInv, NEW p \in Process, UNCHANGED minute,
         \/ UNCHANGED next
         \/ next[p] \in Index /\ next' = [next EXCEPT ![p] = @ + 1],
         \A q \in Process : \A k \in Key :
           stage'[q][k] # "none" =>
             \/ stage[q][k] # "none"
             \/ q = p /\ next[p] \in Index /\ k = NextKey(p) /\ next' # next
  PROVE  StageInv'
<1> USE DEF SharedInv, LedgerTypeOK, StageInv
<1>1. /\ \A q \in Process : WindowOf(q)' = WindowOf(q) /\ PastWindows(q)' = PastWindows(q)
      /\ \A q \in Process : next[q] \in Int /\ next[q] <= next'[q]
      /\ \A q \in Process : next'[q] # NoIndex => next[q] # NoIndex
  <2>1. \A q \in Process : WindowOf(q)' = WindowOf(q) /\ PastWindows(q)' = PastWindows(q)
    BY DEF WindowOf, PastWindows
  <2>2. \A q \in Process : next[q] \in Int
    BY LedgerAssumption DEF NoIndex
  <2>3. next[p] \in Index => next[p] # NoIndex
    BY DEF NoIndex, Index
  <2>4. CASE UNCHANGED next
    BY <2>1, <2>2, <2>4
  <2>5. CASE next[p] \in Index /\ next' = [next EXCEPT ![p] = @ + 1]
    <3>1. \A q \in Process : next'[q] = IF q = p THEN next[p] + 1 ELSE next[q]
      BY <2>5
    <3>2. \A q \in Process : next[q] <= next'[q]
      BY <2>2, <3>1
    <3>3. \A q \in Process : next'[q] # NoIndex => next[q] # NoIndex
      BY <2>3, <2>5, <3>1
    <3>4. QED
      BY <2>1, <2>2, <3>2, <3>3
  <2>6. QED
    BY <2>4, <2>5
<1>2. Opened'
  BY <1>1 DEF Opened
<1>3. next[p] \in Index => WindowOf(p) \in PastWindows(p)
  <2>1. next[p] \in Index => minute[p] >= 0 /\ minute[p] \in Int
    BY DEF Opened, NoIndex, Index, Window
  <2>2. QED
    BY <2>1 DEF PastWindows, WindowOf
<1>4. StagesPast'
  BY <1>1, <1>3 DEF StagesPast, NextKey
<1>5. BehindNext'
  <2> SUFFICES ASSUME NEW q \in Process, NEW k \in Key, k[2] \in Index,
                      stage'[q][k] # "none", WindowOf(q) = k[1]
               PROVE  k[2] < next'[q]
    BY <1>1 DEF BehindNext
  <2>1. CASE stage[q][k] # "none"
    BY <1>1, <2>1, LastKeyType DEF BehindNext
  <2>2. CASE q = p /\ next[p] \in Index /\ k = NextKey(p) /\ next' # next
    BY <1>1, <2>2 DEF NextKey
  <2>3. QED
    BY <2>1, <2>2
<1>6. LastDone'
  <2> SUFFICES ASSUME NEW q \in Process, NEW k \in Key, k[2] \in ExtraIndex,
                      stage'[q][k] # "none"
               PROVE  /\ stage'[q][LastKey(k)] = "none"
                      /\ WindowOf(q) = k[1] => LastIndex < next'[q]
    BY <1>1 DEF LastDone, LastKey
  <2>1. stage[q][k] # "none"
    BY LastKeyType DEF NextKey
  <2>2. /\ stage[q][LastKey(k)] = "none"
        /\ WindowOf(q) = k[1] => LastIndex < next[q]
    BY <2>1 DEF LastDone
  <2>3. ~(q = p /\ next[p] \in Index /\ LastKey(k) = NextKey(p))
    BY <2>2, <1>1 DEF NextKey, LastKey
  <2>4. LastIndex \in Int
    BY LedgerAssumption DEF LastIndex
  <2>5. QED
    BY <1>1, <2>2, <2>3, <2>4, LastKeyType
<1>7. QED
  BY <1>2, <1>4, <1>5, <1>6

\* An opened window is new to its process.
LEMMA OpenStages ==
  ASSUME SharedInv, LedgerTypeOK', StageInv, NEW p \in Process, NEW t \in Window,
         Open(p, t)
  PROVE  /\ StageInv' /\ WindowOf(p)' \in Window
         /\ \A k \in Key : stage[p][k] # "none" => k[1] # WindowOf(p)'
<1> USE DEF SharedInv, LedgerTypeOK, StageInv, Open
<1>1. /\ minute' = [minute EXCEPT ![p] = t] /\ next' = [next EXCEPT ![p] = 0]
      /\ minute[p] \in Int /\ t \in Nat /\ minute[p] < t /\ t < ClockPeriod
      /\ Delay[p] \in Int /\ ClockPeriod \in Nat
      /\ minute[p] >= -1
  <2>1. minute[p] \in Int /\ minute[p] >= -1
    BY LedgerAssumption DEF Window
  <2>2. ClockPeriod \in Nat /\ Delay[p] \in Int
    BY LedgerAssumption
  <2>3. t \in Nat /\ t < ClockPeriod
    BY <2>2 DEF Window
  <2>4. now \in Int
    BY LedgerAssumption DEF Window
  <2>5. QED
    BY <2>1, <2>2, <2>3, <2>4
<1>2. \A q \in Process : \A k \in Key : stage'[q][k] # "none" => stage[q][k] # "none"
  OBVIOUS
<1>3. /\ WindowOf(p)' = (t - Delay[p]) % ClockPeriod
      /\ PastWindows(p) \subseteq PastWindows(p)'
  BY <1>1 DEF WindowOf, PastWindows
<1>4. \A q \in Process \ {p} :
        /\ WindowOf(q)' = WindowOf(q) /\ PastWindows(q)' = PastWindows(q)
        /\ next'[q] = next[q] /\ minute'[q] = minute[q]
  BY DEF WindowOf, PastWindows
<1>5. WindowOf(p)' \notin PastWindows(p)
  <2> SUFFICES ASSUME NEW s \in 0 .. minute[p],
                      (t - Delay[p]) % ClockPeriod = (s - Delay[p]) % ClockPeriod
               PROVE  FALSE
    BY <1>3 DEF PastWindows
  <2>1. s \in 0 .. ClockPeriod - 1 /\ t \in 0 .. ClockPeriod - 1 /\ s # t
    BY <1>1
  <2>2. QED
    BY <1>1, <2>1, WindowInjective
<1>6. \A k \in Key : stage[p][k] # "none" => k[1] # WindowOf(p)'
  BY <1>5 DEF StagesPast
<1>7. WindowOf(p)' \in Window
  <2>1. t - Delay[p] \in Int /\ ClockPeriod \in Nat \ {0}
    BY <1>1, LedgerAssumption
  <2>2. (t - Delay[p]) % ClockPeriod \in 0 .. ClockPeriod - 1
    BY <2>1, LedgerModRange
  <2>3. QED
    BY <1>3, <2>2 DEF Window
<1>8. Opened'
  <2>1. \A q \in Process \ {p} : next'[q] # NoIndex => minute'[q] >= 0
    BY <1>4 DEF Opened
  <2>2. minute'[p] >= 0
    BY <1>1
  <2>3. QED
    BY <2>1, <2>2 DEF Opened
<1>9. StagesPast'
  BY <1>2, <1>3, <1>4 DEF StagesPast
<1>10. BehindNext'
  <2> SUFFICES ASSUME NEW q \in Process, NEW k \in Key, k[2] \in Index,
                      stage'[q][k] # "none", WindowOf(q)' = k[1]
               PROVE  k[2] < next'[q]
    BY DEF BehindNext
  <2>1. q # p
    BY <1>2, <1>6
  <2>2. QED
    BY <1>2, <1>4, <2>1 DEF BehindNext
<1>11. LastDone'
  <2> SUFFICES ASSUME NEW q \in Process, NEW k \in Key, k[2] \in ExtraIndex,
                      stage'[q][k] # "none"
               PROVE  /\ stage'[q][LastKey(k)] = "none"
                      /\ WindowOf(q)' = k[1] => LastIndex < next'[q]
    BY DEF LastDone, LastKey
  <2>1. stage[q][k] # "none" /\ stage[q][LastKey(k)] = "none"
    BY <1>2 DEF LastDone
  <2>2. stage'[q][LastKey(k)] = "none"
    BY <1>2, <2>1, LastKeyType
  <2>3. CASE q = p
    BY <1>6, <2>1, <2>2, <2>3
  <2>4. CASE q # p
    BY <1>4, <2>1, <2>2, <2>4 DEF LastDone
  <2>5. QED
    BY <2>3, <2>4
<1>12. QED
  BY <1>6, <1>7, <1>8, <1>9, <1>10, <1>11

LEMMA CrashStages ==
  ASSUME SharedInv, LedgerTypeOK', StageInv, NEW p \in Process, Crash(p)
  PROVE  StageInv'
<1> USE DEF SharedInv, LedgerTypeOK, StageInv, Crash
<1>1. /\ next'[p] = NoIndex
      /\ \A k \in Key : stage'[p][k] = "none"
  OBVIOUS
<1>2. \A q \in Process \ {p} :
        /\ WindowOf(q)' = WindowOf(q) /\ PastWindows(q)' = PastWindows(q)
        /\ next'[q] = next[q] /\ minute'[q] = minute[q] /\ stage'[q] = stage[q]
  BY DEF WindowOf, PastWindows
<1>3. Opened'
  BY <1>1, <1>2 DEF Opened
<1>4. StagesPast'
  BY <1>1, <1>2 DEF StagesPast
<1>5. BehindNext'
  BY <1>1, <1>2 DEF BehindNext
<1>6. LastDone'
  BY <1>1, <1>2 DEF LastDone, LastKey
<1>7. QED
  BY <1>3, <1>4, <1>5, <1>6

\* The extra tasks are created when the last index is done with.
LEMMA MarkIndexStages ==
  ASSUME SharedInv, LedgerTypeOK', StageInv, NEW p \in Process, NEW k \in Key,
         MarkIndex(p, k)
  PROVE  StageInv'
<1> USE DEF SharedInv, LedgerTypeOK, StageInv
<1>1. /\ stage[p][k] = "marking" /\ k[2] \in Index
      /\ UNCHANGED <<minute, next>>
  BY DEF MarkIndex, MarkingStored
<1>2. \A q \in Process :
        WindowOf(q)' = WindowOf(q) /\ PastWindows(q)' = PastWindows(q)
  BY <1>1 DEF WindowOf, PastWindows
<1>3. \A q \in Process : \A x \in Key :
        stage'[q][x] # "none" =>
          \/ stage[q][x] # "none" /\ ~(q = p /\ x = k)
          \/ q = p /\ k[2] = LastIndex /\ x[1] = k[1] /\ x[2] \in ExtraIndex
  BY DEF MarkIndex
<1>4. Opened'
  BY <1>1 DEF Opened
<1>5. StagesPast'
  BY <1>1, <1>2, <1>3 DEF StagesPast
<1>6. BehindNext'
  BY <1>1, <1>2, <1>3, LastKeyType DEF BehindNext
<1>7. LastDone'
  <2> SUFFICES ASSUME NEW q \in Process, NEW x \in Key, x[2] \in ExtraIndex,
                      stage'[q][x] # "none"
               PROVE  /\ stage'[q][LastKey(x)] = "none"
                      /\ WindowOf(q) = x[1] => LastIndex < next[q]
    BY <1>1, <1>2 DEF LastDone, LastKey
  <2>1. LastKey(x) \in Key /\ LastKey(x)[2] \notin ExtraIndex
    BY LastKeyType
  <2>2. CASE stage[q][x] # "none"
    BY <1>3, <2>1, <2>2 DEF LastDone
  <2>3. CASE q = p /\ k[2] = LastIndex /\ x[1] = k[1]
    <3>1. LastKey(x) = k
      BY <2>3 DEF LastKey, Key
    <3>2. stage'[q][LastKey(x)] = "none"
      BY <1>3, <2>1, <2>3, <3>1
    <3>3. WindowOf(q) = x[1] => LastIndex < next[q]
      BY <1>1, <2>3 DEF BehindNext
    <3>4. QED
      BY <3>2, <3>3
  <2>4. QED
    BY <1>3, <2>2, <2>3
<1>8. QED
  BY <1>4, <1>5, <1>6, <1>7

-----------------------------------------------------------------------------
(* Counting processes. *)

LEMMA FewerOf ==
  ASSUME NEW S, IsFiniteSet(S), NEW T \in SUBSET S
  PROVE  Cardinality(T) \in Nat /\ Cardinality(S) \in Nat /\ Cardinality(T) <= Cardinality(S)
  BY FS_Subset, FS_CardinalityType

LEMMA OneLeaves ==
  ASSUME NEW S, IsFiniteSet(S), NEW p \in S, NEW T \in SUBSET S, p \notin T
  PROVE  Cardinality(T) + 1 <= Cardinality(S)
<1>1. IsFiniteSet(S \ {p}) /\ Cardinality(S \ {p}) = Cardinality(S) - 1
  BY FS_RemoveElement
<1>2. T \in SUBSET (S \ {p})
  OBVIOUS
<1>3. Cardinality(T) <= Cardinality(S \ {p}) /\ Cardinality(T) \in Nat
  BY <1>1, <1>2, FewerOf
<1>4. Cardinality(S) \in Nat
  BY FS_CardinalityType
<1>5. QED
  BY <1>1, <1>3, <1>4

LEMMA OneJoins ==
  ASSUME NEW S, IsFiniteSet(S), NEW p, NEW T \in SUBSET (S \cup {p})
  PROVE  Cardinality(T) <= Cardinality(S) + 1
<1>1. IsFiniteSet(S \cup {p}) /\ Cardinality(S \cup {p}) <= Cardinality(S) + 1
  <2>1. Cardinality(S) \in Nat
    BY FS_CardinalityType
  <2>2. QED
    BY <2>1, FS_AddElement
<1>2. /\ Cardinality(T) <= Cardinality(S \cup {p}) /\ Cardinality(T) \in Nat
      /\ Cardinality(S \cup {p}) \in Nat
  BY <1>1, FewerOf
<1>3. Cardinality(S) \in Nat
  BY FS_CardinalityType
<1>4. QED
  BY <1>1, <1>2, <1>3

\* The processes counted for a key are finitely many.
LEMMA PushersFinite ==
  ASSUME NEW k
  PROVE  /\ IsFiniteSet(Pushers(k)) /\ Cardinality(Pushers(k)) \in Nat
         /\ IsFiniteSet(ExtraPushers(k)) /\ Cardinality(ExtraPushers(k)) \in Nat
<1>1. Pushers(k) \in SUBSET Process /\ ExtraPushers(k) \in SUBSET Process
  BY DEF Pushers, ExtraPushers
<1>2. QED
  BY <1>1, LedgerAssumption, FS_Subset, FS_CardinalityType

LEMMA PushersFiniteNext ==
  \A k : /\ Cardinality(Pushers(k)') \in Nat /\ Cardinality(ExtraPushers(k)') \in Nat
<1> SUFFICES ASSUME NEW k
             PROVE  /\ Cardinality(Pushers(k)') \in Nat
                    /\ Cardinality(ExtraPushers(k)') \in Nat
  OBVIOUS
<1>1. Pushers(k)' \in SUBSET Process /\ ExtraPushers(k)' \in SUBSET Process
  BY DEF Pushers, ExtraPushers
<1>2. QED
  BY <1>1, LedgerAssumption, FS_Subset, FS_CardinalityType

(* What a step may do to the processes that may push a value: nobody joins *)
(* them; one of them pushes and leaves; or one joins, for an index because *)
(* it opens the window, for an extra value because it stores the last      *)
(* index.                                                                  *)
IndexStep(k) ==
  \/ Pushes(k)' = Pushes(k) /\ Pushers(k)' \subseteq Pushers(k)
  \/ /\ Pushes(k)' = Pushes(k) + 1
     /\ \E p \in Pushers(k) : Pushers(k)' \subseteq Pushers(k) \ {p}
  \/ /\ Pushes(k)' = Pushes(k)
     /\ \E p \in Process : /\ Opens(p) /\ WindowOf(p)' = k[1]
                           /\ Pushers(k)' \subseteq Pushers(k) \cup {p}

ExtraStep(k) ==
  \/ /\ Pushes(k)' = Pushes(k) /\ stored[LastKey(k)] <= stored'[LastKey(k)]
     /\ ExtraPushers(k)' \subseteq ExtraPushers(k)
  \/ /\ Pushes(k)' = Pushes(k) + 1 /\ stored[LastKey(k)] <= stored'[LastKey(k)]
     /\ \E p \in ExtraPushers(k) : ExtraPushers(k)' \subseteq ExtraPushers(k) \ {p}
  \/ /\ Pushes(k)' = Pushes(k) /\ stored[LastKey(k)] + 1 <= stored'[LastKey(k)]
     /\ \E p \in Process : ExtraPushers(k)' \subseteq ExtraPushers(k) \cup {p}

ChanceSteps ==
  \A k \in Key : /\ k[2] \in Index => IndexStep(k)
                 /\ k[2] \in ExtraIndex => ExtraStep(k)

\* The history only counts up.
LEMMA LivesGrow ==
  ASSUME lives \in [Window -> Nat], Observe
  PROVE  /\ lives' \in [Window -> Nat]
         /\ \A w \in Window : lives[w] <= lives'[w]
         /\ \A w \in Window : (\E p \in Process : Opens(p) /\ WindowOf(p)' = w) =>
              lives[w] + 1 <= lives'[w]
<1> DEFINE Openers(w) == {p \in Process : Opens(p) /\ WindowOf(p)' = w}
<1>1. lives' = [w \in Window |-> lives[w] + Cardinality(Openers(w))]
  BY DEF Observe
<1>2. ASSUME NEW w \in Window
      PROVE  /\ IsFiniteSet(Openers(w)) /\ Cardinality(Openers(w)) \in Nat
             /\ Openers(w) # {} => Cardinality(Openers(w)) >= 1
  <2>1. Openers(w) \in SUBSET Process
    OBVIOUS
  <2> HIDE DEF Openers
  <2>2. IsFiniteSet(Openers(w)) /\ Cardinality(Openers(w)) \in Nat
    BY <2>1, LedgerAssumption, FS_Subset, FS_CardinalityType
  <2>3. Cardinality(Openers(w)) = 0 => Openers(w) = {}
    BY <2>2, FS_EmptySet
  <2>4. QED
    BY <2>2, <2>3
<1>3. \A w \in Window : (\E p \in Process : Opens(p) /\ WindowOf(p)' = w) =>
        Openers(w) # {}
  OBVIOUS
<1> HIDE DEF Openers
<1>4. QED
  BY <1>1, <1>2, <1>3

LEMMA OneChanceNext ==
  ASSUME PushInv, Observe, LedgerTypeOK', NEW k \in Key, k[2] \in Index, IndexStep(k)
  PROVE  Pushes(k)' + Cardinality(Pushers(k)') <= lives'[k[1]]
<1>1. Pushes(k) \in Nat /\ Pushes(k)' \in Nat
  BY DEF PushInv, SharedInv, LedgerTypeOK, Pushes
<1>2. k[1] \in Window
  BY DEF Key
<1>3. /\ lives[k[1]] \in Nat /\ lives'[k[1]] \in Nat /\ lives[k[1]] <= lives'[k[1]]
  BY <1>2, LivesGrow DEF PushInv
<1>4. Pushes(k) + Cardinality(Pushers(k)) <= lives[k[1]]
  BY DEF PushInv, OneChance
<1>5. /\ IsFiniteSet(Pushers(k)) /\ Cardinality(Pushers(k)) \in Nat
      /\ Cardinality(Pushers(k)') \in Nat
  BY PushersFinite, PushersFiniteNext
<1>6. CASE Pushes(k)' = Pushes(k) /\ Pushers(k)' \subseteq Pushers(k)
  <2>1. Cardinality(Pushers(k)') <= Cardinality(Pushers(k))
    BY <1>5, <1>6, FewerOf
  <2>2. QED
    BY <1>1, <1>3, <1>4, <1>5, <1>6, <2>1
<1>7. CASE /\ Pushes(k)' = Pushes(k) + 1
           /\ \E p \in Pushers(k) : Pushers(k)' \subseteq Pushers(k) \ {p}
  <2>1. PICK p \in Pushers(k) : Pushers(k)' \subseteq Pushers(k) \ {p}
    BY <1>7
  <2>2. p \notin Pushers(k)' /\ Pushers(k)' \in SUBSET Pushers(k)
    BY <2>1
  <2>3. Cardinality(Pushers(k)') + 1 <= Cardinality(Pushers(k))
    BY <1>5, <2>2, OneLeaves
  <2>4. QED
    BY <1>1, <1>3, <1>4, <1>5, <1>7, <2>3
<1>8. CASE /\ Pushes(k)' = Pushes(k)
           /\ \E p \in Process : /\ Opens(p) /\ WindowOf(p)' = k[1]
                                 /\ Pushers(k)' \subseteq Pushers(k) \cup {p}
  <2>1. PICK p \in Process : /\ Opens(p) /\ WindowOf(p)' = k[1]
                             /\ Pushers(k)' \subseteq Pushers(k) \cup {p}
    BY <1>8
  <2>2. Cardinality(Pushers(k)') <= Cardinality(Pushers(k)) + 1
    BY <1>5, <2>1, OneJoins
  <2>3. lives[k[1]] + 1 <= lives'[k[1]]
    BY <1>2, <2>1, LivesGrow DEF PushInv
  <2>4. QED
    BY <1>1, <1>3, <1>4, <1>5, <1>8, <2>2, <2>3
<1>9. QED
  BY <1>6, <1>7, <1>8 DEF IndexStep

LEMMA ExtraChanceNext ==
  ASSUME PushInv, LedgerTypeOK', NEW k \in Key, k[2] \in ExtraIndex, ExtraStep(k)
  PROVE  Pushes(k)' + Cardinality(ExtraPushers(k)') <= stored'[LastKey(k)]
<1>1. Pushes(k) \in Nat /\ Pushes(k)' \in Nat
  BY DEF PushInv, SharedInv, LedgerTypeOK, Pushes
<1>2. stored[LastKey(k)] \in Nat /\ stored'[LastKey(k)] \in Nat
  BY LastKeyType DEF PushInv, SharedInv, LedgerTypeOK
<1>3. Pushes(k) + Cardinality(ExtraPushers(k)) <= stored[LastKey(k)]
  BY DEF PushInv, ExtraChance
<1>4. /\ IsFiniteSet(ExtraPushers(k)) /\ Cardinality(ExtraPushers(k)) \in Nat
      /\ Cardinality(ExtraPushers(k)') \in Nat
  BY PushersFinite, PushersFiniteNext
<1>5. CASE /\ Pushes(k)' = Pushes(k) /\ stored[LastKey(k)] <= stored'[LastKey(k)]
           /\ ExtraPushers(k)' \subseteq ExtraPushers(k)
  <2>1. Cardinality(ExtraPushers(k)') <= Cardinality(ExtraPushers(k))
    BY <1>4, <1>5, FewerOf
  <2>2. QED
    BY <1>1, <1>2, <1>3, <1>4, <1>5, <2>1
<1>6. CASE /\ Pushes(k)' = Pushes(k) + 1 /\ stored[LastKey(k)] <= stored'[LastKey(k)]
           /\ \E p \in ExtraPushers(k) : ExtraPushers(k)' \subseteq ExtraPushers(k) \ {p}
  <2>1. PICK p \in ExtraPushers(k) : ExtraPushers(k)' \subseteq ExtraPushers(k) \ {p}
    BY <1>6
  <2>2. p \notin ExtraPushers(k)' /\ ExtraPushers(k)' \in SUBSET ExtraPushers(k)
    BY <2>1
  <2>3. Cardinality(ExtraPushers(k)') + 1 <= Cardinality(ExtraPushers(k))
    BY <1>4, <2>2, OneLeaves
  <2>4. QED
    BY <1>1, <1>2, <1>3, <1>4, <1>6, <2>3
<1>7. CASE /\ Pushes(k)' = Pushes(k) /\ stored[LastKey(k)] + 1 <= stored'[LastKey(k)]
           /\ \E p \in Process : ExtraPushers(k)' \subseteq ExtraPushers(k) \cup {p}
  <2>1. PICK p \in Process : ExtraPushers(k)' \subseteq ExtraPushers(k) \cup {p}
    BY <1>7
  <2>2. Cardinality(ExtraPushers(k)') <= Cardinality(ExtraPushers(k)) + 1
    BY <1>4, <2>1, OneJoins
  <2>3. QED
    BY <1>1, <1>2, <1>3, <1>4, <1>7, <2>2
<1>8. QED
  BY <1>5, <1>6, <1>7 DEF ExtraStep

LEMMA ChancesKept ==
  ASSUME PushInv, Observe, LedgerTypeOK', ChanceSteps
  PROVE  OneChance' /\ ExtraChance'
<1>1. OneChance'
  BY OneChanceNext DEF OneChance, ChanceSteps
<1>2. ExtraChance'
  BY ExtraChanceNext DEF ExtraChance, ChanceSteps, LastKey
<1>3. QED
  BY <1>1, <1>2

-----------------------------------------------------------------------------
(* The actions, again: the stages they keep and whom they let push. *)

PushKeeps == StageInv' /\ ChanceSteps

\* A step that pushes nothing, and after which nobody may push who did not.
LEMMA NobodyJoins ==
  ASSUME PushInv, UNCHANGED <<stored, restored>>,
         \A q \in Process : \A k \in Key : MayPush(q, k)' => MayPush(q, k),
         \A q \in Process : \A k \in Key :
           k[2] \in ExtraIndex /\ stage'[q][k] \in Unpushed =>
             stage[q][k] \in Unpushed \/ stage[q][LastKey(k)] = "marking",
         \A q \in Process : \A k \in Key :
           stage'[q][k] = "marking" => stage[q][k] = "marking"
  PROVE  ChanceSteps
<1>1. ASSUME NEW k \in Key, k[2] \in Index PROVE IndexStep(k)
  BY DEF IndexStep, Pushes, Pushers
<1>2. ASSUME NEW k \in Key, k[2] \in ExtraIndex PROVE ExtraStep(k)
  <2>1. LastKey(k) \in Key /\ LastKey(k)' = LastKey(k)
    BY LastKeyType DEF LastKey
  <2>2. ExtraPushers(k)' \subseteq ExtraPushers(k)
    BY <1>2, <2>1 DEF ExtraPushers
  <2>3. stored[LastKey(k)] <= stored'[LastKey(k)]
    BY <2>1 DEF PushInv, SharedInv, LedgerTypeOK
  <2>4. QED
    BY <2>2, <2>3 DEF ExtraStep, Pushes
<1>3. QED
  BY <1>1, <1>2 DEF ChanceSteps
\* A key moves from one stage before the push to another, or is dropped.
LEMMA MovePushes ==
  ASSUME PushInv, LedgerTypeOK', UNCHANGED <<minute, next, stored, restored>>,
         NEW p \in Process, NEW k \in Key, NEW s \in Unpushed \cup {"none"},
         Move(p, k, s), stage[p][k] \in Unpushed
  PROVE  PushKeeps
<1>1. /\ stage'[p][k] = s
      /\ \A q \in Process : \A x \in Key : q # p \/ x # k => stage'[q][x] = stage[q][x]
  BY MoveStage DEF PushInv, SharedInv, LedgerTypeOK, Unpushed, Stage
<1>2. \A q \in Process : \A x \in Key :
        /\ stage'[q][x] # "none" => stage[q][x] # "none"
        /\ stage'[q][x] \in Unpushed => stage[q][x] \in Unpushed
        /\ stage'[q][x] = "marking" => stage[q][x] = "marking"
  BY <1>1 DEF Unpushed
<1>3. StageInv'
  BY <1>2, StagesKept DEF PushInv
<1>4. \A q \in Process : \A x \in Key : MayPush(q, x)' => MayPush(q, x)
  BY <1>2 DEF MayPush, WindowOf
<1>5. ChanceSteps
  BY <1>2, <1>4, NobodyJoins
<1>6. QED
  BY <1>3, <1>5 DEF PushKeeps

LEMMA TickPushes ==
  ASSUME PushInv, LedgerTypeOK',
         UNCHANGED <<minute, next, stage, stored, restored>>
  PROVE  PushKeeps
<1>1. PICK p \in Process : TRUE
  BY LedgerAssumption
<1>2. StageInv'
  BY <1>1, StagesKept DEF PushInv
<1>3. \A q \in Process : \A x \in Key : MayPush(q, x)' => MayPush(q, x)
  BY DEF MayPush, WindowOf
<1>4. ChanceSteps
  BY <1>3, NobodyJoins
<1>5. QED
  BY <1>2, <1>4 DEF PushKeeps

\* A thread that may push the next key before it is queued may push it after.
LEMMA QueuePushes ==
  ASSUME PushInv, LedgerTypeOK', NEW p \in Process, next[p] \in Index, PushTask(p),
         UNCHANGED <<minute, stored, restored>>
  PROVE  PushKeeps
<1>1. CASE UNCHANGED <<next, stage>>
  BY <1>1, TickPushes
<1>2. CASE next' = [next EXCEPT ![p] = @ + 1] /\ Move(p, NextKey(p), "queued")
  <2>1. NextKey(p) \in Key /\ NextKey(p)[2] \in Index /\ NextKey(p) = <<WindowOf(p), next[p]>>
    BY NextKeyType DEF PushInv, SharedInv, NextKey
  <2>2. /\ stage'[p][NextKey(p)] = "queued"
        /\ \A q \in Process : \A x \in Key :
             q # p \/ x # NextKey(p) => stage'[q][x] = stage[q][x]
    BY <1>2, <2>1, MoveStage DEF PushInv, SharedInv, LedgerTypeOK, Stage
  <2>3. next[p] \in Int /\ next[p] # NoIndex /\ next'[p] = next[p] + 1
    <3>1. next \in [Process -> 0 .. MAX_FETCH_INDEX \cup {NoIndex}]
      BY DEF PushInv, SharedInv, LedgerTypeOK
    <3>2. next[p] \in Int /\ next[p] # NoIndex
      BY LedgerAssumption DEF NoIndex, Index, LastIndex
    <3>3. QED
      BY <1>2, <3>1, <3>2
  <2>4. StageInv'
    <3>1. next' # next
      BY <2>3
    <3>2. \A q \in Process : \A x \in Key :
            stage'[q][x] # "none" =>
              stage[q][x] # "none" \/ (q = p /\ x = NextKey(p))
      BY <2>2
    <3>3. QED
      BY <1>2, <3>1, <3>2, StagesKept DEF PushInv
  <2>5. \A q \in Process \ {p} : next'[q] = next[q] /\ WindowOf(q)' = WindowOf(q)
    BY <1>2 DEF WindowOf
  <2>6. \A x \in Key : MayPush(p, x)' => MayPush(p, x)
    <3> SUFFICES ASSUME NEW x \in Key, MayPush(p, x)' PROVE MayPush(p, x)
      OBVIOUS
    <3>1. CASE x = NextKey(p)
      BY <2>1, <2>3, <3>1 DEF MayPush
    <3>2. CASE x # NextKey(p)
      <4>1. WindowOf(p)' = WindowOf(p) /\ x[2] \in Int
        BY LastKeyType DEF WindowOf
      <4>2. stage'[p][x] = stage[p][x]
        BY <2>2, <3>2
      <4>3. next'[p] <= x[2] => next[p] <= x[2]
        BY <2>3, <4>1
      <4>4. QED
        BY <2>3, <4>1, <4>2, <4>3 DEF MayPush
    <3>3. QED
      BY <3>1, <3>2
  <2>7. \A q \in Process : \A x \in Key : MayPush(q, x)' => MayPush(q, x)
    BY <2>2, <2>5, <2>6 DEF MayPush
  <2>8. \A q \in Process : \A x \in Key :
          /\ x[2] \in ExtraIndex => stage'[q][x] = stage[q][x]
          /\ stage'[q][x] = "marking" => stage[q][x] = "marking"
    BY <2>1, <2>2, LastKeyType
  <2>9. ChanceSteps
    BY <2>7, <2>8, NobodyJoins
  <2>10. QED
    BY <2>4, <2>9 DEF PushKeeps
<1>3. QED
  BY <1>1, <1>2 DEF PushTask

LEMMA SkipPushes ==
  ASSUME PushInv, LedgerTypeOK', NEW p \in Process, SlaveSkips(p)
  PROVE  PushKeeps
<1>1. /\ next[p] \in Index /\ next' = [next EXCEPT ![p] = @ + 1]
      /\ UNCHANGED <<minute, stage, stored, restored>>
  BY DEF SlaveSkips
<1>2. StageInv'
  BY <1>1, StagesKept DEF PushInv
<1>3. \A q \in Process : next[q] \in Int /\ next'[q] \in {next[q], next[q] + 1}
  <2>1. next \in [Process -> 0 .. MAX_FETCH_INDEX \cup {NoIndex}]
    BY DEF PushInv, SharedInv, LedgerTypeOK
  <2>2. \A q \in Process : next[q] \in Int
    BY <2>1, LedgerAssumption DEF NoIndex
  <2>3. QED
    BY <1>1, <2>1, <2>2
<1>4. next[p] # NoIndex
  BY <1>1 DEF NoIndex, Index
<1>5. \A q \in Process : \A x \in Key : MayPush(q, x)' => MayPush(q, x)
  <2> SUFFICES ASSUME NEW q \in Process, NEW x \in Key, MayPush(q, x)'
               PROVE  MayPush(q, x)
    OBVIOUS
  <2>1. x[2] \in Int /\ WindowOf(q)' = WindowOf(q)
    BY <1>1, LastKeyType DEF WindowOf
  <2>2. next'[q] # NoIndex => next[q] # NoIndex
    BY <1>1, <1>4
  <2>3. next'[q] <= x[2] => next[q] <= x[2]
    BY <1>3, <2>1
  <2>4. QED
    BY <1>1, <2>1, <2>2, <2>3 DEF MayPush
<1>6. ChanceSteps
  BY <1>1, <1>5, NobodyJoins
<1>7. QED
  BY <1>2, <1>6 DEF PushKeeps

LEMMA CrashPushes ==
  ASSUME PushInv, LedgerTypeOK', NEW p \in Process, Crash(p)
  PROVE  PushKeeps
<1>1. StageInv'
  BY CrashStages DEF PushInv
<1>2. /\ next'[p] = NoIndex /\ \A x \in Key : stage'[p][x] = "none"
      /\ \A q \in Process \ {p} :
           /\ next'[q] = next[q] /\ minute'[q] = minute[q] /\ stage'[q] = stage[q]
      /\ UNCHANGED <<stored, restored>>
  BY DEF PushInv, SharedInv, LedgerTypeOK, Crash
<1>3. \A q \in Process : \A x \in Key : MayPush(q, x)' => MayPush(q, x)
  BY <1>2 DEF MayPush, WindowOf, Unpushed
<1>4. ChanceSteps
  BY <1>2, <1>3, NobodyJoins DEF Unpushed
<1>5. QED
  BY <1>1, <1>4 DEF PushKeeps

\* The process that opens a window is the one that gains a chance, for the
\* keys of that window; what of the last one was queued is gone.
LEMMA OpenPushes ==
  ASSUME PushInv, LedgerTypeOK', NEW p \in Process, NEW t \in Window, Open(p, t)
  PROVE  PushKeeps
<1>1. StageInv' /\ \A k \in Key : stage[p][k] # "none" => k[1] # WindowOf(p)'
  BY OpenStages DEF PushInv
<1>2. /\ next'[p] = 0 /\ minute'[p] = t /\ minute[p] # t
      /\ \A q \in Process \ {p} :
           /\ next'[q] = next[q] /\ minute'[q] = minute[q] /\ stage'[q] = stage[q]
      /\ UNCHANGED <<stored, restored>>
  <2>1. /\ next' = [next EXCEPT ![p] = 0] /\ minute' = [minute EXCEPT ![p] = t]
        /\ t \in minute[p] + 1 .. now /\ UNCHANGED <<stored, restored>>
        /\ \A q \in Process \ {p} : stage'[q] = stage[q]
    BY DEF Open, PushInv, SharedInv, LedgerTypeOK
  <2>2. minute[p] \in Int /\ t \in Int
    BY LedgerAssumption DEF PushInv, SharedInv, LedgerTypeOK, Window
  <2>3. QED
    BY <2>1, <2>2 DEF PushInv, SharedInv, LedgerTypeOK
<1>3. \A q \in Process : \A x \in Key : stage'[q][x] \in {stage[q][x], "none"}
  BY DEF PushInv, SharedInv, LedgerTypeOK, Open
<1>4. Opens(p)
  BY <1>2 DEF Opens
<1>5. \A q \in Process \ {p} : WindowOf(q)' = WindowOf(q)
  BY <1>2 DEF WindowOf
<1>6. ASSUME NEW k \in Key, k[2] \in Index PROVE IndexStep(k)
  <2>1. Pushes(k)' = Pushes(k)
    BY <1>2 DEF Pushes
  <2>2. \A q \in Process \ {p} : MayPush(q, k)' => MayPush(q, k)
    BY <1>2, <1>5 DEF MayPush
  <2>3. CASE k[1] = WindowOf(p)'
    <3>1. Pushers(k)' \subseteq Pushers(k) \cup {p}
      BY <2>2 DEF Pushers
    <3>2. QED
      BY <1>4, <2>1, <2>3, <3>1 DEF IndexStep
  <2>4. CASE k[1] # WindowOf(p)'
    <3>1. MayPush(p, k)' => MayPush(p, k)
      BY <1>3, <2>4 DEF MayPush, Unpushed
    <3>2. Pushers(k)' \subseteq Pushers(k)
      BY <2>2, <3>1 DEF Pushers
    <3>3. QED
      BY <2>1, <3>2 DEF IndexStep
  <2>5. QED
    BY <2>3, <2>4
<1>7. ASSUME NEW k \in Key, k[2] \in ExtraIndex PROVE ExtraStep(k)
  <2>1. LastKey(k) \in Key /\ LastKey(k)' = LastKey(k)
    BY LastKeyType DEF LastKey
  <2>2. ExtraPushers(k)' \subseteq ExtraPushers(k)
    BY <1>3, <2>1 DEF ExtraPushers, Unpushed
  <2>3. Pushes(k)' = Pushes(k) /\ stored[LastKey(k)] <= stored'[LastKey(k)]
    BY <1>2, <2>1 DEF Pushes, PushInv, SharedInv, LedgerTypeOK
  <2>4. QED
    BY <2>2, <2>3 DEF ExtraStep
<1>8. QED
  BY <1>1, <1>6, <1>7 DEF PushKeeps, ChanceSteps
\* The value is in Kafka: of the index, the process may not push it again; of
\* the last index, the thread may now create the extra tasks.
LEMMA StorePushes ==
  ASSUME PushInv, LedgerTypeOK', NEW p \in Process, NEW k \in Key, Store(p, k)
  PROVE  PushKeeps
<1> DEFINE s == IF k[2] \in Index THEN "marking" ELSE "none"
<1>1. /\ Move(p, k, s) /\ s \in Stage /\ stage[p][k] = "fetching"
      /\ stored' = [stored EXCEPT ![k] = @ + 1]
      /\ UNCHANGED <<minute, next, restored>>
  BY DEF Store, Stage
<1>2. /\ stage'[p][k] = s
      /\ \A q \in Process : \A x \in Key : q # p \/ x # k => stage'[q][x] = stage[q][x]
  BY <1>1, MoveStage DEF PushInv, SharedInv, LedgerTypeOK
<1>3. \A q \in Process : \A x \in Key : stage'[q][x] # "none" => stage[q][x] # "none"
  BY <1>1, <1>2
<1>4. StageInv'
  BY <1>1, <1>3, StagesKept DEF PushInv
<1>5. /\ \A x \in Key : stored[x] \in Nat /\ stored[x] <= stored'[x]
      /\ stored'[k] = stored[k] + 1
      /\ \A x \in Key : restored[x] \in Nat
      /\ \A x \in Key \ {k} : Pushes(x)' = Pushes(x)
      /\ Pushes(k)' = Pushes(k) + 1
  <2>1. stored \in [Key -> Nat] /\ restored \in [Key -> Nat]
    BY DEF PushInv, SharedInv, LedgerTypeOK
  <2>2. stored'[k] = stored[k] + 1 /\ \A x \in Key \ {k} : stored'[x] = stored[x]
    BY <1>1, <2>1
  <2>3. \A x \in Key : stored[x] \in Nat /\ restored[x] \in Nat /\ restored'[x] = restored[x]
    BY <1>1, <2>1
  <2>4. \A x \in Key : stored[x] <= stored'[x]
    BY <2>2, <2>3
  <2>5. \A x \in Key \ {k} : Pushes(x)' = Pushes(x)
    BY <2>2, <2>3 DEF Pushes
  <2>6. Pushes(k)' = Pushes(k) + 1
    BY <2>2, <2>3 DEF Pushes
  <2>7. QED
    BY <2>2, <2>3, <2>4, <2>5, <2>6
<1>6. \A q \in Process : WindowOf(q)' = WindowOf(q) /\ next'[q] = next[q]
  BY <1>1 DEF WindowOf
<1>7. \A q \in Process : \A x \in Key :
        stage'[q][x] \in Unpushed => stage[q][x] \in Unpushed
  BY <1>1, <1>2 DEF Unpushed
<1>8. ASSUME NEW x \in Key, x[2] \in Index PROVE IndexStep(x)
  <2>1. Pushers(x)' \subseteq Pushers(x)
    BY <1>6, <1>7 DEF Pushers, MayPush
  <2>2. CASE x # k
    BY <1>5, <2>1, <2>2 DEF IndexStep
  <2>3. CASE x = k
    <3>1. p \in Pushers(k)
      BY <1>1 DEF Pushers, MayPush, Unpushed
    <3>2. WindowOf(p) = k[1] => k[2] < next[p]
      BY <1>1, <1>8, <2>3 DEF PushInv, StageInv, BehindNext
    <3>3. next[p] \in Int /\ k[2] \in Int
      BY LastKeyType, LedgerAssumption DEF PushInv, SharedInv, LedgerTypeOK, NoIndex
    <3>4. ~MayPush(p, k)'
      BY <1>2, <1>6, <1>8, <2>3, <3>2, <3>3 DEF MayPush, Unpushed
    <3>5. Pushers(k)' \subseteq Pushers(k) \ {p}
      BY <2>1, <2>3, <3>4 DEF Pushers
    <3>6. QED
      BY <1>5, <2>3, <3>1, <3>5 DEF IndexStep
  <2>4. QED
    BY <2>2, <2>3
<1>9. ASSUME NEW x \in Key, x[2] \in ExtraIndex PROVE ExtraStep(x)
  <2>1. LastKey(x) \in Key /\ LastKey(x)' = LastKey(x) /\ LastKey(x) # x
    BY <1>9, LastKeyType DEF LastKey
  <2>2. CASE x = k
    <3>1. stage[p][LastKey(k)] = "none" /\ stage'[p][LastKey(k)] = "none"
      BY <1>1, <1>2, <1>9, <2>1, <2>2 DEF PushInv, StageInv, LastDone
    <3>2. p \in ExtraPushers(k)
      BY <1>1 DEF ExtraPushers, Unpushed
    <3>3. stage'[p][k] = "none"
      BY <1>2, <1>9, <2>2, LastKeyType
    <3>4. ExtraPushers(k)' \subseteq ExtraPushers(k) \ {p}
      BY <1>2, <2>1, <2>2, <3>1, <3>3 DEF ExtraPushers, Unpushed
    <3>5. QED
      BY <1>5, <2>1, <2>2, <3>2, <3>4 DEF ExtraStep
  <2>3. CASE LastKey(x) = k
    <3>1. \A q \in Process \ {p} : q \in ExtraPushers(x)' => q \in ExtraPushers(x)
      BY <1>2, <2>1 DEF ExtraPushers
    <3>2. ExtraPushers(x)' \subseteq ExtraPushers(x) \cup {p}
      BY <3>1 DEF ExtraPushers
    <3>3. Pushes(x)' = Pushes(x)
      BY <1>5, <2>1, <2>3
    <3>4. stored[LastKey(x)] + 1 <= stored'[LastKey(x)]
      BY <1>5, <2>3
    <3>5. QED
      BY <3>2, <3>3, <3>4 DEF ExtraStep
  <2>4. CASE x # k /\ LastKey(x) # k
    <3>1. ExtraPushers(x)' \subseteq ExtraPushers(x)
      BY <1>2, <2>1, <2>4 DEF ExtraPushers
    <3>2. QED
      BY <1>5, <2>1, <2>4, <3>1 DEF ExtraStep
  <2>5. QED
    BY <2>2, <2>3, <2>4
<1>10. QED
  BY <1>4, <1>8, <1>9 DEF PushKeeps, ChanceSteps

\* The chance of a thread that marks the last index goes on to the extra tasks.
LEMMA MarkIndexPushes ==
  ASSUME PushInv, LedgerTypeOK', NEW p \in Process, NEW k \in Key, MarkIndex(p, k)
  PROVE  PushKeeps
<1>1. StageInv'
  BY MarkIndexStages DEF PushInv
<1>2. /\ stage[p][k] = "marking" /\ UNCHANGED <<minute, next, stored, restored>>
      /\ \A q \in Process : \A x \in Key :
           \/ stage'[q][x] = stage[q][x] \/ stage'[q][x] = "none"
           \/ /\ q = p /\ k[2] = LastIndex /\ x[1] = k[1] /\ x[2] \in ExtraIndex
              /\ stage'[q][x] = "queued"
  BY DEF MarkIndex, PushInv, SharedInv, LedgerTypeOK
<1>3. \A q \in Process : WindowOf(q)' = WindowOf(q) /\ next'[q] = next[q]
  BY <1>2 DEF WindowOf
<1>4. ASSUME NEW x \in Key, x[2] \in Index PROVE IndexStep(x)
  <2>1. \A q \in Process : stage'[q][x] \in {stage[q][x], "none"}
    BY <1>2, <1>4, LastKeyType
  <2>2. Pushers(x)' \subseteq Pushers(x)
    BY <1>3, <2>1 DEF Pushers, MayPush, Unpushed
  <2>3. QED
    BY <1>2, <2>2 DEF IndexStep, Pushes
<1>5. ASSUME NEW x \in Key, x[2] \in ExtraIndex PROVE ExtraStep(x)
  <2>1. LastKey(x) \in Key /\ LastKey(x)' = LastKey(x) /\ LastKey(x)[2] \notin ExtraIndex
    BY LastKeyType DEF LastKey
  <2>2. \A q \in Process : stage'[q][LastKey(x)] \in {stage[q][LastKey(x)], "none"}
    BY <1>2, <2>1
  <2>3. \A q \in Process : stage'[q][x] \in Unpushed =>
          stage[q][x] \in Unpushed \/ stage[q][LastKey(x)] = "marking"
    <3> SUFFICES ASSUME NEW q \in Process, stage'[q][x] \in Unpushed
                 PROVE  stage[q][x] \in Unpushed \/ stage[q][LastKey(x)] = "marking"
      OBVIOUS
    <3>1. CASE stage'[q][x] = stage[q][x]
      BY <3>1
    <3>2. CASE q = p /\ k[2] = LastIndex /\ x[1] = k[1]
      <4>1. k = LastKey(x)
        BY <3>2 DEF LastKey, Key
      <4>2. QED
        BY <1>2, <3>2, <4>1
    <3>3. QED
      BY <1>2, <3>1, <3>2 DEF Unpushed
  <2>4. ExtraPushers(x)' \subseteq ExtraPushers(x)
    BY <2>1, <2>2, <2>3 DEF ExtraPushers
  <2>5. stored[LastKey(x)] <= stored'[LastKey(x)]
    BY <1>2, <2>1 DEF PushInv, SharedInv, LedgerTypeOK
  <2>6. QED
    BY <1>2, <2>4, <2>5 DEF ExtraStep, Pushes
<1>6. QED
  BY <1>1, <1>4, <1>5 DEF PushKeeps, ChanceSteps

LEMMA RefetchPushes ==
  ASSUME PushInv, LedgerTypeOK', NEW p \in Process, NEW k \in Key, Refetch(p, k)
  PROVE  PushKeeps
<1>1. /\ Move(p, k, "none") /\ stage[p][k] = "failed"
      /\ restored' \in {restored, [restored EXCEPT ![k] = @ + 1]}
      /\ UNCHANGED <<minute, next, stored>>
  BY DEF Refetch
<1>2. CASE UNCHANGED restored
  BY <1>1, <1>2, MovePushes DEF Unpushed
<1>3. CASE restored' = [restored EXCEPT ![k] = @ + 1]
  <2>1. /\ stage'[p][k] = "none"
        /\ \A q \in Process : \A x \in Key : q # p \/ x # k => stage'[q][x] = stage[q][x]
    BY <1>1, MoveStage DEF PushInv, SharedInv, LedgerTypeOK, Stage
  <2>2. \A q \in Process : \A x \in Key : stage'[q][x] \in {stage[q][x], "none"}
    BY <2>1
  <2>3. StageInv'
    BY <1>1, <2>2, StagesKept DEF PushInv
  <2>4. /\ \A x \in Key : stored'[x] = stored[x] /\ stored[x] <= stored'[x]
        /\ \A x \in Key \ {k} : Pushes(x)' = Pushes(x)
        /\ Pushes(k)' = Pushes(k) + 1
    <3>1. stored \in [Key -> Nat] /\ restored \in [Key -> Nat]
      BY DEF PushInv, SharedInv, LedgerTypeOK
    <3>2. restored'[k] = restored[k] + 1 /\ \A x \in Key \ {k} : restored'[x] = restored[x]
      BY <1>3, <3>1
    <3>3. \A x \in Key : stored[x] \in Nat /\ restored[x] \in Nat /\ stored'[x] = stored[x]
      BY <1>1, <3>1
    <3>4. QED
      BY <3>2, <3>3 DEF Pushes
  <2>5. \A q \in Process : WindowOf(q)' = WindowOf(q) /\ next'[q] = next[q]
    BY <1>1 DEF WindowOf
  <2>6. ASSUME NEW x \in Key, x[2] \in Index PROVE IndexStep(x)
    <3>1. Pushers(x)' \subseteq Pushers(x)
      BY <2>2, <2>5 DEF Pushers, MayPush, Unpushed
    <3>2. CASE x # k
      BY <2>4, <3>1, <3>2 DEF IndexStep
    <3>3. CASE x = k
      <4>1. p \in Pushers(k)
        BY <1>1 DEF Pushers, MayPush, Unpushed
      <4>2. WindowOf(p) = k[1] => k[2] < next[p]
        BY <1>1, <2>6, <3>3 DEF PushInv, StageInv, BehindNext
      <4>3. next[p] \in Int /\ k[2] \in Int
        BY LastKeyType, LedgerAssumption DEF PushInv, SharedInv, LedgerTypeOK, NoIndex
      <4>4. ~MayPush(p, k)'
        BY <2>1, <2>5, <4>2, <4>3 DEF MayPush, Unpushed
      <4>5. Pushers(k)' \subseteq Pushers(k) \ {p}
        BY <3>1, <3>3, <4>4 DEF Pushers
      <4>6. QED
        BY <2>4, <3>3, <4>1, <4>5 DEF IndexStep
    <3>4. QED
      BY <3>2, <3>3
  <2>7. ASSUME NEW x \in Key, x[2] \in ExtraIndex PROVE ExtraStep(x)
    <3>1. LastKey(x) \in Key /\ LastKey(x)' = LastKey(x)
      BY LastKeyType DEF LastKey
    <3>2. ExtraPushers(x)' \subseteq ExtraPushers(x)
      BY <2>2, <3>1 DEF ExtraPushers, Unpushed
    <3>3. CASE x # k
      BY <2>4, <3>1, <3>2, <3>3 DEF ExtraStep
    <3>4. CASE x = k
      <4>1. stage[p][LastKey(k)] = "none" /\ stage'[p][LastKey(k)] = "none"
        BY <1>1, <2>2, <2>7, <3>1, <3>4 DEF PushInv, StageInv, LastDone
      <4>2. p \in ExtraPushers(k)
        BY <1>1 DEF ExtraPushers, Unpushed
      <4>3. p \notin ExtraPushers(k)'
        BY <2>1, <3>1, <3>4, <4>1 DEF ExtraPushers, Unpushed
      <4>4. ExtraPushers(k)' \subseteq ExtraPushers(k) \ {p}
        BY <3>2, <3>4, <4>3
      <4>5. QED
        BY <2>4, <3>1, <3>4, <4>2, <4>4 DEF ExtraStep
    <3>5. QED
      BY <3>3, <3>4
  <2>8. QED
    BY <2>3, <2>6, <2>7 DEF PushKeeps, ChanceSteps
<1>4. QED
  BY <1>1, <1>2, <1>3

-----------------------------------------------------------------------------
(* The theorems about pushes. *)

LEMMA PushInitInv == SharedInit => PushInv
<1> SUFFICES ASSUME SharedInit PROVE PushInv
  OBVIOUS
<1>1. SharedInv
  BY SharedInitInv
<1>2. /\ \A p \in Process : next[p] = NoIndex
      /\ \A p \in Process : \A k \in Key : stage[p][k] = "none"
  BY DEF SharedInit, LedgerInit
<1>3. StageInv
  BY <1>2 DEF StageInv, Opened, StagesPast, BehindNext, LastDone
<1>4. lives \in [Window -> Nat] /\ \A w \in Window : lives[w] = 0
  BY DEF SharedInit
<1>5. \A k \in Key : Pushes(k) = 0 /\ stored[k] = 0
  BY DEF SharedInit, LedgerInit, Pushes
<1>6. ASSUME NEW k \in Key PROVE Pushers(k) = {} /\ ExtraPushers(k) = {}
  BY <1>2, LastKeyType DEF Pushers, ExtraPushers, MayPush, Unpushed
<1>7. Cardinality({}) = 0
  BY FS_EmptySet
<1>8. OneChance
  <2> SUFFICES ASSUME NEW k \in Key
               PROVE  Pushes(k) + Cardinality(Pushers(k)) <= lives[k[1]]
    BY DEF OneChance
  <2>1. k[1] \in Window
    BY DEF Key
  <2>2. lives[k[1]] = 0 /\ Pushes(k) = 0 /\ Cardinality(Pushers(k)) = 0
    BY <1>4, <1>5, <1>6, <1>7, <2>1
  <2>3. QED
    BY <2>2
<1>9. ExtraChance
  <2> SUFFICES ASSUME NEW k \in Key
               PROVE  Pushes(k) + Cardinality(ExtraPushers(k)) <= stored[LastKey(k)]
    BY DEF ExtraChance
  <2>1. stored[LastKey(k)] = 0
    BY <1>5, LastKeyType
  <2>2. Pushes(k) = 0 /\ Cardinality(ExtraPushers(k)) = 0
    BY <1>5, <1>6, <1>7
  <2>3. QED
    BY <2>1, <2>2
<1>10. QED
  BY <1>1, <1>3, <1>4, <1>8, <1>9 DEF PushInv

LEMMA PushNextInv == PushInv /\ [SharedNext]_sharedVars => PushInv'
<1> SUFFICES ASSUME PushInv, [SharedNext]_sharedVars PROVE PushInv'
  OBVIOUS
<1>1. SharedInv' /\ LedgerTypeOK'
  BY SharedNextInv DEF PushInv, SharedInv
<1>2. CASE SharedNext
  <2>1. Observe /\ LedgerNext
    BY <1>2 DEF SharedNext
  <2>2. PushKeeps
    <3>1. CASE Tick
      BY <1>1, <3>1, TickPushes DEF Tick
    <3>2. ASSUME NEW p \in Process, Crash(p) PROVE PushKeeps
      BY <1>1, <3>2, CrashPushes
    <3>3. ASSUME NEW p \in Process, ProcessStep(p) PROVE PushKeeps
      <4>1. ASSUME NEW t \in Window, Open(p, t) PROVE PushKeeps
        BY <1>1, <4>1, OpenPushes
      <4>2. CASE MasterQueues(p)
        BY <1>1, <4>2, QueuePushes DEF MasterQueues
      <4>3. CASE SlaveQueues(p)
        BY <1>1, <4>3, QueuePushes DEF SlaveQueues
      <4>4. CASE SlaveSkips(p)
        BY <1>1, <4>4, SkipPushes
      <4>5. ASSUME NEW k \in Key, Take(p, k) PROVE PushKeeps
        BY <1>1, <4>5, MovePushes DEF Take, Unpushed
      <4>6. ASSUME NEW k \in Key, FetchFails(p, k) PROVE PushKeeps
        BY <1>1, <4>6, MovePushes DEF FetchFails, Unpushed
      <4>7. ASSUME NEW k \in Key, Store(p, k) PROVE PushKeeps
        BY <1>1, <4>7, StorePushes
      <4>8. ASSUME NEW k \in Key, MarkIndex(p, k) PROVE PushKeeps
        BY <1>1, <4>8, MarkIndexPushes
      <4>9. ASSUME NEW k \in Key, Refetch(p, k) PROVE PushKeeps
        BY <1>1, <4>9, RefetchPushes
      <4>10. QED
        BY <3>3, <4>1, <4>2, <4>3, <4>4, <4>5, <4>6, <4>7, <4>8, <4>9 DEF ProcessStep
    <3>4. QED
      BY <2>1, <3>1, <3>2, <3>3 DEF LedgerNext
  <2>3. OneChance' /\ ExtraChance'
    BY <1>1, <2>1, <2>2, ChancesKept DEF PushKeeps
  <2>4. lives' \in [Window -> Nat]
    BY <2>1, LivesGrow DEF PushInv
  <2>5. QED
    BY <1>1, <2>2, <2>3, <2>4 DEF PushInv, PushKeeps
<1>3. CASE UNCHANGED sharedVars
  <2>1. UNCHANGED <<minute, next, stage, stored, restored, lives>>
    BY <1>3 DEF sharedVars, ledgerVars, historyVars
  <2>2. StageInv'
    BY <2>1 DEF PushInv, StageInv, Opened, StagesPast, BehindNext, LastDone,
                WindowOf, PastWindows, LastKey
  <2>3. \A k : Pushers(k)' = Pushers(k) /\ ExtraPushers(k)' = ExtraPushers(k)
    BY <2>1 DEF Pushers, ExtraPushers, MayPush, WindowOf, LastKey
  <2>4. OneChance' /\ ExtraChance'
    BY <2>1, <2>3 DEF PushInv, OneChance, ExtraChance, Pushes, LastKey
  <2>5. QED
    BY <1>1, <2>1, <2>2, <2>4 DEF PushInv
<1>4. QED
  BY <1>2, <1>3

LEMMA PushInvHolds == SharedSpec => []PushInv
  BY PushInitInv, PushNextInv, PTL DEF SharedSpec

(* There are no more pushes of an extra value than consumer threads stored *)
(* the last index of its window, over any number of crashes.               *)
THEOREM ExtraFollowsLastCorrect == SharedSpec => []ExtraFollowsLast
<1>1. PushInv => ExtraFollowsLast
  <2> SUFFICES ASSUME PushInv, NEW k \in Key, k[2] \in ExtraIndex
               PROVE  Pushes(k) <= stored[<<k[1], LastIndex>>]
    BY DEF ExtraFollowsLast
  <2>1. Pushes(k) + Cardinality(ExtraPushers(k)) <= stored[LastKey(k)]
    BY DEF PushInv, ExtraChance
  <2>2. Pushes(k) \in Nat /\ stored[LastKey(k)] \in Nat
    BY LastKeyType DEF PushInv, SharedInv, LedgerTypeOK, Pushes
  <2>3. QED
    BY <2>1, <2>2, PushersFinite DEF LastKey
<1>2. QED
  BY <1>1, PushInvHolds, PTL

(* A value reaches Kafka at most as often as its window was opened: one    *)
(* process adds one push for each of its lives, whatever it retries and    *)
(* whatever became of the marks.                                           *)
THEOREM PushedOncePerLifeCorrect == SharedSpec => []PushedOncePerLife
<1>1. PushInv => PushedOncePerLife
  <2> SUFFICES ASSUME PushInv, NEW k \in Key PROVE Pushes(k) <= lives[k[1]]
    BY DEF PushedOncePerLife
  <2>1. ASSUME NEW x \in Key, x[2] \in Index PROVE Pushes(x) <= lives[x[1]]
    <3>1. Pushes(x) + Cardinality(Pushers(x)) <= lives[x[1]]
      BY <2>1 DEF PushInv, OneChance
    <3>2. Pushes(x) \in Nat /\ lives[x[1]] \in Nat
      BY DEF PushInv, SharedInv, LedgerTypeOK, Pushes, Key
    <3>3. QED
      BY <3>1, <3>2, PushersFinite
  <2>2. CASE k[2] \in Index
    BY <2>1, <2>2
  <2>3. CASE k[2] \in ExtraIndex
    <3>1. Pushes(k) + Cardinality(ExtraPushers(k)) <= stored[LastKey(k)]
      BY <2>3 DEF PushInv, ExtraChance
    <3>2. Pushes(LastKey(k)) <= lives[k[1]]
      BY <2>1, LastKeyType
    <3>3. /\ Pushes(k) \in Nat /\ stored[LastKey(k)] \in Nat
          /\ restored[LastKey(k)] \in Nat /\ lives[k[1]] \in Nat
      BY LastKeyType DEF PushInv, SharedInv, LedgerTypeOK, Pushes, Key
    <3>4. stored[LastKey(k)] <= Pushes(LastKey(k))
      BY <3>3 DEF Pushes
    <3>5. Pushes(LastKey(k)) \in Nat
      BY <3>3 DEF Pushes
    <3>6. QED
      BY <3>1, <3>2, <3>3, <3>4, <3>5, PushersFinite
  <2>4. QED
    BY <2>2, <2>3, LastKeyType
<1>2. QED
  BY <1>1, PushInvHolds, PTL

=============================================================================
