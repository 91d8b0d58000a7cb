----------------------------- MODULE FetchLedger -----------------------------
(***************************************************************************)
(* Several processes of the program, masters and slaves, over the one      *)
(* fetch map in shared memory: what each of them does to the keys          *)
(* <<window, index>> of the values it fetches, and what of it survives     *)
(* when a process dies and is started again.                               *)
(*                                                                         *)
(* One process is TeleTaskConsumer, seen from outside: a key is in one     *)
(* stage, whatever queue, list or thread holds its task.                   *)
(* TeleTaskLedgerProofs proves that TeleTaskConsumer implements this       *)
(* module with a single process, alone or among others.                    *)
(*                                                                         *)
(* As there, the clock stops before a name of a minute, or a row of the    *)
(* map, would be used twice: an initial bit is one of an earlier day.      *)
(***************************************************************************)
EXTENDS Integers, FiniteSets

CONSTANTS
  Process,
  Slave,             \* the processes started with --slave
  Delay,             \* delay_min_ of each: the option -m
  Threads,           \* consumer threads of each: the option -p
  ClockPeriod,       \* minutes the processes are followed
  ONE_DAY_MINUTE,    \* rows of the map
  WordBits,          \* bits of a word of it
  MAX_FETCH_INDEX,
  EXTRA_END          \* the extra indices are MAX_FETCH_INDEX .. EXTRA_END - 1

ASSUME LedgerAssumption ==
  /\ Process # {} /\ IsFiniteSet(Process) /\ Slave \subseteq Process
  /\ Delay \in [Process -> Int]
  /\ Threads \in Nat \ {0}
  /\ ClockPeriod \in Nat \ {0} /\ ONE_DAY_MINUTE \in Nat \ {0}
  /\ WordBits \in Nat \ {0}
  /\ ClockPeriod <= ONE_DAY_MINUTE
  /\ MAX_FETCH_INDEX \in Nat \ {0}
  /\ EXTRA_END \in Nat /\ EXTRA_END >= MAX_FETCH_INDEX

VARIABLES
  now,        \* the clock
  minute,     \* the minute each process last acted on, or started after
  next,       \* its next index, or NoIndex while it has no window
  stage,      \* where it has each key
  marked,     \* the <<minute_index, index>> whose bit of the map is one
  stored,     \* how often the consumer threads of all got a key into Kafka
  restored    \* and how often the refetch threads did

ledgerVars == <<now, minute, next, stage, marked, stored, restored>>

NoIndex == -1
LastIndex == MAX_FETCH_INDEX - 1

Window == 0 .. ClockPeriod - 1
Index == 0 .. LastIndex
ExtraIndex == MAX_FETCH_INDEX .. EXTRA_END - 1
Key == Window \X (0 .. EXTRA_END - 1)

Stage == {"none", "queued", "fetching", "marking", "failed"}

WindowOf(p) == (minute[p] - Delay[p]) % ClockPeriod
NextKey(p)  == <<WindowOf(p), next[p]>>
MapBit(k)   == <<k[1] % ONE_DAY_MINUTE, k[2]>>

\* The bits in the word of a bit.
WordOf(b) == {x \in {b[1]} \X Index : x[2] \div WordBits = b[2] \div WordBits}

(* A thread stores the word of bit b with its new value in it.  What it    *)
(* loaded some steps before may be stale: whatever other threads, of any   *)
(* process, did to the other bits in between is undone.                    *)
StoreBit(b, value) ==
  \E stale \in SUBSET (WordOf(b) \ {b}) :
    marked' = (marked \ WordOf(b)) \cup stale \cup (IF value = 1 THEN {b} ELSE {})

Move(p, k, s) == stage' = [stage EXCEPT ![p][k] = s]

LedgerInit ==
  /\ now = 0
  /\ minute = [p \in Process |-> -1]
  /\ next = [p \in Process |-> NoIndex]
  /\ stage = [p \in Process |-> [k \in Key |-> "none"]]
  /\ marked \in SUBSET ((0 .. ONE_DAY_MINUTE - 1) \X Index)
  /\ stored = [k \in Key |-> 0]
  /\ restored = [k \in Key |-> 0]

-----------------------------------------------------------------------------
(* The producer thread of a process. *)

\* UpdateTask, for a minute t the thread read from the clock.  Extra tasks are
\* in a queue it does not know.
Open(p, t) ==
  /\ t \in minute[p] + 1 .. now
  /\ minute' = [minute EXCEPT ![p] = t]
  /\ next' = [next EXCEPT ![p] = 0]
  /\ stage' = [stage EXCEPT ![p] =
       [k \in Key |-> IF @[k] = "queued" /\ k[2] \in Index THEN "none" ELSE @[k]]]
  /\ UNCHANGED <<now, marked, stored, restored>>

\* PushTask finds room for the task of the next index, or not.
PushTask(p) ==
  \/ /\ next' = [next EXCEPT ![p] = @ + 1]
     /\ Move(p, NextKey(p), "queued")
  \/ UNCHANGED <<next, stage>>

MasterQueues_Fault(p) ==
  /\ p \notin Slave /\ next[p] \in Index
  /\ PushTask(p)
  /\ UNCHANGED <<now, minute, marked, stored, restored>>

MasterQueues(p) ==
  /\ p \notin Slave /\ next[p] \in Index
  /\ StoreBit(MapBit(NextKey(p)), 0)
  /\ PushTask(p)
  /\ UNCHANGED <<now, minute, stored, restored>>

SlaveQueues(p) ==
  /\ p \in Slave /\ next[p] \in Index
  /\ MapBit(NextKey(p)) \notin marked
  /\ PushTask(p)
  /\ UNCHANGED <<now, minute, marked, stored, restored>>

SlaveSkips(p) ==
  /\ p \in Slave /\ next[p] \in Index
  /\ MapBit(NextKey(p)) \in marked
  /\ next' = [next EXCEPT ![p] = @ + 1]
  /\ UNCHANGED <<now, minute, stage, marked, stored, restored>>

-----------------------------------------------------------------------------
(* Its consumer threads, and its refetch thread. *)

Busy(p) == {k \in Key : stage[p][k] \in {"fetching", "marking"}}

Take(p, k) ==
  /\ stage[p][k] = "queued" /\ Cardinality(Busy(p)) < Threads
  /\ Move(p, k, "fetching")
  /\ UNCHANGED <<now, minute, next, marked, stored, restored>>

\* The fetch fails and the fail list has room; or it has none, or the answer,
\* or Kafka, make the thread drop the task.
FetchFails(p, k) ==
  /\ stage[p][k] = "fetching"
  /\ \E s \in {"failed", "none"} : Move(p, k, s)
  /\ UNCHANGED <<now, minute, next, marked, stored, restored>>

Store_Fault(p, k) ==
  /\ stage[p][k] = "fetching"
  /\ stored' = [stored EXCEPT ![k] = @ + 1]
  /\ Move(p, k, "marking")
  /\ UNCHANGED <<now, minute, next, marked, restored>>

Store(p, k) ==
  /\ stage[p][k] = "fetching"
  /\ stored' = [stored EXCEPT ![k] = @ + 1]
  /\ Move(p, k, IF k[2] \in Index THEN "marking" ELSE "none")
  /\ UNCHANGED <<now, minute, next, marked, restored>>

\* The thread that marks the last index creates the extra tasks.
MarkIndex(p, k) ==
  /\ stage[p][k] = "marking"
  /\ StoreBit(MapBit(k), 1)
  /\ stage' = [stage EXCEPT ![p] =
       [x \in Key |->
          IF x = k THEN "none"
          ELSE IF k[2] = LastIndex /\ x[1] = k[1] /\ x[2] \in ExtraIndex
               THEN "queued" ELSE @[x]]]
  /\ UNCHANGED <<now, minute, next, stored, restored>>

Refetch_Fault(p, k) ==
  /\ stage[p][k] = "failed"
  /\ restored' = [restored EXCEPT ![k] = @ + 1]
  /\ UNCHANGED <<now, minute, next, stage, marked, stored>>

\* Dropped, or pushed: no bit is set, and no extra tasks are created.
Refetch(p, k) ==
  /\ stage[p][k] = "failed"
  /\ \/ UNCHANGED restored
     \/ restored' = [restored EXCEPT ![k] = @ + 1]
  /\ Move(p, k, "none")
  /\ UNCHANGED <<now, minute, next, marked, stored>>

-----------------------------------------------------------------------------
(* The process and its surroundings. *)

\* The process dies and is started again: only the map and Kafka outlive it.
Crash(p) ==
  /\ minute' = [minute EXCEPT ![p] = now - 1]
  /\ next' = [next EXCEPT ![p] = NoIndex]
  /\ stage' = [stage EXCEPT ![p] = [k \in Key |-> "none"]]
  /\ UNCHANGED <<now, marked, stored, restored>>

\* Bound: the clock stops before a name of a minute would come again to any
\* of the processes.
Tick ==
  /\ \A p, q \in Process : now + 1 + Delay[p] - Delay[q] < ClockPeriod
  /\ now' = now + 1
  /\ UNCHANGED <<minute, next, stage, marked, stored, restored>>

ProcessStep(p) ==
  \/ \E t \in Window : Open(p, t)
  \/ MasterQueues(p)
  \/ SlaveQueues(p)
  \/ SlaveSkips(p)
  \/ \E k \in Key :
       Take(p, k) \/ FetchFails(p, k) \/ Store(p, k) \/ MarkIndex(p, k)
         \/ Refetch(p, k)

LedgerNext == Tick \/ \E p \in Process : ProcessStep(p) \/ Crash(p)

LedgerSpec == LedgerInit /\ [][LedgerNext]_ledgerVars

-----------------------------------------------------------------------------
(* Some of the processes alone: of the others, they see what threads store *)
(* in the map.                                                             *)

OthersStore ==
  /\ \E b \in (0 .. ONE_DAY_MINUTE - 1) \X Index, value \in {0, 1} :
       StoreBit(b, value)
  /\ UNCHANGED <<now, minute, next, stage, stored, restored>>

AmongOthersSpec == LedgerInit /\ [][LedgerNext \/ OthersStore]_ledgerVars

=============================================================================
