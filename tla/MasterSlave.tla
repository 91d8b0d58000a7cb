------------------------------ MODULE MasterSlave ------------------------------
(***************************************************************************)
(* What masters and slaves that share one fetch map achieve together, over *)
(* crashes and restarts: FetchLedger with the history that its properties  *)
(* speak of.                                                               *)
(***************************************************************************)
EXTENDS FetchLedger

VARIABLES
  settled,   \* the keys a process was done with since it was started
  cleared,   \* the keys whose bit a master has cleared in their window
  ahead,     \* those a slave skipped before that, or by a revived bit
  revived,   \* the bits that are one because a stale word was stored
  lives      \* how often a window was opened

historyVars == <<settled, cleared, ahead, revived, lives>>
sharedVars  == <<ledgerVars, historyVars>>

Opens(p)  == next'[p] = 0 /\ minute'[p] # minute[p]
Skips(p)  == next'[p] = next[p] + 1 /\ stage'[p] = stage[p] /\ next[p] # NoIndex
Passed(p) == {<<WindowOf(p), j>> : j \in {j \in Index : j < next[p]}}

\* The bits a thread marks in this step.
Marks ==
  {MapBit(k) : k \in {k \in Key : \E p \in Process :
     stage[p][k] = "marking" /\ stage'[p][k] = "none" /\ next'[p] # NoIndex}}

\* The history of a step, read off its two states.
Observe ==
  /\ settled' = [p \in Process |->
       IF next'[p] = NoIndex THEN {}
       ELSE settled[p] \cup {k \in Key : /\ stage[p][k] \notin {"none", "queued"}
                                         /\ stage'[p][k] = "none"}]
  /\ cleared' = cleared \cup UNION {Passed(p)' : p \in Process \ Slave}
  /\ ahead' = ahead \cup
       {k \in {NextKey(p) : p \in {q \in Process : Skips(q)}} :
          k \notin cleared \/ MapBit(k) \in revived}
  /\ revived' = ((revived \cap marked') \cup (marked' \ marked)) \ Marks
  /\ lives' = [w \in Window |->
       lives[w] + Cardinality({p \in Process : Opens(p) /\ WindowOf(p)' = w})]

SharedInit ==
  /\ LedgerInit
  /\ settled = [p \in Process |-> {}]
  /\ cleared = {} /\ ahead = {} /\ revived = {}
  /\ lives = [w \in Window |-> 0]

SharedNext == LedgerNext /\ Observe

SharedSpec == SharedInit /\ [][SharedNext]_sharedVars

-----------------------------------------------------------------------------
(* Properties. *)

Pushes(k) == stored[k] + restored[k]

LedgerTypeOK ==
  /\ now \in Window
  /\ minute \in [Process -> Window \cup {-1}]
  /\ next \in [Process -> 0 .. MAX_FETCH_INDEX \cup {NoIndex}]
  /\ stage \in [Process -> [Key -> Stage]]
  /\ marked \subseteq (0 .. ONE_DAY_MINUTE - 1) \X Index
  /\ stored \in [Key -> Nat] /\ restored \in [Key -> Nat]

(* Once a master has been through an index, a bit that is one tells of a   *)
(* value that is in Kafka, whichever process put it there, and whatever    *)
(* died since: the mark comes after the push.  Only a stale word stored by *)
(* a thread, of any process, can make it one again for nothing.            *)
MarkMeansStored ==
  \A k \in cleared : MapBit(k) \in marked \ revived => stored[k] > 0

(* No process loses an index of its window between its queue, its threads, *)
(* its fail list and the map: it still has the key, was done with it, or   *)
(* is a slave that skipped it, and then the value is in Kafka, unless the  *)
(* slave was ahead of every master and believed a bit of an earlier day,   *)
(* or one that a stale word had put back.                                  *)
NothingMissed ==
  \A p \in Process : \A k \in Passed(p) :
    \/ stage[p][k] # "none"
    \/ k \in settled[p]
    \/ p \in Slave /\ (stored[k] > 0 \/ k \in ahead)

(* How often a value may reach Kafka: once for every time some process     *)
(* opened its window.  Crashes, retries, cleared marks and the refetch     *)
(* thread, which marks nothing, add no other duplicates.                   *)
PushedOncePerLife ==
  \A k \in Key : Pushes(k) <= lives[k[1]]

(* Extra tasks belong to a first fetch of the last index: there are no     *)
(* more pushes of an extra value than consumer threads stored that index,  *)
(* and a value the refetch thread stored brings none.                      *)
ExtraFollowsLast ==
  \A k \in Key : k[2] \in ExtraIndex => Pushes(k) <= stored[<<k[1], LastIndex>>]

=============================================================================
