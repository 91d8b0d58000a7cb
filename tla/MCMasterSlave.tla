---------------------------- MODULE MCMasterSlave ----------------------------
EXTENDS MasterSlave, TLC

CONSTANTS
  master, slave,
  SlaveDelay,
  Common,       \* the window both come to
  MaxDetours,   \* bound: crashes, and other windows that are opened
  MaxReach      \* bound: indices that are reached in another window

MCDelay == [p \in {master, slave} |-> IF p = slave THEN SlaveDelay ELSE 1]

VARIABLE detours

Crashed(p) == next[p] # NoIndex /\ next'[p] = NoIndex
Elsewhere(p) == Opens(p) /\ WindowOf(p)' # Common

MCNext ==
  /\ SharedNext
  /\ detours' = detours + Cardinality({p \in Process : Crashed(p) \/ Elsewhere(p)})
  /\ detours' <= MaxDetours
  /\ \A p \in Process : WindowOf(p)' # Common => next'[p] <= MaxReach

\* Bound: in the rows of the other windows all bits are zero.
MCInit == SharedInit /\ detours = 0 /\ marked \subseteq {Common} \X Index

MCSpec == MCInit /\ [][MCNext]_<<sharedVars, detours>>

=============================================================================
