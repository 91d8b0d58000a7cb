---------------------------- MODULE TaskDispenser ----------------------------
(***************************************************************************)
(* What the producer promises the threads that call GetTask, with no       *)
(* queue, lock, batch or thread in sight: one window at a time, whose      *)
(* tasks are handed out in the order of their indices, each at most once.  *)
(*                                                                         *)
(* A master hands out every index in its turn.  A slave may pass over      *)
(* indices, which it takes to be fetched already (MaySkip).                *)
(***************************************************************************)
EXTENDS Integers

CONSTANTS
  DispenserWindow,   \* the fetch times a window may have
  NoWindow,          \* before the first window
  LastIndex,         \* the indices of a window are 0 .. LastIndex
  MaySkip            \* may indices be passed over?

VARIABLES
  window,   \* the current window
  next      \* no index below it will be handed out again in this window

dispenserVars == <<window, next>>

DispenserInit == window = NoWindow /\ next = 0

\* Moving on takes back what was not handed out, and never reopens a window.
Open(t) ==
  /\ t \in DispenserWindow \ {window}
  /\ window' = t
  /\ next' = 0

HandOut ==
  /\ window # NoWindow
  /\ next <= LastIndex
  /\ next' = next + 1
  /\ UNCHANGED window

Skip ==
  /\ MaySkip
  /\ window # NoWindow
  /\ next' \in next + 1 .. LastIndex + 1
  /\ UNCHANGED window

DispenserNext == (\E t \in DispenserWindow : Open(t)) \/ HandOut \/ Skip

DispenserSpec == DispenserInit /\ [][DispenserNext]_dispenserVars

=============================================================================
