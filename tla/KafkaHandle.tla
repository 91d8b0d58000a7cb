------------------------------ MODULE KafkaHandle ------------------------------
(***************************************************************************)
(* wrapper_Info of KafkaWrapper.h, which the producing and the consuming   *)
(* half both fill: a caller uses one with producer_init or with            *)
(* consumer_init, never with both.                                         *)
(***************************************************************************)

VARIABLES
  stage,    \* of the caller: "start"; "producing" or "consuming"; "failed";
            \* "closing", "closed"; "undefined"
  rk, rkt   \* the two pointers

\* new wrapper_Info sets neither.
HandleInit ==
  /\ stage = "start"
  /\ rk = "uninitialised" /\ rkt = "uninitialised"

=============================================================================
