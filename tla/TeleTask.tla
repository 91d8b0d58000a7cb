------------------------------- MODULE TeleTask -------------------------------
(***************************************************************************)
(* struct TeleTask and TeleTaskFactory of tele_task_producer.h.            *)
(*                                                                         *)
(* A fetch time string "YYYYMMDDhhmm" is the minute it names, counted from *)
(* a midnight; the empty string, the value fetch_time_str_ starts with, is *)
(* NoTime.  Minutes are counted modulo ClockPeriod, a whole number of      *)
(* days: the model reuses the name of a minute after that many minutes,    *)
(* and the minute of the day is the same for every minute of one name.     *)
(***************************************************************************)
EXTENDS Integers

CONSTANTS
  Token,         \* the tokens getToken may answer with
  NoToken,       \* the empty token string
  ClockPeriod    \* minutes after which the model reuses a name

ASSUME TaskAssumption ==
  /\ NoToken \notin Token
  /\ ClockPeriod \in Nat \ {0}

NoTime == -1

ClockMinute == 0 .. ClockPeriod - 1

TASK_NORMAL == "TASK_NORMAL"
TASK_DELAY  == "TASK_DELAY"

BuildTask(index, token, time_str, type) ==
  [index        |-> index,
   time_str     |-> time_str,
   token        |-> token,
   type         |-> type,
   minute_index |-> 0,
   retry_count  |-> 0]

=============================================================================
