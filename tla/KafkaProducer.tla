----------------------------- MODULE KafkaProducer -----------------------------
(***************************************************************************)
(* The producing half of KafkaWrapper.cpp as the process uses it:          *)
(* init_kafka of main.cpp, then Store of any consumer thread for ever.     *)
(* Nothing closes the producer, and nothing calls push_data_to_kafka,      *)
(* which would open one, push once and close it: they are left out.        *)
(*                                                                         *)
(* The Kafka library is external.  What matters of it here: it keeps a     *)
(* message from rd_kafka_produce until its delivery report was served by a *)
(* rd_kafka_poll, refuses messages while all its room is taken, and its    *)
(* own threads settle every message, delivered or given up.                *)
(*                                                                         *)
(* A definition whose name ends in _Fault is a wrong version of another,   *)
(* as in TeleMat.                                                          *)
(*                                                                         *)
(* Store pushes short, non-empty strings, for which the first tests of     *)
(* producer_push_data do nothing.                                          *)
(***************************************************************************)
EXTENDS KafkaHandle

CONSTANTS
  Pusher,   \* the threads that call Store
  Slot      \* the library's room for messages and their reports

VARIABLES
  calling,   \* the pushers between rd_kafka_produce and rd_kafka_poll
  refused,   \* those of them whose message was refused
  outq       \* what the library keeps in each slot

kafkaVars == <<stage, rk, rkt, calling, refused, outq>>

KafkaInit ==
  /\ HandleInit
  /\ calling = {} /\ refused = {}
  /\ outq = [m \in Slot |-> "free"]

(* producer_init leaves both pointers as they are when rd_kafka_new or     *)
(* rd_kafka_brokers_add fails, and does not look at the topic it gets.     *)
(* init_kafka logs a failure and goes on.                                  *)
producer_init ==
  /\ stage = "start"
  /\ stage' = "producing"
  /\ \/ rk' = "open" /\ rkt' \in {"open", "NULL"}
     \/ UNCHANGED <<rk, rkt>>
  /\ UNCHANGED <<calling, refused, outq>>

Room == {m \in Slot : outq[m] = "free"}

Produce(p) ==
  /\ stage = "producing" /\ rkt = "open"
  /\ p \notin calling
  /\ calling' = calling \cup {p}
  /\ IF Room = {}
     THEN refused' = refused \cup {p} /\ UNCHANGED outq
     ELSE /\ \E m \in Room : outq' = [outq EXCEPT ![m] = "waiting"]
          /\ UNCHANGED refused
  /\ UNCHANGED <<stage, rk, rkt>>

\* A topic that is no topic: from here on the code has no defined behaviour.
ProduceUndefined ==
  /\ stage \in {"producing", "undefined"} /\ rkt # "open"
  /\ stage' = "undefined"
  /\ UNCHANGED <<rk, rkt, calling, refused, outq>>

ServeReports(q) == [m \in Slot |-> IF q[m] = "settled" THEN "free" ELSE q[m]]

PushReturn_Fault(p) ==
  /\ p \in calling
  /\ outq' = IF p \in refused THEN outq ELSE ServeReports(outq)
  /\ calling' = calling \ {p} /\ refused' = refused \ {p}
  /\ UNCHANGED <<stage, rk, rkt>>

\* On both paths producer_push_data polls before it returns.
PushReturn(p) ==
  /\ p \in calling
  /\ outq' = ServeReports(outq)
  /\ calling' = calling \ {p} /\ refused' = refused \ {p}
  /\ UNCHANGED <<stage, rk, rkt>>

\* The library is done with a message: its report waits for a poll.
Settle(m) ==
  /\ outq[m] = "waiting"
  /\ outq' = [outq EXCEPT ![m] = "settled"]
  /\ UNCHANGED <<stage, rk, rkt, calling, refused>>

-----------------------------------------------------------------------------
(* The process. *)

ProcessNext ==
  \/ producer_init
  \/ \E p \in Pusher : Produce(p) \/ PushReturn(p)
  \/ ProduceUndefined
  \/ \E m \in Slot : Settle(m)

(* Fairness: the consumer threads keep having something to store, and      *)
(* message.timeout.ms bounds the life of a message in the library.         *)
ProcessFairness ==
  /\ \A p \in Pusher : WF_kafkaVars(Produce(p) \/ PushReturn(p))
  /\ \A m \in Slot : WF_kafkaVars(Settle(m))

ProcessSpec == KafkaInit /\ [][ProcessNext]_kafkaVars /\ ProcessFairness

-----------------------------------------------------------------------------
(* Properties. *)

(* A report that waits is served: the room of a settled message comes back *)
(* even when every further message is refused for want of room, because    *)
(* the refused push polls too.                                             *)
ReportsServed == \A m \in Slot : outq[m] = "settled" ~> outq[m] # "settled"

=============================================================================
