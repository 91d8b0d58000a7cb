----------------------------- MODULE KafkaConsumer -----------------------------
(***************************************************************************)
(* The consuming half of KafkaWrapper.cpp: consumer_init, any number of    *)
(* consumer_pull_data, consumer_close, called by one thread.               *)
(*                                                                         *)
(* The Kafka library is external.  Its threads put data messages and       *)
(* events (the end of the partition, errors) in a queue, in the order of   *)
(* the partition; rd_kafka_consume takes one from there, which the caller  *)
(* has to give back; and they leave operations for rd_kafka_poll.          *)
(***************************************************************************)
EXTENDS Naturals, Sequences, KafkaHandle

CONSTANTS
  MaxMessages,   \* bound: messages, data or events, that arrive
  MaxOps         \* bound: operations waiting for a poll

VARIABLES
  queue,    \* what the library holds ready for rd_kafka_consume
  arrived,  \* how many it has queued so far
  ops,      \* operations that wait for a poll
  held,     \* messages that were taken and not given back
  handed,   \* what func_consume_data was called with
  result    \* of the last consumer_pull_data

consumerVars ==
  <<stage, rk, rkt, queue, arrived, ops, held, handed, result>>

PULL_DATA_SUCCESS == "PULL_DATA_SUCCESS"
PULL_DATA_FAILED == "PULL_DATA_FAILED"
Error == {"eof", "unknown", "other"}   \* rkmessage->err, but for "none"

\* An int no statement has set.
Uninitialised == {PULL_DATA_SUCCESS, PULL_DATA_FAILED, "garbage"}

ConsumerInit ==
  /\ HandleInit
  /\ queue = <<>> /\ arrived = 0 /\ ops = 0
  /\ held = {} /\ handed = <<>>
  /\ result = "none"

(* A failure before the topic is created leaves both pointers as they are, *)
(* a failure of rd_kafka_consume_start leaves them open.  The topic is not *)
(* looked at.                                                              *)
consumer_init ==
  /\ stage = "start"
  /\ \/ stage' = "failed" /\ UNCHANGED <<rk, rkt>>
     \/ rk' = "open" /\ rkt' = "open" /\ stage' \in {"consuming", "failed"}
     \/ rk' = "open" /\ rkt' = "NULL" /\ stage' = "undefined"
  /\ UNCHANGED <<queue, arrived, ops, held, handed, result>>

-----------------------------------------------------------------------------
(* The library's threads, until rd_kafka_consume_stop. *)

Arrives ==
  /\ stage = "consuming"
  /\ \/ /\ arrived < MaxMessages
        /\ arrived' = arrived + 1
        /\ \E e \in Error \cup {"none"} :
             queue' = Append(queue, [err |-> e, at |-> arrived'])
        /\ UNCHANGED ops
     \/ /\ ops < MaxOps
        /\ ops' = ops + 1
        /\ UNCHANGED <<queue, arrived>>
  /\ UNCHANGED <<stage, rk, rkt, held, handed, result>>

Poll == ops' \in {0, IF ops > 0 THEN ops - 1 ELSE 0}

-----------------------------------------------------------------------------
(* consumer_pull_data. *)

\* No message within a second.
Pull_Timeout ==
  /\ stage = "consuming" /\ queue = <<>>
  /\ Poll
  /\ result' = PULL_DATA_FAILED
  /\ UNCHANGED <<stage, rk, rkt, queue, arrived, held, handed>>

\* func_consume_data gets every message, also one that reports an error.
HandOn(m) == handed' = Append(handed, m)

Pull_Unknown_Fault ==
  /\ stage = "consuming" /\ queue # <<>> /\ Head(queue).err = "unknown"
  /\ Poll
  /\ queue' = Tail(queue)
  /\ HandOn(Head(queue))
  /\ held' = held \cup {Head(queue)}
  /\ result' = Head(queue).err
  /\ UNCHANGED <<stage, rk, rkt, arrived>>

\* An unknown partition or topic: the early return keeps the message.
Pull_Unknown ==
  /\ stage = "consuming" /\ queue # <<>> /\ Head(queue).err = "unknown"
  /\ Poll
  /\ queue' = Tail(queue)
  /\ held' = held \cup {Head(queue)}
  /\ result' = Head(queue).err
  /\ UNCHANGED <<stage, rk, rkt, arrived, handed>>

\* The result of an end of partition is overwritten, that of data never set.
ResultOf(m) == IF m.err = "none" THEN Uninitialised ELSE {PULL_DATA_FAILED}

Pull_Message ==
  /\ stage = "consuming" /\ queue # <<>> /\ Head(queue).err # "unknown"
  /\ Poll
  /\ queue' = Tail(queue)
  /\ HandOn(Head(queue))
  /\ result' \in ResultOf(Head(queue))
  /\ UNCHANGED <<stage, rk, rkt, arrived, held>>

consumer_pull_data == Pull_Timeout \/ Pull_Unknown \/ Pull_Message

-----------------------------------------------------------------------------
(* consumer_close. *)

Close_Stop ==
  /\ stage = "consuming"
  /\ stage' = "closing"
  /\ queue' = <<>>   \* rd_kafka_consume_stop purges what was not consumed
  /\ UNCHANGED <<rk, rkt, arrived, ops, held, handed, result>>

Close_Poll_Fault ==
  /\ stage = "closing" /\ ops > 0
  /\ UNCHANGED consumerVars

Close_Poll ==
  /\ stage = "closing" /\ ops > 0
  /\ Poll
  /\ UNCHANGED <<stage, rk, rkt, queue, arrived, held, handed, result>>

Close_Destroy ==
  /\ stage = "closing" /\ ops = 0
  /\ rkt' = "destroyed" /\ rk' = "destroyed"
  /\ stage' = "closed"
  /\ UNCHANGED <<queue, arrived, ops, held, handed, result>>

consumer_close == Close_Stop \/ Close_Poll \/ Close_Destroy

ConsumerNext == consumer_init \/ Arrives \/ consumer_pull_data \/ consumer_close

\* Fairness: consumer_close, once called, keeps running.
CloseFairness == WF_consumerVars(Close_Poll \/ Close_Destroy)

ConsumerSpec == ConsumerInit /\ [][ConsumerNext]_consumerVars /\ CloseFairness

-----------------------------------------------------------------------------
(* Properties. *)

\* How many messages rd_kafka_consume has returned.
Taken == arrived - Len(queue)

(* What a pull takes is either handed on and given back, or kept, and of   *)
(* the two the first unless it reports an unknown partition or topic:      *)
(* whatever time-outs, errors and early returns come between, no message   *)
(* is passed over, handed on twice or out of order, kept after it was      *)
(* handed on, or given back without.  And consume_result, which nothing    *)
(* sets for data, may say anything of data but never success of anything   *)
(* else, the end of the partition included.                                *)
PulledOnce ==
  stage = "consuming" =>
    /\ \A k \in DOMAIN queue : queue[k].at = Taken + k
    /\ \A j, k \in DOMAIN handed : j < k => handed[j].at < handed[k].at
    /\ \A n \in 1 .. Taken :
         (\E k \in DOMAIN handed : handed[k].at = n) # (\E m \in held : m.at = n)
    /\ \A k \in DOMAIN handed :
         handed[k].at \in 1 .. Taken /\ handed[k].err # "unknown"
    /\ \A m \in held : m.at \in 1 .. Taken /\ m.err = "unknown"
    /\ result = PULL_DATA_SUCCESS =>
         \E k \in DOMAIN handed : handed[k].at = Taken /\ handed[k].err = "none"

(* consumer_close returns: its loop empties what rd_kafka_poll serves. *)
CloseReturns == stage = "closing" ~> stage = "closed"

=============================================================================
