------------------------------- MODULE MainProofs -------------------------------
(***************************************************************************)
(* Proofs about the two sequential loops MCMain checks: the options that   *)
(* main.cpp reads, for every command line and whatever cmd starts with,    *)
(* and the messages that consumer_pull_data of KafkaWrapper.cpp takes,     *)
(* for every order in which data and events arrive.                        *)
(***************************************************************************)
EXTENDS MainOptions, KafkaConsumer, TLAPS

-----------------------------------------------------------------------------
(* The messages. *)

Message == [err : Error \cup {"none"}, at : Nat]

PullTypes ==
  /\ queue \in Seq(Message) /\ handed \in Seq(Message) /\ held \subseteq Message
  /\ arrived \in Nat /\ Len(queue) <= arrived

NothingYet == queue = <<>> /\ handed = <<>> /\ held = {} /\ arrived = 0 /\ result = "none"

(* The parts of PulledOnce, over what is in the queue and how many were    *)
(* taken from it.                                                          *)
Lined(q, n) == \A k \in 1 .. Len(q) : q[k].at = n + k
Rising(h) == \A j, k \in 1 .. Len(h) : j < k => h[j].at < h[k].at
Reported(h, n) ==
  \A k \in 1 .. Len(h) : h[k].at \in 1 .. n /\ h[k].err # "unknown"
Kept(s, n) == \A m \in s : m.at \in 1 .. n /\ m.err = "unknown"
Somewhere(h, s, n) ==
  \A x \in 1 .. n : (\E k \in 1 .. Len(h) : h[k].at = x) # (\E m \in s : m.at = x)
Meant(r, h, n) ==
  r = PULL_DATA_SUCCESS =>
    \E k \in 1 .. Len(h) : h[k].at = n /\ h[k].err = "none"

Pulled(q, h, s, r, n) ==
  /\ Lined(q, n) /\ Rising(h) /\ Reported(h, n) /\ Kept(s, n)
  /\ Somewhere(h, s, n) /\ Meant(r, h, n)

PullInv ==
  /\ PullTypes
  /\ stage = "start" => NothingYet
  /\ stage = "consuming" => Pulled(queue, handed, held, result, Taken)

-----------------------------------------------------------------------------

\* What arrives goes behind what is queued.
LEMMA ArrivesBehind ==
  ASSUME NEW q \in Seq(Message), NEW n \in Nat, NEW m \in Message,
         Lined(q, n), m.at = n + Len(q) + 1
  PROVE  Lined(Append(q, m), n)
<1> DEFINE t == Append(q, m)
<1>1. /\ Len(q) \in Nat /\ Len(t) = Len(q) + 1
      /\ t[Len(q) + 1] = m
      /\ \A k \in 1 .. Len(q) : t[k] = q[k]
  OBVIOUS
<1> HIDE DEF t
<1>2. ASSUME NEW k \in 1 .. Len(t)
      PROVE  t[k].at = n + k
  <2>1. CASE k = Len(q) + 1
    BY <1>1, <2>1
  <2>2. CASE k \in 1 .. Len(q)
    BY <1>1, <2>2 DEF Lined
  <2>3. QED
    BY <1>1, <2>1, <2>2
<1>3. Lined(t, n)
  BY <1>2 DEF Lined
<1>4. QED
  BY <1>3 DEF t

\* What is taken from the queue is the next message.
LEMMA TakesNext ==
  ASSUME NEW q \in Seq(Message), q # <<>>, NEW n \in Nat, Lined(q, n)
  PROVE  /\ Head(q) \in Message /\ Head(q).at = n + 1
         /\ Tail(q) \in Seq(Message) /\ Len(Tail(q)) = Len(q) - 1
         /\ Lined(Tail(q), n + 1)
<1>1. /\ Len(q) \in Nat \ {0} /\ Head(q) = q[1] /\ q[1] \in Message
      /\ Tail(q) \in Seq(Message) /\ Len(Tail(q)) = Len(q) - 1
      /\ \A k \in 1 .. Len(Tail(q)) : Tail(q)[k] = q[k + 1]
  OBVIOUS
<1>2. Head(q).at = n + 1
  BY <1>1 DEF Lined
<1>3. ASSUME NEW k \in 1 .. Len(Tail(q))
      PROVE  Tail(q)[k].at = (n + 1) + k
  <2>1. k + 1 \in 1 .. Len(q) /\ n + (k + 1) = (n + 1) + k
    BY <1>1
  <2>2. q[k + 1].at = n + (k + 1)
    BY <2>1 DEF Lined
  <2>3. QED
    BY <1>1, <2>1, <2>2
<1>4. QED
  BY <1>1, <1>2, <1>3 DEF Lined

\* The next message is handed on.
LEMMA HandedOn ==
  ASSUME NEW h \in Seq(Message), NEW s, NEW n \in Nat, NEW m \in Message,
         Rising(h), Reported(h, n), Kept(s, n), Somewhere(h, s, n),
         m.at = n + 1, m.err # "unknown"
  PROVE  /\ Rising(Append(h, m)) /\ Reported(Append(h, m), n + 1)
         /\ Kept(s, n + 1) /\ Somewhere(Append(h, m), s, n + 1)
         /\ Append(h, m) \in Seq(Message)
         /\ Len(Append(h, m)) \in 1 .. Len(Append(h, m))
         /\ Append(h, m)[Len(Append(h, m))] = m
<1> DEFINE t == Append(h, m)
           c == Len(h) + 1
<1>1. /\ Len(h) \in Nat /\ Len(t) = c /\ c \in 1 .. Len(t) /\ t \in Seq(Message)
      /\ t[c] = m
      /\ \A k \in 1 .. Len(h) : t[k] = h[k] /\ k \in 1 .. Len(t) /\ k < c
      /\ \A k \in 1 .. Len(t) : k \in 1 .. Len(h) \/ k = c
  OBVIOUS
<1>2. /\ n + 1 \in 1 .. n + 1 /\ n + 1 \notin 1 .. n
      /\ \A x \in 1 .. n : x \in 1 .. n + 1 /\ x < n + 1
      /\ \A x \in 1 .. n + 1 : x \in 1 .. n \/ x = n + 1
  OBVIOUS
<1> HIDE DEF t, c
<1>3. Rising(t)
  <2>1. ASSUME NEW j \in 1 .. Len(t), NEW k \in 1 .. Len(t), j < k
        PROVE  t[j].at < t[k].at
    <3>1. j \in 1 .. Len(h)
      BY <1>1, <2>1 DEF c
    <3>2. CASE k = c
      BY <1>1, <1>2, <3>1, <3>2 DEF Reported
    <3>3. CASE k \in 1 .. Len(h)
      BY <1>1, <2>1, <3>1, <3>3 DEF Rising
    <3>4. QED
      BY <1>1, <3>2, <3>3
  <2>2. QED
    BY <2>1 DEF Rising
<1>4. Reported(t, n + 1)
  BY <1>1, <1>2 DEF Reported
<1>5. Kept(s, n + 1)
  BY <1>2 DEF Kept
<1>6. Somewhere(t, s, n + 1)
  <2>1. ASSUME NEW x \in 1 .. n + 1
        PROVE  (\E k \in 1 .. Len(t) : t[k].at = x) # (\E y \in s : y.at = x)
    <3>1. CASE x = n + 1
      <4>1. ~ \E y \in s : y.at = x
        BY <1>2, <3>1 DEF Kept
      <4>2. \E k \in 1 .. Len(t) : t[k].at = x
        BY <1>1, <3>1
      <4>3. QED
        BY <4>1, <4>2
    <3>2. CASE x \in 1 .. n
      <4>1. (\E k \in 1 .. Len(t) : t[k].at = x)
              <=> (\E k \in 1 .. Len(h) : h[k].at = x)
        BY <1>1, <1>2, <3>2
      <4>2. (\E k \in 1 .. Len(h) : h[k].at = x) # (\E y \in s : y.at = x)
        BY <3>2 DEF Somewhere
      <4>3. QED
        BY <4>1, <4>2
    <3>3. QED
      BY <1>2, <3>1, <3>2
  <2>2. QED
    BY <2>1 DEF Somewhere
<1>7. QED
  BY <1>1, <1>3, <1>4, <1>5, <1>6 DEF t, c

\* The next message is kept.
LEMMA KeptBack ==
  ASSUME NEW h, NEW s, NEW n \in Nat, NEW m \in Message,
         Reported(h, n), Kept(s, n), Somewhere(h, s, n),
         m.at = n + 1, m.err = "unknown"
  PROVE  /\ Reported(h, n + 1) /\ Kept(s \cup {m}, n + 1)
         /\ Somewhere(h, s \cup {m}, n + 1)
<1>1. /\ n + 1 \in 1 .. n + 1 /\ n + 1 \notin 1 .. n
      /\ \A x \in 1 .. n : x \in 1 .. n + 1 /\ x # n + 1
      /\ \A x \in 1 .. n + 1 : x \in 1 .. n \/ x = n + 1
  OBVIOUS
<1>2. Reported(h, n + 1) /\ Kept(s \cup {m}, n + 1)
  BY <1>1 DEF Reported, Kept
<1>3. ASSUME NEW x \in 1 .. n + 1
      PROVE  (\E k \in 1 .. Len(h) : h[k].at = x) # (\E y \in s \cup {m} : y.at = x)
  <2>1. CASE x = n + 1
    <3>1. ~ \E k \in 1 .. Len(h) : h[k].at = x
      BY <1>1, <2>1 DEF Reported
    <3>2. \E y \in s \cup {m} : y.at = x
      BY <2>1
    <3>3. QED
      BY <3>1, <3>2
  <2>2. CASE x \in 1 .. n
    <3>1. (\E y \in s \cup {m} : y.at = x) <=> (\E y \in s : y.at = x)
      BY <1>1, <2>2
    <3>2. (\E k \in 1 .. Len(h) : h[k].at = x) # (\E y \in s : y.at = x)
      BY <2>2 DEF Somewhere
    <3>3. QED
      BY <3>1, <3>2
  <2>3. QED
    BY <1>1, <2>1, <2>2
<1>4. QED
  BY <1>2, <1>3 DEF Somewhere

-----------------------------------------------------------------------------

LEMMA PullStart == ConsumerInit => PullInv
BY DEF ConsumerInit, HandleInit, PullInv, PullTypes, NothingYet

\* What an action leaves of the invariant while messages are pulled.
LEMMA PullKeeps ==
  ASSUME PullTypes', stage' = "consuming",
         Pulled(queue', handed', held', result', Taken')
  PROVE  PullInv'
BY DEF PullInv, Pulled, Lined, Rising, Reported, Kept, Somewhere, Meant,
       PULL_DATA_SUCCESS

\* Nothing is taken before the first message arrives.
LEMMA PullInitStep == PullInv /\ consumer_init => PullInv'
<1>1. SUFFICES ASSUME PullInv, consumer_init
               PROVE  PullInv'
  OBVIOUS
<1>2. /\ NothingYet /\ stage' # "start"
      /\ queue' = queue /\ handed' = handed /\ held' = held /\ arrived' = arrived
      /\ result' = result
  BY <1>1 DEF PullInv, consumer_init
<1>3. PullTypes'
  BY <1>1, <1>2 DEF PullInv, PullTypes, Message, Error
<1>4. /\ queue' = <<>> /\ handed' = <<>> /\ held' = {} /\ result' = "none"
      /\ Len(queue') = 0 /\ Len(handed') = 0 /\ Taken' = 0
  <2>1. queue' = <<>> /\ handed' = <<>> /\ held' = {} /\ result' = "none"
        /\ arrived' = 0
    BY <1>2 DEF NothingYet
  <2>2. Len(queue') = 0 /\ Len(handed') = 0
    BY <2>1
  <2>3. Taken' = arrived' - Len(queue')
    BY DEF Taken
  <2>4. \A a, b : a = 0 /\ b = 0 => a - b = 0
    OBVIOUS
  <2>5. Taken' = 0
    BY <2>1, <2>2, <2>3, <2>4
  <2>6. QED
    BY <2>1, <2>2, <2>5
<1>5. Pulled(queue', handed', held', result', Taken')
  BY <1>4 DEF Pulled, Lined, Rising, Reported, Kept, Somewhere, Meant,
              PULL_DATA_SUCCESS
<1>6. CASE stage' = "consuming"
  BY <1>3, <1>5, <1>6, PullKeeps
<1>7. CASE stage' # "consuming"
  BY <1>2, <1>3, <1>7 DEF PullInv
<1>8. QED
  BY <1>6, <1>7

\* What the library queues.
LEMMA PullArrives == PullInv /\ Arrives => PullInv'
<1>1. SUFFICES ASSUME PullInv, Arrives
               PROVE  PullInv'
  OBVIOUS
<1>2. /\ stage = "consuming" /\ stage' = "consuming"
      /\ handed' = handed /\ held' = held /\ result' = result
  BY <1>1 DEF Arrives
<1>3. PullTypes /\ Pulled(queue, handed, held, result, Taken)
  BY <1>1, <1>2 DEF PullInv
<1>4. Taken \in Nat /\ Len(queue) \in Nat /\ arrived = Taken + Len(queue)
  BY <1>3 DEF PullTypes, Taken
<1>5. CASE UNCHANGED <<queue, arrived>>
  <2>1. PullTypes' /\ Taken' = Taken
    BY <1>2, <1>3, <1>5 DEF PullTypes, Taken, Message, Error
  <2>2. Pulled(queue', handed', held', result', Taken')
    BY <1>2, <1>3, <1>5, <2>1
  <2>3. QED
    BY <1>2, <2>1, <2>2, PullKeeps
<1>6. CASE /\ arrived' = arrived + 1
           /\ \E e \in Error \cup {"none"} :
                queue' = Append(queue, [err |-> e, at |-> arrived'])
  <2>1. PICK e \in Error \cup {"none"} :
               queue' = Append(queue, [err |-> e, at |-> arrived'])
    BY <1>6
  <2>2. PICK m : m = [err |-> e, at |-> arrived']
    OBVIOUS
  <2>3. arrived' \in Nat /\ arrived' = Taken + Len(queue) + 1
    BY <1>4, <1>6
  <2>4. m \in Message /\ m.at = Taken + Len(queue) + 1 /\ queue' = Append(queue, m)
    BY <2>1, <2>2, <2>3 DEF Message
  <2>5. Lined(queue', Taken)
    BY <1>3, <1>4, <2>4, ArrivesBehind DEF PullTypes, Pulled
  <2>6. queue' \in Seq(Message) /\ Len(queue') = Len(queue) + 1
    BY <1>3, <2>4 DEF PullTypes
  <2>7. Taken' = Taken
    BY <1>4, <2>3, <2>6 DEF Taken
  <2>8. PullTypes'
    BY <1>2, <1>3, <1>4, <2>3, <2>6 DEF PullTypes, Message, Error
  <2>9. Pulled(queue', handed', held', result', Taken')
    BY <1>2, <1>3, <2>5, <2>7 DEF Pulled
  <2>10. QED
    BY <1>2, <2>8, <2>9, PullKeeps
<1>7. QED
  BY <1>1, <1>5, <1>6 DEF Arrives

\* What consumer_pull_data takes.
LEMMA PullPull == PullInv /\ consumer_pull_data => PullInv'
<1>1. SUFFICES ASSUME PullInv, consumer_pull_data
               PROVE  PullInv'
  OBVIOUS
<1>2. /\ stage = "consuming" /\ stage' = "consuming" /\ arrived' = arrived
  BY <1>1 DEF consumer_pull_data, Pull_Timeout, Pull_Unknown, Pull_Message
<1>3. PullTypes /\ Pulled(queue, handed, held, result, Taken)
  BY <1>1, <1>2 DEF PullInv
<1>4. Taken \in Nat /\ Len(queue) \in Nat /\ arrived = Taken + Len(queue)
  BY <1>3 DEF PullTypes, Taken
<1>5. CASE Pull_Timeout
  <2>1. /\ queue' = queue /\ handed' = handed /\ held' = held
        /\ result' # PULL_DATA_SUCCESS
    BY <1>5 DEF Pull_Timeout, PULL_DATA_FAILED, PULL_DATA_SUCCESS
  <2>2. PullTypes' /\ Taken' = Taken
    BY <1>2, <1>3, <2>1 DEF PullTypes, Taken, Message, Error
  <2>3. Pulled(queue', handed', held', result', Taken')
    BY <1>3, <2>1, <2>2 DEF Pulled, Meant, PULL_DATA_SUCCESS
  <2>4. QED
    BY <1>2, <2>2, <2>3, PullKeeps
\* The other two take the next message.
<1>6. ASSUME queue # <<>>, queue' = Tail(queue)
      PROVE  /\ Head(queue) \in Message /\ Head(queue).at = Taken + 1
             /\ queue' \in Seq(Message) /\ Len(queue') <= arrived'
             /\ Lined(queue', Taken + 1) /\ Taken' = Taken + 1
  <2>1. /\ Head(queue) \in Message /\ Head(queue).at = Taken + 1
        /\ Tail(queue) \in Seq(Message) /\ Len(Tail(queue)) = Len(queue) - 1
        /\ Lined(Tail(queue), Taken + 1)
    BY <1>3, <1>4, <1>6, TakesNext DEF PullTypes, Pulled
  <2>2. Len(queue') = Len(queue) - 1 /\ Len(queue') \in Nat
    BY <1>6, <2>1
  <2>3. QED
    BY <1>2, <1>4, <1>6, <2>1, <2>2 DEF Taken
<1>7. CASE Pull_Unknown
  <2>1. /\ queue # <<>> /\ Head(queue).err = "unknown" /\ queue' = Tail(queue)
        /\ handed' = handed /\ held' = held \cup {Head(queue)}
        /\ result' # PULL_DATA_SUCCESS
    BY <1>7 DEF Pull_Unknown, PULL_DATA_SUCCESS
  <2>2. /\ Head(queue) \in Message /\ Head(queue).at = Taken + 1
        /\ queue' \in Seq(Message) /\ Len(queue') <= arrived'
        /\ Lined(queue', Taken + 1) /\ Taken' = Taken + 1
    BY <1>6, <2>1
  <2>3. PICK m : m = Head(queue)
    OBVIOUS
  <2>4. /\ Reported(handed, Taken + 1) /\ Kept(held \cup {m}, Taken + 1)
        /\ Somewhere(handed, held \cup {m}, Taken + 1)
    BY <1>3, <1>4, <2>1, <2>2, <2>3, KeptBack DEF Pulled
  <2>5. PullTypes'
    BY <1>2, <1>3, <2>1, <2>2 DEF PullTypes, Message, Error
  <2>6. Pulled(queue', handed', held', result', Taken')
    BY <1>3, <2>1, <2>2, <2>3, <2>4 DEF Pulled, Meant, PULL_DATA_SUCCESS
  <2>7. QED
    BY <1>2, <2>5, <2>6, PullKeeps
<1>8. CASE Pull_Message
  <2>1. PICK m : m = Head(queue)
    OBVIOUS
  <2>2. /\ queue # <<>> /\ m.err # "unknown" /\ queue' = Tail(queue)
        /\ handed' = Append(handed, m) /\ held' = held
        /\ m.err # "none" => result' # PULL_DATA_SUCCESS
    BY <1>8, <2>1
    DEF Pull_Message, HandOn, ResultOf, PULL_DATA_SUCCESS, PULL_DATA_FAILED
  <2>3. /\ m \in Message /\ m.at = Taken + 1
        /\ queue' \in Seq(Message) /\ Len(queue') <= arrived'
        /\ Lined(queue', Taken + 1) /\ Taken' = Taken + 1
    BY <1>6, <2>1, <2>2
  <2>4. /\ Rising(handed') /\ Reported(handed', Taken + 1)
        /\ Kept(held, Taken + 1) /\ Somewhere(handed', held, Taken + 1)
        /\ handed' \in Seq(Message)
        /\ Len(handed') \in 1 .. Len(handed') /\ handed'[Len(handed')] = m
    <3>1. handed \in Seq(Message)
      BY <1>3 DEF PullTypes
    <3>2. QED
      BY <1>3, <1>4, <2>2, <2>3, <3>1, HandedOn DEF Pulled
  <2>5. PullTypes'
    BY <1>2, <1>3, <2>2, <2>3, <2>4 DEF PullTypes, Message, Error
  <2>6. Meant(result', handed', Taken + 1)
    BY <2>2, <2>3, <2>4 DEF Meant, PULL_DATA_SUCCESS
  <2>7. Pulled(queue', handed', held', result', Taken')
    BY <2>2, <2>3, <2>4, <2>6 DEF Pulled
  <2>8. QED
    BY <1>2, <2>5, <2>7, PullKeeps
<1>9. QED
  BY <1>1, <1>5, <1>7, <1>8 DEF consumer_pull_data

\* After rd_kafka_consume_stop nothing is promised.
LEMMA PullClose == PullInv /\ consumer_close => PullInv'
<1>1. SUFFICES ASSUME PullInv, consumer_close
               PROVE  PullInv'
  OBVIOUS
<1>2. stage' \in {"closing", "closed"}
  BY <1>1 DEF consumer_close, Close_Stop, Close_Poll, Close_Destroy
<1>3. handed' = handed /\ held' = held /\ arrived' = arrived /\ queue' \in {queue, <<>>}
  BY <1>1 DEF consumer_close, Close_Stop, Close_Poll, Close_Destroy
<1>4. queue' \in Seq(Message) /\ Len(queue') <= arrived
  <2>1. queue \in Seq(Message) /\ Len(queue) <= arrived /\ arrived \in Nat
    BY <1>1 DEF PullInv, PullTypes
  <2>2. CASE queue' = <<>>
    <3>1. queue' \in Seq(Message)
      BY <2>2
    <3>2. Len(queue') = 0
      BY <2>2
    <3>3. QED
      BY <2>1, <3>1, <3>2
  <2>3. QED
    BY <1>3, <2>1, <2>2
<1>5. PullTypes'
  BY <1>1, <1>3, <1>4 DEF PullInv, PullTypes, Message, Error
<1>6. QED
  BY <1>2, <1>5 DEF PullInv

LEMMA PullStutter == PullInv /\ UNCHANGED consumerVars => PullInv'
<1>1. SUFFICES ASSUME PullInv, UNCHANGED consumerVars
               PROVE  PullInv'
  OBVIOUS
<1>2. /\ queue' = queue /\ handed' = handed /\ held' = held /\ result' = result
      /\ arrived' = arrived /\ stage' = stage
  BY <1>1 DEF consumerVars
<1>3. PullTypes' /\ Taken' = Taken
  BY <1>1, <1>2 DEF PullInv, PullTypes, Taken, Message, Error
<1>4. CASE stage = "consuming"
  <2>1. Pulled(queue', handed', held', result', Taken')
    BY <1>1, <1>2, <1>3, <1>4 DEF PullInv
  <2>2. QED
    BY <1>2, <1>3, <1>4, <2>1, PullKeeps
<1>5. CASE stage # "consuming"
  BY <1>1, <1>2, <1>3, <1>5 DEF PullInv, NothingYet
<1>6. QED
  BY <1>4, <1>5

LEMMA PullInvCorrect == ConsumerSpec => []PullInv
<1>1. PullInv /\ [ConsumerNext]_consumerVars => PullInv'
  BY PullInitStep, PullArrives, PullPull, PullClose, PullStutter DEF ConsumerNext
<1>2. QED
  BY PullStart, <1>1, PTL DEF ConsumerSpec

(* Every message a pull takes, data or event, is handed on once and given   *)
(* back, or kept for good if it reports an unknown partition or topic, in   *)
(* the order they arrived and with no number of them fixed; and a pull that *)
(* returns success has handed on data.                                     *)
THEOREM PulledOnceCorrect == ConsumerSpec => []PulledOnce
<1>1. PullInv => PulledOnce
  <2>1. SUFFICES ASSUME PullInv, stage = "consuming"
                 PROVE  PulledOnce
    BY DEF PulledOnce
  <2>2. PullTypes /\ Pulled(queue, handed, held, result, Taken)
    BY <2>1 DEF PullInv
  <2>3. DOMAIN queue = 1 .. Len(queue) /\ DOMAIN handed = 1 .. Len(handed)
    BY <2>2 DEF PullTypes
  <2>4. QED
    BY <2>2, <2>3
    DEF PulledOnce, Pulled, Lined, Rising, Reported, Kept, Somewhere, Meant
<1>2. QED
  BY <1>1, PullInvCorrect, PTL


-----------------------------------------------------------------------------
(* The options. *)

Text == Argument \cup {Program}

OptionRecord ==
  [kafka_server : Text \cup {"127.0.0.1"}, consumer_threads_num : Int,
   delay_min : Int, is_slave_g : BOOLEAN]

\* What waits after the argument arg, and the command of an option.
Waits(arg) == Command("INVALID_COMMAND", arg)
CommandFor(o) ==
  CASE o = "-k" -> "KAFKA_COMMAND"
    [] o = "-p" -> "THREAD_NUM_COMMAND"
    [] o = "-m" -> "DELAY_MIN_CMD"

ArgvOK ==
  /\ argv \in Seq(Text) /\ Len(argv) >= 1 /\ argv[1] = Program
  /\ i \in 0 .. Len(argv)

CmdOK ==
  /\ cmd \in TeleCommand
  /\ i >= 1 => cmd = Waits(argv[i])

SlaveSeen == opt.is_slave_g = \E k \in 1 .. i : argv[k] = "--slave"

\* An option has the value that follows its last occurrence, once that is read.
LastValueTaken ==
  \A o \in DOMAIN Field : \A k \in 1 .. i - 1 :
    argv[k] = o /\ (\A j \in k + 1 .. i - 1 : argv[j] # o) =>
      opt[Field[o]] = Parsed(o, argv[k + 1])

\* The others have their defaults, but for the one cmd started with.
DefaultsKept ==
  \E c \in TeleCommand :
    /\ i = 0 => c = cmd
    /\ \A o \in DOMAIN Field :
         (\A k \in 1 .. i - 1 : argv[k] # o) =>
           opt[Field[o]] = IF i >= 1 /\ c = CommandFor(o)
                           THEN Parsed(o, Program) ELSE Defaults[Field[o]]

OptionsInv ==
  /\ ArgvOK
  /\ CmdOK
  /\ opt \in OptionRecord
  /\ SlaveSeen
  /\ LastValueTaken
  /\ DefaultsKept

LEMMA FieldNames ==
  /\ DOMAIN Field = {"-k", "-p", "-m"}
  /\ Field["-k"] = "kafka_server"
  /\ Field["-p"] = "consumer_threads_num"
  /\ Field["-m"] = "delay_min"
BY DEF Field

\* The command does not depend on what waited before.
LEMMA CommandWaits == \A c, arg : Command(c, arg) = Waits(arg)
BY DEF Command, Waits

LEMMA WaitsType == \A arg : Waits(arg) \in TeleCommand
BY DEF Command, Waits, TeleCommand

LEMMA WaitsFor ==
  \A o \in DOMAIN Field : \A arg : Waits(arg) = CommandFor(o) <=> arg = o
<1>1. \A o \in {"-k", "-p", "-m"} : \A arg : Waits(arg) = CommandFor(o) <=> arg = o
  BY DEF Command, Waits, CommandFor
<1>2. QED
  BY <1>1, FieldNames

LEMMA CommandsDiffer ==
  \A o, p \in DOMAIN Field : CommandFor(o) = CommandFor(p) => o = p
<1>1. \A o, p \in {"-k", "-p", "-m"} : CommandFor(o) = CommandFor(p) => o = p
  BY DEF CommandFor
<1>2. QED
  BY <1>1, FieldNames

\* A value goes to the field of the option that waits for it, and nowhere else.
LEMMA TakeValueType ==
  ASSUME NEW r \in OptionRecord, NEW c \in TeleCommand, NEW arg \in Text
  PROVE  /\ TakeValue(r, c, arg) \in OptionRecord
         /\ TakeValue(r, c, arg).is_slave_g = r.is_slave_g
<1>1. atoi[arg] \in Int
  BY OptionsAssumption DEF Text
<1>2. QED
  BY <1>1 DEF TakeValue, OptionRecord, TeleCommand

LEMMA TakeValueField ==
  ASSUME NEW r \in OptionRecord, NEW c \in TeleCommand, NEW arg \in Text,
         NEW o \in DOMAIN Field
  PROVE  TakeValue(r, c, arg)[Field[o]]
           = IF c = CommandFor(o) THEN Parsed(o, arg) ELSE r[Field[o]]
<1>1. CASE o = "-k"
  <2>1. Field[o] = "kafka_server" /\ CommandFor(o) = "KAFKA_COMMAND"
        /\ Parsed(o, arg) = arg
    BY <1>1, FieldNames DEF CommandFor, Parsed
  <2>2. TakeValue(r, c, arg).kafka_server
          = IF c = "KAFKA_COMMAND" THEN arg ELSE r.kafka_server
    BY DEF TakeValue, OptionRecord, TeleCommand
  <2>3. QED
    BY <2>1, <2>2
<1>2. CASE o = "-p"
  <2>1. Field[o] = "consumer_threads_num" /\ CommandFor(o) = "THREAD_NUM_COMMAND"
        /\ Parsed(o, arg) = atoi[arg]
    BY <1>2, FieldNames DEF CommandFor, Parsed
  <2>2. TakeValue(r, c, arg).consumer_threads_num
          = IF c = "THREAD_NUM_COMMAND" THEN atoi[arg] ELSE r.consumer_threads_num
    BY DEF TakeValue, OptionRecord, TeleCommand
  <2>3. QED
    BY <2>1, <2>2
<1>3. CASE o = "-m"
  <2>1. Field[o] = "delay_min" /\ CommandFor(o) = "DELAY_MIN_CMD"
        /\ Parsed(o, arg) = atoi[arg]
    BY <1>3, FieldNames DEF CommandFor, Parsed
  <2>2. TakeValue(r, c, arg).delay_min
          = IF c = "DELAY_MIN_CMD" THEN atoi[arg] ELSE r.delay_min
    BY DEF TakeValue, OptionRecord, TeleCommand
  <2>3. QED
    BY <2>1, <2>2
<1>4. QED
  BY <1>1, <1>2, <1>3, FieldNames

\* --slave disturbs no other field.
LEMMA SlaveField ==
  ASSUME NEW r \in OptionRecord, NEW b \in BOOLEAN
  PROVE  /\ [r EXCEPT !.is_slave_g = b] \in OptionRecord
         /\ [r EXCEPT !.is_slave_g = b].is_slave_g = b
         /\ \A o \in DOMAIN Field :
              [r EXCEPT !.is_slave_g = b][Field[o]] = r[Field[o]]
<1>1. \A o \in {"-k", "-p", "-m"} :
        [r EXCEPT !.is_slave_g = b][Field[o]] = r[Field[o]]
  BY FieldNames DEF OptionRecord
<1>2. /\ [r EXCEPT !.is_slave_g = b] \in OptionRecord
      /\ [r EXCEPT !.is_slave_g = b].is_slave_g = b
  BY DEF OptionRecord
<1>3. QED
  BY <1>1, <1>2, FieldNames

LEMMA OptionsStart == OptionsInit => OptionsInv
<1>1. SUFFICES ASSUME OptionsInit
               PROVE  OptionsInv
  OBVIOUS
<1>2. i = 0 /\ cmd \in TeleCommand /\ opt = Defaults
  BY <1>1 DEF OptionsInit
<1>3. ArgvOK
  <2>1. PICK n \in 0 .. MaxArgs : \E args \in [1 .. n -> Argument] :
               argv = <<Program>> \o args
    BY <1>1 DEF OptionsInit
  <2>2. PICK args \in [1 .. n -> Argument] : argv = <<Program>> \o args
    BY <2>1
  <2>3. args \in Seq(Text) /\ <<Program>> \in Seq(Text)
    BY OptionsAssumption DEF Text
  <2>4. QED
    BY <1>2, <2>2, <2>3 DEF ArgvOK
<1>4. CmdOK /\ LastValueTaken
  BY <1>2 DEF CmdOK, LastValueTaken
<1>5. opt \in OptionRecord /\ SlaveSeen
  BY <1>2 DEF Defaults, OptionRecord, SlaveSeen
<1>6. DefaultsKept
  BY <1>2 DEF DefaultsKept
<1>7. QED
  BY <1>3, <1>4, <1>5, <1>6 DEF OptionsInv

LEMMA OptionsStep == OptionsInv /\ ReadArgument => OptionsInv'
<1>1. SUFFICES ASSUME OptionsInv, ReadArgument
               PROVE  OptionsInv'
  OBVIOUS
<1>2. PICK arg : arg = argv[i + 1]
  OBVIOUS
<1>3. /\ argv' = argv /\ i' = i + 1 /\ i < Len(argv)
      /\ cmd' = Command(cmd, arg)
      /\ opt' = [TakeValue(opt, cmd, arg) EXCEPT
                   !.is_slave_g = @ \/ arg = "--slave"]
  BY <1>1, <1>2 DEF ReadArgument
<1>4. /\ argv \in Seq(Text) /\ Len(argv) \in Nat /\ argv[1] = Program
      /\ i \in Nat /\ i + 1 \in 1 .. Len(argv) /\ arg \in Text
      /\ cmd \in TeleCommand /\ opt \in OptionRecord
  BY <1>1, <1>2, <1>3 DEF OptionsInv, ArgvOK, CmdOK
<1>5. /\ opt' \in OptionRecord
      /\ opt'.is_slave_g = (opt.is_slave_g \/ arg = "--slave")
      /\ \A o \in DOMAIN Field :
           opt'[Field[o]] = TakeValue(opt, cmd, arg)[Field[o]]
  <2> DEFINE r == TakeValue(opt, cmd, arg)
             b == r.is_slave_g \/ arg = "--slave"
  <2>1. r \in OptionRecord /\ r.is_slave_g = opt.is_slave_g
    BY <1>4, TakeValueType
  <2>2. opt' = [r EXCEPT !.is_slave_g = b] /\ b \in BOOLEAN
    BY <1>3
  <2>3. b = (opt.is_slave_g \/ arg = "--slave")
    BY <2>1
  <2> HIDE DEF r, b
  <2>4. QED
    BY <2>1, <2>2, <2>3, SlaveField DEF r
<1>6. \A o \in DOMAIN Field :
        opt'[Field[o]]
          = IF cmd = CommandFor(o) THEN Parsed(o, arg) ELSE opt[Field[o]]
  BY <1>4, <1>5, TakeValueField
<1>7. ArgvOK'
  BY <1>3, <1>4 DEF ArgvOK
<1>8. CmdOK'
  <2>1. cmd' = Waits(arg) /\ cmd' \in TeleCommand
    BY <1>3, CommandWaits, WaitsType
  <2>2. argv'[i'] = arg
    BY <1>2, <1>3
  <2>3. cmd' = Waits(argv'[i'])
    BY <2>1, <2>2
  <2>4. QED
    BY <2>1, <2>3 DEF CmdOK, Waits, Command
<1>9. SlaveSeen'
  <2>1. opt.is_slave_g = \E k \in 1 .. i : argv[k] = "--slave"
    BY <1>1 DEF OptionsInv, SlaveSeen
  <2>2. \A k : k \in 1 .. i + 1 <=> k \in 1 .. i \/ k = i + 1
    BY <1>4
  <2>3. opt'.is_slave_g = \E k \in 1 .. i + 1 : argv[k] = "--slave"
    BY <1>2, <1>5, <2>1, <2>2
  <2>4. QED
    BY <1>3, <2>3 DEF SlaveSeen
\* The argument before goes with the command that waits.
<1>10. \A o \in DOMAIN Field : i >= 1 => (cmd = CommandFor(o) <=> argv[i] = o)
  <2>1. i >= 1 => cmd = Waits(argv[i])
    BY <1>1 DEF OptionsInv, CmdOK
  <2>2. QED
    BY <2>1, WaitsFor
<1>11. LastValueTaken'
  <2>1. SUFFICES ASSUME NEW o \in DOMAIN Field, NEW k \in 1 .. i,
                        argv[k] = o, \A j \in k + 1 .. i : argv[j] # o
                 PROVE  opt'[Field[o]] = Parsed(o, argv[k + 1])
    <3>1. SUFFICES ASSUME NEW o \in DOMAIN Field, NEW k \in 1 .. i' - 1,
                          argv'[k] = o, \A j \in k + 1 .. i' - 1 : argv'[j] # o
                   PROVE  opt'[Field[o]] = Parsed(o, argv'[k + 1])
      BY DEF LastValueTaken, Parsed
    <3>2. i' - 1 = i /\ argv' = argv
      BY <1>3, <1>4
    <3>3. QED
      BY <2>1, <3>1, <3>2
  <2>2. CASE k = i
    BY <1>2, <1>4, <1>6, <1>10, <2>1, <2>2
  <2>3. CASE k # i
    <3>1. k \in 1 .. i - 1 /\ i \in k + 1 .. i /\ i >= 1
          /\ \A j \in k + 1 .. i - 1 : j \in k + 1 .. i
      BY <1>4, <2>3
    <3>2. opt[Field[o]] = Parsed(o, argv[k + 1])
      BY <1>1, <2>1, <3>1 DEF OptionsInv, LastValueTaken
    <3>3. cmd # CommandFor(o)
      BY <1>10, <2>1, <3>1
    <3>4. QED
      BY <1>6, <3>2, <3>3
  <2>4. QED
    BY <2>2, <2>3
<1>12. DefaultsKept'
  <2>1. PICK c \in TeleCommand :
               /\ i = 0 => c = cmd
               /\ \A o \in DOMAIN Field :
                    (\A k \in 1 .. i - 1 : argv[k] # o) =>
                      opt[Field[o]] = IF i >= 1 /\ c = CommandFor(o)
                                      THEN Parsed(o, Program)
                                      ELSE Defaults[Field[o]]
    BY <1>1 DEF OptionsInv, DefaultsKept
  <2>2. ASSUME NEW o \in DOMAIN Field, \A k \in 1 .. i : argv[k] # o
        PROVE  opt'[Field[o]] = IF c = CommandFor(o) THEN Parsed(o, Program)
                                ELSE Defaults[Field[o]]
    <3>1. \A k \in 1 .. i - 1 : argv[k] # o
      BY <1>4, <2>2
    <3>2. CASE i = 0
      <4>1. opt[Field[o]] = Defaults[Field[o]] /\ c = cmd /\ arg = Program
        BY <1>2, <1>4, <2>1, <3>1, <3>2
      <4>2. QED
        BY <1>6, <4>1
    <3>3. CASE i >= 1
      <4>1. i \in 1 .. i
        BY <1>4, <3>3
      <4>2. cmd # CommandFor(o)
        BY <1>10, <2>2, <3>3, <4>1
      <4>3. QED
        BY <1>6, <2>1, <3>1, <3>3, <4>2
    <3>4. QED
      BY <1>4, <3>2, <3>3
  <2>3. i' >= 1 /\ i' # 0 /\ i' - 1 = i /\ argv' = argv
    BY <1>3, <1>4
  <2>4. \A o \in DOMAIN Field :
          (\A k \in 1 .. i' - 1 : argv'[k] # o) =>
            opt'[Field[o]] = IF i' >= 1 /\ c = CommandFor(o)
                             THEN Parsed(o, Program) ELSE Defaults[Field[o]]
    BY <2>2, <2>3
  <2>5. QED
    BY <2>3, <2>4 DEF DefaultsKept, Field, CommandFor, Parsed, Defaults
<1>13. QED
  BY <1>5, <1>7, <1>8, <1>9, <1>11, <1>12 DEF OptionsInv, OptionRecord, Text, Argument, Option

LEMMA OptionsStutter == OptionsInv /\ UNCHANGED optionVars => OptionsInv'
<1>1. SUFFICES ASSUME OptionsInv, UNCHANGED optionVars
               PROVE  OptionsInv'
  OBVIOUS
<1>2. argv' = argv /\ i' = i /\ cmd' = cmd /\ opt' = opt
  BY <1>1 DEF optionVars
<1>3. ArgvOK' /\ CmdOK' /\ SlaveSeen'
  BY <1>1, <1>2 DEF OptionsInv, ArgvOK, CmdOK, SlaveSeen, Waits, Command
<1>4. LastValueTaken'
  <2>1. SUFFICES ASSUME NEW o \in DOMAIN Field, NEW k \in 1 .. i' - 1,
                        argv'[k] = o, \A j \in k + 1 .. i' - 1 : argv'[j] # o
                 PROVE  opt'[Field[o]] = Parsed(o, argv'[k + 1])
    BY DEF LastValueTaken, Parsed, Field
  <2>2. QED
    BY <1>1, <1>2, <2>1 DEF OptionsInv, LastValueTaken
<1>5. DefaultsKept'
  BY <1>1, <1>2
  DEF OptionsInv, DefaultsKept, Parsed, Field, Defaults, CommandFor
<1>6. QED
  BY <1>1, <1>2, <1>3, <1>4, <1>5
  DEF OptionsInv, OptionRecord, Text, Argument, Option

LEMMA OptionsInvCorrect == OptionsSpec => []OptionsInv
<1>1. OptionsInv /\ [ReadArgument]_optionVars => OptionsInv'
  BY OptionsStep, OptionsStutter
<1>2. QED
  BY OptionsStart, <1>1, PTL DEF OptionsSpec

(* On a proper command line of any length each option has the value that    *)
(* follows its last occurrence and --slave is seen wherever it stands,     *)
(* whatever cmd holds when the loop starts.                                *)
THEOREM GivenOptionsReadCorrect == OptionsSpec => []GivenOptionsRead
<1>1. OptionsInv => GivenOptionsRead
  <2>1. SUFFICES ASSUME OptionsInv, i = Len(argv), WellFormed
                 PROVE  /\ opt.is_slave_g
                             = \E k \in 1 .. Len(argv) : argv[k] = "--slave"
                        /\ \A o \in DOMAIN Field : \A k \in 2 .. Len(argv) :
                             argv[k] = o
                             /\ (\A j \in k + 1 .. Len(argv) : argv[j] # o) =>
                               opt[Field[o]] = Parsed(o, argv[k + 1])
    BY DEF GivenOptionsRead, Done
  <2>2. opt.is_slave_g = \E k \in 1 .. Len(argv) : argv[k] = "--slave"
    BY <2>1 DEF OptionsInv, SlaveSeen
  <2>3. ASSUME NEW o \in DOMAIN Field, NEW k \in 2 .. Len(argv), argv[k] = o,
               \A j \in k + 1 .. Len(argv) : argv[j] # o
        PROVE  opt[Field[o]] = Parsed(o, argv[k + 1])
    <3>1. k < Len(argv) /\ Len(argv) \in Nat
      BY <2>1, <2>3 DEF WellFormed, OptionsInv, ArgvOK
    <3>2. k \in 1 .. i - 1 /\ \A j \in k + 1 .. i - 1 : j \in k + 1 .. Len(argv)
      BY <2>1, <3>1
    <3>3. QED
      BY <2>1, <2>3, <3>2 DEF OptionsInv, LastValueTaken
  <2>4. QED
    BY <2>2, <2>3
<1>2. QED
  BY <1>1, OptionsInvCorrect, PTL

(* Of the options that are not given at most one loses its default, to the  *)
(* name of the program, on every command line, whatever cmd starts with.   *)
THEOREM OneDefaultAtMostCorrect == OptionsSpec => []OneDefaultAtMost
<1>1. OptionsInv => OneDefaultAtMost
  <2>1. SUFFICES ASSUME OptionsInv, i = Len(argv),
                        NEW o \in DOMAIN Field, NEW p \in DOMAIN Field,
                        \A k \in 1 .. Len(argv) : argv[k] # o,
                        \A k \in 1 .. Len(argv) : argv[k] # p,
                        opt[Field[o]] # Defaults[Field[o]],
                        opt[Field[p]] # Defaults[Field[p]]
                 PROVE  o = p /\ opt[Field[o]] = Parsed(o, Program)
    BY DEF OneDefaultAtMost, Done
  <2>2. PICK c \in TeleCommand :
               \A q \in DOMAIN Field :
                 (\A k \in 1 .. i - 1 : argv[k] # q) =>
                   opt[Field[q]] = IF i >= 1 /\ c = CommandFor(q)
                                   THEN Parsed(q, Program)
                                   ELSE Defaults[Field[q]]
    BY <2>1 DEF OptionsInv, DefaultsKept
  <2>3. \A k \in 1 .. i - 1 : k \in 1 .. Len(argv)
    BY <2>1 DEF OptionsInv, ArgvOK
  <2>4. c = CommandFor(o) /\ c = CommandFor(p)
        /\ opt[Field[o]] = Parsed(o, Program)
    BY <2>1, <2>2, <2>3
  <2>5. QED
    BY <2>4, CommandsDiffer
<1>2. QED
  BY <1>1, OptionsInvCorrect, PTL

=============================================================================
