# Verification of the Shanghai fetcher

The program fetches, every minute, the 10000 (and then 20000 more) values that
a data service offers for that minute, decodes them and pushes them to Kafka;
a second process, the slave, follows the first and fetches what it missed.
This directory holds TLA+ modules that model it, TLC configurations that check
the modules on small instances, and TLAPS proofs, for all values of the
constants, about the producer, the whole process, and the masters and slaves
that share a map. `PROJECT.json` is the index: the runs, what each definition
models (file and lines), the hazards and the properties that cover them, a
wrong version of the code for each property, and the theorems.

    tlc -workers 2 -config ProducerMaster.cfg MCProducer.tla    # a run
    tlapm TeleTaskConsumerProofs.tla                            # proofs

## 1. The system

| Component | State | Operations | Talks to |
|---|---|---|---|
| Task producer (`tele_task_producer.*`) | bounded queue of tasks, `index_`, window `fetch_time_str_`, last minute `old_tm_`, token and its age, `task_lock_`, `not_empty_` | `Init`; its thread: `PushTaskBatch`, `CheckandUpdateTask` / `UpdateTask`; for others: `GetTask`, `SetIdentityError` | clock, token service, shared map, consumers |
| Task consumer (`tele_task_consumer.*`) | per thread: the task in hand and a queue of extra tasks; shared: fail list with its lock | N consumer threads, one refetch thread: `SaveFailTask`, `GetFailTask`, `CreateExtroTasks`, `GetJsonValue`, `DeBase64`, `Store` | producer, data service, Kafka wrapper, shared map |
| Shared fetch map (`tele_mat.*`) | one bit per (minute of the day, index), packed 32 to an int, in a System V segment | `SET_BIT_INDEX`, `CLEAR_SET`, `IS_SET`: plain compound assignments, no lock | written by master and consumers, read by slaves, shared by processes, survives them |
| HTTP and JSON access (`json_data.*`, `CurlWrapper.*`), base64 | none that matters | `get_toKen_by_url`, `get_value_by_url`, `access_http` | the services |
| Kafka wrapper (`KafkaWrapper.*`) | handle and topic of `wrapper_Info`; the library's queues behind them | `producer_init`, `producer_push_data`; `producer_close`, `push_data_to_kafka`, `consumer_init`, `consumer_pull_data`, `consumer_close`, which nothing in the program calls | Kafka library |
| `main` | options, `cmd`, `is_slave_g` | reads the options, opens the map and Kafka, starts the threads | all |
| jsoncpp copy (`json_writer.cpp`, `json_tool.h`, `json_batchallocator.h`; the rest are headers without code) | members of the two styled writers; batches and free list of the allocator | conversions, `FastWriter`, `StyledWriter`, `StyledStreamWriter`; `allocate`, `release` | its caller |
| `basictypes`, build files | | not the program's own logic | |

**How they interact.** The producer thread alternates between a batch (push up
to 200 tasks of the current window, under `task_lock_`, broadcast after the
unlock) and a look at the clock; when `tm_min` has changed it opens the window
of `delay_min_` minutes ago: the queue is emptied, `index_` restarts, the token
may be renewed. Consumers block in `GetTask`, fetch without a lock, and either
push the value and set a bit, drop the task, put it in the fail list, or, for
index 0 only, report a refused token back to the producer. Whoever pushes index
9999 creates the 20000 extra tasks in a queue of its own. A master clears the
bit of each index as it queues it; a slave skips indices whose bit is set.

**What is hard.** The broadcast outside the lock; a queue that is full in the
middle of a batch; a window that changes under queued tasks; the flag for a
refused token, set by one thread and cleared by another; task pointers that
change owner through two queues, a list and locals; unlocked read-modify-writes
of words that neighbouring indices and other processes share; a map row that
still holds yesterday's bits; retries that must end; a Kafka queue that only a
push empties; members no constructor sets (`index_`, `need_update_token_`,
`token_update_minutes_`, `rkt`, `cmd`); processes that die between the push and
the mark and start again over a map that outlives them; a slave that works on a
window while the master clears its bits. `PROJECT.json` lists each at its line.

**What makes each component correct.**
*Producer*: tasks leave in the order of their indices, none twice in a window,
none of an old window or an old token; a master's without a gap; no consumer
sleeps beside a task; windows follow the clock; a report of a refused token is
not lost. *Consumers*: a task has one owner; nothing is pushed twice; retries
end; extra tasks are complete and come after the last index. *Map*: in the part
of the window already queued, a bit means "pushed in this window", and a pushed
value gets its bit, except for lost updates. *Several processes*: no index falls
between a master and a slave; behind the master a mark means a value in Kafka,
whoever died; a value is pushed at most once each time some process opens its
window. *Kafka wrapper*: a full queue gets its room back; a message that is pulled is
handed on once, in order, and given back, and nothing else passes for data;
closing returns.
*`main`*: what is given on the command line is read. *jsoncpp*: a conversion can
be read back; the layout of a document, comments and the reuse of a writer do
not change the value written, and no comment is lost; no memory is handed out
twice, or from behind a batch, or lost.

## 2. The modules

    TaskDispenser            what the producer promises (abstract)
    FetchLedger              what one process does to the keys of its values
       |     \               (abstract)
       |    MasterSlave      masters and slaves over one map, with history
       |        \
       |      MasterSlaveProofs                          (TLAPS)
    TeleMat    TeleTask      the map; the task and the names of minutes
                  |
               HttpJson      what a request gives
        \         |
      TeleTaskProducer       producer, open: others may call it at any time
          |          \
    TeleTaskConsumer   TeleTaskProducerProofs            (TLAPS)
     whole process          |
          |___ TeleTaskConsumerProofs                    (TLAPS)
                    |___ TeleTaskOwnerProofs             (TLAPS)
                              |___ TeleTaskMarkProofs    (TLAPS)
                                        |___ TeleTaskLedgerProofs: the process
                                             does what FetchLedger says (TLAPS)

    KafkaHandle              wrapper_Info, extended by
    KafkaProducer, KafkaConsumer    the two halves, with the library outside
    MainOptions              the command line
       |___ MainProofs       the command line and the pulling half (TLAPS)
    JsonWriter, JsonTool, BatchAllocator    the jsoncpp copy
                   |___________|___ JsonProofs           (TLAPS)
    MCProducer, MCConsumer, MCMasterSlave, MCMain, MCWriter, MCJson    what TLC checks

An operator that ends in `_Fault` is a wrong version of the definition of that
name. No specification uses one; with it in place of the right definition, the
property it is listed with is violated.

**`TeleMat`** is `tele_mat.h`. A word is the set of its one-bits; `LoadWord` and
`StoreWord` are separate because the macros are not atomic: every client loads
in one step and stores in a later one.

**`TeleTask`** is `struct TeleTask` and its factory. A fetch time string is the
minute it names, modulo `ClockPeriod`; the minute of the day (`minute_index`)
is that number modulo `ONE_DAY_MINUTE`, and `tm_min` modulo `MinutesPerHour`.
Local time is taken to run without jumps: a change of daylight saving time only
renames minutes.

**`HttpJson`** follows a request from how the transfer ends, through
`access_http` (which returns what arrived, whatever curl and the HTTP status
say), to what the threads tell apart: *fail* (retried), *drop*, *refused*,
*store*. All strings in between are named for the first test they fail. An answer
that is JSON but no object, or has a member that is no string, makes the JSON
library throw, and nothing catches it: the process ends, and no thread has an
outcome to go on from. That is a `Crash` of `FetchLedger`; what is said here of
liveness is said of processes that do not end so.

**`TeleTaskProducer`** has one variable per member and one per local that lives
across steps (`ppc` is the place of the producer thread). Actions:
`ProducerInit`; `PushTaskBatch_Enter / _Load / _Clear / _Slave / _Return /
_Broadcast`; `CheckandUpdateTask_Same / _Moved`, `UpdateTask`; `GetTask_Pop /
_Wait / _Wakeup`; `SetIdentityError`; `ShmWrite` (anybody stores any word);
`Tick`. `task_lock_` is kept over several steps only by the loop of
`PushTaskBatch`, since the loop touches the unlocked map; other critical
sections are one step that needs the lock free. `UpdateTask` holds the lock
during the request for a token, so nothing else can see its middle.

**`TeleTaskConsumer`** EXTENDS it with the consumers' and the refetch thread's
own state and replaces "anybody may" by their code: a consumer's pop is
`GetTask_Pop` with the task going into its hands, its store is `ShmWrite` of the
word it loaded. Three history variables are read by properties only: `pushed`
and `repushed` (what reached Kafka) and `spoiled` (bits a store of a stale word
put back to an older value).

**`TaskDispenser`** has two variables, the window and the next index, and three
actions: open another window, hand out the next index, and, for a slave, pass
over indices. The producer implements it under `window <- fetch_time_str_` and
`next <-` the index at the head of the queue, or the next to be queued when the
queue is empty.

**`FetchLedger`** is a process seen from outside. A key is a window and an
index; each process has it in one *stage* (none, queued, fetching, marking,
failed), whichever queue, list or thread holds the task. The map is `marked`,
what reached Kafka is counted in `stored` (consumer threads) and `restored`
(refetch thread). A `Crash` leaves the map and Kafka, and lets the process start
again in the current minute. `ImplementsLedger` checks, in both roles, that
`TeleTaskConsumer` does nothing else, under the mapping `Ledger` (`StageOf` reads
the stage off the queues and threads). Lost updates of the map are in `StoreBit`:
whoever stores a word stores what he loaded of it some steps before, so in the
ledger's one step for both the other bits of the word may become anything.
`AmongOthersSpec`, there and in `TeleTaskConsumer`, is some of the processes with
the stores of others in between (`OthersStore`, `Others_Store`).
**`MasterSlave`** adds what its properties remember: the keys a process was done
with, those a master cleared, those a slave skipped before that, how often a
window was opened, and `revived`, the bits that are one because a stale word was
stored. `Observe` reads all of it off the two states of a step.

**`KafkaProducer`** models `producer_init` (whose failure leaves both pointers
uninitialised and is ignored by its callers), `producer_push_data` as
`rd_kafka_produce` and a later `rd_kafka_poll`, called by the consumer threads of
the process for ever. The library is external: it has room for a set of messages,
settles each, and gives the room back when the delivery report is served. Using a topic that was never opened leads to
`stage = "undefined"`, where the model says nothing more. **`KafkaConsumer`** is
the other half over the same `wrapper_Info` (`KafkaHandle`): the library puts
data, ends of the partition and errors in a queue, in any order; each message has
its place in it (`at`). `consumer_pull_data` takes one or times out, with the
early return that keeps a message (`held`), the result that is overwritten and
the one that is never set, which may be any int; `consumer_close` stops, polls
until nothing waits, and destroys.

**`MainOptions`** is the loop over `argv`, one argument a step, with the
uninitialised `cmd` any command or none. **`MCMain`** puts it beside the two
halves of the wrapper, which share no state with it.

**`JsonTool`** has the conversions as functions: numbers to digits
(`uintToString`), code points to UTF-8, what is cut of a double's zeroes, quoted
strings with the four hexadecimal digits of a control character's code
(`ControlCode` names the characters that have no letter, by code), ends of line.
Words have `Bytes` bytes; digits of a double are zero or not. The negation of the
smallest integer is undefined, and may give any: `valueToString` is the set of
what the build may return. The loops over digits and
characters are recursive functions (no RECURSIVE operator), so they can be
proved about. **`JsonWriter`** has
`FastWriter` as a function of the value, and the two styled writers, which
differ in `writeIndent` only, as functions of the writer's members; a document is
a sequence of tokens. These too are recursive functions: over `Value`, a set that
holds the elements of its members, each less nested (`Level`) than the value it
is in. `writeKid` is what writing each element does to a writer, so the operators
for arrays and objects need no recursion of their own, and `After` is a loop: what
is made of something by step after step. `holds` gathers the assertions of the
code and every index into `childValues_`. Its state is a writer that is used again.
Two ends of line are not written: by `StyledWriter` after a line comment that ends
in a space, since `writeIndent` takes the space for indentation, and by both
writers between a comment on the same line and the comment before the next value.
A reader of the document (`Reading`) is told which line comments hide the rest of
their line: for the theorem all but those of the first kind, for
`WrittenAsDocumented` all. **`MCWriter`** has the values that TLC writes.
**`BatchAllocator`** counts places in objects from `buffer_`; the page an allocator
is made with is a member, chosen from `Pages`.

## 3. The runs

| Run | Distinct states | Instance | Shows |
|---|---|---|---|
| `producer_master` | 335,360 | 3 indices, batches of 2, queue of 2, 2 tokens, 2 consumers, words of 2 bits, 4 minutes, `index_` starts at -1 or 5 | types; uninitialised `index_` never used; no lost wake-up; queue is of the window and token; no gap; a minute opens one window; reports of refused tokens kept; refinement of `TaskDispenser` |
| `producer_live` | 24,000 | 2 indices, batches and queue of 1, 2 consumers | blocked consumers wake; windows move; tokens are replaced |
| `producer_drain` | 34,432 | a slave: 3 indices, batches of 2, queue of 1, clock may stop, marks that others set and clear | a window is worked through to its last index, past marked indices and full queues |
| `consumer_one` | 3,544,390 | 1 consumer, 2 windows, 2 + 2 indices, fail list of 2, 2 retries | types and retry bound; delay queue complete; extra tasks only after the last index |
| `consumer_race` | 364,424 | 2 consumers, 3 + 1 indices in one word, fail list of 1 | one owner per task, no double push; bits mean pushed and pushed means bit, up to lost updates; the process implements the producer's `SafeSpec` |
| `consumer_retry` | 19,892 | 1 consumer, 2 + 1 indices in one word, batches of 1, 3 retries | a task in the fail list does not go round for ever; a master process implements `FetchLedger`; its window is worked through to the last index |
| `consumer_slave` | 135,872 | 1 consumer, 2 windows, 2 indices in one word, others store in the row of the first | a slave process among others implements `FetchLedger` among others; its producer, whose batches skip by a map that others change, implements `TaskDispenser` |
| `master_slave` | 1,670,462 | a master and a slave a minute behind it, 2 + 1 indices in one word, 2 threads each, 1 crash of either or window besides the common one | behind the master a mark means a stored value; no index is lost; both up to lost updates; a value is pushed at most once for each opening of its window; extra values only after a first fetch of the last index |
| `kafka_process` | 44,305 | 2 pushers, room for 3 messages; 4 messages to pull, each data or one of 3 events, 2 operations; command lines of up to 4 arguments | room of settled messages comes back also when every push is refused; what is pulled is handed on or kept, once and in order, and only data a success; closing returns; options read, one default lost at most |
| `json` | 152,705 | integers of 2 bytes, doubles of 4 digits, texts of 4 characters; margin of 12, values of two levels and three comments, one of which ends in a space, at each placement, a writer used twice; 3 batches, blocks of 8, pages of 16 and 20 | conversions read back; both styled writers write what `FastWriter` writes, comments in order, nothing left over; no object twice, no block lost |
| `json_comments` | violated | one object, with a one-line array in it | the first two findings of section 6 |
| `json_batches` | violated | one batch, blocks of 8, the default page of 255 | the third finding of section 6 |

**Why these bounds.** What matters in the producer is where boundaries meet:
3 indices with batches of 2 give a full batch and a batch cut by
`MAX_FETCH_INDEX`; a queue of 2 or 1 is met full in the middle of a batch; a
window is cut by the next at every point. Four names of minutes with an hour of
two make equal `tm_min` in different windows. Two consumers are what it takes to
have one awake beside one asleep, and two writers of a word beside the producer.
In runs of the producer alone, the row of the map does not matter (every row may
hold anything at any time), so a day is one minute. In `consumer_*` the clock
stops after `ClockPeriod` minutes (`Clock_Step`): names of minutes are used once,
as in the code within a day, so `pushed` can be keyed by them. The rows of
`fetch_map` start equal in `MCInit`, all values allowed: actions of different
rows do not interact. Symmetry of consumers is used in safety runs only.

In `master_slave` the clock stops before a name of a minute would come to any
process a second time, as it does within a day; the row of the window both come
to (`Common`) starts with any bits, so "yesterday" is in every initial state.
Two indices in one word are what it takes to lose an update, and to be past one
index and before another; with `Delay` 1 and 2 the slave meets both what the
master has and has not been through, and after a crash of the master it may be
ahead of it, which is one of the cases `ahead` records. `MaxDetours` bounds the
crashes together with the windows other than `Common` that are opened, and
`MaxReach` the indices reached there: enough to come back after a crash, or to
leave work of one window to the refetch thread while in the next, but not for
both, which is left to the proofs. In `consumer_retry` a batch is one task: a
batch keeps the lock, so only between batches can a consumer take the first
index and mark it while the master clears the second. In `consumer_slave` others
store in one row only, which starts empty: of that row, the slave sees every
content at every moment, and extra indices, which have no bit, are left to
`consumer_retry`.
In `json` a margin of 12 makes arrays of four elements long by the rule
`size * 3 >= rightMargin_`, and arrays of two too wide or not by the width of
their elements; texts of four characters hold a carriage return and new-line
with something on either side, or two escapes; four codes of control characters
have one digit or two, letters or not. A page of 16 is two blocks; one of 20 ends
inside a block, as one of 255 does, and `MaxBlocks` ends what such a batch gives.
In `consumer_slave` a slave's batch skips an index that is marked before it, or
marked by another process during it.

`PushedMeansBit` and `BitMeansPushed` excuse what `spoiled` records, and
`MarkMeansStored` and `NothingMissed` what `revived` does. Without the
excuse TLC violates both: two consumers that mark two indices of one word
(one loads, the other loads and stores, the first stores) lose a mark, and the
producer's `CLEAR_SET` and a consumer's `SET_BIT_INDEX` undo each other. The
excuse is exact for one store at a time: only the bits of the word that changed
between the load and the store.

Some runs set `CHECK_DEADLOCK FALSE`: the options come to their end, bounds on
clock, crashes, writes and batches stop what would go on in the program, and a
conversion is a function, checked in one state for each argument.

## 4. Fairness

*`ThreadFairness`*: the producer thread runs (`WF`): its sleeps end, `task_lock_`
is free again and again, a request ends by `CURLOPT_TIMEOUT`. `GetTask_Pop(c)`
is strongly fair: a consumer comes back for tasks after a fetch that also ends
by the time-out, and the producer thread sleeps a second per round with the lock
free, so a pop is possible again and again though not all the time.

*`WorldFairness`*: the clock moves, and some of its ticks fall just before a
look at it (`SF` of `Tick` at `ppc = "check"`, and of
`CheckandUpdateTask_Moved`): a thread that looks every second or two does not
only look at moments a whole number of hours apart, which is all that `tm_min`
cannot tell. The token service, asked again and again, answers. `WindowProgress`
needs none of this and is checked with thread fairness alone.

*`SystemFairness`* promises nothing of the services: a fetch may fail for ever.
In `KafkaProducer` the pushers go on pushing (there is always a next window) and
the library settles each message (`message.timeout.ms`). In `KafkaConsumer` only
the loop of `consumer_close`, once entered, is required to go on
(`CloseFairness`); nobody is required to pull or to close.

## 5. The proofs

`TeleTaskProducerProofs` proves, for every number of consumers and all sizes,
under `MatAssumption`, `TaskAssumption` and `ProducerAssumption` (sizes are
positive, `ClockPeriod` is a whole number of days and of hours; `DelayMin` is
any integer, as `-m` allows): `TypeCorrect`, `IndexIsReady`, `QueueIsOfWindow`,
`NothingIsSkipped`, `NoWakeupIsLost`, `WindowIsOfMinute`, `IdentityErrorIsKept`
and `ProducerImplementsDispenser`. TLC evaluates the assumptions in every run
that extends the modules.

*Inductive invariant.* `TypeOK` is not inductive: that a pushed task has an index
of the map, or that a bit of the right word is cleared, needs to know where `i`
comes from, and `index_` starts with any int. `TypeInv` adds `IndexReady` (with
a window, `index_` is in range, and in the loop `i = index_ + n`) and
`QuietStart` (before `Init` there is no window and no task).

*Step kinds.* `StepKinds` shows once, action by action, that a step does one of
five things to the queue: push the task of `NextIndex`, pass over it, pop the
head, open a window, or nothing. `QueueOfWindow`, `NothingSkipped` and the
refinement are then five cases each, not seventeen.

*Refinement.* Under `ImplInv` (all of the above) a pop is `HandOut`: the head of
the queue goes, and the next head, or `NextIndex` when none is left, is one
further, for a master by `NothingSkipped`; for a slave it may be `HandOut` or
`Skip`, because what was popped may have had skipped indices behind it. Opening
a window must change it: `FetchTimeInjective` (equal fetch times mean equal
minutes modulo the period) with `WindowOfMinute`.

`TeleTaskConsumerProofs` proves about a whole process, for any number of
consumers, indices, retries and any bound of the fail list: `SystemTypeCorrect`,
`DelayIsWhole`, `ExtraComesAfterLast` and `ProcessImplementsProducer`, under
`ConsumerAssumption` (`MAX_DELAY_SIZE` is the number of extra tasks, as 20000 is
30000 - 10000; `NoTask` is no task).

*Inductive invariant.* `SystemInv` is the producer's `TypeInv` and, of the
threads, their types, `StagesOK` (what a thread holds, by where it stands),
`DelayWhole` and `ExtraFollows`. The two parts need each other. That a step of
the process is one of the producer's specification (`ProducerPart`) needs the
word a consumer stores to be one of the map, which `StagesOK` gives: a thread
that marks has a normal task, so an index of the map. `TypeInv` then follows
from `TypeStep` of the producer, and tells that what a consumer pops is typed.
`DelayWhole` holds because a thread takes a normal task only when its delay queue
is empty, which `StagesOK` remembers until `CreateExtroTasks`. `ExtraFollows`
carries "the last index of my window was pushed" through every place a task can
be. There is one lemma for each action; `DeleteKeeps` serves the four that end
with `delete task`.

`TeleTaskOwnerProofs` proves `TaskHasOneOwner` for the same constants. `OneOwner`
alone is not inductive: that a new task is no one's needs to know which keys can
be anywhere. `OwnerInv` says it in five parts. `Apart`: the keys held by the
places (queues, list, threads, and what was pushed) are disjoint. `Fits`: a key
of the current window is below `NextIndex`; an extra key's last index was pushed
and no thread is still marking it. `DistinctKeys`: no queue holds a key twice.
`MarksApart`: no two threads mark one key. `WindowsKnown`: every key is of a
window of a minute up to some `L`, and the next window is of a minute after `L`;
the clock of a process does not come round (`Clock_Step`), so by
`FetchTimeInjective` the next window is new. A step is reduced to `Gets(b, N)`:
one place gets the keys `N`, which no other has afterwards. For most actions `N`
is a key another place gives up (`MovesGets`). It is new only in two: a pushed
task has the key of `NextIndex`, and extra tasks come from the one thread that
marks the last index of their window.

`TeleTaskMarkProofs` proves `BitMeansPushedCorrect` and `PushedMeansBitCorrect`
under `OneDay`, `ClockPeriod = ONE_DAY_MINUTE`: a row of the map is then of one
minute. That is what the properties mean: on the next day the row is used again,
and the bits of the day before count for nothing. `StoreChanges` shows that a
store changes the bit of its index and, apart from what it records in `spoiled`,
no other (`BitsDiffer`: two indices share no bit). The master's clearing takes no
mark away because of `Fits`: it clears the bit of `NextIndex`, and what was
pushed of its window is below.

`TeleTaskLedgerProofs` proves that a process implements `FetchLedger`
(`ProcessImplementsLedger`), in both roles, for any number of indices, retries and
windows and words of any size. Its one hypothesis is that `Consumer` is finite,
since the ledger counts the threads that are busy (`BusyBound`). The places of
`OwnerInv` are disjoint, so a key is in one stage (`OneStageHolds`) and `StageOf`
reads it off whatever place holds it (`StageViewHolds`). There is then one lemma for each
step of a thread: one key goes from its stage to another and every other key
stays where it is (`MoveMaps`), or the step is not seen at all (`StutterMaps`). Two
steps move more: opening a window empties the producer's queue and no other
(`OpenMaps`), and the thread that marks the last index queues all the extra keys
of its window (`ExtraKeys`). Only a master clears (`MasterClears`, an invariant of
its own), and a store, however old the word it stores, gives the bit of its key
the right value and changes others in that word only (`StoreMapsBit`).

A process that shares its map is not alone: `ProcessImplementsLedgerAmongOthers`
lets others store any word between any two of its steps. The invariants say
nothing of the map's content, so such a store keeps them (`OthersKeepBase`), and
`LedgerStep`, which needs no more of the state before a step, still gives each
step of the process; the store is itself a `StoreBit` of any bit of its word
(`OthersMap`). So what `MasterSlave` lets each of its processes do, with the
steps of the rest in between, is what this code can do.
`ProcessSafeAmongOthers`: the types, `OneOwner`, `DelayWhole` and
`ExtraAfterLast` hold among others too. `BitMeansPushed` and `PushedMeansBit` do
not, `spoiled` being what this process spoils: their counterparts for several
processes are those of `MasterSlave`.

`MasterSlaveProofs` proves, for any number of masters and slaves, of windows,
indices and threads, any delays and any number of crashes, under
`LedgerAssumption`: `LedgerTypeCorrect`, `MarkMeansStoredCorrect`,
`NothingMissedCorrect`, `ExtraFollowsLastCorrect` and `PushedOncePerLifeCorrect`.
For the first three, `SharedInv` is the types, the two properties, and two facts
they rest on: `MarkingStored` (who is about to mark has stored: the order of push
and mark) and `PassedCleared` (what a master is past counts as cleared).
`MapBitInjective` shows that within the `ClockPeriod` no two keys share a bit.
`MarksStored` deals with stale words, in one place for all the actions: a bit that
a step leaves one and that is not in `revived` was one and not in `revived`
before, or is the bit this step marks. The words may have any size, and any
number of threads and processes may lose each other's updates: by
`ProcessImplementsLedgerAmongOthers` those are all the code can lose.

*Counting pushes.* That a value was pushed at most once per life is not
inductive: a process on its way to a push must not find the lives used up.
`PushInv` adds those processes to what was pushed: `OneChance` says that the
pushes of an index and the processes that may still push it (they hold it, or
are in its window and have not come to it) are together no more than the lives
of its window; `ExtraChance` says the same of an extra value and the times its
last index was stored, counting the threads that hold it and those that are
marking that index, from which the extra tasks come. Opening a window adds a
life and one process; a push adds to one side what it takes off the other; a
crash, a drop or a skip only takes off. So a step is never more than "one
joins" or "one leaves" a finite set, which is what the assumption that `Process`
is finite is for. `StageInv` gives the facts behind: a process has nothing of
windows it has not come to (`StagesPast`) or of indices ahead of it
(`BehindNext`), and once it has an extra task it is done with the last index
(`LastDone`).

`JsonProofs` proves `ConversionsReadBackCorrect`: for ints of every width from two
bytes on, doubles of every precision, all code points, strings and comments of
every length, what is written reads as what was converted
(`ToolAssumption` asks of the constants no more than that they are numbers, and
that the control characters have different codes from 1 to 31). The
writing and the reading are recursive, so the proof is by induction.
`StrongInduction` has a set of numbers for its parameter, where the library's
theorem has an operator, and follows from the library's statement that the
numbers are well founded. A recursive function is by definition *some* function
that satisfies its equation: `RecursionExists`, `PrefixRecursion` and
`SpellingExists` show that there is one, and each function has a lemma
`...Unfolds` that gives its equation. From there:

* *Ints.* `UintReadsBack`: the digits of a number are worth the number;
  `UintLength`: they are fewer than three for each byte, which is why the buffer
  of `3 * sizeof + 1` has room for the sign and the null character too.
  `IntsReadBack` adds the sign. For the smallest int the digits fit whatever its
  negation gives, and no more is said.
* *Code points.* `Groups` takes a number apart into its groups of six bits;
  each range has its form.
* *Doubles.* `CutKeeps`: in any text with its point before its exponent, what is
  cut is zeroes at the end of a fraction, never of a whole part or an exponent;
  `PointFirst`: what `sprintf` gives is such a text.
* *Strings.* `HexadecimalReads`: four digits read as the code. `EscapedInPlace` says where the characters of a string come to stand,
  `EscapedReadsBack` that a reader finds them there, `PlainStays` that a string
  let through by the test holds nothing the loop would have escaped.
* *Comments.* `LinesStay`: the k-th character `Kept` is the k-th written.

`JsonProofs` also proves `NoObjectTwiceCorrect` and `NoBlockLostCorrect`, for every
size of block and page and every number of batches. `AllocatorInv`: `used_` is a
whole number of blocks, and, if a page is (`WholePages`), at most `end_`, so that
`used_ == end_` is met; blocks with a caller and free blocks are apart and
together are what was taken. `BlocksApart` makes blocks that begin at different
places share no object. That blocks are inside their batches is claimed for whole
pages only: for the others it is wrong (section 6).

`JsonProofs` proves the writers too: `StyledIsFastCorrect`, `NothingLeftOverCorrect` and
`CommentsInOrderCorrect`, for every margin, every set of values nested to any
depth, and any number of writes. `WriterAssumption` asks of the constants what
the code has: a margin that is a number, scalars that are neither blanks nor
comments, values whose elements are less nested. There is no hypothesis on the
comments. `Hiding` is in the statement of the first: a reader who lets every line
comment hide its line finds less in what `StyledWriter` wrote (section 6).

* *Values.* `ValueInduction` is induction over values, from `StrongInduction` over
  their levels; `FastUnfolds`, `WriteUnfolds` and `CommentsUnfold` give the
  equations of the recursive functions, and `AfterSteps` what a loop makes.
* *Measuring.* `MeasuredArray`: `isMultineArray` leaves the writer as it was but
  for `childValues_`, which then has the texts of all the elements, in order, or
  of none. This is why the assertion and the indexes hold, and why
  `hasChildValue` of the code (`json_writer.cpp:373`) means "all".
* *Reading.* `Adds` says what a reader finds in a document more than in the part
  before it, `Hidden` that a line comment is open at its end, `Open` that in that
  case the next `writeIndent` ends the line. Each operation is given its text
  (`Wrote`) and what it needs and leaves of `Hidden` and `Open`: after a comment on
  the same line the writer is `Open` but may be `Hidden`, and what follows is
  another comment, `writeIndent` or the end of the document.
* *Together.* `EveryValueIsWritten`: writing a value adds what `FastWriter` writes
  of it and its comments, and gives back the other members.
  `EveryValueIsWrittenAlike`: two writers that differ only in `childValues_` still
  do so after writing the same value. `WriterInv` is what they make of a writer
  that is used again: the three properties, and that members have their types.

`MainProofs` proves `PulledOnceCorrect`, for any number of messages, events and
operations, and `GivenOptionsReadCorrect` and `OneDefaultAtMostCorrect`, for
command lines of any length under `OptionsAssumption` (a value is no option).
`PullInv` is the property, in parts over the queue and how many messages were
taken from it, with types: taking the head makes it the next number and leaves
the queue in line (`TakesNext`), and it then is handed on (`HandedOn`) or kept
(`KeptBack`). `OptionsInv` says of a loop half
way that `cmd` is what the argument before asks for (`CmdOK`), that the options
whose value was read have it (`LastValueTaken`), and that the others have their
defaults but for the one that `cmd` started with (`DefaultsKept`).

*Model-checked only.* All liveness (the prover has no fairness), which is all
that the runs check of the Kafka wrapper's producing half.

## 6. What the models say about the code

Three findings, each with a run that TLC ends with a violation:

* **`json_comments`**: `isMultineArray` looks for comments of the elements where
  its condition is always false (`json_writer.cpp:435`), so an array on one line is
  written without them, against "If the Value have comments then they are
  outputed according to their #CommentPlacement" (`writer.h:68`). The comments
  that are written are in order (`CommentsInOrder`).
* **`json_comments`**, the same document: after a line comment that ends in a space
  `StyledWriter` begins no new line (`json_writer.cpp:460`), so the comment swallows
  what follows, and the document is not the "JSON document that represents the
  root value" (`writer.h:81`, and 79).
* **`json_batches`**: `BatchAllocator` looks for `used_ == end_`
  (`json_batchallocator.h:66`), and `used_` moves by `objectPerAllocation`: with
  blocks of 8 (`value.h:767`) and the default page of 255 the two never meet, and
  the 256th block is behind the memory of its batch, for which `allocate` did not
  "allocate space" (`json_batchallocator.h:56`). Nothing in the repository makes an
  allocator.

A fourth disagreement has no run: a double with all its 16 digits before the point
is printed without a digit after it (`json_writer.cpp:84`), which is no number of
the "JSON format" of `writer.h:79`. The model has it (`CutKeepsNumber` is about
what is cut, and asks for no digit).

Modelled as it is, and no finding, since no text of the repository says otherwise:

* Lost updates in the map are real (section 3): a mark may vanish, or a cleared
  mark of an earlier day come back. A slave then fetches twice, or not at all.
* The refetch thread sets no bit and creates no extra tasks: if the first fetch
  of index 9999 fails, its window has no extra tasks (`Refetch_Store`).
* A transfer cut short is dropped, not retried, because `access_http` returns
  what arrived (`HttpJson`).
* `DeBase64` of a value that is no base64 reads and writes beside its buffer and
  may let an uninitialised buffer through to Kafka.
* When `producer_init` fails the process goes on with uninitialised pointers.
* A slave started with a smaller delay than the master's, or beside a master
  that was restarted, is ahead of it and takes yesterday's bits for today's: the
  exception of `NothingMissed`.
* A value may reach Kafka once for every opening of its window by any process:
  after a crash, when the master clears a mark the slave made, or when the
  refetch thread, which marks nothing, pushed it first (`PushedOncePerLife`).
* The early return of `consumer_pull_data` for an unknown partition or topic
  keeps the message (`KafkaWrapper.cpp:251`); the result for data is never set.
* `-value` of the smallest integer is undefined (`json_writer.cpp:41`).
* A late report of a token that was replaced since costs one more request
  (`SetIdentityError` does not look at the token), and `UpdateTask` asks for a
  token while it holds `task_lock_`.
* An answer that is JSON of another shape ends the process (`HttpJson`).

Where one of these touches a property, the property says how far it can go and not
that it does not happen: lost updates are excused by `spoiled` and `revived`,
missing extra tasks allowed by `ExtraFollowsLast`, repeated pushes bounded by
`PushedOncePerLife`. The hazards in `PROJECT.json` that no property catches have a
note that says so.

## 7. Not modelled

* `daemon`, the set-up of the log, failures of `shmget` / `shmat`, which nobody
  checks (`TeleShmLoad`); the order of the initialisations in `main` is in `Init`,
  `SystemInit` and `KafkaInit`.
* The statistics counters, which only a branch that `GetTask` never lets a
  thread reach would log; the text of URLs and logs.
* Durations and rates: that with `-p 1` a consumer busy with 20000 extra tasks
  misses the next windows is a matter of speed.
* `value.h`, `reader.h`, `forwards.h`, `features.h`, `config.h`, `autolink.h`:
  declarations and macros; the code of `Json::Value` and `Json::Reader` is not in
  the repository but in a library that is linked. `HttpJson` models them from how
  the threads use them. (`json_writer.cpp` is compiled by `CMakeLists.txt`, which
  takes every source file, and not by the makefile.)
* Of the writers: the number format of locales, the YAML option of `FastWriter`.
* `producer_close` and `push_data_to_kafka`, which nothing calls; the callbacks:
  `test_msg_delivered` and `logger`, which only log, and `msg_delivered` and
  `msg_consume`, which are registered nowhere.
* `basictypes` (types and a random time nobody asks for), OpenSSL's decoder, curl
  and the Kafka library beyond what is said above.

## 8. Plan

Done, the most important behaviour first:

1. `TeleMat`, `TeleTask`, `TeleTaskProducer` with `TaskDispenser`, and
   `TeleTaskProducerProofs`: the window, the queue, the token.
2. `TeleTaskConsumer` with `TeleTaskConsumerProofs`, `TeleTaskOwnerProofs` and
   `TeleTaskMarkProofs`: the whole process.
3. `HttpJson`, `KafkaProducer`: what the process needs of its services.
4. `FetchLedger`, `MasterSlave` and `MasterSlaveProofs`: several processes over
   one map, with crashes; and the refinement that ties them to 2.
5. `KafkaConsumer`, `MainOptions`.
6. `JsonTool`, `JsonWriter`, `BatchAllocator`.
7. `TeleTaskLedgerProofs`, which joins 2 and 4; the counts of pushes in
   `MasterSlaveProofs`; `MainProofs`; `JsonProofs`.
8. `JsonWriter` as recursive functions, and the proofs of its three invariants,
   for all comments; the undefined negation and the hexadecimal digits in
   `JsonTool`; pages of any size in `BatchAllocator`.

Left: nothing that the prover reaches. A prover with fairness could be asked for
the liveness of `producer_live`, `producer_drain`, `consumer_retry` and
`kafka_process`.
