----------------------------- MODULE MainOptions -----------------------------
(***************************************************************************)
(* The options of main.cpp: the loop over argv with the command it expects *)
(* a value for, which starts uninitialised.                                *)
(***************************************************************************)
EXTENDS Integers, Sequences

CONSTANTS
  Program,     \* argv[0]
  Value,       \* strings that are no option
  MaxArgs,     \* bound: arguments after argv[0]
  atoi         \* the int a string starts with, 0 if none

Option == {"-k", "-p", "-m", "--slave"}
Argument == Option \cup Value

ASSUME OptionsAssumption ==
  /\ Option \cap Value = {} /\ Program \notin Option
  /\ atoi \in [Argument \cup {Program} -> Int]
  /\ MaxArgs \in Nat

VARIABLES
  argv,
  i,      \* arguments read
  cmd,    \* the option that waits for its value
  opt     \* kafka_server, consumer_threads_num, delay_min, is_slave_g

optionVars == <<argv, i, cmd, opt>>

Defaults ==
  [kafka_server |-> "127.0.0.1", consumer_threads_num |-> 1, delay_min |-> 3,
   is_slave_g |-> FALSE]

TeleCommand ==
  {"INVALID_COMMAND", "KAFKA_COMMAND", "THREAD_NUM_COMMAND", "DELAY_MIN_CMD"}

\* An uninitialised cmd may also hold an int that is no TeleCommand, which the
\* switch treats as INVALID_COMMAND.
OptionsInit ==
  /\ \E n \in 0 .. MaxArgs : \E args \in [1 .. n -> Argument] :
       argv = <<Program>> \o args
  /\ i = 0
  /\ cmd \in TeleCommand
  /\ opt = Defaults

\* The value a waiting option takes.
TakeValue(o, c, arg) ==
  CASE c = "KAFKA_COMMAND"      -> [o EXCEPT !.kafka_server = arg]
    [] c = "THREAD_NUM_COMMAND" -> [o EXCEPT !.consumer_threads_num = atoi[arg]]
    [] c = "DELAY_MIN_CMD"      -> [o EXCEPT !.delay_min = atoi[arg]]
    [] OTHER                    -> o

Command_Fault(c, arg) ==
  CASE arg = "-k" -> "KAFKA_COMMAND"
    [] arg = "-p" -> "THREAD_NUM_COMMAND"
    [] arg = "-m" -> "DELAY_MIN_CMD"
    [] OTHER      -> c

\* What waits after an argument, whether it was a value or not.
Command(c, arg) ==
  CASE arg = "-k" -> "KAFKA_COMMAND"
    [] arg = "-p" -> "THREAD_NUM_COMMAND"
    [] arg = "-m" -> "DELAY_MIN_CMD"
    [] OTHER      -> "INVALID_COMMAND"

ReadArgument ==
  /\ i < Len(argv)
  /\ LET arg   == argv[i + 1]
         taken == TakeValue(opt, cmd, arg)
     IN  /\ opt' = [taken EXCEPT !.is_slave_g = @ \/ arg = "--slave"]
         /\ cmd' = Command(cmd, arg)
  /\ i' = i + 1
  /\ UNCHANGED argv

OptionsSpec == OptionsInit /\ [][ReadArgument]_optionVars

-----------------------------------------------------------------------------
(* Properties. *)

Done == i = Len(argv)

\* The field an option sets, and its value after the option.
Field == [k \in {"-k", "-p", "-m"} |->
            CASE k = "-k" -> "kafka_server"
              [] k = "-p" -> "consumer_threads_num"
              [] k = "-m" -> "delay_min"]
Parsed(k, arg) == IF k = "-k" THEN arg ELSE atoi[arg]

\* Command lines that are options, each with a value that is no option.
WellFormed ==
  \A k \in 2 .. Len(argv) :
    /\ argv[k] \in DOMAIN Field => k < Len(argv) /\ argv[k + 1] \in Value
    /\ argv[k] \in Value => argv[k - 1] \in DOMAIN Field

(* On a proper command line each option has the value that follows it, the *)
(* last one if it is repeated, and --slave is seen wherever it stands: the *)
(* garbage cmd starts with changes no option that is given.                *)
GivenOptionsRead ==
  Done /\ WellFormed =>
    /\ opt.is_slave_g = \E k \in 1 .. Len(argv) : argv[k] = "--slave"
    /\ \A o \in DOMAIN Field : \A k \in 2 .. Len(argv) :
         argv[k] = o /\ (\A j \in k + 1 .. Len(argv) : argv[j] # o) =>
           opt[Field[o]] = Parsed(o, argv[k + 1])

(* Of the options that are not given, at most one loses its default, to    *)
(* the name of the program: that is all an uninitialised cmd can do, also  *)
(* on an improper command line whose last option has no value.             *)
OneDefaultAtMost ==
  Done =>
    LET lost == {o \in DOMAIN Field :
                   /\ \A k \in 1 .. Len(argv) : argv[k] # o
                   /\ opt[Field[o]] # Defaults[Field[o]]}
    IN  \A o, p \in lost : o = p /\ opt[Field[o]] = Parsed(o, Program)

=============================================================================
