-------------------------------- MODULE MCMain --------------------------------
(***************************************************************************)
(* The two things main.cpp does by itself before its threads run: it reads *)
(* the options, and it fills a wrapper_Info, here with either half of the  *)
(* wrapper.  Neither reads what the other leaves, so a behaviour is about  *)
(* one of them.                                                            *)
(***************************************************************************)
EXTENDS MainOptions, KafkaProducer, KafkaConsumer

MCatoi == [s \in Argument \cup {Program} |->
             CASE s = "2" -> 2 [] s = "7" -> 7 [] OTHER -> 0]

VARIABLE part

MCInit ==
  /\ part \in {"options", "wrapper"}
  /\ OptionsInit /\ KafkaInit /\ ConsumerInit
  /\ part = "wrapper" => argv = <<Program>> /\ cmd = "INVALID_COMMAND"

libraryVars == <<calling, refused, outq>>
pullVars == <<queue, arrived, ops, held, handed, result>>
handleVars == <<stage, rk, rkt>>

MCNext ==
  \/ /\ part = "options" /\ ReadArgument
     /\ UNCHANGED <<part, handleVars, libraryVars, pullVars>>
  \/ /\ part = "wrapper" /\ ProcessNext
     /\ UNCHANGED <<part, optionVars, pullVars>>
  \/ /\ part = "wrapper" /\ ConsumerNext
     /\ UNCHANGED <<part, optionVars, libraryVars>>

MCSafeSpec ==
  MCInit /\ [][MCNext]_<<part, optionVars, handleVars, libraryVars, pullVars>>

MCSpec == MCSafeSpec /\ ProcessFairness /\ CloseFairness

=============================================================================
