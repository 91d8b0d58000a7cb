-------------------------------- MODULE MCJson --------------------------------
(***************************************************************************)
(* The three parts of the jsoncpp copy whose code is here.  They share no  *)
(* state: a behaviour is about one of them.                                *)
(***************************************************************************)
EXTENDS JsonTool, MCWriter, BatchAllocator

\* Around every boundary between forms, and where the shifted bits differ.
MCCodePoints ==
  UNION {b - 3 .. b + 3 : b \in {3, 128, 2048, 55296, 65536, 262144, 1114112}}
    \cup 4090 .. 4100

\* Codes on both sides of 16, with a digit that is a letter and one that is not.
MCControlCode == [SOH |-> 1, VT |-> 11, DLE |-> 16, US |-> 31]

VARIABLE part

MCInit ==
  /\ part \in {"tool", "writer", "allocator"}
  /\ JsonToolInit /\ WriterInit /\ AllocatorInit
  /\ part # "tool" => arg = [of |-> "int", value |-> 0]
  /\ part # "writer" => ~writer.isStream
  /\ part # "allocator" => objectsPerPage_ = 16

MCNext ==
  \/ /\ part = "writer" /\ Write
     /\ UNCHANGED <<part, arg, allocatorVars>>
  \/ /\ part = "allocator" /\ AllocatorNext
     /\ UNCHANGED <<part, arg, writerVars>>

MCSpec == MCInit /\ [][MCNext]_<<part, arg, writerVars, allocatorVars>>

=============================================================================
