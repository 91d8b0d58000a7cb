------------------------------- MODULE TeleMat -------------------------------
(***************************************************************************)
(* The shared fetch map of tele_mat.h / tele_mat.cpp: one bit per (minute  *)
(* of the day, task index), packed WordBits to an int, in a System V       *)
(* segment that every thread of every process of the program maps.         *)
(*                                                                         *)
(* A word is the set of its bits that are one.  The macros are compound    *)
(* assignments on plain ints, so the callers do not use them as one step:  *)
(* they load a word, and store it back changed in a later step.            *)
(*                                                                         *)
(* An operator whose name ends in _Fault, here and in the other modules,   *)
(* is a wrong version of the definition of that name.  No specification    *)
(* uses one: they exist to show that each property fails when the code is  *)
(* wrong.                                                                  *)
(***************************************************************************)
EXTENDS Integers

CONSTANTS
  WordBits,         \* bits of an int: 32 in the code (i >> 5, i & 0x1f)
  ONE_DAY_MINUTE,   \* rows of the map: 24 * 60 in the code
  MAX_FETCH_INDEX   \* tasks of a minute: 10000 in the code

ASSUME MatAssumption ==
  /\ WordBits \in Nat \ {0}
  /\ ONE_DAY_MINUTE \in Nat \ {0}
  /\ MAX_FETCH_INDEX \in Nat \ {0}

MAX_INDEX == MAX_FETCH_INDEX \div WordBits + 1

Minute == 0 .. ONE_DAY_MINUTE - 1
Index  == 0 .. MAX_FETCH_INDEX - 1
Bit    == 0 .. WordBits - 1
Word   == SUBSET Bit

FetchMap == [Minute -> [0 .. MAX_INDEX - 1 -> Word]]

WordOf(i) == i \div WordBits
BitOf(i)  == i % WordBits

LoadWord(s, m, i) == s[m][WordOf(i)]

StoreWord(s, m, i, w) == [s EXCEPT ![m] = [@ EXCEPT ![WordOf(i)] = w]]

WithBit_Fault(w, i)    == {BitOf(i)}
WithoutBit_Fault(w, i) == w

\* The value a compound assignment computes from the word it loaded.
WithBit(w, i)    == w \cup {BitOf(i)}
WithoutBit(w, i) == w \ {BitOf(i)}

IS_SET(s, m, i) == BitOf(i) \in LoadWord(s, m, i)

=============================================================================
