----------------------------- MODULE BatchAllocator -----------------------------
(***************************************************************************)
(* BatchAllocator of json_batchallocator.h: blocks of objectPerAllocation  *)
(* objects, taken from a list of released blocks or else from batches.     *)
(*                                                                         *)
(* Batch b is the b-th allocated, 0 the dummy of the constructor; each is  *)
(* put at the head of the list, so that next_ of b is b - 1 and next_ of   *)
(* the dummy is null.  A place is counted in objects from buffer_.         *)
(***************************************************************************)
EXTENDS Integers, Sequences, FiniteSets

CONSTANTS
  objectPerAllocation,
  Pages,         \* the pages an allocator is made with
  MaxBatches,    \* bound: batches
  MaxBlocks,     \* bound: blocks taken from a batch
  MaxFree        \* bound: released blocks

ASSUME AllocatorAssumption ==
  /\ objectPerAllocation \in Nat \ {0}
  /\ Pages \subseteq {page \in Nat : page >= 16}
  /\ MaxBatches \in Nat /\ MaxBlocks \in Nat /\ MaxFree \in Nat

VARIABLES
  objectsPerPage_,
  batches,       \* the batch at the head of the list
  currentBatch_,
  used_,         \* of each batch
  free,          \* the list of freeHead_
  live           \* blocks the caller has

allocatorVars == <<objectsPerPage_, batches, currentBatch_, used_, free, live>>

Block == (1 .. MaxBatches) \X Nat

end_(b) == IF b = 0 THEN 0 ELSE objectsPerPage_

\* Objects in the memory of a batch.
Room(b) == objectPerAllocation * end_(b)

\* The objects of a block.
Objects(block) == block[2] .. block[2] + objectPerAllocation - 1

AllocatorInit ==
  /\ objectsPerPage_ \in Pages
  /\ batches = 0
  /\ currentBatch_ = 0
  /\ used_ = [b \in 0 .. MaxBatches |-> 0]
  /\ free = <<>>
  /\ live = {}

-----------------------------------------------------------------------------

AllocateFree ==
  /\ free # <<>>
  /\ live' = live \cup {Head(free)}
  /\ free' = Tail(free)
  /\ UNCHANGED <<objectsPerPage_, batches, currentBatch_, used_>>

\* The next block of batch b.
Take_Fault(b) ==
  /\ UNCHANGED objectsPerPage_
  /\ used_[b] < objectPerAllocation * MaxBlocks
  /\ used_' = [used_ EXCEPT ![b] = @ + 1]
  /\ live' = live \cup {<<b, used_[b]>>}
  /\ currentBatch_' = b
  /\ free' = free

Take(b) ==
  /\ UNCHANGED objectsPerPage_
  /\ used_[b] < objectPerAllocation * MaxBlocks
  /\ used_' = [used_ EXCEPT ![b] = @ + objectPerAllocation]
  /\ live' = live \cup {<<b, used_[b]>>}
  /\ currentBatch_' = b
  /\ free' = free

Full(b) == used_[b] = end_(b)

\* From the current batch, or from the first after it that is not full.
AllocateBatch ==
  /\ free = <<>>
  /\ \E b \in 0 .. currentBatch_ :
       /\ ~Full(b)
       /\ \A c \in b + 1 .. currentBatch_ : Full(c)
       /\ Take(b)
  /\ UNCHANGED batches

AllocateNew ==
  /\ free = <<>>
  /\ \A c \in 0 .. currentBatch_ : Full(c)
  /\ batches < MaxBatches
  /\ batches' = batches + 1
  /\ Take(batches')

Release_Fault(block) ==
  /\ block \in live /\ Len(free) < MaxFree
  /\ live' = live \ {block}
  /\ free' = <<block>>
  /\ UNCHANGED <<objectsPerPage_, batches, currentBatch_, used_>>

Release(block) ==
  /\ block \in live /\ Len(free) < MaxFree
  /\ live' = live \ {block}
  /\ free' = <<block>> \o free
  /\ UNCHANGED <<objectsPerPage_, batches, currentBatch_, used_>>

AllocatorNext ==
  \/ AllocateFree \/ AllocateBatch \/ AllocateNew
  \/ \E block \in live : Release(block)

AllocatorSpec == AllocatorInit /\ [][AllocatorNext]_allocatorVars

-----------------------------------------------------------------------------
(* Properties. *)

Freed == {free[k] : k \in 1 .. Len(free)}

(* A block the caller has lies inside the memory of its batch: there is     *)
(* "space for an array of objectPerAllocation object" (line 56).  It is so *)
(* when a page is a whole number of blocks; otherwise used_ steps over     *)
(* end_, the batch is never full, and goes on behind its memory.           *)
InsideBatch == \A x \in live : x[2] + objectPerAllocation <= Room(x[1])

(* Blocks in the caller's hands share no object, and none of them is in    *)
(* the free list, where its first bytes are a link, whatever the page; and *)
(* they lie inside their batches when pages are whole.                     *)
NoObjectTwice ==
  /\ \A x, y \in live : x # y /\ x[1] = y[1] => Objects(x) \cap Objects(y) = {}
  /\ live \cap Freed = {}
  /\ objectsPerPage_ % objectPerAllocation = 0 => InsideBatch

(* A released block is not lost: all that was taken from the batches is in *)
(* the caller's hands or in the free list, there once.                     *)
NoBlockLost ==
  /\ live \cup Freed =
       UNION {{<<b, p>> : p \in {q \in 0 .. used_[b] - 1 :
                                   q % objectPerAllocation = 0}} : b \in 1 .. batches}
  /\ \A j, k \in 1 .. Len(free) : free[j] = free[k] => j = k

=============================================================================
