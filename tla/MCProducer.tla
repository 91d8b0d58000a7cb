----------------------------- MODULE MCProducer -----------------------------
EXTENDS TeleTaskProducer, TLC

\* An uninitialised int: below and above the ranges of the members.
MCUninit == {-1, 5}

Symmetry == Permutations(Consumer)

=============================================================================
