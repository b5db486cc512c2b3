------------------------------ MODULE MCSeats ------------------------------
EXTENDS Seats, TLC

CONSTANTS i1, i2, v1

\* Each installation has a key of its own.
MCKeyOf == [i \in Installations |-> i]

\* Installations differ by name only.
Symmetry == Permutations(Installations)
=============================================================================
