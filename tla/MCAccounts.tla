---------------------------- MODULE MCAccounts ----------------------------
(* Accounts on a small instance of every component.                          *)
EXTENDS Accounts, TLC

CONSTANTS y1, y2, d, w, nobody, p1, p2, none, q1, q2, q3, a1, a2, n1, n2, n3

MCCovered == (d :> {d}) @@ (w :> {d})
MCDevice == (1 :> 1) @@ (2 :> 2)
MCUnique == (q1 :> n1) @@ (q2 :> n3) @@ (q3 :> n2)
\* Attempts, callers, users, registrars and entrants have the same names here: one
\* permutation renames them all.
Symmetry == Permutations({y1, y2})
=============================================================================
