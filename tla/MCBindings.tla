----------------------------- MODULE MCBindings -----------------------------
(* Bindings on small instances: the values fall into kinds, every            *)
(* installation has a key of its own.                                        *)
EXTENDS Bindings, TLC

CONSTANTS d1, d2, m1, m2, i1, i2

MCKind == [v \in Values |-> IF v \in {d1, d2} THEN "domain" ELSE "machine"]
MCKeyOf == [i \in Installations |-> i]
MCPatterns == {Values \cap {d1}}
Symmetry == Permutations(GroupIds) \cup Permutations(Users)
=============================================================================
