------------------------------ MODULE MCOutbox ------------------------------
(* Outbox on small instances: a notification that can be read and one that *)
(* cannot, two processes on one database.                                  *)
EXTENDS Outbox, TLC

CONSTANTS n1, n2, w1, w2, a1
=============================================================================
