--------------------------- MODULE MCApplication ---------------------------
(* Application with three messages and a few values of each kind.  A worker *)
(* is as good as another, and so is a release of an application.           *)
EXTENDS Application, TLC

CONSTANTS n1, n2, n3, k1, k2, w1, w2, d1, m1, t1, t2, r1, r2, r3, u1, u2,
          v1, v2

\* A request, its retry under a new nonce, a request of other units under the
\* same key that has the nonce of the retry, and one of another key.
Message(n, t, k, u) == [nonce |-> n, stamp |-> t, key |-> k, units |-> u]
MCMessages ==
    {Message(n1, 1, k1, 2), Message(n2, 2, k1, 2), Message(n2, 3, k1, 1),
     Message(n3, 4, k2, 2)}
\* A build for everybody, a newer one for a platform and one from a version on.
MCBuilds ==
    {[version |-> 1, specific |-> 1, least |-> 0],
     [version |-> 2, specific |-> 0, least |-> 0],
     [version |-> 2, specific |-> 1, least |-> 1]}
Symmetry == Permutations(Workers) \cup Permutations(Scoped)
=============================================================================
