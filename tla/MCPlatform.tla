----------------------------- MODULE MCPlatform -----------------------------
(* Platform on a small instance of every component.                          *)
EXTENDS Platform, TLC

CONSTANTS l1, c1, c2, c3, o1, o2, o3, e1, e2, d1, d2, i1, i2, bk, b1, b2, b3

\* o1 sold the target, o2 the cards c1 and c2, o3 the card c3; c1 lapses.
MCBaseDays == [l \in Targets |-> [t \in Tracks |-> 1]]
MCTrackOf == [c \in Cards |-> IF c = c2 THEN "updates" ELSE "usage"]
MCDaysOf == [c \in Cards |-> IF c = c3 THEN 2 ELSE 1]
MCRedeemUntil == [c \in Cards |-> IF c = c1 THEN 2 ELSE Nil]
MCSoldBy == [x \in Targets \cup Cards |->
               IF x = l1 THEN o1 ELSE IF x = c3 THEN o3 ELSE o2]
\* The scripts of a release, of the next one, and of one whose text was changed.
MCReleases == {<<"a">>, <<"a", "b">>, <<"c">>}
=============================================================================
