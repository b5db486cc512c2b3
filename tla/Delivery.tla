------------------------------ MODULE Delivery ------------------------------
(***************************************************************************)
(* What the notification outbox promises for each mail: it is delivered at *)
(* least once or given up, and it is called sent only when the mail server *)
(* has taken it.  Outbox implements it with workers that hold leases.      *)
(***************************************************************************)
EXTENDS FiniteSets

CONSTANT Notices

VARIABLES
    mail,       \* "none", "queued", "sent" or "dead"
    accepted    \* the mails that the mail server has taken

vars == <<mail, accepted>>

Queue(n) ==
    /\ mail[n] = "none"
    /\ mail' = [mail EXCEPT ![n] = "queued"]
    /\ UNCHANGED accepted

\* Also after the end: a worker may have been slow.
Accept(n) ==
    /\ mail[n] # "none"
    /\ accepted' = accepted \cup {n}
    /\ UNCHANGED mail

Complete(n) ==
    /\ mail[n] = "queued" /\ n \in accepted
    /\ mail' = [mail EXCEPT ![n] = "sent"]
    /\ UNCHANGED accepted

GiveUp(n) ==
    /\ mail[n] = "queued"
    /\ mail' = [mail EXCEPT ![n] = "dead"]
    /\ UNCHANGED accepted

\* An administrator has the mails that were given up tried again.
Revive ==
    /\ mail' = [n \in Notices |->
                  IF mail[n] = "dead" THEN "queued" ELSE mail[n]]
    /\ UNCHANGED accepted

Init ==
    /\ mail = [n \in Notices |-> "none"]
    /\ accepted = {}

Next ==
    \/ \E n \in Notices : Queue(n) \/ Accept(n) \/ Complete(n) \/ GiveUp(n)
    \/ Revive

Settles == \A n \in Notices : mail[n] = "queued" ~> mail[n] # "queued"

Spec == Init /\ [][Next]_vars /\ Settles
=============================================================================
