------------------------------- MODULE Client -------------------------------
(***************************************************************************)
(* The standard client (examples/universal-client with sdk/go): processes  *)
(* that share one data directory with an identity, the saved state and a   *)
(* downloaded package, and that may crash between any two steps.  The      *)
(* server is what they use of it: leases by session, and whether the       *)
(* licence may update.  Sessions are random, one per process (no           *)
(* --session).                                                             *)
(***************************************************************************)
EXTENDS Integers, FiniteSets

CONSTANTS
    Processes,
    NoOne,
    ServerSeats,
    MaxLeases    \* bound: leases ever made

ASSUME ClientAssumption == NoOne \notin Processes /\ ServerSeats \in Nat /\ MaxLeases \in Nat

Commands == {"verify", "borrow", "release", "download", "serve"}

VARIABLES
    identity,    \* instance.json: the process that generated it
    saved,       \* license.json: the seat in it
    package,     \* update.package: who wrote it, and whether it is whole
    proc,        \* the processes
    leases,      \* server: license_seat_leases in the order of their creation
    entitled,    \* server: the licence may update
    held,        \* history: downloads with a right since their bytes arrived
    foreign      \* history: leases ended by a process of another session

clientVars == <<identity, saved, package, proc, leases, entitled, held, foreign>>

Seatless == [id |-> 0, session |-> NoOne, borrowed |-> FALSE]
Idle == [pc |-> "off", command |-> "verify", id |-> NoOne, session |-> NoOne, seat |-> Seatless]

Is(p, place) == proc[p].pc = place
Goto(p, place) == proc' = [proc EXCEPT ![p].pc = place]

-----------------------------------------------------------------------------
(* Start: the identity is published once, by linking a complete file *)

OpenInstallation(p, c) ==
    /\ Is(p, "off")
    /\ proc' = [proc EXCEPT ![p] =
         [Idle EXCEPT !.pc = IF identity = NoOne THEN "publish" ELSE "load",
                      !.command = c, !.id = identity]]
    /\ UNCHANGED <<identity, saved, package, leases, entitled, held, foreign>>

\* Mutant: the file is renamed to its place.
PublishOver(p) == p

\* os.Link fails when the file is there, which is not an error.
Publish(p) == IF identity = NoOne THEN p ELSE identity

LinkIdentity(p) ==
    /\ Is(p, "publish")
    /\ identity' = Publish(p)
    /\ Goto(p, "reread")
    /\ UNCHANGED <<saved, package, leases, entitled, held, foreign>>

ReadIdentity(p) ==
    /\ Is(p, "reread")
    /\ proc' = [proc EXCEPT ![p].pc = "load", ![p].id = identity]
    /\ UNCHANGED <<identity, saved, package, leases, entitled, held, foreign>>

\* With a borrowed seat on disk the process continues its session.
LoadState(p) ==
    /\ Is(p, "load")
    /\ proc' = [proc EXCEPT ![p].pc = "ready", ![p].seat = saved,
                            ![p].session = IF saved.borrowed THEN saved.session ELSE p]
    /\ UNCHANGED <<identity, saved, package, leases, entitled, held, foreign>>

-----------------------------------------------------------------------------
(* Seats *)

LeaseOf(s) == {n \in DOMAIN leases : leases[n].live /\ leases[n].session = s}

SeatValid(p) == proc[p].seat.id \in LeaseOf(proc[p].session)

\* verify asks for a seat once when the server wants one.
Verify(p) ==
    /\ \/ Is(p, "ready") /\ proc[p].command \in {"verify", "serve"}
       \/ Is(p, "again")
    /\ Goto(p, IF SeatValid(p) THEN "save"
               ELSE IF Is(p, "ready") THEN "acquire"
               ELSE IF proc[p].command = "serve" THEN "ready" ELSE "done")
    /\ UNCHANGED <<identity, saved, package, leases, entitled, held, foreign>>

Borrowing(p) == Is(p, "ready") /\ proc[p].command = "borrow"

Seat(n, s, b) == [id |-> n, session |-> s, borrowed |-> b]

\* The server returns or extends the lease of the session, or makes one.
Borrow(p) ==
    /\ Is(p, "acquire") \/ Borrowing(p)
    /\ LET s == proc[p].session
           next == IF Borrowing(p) THEN "save" ELSE "again"
           failed == IF proc[p].command = "serve" THEN "ready" ELSE "done"
           n == Cardinality(DOMAIN leases) + 1
       IN \/ \E m \in LeaseOf(s) :
               LET b == leases[m].borrowed \/ Borrowing(p)
               IN /\ leases' = [leases EXCEPT ![m].borrowed = b]
                  /\ proc' = [proc EXCEPT ![p].pc = next, ![p].seat = Seat(m, s, b)]
          \/ /\ LeaseOf(s) = {} /\ n <= MaxLeases
             /\ Cardinality({m \in DOMAIN leases : leases[m].live}) < ServerSeats
             /\ leases' = [m \in 1..n |-> IF m < n THEN leases[m] ELSE
                             [live |-> TRUE, session |-> s, borrowed |-> Borrowing(p)]]
             /\ proc' = [proc EXCEPT ![p].pc = next, ![p].seat = Seat(n, s, Borrowing(p))]
          \/ /\ LeaseOf(s) = {}
             /\ Cardinality({m \in DOMAIN leases : leases[m].live}) >= ServerSeats
             /\ leases' = leases /\ Goto(p, failed)
    /\ UNCHANGED <<identity, saved, package, entitled, held, foreign>>

\* The whole state replaces the file, whatever others saved since it was read.
Save(p) ==
    /\ Is(p, "save")
    /\ saved' = proc[p].seat
    /\ Goto(p, IF proc[p].command = "serve" THEN "ready" ELSE "done")
    /\ UNCHANGED <<identity, package, leases, entitled, held, foreign>>

\* Mutant: the seat's identifier is enough.
ReleasedById(p) == {proc[p].seat.id} \cap {n \in DOMAIN leases : leases[n].live}

\* The server deletes the lease of the seat's identifier, of this session and
\* not borrowed.
Released(p) == {n \in {proc[p].seat.id} \cap LeaseOf(proc[p].session) : ~leases[n].borrowed}

ReleaseCall(p) ==
    /\ leases' = [n \in DOMAIN leases |->
         IF n \in Released(p) THEN [leases[n] EXCEPT !.live = FALSE] ELSE leases[n]]
    /\ foreign' = foreign \cup {n \in Released(p) : leases[n].session # proc[p].session}

\* The state read at the start may hold the seat of another process.
GiveBack(p) ==
    /\ Is(p, "ready") /\ proc[p].command = "release"
    /\ ReleaseCall(p)
    /\ proc' = [proc EXCEPT ![p].pc = "save",
                            ![p].seat = IF @.borrowed THEN @ ELSE Seatless]
    /\ UNCHANGED <<identity, saved, package, entitled, held>>

\* Leaving, also after an error, gives back what is not borrowed.
Exit(p) ==
    /\ \/ Is(p, "done")
       \/ Is(p, "ready") /\ proc[p].command = "serve"
    /\ IF proc[p].seat.borrowed THEN UNCHANGED <<leases, foreign>> ELSE ReleaseCall(p)
    /\ Goto(p, "gone")
    /\ UNCHANGED <<identity, saved, package, entitled, held>>

Crash(p) ==
    /\ proc[p].pc \notin {"off", "gone"}
    /\ Goto(p, "gone")
    /\ UNCHANGED <<identity, saved, package, leases, entitled, held, foreign>>

LeaseExpires ==
    /\ \E n \in DOMAIN leases :
         leases[n].live /\ leases' = [leases EXCEPT ![n].live = FALSE]
    /\ UNCHANGED <<identity, saved, package, proc, entitled, held, foreign>>

-----------------------------------------------------------------------------
(* Updates *)

\* The server authorises when it starts to send.
RequestPackage(p) ==
    /\ Is(p, "ready") /\ proc[p].command = "download"
    /\ Goto(p, IF entitled THEN "bytes" ELSE "done")
    /\ UNCHANGED <<identity, saved, package, leases, entitled, held, foreign>>

\* Bytes that differ from the signed manifest are refused.
PackageArrives(p, intact) ==
    /\ Is(p, "bytes")
    /\ Goto(p, IF intact THEN "authorize" ELSE "done")
    /\ held' = IF entitled THEN held \cup {p} ELSE held
    /\ UNCHANGED <<identity, saved, package, leases, entitled, foreign>>

\* Mutant: the authorisation of the download is enough.
AlreadyAuthorized == TRUE

UpdateAuthorized == entitled

AuthorizeUpdate(p) ==
    /\ Is(p, "authorize")
    /\ Goto(p, IF UpdateAuthorized THEN "write" ELSE "done")
    /\ UNCHANGED <<identity, saved, package, leases, entitled, held, foreign>>

\* A plain write: a crash leaves a part of the file.
WritePackage(p) ==
    /\ Is(p, "write") \/ Is(p, "writing")
    /\ package' = [by |-> p, whole |-> Is(p, "writing")]
    /\ Goto(p, IF Is(p, "write") THEN "writing" ELSE "done")
    /\ UNCHANGED <<identity, saved, leases, entitled, held, foreign>>

\* The licence expires, is renewed, revoked or reviewed.
Entitle ==
    /\ entitled' = ~entitled
    /\ held' = held \cup {p \in Processes : entitled' /\ Is(p, "authorize")}
    /\ UNCHANGED <<identity, saved, package, proc, leases, foreign>>

-----------------------------------------------------------------------------
ClientInit ==
    /\ identity = NoOne /\ saved = Seatless
    /\ package = [by |-> NoOne, whole |-> FALSE]
    /\ proc = [p \in Processes |-> Idle]
    /\ leases = [n \in {} |-> Seatless]
    /\ entitled = TRUE /\ held = {} /\ foreign = {}

ClientNext ==
    \/ \E p \in Processes :
         \/ \E c \in Commands : OpenInstallation(p, c)
         \/ LinkIdentity(p) \/ ReadIdentity(p) \/ LoadState(p)
         \/ Verify(p) \/ Borrow(p) \/ Save(p) \/ GiveBack(p)
         \/ Exit(p) \/ Crash(p)
         \/ RequestPackage(p) \/ AuthorizeUpdate(p) \/ WritePackage(p)
         \/ \E intact \in BOOLEAN : PackageArrives(p, intact)
    \/ LeaseExpires \/ Entitle

ClientSpec == ClientInit /\ [][ClientNext]_clientVars

-----------------------------------------------------------------------------
(* Properties *)

\* Processes that start together on an empty directory work under one identity
\* (OpenInstallation), a process ends no lease of another session although the
\* seat it read from the shared state may be another's (GiveBack, Exit), and
\* a package on disk had a right to it after its bytes were there
\* (DownloadUpdate).
ClientSound ==
    /\ \A p \in Processes : proc[p].id \in {NoOne, identity}
    /\ foreign = {}
    /\ package.by # NoOne => package.by \in held
=============================================================================
