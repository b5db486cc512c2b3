---------------------------- MODULE Applications ----------------------------
(***************************************************************************)
(* The row and the signing keys of one application.  A handler first reads *)
(* the row to see whether its actor may act, and writes in a transaction   *)
(* of its own; saves and resets of the secret carry values over from that  *)
(* first read.  Keys are rotated while tokens are signed and verified.     *)
(***************************************************************************)
EXTENDS Integers, FiniteSets

CONSTANTS
    AppAdmins, Developers,   \* sessions that administer the application
    Nobody,                  \* the developer of an application without one
    Lifetimes,               \* lifetimes of tokens
    Overlaps,                \* VerifyPolicy.KeyOverlapSeconds
    MaxKeys, MaxResets,      \* bounds on rotations and on resets
    MaxClock

AppEditors == AppAdmins \cup Developers

ASSUME ApplicationsAssumption ==
    /\ AppAdmins \cap Developers = {} /\ Nobody \notin AppAdmins \cup Developers
    /\ Lifetimes \subseteq Nat \ {0} /\ Overlaps \subseteq Nat
    /\ MaxKeys \in Nat \ {0} /\ MaxResets \in Nat /\ MaxClock \in Nat

VARIABLES
    clock,
    appRow,     \* applications: the fields that handlers change
    ring,       \* signing keys, by version
    token,      \* history: one of the signed tokens, any of them
    edits,      \* what an editor's request has read
    resets,     \* history: resets of the secret that were answered
    burnt       \* history: keys retired immediately

appVars == <<clock, appRow, ring, token, edits, resets, burnt>>

Statuses == {"active", "suspended", "archived"}
NoEdit == [kind |-> "none"]
NoSigningKey == [status |-> "none"]
NoToken == [until |-> 0]
Versions == 1..MaxKeys
AppRow == [status : Statuses, overlap : Overlaps, secret : Nat,
           developer : Developers \cup {Nobody}, kid : Versions]
SigningKey == [status : {"active", "retired"}, private : BOOLEAN,
               maxIssued : Nat, acceptUntil : Nat]
NewKey == [status |-> "active", private |-> TRUE, maxIssued |-> 0,
           acceptUntil |-> 0]

-----------------------------------------------------------------------------
(* Access *)

\* applicationContext: administrators, and the developer of the application.
Allowed(e) == e \in AppAdmins \/ appRow.developer = e

Begin(e, kind) ==
    /\ edits[e] = NoEdit
    /\ Allowed(e)
    /\ edits' = [edits EXCEPT ![e] = [kind |-> kind, read |-> appRow]]
    /\ UNCHANGED <<clock, appRow, ring, token, resets, burnt>>

Done(e) == edits' = [edits EXCEPT ![e] = NoEdit]

-----------------------------------------------------------------------------
(* The row *)

\* Mutant: the row that was read is saved, and with it all of its fields.
SaveStaleRow(e, status, overlap) ==
    LET read == edits[e].read
    IN  /\ edits[e].kind = "save"
        /\ appRow' = [read EXCEPT !.overlap = overlap,
                                  !.status = IF status = "" THEN @ ELSE status]
        /\ Done(e)
        /\ UNCHANGED <<clock, ring, token, resets, burnt>>

\* Only fields of the form are written to the row as it is now; a status that
\* the form leaves out is the one that was read.
SaveApplicationRow(e, status, overlap) ==
    LET read == edits[e].read
    IN  /\ edits[e].kind = "save"
        /\ appRow.secret = read.secret
        /\ appRow' = [appRow EXCEPT
             !.overlap = overlap,
             !.status = IF status = "" THEN read.status ELSE status]
        /\ Done(e)
        /\ UNCHANGED <<clock, ring, token, resets, burnt>>

ResetAppSecret(e) ==
    /\ edits[e].kind = "reset"
    /\ resets < MaxResets
    /\ appRow.secret = edits[e].read.secret
    /\ appRow' = [appRow EXCEPT !.secret = edits[e].read.secret + 1]
    /\ resets' = resets + 1
    /\ Done(e)
    /\ UNCHANGED <<clock, ring, token, burnt>>

\* APPLICATION_CHANGED
RefuseEdit(e) ==
    /\ edits[e].kind \in {"save", "reset"}
    /\ appRow.secret # edits[e].read.secret
    /\ Done(e)
    /\ UNCHANGED <<clock, appRow, ring, token, resets, burnt>>

\* By an administrator, whatever the developer is doing.
AssignDeveloper(d) ==
    /\ appRow.developer # d
    /\ appRow' = [appRow EXCEPT !.developer = d]
    /\ UNCHANGED <<clock, ring, token, edits, resets, burnt>>

-----------------------------------------------------------------------------
(* Signing keys *)

MaxOf(a, b) == IF a > b THEN a ELSE b

\* Mutant: the retired key is accepted for the overlap only.
OverlapOnly(old, immediately) ==
    IF immediately THEN clock ELSE clock + appRow.overlap

AcceptUntil(old, immediately) ==
    IF immediately THEN clock
    ELSE MaxOf(clock + appRow.overlap, old.maxIssued)

\* The successor of the row's current key, both read in the transaction.
RotateSigningKey(e, immediately) ==
    LET k == appRow.kid
    IN  /\ edits[e].kind = "rotate"
        /\ k < MaxKeys
        /\ ring' = [ring EXCEPT
             ![k] = [@ EXCEPT !.status = "retired", !.private = FALSE,
                       !.acceptUntil = AcceptUntil(ring[k], immediately)],
             ![k + 1] = NewKey]
        /\ appRow' = [appRow EXCEPT !.kid = k + 1]
        /\ burnt' = IF immediately THEN burnt \cup {k} ELSE burnt
        /\ Done(e)
        /\ UNCHANGED <<clock, token, resets>>

\* In the transaction of an activation, a verification or an update.
SignClaims(ttl, watched) ==
    LET k == appRow.kid
        until == clock + ttl
    IN  /\ ring[k].status = "active" /\ ring[k].private
        /\ watched => token = NoToken
        /\ token' = IF watched THEN [kid |-> k, until |-> until] ELSE token
        /\ ring' = [ring EXCEPT ![k].maxIssued = MaxOf(@, until)]
        /\ UNCHANGED <<clock, appRow, edits, resets, burnt>>

Accepted(k) ==
    \/ ring[k].status = "active"
    \/ ring[k].status = "retired" /\ clock < ring[k].acceptUntil

PublicKeys == {k \in Versions : Accepted(k)}

\* As the verification of a token sees it: the key, then the expiry.
VerifyToken(t) == t.kid \in PublicKeys /\ clock < t.until

AppTick ==
    /\ clock < MaxClock
    /\ clock' = clock + 1
    /\ UNCHANGED <<appRow, ring, token, edits, resets, burnt>>

-----------------------------------------------------------------------------
CreateApplication ==
    /\ appRow \in [status : {"active"}, overlap : Overlaps, secret : {1},
                   developer : Developers \cup {Nobody}, kid : {1}]
    /\ ring = [k \in Versions |-> IF k = 1 THEN NewKey ELSE NoSigningKey]

AppInit ==
    /\ clock = 0
    /\ CreateApplication
    /\ token = NoToken
    /\ edits = [e \in AppEditors |-> NoEdit]
    /\ resets = 0
    /\ burnt = {}

AppNext ==
    \/ \E e \in AppEditors :
         \/ \E kind \in {"save", "reset", "rotate"} : Begin(e, kind)
         \/ \E status \in {"", "suspended"}, o \in Overlaps :
              SaveApplicationRow(e, status, o)
         \/ ResetAppSecret(e) \/ RefuseEdit(e)
         \/ \E immediately \in BOOLEAN : RotateSigningKey(e, immediately)
    \/ \E d \in Developers \cup {Nobody} : AssignDeveloper(d)
    \/ \E ttl \in Lifetimes, watched \in BOOLEAN : SignClaims(ttl, watched)
    \/ AppTick

AppSpec == AppInit /\ [][AppNext]_appVars

-----------------------------------------------------------------------------
(* Properties *)

\* Types of the row, the key ring and the requests.
AppTypeOK ==
    /\ clock \in Nat /\ resets \in Nat
    /\ appRow \in AppRow
    /\ ring \in [Versions -> SigningKey \cup {NoSigningKey}]
    /\ token \in [kid : Versions, until : Nat] \cup {NoToken}
    /\ edits \in [AppEditors -> [kind : {"save", "reset", "rotate"},
                                 read : AppRow] \cup {NoEdit}]
    /\ burnt \subseteq Versions

\* The row's current key is the newest one and the only one that can sign.
CurrentKeySigns ==
    \A k \in Versions :
      (ring[k].status = "active" /\ ring[k].private) <=> k = appRow.kid

\* An edit that was computed from an older row undoes neither a rotation nor
\* a reset of the secret, and no two resets are answered with the same version
\* (SaveApplication, ResetAppSecret: the fields they write, SecretVersion).
NothingUndone ==
    /\ CurrentKeySigns
    /\ appRow.secret = 1 + resets

\* A token is accepted until it expires, however the keys are rotated, unless
\* its key was retired immediately (signClaims, RotateSigningKey).
IssuedStayValid ==
    token # NoToken /\ clock < token.until /\ token.kid \notin burnt
      => VerifyToken(token)

\* An edit computed from an older row undoes neither a rotation nor a reset of
\* the secret, and a token is accepted until it expires unless its key was
\* retired immediately (SaveApplication, ResetAppSecret, RotateSigningKey).
ApplicationSound == NothingUndone /\ IssuedStayValid
=============================================================================
