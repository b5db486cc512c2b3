------------------------- MODULE ApplicationsProofs -------------------------
(***************************************************************************)
(* What holds of an application's row and signing keys, of its audit       *)
(* chain, of its packages, of the blocklist, of its security cases, of the *)
(* updates it offers and of signed requests and what they use, for every   *)
(* number of editors, keys, writers, releases, visitors, owners, builds    *)
(* and workers.  The components share no state; each has its own           *)
(* invariant, and a behaviour of their composition is one of each.         *)
(***************************************************************************)
EXTENDS Application, Sums, SequenceTheorems, FiniteSetTheorems, TLAPS

-----------------------------------------------------------------------------
(* The row and the signing keys *)

\* Keys are used one after the other: older ones are retired and have lost
\* their private half, newer ones do not exist yet.
RingInOrder ==
    \A k \in Versions :
      /\ k < appRow.kid => ring[k].status = "retired" /\ ~ring[k].private
      /\ k = appRow.kid => ring[k].status = "active" /\ ring[k].private
      /\ k > appRow.kid => ring[k] = NoSigningKey

\* A retired key is accepted as long as the longest token it has signed,
\* unless it was retired immediately.
RetiredCover ==
    \A k \in Versions :
      k < appRow.kid /\ k \notin burnt
        => ring[k].acceptUntil >= ring[k].maxIssued

\* The watched token counts among those of its key.
TokenCovered ==
    token # NoToken =>
      token.kid <= appRow.kid /\ ring[token.kid].maxIssued >= token.until

AppInv ==
    /\ AppTypeOK
    /\ RingInOrder
    /\ RetiredCover
    /\ TokenCovered
    /\ appRow.secret = 1 + resets

LEMMA AppInitInv == ASSUME ApplicationsAssumption, AppInit PROVE AppInv
<1>1. 1 \in Versions
  BY DEF ApplicationsAssumption, Versions
<1>2. AppTypeOK
  BY <1>1 DEF AppInit, CreateApplication, AppTypeOK, AppRow, Statuses, NewKey,
              SigningKey
<1>3. RingInOrder /\ RetiredCover
  BY DEF AppInit, CreateApplication, RingInOrder, RetiredCover, NewKey,
         Versions
<1>4. QED
  BY <1>2, <1>3 DEF AppInit, CreateApplication, AppInv, TokenCovered

LEMMA KidType ==
    ASSUME ApplicationsAssumption, AppTypeOK, RingInOrder
    PROVE  /\ MaxKeys \in Nat /\ Versions \subseteq Nat
           /\ appRow.kid \in Versions
           /\ ring[appRow.kid] \in SigningKey
           /\ appRow.overlap \in Nat
<1>1. MaxKeys \in Nat /\ Versions \subseteq Nat
  BY DEF ApplicationsAssumption, Versions
<1>2. appRow.kid \in Versions /\ appRow.overlap \in Nat
  BY DEF ApplicationsAssumption, AppTypeOK, AppRow
<1>3. ring[appRow.kid].status = "active"
  BY <1>2 DEF RingInOrder
<1>4. ring[appRow.kid] \in SigningKey
  BY <1>2, <1>3 DEF AppTypeOK, NoSigningKey
<1>5. QED
  BY <1>1, <1>2, <1>4

LEMMA EditType ==
    ASSUME AppTypeOK, NEW e \in AppEditors, edits[e].kind = "save"
    PROVE  edits[e].read.status \in Statuses
BY DEF AppTypeOK, AppRow, NoEdit

\* The steps that write the row but neither its key nor its secret.
LEMMA AppRowStep ==
    ASSUME ApplicationsAssumption, AppInv,
           NEW status \in Statuses, NEW overlap \in Overlaps,
           NEW developer \in Developers \cup {Nobody},
           appRow' = [appRow EXCEPT !.status = status, !.overlap = overlap,
                                    !.developer = developer],
           UNCHANGED <<ring, token, resets, burnt>>,
           clock' \in Nat,
           edits' \in [AppEditors -> [kind : {"save", "reset", "rotate"},
                                      read : AppRow] \cup {NoEdit}]
    PROVE  AppInv'
<1>1. appRow' \in AppRow /\ appRow'.kid = appRow.kid
      /\ appRow'.secret = appRow.secret
  BY DEF AppInv, AppTypeOK, AppRow
<1>2. AppTypeOK'
  BY <1>1 DEF AppInv, AppTypeOK
<1>3. RingInOrder' /\ RetiredCover' /\ TokenCovered'
  BY <1>1 DEF AppInv, RingInOrder, RetiredCover, TokenCovered
<1>4. QED
  BY <1>1, <1>2, <1>3 DEF AppInv

LEMMA ResetStep ==
    ASSUME ApplicationsAssumption, AppInv, NEW e \in AppEditors,
           ResetAppSecret(e)
    PROVE  AppInv'
<1>1. /\ appRow' = [appRow EXCEPT !.secret = appRow.secret + 1]
      /\ resets' = resets + 1
      /\ edits' = [edits EXCEPT ![e] = NoEdit]
      /\ UNCHANGED <<clock, ring, token, burnt>>
  BY DEF ResetAppSecret, Done
<1>2. /\ appRow' \in AppRow /\ appRow'.kid = appRow.kid
      /\ appRow'.secret = 1 + resets'
  BY <1>1 DEF AppInv, AppTypeOK, AppRow
<1>3. AppTypeOK'
  BY <1>1, <1>2 DEF AppInv, AppTypeOK
<1>4. RingInOrder' /\ RetiredCover' /\ TokenCovered'
  BY <1>1, <1>2 DEF AppInv, RingInOrder, RetiredCover, TokenCovered
<1>5. QED
  BY <1>2, <1>3, <1>4 DEF AppInv

LEMMA RotateStep ==
    ASSUME ApplicationsAssumption, AppInv, NEW e \in AppEditors,
           NEW immediately \in BOOLEAN, RotateSigningKey(e, immediately)
    PROVE  AppInv'
<1> DEFINE k == appRow.kid
           until == AcceptUntil(ring[k], immediately)
           old == [ring[k] EXCEPT !.status = "retired", !.private = FALSE,
                                  !.acceptUntil = until]
<1>1. /\ k \in Versions /\ k \in Nat /\ k + 1 \in Versions
      /\ ring[k] \in SigningKey /\ clock \in Nat /\ appRow.overlap \in Nat
  BY KidType DEF AppInv, AppTypeOK, RotateSigningKey, Versions
<1>2. /\ ring' = [ring EXCEPT ![k] = old, ![k + 1] = NewKey]
      /\ appRow' = [appRow EXCEPT !.kid = k + 1]
      /\ burnt' = IF immediately THEN burnt \cup {k} ELSE burnt
      /\ edits' = [edits EXCEPT ![e] = NoEdit]
      /\ UNCHANGED <<clock, token, resets>>
  BY DEF RotateSigningKey, Done
<1>3. /\ until \in Nat
      /\ ~immediately => until >= ring[k].maxIssued
  BY <1>1 DEF AcceptUntil, MaxOf, SigningKey
<1> HIDE DEF until
<1>4. /\ old \in SigningKey /\ old.status = "retired" /\ ~old.private
      /\ old.maxIssued = ring[k].maxIssued /\ old.acceptUntil = until
  BY <1>1, <1>3 DEF SigningKey
<1> HIDE DEF old, k
<1>5. NewKey \in SigningKey /\ NewKey.status = "active" /\ NewKey.private
  BY DEF NewKey, SigningKey
<1>6. /\ ring' \in [Versions -> SigningKey \cup {NoSigningKey}]
      /\ ring'[k] = old /\ ring'[k + 1] = NewKey
      /\ \A j \in Versions \ {k, k + 1} : ring'[j] = ring[j]
  BY <1>1, <1>2, <1>4, <1>5 DEF AppInv, AppTypeOK
<1>7. /\ appRow' \in AppRow /\ appRow'.kid = k + 1
      /\ appRow'.secret = appRow.secret
  BY <1>1, <1>2 DEF AppInv, AppTypeOK, AppRow
<1>8. AppTypeOK'
  BY <1>1, <1>2, <1>6, <1>7 DEF AppInv, AppTypeOK
<1>9. RingInOrder'
  <2> SUFFICES ASSUME NEW j \in Versions
               PROVE  /\ j < k + 1 => ring'[j].status = "retired"
                                      /\ ~ring'[j].private
                      /\ j = k + 1 => ring'[j].status = "active"
                                      /\ ring'[j].private
                      /\ j > k + 1 => ring'[j] = NoSigningKey
    BY <1>7 DEF RingInOrder
  <2>1. j \in Nat
    BY DEF Versions
  <2>2. CASE j = k \/ j = k + 1
    BY <1>1, <1>4, <1>5, <1>6, <2>2
  <2>3. CASE j # k /\ j # k + 1
    BY <1>1, <1>6, <2>1, <2>3 DEF AppInv, RingInOrder, k
  <2>4. QED
    BY <2>2, <2>3
<1>10. RetiredCover'
  <2> SUFFICES ASSUME NEW j \in Versions, j < k + 1, j \notin burnt'
               PROVE  ring'[j].acceptUntil >= ring'[j].maxIssued
    BY <1>7 DEF RetiredCover
  <2>1. CASE j = k
    BY <1>2, <1>3, <1>4, <1>6, <2>1
  <2>2. CASE j # k
    BY <1>1, <1>2, <1>6, <2>2 DEF AppInv, RetiredCover, k, Versions
  <2>3. QED
    BY <2>1, <2>2
<1>11. TokenCovered'
  <2> SUFFICES ASSUME token # NoToken
               PROVE  /\ token.kid <= k + 1
                      /\ ring'[token.kid].maxIssued >= token.until
    BY <1>2, <1>7 DEF TokenCovered
  <2>1. /\ token.kid \in Versions /\ token.kid \in Nat
        /\ token.kid <= k /\ ring[token.kid].maxIssued >= token.until
    BY DEF AppInv, AppTypeOK, TokenCovered, Versions, k
  <2>2. ring'[token.kid].maxIssued = ring[token.kid].maxIssued
    BY <1>1, <1>4, <1>6, <2>1
  <2>3. QED
    BY <1>1, <2>1, <2>2
<1>12. QED
  BY <1>2, <1>7, <1>8, <1>9, <1>10, <1>11 DEF AppInv

LEMMA SignStep ==
    ASSUME ApplicationsAssumption, AppInv, NEW ttl \in Lifetimes,
           NEW watched \in BOOLEAN, SignClaims(ttl, watched)
    PROVE  AppInv'
<1> DEFINE k == appRow.kid
           until == clock + ttl
           signed == [ring[k] EXCEPT !.maxIssued = MaxOf(@, until)]
<1>1. /\ k \in Versions /\ k \in Nat /\ ring[k] \in SigningKey
      /\ until \in Nat
  BY KidType DEF AppInv, AppTypeOK, ApplicationsAssumption
<1>2. /\ ring' = [ring EXCEPT ![k] = signed]
      /\ token' = IF watched THEN [kid |-> k, until |-> until] ELSE token
      /\ UNCHANGED <<clock, appRow, edits, resets, burnt>>
  BY DEF SignClaims
<1> HIDE DEF until
<1>3. /\ signed \in SigningKey
      /\ signed.maxIssued >= until /\ signed.maxIssued >= ring[k].maxIssued
      /\ signed.status = ring[k].status /\ signed.private = ring[k].private
  BY <1>1 DEF SigningKey, MaxOf
<1> HIDE DEF signed
<1>4. /\ ring' \in [Versions -> SigningKey \cup {NoSigningKey}]
      /\ ring'[k] = signed
      /\ \A j \in Versions \ {k} : ring'[j] = ring[j]
  BY <1>1, <1>2, <1>3 DEF AppInv, AppTypeOK
<1>5. AppTypeOK'
  BY <1>1, <1>2, <1>4 DEF AppInv, AppTypeOK
<1>6. RingInOrder'
  BY <1>1, <1>2, <1>3, <1>4 DEF AppInv, RingInOrder
<1>7. RetiredCover'
  BY <1>1, <1>2, <1>4 DEF AppInv, RetiredCover
<1>8. TokenCovered'
  <2>1. CASE watched
    BY <1>1, <1>2, <1>3, <1>4, <2>1 DEF TokenCovered
  <2>2. CASE ~watched
    <3> SUFFICES ASSUME token # NoToken
                 PROVE  /\ token.kid <= k
                        /\ ring'[token.kid].maxIssued >= token.until
      BY <1>2, <2>2 DEF TokenCovered
    <3>1. /\ token.kid \in Versions /\ token.until \in Nat
          /\ token.kid <= k /\ ring[token.kid].maxIssued >= token.until
      BY DEF AppInv, AppTypeOK, TokenCovered
    <3>2. QED
      BY <1>1, <1>3, <1>4, <3>1 DEF SigningKey
  <2>3. QED
    BY <2>1, <2>2
<1>9. QED
  BY <1>2, <1>5, <1>6, <1>7, <1>8 DEF AppInv

LEMMA AppStepInv ==
    ASSUME ApplicationsAssumption, AppInv, [AppNext]_appVars
    PROVE  AppInv'
<1> USE DEF AppInv
<1>1. /\ appRow = [appRow EXCEPT !.status = appRow.status,
                     !.overlap = appRow.overlap,
                     !.developer = appRow.developer]
      /\ appRow.status \in Statuses /\ appRow.overlap \in Overlaps
      /\ appRow.developer \in Developers \cup {Nobody}
  BY DEF AppTypeOK, AppRow
<1>2. CASE UNCHANGED appVars
  BY <1>1, <1>2, AppRowStep DEF AppTypeOK, appVars
<1>3. ASSUME NEW e \in AppEditors, NEW kind \in {"save", "reset", "rotate"},
             Begin(e, kind)
      PROVE  AppInv'
  BY <1>1, <1>3, AppRowStep DEF Begin, AppTypeOK
<1>4. ASSUME NEW e \in AppEditors, RefuseEdit(e)
      PROVE  AppInv'
  BY ZenonT(60), <1>1, <1>4, AppRowStep DEF RefuseEdit, Done, AppTypeOK
<1>5. ASSUME NEW e \in AppEditors, NEW status \in {"", "suspended"},
             NEW overlap \in Overlaps,
             SaveApplicationRow(e, status, overlap)
      PROVE  AppInv'
  <2>1. edits[e].read.status \in Statuses
    <3>1. edits[e].kind = "save"
      BY <1>5 DEF SaveApplicationRow
    <3>2. QED
      BY <1>5, <3>1, EditType, Zenon
  <2> DEFINE given == IF status = "" THEN edits[e].read.status ELSE status
  <2>2. given \in Statuses
    BY <2>1 DEF Statuses
  <2>3. appRow' = [appRow EXCEPT !.status = given, !.overlap = overlap,
                                 !.developer = appRow.developer]
    <3>1. appRow' = [appRow EXCEPT !.overlap = overlap, !.status = given]
      BY <1>5 DEF SaveApplicationRow
    <3> HIDE DEF given
    <3>2. QED
      BY <3>1 DEF AppTypeOK, AppRow
  <2> HIDE DEF given
  <2>4. /\ edits' \in [AppEditors -> [kind : {"save", "reset", "rotate"},
                                      read : AppRow] \cup {NoEdit}]
        /\ UNCHANGED <<clock, ring, token, resets, burnt>>
    BY <1>5 DEF SaveApplicationRow, Done, AppTypeOK
  <2>5. QED
    BY <1>1, <2>2, <2>3, <2>4, AppRowStep DEF AppTypeOK
<1>6. ASSUME NEW d \in Developers \cup {Nobody}, AssignDeveloper(d)
      PROVE  AppInv'
  <2>1. appRow' = [appRow EXCEPT !.status = appRow.status,
                     !.overlap = appRow.overlap, !.developer = d]
    BY <1>6 DEF AssignDeveloper, AppTypeOK, AppRow
  <2>2. QED
    BY ZenonT(60), <1>1, <1>6, <2>1, AppRowStep DEF AssignDeveloper, AppTypeOK
<1>7. CASE AppTick
  <2>1. /\ clock' \in Nat
        /\ UNCHANGED <<appRow, ring, token, edits, resets, burnt>>
    BY <1>7 DEF AppTick, AppTypeOK
  <2>2. edits' \in [AppEditors -> [kind : {"save", "reset", "rotate"},
                                   read : AppRow] \cup {NoEdit}]
    BY <2>1 DEF AppTypeOK
  <2>3. QED
    BY <1>1, <2>1, <2>2, AppRowStep
<1>8. QED
  BY <1>2, <1>3, <1>4, <1>5, <1>6, <1>7, ResetStep, RotateStep, SignStep
     DEF AppNext

\* The inductive invariant of an application's keys and policies (SaveApplication,
\* RotateKey, ResetSecrets).
THEOREM ApplicationInvariant == AppSpec => []AppInv
<1>1. AppInit => AppInv
  BY AppInitInv, ApplicationsAssumption
<1>2. AppInv /\ [AppNext]_appVars => AppInv'
  BY AppStepInv, ApplicationsAssumption
<1>3. QED
  BY <1>1, <1>2, PTL DEF AppSpec

\* No stale edit undoes a rotation or a reset, and rotations leave valid what
\* was signed before them.
THEOREM ApplicationSoundHolds == AppSpec => []ApplicationSound
<1>1. ASSUME AppInv
      PROVE  NothingUndone
  <2>1. Versions \subseteq Nat /\ appRow.kid \in Nat
    BY <1>1, KidType, ApplicationsAssumption DEF AppInv
  <2>2. CurrentKeySigns
    BY <1>1, <2>1 DEF AppInv, RingInOrder, CurrentKeySigns, NoSigningKey
  <2>3. QED
    BY <1>1, <2>2 DEF AppInv, NothingUndone
<1>2. ASSUME AppInv, token # NoToken, clock < token.until,
             token.kid \notin burnt
      PROVE  VerifyToken(token)
  <2> DEFINE k == token.kid
  <2>1. /\ k \in Versions /\ k \in Nat /\ appRow.kid \in Nat
        /\ token.until \in Nat /\ clock \in Nat
        /\ k <= appRow.kid /\ ring[k].maxIssued >= token.until
    BY <1>2, KidType, ApplicationsAssumption
       DEF AppInv, AppTypeOK, TokenCovered, Versions
  <2>2. CASE k = appRow.kid
    BY <1>2, <2>1, <2>2
       DEF AppInv, RingInOrder, VerifyToken, PublicKeys, Accepted
  <2>3. CASE k < appRow.kid
    <3>1. ring[k].status = "retired" /\ ring[k] \in SigningKey
      BY <1>2, <2>1, <2>3
         DEF AppInv, RingInOrder, AppTypeOK, NoSigningKey
    <3>2. ring[k].acceptUntil >= ring[k].maxIssued
      BY <1>2, <2>1, <2>3 DEF AppInv, RetiredCover
    <3>3. clock < ring[k].acceptUntil
      BY <1>2, <2>1, <3>1, <3>2 DEF SigningKey
    <3>4. QED
      BY <1>2, <2>1, <3>1, <3>3 DEF VerifyToken, PublicKeys, Accepted
  <2>4. QED
    BY <2>1, <2>2, <2>3
<1>3. AppInv => ApplicationSound
  BY <1>1, <1>2 DEF ApplicationSound, IssuedStayValid
<1>4. QED
  BY <1>3, ApplicationInvariant, PTL

-----------------------------------------------------------------------------
(* The audit chain *)

\* The events of a trail that begin after one that has hash h.
Predecessor(events, i) == IF i = 1 THEN Genesis ELSE events[i - 1].hash

\* A complete chain: numbered from one, every event with the hash of the one
\* before it, and a head that names the last one.
TrailComplete(t) ==
    /\ \E S : t.events \in Seq(S)
    /\ Len(t.events) > 0
    /\ \A i \in 1..Len(t.events) :
         /\ t.events[i].sequence = i
         /\ t.events[i].previous = Predecessor(t.events, i)
    /\ t.head = [sequence |-> Len(t.events),
                 hash |-> t.events[Len(t.events)].hash]

\* Nothing that was recorded is changed or left out.
Extends(t, u) ==
    /\ Len(t.events) <= Len(u.events)
    /\ \A i \in 1..Len(t.events) : u.events[i] = t.events[i]

\* A transaction works on a complete chain that goes on from the committed one,
\* and holds the lock of the application as long as it does.
DraftOK(w) ==
    draft[w].open =>
      /\ DOMAIN draft[w] = {"open", "trail", "mutations", "audits"}
      /\ TrailComplete(draft[w].trail)
      /\ Extends(committed, draft[w].trail)
      /\ holder = [locked |-> TRUE, by |-> w]

\* The check has read a complete chain up to its number and knows the hash
\* that the next event must carry; it is through when it has read all.
Reading ==
    /\ DOMAIN audit = {"at", "trail", "sequence", "previous"}
    /\ TrailComplete(audit.trail)
    /\ audit.sequence \in 0..Len(audit.trail.events)
    /\ audit.previous = Predecessor(audit.trail.events, audit.sequence + 1)
    /\ audit.at = "read" => audit.sequence = Len(audit.trail.events)

AuditInv ==
    /\ TrailComplete(committed)
    /\ DOMAIN draft = Writers
    /\ \A w \in Writers : DraftOK(w)
    /\ audit.at \in {"idle", "reading", "read", "valid"}
    /\ audit.at \in {"reading", "read"} => Reading

LEMMA ExtendsItself ==
    ASSUME NEW t, TrailComplete(t)
    PROVE  Extends(t, t)
<1>1. Len(t.events) \in Nat
  BY LenProperties DEF TrailComplete
<1>2. QED
  BY <1>1 DEF Extends

\* An event appended the way AppendAudit does keeps a chain complete.
LEMMA AppendedComplete ==
    ASSUME NEW t, TrailComplete(t), NEW w, NEW u,
           u = [events |-> Append(t.events,
                             [sequence |-> t.head.sequence + 1,
                              previous |-> t.head.hash,
                              hash |-> Hash(w, t.head)]),
                head |-> [sequence |-> t.head.sequence + 1,
                          hash |-> Hash(w, t.head)]]
    PROVE  TrailComplete(u) /\ Extends(t, u)
<1> DEFINE e == [sequence |-> t.head.sequence + 1, previous |-> t.head.hash,
                 hash |-> Hash(w, t.head)]
           n == Len(t.events)
<1>1. PICK S : t.events \in Seq(S)
  BY DEF TrailComplete
<1>2. /\ n \in Nat /\ n > 0
      /\ t.head.sequence = n /\ t.head.hash = t.events[n].hash
      /\ \A i \in 1..n : /\ t.events[i].sequence = i
                         /\ t.events[i].previous = Predecessor(t.events, i)
  BY <1>1, LenProperties DEF TrailComplete
<1>3. e.sequence = n + 1 /\ e.previous = t.events[n].hash
  BY <1>2
<1>4. /\ u.events = Append(t.events, e)
      /\ u.head = [sequence |-> n + 1, hash |-> e.hash]
  BY <1>2
<1> HIDE DEF e, n
<1>5. t.events \in Seq(S \cup {e})
  BY <1>1, SeqMonotonic
<1>6. /\ u.events \in Seq(S \cup {e}) /\ Len(u.events) = n + 1
      /\ \A i \in 1..n : u.events[i] = t.events[i]
      /\ u.events[n + 1] = e
  BY <1>4, <1>5, AppendProperties DEF n
<1>7. \A i \in 1..(n + 1) : /\ u.events[i].sequence = i
                            /\ u.events[i].previous = Predecessor(u.events, i)
  <2> SUFFICES ASSUME NEW i \in 1..(n + 1)
               PROVE  /\ u.events[i].sequence = i
                      /\ u.events[i].previous = Predecessor(u.events, i)
    OBVIOUS
  <2>1. CASE i = n + 1
    <3>1. Predecessor(u.events, i) = u.events[n].hash
      <4>1. i # 1 /\ i - 1 = n
        BY <1>2, <2>1
      <4>2. QED
        BY <4>1 DEF Predecessor
    <3>2. u.events[n] = t.events[n]
      BY <1>2, <1>6
    <3>3. QED
      BY <1>3, <1>6, <2>1, <3>1, <3>2
  <2>2. CASE i \in 1..n
    <3>1. Predecessor(u.events, i) = Predecessor(t.events, i)
      <4>1. i # 1 => u.events[i - 1] = t.events[i - 1]
        BY <1>2, <1>6, <2>2
      <4>2. QED
        BY <4>1 DEF Predecessor
    <3>2. u.events[i] = t.events[i]
      BY <1>6, <2>2
    <3>3. QED
      BY <1>2, <2>2, <3>1, <3>2
  <2>3. i = n + 1 \/ i \in 1..n
    BY <1>2
  <2>4. QED
    BY <2>1, <2>2, <2>3, ZenonT(40)
<1>8. TrailComplete(u)
  BY <1>2, <1>4, <1>6, <1>7 DEF TrailComplete
<1>9. Extends(t, u)
  BY <1>2, <1>6 DEF Extends, n
<1>10. QED
  BY <1>8, <1>9

LEMMA ExtendsTransitive ==
    ASSUME NEW t, NEW u, NEW v, TrailComplete(t), TrailComplete(u),
           TrailComplete(v), Extends(t, u), Extends(u, v)
    PROVE  Extends(t, v)
<1>1. /\ Len(t.events) \in Nat /\ Len(u.events) \in Nat
      /\ Len(v.events) \in Nat
  BY LenProperties DEF TrailComplete
<1>2. QED
  BY <1>1 DEF Extends

LEMMA AuditInitInv == ASSUME AuditInit PROVE AuditInv
<1>1. PICK w \in Writers :
        LET first == Hash(w, [sequence |-> 0, hash |-> Genesis])
        IN  committed = [events |-> <<[sequence |-> 1, previous |-> Genesis,
                                      hash |-> first]>>,
                        head |-> [sequence |-> 1, hash |-> first]]
  BY DEF AuditInit
<1> DEFINE e == [sequence |-> 1, previous |-> Genesis,
                 hash |-> Hash(w, [sequence |-> 0, hash |-> Genesis])]
<1>2. e.sequence = 1 /\ e.previous = Genesis
  OBVIOUS
<1>3. /\ committed.events = <<e>>
      /\ committed.head = [sequence |-> 1, hash |-> e.hash]
  BY <1>1
<1> HIDE DEF e
<1>4. <<e>> \in Seq({e}) /\ Len(<<e>>) = 1 /\ <<e>>[1] = e
  OBVIOUS
<1>5. TrailComplete(committed)
  <2>1. \E S : committed.events \in Seq(S)
    BY <1>3, <1>4
  <2>2. Len(committed.events) = 1 /\ committed.events[1] = e
    BY <1>3, <1>4
  <2>3. \A i \in 1..1 :
          /\ committed.events[i].sequence = i
          /\ committed.events[i].previous = Predecessor(committed.events, i)
    BY <1>2, <2>2 DEF Predecessor
  <2>4. QED
    BY <1>3, <2>1, <2>2, <2>3 DEF TrailComplete
<1>6. QED
  BY <1>5 DEF AuditInit, AuditInv, DraftOK, NoDraft, NoAudit

\* The transactions leave the check alone.
LEMMA AuditKept ==
    ASSUME AuditInv, audit' = audit
    PROVE  /\ audit'.at \in {"idle", "reading", "read", "valid"}
           /\ audit'.at \in {"reading", "read"} => Reading'
BY DEF AuditInv, Reading

LEMMA DraftStep ==
    ASSUME AuditInv, NEW w \in Writers, NEW row,
           DOMAIN row = {"open", "trail", "mutations", "audits"},
           TrailComplete(row.trail), Extends(committed, row.trail),
           holder' = [locked |-> TRUE, by |-> w],
           holder' = holder \/ holder = Unlocked,
           draft' = [draft EXCEPT ![w] = row],
           UNCHANGED <<committed, audit>>
    PROVE  AuditInv'
<1>1. /\ DOMAIN draft' = Writers /\ draft'[w] = row
      /\ \A v \in Writers \ {w} : draft'[v] = draft[v]
  BY DEF AuditInv
<1>2. DraftOK(w)'
  BY <1>1 DEF DraftOK
<1>3. ASSUME NEW v \in Writers, v # w
      PROVE  DraftOK(v)'
  <2>1. ~draft[v].open
    BY <1>3 DEF AuditInv, DraftOK, Unlocked
  <2>2. QED
    BY <1>1, <1>3, <2>1 DEF DraftOK
<1>4. QED
  BY <1>1, <1>2, <1>3, AuditKept DEF AuditInv

LEMMA CloseStep ==
    ASSUME AuditInv, NEW w \in Writers, draft[w].open, CloseTransaction(w),
           committed' \in {committed, draft[w].trail}, audit' = audit
    PROVE  AuditInv' /\ Extends(committed, committed')
<1>1. /\ DOMAIN draft' = Writers /\ draft'[w] = NoDraft
      /\ \A v \in Writers \ {w} : draft'[v] = draft[v]
  BY DEF AuditInv, CloseTransaction
<1>2. /\ TrailComplete(draft[w].trail)
      /\ Extends(committed, draft[w].trail)
      /\ holder = [locked |-> TRUE, by |-> w]
      /\ TrailComplete(committed) /\ Extends(committed, committed)
  BY ExtendsItself DEF AuditInv, DraftOK
<1>3. TrailComplete(committed') /\ Extends(committed, committed')
  BY <1>2
<1>4. ASSUME NEW v \in Writers
      PROVE  ~draft'[v].open
  <2>1. CASE v = w
    BY <1>1, <2>1 DEF NoDraft
  <2>2. CASE v # w
    BY <1>1, <1>2, <2>2 DEF AuditInv, DraftOK
  <2>3. QED
    BY <2>1, <2>2
<1>5. \A v \in Writers : DraftOK(v)'
  BY <1>4 DEF DraftOK
<1>6. QED
  BY <1>1, <1>3, <1>5, AuditKept DEF AuditInv

LEMMA WriterSteps ==
    ASSUME AuditInv, NEW w \in Writers,
           \/ BeginTransaction(w) \/ WriteRow(w) \/ AppendAudit(w)
           \/ CommitTransaction(w) \/ Rollback(w)
    PROVE  AuditInv' /\ Extends(committed, committed')
<1>1. TrailComplete(committed) /\ Extends(committed, committed)
  BY ExtendsItself DEF AuditInv
<1>2. CASE BeginTransaction(w)
  <2> DEFINE row == [open |-> TRUE, trail |-> committed,
                     mutations |-> FALSE, audits |-> FALSE]
  <2>1. DOMAIN row = {"open", "trail", "mutations", "audits"}
        /\ row.trail = committed
    OBVIOUS
  <2>2. /\ draft' = [draft EXCEPT ![w] = row] /\ holder = Unlocked
        /\ holder' = [locked |-> TRUE, by |-> w]
        /\ UNCHANGED <<committed, audit>>
    BY <1>2 DEF BeginTransaction
  <2> HIDE DEF row
  <2>3. QED
    BY <1>1, <2>1, <2>2, DraftStep
<1>3. CASE WriteRow(w)
  <2> DEFINE row == [draft[w] EXCEPT !.mutations = TRUE]
  <2>1. /\ draft' = [draft EXCEPT ![w] = row]
        /\ holder' = holder
        /\ UNCHANGED <<committed, audit>>
    BY <1>3 DEF WriteRow
  <2>2. DOMAIN draft[w] = {"open", "trail", "mutations", "audits"}
        /\ TrailComplete(draft[w].trail)
        /\ Extends(committed, draft[w].trail)
        /\ holder = [locked |-> TRUE, by |-> w]
    BY <1>3 DEF WriteRow, AuditInv, DraftOK
  <2>3. DOMAIN row = DOMAIN draft[w] /\ row.trail = draft[w].trail
    BY <2>2
  <2> HIDE DEF row
  <2>4. QED
    BY <1>1, <2>1, <2>2, <2>3, DraftStep
<1>4. CASE AppendAudit(w)
  <2> DEFINE t == draft[w].trail
             u == [events |-> Append(t.events,
                                [sequence |-> t.head.sequence + 1,
                                 previous |-> t.head.hash,
                                 hash |-> Hash(w, t.head)]),
                   head |-> [sequence |-> t.head.sequence + 1,
                             hash |-> Hash(w, t.head)]]
             row == [draft[w] EXCEPT !.trail = u, !.audits = TRUE]
  <2>1. /\ draft' = [draft EXCEPT ![w] = row]
        /\ holder' = holder
        /\ UNCHANGED <<committed, audit>>
    BY <1>4 DEF AppendAudit
  <2>2. /\ DOMAIN draft[w] = {"open", "trail", "mutations", "audits"}
        /\ TrailComplete(t) /\ Extends(committed, t)
        /\ holder = [locked |-> TRUE, by |-> w]
    BY <1>4 DEF AppendAudit, AuditInv, DraftOK
  <2>3. TrailComplete(u) /\ Extends(t, u)
    BY <2>2, AppendedComplete
  <2> HIDE DEF u, t
  <2>4. DOMAIN row = DOMAIN draft[w] /\ row.trail = u
    BY <2>2
  <2>5. Extends(committed, u)
    BY <1>1, <2>2, <2>3, ExtendsTransitive
  <2> HIDE DEF row
  <2>6. QED
    BY <1>1, <2>1, <2>2, <2>3, <2>4, <2>5, DraftStep
<1>5. CASE CommitTransaction(w) \/ Rollback(w)
  BY <1>5, CloseStep DEF CommitTransaction, Rollback
<1>6. QED
  BY <1>2, <1>3, <1>4, <1>5

\* A page of a complete chain is well chained, so the check goes on.
LEMMA ReadPageStep ==
    ASSUME AuditTrailAssumption, AuditInv, ReadPage
    PROVE  /\ audit'.at \in {"reading", "read"}
           /\ Reading'
<1> DEFINE events == audit.trail.events
           last == Len(events)
           from == audit.sequence
           n == IF from + PageSize < last THEN from + PageSize ELSE last
           page == SubSeq(events, from + 1, n)
<1>1. /\ Reading /\ audit.at = "reading"
      /\ PageSize \in Nat /\ PageSize > 0
  BY DEF ReadPage, AuditInv, AuditTrailAssumption
<1>2. PICK S : events \in Seq(S)
  BY <1>1 DEF Reading, TrailComplete
<1>3. /\ last \in Nat /\ from \in 0..last
      /\ \A i \in 1..last : /\ events[i] \in S
                            /\ events[i].sequence = i
                            /\ events[i].previous = Predecessor(events, i)
      /\ audit.previous = Predecessor(events, from + 1)
  BY <1>1, <1>2, LenProperties, ElementOfSeq DEF Reading, TrailComplete
<1>4. audit' = IF page = <<>> THEN [audit EXCEPT !.at = "read"]
               ELSE IF Chained(page, from, audit.previous)
               THEN [audit EXCEPT !.sequence = n,
                                  !.previous = page[Len(page)].hash]
               ELSE [at |-> "invalid"]
  BY DEF ReadPage, Seen
<1>5. n \in from..last /\ (n = from => from = last)
  BY <1>1, <1>3
<1> HIDE DEF n, events, last, from
<1>6. /\ page \in Seq(S)
      /\ Len(page) = n - from
      /\ \A i \in 1..(n - from) : page[i] = events[from + i]
  <2>1. \A i \in (from + 1)..n : events[i] \in S
    BY <1>3, <1>5
  <2>2. from \in Int /\ from + 1 \in Int /\ n \in Int
    BY <1>3, <1>5
  <2>3. /\ page \in Seq(S)
        /\ Len(page) = IF from + 1 <= n THEN n - (from + 1) + 1 ELSE 0
        /\ \A i \in 1..(n - (from + 1) + 1) :
             page[i] = events[from + 1 + i - 1]
    BY <2>1, <2>2, SubSeqProperties
  <2>4. ASSUME NEW i \in 1..(n - from)
        PROVE  i \in 1..(n - (from + 1) + 1) /\ from + 1 + i - 1 = from + i
    <3>1. i \in Int /\ n - from = n - (from + 1) + 1
      BY <2>2
    <3>2. QED
      BY <2>2, <3>1
  <2>5. \A i \in 1..(n - from) : page[i] = events[from + i]
    BY <2>3, <2>4
  <2>6. Len(page) = n - from
    BY <1>3, <1>5, <2>3
  <2>7. QED
    BY <2>3, <2>5, <2>6
<1> HIDE DEF page
<1>7. CASE page = <<>>
  <2>1. from = last
    BY <1>3, <1>5, <1>6, <1>7, EmptySeq
  <2>2. audit' = [audit EXCEPT !.at = "read"]
    BY <1>4, <1>7
  <2>3. /\ DOMAIN audit' = DOMAIN audit /\ audit'.at = "read"
        /\ audit'.trail = audit.trail /\ audit'.sequence = audit.sequence
        /\ audit'.previous = audit.previous
    BY <1>1, <2>2 DEF Reading
  <2>4. QED
    BY <1>1, <2>1, <2>3 DEF Reading, from, last, events
<1>8. CASE page # <<>>
  <2>1. n > from /\ n \in 1..last /\ Len(page) \in 1..(n - from)
    BY <1>2, <1>3, <1>5, <1>6, <1>8, EmptySeq
  <2>2. Chained(page, from, audit.previous)
    <3> SUFFICES ASSUME NEW i \in 1..(n - from)
                 PROVE  /\ page[i].sequence = from + i
                        /\ page[i].previous = IF i = 1 THEN audit.previous
                                              ELSE page[i - 1].hash
      BY <1>6, LenProperties DEF Chained
    <3>1. page[i] = events[from + i] /\ from + i \in 1..last
      BY <1>3, <1>5, <1>6
    <3>2. /\ page[i].sequence = from + i
          /\ page[i].previous = Predecessor(events, from + i)
      BY <1>3, <3>1
    <3>3. CASE i = 1
      BY <1>3, <3>2, <3>3
    <3>4. CASE i # 1
      <4>1. i - 1 \in 1..(n - from) /\ from + i # 1
            /\ from + (i - 1) = (from + i) - 1
        BY <1>3, <1>5, <3>4
      <4>2. page[i - 1] = events[(from + i) - 1]
        BY <1>6, <4>1
      <4>3. Predecessor(events, from + i) = events[(from + i) - 1].hash
        BY <4>1 DEF Predecessor
      <4>4. QED
        BY <3>2, <3>4, <4>2, <4>3
    <3>5. QED
      BY <3>3, <3>4
  <2>3. page[Len(page)] = events[n]
    <3>1. from + (n - from) = n /\ n - from \in 1..(n - from)
      BY <1>3, <1>5, <2>1
    <3>2. QED
      BY <1>6, <3>1
  <2>4. audit' = [audit EXCEPT !.sequence = n, !.previous = events[n].hash]
    BY <1>4, <1>8, <2>2, <2>3
  <2>5. /\ DOMAIN audit' = DOMAIN audit /\ audit'.at = "reading"
        /\ audit'.trail = audit.trail /\ audit'.sequence = n
        /\ audit'.previous = events[n].hash
    BY <1>1, <2>4 DEF Reading
  <2>6. Predecessor(events, n + 1) = events[n].hash
    <3>1. n + 1 # 1 /\ (n + 1) - 1 = n
      BY <2>1
    <3>2. QED
      BY <3>1 DEF Predecessor
  <2>7. n \in 0..last
    BY <2>1
  <2>8. QED
    BY <1>1, <2>5, <2>6, <2>7 DEF Reading, events, last
<1>9. QED
  BY <1>7, <1>8

\* What is committed is what a check has to find.
LEMMA CheckSteps ==
    ASSUME AuditTrailAssumption, AuditInv,
           \/ BeginAuditIntegrity \/ ReadPage
           \/ CompareHead \/ EndAuditIntegrity
    PROVE  AuditInv' /\ Extends(committed, committed')
<1>1. /\ UNCHANGED <<committed, holder, draft>>
      /\ TrailComplete(committed) /\ Extends(committed, committed)
  BY ExtendsItself
     DEF BeginAuditIntegrity, ReadPage, CompareHead, EndAuditIntegrity,
         AuditInv
<1>2. \A w \in Writers : DraftOK(w)'
  BY <1>1 DEF AuditInv, DraftOK
<1>3. /\ audit'.at \in {"idle", "reading", "read", "valid"}
      /\ audit'.at \in {"reading", "read"} => Reading'
  <2>1. CASE BeginAuditIntegrity
    <3>1. audit' = [at |-> "reading", trail |-> committed, sequence |-> 0,
                    previous |-> Genesis]
      BY <2>1 DEF BeginAuditIntegrity, Snapshot
    <3>2. /\ DOMAIN audit' = {"at", "trail", "sequence", "previous"}
          /\ audit'.at = "reading" /\ audit'.trail = committed
          /\ audit'.sequence = 0 /\ audit'.previous = Genesis
      BY <3>1
    <3>3. Len(committed.events) \in Nat
      BY <1>1, LenProperties DEF TrailComplete
    <3>4. QED
      BY <1>1, <3>2, <3>3 DEF Reading, Predecessor
  <2>2. CASE ReadPage
    BY <2>2, ReadPageStep
  <2>3. CASE CompareHead
    <3> DEFINE n == Len(audit.trail.events)
    <3>1. /\ Reading /\ audit.sequence = n
          /\ audit.previous = Predecessor(audit.trail.events, n + 1)
      BY <2>3 DEF CompareHead, AuditInv, Reading
    <3>2. n \in Nat /\ n > 0
      BY <3>1, LenProperties DEF Reading, TrailComplete
    <3>3. n + 1 # 1 /\ (n + 1) - 1 = n
      BY <3>2
    <3>4. audit.previous = audit.trail.events[n].hash
      BY <3>1, <3>3 DEF Predecessor
    <3>5. audit.trail.head = [sequence |-> audit.sequence,
                              hash |-> audit.previous]
      BY <3>1, <3>4 DEF Reading, TrailComplete
    <3>6. audit' = [at |-> "valid"]
      BY <2>3, <3>5 DEF CompareHead, Seen
    <3>7. QED
      BY <3>6
  <2>4. CASE EndAuditIntegrity
    BY <2>4 DEF EndAuditIntegrity, NoAudit
  <2>5. QED
    BY <2>1, <2>2, <2>3, <2>4
<1>4. QED
  BY <1>1, <1>2, <1>3 DEF AuditInv

LEMMA AuditStepInv ==
    ASSUME AuditTrailAssumption, AuditInv, [AuditNext]_auditVars
    PROVE  AuditInv' /\ Extends(committed, committed')
<1>1. CASE UNCHANGED auditVars
  <2>1. TrailComplete(committed) /\ Extends(committed, committed)
    BY ExtendsItself DEF AuditInv
  <2>2. \A w \in Writers : DraftOK(w)'
    <3>1. draft' = draft /\ committed' = committed /\ holder' = holder
      BY <1>1 DEF auditVars
    <3>2. QED
      BY <3>1 DEF AuditInv, DraftOK
  <2>3. /\ audit'.at \in {"idle", "reading", "read", "valid"}
        /\ audit'.at \in {"reading", "read"} => Reading'
    BY <1>1, AuditKept DEF auditVars
  <2>4. QED
    BY <1>1, <2>1, <2>2, <2>3 DEF auditVars, AuditInv
<1>2. QED
  BY <1>1, WriterSteps, CheckSteps DEF AuditNext

\* The inductive invariant of the audit chain: who appends holds the lock, and what the
\* pages have shown so far is a beginning of the chain (AppendAudit, VerifyAuditChain).
THEOREM AuditInvariant == AuditSpec => []AuditInv
<1>1. AuditInit => AuditInv
  BY AuditInitInv
<1>2. AuditInv /\ [AuditNext]_auditVars => AuditInv'
  BY AuditStepInv, AuditTrailAssumption
<1>3. QED
  BY <1>1, <1>2, PTL DEF AuditSpec

\* The check of the audit chain never raises a false alarm, whatever commits
\* and rolls back around its pages and however small they are.
THEOREM NoFalseAlarmHolds == AuditSpec => []NoFalseAlarm
<1>1. AuditInv => NoFalseAlarm
  BY DEF AuditInv, NoFalseAlarm
<1>2. QED
  BY <1>1, AuditInvariant, PTL

\* No transaction loses or rewrites an event that another one has committed:
\* what they append goes on from the committed chain because they hold the
\* lock of the application (AppendAudit, BeginTransaction).
ChainOnlyGrows == [][Extends(committed, committed')]_auditVars

THEOREM ChainOnlyGrowsHolds == AuditSpec => ChainOnlyGrows
<1>1. AuditInv /\ [AuditNext]_auditVars
        => [Extends(committed, committed')]_auditVars
  BY AuditStepInv, AuditTrailAssumption
<1>2. QED
  BY <1>1, AuditInvariant, PTL DEF AuditSpec, ChainOnlyGrows

-----------------------------------------------------------------------------
(* Packages *)

Places == {"nowhere", "temp", "path", "trash"}
Stages == {"new", "written", "over", "idle"} \cup Holding

PkgTypes ==
    /\ rows \in [Releases ->
                   {"none", "sent", "draft", "published", "withdrawn", "deleted"}]
    /\ place \in [Releases -> Places]
    /\ durable \in [Releases -> Places]
    /\ job \in [Releases -> Stages]
    /\ early \subseteq Releases

\* Before its commit an upload has no row; from its rename on its file is at
\* the path, and durably when it is about to commit.  What is over has no row,
\* or one whose commit is still under way.
StageOK(r) ==
    /\ job[r] \in {"new", "written", "locked", "renamed", "synced"}
         => rows[r] = "none"
    /\ job[r] = "over" => ~Live(r)
    /\ job[r] \in {"renamed", "synced"} => place[r] = "path"
    /\ job[r] = "synced" => durable[r] = "path"
    /\ rows[r] = "sent" => job[r] \in {"failed", "over"}
    /\ "trash" \in {place[r], durable[r]} => r \in Classic

KeptPlaces(r) == {"path"} \cup (IF r \in Classic THEN {"trash"} ELSE {})

\* Nor can the file of an early row become visible without being durable.
Kept(r) ==
    /\ rows[r] = "sent" =>
         /\ r \notin early => place[r] = "path"
         /\ {place[r], durable[r]} \subseteq {"nowhere", "path"}
         /\ place[r] = "path" => durable[r] = "path"
    /\ Live(r) =>
         /\ r \notin early \/ rows[r] = "published" => place[r] \in KeptPlaces(r)
         /\ place[r] \in KeptPlaces(r) => durable[r] \in KeptPlaces(r)

\* While a backup copies nobody holds the lock, and what it has still to copy
\* is in place unless it was missing when the backup began.
BackupOK ==
    /\ Copying =>
         /\ ~Exclusive
         /\ DOMAIN backup = {"at", "left", "lost"}
         /\ \A r \in backup.left :
              /\ r \in Releases
              /\ rows[r] \notin {"none", "sent"}
              /\ r \in backup.lost \/ place[r] = "path"
    /\ BackupSound

PkgInv ==
    /\ PkgTypes
    /\ \A r \in Releases : StageOK(r) /\ Kept(r)
    /\ BackupOK

LEMMA PkgInitInv == ASSUME PkgInit PROVE PkgInv
<1>1. PkgTypes
  BY DEF PkgInit, PkgTypes, Places, Stages
<1>2. \A r \in Releases : StageOK(r) /\ Kept(r)
  BY DEF PkgInit, StageOK, Kept, Live
<1>3. BackupOK
  BY DEF PkgInit, BackupOK, Copying, BackupSound, NoBackup
<1>4. QED
  BY <1>1, <1>2, <1>3 DEF PkgInv

\* A step of the request that works on release r, or of the clean-up of its
\* file: the other releases keep their rows, files and jobs.
LEMMA ReleaseStep ==
    ASSUME PkgInv, NEW r \in Releases, PkgTypes', backup' = backup,
           \A q \in Releases \ {r} :
             /\ rows'[q] = rows[q] /\ place'[q] = place[q] /\ job'[q] = job[q]
             /\ q \in early' <=> q \in early,
           durable' = durable \/ durable' = place,
           StageOK(r)', Kept(r)',
           Copying =>
             /\ job'[r] \notin Holding
             /\ r \in backup.left =>
                  rows'[r] \notin {"none", "sent"} /\ (place[r] = "path" => place'[r] = "path")
    PROVE  PkgInv'
<1>1. ASSUME NEW q \in Releases, q # r
      PROVE  StageOK(q)' /\ Kept(q)'
  <2>1. /\ rows'[q] = rows[q] /\ place'[q] = place[q] /\ job'[q] = job[q]
        /\ durable'[q] \in {durable[q], place[q]}
        /\ q \in early' <=> q \in early
        /\ StageOK(q) /\ Kept(q)
    BY <1>1 DEF PkgInv
  <2>2. QED
    BY <2>1 DEF StageOK, Kept, Live, KeptPlaces
<1>2. BackupOK'
  <2>1. ASSUME Copying
        PROVE  /\ ~Exclusive'
               /\ \A q \in backup.left :
                    /\ q \in Releases
                    /\ rows'[q] \notin {"none", "sent"}
                    /\ q \in backup.lost \/ place'[q] = "path"
    BY <2>1 DEF PkgInv, BackupOK, Exclusive
  <2>2. QED
    BY <2>1 DEF PkgInv, BackupOK, Copying, BackupSound
<1>3. QED
  BY <1>1, <1>2 DEF PkgInv

LEMMA UploadSteps ==
    ASSUME PkgInv, NEW r \in Releases,
           \/ WriteTemp(r) \/ LockForUpload(r) \/ RenamePackage(r)
           \/ RefusePackage(r) \/ SyncRename(r) \/ FailUpload(r)
           \/ AfterError(r) \/ CommitUpload(r) \/ LoseCommit(r)
           \/ \E status \in {"none", "draft"} : SettleCommit(r, status)
    PROVE  PkgInv'
<1> USE DEF Advance, Put, SyncDirectory
<1>1. PkgTypes /\ StageOK(r) /\ Kept(r) /\ (Copying => job[r] \notin Holding)
  BY DEF PkgInv, BackupOK, Exclusive
<1>2. CASE WriteTemp(r)
  <2>1. PkgTypes'
    BY <1>1, <1>2 DEF WriteTemp, PkgTypes, Places, Stages
  <2>2. /\ job'[r] = "written" /\ rows'[r] = "none" /\ rows[r] = "none"
        /\ StageOK(r)' /\ Kept(r)'
    BY <1>1, <1>2 DEF WriteTemp, PkgTypes, StageOK, Kept, Live
  <2>3. Copying => r \notin backup.left
    BY <2>2 DEF PkgInv, BackupOK
  <2>4. QED
    BY <1>1, <1>2, <2>1, <2>2, <2>3, ReleaseStep
       DEF WriteTemp, PkgTypes, Holding
<1>3. CASE LockForUpload(r)
  <2>1. PkgTypes' /\ ~Copying
    BY <1>1, <1>3 DEF LockForUpload, PkgTypes, Stages, Holding, LockFree
  <2>2. StageOK(r)' /\ Kept(r)'
    BY <1>1, <1>3 DEF LockForUpload, PkgTypes, StageOK, Kept, Live, KeptPlaces
  <2>3. QED
    BY <1>1, <1>3, <2>1, <2>2, ReleaseStep DEF LockForUpload, PkgTypes
<1>4. CASE RenamePackage(r)
  <2>1. PkgTypes' /\ ~Copying
    BY <1>1, <1>4 DEF RenamePackage, PkgTypes, Stages, Holding, Places
  <2>2. StageOK(r)' /\ Kept(r)'
    BY <1>1, <1>4 DEF RenamePackage, PkgTypes, StageOK, Kept, Live
  <2>3. QED
    BY <1>1, <1>4, <2>1, <2>2, ReleaseStep DEF RenamePackage, PkgTypes
<1>5. CASE RefusePackage(r)
  <2>1. PkgTypes' /\ ~Copying
    BY <1>1, <1>5 DEF RefusePackage, PkgTypes, Stages, Holding, Places
  <2>2. StageOK(r)' /\ Kept(r)'
    BY <1>1, <1>5 DEF RefusePackage, PkgTypes, StageOK, Kept, Live
  <2>3. QED
    BY <1>1, <1>5, <2>1, <2>2, ReleaseStep DEF RefusePackage, PkgTypes
<1>6. CASE SyncRename(r)
  <2>1. PkgTypes' /\ ~Copying
    BY <1>1, <1>6 DEF SyncRename, PkgTypes, Stages, Holding
  <2>2. StageOK(r)' /\ Kept(r)'
    BY <1>1, <1>6 DEF SyncRename, PkgTypes, StageOK, Kept, Live
  <2>3. QED
    BY <1>1, <1>6, <2>1, <2>2, ReleaseStep DEF SyncRename, PkgTypes
<1>7. CASE FailUpload(r)
  <2>1. PkgTypes' /\ ~Copying
    BY <1>1, <1>7 DEF FailUpload, PkgTypes, Stages, Holding
  <2>2. StageOK(r)' /\ Kept(r)'
    BY <1>1, <1>7 DEF FailUpload, PkgTypes, StageOK, Kept, Live
  <2>3. QED
    BY <1>1, <1>7, <2>1, <2>2, ReleaseStep DEF FailUpload, PkgTypes
<1>8. CASE AfterError(r)
  <2>1. PkgTypes' /\ ~Copying
    BY <1>1, <1>8 DEF AfterError, PkgTypes, Stages, Holding, Places
  <2>2. StageOK(r)' /\ Kept(r)'
    BY <1>1, <1>8
       DEF AfterError, PkgTypes, StageOK, Kept, Live, KeptPlaces
  <2>3. QED
    BY <1>1, <1>8, <2>1, <2>2, ReleaseStep DEF AfterError, PkgTypes
<1>9. CASE CommitUpload(r)
  <2>1. PkgTypes' /\ ~Copying
    BY <1>1, <1>9 DEF CommitUpload, PkgTypes, Stages, Holding
  <2>2. StageOK(r)' /\ Kept(r)'
    BY <1>1, <1>9
       DEF CommitUpload, PkgTypes, StageOK, Kept, Live, KeptPlaces
  <2>3. QED
    BY <1>1, <1>9, <2>1, <2>2, ReleaseStep DEF CommitUpload, PkgTypes
<1>10. CASE LoseCommit(r)
  <2>1. PkgTypes' /\ ~Copying
    BY <1>1, <1>10 DEF LoseCommit, PkgTypes, Stages, Holding
  <2>2. StageOK(r)' /\ Kept(r)'
    BY <1>1, <1>10 DEF LoseCommit, PkgTypes, StageOK, Kept, Live
  <2>3. QED
    BY <1>1, <1>10, <2>1, <2>2, ReleaseStep DEF LoseCommit, PkgTypes
<1>11. ASSUME NEW status \in {"none", "draft"}, SettleCommit(r, status)
       PROVE  PkgInv'
  <2>1. /\ rows[r] = "sent" /\ job[r] \in {"failed", "over"}
        /\ rows' = [rows EXCEPT ![r] = status]
        /\ job' = IF status = "draft" /\ job[r] = "over"
                  THEN [job EXCEPT ![r] = "idle"] ELSE job
        /\ UNCHANGED <<place, durable, backup, early>>
    BY <1>1, <1>11 DEF SettleCommit, StageOK
  <2>2. PkgTypes'
    BY <1>1, <2>1 DEF PkgTypes, Stages
  <2>3. StageOK(r)' /\ Kept(r)'
    BY <1>1, <2>1 DEF PkgTypes, StageOK, Kept, Live, KeptPlaces
  <2>4. Copying => r \notin backup.left /\ job'[r] \notin Holding
    BY <1>1, <2>1 DEF PkgInv, BackupOK, PkgTypes, Holding
  <2>5. QED
    BY <1>1, <2>1, <2>2, <2>3, <2>4, ReleaseStep DEF PkgTypes
<1>12. QED
  BY <1>2, <1>3, <1>4, <1>5, <1>6, <1>7, <1>8, <1>9, <1>10, <1>11

LEMMA DeleteSteps ==
    ASSUME PkgInv, NEW r \in Releases, r \in Classic,
           \/ LockForDelete(r) \/ MovePackage(r) \/ MissPackage(r)
           \/ RefuseDelete(r) \/ SyncMove(r) \/ CommitDelete(r)
           \/ FailDelete(r) \/ AfterDelete(r)
    PROVE  PkgInv'
<1> USE DEF Advance, Put, SyncDirectory
<1>1. PkgTypes /\ StageOK(r) /\ Kept(r) /\ (Copying => job[r] \notin Holding)
  BY DEF PkgInv, BackupOK, Exclusive
<1>2. CASE LockForDelete(r)
  <2>1. PkgTypes' /\ ~Copying
    BY <1>1, <1>2 DEF LockForDelete, PkgTypes, Stages, Holding, LockFree
  <2>2. StageOK(r)' /\ Kept(r)'
    BY <1>1, <1>2 DEF LockForDelete, PkgTypes, StageOK, Kept, Live, KeptPlaces
  <2>3. QED
    BY <1>1, <1>2, <2>1, <2>2, ReleaseStep DEF LockForDelete, PkgTypes
<1>3. CASE MovePackage(r)
  <2>1. PkgTypes' /\ ~Copying
    BY <1>1, <1>3 DEF MovePackage, PkgTypes, Stages, Holding, Places
  <2>2. StageOK(r)' /\ Kept(r)'
    BY <1>1, <1>3 DEF MovePackage, PkgTypes, StageOK, Kept, Live, KeptPlaces
  <2>3. QED
    BY <1>1, <1>3, <2>1, <2>2, ReleaseStep DEF MovePackage, PkgTypes
<1>4. CASE MissPackage(r)
  <2>1. PkgTypes' /\ ~Copying
    BY <1>1, <1>4 DEF MissPackage, PkgTypes, Stages, Holding
  <2>2. StageOK(r)' /\ Kept(r)'
    BY <1>1, <1>4 DEF MissPackage, PkgTypes, StageOK, Kept, Live, KeptPlaces
  <2>3. QED
    BY <1>1, <1>4, <2>1, <2>2, ReleaseStep DEF MissPackage, PkgTypes
<1>5. CASE RefuseDelete(r)
  <2>1. PkgTypes' /\ ~Copying
    BY <1>1, <1>5 DEF RefuseDelete, PkgTypes, Stages, Holding
  <2>2. StageOK(r)' /\ Kept(r)'
    BY <1>1, <1>5 DEF RefuseDelete, PkgTypes, StageOK, Kept, Live, KeptPlaces
  <2>3. QED
    BY <1>1, <1>5, <2>1, <2>2, ReleaseStep DEF RefuseDelete, PkgTypes
<1>6. CASE SyncMove(r)
  <2>1. PkgTypes' /\ ~Copying
    BY <1>1, <1>6 DEF SyncMove, PkgTypes, Stages, Holding
  <2>2. StageOK(r)' /\ Kept(r)'
    BY <1>1, <1>6 DEF SyncMove, PkgTypes, StageOK, Kept, Live, KeptPlaces
  <2>3. QED
    BY <1>1, <1>6, <2>1, <2>2, ReleaseStep DEF SyncMove, PkgTypes
<1>7. CASE CommitDelete(r)
  <2>1. PkgTypes' /\ ~Copying
    BY <1>1, <1>7 DEF CommitDelete, PkgTypes, Stages, Holding
  <2>2. StageOK(r)' /\ Kept(r)'
    BY <1>1, <1>7 DEF CommitDelete, PkgTypes, StageOK, Kept, Live
  <2>3. QED
    BY <1>1, <1>7, <2>1, <2>2, ReleaseStep DEF CommitDelete, PkgTypes
<1>8. CASE FailDelete(r)
  <2>1. PkgTypes' /\ ~Copying
    BY <1>1, <1>8 DEF FailDelete, PkgTypes, Stages, Holding
  <2>2. StageOK(r)' /\ Kept(r)'
    BY <1>1, <1>8 DEF FailDelete, PkgTypes, StageOK, Kept, Live, KeptPlaces
  <2>3. QED
    BY <1>1, <1>8, <2>1, <2>2, ReleaseStep DEF FailDelete, PkgTypes
<1>9. CASE AfterDelete(r)
  <2>1. PkgTypes' /\ ~Copying
    BY <1>1, <1>9 DEF AfterDelete, PkgTypes, Stages, Holding, Places
  <2>2. StageOK(r)' /\ Kept(r)'
    BY <1>1, <1>9 DEF AfterDelete, PkgTypes, StageOK, Kept, Live, KeptPlaces
  <2>3. QED
    BY <1>1, <1>9, <2>1, <2>2, ReleaseStep DEF AfterDelete, PkgTypes
<1>10. QED
  BY <1>2, <1>3, <1>4, <1>5, <1>6, <1>7, <1>8, <1>9

LEMMA StatusAndCleanup ==
    ASSUME PkgInv, NEW r \in Releases,
           \/ \E status \in {"published", "withdrawn"} :
                SetReleaseStatus(r, status)
           \/ CleanupReleaseTemps(r)
    PROVE  PkgInv'
<1>1. PkgTypes /\ StageOK(r) /\ Kept(r) /\ (Copying => job[r] \notin Holding)
  BY DEF PkgInv, BackupOK, Exclusive
<1>2. ASSUME NEW status \in {"published", "withdrawn"},
             SetReleaseStatus(r, status)
      PROVE  PkgInv'
  <2>1. PkgTypes' /\ rows'[r] = status /\ Live(r)
    BY <1>1, <1>2 DEF SetReleaseStatus, PkgTypes
  <2>2. StageOK(r)' /\ Kept(r)'
    BY <1>1, <1>2, <2>1 DEF SetReleaseStatus, StageOK, Kept, Live, KeptPlaces
  <2>3. QED
    BY <1>1, <1>2, <2>1, <2>2, ReleaseStep DEF SetReleaseStatus, PkgTypes
<1>3. CASE CleanupReleaseTemps(r)
  <2>1. PkgTypes' /\ ~Copying
    BY <1>1, <1>3
       DEF CleanupReleaseTemps, PkgTypes, Places, LockFree, Put
  <2>2. StageOK(r)' /\ Kept(r)'
    BY <1>1, <1>3
       DEF CleanupReleaseTemps, PkgTypes, StageOK, Kept, Live, KeptPlaces, Put
  <2>3. QED
    BY <1>1, <1>3, <2>1, <2>2, ReleaseStep
       DEF CleanupReleaseTemps, PkgTypes, Put
<1>4. QED
  BY <1>2, <1>3

\* The steps of the backup change nothing but the backup.
LEMMA BackupSteps ==
    ASSUME PkgInv,
           \/ BeginBackup \/ PublishArchive
           \/ \E r \in Releases : CopyPackage(r)
    PROVE  PkgInv'
<1>1. UNCHANGED <<rows, place, durable, job, early>>
  BY DEF BeginBackup, PublishArchive, CopyPackage
<1>2. PkgTypes' /\ \A r \in Releases : StageOK(r)' /\ Kept(r)'
  BY <1>1 DEF PkgInv, PkgTypes, StageOK, Kept, Live
<1>3. Exclusive' <=> Exclusive
  BY <1>1 DEF Exclusive
<1>4. BackupOK'
  <2>1. CASE BeginBackup
    <3>1. /\ backup'.at = "copying"
          /\ DOMAIN backup' = {"at", "left", "lost"}
          /\ backup'.left = {r \in Releases : Live(r)}
          /\ backup'.lost = {r \in Releases : Live(r) /\ place[r] # "path"}
      BY <2>1 DEF BeginBackup
    <3>2. ~Exclusive
      BY <2>1 DEF BeginBackup, MayBackup
    <3>3. \A r \in backup'.left :
            /\ r \in Releases
            /\ rows'[r] \notin {"none", "sent"}
            /\ r \in backup'.lost \/ place'[r] = "path"
      BY <1>1, <3>1 DEF Live
    <3>4. BackupSound'
      BY <3>1 DEF BackupSound
    <3>5. QED
      BY <1>3, <3>1, <3>2, <3>3, <3>4 DEF BackupOK
  <2>2. CASE PublishArchive
    BY <2>2 DEF PublishArchive, NoBackup, BackupOK, Copying, BackupSound
  <2>3. ASSUME NEW r \in Releases, CopyPackage(r)
        PROVE  BackupOK'
    <3>1. /\ Copying /\ r \in backup.left /\ BackupOK /\ BackupSound
          /\ DOMAIN backup = {"at", "left", "lost"}
      BY <2>3 DEF CopyPackage, PkgInv, BackupOK
    <3>2. CASE place[r] = "path"
      <4>1. backup' = [backup EXCEPT !.left = @ \ {r}]
        BY <2>3, <3>2 DEF CopyPackage
      <4>2. /\ DOMAIN backup' = DOMAIN backup /\ backup'.at = backup.at
            /\ backup'.left \subseteq backup.left
            /\ backup'.lost = backup.lost
        BY <3>1, <4>1
      <4>3. BackupSound'
        BY <3>1, <4>2 DEF BackupSound
      <4>4. QED
        BY <1>1, <1>3, <3>1, <4>2, <4>3 DEF BackupOK, Copying
    <3>3. CASE place[r] # "path"
      <4>1. backup' = [backup EXCEPT !.at = "failed"]
        BY <2>3, <3>3 DEF CopyPackage
      <4>2. backup'.at = "failed" /\ backup'.lost = backup.lost
        BY <3>1, <4>1
      <4>3. r \in backup.lost
        BY <3>1, <3>3 DEF BackupOK
      <4>4. QED
        BY <4>2, <4>3 DEF BackupOK, Copying, BackupSound
    <3>4. QED
      BY <3>2, <3>3
  <2>4. QED
    BY <2>1, <2>2, <2>3
<1>5. QED
  BY <1>2, <1>4 DEF PkgInv

\* Whatever is undone by a loss of power was in a place that keeps it.
LEMMA PowerLossStep == ASSUME PkgInv, PowerLoss PROVE PkgInv'
<1>1. PkgTypes'
  BY DEF PkgInv, PowerLoss, PkgTypes, Places, Stages
<1>2. ASSUME NEW r \in Releases
      PROVE  StageOK(r)' /\ Kept(r)'
  <2>1. /\ place'[r] \in {place[r], durable[r]} /\ durable' = place'
        /\ rows' = rows /\ early' = early /\ StageOK(r) /\ Kept(r)
        /\ job'[r] = IF job[r] = "new" THEN "new"
                     ELSE IF rows[r] \in {"none", "sent"} THEN "over" ELSE "idle"
    BY DEF PkgInv, PowerLoss
  <2>2. durable'[r] = place'[r] /\ (Live(r)' <=> Live(r))
    BY <2>1 DEF Live
  <2>3. StageOK(r)'
    BY <2>1, <2>2 DEF StageOK, Live
  <2>4. Kept(r)'
    BY <2>1, <2>2 DEF StageOK, Kept, Live, KeptPlaces
  <2>5. QED
    BY <2>3, <2>4
<1>3. BackupOK'
  BY DEF PowerLoss, NoBackup, BackupOK, Copying, BackupSound
<1>4. QED
  BY <1>1, <1>2, <1>3 DEF PkgInv

LEMMA PkgStepInv == ASSUME PkgInv, [PkgNext]_pkgVars PROVE PkgInv'
<1>1. CASE UNCHANGED pkgVars
  <2>1. UNCHANGED <<rows, place, durable, job, backup, early>>
    BY <1>1 DEF pkgVars
  <2>2. PkgTypes' /\ \A r \in Releases : StageOK(r)' /\ Kept(r)'
    BY <2>1 DEF PkgInv, PkgTypes, StageOK, Kept, Live
  <2>3. BackupOK'
    BY <2>1 DEF PkgInv, BackupOK, Copying, Exclusive, BackupSound
  <2>4. QED
    BY <2>2, <2>3 DEF PkgInv
<1>2. CASE PkgNext
  <2>1. Classic \subseteq Releases
    BY DEF Releases
  <2>2. QED
    BY <1>2, <2>1, UploadSteps, DeleteSteps, StatusAndCleanup, BackupSteps,
       PowerLossStep DEF PkgNext
<1>3. QED
  BY <1>1, <1>2

\* The inductive invariant of packages, files and their backup (UploadPackage,
\* DeletePackage, Backup).
THEOREM PackagesInvariant == PkgSpec => []PkgInv
<1>1. PkgInit => PkgInv
  BY PkgInitInv
<1>2. PkgInv /\ [PkgNext]_pkgVars => PkgInv'
  BY PkgStepInv
<1>3. QED
  BY <1>1, <1>2, PTL DEF PkgSpec

\* No package with a row is lost, wherever requests and the machine stop, and
\* nothing that runs beside a backup takes a file away from it.
THEOREM PackagesSoundHolds == PkgSpec => []PackagesSound
<1>1. PkgInv => PackagesSound
  BY DEF PkgInv, Kept, KeptPlaces, BackupOK, PackagesSound, PackagesKept
<1>2. QED
  BY <1>1, PackagesInvariant, PTL

-----------------------------------------------------------------------------
(* The blocklist *)

RiskTypes ==
    /\ blocks \in [Scopes -> Block]
    /\ DOMAIN visit = Visitors
    /\ ordered \subseteq Scopes

\* What a request lifts had a deadline when it was read, and no row that has
\* one loses it again.
LiftsDated ==
    \A v \in Visitors :
      visit[v].at = "lifting" =>
        visit[v].scope \in Scopes /\ blocks[visit[v].scope].until # Never

RiskInv == RiskTypes /\ LiftsDated /\ OrdersStand

\* A row that is active is there, so placing a block on it keeps its deadline.
LEMMA UpsertKeeps ==
    ASSUME NEW scope \in Scopes, NEW until \in Int, blocks \in [Scopes -> Block]
    PROVE  /\ Upsert(scope, until) \in Block
           /\ Upsert(scope, until).status = "active"
           /\ blocks[scope].until # Never \/ Active(scope)
                => Upsert(scope, until).until = blocks[scope].until
BY DEF Upsert, Block, NoBlock, Active, Never

LEMMA BlockStep ==
    ASSUME RiskInv, NEW scope \in Scopes, NEW until \in Int,
           blocks' = [blocks EXCEPT ![scope] = Upsert(scope, until)],
           \A v \in Visitors : visit'[v].at = "lifting" => visit'[v] = visit[v],
           DOMAIN visit' = Visitors,
           \/ ordered' = ordered
           \/ /\ blocks'[scope].until = Never
              /\ ordered' = ordered \cup {scope}
    PROVE  RiskInv'
<1> DEFINE row == Upsert(scope, until)
<1>1. /\ row \in Block /\ row.status = "active"
      /\ blocks[scope].until # Never \/ Active(scope)
           => row.until = blocks[scope].until
  BY UpsertKeeps DEF RiskInv, RiskTypes
<1> HIDE DEF row
<1>2. /\ blocks' \in [Scopes -> Block] /\ blocks'[scope] = row
      /\ \A s \in Scopes \ {scope} : blocks'[s] = blocks[s]
  BY <1>1 DEF RiskInv, RiskTypes, row
<1>3. RiskTypes'
  BY <1>2 DEF RiskInv, RiskTypes
<1>4. LiftsDated'
  BY <1>1, <1>2 DEF RiskInv, LiftsDated
<1>5. OrdersStand'
  BY <1>1, <1>2 DEF RiskInv, RiskTypes, OrdersStand, Active
<1>6. QED
  BY <1>3, <1>4, <1>5 DEF RiskInv

\* A row is disabled that is not an administrator's any more.
LEMMA DisableStep ==
    ASSUME RiskInv, NEW scope \in Scopes,
           blocks' \in {blocks, Disabled(scope)},
           \A v \in Visitors : visit'[v].at = "lifting" => visit'[v] = visit[v],
           DOMAIN visit' = Visitors,
           ordered' = ordered \ {scope}
    PROVE  RiskInv'
<1>1. /\ blocks' \in [Scopes -> Block]
      /\ \A s \in Scopes : blocks'[s].until = blocks[s].until
      /\ \A s \in Scopes \ {scope} : blocks'[s] = blocks[s]
  BY DEF RiskInv, RiskTypes, Disabled, Block
<1>2. RiskTypes' /\ LiftsDated'
  BY <1>1 DEF RiskInv, RiskTypes, LiftsDated
<1>3. OrdersStand'
  BY <1>1 DEF RiskInv, RiskTypes, OrdersStand, Active
<1>4. QED
  BY <1>2, <1>3 DEF RiskInv

\* The steps that place and lift nothing.
LEMMA LookStep ==
    ASSUME RiskInv, blocks' = blocks, ordered' = ordered,
           DOMAIN visit' = Visitors,
           \A v \in Visitors :
             visit'[v].at = "lifting" =>
               \/ visit'[v] = visit[v]
               \/ visit'[v].scope \in Scopes
                  /\ blocks[visit'[v].scope].until # Never
    PROVE  RiskInv'
<1>1. RiskTypes' /\ LiftsDated'
  BY DEF RiskInv, RiskTypes, LiftsDated
<1>2. OrdersStand'
  BY DEF RiskInv, OrdersStand, Active
<1>3. QED
  BY <1>1, <1>2 DEF RiskInv

LEMMA VisitorSteps ==
    ASSUME RiskAssumption, RiskInv, hour \in Nat, NEW v \in Visitors,
           \/ CheckRiskAccess(v) \/ RefuseBlocked(v) \/ SeeRanOut(v)
           \/ LiftRanOut(v) \/ ActivationSucceeds(v)
           \/ \E probing \in BOOLEAN : ActivationFails(v, probing)
           \/ EvaluateFailedActivationRisk(v) \/ LookBeforeBlock(v)
           \/ AutoBlock(v)
    PROVE  RiskInv'
<1>1. DOMAIN visit = Visitors
  BY DEF RiskInv, RiskTypes
<1>2. CASE SeeRanOut(v)
  <2>1. PICK scope \in Found :
          /\ RanOut(scope)
          /\ visit' = [visit EXCEPT ![v] = [at |-> "lifting", scope |-> scope]]
    BY <1>2 DEF SeeRanOut
  <2>2. scope \in Scopes /\ blocks[scope].until # Never
    BY <2>1 DEF Found, Scopes, RanOut
  <2>3. /\ DOMAIN visit' = Visitors
        /\ visit'[v].scope = scope
        /\ \A w \in Visitors \ {v} : visit'[w] = visit[w]
    BY <1>1, <2>1
  <2>4. QED
    BY <1>2, <2>2, <2>3, LookStep DEF SeeRanOut
<1>3. CASE LiftRanOut(v)
  <2>1. visit[v].scope \in Scopes /\ visit[v].scope \notin ordered
    BY <1>3 DEF LiftRanOut, RiskInv, LiftsDated, OrdersStand
  <2>2. /\ DOMAIN visit' = Visitors
        /\ visit'[v].at = "activating"
        /\ \A w \in Visitors \ {v} : visit'[w] = visit[w]
    BY <1>1, <1>3 DEF LiftRanOut, Continues
  <2>3. /\ blocks' \in {blocks, Disabled(visit[v].scope)}
        /\ ordered' = ordered \ {visit[v].scope}
    BY <1>3, <2>1 DEF LiftRanOut
  <2>4. QED
    BY <2>1, <2>2, <2>3, DisableStep
<1>4. CASE AutoBlock(v)
  <2>1. /\ DOMAIN visit' = Visitors
        /\ visit'[v].at = "none"
        /\ \A w \in Visitors \ {v} : visit'[w] = visit[w]
    BY <1>1, <1>4 DEF AutoBlock, Answered, NoRequest
  <2>2. "own" \in Scopes /\ hour + BlockTTL \in Int
    BY DEF Scopes, RiskAssumption
  <2>3. blocks' = [blocks EXCEPT !["own"] = Upsert("own", hour + BlockTTL)]
        /\ ordered' = ordered
    BY <1>4 DEF AutoBlock
  <2>4. QED
    BY <2>1, <2>2, <2>3, BlockStep
<1>5. CASE RefuseBlocked(v)
  BY <1>1, <1>5, LookStep DEF RefuseBlocked
<1>6. ASSUME NEW at, at # "lifting",
             visit' = [visit EXCEPT ![v] = [at |-> at]],
             blocks' = blocks, ordered' = ordered
      PROVE  RiskInv'
  <2>1. /\ DOMAIN visit' = Visitors
        /\ visit'[v].at = at
        /\ \A w \in Visitors \ {v} : visit'[w] = visit[w]
    BY <1>1, <1>6
  <2>2. QED
    BY <1>6, <2>1, LookStep
<1>7. QED
  BY <1>2, <1>3, <1>4, <1>5, <1>6
     DEF CheckRiskAccess, ActivationSucceeds, ActivationFails,
         EvaluateFailedActivationRisk, LookBeforeBlock, Continues, Answered,
         NoRequest

LEMMA RiskStepInv ==
    ASSUME RiskAssumption, RiskInv, hour \in Nat, [RiskNext]_riskVars
    PROVE  RiskInv' /\ hour' \in Nat
<1>1. DOMAIN visit = Visitors
  BY DEF RiskInv, RiskTypes
<1>2. CASE UNCHANGED riskVars \/ FailuresFade \/ HourPasses
  BY <1>1, <1>2, LookStep DEF riskVars, FailuresFade, HourPasses
<1>3. ASSUME NEW scope \in Scopes, CreateRiskBlock(scope)
      PROVE  RiskInv' /\ hour' \in Nat
  <2>1. Never \in Int
    BY DEF Never
  <2>2. QED
    BY <1>1, <1>3, <2>1, BlockStep DEF CreateRiskBlock
<1>4. ASSUME NEW scope \in Scopes, DisableRiskBlock(scope)
      PROVE  RiskInv' /\ hour' \in Nat
  BY <1>1, <1>4, DisableStep DEF DisableRiskBlock
<1>5. ASSUME NEW v \in Visitors,
             \/ CheckRiskAccess(v) \/ RefuseBlocked(v) \/ SeeRanOut(v)
             \/ LiftRanOut(v) \/ ActivationSucceeds(v)
             \/ \E probing \in BOOLEAN : ActivationFails(v, probing)
             \/ EvaluateFailedActivationRisk(v) \/ LookBeforeBlock(v)
             \/ AutoBlock(v)
      PROVE  RiskInv' /\ hour' \in Nat
  <2>1. hour' = hour
    BY <1>5 DEF CheckRiskAccess, RefuseBlocked, SeeRanOut, LiftRanOut,
         ActivationSucceeds, ActivationFails, EvaluateFailedActivationRisk,
         LookBeforeBlock, AutoBlock
  <2>2. QED
    BY <1>5, <2>1, VisitorSteps
<1>6. QED
  BY <1>2, <1>3, <1>4, <1>5 DEF RiskNext

\* A block an administrator has placed on a free row is lifted by
\* administrators only.
THEOREM OrdersStandHolds == RiskSpec => []OrdersStand
<1> DEFINE I == RiskInv /\ hour \in Nat
<1>1. RiskInit => I
  BY DEF RiskInit, RiskInv, RiskTypes, LiftsDated, OrdersStand, NoBlock,
         Block, Never, NoRequest
<1>2. I /\ [RiskNext]_riskVars => I'
  BY RiskStepInv, RiskAssumption
<1>3. I => OrdersStand
  BY DEF RiskInv
<1> HIDE DEF I
<1>4. QED
  BY <1>1, <1>2, <1>3, PTL DEF RiskSpec

-----------------------------------------------------------------------------
(* Security cases and downloads *)

CaseRow == [status : {"open", "confirmed", "resolved"}, action : Actions,
            occurrences : Nat]

SecurityTypes ==
    /\ policy \in Policy
    /\ cases \in [Signals -> CaseRow \cup {NoCase}]
    /\ appeals \in [Signals -> [Owners -> {"none", "open", "closed"}]]
    /\ shop \in [entitled : BOOLEAN, published : BOOLEAN, updates : BOOLEAN]
    /\ DOMAIN download = Downloads

\* What the checks that a download has passed have seen since its package was
\* read.
PastRights == {"policy", "cases", "release", "settings"} \cup
              {"again", "lastPolicy", "lastCases", "handed"}
PastRelease == {"settings", "again", "lastPolicy", "lastCases", "handed"}
PastSettings == {"again", "lastPolicy", "lastCases", "handed"}

Seeing(d) ==
    /\ witnessed[d] \subseteq {"entitled", "published", "updates", "unrestricted"}
    /\ download[d] \in PastRights => "entitled" \in witnessed[d]
    /\ download[d] \in PastRelease => "published" \in witnessed[d]
    /\ download[d] \in PastSettings => "updates" \in witnessed[d]
    /\ download[d] = "handed" => "unrestricted" \in witnessed[d]

SecurityInv ==
    /\ SecurityTypes
    /\ RestrictedByReview
    /\ AppealsWait
    /\ \A d \in Downloads : Seeing(d)

LEMMA RightsRange ==
    RightsNow \subseteq {"entitled", "published", "updates", "unrestricted"}
BY DEF RightsNow

LEMMA WitnessStep ==
    ASSUME Witness, NEW d \in Downloads
    PROVE  witnessed'[d] = IF download'[d] \in {"none", "hashing"} THEN {}
                           ELSE witnessed[d] \cup RightsNow'
BY DEF Witness

LEMMA SeeingKept ==
    ASSUME NEW d \in Downloads, Seeing(d), download'[d] = download[d], Witness
    PROVE  Seeing(d)'
<1>1. RightsNow' \subseteq {"entitled", "published", "updates", "unrestricted"}
  BY DEF RightsNow
<1>2. CASE download[d] \in {"none", "hashing"}
  <2>1. witnessed'[d] = {}
    BY <1>2, WitnessStep
  <2>2. QED
    BY <1>2, <2>1 DEF Seeing, PastRights, PastRelease, PastSettings
<1>3. CASE download[d] \notin {"none", "hashing"}
  <2>1. witnessed'[d] = witnessed[d] \cup RightsNow'
    BY <1>3, WitnessStep
  <2>2. QED
    BY <1>1, <2>1 DEF Seeing
<1>4. QED
  BY <1>2, <1>3

\* The steps of clients and reviewers leave downloads where they are.
LEMMA CaseStep ==
    ASSUME SecurityInv, download' = download, Witness, policy' \in Policy,
           shop' \in [entitled : BOOLEAN, published : BOOLEAN, updates : BOOLEAN],
           NEW s \in Signals, NEW row \in CaseRow \cup {NoCase},
           row.action # "observe" => row.status = "confirmed",
           cases' = [cases EXCEPT ![s] = row],
           NEW answers \in [Owners -> {"none", "open", "closed"}],
           \A u \in Owners : answers[u] = "open" => row.status \in {"open", "confirmed"},
           appeals' = [appeals EXCEPT ![s] = answers]
    PROVE  SecurityInv'
<1>1. /\ cases' \in [Signals -> CaseRow \cup {NoCase}] /\ cases'[s] = row
      /\ \A r \in Signals \ {s} : cases'[r] = cases[r]
  BY DEF SecurityInv, SecurityTypes
<1>2. /\ appeals' \in [Signals -> [Owners -> {"none", "open", "closed"}]]
      /\ appeals'[s] = answers
      /\ \A r \in Signals \ {s} : appeals'[r] = appeals[r]
  BY DEF SecurityInv, SecurityTypes
<1>3. SecurityTypes'
  BY <1>1, <1>2 DEF SecurityInv, SecurityTypes
<1>4. RestrictedByReview'
  BY <1>1 DEF SecurityInv, RestrictedByReview
<1>5. AppealsWait'
  BY <1>1, <1>2 DEF SecurityInv, AppealsWait
<1>6. \A d \in Downloads : Seeing(d)'
  BY SeeingKept DEF SecurityInv
<1>7. QED
  BY <1>3, <1>4, <1>5, <1>6 DEF SecurityInv

LEMMA CasesKept ==
    ASSUME SecurityInv, download' = download, Witness, policy' \in Policy,
           shop' \in [entitled : BOOLEAN, published : BOOLEAN, updates : BOOLEAN],
           UNCHANGED <<cases, appeals>>
    PROVE  SecurityInv'
<1>1. SecurityTypes' /\ RestrictedByReview' /\ AppealsWait'
  BY DEF SecurityInv, SecurityTypes, RestrictedByReview, AppealsWait
<1>2. \A d \in Downloads : Seeing(d)'
  BY SeeingKept DEF SecurityInv
<1>3. QED
  BY <1>1, <1>2 DEF SecurityInv

LEMMA RecordStep ==
    ASSUME SecurityInv, Witness, NEW s \in Signals, RecordSecurityCase(s)
    PROVE  SecurityInv'
<1> DEFINE row == CountedUp(s)
<1>1. cases[s] \in CaseRow \cup {NoCase}
  BY DEF SecurityInv, SecurityTypes
<1>2. /\ row \in CaseRow
      /\ row.action # "observe" => row.status = "confirmed"
      /\ cases[s].status \in {"open", "confirmed"} => row.status \in {"open", "confirmed"}
  <2>1. CASE cases[s] = NoCase
    BY <2>1 DEF CountedUp, CaseRow, Actions, NoCase
  <2>2. CASE cases[s] # NoCase
    BY <1>1, <2>2 DEF CountedUp, CaseRow, SecurityInv, RestrictedByReview
  <2>3. QED
    BY <2>1, <2>2
<1> HIDE DEF row
<1>3. /\ appeals[s] \in [Owners -> {"none", "open", "closed"}]
      /\ appeals' = [appeals EXCEPT ![s] = appeals[s]]
      /\ \A u \in Owners :
           appeals[s][u] = "open" => cases[s].status \in {"open", "confirmed"}
  BY DEF RecordSecurityCase, SecurityInv, SecurityTypes, AppealsWait
<1>4. /\ cases' = [cases EXCEPT ![s] = row] /\ download' = download
      /\ policy' \in Policy
      /\ shop' \in [entitled : BOOLEAN, published : BOOLEAN, updates : BOOLEAN]
  BY DEF RecordSecurityCase, SecurityInv, SecurityTypes, row
<1>5. QED
  BY <1>2, <1>3, <1>4, CaseStep

LEMMA ReviewStep ==
    ASSUME SecurityInv, Witness, NEW s \in Signals,
           NEW status \in {"confirmed", "resolved"},
           NEW decided \in Actions, status = "resolved" => decided = "observe",
           cases[s] # NoCase,
           cases' = [cases EXCEPT ![s].status = status, ![s].action = decided],
           appeals' = CloseAppeals(s, status),
           UNCHANGED <<policy, shop, download>>
    PROVE  SecurityInv'
<1> DEFINE row == [cases[s] EXCEPT !.status = status, !.action = decided]
           closed == [u \in Owners |-> IF appeals[s][u] = "open" THEN "closed"
                                       ELSE appeals[s][u]]
           answers == IF status = "resolved" THEN closed ELSE appeals[s]
<1>1. cases[s] \in CaseRow
  BY DEF SecurityInv, SecurityTypes
<1>2. row \in CaseRow /\ row.status = status /\ row.action = decided
  BY <1>1 DEF CaseRow
<1>3. cases' = [cases EXCEPT ![s] = row]
  BY DEF SecurityInv, SecurityTypes
<1>4. appeals[s] \in [Owners -> {"none", "open", "closed"}]
      /\ appeals \in [Signals -> [Owners -> {"none", "open", "closed"}]]
  BY DEF SecurityInv, SecurityTypes
<1>5. /\ closed \in [Owners -> {"none", "open", "closed"}]
      /\ \A u \in Owners : closed[u] # "open"
  BY <1>4
<1>6. appeals' = [appeals EXCEPT ![s] = answers]
  BY <1>4 DEF CloseAppeals
<1> HIDE DEF row, closed
<1>7. /\ answers \in [Owners -> {"none", "open", "closed"}]
      /\ \A u \in Owners : answers[u] = "open" => row.status \in {"open", "confirmed"}
  <2>1. CASE status = "resolved"
    BY <1>5, <2>1
  <2>2. CASE status = "confirmed"
    BY <1>2, <1>4, <2>2
  <2>3. QED
    BY <2>1, <2>2
<1> HIDE DEF answers
<1>8. /\ policy' \in Policy
      /\ shop' \in [entitled : BOOLEAN, published : BOOLEAN, updates : BOOLEAN]
  BY DEF SecurityInv, SecurityTypes
<1>9. /\ row.action # "observe" => row.status = "confirmed"
      /\ row \in CaseRow \cup {NoCase} /\ download' = download
  BY <1>2
<1>10. QED
  BY <1>6, <1>7, <1>8, <1>9, <1>3, CaseStep

LEMMA AppealStep ==
    ASSUME SecurityInv, Witness, NEW s \in Signals, NEW u \in Owners,
           AppealSecurityCase(u, s)
    PROVE  SecurityInv'
<1> DEFINE answers == [appeals[s] EXCEPT ![u] = IF @ = "none" THEN "open" ELSE @]
<1>1. /\ cases[s] \in CaseRow /\ cases[s].status \in {"open", "confirmed"}
      /\ appeals[s] \in [Owners -> {"none", "open", "closed"}]
  BY DEF AppealSecurityCase, SecurityInv, SecurityTypes, CaseRow
<1>2. answers \in [Owners -> {"none", "open", "closed"}]
  BY <1>1
<1>3. appeals' = [appeals EXCEPT ![s] = answers]
  BY DEF AppealSecurityCase
<1> HIDE DEF answers
<1>4. /\ cases' = [cases EXCEPT ![s] = cases[s]] /\ download' = download
      /\ policy' \in Policy
      /\ shop' \in [entitled : BOOLEAN, published : BOOLEAN, updates : BOOLEAN]
      /\ cases[s].action # "observe" => cases[s].status = "confirmed"
  BY DEF AppealSecurityCase, SecurityInv, SecurityTypes, RestrictedByReview
<1>5. QED
  BY <1>1, <1>2, <1>3, <1>4, CaseStep

\* A step of one download; the licence, the release and the cases stay.
LEMMA DownloadStep ==
    ASSUME SecurityInv, Witness, Unmoved, NEW d \in Downloads, NEW at,
           Goes(d, at),
           at \in PastRights => download[d] \in PastRights \/ shop.entitled,
           at \in PastRelease => download[d] \in PastRelease \/ shop.published,
           at \in PastSettings => download[d] \in PastSettings \/ shop.updates,
           at = "handed" => SecurityAction = "observe"
    PROVE  SecurityInv'
<1>1. /\ DOMAIN download' = Downloads /\ download'[d] = at
      /\ \A e \in Downloads \ {d} : download'[e] = download[e]
  BY DEF Goes, SecurityInv, SecurityTypes
<1>2. /\ UNCHANGED <<policy, cases, appeals, shop>>
      /\ RightsNow' = RightsNow
  BY DEF Unmoved, RightsNow, SecurityAction, Restricting, ActiveCases
<1>3. SecurityTypes' /\ RestrictedByReview' /\ AppealsWait'
  BY <1>1, <1>2
     DEF SecurityInv, SecurityTypes, RestrictedByReview, AppealsWait
<1>4. Seeing(d)'
  <2>1. CASE at \in {"none", "hashing"}
    <3>1. witnessed'[d] = {}
      BY <1>1, <2>1, WitnessStep
    <3>2. QED
      BY <1>1, <2>1, <3>1 DEF Seeing, PastRights, PastRelease, PastSettings
  <2>2. CASE at \notin {"none", "hashing"}
    <3>1. witnessed'[d] = witnessed[d] \cup RightsNow
      BY <1>1, <1>2, <2>2, WitnessStep
    <3>2. /\ shop.entitled => "entitled" \in RightsNow
          /\ shop.published => "published" \in RightsNow
          /\ shop.updates => "updates" \in RightsNow
          /\ SecurityAction = "observe" => "unrestricted" \in RightsNow
      BY DEF RightsNow
    <3>3. Seeing(d)
      BY DEF SecurityInv
    <3>4. witnessed'[d] \subseteq {"entitled", "published", "updates", "unrestricted"}
      BY <3>1, <3>3, RightsRange DEF Seeing
    <3>5. /\ at \in PastRights => "entitled" \in witnessed'[d]
          /\ at \in PastRelease => "published" \in witnessed'[d]
          /\ at \in PastSettings => "updates" \in witnessed'[d]
          /\ at = "handed" => "unrestricted" \in witnessed'[d]
      BY <3>1, <3>2, <3>3 DEF Seeing
    <3>6. QED
      BY <1>1, <3>4, <3>5 DEF Seeing
  <2>3. QED
    BY <2>1, <2>2
<1>5. \A e \in Downloads \ {d} : Seeing(e)'
  BY <1>1, SeeingKept DEF SecurityInv
<1>6. QED
  BY <1>3, <1>4, <1>5 DEF SecurityInv

LEMMA ObserveCases ==
    ASSUME NoneRestricts \/ ~policy.enabled
    PROVE  SecurityAction = "observe"
BY DEF NoneRestricts, SecurityAction

LEMMA DownloadSteps ==
    ASSUME SecurityInv, Witness, NEW d \in Downloads,
           \/ AuthorizeRelease(d) \/ OpenRelease(d) \/ CheckRights(d)
           \/ CheckPolicy(d) \/ CheckCases(d) \/ CheckRelease(d) \/ Close(d)
    PROVE  SecurityInv'
<1> USE DEF PastRights, PastRelease, PastSettings
<1>1. CASE AuthorizeRelease(d) \/ OpenRelease(d) \/ Close(d)
  <2>1. PICK at \in {"none", "hashing", "rights"} : Goes(d, at) /\ Unmoved
    BY <1>1 DEF AuthorizeRelease, OpenRelease, Close
  <2>2. QED
    BY <2>1, DownloadStep
<1>2. CASE CheckRights(d)
  <2>1. PICK at \in {"policy", "lastPolicy", "refused"} :
          /\ Goes(d, at) /\ Unmoved
          /\ at = "policy" => shop.entitled
          /\ at = "lastPolicy" => download[d] = "again"
    BY <1>2 DEF CheckRights, Check
  <2>2. QED
    BY <2>1, DownloadStep
<1>3. CASE CheckPolicy(d)
  <2>1. PICK at \in {"cases", "release", "lastCases", "handed"} :
          /\ Goes(d, at) /\ Unmoved
          /\ at \in {"cases", "release"} => download[d] = "policy"
          /\ at \in {"lastCases", "handed"} => download[d] = "lastPolicy"
          /\ at = "handed" => ~policy.enabled
    BY <1>3 DEF CheckPolicy, Check
  <2>2. QED
    BY <2>1, DownloadStep, ObserveCases
<1>4. CASE CheckCases(d)
  <2>1. PICK at \in {"release", "handed", "refused"} :
          /\ Goes(d, at) /\ Unmoved
          /\ at = "release" => download[d] = "cases"
          /\ at = "handed" => download[d] = "lastCases" /\ NoneRestricts
    BY <1>4 DEF CheckCases, Check
  <2>2. QED
    BY <2>1, DownloadStep, ObserveCases
<1>5. CASE CheckRelease(d)
  <2>1. PICK at \in {"settings", "again", "refused"} :
          /\ Goes(d, at) /\ Unmoved
          /\ at = "settings" => download[d] = "release" /\ shop.published
          /\ at = "again" => download[d] = "settings" /\ shop.updates
    BY <1>5 DEF CheckRelease, Check, ReleasePublished
  <2>2. QED
    BY <2>1, DownloadStep
<1>6. QED
  BY <1>1, <1>2, <1>3, <1>4, <1>5

\* What a review decides: without an action the policy's.
LEMMA ReviewSteps ==
    ASSUME SecurityInv, Witness, NEW s \in Signals,
           \/ \E action \in Actions \cup {""} :
                ReviewSecurityCase(s, "confirmed", action)
           \/ ReviewSecurityCase(s, "resolved", "")
    PROVE  SecurityInv'
<1>1. policy.action \in Actions /\ "observe" \in Actions
  BY DEF SecurityInv, SecurityTypes, Policy, Actions
<1>2. CASE ReviewSecurityCase(s, "resolved", "")
  <2>1. /\ cases[s] # NoCase
        /\ cases' = [cases EXCEPT ![s].status = "resolved",
                                  ![s].action = "observe"]
        /\ appeals' = CloseAppeals(s, "resolved")
        /\ UNCHANGED <<policy, shop, download>>
    BY <1>2 DEF ReviewSecurityCase
  <2>2. QED
    BY <1>1, <2>1, ReviewStep
<1>3. ASSUME NEW action \in Actions \cup {""},
             ReviewSecurityCase(s, "confirmed", action)
      PROVE  SecurityInv'
  <2>1. PICK decided \in Actions :
          cases' = [cases EXCEPT ![s].status = "confirmed", ![s].action = decided]
    BY <1>1, <1>3 DEF ReviewSecurityCase
  <2>2. QED
    BY <1>3, <2>1, ReviewStep DEF ReviewSecurityCase
<1>4. QED
  BY <1>2, <1>3

LEMMA ShopType ==
    ASSUME SecurityInv, NEW thing \in {"entitled", "published", "updates"},
           ChangeShop(thing)
    PROVE  shop' \in [entitled : BOOLEAN, published : BOOLEAN, updates : BOOLEAN]
BY DEF ChangeShop, SecurityInv, SecurityTypes

LEMMA SecurityStepInv ==
    ASSUME SecurityInv, [SecurityNext]_securityVars
    PROVE  SecurityInv'
<1>1. CASE UNCHANGED securityVars
  <2>1. \A d \in Downloads : Seeing(d)'
    BY <1>1 DEF securityVars, SecurityInv, Seeing
  <2>2. SecurityTypes' /\ RestrictedByReview' /\ AppealsWait'
    BY <1>1 DEF securityVars, SecurityInv, SecurityTypes,
                RestrictedByReview, AppealsWait
  <2>3. QED
    BY <2>1, <2>2 DEF SecurityInv
<1>2. CASE SecurityStep /\ Witness
  <2>1. /\ policy \in Policy
        /\ shop \in [entitled : BOOLEAN, published : BOOLEAN, updates : BOOLEAN]
    BY DEF SecurityInv, SecurityTypes
  <2>2. CASE \E p \in Policy : SetSecurityPolicy(p)
    BY <1>2, <2>1, <2>2, CasesKept DEF SetSecurityPolicy
  <2>3. ASSUME NEW s \in Signals, NoticeSignal(s)
        PROVE  SecurityInv'
    BY <1>2, <2>1, <2>3, CasesKept DEF NoticeSignal
  <2>4. CASE \E u \in Owners : AssignOwner(u)
    BY <1>2, <2>1, <2>4, CasesKept DEF AssignOwner
  <2>5. ASSUME NEW thing \in {"entitled", "published", "updates"},
               ChangeShop(thing)
        PROVE  SecurityInv'
    BY <1>2, <2>1, <2>5, CasesKept, ShopType DEF ChangeShop
  <2>6. QED
    BY <1>2, <2>2, <2>3, <2>4, <2>5, RecordStep, ReviewSteps, AppealStep,
       DownloadSteps DEF SecurityStep
<1>3. QED
  BY <1>1, <1>2 DEF SecurityNext

LEMMA SecurityInitInv == ASSUME SecurityInit PROVE SecurityInv
<1>1. SecurityTypes
  BY DEF SecurityInit, SecurityTypes, Policy, Actions
<1>2. RestrictedByReview /\ AppealsWait
  BY DEF SecurityInit, RestrictedByReview, AppealsWait, NoCase
<1>3. \A d \in Downloads : Seeing(d)
  BY DEF SecurityInit, Seeing, PastRights, PastRelease, PastSettings
<1>4. QED
  BY <1>1, <1>2, <1>3 DEF SecurityInv

\* Only reviews restrict, appeals wait for them, and a package is handed out
\* under rights that have been there since it was read.
THEOREM SecuritySoundHolds == SecuritySpec => []SecuritySound
<1>1. SecurityInit => SecurityInv
  BY SecurityInitInv
<1>2. SecurityInv /\ [SecurityNext]_securityVars => SecurityInv'
  BY SecurityStepInv
<1>3. ASSUME SecurityInv
      PROVE  HandedLawfully
  BY <1>3 DEF SecurityInv, Seeing, HandedLawfully, PastRights, PastRelease,
              PastSettings
<1>4. SecurityInv => SecuritySound
  BY <1>3 DEF SecurityInv, SecuritySound
<1>5. QED
  BY <1>1, <1>2, <1>4, PTL DEF SecuritySpec

-----------------------------------------------------------------------------
(* Manifests *)

LicenceRow ==
    [usable : BOOLEAN, blocked : BOOLEAN, enabled : BOOLEAN, active : BOOLEAN,
     updates : Int, expires : Int, lease : Int]

\* A manifest that still holds was given under statuses that are still there,
\* and ends before the update term, the term of use and the lease.
Covered(m) ==
    minute < m.until /\ ~m.withdrawn =>
      /\ licence.usable /\ ~licence.blocked /\ licence.enabled
      /\ licence.active
      /\ m.until <= licence.updates
      /\ m.until <= licence.expires
      /\ licence.lease = NoLease \/ m.until <= licence.lease

ManifestRow(m) ==
    /\ DOMAIN m = {"build", "until", "withdrawn"}
    /\ m.until \in Int
    /\ m.withdrawn \in BOOLEAN

UpdatesInv ==
    /\ minute \in Nat
    /\ licence \in LicenceRow
    /\ \A m \in manifests : ManifestRow(m) /\ Covered(m)

LEMMA UpdatesInitInv == ASSUME UpdatesAssumption, UpdInit PROVE UpdatesInv
<1>1. minute \in Nat
  BY DEF UpdInit
<1>2. MaxUpdateClock \in Int /\ NoLease \in Int
  BY DEF UpdatesAssumption, NoLease
<1>3. licence \in [usable : {TRUE}, blocked : {FALSE}, enabled : {TRUE},
                   active : {TRUE}, updates : {MaxUpdateClock},
                   expires : {MaxUpdateClock}, lease : {NoLease, 1}]
  BY DEF UpdInit
<1>4. licence \in LicenceRow
  <2>1. /\ licence.usable \in BOOLEAN /\ licence.blocked \in BOOLEAN
        /\ licence.enabled \in BOOLEAN /\ licence.active \in BOOLEAN
    BY <1>3
  <2>2. licence.updates \in Int /\ licence.expires \in Int
    BY <1>2, <1>3
  <2>3. licence.lease \in Int
    BY <1>2, <1>3
  <2>4. licence = [usable |-> licence.usable, blocked |-> licence.blocked,
                   enabled |-> licence.enabled, active |-> licence.active,
                   updates |-> licence.updates,
                   expires |-> licence.expires, lease |-> licence.lease]
    BY <1>3
  <2>5. QED
    BY <2>1, <2>2, <2>3, <2>4 DEF LicenceRow
<1>5. manifests = {}
  BY DEF UpdInit
<1>6. QED
  BY <1>1, <1>4, <1>5 DEF UpdatesInv

LEMMA UntilBound ==
    ASSUME UpdatesAssumption, UpdatesInv
    PROVE  /\ Until \in Int
           /\ Until <= licence.updates /\ Until <= licence.expires
           /\ licence.lease = NoLease \/ Until <= licence.lease
<1> DEFINE term == Earlier(minute + ManifestTTL,
                           Earlier(licence.updates, licence.expires))
<1>1. /\ minute + ManifestTTL \in Int /\ licence.updates \in Int
      /\ licence.expires \in Int /\ licence.lease \in Int
  BY DEF UpdatesInv, LicenceRow, UpdatesAssumption
<1>2. /\ term \in Int
      /\ term <= licence.updates /\ term <= licence.expires
  BY <1>1 DEF Earlier
<1>3. Until = IF licence.lease = NoLease THEN term
              ELSE Earlier(term, licence.lease)
  BY DEF Until
<1> HIDE DEF term
<1>4. QED
  BY <1>1, <1>2, <1>3 DEF Earlier

\* A manifest is given to who may have it.
LEMMA GiveStep ==
    ASSUME UpdatesAssumption, UpdatesInv, NEW r, Give(r),
           CheckUpdateLicense(minute), UNCHANGED <<minute, licence>>
    PROVE  UpdatesInv'
<1> DEFINE new == [build |-> r, until |-> Until, withdrawn |-> FALSE]
<1>1. manifests' = manifests \cup {new}
  BY DEF Give
<1>2. new.until = Until /\ ManifestRow(new)
  BY UntilBound DEF ManifestRow
<1> HIDE DEF new
<1>3. /\ licence.usable /\ ~licence.blocked /\ licence.enabled
      /\ licence.active
  BY DEF CheckUpdateLicense
<1>4. Covered(new)
  BY <1>2, <1>3, UntilBound DEF Covered
<1>5. \A m \in manifests' : ManifestRow(m) /\ Covered(m)
  BY <1>1, <1>2, <1>4 DEF UpdatesInv
<1>6. \A m \in manifests' : Covered(m)'
  BY <1>5 DEF Covered
<1>7. QED
  BY <1>5, <1>6 DEF UpdatesInv

\* A change of the licence marks what it takes the right from.
LEMMA MarkStep ==
    ASSUME UpdatesInv, NEW right \in BOOLEAN, manifests' = Mark(right),
           minute' = minute, licence' \in LicenceRow,
           \A m \in manifests :
             right /\ minute < m.until /\ ~m.withdrawn =>
               /\ licence'.usable /\ ~licence'.blocked /\ licence'.enabled
               /\ licence'.active
               /\ m.until <= licence'.updates
               /\ m.until <= licence'.expires
               /\ licence'.lease = NoLease \/ m.until <= licence'.lease
    PROVE  UpdatesInv'
<1>1. ASSUME NEW m \in manifests'
      PROVE  ManifestRow(m) /\ Covered(m)'
  <2>1. PICK n \in manifests : m = [n EXCEPT !.withdrawn = @ \/ ~right]
    BY DEF Mark
  <2>2. /\ ManifestRow(n)
        /\ DOMAIN m = DOMAIN n /\ m.until = n.until
        /\ m.withdrawn = (n.withdrawn \/ ~right)
    BY <2>1 DEF UpdatesInv, ManifestRow
  <2>3. ManifestRow(m)
    BY <2>2 DEF ManifestRow
  <2>4. Covered(m)'
    BY <2>2 DEF Covered
  <2>5. QED
    BY <2>3, <2>4
<1>2. QED
  BY <1>1 DEF UpdatesInv

LEMMA LicenceSteps ==
    ASSUME UpdatesAssumption, UpdatesInv,
           \/ \E field \in {"usable", "blocked", "enabled", "active"} :
                ChangeRight(field)
           \/ \E field \in {"updates", "expires"}, until \in 0..MaxUpdateClock :
                ChangeTerm(field, until)
           \/ \E seconds \in 1..2 : ExtendUpdateLease(seconds)
    PROVE  UpdatesInv'
<1>1. ASSUME NEW field \in {"usable", "blocked", "enabled", "active"},
             ChangeRight(field)
      PROVE  UpdatesInv'
  <2>1. /\ licence' \in LicenceRow /\ minute' = minute
        /\ licence'.updates = licence.updates
        /\ licence'.expires = licence.expires
        /\ licence'.lease = licence.lease
    BY <1>1 DEF ChangeRight, UpdatesInv, LicenceRow
  <2> DEFINE right == CheckUpdateLicense(minute)'
  <2>2. manifests' = Mark(right)
    BY <1>1 DEF ChangeRight
  <2>3. right \in BOOLEAN
    BY DEF CheckUpdateLicense
  <2>4. right => /\ licence'.usable /\ ~licence'.blocked
                 /\ licence'.enabled /\ licence'.active
    BY DEF CheckUpdateLicense
  <2>5. \A m \in manifests : Covered(m)
    BY DEF UpdatesInv
  <2> HIDE DEF right
  <2>6. QED
    BY <2>1, <2>2, <2>3, <2>4, <2>5, MarkStep DEF Covered
<1>2. ASSUME NEW field \in {"updates", "expires"},
             NEW until \in 0..MaxUpdateClock, ChangeTerm(field, until)
      PROVE  UpdatesInv'
  <2>1. /\ licence' = [licence EXCEPT ![field] = until] /\ minute' = minute
        /\ manifests' = Mark(until >= licence[field])
    BY <1>2 DEF ChangeTerm
  <2>2. /\ licence' \in LicenceRow
        /\ licence'.usable = licence.usable
        /\ licence'.blocked = licence.blocked
        /\ licence'.enabled = licence.enabled
        /\ licence'.active = licence.active
        /\ licence'.lease = licence.lease
        /\ until >= licence[field] =>
             /\ licence'.updates >= licence.updates
             /\ licence'.expires >= licence.expires
    BY <2>1 DEF UpdatesInv, LicenceRow
  <2>3. \A m \in manifests : Covered(m) /\ m.until \in Int
    BY DEF UpdatesInv, ManifestRow
  <2> DEFINE right == until >= licence[field]
  <2>4. right \in BOOLEAN /\ manifests' = Mark(right)
    BY <2>1
  <2>5. ASSUME NEW m \in manifests, right, minute < m.until, ~m.withdrawn
        PROVE  /\ licence'.usable /\ ~licence'.blocked /\ licence'.enabled
               /\ licence'.active
               /\ m.until <= licence'.updates
               /\ m.until <= licence'.expires
               /\ licence'.lease = NoLease \/ m.until <= licence'.lease
    BY <2>2, <2>3, <2>5 DEF Covered, UpdatesInv, LicenceRow
  <2> HIDE DEF right
  <2>6. QED
    BY <2>1, <2>2, <2>4, <2>5, MarkStep
<1>3. ASSUME NEW seconds \in 1..2, ExtendUpdateLease(seconds)
      PROVE  UpdatesInv'
  <2> DEFINE until == Earlier(minute + seconds, licence.expires)
  <2>1. /\ licence' = [licence EXCEPT !.lease = until] /\ minute' = minute
        /\ manifests' = Mark(until >= licence.lease)
        /\ licence.lease # NoLease
    BY <1>3 DEF ExtendUpdateLease
  <2>2. until \in Int
    BY DEF Earlier, UpdatesInv, LicenceRow
  <2> HIDE DEF until
  <2>3. /\ licence' \in LicenceRow /\ licence'.lease = until
        /\ licence'.usable = licence.usable
        /\ licence'.blocked = licence.blocked
        /\ licence'.enabled = licence.enabled
        /\ licence'.active = licence.active
        /\ licence'.updates = licence.updates
        /\ licence'.expires = licence.expires
    BY <2>1, <2>2 DEF UpdatesInv, LicenceRow
  <2>4. \A m \in manifests : Covered(m) /\ m.until \in Int
    BY DEF UpdatesInv, ManifestRow
  <2> DEFINE right == until >= licence.lease
  <2>5. right \in BOOLEAN /\ manifests' = Mark(right)
    BY <2>1
  <2>6. ASSUME NEW m \in manifests, right, minute < m.until, ~m.withdrawn
        PROVE  /\ licence'.usable /\ ~licence'.blocked /\ licence'.enabled
               /\ licence'.active
               /\ m.until <= licence'.updates
               /\ m.until <= licence'.expires
               /\ licence'.lease = NoLease \/ m.until <= licence'.lease
    BY <2>1, <2>2, <2>3, <2>4, <2>6 DEF Covered, UpdatesInv, LicenceRow
  <2> HIDE DEF right
  <2>7. QED
    BY <2>1, <2>3, <2>5, <2>6, MarkStep
<1>4. QED
  BY <1>1, <1>2, <1>3

\* Requests that give nothing, releases, and the clock.
LEMMA NothingGiven ==
    ASSUME UpdatesInv, UNCHANGED <<licence, manifests>>,
           minute' \in Nat, minute' >= minute
    PROVE  UpdatesInv'
<1>1. \A m \in manifests' : ManifestRow(m) /\ Covered(m)'
  BY DEF UpdatesInv, Covered, ManifestRow
<1>2. QED
  BY <1>1 DEF UpdatesInv

LEMMA UpdatesStepInv ==
    ASSUME UpdatesAssumption, UpdatesInv, [UpdNext]_updVars
    PROVE  UpdatesInv'
<1>1. minute \in Nat
  BY DEF UpdatesInv
<1>2. ASSUME NEW order, NEW current, NEW only, CheckUpdate(order, current, only)
      PROVE  UpdatesInv'
  BY <1>2, GiveStep DEF CheckUpdate
<1>3. ASSUME NEW order, NEW current, NEW r, DownloadUpdate(order, current, r)
      PROVE  UpdatesInv'
  BY <1>1, <1>3, NothingGiven DEF DownloadUpdate
<1>4. CASE Hashed
  BY <1>1, <1>4, GiveStep, NothingGiven DEF Hashed
<1>5. CASE HashFails \/ \E r \in Builds : ChangeBuild(r)
  BY <1>1, <1>5, NothingGiven DEF HashFails, ChangeBuild
<1>6. CASE MinutePasses
  BY <1>1, <1>6, NothingGiven DEF MinutePasses
<1>7. CASE UNCHANGED updVars
  BY <1>1, <1>7, NothingGiven DEF updVars
<1>8. QED
  BY <1>2, <1>3, <1>4, <1>5, <1>6, <1>7, LicenceSteps DEF UpdNext

\* A manifest that still holds was issued for a right that still holds, unless
\* somebody has taken the right back since.
THEOREM ManifestEarnedHolds == UpdSpec => []ManifestEarned
<1>1. UpdInit => UpdatesInv
  BY UpdatesInitInv, UpdatesAssumption
<1>2. UpdatesInv /\ [UpdNext]_updVars => UpdatesInv'
  BY UpdatesStepInv, UpdatesAssumption
<1>3. ASSUME UpdatesInv, NEW m \in manifests, minute < m.until, ~m.withdrawn
      PROVE  CheckUpdateLicense(minute)
  BY <1>3 DEF UpdatesInv, Covered, ManifestRow, CheckUpdateLicense, LicenceRow
<1>4. UpdatesInv => ManifestEarned
  BY <1>3 DEF ManifestEarned
<1>5. QED
  BY <1>1, <1>2, <1>4, PTL DEF UpdSpec

-----------------------------------------------------------------------------
(* The choice of a release *)

\* What Choose is the last value of: the best of the first n releases that fit.
BestStep(order, current, only, f, n) ==
    IF n = 0 THEN None
    ELSE IF Fits(order[n], current, only) THEN Prefer(f[n - 1], order[n])
    ELSE f[n - 1]
Bests(order, current, only, m, f) ==
    f = [n \in 0 .. m |-> BestStep(order, current, only, f, n)]

\* The function that Choose defines by recursion exists for every list.
LEMMA BestsExist ==
    ASSUME NEW order, NEW current, NEW only, NEW n \in Nat
    PROVE  \E f : Bests(order, current, only, n, f)
<1> DEFINE B == {m \in 0 .. n : ~ \E f : Bests(order, current, only, m, f)}
<1>1. SUFFICES ASSUME B # {} PROVE FALSE
  OBVIOUS
<1>2. PICK m \in B : \A j \in B : m <= j
  <2>1. B \subseteq Nat
    OBVIOUS
  <2> HIDE DEF B
  <2>2. QED
    BY <1>1, <2>1, LeastNumber
<1>3. m \in 0 .. n /\ ~ \E f : Bests(order, current, only, m, f)
  BY <1>2
<1>4. CASE m = 0
  <2> DEFINE f == [i \in 0 .. m |-> None]
  <2>1. \A i \in 0 .. m : f[i] = BestStep(order, current, only, f, i)
    BY <1>4 DEF BestStep
  <2>2. f = [i \in 0 .. m |-> BestStep(order, current, only, f, i)]
    BY <2>1
  <2>3. QED
    BY <1>3, <2>2 DEF Bests
<1>5. CASE m # 0
  <2>1. m - 1 \in 0 .. n /\ m - 1 \notin B
    BY <1>2, <1>3, <1>5
  <2>2. PICK g : Bests(order, current, only, m - 1, g)
    BY <2>1
  <2>3. \A i \in 0 .. m - 1 : g[i] = BestStep(order, current, only, g, i)
    BY <2>2 DEF Bests
  <2> DEFINE f == [i \in 0 .. m |->
                     IF i = m THEN BestStep(order, current, only, g, m) ELSE g[i]]
  <2>4. \A i \in 0 .. m - 1 : f[i] = g[i]
    BY <1>3, <1>5
  <2>5. ASSUME NEW i \in 0 .. m PROVE f[i] = BestStep(order, current, only, f, i)
    <3>1. i # 0 => i - 1 \in 0 .. m - 1
      BY <1>3
    <3>2. i # 0 => f[i - 1] = g[i - 1]
      BY <2>4, <3>1
    <3>3. BestStep(order, current, only, f, i) = BestStep(order, current, only, g, i)
      <4> HIDE DEF f
      <4>1. QED
        BY <3>2 DEF BestStep
    <3>4. f[i] = BestStep(order, current, only, g, i)
      <4>1. CASE i = m
        BY <4>1
      <4>2. CASE i # m
        <5>1. i \in 0 .. m - 1
          BY <1>3, <4>2
        <5>2. QED
          BY <2>3, <2>4, <5>1
      <4>3. QED
        BY <4>1, <4>2
    <3>5. QED
      BY <3>3, <3>4
  <2>6. f = [i \in 0 .. m |-> BestStep(order, current, only, f, i)]
    BY <2>5
  <2>7. QED
    BY <1>3, <2>6 DEF Bests
<1>6. QED
  BY <1>4, <1>5

\* r is no better than b.
NoBetter(r, b) ==
    \/ r.version < b.version
    \/ r.version = b.version /\ r.specific <= b.specific

\* c is what the releases of the set S leave chosen.
BestOf(c, S) ==
    \/ S = {} /\ c = None
    \/ \E b \in S : c = [build |-> b, score |-> b.specific] /\ \A r \in S : NoBetter(r, b)

Numbered(r) == r.version \in Nat /\ r.specific \in Nat

\* One more release that fits.
LEMMA PreferBest ==
    ASSUME NEW S, NEW c, NEW r, BestOf(c, S), Numbered(r), \A x \in S : Numbered(x)
    PROVE  BestOf(Prefer(c, r), S \cup {r})
<1> DEFINE T == S \cup {r}
           p == [build |-> r, score |-> r.specific]
<1>1. NoBetter(r, r)
  BY DEF NoBetter, Numbered
<1>2. CASE S = {} /\ c = None
  <2>1. Prefer(c, r) = p
    BY <1>2 DEF Prefer
  <2>2. QED
    BY <1>1, <1>2, <2>1 DEF BestOf
<1>3. ASSUME NEW b \in S, c = [build |-> b, score |-> b.specific],
             \A x \in S : NoBetter(x, b)
      PROVE  BestOf(Prefer(c, r), T)
  <2>1. c.build = b /\ c.score = b.specific
    BY <1>3
  <2>2. Numbered(b)
    OBVIOUS
  <2>3. c # None
    <3>1. None.score = -1
      BY DEF None
    <3>2. QED
      BY <2>1, <2>2, <3>1 DEF Numbered
  <2>4. CASE r.version > b.version \/ (r.version = b.version /\ r.specific > b.specific)
    <3>1. Prefer(c, r) = p
      BY <2>1, <2>4 DEF Prefer
    <3>2. \A x \in S : NoBetter(x, r)
      BY <1>3, <2>2, <2>4 DEF NoBetter, Numbered
    <3>3. QED
      BY <1>1, <3>1, <3>2 DEF BestOf
  <2>5. CASE ~(r.version > b.version \/ (r.version = b.version /\ r.specific > b.specific))
    <3>1. Prefer(c, r) = c
      BY <2>1, <2>3, <2>5 DEF Prefer
    <3>2. NoBetter(r, b)
      BY <2>2, <2>5 DEF NoBetter, Numbered
    <3>3. QED
      BY <1>3, <3>1, <3>2 DEF BestOf
  <2>6. QED
    BY <2>4, <2>5
<1>4. QED
  BY <1>2, <1>3 DEF BestOf

\* The first n releases of a list that fit.
Fitting(order, current, only, n) ==
    {order[i] : i \in {j \in 1 .. n : Fits(order[j], current, only)}}

\* Choose leaves the best of the releases that fit, in whatever order they come.
LEMMA ChooseBest ==
    ASSUME NEW m \in Nat, NEW order \in [1 .. m -> Builds], NEW current, NEW only,
           \A r \in Builds : Numbered(r)
    PROVE  BestOf(Choose(order, current, only), Fitting(order, current, only, m))
<1> DEFINE f == CHOOSE g : Bests(order, current, only, m, g)
           F(n) == Fitting(order, current, only, n)
           B == {n \in 0 .. m : ~BestOf(f[n], F(n))}
<1>1. Len(order) = m
  OBVIOUS
<1>2. Choose(order, current, only) = f[m]
  BY <1>1 DEF Choose, Bests, BestStep
<1>3. Bests(order, current, only, m, f)
  BY BestsExist
<1>4. ASSUME NEW n \in 0 .. m PROVE f[n] = BestStep(order, current, only, f, n)
  <2> HIDE DEF f
  <2>1. QED
    BY <1>3 DEF Bests
<1> HIDE DEF f
<1>5. B = {}
  <2>1. SUFFICES ASSUME B # {} PROVE FALSE
    OBVIOUS
  <2>2. PICK n \in B : \A j \in B : n <= j
    <3>1. B \subseteq Nat
      OBVIOUS
    <3> HIDE DEF B
    <3>2. QED
      BY <2>1, <3>1, LeastNumber
  <2>3. n \in 0 .. m /\ ~BestOf(f[n], F(n))
    BY <2>2
  <2>4. CASE n = 0
    <3>1. f[n] = None
      BY <1>4, <2>3, <2>4 DEF BestStep
    <3>2. F(n) = {}
      BY <2>4 DEF Fitting
    <3>3. QED
      BY <2>3, <3>1, <3>2 DEF BestOf
  <2>5. CASE n # 0
    <3>1. n - 1 \in 0 .. m /\ n - 1 \notin B /\ n \in 1 .. m
      BY <2>2, <2>3, <2>5
    <3>2. BestOf(f[n - 1], F(n - 1))
      BY <3>1
    <3>3. order[n] \in Builds
      BY <3>1
    <3>4. CASE Fits(order[n], current, only)
      <4>1. f[n] = Prefer(f[n - 1], order[n])
        BY <1>4, <2>3, <2>5, <3>4 DEF BestStep
      <4>2. F(n) = F(n - 1) \cup {order[n]}
        <5>1. 1 .. n = (1 .. (n - 1)) \cup {n}
          BY <3>1
        <5>2. QED
          BY <3>4, <5>1 DEF Fitting
      <4>3. \A x \in F(n - 1) : Numbered(x)
        BY <3>1 DEF Fitting
      <4> HIDE DEF F
      <4>4. BestOf(Prefer(f[n - 1], order[n]), F(n - 1) \cup {order[n]})
        BY <3>2, <3>3, <4>3, PreferBest
      <4>5. QED
        BY <2>3, <4>1, <4>2, <4>4
    <3>5. CASE ~Fits(order[n], current, only)
      <4>1. f[n] = f[n - 1]
        BY <1>4, <2>3, <2>5, <3>5 DEF BestStep
      <4>2. F(n) = F(n - 1)
        <5>1. 1 .. n = (1 .. (n - 1)) \cup {n}
          BY <3>1
        <5>2. QED
          BY <3>5, <5>1 DEF Fitting
      <4>3. QED
        BY <2>3, <3>2, <4>1, <4>2
    <3>6. QED
      BY <3>4, <3>5
  <2>6. QED
    BY <2>4, <2>5
<1>6. QED
  BY <1>2, <1>5

\* A list of the rows has every row in it.
LEMMA ListedAll ==
    ASSUME NEW S, IsFiniteSet(S), NEW order \in SetToSeqs(S)
    PROVE  /\ Cardinality(S) \in Nat
           /\ order \in [1 .. Cardinality(S) -> S]
           /\ \A r \in S : \E i \in 1 .. Cardinality(S) : order[i] = r
<1> DEFINE n == Cardinality(S)
<1>1. n \in Nat
  BY FS_CardinalityType
<1>2. order \in [1 .. n -> S] /\ \A i, j \in 1 .. n : i # j => order[i] # order[j]
  BY DEF SetToSeqs
<1>3. order \in Injection(1 .. n, S)
  BY <1>2 DEF Injection, IsInjective
<1>4. Cardinality(1 .. n) = n
  BY <1>1, FS_Interval
<1>5. order \in Surjection(1 .. n, S)
  BY <1>3, <1>4, FS_Injection
<1>6. QED
  BY <1>1, <1>2, <1>5 DEF Surjection

\* What is published is among the builds.
LEMMA PublishedStep ==
    ASSUME published \subseteq Builds, [UpdNext]_updVars
    PROVE  published' \subseteq Builds
<1>1. CASE \E r \in Builds : ChangeBuild(r)
  BY <1>1 DEF ChangeBuild
<1>2. ASSUME NEW order, NEW current, NEW only,
             CheckUpdate(order, current, only)
      PROVE  published' = published
  BY <1>2 DEF CheckUpdate
<1>3. ASSUME NEW order, NEW current, NEW r, DownloadUpdate(order, current, r)
      PROVE  published' = published
  BY <1>3 DEF DownloadUpdate
<1>4. CASE Hashed \/ HashFails \/ MinutePasses \/ UNCHANGED updVars
  BY <1>4 DEF Hashed, HashFails, MinutePasses, updVars
<1>5. CASE \/ \E field \in {"usable", "blocked", "enabled", "active"} : ChangeRight(field)
           \/ \E field \in {"updates", "expires"}, until \in 0..MaxUpdateClock :
                ChangeTerm(field, until)
           \/ \E seconds \in 1..2 : ExtendUpdateLease(seconds)
  BY <1>5 DEF ChangeRight, ChangeTerm, ExtendUpdateLease
<1>6. QED
  BY <1>1, <1>2, <1>3, <1>4, <1>5 DEF UpdNext

\* The update that is offered is the newest that fits and of those the one for
\* the most specific target, whatever order the database returns the rows in.
THEOREM ChoiceBestHolds == UpdSpec => []ChoiceBest
<1>1. UpdInit => published \subseteq Builds
  BY DEF UpdInit
<1>2. published \subseteq Builds /\ [UpdNext]_updVars => (published \subseteq Builds)'
  BY PublishedStep
<1>3. ASSUME published \subseteq Builds PROVE ChoiceBest
  <2>1. SUFFICES ASSUME NEW order \in SetToSeqs(published), NEW current \in Named
                 PROVE  LET fitting == {r \in published : Fits(r, current, {})}
                            chosen == Choose(order, current, {})
                        IN  IF fitting = {} THEN chosen = None
                            ELSE /\ chosen.build \in fitting
                                 /\ \A r \in fitting :
                                      \/ r.version < chosen.build.version
                                      \/ /\ r.version = chosen.build.version
                                         /\ r.specific <= chosen.build.specific
    BY DEF ChoiceBest
  <2> DEFINE n == Cardinality(published)
             fitting == {r \in published : Fits(r, current, {})}
             chosen == Choose(order, current, {})
  <2>2. IsFiniteSet(published) /\ \A r \in Builds : Numbered(r)
    BY <1>3, UpdatesAssumption, FS_Subset DEF Numbered
  <2>3. /\ n \in Nat /\ order \in [1 .. n -> published]
        /\ \A r \in published : \E i \in 1 .. n : order[i] = r
    BY <2>2, ListedAll
  <2>4. fitting = Fitting(order, current, {}, n)
    BY <2>3 DEF Fitting
  <2>5. order \in [1 .. n -> Builds]
    BY <1>3, <2>3
  <2> HIDE DEF n, fitting, chosen
  <2>6. BestOf(chosen, fitting)
    BY <2>2, <2>3, <2>4, <2>5, ChooseBest DEF chosen
  <2>7. IF fitting = {} THEN chosen = None
        ELSE chosen.build \in fitting /\ \A r \in fitting : NoBetter(r, chosen.build)
    BY <2>6 DEF BestOf
  <2>8. QED
    BY <2>7 DEF fitting, chosen, NoBetter
<1>4. QED
  BY <1>1, <1>2, <1>3, PTL DEF UpdSpec

-----------------------------------------------------------------------------
(* Signed requests and what they use *)

USE RequestsAssumption DEF Nil, NoMessage

\* The last moment at which a message can still be admitted.
LastChance(m) == m.stamp + Window + MaxWait

\* A worker that waits to reserve has seen a timestamp that was acceptable.
StampChecked ==
    \A w \in Workers : pc[w] = "checked" =>
      /\ checked[w] <= now
      /\ checked[w] - msg[w].stamp <= Window
      /\ msg[w].stamp - checked[w] <= Window

\* The nonce of an admitted message is kept until nobody can replay it.
NonceKept ==
    \A m \in admitted :
      now <= LastChance(m) => expiry[m.nonce] >= LastChance(m)

ReqInv == TypeOK /\ StampChecked /\ NonceKept /\ ChargedOnce

LEMMA PeriodType == ASSUME now \in Nat, NEW b \in BOOLEAN
                    PROVE  Period(b) \in Nat
  BY DEF Period, Lifetime

LEMMA MessageType ==
    ASSUME NEW m \in Messages
    PROVE  /\ m # NoMessage
           /\ m.nonce \in Nonces /\ m.stamp \in Nat
           /\ m.key \in Keys /\ m.units \in Int
           /\ LastChance(m) \in Nat
  BY DEF LastChance

LEMMA ReqStart == Init => ReqInv
  BY DEF Init, ReqInv, TypeOK, StampChecked, NonceKept, ChargedOnce, License

LEMMA VerifyRequestKeeps ==
    ASSUME ReqInv, NEW w \in Workers, NEW m \in Messages,
           VerifyInstallationRequest(w, m)
    PROVE  ReqInv'
  <1> USE MessageType DEF ReqInv, VerifyInstallationRequest, usage
  <1>1. TypeOK'
    BY DEF TypeOK
  <1>2. StampChecked'
    BY DEF StampChecked, TypeOK
  <1>3. NonceKept' /\ ChargedOnce'
    BY DEF NonceKept, ChargedOnce, LastChance
  <1> QED
    BY <1>1, <1>2, <1>3

\* The nonce that is reserved now outlives the message's timestamp.
LEMMA ReservedLongEnough ==
    ASSUME ReqInv, NEW w \in Workers, Reserve(w)
    PROVE  /\ msg[w] \in Messages
           /\ now + NonceTTL >= LastChance(msg[w])
  <1> DEFINE m == msg[w]
  <1>1. pc[w] = "checked"
    BY DEF Reserve
  <1>2. m \in Messages /\ now \in Nat /\ checked[w] \in Nat
    BY <1>1 DEF ReqInv, TypeOK
  <1>3. checked[w] <= now /\ m.stamp - checked[w] <= Window
    BY <1>1 DEF ReqInv, StampChecked
  <1> QED
    BY <1>2, <1>3, MessageType DEF LastChance

\* A message that did not wait long and whose nonce is free has never been
\* admitted.
LEMMA NotYetAdmitted ==
    ASSUME ReqInv, NEW w \in Workers, Reserve(w), now - checked[w] <= MaxWait
    PROVE  msg[w] \notin admitted
  <1> DEFINE m == msg[w]
  <1>1. pc[w] = "checked" /\ expiry[m.nonce] = Nil
    BY DEF Reserve
  <1>2. m \in Messages /\ now \in Nat /\ checked[w] \in Nat
    BY <1>1 DEF ReqInv, TypeOK
  <1>3. checked[w] - m.stamp <= Window
    BY <1>1 DEF ReqInv, StampChecked
  <1>4. now <= LastChance(m)
    BY <1>2, <1>3, MessageType DEF LastChance
  <1>5. ~(expiry[m.nonce] >= LastChance(m))
    BY <1>1, <1>2, MessageType
  <1> QED
    BY <1>4, <1>5 DEF ReqInv, NonceKept

LEMMA ReserveNonceKeeps ==
    ASSUME ReqInv, NEW w \in Workers, Reserve(w)
    PROVE  ReqInv'
  <1> DEFINE m == msg[w]
  <1>1. PICK gone \in SUBSET Expired :
          expiry' = [n \in Nonces |->
                       IF n = m.nonce THEN now + NonceTTL
                       ELSE IF n \in gone THEN Nil ELSE expiry[n]]
    BY DEF Reserve
  <1>2. /\ pc' = [pc EXCEPT ![w] = "admitted"]
        /\ checked' = [checked EXCEPT ![w] = 0]
        /\ admitted' = admitted \cup {m}
        /\ UNCHANGED <<now, msg, lic, receipts>>
        /\ pc[w] = "checked"
    BY DEF Reserve, usage
  <1>3. /\ m \in Messages /\ now + NonceTTL >= LastChance(m)
        /\ m.nonce \in Nonces /\ now \in Nat /\ now + NonceTTL \in Nat
    BY ReservedLongEnough, MessageType DEF ReqInv, TypeOK
  <1>4. expiry' \in [Nonces -> Nat \cup {Nil}]
    BY <1>1, <1>3 DEF ReqInv, TypeOK
  <1>5. TypeOK'
    BY <1>2, <1>3, <1>4 DEF ReqInv, TypeOK
  <1>6. StampChecked'
    BY <1>2 DEF ReqInv, StampChecked, TypeOK
  <1>7. NonceKept'
    <2> SUFFICES ASSUME NEW x \in admitted', now <= LastChance(x)
                 PROVE  expiry'[x.nonce] >= LastChance(x)
      BY <1>2 DEF NonceKept, LastChance
    <2>1. x \in Messages
      BY <1>2, <1>3 DEF ReqInv, TypeOK
    <2>2. LastChance(x) \in Nat /\ x.nonce \in Nonces
      BY <2>1, MessageType
    <2>3. CASE x.nonce = m.nonce
      <3>1. CASE x = m
        BY <1>1, <1>3, <3>1
      <3>2. CASE x # m
        <4>1. expiry[x.nonce] >= LastChance(x)
          BY <1>2, <3>2 DEF ReqInv, NonceKept
        <4>2. expiry[x.nonce] = Nil
          BY <2>3 DEF Reserve
        <4> QED
          BY <2>2, <4>1, <4>2
      <3> QED
        BY <3>1, <3>2
    <2>4. CASE x.nonce # m.nonce
      <3>1. expiry[x.nonce] >= LastChance(x)
        BY <1>2, <2>4 DEF ReqInv, NonceKept
      <3>2. x.nonce \notin gone
        BY <1>3, <2>2, <3>1 DEF Expired, ReqInv, TypeOK
      <3> QED
        BY <1>1, <2>2, <2>4, <3>1, <3>2
    <2> QED
      BY <2>3, <2>4
  <1>8. ChargedOnce'
    BY <1>2 DEF ReqInv, ChargedOnce
  <1> QED
    BY <1>5, <1>6, <1>7, <1>8 DEF ReqInv

LEMMA IdleKeeps ==
    ASSUME TypeOK, StampChecked, NonceKept, NEW w \in Workers, Idle(w),
           lic' \in License, receipts' \subseteq Receipt
    PROVE  TypeOK' /\ StampChecked' /\ NonceKept'
  <1>1. TypeOK'
    BY DEF Idle, TypeOK
  <1>2. StampChecked'
    BY DEF Idle, StampChecked, TypeOK
  <1>3. NonceKept'
    BY DEF Idle, NonceKept, LastChance
  <1> QED
    BY <1>1, <1>2, <1>3

LEMMA ConsumeKeeps ==
    ASSUME ReqInv, NEW w \in Workers, Consume(w)
    PROVE  ReqInv'
  <1> DEFINE m == msg[w]
  <1>1. m \in Messages /\ m.key \in Keys /\ m.units \in Nat
    <2>1. m \in Messages /\ m.units > 0
      BY DEF Consume, ReqInv, TypeOK
    <2> QED
      BY <2>1, MessageType
  <1>2. CASE Charge(w)
    <2> DEFINE new == [key |-> m.key, units |-> m.units,
                       period |-> Period(lic.monthly)]
    <2>1. Period(lic.monthly) \in Nat /\ UsedNow \in Nat
      BY PeriodType DEF ReqInv, TypeOK, License, UsedNow
    <2>2. /\ lic' = [lic EXCEPT !.period = Period(lic.monthly),
                                !.used = UsedNow + m.units]
          /\ receipts' = receipts \cup {new}
          /\ ReceiptsOf(m) = {}
      BY <1>2 DEF Charge
    <2>3. lic' \in License
      <3>1. UsedNow + m.units \in Nat
        BY <1>1, <2>1
      <3>2. \A p \in Nat, u \in Nat :
              [lic EXCEPT !.period = p, !.used = u] \in License
        BY DEF ReqInv, TypeOK, License
      <3> QED
        BY <2>1, <2>2, <3>1, <3>2
    <2>4. new \in Receipt
      BY <1>1, <2>1 DEF Receipt
    <2>5. ChargedOnce'
      BY <2>2 DEF ReqInv, ChargedOnce, ReceiptsOf
    <2>6. receipts' \subseteq Receipt
      BY <2>2, <2>4 DEF ReqInv, TypeOK
    <2> QED
      BY <2>3, <2>5, <2>6, IdleKeeps DEF Consume, ReqInv
  <1>3. CASE Repeat(w)
    <2>1. UNCHANGED <<lic, receipts>>
      BY <1>3 DEF Repeat, usage
    <2>2. lic' \in License /\ receipts' \subseteq Receipt /\ ChargedOnce'
      BY <2>1 DEF ReqInv, TypeOK, ChargedOnce
    <2> QED
      BY <2>2, IdleKeeps DEF Consume, ReqInv
  <1> QED
    BY <1>2, <1>3 DEF Consume

LEMMA ReqSteps == ReqInv /\ [Next]_vars => ReqInv'
  <1> SUFFICES ASSUME ReqInv, [Next]_vars
               PROVE  ReqInv'
    OBVIOUS
  <1>1. CASE Tick
    <2>1. /\ now' = now + 1 /\ now \in Nat
          /\ UNCHANGED <<expiry, pc, msg, checked, lic, receipts, admitted>>
      BY <1>1 DEF Tick, worker, usage, ReqInv, TypeOK
    <2>2. TypeOK' /\ ChargedOnce'
      BY <2>1 DEF ReqInv, TypeOK, ChargedOnce
    <2>3. StampChecked'
      BY <2>1 DEF ReqInv, StampChecked, TypeOK
    <2>4. NonceKept'
      <3> SUFFICES ASSUME NEW m \in admitted, now + 1 <= LastChance(m)
                   PROVE  expiry[m.nonce] >= LastChance(m)
        BY <2>1 DEF NonceKept, LastChance
      <3>1. LastChance(m) \in Nat
        BY MessageType DEF ReqInv, TypeOK
      <3> QED
        BY <2>1, <3>1 DEF ReqInv, NonceKept
    <2> QED
      BY <2>2, <2>3, <2>4 DEF ReqInv
  <1>2. ASSUME NEW w \in Workers, NEW m \in Messages,
               VerifyInstallationRequest(w, m)
        PROVE  ReqInv'
    BY <1>2, VerifyRequestKeeps
  <1>3. ASSUME NEW w \in Workers, Reserve(w)
        PROVE  ReqInv'
    BY <1>3, ReserveNonceKeeps
  <1>4. ASSUME NEW w \in Workers, Consume(w)
        PROVE  ReqInv'
    BY <1>4, ConsumeKeeps
  <1>5. ASSUME NEW w \in Workers, Fail(w)
        PROVE  ReqInv'
    <2>1. lic' \in License /\ receipts' \subseteq Receipt /\ ChargedOnce'
      BY <1>5 DEF Fail, usage, ReqInv, TypeOK, ChargedOnce
    <2> QED
      BY <1>5, <2>1, IdleKeeps DEF Fail, ReqInv
  <1>6. CASE UNCHANGED vars
    BY <1>6
    DEF vars, worker, usage, ReqInv, TypeOK, StampChecked, NonceKept, LastChance,
        ChargedOnce
  <1> QED
    BY <1>1, <1>2, <1>3, <1>4, <1>5, <1>6 DEF Next

\* The inductive invariant of signed requests (authenticateInstallation, consume).
THEOREM RequestsInvariant == Spec => []ReqInv
  BY ReqStart, ReqSteps, PTL DEF Spec

\* Every column keeps its type; in particular the units used never become
\* negative.
THEOREM RequestTypes == Spec => []TypeOK
  BY RequestsInvariant, PTL DEF ReqInv

\* An idempotency key is charged at most once.
THEOREM ChargedOnceHolds == Spec => []ChargedOnce
  BY RequestsInvariant, PTL DEF ReqInv

LEMMA FreshStep == ReqInv /\ [Next]_vars => Fresh
  <1> SUFFICES ASSUME ReqInv, [Next]_vars, NEW w \in Workers,
                      pc[w] # "admitted", pc'[w] = "admitted",
                      now - checked[w] <= MaxWait
               PROVE  msg[w] \notin admitted
    BY DEF Fresh
  <1> USE DEF ReqInv, TypeOK
  <1>1. CASE Reserve(w)
    BY <1>1, NotYetAdmitted
  <1>2. ASSUME NEW v \in Workers, v # w, Reserve(v)
        PROVE  FALSE
    BY <1>2 DEF Reserve
  <1>3. ASSUME NEW v \in Workers, NEW m \in Messages,
               VerifyInstallationRequest(v, m)
        PROVE  FALSE
    BY <1>3 DEF VerifyInstallationRequest
  <1>4. ASSUME NEW v \in Workers, Consume(v) \/ Fail(v)
        PROVE  FALSE
    BY <1>4 DEF Consume, Fail, Idle
  <1>5. CASE Tick
    BY <1>5 DEF Tick, worker
  <1>6. CASE UNCHANGED vars
    BY <1>6 DEF vars, worker
  <1> QED
    BY <1>1, <1>2, <1>3, <1>4, <1>5, <1>6 DEF Next

\* No signed message is admitted again within MaxWait of the check of its
\* timestamp, since a nonce is kept for twice the window and MaxWait.
THEOREM AdmittedOnceHolds == Spec => AdmittedOnce
  BY RequestsInvariant, FreshStep, PTL DEF Spec, AdmittedOnce

\* The licence counts what the receipts of its period add up to, no receipt is
\* of a later period, and no period has more than the plan gives.
UsageInv ==
    /\ IsFiniteSet(receipts)
    /\ lic.period <= Period(lic.monthly)
    /\ lic.used = Charged(lic.period)
    /\ \A r \in receipts : r.period <= lic.period
    /\ \A p \in Nat : Charged(p) <= Quota

\* The receipts of a period.
In(p) == {r \in receipts : r.period = p}

\* The month never goes back.
LEMMA PeriodGrows ==
    ASSUME NEW b \in BOOLEAN, now \in Nat, now' = now + 1 \/ now' = now
    PROVE  Period(b)' >= Period(b)
<1>1. /\ now' \div MonthLength >= now \div MonthLength
      /\ now' \div MonthLength \in Int /\ now \div MonthLength \in Int
  OBVIOUS
<1>2. QED
  BY <1>1 DEF Period, Lifetime

\* A period without receipts has nothing charged.
LEMMA ChargedNothing ==
    ASSUME NEW p, In(p) = {}
    PROVE  Charged(p) = 0
<1> DEFINE f == [r \in In(p) |-> r.units]
<1>1. DOMAIN f = {}
  OBVIOUS
<1>2. SumFunction(f) = 0
  BY <1>1, SumEmpty DEF SumFunction
<1>3. QED
  BY <1>2 DEF Charged, In

\* What is charged is a number, and what a new receipt adds to it.
LEMMA ChargedType ==
    ASSUME ReqInv, UsageInv, NEW p
    PROVE  Charged(p) \in Nat
<1> DEFINE f == [r \in In(p) |-> r.units]
<1>1. DOMAIN f = In(p) /\ IsFiniteSet(In(p))
  BY FS_Subset DEF UsageInv, In
<1>2. \A r \in In(p) : f[r] \in Nat
  BY DEF ReqInv, TypeOK, Receipt, In
<1>3. SumFunction(f) \in Nat
  BY <1>1, <1>2, SumNat DEF SumFunction
<1>4. QED
  BY <1>3 DEF Charged, In

LEMMA ChargedGrows ==
    ASSUME ReqInv, UsageInv, NEW new \in Receipt, new \notin receipts,
           receipts' = receipts \cup {new}
    PROVE  /\ Charged(new.period)' = Charged(new.period) + new.units
           /\ \A p : p # new.period => Charged(p)' = Charged(p)
<1> DEFINE q == new.period
           f == [r \in In(q) |-> r.units]
           g == [r \in In(q) \cup {new} |-> r.units]
<1>1. In(q)' = In(q) \cup {new}
  BY DEF In
<1>2. DOMAIN f = In(q) /\ IsFiniteSet(In(q)) /\ new \notin In(q)
  BY FS_Subset DEF UsageInv, In
<1>3. \A r \in In(q) : f[r] \in Int /\ g[r] = f[r]
  BY DEF ReqInv, TypeOK, Receipt, In
<1>4. DOMAIN g = In(q) \cup {new} /\ g[new] = new.units /\ new.units \in Int
  BY DEF Receipt
<1>5. Charged(q) = SumFunction(f)
  BY DEF Charged, In
<1>6. Charged(q)' = SumFunction(g)
  <2>1. {r \in receipts' : r.period = q} = In(q) \cup {new}
    BY DEF In
  <2>2. QED
    BY <2>1 DEF Charged
<1>7. SumFunction(g) = SumFunction(f) + new.units
  <2> HIDE DEF f, g
  <2>1. QED
    BY <1>2, <1>3, <1>4, SumGrows
<1>8. ASSUME NEW p, p # q PROVE Charged(p)' = Charged(p)
  <2>1. {r \in receipts' : r.period = p} = {r \in receipts : r.period = p}
    BY <1>8
  <2>2. QED
    BY <2>1 DEF Charged
<1>9. QED
  BY <1>5, <1>6, <1>7, <1>8

\* The units a consumption starts from are those of the current period.
LEMMA UsedNowExact ==
    ASSUME ReqInv, UsageInv
    PROVE  UsedNow = Charged(Period(lic.monthly))
<1>1. /\ Period(lic.monthly) \in Nat /\ lic.monthly \in BOOLEAN
      /\ lic.period \in Nat \cup {Nil}
  BY PeriodType DEF ReqInv, TypeOK, License
<1>2. CASE lic.period = Period(lic.monthly)
  BY <1>2 DEF UsedNow, UsageInv
<1>3. CASE lic.period # Period(lic.monthly)
  <2>1. lic.period < Period(lic.monthly)
    BY <1>1, <1>3 DEF UsageInv
  <2>2. \A r \in receipts : r.period < Period(lic.monthly)
    BY <1>1, <2>1 DEF UsageInv, ReqInv, TypeOK, Receipt
  <2>3. In(Period(lic.monthly)) = {}
    BY <1>1, <2>2 DEF In, ReqInv, TypeOK, Receipt
  <2>4. QED
    BY <1>3, <2>3, ChargedNothing DEF UsedNow
<1>4. QED
  BY <1>2, <1>3

LEMMA ChargeUsage ==
    ASSUME ReqInv, UsageInv, NEW w \in Workers, Charge(w),
           msg[w] \in Messages, msg[w].units > 0, now' = now
    PROVE  UsageInv'
<1>0. PICK q : q = Period(lic.monthly)
  OBVIOUS
<1>n. PICK new : new = [key |-> msg[w].key, units |-> msg[w].units, period |-> q]
  OBVIOUS
<1>1. /\ q \in Nat /\ lic.period \in Nat \cup {Nil} /\ lic.monthly \in BOOLEAN
      /\ msg[w].units \in Nat /\ msg[w].key \in Keys
  BY <1>0, PeriodType, MessageType DEF ReqInv, TypeOK, License
<1>2. /\ receipts' = receipts \cup {new} /\ ReceiptsOf(msg[w]) = {}
      /\ msg[w].units <= Quota - UsedNow
      /\ lic' = [lic EXCEPT !.period = q, !.used = UsedNow + msg[w].units]
  BY <1>0, <1>n DEF Charge
<1>3. new \in Receipt /\ new \notin receipts
  BY <1>1, <1>2, <1>n DEF Receipt, ReceiptsOf
<1>4. /\ Charged(q)' = Charged(q) + msg[w].units
      /\ \A p : p # q => Charged(p)' = Charged(p)
  <2>1. new.period = q /\ new.units = msg[w].units
    BY <1>n
  <2>2. QED
    BY <1>2, <1>3, <2>1, ChargedGrows
<1>5. UsedNow = Charged(q) /\ Charged(q) \in Nat
  BY <1>0, UsedNowExact, ChargedType
<1>6. /\ lic'.period = q /\ lic'.monthly = lic.monthly
      /\ lic'.used = UsedNow + msg[w].units
  BY <1>2 DEF ReqInv, TypeOK, License
<1>7. Period(lic.monthly)' = q
  BY <1>0, <1>6 DEF Period, Lifetime
<1>8. IsFiniteSet(receipts')
  BY <1>2, FS_AddElement DEF UsageInv
<1>9. \A r \in receipts' : r.period <= q
  <2>1. \A r \in receipts : r.period <= q
    BY <1>0, <1>1 DEF UsageInv, ReqInv, TypeOK, Receipt
  <2>2. QED
    BY <1>1, <1>2, <1>n, <2>1
<1>10. \A p \in Nat : Charged(p)' <= Quota
  BY <1>1, <1>2, <1>4, <1>5 DEF UsageInv
<1>11. lic'.period <= q /\ lic'.used = Charged(q)'
  BY <1>0, <1>1, <1>4, <1>5, <1>6
<1>12. (Charged(lic.period))' = Charged(q)'
  BY <1>6 DEF Charged
<1>13. QED
  BY <1>6, <1>7, <1>8, <1>9, <1>10, <1>11, <1>12 DEF UsageInv

LEMMA UsageStays ==
    ASSUME ReqInv, UsageInv, UNCHANGED usage, now' = now + 1 \/ now' = now
    PROVE  UsageInv'
<1>1. /\ lic' = lic /\ receipts' = receipts /\ now \in Nat
      /\ lic.monthly \in BOOLEAN /\ lic.period \in Nat \cup {Nil}
  BY DEF usage, ReqInv, TypeOK, License
<1>2. /\ Period(lic.monthly) \in Nat
      /\ Period(lic.monthly)' >= Period(lic.monthly)
      /\ Period(lic.monthly)' \in Nat
  <2>1. \A b \in BOOLEAN : Period(b)' >= Period(b)
    BY <1>1, PeriodGrows
  <2>2. \A b \in BOOLEAN : Period(b) \in Nat /\ Period(b)' \in Nat
    BY <1>1 DEF Period, Lifetime
  <2>3. QED
    BY <1>1, <2>1, <2>2
<1>3. lic'.period <= Period(lic.monthly)'
  BY <1>1, <1>2 DEF UsageInv
<1>4. \A p : Charged(p)' = Charged(p)
  BY <1>1 DEF Charged
<1>5. QED
  BY <1>1, <1>3, <1>4 DEF UsageInv

LEMMA UsageStart == Init => UsageInv
<1> SUFFICES ASSUME Init PROVE UsageInv
  OBVIOUS
<1>1. /\ receipts = {} /\ lic.period = Nil /\ lic.used = 0 /\ now = 0
      /\ lic.monthly \in BOOLEAN
  BY DEF Init
<1>2. \A p : Charged(p) = 0
  BY <1>1, ChargedNothing DEF In
<1>3. Period(lic.monthly) \in Nat
  BY <1>1, PeriodType
<1>4. IsFiniteSet(receipts)
  BY <1>1, FS_EmptySet
<1>5. QED
  BY <1>1, <1>2, <1>3, <1>4 DEF UsageInv

LEMMA UsageStep == ReqInv /\ UsageInv /\ [Next]_vars => UsageInv'
<1> SUFFICES ASSUME ReqInv, UsageInv, [Next]_vars PROVE UsageInv'
  OBVIOUS
<1>1. CASE Tick
  BY <1>1, UsageStays DEF Tick
<1>2. ASSUME NEW w \in Workers, NEW m \in Messages,
             VerifyInstallationRequest(w, m)
      PROVE  UsageInv'
  BY <1>2, UsageStays DEF VerifyInstallationRequest
<1>3. ASSUME NEW w \in Workers, Reserve(w)
      PROVE  UsageInv'
  BY <1>3, UsageStays DEF Reserve
<1>4. ASSUME NEW w \in Workers, Consume(w)
      PROVE  UsageInv'
  <2>1. msg[w] \in Messages /\ msg[w].units > 0 /\ now' = now
    BY <1>4 DEF Consume, Idle, ReqInv, TypeOK
  <2>2. CASE Charge(w)
    BY <2>1, <2>2, ChargeUsage
  <2>3. CASE Repeat(w)
    BY <2>1, <2>3, UsageStays DEF Repeat
  <2>4. QED
    BY <1>4, <2>2, <2>3 DEF Consume
<1>5. ASSUME NEW w \in Workers, Fail(w)
      PROVE  UsageInv'
  BY <1>5, UsageStays DEF Fail, Idle
<1>6. CASE UNCHANGED vars
  BY <1>6, UsageStays DEF vars, usage
<1>7. QED
  BY <1>1, <1>2, <1>3, <1>4, <1>5, <1>6 DEF Next

\* The inductive invariant of metered consumption (consume, usedUnits).
THEOREM UsageInvariant == Spec => []UsageInv
  BY UsageStart, UsageStep, RequestsInvariant, PTL DEF Spec

\* No month, and not the whole life of a licence, has more units charged than
\* its plan gives, whatever is repeated, lost or signed anew (consume).
THEOREM QuotaHeldHolds == Spec => []QuotaHeld
<1>1. ReqInv /\ UsageInv => QuotaHeld
  BY DEF ReqInv, TypeOK, UsageInv, QuotaHeld, Receipt
<1>2. QED
  BY <1>1, RequestsInvariant, UsageInvariant, PTL

\* The remaining units a token shows are what the receipts leave of the current
\* period, also in a month in which nothing was consumed yet (remainingUnits).
THEOREM RemainingExactHolds == Spec => []RemainingExact
<1>1. ASSUME ReqInv, UsageInv PROVE RemainingExact
  <2>1. UsedNow = Charged(Period(lic.monthly))
    BY <1>1, UsedNowExact
  <2>2. /\ lic.monthly \in BOOLEAN /\ lic.period \in Nat \cup {Nil}
        /\ lic.used \in Nat /\ Quota \in Nat
    BY <1>1 DEF ReqInv, TypeOK, License
  <2>3. CASE lic.monthly /\ lic.period # Period(TRUE)
    <3>1. Period(TRUE) = Period(lic.monthly)
      <4>1. lic.monthly = TRUE
        BY <2>2, <2>3
      <4>2. QED
        BY <4>1
    <3>2. UsedNow = 0
      BY <2>3, <3>1 DEF UsedNow
    <3>3. RemainingUnits = Quota
      BY <2>3, Zenon DEF RemainingUnits
    <3>4. QED
      BY <2>1, <2>2, <3>2, <3>3 DEF RemainingExact
  <2>4. CASE lic.period = Period(lic.monthly)
    BY <2>1, <2>2, <2>4 DEF RemainingExact, RemainingUnits, UsedNow
  <2>5. CASE ~lic.monthly /\ lic.period # Lifetime
    <3>1. lic.period = Nil
      BY <1>1, <2>2, <2>5 DEF UsageInv, Period, Lifetime
    <3>2. In(Nil) = {}
      BY <1>1 DEF In, ReqInv, TypeOK, Receipt
    <3>3. lic.used = 0
      BY <1>1, <3>1, <3>2, ChargedNothing DEF UsageInv
    <3>4. UsedNow = 0
      BY <2>5 DEF UsedNow, Period
    <3>5. QED
      BY <2>1, <2>2, <2>5, <3>3, <3>4 DEF RemainingExact, RemainingUnits
  <2>6. QED
    BY <2>2, <2>3, <2>4, <2>5 DEF Period
<1>2. QED
  BY <1>1, RequestsInvariant, UsageInvariant, PTL

-----------------------------------------------------------------------------
(* The composition *)

\* A step of one component leaves the others where they are.
LEMMA ApplicationSteps ==
    ASSUME [ApplicationNext]_<<part, applicationVars>>
    PROVE  /\ [Next]_vars /\ [AppNext]_appVars /\ [AuditNext]_auditVars
           /\ [PkgNext]_pkgVars /\ [RiskNext]_riskVars
           /\ [SecurityNext]_securityVars /\ [UpdNext]_updVars
<1>1. ASSUME UNCHANGED <<part, applicationVars>>
      PROVE  /\ UNCHANGED vars /\ UNCHANGED appVars /\ UNCHANGED auditVars
             /\ UNCHANGED pkgVars /\ UNCHANGED riskVars
             /\ UNCHANGED securityVars /\ UNCHANGED updVars
  BY <1>1 DEF applicationVars, requestVars
<1>2. QED
  BY <1>1 DEF ApplicationNext, requestVars

\* A behaviour of the composition is one of every component.
THEOREM EveryComponent ==
    ApplicationSpec => /\ Spec /\ AppSpec /\ AuditSpec /\ PkgSpec
                       /\ RiskSpec /\ SecuritySpec /\ UpdSpec
<1>1. ApplicationInit => /\ Init /\ AppInit /\ AuditInit /\ PkgInit
                         /\ RiskInit /\ SecurityInit /\ UpdInit
  BY DEF ApplicationInit
<1>2. [ApplicationNext]_<<part, applicationVars>> =>
        /\ [Next]_vars /\ [AppNext]_appVars /\ [AuditNext]_auditVars
        /\ [PkgNext]_pkgVars /\ [RiskNext]_riskVars
        /\ [SecurityNext]_securityVars /\ [UpdNext]_updVars
  BY ApplicationSteps
<1>3. QED
  BY <1>1, <1>2, PTL DEF ApplicationSpec, Spec, AppSpec, AuditSpec, PkgSpec,
                         RiskSpec, SecuritySpec, UpdSpec

\* A package is handed out only under rights that were there when it had been
\* read, a case restricts only by review and its appeals wait for one, and a
\* manifest is earned by the licence and names the best build that fits.
THEOREM DownloadsSoundHolds == ApplicationSpec => []DownloadsSound
<1>1. SecuritySound /\ ManifestEarned /\ ChoiceBest => DownloadsSound
  BY DEF DownloadsSound, UpdatesSound
<1>2. QED
  BY <1>1, EveryComponent, SecuritySoundHolds, ManifestEarnedHolds, ChoiceBestHolds, PTL
=============================================================================
