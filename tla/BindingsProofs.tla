--------------------------- MODULE BindingsProofs ---------------------------
(***************************************************************************)
(* What holds of the bindings of a licence for every number of             *)
(* installations, values, anchor groups and invitations, and for whatever  *)
(* rules its application has.                                              *)
(***************************************************************************)
EXTENDS Bindings, FiniteSetTheorems, TLAPS

AnchorRows == [Values -> GroupIds \cup {None}]

\* What is left of the credentials' columns by a step that only uses them.
CredentialTypes ==
    /\ card \in {"valid", "expired", "revoked"}
    /\ inv \in [Invites -> Invitations \cup {Missing}]
    /\ pend \in [Pendings -> Requests \cup {Missing}]
    /\ admitted \in [Invites -> SUBSET Keys]
    /\ stale \subseteq Invites
    /\ \A v \in Invites :
         inv[v] # Missing /\ ~inv[v].used => inv[v].key = None

\* An invitation admits nobody before it is used, and then the key in its row:
\* a row whose key was cleared keeps what it admitted, and admits no more.
InviteBound ==
    \A v \in Invites :
      /\ \E k \in Keys \cup {None} : admitted[v] \subseteq {k}
      /\ admitted[v] # {} => inv[v] # Missing /\ inv[v].used
      /\ inv[v] # Missing /\ inv[v].key # None
           => admitted[v] \subseteq {inv[v].key}

\* An invitation older than a rebinding or a new owner is used, by no key.
StaleDead ==
    \A v \in stale : inv[v] # Missing /\ inv[v].used /\ inv[v].key = None

CredentialInv == CredentialTypes /\ InviteBound /\ StaleDead

-----------------------------------------------------------------------------
(* Anchors *)

LEMMA GroupsFinite ==
    ASSUME BindingsAssumption, NEW rows \in AnchorRows
    PROVE  /\ IsFiniteSet(LiveGroups(rows))
           /\ Cardinality(LiveGroups(rows)) \in Nat
<1> DEFINE f == [v \in Live(rows) |-> rows[v]]
<1>1. IsFiniteSet(Live(rows))
  BY FS_Subset DEF Live, BindingsAssumption
<1>2. f \in Surjection(Live(rows), LiveGroups(rows))
  BY DEF Surjection, LiveGroups
<1>3. QED
  BY <1>1, <1>2, FS_Surjection, FS_CardinalityType

\* ensureAnchorGroup keeps the rows that are live, registers the value it
\* binds, and creates one group at most, within the terms.
LEMMA AnchorStep ==
    ASSUME BindingsAssumption, NEW rows \in AnchorRows, NEW new,
           NEW b \in Bindings, NEW g \in Groups,
           EnsureAnchorGroup(b, g, rows, new),
           Cardinality(LiveGroups(rows)) <= MaxGroups
    PROVE  /\ new \in AnchorRows
           /\ Live(rows) \subseteq Live(new)
           /\ g \in GroupIds => b.value \in Live(new)
           /\ Cardinality(LiveGroups(new)) <= MaxGroups
<1>1. b.value \in Values /\ b.aliases \subseteq Values
      /\ b.value \in b.aliases
  BY DEF Bindings
<1>2. CASE g \in LicenseRules(b.value) /\ new = rows
  <2>1. g \in Rules /\ GroupIds \cap Rules = {}
    BY <1>2 DEF LicenseRules, BindingsAssumption
  <2>2. g \notin GroupIds
    BY <2>1
  <2>3. Live(new) = Live(rows) /\ LiveGroups(new) = LiveGroups(rows)
    BY <1>2, Zenon
  <2>4. QED
    BY <1>2, <2>2, <2>3
<1>3. CASE b.value \in Live(rows) /\ new = rows
  BY <1>3
<1>4. CASE RegisterGroup(b, g, rows, new)
  <2>1. /\ g \in GroupIds /\ g # None
        /\ new = [v \in Values |-> IF v \in b.aliases THEN g ELSE rows[v]]
        /\ Cardinality(LiveGroups(rows)) < MaxGroups
    BY <1>4 DEF RegisterGroup, BindingsAssumption
  <2>2. new \in AnchorRows
    BY <2>1 DEF AnchorRows
  <2>3. Live(rows) \subseteq Live(new) /\ b.value \in Live(new)
    BY <1>1, <2>1 DEF Live
  <2>4. LiveGroups(new) \subseteq LiveGroups(rows) \cup {g}
    BY <2>1 DEF LiveGroups, Live
  <2>5. /\ IsFiniteSet(LiveGroups(rows))
        /\ Cardinality(LiveGroups(rows)) \in Nat
        /\ Cardinality(LiveGroups(new)) \in Nat
    BY <2>2, GroupsFinite
  <2>6. /\ IsFiniteSet(LiveGroups(rows) \cup {g})
        /\ Cardinality(LiveGroups(rows) \cup {g})
             <= Cardinality(LiveGroups(rows)) + 1
        /\ Cardinality(LiveGroups(rows) \cup {g}) \in Nat
    <3>1. IsFiniteSet(LiveGroups(rows) \cup {g})
      BY <2>5, FS_AddElement
    <3>2. \/ Cardinality(LiveGroups(rows) \cup {g})
               = Cardinality(LiveGroups(rows))
          \/ Cardinality(LiveGroups(rows) \cup {g})
               = Cardinality(LiveGroups(rows)) + 1
      BY <2>5, FS_AddElement, Zenon
    <3>3. QED
      BY <2>5, <3>1, <3>2
  <2>7. Cardinality(LiveGroups(new))
          <= Cardinality(LiveGroups(rows) \cup {g})
    BY <2>4, <2>6, FS_Subset
  <2>8. MaxGroups \in Nat
    BY DEF BindingsAssumption
  <2>9. Cardinality(LiveGroups(new)) <= MaxGroups
    BY <2>1, <2>5, <2>6, <2>7, <2>8
  <2>10. QED
    BY <2>2, <2>3, <2>9
<1>5. QED
  BY <1>2, <1>3, <1>4 DEF EnsureAnchorGroup

\* Rebinding registers from nothing.
LEMMA NoAnchors ==
    ASSUME BindingsAssumption
    PROVE  LET rows == [v \in Values |-> None]
           IN  /\ rows \in AnchorRows
               /\ Live(rows) = {}
               /\ Cardinality(LiveGroups(rows)) = 0
<1> DEFINE rows == [v \in Values |-> None]
<1>1. rows \in AnchorRows /\ Live(rows) = {}
  BY DEF AnchorRows, Live
<1>2. LiveGroups(rows) = {}
  BY <1>1, Zenon DEF LiveGroups
<1>3. QED
  BY <1>1, <1>2, FS_EmptySet

-----------------------------------------------------------------------------
(* Credentials *)

LEMMA KeyIsKey ==
    ASSUME BindingsAssumption, NEW i \in Installations
    PROVE  KeyOf[i] \in Keys /\ KeyOf[i] # None
BY DEF BindingsAssumption

LEMMA UseInviteStep ==
    ASSUME BindingsAssumption, CredentialInv,
           NEW v \in Invites, NEW i \in Installations, UseInvite(v, i)
    PROVE  CredentialInv'
<1> DEFINE k == KeyOf[i]
<1>1. k \in Keys /\ k # None
  BY KeyIsKey
<1> HIDE DEF k
<1>2. /\ inv[v] \in Invitations /\ inv[v] # Missing
      /\ inv[v].used => inv[v].key = k
      /\ inv' = [inv EXCEPT ![v].used = TRUE, ![v].key = k]
      /\ admitted' = [admitted EXCEPT ![v] = @ \cup {k}]
      /\ card' = card /\ pend' = pend /\ stale' = stale
  BY DEF UseInvite, InviteAccepts, CredentialInv, CredentialTypes, Missing, k
<1>3. /\ inv' \in [Invites -> Invitations \cup {Missing}]
      /\ inv'[v] \in Invitations /\ inv'[v].used /\ inv'[v].key = k
      /\ inv'[v] # Missing
      /\ \A w \in Invites \ {v} : inv'[w] = inv[w]
  BY <1>1, <1>2 DEF CredentialInv, CredentialTypes, Invitations, Missing
<1>4. /\ admitted' \in [Invites -> SUBSET Keys]
      /\ admitted'[v] = admitted[v] \cup {k}
      /\ \A w \in Invites \ {v} : admitted'[w] = admitted[w]
  BY <1>1, <1>2 DEF CredentialInv, CredentialTypes
<1>5. CredentialTypes'
  BY <1>2, <1>3, <1>4 DEF CredentialInv, CredentialTypes
<1>6. admitted[v] \subseteq {k}
  BY <1>1, <1>2 DEF CredentialInv, InviteBound, CredentialTypes
<1>7. InviteBound'
  BY <1>1, <1>3, <1>4, <1>6 DEF CredentialInv, InviteBound
<1>8. v \notin stale
  BY <1>1, <1>2 DEF CredentialInv, StaleDead
<1>9. StaleDead'
  BY <1>2, <1>3, <1>8 DEF CredentialInv, StaleDead, CredentialTypes
<1>10. QED
  BY <1>5, <1>7, <1>9 DEF CredentialInv

LEMMA CredentialUnchanged ==
    ASSUME CredentialInv, UNCHANGED credentials
    PROVE  CredentialInv'
BY DEF CredentialInv, CredentialTypes, InviteBound, StaleDead, credentials

LEMMA CredentialStepInv ==
    ASSUME BindingsAssumption, CredentialInv,
           NEW i \in Installations, NEW b \in Bindings, Credential(i, b)
    PROVE  CredentialInv'
<1>1. CASE UseCard \/ \E p \in Pendings : UsePending(p, i, b)
  BY <1>1, CredentialUnchanged DEF UseCard, UsePending
<1>2. CASE \E v \in Invites : UseInvite(v, i)
  BY <1>2, UseInviteStep
<1>3. QED
  BY <1>1, <1>2 DEF Credential

LEMMA InvalidateStep ==
    ASSUME CredentialInv, InvalidateInvitations,
           UNCHANGED <<card, pend, admitted>>
    PROVE  CredentialInv'
<1>1. \A v \in Invites :
        /\ inv[v] # Missing <=> inv'[v] # Missing
        /\ inv[v] # Missing => /\ inv[v] \in Invitations
                               /\ inv'[v] \in Invitations
                               /\ inv'[v].used /\ inv'[v].key = None
  BY DEF InvalidateInvitations, CredentialInv, CredentialTypes, Invitations,
         Missing
<1>2. inv' \in [Invites -> Invitations \cup {Missing}]
  BY <1>1 DEF InvalidateInvitations
<1>3. stale' = stale \cup {v \in Invites : inv[v] # Missing}
  BY DEF InvalidateInvitations
<1>4. CredentialTypes'
  BY <1>1, <1>2, <1>3 DEF CredentialInv, CredentialTypes
<1>5. InviteBound'
  BY <1>1 DEF CredentialInv, InviteBound
<1>6. StaleDead'
  BY <1>1, <1>3 DEF CredentialInv, StaleDead, CredentialTypes
<1>7. QED
  BY <1>4, <1>5, <1>6 DEF CredentialInv

-----------------------------------------------------------------------------
(* The steps *)

\* The columns no credential step writes.
PlainTypes ==
    /\ usable \in BOOLEAN /\ allowlist \in BOOLEAN
    /\ rule \in [Rules -> [global : BOOLEAN, matches : SUBSET Values]]
    /\ anchor \in AnchorRows
    /\ act \in [Installations -> Rows \cup {NoRow}]
    /\ lic \in [owner : Users \cup {None}, rebinds : 0..MaxRebinds,
                cooling : BOOLEAN]

\* The inductive invariant.
IInv ==
    /\ PlainTypes
    /\ CredentialInv
    /\ ActivationLimit
    /\ GroupLimit
    /\ DomainsRegistered

LEMMA TypesOfParts == PlainTypes /\ CredentialTypes <=> TypeOK
BY DEF PlainTypes, CredentialTypes, TypeOK, AnchorRows

\* The rows of the installations, when no step of theirs is taken.
LEMMA RowsUnchanged ==
    ASSUME PlainTypes, ActivationLimit, GroupLimit, DomainsRegistered,
           UNCHANGED <<anchor, act>>
    PROVE  ActivationLimit' /\ GroupLimit' /\ DomainsRegistered'
BY DEF ActivationLimit, GroupLimit, DomainsRegistered, Active, Live,
       LiveGroups

LEMMA ActiveFinite ==
    ASSUME BindingsAssumption
    PROVE  /\ IsFiniteSet(Active) /\ Cardinality(Active) \in Nat
           /\ IsFiniteSet(Active') /\ Cardinality(Active') \in Nat
<1>1. Active \subseteq Installations /\ Active' \subseteq Installations
  BY DEF Active
<1>2. QED
  BY <1>1, FS_Subset, FS_CardinalityType DEF BindingsAssumption

LEMMA ActivateStep ==
    ASSUME BindingsAssumption, IInv, NEW i \in Installations,
           NEW b \in Bindings, NEW g \in Groups, Activate(i, b, g)
    PROVE  IInv'
<1> DEFINE row == [state |-> "active", value |-> b.value, group |-> g]
<1>1. row \in Rows
  BY DEF Rows, Bindings
<1>2. act' = [act EXCEPT ![i] = row]
  BY DEF Activate
<1>3. /\ act' \in [Installations -> Rows \cup {NoRow}] /\ act'[i] = row
      /\ \A j \in Installations \ {i} : act'[j] = act[j]
  BY <1>1, <1>2 DEF IInv, PlainTypes
<1>4. Active' = (Active \ {i}) \cup {i}
  BY <1>3 DEF Active
<1>5. Cardinality(Active \ {i}) < MaxActivations
  BY DEF Activate, QuotaFor
<1>6. ActivationLimit'
  <2>1. IsFiniteSet(Active \ {i}) /\ Cardinality(Active \ {i}) \in Nat
    BY ActiveFinite, FS_RemoveElement, FS_CardinalityType
  <2>2. Cardinality(Active') = Cardinality(Active \ {i}) + 1
    BY <1>4, <2>1, FS_AddElement
  <2>3. MaxActivations \in Nat
    BY DEF BindingsAssumption
  <2>4. QED
    BY <1>5, <2>1, <2>2, <2>3 DEF ActivationLimit
<1>7. /\ anchor' \in AnchorRows
      /\ Live(anchor) \subseteq Live(anchor')
      /\ g \in GroupIds => b.value \in Live(anchor')
      /\ Cardinality(LiveGroups(anchor')) <= MaxGroups
  BY AnchorStep DEF Activate, IInv, PlainTypes, GroupLimit
<1>8. DomainsRegistered'
  BY <1>3, <1>7 DEF IInv, DomainsRegistered, Active, Live
<1>9. PlainTypes'
  BY <1>3, <1>7 DEF IInv, PlainTypes, Activate, policy
<1>10. CredentialInv'
  BY CredentialStepInv DEF IInv, Activate
<1>11. QED
  BY <1>6, <1>7, <1>8, <1>9, <1>10 DEF IInv, GroupLimit, LiveGroups, Live

LEMMA VerifyStep ==
    ASSUME BindingsAssumption, IInv, NEW i \in Installations,
           NEW v \in Values, Verify(i, v)
    PROVE  IInv'
<1>1. act[i] \in Rows
  BY DEF Verify, IInv, PlainTypes, NoRow
<1>2. /\ act' \in [Installations -> Rows \cup {NoRow}]
      /\ act'[i].value = v /\ act'[i].state = "active"
      /\ act'[i].group = act[i].group
      /\ \A j \in Installations \ {i} : act'[j] = act[j]
  BY ZenonT(60), <1>1 DEF Verify, IInv, PlainTypes, Rows
<1>3. Active' = Active \cup {i}
  BY <1>2 DEF Active
<1>4. ActivationLimit'
  <2>1. CASE act[i].state = "active"
    BY <1>3, <2>1 DEF IInv, ActivationLimit, Active
  <2>2. CASE act[i].state = "released"
    <3>1. Cardinality(Active) < MaxActivations
      BY <2>2 DEF Verify
    <3>2. Cardinality(Active') <= Cardinality(Active) + 1
      BY <1>3, ActiveFinite, FS_AddElement
    <3>3. QED
      BY <3>1, <3>2, ActiveFinite
         DEF ActivationLimit, BindingsAssumption
  <2>3. QED
    BY <2>1, <2>2 DEF Verify
<1>5. anchor' = anchor /\ UNCHANGED <<policy, lic, credentials>>
  BY DEF Verify
<1>6. Kind[v] = "domain" /\ act[i].group \in GroupIds => v \in Live(anchor)
  BY DEF Verify, Matches, Live, BindingsAssumption
<1>7. DomainsRegistered'
  BY <1>2, <1>5, <1>6 DEF IInv, DomainsRegistered, Active, Live
<1>8. PlainTypes' /\ GroupLimit'
  BY <1>2, <1>5 DEF IInv, PlainTypes, policy, GroupLimit, LiveGroups, Live
<1>9. QED
  BY <1>4, <1>5, <1>7, <1>8, CredentialUnchanged DEF IInv

\* A row that stops, whatever stops it.
LEMMA StopStep ==
    ASSUME BindingsAssumption, IInv, NEW i \in Installations,
           NEW state \in {"released", "disabled"}, act[i].state # "none",
           act' = [act EXCEPT ![i].state = state],
           UNCHANGED <<policy, anchor, lic, credentials>>
    PROVE  IInv'
<1>1. act[i] \in Rows
  BY DEF IInv, PlainTypes, NoRow
<1>2. /\ act' \in [Installations -> Rows \cup {NoRow}]
      /\ act'[i].state = state
      /\ \A j \in Installations \ {i} : act'[j] = act[j]
  BY <1>1 DEF IInv, PlainTypes, Rows
<1>3. Active' \subseteq Active /\ i \notin Active'
  BY <1>2 DEF Active
<1>4. ActivationLimit'
  BY <1>3, ActiveFinite, FS_Subset
     DEF IInv, ActivationLimit, BindingsAssumption
<1>5. DomainsRegistered'
  BY <1>2, <1>3 DEF IInv, DomainsRegistered, Active, Live
<1>6. PlainTypes' /\ GroupLimit'
  BY <1>2 DEF IInv, PlainTypes, policy, GroupLimit, LiveGroups, Live
<1>7. QED
  BY <1>4, <1>5, <1>6, CredentialUnchanged DEF IInv

LEMMA DeactivateAllStep ==
    ASSUME BindingsAssumption, PlainTypes, DeactivateAll
    PROVE  /\ act' \in [Installations -> Rows \cup {NoRow}]
           /\ ActivationLimit' /\ DomainsRegistered'
<1>1. act' \in [Installations -> Rows \cup {NoRow}]
  BY DEF PlainTypes, DeactivateAll, Rows, NoRow
<1>2. Active' = {}
  BY DEF Active, DeactivateAll, PlainTypes, Rows, NoRow
<1>3. Cardinality(Active') = 0 /\ MaxActivations \in Nat
  BY <1>2, FS_EmptySet DEF BindingsAssumption
<1>4. QED
  BY <1>1, <1>2, <1>3 DEF ActivationLimit, DomainsRegistered

\* The steps that leave anchors and activation rows alone and only use or
\* write the credentials.
LEMMA QuietStep ==
    ASSUME BindingsAssumption, IInv, UNCHANGED <<anchor, act>>,
           PlainTypes', CredentialInv'
    PROVE  IInv'
BY RowsUnchanged DEF IInv

LEMMA RequestStep ==
    ASSUME BindingsAssumption, IInv, NEW i \in Installations,
           NEW p \in Pendings, NEW v \in Values, RequestInstallation(p, i, v)
    PROVE  IInv'
<1> DEFINE row == [status |-> "pending", key |-> KeyOf[i], value |-> v]
<1>1. row \in Requests
  BY KeyIsKey DEF Requests
<1>2. pend' = [pend EXCEPT ![p] = row]
      /\ UNCHANGED <<policy, anchor, act, lic, card, inv, admitted, stale>>
  BY DEF RequestInstallation
<1> HIDE DEF row
<1>3. pend' \in [Pendings -> Requests \cup {Missing}]
  BY <1>1, <1>2 DEF IInv, CredentialInv, CredentialTypes
<1>4. CredentialInv'
  BY <1>2, <1>3
     DEF IInv, CredentialInv, CredentialTypes, InviteBound, StaleDead
<1>5. PlainTypes'
  BY <1>2 DEF IInv, PlainTypes, policy
<1>6. QED
  BY <1>2, <1>4, <1>5, QuietStep

LEMMA InstallationInv ==
    ASSUME BindingsAssumption, IInv, NEW i \in Installations,
           InstallationStep(i)
    PROVE  IInv'
<1>1. CASE Release(i)
  BY <1>1, StopStep DEF Release
<1>2. CASE Deactivate(i)
  BY <1>2, StopStep DEF Deactivate
<1>3. QED
  BY <1>1, <1>2, ActivateStep, VerifyStep, RequestStep
     DEF InstallationStep

LEMMA RebindStep ==
    ASSUME BindingsAssumption, IInv, NEW customer \in BOOLEAN,
           NEW b \in Bindings, NEW g \in Groups, Rebind(customer, b, g)
    PROVE  IInv'
<1> DEFINE none == [v \in Values |-> None]
<1>1. /\ lic.rebinds < MaxRebinds /\ DeactivateAll /\ InvalidateInvitations
      /\ EnsureAnchorGroup(b, g, none, anchor')
      /\ lic' = [lic EXCEPT !.rebinds = @ + 1, !.cooling = TRUE]
      /\ UNCHANGED <<policy, card, pend, admitted>>
  BY DEF Rebind
<1>2. none \in AnchorRows /\ Cardinality(LiveGroups(none)) <= MaxGroups
  BY NoAnchors DEF BindingsAssumption
<1>3. anchor' \in AnchorRows /\ Cardinality(LiveGroups(anchor')) <= MaxGroups
  <2> HIDE DEF none
  <2> QED BY <1>1, <1>2, AnchorStep
<1>4. lic' \in [owner : Users \cup {None}, rebinds : 0..MaxRebinds,
                cooling : BOOLEAN]
  <2>1. lic.rebinds + 1 \in 0..MaxRebinds
    BY <1>1 DEF IInv, PlainTypes, BindingsAssumption
  <2>2. QED
    BY <1>1, <2>1 DEF IInv, PlainTypes
<1>5. PlainTypes' /\ ActivationLimit' /\ DomainsRegistered'
  BY <1>1, <1>3, <1>4, DeactivateAllStep DEF IInv, PlainTypes, policy
<1>6. CredentialInv'
  BY <1>1, InvalidateStep DEF IInv
<1>7. QED
  BY <1>3, <1>5, <1>6 DEF IInv, GroupLimit, LiveGroups, Live

LEMMA RegisterStep ==
    ASSUME BindingsAssumption, IInv,
           NEW b \in Bindings, NEW g \in Groups, RegisterBinding(b, g)
    PROVE  IInv'
<1>1. /\ anchor' \in AnchorRows
      /\ Live(anchor) \subseteq Live(anchor')
      /\ Cardinality(LiveGroups(anchor')) <= MaxGroups
  BY AnchorStep DEF RegisterBinding, IInv, PlainTypes, GroupLimit
<1>2. UNCHANGED <<policy, act, lic, credentials>>
  BY DEF RegisterBinding
<1>3. ActivationLimit' /\ DomainsRegistered'
  BY <1>1, <1>2
     DEF IInv, ActivationLimit, DomainsRegistered, Active, Live
<1>4. PlainTypes'
  BY <1>1, <1>2 DEF IInv, PlainTypes, policy
<1>5. QED
  BY <1>1, <1>2, <1>3, <1>4, CredentialUnchanged
     DEF IInv, GroupLimit, LiveGroups, Live

LEMMA OwnerInv ==
    ASSUME BindingsAssumption, IInv, OwnerStep
    PROVE  IInv'
<1>1. PICK u \in Users : ClaimCustomerLicense(u) \/ AssignLicenseOwner(u)
  BY DEF OwnerStep
<1>2. lic' = [lic EXCEPT !.owner = u] /\ UNCHANGED <<policy, anchor>>
  BY <1>1 DEF ClaimCustomerLicense, AssignLicenseOwner
<1>3. lic' \in [owner : Users \cup {None}, rebinds : 0..MaxRebinds,
                cooling : BOOLEAN]
  BY <1>2 DEF IInv, PlainTypes
<1>4. GroupLimit'
  BY <1>2 DEF IInv, GroupLimit, LiveGroups, Live
<1>5. CASE DeactivateAll /\ InvalidateInvitations
           /\ UNCHANGED <<card, pend, admitted>>
  <2>1. /\ act' \in [Installations -> Rows \cup {NoRow}]
        /\ ActivationLimit' /\ DomainsRegistered'
    BY <1>5, DeactivateAllStep DEF IInv
  <2>2. CredentialInv'
    BY <1>5, InvalidateStep DEF IInv
  <2>3. QED
    BY <1>2, <1>3, <1>4, <2>1, <2>2 DEF IInv, PlainTypes, policy
<1>6. CASE UNCHANGED <<act, credentials>>
  <2>1. PlainTypes'
    BY <1>2, <1>3, <1>6 DEF IInv, PlainTypes, policy
  <2>2. QED
    BY <1>2, <1>6, <2>1, QuietStep, CredentialUnchanged DEF IInv
<1>7. QED
  BY <1>1, <1>5, <1>6
     DEF ClaimCustomerLicense, AssignLicenseOwner, credentials

LEMMA CredentialStepsInv ==
    ASSUME BindingsAssumption, IInv, CredentialStep
    PROVE  IInv'
<1>1. UNCHANGED <<policy, anchor, act, lic, admitted, stale>>
  BY DEF CredentialStep, CreateInvitation, InviteExpires, PendingExpires,
         ApproveInstallation, RevokeCard, CardExpires
<1>2. PlainTypes'
  BY <1>1 DEF IInv, PlainTypes, policy
<1>3. CredentialInv'
  <2> USE <1>1 DEF IInv, CredentialInv
  <2>1. ASSUME NEW v \in Invites, CreateInvitation(v)
        PROVE  CredentialInv'
    <3>1. [status |-> "open", used |-> FALSE, key |-> None,
           owner |-> lic.owner] \in Invitations
      BY DEF Invitations, PlainTypes
    <3>2. /\ inv' \in [Invites -> Invitations \cup {Missing}]
          /\ inv'[v].key = None /\ inv[v] = Missing
          /\ \A w \in Invites \ {v} : inv'[w] = inv[w]
      BY <2>1, <3>1 DEF CreateInvitation, CredentialTypes
    <3>3. CredentialTypes'
      BY <2>1, <3>2 DEF CreateInvitation, CredentialTypes
    <3>4. InviteBound' /\ StaleDead'
      BY <3>2 DEF InviteBound, StaleDead, CredentialTypes
    <3>5. QED
      BY <3>3, <3>4
  <2>2. ASSUME NEW v \in Invites, InviteExpires(v)
        PROVE  CredentialInv'
    <3>1. inv[v] \in Invitations
      BY <2>2 DEF InviteExpires, CredentialTypes
    <3>2. /\ inv' \in [Invites -> Invitations \cup {Missing}]
          /\ inv'[v].key = inv[v].key /\ inv'[v].used = inv[v].used
          /\ inv'[v] # Missing
          /\ \A w \in Invites \ {v} : inv'[w] = inv[w]
      BY <2>2, <3>1
         DEF InviteExpires, CredentialTypes, Invitations, Missing
    <3>3. CredentialTypes'
      BY <2>2, <3>1, <3>2 DEF InviteExpires, CredentialTypes
    <3>4. InviteBound' /\ StaleDead'
      BY <2>2, <3>2 DEF InviteExpires, InviteBound, StaleDead, CredentialTypes
    <3>5. QED
      BY <3>3, <3>4
  <2>3. ASSUME NEW p \in Pendings, NEW status, pend[p] # Missing,
               status \in {"approved", "rejected", "expired"},
               pend' = [pend EXCEPT ![p].status = status],
               UNCHANGED <<card, inv>>
        PROVE  CredentialInv'
    <3>1. pend' \in [Pendings -> Requests \cup {Missing}]
      BY <2>3 DEF CredentialTypes, Requests, Missing
    <3>2. QED
      BY <2>3, <3>1 DEF CredentialTypes, InviteBound, StaleDead
  <2>4. ASSUME RevokeCard \/ CardExpires
        PROVE  CredentialInv'
    BY <2>4 DEF RevokeCard, CardExpires, CredentialTypes, InviteBound,
                StaleDead
  <2>5. QED
    BY <2>1, <2>2, <2>3, <2>4
       DEF CredentialStep, ApproveInstallation, PendingExpires, Missing
<1>4. QED
  BY <1>1, <1>2, <1>3, QuietStep

LEMMA PolicyInv ==
    ASSUME BindingsAssumption, IInv, PolicyStep
    PROVE  IInv'
<1>1. UNCHANGED <<anchor, act, credentials>>
  BY DEF PolicyStep, SaveBindingRule, RemoveBindingRule, SaveApplication,
         SetUsable, CooldownPasses
<1>2. PlainTypes'
  <2> USE <1>1 DEF IInv, PlainTypes
  <2>1. ASSUME NEW r \in Rules, NEW global \in BOOLEAN,
               NEW matches \in Patterns, SaveBindingRule(r, global, matches)
        PROVE  PlainTypes'
    BY <2>1 DEF SaveBindingRule, BindingsAssumption
  <2>2. ASSUME NEW r \in Rules, RemoveBindingRule(r)
        PROVE  PlainTypes'
    BY <2>2 DEF RemoveBindingRule
  <2>3. CASE \E mode \in BOOLEAN : SaveApplication(mode)
    BY <2>3 DEF SaveApplication
  <2>4. CASE \E u \in BOOLEAN : SetUsable(u)
    BY <2>4 DEF SetUsable
  <2>5. CASE CooldownPasses
    BY <2>5 DEF CooldownPasses, policy
  <2>6. QED
    BY <2>1, <2>2, <2>3, <2>4, <2>5 DEF PolicyStep
<1>3. QED
  BY <1>1, <1>2, CredentialUnchanged, QuietStep DEF IInv

-----------------------------------------------------------------------------
(* The theorems *)

LEMMA InitInv == ASSUME BindingsAssumption, Init PROVE IInv
<1>1. PlainTypes
  BY DEF Init, PlainTypes, AnchorRows, BindingsAssumption
<1>2. CredentialInv
  BY DEF Init, CredentialInv, CredentialTypes, InviteBound, StaleDead
<1>3. Active = {}
  BY DEF Init, Active, NoRow
<1>4. ActivationLimit /\ DomainsRegistered
  BY <1>3, FS_EmptySet
     DEF ActivationLimit, DomainsRegistered, BindingsAssumption
<1>5. GroupLimit
  BY NoAnchors DEF Init, GroupLimit, BindingsAssumption
<1>6. QED
  BY <1>1, <1>2, <1>4, <1>5 DEF IInv

LEMMA StepInv == ASSUME BindingsAssumption, IInv, [Next]_vars PROVE IInv'
<1>1. CASE UNCHANGED vars
  <2>1. PlainTypes' /\ CredentialInv'
    BY <1>1, CredentialUnchanged DEF IInv, PlainTypes, vars, credentials
  <2>2. QED
    BY <1>1, <2>1, QuietStep DEF vars
<1>2. CASE BindingStep
  BY <1>2, RebindStep, RegisterStep DEF BindingStep
<1>3. QED
  BY <1>1, <1>2, InstallationInv, OwnerInv, CredentialStepsInv, PolicyInv
     DEF Next

\* The inductive invariant: cards, installations and registered names agree with each
\* other whatever credentials, releases and returns come together (internal/licensing).
THEOREM BindingsInvariant == Spec => []IInv
<1>1. Init => IInv
  BY InitInv, BindingsAssumption
<1>2. IInv /\ [Next]_vars => IInv'
  BY StepInv, BindingsAssumption
<1>3. QED
  BY <1>1, <1>2, PTL DEF Spec

\* Rows keep their columns' types.
THEOREM BindingsTypes == Spec => []TypeOK
<1>1. IInv => TypeOK
  BY TypesOfParts DEF IInv, CredentialInv
<1>2. QED
  BY <1>1, BindingsInvariant, PTL

\* Whatever credentials, releases and returns come together, the licence runs
\* on no more installations than it was sold for.
THEOREM ActivationLimitHolds == Spec => []ActivationLimit
<1>1. IInv => ActivationLimit
  BY DEF IInv
<1>2. QED
  BY <1>1, BindingsInvariant, PTL

\* Activation, pre-registration and rebinding together register no more groups
\* than the terms allow.
THEOREM GroupLimitHolds == Spec => []GroupLimit
<1>1. IInv => GroupLimit
  BY DEF IInv
<1>2. QED
  BY <1>1, BindingsInvariant, PTL

\* A running installation of a domain group runs on a registered name.
THEOREM DomainsRegisteredHolds == Spec => []DomainsRegistered
<1>1. IInv => DomainsRegistered
  BY DEF IInv
<1>2. QED
  BY <1>1, BindingsInvariant, PTL

\* One key per invitation, in its whole life.
THEOREM InvitationSingleKeyHolds == Spec => []InvitationSingleKey
<1>1. ASSUME IInv, NEW v \in Invites
      PROVE  Cardinality(admitted[v]) <= 1
  <2>1. PICK k : admitted[v] \subseteq {k}
    BY <1>1 DEF IInv, CredentialInv, InviteBound
  <2>2. IsFiniteSet({k}) /\ Cardinality({k}) = 1
    BY FS_Singleton
  <2>3. /\ Cardinality(admitted[v]) <= Cardinality({k})
        /\ Cardinality(admitted[v]) \in Nat
    BY <2>1, <2>2, FS_Subset, FS_CardinalityType
  <2>4. QED
    BY <2>2, <2>3
<1>2. IInv => InvitationSingleKey
  BY <1>1 DEF InvitationSingleKey
<1>3. QED
  BY <1>2, BindingsInvariant, PTL

\* An invitation older than a rebinding or a change of owner admits nobody.
THEOREM StaleRefusedHolds == Spec => []StaleRefused
<1>1. IInv => StaleRefused
  BY BindingsAssumption, KeyIsKey
     DEF IInv, CredentialInv, StaleDead, StaleRefused, InviteAccepts
<1>2. QED
  BY <1>1, BindingsInvariant, PTL
=============================================================================
