------------------------------ MODULE Bindings ------------------------------
(***************************************************************************)
(* The bindings of one non-floating licence: the credentials that admit an *)
(* installation (activation card, invitation, approved request), the       *)
(* groups of binding anchors, the live rules, rebinding, the change of     *)
(* owner, and the installations that verify against them.                  *)
(*                                                                         *)
(* A handler's transaction holds the application lock and is one action; a *)
(* refused request is no step.  Deadlines enter as the event that they     *)
(* pass (CardExpires, InviteExpires, PendingExpires, CooldownPasses), the  *)
(* licence's status and term as one flag (Seats has them in full).         *)
(***************************************************************************)
EXTENDS Naturals, FiniteSets

CONSTANTS
    Installations,   \* (public key, session) pairs
    Keys, KeyOf,     \* installation public keys; the key of an installation
    Values, Kind,    \* canonical binding values; "domain", "ip" or "machine"
    MaxAliases,      \* Terms.MaxDomainAliases
    MaxGroups,       \* Terms.MaxBindingGroups
    MaxActivations,  \* Terms.MaxActivations
    RebindLimit,     \* Terms.RebindLimit when positive, 0 for none
    GroupIds,        \* identifiers of anchor groups
    Rules, Patterns, \* binding rules; sets of values a rule may match
    Invites,         \* installation invitations
    Pendings,        \* installation requests
    Users,           \* customers
    MaxRebinds,      \* bound on the rebindings of a behaviour
    None             \* the empty key, owner and group

ASSUME BindingsAssumption ==
    /\ IsFiniteSet(Installations) /\ IsFiniteSet(Values)
    /\ KeyOf \in [Installations -> Keys]
    /\ Kind \in [Values -> {"domain", "ip", "machine"}]
    /\ Patterns \subseteq SUBSET Values
    /\ MaxAliases \in Nat /\ MaxGroups \in Nat /\ MaxActivations \in Nat
    /\ RebindLimit \in Nat /\ MaxRebinds \in Nat
    /\ None \notin Keys \cup Users \cup GroupIds \cup Rules
    /\ GroupIds \cap Rules = {}

VARIABLES
    usable,     \* whether checkUsable accepts the application and the licence
    allowlist,  \* rule mode "application_allowlist"
    rule,       \* live rules: their scope and what they match (nothing when
                \* disabled, removed or given to another licence)
    anchor,     \* the anchor row of each value
    act,        \* the activation row of each installation
    lic,        \* owner, RebindsUsed, and whether the cooldown is running
    card,       \* the activation card: "valid", "expired" or "revoked"
    inv,        \* invitations
    pend,       \* installation requests
    admitted,   \* history: the keys each invitation has admitted
    stale       \* history: invitations older than a rebinding or new owner

vars == <<usable, allowlist, rule, anchor, act, lic, card, inv, pend,
          admitted, stale>>
policy == <<usable, allowlist, rule>>
credentials == <<card, inv, pend, admitted, stale>>

Groups == GroupIds \cup Rules
Bindings == {b \in [value : Values, aliases : SUBSET Values] :
               /\ b.value \in b.aliases
               /\ \A v \in b.aliases : Kind[v] = Kind[b.value]
               /\ IF Kind[b.value] = "domain"
                  THEN Cardinality(b.aliases) <= MaxAliases
                  ELSE b.aliases = {b.value}}

NoRow == [state |-> "none"]
Missing == [status |-> "none"]
Rows == [state : {"active", "released", "disabled"},
         value : Values, group : Groups]

-----------------------------------------------------------------------------
(* Anchors and rules *)

\* Anchor rows that are there and not replaced.
Live(rows) == {v \in Values : rows[v] # None}
LiveGroups(rows) == {rows[v] : v \in Live(rows)}

Ruled(v) == Kind[v] \in {"domain", "ip"}

\* checkApplicationRules
AllowedByRules(v) ==
    allowlist /\ Ruled(v) => \E r \in Rules : v \in rule[r].matches

LicenseRules(v) ==
    {r \in Rules : Ruled(v) /\ ~rule[r].global /\ v \in rule[r].matches}

InUse(g, rows) ==
    \/ g \in LiveGroups(rows)
    \/ \E i \in Installations : act[i] # NoRow /\ act[i].group = g

\* Mutant: the registered groups are not counted.
RegisterAnchors(b, g, rows, new) ==
    /\ b.value \notin Live(rows)
    /\ g \in GroupIds /\ ~InUse(g, rows)
    /\ new = [v \in Values |-> IF v \in b.aliases THEN g ELSE rows[v]]

\* A new group takes over the rows its names already have.
RegisterGroup(b, g, rows, new) ==
    /\ b.value \notin Live(rows)
    /\ Cardinality(LiveGroups(rows)) < MaxGroups
    /\ g \in GroupIds /\ ~InUse(g, rows)
    /\ new = [v \in Values |-> IF v \in b.aliases THEN g ELSE rows[v]]

\* ensureAnchorGroup: g is the group of binding b and new are the anchors it
\* leaves behind, given the anchors rows.
EnsureAnchorGroup(b, g, rows, new) ==
    \/ /\ g \in LicenseRules(b.value)
       /\ new = rows
    \/ /\ LicenseRules(b.value) = {}
       /\ \/ /\ b.value \in Live(rows)
             /\ g = rows[b.value]
             /\ \A v \in b.aliases : rows[v] = g
             /\ new = rows
          \/ RegisterGroup(b, g, rows, new)

-----------------------------------------------------------------------------
(* Credentials *)

\* Mutant: an invitation is open to whoever presents it.
InviteUnexpired(v, i) == inv[v].status = "open"

\* An invitation serves the key that used it first, and an owner's invitation
\* only while he owns the licence.
InviteAccepts(v, i) ==
    /\ inv[v].status = "open"
    /\ inv[v].used => inv[v].key = KeyOf[i]
    /\ inv[v].owner # None => inv[v].owner = lic.owner

UseInvite(v, i) ==
    /\ InviteAccepts(v, i)
    /\ inv' = [inv EXCEPT ![v].used = TRUE, ![v].key = KeyOf[i]]
    /\ admitted' = [admitted EXCEPT ![v] = @ \cup {KeyOf[i]}]
    /\ UNCHANGED <<card, pend, stale>>

UseCard ==
    /\ card = "valid"
    /\ UNCHANGED credentials

\* An approved request admits its key on its binding, as often as it asks.
UsePending(p, i, b) ==
    /\ pend[p] = [status |-> "approved", key |-> KeyOf[i], value |-> b.value]
    /\ UNCHANGED credentials

Credential(i, b) ==
    \/ UseCard
    \/ \E v \in Invites : UseInvite(v, i)
    \/ \E p \in Pendings : UsePending(p, i, b)

-----------------------------------------------------------------------------
(* Runtime requests *)

Active == {i \in Installations : act[i].state = "active"}

\* A running installation keeps its binding; a domain or an address may change
\* within its group.
SameBinding(a, b) ==
    /\ Kind[a.value] = Kind[b.value]
    /\ Kind[b.value] = "machine" => a.value = b.value

\* Mutant: an installation activated again does not count the others.
ActivateQuota(i) ==
    act[i].state = "none" => Cardinality(Active) < MaxActivations

QuotaFor(i) == Cardinality(Active \ {i}) < MaxActivations

Activate(i, b, g) ==
    /\ usable
    /\ AllowedByRules(b.value)
    /\ act[i].state = "active" => SameBinding(act[i], b) /\ act[i].group = g
    /\ QuotaFor(i)
    /\ EnsureAnchorGroup(b, g, anchor, anchor')
    /\ act' = [act EXCEPT ![i] = [state |-> "active", value |-> b.value,
                                  group |-> g]]
    /\ Credential(i, b)
    /\ UNCHANGED <<policy, lic>>

\* Mutant: a domain is compared with the row, like a machine.
MatchesRow(a, v) ==
    IF a.group \in Rules
    THEN ~rule[a.group].global /\ v \in rule[a.group].matches
    ELSE v = a.value

\* What Verify compares the declared value with: the live rule, the anchors
\* of the group, or, for every other kind, the value stored in the row.
Matches(a, v) ==
    /\ Kind[v] = Kind[a.value]
    /\ IF a.group \in Rules
       THEN ~rule[a.group].global /\ v \in rule[a.group].matches
       ELSE IF Kind[v] = "domain" THEN anchor[v] = a.group ELSE v = a.value

\* A released installation comes back when the quota allows it.
Verify(i, v) ==
    /\ usable
    /\ act[i].state \in {"active", "released"}
    /\ AllowedByRules(v)
    /\ Matches(act[i], v)
    /\ act[i].state = "released" => Cardinality(Active) < MaxActivations
    /\ act' = [act EXCEPT ![i].state = "active", ![i].value = v]
    /\ UNCHANGED <<policy, anchor, lic, credentials>>

Release(i) ==
    /\ act[i].state \in {"active", "released"}
    /\ act' = [act EXCEPT ![i].state = "released"]
    /\ UNCHANGED <<policy, anchor, lic, credentials>>

\* RequestInstallation: an open request of this key for this value is reused.
RequestInstallation(p, i, v) ==
    LET row == [status |-> "pending", key |-> KeyOf[i], value |-> v]
    IN  /\ pend[p].status \in {"none", "expired"}
        /\ \A q \in Pendings : pend[q] # row
        /\ pend' = [pend EXCEPT ![p] = row]
        /\ UNCHANGED <<policy, anchor, act, lic, card, inv, admitted, stale>>

-----------------------------------------------------------------------------
(* Administration and the customer's own page *)

Deactivate(i) ==
    /\ act[i].state # "none"
    /\ act' = [act EXCEPT ![i].state = "disabled"]
    /\ UNCHANGED <<policy, anchor, lic, credentials>>

DeactivateAll ==
    act' = [i \in Installations |->
              IF act[i].state = "active"
              THEN [act[i] EXCEPT !.state = "disabled"] ELSE act[i]]

\* Mutant: the invitations already in use survive.
InvalidateUnused ==
    /\ inv' = [v \in Invites |->
                 IF inv[v] = Missing \/ inv[v].used THEN inv[v]
                 ELSE [inv[v] EXCEPT !.used = TRUE, !.key = None]]
    /\ stale' = stale \cup {v \in Invites : inv[v] # Missing}

\* A used invitation without a key fits no installation.
InvalidateInvitations ==
    /\ inv' = [v \in Invites |->
                 IF inv[v] = Missing THEN Missing
                 ELSE [inv[v] EXCEPT !.used = TRUE, !.key = None]]
    /\ stale' = stale \cup {v \in Invites : inv[v] # Missing}

MayRebind == lic.owner # None /\ lic.rebinds < RebindLimit /\ ~lic.cooling

\* Rebind, by the owner within his limit and cooldown, or by an administrator.
Rebind(customer, b, g) ==
    /\ usable
    /\ customer => MayRebind
    /\ lic.rebinds < MaxRebinds
    /\ AllowedByRules(b.value)
    /\ EnsureAnchorGroup(b, g, [v \in Values |-> None], anchor')
    /\ DeactivateAll
    /\ InvalidateInvitations
    /\ lic' = [lic EXCEPT !.rebinds = @ + 1, !.cooling = TRUE]
    /\ UNCHANGED <<policy, card, pend, admitted>>

RegisterBinding(b, g) ==
    /\ AllowedByRules(b.value)
    /\ EnsureAnchorGroup(b, g, anchor, anchor')
    /\ UNCHANGED <<policy, act, lic, credentials>>

ClaimCustomerLicense(u) ==
    /\ card = "valid"
    /\ lic.owner = None
    /\ lic' = [lic EXCEPT !.owner = u]
    /\ UNCHANGED <<policy, anchor, act, credentials>>

\* The change of an existing owner where the application allows it.
AssignLicenseOwner(u) ==
    /\ lic' = [lic EXCEPT !.owner = u]
    /\ IF lic.owner \notin {None, u}
       THEN DeactivateAll /\ InvalidateInvitations
       ELSE UNCHANGED <<act, inv, stale>>
    /\ UNCHANGED <<policy, anchor, card, pend, admitted>>

CreateInvitation(v) ==
    /\ usable
    /\ inv[v] = Missing
    /\ inv' = [inv EXCEPT ![v] = [status |-> "open", used |-> FALSE,
                                  key |-> None, owner |-> lic.owner]]
    /\ UNCHANGED <<policy, anchor, act, lic, card, pend, admitted, stale>>

ApproveInstallation(p, status) ==
    /\ pend[p].status = "pending"
    /\ status = "approved" => usable
    /\ pend' = [pend EXCEPT ![p].status = status]
    /\ UNCHANGED <<policy, anchor, act, lic, card, inv, admitted, stale>>

RevokeCard ==
    /\ card' = "revoked"
    /\ UNCHANGED <<policy, anchor, act, lic, inv, pend, admitted, stale>>

SaveBindingRule(r, global, matches) ==
    /\ rule' = [rule EXCEPT ![r] = [global |-> global, matches |-> matches]]
    /\ UNCHANGED <<usable, allowlist, anchor, act, lic, credentials>>

\* Its identifier is not given again; that it could be saved again here only
\* adds behaviours.
RemoveBindingRule(r) ==
    /\ rule' = [rule EXCEPT ![r].matches = {}]
    /\ UNCHANGED <<usable, allowlist, anchor, act, lic, credentials>>

SaveApplication(mode) ==
    /\ allowlist' = mode
    /\ UNCHANGED <<usable, rule, anchor, act, lic, credentials>>

-----------------------------------------------------------------------------
(* Time and the licence's own life *)

SetUsable(u) ==
    /\ usable' = u
    /\ UNCHANGED <<allowlist, rule, anchor, act, lic, credentials>>

CooldownPasses ==
    /\ lic.cooling
    /\ lic' = [lic EXCEPT !.cooling = FALSE]
    /\ UNCHANGED <<policy, anchor, act, credentials>>

CardExpires ==
    /\ card = "valid"
    /\ card' = "expired"
    /\ UNCHANGED <<policy, anchor, act, lic, inv, pend, admitted, stale>>

InviteExpires(v) ==
    /\ inv[v] # Missing
    /\ inv' = [inv EXCEPT ![v].status = "expired"]
    /\ UNCHANGED <<policy, anchor, act, lic, card, pend, admitted, stale>>

PendingExpires(p) ==
    /\ pend[p] # Missing
    /\ pend' = [pend EXCEPT ![p].status = "expired"]
    /\ UNCHANGED <<policy, anchor, act, lic, card, inv, admitted, stale>>

-----------------------------------------------------------------------------

Init ==
    /\ usable = TRUE
    /\ allowlist \in BOOLEAN
    /\ rule = [r \in Rules |-> [global |-> FALSE, matches |-> {}]]
    /\ anchor = [v \in Values |-> None]
    /\ act = [i \in Installations |-> NoRow]
    /\ lic = [owner |-> None, rebinds |-> 0, cooling |-> FALSE]
    /\ card = "valid"
    /\ inv = [v \in Invites |-> Missing]
    /\ pend = [p \in Pendings |-> Missing]
    /\ admitted = [v \in Invites |-> {}]
    /\ stale = {}

InstallationStep(i) ==
    \/ \E b \in Bindings, g \in Groups : Activate(i, b, g)
    \/ \E v \in Values : Verify(i, v)
    \/ Release(i)
    \/ \E p \in Pendings, v \in Values : RequestInstallation(p, i, v)
    \/ Deactivate(i)

BindingStep ==
    \E b \in Bindings, g \in Groups :
      \/ \E customer \in BOOLEAN : Rebind(customer, b, g)
      \/ RegisterBinding(b, g)

OwnerStep ==
    \E u \in Users : ClaimCustomerLicense(u) \/ AssignLicenseOwner(u)

CredentialStep ==
    \/ \E v \in Invites : CreateInvitation(v) \/ InviteExpires(v)
    \/ \E p \in Pendings :
         \/ \E status \in {"approved", "rejected"} :
              ApproveInstallation(p, status)
         \/ PendingExpires(p)
    \/ RevokeCard
    \/ CardExpires

PolicyStep ==
    \/ \E r \in Rules :
         \/ \E global \in BOOLEAN, matches \in Patterns :
              SaveBindingRule(r, global, matches)
         \/ RemoveBindingRule(r)
    \/ \E mode \in BOOLEAN : SaveApplication(mode)
    \/ \E u \in BOOLEAN : SetUsable(u)
    \/ CooldownPasses

Next ==
    \/ \E i \in Installations : InstallationStep(i)
    \/ BindingStep
    \/ OwnerStep
    \/ CredentialStep
    \/ PolicyStep

Spec == Init /\ [][Next]_vars

-----------------------------------------------------------------------------
(* Properties *)

Invitations ==
    [status : {"open", "expired"}, used : BOOLEAN,
     key : Keys \cup {None}, owner : Users \cup {None}]
Requests == [status : {"pending", "approved", "rejected", "expired"},
             key : Keys, value : Values]

\* Every row has its columns' types; an invitation that is not used carries
\* no key.
TypeOK ==
    /\ usable \in BOOLEAN /\ allowlist \in BOOLEAN
    /\ rule \in [Rules -> [global : BOOLEAN, matches : SUBSET Values]]
    /\ anchor \in [Values -> GroupIds \cup {None}]
    /\ act \in [Installations -> Rows \cup {NoRow}]
    /\ lic \in [owner : Users \cup {None}, rebinds : 0..MaxRebinds,
                cooling : BOOLEAN]
    /\ card \in {"valid", "expired", "revoked"}
    /\ inv \in [Invites -> Invitations \cup {Missing}]
    /\ pend \in [Pendings -> Requests \cup {Missing}]
    /\ admitted \in [Invites -> SUBSET Keys]
    /\ stale \subseteq Invites
    /\ \A v \in Invites :
         inv[v] # Missing /\ ~inv[v].used => inv[v].key = None

\* The licence never runs on more installations than it was sold for,
\* whether they come with a card, an invitation or an approved request, come
\* back after a release, or are activated again (Activate, Verify).
ActivationLimit == Cardinality(Active) <= MaxActivations

\* The registered anchor groups stay within the terms although activation,
\* pre-registration and rebinding all create them and a new group may take
\* over names of an older one (ensureAnchorGroup, CountBindingGroups).
GroupLimit == Cardinality(LiveGroups(anchor)) <= MaxGroups

\* An invitation admits one installation key in its life, however often it is
\* presented, and however licence, owner and bindings change meanwhile.
InvitationSingleKey == \A v \in Invites : Cardinality(admitted[v]) <= 1

\* No invitation issued before a rebinding or before a change of owner admits
\* anybody afterwards, not even the key that had already used it.
StaleRefused ==
    \A v \in stale, i \in Installations : ~InviteAccepts(v, i)

\* A running installation that is bound to a domain group runs on a name that
\* is still registered: rebinding stops all of them, also the released ones.
DomainsRegistered ==
    \A i \in Active :
      Kind[act[i].value] = "domain" /\ act[i].group \in GroupIds
        => act[i].value \in Live(anchor)

\* docs/platform-implementation.md:22 and lifecycle_test.go:58: after a
\* rebinding the old value fails verification at once; a running installation
\* runs on a value that is registered.
OldValueRefused ==
    \A i \in Active :
      act[i].group \in GroupIds => act[i].value \in Live(anchor)

\* runtime.go:385, "a new domain cannot join an existing binding by itself,
\* apply for rebinding": without a rebinding no request of an installation
\* takes a registered name out of its group.
NamesStay ==
    [][act' # act /\ lic'.rebinds = lic.rebinds =>
         \A v \in Live(anchor) : anchor'[v] = anchor[v]]_vars
=============================================================================
