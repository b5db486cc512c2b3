# A specification of yunnuo-license

yunnuo-license is a self-hosted licensing platform: an administrator sells
licences of his applications, products in the field activate them, stay online
with heartbeats or borrow a seat to work offline, agents resell from a prepaid
balance, and sales channels and customers act through their own interfaces. The
server is written in Go over MySQL or SQLite. These modules model the server, its
maintenance tools and the standard client from their code. Paths below are relative to
`src/backend/internal/` unless they begin with `src/`, `cmd/` or `docs/`.

Contents

1. The system
2. The modules
3. The runs
4. Faults, time and fairness
5. The proofs
6. What the model disagrees with
7. What is not modelled
8. Plan

## 1. The system

### 1.1 How it runs

Every business operation of an application is a function of `licensing/*.go` that
runs inside `scopedApplicationRepository.transaction` (`store/application_store.go`
206-235). The transaction's first statement locks the row of its application, a
write without an audit record is refused (`ErrAuditRequired`), and it commits once
or rolls back. Transactions of *one* application are therefore serial, and an
operation of the licensing core is one atomic step in all the modules here except
where the interesting part happens outside that lock:

* an agent's account belongs to no application, so sales of two applications and
  the administrator's adjustments meet on it (`AgentMoney`);
* a signed request is authenticated in a transaction of its own, before the
  transaction of the operation it asks for (`Requests`);
* `SaveApplication` and `ResetAppSecret` compute the new row from a read made before
  the transaction (`Applications`);
* the integrity check of the audit chain reads page by page while handlers append, and
  the hashing of a package takes time (`AuditTrail`, `Updates`);
* the platform's own operations in `service/*.go` use plain transactions without that
  lock, or several of them, or none (`Identities`, `Recovery`, `Quotas`, `RiskControl`,
  `Security`, `AdminLogin`, `Outbox`);
* files, mail, the configuration and the tools (`Packages`, `Outbox`, `Installation`,
  `Migrations`, `Restore`, `Logs`, `Client`).

A request that is refused rolls back, so a refusal is no step unless it leaves something
behind. Write transactions are READ COMMITTED on MySQL and `BEGIN IMMEDIATE` on SQLite;
`View` reads are repeatable and write nothing. The unique indexes of the database are
left out where they could only turn a step into a refusal.

### 1.2 Inventory

| Component | Code | State it keeps | Operations | Modelled in |
|---|---|---|---|---|
| Floating seats, runtime tokens | `licensing/runtime.go`, `policy.go`, `lifecycle.go` | activation rows (deactivation, lease, borrowed), licence term, card, signed tokens | Activate, Verify, release, borrow, deactivate, rebind, assign, renew, status | `Seats` |
| Bindings, invitations, requests | `licensing/runtime.go`, `binding.go`, `lifecycle.go`, `installations.go`, `catalog.go`, `customers.go` | anchor rows and groups, rules, activation rows, invitations, pending requests | Activate, Verify, register, rebind, claim, assign, invite, approve, rules | `Bindings` |
| Renewal ledger, refunds | `licensing/renewal_ledger.go`, `lifecycle.go`, `sales.go` | dates and terms of a licence, cards, orders | redeem, start, refund, revoke, block | `Renewals` |
| Agents' money | `licensing/agents.go`, `service/commerce.go`, `operations.go`, `store/commerce.go` | balance, orders, statements, tiers, row locks | sale, refund, adjust, tiers, prices | `AgentLedger`, `AgentMoney` |
| Signed requests, metering | `licensing/runtime.go`, `jwt.go` | nonces, usage receipts, used units and their period | authenticate, consume | `Requests` |
| Repository | `store/application_store.go` | the transaction | lock, commit, rollback | `AgentMoney`, `AuditTrail`; elsewhere assumed |
| Applications, signing keys | `licensing/access.go`, `keys.go`, `developers.go` | application row, key ring | save, reset secret, rotate, sign, verify | `Applications` |
| Sales channels, webhooks | `licensing/sales.go`, `catalog.go` | channels, orders, cards, receipts | create, confirm, cancel, receive, rotate, refund | `Sales` |
| Audit chain | `store/application_store.go`, `licensing/lifecycle.go` | events, sequence, head | append, roll back, check | `AuditTrail` |
| Packages and backup | `licensing/updates.go`, `service/releases.go`, `release_delete.go`, `store/backup_releases.go`, `maintenance/backup.go` | files, rows, file lock | upload, delete, clean up, back up | `Packages` |
| Updates | `licensing/updates.go` | manifests | choose, check, hash, check again | `Updates` |
| Security cases, downloads | `service/security.go`, `releases.go`, `store/security.go` | cases, appeals | report, review, appeal, download | `Security` |
| Outbox | `service/outbox.go`, `store/outbox.go`, `service/email.go` | notification rows with leases, mail settings | enqueue, claim, send, finish, retry, settings | `Delivery`, `Outbox` |
| Administrators | `service/admin_auth.go`, `admin_mfa.go`, `admin_login.go`, `developers.go` | account, second factor, challenges, sessions | log in, enrol, confirm, disable, reset | `AdminLogin` |
| Users, members, recovery | `service/customers.go`, `agent_identity.go`, `agent_auth.go`, `recovery.go` | users, members, codes, sessions | create, publish, sign in, recover, change | `Identities`, `Recovery` |
| Captchas, limits | `service/captcha.go`, `store/captcha.go`, `httpapi/middleware.go` | images, counters | issue, consume, count, clean up | `Captcha`, `EntryLimits` |
| Risk control | `service/risk_control.go`, `store/risk_control.go` | block rows, failure counters | look up, lift, block, order | `RiskControl` |
| Setup | `service/setup.go`, `config/config.go`, `httpapi/installation.go` | configuration file, keys, first administrator | start, install, stop, gate | `Installation` |
| Migrations | `store/migrations.go`, `history.go` | scripts run and recorded, columns, lock | lock, run, record, add column | `Migrations` |
| Restore | `maintenance/backup.go`, `store/snapshot.go` | directory, database, destination | unpack, check, import, publish | `Restore` |
| Log archives, exports | `store/log_archive.go`, `maintenance/log_archive.go`, `store/history.go`, `service/history.go` | log rows, archives, history rows | archive, export | `Logs` |
| Agents' card quota | `service/commerce.go`, `card_management.go`, `operations.go` | quota lines, batches, cards | buy, grant, use, void | `Quotas` |
| V1 authorization | `service/service.go`, `installations.go`, `customers.go`, `authorization_terms.go` | bindings, installations, seats, tickets | activate, kick, rebind, seats, claim, revoke | `Classic` (routes answer 410) |
| Standard client | `src/examples/universal-client`, `src/sdk/go` | identity, state file, package | open, verify, borrow, release, update | `Client` |
| Expiry reminders | `service/expiry_reminders.go` | - | never scheduled | not modelled |
| HTTP decoding, console, deployment | `httpapi/api.go`, `src/frontend`, `src/deploy` | - | - | not modelled |

How they interact: `Activate` and `Verify` call, in one transaction, the
authentication of the request, the check of application and licence, the rules and
anchors, the quotas, the lease, the card, the audit record and the signing of
tokens. `refundOrder` reaches from an order to licences, cards, and, through the
cards, to licences of other orders, and to the agent's account. A rebinding or a
change of owner reaches activations and invitations. The administrator's tiers,
prices and statuses are read by sales that run at the same time. A failed login counts
in `EntryLimits` and `RiskControl`, consumes a picture of `Captcha`, and may queue a
mail in `Outbox`; a backup waits for the lock of `Migrations` and for the file lock of
`Packages`, and `Restore` reads what it has written.

What is hard about it: rows whose meaning depends on several columns written by
different handlers (`DeactivatedAt` with `DeactivationReason` and `LeaseUntil` with
`Borrowed`); counters that are reset only when somebody looks (`UsedUnits`); dates
computed in two ways (step by step by redemptions, at once by a refund); money
written back from an earlier read; retries with the same identifier; nonces that are
deleted again; deadlines that another deadline cuts; checks made before a lock, a hash
or a password function and used after it; two rows that must carry the same password;
files and rows that no transaction covers together; MySQL's DDL, which commits by itself.
`PROJECT.json` lists each hazard at its line, with the properties aimed at it.

What makes each part correct:

* seats: never more running leases than seats; a borrowed seat is not lost; a token
  does not outlive its seat; revocation is final;
* bindings: quotas of installations and groups; after a rebinding the old values and
  credentials are worthless; a running installation runs on a registered name;
* renewals: a licence is good for what was paid and not refunded, to the day;
* sales: an event of the shop is one order, a refund is final, a card is sold once;
* money: no lost update, no overdraft, no double sale, the agreed price;
* requests: a message takes effect once, an idempotency key is charged once, quotas
  hold in every month;
* applications: nobody's edit undoes what it has not seen; what a key has signed stays
  valid until it expires;
* audit: an honest chain is never called broken;
* packages, updates, downloads: no package is lost; what is handed out is deserved when
  it is handed out;
* accounts: a session stands for the present password and factor; codes, challenges and
  pictures count once; a login belongs to one person;
* outbox: every mail is sent or given up, twice only after a fault;
* upkeep: one first administrator, one key per database, scripts in order, nothing half
  restored, no log row lost.

## 2. The modules

State and actions have the names of the code where TLA+ allows it; `PROJECT.json`
`"map"` gives the lines of each definition. Definitions introduced by "Mutant:" are
wrong versions of a neighbouring definition. No behaviour of a module uses them;
each is there to show that the property named in `PROJECT.json` fails once it takes
the place of the right one.

### 2.1 The licensing core

**Seats**. One floating licence. A row of `act` is an activation: its `state` folds
`DeactivatedAt` and `DeactivationReason` ("released" is `client_release`, after which
a heartbeat brings the row back; "disabled" is every other reason), `lease` is
`LeaseUntil`, `borrowed` the flag. `grant` is not in the database: it is the latest
expiry of an offline token signed for a borrowed seat, what an installation in the
field can rely on. The operators `ActiveAt` and `HoldsSeat` are the two filters of the
store that count seats, for an activation (every row that is not deactivated and has
no lease or an unexpired one) and for a heartbeat (unexpired leases only).
`Activate`, `Verify` (with or without a renewal card), `Release`,
`DeactivateInstallation`, `CustomerDeactivate`, `Rebind`, `AssignLicenseOwner`,
`SetLicenseStatus`, `CustomerRenew`, `RevokeCard`, `SaveApplication` and `Tick` are
the handlers. The first activation computes the lease *before* `startLicense` gives
the licence its expiry, so that lease may end after the licence; the token does not,
because it is cut by the started licence (`GrantWithinSeat`).
An activation shows a credential (`Credential`): the licence's card, which admits every
key until it is revoked or past `RedeemUntil`; an installation invitation, which the key
that used it first may use again; or a request of its key, which stays approved. `card`,
`inv` (nobody's, "open", or the key that used it) and `approved` are their rows; that
one expires is an event. The last two do not look at the card, so an installation that
was disabled comes back with a used invitation of its own although the card is revoked;
what holds is `ShutOut`: who is out of service and has no credential of any kind left
(`shut`, a history variable) stays out until the issuer gives out another.

**Bindings**. One non-floating licence. `anchor` maps a value to the group its row
belongs to (`None` when there is none or it is replaced); `rule` is the live scope and
pattern of each rule, since `Verify` looks at the rule as it is and not as it was.
`card`, `inv` and `pend` are the three credentials that admit an installation. An
invalidated invitation is a used one with an empty key, as the code writes it.
`admitted` and `stale` are history. `EnsureAnchorGroup(b, g, rows, new)` is a relation
between the declared binding, the group it ends up in, and the anchors before and after
it; `Rebind` starts it from no anchors at all because it has just replaced them.
Deadlines are events that may happen at any time (`CardExpires`, `InviteExpires`,
`PendingExpires`, `CooldownPasses`), and the status and term of application and licence
are one flag, `usable`: no property here depends on the length of time and `Seats` has
the term in full. An approved installation request survives a rebinding and a change of
owner; the code does that and the model does the same.

**Renewals**. Target licences with two tracks, "usage" and "updates"
(`DurationDays`/`ExpiresAt` and `UpdateDurationDays`/`UpdatesUntil`). `Redeem` advances a
date; `RefundOrder` revokes the licences and cards of an order, marks the cards refunded
and rebuilds every target they had been spent on with `Recompute` (`recomputeRenewals`).
The recursion over cards in order of use is a recursive function. `AddDate` in days and
multiples of 24 hours agree because the server's times are UTC; the clock counts days.

**Sales**. The orders of an administrator (`CreateSale`, confirmed or cancelled later)
and of a shop whose webhooks arrive again, late and in any order (`ReceiveSale`) under
a secret that is rotated; activation with a sold card, refunds, and status changes of
licences and cards afterwards. A receipt answers a repeated event; a refund that comes
before its payment is refused without a trace and must be sent again by the shop.

**AgentLedger and AgentMoney**. `AgentLedger` is the promise: each account changes by
whole operations, a repeated request has no second effect, nothing leaves `0..MaxMoney`.
`AgentMoney` is the code: every worker runs a transaction in three steps, with the
application's lock, with the agent's lock and its reads, and with its writes. `seen` and
`quote` are the values read in the middle, used at the end. Sales and refunds change the
balance relative to the row (`Move`); adjustments and tier changes write back what they
have read, so they depend on the agent's lock. `Administer` holds the short transactions
that change what a quote depends on, each under the lock the code takes. `Crash` ends a
transaction anywhere without a write. `Ledger == INSTANCE AgentLedger`, with the
variables `balance`, `orders` and `adjusted` standing for themselves, is the refinement
mapping. The money event of a refund has the RequestID `refund:` plus the order's ID, in
the namespace of the RequestIDs agents choose; the model keeps the two apart (an agent
would have to know the ID of an order not yet made).

**Requests**. `Messages` may be delivered at any time and again.
`VerifyInstallationRequest` checks the timestamp and takes the message; `Reserve` is the
transaction that deletes some expired nonces (the 100 youngest in the code, any
`CleanLimit` of them here) and inserts this one; `Consume` the transaction of the
operation; `Fail` every refusal, timeout and crash. The period of a receipt is a month,
or 0 for a quota of the whole life. `Reserve` may come any time after the check: locks are
waited for with a limit (`innodb_lock_wait_timeout`, SQLite's busy timeout), a free
connection of the pool without one. `MaxWait` is what is left of `NonceTTL` (5 minutes)
after both sides of the timestamp window (2 minutes each), one minute. `AdmittedOnce` says
that no copy passes which waited no longer than that; one that waited longer is admitted
again in the model as in the code, once the nonce is over.

**Applications**. `appRow` is the row, `ring` the key ring. An editor reads the row when
it checks who may act, and writes in a later transaction: `SaveApplication` takes the
columns it does not edit from the row as it is then and refuses a changed
`SecretVersion`, `ResetAppSecret` increments the version it has read and refuses the
same. Rotation retires a key at once or after an overlap; `AcceptUntil` is the later of
the overlap and the latest expiry the key has signed. A save whose form leaves the status
out writes back the status it has read, and so may undo a concurrent change of status;
no text promises otherwise and `NothingUndone` does not claim it.

**AuditTrail**. A transaction takes the application's lock, appends events that chain to
the committed head and commits or rolls back. `AuditIntegrity` reads the head, then pages
of events, each by a query of its own; only events up to the head it has read are
checked. The HMAC is an injective function of the event and its predecessor.

**Packages**. A file is nowhere, a temporary file, at its path or in the trash: `place` as
running processes see it, `durable` as a loss of power would leave it, brought together
by `SyncDirectory`. V2 uploads
rename inside the transaction of the row, V1 deletions move the file away before the
row changes; commits may fail or lose their answer; stale files are cleaned up by age
and by looking for their rows; a backup copies rows first and files second under the
shared lock. An upload whose connection is lost during `COMMIT` leaves its row "sent"
until the database carries the commit out or not (`SettleCommit`), which may be after
the handler has looked for the row in vain and removed the file; until then the
transaction keeps `release_storage_lock`, which other uploads and deletions wait for.
`PackagesKept` excepts such rows (`early`) as long as they are not published: publishing
reads the file first, so nothing is offered for download that is not there. A *deletion*
whose commit takes effect late leaves a file without a row, which no property is about;
in the model it is done before the handler looks.

**Updates**. `Choose` walks the rows in the order of the database and keeps the better
one (`Prefer`: version, then the specificity of the target); `authorizeUpdate` cuts the
manifest by the update term, the term of use and a floating lease. The request holds the
application during the hashing, so only time passes; what the code checks again after it
is redundant for the terms, which the model shows by not needing it.

### 2.2 The platform

**Delivery and Outbox**. `Delivery` promises that a mail is called sent only when the
server has taken it and that every queued mail is sent or given up. `Outbox` is the table
of rows with status, attempts and lease, the order in which they become due (`line`),
workers that claim, load the settings, send and record the outcome, and the
administrator's forms for the settings, which are read and written in two steps. The
refinement maps a row that waits, is being sent or is to be retried to "queued".

**AdminLogin**. A login in three steps (password, second factor in a transaction, token
for the account as first read), enrolment and removal of the factor with their
challenges, change and reset of the password, disabling and enabling. `consumed` and
`opened` are bags of the codes and challenges that let somebody in.

**Recovery**. The two rows of one person, a user and an agent's member, that share a
password. Codes are issued for either row, redeemed, and the person or the operator
changes the password in transactions that take the two row locks in different orders; a
waiter is not refused but waits, and a cycle of waiters is broken by the database
(`RollbackCall`).

**Identities**. Names and addresses over the tables of users and members. `Registrars`
create users, members and accounts of agents in transactions that check availability and
insert; they queue for one row first. At the start of the server members of older
releases get a user row (`EnsureAgentIdentities`). A visit of a member's session reads
person and agent one after the other.

**Captcha, EntryLimits, RiskControl**. The image that is consumed by a conditional
update; the two counters of an address and their clean-up, which belong to one server
process and are lost with it (a restart is more lenient, never stricter); the blocklist,
whose rows are placed by upsert and lifted by whoever meets one that has run out.

**Security**. Cases, appeals and downloads: `DownloadRelease` checks entitlement,
restriction, release and settings with separate reads, hashes, and checks again.
`witnessed` records for each download what held at some moment from the end of the
hashing on.

**Quotas**. The quota ledger and the batches of an agent; `VoidCardBatch` counts the
unused cards and updates them in two statements, so cards used in between are refunded as
well: quota may come back too often but is never lost (`NoQuotaLost`).

**Installation, Migrations, Restore, Logs**. One server process with its configuration
file and the databases it may be pointed to; the processes that bring one database to a
release's schema under the advisory lock; runs of the restoring tool; runs of the
archiving tool and the exports of histories in pages. See section 4 for their faults.

**Classic**. The first engine, whose routes answer 410 but whose code the server still
contains and whose rows it still reads. Every transaction locks the licence's row first;
only `ReleaseSeat` takes two. Two of its habits are modelled as they are: an installation
that was unbound cannot be activated on a new binding under the same instance ID, and
`AdminUnbind` of a revoked binding answers success, after which a restoration brings the
binding back.

**Client**. Two processes on one data directory. Each reads `license.json`, works and
writes it back whole, so a `serve` that ends last overwrites the seat another process has
borrowed; the model has this, and `ClientSound` says what is nevertheless true: one
identity, no lease of another session is ended, no package without a right.

### 2.3 Composition

Parts that share rows are in one module (a refund reaches orders, cards, licences and
accounts: `Renewals`, `Sales` and `AgentMoney` each model the part of it that touches their
state). The other modules share no variable with each other because their code shares no
row, or because one reads of the other only what a constant can stand for. `Platform`,
`Application` and `Accounts` put those side by side: `part` is chosen in the initial
state and one component moves while the others stay at one initial state, so a run
explores the sum of the components' states and not the product; every initial state
of the part that moves is kept. No property relates two of those components, so the
interleavings left out could show nothing.

### 2.4 MC modules

`MCSeats`, `MCBindings`, `MCAgentMoney`, `MCOutbox`, `MCPlatform`, `MCApplication`,
`MCAccounts` and `MCCaptcha` give the constants values and name the symmetric ones. The
properties of a composition that concern several of its components (`PlatformSound`,
`DownloadsSound`, `EntryGuarded`) are conjunctions of theirs, stated in `Platform`,
`Application` and `Accounts`. The configurations replace no definition.

## 3. The runs

| Run | Question | Distinct states (about) |
|---|---|---|
| `seats` | are seats, borrowed seats, tokens, revocation, exclusion safe? | 1 268 000 |
| `bindings` | do the quotas hold, do domains stay registered? | 508 000 |
| `invites` | do invitations admit one key and die when they should? | 318 000 |
| `agent_money` | is concurrent money serialisable and exact, and does every transaction end? | 91 000 |
| `outbox` | is every mail sent or given up, and doubled only after a fault? | 165 000 |
| `platform` | dates paid for, sales, card quota, setup, migrations, restore, archives | 548 000 |
| `application` | requests, row and keys, audit, packages, blocks, downloads, updates | 647 000 |
| `accounts` | logins, recovery, captchas, limits, names, first engine, client | 584 000 |
| `seats_borrow`, `old_value`, `names`, `captcha_retry` | the four disagreements of section 6 | until the violation |

Bounds, and why they are enough for these questions:

* `seats`: two installations compete for one seat; `Duration` 2 and `Grace` 1 are
  longer than `SeatLease` 1 so that leases end before and after the term; `TokenHorizon` 2
  is longer than a lease, so that a token must be cut; borrowing 3 outlives the term; one
  renewal before or after the activation; the clock runs to 3, the end of a term without
  renewal and its grace. A key for each installation, one card and one invitation, so that
  a key may have either, both or, with the request, neither. `seats_borrow` adds the
  borrowing 1, which shortens another, and a clock up to 4. Seats of more installations
  are covered by the proof.
* `bindings`: two domains (aliases of each other, or of two groups), one machine, one
  rule whose pattern covers one domain, one activation sold, two groups, one rebinding,
  hence before and after it. Three group identifiers: one more than can be live.
* `invites`: one value and no rule, one invitation, one request, two keys, two
  customers: two keys are what the first-use rule tells apart, two customers what a
  change of owner needs.
* `agent_money`: two workers on one agent, two applications, a sale, its retry under
  another price, a sale of the other application with the same RequestID, a credit and a
  debit that reuse one RequestID (`MCAdjusts`); two orders; cap 3 with an opening balance
  of 2, so both ends are reached. A deadlock needs two transactions and two locks, which
  are there.
* `outbox`: two notices, one for an agent and one whose secret cannot be read; two
  workers on one database; two attempts before a notice is dead; one fault and one retry
  by the administrator. One fault is enough for a lease to end under its worker, and a
  revival for an attempt number to recur.
* `platform`, renewals: one target, usage cards of 1 and 2 days and an update card of 1
  day; the target, the first two cards and the third card come from three orders, so
  refunds take away the target, two credits at once, or one in the middle; one card lapses;
  days 0 to 2 give redemptions before the activation, within the term and after a gap;
  `RenewalBound` suspends the application on the first day only.
  Sales: two events, two card digests and three orders, so that one event may meet two
  orders and one card two buyers. Quotas: two requests, packages of two sizes and costs,
  three lines of the ledger and one grant: a purchase, a grant and a voiding in any order.
* `platform`, upkeep: two installers, two databases and three starts (before, between and
  after an interruption), two failed writes; two migrating servers and a backup, releases
  with a script more and with a changed script, two interruptions (one half-run script
  and one unrecorded one); three archives of which one is damaged and one holds no dump,
  two destinations and two databases; two archiving tools, three outputs, four rows in
  batches of two, one stop; histories of three rows in pages of one.
* `application`: a message, its retry under a new nonce, a conflicting one that shares the
  nonce of the retry, and one of another key; two workers; the window 1, a lifetime of
  exactly `2 * Window + MaxWait`, months of 3 in a clock up to 4, so a nonce is
  deleted while a copy of its message is on the way, a copy that waited longer than
  `MaxWait` is admitted again, and two periods are entered. An
  administrator and a developer edit while one reset and one rotation pass; a token of
  lifetime 2 against an overlap of 1, followed until the secret is reset
  (`ApplicationBound`). Two writers of audit events, pages of one event,
  four events. Two V2 releases and a V1 release in a store for two packages. Two
  visitors, a block after two failures for one tick of three. One owner and one stranger,
  one signal that may occur twice. Three builds that differ in version, target and least
  version; manifests that live 2 ticks against terms and leases that end within the clock.
* `accounts`: two logins side by side, one backup code, two time steps of the factor, one
  secret after the first, three versions of the account, the last one with one request at
  a time (`LoginBound`); two recovery calls, two codes and two passwords, with
  `RecoveryBound` cutting behaviours that have both the second code and the second change
  of version, or a session and two calls; two pictures; two values, instances and users of the
  first engine with one binding, seat, ticket, card and change allowed, so each quota is at
  its limit with the first row, and `ClassicBound` following neither ticket nor renewal
  once a second binding was made; two client processes and one seat; three people, two
  agents, three login names, one address, two registrars, one of them while a member's
  request is followed (`IdentitiesBound`); two entrants, windows of 2 and
  two ticks with maps that are cleaned at 2 entries.

`seats`, `bindings`, `invites`, `agent_money`, `seats_borrow`, `old_value` and `names`
check for deadlock. The
composed runs and `outbox` do not: their components really stop, when all messages are
out of their window, a server serves, a mail is sent and the bounds are used up.
Symmetry is declared where values differ by name only, and not in runs that check
liveness.

## 4. Faults, time and fairness

Faults the code meets and the models let happen anywhere:

| Fault | Where |
|---|---|
| messages repeated, reordered, lost | `Requests`, `Sales` (webhooks), `AgentMoney` (retries with one RequestID) |
| a transaction cut off between its steps | `AgentMoney.Crash`, `Requests.Fail`, `Recovery.RollbackCall`, `Quotas`, `AuditTrail` (rollback) |
| a commit that fails, or succeeds and its answer is lost, at once or later | `Packages`, `Outbox.LoseOutcome` |
| a stopped or killed process | `Packages`, `Outbox.Stop` (a shutdown cancels the context of the write of the outcome, so it is the same), `Installation.Stop`, `Migrations`, `Restore`, `Logs`, `Client.Crash` |
| a loss of power | `Packages.durable` |
| a slow worker whose lease ends | `Outbox.LeaseEnds` |
| a failing disk or database | `Installation` (`MayFail`), `Logs`, `Restore` |
| checks that become stale | `Security`, `AdminLogin`, `Identities`, `Applications`, `Updates`, `RiskControl` |

Not faulted: the connection that holds MySQL's advisory lock is not lost while its
holder goes on; `config.json` reaches the disk when it is written (it is not fsynced);
two servers do not race `Initialize` on one database, which no lock of the code
excludes; the restoring tool is alone on its database.

Clocks are bounded counters where durations are compared (`Seats`, `Renewals`,
`Requests`, `Applications`, `RiskControl`, `AdminLogin`, `Classic`, `Updates`,
`EntryLimits`) and events that may happen at any time elsewhere.

`FairSpec` of `AgentMoney` asks strong fairness of `Proceed(w)` for each worker: a
running transaction that can take its next step again and again does. InnoDB
grants a row lock to its waiters in the order of their requests; on SQLite a transaction
has the database's only write lock from its beginning (`BEGIN IMMEDIATE`) and waits for
nobody after that; a worker is a goroutine that does not wait for anything else.
Weak fairness would allow a waiter to be overtaken for ever. Nothing is asked of
`Start`, `Crash` and `Administer`: no request need arrive, and the transactions end
without being cut off.

`Spec` of `Outbox` asks weak fairness of each worker's own steps (`Work`), of its being
started again (the process manager, `StartNotificationWorker`), and of time: a backoff
and a lease end. `Delivery`'s `Settles` (every queued mail is sent or given up) follows
with finitely many faults (`MaxFaults`): a delivery that is slower than its lease for
ever, or a process that is killed for ever while sending, would keep a mail queued,
since claims count the attempts and only a worker that gets to the end compares them. All
other properties are safety and need no fairness.

## 5. The proofs

Every invariant and every safety action property of the passing runs is also a theorem,
checked by TLAPS for all values of the constants that satisfy the assumption of its
module: any number of workers, rows, cards, terms, pages. The runs came first (also of
the strengthened invariants, as invariants of a run) and remain: they show that the
hypotheses are met, and find a wrong formula in a minute where a proof only gets stuck.

| Proof module | about | stated properties |
|---|---|---|
| `SeatsProofs` | `Seats` | `SeatLimit`, `BorrowReserved`, `GrantWithinSeat`, `RevocationDrains`, `ShutOut` |
| `BindingsProofs` | `Bindings` | `ActivationLimit`, `GroupLimit`, `DomainsRegistered`, `InvitationSingleKey`, `StaleRefused` |
| `AgentMoneyProofs` | `AgentMoney`, `AgentLedger` | `BalanceInRange`, `Conservation`, `OncePerRequest`, `StatementExact`, `SoldAtPrice`, `Serializable` |
| `ApplicationsProofs` | `Application` and its seven components | `ChargedOnce`, `AdmittedOnce`, `QuotaHeld`, `RemainingExact`, `ApplicationSound`, `NoFalseAlarm`, `PackagesSound`, `OrdersStand`, `DownloadsSound` |
| `OutboxProofs` | `Outbox`, `Delivery` | `DuplicatesExcused`, `SentIsFinal`, the safety half of `ImplementsDelivery` |
| `AccountsProofs` | `Accounts` and its seven components | `LoginSound`, `RecoverySound`, `EntryGuarded`, `ClassicSound`, `ClientSound`, `IdentitiesSound` |
| `PlatformProofs` | `Platform` and its seven components | `SalesConsistent`, `QuotaSound`, `LedgerExact`, `EntitlementPaid`, `PlatformSound` |
| `Sums` | lemmas | sums over finite sets, greatest values, recursion over finite sets |

A property that speaks of several components of a composition (`PlatformSound`,
`DownloadsSound`, `EntryGuarded`) is proved from `EveryPart`, `EveryComponent` and
`EveryAccount`: a behaviour of the composition is one of each component, whose theorem
then applies. The other theorems of these modules are about a component's own
specification and carry over in the same way.

### 5.1 Licensing

**Seats**. `TypeOK` is inductive. `SeatLimit` is inductive together with it: only
`Activate` and `Verify` can add a live lease, each adds that of its own installation, and
the two ways of counting are compared by `Seats \ {i} \subseteq Others(i)`; everything
else adds none (`NoNewSeat`), also time. The three action properties follow from the type
invariant action by action (`StepActions`); `VerifyEffect` sums up the two branches of a
heartbeat once for all of them. `ShutOut` is inductive with the part of `ShutInv` that it
does not say itself: whoever is in `shut` has no credential (`Standing`), so that no
branch of `Credential` is open to it (`ActivateShut`); a heartbeat finds no row to resume
(`InstallationShut`), and the steps that give out credentials take their keys' installations
from `shut`, which is what the history means (`CredentialShut`).

**Bindings**. `IInv` adds to the quotas what credentials hold (`CredentialInv`): an
invitation that was not used has admitted nobody and has no key; one that was used admitted
at most the key in its row (`InviteBound`); one made stale by a rebinding or a new owner is
used, by no key (`StaleDead`), which is why a stale invitation is refused by the check that
refuses used ones. `GroupLimit` rests on lemmas about `EnsureAnchorGroup`, the relation all
three ways of registering share.

**AgentMoney**. `IInv == TypeOK /\ Held /\ Known /\ BalanceInRange /\ OncePerRequest`.
`Held` relates progress and locks: a running transaction of an application holds that
application's row, one that is ready holds its agent's. `Known` is what it may rely on
because of them: the balance it has read is still the balance, a sale that has passed its
look-up has still no order under its RequestID, a refund that has passed its check still
has a confirmed order. `SoldAtPrice` needs `Quoted`: the quote of a sale that is ready is
the one it would compute now. `Conservation` is inductive with the finiteness of what has
been adjusted and sold (`Conserved`), by the sums of section 5.5. `Serializable` is the
refinement: the initial states map to initial states (`LedgerInit`) and each step is a step
of `AgentLedger` or leaves its variables alone (`LedgerStep`).

**Requests**. `AdmittedOnce` rests on `StampChecked` (what a worker holds was within the
window when it was checked) and `NonceKept` (the nonce of an admitted message is kept up to
the last moment at which a copy could be admitted, also by a worker that has checked it
already). The step that needs `NonceTTL >= 2 * Window + MaxWait` is the reservation
(`ReservedLongEnough`); a worker that waited longer than `MaxWait` may reserve a message's
nonce again, and `NonceKept` holds of it all the same.
`QuotaHeld` and `RemainingExact` follow from `UsageInv`: the usage in the row is what the
receipts of the row's period add up to, no receipt is of a later period, and the period
never goes back.

**Applications, AuditTrail, Packages, RiskControl, Security, Updates**. `AppInv`: keys are
used one after the other, a retired one is accepted as long as the longest token it has
signed, and the secret's version counts the resets. `AuditInv`: the committed chain
is complete, a draft extends it while its writer holds the lock, and what a check has read
is a complete chain up to its number, whose last hash it knows; the chain only grows
(`Extends`), so the pages it reads later fit. `PkgInv` says for each release where its
file is, on the disk too, given its row and how far its request has come. `RiskInv` and `SecurityInv`
carry what a request has seen; `UpdatesInv`, that a manifest that still holds ends within
every term of its licence. `ChoiceBest` is about `Choose`, a recursive function over the
rows: `BestsExist` shows that the function exists, `ChooseBest` that its value at each n is
the best of the first n rows that fit, and `ListedAll` that the rows of the database, in
any order, are all the published ones.

### 5.2 Renewals, sales, quotas

**Renewals**. The code keeps one date and advances it card by card; `LedgerExact` says what
that date is for the *set* of cards: the greatest of "base term plus all the cards" and,
for each card, "from the use of that card on, it and all the later ones" (`PaidBy`). The
invariant has this for each track (`TrackExact`) with every use at or before now. A
redemption now adds the card's days to each of these sums and one more candidate, which
begins now; so the greatest of the new ones is the later of the old date and now, plus the
days (`Redeem`). A first activation moves every start of a card to the day of the activation.
A refund rebuilds the date by replaying the cards that are left in order of
use: the replay is a recursive function over subsets, of which the proof shows that
it exists and that it has the same greatest value after each card. `EntitlementPaid` (no
refund gives anybody a day) follows: with fewer cards every sum is smaller.

**Sales**. `SalesInv`: orders are numbered in sequence, confirmed orders are those that have
a card and a licence, each event has one receipt, and an order of the shop is never
pending.

**Quotas**. `CountsCover`: while a voiding runs, what it has counted is at least what is
still unused, since cards leave a batch and none comes to it; the refund at its end thus
covers what it has voided. The ledger's lines and the account are sums.

### 5.3 Accounts

**AdminLogin**. `AdminInv`: with the same version of the account, the password and the
disablings are those that were seen (`SeenIs`), for an attempt, a challenge and a session;
a code that was consumed (`SpentCode`) and a challenge that was opened (`Gone`) name a state
of the factor that does not come back. **Recovery**. `RecInv`: who holds which row lock, and
that a code that was checked stays good while its account is locked; with both rows written
in one transaction the passwords agree. **Identities**. `IdInv`: who has checked that a name
is free holds the one row creators queue for. **Captcha**, **Client**: a picture that let a
request pass is used; a process that may write has had the right.

**Classic**. Not the active bindings but those that are active *or would be again*
(`Alive`: active or revoked) are within the terms, since a restoration brings them back
together (`AliveWithin`, `RevokedTogether`); installations and devices are counted on these
too.

**EntryLimits**. Windows begin with the first event, so no interval is aligned with them.
`Limited` says that an open window has counted exactly its events, and that the events
before it, as far back as an interval of its length can reach, leave one of the bound: an
interval that touches two windows has at most twice the bound minus one. The failures counted and those still under way never exceed
`Threshold - 1 + Cardinality(Entrants)`, for the lockout is looked at when a request enters
and the failure recorded when it leaves.

### 5.4 Upkeep and the outbox

**Installation**: the process follows its file, one request is inside, and everything sealed
in a database is sealed with the file's key (`SealedByFile`). **Migrations**: the lock is
held by who works, and a script was begun once, or once more for each interruption
(`BegunOnce`). **Restore**: what the running tool has made sure of is still so
(`RunAlone`). **Logs**: each row is in the table or in an archive, and in at most one more
archive than there were stops (`RowSafe`), one run at a time holds rows; the pages an export
has read are the front of its snapshot (`ExportReads`), with `Selected` a recursive function.

**Outbox**. `Types` includes the queue: every row that waits has exactly one place in the
line (`Lined`). `Safe` says who owns a row that is being sent (`Owned`: one worker, whose
attempt is the row's, unless the row is excused), how often the mail was taken (`Counted`),
and that what a worker will write down is what happened. `DeliverySafe` is the refinement:
`Promise!Init /\ [][Promise!Next]_(Promise!vars)`.

### 5.5 Sums, recursion and induction

The provers cannot instantiate the library's induction theorems, whose parameter is an
operator, so facts about recursive functions are proved by a least counterexample: the
least number of a set of naturals (`LeastNumber`) or a minimal finite set (`LeastSubset`,
from the well-foundedness of strict inclusion, stated for sets). A recursive function stands
for a `CHOOSE`; that a function with the recursion exists, and only one, is shown first
(`SummingExists`, `SummingUnique`, `RecursExists`, `FirstsExist`, `BestsExist`).
`SumFunctionOnSet` of the community modules is such a function; `SumRemove`, `SumAdd`,
`SumSame`, `SumUnion`, `SumSubset` and `SumZero` are what the components need of it.
The definitions that stand for sums and choices use these forms rather than a fold with a
`LAMBDA`, which the provers cannot open.

### 5.6 Assumptions

The assumption of each module gives constants their types, makes finite the sets whose sums
or cardinalities occur (installations, cards, notices, entrants, builds, ...: a database's
rows), and keeps the values that mean "nobody" and "none" apart from the others. Two say more:
`RequestsAssumption` has `NonceTTL >= 2 * Window + MaxWait` (5 minutes, 2 minutes and one,
section 2.1), and `IdentitiesAssumption` that the name made from the random ID of a legacy member is
not that member's old name. Bounds such as `MaxFaults`, `MaxTicks` or
`MaxManifests` are constants like the others: the theorems hold for every value of them.

### 5.7 What is only model-checked

* `TransactionsEnd`, and of `ImplementsDelivery` the liveness half (`Settles`): they rest on
  fairness, hence on ENABLED, which the installed provers do not treat.
* The four properties of section 6 are false; each has its counterexample.

## 6. What the model disagrees with

Four statements of the documents, comments or messages do not hold of the code; each has
a run that ends in a counterexample, and an entry under `"findings"`.

* `seats_borrow`: a borrowed seat "occupies the quota until its deadline"
  (`docs/authorization-v2.md:52`). An installation that borrows again for a shorter time
  replaces its lease with the shorter one while the offline token of the first borrowing
  stays valid, so another installation takes the seat and two run at once. `Activate`
  refuses the return only of an activation with `BorrowSeconds` 0
  (`licensing/runtime.go:269`).
* `old_value`: "after a rebinding the old value fails verification at once"
  (`docs/platform-implementation.md:22`). `Rebind` deactivates the rows that are not yet
  deactivated; one that the client had released keeps `client_release`, a heartbeat brings
  it back, and values other than domains are compared with the row itself.
  `DomainsRegistered` shows that domains are safe, `OldValueRefused` that machines (and
  addresses) are not.
* `names`: "a new domain cannot join an existing binding by itself, apply for
  rebinding" (`licensing/runtime.go:385`). With the new domain declared as the primary and
  a registered one as its alias, `ensureAnchorGroup` makes a new group that takes over
  the registered name; the installations of the old group then fail verification.
* `captcha_retry`: "right or wrong, each captcha can be tried only once"
  (`store/captcha.go:36`). The update that consumes an image has the answer's hash in its
  condition, so a wrong answer leaves the image as it was. `CaptchaOnce` holds.

Behaviour the models keep and no document contradicts, worth a reader's attention:

* an approved installation request outlives a rebinding and a change of owner;
* a card that is revoked after its redemption leaves its credit with the licence, as only
  a refund takes it back;
* two administrators who save the mail settings at once may undo each other's password,
  since an empty password keeps the one that was *read* (`service/email.go:114`);
* two requests for a recovery code at the same moment may both send a mail, the minute
  between two mails being checked before the row is locked;
* after a resolved case was confirmed again, the old, closed appeal is what its owner
  gets, and no new one can be made;
* the upsert of a block keeps the `expires_at` of the row it meets: a manual block on the
  row of an automatic one that has run out lasts until the next request lifts it, and an
  automatic block on a disabled manual row never ends. `OrdersStand` is about blocks placed
  on a free row for this reason;
* an expired block of a product admits the one request that lifts it although a block of
  all products exists; failures of every kind count for the automatic block;
* a server that stops between `EnsureBootstrapAdmin` and the write of `config.json` leaves
  a database with an administrator, and `/install` refuses it from then on, as the
  documents say it should any installed platform;
* a log row is in two archives after a run that was stopped between publication and
  deletion.

## 7. What is not modelled

* **Expiry reminders** (`service/expiry_reminders.go`): the scan is complete, but
  `cmd/server/main.go` (72-74) starts the notification worker only, so no behaviour of
  the program contains it.
* **Cryptography**: signatures, hashes and the HMAC chain are perfect; canonical forms of
  domains and machine codes are atoms with a kind; pictures of captchas.
* **HTTP decoding, routing, status codes, pagination**: `httpapi/*.go` apart from the
  limits, the installation gate and the cut-over to V2, which answers the V1 routes with
  410. A route that is refused changes nothing.
* **Operation logs, statistics, online state, resource metrics**: rows written next to a
  request for people to read; nothing decides on them. Their archiving is in `Logs`.
* **Profiles, names, texts, templates, site settings, the Vue console, the deployment
  scripts**: they hold no state that another operation depends on, or are not Go.
* **AgentMoney**: opening an account is the initial state; creating and deleting tiers
  (one in use cannot be deleted) and changing a profile touch no money.
* **Quotas and Classic**: routes retired; the code that issues V1 cards and the console's
  voiding of batches is what the models contain, offline licence files and the archive of
  old licences are read only.
* **Client**: `--session`, the signatures of its messages, the clock guard
  (`clock.json`, which is read and written without a lock, so of two processes the
  slower may lower it), and an expired borrowed session, which the client presents again
  and the server refuses.

What the modules leave is wording, wire formats and queries without effect. The share of
lines they cover is limited by it: most of the repository's Go is scanning rows into
structures, decoding requests and listing pages.

## 8. Plan

Done: the licensing core (`Seats`, `Bindings`, `Renewals`, `Sales`,
`AgentLedger`/`AgentMoney`, `Requests`, `Applications`, `AuditTrail`, `Packages`,
`Updates`), the platform (`Delivery`/`Outbox`, `AdminLogin`, `Recovery`, `Identities`,
`Captcha`, `EntryLimits`, `RiskControl`, `Security`, `Quotas`), upkeep (`Installation`,
`Migrations`, `Restore`, `Logs`), and `Classic` and `Client`; and the proofs of section 5,
which reach every safety property of the passing runs. Next:

1. Abstract specifications, with refinements to prove, for two components whose promise is
   more than their invariants: the window limiter (`EntryLimits`: a log of events and its
   bound) and the renewal ledger (`Renewals`: a set of paid cards and the date they
   pay for).
2. Action properties that the invariants of section 5 already carry: a stopped archiving
   run never makes a row disappear, and a migration never goes back.
3. Shorter proofs: `Classic`, `Identities` and `Migrations` repeat the same lemma on a
   replaced row of a function for several tables.
