# go-auth in TLA+

A verification development of [go-auth](../src), a Go authentication library:
TLA+ models of the parts where concurrency, failure and time decide
correctness, TLC runs on small instances, and theorems checked by TLAPS.

The library is a stack: `config` → wiring → routes → handlers
(`internal/handler`) → services (`internal/service`) → ports (`port`) → SQL
stores (`internal/sqlstore`). In front of the handlers runs the chain CORS →
rate limit → CSRF token → CSRF origin → auth middleware. Several instances may
share one database; all coordination between them is done by that database.

## Inventory

| Part | State | Operations | Hard behaviour | What makes it correct |
|---|---|---|---|---|
| Sessions (`service/session.go`, `sqlstore/session_repo.go`) | `sessions` rows: current and previous token hash, creation, last activity, rotation and expiry times | create, refresh (rotate / grace / reuse), validate, touch, revoke, prune | refreshes of one token at once; failure classified by a second statement; stale snapshots; revocation that must outlive the error it reports | one successor per token; a lookup finds one row; reuse ends the family; pruning spares what is usable |
| Middleware and cookies (`middleware/auth.go`, `handler/session.go`, `handler/auth.go`) | the browser's two cookies | transparent refresh, explicit refresh, login, logout | tabs racing, late and lost responses, backend failures after a rotation committed | the login survives races; a logout ends the session; honest browsers are not thieves |
| Recovery queue (`service/recovery.go`, `sqlstore/recovery.go`) | `recovery_requests`: attempts, backoff, lease, owner, dead letter | enqueue, claim, send, complete, prune | crash between any two statements, leases that end early, several instances | the holder of a lease owns its row; attempt budget; nothing lost; all settled |
| Janitor (`maintenance.go`, `sqlstore/maintenance.go`) | – | batches: select ids, delete ids | the rows change between the two | never deletes a live credential |
| Organizations (`service/org*.go`, `sqlstore/org_repo.go`) | members with roles, owner and member counters of organizations, owned counter of users, active organization of sessions | create, delete, add, remove, change role, leave, set active | reciprocal removals, counters kept apart from the rows they count | an organization is never ownerless; counters agree; guarded operations never wait in a circle |
| Account deletion and admin guard (`account_deletion*.go`, `admin_*.go`, `sqlstore/user_guard.go`) | users, administrators, closing codes | close, delete, ban, promote, demote, in bulk | two administrators removing each other; deletion against membership changes, on a stale password or code | the last usable administrator stays; an account closes for its owner only |
| Application permissions (`app_permission*.go`) | roles, grants, definitions, assignments, one revision | initialize, edit, assign, install library keys | combinations of edits; assignments decided on an old view | nobody passes on what it does not hold; an assignment gives what its author saw |
| Organization permissions (`org_permission*.go`, `org_invite.go`) | the same per organization, beside the fixed roles, and invitations with roles | the same, and invite, resend, accept | two role APIs over one membership; invitations that outlive roles and issuers | one identity per member; no escalation; an invitation gives what was offered |
| Login, 2FA, reset, change (`auth.go`, `twofactor.go`, `password*.go`, `credential_guard.go`) | password hash and pepper version, one-time tokens with attempt counters | login, rehash, challenge, verify, resend, reset, change | burst of guesses, reset racing rehash, ban racing login | caps hold; a code has its effect once; no session outlives a password change |
| Email change and verification (`email.go`, `verification.go`, `password.go`, `oauth.go`, `sqlstore/email_change.go`) | a request with two codes, verification codes | request, confirm, resend, cancel, send, verify, set a first password, a provider's word | confirmation against a newer version, a changed password, an ended session; failed mails and retries | the address changes only while the change is wanted; budgets hold; a verified address was proved or is answered for |
| Invitations (`invite.go`, `sqlstore/invite_*.go`) | invitation rows | create, resend, revoke, delete, accept | acceptance against revocation, resend or expiry, by two ways in | accounts and accepted invitations agree, and nobody admits himself; what is over stays over |
| OAuth (`oauth*.go`) | provider links, state tokens | login, register, accept, link, unlink | two unlinks; a link whose session has ended | a way to sign in remains; a link needs its session |
| Snapshot cache (`sqlstore/snapshot_cache.go`, `session_cache.go`) | cached rows by id and version | read through, fill | fill after the row changed | a read is what one statement would have found between question and answer |
| Audit outbox (`audit`, `sqlstore/audit_outbox_repo.go`) | records, outbox rows with leases | record in the transaction, claim, deliver, retry, dead-letter | slow sinks, crashes, clocks and caps | no loss without a log line; every obligation settled; a record outlives what can still be delivered |
| Rate limiter, mailer, password work (`ratelimit`, `mailer/async.go`, `password_hasher.go`) | counters, queue, semaphore | count, evict; send, close; acquire | limits reached, shutdown | bounded memory; no message lost on close; bounded work |
| Migrations (`internal/migrations`) | journal, schema, lock, connection | apply, adopt, verify, repair, retry | lost replies and sessions, partial DDL, operators, mixed releases | the lock is never lost in the pool; the journal tells the truth; no statement meets another schema |

`PROJECT.json` lists every component with its status, and every hazard at its
line with the properties that watch it.

## Modules

| Module | Models | Extends |
|---|---|---|
| `SessionRules` | the sessions table, clock and generator, and the rules on a row: `checkSession`, the rotation's WHERE and SET, the failure classification | – |
| `Sessions` | the sessions table and the handlers as processes of single SQL statements | `SessionRules` |
| `BrowserSessions` | browser tabs, middleware, handlers and network above the store | `SessionRules` |
| `RecoveryQueue` | the recovery queue and its workers | – |
| `OrgMembership` | organizations, members, counters, active organization, account deletion: transactions as sequences of row locks | – |
| `OrgPermissions` | granular permissions of one organization and its invitations | – |
| `AdminAccess` | the platform's administrators, with fixed roles or granular permissions | – |
| `Credentials` | one account's password, second factor, reset links, bans and the requests that check them | – |
| `AccountProofs` | codes mailed to the account for settings, a first password and its closing | `Credentials` |
| `Invitations` | platform invitations and the accounts they admit | – |
| `Identity` | sign-in, registration, invitations and links through external providers | `Invitations` |
| `EmailChange` | a change of address with its two codes, and the verification of the address | – |
| `AtomicReads` | what a repository read promises: the abstract specification of `SnapshotCache` | – |
| `SnapshotCache` | reads of sessions and tokens through the snapshot cache | – (`INSTANCE AtomicReads`) |
| `AuditOutbox` | audit records, delivery obligations, dispatchers and janitors | – |
| `Migrations` | migration runs, the lock, the journal, the schema and the operators | – |
| `MC…` | instances for TLC | each its module |
| `SessionsProofs` | theorems | `Sessions`, `BrowserSessions`, `SnapshotCache` |
| `AdministrationProofs` | theorems | `AdminAccess`, `AuditOutbox` |
| `DurableWorkProofs` | theorems | `RecoveryQueue`, `Migrations` |
| `CredentialsProofs` | theorems | `AccountProofs` |
| `OrgMembershipProofs`, `OrgPermissionsProofs`, `IdentityProofs`, `EmailChangeProofs` | theorems | each its module |

Common to all: the SQL is PostgreSQL at read committed, the default the code
leaves in place (`Migrations` has all three dialects). A reader sees the last
committed row; a writer waits for the row's lock and then re-evaluates its
WHERE. A statement outside a transaction is a step of its own. A transaction is
split where another transaction can come between its statements, and is one
step where its first statement locks the one row that everything else it
touches hangs from. Failed statements, failed audit writes, deadlock victims
and crashes all roll the transaction back, so one action (`RefreshFail`,
`Abandon`, `Abort`, `Fail`) stands for them. Variables marked "history" record
what happened for the properties and are read by no guard that models code.

Modules that one theorem module extends have names of their own for what they
would share (`BrowserInit`, `CacheNext`, `AuditSpec`, …).

The last disjuncts of each module (`Changing`, `Manage`, `Joining`, …) say
which requests the routes and handlers let a client make.

### Sessions

`row` is the committed table, `lock` the row locks of open transactions, `req`
the requests in flight with their program counter. `RefreshSession` is
`RefreshStart`, then the guarded UPDATE (`RotateRow`, which takes the row lock,
or `RotateMiss`), then `RotateCommit` or the two classifying reads
(`ClassifyCurrent`, `ClassifyPrevious`) and, for a reuse, `ReuseDelete` and
`ReuseReport`. `ValidateRead` and `ValidateCheck` are apart because the clock
and the row may move between them. An access and a refresh token are always
minted and stored together, so one token stands for the pair; tokens are
numbers from a counter, which abstracts 32 random bytes as "never repeats".
The clock advances in units; `Latency` bounds how long a request may be in
flight.

### BrowserSessions

The store's operations are one step each here. A tab's request goes through
`Authenticate`, `Rotate` or `Refuse`, `ServePage` or `ServeLogout`, and its
response waits in the tab until `Receive` applies its Set-Cookie headers or
`Lose` drops them, so responses overtake each other. `Fail` is a backend
failure at any call. `faults` remembers whether something other than the code
under test has dropped the login, among it `"cleared"`: a refusal has removed
the cookies. There is one browser (one jar); email verification is taken as
not required.

### RecoveryQueue

`Claim` is three statements: `SelectOldest`, `ClaimSelected` (the guarded
UPDATE) and `ReadBack` (the attempt counter). `SendSucceeds`, `SendFails` and
`Complete` end an attempt; `Abandon` is a crash, a stop, or a failed statement
anywhere. `Work` bounds one `ProcessOne` by its own deadlines. In the run it
equals the lease, so a worker can still be delivering when its lease ends, and
a mail may go out twice; the code's comments promise no more. `HolderOwnsRow`,
`BudgetKept` and `NothingLost` hold beyond the leases.

### OrgMembership

A transaction is its program counter, the locks it holds and what it has read
(`was`, `set`). `Needs` names the rows the next statement locks and `Ready`
waits for them; the writes are published by the commit, which is sound because
every row they touch has been locked since it was judged. Where the code judges
one row and writes another without locking it, the model does too: the owner's
counter of `DecrementOwnerCountForOrgOwners` is decremented for the owners of
the statement's snapshot (`SnapshotOwners`), not for those of the commit.
`WithAdminGuard` locks all users in one statement and is part of the first
step of the operations that use it (`GuardRows`). `lockActorAndTarget` locks
two memberships in a stable order and is one step, as is the membership and its
organization in an account's deletion, where the guard keeps the others of the
same kind out. `ClearSessions` occurs twice because `deleteOrgTx` clears the
active organizations and `OrgRepository.Delete` clears them again.
Left out: granular permissions (a different configuration of the same
transactions, in `OrgPermissions`), the member limit, the slug, renaming, and
the guard of the last usable administrator, whose refusals are `Abort` (it is
in `AdminAccess`).

### OrgPermissions

Every mutation runs under the users-first guard and `LockOrg` and judges its
actor again inside, so each is one step; a refused request takes none. What is
concurrent is what happens between the steps of an invitation: `CreateInvite`,
`LookUp` (before any transaction), `acceptPermissionInvite`. `assigned` is the
explicit role of a member, `member` its base role; the fixed-role API
(`ChangeRole`) and the permission API (`SetMemberRole`) write both, and
`resetBuiltinAssignment` is what keeps them together. `KeysOf` is what a member
may do at this moment. `orgPreset` and `Library` are the code's tables.
`ready` is false for an organization older than the feature; its invitations
(`Legacy`) name no role. The expected revisions of an edit are those it finds:
a stale edit is refused like any other.

### AdminAccess

`granular` is the configuration: with fixed roles a request is judged before
its transaction (`request`), and a bulk request again for each of its accounts;
with granular permissions it is judged inside. `adminReductionAllowed` is the
guard over the locked users. `form` is an account and a role as an
administrator saw them when deciding; `SetUserRole` and `CreateUser` compare
both revisions with it. Behaviours begin either at a fresh installation (fixed
roles, or nothing initialized) or with a staff that the setup operations
produce (`Staffed`), so that both ends fit into the bound on revisions.

### Credentials and AccountProofs

There is one account. A request reads the row (`StartLogin`, `StartForgot`,
`StartReset`, `StartChange`), computes the password hash with no lock held, and
returns with a transaction that begins with `GetByIDForUpdate` or the guarded
UPDATE of the same row; that transaction is one step, and everything other
requests commit in between is its hazard. The one-statement writes of tokens
(`CountGuess`, `Resend`, `MailFails`) are steps outside that lock. Passwords are
numbered in the order they are chosen (`chosen`), hashes by every write: a
rehash makes a new hash of the same password, which is what the compare-and-swap
(`SameHash`) and the identity check (`Identity`) tell apart. `pw` in sessions
and tokens is history: the password there was when they were given out.
`stale` stands for an older pepper version, algorithm or cost. A guess whose
counting statement fails is answered as wrong and never counted
(`twofactor.go:380` logs the error); `CodesHold` speaks of counted guesses.

`AccountProofs` adds the codes that switch the second factor, set a first
password and close the account, and the closing by password. They share the
request variable and all of `Credentials`' actions, so a code is spent beside
logins, resets, bans and a change of address (`Readdress`, the commit of
`EmailChange` seen from here). `BannedLoggedOut` is the last conjunct of
`PasswordInForce`. Left out: the email verification gate, challenges of OAuth
logins, the admin application's context, the token cache, the expiry of links
(one that nobody follows).

### Invitations and Identity

An invitation is a row with one code. Each request reads it first
(`CreateInvite`, `ResendInvite`, `OpenInvite`) and writes it in a later
statement whose condition decides (`MayRotate`, `ClaimInvite`); the mail leaves
after the commit. Accounts are known by their address; they are not deleted
here. Two writers create accounts without asking for an invitation, whatever
`InviteOnly` says: `AdminService.CreateUser` (`admin_users.go:310`) and the
seed command (`cmd/goauth/cmd/seed_admin.go:435`). They are `CreateUser`, may
take the address of a pending invitation, and mark the account as theirs
(`Admin`); `AdmissionsMatch` is about all other accounts. `Identity` composes
this with the providers: a state token leaves with the browser (`Leaving`), the
callback spends it (`SpendState`), asks the provider who came (`Exchange`, any
identity and address), and only then links (`FinalizeLink`), signs in (`Login`),
registers (`RegisterOAuth`) or accepts (`CompleteOAuthLogin`); an invited
identity whose address the provider does not vouch for proves it by a mailed
code (`PrepareInviteVerification`, `VerifyInviteEmail`). Unlinking locks the
account's provider rows (`LockProviders`) before it counts them. Sessions
that end in the middle are `EndSession`.

### EmailChange

The row of the request is written back whole by every transaction, after the
user, the session and the row have been locked (`Enter`), so `lock` is one
lock. `Pending` is the check all operations share. `Deliver` runs after the
commit, current mailbox first, and `DiscardVersion` withdraws the very version
whose mail failed. Budget windows are one window. A request may become overdue
at any moment (`Lapse`), also after its transaction has begun; what counts is
the moment of the check, and the code's commit follows it within the
transaction.

Everything that sets `is_verified` is here, since all of it changes what a
request is bound to:

* the code mailed for verification (`SendVerification`, `MintToken`,
  `MailToken`, `VerifyEmail`, `ConsumeToken`). No code is sent while another is
  outstanding, except when the recovery queue tries again (`recovery.go:117`,
  the parameter `retry`), which leaves two;
* the code that sets the first password of an account without one
  (`RequestSetPassword`, `ClearTokens`, `ConfirmSetPassword`,
  `SetPasswordAndVerify`);
* the confirmed change itself;
* a provider's word at a sign-in (`oauth.go:378`), in two steps:
  `ProviderVouches` reads the account, `VerifyEmailIfMatches` is the guarded
  UPDATE, which finds another address if a change was confirmed in between;
* an account that begins verified: created from a provider's identity
  (`oauth.go:458`), by an administrator (`admin_users.go:355`), by the seed
  command (`seed_admin.go:476`), or from an invitation mailed to its address
  (`invite.go:256`). These are the values of `limit.verified` in `Init`.

`vouched` is the history of the addresses somebody other than the mailbox
answers for; `VerifiedIsProved` names it as its exception.

### SnapshotCache implements AtomicReads

`AtomicReads` says what callers of `GetByTokenHash` and `GetByID` rely on: the
answer is what one statement would have found at some instant between question
and answer. `SnapshotCache` reads in up to four steps, `Locate` (id and
version, in SQL), `Hit` or `Fill` (the row again, with its version), `Put`
(SET NX). Every UPDATE draws a fresh version (`Versioned`), one for all rows of
a multi-row statement. The refinement mapping (`Seen`) decides the answer when
the reader locates the row: the rows as that version was written (`written`).
A reader that misses looks again, which the abstract reader may do too. Rows
older than the cache have version 0 and are never cached; joined users are
never cached, a hit takes the user the locator joined. `Evict` and `Spoil` are
what the store may do to entries.

### AuditOutbox

`Record` runs inside an operation's transaction with a savepoint for each of
its two inserts; `RecordAlone` and `ObligeAlone` are the same without a
transaction. A dispatcher is `SelectCandidates`, `Claim` per row (a
compare-and-swap), `ReadClaimed`, `HandleBatch` per sink and `SettleBatch` per
row, which names the row by its id whoever claimed it since. Each instance has
a janitor with three jobs, split into their statements: the sweep
(`CountExpired`, `SweepExpired`), the emergency valve (`CountTotal`,
`SelectDead`, `EvictDead`, `SelectOldest`, `EvictOldest`) and the orphan scan
(`SelectOrphans`, `PurgeOrphans`). Retention (`Cleanup`) is a goroutine of its
own, in instances without sinks too, and deletes by age alone; nothing orders
it after a sweep.

The log line that reports a loss is a step of its own, after the statement that
causes it: `LogDeadLetter`, `LogLosses`, `LogFailure`. `InHand` is what a
process has lost and not yet logged. In between the process may stop (`Crash`,
`CutShort`), or a statement may fail, with or without its effect
(`FailedDrop`). `untold` is the history of the losses whose report such a fault
has cut off, and `NoSilentLoss` excepts them by name. The faults differ as the
code does: after a failed statement the valve still logs what it has shed, the
orphan scan returns its count together with the error and the caller drops it
(`dispatcher.go:189`), the sweep logs the count of its SELECT only if its
DELETE has succeeded.

`ValidateConfig` is the code's check; the behaviours start with the
configurations that pass it. Ages stop at the value where nothing tells them
apart, so time never runs out and `EverySettled` is checked over infinite
behaviours. Simplified: the janitor's jobs come in any order, a superset of
sweep before valve; the orphan scan's LIMIT of 1000 and its batches are one row
at a time, without a limit; a failed SELECT of the valve is covered by `Crash`,
which forgets what was shed; and time stands still between a claim and the
statement that reads it back (`Tick`), milliseconds against a lease of at least
a minute. Between a sweep's count and its deletion it does not.

### Migrations

A run is one connection (`session`), one attempt at the lock (`try`), and one
statement per step (`Send`, `Reads`), each of which may fail, time out, or lose
its reply while the server goes on alone (`ghost`). PostgreSQL commits step by
step, MySQL statement by statement, SQLite the whole run in `close`. A schema
is what became of each statement of each published step: missing, as published,
or different in columns, constraints, indexes or rows (`Aspect`); `verifyStep`
is what the code compares on each dialect. Operators change schema and data
(`Squat`, `Drift`, `Undo`, `Finish`) while no run holds the lock. What the data
preconditions of a step find is nondeterministic, and so is whether the session
can be configured. No release publishes a retry policy yet; `policy` is the
mechanism as `retryStep` has it.

### Slips

Definitions marked "Slip" are deliberately wrong variants of the definition
that follows them. No specification uses them. Substituting one for the
definition makes TLC report a violation of the property it is paired with in
`PROJECT.json`, which shows that the property depends on that line of the code.

## Runs

Every run holds.

| Run | Question | Properties |
|---|---|---|
| `sessions` | two slow requests interleave on two sessions, statement by statement, also while a session is condemned and not yet deleted | a token buys one successor, names one session, ends it when replayed; pruning spares what is usable |
| `browser` | two tabs log in, load pages, refresh and log out, with lost responses and backend failures | the login survives; a logout ends it; honest tabs are no thieves |
| `recovery` | two workers, two requests, crashes, outlived leases | the lease's holder owns the row, budget, no loss; every request is settled |
| `org_members` | members, staff and accounts that close act on one or two organizations, lock by lock | counters, owners, active roles, authority; guarded operations never wait in a circle |
| `org_permissions` | an owner, a manager and an invitee with roles, definitions and an invitation | one identity per member; no escalation; the offer is kept |
| `admin` | administrators ban, demote, delete and appoint each other | a usable one remains; no escalation; assignments give what was seen |
| `credentials` | logins, codes, resets, changes, closings beside bans and settings | the password in force; the second factor demanded; codes hold; closed by the owner |
| `identity` | invitations and providers, two requests at a time, beside an administrator who creates accounts | accounts and accepted invitations agree; a way to sign in remains; ended invitations stay ended; links need their session |
| `email` | two requests change and verify addresses, with and without a password, beside providers that vouch | the change is wanted; budgets kept; verified is proved or answered for |
| `cache` | two reads beside every kind of write | `SnapshotCache` implements `AtomicReads` |
| `audit` | two dispatchers with short leases, retries and several sinks, two janitors statement by statement, retention, crashes and lost replies | no silent loss; records outlive what can be delivered; every obligation is settled |
| `migrations` | two runs on each dialect, of one release or of two, with operators | the lock is never pooled; the journal tells the truth; statements fit the schema |

**Bounds.** Two requests, readers, workers, tabs, transactions or runs act at a
time: each property relates one or two of them and one row, and a third could
only repeat what the second does. Durations are one or two units, so each
deadline is met before, at, and after its boundary, and in every order relative
to the others. `MaxTime`, `MaxToken`, `Latency`, `SubmitBy` bound clock,
tokens, flights and arrivals; three tokens for two sessions, or five for the
browser's one, give a login, a rotation, a second rotation and a replay. In
`sessions` a request may take three units and a rotation grants two, one more
than `PruneGrace`, so that a row can be condemned while a request that will
still renew it is on its way.

Where one instance with everything switched on would be too large, a variable
chosen in `Init` selects a plan, and the run explores the union: `Plans` in
`OrgMembership` and `Credentials`, `Configs` in `AuditOutbox` and `Migrations`,
`Bounds` in `Identity`, `Limits` in `EmailChange`. The plans are chosen so that
each pair of operations that touch a common row occurs in one of them. In
`OrgMembership` these are three users (an actor, a target and a remaining
owner) of one organization, two users of two organizations (an account that
leaves several), and closing beside deletion and the active organization.
`MaxOrgs` is 1, so the second ownership is refused. In `Credentials`, `MaxHash`
= 3 gives two rewrites of the hash, the fewest with which a rehash and a
replacement can be ordered either way; `Cap` = 2 and `Refreshes` = 1 let a
lineage be exhausted by overlapping guesses on both sides of a resend; `MaxReset`
and `MaxProof` = 2 let one code replace another. In `OrgPermissions` and
`AdminAccess` two keys are granted: one that a definition makes, one that the
library installs and that gives the power to delegate; one custom role (two in
`AdminAccess`) is what a manager holds, edits or assigns. `MaxRev`,
`MaxRevision`, `MaxEarly`, `MaxCode`, `MaxAsk` bound edits. In `SnapshotCache`
two rows share one statement and two versions replace each other. In
`EmailChange` the five `Limits` are a request that replaces another, one that is
resent, a request while a first password is set, and two codes outstanding with
and without a password; the union is 3.4 million states. In `AuditOutbox` each
configuration isolates one mechanism: two dispatchers with leases, retries and
faults, priorities, several sinks; the cap with one or two janitors, clocks with a
sweep that comes late or fails, retention alone (261,444 states); a configuration
has at most two faults, so that a loss and what cuts off its report can both be
one. In `Migrations` two revisions of two statements are the fewest with a step
before, a step half done and a statement to come; one fault per behaviour is a
lost session, a late reply, a failed statement or a crash, anywhere.

Identical requests, sessions, tabs, workers, users and transactions are
symmetric; the runs with liveness properties use no symmetry. A `VIEW` leaves
out history that no guard reads and whose change the checked action properties
see in the step itself. Deadlock is not checked by TLC where bounded clocks and
generators stop every behaviour; waiting in a circle is a property of its own
(`GuardAvoidsDeadlock`). `AuditOutbox` never stops and checks it.

**Fairness.** Only two specifications need it. `RecoveryQueue!FairSpec`: time
passes and each instance keeps polling and pruning on its tickers; neither the
success of a delivery nor the survival of a worker is assumed.
`AuditSpec` of `AuditOutbox`: time passes and each dispatcher and each janitor takes
its steps, since both run on timers (`dispatchLoop`, `janitorLoop`); operations,
retention and faults owe nothing, and nothing assumes that a delivery succeeds.
Faults are finitely many: a delivery that kills its process every time is
outside `EverySettled`, because attempts are compared with their maximum only
after a delivery, so such a row is claimed again for ever. The others are
checked for safety only: what they wait for (a lock, a reply) ends by the
database's own timeouts, which they do not model.

## Proofs

TLAPS proves the theorems below for every value of the constants that satisfies
the ASSUMEs of the module they are about: any sets of users, sessions,
requests, workers and organizations, any durations, budgets and limits. The
bounds that keep TLC's instances finite (`MaxTime`, `MaxRev`, …) are constants
like the others, so the theorems hold however large they are.

| Theorem | States | Of |
|---|---|---|
| `RotationIsAChain`, `LookupIsUnique`, `ReuseIsFinal`, `JanitorSparesLogins` | `OneSuccessor`, `TokensNameOneSession`, `ReuseEndsSession`, `PruneSparesUsable` | `Sessions` |
| `LogoutIsFinal`, `HonestBrowsers`, `LoginsSurvive` | `LogoutEnds`, `HonestNeverReused`, `LoginSurvives` | `BrowserSessions` |
| `LeaseIsOwnership`, `BudgetIsKept`, `NothingIsLost` | `HolderOwnsRow`, `BudgetKept`, `NothingLost` | `RecoveryQueue` |
| `CountersAgree`, `OwnerRemains`, `ActiveRoleTrue`, `AuthorityKept`, `NoCircle` | `CountersExact`, `NeverOwnerless`, `ActiveRoleCurrent`, `AuthorityHolds`, `GuardAvoidsDeadlock` | `OrgMembership` |
| `ActsInOneIdentity`, `Delegation`, `GrantsWhatItOffered` | `OneIdentity`, `NoEscalation`, `OfferKept` | `OrgPermissions` |
| `PasswordDecides`, `FactorDemanded`, `CodesCount`, `OwnerCloses` | `PasswordInForce`, `SecondFactorDemanded`, `CodesHold`, `ClosedByOwner` | `AccountProofs`, and so `Credentials` |
| `AdmissionsAgree`, `MethodRemains`, `InvitationsEndOnce`, `LinksAreAsked` | `AdmissionsMatch`, `SignInMethodRemains`, `InvitationEndsOnce`, `LinkNeedsItsSession` | `Identity`, and so `Invitations` |
| `GuessesAreBounded`, `AddressIsProved`, `ChangesAreWanted` | `BudgetsKept`, `VerifiedIsProved`, `ChangeIsWanted` | `EmailChange` |
| `CacheIsTransparent` | `ReadsAreAtomic`, the refinement | `SnapshotCache`, `AtomicReads` |
| `SomebodyAdministers`, `NobodyEscalates`, `AssignmentsAsSeen` | `UsableAdminRemains`, `NoEscalation`, `AssignedAsSeen` | `AdminAccess` |
| `NothingLostSilently`, `RecordsOutlive` | `NoSilentLoss`, `RecordOutlives` | `AuditOutbox` |
| `LockComesBack`, `StatementsFit`, `JournalRelied` | `LockNeverPooled`, `StatementFitsSchema`, `JournalTruthful` | `Migrations` |

So every safety and action property of every run is a theorem.

`TypeSafe`, `AdminTypeCorrect`, `Invariant` and `TypeCorrect` state types and
inductive invariants.

Each model has one inductive invariant (`IInv`; `BrowserInv`, `CacheInv`,
`AdminInv`, `AuditInv` and `MigrationInv` where a theorem module holds two or
three). TLC has checked it on the
instance of the module's run. Its lemmas show, action by action, that a step
keeps it; actions that change one table the same way share a lemma. What it
adds to the properties, and why they need it:

* **`Sessions`.** That a token is exchanged once follows from what is known of
  tokens not in the table. A pair a request has minted is that request's alone
  (`MintedOnly`, `PendingUnused`), a token once exchanged is never current
  again (`ExchangedSuperseded`), and a rotation between its UPDATE and its
  commit holds the lock of a live row that still has its token
  (`RotatingOwnsRow`). For the reuse, a session condemned by one request stays
  found by it until it is deleted. `JanitorSparesLogins` has a hypothesis, that
  rows are kept past their expiry for at least as long as a request may take, or
  as long as one rotation grants. The code deletes by ids chosen one
  transaction earlier without testing them again, and a refresh in flight may
  still renew a row just expired. The default grace of 24 hours satisfies it for
  any request shorter than a day; `validateMaintenance` (`config_maintenance.go:69`) rejects
  only a negative grace, so a configured one can be shorter than a request.
* **`BrowserSessions`** (`BrowserInv`). A response that sets cookies carries the current pair of a
  session, or one of a session that is over; no row, request or jar has that
  pair as an old one, and no other response carries it (`Carries`). So a
  response that arrives late cannot put an old pair back. An exchanged pair is
  in the jar only while the response with the new one is under way, unless
  responses were lost (`Overtaken`): a tab that still sends it is at most one
  flight late, and its request takes at most one more, which is where the two
  flights of `HonestNeverReused` come from. The last pair of the one session is
  in the jar, with a refresh cookie that outlives the refresh chain, or under
  way (`Kept`).
* **`RecoveryQueue`.** Claim numbers are never shared (`ClaimsDistinct`). A row
  with a worker's claim has that claim's lease, and keeps the claim while the
  lease runs (`ClaimCarriesLease`, `LeaseKeepsClaim`). The attempts of a row pay
  for the mails sent and for the one its holder is about to send
  (`AttemptsPay`). Nothing is assumed of how `Work` compares with `Lease`.
* **`OrgMembership`.** A transaction acts at its commit on what it read while
  taking locks. `TxnTrue` says, for each place in each transaction, what is
  still true of it: which rows it holds, that the membership and the counters
  are as it read them, that its actor still outranks what it does, and which
  memberships of an account that closes are yet to be looked at. It stays true
  because no row is held twice (`LocksExclusive`). The counters are
  cardinalities, so the proof uses `FiniteSetTheorems`. `NoCircle` holds for
  circles of any length: two transactions under the guard never run together
  (`OneGuard`), and `SetActiveOrg` waits only for rows no guarded one holds.
* **`OrgPermissions`.** A pending invitation names a live role whose revision
  has not fallen below the one recorded; while the two are equal, the role's
  keys are those offered (`Offering`). `InUse` keeps such a role from being
  deleted, and every change of the keys raises the revision. `NoEscalation` is
  then a statement about one step: an operation changes one role, one
  definition or one member, and what anyone gains by it (`RolesGiven`,
  `PermissionsGiven`, `MembersGiven`) is contained in the keys `delegation` has
  compared with the grantor's.
* **`AccountProofs` over `Credentials`.** A request compares hashes, not
  passwords. Every hash written is new, so a snapshot whose hash is still the
  account's tells its password (`ReqTrue`); everything usable (a session, a
  challenge, a reset link) was issued for the password chosen last. A code's
  counter is at least the number of wrong guesses until it reaches `Cap`.
* **`Identity` over `Invitations`.** A code names one address for ever
  (`Names`), which carries the judgement of a registration made long before its
  transaction; the provider rows that an unlink has locked stay as they were
  (`unlinking`).
* **`EmailChange`.** The transaction at work has read the row as it is and its
  session is alive (`Holding`). A code can be only in the mailbox it was made
  for (`MailTrue`), and a confirmation brings only codes that were in one. A
  verification on a provider's word writes nothing unless the address is the one
  vouched for.
* **`SnapshotCache`.** A version is drawn once and names one state of each row
  it was given to: rows, entries and answers under a version are what was
  written under it (`written`). `CacheIsTransparent` proves that initial states
  map to initial states and each step to a step of `AtomicReads` or a stutter.
* **`AdminAccess`** (`AdminInv`). That a usable administrator remains is
  inductive once the tables agree: what counts as a role is live
  (`RolesLive`), what is granted is installed (`RolesGranted`), and a request
  with accounts left exists only with fixed roles (`Requests`). Every reduction
  names another administrator who stays, because its guard has counted the
  locked rows, and no other action takes the role, the grant or the permission
  that one needs. For `AssignedAsSeen`, a form shows its role and its account's
  role as they are unless a revision has moved on (`FormTrue`), so comparing
  both revisions is enough. `NobodyEscalates` is a statement about one step,
  operation by operation: what anyone gains is contained in the actor's own
  keys (`Below`), through definitions, roles, assignments and new accounts.
* **`AuditOutbox`** (`AuditInv`). An operation has staged its record and
  obligation, or has reported the miss, or is about to (`Staging`). A batch that
  has not failed was acknowledged by each sink before the one it is at
  (`Delivering`); so a row deleted after `SettleBatch` has its
  acknowledgements, even where a second dispatcher has claimed it since. What a
  janitor has deleted it has in hand until it logs it, unless the row was a dead
  letter (`Shedding`), and a dead letter was logged, is in hand, or was cut off
  (`Evidence`): so every loss is accounted for at every moment
  (`AccountedFor`), which no single action can show, since statement and log
  line are apart. For the record: one that was deleted is older than
  `retention`, with `ValidateConfig` older than the clock of a pending
  obligation; a dead letter that died within the retry window is no older than
  that window and the time it has been dead (`Evidence`), so it is past its own
  clock too (`Retained`). Nothing is assumed of when, or whether, a sweep runs.
* **`Migrations`** (`MigrationInv`). Who holds the lock has a living session,
  and a run past `try` with a living session holds it (`Holding`). The schema
  and the journal agree in what is committed, in what the holder sees and in
  what the late statement of a dead session would make of it
  (`DatabasesSound`), outside of what an operator touched since; a run that
  holds the lock knows, place by place, how far the schema is (`HoldersKnow`,
  with `Exact` after a verification and `Fits` in the middle of a step).
  `StatementFitsSchema` follows, since a statement runs only where `Fits`
  holds. A run that opened a step is still at work on it, on MySQL, or warns
  `dirty` or `uncertain` (`Warned`), which also covers a lost session whose last
  statement is still to end.

Assumptions on constants beyond the code's own checks of its configuration:
the placeholders that stand for SQL's NULL and for "nobody" are not themselves
rows or names (`NoneIsNothing`, `NoneIsNoToken`, `NamesAssumption`,
`OrgAssumption`, and parts of `AdminAccessAssumption`, `AuditConstants` and
`MigrationConstants`), and the users and organizations of `OrgMembership` are
finitely many (`TableAssumption`), as are the permissions an operator defines
in `AdminAccess`, so that they can be counted. A database that migrations start
from has no more steps in its journal than in its schema
(`MigrationConstants`); what operators do to it afterwards is not restricted.
TLC evaluates
every one of them.

Left to TLC, with the reason:

* liveness: `EverySettled` of `AuditOutbox` and `Settles` of `RecoveryQueue`.
  The prover has neither fairness nor ENABLED.

No module of the development declares a RECURSIVE operator, so nothing else is
out of the prover's reach.

## Observations

What the models show of the code that a reader may want to know. None is
needed for a property above, and where one limits a property this is said.

* *A refused refresh clears the winner's cookies.* `handler/session.go:23`
  clears both cookies when `POST /auth/refresh` is refused; if that response
  arrives after the one that rotated the token, the tab is logged out, although
  `docs/guides/sessions.mdx:36` says that racing requests "don't log the user
  out". `LoginSurvives` excepts it (`"cleared"`).
* *No silent refresh after the cookie is gone.* Without the session cookie
  `middleware/auth.go:122` answers 401 and does not try the refresh cookie;
  `sessions.mdx:122` says it rotates when the session cookie has expired, the
  moment a browser drops it.
* *`org_owner_count` drifts when an organization is deleted.* The statement at
  `org_queries.go:50` decrements the owners of its snapshot, before the
  memberships are deleted (`org.go:289`). An ownership granted in between
  leaves the counter too high; an owner who leaves in between is decremented
  twice, down to −1, there being neither a condition nor a CHECK.
  `docs/schemas.mdx:433` calls the counter kept in sync. `CountersExact`
  therefore speaks of it until an organization is deleted.
* *A staff removal inverts the lock order.* `org_admin.go:316` locks the
  membership before the user; the comment at `org.go:632` describes the other
  order. The database aborts one of two such transactions.
* *A rehash can refuse a correct login.* Of two logins that upgrade the same
  hash, the slower one carries a hash that is no longer the row's and is refused
  by `lockPasswordIdentity`; the comment at `auth.go:408` and
  `docs/security.mdx` call the lost swap harmless.
* *A lost swap drops a reset mail.* When such a rehash commits between
  `sendPasswordReset`'s read and its transaction, no link is issued and the
  request is acknowledged all the same (`password.go:132`).
* *The "invariant violation" branch is reachable.* `classifyRefreshFailure`
  (`session_repo.go:564`) takes it when a touch commits between the guarded
  UPDATE and the classifying read. `session.reuse_detected` is recorded after
  the revocation has committed (`session.go:209`): a failure there loses it.
* *Closing an account.* A code issued while the account had no password still
  closes it after one was set, and `deleteWithCode` checks neither a ban nor the
  address, unlike the variant with a password; `ClosedByOwner` asks no more of
  it. `invites.created_by` references users without ON DELETE, so an account
  that issued platform invitations cannot be deleted while they exist.
* *Accounts nobody invited.* With `InviteOnly` an administrator
  (`admin_users.go:310`) and the seed command still create accounts without an
  invitation, beside one that is pending for the same address; it then stays
  pending until it expires or is revoked. `docs/guides/admin.mdx:412` documents
  the one and `docs/guides/onboarding.mdx:96` the other as intended;
  `AdmissionsMatch` excepts both (`Admin`).
* *Identity.* An OAuth login in flight survives an unlink of its identity. A
  crash between the creation of a verification code and its mail leaves an
  unmailed code that suppresses others until it expires. `DiscardVersion` leaves
  a request pending with an undelivered code when another resend has changed
  its version.
* *Audit: a dead letter outlives its record.* The comment on `ValidateConfig`
  (`service.go:70`) says that retention never deletes a record while its
  obligation exists. The rule allows for the age and the retries of a row, not
  for one that waits in a backlog and uses its last attempt as late as
  `OutboxMaxAge`; that dead letter stays `DeadLetterTTL` longer. `RecordOutlives`
  excepts it (`late`), and without the exception the run fails. A pending row past its clock may also lose its record to
  `Cleanup` before a sweep gets to it; it was due to be given up.
* *Audit: losses without a log line.* Statement and log line are apart, so a
  stop in between leaves a loss unreported, and so does a statement whose reply
  is lost. `PurgeOrphans` returns what it has purged together with an error
  (`audit_outbox_repo.go:193`), and its caller drops the count
  (`dispatcher.go:189`). `NoSilentLoss` excepts these (`untold`). Outside a
  transaction a crash between the two inserts leaves a record without an
  obligation. The emergency valve counts dead letters it sheds, but logs none.
* *Audit: the rest.* Settling statements name a row by event id, not by
  claim. The lease is validated against each sink, although the sinks are
  served one after the other. Two janitors can together shed more than the
  overflow. The sweep logs what it has counted, not what it has deleted. Nothing
  calls `ReleaseClaim`.
* *Migrations.* `readHistory` returns an empty status when its query fails. An
  object that takes a name of a newer release's catalog is seen only by that
  release.

Simplified in `Migrations`: a PostgreSQL step is always transactional
(`runner.go:257` and `docs/migrations.mdx:182` allow others, and none is
published); the re-read of the journal that ends a repair, a retry or an
adoption (`runner.go:153`, `runner.go:200`, `recovery.go:46`) is left out, as it
changes nothing; an error of the cleanup after an acquire that failed
(`lock.go:40`) is told as `uncertain`, where the code swallows it.

## Plan

Modelled: everything above. Next:

1. The rate limiter's memory store (fixed windows, bounded shards, eviction).
2. The asynchronous mailer (queue, fallback, shutdown) and the password-work
   semaphore.
3. The binding of the CSRF cookie to the session across rotation and logout.
4. Pepper versions of several nodes in a rolling deployment.

A component added later comes with its invariant and its theorems, in the
theorem module of the part of the system it belongs to.

## Not modelled

CORS, email templates, request decoding, listings and statistics, the command
line, configuration and wiring are stateless or sequential and covered by unit
tests. Hash functions, random generators and SQL engines are assumed to do what
they promise, the providers' HTTP exchange and the mail server to do anything.
The MySQL path of the session store without RETURNING, the text of the
migrations and their parser, the Redis counters, the rate limiter, the mailer,
the CSRF tokens and the semaphore of password work are left for the plan above.
`PROJECT.json` says per component which of its parts are left out.
