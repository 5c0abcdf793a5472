# Woxa Secret Vault: a verification development in TLA+

Woxa Secret Vault is a shared password manager. `src/woxa-vault-api` is the server (Hono on
Node, PostgreSQL through drizzle, READ COMMITTED transactions), `src/woxa-vault-web` the browser
application (Next.js), which also does the cryptography of zero-knowledge vaults.
`src/secret-vault/*.md` and `src/API_CONTRACT.md` hold the requirements and the contract.

Every module here is translated from that source. `PROJECT.json` maps each definition to the
lines it stands for. Line numbers below are those of `src/woxa-vault-api/src/` unless a path
says otherwise.

How a handler works decides how the models are built. A handler reads what it needs for
authorization **outside** any transaction, and only then opens `db.transaction`, which writes
the rows, the audit event and the notification. Between the two another request may commit.
Therefore a handler whose check can be overtaken is *two* actions, `Check...` and `Commit...`,
and what it carries from one to the other is a record in a variable (`req`, `slot`, `stage`).
Where the statements *inside* two transactions can overlap with an effect, READ COMMITTED being
the isolation level, the transaction is several actions as well (`VaultRekey`, `TempAccess`,
`ItemEdits`, `Accounts`).

## 1. Inventory

| Component | State | Operations | Hard behaviour | What makes it correct |
|---|---|---|---|---|
| Vault key life cycle (`routes/vaultRekey.ts`, `vaultMembers.ts`, `teams.ts`, `lib/rekey.ts`, web `lib/vault-rekey.ts`, `lock-provider.tsx`) | `vaults.key_version`, `rekey_pending`, `vault_members`, `vault_team_members`, `team_members`, `vault_keys`, the ciphertexts of `items`, the key cache of each browser | rotate, add/remove/re-role members, grant/revoke teams, join/leave/delete teams, leave the workspace, publish a public key, write/trash/restore items | the browser works for seconds on what it read; only the version, the roster and the item ids are compared at the end; keys are cached; a removal and a rotation can overlap, as one deletes rows and the other locks the vault | a rotation is complete or absent; no two keys share a generation; a key that is taken back leaves the flag; a key is stored only for those who may have it |
| One-time sends (`routes/sends.ts`) | `view_count`, `burned_at`, expiry | create, reveal, burn | many reveals check one old row; the password check lies between; a crash or failed audit after the claim | never more than `max_views` answers, none unaudited, none after the end |
| Workspace members, invitations (`routes/members.ts`, `invitations.ts`, `lib/orgAccess.ts`) | `org_members`, `invitations` | change role, remove, invite, resend, revoke, accept | checks before the transaction; deciding on a role that a transfer changes | one owner; nobody gains a role its giver could not give; an invitation admits once |
| Workspace (`routes/workspace.ts`) | `organizations` and settings | create, transfer, delete, settings, Slack, switch | password verification inside the transfer | exactly one owner |
| Access requests, temporary roles (`routes/accessRequests.ts`, `lib/expirationSweeper.ts`) | `access_requests`, `expires_at` and `original_role` of member rows | file, decide, expire, sweep, auto-deny | two deciders; sweeps that write what they read earlier | temporary roles end, and end at the role held before |
| Items and versions (`routes/items.ts`) | `items`, `item_versions`, `item_search_terms` | create, edit, bulk edit, delete, list and reveal versions | the snapshot of an edit is taken from a row read earlier; at most 10 versions | the history holds every state that was replaced |
| Trash (`routes/trash.ts`) | `items.deleted_at` | empty, restore, purge | emptying collects ids first | a restored item is not purged |
| Vaults (`routes/vaults.ts`) | `vaults` | create, update, delete, resolve access | the live-item count lies outside the transaction | a vault with live items is not deleted |
| Access resolution (`lib/access.ts`, `itemMembers.ts`, `folderMembers.ts`) | grants on items, folders, vaults | resolve and modify grants | batch and single resolution must agree | the highest unexpired role wins |
| Accounts and sessions (`auth.ts`, `me.ts`, `lib/session.ts`, `middleware/auth.ts`) | the hashes of two passwords and two zero-knowledge factors, lockout counters, sessions | register, log in, lock, set up, recover, revoke | parallel failures; a reset racing a login | no session outlives the credential it came from |
| Two-factor (`twoFactor.ts`, `lib/mfa.ts`) | TOTP step, backup codes | enrol, verify, regenerate, disable | one code submitted twice at once | a code is accepted once |
| Rate limiting (`lib/rateLimit.ts`) | window counters | consume | Redis failure falls back to a counter per process | no more than the limit per window |
| Attachments (`attachments.ts`, `lib/storage.ts`, and the deletions of `trash.ts`, `vaults.ts`, `workspace.ts`) | rows, blobs | upload, delete, purge, delete the vault or workspace | quota counted before the upload; blobs are unlinked before the transaction that deletes the rows | rows and blobs agree |
| Imports (`imports.ts`) | `import_jobs`, `import_items` | upload, confirm, process | double confirmation, crash | each row imported once |
| Folders, SSO, audit, notifications, client cryptography, pages | | | | see `PROJECT.json` |

The components meet in the database: `DELETE /members/:userId` writes the workspace, every vault
of it and the wrapped keys; a decision on an access request writes the same `vault_members` row
as the member endpoints and the sweeper; the rotation reads memberships, team grants and items
at once. There are no queues; the only background task is the sweeper's timer.

`PROJECT.json` lists, under `hazards`, each place where this can go wrong.

## 2. The modules

| Module | What it is |
|---|---|
| `KeyCustody` | the abstract promise about wrapped keys |
| `VaultRekey` | the key life cycle of one zero-knowledge vault, server and browsers |
| `VaultRekeyProofs` | its theorems, the refinement of `KeyCustody` among them |
| `SendLedger` | the abstract promise of a one-time send |
| `Sends`, `SendsProofs` | one one-time send, its reveals and burns, the clock and crashes; it implements `SendLedger` |
| `OrgMembers`, `OrgMembersProofs` | one workspace: roles, ownership, invitations |
| `TempAccess`, `TempAccessProofs` | requests, decisions and temporary roles of one vault, and the sweeper |
| `ItemEdits` | one item, the browser tabs that edit it, its versions, its search terms, its trash |
| `Attachments` | the rows and blobs of attachments, and all that deletes them |
| `ItemProofs` | the theorems of `ItemEdits` and `Attachments` |
| `Accounts`, `AccountsProofs` | one account: login, lockout, master password, recovery kit, sessions |
| `TwoFactor`, `TwoFactorProofs` | the second factor of one account |
| `ItemAccess`, `ItemAccessProofs` | roles on one item, how they are resolved and who may change them |
| `MC...` | the instances TLC checks |

The modules are joined where one handler changes the state of several: `VaultRekey` holds
members, teams, items and keys of a vault together, and `Attachments` items, attachments and the
vault. Elsewhere a module keeps fixed, or lets change at any time, what another module explains:
`ItemAccess` lets teams change, grants lapse and the sweeper run as they like.

Definitions marked `\* mutant` are altered forms of the definition they precede. Nothing uses
them; substituting one shows that a property notices the change.

Six modules end with *step conditions* (`CurrentWrites`, `TargetsHold`, `ManagersHold`...). They
are no part of a specification and no run assumes them: each says what the code does not
enforce, and a theorem shows that a rule the code breaks holds wherever it does (section 4).

### VaultRekey

A key is its *generation*, the `key_version` at which it was installed; 0 is none.
`vaultKeys[u]` is the generation wrapped in the user's `vault_keys` row, `items[i].gen` the
generation an item's ciphertexts were made with, `held[u]` the key in the browser's cache,
`req[u]` what the user's request in flight carries: the wrapped key of an addition, or the
dialog of a rotation with its `expected` version, the item ids it listed and the contents it
read.

A rotation is the chain `OpenRekey`, `ListItems`, `ReadItem`..., `AdmitRekey`, then
`RejectRekey`, or the transaction: `BeginRekey` locks the vaults row, reads the roster and the
item ids and checks them; `CommitRekey` makes the new key rows, the ciphertexts, the version and
the flag visible; `AbortRekey` rolls back. The lock on the vaults row (`Rotating`) holds up what
inserts a row that references the vault (`vault_members`, `vault_keys`, `vault_team_members`,
`items`) and what updates the row itself. It does not hold up a DELETE, so a removal runs beside
a rotation, and is a transaction of several actions too: `BeginRemove` (`vaultMembers.ts`) or
`BeginLeave` (`members.ts`) deletes the memberships, `ListKeys` is the lookup of
`revokeOrgKeysAndFlag`, `DropKey` the DELETE on `vault_keys`, which affects the rows it sees,
`CommitRemoval` the UPDATE of the flag, which waits for a rotation, and the commit.
`AbortRemoval` rolls back, also when PostgreSQL breaks a deadlock of the two. A row deleted and
not committed holds up what writes the same row (`RowLocked`, `KeyLocked`). `atRead` is history:
the roster and the items that the rotation in its transaction has read.

Choices worth knowing. The reads and checks of a rotation and its DELETE of the key rows are one
step: what commits between two of them is taken to commit before the first or after the last. Of
the removals of one user one runs at a time, as the second waits for the row the first deleted.
`Init` allows a creator with a key (`POST /vaults`) and without (the default vaults of `POST
/workspace`). A user has one browser and one request in flight. The check and the commit of an
item write are one step, since all that a late commit could bring is an older key, which `held`
brings already; so are the check and the first statement of a removal or a role change
(`TempAccess` has those apart). Trash and team endpoints are driven by a workspace administrator
who is not one of `Users`. `ApproveAccess`, `Expire` and `SweepMember` are what an approval, the
clock and the sweeper do to a member row here; how an approval comes about is in `TempAccess`.
All ciphertexts of an item are made with one key. A user publishes a public key once; a repeated
set-up, which replaces it, is not modelled (`Accounts` has the repeated set-up, but no key
pair).

### Sends

`stage[r]` is how far a reveal got: `ReadSend` (the row, the grace second, the password),
`Claim` (the guarded UPDATE), `AuditView` (audit and notification in one transaction), `Answer`.
`Crash` and `FailAudit` lose requests; the database keeps what was committed. A burn is
`ReadBurn` and the unguarded `CommitBurn`.

`SendLedger` says what the sender is promised: a budget of views that requests take, record and
are given, in this order and once each, and an end after which no view is taken. `Promise` maps
`max_views - view_count` to what is left of it, and a burn or the expiry to the end. So `Claim`
is `Take`, `AuditView` `Record`, `Answer` `Give`, a burn or the last tick `End`; everything else
is a stutter, and a crash too.

### OrgMembers

`role` and `exists` are the rows, `invites` the invitation rows, and each `Requests` slot
carries one handler from its `Check...` to its `Commit...`. The partial unique index
`org_members_single_owner` is what makes the second of two transfers fail in `CommitTransfer`,
and the rollback is part of it. `Init` is any workspace at rest: one owner, any other roles.
`CheckAccept`/`CommitAccept` also stand for sign-up through an invitation, which accepts it in
the same way. Tokens are not modelled: whoever accepts has the link and the address.

### TempAccess

`grants[u]` is a member row with its role, the role to return to and whether it expires never,
later or already. A decision is `CheckDecide`, `BeginDecide` (the UPDATE of the request, which
locks its row, and the read of the member row) and `CommitDecide`. A sweep is `SweepRead` and
`SweepWrite`: its writes are merged at the commit, because the row locks hide them until then.
The handlers of `vaultMembers.ts` are repeated here with check and commit apart, as the sweeper
and the decisions race with them. The approver is an administrator outside `Users`. The item
branch of the code repeats the vault branch.

### ItemEdits

A content is a stamp, the number of the save that wrote it. `view[t]` is the copy a tab loaded,
of any age; `SubmitEdit` and `ToggleFavorite` build the PATCH from the difference between form
and copy (`items-overlay.ts`), `PatchKeys` says which keys it has. On the server `LoadItem`
reads the row (`prev`, from which the snapshot is taken), `LockItem` waits for the row lock,
`ReadMax` numbers the version and `CommitPatch` writes version, pruning, row and terms. A PATCH
without a content key makes no version. `Lose` is a lost connection or a crash, before or after
the commit; the tab is left with its old copy and the user may save again from there. After a
star the page shows the row it fetched, of which only the notes were decrypted: in a
zero-knowledge vault the copy has lost name, username and address (`Nameless`) until the page is
loaded again, and an edit from it counts as a rename. The trash is checked and written apart by
`CheckTrash` and `CommitTrash`.

### Attachments

`up[u]` is how far an upload got: admitted (item live, rights), counted (the sum of the quota),
stored (blob written), done (row inserted). `desk[d]` is a request on items, the vault or the
workspace: delete and restore flip the flag by id; a purge or an emptying lists the blobs of its
items, unlinks them one at a time (a failure is logged and the loop goes on) and then deletes
the rows; the deletion of the workspace does the same with all items, live ones included, and
the vault goes with them (`workspace.ts:551-596`); the deletion of the vault looks for live
items and deletes later, with everything that cascades. `FailPurge` is a transaction that fails
after the unlinking. `listed` is history: the items whose blobs a request set out to delete.

### Accounts

A password or kit is a stamp, and a zero-knowledge factor has the stamp of the password its key
was derived from. The users row holds four hashes: the login password and its factor
(`auth_key_hash`), the master password and its factor (`master_auth_key_hash`). `UnlockFactors`
says what `verify-password` accepts. `AfterSetup` stores whatever factors the client sends and
loses the master's if it sends none; `AfterReset` replaces the two passwords and leaves both
factors. A request reads the users row once (`ReadUser`, after `Authenticate` where it needs a
session), and everything it decides and much of what it writes comes from that copy. `Sweep` and
`Commit` are the two halves of the transaction of a setup or a reset: it holds the lock on the
row from the first on (`tx`), so other writers of the row wait, but sessions inserted meanwhile
are not among those it deletes; such a session is marked `raced`. `era` and `factors` are
history: the setup or reset a session is younger than, and what the account accepted as proof
during its life. A login by factor differs from one by password in nothing that is asked here
and is the same action.

### TwoFactor

`now` is the clock in 30-second steps; a check looks at the clock twice, for the window and for
the step it records, and `Slips` says whether a boundary lay between. `ConsumeTotpStep` is the
compare-and-set on `last_totp_step`, `MatchCode` the search through the unused backup codes,
`ClaimCode` the guarded UPDATE at login. `BeginWrite`, `CommitWrite` and `SweepSessions` are the
transaction that switches the factor on or off and the deletion of sessions after it. A secret
and a set of backup codes are numbers in the order they were made.

### ItemAccess

Roles are ranks, `grants[level][p]` the row of a user or team on the item, the folder or the
vault. `ItemRole`, `BatchRole` and `SeesVault` are the three walks over grants:
`resolveItemRole`, `resolveItemRolesBatch` and `loadVaultForViewer`. They are written over sets
of rows, each in the order and with the filters of its own code. `Check` is all a sharing
request asks before its transaction, `Write` what it writes, whatever the row is by then. `Init`
is a vault with managers, other members, and one temporary grant perhaps. The managers send no
request: the question is how far everybody else gets without them.

## 3. The runs

| Run | Shows |
|---|---|
| `rekey_shared` | with items, a team and temporary access, but no removals: no generation is used twice, and rotations are complete for all that did not move meanwhile |
| `rekey_removals` | with items and removals, but in a vault shared with people only, while removals and rotations overlap statement by statement: a key taken back leaves the flag, rotations are complete for all that did not move, and the refinement of `KeyCustody` |
| `sends` | budget, grace, finality, delivery of every claimed view unless a failure takes it, and the refinement of `SendLedger`, by which no view is given unaudited |
| `org_members` | never two owners; transfers end with an owner; acceptance closes its invitation and changes nobody's role |
| `org_peers` | administrators and members together, without the owner, never make another administrator |
| `temp` | no temporary role without a decision; one automatic denial; expired roles and stale requests are dealt with |
| `items` | versions are the latest ones, numbered without gap; concurrent edits never collide; an edit moves only what its user changed; a fresh edit keeps the index right |
| `attachments` | only a purge or the deletion of the workspace leaves rows without blobs, and either ends whatever the storage does, unless its transaction fails or the process dies; the quota is exceeded by uploads in flight at most |
| `accounts` | an unlock takes a password or factor that the account accepted during the session; a setup or reset leaves no session but those inserted while it committed |
| `two_factor` | a TOTP step is accepted once, unless a step boundary falls between the two looks at the clock of one check; a backup code opens one session |
| `access` | the batch resolver agrees with the single one; a role on an item lets its holder open the vault; nobody gains a rank the managers did not give; no deadlock |
| `rekey_stale` | a counterexample, see section 6 |

**Bounds.** Two users are enough for a rotation to race a removal, an addition or a second
rotation, three accounts for a transfer to race a change of its target by the owner. `MaxVersion
= 2` is one rotation that is applied, beside which others prepare the same version, are
overtaken or roll back; `MaxContent = 2` in `rekey_shared` lets an item be edited once.
`MaxRemovals = 1` has one removal in its transaction at a time: a race needs one beside a
rotation. One item is enough, as a rotation treats items alike; listing and reading still
interleave with everything else. The two passing runs divide the rest: `rekey_shared` has a team
and temporary access but no removals, `rekey_removals` the reverse and two roles, because the
product of all is too large. What needs them together, a larger vault or a second rotation is
what the proofs cover, which restrict none of it (`CompleteRotations`, `TakenBackStaysFlagged`,
`ImplementsCustody`). Sends: two views, three reveals that know the password, one that does not,
two burns: any claim can be the last, and there is one too many. OrgMembers: two handlers in
flight, since a race needs a check, an interfering commit, and a commit. `org_peers` has three
actors, a second invitation and the role between member and admin, so that a chain of three role
changes exists. TempAccess: two handlers and a sweep over one request. ItemEdits: two tabs with
two saves after the creation and one version kept, so that pruning happens at every save and a
tab can be two saves behind; one trash request. Attachments: a quota of one unit, so that two
parallel uploads exceed it and a third is refused; three requests, so that a restore can come
between a purge and another. Accounts: the first wrong password locks (the fifth in the code);
zero-knowledge factors are derived from one password (`Derived`), the first master password;
five stamps allow a setup and then a reset with its kit, two stamps each, or a reset between two
kits; three sessions and two requests let a login, a reset and a session opened earlier meet.
TwoFactor: two positions of the clock, so that the windows of a code overlap, one secret and two
sets of codes. ItemAccess: two users who share, one of them the item's creator, the other an
auditor, one team, two requests: a grant made by one can be used by the other, and each write
can be stale. Symmetry is used only where no liveness is checked. The `CHECK_DEADLOCK FALSE` in
the cfgs (all but `access`) is due to bounds and to systems that may really stop: a deleted
workspace, a send whose requests are all over, an item that is gone.

**Fairness.** `Sends`: a handler that has started continues, as each of its awaits resolves
(weak fairness of `Claim`, `AuditView`, `Answer`); nothing makes a request arrive or the clock
tick. `TempAccess`: `startExpirationSweeper` sets an interval, so a sweep and the automatic
denial run again and again (weak fairness of `SweepRead` and `AutoDeny`); `SweepWrite` has
strong fairness, which says that the transaction does not fail for ever, because every tick
starts over after a logged error; a decision that holds a row lock commits. `Attachments`: a
purge that has started goes on, as each of its awaits resolves or throws (weak fairness of
`ListBlobs`, `UnlinkNext`, `CommitPurge`); a crash, or a transaction that fails (`FailPurge`),
may still end it, and nothing makes a request arrive.

## 4. Proofs

Eight modules prove, for every value of the constants, what the runs show on small ones. The
assumptions are the named `ASSUME`s of the modules (bounds are positive naturals, handlers are
called with roles that exist, finitely many requests and users, the founder is a user).

* `VaultRekeyProofs`. The inductive invariant is `Sound`: the types; that one rotation at a time
  is in its transaction, is for the version the vault has and will write what it read, and that
  a removal takes only keys it is going to raise the flag for (`TxSound`); and
  `NoFutureGeneration`, where the request record must also be no newer than the vault
  (`RequestSane`), or the two halves of the version check would not fit. `RotationIsComplete`
  follows per step: what was read under the lock and has not moved is in what is written.
  `TakenBackIsFlagged` is inductive over `Sound`. `ImplementsCustody` maps each action to one
  action of `KeyCustody` or a stutter; the rows of a rotation move at its commit, those of a
  removal at its own. What the overlap of a removal and a rotation breaks is proved under a
  condition that rules it out (below).
* `SendsProofs`. The invariant adds that `view_count` counts the claims and that whoever is past
  the claim is among them; `max_views` then bounds the answers by a cardinality argument. The
  action properties read off the guard of `Claim`. `ImplementsLedger` needs the same invariant:
  a stage between claim and answer means that the view is taken, and recorded exactly from the
  audit on.
* `OrgMembersProofs`. Inductive: types, at most one owner, and that a request in flight never
  carries the role of owner. The index is what makes the second clause survive `CommitTransfer`.
  `PeersCannotMint` takes a second invariant over everything in flight: while the founder stays
  out of it the founder's row is an owner's, no request is a transfer or a deletion or aims at
  the founder, and neither a request nor an invitation carries the role of administrator. It
  rests on `AtMostOneOwner`, which says that nobody else could start a transfer.
* `TempAccessProofs`. Inductive: types, that a request someone is about to decide exists (rows
  are never deleted), that a temporary role has a decided request, and that one denial per
  request is counted.
* `ItemProofs`. `EditsInv` is inductive for the editor: the types; that a PATCH has the keys
  that its form and its tab's copy call for (`FormsMatch`); that at most one request is past the
  row lock, so that the number it read is still the newest (`LocksHold`); and then
  `VersionsAreLatest` and `NoEditCollides` themselves, as neither holds without the other.
  `OnlyChangesAreWritten` and `FreshEditsKeepIndex` read the keys of the PATCH against it. For
  attachments, `BlobsFirst` says in which order a row and its blob come and go: a stored upload
  has its blob, only a finished one has a row, and a purge or the deletion of the workspace
  unlinks only what it listed. `LoadBound` counts rows and uploads in flight together, as the
  count alone is not preserved by an insert.
* `AccountsProofs`. The history of every session alive contains what is accepted on the row, on
  each copy a request under it carries, and on what an open transaction will write; and an open
  transaction leaves only sessions that raced it. Without stored factors a session younger than
  the last change has seen one master password, hence `StaleMasterNeedsAFactor`.
* `TwoFactorProofs`. `Counted`: no step was accepted beyond `last_totp_step`. `Owned`: a backup
  code is in the store, claimed by one request, or in one session, never in two places.
* `ItemAccessProofs`. `HighestIsOne` shows that the `CHOOSE` in `Highest` is determined;
  `BucketsAreGrants` that the batch buckets hold exactly the grants of each level, which makes
  the resolvers equal. For `NoRankIsMinted` the requests in flight must be bounded by editor too
  (`Asked`), and every resolved role by what the grants hold.

### The causes of what the code breaks

A rule of section 6 is broken by some behaviour, so no theorem can state it of the specification
alone. What can be proved is *which* steps break it: the specification, with a condition on its
steps that excludes those, implies the rule. Read the other way round, every behaviour that
breaks the rule takes such a step, and a repair that rules them out is enough. Each condition
speaks of what happens between a check and its commit, or of what one write is made with or
given to, and the invariant carries it to the rule.

| Theorem | The rule holds if | Rule |
|---|---|---|
| `StaleItemsHaveTwoCauses` | writes use the current key, nothing older is restored, and nothing at all during the transaction of a rotation (`CurrentWrites`) | `LiveItemsOnCurrentKey` |
| `DirectKeysFollowAccess` | there are no teams and no temporary access, and no removal overlaps a rotation (`UndisturbedRosters`) | `NoKeyWithoutAccess` |
| `KeysOnlyForMembers` | the same | `KeyRowsOnlyForMembers` |
| `RevocationIsFlagged` | the same | `RevokedIsFlagged` |
| `RemovedKeysOpenNothing` | the same, and `CurrentWrites` | `CachedKeyUseless` |
| `ContentLossHasOneCause` | nobody writes an item a rotation under way has read (`UndisturbedReads`) | `RotationKeepsContent` |
| `StaleRowsHaveOneCause` | no rotation commits during an addition (`UndisturbedAdds`) | `KeyRowsCurrent` |
| `KeylessVaultsAreBornSo` | the vault was created with a key | `UnflaggedVaultHasKey` |
| `StalledRostersAreARace` | there are no teams and no temporary access, and nobody leaves the workspace while being added (`UndisturbedJoins`) | `PublishedRosterAccepted` |
| `DirectAccessEnds` | the same | `RemovalRevokesAllAccess` |
| `ReburnIsARace` | nothing ends the send during a burn (`BurnsHold`) | `ReburnIsNoOp` |
| `OwnerlessIsARace` | nobody becomes the owner while a role change or removal of theirs is in flight (`TargetsHold`) | `ExactlyOneOwner` |
| `SpentInvitationIsARace` | nobody spends an invitation while it is being accepted (`InvitationsHold`) | `SpentInvitationAdmitsNobody` |
| `LastManagerGoesByRace` | the managers stay the same during a removal or demotion (`ManagersHold`) | `LastManagerStays` |
| `RedecisionIsARace` | nobody else decides a request being decided (`VerdictsHold`) | `DecidedOnce` |
| `BaselineLossHasTwoCauses` | nobody writes the row under a decision, and roles go to members only (`BaselinesHold`, `MembersOnly`) | `ReapprovalKeepsBaseline` |
| `SweepErrsByRace` | nobody writes a row a sweep has read (`SweptRowsHold`) | `SweepTakesOnlyExpired` |
| `StaleMasterNeedsAFactor` | no setup stores a zero-knowledge factor (`PlainSetups`) | `NoStaleMaster` |
| `LockOutIsARace` | no disable commits during a confirmation (`VerifiesHold`) | `EnabledHasSecret` |

Their proofs share one form: an invariant that what a request in flight read is still so (the
content, the version, the role of its target), kept by every step under the condition, and the
rule at the commit from it.

Only model-checked: liveness (`PaidViewsDelivered`, `ExpiredIsSwept`, `StaleIsClosed`,
`PurgeSurvivesStorage`), which is out of the prover's reach, and the counterexample of section
6.

## 5. Not modelled

Contents, names, formatting, audit text, mail, tokens, cryptographic primitives, pagination, the
Slack integration. The deadlock of a removal and a rotation (one locks `vault_keys` before
`vaults`, the other the other way round) is not detected step by step: `AbortRekey` and
`AbortRemoval` let either end at any point, which contains what PostgreSQL chooses.

The web application is by far the larger half of the code: translations, pages, a vendored
component library, charts and forms that show what the server answers. What carries state from
one request to another is modelled (the rekey dialogs, the key cache, the item page with its
edit dialog and overlay); the rest has no behaviour that two steps could get wrong, and a model
of it would restate the rendering. This, and list, search, audit, report and settings endpoints
that read or overwrite one row, is why the mapped lines are a small part of all lines.

Also left out: `lib/rateLimit.ts` (a window counter per process when Redis is away; no modelled
property rests on it), `routes/imports.ts` (row by row without a transaction; nothing in it
keeps a row from being imported twice), `routes/sso.ts` (an external protocol that ends in the
session `Accounts` opens), and of the bulk endpoint the tags and the aborted transaction.

## 6. Divergences

One run, `rekey_stale`, shows a divergence; the trace TLC prints is the scenario.
`assertItemCompleteness` compares live ids only. An item that was in the trash is live again
after a restore, still under the old key; and a browser with a key cached before the rotation
writes with it. "No item left on the old key" (`vaultRekey.ts:237`) is not kept, and such an
item is unreadable to members who fetch their key anew.

### Rules stated in a module that the code breaks

No run is spent on these; name one in a cfg to see its trace (for `NoKeyWithoutAccess` that of
`rekey_removals`, for `NoStaleMaster` that of `accounts`). Section 4 says under which condition
each of them holds, but for `RenameIsAccepted`.

| Rule | Module | What happens |
|---|---|---|
| `RemovalRevokesAllAccess` | VaultRekey | `members.ts:350` deletes direct grants and keys but not `team_members`, and access is resolved through teams without asking for workspace membership; `REQUIREMENTS.md:367` (AC-024.2): "This will revoke all access." |
| `KeyRowsOnlyForMembers` | VaultRekey | a rotation reads the roster while a removal has deleted the membership and not committed, or just before it does, so the removed user is still on it and gets a key row. `vaultRekey.ts:143-144` says that under the lock "no concurrent add/remove can break the completeness invariant mid-rotation". The end of a team-derived access and the sweep of an expired role overlap in the same way |
| `NoKeyWithoutAccess` | VaultRekey | the DELETE of that removal on `vault_keys` affects the row it sees, or none, and not the one the rotation inserts: both commit, and a user without access has a row with the new key; if the user had no row when `revokeOrgKeysAndFlag` looked, the vault is not flagged either. `lib/rekey.ts:16-17`: "cut their SERVER-SIDE access immediately by deleting their vault_keys row". Besides, neither the end of a team-derived access nor the expiry of a temporary role takes the key back |
| `RevokedIsFlagged` | VaultRekey | none of the three ways to lose a team-derived access touches the key row or the flag; `lib/rekey.ts:16-22` describes both for "when a member loses access". The expiry of a temporary role does not either, nor a removal that overlaps a rotation |
| `CachedKeyUseless`, `RotationKeepsContent` | VaultRekey | an edit between the read and the commit of a rotation is overwritten; a cached key is good after a rotation |
| `KeyRowsCurrent` | VaultRekey | an addition stores the key wrapped before a rotation |
| `PublishedRosterAccepted` | VaultRekey | a team member removed from the workspace, or a user added to the vault by a request that was under way, stalls the rotation |
| `UnflaggedVaultHasKey` | VaultRekey | default vaults never get a key |
| `ReburnIsNoOp` | Sends | two burns audit twice |
| `ExactlyOneOwner` | OrgMembers | a role change or removal checked before a transfer is committed after it against the new owner; `REQUIREMENTS.md:181` (AC-005b.2): "never two Owners and never zero Owners" |
| `SpentInvitationAdmitsNobody` | OrgMembers | an acceptance races a revocation |
| `ReapprovalKeepsBaseline` | TempAccess | `originalRole ?? role` takes the elevated role of a former non-member as baseline and the grant becomes permanent; `accessRequests.ts:276-279`: "Re-approving must NOT promote originalRole to the elevated role" |
| `LastManagerStays` | TempAccess | two removals or demotions that each counted two managers both commit; `API_CONTRACT.md:419`: "the API refuses to remove or demote the last manager of a vault" |
| `DecidedOnce`, `SweepTakesOnlyExpired` | TempAccess | two deciders; a role renewed between the read and the write of a sweep |
| `NoStaleMaster` | Accounts | a setup stores a zero-knowledge factor of the master password; a recovery reset replaces both passwords (`auth.ts:626-648`) but not the factors, and `me.ts:682-686` still accepts them: the client of the old master password unlocks a session opened after the reset; the old login factor goes on logging in, too (`auth.ts:189`). `auth.ts:635-636`: "a single fresh credential, no split-brain where login works but unlock uses a stale master" |
| `EnabledHasSecret` | TwoFactor | a confirmation that races a disable enables a factor without a secret; `twoFactor.ts:374`: "Pathological state" |
| `RenameIsAccepted` | ItemEdits | web `items-overlay.ts:736` sets `name` to `""` beside the ciphertext, `items.ts:174` wants at least one character: a rename in a zero-knowledge vault is a 400, and so is every edit after a star until the page is loaded again |

### Behaviours the models contain

* ItemEdits. The snapshot of a version is the row read before the transaction, not the "CURRENT
  state" of `items.ts:819`: of two racing edits one state is missing from the history. The tags
  and the search terms of a stale tab overwrite newer ones. A revealed password stays on the
  page after the tab's own save.
* Attachments. A restore that races a purge, or a crash in the middle of one, leaves a live item
  whose rows have lost their blobs; so does a deletion of the workspace that unlinks the blobs
  of all items and then fails (`workspace.ts:551-596`). The DELETE of a purge names the item by
  id alone, so an item restored meanwhile is deleted live. Deleting a vault destroys its trashed
  items and leaves their blobs behind (`items.ts:1013`: "never destroys data — only an admin's
  purge does"); an item restored or created after its count is destroyed with it.
* Accounts. A setup that read the row before a reset writes the old master back beside the new
  login (`auth.ts:635` wants "no split-brain"); one kit resets twice; two first setups both win,
  as `me.ts:499` makes the guard always true. A login in flight with the old password opens a
  session after a reset. Parallel failures are counted once, and a stale write clears a lock.
* TwoFactor. A stale enrolment switches a confirmed factor off; a stale confirmation enables a
  secret nobody confirmed; the backup code of a disable is not claimed; two regenerations leave
  both sets; a login that read the row before the factor was enabled opens a session without it;
  a code is taken twice when a step boundary falls between the two looks at the clock.
* ItemAccess. A bulk share overwrites a higher grant without `canModifyGrant`, which single
  sharing asks; a stale PATCH or DELETE changes a grant raised meanwhile; removing a low grant
  on an item raises its holder to the vault role, and adding one lowers a manager on that item.
  A changed role of a temporary grant is lost at its expiry. An expired grant with a base keeps
  its holder from the item until the sweep.
* Not in a model: the item list (`items.ts:1295`) ignores team grants and expiry where
  `access.ts` does not; a bulk request that catches an error inside its transaction reports
  items as done that Postgres rolls back; `API_CONTRACT.md` documents `/vaults/:id/migrate` and
  a rollback that do not exist.

## 7. Plan

1. An abstract specification of membership that `OrgMembers` implements, and one of the
   temporary grants for `TempAccess`.
2. Compositions: `OrgMembers` with `TempAccess` (a decision for a user who left), `Accounts`
   with `TwoFactor`.
3. `RateLimit` and `Imports`.
