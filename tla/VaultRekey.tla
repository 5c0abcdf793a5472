----------------------------- MODULE VaultRekey -----------------------------
(***************************************************************************)
(* The key life cycle of one zero-knowledge (encryptionVersion = 2) vault. *)
(*                                                                         *)
(* The server stores, for every user it can, the vault key wrapped for     *)
(* that user (vault_keys) and ciphertext made with the vault key (items).  *)
(* It never sees a key, so removing a member only deletes the member's     *)
(* vault_keys row and raises rekey_pending; a manager's browser then reads *)
(* every item, re-encrypts it under a fresh key and posts the result.      *)
(*                                                                         *)
(* A key is represented by its generation: the vault's key_version when    *)
(* the key was installed.  0 stands for "no key".  The browser keeps the   *)
(* key it unwrapped until it locks, so a write may carry an old one.       *)
(*                                                                         *)
(* The variables are what is committed.  PostgreSQL runs the transactions  *)
(* at READ COMMITTED: the rotation and the removals, whose statements can  *)
(* fall between each other's, take several steps and may roll back; every  *)
(* other action is one handler's transaction, or one read of a browser.    *)
(* The rotation's FOR UPDATE on the vaults row holds up what inserts a row *)
(* that references the vault and what updates it.  It does not hold up a   *)
(* DELETE, nor a write to a row that is there.                             *)
(***************************************************************************)
EXTENDS Naturals, FiniteSets

CONSTANTS
    Users,       \* the accounts that can be workspace members
    Temps,       \* those of them who may ask for temporary access
    Teams,       \* the workspace's teams
    Items,       \* the item ids of the vault
    GrantRoles,  \* the roles the handlers are called with
    MaxVersion,  \* bound: no rotation beyond this key_version
    MaxContent,  \* bound: an item is edited at most MaxContent - 1 times
    MaxRemovals  \* bound: no more removals at a time

Role == {"manager", "editor", "user", "viewer"}
NoRole == "none"

ASSUME RekeyAssumption ==
    /\ Temps \subseteq Users
    /\ GrantRoles \subseteq Role
    /\ MaxVersion \in Nat \ {0}
    /\ MaxContent \in Nat \ {0}
    /\ MaxRemovals \in Nat

VARIABLES
    keyVersion,    \* vaults.key_version
    rekeyPending,  \* vaults.rekey_pending
    vaultKeys,     \* vault_keys: user -> generation of the wrapped key
    orgMembers,    \* org_members of the vault's workspace
    enrolled,      \* users with a user_keys row (an X25519 public key)
    teamMembers,   \* team_members: team -> users
    vaultTeams,    \* vault_team_members: team -> role, NoRole without a row
    vaultMembers,  \* vault_members: user -> role, NoRole when there is no row
    lapse,         \* vault_members: user -> original_role and expires_at
    items,         \* items: id -> row
    held,          \* browser: user -> generation in its vault key cache
    req,           \* user -> what the user's request in flight carries
    removal,       \* user -> the open transaction that removes the user
    atRead         \* history: the roster and the live items that the rotation
                   \* in its transaction read; no action looks at it

keyVars == <<keyVersion, rekeyPending, vaultKeys>>
peopleVars == <<orgMembers, enrolled, teamMembers, vaultTeams>>
memberVars == <<vaultMembers, lapse>>
clientVars == <<held, req>>
txVars == <<removal, atRead>>
serverVars == <<keyVars, peopleVars, memberVars, items, txVars>>
vars == <<keyVars, peopleVars, memberVars, items, clientVars, txVars>>

-----------------------------------------------------------------------------
(* Rows, requests and open transactions *)

Version == 1..MaxVersion
Generation == 0..MaxVersion
Content == 1..MaxContent

NoItem == [state |-> "none", gen |-> 0, content |-> 0]
ItemRow == [state : {"live", "trashed"}, gen : Version, content : Content]

\* base is the role a temporary one reverts to; until tells how expires_at,
\* when there is one, compares with the clock.
Lapse == [base : Role \cup {NoRole}, until : {"never", "later", "past"}]
Permanent == [base |-> NoRole, until |-> "never"]

Idle == [op |-> "idle"]

\* POST /vaults/:id/members past its checks: the wrapped key it inserts.
AddRequest == [op : {"add"}, target : Users, role : Role, gen : Generation]

\* The rekey dialog and the request it posts.  read[i] = 0: not read yet.  In
\* phase "writing" its transaction holds the vaults row.
RekeyRequest == [op : {"rekey"}, phase : {"open", "reading", "admitted", "writing"},
                 expected : 1..(MaxVersion - 1), old : Version, wrapped : SUBSET Users,
                 listed : SUBSET Items, read : [Items -> 0..MaxContent]]

Request == {Idle} \cup AddRequest \cup RekeyRequest

\* A transaction that removes a user from the vault or (org) the workspace.
\* row: it deleted a vault_members row.  flag: it is going to raise the flag.
\* key: its DELETE on vault_keys matched a row that is still there.
Removal == [stage : {"none", "begun", "listed", "dropped"},
            org : BOOLEAN, row : BOOLEAN, flag : BOOLEAN, key : BOOLEAN]
NoRemoval == [stage |-> "none", org |-> FALSE, row |-> FALSE, flag |-> FALSE, key |-> FALSE]

-----------------------------------------------------------------------------
(* What an open transaction holds up *)

\* SELECT ... FOR UPDATE on the vaults row.
Rotating == {u \in Users : req[u].op = "rekey" /\ req[u].phase = "writing"}

\* A row deleted and not committed yet: an insert or an update of it waits.
RowLocked(v) == removal[v].row
KeyLocked(v) == removal[v].key

-----------------------------------------------------------------------------
(* Access: lib/access.ts and loadVaultForUser take the highest of the      *)
(* direct and the team-derived roles; only membership in the set matters.  *)
(* A temporary role that is over counts as the role it was granted over.   *)

TeamsOf(u) == {t \in Teams : u \in teamMembers[t]}
DirectRole(u) == IF lapse[u].until = "past" THEN lapse[u].base ELSE vaultMembers[u]
RolesOf(u) == ({DirectRole(u)} \cup {vaultTeams[t] : t \in TeamsOf(u)}) \ {NoRole}
HasAccess(u) == RolesOf(u) # {}
IsManager(u) == "manager" \in RolesOf(u)
CanManageItem(u) == RolesOf(u) \cap {"manager", "editor"} # {}

\* resolveVaultRoster, and GET /vaults/:id/member-keys: the rows, whatever
\* their expiry.  countManagers counts rows too.
Roster == {u \in Users : vaultMembers[u] # NoRole}
          \cup {u \in Users : \E t \in TeamsOf(u) : vaultTeams[t] # NoRole}
EnrolledRoster == Roster \cap enrolled

Managers == {u \in Users : vaultMembers[u] = "manager"}
LiveItems == {i \in Items : items[i].state = "live"}

-----------------------------------------------------------------------------
(* The creator is the manager.  POST /vaults stores the key its browser made *)
(* and wrapped; the default vaults of POST /workspace get none.              *)
Init ==
    /\ keyVersion = 1
    /\ rekeyPending = FALSE
    /\ \E creator \in Users, key \in {0, 1} :
         /\ orgMembers \in {S \in SUBSET Users : creator \in S}
         /\ enrolled \in {S \in SUBSET orgMembers : key = 1 => creator \in S}
         /\ vaultMembers = [u \in Users |-> IF u = creator THEN "manager" ELSE NoRole]
         /\ vaultKeys = [u \in Users |-> IF u = creator THEN key ELSE 0]
    /\ teamMembers = [t \in Teams |-> {}]
    /\ vaultTeams = [t \in Teams |-> NoRole]
    /\ lapse = [u \in Users |-> Permanent]
    /\ items = [i \in Items |-> NoItem]
    /\ held = [u \in Users |-> 0]
    /\ req = [u \in Users |-> Idle]
    /\ removal = [u \in Users |-> NoRemoval]
    /\ atRead = [users |-> {}, items |-> {}]

-----------------------------------------------------------------------------
(* The browser's key cache: getVaultKey fetches and unwraps the caller's   *)
(* vault_keys row on a miss, markLocked drops it, and nothing else does.   *)

FetchKey(u) ==
    /\ held[u] = 0
    /\ HasAccess(u)
    /\ vaultKeys[u] # 0
    /\ held' = [held EXCEPT ![u] = vaultKeys[u]]
    /\ UNCHANGED <<serverVars, req>>

Lock(u) ==
    /\ held[u] # 0
    /\ held' = [held EXCEPT ![u] = 0]
    /\ UNCHANGED <<serverVars, req>>

-----------------------------------------------------------------------------
(* The client-driven rotation *)

\* Opening the dialog: the page's keyVersion, the cached key and the roster
\* that GET /vaults/:id/member-keys publishes inside the workspace.
OpenRekey(u) ==
    /\ req[u] = Idle
    /\ IsManager(u)
    /\ u \in orgMembers
    /\ held[u] # 0
    /\ keyVersion < MaxVersion
    /\ EnrolledRoster # {}
    /\ req' = [req EXCEPT ![u] =
                 [op |-> "rekey", phase |-> "open", expected |-> keyVersion,
                  old |-> held[u], wrapped |-> EnrolledRoster,
                  listed |-> {}, read |-> [i \in Items |-> 0]]]
    /\ UNCHANGED <<serverVars, held>>

\* buildRekeyPayload lists the live items ...
ListItems(u) ==
    /\ req[u].op = "rekey"
    /\ req[u].phase = "open"
    /\ req' = [req EXCEPT ![u].phase = "reading", ![u].listed = LiveItems]
    /\ UNCHANGED <<serverVars, held>>

\* ... and reads them one by one.
ReadItem(u, i) ==
    /\ req[u].op = "rekey"
    /\ req[u].phase = "reading"
    /\ i \in req[u].listed
    /\ req[u].read[i] = 0
    /\ items[i].state = "live"
    /\ items[i].gen = req[u].old
    /\ req' = [req EXCEPT ![u].read[i] = items[i].content]
    /\ UNCHANGED <<serverVars, held>>

\* An item that is gone (404) or that the old key does not decrypt
\* (RekeyDecryptError) aborts the whole flow.
AbortRead(u, i) ==
    /\ req[u].op = "rekey"
    /\ req[u].phase = "reading"
    /\ i \in req[u].listed
    /\ req[u].read[i] = 0
    /\ \/ items[i].state # "live"
       \/ items[i].gen # req[u].old
    /\ req' = [req EXCEPT ![u] = Idle]
    /\ UNCHANGED <<serverVars, held>>

AdmitUnread(u) ==                                                     \* mutant
    /\ req[u].op = "rekey"
    /\ req[u].phase = "reading"
    /\ req' = [req EXCEPT ![u].phase = "admitted"]
    /\ UNCHANGED <<serverVars, held>>

\* POST /vaults/:id/rekey up to its transaction: the caller's role.
AdmitRekey(u) ==
    /\ req[u].op = "rekey"
    /\ req[u].phase = "reading"
    /\ \A i \in req[u].listed : req[u].read[i] # 0
    /\ IF IsManager(u)
       THEN req' = [req EXCEPT ![u].phase = "admitted"]
       ELSE req' = [req EXCEPT ![u] = Idle]
    /\ UNCHANGED <<serverVars, held>>

\* validateWrappedKeys: inside the workspace, and exactly the enrolled roster.
WrappedKeysNoStranger(r) == r.wrapped \subseteq orgMembers \cap EnrolledRoster \* mutant
WrappedKeysValid(r) ==
    /\ r.wrapped \subseteq orgMembers
    /\ r.wrapped = EnrolledRoster

\* The live key_version read under FOR UPDATE, the roster and the item set.
RekeyValidAnyVersion(r) == WrappedKeysValid(r) /\ r.listed = LiveItems   \* mutant
RekeyValidAnyItems(r) == keyVersion = r.expected /\ WrappedKeysValid(r)  \* mutant
RekeyValid(r) ==
    /\ keyVersion = r.expected
    /\ WrappedKeysValid(r)
    /\ r.listed = LiveItems

\* newKeyVersion is expectedKeyVersion + 1.
KeepVersion(r) == UNCHANGED keyVersion /\ rekeyPending' = FALSE           \* mutant
BumpVersion(r) == keyVersion' = r.expected + 1 /\ rekeyPending' = FALSE

\* The transaction takes the vaults row, checks, deletes every key row and
\* inserts the new ones.  Nobody sees any of it before the commit.  The DELETE
\* waits for a removal that has deleted a key row; that removal is about to
\* wait for the vaults row, so one of the two is aborted.
BeginRekey(u) ==
    /\ req[u].op = "rekey"
    /\ req[u].phase = "admitted"
    /\ Rotating = {}
    /\ ~\E v \in Users : KeyLocked(v)
    /\ RekeyValid(req[u])
    /\ req' = [req EXCEPT ![u].phase = "writing"]
    /\ atRead' = [users |-> EnrolledRoster, items |-> LiveItems]
    /\ UNCHANGED <<keyVars, peopleVars, memberVars, items, held, removal>>

\* 403, 409 rekey_conflict, rekey_incomplete_members or rekey_incomplete_items.
RejectRekey(u) ==
    /\ req[u].op = "rekey"
    /\ req[u].phase = "admitted"
    /\ Rotating = {}
    /\ ~RekeyValid(req[u])
    /\ req' = [req EXCEPT ![u] = Idle]
    /\ UNCHANGED <<serverVars, held>>

\* It updates the items by id, live or trashed by now, and sets the version
\* and the flag.  A removal that had matched a key row replaced here does not
\* see the new one.
CommitRekey(u) ==
    LET r == req[u] IN
    /\ u \in Rotating
    /\ vaultKeys' = [v \in Users |-> IF v \in r.wrapped THEN r.expected + 1 ELSE 0]
    /\ items' = [i \in Items |->
                   IF i \in r.listed /\ items[i].state # "none"
                   THEN [state |-> items[i].state, gen |-> r.expected + 1, content |-> r.read[i]]
                   ELSE items[i]]
    /\ BumpVersion(r)
    /\ removal' = [v \in Users |-> [removal[v] EXCEPT !.key = FALSE]]
    /\ req' = [req EXCEPT ![u] = Idle]
    /\ atRead' = [users |-> {}, items |-> {}]
    /\ UNCHANGED <<peopleVars, memberVars, held>>

\* The transaction rolls back: a crash, a deadlock, the search terms of an item
\* purged meanwhile.
AbortRekey(u) ==
    /\ req[u].op = "rekey"
    /\ req[u].phase \in {"admitted", "writing"}
    /\ req' = [req EXCEPT ![u] = Idle]
    /\ atRead' = IF u \in Rotating THEN [users |-> {}, items |-> {}] ELSE atRead
    /\ UNCHANGED <<keyVars, peopleVars, memberVars, items, held, removal>>

-----------------------------------------------------------------------------
(* Direct members *)

\* The share dialog wraps the key it finds in the caller's own row, when the
\* recipient has a public key.  It sends none while the caller's private key
\* is locked or its member list is older than that public key.  Then the
\* handler's checks.
BeginAddMember(u, target, role) ==
    /\ req[u] = Idle
    /\ IsManager(u)
    /\ target \in orgMembers
    /\ vaultMembers[target] = NoRole
    /\ \E gen \in {0, vaultKeys[u]} :
         /\ gen # 0 => target \in enrolled
         /\ req' = [req EXCEPT ![u] =
                      [op |-> "add", target |-> target, role |-> role, gen |-> gen]]
    /\ UNCHANGED <<serverVars, held>>

\* The transaction inserts both rows, or neither when a primary key exists.
\* The inserts wait for the vaults row and for uncommitted deletes.
CommitAddMember(u) ==
    LET r == req[u] IN
    /\ r.op = "add"
    /\ Rotating = {}
    /\ ~RowLocked(r.target)
    /\ r.gen # 0 => ~KeyLocked(r.target)
    /\ req' = [req EXCEPT ![u] = Idle]
    /\ IF vaultMembers[r.target] = NoRole /\ (r.gen = 0 \/ vaultKeys[r.target] = 0)
       THEN /\ vaultMembers' = [vaultMembers EXCEPT ![r.target] = r.role]
            /\ vaultKeys' = IF r.gen = 0 THEN vaultKeys
                            ELSE [vaultKeys EXCEPT ![r.target] = r.gen]
       ELSE UNCHANGED <<vaultMembers, vaultKeys>>
    /\ UNCHANGED <<keyVersion, rekeyPending, peopleVars, lapse, items, held, txVars>>

\* PATCH /vaults/:id/members/:userId: role only.
ChangeRole(u, target, role) ==
    /\ IsManager(u)
    /\ vaultMembers[target] \notin {NoRole, role}
    /\ vaultMembers[target] = "manager" => Cardinality(Managers) > 1
    /\ ~RowLocked(target)
    /\ vaultMembers' = [vaultMembers EXCEPT ![target] = role]
    /\ UNCHANGED <<keyVars, peopleVars, lapse, items, clientVars, txVars>>

\* An access request approved by a workspace admin: the upsert of
\* accessRequests.ts, which keeps the base of a temporary role.
ApproveAccess(u, role) ==
    /\ u \in Temps
    /\ ~RowLocked(u)
    /\ vaultMembers[u] = NoRole => Rotating = {}
    /\ vaultMembers' = [vaultMembers EXCEPT ![u] = role]
    /\ \E until \in {"never", "later"} :
         lapse' = [lapse EXCEPT ![u] =
                     [base |-> IF @.base # NoRole THEN @.base ELSE vaultMembers[u],
                      until |-> until]]
    /\ UNCHANGED <<keyVars, peopleVars, items, clientVars, txVars>>

Expire(u) ==
    /\ lapse[u].until = "later"
    /\ lapse' = [lapse EXCEPT ![u].until = "past"]
    /\ UNCHANGED <<keyVars, peopleVars, vaultMembers, items, clientVars, txVars>>

\* sweepExpiredRoles reverts the role or deletes the row.  Neither it nor the
\* expiry touches vault_keys or the flag.
SweepMember(u) ==
    /\ lapse[u].until = "past"
    /\ ~RowLocked(u)
    /\ vaultMembers' = [vaultMembers EXCEPT ![u] = lapse[u].base]
    /\ lapse' = [lapse EXCEPT ![u] = Permanent]
    /\ UNCHANGED <<keyVars, peopleVars, items, clientVars, txVars>>

-----------------------------------------------------------------------------
(* Removals, one transaction at a time for one user: two of them meet on   *)
(* the row both delete.                                                    *)

MayRemove(v) ==
    /\ removal[v].stage = "none"
    /\ Cardinality({w \in Users : removal[w].stage # "none"}) < MaxRemovals

\* DELETE /vaults/:id/members/:userId: the checks and the membership.
BeginRemove(u, target) ==
    /\ MayRemove(target)
    /\ IsManager(u)
    /\ vaultMembers[target] # NoRole
    /\ vaultMembers[target] = "manager" => Cardinality(Managers) > 1
    /\ removal' = [removal EXCEPT ![target] =
                     [NoRemoval EXCEPT !.stage = "listed", !.row = TRUE, !.flag = TRUE]]
    /\ UNCHANGED <<keyVars, peopleVars, memberVars, items, clientVars, atRead>>

\* DELETE /members/:userId: the workspace row and the direct membership go,
\* team_members stays ...
BeginLeave(target) ==
    /\ MayRemove(target)
    /\ target \in orgMembers
    /\ removal' = [removal EXCEPT ![target] =
                     [NoRemoval EXCEPT !.stage = "begun", !.org = TRUE,
                                       !.row = vaultMembers[target] # NoRole]]
    /\ UNCHANGED <<keyVars, peopleVars, memberVars, items, clientVars, atRead>>

\* ... and revokeOrgKeysAndFlag looks for the vaults that store a key of the
\* user.  It leaves the others alone.
ListKeys(v) ==
    /\ removal[v].stage = "begun"
    /\ removal' = [removal EXCEPT
                     ![v].stage = IF vaultKeys[v] = 0 THEN "dropped" ELSE "listed",
                     ![v].flag = vaultKeys[v] # 0]
    /\ UNCHANGED <<keyVars, peopleVars, memberVars, items, clientVars, atRead>>

\* The DELETE on vault_keys, by the rows it sees when it starts.
DropKey(v) ==
    /\ removal[v].stage = "listed"
    /\ removal' = [removal EXCEPT ![v].stage = "dropped", ![v].key = vaultKeys[v] # 0]
    /\ UNCHANGED <<keyVars, peopleVars, memberVars, items, clientVars, atRead>>

RaiseNothing(v) == UNCHANGED rekeyPending                             \* mutant
RaiseFlag(v) == rekeyPending' = (rekeyPending \/ removal[v].flag)

\* The UPDATE of the vaults row waits for a rotation; then the commit.
CommitRemoval(v) ==
    LET x == removal[v] IN
    /\ x.stage = "dropped"
    /\ x.flag => Rotating = {}
    /\ RaiseFlag(v)
    /\ vaultKeys' = IF x.key THEN [vaultKeys EXCEPT ![v] = 0] ELSE vaultKeys
    /\ vaultMembers' = IF x.row THEN [vaultMembers EXCEPT ![v] = NoRole] ELSE vaultMembers
    /\ lapse' = IF x.row THEN [lapse EXCEPT ![v] = Permanent] ELSE lapse
    /\ orgMembers' = IF x.org THEN orgMembers \ {v} ELSE orgMembers
    /\ removal' = [removal EXCEPT ![v] = NoRemoval]
    /\ UNCHANGED <<keyVersion, enrolled, teamMembers, vaultTeams, items, clientVars, atRead>>

AbortRemoval(v) ==
    /\ removal[v].stage # "none"
    /\ removal' = [removal EXCEPT ![v] = NoRemoval]
    /\ UNCHANGED <<keyVars, peopleVars, memberVars, items, clientVars, atRead>>

-----------------------------------------------------------------------------
(* Teams: neither side of a team grant touches vault_keys or the flag. *)

\* POST and PATCH /vaults/:id/team-members.
GrantTeam(u, t, role) ==
    /\ IsManager(u)
    /\ vaultTeams[t] # role
    /\ vaultTeams[t] = NoRole => Rotating = {}
    /\ vaultTeams' = [vaultTeams EXCEPT ![t] = role]
    /\ UNCHANGED <<keyVars, orgMembers, enrolled, teamMembers, memberVars, items,
                   clientVars, txVars>>

RevokeTeam(u, t) ==
    /\ IsManager(u)
    /\ vaultTeams[t] # NoRole
    /\ vaultTeams' = [vaultTeams EXCEPT ![t] = NoRole]
    /\ UNCHANGED <<keyVars, orgMembers, enrolled, teamMembers, memberVars, items,
                   clientVars, txVars>>

\* POST and DELETE /teams/:id/members, by a workspace admin.
JoinTeam(u, t) ==
    /\ u \in orgMembers
    /\ u \notin teamMembers[t]
    /\ teamMembers' = [teamMembers EXCEPT ![t] = @ \cup {u}]
    /\ UNCHANGED <<keyVars, orgMembers, enrolled, vaultTeams, memberVars, items,
                   clientVars, txVars>>

LeaveTeam(u, t) ==
    /\ u \in teamMembers[t]
    /\ teamMembers' = [teamMembers EXCEPT ![t] = @ \ {u}]
    /\ UNCHANGED <<keyVars, orgMembers, enrolled, vaultTeams, memberVars, items,
                   clientVars, txVars>>

\* DELETE /teams/:id: team_members and vault_team_members rows cascade.
DeleteTeam(t) ==
    /\ teamMembers[t] # {} \/ vaultTeams[t] # NoRole
    /\ teamMembers' = [teamMembers EXCEPT ![t] = {}]
    /\ vaultTeams' = [vaultTeams EXCEPT ![t] = NoRole]
    /\ UNCHANGED <<keyVars, orgMembers, enrolled, memberVars, items, clientVars, txVars>>

-----------------------------------------------------------------------------
(* The workspace *)

JoinOrg(u) ==
    /\ u \notin orgMembers
    /\ orgMembers' = orgMembers \cup {u}
    /\ UNCHANGED <<keyVars, enrolled, teamMembers, vaultTeams, memberVars, items,
                   clientVars, txVars>>

\* The first unlock publishes the user's public key.
Enroll(u) ==
    /\ u \notin enrolled
    /\ enrolled' = enrolled \cup {u}
    /\ UNCHANGED <<keyVars, orgMembers, teamMembers, vaultTeams, memberVars, items,
                   clientVars, txVars>>

-----------------------------------------------------------------------------
(* Items.  The server stores whatever ciphertext the browser sends: which  *)
(* key made it is the browser's business, and no handler asks.             *)

\* The insert references the vault: it waits for a rotation.
CreateItem(u, i) ==
    /\ CanManageItem(u)
    /\ held[u] # 0
    /\ items[i].state = "none"
    /\ Rotating = {}
    /\ items' = [items EXCEPT ![i] = [state |-> "live", gen |-> held[u], content |-> 1]]
    /\ UNCHANGED <<keyVars, peopleVars, memberVars, clientVars, txVars>>

\* PATCH /items/:id from the edit dialog: all the fields under one key.
EditItem(u, i) ==
    /\ CanManageItem(u)
    /\ held[u] # 0
    /\ items[i].state = "live"
    /\ items[i].content < MaxContent
    /\ items' = [items EXCEPT ![i].gen = held[u], ![i].content = @ + 1]
    /\ UNCHANGED <<keyVars, peopleVars, memberVars, clientVars, txVars>>

TrashItem(u, i) ==
    /\ CanManageItem(u)
    /\ items[i].state = "live"
    /\ items' = [items EXCEPT ![i].state = "trashed"]
    /\ UNCHANGED <<keyVars, peopleVars, memberVars, clientVars, txVars>>

\* POST /trash/:id/restore and DELETE /trash/:id, by a workspace admin.
RestoreItem(i) ==
    /\ items[i].state = "trashed"
    /\ items' = [items EXCEPT ![i].state = "live"]
    /\ UNCHANGED <<keyVars, peopleVars, memberVars, clientVars, txVars>>

PurgeItem(i) ==
    /\ items[i].state = "trashed"
    /\ items' = [items EXCEPT ![i] = NoItem]
    /\ UNCHANGED <<keyVars, peopleVars, memberVars, clientVars, txVars>>

-----------------------------------------------------------------------------
BrowserNext == \E u \in Users : FetchKey(u) \/ Lock(u)

RekeyNext ==
    \E u \in Users :
        \/ OpenRekey(u)
        \/ ListItems(u)
        \/ \E i \in Items : ReadItem(u, i)
        \/ \E i \in Items : AbortRead(u, i)
        \/ AdmitRekey(u)
        \/ BeginRekey(u)
        \/ RejectRekey(u)
        \/ CommitRekey(u)
        \/ AbortRekey(u)

MemberNext ==
    \E u \in Users :
        \/ \E target \in Users, role \in GrantRoles : BeginAddMember(u, target, role)
        \/ CommitAddMember(u)
        \/ \E target \in Users, role \in GrantRoles : ChangeRole(u, target, role)
        \/ \E role \in GrantRoles : ApproveAccess(u, role)
        \/ Expire(u)
        \/ SweepMember(u)

RemovalNext ==
    \E v \in Users :
        \/ \E u \in Users : BeginRemove(u, v)
        \/ BeginLeave(v)
        \/ ListKeys(v)
        \/ DropKey(v)
        \/ CommitRemoval(v)
        \/ AbortRemoval(v)

TeamNext ==
    \E t \in Teams :
        \/ \E u \in Users, role \in GrantRoles : GrantTeam(u, t, role)
        \/ \E u \in Users : RevokeTeam(u, t)
        \/ \E u \in Users : JoinTeam(u, t)
        \/ \E u \in Users : LeaveTeam(u, t)
        \/ DeleteTeam(t)

OrgNext == \E u \in Users : JoinOrg(u) \/ Enroll(u)

ItemNext ==
    \E i \in Items :
        \/ \E u \in Users : CreateItem(u, i)
        \/ \E u \in Users : EditItem(u, i)
        \/ \E u \in Users : TrashItem(u, i)
        \/ RestoreItem(i)
        \/ PurgeItem(i)

Next ==
    \/ BrowserNext
    \/ RekeyNext
    \/ MemberNext
    \/ RemovalNext
    \/ TeamNext
    \/ OrgNext
    \/ ItemNext

Spec == Init /\ [][Next]_vars

-----------------------------------------------------------------------------
(* Properties *)

\* The rows and requests have the shapes the schema and the payloads give.
TypeOK ==
    /\ keyVersion \in Version
    /\ rekeyPending \in BOOLEAN
    /\ orgMembers \subseteq Users
    /\ enrolled \subseteq Users
    /\ vaultMembers \in [Users -> Role \cup {NoRole}]
    /\ lapse \in [Users -> Lapse]
    /\ teamMembers \in [Teams -> SUBSET Users]
    /\ vaultTeams \in [Teams -> Role \cup {NoRole}]
    /\ vaultKeys \in [Users -> Generation]
    /\ items \in [Items -> ItemRow \cup {NoItem}]
    /\ held \in [Users -> Generation]
    /\ req \in [Users -> Request]
    /\ removal \in [Users -> Removal]
    /\ atRead \in [users : SUBSET Users, items : SUBSET Items]

\* What a request in flight carries is no newer than the vault, and a key it
\* wraps is wrapped for somebody who can unwrap it.
RequestSane(r) ==
    /\ r.op = "add" => /\ r.gen <= keyVersion
                       /\ r.gen # 0 => r.target \in enrolled
    /\ r.op = "rekey" => /\ r.expected <= keyVersion
                         /\ r.old <= keyVersion

\* No row, browser or request ever holds a key newer than key_version.  Two
\* browsers that prepare the same rotation make two different keys of one
\* generation: this is what the expectedKeyVersion check has to exclude.
NoFutureGeneration ==
    /\ \A u \in Users : vaultKeys[u] <= keyVersion /\ held[u] <= keyVersion
    /\ \A i \in Items : items[i].gen <= keyVersion
    /\ \A u \in Users : RequestSane(req[u])

\* A step that moves key_version moves it by one and clears the flag.  It
\* leaves no key of an older generation.  Who was on the enrolled roster when
\* the rotation read it and still is has the new key, who was off it and still
\* is has none, and the items live then and now are under the new key.  For a
\* user or an item that moved in between the code promises nothing
\* (vaultRekey.ts: half-applied rotation, concurrent rekeys racing).
RotationIsComplete ==
    [][keyVersion' # keyVersion =>
         /\ keyVersion' = keyVersion + 1
         /\ ~rekeyPending'
         /\ \A u \in Users : vaultKeys'[u] \in {0, keyVersion'}
         /\ \A u \in atRead.users \cap EnrolledRoster' : vaultKeys'[u] # 0
         /\ \A u \in Users \ (atRead.users \cup EnrolledRoster') : vaultKeys'[u] = 0
         /\ \A i \in atRead.items \cap LiveItems' : items'[i].gen = keyVersion']_vars

\* Whoever has the current key in the browser and no longer has it in a row
\* has left the vault flagged: removals, re-additions without a key and losing
\* rotations in any order cannot lose the flag.
TakenBackIsFlagged ==
    \A u \in Users : held[u] = keyVersion /\ vaultKeys[u] # keyVersion => rekeyPending

\* The wrapped keys implement the abstract custody promise.
Custody == INSTANCE KeyCustody WITH generation <- keyVersion, owed <- rekeyPending,
                                    holds <- vaultKeys
CustodySpec == Custody!Spec

-----------------------------------------------------------------------------
(* What the comments and documents promise and the code does not keep. *)

\* A user is given a key row only while on the enrolled roster (vaultRekey.ts:
\* under the lock "no concurrent add/remove can break the completeness
\* invariant mid-rotation").
KeyRowsOnlyForMembers ==
    [][\A u \in Users : vaultKeys'[u] \notin {0, vaultKeys[u]} => u \in EnrolledRoster']_vars

\* Every key row belongs to a user who still has access (lib/rekey.ts: "cut
\* their SERVER-SIDE access immediately by deleting their vault_keys row").
NoKeyWithoutAccess == \A u \in Users : vaultKeys[u] # 0 => HasAccess(u)

\* Whoever lost access with the current key in the browser has left the vault
\* flagged, until a rotation makes that key an old one (lib/rekey.ts: then
\* flag the vault).
RevokedIsFlagged == \A u \in Users : held[u] = keyVersion /\ ~HasAccess(u) => rekeyPending

\* vaultRekey.ts: "no item left on the old key".
LiveItemsOnCurrentKey == \A i \in LiveItems : items[i].gen = keyVersion

\* vaultRekey.ts: rotation "makes the cached key useless for future reads":
\* with no rotation owed, no live item opens with the cached key of a user
\* who has lost access.
CachedKeyUseless ==
    ~rekeyPending => \A u \in Users : held[u] # 0 /\ ~HasAccess(u) =>
                       \A i \in LiveItems : items[i].gen # held[u]

\* vaultRekey.ts: the roster the client wraps keys for is the one validation
\* accepts, so that no member's key "gets rejected (rekey stalls)".
PublishedRosterAccepted == EnrolledRoster \subseteq orgMembers

\* REQUIREMENTS.md, AC-024.2: removing a user from the workspace "will revoke
\* all access".
RemovalRevokesAllAccess ==
    [][\A u \in orgMembers : u \notin orgMembers' => RolesOf(u)' = {}]_vars

\* workspace.ts, on the default vaults: their creator can use them at once.  A
\* vault nobody was removed from has a key somebody can unwrap.
UnflaggedVaultHasKey == ~rekeyPending => \E u \in Users : vaultKeys[u] # 0

\* API_CONTRACT.md: a rekey rotates the key and re-encrypts every item; it
\* does not change what an item says.
RotationKeepsContent ==
    [][keyVersion' # keyVersion =>
         \A i \in LiveItems : items'[i].content = items[i].content]_vars

\* API_CONTRACT.md: a concurrent add cannot break roster completeness: no
\* member is left with a wrapped key that no longer opens the vault.
KeyRowsCurrent == \A u \in Users : vaultKeys[u] # 0 => vaultKeys[u] = keyVersion

-----------------------------------------------------------------------------
(* What the code does not enforce, as conditions on a step: under them     *)
(* rules above hold that the code alone breaks.                            *)

\* Writes use the current key.  Nothing older comes back from the trash, and
\* nothing at all while a rotation is in its transaction.
CurrentWrites ==
    \A i \in Items :
      /\ \A u \in Users : CreateItem(u, i) \/ EditItem(u, i) => held[u] = keyVersion
      /\ RestoreItem(i) => items[i].gen = keyVersion /\ Rotating = {}

\* Nobody writes an item that a rotation under way has read.
UndisturbedReads ==
    \A u, v \in Users, i \in Items :
      (CreateItem(u, i) \/ EditItem(u, i)) /\ req[v].op = "rekey" => req[v].read[i] = 0

\* No rotation commits between the checks and the insert of a member added.
UndisturbedAdds == \A u, v \in Users : CommitRekey(u) => req[v].op # "add"

\* No removal commits while a rotation is in its transaction, and no rotation
\* between a removal's last look at the key rows and its commit.
UndisturbedRosters ==
    \A u, v \in Users :
      /\ CommitRekey(u) => removal[v].stage # "dropped"
      /\ CommitRemoval(v) => Rotating = {}

\* The addition of a user to the vault, from its checks to its insert, and the
\* transaction that removes the same user from the workspace do not overlap.
UndisturbedJoins ==
    \A u, v \in Users :
      /\ CommitAddMember(u) => ~removal[req[u].target].org
      /\ CommitRemoval(v) /\ removal[v].org /\ req[u].op = "add" => req[u].target # v
=============================================================================
