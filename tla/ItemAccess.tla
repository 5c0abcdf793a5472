----------------------------- MODULE ItemAccess -----------------------------
(***************************************************************************)
(* Who has which role on one item, and who may change that.                *)
(*                                                                         *)
(* A grant gives a user or a team a role on the item, on a folder or on    *)
(* the vault; the most specific level with a grant decides.  A grant may   *)
(* be for a time, with the role to fall back to.  Sharing checks the       *)
(* caller's role and the grant it changes first, and writes afterwards.    *)
(* Roles are their ranks, viewer 0 to manager 3.  The vault's own members  *)
(* change in VaultRekey and TempAccess; here they stay.                    *)
(***************************************************************************)
EXTENDS Integers

CONSTANTS
    Users, Teams,
    Sharers,     \* the users who send requests; the others are the managers
    Creator,     \* items.created_by
    Auditors,    \* users with the workspace role auditor
    Roles,       \* the ranks a request may ask for
    StartRoles,  \* the ranks the sharers' and the teams' grants start with
    MaxShares    \* bound: requests sent

None == -1      \* no role: below viewer
Viewer == 0
Editor == 2
Manager == 3

ASSUME AccessAssumption ==
    /\ Users \cap Teams = {}
    /\ Sharers \subseteq Users
    /\ Roles \subseteq Viewer..Manager
    /\ StartRoles \subseteq Viewer..Editor
    /\ MaxShares \in Nat

VARIABLES
    grants,    \* level -> user or team -> its grant: one at most
    team,      \* team -> its members
    inFolder,  \* whether the item is in the folder
    req,       \* sharer -> the request that passed its checks, or none
    shares     \* requests sent

vars == <<grants, team, inFolder, req, shares>>

Levels == {"item", "folder", "vault"}
Principals == Users \cup Teams
Ranks == None..Manager
\* `base` is original_role; a grant without an expiry is "permanent".
Grant == [role : Viewer..Manager, base : Ranks, phase : {"permanent", "running", "expired"}]
Permanent(role) == [role |-> role, base |-> None, phase |-> "permanent"]
Acts == {"post", "patch", "delete", "bulk", "move"}

-----------------------------------------------------------------------------
(* lib/access.ts *)

\* highestRole: an expired grant counts as the role it falls back to.
RoleNow(g) == IF g.phase = "expired" THEN g.base ELSE g.role
Highest(gs) ==
    CHOOSE r \in {RoleNow(g) : g \in gs} \cup {None} :
      \A g \in gs : RoleNow(g) <= r

TeamsOf(u) == {t \in Teams : u \in team[t]}
GrantsOf(level, u) == grants[level][u] \cup UNION {grants[level][t] : t \in TeamsOf(u)}
FirstOf(a, b) == IF a # None THEN a ELSE b
AuditorRole(u) == IF u \in Auditors THEN Viewer ELSE None

\* resolveFolderRole and resolveItemRole.
FolderRole(u) ==
    FirstOf(Highest(GrantsOf("folder", u)),
            FirstOf(Highest(GrantsOf("vault", u)), AuditorRole(u)))
ItemRole(u) ==
    FirstOf(Highest(GrantsOf("item", u)),
            FirstOf(IF inFolder THEN Highest(GrantsOf("folder", u)) ELSE None,
                    FirstOf(Highest(GrantsOf("vault", u)), AuditorRole(u))))

\* resolveItemRolesBatch: every grant of the caller's that touches the item is
\* fetched at once, bucketed by level, and resolved in memory.
BatchRows(u) ==
    UNION {{<<level, g>> : g \in grants[level][p]} : level \in Levels, p \in {u} \cup TeamsOf(u)}
Bucket(rows, level) == {row[2] : row \in {x \in rows : x[1] = level}}
BatchRoleLoose(u) ==                                                  \* mutant
    FirstOf(Highest(Bucket(BatchRows(u), "item")),
            FirstOf(Highest(Bucket(BatchRows(u), "folder")),
                    Highest(Bucket(BatchRows(u), "vault"))))
BatchRole(u) ==
    FirstOf(Highest(Bucket(BatchRows(u), "item")),
            FirstOf(IF inFolder THEN Highest(Bucket(BatchRows(u), "folder")) ELSE None,
                    Highest(Bucket(BatchRows(u), "vault"))))

\* loadVaultForViewer: an auditor, a vault role, or a grant below the vault
\* that has not expired, wherever the item is.
SeesVaultDirectly(u) ==                                               \* mutant
    \/ u \in Auditors
    \/ Highest(GrantsOf("vault", u)) # None
    \/ \E level \in {"folder", "item"} : \E g \in grants[level][u] : g.phase # "expired"
SeesVault(u) ==
    \/ u \in Auditors
    \/ Highest(GrantsOf("vault", u)) # None
    \/ \E level \in {"folder", "item"} : \E g \in GrantsOf(level, u) : g.phase # "expired"

\* shareAuthorityForItem and shareAuthorityForFolder.
Authority(level, u) ==
    IF level = "folder" THEN FolderRole(u)
    ELSE IF u = Creator /\ ItemRole(u) < Editor THEN Editor ELSE ItemRole(u)
CanGrantAny(authority, role) == authority >= Editor                   \* mutant
CanGrantRole(authority, role) == authority >= Editor /\ role <= authority
CanModifyGrant(authority, role) == authority >= Editor /\ role <= authority

-----------------------------------------------------------------------------
\* A vault with its managers and other members, an item in it or in its folder,
\* and perhaps one grant for a time, above what its holder has there for good.
Init ==
    /\ \E vault \in [Sharers -> {{}} \cup {{Permanent(r)} : r \in StartRoles}],
          level \in {"item", "folder"}, p \in Sharers \cup Teams, role \in StartRoles,
          base \in StartRoles \cup {None}, some \in BOOLEAN :
         /\ base < role
         /\ grants = [l \in Levels |-> [q \in Principals |->
                     CASE l = "vault" /\ q \in Sharers -> vault[q]
                       [] l = "vault" /\ q \in Users \ Sharers -> {Permanent(Manager)}
                       [] some /\ l = level /\ q = p ->
                            {[role |-> role, base |-> base, phase |-> "running"]}
                       [] OTHER -> {}]]
    /\ team \in [Teams -> SUBSET Sharers]
    /\ inFolder \in BOOLEAN
    /\ req = [u \in Sharers |-> {}]
    /\ shares = 0

-----------------------------------------------------------------------------
(* itemMembers.ts, folderMembers.ts and the bulk endpoint *)

\* The checks of a request, which asks for a role or for none, all before its
\* transaction.  A POST refuses a grant that exists; a bulk share, which
\* upserts, does not look at it.
Allowed(u, act, level, p, role) ==
    LET authority == Authority(level, u)
        row == grants[level][p]
    IN  CASE act = "post" -> CanGrantRole(authority, role) /\ SeesVault(u) /\ row = {}
          [] act = "patch" -> /\ CanGrantRole(authority, role) /\ SeesVault(u) /\ row # {}
                              /\ \A g \in row : CanModifyGrant(authority, g.role)
          [] act = "delete" -> /\ SeesVault(u) /\ row # {}
                               /\ \A g \in row : CanModifyGrant(authority, g.role)
          [] act = "bulk" -> /\ level = "item" /\ ItemRole(u) # None /\ SeesVault(u)
                             /\ CanGrantRole(authority, role)
          [] act = "move" -> level = "item" /\ ItemRole(u) >= Editor /\ SeesVault(u)

Check(u) ==
    /\ req[u] = {}
    /\ shares < MaxShares
    /\ \E act \in Acts, level \in {"item", "folder"}, p \in Principals, role \in Roles \cup {None} :
         /\ role = None <=> act \in {"delete", "move"}
         /\ act = "move" => p = u
         /\ Allowed(u, act, level, p, role)
         /\ req' = [req EXCEPT ![u] = {[act |-> act, level |-> level, to |-> p, role |-> role]}]
    /\ shares' = shares + 1
    /\ UNCHANGED <<grants, team, inFolder>>

\* The row after the write, which names it by its key alone: an INSERT fails
\* on a row that is there, an UPDATE keeps expiry and base.
After(act, row, role) ==
    CASE act = "post" /\ row = {} -> {Permanent(role)}
      [] act = "bulk" /\ row = {} -> {Permanent(role)}
      [] act \in {"patch", "bulk"} -> {[g EXCEPT !.role = role] : g \in row}
      [] act = "delete" -> {}
      [] OTHER -> row

Write(u) ==
    \E r \in req[u] :
      /\ IF r.act = "move"
         THEN inFolder' \in BOOLEAN /\ UNCHANGED grants
         ELSE /\ grants' = [grants EXCEPT ![r.level][r.to] = After(r.act, @, r.role)]
              /\ UNCHANGED inFolder
      /\ req' = [req EXCEPT ![u] = {}]
      /\ UNCHANGED <<team, shares>>

\* The process or the connection dies before the write.
Lose(u) ==
    /\ req[u] # {}
    /\ req' = [req EXCEPT ![u] = {}]
    /\ UNCHANGED <<grants, team, inFolder, shares>>

-----------------------------------------------------------------------------
(* Around them *)

\* The clock reaches expires_at.
Expire(level, p) ==
    /\ \E g \in grants[level][p] :
         /\ g.phase = "running"
         /\ grants' = [grants EXCEPT ![level][p] = {[g EXCEPT !.phase = "expired"]}]
    /\ UNCHANGED <<team, inFolder, req, shares>>

\* The sweeper: back to the base, or gone.
Sweep(level, p) ==
    /\ \E g \in grants[level][p] :
         /\ g.phase = "expired"
         /\ grants' = [grants EXCEPT ![level][p] =
                         IF g.base = None THEN {} ELSE {Permanent(g.base)}]
    /\ UNCHANGED <<team, inFolder, req, shares>>

\* An admin adds a member to a team or removes one.
ChangeTeam(t, u) ==
    /\ \E members \in {team[t] \cup {u}, team[t] \ {u}} : team' = [team EXCEPT ![t] = members]
    /\ UNCHANGED <<grants, inFolder, req, shares>>

-----------------------------------------------------------------------------
Next ==
    \/ \E u \in Sharers : Check(u) \/ Write(u) \/ Lose(u)
    \/ \E level \in Levels, p \in Principals : Expire(level, p) \/ Sweep(level, p)
    \/ \E t \in Teams, u \in Sharers : ChangeTeam(t, u)

Spec == Init /\ [][Next]_vars

-----------------------------------------------------------------------------
(* Properties *)

\* Each variable holds one of the values listed above.
TypeOK ==
    /\ grants \in [Levels -> [Principals -> SUBSET Grant]]
    /\ team \in [Teams -> SUBSET Sharers]
    /\ inFolder \in BOOLEAN
    /\ req \in [Sharers -> SUBSET [act : Acts, level : {"item", "folder"},
                                   to : Principals, role : Roles \cup {None}]]
    /\ shares \in 0..MaxShares

\* access.ts: the batch resolver of the search keeps the semantics of
\* resolveItemRole, but for the auditors its caller takes care of.
BatchAgrees ==
    \A u \in Users : BatchRole(u) # ItemRole(u) =>
      u \in Auditors /\ BatchRole(u) = None /\ ItemRole(u) = Viewer

\* A user with a role on the item can load it: the second, separate walk over
\* the grants that finds the vault does not turn the caller away, unless an
\* expired grant waits for the sweeper.
RoleOpensItem ==
    \A u \in Users :
      /\ ItemRole(u) # None
      /\ \A level \in Levels : \A g \in GrantsOf(level, u) : g.phase # "expired"
      => SeesVault(u)

\* However the sharers combine grants, changes, removals, teams, moves and
\* lapsed roles, and whatever is stale by the time it is written: as long as
\* the managers do nothing, nobody else is ever granted their rank.
NoRankIsMinted ==
    \A level \in Levels, p \in Sharers \cup Teams :
      \A g \in grants[level][p] : g.role <= Editor /\ g.base <= Editor
=============================================================================
