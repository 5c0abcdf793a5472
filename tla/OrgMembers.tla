----------------------------- MODULE OrgMembers -----------------------------
(***************************************************************************)
(* The members of one workspace: roles, invitations, removal, the transfer *)
(* of ownership and the deletion of the workspace.                         *)
(*                                                                         *)
(* Every handler authorises its caller on rows it reads first, then writes *)
(* in a transaction that does not look at them again.  The gap is wide: a  *)
(* transfer and a deletion verify a master password in it.  A request that *)
(* passed its checks sits in req until it commits.  What the database      *)
(* itself enforces is two unique indexes: one row per member, and one row  *)
(* with the role "owner" per workspace.                                    *)
(***************************************************************************)
EXTENDS Naturals, FiniteSets

CONSTANTS
    Users,       \* accounts; an invitation names the account of its email
    Founder,     \* the owner the workspace starts with
    Actors,      \* the accounts that call the member-management endpoints
    Invites,     \* bound: invitation rows
    Requests,    \* bound: requests in flight at one time
    GrantRoles   \* the roles the handlers are called with

OrgRole == {"owner", "admin", "auditor", "member", "guest"}
Assignable == OrgRole \ {"owner"}
NoRole == "none"

ASSUME OrgAssumption ==
    /\ Founder \in Users
    /\ Actors \subseteq Users
    /\ GrantRoles \subseteq Assignable
    /\ IsFiniteSet(Users)

VARIABLES
    exists,   \* the organizations row
    role,     \* org_members: user -> role, NoRole when there is no row
    invites,  \* invitations: id -> row
    req       \* request -> what it carries from its checks to its commit

vars == <<exists, role, invites, req>>

-----------------------------------------------------------------------------
Rank == [owner |-> 4, admin |-> 3, auditor |-> 2, member |-> 1, guest |-> 0]
Outranks(a, b) == Rank[a] > Rank[b]
CanManageMembers(u) == role[u] \in {"owner", "admin"}

NoInvite == [state |-> "unused"]
InviteRow == [state : {"sent"}, email : Users, role : Assignable,
              expired : BOOLEAN, accepted : BOOLEAN, revoked : BOOLEAN]
Pending(i) == invites[i] # NoInvite /\ ~invites[i].accepted /\ ~invites[i].revoked
PendingFor(u) == {i \in Invites : Pending(i) /\ invites[i].email = u}

Idle == [op |-> "idle"]
Request ==
    {Idle}
    \cup [op : {"patch"}, by : Users, target : Users, role : Assignable]
    \cup [op : {"remove", "transfer"}, by : Users, target : Users]
    \cup [op : {"delete"}, by : Users]
    \cup [op : {"create invite"}, email : Users, role : Assignable]
    \cup [op : {"refresh invite"}, row : Invites, role : Assignable]
    \cup [op : {"revoke invite"}, row : Invites]
    \cup [op : {"accept"}, by : Users, row : Invites, role : Assignable, member : BOOLEAN]

Owners == {u \in Users : role[u] = "owner"}

\* A workspace at rest: one owner, members of any role, no invitation open.
Init ==
    /\ exists = TRUE
    /\ role \in [Users -> GrantRoles \cup {"owner", NoRole}]
    /\ Owners = {Founder}
    /\ invites = [i \in Invites |-> NoInvite]
    /\ req = [r \in Requests |-> Idle]

-----------------------------------------------------------------------------
(* The checks.  Each handler that passes them leaves its request in req.   *)

Start(r, request) ==
    /\ exists
    /\ req[r] = Idle
    /\ req' = [req EXCEPT ![r] = request]
    /\ UNCHANGED <<exists, role, invites>>

\* PATCH /members/:userId.  The caller must outrank the target as it is, and
\* the role it is to have.
MayChange(u, target) ==
    /\ CanManageMembers(u)
    /\ role[target] \notin {NoRole, "owner"}
    /\ Outranks(role[u], role[target])

CheckPatchTargetOnly(r, u, target, new) ==                            \* mutant
    /\ MayChange(u, target)
    /\ Start(r, [op |-> "patch", by |-> u, target |-> target, role |-> new])
CheckPatch(r, u, target, new) ==
    /\ MayChange(u, target)
    /\ Outranks(role[u], new)
    /\ Start(r, [op |-> "patch", by |-> u, target |-> target, role |-> new])

\* DELETE /members/:userId.
CheckRemove(r, u, target) ==
    /\ MayChange(u, target)
    /\ Start(r, [op |-> "remove", by |-> u, target |-> target])

\* POST /workspace/transfer-ownership.
CheckTransfer(r, u, target) ==
    /\ role[u] = "owner"
    /\ target # u
    /\ role[target] # NoRole
    /\ Start(r, [op |-> "transfer", by |-> u, target |-> target])

\* DELETE /workspace.
CheckDelete(r, u) ==
    /\ role[u] = "owner"
    /\ Start(r, [op |-> "delete", by |-> u])

\* POST /members/invite: a pending row for the address is refreshed.
CheckInviteOwnRole(r, u, email, new) ==                               \* mutant
    /\ CanManageMembers(u)
    /\ role[email] = NoRole
    /\ Start(r, [op |-> "create invite", email |-> email, role |-> role[u]])
CheckInvite(r, u, email, new) ==
    /\ CanManageMembers(u)
    /\ Outranks(role[u], new)
    /\ role[email] = NoRole
    /\ IF PendingFor(email) = {}
       THEN Start(r, [op |-> "create invite", email |-> email, role |-> new])
       ELSE \E i \in PendingFor(email) :
              Start(r, [op |-> "refresh invite", row |-> i, role |-> new])

\* DELETE /members/invite/:id.
CheckRevoke(r, u, i) ==
    /\ CanManageMembers(u)
    /\ invites[i] # NoInvite
    /\ ~invites[i].accepted
    /\ Start(r, [op |-> "revoke invite", row |-> i])

\* POST /invite/:token/accept, and signup-and-accept for a new account.
CheckAccept(r, i) ==
    /\ Pending(i)
    /\ ~invites[i].expired
    /\ LET u == invites[i].email IN
       Start(r, [op |-> "accept", by |-> u, row |-> i, role |-> invites[i].role,
                 member |-> role[u] # NoRole])

-----------------------------------------------------------------------------
(* The transactions.  An UPDATE of a row that has gone changes nothing; a  *)
(* unique or foreign key violation rolls the transaction back.             *)

Finish(r, op) ==
    /\ req[r].op = op
    /\ req' = [req EXCEPT ![r] = Idle]

Nothing == UNCHANGED <<exists, role, invites>>

CommitPatch(r) ==
    LET q == req[r] IN
    /\ Finish(r, "patch")
    /\ role' = IF role[q.target] = NoRole THEN role
               ELSE [role EXCEPT ![q.target] = q.role]
    /\ UNCHANGED <<exists, invites>>

CommitRemove(r) ==
    /\ Finish(r, "remove")
    /\ role' = [role EXCEPT ![req[r].target] = NoRole]
    /\ UNCHANGED <<exists, invites>>

\* The caller is demoted first, then the target promoted: the promotion rolls
\* back when the target has left, or when somebody else is the owner.
HandOver(u, target) ==
    role' = [role EXCEPT ![u] = IF @ = NoRole THEN NoRole ELSE "admin", ![target] = "owner"]
CommitTransferNoRollback(r) ==                                        \* mutant
    LET q == req[r] IN
    /\ Finish(r, "transfer")
    /\ IF Owners \subseteq {q.by, q.target}
       THEN IF role[q.target] # NoRole THEN HandOver(q.by, q.target)
            ELSE role' = [role EXCEPT ![q.by] = IF @ = NoRole THEN NoRole ELSE "admin"]
       ELSE UNCHANGED role
    /\ UNCHANGED <<exists, invites>>
CommitTransferNoIndex(r) ==                                           \* mutant
    LET q == req[r] IN
    /\ Finish(r, "transfer")
    /\ IF role[q.target] # NoRole THEN HandOver(q.by, q.target) ELSE UNCHANGED role
    /\ UNCHANGED <<exists, invites>>
CommitTransfer(r) ==
    LET q == req[r] IN
    /\ Finish(r, "transfer")
    /\ IF role[q.target] # NoRole /\ Owners \subseteq {q.by, q.target}
       THEN HandOver(q.by, q.target)
       ELSE UNCHANGED role
    /\ UNCHANGED <<exists, invites>>

\* The members and the invitations go with the workspace.
CommitDelete(r) ==
    /\ Finish(r, "delete")
    /\ exists' = FALSE
    /\ role' = [u \in Users |-> NoRole]
    /\ invites' = [i \in Invites |-> NoInvite]

CommitCreateInvite(r) ==
    /\ Finish(r, "create invite")
    /\ IF exists
       THEN /\ \E i \in Invites :
                 /\ invites[i] = NoInvite
                 /\ invites' = [invites EXCEPT ![i] =
                      [state |-> "sent", email |-> req[r].email, role |-> req[r].role,
                       expired |-> FALSE, accepted |-> FALSE, revoked |-> FALSE]]
            /\ UNCHANGED <<exists, role>>
       ELSE Nothing

CommitRefreshInvite(r) ==
    LET q == req[r] IN
    /\ Finish(r, "refresh invite")
    /\ invites' = IF invites[q.row] = NoInvite THEN invites
                  ELSE [invites EXCEPT ![q.row].role = q.role, ![q.row].expired = FALSE]
    /\ UNCHANGED <<exists, role>>

CommitRevoke(r) ==
    LET q == req[r] IN
    /\ Finish(r, "revoke invite")
    /\ invites' = IF invites[q.row] = NoInvite THEN invites
                  ELSE [invites EXCEPT ![q.row].revoked = TRUE]
    /\ UNCHANGED <<exists, role>>

\* A caller who was a member only closes the invitation.  Otherwise the insert
\* fails if the caller has become a member, or if the workspace is gone.
CommitAcceptUpsert(r) ==                                              \* mutant
    LET q == req[r] IN
    /\ Finish(r, "accept")
    /\ IF invites[q.row] = NoInvite
       THEN Nothing
       ELSE /\ role' = [role EXCEPT ![q.by] = q.role]
            /\ invites' = [invites EXCEPT ![q.row].accepted = TRUE]
            /\ UNCHANGED exists
CommitAcceptKeepPending(r) ==                                         \* mutant
    LET q == req[r] IN
    /\ Finish(r, "accept")
    /\ IF exists /\ role[q.by] = NoRole /\ ~q.member
       THEN role' = [role EXCEPT ![q.by] = q.role] /\ UNCHANGED <<exists, invites>>
       ELSE Nothing
CommitAccept(r) ==
    LET q == req[r] IN
    /\ Finish(r, "accept")
    /\ IF ~exists \/ (~q.member /\ role[q.by] # NoRole)
       THEN Nothing
       ELSE /\ role' = IF q.member THEN role ELSE [role EXCEPT ![q.by] = q.role]
            /\ invites' = [invites EXCEPT ![q.row].accepted = TRUE]
            /\ UNCHANGED exists

-----------------------------------------------------------------------------
(* No check-to-commit gap: nothing the gap lets through reads expired.     *)

\* POST /members/invite/:id/resend.
ResendInvite(u, i) ==
    /\ CanManageMembers(u)
    /\ Pending(i)
    /\ invites[i].expired
    /\ invites' = [invites EXCEPT ![i].expired = FALSE]
    /\ UNCHANGED <<exists, role, req>>

\* Seven days pass.
InviteExpires(i) ==
    /\ Pending(i)
    /\ ~invites[i].expired
    /\ invites' = [invites EXCEPT ![i].expired = TRUE]
    /\ UNCHANGED <<exists, role, req>>

-----------------------------------------------------------------------------
Check(r) ==
    \/ \E u \in Actors, target \in Users :
         \/ \E new \in GrantRoles : CheckPatch(r, u, target, new)
         \/ CheckRemove(r, u, target)
         \/ CheckTransfer(r, u, target)
         \/ \E new \in GrantRoles : CheckInvite(r, u, target, new)
    \/ \E u \in Actors : CheckDelete(r, u)
    \/ \E u \in Actors, i \in Invites : CheckRevoke(r, u, i)
    \/ \E i \in Invites : CheckAccept(r, i)

Commit(r) ==
    \/ CommitPatch(r)
    \/ CommitRemove(r)
    \/ CommitTransfer(r)
    \/ CommitDelete(r)
    \/ CommitCreateInvite(r)
    \/ CommitRefreshInvite(r)
    \/ CommitRevoke(r)
    \/ CommitAccept(r)

Next ==
    \/ \E r \in Requests : Check(r) \/ Commit(r)
    \/ \E u \in Actors, i \in Invites : ResendInvite(u, i)
    \/ \E i \in Invites : InviteExpires(i)

Spec == Init /\ [][Next]_vars

-----------------------------------------------------------------------------
(* Properties *)

\* Rows and requests have the shapes of the schema and of the handlers.
TypeOK ==
    /\ exists \in BOOLEAN
    /\ role \in [Users -> OrgRole \cup {NoRole}]
    /\ invites \in [Invites -> InviteRow \cup {NoInvite}]
    /\ req \in [Requests -> Request]

\* Two transfers that both passed their checks, in either order and with any
\* role change between them, never leave two owners (workspace.ts: the loser
\* gets ownership_transfer_conflict).
AtMostOneOwner == \A u, v \in Owners : u = v

\* A transfer whose target has been removed meanwhile leaves the owner in
\* place ("Roll the whole tx back so we don't leave the org ownerless").
TransferNeverVacates ==
    [][\A r \in Requests : req[r].op = "transfer" /\ req'[r] = Idle /\ Owners # {}
         => Owners' # {}]_vars

\* Accepting an invitation never changes the role of somebody who already is
\* a member, even one who became a member after the handler looked
\* ("promoting via an invite would silently override an explicit demotion").
InviteKeepsRoles ==
    [][\A r \in Requests : req[r].op = "accept" /\ req'[r] = Idle
         => \A u \in Users : role[u] # NoRole => role'[u] = role[u]]_vars

\* Nobody gets in without an invitation to their address that is closed by
\* the same step: no half-claimed invitation still appears pending.
JoinClosesInvitation ==
    [][\A u \in Users : role[u] = NoRole /\ role'[u] # NoRole
         => \E i \in Invites : /\ invites[i] # NoInvite
                               /\ invites[i].email = u
                               /\ invites'[i].accepted]_vars

\* While the owner stays out of it, admins cannot make an admin, by a role
\* change or by an invitation, nor touch the owner, whatever they combine.
AdminsCannotMint ==
    [][Founder \notin Actors =>
         /\ role'[Founder] = "owner"
         /\ \A u \in Users : role'[u] = "admin" => role[u] = "admin"]_vars

-----------------------------------------------------------------------------
(* What the documents and comments promise and the code does not keep. *)

\* REQUIREMENTS.md, AC-005b.2: "never two Owners and never zero Owners".
ExactlyOneOwner == exists => Cardinality(Owners) = 1

\* invitations.ts: replay after accept or revoke is defeated by the status
\* check: whoever gets in holds an invitation that is neither.
SpentInvitationAdmitsNobody ==
    [][\A u \in Users : role[u] = NoRole /\ role'[u] # NoRole => PendingFor(u) # {}]_vars

-----------------------------------------------------------------------------
(* What the code does not enforce, as conditions on a step: under them the *)
(* two rules hold.                                                         *)

\* Nobody becomes the owner while a role change or a removal of theirs is
\* between its check and its commit.
TargetsHold ==
    \A r \in Requests : req[r].op \in {"patch", "remove"} /\ req'[r] = req[r]
                         => role'[req[r].target] # "owner"

\* No other request spends the invitation of an acceptance under way.
InvitationsHold ==
    \A r \in Requests :
      LET i == req[r].row IN
      req[r].op = "accept" /\ req'[r] = req[r] /\ exists'
        => /\ invites'[i].accepted = invites[i].accepted
           /\ invites'[i].revoked = invites[i].revoked
=============================================================================
