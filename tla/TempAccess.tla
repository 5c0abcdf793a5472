----------------------------- MODULE TempAccess -----------------------------
(***************************************************************************)
(* Access requests and temporary roles in one vault: the requests members  *)
(* file, the administrators who decide them, the direct member endpoints   *)
(* that change the same rows, and the sweeper that takes expired roles     *)
(* back and closes requests nobody decided.                                *)
(*                                                                         *)
(* A member row carries its role and, when the role is temporary, when it  *)
(* expires and the role to return to.  Decisions, role changes and sweeps  *)
(* each read a row in one statement and write it in a later one, without   *)
(* looking again.  slot and sweep hold what they read.                     *)
(***************************************************************************)
EXTENDS Naturals, FiniteSets

CONSTANTS
    Users,     \* the accounts of the workspace
    Asks,      \* bound: access_requests rows
    Slots,     \* bound: handlers in flight at one time
    Sweepers,  \* sweeps that may overlap (one timer per server process)
    Roles      \* the roles the handlers are called with

Role == {"manager", "editor", "user", "viewer"}
NoRole == "none"

ASSUME TempAssumption ==
    /\ Roles \subseteq Role
    /\ IsFiniteSet(Users)

VARIABLES
    orgMembers,  \* org_members of the workspace
    grants,      \* vault_members: user -> role, originalRole, expiresAt
    asks,        \* access_requests: id -> row
    slot,        \* handler -> what it carries from its reads to its writes
    sweep,       \* sweeper -> the expired rows it read
    autoDenials  \* access_requests id -> auto_denied audit rows and notices

vars == <<orgMembers, grants, asks, slot, sweep, autoDenials>>

-----------------------------------------------------------------------------
\* expires: "never" (NULL), "later", or "past".
Grant == [role : Role \cup {NoRole}, original : Role \cup {NoRole},
          expires : {"never", "later", "past"}]
Permanent(role) == [role |-> role, original |-> NoRole, expires |-> "never"]
NoGrant == Permanent(NoRole)
HasRow(u) == grants[u] # NoGrant
Temporary(g) == g.expires # "never"

\* How every reader takes a row: an expired one counts as its original role.
Effective(g) == IF g.expires = "past" THEN g.original ELSE g.role
IsManager(u) == Effective(grants[u]) = "manager"

\* countManagers looks at the role column alone.
Managers == {u \in Users : grants[u].role = "manager"}

NoAsk == [state |-> "unused"]
Ask == [state : {"pending", "approved", "denied"}, by : Users,
        timed : BOOLEAN, stale : BOOLEAN]
Pending(a) == asks[a] # NoAsk /\ asks[a].state = "pending"

Idle == [op |-> "idle"]
Work ==
    {Idle}
    \cup [op : {"decide"}, phase : {"checked", "writing"}, ask : Asks,
          verdict : {"approved", "denied"}, role : Role, timed : BOOLEAN,
          baseline : Role \cup {NoRole}]
    \cup [op : {"add", "patch"}, target : Users, role : Role]
    \cup [op : {"remove"}, target : Users]
ExpiredRow == [user : Users, original : Role \cup {NoRole}]

\* One manager, and members whose roles are permanent.
Init ==
    /\ orgMembers = Users
    /\ \E m \in Users :
         grants \in {g \in [Users -> {Permanent(r) : r \in {"manager", "viewer", NoRole}}] :
                       \A u \in Users : g[u].role = "manager" <=> u = m}
    /\ asks = [a \in Asks |-> NoAsk]
    /\ slot = [s \in Slots |-> Idle]
    /\ sweep = [w \in Sweepers |-> {}]
    /\ autoDenials = [a \in Asks |-> 0]

-----------------------------------------------------------------------------
(* Access requests *)

\* POST /access-requests.
CreateAsk(u, a, timed) ==
    /\ u \in orgMembers
    /\ asks[a] = NoAsk
    /\ asks' = [asks EXCEPT ![a] = [state |-> "pending", by |-> u,
                                    timed |-> timed, stale |-> FALSE]]
    /\ UNCHANGED <<orgMembers, grants, slot, sweep, autoDenials>>

\* POST /access-requests/:id/decide, its check.  An administrator may grant
\* another role or another duration, not drop the duration.
CheckDecide(s, a, verdict, role, timed) ==
    /\ slot[s] = Idle
    /\ Pending(a)
    /\ asks[a].timed => timed
    /\ slot' = [slot EXCEPT ![s] =
                  [op |-> "decide", phase |-> "checked", ask |-> a, verdict |-> verdict,
                   role |-> role, timed |-> timed, baseline |-> NoRole]]
    /\ UNCHANGED <<orgMembers, grants, asks, sweep, autoDenials>>

\* Its transaction begins with the UPDATE of the request, which locks the row
\* and does not ask for the status, then reads the member's row.
Writing(a) == \E s \in Slots : /\ slot[s].op = "decide"
                               /\ slot[s].phase = "writing"
                               /\ slot[s].ask = a

Baseline(g) == IF g.original # NoRole THEN g.original ELSE g.role

BeginDecide(s) ==
    LET d == slot[s] IN
    /\ d.op = "decide"
    /\ d.phase = "checked"
    /\ ~Writing(d.ask)
    /\ slot' = [slot EXCEPT ![s].phase = "writing",
                            ![s].baseline = Baseline(grants[asks[d.ask].by])]
    /\ UNCHANGED <<orgMembers, grants, asks, sweep, autoDenials>>

GrantOf(d) == [role |-> d.role, original |-> d.baseline,
               expires |-> IF d.timed THEN "later" ELSE "never"]

CommitDecideStatusKept(s) ==                                          \* mutant
    LET d == slot[s] IN
    /\ d.op = "decide"
    /\ d.phase = "writing"
    /\ grants' = IF d.verdict = "denied" THEN grants
                 ELSE [grants EXCEPT ![asks[d.ask].by] = GrantOf(d)]
    /\ slot' = [slot EXCEPT ![s] = Idle]
    /\ UNCHANGED <<orgMembers, asks, sweep, autoDenials>>
CommitDecideNoRole(s) ==                                              \* mutant
    LET d == slot[s] IN
    /\ d.op = "decide"
    /\ d.phase = "writing"
    /\ asks' = [asks EXCEPT ![d.ask].state = d.verdict]
    /\ grants' = [grants EXCEPT ![asks[d.ask].by].role = d.verdict]
    /\ slot' = [slot EXCEPT ![s] = Idle]
    /\ UNCHANGED <<orgMembers, sweep, autoDenials>>
CommitDecide(s) ==
    LET d == slot[s] IN
    /\ d.op = "decide"
    /\ d.phase = "writing"
    /\ asks' = [asks EXCEPT ![d.ask].state = d.verdict]
    /\ grants' = IF d.verdict = "denied" THEN grants
                 ELSE [grants EXCEPT ![asks[d.ask].by] = GrantOf(d)]
    /\ slot' = [slot EXCEPT ![s] = Idle]
    /\ UNCHANGED <<orgMembers, sweep, autoDenials>>

-----------------------------------------------------------------------------
(* The member endpoints of vaultMembers.ts: checks, then a transaction. *)

Start(s, work) ==
    /\ slot[s] = Idle
    /\ slot' = [slot EXCEPT ![s] = work]
    /\ UNCHANGED <<orgMembers, grants, asks, sweep, autoDenials>>

Finish(s, op) ==
    /\ slot[s].op = op
    /\ slot' = [slot EXCEPT ![s] = Idle]
    /\ UNCHANGED <<orgMembers, asks, sweep, autoDenials>>

NotLastManager(target) == target \in Managers => Cardinality(Managers) > 1

CheckAdd(s, by, target, role) ==
    /\ IsManager(by)
    /\ target \in orgMembers
    /\ ~HasRow(target)
    /\ Start(s, [op |-> "add", target |-> target, role |-> role])

CheckPatch(s, by, target, role) ==
    /\ IsManager(by)
    /\ HasRow(target)
    /\ role # "manager" => NotLastManager(target)
    /\ Start(s, [op |-> "patch", target |-> target, role |-> role])

CheckRemove(s, by, target) ==
    /\ IsManager(by)
    /\ HasRow(target)
    /\ NotLastManager(target)
    /\ Start(s, [op |-> "remove", target |-> target])

\* The insert fails on the primary key when there is a row by now.
CommitAdd(s) ==
    LET target == slot[s].target IN
    /\ Finish(s, "add")
    /\ grants' = IF HasRow(target) THEN grants
                 ELSE [grants EXCEPT ![target] = Permanent(slot[s].role)]

\* originalRole and expiresAt stay.
CommitPatch(s) ==
    LET target == slot[s].target IN
    /\ Finish(s, "patch")
    /\ grants' = IF HasRow(target) THEN [grants EXCEPT ![target].role = slot[s].role]
                 ELSE grants

CommitRemove(s) ==
    /\ Finish(s, "remove")
    /\ grants' = [grants EXCEPT ![slot[s].target] = NoGrant]

\* DELETE /members/:userId of the workspace takes the direct grants along.
LeaveOrg(u) ==
    /\ u \in orgMembers
    /\ orgMembers' = orgMembers \ {u}
    /\ grants' = [grants EXCEPT ![u] = NoGrant]
    /\ UNCHANGED <<asks, slot, sweep, autoDenials>>

-----------------------------------------------------------------------------
(* The clock *)

Lapse(u) ==
    /\ grants[u].expires = "later"
    /\ grants' = [grants EXCEPT ![u].expires = "past"]
    /\ UNCHANGED <<orgMembers, asks, slot, sweep, autoDenials>>

\* Seven days pass.
GoStale(a) ==
    /\ Pending(a)
    /\ ~asks[a].stale
    /\ asks' = [asks EXCEPT ![a].stale = TRUE]
    /\ UNCHANGED <<orgMembers, grants, slot, sweep, autoDenials>>

-----------------------------------------------------------------------------
(* The sweeper, every minute *)

\* sweepExpiredRoles selects the expired rows ...
Expired == {u \in Users : grants[u].expires = "past"}

SweepReadPermanentOnly(w) ==                                          \* mutant
    LET S == {u \in Expired : grants[u].original # NoRole} IN
    /\ sweep[w] = {}
    /\ S # {}
    /\ sweep' = [sweep EXCEPT ![w] = {[user |-> u, original |-> grants[u].original] : u \in S}]
    /\ UNCHANGED <<orgMembers, grants, asks, slot, autoDenials>>
SweepRead(w) ==
    /\ sweep[w] = {}
    /\ Expired # {}
    /\ sweep' = [sweep EXCEPT ![w] = {[user |-> u, original |-> grants[u].original] : u \in Expired}]
    /\ UNCHANGED <<orgMembers, grants, asks, slot, autoDenials>>

\* ... then updates or deletes each by its key.
Reverted(u, row) == IF row.original = NoRole \/ ~HasRow(u) THEN NoGrant
                    ELSE Permanent(row.original)

SweepWrite(w) ==
    /\ sweep[w] # {}
    /\ grants' = [u \in Users |->
                    IF \E row \in sweep[w] : row.user = u
                    THEN Reverted(u, CHOOSE row \in sweep[w] : row.user = u)
                    ELSE grants[u]]
    /\ sweep' = [sweep EXCEPT ![w] = {}]
    /\ UNCHANGED <<orgMembers, asks, slot, autoDenials>>

\* The transaction throws; the error is logged and the next tick starts over.
SweepFail(w) ==
    /\ sweep[w] # {}
    /\ sweep' = [sweep EXCEPT ![w] = {}]
    /\ UNCHANGED <<orgMembers, grants, asks, slot, autoDenials>>

\* sweepStaleAccessRequests: one UPDATE of the pending rows, which waits for
\* the rows a decision has locked, and a notice per row it returned.
AutoDenyAnyStatus == {a \in Asks : asks[a] # NoAsk /\ asks[a].stale}  \* mutant
AutoDenyTimed == {a \in Asks : Pending(a) /\ asks[a].stale /\ asks[a].timed} \* mutant
ToAutoDeny == {a \in Asks : Pending(a) /\ asks[a].stale}

AutoDeny ==
    /\ ToAutoDeny # {}
    /\ \A a \in ToAutoDeny : ~Writing(a)
    /\ asks' = [a \in Asks |-> IF a \in ToAutoDeny THEN [asks[a] EXCEPT !.state = "denied"]
                               ELSE asks[a]]
    /\ autoDenials' = [a \in Asks |-> IF a \in ToAutoDeny THEN autoDenials[a] + 1
                                      ELSE autoDenials[a]]
    /\ UNCHANGED <<orgMembers, grants, slot, sweep>>

-----------------------------------------------------------------------------
AskNext ==
    \/ \E u \in Users, a \in Asks, timed \in BOOLEAN : CreateAsk(u, a, timed)
    \/ \E s \in Slots, a \in Asks, verdict \in {"approved", "denied"},
          role \in Roles \ {"viewer"}, timed \in BOOLEAN : CheckDecide(s, a, verdict, role, timed)
    \/ \E s \in Slots : BeginDecide(s) \/ CommitDecide(s)

MemberNext ==
    \/ \E s \in Slots, by \in Users, target \in Users :
         \/ \E role \in Roles : CheckAdd(s, by, target, role)
         \/ \E role \in Roles : CheckPatch(s, by, target, role)
         \/ CheckRemove(s, by, target)
    \/ \E s \in Slots : CommitAdd(s) \/ CommitPatch(s) \/ CommitRemove(s)
    \/ \E u \in Users : LeaveOrg(u)

ClockNext ==
    \/ \E u \in Users : Lapse(u)
    \/ \E a \in Asks : GoStale(a)

SweepNext ==
    \/ \E w \in Sweepers : SweepRead(w) \/ SweepWrite(w) \/ SweepFail(w)
    \/ AutoDeny

Next == AskNext \/ MemberNext \/ ClockNext \/ SweepNext

Spec == Init /\ [][Next]_vars

\* The timer keeps firing and its transaction does not fail for ever; a
\* handler that holds a row lock commits.
Fairness ==
    /\ \A w \in Sweepers : WF_vars(SweepRead(w)) /\ SF_vars(SweepWrite(w))
    /\ \A s \in Slots : WF_vars(BeginDecide(s)) /\ WF_vars(CommitDecide(s))
    /\ WF_vars(AutoDeny)

FairSpec == Spec /\ Fairness

-----------------------------------------------------------------------------
(* Properties *)

\* Rows, handlers and snapshots have the shapes of the schema and the code.
TypeOK ==
    /\ orgMembers \subseteq Users
    /\ grants \in [Users -> Grant]
    /\ asks \in [Asks -> Ask \cup {NoAsk}]
    /\ slot \in [Slots -> Work]
    /\ sweep \in [Sweepers -> SUBSET ExpiredRow]
    /\ autoDenials \in [Asks -> Nat]

\* Nobody holds a temporary role unless a request of theirs was decided,
\* whatever decisions, role changes and sweeps ran on stale reads.
TemporaryNeedsDecision ==
    \A u \in Users : Temporary(grants[u]) =>
      \E a \in Asks : asks[a] # NoAsk /\ asks[a].by = u /\ asks[a].state # "pending"

\* A request is auto-denied once at most, and only while nobody had decided
\* it (expirationSweeper.ts: overlapping ticks, concurrent approve or deny).
AutoDenialIsOnce ==
    /\ \A a \in Asks : autoDenials[a] <= 1
    /\ \A a \in Asks : autoDenials[a] = 1 => ~Pending(a)

\* An expired role is taken back, and a forgotten request is closed.
ExpiredIsSwept ==
    \A u \in Users : grants[u].expires = "past" ~> grants[u].expires # "past"
StaleIsClosed ==
    \A a \in Asks : Pending(a) /\ asks[a].stale ~> ~Pending(a)

-----------------------------------------------------------------------------
(* What the comments and documents promise and the code does not keep. *)

\* accessRequests.ts: a decided request is a conflict ("already decided").
DecidedOnce ==
    [][\A a \in Asks : asks[a] # NoAsk /\ ~Pending(a) => asks'[a].state = asks[a].state]_vars

\* accessRequests.ts, FINDING 3: re-approving a temporary grant "must NOT
\* promote originalRole to the elevated role".
ReapprovalKeepsBaseline ==
    [][\A u \in Users : Temporary(grants[u]) /\ Temporary(grants'[u])
         => grants'[u].original = grants[u].original]_vars

\* expirationSweeper.ts: the sweeper reverts the rows whose expiresAt has
\* passed, and no others.
SweepTakesOnlyExpired ==
    [][(\E w \in Sweepers : SweepWrite(w)) =>
         \A u \in Users : grants[u].expires # "past" => grants'[u] = grants[u]]_vars

\* API_CONTRACT.md: "the API refuses to remove or demote the last manager".
LastManagerStays ==
    [][(\E s \in Slots : CommitPatch(s) \/ CommitRemove(s)) =>
         (Managers # {} => Managers' # {})]_vars

-----------------------------------------------------------------------------
(* What the code does not enforce, as conditions on a step: under them the *)
(* rules above hold.                                                       *)

\* Nobody changes who is a manager between the check and the commit of a
\* removal or a role change.
ManagersHold ==
    \A s \in Slots : slot[s].op \in {"patch", "remove"} /\ slot'[s] = slot[s]
                      => Managers' = Managers

\* Nobody else decides a request that a decision under way found pending.
VerdictsHold ==
    \A s \in Slots : slot[s].op = "decide" /\ slot'[s] # Idle
                      => asks'[slot[s].ask].state = asks[slot[s].ask].state

\* Nobody writes the member row that a decision under way has read.
BaselinesHold ==
    \A s \in Slots : slot[s].op = "decide" /\ slot[s].phase = "writing" /\ slot'[s] = slot[s]
                      => LET u == asks[slot[s].ask].by IN grants'[u] = grants[u]

\* Roles are granted to members, not to users who have none to return to.
MembersOnly ==
    \A s \in Slots : CommitDecide(s) /\ slot[s].verdict = "approved"
                      => HasRow(asks[slot[s].ask].by)

\* Nobody writes a row that a sweep under way has read.
SweptRowsHold ==
    \A w \in Sweepers : sweep'[w] = sweep[w]
                      => \A row \in sweep[w] : grants'[row.user] = grants[row.user]
=============================================================================
