------------------------------- MODULE Sends -------------------------------
(***************************************************************************)
(* One one-time send: the row POST /sends inserted, the reveal requests    *)
(* that race for its views, the sender's burn requests and the clock.      *)
(*                                                                         *)
(* A reveal reads the row, decides on that snapshot, and only then claims  *)
(* a view with one guarded UPDATE; audit and answer follow in later steps. *)
(* A burn checks its snapshot and then updates without a guard.  The       *)
(* process may crash between any two steps, and the audit may fail.        *)
(***************************************************************************)
EXTENDS Integers, FiniteSets

CONSTANTS
    Requests,  \* POST /s/:token/reveal requests; a retry is another request
    Knows,     \* the requests that carry the send's password, if it has one
    Burns,     \* DELETE /sends/:id requests of the sender
    MaxViews   \* one_time_sends.max_views

ASSUME SendAssumption ==
    /\ Knows \subseteq Requests
    /\ MaxViews \in Nat \ {0}
    /\ IsFiniteSet(Requests)

VARIABLES
    clock,       \* "grace" (the first second), "open" or "expired"
    viewCount,   \* one_time_sends.view_count
    burned,      \* burned_at IS NOT NULL
    stage,       \* request -> how far the reveal handler got
    burnStage,   \* request -> how far the burn handler got
    claims,      \* the requests whose UPDATE returned the row
    audits,      \* the requests with a send.view audit row and notification
    burnAudits   \* the burn requests with a send.burn audit row

vars == <<clock, viewCount, burned, stage, burnStage, claims, audits, burnAudits>>

Stage == {"new", "checked", "claimed", "audited", "answered", "refused", "lost"}
BurnStage == {"new", "checked", "done", "lost"}
Answered == {r \in Requests : stage[r] = "answered"}

-----------------------------------------------------------------------------
\* The insert of POST /sends.  A send lives for at least a minute, so the
\* grace second is over before it expires.
Init ==
    /\ clock = "grace"
    /\ viewCount = 0
    /\ burned = FALSE
    /\ stage = [r \in Requests |-> "new"]
    /\ burnStage = [b \in Burns |-> "new"]
    /\ claims = {}
    /\ audits = {}
    /\ burnAudits = {}

Tick ==
    /\ clock # "expired"
    /\ clock' = IF clock = "grace" THEN "open" ELSE "expired"
    /\ UNCHANGED <<viewCount, burned, stage, burnStage, claims, audits, burnAudits>>

-----------------------------------------------------------------------------
(* POST /s/:token/reveal *)

\* 425 send_not_ready: a link preview must not use up a view.
NeverEarly == FALSE                                                   \* mutant
TooEarly == clock = "grace" /\ viewCount = 0

ReadSend(r) ==
    /\ stage[r] = "new"
    /\ stage' = [stage EXCEPT ![r] =
                   IF burned \/ clock = "expired" \/ TooEarly \/ r \notin Knows
                   THEN "refused" ELSE "checked"]
    /\ UNCHANGED <<clock, viewCount, burned, burnStage, claims, audits, burnAudits>>

\* The WHERE clause of the claiming UPDATE.
ClaimableByCount == viewCount < MaxViews /\ clock # "expired"         \* mutant
ClaimableOnSnapshot == TRUE                                           \* mutant
ClaimableForever == ~burned /\ viewCount < MaxViews                   \* mutant
Claimable == ~burned /\ viewCount < MaxViews /\ clock # "expired"

Claim(r) ==
    /\ stage[r] = "checked"
    /\ IF Claimable
       THEN /\ viewCount' = viewCount + 1
            /\ burned' = (viewCount + 1 >= MaxViews)
            /\ claims' = claims \cup {r}
            /\ stage' = [stage EXCEPT ![r] = "claimed"]
       ELSE /\ stage' = [stage EXCEPT ![r] = "refused"]
            /\ UNCHANGED <<viewCount, burned, claims>>
    /\ UNCHANGED <<clock, burnStage, audits, burnAudits>>

AuditViewHangs(r) ==                                                  \* mutant
    /\ stage[r] = "claimed"
    /\ audits' = audits \cup {r}
    /\ UNCHANGED <<clock, viewCount, burned, stage, burnStage, claims, burnAudits>>

\* One transaction: the audit row and the creator's notification.
AuditView(r) ==
    /\ stage[r] = "claimed"
    /\ audits' = audits \cup {r}
    /\ stage' = [stage EXCEPT ![r] = "audited"]
    /\ UNCHANGED <<clock, viewCount, burned, burnStage, claims, burnAudits>>

\* The transaction throws: 500, and the view is gone.
FailAudit(r) ==
    /\ stage[r] = "claimed"
    /\ stage' = [stage EXCEPT ![r] = "lost"]
    /\ UNCHANGED <<clock, viewCount, burned, burnStage, claims, audits, burnAudits>>

AnswerFirst(r) ==                                                     \* mutant
    /\ stage[r] \in {"claimed", "audited"}
    /\ stage' = [stage EXCEPT ![r] = "answered"]
    /\ UNCHANGED <<clock, viewCount, burned, burnStage, claims, audits, burnAudits>>

Answer(r) ==
    /\ stage[r] = "audited"
    /\ stage' = [stage EXCEPT ![r] = "answered"]
    /\ UNCHANGED <<clock, viewCount, burned, burnStage, claims, audits, burnAudits>>

-----------------------------------------------------------------------------
(* DELETE /sends/:id *)

ReadBurn(b) ==
    /\ burnStage[b] = "new"
    /\ burnStage' = [burnStage EXCEPT ![b] = IF burned THEN "done" ELSE "checked"]
    /\ UNCHANGED <<clock, viewCount, burned, stage, claims, audits, burnAudits>>

\* The UPDATE has no guard: burned_at is set again if it was set meanwhile.
CommitBurn(b) ==
    /\ burnStage[b] = "checked"
    /\ burned' = TRUE
    /\ burnAudits' = burnAudits \cup {b}
    /\ burnStage' = [burnStage EXCEPT ![b] = "done"]
    /\ UNCHANGED <<clock, viewCount, stage, claims, audits>>

-----------------------------------------------------------------------------
\* The process dies with its requests in flight; the database keeps the rows.
Crash ==
    /\ stage' = [r \in Requests |->
                   IF stage[r] \in {"checked", "claimed", "audited"} THEN "lost" ELSE stage[r]]
    /\ burnStage' = [b \in Burns |->
                       IF burnStage[b] = "checked" THEN "lost" ELSE burnStage[b]]
    /\ UNCHANGED <<clock, viewCount, burned, claims, audits, burnAudits>>

Next ==
    \/ Tick
    \/ \E r \in Requests : ReadSend(r) \/ Claim(r) \/ AuditView(r) \/ FailAudit(r) \/ Answer(r)
    \/ \E b \in Burns : ReadBurn(b) \/ CommitBurn(b)
    \/ Crash

Spec == Init /\ [][Next]_vars

\* A handler that has started runs on: each of its awaits resolves.
Fairness ==
    \A r \in Requests : WF_vars(Claim(r)) /\ WF_vars(AuditView(r)) /\ WF_vars(Answer(r))

FairSpec == Spec /\ Fairness

-----------------------------------------------------------------------------
(* Properties *)

\* Each column and each request is in one of the states listed above.
TypeOK ==
    /\ clock \in {"grace", "open", "expired"}
    /\ viewCount \in 0..MaxViews
    /\ burned \in BOOLEAN
    /\ stage \in [Requests -> Stage]
    /\ burnStage \in [Burns -> BurnStage]
    /\ claims \subseteq Requests
    /\ audits \subseteq Requests
    /\ burnAudits \subseteq Burns

\* No double spend: however many reveals pass the checks on a stale row, the
\* secret goes out at most max_views times.
ViewsWithinBudget == Cardinality(Answered) <= MaxViews

\* The secret never goes out without an audit row and a notice to its sender.
AnsweredIsAudited == Answered \subseteq audits

\* A send that was burned, by its last view or by its sender, stays burned.
\* The claiming UPDATE writes burned_at, NULL included, on every view.
BurnIsFinal == [][burned => burned']_vars

\* No view is claimed once the send is burned or expired.
NoViewAfterEnd == [][burned \/ clock = "expired" => viewCount' = viewCount]_vars

\* No view is claimed in the first second (AC-032.4): the check runs before
\* the password is verified, on an older row and an older clock.
NoViewInGrace == viewCount > 0 => clock # "grace"

\* A view that was paid for is delivered, unless its request was lost to a
\* crash or a failed audit.
PaidViewsDelivered == \A r \in Requests : r \in claims ~> stage[r] \in {"answered", "lost"}

\* The send implements the promise of SendLedger: however claims, audits,
\* answers, burns, crashes and the clock interleave, each answer is for a view
\* its request claimed while the send lasted, and audited before.
Promise == INSTANCE SendLedger WITH left <- MaxViews - viewCount,
                                    ended <- burned \/ clock = "expired",
                                    taken <- claims, recorded <- audits, given <- Answered
PromiseSpec == Promise!Spec

\* sends.ts, on DELETE: "a re-burn is a no-op".
ReburnIsNoOp == [][burned => burnAudits' = burnAudits]_vars

\* The code does not enforce that nothing ends the send between the check and
\* the UPDATE of a burn; where that holds, so does the rule.
BurnsHold ==
    \A b \in Burns : burnStage[b] = "checked" /\ burnStage'[b] = "checked" => burned' = burned
=============================================================================
