-------------------------- MODULE TempAccessProofs --------------------------
(***************************************************************************)
(* Proofs about TempAccess for any users, requests, handlers and sweeps.   *)
(*                                                                         *)
(* The two invariants about requests need what a decision in flight is     *)
(* about: a row that exists (DecisionsSound).  Whether the row is pending  *)
(* no decision knows.                                                      *)
(***************************************************************************)
EXTENDS TempAccess, FiniteSetTheorems, TLAPS

DecisionsSound ==
    /\ \A s \in Slots : slot[s].op = "decide" => asks[slot[s].ask] # NoAsk
    /\ \A a \in Asks : asks[a] = NoAsk => autoDenials[a] = 0

IInv == TypeOK /\ DecisionsSound /\ TemporaryNeedsDecision /\ AutoDenialIsOnce

-----------------------------------------------------------------------------
LEMMA WorkShape ==
    ASSUME NEW d \in Work
    PROVE  /\ d.op = "decide" => /\ d.ask \in Asks
                                 /\ d.verdict \in {"approved", "denied"}
                                 /\ d.role \in Role
                                 /\ d.timed \in BOOLEAN
                                 /\ d.baseline \in Role \cup {NoRole}
                                 /\ d \in [op : {"decide"}, phase : {"checked", "writing"},
                                           ask : Asks, verdict : {"approved", "denied"},
                                           role : Role, timed : BOOLEAN,
                                           baseline : Role \cup {NoRole}]
           /\ d.op \in {"add", "patch"} => d.target \in Users /\ d.role \in Role
           /\ d.op = "remove" => d.target \in Users
  <1>1. CASE d = Idle
    BY <1>1 DEF Idle
  <1>2. CASE d \in [op : {"decide"}, phase : {"checked", "writing"}, ask : Asks,
                    verdict : {"approved", "denied"}, role : Role, timed : BOOLEAN,
                    baseline : Role \cup {NoRole}]
    BY <1>2
  <1>3. CASE d \in [op : {"add", "patch"}, target : Users, role : Role]
    BY <1>3
  <1>4. CASE d \in [op : {"remove"}, target : Users]
    BY <1>4
  <1> QED
    BY <1>1, <1>2, <1>3, <1>4 DEF Work

LEMMA AskShape ==
    ASSUME TypeOK, NEW a \in Asks, asks[a] # NoAsk
    PROVE  asks[a] \in Ask
  BY DEF TypeOK

LEMMA InitIInv == Init => IInv
  <1> SUFFICES ASSUME Init PROVE IInv
    OBVIOUS
  <1>1. grants \in [Users -> {Permanent(r) : r \in {"manager", "viewer", NoRole}}]
    BY DEF Init
  <1>2. \A r \in {"manager", "viewer", NoRole} : Permanent(r) \in Grant /\ ~Temporary(Permanent(r))
    BY DEF Permanent, Grant, Role, Temporary
  <1>3. grants \in [Users -> Grant] /\ \A u \in Users : ~Temporary(grants[u])
    BY <1>1, <1>2
  <1>4. TypeOK
    BY <1>3 DEF Init, TypeOK, Work
  <1>5. DecisionsSound
    BY DEF Init, DecisionsSound, Idle
  <1>6. TemporaryNeedsDecision
    BY <1>3 DEF TemporaryNeedsDecision
  <1>7. AutoDenialIsOnce
    BY DEF Init, AutoDenialIsOnce, Pending
  <1> QED
    BY <1>4, <1>5, <1>6, <1>7 DEF IInv

-----------------------------------------------------------------------------
(* Steps that leave the requests alone *)

\* A step that makes nobody's role temporary keeps TemporaryNeedsDecision.
LEMMA GrantStep ==
    ASSUME IInv, UNCHANGED <<asks, autoDenials>>, orgMembers' \subseteq Users,
           grants' \in [Users -> Grant], slot' \in [Slots -> Work],
           sweep' \in [Sweepers -> SUBSET ExpiredRow],
           \A u \in Users : Temporary(grants'[u]) => Temporary(grants[u]),
           \A s \in Slots : slot'[s].op = "decide" =>
             \/ slot[s].op = "decide" /\ slot'[s].ask = slot[s].ask
             \/ asks[slot'[s].ask] # NoAsk
    PROVE  IInv'
  <1>1. TypeOK'
    BY DEF IInv, TypeOK
  <1>2. DecisionsSound'
    BY DEF IInv, DecisionsSound
  <1>3. TemporaryNeedsDecision'
    BY DEF IInv, TemporaryNeedsDecision
  <1>4. AutoDenialIsOnce'
    BY DEF IInv, AutoDenialIsOnce, Pending
  <1> QED
    BY <1>1, <1>2, <1>3, <1>4 DEF IInv

LEMMA CheckIInv ==
    ASSUME IInv, NEW s \in Slots, NEW d \in Work, Start(s, d), d.op # "decide"
    PROVE  IInv'
  <1>1. slot' = [slot EXCEPT ![s] = d] /\ slot \in [Slots -> Work]
        /\ UNCHANGED <<orgMembers, grants, asks, sweep, autoDenials>>
    BY DEF Start, IInv, TypeOK
  <1>2. slot' \in [Slots -> Work]
        /\ \A t \in Slots : slot'[t].op = "decide" =>
             slot[t].op = "decide" /\ slot'[t].ask = slot[t].ask
    BY <1>1
  <1> QED
    BY <1>1, <1>2, GrantStep DEF IInv, TypeOK

\* The commits of the member endpoints and of the workspace.
LEMMA MemberCommitIInv ==
    ASSUME IInv, NEW s \in Slots, CommitAdd(s) \/ CommitPatch(s) \/ CommitRemove(s)
    PROVE  IInv'
  <1>a. slot \in [Slots -> Work] /\ grants \in [Users -> Grant] /\ slot[s] \in Work
    BY DEF IInv, TypeOK
  <1>b. Idle \in Work /\ Idle.op = "idle"
    BY DEF Work, Idle
  <1>c. NoGrant \in Grant /\ ~Temporary(NoGrant)
        /\ \A r \in Role : Permanent(r) \in Grant /\ ~Temporary(Permanent(r))
    BY DEF NoGrant, Permanent, Grant, Temporary
  <1>1. slot' = [slot EXCEPT ![s] = Idle] /\ UNCHANGED <<orgMembers, asks, sweep, autoDenials>>
    BY DEF CommitAdd, CommitPatch, CommitRemove, Finish
  <1>2. slot' \in [Slots -> Work]
        /\ \A t \in Slots : slot'[t].op = "decide" =>
             slot[t].op = "decide" /\ slot'[t].ask = slot[t].ask
    BY <1>1, <1>a, <1>b
  <1>3. slot[s].target \in Users
    BY <1>a, WorkShape DEF CommitAdd, CommitPatch, CommitRemove, Finish
  <1>4. grants' \in [Users -> Grant]
        /\ \A u \in Users : Temporary(grants'[u]) => Temporary(grants[u])
    <2>1. CASE CommitAdd(s)
      <3>1. slot[s].role \in Role
        BY <2>1, <1>a, WorkShape DEF CommitAdd, Finish
      <3> QED
        BY <2>1, <3>1, <1>3, <1>a, <1>c DEF CommitAdd
    <2>2. CASE CommitPatch(s)
      <3>1. slot[s].role \in Role
        BY <2>2, <1>a, WorkShape DEF CommitPatch, Finish
      <3> DEFINE g == [grants[slot[s].target] EXCEPT !.role = slot[s].role]
      <3>2. g \in Grant /\ (Temporary(g) => Temporary(grants[slot[s].target]))
        BY <3>1, <1>3, <1>a DEF Grant, Temporary
      <3>3. grants' = grants \/ grants' = [grants EXCEPT ![slot[s].target] = g]
        BY <2>2, <1>3, <1>a DEF CommitPatch
      <3> QED
        BY <3>2, <3>3, <1>3, <1>a
    <2>3. CASE CommitRemove(s)
      BY <2>3, <1>3, <1>a, <1>c DEF CommitRemove
    <2> QED
      BY <2>1, <2>2, <2>3
  <1> QED
    BY <1>1, <1>2, <1>4, GrantStep DEF IInv, TypeOK

LEMMA OtherGrantIInv ==
    ASSUME IInv,
           \/ \E u \in Users : LeaveOrg(u) \/ Lapse(u)
           \/ \E w \in Sweepers : SweepRead(w) \/ SweepWrite(w) \/ SweepFail(w)
    PROVE  IInv'
  <1>a. grants \in [Users -> Grant] /\ sweep \in [Sweepers -> SUBSET ExpiredRow]
        /\ slot \in [Slots -> Work] /\ orgMembers \subseteq Users
    BY DEF IInv, TypeOK
  <1>c. NoGrant \in Grant /\ ~Temporary(NoGrant)
        /\ \A r \in Role \cup {NoRole} : Permanent(r) \in Grant /\ ~Temporary(Permanent(r))
    BY DEF NoGrant, Permanent, Grant, Temporary
  <1>1. ASSUME NEW u \in Users, LeaveOrg(u) PROVE IInv'
    <2>1. grants' \in [Users -> Grant]
          /\ \A v \in Users : Temporary(grants'[v]) => Temporary(grants[v])
      BY <1>1, <1>a, <1>c DEF LeaveOrg
    <2> QED
      BY <1>1, <1>a, <2>1, GrantStep DEF LeaveOrg
  <1>2. ASSUME NEW u \in Users, Lapse(u) PROVE IInv'
    <2> DEFINE g == [grants[u] EXCEPT !.expires = "past"]
    <2>1. g \in Grant /\ Temporary(grants[u])
      BY <1>2, <1>a DEF Grant, Temporary, Lapse
    <2>2. grants' = [grants EXCEPT ![u] = g]
      BY <1>2, <1>a DEF Lapse
    <2>3. grants' \in [Users -> Grant]
          /\ \A v \in Users : Temporary(grants'[v]) => Temporary(grants[v])
      BY <1>a, <2>1, <2>2
    <2> QED
      BY <1>2, <1>a, <2>3, GrantStep DEF Lapse
  <1>3. ASSUME NEW w \in Sweepers, SweepRead(w) PROVE IInv'
    <2> DEFINE S == {[user |-> u, original |-> grants[u].original] : u \in Expired}
    <2>1. S \in SUBSET ExpiredRow
      BY <1>a DEF Expired, ExpiredRow, Grant
    <2>2. sweep' = [sweep EXCEPT ![w] = S]
      BY <1>3 DEF SweepRead
    <2>3. sweep' \in [Sweepers -> SUBSET ExpiredRow]
      BY <1>a, <2>1, <2>2
    <2>4. UNCHANGED <<orgMembers, grants, asks, slot, autoDenials>>
      BY <1>3 DEF SweepRead
    <2> QED
      BY <1>a, <2>3, <2>4, GrantStep
  <1>4. ASSUME NEW w \in Sweepers, SweepWrite(w) PROVE IInv'
    <2>1. \A u \in Users, row \in sweep[w] :
            Reverted(u, row) \in Grant /\ ~Temporary(Reverted(u, row))
      BY <1>a, <1>c DEF Reverted, ExpiredRow
    <2>2. \A u \in Users : (\E row \in sweep[w] : row.user = u)
            => (CHOOSE row \in sweep[w] : row.user = u) \in sweep[w]
      OBVIOUS
    <2>3. grants' \in [Users -> Grant]
          /\ \A u \in Users : Temporary(grants'[u]) => Temporary(grants[u])
      BY <1>4, <1>a, <2>1, <2>2 DEF SweepWrite
    <2>4. sweep' \in [Sweepers -> SUBSET ExpiredRow]
      BY <1>4, <1>a DEF SweepWrite
    <2> QED
      BY <1>4, <1>a, <2>3, <2>4, GrantStep DEF SweepWrite
  <1>5. ASSUME NEW w \in Sweepers, SweepFail(w) PROVE IInv'
    <2>1. sweep' \in [Sweepers -> SUBSET ExpiredRow]
      BY <1>5, <1>a DEF SweepFail
    <2> QED
      BY <1>5, <1>a, <2>1, GrantStep DEF SweepFail
  <1> QED
    BY <1>1, <1>2, <1>3, <1>4, <1>5

-----------------------------------------------------------------------------
(* Decisions *)

LEMMA DecideReadsIInv ==
    ASSUME IInv, NEW s \in Slots,
           \/ BeginDecide(s)
           \/ \E a \in Asks, verdict \in {"approved", "denied"}, role \in Roles \ {"viewer"},
                 timed \in BOOLEAN : CheckDecide(s, a, verdict, role, timed)
    PROVE  IInv'
  <1>a. slot \in [Slots -> Work] /\ grants \in [Users -> Grant] /\ slot[s] \in Work
        /\ Roles \subseteq Role
    BY TempAssumption DEF IInv, TypeOK
  <1>1. PICK d \in Work :
          /\ slot' = [slot EXCEPT ![s] = d]
          /\ asks[d.ask] # NoAsk
          /\ UNCHANGED <<orgMembers, grants, asks, sweep, autoDenials>>
    <2>1. CASE BeginDecide(s)
      <3>1. /\ slot[s].op = "decide" /\ slot[s].ask \in Asks
            /\ asks[slot[s].ask] # NoAsk
            /\ slot[s] \in [op : {"decide"}, phase : {"checked", "writing"}, ask : Asks,
                            verdict : {"approved", "denied"}, role : Role,
                            timed : BOOLEAN, baseline : Role \cup {NoRole}]
        BY <2>1, <1>a, WorkShape DEF BeginDecide, IInv, DecisionsSound
      <3>2. asks[slot[s].ask].by \in Users
        BY <3>1, AskShape DEF IInv, Ask
      <3> DEFINE base == Baseline(grants[asks[slot[s].ask].by])
                 d == [slot[s] EXCEPT !.phase = "writing", !.baseline = base]
      <3>3. base \in Role \cup {NoRole}
        BY <3>2, <1>a DEF Baseline, Grant
      <3>4. d \in [op : {"decide"}, phase : {"checked", "writing"}, ask : Asks,
                   verdict : {"approved", "denied"}, role : Role,
                   timed : BOOLEAN, baseline : Role \cup {NoRole}]
            /\ d.ask = slot[s].ask
        BY <3>1, <3>3
      <3>5. d \in Work
        BY <3>4 DEF Work
      <3>6. slot' = [slot EXCEPT ![s] = d]
        BY <2>1, <1>a DEF BeginDecide
      <3> QED
        BY <2>1, <3>1, <3>4, <3>5, <3>6 DEF BeginDecide
    <2>2. ASSUME NEW a \in Asks, NEW verdict \in {"approved", "denied"},
                 NEW role \in Roles \ {"viewer"}, NEW timed \in BOOLEAN,
                 CheckDecide(s, a, verdict, role, timed)
          PROVE  \E d \in Work :
                   /\ slot' = [slot EXCEPT ![s] = d]
                   /\ asks[d.ask] # NoAsk
                   /\ UNCHANGED <<orgMembers, grants, asks, sweep, autoDenials>>
      <3> DEFINE d == [op |-> "decide", phase |-> "checked", ask |-> a,
                       verdict |-> verdict, role |-> role, timed |-> timed,
                       baseline |-> NoRole]
      <3>1. d \in Work
        BY <1>a DEF Work
      <3>2. slot' = [slot EXCEPT ![s] = d] /\ asks[a] # NoAsk
            /\ UNCHANGED <<orgMembers, grants, asks, sweep, autoDenials>>
        BY <2>2 DEF CheckDecide, Pending
      <3> QED
        BY <3>1, <3>2
    <2> QED
      BY <2>1, <2>2
  <1>2. slot' \in [Slots -> Work]
        /\ \A t \in Slots : slot'[t].op = "decide" =>
             \/ slot[t].op = "decide" /\ slot'[t].ask = slot[t].ask
             \/ asks[slot'[t].ask] # NoAsk
    BY <1>1, <1>a
  <1> QED
    BY <1>1, <1>2, GrantStep DEF IInv, TypeOK

\* A change of requests that only closes them, and the roles it makes
\* temporary belong to requesters of decided ones.
LEMMA AskStep ==
    ASSUME IInv, UNCHANGED <<orgMembers, sweep>>,
           asks' \in [Asks -> Ask \cup {NoAsk}], grants' \in [Users -> Grant],
           slot' \in [Slots -> Work], autoDenials' \in [Asks -> Nat],
           \A s \in Slots : slot'[s] = slot[s] \/ slot'[s].op # "decide",
           \A a \in Asks : asks[a] # NoAsk => asks'[a] # NoAsk /\ asks'[a].by = asks[a].by,
           \A a \in Asks : asks[a] # NoAsk /\ asks[a].state # "pending"
             => asks'[a].state # "pending",
           \A a \in Asks : asks'[a] = NoAsk => autoDenials'[a] = 0,
           \A a \in Asks : \/ autoDenials'[a] = autoDenials[a]
                           \/ Pending(a) /\ autoDenials'[a] = autoDenials[a] + 1
                              /\ asks'[a].state = "denied",
           \A u \in Users : Temporary(grants'[u]) =>
             \/ Temporary(grants[u])
             \/ \E a \in Asks : asks'[a] # NoAsk /\ asks'[a].by = u /\ asks'[a].state # "pending"
    PROVE  IInv'
  <1>1. TypeOK'
    BY DEF IInv, TypeOK
  <1>2. DecisionsSound'
    <2>1. ASSUME NEW s \in Slots, slot'[s].op = "decide" PROVE asks'[slot'[s].ask] # NoAsk
      <3>1. slot'[s] = slot[s] /\ slot[s] \in Work
        BY <2>1 DEF IInv, TypeOK
      <3>2. slot[s].ask \in Asks
        BY <2>1, <3>1, WorkShape
      <3> QED
        BY <2>1, <3>1, <3>2 DEF IInv, DecisionsSound
    <2> QED
      BY <2>1 DEF DecisionsSound
  <1>3. TemporaryNeedsDecision'
    BY DEF IInv, TemporaryNeedsDecision
  <1>4. AutoDenialIsOnce'
    <2>1. ASSUME NEW a \in Asks
          PROVE  autoDenials'[a] <= 1 /\ (autoDenials'[a] = 1 => ~Pending(a)')
      <3>a. autoDenials[a] \in Nat /\ autoDenials[a] <= 1 /\ (autoDenials[a] = 1 => ~Pending(a))
            /\ (asks[a] = NoAsk => autoDenials[a] = 0)
        BY DEF IInv, TypeOK, AutoDenialIsOnce, DecisionsSound
      <3>1. CASE Pending(a) /\ autoDenials'[a] = autoDenials[a] + 1 /\ asks'[a].state = "denied"
        BY <3>a, <3>1 DEF Pending
      <3>2. CASE autoDenials'[a] = autoDenials[a]
        BY <3>a, <3>2 DEF Pending
      <3> QED
        BY <3>1, <3>2
    <2> QED
      BY <2>1 DEF AutoDenialIsOnce
  <1> QED
    BY <1>1, <1>2, <1>3, <1>4 DEF IInv

LEMMA CommitDecideIInv ==
    ASSUME IInv, NEW s \in Slots, CommitDecide(s)
    PROVE  IInv'
  <1> DEFINE d == slot[s]
             row == [asks[d.ask] EXCEPT !.state = d.verdict]
  <1>a. slot \in [Slots -> Work] /\ grants \in [Users -> Grant] /\ slot[s] \in Work
        /\ asks \in [Asks -> Ask \cup {NoAsk}] /\ autoDenials \in [Asks -> Nat]
    BY DEF IInv, TypeOK
  <1>b. Idle \in Work /\ Idle.op = "idle"
    BY DEF Work, Idle
  <1>1. /\ d.op = "decide" /\ d.ask \in Asks /\ d.verdict \in {"approved", "denied"}
        /\ d.role \in Role /\ d.timed \in BOOLEAN /\ d.baseline \in Role \cup {NoRole}
    BY <1>a, WorkShape DEF CommitDecide
  <1>2. asks[d.ask] # NoAsk
    BY <1>1 DEF IInv, DecisionsSound
  <1>3. asks[d.ask] \in Ask
    BY <1>1, <1>2, AskShape DEF IInv
  <1>4. row \in Ask /\ row.by = asks[d.ask].by /\ row.state = d.verdict /\ row # NoAsk
    BY <1>1, <1>3 DEF Ask, NoAsk
  <1>5. asks' = [asks EXCEPT ![d.ask] = row] /\ slot' = [slot EXCEPT ![s] = Idle]
        /\ UNCHANGED <<orgMembers, sweep, autoDenials>>
    BY <1>1, <1>a DEF CommitDecide
  <1>6. GrantOf(d) \in Grant
    BY <1>1 DEF GrantOf, Grant
  <1>7. grants' = grants \/ grants' = [grants EXCEPT ![asks[d.ask].by] = GrantOf(d)]
    BY DEF CommitDecide
  <1>8. grants' \in [Users -> Grant]
    BY <1>6, <1>7, <1>a
  <1>9. asks' \in [Asks -> Ask \cup {NoAsk}] /\ slot' \in [Slots -> Work]
    BY <1>4, <1>5, <1>a, <1>b
  <1>10. ASSUME NEW u \in Users, Temporary(grants'[u]), ~Temporary(grants[u])
         PROVE  \E a \in Asks : asks'[a] # NoAsk /\ asks'[a].by = u /\ asks'[a].state # "pending"
    <2>1. u = asks[d.ask].by
      BY <1>10, <1>7, <1>a
    <2>2. asks'[d.ask] = row
      BY <1>1, <1>5, <1>a
    <2> QED
      BY <1>1, <1>4, <2>1, <2>2
  <1>11. \A a \in Asks : /\ asks[a] # NoAsk => asks'[a] # NoAsk /\ asks'[a].by = asks[a].by
                         /\ asks[a] # NoAsk /\ asks[a].state # "pending" => asks'[a].state # "pending"
                         /\ asks'[a] = NoAsk => autoDenials'[a] = 0
    BY <1>1, <1>4, <1>5, <1>a DEF IInv, DecisionsSound
  <1>12. \A t \in Slots : slot'[t] = slot[t] \/ slot'[t].op # "decide"
    BY <1>5, <1>a, <1>b
  <1> QED
    BY <1>5, <1>8, <1>9, <1>10, <1>11, <1>12, <1>a, AskStep

LEMMA AskRowIInv ==
    ASSUME IInv, NEW a \in Asks,
           GoStale(a) \/ \E u \in Users, timed \in BOOLEAN : CreateAsk(u, a, timed)
    PROVE  IInv'
  <1>a. asks \in [Asks -> Ask \cup {NoAsk}] /\ autoDenials \in [Asks -> Nat]
        /\ slot \in [Slots -> Work] /\ grants \in [Users -> Grant]
    BY DEF IInv, TypeOK
  <1>1. PICK row \in Ask :
          /\ asks' = [asks EXCEPT ![a] = row]
          /\ asks[a] # NoAsk => row.by = asks[a].by /\ row.state = asks[a].state
    <2>1. CASE GoStale(a)
      <3> DEFINE row == [asks[a] EXCEPT !.stale = TRUE]
      <3>1. asks[a] \in Ask
        BY <2>1, AskShape DEF GoStale, Pending, IInv
      <3>2. row \in Ask /\ row.by = asks[a].by /\ row.state = asks[a].state
        BY <3>1 DEF Ask
      <3>3. asks' = [asks EXCEPT ![a] = row]
        BY <2>1, <1>a DEF GoStale
      <3> QED
        BY <3>2, <3>3
    <2>2. ASSUME NEW u \in Users, NEW timed \in BOOLEAN, CreateAsk(u, a, timed)
          PROVE  \E row \in Ask : /\ asks' = [asks EXCEPT ![a] = row]
                                  /\ asks[a] # NoAsk => row.by = asks[a].by /\ row.state = asks[a].state
      <3>1. [state |-> "pending", by |-> u, timed |-> timed, stale |-> FALSE] \in Ask
        BY DEF Ask
      <3> QED
        BY <2>2, <3>1 DEF CreateAsk
    <2> QED
      BY <2>1, <2>2
  <1>2. row # NoAsk
    BY DEF Ask, NoAsk
  <1>3. UNCHANGED <<orgMembers, grants, slot, sweep, autoDenials>>
    BY DEF GoStale, CreateAsk
  <1>4. asks' \in [Asks -> Ask \cup {NoAsk}]
    BY <1>1, <1>a
  <1>5. \A b \in Asks : /\ asks[b] # NoAsk => asks'[b] # NoAsk /\ asks'[b].by = asks[b].by
                        /\ asks[b] # NoAsk /\ asks[b].state # "pending" => asks'[b].state # "pending"
                        /\ asks'[b] = NoAsk => autoDenials'[b] = 0
    BY <1>1, <1>2, <1>3, <1>a DEF IInv, DecisionsSound
  <1> QED
    BY <1>3, <1>4, <1>5, <1>a, AskStep

LEMMA AutoDenyIInv ==
    ASSUME IInv, AutoDeny
    PROVE  IInv'
  <1>a. asks \in [Asks -> Ask \cup {NoAsk}] /\ autoDenials \in [Asks -> Nat]
        /\ slot \in [Slots -> Work] /\ grants \in [Users -> Grant]
    BY DEF IInv, TypeOK
  <1>1. UNCHANGED <<orgMembers, grants, slot, sweep>>
    BY DEF AutoDeny
  <1>2. ASSUME NEW a \in Asks, a \in ToAutoDeny
        PROVE  /\ asks'[a] \in Ask /\ asks'[a] # NoAsk /\ asks'[a].by = asks[a].by
               /\ asks'[a].state = "denied"
               /\ Pending(a) /\ autoDenials'[a] = autoDenials[a] + 1
    <2>1. asks[a] \in Ask
      BY <1>2, AskShape DEF ToAutoDeny, Pending, IInv
    <2>2. asks'[a] = [asks[a] EXCEPT !.state = "denied"]
      BY <1>2 DEF AutoDeny
    <2>3. asks'[a] \in Ask /\ asks'[a].by = asks[a].by /\ asks'[a].state = "denied"
      BY <2>1, <2>2 DEF Ask
    <2>4. asks'[a] # NoAsk
      BY <2>3 DEF Ask, NoAsk
    <2> QED
      BY <1>2, <2>3, <2>4 DEF AutoDeny, ToAutoDeny
  <1>3. ASSUME NEW a \in Asks, a \notin ToAutoDeny
        PROVE  asks'[a] = asks[a] /\ autoDenials'[a] = autoDenials[a]
    BY <1>3 DEF AutoDeny
  <1>4. asks' \in [Asks -> Ask \cup {NoAsk}]
    <2>1. \A a \in Asks : asks'[a] \in Ask \cup {NoAsk}
      BY <1>2, <1>3, <1>a
    <2> QED
      BY <2>1 DEF AutoDeny
  <1>5. autoDenials' \in [Asks -> Nat]
    <2>1. \A a \in Asks : autoDenials'[a] \in Nat
      BY <1>2, <1>3, <1>a
    <2> QED
      BY <2>1 DEF AutoDeny
  <1>6. \A a \in Asks : /\ asks[a] # NoAsk => asks'[a] # NoAsk /\ asks'[a].by = asks[a].by
                        /\ asks[a] # NoAsk /\ asks[a].state # "pending" => asks'[a].state # "pending"
                        /\ asks'[a] = NoAsk => autoDenials'[a] = 0
    BY <1>2, <1>3 DEF IInv, DecisionsSound
  <1>7. \A a \in Asks : \/ autoDenials'[a] = autoDenials[a]
                        \/ Pending(a) /\ autoDenials'[a] = autoDenials[a] + 1
                           /\ asks'[a].state = "denied"
    BY <1>2, <1>3
  <1> QED
    BY <1>1, <1>4, <1>5, <1>6, <1>7, <1>a, AskStep

-----------------------------------------------------------------------------
LEMMA StepIInv == IInv /\ [Next]_vars => IInv'
  <1> SUFFICES ASSUME IInv, [Next]_vars PROVE IInv'
    OBVIOUS
  <1>a. Roles \subseteq Role
    BY TempAssumption
  <1>1. CASE AskNext
    BY <1>1, AskRowIInv, DecideReadsIInv, CommitDecideIInv DEF AskNext
  <1>2. CASE MemberNext
    <2>1. ASSUME NEW s \in Slots, NEW by \in Users, NEW target \in Users, NEW role \in Roles,
                 CheckAdd(s, by, target, role)
          PROVE  IInv'
      <3>1. [op |-> "add", target |-> target, role |-> role] \in Work
        BY <1>a DEF Work
      <3> QED
        BY <2>1, <3>1, CheckIInv DEF CheckAdd
    <2>2. ASSUME NEW s \in Slots, NEW by \in Users, NEW target \in Users, NEW role \in Roles,
                 CheckPatch(s, by, target, role)
          PROVE  IInv'
      <3>1. [op |-> "patch", target |-> target, role |-> role] \in Work
        BY <1>a DEF Work
      <3> QED
        BY <2>2, <3>1, CheckIInv DEF CheckPatch
    <2>3. ASSUME NEW s \in Slots, NEW by \in Users, NEW target \in Users,
                 CheckRemove(s, by, target)
          PROVE  IInv'
      <3>1. [op |-> "remove", target |-> target] \in Work
        BY DEF Work
      <3> QED
        BY <2>3, <3>1, CheckIInv DEF CheckRemove
    <2> QED
      BY <1>2, <2>1, <2>2, <2>3, MemberCommitIInv, OtherGrantIInv DEF MemberNext
  <1>3. CASE ClockNext
    BY <1>3, OtherGrantIInv, AskRowIInv DEF ClockNext
  <1>4. CASE SweepNext
    BY <1>4, OtherGrantIInv, AutoDenyIInv DEF SweepNext
  <1>5. CASE UNCHANGED vars
    BY <1>5 DEF vars, IInv, TypeOK, DecisionsSound, TemporaryNeedsDecision,
                AutoDenialIsOnce, Pending
  <1> QED
    BY <1>1, <1>2, <1>3, <1>4, <1>5 DEF Next

LEMMA Invariant == Spec => []IInv
  BY InitIInv, StepIInv, PTL DEF Spec

\* Rows, handlers in flight and sweep snapshots keep their shapes.
THEOREM TempTypeCorrect == Spec => []TypeOK
  <1>1. IInv => TypeOK
    BY DEF IInv
  <1> QED
    BY <1>1, Invariant, PTL

\* A temporary role always has a decided request of its holder behind it.
THEOREM NoTemporaryRoleUndecided == Spec => []TemporaryNeedsDecision
  <1>1. IInv => TemporaryNeedsDecision
    BY DEF IInv
  <1> QED
    BY <1>1, Invariant, PTL

\* However many sweeps overlap with decisions, no request is auto-denied
\* twice or after an administrator decided it.
THEOREM AutoDeniedOnce == Spec => []AutoDenialIsOnce
  <1>1. IInv => AutoDenialIsOnce
    BY DEF IInv
  <1> QED
    BY <1>1, Invariant, PTL

-----------------------------------------------------------------------------
(* What the rules that the code breaks come down to *)

\* A handler slot changes when a handler ends, or with a read that changes no
\* row; the read is the check that admits the work.
LEMMA NewWork ==
    ASSUME IInv, [Next]_vars, NEW s \in Slots, slot'[s] # slot[s]
    PROVE  \/ slot'[s] = Idle
           \/ /\ UNCHANGED <<grants, asks>>
              /\ \/ /\ slot'[s].op = "decide"
                    /\ slot'[s].phase = "checked"
                    /\ Pending(slot'[s].ask)
                 \/ /\ slot[s].op = "decide" /\ slot'[s].op = "decide"
                    /\ slot'[s].ask = slot[s].ask
                    /\ slot'[s].baseline = Baseline(grants[asks[slot[s].ask].by])
                 \/ slot'[s].op = "add"
                 \/ /\ slot'[s].op = "patch"
                    /\ slot'[s].role # "manager" => NotLastManager(slot'[s].target)
                 \/ /\ slot'[s].op = "remove"
                    /\ NotLastManager(slot'[s].target)
  <1>a. slot \in [Slots -> Work]
    BY DEF IInv, TypeOK
  <1>1. ASSUME NEW t \in Slots, NEW a \in Asks, NEW verdict, NEW role, NEW timed,
               CheckDecide(t, a, verdict, role, timed)
        PROVE  /\ UNCHANGED <<grants, asks>>
               /\ slot'[s].op = "decide"
               /\ slot'[s].phase = "checked"
               /\ Pending(slot'[s].ask)
    BY <1>a, <1>1 DEF CheckDecide
  <1>2. ASSUME NEW t \in Slots, BeginDecide(t)
        PROVE  /\ UNCHANGED <<grants, asks>>
               /\ slot[s].op = "decide" /\ slot'[s].op = "decide"
               /\ slot'[s].ask = slot[s].ask
               /\ slot'[s].baseline = Baseline(grants[asks[slot[s].ask].by])
    <2>1. s = t
      BY <1>a, <1>2 DEF BeginDecide
    <2>2. slot[s].op = "decide"
      BY <1>2, <2>1 DEF BeginDecide
    <2>3. slot[s] \in [op : {"decide"}, phase : {"checked", "writing"}, ask : Asks,
                       verdict : {"approved", "denied"}, role : Role, timed : BOOLEAN,
                       baseline : Role \cup {NoRole}]
      BY <1>a, <2>2, WorkShape
    <2> QED
      BY <1>a, <1>2, <2>1, <2>2, <2>3 DEF BeginDecide
  <1>3. ASSUME NEW t \in Slots, CommitDecide(t) \/ CommitAdd(t) \/ CommitPatch(t) \/ CommitRemove(t)
        PROVE  slot'[s] = Idle
    BY <1>a, <1>3 DEF CommitDecide, CommitAdd, CommitPatch, CommitRemove, Finish
  <1>4. ASSUME NEW t \in Slots, NEW by \in Users, NEW target \in Users, NEW role \in Roles,
               CheckAdd(t, by, target, role)
        PROVE  UNCHANGED <<grants, asks>> /\ slot'[s].op = "add"
    BY <1>a, <1>4 DEF CheckAdd, Start
  <1>5. ASSUME NEW t \in Slots, NEW by \in Users, NEW target \in Users, NEW role \in Roles,
               CheckPatch(t, by, target, role)
        PROVE  /\ UNCHANGED <<grants, asks>>
               /\ slot'[s].op = "patch"
               /\ slot'[s].role # "manager" => NotLastManager(slot'[s].target)
    BY <1>a, <1>5 DEF CheckPatch, Start
  <1>6. ASSUME NEW t \in Slots, NEW by \in Users, NEW target \in Users,
               CheckRemove(t, by, target)
        PROVE  /\ UNCHANGED <<grants, asks>>
               /\ slot'[s].op = "remove"
               /\ NotLastManager(slot'[s].target)
    BY <1>a, <1>6 DEF CheckRemove, Start
  <1>7. ~UNCHANGED slot
    OBVIOUS
  <1>8. ~ClockNext /\ ~SweepNext /\ ~UNCHANGED vars
    BY <1>7 DEF ClockNext, SweepNext, Lapse, GoStale, SweepRead, SweepWrite, SweepFail, AutoDeny, vars
  <1>9. /\ ~\E u \in Users : LeaveOrg(u)
        /\ ~\E u \in Users, a \in Asks, timed \in BOOLEAN : CreateAsk(u, a, timed)
    BY <1>7 DEF LeaveOrg, CreateAsk
  <1>10. CASE AskNext
    BY <1>1, <1>2, <1>3, <1>9, <1>10 DEF AskNext
  <1>11. CASE MemberNext
    BY <1>3, <1>4, <1>5, <1>6, <1>9, <1>11 DEF MemberNext
  <1> QED
    BY <1>8, <1>10, <1>11 DEF Next

\* A removal or a demotion under way leaves a manager behind.
DemotionsChecked ==
    \A s \in Slots : slot[s].op = "remove" \/ (slot[s].op = "patch" /\ slot[s].role # "manager")
                       => NotLastManager(slot[s].target)

LEMMA DemotionsStep ==
    ASSUME IInv, DemotionsChecked, [Next]_vars, [ManagersHold]_vars
    PROVE  DemotionsChecked'
  <1> SUFFICES ASSUME NEW s \in Slots,
                      \/ slot'[s].op = "remove"
                      \/ slot'[s].op = "patch" /\ slot'[s].role # "manager"
               PROVE  NotLastManager(slot[s].target)'
    BY DEF DemotionsChecked
  <1>1. CASE slot'[s] = slot[s]
    <2>1. Managers' = Managers
      BY <1>1 DEF ManagersHold, vars, Managers
    <2> QED
      BY <1>1, <2>1 DEF DemotionsChecked, NotLastManager
  <1>2. CASE slot'[s] # slot[s]
    <2>1. UNCHANGED grants /\ NotLastManager(slot'[s].target)
      BY <1>2, NewWork DEF Idle
    <2> QED
      BY <2>1 DEF NotLastManager, Managers
  <1> QED
    BY <1>1, <1>2

\* The last manager goes only when who is a manager changes between the count
\* and the commit.
THEOREM LastManagerGoesByRace == Spec /\ [][ManagersHold]_vars => LastManagerStays
  <1>1. Init => DemotionsChecked
    BY DEF Init, DemotionsChecked, Idle
  <1>2. IInv /\ DemotionsChecked /\ [Next]_vars /\ [ManagersHold]_vars => DemotionsChecked'
    BY DemotionsStep
  <1>3. IInv /\ DemotionsChecked
          => [(\E s \in Slots : CommitPatch(s) \/ CommitRemove(s)) =>
                (Managers # {} => Managers' # {})]_vars
    <2> SUFFICES ASSUME IInv, DemotionsChecked, NEW s \in Slots,
                        CommitPatch(s) \/ CommitRemove(s), Managers # {}
                 PROVE  Managers' # {}
      OBVIOUS
    <2> DEFINE target == slot[s].target
    <2>a. grants \in [Users -> Grant] /\ slot[s] \in Work
      BY DEF IInv, TypeOK
    <2>1. target \in Users
      BY <2>a, WorkShape DEF CommitPatch, CommitRemove, Finish
    <2>2. Managers \ {target} \subseteq Managers'
      BY <2>a, <2>1 DEF CommitPatch, CommitRemove, Managers
    <2>3. CASE target \notin Managers
      BY <2>2, <2>3
    <2>4. CASE CommitPatch(s) /\ slot[s].role = "manager" /\ target \in Managers
      <3>1. HasRow(target)
        BY <2>4 DEF Managers, HasRow, NoGrant, Permanent, NoRole
      <3>2. target \in Managers'
        BY <2>a, <2>1, <2>4, <3>1 DEF CommitPatch, Managers, Grant
      <3> QED
        BY <3>2
    <2>5. CASE ~(CommitPatch(s) /\ slot[s].role = "manager") /\ target \in Managers
      <3>1. Cardinality(Managers) > 1
        BY <2>5 DEF DemotionsChecked, NotLastManager, CommitPatch, CommitRemove, Finish
      <3>2. Cardinality({target}) = 1
        BY FS_Singleton
      <3>3. Managers # {target}
        <4> HIDE DEF target
        <4> QED
          BY <3>1, <3>2
      <3> QED
        BY <2>2, <2>5, <3>3
    <2> QED
      BY <2>3, <2>4, <2>5
  <1> QED
    BY Invariant, <1>1, <1>2, <1>3, PTL DEF Spec, LastManagerStays

\* A decision under way is about a pending request.
DecisionsPending == \A s \in Slots : slot[s].op = "decide" => Pending(slot[s].ask)

LEMMA RequestSteps ==
    ASSUME IInv, [Next]_vars, NEW a \in Asks, asks[a] # NoAsk
    PROVE  /\ asks'[a].by = asks[a].by
           /\ \/ asks'[a].state = asks[a].state
              \/ Pending(a)
              \/ \E s \in Slots : CommitDecide(s) /\ slot[s].ask = a
  <1>a. asks \in [Asks -> Ask \cup {NoAsk}] /\ asks[a] \in Ask
    BY AskShape DEF IInv, TypeOK
  <1>1. CASE UNCHANGED asks
    BY <1>1
  <1>2. ASSUME NEW s \in Slots, CommitDecide(s)
        PROVE  /\ asks'[a].by = asks[a].by
               /\ asks'[a].state = asks[a].state \/ slot[s].ask = a
    BY <1>a, <1>2 DEF CommitDecide, Ask
  <1>3. ASSUME NEW b \in Asks,
               GoStale(b) \/ \E u \in Users, timed \in BOOLEAN : CreateAsk(u, b, timed)
        PROVE  asks'[a].by = asks[a].by /\ asks'[a].state = asks[a].state
    BY <1>a, <1>3 DEF GoStale, CreateAsk, Ask
  <1>4. CASE AutoDeny
    BY <1>a, <1>4 DEF AutoDeny, ToAutoDeny, Ask
  <1>5. CASE MemberNext
    BY <1>1, <1>5 DEF MemberNext, CheckAdd, CheckPatch, CheckRemove, Start, CommitAdd,
                      CommitPatch, CommitRemove, Finish, LeaveOrg
  <1>6. CASE AskNext
    BY <1>1, <1>2, <1>3, <1>6 DEF AskNext, CheckDecide, BeginDecide
  <1>7. CASE ClockNext
    BY <1>1, <1>3, <1>7 DEF ClockNext, Lapse
  <1>8. CASE SweepNext
    BY <1>1, <1>4, <1>8 DEF SweepNext, SweepRead, SweepWrite, SweepFail
  <1> QED
    BY <1>1, <1>5, <1>6, <1>7, <1>8 DEF Next, vars

LEMMA DecisionsStep ==
    ASSUME IInv, IInv', DecisionsPending, [Next]_vars, [VerdictsHold]_vars
    PROVE  DecisionsPending'
  <1> SUFFICES ASSUME NEW s \in Slots, slot'[s].op = "decide"
               PROVE  Pending(slot[s].ask)'
    BY DEF DecisionsPending
  <1>1. CASE slot'[s] = slot[s]
    <2>1. asks'[slot[s].ask].state = asks[slot[s].ask].state
      BY <1>1 DEF VerdictsHold, vars, Idle
    <2>2. asks'[slot[s].ask] # NoAsk
      BY <1>1 DEF IInv, DecisionsSound
    <2> QED
      BY <1>1, <2>1, <2>2 DEF DecisionsPending, Pending
  <1>2. CASE slot'[s] # slot[s]
    <2>1. UNCHANGED asks /\ Pending(slot'[s].ask)
      BY <1>2, NewWork DEF Idle, DecisionsPending
    <2> QED
      BY <2>1 DEF Pending
  <1> QED
    BY <1>1, <1>2

\* A decided request changes only when two decisions both found it pending,
\* or the sweeper denied it between the check of a decision and its UPDATE.
THEOREM RedecisionIsARace == Spec /\ [][VerdictsHold]_vars => DecidedOnce
  <1>1. Init => DecisionsPending
    BY DEF Init, DecisionsPending, Idle
  <1>2. IInv /\ IInv' /\ DecisionsPending /\ [Next]_vars /\ [VerdictsHold]_vars
          => DecisionsPending'
    BY DecisionsStep
  <1>3. IInv /\ DecisionsPending /\ [Next]_vars
          => [\A a \in Asks : asks[a] # NoAsk /\ ~Pending(a) => asks'[a].state = asks[a].state]_vars
    <2> SUFFICES ASSUME IInv, DecisionsPending, [Next]_vars,
                        NEW a \in Asks, asks[a] # NoAsk, ~Pending(a)
                 PROVE  asks'[a].state = asks[a].state
      OBVIOUS
    <2>1. \A s \in Slots : CommitDecide(s) => slot[s].ask # a
      BY DEF CommitDecide, DecisionsPending
    <2> QED
      BY <2>1, RequestSteps
  <1> QED
    BY Invariant, <1>1, <1>2, <1>3, PTL DEF Spec, DecidedOnce

\* What can happen to a member row.
LEMMA RowSteps ==
    ASSUME IInv, [Next]_vars, NEW u \in Users, grants'[u] # grants[u]
    PROVE  \/ grants'[u] = NoGrant
           \/ \E r \in Role : grants'[u] = Permanent(r)
           \/ HasRow(u) /\ \E r \in Role : grants'[u] = [grants[u] EXCEPT !.role = r]
           \/ Temporary(grants[u]) /\ grants'[u] = [grants[u] EXCEPT !.expires = "past"]
           \/ \E s \in Slots : /\ CommitDecide(s)
                               /\ slot[s].verdict = "approved"
                               /\ asks[slot[s].ask].by = u
                               /\ grants'[u] = GrantOf(slot[s])
  <1>a. /\ grants \in [Users -> Grant]
        /\ slot \in [Slots -> Work]
        /\ sweep \in [Sweepers -> SUBSET ExpiredRow]
    BY DEF IInv, TypeOK
  <1>1. ASSUME NEW s \in Slots, CommitDecide(s)
        PROVE  /\ slot[s].verdict = "approved"
               /\ asks[slot[s].ask].by = u
               /\ grants'[u] = GrantOf(slot[s])
    <2>1. slot[s].verdict \in {"approved", "denied"}
      BY <1>a, <1>1, WorkShape DEF CommitDecide
    <2> QED
      BY <1>a, <1>1, <2>1 DEF CommitDecide
  <1>2. ASSUME NEW s \in Slots, CommitAdd(s)
        PROVE  \E r \in Role : grants'[u] = Permanent(r)
    <2>1. slot[s].role \in Role
      BY <1>a, <1>2, WorkShape DEF CommitAdd, Finish
    <2> QED
      BY <1>a, <1>2, <2>1 DEF CommitAdd
  <1>3. ASSUME NEW s \in Slots, CommitPatch(s)
        PROVE  HasRow(u) /\ \E r \in Role : grants'[u] = [grants[u] EXCEPT !.role = r]
    <2>1. slot[s].role \in Role
      BY <1>a, <1>3, WorkShape DEF CommitPatch, Finish
    <2> QED
      BY <1>a, <1>3, <2>1 DEF CommitPatch
  <1>4. ASSUME (\E s \in Slots : CommitRemove(s)) \/ (\E v \in Users : LeaveOrg(v))
        PROVE  grants'[u] = NoGrant
    BY <1>a, <1>4 DEF CommitRemove, LeaveOrg
  <1>5. ASSUME NEW v \in Users, Lapse(v)
        PROVE  Temporary(grants[u]) /\ grants'[u] = [grants[u] EXCEPT !.expires = "past"]
    BY <1>a, <1>5 DEF Lapse, Temporary
  <1>6. ASSUME NEW w \in Sweepers, SweepWrite(w)
        PROVE  grants'[u] = NoGrant \/ \E r \in Role : grants'[u] = Permanent(r)
    <2>1. \E row \in sweep[w] : row.user = u
      BY <1>6 DEF SweepWrite
    <2>2. PICK row \in sweep[w] : grants'[u] = Reverted(u, row)
      BY <1>6, <2>1 DEF SweepWrite
    <2>3. row.original \in Role \cup {NoRole}
      BY <1>a DEF ExpiredRow
    <2> QED
      BY <2>2, <2>3 DEF Reverted
  <1>7. ~UNCHANGED grants
    OBVIOUS
  <1>8. CASE AskNext
    BY <1>1, <1>7, <1>8 DEF AskNext, CreateAsk, CheckDecide, BeginDecide
  <1>9. CASE MemberNext
    BY <1>2, <1>3, <1>4, <1>7, <1>9 DEF MemberNext, CheckAdd, CheckPatch, CheckRemove, Start
  <1>10. CASE ClockNext
    BY <1>5, <1>7, <1>10 DEF ClockNext, GoStale
  <1>11. CASE SweepNext
    BY <1>6, <1>7, <1>11 DEF SweepNext, SweepRead, SweepFail, AutoDeny
  <1> QED
    BY <1>7, <1>8, <1>9, <1>10, <1>11 DEF Next, vars

\* Whoever holds a temporary role has one to return to, and a decision under
\* way has read what is there.
BaselinesTrue ==
    /\ \A u \in Users : Temporary(grants[u]) => grants[u].original # NoRole
    /\ \A u \in Users : HasRow(u) => grants[u].role # NoRole
    /\ \A s \in Slots : slot[s].op = "decide" /\ slot[s].phase = "writing"
         => slot[s].baseline = Baseline(grants[asks[slot[s].ask].by])

LEMMA BaselinesStep ==
    ASSUME IInv, BaselinesTrue, [Next]_vars, [BaselinesHold /\ MembersOnly]_vars
    PROVE  BaselinesTrue'
  <1>a. grants \in [Users -> Grant] /\ slot \in [Slots -> Work] /\ NoRole \notin Role
    BY DEF IInv, TypeOK, Role, NoRole
  <1>1. ASSUME NEW u \in Users
        PROVE  /\ Temporary(grants'[u]) => grants'[u].original # NoRole
               /\ HasRow(u)' => grants'[u].role # NoRole
    <2>1. CASE grants'[u] = grants[u]
      BY <2>1 DEF BaselinesTrue, HasRow
    <2>2. ASSUME NEW r \in Role \cup {NoRole}, grants'[u] = Permanent(r)
          PROVE  /\ Temporary(grants'[u]) => grants'[u].original # NoRole
                 /\ HasRow(u)' => grants'[u].role # NoRole
      BY <1>a, <2>2 DEF HasRow, NoGrant, Permanent, Temporary
    <2>3. ASSUME HasRow(u), NEW r \in Role, grants'[u] = [grants[u] EXCEPT !.role = r]
          PROVE  /\ Temporary(grants'[u]) => grants'[u].original # NoRole
                 /\ HasRow(u)' => grants'[u].role # NoRole
      BY <1>a, <2>3 DEF BaselinesTrue, Temporary, Grant
    <2>4. CASE Temporary(grants[u]) /\ grants'[u] = [grants[u] EXCEPT !.expires = "past"]
      <3>1. HasRow(u)
        BY <2>4 DEF HasRow, NoGrant, Permanent, Temporary
      <3> QED
        BY <1>a, <2>4, <3>1 DEF BaselinesTrue, Grant
    <2>5. ASSUME NEW s \in Slots, CommitDecide(s), slot[s].verdict = "approved",
                 asks[slot[s].ask].by = u, grants'[u] = GrantOf(slot[s]), grants'[u] # grants[u]
          PROVE  /\ Temporary(grants'[u]) => grants'[u].original # NoRole
                 /\ HasRow(u)' => grants'[u].role # NoRole
      <3>1. HasRow(u)
        BY <2>5 DEF MembersOnly, vars
      <3>2. slot[s].baseline = Baseline(grants[u])
        BY <2>5 DEF BaselinesTrue, CommitDecide
      <3>3. slot[s].role \in Role
        BY <1>a, <2>5, WorkShape DEF CommitDecide
      <3> QED
        BY <1>a, <2>5, <3>1, <3>2, <3>3 DEF BaselinesTrue, Baseline, GrantOf
    <2> QED
      BY <2>1, <2>2, <2>3, <2>4, <2>5, RowSteps DEF NoGrant
  <1>2. ASSUME NEW s \in Slots, slot'[s].op = "decide", slot'[s].phase = "writing"
        PROVE  slot'[s].baseline = Baseline(grants'[asks'[slot'[s].ask].by])
    <2>1. CASE slot'[s] = slot[s]
      <3>1. slot[s].ask \in Asks /\ asks[slot[s].ask] # NoAsk
        BY <1>a, <1>2, <2>1, WorkShape DEF IInv, DecisionsSound
      <3>2. asks'[slot[s].ask].by = asks[slot[s].ask].by
        BY <3>1, RequestSteps
      <3>3. grants'[asks[slot[s].ask].by] = grants[asks[slot[s].ask].by]
        BY <1>2, <2>1 DEF BaselinesHold, vars
      <3> QED
        BY <1>2, <2>1, <3>2, <3>3 DEF BaselinesTrue
    <2>2. CASE slot'[s] # slot[s]
      BY <1>2, <2>2, NewWork DEF Idle
    <2> QED
      BY <2>1, <2>2
  <1> QED
    BY <1>1, <1>2 DEF BaselinesTrue

\* The role to return to is lost in two ways only: the role went to somebody
\* who had none to return to, or the row changed under the decision.
THEOREM BaselineLossHasTwoCauses ==
    Spec /\ [][BaselinesHold /\ MembersOnly]_vars => ReapprovalKeepsBaseline
  <1>1. Init => BaselinesTrue
    <2> SUFFICES ASSUME Init PROVE BaselinesTrue
      OBVIOUS
    <2>1. grants \in [Users -> {Permanent(r) : r \in {"manager", "viewer", NoRole}}]
      BY DEF Init
    <2>2. \A u \in Users : ~Temporary(grants[u]) /\ (HasRow(u) => grants[u].role # NoRole)
      BY <2>1 DEF Permanent, Temporary, HasRow, NoGrant
    <2> QED
      BY <2>2 DEF Init, BaselinesTrue, Idle
  <1>2. IInv /\ BaselinesTrue /\ [Next]_vars /\ [BaselinesHold /\ MembersOnly]_vars
          => BaselinesTrue'
    BY BaselinesStep
  <1>3. IInv /\ BaselinesTrue /\ [Next]_vars
          => [\A u \in Users : Temporary(grants[u]) /\ Temporary(grants'[u])
                => grants'[u].original = grants[u].original]_vars
    <2> SUFFICES ASSUME IInv, BaselinesTrue, [Next]_vars,
                        NEW u \in Users, Temporary(grants[u]), Temporary(grants'[u]),
                        grants'[u] # grants[u]
                 PROVE  grants'[u].original = grants[u].original
      OBVIOUS
    <2>a. grants[u] \in Grant
      BY DEF IInv, TypeOK
    <2>1. grants'[u] # NoGrant /\ \A r \in Role : grants'[u] # Permanent(r)
      BY DEF NoGrant, Permanent, Temporary
    <2>2. ASSUME NEW r \in Role, grants'[u] = [grants[u] EXCEPT !.role = r]
          PROVE  grants'[u].original = grants[u].original
      BY <2>a, <2>2 DEF Grant
    <2>3. CASE grants'[u] = [grants[u] EXCEPT !.expires = "past"]
      BY <2>a, <2>3 DEF Grant
    <2>4. ASSUME NEW s \in Slots, CommitDecide(s), asks[slot[s].ask].by = u,
                 grants'[u] = GrantOf(slot[s])
          PROVE  grants'[u].original = grants[u].original
      <3>1. slot[s].baseline = Baseline(grants[u])
        BY <2>4 DEF BaselinesTrue, CommitDecide
      <3>2. grants[u].original # NoRole
        BY DEF BaselinesTrue
      <3> QED
        BY <2>4, <3>1, <3>2 DEF Baseline, GrantOf
    <2> QED
      BY <2>1, <2>2, <2>3, <2>4, RowSteps
  <1> QED
    BY Invariant, <1>1, <1>2, <1>3, PTL DEF Spec, ReapprovalKeepsBaseline

\* The rows of a sweep under way are expired.
SweepsTrue ==
    \A w \in Sweepers : \A row \in sweep[w] : grants[row.user].expires = "past"

LEMMA SweepsStep ==
    ASSUME IInv, SweepsTrue, [Next]_vars, [SweptRowsHold]_vars
    PROVE  SweepsTrue'
  <1> SUFFICES ASSUME NEW w \in Sweepers, NEW row \in sweep'[w]
               PROVE  grants'[row.user].expires = "past"
    BY DEF SweepsTrue
  <1>a. sweep \in [Sweepers -> SUBSET ExpiredRow]
    BY DEF IInv, TypeOK
  <1>1. CASE sweep'[w] = sweep[w]
    BY <1>1 DEF SweptRowsHold, SweepsTrue, vars
  <1>2. CASE sweep'[w] # sweep[w]
    <2>1. \E v \in Sweepers : SweepRead(v) \/ SweepWrite(v) \/ SweepFail(v)
      BY <1>2 DEF Next, vars, SweepNext, AutoDeny, ClockNext, Lapse, GoStale,
                  AskNext, CreateAsk, CheckDecide, BeginDecide, CommitDecide,
                  MemberNext, CheckAdd, CheckPatch, CheckRemove, Start,
                  CommitAdd, CommitPatch, CommitRemove, Finish, LeaveOrg
    <2>2. PICK v \in Sweepers : SweepRead(v) /\ v = w
      BY <1>a, <1>2, <2>1 DEF SweepRead, SweepWrite, SweepFail
    <2>3. /\ UNCHANGED grants
          /\ sweep'[w] = {[user |-> u, original |-> grants[u].original] : u \in Expired}
      BY <1>a, <2>2 DEF SweepRead
    <2>4. PICK u \in Expired : row = [user |-> u, original |-> grants[u].original]
      BY <2>3
    <2> QED
      BY <2>3, <2>4 DEF Expired
  <1> QED
    BY <1>1, <1>2

\* The sweeper takes a role that has not expired only when the row was written
\* between its read and its write.
THEOREM SweepErrsByRace == Spec /\ [][SweptRowsHold]_vars => SweepTakesOnlyExpired
  <1>1. Init => SweepsTrue
    BY DEF Init, SweepsTrue
  <1>2. IInv /\ SweepsTrue /\ [Next]_vars /\ [SweptRowsHold]_vars => SweepsTrue'
    BY SweepsStep
  <1>3. IInv /\ SweepsTrue
          => [(\E w \in Sweepers : SweepWrite(w)) =>
                \A u \in Users : grants[u].expires # "past" => grants'[u] = grants[u]]_vars
    BY DEF SweepsTrue, SweepWrite
  <1> QED
    BY Invariant, <1>1, <1>2, <1>3, PTL DEF Spec, SweepTakesOnlyExpired
=============================================================================
