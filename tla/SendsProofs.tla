---------------------------- MODULE SendsProofs ----------------------------
(***************************************************************************)
(* Proofs about Sends for any finite set of requests and any max_views.    *)
(*                                                                         *)
(* The budget cannot be shown from the answers alone: what ties them to    *)
(* view_count is the set of claims, one per view (Accounted).              *)
(***************************************************************************)
EXTENDS Sends, FiniteSetTheorems, TLAPS

\* A request is past its claim exactly when it has one, and past its audit
\* only when it has one.
Ledger ==
    \A r \in Requests :
        /\ stage[r] \in {"claimed", "audited", "answered"} => r \in claims
        /\ stage[r] \in {"new", "checked"} => r \notin claims
        /\ stage[r] \in {"audited", "answered"} => r \in audits

Accounted == IsFiniteSet(claims) /\ Cardinality(claims) = viewCount

\* No reveal gets past the checks in the grace second.
PastGrace ==
    /\ viewCount > 0 => clock # "grace"
    /\ \A r \in Requests : stage[r] = "checked" => clock # "grace"

IInv == TypeOK /\ Ledger /\ Accounted /\ PastGrace

LEMMA InitIInv == Init => IInv
  <1> SUFFICES ASSUME Init PROVE IInv
    OBVIOUS
  <1>1. IsFiniteSet(claims) /\ Cardinality(claims) = 0
    BY FS_EmptySet DEF Init
  <1>2. TypeOK
    <2>1. 0 \in 0..MaxViews
      BY SendAssumption
    <2>2. stage \in [Requests -> Stage]
      BY DEF Init, Stage
    <2> QED
      BY <2>1, <2>2 DEF Init, TypeOK, BurnStage
  <1>3. Ledger /\ PastGrace
    <2>1. Ledger
      BY DEF Init, Ledger
    <2>2. PastGrace
      BY DEF Init, PastGrace
    <2> QED
      BY <2>1, <2>2
  <1> QED
    BY <1>1, <1>2, <1>3 DEF Init, IInv, Accounted

LEMMA StepIInv == IInv /\ [Next]_vars => IInv'
  <1> SUFFICES ASSUME IInv, [Next]_vars PROVE IInv'
    OBVIOUS
  <1> USE DEF IInv, TypeOK, Stage, BurnStage
  <1>1. CASE Tick
    BY <1>1 DEF Tick, Ledger, Accounted, PastGrace
  <1>2. ASSUME NEW r \in Requests, ReadSend(r)
        PROVE  IInv'
    <2>1. TypeOK'
      BY <1>2 DEF ReadSend
    <2>2. Ledger' /\ Accounted'
      BY <1>2 DEF ReadSend, Ledger, Accounted
    <2>3. PastGrace'
      BY <1>2 DEF ReadSend, PastGrace, TooEarly
    <2> QED
      BY <2>1, <2>2, <2>3
  <1>3. ASSUME NEW r \in Requests, Claim(r)
        PROVE  IInv'
    <2>1. CASE Claimable
      <3>1. TypeOK'
        BY <1>3, <2>1, SendAssumption DEF Claim, Claimable
      <3>2. r \notin claims /\ claims' = claims \cup {r} /\ viewCount' = viewCount + 1
        BY <1>3, <2>1 DEF Claim, Ledger
      <3>3. Accounted'
        BY <3>2, FS_AddElement DEF Accounted
      <3>4. Ledger'
        BY <1>3, <2>1 DEF Claim, Ledger
      <3>5. PastGrace'
        BY <1>3, <2>1 DEF Claim, PastGrace
      <3> QED
        BY <3>1, <3>3, <3>4, <3>5
    <2>2. CASE ~Claimable
      BY <1>3, <2>2 DEF Claim, Ledger, Accounted, PastGrace
    <2> QED
      BY <2>1, <2>2
  <1>4. ASSUME NEW r \in Requests, AuditView(r) \/ FailAudit(r)
        PROVE  IInv'
    BY <1>4 DEF AuditView, FailAudit, Ledger, Accounted, PastGrace
  <1>5. ASSUME NEW r \in Requests, Answer(r)
        PROVE  IInv'
    BY <1>5 DEF Answer, Ledger, Accounted, PastGrace
  <1>6. ASSUME NEW b \in Burns, ReadBurn(b) \/ CommitBurn(b)
        PROVE  IInv'
    BY <1>6 DEF ReadBurn, CommitBurn, Ledger, Accounted, PastGrace
  <1>7. CASE Crash
    BY <1>7 DEF Crash, Ledger, Accounted, PastGrace
  <1>8. CASE UNCHANGED vars
    BY <1>8 DEF vars, Ledger, Accounted, PastGrace
  <1> QED
    BY <1>1, <1>2, <1>3, <1>4, <1>5, <1>6, <1>7, <1>8 DEF Next

LEMMA BudgetFromLedger == IInv => ViewsWithinBudget
  <1> SUFFICES ASSUME IInv PROVE Cardinality(Answered) <= MaxViews
    BY DEF ViewsWithinBudget
  <1>1. Answered \subseteq claims
    BY DEF Answered, IInv, Ledger
  <1>2. Cardinality(Answered) <= Cardinality(claims)
    BY <1>1, FS_Subset DEF IInv, Accounted
  <1>3. Cardinality(claims) <= MaxViews
    BY SendAssumption DEF IInv, Accounted, TypeOK
  <1>4. Cardinality(Answered) \in Nat /\ Cardinality(claims) \in Nat
    BY <1>1, FS_Subset, FS_CardinalityType DEF IInv, Accounted
  <1> QED
    BY <1>2, <1>3, <1>4, SendAssumption

\* No double spend: at most max_views answers carry the secret, whatever the
\* interleaving of reveals, burns and crashes.
THEOREM NoDoubleSpend == Spec => []ViewsWithinBudget
  BY InitIInv, StepIInv, BudgetFromLedger, PTL DEF Spec

\* The rows and requests keep their types, and view_count its bound.
THEOREM SendsTypeCorrect == Spec => []TypeOK
  <1>1. IInv => TypeOK
    BY DEF IInv
  <1> QED
    BY InitIInv, StepIInv, <1>1, PTL DEF Spec

\* Every answer was audited first.
THEOREM AnswersAudited == Spec => []AnsweredIsAudited
  <1>1. IInv => AnsweredIsAudited
    BY DEF IInv, Ledger, AnsweredIsAudited, Answered
  <1> QED
    BY InitIInv, StepIInv, <1>1, PTL DEF Spec

\* The preview guard holds although it is decided on an earlier snapshot.
THEOREM GraceRespected == Spec => []NoViewInGrace
  <1>1. IInv => NoViewInGrace
    BY DEF IInv, PastGrace, NoViewInGrace
  <1> QED
    BY InitIInv, StepIInv, <1>1, PTL DEF Spec

\* Writing burned_at on every view never takes a burn back.
THEOREM BurnsAreFinal == Spec => BurnIsFinal
  <1>1. IInv /\ [Next]_vars => [burned => burned']_vars
    <2> SUFFICES ASSUME IInv, Next, burned PROVE burned'
      BY DEF vars
    <2> USE DEF IInv, TypeOK
    <2>1. CASE \E r \in Requests : Claim(r)
      BY <2>1 DEF Claim, Claimable
    <2>2. CASE \E r \in Requests : ReadSend(r) \/ AuditView(r) \/ FailAudit(r) \/ Answer(r)
      BY <2>2 DEF ReadSend, AuditView, FailAudit, Answer
    <2>3. CASE Tick \/ Crash \/ \E b \in Burns : ReadBurn(b) \/ CommitBurn(b)
      BY <2>3 DEF Tick, Crash, ReadBurn, CommitBurn
    <2> QED
      BY <2>1, <2>2, <2>3 DEF Next
  <1> QED
    BY InitIInv, StepIInv, <1>1, PTL DEF Spec, BurnIsFinal

\* A burned or expired send is never claimed, however old the snapshot that
\* let the request in.
THEOREM NoViewsAfterTheEnd == Spec => NoViewAfterEnd
  <1>1. IInv /\ [Next]_vars => [burned \/ clock = "expired" => viewCount' = viewCount]_vars
    <2> SUFFICES ASSUME Next, burned \/ clock = "expired" PROVE viewCount' = viewCount
      BY DEF vars
    <2>1. CASE \E r \in Requests : Claim(r)
      BY <2>1 DEF Claim, Claimable
    <2>2. CASE \E r \in Requests : ReadSend(r) \/ AuditView(r) \/ FailAudit(r) \/ Answer(r)
      BY <2>2 DEF ReadSend, AuditView, FailAudit, Answer
    <2>3. CASE Tick \/ Crash \/ \E b \in Burns : ReadBurn(b) \/ CommitBurn(b)
      BY <2>3 DEF Tick, Crash, ReadBurn, CommitBurn
    <2> QED
      BY <2>1, <2>2, <2>3 DEF Next
  <1> QED
    BY InitIInv, StepIInv, <1>1, PTL DEF Spec, NoViewAfterEnd

-----------------------------------------------------------------------------
(* What the rule that the code breaks comes down to *)

BurnsFresh == \A b \in Burns : burnStage[b] = "checked" => ~burned

LEMMA BurnsFreshStep ==
    ASSUME IInv, BurnsFresh, [Next]_vars, [BurnsHold]_vars
    PROVE  BurnsFresh'
  <1> SUFFICES ASSUME NEW b \in Burns, burnStage'[b] = "checked" PROVE ~burned'
    BY DEF BurnsFresh
  <1>a. burnStage \in [Burns -> BurnStage]
    BY DEF IInv, TypeOK
  <1>1. CASE burnStage[b] = "checked"
    BY <1>1 DEF BurnsHold, BurnsFresh, vars
  <1>2. CASE burnStage[b] # "checked"
    <2>1. PICK c \in Burns : ReadBurn(c)
      BY <1>a, <1>2 DEF Next, Tick, ReadSend, Claim, AuditView, FailAudit, Answer, CommitBurn,
                        Crash, vars
    <2> QED
      BY <1>a, <1>2, <2>1 DEF ReadBurn
  <1> QED
    BY <1>1, <1>2

\* A second burn is recorded only when the send ends, by its last view or by
\* another burn, between the check and the UPDATE of the first.
THEOREM ReburnIsARace == Spec /\ [][BurnsHold]_vars => ReburnIsNoOp
  <1>1. Init => BurnsFresh
    BY DEF Init, BurnsFresh
  <1>2. IInv /\ BurnsFresh /\ [Next]_vars /\ [BurnsHold]_vars => BurnsFresh'
    BY BurnsFreshStep
  <1>3. BurnsFresh /\ [Next]_vars => [burned => burnAudits' = burnAudits]_vars
    <2> SUFFICES ASSUME BurnsFresh, Next, burned PROVE burnAudits' = burnAudits
      BY DEF vars
    <2>1. \A b \in Burns : ~CommitBurn(b)
      BY DEF CommitBurn, BurnsFresh
    <2> QED
      BY <2>1 DEF Next, Tick, ReadSend, Claim, AuditView, FailAudit, Answer, ReadBurn, Crash
  <1> QED
    BY InitIInv, StepIInv, <1>1, <1>2, <1>3, PTL DEF Spec, ReburnIsNoOp

-----------------------------------------------------------------------------
(* Refinement *)

LEMMA PromiseStep ==
    ASSUME IInv, [Next]_vars
    PROVE  [Promise!Next]_(Promise!vars)
  <1> USE DEF IInv, TypeOK, Stage
  <1>1. CASE Tick
    BY <1>1 DEF Tick, Answered, Promise!Next, Promise!End, Promise!vars
  <1>2. ASSUME NEW r \in Requests, ReadSend(r)
        PROVE  UNCHANGED Promise!vars
    BY <1>2 DEF ReadSend, Answered, Promise!vars
  <1>3. ASSUME NEW r \in Requests, Claim(r)
        PROVE  [Promise!Next]_(Promise!vars)
    <2>1. Answered' = Answered
      BY <1>3 DEF Claim, Answered
    <2>2. CASE Claimable
      <3>1. /\ ~burned /\ clock # "expired" /\ clock' = clock
            /\ r \notin claims
            /\ claims' = claims \cup {r}
            /\ viewCount < MaxViews
            /\ viewCount' = viewCount + 1
            /\ burned' = (viewCount + 1 >= MaxViews)
            /\ audits' = audits
        BY <1>3, <2>2 DEF Claim, Claimable, Ledger
      <3>a. viewCount \in Nat /\ MaxViews \in Nat
        BY SendAssumption
      <3>b. MaxViews - viewCount > 0 /\ MaxViews - (viewCount + 1) = MaxViews - viewCount - 1
        BY <3>1, <3>a
      <3>c. (viewCount + 1 >= MaxViews) = (MaxViews - viewCount = 1)
        BY <3>1, <3>a
      <3>2. /\ MaxViews - viewCount > 0
            /\ MaxViews - viewCount' = MaxViews - viewCount - 1
        BY <3>1, <3>b
      <3>3. (burned' \/ clock' = "expired") = (MaxViews - viewCount = 1)
        BY <3>1, <3>c
      <3>4. Promise!Take(r)
        BY <2>1, <3>1, <3>2, <3>3, Zenon DEF Promise!Take
      <3> QED
        BY <3>4 DEF Promise!Next
    <2>3. CASE ~Claimable
      BY <1>3, <2>1, <2>3 DEF Claim, Promise!vars
    <2> QED
      BY <2>2, <2>3
  <1>4. ASSUME NEW r \in Requests, AuditView(r)
        PROVE  [Promise!Next]_(Promise!vars)
    <2>1. Answered' = Answered /\ r \in claims
      BY <1>4 DEF AuditView, Answered, Ledger
    <2>2. CASE r \in audits
      BY <1>4, <2>1, <2>2 DEF AuditView, Promise!vars
    <2>3. CASE r \notin audits
      BY <1>4, <2>1, <2>3 DEF AuditView, Promise!Record, Promise!Next
    <2> QED
      BY <2>2, <2>3
  <1>5. ASSUME NEW r \in Requests, FailAudit(r)
        PROVE  UNCHANGED Promise!vars
    BY <1>5 DEF FailAudit, Answered, Promise!vars
  <1>6. ASSUME NEW r \in Requests, Answer(r)
        PROVE  Promise!Give(r)
    <2>1. r \in audits /\ r \notin Answered /\ Answered' = Answered \cup {r}
      BY <1>6 DEF Answer, Answered, Ledger
    <2> QED
      BY <1>6, <2>1 DEF Answer, Promise!Give
  <1>7. ASSUME NEW b \in Burns, ReadBurn(b)
        PROVE  UNCHANGED Promise!vars
    BY <1>7 DEF ReadBurn, Answered, Promise!vars
  <1>8. ASSUME NEW b \in Burns, CommitBurn(b)
        PROVE  Promise!End
    BY <1>8 DEF CommitBurn, Answered, Promise!End
  <1>9. CASE Crash
    <2>1. Answered' = Answered
      BY <1>9 DEF Crash, Answered
    <2> QED
      BY <1>9, <2>1 DEF Crash, Promise!vars
  <1>10. CASE UNCHANGED vars
    BY <1>10 DEF vars, Answered, Promise!vars
  <1> QED
    BY <1>1, <1>2, <1>3, <1>4, <1>5, <1>6, <1>7, <1>8, <1>9, <1>10 DEF Next, Promise!Next

\* The handlers, the crashes and the clock together keep the promise of the
\* ledger: every step takes, records or gives one view, ends the send, or
\* changes nothing the sender could see.
THEOREM ImplementsLedger == Spec => PromiseSpec
  <1>1. Init => Promise!Init
    BY SendAssumption DEF Init, Answered, Promise!Init
  <1>2. IInv /\ [Next]_vars => [Promise!Next]_(Promise!vars)
    BY PromiseStep
  <1> QED
    BY InitIInv, StepIInv, <1>1, <1>2, PTL DEF Spec, PromiseSpec, Promise!Spec
=============================================================================
