-------------------------- MODULE ItemAccessProofs --------------------------
(***************************************************************************)
(* Proofs about ItemAccess for any users, teams, grants and requests.      *)
(*                                                                         *)
(* The two agreements hold in every state; they rest on BucketsAreGrants   *)
(* and on what Highest returns.  That no rank is minted is inductive once  *)
(* the requests that passed their checks are bounded as well: Asked.       *)
(***************************************************************************)
EXTENDS ItemAccess, TLAPS

Request == [act : Acts, level : {"item", "folder"}, to : Principals, role : Roles \cup {None}]

Asked ==
    \A u \in Sharers : \A r \in req[u] :
      /\ r.role <= Editor
      /\ r.role = None <=> r.act \in {"delete", "move"}

IInv == TypeOK /\ NoRankIsMinted /\ Asked

-----------------------------------------------------------------------------
(* The operators *)

LEMMA NoGrantNoRole == Highest({}) = None
  <1>1. {RoleNow(g) : g \in {}} \cup {None} = {None}
    OBVIOUS
  <1>2. Highest({}) \in {None}
    BY <1>1 DEF Highest
  <1> QED
    BY <1>2

LEMMA RoleIsARank ==
    ASSUME NEW g \in Grant
    PROVE  RoleNow(g) \in Ranks
  BY DEF Grant, RoleNow, Ranks, None, Viewer, Manager

\* The highest role is that of one of the grants, or no role.
LEMMA HighestIsOne ==
    ASSUME NEW gs, gs \subseteq Grant
    PROVE  Highest(gs) = None \/ \E g \in gs : Highest(gs) = RoleNow(g)
  <1> DEFINE rs == {RoleNow(g) : g \in gs} \cup {None}
  <1>1. rs \subseteq {-1, 0, 1, 2, 3} /\ -1 \in rs
    BY RoleIsARank DEF Ranks, None, Manager
  <1>2. \E r \in rs : \A x \in rs : x <= r
    <2>1. CASE 3 \in rs
      BY <1>1, <2>1
    <2>2. CASE 3 \notin rs /\ 2 \in rs
      BY <1>1, <2>2
    <2>3. CASE 3 \notin rs /\ 2 \notin rs /\ 1 \in rs
      BY <1>1, <2>3
    <2>4. CASE 3 \notin rs /\ 2 \notin rs /\ 1 \notin rs /\ 0 \in rs
      BY <1>1, <2>4
    <2>5. CASE 3 \notin rs /\ 2 \notin rs /\ 1 \notin rs /\ 0 \notin rs
      BY <1>1, <2>5
    <2> QED
      BY <2>1, <2>2, <2>3, <2>4, <2>5
  <1>3. \E r \in rs : \A g \in gs : RoleNow(g) <= r
    BY <1>2
  <1>4. Highest(gs) \in rs
    BY <1>3 DEF Highest
  <1> QED
    BY <1>4

\* What the batch resolver fetched and sorted by level is what the single
\* resolver queries level by level.
LEMMA BucketsAreGrants ==
    ASSUME NEW u \in Users, NEW level \in Levels
    PROVE  Bucket(BatchRows(u), level) = GrantsOf(level, u)
  <1>1. ASSUME NEW g
        PROVE  g \in Bucket(BatchRows(u), level) <=> <<level, g>> \in BatchRows(u)
    <2>1. \A row \in BatchRows(u) : row = <<row[1], row[2]>>
      BY DEF BatchRows
    <2> QED
      BY <2>1 DEF Bucket
  <1>2. ASSUME NEW g
        PROVE  <<level, g>> \in BatchRows(u)
                 <=> \E p \in {u} \cup TeamsOf(u) : g \in grants[level][p]
    <2>1. <<level, g>> \in BatchRows(u)
            <=> \E l \in Levels, p \in {u} \cup TeamsOf(u) :
                  <<level, g>> \in {<<l, h>> : h \in grants[l][p]}
      <3>1. ASSUME NEW l \in Levels, NEW p \in {u} \cup TeamsOf(u),
                   <<level, g>> \in {<<l, h>> : h \in grants[l][p]}
            PROVE  <<level, g>> \in BatchRows(u)
        <4> DEFINE Of(k, q) == {<<k, h>> : h \in grants[k][q]}
        <4>1. BatchRows(u) = UNION {Of(k, q) : k \in Levels, q \in {u} \cup TeamsOf(u)}
          BY DEF BatchRows
        <4>2. <<level, g>> \in Of(l, p)
          BY <3>1
        <4> HIDE DEF Of
        <4>3. Of(l, p) \in {Of(k, q) : k \in Levels, q \in {u} \cup TeamsOf(u)}
          OBVIOUS
        <4> QED
          BY <4>1, <4>2, <4>3
      <3>2. ASSUME <<level, g>> \in BatchRows(u)
            PROVE  \E l \in Levels, p \in {u} \cup TeamsOf(u) :
                     <<level, g>> \in {<<l, h>> : h \in grants[l][p]}
        BY <3>2 DEF BatchRows
      <3> QED
        BY <3>1, <3>2
    <2>2. \A l, p : <<level, g>> \in {<<l, h>> : h \in grants[l][p]}
                     <=> level = l /\ g \in grants[l][p]
      OBVIOUS
    <2> QED
      BY <2>1, <2>2
  <1>3. ASSUME NEW g
        PROVE  g \in GrantsOf(level, u) <=> \E p \in {u} \cup TeamsOf(u) : g \in grants[level][p]
    BY DEF GrantsOf
  <1> QED
    BY <1>1, <1>2, <1>3

LEMMA Agreement == BatchAgrees
  <1> SUFFICES ASSUME NEW u \in Users, BatchRole(u) # ItemRole(u)
               PROVE  u \in Auditors /\ BatchRole(u) = None /\ ItemRole(u) = Viewer
    BY DEF BatchAgrees
  <1>1. /\ Bucket(BatchRows(u), "item") = GrantsOf("item", u)
        /\ Bucket(BatchRows(u), "folder") = GrantsOf("folder", u)
        /\ Bucket(BatchRows(u), "vault") = GrantsOf("vault", u)
    BY BucketsAreGrants DEF Levels
  <1> QED
    BY <1>1 DEF BatchRole, ItemRole, FirstOf, AuditorRole

LEMMA Opening == RoleOpensItem
  <1> SUFFICES ASSUME NEW u \in Users, ItemRole(u) # None,
                      \A level \in Levels : \A g \in GrantsOf(level, u) : g.phase # "expired"
               PROVE  SeesVault(u)
    BY DEF RoleOpensItem
  <1>1. CASE Highest(GrantsOf("item", u)) # None
    <2>1. \E g \in GrantsOf("item", u) : TRUE
      BY <1>1, NoGrantNoRole
    <2> QED
      BY <2>1 DEF SeesVault, Levels
  <1>2. CASE Highest(GrantsOf("folder", u)) # None
    <2>1. \E g \in GrantsOf("folder", u) : TRUE
      BY <1>2, NoGrantNoRole
    <2> QED
      BY <2>1 DEF SeesVault, Levels
  <1>3. CASE Highest(GrantsOf("vault", u)) # None
    BY <1>3 DEF SeesVault
  <1>4. CASE /\ Highest(GrantsOf("item", u)) = None
             /\ Highest(GrantsOf("folder", u)) = None
             /\ Highest(GrantsOf("vault", u)) = None
    BY <1>4 DEF ItemRole, FirstOf, AuditorRole, SeesVault
  <1> QED
    BY <1>1, <1>2, <1>3, <1>4

-----------------------------------------------------------------------------
(* The ranks *)

LEMMA SharersAreBounded ==
    ASSUME TypeOK, NoRankIsMinted, NEW u \in Sharers, NEW level \in Levels
    PROVE  Highest(GrantsOf(level, u)) \in None..Editor
  <1>1. ASSUME NEW g \in GrantsOf(level, u)
        PROVE  g \in Grant /\ RoleNow(g) \in None..Editor
    <2>1. PICK p \in Sharers \cup Teams : g \in grants[level][p]
      BY DEF GrantsOf, TeamsOf
    <2>2. g \in Grant
      BY <2>1, AccessAssumption DEF TypeOK, Principals
    <2>3. g.role <= Editor /\ g.base <= Editor
      BY <2>1 DEF NoRankIsMinted
    <2> QED
      BY <2>2, <2>3 DEF Grant, RoleNow, Ranks, None, Viewer, Editor, Manager
  <1>2. GrantsOf(level, u) \subseteq Grant
    BY <1>1
  <1> QED
    BY <1>1, <1>2, HighestIsOne DEF None, Editor

LEMMA AuthorityIsBounded ==
    ASSUME TypeOK, NoRankIsMinted, NEW u \in Sharers, NEW level \in {"item", "folder"}
    PROVE  Authority(level, u) \in None..Editor
  <1>1. /\ Highest(GrantsOf("item", u)) \in None..Editor
        /\ Highest(GrantsOf("folder", u)) \in None..Editor
        /\ Highest(GrantsOf("vault", u)) \in None..Editor
    BY SharersAreBounded DEF Levels
  <1>2. FolderRole(u) \in None..Editor /\ ItemRole(u) \in None..Editor
    BY <1>1 DEF FolderRole, ItemRole, FirstOf, AuditorRole, None, Viewer, Editor
  <1> QED
    BY <1>2 DEF Authority, None, Editor

LEMMA CheckStep ==
    ASSUME IInv, NEW u \in Sharers, Check(u)
    PROVE  IInv'
  <1>1. PICK act \in Acts, level \in {"item", "folder"}, p \in Principals, role \in Roles \cup {None} :
          /\ role = None <=> act \in {"delete", "move"}
          /\ act = "move" => p = u
          /\ Allowed(u, act, level, p, role)
          /\ req' = [req EXCEPT ![u] = {[act |-> act, level |-> level, to |-> p, role |-> role]}]
    BY Zenon DEF Check
  <1>2. UNCHANGED <<grants, team, inFolder>> /\ shares' \in 0..MaxShares
    BY AccessAssumption DEF Check, IInv, TypeOK
  <1>3. role <= Editor
    <2>1. CASE role = None
      BY <2>1 DEF None, Editor
    <2>2. CASE role # None
      <3>1. act \in {"post", "patch", "bulk"}
        BY <1>1, <2>2 DEF Acts
      <3>2. role <= Authority(level, u)
        BY <1>1, <3>1 DEF Allowed, CanGrantRole
      <3>3. Authority(level, u) \in None..Editor
        BY AuthorityIsBounded DEF IInv
      <3>4. role \in Viewer..Manager
        BY <2>2, AccessAssumption
      <3> QED
        BY <3>2, <3>3, <3>4 DEF None, Viewer, Editor, Manager
    <2> QED
      BY <2>1, <2>2
  <1>4. TypeOK'
    BY <1>1, <1>2 DEF IInv, TypeOK
  <1>5. NoRankIsMinted'
    BY <1>2 DEF IInv, NoRankIsMinted
  <1>6. Asked'
    BY <1>1, <1>3 DEF IInv, Asked, TypeOK
  <1> QED
    BY <1>4, <1>5, <1>6 DEF IInv

LEMMA InitIInv == Init => IInv
  <1> SUFFICES ASSUME Init PROVE IInv
    OBVIOUS
  <1>1. PICK vault \in [Sharers -> {{}} \cup {{Permanent(r)} : r \in StartRoles}],
            level \in {"item", "folder"}, p \in Sharers \cup Teams, role \in StartRoles,
            base \in StartRoles \cup {None}, some \in BOOLEAN :
          /\ base < role
          /\ grants = [l \in Levels |-> [q \in Principals |->
                      CASE l = "vault" /\ q \in Sharers -> vault[q]
                        [] l = "vault" /\ q \in Users \ Sharers -> {Permanent(Manager)}
                        [] some /\ l = level /\ q = p ->
                             {[role |-> role, base |-> base, phase |-> "running"]}
                        [] OTHER -> {}]]
    BY DEF Init
  <1>2. role \in Viewer..Editor /\ base \in None..Editor
    BY AccessAssumption DEF None, Viewer, Editor
  <1>3. /\ \A r \in Viewer..Manager : Permanent(r) \in Grant
        /\ [role |-> role, base |-> base, phase |-> "running"] \in Grant
    BY <1>2 DEF Permanent, Grant, Ranks, None, Viewer, Editor, Manager
  <1>4. \A q \in Sharers : \A g \in vault[q] :
          g \in Grant /\ g.role \in Viewer..Editor /\ g.base = None
    <2> SUFFICES ASSUME NEW q \in Sharers, NEW g \in vault[q]
                 PROVE  g \in Grant /\ g.role \in Viewer..Editor /\ g.base = None
      OBVIOUS
    <2>1. PICK r \in StartRoles : g = Permanent(r)
      OBVIOUS
    <2>2. r \in Viewer..Editor /\ r \in Viewer..Manager
      BY AccessAssumption DEF Viewer, Editor, Manager
    <2> QED
      BY <1>3, <2>1, <2>2 DEF Permanent
  <1>5. ASSUME NEW l \in Levels, NEW q \in Principals, NEW g \in grants[l][q]
        PROVE  g \in Grant /\ (q \in Sharers \cup Teams => g.role <= Editor /\ g.base <= Editor)
    <2>1. CASE l = "vault" /\ q \in Sharers
      BY <1>1, <1>4, <2>1 DEF None, Viewer, Editor
    <2>2. CASE l = "vault" /\ q \in Users \ Sharers
      <3>1. g = Permanent(Manager) /\ Manager \in Viewer..Manager
        BY <1>1, <2>2 DEF Viewer, Manager
      <3>2. q \notin Sharers \cup Teams
        BY <2>2, AccessAssumption
      <3> QED
        BY <1>3, <3>1, <3>2
    <2>3. CASE ~(l = "vault" /\ q \in Sharers) /\ ~(l = "vault" /\ q \in Users \ Sharers)
      <3>1. g = [role |-> role, base |-> base, phase |-> "running"]
        BY <1>1, <2>3
      <3> QED
        BY <1>2, <1>3, <3>1 DEF None, Viewer, Editor
    <2> QED
      BY <2>1, <2>2, <2>3
  <1>6. \A l \in Levels : grants[l] \in [Principals -> SUBSET Grant]
    BY <1>1, <1>5
  <1>7. TypeOK
    BY <1>1, <1>6, AccessAssumption DEF Init, TypeOK
  <1>8. NoRankIsMinted
    BY <1>5, AccessAssumption DEF NoRankIsMinted, Principals
  <1>9. Asked
    BY DEF Init, Asked
  <1> QED
    BY <1>7, <1>8, <1>9 DEF IInv

-----------------------------------------------------------------------------
(* The steps that write a grant *)

\* One grant of one principal is replaced by bounded ones.
LEMMA GrantStep ==
    ASSUME IInv, NEW level \in Levels, NEW p \in Principals, NEW gs \in SUBSET Grant,
           grants' = [grants EXCEPT ![level][p] = gs],
           p \in Sharers \cup Teams => \A g \in gs : g.role <= Editor /\ g.base <= Editor
    PROVE  grants' \in [Levels -> [Principals -> SUBSET Grant]] /\ NoRankIsMinted'
  <1>1. \A l \in Levels, q \in Principals :
          grants'[l][q] = IF l = level /\ q = p THEN gs ELSE grants[l][q]
    BY DEF IInv, TypeOK
  <1>2. grants' \in [Levels -> [Principals -> SUBSET Grant]]
    BY DEF IInv, TypeOK
  <1>3. NoRankIsMinted'
    BY <1>1, AccessAssumption DEF IInv, NoRankIsMinted, Principals
  <1> QED
    BY <1>2, <1>3

LEMMA RequestsStep ==
    ASSUME IInv, \A u \in Sharers : req'[u] \subseteq req[u]
    PROVE  Asked'
  BY DEF IInv, Asked

LEMMA WriteStep ==
    ASSUME IInv, NEW u \in Sharers, Write(u)
    PROVE  IInv'
  <1>1. PICK r \in req[u] :
          /\ IF r.act = "move"
             THEN inFolder' \in BOOLEAN /\ UNCHANGED grants
             ELSE /\ grants' = [grants EXCEPT ![r.level][r.to] = After(r.act, @, r.role)]
                  /\ UNCHANGED inFolder
          /\ req' = [req EXCEPT ![u] = {}]
          /\ UNCHANGED <<team, shares>>
    BY DEF Write
  <1>2. /\ r.act \in Acts /\ r.level \in {"item", "folder"} /\ r.to \in Principals
        /\ r.role \in Roles \cup {None} /\ r.role <= Editor
        /\ r.role = None <=> r.act \in {"delete", "move"}
    BY DEF IInv, TypeOK, Asked
  <1>3. Asked' /\ req' \in [Sharers -> SUBSET Request]
    BY <1>1, RequestsStep DEF IInv, TypeOK, Request
  <1>4. CASE r.act = "move"
    BY <1>1, <1>3, <1>4 DEF IInv, TypeOK, NoRankIsMinted, Request
  <1>5. CASE r.act # "move"
    <2> DEFINE row == grants[r.level][r.to]
               gs == After(r.act, row, r.role)
    <2>1. row \subseteq Grant /\ r.level \in Levels
      BY <1>2 DEF IInv, TypeOK, Levels
    <2>2. r.act # "delete" => r.role \in Viewer..Manager
      BY <1>2, <1>5, AccessAssumption
    <2>3. r.to \in Sharers \cup Teams => \A g \in row : g.base <= Editor /\ g.role <= Editor
      BY <2>1 DEF IInv, NoRankIsMinted
    <2>4. ASSUME NEW h \in gs
          PROVE  h \in Grant /\ (r.to \in Sharers \cup Teams => h.role <= Editor /\ h.base <= Editor)
      <3>1. CASE r.act = "delete"
        BY <2>4, <3>1 DEF After
      <3>2. CASE r.act # "delete" /\ h = Permanent(r.role)
        BY <1>2, <2>2, <3>2 DEF Permanent, Grant, Ranks, None, Viewer, Editor, Manager
      <3>3. CASE r.act # "delete" /\ \E g \in row : h = [g EXCEPT !.role = r.role]
        BY <1>2, <2>1, <2>2, <2>3, <3>3 DEF Grant
      <3>4. CASE h \in row
        BY <2>1, <2>3, <3>4
      <3> QED
        BY <1>2, <1>5, <2>4, <3>1, <3>2, <3>3, <3>4 DEF After, Acts
    <2>5. grants' = [grants EXCEPT ![r.level][r.to] = gs]
      BY <1>1, <1>5
    <2>6. gs \in SUBSET Grant
      BY <2>4
    <2> HIDE DEF gs, row
    <2>7. grants' \in [Levels -> [Principals -> SUBSET Grant]] /\ NoRankIsMinted'
      BY <1>2, <2>1, <2>4, <2>5, <2>6, GrantStep
    <2> QED
      BY <1>1, <1>3, <1>5, <2>7 DEF IInv, TypeOK, Request
  <1> QED
    BY <1>4, <1>5

LEMMA ClockStep ==
    ASSUME IInv, NEW level \in Levels, NEW p \in Principals, Expire(level, p) \/ Sweep(level, p)
    PROVE  IInv'
  <1>1. PICK g \in grants[level][p] :
          \/ grants' = [grants EXCEPT ![level][p] = {[g EXCEPT !.phase = "expired"]}]
          \/ grants' = [grants EXCEPT ![level][p] = {}]
          \/ g.base # None /\ grants' = [grants EXCEPT ![level][p] = {Permanent(g.base)}]
    BY DEF Expire, Sweep
  <1>2. UNCHANGED <<team, inFolder, req, shares>>
    BY DEF Expire, Sweep
  <1>3. g \in Grant /\ (p \in Sharers \cup Teams => g.role <= Editor /\ g.base <= Editor)
    BY DEF IInv, TypeOK, NoRankIsMinted
  <1> DEFINE Fits(gs) ==
               /\ gs \in SUBSET Grant
               /\ grants' = [grants EXCEPT ![level][p] = gs]
               /\ p \in Sharers \cup Teams => \A h \in gs : h.role <= Editor /\ h.base <= Editor
  <1>4. \E gs : Fits(gs)
    <2>1. CASE grants' = [grants EXCEPT ![level][p] = {[g EXCEPT !.phase = "expired"]}]
      <3>1. /\ [g EXCEPT !.phase = "expired"] \in Grant
            /\ [g EXCEPT !.phase = "expired"].role = g.role
            /\ [g EXCEPT !.phase = "expired"].base = g.base
        BY <1>3 DEF Grant
      <3>2. Fits({[g EXCEPT !.phase = "expired"]})
        BY <1>3, <2>1, <3>1
      <3> HIDE DEF Fits
      <3> QED
        BY <3>2
    <2>2. CASE grants' = [grants EXCEPT ![level][p] = {}]
      <3>1. Fits({})
        BY <2>2
      <3> HIDE DEF Fits
      <3> QED
        BY <3>1
    <2>3. CASE g.base # None /\ grants' = [grants EXCEPT ![level][p] = {Permanent(g.base)}]
      <3>1. /\ Permanent(g.base) \in Grant
            /\ Permanent(g.base).role = g.base /\ Permanent(g.base).base <= Editor
        BY <1>3, <2>3 DEF Permanent, Grant, Ranks, None, Viewer, Editor, Manager
      <3>2. Fits({Permanent(g.base)})
        BY <1>3, <2>3, <3>1
      <3> HIDE DEF Fits
      <3> QED
        BY <3>2
    <2> QED
      BY <1>1, <2>1, <2>2, <2>3
  <1>5. grants' \in [Levels -> [Principals -> SUBSET Grant]] /\ NoRankIsMinted'
    <2>1. PICK gs : Fits(gs)
      BY <1>4
    <2> QED
      BY <2>1, GrantStep
  <1> QED
    BY <1>2, <1>5 DEF IInv, TypeOK, Asked

LEMMA NextStep ==
    ASSUME IInv, [Next]_vars
    PROVE  IInv'
  <1>1. CASE \E u \in Sharers : Check(u) \/ Write(u)
    BY <1>1, CheckStep, WriteStep
  <1>2. ASSUME NEW u \in Sharers, Lose(u) PROVE IInv'
    <2>1. Asked' /\ req' \in [Sharers -> SUBSET Request]
      BY <1>2, RequestsStep DEF Lose, IInv, TypeOK, Request
    <2> QED
      BY <1>2, <2>1 DEF Lose, IInv, TypeOK, NoRankIsMinted, Request
  <1>3. CASE \E level \in Levels, p \in Principals : Expire(level, p) \/ Sweep(level, p)
    BY <1>3, ClockStep
  <1>4. ASSUME NEW t \in Teams, NEW u \in Sharers, ChangeTeam(t, u) PROVE IInv'
    BY <1>4 DEF ChangeTeam, IInv, TypeOK, NoRankIsMinted, Asked
  <1>5. CASE UNCHANGED vars
    BY <1>5 DEF vars, IInv, TypeOK, NoRankIsMinted, Asked
  <1> QED
    BY <1>1, <1>2, <1>3, <1>4, <1>5 DEF Next

-----------------------------------------------------------------------------
THEOREM Invariance == Spec => []IInv
  BY InitIInv, NextStep, PTL DEF Spec

\* The variables keep to their types, for every number of users and grants.
THEOREM TypeCorrect == Spec => []TypeOK
  <1>1. IInv => TypeOK
    BY DEF IInv
  <1> QED
    BY <1>1, Invariance, PTL

\* However the sharers combine what the routes let them do, and whatever is
\* stale when it is written, none of them and no team comes to be a manager.
THEOREM RanksAreNotMinted == Spec => []NoRankIsMinted
  <1>1. IInv => NoRankIsMinted
    BY DEF IInv
  <1> QED
    BY <1>1, Invariance, PTL

\* The batch resolver gives every user the role the single one gives, but for
\* the auditors its caller adds.
THEOREM ResolversAgree == Spec => []BatchAgrees
  BY Agreement, PTL

\* Whoever has a role on the item is let into its vault, unless an expired
\* grant waits for the sweeper.
THEOREM RolesOpenItems == Spec => []RoleOpensItem
  BY Opening, PTL
=============================================================================
