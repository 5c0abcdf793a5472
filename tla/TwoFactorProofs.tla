-------------------------- MODULE TwoFactorProofs --------------------------
(***************************************************************************)
(* Proofs about TwoFactor for any number of requests, codes and steps.     *)
(*                                                                         *)
(* Counted: what was accepted is at or below last_totp_step, so nothing    *)
(* above it was.  Owned: a backup code is in one place only, in the table, *)
(* with the login that claimed it, or with the session that login opened;  *)
(* and a new code was nowhere before.                                      *)
(***************************************************************************)
EXTENDS TwoFactor, TLAPS

ReqRow == [kind : Kinds, stage : Stages, copy : Copy, code : Codes,
           found : SUBSET Codes, sid : 0..MaxSessions]

Shape ==
    \A r \in Requests :
      /\ req[r].stage = "writing" => req[r].kind \in {"verify", "disable", "regenerate"}
      /\ req[r].kind = "login" \/ req[r].stage = "read" => req[r].code = None

Counted ==
    \A k \in Steps, slip \in Slips :
      taken[<<k, slip>>] # 0 => taken[<<k, slip>>] = 1 /\ k + slip <= row.last

\* The login of r claimed a backup code and has not opened its session yet.
Claimed(r) == req[r].stage = "proved" /\ req[r].kind = "verifyLogin" /\ req[r].code # None

Made ==
    /\ \A c \in codes : c <= made.codes /\ c # None
    /\ \A r \in Requests : req[r].code <= made.codes
    /\ \A i \in Ids : sess[i].code <= made.codes
    /\ \A i \in Ids : i > opened => sess[i].code = None

Owned ==
    /\ \A r \in Requests : Claimed(r) => req[r].code \notin codes
    /\ \A r, q \in Requests : Claimed(r) /\ Claimed(q) /\ r # q => req[r].code # req[q].code
    /\ \A i \in Ids : sess[i].code # None => sess[i].code \notin codes
    /\ \A i \in Ids, r \in Requests :
         sess[i].code # None /\ Claimed(r) => sess[i].code # req[r].code
    /\ BackupCodeOpensOneSession

IInv == TypeOK /\ Shape /\ Counted /\ Made /\ Owned

-----------------------------------------------------------------------------
LEMMA InitIInv == Init => IInv
  <1> SUFFICES ASSUME Init PROVE IInv
    OBVIOUS
  <1>1. 0 \in Secrets /\ 0 \in Codes /\ 0 \in 0..MaxSessions /\ 1 \in 0..MaxNow
    BY TwoFactorAssumption DEF Secrets, Codes, None
  <1>2. Idle \in ReqRow
    BY <1>1 DEF Idle, ReqRow, Kinds, Stages, Copy, None
  <1>3. row \in Row
    BY <1>1, TwoFactorAssumption DEF Init, Row, None
  <1>4. TypeOK
    BY <1>1, <1>2, <1>3 DEF Init, TypeOK, ReqRow, None
  <1>5. Shape /\ Made
    BY <1>1 DEF Init, Shape, Made, Idle, None, Ids
  <1>6. Counted
    BY DEF Init, Counted
  <1>7. Owned
    BY DEF Init, Owned, Claimed, Idle, BackupCodeOpensOneSession, None
  <1> QED
    BY <1>4, <1>5, <1>6, <1>7 DEF IInv

-----------------------------------------------------------------------------
(* The requests *)

\* One request moves; its row and the shape of it.
LEMMA ReqStep ==
    ASSUME TypeOK, Shape, NEW r \in Requests, NEW q \in ReqRow,
           req' = [req EXCEPT ![r] = q],
           q.stage = "writing" => q.kind \in {"verify", "disable", "regenerate"},
           q.kind = "login" \/ q.stage = "read" => q.code = None
    PROVE  req' \in [Requests -> ReqRow] /\ Shape'
  BY DEF TypeOK, ReqRow, Shape

LEMMA RequestsStep ==
    ASSUME TypeOK, Shape, [Next]_vars
    PROVE  req' \in [Requests -> ReqRow] /\ Shape'
  <1> DEFINE Goal == req' \in [Requests -> ReqRow] /\ Shape'
  <1>0. /\ 0 \in Codes /\ 0 \in Secrets /\ 0 \in 0..MaxSessions
        /\ Idle \in ReqRow /\ Idle.copy \in Copy /\ Idle.code = None /\ Idle.stage = "idle"
    <2>1. 0 \in Secrets /\ 0 \in Codes /\ 0 \in 0..MaxSessions
      BY TwoFactorAssumption DEF Secrets, Codes, None
    <2> QED
      BY <2>1 DEF Idle, ReqRow, Kinds, Stages, Copy, None
  <1>1. ASSUME NEW r \in Requests, ReadUser(r) PROVE Goal
    <2>1. PICK kind \in Kinds, sid \in Alive \cup {0} :
            req' = [req EXCEPT ![r] =
                      [Idle EXCEPT !.kind = kind, !.copy = CopyOf(row), !.sid = sid,
                                   !.stage = IF NeedsProof(kind, row) THEN "read" ELSE "proved"]]
      BY <1>1 DEF ReadUser
    <2>2. CopyOf(row) \in Copy /\ sid \in 0..MaxSessions
      BY TwoFactorAssumption DEF CopyOf, TypeOK, Row, Copy, Alive, Ids
    <2> QED
      BY <1>0, <2>1, <2>2, ReqStep DEF ReqRow, Stages
  <1>2. ASSUME NEW r \in Requests, ConsumeTotpStep(r) PROVE Goal
    <2> DEFINE q == [req[r] EXCEPT !.stage = "proved"]
    <2>1. req' = [req EXCEPT ![r] = q]
      BY <1>2 DEF ConsumeTotpStep
    <2>2. q \in ReqRow /\ q.stage = "proved" /\ q.kind = req[r].kind /\ q.code = req[r].code
      BY DEF TypeOK, ReqRow, Stages
    <2> QED
      BY <2>1, <2>2, ReqStep DEF Shape
  <1>3. ASSUME NEW r \in Requests, MatchCode(r) PROVE Goal
    <2>1. PICK c \in codes :
            req' = [req EXCEPT ![r].stage = IF req[r].kind = "disable" THEN "proved" ELSE "matched",
                               ![r].code = c]
      BY <1>3 DEF MatchCode
    <2> DEFINE q == [req[r] EXCEPT
                       !.stage = IF req[r].kind = "disable" THEN "proved" ELSE "matched",
                       !.code = c]
    <2>2. req' = [req EXCEPT ![r] = q]
      BY <2>1 DEF TypeOK
    <2>3. q \in ReqRow /\ q.stage \in {"proved", "matched"} /\ q.kind = req[r].kind
      BY <2>1 DEF TypeOK, ReqRow, Stages
    <2>4. q.kind # "login"
      BY <1>3, <2>3 DEF MatchCode
    <2> QED
      BY <2>2, <2>3, <2>4, ReqStep
  <1>4. ASSUME NEW r \in Requests, ClaimCode(r) PROVE Goal
    <2>1. CASE req[r].code \in codes
      BY <1>4, <2>1 DEF ClaimCode, TypeOK, ReqRow, Stages, Shape
    <2>2. CASE req[r].code \notin codes
      BY <1>0, <1>4, <2>2, ReqStep DEF ClaimCode
    <2> QED
      BY <2>1, <2>2
  <1>5. ASSUME NEW r \in Requests,
               WriteEnroll(r) \/ SweepSessions(r) \/ Challenge(r) \/ OpenSession(r) \/ Lose(r)
        PROVE Goal
    BY <1>0, <1>5, ReqStep DEF WriteEnroll, SweepSessions, Challenge, OpenSession, Lose
  <1>6. ASSUME NEW r \in Requests, BeginWrite(r) PROVE Goal
    <2> DEFINE q == [req[r] EXCEPT !.stage = "writing", !.found = codes,
                                   !.copy = Idle.copy, !.code = None]
    <2>1. req' = [req EXCEPT ![r] = q]
      BY <1>0, <1>6 DEF BeginWrite, TypeOK
    <2>2. q \in ReqRow /\ q.kind = req[r].kind /\ q.code = None
      BY <1>0 DEF TypeOK, ReqRow, Stages, None
    <2>3. q.kind \in {"verify", "disable", "regenerate"}
      BY <1>6, <2>2 DEF BeginWrite
    <2> QED
      BY <2>1, <2>2, <2>3, ReqStep
  <1>7. ASSUME NEW r \in Requests, CommitWrite(r) PROVE Goal
    <2>1. CASE req[r].kind = "disable"
      <3> DEFINE q == [req[r] EXCEPT !.stage = "off", !.found = {}]
      <3>1. req' = [req EXCEPT ![r] = q]
        BY <1>7, <2>1 DEF CommitWrite, TypeOK
      <3>2. q \in ReqRow /\ q.kind = "disable" /\ q.stage = "off"
        BY <2>1 DEF TypeOK, ReqRow, Stages
      <3> QED
        BY <3>1, <3>2, ReqStep
    <2>2. CASE req[r].kind # "disable"
      BY <1>0, <1>7, <2>2, ReqStep DEF CommitWrite
    <2> QED
      BY <2>1, <2>2
  <1>8. CASE Tick \/ TokenExpires \/ UNCHANGED vars
    BY <1>8 DEF Tick, TokenExpires, vars, TypeOK, ReqRow, Shape
  <1> QED
    BY <1>1, <1>2, <1>3, <1>4, <1>5, <1>6, <1>7, <1>8 DEF Next

-----------------------------------------------------------------------------
(* The types *)

LEMMA TypeStep ==
    ASSUME TypeOK, Shape, [Next]_vars
    PROVE  TypeOK'
  <1> USE DEF TypeOK
  <1>0. req' \in [Requests -> ReqRow]
    BY RequestsStep
  <1>1. ASSUME NEW r \in Requests, ReadUser(r) PROVE TypeOK'
    BY <1>0, <1>1 DEF ReadUser, ReqRow
  <1>2. ASSUME NEW r \in Requests, ConsumeTotpStep(r) PROVE TypeOK'
    <2>1. PICK k \in Steps, slip \in Slips :
            /\ k \in now - 1 .. now + 1
            /\ now + slip <= MaxNow /\ now' = now + slip
            /\ row' = [row EXCEPT !.last = k + slip]
            /\ taken' = [taken EXCEPT ![<<k, slip>>] = @ + 1]
      BY <1>2 DEF ConsumeTotpStep
    <2>2. now' \in 0..MaxNow /\ k + slip \in (-1)..(MaxNow + 1)
      BY <2>1, TwoFactorAssumption DEF Slips, Steps
    <2>3. row' \in Row
      BY <2>1, <2>2 DEF Row
    <2>4. taken' \in [Steps \X Slips -> Nat]
      BY <2>1
    <2> QED
      BY <1>0, <1>2, <2>2, <2>3, <2>4 DEF ConsumeTotpStep, ReqRow
  <1>3. ASSUME NEW r \in Requests, MatchCode(r) \/ ClaimCode(r) \/ BeginWrite(r) PROVE TypeOK'
    BY <1>0, <1>3 DEF MatchCode, ClaimCode, BeginWrite, ReqRow
  <1>4. ASSUME NEW r \in Requests, WriteEnroll(r) PROVE TypeOK'
    <2>1. made.secrets + 1 \in Secrets
      BY <1>4, TwoFactorAssumption DEF WriteEnroll, Secrets, None
    <2>2. row' \in Row /\ made' \in [secrets : Secrets, codes : Codes]
      BY <1>4, <2>1 DEF WriteEnroll, Row
    <2> QED
      BY <1>0, <1>4, <2>2 DEF WriteEnroll, ReqRow
  <1>5. ASSUME NEW r \in Requests, CommitWrite(r) PROVE TypeOK'
    <2>1. row' \in Row
      <3>1. req[r].kind \in {"verify", "disable", "regenerate"} /\ None \in Secrets
        BY <1>5, TwoFactorAssumption DEF CommitWrite, Shape, Secrets, None
      <3>2. \/ row' = [row EXCEPT !.enabled = TRUE]
            \/ row' = [row EXCEPT !.secret = None, !.enabled = FALSE]
            \/ row' = row
        BY <1>5, <3>1 DEF CommitWrite
      <3> QED
        BY <3>1, <3>2 DEF Row
    <2>2. codes' \subseteq Codes /\ made' \in [secrets : Secrets, codes : Codes]
      BY <1>5, TwoFactorAssumption DEF CommitWrite, Codes, None
    <2> QED
      BY <1>0, <1>5, <2>1, <2>2 DEF CommitWrite, ReqRow
  <1>6. ASSUME NEW r \in Requests, SweepSessions(r) PROVE TypeOK'
    <2>1. sess' \in [Ids -> [alive : BOOLEAN, code : Codes]]
      <3>1. \A i \in Ids : [sess[i] EXCEPT !.alive = FALSE] \in [alive : BOOLEAN, code : Codes]
        OBVIOUS
      <3> QED
        BY <1>6, <3>1 DEF SweepSessions
    <2> QED
      BY <1>0, <1>6, <2>1 DEF SweepSessions, ReqRow
  <1>7. ASSUME NEW r \in Requests, OpenSession(r) PROVE TypeOK'
    <2>1. req[r].code \in Codes /\ opened + 1 \in 0..MaxSessions
      BY <1>7, TwoFactorAssumption DEF OpenSession
    <2> QED
      BY <1>0, <1>7, <2>1 DEF OpenSession, ReqRow
  <1>8. ASSUME NEW r \in Requests, Challenge(r) \/ Lose(r) PROVE TypeOK'
    BY <1>0, <1>8 DEF Challenge, Lose, ReqRow
  <1>9. CASE Tick
    BY <1>9, TwoFactorAssumption DEF Tick
  <1>10. CASE TokenExpires \/ UNCHANGED vars
    BY <1>10 DEF TokenExpires, vars
  <1> QED
    BY <1>1, <1>2, <1>3, <1>4, <1>5, <1>6, <1>7, <1>8, <1>9, <1>10 DEF Next

-----------------------------------------------------------------------------
(* The six digits *)

LEMMA CountedStep ==
    ASSUME TypeOK, Shape, Counted, [Next]_vars
    PROVE  Counted'
  <1>1. ASSUME NEW r \in Requests, ConsumeTotpStep(r) PROVE Counted'
    <2>1. PICK k \in Steps, slip \in Slips :
            /\ row.last < k + slip
            /\ row' = [row EXCEPT !.last = k + slip]
            /\ taken' = [taken EXCEPT ![<<k, slip>>] = @ + 1]
      BY <1>1 DEF ConsumeTotpStep
    <2>2. k + slip \in Int /\ row.last \in Int /\ row'.last = k + slip
      BY <2>1, TwoFactorAssumption DEF Steps, Slips, TypeOK, Row
    <2>3. taken[<<k, slip>>] = 0 /\ taken'[<<k, slip>>] = 1
      BY <2>1, <2>2 DEF TypeOK, Counted
    <2>4. ASSUME NEW l \in Steps, NEW s \in Slips, taken'[<<l, s>>] # 0
          PROVE  taken'[<<l, s>>] = 1 /\ l + s <= row'.last
      <3>1. CASE l = k /\ s = slip
        BY <2>2, <2>3, <3>1
      <3>2. CASE ~(l = k /\ s = slip)
        <4>1. taken'[<<l, s>>] = taken[<<l, s>>]
          BY <2>1, <3>2 DEF TypeOK
        <4>2. l + s \in Int
          BY TwoFactorAssumption DEF Steps, Slips
        <4> QED
          BY <2>1, <2>2, <2>4, <4>1, <4>2 DEF Counted
      <3> QED
        BY <3>1, <3>2
    <2> QED
      BY <2>4 DEF Counted
  <1>2. CASE UNCHANGED taken /\ row'.last = row.last
    BY <1>2 DEF Counted
  <1>3. ASSUME NEW r \in Requests, WriteEnroll(r) PROVE Counted'
    BY <1>2, <1>3 DEF WriteEnroll, TypeOK, Row
  <1>4. ASSUME NEW r \in Requests, CommitWrite(r) PROVE Counted'
    <2>1. req[r].kind \in {"verify", "disable", "regenerate"}
      BY <1>4 DEF CommitWrite, Shape
    <2>2. row'.last = row.last
      BY <1>4, <2>1 DEF CommitWrite, TypeOK, Row
    <2> QED
      BY <1>2, <1>4, <2>2 DEF CommitWrite
  <1>5. CASE UNCHANGED <<row, taken>>
    BY <1>5 DEF Counted
  <1> QED
    BY <1>1, <1>3, <1>4, <1>5
       DEF Next, ReadUser, MatchCode, ClaimCode, BeginWrite, SweepSessions, Challenge,
           OpenSession, Lose, Tick, TokenExpires, vars

-----------------------------------------------------------------------------
(* The backup codes *)

\* What most steps do: no login claims a code, no session opens, and a code
\* that appears in the table is a new one.
QuietCodes ==
    /\ made'.codes >= made.codes /\ opened' = opened
    /\ \A c \in codes' : c \in codes \/ (c > made.codes /\ c <= made'.codes)
    /\ \A i \in Ids : sess'[i].code = sess[i].code
    /\ \A r \in Requests : /\ req'[r].code \in {None, req[r].code} \cup codes
                           /\ Claimed(r)' => Claimed(r) /\ req'[r].code = req[r].code

LEMMA Numbers ==
    ASSUME TypeOK
    PROVE  /\ made.codes \in Nat /\ codes \subseteq Nat /\ opened \in Nat
           /\ \A r \in Requests : req[r].code \in Nat
           /\ \A i \in Ids : i \in Nat /\ sess[i].code \in Nat
  BY TwoFactorAssumption DEF TypeOK, Codes, Ids, None

LEMMA QuietStep ==
    ASSUME TypeOK, TypeOK', Made, Owned, QuietCodes
    PROVE  Made' /\ Owned'
  <1>0. /\ made.codes \in Nat /\ codes \subseteq Nat
        /\ \A r \in Requests : req[r].code \in Nat
        /\ \A i \in Ids : i \in Nat /\ sess[i].code \in Nat
        /\ made'.codes \in Nat /\ codes' \subseteq Nat
    BY Numbers, TwoFactorAssumption DEF TypeOK, Codes, None
  <1>1. \A c \in codes' : c <= made'.codes /\ c # None
    BY <1>0 DEF QuietCodes, Made, None
  <1>2. ASSUME NEW r \in Requests PROVE req'[r].code <= made'.codes
    <2>1. \A c \in {None, req[r].code} \cup codes : c \in Nat /\ c <= made.codes
      BY <1>0 DEF Made, None
    <2>2. made.codes <= made'.codes /\ req'[r].code \in {None, req[r].code} \cup codes
      BY DEF QuietCodes
    <2> QED
      BY <1>0, <2>1, <2>2
  <1>3. \A i \in Ids : sess'[i].code <= made'.codes /\ (i > opened' => sess'[i].code = None)
    BY <1>0 DEF QuietCodes, Made
  <1>4. \A r \in Requests : Claimed(r)' => req'[r].code \notin codes'
    BY <1>0 DEF QuietCodes, Made, Owned
  <1>5. ASSUME NEW r \in Requests, NEW q \in Requests, Claimed(r)', Claimed(q)', r # q
        PROVE  req'[r].code # req'[q].code
    <2>1. /\ Claimed(r) /\ req'[r].code = req[r].code
          /\ Claimed(q) /\ req'[q].code = req[q].code
      BY <1>5 DEF QuietCodes
    <2> QED
      BY <1>5, <2>1 DEF Owned
  <1>6. \A i \in Ids : sess'[i].code # None => sess'[i].code \notin codes'
    BY <1>0 DEF QuietCodes, Made, Owned
  <1>7. \A i \in Ids, r \in Requests :
          sess'[i].code # None /\ Claimed(r)' => sess'[i].code # req'[r].code
    BY DEF QuietCodes, Owned
  <1>8. BackupCodeOpensOneSession'
    BY DEF QuietCodes, Owned, BackupCodeOpensOneSession
  <1>9. Made'
    BY <1>1, <1>2, <1>3 DEF Made, None
  <1> QED
    BY <1>4, <1>5, <1>6, <1>7, <1>8, <1>9 DEF Owned, None

\* The code leaves the table as the login claims it.
LEMMA ClaimStep ==
    ASSUME TypeOK, TypeOK', Made, Owned, NEW r \in Requests, ClaimCode(r)
    PROVE  Made' /\ Owned'
  <1>1. CASE req[r].code \notin codes
    <2>1. QuietCodes
      BY <1>1, Numbers DEF ClaimCode, QuietCodes, Claimed, TypeOK, Idle
    <2> QED
      BY <2>1, QuietStep
  <1>2. CASE req[r].code \in codes
    <2>1. /\ \A q \in Requests : /\ req'[q].code = req[q].code
                                 /\ q # r => req'[q] = req[q]
          /\ codes' = codes \ {req[r].code} /\ UNCHANGED <<made, sess, opened>>
      BY <1>2 DEF ClaimCode, TypeOK
    <2>2. \A q \in Requests : q # r => (Claimed(q)' <=> Claimed(q))
      BY <2>1 DEF Claimed
    <2>3. Made'
      BY <2>1 DEF Made
    <2> QED
      BY <1>2, <2>1, <2>2, <2>3 DEF Owned, BackupCodeOpensOneSession
  <1> QED
    BY <1>1, <1>2

\* The code passes from the login to its session.
LEMMA OpenStep ==
    ASSUME TypeOK, TypeOK', Shape, Made, Owned, NEW r \in Requests, OpenSession(r)
    PROVE  Made' /\ Owned'
  <1>1. /\ opened \in Nat /\ opened + 1 \in Ids /\ opened' = opened + 1
        /\ sess'[opened + 1].code = req[r].code
        /\ \A i \in Ids : i # opened + 1 => sess'[i] = sess[i]
        /\ UNCHANGED <<codes, made>>
    BY TwoFactorAssumption DEF OpenSession, TypeOK, Ids
  <1>2. req'[r] = Idle /\ \A q \in Requests : q # r => req'[q] = req[q]
    BY DEF OpenSession, TypeOK
  <1>3. ~Claimed(r)' /\ \A q \in Requests : q # r => (Claimed(q)' <=> Claimed(q))
    BY <1>2 DEF Claimed, Idle
  <1>4. req[r].code # None => Claimed(r)
    BY DEF OpenSession, Shape, Claimed
  <1>5. sess[opened + 1].code = None
    BY <1>1 DEF Made
  <1>6. Made'
    BY <1>1, <1>2, Numbers DEF Made, Idle, None
  <1>7. \A i \in Ids : sess'[i].code # None => sess'[i].code \notin codes'
    BY <1>1, <1>4 DEF Owned
  <1>8. \A i \in Ids, q \in Requests :
          sess'[i].code # None /\ Claimed(q)' => sess'[i].code # req'[q].code
    BY <1>1, <1>2, <1>3, <1>4 DEF Owned
  <1>9. BackupCodeOpensOneSession'
    BY <1>1, <1>4 DEF Owned, BackupCodeOpensOneSession
  <1>10. /\ \A q \in Requests : Claimed(q)' => req'[q].code \notin codes'
         /\ \A q, p \in Requests :
              Claimed(q)' /\ Claimed(p)' /\ q # p => req'[q].code # req'[p].code
    BY <1>1, <1>2, <1>3 DEF Owned
  <1> QED
    BY <1>6, <1>7, <1>8, <1>9, <1>10 DEF Owned, None

LEMMA CodesStep ==
    ASSUME TypeOK, TypeOK', Shape, Made, Owned, [Next]_vars
    PROVE  Made' /\ Owned'
  <1>1. ASSUME NEW r \in Requests,
               ReadUser(r) \/ WriteEnroll(r) \/ Challenge(r) \/ Lose(r)
        PROVE  QuietCodes
    <2>1. /\ made'.codes = made.codes /\ UNCHANGED <<codes, sess, opened>>
          /\ \A q \in Requests : q # r => req'[q] = req[q]
      BY <1>1 DEF ReadUser, WriteEnroll, Challenge, Lose, TypeOK
    <2>2. req'[r].code = None
      <3>1. CASE ReadUser(r)
        BY <3>1 DEF ReadUser, TypeOK, Idle
      <3>2. CASE WriteEnroll(r) \/ Challenge(r) \/ Lose(r)
        BY <3>2 DEF WriteEnroll, Challenge, Lose, TypeOK, Idle
      <3> QED
        BY <1>1, <3>1, <3>2
    <2> QED
      BY <2>1, <2>2, Numbers DEF QuietCodes, Claimed, None
  <1>2. ASSUME NEW r \in Requests, ConsumeTotpStep(r) PROVE QuietCodes
    <2>1. UNCHANGED <<codes, made, sess, opened>> /\ req[r].code = None
      BY <1>2 DEF ConsumeTotpStep, Shape
    <2>2. /\ \A q \in Requests : q # r => req'[q] = req[q]
          /\ req'[r].code = req[r].code
      BY <1>2 DEF ConsumeTotpStep, TypeOK
    <2> QED
      BY <2>1, <2>2, Numbers DEF QuietCodes, Claimed
  <1>3. ASSUME NEW r \in Requests, MatchCode(r) \/ BeginWrite(r) PROVE QuietCodes
    <2>1. UNCHANGED <<codes, made, sess, opened>>
      BY <1>3 DEF MatchCode, BeginWrite
    <2>2. /\ \A q \in Requests : q # r => req'[q] = req[q]
          /\ req'[r].code \in codes \cup {None}
          /\ req'[r].kind = req[r].kind
          /\ req'[r].kind = "verifyLogin" => req'[r].stage # "proved"
      BY <1>3 DEF MatchCode, BeginWrite, TypeOK
    <2> QED
      BY <2>1, <2>2, Numbers DEF QuietCodes, Claimed
  <1>4. ASSUME NEW r \in Requests, CommitWrite(r) PROVE QuietCodes
    <2>1. UNCHANGED <<sess, opened>> /\ \A q \in Requests : q # r => req'[q] = req[q]
      BY <1>4 DEF CommitWrite, TypeOK
    <2>2. CASE req[r].kind = "disable"
      <3>1. /\ codes' \subseteq codes /\ made' = made
            /\ req'[r].stage = "off" /\ req'[r].code = req[r].code
        BY <1>4, <2>2 DEF CommitWrite, TypeOK
      <3> QED
        BY <2>1, <3>1, Numbers DEF QuietCodes, Claimed
    <2>3. CASE req[r].kind # "disable"
      <3>1. /\ codes' \subseteq codes \cup {made.codes + 1} /\ made'.codes = made.codes + 1
            /\ req'[r] = Idle
        BY <1>4, <2>3 DEF CommitWrite, TypeOK
      <3> QED
        BY <2>1, <3>1, Numbers DEF QuietCodes, Claimed, Idle
    <2> QED
      BY <2>2, <2>3
  <1>5. ASSUME NEW r \in Requests, SweepSessions(r) PROVE QuietCodes
    <2>1. /\ UNCHANGED <<codes, made, opened>> /\ req'[r] = Idle
          /\ \A q \in Requests : q # r => req'[q] = req[q]
          /\ \A i \in Ids : sess'[i].code = sess[i].code
      BY <1>5 DEF SweepSessions, TypeOK
    <2> QED
      BY <2>1, Numbers DEF QuietCodes, Claimed, Idle
  <1>6. CASE Tick \/ TokenExpires \/ UNCHANGED vars
    <2>1. UNCHANGED <<codes, made, sess, opened, req>>
      BY <1>6 DEF Tick, TokenExpires, vars
    <2>2. QuietCodes
      BY <2>1, Numbers DEF QuietCodes, Claimed
    <2> QED
      BY <2>2, QuietStep
  <1>7. CASE \E r \in Requests : ClaimCode(r) \/ OpenSession(r)
    BY <1>7, ClaimStep, OpenStep
  <1>8. CASE \E r \in Requests :
               \/ ReadUser(r) \/ ConsumeTotpStep(r) \/ MatchCode(r) \/ WriteEnroll(r)
               \/ BeginWrite(r) \/ CommitWrite(r) \/ SweepSessions(r) \/ Challenge(r) \/ Lose(r)
    BY <1>1, <1>2, <1>3, <1>4, <1>5, <1>8, QuietStep
  <1> QED
    BY <1>6, <1>7, <1>8 DEF Next

-----------------------------------------------------------------------------
THEOREM Invariance == Spec => []IInv
  <1>1. IInv /\ [Next]_vars => IInv'
    BY TypeStep, RequestsStep, CountedStep, CodesStep DEF IInv
  <1> QED
    BY <1>1, InitIInv, PTL DEF Spec

\* The variables keep to their types, for every number of requests.
THEOREM TypeCorrect == Spec => []TypeOK
  <1>1. IInv => TypeOK
    BY DEF IInv
  <1> QED
    BY <1>1, Invariance, PTL

\* The six digits of a step are accepted at most once for each way the two
\* looks at the clock can fall, however many requests present them at once.
THEOREM StepsAreConsumed == Spec => []StepUsedOnce
  <1>1. ASSUME IInv PROVE StepUsedOnce
    <2> SUFFICES ASSUME NEW k \in Steps, NEW slip \in Slips PROVE taken[<<k, slip>>] <= 1
      BY DEF StepUsedOnce
    <2>1. taken[<<k, slip>>] # 0 => taken[<<k, slip>>] = 1
      BY <1>1 DEF IInv, Counted
    <2> QED
      BY <2>1
  <1> QED
    BY <1>1, Invariance, PTL

\* A backup code opens at most one session, however many logins match it and
\* whatever replaces the codes meanwhile.
THEOREM CodesAreSpentOnce == Spec => []BackupCodeOpensOneSession
  <1>1. IInv => BackupCodeOpensOneSession
    BY DEF IInv, Owned
  <1> QED
    BY <1>1, Invariance, PTL

-----------------------------------------------------------------------------
(* What the pathological state comes down to *)

\* A confirmation under way has a secret to confirm.
SecretHeld ==
    /\ EnabledHasSecret
    /\ \A r \in Requests :
         req[r].kind = "verify" /\ req[r].stage # "idle" => row.secret # None

LEMMA SecretStep ==
    ASSUME TypeOK, Shape, SecretHeld, [Next]_vars, [VerifiesHold]_vars
    PROVE  SecretHeld'
  <1> USE DEF TypeOK, SecretHeld, EnabledHasSecret
  <1>1. ASSUME NEW r \in Requests, ReadUser(r) PROVE SecretHeld'
    <2>1. req'[r].kind = "verify" => row.secret # None
      BY <1>1 DEF ReadUser, Admissible, CopyOf, Kinds, Managing
    <2>2. \A q \in Requests : q # r => req'[q] = req[q]
      BY <1>1 DEF ReadUser
    <2> QED
      BY <1>1, <2>1, <2>2 DEF ReadUser
  <1>2. ASSUME NEW r \in Requests, ConsumeTotpStep(r) PROVE SecretHeld'
    <2>1. row'.secret = row.secret /\ row'.enabled = row.enabled
      BY <1>2 DEF ConsumeTotpStep, Row
    <2>2. \A q \in Requests : /\ req'[q].kind = req[q].kind
                              /\ req'[q].stage # "idle" => req[q].stage # "idle"
      BY <1>2 DEF ConsumeTotpStep
    <2> QED
      BY <2>1, <2>2
  <1>3. ASSUME NEW r \in Requests,
               \/ MatchCode(r) \/ ClaimCode(r) \/ BeginWrite(r) \/ SweepSessions(r)
               \/ Challenge(r) \/ OpenSession(r) \/ Lose(r)
        PROVE SecretHeld'
    <2>1. UNCHANGED row
      BY <1>3 DEF MatchCode, ClaimCode, BeginWrite, SweepSessions, Challenge, OpenSession, Lose
    <2>2. \A q \in Requests : \/ req'[q].stage = "idle"
                              \/ req'[q].kind = req[q].kind /\ req[q].stage # "idle"
                              \/ req'[q] = req[q]
      BY <1>3 DEF MatchCode, ClaimCode, BeginWrite, SweepSessions, Challenge, OpenSession, Lose,
                  Idle
    <2> QED
      BY <2>1, <2>2
  <1>4. ASSUME NEW r \in Requests, WriteEnroll(r) PROVE SecretHeld'
    <2>1. row'.secret # None
      BY <1>4 DEF WriteEnroll, Row, Secrets, None
    <2> QED
      BY <2>1
  <1>5. ASSUME NEW r \in Requests, CommitWrite(r) PROVE SecretHeld'
    <2>1. req[r].kind \in {"verify", "disable", "regenerate"} /\ req[r].stage = "writing"
      BY <1>5 DEF CommitWrite, Shape
    <2>2. \A q \in Requests : \/ req'[q].stage = "idle"
                              \/ q = r /\ req'[q].kind = req[q].kind
                              \/ req'[q] = req[q]
      BY <1>5 DEF CommitWrite, Idle
    <2>3. CASE req[r].kind = "disable"
      <3>1. VerifiesHold
        BY <1>5, <2>1, <2>3 DEF CommitWrite, vars
      <3>2. \A q \in Requests : req[q].kind = "verify" => req[q].stage = "idle"
        BY <1>5, <2>3, <3>1 DEF VerifiesHold
      <3>3. row'.enabled = FALSE
        BY <1>5, <2>3 DEF CommitWrite, Row
      <3> QED
        BY <2>2, <2>3, <3>2, <3>3
    <2>4. CASE req[r].kind # "disable"
      <3>1. row'.secret = row.secret
        BY <1>5, <2>1, <2>4 DEF CommitWrite, Row
      <3>2. row'.enabled => row.enabled \/ req[r].kind = "verify"
        BY <1>5, <2>1, <2>4 DEF CommitWrite, Row
      <3> QED
        BY <2>1, <2>2, <3>1, <3>2
    <2> QED
      BY <2>3, <2>4
  <1>6. CASE Tick \/ TokenExpires \/ UNCHANGED vars
    BY <1>6 DEF Tick, TokenExpires, vars
  <1> QED
    BY <1>1, <1>2, <1>3, <1>4, <1>5, <1>6 DEF Next

\* The pathological state, an enabled factor without a secret, is reached in
\* one way only: a disable commits while a confirmation is under way.
THEOREM LockOutIsARace == Spec /\ [][VerifiesHold]_vars => []EnabledHasSecret
  <1>1. Init => SecretHeld
    BY DEF Init, SecretHeld, EnabledHasSecret, Idle
  <1>2. IInv /\ SecretHeld /\ [Next]_vars /\ [VerifiesHold]_vars => SecretHeld'
    BY SecretStep DEF IInv
  <1>3. SecretHeld => EnabledHasSecret
    BY DEF SecretHeld
  <1> QED
    BY Invariance, <1>1, <1>2, <1>3, PTL DEF Spec
=============================================================================
