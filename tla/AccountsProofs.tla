--------------------------- MODULE AccountsProofs ---------------------------
(***************************************************************************)
(* Proofs about Accounts for any number of requests, sessions and stamps.  *)
(*                                                                         *)
(* Sessions and Copies tie the places that say what unlocks the account:   *)
(* what the users row accepts, and what a request read accepts, every      *)
(* session alive then has seen.  Swept says what an open password          *)
(* transaction leaves behind: only sessions inserted while it was open.    *)
(* Plain, which holds while no setup stores a factor, says that there is   *)
(* none, so that a session younger than the last change of passwords has   *)
(* seen one master password only.                                          *)
(***************************************************************************)
EXTENDS Accounts, TLAPS

Sessions ==
    /\ \A i \in Ids : i > opened => ~sess[i].alive
    /\ \A i \in Ids : sess[i].alive => UnlockFactors(user) \subseteq sess[i].factors
    /\ UnlockProvesFactor /\ NoSessionOutlivesReset

Copies ==
    /\ \A r \in Requests : req[r].sid <= opened
    /\ \A r \in Requests, i \in Ids :
         req[r].stage = "read" /\ req[r].sid = i /\ sess[i].alive
           => UnlockFactors(req[r].copy) \subseteq sess[i].factors

Swept ==
    /\ \A t \in tx : tx = {t}
    /\ \A t \in tx, i \in Ids : sess[i].alive /\ i \notin t.doomed => sess[i].raced

IInv == TypeOK /\ Sessions /\ Copies /\ Swept

-----------------------------------------------------------------------------
(* The types *)

LEMMA InitIInv == Init => IInv
  <1> SUFFICES ASSUME Init PROVE IInv
    OBVIOUS
  <1>1. Blank \in UserRow /\ user \in UserRow /\ issued \in Stamp
    <2>1. 0 \in Stamp /\ 1 \in Stamp /\ 0 \in 0..MaxFails
      BY AccountAssumption DEF Stamp, None
    <2>2. Blank \in UserRow
      BY <2>1 DEF Blank, UserRow, None
    <2>3. user = [Blank EXCEPT !.login = 1] /\ issued = 1
      BY DEF Init
    <2> QED
      BY <2>1, <2>2, <2>3 DEF UserRow
  <1>2. TypeOK
    BY <1>1, AccountAssumption DEF Init, TypeOK, NoSession, Idle, Kinds, Ids, Stamp, None
  <1>3. \A i \in Ids : ~sess[i].alive
    BY DEF Init, NoSession
  <1>4. Copies /\ Swept
    BY <1>3 DEF Init, Copies, Swept, Idle
  <1>5. Sessions
    BY <1>3 DEF Sessions, UnlockProvesFactor, NoSessionOutlivesReset, Alive
  <1> QED
    BY <1>2, <1>4, <1>5 DEF IInv

SessRow == [alive : BOOLEAN, era : Nat, raced : BOOLEAN, factors : SUBSET Stamp, proof : Stamp]
ReqRow == [kind : Kinds, stage : {"idle", "known", "read", "writing", "passed"},
           sid : 0..MaxSessions, copy : UserRow]

LEMMA TypeStep ==
    ASSUME TypeOK, [Next]_vars
    PROVE  TypeOK'
  <1> USE DEF TypeOK
  <1>0. Blank \in UserRow /\ NoSession \in SessRow /\ Idle \in ReqRow
    <2>1. 0 \in Stamp /\ 0 \in 0..MaxFails /\ 0 \in 0..MaxSessions
      BY AccountAssumption DEF Stamp, None
    <2>2. Blank \in UserRow
      BY <2>1 DEF Blank, UserRow, None
    <2> QED
      BY <2>1, <2>2 DEF NoSession, SessRow, Idle, ReqRow, Kinds, None
  <1>1. ASSUME NEW r \in Requests, Authenticate(r) PROVE TypeOK'
    <2>1. PICK kind \in WithSession, i \in Alive :
            req' = [req EXCEPT ![r] = [Idle EXCEPT !.kind = kind, !.stage = "known", !.sid = i]]
      BY <1>1 DEF Authenticate
    <2>2. [Idle EXCEPT !.kind = kind, !.stage = "known", !.sid = i] \in ReqRow
      <3>1. kind \in Kinds /\ i \in 0..MaxSessions
        BY AccountAssumption DEF WithSession, Kinds, Alive, Ids
      <3> QED
        BY <1>0, <3>1 DEF ReqRow
    <2> QED
      BY <1>1, <2>1, <2>2 DEF Authenticate, ReqRow
  <1>2. ASSUME NEW r \in Requests, ReadUser(r) PROVE TypeOK'
    <2>2. PICK kind \in Kinds :
            req' = [req EXCEPT ![r] =
                      IF Admissible(kind, user)
                      THEN [kind |-> kind, stage |-> "read", sid |-> @.sid,
                            copy |-> IF kind \in WritesBlind THEN Blank ELSE user]
                      ELSE Idle]
      BY <1>2 DEF ReadUser
    <2>3. [kind |-> kind, stage |-> "read", sid |-> req[r].sid,
           copy |-> IF kind \in WritesBlind THEN Blank ELSE user] \in ReqRow
      BY <1>0 DEF ReqRow
    <2> QED
      BY <1>0, <1>2, <2>2, <2>3 DEF ReadUser, ReqRow
  <1>3. ASSUME NEW r \in Requests, FailLogin(r) \/ PassLogin(r) PROVE TypeOK'
    <2>1. user' \in UserRow
      <3>1. CASE FailLogin(r)
        <4>1. req[r].copy.fails + 1 \in 0..MaxFails
          BY <3>1, AccountAssumption DEF FailLogin, UserRow
        <4>2. (req[r].copy.fails + 1 >= Threshold) \in BOOLEAN
          OBVIOUS
        <4>3. user' = [user EXCEPT !.fails = req[r].copy.fails + 1,
                                   !.locked = (req[r].copy.fails + 1 >= Threshold)]
          BY <3>1 DEF FailLogin
        <4> QED
          BY <4>1, <4>2, <4>3 DEF UserRow
      <3>2. CASE PassLogin(r)
        <4>1. 0 \in 0..MaxFails
          BY AccountAssumption
        <4> QED
          BY <3>2, <4>1 DEF PassLogin, UserRow
      <3> QED
        BY <1>3, <3>1, <3>2
    <2>2. req' \in [Requests -> ReqRow]
      <3>1. CASE FailLogin(r)
        BY <1>0, <3>1 DEF FailLogin, ReqRow
      <3>2. CASE PassLogin(r)
        BY <1>0, <3>2 DEF PassLogin, ReqRow
      <3> QED
        BY <1>3, <3>1, <3>2
    <2> QED
      BY <1>3, <2>1, <2>2 DEF FailLogin, PassLogin, ReqRow
  <1>4. ASSUME NEW r \in Requests, OpenSession(r) PROVE TypeOK'
    <2>1. UnlockFactors(user) \subseteq Stamp /\ None \in Stamp
      BY AccountAssumption DEF UserRow, UnlockFactors, Stamp, None
    <2> QED
      BY <1>0, <1>4, <2>1, AccountAssumption DEF OpenSession, Ids, RowLocked, SessRow, ReqRow
  <1>5. ASSUME NEW r \in Requests, Unlock(r) \/ RevokeOthers(r) PROVE TypeOK'
    <2>1. req[r].copy.master \in Stamp
      BY DEF UserRow
    <2>2. sess' \in [Ids -> SessRow]
      <3>1. CASE Unlock(r)
        <4>0. PICK f \in UnlockFactors(req[r].copy) :
                sess' = [sess EXCEPT ![req[r].sid].proof =
                           IF sess[req[r].sid].alive THEN f ELSE @]
          BY <3>1 DEF Unlock
        <4> DEFINE p == IF sess[req[r].sid].alive THEN f ELSE sess[req[r].sid].proof
        <4>1. sess' = [i \in Ids |-> IF i = req[r].sid THEN [sess[i] EXCEPT !.proof = p]
                                     ELSE sess[i]]
          BY <4>0
        <4>2. ASSUME NEW i \in Ids, i = req[r].sid
              PROVE  [sess[i] EXCEPT !.proof = p] \in SessRow
          <5>1. f \in Stamp
            BY DEF UnlockFactors, UserRow
          <5>2. p \in Stamp
            BY <4>2, <5>1
          <5> QED
            BY <5>2 DEF SessRow
        <4> QED
          BY <4>1, <4>2 DEF SessRow
      <3>2. CASE RevokeOthers(r)
        BY <1>0, <3>2, <2>1 DEF RevokeOthers, SessRow
      <3> QED
        BY <1>5, <3>1, <3>2
    <2>3. req' \in [Requests -> ReqRow]
      BY <1>0, <1>5 DEF Unlock, RevokeOthers, ReqRow
    <2> QED
      BY <1>5, <2>2, <2>3 DEF Unlock, RevokeOthers, SessRow, ReqRow
  <1>6. ASSUME NEW r \in Requests, Regenerate(r) PROVE TypeOK'
    <2>1. issued' \in Stamp /\ issued + 1 \in Stamp
      BY <1>6, AccountAssumption DEF Regenerate, Stamp, None
    <2>2. user' \in UserRow
      BY <1>6, <2>1 DEF Regenerate, UserRow
    <2>3. req' \in [Requests -> ReqRow]
      BY <1>0, <1>6 DEF Regenerate, ReqRow
    <2> QED
      BY <1>6, <2>1, <2>2, <2>3 DEF Regenerate, ReqRow
  <1>7. ASSUME NEW r \in Requests, Sweep(r) PROVE TypeOK'
    <2>1. issued' \in Stamp /\ issued + 1 \in Stamp /\ issued + 2 \in Stamp
      BY <1>7, AccountAssumption DEF Sweep, Stamp, None
    <2>2. AfterReset \in UserRow /\ \A m, l \in Factors : AfterSetup(req[r].copy, m, l) \in UserRow
      <3>1. req[r].copy.master \in Stamp /\ None \in Stamp /\ 0 \in 0..MaxFails
        BY AccountAssumption DEF UserRow, Stamp, None
      <3>2. ASSUME NEW m \in Factors, NEW l \in Factors
            PROVE  AfterSetup(req[r].copy, m, l) \in UserRow
        <4>1. Derived \subseteq Stamp
          BY AccountAssumption DEF Stamp, None
        <4>2. m \in Stamp /\ l \in Stamp
          BY <3>1, <4>1 DEF Factors
        <4> QED
          BY <2>1, <3>1, <4>2 DEF AfterSetup, UserRow
      <3>3. AfterReset \in UserRow
        BY <2>1, <3>1 DEF AfterReset, UserRow
      <3> QED
        BY <3>2, <3>3
    <2>3. PICK row \in Rewrites(r) : tx' = {[by |-> r, doomed |-> Alive, row |-> row]}
      BY <1>7 DEF Sweep
    <2>4. tx' \subseteq [by : Requests, doomed : SUBSET Ids, row : UserRow]
      BY <2>2, <2>3 DEF Rewrites, Alive
    <2>5. req' \in [Requests -> ReqRow]
      BY <1>0, <1>7 DEF Sweep, ReqRow
    <2> QED
      BY <1>7, <2>1, <2>4, <2>5 DEF Sweep, ReqRow
  <1>8. ASSUME NEW r \in Requests, Commit(r) PROVE TypeOK'
    <2>1. PICK t \in tx : t.by = r /\ user' = t.row
                          /\ sess' = [i \in Ids |->
                               CASE i \in t.doomed -> NoSession
                                 [] i \notin t.doomed /\ sess[i].alive ->
                                      [sess[i] EXCEPT !.factors = @ \cup UnlockFactors(t.row)]
                                 [] OTHER -> sess[i]]
      BY <1>8 DEF Commit
    <2>2. t.row \in UserRow /\ UnlockFactors(t.row) \subseteq Stamp
      BY DEF UserRow, UnlockFactors
    <2>3. sess' \in [Ids -> SessRow]
      <3>1. \A i \in Ids : sess[i] \in SessRow
                           /\ [sess[i] EXCEPT !.factors = @ \cup UnlockFactors(t.row)] \in SessRow
        BY <2>2 DEF SessRow
      <3> QED
        BY <1>0, <2>1, <3>1
    <2>4. req' \in [Requests -> ReqRow]
      BY <1>0, <1>8 DEF Commit, ReqRow
    <2>5. changes' \in Nat /\ tx' = {} /\ UNCHANGED <<issued, opened>>
      BY <1>8 DEF Commit
    <2> QED
      BY <2>1, <2>2, <2>3, <2>4, <2>5 DEF SessRow, ReqRow
  <1>9. ASSUME NEW r \in Requests, Lose(r) PROVE TypeOK'
    BY <1>0, <1>9 DEF Lose, ReqRow
  <1>10. CASE LockEnds
    BY <1>10 DEF LockEnds, UserRow
  <1>11. ASSUME NEW i \in Ids, EndSession(i) PROVE TypeOK'
    BY <1>0, <1>11 DEF EndSession, SessRow
  <1>12. CASE UNCHANGED vars
    BY <1>12 DEF vars
  <1> QED
    BY <1>1, <1>2, <1>3, <1>4, <1>5, <1>6, <1>7, <1>8, <1>9, <1>10, <1>11, <1>12 DEF Next

-----------------------------------------------------------------------------
(* The sessions *)

\* What most steps do to the sessions: keep them, end some, or change a proof
\* to one that the account has accepted during the session.
Tame ==
    /\ opened' = opened /\ changes' = changes
    /\ UnlockFactors(user') = UnlockFactors(user)
    /\ \A i \in Ids : sess'[i].alive =>
         /\ sess[i].alive
         /\ sess'[i].era = sess[i].era /\ sess'[i].raced = sess[i].raced
         /\ sess'[i].factors = sess[i].factors
         /\ sess'[i].proof \in {sess[i].proof, None} \cup sess[i].factors

LEMMA TameStep ==
    ASSUME Sessions, Tame
    PROVE  Sessions'
  BY DEF Sessions, Tame, UnlockProvesFactor, NoSessionOutlivesReset, Alive

\* What a step may do to the requests: each keeps what it read, names a session
\* that is alive, or reads the row as it is now, if it keeps what it reads.
Held ==
    \A r \in Requests :
      /\ req'[r].sid \in {0, req[r].sid} \cup Alive
      /\ req'[r].stage = "read" =>
           /\ req'[r].sid = req[r].sid
           /\ \/ req'[r].copy \in {user, Blank}
              \/ req[r].stage = "read" /\ req'[r].copy = req[r].copy

LEMMA HeldStep ==
    ASSUME TypeOK, Sessions, Copies, Held, opened' = opened,
           \A i \in Ids : sess'[i].alive => /\ sess[i].alive
                                            /\ sess[i].factors \subseteq sess'[i].factors
    PROVE  Copies'
  <1>1. \A r \in Requests : req'[r].sid <= opened'
    BY DEF TypeOK, Sessions, Copies, Held, Ids, Alive
  <1>2. ASSUME NEW r \in Requests, NEW i \in Ids,
               req'[r].stage = "read", req'[r].sid = i, sess'[i].alive
        PROVE  UnlockFactors(req'[r].copy) \subseteq sess'[i].factors
    <2>1. UnlockFactors(Blank) = {}
      BY DEF UnlockFactors, Blank
    <2>2. UnlockFactors(user) \subseteq sess[i].factors
      BY <1>2 DEF Sessions
    <2>3. CASE req'[r].copy \in {user, Blank}
      BY <1>2, <2>1, <2>2, <2>3
    <2>4. CASE req[r].stage = "read" /\ req'[r].copy = req[r].copy
      BY <1>2, <2>4 DEF Held, Copies
    <2> QED
      BY <1>2, <2>3, <2>4 DEF Held
  <1> QED
    BY <1>1, <1>2 DEF Copies

LEMMA SweptStep ==
    ASSUME Swept, tx' \subseteq tx,
           \A i \in Ids : sess'[i].alive => sess[i].alive /\ sess'[i].raced = sess[i].raced
    PROVE  Swept'
  BY DEF Swept

-----------------------------------------------------------------------------
(* The steps *)

\* Every step but these three leaves the sessions tame, the requests held, and
\* opens no transaction.
LEMMA QuietStep ==
    ASSUME IInv, Tame, Held, tx' \subseteq tx
    PROVE  Sessions' /\ Copies' /\ Swept'
  <1>1. \A i \in Ids : sess'[i].alive => /\ sess[i].alive
                                         /\ sess[i].factors \subseteq sess'[i].factors
    BY DEF Tame
  <1> QED
    BY <1>1, TameStep, HeldStep, SweptStep DEF IInv, Tame

LEMMA OpenStep ==
    ASSUME IInv, NEW r \in Requests, OpenSession(r)
    PROVE  Sessions' /\ Copies' /\ Swept'
  <1>1. /\ opened' = opened + 1 /\ opened \in Nat /\ opened + 1 \in Ids
        /\ UNCHANGED <<user, changes, tx>>
    BY AccountAssumption DEF OpenSession, IInv, TypeOK, Ids
  <1>2. /\ sess'[opened + 1] = [alive |-> TRUE, era |-> changes, raced |-> RowLocked,
                                factors |-> UnlockFactors(user), proof |-> None]
        /\ \A i \in Ids : i # opened + 1 => sess'[i] = sess[i]
    BY <1>1 DEF OpenSession, IInv, TypeOK
  <1>3. \A i \in Ids : i \in Int
    BY DEF Ids
  <1>4. Sessions'
    BY <1>1, <1>2, <1>3 DEF IInv, Sessions, UnlockProvesFactor, NoSessionOutlivesReset, Alive
  <1>5. \A q \in Requests : /\ req'[q].sid <= opened /\ req'[q].sid \in Nat
                            /\ req'[q].stage = "read" => req'[q] = req[q]
    BY <1>1 DEF OpenSession, IInv, TypeOK, Copies, Idle
  <1>6. Copies'
    BY <1>1, <1>2, <1>3, <1>5 DEF IInv, Copies
  <1>7. Swept'
    <2>1. ASSUME NEW t \in tx PROVE sess'[opened + 1].raced
      <3>1. RowLocked /\ sess'[opened + 1].raced = RowLocked
        BY <1>2 DEF RowLocked
      <3> QED
        BY <3>1
    <2>2. ASSUME NEW t \in tx', NEW i \in Ids, sess'[i].alive, i \notin t.doomed
          PROVE  sess'[i].raced
      <3>1. CASE i = opened + 1
        BY <1>1, <2>1, <3>1
      <3>2. CASE i # opened + 1
        BY <1>1, <1>2, <2>2, <3>2 DEF IInv, Swept
      <3> QED
        BY <3>1, <3>2
    <2> QED
      BY <1>1, <2>2 DEF IInv, Swept
  <1> QED
    BY <1>4, <1>6, <1>7

LEMMA SweepStep ==
    ASSUME IInv, NEW r \in Requests, Sweep(r)
    PROVE  Sessions' /\ Copies' /\ Swept'
  <1>1. Tame
    BY DEF Sweep, Tame
  <1>2. Held
    BY DEF Sweep, Held, IInv, TypeOK, Idle
  <1>3. Sessions' /\ Copies'
    BY <1>1, <1>2, TameStep, HeldStep DEF IInv, Tame
  <1>4. Swept'
    BY DEF Sweep, Swept, Alive
  <1> QED
    BY <1>3, <1>4

LEMMA CommitStep ==
    ASSUME IInv, NEW r \in Requests, Commit(r)
    PROVE  Sessions' /\ Copies' /\ Swept'
  <1>1. PICK t \in tx : /\ user' = t.row /\ opened' = opened /\ tx' = {}
                        /\ sess' = [i \in Ids |->
                            CASE i \in t.doomed -> NoSession
                              [] i \notin t.doomed /\ sess[i].alive ->
                                   [sess[i] EXCEPT !.factors = @ \cup UnlockFactors(t.row)]
                              [] OTHER -> sess[i]]
    BY DEF Commit
  <1>2. ASSUME NEW i \in Ids, sess'[i].alive
        PROVE  /\ sess[i].alive /\ sess[i].raced
               /\ sess'[i] = [sess[i] EXCEPT !.factors = @ \cup UnlockFactors(t.row)]
    <2>1. i \notin t.doomed /\ sess[i].alive
      BY <1>1, <1>2 DEF NoSession
    <2> QED
      BY <1>1, <2>1 DEF IInv, Swept
  <1>3. ASSUME NEW i \in Ids, sess'[i].alive
        PROVE  /\ sess[i].alive /\ sess'[i].raced /\ sess'[i].proof = sess[i].proof
               /\ sess'[i].factors = sess[i].factors \cup UnlockFactors(t.row)
    BY <1>2, <1>3 DEF IInv, TypeOK
  <1>4. Sessions'
    BY <1>1, <1>3 DEF IInv, Sessions, UnlockProvesFactor, NoSessionOutlivesReset, Alive
  <1>5. Held
    BY DEF Commit, Held, IInv, TypeOK, Idle
  <1>6. Copies'
    BY <1>1, <1>3, <1>5, HeldStep DEF IInv
  <1>7. Swept'
    BY <1>1 DEF Swept
  <1> QED
    BY <1>4, <1>6, <1>7

LEMMA NextStep ==
    ASSUME IInv, [Next]_vars
    PROVE  IInv'
  <1> USE DEF IInv
  <1>1. ASSUME NEW r \in Requests, Authenticate(r) \/ ReadUser(r)
        PROVE  Tame /\ Held /\ tx' \subseteq tx
    <2>1. Tame /\ tx' \subseteq tx
      BY <1>1 DEF Authenticate, ReadUser, Tame
    <2>2. /\ req'[r].sid \in {req[r].sid, 0} \cup Alive
          /\ req'[r].stage = "read" => /\ req'[r].sid = req[r].sid
                                       /\ req'[r].copy \in {user, Blank}
          /\ \A q \in Requests \ {r} : req'[q] = req[q]
      <3>1. CASE Authenticate(r)
        BY <3>1 DEF Authenticate, TypeOK, Idle
      <3>2. CASE ReadUser(r)
        BY <3>2 DEF ReadUser, TypeOK, Idle
      <3> QED
        BY <1>1, <3>1, <3>2
    <2> QED
      BY <2>1, <2>2 DEF Held
  <1>2. ASSUME NEW r \in Requests, FailLogin(r) \/ PassLogin(r)
        PROVE  Tame /\ Held /\ tx' \subseteq tx
    <2>1. UnlockFactors(user') = UnlockFactors(user)
      <3>1. CASE FailLogin(r)
        BY <3>1 DEF FailLogin, TypeOK, UserRow, UnlockFactors
      <3>2. CASE PassLogin(r)
        BY <3>2 DEF PassLogin, TypeOK, UserRow, UnlockFactors
      <3> QED
        BY <1>2, <3>1, <3>2
    <2>2. Tame /\ tx' \subseteq tx
      BY <1>2, <2>1 DEF FailLogin, PassLogin, Tame
    <2>3. Held
      BY <1>2 DEF FailLogin, PassLogin, Held, TypeOK, Idle
    <2> QED
      BY <2>2, <2>3
  <1>3. ASSUME NEW r \in Requests, Unlock(r) \/ RevokeOthers(r)
        PROVE  Tame /\ Held /\ tx' \subseteq tx
    <2>1. CASE Unlock(r)
      <3>1. PICK f \in UnlockFactors(req[r].copy) :
              sess' = [sess EXCEPT ![req[r].sid].proof =
                         IF sess[req[r].sid].alive THEN f ELSE @]
        BY <2>1 DEF Unlock
      <3>2. UNCHANGED <<user, opened, changes, tx>>
        BY <2>1 DEF Unlock
      <3>3. ASSUME NEW i \in Ids, sess'[i].alive
            PROVE  /\ sess[i].alive
                   /\ sess'[i].era = sess[i].era /\ sess'[i].raced = sess[i].raced
                   /\ sess'[i].factors = sess[i].factors
                   /\ sess'[i].proof \in {sess[i].proof, None} \cup sess[i].factors
        <4>1. CASE i = req[r].sid
          <5>1. sess'[i] = [sess[i] EXCEPT !.proof = IF sess[i].alive THEN f ELSE @]
            BY <3>1, <4>1 DEF TypeOK
          <5>2. sess[i].alive /\ sess'[i] = [sess[i] EXCEPT !.proof = f]
            BY <3>3, <5>1 DEF TypeOK
          <5>3. f \in sess[i].factors
            BY <2>1, <4>1, <5>2 DEF Copies, Unlock, Reading
          <5> QED
            BY <5>2, <5>3 DEF TypeOK
        <4>2. CASE i # req[r].sid
          BY <3>1, <3>3, <4>2 DEF TypeOK
        <4> QED
          BY <4>1, <4>2
      <3>4. Tame
        BY <3>2, <3>3 DEF Tame
      <3> QED
        BY <2>1, <3>4 DEF Unlock, Held, TypeOK, Idle
    <2>2. CASE RevokeOthers(r)
      <3>1. req[r].copy.master \in {None} \cup UnlockFactors(req[r].copy)
        BY DEF UnlockFactors
      <3>2. UNCHANGED <<user, opened, changes, tx>>
        BY <2>2 DEF RevokeOthers
      <3>3. ASSUME NEW i \in Ids, sess'[i].alive
            PROVE  /\ sess[i].alive
                   /\ sess'[i].era = sess[i].era /\ sess'[i].raced = sess[i].raced
                   /\ sess'[i].factors = sess[i].factors
                   /\ sess'[i].proof \in {sess[i].proof, None} \cup sess[i].factors
        <4>1. /\ i = req[r].sid /\ sess[i].alive
              /\ sess'[i] = [sess[i] EXCEPT !.proof = req[r].copy.master]
          BY <2>2, <3>3 DEF RevokeOthers, NoSession
        <4>2. UnlockFactors(req[r].copy) \subseteq sess[i].factors
          BY <2>2, <4>1 DEF Copies, RevokeOthers, Reading
        <4> QED
          BY <3>1, <4>1, <4>2 DEF TypeOK
      <3>4. Tame
        BY <3>2, <3>3 DEF Tame
      <3> QED
        BY <2>2, <3>4 DEF RevokeOthers, Held, TypeOK, Idle
    <2> QED
      BY <1>3, <2>1, <2>2
  <1>4. ASSUME NEW r \in Requests, Regenerate(r) PROVE Tame /\ Held /\ tx' \subseteq tx
    BY <1>4 DEF Regenerate, Tame, Held, TypeOK, UserRow, UnlockFactors, Idle
  <1>5. ASSUME NEW r \in Requests, Lose(r) PROVE Tame /\ Held /\ tx' \subseteq tx
    BY <1>5 DEF Lose, Tame, Held, TypeOK, Idle
  <1>6. CASE LockEnds \/ \E i \in Ids : EndSession(i)
    <2>1. Tame /\ Held /\ tx' \subseteq tx
      BY <1>6 DEF LockEnds, EndSession, Tame, Held, NoSession, TypeOK, UserRow, UnlockFactors
    <2> QED
      BY <2>1, QuietStep, TypeStep
  <1>7. CASE UNCHANGED vars
    <2>1. Tame /\ Held /\ tx' \subseteq tx
      BY <1>7 DEF vars, Tame, Held
    <2> QED
      BY <2>1, QuietStep, TypeStep
  <1>8. CASE \E r \in Requests :
               \/ Authenticate(r) \/ ReadUser(r) \/ FailLogin(r) \/ PassLogin(r)
               \/ Unlock(r) \/ RevokeOthers(r) \/ Regenerate(r) \/ Lose(r)
    BY <1>1, <1>2, <1>3, <1>4, <1>5, <1>8, QuietStep, TypeStep
  <1>9. CASE \E r \in Requests : OpenSession(r) \/ Sweep(r) \/ Commit(r)
    BY <1>9, OpenStep, SweepStep, CommitStep, TypeStep
  <1> QED
    BY <1>6, <1>7, <1>8, <1>9 DEF Next

-----------------------------------------------------------------------------
THEOREM Invariance == Spec => []IInv
  BY InitIInv, NextStep, PTL DEF Spec

\* The variables keep to their types, for every number of requests.
THEOREM TypeCorrect == Spec => []TypeOK
  <1>1. IInv => TypeOK
    BY DEF IInv
  <1> QED
    BY <1>1, Invariance, PTL

\* A session is unlocked only by a password or factor that the account accepted
\* during the session's life, however many requests are in flight around a
\* setup or a reset.
THEOREM ProofsAreTheSessionsOwn == Spec => []UnlockProvesFactor
  <1>1. IInv => UnlockProvesFactor
    BY DEF IInv, Sessions
  <1> QED
    BY <1>1, Invariance, PTL

\* After a setup or a reset committed, a session that is left was inserted
\* after it, or while it was committing.
THEOREM ResetsEndSessions == Spec => []NoSessionOutlivesReset
  <1>1. IInv => NoSessionOutlivesReset
    BY DEF IInv, Sessions
  <1> QED
    BY <1>1, Invariance, PTL

-----------------------------------------------------------------------------
(* The cause of a stale master *)

NoFactor(row) == row.loginKey = None /\ row.masterKey = None

Plain ==
    /\ NoFactor(user)
    /\ \A t \in tx : NoFactor(t.row)
    /\ \A r \in Requests : NoFactor(req[r].copy)
    /\ \A i \in Ids : sess[i].alive /\ sess[i].era = changes /\ ~sess[i].raced
                        => sess[i].factors \subseteq {user.master}

\* What most steps leave alone of all this.
Still ==
    /\ changes' = changes /\ tx' \subseteq tx
    /\ user'.master = user.master
    /\ user'.loginKey = user.loginKey /\ user'.masterKey = user.masterKey
    /\ \A r \in Requests : req'[r].copy \in {user, Blank, req[r].copy}
    /\ \A i \in Ids : sess'[i].alive =>
         /\ sess[i].alive /\ sess'[i].era = sess[i].era
         /\ sess'[i].raced = sess[i].raced /\ sess'[i].factors = sess[i].factors

LEMMA StillStep ==
    ASSUME Plain, Still
    PROVE  Plain'
  <1>1. NoFactor(Blank)
    BY DEF NoFactor, Blank
  <1> QED
    BY <1>1 DEF Plain, Still, NoFactor

LEMMA PlainStep ==
    ASSUME IInv, Plain, [Next]_vars, PlainSetups
    PROVE  Plain'
  <1> USE DEF IInv, TypeOK
  <1>1. ASSUME NEW r \in Requests, Authenticate(r) \/ ReadUser(r) \/ Lose(r)
        PROVE  Still
    <2>1. \A q \in Requests : req'[q].copy \in {user, Blank, req[q].copy}
      <3>1. CASE Authenticate(r)
        BY <3>1 DEF Authenticate, Idle
      <3>2. CASE ReadUser(r)
        <4>1. PICK kind \in Kinds :
                req' = [req EXCEPT ![r] =
                          IF Admissible(kind, user)
                          THEN [kind |-> kind, stage |-> "read", sid |-> @.sid,
                                copy |-> IF kind \in WritesBlind THEN Blank ELSE user]
                          ELSE Idle]
          BY <3>2 DEF ReadUser
        <4> QED
          BY <4>1 DEF Idle
      <3>3. CASE Lose(r)
        BY <3>3 DEF Lose, Idle
      <3> QED
        BY <1>1, <3>1, <3>2, <3>3
    <2>2. UNCHANGED <<user, sess, changes>> /\ tx' \subseteq tx
      BY <1>1 DEF Authenticate, ReadUser, Lose
    <2> QED
      BY <2>1, <2>2 DEF Still
  <1>2. ASSUME NEW r \in Requests, FailLogin(r) \/ PassLogin(r) \/ Regenerate(r)
        PROVE  Still
    <2>1. \A q \in Requests : req'[q].copy \in {Blank, req[q].copy}
      BY <1>2 DEF FailLogin, PassLogin, Regenerate, Idle
    <2>2. /\ user'.master = user.master
          /\ user'.loginKey = user.loginKey /\ user'.masterKey = user.masterKey
      <3>1. CASE FailLogin(r)
        BY <3>1 DEF FailLogin, UserRow
      <3>2. CASE PassLogin(r)
        BY <3>2 DEF PassLogin, UserRow
      <3>3. CASE Regenerate(r)
        BY <3>3 DEF Regenerate, UserRow
      <3> QED
        BY <1>2, <3>1, <3>2, <3>3
    <2>3. UNCHANGED <<sess, changes, tx>>
      BY <1>2 DEF FailLogin, PassLogin, Regenerate
    <2> QED
      BY <2>1, <2>2, <2>3 DEF Still
  <1>3. ASSUME NEW r \in Requests, Unlock(r) PROVE Still
    BY <1>3 DEF Unlock, Still, Idle
  <1>4. ASSUME NEW r \in Requests, RevokeOthers(r) PROVE Still
    BY <1>4 DEF RevokeOthers, Still, Idle, NoSession
  <1>5. CASE LockEnds \/ \E i \in Ids : EndSession(i)
    <2>1. Still
      BY <1>5 DEF LockEnds, EndSession, Still, NoSession, UserRow
    <2> QED
      BY <2>1, StillStep
  <1>6. CASE UNCHANGED vars
    <2>1. Still
      BY <1>6 DEF vars, Still
    <2> QED
      BY <2>1, StillStep
  <1>7. ASSUME NEW r \in Requests, OpenSession(r) PROVE Plain'
    <2>1. /\ UNCHANGED <<user, changes, tx>>
          /\ \A q \in Requests : req'[q].copy \in {Blank, req[q].copy}
          /\ \A i \in Ids : sess'[i].factors \in {sess[i].factors, UnlockFactors(user)}
          /\ \A i \in Ids : sess'[i] = sess[i] \/ sess'[i].factors = UnlockFactors(user)
      BY <1>7 DEF OpenSession, Idle
    <2>2. UnlockFactors(user) \subseteq {user.master}
      BY DEF Plain, NoFactor, UnlockFactors
    <2>3. NoFactor(Blank)
      BY DEF NoFactor, Blank
    <2> QED
      BY <2>1, <2>2, <2>3 DEF Plain, NoFactor
  <1>8. ASSUME NEW r \in Requests, Sweep(r) PROVE Plain'
    <2>1. \A t \in tx' : NoFactor(t.row)
      BY <1>8 DEF PlainSetups, NoFactor
    <2>2. UNCHANGED <<user, sess, changes>>
      BY <1>8 DEF Sweep
    <2>3. \A q \in Requests : req'[q].copy \in {Blank, req[q].copy}
      BY <1>8 DEF Sweep, Idle
    <2>4. NoFactor(Blank)
      BY DEF NoFactor, Blank
    <2> QED
      BY <2>1, <2>2, <2>3, <2>4 DEF Plain, NoFactor
  <1>9. ASSUME NEW r \in Requests, Commit(r) PROVE Plain'
    <2>1. PICK t \in tx : /\ user' = t.row /\ tx' = {}
                          /\ sess' = [i \in Ids |->
                              CASE i \in t.doomed -> NoSession
                                [] i \notin t.doomed /\ sess[i].alive ->
                                     [sess[i] EXCEPT !.factors = @ \cup UnlockFactors(t.row)]
                                [] OTHER -> sess[i]]
      BY <1>9 DEF Commit
    <2>2. \A i \in Ids : sess'[i].alive => sess'[i].raced
      BY <2>1 DEF Swept, NoSession
    <2>3. \A q \in Requests : req'[q].copy \in {Blank, req[q].copy}
      BY <1>9 DEF Commit, Idle
    <2>4. NoFactor(Blank)
      BY DEF NoFactor, Blank
    <2> QED
      BY <2>1, <2>2, <2>3, <2>4 DEF Plain, NoFactor
  <1>10. CASE \E r \in Requests :
               \/ Authenticate(r) \/ ReadUser(r) \/ FailLogin(r) \/ PassLogin(r)
               \/ Unlock(r) \/ RevokeOthers(r) \/ Regenerate(r) \/ Lose(r)
    BY <1>1, <1>2, <1>3, <1>4, <1>10, StillStep
  <1> QED
    BY <1>5, <1>6, <1>7, <1>8, <1>9, <1>10 DEF Next

\* While no setup stores a zero-knowledge factor, a session opened after a
\* reset is unlocked by the new password alone: what goes on unlocking the
\* account with an old master is the factor that the reset leaves in the row.
THEOREM StaleMasterNeedsAFactor ==
    Spec /\ [][PlainSetups]_vars => []NoStaleMaster
  <1>1. Init => Plain
    BY DEF Init, Plain, NoFactor, Blank, Idle, NoSession
  <1>2. IInv /\ Plain /\ [Next]_vars /\ [PlainSetups]_vars => Plain'
    <2> SUFFICES ASSUME IInv, Plain, [Next]_vars, [PlainSetups]_vars PROVE Plain'
      OBVIOUS
    <2>1. CASE PlainSetups
      BY <2>1, PlainStep
    <2>2. CASE UNCHANGED vars
      BY <2>2 DEF vars, Plain, NoFactor
    <2> QED
      BY <2>1, <2>2
  <1>3. IInv /\ Plain => NoStaleMaster
    <2> SUFFICES ASSUME IInv, Plain, NEW i \in Alive,
                        sess[i].era = changes, ~sess[i].raced, sess[i].proof # None
                 PROVE  sess[i].proof >= user.master
      BY DEF NoStaleMaster
    <2>1. sess[i].proof = user.master
      BY DEF IInv, Sessions, UnlockProvesFactor, Plain, Alive
    <2>2. user.master \in Int
      BY AccountAssumption DEF IInv, TypeOK, UserRow, Stamp, None
    <2> QED
      BY <2>1, <2>2
  <1> QED
    BY <1>1, <1>2, <1>3, Invariance, PTL DEF Spec
=============================================================================
