----------------------------- MODULE TwoFactor -----------------------------
(***************************************************************************)
(* The second factor of one account: enrolment, the six-digit codes of an  *)
(* authenticator, the backup codes, and the second half of a login.        *)
(*                                                                         *)
(* Every handler reads the users row once and decides on that copy.  A     *)
(* six-digit code is consumed by a compare-and-set of last_totp_step; a    *)
(* backup code by an UPDATE that wants used_at NULL.  The rows that decide *)
(* whether the factor is on are written later, by user id alone.  The      *)
(* callers know the account's password, and hold the codes they present:   *)
(* rate limits and wrong guesses are left out.  A set of backup codes is   *)
(* one code.                                                               *)
(***************************************************************************)
EXTENDS Integers

CONSTANTS
    Requests,     \* request slots: what runs at one time
    MaxNow,       \* bound: the 30-second steps the clock goes through
    MaxSecrets,   \* bound: TOTP secrets made
    MaxCodes,     \* bound: sets of backup codes made
    MaxSessions   \* bound: sessions opened

ASSUME TwoFactorAssumption ==
    /\ MaxNow \in Nat \ {0} /\ MaxSecrets \in Nat
    /\ MaxCodes \in Nat /\ MaxSessions \in Nat

VARIABLES
    now,       \* the clock, in steps
    row,       \* the users row: secret, enabled (totp_enabled_at), last (last_totp_step)
    codes,     \* the unused user_mfa_backup_codes
    made,      \* secrets and sets of codes made so far
    token,     \* whether someone holds a valid mfaToken
    sess,      \* sessions, by the order of insertion: alive, and the backup code that opened it
    opened,    \* sessions inserted so far
    taken,     \* [step, slip] -> times a code of that step was accepted
    req        \* request -> where it stands

vars == <<now, row, codes, made, token, sess, opened, taken, req>>

None == 0
Secrets == None..MaxSecrets
Codes == None..MaxCodes
Steps == 0..MaxNow + 1
Ids == 1..MaxSessions
Copy == [secret : Secrets, enabled : BOOLEAN]
Row == [secret : Secrets, enabled : BOOLEAN, last : -1..MaxNow + 1]
CopyOf(u) == [secret |-> u.secret, enabled |-> u.enabled]
Slips == {0, 1}
Managing == {"enroll", "verify", "disable", "regenerate"}
Kinds == Managing \cup {"login", "verifyLogin"}
Idle == [kind |-> "login", stage |-> "idle",
         copy |-> [secret |-> None, enabled |-> FALSE], code |-> None, found |-> {}, sid |-> 0]
Alive == {i \in Ids : sess[i].alive}

\* The transactions that update the users row: they lock it.
Writers == {r \in Requests : req[r].stage = "writing" /\ req[r].kind # "regenerate"}
\* Backup codes that an open transaction has deleted.
Deleted == UNION {req[r].found : r \in Requests}

Init ==
    /\ now = 1
    /\ row = [secret |-> None, enabled |-> FALSE, last |-> -1]
    /\ codes = {}
    /\ made = [secrets |-> 0, codes |-> 0]
    /\ token = FALSE
    /\ sess = [i \in Ids |-> [alive |-> FALSE, code |-> None]]
    /\ opened = 0
    /\ taken = [k \in Steps \X Slips |-> 0]
    /\ req = [r \in Requests |-> Idle]

-----------------------------------------------------------------------------
(* Reading the row *)

\* The checks on totp_enabled_at and the secret.  Managing takes a session,
\* which only a disable comes back to.
Admissible(kind, copy) ==
    CASE kind = "enroll" -> ~copy.enabled
      [] kind = "verify" -> ~copy.enabled /\ copy.secret # None
      [] kind = "regenerate" -> copy.enabled /\ copy.secret # None
      [] kind = "disable" -> copy.enabled => copy.secret # None
      [] kind = "verifyLogin" -> copy.enabled
      [] OTHER -> TRUE

\* A request that needs no second factor goes straight to its write.
NeedsProof(kind, copy) ==
    \/ kind \in {"verify", "regenerate", "verifyLogin"}
    \/ (kind = "disable" /\ copy.enabled)

ReadUser(r) ==
    /\ req[r].stage = "idle"
    /\ \E kind \in {k \in Kinds : /\ k \in Managing => Alive # {}
                                  /\ k = "verifyLogin" => token
                                  /\ Admissible(k, row)},
          sid \in Alive \cup {0} :
         /\ kind = "disable" <=> sid # 0
         /\ req' = [req EXCEPT ![r] =
                      [Idle EXCEPT !.kind = kind, !.copy = CopyOf(row), !.sid = sid,
                                   !.stage = IF NeedsProof(kind, row) THEN "read" ELSE "proved"]]
    /\ UNCHANGED <<now, row, codes, made, token, sess, opened, taken>>

-----------------------------------------------------------------------------
(* Proving the factor *)

\* checkTotpStep and consumeTotpStep.  The code was made for step k; the
\* absolute step is worked out with a second look at the clock, which may
\* have moved on by one (slip).  The update waits for the row.
AcceptAnyStep(r) ==                                                   \* mutant
    /\ req[r].stage = "read" /\ req[r].copy.secret # None
    /\ Writers = {}
    /\ \E k \in Steps, slip \in Slips :
         /\ k \in now - 1 .. now + 1
         /\ now + slip <= MaxNow /\ now' = now + slip
         /\ taken[<<k, slip>>] < 2
         /\ row' = [row EXCEPT !.last = k + slip]
         /\ taken' = [taken EXCEPT ![<<k, slip>>] = @ + 1]
         /\ req' = [req EXCEPT ![r].stage = "proved"]
    /\ UNCHANGED <<codes, made, token, sess, opened>>
ConsumeTotpStep(r) ==
    /\ req[r].stage = "read" /\ req[r].copy.secret # None
    /\ Writers = {}
    /\ \E k \in Steps, slip \in Slips :
         /\ k \in now - 1 .. now + 1
         /\ now + slip <= MaxNow /\ now' = now + slip
         /\ row.last < k + slip
         /\ row' = [row EXCEPT !.last = k + slip]
         /\ taken' = [taken EXCEPT ![<<k, slip>>] = @ + 1]
         /\ req' = [req EXCEPT ![r].stage = "proved"]
    /\ UNCHANGED <<codes, made, token, sess, opened>>

\* An unused backup code matches: Argon2 takes its time.
MatchCode(r) ==
    /\ req[r].stage = "read" /\ req[r].kind \in {"disable", "verifyLogin"}
    /\ \E c \in codes :
         req' = [req EXCEPT ![r].stage = IF req[r].kind = "disable" THEN "proved" ELSE "matched",
                            ![r].code = c]
    /\ UNCHANGED <<now, row, codes, made, token, sess, opened, taken>>

ClaimUsed(r) ==                                                       \* mutant
    /\ req[r].stage = "matched"
    /\ req[r].code \notin Deleted
    /\ codes' = codes \ {req[r].code}
    /\ req' = [req EXCEPT ![r].stage = "proved"]
    /\ UNCHANGED <<now, row, made, token, sess, opened, taken>>

\* UPDATE ... WHERE id AND used_at IS NULL; a deletion of the row is waited for.
ClaimCode(r) ==
    /\ req[r].stage = "matched"
    /\ req[r].code \notin Deleted
    /\ codes' = codes \ {req[r].code}
    /\ req' = [req EXCEPT ![r] = IF req[r].code \in codes
                                 THEN [@ EXCEPT !.stage = "proved"] ELSE Idle]
    /\ UNCHANGED <<now, row, made, token, sess, opened, taken>>

-----------------------------------------------------------------------------
(* Writing *)

\* enroll: a new pending secret.  It also turns a confirmed factor off.
WriteEnroll(r) ==
    /\ req[r].stage = "proved" /\ req[r].kind = "enroll"
    /\ Writers = {}
    /\ made.secrets < MaxSecrets
    /\ made' = [made EXCEPT !.secrets = @ + 1]
    /\ row' = [row EXCEPT !.secret = made.secrets + 1, !.enabled = FALSE]
    /\ req' = [req EXCEPT ![r] = Idle]
    /\ UNCHANGED <<now, codes, token, sess, opened, taken>>

\* The other three: UPDATE users (not in regenerate) and DELETE the codes,
\* which finds those committed so far and waits for another DELETE of them.
BeginWrite(r) ==
    /\ req[r].stage = "proved" /\ req[r].kind \in {"verify", "disable", "regenerate"}
    /\ req[r].kind # "regenerate" => Writers = {}
    /\ codes \cap Deleted = {}
    /\ req' = [req EXCEPT ![r].stage = "writing", ![r].found = codes,
                          ![r].copy = Idle.copy, ![r].code = None]
    /\ UNCHANGED <<now, row, codes, made, token, sess, opened, taken>>

\* The new codes, if any, and the commit.
CommitWrite(r) ==
    /\ req[r].stage = "writing"
    /\ row' = CASE req[r].kind = "verify" -> [row EXCEPT !.enabled = TRUE]
                [] req[r].kind = "disable" -> [row EXCEPT !.secret = None, !.enabled = FALSE]
                [] req[r].kind = "regenerate" -> row
    /\ IF req[r].kind = "disable"
       THEN /\ codes' = codes \ req[r].found
            /\ req' = [req EXCEPT ![r].stage = "off", ![r].found = {}]
            /\ UNCHANGED made
       ELSE /\ made.codes < MaxCodes
            /\ codes' = (codes \ req[r].found) \cup {made.codes + 1}
            /\ made' = [made EXCEPT !.codes = @ + 1]
            /\ req' = [req EXCEPT ![r] = Idle]
    /\ UNCHANGED <<now, token, sess, opened, taken>>

\* invalidateOtherSessions, after the transaction of a disable.
SweepSessions(r) ==
    /\ req[r].stage = "off"
    /\ sess' = [i \in Ids |-> IF i = req[r].sid THEN sess[i] ELSE [sess[i] EXCEPT !.alive = FALSE]]
    /\ req' = [req EXCEPT ![r] = Idle]
    /\ UNCHANGED <<now, row, codes, made, token, opened, taken>>

-----------------------------------------------------------------------------
(* Logging in *)

\* POST /auth/login with the right password, second factor on: an mfaToken.
Challenge(r) ==
    /\ req[r].stage = "proved" /\ req[r].kind = "login" /\ req[r].copy.enabled
    /\ token' = TRUE
    /\ req' = [req EXCEPT ![r] = Idle]
    /\ UNCHANGED <<now, row, codes, made, sess, opened, taken>>

\* createSession: of a login with the factor off, or of verify-login.  The
\* mfaToken is stateless and stays good.
OpenSession(r) ==
    /\ req[r].stage = "proved"
    /\ req[r].kind \in {"login", "verifyLogin"}
    /\ req[r].kind = "login" => ~req[r].copy.enabled
    /\ opened < MaxSessions
    /\ opened' = opened + 1
    /\ sess' = [sess EXCEPT ![opened + 1] =
                  [alive |-> TRUE, code |-> req[r].code]]
    /\ req' = [req EXCEPT ![r] = Idle]
    /\ UNCHANGED <<now, row, codes, made, token, taken>>

Tick ==
    /\ now < MaxNow
    /\ now' = now + 1
    /\ UNCHANGED <<row, codes, made, token, sess, opened, taken, req>>

TokenExpires ==
    /\ token
    /\ token' = FALSE
    /\ UNCHANGED <<now, row, codes, made, sess, opened, taken, req>>

\* The process or the connection dies, or the proof was wrong.
Lose(r) ==
    /\ req[r].stage # "idle"
    /\ req' = [req EXCEPT ![r] = Idle]
    /\ UNCHANGED <<now, row, codes, made, token, sess, opened, taken>>

-----------------------------------------------------------------------------
Next ==
    \/ \E r \in Requests :
         \/ ReadUser(r) \/ ConsumeTotpStep(r) \/ MatchCode(r) \/ ClaimCode(r)
         \/ WriteEnroll(r) \/ BeginWrite(r) \/ CommitWrite(r) \/ SweepSessions(r)
         \/ Challenge(r) \/ OpenSession(r) \/ Lose(r)
    \/ Tick \/ TokenExpires

Spec == Init /\ [][Next]_vars

-----------------------------------------------------------------------------
(* Properties *)

Stages == {"idle", "read", "matched", "proved", "writing", "off"}

\* Each variable holds one of the values listed above.
TypeOK ==
    /\ now \in 0..MaxNow
    /\ row \in Row
    /\ codes \subseteq Codes
    /\ made \in [secrets : Secrets, codes : Codes]
    /\ token \in BOOLEAN
    /\ sess \in [Ids -> [alive : BOOLEAN, code : Codes]]
    /\ opened \in 0..MaxSessions
    /\ taken \in [Steps \X Slips -> Nat]
    /\ req \in [Requests -> [kind : Kinds, stage : Stages, copy : Copy, code : Codes,
                             found : SUBSET Codes, sid : 0..MaxSessions]]

\* The six digits shown for a step are accepted once, by whichever of the
\* four handlers takes them first; once more only when the clock passes a
\* step boundary between the two looks a single check takes at it.
StepUsedOnce == \A k \in Steps, slip \in Slips : taken[<<k, slip>>] <= 1

\* A backup code opens one session at most, however many logins match it
\* before one of them claims it, and whatever regenerates the codes.
BackupCodeOpensOneSession ==
    \A i, j \in Ids :
      sess[i].code # None /\ i # j => sess[i].code # sess[j].code

\* twoFactor.ts calls the contrary a "pathological state": an enabled factor
\* without a secret, which locks the owner out.
EnabledHasSecret == row.enabled => row.secret # None

\* What the code does not enforce: no disable commits while a confirmation is
\* under way.  Where that holds, so does EnabledHasSecret.
VerifiesHold ==
    \A r, q \in Requests :
      CommitWrite(r) /\ req[r].kind = "disable" /\ req[q].kind = "verify"
        => req[q].stage = "idle"
=============================================================================
