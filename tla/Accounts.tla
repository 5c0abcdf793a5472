------------------------------ MODULE Accounts ------------------------------
(***************************************************************************)
(* One account without a second factor: its credentials, its sessions, and *)
(* the requests that sign in, unlock, set up the master password, reset    *)
(* with the recovery kit, make a new kit, or sign the other devices out.   *)
(*                                                                         *)
(* A request reads the users row once, outside any transaction, checks     *)
(* what it was given against that copy (Argon2 makes this slow) and writes *)
(* by id.  A setup and a reset write in a transaction that also deletes    *)
(* the sessions: it locks the users row and the sessions it found, and its *)
(* writes show when it commits.                                            *)
(*                                                                         *)
(* Passwords and kits are stamps, in the order they are made.  A zero-     *)
(* knowledge factor, the hash of a key the client derives from a password, *)
(* has the stamp of that password.                                         *)
(***************************************************************************)
EXTENDS Integers

CONSTANTS
    Requests,     \* request slots: what runs at one time
    Threshold,    \* wrong login passwords before the account is locked (5)
    MaxFails,     \* bound: the failure counter
    MaxStamps,    \* bound: passwords and kits ever made
    Derived,      \* bound: the passwords that factors are derived from
    MaxSessions   \* bound: sessions ever opened

ASSUME AccountAssumption ==
    /\ Threshold \in Nat \ {0}
    /\ MaxFails \in Nat /\ MaxStamps \in Nat \ {0} /\ MaxSessions \in Nat
    /\ Derived \subseteq 1..MaxStamps

VARIABLES
    user,      \* the users row, as committed
    issued,    \* the passwords and kits made so far
    sess,      \* the sessions table, by the order of insertion
    opened,    \* sessions inserted so far
    changes,   \* password transactions committed so far
    tx,        \* the open password transactions: one at most
    req        \* request -> where it stands

vars == <<user, issued, sess, opened, changes, tx, req>>

None == 0
Stamp == None..MaxStamps
Ids == 1..MaxSessions
\* login_password_hash, auth_key_hash, password_hash, master_auth_key_hash ...
UserRow == [login : Stamp, loginKey : Stamp, master : Stamp, masterKey : Stamp,
            kit : Stamp, fails : 0..MaxFails, locked : BOOLEAN]

\* What verify-password accepts: the password, and as a zero-knowledge factor
\* the login's for want of the master's.
UnlockFactors(row) ==
    {row.master, IF row.masterKey # None THEN row.masterKey ELSE row.loginKey} \ {None}

\* `era`, `raced` and `factors` record the insertion and what was in force
\* since: the password transactions committed by then, whether one was open,
\* and what unlocks accepted.  `proof` is the stamp that unlocked the session.
NoSession == [alive |-> FALSE, era |-> 0, raced |-> FALSE, factors |-> {}, proof |-> None]
Alive == {i \in Ids : sess[i].alive}

Kinds == {"login", "unlock", "setup", "reset", "regenerate", "revoke"}
WithSession == {"unlock", "setup", "regenerate", "revoke"}
WritesBlind == {"reset", "regenerate"}   \* what they write is not in the copy
Blank == [login |-> None, loginKey |-> None, master |-> None, masterKey |-> None,
          kit |-> None, fails |-> 0, locked |-> FALSE]
Idle == [kind |-> "login", stage |-> "idle", sid |-> 0, copy |-> Blank]

RowLocked == tx # {}
Doomed == UNION {t.doomed : t \in tx}

\* POST /auth/register: a login password and no master password yet.
Init ==
    /\ user = [Blank EXCEPT !.login = 1]
    /\ issued = 1
    /\ sess = [i \in Ids |-> NoSession]
    /\ opened = 0
    /\ changes = 0
    /\ tx = {}
    /\ req = [r \in Requests |-> Idle]

-----------------------------------------------------------------------------
(* The reads *)

\* sessionMiddleware, first half: the session row is there.
Authenticate(r) ==
    /\ req[r].stage = "idle"
    /\ \E kind \in WithSession, i \in Alive :
         req' = [req EXCEPT ![r] = [Idle EXCEPT !.kind = kind, !.stage = "known", !.sid = i]]
    /\ UNCHANGED <<user, issued, sess, opened, changes, tx>>

\* What the handler accepts, judged on its copy of the row: a lock refuses a
\* login, a reset needs a kit, an unlock some factor, the kit and the sessions
\* the master password.
Admissible(kind, copy) ==
    CASE kind = "login" -> ~copy.locked
      [] kind = "reset" -> copy.kit # None
      [] kind = "setup" -> TRUE
      [] kind = "unlock" -> UnlockFactors(copy) # {}
      [] OTHER -> copy.master # None

\* The middleware's second read, or the public handler's only one.  A refused
\* request ends here; from now on only a login may carry a wrong secret.
ReadUser(r) ==
    /\ \/ req[r].stage = "known"
       \/ req[r].stage = "idle"
    /\ \E kind \in IF req[r].stage = "known" THEN {req[r].kind} ELSE Kinds \ WithSession :
         req' = [req EXCEPT ![r] =
                   IF Admissible(kind, user)
                   THEN [kind |-> kind, stage |-> "read", sid |-> @.sid,
                         copy |-> IF kind \in WritesBlind THEN Blank ELSE user]
                   ELSE Idle]
    /\ UNCHANGED <<user, issued, sess, opened, changes, tx>>

Reading(r, kind) == req[r].kind = kind /\ req[r].stage = "read"

-----------------------------------------------------------------------------
(* POST /auth/login *)

\* A wrong password: the counter and the lock are written from the copy, which
\* had no lock in force.
FailLogin(r) ==
    /\ Reading(r, "login")
    /\ ~RowLocked
    /\ req[r].copy.fails < MaxFails
    /\ LET failed == req[r].copy.fails + 1
       IN  user' = [user EXCEPT !.fails = failed,
                                !.locked = failed >= Threshold]
    /\ req' = [req EXCEPT ![r] = Idle]
    /\ UNCHANGED <<issued, sess, opened, changes, tx>>

\* The right one resets both; the session comes with a later statement.
PassLogin(r) ==
    /\ Reading(r, "login")
    /\ ~RowLocked
    /\ user' = [user EXCEPT !.fails = 0, !.locked = FALSE]
    /\ req' = [req EXCEPT ![r] = [Idle EXCEPT !.stage = "passed"]]
    /\ UNCHANGED <<issued, sess, opened, changes, tx>>

\* createSession, after a login or a setup: a new session starts locked.
OpenSession(r) ==
    /\ req[r].stage = "passed"
    /\ opened < MaxSessions
    /\ opened' = opened + 1
    /\ sess' = [sess EXCEPT ![opened + 1] =
                  [alive |-> TRUE, era |-> changes, raced |-> RowLocked,
                   factors |-> UnlockFactors(user), proof |-> None]]
    /\ req' = [req EXCEPT ![r] = Idle]
    /\ UNCHANGED <<user, issued, changes, tx>>

\* The 15 minutes of the lock are over.
LockEnds ==
    /\ user.locked
    /\ ~RowLocked
    /\ user' = [user EXCEPT !.locked = FALSE]
    /\ UNCHANGED <<issued, sess, opened, changes, tx, req>>

-----------------------------------------------------------------------------
(* POST /me/verify-password, /me/recovery-kit/regenerate, revoke-all *)

UnlockByUser(r) ==                                                    \* mutant
    /\ Reading(r, "unlock")
    /\ Alive \cap Doomed = {}
    /\ \E f \in UnlockFactors(req[r].copy) :
         sess' = [i \in Ids |-> IF sess[i].alive THEN [sess[i] EXCEPT !.proof = f] ELSE sess[i]]
    /\ req' = [req EXCEPT ![r] = Idle]
    /\ UNCHANGED <<user, issued, opened, changes, tx>>

\* The password or factor matches the copy; the UPDATE is by session id, waits
\* for a transaction that deletes the row, and then finds nothing.
Unlock(r) ==
    /\ Reading(r, "unlock")
    /\ req[r].sid \notin Doomed
    /\ \E f \in UnlockFactors(req[r].copy) :
         sess' = [sess EXCEPT ![req[r].sid].proof = IF sess[req[r].sid].alive THEN f ELSE @]
    /\ req' = [req EXCEPT ![r] = Idle]
    /\ UNCHANGED <<user, issued, opened, changes, tx>>

Regenerate(r) ==
    /\ Reading(r, "regenerate")
    /\ ~RowLocked
    /\ issued < MaxStamps
    /\ issued' = issued + 1
    /\ user' = [user EXCEPT !.kit = issued + 1]
    /\ req' = [req EXCEPT ![r] = Idle]
    /\ UNCHANGED <<sess, opened, changes, tx>>

\* Every session but the caller's goes; the caller's is unlocked, by its id.
RevokeOthers(r) ==
    /\ Reading(r, "revoke")
    /\ Alive \cap Doomed = {}
    /\ sess' = [i \in Ids |->
                  IF i # req[r].sid THEN NoSession
                  ELSE IF sess[i].alive THEN [sess[i] EXCEPT !.proof = req[r].copy.master]
                  ELSE sess[i]]
    /\ req' = [req EXCEPT ![r] = Idle]
    /\ UNCHANGED <<user, issued, opened, changes, tx>>

\* A logout, or the expiry a later request notices.
EndSession(i) ==
    /\ i \in Alive \ Doomed
    /\ sess' = [sess EXCEPT ![i] = NoSession]
    /\ UNCHANGED <<user, issued, opened, changes, tx, req>>

-----------------------------------------------------------------------------
(* POST /me/password/setup and /auth/password/reset-with-recovery *)

\* A first setup picks the master password; a later one was given the one in
\* its copy, and stores that.  Each makes a kit; `or(isNull, true)` stops none.
\* The factors are the client's, unchecked: without one the login's is kept,
\* the master's is lost.
Factors == {None} \cup {f \in Derived : f <= issued + 1}
AfterSetup(copy, masterKey, loginKey) ==
    [user EXCEPT !.master = IF copy.master = None THEN issued + 1 ELSE copy.master,
                 !.masterKey = masterKey,
                 !.loginKey = IF loginKey = None THEN @ ELSE loginKey,
                 !.kit = issued + 2, !.fails = 0, !.locked = FALSE]
\* The new password serves for both and the kit is spent; the zero-knowledge
\* factors stay.
AfterReset ==
    [user EXCEPT !.login = issued + 1, !.master = issued + 1, !.kit = None,
                 !.fails = 0, !.locked = FALSE]
Rewrites(r) ==
    IF req[r].kind = "setup" THEN {AfterSetup(req[r].copy, m, l) : m, l \in Factors}
    ELSE {AfterReset}

\* UPDATE users, DELETE sessions: the statements of the transaction.
SweepNothing(r) ==                                                    \* mutant
    /\ req[r].stage = "read" /\ req[r].kind \in {"setup", "reset"}
    /\ ~RowLocked
    /\ issued + 2 <= MaxStamps
    /\ issued' = issued + 2
    /\ \E row \in Rewrites(r) : tx' = {[by |-> r, doomed |-> {}, row |-> row]}
    /\ req' = [req EXCEPT ![r] = [Idle EXCEPT !.kind = req[r].kind, !.stage = "writing"]]
    /\ UNCHANGED <<user, sess, opened, changes>>
Sweep(r) ==
    /\ req[r].stage = "read" /\ req[r].kind \in {"setup", "reset"}
    /\ ~RowLocked
    /\ issued + 2 <= MaxStamps
    /\ issued' = issued + 2
    /\ \E row \in Rewrites(r) : tx' = {[by |-> r, doomed |-> Alive, row |-> row]}
    /\ req' = [req EXCEPT ![r] = [Idle EXCEPT !.kind = req[r].kind, !.stage = "writing"]]
    /\ UNCHANGED <<user, sess, opened, changes>>

\* A setup goes on to open a session for its caller.
Commit(r) ==
    \E t \in tx :
      /\ t.by = r
      /\ user' = t.row
      /\ sess' = [i \in Ids |->
                    CASE i \in t.doomed -> NoSession
                      [] i \notin t.doomed /\ sess[i].alive ->
                           [sess[i] EXCEPT !.factors = @ \cup UnlockFactors(t.row)]
                      [] OTHER -> sess[i]]
      /\ changes' = changes + 1
      /\ tx' = {}
      /\ req' = [req EXCEPT ![r] = IF @.kind = "setup" THEN [@ EXCEPT !.stage = "passed"] ELSE Idle]
      /\ UNCHANGED <<issued, opened>>

\* The process or the connection dies, or the secret was wrong: an open
\* transaction rolls back.
Lose(r) ==
    /\ req[r].stage # "idle"
    /\ tx' = {t \in tx : t.by # r}
    /\ req' = [req EXCEPT ![r] = Idle]
    /\ UNCHANGED <<user, issued, sess, opened, changes>>

-----------------------------------------------------------------------------
Next ==
    \/ \E r \in Requests :
         \/ Authenticate(r) \/ ReadUser(r) \/ FailLogin(r) \/ PassLogin(r) \/ OpenSession(r)
         \/ Unlock(r) \/ Regenerate(r) \/ RevokeOthers(r)
         \/ Sweep(r) \/ Commit(r) \/ Lose(r)
    \/ LockEnds
    \/ \E i \in Ids : EndSession(i)

Spec == Init /\ [][Next]_vars

-----------------------------------------------------------------------------
(* Properties *)

\* Each column, session, transaction and request has one of the values above.
TypeOK ==
    /\ user \in UserRow
    /\ issued \in Stamp
    /\ sess \in [Ids -> [alive : BOOLEAN, era : Nat, raced : BOOLEAN,
                         factors : SUBSET Stamp, proof : Stamp]]
    /\ opened \in 0..MaxSessions
    /\ changes \in Nat
    /\ tx \subseteq [by : Requests, doomed : SUBSET Ids, row : UserRow]
    /\ req \in [Requests -> [kind : Kinds, stage : {"idle", "known", "read", "writing", "passed"},
                             sid : 0..MaxSessions, copy : UserRow]]

\* A session is unlocked only by a password or factor that the account accepted
\* at some moment of that session's own life: a proof given to another session,
\* or checked against a row read before the session, opens none that came after
\* the account ceased to accept it.
UnlockProvesFactor ==
    \A i \in Alive : sess[i].proof # None => sess[i].proof \in sess[i].factors

\* "Nuke every active session": after a setup or a reset the only sessions
\* left are younger than it, or were inserted while it was committing.
NoSessionOutlivesReset == \A i \in Alive : sess[i].era = changes \/ sess[i].raced

-----------------------------------------------------------------------------
(* A promise the code does not keep *)

\* "A single fresh credential, no split-brain where login works but unlock uses
\* a stale master": once the row is as a reset leaves it (the two passwords are
\* one), the sessions opened since the last change of passwords are unlocked by
\* nothing older.
NoStaleMaster ==
    \A i \in Alive :
      user.login = user.master /\ sess[i].era = changes /\ ~sess[i].raced
        => sess[i].proof = None \/ sess[i].proof >= user.master

\* The condition on a step under which it does: no setup stores a factor.
PlainSetups ==
    \A r \in Requests : Sweep(r) =>
      \A t \in tx' : t.row.loginKey = None /\ t.row.masterKey = None
=============================================================================
