-------------------------- MODULE OrgMembersProofs --------------------------
(***************************************************************************)
(* Proofs about OrgMembers for any accounts, roles and requests in flight. *)
(*                                                                         *)
(* TypeOK rests on the fact that a request in flight names an invitation   *)
(* that is still there as long as the workspace is, and that an acceptance *)
(* is for the invited account (RequestsSound).                             *)
(***************************************************************************)
EXTENDS OrgMembers, FiniteSetTheorems, TLAPS

Sound(q) ==
    exists => /\ q.op \in {"refresh invite", "revoke invite", "accept"} => invites[q.row] # NoInvite
              /\ q.op = "accept" => invites[q.row].email = q.by

RequestsSound == \A r \in Requests : Sound(req[r])

IInv == TypeOK /\ RequestsSound /\ AtMostOneOwner

-----------------------------------------------------------------------------
(* A request has the fields its op calls for. *)

LEMMA RequestShape ==
    ASSUME NEW q \in Request
    PROVE  /\ q.op = "patch" => q.target \in Users /\ q.role \in Assignable
           /\ q.op \in {"remove", "transfer"} => q.by \in Users /\ q.target \in Users
           /\ q.op = "create invite" => q.email \in Users /\ q.role \in Assignable
           /\ q.op = "refresh invite" => q.row \in Invites /\ q.role \in Assignable
           /\ q.op = "revoke invite" => q.row \in Invites
           /\ q.op = "accept" => /\ q.by \in Users
                                 /\ q.row \in Invites
                                 /\ q.role \in Assignable
                                 /\ q.member \in BOOLEAN
  <1>1. CASE q = Idle
    BY <1>1 DEF Idle
  <1>2. CASE q \in [op : {"patch"}, by : Users, target : Users, role : Assignable]
    BY <1>2
  <1>3. CASE q \in [op : {"remove", "transfer"}, by : Users, target : Users]
    BY <1>3
  <1>4. CASE q \in [op : {"delete"}, by : Users]
    BY <1>4
  <1>5. CASE q \in [op : {"create invite"}, email : Users, role : Assignable]
    BY <1>5
  <1>6. CASE q \in [op : {"refresh invite"}, row : Invites, role : Assignable]
    BY <1>6
  <1>7. CASE q \in [op : {"revoke invite"}, row : Invites]
    BY <1>7
  <1>8. CASE q \in [op : {"accept"}, by : Users, row : Invites, role : Assignable,
                    member : BOOLEAN]
    BY <1>8
  <1> QED
    BY <1>1, <1>2, <1>3, <1>4, <1>5, <1>6, <1>7, <1>8 DEF Request

LEMMA RowShape ==
    ASSUME TypeOK, NEW i \in Invites, invites[i] # NoInvite
    PROVE  invites[i] \in InviteRow
  BY DEF TypeOK

LEMMA InitIInv == Init => IInv
  <1> SUFFICES ASSUME Init PROVE IInv
    OBVIOUS
  <1>1. TypeOK
    BY OrgAssumption DEF Init, TypeOK, Request, OrgRole, Assignable
  <1>2. RequestsSound
    BY DEF Init, RequestsSound, Sound, Idle
  <1>3. AtMostOneOwner
    BY DEF Init, AtMostOneOwner
  <1> QED
    BY <1>1, <1>2, <1>3 DEF IInv

-----------------------------------------------------------------------------
(* The checks only put a well-formed request into req. *)

LEMMA StartIInv ==
    ASSUME IInv, NEW r \in Requests, NEW q \in Request, Sound(q), Start(r, q)
    PROVE  IInv'
  <1>1. req' = [req EXCEPT ![r] = q] /\ exists' = exists /\ role' = role /\ invites' = invites
    BY DEF Start
  <1>2. TypeOK'
    BY <1>1 DEF IInv, TypeOK
  <1>3. \A s \in Requests : Sound(req'[s])
    BY <1>1 DEF IInv, TypeOK, RequestsSound
  <1>4. RequestsSound'
    BY <1>1, <1>3 DEF RequestsSound, Sound
  <1>5. AtMostOneOwner'
    BY <1>1 DEF IInv, AtMostOneOwner, Owners
  <1> QED
    BY <1>2, <1>4, <1>5 DEF IInv

\* A passed check leaves a sound request, and what CheckAccept read is there.
LEMMA CheckStarts ==
    ASSUME IInv, NEW r \in Requests, Check(r)
    PROVE  \E q \in Request : Sound(q) /\ Start(r, q)
  <1> USE DEF IInv
  <1>a. GrantRoles \subseteq Assignable /\ Actors \subseteq Users
    BY OrgAssumption
  <1>1. ASSUME NEW u \in Actors, NEW target \in Users, NEW new \in GrantRoles,
               CheckPatch(r, u, target, new)
        PROVE  \E q \in Request : Sound(q) /\ Start(r, q)
    <2> DEFINE q == [op |-> "patch", by |-> u, target |-> target, role |-> new]
    <2>1. q \in Request /\ Sound(q)
      BY <1>a DEF Request, Sound
    <2>2. Start(r, q)
      BY <1>1 DEF CheckPatch
    <2> QED
      BY <2>1, <2>2
  <1>2. ASSUME NEW u \in Actors, NEW target \in Users, CheckRemove(r, u, target)
        PROVE  \E q \in Request : Sound(q) /\ Start(r, q)
    <2> DEFINE q == [op |-> "remove", by |-> u, target |-> target]
    <2>1. q \in Request /\ Sound(q)
      BY <1>a DEF Request, Sound
    <2>2. Start(r, q)
      BY <1>2 DEF CheckRemove
    <2> QED
      BY <2>1, <2>2
  <1>3. ASSUME NEW u \in Actors, NEW target \in Users, CheckTransfer(r, u, target)
        PROVE  \E q \in Request : Sound(q) /\ Start(r, q)
    <2> DEFINE q == [op |-> "transfer", by |-> u, target |-> target]
    <2>1. q \in Request /\ Sound(q)
      BY <1>a DEF Request, Sound
    <2>2. Start(r, q)
      BY <1>3 DEF CheckTransfer
    <2> QED
      BY <2>1, <2>2
  <1>4. ASSUME NEW u \in Actors, NEW email \in Users, NEW new \in GrantRoles,
               CheckInvite(r, u, email, new)
        PROVE  \E q \in Request : Sound(q) /\ Start(r, q)
    <2>1. CASE PendingFor(email) = {}
      <3> DEFINE q == [op |-> "create invite", email |-> email, role |-> new]
      <3>1. q \in Request /\ Sound(q)
        BY <1>a DEF Request, Sound
      <3>2. Start(r, q)
        BY <1>4, <2>1 DEF CheckInvite
      <3> QED
        BY <3>1, <3>2
    <2>2. CASE PendingFor(email) # {}
      <3>1. PICK i \in PendingFor(email) :
              Start(r, [op |-> "refresh invite", row |-> i, role |-> new])
        BY <1>4, <2>2 DEF CheckInvite
      <3> DEFINE q == [op |-> "refresh invite", row |-> i, role |-> new]
      <3>2. i \in Invites /\ invites[i] # NoInvite
        BY DEF PendingFor, Pending
      <3>3. q \in Request /\ Sound(q)
        BY <1>a, <3>2 DEF Request, Sound
      <3> QED
        BY <3>1, <3>3
    <2> QED
      BY <2>1, <2>2
  <1>5. ASSUME NEW u \in Actors, CheckDelete(r, u)
        PROVE  \E q \in Request : Sound(q) /\ Start(r, q)
    <2> DEFINE q == [op |-> "delete", by |-> u]
    <2>1. q \in Request /\ Sound(q)
      BY <1>a DEF Request, Sound
    <2>2. Start(r, q)
      BY <1>5 DEF CheckDelete
    <2> QED
      BY <2>1, <2>2
  <1>6. ASSUME NEW u \in Actors, NEW i \in Invites, CheckRevoke(r, u, i)
        PROVE  \E q \in Request : Sound(q) /\ Start(r, q)
    <2> DEFINE q == [op |-> "revoke invite", row |-> i]
    <2>1. q \in Request /\ Sound(q)
      BY <1>6 DEF Request, Sound, CheckRevoke
    <2>2. Start(r, q)
      BY <1>6 DEF CheckRevoke
    <2> QED
      BY <2>1, <2>2
  <1>7. ASSUME NEW i \in Invites, CheckAccept(r, i)
        PROVE  \E q \in Request : Sound(q) /\ Start(r, q)
    <2>1. invites[i] # NoInvite
      BY <1>7 DEF CheckAccept, Pending
    <2>2. invites[i].email \in Users /\ invites[i].role \in Assignable
      BY <2>1, RowShape DEF InviteRow
    <2> DEFINE q == [op |-> "accept", by |-> invites[i].email, row |-> i,
                     role |-> invites[i].role, member |-> role[invites[i].email] # NoRole]
    <2>3. q \in Request /\ Sound(q)
      BY <2>1, <2>2 DEF Request, Sound
    <2>4. Start(r, q)
      BY <1>7 DEF CheckAccept
    <2> QED
      BY <2>3, <2>4
  <1> QED
    BY <1>1, <1>2, <1>3, <1>4, <1>5, <1>6, <1>7 DEF Check

-----------------------------------------------------------------------------
(* The transactions *)

\* What every commit leaves of the requests: the finished one is idle.
LEMMA FinishSound ==
    ASSUME IInv, NEW r \in Requests, NEW op, Finish(r, op),
           \A i \in Invites : exists' /\ invites[i] # NoInvite
             => invites'[i] # NoInvite /\ invites'[i].email = invites[i].email,
           exists' => exists
    PROVE  req' \in [Requests -> Request] /\ RequestsSound'
  <1>1. req' = [req EXCEPT ![r] = Idle] /\ req \in [Requests -> Request]
    BY DEF Finish, IInv, TypeOK
  <1>2. Idle \in Request /\ Idle.op = "idle"
    BY DEF Request, Idle
  <1>3. ASSUME NEW s \in Requests PROVE Sound(req[s])'
    <2>1. CASE s = r
      BY <1>1, <1>2, <2>1 DEF Sound
    <2>2. CASE s # r
      <3>1. req'[s] = req[s] /\ req[s] \in Request /\ Sound(req[s])
        BY <1>1, <2>2 DEF IInv, RequestsSound
      <3>2. req[s].op \in {"refresh invite", "revoke invite", "accept"} => req[s].row \in Invites
        BY <3>1, RequestShape
      <3> QED
        BY <3>1, <3>2 DEF Sound
    <2> QED
      BY <2>1, <2>2
  <1> QED
    BY <1>1, <1>2, <1>3 DEF RequestsSound

\* Only the transfer can make somebody the owner.
LEMMA OwnersShrink ==
    ASSUME IInv, role' \in [Users -> OrgRole \cup {NoRole}],
           \A u \in Users : role'[u] = "owner" => role[u] = "owner"
    PROVE  AtMostOneOwner'
  BY DEF IInv, AtMostOneOwner, Owners

LEMMA MemberCommitIInv ==
    ASSUME IInv, NEW r \in Requests,
           CommitPatch(r) \/ CommitRemove(r) \/ CommitTransfer(r) \/ CommitDelete(r)
    PROVE  IInv'
  <1>a. req[r] \in Request /\ role \in [Users -> OrgRole \cup {NoRole}]
    BY DEF IInv, TypeOK
  <1>1. CASE CommitPatch(r)
    <2>1. req[r].op = "patch" /\ req[r].target \in Users /\ req[r].role \in Assignable
      BY <1>1, <1>a, RequestShape DEF CommitPatch, Finish
    <2>2. role' \in [Users -> OrgRole \cup {NoRole}]
          /\ \A u \in Users : role'[u] = "owner" => role[u] = "owner"
      BY <1>1, <1>a, <2>1 DEF CommitPatch, Assignable
    <2>3. req' \in [Requests -> Request] /\ RequestsSound'
      BY <1>1, FinishSound DEF CommitPatch
    <2> QED
      BY <1>1, <2>2, <2>3, OwnersShrink DEF CommitPatch, IInv, TypeOK
  <1>2. CASE CommitRemove(r)
    <2>1. role' \in [Users -> OrgRole \cup {NoRole}]
          /\ \A u \in Users : role'[u] = "owner" => role[u] = "owner"
      BY <1>2, <1>a DEF CommitRemove, NoRole
    <2>2. req' \in [Requests -> Request] /\ RequestsSound'
      BY <1>2, FinishSound DEF CommitRemove
    <2> QED
      BY <1>2, <2>1, <2>2, OwnersShrink DEF CommitRemove, IInv, TypeOK
  <1>3. CASE CommitTransfer(r)
    <2> DEFINE q == req[r]
    <2>1. q.by \in Users /\ q.target \in Users
      BY <1>3, <1>a, RequestShape DEF CommitTransfer, Finish
    <2>2. req' \in [Requests -> Request] /\ RequestsSound'
      BY <1>3, FinishSound DEF CommitTransfer
    <2>3. CASE role[q.target] # NoRole /\ Owners \subseteq {q.by, q.target}
      <3>1. role' = [role EXCEPT ![q.by] = IF @ = NoRole THEN NoRole ELSE "admin",
                                 ![q.target] = "owner"]
        BY <1>3, <2>3 DEF CommitTransfer, HandOver
      <3>2. role' \in [Users -> OrgRole \cup {NoRole}]
        BY <1>a, <2>1, <3>1 DEF OrgRole
      <3>3. \A u \in Users : role'[u] = "owner" => u = q.target
        BY <1>a, <2>1, <2>3, <3>1 DEF Owners, NoRole
      <3>4. AtMostOneOwner'
        BY <3>3 DEF AtMostOneOwner, Owners
      <3> QED
        BY <1>3, <2>2, <3>2, <3>4 DEF CommitTransfer, IInv, TypeOK
    <2>4. CASE ~(role[q.target] # NoRole /\ Owners \subseteq {q.by, q.target})
      <3>1. role' = role
        BY <1>3, <2>4 DEF CommitTransfer
      <3> QED
        BY <1>3, <2>2, <3>1 DEF CommitTransfer, IInv, TypeOK, AtMostOneOwner, Owners
    <2> QED
      BY <2>3, <2>4
  <1>4. CASE CommitDelete(r)
    <2>1. exists' = FALSE /\ role' = [u \in Users |-> NoRole]
          /\ invites' = [i \in Invites |-> NoInvite]
      BY <1>4 DEF CommitDelete
    <2>2. req' \in [Requests -> Request] /\ RequestsSound'
      BY <1>4, <2>1, FinishSound DEF CommitDelete
    <2>3. AtMostOneOwner'
      BY <2>1 DEF AtMostOneOwner, Owners, NoRole
    <2> QED
      BY <2>1, <2>2, <2>3 DEF IInv, TypeOK
  <1> QED
    BY <1>1, <1>2, <1>3, <1>4

\* A changed invitation row stays a row for the same address.
LEMMA RowChange ==
    ASSUME IInv, NEW i \in Invites, NEW row \in InviteRow,
           invites[i] # NoInvite => row.email = invites[i].email,
           invites' = [invites EXCEPT ![i] = row]
    PROVE  /\ invites' \in [Invites -> InviteRow \cup {NoInvite}]
           /\ \A j \in Invites : invites[j] # NoInvite
                => invites'[j] # NoInvite /\ invites'[j].email = invites[j].email
  <1>1. row # NoInvite
    BY DEF InviteRow, NoInvite
  <1> QED
    BY <1>1 DEF IInv, TypeOK

LEMMA InviteCommitIInv ==
    ASSUME IInv, NEW r \in Requests,
           \/ CommitCreateInvite(r)
           \/ CommitRefreshInvite(r)
           \/ CommitRevoke(r)
           \/ CommitAccept(r)
    PROVE  IInv'
  <1>a. req[r] \in Request /\ role \in [Users -> OrgRole \cup {NoRole}]
        /\ invites \in [Invites -> InviteRow \cup {NoInvite}]
    BY DEF IInv, TypeOK
  <1>b. Sound(req[r])
    BY DEF IInv, RequestsSound
  <1> DEFINE q == req[r]
  <1>1. CASE CommitCreateInvite(r)
    <2>1. q.email \in Users /\ q.role \in Assignable
      BY <1>1, <1>a, RequestShape DEF CommitCreateInvite, Finish
    <2>2. CASE exists
      <3>1. PICK i \in Invites :
              /\ invites[i] = NoInvite
              /\ invites' = [invites EXCEPT ![i] =
                   [state |-> "sent", email |-> q.email, role |-> q.role,
                    expired |-> FALSE, accepted |-> FALSE, revoked |-> FALSE]]
        BY <1>1, <2>2 DEF CommitCreateInvite
      <3>2. [state |-> "sent", email |-> q.email, role |-> q.role,
             expired |-> FALSE, accepted |-> FALSE, revoked |-> FALSE] \in InviteRow
        BY <2>1 DEF InviteRow
      <3>3. /\ invites' \in [Invites -> InviteRow \cup {NoInvite}]
            /\ \A j \in Invites : invites[j] # NoInvite
                 => invites'[j] # NoInvite /\ invites'[j].email = invites[j].email
        BY <3>1, <3>2, RowChange
      <3>4. exists' = exists /\ role' = role /\ Finish(r, "create invite")
        BY <1>1, <2>2 DEF CommitCreateInvite
      <3>5. req' \in [Requests -> Request] /\ RequestsSound'
        BY <3>3, <3>4, FinishSound
      <3> QED
        BY <3>3, <3>4, <3>5 DEF IInv, TypeOK, AtMostOneOwner, Owners
    <2>3. CASE ~exists
      <3>1. exists' = exists /\ role' = role /\ invites' = invites /\ Finish(r, "create invite")
        BY <1>1, <2>3 DEF CommitCreateInvite, Nothing
      <3>2. req' \in [Requests -> Request] /\ RequestsSound'
        BY <3>1, FinishSound
      <3> QED
        BY <3>1, <3>2 DEF IInv, TypeOK, AtMostOneOwner, Owners
    <2> QED
      BY <2>2, <2>3
  <1>2. CASE CommitRefreshInvite(r) \/ CommitRevoke(r)
    <2>1. q.row \in Invites /\ exists' = exists /\ role' = role
      BY <1>2, <1>a, RequestShape DEF CommitRefreshInvite, CommitRevoke, Finish
    <2>2. /\ invites' \in [Invites -> InviteRow \cup {NoInvite}]
          /\ \A j \in Invites : invites[j] # NoInvite
               => invites'[j] # NoInvite /\ invites'[j].email = invites[j].email
      <3>1. CASE invites[q.row] = NoInvite
        BY <1>2, <1>a, <3>1 DEF CommitRefreshInvite, CommitRevoke
      <3>2. CASE CommitRefreshInvite(r) /\ invites[q.row] # NoInvite
        <4> DEFINE row == [invites[q.row] EXCEPT !.role = q.role, !.expired = FALSE]
        <4>1. q.role \in Assignable
          BY <3>2, <1>a, RequestShape DEF CommitRefreshInvite, Finish
        <4>2. invites[q.row] \in InviteRow
          BY <2>1, <3>2, <1>a
        <4>3. row \in InviteRow /\ row.email = invites[q.row].email
          BY <4>1, <4>2 DEF InviteRow
        <4>4. invites' = [invites EXCEPT ![q.row] = row]
          BY <2>1, <3>2, <1>a DEF CommitRefreshInvite
        <4> QED
          BY <2>1, <4>3, <4>4, RowChange
      <3>3. CASE CommitRevoke(r) /\ invites[q.row] # NoInvite
        <4> DEFINE row == [invites[q.row] EXCEPT !.revoked = TRUE]
        <4>1. invites[q.row] \in InviteRow
          BY <2>1, <3>3, <1>a
        <4>2. row \in InviteRow /\ row.email = invites[q.row].email
          BY <4>1 DEF InviteRow
        <4>3. invites' = [invites EXCEPT ![q.row] = row]
          BY <2>1, <3>3, <1>a DEF CommitRevoke
        <4> QED
          BY <2>1, <4>2, <4>3, RowChange
      <3> QED
        BY <1>2, <3>1, <3>2, <3>3
    <2>3. req' \in [Requests -> Request] /\ RequestsSound'
      BY <1>2, <2>1, <2>2, FinishSound DEF CommitRefreshInvite, CommitRevoke
    <2> QED
      BY <2>1, <2>2, <2>3 DEF IInv, TypeOK, AtMostOneOwner, Owners
  <1>3. CASE CommitAccept(r)
    <2>1. q.op = "accept" /\ q.by \in Users /\ q.row \in Invites /\ q.role \in Assignable
          /\ Finish(r, "accept")
      BY <1>3, <1>a, RequestShape DEF CommitAccept, Finish
    <2>2. CASE ~exists \/ (~q.member /\ role[q.by] # NoRole)
      <3>1. exists' = exists /\ role' = role /\ invites' = invites
        BY <1>3, <2>2 DEF CommitAccept, Nothing
      <3>2. req' \in [Requests -> Request] /\ RequestsSound'
        BY <2>1, <3>1, FinishSound
      <3> QED
        BY <3>1, <3>2 DEF IInv, TypeOK, AtMostOneOwner, Owners
    <2>3. CASE exists /\ ~(~q.member /\ role[q.by] # NoRole)
      <3>1. /\ role' = IF q.member THEN role ELSE [role EXCEPT ![q.by] = q.role]
            /\ invites' = [invites EXCEPT ![q.row].accepted = TRUE]
            /\ exists' = exists
        BY <1>3, <2>3 DEF CommitAccept
      <3>2. invites[q.row] \in InviteRow
        BY <1>a, <1>b, <2>1, <2>3 DEF Sound
      <3> DEFINE row == [invites[q.row] EXCEPT !.accepted = TRUE]
      <3>3. row \in InviteRow /\ row.email = invites[q.row].email
        BY <3>2 DEF InviteRow
      <3>4. invites' = [invites EXCEPT ![q.row] = row]
        BY <1>a, <2>1, <3>1
      <3>5. /\ invites' \in [Invites -> InviteRow \cup {NoInvite}]
            /\ \A j \in Invites : invites[j] # NoInvite
                 => invites'[j] # NoInvite /\ invites'[j].email = invites[j].email
        BY <2>1, <3>3, <3>4, RowChange
      <3>6. req' \in [Requests -> Request] /\ RequestsSound'
        BY <2>1, <3>1, <3>5, FinishSound
      <3>7. role' \in [Users -> OrgRole \cup {NoRole}]
            /\ \A u \in Users : role'[u] = "owner" => role[u] = "owner"
        BY <1>a, <2>1, <3>1 DEF Assignable
      <3> QED
        BY <3>1, <3>5, <3>6, <3>7, OwnersShrink DEF IInv, TypeOK
    <2> QED
      BY <2>2, <2>3
  <1> QED
    BY <1>1, <1>2, <1>3

LEMMA ClockIInv ==
    ASSUME IInv, NEW i \in Invites,
           InviteExpires(i) \/ \E u \in Actors : ResendInvite(u, i)
    PROVE  IInv'
  <1>1. PICK e \in BOOLEAN : invites' = [invites EXCEPT ![i].expired = e]
    BY DEF InviteExpires, ResendInvite
  <1>2. invites[i] # NoInvite /\ exists' = exists /\ role' = role /\ req' = req
    BY DEF InviteExpires, ResendInvite, Pending
  <1> DEFINE row == [invites[i] EXCEPT !.expired = e]
  <1>3. invites[i] \in InviteRow
    BY <1>2, RowShape DEF IInv
  <1>4. row \in InviteRow /\ row.email = invites[i].email
    BY <1>3 DEF InviteRow
  <1>5. invites' = [invites EXCEPT ![i] = row]
    BY <1>1, <1>2 DEF IInv, TypeOK
  <1>6. /\ invites' \in [Invites -> InviteRow \cup {NoInvite}]
        /\ \A j \in Invites : invites[j] # NoInvite
             => invites'[j] # NoInvite /\ invites'[j].email = invites[j].email
    BY <1>4, <1>5, RowChange
  <1>7. ASSUME NEW s \in Requests PROVE Sound(req[s])'
    <2>1. Sound(req[s]) /\ req[s] \in Request
      BY DEF IInv, RequestsSound, TypeOK
    <2>2. req[s].op \in {"refresh invite", "revoke invite", "accept"} => req[s].row \in Invites
      BY <2>1, RequestShape
    <2> QED
      BY <1>2, <1>6, <2>1, <2>2 DEF Sound
  <1> QED
    BY <1>2, <1>6, <1>7 DEF IInv, TypeOK, RequestsSound, AtMostOneOwner, Owners

LEMMA StepIInv == IInv /\ [Next]_vars => IInv'
  <1> SUFFICES ASSUME IInv, [Next]_vars PROVE IInv'
    OBVIOUS
  <1>1. ASSUME NEW r \in Requests, Check(r) PROVE IInv'
    BY <1>1, CheckStarts, StartIInv
  <1>2. ASSUME NEW r \in Requests, Commit(r) PROVE IInv'
    BY <1>2, MemberCommitIInv, InviteCommitIInv DEF Commit
  <1>3. ASSUME NEW i \in Invites, InviteExpires(i) \/ \E u \in Actors : ResendInvite(u, i)
        PROVE  IInv'
    BY <1>3, ClockIInv
  <1>4. CASE UNCHANGED vars
    BY <1>4 DEF vars, IInv, TypeOK, RequestsSound, Sound, AtMostOneOwner, Owners
  <1> QED
    BY <1>1, <1>2, <1>3, <1>4 DEF Next

-----------------------------------------------------------------------------
LEMMA Invariant == Spec => []IInv
  BY InitIInv, StepIInv, PTL DEF Spec

\* Every row and every request in flight has its declared shape.
THEOREM MembersTypeCorrect == Spec => []TypeOK
  <1>1. IInv => TypeOK
    BY DEF IInv
  <1> QED
    BY <1>1, Invariant, PTL

\* However many transfers race, there are never two owners.
THEOREM NeverTwoOwners == Spec => []AtMostOneOwner
  <1>1. IInv => AtMostOneOwner
    BY DEF IInv
  <1> QED
    BY <1>1, Invariant, PTL

-----------------------------------------------------------------------------
(* What a step may do to the roles. *)

\* A step that changes roles is one of four commits.
LEMMA RoleSteps ==
    ASSUME IInv, [Next]_vars, role' # role
    PROVE  \E r \in Requests :
             \/ CommitPatch(r)
             \/ CommitRemove(r)
             \/ CommitTransfer(r)
             \/ CommitDelete(r)
             \/ CommitAccept(r)
  <1>1. ASSUME NEW r \in Requests, Check(r) PROVE role' = role
    BY <1>1, CheckStarts DEF Start
  <1>2. ASSUME NEW r \in Requests,
               CommitCreateInvite(r) \/ CommitRefreshInvite(r) \/ CommitRevoke(r)
        PROVE  role' = role
    BY <1>2 DEF CommitCreateInvite, CommitRefreshInvite, CommitRevoke, Nothing
  <1>3. ASSUME NEW i \in Invites, InviteExpires(i) \/ \E u \in Actors : ResendInvite(u, i)
        PROVE  role' = role
    BY <1>3 DEF InviteExpires, ResendInvite
  <1>4. ASSUME UNCHANGED vars PROVE role' = role
    BY <1>4 DEF vars
  <1>5. PICK r \in Requests : Commit(r)
    BY <1>1, <1>3, <1>4 DEF Next
  <1> QED
    BY <1>2, <1>5 DEF Commit

\* A deleted workspace stays deleted.
LEMMA ExistsSteps == ASSUME IInv, [Next]_vars, exists' PROVE exists
  <1>1. ASSUME NEW r \in Requests, Check(r) PROVE exists' = exists
    BY <1>1, CheckStarts DEF Start
  <1>2. ASSUME NEW r \in Requests, Commit(r) PROVE exists' = exists \/ exists' = FALSE
    BY <1>2 DEF Commit, CommitPatch, CommitRemove, CommitTransfer, CommitDelete,
                CommitCreateInvite, CommitRefreshInvite, CommitRevoke, CommitAccept, Nothing
  <1> QED
    BY <1>1, <1>2 DEF Next, ResendInvite, InviteExpires, vars

\* Only an acceptance gives a role to somebody who has none.
LEMMA JoinRequest ==
    ASSUME IInv, [Next]_vars, NEW u \in Users, role[u] = NoRole, role'[u] # NoRole
    PROVE  \E r \in Requests : CommitAccept(r) /\ exists /\ req[r].by = u
  <1>a. role \in [Users -> OrgRole \cup {NoRole}]
    BY DEF IInv, TypeOK
  <1>1. PICK r \in Requests :
          \/ CommitPatch(r)
          \/ CommitRemove(r)
          \/ CommitTransfer(r)
          \/ CommitDelete(r)
          \/ CommitAccept(r)
    BY RoleSteps
  <1>2. ASSUME CommitPatch(r) PROVE FALSE
    BY <1>2, <1>a DEF CommitPatch
  <1>3. ASSUME CommitRemove(r) PROVE FALSE
    BY <1>3, <1>a DEF CommitRemove
  <1>4. ASSUME CommitTransfer(r) PROVE FALSE
    BY <1>4, <1>a DEF CommitTransfer, HandOver
  <1>5. ASSUME CommitDelete(r) PROVE FALSE
    BY <1>5 DEF CommitDelete
  <1>6. CommitAccept(r)
    BY <1>1, <1>2, <1>3, <1>4, <1>5
  <1>7. exists /\ role' = (IF req[r].member THEN role ELSE [role EXCEPT ![req[r].by] = req[r].role])
    BY <1>6 DEF CommitAccept, Nothing
  <1> QED
    BY <1>6, <1>7, <1>a

LEMMA JoinStep ==
    ASSUME IInv, [Next]_vars, NEW u \in Users, role[u] = NoRole, role'[u] # NoRole
    PROVE  \E i \in Invites : /\ invites[i] # NoInvite
                              /\ invites[i].email = u
                              /\ invites'[i].accepted
  <1>a. invites \in [Invites -> InviteRow \cup {NoInvite}] /\ req \in [Requests -> Request]
    BY DEF IInv, TypeOK
  <1>1. PICK r \in Requests : CommitAccept(r) /\ exists /\ req[r].by = u
    BY JoinRequest
  <1> DEFINE q == req[r]
  <1>2. q.op = "accept" /\ q.row \in Invites
    BY <1>1, <1>a, RequestShape DEF CommitAccept, Finish
  <1>3. invites' = [invites EXCEPT ![q.row].accepted = TRUE]
    BY <1>1 DEF CommitAccept, Nothing
  <1>4. invites[q.row] # NoInvite /\ invites[q.row].email = q.by
    BY <1>1, <1>2 DEF IInv, RequestsSound, Sound
  <1>5. invites[q.row] \in InviteRow
    BY <1>2, <1>4, <1>a
  <1>6. invites'[q.row].accepted
    BY <1>2, <1>3, <1>5, <1>a DEF InviteRow
  <1> QED
    BY <1>1, <1>2, <1>4, <1>6

\* Nobody gets in without an invitation that the same step closes.
THEOREM JoinsCloseInvitations == Spec => JoinClosesInvitation
  <1>1. IInv /\ [Next]_vars =>
          [\A u \in Users : role[u] = NoRole /\ role'[u] # NoRole
             => \E i \in Invites : /\ invites[i] # NoInvite
                                   /\ invites[i].email = u
                                   /\ invites'[i].accepted]_vars
    BY JoinStep
  <1> QED
    BY <1>1, Invariant, PTL DEF Spec, JoinClosesInvitation

\* What a transfer that fails leaves: at least the owner there was.
THEOREM TransfersKeepAnOwner == Spec => TransferNeverVacates
  <1>1. ASSUME IInv, [Next]_vars, NEW r \in Requests,
               req[r].op = "transfer", req'[r] = Idle, Owners # {}
        PROVE  Owners' # {}
    <2>a. role \in [Users -> OrgRole \cup {NoRole}] /\ req \in [Requests -> Request]
      BY <1>1 DEF IInv, TypeOK
    <2>1. CASE role' = role
      BY <1>1, <2>1 DEF Owners
    <2>2. CASE role' # role
      <3>1. PICK s \in Requests :
              \/ CommitPatch(s)
              \/ CommitRemove(s)
              \/ CommitTransfer(s)
              \/ CommitDelete(s)
              \/ CommitAccept(s)
        BY <1>1, <2>2, RoleSteps
      <3>2. \E op : Finish(s, op)
        BY <3>1 DEF CommitPatch, CommitRemove, CommitTransfer, CommitDelete, CommitAccept
      <3>3. s = r
        BY <1>1, <2>a, <3>2 DEF Finish, Idle
      <3>4. CommitTransfer(r)
        BY <1>1, <3>1, <3>3 DEF CommitPatch, CommitRemove, CommitDelete, CommitAccept, Finish
      <3>5. req[r].target \in Users
        BY <1>1, <2>a, RequestShape
      <3>6. HandOver(req[r].by, req[r].target)
        BY <2>2, <3>4 DEF CommitTransfer
      <3>7. role'[req[r].target] = "owner"
        BY <2>a, <3>5, <3>6 DEF HandOver
      <3> QED
        BY <3>5, <3>7 DEF Owners
    <2> QED
      BY <2>1, <2>2
  <1>2. IInv /\ [Next]_vars =>
          [\A r \in Requests : req[r].op = "transfer" /\ req'[r] = Idle /\ Owners # {}
             => Owners' # {}]_vars
    BY <1>1
  <1> QED
    BY <1>2, Invariant, PTL DEF Spec, TransferNeverVacates

\* An invitation never changes the role of somebody who has one.
THEOREM InvitationsKeepRoles == Spec => InviteKeepsRoles
  <1>1. ASSUME IInv, [Next]_vars, NEW r \in Requests,
               req[r].op = "accept", req'[r] = Idle, NEW u \in Users, role[u] # NoRole
        PROVE  role'[u] = role[u]
    <2>a. role \in [Users -> OrgRole \cup {NoRole}] /\ req \in [Requests -> Request]
      BY <1>1 DEF IInv, TypeOK
    <2>1. CASE role' = role
      BY <2>1
    <2>2. CASE role' # role
      <3>1. PICK s \in Requests :
              \/ CommitPatch(s)
              \/ CommitRemove(s)
              \/ CommitTransfer(s)
              \/ CommitDelete(s)
              \/ CommitAccept(s)
        BY <1>1, <2>2, RoleSteps
      <3>2. \E op : Finish(s, op)
        BY <3>1 DEF CommitPatch, CommitRemove, CommitTransfer, CommitDelete, CommitAccept
      <3>3. s = r
        BY <1>1, <2>a, <3>2 DEF Finish, Idle
      <3>4. CommitAccept(r)
        BY <1>1, <3>1, <3>3 DEF CommitPatch, CommitRemove, CommitTransfer, CommitDelete, Finish
      <3>5. role' = (IF req[r].member THEN role ELSE [role EXCEPT ![req[r].by] = req[r].role])
            /\ ~(~req[r].member /\ role[req[r].by] # NoRole)
        BY <2>2, <3>4 DEF CommitAccept, Nothing
      <3> QED
        BY <1>1, <2>2, <2>a, <3>5
    <2> QED
      BY <2>1, <2>2
  <1>2. IInv /\ [Next]_vars =>
          [\A r \in Requests : req[r].op = "accept" /\ req'[r] = Idle
             => \A u \in Users : role[u] # NoRole => role'[u] = role[u]]_vars
    BY <1>1
  <1> QED
    BY <1>2, Invariant, PTL DEF Spec, InviteKeepsRoles

-----------------------------------------------------------------------------
(* Administrators among themselves. *)

\* While the owner sends no request: nobody else is the owner, nothing in
\* flight is a transfer or a deletion or aims at the owner, and no role given
\* away, in a row or in flight, is that of an administrator.
Harmless(q) ==
    /\ q.op \notin {"transfer", "delete"}
    /\ q.op \in {"patch", "remove"} => q.target # Founder
    /\ q.op \in {"patch", "create invite", "refresh invite", "accept"} => q.role # "admin"

Peers ==
    Founder \notin Actors =>
      /\ role[Founder] = "owner"
      /\ \A i \in Invites : invites[i] # NoInvite => invites[i].role # "admin"
      /\ \A r \in Requests : Harmless(req[r])

\* Somebody who may manage members and is not the owner is an administrator.
LEMMA ManagersAreAdmins ==
    ASSUME IInv, Peers, Founder \notin Actors, NEW u \in Actors
    PROVE  /\ role[u] # "owner"
           /\ CanManageMembers(u) => role[u] = "admin"
  <1>1. u \in Users /\ Founder \in Users /\ u # Founder
    BY OrgAssumption
  <1>2. role[u] # "owner"
    BY <1>1 DEF IInv, AtMostOneOwner, Owners, Peers
  <1> QED
    BY <1>2 DEF CanManageMembers

LEMMA CheckHarmless ==
    ASSUME IInv, Peers, Founder \notin Actors, NEW r \in Requests, Check(r)
    PROVE  \E q \in Request : Harmless(q) /\ Start(r, q)
  <1>a. GrantRoles \subseteq Assignable /\ Actors \subseteq Users
    BY OrgAssumption
  <1>1. ASSUME NEW u \in Actors, NEW new \in Assignable,
               CanManageMembers(u), Outranks(role[u], new)
        PROVE  new # "admin"
    BY <1>1, ManagersAreAdmins DEF Outranks, Rank
  <1>2. ASSUME NEW u \in Actors, NEW target \in Users, NEW new \in GrantRoles,
               CheckPatch(r, u, target, new)
        PROVE  \E q \in Request : Harmless(q) /\ Start(r, q)
    <2> DEFINE q == [op |-> "patch", by |-> u, target |-> target, role |-> new]
    <2>1. target # Founder /\ new # "admin"
      BY <1>2, <1>1, <1>a DEF CheckPatch, MayChange, Peers
    <2>2. q \in Request /\ Harmless(q)
      BY <1>a, <2>1 DEF Request, Harmless
    <2>3. Start(r, q)
      BY <1>2 DEF CheckPatch
    <2> QED
      BY <2>2, <2>3
  <1>3. ASSUME NEW u \in Actors, NEW target \in Users, CheckRemove(r, u, target)
        PROVE  \E q \in Request : Harmless(q) /\ Start(r, q)
    <2> DEFINE q == [op |-> "remove", by |-> u, target |-> target]
    <2>1. target # Founder
      BY <1>3 DEF CheckRemove, MayChange, Peers
    <2>2. q \in Request /\ Harmless(q)
      BY <1>a, <2>1 DEF Request, Harmless
    <2>3. Start(r, q)
      BY <1>3 DEF CheckRemove
    <2> QED
      BY <2>2, <2>3
  <1>4. ASSUME NEW u \in Actors, NEW target \in Users,
               CheckTransfer(r, u, target) \/ CheckDelete(r, u)
        PROVE  FALSE
    BY <1>4, ManagersAreAdmins DEF CheckTransfer, CheckDelete
  <1>5. ASSUME NEW u \in Actors, NEW email \in Users, NEW new \in GrantRoles,
               CheckInvite(r, u, email, new)
        PROVE  \E q \in Request : Harmless(q) /\ Start(r, q)
    <2>1. new # "admin"
      BY <1>5, <1>1, <1>a DEF CheckInvite
    <2>2. CASE PendingFor(email) = {}
      <3> DEFINE q == [op |-> "create invite", email |-> email, role |-> new]
      <3>1. q \in Request /\ Harmless(q)
        BY <1>a, <2>1 DEF Request, Harmless
      <3>2. Start(r, q)
        BY <1>5, <2>2 DEF CheckInvite
      <3> QED
        BY <3>1, <3>2
    <2>3. CASE PendingFor(email) # {}
      <3>1. PICK i \in PendingFor(email) :
              Start(r, [op |-> "refresh invite", row |-> i, role |-> new])
        BY <1>5, <2>3 DEF CheckInvite
      <3> DEFINE q == [op |-> "refresh invite", row |-> i, role |-> new]
      <3>2. q \in Request /\ Harmless(q)
        BY <1>a, <2>1 DEF Request, Harmless, PendingFor
      <3> QED
        BY <3>1, <3>2
    <2> QED
      BY <2>2, <2>3
  <1>6. ASSUME NEW u \in Actors, NEW i \in Invites, CheckRevoke(r, u, i)
        PROVE  \E q \in Request : Harmless(q) /\ Start(r, q)
    <2> DEFINE q == [op |-> "revoke invite", row |-> i]
    <2>1. q \in Request /\ Harmless(q)
      BY DEF Request, Harmless
    <2>2. Start(r, q)
      BY <1>6 DEF CheckRevoke
    <2> QED
      BY <2>1, <2>2
  <1>7. ASSUME NEW i \in Invites, CheckAccept(r, i)
        PROVE  \E q \in Request : Harmless(q) /\ Start(r, q)
    <2>1. invites[i] # NoInvite
      BY <1>7 DEF CheckAccept, Pending
    <2>2. invites[i].email \in Users /\ invites[i].role \in Assignable
      BY <2>1, RowShape DEF IInv, InviteRow
    <2>3. invites[i].role # "admin"
      BY <2>1 DEF Peers
    <2> DEFINE q == [op |-> "accept", by |-> invites[i].email, row |-> i,
                     role |-> invites[i].role, member |-> role[invites[i].email] # NoRole]
    <2>4. q \in Request /\ Harmless(q)
      BY <2>2, <2>3 DEF Request, Harmless
    <2>5. Start(r, q)
      BY <1>7 DEF CheckAccept
    <2> QED
      BY <2>4, <2>5
  <1> QED
    BY <1>2, <1>3, <1>4, <1>5, <1>6, <1>7, <1>a, OrgAssumption DEF Check

\* A finished request leaves the others as they were.
LEMMA FinishHarmless ==
    ASSUME IInv, Peers, Founder \notin Actors, NEW r \in Requests, NEW op, Finish(r, op)
    PROVE  \A s \in Requests : Harmless(req'[s])
  <1>1. req' = [req EXCEPT ![r] = Idle] /\ req \in [Requests -> Request]
    BY DEF Finish, IInv, TypeOK
  <1>2. Harmless(Idle)
    BY DEF Harmless, Idle
  <1> QED
    BY <1>1, <1>2 DEF Peers

\* What the five commits that write roles do while the owner is away.
LEMMA RolesHarmless ==
    ASSUME IInv, Peers, Founder \notin Actors, NEW r \in Requests, Commit(r)
    PROVE  /\ role'[Founder] = "owner"
           /\ \A u \in Users : role'[u] = "admin" => role[u] = "admin"
  <1>a. /\ role \in [Users -> OrgRole \cup {NoRole}] /\ req[r] \in Request
        /\ Harmless(req[r]) /\ role[Founder] = "owner" /\ Founder \in Users
    BY OrgAssumption DEF IInv, TypeOK, Peers
  <1>1. CASE CommitPatch(r)
    <2>1. req[r].target # Founder /\ req[r].target \in Users /\ req[r].role # "admin"
      BY <1>1, <1>a, RequestShape DEF CommitPatch, Finish, Harmless
    <2> QED
      BY <1>1, <1>a, <2>1 DEF CommitPatch
  <1>2. CASE CommitRemove(r)
    <2>1. req[r].target # Founder /\ req[r].target \in Users
      BY <1>2, <1>a, RequestShape DEF CommitRemove, Finish, Harmless
    <2> QED
      BY <1>2, <1>a, <2>1 DEF CommitRemove, NoRole
  <1>3. CASE CommitTransfer(r) \/ CommitDelete(r)
    BY <1>3, <1>a DEF CommitTransfer, CommitDelete, Finish, Harmless
  <1>4. CASE CommitCreateInvite(r) \/ CommitRefreshInvite(r) \/ CommitRevoke(r)
    BY <1>4, <1>a DEF CommitCreateInvite, CommitRefreshInvite, CommitRevoke, Nothing
  <1>5. CASE CommitAccept(r)
    <2>1. req[r].by \in Users /\ req[r].role # "admin"
      BY <1>5, <1>a, RequestShape DEF CommitAccept, Finish, Harmless
    <2>2. CASE role' = role
      BY <2>2, <1>a
    <2>3. CASE role' # role
      <3>1. role' = [role EXCEPT ![req[r].by] = req[r].role] /\ role[req[r].by] = NoRole
        BY <1>5, <2>3 DEF CommitAccept, Nothing
      <3> QED
        BY <3>1, <2>1, <1>a DEF NoRole
    <2> QED
      BY <2>2, <2>3
  <1> QED
    BY <1>1, <1>2, <1>3, <1>4, <1>5 DEF Commit

\* No commit puts the role of an administrator into an invitation.
LEMMA InvitesHarmless ==
    ASSUME IInv, Peers, Founder \notin Actors, NEW r \in Requests, Commit(r)
    PROVE  \A i \in Invites : invites'[i] # NoInvite => invites'[i].role # "admin"
  <1>a. /\ invites \in [Invites -> InviteRow \cup {NoInvite}] /\ req[r] \in Request
        /\ Harmless(req[r])
        /\ \A i \in Invites : invites[i] # NoInvite => invites[i].role # "admin"
    BY DEF IInv, TypeOK, Peers
  <1>1. CASE CommitCreateInvite(r)
    <2>1. req[r].role # "admin"
      BY <1>1, <1>a DEF CommitCreateInvite, Finish, Harmless
    <2>2. CASE invites' = invites
      BY <2>2, <1>a
    <2>3. CASE invites' # invites
      <3>1. PICK i \in Invites :
              invites' = [invites EXCEPT ![i] =
                   [state |-> "sent", email |-> req[r].email, role |-> req[r].role,
                    expired |-> FALSE, accepted |-> FALSE, revoked |-> FALSE]]
        BY <1>1, <2>3 DEF CommitCreateInvite, Nothing
      <3>2. invites'[i].role = req[r].role
        BY <3>1, <1>a
      <3> QED
        BY <3>1, <3>2, <2>1, <1>a
    <2> QED
      BY <2>2, <2>3
  <1>2. CASE CommitRefreshInvite(r)
    <2>1. req[r].role # "admin" /\ req[r].row \in Invites
      BY <1>2, <1>a, RequestShape DEF CommitRefreshInvite, Finish, Harmless
    <2>2. CASE invites[req[r].row] = NoInvite
      BY <1>2, <1>a, <2>2 DEF CommitRefreshInvite
    <2>3. CASE invites[req[r].row] # NoInvite
      <3>1. invites[req[r].row] \in InviteRow
        BY <2>1, <2>3, <1>a
      <3>2. invites' = [invites EXCEPT ![req[r].row].role = req[r].role,
                                       ![req[r].row].expired = FALSE]
        BY <1>2, <2>3 DEF CommitRefreshInvite
      <3>3. invites'[req[r].row].role = req[r].role
        BY <3>1, <3>2, <2>1, <1>a DEF InviteRow
      <3> QED
        BY <3>2, <3>3, <2>1, <1>a
    <2> QED
      BY <2>2, <2>3
  <1>3. CASE CommitRevoke(r) \/ CommitAccept(r)
    <2>1. req[r].row \in Invites
      BY <1>3, <1>a, RequestShape DEF CommitRevoke, CommitAccept, Finish
    <2>2. CASE invites' = invites
      BY <2>2, <1>a
    <2>3. CASE invites' # invites
      <3>1. invites[req[r].row] # NoInvite
        BY <1>3, <2>1, <2>3 DEF CommitRevoke, CommitAccept, Nothing, Finish, IInv,
                                RequestsSound, Sound
      <3>2. invites[req[r].row] \in InviteRow
        BY <2>1, <3>1, <1>a
      <3>3. \/ invites' = [invites EXCEPT ![req[r].row].revoked = TRUE]
            \/ invites' = [invites EXCEPT ![req[r].row].accepted = TRUE]
        BY <1>3, <2>3 DEF CommitRevoke, CommitAccept, Nothing
      <3>4. invites'[req[r].row].role = invites[req[r].row].role
        BY <3>2, <3>3, <2>1, <1>a DEF InviteRow
      <3> QED
        BY <3>1, <3>3, <3>4, <2>1, <1>a
    <2> QED
      BY <2>2, <2>3
  <1>4. CASE CommitPatch(r) \/ CommitRemove(r) \/ CommitTransfer(r)
    BY <1>4, <1>a DEF CommitPatch, CommitRemove, CommitTransfer
  <1>5. CASE CommitDelete(r)
    BY <1>5 DEF CommitDelete
  <1> QED
    BY <1>1, <1>2, <1>3, <1>4, <1>5 DEF Commit

LEMMA ClockHarmless ==
    ASSUME IInv, Peers, Founder \notin Actors, NEW i \in Invites,
           InviteExpires(i) \/ \E u \in Actors : ResendInvite(u, i)
    PROVE  /\ role' = role /\ req' = req
           /\ \A j \in Invites : invites'[j] # NoInvite => invites'[j].role # "admin"
  <1>1. PICK e \in BOOLEAN : invites' = [invites EXCEPT ![i].expired = e]
    BY DEF InviteExpires, ResendInvite
  <1>2. invites[i] # NoInvite /\ role' = role /\ req' = req
    BY DEF InviteExpires, ResendInvite, Pending
  <1>3. invites[i] \in InviteRow
    BY <1>2, RowShape DEF IInv
  <1>4. invites'[i].role = invites[i].role
    BY <1>1, <1>3 DEF InviteRow, IInv, TypeOK
  <1> QED
    BY <1>1, <1>2, <1>4 DEF Peers, IInv, TypeOK

LEMMA StepHarmless ==
    ASSUME IInv, Peers, Founder \notin Actors, [Next]_vars
    PROVE  /\ Peers'
           /\ role'[Founder] = "owner"
           /\ \A u \in Users : role'[u] = "admin" => role[u] = "admin"
  <1>1. ASSUME NEW r \in Requests, Check(r)
        PROVE  Peers' /\ role' = role
    <2>1. PICK q \in Request : Harmless(q) /\ Start(r, q)
      BY <1>1, CheckHarmless
    <2>2. role' = role /\ invites' = invites /\ req' = [req EXCEPT ![r] = q]
      BY <2>1 DEF Start
    <2>3. \A s \in Requests : Harmless(req'[s])
      BY <2>1, <2>2 DEF Peers, IInv, TypeOK
    <2> QED
      BY <2>2, <2>3 DEF Peers, Harmless
  <1>2. ASSUME NEW r \in Requests, Commit(r)
        PROVE  /\ Peers'
               /\ role'[Founder] = "owner"
               /\ \A u \in Users : role'[u] = "admin" => role[u] = "admin"
    <2>1. \A s \in Requests : Harmless(req'[s])
      <3>1. \E op : Finish(r, op)
        BY <1>2 DEF Commit, CommitPatch, CommitRemove, CommitTransfer, CommitDelete,
                    CommitCreateInvite, CommitRefreshInvite, CommitRevoke, CommitAccept
      <3> QED
        BY <3>1, FinishHarmless
    <2> QED
      BY <1>2, <2>1, RolesHarmless, InvitesHarmless DEF Peers, Harmless
  <1>3. ASSUME NEW i \in Invites, InviteExpires(i) \/ \E u \in Actors : ResendInvite(u, i)
        PROVE  Peers' /\ role' = role
    BY <1>3, ClockHarmless DEF Peers, Harmless
  <1>4. ASSUME UNCHANGED vars PROVE Peers' /\ role' = role
    BY <1>4 DEF vars, Peers, Harmless
  <1>5. role[Founder] = "owner"
    BY DEF Peers
  <1> QED
    BY <1>1, <1>2, <1>3, <1>4, <1>5 DEF Next

LEMMA PeersInvariant == Spec => []Peers
  <1>1. Init => Peers
    <2> SUFFICES ASSUME Init PROVE Peers
      OBVIOUS
    <2>1. role[Founder] = "owner"
      BY OrgAssumption DEF Init, Owners
    <2>2. \A i \in Invites : invites[i] = NoInvite
      BY DEF Init
    <2>3. \A r \in Requests : Harmless(req[r])
      BY DEF Init, Harmless, Idle
    <2> QED
      BY <2>1, <2>2, <2>3 DEF Peers
  <1>2. IInv /\ Peers /\ [Next]_vars => Peers'
    BY StepHarmless DEF Peers
  <1> QED
    BY <1>1, <1>2, Invariant, PTL DEF Spec

\* Without the owner, administrators together make no administrator, whatever
\* invitations, role changes and removals they have in flight.
THEOREM PeersCannotMint == Spec => AdminsCannotMint
  <1>1. IInv /\ Peers /\ [Next]_vars =>
          [Founder \notin Actors =>
             /\ role'[Founder] = "owner"
             /\ \A u \in Users : role'[u] = "admin" => role[u] = "admin"]_vars
    BY StepHarmless
  <1> QED
    BY <1>1, PeersInvariant, Invariant, PTL DEF Spec, AdminsCannotMint

-----------------------------------------------------------------------------
(* What the rules that the code breaks come down to *)

\* A request changes when it ends or when it passes its checks, which write
\* nothing; a role change or a removal is not aimed at the owner then, and an
\* acceptance is of a pending invitation.
LEMMA NewRequests ==
    ASSUME IInv, [Next]_vars, NEW r \in Requests, req'[r] # req[r]
    PROVE  \/ req'[r] = Idle
           \/ /\ UNCHANGED <<exists, role, invites>>
              /\ req'[r].op \in {"patch", "remove"} => role[req'[r].target] # "owner"
              /\ req'[r].op = "accept" => Pending(req'[r].row)
  <1>a. req \in [Requests -> Request]
    BY DEF IInv, TypeOK
  <1>1. ASSUME NEW s \in Requests, Commit(s) PROVE req'[r] = Idle
    <2>1. \E op : Finish(s, op)
      BY <1>1 DEF Commit, CommitPatch, CommitRemove, CommitTransfer, CommitDelete,
                  CommitCreateInvite, CommitRefreshInvite, CommitRevoke, CommitAccept
    <2> QED
      BY <1>a, <2>1 DEF Finish
  <1>2. ASSUME NEW s \in Requests, NEW q, Start(s, q)
        PROVE  UNCHANGED <<exists, role, invites>> /\ req'[r] = q
    BY <1>a, <1>2 DEF Start
  <1>3. ASSUME NEW s \in Requests, NEW u \in Actors, NEW target \in Users,
               \/ \E new \in GrantRoles : CheckPatch(s, u, target, new)
               \/ CheckRemove(s, u, target)
        PROVE  /\ UNCHANGED <<exists, role, invites>>
               /\ req'[r].op \in {"patch", "remove"} /\ role[req'[r].target] # "owner"
    <2>1. role[target] # "owner"
      BY <1>3 DEF CheckPatch, CheckRemove, MayChange
    <2>2. \/ \E new \in GrantRoles :
               Start(s, [op |-> "patch", by |-> u, target |-> target, role |-> new])
          \/ Start(s, [op |-> "remove", by |-> u, target |-> target])
      BY <1>3 DEF CheckPatch, CheckRemove
    <2> QED
      BY <1>a, <2>1, <2>2 DEF Start
  <1>4. ASSUME NEW s \in Requests, NEW u \in Actors, NEW target \in Users,
               \/ CheckTransfer(s, u, target)
               \/ \E new \in GrantRoles : CheckInvite(s, u, target, new)
               \/ CheckDelete(s, u)
               \/ \E i \in Invites : CheckRevoke(s, u, i)
        PROVE  /\ UNCHANGED <<exists, role, invites>>
               /\ req'[r].op \notin {"patch", "remove", "accept"}
    <2>1. CASE CheckTransfer(s, u, target)
      BY <1>a, <2>1 DEF CheckTransfer, Start
    <2>2. ASSUME NEW new \in GrantRoles, CheckInvite(s, u, target, new)
          PROVE  /\ UNCHANGED <<exists, role, invites>>
                 /\ req'[r].op \notin {"patch", "remove", "accept"}
      <3>1. \/ Start(s, [op |-> "create invite", email |-> target, role |-> new])
            \/ \E i \in Invites :
                 Start(s, [op |-> "refresh invite", row |-> i, role |-> new])
        BY <2>2 DEF CheckInvite, PendingFor
      <3>2. CASE Start(s, [op |-> "create invite", email |-> target, role |-> new])
        BY <1>a, <3>2 DEF Start
      <3>3. ASSUME NEW i \in Invites, Start(s, [op |-> "refresh invite", row |-> i, role |-> new])
            PROVE  /\ UNCHANGED <<exists, role, invites>>
                   /\ req'[r].op \notin {"patch", "remove", "accept"}
        BY <1>a, <3>3 DEF Start
      <3> QED
        BY <3>1, <3>2, <3>3
    <2>3. CASE CheckDelete(s, u)
      BY <1>a, <2>3 DEF CheckDelete, Start
    <2>4. ASSUME NEW i \in Invites, CheckRevoke(s, u, i)
          PROVE  /\ UNCHANGED <<exists, role, invites>>
                 /\ req'[r].op \notin {"patch", "remove", "accept"}
      BY <1>a, <2>4 DEF CheckRevoke, Start
    <2> QED
      BY <1>4, <2>1, <2>2, <2>3, <2>4
  <1>5. ASSUME NEW s \in Requests, NEW i \in Invites, CheckAccept(s, i)
        PROVE  /\ UNCHANGED <<exists, role, invites>>
               /\ req'[r].op = "accept" /\ Pending(req'[r].row)
    <2>1. Pending(i)
      BY <1>5 DEF CheckAccept
    <2>2. Start(s, [op |-> "accept", by |-> invites[i].email, row |-> i,
                    role |-> invites[i].role, member |-> role[invites[i].email] # NoRole])
      BY <1>5 DEF CheckAccept
    <2> QED
      BY <1>2, <2>1, <2>2
  <1>6. ASSUME NEW s \in Requests, Check(s)
        PROVE  /\ UNCHANGED <<exists, role, invites>>
               /\ req'[r].op \in {"patch", "remove"} => role[req'[r].target] # "owner"
               /\ req'[r].op = "accept" => Pending(req'[r].row)
    <2>1. CASE \E u \in Actors, target \in Users :
                 \/ \E new \in GrantRoles : CheckPatch(s, u, target, new)
                 \/ CheckRemove(s, u, target)
      BY <1>3, <2>1
    <2>2. CASE \E u \in Actors, target \in Users :
                 \/ CheckTransfer(s, u, target)
                 \/ \E new \in GrantRoles : CheckInvite(s, u, target, new)
      BY <1>4, <2>2
    <2>3. CASE \E u \in Actors : CheckDelete(s, u) \/ \E i \in Invites : CheckRevoke(s, u, i)
      BY <1>4, <2>3, OrgAssumption
    <2>4. CASE \E i \in Invites : CheckAccept(s, i)
      BY <1>5, <2>4
    <2> QED
      BY <1>6, <2>1, <2>2, <2>3, <2>4 DEF Check
  <1>7. ~(\E i \in Invites : InviteExpires(i) \/ \E u \in Actors : ResendInvite(u, i))
        /\ ~UNCHANGED vars
    BY DEF InviteExpires, ResendInvite, vars
  <1> QED
    BY <1>1, <1>6, <1>7 DEF Next

\* The workspace has an owner, and no role change or removal is aimed there.
OwnerSafe ==
    /\ exists => Owners # {}
    /\ \A r \in Requests : req[r].op \in {"patch", "remove"} => role[req[r].target] # "owner"

LEMMA OwnerSafeStep ==
    ASSUME IInv, OwnerSafe, [Next]_vars, [TargetsHold]_vars
    PROVE  OwnerSafe'
  <1>a. role \in [Users -> OrgRole \cup {NoRole}] /\ req \in [Requests -> Request]
        /\ "owner" \notin Assignable
    BY DEF IInv, TypeOK, Assignable
  <1>1. ASSUME NEW r \in Requests, req'[r].op \in {"patch", "remove"}
        PROVE  role'[req'[r].target] # "owner"
    <2>1. CASE req'[r] = req[r]
      BY <1>1, <2>1 DEF TargetsHold, OwnerSafe, vars
    <2>2. CASE req'[r] # req[r]
      BY <1>1, <2>2, NewRequests DEF Idle
    <2> QED
      BY <2>1, <2>2
  <1>2. ASSUME exists' PROVE Owners' # {}
    <2>1. exists
      BY <1>2, ExistsSteps
    <2>2. PICK o \in Users : role[o] = "owner"
      BY <2>1 DEF OwnerSafe, Owners
    <2>3. CASE role' = role
      BY <2>2, <2>3 DEF Owners
    <2>4. ASSUME NEW r \in Requests, CommitPatch(r) \/ CommitRemove(r)
          PROVE  role'[o] = "owner"
      <3>1. req[r].target # o
        BY <2>2, <2>4 DEF OwnerSafe, CommitPatch, CommitRemove, Finish
      <3> QED
        BY <1>a, <2>2, <2>4, <3>1 DEF CommitPatch, CommitRemove
    <2>5. ASSUME NEW r \in Requests, CommitTransfer(r), role' # role
          PROVE  \E v \in Users : role'[v] = "owner"
      <3>1. req[r].target \in Users
        BY <1>a, <2>5, RequestShape DEF CommitTransfer, Finish
      <3>2. HandOver(req[r].by, req[r].target)
        BY <2>5 DEF CommitTransfer
      <3> QED
        BY <1>a, <3>1, <3>2 DEF HandOver
    <2>6. ASSUME NEW r \in Requests, CommitAccept(r)
          PROVE  role'[o] = "owner"
      <3>1. role' = role \/ (role[req[r].by] = NoRole
                             /\ role' = [role EXCEPT ![req[r].by] = req[r].role])
        BY <2>6 DEF CommitAccept, Nothing
      <3> QED
        BY <1>a, <2>2, <3>1 DEF NoRole
    <2>7. ASSUME NEW r \in Requests, CommitDelete(r) PROVE FALSE
      BY <1>2, <2>7 DEF CommitDelete
    <2> QED
      BY <2>3, <2>4, <2>5, <2>6, <2>7, RoleSteps DEF Owners
  <1> QED
    BY <1>1, <1>2 DEF OwnerSafe

\* The workspace loses its owner in one way only: a role change or a removal,
\* checked against a member, commits against the owner that member became.
THEOREM OwnerlessIsARace == Spec /\ [][TargetsHold]_vars => []ExactlyOneOwner
  <1>1. Init => OwnerSafe
    BY OrgAssumption DEF Init, OwnerSafe, Owners, Idle
  <1>2. IInv /\ OwnerSafe /\ [Next]_vars /\ [TargetsHold]_vars => OwnerSafe'
    BY OwnerSafeStep
  <1>3. IInv /\ OwnerSafe => ExactlyOneOwner
    <2> SUFFICES ASSUME IInv, OwnerSafe, exists PROVE Cardinality(Owners) = 1
      BY DEF ExactlyOneOwner
    <2>1. PICK o \in Owners : TRUE
      BY DEF OwnerSafe
    <2>2. Owners = {o}
      BY <2>1 DEF IInv, AtMostOneOwner
    <2> QED
      BY <2>2, FS_Singleton
  <1> QED
    BY Invariant, <1>1, <1>2, <1>3, PTL DEF Spec

\* An acceptance under way is of a pending invitation.
AcceptsPending ==
    exists => \A r \in Requests : req[r].op = "accept" => Pending(req[r].row)

LEMMA AcceptsStep ==
    ASSUME IInv, IInv', AcceptsPending, [Next]_vars, [InvitationsHold]_vars
    PROVE  AcceptsPending'
  <1> SUFFICES ASSUME exists', NEW r \in Requests, req'[r].op = "accept"
               PROVE  Pending(req[r].row)'
    BY DEF AcceptsPending
  <1>1. exists
    BY ExistsSteps
  <1>2. CASE req'[r] = req[r]
    <2> DEFINE i == req[r].row
    <2>1. /\ invites'[i].accepted = invites[i].accepted
          /\ invites'[i].revoked = invites[i].revoked
      BY <1>2 DEF InvitationsHold, vars
    <2>2. invites'[i] # NoInvite
      BY <1>2 DEF IInv, RequestsSound, Sound
    <2>3. ~invites[i].accepted /\ ~invites[i].revoked
      BY <1>1, <1>2 DEF AcceptsPending, Pending
    <2>4. ~invites'[i].accepted /\ ~invites'[i].revoked
      BY <2>1, <2>3, Zenon
    <2> QED
      BY <1>2, <2>2, <2>4 DEF Pending
  <1>3. CASE req'[r] # req[r]
    <2>1. req'[r] # Idle
      BY DEF Idle
    <2>2. UNCHANGED <<exists, role, invites>> /\ Pending(req'[r].row)
      BY <1>3, <2>1, NewRequests, Zenon
    <2> QED
      BY <2>2 DEF Pending
  <1> QED
    BY <1>2, <1>3

\* A spent invitation admits somebody in one way only: it is spent between
\* the check and the commit of an acceptance.
THEOREM SpentInvitationIsARace ==
    Spec /\ [][InvitationsHold]_vars => SpentInvitationAdmitsNobody
  <1>1. Init => AcceptsPending
    BY DEF Init, AcceptsPending, Idle
  <1>2. IInv /\ IInv' /\ AcceptsPending /\ [Next]_vars /\ [InvitationsHold]_vars
          => AcceptsPending'
    BY AcceptsStep
  <1>3. IInv /\ AcceptsPending /\ [Next]_vars
          => [\A u \in Users : role[u] = NoRole /\ role'[u] # NoRole => PendingFor(u) # {}]_vars
    <2> SUFFICES ASSUME IInv, AcceptsPending, [Next]_vars,
                        NEW u \in Users, role[u] = NoRole, role'[u] # NoRole
                 PROVE  PendingFor(u) # {}
      OBVIOUS
    <2>1. PICK r \in Requests : CommitAccept(r) /\ exists /\ req[r].by = u
      BY JoinRequest
    <2>2. req[r] \in Request /\ req[r].op = "accept"
      BY <2>1 DEF IInv, TypeOK, CommitAccept, Finish
    <2>3. req[r].row \in Invites /\ invites[req[r].row].email = u
      BY <2>1, <2>2, RequestShape DEF IInv, RequestsSound, Sound
    <2>4. Pending(req[r].row)
      BY <2>1, <2>2 DEF AcceptsPending
    <2> QED
      BY <2>3, <2>4 DEF PendingFor
  <1> QED
    BY Invariant, <1>1, <1>2, <1>3, PTL DEF Spec, SpentInvitationAdmitsNobody
=============================================================================
