-------------------------- MODULE VaultRekeyProofs --------------------------
(***************************************************************************)
(* Proofs about VaultRekey for any users, teams, items and bounds.         *)
(*                                                                         *)
(* TypeOK is not inductive alone: a rotation writes the contents it read,  *)
(* so the type of items rests on the admission check that all of them were *)
(* read (AdmittedIsRead).  Sound adds what holds of the transactions in    *)
(* progress (TxSound) and NoFutureGeneration, and is inductive.            *)
(*                                                                         *)
(* The theorems on the causes of what the code breaks assume a condition   *)
(* on the steps, from the end of VaultRekey.                               *)
(***************************************************************************)
EXTENDS VaultRekey, TLAPS

\* An admitted rekey has read every item it listed.
AdmittedIsRead ==
    \A u \in Users : req[u].op = "rekey" /\ req[u].phase \in {"admitted", "writing"} =>
                       \A i \in req[u].listed : req[u].read[i] # 0

Typed == TypeOK /\ AdmittedIsRead

USE DEF keyVars, peopleVars, memberVars, clientVars, txVars, serverVars

-----------------------------------------------------------------------------
(* The shape of a request follows from its op. *)

LEMMA RequestShape ==
    ASSUME NEW r \in Request
    PROVE  /\ r.op = "add" => r \in AddRequest
           /\ r.op = "rekey" => r \in RekeyRequest
           /\ r.op = "idle" => r = Idle
  BY DEF Request, Idle, AddRequest, RekeyRequest

LEMMA WriterShape ==
    ASSUME Typed, NEW u \in Rotating
    PROVE  /\ u \in Users
           /\ req[u] \in RekeyRequest
           /\ req[u].op = "rekey"
           /\ req[u].phase = "writing"
  BY RequestShape DEF Rotating, Typed, TypeOK

LEMMA Constants ==
    /\ 1 \in Version
    /\ 1 \in Generation
    /\ 0 \in Generation
    /\ Permanent \in Lapse
    /\ NoRemoval \in Removal
    /\ Idle \in Request
    /\ Idle.op # "rekey"
    /\ Idle.op # "add"
    /\ GrantRoles \subseteq Role
    /\ NoRole \notin Role
  BY RekeyAssumption DEF Version, Generation, Lapse, Permanent, NoRemoval, Removal, Idle, Request,
                         Role, NoRole

LEMMA InitTyped == Init => Typed
  <1> SUFFICES ASSUME Init PROVE Typed
    OBVIOUS
  <1>1. PICK creator \in Users, key \in {0, 1} :
          /\ orgMembers \in {S \in SUBSET Users : creator \in S}
          /\ enrolled \in {S \in SUBSET orgMembers : key = 1 => creator \in S}
          /\ vaultMembers = [u \in Users |-> IF u = creator THEN "manager" ELSE NoRole]
          /\ vaultKeys = [u \in Users |-> IF u = creator THEN key ELSE 0]
    BY DEF Init
  <1>2. /\ vaultMembers \in [Users -> Role \cup {NoRole}]
        /\ vaultKeys \in [Users -> Generation]
        /\ orgMembers \subseteq Users
        /\ enrolled \subseteq Users
    BY <1>1, Constants DEF Role
  <1>3. TypeOK
    BY <1>2, Constants DEF Init, TypeOK
  <1>4. AdmittedIsRead
    BY Constants DEF Init, AdmittedIsRead
  <1> QED
    BY <1>3, <1>4 DEF Typed

-----------------------------------------------------------------------------
(* Who changes what *)

Membership(u) ==
    \/ CommitAddMember(u)
    \/ \E target \in Users, role \in GrantRoles : ChangeRole(u, target, role)
    \/ \E role \in GrantRoles : ApproveAccess(u, role)
    \/ Expire(u)
    \/ SweepMember(u)

Framed ==
    /\ \/ UNCHANGED keyVars
       \/ \E u \in Users : CommitAddMember(u) \/ CommitRekey(u) \/ CommitRemoval(u)
    /\ UNCHANGED held \/ \E u \in Users : FetchKey(u) \/ Lock(u)
    /\ UNCHANGED items \/ ItemNext \/ \E u \in Users : CommitRekey(u)
    /\ UNCHANGED memberVars \/ \E u \in Users : Membership(u) \/ CommitRemoval(u)
    /\ UNCHANGED orgMembers \/ \E u \in Users : JoinOrg(u) \/ CommitRemoval(u)
    /\ \/ UNCHANGED req
       \/ RekeyNext
       \/ \E u \in Users : \/ CommitAddMember(u)
                          \/ \E target \in Users, role \in GrantRoles :
                               BeginAddMember(u, target, role)
    /\ UNCHANGED removal \/ RemovalNext \/ \E u \in Users : CommitRekey(u)
    /\ UNCHANGED atRead \/ \E u \in Users : BeginRekey(u) \/ CommitRekey(u) \/ AbortRekey(u)
    /\ UNCHANGED enrolled \/ \E u \in Users : Enroll(u)

LEMMA Frames == ASSUME [Next]_vars PROVE Framed
  <1>1. CASE UNCHANGED vars
    BY <1>1 DEF vars, Framed
  <1>2. CASE BrowserNext
    BY <1>2 DEF BrowserNext, FetchKey, Lock, Framed
  <1>3. CASE RekeyNext
    <2>1. PICK u \in Users :
                 \/ OpenRekey(u)
                 \/ ListItems(u)
                 \/ \E i \in Items : ReadItem(u, i)
                 \/ \E i \in Items : AbortRead(u, i)
                 \/ AdmitRekey(u)
                 \/ BeginRekey(u)
                 \/ RejectRekey(u)
                 \/ CommitRekey(u)
                 \/ AbortRekey(u)
      BY <1>3 DEF RekeyNext
    <2>2. CASE OpenRekey(u) \/ ListItems(u) \/ AdmitRekey(u) \/ RejectRekey(u)
      <3>1. UNCHANGED <<serverVars, held>>
        BY <2>2 DEF OpenRekey, ListItems, AdmitRekey, RejectRekey
      <3> QED
        BY <1>3, <3>1 DEF Framed
    <2>3. CASE (\E i \in Items : ReadItem(u, i)) \/ (\E i \in Items : AbortRead(u, i))
      <3>1. UNCHANGED <<serverVars, held>>
        BY <2>3 DEF ReadItem, AbortRead
      <3> QED
        BY <1>3, <3>1 DEF Framed
    <2>4. CASE BeginRekey(u) \/ AbortRekey(u)
      <3>1. UNCHANGED <<keyVars, peopleVars, memberVars, items, held, removal>>
        BY <2>4 DEF BeginRekey, AbortRekey
      <3> QED
        BY <1>3, <2>4, <3>1 DEF Framed
    <2>5. CASE CommitRekey(u)
      <3>1. UNCHANGED <<peopleVars, memberVars, held>>
        BY <2>5 DEF CommitRekey
      <3> QED
        BY <1>3, <2>5, <3>1 DEF Framed
    <2> QED
      BY <2>1, <2>2, <2>3, <2>4, <2>5
  <1>4. CASE MemberNext
    <2>1. PICK u \in Users :
                 \/ \E target \in Users, role \in GrantRoles : BeginAddMember(u, target, role)
                 \/ Membership(u)
      BY <1>4 DEF MemberNext, Membership
    <2>2. CASE \E target \in Users, role \in GrantRoles : BeginAddMember(u, target, role)
      <3>1. UNCHANGED <<serverVars, held>>
        BY <2>2 DEF BeginAddMember
      <3> QED
        BY <2>2, <3>1 DEF Framed
    <2>3. CASE CommitAddMember(u)
      <3>1. UNCHANGED <<peopleVars, items, held, txVars>>
        BY <2>3 DEF CommitAddMember
      <3> QED
        BY <2>3, <3>1 DEF Framed, Membership
    <2>4. CASE Membership(u) /\ ~CommitAddMember(u)
      <3>1. UNCHANGED <<keyVars, peopleVars, items, clientVars, txVars>>
        BY <2>4 DEF Membership, ChangeRole, ApproveAccess, Expire, SweepMember
      <3> QED
        BY <2>4, <3>1 DEF Framed
    <2> QED
      BY <2>1, <2>2, <2>3, <2>4
  <1>5. CASE RemovalNext
    BY <1>5 DEF RemovalNext, BeginRemove, BeginLeave, ListKeys, DropKey, CommitRemoval,
                AbortRemoval, Framed
  <1>6. CASE TeamNext
    BY <1>6 DEF TeamNext, GrantTeam, RevokeTeam, JoinTeam, LeaveTeam, DeleteTeam, Framed
  <1>7. CASE OrgNext
    BY <1>7 DEF OrgNext, JoinOrg, Enroll, Framed
  <1>8. CASE ItemNext
    BY <1>8 DEF ItemNext, CreateItem, EditItem, TrashItem, RestoreItem, PurgeItem,
                Framed
  <1> QED
    BY <1>1, <1>2, <1>3, <1>4, <1>5, <1>6, <1>7, <1>8 DEF Next

-----------------------------------------------------------------------------
(* Typing is preserved, one lemma per group of handlers. *)

LEMMA BrowserTyped == Typed /\ BrowserNext => Typed'
  <1> SUFFICES ASSUME Typed, NEW u \in Users, FetchKey(u) \/ Lock(u)
               PROVE  Typed'
    BY DEF BrowserNext
  <1> USE DEF Typed, TypeOK, AdmittedIsRead
  <1>1. CASE FetchKey(u)
    BY <1>1 DEF FetchKey
  <1>2. CASE Lock(u)
    BY <1>2, Constants DEF Lock
  <1> QED
    BY <1>1, <1>2

\* A step that gives one user a request of the right shape.
LEMMA OneRequestTyped ==
    ASSUME Typed, NEW u \in Users, NEW r \in Request,
           req' = [req EXCEPT ![u] = r],
           r.op = "rekey" /\ r.phase \in {"admitted", "writing"}
             => \A i \in r.listed : r.read[i] # 0
    PROVE  req' \in [Users -> Request] /\ AdmittedIsRead'
  BY DEF Typed, TypeOK, AdmittedIsRead

LEMMA DialogTyped ==
    ASSUME Typed, NEW u \in Users,
           \/ OpenRekey(u)
           \/ ListItems(u)
           \/ \E i \in Items : ReadItem(u, i)
           \/ \E i \in Items : AbortRead(u, i)
           \/ AdmitRekey(u)
           \/ RejectRekey(u)
    PROVE  Typed'
  <1>a. req[u].op = "rekey" => req[u] \in RekeyRequest
    BY RequestShape DEF Typed, TypeOK
  <1> SUFFICES req' \in [Users -> Request] /\ AdmittedIsRead'
    BY DEF Typed, TypeOK, OpenRekey, ListItems, ReadItem, AbortRead, AdmitRekey, RejectRekey
  <1>1. CASE OpenRekey(u)
    <2> DEFINE r == [op |-> "rekey", phase |-> "open", expected |-> keyVersion,
                     old |-> held[u], wrapped |-> EnrolledRoster,
                     listed |-> {}, read |-> [i \in Items |-> 0]]
    <2>1. keyVersion \in 1..(MaxVersion - 1) /\ held[u] \in Version
      BY <1>1, RekeyAssumption DEF OpenRekey, Typed, TypeOK, Version, Generation
    <2>2. EnrolledRoster \in SUBSET Users
      BY DEF EnrolledRoster, Roster
    <2>3. [i \in Items |-> 0] \in [Items -> 0..MaxContent]
      BY RekeyAssumption
    <2>4. r \in RekeyRequest
      BY <2>1, <2>2, <2>3 DEF RekeyRequest
    <2>5. req' = [req EXCEPT ![u] = r]
      BY <1>1 DEF OpenRekey
    <2>6. r.phase \notin {"admitted", "writing"}
      OBVIOUS
    <2> HIDE DEF r
    <2>7. r \in Request
      BY <2>4 DEF Request
    <2> QED
      BY <2>5, <2>6, <2>7, OneRequestTyped
  <1>2. CASE ListItems(u)
    <2> DEFINE r == [req[u] EXCEPT !.phase = "reading", !.listed = LiveItems]
    <2>1. r \in Request /\ r.phase = "reading"
      BY <1>2, <1>a DEF ListItems, RekeyRequest, LiveItems, Request
    <2>2. req' = [req EXCEPT ![u] = r]
      BY <1>2 DEF ListItems
    <2> HIDE DEF r
    <2> QED
      BY <2>1, <2>2, OneRequestTyped
  <1>3. ASSUME NEW i \in Items, ReadItem(u, i)
        PROVE  req' \in [Users -> Request] /\ AdmittedIsRead'
    <2> DEFINE r == [req[u] EXCEPT !.read[i] = items[i].content]
    <2>1. items[i].content \in 0..MaxContent
      BY <1>3, RekeyAssumption DEF ReadItem, Typed, TypeOK, ItemRow, NoItem, Content
    <2>2. r \in Request /\ r.phase = "reading"
      BY <1>3, <1>a, <2>1 DEF ReadItem, RekeyRequest, Request
    <2>3. req' = [req EXCEPT ![u] = r]
      BY <1>3 DEF ReadItem
    <2> HIDE DEF r
    <2> QED
      BY <2>2, <2>3, OneRequestTyped
  <1>4. CASE req' = [req EXCEPT ![u] = Idle]
    BY <1>4, Constants, OneRequestTyped
  <1>5. CASE AdmitRekey(u) /\ IsManager(u)
    <2> DEFINE r == [req[u] EXCEPT !.phase = "admitted"]
    <2>1. r \in Request /\ r.listed = req[u].listed /\ r.read = req[u].read
      BY <1>5, <1>a DEF AdmitRekey, RekeyRequest, Request
    <2>2. \A i \in r.listed : r.read[i] # 0
      BY <1>5, <2>1 DEF AdmitRekey
    <2>3. req' = [req EXCEPT ![u] = r]
      BY <1>5 DEF AdmitRekey
    <2> HIDE DEF r
    <2> QED
      BY <2>1, <2>2, <2>3, OneRequestTyped
  <1> QED
    BY <1>1, <1>2, <1>3, <1>4, <1>5 DEF AbortRead, RejectRekey, AdmitRekey

LEMMA RotationTyped ==
    ASSUME Typed, NEW u \in Users, BeginRekey(u) \/ CommitRekey(u) \/ AbortRekey(u)
    PROVE  Typed'
  <1>a. req[u] \in RekeyRequest /\ req[u].op = "rekey"
    BY RequestShape DEF Typed, TypeOK, BeginRekey, CommitRekey, AbortRekey, Rotating
  <1>1. CASE BeginRekey(u)
    <2> DEFINE r == [req[u] EXCEPT !.phase = "writing"]
    <2>1. r \in Request /\ r.listed = req[u].listed /\ r.read = req[u].read
      BY <1>a DEF RekeyRequest, Request
    <2>2. \A i \in r.listed : r.read[i] # 0
      BY <1>1, <1>a, <2>1 DEF BeginRekey, Typed, AdmittedIsRead
    <2>3. req' = [req EXCEPT ![u] = r]
      BY <1>1 DEF BeginRekey
    <2> HIDE DEF r
    <2>4. req' \in [Users -> Request] /\ AdmittedIsRead'
      BY <2>1, <2>2, <2>3, OneRequestTyped
    <2>5. atRead' \in [users : SUBSET Users, items : SUBSET Items]
      BY <1>1 DEF BeginRekey, EnrolledRoster, Roster, LiveItems
    <2> QED
      BY <1>1, <2>4, <2>5 DEF BeginRekey, Typed, TypeOK
  <1>2. CASE CommitRekey(u)
    <2> DEFINE r == req[u]
    <2>1. r.expected + 1 \in Version /\ r.expected + 1 \in Generation
      BY <1>a, RekeyAssumption DEF RekeyRequest, Version, Generation
    <2>2. \A i \in r.listed : r.read[i] \in Content
      BY <1>2, <1>a, RekeyAssumption
         DEF CommitRekey, Rotating, Typed, AdmittedIsRead, RekeyRequest, Content
    <2>3. ASSUME NEW i \in Items, i \in r.listed, items[i].state # "none"
          PROVE  [state |-> items[i].state, gen |-> r.expected + 1, content |-> r.read[i]]
                   \in ItemRow
      BY <2>1, <2>2, <2>3 DEF ItemRow, NoItem, Typed, TypeOK
    <2>4. items' \in [Items -> ItemRow \cup {NoItem}]
      BY <1>2, <2>3 DEF CommitRekey, Typed, TypeOK
    <2>5. vaultKeys' \in [Users -> Generation]
      BY <1>2, <2>1, Constants DEF CommitRekey
    <2>6. keyVersion' \in Version /\ rekeyPending' \in BOOLEAN
      BY <1>2, <2>1 DEF CommitRekey, BumpVersion
    <2>7. req' \in [Users -> Request] /\ AdmittedIsRead'
      BY <1>2, Constants, OneRequestTyped DEF CommitRekey
    <2>8. removal' \in [Users -> Removal]
      BY <1>2 DEF CommitRekey, Typed, TypeOK, Removal
    <2>9. atRead' \in [users : SUBSET Users, items : SUBSET Items]
      BY <1>2 DEF CommitRekey
    <2> QED
      BY <1>2, <2>4, <2>5, <2>6, <2>7, <2>8, <2>9 DEF CommitRekey, Typed, TypeOK
  <1>3. CASE AbortRekey(u)
    <2>1. req' \in [Users -> Request] /\ AdmittedIsRead'
      BY <1>3, Constants, OneRequestTyped DEF AbortRekey
    <2>2. atRead' \in [users : SUBSET Users, items : SUBSET Items]
      BY <1>3 DEF AbortRekey, Typed, TypeOK
    <2> QED
      BY <1>3, <2>1, <2>2 DEF AbortRekey, Typed, TypeOK
  <1> QED
    BY <1>1, <1>2, <1>3

LEMMA RekeyTyped == Typed /\ RekeyNext => Typed'
  BY DialogTyped, RotationTyped DEF RekeyNext

LEMMA MemberTyped == Typed /\ MemberNext => Typed'
  <1> SUFFICES ASSUME Typed, NEW u \in Users,
                      \/ \E target \in Users, role \in GrantRoles : BeginAddMember(u, target, role)
                      \/ Membership(u)
               PROVE  Typed'
    BY DEF MemberNext, Membership
  <1> USE DEF Typed, TypeOK
  <1>1. ASSUME NEW target \in Users, NEW role \in GrantRoles, BeginAddMember(u, target, role)
        PROVE  Typed'
    <2>1. PICK gen \in {0, vaultKeys[u]} :
            req' = [req EXCEPT ![u] =
                      [op |-> "add", target |-> target, role |-> role, gen |-> gen]]
      BY <1>1 DEF BeginAddMember
    <2> DEFINE r == [op |-> "add", target |-> target, role |-> role, gen |-> gen]
    <2>2. r \in Request /\ r.op # "rekey"
      BY Constants DEF Request, AddRequest
    <2>3. req' = [req EXCEPT ![u] = r]
      BY <2>1
    <2> HIDE DEF r
    <2>4. req' \in [Users -> Request] /\ AdmittedIsRead'
      BY <2>2, <2>3, OneRequestTyped
    <2> QED
      BY <1>1, <2>4 DEF BeginAddMember
  <1>2. CASE CommitAddMember(u)
    <2>1. req[u] \in AddRequest
      BY <1>2, RequestShape DEF CommitAddMember
    <2>2. vaultMembers' \in [Users -> Role \cup {NoRole}]
      BY <1>2, <2>1 DEF CommitAddMember, AddRequest
    <2>3. vaultKeys' \in [Users -> Generation]
      BY <1>2, <2>1 DEF CommitAddMember, AddRequest
    <2>4. req' \in [Users -> Request] /\ AdmittedIsRead'
      BY <1>2, Constants, OneRequestTyped DEF CommitAddMember
    <2> QED
      BY <1>2, <2>2, <2>3, <2>4 DEF CommitAddMember
  <1> USE DEF AdmittedIsRead
  <1>3. ASSUME NEW target \in Users, NEW role \in GrantRoles, ChangeRole(u, target, role)
        PROVE  Typed'
    BY <1>3, Constants DEF ChangeRole
  <1>4. ASSUME NEW role \in GrantRoles, ApproveAccess(u, role)
        PROVE  Typed'
    <2>1. PICK until \in {"never", "later"} :
            lapse' = [lapse EXCEPT ![u] =
                        [base |-> IF lapse[u].base # NoRole THEN lapse[u].base
                                  ELSE vaultMembers[u],
                         until |-> until]]
      BY <1>4 DEF ApproveAccess
    <2>2. lapse' \in [Users -> Lapse]
      BY <2>1 DEF Lapse
    <2> QED
      BY <1>4, <2>2, Constants DEF ApproveAccess
  <1>5. CASE Expire(u)
    <2>1. lapse' \in [Users -> Lapse]
      BY <1>5 DEF Expire, Lapse
    <2> QED
      BY <1>5, <2>1 DEF Expire
  <1>6. CASE SweepMember(u)
    <2>1. lapse[u].base \in Role \cup {NoRole}
      BY DEF Lapse
    <2> QED
      BY <1>6, <2>1, Constants DEF SweepMember
  <1> QED
    BY <1>1, <1>2, <1>3, <1>4, <1>5, <1>6 DEF Membership

LEMMA RemovalTyped == Typed /\ RemovalNext => Typed'
  <1> SUFFICES ASSUME Typed, NEW v \in Users,
                      \/ \E u \in Users : BeginRemove(u, v)
                      \/ BeginLeave(v)
                      \/ ListKeys(v)
                      \/ DropKey(v)
                      \/ CommitRemoval(v)
                      \/ AbortRemoval(v)
               PROVE  Typed'
    BY DEF RemovalNext
  <1> USE DEF Typed, TypeOK, AdmittedIsRead
  <1>1. ASSUME NEW u \in Users, BeginRemove(u, v)
        PROVE  Typed'
    BY <1>1 DEF BeginRemove, Removal, NoRemoval
  <1>2. CASE BeginLeave(v)
    BY <1>2 DEF BeginLeave, Removal, NoRemoval
  <1>3. CASE ListKeys(v)
    <2> DEFINE x == [removal[v] EXCEPT !.stage = IF vaultKeys[v] = 0 THEN "dropped" ELSE "listed",
                                       !.flag = vaultKeys[v] # 0]
    <2>1. x \in Removal
      BY DEF Removal
    <2>2. removal' = [removal EXCEPT ![v] = x]
      BY <1>3 DEF ListKeys
    <2> HIDE DEF x
    <2>3. removal' \in [Users -> Removal]
      BY <2>1, <2>2
    <2> QED
      BY <1>3, <2>3 DEF ListKeys
  <1>4. CASE DropKey(v)
    BY <1>4 DEF DropKey, Removal
  <1>5. CASE CommitRemoval(v)
    <2>1. removal[v] \in Removal
      OBVIOUS
    <2>2. rekeyPending' \in BOOLEAN
      BY <1>5, <2>1 DEF CommitRemoval, RaiseFlag, Removal
    <2>3. /\ vaultKeys' \in [Users -> Generation]
          /\ vaultMembers' \in [Users -> Role \cup {NoRole}]
          /\ lapse' \in [Users -> Lapse]
          /\ orgMembers' \subseteq Users
          /\ removal' \in [Users -> Removal]
      BY <1>5, Constants DEF CommitRemoval
    <2> QED
      BY <1>5, <2>2, <2>3 DEF CommitRemoval
  <1>6. CASE AbortRemoval(v)
    BY <1>6, Constants DEF AbortRemoval
  <1> QED
    BY <1>1, <1>2, <1>3, <1>4, <1>5, <1>6

LEMMA TeamTyped == Typed /\ TeamNext => Typed'
  <1> SUFFICES ASSUME Typed, NEW t \in Teams,
                      \/ \E u \in Users, role \in GrantRoles : GrantTeam(u, t, role)
                      \/ \E u \in Users : RevokeTeam(u, t)
                      \/ \E u \in Users : JoinTeam(u, t)
                      \/ \E u \in Users : LeaveTeam(u, t)
                      \/ DeleteTeam(t)
               PROVE  Typed'
    BY DEF TeamNext
  <1> USE DEF Typed, TypeOK, AdmittedIsRead
  <1>1. ASSUME NEW u \in Users, NEW role \in GrantRoles, GrantTeam(u, t, role)
        PROVE  Typed'
    BY <1>1, RekeyAssumption DEF GrantTeam
  <1>2. ASSUME NEW u \in Users, RevokeTeam(u, t)
        PROVE  Typed'
    BY <1>2 DEF RevokeTeam
  <1>3. ASSUME NEW u \in Users, JoinTeam(u, t)
        PROVE  Typed'
    BY <1>3 DEF JoinTeam
  <1>4. ASSUME NEW u \in Users, LeaveTeam(u, t)
        PROVE  Typed'
    BY <1>4 DEF LeaveTeam
  <1>5. CASE DeleteTeam(t)
    BY <1>5 DEF DeleteTeam
  <1> QED
    BY <1>1, <1>2, <1>3, <1>4, <1>5

LEMMA OrgTyped == Typed /\ OrgNext => Typed'
  <1> SUFFICES ASSUME Typed, NEW u \in Users, JoinOrg(u) \/ Enroll(u)
               PROVE  Typed'
    BY DEF OrgNext
  <1> QED
    BY DEF Typed, TypeOK, AdmittedIsRead, JoinOrg, Enroll

LEMMA ItemTyped == Typed /\ ItemNext => Typed'
  <1> SUFFICES ASSUME Typed, NEW i \in Items,
                      \/ \E u \in Users : CreateItem(u, i)
                      \/ \E u \in Users : EditItem(u, i)
                      \/ \E u \in Users : TrashItem(u, i)
                      \/ RestoreItem(i)
                      \/ PurgeItem(i)
               PROVE  Typed'
    BY DEF ItemNext
  <1>a. \A u \in Users : held[u] # 0 => held[u] \in Version
    BY RekeyAssumption DEF Typed, TypeOK, Generation, Version
  <1>b. items[i].state # "none" => items[i] \in ItemRow
    BY DEF Typed, TypeOK, NoItem
  <1> USE DEF Typed, TypeOK, AdmittedIsRead
  <1>1. ASSUME NEW u \in Users, CreateItem(u, i)
        PROVE  Typed'
    BY <1>1, <1>a, RekeyAssumption DEF CreateItem, ItemRow, Content
  <1>2. ASSUME NEW u \in Users, EditItem(u, i)
        PROVE  Typed'
    <2> DEFINE row == [items[i] EXCEPT !.gen = held[u], !.content = items[i].content + 1]
    <2>1. items[i] \in ItemRow /\ held[u] \in Version
      BY <1>2, <1>a, <1>b DEF EditItem
    <2>2. items[i].content + 1 \in Content
      <3>1. items[i].content \in 1..MaxContent /\ items[i].content < MaxContent
        BY <1>2, <2>1 DEF EditItem, ItemRow, Content
      <3> QED
        BY <3>1, RekeyAssumption DEF Content
    <2>3. row \in ItemRow
      BY <2>1, <2>2 DEF ItemRow
    <2>4. items' = [items EXCEPT ![i] = row]
      BY <1>2 DEF EditItem
    <2> HIDE DEF row
    <2> QED
      BY <1>2, <2>3, <2>4 DEF EditItem
  <1>3. ASSUME NEW u \in Users, TrashItem(u, i)
        PROVE  Typed'
    BY <1>3, <1>b DEF TrashItem, ItemRow
  <1>4. CASE RestoreItem(i)
    BY <1>4, <1>b DEF RestoreItem, ItemRow
  <1>5. CASE PurgeItem(i)
    BY <1>5 DEF PurgeItem
  <1> QED
    BY <1>1, <1>2, <1>3, <1>4, <1>5

LEMMA TypedStep == Typed /\ [Next]_vars => Typed'
  <1> SUFFICES ASSUME Typed, [Next]_vars PROVE Typed'
    OBVIOUS
  <1>1. CASE Next
    BY <1>1, BrowserTyped, RekeyTyped, MemberTyped, RemovalTyped, TeamTyped, OrgTyped, ItemTyped
       DEF Next
  <1>2. CASE UNCHANGED vars
    BY <1>2 DEF vars, Typed, TypeOK, AdmittedIsRead
  <1> QED
    BY <1>1, <1>2

\* Every row, request and open transaction keeps the shape the schema and the
\* payloads give it.
THEOREM TypeCorrect == Spec => []TypeOK
  <1>1. Typed => TypeOK
    BY DEF Typed
  <1> QED
    BY InitTyped, TypedStep, <1>1, PTL DEF Spec

-----------------------------------------------------------------------------
(* How one user's request, and one user's removal, moves *)

LEMMA RequestSteps ==
    ASSUME Typed, [Next]_vars, NEW v \in Users
    PROVE  \/ req'[v] = req[v]
           \/ req'[v] = Idle
           \/ OpenRekey(v)
           \/ ListItems(v)
           \/ \E i \in Items : ReadItem(v, i)
           \/ AdmitRekey(v)
           \/ BeginRekey(v)
           \/ \E target \in Users, role \in GrantRoles : BeginAddMember(v, target, role)
  <1>a. req \in [Users -> Request]
    BY DEF Typed, TypeOK
  <1>1. CASE UNCHANGED req
    BY <1>1
  <1>2. CASE RekeyNext
    <2>1. PICK u \in Users :
                 \/ OpenRekey(u)
                 \/ ListItems(u)
                 \/ \E i \in Items : ReadItem(u, i)
                 \/ \E i \in Items : AbortRead(u, i)
                 \/ AdmitRekey(u)
                 \/ BeginRekey(u)
                 \/ RejectRekey(u)
                 \/ CommitRekey(u)
                 \/ AbortRekey(u)
      BY <1>2 DEF RekeyNext
    <2>2. CASE u = v
      <3>1. \/ \E i \in Items : AbortRead(u, i)
            \/ RejectRekey(u)
            \/ CommitRekey(u)
            \/ AbortRekey(u)
            => req'[u] = Idle
        BY <1>a DEF AbortRead, RejectRekey, CommitRekey, AbortRekey
      <3> QED
        BY <2>1, <2>2, <3>1
    <2>3. CASE u # v
      <3>1. req'[v] = req[v]
        BY <1>a, <2>1, <2>3
           DEF OpenRekey, ListItems, ReadItem, AbortRead, AdmitRekey, BeginRekey, RejectRekey,
               CommitRekey, AbortRekey
      <3> QED
        BY <3>1
    <2> QED
      BY <2>2, <2>3
  <1>3. ASSUME NEW u \in Users, CommitAddMember(u)
        PROVE  req'[v] \in {req[v], Idle}
    BY <1>a, <1>3 DEF CommitAddMember
  <1>4. ASSUME NEW u \in Users, NEW target \in Users, NEW role \in GrantRoles,
               BeginAddMember(u, target, role)
        PROVE  req'[v] = req[v] \/ u = v
    BY <1>a, <1>4 DEF BeginAddMember
  <1> QED
    BY <1>1, <1>2, <1>3, <1>4, Frames DEF Framed

LEMMA RemovalSteps ==
    ASSUME Typed, [Next]_vars, NEW v \in Users
    PROVE  \/ removal'[v] = removal[v]
           \/ removal'[v] = NoRemoval
           \/ \E u \in Users : CommitRekey(u) /\ removal'[v] = [removal[v] EXCEPT !.key = FALSE]
           \/ \E u \in Users : BeginRemove(u, v)
           \/ BeginLeave(v)
           \/ ListKeys(v)
           \/ DropKey(v)
  <1>a. removal \in [Users -> Removal]
    BY DEF Typed, TypeOK
  <1>1. CASE UNCHANGED removal
    BY <1>1
  <1>2. CASE RemovalNext
    <2>1. PICK w \in Users :
                 \/ \E u \in Users : BeginRemove(u, w)
                 \/ BeginLeave(w)
                 \/ ListKeys(w)
                 \/ DropKey(w)
                 \/ CommitRemoval(w)
                 \/ AbortRemoval(w)
      BY <1>2 DEF RemovalNext
    <2>2. CASE w = v
      <3>1. CommitRemoval(w) \/ AbortRemoval(w) => removal'[w] = NoRemoval
        BY <1>a DEF CommitRemoval, AbortRemoval
      <3> QED
        BY <2>1, <2>2, <3>1
    <2>3. CASE w # v
      BY <1>a, <2>1, <2>3
         DEF BeginRemove, BeginLeave, ListKeys, DropKey, CommitRemoval, AbortRemoval
    <2> QED
      BY <2>2, <2>3
  <1>3. ASSUME NEW u \in Users, CommitRekey(u)
        PROVE  removal'[v] = [removal[v] EXCEPT !.key = FALSE]
    BY <1>3 DEF CommitRekey
  <1> QED
    BY <1>1, <1>2, <1>3, Frames DEF Framed

\* The dialog and the transaction carry on what opening the dialog read.
LEMMA DialogKeeps ==
    ASSUME Typed, NEW v \in Users, ListItems(v) \/ AdmitRekey(v) \/ BeginRekey(v),
           req'[v].op = "rekey"
    PROVE  /\ req[v].op = "rekey"
           /\ req'[v].expected = req[v].expected
           /\ req'[v].old = req[v].old
           /\ req'[v].wrapped = req[v].wrapped
           /\ req'[v].read = req[v].read
           /\ req'[v].phase = "writing" => BeginRekey(v)
           /\ ~ListItems(v) => req'[v].listed = req[v].listed
  <1>1. req[v] \in RekeyRequest /\ req \in [Users -> Request]
    BY RequestShape DEF ListItems, AdmitRekey, BeginRekey, Typed, TypeOK
  <1>2. CASE ListItems(v)
    BY <1>1, <1>2 DEF ListItems, RekeyRequest
  <1>3. CASE AdmitRekey(v)
    BY <1>1, <1>3, Constants DEF AdmitRekey, RekeyRequest
  <1>4. CASE BeginRekey(v)
    BY <1>1, <1>4 DEF BeginRekey, RekeyRequest
  <1> QED
    BY <1>2, <1>3, <1>4

LEMMA ReadKeeps ==
    ASSUME Typed, NEW v \in Users, NEW i \in Items, ReadItem(v, i)
    PROVE  /\ req[v] \in RekeyRequest
           /\ req[v].op = "rekey"
           /\ req'[v].phase = "reading"
           /\ req'[v].expected = req[v].expected
           /\ req'[v].old = req[v].old
           /\ req'[v].wrapped = req[v].wrapped
           /\ req'[v].listed = req[v].listed
           /\ req'[v].read = [req[v].read EXCEPT ![i] = items[i].content]
           /\ UNCHANGED <<serverVars, held>>
  <1>1. req[v] \in RekeyRequest /\ req \in [Users -> Request]
    BY RequestShape DEF ReadItem, Typed, TypeOK
  <1> QED
    BY <1>1 DEF ReadItem, RekeyRequest

LEMMA OpenStarts ==
    ASSUME Typed, NEW v \in Users, OpenRekey(v)
    PROVE  /\ req'[v].op = "rekey"
           /\ req'[v].phase = "open"
           /\ req'[v].expected = keyVersion
           /\ req'[v].old = held[v]
           /\ req'[v].wrapped = EnrolledRoster
           /\ req'[v].read = [i \in Items |-> 0]
           /\ EnrolledRoster # {}
           /\ UNCHANGED <<serverVars, held>>
  <1>1. req'[v] = [op |-> "rekey", phase |-> "open", expected |-> keyVersion,
                   old |-> held[v], wrapped |-> EnrolledRoster,
                   listed |-> {}, read |-> [i \in Items |-> 0]]
    BY DEF OpenRekey, Typed, TypeOK
  <1>2. EnrolledRoster # {} /\ UNCHANGED <<serverVars, held>>
    BY DEF OpenRekey
  <1> QED
    BY <1>1, <1>2

-----------------------------------------------------------------------------
(* The transactions in progress *)

\* One rotation at a time holds the vaults row, it is for the generation the
\* vault has, and it is going to write what it read; a removal takes the keys
\* it saw, and raises the flag for them.
TxSound ==
    /\ \A u, v \in Rotating : u = v
    /\ \A u \in Rotating : /\ req[u].expected = keyVersion
                           /\ req[u].wrapped = atRead.users
                           /\ req[u].listed = atRead.items
    /\ \A v \in Users : removal[v].key => removal[v].flag /\ removal[v].stage = "dropped"

\* A rotation enters its transaction, or was in it.
LEMMA WriterSteps ==
    ASSUME Typed, [Next]_vars, NEW v \in Rotating'
    PROVE  BeginRekey(v) \/ (v \in Rotating /\ req'[v] = req[v])
  <1>1. v \in Users /\ req'[v].op = "rekey" /\ req'[v].phase = "writing"
    BY DEF Rotating
  <1>2. ~OpenRekey(v)
    BY <1>1, OpenStarts
  <1>3. \A i \in Items : ~ReadItem(v, i)
    BY <1>1, ReadKeeps
  <1>4. req'[v] # Idle
    BY <1>1, Constants
  <1>5. ASSUME NEW target \in Users, NEW role \in GrantRoles, BeginAddMember(v, target, role)
        PROVE  FALSE
    BY <1>1, <1>5 DEF BeginAddMember, Typed, TypeOK
  <1>6. CASE ListItems(v) \/ AdmitRekey(v) \/ BeginRekey(v)
    BY <1>1, <1>6, DialogKeeps
  <1>7. CASE req'[v] = req[v]
    BY <1>1, <1>7 DEF Rotating
  <1> QED
    BY <1>1, <1>2, <1>3, <1>4, <1>5, <1>6, <1>7, RequestSteps

LEMMA GenerationMovesOnlyByRotation ==
    ASSUME [Next]_vars
    PROVE  keyVersion' = keyVersion \/ \E u \in Users : CommitRekey(u)
  BY Frames DEF Framed, CommitAddMember, CommitRemoval

LEMMA TxSoundStep == Typed /\ TxSound /\ [Next]_vars => TxSound'
  <1> SUFFICES ASSUME Typed, TxSound, [Next]_vars PROVE TxSound'
    OBVIOUS
  <1>1. ASSUME NEW v \in Users, removal'[v].key
        PROVE  removal'[v].flag /\ removal'[v].stage = "dropped"
    <2> USE DEF Typed, TypeOK, Removal
    <2>1. CASE removal'[v] = removal[v]
      BY <1>1, <2>1 DEF TxSound
    <2>2. CASE removal'[v] = NoRemoval
      BY <1>1, <2>2 DEF NoRemoval
    <2>3. CASE removal'[v] = [removal[v] EXCEPT !.key = FALSE]
      BY <1>1, <2>3
    <2>4. ASSUME NEW u \in Users, BeginRemove(u, v)
          PROVE  FALSE
      BY <1>1, <2>4 DEF BeginRemove, NoRemoval
    <2>5. CASE BeginLeave(v)
      BY <1>1, <2>5 DEF BeginLeave, NoRemoval
    <2>6. CASE ListKeys(v)
      BY <1>1, <2>6 DEF ListKeys, TxSound
    <2>7. CASE DropKey(v)
      BY <1>1, <2>7 DEF DropKey, TxSound
    <2> QED
      BY <2>1, <2>2, <2>3, <2>4, <2>5, <2>6, <2>7, RemovalSteps
  <1>2. ASSUME NEW u \in Users, BeginRekey(u)
        PROVE  TxSound'
    <2>1. Rotating' \subseteq {u}
      BY <1>2, WriterSteps DEF BeginRekey, Rotating, Typed, TypeOK
    <2>2. /\ req'[u].expected = req[u].expected
          /\ req'[u].wrapped = req[u].wrapped
          /\ req'[u].listed = req[u].listed
      <3>1. req[u] \in RekeyRequest
        BY <1>2, RequestShape DEF BeginRekey, Typed, TypeOK
      <3> QED
        BY <1>2, <3>1 DEF BeginRekey, RekeyRequest, Typed, TypeOK
    <2>3. /\ req[u].expected = keyVersion
          /\ req[u].wrapped = EnrolledRoster
          /\ req[u].listed = LiveItems
          /\ atRead'.users = EnrolledRoster
          /\ atRead'.items = LiveItems
          /\ keyVersion' = keyVersion
      BY <1>2 DEF BeginRekey, RekeyValid, WrappedKeysValid
    <2> QED
      BY <1>1, <2>1, <2>2, <2>3 DEF TxSound
  <1>3. CASE ~\E u \in Users : BeginRekey(u)
    <2>1. \A v \in Rotating' : v \in Users /\ v \in Rotating /\ req'[v] = req[v]
      BY <1>3, WriterSteps DEF Rotating
    <2>2. \A u, v \in Rotating' : u = v
      BY <2>1 DEF TxSound
    <2>3. ASSUME NEW v \in Rotating'
          PROVE  keyVersion' = keyVersion /\ atRead' = atRead
      <3>1. \A u \in Users : ~CommitRekey(u)
        <4>1. SUFFICES ASSUME NEW u \in Users, CommitRekey(u) PROVE FALSE
          OBVIOUS
        <4>2. u = v
          BY <2>1, <4>1 DEF CommitRekey, TxSound
        <4> QED
          BY <2>1, <4>1, <4>2, Constants DEF CommitRekey, Rotating, Typed, TypeOK
      <3>2. ASSUME NEW u \in Users, AbortRekey(u)
            PROVE  atRead' = atRead
        <4>1. CASE u \in Rotating
          <5>1. u = v
            BY <2>1, <4>1 DEF TxSound
          <5> QED
            BY <2>1, <3>2, <5>1, Constants DEF AbortRekey, Rotating, Typed, TypeOK
        <4> QED
          BY <3>2, <4>1 DEF AbortRekey
      <3> QED
        BY <1>3, <3>1, <3>2, Frames, GenerationMovesOnlyByRotation DEF Framed
    <2> QED
      BY <1>1, <2>1, <2>2, <2>3 DEF TxSound
  <1> QED
    BY <1>2, <1>3

LEMMA InitTxSound == Init => TxSound
  BY Constants DEF Init, TxSound, Rotating, NoRemoval

\* What a rotation that commits does to the keys and the items.
LEMMA RotationEffect ==
    ASSUME Typed, TxSound, NEW u \in Users, CommitRekey(u)
    PROVE  /\ keyVersion \in Nat
           /\ keyVersion' = keyVersion + 1
           /\ rekeyPending' = FALSE
           /\ req[u] \in RekeyRequest
           /\ req[u].expected = keyVersion
           /\ req[u].wrapped = atRead.users
           /\ req[u].listed = atRead.items
           /\ vaultKeys' = [v \in Users |-> IF v \in atRead.users THEN keyVersion + 1 ELSE 0]
           /\ EnrolledRoster' = EnrolledRoster
           /\ \A i \in Items : items'[i].state = items[i].state
           /\ \A i \in Items : i \in atRead.items /\ items[i].state # "none" =>
                                 /\ items'[i].gen = keyVersion + 1
                                 /\ items'[i].content = req[u].read[i]
           /\ \A i \in Items \ atRead.items : items'[i] = items[i]
           /\ held' = held
           /\ Rotating' = {}
  <1>1. u \in Rotating
    BY DEF CommitRekey
  <1>2. req[u] \in RekeyRequest
    BY <1>1, WriterShape
  <1>3. /\ req[u].expected = keyVersion
        /\ req[u].wrapped = atRead.users
        /\ req[u].listed = atRead.items
    BY <1>1 DEF TxSound
  <1>4. keyVersion \in Nat /\ keyVersion' = keyVersion + 1 /\ rekeyPending' = FALSE
    BY <1>3 DEF CommitRekey, BumpVersion, Typed, TypeOK, Version
  <1>5. vaultKeys' = [v \in Users |-> IF v \in atRead.users THEN keyVersion + 1 ELSE 0]
    BY <1>3 DEF CommitRekey
  <1>6. EnrolledRoster' = EnrolledRoster /\ held' = held
    BY DEF CommitRekey, EnrolledRoster, Roster, TeamsOf
  <1>7. \A i \in Items :
          items'[i] = IF i \in atRead.items /\ items[i].state # "none"
                      THEN [state |-> items[i].state, gen |-> keyVersion + 1,
                            content |-> req[u].read[i]]
                      ELSE items[i]
    BY <1>3 DEF CommitRekey
  <1>8. Rotating' = {}
    BY <1>1, Constants DEF CommitRekey, Rotating, TxSound, Typed, TypeOK
  <1>9. /\ \A i \in Items : items'[i].state = items[i].state
        /\ \A i \in Items : i \in atRead.items /\ items[i].state # "none" =>
                              /\ items'[i].gen = keyVersion + 1
                              /\ items'[i].content = req[u].read[i]
        /\ \A i \in Items \ atRead.items : items'[i] = items[i]
    <2>1. ASSUME NEW i \in Items, i \in atRead.items, items[i].state # "none"
          PROVE  /\ items'[i].state = items[i].state
                 /\ items'[i].gen = keyVersion + 1
                 /\ items'[i].content = req[u].read[i]
      <3>1. items'[i] = [state |-> items[i].state, gen |-> keyVersion + 1,
                         content |-> req[u].read[i]]
        BY <1>7, <2>1
      <3> QED
        BY <3>1
    <2>2. ASSUME NEW i \in Items, ~(i \in atRead.items /\ items[i].state # "none")
          PROVE  items'[i] = items[i]
      BY <1>7, <2>2
    <2> QED
      BY <2>1, <2>2
  <1> QED
    BY <1>2, <1>3, <1>4, <1>5, <1>6, <1>8, <1>9

\* What a rotation in its transaction read stays what it read.
LEMMA ReadStays ==
    ASSUME Typed, TxSound, [Next]_vars, Rotating' # {}
    PROVE  \/ \E u \in Users : BeginRekey(u)
           \/ Rotating # {} /\ atRead' = atRead
  <1> SUFFICES ASSUME ~\E u \in Users : BeginRekey(u)
               PROVE  Rotating # {} /\ atRead' = atRead
    OBVIOUS
  <1>1. PICK v \in Rotating' : TRUE
    OBVIOUS
  <1>2. v \in Users /\ v \in Rotating /\ req'[v] = req[v]
    BY WriterSteps DEF Rotating
  <1>3. ASSUME NEW u \in Users, AbortRekey(u)
        PROVE  atRead' = atRead
    <2>1. CASE u \in Rotating
      <3>1. u = v
        BY <1>2, <2>1 DEF TxSound
      <3> QED
        BY <1>2, <1>3, <3>1, Constants DEF AbortRekey, Rotating, Typed, TypeOK
    <2> QED
      BY <1>3, <2>1 DEF AbortRekey
  <1>4. \A u \in Users : ~CommitRekey(u)
    BY RotationEffect
  <1> QED
    BY <1>2, <1>3, <1>4, Frames DEF Framed

-----------------------------------------------------------------------------
(* No key from the future *)

LEMMA InitNoFuture == Init => NoFutureGeneration
  BY DEF Init, NoFutureGeneration, RequestSane, NoItem, Idle

LEMMA RotationKeys ==
    ASSUME Typed, TxSound, NEW u \in Users, CommitRekey(u)
    PROVE  /\ keyVersion \in Nat
           /\ keyVersion' = keyVersion + 1
           /\ \A v \in Users : vaultKeys'[v] = IF v \in atRead.users THEN keyVersion + 1 ELSE 0
           /\ held' = held
  BY RotationEffect, Zenon

LEMMA GenerationsGrow ==
    ASSUME Typed, TxSound, [Next]_vars
    PROVE  keyVersion \in Nat /\ keyVersion' \in Nat /\ keyVersion <= keyVersion'
  BY GenerationMovesOnlyByRotation, RotationKeys DEF Typed, TypeOK, Version

LEMMA NoFutureRows ==
    ASSUME Typed, TxSound, NoFutureGeneration, [Next]_vars
    PROVE  /\ \A u \in Users : vaultKeys'[u] <= keyVersion' /\ held'[u] <= keyVersion'
           /\ \A i \in Items : items'[i].gen <= keyVersion'
  <1> USE DEF Typed, TypeOK
  <1>a. keyVersion \in Nat /\ keyVersion' \in Nat /\ keyVersion <= keyVersion'
    BY GenerationsGrow
  <1>b. \A u \in Users : vaultKeys[u] <= keyVersion' /\ held[u] <= keyVersion'
    BY <1>a DEF NoFutureGeneration, Generation
  <1>1. ASSUME NEW u \in Users
        PROVE  vaultKeys'[u] <= keyVersion'
    <2>1. CASE UNCHANGED keyVars
      BY <1>b, <2>1
    <2>2. ASSUME NEW w \in Users, CommitAddMember(w)
          PROVE  vaultKeys'[u] <= keyVersion'
      <3>1. req[w] \in AddRequest /\ req[w].gen <= keyVersion
        BY <2>2, RequestShape DEF CommitAddMember, NoFutureGeneration, RequestSane
      <3>2. vaultKeys'[u] \in {vaultKeys[u], req[w].gen} /\ keyVersion' = keyVersion
        BY <2>2, <3>1 DEF CommitAddMember, AddRequest
      <3> QED
        BY <1>b, <3>1, <3>2
    <2>3. ASSUME NEW w \in Users, CommitRekey(w)
          PROVE  vaultKeys'[u] <= keyVersion'
      BY <1>a, <2>3, RotationKeys
    <2>4. ASSUME NEW w \in Users, CommitRemoval(w)
          PROVE  vaultKeys'[u] <= keyVersion'
      BY <1>a, <1>b, <2>4 DEF CommitRemoval
    <2> QED
      BY <2>1, <2>2, <2>3, <2>4, Frames DEF Framed
  <1>2. ASSUME NEW u \in Users
        PROVE  held'[u] <= keyVersion'
    <2>1. CASE UNCHANGED held
      BY <1>b, <2>1
    <2>2. ASSUME NEW w \in Users, FetchKey(w) \/ Lock(w)
          PROVE  held'[u] <= keyVersion'
      BY <1>a, <1>b, <2>2 DEF FetchKey, Lock
    <2> QED
      BY <2>1, <2>2, Frames DEF Framed
  <1>3. ASSUME NEW i \in Items
        PROVE  items'[i].gen <= keyVersion'
    <2>1. items[i].gen \in Nat /\ items[i].gen <= keyVersion
      BY DEF NoFutureGeneration, ItemRow, NoItem, Version
    <2>2. CASE items'[i].gen = items[i].gen
      BY <1>a, <2>1, <2>2
    <2>3. CASE \E u \in Users : items'[i].gen = held[u]
      BY <1>b, <2>3
    <2>4. CASE items'[i].gen = 0
      BY <1>a, <2>4
    <2>5. ASSUME NEW u \in Users, CommitRekey(u)
          PROVE  items'[i].gen \in {items[i].gen, keyVersion'}
      <3>1. /\ items[i].state = "none" => items[i] = NoItem
            /\ items'[i].state = "none" => items'[i] = NoItem
        BY TypedStep DEF ItemRow, NoItem
      <3> QED
        BY <2>5, <3>1, RotationEffect
    <2>6. CASE ItemNext
      <3>1. PICK j \in Items :
              \/ \E u \in Users : CreateItem(u, j)
              \/ \E u \in Users : EditItem(u, j)
              \/ \E u \in Users : TrashItem(u, j)
              \/ RestoreItem(j)
              \/ PurgeItem(j)
        BY <2>6 DEF ItemNext
      <3> USE DEF ItemRow, NoItem
      <3>2. CASE \E u \in Users : CreateItem(u, j)
        BY <2>2, <2>3, <3>2 DEF CreateItem
      <3>3. CASE \E u \in Users : EditItem(u, j)
        BY <2>2, <2>3, <3>3 DEF EditItem
      <3>4. CASE \E u \in Users : TrashItem(u, j)
        BY <2>2, <3>4 DEF TrashItem
      <3>5. CASE RestoreItem(j)
        BY <2>2, <3>5 DEF RestoreItem
      <3>6. CASE PurgeItem(j)
        BY <2>2, <2>4, <3>6 DEF PurgeItem
      <3> QED
        BY <3>1, <3>2, <3>3, <3>4, <3>5, <3>6
    <2> QED
      BY <1>a, <2>2, <2>5, <2>6, Frames DEF Framed
  <1> QED
    BY <1>1, <1>2, <1>3

LEMMA NoFutureRequests ==
    ASSUME Typed, TxSound, NoFutureGeneration, [Next]_vars, NEW v \in Users
    PROVE  RequestSane(req[v])'
  <1>a. keyVersion \in Nat /\ keyVersion' \in Nat /\ keyVersion <= keyVersion'
    BY GenerationsGrow
  <1>b. req \in [Users -> Request] /\ RequestSane(req[v])
    BY DEF Typed, TypeOK, NoFutureGeneration
  <1>c. /\ req[v].op = "add" => req[v] \in AddRequest
        /\ req[v].op = "rekey" => req[v] \in RekeyRequest
    BY <1>b, RequestShape
  <1>d. enrolled \subseteq enrolled'
    BY Frames DEF Framed, Enroll
  <1>1. ASSUME req[v].op = "rekey", req'[v].expected = req[v].expected, req'[v].old = req[v].old,
               req'[v].op = "rekey"
        PROVE  RequestSane(req[v])'
    <2>1. req[v].expected \in Nat /\ req[v].old \in Nat
      BY <1>1, <1>c DEF RekeyRequest, Version
    <2>2. req[v].expected <= keyVersion /\ req[v].old <= keyVersion
      BY <1>1, <1>b DEF RequestSane
    <2> QED
      BY <1>1, <1>a, <2>1, <2>2 DEF RequestSane
  <1>2. CASE req'[v] = req[v]
    <2>1. CASE req[v].op = "add"
      <3>1. req[v].gen \in Nat
        BY <1>c, <2>1 DEF AddRequest, Generation
      <3> QED
        BY <1>2, <1>a, <1>b, <1>d, <2>1, <3>1 DEF RequestSane
    <2>2. CASE req[v].op = "rekey"
      BY <1>1, <1>2, <2>2
    <2>3. CASE req[v].op \notin {"add", "rekey"}
      BY <1>2, <2>3 DEF RequestSane
    <2> QED
      BY <2>1, <2>2, <2>3
  <1>3. CASE req'[v] = Idle
    BY <1>3, Constants DEF RequestSane
  <1>4. CASE OpenRekey(v)
    <2>1. held[v] <= keyVersion /\ keyVersion' = keyVersion
      BY <1>4, OpenStarts DEF NoFutureGeneration
    <2> QED
      BY <1>4, <1>a, <2>1, OpenStarts DEF RequestSane
  <1>5. CASE ListItems(v) \/ AdmitRekey(v) \/ BeginRekey(v)
    <2>1. req'[v] = Idle \/ req'[v].op = "rekey"
      BY <1>5, <1>b, <1>c DEF ListItems, AdmitRekey, BeginRekey, RekeyRequest
    <2> QED
      BY <1>1, <1>3, <1>5, <2>1, DialogKeeps
  <1>6. ASSUME NEW i \in Items, ReadItem(v, i)
        PROVE  RequestSane(req[v])'
    <2>1. req'[v].op = "rekey"
      BY <1>6, <1>b, <1>c DEF ReadItem, RekeyRequest
    <2> QED
      BY <1>1, <1>6, <2>1, ReadKeeps
  <1>7. ASSUME NEW target \in Users, NEW role \in GrantRoles, BeginAddMember(v, target, role)
        PROVE  RequestSane(req[v])'
    BY <1>7, <1>a, <1>b DEF BeginAddMember, NoFutureGeneration, RequestSane
  <1> QED
    BY <1>2, <1>3, <1>4, <1>5, <1>6, <1>7, RequestSteps

\* What every later argument starts from.
Sound == Typed /\ TxSound /\ NoFutureGeneration

LEMMA SoundStep == Sound /\ [Next]_vars => Sound'
  <1> SUFFICES ASSUME Sound, [Next]_vars PROVE Sound'
    OBVIOUS
  <1>1. NoFutureGeneration'
    BY NoFutureRows, NoFutureRequests DEF Sound, NoFutureGeneration
  <1> QED
    BY <1>1, TypedStep, TxSoundStep DEF Sound

LEMMA InitSound == Init => Sound
  BY InitTyped, InitTxSound, InitNoFuture DEF Sound

\* No row, browser or request is ever ahead of key_version, for any number of
\* users, requests and rotations.
THEOREM NoFutureKeys == Spec => []NoFutureGeneration
  <1>1. Sound => NoFutureGeneration
    BY DEF Sound
  <1> QED
    BY InitSound, SoundStep, <1>1, PTL DEF Spec

-----------------------------------------------------------------------------
(* Rotations *)

\* Whatever the dialogs, the membership changes and the removals do between
\* the moment a rotation reads the roster and the items and its commit, it is
\* complete for those who did not move: one generation up, nothing older left,
\* the members that stayed re-keyed, the items that stayed re-encrypted.
THEOREM CompleteRotations == Spec => RotationIsComplete
  <1> DEFINE Complete ==
        keyVersion' # keyVersion =>
          /\ keyVersion' = keyVersion + 1
          /\ ~rekeyPending'
          /\ \A u \in Users : vaultKeys'[u] \in {0, keyVersion'}
          /\ \A u \in atRead.users \cap EnrolledRoster' : vaultKeys'[u] # 0
          /\ \A u \in Users \ (atRead.users \cup EnrolledRoster') : vaultKeys'[u] = 0
          /\ \A i \in atRead.items \cap LiveItems' : items'[i].gen = keyVersion'
  <1>1. Sound /\ [Next]_vars => Complete
    <2> SUFFICES ASSUME Sound, [Next]_vars, keyVersion' # keyVersion
                 PROVE  Complete
      OBVIOUS
    <2> USE DEF Sound
    <2>1. PICK u \in Users : CommitRekey(u)
      BY GenerationMovesOnlyByRotation
    <2>2. /\ keyVersion \in Nat
          /\ keyVersion' = keyVersion + 1
          /\ ~rekeyPending'
          /\ vaultKeys' = [v \in Users |-> IF v \in atRead.users THEN keyVersion + 1 ELSE 0]
      BY <2>1, RotationEffect
    <2>3. ASSUME NEW i \in atRead.items \cap LiveItems'
          PROVE  items'[i].gen = keyVersion'
      <3>1. i \in Items /\ items'[i].state = "live"
        BY DEF LiveItems
      <3> QED
        BY <2>1, <3>1, RotationEffect
    <2>4. atRead.users \subseteq Users
      BY DEF Typed, TypeOK
    <2> QED
      BY <2>2, <2>3, <2>4
  <1>2. Sound /\ [Next]_vars => [Complete]_vars
    BY <1>1
  <1> QED
    BY InitSound, SoundStep, <1>2, PTL DEF Spec, RotationIsComplete

-----------------------------------------------------------------------------
(* The debt *)

LEMMA TakenBackStep == Sound /\ TakenBackIsFlagged /\ [Next]_vars => TakenBackIsFlagged'
  <1> SUFFICES ASSUME Sound, TakenBackIsFlagged, [Next]_vars, NEW v \in Users,
                      held'[v] = keyVersion', vaultKeys'[v] # keyVersion'
               PROVE  rekeyPending'
    BY DEF TakenBackIsFlagged
  <1> USE DEF Sound, Typed, TypeOK
  <1>a. keyVersion \in Nat \ {0}
    BY DEF Version
  <1>1. CASE UNCHANGED keyVars
    <2>1. CASE UNCHANGED held
      BY <1>1, <2>1 DEF TakenBackIsFlagged
    <2>2. ASSUME NEW u \in Users, FetchKey(u)
          PROVE  rekeyPending'
      BY <1>1, <2>2 DEF FetchKey, TakenBackIsFlagged
    <2>3. ASSUME NEW u \in Users, Lock(u)
          PROVE  rekeyPending'
      BY <1>1, <1>a, <2>3 DEF Lock, TakenBackIsFlagged
    <2> QED
      BY <2>1, <2>2, <2>3, Frames DEF Framed
  <1>2. ASSUME NEW u \in Users, CommitAddMember(u)
        PROVE  rekeyPending'
    <2>1. req[u] \in AddRequest
      BY <1>2, RequestShape DEF CommitAddMember
    <2>2. vaultKeys'[v] = vaultKeys[v] \/ vaultKeys[v] = 0
      BY <1>2, <2>1 DEF CommitAddMember, AddRequest
    <2> QED
      BY <1>2, <1>a, <2>2 DEF CommitAddMember, TakenBackIsFlagged
  <1>3. ASSUME NEW u \in Users, CommitRekey(u)
        PROVE  FALSE
    <2>1. held[v] <= keyVersion /\ held[v] \in Nat
      BY DEF NoFutureGeneration, Generation
    <2> QED
      BY <1>3, <2>1, RotationKeys
  <1>4. ASSUME NEW u \in Users, CommitRemoval(u)
        PROVE  rekeyPending'
    <2>1. CASE removal[u].key
      BY <1>4, <2>1 DEF TxSound, CommitRemoval, RaiseFlag
    <2>2. CASE ~removal[u].key
      BY <1>4, <2>2 DEF TakenBackIsFlagged, CommitRemoval, RaiseFlag
    <2> QED
      BY <2>1, <2>2
  <1> QED
    BY <1>1, <1>2, <1>3, <1>4, Frames DEF Framed

\* Taking a member's key row away is never forgotten: as long as the member's
\* browser may hold the current key, the vault stays flagged for rotation.
THEOREM TakenBackStaysFlagged == Spec => []TakenBackIsFlagged
  <1>1. Init => TakenBackIsFlagged
    BY DEF Init, TakenBackIsFlagged
  <1> QED
    BY InitSound, SoundStep, TakenBackStep, <1>1, PTL DEF Spec

\* A key is stored, or a rotation is owed; and a rotation under way wraps the
\* new key for somebody.
KeyOrFlag ==
    /\ UnflaggedVaultHasKey
    /\ \A u \in Users : req[u].op = "rekey" => req[u].wrapped # {}

LEMMA KeyOrFlagStep ==
    ASSUME Sound, KeyOrFlag, [Next]_vars
    PROVE  KeyOrFlag'
  <1> USE DEF Sound
  <1>1. ASSUME NEW v \in Users, req'[v].op = "rekey"
        PROVE  req'[v].wrapped # {}
    <2>1. CASE req'[v] = req[v]
      BY <1>1, <2>1 DEF KeyOrFlag
    <2>2. CASE OpenRekey(v)
      BY <2>2, OpenStarts
    <2>3. ASSUME NEW i \in Items, ReadItem(v, i)
          PROVE  req'[v].wrapped # {}
      BY <2>3, ReadKeeps DEF KeyOrFlag
    <2>4. CASE ListItems(v) \/ AdmitRekey(v) \/ BeginRekey(v)
      BY <1>1, <2>4, DialogKeeps DEF KeyOrFlag
    <2>5. ASSUME NEW target \in Users, NEW role \in GrantRoles, BeginAddMember(v, target, role)
          PROVE  FALSE
      BY <1>1, <2>5 DEF BeginAddMember, Typed, TypeOK
    <2> QED
      BY <1>1, <2>1, <2>2, <2>3, <2>4, <2>5, RequestSteps, Constants
  <1>2. UnflaggedVaultHasKey'
    <2> USE DEF Typed, TypeOK
    <2>1. CASE UNCHANGED keyVars
      BY <2>1 DEF KeyOrFlag, UnflaggedVaultHasKey
    <2>2. ASSUME NEW u \in Users, CommitAddMember(u)
          PROVE  UnflaggedVaultHasKey'
      BY <2>2 DEF CommitAddMember, KeyOrFlag, UnflaggedVaultHasKey
    <2>3. ASSUME NEW u \in Users, CommitRekey(u)
          PROVE  UnflaggedVaultHasKey'
      <3>1. u \in Users /\ req[u].op = "rekey"
        BY <2>3 DEF CommitRekey, Rotating
      <3>2. atRead.users # {} /\ atRead.users \subseteq Users
        BY <2>3, <3>1, RotationEffect DEF KeyOrFlag
      <3>3. PICK w \in Users : w \in atRead.users
        BY <3>2
      <3>4. vaultKeys'[w] = keyVersion + 1 /\ keyVersion \in Nat
        BY <2>3, <3>3, RotationEffect
      <3> QED
        BY <3>4 DEF UnflaggedVaultHasKey
    <2>4. ASSUME NEW u \in Users, CommitRemoval(u)
          PROVE  UnflaggedVaultHasKey'
      <3>1. CASE removal[u].key
        BY <2>4, <3>1 DEF TxSound, CommitRemoval, RaiseFlag, UnflaggedVaultHasKey
      <3>2. CASE ~removal[u].key
        BY <2>4, <3>2 DEF CommitRemoval, RaiseFlag, KeyOrFlag, UnflaggedVaultHasKey
      <3> QED
        BY <3>1, <3>2
    <2> QED
      BY <2>1, <2>2, <2>3, <2>4, Frames DEF Framed
  <1> QED
    BY <1>1, <1>2 DEF KeyOrFlag

\* A vault that is not flagged and has no key was created without one: no
\* sequence of removals, additions and rotations loses the last key silently.
THEOREM KeylessVaultsAreBornSo ==
    Spec /\ (\E u \in Users : vaultKeys[u] # 0) => []UnflaggedVaultHasKey
  <1>1. Init /\ (\E u \in Users : vaultKeys[u] # 0) => KeyOrFlag
    BY Constants DEF Init, KeyOrFlag, UnflaggedVaultHasKey
  <1>2. Sound /\ KeyOrFlag /\ [Next]_vars => KeyOrFlag'
    BY KeyOrFlagStep
  <1>3. KeyOrFlag => UnflaggedVaultHasKey
    BY DEF KeyOrFlag
  <1> QED
    BY InitSound, SoundStep, <1>1, <1>2, <1>3, PTL DEF Spec

-----------------------------------------------------------------------------
(* Refinement *)

LEMMA CustodyStep ==
    ASSUME Sound, [Next]_vars
    PROVE  [Custody!Next]_(Custody!vars)
  <1> USE DEF Sound, Typed, TypeOK
  <1>1. CASE UNCHANGED keyVars
    BY <1>1 DEF Custody!vars
  <1>2. ASSUME NEW u \in Users, CommitAddMember(u)
        PROVE  [Custody!Next]_(Custody!vars)
    <2>1. req[u] \in AddRequest
      BY <1>2, RequestShape DEF CommitAddMember
    <2>2. req[u].gen <= keyVersion
      BY <1>2 DEF CommitAddMember, NoFutureGeneration, RequestSane
    <2>3. CASE UNCHANGED vaultKeys
      BY <1>2, <2>3 DEF CommitAddMember, Custody!vars
    <2>4. CASE /\ req[u].gen # 0
               /\ vaultKeys[req[u].target] = 0
               /\ vaultKeys' = [vaultKeys EXCEPT ![req[u].target] = req[u].gen]
      <3>1. req[u].gen \in 1..keyVersion
        BY <2>1, <2>2, <2>4 DEF AddRequest, Generation, Version
      <3>2. Custody!Give(req[u].target)
        BY <1>2, <2>4, <3>1 DEF CommitAddMember, Custody!Give
      <3> QED
        BY <2>1, <3>2 DEF AddRequest, Custody!Next
    <2> QED
      BY <1>2, <2>3, <2>4 DEF CommitAddMember
  <1>3. ASSUME NEW u \in Users, CommitRekey(u)
        PROVE  [Custody!Next]_(Custody!vars)
    <2>1. atRead.users \in SUBSET Users
      OBVIOUS
    <2>2. /\ keyVersion' = keyVersion + 1
          /\ rekeyPending' = FALSE
          /\ vaultKeys' = [v \in Users |-> IF v \in atRead.users THEN keyVersion + 1 ELSE 0]
      BY <1>3, RotationEffect, Zenon
    <2>3. Custody!Rotate
      BY ONLY <2>1, <2>2 DEF Custody!Rotate
    <2> QED
      BY <2>3 DEF Custody!Next
  <1>4. ASSUME NEW u \in Users, CommitRemoval(u)
        PROVE  [Custody!Next]_(Custody!vars)
    <2>1. CASE removal[u].key
      <3>1. Custody!TakeBack(u)
        BY <1>4, <2>1 DEF TxSound, CommitRemoval, RaiseFlag, Custody!TakeBack
      <3> QED
        BY <3>1 DEF Custody!Next
    <2>2. CASE ~removal[u].key /\ removal[u].flag
      <3>1. Custody!Owe
        BY <1>4, <2>2 DEF CommitRemoval, RaiseFlag, Custody!Owe
      <3> QED
        BY <3>1 DEF Custody!Next
    <2>3. CASE ~removal[u].key /\ ~removal[u].flag
      BY <1>4, <2>3 DEF CommitRemoval, RaiseFlag, Custody!vars
    <2> QED
      BY <2>1, <2>2, <2>3
  <1> QED
    BY <1>1, <1>2, <1>3, <1>4, Frames DEF Framed

\* The wrapped keys of the vault implement KeyCustody, whatever commits while
\* a rotation or a removal is in its transaction: the key rows move to the next
\* generation in one step, and only a rotation settles the debt.
THEOREM ImplementsCustody == Spec => CustodySpec
  <1>1. Init => Custody!Init
    BY DEF Init, Custody!Init
  <1>2. Sound /\ [Next]_vars => [Custody!Next]_(Custody!vars)
    BY CustodyStep
  <1> QED
    BY InitSound, SoundStep, <1>1, <1>2, PTL DEF Spec, CustodySpec, Custody!Spec

-----------------------------------------------------------------------------
(* What the rules that the code breaks come down to: the items *)

\* A write of one item leaves the others alone.
LEMMA ItemSteps ==
    ASSUME Typed, ItemNext, NEW i \in Items, items'[i] # items[i]
    PROVE  \/ \E u \in Users : CreateItem(u, i)
           \/ \E u \in Users : EditItem(u, i)
           \/ \E u \in Users : TrashItem(u, i)
           \/ RestoreItem(i)
           \/ PurgeItem(i)
  <1>1. PICK j \in Items :
          \/ \E u \in Users : CreateItem(u, j)
          \/ \E u \in Users : EditItem(u, j)
          \/ \E u \in Users : TrashItem(u, j)
          \/ RestoreItem(j)
          \/ PurgeItem(j)
    BY DEF ItemNext
  <1>2. j = i
    BY <1>1 DEF CreateItem, EditItem, TrashItem, RestoreItem, PurgeItem, Typed, TypeOK
  <1> QED
    BY <1>1, <1>2

LEMMA ItemFrame ==
    ASSUME ItemNext
    PROVE  UNCHANGED <<keyVars, peopleVars, memberVars, clientVars, txVars>>
  BY DEF ItemNext, CreateItem, EditItem, TrashItem, RestoreItem, PurgeItem

\* And no item comes alive behind the rotation that is in its transaction.
CurrentItems ==
    /\ LiveItemsOnCurrentKey
    /\ Rotating # {} => LiveItems \subseteq atRead.items

LEMMA CurrentStep ==
    ASSUME Sound, CurrentItems, [Next]_vars, [CurrentWrites]_vars
    PROVE  CurrentItems'
  <1> USE DEF Sound, LiveItemsOnCurrentKey
  <1>1. ASSUME NEW u \in Users, CommitRekey(u)
        PROVE  CurrentItems'
    <2>1. Rotating' = {} /\ LiveItems \subseteq atRead.items
      BY <1>1, RotationEffect DEF CommitRekey, CurrentItems
    <2>2. ASSUME NEW i \in LiveItems'
          PROVE  items'[i].gen = keyVersion'
      <3>1. i \in Items /\ items'[i].state = "live"
        BY DEF LiveItems
      <3>2. items[i].state = "live" /\ i \in atRead.items
        BY <1>1, <2>1, <3>1, RotationEffect DEF LiveItems
      <3> QED
        BY <1>1, <3>1, <3>2, RotationEffect
    <2> QED
      BY <2>1, <2>2 DEF CurrentItems
  <1>2. ASSUME NEW u \in Users, BeginRekey(u)
        PROVE  CurrentItems'
    BY <1>2 DEF BeginRekey, CurrentItems, LiveItems
  <1>3. CASE ItemNext /\ items' # items
    <2>1. CurrentWrites /\ UNCHANGED <<keyVersion, req, atRead>>
      BY <1>3, ItemFrame DEF vars
    <2>2. ASSUME NEW i \in LiveItems'
          PROVE  /\ items'[i].gen = keyVersion
                 /\ i \in LiveItems \/ Rotating = {}
      <3> USE DEF Typed, TypeOK, ItemRow, NoItem
      <3>1. i \in Items /\ items'[i].state = "live"
        BY DEF LiveItems
      <3>2. CASE items'[i] = items[i]
        BY <3>1, <3>2 DEF CurrentItems, LiveItems
      <3>3. ASSUME NEW u \in Users, CreateItem(u, i)
            PROVE  items'[i].gen = keyVersion /\ Rotating = {}
        BY <2>1, <3>1, <3>3 DEF CurrentWrites, CreateItem
      <3>4. ASSUME NEW u \in Users, EditItem(u, i)
            PROVE  items'[i].gen = keyVersion /\ i \in LiveItems
        <4>1. held[u] = keyVersion
          BY <2>1, <3>1, <3>4 DEF CurrentWrites
        <4> QED
          BY <3>1, <3>4, <4>1 DEF EditItem, LiveItems
      <3>5. ASSUME NEW u \in Users, TrashItem(u, i)
            PROVE  FALSE
        BY <3>1, <3>5 DEF TrashItem
      <3>6. CASE RestoreItem(i)
        <4>1. items[i].gen = keyVersion /\ Rotating = {}
          BY <2>1, <3>1, <3>6 DEF CurrentWrites
        <4> QED
          BY <3>1, <3>6, <4>1 DEF RestoreItem
      <3>7. CASE PurgeItem(i)
        BY <3>1, <3>7 DEF PurgeItem
      <3> QED
        BY <1>3, <3>1, <3>2, <3>3, <3>4, <3>5, <3>6, <3>7, ItemSteps
    <2>3. Rotating' = Rotating
      BY <2>1 DEF Rotating
    <2> QED
      BY <2>1, <2>2, <2>3 DEF CurrentItems
  <1>4. CASE /\ UNCHANGED items
             /\ ~\E u \in Users : BeginRekey(u)
             /\ ~\E u \in Users : CommitRekey(u)
    <2>1. keyVersion' = keyVersion /\ LiveItems' = LiveItems
      BY <1>4, GenerationMovesOnlyByRotation DEF LiveItems
    <2>2. Rotating' # {} => Rotating # {} /\ atRead' = atRead
      BY <1>4, ReadStays
    <2> QED
      BY <1>4, <2>1, <2>2 DEF CurrentItems
  <1> QED
    BY <1>1, <1>2, <1>3, <1>4, Frames DEF Framed

\* "No item left on the old key" fails in two ways only: a browser writes with
\* a key it cached before a rotation, or an item older than the rotation comes
\* back from the trash, before it or while it is in its transaction.
THEOREM StaleItemsHaveTwoCauses == Spec /\ [][CurrentWrites]_vars => []LiveItemsOnCurrentKey
  <1>1. Init => CurrentItems
    BY DEF Init, CurrentItems, LiveItemsOnCurrentKey, LiveItems, NoItem
  <1>2. Sound /\ CurrentItems /\ [Next]_vars /\ [CurrentWrites]_vars => CurrentItems'
    BY CurrentStep
  <1>3. CurrentItems => LiveItemsOnCurrentKey
    BY DEF CurrentItems
  <1> QED
    BY InitSound, SoundStep, <1>1, <1>2, <1>3, PTL DEF Spec

\* What an item read by a rotation that can still commit says is what it says
\* now, trashed or not.
ReadsCurrent ==
    \A u \in Users, i \in Items :
        req[u].op = "rekey" /\ req[u].expected = keyVersion /\ req[u].read[i] # 0
          => items[i].state = "none" \/ items[i].content = req[u].read[i]

LEMMA ReadsStep ==
    ASSUME Sound, ReadsCurrent, [Next]_vars, [UndisturbedReads]_vars
    PROVE  ReadsCurrent'
  <1> SUFFICES ASSUME NEW v \in Users, NEW i \in Items,
                      req'[v].op = "rekey", req'[v].expected = keyVersion', req'[v].read[i] # 0
               PROVE  items'[i].state = "none" \/ items'[i].content = req'[v].read[i]
    BY DEF ReadsCurrent
  <1> USE DEF Sound
  <1>1. ASSUME NEW j \in Items, ReadItem(v, j)
        PROVE  items'[i].state = "none" \/ items'[i].content = req'[v].read[i]
    <2>1. /\ req[v].op = "rekey"
          /\ req[v].expected = keyVersion
          /\ UNCHANGED <<items, keyVersion>>
          /\ req'[v].read = [req[v].read EXCEPT ![j] = items[j].content]
          /\ req[v].read \in [Items -> 0..MaxContent]
      BY <1>1, ReadKeeps DEF RekeyRequest
    <2>2. CASE i = j
      BY <2>1, <2>2
    <2>3. CASE i # j
      BY <2>1, <2>3 DEF ReadsCurrent
    <2> QED
      BY <2>2, <2>3
  <1>2. ASSUME req[v].op = "rekey", req'[v].expected = req[v].expected, req'[v].read = req[v].read
        PROVE  items'[i].state = "none" \/ items'[i].content = req'[v].read[i]
    <2>1. keyVersion' = keyVersion /\ ~\E u \in Users : CommitRekey(u)
      <3>1. req[v].expected <= keyVersion
        BY <1>2 DEF NoFutureGeneration, RequestSane
      <3>2. req[v].expected \in Nat
        BY <1>2, RequestShape DEF Typed, TypeOK, RekeyRequest
      <3>3. \A u \in Users : ~CommitRekey(u)
        BY <1>2, <3>1, <3>2, RotationKeys
      <3> QED
        BY <3>3, GenerationMovesOnlyByRotation
    <2>2. items[i].state = "none" \/ items[i].content = req[v].read[i]
      BY <1>2, <2>1 DEF ReadsCurrent
    <2>3. CASE items'[i] = items[i]
      BY <1>2, <2>2, <2>3
    <2>4. CASE items'[i] # items[i]
      <3>1. UndisturbedReads /\ ItemNext
        BY <2>1, <2>4, Frames DEF Framed, vars
      <3>2. ~\E u \in Users : CreateItem(u, i) \/ EditItem(u, i)
        BY <1>2, <3>1 DEF UndisturbedReads
      <3>3. CASE (\E u \in Users : TrashItem(u, i)) \/ RestoreItem(i)
        BY <1>2, <2>2, <3>3 DEF TrashItem, RestoreItem, ItemRow, NoItem, Typed, TypeOK
      <3>4. CASE PurgeItem(i)
        BY <3>4 DEF PurgeItem, NoItem, Typed, TypeOK
      <3> QED
        BY <2>4, <3>1, <3>2, <3>3, <3>4, ItemSteps
    <2> QED
      BY <2>3, <2>4
  <1>3. CASE OpenRekey(v)
    BY <1>3, OpenStarts
  <1>4. CASE ListItems(v) \/ AdmitRekey(v) \/ BeginRekey(v)
    BY <1>2, <1>4, DialogKeeps
  <1>5. ASSUME NEW target \in Users, NEW role \in GrantRoles, BeginAddMember(v, target, role)
        PROVE  FALSE
    BY <1>5 DEF BeginAddMember, Typed, TypeOK
  <1> QED
    BY <1>1, <1>2, <1>3, <1>4, <1>5, RequestSteps, Constants

\* Rotation changes what no item says, as long as nobody writes an item that a
\* rotation under way has read: the edit saved meanwhile is the only way to
\* lose content.
THEOREM ContentLossHasOneCause == Spec /\ [][UndisturbedReads]_vars => RotationKeepsContent
  <1>1. Init => ReadsCurrent
    BY Constants DEF Init, ReadsCurrent
  <1>2. Sound /\ ReadsCurrent /\ [Next]_vars /\ [UndisturbedReads]_vars => ReadsCurrent'
    BY ReadsStep
  <1>3. Sound /\ ReadsCurrent /\ [Next]_vars
          => [keyVersion' # keyVersion =>
                \A i \in LiveItems : items'[i].content = items[i].content]_vars
    <2> SUFFICES ASSUME Sound, ReadsCurrent, [Next]_vars, keyVersion' # keyVersion,
                        NEW i \in LiveItems
                 PROVE  items'[i].content = items[i].content
      OBVIOUS
    <2>1. PICK u \in Users : CommitRekey(u)
      BY GenerationMovesOnlyByRotation
    <2>2. i \in Items /\ items[i].state = "live"
      BY DEF LiveItems
    <2>3. CASE i \in atRead.items
      <3>1. items'[i].content = req[u].read[i] /\ req[u].expected = keyVersion
        BY <2>1, <2>2, <2>3, RotationEffect DEF Sound
      <3>2. req[u].op = "rekey" /\ req[u].read[i] # 0
        BY <2>1, <2>2, <2>3 DEF CommitRekey, Rotating, Sound, TxSound, Typed, AdmittedIsRead
      <3> QED
        BY <2>2, <3>1, <3>2 DEF ReadsCurrent
    <2>4. CASE i \notin atRead.items
      BY <2>1, <2>2, <2>4, RotationEffect DEF Sound
    <2> QED
      BY <2>3, <2>4
  <1> QED
    BY InitSound, SoundStep, <1>1, <1>2, <1>3, PTL DEF Spec, RotationKeepsContent

-----------------------------------------------------------------------------
(* What they come down to: the key rows *)

\* The rows and the wrapped keys under way are all of the vault's generation.
AddsCurrent ==
    /\ KeyRowsCurrent
    /\ \A u \in Users : req[u].op = "add" => req[u].gen \in {0, keyVersion}

LEMMA AddsStep ==
    ASSUME Sound, AddsCurrent, [Next]_vars, [UndisturbedAdds]_vars
    PROVE  AddsCurrent'
  <1> USE DEF Sound
  <1>1. ASSUME NEW u \in Users, CommitRekey(u)
        PROVE  AddsCurrent'
    <2>1. UndisturbedAdds
      BY <1>1, RotationKeys DEF vars
    <2>2. \A v \in Users : req'[v].op # "add"
      BY <1>1, <2>1, Constants DEF UndisturbedAdds, CommitRekey, Typed, TypeOK
    <2>3. KeyRowsCurrent'
      BY <1>1, RotationKeys DEF KeyRowsCurrent
    <2> QED
      BY <2>2, <2>3 DEF AddsCurrent
  <1>2. CASE ~\E u \in Users : CommitRekey(u)
    <2>1. keyVersion' = keyVersion
      BY <1>2, GenerationMovesOnlyByRotation
    <2>2. KeyRowsCurrent'
      <3> USE DEF AddsCurrent, KeyRowsCurrent, Typed, TypeOK
      <3>1. CASE UNCHANGED keyVars
        BY <3>1
      <3>2. ASSUME NEW u \in Users, CommitAddMember(u)
            PROVE  KeyRowsCurrent'
        BY <2>1, <3>2 DEF CommitAddMember
      <3>3. ASSUME NEW u \in Users, CommitRemoval(u)
            PROVE  KeyRowsCurrent'
        BY <2>1, <3>3 DEF CommitRemoval
      <3> QED
        BY <1>2, <3>1, <3>2, <3>3, Frames DEF Framed
    <2>3. ASSUME NEW v \in Users, req'[v].op = "add"
          PROVE  req'[v].gen \in {0, keyVersion}
      <3>1. CASE req'[v] = req[v]
        BY <2>3, <3>1 DEF AddsCurrent
      <3>2. ASSUME NEW target \in Users, NEW role \in GrantRoles, BeginAddMember(v, target, role)
            PROVE  req'[v].gen \in {0, keyVersion}
        BY <3>2 DEF BeginAddMember, AddsCurrent, KeyRowsCurrent, Typed, TypeOK
      <3>3. CASE OpenRekey(v)
        BY <2>3, <3>3, OpenStarts
      <3>4. ASSUME ListItems(v) \/ AdmitRekey(v) \/ BeginRekey(v) \/ \E i \in Items : ReadItem(v, i)
            PROVE  req'[v] = Idle \/ req'[v].op = "rekey"
        <4>1. req[v] \in RekeyRequest /\ req \in [Users -> Request]
          BY <3>4, RequestShape
             DEF ListItems, AdmitRekey, BeginRekey, ReadItem, Typed, TypeOK
        <4> QED
          BY <3>4, <4>1 DEF ListItems, AdmitRekey, BeginRekey, ReadItem, RekeyRequest
      <3> QED
        BY <2>3, <3>1, <3>2, <3>3, <3>4, RequestSteps, Constants
    <2> QED
      BY <2>1, <2>2, <2>3 DEF AddsCurrent
  <1> QED
    BY <1>1, <1>2

\* A member is left with a wrapped key that no longer opens the vault in one
\* case only: a rotation commits while the member is being added.
THEOREM StaleRowsHaveOneCause == Spec /\ [][UndisturbedAdds]_vars => []KeyRowsCurrent
  <1>1. Init => AddsCurrent
    BY Constants DEF Init, AddsCurrent, KeyRowsCurrent
  <1>2. Sound /\ AddsCurrent /\ [Next]_vars /\ [UndisturbedAdds]_vars => AddsCurrent'
    BY AddsStep
  <1>3. AddsCurrent => KeyRowsCurrent
    BY DEF AddsCurrent
  <1> QED
    BY InitSound, SoundStep, <1>1, <1>2, <1>3, PTL DEF Spec

-----------------------------------------------------------------------------
(* What they come down to: the roster.  Without teams and temporary access,  *)
(* access is the vault_members row.                                          *)

LEMMA PermanentStep ==
    ASSUME Temps = {}, Typed, lapse = [u \in Users |-> Permanent], [Next]_vars
    PROVE  lapse' = [u \in Users |-> Permanent]
  <1>1. CASE UNCHANGED lapse
    BY <1>1
  <1>2. ASSUME NEW u \in Users, Membership(u) \/ CommitRemoval(u), lapse' # lapse
        PROVE  lapse' = [v \in Users |-> Permanent]
    <2>1. ~Expire(u) /\ ~SweepMember(u)
      BY DEF Expire, SweepMember, Permanent
    <2>2. \A role \in GrantRoles : ~ApproveAccess(u, role)
      BY DEF ApproveAccess
    <2> QED
      BY <1>2, <2>1, <2>2 DEF Membership, CommitAddMember, ChangeRole, CommitRemoval
  <1> QED
    BY <1>1, <1>2, Frames DEF Framed

LEMMA DirectAccess ==
    ASSUME Teams = {}, lapse = [u \in Users |-> Permanent]
    PROVE  /\ \A u \in Users : RolesOf(u) = {vaultMembers[u]} \ {NoRole}
           /\ \A u \in Users : HasAccess(u) <=> vaultMembers[u] # NoRole
           /\ Roster = {u \in Users : vaultMembers[u] # NoRole}
  BY DEF HasAccess, RolesOf, TeamsOf, DirectRole, Permanent, Roster

\* How a row of vault_members goes and comes.
LEMMA RowSteps ==
    ASSUME Temps = {}, Typed, lapse = [u \in Users |-> Permanent], [Next]_vars, NEW v \in Users
    PROVE  /\ vaultMembers[v] # NoRole /\ vaultMembers'[v] = NoRole
                => CommitRemoval(v) /\ removal[v].row
           /\ vaultMembers[v] = NoRole /\ vaultMembers'[v] # NoRole
                => \E u \in Users : CommitAddMember(u) /\ req[u].target = v
  <1> USE DEF Typed, TypeOK
  <1>1. CASE UNCHANGED memberVars
    BY <1>1
  <1>2. ASSUME NEW u \in Users, CommitRemoval(u)
        PROVE  vaultMembers'[v] # vaultMembers[v] => v = u /\ removal[u].row /\ vaultMembers'[v] = NoRole
    BY <1>2 DEF CommitRemoval
  <1>3. ASSUME NEW u \in Users, CommitAddMember(u)
        PROVE  vaultMembers'[v] # vaultMembers[v]
                 => v = req[u].target /\ vaultMembers[v] = NoRole /\ vaultMembers'[v] # NoRole
    <2>1. req[u] \in AddRequest
      BY <1>3, RequestShape DEF CommitAddMember
    <2> QED
      BY <1>3, <2>1 DEF CommitAddMember, AddRequest, Role, NoRole
  <1>4. ASSUME NEW u \in Users, NEW target \in Users, NEW role \in GrantRoles,
               ChangeRole(u, target, role)
        PROVE  (vaultMembers'[v] = NoRole) = (vaultMembers[v] = NoRole)
    BY <1>4, Constants DEF ChangeRole
  <1>5. \A u \in Users, role \in GrantRoles : ~ApproveAccess(u, role)
    BY DEF ApproveAccess
  <1>6. \A u \in Users : ~Expire(u) /\ ~SweepMember(u)
    BY DEF Expire, SweepMember, Permanent
  <1> QED
    BY <1>1, <1>2, <1>3, <1>4, <1>5, <1>6, Frames DEF Framed, Membership

\* A key row belongs to a direct member, also once the removals and the
\* rotation in their transactions have committed.
KeyedAreMembers ==
    /\ \A u \in Users : vaultKeys[u] # 0 => vaultMembers[u] # NoRole
    /\ \A v \in Users : removal[v].stage = "dropped" /\ removal[v].row
                          => removal[v].key \/ vaultKeys[v] = 0
    /\ Rotating # {} => \A v \in atRead.users : vaultMembers[v] # NoRole /\ v \in enrolled

AllPermanent == lapse = [u \in Users |-> Permanent]

LEMMA RemovalsTakeKeys ==
    ASSUME Sound, KeyedAreMembers, [Next]_vars, [UndisturbedRosters]_vars,
           NEW v \in Users, removal'[v].stage = "dropped", removal'[v].row
    PROVE  removal'[v].key \/ vaultKeys'[v] = 0
  <1> USE DEF Sound, Typed, TypeOK, Removal
  <1>1. CASE removal'[v] = removal[v]
    <2>1. removal[v].key \/ vaultKeys[v] = 0
      BY <1>1 DEF KeyedAreMembers
    <2>2. CASE UNCHANGED keyVars
      BY <1>1, <2>1, <2>2
    <2>3. ASSUME NEW u \in Users, CommitAddMember(u)
          PROVE  vaultKeys'[v] = vaultKeys[v]
      <3>1. req[u] \in AddRequest
        BY <2>3, RequestShape DEF CommitAddMember
      <3>2. req[u].target # v
        BY <1>1, <2>3 DEF CommitAddMember, RowLocked
      <3> QED
        BY <2>3, <3>1, <3>2 DEF CommitAddMember, AddRequest
    <2>4. ASSUME NEW u \in Users, CommitRekey(u)
          PROVE  FALSE
      <3>1. UndisturbedRosters
        BY <2>4, RotationKeys DEF vars
      <3> QED
        BY <1>1, <2>4, <3>1 DEF UndisturbedRosters
    <2>5. ASSUME NEW u \in Users, CommitRemoval(u)
          PROVE  vaultKeys'[v] \in {0, vaultKeys[v]}
      BY <2>5 DEF CommitRemoval
    <2> QED
      BY <1>1, <2>1, <2>2, <2>3, <2>4, <2>5, Frames DEF Framed
  <1>2. CASE removal'[v] = NoRemoval
    BY <1>2 DEF NoRemoval
  <1>3. ASSUME NEW u \in Users, CommitRekey(u)
        PROVE  FALSE
    <2>1. UndisturbedRosters
      BY <1>3, RotationKeys DEF vars
    <2>2. removal'[v] = [removal[v] EXCEPT !.key = FALSE]
      BY <1>3 DEF CommitRekey
    <2> QED
      BY <1>3, <2>1, <2>2 DEF UndisturbedRosters
  <1>4. ASSUME NEW u \in Users, BeginRemove(u, v)
        PROVE  FALSE
    BY <1>4 DEF BeginRemove, NoRemoval
  <1>5. CASE BeginLeave(v)
    BY <1>5 DEF BeginLeave, NoRemoval
  <1>6. CASE ListKeys(v)
    BY <1>6 DEF ListKeys
  <1>7. CASE DropKey(v)
    BY <1>7 DEF DropKey
  <1> QED
    BY <1>1, <1>2, <1>3, <1>4, <1>5, <1>6, <1>7, RemovalSteps

LEMMA KeyedStep ==
    ASSUME Teams = {}, Temps = {}, Sound, AllPermanent, KeyedAreMembers,
           [Next]_vars, [UndisturbedRosters]_vars
    PROVE  KeyedAreMembers'
  <1> USE DEF Sound, Typed, TypeOK, AllPermanent
  <1>1. ASSUME NEW v \in Users, vaultKeys'[v] # 0
        PROVE  vaultMembers'[v] # NoRole
    <2>1. CASE vaultMembers[v] # NoRole /\ vaultMembers'[v] = NoRole
      <3>1. CommitRemoval(v) /\ removal[v].row
        BY <2>1, RowSteps
      <3>2. removal[v].key \/ vaultKeys[v] = 0
        BY <3>1 DEF CommitRemoval, KeyedAreMembers
      <3> QED
        BY <1>1, <3>1, <3>2 DEF CommitRemoval
    <2>2. CASE vaultMembers[v] = NoRole
      <3>1. vaultKeys[v] = 0
        BY <2>2 DEF KeyedAreMembers
      <3>2. CASE UNCHANGED keyVars
        BY <1>1, <3>1, <3>2
      <3>3. ASSUME NEW u \in Users, CommitAddMember(u)
            PROVE  vaultMembers'[v] # NoRole
        <4>1. req[u] \in AddRequest
          BY <3>3, RequestShape DEF CommitAddMember
        <4> QED
          BY <1>1, <3>1, <3>3, <4>1 DEF CommitAddMember, AddRequest, Role, NoRole
      <3>4. ASSUME NEW u \in Users, CommitRekey(u)
            PROVE  FALSE
        <4>1. v \in atRead.users /\ Rotating # {}
          BY <1>1, <3>4, RotationKeys DEF CommitRekey
        <4> QED
          BY <2>2, <4>1 DEF KeyedAreMembers
      <3>5. ASSUME NEW u \in Users, CommitRemoval(u)
            PROVE  FALSE
        BY <1>1, <3>1, <3>5 DEF CommitRemoval
      <3> QED
        BY <3>2, <3>3, <3>4, <3>5, Frames DEF Framed
    <2> QED
      BY <2>1, <2>2
  <1>2. ASSUME Rotating' # {}, NEW v \in atRead'.users
        PROVE  vaultMembers'[v] # NoRole /\ v \in enrolled'
    <2>1. ASSUME NEW u \in Users, BeginRekey(u)
          PROVE  vaultMembers'[v] # NoRole /\ v \in enrolled'
      BY <2>1, DirectAccess DEF BeginRekey, EnrolledRoster
    <2>2. CASE Rotating # {} /\ atRead' = atRead
      <3>1. v \in Users /\ vaultMembers[v] # NoRole /\ v \in enrolled
        BY <2>2 DEF KeyedAreMembers
      <3>2. v \in enrolled'
        BY <3>1, Frames DEF Framed, Enroll
      <3>3. CASE vaultMembers'[v] = NoRole
        <4>1. CommitRemoval(v) /\ removal[v].row
          BY <3>1, <3>3, RowSteps
        <4>2. UndisturbedRosters
          BY <3>1, <3>3 DEF vars
        <4> QED
          BY <2>2, <3>1, <4>1, <4>2 DEF UndisturbedRosters
      <3> QED
        BY <3>2, <3>3
    <2> QED
      BY <1>2, <2>1, <2>2, ReadStays
  <1> QED
    BY <1>1, <1>2, RemovalsTakeKeys DEF KeyedAreMembers

LEMMA KeyedAlways ==
    ASSUME Teams = {}, Temps = {}
    PROVE  Spec /\ [][UndisturbedRosters]_vars => [](Sound /\ AllPermanent /\ KeyedAreMembers)
  <1>1. Init => AllPermanent /\ KeyedAreMembers
    BY Constants DEF Init, AllPermanent, KeyedAreMembers, NoRole, NoRemoval, Rotating
  <1>2. Sound /\ AllPermanent /\ [Next]_vars => AllPermanent'
    BY PermanentStep DEF AllPermanent, Sound
  <1>3. Sound /\ AllPermanent /\ KeyedAreMembers /\ [Next]_vars /\ [UndisturbedRosters]_vars
          => KeyedAreMembers'
    BY KeyedStep
  <1> QED
    BY InitSound, SoundStep, <1>1, <1>2, <1>3, PTL DEF Spec

\* In a vault shared only with permanent direct members a user without access
\* is left with a wrapped key in one way only: a removal and a rotation overlap
\* and each overlooks what the other has not committed.
THEOREM DirectKeysFollowAccess ==
    ASSUME Teams = {}, Temps = {}
    PROVE  Spec /\ [][UndisturbedRosters]_vars => []NoKeyWithoutAccess
  <1>1. AllPermanent /\ KeyedAreMembers => NoKeyWithoutAccess
    BY DirectAccess DEF AllPermanent, KeyedAreMembers, NoKeyWithoutAccess
  <1> QED
    BY KeyedAlways, <1>1, PTL

\* In such a vault, and in the same way only, a key is written for a user who
\* is off the enrolled roster.
THEOREM KeysOnlyForMembers ==
    ASSUME Teams = {}, Temps = {}
    PROVE  Spec /\ [][UndisturbedRosters]_vars => KeyRowsOnlyForMembers
  <1> DEFINE Granted ==
        \A u \in Users : vaultKeys'[u] \notin {0, vaultKeys[u]} => u \in EnrolledRoster'
  <1>1. Sound /\ AllPermanent /\ KeyedAreMembers /\ [Next]_vars => Granted
    <2> SUFFICES ASSUME Sound, KeyedAreMembers, [Next]_vars, NEW v \in Users,
                        vaultKeys'[v] \notin {0, vaultKeys[v]}
                 PROVE  v \in EnrolledRoster'
      OBVIOUS
    <2> USE DEF Sound, Typed, TypeOK
    <2>1. CASE UNCHANGED keyVars
      BY <2>1
    <2>2. ASSUME NEW u \in Users, CommitAddMember(u)
          PROVE  v \in EnrolledRoster'
      <3>1. req[u] \in AddRequest
        BY <2>2, RequestShape DEF CommitAddMember
      <3>2. req[u].gen # 0 => req[u].target \in enrolled
        BY <2>2 DEF CommitAddMember, NoFutureGeneration, RequestSane
      <3>3. v = req[u].target /\ req[u].gen # 0 /\ vaultMembers'[v] = req[u].role
        BY <2>2, <3>1 DEF CommitAddMember, AddRequest
      <3>4. vaultMembers'[v] # NoRole
        BY <3>1, <3>3 DEF AddRequest, Role, NoRole
      <3>5. v \in enrolled'
        BY <2>2, <3>2, <3>3 DEF CommitAddMember
      <3> QED
        BY <3>4, <3>5 DEF EnrolledRoster, Roster
    <2>3. ASSUME NEW u \in Users, CommitRekey(u)
          PROVE  v \in EnrolledRoster'
      <3>1. v \in atRead.users /\ Rotating # {}
        BY <2>3, RotationKeys DEF CommitRekey
      <3>2. vaultMembers[v] # NoRole /\ v \in enrolled
        BY <3>1 DEF KeyedAreMembers
      <3>3. EnrolledRoster' = EnrolledRoster
        BY <2>3, RotationEffect
      <3> QED
        BY <3>2, <3>3 DEF EnrolledRoster, Roster
    <2>4. ASSUME NEW u \in Users, CommitRemoval(u)
          PROVE  FALSE
      BY <2>4 DEF CommitRemoval
    <2> QED
      BY <2>1, <2>2, <2>3, <2>4, Frames DEF Framed
  <1>2. Sound /\ AllPermanent /\ KeyedAreMembers /\ [Next]_vars => [Granted]_vars
    BY <1>1
  <1>3. Spec => [][Next]_vars
    BY PTL DEF Spec
  <1> QED
    BY KeyedAlways, <1>2, <1>3, PTL DEF KeyRowsOnlyForMembers

\* In such a vault, but for the same overlap, whoever lost access with the
\* current key in the browser has left the vault flagged.
THEOREM RevocationIsFlagged ==
    ASSUME Teams = {}, Temps = {}
    PROVE  Spec /\ [][UndisturbedRosters]_vars => []RevokedIsFlagged
  <1>1. NoKeyWithoutAccess /\ TakenBackIsFlagged /\ Sound => RevokedIsFlagged
    BY DEF NoKeyWithoutAccess, TakenBackIsFlagged, RevokedIsFlagged, Sound, Typed, TypeOK, Version
  <1>2. Spec => []Sound
    BY InitSound, SoundStep, PTL DEF Spec
  <1> QED
    BY DirectKeysFollowAccess, TakenBackStaysFlagged, <1>1, <1>2, PTL

\* What rotation is for: with no rotation owed, the key that a removed member
\* kept opens no live item - but for the overlap of a removal with a rotation
\* and the two causes of an item under an old key.
THEOREM RemovedKeysOpenNothing ==
    ASSUME Teams = {}, Temps = {}
    PROVE  Spec /\ [][UndisturbedRosters]_vars /\ [][CurrentWrites]_vars => []CachedKeyUseless
  <1>1. RevokedIsFlagged /\ LiveItemsOnCurrentKey => CachedKeyUseless
    BY DEF RevokedIsFlagged, LiveItemsOnCurrentKey, CachedKeyUseless
  <1> QED
    BY RevocationIsFlagged, StaleItemsHaveTwoCauses, <1>1, PTL

\* In a vault without team grants the roster lies in the workspace, and so does
\* whoever is being added; a removal from the workspace found the membership.
RosterInOrg ==
    /\ \A u \in Users : vaultMembers[u] # NoRole => u \in orgMembers
    /\ \A u \in Users : req[u].op = "add" => req[u].target \in orgMembers
    /\ \A v \in Users : removal[v].org => removal[v].row \/ vaultMembers[v] = NoRole

\* Who leaves the workspace is removed, with the row of vault_members.
LEMMA LeavingStep ==
    ASSUME Temps = {}, Typed, AllPermanent, RosterInOrg, [Next]_vars,
           NEW v \in orgMembers, v \notin orgMembers'
    PROVE  CommitRemoval(v) /\ removal[v].org /\ vaultMembers'[v] = NoRole
  <1>1. CommitRemoval(v) /\ removal[v].org
    BY Frames DEF Framed, JoinOrg, CommitRemoval
  <1>2. removal[v].row \/ vaultMembers[v] = NoRole
    BY <1>1 DEF RosterInOrg, Typed, TypeOK
  <1> QED
    BY <1>1, <1>2 DEF CommitRemoval, Typed, TypeOK

LEMMA RosterStep ==
    ASSUME Temps = {}, Typed, AllPermanent, RosterInOrg, [Next]_vars, [UndisturbedJoins]_vars
    PROVE  RosterInOrg'
  <1> USE DEF Typed, TypeOK, Removal
  <1>a. \A v \in Users : /\ vaultMembers[v] # NoRole /\ vaultMembers'[v] = NoRole
                              => CommitRemoval(v) /\ removal[v].row
                         /\ vaultMembers[v] = NoRole /\ vaultMembers'[v] # NoRole
                              => \E u \in Users : CommitAddMember(u) /\ req[u].target = v
    BY RowSteps DEF AllPermanent
  <1>1. ASSUME NEW v \in Users, vaultMembers'[v] # NoRole
        PROVE  v \in orgMembers'
    <2>1. v \in orgMembers
      <3>1. CASE vaultMembers[v] # NoRole
        BY <3>1 DEF RosterInOrg
      <3>2. CASE vaultMembers[v] = NoRole
        BY <1>1, <1>a, <3>2 DEF RosterInOrg, CommitAddMember
      <3> QED
        BY <3>1, <3>2
    <2> QED
      BY <1>1, <2>1, LeavingStep
  <1>2. ASSUME NEW v \in Users, req'[v].op = "add"
        PROVE  req'[v].target \in orgMembers'
    <2>1. CASE req'[v] = req[v]
      <3>1. req[v].target \in orgMembers
        BY <1>2, <2>1 DEF RosterInOrg
      <3>2. CASE req[v].target \notin orgMembers'
        <4>1. CommitRemoval(req[v].target) /\ removal[req[v].target].org
          BY <3>1, <3>2, LeavingStep
        <4>2. UndisturbedJoins
          BY <3>1, <3>2 DEF vars
        <4> QED
          BY <1>2, <2>1, <3>1, <4>1, <4>2 DEF UndisturbedJoins
      <3> QED
        BY <2>1, <3>2
    <2>2. ASSUME NEW target \in Users, NEW role \in GrantRoles, BeginAddMember(v, target, role)
          PROVE  req'[v].target \in orgMembers'
      BY <2>2 DEF BeginAddMember
    <2>3. CASE OpenRekey(v)
      BY <1>2, <2>3, OpenStarts
    <2>4. ASSUME ListItems(v) \/ AdmitRekey(v) \/ BeginRekey(v) \/ \E i \in Items : ReadItem(v, i)
          PROVE  req'[v] = Idle \/ req'[v].op = "rekey"
      <3>1. req[v] \in RekeyRequest
        BY <2>4, RequestShape DEF ListItems, AdmitRekey, BeginRekey, ReadItem
      <3> QED
        BY <2>4, <3>1 DEF ListItems, AdmitRekey, BeginRekey, ReadItem, RekeyRequest
    <2> QED
      BY <1>2, <2>1, <2>2, <2>3, <2>4, RequestSteps, Constants
  <1>3. ASSUME NEW v \in Users, removal'[v].org
        PROVE  removal'[v].row \/ vaultMembers'[v] = NoRole
    <2>1. CASE removal'[v].org = removal[v].org /\ removal'[v].row = removal[v].row
      <3>1. removal[v].row \/ vaultMembers[v] = NoRole
        BY <1>3, <2>1 DEF RosterInOrg
      <3>2. CASE vaultMembers[v] = NoRole /\ vaultMembers'[v] # NoRole
        <4>1. PICK u \in Users : CommitAddMember(u) /\ req[u].target = v
          BY <1>a, <3>2
        <4>2. UndisturbedJoins
          BY <3>2 DEF vars
        <4> QED
          BY <1>3, <2>1, <4>1, <4>2 DEF UndisturbedJoins
      <3> QED
        BY <2>1, <3>1, <3>2
    <2>2. CASE removal'[v] = NoRemoval
      BY <1>3, <2>2 DEF NoRemoval
    <2>3. ASSUME NEW u \in Users, BeginRemove(u, v)
          PROVE  FALSE
      BY <1>3, <2>3 DEF BeginRemove, NoRemoval
    <2>4. CASE BeginLeave(v)
      BY <2>4 DEF BeginLeave, NoRemoval
    <2>5. CASE removal'[v] = removal[v] \/ removal'[v] = [removal[v] EXCEPT !.key = FALSE]
      BY <2>1, <2>5
    <2>6. CASE ListKeys(v) \/ DropKey(v)
      BY <2>1, <2>6 DEF ListKeys, DropKey
    <2> QED
      BY <2>2, <2>3, <2>4, <2>5, <2>6, RemovalSteps
  <1> QED
    BY <1>1, <1>2, <1>3 DEF RosterInOrg

LEMMA RosterAlways ==
    ASSUME Teams = {}, Temps = {}
    PROVE  Spec /\ [][UndisturbedJoins]_vars => [](Typed /\ AllPermanent /\ RosterInOrg)
  <1>1. Init => AllPermanent /\ RosterInOrg
    BY Constants DEF Init, AllPermanent, RosterInOrg, NoRemoval
  <1>2. Typed /\ AllPermanent /\ [Next]_vars => AllPermanent'
    BY PermanentStep DEF AllPermanent
  <1>3. Typed /\ AllPermanent /\ RosterInOrg /\ [Next]_vars /\ [UndisturbedJoins]_vars
          => RosterInOrg'
    BY RosterStep
  <1> QED
    BY InitTyped, TypedStep, <1>1, <1>2, <1>3, PTL DEF Spec

\* In a vault shared only with permanent direct members a rotation stalls on
\* the roster in one case only: the addition of a user and the removal of the
\* same user from the workspace overlap.
THEOREM StalledRostersAreARace ==
    ASSUME Teams = {}, Temps = {}
    PROVE  Spec /\ [][UndisturbedJoins]_vars => []PublishedRosterAccepted
  <1>1. AllPermanent /\ RosterInOrg => PublishedRosterAccepted
    BY DirectAccess DEF AllPermanent, RosterInOrg, PublishedRosterAccepted, EnrolledRoster
  <1> QED
    BY RosterAlways, <1>1, PTL

\* But for that overlap, removal from the workspace takes every role in such a
\* vault: what else it leaves comes from team grants and temporary access.
THEOREM DirectAccessEnds ==
    ASSUME Teams = {}, Temps = {}
    PROVE  Spec /\ [][UndisturbedJoins]_vars => RemovalRevokesAllAccess
  <1>1. Typed /\ AllPermanent /\ RosterInOrg /\ [Next]_vars
          => [\A u \in orgMembers : u \notin orgMembers' => RolesOf(u)' = {}]_vars
    <2> SUFFICES ASSUME Typed, AllPermanent, RosterInOrg, [Next]_vars,
                        NEW u \in orgMembers, u \notin orgMembers'
                 PROVE  RolesOf(u)' = {}
      OBVIOUS
    <2>1. vaultMembers'[u] = NoRole /\ u \in Users
      BY LeavingStep DEF Typed, TypeOK
    <2>2. lapse' = [v \in Users |-> Permanent]
      BY PermanentStep DEF AllPermanent
    <2> QED
      BY <2>1, <2>2 DEF RolesOf, TeamsOf, DirectRole, Permanent
  <1>2. Spec => [][Next]_vars
    BY PTL DEF Spec
  <1> QED
    BY RosterAlways, <1>1, <1>2, PTL DEF RemovalRevokesAllAccess

=============================================================================
