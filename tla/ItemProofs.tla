----------------------------- MODULE ItemProofs -----------------------------
(***************************************************************************)
(* Proofs about an item: its contents and history (ItemEdits, for any tabs *)
(* and any number of versions kept) and its attachments (Attachments, for  *)
(* any items, uploads, requests and quota).                                *)
(*                                                                         *)
(* EditsInv: a PATCH in flight is the difference to the copy its tab still *)
(* shows, the row lock has one holder, and the number a holder drew is one *)
(* above the saves.  FilesInv: BlobsFirst says where a row without a blob  *)
(* can come from (a stored upload has its blob, only finished uploads have *)
(* rows, a purge unlinks only what it listed); Load counts the uploads on  *)
(* their way with the rows, which bounds the overshoot of the quota.       *)
(***************************************************************************)
EXTENDS ItemEdits, Attachments, FiniteSetTheorems, TLAPS

\* What a tab may show: only a password can be hidden.
Contents == {r \in Shown : \A f \in Indexed : r[f] \in Stamp}

Patching(t) == req[t].stage \in {"sent", "loaded", "locked", "numbered"}

\* A PATCH in flight carries the difference to the copy its tab still shows,
\* and a star nothing but the notes.
FormsMatch ==
    \A t \in Tabs :
      /\ view[t] \in Contents
      /\ req[t].form \in Contents
      /\ Patching(t) => IF req[t].star THEN req[t].keys = {"tags"}
                        ELSE /\ req[t].form \in Row
                             /\ \E renamed \in BOOLEAN :
                                  req[t].keys = PatchKeys(view[t], req[t].form, renamed)

LocksHold ==
    /\ \A t \in Tabs : req[t].stage \in {"locked", "numbered"} => lock = {t}
    /\ lock # {} => itemLife # "gone"
    /\ \A t \in Tabs : req[t].stage = "numbered" => req[t].num = saves + 1

EditsInv == EditTypeOK /\ FormsMatch /\ LocksHold /\ VersionsAreLatest /\ NoEditCollides

-----------------------------------------------------------------------------
(* The history *)

\* In a run of numbers without gap or repeat, the newer ones are counted off.
LEMMA NewerCount ==
    ASSUME NEW vs, NEW lo \in Nat, NEW hi \in Nat,
           {v.num : v \in vs} = lo..hi,
           \A x, y \in vs : x.num = y.num => x = y,
           NEW v \in vs
    PROVE  Cardinality({w \in vs : w.num > v.num}) = hi - v.num
  <1> DEFINE newer == {w \in vs : w.num > v.num}
             above == (v.num + 1)..hi
             f == [n \in above |-> CHOOSE w \in vs : w.num = n]
  <1>1. v.num \in lo..hi
    OBVIOUS
  <1>2. \A n \in above : f[n] \in newer /\ f[n].num = n
    <2> SUFFICES ASSUME NEW n \in above PROVE f[n] \in newer /\ f[n].num = n
      OBVIOUS
    <2>1. n \in lo..hi /\ n > v.num
      BY <1>1
    <2>2. \E w \in vs : w.num = n
      BY <2>1
    <2>3. f[n] \in vs /\ f[n].num = n
      BY <2>2
    <2> QED
      BY <2>1, <2>3
  <1>3. \A w \in newer : w.num \in above /\ f[w.num] = w
    <2> SUFFICES ASSUME NEW w \in newer PROVE w.num \in above /\ f[w.num] = w
      OBVIOUS
    <2>1. w.num \in lo..hi /\ w.num > v.num
      OBVIOUS
    <2>2. w.num \in above
      BY <1>1, <2>1
    <2>3. f[w.num] \in vs /\ f[w.num].num = w.num
      BY <1>2, <2>2
    <2> QED
      BY <2>2, <2>3
  <1>4. f \in Bijection(above, newer)
    <2>1. f \in [above -> newer]
      BY <1>2
    <2>2. \A m, n \in above : f[m] = f[n] => m = n
      BY <1>2
    <2>3. \A w \in newer : \E n \in above : f[n] = w
      BY <1>3
    <2> HIDE DEF f, newer, above
    <2> QED
      BY <2>1, <2>2, <2>3 DEF Bijection, Injection, Surjection, IsInjective
  <1>5. /\ IsFiniteSet(above)
        /\ Cardinality(above) = hi - v.num
    <2>1. v.num \in Nat /\ v.num <= hi
      BY <1>1
    <2>2. /\ IsFiniteSet(above)
          /\ Cardinality(above) = IF v.num + 1 > hi THEN 0 ELSE hi - (v.num + 1) + 1
      <3>1. v.num + 1 \in Int /\ hi \in Int
        BY <2>1
      <3> QED
        BY <3>1, FS_Interval
    <2> QED
      BY <2>1, <2>2
  <1>6. Cardinality(newer) = Cardinality(above)
    <2>1. ExistsBijection(above, newer)
      BY <1>4 DEF ExistsBijection
    <2> HIDE DEF newer, above
    <2> QED
      BY <1>5, <2>1, FS_Bijection
  <1> QED
    BY <1>5, <1>6

\* Pruning a run of numbers leaves its Keep last.
LEMMA PruneKeepsLatest ==
    ASSUME NEW vs, NEW lo \in Nat, NEW hi \in Nat,
           {v.num : v \in vs} = lo..hi,
           \A x, y \in vs : x.num = y.num => x = y
    PROVE  {v.num : v \in Prune(vs)} = {n \in lo..hi : n > hi - Keep}
  <1>1. ASSUME NEW v \in vs PROVE v \in Prune(vs) <=> v.num > hi - Keep
    <2>1. Cardinality({w \in vs : w.num > v.num}) = hi - v.num
      BY NewerCount
    <2>2. v.num \in Nat
      OBVIOUS
    <2> QED
      BY <2>1, <2>2, ItemAssumption DEF Prune
  <1>2. Prune(vs) \subseteq vs
    BY DEF Prune
  <1>3. ASSUME NEW n \in lo..hi, n > hi - Keep PROVE \E v \in Prune(vs) : v.num = n
    <2>1. \E v \in vs : v.num = n
      BY <1>3
    <2> QED
      BY <1>1, <1>3, <2>1
  <1> QED
    BY <1>1, <1>2, <1>3

LEMMA NewestIsLast ==
    ASSUME VersionsAreLatest, itemLife # "gone", saves \in Nat
    PROVE  NewestNum = saves
  <1>1. Nums = {n \in 1..saves : n > saves - Keep}
    BY DEF VersionsAreLatest
  <1>2. saves \in Nums \cup {0} /\ \A m \in Nums : m <= saves
    BY <1>1, ItemAssumption
  <1>3. \A n \in Nums \cup {0} : (\A m \in Nums : m <= n) => n = saves
    BY <1>1, <1>2
  <1> QED
    BY <1>2, <1>3 DEF NewestNum

LEMMA HistoryGrows ==
    ASSUME EditTypeOK, LocksHold, VersionsAreLatest,
           NEW t \in Tabs, CommitPatch(t)
    PROVE  /\ req[t].num \notin Nums
           /\ VersionsAreLatest'
  <1> DEFINE new == [num |-> req[t].num, row |-> req[t].prev]
             vs == versions \cup {new}
             lo == IF saves > Keep THEN saves - Keep + 1 ELSE 1
  <1>1. req[t].num = saves + 1 /\ itemLife # "gone" /\ saves \in Nat
    BY DEF LocksHold, CommitPatch, EditTypeOK
  <1>2. /\ Nums = {n \in 1..saves : n > saves - Keep}
        /\ \A v, w \in versions : v.num = w.num => v = w
    BY <1>1 DEF VersionsAreLatest
  <1>3. req[t].num \notin Nums
    BY <1>1, <1>2
  <1>4. lo \in Nat /\ lo >= 1 /\ lo <= saves + 1
    BY <1>1, ItemAssumption
  <1>5. {v.num : v \in vs} = lo..(saves + 1)
    <2>1. {v.num : v \in vs} = Nums \cup {saves + 1}
      <3>1. new.num = saves + 1
        BY <1>1
      <3>2. \A n : n \in {v.num : v \in vs} <=> n \in Nums \/ n = new.num
        BY DEF Nums
      <3> QED
        BY <3>1, <3>2
    <2>2. Nums = lo..saves
      BY <1>1, <1>2, ItemAssumption
    <2>3. lo..(saves + 1) = (lo..saves) \cup {saves + 1}
      <3> HIDE DEF lo
      <3> QED
        BY <1>1, <1>4
    <2> QED
      BY <2>1, <2>2, <2>3
  <1>6. \A v, w \in vs : v.num = w.num => v = w
    <2>1. \A v \in versions : v.num # new.num
      BY <1>3 DEF Nums
    <2> QED
      BY <1>2, <2>1
  <1>7. saves' = saves + 1 /\ versions' = Prune(vs)
    BY <1>3 DEF CommitPatch
  <1>8. {v.num : v \in Prune(vs)} = {n \in lo..(saves + 1) : n > (saves + 1) - Keep}
    <2> HIDE DEF vs, lo
    <2>1. saves + 1 \in Nat
      BY <1>1
    <2> QED
      BY <1>4, <1>5, <1>6, <2>1, PruneKeepsLatest
  <1>9. Nums' = {n \in 1..saves' : n > saves' - Keep}
    <2>1. Nums' = {v.num : v \in Prune(vs)}
      BY <1>7 DEF Nums
    <2>2. {n \in lo..(saves + 1) : n > (saves + 1) - Keep}
            = {n \in 1..(saves + 1) : n > (saves + 1) - Keep}
      BY <1>1, ItemAssumption
    <2> HIDE DEF vs, lo
    <2> QED
      BY <1>7, <1>8, <2>1, <2>2
  <1>10. \A v, w \in versions' : v.num = w.num => v = w
    BY <1>6, <1>7 DEF Prune
  <1> QED
    BY <1>3, <1>9, <1>10 DEF VersionsAreLatest

-----------------------------------------------------------------------------
(* The edits: one lemma per conjunct of the invariant *)

LEMMA EditsInit == EditInit => EditsInv
  <1> SUFFICES ASSUME EditInit PROVE EditsInv
    OBVIOUS
  <1>1. EditTypeOK
    BY ItemAssumption
    DEF EditInit, EditTypeOK, Row, NoRow, Stamp, Empty, Hidden, Fields, Indexed, OnIndexed,
        Shown, NoReq, Stages, Keys
  <1>2. FormsMatch
    BY ItemAssumption
    DEF EditInit, FormsMatch, Contents, Shown, Patching, NoReq, NoRow, Stamp, Empty, Hidden,
        Fields, Indexed
  <1>3. LocksHold
    BY DEF EditInit, LocksHold, NoReq
  <1>4. VersionsAreLatest
    BY DEF EditInit, VersionsAreLatest, Nums
  <1>5. NoEditCollides
    BY DEF EditInit, NoEditCollides, NoReq
  <1> QED
    BY <1>1, <1>2, <1>3, <1>4, <1>5 DEF EditsInv

\* Only a revealed form is written whole: a star writes the notes alone.
LEMMA RowStaysPlain ==
    ASSUME EditTypeOK, FormsMatch, NEW t \in Tabs, CommitPatch(t), req[t].num \notin Nums
    PROVE  /\ row' \in Row
           /\ pwAge' \in Stamp
           /\ terms' \in [Indexed -> Stamp]
  <1> DEFINE r == req[t]
  <1>1. /\ row \in Row /\ pwAge \in Stamp /\ terms \in [Indexed -> Stamp]
        /\ \A f \in Indexed : r.form[f] \in Stamp
        /\ r.star \in BOOLEAN
        /\ IF r.star THEN r.keys = {"tags"} ELSE r.form \in Row
    BY DEF EditTypeOK, FormsMatch, Contents, CommitPatch, Patching
  <1>2. \A f \in Fields : f \in r.keys => r.form[f] \in Stamp
    BY <1>1 DEF Row, Fields, Indexed
  <1>3. row' = [f \in Fields |-> IF f \in r.keys THEN r.form[f] ELSE row[f]]
    BY DEF CommitPatch
  <1>4. row' \in Row
    BY <1>1, <1>2, <1>3 DEF Row
  <1>5. pwAge' \in Stamp
    BY <1>1, <1>2 DEF CommitPatch, Fields
  <1>6. terms' \in [Indexed -> Stamp]
    BY <1>1 DEF CommitPatch, OnIndexed
  <1> QED
    BY <1>4, <1>5, <1>6

Requests == [stage : Stages, star : BOOLEAN, form : Shown, keys : SUBSET Keys,
             prev : Row, num : Nat]

LEMMA EndedIsRequest ==
    ASSUME NEW st \in Stages
    PROVE  Ended(st) \in Requests /\ Ended(st).stage = st /\ NoReq \in Requests
  <1>1. NoRow \in Row /\ NoRow \in Shown
    BY ItemAssumption DEF NoRow, Row, Shown, Stamp, Empty
  <1>2. NoReq \in Requests
    BY <1>1 DEF NoReq, Requests, Stages
  <1> QED
    BY <1>2 DEF Ended, Requests

LEMMA ReqIsRequest ==
    ASSUME EditTypeOK, NEW t \in Tabs
    PROVE  req[t] \in Requests
  BY DEF EditTypeOK, Requests

LEMMA ReqTyped ==
    ASSUME EditTypeOK, NEW t \in Tabs, NEW r \in Requests, req' = [req EXCEPT ![t] = r]
    PROVE  req' \in [Tabs -> Requests]
  BY DEF EditTypeOK, Requests

LEMMA SubmitForm ==
    ASSUME EditTypeOK, FormsMatch, NEW t \in Tabs, SubmitEdit(t)
    PROVE  \E form \in Row, renamed \in BOOLEAN :
             /\ form \in Contents
             /\ Send(t, FALSE, form, PatchKeys(view[t], form, renamed))
  <1>0. {TRUE, Nameless(t)} \subseteq BOOLEAN
    BY DEF Nameless
  <1>1. PICK changed \in SUBSET Fields, pw \in {Empty, edits + 1}, renamed \in BOOLEAN :
          LET form == [f \in Fields |->
                         CASE f \notin changed -> view[t][f]
                           [] f \in changed /\ f = "password" -> pw
                           [] OTHER -> edits + 1]
          IN  Send(t, FALSE, form, PatchKeys(view[t], form, renamed))
    BY <1>0, Zenon DEF SubmitEdit
  <1> DEFINE form == [f \in Fields |->
                        CASE f \notin changed -> view[t][f]
                          [] f \in changed /\ f = "password" -> pw
                          [] OTHER -> edits + 1]
  <1>2. edits + 1 \in Stamp /\ Empty \in Stamp
    BY ItemAssumption DEF SubmitEdit, EditTypeOK, Stamp, Empty
  <1>3. \A f \in Fields : view[t][f] \in Stamp
    BY DEF EditTypeOK, FormsMatch, Contents, Shown, SubmitEdit, Fields, Indexed
  <1>4. \A f \in Fields : form[f] \in Stamp
    BY <1>2, <1>3
  <1>5. form \in Row
    BY <1>4 DEF Row
  <1>6. form \in Contents
    BY <1>4 DEF Contents, Shown, Fields, Indexed
  <1> HIDE DEF form
  <1> QED
    BY <1>1, <1>5, <1>6 DEF form

LEMMA EditTypeStep ==
    ASSUME EditTypeOK, FormsMatch, LocksHold, VersionsAreLatest, [EditNext]_editVars
    PROVE  EditTypeOK'
  <1>1. ASSUME NEW t \in Tabs, OpenItem(t) \/ Reveal(t) PROVE EditTypeOK'
    <2>1. CASE OpenItem(t)
      <3>1. [row EXCEPT !["password"] = Hidden] \in Shown
        BY DEF EditTypeOK, Row, Shown, Fields
      <3> QED
        BY <2>1, <3>1 DEF OpenItem, EditTypeOK, server
    <2>2. CASE Reveal(t)
      <3>1. PICK p \in Stamp : view' = [view EXCEPT ![t]["password"] = p]
        <4>1. PICK p \in {Empty} \cup (IF itemLife = "live" THEN {row["password"]} ELSE {}) :
                view' = [view EXCEPT ![t]["password"] = p]
          BY <2>2 DEF Reveal
        <4>2. row["password"] \in Stamp /\ Empty \in Stamp
          BY ItemAssumption DEF EditTypeOK, Row, Fields, Stamp, Empty
        <4> QED
          BY <4>1, <4>2
      <3>2. [view[t] EXCEPT !["password"] = p] \in Shown
        BY DEF EditTypeOK, Shown, Fields
      <3>3. view' \in [Tabs -> Shown]
        BY <3>1, <3>2 DEF EditTypeOK
      <3> QED
        BY <2>2, <3>3 DEF Reveal, EditTypeOK, server
    <2> QED
      BY <1>1, <2>1, <2>2
  <1>2. ASSUME NEW t \in Tabs, SubmitEdit(t) PROVE EditTypeOK'
    <2>1. PICK form \in Row, renamed \in BOOLEAN :
            form \in Contents /\ Send(t, FALSE, form, PatchKeys(view[t], form, renamed))
      BY <1>2, SubmitForm
    <2>2. PatchKeys(view[t], form, renamed) \subseteq Keys
      BY DEF PatchKeys, Diff, Keys, Fields, Indexed
    <2>3. req' \in [Tabs -> Requests]
      <3>1. NoRow \in Row
        BY ItemAssumption DEF NoRow, Row, Stamp, Empty
      <3> QED
        BY <2>1, <2>2, <3>1, ReqTyped DEF Send, Contents, Requests, Stages
    <2>4. edits' \in Stamp
      BY <1>2, ItemAssumption DEF SubmitEdit, EditTypeOK, Stamp, Empty
    <2> QED
      BY <1>2, <2>3, <2>4 DEF SubmitEdit, EditTypeOK, server, Requests
  <1>3. ASSUME NEW t \in Tabs, ToggleFavorite(t) PROVE EditTypeOK'
    <2>1. [row EXCEPT !["password"] = view[t]["password"]] \in Shown
      BY DEF EditTypeOK, Row, Shown, Fields
    <2>2. req' \in [Tabs -> Requests]
      <3>1. NoRow \in Row
        BY ItemAssumption DEF NoRow, Row, Stamp, Empty
      <3> QED
        BY <1>3, <2>1, <3>1, ReqTyped DEF ToggleFavorite, Send, Requests, Stages, Keys, Fields
    <2>3. edits' \in Stamp
      BY <1>3, ItemAssumption DEF ToggleFavorite, EditTypeOK, Stamp, Empty
    <2> QED
      BY <1>3, <2>2, <2>3 DEF ToggleFavorite, EditTypeOK, server, Requests
  <1>4. ASSUME NEW t \in Tabs, Settle(t) PROVE EditTypeOK'
    <2>0. Empty \in Stamp
      BY ItemAssumption DEF Stamp, Empty
    <2>1. view' \in [Tabs -> Shown]
      <3>1. [req[t].form EXCEPT !["login"] = Empty] \in Shown
        BY <2>0 DEF EditTypeOK, Shown
      <3>2. [row EXCEPT !["password"] = view[t]["password"]] \in Shown
        BY DEF EditTypeOK, Row, Shown, Fields
      <3> QED
        BY <1>4, <3>1, <3>2 DEF Settle, EditTypeOK
    <2>2. NoReq \in Requests
      BY EndedIsRequest DEF Stages
    <2> QED
      BY <1>4, <2>1, <2>2, ReqTyped DEF Settle, EditTypeOK, server, Requests
  <1>5. ASSUME NEW t \in Tabs, LoadItem(t) PROVE EditTypeOK'
    <2>1. \A st \in {"invalid", "refused"} : Ended(st) \in Requests
      BY EndedIsRequest DEF Stages
    <2>2. [req[t] EXCEPT !.stage = "loaded", !.prev = row] \in Requests
      BY DEF EditTypeOK, Requests, Stages
    <2>3. req' \in [Tabs -> Requests]
      BY <1>5, <2>1, <2>2, ReqIsRequest DEF LoadItem, EditTypeOK, Requests
    <2> QED
      BY <1>5, <2>3 DEF LoadItem, EditTypeOK, server, Requests
  <1>6. ASSUME NEW t \in Tabs, LockItem(t) PROVE EditTypeOK'
    <2>1. Ended("refused") \in Requests
      BY EndedIsRequest DEF Stages
    <2>2. [req[t] EXCEPT !.stage = "locked"] \in Requests
      BY DEF EditTypeOK, Requests, Stages
    <2>3. req' \in [Tabs -> Requests]
      BY <1>6, <2>1, <2>2, ReqIsRequest DEF LockItem, EditTypeOK, Requests
    <2> QED
      BY <1>6, <2>3 DEF LockItem, EditTypeOK, server, Requests
  <1>7. ASSUME NEW t \in Tabs, ReadMax(t) PROVE EditTypeOK'
    <2>1. NewestNum = saves /\ saves \in Nat
      BY <1>7, NewestIsLast DEF LocksHold, ReadMax, EditTypeOK
    <2>2. [req[t] EXCEPT !.stage = "numbered", !.num = saves + 1] \in Requests
      <3>1. saves + 1 \in Nat /\ "numbered" \in Stages
        BY <2>1 DEF Stages
      <3>2. req[t] \in Requests
        BY ReqIsRequest
      <3> QED
        BY <3>1, <3>2 DEF Requests
    <2>3. req' = [req EXCEPT ![t] = [req[t] EXCEPT !.stage = "numbered", !.num = saves + 1]]
      BY <1>7, <2>1 DEF ReadMax
    <2> QED
      BY <1>7, <2>2, <2>3, ReqTyped DEF ReadMax, EditTypeOK, server, Requests
  <1>8. ASSUME NEW t \in Tabs, CommitPatch(t) PROVE EditTypeOK'
    <2>1. req[t].num \notin Nums
      BY <1>8, HistoryGrows
    <2>2. row' \in Row /\ pwAge' \in Stamp /\ terms' \in [Indexed -> Stamp]
      BY <1>8, <2>1, RowStaysPlain
    <2>3. versions' \subseteq [num : Nat \ {0}, row : Row]
      <3>1. req[t].num \in Nat \ {0} /\ req[t].prev \in Row
        BY <1>8 DEF CommitPatch, LocksHold, EditTypeOK
      <3> QED
        <4>1. versions' = Prune(versions \cup {[num |-> req[t].num, row |-> req[t].prev]})
          BY <1>8, <2>1 DEF CommitPatch
        <4>2. versions' \subseteq versions \cup {[num |-> req[t].num, row |-> req[t].prev]}
          BY <4>1 DEF Prune
        <4> QED
          BY <3>1, <4>2 DEF EditTypeOK
    <2>4. req' \in [Tabs -> Requests]
      <3>1. /\ Ended("saved") \in Requests
            /\ [req[t] EXCEPT !.stage = "saved", !.prev = NoRow, !.num = 0] \in Requests
        <4>1. NoRow \in Row
          BY ItemAssumption DEF NoRow, Row, Stamp, Empty
        <4>2. Ended("saved") \in Requests /\ req[t] \in Requests
          BY EndedIsRequest, ReqIsRequest DEF Stages
        <4> QED
          BY <4>1, <4>2 DEF Requests, Stages
      <3> QED
        BY <1>8, <2>1, <3>1 DEF CommitPatch, EditTypeOK, Requests
    <2>5. lock' = {} /\ saves' = saves + 1 /\ UNCHANGED <<itemLife, edits, view, cleanup>>
      BY <1>8, <2>1 DEF CommitPatch
    <2> QED
      BY <2>2, <2>3, <2>4, <2>5 DEF EditTypeOK, Requests
  <1>9. ASSUME NEW t \in Tabs, Lose(t) PROVE EditTypeOK'
    <2>1. Ended("refused") \in Requests
      BY EndedIsRequest DEF Stages
    <2> QED
      BY <1>9, <2>1, ReqTyped DEF Lose, EditTypeOK, server, Requests
  <1>10. ASSUME NEW c \in Cleanups, CheckTrash(c) \/ CommitTrash(c) PROVE EditTypeOK'
    BY <1>10 DEF CheckTrash, CommitTrash, EditTypeOK, server
  <1>11. CASE UNCHANGED editVars
    BY <1>11 DEF editVars, EditTypeOK
  <1> QED
    BY <1>1, <1>2, <1>3, <1>4, <1>5, <1>6, <1>7, <1>8, <1>9, <1>10, <1>11 DEF EditNext

LEMMA MaskedRow ==
    ASSUME EditTypeOK, NEW p \in Stamp \cup {Hidden}
    PROVE  [row EXCEPT !["password"] = p] \in Contents
  <1> DEFINE masked == [row EXCEPT !["password"] = p]
  <1>1. masked \in Shown
    BY DEF EditTypeOK, Row, Shown, Fields
  <1>2. \A f \in Indexed : masked[f] = row[f] /\ row[f] \in Stamp
    BY DEF EditTypeOK, Row, Fields, Indexed
  <1> QED
    BY <1>1, <1>2 DEF Contents

LEMMA FormsStep ==
    ASSUME EditTypeOK, EditTypeOK', FormsMatch, LocksHold, VersionsAreLatest,
           [EditNext]_editVars
    PROVE  FormsMatch'
  <1>0. ASSUME NEW st \in Stages \ {"sent", "loaded", "locked", "numbered"}
        PROVE  /\ Ended(st).stage \notin {"sent", "loaded", "locked", "numbered"}
               /\ Ended(st).form \in Contents
    BY ItemAssumption
    DEF Ended, NoReq, NoRow, Contents, Shown, Stamp, Empty, Indexed, Fields, Stages
  <1>1. ASSUME NEW t \in Tabs, OpenItem(t) PROVE FormsMatch'
    <2>1. [row EXCEPT !["password"] = Hidden] \in Contents
      BY MaskedRow
    <2> QED
      BY <1>1, <2>1 DEF OpenItem, FormsMatch, Patching, EditTypeOK
  <1>2. ASSUME NEW t \in Tabs, Reveal(t) PROVE FormsMatch'
    <2>1. PICK p : view' = [view EXCEPT ![t]["password"] = p]
      BY <1>2 DEF Reveal
    <2>2. view'[t] \in Contents
      <3>1. view'[t] \in Shown
        BY <1>2 DEF EditTypeOK
      <3>2. \A f \in Indexed : view'[t][f] = view[t][f] /\ view[t][f] \in Stamp
        BY <2>1 DEF FormsMatch, Contents, EditTypeOK, Shown, Indexed, Fields
      <3> QED
        BY <3>1, <3>2 DEF Contents
    <2> QED
      BY <1>2, <2>1, <2>2 DEF Reveal, FormsMatch, Patching, EditTypeOK
  <1>3. ASSUME NEW t \in Tabs, SubmitEdit(t) PROVE FormsMatch'
    <2>1. PICK form \in Row, renamed \in BOOLEAN :
            form \in Contents /\ Send(t, FALSE, form, PatchKeys(view[t], form, renamed))
      BY <1>3, SubmitForm
    <2>2. view' = view
      BY <1>3 DEF SubmitEdit
    <2>3. /\ req'[t].star = FALSE
          /\ req'[t].form = form
          /\ req'[t].keys = PatchKeys(view'[t], form, renamed)
          /\ \A u \in Tabs \ {t} : req'[u] = req[u]
      BY <2>1, <2>2 DEF Send, EditTypeOK
    <2> QED
      BY <2>1, <2>2, <2>3 DEF FormsMatch, Patching
  <1>4. ASSUME NEW t \in Tabs, ToggleFavorite(t) PROVE FormsMatch'
    <2>1. [row EXCEPT !["password"] = view[t]["password"]] \in Contents
      <3>1. view[t]["password"] \in Stamp \cup {Hidden}
        BY DEF EditTypeOK, Shown, Fields
      <3> QED
        BY <3>1, MaskedRow
    <2> QED
      BY <1>4, <2>1 DEF ToggleFavorite, Send, FormsMatch, Patching, EditTypeOK
  <1>5. ASSUME NEW t \in Tabs, Settle(t) PROVE FormsMatch'
    <2>1. [row EXCEPT !["password"] = view[t]["password"]] \in Contents
      <3>1. view[t]["password"] \in Stamp \cup {Hidden}
        BY DEF EditTypeOK, Shown, Fields
      <3> QED
        BY <3>1, MaskedRow
    <2>2. view'[t] \in Contents
      <3>1. [req[t].form EXCEPT !["login"] = Empty] \in Contents
        <4>1. req[t].form \in Contents
          BY DEF FormsMatch
        <4>2. [req[t].form EXCEPT !["login"] = Empty] \in Shown
          <5>1. Empty \in Stamp
            BY ItemAssumption DEF Stamp, Empty
          <5> QED
            BY <4>1, <5>1 DEF Contents, Shown
        <4>3. ASSUME NEW f \in Indexed
              PROVE  [req[t].form EXCEPT !["login"] = Empty][f] \in Stamp
          BY <4>1, ItemAssumption DEF Contents, Shown, Indexed, Fields, Stamp, Empty
        <4> QED
          BY <4>2, <4>3 DEF Contents
      <3> QED
        BY <1>5, <2>1, <3>1 DEF Settle, FormsMatch, EditTypeOK
    <2>3. \A u \in Tabs \ {t} : view'[u] = view[u] /\ req'[u] = req[u]
      BY <1>5 DEF Settle, EditTypeOK
    <2>4. req'[t] = NoReq
      BY <1>5 DEF Settle, EditTypeOK
    <2>5. NoReq.stage = "idle" /\ NoReq.form \in Contents
      BY ItemAssumption DEF NoReq, NoRow, Contents, Shown, Stamp, Empty, Indexed, Fields
    <2> QED
      BY <2>2, <2>3, <2>4, <2>5 DEF FormsMatch, Patching
  \* The server advances or ends a request; its form and its keys stay.
  <1>6. ASSUME NEW t \in Tabs, view' = view,
               \A u \in Tabs \ {t} : req'[u] = req[u],
               \/ req'[t].stage \notin {"sent", "loaded", "locked", "numbered"}
                  /\ req'[t].form \in Contents
               \/ /\ req[t].stage \in {"sent", "loaded", "locked", "numbered"}
                  /\ \A k \in {"star", "form", "keys"} : req'[t][k] = req[t][k]
        PROVE  FormsMatch'
    BY <1>6 DEF FormsMatch, Patching
  <1>7. ASSUME NEW t \in Tabs, LoadItem(t) PROVE FormsMatch'
    BY <1>0, <1>6, <1>7 DEF LoadItem, EditTypeOK, Stages
  <1>8. ASSUME NEW t \in Tabs, LockItem(t) \/ ReadMax(t) PROVE FormsMatch'
    <2>1. req[t].stage \in {"loaded", "locked"}
      BY <1>8 DEF LockItem, ReadMax
    <2>2. \/ req'[t] = Ended("refused")
          \/ \A k \in {"star", "form", "keys"} : req'[t][k] = req[t][k]
      BY <1>8 DEF LockItem, ReadMax, EditTypeOK
    <2>3. view' = view /\ \A u \in Tabs \ {t} : req'[u] = req[u]
      BY <1>8 DEF LockItem, ReadMax, EditTypeOK
    <2> QED
      BY <1>0, <1>6, <2>1, <2>2, <2>3 DEF Stages
  <1>9. ASSUME NEW t \in Tabs, CommitPatch(t) PROVE FormsMatch'
    <2>1. req[t].form \in Contents
      BY DEF FormsMatch
    <2>2. req[t].num \notin Nums
      BY <1>9, HistoryGrows
    <2>3. \/ req'[t] = Ended("saved")
          \/ req'[t].stage = "saved" /\ req'[t].form = req[t].form
      <3>1. \/ req' = [req EXCEPT ![t] = Ended("saved")]
            \/ req' = [req EXCEPT ![t] = [@ EXCEPT !.stage = "saved", !.prev = NoRow, !.num = 0]]
        BY <1>9, <2>2 DEF CommitPatch
      <3>2. \/ req'[t] = Ended("saved")
            \/ req'[t] = [req[t] EXCEPT !.stage = "saved", !.prev = NoRow, !.num = 0]
        BY <3>1 DEF EditTypeOK
      <3> QED
        BY <3>2, ReqIsRequest DEF Requests
    <2>4. view' = view /\ \A u \in Tabs \ {t} : req'[u] = req[u]
      BY <1>9, <2>2 DEF CommitPatch, EditTypeOK
    <2> QED
      BY <1>0, <1>6, <2>1, <2>3, <2>4 DEF Stages
  <1>10. ASSUME NEW t \in Tabs, Lose(t) PROVE FormsMatch'
    BY <1>0, <1>6, <1>10 DEF Lose, EditTypeOK, Stages
  <1>11. ASSUME NEW c \in Cleanups, CheckTrash(c) \/ CommitTrash(c) PROVE FormsMatch'
    BY <1>11 DEF CheckTrash, CommitTrash, FormsMatch, Patching
  <1>12. CASE UNCHANGED editVars
    BY <1>12 DEF editVars, FormsMatch, Patching
  <1> QED
    BY <1>1, <1>2, <1>3, <1>4, <1>5, <1>7, <1>8, <1>9, <1>10, <1>11, <1>12 DEF EditNext

\* How far each step takes its request.
LEMMA StageOfCommit ==
    ASSUME EditTypeOK, NEW t \in Tabs, CommitPatch(t), req[t].num \notin Nums
    PROVE  req'[t].stage = "saved" /\ \A u \in Tabs \ {t} : req'[u] = req[u]
  <1>1. \/ req' = [req EXCEPT ![t] = Ended("saved")]
        \/ req' = [req EXCEPT ![t] = [@ EXCEPT !.stage = "saved", !.prev = NoRow, !.num = 0]]
    BY DEF CommitPatch
  <1>2. \/ req'[t] = Ended("saved")
        \/ req'[t] = [req[t] EXCEPT !.stage = "saved", !.prev = NoRow, !.num = 0]
    BY <1>1 DEF EditTypeOK
  <1>3. Ended("saved").stage = "saved"
    BY EndedIsRequest DEF Stages
  <1>4. \A u \in Tabs \ {t} : req'[u] = req[u]
    BY <1>1 DEF EditTypeOK
  <1> QED
    BY <1>2, <1>3, <1>4, ReqIsRequest DEF Requests

LEMMA StageOfSend ==
    ASSUME EditTypeOK, NEW t \in Tabs, SubmitEdit(t) \/ ToggleFavorite(t)
    PROVE  req'[t].stage = "sent" /\ \A u \in Tabs \ {t} : req'[u] = req[u]
  <1>1. ASSUME NEW star, NEW form, NEW keys, Send(t, star, form, keys)
        PROVE  req'[t].stage = "sent" /\ \A u \in Tabs \ {t} : req'[u] = req[u]
    BY <1>1 DEF Send, EditTypeOK
  <1>2. CASE SubmitEdit(t)
    <2>1. PICK form, keys : Send(t, FALSE, form, keys)
      BY <1>2 DEF SubmitEdit
    <2> QED
      BY <1>1, <2>1
  <1>3. CASE ToggleFavorite(t)
    BY <1>1, <1>3 DEF ToggleFavorite
  <1> QED
    BY <1>2, <1>3

LEMMA LocksStep ==
    ASSUME EditTypeOK, LocksHold, VersionsAreLatest, [EditNext]_editVars
    PROVE  LocksHold'
  <1>1. ASSUME NEW t \in Tabs, OpenItem(t) \/ Reveal(t) PROVE LocksHold'
    BY <1>1 DEF OpenItem, Reveal, LocksHold, server
  <1>2. ASSUME NEW t \in Tabs, SubmitEdit(t) \/ ToggleFavorite(t) PROVE LocksHold'
    <2>1. UNCHANGED <<itemLife, saves, lock>>
      BY <1>2 DEF SubmitEdit, ToggleFavorite, server
    <2> QED
      BY <1>2, <2>1, StageOfSend DEF LocksHold
  <1>3. ASSUME NEW t \in Tabs, Settle(t) PROVE LocksHold'
    BY <1>3 DEF Settle, NoReq, LocksHold, server, EditTypeOK
  <1>4. ASSUME NEW t \in Tabs, LoadItem(t) PROVE LocksHold'
    BY <1>4 DEF LoadItem, Ended, NoReq, LocksHold, server, EditTypeOK
  <1>5. ASSUME NEW t \in Tabs, LockItem(t) PROVE LocksHold'
    BY <1>5 DEF LockItem, Ended, NoReq, LocksHold, server, EditTypeOK
  <1>6. ASSUME NEW t \in Tabs, ReadMax(t) PROVE LocksHold'
    <2>1. NewestNum = saves
      BY <1>6, NewestIsLast DEF LocksHold, ReadMax, EditTypeOK
    <2> QED
      BY <1>6, <2>1 DEF ReadMax, LocksHold, server, EditTypeOK
  <1>7. ASSUME NEW t \in Tabs, CommitPatch(t) PROVE LocksHold'
    <2>1. lock' = {} /\ lock = {t}
      BY <1>7 DEF CommitPatch, LocksHold
    <2>2. req'[t].stage = "saved" /\ \A u \in Tabs \ {t} : req'[u] = req[u]
      BY <1>7, HistoryGrows, StageOfCommit
    <2> QED
      BY <2>1, <2>2 DEF LocksHold
  <1>8. ASSUME NEW t \in Tabs, Lose(t) PROVE LocksHold'
    <2>1. /\ req'[t].stage = "refused"
          /\ \A u \in Tabs \ {t} : req'[u] = req[u]
          /\ lock' = lock \ {t}
          /\ UNCHANGED <<itemLife, saves>>
      BY <1>8 DEF Lose, Ended, NoReq, server, EditTypeOK
    <2> QED
      BY <2>1 DEF LocksHold
  <1>9. ASSUME NEW c \in Cleanups, CheckTrash(c) \/ CommitTrash(c) PROVE LocksHold'
    BY <1>9 DEF CheckTrash, CommitTrash, LocksHold, server
  <1>10. CASE UNCHANGED editVars
    BY <1>10 DEF editVars, LocksHold
  <1> QED
    BY <1>1, <1>2, <1>3, <1>4, <1>5, <1>6, <1>7, <1>8, <1>9, <1>10 DEF EditNext

LEMMA HistoryStep ==
    ASSUME EditTypeOK, LocksHold, VersionsAreLatest, NoEditCollides, [EditNext]_editVars
    PROVE  VersionsAreLatest' /\ NoEditCollides'
  <1>1. ASSUME NEW t \in Tabs, CommitPatch(t) PROVE VersionsAreLatest' /\ NoEditCollides'
    <2>1. req[t].num \notin Nums /\ VersionsAreLatest'
      BY <1>1, HistoryGrows
    <2>2. req'[t].stage = "saved" /\ \A u \in Tabs \ {t} : req'[u] = req[u]
      BY <1>1, <2>1, StageOfCommit
    <2> QED
      BY <2>1, <2>2 DEF NoEditCollides
  <1>2. ASSUME UNCHANGED <<itemLife, versions, saves>>,
               \A u \in Tabs : req'[u].stage = "collided" => req[u].stage = "collided"
        PROVE  VersionsAreLatest' /\ NoEditCollides'
    BY <1>2 DEF VersionsAreLatest, NoEditCollides, Nums
  <1>3. ASSUME NEW t \in Tabs, OpenItem(t) \/ Reveal(t) PROVE VersionsAreLatest' /\ NoEditCollides'
    BY <1>2, <1>3 DEF OpenItem, Reveal, server
  <1>4. ASSUME NEW t \in Tabs, SubmitEdit(t) \/ ToggleFavorite(t)
        PROVE  VersionsAreLatest' /\ NoEditCollides'
    <2>1. UNCHANGED <<itemLife, versions, saves>>
      BY <1>4 DEF SubmitEdit, ToggleFavorite, server
    <2> QED
      BY <1>2, <1>4, <2>1, StageOfSend
  <1>5. ASSUME NEW t \in Tabs, Settle(t) \/ LoadItem(t) PROVE VersionsAreLatest' /\ NoEditCollides'
    <2>1. CASE Settle(t)
      BY <1>2, <2>1 DEF Settle, NoReq, server, EditTypeOK
    <2>2. CASE LoadItem(t)
      BY <1>2, <2>2 DEF LoadItem, Ended, NoReq, server, EditTypeOK
    <2> QED
      BY <1>5, <2>1, <2>2
  <1>6. ASSUME NEW t \in Tabs, LockItem(t) \/ ReadMax(t) \/ Lose(t)
        PROVE  VersionsAreLatest' /\ NoEditCollides'
    BY <1>2, <1>6 DEF LockItem, ReadMax, Lose, Ended, NoReq, server, EditTypeOK
  <1>7. ASSUME NEW c \in Cleanups, CheckTrash(c) PROVE VersionsAreLatest' /\ NoEditCollides'
    BY <1>2, <1>7 DEF CheckTrash, server
  <1>8. ASSUME NEW c \in Cleanups, CommitTrash(c) PROVE VersionsAreLatest' /\ NoEditCollides'
    BY <1>8 DEF CommitTrash, VersionsAreLatest, NoEditCollides, Nums
  <1>9. CASE UNCHANGED editVars
    BY <1>2, <1>9 DEF editVars
  <1> QED
    BY <1>1, <1>3, <1>4, <1>5, <1>6, <1>7, <1>8, <1>9 DEF EditNext

THEOREM EditsInvariance == EditSpec => []EditsInv
  <1>1. EditsInv /\ [EditNext]_editVars => EditsInv'
    BY EditTypeStep, FormsStep, LocksStep, HistoryStep DEF EditsInv
  <1> QED
    BY <1>1, EditsInit, PTL DEF EditSpec

-----------------------------------------------------------------------------
(* What a save may write *)

LEMMA WhoCommits ==
    ASSUME EditTypeOK, LocksHold, VersionsAreLatest, [EditNext]_editVars,
           NEW t \in Tabs, Commits(t)
    PROVE  CommitPatch(t) /\ req[t].num \notin Nums
  <1>1. ASSUME NEW u \in Tabs, OpenItem(u) \/ Reveal(u) PROVE FALSE
    BY <1>1 DEF OpenItem, Reveal, Commits
  <1>2. ASSUME NEW u \in Tabs, SubmitEdit(u) \/ ToggleFavorite(u) PROVE FALSE
    BY <1>2, StageOfSend DEF Commits
  <1>3. ASSUME NEW u \in Tabs, Settle(u) PROVE FALSE
    BY <1>3 DEF Settle, NoReq, Commits, EditTypeOK
  <1>4. ASSUME NEW u \in Tabs, LoadItem(u) PROVE FALSE
    BY <1>4 DEF LoadItem, Ended, NoReq, Commits, EditTypeOK
  <1>5. ASSUME NEW u \in Tabs, LockItem(u) \/ ReadMax(u) PROVE FALSE
    BY <1>5 DEF LockItem, ReadMax, Ended, NoReq, Commits, EditTypeOK
  <1>6. ASSUME NEW u \in Tabs, CommitPatch(u) PROVE u = t /\ req[u].num \notin Nums
    BY <1>6, HistoryGrows, StageOfCommit DEF Commits
  <1>7. ASSUME NEW u \in Tabs, Lose(u) PROVE FALSE
    BY <1>7 DEF Lose, Ended, NoReq, Commits, EditTypeOK
  <1>8. ASSUME NEW c \in Cleanups, CheckTrash(c) \/ CommitTrash(c) PROVE FALSE
    BY <1>8 DEF CheckTrash, CommitTrash, Commits
  <1>9. CASE UNCHANGED editVars
    BY <1>9 DEF editVars, Commits
  <1> QED
    BY <1>1, <1>2, <1>3, <1>4, <1>5, <1>6, <1>7, <1>8, <1>9 DEF EditNext

\* The row and the rotation clock move by a committed save alone.
LEMMA WhatMoves ==
    ASSUME EditTypeOK, LocksHold, VersionsAreLatest, [EditNext]_editVars,
           row' # row \/ pwAge' # pwAge
    PROVE  \E t \in Tabs : CommitPatch(t) /\ Commits(t)
  <1>1. \E t \in Tabs : CommitPatch(t)
    BY DEF EditNext, OpenItem, Reveal, SubmitEdit, ToggleFavorite, Settle, LoadItem, LockItem,
           ReadMax, Lose, CheckTrash, CommitTrash, server, editVars
  <1> QED
    BY <1>1, HistoryGrows, StageOfCommit DEF CommitPatch, Commits

LEMMA OnlyChangesStep ==
    ASSUME EditTypeOK, FormsMatch, LocksHold, VersionsAreLatest, [EditNext]_editVars
    PROVE  /\ \A f \in {"login", "password"} : row'[f] # row[f] =>
                \E t \in Tabs : Commits(t) /\ req[t].form[f] # view[t][f]
           /\ pwAge' # pwAge =>
                \E t \in Tabs : Commits(t) /\ req[t].form["password"] # view[t]["password"]
  <1>1. ASSUME NEW t \in Tabs, CommitPatch(t), NEW f \in {"login", "password"}, f \in req[t].keys
        PROVE  req[t].form[f] # view[t][f]
    <2>1. Patching(t)
      BY <1>1 DEF CommitPatch, Patching
    <2>2. PICK renamed \in BOOLEAN : req[t].keys = PatchKeys(view[t], req[t].form, renamed)
      BY <1>1, <2>1 DEF FormsMatch
    <2>3. f \in Diff(view[t], req[t].form)
      BY <1>1, <2>2 DEF PatchKeys
    <2> QED
      BY <2>3 DEF Diff
  <1>2. CASE row' = row /\ pwAge' = pwAge
    BY <1>2
  <1>3. CASE ~(row' = row /\ pwAge' = pwAge)
    <2>1. PICK t \in Tabs : CommitPatch(t) /\ Commits(t)
      BY <1>3, WhatMoves
    <2>2. \A f \in {"login", "password"} : row'[f] # row[f] => f \in req[t].keys
      BY <2>1 DEF CommitPatch, EditTypeOK, Row, Fields, server
    <2>3. pwAge' # pwAge => "password" \in req[t].keys
      BY <2>1 DEF CommitPatch, server
    <2> QED
      BY <1>1, <2>1, <2>2, <2>3
  <1> QED
    BY <1>2, <1>3

LEMMA FreshStep ==
    ASSUME EditTypeOK, FormsMatch, LocksHold, VersionsAreLatest, [EditNext]_editVars,
           NEW t \in Tabs, Commits(t), terms = OnIndexed(row),
           IF req[t].star THEN OnIndexed(req[t].form) = OnIndexed(row)
                          ELSE OnIndexed(view[t]) = OnIndexed(row)
    PROVE  terms' = OnIndexed(row')
  <1> DEFINE r == req[t]
  <1>1. CommitPatch(t) /\ r.num \notin Nums
    BY WhoCommits
  <1>2. /\ row' = [f \in Fields |-> IF f \in r.keys THEN r.form[f] ELSE row[f]]
        /\ terms' = IF "terms" \in r.keys THEN OnIndexed(r.form) ELSE terms
    BY <1>1 DEF CommitPatch
  <1>3. Patching(t)
    BY <1>1 DEF CommitPatch, Patching
  <1>4. CASE r.star
    <2>1. r.keys = {"tags"}
      BY <1>3, <1>4 DEF FormsMatch
    <2>2. r.form["tags"] = row["tags"]
      BY <1>4 DEF OnIndexed, Indexed
    <2>3. OnIndexed(row') = OnIndexed(row)
      BY <1>2, <2>1, <2>2 DEF OnIndexed, Indexed, Fields
    <2> QED
      BY <1>2, <2>1, <2>3
  <1>5. CASE ~r.star
    <2>1. PICK renamed \in BOOLEAN : r.keys = PatchKeys(view[t], r.form, renamed)
      BY <1>3, <1>5 DEF FormsMatch
    <2>2. \A f \in Indexed : view[t][f] = row[f]
      BY <1>5 DEF OnIndexed
    <2>3. \A f \in Indexed : row'[f] = r.form[f]
      BY <1>2, <2>1, <2>2 DEF PatchKeys, Diff, Indexed, Fields
    <2>4. OnIndexed(row') = OnIndexed(r.form)
      BY <2>3 DEF OnIndexed
    <2>5. CASE "terms" \in r.keys
      BY <1>2, <2>4, <2>5
    <2>6. CASE "terms" \notin r.keys
      <3>1. \A f \in Indexed : r.form[f] = view[t][f]
        BY <2>1, <2>6 DEF PatchKeys, Diff, Indexed, Fields
      <3>2. OnIndexed(r.form) = OnIndexed(row)
        BY <2>2, <3>1 DEF OnIndexed
      <3> QED
        BY <1>2, <2>4, <2>6, <3>2
    <2> QED
      BY <2>5, <2>6
  <1> QED
    BY <1>4, <1>5

\* The variables keep to their types, for every number of tabs and requests.
THEOREM EditTypeCorrect == EditSpec => []EditTypeOK
  <1>1. EditsInv => EditTypeOK
    BY DEF EditsInv
  <1> QED
    BY <1>1, EditsInvariance, PTL

\* The history of an item is its Keep latest saves, without a gap or a repeat,
\* whatever order any number of tabs commit in and whatever is kept.
THEOREM HistoryIsLatest == EditSpec => []VersionsAreLatest
  <1>1. EditsInv => VersionsAreLatest
    BY DEF EditsInv
  <1> QED
    BY <1>1, EditsInvariance, PTL

\* No edit is ever turned away for a version number that another one took.
THEOREM EditsQueue == EditSpec => []NoEditCollides
  <1>1. EditsInv => NoEditCollides
    BY DEF EditsInv
  <1> QED
    BY <1>1, EditsInvariance, PTL

\* However old a tab's copy is, a save moves the username, the password and
\* the rotation clock only where its user changed that field.
THEOREM OnlyChangesAreWritten == EditSpec => OnlyChangedFieldsMove
  <1>1. EditsInv /\ [EditNext]_editVars =>
          [/\ \A f \in {"login", "password"} : row'[f] # row[f] =>
                \E t \in Tabs : Commits(t) /\ req[t].form[f] # view[t][f]
           /\ pwAge' # pwAge =>
                \E t \in Tabs :
                  Commits(t) /\ req[t].form["password"] # view[t]["password"]]_editVars
    BY OnlyChangesStep DEF EditsInv
  <1> QED
    BY <1>1, EditsInvariance, PTL DEF EditSpec, OnlyChangedFieldsMove

\* An edit made on an up-to-date copy leaves the blind index describing the
\* item, although the client may leave the terms out.
THEOREM FreshEditsKeepIndex == EditSpec => FreshEditKeepsIndex
  <1>1. EditsInv /\ [EditNext]_editVars =>
          [\A t \in Tabs :
             /\ Commits(t)
             /\ terms = OnIndexed(row)
             /\ IF req[t].star THEN OnIndexed(req[t].form) = OnIndexed(row)
                               ELSE OnIndexed(view[t]) = OnIndexed(row)
             => terms' = OnIndexed(row')]_editVars
    BY FreshStep DEF EditsInv
  <1> QED
    BY <1>1, EditsInvariance, PTL DEF EditSpec, FreshEditKeepsIndex

-----------------------------------------------------------------------------
(* The attachments *)

BlobsFirst ==
    /\ \A u \in rows : up[u] = "done"
    /\ \A u \in Uploads : up[u] = "stored" => u \in blobs
    /\ \A u \in Doomed : del[u] # "none" => up[u] = "done"
    /\ \A u \in Doomed : del[u] = "removed" => u \notin rows
    /\ \A d \in Desks : \A u \in desk[d].todo : up[u] = "done" /\ home[u] \in listed
    /\ \A d \in Desks : desk[d].stage = "unlinking" => desk[d].items \subseteq listed

\* What the item may come to hold.
Load(i) == Cardinality(OfItem(i, rows)) + Cardinality(InFlight(i))

LoadBound ==
    \A i \in Items : /\ Cardinality(InFlight(i)) <= MaxParallel
                     /\ Load(i) <= Quota + MaxParallel - 1

FilesInv == TypeOK /\ BlobsFirst /\ MissingBlobMeansPurge /\ LoadBound

-----------------------------------------------------------------------------
LEMMA SetsAreFinite ==
    ASSUME NEW us, us \subseteq Uploads
    PROVE  IsFiniteSet(us) /\ Cardinality(us) \in Nat
  BY AttachmentAssumption, FS_Subset, FS_CardinalityType

LEMMA FilesInit == Init => FilesInv
  <1> SUFFICES ASSUME Init PROVE FilesInv
    OBVIOUS
  <1>1. TypeOK
    BY DEF Init, TypeOK, UpStage, DelStage, NoDesk, Acts, DeskStage
  <1>2. BlobsFirst
    BY DEF Init, BlobsFirst, NoDesk
  <1>3. MissingBlobMeansPurge
    BY DEF Init, MissingBlobMeansPurge
  <1>4. ASSUME NEW i \in Items PROVE OfItem(i, rows) = {} /\ InFlight(i) = {}
    BY DEF Init, OfItem, InFlight
  <1>5. LoadBound
    BY <1>4, FS_EmptySet, AttachmentAssumption DEF LoadBound, Load
  <1> QED
    BY <1>1, <1>2, <1>3, <1>5 DEF FilesInv

-----------------------------------------------------------------------------
(* One lemma per conjunct *)

LEMMA FilesTypeStep ==
    ASSUME TypeOK, [Next]_vars
    PROVE  TypeOK'
  <1>1. ASSUME NEW u \in Uploads, Admit(u) \/ CountQuota(u) PROVE TypeOK'
    BY <1>1 DEF TypeOK, Admit, CountQuota, UpStage
  <1>2. ASSUME NEW u \in Uploads, PutBlob(u) \/ InsertRow(u) PROVE TypeOK'
    BY <1>2 DEF TypeOK, PutBlob, InsertRow, UpStage
  <1>3. ASSUME NEW u \in Doomed, CheckDelete(u) \/ RemoveRow(u) \/ Unlink(u) PROVE TypeOK'
    BY <1>3 DEF TypeOK, CheckDelete, RemoveRow, Unlink, DelStage
  <1>4. ASSUME NEW d \in Desks, CheckDesk(d) PROVE TypeOK'
    <2>1. ASSUME NEW act \in Acts, NEW is \in SUBSET Items, Start(d, act, is)
          PROVE desk' \in [Desks -> [act : Acts, items : SUBSET Items,
                                     todo : SUBSET Uploads, stage : DeskStage]]
      BY <2>1 DEF Start, TypeOK, DeskStage
    <2>2. \E act \in Acts, is \in SUBSET Items : Start(d, act, is)
      BY <1>4 DEF CheckDesk, Acts
    <2> QED
      BY <1>4, <2>1, <2>2 DEF CheckDesk, TypeOK
  <1>5. ASSUME NEW d \in Desks, CommitFlag(d) PROVE TypeOK'
    BY <1>5 DEF TypeOK, CommitFlag, Close, NoDesk, Acts, DeskStage
  <1>6. ASSUME NEW d \in Desks, ListBlobs(d) \/ UnlinkNext(d) PROVE TypeOK'
    BY <1>6 DEF TypeOK, ListBlobs, UnlinkNext, DeskStage
  <1>7. ASSUME NEW d \in Desks, CommitPurge(d) \/ FailPurge(d) \/ CommitVaultDelete(d)
        PROVE TypeOK'
    BY <1>7 DEF TypeOK, CommitPurge, FailPurge, CommitVaultDelete, Destroy, Close, NoDesk, Acts,
                DeskStage
  <1>8. CASE Crash
    BY <1>8 DEF TypeOK, Crash, NoDesk, Acts, UpStage, DelStage, DeskStage
  <1>9. CASE UNCHANGED vars
    BY <1>9 DEF TypeOK, vars
  <1> QED
    BY <1>1, <1>2, <1>3, <1>4, <1>5, <1>6, <1>7, <1>8, <1>9 DEF Next

LEMMA BlobsStep ==
    ASSUME TypeOK, BlobsFirst, MissingBlobMeansPurge, [Next]_vars
    PROVE  BlobsFirst' /\ MissingBlobMeansPurge'
  <1> USE DEF BlobsFirst, MissingBlobMeansPurge
  <1>0. Doomed \subseteq Uploads
    BY AttachmentAssumption
  <1>1. ASSUME NEW u \in Uploads, Admit(u) \/ CountQuota(u)
        PROVE BlobsFirst' /\ MissingBlobMeansPurge'
    BY <1>0, <1>1 DEF TypeOK, Admit, CountQuota
  <1>2. ASSUME NEW u \in Uploads, PutBlob(u) \/ InsertRow(u)
        PROVE BlobsFirst' /\ MissingBlobMeansPurge'
    BY <1>0, <1>2 DEF TypeOK, PutBlob, InsertRow
  <1>3. ASSUME NEW u \in Doomed, CheckDelete(u) \/ RemoveRow(u) \/ Unlink(u)
        PROVE BlobsFirst' /\ MissingBlobMeansPurge'
    BY <1>0, <1>3 DEF TypeOK, CheckDelete, RemoveRow, Unlink
  <1>4. ASSUME NEW d \in Desks, CheckDesk(d) PROVE BlobsFirst' /\ MissingBlobMeansPurge'
    <2>1. /\ desk'[d].todo = {} /\ desk'[d].stage = "checked"
          /\ \A e \in Desks \ {d} : desk'[e] = desk[e]
      BY <1>4 DEF CheckDesk, Start, TypeOK
    <2> QED
      BY <1>4, <2>1 DEF CheckDesk
  <1>5. ASSUME NEW d \in Desks, CommitFlag(d) PROVE BlobsFirst' /\ MissingBlobMeansPurge'
    BY <1>5 DEF TypeOK, CommitFlag, Close, NoDesk
  <1>6. ASSUME NEW d \in Desks, ListBlobs(d) PROVE BlobsFirst' /\ MissingBlobMeansPurge'
    BY <1>6 DEF TypeOK, ListBlobs
  <1>7. ASSUME NEW d \in Desks, UnlinkNext(d) PROVE BlobsFirst' /\ MissingBlobMeansPurge'
    BY <1>7 DEF TypeOK, UnlinkNext
  <1>8. ASSUME NEW d \in Desks, CommitPurge(d) \/ FailPurge(d) \/ CommitVaultDelete(d)
        PROVE BlobsFirst' /\ MissingBlobMeansPurge'
    BY <1>8 DEF TypeOK, CommitPurge, FailPurge, CommitVaultDelete, Destroy, Close, NoDesk
  <1>9. CASE Crash
    <2>1. \A u \in Uploads : /\ up[u] = "done" => up'[u] = "done"
                             /\ up'[u] = "stored" => up[u] = "stored"
      BY <1>9 DEF TypeOK, Crash
    <2>2. \A u \in Doomed : /\ del'[u] # "none" => del[u] # "none"
                            /\ del'[u] = "removed" => del[u] = "removed"
      BY <1>9 DEF TypeOK, Crash
    <2>3. \A d \in Desks : \/ desk'[d] = desk[d]
                           \/ desk'[d].todo = {} /\ desk'[d].stage = "lost"
      BY <1>9 DEF TypeOK, Crash, NoDesk
    <2>4. UNCHANGED <<home, rows, blobs, listed>>
      BY <1>9 DEF Crash
    <2>5. rows \subseteq Uploads /\ \A d \in Desks : desk[d].todo \subseteq Uploads
      BY DEF TypeOK
    <2>6. MissingBlobMeansPurge'
      BY <2>4
    <2>7. \A u \in rows' : up'[u] = "done"
      BY <2>1, <2>4, <2>5
    <2>8. \A u \in Uploads : up'[u] = "stored" => u \in blobs'
      BY <2>1, <2>4
    <2>9. \A u \in Doomed : /\ del'[u] # "none" => up'[u] = "done"
                            /\ del'[u] = "removed" => u \notin rows'
      BY <1>0, <2>1, <2>2, <2>4
    <2>10. \A d \in Desks : \A u \in desk'[d].todo : up'[u] = "done" /\ home'[u] \in listed'
      BY <2>1, <2>3, <2>4, <2>5
    <2>11. \A d \in Desks : desk'[d].stage = "unlinking" => desk'[d].items \subseteq listed'
      BY <2>3, <2>4
    <2> QED
      BY <2>6, <2>7, <2>8, <2>9, <2>10, <2>11
  <1>10. CASE UNCHANGED vars
    BY <1>10 DEF vars
  <1> QED
    BY <1>1, <1>2, <1>3, <1>4, <1>5, <1>6, <1>7, <1>8, <1>9, <1>10 DEF Next

-----------------------------------------------------------------------------
(* The quota *)

\* A step that starts no upload and adds no row lightens the load.
LEMMA LighterLoad ==
    ASSUME TypeOK, TypeOK', LoadBound, home' = home, rows' \subseteq rows,
           \A u \in Uploads : up'[u] \in {"counted", "stored"} => up[u] \in {"counted", "stored"}
    PROVE  LoadBound'
  <1> SUFFICES ASSUME NEW i \in Items
               PROVE /\ Cardinality(InFlight(i)') <= MaxParallel
                     /\ Cardinality(OfItem(i, rows)') + Cardinality(InFlight(i)')
                          <= Quota + MaxParallel - 1
    BY DEF LoadBound, Load
  <1>1. OfItem(i, rows)' \subseteq OfItem(i, rows) /\ InFlight(i)' \subseteq InFlight(i)
    BY DEF OfItem, InFlight
  <1>2. OfItem(i, rows) \subseteq Uploads /\ InFlight(i) \subseteq Uploads
    BY DEF OfItem, InFlight, TypeOK
  <1>3. /\ Cardinality(OfItem(i, rows)') <= Cardinality(OfItem(i, rows))
        /\ Cardinality(InFlight(i)') <= Cardinality(InFlight(i))
    BY <1>1, <1>2, SetsAreFinite, FS_Subset
  <1>4. /\ Cardinality(OfItem(i, rows)) \in Nat /\ Cardinality(InFlight(i)) \in Nat
        /\ Cardinality(OfItem(i, rows)') \in Nat /\ Cardinality(InFlight(i)') \in Nat
    <2>1. OfItem(i, rows)' \subseteq Uploads /\ InFlight(i)' \subseteq Uploads
      BY <1>1, <1>2
    <2> QED
      BY <1>2, <2>1, SetsAreFinite
  <1>5. /\ Cardinality(InFlight(i)) <= MaxParallel
        /\ Cardinality(OfItem(i, rows)) + Cardinality(InFlight(i)) <= Quota + MaxParallel - 1
    BY DEF LoadBound, Load
  <1> QED
    BY <1>3, <1>4, <1>5, AttachmentAssumption

LEMMA CountLoad ==
    ASSUME TypeOK, LoadBound, NEW u \in Uploads, CountQuota(u)
    PROVE  LoadBound'
  <1> SUFFICES ASSUME NEW i \in Items
               PROVE /\ Cardinality(InFlight(i)') <= MaxParallel
                     /\ Cardinality(OfItem(i, rows)') + Cardinality(InFlight(i)')
                          <= Quota + MaxParallel - 1
    BY DEF LoadBound, Load
  <1>1. OfItem(i, rows)' = OfItem(i, rows)
    BY DEF CountQuota, OfItem
  <1>2. OfItem(i, rows) \subseteq Uploads /\ InFlight(i) \subseteq Uploads
    BY DEF OfItem, InFlight, TypeOK
  <1>3. /\ IsFiniteSet(InFlight(i)) /\ Cardinality(InFlight(i)) \in Nat
        /\ Cardinality(OfItem(i, rows)) \in Nat
    BY <1>2, SetsAreFinite
  <1>4. /\ Cardinality(InFlight(i)) <= MaxParallel
        /\ Cardinality(OfItem(i, rows)) + Cardinality(InFlight(i)) <= Quota + MaxParallel - 1
    BY DEF LoadBound, Load
  <1>5. CASE InFlight(i)' = InFlight(i)
    BY <1>1, <1>4, <1>5
  <1>6. CASE InFlight(i)' # InFlight(i)
    <2>1. i = home[u] /\ HasRoom(i) /\ InFlight(i)' = InFlight(i) \cup {u} /\ u \notin InFlight(i)
      BY <1>6 DEF CountQuota, InFlight, TypeOK
    <2>2. Cardinality(InFlight(i)') = Cardinality(InFlight(i)) + 1
      BY <1>3, <2>1, FS_AddElement
    <2>3. Cardinality(InFlight(i)) < MaxParallel /\ Cardinality(OfItem(i, rows)) < Quota
      BY <2>1 DEF CountQuota, HasRoom
    <2> QED
      BY <1>1, <1>3, <2>2, <2>3, AttachmentAssumption
  <1> QED
    BY <1>5, <1>6

LEMMA InsertLoad ==
    ASSUME TypeOK, TypeOK', BlobsFirst, LoadBound, NEW u \in Uploads, InsertRow(u)
    PROVE  LoadBound'
  <1>1. CASE life[home[u]] = "gone"
    <2>1. /\ home' = home /\ rows' \subseteq rows
          /\ \A v \in Uploads : up'[v] \in {"counted", "stored"} => up[v] \in {"counted", "stored"}
      BY <1>1 DEF InsertRow, TypeOK
    <2> QED
      BY <2>1, LighterLoad
  <1>2. CASE life[home[u]] # "gone"
    <2> SUFFICES ASSUME NEW i \in Items
                 PROVE /\ Cardinality(InFlight(i)') <= MaxParallel
                       /\ Cardinality(OfItem(i, rows)') + Cardinality(InFlight(i)')
                            <= Quota + MaxParallel - 1
      BY DEF LoadBound, Load
    <2>1. OfItem(i, rows) \subseteq Uploads /\ InFlight(i) \subseteq Uploads
      BY DEF OfItem, InFlight, TypeOK
    <2>2. /\ IsFiniteSet(InFlight(i)) /\ Cardinality(InFlight(i)) \in Nat
          /\ IsFiniteSet(OfItem(i, rows)) /\ Cardinality(OfItem(i, rows)) \in Nat
      BY <2>1, SetsAreFinite
    <2>3. /\ Cardinality(InFlight(i)) <= MaxParallel
          /\ Cardinality(OfItem(i, rows)) + Cardinality(InFlight(i)) <= Quota + MaxParallel - 1
      BY DEF LoadBound, Load
    <2>4. u \notin rows
      BY DEF BlobsFirst, InsertRow
    <2>5. CASE home[u] = i
      <3>1. /\ InFlight(i)' = InFlight(i) \ {u} /\ u \in InFlight(i)
            /\ OfItem(i, rows)' = OfItem(i, rows) \cup {u} /\ u \notin OfItem(i, rows)
        BY <1>2, <2>4, <2>5 DEF InsertRow, InFlight, OfItem, TypeOK
      <3>2. Cardinality(InFlight(i)') = Cardinality(InFlight(i)) - 1
        BY <2>2, <3>1, FS_RemoveElement
      <3>3. Cardinality(OfItem(i, rows)') = Cardinality(OfItem(i, rows)) + 1
        BY <2>2, <3>1, FS_AddElement
      <3> QED
        BY <2>2, <2>3, <3>2, <3>3, AttachmentAssumption
    <2>6. CASE home[u] # i
      <3>1. InFlight(i)' = InFlight(i) /\ OfItem(i, rows)' = OfItem(i, rows)
        BY <1>2, <2>6 DEF InsertRow, InFlight, OfItem, TypeOK
      <3> QED
        BY <2>3, <3>1
    <2> QED
      BY <2>5, <2>6
  <1> QED
    BY <1>1, <1>2

LEMMA LoadStep ==
    ASSUME TypeOK, TypeOK', BlobsFirst, LoadBound, [Next]_vars
    PROVE  LoadBound'
  <1>1. ASSUME NEW u \in Uploads, CountQuota(u) PROVE LoadBound'
    BY <1>1, CountLoad
  <1>2. ASSUME NEW u \in Uploads, InsertRow(u) PROVE LoadBound'
    BY <1>2, InsertLoad
  <1>3. ASSUME NEW u \in Uploads, Admit(u) \/ PutBlob(u) PROVE LoadBound'
    <2>1. /\ home' = home /\ rows' \subseteq rows
          /\ \A v \in Uploads : up'[v] \in {"counted", "stored"} => up[v] \in {"counted", "stored"}
      BY <1>3 DEF Admit, PutBlob, TypeOK
    <2> QED
      BY <2>1, LighterLoad
  <1>4. ASSUME NEW u \in Doomed, CheckDelete(u) \/ RemoveRow(u) \/ Unlink(u) PROVE LoadBound'
    <2>1. home' = home /\ rows' \subseteq rows /\ up' = up
      BY <1>4 DEF CheckDelete, RemoveRow, Unlink
    <2> QED
      BY <2>1, LighterLoad
  <1>5. ASSUME NEW d \in Desks,
               CheckDesk(d) \/ CommitFlag(d) \/ ListBlobs(d) \/ UnlinkNext(d)
                 \/ CommitPurge(d) \/ FailPurge(d) \/ CommitVaultDelete(d)
        PROVE LoadBound'
    <2>1. home' = home /\ rows' \subseteq rows /\ up' = up
      BY <1>5 DEF CheckDesk, CommitFlag, ListBlobs, UnlinkNext, CommitPurge,
                  FailPurge, CommitVaultDelete, Destroy
    <2> QED
      BY <2>1, LighterLoad
  <1>6. CASE Crash \/ UNCHANGED vars
    <2>1. /\ home' = home /\ rows' \subseteq rows
          /\ \A v \in Uploads : up'[v] \in {"counted", "stored"} => up[v] \in {"counted", "stored"}
      BY <1>6 DEF Crash, vars
    <2> QED
      BY <2>1, LighterLoad
  <1> QED
    BY <1>1, <1>2, <1>3, <1>4, <1>5, <1>6 DEF Next

-----------------------------------------------------------------------------
THEOREM FilesInvariance == Spec => []FilesInv
  <1>1. FilesInv /\ [Next]_vars => FilesInv'
    BY FilesTypeStep, BlobsStep, LoadStep DEF FilesInv
  <1> QED
    BY <1>1, FilesInit, PTL DEF Spec

\* The variables keep to their types, for every number of items and requests.
THEOREM FilesTypeCorrect == Spec => []TypeOK
  <1>1. FilesInv => TypeOK
    BY DEF FilesInv
  <1> QED
    BY <1>1, FilesInvariance, PTL

\* A row without a blob belongs to an item that a purge or the deletion of the
\* workspace had set out to destroy: no crash, failed transaction or order of
\* uploads, deletions and purges makes another.
THEOREM RowsKeepTheirBlobs == Spec => []MissingBlobMeansPurge
  <1>1. FilesInv => MissingBlobMeansPurge
    BY DEF FilesInv
  <1> QED
    BY <1>1, FilesInvariance, PTL

\* The overshoot of the quota is bounded by the parallel uploads, whatever
\* the quota and however many uploads there are.
THEOREM OvershootIsBounded == Spec => []QuotaOvershoot
  <1>1. ASSUME FilesInv PROVE QuotaOvershoot
    <2> SUFFICES ASSUME NEW i \in Items
                 PROVE Cardinality(OfItem(i, rows)) <= Quota + MaxParallel - 1
      BY DEF QuotaOvershoot
    <2>1. Cardinality(OfItem(i, rows)) \in Nat /\ Cardinality(InFlight(i)) \in Nat
      BY <1>1, SetsAreFinite DEF FilesInv, TypeOK, OfItem, InFlight
    <2>2. Cardinality(OfItem(i, rows)) + Cardinality(InFlight(i)) <= Quota + MaxParallel - 1
      BY <1>1 DEF FilesInv, LoadBound, Load
    <2> QED
      BY <2>1, <2>2, AttachmentAssumption
  <1> QED
    BY <1>1, FilesInvariance, PTL
=============================================================================
