----------------------------- MODULE ItemEdits -----------------------------
(***************************************************************************)
(* One item of a zero-knowledge vault, the browser tabs that show and edit *)
(* it, and the requests that trash, restore or purge it.                   *)
(*                                                                         *)
(* A tab diffs its form against its own copy of the item and PATCHes the   *)
(* difference; the notes blob, which holds the tags, goes along every      *)
(* time.  The server reads the row, locks it in a transaction, numbers and *)
(* inserts a version, prunes, and updates the row and its search terms.    *)
(*                                                                         *)
(* Contents are stamps: the number of the edit that wrote them.            *)
(***************************************************************************)
EXTENDS Integers, FiniteSets

CONSTANTS
    Tabs,      \* browser tabs of users who may manage the item
    Cleanups,  \* trash, restore and purge requests, one at a time each
    Keep,      \* versions kept per item (10 in the code)
    MaxEdits   \* bound: the creation and the saves the tabs submit

ASSUME ItemAssumption ==
    /\ Keep \in Nat \ {0}
    /\ MaxEdits \in Nat \ {0}

VARIABLES
    itemLife,  \* "live", "trashed" (deleted_at set) or "gone" (no row)
    row,       \* the contents of the items row
    pwAge,     \* the stamp behind password_changed_at
    terms,     \* the contents the item_search_terms rows were computed from
    versions,  \* item_versions: [num, row]
    saves,     \* PATCHes committed so far
    edits,     \* the creation and the saves submitted so far
    lock,      \* the tabs whose transaction locks the items row: at most one
    view,      \* tab -> its copy of the contents
    req,       \* tab -> its PATCH in flight
    cleanup    \* request -> the trash operation that passed its checks, or "idle"

editVars == <<itemLife, row, pwAge, terms, versions, saves, edits, lock, view, req, cleanup>>
server == <<itemLife, row, pwAge, terms, versions, saves>>

Empty == 0      \* a cleared password
Hidden == -1    \* a password the tab has not revealed
Stamp == Empty..MaxEdits
Fields == {"login", "password", "tags"}
Indexed == {"login", "tags"}
Keys == Fields \cup {"name", "terms"}
Row == [Fields -> Stamp]
OnIndexed(r) == [f \in Indexed |-> r[f]]
NoRow == [f \in Fields |-> Empty]
NoReq == [stage |-> "idle", star |-> FALSE, form |-> NoRow, keys |-> {},
          prev |-> NoRow, num |-> 0]
Ended(stage) == [NoReq EXCEPT !.stage = stage]

-----------------------------------------------------------------------------
\* createDisplayItem and POST /vaults/:id/items; the tabs open the item.
EditInit ==
    /\ itemLife = "live"
    /\ row = [f \in Fields |-> 1]
    /\ pwAge = 1
    /\ terms = OnIndexed(row)
    /\ versions = {}
    /\ saves = 0
    /\ edits = 1
    /\ lock = {}
    /\ view = [t \in Tabs |-> [row EXCEPT !["password"] = Hidden]]
    /\ req = [t \in Tabs |-> NoReq]
    /\ cleanup = [c \in Cleanups |-> "idle"]

-----------------------------------------------------------------------------
(* The tab *)

\* The item page: GET /items/:id, with no password revealed yet.
OpenItem(t) ==
    /\ itemLife = "live"
    /\ req[t].stage = "idle"
    /\ view' = [view EXCEPT ![t] = [row EXCEPT !["password"] = Hidden]]
    /\ UNCHANGED <<server, edits, lock, req, cleanup>>

\* The first opening of the edit dialog; the answer is kept while the page is
\* open.  A reveal that fails leaves the password field blank.
Reveal(t) ==
    /\ view[t]["password"] = Hidden
    /\ req[t].stage = "idle"
    /\ \E p \in {Empty} \cup (IF itemLife = "live" THEN {row["password"]} ELSE {}) :
         view' = [view EXCEPT ![t]["password"] = p]
    /\ UNCHANGED <<server, edits, lock, req, cleanup>>

\* The keys of the PATCH body: what differs from the tab's copy, and the notes
\* blob in any case.
Diff(old, form) == {f \in Fields : form[f] # old[f]}
KeysWithPassword(old, form, renamed) ==                               \* mutant
    {"tags", "password"} \cup Diff(old, form)
      \cup (IF renamed THEN {"name"} ELSE {})
      \cup (IF renamed \/ Diff(old, form) \cap Indexed # {} THEN {"terms"} ELSE {})
KeysWithoutTerms(old, form, renamed) ==                               \* mutant
    {"tags"} \cup Diff(old, form) \cup (IF renamed THEN {"name"} ELSE {})
      \cup (IF renamed \/ "tags" \in Diff(old, form) THEN {"terms"} ELSE {})
PatchKeys(old, form, renamed) ==
    {"tags"} \cup Diff(old, form) \cup (IF renamed THEN {"name"} ELSE {})
      \cup (IF renamed \/ Diff(old, form) \cap Indexed # {} THEN {"terms"} ELSE {})

Send(t, star, form, keys) ==
    req' = [req EXCEPT ![t] = [stage |-> "sent", star |-> star, form |-> form,
                               keys |-> keys, prev |-> NoRow, num |-> 0]]

\* A copy that has lost its username has lost its name as well: Settle.
Nameless(t) == view[t]["login"] = Empty

\* Saving the dialog: the user changed some fields, perhaps the name or the
\* notes alone, and may have cleared the password.  A blank name is not saved,
\* so that a nameless copy makes every save a rename.
SubmitEdit(t) ==
    /\ req[t].stage = "idle"
    /\ view[t]["password"] # Hidden
    /\ edits < MaxEdits
    /\ edits' = edits + 1
    /\ \E changed \in SUBSET Fields, pw \in {Empty, edits + 1},
          renamed \in {TRUE, Nameless(t)} :
         LET form == [f \in Fields |->
                        CASE f \notin changed -> view[t][f]
                          [] f \in changed /\ f = "password" -> pw
                          [] OTHER -> edits + 1]
         IN  Send(t, FALSE, form, PatchKeys(view[t], form, renamed))
    /\ UNCHANGED <<server, lock, view, cleanup>>

\* The star: it reads the item again and sends the notes blob back with one
\* flag changed.
ToggleFavorite(t) ==
    /\ itemLife = "live"
    /\ req[t].stage = "idle"
    /\ edits < MaxEdits
    /\ edits' = edits + 1
    /\ Send(t, TRUE, [row EXCEPT !["password"] = view[t]["password"]], {"tags"})
    /\ UNCHANGED <<server, lock, view, cleanup>>

\* The answer.  A saved edit reloads the page.  A saved toggle rebuilds it from
\* the row it read and does not decrypt that: the name, the username and the
\* url are blank.  Either way the password stays the one revealed earlier.
Settle(t) ==
    /\ req[t].stage \in {"saved", "refused", "invalid", "collided"}
    /\ view' = CASE req[t].stage # "saved" -> view
                 [] req[t].stage = "saved" /\ req[t].star ->
                      [view EXCEPT ![t] = [req[t].form EXCEPT !["login"] = Empty]]
                 [] req[t].stage = "saved" /\ ~req[t].star /\ itemLife = "live" ->
                      [view EXCEPT ![t] = [row EXCEPT !["password"] = view[t]["password"]]]
                 [] OTHER -> view
    /\ req' = [req EXCEPT ![t] = NoReq]
    /\ UNCHANGED <<server, edits, lock, cleanup>>

-----------------------------------------------------------------------------
(* PATCH /items/:id *)

\* The validators and loadItemForUser, outside the transaction.  A rename
\* carries `name: ""` beside the ciphertext, which patchSchema refuses.
LoadItem(t) ==
    /\ req[t].stage = "sent"
    /\ req' = [req EXCEPT ![t] =
                 CASE "name" \in @.keys -> Ended("invalid")
                   [] "name" \notin @.keys /\ itemLife = "live" ->
                        [@ EXCEPT !.stage = "loaded", !.prev = row]
                   [] OTHER -> Ended("refused")]
    /\ UNCHANGED <<server, edits, lock, view, cleanup>>

LockNothing(t) ==                                                     \* mutant
    /\ req[t].stage = "loaded"
    /\ req' = [req EXCEPT ![t] = IF itemLife = "gone" THEN Ended("refused")
                                 ELSE [@ EXCEPT !.stage = "locked"]]
    /\ UNCHANGED <<server, edits, lock, view, cleanup>>

\* SELECT ... FOR UPDATE: no row means 404.  A trashed row is still a row.
LockItem(t) ==
    /\ req[t].stage = "loaded"
    /\ lock = {}
    /\ lock' = IF itemLife = "gone" THEN {} ELSE {t}
    /\ req' = [req EXCEPT ![t] = IF itemLife = "gone" THEN Ended("refused")
                                 ELSE [@ EXCEPT !.stage = "locked"]]
    /\ UNCHANGED <<server, edits, view, cleanup>>

Nums == {v.num : v \in versions}
NewestNum == CHOOSE n \in Nums \cup {0} : \A m \in Nums : m <= n

ReadMax(t) ==
    /\ req[t].stage = "locked"
    /\ req' = [req EXCEPT ![t].stage = "numbered", ![t].num = NewestNum + 1]
    /\ UNCHANGED <<server, edits, lock, view, cleanup>>

\* DELETE ... NOT IN (the Keep highest).
PruneOldest(vs) ==                                                    \* mutant
    {v \in vs : Cardinality({w \in vs : w.num < v.num}) < Keep}
Prune(vs) == {v \in vs : Cardinality({w \in vs : w.num > v.num}) < Keep}

\* The rest of the transaction: insert the version, prune, update the row,
\* replace the terms.  The unique index refuses a number that is taken.
CommitPatch(t) ==
    LET r == req[t]
    IN  /\ r.stage = "numbered"
        /\ lock' = {}
        /\ IF r.num \in Nums
           THEN /\ req' = [req EXCEPT ![t] = Ended("collided")]
                /\ UNCHANGED server
           ELSE /\ versions' = Prune(versions \cup {[num |-> r.num, row |-> r.prev]})
                /\ row' = [f \in Fields |-> IF f \in r.keys THEN r.form[f] ELSE row[f]]
                /\ pwAge' = IF "password" \in r.keys /\ r.form["password"] # Empty
                            THEN r.form["password"] ELSE pwAge
                /\ terms' = IF "terms" \in r.keys THEN OnIndexed(r.form) ELSE terms
                /\ saves' = saves + 1
                /\ req' = [req EXCEPT ![t] = IF r.star
                                              THEN [@ EXCEPT !.stage = "saved", !.prev = NoRow, !.num = 0]
                                              ELSE Ended("saved")]
                /\ UNCHANGED itemLife
        /\ UNCHANGED <<edits, view, cleanup>>

\* The process or the connection dies: an open transaction rolls back, and
\* the tab sees an error, of a committed save too.
Lose(t) ==
    /\ req[t].stage \in {"sent", "loaded", "locked", "numbered", "saved"}
    /\ req' = [req EXCEPT ![t] = Ended("refused")]
    /\ lock' = lock \ {t}
    /\ UNCHANGED <<server, edits, view, cleanup>>

-----------------------------------------------------------------------------
(* DELETE /items/:id, POST /trash/:id/restore, DELETE /trash/:id: each reads
   the row, checks deleted_at, and then updates or deletes by id alone.      *)

CheckTrash(c) ==
    /\ cleanup[c] = "idle"
    /\ \E act \in IF itemLife = "live" THEN {"delete"}
                  ELSE IF itemLife = "trashed" THEN {"restore", "purge"} ELSE {} :
         cleanup' = [cleanup EXCEPT ![c] = act]
    /\ UNCHANGED <<server, edits, lock, view, req>>

\* The UPDATE or DELETE waits for the row lock of an open PATCH.
CommitTrash(c) ==
    /\ cleanup[c] # "idle"
    /\ lock = {}
    /\ itemLife' = CASE itemLife = "gone" -> "gone"
                 [] itemLife # "gone" /\ cleanup[c] = "delete" -> "trashed"
                 [] itemLife # "gone" /\ cleanup[c] = "restore" -> "live"
                 [] itemLife # "gone" /\ cleanup[c] = "purge" -> "gone"
    /\ versions' = IF itemLife' = "gone" THEN {} ELSE versions
    /\ cleanup' = [cleanup EXCEPT ![c] = "idle"]
    /\ UNCHANGED <<row, pwAge, terms, saves, edits, lock, view, req>>

-----------------------------------------------------------------------------
EditNext ==
    \/ \E t \in Tabs :
         \/ OpenItem(t) \/ Reveal(t) \/ SubmitEdit(t) \/ ToggleFavorite(t) \/ Settle(t)
         \/ LoadItem(t) \/ LockItem(t) \/ ReadMax(t) \/ CommitPatch(t) \/ Lose(t)
    \/ \E c \in Cleanups : CheckTrash(c) \/ CommitTrash(c)

EditSpec == EditInit /\ [][EditNext]_editVars

-----------------------------------------------------------------------------
(* Properties *)

Stages == {"idle", "sent", "loaded", "locked", "numbered", "saved",
           "refused", "invalid", "collided"}
Shown == [Fields -> Stamp \cup {Hidden}]

\* Each column, copy and request holds one of the values listed above.
EditTypeOK ==
    /\ itemLife \in {"live", "trashed", "gone"}
    /\ row \in Row
    /\ pwAge \in Stamp
    /\ terms \in [Indexed -> Stamp]
    /\ versions \subseteq [num : Nat \ {0}, row : Row]
    /\ saves \in Nat
    /\ edits \in Stamp
    /\ lock \subseteq Tabs
    /\ view \in [Tabs -> Shown]
    /\ req \in [Tabs -> [stage : Stages, star : BOOLEAN, form : Shown,
                         keys : SUBSET Keys, prev : Row, num : Nat]]
    /\ cleanup \in [Cleanups -> {"idle", "delete", "restore", "purge"}]

\* Concurrent edits queue on the row lock: none of them fails on the unique
\* index over (item_id, version_number).
NoEditCollides == \A t \in Tabs : req[t].stage # "collided"

\* The history is the Keep latest saves, numbered without a gap or a repeat,
\* across trash and restore and whatever order the edits commit in.
VersionsAreLatest ==
    itemLife # "gone" => /\ Nums = {n \in 1..saves : n > saves - Keep}
                     /\ \A v, w \in versions : v.num = w.num => v = w

Commits(t) == req[t].stage = "numbered" /\ req'[t].stage = "saved"

\* A save moves the username, the password and the rotation clock only if its
\* user changed that field, however old the tab's copy is: the clock must not
\* restart, nor a colleague's new password be undone, by a change of notes.
OnlyChangedFieldsMove ==
    [][/\ \A f \in {"login", "password"} : row'[f] # row[f] =>
            \E t \in Tabs : Commits(t) /\ req[t].form[f] # view[t][f]
       /\ pwAge' # pwAge =>
            \E t \in Tabs : Commits(t) /\ req[t].form["password"] # view[t]["password"]]_editVars

\* An edit made on an up-to-date copy leaves the blind index describing the
\* item, although the client leaves the terms out when it thinks it can.
FreshEditKeepsIndex ==
    [][\A t \in Tabs :
         /\ Commits(t)
         /\ terms = OnIndexed(row)
         /\ IF req[t].star THEN OnIndexed(req[t].form) = OnIndexed(row)
                           ELSE OnIndexed(view[t]) = OnIndexed(row)
         => terms' = OnIndexed(row')]_editVars

\* items-overlay.ts: sending nameCiphertext re-encrypts the name, so a rename
\* is not turned away as malformed.
RenameIsAccepted == \A t \in Tabs : req[t].stage # "invalid"
=============================================================================
