---------------------------- MODULE Attachments ----------------------------
(***************************************************************************)
(* The attachments of the items of one vault: their rows in the database,  *)
(* their blobs on the storage volume, and what ends them: DELETE of one    *)
(* attachment, the trash (delete, restore, purge, empty), and the deletion *)
(* of the vault or of its workspace.                                       *)
(*                                                                         *)
(* Rows and blobs are written one after the other, outside a common        *)
(* transaction; a handler checks, awaits, and then writes by id.  An       *)
(* upload request names the attachment it creates.                         *)
(***************************************************************************)
EXTENDS Naturals, FiniteSets

CONSTANTS
    Items,        \* the items of the vault
    Uploads,      \* POST /items/:id/attachments requests, one unit each
    Doomed,       \* the uploads whose attachment the user deletes again
    Desks,        \* requests on items, the vault, the workspace: trash, purge ...
    Quota,        \* ATTACHMENT_ITEM_MAX_BYTES, in units
    MaxParallel   \* bound: uploads to one item between quota check and insert

ASSUME AttachmentAssumption ==
    /\ IsFiniteSet(Uploads)
    /\ Doomed \subseteq Uploads
    /\ Quota \in Nat \ {0}
    /\ MaxParallel \in Nat \ {0}

VARIABLES
    life,    \* item -> "live", "trashed" or "gone"
    vault,   \* "kept" or "deleted"
    home,    \* upload -> the item it is for
    up,      \* upload -> how far its handler got
    del,     \* upload -> how far a DELETE of its attachment got
    rows,    \* the attachments with a row
    blobs,   \* the attachments with a blob
    desk,    \* desk -> [act, items, todo, stage]
    listed   \* history: the items whose blobs a request on a desk set out to delete

vars == <<life, vault, home, up, del, rows, blobs, desk, listed>>

UpStage == {"new", "admitted", "counted", "stored", "done", "failed"}
DelStage == {"none", "checked", "removed", "over"}
Acts == {"delete", "restore", "purge", "vault", "workspace"}
DeskStage == {"new", "checked", "unlinking", "done", "refused", "lost"}

OfItem(i, us) == {u \in us : home[u] = i}
NoDesk == [act |-> "delete", items |-> {}, todo |-> {}, stage |-> "new"]

-----------------------------------------------------------------------------
Init ==
    /\ life = [i \in Items |-> "live"]
    /\ vault = "kept"
    /\ home \in [Uploads -> Items]
    /\ up = [u \in Uploads |-> "new"]
    /\ del = [u \in Doomed |-> "none"]
    /\ rows = {}
    /\ blobs = {}
    /\ desk = [d \in Desks |-> NoDesk]
    /\ listed = {}

-----------------------------------------------------------------------------
(* POST /items/:id/attachments *)

\* The item must be live; the body is parsed afterwards.
Admit(u) ==
    /\ up[u] = "new"
    /\ up' = [up EXCEPT ![u] = IF life[home[u]] = "live" THEN "admitted" ELSE "failed"]
    /\ UNCHANGED <<life, vault, home, del, rows, blobs, desk, listed>>

\* The sum of the rows there are now; uploads on their way are not in it.
HasRoomAndMore(i) == Cardinality(OfItem(i, rows)) <= Quota           \* mutant
HasRoom(i) == Cardinality(OfItem(i, rows)) < Quota

InFlight(i) == {u \in Uploads : home[u] = i /\ up[u] \in {"counted", "stored"}}

CountQuota(u) ==
    /\ up[u] = "admitted"
    /\ Cardinality(InFlight(home[u])) < MaxParallel
    /\ up' = [up EXCEPT ![u] = IF HasRoom(home[u]) THEN "counted" ELSE "failed"]
    /\ UNCHANGED <<life, vault, home, del, rows, blobs, desk, listed>>

PutBlobLate(u) ==                                                     \* mutant
    /\ up[u] = "counted"
    /\ up' = [up EXCEPT ![u] = "stored"]
    /\ UNCHANGED <<life, vault, home, del, rows, blobs, desk, listed>>
PutBlob(u) ==
    /\ up[u] = "counted"
    /\ blobs' = blobs \cup {u}
    /\ up' = [up EXCEPT ![u] = "stored"]
    /\ UNCHANGED <<life, vault, home, del, rows, desk, listed>>

\* A trashed item still takes the row; an item that is gone breaks the
\* foreign key, the request fails and the blob stays behind.
InsertRow(u) ==
    /\ up[u] = "stored"
    /\ rows' = IF life[home[u]] = "gone" THEN rows ELSE rows \cup {u}
    /\ up' = [up EXCEPT ![u] = IF life[home[u]] = "gone" THEN "failed" ELSE "done"]
    /\ UNCHANGED <<life, vault, home, del, blobs, desk, listed>>

-----------------------------------------------------------------------------
(* DELETE /attachments/:id *)

CheckDelete(u) ==
    /\ del[u] = "none"
    /\ u \in rows
    /\ life[home[u]] = "live"
    /\ del' = [del EXCEPT ![u] = "checked"]
    /\ UNCHANGED <<life, vault, home, up, rows, blobs, desk, listed>>

\* The transaction: row and audit.
RemoveRow(u) ==
    /\ del[u] = "checked"
    /\ rows' = rows \ {u}
    /\ del' = [del EXCEPT ![u] = "removed"]
    /\ UNCHANGED <<life, vault, home, up, blobs, desk, listed>>

\* Best effort: an error of the storage is swallowed.
Unlink(u) ==
    /\ del[u] = "removed"
    /\ blobs' \in {blobs, blobs \ {u}}
    /\ del' = [del EXCEPT ![u] = "over"]
    /\ UNCHANGED <<life, vault, home, up, rows, desk, listed>>

-----------------------------------------------------------------------------
(* DELETE /items/:id, the trash routes, DELETE /vaults/:id, /workspace *)

Start(d, act, is) ==
    desk' = [desk EXCEPT ![d] = [act |-> act, items |-> is, todo |-> {},
                                 stage |-> "checked"]]

\* What a request that is over was about does not matter any more.
Close(d, stage) == [desk EXCEPT ![d] = [NoDesk EXCEPT !.stage = stage]]

\* The checks, outside any transaction.
CheckDesk(d) ==
    /\ desk[d].stage = "new"
    /\ \/ \E i \in Items : life[i] = "live" /\ Start(d, "delete", {i})
       \/ \E i \in Items : life[i] = "trashed" /\ \E a \in {"restore", "purge"} : Start(d, a, {i})
       \* POST /trash/empty
       \/ \E i \in Items : /\ life[i] = "trashed"
                           /\ Start(d, "purge", {j \in Items : life[j] = "trashed"})
       \* Only live items make a vault non-empty.
       \/ /\ vault = "kept"
          /\ \A i \in Items : life[i] # "live"
          /\ Start(d, "vault", Items)
       \* The owner's password and the name are asked for, not an empty vault.
       \/ vault = "kept" /\ Start(d, "workspace", Items)
    /\ UNCHANGED <<life, vault, home, up, del, rows, blobs, listed>>

\* An UPDATE by id alone: it sets or clears deleted_at whatever it was.
CommitFlag(d) ==
    /\ desk[d].stage = "checked"
    /\ desk[d].act \in {"delete", "restore"}
    /\ life' = [i \in Items |->
                  IF i \notin desk[d].items \/ life[i] = "gone" THEN life[i]
                  ELSE IF desk[d].act = "delete" THEN "trashed" ELSE "live"]
    /\ desk' = Close(d, "done")
    /\ UNCHANGED <<vault, home, up, del, rows, blobs, listed>>

\* The purges (deleteAttachmentBlobs) and the deletion of the workspace, which
\* takes the live items too: select the rows of the items ...
ListBlobs(d) ==
    /\ desk[d].stage = "checked"
    /\ desk[d].act \in {"purge", "workspace"}
    /\ desk' = [desk EXCEPT ![d].stage = "unlinking",
                            ![d].todo = {u \in rows : home[u] \in desk[d].items}]
    /\ listed' = listed \cup desk[d].items
    /\ UNCHANGED <<life, vault, home, up, del, rows, blobs>>

\* ... and unlink one after the other; errors are swallowed.
UnlinkOrThrow(d) ==                                                   \* mutant
    /\ desk[d].stage = "unlinking"
    /\ \E u \in desk[d].todo :
         \/ /\ blobs' = blobs \ {u}
            /\ desk' = [desk EXCEPT ![d].todo = @ \ {u}]
         \/ /\ blobs' = blobs
            /\ desk' = [desk EXCEPT ![d].stage = "refused"]
    /\ UNCHANGED <<life, vault, home, up, del, rows, listed>>
UnlinkNext(d) ==
    /\ desk[d].stage = "unlinking"
    /\ \E u \in desk[d].todo :
         /\ blobs' \in {blobs, blobs \ {u}}
         /\ desk' = [desk EXCEPT ![d].todo = @ \ {u}]
    /\ UNCHANGED <<life, vault, home, up, del, rows, listed>>

Destroy(is) ==
    /\ life' = [i \in Items |-> IF i \in is THEN "gone" ELSE life[i]]
    /\ rows' = {u \in rows : home[u] \notin is}

\* The transaction that follows: a DELETE by id alone, and the rows of the
\* attachments go with the items; with the workspace the vault goes as well.
CommitPurge(d) ==
    /\ desk[d].stage = "unlinking"
    /\ desk[d].todo = {}
    /\ Destroy(desk[d].items)
    /\ vault' = IF desk[d].act = "workspace" THEN "deleted" ELSE vault
    /\ desk' = Close(d, "done")
    /\ UNCHANGED <<home, up, del, blobs, listed>>

\* It fails: the rows stay, the blobs are gone.
FailPurge(d) ==
    /\ desk[d].stage = "unlinking"
    /\ desk[d].todo = {}
    /\ desk' = Close(d, "lost")
    /\ UNCHANGED <<life, vault, home, up, del, rows, blobs, listed>>

\* The items, trashed ones included, go with the vault; no blob does.
CommitVaultDelete(d) ==
    /\ desk[d].stage = "checked"
    /\ desk[d].act = "vault"
    /\ vault' = "deleted"
    /\ Destroy(Items)
    /\ desk' = Close(d, "done")
    /\ UNCHANGED <<home, up, del, blobs, listed>>

-----------------------------------------------------------------------------
\* The process dies with its requests in flight.
Crash ==
    /\ up' = [u \in Uploads |->
                IF up[u] \in {"admitted", "counted", "stored"} THEN "failed" ELSE up[u]]
    /\ del' = [u \in Doomed |->
                 IF del[u] \in {"checked", "removed"} THEN "over" ELSE del[u]]
    /\ desk' = [d \in Desks |->
                  IF desk[d].stage \in {"checked", "unlinking"}
                  THEN [NoDesk EXCEPT !.stage = "lost"] ELSE desk[d]]
    /\ UNCHANGED <<life, vault, home, rows, blobs, listed>>

Next ==
    \/ \E u \in Uploads :
         Admit(u) \/ CountQuota(u) \/ PutBlob(u) \/ InsertRow(u)
    \/ \E u \in Doomed : CheckDelete(u) \/ RemoveRow(u) \/ Unlink(u)
    \/ \E d \in Desks :
         \/ CheckDesk(d) \/ CommitFlag(d) \/ ListBlobs(d) \/ UnlinkNext(d)
         \/ CommitPurge(d) \/ FailPurge(d) \/ CommitVaultDelete(d)
    \/ Crash

Spec == Init /\ [][Next]_vars

\* Every await of a started request resolves or throws.
Fairness ==
    \A d \in Desks : /\ WF_vars(ListBlobs(d)) /\ WF_vars(UnlinkNext(d))
                     /\ WF_vars(CommitPurge(d))

FairSpec == Spec /\ Fairness

-----------------------------------------------------------------------------
(* Properties *)

\* Each row, blob and request is in one of the states listed above.
TypeOK ==
    /\ life \in [Items -> {"live", "trashed", "gone"}]
    /\ vault \in {"kept", "deleted"}
    /\ home \in [Uploads -> Items]
    /\ up \in [Uploads -> UpStage]
    /\ del \in [Doomed -> DelStage]
    /\ rows \subseteq Uploads
    /\ blobs \subseteq Uploads
    /\ desk \in [Desks -> [act : Acts, items : SUBSET Items,
                           todo : SUBSET Uploads, stage : DeskStage]]
    /\ listed \subseteq Items

\* A row never outlives its blob, whatever crashes, fails or interleaves, but
\* for an item that a purge or the deletion of the workspace had set out to
\* destroy.  These unlink first: an item they leave behind, restored in the
\* meantime or kept by a transaction that fails, has lost its blobs.
MissingBlobMeansPurge == \A u \in rows : u \notin blobs => home[u] \in listed

\* The quota is checked on a sum that leaves out the uploads on their way: an
\* item exceeds it by at most the uploads that run in parallel, less one.
QuotaOvershoot ==
    \A i \in Items : Cardinality(OfItem(i, rows)) <= Quota + MaxParallel - 1

\* A purge, or deletion of the workspace, that has begun to unlink destroys its
\* items, also when the storage fails; the database failing or the process
\* dying may end it.
PurgeSurvivesStorage ==
    \A d \in Desks, i \in Items :
      desk[d].stage = "unlinking" /\ i \in desk[d].items
        ~> life[i] = "gone" \/ desk[d].stage = "lost"
=============================================================================
