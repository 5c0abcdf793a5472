----------------------------- MODULE SendLedger -----------------------------
(***************************************************************************)
(* What a one-time send promises to whoever sent it, without saying how:   *)
(* a budget of views.  A view is taken by one request, only while the send *)
(* lasts, and the last view ends it.  The content is given only for a view *)
(* that was taken and recorded, once.  A send that has ended stays ended,  *)
(* but what was taken before may still be recorded and given.              *)
(***************************************************************************)
EXTENDS Integers

CONSTANTS Requests, MaxViews

VARIABLES
    left,      \* the views that are left
    ended,     \* the send gives no more views
    taken,     \* the requests that took one
    recorded,  \* the requests whose view the sender can see in the audit log
    given      \* the requests that got the content

vars == <<left, ended, taken, recorded, given>>

Init ==
    /\ left = MaxViews
    /\ ended = FALSE
    /\ taken = {}
    /\ recorded = {}
    /\ given = {}

Take(r) ==
    /\ ~ended
    /\ left > 0
    /\ r \notin taken
    /\ taken' = taken \cup {r}
    /\ left' = left - 1
    /\ ended' = (left = 1)
    /\ UNCHANGED <<recorded, given>>

Record(r) ==
    /\ r \in taken \ recorded
    /\ recorded' = recorded \cup {r}
    /\ UNCHANGED <<left, ended, taken, given>>

Give(r) ==
    /\ r \in recorded \ given
    /\ given' = given \cup {r}
    /\ UNCHANGED <<left, ended, taken, recorded>>

End ==
    /\ ended' = TRUE
    /\ UNCHANGED <<left, taken, recorded, given>>

Next == End \/ \E r \in Requests : Take(r) \/ Record(r) \/ Give(r)

Spec == Init /\ [][Next]_vars
=============================================================================
