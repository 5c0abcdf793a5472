----------------------------- MODULE KeyCustody -----------------------------
(***************************************************************************)
(* What the server promises about the wrapped keys of a zero-knowledge     *)
(* vault, without saying how.  Rotation is one indivisible step to the     *)
(* next generation that leaves nobody on an older key.  Between rotations  *)
(* a user can only be given a key that already exists, and a key can only  *)
(* be taken back by recording that a rotation is owed.  A rotation may be  *)
(* owed with no key taken back.  Nothing but a rotation settles the debt.  *)
(***************************************************************************)
EXTENDS Naturals

CONSTANT Users

VARIABLES
    generation,  \* of the key the vault is meant to be encrypted with
    owed,        \* a rotation is owed
    holds        \* user -> generation of the key stored for the user, 0 if none

vars == <<generation, owed, holds>>

Init ==
    /\ generation = 1
    /\ owed = FALSE
    /\ \E creator \in Users, key \in {0, 1} :
         holds = [u \in Users |-> IF u = creator THEN key ELSE 0]

Rotate ==
    /\ generation' = generation + 1
    /\ owed' = FALSE
    /\ \E S \in SUBSET Users : holds' = [u \in Users |-> IF u \in S THEN generation + 1 ELSE 0]

Give(u) ==
    /\ holds[u] = 0
    /\ \E g \in 1..generation : holds' = [holds EXCEPT ![u] = g]
    /\ UNCHANGED <<generation, owed>>

TakeBack(u) ==
    /\ owed' = TRUE
    /\ holds' = [holds EXCEPT ![u] = 0]
    /\ UNCHANGED generation

Owe ==
    /\ owed' = TRUE
    /\ UNCHANGED <<generation, holds>>

Next == Rotate \/ Owe \/ \E u \in Users : Give(u) \/ TakeBack(u)

Spec == Init /\ [][Next]_vars
=============================================================================
