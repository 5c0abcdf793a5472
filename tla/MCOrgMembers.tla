---------------------------- MODULE MCOrgMembers ----------------------------
(***************************************************************************)
(* Instances of OrgMembers for TLC.  Requests, invitation rows and the     *)
(* accounts other than the founder are interchangeable.                    *)
(***************************************************************************)
EXTENDS OrgMembers, TLC

Symmetry == Permutations(Requests) \cup Permutations(Invites)
            \cup Permutations(Users \ {Founder})
=============================================================================
