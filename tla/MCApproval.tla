----------------------------- MODULE MCApproval -----------------------------
(* Instances of Approval for TLC. *)
EXTENDS Approval, TLC

\* Ids and requests are interchangeable in the safety runs.
Symmetry == Permutations(Proposals) \cup Permutations(Requests)
=============================================================================
