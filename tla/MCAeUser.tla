------------------------------ MODULE MCAeUser ------------------------------
(* Instances of AeUser for TLC. *)
EXTENDS AeUser, TLC

\* The handlers are alike; only whether two are the same one matters.
ProcSymmetry == Permutations(Procs)
=============================================================================
