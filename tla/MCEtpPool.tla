----------------------------- MODULE MCEtpPool -----------------------------
(* Instances of EtpPool for TLC. *)
EXTENDS EtpPool, TLC

MinusOne == -1

\* The thread slots are alike, and so are the requests.
ThreadSymmetry == Permutations(Workers) \cup Permutations(Plain)
=============================================================================
