------------------------------ MODULE MCSigning ------------------------------
(* Instances of SigningRequests for TLC. *)
EXTENDS SigningRequests, TLC

Perms == Permutations(Caller) \cup Permutations(Digest)
=============================================================================
