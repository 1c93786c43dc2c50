------------------------------ MODULE MCNative ------------------------------
(* Instances of NativeTransfers for TLC. *)
EXTENDS NativeTransfers, TLC

Perms == Permutations(User) \cup Permutations(Handler)

\* Bound: two decisions in flight for an EVM transfer of an organisation that is
\* not frozen, one otherwise. The other kinds differ only once a run has claimed.
DecisionFocus ==
  (kind # "evm" \/ frozen) => Cardinality({h \in Handler : handler[h] # Idle}) <= 1
=============================================================================
