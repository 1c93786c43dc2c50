------------------------------ MODULE MCRefresh ------------------------------
(* Instances of ShareRefresh for TLC. *)
EXTENDS ShareRefresh, TLC

\* Requests and refreshes are interchangeable.
Ids == Permutations(Refresh) \cup Permutations(RestoreCall)

\* Bound: a party that retires its share meets one restart or one restore under
\* way. Without a retirement both are as free as the constants say.
RetirementFocus ==
  NoRetirement \/
    crashes + Cardinality({<<c, p>> \in RestoreCall \X Party : loaded[c][p] # NoShare}) <= 1
=============================================================================
