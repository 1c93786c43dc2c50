---------------------------- MODULE MCSettlement ----------------------------
(* Instances of SettlementWorkflow for TLC. *)
EXTENDS SettlementWorkflow, TLC

Perms == Permutations(User) \cup Permutations(Handler)

\* Anyone's approval, one without an approver, and a decision of no known kind.
ForeignApprovals ==
  [user : User \cup {NoUser}, decision : {"approve"}] \cup [user : User, decision : {"unknown"}]

\* Bound: while the organisation is frozen, one decision at a time is in flight.
FreezeFocus == frozen => Cardinality({h \in Handler : handler[h] # Idle}) <= 1
=============================================================================
