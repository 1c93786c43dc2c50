------------------------------ MODULE FourEyes ------------------------------
(***************************************************************************)
(* What the approval machinery promises about one transfer, however it is  *)
(* carried out: it moves only if the policy waived approval or a quorum of *)
(* people other than the one who asked for it voted for it, each once; the *)
(* quorum is fixed when the question is asked, and a verdict is final.     *)
(* SettlementWorkflow and NativeTransfers each implement this module.      *)
(***************************************************************************)
EXTENDS Naturals, FiniteSets

CONSTANTS User, NoUser

VARIABLES
  initiator,     \* who asked for the transfer
  waived,        \* the policy lets the transfer through without approval
  quorum,        \* votes needed; 0 until the question is asked
  votes,         \* who voted for it
  verdict,       \* "undecided", "approved" or "refused"
  moved          \* the transfer has been signed

vars == <<initiator, waived, quorum, votes, verdict, moved>>

Init ==
  /\ initiator \in User \cup {NoUser}
  /\ waived = FALSE
  /\ quorum = 0
  /\ votes = {}
  /\ verdict = "undecided"
  /\ moved = FALSE

Waive ==
  /\ ~waived
  /\ quorum = 0
  /\ waived' = TRUE
  /\ UNCHANGED <<initiator, quorum, votes, verdict, moved>>

Ask ==
  /\ ~waived
  /\ quorum = 0
  /\ quorum' \in Nat
  /\ quorum' >= 2
  /\ UNCHANGED <<initiator, waived, votes, verdict, moved>>

Vote(u) ==
  /\ quorum # 0
  /\ verdict = "undecided"
  /\ u # initiator
  /\ u \notin votes
  /\ votes' = votes \cup {u}
  /\ verdict' = IF Cardinality(votes') >= quorum THEN "approved" ELSE "undecided"
  /\ UNCHANGED <<initiator, waived, quorum, moved>>

Refuse ==
  /\ quorum # 0
  /\ verdict = "undecided"
  /\ verdict' = "refused"
  /\ UNCHANGED <<initiator, waived, quorum, votes, moved>>

Move ==
  /\ waived \/ verdict = "approved"
  /\ moved' = TRUE
  /\ UNCHANGED <<initiator, waived, quorum, votes, verdict>>

Next ==
  \/ Waive
  \/ Ask
  \/ \E u \in User : Vote(u)
  \/ Refuse
  \/ Move

Spec == Init /\ [][Next]_vars
=============================================================================
