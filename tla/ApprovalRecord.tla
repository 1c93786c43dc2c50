--------------------------- MODULE ApprovalRecord ---------------------------
(***************************************************************************)
(* The approval record: one row of approval_requests, its rows of          *)
(* approval_decisions, and the triggers of migration 023 that guard them.  *)
(* A decision is one transaction: the guard trigger locks the request row, *)
(* checks it, the row is inserted, and the apply trigger moves the status. *)
(***************************************************************************)
EXTENDS Naturals, FiniteSets

CONSTANTS
  User,          \* people with an account
  NoUser,        \* the initiator of a transfer a machine (an API key) asked for
  MaxRequired    \* the largest quorum a policy of the instance asks for (10 in the schema)

ASSUME RecordAssumption ==
  /\ IsFiniteSet(User)
  /\ NoUser \notin User
  /\ MaxRequired \in Nat
  /\ MaxRequired >= 2

VARIABLES
  initiator,     \* who asked for the transfer
  eligible,      \* people who hold the approver or admin role and are active
  status,        \* approval_requests.status; "none" before the row exists
  required,      \* approval_requests.required_approvals
  decision,      \* approval_decisions: one entry per person
  clock          \* the database clock, by its distance to expires_at

recordVars == <<initiator, eligible, status, required, decision, clock>>

Decisions == {"approve", "reject"}
ClosedStatus == {"approved", "rejected", "expired"}

(***************************************************************************)
(* The clock tells apart the three times the code does: more than a second *)
(* before expires_at, the last second (the workflow's timer, whose length  *)
(* is truncated to whole seconds, may already fire), and expires_at or     *)
(* later.                                                                  *)
(***************************************************************************)
Early == 0
LastSecond == 1
Expired == 2
Clock == {Early, LastSecond, Expired}

\* The quorums a tenant can have in force: MIN_REQUIRED_APPROVALS or more.
Quorum == 2..MaxRequired

Approvers == {u \in User : decision[u] = "approve"}

RecordTypeOK ==
  /\ initiator \in User \cup {NoUser}
  /\ eligible \subseteq User
  /\ status \in {"none", "pending"} \cup ClosedStatus
  /\ required \in {0} \cup Quorum
  /\ decision \in [User -> Decisions \cup {"none"}]
  /\ clock \in Clock

RecordInit ==
  /\ initiator \in User \cup {NoUser}
  /\ eligible \in SUBSET User
  /\ status = "none"
  /\ required = 0
  /\ decision = [u \in User |-> "none"]
  /\ clock = Early

-----------------------------------------------------------------------------
(* Opening: the terms are the tenant's policy at this moment, and never    *)
(* change afterwards. n is the quorum the policy table holds (2 by default)*)
OpenRequest(n) ==
  /\ status = "none"
  /\ status' = "pending"
  /\ required' = n
  /\ UNCHANGED <<initiator, eligible, decision, clock>>

DecisionGuardNoInitiatorRule(u, now) ==
  /\ status = "pending"
  /\ now # Expired
  /\ u \in eligible

(* approval_decision_guard: what an insert by u must satisfy. now is the   *)
(* clock when the transaction began, which is what NOW() returns in it.    *)
DecisionGuard(u, now) ==
  /\ status = "pending"
  /\ now # Expired
  /\ u # initiator
  /\ u \in eligible

(* The row is inserted and approval_decision_apply moves the status: one   *)
(* rejection rejects, the required number of distinct approvals approves.  *)
InsertDecision(u, d, now) ==
  /\ DecisionGuard(u, now)
  /\ decision[u] = "none"
  /\ decision' = [decision EXCEPT ![u] = d]
  /\ status' = IF d = "reject" THEN "rejected"
               ELSE IF Cardinality({v \in User : decision'[v] = "approve"}) >= required
                    THEN "approved"
                    ELSE status
  /\ UNCHANGED <<initiator, eligible, required, clock>>

CloseRequestNeverMatches(s) ==
  UNCHANGED recordVars

CloseRequestAnyStatus(s) ==
  /\ status' = s
  /\ UNCHANGED <<initiator, eligible, required, decision, clock>>

(* UPDATE ... SET status = s WHERE status = 'pending': no row matches, and *)
(* nothing changes, when a decision closed the request first.              *)
CloseRequest(s) ==
  /\ status' = IF status = "pending" THEN s ELSE status
  /\ UNCHANGED <<initiator, eligible, required, decision, clock>>

(* A membership or account change that makes u eligible or no longer so.   *)
ChangeEligibility(u) ==
  /\ eligible' = IF u \in eligible THEN eligible \ {u} ELSE eligible \cup {u}
  /\ UNCHANGED <<initiator, status, required, decision, clock>>

(* expires_at comes closer. It is fixed when the row is opened.            *)
Tick ==
  /\ status # "none"
  /\ clock # Expired
  /\ clock' = clock + 1
  /\ UNCHANGED <<initiator, eligible, status, required, decision>>
=============================================================================
