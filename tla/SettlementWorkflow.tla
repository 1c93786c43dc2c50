------------------------- MODULE SettlementWorkflow -------------------------
(***************************************************************************)
(* A settlement: the Temporal workflow TransactionSettlementWorkflow with  *)
(* its approval step (awaitApprovals), its activities, and the decisions   *)
(* the gateway delivers to it as signals. One settlement, its approval     *)
(* record and the gateway's handlers run together.                         *)
(*                                                                         *)
(* The workflow's own code is replayed deterministically, so a worker      *)
(* crash shows only in the activities: each runs at least once, may take   *)
(* effect without its result being recorded, and is tried again up to      *)
(* MaxAttempts times.                                                      *)
(***************************************************************************)
EXTENDS DecisionGateway, Sequences

CONSTANTS
  MaxAttempts,     \* RetryPolicy.MaximumAttempts (5 in the code)
  MaxInbox,        \* bound: signals waiting to be received
  Foreign          \* signals that reach the workflow from elsewhere than decide()

VARIABLES
  pc,              \* where the workflow is
  needs,           \* what the policy said the transfer needs before it is signed
  inbox,           \* the approval-decision signal channel
  seen,            \* people whose decision was counted
  approvals,       \* len(state.ApprovedBy)
  outcome,         \* state.Status, then awaitApprovals' result
  attempts,        \* failed attempts of the activity at pc
  signs,           \* signatures produced, over all attempts
  tx,              \* the signature whose result the workflow holds (0: none)
  network,         \* signed transactions the chain's nodes have accepted
  result           \* TransactionResult.Status; "error" where there is only an error

workflowVars == <<pc, needs, inbox, seen, approvals, outcome, attempts, signs, tx, network, result>>
approvalVars == <<inbox, seen, approvals, outcome>>
chainVars == <<signs, tx, network>>
vars == <<recordVars, gatewayVars, workflowVars>>

Activity == {"policy", "open", "recheck", "close", "sign", "broadcast", "monitor"}

\* No approver and an unknown decision are what only another client can send.
Signal == [user : User \cup {NoUser}, decision : Decisions \cup {"unknown"}]

ASSUME WorkflowAssumption ==
  /\ MaxAttempts \in Nat \ {0}
  /\ MaxInbox \in Nat
  /\ Foreign \subseteq Signal

WorkflowTypeOK ==
  /\ pc \in Activity \cup {"waiting", "done"}
  /\ needs \in {"unknown", "approval", "nothing"}
  /\ inbox \in Seq(Signal)
  /\ seen \subseteq User
  /\ approvals \in Nat
  /\ outcome \in {"pending"} \cup ClosedStatus
  /\ attempts \in 0..(MaxAttempts - 1)
  /\ signs \in Nat
  /\ tx \in 0..signs
  /\ network \subseteq 1..signs
  /\ result \in {"none", "denied", "signed", "broadcasted", "confirmed", "failed", "error"}

WorkflowInit ==
  /\ pc = "policy"
  /\ needs = "unknown"
  /\ inbox = <<>>
  /\ seen = {}
  /\ approvals = 0
  /\ outcome = "pending"
  /\ attempts = 0
  /\ signs = 0
  /\ tx = 0
  /\ network = {}
  /\ result = "none"

TypeOK == RecordTypeOK /\ GatewayTypeOK /\ WorkflowTypeOK
Init == RecordInit /\ GatewayInit /\ WorkflowInit

-----------------------------------------------------------------------------
(* Activities: the result is recorded and the workflow moves on, or the    *)
(* attempt is lost. The last lost attempt fails the workflow, except that  *)
(* a transaction already signed or broadcast is reported as such.          *)
Advance(label) ==
  /\ pc' = label
  /\ attempts' = 0
  /\ UNCHANGED result

Finish(status_) ==
  /\ pc' = "done"
  /\ attempts' = 0
  /\ result' = status_

GiveUpResult ==
  CASE pc = "broadcast" -> "signed"
    [] pc = "monitor"   -> "broadcasted"
    [] OTHER            -> "error"

AttemptLostOneMore ==
  IF attempts + 1 <= MaxAttempts
  THEN attempts' = attempts + 1 /\ UNCHANGED <<pc, result>>
  ELSE Finish(GiveUpResult)

AttemptLost ==
  IF attempts + 1 < MaxAttempts
  THEN attempts' = attempts + 1 /\ UNCHANGED <<pc, result>>
  ELSE Finish(GiveUpResult)

(* An attempt that took no effect: the worker or the callee was down.      *)
AttemptFails ==
  /\ pc \in Activity
  /\ AttemptLost
  /\ UNCHANGED <<recordVars, gatewayVars, needs, approvalVars, chainVars>>

CheckPolicy ==
  /\ pc = "policy"
  /\ \/ /\ Finish("denied")
        /\ UNCHANGED needs
     \/ /\ Advance("open")
        /\ needs' = "approval"
     \/ /\ Advance("sign")
        /\ needs' = "nothing"
  /\ UNCHANGED <<recordVars, gatewayVars, approvalVars, chainVars>>

OpenAgain ==
  /\ status' = "pending"
  /\ required' \in Quorum
  /\ UNCHANGED <<initiator, eligible, decision, clock>>

(* INSERT ... ON CONFLICT (workflow_id) DO NOTHING: a second attempt keeps *)
(* the terms of the first.                                                 *)
OpenOnce ==
  IF status = "none" THEN \E n \in Quorum : OpenRequest(n) ELSE UNCHANGED recordVars

OpenApprovalRequest ==
  /\ pc = "open"
  /\ OpenOnce
  /\ Advance("waiting") \/ AttemptLost
  /\ UNCHANGED <<gatewayVars, needs, approvalVars, chainVars>>

-----------------------------------------------------------------------------
(* The approval step. Signals queue from the moment the workflow runs, and *)
(* nobody reads the ones that arrive after the loop has ended.             *)
Accept(s) ==
  inbox' = IF pc \in {"open", "waiting"} THEN Append(inbox, s) ELSE inbox

HasRoom == Len(inbox) < MaxInbox

DeliverDecision(h) ==
  /\ handler[h].pc = "recorded"
  /\ HasRoom
  /\ pc # "done"
  /\ Accept([user |-> handler[h].user, decision |-> handler[h].decision])
  /\ Answer(h)
  /\ UNCHANGED <<recordVars, frozen, pc, needs, seen, approvals, outcome, attempts, chainVars, result>>

(* A signal that did not come from the gateway's decide().                 *)
ForeignSignal(s) ==
  /\ pc \in {"open", "waiting"}
  /\ HasRoom
  /\ Accept(s)
  /\ UNCHANGED <<recordVars, gatewayVars, pc, needs, seen, approvals, outcome, attempts, chainVars, result>>

IgnoredButNotRepeats(s) ==
  \/ s.user = NoUser
  \/ s.user = initiator
  \/ s.decision = "unknown"

IgnoredButNotInitiator(s) ==
  \/ s.user = NoUser
  \/ s.user \in seen
  \/ s.decision = "unknown"

(* applyDecision: what the workflow does not count.                        *)
Ignored(s) ==
  \/ s.user = NoUser
  \/ s.user = initiator
  \/ s.user \in seen
  \/ s.decision = "unknown"

ReceiveDecision ==
  /\ pc = "waiting"
  /\ inbox # <<>>
  /\ inbox' = Tail(inbox)
  /\ LET s == Head(inbox) IN
       \/ /\ Ignored(s)
          /\ UNCHANGED <<pc, seen, approvals, outcome>>
       \/ /\ ~Ignored(s)
          /\ s.decision = "reject"
          /\ seen' = seen \cup {s.user}
          /\ outcome' = "rejected"
          /\ pc' = "close"
          /\ UNCHANGED approvals
       \/ /\ ~Ignored(s)
          /\ s.decision = "approve"
          /\ seen' = seen \cup {s.user}
          /\ approvals' = approvals + 1
          /\ IF approvals' >= required
             THEN outcome' = "approved" /\ pc' = "recheck"
             ELSE UNCHANGED <<outcome, pc>>
  /\ UNCHANGED <<recordVars, gatewayVars, needs, attempts, chainVars, result>>

TimerFiresWhileUndecided ==
  /\ clock # Early
  /\ inbox = <<>>
  /\ status = "pending"

(* The timer, whole seconds long, fires no earlier than the last second.   *)
(* The selector prefers a signal that is already there.                    *)
TimerFires ==
  /\ clock # Early
  /\ inbox = <<>>

WindowCloses ==
  /\ pc = "waiting"
  /\ TimerFires
  /\ outcome' = "expired"
  /\ pc' = "close"
  /\ UNCHANGED <<recordVars, gatewayVars, needs, inbox, seen, approvals, attempts, chainVars, result>>

RecordDoesNotObject == status # "rejected"

(* The workflow's count is necessary, not sufficient: the record decides.  *)
RecordedApproved ==
  /\ status = "approved"
  /\ Cardinality(Approvers \ {initiator}) >= required

GetRecordedApprovalStatus ==
  /\ pc = "recheck"
  /\ Advance("close")
  /\ outcome' = IF RecordedApproved THEN "approved" ELSE "rejected"
  /\ UNCHANGED <<recordVars, gatewayVars, needs, inbox, seen, approvals, chainVars>>

(* CloseApprovalRequest writes only expiry and rejection; an approved      *)
(* request was closed by its last decision.                                *)
CloseApprovalRequest ==
  /\ pc = "close"
  /\ IF outcome = "approved" THEN UNCHANGED recordVars ELSE CloseRequest(outcome)
  /\ \/ Advance("sign") /\ outcome = "approved"
     \/ Finish("denied") /\ outcome # "approved"
     \/ AttemptLost
  /\ UNCHANGED <<gatewayVars, needs, approvalVars, chainVars>>

-----------------------------------------------------------------------------
(* Every attempt of SignTransaction makes a signature of its own; the      *)
(* workflow keeps the one whose result it received.                        *)
SignTransaction ==
  /\ pc = "sign"
  /\ signs' = signs + 1
  /\ \/ Advance("broadcast") /\ tx' = signs'
     \/ AttemptLost /\ UNCHANGED tx
  /\ UNCHANGED <<recordVars, gatewayVars, needs, approvalVars, network>>

BroadcastTransactionSignsAgain ==
  /\ pc = "broadcast"
  /\ signs' = signs + 1
  /\ tx' = signs'
  /\ network' = network \cup {tx'}
  /\ Advance("monitor") \/ AttemptLost
  /\ UNCHANGED <<recordVars, gatewayVars, needs, approvalVars>>

BroadcastTransaction ==
  /\ pc = "broadcast"
  /\ network' = network \cup {tx}
  /\ Advance("monitor") \/ AttemptLost
  /\ UNCHANGED <<recordVars, gatewayVars, needs, approvalVars, signs, tx>>

MonitorTransaction ==
  /\ pc = "monitor"
  /\ Finish("confirmed") \/ Finish("failed")
  /\ UNCHANGED <<recordVars, gatewayVars, needs, approvalVars, chainVars>>

WorkerNext ==
  \/ CheckPolicy
  \/ OpenApprovalRequest
  \/ ReceiveDecision
  \/ WindowCloses
  \/ GetRecordedApprovalStatus
  \/ CloseApprovalRequest
  \/ SignTransaction
  \/ BroadcastTransaction
  \/ MonitorTransaction
  \/ AttemptFails

Next ==
  \/ WorkerNext
  \/ \E h \in Handler : DeliverDecision(h)
  \/ \E s \in Foreign : ForeignSignal(s)
  \/ GatewayNext /\ UNCHANGED workflowVars

Spec == Init /\ [][Next]_vars

(* Temporal keeps offering the workflow's tasks to workers, and time       *)
(* passes. Nothing is assumed of people, of the gateway or of the freeze.  *)
FairSpec ==
  /\ Spec
  /\ WF_vars(WorkerNext)
  /\ WF_vars(Tick /\ UNCHANGED <<gatewayVars, workflowVars>>)

-----------------------------------------------------------------------------
(* Properties *)

Verdict ==
  CASE status = "approved"              -> "approved"
    [] status \in {"rejected", "expired"} -> "refused"
    [] OTHER                            -> "undecided"

(* A settlement implements FourEyes: its record of decisions is the vote,  *)
(* and it has moved once SignTransaction has produced a signature.         *)
Promise == INSTANCE FourEyes WITH
  waived <- needs = "nothing", quorum <- required, votes <- Approvers,
  verdict <- Verdict, moved <- signs > 0

(* The settlement implements what the approval machinery promises.         *)
PromiseKept == Promise!Spec

(* "Before returning approved it re-reads the outcome the database         *)
(* recorded, and both must agree": where the policy asks for approval, no  *)
(* signature exists unless the record is approved by a quorum of people    *)
(* other than the initiator, whatever signals reached the workflow.        *)
NoSignatureWithoutQuorum ==
  signs > 0 /\ needs = "approval" =>
    /\ status = "approved"
    /\ Cardinality(Approvers \ {initiator}) >= required
    /\ required >= 2

(* Why that holds, as an inductive invariant. The record: decisions are    *)
(* never the initiator's, and approved means a quorum of them.             *)
RecordInv ==
  /\ status = "none" => required = 0 /\ decision = [u \in User |-> "none"]
  /\ status # "none" => required \in Quorum
  /\ \A u \in User : decision[u] # "none" => u # initiator
  /\ status = "approved" => Cardinality(Approvers) >= required

(* The workflow: a request exists exactly where the policy asked for one,  *)
(* nothing is signed before the approval step is over, and past it the     *)
(* record is approved.                                                     *)
StageInv ==
  /\ needs = "unknown" => signs = 0
  /\ needs # "approval" => status = "none"
  /\ pc = "policy" => needs = "unknown"
  /\ pc \in {"open", "waiting", "recheck", "close"} => needs = "approval" /\ signs = 0
  /\ pc \in {"waiting", "recheck", "close"} => status # "none"
  /\ pc \in {"sign", "broadcast", "monitor"} => needs # "unknown"
  /\ pc = "close" /\ outcome = "approved" => status = "approved"
  /\ needs = "approval" /\ (pc \in {"sign", "broadcast", "monitor"} \/ signs > 0) => status = "approved"

(* The order of the workflow's steps and the state of the record agree at  *)
(* every point, also between an activity's effect and its result.          *)
StepsAgreeWithRecord == RecordInv /\ StageInv

(* A settlement that ends other than by an activity error leaves no        *)
(* request open: nobody can go on deciding about a transfer that was       *)
(* denied, and a signed one was approved first.                            *)
EndedSettlementClosesItsRequest ==
  pc = "done" /\ result # "error" => status # "pending"

(* Each person counts once in the workflow and the initiator not at all,   *)
(* however often a decision is delivered.                                  *)
EachPersonCountsOnce ==
  /\ initiator \notin seen
  /\ approvals <= Cardinality(seen)
  /\ pc = "waiting" => approvals < required

(* Retried activities never put two different signed transactions of one   *)
(* settlement on the network: only the signature the workflow holds is     *)
(* ever broadcast, and it is not replaced.                                 *)
OneTransactionOnNetwork ==
  /\ Cardinality(network) <= 1
  /\ network # {} => network = {tx}

(* The record is append-only: a closed request never reopens or changes    *)
(* its outcome, a decision once made stays, and the quorum is fixed when   *)
(* the request opens, whoever races with the workflow's own close.         *)
RecordIsFinal ==
  [][ /\ status \in ClosedStatus => status' = status
      /\ status # "none" => required' = required
      /\ \A u \in User : decision[u] # "none" => decision'[u] = decision[u] ]_vars

(* What decide() tells the workflow is what the database recorded: every   *)
(* decision on its way or counted is that person's row, so the workflow    *)
(* rejects only what the record says is rejected and its recheck finds     *)
(* what it counted. A request whose insert was refused (the role was taken *)
(* away, the window closed, another decision was made before) tells it     *)
(* nothing. Signals of other clients are not decide()'s.                   *)
WorkflowHearsTheRecord ==
  Foreign = {} =>
    /\ \A h \in Handler : handler[h].pc = "recorded" => decision[handler[h].user] = handler[h].decision
    /\ \A i \in DOMAIN inbox : decision[inbox[i].user] = inbox[i].decision
    /\ seen \subseteq {u \in User : decision[u] # "none"}
    /\ outcome = "rejected" => status = "rejected"
    /\ pc = "recheck" => RecordedApproved

(* Every settlement comes to an end: an approval nobody decides runs into  *)
(* its timer, and every activity either succeeds or runs out of attempts.  *)
SettlementEnds == <>(pc = "done")

(* What recordDecision's comment says of a retried request: "if this       *)
(* person already made this exact decision, returns { alreadyRecorded:     *)
(* true } rather than a conflict".                                         *)
SameDecisionNeverConflicts ==
  [][ \A h \in Handler :
        RefuseConflict(h) => decision[handler[h].user] # handler[h].decision ]_vars

(* What migration 029 says of a freeze: "while set, nothing the            *)
(* organisation owns is signed, from any path (console, API key, agent,    *)
(* settlement decisions)".                                                 *)
FrozenSignsNothing == [][ signs' # signs => ~frozen ]_vars
=============================================================================
