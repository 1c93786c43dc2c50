--------------------------- MODULE DecisionGateway ---------------------------
(***************************************************************************)
(* The gateway's decide() handler, up to the point where the decision is   *)
(* recorded: the role guard, the freeze check, the transaction that        *)
(* inserts the decision, and the answers a repeated or refused decision    *)
(* gets. What happens to a recorded decision differs between settlements   *)
(* (a signal to a workflow) and transfers the gateway signs itself (their  *)
(* execution), and is in the modules that extend this one.                 *)
(*                                                                         *)
(* Every await is a point where other requests run, so a handler is a      *)
(* small program with a pc; several are in flight at once, possibly two    *)
(* for the same person (a resent request).                                 *)
(***************************************************************************)
EXTENDS ApprovalRecord

CONSTANT Handler     \* decision requests in flight at one time

VARIABLES
  handler,       \* the progress of each decision request
  frozen         \* org_controls: the organisation's freeze is set

gatewayVars == <<handler, frozen>>

HandlerState ==
  [pc : {"admitted", "begun", "recorded"}, user : User, decision : Decisions, now : Clock]

\* A slot with no request in it.
Idle == [pc |-> "idle", user |-> NoUser, decision |-> "none", now |-> Early]

GatewayTypeOK ==
  /\ handler \in [Handler -> HandlerState \cup {Idle}]
  /\ frozen \in BOOLEAN

GatewayInit ==
  /\ handler = [h \in Handler |-> Idle]
  /\ frozen = FALSE

Goto(h, label) == handler' = [handler EXCEPT ![h].pc = label]
Answer(h) == handler' = [handler EXCEPT ![h] = Idle]

-----------------------------------------------------------------------------
(* TenantRoleGuard, the freeze check (approvals only: rejecting stays      *)
(* possible) and the step-up. The route names a request that exists.       *)
Admit(h, u, d) ==
  /\ handler[h] = Idle
  /\ status # "none"
  /\ u \in eligible
  /\ d = "approve" => ~frozen
  /\ handler' = [handler EXCEPT ![h] =
       [pc |-> "admitted", user |-> u, decision |-> d, now |-> Early]]
  /\ UNCHANGED <<recordVars, frozen>>

(* withTenant opens the transaction: from here NOW() is the present clock. *)
BeginInsert(h) ==
  /\ handler[h].pc = "admitted"
  /\ handler' = [handler EXCEPT ![h].pc = "begun", ![h].now = clock]
  /\ UNCHANGED <<recordVars, frozen>>

RecordDecision(h) ==
  /\ handler[h].pc = "begun"
  /\ InsertDecision(handler[h].user, handler[h].decision, handler[h].now)
  /\ Goto(h, "recorded")
  /\ UNCHANGED frozen

AlreadyRecordedWhatever(h) ==
  /\ handler[h].pc = "begun"
  /\ DecisionGuard(handler[h].user, handler[h].now)
  /\ decision[handler[h].user] # "none"
  /\ Goto(h, "recorded")
  /\ UNCHANGED <<recordVars, frozen>>

(* The primary key refuses a second row (23505); the same decision again   *)
(* is answered as if it had just been recorded.                            *)
AlreadyRecorded(h) ==
  /\ handler[h].pc = "begun"
  /\ DecisionGuard(handler[h].user, handler[h].now)
  /\ decision[handler[h].user] = handler[h].decision
  /\ Goto(h, "recorded")
  /\ UNCHANGED <<recordVars, frozen>>

(* 409: the request is closed or expired (OFB03, raised before the primary *)
(* key is looked at), or this person decided otherwise.                    *)
RefuseConflict(h) ==
  /\ handler[h].pc = "begun"
  /\ \/ status # "pending"
     \/ handler[h].now = Expired
     \/ /\ DecisionGuard(handler[h].user, handler[h].now)
        /\ decision[handler[h].user] \notin {"none", handler[h].decision}
  /\ Answer(h)
  /\ UNCHANGED <<recordVars, frozen>>

(* 403: the initiator (OFB01), or no longer an active approver (OFB02).    *)
RefuseForbidden(h) ==
  /\ handler[h].pc = "begun"
  /\ status = "pending"
  /\ handler[h].now # Expired
  /\ \/ handler[h].user = initiator
     \/ handler[h].user \notin eligible
  /\ Answer(h)
  /\ UNCHANGED <<recordVars, frozen>>

(* The gateway stops, loses the database or answers with an error between  *)
(* two awaits; what was committed stays.                                   *)
HandlerStops(h) ==
  /\ handler[h] # Idle
  /\ Answer(h)
  /\ UNCHANGED <<recordVars, frozen>>

SetFreeze(b) ==
  /\ frozen # b
  /\ frozen' = b
  /\ UNCHANGED <<recordVars, handler>>

GatewayNext ==
  \/ \E h \in Handler :
       \/ \E u \in User, d \in Decisions : Admit(h, u, d)
       \/ BeginInsert(h)
       \/ RecordDecision(h)
       \/ AlreadyRecorded(h)
       \/ RefuseConflict(h)
       \/ RefuseForbidden(h)
       \/ HandlerStops(h)
  \/ \E b \in BOOLEAN : SetFreeze(b)
  \/ /\ \/ \E u \in User : ChangeEligibility(u)
        \/ Tick
     /\ UNCHANGED gatewayVars
=============================================================================
