-------------------------- MODULE SettlementProofs --------------------------
(***************************************************************************)
(* Proofs about SettlementWorkflow, for every set of people, handlers and  *)
(* foreign signals, every quorum and every number of attempts.             *)
(***************************************************************************)
EXTENDS SettlementWorkflow, TLAPS

(* A transaction is broadcast only when the workflow holds a signature.    *)
HoldsSignature == pc \in {"broadcast", "monitor"} => tx # 0

TypeInv == TypeOK /\ HoldsSignature

-----------------------------------------------------------------------------
(* The record's actions keep its types: opening takes the quorum from the  *)
(* policy, a decision adds one entry and moves the status.                 *)
LEMMA OpenTyped ==
  ASSUME RecordTypeOK, NEW n \in Quorum, OpenRequest(n)
  PROVE  RecordTypeOK'
BY DEF RecordTypeOK, OpenRequest, ClosedStatus, Decisions

LEMMA InsertTyped ==
  ASSUME RecordTypeOK, NEW u \in User, NEW d \in Decisions, NEW now, InsertDecision(u, d, now)
  PROVE  RecordTypeOK'
BY DEF RecordTypeOK, InsertDecision, ClosedStatus, Decisions

LEMMA CloseTyped ==
  ASSUME RecordTypeOK, NEW s \in ClosedStatus, CloseRequest(s)
  PROVE  RecordTypeOK'
BY DEF RecordTypeOK, CloseRequest, ClosedStatus

LEMMA TickTyped == RecordTypeOK /\ Tick => RecordTypeOK'
BY DEF RecordTypeOK, Tick, Clock, Early, LastSecond, Expired

LEMMA EligibilityTyped ==
  ASSUME RecordTypeOK, NEW u \in User, ChangeEligibility(u)
  PROVE  RecordTypeOK'
BY DEF RecordTypeOK, ChangeEligibility

LEMMA RecordStutterTyped == RecordTypeOK /\ UNCHANGED recordVars => RecordTypeOK'
BY DEF RecordTypeOK, recordVars, Approvers

(* A handler's slot always holds a request in a known state, or none.      *)
LEMMA GatewayTyped ==
  ASSUME RecordTypeOK, GatewayTypeOK, GatewayNext
  PROVE  RecordTypeOK' /\ GatewayTypeOK'
<1>1. ASSUME NEW h \in Handler, NEW u \in User, NEW d \in Decisions, Admit(h, u, d)
      PROVE  RecordTypeOK' /\ GatewayTypeOK'
  BY <1>1, RecordStutterTyped DEF GatewayTypeOK, Admit, HandlerState, Clock, Early
<1>2. ASSUME NEW h \in Handler, BeginInsert(h)
      PROVE  RecordTypeOK' /\ GatewayTypeOK'
  <2>1. handler[h] # Idle
    BY <1>2 DEF BeginInsert, Idle
  <2>2. handler[h] \in HandlerState
    BY <2>1 DEF GatewayTypeOK
  <2> QED BY <1>2, <2>2, RecordStutterTyped DEF GatewayTypeOK, BeginInsert, HandlerState, RecordTypeOK
<1>3. ASSUME NEW h \in Handler, handler[h].pc = "begun"
      PROVE  /\ handler[h] \in HandlerState
             /\ Goto(h, "recorded") => handler' \in [Handler -> HandlerState \cup {Idle}]
  <2>1. handler[h] # Idle
    BY <1>3 DEF Idle
  <2>2. handler[h] \in HandlerState
    BY <2>1 DEF GatewayTypeOK
  <2> QED BY <2>2 DEF GatewayTypeOK, Goto, HandlerState
<1>4. ASSUME NEW h \in Handler, RecordDecision(h)
      PROVE  RecordTypeOK' /\ GatewayTypeOK'
  <2>1. handler[h].user \in User /\ handler[h].decision \in Decisions
    BY <1>3, <1>4 DEF RecordDecision, HandlerState
  <2> QED BY <1>3, <1>4, <2>1, InsertTyped DEF GatewayTypeOK, RecordDecision
<1>5. ASSUME NEW h \in Handler, AlreadyRecorded(h)
      PROVE  RecordTypeOK' /\ GatewayTypeOK'
  BY <1>3, <1>5, RecordStutterTyped DEF GatewayTypeOK, AlreadyRecorded
<1>6. ASSUME NEW h \in Handler, RefuseConflict(h) \/ RefuseForbidden(h) \/ HandlerStops(h)
      PROVE  RecordTypeOK' /\ GatewayTypeOK'
  BY <1>6, RecordStutterTyped
  DEF GatewayTypeOK, RefuseConflict, RefuseForbidden, HandlerStops, Answer
<1>7. ASSUME NEW b \in BOOLEAN, SetFreeze(b)
      PROVE  RecordTypeOK' /\ GatewayTypeOK'
  BY <1>7, RecordStutterTyped DEF GatewayTypeOK, SetFreeze
<1>8. ASSUME NEW u \in User, ChangeEligibility(u), UNCHANGED gatewayVars
      PROVE  RecordTypeOK' /\ GatewayTypeOK'
  BY <1>8, EligibilityTyped DEF GatewayTypeOK, gatewayVars
<1>9. CASE Tick /\ UNCHANGED gatewayVars
  BY <1>9, TickTyped DEF GatewayTypeOK, gatewayVars
<1> QED BY <1>1, <1>2, <1>4, <1>5, <1>6, <1>7, <1>8, <1>9 DEF GatewayNext

-----------------------------------------------------------------------------
(* Recording, retrying and giving up keep the workflow's bookkeeping typed *)
LEMMA ActivityTyped ==
  ASSUME WorkflowTypeOK
  PROVE  /\ \A label \in Activity \cup {"waiting", "done"} : Advance(label) =>
              pc' = label /\ attempts' \in 0..(MaxAttempts - 1) /\ result' = result
         /\ \A r : Finish(r) => pc' = "done" /\ attempts' \in 0..(MaxAttempts - 1) /\ result' = r
         /\ AttemptLost =>
              /\ pc' \in {pc, "done"}
              /\ attempts' \in 0..(MaxAttempts - 1)
              /\ result' \in {result, "signed", "broadcasted", "error"}
BY WorkflowAssumption DEF WorkflowTypeOK, Advance, Finish, AttemptLost, GiveUpResult

(* Every step of the workflow keeps the types, and holds a signature where *)
(* it is about to broadcast.                                               *)
LEMMA WorkerTyped ==
  ASSUME TypeInv, WorkerNext
  PROVE  TypeInv'
<1> USE DEF TypeInv, TypeOK
<1>r. UNCHANGED recordVars => RecordTypeOK'
  BY RecordStutterTyped
<1>g. UNCHANGED gatewayVars => GatewayTypeOK'
  BY DEF GatewayTypeOK, gatewayVars
<1>1. CASE CheckPolicy
  BY <1>1, <1>r, <1>g, ActivityTyped
  DEF CheckPolicy, WorkflowTypeOK, HoldsSignature, approvalVars, chainVars, Activity
<1>2. CASE OpenApprovalRequest
  <2>1. RecordTypeOK'
    BY <1>2, <1>r, OpenTyped DEF OpenApprovalRequest, OpenOnce
  <2> QED BY <1>2, <2>1, <1>g, ActivityTyped
      DEF OpenApprovalRequest, OpenOnce, WorkflowTypeOK, HoldsSignature, approvalVars, chainVars, Activity
<1>3. CASE ReceiveDecision
  <2>1. Head(inbox) \in Signal /\ inbox' \in Seq(Signal)
    BY <1>3 DEF ReceiveDecision, WorkflowTypeOK
  <2>2. ~Ignored(Head(inbox)) => Head(inbox).user \in User
    BY <2>1 DEF Ignored, Signal
  <2> QED BY <1>3, <2>1, <2>2, <1>r, <1>g
      DEF ReceiveDecision, WorkflowTypeOK, HoldsSignature, chainVars, ClosedStatus, Activity
<1>4. CASE WindowCloses
  BY <1>4, <1>r, <1>g DEF WindowCloses, WorkflowTypeOK, HoldsSignature, chainVars, ClosedStatus, Activity
<1>5. CASE GetRecordedApprovalStatus
  BY <1>5, <1>r, <1>g, ActivityTyped
  DEF GetRecordedApprovalStatus, RecordedApproved, WorkflowTypeOK, HoldsSignature, chainVars, ClosedStatus, Activity
<1>6. CASE CloseApprovalRequest
  <2>1. RecordTypeOK'
    <3>1. CASE outcome = "approved" \/ outcome = "pending"
      BY <1>6, <3>1, <1>r DEF CloseApprovalRequest, CloseRequest, RecordTypeOK
    <3>2. CASE outcome \in {"rejected", "expired"}
      BY <1>6, <3>2, CloseTyped DEF CloseApprovalRequest, ClosedStatus
    <3> QED BY <3>1, <3>2 DEF WorkflowTypeOK, ClosedStatus
  <2> QED BY <1>6, <2>1, <1>g, ActivityTyped
      DEF CloseApprovalRequest, WorkflowTypeOK, HoldsSignature, approvalVars, chainVars, Activity
<1>7. CASE SignTransaction
  BY <1>7, <1>r, <1>g, ActivityTyped
  DEF SignTransaction, WorkflowTypeOK, HoldsSignature, approvalVars, Activity
<1>8. CASE BroadcastTransaction
  BY <1>8, <1>r, <1>g, ActivityTyped
  DEF BroadcastTransaction, WorkflowTypeOK, HoldsSignature, approvalVars, Activity
<1>9. CASE MonitorTransaction
  BY <1>9, <1>r, <1>g, ActivityTyped
  DEF MonitorTransaction, WorkflowTypeOK, HoldsSignature, approvalVars, chainVars, Activity
<1>10. CASE AttemptFails
  BY <1>10, <1>r, <1>g, ActivityTyped
  DEF AttemptFails, WorkflowTypeOK, HoldsSignature, approvalVars, chainVars, Activity
<1> QED BY <1>1, <1>2, <1>3, <1>4, <1>5, <1>6, <1>7, <1>8, <1>9, <1>10 DEF WorkerNext

(* A signal, from the gateway or from elsewhere, is queued or dropped.     *)
LEMMA DeliveryTyped ==
  ASSUME TypeInv,
         \/ \E h \in Handler : DeliverDecision(h)
         \/ \E s \in Foreign : ForeignSignal(s)
  PROVE  TypeInv'
<1> USE DEF TypeInv, TypeOK
<1>1. ASSUME NEW s \in Signal, Accept(s)
      PROVE  inbox' \in Seq(Signal)
  BY <1>1 DEF Accept, WorkflowTypeOK
<1>2. ASSUME NEW h \in Handler, DeliverDecision(h)
      PROVE  TypeInv'
  <2>1. handler[h] \in HandlerState
    BY <1>2 DEF DeliverDecision, GatewayTypeOK, Idle
  <2>2. [user |-> handler[h].user, decision |-> handler[h].decision] \in Signal
    BY <2>1 DEF HandlerState, Signal
  <2>3. GatewayTypeOK'
    BY <1>2 DEF DeliverDecision, GatewayTypeOK, Answer
  <2> QED BY <1>1, <1>2, <2>2, <2>3, RecordStutterTyped
      DEF DeliverDecision, WorkflowTypeOK, HoldsSignature, chainVars
<1>3. ASSUME NEW s \in Foreign, ForeignSignal(s)
      PROVE  TypeInv'
  <2>1. s \in Signal
    BY WorkflowAssumption
  <2> QED BY <1>1, <1>3, <2>1, RecordStutterTyped
      DEF ForeignSignal, WorkflowTypeOK, GatewayTypeOK, gatewayVars, HoldsSignature, chainVars
<1> QED BY <1>2, <1>3

(* Type correctness of the composed system: whatever people, the gateway,  *)
(* the workflow and its activities do, every variable keeps its type.      *)
THEOREM TypeCorrect == Spec => []TypeOK
<1>1. Init => TypeInv
  <2> SUFFICES ASSUME Init PROVE TypeInv
    OBVIOUS
  <2>1. RecordTypeOK
    BY DEF Init, RecordInit, RecordTypeOK, Clock, Early
  <2>2. GatewayTypeOK
    BY DEF Init, GatewayInit, GatewayTypeOK
  <2>3. WorkflowTypeOK /\ HoldsSignature
    BY WorkflowAssumption DEF Init, WorkflowInit, WorkflowTypeOK, HoldsSignature, Activity
  <2> QED BY <2>1, <2>2, <2>3 DEF TypeInv, TypeOK
<1>2. TypeInv /\ [Next]_vars => TypeInv'
  <2> SUFFICES ASSUME TypeInv, [Next]_vars
               PROVE  TypeInv'
    OBVIOUS
  <2>1. CASE WorkerNext
    BY <2>1, WorkerTyped
  <2>2. CASE (\E h \in Handler : DeliverDecision(h)) \/ (\E s \in Foreign : ForeignSignal(s))
    BY <2>2, DeliveryTyped
  <2>3. CASE GatewayNext /\ UNCHANGED workflowVars
    BY <2>3, GatewayTyped DEF TypeInv, TypeOK, WorkflowTypeOK, HoldsSignature, workflowVars
  <2>4. CASE UNCHANGED vars
    BY <2>4, RecordStutterTyped
    DEF TypeInv, TypeOK, GatewayTypeOK, WorkflowTypeOK, HoldsSignature, vars, gatewayVars, workflowVars
  <2> QED BY <2>1, <2>2, <2>3, <2>4 DEF Next
<1>3. TypeInv => TypeOK
  BY DEF TypeInv
<1> QED BY <1>1, <1>2, <1>3, PTL DEF Spec

-----------------------------------------------------------------------------
(* The record stays sound through a decision: the guard keeps the          *)
(* initiator out, and the status says approved only with a quorum.         *)
LEMMA InsertSound ==
  ASSUME RecordTypeOK, RecordInv, NEW u \in User, NEW d \in Decisions, NEW now, InsertDecision(u, d, now)
  PROVE  RecordInv'
<1>1. status = "pending" /\ u # initiator
  BY DEF InsertDecision, DecisionGuard
<1>2. \A v \in User : decision'[v] # "none" => v # initiator'
  BY <1>1 DEF InsertDecision, RecordInv, RecordTypeOK
<1>3. status' # "none" /\ required' \in Quorum
  BY <1>1 DEF InsertDecision, RecordInv
<1>4. status' = "approved" => Cardinality(Approvers') >= required'
  BY <1>1 DEF InsertDecision, Approvers
<1> QED BY <1>2, <1>3, <1>4 DEF RecordInv

(* The other record steps leave decisions alone, and never approve.        *)
LEMMA OtherRecordStepsSound ==
  ASSUME RecordTypeOK, RecordInv,
         \/ \E n \in Quorum : OpenRequest(n)
         \/ \E s \in {"rejected", "expired"} : CloseRequest(s)
         \/ \E u \in User : ChangeEligibility(u)
         \/ Tick
         \/ UNCHANGED recordVars
  PROVE  RecordInv'
<1>1. /\ decision' = decision
      /\ initiator' = initiator
      /\ Approvers' = Approvers
      /\ status' = "approved" => status = "approved" /\ required' = required
      /\ status' = "none" => status = "none" /\ required' = required
      /\ status' # "none" => required' \in Quorum
  BY DEF RecordInv, OpenRequest, CloseRequest, ChangeEligibility, Tick, recordVars, Approvers
<1> QED BY <1>1 DEF RecordInv

(* The gateway's steps: a decision is taken only while the request is      *)
(* pending, so nothing a workflow past its approval step relies on moves.  *)
LEMMA GatewaySound ==
  ASSUME RecordTypeOK, GatewayTypeOK, RecordInv, GatewayNext
  PROVE  /\ RecordInv'
         /\ status' # status => status = "pending"
         /\ status' # "none" \/ status = "none"
<1>1. ASSUME NEW h \in Handler, RecordDecision(h)
      PROVE  RecordInv' /\ status = "pending" /\ status' # "none"
  <2>1. handler[h] \in HandlerState
    BY <1>1 DEF RecordDecision, GatewayTypeOK, Idle
  <2>2. handler[h].user \in User /\ handler[h].decision \in Decisions
    BY <2>1 DEF HandlerState
  <2> QED BY <1>1, <2>2, InsertSound DEF RecordDecision, InsertDecision, DecisionGuard
<1>2. CASE \E h \in Handler : \/ \E u \in User, d \in Decisions : Admit(h, u, d)
                              \/ BeginInsert(h) \/ AlreadyRecorded(h) \/ RefuseConflict(h)
                              \/ RefuseForbidden(h) \/ HandlerStops(h)
  <2>1. UNCHANGED recordVars
    BY <1>2 DEF Admit, BeginInsert, AlreadyRecorded, RefuseConflict, RefuseForbidden, HandlerStops
  <2> QED BY <2>1, OtherRecordStepsSound DEF recordVars
<1>3. CASE \E b \in BOOLEAN : SetFreeze(b)
  BY <1>3, OtherRecordStepsSound DEF SetFreeze, recordVars
<1>4. CASE (\E u \in User : ChangeEligibility(u)) \/ Tick
  BY <1>4, OtherRecordStepsSound DEF ChangeEligibility, Tick
<1> QED BY <1>1, <1>2, <1>3, <1>4 DEF GatewayNext

(* The workflow's steps, one by one.                                       *)
LEMMA WorkerSound ==
  ASSUME TypeOK, StepsAgreeWithRecord, WorkerNext
  PROVE  StepsAgreeWithRecord'
<1> USE DEF StepsAgreeWithRecord, TypeOK
<1>r. UNCHANGED recordVars => RecordInv' /\ status' = status
  BY OtherRecordStepsSound DEF recordVars
<1>1. CASE CheckPolicy
  BY <1>1, <1>r DEF CheckPolicy, StageInv, Advance, Finish, approvalVars, chainVars
<1>2. CASE OpenApprovalRequest
  <2>1. RecordInv' /\ status' # "none" /\ (status # "none" => status' = status)
    BY <1>2, <1>r, OtherRecordStepsSound DEF OpenApprovalRequest, OpenOnce, OpenRequest
  <2> QED BY <1>2, <2>1
      DEF OpenApprovalRequest, OpenOnce, StageInv, Advance, AttemptLost, Finish, approvalVars, chainVars
<1>3. CASE ReceiveDecision
  BY <1>3, <1>r DEF ReceiveDecision, StageInv, chainVars
<1>4. CASE WindowCloses
  BY <1>4, <1>r DEF WindowCloses, StageInv, chainVars
<1>5. CASE GetRecordedApprovalStatus
  BY <1>5, <1>r DEF GetRecordedApprovalStatus, RecordedApproved, StageInv, Advance, chainVars
<1>6. CASE CloseApprovalRequest
  <2>1. outcome = "approved" => UNCHANGED recordVars
    BY <1>6 DEF CloseApprovalRequest
  <2>2. CASE outcome = "approved"
    BY <1>6, <1>r, <2>1, <2>2
    DEF CloseApprovalRequest, StageInv, Advance, AttemptLost, Finish, approvalVars, chainVars
  <2>3. CASE outcome # "approved"
    <3>1. RecordInv' /\ status' # "none"
      <4>1. status # "none"
        BY <1>6 DEF CloseApprovalRequest, StageInv
      <4>2. CASE outcome \in {"rejected", "expired"}
        BY <1>6, <2>3, <4>1, <4>2, OtherRecordStepsSound DEF CloseApprovalRequest, CloseRequest
      <4>3. CASE outcome = "pending"
        BY <1>6, <2>3, <4>1, <4>3, <1>r DEF CloseApprovalRequest, CloseRequest, recordVars
      <4> QED BY <2>3, <4>2, <4>3 DEF WorkflowTypeOK, ClosedStatus
    <3> QED BY <1>6, <2>3, <3>1
        DEF CloseApprovalRequest, StageInv, Advance, AttemptLost, Finish, approvalVars, chainVars, WorkflowTypeOK
  <2> QED BY <2>2, <2>3
<1>7. CASE SignTransaction
  BY <1>7, <1>r DEF SignTransaction, StageInv, Advance, AttemptLost, Finish, approvalVars, WorkflowTypeOK
<1>8. CASE BroadcastTransaction
  BY <1>8, <1>r DEF BroadcastTransaction, StageInv, Advance, AttemptLost, Finish, approvalVars
<1>9. CASE MonitorTransaction
  BY <1>9, <1>r DEF MonitorTransaction, StageInv, Finish, approvalVars, chainVars
<1>10. CASE AttemptFails
  BY <1>10, <1>r DEF AttemptFails, StageInv, AttemptLost, Finish, approvalVars, chainVars
<1> QED BY <1>1, <1>2, <1>3, <1>4, <1>5, <1>6, <1>7, <1>8, <1>9, <1>10 DEF WorkerNext

(* The inductive invariant holds of the composed system.                   *)
THEOREM StepsAgreeAlways == Spec => []StepsAgreeWithRecord
<1>1. Init => StepsAgreeWithRecord
  BY DEF Init, RecordInit, WorkflowInit, StepsAgreeWithRecord, RecordInv, StageInv
<1>2. TypeOK /\ StepsAgreeWithRecord /\ [Next]_vars => StepsAgreeWithRecord'
  <2> SUFFICES ASSUME TypeOK, StepsAgreeWithRecord, [Next]_vars
               PROVE  StepsAgreeWithRecord'
    OBVIOUS
  <2>1. CASE WorkerNext
    BY <2>1, WorkerSound
  <2>2. CASE (\E h \in Handler : DeliverDecision(h)) \/ (\E s \in Foreign : ForeignSignal(s))
    <3>1. UNCHANGED <<recordVars, pc, needs, outcome, chainVars>>
      BY <2>2 DEF DeliverDecision, ForeignSignal
    <3>2. RecordInv'
      BY <3>1, OtherRecordStepsSound DEF TypeOK, StepsAgreeWithRecord
    <3> QED BY <3>1, <3>2 DEF StepsAgreeWithRecord, StageInv, recordVars, chainVars
  <2>3. CASE GatewayNext /\ UNCHANGED workflowVars
    <3>1. RecordInv' /\ (status' # status => status = "pending") /\ (status' # "none" \/ status = "none")
      BY <2>3, GatewaySound DEF TypeOK, StepsAgreeWithRecord
    <3> QED BY <2>3, <3>1 DEF StepsAgreeWithRecord, StageInv, workflowVars
  <2>4. CASE UNCHANGED vars
    <3>1. RecordInv'
      BY <2>4, OtherRecordStepsSound DEF vars, TypeOK, StepsAgreeWithRecord
    <3> QED BY <2>4, <3>1 DEF StepsAgreeWithRecord, StageInv, vars, recordVars, workflowVars
  <2> QED BY <2>1, <2>2, <2>3, <2>4 DEF Next
<1> QED BY <1>1, <1>2, TypeCorrect, PTL DEF Spec

(* No settlement the policy holds for approval is ever signed unless the   *)
(* database recorded it as approved by a quorum of at least two people,    *)
(* none of them its initiator, whatever signals reached the workflow.      *)
THEOREM NoSignatureWithoutQuorumAlways == Spec => []NoSignatureWithoutQuorum
<1>1. TypeOK /\ StepsAgreeWithRecord => NoSignatureWithoutQuorum
  <2> SUFFICES ASSUME TypeOK, StepsAgreeWithRecord, signs > 0, needs = "approval"
               PROVE  /\ status = "approved"
                      /\ Cardinality(Approvers \ {initiator}) >= required
                      /\ required >= 2
    BY DEF NoSignatureWithoutQuorum
  <2>1. status = "approved"
    BY DEF StepsAgreeWithRecord, StageInv
  <2>2. Approvers \ {initiator} = Approvers
    BY DEF StepsAgreeWithRecord, RecordInv, Approvers
  <2>3. required \in Quorum
    BY <2>1 DEF StepsAgreeWithRecord, RecordInv
  <2> QED BY <2>1, <2>2, <2>3, RecordAssumption DEF StepsAgreeWithRecord, RecordInv, Quorum
<1> QED BY <1>1, TypeCorrect, StepsAgreeAlways, PTL

-----------------------------------------------------------------------------
(* What one step of the system can do to the record.                       *)
LEMMA RecordStep ==
  ASSUME TypeOK, [Next]_vars
  PROVE  \/ UNCHANGED recordVars
         \/ \E n \in Quorum : OpenRequest(n) /\ pc = "open"
         \/ \E u \in User, d \in Decisions, now \in Clock : InsertDecision(u, d, now) /\ UNCHANGED workflowVars
         \/ CloseRequest(outcome) /\ outcome # "approved" /\ pc = "close" /\ UNCHANGED <<needs, signs>>
         \/ (\E u \in User : ChangeEligibility(u)) /\ UNCHANGED workflowVars
         \/ Tick /\ UNCHANGED workflowVars
<1>1. CASE WorkerNext
  BY <1>1 DEF WorkerNext, CheckPolicy, OpenApprovalRequest, OpenOnce, ReceiveDecision, WindowCloses,
     GetRecordedApprovalStatus, CloseApprovalRequest, SignTransaction, BroadcastTransaction,
     MonitorTransaction, AttemptFails, chainVars
<1>2. CASE (\E h \in Handler : DeliverDecision(h)) \/ (\E s \in Foreign : ForeignSignal(s))
  BY <1>2 DEF DeliverDecision, ForeignSignal
<1>3. CASE GatewayNext /\ UNCHANGED workflowVars
  <2>1. ASSUME NEW h \in Handler, RecordDecision(h)
        PROVE  \E u \in User, d \in Decisions, now \in Clock : InsertDecision(u, d, now)
    <3>1. handler[h] \in HandlerState
      BY <2>1 DEF RecordDecision, TypeOK, GatewayTypeOK, Idle
    <3>2. handler[h].user \in User /\ handler[h].decision \in Decisions /\ handler[h].now \in Clock
      BY <3>1 DEF HandlerState
    <3> QED BY <2>1, <3>2 DEF RecordDecision
  <2> QED BY <1>3, <2>1 DEF GatewayNext, Admit, BeginInsert, AlreadyRecorded, RefuseConflict,
         RefuseForbidden, HandlerStops, SetFreeze
<1>4. CASE UNCHANGED vars
  BY <1>4 DEF vars
<1> QED BY <1>1, <1>2, <1>3, <1>4 DEF Next

(* The record is append-only: outcomes, decisions and the quorum never     *)
(* change once set, whoever races with the workflow's own close.           *)
THEOREM RecordIsFinalAlways == Spec => RecordIsFinal
<1> DEFINE Final ==
      /\ status \in ClosedStatus => status' = status
      /\ status # "none" => required' = required
      /\ \A u \in User : decision[u] # "none" => decision'[u] = decision[u]
<1>1. TypeOK /\ [Next]_vars => [Final]_vars
  <2> SUFFICES ASSUME TypeOK, [Next]_vars
               PROVE  Final
    OBVIOUS
  <2> QED BY RecordStep DEF recordVars, OpenRequest, InsertDecision, DecisionGuard, CloseRequest,
             ChangeEligibility, Tick, ClosedStatus, TypeOK, RecordTypeOK
<1> QED BY <1>1, TypeCorrect, PTL DEF Spec, RecordIsFinal

-----------------------------------------------------------------------------
(* A step that leaves the record alone is a signature, the policy's word,  *)
(* or nothing, in the terms of FourEyes.                                   *)
LEMMA QuietStepRefines ==
  ASSUME TypeOK, StepsAgreeWithRecord, [Next]_vars, UNCHANGED recordVars
  PROVE  [Promise!Next]_(Promise!vars)
<1>1. Approvers' = Approvers /\ Verdict' = Verdict /\ initiator' = initiator /\ required' = required
  BY DEF recordVars, Approvers, Verdict
<1>2. CASE UNCHANGED <<needs, signs>>
  BY <1>1, <1>2 DEF Promise!vars
<1>3. CASE CheckPolicy
  <2>1. needs = "unknown" /\ required = 0 /\ signs' = signs
    BY <1>3 DEF CheckPolicy, StepsAgreeWithRecord, StageInv, RecordInv, chainVars
  <2>2. needs' \in {"unknown", "approval", "nothing"}
    BY <1>3, <2>1 DEF CheckPolicy
  <2> QED BY <1>1, <2>1, <2>2 DEF Promise!Next, Promise!Waive, Promise!vars
<1>4. CASE SignTransaction
  <2>1. needs' = needs /\ signs' > 0
    BY <1>4 DEF SignTransaction, TypeOK, WorkflowTypeOK
  <2>2. needs = "nothing" \/ Verdict = "approved"
    BY <1>4 DEF SignTransaction, StepsAgreeWithRecord, StageInv, TypeOK, WorkflowTypeOK, Verdict
  <2> QED BY <1>1, <2>1, <2>2 DEF Promise!Next, Promise!Move
<1>5. CheckPolicy \/ SignTransaction \/ UNCHANGED <<needs, signs>>
  BY DEF Next, vars, WorkerNext, OpenApprovalRequest, OpenOnce, ReceiveDecision, WindowCloses,
     GetRecordedApprovalStatus, CloseApprovalRequest, BroadcastTransaction, MonitorTransaction,
     AttemptFails, DeliverDecision, ForeignSignal, chainVars, workflowVars
<1> QED BY <1>2, <1>3, <1>4, <1>5

(* A decision is a vote if it approves and a refusal if it rejects.        *)
LEMMA DecisionRefines ==
  ASSUME TypeOK, StepsAgreeWithRecord, UNCHANGED workflowVars,
         NEW u \in User, NEW d \in Decisions, NEW now \in Clock, InsertDecision(u, d, now)
  PROVE  Promise!Next
<1>1. /\ status = "pending" /\ u # initiator /\ u \notin Approvers /\ Verdict = "undecided"
      /\ needs' = needs /\ signs' = signs /\ initiator' = initiator /\ required' = required
  BY DEF InsertDecision, DecisionGuard, Approvers, Verdict, workflowVars
<1>2. required # 0
  BY <1>1, RecordAssumption DEF StepsAgreeWithRecord, RecordInv, Quorum
<1>3. CASE d = "approve"
  <2>1. Approvers' = Approvers \cup {u}
    BY <1>3 DEF InsertDecision, Approvers, TypeOK, RecordTypeOK
  <2>2. Verdict' = IF Cardinality(Approvers') >= required THEN "approved" ELSE "undecided"
    BY <1>1, <1>3 DEF InsertDecision, Approvers, Verdict
  <2>3. Promise!Vote(u)
    BY <1>1, <1>2, <2>1, <2>2 DEF Promise!Vote, Promise!Cardinality, Cardinality
  <2> QED BY <2>3 DEF Promise!Next
<1>4. CASE d = "reject"
  <2>1. Approvers' = Approvers
    BY <1>1, <1>4 DEF InsertDecision, Approvers, TypeOK, RecordTypeOK
  <2>2. Verdict' = "refused"
    BY <1>4 DEF InsertDecision, Verdict
  <2> QED BY <1>1, <1>2, <2>1, <2>2 DEF Promise!Next, Promise!Refuse
<1> QED BY <1>3, <1>4 DEF Decisions

(* The other steps that touch the record: asking, refusing, or nothing.    *)
LEMMA RecordStepRefines ==
  ASSUME TypeOK, StepsAgreeWithRecord, [Next]_vars
  PROVE  [Promise!Next]_(Promise!vars)
<1>1. CASE UNCHANGED recordVars
  BY <1>1, QuietStepRefines
<1>2. CASE \E u \in User, d \in Decisions, now \in Clock : InsertDecision(u, d, now) /\ UNCHANGED workflowVars
  BY <1>2, DecisionRefines
<1>3. CASE \E n \in Quorum : OpenRequest(n) /\ pc = "open"
  <2>1. needs = "approval" /\ required = 0 /\ required' \in Quorum
    BY <1>3 DEF OpenRequest, StepsAgreeWithRecord, StageInv, RecordInv
  <2>2. Approvers' = Approvers /\ Verdict' = Verdict /\ initiator' = initiator
    BY <1>3 DEF OpenRequest, Approvers, Verdict
  <2>3. needs' = needs /\ signs' = signs
    BY <1>3 DEF Next, vars, WorkerNext, CheckPolicy, OpenApprovalRequest, OpenOnce, ReceiveDecision, WindowCloses,
       GetRecordedApprovalStatus, CloseApprovalRequest, SignTransaction, BroadcastTransaction,
       MonitorTransaction, AttemptFails, DeliverDecision, ForeignSignal, chainVars, workflowVars
  <2>4. required' \in Nat /\ required' >= 2
    BY <2>1 DEF Quorum
  <2> QED BY <2>1, <2>2, <2>3, <2>4 DEF Promise!Next, Promise!Ask
<1>4. CASE CloseRequest(outcome) /\ outcome # "approved" /\ pc = "close" /\ UNCHANGED <<needs, signs>>
  <2>1. Approvers' = Approvers /\ initiator' = initiator /\ required' = required
    BY <1>4 DEF CloseRequest, Approvers
  <2>2. status # "none"
    BY <1>4 DEF StepsAgreeWithRecord, StageInv
  <2>3. required # 0
    BY <2>2, RecordAssumption DEF StepsAgreeWithRecord, RecordInv, Quorum
  <2>4. Verdict' = Verdict \/ (Verdict = "undecided" /\ Verdict' = "refused")
    BY <1>4, <2>2 DEF CloseRequest, Verdict, TypeOK, RecordTypeOK, WorkflowTypeOK, ClosedStatus
  <2> QED BY <1>4, <2>1, <2>3, <2>4 DEF Promise!Next, Promise!Refuse, Promise!vars
<1>5. CASE ((\E u \in User : ChangeEligibility(u)) \/ Tick) /\ UNCHANGED workflowVars
  BY <1>5 DEF ChangeEligibility, Tick, workflowVars, Approvers, Verdict, Promise!vars
<1> QED BY <1>1, <1>2, <1>3, <1>4, <1>5, RecordStep

(* The settlement, its record and the gateway together implement what the  *)
(* approval machinery promises (FourEyes), for every number of people,     *)
(* handlers, attempts and foreign signals.                                 *)
THEOREM SettlementKeepsPromise == Spec => PromiseKept
<1>1. Init => Promise!Init
  BY DEF Init, RecordInit, WorkflowInit, Promise!Init, Approvers, Verdict
<1>2. TypeOK /\ StepsAgreeWithRecord /\ [Next]_vars => [Promise!Next]_(Promise!vars)
  BY RecordStepRefines
<1> QED BY <1>1, <1>2, TypeCorrect, StepsAgreeAlways, PTL DEF Spec, PromiseKept, Promise!Spec
=============================================================================
