--------------------------- MODULE NativeTransfers ---------------------------
(***************************************************************************)
(* A transfer the gateway signs itself and that needs approval: its row of *)
(* pending_transfers, what the decide() handler does once a decision is    *)
(* recorded (TransfersService.onDecision), an admin's retry, and the       *)
(* execution they start, which signs under the idempotency key             *)
(* approval:<id> (SigningRequests) and broadcasts.                         *)
(*                                                                         *)
(* A run is the part of a decide() or retry call that deals with the       *)
(* transfer. The signing call a run makes is call[r].                      *)
(***************************************************************************)
EXTENDS DecisionGateway, SigningRequests

CONSTANTS
  Admin,         \* retry calls in flight at one time
  Kind           \* kinds of transfer, of "evm", "fresh" and "custodian"

ASSUME TransferAssumption ==
  /\ Caller = Handler \cup Admin
  /\ Handler \cap Admin = {}
  /\ Kind \subseteq {"evm", "fresh", "custodian"}
  /\ Digest # {}

VARIABLES
  kind,          \* pending_transfers.kind; "fresh" is bitcoin, solana and cosmos
  transfer,      \* pending_transfers.status; "none" before the row exists
  prepared,      \* pending_transfers.prepared: the EVM transaction chosen
  run,           \* the progress of each run
  sent           \* transactions (or custodian orders) accepted outside

transferVars == <<kind, transfer, prepared, run, sent>>
vars == <<recordVars, gatewayVars, signingVars, transferVars>>

NoRun == [pc |-> "idle", view |-> "none", digest |-> NoDigest]

RunLabel == {"decided", "claim", "claimed", "checks", "signing", "broadcast", "complete", "failed"}
Lifecycle == {"awaiting_approval", "executing", "completed", "failed", "rejected", "expired"}

TransferTypeOK ==
  /\ kind \in Kind
  /\ transfer \in Lifecycle \cup {"none"}
  /\ prepared \in Digest \cup {NoDigest}
  /\ run \in [Caller -> [pc : RunLabel, view : {"none", "pending"} \cup ClosedStatus,
                         digest : Digest \cup {NoDigest}] \cup {NoRun}]
  /\ sent \subseteq Digest

TransferInit ==
  /\ kind \in Kind
  /\ transfer = "none"
  /\ prepared = NoDigest
  /\ run = [r \in Caller |-> NoRun]
  /\ sent = {}

TypeOK == RecordTypeOK /\ GatewayTypeOK /\ SigningTypeOK /\ TransferTypeOK
Init == RecordInit /\ GatewayInit /\ SigningInit /\ TransferInit

RunAt(r, label) == run[r].pc = label
RunTo(r, label) == run' = [run EXCEPT ![r].pc = label]

(* The run is over and its caller is answered.                             *)
EndRun(r) ==
  /\ run' = [run EXCEPT ![r] = NoRun]
  /\ handler' = [h \in Handler |-> IF h = r THEN Idle ELSE handler[h]]

(* transitionTransfer: whether it applies is the row's status, and for the *)
(* first claim the trigger's own look at the approval.                     *)
Transition(from, to) == transfer' = IF transfer = from THEN to ELSE transfer

-----------------------------------------------------------------------------
(* park: the request and the transfer are opened in one transaction.       *)
Park ==
  /\ transfer = "none"
  /\ \E n \in Quorum : OpenRequest(n)
  /\ transfer' = "awaiting_approval"
  /\ UNCHANGED <<gatewayVars, signingVars, kind, prepared, run, sent>>

ExpireStaleWhateverDecided ==
  IF clock = Expired
  THEN CloseRequest("expired") /\ Transition("awaiting_approval", "expired")
  ELSE UNCHANGED <<recordVars, transfer>>

(* expireStaleTransfers, the first thing any read of requests does.        *)
ExpireStale ==
  IF status = "pending" /\ clock = Expired
  THEN CloseRequest("expired") /\ Transition("awaiting_approval", "expired")
  ELSE UNCHANGED <<recordVars, transfer>>

(* recordDecision ends with get(): what the rest of decide() acts on.      *)
ReadBack(h) ==
  /\ handler[h].pc = "recorded"
  /\ run[h] = NoRun
  /\ ExpireStale
  /\ run' = [run EXCEPT ![h] = [pc |-> "decided", view |-> status', digest |-> NoDigest]]
  /\ UNCHANGED <<gatewayVars, signingVars, kind, prepared, sent>>

(* Someone lists or opens requests.                                        *)
ReadRequests ==
  /\ transfer # "none"
  /\ ExpireStale
  /\ UNCHANGED <<gatewayVars, signingVars, kind, prepared, run, sent>>

OnDecisionUnlessApproved(h) ==
  /\ RunAt(h, "decided")
  /\ \/ /\ run[h].view # "approved"
        /\ Transition("awaiting_approval", run[h].view)
        /\ EndRun(h)
     \/ /\ run[h].view = "approved"
        /\ RunTo(h, "claim")
        /\ UNCHANGED <<transfer, handler>>
  /\ UNCHANGED <<recordVars, frozen, signingVars, kind, prepared, sent>>

OnDecision(h) ==
  /\ RunAt(h, "decided")
  /\ \/ /\ run[h].view \in {"rejected", "expired"}
        /\ Transition("awaiting_approval", run[h].view)
        /\ EndRun(h)
     \/ /\ run[h].view = "pending"
        /\ EndRun(h)
        /\ UNCHANGED transfer
     \/ /\ run[h].view = "approved"
        /\ RunTo(h, "claim")
        /\ UNCHANGED <<transfer, handler>>
  /\ UNCHANGED <<recordVars, frozen, signingVars, kind, prepared, sent>>

(* retry acts only on a transfer it reads as failed.                       *)
Retry(a) ==
  /\ run[a] = NoRun
  /\ transfer = "failed"
  /\ RunTo(a, "claim")
  /\ UNCHANGED <<recordVars, gatewayVars, signingVars, kind, transfer, prepared, sent>>

ClaimFrom(r) == IF r \in Admin THEN "failed" ELSE "awaiting_approval"

ClaimableFromAny(r) ==
  /\ transfer \in {ClaimFrom(r), "executing"}
  /\ status = "approved"

(* execute: taking "executing" is the claim. The row has to be where the   *)
(* caller found it; the trigger looks at the approval for the first one.   *)
Claimable(r) ==
  /\ transfer = ClaimFrom(r)
  /\ transfer = "awaiting_approval" => status = "approved"

Claim(r) ==
  /\ RunAt(r, "claim")
  /\ IF Claimable(r)
     THEN /\ transfer' = "executing"
          /\ RunTo(r, "claimed")
          /\ UNCHANGED handler
     ELSE /\ EndRun(r)
          /\ UNCHANGED transfer
  /\ UNCHANGED <<recordVars, frozen, signingVars, kind, prepared, sent>>

-----------------------------------------------------------------------------
TheOrder == CHOOSE d \in Digest : TRUE

MaySignAnew(d) == kind = "custodian" => d = TheOrder

(* What the run will sign. EVM nonce and fees are chosen once and saved;   *)
(* bitcoin, solana and cosmos build the transaction anew at every run; a   *)
(* custodian is sent the same order under the same key.                    *)
MaySign(d) ==
  /\ kind = "evm" /\ prepared # NoDigest => d = prepared
  /\ kind = "custodian" => d = TheOrder

Prepare(r) ==
  /\ RunAt(r, "claimed")
  /\ \E d \in Digest :
       /\ MaySign(d)
       /\ prepared' = IF kind = "evm" THEN d ELSE prepared
       /\ run' = [run EXCEPT ![r].pc = "checks", ![r].digest = d]
  /\ UNCHANGED <<recordVars, gatewayVars, signingVars, kind, transfer, sent>>

(* The freeze is asked again when the transfer runs.                       *)
CheckControls(r) ==
  /\ RunAt(r, "checks")
  /\ IF frozen THEN RunTo(r, "failed") /\ UNCHANGED signingVars
     ELSE IF kind = "custodian" THEN RunTo(r, "broadcast") /\ UNCHANGED signingVars
     ELSE RunTo(r, "signing") /\ Call(r, run[r].digest)
  /\ UNCHANGED <<recordVars, gatewayVars, kind, transfer, prepared, sent>>

Sign(r) ==
  /\ RunAt(r, "signing")
  /\ SigningStep(r)
  /\ UNCHANGED <<recordVars, gatewayVars, transferVars>>

SigningAnsweredIsSent(r) ==
  /\ RunAt(r, "signing")
  /\ \/ At(r, "signed") /\ RunTo(r, "complete")
     \/ At(r, "refused") /\ RunTo(r, "failed")
  /\ EndCall(r)
  /\ UNCHANGED <<recordVars, gatewayVars, kind, transfer, prepared, sent>>

SigningAnswered(r) ==
  /\ RunAt(r, "signing")
  /\ \/ At(r, "signed") /\ RunTo(r, "broadcast")
     \/ At(r, "refused") /\ RunTo(r, "failed")
  /\ EndCall(r)
  /\ UNCHANGED <<recordVars, gatewayVars, kind, transfer, prepared, sent>>

(* The node takes the transaction; its answer may be lost.                 *)
Broadcast(r) ==
  /\ RunAt(r, "broadcast")
  /\ sent' = sent \cup {run[r].digest}
  /\ RunTo(r, "complete") \/ RunTo(r, "failed")
  /\ UNCHANGED <<recordVars, gatewayVars, signingVars, kind, transfer, prepared>>

(* Any other exception of the run: a policy, travel-rule, RPC, node or     *)
(* database error.                                                         *)
RunFails(r) ==
  /\ run[r].pc \in {"claimed", "checks", "broadcast", "complete"}
  /\ RunTo(r, "failed")
  /\ UNCHANGED <<recordVars, gatewayVars, signingVars, kind, transfer, prepared, sent>>

RecordOutcome(r) ==
  /\ \/ RunAt(r, "complete") /\ Transition("executing", "completed")
     \/ RunAt(r, "failed") /\ Transition("executing", "failed")
  /\ EndRun(r)
  /\ UNCHANGED <<recordVars, frozen, signingVars, kind, prepared, sent>>

(* The gateway process stops; its signing workflow, if any, runs on.       *)
RunStops(r) ==
  /\ run[r] # NoRun
  /\ EndRun(r)
  /\ call' = [call EXCEPT ![r] = NoCall]
  /\ UNCHANGED <<recordVars, frozen, row, ceremony, signed, kind, transfer, prepared, sent>>

RunNext(r) ==
  \/ Claim(r)
  \/ Prepare(r)
  \/ CheckControls(r)
  \/ Sign(r)
  \/ SigningAnswered(r)
  \/ Broadcast(r)
  \/ RunFails(r)
  \/ RecordOutcome(r)

Ceremony == CeremonyStep /\ UNCHANGED <<recordVars, gatewayVars, transferVars>>

(* decide() is past recording once its run has begun, so the gateway's own *)
(* steps are those of handlers without a run.                              *)
Gateway ==
  /\ GatewayNext
  /\ \A h \in Handler : run[h] # NoRun => handler'[h] = handler[h]
  /\ UNCHANGED <<signingVars, transferVars>>

Next ==
  \/ Park
  \/ ReadRequests
  \/ \E h \in Handler : ReadBack(h) \/ OnDecision(h)
  \/ \E a \in Admin : Retry(a)
  \/ \E r \in Caller : RunNext(r) \/ RunStops(r)
  \/ Ceremony
  \/ Gateway

Spec == Init /\ [][Next]_vars

(* A run that is alive goes on, a ceremony ends, and an admin retries a    *)
(* transfer that stays failed. Nothing is assumed of the approvers.        *)
FairSpec ==
  /\ Spec
  /\ \A r \in Caller : WF_vars(RunNext(r))
  /\ WF_vars(Ceremony)
  /\ \A a \in Admin : WF_vars(Retry(a))

-----------------------------------------------------------------------------
(* Properties *)

Verdict ==
  CASE status = "approved"              -> "approved"
    [] status \in {"rejected", "expired"} -> "refused"
    [] OTHER                            -> "undecided"

(* A parked transfer implements FourEyes: it has moved once it is signed   *)
(* or, out of a custodian, ordered.                                        *)
Promise == INSTANCE FourEyes WITH
  waived <- FALSE, quorum <- required, votes <- Approvers,
  verdict <- Verdict, moved <- signed \cup sent # {}

(* The gateway's own transfers keep what the approval machinery promises.  *)
PromiseKept == Promise!Spec

(* "A decision delivered twice, or a retry while a run is in flight,       *)
(* cannot send the transfer twice": over all runs, retries and crashes, at *)
(* most one transaction leaves for one approval.                           *)
SentAtMostOnce == Cardinality(sent) <= 1

(* The claim is exclusive: one run at a time works on the transfer, and    *)
(* only while the row says it is executing.                                *)
OneRunAtATime ==
  LET Working == {r \in Caller : run[r].pc \in RunLabel \ {"decided", "claim"}}
  IN  /\ Cardinality(Working) <= 1
      /\ Working # {} => transfer = "executing"

(* The two rows agree: a transfer is executed only for an approved         *)
(* request, and is never rejected or expired under an approved one.        *)
TransferFollowsRequest ==
  /\ transfer \in {"executing", "completed", "failed"} => status = "approved"
  /\ transfer \in {"rejected", "expired"} => status = transfer
  /\ transfer = "none" <=> status = "none"

(* A transfer reported as completed has been sent.                         *)
CompletedWasSent == transfer = "completed" => sent # {}

(* "A retry after a failure signs the same transaction rather than a       *)
(* different one under the same idempotency key": an EVM run never meets a *)
(* signing row for another transaction.                                    *)
EvmRetrySignsTheSame ==
  [][ kind = "evm" => \A r \in Caller : ~FoundDifferent(r) ]_vars

(* What decide()'s comment says of an execution failure, for every kind:   *)
(* it "can be retried", so a retry is not turned away because of the row   *)
(* the failed run left.                                                    *)
RetryIsNotTurnedAway ==
  [][ \A a \in Admin : ~FoundDifferent(a) ]_vars

(* What execute()'s comment relies on, "a run repeated after a crash": a   *)
(* transfer that is executing comes to an end, or to a state from which    *)
(* it can be run again.                                                    *)
ExecutingEnds == transfer = "executing" ~> transfer \in {"completed", "failed"}
=============================================================================
