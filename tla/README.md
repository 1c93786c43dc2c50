# Verification of the custody platform

TLA+ specifications of how this platform decides about, signs and sends
transfers; the TLC runs that check them on small instances; and TLAPS proofs of
the central results for instances of any size.

## 1. The system

A transfer is asked for at the API gateway, judged by a policy, approved by
people where the policy says so, signed by a threshold ceremony between several
parties, and broadcast. Two paths do this:

* **settlements**: a Temporal workflow (`services/temporal-worker`) runs policy,
  approval, signing, broadcast and monitoring as activities; the gateway
  delivers people's decisions to it as signals;
* **native transfers**: the gateway (`services/api-gateway`) parks the transfer
  in `pending_transfers` and executes it itself when the last decision arrives.

Both share the approval record, two Postgres tables guarded by triggers.

### Inventory

| Part | State | Operations | What makes it hard | What must hold |
|---|---|---|---|---|
| Approval record (migration 023) | request status, quorum, expiry; one decision per person | open, decide, close, expire | concurrent decisions; decision against close | final once closed; approved only by a quorum without the initiator |
| Decision gateway (`approvals/`, `controls/`) | requests in flight, freeze | decide, list, get, retry, freeze | every await is a switch; resent requests; crash after commit | a repeat is recognised; frozen means nothing is signed |
| Settlement workflow | stage, signals, count, attempts | policy, open, receive, expire, recheck, close, sign, broadcast, monitor | at-least-once activities; lost, duplicate, foreign signals; truncated timer | no signature without a quorum; one transaction on the network; it ends |
| Signing requests (`keys/`) | row per idempotency key, workflow per request | look up, create, start, await, record | overlapping calls; dead callers; late writes | one message per key; the row precedes the ceremony |
| Native transfers (`transfers/`) | transfer row, prepared transaction, runs | park, decide, claim, prepare, sign, broadcast, retry, expire | double execution; crash between claim and outcome | sent at most once; follows its request |
| Threshold party (`mpc-party`) | ceremonies, shares, epochs | keygen, sign, reshare, restore, retire | early, late and duplicate round messages; partial completion | all parties hold shares of one key and one epoch |
| Key ceremonies, rotation, balance migration | key and ceremony status | provision, activate, retire, sweep | failure between two activities | one active key; no retired key with funds |
| Membership and policy | roles, quorum | setMember, removeMember, setPolicy | write skew | an admin remains; the quorum can be reached |
| Agents | budget, reservations | reserve, settle, revoke | concurrent and repeated requests | never over budget |
| Sweeps | rules, claims, runs | run, tick | manual against scheduled; crash before the record | one transfer per due rule |
| Billing | periods, invoices, charges | run, collect | overlapping runs; charged but not marked | one invoice per period, one charge per invoice |
| Webhooks | deliveries, attempts | publish, deliver, retry | crash before the row; repeated retries by hand | delivered at least once |
| Settlement service | settlements, trackers | settle, track | broadcast before the record; lost tracker | what was broadcast is recorded |
| Backup and failover | backups, roles of databases | back up, verify, copy, fail over | interrupted copies; two primaries | a verified backup can be restored |

Policy evaluation, the chain signer, compliance, marketplace, the MCP server,
the vault tools, the token contract, the other gateway modules, the apps and the
SDKs are listed in `PROJECT.json` with the reason they are not modelled.

## 2. Modules

| Module | Models |
|---|---|
| `ApprovalRecord` | one row of `approval_requests`, its `approval_decisions`, and the triggers |
| `DecisionGateway` | `decide()` up to the recorded decision, as small programs with a pc |
| `SettlementWorkflow` | `TransactionSettlementWorkflow`, `awaitApprovals` and the activities, composed with the two above |
| `SigningRequests` | `runSigningCeremony` under one idempotency key |
| `NativeTransfers` | a parked transfer, composed with `DecisionGateway` and `SigningRequests` |
| `FourEyes` | the abstract promise: moved only if waived, or approved by a quorum of others |
| `ShareRefresh` | one key's shares at its parties: refresh, sealing, restart, restore, retirement |
| `MCSettlement`, `MCSigning`, `MCNative`, `MCRefresh` | symmetry and constants for TLC |
| `SettlementProofs`, `RefreshProofs` | the proofs |

How the state corresponds to the code:

* `status`, `required`, `decision` are columns; `clock` is the database clock by
  its distance to `expires_at`. It has three values because the code tells three
  times apart: the workflow's timer is truncated to whole seconds and can fire
  in the last second, when the database still takes decisions.
* A database transaction is one step, also with the role row, which the guard
  trigger reads without a lock: a role removed between that read and the commit
  is taken as removed after the decision. `now` in a handler is the clock when its
  transaction began, which is what `NOW()` returns in the guard trigger.
* `pc` of the workflow is the activity in progress. An activity may take effect
  and lose its result; `attempts` counts lost attempts. Workflow code itself is
  replayed by Temporal and does not crash in the model.
* `result` is the status the workflow function returns. It returns "signed" and
  "broadcasted" together with an error.
* Every signature an attempt of `SignTransaction` makes gets a number;
  `network` holds the ones broadcast.
* `row`, `call`, `ceremony` in `SigningRequests` are the `signing_requests` row,
  the calls in flight, and the Temporal workflow. Temporal itself is external:
  it refuses to start a workflow id that is running.
* In `NativeTransfers`, kind "fresh" stands for bitcoin, solana and cosmos,
  which build their transaction anew at each run. A bitcoin transfer signs each
  input under a key of its own; the signature hash of the first input commits to
  the whole transaction, so one signing row stands for all of them.
* In `ShareRefresh`, a share is the polynomial it lies on and the epoch it is
  filed under. `mem` is the share in `m.ceremonies`, `sealed` the one in the
  party's store, `stage` the entry in `m.resharings`. `completeResharing` is
  three steps (status, seal, memory), because the seal is a call to the store
  and other handlers run meanwhile. The resharing rounds are tss-lib's: a party
  ends with a new share only if all parties were running the refresh at once
  from shares of one polynomial. `RestoreCeremony` reads and publishes in two
  steps; `loaded` holds what each restore under way has read, and several may be
  under way at one party, as nothing in the code prevents it. `rolledBack` is a
  history variable: the parties where a restore published over a newer share.
* A quorum is 2 or more, as `setPolicy` and the default make it. The table's
  constraint also allows 1, which no code at this commit writes.

Operators named after another with a suffix (`CloseRequestAnyStatus`,
`FoundFailedAnyMessage`, ...) are faulty variants. No specification uses them;
they are substituted one at a time to confirm that a property notices.

## 3. Runs

| Run | Instance | Shows |
|---|---|---|
| `settlement_decisions` | 3 people, 2 requests in flight, 1 attempt, 2 signals | `EachPersonCountsOnce`, `EndedSettlementClosesItsRequest`, `RecordIsFinal`, `WorkflowHearsTheRecord` |
| `settlement_signals` | 3 people, quorum 2..3, 2 attempts, foreign approvals | `NoSignatureWithoutQuorum`, `StepsAgreeWithRecord`, `OneTransactionOnNetwork`, `EachPersonCountsOnce`, `PromiseKept` |
| `settlement_ends` | 2 people, fairness | `SettlementEnds` |
| `signing_requests` | 3 calls, 2 messages | `OneMessagePerKey`, `AnswerIsForTheMessageAsked`, `SignedIsOnRecord`, `RowIsNotReused` |
| `native_transfers` | 2 people, 1 retry in flight, 2 decisions (EVM) or 1 (the other kinds) | `OneRunAtATime`, `TransferFollowsRequest`, `EvmRetrySignsTheSame`, `SentAtMostOnce`, `CompletedWasSent`, `PromiseKept` |
| `refresh_shares` | 2-of-3, 2 refreshes, 2 restarts, 2 restores under way per party, 1 retirement | `KeyStaysUsable`, `SameEpochCombines`, `MemoryKeepsUpWithStore`, `FailedRefreshChangedNothing` |

Six runs end in a counterexample, each to a sentence of the repository about
itself (quoted under "findings" in `PROJECT.json`):

| Run | What happens |
|---|---|
| `settlement_resend` | the decision that closed a request conflicts when sent again, so a failed delivery cannot be repeated |
| `settlement_freeze` | the workflow signs while the organisation is frozen, with or without an approval before |
| `native_retry` | a retried bitcoin, solana or cosmos transfer is refused for its changed transaction |
| `native_crash` | a transfer cut off while executing never leaves that state |
| `refresh_again` | a party refreshed once is refused by every later refresh |
| `refresh_restore` | of two restores under way at a party, the slower one publishes its old share over a refreshed one |

The models also show four behaviours that no run is kept for:

* `SigningRequests`: a row whose caller died stays `in_progress`, and every
  later call with its key is told the request "is still running".
* `SigningRequests`: `failSigningRequest` updates by id alone, so a call whose
  start was refused can write failed over a row another call completed; the next
  repeat signs the same message again (`OneMessagePerKey` holds throughout).
* `ShareRefresh`: a refresh that completes at one party only, or whose seal
  fails, leaves stores of two epochs, where `KEY-RECOVERY.md` has every party
  come back on the same one. `KeyStaysUsable` says what is left of that.
* `ShareRefresh`: a refresh in progress while the share is retired seals its
  result after `RetireSealedShare` has destroyed the sealed share.

**Bounds.** Three people are the initiator and a quorum of two, or a quorum of
three without a human initiator. Two requests in flight give every race between
two decisions, or a decision and its repeat. Two attempts separate "first try",
"effect without result" and "gave up". `MaxInbox` bounds waiting signals; a
longer queue only delays what a handler that waits would deliver. Two messages
are what tells "same" from "different" under one key. The proofs have none of
these bounds.

Three runs leave out combinations (CONSTRAINT in the cfg): `FreezeFocus` and
`DecisionFocus` keep one decision in flight while the organisation is frozen,
which is read only when a decision is admitted and when a run checks its
controls; `RetirementFocus` lets a retirement meet one restart or one restore
under way, while everything else meets all of them.

A custodian is sent the same order at every run (`TheOrder`), so for that kind
`SentAtMostOnce` holds by what the order is; it says something about the other
kinds.

`KeyStaysUsable`, `SameEpochCombines` and `MemoryKeepsUpWithStore` rest on
`NoRollback`: no restore has published over a newer share. The code does not
enforce that. `RestoreCeremony` looks at `m.ceremonies`, reads the store without
the lock and publishes without looking again, and `refresh_restore` shows the
rollback. Without that premise TLC refutes all three: after a rollback the party signs with a share older than its sealed one; a
refresh that starts from that share is filed under an epoch already used; and a
restart can then leave three parties on three polynomials. Operators who wait
for a restore to answer before they repeat it never meet this. All other
overlaps of restores with each other, with refreshes and with restarts are part
of `refresh_shares`.

`KeyStaysUsable` and `SameEpochCombines` hold where operators let one refresh
end everywhere before they start another (`MayOverlap = FALSE`). The code does
not enforce that: `StartResharing` refuses a repeated id, not a second refresh
of the same key. `KeyStaysUsable` also needs the parties to be at least
2 * Threshold + 1: a refresh cut short leaves two polynomials, and the larger
group must still be able to sign. With the majority rule of `startKeygen` that
is 2-of-3, 3-of-5 and so on; a 3-of-3 key can be lost that way.

**Fairness.** `SettlementEnds` assumes weak fairness of the worker (Temporal
offers a task until some worker takes it) and of time. Nothing is assumed of
people, the gateway or the freeze. No foreign signals occur in that run: the
selector prefers a waiting signal to the timer, so an endless stream of them
would put expiry off. `ExecutingEnds` is refuted even though live runs go on,
ceremonies end and an admin retries whatever stays failed.

## 4. Proofs

`SettlementProofs` proves, for any finite set of people and any set of handlers
and signals, any quorum and any number of attempts:

* `TypeCorrect`: `Spec => []TypeOK`.
* `StepsAgreeAlways`: `Spec => []StepsAgreeWithRecord`, the inductive invariant.
* `NoSignatureWithoutQuorumAlways`: follows from it.
* `RecordIsFinalAlways`: the action property, step by step.
* `SettlementKeepsPromise`: `Spec => PromiseKept`, the refinement of `FourEyes`.

`NoSignatureWithoutQuorum` is not inductive: it speaks of signatures, and the
step that signs looks at nothing but `pc`. `StageInv` carries the fact that the
record is approved from the recheck to the signature; `RecordInv` carries what
approved means, that no decision is the initiator's and that the quorum holds.
Its approvals are a set of people, so the argument counts with the
finite-set library, and the finiteness of `User` is the one assumption on
people (`RecordAssumption`).

`RefreshProofs` proves, for any parties, threshold and number of refreshes and
restores, overlapping or not and with or without a rollback,
`RefreshTypeCorrect` and `FailedRefreshChangedNothingAlways`. The latter is not inductive: a refresh that
fails may have been anywhere before, and a restore may bring back what the store
held. `NothingBeforeStore` says that until the seal nothing of the refresh is in
memory, in the store, or read from the store by a restore under way.

Only model-checked: liveness (`SettlementEnds`), the counts
`EachPersonCountsOnce` and `OneTransactionOnNetwork`, `WorkflowHearsTheRecord`,
`EndedSettlementClosesItsRequest`, everything about
`SigningRequests` and `NativeTransfers`, and the other properties of
`ShareRefresh`. Liveness under fairness stays with
TLC.

## 5. Left out

Step-up authentication, audit events, emails and webhook emission (no effect on
the state modelled); the content of a transfer; the address whitelist; the
workflow path kept for workflows older than segregation of duties
(`waitForApproval`); transfers that need no approval on the gateway's path; the
nonce lock between different transfers of one key.

## 6. Plan

1. `Membership`: roles and policy, the last admin, reachability of the quorum.
2. `TssCeremony`: start, relay, early and duplicate round messages, completion;
   signing sessions during a refresh; an abstract key with its committee above
   it and `ShareRefresh`.
3. `KeyRotation`: provisioning, rotation and balance migration.
4. `AgentBudget`, `Sweeps`, `Billing`, `Webhooks`, `SettlementService`: each with
   its crash and overlap behaviour; runs of two to three actors.
5. The direct path and the nonce lock in `NativeTransfers`; backup and failover;
   the token contract; policy rules, coin selection and sweep planning as
   operators checked against what they promise.
6. Proofs: `EachPersonCountsOnce`, `OneTransactionOnNetwork` and
   `EndedSettlementClosesItsRequest` by extending `StageInv`; `OneMessagePerKey`
   and `SignedIsOnRecord` in `SigningRequests`; `OneRunAtATime`,
   `TransferFollowsRequest` and the refinement of `FourEyes` in
   `NativeTransfers`; `KeyStaysUsable` in `ShareRefresh`; `AgentBudget`'s limit.
