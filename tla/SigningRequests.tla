--------------------------- MODULE SigningRequests ---------------------------
(***************************************************************************)
(* runSigningCeremony under one idempotency key: the row of                *)
(* signing_requests, the callers that look it up, create it and write its  *)
(* outcome, and the Temporal workflow threshold-sign-<key> that runs the   *)
(* ceremony. Callers come and go: a client that timed out calls again, two *)
(* calls overlap, a gateway dies with its row in progress.                 *)
(***************************************************************************)
EXTENDS Naturals, FiniteSets

CONSTANTS
  Caller,        \* calls in flight at one time
  Digest,        \* messages a caller may ask to sign under the key
  NoDigest

ASSUME SigningAssumption == NoDigest \notin Digest

VARIABLES
  row,           \* the signing_requests row of the key
  call,          \* the progress of each call
  ceremony,      \* the running workflow, by who started it and what it signs
  signed         \* digests over which a signature exists

signingVars == <<row, call, ceremony, signed>>

NoRow == [state |-> "none", digest |-> NoDigest]
NoCall == [pc |-> "idle", digest |-> NoDigest]
NoCeremony == [running |-> FALSE, digest |-> NoDigest]

CallLabel == {"lookup", "create", "start", "await", "complete", "fail", "signed", "refused"}

SigningTypeOK ==
  /\ row \in [state : {"in_progress", "failed", "completed"}, digest : Digest] \cup {NoRow}
  /\ call \in [Caller -> [pc : CallLabel, digest : Digest] \cup {NoCall}]
  /\ ceremony \in [running : {TRUE}, digest : Digest, by : Caller] \cup {NoCeremony}
  /\ signed \subseteq Digest

SigningInit ==
  /\ row = NoRow
  /\ call = [c \in Caller |-> NoCall]
  /\ ceremony = NoCeremony
  /\ signed = {}

At(c, label) == call[c].pc = label
Step(c, label) == call' = [call EXCEPT ![c].pc = label]

-----------------------------------------------------------------------------
Call(c, d) ==
  /\ call[c] = NoCall
  /\ call' = [call EXCEPT ![c] = [pc |-> "lookup", digest |-> d]]
  /\ UNCHANGED <<row, ceremony, signed>>

(* What the lookup by idempotency key finds. A different digest is a       *)
(* conflict even if the row's request failed.                              *)
FoundDifferent(c) ==
  /\ At(c, "lookup")
  /\ row # NoRow
  /\ row.digest # call[c].digest
  /\ Step(c, "refused")
  /\ UNCHANGED <<row, ceremony, signed>>

FoundCompletedAnyMessage(c) ==
  /\ At(c, "lookup")
  /\ row.state = "completed"
  /\ Step(c, "signed")
  /\ UNCHANGED <<row, ceremony, signed>>

FoundCompleted(c) ==
  /\ At(c, "lookup")
  /\ row.digest = call[c].digest
  /\ row.state = "completed"
  /\ Step(c, "signed")
  /\ UNCHANGED <<row, ceremony, signed>>

FoundInProgress(c) ==
  /\ At(c, "lookup")
  /\ row.digest = call[c].digest
  /\ row.state = "in_progress"
  /\ Step(c, "refused")
  /\ UNCHANGED <<row, ceremony, signed>>

FoundFailedAnyMessage(c) ==
  /\ At(c, "lookup")
  /\ row.state = "failed"
  /\ Step(c, "start")
  /\ UNCHANGED <<row, ceremony, signed>>

(* A failed request is retried on its row, which is not touched here.      *)
FoundFailed(c) ==
  /\ At(c, "lookup")
  /\ row.digest = call[c].digest
  /\ row.state = "failed"
  /\ Step(c, "start")
  /\ UNCHANGED <<row, ceremony, signed>>

FoundNoneStartsFirst(c) ==
  /\ At(c, "lookup")
  /\ row = NoRow
  /\ Step(c, "start")
  /\ UNCHANGED <<row, ceremony, signed>>

FoundNone(c) ==
  /\ At(c, "lookup")
  /\ row = NoRow
  /\ Step(c, "create")
  /\ UNCHANGED <<row, ceremony, signed>>

CreateRowUpsert(c) ==
  /\ At(c, "create")
  /\ row' = [state |-> "in_progress", digest |-> call[c].digest]
  /\ Step(c, "start")
  /\ UNCHANGED <<ceremony, signed>>

(* createSigningRequest; 23505 if another call inserted the key first.     *)
CreateRow(c) ==
  /\ At(c, "create")
  /\ IF row = NoRow
     THEN /\ row' = [state |-> "in_progress", digest |-> call[c].digest]
          /\ Step(c, "start")
     ELSE /\ Step(c, "refused")
          /\ UNCHANGED row
  /\ UNCHANGED <<ceremony, signed>>

(* Temporal refuses to start a workflow id that is running; the call takes *)
(* that for a failed ceremony.                                             *)
StartCeremony(c) ==
  /\ At(c, "start")
  /\ IF ceremony = NoCeremony
     THEN /\ ceremony' = [running |-> TRUE, digest |-> call[c].digest, by |-> c]
          /\ Step(c, "await")
     ELSE /\ Step(c, "fail")
          /\ UNCHANGED ceremony
  /\ UNCHANGED <<row, signed>>

ResultToAnyone(label) == Step(ceremony.by, label)

(* The workflow ends, with a signature or without. Its starter, if it is   *)
(* still waiting, receives the result.                                     *)
ResultTo(label) ==
  IF At(ceremony.by, "await") THEN Step(ceremony.by, label) ELSE UNCHANGED call

CeremonySigns ==
  /\ ceremony # NoCeremony
  /\ signed' = signed \cup {ceremony.digest}
  /\ ResultTo("complete")
  /\ ceremony' = NoCeremony
  /\ UNCHANGED row

CeremonyFails ==
  /\ ceremony # NoCeremony
  /\ ResultTo("fail")
  /\ ceremony' = NoCeremony
  /\ UNCHANGED <<row, signed>>

(* Waiting for the result fails while the workflow goes on.                *)
ResultLost(c) ==
  /\ At(c, "await")
  /\ Step(c, "fail")
  /\ UNCHANGED <<row, ceremony, signed>>

(* Both writes are unconditional updates by row id, and best effort.       *)
RecordCompletion(c) ==
  /\ At(c, "complete")
  /\ row' = [row EXCEPT !.state = "completed"] \/ UNCHANGED row
  /\ Step(c, "signed")
  /\ UNCHANGED <<ceremony, signed>>

RecordFailure(c) ==
  /\ At(c, "fail")
  /\ row' = [row EXCEPT !.state = "failed"] \/ UNCHANGED row
  /\ Step(c, "refused")
  /\ UNCHANGED <<ceremony, signed>>

SigningStep(c) ==
  \/ FoundDifferent(c)
  \/ FoundCompleted(c)
  \/ FoundInProgress(c)
  \/ FoundFailed(c)
  \/ FoundNone(c)
  \/ CreateRow(c)
  \/ StartCeremony(c)
  \/ ResultLost(c)
  \/ RecordCompletion(c)
  \/ RecordFailure(c)

CeremonyStep == CeremonySigns \/ CeremonyFails

(* The caller has its answer, or has died.                                 *)
EndCall(c) ==
  /\ call[c] # NoCall
  /\ call' = [call EXCEPT ![c] = NoCall]
  /\ UNCHANGED <<row, ceremony, signed>>

SigningNext ==
  \/ \E c \in Caller : (\E d \in Digest : Call(c, d)) \/ SigningStep(c) \/ EndCall(c)
  \/ CeremonyStep

SigningSpec == SigningInit /\ [][SigningNext]_signingVars

-----------------------------------------------------------------------------
(* However calls overlap, fail and are repeated, one idempotency key never *)
(* yields signatures over two messages.                                    *)
OneMessagePerKey == Cardinality(signed) <= 1

(* A call answered with a signature, its own or a replayed one, gets one   *)
(* over the message it asked for.                                          *)
AnswerIsForTheMessageAsked ==
  \A c \in Caller : At(c, "signed") => call[c].digest \in signed

(* No ceremony runs and no signature exists under a key without a row in   *)
(* the audit trail for that message: the row is written before the         *)
(* ceremony starts, and never lost.                                        *)
SignedIsOnRecord ==
  /\ signed \subseteq {row.digest}
  /\ ceremony # NoCeremony => row.digest = ceremony.digest

(* A row never changes its message and never goes back to in_progress,     *)
(* whichever calls finish late: a retry reuses it, it is not restarted.    *)
RowIsNotReused ==
  [][ row # NoRow => /\ row'.digest = row.digest
                     /\ row'.state = "in_progress" => row.state = "in_progress" ]_signingVars
=============================================================================
