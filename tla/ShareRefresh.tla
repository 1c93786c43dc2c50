---------------------------- MODULE ShareRefresh ----------------------------
(***************************************************************************)
(* The shares of one key at its mpc-party processes: proactive refresh     *)
(* (StartResharing ... completeResharing), the sealed copy in each party's *)
(* own store, restart, restore and retirement.                             *)
(*                                                                         *)
(* A share is abstracted to the polynomial it lies on and the epoch it is  *)
(* filed under. Shares of one polynomial combine, shares of two do not.    *)
(* The resharing protocol itself (tss-lib) is external: a party ends with  *)
(* a share of the refresh's polynomial only if every party took part in    *)
(* the refresh, at the same time, with shares of one polynomial.           *)
(***************************************************************************)
EXTENDS Naturals, FiniteSets

CONSTANTS
  Party,         \* party numbers
  Threshold,     \* t: Threshold + 1 shares of one polynomial sign
  Refresh,       \* refresh ids
  Dkg,           \* the polynomial of the key generation
  NoPoly,
  Stride,        \* committeeEpochStride
  Retiring,      \* parties asked to retire their shares
  RestoreCall,   \* restore requests a party may have in flight at one time
  MayOverlap,    \* whether operators start a refresh while one is running
  MaxCrashes     \* bound on process restarts

ASSUME RefreshAssumption ==
  /\ IsFiniteSet(Party)
  /\ Stride \in Nat
  /\ Party \subseteq 1 .. (Stride - 1)
  /\ Threshold \in Nat
  /\ Dkg \notin Refresh
  /\ NoPoly \notin Refresh \cup {Dkg}
  /\ Retiring \subseteq Party
  /\ MayOverlap \in BOOLEAN
  /\ MaxCrashes \in Nat

VARIABLES
  mem,           \* m.ceremonies: the share each process signs with
  sealed,        \* the share in each party's store, with its epoch
  stage,         \* m.resharings: each party's progress in each refresh
  base,          \* the share each party entered each refresh with
  met,           \* refreshes that ran at every party at the same time
  loaded,        \* what each restore request has read and not yet published
  rolledBack,    \* parties where a restore published over a newer share
  retire,        \* the retirement of each party's share
  crashes

restoreVars == <<loaded, rolledBack>>
refreshVars == <<mem, sealed, stage, base, met, restoreVars, retire, crashes>>

Poly == Refresh \cup {Dkg}
NoShare == [poly |-> NoPoly, epoch |-> 0]
Share == [poly : Poly, epoch : Nat]

(* "completed": the status is set, the share neither sealed nor in use;    *)
(* "stored": sealing was tried; "done": memory was replaced too. "refused" *)
(* is the failure "not in both committees". "gone": the process restarted. *)
Stage == {"none", "registered", "running", "completed", "stored", "done",
          "failed", "refused", "gone"}

InFlight == {"registered", "running", "completed", "stored"}

RefreshTypeOK ==
  /\ mem \in [Party -> Share \cup {NoShare}]
  /\ sealed \in [Party -> Share \cup {NoShare}]
  /\ stage \in [Refresh -> [Party -> Stage]]
  /\ base \in [Refresh -> [Party -> Share \cup {NoShare}]]
  /\ met \subseteq Refresh
  /\ loaded \in [RestoreCall -> [Party -> Share \cup {NoShare}]]
  /\ rolledBack \subseteq Party
  /\ retire \in [Party -> {"no", "forgotten", "failed", "done"}]
  /\ crashes \in 0 .. MaxCrashes

(* The key generation completed at every party, which it does only with    *)
(* the share sealed.                                                       *)
RefreshInit ==
  /\ mem = [p \in Party |-> [poly |-> Dkg, epoch |-> 0]]
  /\ sealed = mem
  /\ stage = [r \in Refresh |-> [p \in Party |-> "none"]]
  /\ base = [r \in Refresh |-> [p \in Party |-> NoShare]]
  /\ met = {}
  /\ loaded = [c \in RestoreCall |-> [p \in Party |-> NoShare]]
  /\ rolledBack = {}
  /\ retire = [p \in Party |-> "no"]
  /\ crashes = 0

-----------------------------------------------------------------------------
(* A node's identity in an epoch, and the identities of a committee.       *)
CommitteeKey(node, epoch) == epoch * Stride + node
Committee(epoch) == {CommitteeKey(p, epoch) : p \in Party}

NewEpochBackwards(r, p) == base[r][p].epoch - 1
NewEpochUnchanged(r, p) == base[r][p].epoch
NewEpoch(r, p) == base[r][p].epoch + 1
Refreshed(r, p) == [poly |-> r, epoch |-> NewEpoch(r, p)]

Moves(r, p, s) == stage' = [stage EXCEPT ![r][p] = s]

(* An id is posted to a party once. Unless MayOverlap, operators wait for  *)
(* the other refreshes to end at every party before they start one.        *)
OperatorStarts(r, p) ==
  /\ stage[r][p] = "none"
  /\ MayOverlap \/ \A o \in Refresh \ {r}, q \in Party : stage[o][q] \notin InFlight

StartResharing(r, p) ==
  /\ OperatorStarts(r, p)
  /\ mem[p] # NoShare
  /\ CommitteeKey(p, mem[p].epoch) \in Committee(mem[p].epoch)
  /\ base' = [base EXCEPT ![r][p] = mem[p]]
  /\ Moves(r, p, "registered")
  /\ UNCHANGED <<mem, sealed, met, restoreVars, retire, crashes>>

(* runResharing looks for the party's bare number in the old committee.    *)
RunResharing(r, p) ==
  /\ stage[r][p] = "registered"
  /\ IF /\ p \in Committee(base[r][p].epoch)
        /\ CommitteeKey(p, NewEpoch(r, p)) \in Committee(NewEpoch(r, p))
     THEN /\ Moves(r, p, "running")
          /\ met' = met \cup {o \in {r} : \A q \in Party \ {p} : stage[r][q] = "running"}
     ELSE /\ Moves(r, p, "refused")
          /\ UNCHANGED met
  /\ UNCHANGED <<mem, sealed, base, restoreVars, retire, crashes>>

(* External: the new-committee party ends with a share. Each round waits   *)
(* for every party's message of the one before.                            *)
ProtocolEnds(r, p) ==
  /\ r \in met
  /\ \A q \in Party : base[r][q] = base[r][p]

(* completeResharing up to the status.                                     *)
CompleteResharing(r, p) ==
  /\ stage[r][p] = "running"
  /\ ProtocolEnds(r, p)
  /\ Moves(r, p, "completed")
  /\ UNCHANGED <<mem, sealed, base, met, restoreVars, retire, crashes>>

(* failResharing: a role does not start, a message cannot be delivered, or *)
(* the share is not one of the same public key.                            *)
FailResharing(r, p) ==
  /\ stage[r][p] \in {"registered", "running"}
  /\ Moves(r, p, "failed")
  /\ UNCHANGED <<mem, sealed, base, met, restoreVars, retire, crashes>>

SealRefreshedDestroysFirst(r, p) ==
  /\ stage[r][p] = "completed"
  /\ \/ sealed' = [sealed EXCEPT ![p] = Refreshed(r, p)]
     \/ sealed' = [sealed EXCEPT ![p] = NoShare]
  /\ Moves(r, p, "stored")
  /\ UNCHANGED <<mem, base, met, restoreVars, retire, crashes>>

SealRefreshedOrFail(r, p) ==
  /\ stage[r][p] = "completed"
  /\ \/ sealed' = [sealed EXCEPT ![p] = Refreshed(r, p)]
     \/ UNCHANGED sealed
  /\ Moves(r, p, "stored") \/ Moves(r, p, "failed")
  /\ UNCHANGED <<mem, base, met, restoreVars, retire, crashes>>

(* A failure to seal, before or after the store wrote, is logged and       *)
(* changes nothing else.                                                   *)
SealRefreshed(r, p) ==
  /\ stage[r][p] = "completed"
  /\ \/ sealed' = [sealed EXCEPT ![p] = Refreshed(r, p)]
     \/ UNCHANGED sealed
  /\ Moves(r, p, "stored")
  /\ UNCHANGED <<mem, base, met, restoreVars, retire, crashes>>

ReplaceInMemoryForgotten(r, p) ==
  /\ stage[r][p] = "stored"
  /\ Moves(r, p, "done")
  /\ UNCHANGED <<mem, sealed, base, met, restoreVars, retire, crashes>>

ReplaceInMemory(r, p) ==
  /\ stage[r][p] = "stored"
  /\ mem' = [mem EXCEPT ![p] = IF @ = NoShare THEN @ ELSE Refreshed(r, p)]
  /\ Moves(r, p, "done")
  /\ UNCHANGED <<sealed, base, met, restoreVars, retire, crashes>>

-----------------------------------------------------------------------------
(* RestoreCeremony: refused while a ceremony is loaded; reads the store,   *)
(* then publishes what it read at the epoch it was sealed with. It keeps   *)
(* no mark of being under way and does not look again before it publishes, *)
(* so a party may run several at once.                                     *)
RestoreLoads(c, p) ==
  /\ mem[p] = NoShare
  /\ loaded[c][p] = NoShare
  /\ sealed[p] # NoShare
  /\ loaded' = [loaded EXCEPT ![c][p] = sealed[p]]
  /\ UNCHANGED <<mem, sealed, stage, base, met, rolledBack, retire, crashes>>

RestorePublishes(c, p) ==
  /\ loaded[c][p] # NoShare
  /\ mem' = [mem EXCEPT ![p] = loaded[c][p]]
  /\ loaded' = [loaded EXCEPT ![c][p] = NoShare]
  /\ rolledBack' = rolledBack \cup {q \in {p} : loaded[c][p].epoch < mem[p].epoch}
  /\ UNCHANGED <<sealed, stage, base, met, retire, crashes>>

(* HandleTSSRetire: Forget, then the sealed copy. A caller that was told   *)
(* it failed may retry.                                                    *)
RetireForgets(p) ==
  /\ p \in Retiring
  /\ retire[p] \in {"no", "failed"}
  /\ mem' = [mem EXCEPT ![p] = NoShare]
  /\ retire' = [retire EXCEPT ![p] = "forgotten"]
  /\ UNCHANGED <<sealed, stage, base, met, restoreVars, crashes>>

RetireDestroys(p) ==
  /\ retire[p] = "forgotten"
  /\ sealed' = [sealed EXCEPT ![p] = NoShare]
  /\ retire' = [retire EXCEPT ![p] = "done"]
  /\ UNCHANGED <<mem, stage, base, met, restoreVars, crashes>>

(* The store answers with an error, before or after it destroyed the copy. *)
RetireFails(p) ==
  /\ retire[p] = "forgotten"
  /\ sealed' \in {sealed, [sealed EXCEPT ![p] = NoShare]}
  /\ retire' = [retire EXCEPT ![p] = "failed"]
  /\ UNCHANGED <<mem, stage, base, met, restoreVars, crashes>>

(* The process dies and comes back with nothing in memory.                 *)
Crash(p) ==
  /\ crashes < MaxCrashes
  /\ crashes' = crashes + 1
  /\ mem' = [mem EXCEPT ![p] = NoShare]
  /\ loaded' = [c \in RestoreCall |-> [loaded[c] EXCEPT ![p] = NoShare]]
  /\ stage' = [r \in Refresh |->
                 [stage[r] EXCEPT ![p] = IF @ = "none" THEN @ ELSE "gone"]]
  /\ retire' = [retire EXCEPT ![p] = IF @ = "forgotten" THEN "failed" ELSE @]
  /\ UNCHANGED <<sealed, base, met, rolledBack>>

RefreshNext ==
  \E p \in Party :
    \/ \E r \in Refresh :
         \/ StartResharing(r, p)
         \/ RunResharing(r, p)
         \/ CompleteResharing(r, p)
         \/ FailResharing(r, p)
         \/ SealRefreshed(r, p)
         \/ ReplaceInMemory(r, p)
    \/ \E c \in RestoreCall : RestoreLoads(c, p) \/ RestorePublishes(c, p)
    \/ RetireForgets(p)
    \/ RetireDestroys(p)
    \/ RetireFails(p)
    \/ Crash(p)

RefreshSpec == RefreshInit /\ [][RefreshNext]_refreshVars

-----------------------------------------------------------------------------
(* What a party still has of the key: its memory, or else its store.       *)
Holds(p) == IF mem[p] # NoShare THEN mem[p] ELSE sealed[p]

NoRetirement == \A p \in Party : retire[p] = "no"

(* No restore has put back an older share so far. The code does not        *)
(* guarantee it (RestoreIsSafeToRunAgain), and the three properties below  *)
(* do not hold without it.                                                 *)
NoRollback == rolledBack = {}

(* However a refresh ends at each party (completed, failed, cut off by a   *)
(* restart, sealed or not) and however restores overlap, enough parties    *)
(* still hold shares of one polynomial to sign, as long as no one retired  *)
(* the key and no restore published over a newer share. completeResharing  *)
(* overwrites the old share one party at a time, with no agreement that    *)
(* the others did.                                                         *)
KeyStaysUsable ==
  NoRetirement /\ NoRollback =>
    \E k \in Poly : Cardinality({p \in Party : Holds(p).poly = k}) > Threshold

(* Two shares filed under one epoch, in whatever memory or store or on     *)
(* their way between them, combine: the epoch is all RestoreCeremony and   *)
(* the recovery procedure go by.                                           *)
SameEpochCombines ==
  NoRetirement /\ NoRollback =>
    \A s, t \in UNION {{mem[p], sealed[p]} \cup {loaded[c][p] : c \in RestoreCall} : p \in Party} :
      (s # NoShare /\ t # NoShare /\ s.epoch = t.epoch) => s.poly = t.poly

(* A party never signs with a share older than its sealed one, except      *)
(* between completeResharing's write to the store and its write to memory, *)
(* or where a restore published over a newer share.                        *)
MemoryKeepsUpWithStore ==
  \A p \in Party :
    (/\ retire[p] = "no"
     /\ mem[p] # NoShare
     /\ p \notin rolledBack
     /\ \A r \in Refresh : stage[r][p] # "stored")
    => mem[p].epoch >= sealed[p].epoch

(* What restore-all-keys.sh says of restoring: "It is safe to run again: a *)
(* party that already holds a ceremony is skipped". So no restore replaces *)
(* the share a party holds by an older one. Violated: the look at          *)
(* m.ceremonies and the publication are not one step.                      *)
RestoreIsSafeToRunAgain == NoRollback

(* A refresh reported failed left the party's share as it was: nothing of  *)
(* the refresh is in its memory or its store.                              *)
FailedRefreshChangedNothing ==
  \A r \in Refresh, p \in Party :
    stage[r][p] \in {"failed", "refused"} =>
      mem[p].poly # r /\ sealed[p].poly # r

(* A party that StartResharing found to be a member of the refresh is in   *)
(* both of its committees when runResharing looks: a key can be refreshed  *)
(* again and again, each time into the next epoch. Violated: the lookup by *)
(* bare party number succeeds in epoch 0 only.                             *)
AcceptedPartyTakesPart ==
  \A r \in Refresh, p \in Party : stage[r][p] # "refused"
=============================================================================
