---------------------------- MODULE RefreshProofs ----------------------------
(***************************************************************************)
(* Proofs about ShareRefresh, for any set of parties, any threshold, any   *)
(* number of refreshes (overlapping or not), restarts and retirements.     *)
(***************************************************************************)
EXTENDS ShareRefresh, TLAPS

(* Until completeResharing has gone to the store, nothing of a refresh is  *)
(* in the party's memory, in its store or on its way back from the store.  *)
BeforeStore == Stage \ {"stored", "done", "gone"}

NothingOf(r, p) ==
  /\ mem[p].poly # r
  /\ sealed[p].poly # r
  /\ \A c \in RestoreCall : loaded[c][p].poly # r

NothingBeforeStore ==
  \A r \in Refresh, p \in Party :
    stage[r][p] \in BeforeStore => NothingOf(r, p)

RefreshInv == RefreshTypeOK /\ NothingBeforeStore

(* A refresh into the next epoch yields a share, from whatever share the   *)
(* party entered it with.                                                  *)
LEMMA RefreshedIsShare ==
  ASSUME RefreshTypeOK, NEW r \in Refresh, NEW p \in Party
  PROVE  Refreshed(r, p) \in Share /\ Refreshed(r, p).poly = r
  <1>1. base[r][p] \in Share \cup {NoShare}
    BY DEF RefreshTypeOK
  <1>2. base[r][p].epoch \in Nat
    BY <1>1 DEF Share, NoShare
  <1> QED
    BY <1>2 DEF Refreshed, NewEpoch, Share, Poly

(* The key generation's shares are of no refresh.                          *)
LEMMA RefreshInitInv == RefreshInit => RefreshInv
  <1> SUFFICES ASSUME RefreshInit PROVE RefreshInv
    OBVIOUS
  <1>1. RefreshTypeOK
    BY RefreshAssumption DEF RefreshInit, RefreshTypeOK, Share, NoShare, Poly, Stage
  <1>2. NothingBeforeStore
    BY RefreshAssumption DEF RefreshInit, NothingBeforeStore, NothingOf, NoShare
  <1> QED
    BY <1>1, <1>2 DEF RefreshInv

(* A party's progress in a refresh moves from stage to stage.              *)
LEMMA MovesTyped ==
  ASSUME RefreshTypeOK, NEW r \in Refresh, NEW p \in Party, NEW s \in Stage, Moves(r, p, s)
  PROVE  stage' \in [Refresh -> [Party -> Stage]]
  BY DEF RefreshTypeOK, Moves

(* Every step of the parties keeps the types.                              *)
LEMMA RefreshTypeStep == RefreshTypeOK /\ [RefreshNext]_refreshVars => RefreshTypeOK'
  <1> SUFFICES ASSUME RefreshTypeOK, [RefreshNext]_refreshVars PROVE RefreshTypeOK'
    OBVIOUS
  <1>0. \A s \in {"registered", "running", "completed", "stored", "done", "failed", "refused"} :
          s \in Stage
    BY DEF Stage
  <1>1. ASSUME NEW r \in Refresh, NEW p \in Party, StartResharing(r, p)
        PROVE  RefreshTypeOK'
    <2>1. stage' \in [Refresh -> [Party -> Stage]]
      BY <1>0, <1>1, MovesTyped DEF StartResharing
    <2>2. base' \in [Refresh -> [Party -> Share \cup {NoShare}]]
      BY <1>1 DEF StartResharing, RefreshTypeOK
    <2> QED
      BY <1>1, <2>1, <2>2 DEF StartResharing, RefreshTypeOK, restoreVars
  <1>2. ASSUME NEW r \in Refresh, NEW p \in Party, RunResharing(r, p)
        PROVE  RefreshTypeOK'
    <2>1. stage' \in [Refresh -> [Party -> Stage]]
      BY <1>0, <1>2, MovesTyped DEF RunResharing
    <2>2. met' \subseteq Refresh
      BY <1>2 DEF RunResharing, RefreshTypeOK
    <2> QED
      BY <1>2, <2>1, <2>2 DEF RunResharing, RefreshTypeOK, restoreVars
  <1>3. ASSUME NEW r \in Refresh, NEW p \in Party, CompleteResharing(r, p)
        PROVE  RefreshTypeOK'
    <2>1. stage' \in [Refresh -> [Party -> Stage]]
      BY <1>0, <1>3, MovesTyped DEF CompleteResharing
    <2> QED
      BY <1>3, <2>1 DEF CompleteResharing, RefreshTypeOK, restoreVars
  <1>4. ASSUME NEW r \in Refresh, NEW p \in Party, FailResharing(r, p)
        PROVE  RefreshTypeOK'
    <2>1. stage' \in [Refresh -> [Party -> Stage]]
      BY <1>0, <1>4, MovesTyped DEF FailResharing
    <2> QED
      BY <1>4, <2>1 DEF FailResharing, RefreshTypeOK, restoreVars
  <1>5. ASSUME NEW r \in Refresh, NEW p \in Party, SealRefreshed(r, p)
        PROVE  RefreshTypeOK'
    <2>1. stage' \in [Refresh -> [Party -> Stage]]
      BY <1>0, <1>5, MovesTyped DEF SealRefreshed
    <2>2. Refreshed(r, p) \in Share
      BY RefreshedIsShare
    <2>3. sealed' \in [Party -> Share \cup {NoShare}]
      BY <1>5, <2>2 DEF SealRefreshed, RefreshTypeOK
    <2> QED
      BY <1>5, <2>1, <2>3 DEF SealRefreshed, RefreshTypeOK, restoreVars
  <1>6. ASSUME NEW r \in Refresh, NEW p \in Party, ReplaceInMemory(r, p)
        PROVE  RefreshTypeOK'
    <2>1. stage' \in [Refresh -> [Party -> Stage]]
      BY <1>0, <1>6, MovesTyped DEF ReplaceInMemory
    <2>2. Refreshed(r, p) \in Share
      BY RefreshedIsShare
    <2>3. mem' \in [Party -> Share \cup {NoShare}]
      BY <1>6, <2>2 DEF ReplaceInMemory, RefreshTypeOK
    <2> QED
      BY <1>6, <2>1, <2>3 DEF ReplaceInMemory, RefreshTypeOK, restoreVars
  <1>7. ASSUME NEW c \in RestoreCall, NEW p \in Party, RestoreLoads(c, p)
        PROVE  RefreshTypeOK'
    <2>1. loaded' \in [RestoreCall -> [Party -> Share \cup {NoShare}]]
      BY <1>7 DEF RestoreLoads, RefreshTypeOK
    <2> QED
      BY <1>7, <2>1 DEF RestoreLoads, RefreshTypeOK
  <1>8. ASSUME NEW c \in RestoreCall, NEW p \in Party, RestorePublishes(c, p)
        PROVE  RefreshTypeOK'
    <2>1. loaded' \in [RestoreCall -> [Party -> Share \cup {NoShare}]]
      BY <1>8 DEF RestorePublishes, RefreshTypeOK
    <2>2. mem' \in [Party -> Share \cup {NoShare}]
      BY <1>8 DEF RestorePublishes, RefreshTypeOK
    <2>3. rolledBack' \subseteq Party
      BY <1>8 DEF RestorePublishes, RefreshTypeOK
    <2> QED
      BY <1>8, <2>1, <2>2, <2>3 DEF RestorePublishes, RefreshTypeOK
  <1>9. ASSUME NEW p \in Party, RetireForgets(p) \/ RetireDestroys(p) \/ RetireFails(p)
        PROVE  RefreshTypeOK'
    <2>1. mem' \in [Party -> Share \cup {NoShare}] /\ sealed' \in [Party -> Share \cup {NoShare}]
      BY <1>9 DEF RetireForgets, RetireDestroys, RetireFails, RefreshTypeOK
    <2>2. retire' \in [Party -> {"no", "forgotten", "failed", "done"}]
      BY <1>9 DEF RetireForgets, RetireDestroys, RetireFails, RefreshTypeOK
    <2> QED
      BY <1>9, <2>1, <2>2 DEF RetireForgets, RetireDestroys, RetireFails, RefreshTypeOK, restoreVars
  <1>10. ASSUME NEW p \in Party, Crash(p)
        PROVE  RefreshTypeOK'
    <2>1. mem' \in [Party -> Share \cup {NoShare}]
      BY <1>10 DEF Crash, RefreshTypeOK
    <2>2. loaded' \in [RestoreCall -> [Party -> Share \cup {NoShare}]]
      BY <1>10 DEF Crash, RefreshTypeOK
    <2>3. stage' \in [Refresh -> [Party -> Stage]]
      BY <1>10 DEF Crash, RefreshTypeOK, Stage
    <2>4. retire' \in [Party -> {"no", "forgotten", "failed", "done"}]
      BY <1>10 DEF Crash, RefreshTypeOK
    <2>5. crashes' \in 0 .. MaxCrashes
      BY <1>10, RefreshAssumption DEF Crash, RefreshTypeOK
    <2> QED
      BY <1>10, <2>1, <2>2, <2>3, <2>4, <2>5 DEF Crash, RefreshTypeOK
  <1>11. CASE UNCHANGED refreshVars
    BY <1>11 DEF refreshVars, restoreVars, RefreshTypeOK
  <1> QED
    BY <1>1, <1>2, <1>3, <1>4, <1>5, <1>6, <1>7, <1>8, <1>9, <1>10, <1>11 DEF RefreshNext

(* A step of one party in one refresh is no step of another.               *)
LEMMA MovesOne ==
  ASSUME RefreshTypeOK, NEW r \in Refresh, NEW p \in Party, NEW s, Moves(r, p, s),
         NEW o \in Refresh, NEW q \in Party
  PROVE  stage'[o][q] = IF o = r /\ q = p THEN s ELSE stage[o][q]
  BY DEF RefreshTypeOK, Moves

(* Only SealRefreshed and ReplaceInMemory put a refresh's share anywhere,  *)
(* and they leave the refresh past BeforeStore.                            *)
LEMMA NothingBeforeStoreStep ==
  RefreshInv /\ [RefreshNext]_refreshVars => NothingBeforeStore'
  <1> SUFFICES ASSUME RefreshInv, [RefreshNext]_refreshVars,
                      NEW o \in Refresh, NEW q \in Party,
                      stage'[o][q] \in BeforeStore
               PROVE  NothingOf(o, q)'
    BY DEF NothingBeforeStore
  <1>a. RefreshTypeOK
    BY DEF RefreshInv
  <1>b. stage[o][q] \in BeforeStore => NothingOf(o, q)
    BY DEF RefreshInv, NothingBeforeStore
  <1>c. NoShare.poly # o
    BY RefreshAssumption DEF NoShare
  <1>1. ASSUME NEW r \in Refresh, NEW p \in Party,
               StartResharing(r, p) \/ RunResharing(r, p)
               \/ CompleteResharing(r, p) \/ FailResharing(r, p)
        PROVE  NothingOf(o, q)'
    <2>1. stage[r][p] \in BeforeStore
      BY <1>1 DEF StartResharing, OperatorStarts, RunResharing, CompleteResharing,
                  FailResharing, BeforeStore, Stage
    <2>2. PICK s : Moves(r, p, s)
      BY <1>1 DEF StartResharing, RunResharing, CompleteResharing, FailResharing
    <2>3. stage[o][q] \in BeforeStore
      BY <1>a, <2>1, <2>2, MovesOne
    <2>4. UNCHANGED <<mem, sealed, loaded>>
      BY <1>1 DEF StartResharing, RunResharing, CompleteResharing, FailResharing, restoreVars
    <2> QED
      BY <1>b, <2>3, <2>4 DEF NothingOf
  <1>2. ASSUME NEW r \in Refresh, NEW p \in Party, SealRefreshed(r, p)
        PROVE  NothingOf(o, q)'
    <2>1. stage[o][q] \in BeforeStore /\ ~(r = o /\ p = q)
      BY <1>2, <1>a, MovesOne DEF SealRefreshed, BeforeStore
    <2>2. sealed'[q] = sealed[q] \/ (sealed'[q] = Refreshed(r, p) /\ r # o)
      BY <1>2, <1>a, <2>1 DEF SealRefreshed, RefreshTypeOK
    <2>3. sealed'[q].poly # o
      BY <1>a, <1>b, <2>1, <2>2, RefreshedIsShare DEF NothingOf
    <2>4. UNCHANGED <<mem, loaded>>
      BY <1>2 DEF SealRefreshed, restoreVars
    <2> QED
      BY <1>b, <2>1, <2>3, <2>4 DEF NothingOf
  <1>3. ASSUME NEW r \in Refresh, NEW p \in Party, ReplaceInMemory(r, p)
        PROVE  NothingOf(o, q)'
    <2>1. stage[o][q] \in BeforeStore /\ ~(r = o /\ p = q)
      BY <1>3, <1>a, MovesOne DEF ReplaceInMemory, BeforeStore
    <2>2. mem'[q] = mem[q] \/ (mem'[q] = Refreshed(r, p) /\ r # o)
      BY <1>3, <1>a, <2>1 DEF ReplaceInMemory, RefreshTypeOK
    <2>3. mem'[q].poly # o
      BY <1>a, <1>b, <2>1, <2>2, RefreshedIsShare DEF NothingOf
    <2>4. UNCHANGED <<sealed, loaded>>
      BY <1>3 DEF ReplaceInMemory, restoreVars
    <2> QED
      BY <1>b, <2>1, <2>3, <2>4 DEF NothingOf
  <1>4. ASSUME NEW c \in RestoreCall, NEW p \in Party, RestoreLoads(c, p)
        PROVE  NothingOf(o, q)'
    <2>1. UNCHANGED <<mem, sealed, stage>>
      BY <1>4 DEF RestoreLoads
    <2>2. NothingOf(o, q)
      BY <1>b, <2>1
    <2>3. ASSUME NEW d \in RestoreCall PROVE loaded'[d][q] \in {loaded[d][q], sealed[q]}
      BY <1>4, <1>a DEF RestoreLoads, RefreshTypeOK
    <2> QED
      BY <2>1, <2>2, <2>3 DEF NothingOf
  <1>5. ASSUME NEW c \in RestoreCall, NEW p \in Party, RestorePublishes(c, p)
        PROVE  NothingOf(o, q)'
    <2>1. UNCHANGED <<sealed, stage>>
      BY <1>5 DEF RestorePublishes
    <2>2. NothingOf(o, q)
      BY <1>b, <2>1
    <2>3. mem'[q] \in {mem[q], loaded[c][q]}
      BY <1>5, <1>a DEF RestorePublishes, RefreshTypeOK
    <2>4. ASSUME NEW d \in RestoreCall PROVE loaded'[d][q] \in {loaded[d][q], NoShare}
      BY <1>5, <1>a DEF RestorePublishes, RefreshTypeOK
    <2> QED
      BY <1>c, <2>1, <2>2, <2>3, <2>4 DEF NothingOf
  <1>6. ASSUME NEW p \in Party, RetireForgets(p) \/ RetireDestroys(p) \/ RetireFails(p)
        PROVE  NothingOf(o, q)'
    <2>1. UNCHANGED <<stage, loaded>>
      BY <1>6 DEF RetireForgets, RetireDestroys, RetireFails, restoreVars
    <2>2. NothingOf(o, q)
      BY <1>b, <2>1
    <2>3. mem'[q] \in {mem[q], NoShare}
      BY <1>6, <1>a DEF RetireForgets, RetireDestroys, RetireFails, RefreshTypeOK
    <2>4. sealed'[q] \in {sealed[q], NoShare}
      BY <1>6, <1>a DEF RetireForgets, RetireDestroys, RetireFails, RefreshTypeOK
    <2> QED
      BY <1>c, <2>1, <2>2, <2>3, <2>4 DEF NothingOf
  <1>7. ASSUME NEW p \in Party, Crash(p)
        PROVE  NothingOf(o, q)'
    <2>1. stage[o][q] \in BeforeStore
      BY <1>7, <1>a DEF Crash, BeforeStore, Stage, RefreshTypeOK
    <2>2. mem'[q] \in {mem[q], NoShare} /\ UNCHANGED sealed
      BY <1>7, <1>a DEF Crash, RefreshTypeOK
    <2>3. ASSUME NEW d \in RestoreCall PROVE loaded'[d][q] \in {loaded[d][q], NoShare}
      BY <1>7, <1>a DEF Crash, RefreshTypeOK
    <2> QED
      BY <1>b, <1>c, <2>1, <2>2, <2>3 DEF NothingOf
  <1>8. CASE UNCHANGED refreshVars
    BY <1>b, <1>8 DEF refreshVars, restoreVars, NothingOf
  <1> QED
    BY <1>1, <1>2, <1>3, <1>4, <1>5, <1>6, <1>7, <1>8 DEF RefreshNext

(* The shares, their sealed copies and the parties' progress always have   *)
(* the types the code gives them.                                          *)
THEOREM RefreshTypeCorrect == RefreshSpec => []RefreshTypeOK
  <1>1. RefreshInit => RefreshTypeOK
    BY RefreshInitInv DEF RefreshInv
  <1> QED
    BY <1>1, RefreshTypeStep, PTL DEF RefreshSpec

(* A refresh that failResharing marked failed at a party left nothing in   *)
(* that party's memory or store, whatever else runs, restarts, restores or *)
(* retires meanwhile.                                                      *)
THEOREM FailedRefreshChangedNothingAlways == RefreshSpec => []FailedRefreshChangedNothing
  <1>1. RefreshInv /\ [RefreshNext]_refreshVars => RefreshInv'
    BY RefreshTypeStep, NothingBeforeStoreStep DEF RefreshInv
  <1>2. RefreshInv => FailedRefreshChangedNothing
    BY DEF RefreshInv, NothingBeforeStore, NothingOf, BeforeStore, Stage, FailedRefreshChangedNothing
  <1> QED
    BY RefreshInitInv, <1>1, <1>2, PTL DEF RefreshSpec
=============================================================================
