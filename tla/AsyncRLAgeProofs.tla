---------------------------- MODULE AsyncRLAgeProofs ----------------------------
(***************************************************************************)
(* The off-policy bound of AsyncRL for every value of its constants: when  *)
(* a step consumes a batch, none of its groups is older than               *)
(* max_offpolicy_steps policy versions.                                    *)
(***************************************************************************)
EXTENDS AsyncRLProofs

(* The age budget.  Every version the trainer moves ahead of group g costs  *)
(* P trained groups, so the debt of g plus the groups that will or may be  *)
(* trained before it never exceeds K.                                      *)
K == MaxActiveRolloutGroups + WindowSize - 2

Debt(g) == P * (PendingVersion - born[g])

QueueLoad(g) == Debt(g) + Cardinality(queued)
ReadyLoad(g) == QueueLoad(g) + Cardinality(ready)
AccumLoad(g) == ReadyLoad(g) + Cardinality(groupsForNextBatch)
HandLoad(g)  == AccumLoad(g) + Cardinality(hand)

(* Ahead of an entry g of the dict: the older entries, and the younger     *)
(* ones, admitted or to come, that the window lets pass.                   *)
Older(g)  == {h \in DOMAIN workByGroupId : h < g}
Bypass(g) == {h \in g + 1 .. g + WindowSize - 1 :
                h \in DOMAIN workByGroupId \/ h >= groupIndex}
DictLoad(g) == HandLoad(g) + Cardinality(Older(g)) + Cardinality(Bypass(g))

AgeBudget ==
  /\ \A g \in DOMAIN workByGroupId : DictLoad(g) <= K
  /\ \A g \in hand : AccumLoad(g) <= K
  /\ \A g \in groupsForNextBatch : ReadyLoad(g) <= K
  /\ \A g \in ready : QueueLoad(g) <= K
  /\ \A g \in queued : Debt(g) <= K
  /\ trainerPc = "fwd_bwd" => \A g \in training : Debt(g) <= K + P

(* Every group that is not yet trained has a recorded version.             *)
BornInv ==
  /\ DOMAIN workByGroupId \cup hand \cup groupsForNextBatch \cup ready
       \cup queued \subseteq DOMAIN born
  /\ trainerPc = "fwd_bwd" => training \subseteq DOMAIN born

-------------------------------------------------------------------------------
(* The recorded versions.                                                  *)

(* A recorded version is only ever replaced by a later one.                *)
LEMMA BornStep ==
  ASSUME SlotInv, [Next]_vars, NEW g \in DOMAIN born, g \in DOMAIN born'
  PROVE  born[g] \in Nat /\ born'[g] \in Nat /\ born[g] <= born'[g]
<1> USE DEF bufferVars, dataVars, batcherVars, trainerVars, syncVars
<1>t. /\ born \in [DOMAIN born -> 0 .. genVersion] /\ genVersion \in Nat
      /\ groupIndex \in Nat /\ DOMAIN born \subseteq 0 .. groupIndex - 1
  BY DEF SlotInv, TypeOK, BufferTypeOK, CounterTypeOK
<1>b. born[g] \in 0 .. genVersion
  BY <1>t
<1>1. CASE DataInputLoop
  BY <1>1, <1>t, <1>b DEF DataInputLoop, DataWaitForSlot, DataAddWork, DataCrash,
                          SetBorn
<1>2. CASE RolloutLoop
  BY <1>2, <1>t, <1>b DEF RolloutLoop, RolloutClaim, RolloutFinalize, SetBorn
<1>3. CASE BatcherLoop
  BY <1>3, <1>t, <1>b DEF BatcherLoop, BatcherTake, BatcherPackTrainable,
     BatcherPackUntrainable, BatcherRelease, BatcherPut, BatcherCrash, Forget
<1>4. CASE TrainerLoop
  BY <1>4, <1>t, <1>b DEF TrainerLoop, TrainerAdvances, TrainerGet, TrainerForwardBackward,
     TrainerWaitPrevPush, TrainerOptimStep, TrainerStartSync,
     TrainerSyncFailed, TrainerSave, TrainerDrain, TrainerCrash, Forget
<1>5. CASE PushModelStateDict \/ PullTask
  BY <1>5, <1>t, <1>b DEF PushModelStateDict, PullTask, PullAwaitPush,
     PullModelStateDict, PullRelease
<1>6. CASE RunShutdown \/ Terminated \/ UNCHANGED vars
  BY <1>6, <1>t, <1>b DEF RunShutdown, Terminated, vars
<1>7. QED
  BY <1>1, <1>2, <1>3, <1>4, <1>5, <1>6 DEF Next

LEMMA BornInit == Init => BornInv
BY DEF Init, BufferInit, BornInv, PcBeforeStep

LEMMA BornInvStep == SlotInv /\ BornInv /\ [Next]_vars => BornInv'
<1> SUFFICES ASSUME SlotInv, BornInv, [Next]_vars PROVE BornInv'
  OBVIOUS
<1> USE DEF bufferVars, dataVars, batcherVars, trainerVars, syncVars, BornInv
<1>1. CASE DataInputLoop
  BY <1>1 DEF DataInputLoop, DataWaitForSlot, DataAddWork, DataCrash, AddWork,
              WithState, SetBorn
<1>2. CASE RolloutLoop
  BY <1>2 DEF RolloutLoop, RolloutClaim, RolloutFinalize, ClaimNext,
              FinalizeWork, WithState, SetBorn
<1>3. CASE BatcherLoop
  <2>1. CASE \E g \in DOMAIN workByGroupId : BatcherTake(g)
    BY <2>1 DEF BatcherTake, TakeFinalized, WithoutGroup
  <2>2. CASE BatcherPackTrainable
    BY <2>2 DEF BatcherPackTrainable
  <2>3. CASE BatcherRelease
    <3>1. /\ hand \cap (DOMAIN workByGroupId \cup groupsForNextBatch \cup ready
                          \cup queued \cup training) = {}
      BY DEF SlotInv, OnePlace
    <3>2. UNCHANGED <<workByGroupId, groupsForNextBatch, ready, queued,
                      training, trainerPc>>
      BY <2>3 DEF BatcherRelease, ReleaseActiveGroups
    <3>3. \/ hand' = {} /\ DOMAIN born' = DOMAIN born \ hand
          \/ UNCHANGED <<hand, born>>
      BY <2>3 DEF BatcherRelease, Forget
    <3>4. QED
      BY <3>1, <3>2, <3>3
  <2>4. CASE BatcherPackUntrainable \/ BatcherPut \/ BatcherCrash
    BY <2>4 DEF BatcherPackUntrainable, BatcherPut, BatcherCrash
  <2>5. QED
    BY <1>3, <2>1, <2>2, <2>3, <2>4 DEF BatcherLoop
<1>4. CASE TrainerLoop
  <2>1. CASE TrainerStartSync
    <3>1. training \cap (DOMAIN workByGroupId \cup groupsForNextBatch \cup hand
                           \cup ready \cup queued) = {}
      BY DEF SlotInv, OnePlace
    <3>2. /\ UNCHANGED <<workByGroupId, hand, groupsForNextBatch, ready, queued>>
          /\ DOMAIN born' = DOMAIN born \ training /\ trainerPc' = "save"
      BY <2>1 DEF TrainerStartSync, Forget
    <3>3. QED
      BY <3>1, <3>2
  <2>2. CASE ~TrainerStartSync
    BY <1>4, <2>2 DEF TrainerLoop, TrainerAdvances, TrainerGet, TrainerForwardBackward,
       TrainerWaitPrevPush, TrainerOptimStep, TrainerSyncFailed, TrainerSave,
       TrainerDrain, TrainerCrash, PcBeforeStep
  <2>3. QED
    BY <2>1, <2>2
<1>5. CASE PushModelStateDict \/ PullTask
  BY <1>5 DEF PushModelStateDict, PullTask, PullAwaitPush, PullModelStateDict,
     PullRelease, ReleaseActiveGroups
<1>6. CASE RunShutdown
  BY <1>6 DEF RunShutdown, Close, Cancelled
<1>7. CASE Terminated \/ UNCHANGED vars
  BY <1>7 DEF Terminated, vars
<1>8. QED
  BY <1>1, <1>2, <1>3, <1>4, <1>5, <1>6, <1>7 DEF Next

(* The debt of a group: it grows by P when the trainer gets a batch and at *)
(* no other time.                                                          *)
LEMMA DebtStep ==
  ASSUME SlotInv, [Next]_vars, NEW g \in DOMAIN born, g \in DOMAIN born'
  PROVE  /\ Debt(g) \in Int /\ Debt(g)' \in Int
         /\ ~TrainerGet => Debt(g)' <= Debt(g)
         /\ TrainerGet => Debt(g)' = Debt(g) + P
<1>t. /\ PendingVersion \in Nat /\ P \in Nat
      /\ born[g] \in Nat /\ born'[g] \in Nat /\ born[g] <= born'[g]
  BY VersionTypes, BornStep DEF SlotInv
<1>u. P' = P /\ Debt(g)' = P * (PendingVersion' - born'[g])
      /\ Debt(g) = P * (PendingVersion - born[g])
  BY DEF P, Debt
<1>p. PendingVersion' \in Int
  BY <1>t, PendingStep
<1>i. /\ PendingVersion - born[g] \in Int /\ PendingVersion' - born'[g] \in Int
  BY <1>t, <1>p
<1>1. Debt(g) \in Int /\ Debt(g)' \in Int
  BY <1>t, <1>u, <1>i, TimesPlusOne
<1>2. ASSUME ~TrainerGet PROVE Debt(g)' <= Debt(g)
  <2>1. PendingVersion' - born'[g] <= PendingVersion - born[g]
    BY <1>2, <1>t, PendingStep
  <2>2. QED
    BY <1>t, <1>u, <1>i, <2>1, TimesMonotone
<1>3. ASSUME TrainerGet PROVE Debt(g)' = Debt(g) + P
  <2>1. born' = born
    BY <1>3 DEF TrainerGet
  <2>2. PendingVersion' - born'[g] = (PendingVersion - born[g]) + 1
    BY <1>3, <1>t, <2>1, PendingStep
  <2>3. P * ((PendingVersion - born[g]) + 1) = P * (PendingVersion - born[g]) + P
    BY <1>t, <1>i, TimesPlusOne
  <2>4. QED
    BY <1>u, <2>2, <2>3
<1>4. QED
  BY <1>1, <1>2, <1>3

-------------------------------------------------------------------------------
(* The age budget.                                                         *)

(* What a step may do to the stages.                                       *)
OtherMove ==
  /\ \/ UNCHANGED <<DOMAIN workByGroupId, groupIndex>>
     \/ DOMAIN workByGroupId' = {}
  /\ hand' \in {hand, {}}
  /\ UNCHANGED <<groupsForNextBatch, ready, queued>>
  /\ trainerPc' = "fwd_bwd" => trainerPc = "fwd_bwd" /\ training' = training

LEMMA StageMoves ==
  ASSUME [Next]_vars
  PROVE  \/ DataAddWork /\ AddWork(groupIndex)
         \/ \E k \in DOMAIN workByGroupId : BatcherTake(k)
         \/ BatcherPackTrainable
         \/ BatcherPut
         \/ TrainerGet
         \/ ~TrainerGet /\ OtherMove
<1> USE DEF bufferVars, dataVars, batcherVars, trainerVars, syncVars, OtherMove
<1>1. CASE DataInputLoop
  BY <1>1 DEF DataInputLoop, DataWaitForSlot, DataAddWork, DataCrash, TrainerGet
<1>2. CASE RolloutLoop
  BY <1>2 DEF RolloutLoop, RolloutClaim, RolloutFinalize, ClaimNext,
              FinalizeWork, WithState, TrainerGet
<1>3. CASE BatcherLoop
  BY <1>3 DEF BatcherLoop, BatcherPackUntrainable, BatcherRelease,
              BatcherCrash, ReleaseActiveGroups, TrainerGet
<1>4. CASE TrainerLoop
  BY <1>4 DEF TrainerLoop, TrainerAdvances, TrainerForwardBackward, TrainerWaitPrevPush,
              TrainerOptimStep, TrainerStartSync, TrainerSyncFailed,
              TrainerSave, TrainerDrain, TrainerCrash, PcBeforeStep, TrainerGet
<1>5. CASE PushModelStateDict \/ PullTask
  BY <1>5 DEF PushModelStateDict, PullTask, PullAwaitPush, PullModelStateDict,
              PullRelease, ReleaseActiveGroups, TrainerGet
<1>6. CASE RunShutdown
  BY <1>6 DEF RunShutdown, Close, Cancelled, TrainerGet
<1>7. CASE Terminated \/ UNCHANGED vars
  BY <1>7 DEF Terminated, vars, TrainerGet
<1>8. QED
  BY <1>1, <1>2, <1>3, <1>4, <1>5, <1>6, <1>7 DEF Next

LEMMA OlderBypassFinite ==
  ASSUME TypeOK, NEW g \in Nat
  PROVE  /\ IsFiniteSet(Older(g)) /\ Cardinality(Older(g)) \in Nat
         /\ IsFiniteSet(Bypass(g)) /\ Cardinality(Bypass(g)) \in Nat
<1>1. IsFiniteSet(DOMAIN workByGroupId) /\ Older(g) \subseteq DOMAIN workByGroupId
  BY Finiteness DEF Older
<1>2. IsFiniteSet(g + 1 .. g + WindowSize - 1)
  BY BufferAssumption, FS_Interval
<1>3. Bypass(g) \subseteq g + 1 .. g + WindowSize - 1
  BY DEF Bypass
<1>4. QED
  BY <1>1, <1>2, <1>3, FS_Subset, FS_CardinalityType

(* A group admitted now meets the budget: the debt is at most the groups   *)
(* being trained and synced, which are charged, the other groups in the    *)
(* pipeline are charged too, and W - 1 groups may overtake it.             *)
LEMMA NewGroup ==
  ASSUME SlotInv, SyncInv, DataAddWork, AddWork(groupIndex),
         NEW n, n = groupIndex
  PROVE  DictLoad(n)' <= K
<1>t. /\ PendingVersion \in Nat /\ syncVersion \in Nat /\ genVersion \in Nat
      /\ P \in Nat /\ n \in Nat /\ DOMAIN workByGroupId \subseteq 0 .. n - 1
  BY VersionTypes DEF SlotInv, TypeOK, BufferTypeOK
<1>f. \A G \in {DOMAIN workByGroupId, hand, groupsForNextBatch, ready, queued,
                training, syncing} : IsFiniteSet(G) /\ Cardinality(G) \in Nat
  BY Finiteness DEF SlotInv
<1>u. /\ UNCHANGED <<hand, groupsForNextBatch, ready, queued, training, syncing,
                     trainerPc, trainerVersion>>
      /\ born'[n] = genVersion /\ groupIndex' = n + 1
      /\ DOMAIN workByGroupId' = DOMAIN workByGroupId \cup {n}
  BY AddWorkMoves DEF SlotInv, DataAddWork, SetBorn, batcherVars, trainerVars,
                      syncVars, AddWork
<1>v. PendingVersion' = PendingVersion
  BY <1>u DEF PendingVersion
<1>1. Debt(n)' = P * (PendingVersion - genVersion)
  BY <1>u, <1>v DEF Debt, P
<1>2. P * (PendingVersion - genVersion)
        = P * (PendingVersion - syncVersion) + P * (syncVersion - genVersion)
  <2>1. \A p, a, b, c \in Nat : p * (a - c) = p * (a - b) + p * (b - c)
    OBVIOUS
  <2>2. QED
    BY <1>t, <2>1
<1>3. /\ P * (PendingVersion - syncVersion) \in Int
      /\ P * (syncVersion - genVersion) \in Int
  BY <1>t, TimesPlusOne
<1>4. /\ Debt(n)' \in Int
      /\ Debt(n)' <= Cardinality(training) + Cardinality(syncing)
  BY <1>1, <1>2, <1>3, <1>f DEF SyncInv
<1>5. Older(n)' = DOMAIN workByGroupId
  <2>1. \A h : h \in Older(n)' <=> h \in DOMAIN workByGroupId' /\ h < n
    BY DEF Older
  <2>2. \A h \in DOMAIN workByGroupId : h < n
    BY <1>t
  <2>3. ~(n < n)
    BY <1>t
  <2>4. QED
    BY <1>u, <2>1, <2>2, <2>3
<1>6. Cardinality(Bypass(n)') \in Nat /\ Cardinality(Bypass(n)') <= WindowSize - 1
  <2>1. Bypass(n)' \subseteq n + 1 .. n + WindowSize - 1
    BY DEF Bypass
  <2>2. /\ n + 1 \in Int /\ n + WindowSize - 1 \in Int
        /\ WindowSize \in Nat /\ WindowSize >= 1
    BY <1>t, BufferAssumption
  <2>3. IsFiniteSet(n + 1 .. n + WindowSize - 1)
    BY <2>2, FS_Interval
  <2>4. Cardinality(n + 1 .. n + WindowSize - 1) = WindowSize - 1
    BY <1>t, <2>2, FS_Interval
  <2>5. /\ IsFiniteSet(Bypass(n)')
        /\ Cardinality(Bypass(n)') <= Cardinality(n + 1 .. n + WindowSize - 1)
    BY <2>1, <2>3, FS_Subset
  <2>6. Cardinality(Bypass(n)') \in Nat
    BY <2>5, FS_CardinalityType
  <2>7. QED
    BY <2>4, <2>5, <2>6
<1>7. /\ activeRolloutGroups =
           Cardinality(DOMAIN workByGroupId) + Cardinality(hand)
             + Cardinality(groupsForNextBatch) + Cardinality(ready)
             + Cardinality(queued) + Cardinality(training)
             + Cardinality(syncing)
      /\ activeRolloutGroups < MaxActiveRolloutGroups
  BY DEF SlotInv, SlotAccounting, Lifecycle, DataAddWork, AddWork,
         HasActiveSlotAvailable
<1>8. MaxActiveRolloutGroups \in Nat /\ WindowSize \in Nat
  BY BufferAssumption
<1>9. DictLoad(n)' = Debt(n)' + Cardinality(queued) + Cardinality(ready)
        + Cardinality(groupsForNextBatch) + Cardinality(hand)
        + Cardinality(DOMAIN workByGroupId) + Cardinality(Bypass(n)')
  BY <1>u, <1>5 DEF DictLoad, HandLoad, AccumLoad, ReadyLoad, QueueLoad
<1>10. QED
  BY <1>4, <1>6, <1>7, <1>8, <1>9, <1>f DEF K

(* The places ahead of an entry that stays in the dict.                    *)
LEMMA TakeAhead ==
  ASSUME SlotInv, NEW k \in DOMAIN workByGroupId, BatcherTake(k),
         NEW g \in DOMAIN workByGroupId, g # k
  PROVE  /\ Cardinality(Older(g)') + Cardinality(Bypass(g)') + 1
              = Cardinality(Older(g)) + Cardinality(Bypass(g))
         /\ Cardinality(Older(g)') \in Nat /\ Cardinality(Bypass(g)') \in Nat
<1>t. /\ groupIndex \in Nat /\ DOMAIN workByGroupId \subseteq 0 .. groupIndex - 1
      /\ g \in Nat /\ k \in Nat /\ WindowSize \in Nat
  BY BufferAssumption DEF SlotInv, TypeOK, BufferTypeOK
<1>u. /\ DOMAIN workByGroupId' = DOMAIN workByGroupId \ {k}
      /\ groupIndex' = groupIndex
  BY TakeMoves DEF BatcherTake, dataVars
<1>w. k <= g + WindowSize - 1
  BY DEF BatcherTake, TakeFinalized, InWindow
<1>f. /\ IsFiniteSet(Older(g)) /\ Cardinality(Older(g)) \in Nat
      /\ IsFiniteSet(Bypass(g)) /\ Cardinality(Bypass(g)) \in Nat
  BY <1>t, OlderBypassFinite DEF SlotInv
<1>1. CASE k < g
  <2>1. Older(g)' = Older(g) \ {k} /\ k \in Older(g) /\ Bypass(g)' = Bypass(g)
    BY <1>1, <1>t, <1>u DEF Older, Bypass
  <2>2. /\ Cardinality(Older(g)') = Cardinality(Older(g)) - 1
        /\ Cardinality(Older(g)') \in Nat
    BY <1>f, <2>1, RemoveOne
  <2>3. QED
    BY <1>f, <2>1, <2>2
<1>2. CASE k > g
  <2>1. Older(g)' = Older(g)
    BY <1>2, <1>t, <1>u DEF Older
  <2>2. Bypass(g)' = Bypass(g) \ {k} /\ k \in Bypass(g)
    BY <1>2, <1>t, <1>u, <1>w DEF Bypass
  <2>3. /\ Cardinality(Bypass(g)') = Cardinality(Bypass(g)) - 1
        /\ Cardinality(Bypass(g)') \in Nat
    BY <1>f, <2>2, RemoveOne
  <2>4. QED
    BY <1>f, <2>1, <2>3
<1>3. QED
  BY <1>1, <1>2, <1>t

LEMMA AgeInit == Init => AgeBudget
BY DEF Init, BufferInit, AgeBudget, PcBeforeStep

LEMMA AgeStep ==
  ASSUME SlotInv, SyncInv, BornInv, BornInv', AgeBudget, [Next]_vars
  PROVE  AgeBudget'
<1> USE DEF bufferVars, dataVars, batcherVars, trainerVars, syncVars
<1> DEFINE Held == DOMAIN workByGroupId \cup hand \cup groupsForNextBatch
                     \cup ready \cup queued
<1>f. \A G \in {DOMAIN workByGroupId, hand, groupsForNextBatch, ready, queued,
                training, syncing} : IsFiniteSet(G) /\ Cardinality(G) \in Nat
  BY Finiteness DEF SlotInv
<1>e. Cardinality({}) = 0
  BY FS_EmptySet
<1>k. K' = K /\ P' = P /\ K \in Int /\ P \in Nat
  BY BufferAssumption, AsyncAssumption DEF K, P
<1>a. \A g \in DOMAIN workByGroupId :
        /\ g \in Nat
        /\ Cardinality(Older(g)) \in Nat /\ Cardinality(Bypass(g)) \in Nat
  <2>1. DOMAIN workByGroupId \subseteq Nat
    BY DEF SlotInv, TypeOK, BufferTypeOK
  <2>2. QED
    BY <2>1, OlderBypassFinite DEF SlotInv
<1>d. \A g : g \in DOMAIN born /\ g \in DOMAIN born' =>
        /\ Debt(g) \in Int /\ Debt(g)' \in Int
        /\ ~TrainerGet => Debt(g)' <= Debt(g)
        /\ TrainerGet => Debt(g)' = Debt(g) + P
  BY DebtStep
<1>h. Held \subseteq DOMAIN born /\ Held' \subseteq DOMAIN born'
  BY DEF BornInv
<1>i. /\ \A g \in DOMAIN workByGroupId :
           Debt(g) + Cardinality(queued) + Cardinality(ready)
             + Cardinality(groupsForNextBatch) + Cardinality(hand)
             + Cardinality(Older(g)) + Cardinality(Bypass(g)) <= K
      /\ \A g \in hand :
           Debt(g) + Cardinality(queued) + Cardinality(ready)
             + Cardinality(groupsForNextBatch) <= K
      /\ \A g \in groupsForNextBatch :
           Debt(g) + Cardinality(queued) + Cardinality(ready) <= K
      /\ \A g \in ready : Debt(g) + Cardinality(queued) <= K
      /\ \A g \in queued : Debt(g) <= K
      /\ trainerPc = "fwd_bwd" => \A g \in training : Debt(g) <= K + P
  BY DEF AgeBudget, DictLoad, HandLoad, AccumLoad, ReadyLoad, QueueLoad
<1>g. SUFFICES
      /\ \A g \in DOMAIN workByGroupId' :
           Debt(g)' + Cardinality(queued') + Cardinality(ready')
             + Cardinality(groupsForNextBatch') + Cardinality(hand')
             + Cardinality(Older(g)') + Cardinality(Bypass(g)') <= K
      /\ \A g \in hand' :
           Debt(g)' + Cardinality(queued') + Cardinality(ready')
             + Cardinality(groupsForNextBatch') <= K
      /\ \A g \in groupsForNextBatch' :
           Debt(g)' + Cardinality(queued') + Cardinality(ready') <= K
      /\ \A g \in ready' : Debt(g)' + Cardinality(queued') <= K
      /\ \A g \in queued' : Debt(g)' <= K
      /\ trainerPc' = "fwd_bwd" => \A g \in training' : Debt(g)' <= K + P
  BY <1>k DEF AgeBudget, DictLoad, HandLoad, AccumLoad, ReadyLoad, QueueLoad
<1>o. UNCHANGED <<DOMAIN workByGroupId, groupIndex>> =>
        \A g : Older(g)' = Older(g) /\ Bypass(g)' = Bypass(g)
  BY DEF Older, Bypass
<1>1. CASE ~TrainerGet /\ OtherMove
  <2>1. /\ Cardinality(hand') \in Nat /\ Cardinality(hand') <= Cardinality(hand)
        /\ hand' \subseteq hand
        /\ UNCHANGED <<groupsForNextBatch, ready, queued>>
    <3>1. CASE hand' = hand
      BY <1>1, <1>f, <3>1 DEF OtherMove
    <3>2. CASE hand' = {}
      BY <1>1, <1>e, <1>f, <3>2 DEF OtherMove
    <3>3. QED
      BY <1>1, <3>1, <3>2 DEF OtherMove
  <2>2. ASSUME NEW g \in DOMAIN workByGroupId'
        PROVE  Debt(g)' + Cardinality(queued') + Cardinality(ready')
                 + Cardinality(groupsForNextBatch') + Cardinality(hand')
                 + Cardinality(Older(g)') + Cardinality(Bypass(g)') <= K
    <3>1. UNCHANGED <<DOMAIN workByGroupId, groupIndex>>
      BY <1>1, <2>2 DEF OtherMove
    <3>2. /\ Debt(g) \in Int /\ Debt(g)' \in Int /\ Debt(g)' <= Debt(g)
          /\ Older(g)' = Older(g) /\ Bypass(g)' = Bypass(g)
          /\ g \in DOMAIN workByGroupId
      BY <1>1, <1>d, <1>h, <1>o, <2>2, <3>1
    <3>3. QED
      BY <1>a, <1>f, <1>i, <1>k, <2>1, <3>2
  <2>3. \A g \in Held \cap Held' :
          Debt(g) \in Int /\ Debt(g)' \in Int /\ Debt(g)' <= Debt(g)
    BY <1>1, <1>d, <1>h
  <2>4. trainerPc' = "fwd_bwd" => \A g \in training' : Debt(g)' <= K + P
    <3>1. SUFFICES ASSUME trainerPc' = "fwd_bwd", NEW g \in training'
                   PROVE  Debt(g)' <= K + P
      OBVIOUS
    <3>2. trainerPc = "fwd_bwd" /\ g \in training
      BY <1>1, <3>1 DEF OtherMove
    <3>3. g \in DOMAIN born /\ g \in DOMAIN born'
      BY <3>1, <3>2 DEF BornInv
    <3>4. QED
      BY <1>1, <1>d, <1>i, <1>k, <3>2, <3>3
  <2>5. QED
    BY <1>f, <1>i, <1>k, <2>1, <2>2, <2>3, <2>4
<1>2. CASE TrainerGet
  <2>1. /\ queued # {} /\ queued' = {} /\ training' = queued
        /\ UNCHANGED <<DOMAIN workByGroupId, groupIndex, hand,
                       groupsForNextBatch, ready, born>>
    BY <1>2 DEF TrainerGet
  <2>2. Cardinality(queued) = P /\ Cardinality(queued') = 0
    BY <1>e, <2>1 DEF SlotInv, TypeOK, BatchTypeOK, IsBatch, P
  <2>3. \A g \in Held : Debt(g) \in Int /\ Debt(g)' = Debt(g) + P
    BY <1>2, <1>d, <1>h, <2>1
  <2>4. \A g : Older(g)' = Older(g) /\ Bypass(g)' = Bypass(g)
    BY <1>o, <2>1
  <2>5. \A g \in DOMAIN workByGroupId' :
          Debt(g)' + Cardinality(queued') + Cardinality(ready')
            + Cardinality(groupsForNextBatch') + Cardinality(hand')
            + Cardinality(Older(g)') + Cardinality(Bypass(g)') <= K
    BY <1>a, <1>f, <1>i, <1>k, <2>1, <2>2, <2>3, <2>4
  <2>6. QED
    BY <1>f, <1>i, <1>k, <2>1, <2>2, <2>3, <2>5
<1>3. CASE BatcherPut
  <2>1. /\ queued = {} /\ queued' = ready /\ ready' = {} /\ hand = {}
        /\ hand' = {} /\ ~TrainerGet
        /\ UNCHANGED <<DOMAIN workByGroupId, groupIndex, groupsForNextBatch,
                       training, trainerPc>>
    BY <1>3 DEF BatcherPut, TrainerGet, SlotInv, Stages
  <2>2. /\ Cardinality(queued) = 0 /\ Cardinality(queued') = Cardinality(ready)
        /\ Cardinality(ready') = 0 /\ Cardinality(hand) = 0
        /\ Cardinality(hand') = 0
    BY <1>e, <2>1
  <2>3. \A g \in Held \cap Held' :
          Debt(g) \in Int /\ Debt(g)' \in Int /\ Debt(g)' <= Debt(g)
    BY <1>d, <1>h, <2>1
  <2>4. \A g : Older(g)' = Older(g) /\ Bypass(g)' = Bypass(g)
    BY <1>o, <2>1
  <2>5. \A g \in DOMAIN workByGroupId' :
          Debt(g)' + Cardinality(queued') + Cardinality(ready')
            + Cardinality(groupsForNextBatch') + Cardinality(hand')
            + Cardinality(Older(g)') + Cardinality(Bypass(g)') <= K
    BY <1>a, <1>f, <1>i, <1>k, <2>1, <2>2, <2>3, <2>4
  <2>6. trainerPc' = "fwd_bwd" => \A g \in training' : Debt(g)' <= K + P
    <3>1. SUFFICES ASSUME trainerPc = "fwd_bwd", NEW g \in training
                   PROVE  Debt(g)' <= K + P
      BY <2>1
    <3>2. g \in DOMAIN born /\ g \in DOMAIN born'
      BY <2>1, <3>1 DEF BornInv
    <3>3. QED
      BY <1>d, <1>i, <1>k, <2>1, <3>1, <3>2
  <2>7. QED
    BY <1>f, <1>i, <1>k, <2>1, <2>2, <2>3, <2>5, <2>6
<1>4. CASE BatcherPackTrainable
  <2>1. /\ hand' = {} /\ ~TrainerGet
        /\ UNCHANGED <<DOMAIN workByGroupId, groupIndex, queued, training,
                       trainerPc, born>>
    BY <1>4 DEF BatcherPackTrainable, TrainerGet
  <2>2. \A g \in Held :
          Debt(g) \in Int /\ Debt(g)' \in Int /\ Debt(g)' <= Debt(g)
    BY <1>d, <1>h, <2>1
  <2>3. \A g : Older(g)' = Older(g) /\ Bypass(g)' = Bypass(g)
    BY <1>o, <2>1
  <2>4. /\ Cardinality(hand) = 1 /\ Cardinality(hand') = 0
        /\ Cardinality(ready) = 0
        /\ \/ /\ groupsForNextBatch' = groupsForNextBatch \cup hand
              /\ ready' = {} /\ Cardinality(ready') = 0
              /\ Cardinality(groupsForNextBatch') =
                   Cardinality(groupsForNextBatch) + 1
           \/ /\ groupsForNextBatch' = {}
              /\ Cardinality(groupsForNextBatch') = 0
              /\ ready' = groupsForNextBatch \cup hand
              /\ Cardinality(ready') = Cardinality(groupsForNextBatch) + 1
    BY <1>4, PackMoves
  <2>5. \A g \in DOMAIN workByGroupId' :
          Debt(g)' + Cardinality(queued') + Cardinality(ready')
            + Cardinality(groupsForNextBatch') + Cardinality(hand')
            + Cardinality(Older(g)') + Cardinality(Bypass(g)') <= K
    BY <1>a, <1>f, <1>i, <1>k, <2>1, <2>2, <2>3, <2>4
  <2>6. trainerPc' = "fwd_bwd" => \A g \in training' : Debt(g)' <= K + P
    <3>1. SUFFICES ASSUME trainerPc = "fwd_bwd", NEW g \in training
                   PROVE  Debt(g)' <= K + P
      BY <2>1
    <3>2. g \in DOMAIN born /\ g \in DOMAIN born'
      BY <2>1, <3>1 DEF BornInv
    <3>3. QED
      BY <1>d, <1>i, <1>k, <2>1, <3>1, <3>2
  <2>7. QED
    BY <1>f, <1>i, <1>k, <2>1, <2>2, <2>4, <2>5, <2>6
<1>5. CASE \E k \in DOMAIN workByGroupId : BatcherTake(k)
  <2>0. PICK k \in DOMAIN workByGroupId : BatcherTake(k)
    BY <1>5
  <2>1. /\ DOMAIN workByGroupId' = DOMAIN workByGroupId \ {k}
        /\ Cardinality(hand) = 0 /\ Cardinality(hand') = 1
    BY <2>0, TakeMoves
  <2>2. /\ hand' = {k} /\ ~TrainerGet
        /\ UNCHANGED <<groupsForNextBatch, ready, queued, training, trainerPc,
                       born>>
    BY <2>0 DEF BatcherTake, TrainerGet
  <2>3. \A g \in Held :
          Debt(g) \in Int /\ Debt(g)' \in Int /\ Debt(g)' <= Debt(g)
    BY <1>d, <1>h, <2>2
  <2>4. ASSUME NEW g \in DOMAIN workByGroupId'
        PROVE  Debt(g)' + Cardinality(queued') + Cardinality(ready')
                 + Cardinality(groupsForNextBatch') + Cardinality(hand')
                 + Cardinality(Older(g)') + Cardinality(Bypass(g)') <= K
    <3>1. g \in DOMAIN workByGroupId /\ g # k
      BY <2>1
    <3>2. /\ Cardinality(Older(g)') + Cardinality(Bypass(g)') + 1
               = Cardinality(Older(g)) + Cardinality(Bypass(g))
          /\ Cardinality(Older(g)') \in Nat /\ Cardinality(Bypass(g)') \in Nat
      BY <2>0, <3>1, TakeAhead
    <3>3. QED
      BY <1>a, <1>f, <1>i, <1>k, <2>1, <2>2, <2>3, <3>1, <3>2
  <2>5. Debt(k)' + Cardinality(queued') + Cardinality(ready')
          + Cardinality(groupsForNextBatch') <= K
    BY <1>a, <1>f, <1>i, <1>k, <2>1, <2>2, <2>3
  <2>6. trainerPc' = "fwd_bwd" => \A g \in training' : Debt(g)' <= K + P
    <3>1. SUFFICES ASSUME trainerPc = "fwd_bwd", NEW g \in training
                   PROVE  Debt(g)' <= K + P
      BY <2>2
    <3>2. g \in DOMAIN born /\ g \in DOMAIN born'
      BY <2>2, <3>1 DEF BornInv
    <3>3. QED
      BY <1>d, <1>i, <1>k, <2>2, <3>1, <3>2
  <2>7. \A g \in hand' :
          Debt(g)' + Cardinality(queued') + Cardinality(ready')
            + Cardinality(groupsForNextBatch') <= K
    BY <2>2, <2>5
  <2>8. /\ \A g \in groupsForNextBatch' :
             Debt(g)' + Cardinality(queued') + Cardinality(ready') <= K
        /\ \A g \in ready' : Debt(g)' + Cardinality(queued') <= K
        /\ \A g \in queued' : Debt(g)' <= K
    BY <1>f, <1>i, <1>k, <2>2, <2>3
  <2>9. QED
    BY <2>4, <2>6, <2>7, <2>8
<1>6. CASE DataAddWork /\ AddWork(groupIndex)
  <2>1. /\ DOMAIN workByGroupId' = DOMAIN workByGroupId \cup {groupIndex}
        /\ groupIndex' = groupIndex + 1 /\ groupIndex \in Nat
        /\ ~TrainerGet
        /\ UNCHANGED <<hand, groupsForNextBatch, ready, queued, training,
                       trainerPc>>
    BY <1>6, AddWorkMoves DEF SlotInv, DataAddWork, AddWork, TrainerGet, TypeOK,
       BufferTypeOK
  <2>2. \A g \in Held :
          Debt(g) \in Int /\ Debt(g)' \in Int /\ Debt(g)' <= Debt(g)
    BY <1>d, <1>h, <2>1
  <2>3. ASSUME NEW g \in DOMAIN workByGroupId
        PROVE  Older(g)' = Older(g) /\ Bypass(g)' = Bypass(g)
    <3>1. g < groupIndex /\ g \in Nat
      BY <1>a DEF SlotInv, TypeOK, BufferTypeOK
    <3>2. Older(g)' = Older(g)
      BY <2>1, <3>1 DEF Older
    <3>3. Bypass(g)' = Bypass(g)
      BY <2>1, <3>1 DEF Bypass
    <3>4. QED
      BY <3>2, <3>3
  <2>4. ASSUME NEW g \in DOMAIN workByGroupId'
        PROVE  Debt(g)' + Cardinality(queued') + Cardinality(ready')
                 + Cardinality(groupsForNextBatch') + Cardinality(hand')
                 + Cardinality(Older(g)') + Cardinality(Bypass(g)') <= K
    <3>1. CASE g \in DOMAIN workByGroupId
      BY <1>a, <1>f, <1>i, <1>k, <2>1, <2>2, <2>3, <3>1
    <3>2. CASE g = groupIndex
      BY <1>6, <3>2, NewGroup
         DEF DictLoad, HandLoad, AccumLoad, ReadyLoad, QueueLoad
    <3>3. QED
      BY <2>1, <3>1, <3>2
  <2>5. trainerPc' = "fwd_bwd" => \A g \in training' : Debt(g)' <= K + P
    <3>1. SUFFICES ASSUME trainerPc = "fwd_bwd", NEW g \in training
                   PROVE  Debt(g)' <= K + P
      BY <2>1
    <3>2. g \in DOMAIN born /\ g \in DOMAIN born'
      BY <2>1, <3>1 DEF BornInv
    <3>3. QED
      BY <1>d, <1>i, <1>k, <2>1, <3>1, <3>2
  <2>6. QED
    BY <1>f, <1>i, <1>k, <2>1, <2>2, <2>4, <2>5
<1>7. QED
  BY <1>1, <1>2, <1>3, <1>4, <1>5, <1>6, StageMoves

(* Dividing a budget by P.                                                 *)
LEMMA Quotient ==
  ASSUME NEW a \in Nat, a >= 1, NEW k \in Nat, NEW x \in Int, a * x <= k
  PROVE  x <= k \div a
<1> DEFINE q == k \div a
<1>1. q \in Int /\ k < a * q + a
  OBVIOUS
<1>2. SUFFICES ASSUME x >= q + 1 PROVE FALSE
  BY <1>1
<1>3. a * (q + 1) <= a * x
  BY <1>1, <1>2, TimesMonotone
<1>4. a * (q + 1) = a * q + a /\ a * q \in Int /\ a * x \in Int
  BY <1>1, TimesPlusOne
<1>5. QED
  BY <1>1, <1>3, <1>4

(* The off-policy bound the controller derives: no group of the batch a    *)
(* step consumes is older than max_offpolicy_steps versions.               *)
THEOREM OffpolicyBound == Spec => []PolicyAgeBound
<1>1. SlotInv /\ SyncInv /\ BornInv /\ AgeBudget /\ [Next]_vars =>
        SyncInv' /\ BornInv' /\ AgeBudget'
  BY SyncStep, BornInvStep, AgeStep
<1>2. SlotInv /\ BornInv /\ AgeBudget => PolicyAgeBound
  <2> SUFFICES ASSUME SlotInv, BornInv, AgeBudget, trainerPc = "fwd_bwd",
                      NEW g \in training
               PROVE  trainerVersion - born[g] <= MaxOffpolicySteps
    BY DEF PolicyAgeBound
  <2>1. /\ trainerVersion \in Nat /\ P \in Nat /\ P >= 1 /\ K \in Nat
    BY VersionTypes, BufferAssumption, AsyncAssumption DEF SlotInv, K, P
  <2>2. born[g] \in Nat
    BY DEF SlotInv, TypeOK, BufferTypeOK, CounterTypeOK, BornInv
  <2>3. P * ((trainerVersion - born[g]) + 1) <= K + P
    <3>1. Debt(g) <= K + P
      BY DEF AgeBudget
    <3>2. PendingVersion - born[g] = (trainerVersion - born[g]) + 1
      BY <2>1, <2>2 DEF PendingVersion
    <3>3. QED
      BY <3>1, <3>2 DEF Debt
  <2>4. P * (trainerVersion - born[g]) <= K
    BY <2>1, <2>2, <2>3, TimesPlusOne
  <2>5. trainerVersion - born[g] \in Int
    BY <2>1, <2>2
  <2>6. QED
    BY <2>1, <2>4, <2>5, Quotient DEF MaxOffpolicySteps, K, P
<1>3. QED
  BY SlotInvariant, SyncInit, BornInit, AgeInit, <1>1, <1>2, PTL DEF Spec

===============================================================================
