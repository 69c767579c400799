----------------------------- MODULE AsyncRLProofs -----------------------------
(***************************************************************************)
(* Proofs about AsyncRL for every value of its constants: types, slot      *)
(* accounting, the calls that never raise, windowed FIFO, and the weight   *)
(* sync.                                                                   *)
(***************************************************************************)
EXTENDS AsyncRL, FiniteSetTheorems, TLAPS

P == NumPromptsPerTrainStep

-------------------------------------------------------------------------------
(* The inductive invariant, in named parts.                                *)

(* A loop is past its last action exactly when run() has shut it down.     *)
Lifecycle ==
  /\ ~Running => /\ DOMAIN workByGroupId = {}
                 /\ dataPc \in {"crashed", "cancelled"}
                 /\ batcherPc \in {"crashed", "cancelled"}
                 /\ trainerPc \in {"finished", "crashed", "cancelled"}
  /\ Running => /\ dataPc # "cancelled"
                /\ batcherPc # "cancelled"
                /\ trainerPc # "cancelled"

(* What each stage holds follows from where its task is.                   *)
Stages ==
  /\ batcherPc \in {"take", "put"} => hand = {}
  /\ batcherPc \in {"pack", "release"} => Cardinality(hand) = 1
  /\ Cardinality(groupsForNextBatch) < P
  /\ batcherPc \in {"take", "pack", "release"} => ready = {}
  /\ batcherPc = "put" => ready # {}
  /\ trainerPc \in {"get", "save"} => training = {}
  /\ trainerPc \in {"fwd_bwd", "wait_push", "optim", "wait_pull"} =>
       training # {}
  /\ pullTask = "done" <=> syncing = {}

(* A group is in one place, from its admission until its batch is synced.  *)
OnePlace ==
  /\ DOMAIN workByGroupId \cap
       (hand \cup groupsForNextBatch \cup ready \cup queued \cup training) = {}
  /\ hand \cap (groupsForNextBatch \cup ready \cup queued \cup training) = {}
  /\ groupsForNextBatch \cap (ready \cup queued \cup training) = {}
  /\ ready \cap (queued \cup training) = {}
  /\ queued \cap training = {}

(* The slots of the syncing batch stay charged, even after a shutdown.     *)
SyncingCharged == activeRolloutGroups >= Cardinality(syncing)

(* The slot the data-input loop saw is still there.                        *)
SlotSeen == dataPc = "get_sample" => HasActiveSlotAvailable

SlotInv ==
  /\ TypeOK /\ Lifecycle /\ Stages /\ OnePlace
  /\ SlotAccounting /\ SyncingCharged /\ SlotSeen

-------------------------------------------------------------------------------
(* Finite sets.                                                            *)
LEMMA SubsetOfIds ==
  ASSUME NEW n \in Nat, NEW G, G \subseteq 0 .. n - 1
  PROVE  IsFiniteSet(G) /\ Cardinality(G) \in Nat
<1>1. IsFiniteSet(0 .. n - 1)
  BY FS_Interval
<1>2. IsFiniteSet(G)
  BY <1>1, FS_Subset
<1>3. QED
  BY <1>2, FS_CardinalityType

LEMMA Finiteness ==
  ASSUME TypeOK
  PROVE  \A G \in {DOMAIN workByGroupId, hand, groupsForNextBatch, ready,
                   queued, training, syncing} :
           IsFiniteSet(G) /\ Cardinality(G) \in Nat
<1>1. \A G \in {DOMAIN workByGroupId, hand, groupsForNextBatch, ready,
                queued, training, syncing} : G \subseteq 0 .. groupIndex - 1
  BY DEF TypeOK, BatchTypeOK, BufferTypeOK, IsBatch
<1>2. QED
  BY <1>1, SubsetOfIds DEF TypeOK, BufferTypeOK

LEMMA AddOne ==
  ASSUME NEW G, NEW g, IsFiniteSet(G), g \notin G
  PROVE  Cardinality(G \cup {g}) = Cardinality(G) + 1
BY FS_AddElement

LEMMA RemoveOne ==
  ASSUME NEW G, NEW g, IsFiniteSet(G), g \in G
  PROVE  /\ Cardinality(G \ {g}) = Cardinality(G) - 1
         /\ Cardinality(G \ {g}) \in Nat
<1>1. IsFiniteSet(G \ {g})
  BY FS_Subset
<1>2. QED
  BY <1>1, FS_RemoveElement, FS_CardinalityType

-------------------------------------------------------------------------------
(* Slot accounting.                                                        *)
LEMMA SlotInit == Init => SlotInv
<1> SUFFICES ASSUME Init PROVE SlotInv
  OBVIOUS
<1> USE BufferAssumption, AsyncAssumption, FS_EmptySet
<1>1. BufferTypeOK
  <2>1. DOMAIN workByGroupId = {} /\ DOMAIN born = {}
    BY DEF Init, BufferInit
  <2>2. workByGroupId \in [{} -> WorkState] /\ born \in [{} -> 0 .. genVersion]
    BY DEF Init, BufferInit
  <2>3. activeRolloutGroups = 0 /\ groupIndex = 0 /\ closed \in BOOLEAN
    BY DEF Init, BufferInit
  <2>4. QED
    BY <2>1, <2>2, <2>3 DEF BufferTypeOK
<1>2. LoopTypeOK
  BY DEF Init, LoopTypeOK, PcBeforeStep
<1>3. BatchTypeOK /\ CounterTypeOK
  BY DEF Init, BatchTypeOK, CounterTypeOK, IsBatch
<1>4. DOMAIN workByGroupId = {}
  BY DEF Init, BufferInit
<1>5. Lifecycle
  BY <1>4 DEF Init, Lifecycle, Running, PcBeforeStep
<1>6. Stages
  BY DEF Init, Stages, PcBeforeStep, P
<1>7. OnePlace
  BY <1>4 DEF Init, OnePlace
<1>8. SlotAccounting /\ SyncingCharged /\ SlotSeen
  BY <1>4 DEF Init, BufferInit, SlotAccounting, SyncingCharged, SlotSeen
<1>9. QED
  BY <1>1, <1>2, <1>3, <1>5, <1>6, <1>7, <1>8 DEF SlotInv, TypeOK

(* Cardinality facts of the batcher's two moves: the taken group leaves    *)
(* the dict for the hand, and the packed group joins the accumulated ones. *)
LEMMA TakeMoves ==
  ASSUME SlotInv, NEW g \in DOMAIN workByGroupId, BatcherTake(g)
  PROVE  /\ DOMAIN workByGroupId' = DOMAIN workByGroupId \ {g}
         /\ Cardinality(DOMAIN workByGroupId') =
              Cardinality(DOMAIN workByGroupId) - 1
         /\ Cardinality(hand) = 0 /\ Cardinality(hand') = 1
<1>1. DOMAIN workByGroupId' = DOMAIN workByGroupId \ {g}
  BY DEF BatcherTake, TakeFinalized, WithoutGroup
<1>2. IsFiniteSet(DOMAIN workByGroupId)
  BY Finiteness DEF SlotInv
<1>3. Cardinality(DOMAIN workByGroupId') = Cardinality(DOMAIN workByGroupId) - 1
  BY <1>1, <1>2, RemoveOne
<1>4. hand = {} /\ hand' = {g}
  BY DEF BatcherTake, SlotInv, Stages
<1>5. QED
  BY <1>1, <1>3, <1>4, FS_EmptySet, FS_Singleton

LEMMA PackMoves ==
  ASSUME SlotInv, BatcherPackTrainable
  PROVE  /\ Cardinality(hand) = 1 /\ Cardinality(hand') = 0
         /\ ready = {} /\ Cardinality(ready) = 0
         /\ Cardinality(groupsForNextBatch \cup hand) =
              Cardinality(groupsForNextBatch) + 1
         /\ \/ /\ groupsForNextBatch' = groupsForNextBatch \cup hand
               /\ ready' = {}
               /\ Cardinality(groupsForNextBatch') =
                    Cardinality(groupsForNextBatch) + 1
               /\ Cardinality(groupsForNextBatch') < P
               /\ Cardinality(ready') = 0
               /\ batcherPc' = "take"
            \/ /\ groupsForNextBatch' = {}
               /\ ready' = groupsForNextBatch \cup hand
               /\ Cardinality(groupsForNextBatch) + 1 = P
               /\ Cardinality(groupsForNextBatch') = 0
               /\ Cardinality(ready') = P
               /\ ready' # {}
               /\ batcherPc' = "put"
<1>1. /\ Cardinality(hand) = 1 /\ hand' = {} /\ ready = {}
      /\ Cardinality(groupsForNextBatch) < P
  BY DEF BatcherPackTrainable, SlotInv, Stages
<1>2. IsFiniteSet(hand) /\ IsFiniteSet(groupsForNextBatch)
      /\ Cardinality(groupsForNextBatch) \in Nat
  BY Finiteness DEF SlotInv
<1>3. PICK g : hand = {g}
  BY <1>1, <1>2, FS_Singleton
<1>4. g \notin groupsForNextBatch
  BY <1>3 DEF SlotInv, OnePlace
<1>5. Cardinality(groupsForNextBatch \cup hand) =
        Cardinality(groupsForNextBatch) + 1
  BY <1>2, <1>3, <1>4, AddOne
<1>6. groupsForNextBatch \cup hand # {}
  BY <1>3
<1>7. CASE Cardinality(groupsForNextBatch \cup hand) = NumPromptsPerTrainStep
  BY <1>1, <1>5, <1>6, <1>7, FS_EmptySet DEF BatcherPackTrainable, P
<1>8. CASE Cardinality(groupsForNextBatch \cup hand) # NumPromptsPerTrainStep
  BY <1>1, <1>2, <1>5, <1>8, FS_EmptySet, AsyncAssumption
     DEF BatcherPackTrainable, P
<1>9. QED
  BY <1>7, <1>8

LEMMA AddWorkMoves ==
  ASSUME TypeOK, AddWork(groupIndex)
  PROVE  /\ DOMAIN workByGroupId' = DOMAIN workByGroupId \cup {groupIndex}
         /\ groupIndex \notin DOMAIN workByGroupId
         /\ Cardinality(DOMAIN workByGroupId') =
              Cardinality(DOMAIN workByGroupId) + 1
<1>1. DOMAIN workByGroupId' = DOMAIN workByGroupId \cup {groupIndex}
  BY DEF AddWork, WithState
<1>2. groupIndex \notin DOMAIN workByGroupId
  BY DEF TypeOK, BufferTypeOK
<1>3. QED
  BY <1>1, <1>2, Finiteness, AddOne

LEMMA AccountingStep == SlotInv /\ [Next]_vars => SlotAccounting'
<1> SUFFICES ASSUME SlotInv, [Next]_vars, Running'
             PROVE  SlotAccounting'
  BY DEF SlotAccounting
<1> USE DEF bufferVars, dataVars, batcherVars, trainerVars, syncVars
<1>f. \A G \in {DOMAIN workByGroupId, hand, groupsForNextBatch, ready, queued,
               training, syncing} : IsFiniteSet(G) /\ Cardinality(G) \in Nat
  BY Finiteness DEF SlotInv
<1>e. Cardinality({}) = 0
  BY FS_EmptySet
<1>r. /\ Running
      /\ activeRolloutGroups =
           Cardinality(DOMAIN workByGroupId) + Cardinality(hand)
             + Cardinality(groupsForNextBatch) + Cardinality(ready)
             + Cardinality(queued) + Cardinality(training)
             + Cardinality(syncing)
  BY DEF SlotInv, SlotAccounting, Running, Next, DataInputLoop, DataWaitForSlot,
         DataAddWork, DataCrash, RolloutLoop, RolloutClaim, RolloutFinalize,
         BatcherLoop, BatcherTake, BatcherPackTrainable,
         BatcherPackUntrainable, BatcherRelease, BatcherPut, BatcherCrash,
         TrainerLoop, TrainerAdvances, TrainerGet, TrainerForwardBackward, TrainerWaitPrevPush,
         TrainerOptimStep, TrainerStartSync, TrainerSyncFailed, TrainerSave,
         TrainerDrain, TrainerCrash, PushModelStateDict, PullTask,
         PullAwaitPush, PullModelStateDict, PullRelease, RunShutdown,
         Terminated, vars
<1>1. CASE DataInputLoop
  <2>1. CASE AddWork(groupIndex) /\ DataAddWork
    BY <1>f, <1>r, <2>1, AddWorkMoves
       DEF SlotAccounting, DataAddWork, AddWork, SlotInv
  <2>2. CASE ~AddWork(groupIndex) \/ ~DataAddWork
    BY <1>1, <1>r, <2>2
       DEF SlotAccounting, DataInputLoop, DataWaitForSlot, DataAddWork, DataCrash
  <2>3. QED
    BY <2>1, <2>2
<1>2. CASE RolloutLoop
  <2>1. PICK g \in DOMAIN workByGroupId : RolloutClaim(g) \/ RolloutFinalize(g)
    BY <1>2 DEF RolloutLoop
  <2>2. DOMAIN workByGroupId' = DOMAIN workByGroupId
    BY <2>1 DEF RolloutClaim, RolloutFinalize, ClaimNext, FinalizeWork, WithState
  <2>3. QED
    BY <1>r, <2>1, <2>2 DEF SlotAccounting, RolloutClaim, RolloutFinalize,
                            ClaimNext, FinalizeWork
<1>3. CASE BatcherLoop
  <2>1. ASSUME NEW g \in DOMAIN workByGroupId, BatcherTake(g)
        PROVE  SlotAccounting'
    <3>1. /\ Cardinality(DOMAIN workByGroupId') =
               Cardinality(DOMAIN workByGroupId) - 1
          /\ Cardinality(hand) = 0 /\ Cardinality(hand') = 1
      BY <2>1, TakeMoves
    <3>2. UNCHANGED <<activeRolloutGroups, groupsForNextBatch, ready, queued,
                      training, syncing>>
      BY <2>1 DEF BatcherTake, TakeFinalized
    <3>3. QED
      BY <1>f, <1>r, <3>1, <3>2 DEF SlotAccounting
  <2>2. CASE BatcherPackTrainable
    <3>1. UNCHANGED <<activeRolloutGroups, workByGroupId, queued, training,
                      syncing>>
      BY <2>2 DEF BatcherPackTrainable
    <3>2. QED
      BY <1>f, <1>r, <2>2, <3>1, PackMoves DEF SlotAccounting
  <2>3. CASE BatcherPackUntrainable
    BY <1>r, <2>3 DEF SlotAccounting, BatcherPackUntrainable
  <2>4. CASE BatcherRelease
    <3>1. Cardinality(hand) = 1
      BY <2>4 DEF BatcherRelease, SlotInv, Stages
    <3>2. \/ /\ activeRolloutGroups' = activeRolloutGroups - 1
             /\ Cardinality(hand') = 0
          \/ UNCHANGED <<activeRolloutGroups, hand>>
      BY <1>e, <2>4 DEF BatcherRelease, ReleaseActiveGroups
    <3>3. UNCHANGED <<workByGroupId, groupsForNextBatch, ready, queued,
                      training, syncing>>
      BY <2>4 DEF BatcherRelease, ReleaseActiveGroups
    <3>4. QED
      BY <1>f, <1>r, <3>1, <3>2, <3>3 DEF SlotAccounting
  <2>5. CASE BatcherPut
    <3>1. /\ Cardinality(queued) = 0 /\ Cardinality(ready') = 0
          /\ Cardinality(queued') = Cardinality(ready)
      BY <1>e, <2>5 DEF BatcherPut
    <3>2. UNCHANGED <<activeRolloutGroups, workByGroupId, hand,
                      groupsForNextBatch, training, syncing>>
      BY <2>5 DEF BatcherPut
    <3>3. QED
      BY <1>f, <1>r, <3>1, <3>2 DEF SlotAccounting
  <2>6. CASE BatcherCrash
    BY <1>r, <2>6 DEF SlotAccounting, BatcherCrash
  <2>7. QED
    BY <1>3, <2>1, <2>2, <2>3, <2>4, <2>5, <2>6 DEF BatcherLoop
<1>4. CASE TrainerLoop
  <2>1. CASE TrainerGet
    <3>1. Cardinality(training) = 0
      BY <1>e, <2>1 DEF TrainerGet, SlotInv, Stages
    <3>2. /\ Cardinality(training') = Cardinality(queued)
          /\ Cardinality(queued') = 0
      BY <1>e, <2>1 DEF TrainerGet
    <3>3. UNCHANGED <<activeRolloutGroups, workByGroupId, hand,
                      groupsForNextBatch, ready, syncing>>
      BY <2>1 DEF TrainerGet
    <3>4. QED
      BY <1>f, <1>r, <3>1, <3>2, <3>3 DEF SlotAccounting
  <2>2. CASE TrainerStartSync
    <3>1. Cardinality(syncing) = 0
      BY <1>e, <2>2 DEF TrainerStartSync, PrevPullEnded, SlotInv, Stages
    <3>2. /\ Cardinality(syncing') = Cardinality(training)
          /\ Cardinality(training') = 0
      BY <1>e, <2>2 DEF TrainerStartSync
    <3>3. UNCHANGED <<activeRolloutGroups, workByGroupId, hand,
                      groupsForNextBatch, ready, queued>>
      BY <2>2 DEF TrainerStartSync
    <3>4. QED
      BY <1>f, <1>r, <3>1, <3>2, <3>3 DEF SlotAccounting
  <2>3. CASE ~TrainerGet /\ ~TrainerStartSync
    BY <1>4, <1>r, <2>3
       DEF SlotAccounting, TrainerLoop, TrainerAdvances, TrainerForwardBackward,
           TrainerWaitPrevPush, TrainerOptimStep, TrainerSyncFailed,
           TrainerSave, TrainerDrain, TrainerCrash
  <2>4. QED
    BY <2>1, <2>2, <2>3
<1>5. CASE PushModelStateDict
  BY <1>5, <1>r DEF SlotAccounting, PushModelStateDict
<1>6. CASE PullTask
  <2>1. CASE PullRelease
    <3>1. Cardinality(syncing) = NumPromptsPerTrainStep
      BY <2>1 DEF PullRelease, SlotInv, TypeOK, BatchTypeOK, IsBatch, Stages
    <3>2. \/ /\ activeRolloutGroups' = activeRolloutGroups - NumPromptsPerTrainStep
             /\ Cardinality(syncing') = 0
          \/ UNCHANGED <<activeRolloutGroups, syncing>>
      BY <1>e, <2>1 DEF PullRelease, ReleaseActiveGroups
    <3>3. UNCHANGED <<workByGroupId, hand, groupsForNextBatch, ready, queued,
                      training>>
      BY <2>1 DEF PullRelease, ReleaseActiveGroups
    <3>4. QED
      BY <1>f, <1>r, <3>1, <3>2, <3>3 DEF SlotAccounting
  <2>2. CASE ~PullRelease
    BY <1>6, <1>r, <2>2
       DEF SlotAccounting, PullTask, PullAwaitPush, PullModelStateDict
  <2>3. QED
    BY <2>1, <2>2
<1>7. CASE RunShutdown
  BY <1>7 DEF RunShutdown, Running
<1>8. CASE Terminated \/ UNCHANGED vars
  BY <1>8, <1>r DEF SlotAccounting, Terminated, vars
<1>9. QED
  BY <1>1, <1>2, <1>3, <1>4, <1>5, <1>6, <1>7, <1>8 DEF Next

LEMMA SyncingStep == SlotInv /\ [Next]_vars => SyncingCharged'
<1> SUFFICES ASSUME SlotInv, [Next]_vars
             PROVE  SyncingCharged'
  OBVIOUS
<1> USE DEF bufferVars, dataVars, batcherVars, trainerVars, syncVars
<1>f. /\ \A G \in {DOMAIN workByGroupId, hand, groupsForNextBatch, ready, queued,
                  training, syncing} : Cardinality(G) \in Nat
      /\ activeRolloutGroups \in Nat /\ NumPromptsPerTrainStep \in Nat
      /\ activeRolloutGroups >= Cardinality(syncing)
  BY Finiteness, BufferAssumption, AsyncAssumption
     DEF SlotInv, TypeOK, BufferTypeOK, SyncingCharged
<1>e. Cardinality({}) = 0
  BY FS_EmptySet
<1>1. CASE DataInputLoop
  BY <1>1, <1>f DEF SyncingCharged, DataInputLoop, DataWaitForSlot, DataAddWork,
                    DataCrash, AddWork
<1>2. CASE RolloutLoop
  BY <1>2, <1>f DEF SyncingCharged, RolloutLoop, RolloutClaim, RolloutFinalize,
                    ClaimNext, FinalizeWork
<1>3. CASE BatcherRelease
  <2>1. Cardinality(hand) = 1 /\ Running
    BY <1>3 DEF BatcherRelease, SlotInv, Stages, Lifecycle
  <2>2. activeRolloutGroups >= 1 + Cardinality(syncing)
    BY <1>f, <2>1 DEF SlotInv, SlotAccounting
  <2>3. QED
    BY <1>3, <1>f, <2>2 DEF SyncingCharged, BatcherRelease, ReleaseActiveGroups
<1>4. CASE BatcherLoop /\ ~BatcherRelease
  BY <1>4, <1>f DEF SyncingCharged, BatcherLoop, BatcherTake,
                    BatcherPackTrainable, BatcherPackUntrainable, BatcherPut,
                    BatcherCrash, TakeFinalized
<1>5. CASE TrainerStartSync
  <2>1. syncing = {} /\ Running
    BY <1>5 DEF TrainerStartSync, PrevPullEnded, SlotInv, Stages, Lifecycle
  <2>2. activeRolloutGroups >= Cardinality(training)
    BY <1>f, <2>1 DEF SlotInv, SlotAccounting
  <2>3. QED
    BY <1>5, <2>2 DEF SyncingCharged, TrainerStartSync
<1>6. CASE TrainerLoop /\ ~TrainerStartSync
  BY <1>6, <1>f DEF SyncingCharged, TrainerLoop, TrainerAdvances, TrainerGet,
                    TrainerForwardBackward, TrainerWaitPrevPush,
                    TrainerOptimStep, TrainerSyncFailed, TrainerSave,
                    TrainerDrain, TrainerCrash
<1>7. CASE PushModelStateDict
  BY <1>7, <1>f DEF SyncingCharged, PushModelStateDict
<1>8. CASE PullTask
  BY <1>8, <1>f, <1>e DEF SyncingCharged, PullTask, PullAwaitPush,
     PullModelStateDict, PullRelease, ReleaseActiveGroups, CanRelease
<1>9. CASE RunShutdown \/ Terminated \/ UNCHANGED vars
  BY <1>9, <1>f DEF SyncingCharged, RunShutdown, Terminated, Close, vars
<1>10. QED
  BY <1>1, <1>2, <1>3, <1>4, <1>5, <1>6, <1>7, <1>8, <1>9 DEF Next

(* Each remaining part of the invariant is kept by every loop's steps.     *)
LEMMA LoopTypeStep == LoopTypeOK /\ [Next]_vars => LoopTypeOK'
<1> SUFFICES ASSUME LoopTypeOK, [Next]_vars PROVE LoopTypeOK'
  OBVIOUS
<1> USE BufferAssumption, AsyncAssumption DEF bufferVars, dataVars, batcherVars, trainerVars, syncVars, LoopTypeOK, PcBeforeStep
<1>1. CASE DataInputLoop
  BY <1>1 DEF DataInputLoop, DataWaitForSlot, DataAddWork, DataCrash
<1>2. CASE RolloutLoop
  BY <1>2 DEF RolloutLoop, RolloutClaim, RolloutFinalize
<1>3. CASE BatcherLoop
  BY <1>3 DEF BatcherLoop, BatcherTake, BatcherPackTrainable, BatcherPackUntrainable, BatcherRelease, BatcherPut, BatcherCrash
<1>4. CASE TrainerLoop
  BY <1>4 DEF TrainerLoop, TrainerAdvances, TrainerGet, TrainerForwardBackward, TrainerWaitPrevPush, TrainerOptimStep, TrainerStartSync, TrainerSyncFailed, TrainerSave, TrainerDrain, TrainerCrash
<1>5. CASE PushModelStateDict
  BY <1>5 DEF PushModelStateDict
<1>6. CASE PullTask
  BY <1>6 DEF PullTask, PullAwaitPush, PullModelStateDict, PullRelease
<1>7. CASE RunShutdown
  BY <1>7 DEF RunShutdown, Cancelled
<1>8. CASE Terminated
  BY <1>8 DEF Terminated, vars
<1>9. CASE UNCHANGED vars
  BY <1>9 DEF vars
<1>10. QED
  BY <1>1, <1>2, <1>3, <1>4, <1>5, <1>6, <1>7, <1>8, <1>9 DEF Next

LEMMA CounterTypeStep == CounterTypeOK /\ [Next]_vars => CounterTypeOK'
<1> SUFFICES ASSUME CounterTypeOK, [Next]_vars PROVE CounterTypeOK'
  OBVIOUS
<1> USE BufferAssumption, AsyncAssumption DEF bufferVars, dataVars, batcherVars, trainerVars, syncVars, CounterTypeOK
<1>1. CASE DataInputLoop
  BY <1>1 DEF DataInputLoop, DataWaitForSlot, DataAddWork, DataCrash
<1>2. CASE RolloutLoop
  BY <1>2 DEF RolloutLoop, RolloutClaim, RolloutFinalize
<1>3. CASE BatcherLoop
  BY <1>3 DEF BatcherLoop, BatcherTake, BatcherPackTrainable, BatcherPackUntrainable, BatcherRelease, BatcherPut, BatcherCrash
<1>4. CASE TrainerLoop
  BY <1>4 DEF TrainerLoop, TrainerAdvances, TrainerGet, TrainerForwardBackward, TrainerWaitPrevPush, TrainerOptimStep, TrainerStartSync, TrainerSyncFailed, TrainerSave, TrainerDrain, TrainerCrash
<1>5. CASE PushModelStateDict
  BY <1>5 DEF PushModelStateDict
<1>6. CASE PullTask
  BY <1>6 DEF PullTask, PullAwaitPush, PullModelStateDict, PullRelease
<1>7. CASE RunShutdown
  BY <1>7 DEF RunShutdown, Cancelled
<1>8. CASE Terminated
  BY <1>8 DEF Terminated, vars
<1>9. CASE UNCHANGED vars
  BY <1>9 DEF vars
<1>10. QED
  BY <1>1, <1>2, <1>3, <1>4, <1>5, <1>6, <1>7, <1>8, <1>9 DEF Next

LEMMA BufferTypeStep == BufferTypeOK /\ CounterTypeOK /\ [Next]_vars => BufferTypeOK'
<1> SUFFICES ASSUME BufferTypeOK /\ CounterTypeOK, [Next]_vars PROVE BufferTypeOK'
  OBVIOUS
<1> USE BufferAssumption, AsyncAssumption DEF bufferVars, dataVars, batcherVars, trainerVars, syncVars, BufferTypeOK, CounterTypeOK, WorkState, SetBorn, Forget, Close, AddWork, ReleaseActiveGroups, TakeFinalized, ClaimNext, FinalizeWork, WithState, WithoutGroup, CanRelease, HasActiveSlotAvailable, GroupsIn, SlotGranted
<1>1. CASE DataInputLoop
  BY <1>1 DEF DataInputLoop, DataWaitForSlot, DataAddWork, DataCrash
<1>2. CASE RolloutLoop
  BY <1>2 DEF RolloutLoop, RolloutClaim, RolloutFinalize
<1>3. CASE BatcherLoop
  <2>1. CASE \E g \in DOMAIN workByGroupId : BatcherTake(g)
    BY <2>1 DEF BatcherTake
  <2>2. CASE BatcherPackTrainable
    BY <2>2 DEF BatcherPackTrainable
  <2>3. CASE BatcherPackUntrainable
    BY <2>3 DEF BatcherPackUntrainable
  <2>4. CASE BatcherRelease
    BY <2>4 DEF BatcherRelease
  <2>5. CASE BatcherPut
    BY <2>5 DEF BatcherPut
  <2>6. CASE BatcherCrash
    BY <2>6 DEF BatcherCrash
  <2>7. QED
    BY <1>3, <2>1, <2>2, <2>3, <2>4, <2>5, <2>6 DEF BatcherLoop
<1>4. CASE TrainerLoop
  BY <1>4 DEF TrainerLoop, TrainerAdvances, TrainerGet, TrainerForwardBackward, TrainerWaitPrevPush, TrainerOptimStep, TrainerStartSync, TrainerSyncFailed, TrainerSave, TrainerDrain, TrainerCrash
<1>5. CASE PushModelStateDict
  BY <1>5 DEF PushModelStateDict
<1>6. CASE PullTask
  BY <1>6 DEF PullTask, PullAwaitPush, PullModelStateDict, PullRelease
<1>7. CASE RunShutdown
  BY <1>7 DEF RunShutdown, Cancelled
<1>8. CASE Terminated
  BY <1>8 DEF Terminated, vars
<1>9. CASE UNCHANGED vars
  BY <1>9 DEF vars
<1>10. QED
  BY <1>1, <1>2, <1>3, <1>4, <1>5, <1>6, <1>7, <1>8, <1>9 DEF Next

LEMMA BatchTypeStep == BatchTypeOK /\ BufferTypeOK /\ [Next]_vars => BatchTypeOK'
<1> SUFFICES ASSUME BatchTypeOK /\ BufferTypeOK, [Next]_vars PROVE BatchTypeOK'
  OBVIOUS
<1> USE BufferAssumption, AsyncAssumption DEF bufferVars, dataVars, batcherVars, trainerVars, syncVars, BatchTypeOK, BufferTypeOK, IsBatch, Close, AddWork, ReleaseActiveGroups, TakeFinalized, ClaimNext, FinalizeWork, WithState, WithoutGroup, CanRelease, HasActiveSlotAvailable, GroupsIn, SlotGranted
<1>1. CASE DataInputLoop
  BY <1>1 DEF DataInputLoop, DataWaitForSlot, DataAddWork, DataCrash
<1>2. CASE RolloutLoop
  BY <1>2 DEF RolloutLoop, RolloutClaim, RolloutFinalize
<1>3. CASE BatcherLoop
  BY <1>3 DEF BatcherLoop, BatcherTake, BatcherPackTrainable, BatcherPackUntrainable, BatcherRelease, BatcherPut, BatcherCrash
<1>4. CASE TrainerLoop
  BY <1>4 DEF TrainerLoop, TrainerAdvances, TrainerGet, TrainerForwardBackward, TrainerWaitPrevPush, TrainerOptimStep, TrainerStartSync, TrainerSyncFailed, TrainerSave, TrainerDrain, TrainerCrash
<1>5. CASE PushModelStateDict
  BY <1>5 DEF PushModelStateDict
<1>6. CASE PullTask
  BY <1>6 DEF PullTask, PullAwaitPush, PullModelStateDict, PullRelease
<1>7. CASE RunShutdown
  BY <1>7 DEF RunShutdown, Cancelled
<1>8. CASE Terminated
  BY <1>8 DEF Terminated, vars
<1>9. CASE UNCHANGED vars
  BY <1>9 DEF vars
<1>10. QED
  BY <1>1, <1>2, <1>3, <1>4, <1>5, <1>6, <1>7, <1>8, <1>9 DEF Next

LEMMA LifecycleStep == LoopTypeOK /\ Lifecycle /\ [Next]_vars => Lifecycle'
<1> SUFFICES ASSUME LoopTypeOK /\ Lifecycle, [Next]_vars PROVE Lifecycle'
  OBVIOUS
<1> USE BufferAssumption, AsyncAssumption DEF bufferVars, dataVars, batcherVars, trainerVars, syncVars, LoopTypeOK, Lifecycle, Running, Close, AddWork, ReleaseActiveGroups, TakeFinalized, ClaimNext, FinalizeWork, PcBeforeStep
<1>1. CASE DataInputLoop
  BY <1>1 DEF DataInputLoop, DataWaitForSlot, DataAddWork, DataCrash
<1>2. CASE RolloutLoop
  BY <1>2 DEF RolloutLoop, RolloutClaim, RolloutFinalize
<1>3. CASE BatcherLoop
  BY <1>3 DEF BatcherLoop, BatcherTake, BatcherPackTrainable, BatcherPackUntrainable, BatcherRelease, BatcherPut, BatcherCrash
<1>4. CASE TrainerLoop
  BY <1>4 DEF TrainerLoop, TrainerAdvances, TrainerGet, TrainerForwardBackward, TrainerWaitPrevPush, TrainerOptimStep, TrainerStartSync, TrainerSyncFailed, TrainerSave, TrainerDrain, TrainerCrash
<1>5. CASE PushModelStateDict
  BY <1>5 DEF PushModelStateDict
<1>6. CASE PullTask
  BY <1>6 DEF PullTask, PullAwaitPush, PullModelStateDict, PullRelease
<1>7. CASE RunShutdown
  BY <1>7 DEF RunShutdown, Cancelled
<1>8. CASE Terminated
  BY <1>8 DEF Terminated, vars
<1>9. CASE UNCHANGED vars
  BY <1>9 DEF vars
<1>10. QED
  BY <1>1, <1>2, <1>3, <1>4, <1>5, <1>6, <1>7, <1>8, <1>9 DEF Next

LEMMA StagesStep == SlotInv /\ [Next]_vars => Stages'
<1> SUFFICES ASSUME SlotInv, [Next]_vars PROVE Stages'
  OBVIOUS
<1> USE BufferAssumption, AsyncAssumption, FS_EmptySet, FS_Singleton DEF bufferVars, dataVars, batcherVars, trainerVars, syncVars, SlotInv, TypeOK, LoopTypeOK, BatchTypeOK, Stages, PcBeforeStep, IsBatch, P, PrevPullEnded
<1>1. CASE DataInputLoop
  <2>1. UNCHANGED <<hand, groupsForNextBatch, ready, training, syncing, trainerPc, pullTask>>
    BY <1>1 DEF DataInputLoop, DataWaitForSlot, DataAddWork, DataCrash
  <2>2. UNCHANGED batcherPc
    BY <1>1 DEF DataInputLoop, DataWaitForSlot, DataAddWork, DataCrash
  <2> QED
    BY <2>1, <2>2
<1>2. CASE RolloutLoop
  BY <1>2 DEF RolloutLoop, RolloutClaim, RolloutFinalize
<1>3. CASE BatcherLoop
  <2>1. CASE \E g \in DOMAIN workByGroupId : BatcherTake(g)
    BY <2>1 DEF BatcherTake
  <2>2. CASE BatcherPackTrainable
    BY <2>2, PackMoves DEF BatcherPackTrainable
  <2>3. CASE BatcherPackUntrainable
    BY <2>3 DEF BatcherPackUntrainable
  <2>4. CASE BatcherRelease
    BY <2>4 DEF BatcherRelease
  <2>5. CASE BatcherPut
    BY <2>5 DEF BatcherPut
  <2>6. CASE BatcherCrash
    BY <2>6 DEF BatcherCrash
  <2>7. QED
    BY <1>3, <2>1, <2>2, <2>3, <2>4, <2>5, <2>6 DEF BatcherLoop
<1>4. CASE TrainerLoop
  <2>1. CASE TrainerGet
    BY <2>1 DEF TrainerGet
  <2>2. CASE TrainerForwardBackward
    BY <2>2 DEF TrainerForwardBackward
  <2>3. CASE TrainerWaitPrevPush
    BY <2>3 DEF TrainerWaitPrevPush
  <2>4. CASE TrainerOptimStep
    BY <2>4 DEF TrainerOptimStep
  <2>5. CASE TrainerStartSync
    BY <2>5 DEF TrainerStartSync
  <2>6. CASE TrainerSyncFailed
    BY <2>6 DEF TrainerSyncFailed
  <2>7. CASE TrainerSave
    BY <2>7 DEF TrainerSave
  <2>8. CASE TrainerDrain
    BY <2>8 DEF TrainerDrain
  <2>9. CASE TrainerCrash
    BY <2>9 DEF TrainerCrash
  <2> QED
    BY <1>4, <2>1, <2>2, <2>3, <2>4, <2>5, <2>6, <2>7, <2>8, <2>9
       DEF TrainerLoop, TrainerAdvances
<1>5. CASE PushModelStateDict
  BY <1>5 DEF PushModelStateDict
<1>6. CASE PullTask
  BY <1>6 DEF PullTask, PullAwaitPush, PullModelStateDict, PullRelease
<1>7. CASE RunShutdown
  BY <1>7 DEF RunShutdown, Cancelled
<1>8. CASE Terminated
  BY <1>8 DEF Terminated, vars
<1>9. CASE UNCHANGED vars
  BY <1>9 DEF vars
<1>10. QED
  BY <1>1, <1>2, <1>3, <1>4, <1>5, <1>6, <1>7, <1>8, <1>9 DEF Next

LEMMA OnePlaceStep == SlotInv /\ [Next]_vars => OnePlace'
<1> SUFFICES ASSUME SlotInv, [Next]_vars PROVE OnePlace'
  OBVIOUS
<1> USE BufferAssumption, AsyncAssumption DEF bufferVars, dataVars, batcherVars, trainerVars, syncVars, SlotInv, TypeOK, BufferTypeOK, BatchTypeOK, Stages, OnePlace, Close, AddWork, ReleaseActiveGroups, TakeFinalized, ClaimNext, FinalizeWork, WithState, WithoutGroup, CanRelease, HasActiveSlotAvailable, GroupsIn, SlotGranted
<1>1. CASE DataInputLoop
  <2>1. \A G \in {DOMAIN workByGroupId, hand, groupsForNextBatch, ready, queued,
                 training} : groupIndex \notin G
    BY DEF IsBatch
  <2>2. /\ DOMAIN workByGroupId' \subseteq DOMAIN workByGroupId \cup {groupIndex}
        /\ UNCHANGED <<hand, groupsForNextBatch, ready, queued, training>>
    BY <1>1 DEF DataInputLoop, DataWaitForSlot, DataAddWork, DataCrash
  <2>3. QED
    BY <2>1, <2>2
<1>2. CASE RolloutLoop
  BY <1>2 DEF RolloutLoop, RolloutClaim, RolloutFinalize
<1>3. CASE BatcherLoop
  <2>1. CASE \E g \in DOMAIN workByGroupId : BatcherTake(g)
    BY <2>1 DEF BatcherTake
  <2>2. CASE BatcherPackTrainable
    BY <2>2 DEF BatcherPackTrainable
  <2>3. CASE BatcherPackUntrainable
    BY <2>3 DEF BatcherPackUntrainable
  <2>4. CASE BatcherRelease
    BY <2>4 DEF BatcherRelease
  <2>5. CASE BatcherPut
    BY <2>5 DEF BatcherPut
  <2>6. CASE BatcherCrash
    BY <2>6 DEF BatcherCrash
  <2>7. QED
    BY <1>3, <2>1, <2>2, <2>3, <2>4, <2>5, <2>6 DEF BatcherLoop
<1>4. CASE TrainerLoop
  BY <1>4 DEF TrainerLoop, TrainerAdvances, TrainerGet, TrainerForwardBackward, TrainerWaitPrevPush, TrainerOptimStep, TrainerStartSync, TrainerSyncFailed, TrainerSave, TrainerDrain, TrainerCrash
<1>5. CASE PushModelStateDict
  BY <1>5 DEF PushModelStateDict
<1>6. CASE PullTask
  BY <1>6 DEF PullTask, PullAwaitPush, PullModelStateDict, PullRelease
<1>7. CASE RunShutdown
  BY <1>7 DEF RunShutdown, Cancelled
<1>8. CASE Terminated
  BY <1>8 DEF Terminated, vars
<1>9. CASE UNCHANGED vars
  BY <1>9 DEF vars
<1>10. QED
  BY <1>1, <1>2, <1>3, <1>4, <1>5, <1>6, <1>7, <1>8, <1>9 DEF Next

LEMMA SlotSeenStep == SlotInv /\ [Next]_vars => SlotSeen'
<1> SUFFICES ASSUME SlotInv, [Next]_vars PROVE SlotSeen'
  OBVIOUS
<1> USE BufferAssumption, AsyncAssumption DEF bufferVars, dataVars, batcherVars, trainerVars, syncVars, SlotInv, TypeOK, BufferTypeOK, SlotSeen, Close, AddWork, ReleaseActiveGroups, TakeFinalized, ClaimNext, FinalizeWork, WithState, WithoutGroup, CanRelease, HasActiveSlotAvailable, GroupsIn, SlotGranted
<1>1. CASE DataInputLoop
  BY <1>1 DEF DataInputLoop, DataWaitForSlot, DataAddWork, DataCrash
<1>2. CASE RolloutLoop
  BY <1>2 DEF RolloutLoop, RolloutClaim, RolloutFinalize
<1>3. CASE BatcherLoop
  <2>1. CASE \E g \in DOMAIN workByGroupId : BatcherTake(g)
    BY <2>1 DEF BatcherTake
  <2>2. CASE BatcherPackTrainable
    BY <2>2 DEF BatcherPackTrainable
  <2>3. CASE BatcherPackUntrainable
    BY <2>3 DEF BatcherPackUntrainable
  <2>4. CASE BatcherRelease
    BY <2>4 DEF BatcherRelease
  <2>5. CASE BatcherPut
    BY <2>5 DEF BatcherPut
  <2>6. CASE BatcherCrash
    BY <2>6 DEF BatcherCrash
  <2>7. QED
    BY <1>3, <2>1, <2>2, <2>3, <2>4, <2>5, <2>6 DEF BatcherLoop
<1>4. CASE TrainerLoop
  BY <1>4 DEF TrainerLoop, TrainerAdvances, TrainerGet, TrainerForwardBackward, TrainerWaitPrevPush, TrainerOptimStep, TrainerStartSync, TrainerSyncFailed, TrainerSave, TrainerDrain, TrainerCrash
<1>5. CASE PushModelStateDict
  BY <1>5 DEF PushModelStateDict
<1>6. CASE PullTask
  BY <1>6 DEF PullTask, PullAwaitPush, PullModelStateDict, PullRelease
<1>7. CASE RunShutdown
  BY <1>7 DEF RunShutdown, Cancelled
<1>8. CASE Terminated
  BY <1>8 DEF Terminated, vars
<1>9. CASE UNCHANGED vars
  BY <1>9 DEF vars
<1>10. QED
  BY <1>1, <1>2, <1>3, <1>4, <1>5, <1>6, <1>7, <1>8, <1>9 DEF Next

LEMMA SlotStep == SlotInv /\ [Next]_vars => SlotInv'
BY LoopTypeStep, CounterTypeStep, BufferTypeStep, BatchTypeStep,
   LifecycleStep, StagesStep, OnePlaceStep, SlotSeenStep, AccountingStep,
   SyncingStep DEF SlotInv, TypeOK

(* The invariant everything else rests on: types, the place of every group *)
(* and the slots it is charged.                                            *)
THEOREM SlotInvariant == Spec => []SlotInv
BY SlotInit, SlotStep, PTL DEF Spec

(* Every variable keeps its type; the slot counter stays within the budget *)
(* of the buffer and each stage holds nothing or one batch of P groups.    *)
THEOREM TypeCorrect == Spec => []TypeOK
<1>1. SlotInv => TypeOK
  BY DEF SlotInv
<1>2. QED
  BY SlotInvariant, <1>1, PTL

(* While the run lasts the charged slots are the groups of the pipeline.   *)
THEOREM SlotsAccounted == Spec => []SlotAccounting
<1>1. SlotInv => SlotAccounting
  BY DEF SlotInv
<1>2. QED
  BY SlotInvariant, <1>1, PTL

(* add_work and release_active_groups never raise.                         *)
THEOREM BufferCallsSucceed == Spec => []BufferCallsNeverRaise
<1>1. SlotInv => BufferCallsNeverRaise
  <2> SUFFICES ASSUME SlotInv PROVE BufferCallsNeverRaise
    OBVIOUS
  <2>1. dataPc = "get_sample" => HasActiveSlotAvailable
    BY DEF SlotInv, SlotSeen
  <2>2. \A G \in {DOMAIN workByGroupId, hand, groupsForNextBatch, ready, queued,
                 training, syncing} : Cardinality(G) \in Nat
    BY Finiteness DEF SlotInv
  <2>3. ASSUME batcherPc = "release" PROVE CanRelease(1)
    <3>1. Running /\ Cardinality(hand) = 1
      BY <2>3 DEF SlotInv, Lifecycle, Stages
    <3>2. QED
      BY <2>2, <3>1 DEF SlotInv, SlotAccounting, CanRelease
  <2>4. ASSUME pullTask = "releasing" PROVE CanRelease(NumPromptsPerTrainStep)
    <3>1. Cardinality(syncing) = NumPromptsPerTrainStep
      BY <2>4 DEF SlotInv, TypeOK, BatchTypeOK, IsBatch, Stages
    <3>2. QED
      BY <3>1 DEF SlotInv, SyncingCharged, CanRelease
  <2>5. QED
    BY <2>1, <2>3, <2>4 DEF BufferCallsNeverRaise
<1>2. QED
  BY SlotInvariant, <1>1, PTL

-------------------------------------------------------------------------------
(* Windowed FIFO.                                                          *)

(* What a step may do to the dict while the run lasts.                     *)
LEMMA DictStep ==
  ASSUME [Next]_vars, Running'
  PROVE  /\ Running
         /\ \/ DataAddWork /\ AddWork(groupIndex)
            \/ \E g \in DOMAIN workByGroupId : BatcherTake(g)
            \/ /\ DOMAIN workByGroupId' = DOMAIN workByGroupId
               /\ groupIndex' = groupIndex
<1> USE DEF bufferVars, dataVars, batcherVars, trainerVars, syncVars
<1>1. CASE DataInputLoop
  BY <1>1 DEF Running, DataInputLoop, DataWaitForSlot, DataAddWork, DataCrash
<1>2. CASE RolloutLoop
  BY <1>2 DEF Running, RolloutLoop, RolloutClaim, RolloutFinalize, ClaimNext,
              FinalizeWork, WithState
<1>3. CASE BatcherLoop /\ ~\E g \in DOMAIN workByGroupId : BatcherTake(g)
  BY <1>3 DEF Running, BatcherLoop, BatcherPackTrainable,
              BatcherPackUntrainable, BatcherRelease, BatcherPut,
              BatcherCrash, ReleaseActiveGroups
<1>4. ASSUME NEW g \in DOMAIN workByGroupId, BatcherTake(g)
      PROVE  Running
  BY <1>4 DEF BatcherTake, Running
<1>5. CASE TrainerLoop
  BY <1>5 DEF Running, TrainerLoop, TrainerAdvances, TrainerGet, TrainerForwardBackward,
              TrainerWaitPrevPush, TrainerOptimStep, TrainerStartSync,
              TrainerSyncFailed, TrainerSave, TrainerDrain, TrainerCrash
<1>6. CASE PushModelStateDict \/ PullTask
  BY <1>6 DEF Running, PushModelStateDict, PullTask, PullAwaitPush,
              PullModelStateDict, PullRelease, ReleaseActiveGroups
<1>7. CASE RunShutdown
  BY <1>7 DEF RunShutdown, Running
<1>8. CASE Terminated \/ UNCHANGED vars
  BY <1>8 DEF Terminated, Running, vars
<1>9. QED
  BY <1>1, <1>2, <1>3, <1>4, <1>5, <1>6, <1>7, <1>8 DEF Next, BatcherLoop

LEMMA WindowStep == SlotInv /\ WindowBypass /\ [Next]_vars => WindowBypass'
<1> SUFFICES ASSUME SlotInv, WindowBypass, [Next]_vars, Running',
                    NEW g \in DOMAIN workByGroupId',
                    NEW h \in 0 .. groupIndex' - 1, h \notin DOMAIN workByGroupId'
             PROVE  h < g + WindowSize
  BY DEF WindowBypass
<1>t. /\ groupIndex \in Nat /\ DOMAIN workByGroupId \subseteq 0 .. groupIndex - 1
      /\ WindowSize \in Nat /\ WindowSize >= 1 /\ Running
  BY DictStep, BufferAssumption DEF SlotInv, TypeOK, BufferTypeOK
<1>1. CASE DataAddWork /\ AddWork(groupIndex)
  <2>1. DOMAIN workByGroupId' = DOMAIN workByGroupId \cup {groupIndex}
    BY <1>1, AddWorkMoves DEF SlotInv
  <2>2. groupIndex' = groupIndex + 1
    BY <1>1 DEF DataAddWork, AddWork
  <2>3. CASE g = groupIndex
    BY <1>t, <2>2, <2>3
  <2>4. CASE g \in DOMAIN workByGroupId
    BY <1>t, <2>1, <2>2, <2>4 DEF WindowBypass
  <2>5. QED
    BY <2>1, <2>3, <2>4
<1>2. ASSUME NEW k \in DOMAIN workByGroupId, BatcherTake(k)
      PROVE  h < g + WindowSize
  <2>1. /\ DOMAIN workByGroupId' = DOMAIN workByGroupId \ {k}
        /\ groupIndex' = groupIndex /\ InWindow(k)
    BY <1>2 DEF BatcherTake, TakeFinalized, WithoutGroup, dataVars
  <2>2. CASE h = k
    BY <1>t, <2>1, <2>2 DEF InWindow
  <2>3. CASE h # k
    BY <1>t, <2>1, <2>3 DEF WindowBypass
  <2>4. QED
    BY <2>2, <2>3
<1>3. CASE DOMAIN workByGroupId' = DOMAIN workByGroupId /\ groupIndex' = groupIndex
  BY <1>t, <1>3 DEF WindowBypass
<1>4. QED
  BY <1>1, <1>2, <1>3, DictStep

(* Windowed FIFO holds: W - 1 younger groups at most overtake a group.     *)
THEOREM WindowedFifo == Spec => []WindowBypass
<1>1. Init => WindowBypass
  BY DEF Init, BufferInit, WindowBypass
<1>2. QED
  BY SlotInvariant, <1>1, WindowStep, PTL DEF Spec

-------------------------------------------------------------------------------
(* The weight sync: how far the generators trail the trainer, which        *)
(* weights they hold, and that nobody reads what another task is changing. *)

(* Versions.  A trainer that consumed a batch and not yet optimized works  *)
(* on the next version.                                                    *)
PendingVersion ==
  trainerVersion +
    (IF trainerPc \in {"fwd_bwd", "wait_push", "optim"} THEN 1 ELSE 0)

SyncInv ==
  /\ pullTask \in {"releasing", "done"} => genVersion = syncVersion
  /\ P * (PendingVersion - syncVersion) <= Cardinality(training)
  /\ P * (syncVersion - genVersion) <= Cardinality(syncing)

(* Which weights are where.  A push runs only while the trainer stays clear *)
(* of its optimizer step, and a pull only once its push is done.           *)
WeightsInv ==
  /\ genWeights = genVersion
  /\ pushTask = "running" => /\ pullTask = "await_push"
                             /\ trainerPc \notin {"optim", "wait_pull"}
  /\ pushTask = "done" => storeVersion = syncVersion
  /\ pullTask \in {"pulling", "releasing", "done"} => pushTask = "done"
  /\ trainerPc \in {"get", "fwd_bwd", "wait_push", "optim", "save",
                    "drain_push", "drain_pull", "finished"} =>
       syncVersion = trainerVersion
  /\ trainerPc \in {"drain_pull", "finished"} => pushTask = "done"
  /\ trainerPc = "finished" => pullTask = "done"
  /\ pushTask = "running" => syncVersion = trainerVersion
  /\ runState = "completed" => trainerPc = "finished"

-------------------------------------------------------------------------------
(* The versions of the weight sync.                                        *)
LEMMA TimesPlusOne ==
  ASSUME NEW a \in Nat, NEW x \in Int
  PROVE  /\ a * x \in Int
         /\ a * (x + 1) = a * x + a
         /\ a * (x - 1) = a * x - a
OBVIOUS

LEMMA TimesMonotone ==
  ASSUME NEW a \in Nat, NEW x \in Int, NEW y \in Int, x <= y
  PROVE  a * x <= a * y
<1>1. a * y - a * x = a * (y - x)
  OBVIOUS
<1>2. y - x \in Nat
  OBVIOUS
<1>3. a * (y - x) \in Nat
  BY <1>2
<1>4. QED
  BY <1>1, <1>3

LEMMA VersionTypes ==
  ASSUME TypeOK
  PROVE  /\ PendingVersion \in Nat /\ syncVersion \in Nat /\ genVersion \in Nat
         /\ trainerVersion \in Nat /\ P \in Nat /\ P >= 1
         /\ genVersion <= syncVersion /\ syncVersion <= trainerVersion
         /\ trainerVersion <= PendingVersion
BY AsyncAssumption DEF TypeOK, CounterTypeOK, PendingVersion, P

(* The version being worked on grows only when the trainer gets a batch.   *)
LEMMA PendingStep ==
  ASSUME SlotInv, [Next]_vars
  PROVE  \/ /\ TrainerGet
            /\ PendingVersion' = PendingVersion + 1
         \/ /\ ~TrainerGet
            /\ PendingVersion' \in {PendingVersion, PendingVersion - 1}
<1> USE DEF bufferVars, dataVars, batcherVars, trainerVars, syncVars,
            PendingVersion
<1>t. trainerVersion \in Nat
  BY DEF SlotInv, TypeOK, CounterTypeOK
<1>1. CASE DataInputLoop
  BY <1>1 DEF DataInputLoop, DataWaitForSlot, DataAddWork, DataCrash, TrainerGet
<1>2. CASE RolloutLoop
  BY <1>2 DEF RolloutLoop, RolloutClaim, RolloutFinalize, TrainerGet
<1>3. CASE BatcherLoop
  BY <1>3 DEF BatcherLoop, BatcherTake, BatcherPackTrainable,
              BatcherPackUntrainable, BatcherRelease, BatcherPut, BatcherCrash,
              TrainerGet
<1>4. CASE TrainerLoop
  BY <1>4, <1>t DEF TrainerLoop, TrainerAdvances, TrainerGet, TrainerForwardBackward,
              TrainerWaitPrevPush, TrainerOptimStep, TrainerStartSync,
              TrainerSyncFailed, TrainerSave, TrainerDrain, TrainerCrash,
              PcBeforeStep
<1>5. CASE PushModelStateDict \/ PullTask
  BY <1>5 DEF PushModelStateDict, PullTask, PullAwaitPush, PullModelStateDict,
              PullRelease, TrainerGet
<1>6. CASE RunShutdown
  BY <1>6, <1>t DEF RunShutdown, Cancelled, TrainerGet
<1>7. CASE Terminated \/ UNCHANGED vars
  BY <1>7 DEF Terminated, TrainerGet, vars
<1>8. QED
  BY <1>1, <1>2, <1>3, <1>4, <1>5, <1>6, <1>7 DEF Next

(* What a step may do to the synced and served versions and their batches. *)
LEMMA SyncMoves ==
  ASSUME SlotInv, [Next]_vars
  PROVE  \/ TrainerGet \/ TrainerStartSync \/ PullTask
         \/ UNCHANGED <<training, syncing, syncVersion, genVersion, pullTask>>
<1> USE DEF bufferVars, dataVars, batcherVars, trainerVars, syncVars
<1>1. CASE DataInputLoop \/ RolloutLoop
  BY <1>1 DEF DataInputLoop, DataWaitForSlot, DataAddWork, DataCrash,
              RolloutLoop, RolloutClaim, RolloutFinalize
<1>2. CASE BatcherLoop
  BY <1>2 DEF BatcherLoop, BatcherTake, BatcherPackTrainable,
              BatcherPackUntrainable, BatcherRelease, BatcherPut, BatcherCrash
<1>3. CASE TrainerLoop
  BY <1>3 DEF TrainerLoop, TrainerAdvances, TrainerForwardBackward, TrainerWaitPrevPush,
              TrainerOptimStep, TrainerSyncFailed, TrainerSave, TrainerDrain,
              TrainerCrash
<1>4. CASE PushModelStateDict
  BY <1>4 DEF PushModelStateDict
<1>5. CASE RunShutdown \/ Terminated \/ UNCHANGED vars
  BY <1>5 DEF RunShutdown, Terminated, vars
<1>6. QED
  BY <1>1, <1>2, <1>3, <1>4, <1>5 DEF Next

LEMMA SyncStep == SlotInv /\ SyncInv /\ [Next]_vars => SyncInv'
<1> SUFFICES ASSUME SlotInv, SyncInv, [Next]_vars
             PROVE  SyncInv'
  OBVIOUS
<1>t. /\ PendingVersion \in Nat /\ syncVersion \in Nat /\ genVersion \in Nat
      /\ P \in Nat
  BY VersionTypes DEF SlotInv
<1>p. PendingVersion' \in Int
  BY <1>t, PendingStep
<1>u. P' = P
  BY DEF P
<1>e. Cardinality({}) = 0
  BY FS_EmptySet
<1>n. ASSUME ~TrainerGet
      PROVE  P * (PendingVersion' - syncVersion)
               <= P * (PendingVersion - syncVersion)
  <2>1. /\ PendingVersion' - syncVersion \in Int
        /\ PendingVersion - syncVersion \in Int
        /\ PendingVersion' - syncVersion <= PendingVersion - syncVersion
    BY <1>n, <1>t, PendingStep
  <2>2. QED
    BY <2>1, <1>t, TimesMonotone
<1>z. P * 0 = 0 /\ genVersion - genVersion = 0 /\ syncVersion - syncVersion = 0
      /\ trainerVersion - trainerVersion = 0
  BY <1>t, VersionTypes DEF SlotInv
<1>i. /\ pullTask \in {"releasing", "done"} => genVersion = syncVersion
      /\ P * (PendingVersion - syncVersion) <= Cardinality(training)
      /\ P * (syncVersion - genVersion) <= Cardinality(syncing)
  BY DEF SyncInv
<1>g. SUFFICES
        /\ pullTask' \in {"releasing", "done"} => genVersion' = syncVersion'
        /\ P * (PendingVersion' - syncVersion') <= Cardinality(training')
        /\ P * (syncVersion' - genVersion') <= Cardinality(syncing')
  BY <1>u DEF SyncInv
<1>c. /\ P * (PendingVersion - syncVersion) \in Int
      /\ P * (PendingVersion' - syncVersion) \in Int
      /\ P * (syncVersion - genVersion) \in Int
      /\ Cardinality(training) \in Nat /\ Cardinality(syncing) \in Nat
  BY <1>t, <1>p, Finiteness, TimesPlusOne DEF SlotInv
<1>1. CASE TrainerGet
  <2>1. PendingVersion' - syncVersion = (PendingVersion - syncVersion) + 1
    BY <1>1, <1>t, PendingStep
  <2>2. P * (PendingVersion' - syncVersion)
          = P * (PendingVersion - syncVersion) + P
    BY <1>t, <2>1, TimesPlusOne
  <2>3. Cardinality(training) = 0 /\ Cardinality(training') = P
    BY <1>1, <1>e DEF TrainerGet, SlotInv, TypeOK, BatchTypeOK, IsBatch, Stages, P
  <2>4. UNCHANGED <<syncing, syncVersion, genVersion, pullTask>>
    BY <1>1 DEF TrainerGet, syncVars
  <2>5. P * (PendingVersion' - syncVersion) <= P
    BY <1>t, <1>c, <1>i, <2>2, <2>3
  <2>6. QED
    BY <1>i, <2>3, <2>4, <2>5
<1>2. CASE TrainerStartSync
  <2>1. /\ syncVersion' = trainerVersion /\ genVersion' = genVersion
        /\ training' = {} /\ syncing' = training /\ pullTask = "done"
        /\ pullTask' = "await_push" /\ trainerPc = "wait_pull"
        /\ trainerPc' = "save" /\ trainerVersion' = trainerVersion
    BY <1>2 DEF TrainerStartSync, PrevPullEnded
  <2>2. PendingVersion' = trainerVersion /\ PendingVersion = trainerVersion
    BY <1>t, <2>1, VersionTypes DEF PendingVersion, SlotInv
  <2>3. P * (PendingVersion' - syncVersion') = Cardinality(training')
    BY <1>z, <1>e, <2>1, <2>2
  <2>4. syncVersion' - genVersion' = PendingVersion - syncVersion
    BY <1>i, <2>1, <2>2
  <2>5. P * (syncVersion' - genVersion') <= Cardinality(syncing')
    BY <1>i, <2>1, <2>4
  <2>6. P * (PendingVersion' - syncVersion') <= Cardinality(training')
    BY <1>e, <2>1, <2>3
  <2>7. QED
    BY <2>1, <2>5, <2>6
<1>3. CASE PullTask
  <2>1. training' = training /\ syncVersion' = syncVersion /\ ~TrainerGet
    BY <1>3 DEF PullTask, PullAwaitPush, PullModelStateDict, PullRelease,
                TrainerGet, trainerVars, syncVars
  <2>2. P * (PendingVersion' - syncVersion') <= Cardinality(training')
    BY <1>i, <1>c, <1>n, <2>1
  <2>3. CASE genVersion' = genVersion /\ syncing' = syncing
    <3>1. pullTask' \in {"releasing", "done"} => genVersion' = syncVersion'
      BY <1>3, <1>i, <2>3, <2>1 DEF PullTask, PullAwaitPush, PullModelStateDict,
         PullRelease, syncVars
    <3>2. QED
      BY <1>i, <2>1, <2>2, <2>3, <3>1
  <2>4. CASE genVersion' = syncVersion /\ syncing' = syncing
    <3>1. P * (syncVersion' - genVersion') = 0
      BY <1>z, <2>1, <2>4
    <3>2. QED
      BY <1>c, <2>1, <2>2, <2>4, <3>1
  <2>5. CASE pullTask = "releasing" /\ genVersion' = genVersion /\ syncing' = {}
    <3>1. genVersion' = syncVersion'
      BY <1>i, <2>1, <2>5
    <3>2. P * (syncVersion' - genVersion') = 0
      BY <1>z, <2>1, <2>5, <3>1
    <3>3. QED
      BY <1>e, <2>2, <2>5, <3>1, <3>2
  <2>6. QED
    BY <1>3, <2>3, <2>4, <2>5 DEF PullTask, PullAwaitPush, PullModelStateDict,
       PullRelease
<1>4. CASE /\ UNCHANGED <<training, syncing, syncVersion, genVersion, pullTask>>
           /\ ~TrainerGet
  BY <1>i, <1>c, <1>n, <1>4
<1>5. QED
  BY <1>1, <1>2, <1>3, <1>4, SyncMoves

LEMMA SyncInit == Init => SyncInv
<1> SUFFICES ASSUME Init PROVE SyncInv
  OBVIOUS
<1>1. /\ PendingVersion = StartStep /\ syncVersion = StartStep
      /\ genVersion = StartStep /\ training = {} /\ syncing = {}
  BY AsyncAssumption DEF Init, PendingVersion, PcBeforeStep
<1>2. P * (StartStep - StartStep) = 0
  BY AsyncAssumption DEF P
<1>3. QED
  BY <1>1, <1>2, FS_EmptySet DEF SyncInv

(* P times something at most P: it is at most 1.                           *)
LEMMA AtMostOne ==
  ASSUME NEW a \in Nat, a >= 1, NEW x \in Int, a * x <= a
  PROVE  x <= 1
<1> SUFFICES ASSUME x >= 2 PROVE FALSE
  OBVIOUS
<1>1. a * 2 <= a * x
  BY TimesMonotone
<1>2. a * 2 = a + a
  OBVIOUS
<1>3. a * x \in Int
  BY TimesPlusOne
<1>4. QED
  BY <1>1, <1>2, <1>3

(* The generators trail the trainer by two versions at most, by one when a *)
(* step consumes a batch or changes the weights.                           *)
THEOREM GeneratorsFollow == Spec => []GeneratorLag
<1>1. SlotInv /\ SyncInv => GeneratorLag
  <2> SUFFICES ASSUME SlotInv, SyncInv PROVE GeneratorLag
    OBVIOUS
  <2>t. /\ PendingVersion \in Nat /\ syncVersion \in Nat /\ genVersion \in Nat
        /\ trainerVersion \in Nat /\ P \in Nat /\ P >= 1
        /\ genVersion <= syncVersion /\ syncVersion <= trainerVersion
        /\ trainerVersion <= PendingVersion
    BY VersionTypes DEF SlotInv
  <2>1. Cardinality(training) \in {0, P} /\ Cardinality(syncing) \in {0, P}
    BY FS_EmptySet DEF SlotInv, TypeOK, BatchTypeOK, IsBatch, P
  <2>2. /\ P * (PendingVersion - syncVersion) <= Cardinality(training)
        /\ P * (syncVersion - genVersion) <= Cardinality(syncing)
    BY DEF SyncInv
  <2>3. /\ P * (PendingVersion - syncVersion) \in Int
        /\ P * (syncVersion - genVersion) \in Int
    BY <2>t, TimesPlusOne
  <2>4. /\ P * (PendingVersion - syncVersion) <= P
        /\ P * (syncVersion - genVersion) <= P
    BY <2>t, <2>1, <2>2, <2>3
  <2>5. PendingVersion - syncVersion \in Int /\ syncVersion - genVersion \in Int
    BY <2>t
  <2>6. PendingVersion - syncVersion <= 1 /\ syncVersion - genVersion <= 1
    BY <2>t, <2>4, <2>5, AtMostOne
  <2>7. ASSUME trainerPc = "get" PROVE PendingVersion = syncVersion
    <3>1. P * (PendingVersion - syncVersion) <= 0
      BY <2>2, <2>7, FS_EmptySet DEF SlotInv, Stages
    <3>2. PendingVersion - syncVersion # 1
      <4>1. P * 1 = P
        BY <2>t
      <4>2. QED
        BY <2>t, <3>1, <4>1
    <3>3. QED
      BY <2>t, <2>6, <3>2
  <2>8. trainerPc \in {"fwd_bwd", "wait_push", "optim"} =>
          PendingVersion = trainerVersion + 1
    BY DEF PendingVersion
  <2>9. QED
    BY <2>t, <2>6, <2>7, <2>8 DEF GeneratorLag
<1>2. QED
  BY SlotInvariant, SyncInit, SyncStep, <1>1, PTL DEF Spec

-------------------------------------------------------------------------------
(* The weights.                                                            *)
LEMMA WeightsInit == Init => WeightsInv
BY DEF Init, WeightsInv, PcBeforeStep

LEMMA WeightsStep == SlotInv /\ WeightsInv /\ [Next]_vars => WeightsInv'
<1> SUFFICES ASSUME SlotInv, WeightsInv, [Next]_vars PROVE WeightsInv'
  OBVIOUS
<1> USE DEF bufferVars, dataVars, batcherVars, trainerVars, syncVars, WeightsInv
<1>t. LoopTypeOK /\ Lifecycle
  BY DEF SlotInv, TypeOK
<1>1. CASE DataInputLoop \/ RolloutLoop
  BY <1>1 DEF DataInputLoop, DataWaitForSlot, DataAddWork, DataCrash,
              RolloutLoop, RolloutClaim, RolloutFinalize
<1>2. CASE BatcherLoop
  BY <1>2 DEF BatcherLoop, BatcherTake, BatcherPackTrainable,
              BatcherPackUntrainable, BatcherRelease, BatcherPut, BatcherCrash
<1>3. CASE TrainerLoop
  BY <1>3, <1>t DEF TrainerLoop, TrainerAdvances, TrainerGet, TrainerForwardBackward,
     TrainerWaitPrevPush, TrainerOptimStep, TrainerStartSync,
     TrainerSyncFailed, TrainerSave, TrainerDrain, TrainerCrash, PcBeforeStep,
     PrevPushEnded, PrevPullEnded, LoopTypeOK, Lifecycle, Running
<1>4. CASE PushModelStateDict
  BY <1>4 DEF PushModelStateDict
<1>5. CASE PullTask
  BY <1>5, <1>t DEF PullTask, PullAwaitPush, PullModelStateDict, PullRelease,
                    LoopTypeOK
<1>6. CASE RunShutdown
  BY <1>6 DEF RunShutdown, Cancelled, Running
<1>7. CASE Terminated \/ UNCHANGED vars
  BY <1>7 DEF Terminated, vars
<1>8. QED
  BY <1>1, <1>2, <1>3, <1>4, <1>5, <1>6, <1>7 DEF Next

(* The version the generators report names the weights they hold.          *)
THEOREM NamedWeights == Spec => []GeneratorsHoldNamedWeights
<1>1. WeightsInv => GeneratorsHoldNamedWeights
  BY DEF WeightsInv, GeneratorsHoldNamedWeights
<1>2. QED
  BY SlotInvariant, WeightsInit, WeightsStep, <1>1, PTL DEF Spec

(* After a completed run the generators hold the trainer's weights and no  *)
(* sync is in flight.                                                      *)
THEOREM CompletedRunInSync == Spec => []CompletedInSync
<1>1. SyncInv /\ WeightsInv => CompletedInSync
  BY DEF SyncInv, WeightsInv, CompletedInSync
<1>2. QED
  BY SlotInvariant, SyncInit, SyncStep, WeightsInit, WeightsStep, <1>1, PTL
     DEF Spec

(* No step changes the weights a push reads or the store a pull reads.     *)
THEOREM SyncReadsStable == Spec => SyncReadsStableData
<1> DEFINE Stable == /\ pushTask = "running" => trainerVersion' = trainerVersion
                     /\ pullTask = "pulling" => storeVersion' = storeVersion
<1>1. SlotInv /\ WeightsInv /\ [Next]_vars => [Stable]_vars
  <2> SUFFICES ASSUME WeightsInv, [Next]_vars PROVE Stable
    OBVIOUS
  <2> USE DEF bufferVars, dataVars, batcherVars, trainerVars, syncVars, WeightsInv
  <2>1. CASE DataInputLoop \/ RolloutLoop
    BY <2>1 DEF DataInputLoop, DataWaitForSlot, DataAddWork, DataCrash,
                RolloutLoop, RolloutClaim, RolloutFinalize
  <2>2. CASE BatcherLoop
    BY <2>2 DEF BatcherLoop, BatcherTake, BatcherPackTrainable,
       BatcherPackUntrainable, BatcherRelease, BatcherPut, BatcherCrash
  <2>3. CASE TrainerLoop
    BY <2>3 DEF TrainerLoop, TrainerAdvances, TrainerGet, TrainerForwardBackward,
       TrainerWaitPrevPush, TrainerOptimStep, TrainerStartSync,
       TrainerSyncFailed, TrainerSave, TrainerDrain, TrainerCrash
  <2>4. CASE PushModelStateDict
    BY <2>4 DEF PushModelStateDict
  <2>5. CASE PullTask
    BY <2>5 DEF PullTask, PullAwaitPush, PullModelStateDict, PullRelease
  <2>6. CASE RunShutdown \/ Terminated \/ UNCHANGED vars
    BY <2>6 DEF RunShutdown, Terminated, vars
  <2>7. QED
    BY <2>1, <2>2, <2>3, <2>4, <2>5, <2>6 DEF Next
<1>2. QED
  BY SlotInvariant, WeightsInit, WeightsStep, <1>1, PTL
     DEF Spec, SyncReadsStableData

===============================================================================
