-------------------------------- MODULE AsyncRL --------------------------------
(***************************************************************************)
(* Controller.run of the asynchronous RL trainer: the data-input loop, the *)
(* pool of rollout workers, the batcher loop, the trainer loop and the     *)
(* background push -> pull -> release of WeightSyncManager, all asyncio    *)
(* tasks sharing one RolloutGroupWorkBuffer and a queue of one batch.      *)
(*                                                                         *)
(* An action is what a task does between two suspension points.  A rollout *)
(* group is its id (group_index); what it contains is abstracted to "has a *)
(* trainable sample or not", chosen when the batcher packs it.  Weights    *)
(* are the policy version they were produced by.  The generators appear as *)
(* one generator, since the router's pull returns once all have pulled.    *)
(***************************************************************************)
EXTENDS WorkBuffer

CONSTANTS
  NumPromptsPerTrainStep,   \* P: groups with samples per training batch
  TargetOffpolicySteps,     \* S
  StartStep,                \* policy version restored from a checkpoint
  NumTrainingSteps,         \* last step of the trainer loop
  MaxConsecutiveUntrainableBatches,
  MaxUntrainableGroups,     \* bound: untrainable groups in a behaviour
  Faults                    \* which of FaultKinds may happen

FaultKinds == {"data", "pack", "train", "nan", "push", "pull"}

ASSUME AsyncAssumption ==
  /\ NumPromptsPerTrainStep \in Nat \ {0}
  /\ TargetOffpolicySteps \in Nat
  /\ MaxActiveRolloutGroups =
       (TargetOffpolicySteps + 1) * NumPromptsPerTrainStep
  /\ StartStep \in Nat
  /\ NumTrainingSteps \in Nat
  /\ MaxConsecutiveUntrainableBatches \in Nat \ {0}
  /\ MaxUntrainableGroups \in Nat
  /\ Faults \subseteq FaultKinds

(* The consume-time bound the controller derives: (B + W - 2) // P.        *)
MaxOffpolicySteps ==
  (MaxActiveRolloutGroups + WindowSize - 2) \div NumPromptsPerTrainStep

VARIABLES
  dataPc,           \* _data_input_loop
  groupIndex,       \* its next group id
  born,             \* group id -> policy version it is generated with
  batcherPc,        \* _batcher_loop
  hand,             \* the group it took and has not disposed of
  groupsForNextBatch,
  zeroOutputGroups, \* consecutive untrainable groups
  untrainable,      \* all untrainable groups so far (bounded)
  ready,            \* the batch it is putting into the queue
  queued,           \* training_batch_queue, maxsize 1 ({}: empty)
  trainerPc,        \* _trainer_loop
  step,             \* its current step
  training,         \* the batch of this step
  trainerVersion,   \* the trainer's weights
  pushTask,         \* WeightSyncManager._trainer_push_task
  pullTask,         \* WeightSyncManager._generator_pull_task
  syncVersion,      \* the version argument of the pull
  syncing,          \* the trained batch whose slots the pull task releases
  storeVersion,     \* weights staged in the store
  genVersion,       \* policy version the generators report
  genWeights,       \* weights the generators hold
  runState          \* Controller.run

dataVars    == <<dataPc, groupIndex>>
batcherVars == <<batcherPc, hand, groupsForNextBatch, zeroOutputGroups,
                 untrainable, ready>>
trainerVars == <<trainerPc, step, training, trainerVersion>>
syncVars    == <<pushTask, pullTask, syncVersion, syncing,
                 storeVersion, genVersion, genWeights>>
vars == <<bufferVars, dataVars, born, batcherVars, queued, trainerVars,
          syncVars, runState>>

Running == runState = "running"

SetBorn(g, v) ==
  [h \in DOMAIN born \cup {g} |-> IF h = g THEN v ELSE born[h]]

Forget(groups) == [g \in DOMAIN born \ groups |-> born[g]]

(* Mutant: range(start_step + 1, num_training_steps).                      *)
PcBeforeLastStep(s) == IF s < NumTrainingSteps THEN "get" ELSE "drain_push"

(* The first step of range(start_step + 1, num_training_steps + 1), or the *)
(* wait for the in-flight weight sync when no step is left.                *)
PcBeforeStep(s) == IF s <= NumTrainingSteps THEN "get" ELSE "drain_push"

Init ==
  /\ BufferInit
  /\ dataPc = "wait_for_slot" /\ groupIndex = 0
  /\ born = [g \in {} |-> StartStep]
  /\ batcherPc = "take" /\ hand = {} /\ groupsForNextBatch = {}
  /\ zeroOutputGroups = 0 /\ untrainable = 0 /\ ready = {}
  /\ queued = {}
  /\ trainerPc = PcBeforeStep(StartStep + 1) /\ step = StartStep + 1
  /\ training = {} /\ trainerVersion = StartStep
  /\ pushTask = "done" /\ pullTask = "done"      \* the no-op tasks
  /\ syncVersion = StartStep /\ syncing = {}
  /\ storeVersion = StartStep                    \* setup_async's weight sync
  /\ genVersion = StartStep /\ genWeights = StartStep
  /\ runState = "running"

-------------------------------------------------------------------------------
(* _data_input_loop: the slot is checked before the sample is read in a    *)
(* thread, and charged after it.                                           *)
DataWaitForSlot ==
  /\ dataPc = "wait_for_slot"
  /\ SlotGranted
  /\ dataPc' = "get_sample"
  /\ UNCHANGED <<bufferVars, groupIndex, born, batcherVars, queued,
                 trainerVars, syncVars, runState>>

DataAddWork ==
  /\ dataPc = "get_sample"
  /\ IF HasActiveSlotAvailable
     THEN /\ AddWork(groupIndex)
          /\ dataPc' = "wait_for_slot"
          /\ groupIndex' = groupIndex + 1
          /\ born' = SetBorn(groupIndex, genVersion)
     ELSE /\ dataPc' = "crashed"          \* add_work raises
          /\ UNCHANGED <<bufferVars, groupIndex, born>>
  /\ UNCHANGED <<batcherVars, queued, trainerVars, syncVars, runState>>

(* get_training_sample raises.                                             *)
DataCrash ==
  /\ "data" \in Faults
  /\ dataPc = "get_sample"
  /\ dataPc' = "crashed"
  /\ UNCHANGED <<bufferVars, groupIndex, born, batcherVars, queued,
                 trainerVars, syncVars, runState>>

-------------------------------------------------------------------------------
(* _rollout_loop: one worker per active slot; a worker is busy from        *)
(* claim_next to finalize_work.  The group's opening turn is generated     *)
(* with the generators' current weights.  A failed rollout is finalized    *)
(* as an empty group, so finalizing is the only outcome.                   *)
RolloutClaim(g) ==
  /\ Running
  /\ Cardinality(GroupsIn("INFLIGHT")) < MaxActiveRolloutGroups
  /\ ClaimNext(g)
  /\ born' = SetBorn(g, genVersion)
  /\ UNCHANGED <<dataVars, batcherVars, queued, trainerVars, syncVars,
                 runState>>

RolloutFinalize(g) ==
  /\ Running
  /\ g \in GroupsIn("INFLIGHT")
  /\ FinalizeWork(g)
  /\ UNCHANGED <<dataVars, born, batcherVars, queued, trainerVars, syncVars,
                 runState>>

-------------------------------------------------------------------------------
(* _batcher_loop and Batcher.add_training_samples, which runs in a thread. *)
BatcherTake(g) ==
  /\ batcherPc = "take"
  /\ TakeFinalized(g)
  /\ batcherPc' = "pack"
  /\ hand' = {g}
  /\ UNCHANGED <<dataVars, born, groupsForNextBatch, zeroOutputGroups,
                 untrainable, ready, queued, trainerVars, syncVars, runState>>

(* The group has a trainable sample: it joins the next batch, and with P   *)
(* of them the batch is complete.                                          *)
BatcherPackTrainable ==
  LET groups   == groupsForNextBatch \cup hand
      complete == Cardinality(groups) = NumPromptsPerTrainStep
  IN  /\ batcherPc = "pack"
      /\ zeroOutputGroups' = 0
      /\ hand' = {}
      /\ groupsForNextBatch' = IF complete THEN {} ELSE groups
      /\ ready' = IF complete THEN groups ELSE {}
      /\ batcherPc' = IF complete THEN "put" ELSE "take"
      /\ UNCHANGED <<bufferVars, dataVars, born, untrainable, queued,
                     trainerVars, syncVars, runState>>

(* It has none: its slot is released next, unless the pipeline produced    *)
(* nothing for too long, which raises.                                     *)
BatcherPackUntrainable ==
  /\ batcherPc = "pack"
  /\ untrainable < MaxUntrainableGroups
  /\ untrainable' = untrainable + 1
  /\ zeroOutputGroups' = zeroOutputGroups + 1
  /\ batcherPc' =
       IF zeroOutputGroups' =
            MaxConsecutiveUntrainableBatches * NumPromptsPerTrainStep
       THEN "crashed" ELSE "release"
  /\ UNCHANGED <<bufferVars, dataVars, born, hand, groupsForNextBatch, ready,
                 queued, trainerVars, syncVars, runState>>

BatcherRelease ==
  /\ batcherPc = "release"
  /\ IF CanRelease(1)
     THEN /\ ReleaseActiveGroups(1)
          /\ hand' = {}
          /\ born' = Forget(hand)
          /\ batcherPc' = "take"
     ELSE /\ batcherPc' = "crashed"       \* release_active_groups raises
          /\ UNCHANGED <<bufferVars, hand, born>>
  /\ UNCHANGED <<dataVars, groupsForNextBatch, zeroOutputGroups,
                 untrainable, ready, queued, trainerVars, syncVars, runState>>

BatcherPut ==
  /\ batcherPc = "put"
  /\ queued = {}
  /\ queued' = ready
  /\ ready' = {}
  /\ batcherPc' = "take"
  /\ UNCHANGED <<bufferVars, dataVars, born, hand, groupsForNextBatch,
                 zeroOutputGroups, untrainable, trainerVars, syncVars,
                 runState>>

(* Building or packing the samples raises.                                *)
BatcherCrash ==
  /\ "pack" \in Faults
  /\ batcherPc = "pack"
  /\ batcherPc' = "crashed"
  /\ UNCHANGED <<bufferVars, dataVars, born, hand, groupsForNextBatch,
                 zeroOutputGroups, untrainable, ready, queued, trainerVars,
                 syncVars, runState>>

-------------------------------------------------------------------------------
(* _trainer_loop.                                                          *)
TrainerGet ==
  /\ trainerPc = "get"
  /\ queued # {}
  /\ training' = queued
  /\ queued' = {}
  /\ trainerPc' = "fwd_bwd"
  /\ UNCHANGED <<bufferVars, dataVars, born, batcherVars, step,
                 trainerVersion, syncVars, runState>>

(* A non-finite loss breaks out of the loop to the final wait.             *)
TrainerForwardBackward ==
  /\ trainerPc = "fwd_bwd"
  /\ \/ trainerPc' = "wait_push"
     \/ "nan" \in Faults /\ trainerPc' = "drain_push"
  /\ UNCHANGED <<bufferVars, dataVars, born, batcherVars, queued, step,
                 training, trainerVersion, syncVars, runState>>

(* Mutants: the trainer waits for neither task.                            *)
PrevPushIgnored == TRUE
PrevPullIgnored == TRUE

(* wait_prev_push: the weights may change only once the push has ended.    *)
PrevPushEnded == pushTask \in {"done", "failed"}

(* wait_prev_pull: the store may change only once the pull has ended.      *)
PrevPullEnded == pullTask \in {"done", "failed"}

TrainerWaitPrevPush ==
  /\ trainerPc = "wait_push"
  /\ PrevPushEnded
  /\ trainerPc' = IF pushTask = "failed" THEN "crashed" ELSE "optim"
  /\ UNCHANGED <<bufferVars, dataVars, born, batcherVars, queued, step,
                 training, trainerVersion, syncVars, runState>>

TrainerOptimStep ==
  /\ trainerPc = "optim"
  /\ trainerVersion' = trainerVersion + 1
  /\ trainerPc' = "wait_pull"
  /\ UNCHANGED <<bufferVars, dataVars, born, batcherVars, queued, step,
                 training, syncVars, runState>>

(* wait_prev_pull, then start_async_push_pull without a suspension point;  *)
(* "save" is the metrics and the checkpoint.                               *)
TrainerStartSync ==
  /\ trainerPc = "wait_pull"
  /\ PrevPullEnded /\ pullTask # "failed"
  /\ pushTask' = "running"
  /\ pullTask' = "await_push"
  /\ syncVersion' = trainerVersion
  /\ syncing' = training
  /\ training' = {}
  /\ born' = Forget(training)
  /\ trainerPc' = "save"
  /\ UNCHANGED <<bufferVars, dataVars, batcherVars, queued, step,
                 trainerVersion, storeVersion, genVersion, genWeights,
                 runState>>

(* A failed task re-raises in the await, here and in the final wait.       *)
TrainerSyncFailed ==
  /\ \/ trainerPc \in {"wait_pull", "drain_pull"} /\ pullTask = "failed"
     \/ trainerPc = "drain_push" /\ pushTask = "failed"
  /\ trainerPc' = "crashed"
  /\ UNCHANGED <<bufferVars, dataVars, born, batcherVars, queued, step,
                 training, trainerVersion, syncVars, runState>>

TrainerSave ==
  /\ trainerPc = "save"
  /\ step' = step + 1
  /\ trainerPc' = PcBeforeStep(step + 1)
  /\ UNCHANGED <<bufferVars, dataVars, born, batcherVars, queued, training,
                 trainerVersion, syncVars, runState>>

(* Mutant: the final wait forgets the pull.                                *)
TrainerDrainPushOnly ==
  /\ trainerPc = "drain_push" /\ pushTask = "done"
  /\ trainerPc' = "finished"
  /\ UNCHANGED <<bufferVars, dataVars, born, batcherVars, queued, step,
                 training, trainerVersion, syncVars, runState>>

(* wait_inflight_push_pull: the push, then the pull.                       *)
TrainerDrain ==
  /\ \/ trainerPc = "drain_push" /\ pushTask = "done"
        /\ trainerPc' = "drain_pull"
     \/ trainerPc = "drain_pull" /\ pullTask = "done"
        /\ trainerPc' = "finished"
  /\ UNCHANGED <<bufferVars, dataVars, born, batcherVars, queued, step,
                 training, trainerVersion, syncVars, runState>>

TrainerCrash ==
  /\ "train" \in Faults
  /\ trainerPc \in {"get", "fwd_bwd", "optim", "save"}
  /\ trainerPc' = "crashed"
  /\ UNCHANGED <<bufferVars, dataVars, born, batcherVars, queued, step,
                 training, trainerVersion, syncVars, runState>>

-------------------------------------------------------------------------------
(* WeightSyncManager's two background tasks; shutdown does not cancel them.*)
PushModelStateDict ==
  /\ pushTask = "running"
  /\ \/ pushTask' = "done" /\ storeVersion' = trainerVersion
     \/ /\ "push" \in Faults
        /\ pushTask' = "failed" /\ UNCHANGED storeVersion
  /\ UNCHANGED <<bufferVars, dataVars, born, batcherVars, queued,
                 trainerVars, pullTask, syncVersion, syncing, genVersion,
                 genWeights, runState>>

(* Mutant: the pull starts without awaiting its push.                      *)
PullAtOnce ==
  /\ pullTask = "await_push"
  /\ pullTask' = "pulling"
  /\ UNCHANGED <<bufferVars, dataVars, born, batcherVars, queued,
                 trainerVars, pushTask, syncVersion, syncing, storeVersion,
                 genVersion, genWeights, runState>>

PullAwaitPush ==
  /\ pullTask = "await_push"
  /\ \/ pushTask = "done" /\ pullTask' = "pulling"
     \/ pushTask = "failed" /\ pullTask' = "failed"
  /\ UNCHANGED <<bufferVars, dataVars, born, batcherVars, queued,
                 trainerVars, pushTask, syncVersion, syncing, storeVersion,
                 genVersion, genWeights, runState>>

PullModelStateDict ==
  /\ pullTask = "pulling"
  /\ \/ /\ pullTask' = "releasing"
        /\ genVersion' = syncVersion
        /\ genWeights' = storeVersion
     \/ /\ "pull" \in Faults
        /\ pullTask' = "failed"
        /\ UNCHANGED <<genVersion, genWeights>>
  /\ UNCHANGED <<bufferVars, dataVars, born, batcherVars, queued,
                 trainerVars, pushTask, syncVersion, syncing, storeVersion,
                 runState>>

PullRelease ==
  /\ pullTask = "releasing"
  /\ IF CanRelease(NumPromptsPerTrainStep)
     THEN /\ ReleaseActiveGroups(NumPromptsPerTrainStep)
          /\ pullTask' = "done"
          /\ syncing' = {}
     ELSE /\ pullTask' = "failed"
          /\ UNCHANGED <<bufferVars, syncing>>
  /\ UNCHANGED <<dataVars, born, batcherVars, queued, trainerVars, pushTask,
                 syncVersion, storeVersion, genVersion, genWeights, runState>>

-------------------------------------------------------------------------------
(* run: asyncio.wait(FIRST_COMPLETED) over the loops, then the finally.    *)
(* close() and the cancel() calls run without a suspension point between   *)
(* them, so every loop still alive ends with CancelledError.               *)
(* Mutant: the data-input loop is not among the tasks run() waits for.     *)
BatcherCrashed == batcherPc = "crashed"

ProducerCrashed == dataPc = "crashed" \/ batcherPc = "crashed"

Cancelled(pc) == IF pc \in {"crashed", "finished"} THEN pc ELSE "cancelled"

RunShutdown ==
  /\ Running
  /\ ProducerCrashed \/ trainerPc \in {"finished", "crashed"}
  /\ runState' = IF ProducerCrashed \/ trainerPc = "crashed"
                 THEN "raised" ELSE "completed"
  /\ Close
  /\ dataPc' = Cancelled(dataPc)
  /\ batcherPc' = Cancelled(batcherPc)
  /\ trainerPc' = Cancelled(trainerPc)
  /\ UNCHANGED <<groupIndex, born, hand, groupsForNextBatch,
                 zeroOutputGroups, untrainable, ready, queued, step, training,
                 trainerVersion, syncVars>>

(* run has returned and the background tasks have ended.                   *)
Terminated ==
  /\ ~Running
  /\ {pushTask, pullTask} \subseteq {"done", "failed"}
  /\ UNCHANGED vars

-------------------------------------------------------------------------------
DataInputLoop == DataWaitForSlot \/ DataAddWork \/ DataCrash

RolloutLoop ==
  \E g \in DOMAIN workByGroupId : RolloutClaim(g) \/ RolloutFinalize(g)

BatcherLoop ==
  \/ \E g \in DOMAIN workByGroupId : BatcherTake(g)
  \/ BatcherPackTrainable \/ BatcherPackUntrainable
  \/ BatcherRelease \/ BatcherPut \/ BatcherCrash

TrainerAdvances ==
  \/ TrainerGet \/ TrainerForwardBackward \/ TrainerWaitPrevPush
  \/ TrainerOptimStep \/ TrainerStartSync \/ TrainerSyncFailed
  \/ TrainerSave \/ TrainerDrain

TrainerLoop == TrainerAdvances \/ TrainerCrash

PullTask == PullAwaitPush \/ PullModelStateDict \/ PullRelease

Next ==
  \/ DataInputLoop \/ RolloutLoop \/ BatcherLoop \/ TrainerLoop
  \/ PushModelStateDict \/ PullTask
  \/ RunShutdown \/ Terminated

Spec == Init /\ [][Next]_vars

(* The event loop resumes every task whose awaited condition holds; every  *)
(* rollout, thread and remote call returns or raises.  No failure is owed: *)
(* a trainer waiting for a batch is not rescued by a crash.                *)
Fairness ==
  /\ WF_vars(DataInputLoop)
  /\ WF_vars(RolloutLoop)
  /\ WF_vars(BatcherLoop)
  /\ WF_vars(TrainerAdvances)
  /\ WF_vars(PushModelStateDict)
  /\ WF_vars(PullTask)
  /\ WF_vars(RunShutdown)

FairSpec == Spec /\ Fairness

-------------------------------------------------------------------------------
(* A stage that holds a training batch holds exactly P groups.             *)
IsBatch(G) ==
  /\ G \subseteq 0 .. groupIndex - 1
  /\ G = {} \/ Cardinality(G) = NumPromptsPerTrainStep

BufferTypeOK ==
  /\ activeRolloutGroups \in 0 .. MaxActiveRolloutGroups
  /\ groupIndex \in Nat
  /\ DOMAIN workByGroupId \subseteq 0 .. groupIndex - 1
  /\ workByGroupId \in [DOMAIN workByGroupId -> WorkState]
  /\ closed \in BOOLEAN
  /\ DOMAIN born \subseteq 0 .. groupIndex - 1
  /\ born \in [DOMAIN born -> 0 .. genVersion]

LoopTypeOK ==
  /\ dataPc \in {"wait_for_slot", "get_sample", "crashed", "cancelled"}
  /\ batcherPc \in {"take", "pack", "release", "put", "crashed", "cancelled"}
  /\ trainerPc \in {"get", "fwd_bwd", "wait_push", "optim", "wait_pull",
                    "save", "drain_push", "drain_pull", "finished",
                    "crashed", "cancelled"}
  /\ pushTask \in {"running", "done", "failed"}
  /\ pullTask \in {"await_push", "pulling", "releasing", "done", "failed"}
  /\ runState \in {"running", "completed", "raised"}

BatchTypeOK ==
  /\ hand \subseteq 0 .. groupIndex - 1
  /\ groupsForNextBatch \subseteq 0 .. groupIndex - 1
  /\ IsBatch(ready)
  /\ IsBatch(queued)
  /\ IsBatch(training)
  /\ IsBatch(syncing)

CounterTypeOK ==
  /\ zeroOutputGroups \in Nat
  /\ untrainable \in Nat
  /\ step \in Nat
  /\ trainerVersion \in Nat
  /\ syncVersion \in 0 .. trainerVersion
  /\ genVersion \in 0 .. syncVersion
  /\ storeVersion \in Nat
  /\ genWeights \in Nat

(* Every variable has its type.  The slot counter stays within the budget, *)
(* a stage holds no group or a batch of exactly P (after a non-finite loss *)
(* the batch stays in "training", never released), and the version of the  *)
(* generators never exceeds the one being synced, nor that the trainer's.  *)
TypeOK == BufferTypeOK /\ LoopTypeOK /\ BatchTypeOK /\ CounterTypeOK

(* Slot conservation (NOTE in the RolloutGroupWorkBuffer docstring): until *)
(* shutdown the charged slots are exactly the groups of the pipeline, each *)
(* in one place.                                                           *)
SlotAccounting ==
  Running =>
    activeRolloutGroups =
      Cardinality(DOMAIN workByGroupId) + Cardinality(hand)
        + Cardinality(groupsForNextBatch) + Cardinality(ready)
        + Cardinality(queued) + Cardinality(training) + Cardinality(syncing)

(* The RuntimeErrors of add_work and release_active_groups are never       *)
(* raised: the slot seen by wait_for_slot is still free when the sample is *)
(* there, and whoever releases slots holds them, after a shutdown too.     *)
BufferCallsNeverRaise ==
  /\ dataPc = "get_sample" => HasActiveSlotAvailable
  /\ batcherPc = "release" => CanRelease(1)
  /\ pullTask = "releasing" => CanRelease(NumPromptsPerTrainStep)

(* Windowed FIFO: no group admitted W or more places after a group still   *)
(* in the dict has left it, however slow that group's rollout is.          *)
WindowBypass ==
  Running =>
    \A g \in DOMAIN workByGroupId, h \in 0 .. groupIndex - 1 :
      h \notin DOMAIN workByGroupId => h < g + WindowSize

(* max_offpolicy_steps: when a step consumes its batch, no group in it was *)
(* generated with weights older than the derived bound.                    *)
PolicyAgeBound ==
  trainerPc = "fwd_bwd" =>
    \A g \in training : trainerVersion - born[g] <= MaxOffpolicySteps

(* The generators trail the trainer by at most two versions, and by one    *)
(* when a step consumes a batch or changes the weights.                    *)
GeneratorLag ==
  /\ genVersion \in trainerVersion - 2 .. trainerVersion
  /\ trainerPc \in {"get", "fwd_bwd", "wait_push", "optim"} =>
       genVersion >= trainerVersion - 1

(* The generators' version number names the weights they hold, although    *)
(* the push overwrites the store while steps, pulls and failures overlap.  *)
GeneratorsHoldNamedWeights == genWeights = genVersion

(* The optimizer never changes the weights that a push is reading, and no  *)
(* push changes the store that a pull is reading (WeightSyncManager).      *)
SyncReadsStableData ==
  [][/\ pushTask = "running" => trainerVersion' = trainerVersion
     /\ pullTask = "pulling" => storeVersion' = storeVersion]_vars

(* A run that completes leaves the generators with the trainer's weights,  *)
(* for the post-training validation.                                       *)
CompletedInSync ==
  runState = "completed" =>
    /\ genWeights = trainerVersion
    /\ {pushTask, pullTask} = {"done"}

(* Without faults the run completes all its steps.                         *)
TrainingCompletes ==
  <>(runState = "completed" /\ (step > NumTrainingSteps)
       /\ genVersion = step - 1)

(* run returns or raises ("until training completes or a stage crashes").  *)
RunEnds == <>(runState # "running")
===============================================================================
