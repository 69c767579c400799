------------------------------- MODULE TrainLoop -------------------------------
(***************************************************************************)
(* A training run: jobs launched one after another on the same checkpoint  *)
(* folder, each of them Trainer.train between the load at its start and    *)
(* the close at its end.  A job may die at any instant, and any of its     *)
(* saves may fail; the next job goes on from what the folder holds.        *)
(***************************************************************************)
EXTENDS Checkpointer

CONSTANTS
  JobConfigs,    \* the configurations a job may be launched with
  NumBatches,    \* batch groups before the dataloader is exhausted
  MaxLaunches,   \* bound: jobs in a behaviour
  MaxFaults      \* bound: crashes, raised steps and failed saves

LastSave == {"full", "model", "hf"}

\* steps: training.steps.  load_step: NoStep for the latest checkpoint.
\* last_save: "full" without last_save_model_only, "hf" with last_save_in_hf.
JobConfig == [steps: Steps, async_mode: AsyncMode,
              load_step: Steps \union {NoStep}, last_save: LastSave]

ASSUME TrainLoopAssumption ==
  /\ JobConfigs \subseteq JobConfig
  /\ NumBatches \in Nat
  /\ MaxLaunches \in Nat
  /\ MaxFaults \in Nat

VARIABLES
  pc,         \* where train() stands; "down" when no job runs
  config,     \* of the running job
  raised,     \* an exception is on its way out of main
  launches, faults,
  ended,      \* history: how the last job ended
  lastSaved   \* history: the last step for which the job's save() saved

vars == <<disk, states, managerVars, purgeVars, pc, config, raised,
          launches, faults, ended, lastSaved>>

jobVars == <<config, launches, ended>>

Pc == {"down", "load", "loop", "optim", "save", "purge", "write", "writing",
       "close_staging", "close_saving", "close_purge"}

TypeOK ==
  /\ CheckpointerTypeOK
  /\ pc \in Pc
  /\ config \in JobConfig
  /\ raised \in BOOLEAN
  /\ launches \in 0 .. MaxLaunches
  /\ faults \in 0 .. MaxFaults
  /\ ended \in {"never", "completed", "exhausted", "raised", "died"}
  /\ lastSaved \in Steps \union {NoStep}

NoConfig == [steps |-> 0, async_mode |-> "disabled",
             load_step |-> NoStep, last_save |-> "full"]

Init ==
  /\ CheckpointerInit
  /\ pc = "down"
  /\ config = NoConfig
  /\ raised = FALSE
  /\ launches = 0
  /\ faults = 0
  /\ ended = "never"
  /\ lastSaved = NoStep

-------------------------------------------------------------------------------
(* The life of a job up to its first step. *)

Launch(c) ==
  /\ pc = "down"
  /\ launches < MaxLaunches
  /\ launches' = launches + 1
  /\ pc' = "load"
  /\ config' = c
  /\ states' = Fresh
  /\ lastSaved' = NoStep
  /\ UNCHANGED <<disk, managerVars, purgeVars, raised, faults, ended>>

LoadStep == IF config.load_step = NoStep THEN FindLoadStep ELSE config.load_step

\* No checkpoint and no initial_load_path: the run starts from step 0.
LoadNothing ==
  /\ pc = "load"
  /\ LoadStep = NoStep
  /\ pc' = "loop"
  /\ UNCHANGED <<disk, states, managerVars, purgeVars, raised, faults, lastSaved, jobVars>>

(* Mutant: a seed checkpoint is restored like any other.                   *)
RestoreAll(s) == disk[s].content

Restored(s) ==
  [f \in Fields |-> IF f \in StatesToLoad(s) THEN disk[s].content[f] ELSE states[f]]

LoadCheckpoint ==
  /\ pc = "load"
  /\ LoadStep # NoStep
  /\ CanLoad(LoadStep)
  /\ states' = Restored(LoadStep)
  /\ pc' = "loop"
  /\ UNCHANGED <<disk, managerVars, purgeVars, raised, faults, lastSaved, jobVars>>

\* load_step names no directory, or dcp.load misses a key.
LoadRaises ==
  /\ pc = "load"
  /\ LoadStep # NoStep
  /\ ~CanLoad(LoadStep)
  /\ raised' = TRUE
  /\ pc' = "close_staging"
  /\ UNCHANGED <<disk, states, managerVars, purgeVars, faults, lastSaved, jobVars>>

-------------------------------------------------------------------------------
(* One turn of the loop. *)

ShouldContinueTraining == states.step < config.steps
LastStep == states.step = config.steps

TrainingEnds ==
  /\ pc = "loop"
  /\ ~ShouldContinueTraining
  /\ pc' = "close_staging"
  /\ UNCHANGED <<disk, states, managerVars, purgeVars, raised, faults, lastSaved, jobVars>>

\* The step has been counted already when its data turns out to be missing.
DataloaderExhausted ==
  /\ pc = "loop"
  /\ ShouldContinueTraining
  /\ states.data = NumBatches
  /\ states' = [states EXCEPT !.step = @ + 1]
  /\ pc' = "close_staging"
  /\ UNCHANGED <<disk, managerVars, purgeVars, raised, faults, lastSaved, jobVars>>

\* The batch groups of the step are fetched; forward and backward change none
\* of the states a checkpoint holds.
ForwardBackward ==
  /\ pc = "loop"
  /\ ShouldContinueTraining
  /\ states.data < NumBatches
  /\ states' = [states EXCEPT !.step = @ + 1, !.data = @ + 1]
  /\ pc' = "optim"
  /\ UNCHANGED <<disk, managerVars, purgeVars, raised, faults, lastSaved, jobVars>>

\* For one, the loss is not finite.
TrainStepRaises ==
  /\ pc = "optim"
  /\ faults < MaxFaults
  /\ faults' = faults + 1
  /\ raised' = TRUE
  /\ pc' = "close_staging"
  /\ UNCHANGED <<disk, states, managerVars, purgeVars, lastSaved, jobVars>>

OptimStep ==
  /\ pc = "optim"
  /\ WaitForStaging
  /\ states' = [states EXCEPT !.model = @ + 1, !.optim = @ + 1]
  /\ pc' = "save"
  /\ UNCHANGED <<disk, snapshot, upload, saving, target, saveFuture, purgeVars,
                 raised, faults, lastSaved, jobVars>>

-------------------------------------------------------------------------------
(* CheckpointManager.save: wait, purge, write. *)

SaveNotDue ==
  /\ pc = "save"
  /\ ~ShouldSave(states.step, LastStep)
  /\ pc' = "loop"
  /\ UNCHANGED <<disk, states, managerVars, purgeVars, raised, faults, lastSaved, jobVars>>

\* save_future.result() raises what the upload raised.
SaveWaits ==
  /\ pc = "save"
  /\ ShouldSave(states.step, LastStep)
  /\ WaitForSaving
  /\ raised' = SavingFailed
  /\ pc' = IF SavingFailed THEN "close_staging" ELSE "purge"
  /\ UNCHANGED <<disk, states, snapshot, upload, saving, target, stagingFuture,
                 purgeVars, faults, lastSaved, jobVars>>

SavePurges ==
  /\ pc = "purge"
  /\ PurgeStaleCheckpoints(states.step)
  /\ pc' = "write"
  /\ UNCHANGED <<disk, states, managerVars, purging, raised, faults, lastSaved, jobVars>>

SaveAsync ==
  /\ pc = "write"
  /\ ~LastStep
  /\ config.async_mode = "async"
  /\ DcpSave(states.step, states, "queued", ".metadata")
  /\ saveFuture' = TRUE
  /\ lastSaved' = states.step
  /\ pc' = "loop"
  /\ UNCHANGED <<disk, states, stagingFuture, purgeVars, raised, faults, jobVars>>

SavePinned ==
  /\ pc = "write"
  /\ ~LastStep
  /\ config.async_mode = "async_with_pinned_mem"
  /\ DcpSave(states.step, [states EXCEPT !.model = NotSaved, !.optim = NotSaved],
             "stage_model", ".metadata")
  /\ stagingFuture' = TRUE
  /\ saveFuture' = TRUE
  /\ lastSaved' = states.step
  /\ pc' = "loop"
  /\ UNCHANGED <<disk, states, purgeVars, raised, faults, jobVars>>

\* The last step is saved synchronously in every mode.
SaveSync ==
  /\ pc = "write"
  /\ LastStep \/ config.async_mode = "disabled"
  /\ DcpSave(states.step,
             IF LastStep /\ config.last_save # "full" THEN SelectModel ELSE states,
             "queued",
             IF LastStep /\ config.last_save = "hf" THEN "hf_index" ELSE ".metadata")
  /\ pc' = "writing"
  /\ UNCHANGED <<disk, states, stagingFuture, saveFuture, purgeVars, raised, faults,
                 lastSaved, jobVars>>

SaveSyncReturns ==
  /\ pc = "writing"
  /\ upload = "done"
  /\ lastSaved' = states.step
  /\ pc' = "loop"
  /\ UNCHANGED <<disk, states, managerVars, purgeVars, raised, faults, jobVars>>

SaveSyncRaises ==
  /\ pc = "writing"
  /\ upload = "failed"
  /\ raised' = TRUE
  /\ pc' = "close_staging"
  /\ UNCHANGED <<disk, states, managerVars, purgeVars, faults, lastSaved, jobVars>>

-------------------------------------------------------------------------------
(* Trainer.close, reached with or without an exception. *)

CloseStaging ==
  /\ pc = "close_staging"
  /\ WaitForStaging
  /\ pc' = "close_saving"
  /\ UNCHANGED <<disk, states, snapshot, upload, saving, target, saveFuture,
                 purgeVars, raised, faults, lastSaved, jobVars>>

(* Mutant: close forgets the save in flight.                               *)
CloseWithoutSaving ==
  /\ pc = "close_saving"
  /\ pc' = "close_purge"
  /\ UNCHANGED <<disk, states, managerVars, purgeVars, raised, faults, lastSaved, jobVars>>

CloseSaving ==
  /\ pc = "close_saving"
  /\ WaitForSaving
  /\ raised' = (raised \/ SavingFailed)
  /\ pc' = "close_purge"
  /\ UNCHANGED <<disk, states, snapshot, upload, saving, target, stagingFuture,
                 purgeVars, faults, lastSaved, jobVars>>

\* The finally of close joins the purge thread; then the process exits.
ClosePurge ==
  /\ pc = "close_purge"
  /\ PurgeThreadJoined
  /\ ManagerGone
  /\ pc' = "down"
  /\ raised' = FALSE
  /\ ended' = IF raised THEN "raised"
              ELSE IF states.step > states.data THEN "exhausted" ELSE "completed"
  /\ UNCHANGED <<disk, states, config, launches, faults, lastSaved>>

-------------------------------------------------------------------------------
(* Faults. *)

SaveFails ==
  /\ faults < MaxFaults
  /\ faults' = faults + 1
  /\ UploadFails
  /\ UNCHANGED <<pc, raised, lastSaved, jobVars>>

\* The process is killed: its queue, its futures and its threads are lost.
Crash ==
  /\ pc # "down"
  /\ faults < MaxFaults
  /\ faults' = faults + 1
  /\ ManagerGone
  /\ pc' = "down"
  /\ raised' = FALSE
  /\ ended' = "died"
  /\ UNCHANGED <<disk, states, config, launches, lastSaved>>

Background ==
  /\ StageModel \/ StageOptimizer \/ UploadBegin \/ UploadFinish
       \/ PurgeTake \/ PurgeDone \/ PurgeFails
  /\ UNCHANGED <<pc, raised, faults, lastSaved, jobVars>>

Terminated == pc = "down" /\ launches = MaxLaunches /\ UNCHANGED vars

Train ==
  \/ LoadNothing \/ LoadCheckpoint \/ LoadRaises
  \/ TrainingEnds \/ DataloaderExhausted \/ ForwardBackward \/ OptimStep
  \/ SaveNotDue \/ SaveWaits \/ SavePurges
  \/ SaveAsync \/ SavePinned \/ SaveSync \/ SaveSyncReturns \/ SaveSyncRaises
  \/ CloseStaging \/ CloseSaving \/ ClosePurge

LaunchSome == \E c \in JobConfigs : Launch(c)

Next ==
  \/ LaunchSome \/ Train \/ Background
  \/ TrainStepRaises \/ SaveFails \/ Crash
  \/ Terminated

Spec == Init /\ [][Next]_vars

\* The trainer, the uploader and the purge thread never stop by themselves.
FairSpec == Spec /\ WF_vars(Train) /\ WF_vars(Background)

-------------------------------------------------------------------------------
(* Properties. *)

Intact(s) == IsResumableCheckpoint(s) /\ IsFull(disk[s].content)

Durable ==
  LET intact == {s \in Steps : Intact(s)}
  IN  IF intact = {} THEN 0 ELSE Max(intact)

\* A full checkpoint of step N is the state after exactly N optimizer updates
\* and N batch groups, although the tensors may be copied while the trainer
\* is already computing step N + 1 (staging_future and its wait in train_step).
ConsistentSnapshots ==
  \A s \in Steps : Intact(s) => \A f \in Fields : disk[s].content[f] = s

\* Whenever the process dies, in a save or in the middle of a deletion, the
\* checkpoint _find_load_step then selects is one that load() can restore.
LatestIsLoadable == FindLoadStep # NoStep => CanLoad(FindLoadStep)

\* After an exit without exception the last step for which save() returned
\* True is on disk and whole, and a job that reached training.steps left them
\* durable: close() awaits the asynchronous save and joins the purge thread.
NothingLostOnExit ==
  pc = "down" /\ ended \in {"completed", "exhausted"} =>
    /\ lastSaved # NoStep => Intact(lastSaved)
    /\ ended = "completed" => Durable >= config.steps

\* A crash at any instant costs one interval of updates, two when saves are
\* asynchronous: the next save waits for the one before it.
BoundedLoss ==
  states.model - Durable <= Interval * (IF config.async_mode = "disabled" THEN 1 ELSE 2)

\* What is queued for deletion, however late the purge thread comes to it, is
\* never the checkpoint a restart would resume from nor the one being saved.
PurgeSparesResume ==
  \A s \in ToSet(purgeQueue) \union ({purging} \ {NoStep}) :
    /\ s # FindLoadStep
    /\ upload # "idle" => s # saving

\* The run implements durable progress: a restart goes on from exactly the
\* highest whole checkpoint, which only grows and never runs ahead of training.
\* A job whose load raised has trained nothing and never started.
Started == pc \notin {"down", "load"} /\ ~(raised /\ states = Fresh)
Recovery == INSTANCE RecoverableTraining WITH
  durable <- Durable,
  running <- Started,
  step <- IF Started THEN states.step ELSE 0
ImplementsRecovery == Recovery!Spec

\* When no fault is left to happen a job in its loop ends by itself and without
\* an exception: no wait for a staging, a save or the purge thread lasts.
JobCompletes ==
  (pc = "loop" /\ faults = MaxFaults /\ upload # "failed")
    ~> (pc = "down" /\ ended \in {"completed", "exhausted"})

===============================================================================
