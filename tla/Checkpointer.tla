----------------------------- MODULE Checkpointer -----------------------------
(***************************************************************************)
(* CheckpointManager (dcp.py over base.py): the checkpoint folder, the     *)
(* asynchronous save that copies the live states and writes them behind    *)
(* the trainer's back, and the daemon thread that deletes old checkpoints. *)
(*                                                                         *)
(* The state of a training process is four counters: how many optimizer    *)
(* updates the model and the optimizer have seen, how many batch groups    *)
(* the dataloader has handed out, and the trainer's step.  A checkpoint    *)
(* holds the value each had when it was copied.  All ranks save and load   *)
(* together (collectives), so they are one process; rank 0 purges.         *)
(***************************************************************************)
EXTENDS Integers, Sequences, FiniteSets, FiniteSetsExt, SequencesExt

CONSTANTS
  MaxSteps,                    \* bound: the largest training.steps of a job
  Interval,                    \* checkpoint.interval
  KeepLatestK,                 \* checkpoint.keep_latest_k
  PurgeExempt,                 \* the steps checkpoint.purge_exempt exempts
  EnableFirstStepCheckpoint

Steps == 0 .. MaxSteps
NoStep == -1

ASSUME CheckpointerAssumption ==
  /\ MaxSteps \in Nat
  /\ Interval \in Nat \ {0}
  /\ KeepLatestK \in Nat \ {1}
  /\ PurgeExempt \subseteq Steps
  /\ EnableFirstStepCheckpoint \in BOOLEAN

\* ".metadata" is written last by DCP, "hf_index" is
\* model.safetensors.index.json of a Hugging Face export.
Marker == {".metadata", "hf_index"}
AsyncMode == {"disabled", "async", "async_with_pinned_mem"}

Fields == {"model", "optim", "data", "step"}
NotSaved == -1
Content == [Fields -> Steps \union {NotSaved}]
Nothing == [f \in Fields |-> NotSaved]
Fresh == [f \in Fields |-> 0]
IsFull(content) == \A f \in Fields : content[f] # NotSaved

Directory == [exists : BOOLEAN, markers : SUBSET Marker, content : Content]
Absent == [exists |-> FALSE, markers |-> {}, content |-> Nothing]

VARIABLES
  disk,            \* step -> the directory step-N of the folder
  states,          \* self.states, the live objects of the trainer
  snapshot,        \* the copy of them that is being saved
  upload,          \* how far the save in flight is
  saving,          \* its step
  target,          \* the marker it will publish
  stagingFuture, saveFuture,   \* the manager holds the future
  purgeQueue, purging

managerVars == <<snapshot, upload, saving, target, stagingFuture, saveFuture>>
purgeVars == <<purgeQueue, purging>>

UploadPhase ==
  {"idle", "stage_model", "stage_optim", "queued", "writing", "done", "failed"}

CheckpointerTypeOK ==
  /\ disk \in [Steps -> Directory]
  /\ states \in [Fields -> Steps]
  /\ snapshot \in Content
  /\ upload \in UploadPhase
  /\ saving \in Steps \union {NoStep}
  /\ target \in Marker
  /\ stagingFuture \in BOOLEAN
  /\ saveFuture \in BOOLEAN
  /\ purgeQueue \in Seq(Steps)
  /\ purging \in Steps \union {NoStep}

-------------------------------------------------------------------------------
(* What the manager reads off the folder. *)

(* Mutant: any directory will do.                                          *)
DirectoryExists(s) == disk[s].exists

IsResumableCheckpoint(s) == ".metadata" \in disk[s].markers

IsValidCheckpoint(s) == IsResumableCheckpoint(s) \/ "hf_index" \in disk[s].markers

FindLoadStep ==
  LET resumable == {s \in Steps : IsResumableCheckpoint(s)}
  IN  IF resumable = {} THEN NoStep ELSE Max(resumable)

\* dcp.load wants every key it is asked for, and only the model of step 0.
StatesToLoad(s) == IF s = 0 THEN {"model"} ELSE Fields
CanLoad(s) ==
  /\ ".metadata" \in disk[s].markers
  /\ \A f \in StatesToLoad(s) : disk[s].content[f] # NotSaved

ShouldSave(currStep, lastStep) ==
  \/ currStep = 1 /\ EnableFirstStepCheckpoint
  \/ lastStep
  \/ currStep % Interval = 0

\* Every directory but the one being saved, which keeps one slot for itself.
CompleteBut(savingStep) == {s \in Steps \ {savingStep} : IsValidCheckpoint(s)}

(* Mutant: the directory about to be written counts as abandoned.          *)
AbandonedOrSaving(savingStep) == {s \in Steps : disk[s].exists /\ ~IsValidCheckpoint(s)}

Abandoned(savingStep) ==
  {s \in Steps \ {savingStep} : disk[s].exists /\ ~IsValidCheckpoint(s)}

(* Mutant: two slots are reserved for the save.                            *)
NumToKeepLessOne == KeepLatestK - 2

NumToKeep == KeepLatestK - 1

Stale(savingStep) ==
  {s \in CompleteBut(savingStep) :
     Cardinality({t \in CompleteBut(savingStep) : t > s}) >= NumToKeep}

\* The stale ones are sorted; the abandoned ones come as listdir gives them.
PurgeStaleCheckpoints(savingStep) ==
  IF KeepLatestK = 0
  THEN UNCHANGED purgeQueue
  ELSE \E stale \in SetToSeqs(Stale(savingStep) \ PurgeExempt),
          abandoned \in SetToSeqs(Abandoned(savingStep)) :
         /\ \A i, j \in DOMAIN stale : i < j => stale[i] < stale[j]
         /\ purgeQueue' = purgeQueue \o stale \o abandoned

-------------------------------------------------------------------------------
(* The save in flight. *)

SelectModel == [Nothing EXCEPT !.model = states.model]

\* dcp.save and dcp.async_save take the plain state (dataloader, trainer) at
\* the call; with pinned memory the tensors are copied later, by the stager.
DcpSave(savingStep, content, phase, marker) ==
  /\ snapshot' = content
  /\ upload' = phase
  /\ saving' = savingStep
  /\ target' = marker

StageModel ==
  /\ upload = "stage_model"
  /\ snapshot' = [snapshot EXCEPT !.model = states.model]
  /\ upload' = "stage_optim"
  /\ UNCHANGED <<disk, states, saving, target, stagingFuture, saveFuture, purgeVars>>

StageOptimizer ==
  /\ upload = "stage_optim"
  /\ snapshot' = [snapshot EXCEPT !.optim = states.optim]
  /\ upload' = "queued"
  /\ UNCHANGED <<disk, states, saving, target, stagingFuture, saveFuture, purgeVars>>

\* The data files are overwritten first; markers of an earlier save remain.
UploadBegin ==
  /\ upload = "queued"
  /\ upload' = "writing"
  /\ disk' = [disk EXCEPT ![saving] =
                [exists |-> TRUE, markers |-> @.markers, content |-> Nothing]]
  /\ UNCHANGED <<states, snapshot, saving, target, stagingFuture, saveFuture, purgeVars>>

\* The marker is published last.
UploadFinish ==
  /\ upload = "writing"
  /\ upload' = "done"
  /\ disk' = [disk EXCEPT ![saving] =
                [exists |-> TRUE, markers |-> @.markers \union {target}, content |-> snapshot]]
  /\ UNCHANGED <<states, snapshot, saving, target, stagingFuture, saveFuture, purgeVars>>

UploadFails ==
  /\ upload \in {"queued", "writing"}
  /\ upload' = "failed"
  /\ UNCHANGED <<disk, states, snapshot, saving, target, stagingFuture, saveFuture, purgeVars>>

(* Mutant: train_step does not wait for the staging.                       *)
NeverPending == FALSE

StagingPending == stagingFuture /\ upload \in {"stage_model", "stage_optim"}
SavingPending == saveFuture /\ upload \notin {"done", "failed"}

(* Mutant: the result of the save is dropped.                              *)
FailureIgnored == FALSE

SavingFailed == saveFuture /\ upload = "failed"

\* The futures are cleared before their result is looked at.
WaitForStaging == ~StagingPending /\ stagingFuture' = FALSE
WaitForSaving == ~SavingPending /\ saveFuture' = FALSE

-------------------------------------------------------------------------------
(* The purge thread. *)

\* rmtree removes a directory's files in any order: data and markers may be
\* gone or not until it ends, and a directory already gone is no error.
PurgeTake ==
  /\ purging = NoStep
  /\ purgeQueue # <<>>
  /\ purging' = Head(purgeQueue)
  /\ purgeQueue' = Tail(purgeQueue)
  /\ LET s == Head(purgeQueue)
     IN  \E left \in SUBSET disk[s].markers, content \in {disk[s].content, Nothing} :
           disk' = [disk EXCEPT ![s] =
                      [exists |-> @.exists, markers |-> left, content |-> content]]
  /\ UNCHANGED <<states, managerVars>>

PurgeDone ==
  /\ purging # NoStep
  /\ disk' = [disk EXCEPT ![purging] = Absent]
  /\ purging' = NoStep
  /\ UNCHANGED <<states, managerVars, purgeQueue>>

\* A failed deletion is logged and skipped; what it left stays.
PurgeFails ==
  /\ purging # NoStep
  /\ purging' = NoStep
  /\ UNCHANGED <<disk, states, managerVars, purgeQueue>>

(* Mutant: close joins the thread but sends no sentinel.                   *)
NeverJoined == KeepLatestK = 0

\* The sentinel is behind whatever is queued, so join waits for all of it.
PurgeThreadJoined == purgeQueue = <<>> /\ purging = NoStep

-------------------------------------------------------------------------------

\* The process has gone: nothing but the folder is left.
ManagerGone ==
  /\ snapshot' = Nothing
  /\ upload' = "idle"
  /\ saving' = NoStep
  /\ target' = ".metadata"
  /\ stagingFuture' = FALSE
  /\ saveFuture' = FALSE
  /\ purgeQueue' = <<>>
  /\ purging' = NoStep

\* The folder may hold a seed checkpoint, which is the model only.
CheckpointerInit ==
  /\ \E seed \in {Absent, [exists |-> TRUE, markers |-> {".metadata"},
                           content |-> [Nothing EXCEPT !.model = 0]]} :
       disk = [s \in Steps |-> IF s = 0 THEN seed ELSE Absent]
  /\ states = Fresh
  /\ snapshot = Nothing
  /\ upload = "idle"
  /\ saving = NoStep
  /\ target = ".metadata"
  /\ stagingFuture = FALSE
  /\ saveFuture = FALSE
  /\ purgeQueue = <<>>
  /\ purging = NoStep
===============================================================================
