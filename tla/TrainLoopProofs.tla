---------------------------- MODULE TrainLoopProofs ----------------------------
(***************************************************************************)
(* Proofs about TrainLoop, for all jobs, save modes, intervals and faults: *)
(* every checkpoint is of one moment; and for jobs that resume from the    *)
(* latest checkpoint, that checkpoint can be loaded, at most two intervals *)
(* are lost, and the promise of RecoverableTraining is kept.               *)
(*                                                                         *)
(* The invariant follows a value from the live states through the staged   *)
(* copy to the disk: each of the three holds, field by field, either       *)
(* nothing or the number of the step it belongs to.  While tensors are     *)
(* being copied the trainer has not passed its wait for the staging.       *)
(*                                                                         *)
(* Recovery rests on the order of the saves: one is in flight, it is ahead *)
(* of all that is on disk, of the steps due before it none is missing, and *)
(* nothing queued for deletion is the latest or the one in flight.         *)
(***************************************************************************)
EXTENDS TrainLoop, TLAPS, WellFoundedInduction, FiniteSetTheorems

Copying == upload \in {"stage_model", "stage_optim"}
InFlight == upload \in {"stage_model", "stage_optim", "queued", "writing"}

StatesOfOneStep ==
  /\ pc \in {"load", "loop", "save", "purge", "write", "writing"} =>
       \A f \in Fields : states[f] = states["step"]
  /\ pc = "load" => states["step"] = 0
  /\ pc = "optim" => /\ states["data"] = states["step"]
                     /\ states["optim"] = states["model"]
                     /\ states["step"] = states["model"] + 1

CopyOfOneStep ==
  /\ InFlight => /\ saving \in Steps
                 /\ \A f \in Fields : snapshot[f] \in {NotSaved, saving}
  /\ Copying => /\ stagingFuture
                /\ states["model"] = saving
                /\ states["optim"] = saving

DiskOfOneStep == \A s \in Steps, f \in Fields : disk[s].content[f] \in {NotSaved, s}

NoSaveBeforeLoad == pc \in {"down", "load"} => upload = "idle"

SnapshotInv ==
  /\ TypeOK
  /\ StatesOfOneStep
  /\ CopyOfOneStep
  /\ DiskOfOneStep
  /\ NoSaveBeforeLoad

-------------------------------------------------------------------------------

(* A set of steps has a largest one.                                       *)
LEMMA LargestStep ==
  ASSUME NEW R \in SUBSET Steps, R # {}
  PROVE  Max(R) \in R /\ \A s \in R : s <= Max(R)
<1> USE CheckpointerAssumption
<1> DEFINE T == {MaxSteps - s : s \in R}
<1>1. T \subseteq Nat /\ T # {}
  <2>1. \A s \in R : MaxSteps - s \in Nat
    BY DEF CheckpointerAssumption, Steps
  <2> QED
    BY <2>1
<1>2. IsWellFoundedOn(OpToRel(<, Nat), Nat)
  BY NatLessThanWellFounded
<1>3. PICK t \in T : \A u \in T : ~ (<<u, t>> \in OpToRel(<, Nat))
  BY <1>1, <1>2, WFMin
<1>4. \A u \in T : ~ (u < t)
  BY <1>1, <1>3 DEF OpToRel
<1>5. PICK m \in R : t = MaxSteps - m
  OBVIOUS
<1>6. \A s \in R : m >= s
  <2>1. SUFFICES ASSUME NEW s \in R PROVE m >= s
    OBVIOUS
  <2>2. MaxSteps - s \in T
    OBVIOUS
  <2>3. ~ (MaxSteps - s < MaxSteps - m)
    BY <1>4, <1>5, <2>2
  <2>4. s \in Int /\ m \in Int /\ MaxSteps \in Int
    BY DEF Steps, CheckpointerAssumption
  <2> HIDE DEF T
  <2> QED
    BY <2>3, <2>4
<1>7. Max(R) \in R /\ \A s \in R : Max(R) >= s
  BY <1>6 DEF Max
<1> QED
  BY <1>7 DEF Steps, CheckpointerAssumption

(* _find_load_step finds a step, if any.                                   *)
LEMMA FindLoadStepType == FindLoadStep \in Steps \union {NoStep}
<1> DEFINE R == {s \in Steps : IsResumableCheckpoint(s)}
<1>1. FindLoadStep = IF R = {} THEN NoStep ELSE Max(R)
  BY DEF FindLoadStep
<1>2. R # {} => Max(R) \in Steps
  BY LargestStep
<1> QED
  BY <1>1, <1>2

(* load() looks at a step, or at none.                                     *)
LEMMA LoadStepType ==
  ASSUME TypeOK
  PROVE  LoadStep \in Steps \union {NoStep}
BY FindLoadStepType DEF LoadStep, TypeOK, JobConfig

(* The constant records have the types of what they stand for.             *)
LEMMA RecordTypes ==
  /\ Nothing \in Content
  /\ Fresh \in [Fields -> Steps]
  /\ Absent \in Directory
  /\ \A f \in Fields : Nothing[f] = NotSaved /\ Fresh[f] = 0
  /\ NoConfig \in JobConfig
<1> USE CheckpointerAssumption
<1>1. 0 \in Steps /\ NotSaved \in Steps \union {NotSaved}
  BY DEF CheckpointerAssumption, Steps
<1>2. Nothing \in Content /\ Fresh \in [Fields -> Steps]
  BY <1>1 DEF Nothing, Fresh, Content
<1>3. Absent \in Directory
  BY <1>2 DEF Absent, Directory
<1>4. NoConfig \in JobConfig
  BY <1>1 DEF NoConfig, JobConfig, AsyncMode, LastSave
<1> QED
  BY <1>2, <1>3, <1>4 DEF Nothing, Fresh

(* An order of a set is a sequence over it.                                *)
LEMMA SetToSeqsType ==
  ASSUME NEW S, IsFiniteSet(S), NEW q \in SetToSeqs(S)
  PROVE  q \in Seq(S)
<1>1. Cardinality(S) \in Nat
  BY FS_CardinalityType
<1>2. q \in [1 .. Cardinality(S) -> S]
  BY DEF SetToSeqs
<1> QED
  BY <1>1, <1>2

(* What PurgeStaleCheckpoints appends are steps.                           *)
LEMMA PurgeStaleType ==
  ASSUME purgeQueue \in Seq(Steps), NEW n \in Steps, PurgeStaleCheckpoints(n)
  PROVE  purgeQueue' \in Seq(Steps)
<1> USE CheckpointerAssumption
<1>1. CASE KeepLatestK = 0
  BY <1>1 DEF PurgeStaleCheckpoints
<1>2. CASE KeepLatestK # 0
  <2>1. IsFiniteSet(Steps)
    BY FS_Interval DEF Steps, CheckpointerAssumption
  <2>2. /\ Stale(n) \ PurgeExempt \subseteq Steps
        /\ Abandoned(n) \subseteq Steps
    BY DEF Stale, CompleteBut, Abandoned
  <2>3. PICK stale \in SetToSeqs(Stale(n) \ PurgeExempt),
             abandoned \in SetToSeqs(Abandoned(n)) :
               purgeQueue' = purgeQueue \o stale \o abandoned
    BY <1>2 DEF PurgeStaleCheckpoints
  <2>4. stale \in Seq(Stale(n) \ PurgeExempt) /\ abandoned \in Seq(Abandoned(n))
    BY <2>1, <2>2, FS_Subset, SetToSeqsType
  <2>5. stale \in Seq(Steps) /\ abandoned \in Seq(Steps)
    BY <2>2, <2>4
  <2> QED
    BY <2>3, <2>5
<1> QED
  BY <1>1, <1>2

-------------------------------------------------------------------------------

(* A new or a seeded folder holds nothing of a later step.                 *)
LEMMA SnapshotInit ==
  ASSUME Init
  PROVE  SnapshotInv
<1> USE RecordTypes, CheckpointerAssumption, TrainLoopAssumption
<1>1. 0 \in Steps /\ NoStep \notin Steps /\ 0 \in 0 .. MaxLaunches /\ 0 \in 0 .. MaxFaults
  BY DEF Steps, NoStep, CheckpointerAssumption, TrainLoopAssumption
<1>2. PICK seed \in {Absent, [exists |-> TRUE, markers |-> {".metadata"},
                              content |-> [Nothing EXCEPT !.model = 0]]} :
        disk = [s \in Steps |-> IF s = 0 THEN seed ELSE Absent]
  BY DEF Init, CheckpointerInit
<1>3. [Nothing EXCEPT !.model = 0] \in Content
  BY <1>1 DEF Nothing, Content, Fields
<1>4. seed \in Directory
  <2>1. CASE seed = Absent
    BY <2>1
  <2>2. CASE seed # Absent
    <3>1. {".metadata"} \in SUBSET Marker
      BY DEF Marker
    <3>2. seed = [exists |-> TRUE, markers |-> {".metadata"},
                  content |-> [Nothing EXCEPT !.model = 0]]
      BY <1>2, <2>2, Zenon
    <3>3. \A c \in Content, m \in SUBSET Marker :
            [exists |-> TRUE, markers |-> m, content |-> c] \in Directory
      BY DEF Directory
    <3> QED
      BY <1>3, <3>1, <3>2, <3>3, Zenon
  <2> QED
    BY <2>1, <2>2
<1>5. \A f \in Fields : Absent.content[f] = NotSaved
  BY DEF Absent
<1>6. \A f \in Fields : seed.content[f] \in {NotSaved, 0}
  BY <1>2, <1>5 DEF Nothing, Fields
<1>7. disk \in [Steps -> Directory]
  BY <1>2, <1>4
<1>8. DiskOfOneStep
  BY <1>2, <1>5, <1>6 DEF DiskOfOneStep
<1>9. CheckpointerTypeOK
  <2>1. purgeQueue = <<>> /\ <<>> \in Seq(Steps)
    BY DEF Init, CheckpointerInit
  <2> QED
    BY <1>7, <2>1 DEF Init, CheckpointerInit, CheckpointerTypeOK, UploadPhase, Marker
<1>10. TypeOK
  BY <1>1, <1>9 DEF Init, TypeOK, Pc
<1>11. StatesOfOneStep /\ CopyOfOneStep /\ NoSaveBeforeLoad
  BY DEF Init, CheckpointerInit, StatesOfOneStep, CopyOfOneStep, InFlight, Copying,
     NoSaveBeforeLoad
<1> QED
  BY <1>8, <1>10, <1>11 DEF SnapshotInv

(* The states a job starts from are of one step, 0 or the one it loads.    *)
LEMMA LoadKeepsSnapshotInv ==
  ASSUME SnapshotInv,
         (\E c \in JobConfigs : Launch(c)) \/ LoadNothing \/ LoadCheckpoint \/ LoadRaises
  PROVE  SnapshotInv'
<1> USE CheckpointerAssumption, TrainLoopAssumption
<1> USE DEF SnapshotInv, TypeOK, CheckpointerTypeOK, StatesOfOneStep, CopyOfOneStep,
            DiskOfOneStep, NoSaveBeforeLoad, InFlight, Copying,
            managerVars, purgeVars, jobVars, Pc, UploadPhase
<1>1. CASE \E c \in JobConfigs : Launch(c)
  <2>1. PICK c \in JobConfigs : Launch(c)
    BY <1>1
  <2>2. c \in JobConfig /\ launches' \in 0 .. MaxLaunches
    BY <2>1 DEF Launch, TrainLoopAssumption
  <2> QED
    BY <2>1, <2>2, RecordTypes DEF Launch, Fields
<1>2. CASE LoadNothing
  BY <1>2 DEF LoadNothing
<1>3. CASE LoadCheckpoint
  <2>1. LoadStep \in Steps
    BY <1>3, LoadStepType DEF LoadCheckpoint
  <2>2. \A f \in StatesToLoad(LoadStep) : disk[LoadStep].content[f] = LoadStep
    BY <1>3, <2>1 DEF LoadCheckpoint, CanLoad, StatesToLoad, Fields
  <2>3. \A f \in Fields : states[f] = 0
    BY <1>3 DEF LoadCheckpoint
  <2>4. \A f \in Fields : states'[f] = LoadStep
    BY <1>3, <2>2, <2>3 DEF LoadCheckpoint, Restored, StatesToLoad
  <2>5. states' \in [Fields -> Steps]
    BY <1>3, <2>1, <2>4 DEF LoadCheckpoint, Restored
  <2>6. "step" \in Fields
    BY DEF Fields
  <2> QED
    BY <1>3, <2>4, <2>5, <2>6 DEF LoadCheckpoint
<1>4. CASE LoadRaises
  BY <1>4 DEF LoadRaises
<1> QED
  BY <1>1, <1>2, <1>3, <1>4

(* The counters of a step go up together, the model's after the staging.   *)
LEMMA TrainStepKeepsSnapshotInv ==
  ASSUME SnapshotInv,
         \/ TrainingEnds \/ DataloaderExhausted \/ ForwardBackward
         \/ TrainStepRaises \/ OptimStep
  PROVE  SnapshotInv'
<1> USE CheckpointerAssumption, TrainLoopAssumption
<1> USE DEF SnapshotInv, TypeOK, CheckpointerTypeOK, StatesOfOneStep, CopyOfOneStep,
            DiskOfOneStep, NoSaveBeforeLoad, InFlight, Copying,
            managerVars, purgeVars, jobVars, Pc, UploadPhase
<1>1. CASE TrainingEnds
  BY <1>1 DEF TrainingEnds
<1>2. CASE DataloaderExhausted
  <2>1. /\ states["step"] \in Nat /\ states["step"] < config.steps
        /\ config.steps \in Steps
    BY <1>2 DEF DataloaderExhausted, ShouldContinueTraining, Fields, Steps, JobConfig
  <2>2. states["step"] + 1 \in Steps
    BY <2>1 DEF Steps, CheckpointerAssumption
  <2>3. states' = [states EXCEPT !["step"] = @ + 1]
    BY <1>2 DEF DataloaderExhausted
  <2>4. /\ states' \in [Fields -> Steps]
        /\ states'["model"] = states["model"] /\ states'["optim"] = states["optim"]
    BY <2>2, <2>3 DEF Fields
  <2> QED
    BY <1>2, <2>4 DEF DataloaderExhausted
<1>3. CASE ForwardBackward
  <2>1. /\ states["step"] \in Nat /\ states["step"] < config.steps
        /\ config.steps \in Steps
    BY <1>3 DEF ForwardBackward, ShouldContinueTraining, Fields, Steps, JobConfig
  <2>2. states["step"] + 1 \in Steps
    BY <2>1 DEF Steps, CheckpointerAssumption
  <2>3. \A f \in Fields : states[f] = states["step"]
    BY <1>3 DEF ForwardBackward
  <2>4. states' = [states EXCEPT !["step"] = @ + 1, !["data"] = @ + 1]
    BY <1>3 DEF ForwardBackward
  <2>5. /\ states'["step"] = states["step"] + 1
        /\ states'["data"] = states["step"] + 1
        /\ states'["model"] = states["step"] /\ states'["optim"] = states["step"]
        /\ states' \in [Fields -> Steps]
    BY <2>2, <2>3, <2>4 DEF Fields
  <2> QED
    BY <1>3, <2>5 DEF ForwardBackward
<1>4. CASE TrainStepRaises
  BY <1>4 DEF TrainStepRaises, TrainLoopAssumption
<1>5. CASE OptimStep
  <2>1. ~Copying /\ stagingFuture' = FALSE
    BY <1>5 DEF OptimStep, WaitForStaging, StagingPending
  <2>2. states' = [states EXCEPT !["model"] = @ + 1, !["optim"] = @ + 1]
    BY <1>5 DEF OptimStep
  <2>3. /\ states["data"] = states["step"] /\ states["optim"] = states["model"]
        /\ states["step"] = states["model"] + 1
        /\ states["step"] \in Steps
    BY <1>5 DEF OptimStep, Fields
  <2>4. (\A f \in Fields : states'[f] = states["step"]) /\ states' \in [Fields -> Steps]
    BY <2>2, <2>3 DEF Fields
  <2>5. "step" \in Fields
    BY DEF Fields
  <2>6. TypeOK'
    <3>1. states' \in [Fields -> Steps] /\ stagingFuture' \in BOOLEAN /\ pc' \in Pc
      BY <1>5, <2>1, <2>4 DEF OptimStep
    <3> QED
      BY <1>5, <3>1 DEF OptimStep
  <2>7. StatesOfOneStep' /\ NoSaveBeforeLoad'
    BY <1>5, <2>1, <2>4, <2>5 DEF OptimStep
  <2>8. CopyOfOneStep'
    BY <1>5, <2>1, <2>4, <2>5 DEF OptimStep
  <2>9. DiskOfOneStep'
    BY <1>5, <2>1, <2>4, <2>5 DEF OptimStep
  <2> QED
    BY <2>6, <2>7, <2>8, <2>9
<1> QED
  BY <1>1, <1>2, <1>3, <1>4, <1>5

(* What a save takes at the call are the states of the current step.       *)
LEMMA SaveKeepsSnapshotInv ==
  ASSUME SnapshotInv,
         \/ SaveNotDue \/ SaveWaits \/ SavePurges \/ SaveAsync \/ SavePinned
         \/ SaveSync \/ SaveSyncReturns \/ SaveSyncRaises
  PROVE  SnapshotInv'
<1> USE CheckpointerAssumption, TrainLoopAssumption
<1> USE DEF SnapshotInv, TypeOK, CheckpointerTypeOK, StatesOfOneStep, CopyOfOneStep,
            DiskOfOneStep, NoSaveBeforeLoad, InFlight, Copying,
            managerVars, purgeVars, jobVars, Pc, UploadPhase
<1>1. CASE SaveNotDue
  BY <1>1 DEF SaveNotDue
<1>2. CASE SaveWaits
  <2>1. saveFuture' = FALSE /\ raised' \in BOOLEAN /\ pc' \in {"purge", "close_staging"}
    BY <1>2 DEF SaveWaits, WaitForSaving, SavingFailed
  <2>2. TypeOK'
    <3>1. UNCHANGED <<disk, states, snapshot, upload, saving, target, stagingFuture,
                      purgeVars, faults, lastSaved, jobVars>>
      BY <1>2 DEF SaveWaits
    <3>2. CheckpointerTypeOK'
      BY <2>1, <3>1
    <3> QED
      BY <2>1, <3>1, <3>2
  <2>3. StatesOfOneStep' /\ NoSaveBeforeLoad'
    BY <1>2, <2>1 DEF SaveWaits
  <2>4. CopyOfOneStep'
    BY <1>2, <2>1 DEF SaveWaits
  <2>5. DiskOfOneStep'
    BY <1>2, <2>1 DEF SaveWaits
  <2> QED
    BY <2>2, <2>3, <2>4, <2>5
<1>3. CASE SavePurges
  <2>1. purgeQueue' \in Seq(Steps)
    BY <1>3, PurgeStaleType DEF SavePurges, Fields
  <2> QED
    BY <1>3, <2>1 DEF SavePurges
<1>4. CASE SaveAsync
  <2>1. states["step"] \in Steps /\ states \in Content
    BY DEF Fields, Content
  <2>2. \A f \in Fields : states[f] = states["step"]
    BY <1>4 DEF SaveAsync
  <2>3. /\ snapshot' = states /\ saving' = states["step"]
        /\ upload' = "queued" /\ target' \in Marker
    BY <1>4 DEF SaveAsync, DcpSave, Marker
  <2> QED
    BY <1>4, <2>1, <2>2, <2>3 DEF SaveAsync
<1>5. CASE SavePinned
  BY <1>5, RecordTypes DEF SavePinned, DcpSave, Marker, Content, Fields
<1>6. CASE SaveSync
  BY <1>6, RecordTypes DEF SaveSync, DcpSave, Marker, Content, SelectModel, Nothing, Fields
<1>7. CASE SaveSyncReturns
  <2>1. lastSaved' \in Steps
    BY <1>7 DEF SaveSyncReturns, Fields
  <2> QED
    BY <1>7, <2>1 DEF SaveSyncReturns
<1>8. CASE SaveSyncRaises
  BY <1>8 DEF SaveSyncRaises
<1> QED
  BY <1>1, <1>2, <1>3, <1>4, <1>5, <1>6, <1>7, <1>8

(* A job's end, by itself or not, drops the copy and keeps the disk.       *)
LEMMA EndKeepsSnapshotInv ==
  ASSUME SnapshotInv,
         CloseStaging \/ CloseSaving \/ ClosePurge \/ SaveFails \/ Crash
  PROVE  SnapshotInv'
<1> USE CheckpointerAssumption, TrainLoopAssumption
<1> USE DEF SnapshotInv, TypeOK, CheckpointerTypeOK, StatesOfOneStep, CopyOfOneStep,
            DiskOfOneStep, NoSaveBeforeLoad, InFlight, Copying,
            managerVars, purgeVars, jobVars, Pc, UploadPhase
<1>1. ManagerGone =>
        /\ snapshot' \in Content /\ upload' = "idle" /\ saving' = NoStep
        /\ target' \in Marker /\ stagingFuture' \in BOOLEAN /\ saveFuture' \in BOOLEAN
        /\ purgeQueue' \in Seq(Steps) /\ purging' = NoStep
  <2>1. <<>> \in Seq(Steps)
    OBVIOUS
  <2> QED
    BY <2>1, RecordTypes DEF ManagerGone, Marker
<1>2. CASE CloseStaging
  <2>1. stagingFuture' = FALSE /\ ~Copying
    BY <1>2 DEF CloseStaging, WaitForStaging, StagingPending
  <2>2. TypeOK'
    BY <1>2, <2>1 DEF CloseStaging
  <2>3. StatesOfOneStep' /\ NoSaveBeforeLoad'
    BY <1>2, <2>1 DEF CloseStaging
  <2>4. CopyOfOneStep'
    BY <1>2, <2>1 DEF CloseStaging
  <2>5. DiskOfOneStep'
    BY <1>2, <2>1 DEF CloseStaging
  <2> QED
    BY <2>2, <2>3, <2>4, <2>5
<1>3. CASE CloseSaving
  <2>1. saveFuture' = FALSE /\ raised' \in BOOLEAN
    BY <1>3 DEF CloseSaving, WaitForSaving, SavingFailed
  <2>2. TypeOK'
    BY <1>3, <2>1 DEF CloseSaving
  <2>3. StatesOfOneStep' /\ NoSaveBeforeLoad'
    BY <1>3, <2>1 DEF CloseSaving
  <2>4. CopyOfOneStep'
    BY <1>3, <2>1 DEF CloseSaving
  <2>5. DiskOfOneStep'
    BY <1>3, <2>1 DEF CloseSaving
  <2> QED
    BY <2>2, <2>3, <2>4, <2>5
<1>4. CASE ClosePurge
  <2>1. ended' \in {"completed", "exhausted", "raised"}
    BY <1>4 DEF ClosePurge
  <2> QED
    BY <1>1, <1>4, <2>1 DEF ClosePurge
<1>5. CASE SaveFails
  BY <1>5 DEF SaveFails, UploadFails, TrainLoopAssumption
<1>6. CASE Crash
  <2>1. faults' \in 0 .. MaxFaults
    BY <1>6 DEF Crash, TrainLoopAssumption
  <2> QED
    BY <1>1, <1>6, <2>1 DEF Crash
<1> QED
  BY <1>2, <1>3, <1>4, <1>5, <1>6

(* The stager copies the step it was asked for; the disk gets that copy,   *)
(* or loses data.                                                          *)
LEMMA BackgroundKeepsSnapshotInv ==
  ASSUME SnapshotInv,
         Background
  PROVE  SnapshotInv'
<1> USE CheckpointerAssumption, TrainLoopAssumption
<1> USE DEF SnapshotInv, TypeOK, CheckpointerTypeOK, StatesOfOneStep, CopyOfOneStep,
            DiskOfOneStep, NoSaveBeforeLoad, InFlight, Copying,
            managerVars, purgeVars, jobVars, Pc, UploadPhase
<1>1. CASE StageModel
  <2>1. snapshot' = [snapshot EXCEPT !["model"] = saving] /\ saving \in Steps
    BY <1>1 DEF StageModel
  <2>2. snapshot' \in Content
    BY <2>1 DEF Content, Fields
  <2>3. \A f \in Fields : snapshot'[f] \in {NotSaved, saving}
    BY <1>1, <2>1 DEF StageModel, Content
  <2>4. TypeOK'
    BY <1>1, <2>2 DEF Background, StageModel
  <2>5. StatesOfOneStep' /\ NoSaveBeforeLoad'
    BY <1>1 DEF Background, StageModel
  <2>6. CopyOfOneStep'
    BY <1>1, <2>2, <2>3 DEF StageModel
  <2>7. DiskOfOneStep'
    BY <1>1, <2>2, <2>3 DEF StageModel
  <2> QED
    BY <2>4, <2>5, <2>6, <2>7
<1>2. CASE StageOptimizer
  <2>1. snapshot' = [snapshot EXCEPT !["optim"] = saving] /\ saving \in Steps
    BY <1>2 DEF StageOptimizer
  <2>2. snapshot' \in Content
    BY <2>1 DEF Content, Fields
  <2>3. \A f \in Fields : snapshot'[f] \in {NotSaved, saving}
    BY <1>2, <2>1 DEF StageOptimizer, Content
  <2>4. TypeOK'
    BY <1>2, <2>2 DEF Background, StageOptimizer
  <2>5. StatesOfOneStep' /\ NoSaveBeforeLoad'
    BY <1>2 DEF Background, StageOptimizer
  <2>6. CopyOfOneStep'
    BY <1>2, <2>2, <2>3 DEF StageOptimizer
  <2>7. DiskOfOneStep'
    BY <1>2, <2>2, <2>3 DEF StageOptimizer
  <2> QED
    BY <2>4, <2>5, <2>6, <2>7
<1>3. CASE UploadBegin
  BY <1>3, RecordTypes DEF Background, UploadBegin, Directory
<1>4. CASE UploadFinish
  BY <1>4 DEF Background, UploadFinish, Directory
<1>5. CASE PurgeTake
  <2> DEFINE s == Head(purgeQueue)
  <2>1. s \in Steps /\ purgeQueue' \in Seq(Steps) /\ purging' = s
    BY <1>5 DEF PurgeTake
  <2>2. PICK left \in SUBSET disk[s].markers, content \in {disk[s].content, Nothing} :
          disk' = [disk EXCEPT ![s] =
                     [exists |-> @.exists, markers |-> left, content |-> content]]
    BY <1>5 DEF PurgeTake
  <2>3. left \subseteq Marker /\ content \in Content
    BY <2>1, <2>2, RecordTypes DEF Directory
  <2>4. \A f \in Fields : content[f] \in {NotSaved, s}
    BY <2>1, <2>2, RecordTypes
  <2>5. disk' \in [Steps -> Directory]
    BY <2>1, <2>2, <2>3 DEF Directory
  <2>6. DiskOfOneStep'
    BY <2>1, <2>2, <2>4 DEF DiskOfOneStep
  <2> HIDE DEF s
  <2> QED
    BY <1>5, <2>1, <2>5, <2>6 DEF Background, PurgeTake
<1>6. CASE PurgeDone
  BY <1>6, RecordTypes DEF Background, PurgeDone, Absent
<1>7. CASE PurgeFails
  BY <1>7 DEF Background, PurgeFails
<1> QED
  BY <1>1, <1>2, <1>3, <1>4, <1>5, <1>6, <1>7 DEF Background

-------------------------------------------------------------------------------

(* Every step of the run keeps the invariant.                              *)
LEMMA SnapshotStep ==
  ASSUME SnapshotInv, [Next]_vars
  PROVE  SnapshotInv'
<1>1. CASE Train \/ LaunchSome \/ TrainStepRaises \/ SaveFails \/ Crash \/ Background
  BY <1>1, LoadKeepsSnapshotInv, TrainStepKeepsSnapshotInv, SaveKeepsSnapshotInv,
     EndKeepsSnapshotInv, BackgroundKeepsSnapshotInv DEF Train, LaunchSome
<1>2. CASE UNCHANGED vars
  BY <1>2 DEF vars, managerVars, purgeVars, SnapshotInv, TypeOK, CheckpointerTypeOK,
     StatesOfOneStep, CopyOfOneStep, DiskOfOneStep, NoSaveBeforeLoad, InFlight, Copying
<1> QED
  BY <1>1, <1>2 DEF Next, Terminated

(* What is live, copied or on disk belongs to one step each, through all   *)
(* saves, deletions, crashes and restarts.                                 *)
THEOREM SnapshotInvariant == Spec => []SnapshotInv
<1>1. Init => SnapshotInv
  BY SnapshotInit
<1>2. SnapshotInv /\ [Next]_vars => SnapshotInv'
  BY SnapshotStep
<1> QED
  BY <1>1, <1>2, PTL DEF Spec

(* No counter of a job leaves its range, whatever is launched on whatever  *)
(* an earlier job has left in the folder.                                  *)
THEOREM TypeCorrect == Spec => []TypeOK
<1>1. SnapshotInv => TypeOK
  BY DEF SnapshotInv
<1> QED
  BY <1>1, SnapshotInvariant, PTL

(* train_step's wait for the staging is enough for every full checkpoint   *)
(* to be the state after exactly its step, in every save mode.             *)
THEOREM SnapshotsConsistent == Spec => []ConsistentSnapshots
<1>1. SnapshotInv => ConsistentSnapshots
  BY DEF SnapshotInv, DiskOfOneStep, ConsistentSnapshots, Intact, IsFull
<1> QED
  BY <1>1, SnapshotInvariant, PTL

-------------------------------------------------------------------------------
(* Recovery. *)

(* What a checkpoint is saved for, besides the last step of a job.         *)
Regular(n) == ShouldSave(n, FALSE)

SavedBySome(n) == Regular(n) \/ \E c \in JobConfigs : c.steps = n

(* Every job restarts from the latest checkpoint, or is sent to one that   *)
(* no job ever writes, and saves its last step like every other.           *)
ResumesLatest ==
  \A c \in JobConfigs :
    /\ c.last_save = "full"
    /\ c.load_step # NoStep => c.load_step # 0 /\ ~SavedBySome(c.load_step)

Top == FindLoadStep
Kept == IF Top = NoStep THEN 0 ELSE Top
Doomed == ToSet(purgeQueue) \union ({purging} \ {NoStep})
Closing == {"close_staging", "close_saving", "close_purge"}

FullSavesOnly ==
  /\ pc # "down" => config \in JobConfigs
  /\ target = ".metadata"
  /\ \A s \in Steps : disk[s].markers \subseteq {".metadata"}
  /\ \A s \in Steps : disk[s].markers # {} => s = 0 \/ SavedBySome(s)
  /\ upload # "idle" => SavedBySome(saving)

CopyIsWhole ==
  /\ upload = "stage_model" => snapshot["data"] # NotSaved /\ snapshot["step"] # NotSaved
  /\ upload = "stage_optim" => \A f \in Fields \ {"optim"} : snapshot[f] # NotSaved
  /\ upload \in {"queued", "writing"} => IsFull(snapshot)

(* A save is awaited by the next one, by close or by the synchronous call. *)
SavesAwaited ==
  /\ InFlight => saveFuture \/ pc = "writing"
  /\ upload = "failed" => saveFuture \/ pc = "writing" \/ raised
  /\ pc \in {"purge", "write"} => upload \in {"idle", "done"}
  /\ pc \in {"down", "load", "close_purge"} => ~saveFuture
  /\ config.async_mode = "disabled" => ~saveFuture

(* The save in flight is ahead of all that is on disk, training of both.   *)
SaveAhead ==
  /\ upload # "idle" => 1 <= saving /\ saving <= states["step"]
  /\ InFlight \/ upload = "failed" => Top < saving
  /\ upload = "done" => saving = Top
  /\ pc \in {"loop", "optim"} =>
       Top <= states["model"] /\ (upload # "idle" => saving <= states["model"])
  /\ pc \in {"save", "purge", "write"} =>
       Top < states["model"] /\ (upload # "idle" => saving < states["model"])
  /\ pc = "writing" => upload # "idle" /\ saving = states["model"]

(* A job leaves its loop with its last step saved, or has a reason.        *)
LastStepSaved ==
  /\ pc = "loop" => states["step"] < config.steps \/ config.steps <= Kept
  /\ pc \in {"optim", "save", "purge", "write", "writing"} => states["step"] <= config.steps
  /\ pc \in {"save", "purge", "write", "writing"} => 1 <= states["model"]
  /\ pc \in {"purge", "write"} => ShouldSave(states["step"], LastStep)
  /\ pc \in Closing => raised \/ states["step"] > states["data"] \/ config.steps <= Kept
  /\ raised => pc \in Closing
  /\ raised /\ states["step"] = 0 => states = Fresh /\ upload = "idle"

(* Of what a job has to save on its way, nothing below a later save lacks. *)
NoGaps ==
  /\ \A s \in Steps : disk[s].exists => \A u \in 1 .. s - 1 : Regular(u) => u <= Top
  /\ upload # "idle" => \A u \in 1 .. saving - 1 : Regular(u) => u <= Top
  /\ pc \in {"loop", "optim"} =>
       \A u \in 1 .. states["model"] :
         Regular(u) => u <= Top \/ (upload # "idle" /\ u <= saving)
  /\ pc = "save" =>
       \A u \in 1 .. states["model"] - 1 :
         Regular(u) => u <= Top \/ (upload # "idle" /\ u <= saving)
  /\ pc \in {"purge", "write", "writing"} =>
       \A u \in 1 .. states["model"] - 1 : Regular(u) => u <= Top

(* Of the regular steps passed the last may be missing; none with          *)
(* synchronous saves.                                                      *)
OneSaveBehind ==
  /\ \A v \in 1 .. states["model"] - 1 : \A u \in 1 .. v - 1 :
       Regular(u) /\ Regular(v) => u <= Top
  /\ config.async_mode = "disabled" =>
       \A u \in 1 .. states["model"] - 1 : Regular(u) => u <= Top

SavedLast ==
  /\ lastSaved # NoStep => 1 <= lastSaved
  /\ pc \notin {"down", "writing"} /\ ~raised /\ lastSaved # NoStep =>
       upload # "idle" /\ lastSaved = saving
  /\ pc = "down" /\ ended \in {"completed", "exhausted"} =>
       /\ lastSaved # NoStep => lastSaved = Top
       /\ ended = "completed" => config.steps <= Kept

(* A deletion queued is never of a step to be resumed from or to be saved. *)
PurgeBelow ==
  \A s \in Doomed :
    /\ s # Top
    /\ upload # "idle" => s # saving
    /\ s < states["step"] \/ (states["step"] < s /\ states["step"] = config.steps)
    /\ pc \notin {"down", "load"}

RecoveryInv ==
  /\ SnapshotInv
  /\ LatestIsLoadable
  /\ FullSavesOnly
  /\ CopyIsWhole
  /\ SavesAwaited
  /\ SaveAhead
  /\ LastStepSaved
  /\ NoGaps
  /\ OneSaveBehind
  /\ SavedLast
  /\ PurgeBelow

-------------------------------------------------------------------------------
(* The latest checkpoint. *)

Resumables == {s \in Steps : IsResumableCheckpoint(s)}
Latest(R) == IF R = {} THEN NoStep ELSE Max(R)

LEMMA StepsAreNumbers == \A s \in Steps : s \in Nat /\ s \in Int
BY CheckpointerAssumption DEF Steps, CheckpointerAssumption

LEMMA LatestOfSet ==
  ASSUME NEW R \in SUBSET Steps
  PROVE  /\ Latest(R) \in Steps \union {NoStep}
         /\ \A s \in R : s <= Latest(R)
         /\ Latest(R) # NoStep => Latest(R) \in R
<1>1. NoStep \notin Steps
  BY CheckpointerAssumption DEF CheckpointerAssumption, Steps, NoStep
<1> QED
  BY <1>1, LargestStep DEF Latest

(* A set has one largest step.                                             *)
LEMMA LatestUnique ==
  ASSUME NEW R \in SUBSET Steps, NEW t \in R, \A s \in R : s <= t
  PROVE  Latest(R) = t
<1>1. Latest(R) \in R /\ t <= Latest(R)
  BY LargestStep DEF Latest
<1>2. Latest(R) \in Int /\ t \in Int
  <2>1. Latest(R) \in Steps /\ t \in Steps
    BY <1>1
  <2> QED
    BY <2>1, StepsAreNumbers
<1> QED
  BY <1>1, <1>2

(* What is below the latest may go.                                        *)
LEMMA LatestKept ==
  ASSUME NEW R \in SUBSET Steps, NEW Q \in SUBSET R,
         Latest(R) \in R => Latest(R) \in Q
  PROVE  Latest(Q) = Latest(R)
<1>1. CASE R = {}
  BY <1>1 DEF Latest
<1>2. CASE R # {}
  <2>1. Latest(R) \in Q /\ \A s \in Q : s <= Latest(R)
    BY <1>2, LargestStep DEF Latest
  <2> QED
    BY <2>1, LatestUnique
<1> QED
  BY <1>1, <1>2

LEMMA TopFacts ==
  /\ Top = Latest(Resumables)
  /\ Top' = Latest(Resumables')
  /\ Top \in Int /\ NoStep <= Top
  /\ Top # NoStep => Top \in Steps /\ IsResumableCheckpoint(Top)
  /\ \A s \in Steps : IsResumableCheckpoint(s) => s <= Top
<1>1. Top = Latest(Resumables) /\ Top' = Latest(Resumables')
  BY DEF Top, FindLoadStep, Latest, Resumables
<1>2. Resumables \subseteq Steps
  BY DEF Resumables
<1>3. /\ Top \in Steps \union {NoStep}
      /\ \A s \in Resumables : s <= Top
      /\ Top # NoStep => Top \in Resumables
  BY <1>1, <1>2, LatestOfSet
<1>4. Top \in Int /\ NoStep <= Top
  BY <1>3, CheckpointerAssumption DEF Steps, NoStep, CheckpointerAssumption
<1> QED
  BY <1>1, <1>3, <1>4 DEF Resumables

LEMMA TopUnchanged ==
  ASSUME UNCHANGED disk
  PROVE  Top' = Top
BY TopFacts DEF Resumables, IsResumableCheckpoint

(* Deleting, or writing again, a step that is not the latest leaves it the *)
(* latest, and loadable.                                                   *)
LEMMA TopSpared ==
  ASSUME SnapshotInv, LatestIsLoadable,
         NEW s \in Steps, s # Top, NEW d,
         d.markers \subseteq disk[s].markers,
         disk' = [disk EXCEPT ![s] = d]
  PROVE  Top' = Top /\ LatestIsLoadable'
<1>1. disk \in [Steps -> Directory]
  BY DEF SnapshotInv, TypeOK, CheckpointerTypeOK
<1>2. \A t \in Steps : t # s => disk'[t] = disk[t]
  BY <1>1
<1>3. disk'[s] = d
  BY <1>1
<1>4. Resumables' \subseteq Resumables
  BY <1>2, <1>3 DEF Resumables, IsResumableCheckpoint
<1>5. Top \in Resumables => Top \in Resumables'
  BY <1>2 DEF Resumables, IsResumableCheckpoint
<1>6. Top' = Top
  <2>1. Resumables \subseteq Steps
    BY DEF Resumables
  <2> QED
    BY <1>4, <1>5, <2>1, TopFacts, LatestKept
<1>7. LatestIsLoadable'
  <2>1. Top # NoStep => Top \in Steps /\ CanLoad(Top)
    BY TopFacts DEF LatestIsLoadable, Top
  <2>2. ASSUME Top # NoStep PROVE CanLoad(Top)'
    BY <1>2, <1>6, <2>1, <2>2 DEF CanLoad, StatesToLoad
  <2> QED
    BY <1>6, <2>2 DEF LatestIsLoadable, Top
<1> QED
  BY <1>6, <1>7

(* The step last committed is the latest.                                  *)
LEMMA TopCommitted ==
  ASSUME SnapshotInv, FullSavesOnly, CopyIsWhole, SaveAhead, UploadFinish
  PROVE  Top' = saving /\ LatestIsLoadable' /\ saving \in Steps
<1>1. disk \in [Steps -> Directory]
  BY DEF SnapshotInv, TypeOK, CheckpointerTypeOK
<1>2. saving \in Steps /\ Top < saving /\ IsFull(snapshot) /\ target = ".metadata"
  BY DEF UploadFinish, SnapshotInv, CopyOfOneStep, InFlight, SaveAhead, CopyIsWhole,
     FullSavesOnly
<1>3. /\ \A t \in Steps : t # saving => disk'[t] = disk[t]
      /\ disk'[saving].content = snapshot
      /\ ".metadata" \in disk'[saving].markers
  BY <1>1, <1>2 DEF UploadFinish
<1>4. Resumables' = Resumables \union {saving}
  BY <1>2, <1>3 DEF Resumables, IsResumableCheckpoint
<1>5. \A t \in Resumables' : t <= saving
  <2>1. SUFFICES ASSUME NEW t \in Resumables' PROVE t <= saving
    OBVIOUS
  <2>2. CASE t = saving
    BY <1>2, <2>2, StepsAreNumbers
  <2>3. CASE t # saving
    <3>1. t \in Steps /\ t <= Top
      BY <1>4, <2>3, TopFacts DEF Resumables
    <3> QED
      BY <1>2, <3>1, StepsAreNumbers, TopFacts
  <2> QED
    BY <2>2, <2>3
<1>6. Top' = saving
  <2>1. Resumables' \subseteq Steps /\ saving \in Resumables'
    BY <1>2, <1>4 DEF Resumables
  <2> QED
    BY <1>5, <2>1, TopFacts, LatestUnique
<1>7. LatestIsLoadable'
  <2>1. CanLoad(saving)'
    BY <1>2, <1>3 DEF CanLoad, StatesToLoad, IsFull, UploadFinish, Fields
  <2> QED
    BY <1>6, <2>1 DEF LatestIsLoadable, Top, UploadFinish
<1> QED
  BY <1>2, <1>6, <1>7

(* The counters compared below are numbers.                                *)
LEMMA Numbers ==
  ASSUME SnapshotInv
  PROVE  /\ states["model"] \in Nat /\ states["step"] \in Nat /\ states["data"] \in Nat
         /\ config.steps \in Nat
         /\ saving \in Int /\ lastSaved \in Int
         /\ Top \in Int /\ Kept \in Nat
         /\ Top <= Kept
<1>1. /\ saving \in Steps \union {NoStep} /\ lastSaved \in Steps \union {NoStep}
      /\ config.steps \in Steps
      /\ states["model"] \in Steps /\ states["step"] \in Steps /\ states["data"] \in Steps
  BY DEF SnapshotInv, TypeOK, CheckpointerTypeOK, Fields, JobConfig
<1> QED
  BY <1>1, StepsAreNumbers, TopFacts DEF NoStep, Kept

(* What a step that leaves the folder alone leaves alone with it.          *)
LEMMA FolderUnchanged ==
  ASSUME UNCHANGED disk
  PROVE  /\ Top' = Top /\ Kept' = Kept
         /\ LatestIsLoadable => LatestIsLoadable'
<1>1. Top' = Top /\ Kept' = Kept
  BY TopUnchanged DEF Kept
<1>2. LatestIsLoadable => LatestIsLoadable'
  BY <1>1 DEF LatestIsLoadable, Top, CanLoad, StatesToLoad
<1> QED
  BY <1>1, <1>2

LEMMA PurgesUnchanged ==
  ASSUME UNCHANGED purgeVars
  PROVE  Doomed' = Doomed
BY DEF purgeVars, Doomed, ToSet

LEMMA DoomedAreSteps ==
  ASSUME SnapshotInv
  PROVE  \A s \in Doomed : s \in Steps /\ s \in Nat
<1>1. purgeQueue \in Seq(Steps) /\ purging \in Steps \union {NoStep}
  BY DEF SnapshotInv, TypeOK, CheckpointerTypeOK
<1>2. \A s \in ToSet(purgeQueue) : s \in Steps
  BY <1>1 DEF ToSet
<1> QED
  BY <1>1, <1>2, StepsAreNumbers DEF Doomed

LEMMA LoopKeepsRecoveryInv ==
  ASSUME RecoveryInv, SnapshotInv',
         TrainingEnds \/ DataloaderExhausted \/ ForwardBackward
  PROVE  RecoveryInv'
<1> USE Numbers DEF RecoveryInv
<1>1. /\ UNCHANGED <<disk, managerVars, purgeVars, raised, lastSaved, jobVars>>
      /\ pc = "loop" /\ pc' \in {"optim", "close_staging"}
      /\ Top' = Top /\ Kept' = Kept /\ LatestIsLoadable'
  BY FolderUnchanged DEF TrainingEnds, DataloaderExhausted, ForwardBackward
<1> USE DEF managerVars, purgeVars, jobVars
<1>2. /\ states'["model"] = states["model"]
      /\ \/ UNCHANGED states /\ config.steps <= states["step"] /\ pc' = "close_staging"
         \/ /\ states'["step"] = states["step"] + 1
            /\ states["step"] < config.steps
            /\ pc' = "close_staging" => states'["data"] = states["step"]
  <2>1. states \in [Fields -> Steps] /\ states["data"] = states["step"]
    BY <1>1 DEF SnapshotInv, TypeOK, CheckpointerTypeOK, StatesOfOneStep, Fields
  <2>2. CASE TrainingEnds
    BY <2>2 DEF TrainingEnds, ShouldContinueTraining
  <2>3. CASE DataloaderExhausted
    <3>1. states' = [states EXCEPT !["step"] = @ + 1] /\ states["step"] < config.steps
      BY <2>3 DEF DataloaderExhausted, ShouldContinueTraining
    <3> QED
      BY <2>1, <3>1 DEF Fields
  <2>4. CASE ForwardBackward
    <3>1. /\ states' = [states EXCEPT !["step"] = @ + 1, !["data"] = @ + 1]
          /\ states["step"] < config.steps /\ pc' = "optim"
      BY <2>4 DEF ForwardBackward, ShouldContinueTraining
    <3> QED
      BY <2>1, <3>1 DEF Fields
  <2> QED
    BY <2>2, <2>3, <2>4
<1>3. FullSavesOnly' /\ CopyIsWhole'
  BY <1>1 DEF FullSavesOnly, CopyIsWhole, IsFull
<1>4. SavesAwaited'
  BY <1>1 DEF SavesAwaited, InFlight
<1>5. SaveAhead'
  BY <1>1, <1>2 DEF SaveAhead, InFlight
<1>6. LastStepSaved'
  BY <1>1, <1>2 DEF LastStepSaved, Closing
<1>7. NoGaps'
  BY <1>1, <1>2 DEF NoGaps
<1>8. OneSaveBehind'
  BY <1>1, <1>2 DEF OneSaveBehind
<1>9. SavedLast'
  BY <1>1 DEF SavedLast
<1>10. PurgeBelow'
  BY <1>1, <1>2, PurgesUnchanged, DoomedAreSteps DEF PurgeBelow
<1> QED
  BY <1>1, <1>3, <1>4, <1>5, <1>6, <1>7, <1>8, <1>9, <1>10

(* A step that raises costs what the steps before it had not saved.        *)
LEMMA RaiseKeepsRecoveryInv ==
  ASSUME RecoveryInv, SnapshotInv', TrainStepRaises
  PROVE  RecoveryInv'
<1> USE Numbers DEF RecoveryInv
<1>1. /\ UNCHANGED <<disk, states, managerVars, purgeVars, lastSaved, jobVars>>
      /\ pc = "optim" /\ pc' = "close_staging" /\ raised'
      /\ Top' = Top /\ Kept' = Kept /\ LatestIsLoadable'
  BY FolderUnchanged DEF TrainStepRaises
<1>2. 1 <= states["step"]
  BY <1>1 DEF SnapshotInv, StatesOfOneStep
<1> USE DEF managerVars, jobVars
<1>3. FullSavesOnly' /\ CopyIsWhole' /\ SavesAwaited'
  BY <1>1 DEF FullSavesOnly, CopyIsWhole, IsFull, SavesAwaited, InFlight
<1>4. SaveAhead' /\ LastStepSaved'
  BY <1>1, <1>2 DEF SaveAhead, InFlight, LastStepSaved, Closing
<1>5. NoGaps'
  BY <1>1 DEF NoGaps
<1>6. OneSaveBehind'
  BY <1>1 DEF OneSaveBehind
<1>7. SavedLast'
  BY <1>1 DEF SavedLast
<1>8. PurgeBelow'
  BY <1>1, PurgesUnchanged DEF PurgeBelow
<1> QED
  BY <1>1, <1>3, <1>4, <1>5, <1>6, <1>7, <1>8

(* The update that passes a regular step finds the ones before it saved,   *)
(* or the last of them at least begun.                                     *)
LEMMA OptimKeepsRecoveryInv ==
  ASSUME RecoveryInv, SnapshotInv', OptimStep
  PROVE  RecoveryInv'
<1> USE Numbers DEF RecoveryInv
<1>1. /\ UNCHANGED <<disk, snapshot, upload, saving, target, saveFuture, purgeVars,
                     raised, lastSaved, jobVars>>
      /\ pc = "optim" /\ pc' = "save"
      /\ Top' = Top /\ Kept' = Kept /\ LatestIsLoadable'
  BY FolderUnchanged DEF OptimStep
<1>2. /\ states'["model"] = states["model"] + 1
      /\ states'["step"] = states["step"]
      /\ states["step"] = states["model"] + 1
  <2>1. states' = [states EXCEPT !["model"] = @ + 1, !["optim"] = @ + 1]
    BY DEF OptimStep
  <2> QED
    BY <1>1, <2>1 DEF SnapshotInv, StatesOfOneStep, TypeOK, CheckpointerTypeOK, Fields
<1> USE DEF jobVars
<1>3. FullSavesOnly' /\ CopyIsWhole' /\ SavesAwaited'
  BY <1>1 DEF FullSavesOnly, CopyIsWhole, IsFull, SavesAwaited, InFlight
<1>4. SaveAhead' /\ LastStepSaved'
  BY <1>1, <1>2 DEF SaveAhead, InFlight, LastStepSaved, Closing
<1>5. NoGaps'
  BY <1>1, <1>2 DEF NoGaps
<1>6. OneSaveBehind'
  <2>1. ASSUME NEW v \in 1 .. states["model"], NEW u \in 1 .. v - 1,
               Regular(u), Regular(v)
        PROVE  u <= Top
    <3>1. v <= Top \/ (upload # "idle" /\ v <= saving)
      BY <1>1, <2>1 DEF NoGaps
    <3>2. CASE v <= Top
      BY <3>2
    <3>3. CASE upload # "idle" /\ v <= saving
      <4>1. u \in 1 .. saving - 1
        BY <3>3
      <4> QED
        BY <2>1, <3>3, <4>1 DEF NoGaps
    <3> QED
      BY <3>1, <3>2, <3>3
  <2>2. ASSUME config.async_mode = "disabled", NEW u \in 1 .. states["model"], Regular(u)
        PROVE  u <= Top
    <3>1. ~InFlight /\ upload # "failed"
      BY <1>1, <2>2 DEF SavesAwaited, LastStepSaved, Closing
    <3>2. upload # "idle" => saving = Top
      BY <3>1 DEF SaveAhead, InFlight, SnapshotInv, TypeOK, CheckpointerTypeOK, UploadPhase
    <3> QED
      BY <1>1, <2>2, <3>2 DEF NoGaps
  <2> QED
    BY <1>1, <1>2, <2>1, <2>2 DEF OneSaveBehind
<1>7. SavedLast'
  BY <1>1 DEF SavedLast
<1>8. PurgeBelow'
  BY <1>1, <1>2, PurgesUnchanged DEF PurgeBelow
<1> QED
  BY <1>1, <1>3, <1>4, <1>5, <1>6, <1>7, <1>8

(* A job is launched on whatever an earlier one has left.                  *)
LEMMA LaunchKeepsRecoveryInv ==
  ASSUME RecoveryInv, SnapshotInv', NEW c \in JobConfigs, Launch(c)
  PROVE  RecoveryInv'
<1> USE Numbers DEF RecoveryInv
<1>1. /\ UNCHANGED <<disk, managerVars, purgeVars, raised, ended>>
      /\ pc = "down" /\ pc' = "load" /\ config' = c
      /\ lastSaved' = NoStep
      /\ Top' = Top /\ Kept' = Kept /\ LatestIsLoadable'
      /\ upload = "idle"
  BY FolderUnchanged DEF Launch, SnapshotInv, NoSaveBeforeLoad
<1>2. states'["model"] = 0 /\ states'["step"] = 0
  BY DEF Launch, Fresh, Fields
<1> USE DEF managerVars
<1>3. FullSavesOnly' /\ CopyIsWhole' /\ SavesAwaited'
  BY <1>1 DEF FullSavesOnly, CopyIsWhole, IsFull, SavesAwaited, InFlight
<1>4. SaveAhead' /\ LastStepSaved'
  BY <1>1, <1>2 DEF SaveAhead, InFlight, LastStepSaved, Closing
<1>5. NoGaps' /\ OneSaveBehind'
  BY <1>1, <1>2 DEF NoGaps, OneSaveBehind
<1>6. SavedLast'
  BY <1>1 DEF SavedLast
<1>7. PurgeBelow'
  BY <1>1, PurgesUnchanged DEF PurgeBelow
<1> QED
  BY <1>1, <1>3, <1>4, <1>5, <1>6, <1>7

(* A job goes on from the latest checkpoint, or does not start.            *)
LEMMA RestartStep ==
  ASSUME ResumesLatest, RecoveryInv, SnapshotInv', LoadCheckpoint
  PROVE  /\ LoadStep = Top
         /\ states'["model"] = Top /\ states'["step"] = Top
<1> USE DEF RecoveryInv
<1>1. /\ pc = "load" /\ config \in JobConfigs
      /\ LoadStep # NoStep /\ CanLoad(LoadStep)
  BY DEF LoadCheckpoint, FullSavesOnly
<1>2. LoadStep \in Steps
  BY <1>1, LoadStepType DEF SnapshotInv
<1>3. config.load_step = NoStep
  <2>1. SUFFICES ASSUME config.load_step # NoStep PROVE FALSE
    OBVIOUS
  <2>2. LoadStep = config.load_step
    BY <2>1 DEF LoadStep
  <2>3. LoadStep # 0 /\ ~SavedBySome(LoadStep)
    BY <1>1, <2>1, <2>2 DEF ResumesLatest
  <2> QED
    BY <1>1, <1>2, <2>3 DEF FullSavesOnly, CanLoad
<1>4. LoadStep = Top
  BY <1>3 DEF LoadStep, Top
<1>5. states'["model"] = disk[LoadStep].content["model"]
  BY DEF LoadCheckpoint, Restored, StatesToLoad, Fields
<1>6. disk[LoadStep].content["model"] = LoadStep
  BY <1>1, <1>2 DEF CanLoad, StatesToLoad, Fields, SnapshotInv, DiskOfOneStep
<1>7. states'["step"] = states'["model"]
  BY DEF LoadCheckpoint, SnapshotInv, StatesOfOneStep, Fields
<1> QED
  BY <1>4, <1>5, <1>6, <1>7

LEMMA LoadKeepsRecoveryInv ==
  ASSUME ResumesLatest, RecoveryInv, SnapshotInv',
         LoadNothing \/ LoadCheckpoint \/ LoadRaises
  PROVE  RecoveryInv'
<1> USE Numbers DEF RecoveryInv
<1>1. /\ UNCHANGED <<disk, managerVars, purgeVars, lastSaved, jobVars>>
      /\ pc = "load" /\ pc' \in {"loop", "close_staging"}
      /\ Top' = Top /\ Kept' = Kept /\ LatestIsLoadable'
      /\ upload = "idle" /\ ~raised
      /\ states["model"] = 0 /\ states["step"] = 0
  BY FolderUnchanged DEF LoadNothing, LoadCheckpoint, LoadRaises,
     SnapshotInv, NoSaveBeforeLoad, LastStepSaved, Closing, StatesOfOneStep, Fields
<1>2. CASE pc' = "loop"
  <2>1. /\ ~raised'
        /\ states'["model"] = Kept /\ states'["step"] = Kept
        /\ Top <= Kept
    <3>1. CASE LoadNothing
      <4>1. Top = NoStep
        BY <3>1 DEF LoadNothing, LoadStep, Top
      <4> QED
        BY <1>1, <3>1, <4>1 DEF LoadNothing, Kept
    <3>2. CASE LoadCheckpoint
      <4>1. Top # NoStep
        BY <3>2, RestartStep DEF LoadCheckpoint
      <4> QED
        BY <1>1, <3>2, <4>1, RestartStep DEF LoadCheckpoint, Kept
    <3> QED
      BY <1>2, <3>1, <3>2 DEF LoadRaises
  <2>2. Kept = Top \/ Kept = 0
    BY DEF Kept
  <2>3. FullSavesOnly' /\ CopyIsWhole' /\ SavesAwaited'
    BY <1>1, <1>2 DEF FullSavesOnly, CopyIsWhole, IsFull, SavesAwaited, InFlight,
       managerVars, jobVars
  <2>4. SaveAhead' /\ LastStepSaved'
    BY <1>1, <1>2, <2>1 DEF SaveAhead, InFlight, LastStepSaved, Closing,
       managerVars, jobVars
  <2>5. NoGaps' /\ OneSaveBehind'
    BY <1>1, <1>2, <2>1, <2>2 DEF NoGaps, OneSaveBehind, managerVars, jobVars
  <2>6. SavedLast'
    BY <1>1, <1>2, <2>1 DEF SavedLast, managerVars, jobVars
  <2>7. PurgeBelow'
    BY <1>1, <1>2, PurgesUnchanged DEF PurgeBelow
  <2> QED
    BY <1>1, <2>3, <2>4, <2>5, <2>6, <2>7
<1>3. CASE pc' = "close_staging"
  <2>1. UNCHANGED states /\ raised'
    BY <1>3 DEF LoadNothing, LoadCheckpoint, LoadRaises
  <2>2. states = Fresh
    BY <1>1 DEF SnapshotInv, TypeOK, CheckpointerTypeOK, StatesOfOneStep, Fresh
  <2>3. FullSavesOnly' /\ CopyIsWhole' /\ SavesAwaited'
    BY <1>1, <1>3 DEF FullSavesOnly, CopyIsWhole, IsFull, SavesAwaited, InFlight,
       managerVars, jobVars
  <2>4. SaveAhead' /\ LastStepSaved'
    BY <1>1, <1>3, <2>1, <2>2 DEF SaveAhead, InFlight, LastStepSaved, Closing,
       managerVars, jobVars
  <2>5. NoGaps' /\ OneSaveBehind'
    BY <1>1, <1>3, <2>1 DEF NoGaps, OneSaveBehind, managerVars, jobVars
  <2>6. SavedLast'
    BY <1>1, <1>3, <2>1 DEF SavedLast, managerVars, jobVars
  <2>7. PurgeBelow'
    BY <1>1, <1>3, PurgesUnchanged DEF PurgeBelow
  <2> QED
    BY <1>1, <2>3, <2>4, <2>5, <2>6, <2>7
<1> QED
  BY <1>1, <1>2, <1>3

(* A save that is due waits for the one before it, and for its success.    *)
LEMMA WaitKeepsRecoveryInv ==
  ASSUME RecoveryInv, SnapshotInv', SaveNotDue \/ SaveWaits
  PROVE  RecoveryInv'
<1> USE Numbers DEF RecoveryInv
<1>1. /\ UNCHANGED <<disk, states, snapshot, upload, saving, target, purgeVars, lastSaved, jobVars>>
      /\ pc = "save" /\ ~raised
      /\ Top' = Top /\ Kept' = Kept /\ LatestIsLoadable'
      /\ states["step"] = states["model"]
      /\ 1 <= states["model"] /\ states["step"] <= config.steps
  BY FolderUnchanged DEF SaveNotDue, SaveWaits, managerVars, SnapshotInv,
     StatesOfOneStep, Fields, LastStepSaved, Closing
<1> USE DEF jobVars
<1>2. CASE SaveNotDue
  <2>1. /\ pc' = "loop" /\ ~raised' /\ saveFuture' = saveFuture
        /\ ~Regular(states["model"])
        /\ states["step"] < config.steps
    BY <1>1, <1>2 DEF SaveNotDue, ShouldSave, Regular, LastStep, managerVars
  <2>2. FullSavesOnly' /\ CopyIsWhole' /\ SavesAwaited'
    BY <1>1, <2>1 DEF FullSavesOnly, CopyIsWhole, IsFull, SavesAwaited, InFlight
  <2>3. SaveAhead' /\ LastStepSaved'
    BY <1>1, <2>1 DEF SaveAhead, InFlight, LastStepSaved, Closing
  <2>4. NoGaps'
    BY <1>1, <2>1 DEF NoGaps
  <2>5. OneSaveBehind' /\ SavedLast'
    BY <1>1, <2>1 DEF OneSaveBehind, SavedLast
  <2>6. PurgeBelow'
    BY <1>1, <2>1, PurgesUnchanged DEF PurgeBelow
  <2> QED
    BY <1>1, <2>2, <2>3, <2>4, <2>5, <2>6
<1>3. CASE SaveWaits
  <2>1. /\ ~saveFuture'
        /\ ShouldSave(states["step"], LastStep)
        /\ \/ raised' /\ pc' = "close_staging"
           \/ ~raised' /\ pc' = "purge" /\ ~InFlight /\ upload # "failed"
    BY <1>1, <1>3 DEF SaveWaits, WaitForSaving, SavingPending, SavingFailed, InFlight,
       SavesAwaited
  <2>2. ~InFlight /\ ((\lnot raised') => upload \in {"idle", "done"})
    BY <1>1, <1>3, <2>1 DEF SaveWaits, WaitForSaving, SavingPending, SavingFailed, InFlight,
       SavesAwaited, SnapshotInv, TypeOK, CheckpointerTypeOK, UploadPhase
  <2>3. upload = "done" => saving = Top
    BY DEF SaveAhead
  <2>4. FullSavesOnly' /\ CopyIsWhole' /\ SavesAwaited'
    BY <1>1, <2>1, <2>2 DEF FullSavesOnly, CopyIsWhole, IsFull, SavesAwaited, InFlight
  <2>5. SaveAhead' /\ LastStepSaved'
    <3>1. LastStep' = LastStep
      BY <1>1 DEF LastStep
    <3> QED
      BY <1>1, <2>1, <3>1 DEF SaveAhead, InFlight, LastStepSaved, Closing
  <2>6. NoGaps'
    BY <1>1, <2>1, <2>2, <2>3 DEF NoGaps
  <2>7. OneSaveBehind' /\ SavedLast'
    BY <1>1, <2>1 DEF OneSaveBehind, SavedLast
  <2>8. PurgeBelow'
    BY <1>1, <2>1, PurgesUnchanged DEF PurgeBelow
  <2> QED
    BY <1>1, <2>4, <2>5, <2>6, <2>7, <2>8
<1> QED
  BY <1>2, <1>3

(* A list made of a set holds the set's elements.                          *)
LEMMA SetToSeqsElements ==
  ASSUME NEW S, NEW q \in SetToSeqs(S)
  PROVE  ToSet(q) \subseteq S
<1>1. q \in [1 .. Cardinality(S) -> S]
  BY DEF SetToSeqs
<1>2. \A i \in DOMAIN q : q[i] \in S
  BY <1>1
<1> QED
  BY <1>2 DEF ToSet

LEMMA AppendedElements ==
  ASSUME NEW q \in Seq(Steps), NEW r \in Seq(Steps)
  PROVE  ToSet(q \o r) \subseteq ToSet(q) \union ToSet(r)
<1>1. \A i \in DOMAIN (q \o r) : \/ i \in DOMAIN q /\ (q \o r)[i] = q[i]
                                 \/ i - Len(q) \in DOMAIN r /\ (q \o r)[i] = r[i - Len(q)]
  OBVIOUS
<1> QED
  BY <1>1 DEF ToSet

(* What a save queues for deletion are stale and abandoned steps.          *)
LEMMA PurgeQueues ==
  ASSUME purgeQueue \in Seq(Steps), NEW n \in Steps, PurgeStaleCheckpoints(n)
  PROVE  ToSet(purgeQueue') \subseteq ToSet(purgeQueue) \union Stale(n) \union Abandoned(n)
<1>1. CASE KeepLatestK = 0
  BY <1>1 DEF PurgeStaleCheckpoints, ToSet
<1>2. CASE KeepLatestK # 0
  <2>1. PICK stale \in SetToSeqs(Stale(n) \ PurgeExempt),
             abandoned \in SetToSeqs(Abandoned(n)) :
               purgeQueue' = purgeQueue \o stale \o abandoned
    BY <1>2 DEF PurgeStaleCheckpoints
  <2>2. IsFiniteSet(Steps)
    BY FS_Interval, CheckpointerAssumption DEF Steps, CheckpointerAssumption
  <2>3. Stale(n) \ PurgeExempt \subseteq Steps /\ Abandoned(n) \subseteq Steps
    BY DEF Stale, CompleteBut, Abandoned
  <2>4. stale \in Seq(Stale(n) \ PurgeExempt) /\ abandoned \in Seq(Abandoned(n))
    BY <2>2, <2>3, FS_Subset, SetToSeqsType
  <2>5. stale \in Seq(Steps) /\ abandoned \in Seq(Steps) /\ purgeQueue \o stale \in Seq(Steps)
    BY <2>3, <2>4
  <2>6. ToSet(stale) \subseteq Stale(n) /\ ToSet(abandoned) \subseteq Abandoned(n)
    BY SetToSeqsElements
  <2>7. /\ ToSet(purgeQueue \o stale) \subseteq ToSet(purgeQueue) \union ToSet(stale)
        /\ ToSet(purgeQueue') \subseteq ToSet(purgeQueue \o stale) \union ToSet(abandoned)
    BY <2>1, <2>5, AppendedElements
  <2> QED
    BY <2>6, <2>7
<1> QED
  BY <1>1, <1>2

(* A stale checkpoint has a whole one above it: the latest is not stale.   *)
LEMMA StaleBelowTop ==
  ASSUME SnapshotInv, FullSavesOnly, KeepLatestK # 0, NEW n \in Steps, NEW s \in Stale(n)
  PROVE  s < Top
<1> DEFINE Above == {t \in CompleteBut(n) : t > s}
<1>1. Cardinality(Above) >= KeepLatestK - 1 /\ s \in Steps
  BY DEF Stale, NumToKeep, CompleteBut
<1>2. Above # {}
  <2>1. KeepLatestK >= 2
    BY CheckpointerAssumption DEF CheckpointerAssumption
  <2>2. Cardinality({}) = 0
    BY FS_EmptySet
  <2> HIDE DEF Above
  <2>3. KeepLatestK \in Int
    BY CheckpointerAssumption DEF CheckpointerAssumption
  <2> QED
    BY <1>1, <2>1, <2>2, <2>3
<1>3. PICK t \in CompleteBut(n) : t > s
  BY <1>2
<1>4. t \in Steps /\ IsResumableCheckpoint(t)
  BY DEF CompleteBut, IsValidCheckpoint, IsResumableCheckpoint, FullSavesOnly
<1> QED
  BY <1>1, <1>3, <1>4, TopFacts, StepsAreNumbers

(* An abandoned directory above the step being saved is of a longer run:   *)
(* this save is the last of its job.                                       *)
LEMMA PurgesKeepRecoveryInv ==
  ASSUME RecoveryInv, SnapshotInv', SavePurges
  PROVE  RecoveryInv'
<1> USE Numbers DEF RecoveryInv
<1>1. /\ UNCHANGED <<disk, states, managerVars, purging, raised, lastSaved, jobVars>>
      /\ pc = "purge" /\ pc' = "write"
      /\ Top' = Top /\ Kept' = Kept /\ LatestIsLoadable'
      /\ states["step"] = states["model"]
      /\ states["step"] \in Steps
      /\ Top < states["step"] /\ 1 <= states["step"]
      /\ upload # "idle" => saving = Top
  <2>1. UNCHANGED disk /\ pc = "purge"
    BY DEF SavePurges
  <2>2. Top < states["model"] /\ 1 <= states["model"]
    BY <2>1 DEF SaveAhead, LastStepSaved
  <2>3. states["step"] = states["model"] /\ states["step"] \in Steps
    BY <2>1 DEF SnapshotInv, StatesOfOneStep, Fields, TypeOK, CheckpointerTypeOK
  <2>4. upload # "idle" => saving = Top
    BY <2>1 DEF SaveAhead, SavesAwaited
  <2> QED
    BY <2>1, <2>2, <2>3, <2>4, FolderUnchanged DEF SavePurges
<1> USE DEF managerVars, jobVars
<1>2. FullSavesOnly' /\ CopyIsWhole' /\ SavesAwaited'
  BY <1>1 DEF FullSavesOnly, CopyIsWhole, IsFull, SavesAwaited, InFlight
<1>3. SaveAhead' /\ LastStepSaved'
  <2>1. LastStep' = LastStep
    BY <1>1 DEF LastStep
  <2> QED
    BY <1>1, <2>1 DEF SaveAhead, InFlight, LastStepSaved, Closing
<1>4. NoGaps' /\ OneSaveBehind'
  BY <1>1 DEF NoGaps, OneSaveBehind
<1>5. SavedLast'
  BY <1>1 DEF SavedLast
<1>6. PurgeBelow'
  <2> DEFINE n == states["step"]
  <2>1. Doomed' \subseteq Doomed \union IF KeepLatestK = 0 THEN {} ELSE Stale(n) \union Abandoned(n)
    <3>1. CASE KeepLatestK = 0
      BY <1>1, <3>1 DEF SavePurges, PurgeStaleCheckpoints, Doomed, ToSet
    <3>2. CASE KeepLatestK # 0
      <4>1. ToSet(purgeQueue') \subseteq ToSet(purgeQueue) \union Stale(n) \union Abandoned(n)
        BY <1>1, PurgeQueues DEF SavePurges, SnapshotInv, TypeOK, CheckpointerTypeOK
      <4> QED
        BY <1>1, <3>2, <4>1 DEF Doomed
    <3> QED
      BY <3>1, <3>2
  <2>2. ASSUME KeepLatestK # 0, NEW s \in Stale(n)
        PROVE  s # Top /\ s < n
    <3>1. s < Top /\ s \in Steps
      BY <1>1, <2>2, StaleBelowTop DEF Stale, CompleteBut
    <3> QED
      BY <1>1, <3>1, StepsAreNumbers
  <2>3. ASSUME NEW s \in Abandoned(n)
        PROVE  s # Top /\ (s < n \/ (n < s /\ n = config.steps))
    <3>1. s \in Steps /\ s # n /\ disk[s].exists /\ s # Top
      <4>1. s \in Steps /\ s # n /\ disk[s].exists /\ ~IsResumableCheckpoint(s)
        BY DEF Abandoned, IsValidCheckpoint
      <4>2. s # NoStep
        BY <4>1, StepsAreNumbers DEF NoStep
      <4> QED
        BY <4>1, <4>2, TopFacts
    <3>2. CASE n < s
      <4>1. ~Regular(n)
        <5>1. n \in 1 .. s - 1
          BY <1>1, <3>1, <3>2, StepsAreNumbers
        <5> QED
          BY <1>1, <3>1, <5>1 DEF NoGaps
      <4>2. LastStep
        BY <1>1, <4>1 DEF LastStepSaved, ShouldSave, Regular
      <4> QED
        BY <3>1, <3>2, <4>2 DEF LastStep
    <3> QED
      BY <1>1, <3>1, <3>2, StepsAreNumbers
  <2>4. ASSUME NEW s \in Doomed'
        PROVE  s # Top /\ (s < n \/ (n < s /\ n = config.steps))
    <3>1. CASE s \in Doomed
      BY <3>1 DEF PurgeBelow
    <3>2. CASE s \notin Doomed
      <4>1. KeepLatestK # 0 /\ (s \in Stale(n) \/ s \in Abandoned(n))
        BY <2>1, <2>4, <3>2
      <4> QED
        BY <2>2, <2>3, <4>1
    <3> QED
      BY <3>1, <3>2
  <2> QED
    BY <1>1, <2>4 DEF PurgeBelow
<1> QED
  BY <1>1, <1>2, <1>3, <1>4, <1>5, <1>6

(* What a save takes along, in every mode.                                 *)
LEMMA SaveBegins ==
  ASSUME ResumesLatest, RecoveryInv, SaveAsync \/ SavePinned \/ SaveSync
  PROVE  /\ UNCHANGED <<disk, states, purgeVars, raised, jobVars>>
         /\ pc = "write" /\ ~raised /\ upload \in {"idle", "done"}
         /\ saving' = states["step"] /\ target' = ".metadata"
         /\ states["step"] = states["model"] /\ 1 <= states["step"]
         /\ Top < states["step"] /\ states["step"] <= config.steps
         /\ SavedBySome(states["step"])
         /\ \/ /\ upload' = "queued" /\ IsFull(snapshot')
            \/ /\ upload' = "stage_model"
               /\ snapshot'["data"] # NotSaved /\ snapshot'["step"] # NotSaved
         /\ \/ /\ pc' = "loop" /\ saveFuture' /\ config.async_mode # "disabled"
               /\ lastSaved' = states["step"] /\ states["step"] < config.steps
            \/ pc' = "writing" /\ upload' = "queued" /\ UNCHANGED <<saveFuture, lastSaved>>
<1> USE Numbers DEF RecoveryInv
<1>1. /\ pc = "write" /\ config \in JobConfigs
      /\ config.last_save = "full"
    BY DEF SaveAsync, SavePinned, SaveSync, FullSavesOnly, ResumesLatest
<1>2. /\ \A f \in Fields : states[f] \in Nat
      /\ states["step"] = states["model"]
      /\ states \in [Fields -> Steps]
  BY <1>1, StepsAreNumbers
     DEF SnapshotInv, StatesOfOneStep, Fields, TypeOK, CheckpointerTypeOK
<1>3. IsFull(states)
  BY <1>2 DEF IsFull, NotSaved
<1>4. ~raised /\ upload \in {"idle", "done"} /\ Top < states["step"]
      /\ 1 <= states["step"] /\ states["step"] <= config.steps
  BY <1>1, <1>2 DEF SavesAwaited, LastStepSaved, Closing, SaveAhead
<1>5. SavedBySome(states["step"])
  BY <1>1 DEF LastStepSaved, ShouldSave, SavedBySome, Regular, LastStep
<1>6. CASE SaveAsync
  <2>1. states["step"] < config.steps
    BY <1>4, <1>6 DEF SaveAsync, LastStep
  <2> QED
    BY <1>1, <1>2, <1>3, <1>4, <1>5, <1>6, <2>1 DEF SaveAsync, DcpSave
<1>7. CASE SavePinned
  <2>1. states["step"] < config.steps
    BY <1>4, <1>7 DEF SavePinned, LastStep
  <2>2. snapshot' = [states EXCEPT !["model"] = NotSaved, !["optim"] = NotSaved]
    BY <1>7 DEF SavePinned, DcpSave
  <2>3. snapshot'["data"] # NotSaved /\ snapshot'["step"] # NotSaved
    BY <1>2, <2>2 DEF Fields, NotSaved
  <2> QED
    BY <1>1, <1>2, <1>4, <1>5, <1>7, <2>1, <2>3 DEF SavePinned, DcpSave
<1>8. CASE SaveSync
  <2>1. snapshot' = states /\ target' = ".metadata"
    BY <1>1, <1>8 DEF SaveSync, DcpSave
  <2> QED
    BY <1>1, <1>2, <1>3, <1>4, <1>5, <1>8, <2>1 DEF SaveSync, DcpSave
<1> QED
  BY <1>6, <1>7, <1>8

LEMMA SaveKeepsRecoveryInv ==
  ASSUME ResumesLatest, RecoveryInv, SnapshotInv', SaveAsync \/ SavePinned \/ SaveSync
  PROVE  RecoveryInv'
<1> USE Numbers, SaveBegins
<1>1. Top' = Top /\ Kept' = Kept /\ LatestIsLoadable'
  BY FolderUnchanged DEF RecoveryInv
<1>2. FullSavesOnly' /\ CopyIsWhole'
  BY DEF RecoveryInv, FullSavesOnly, CopyIsWhole, IsFull, jobVars
<1>3. SavesAwaited'
  BY DEF RecoveryInv, SavesAwaited, InFlight, jobVars
<1>4. SaveAhead' /\ LastStepSaved'
  BY <1>1 DEF RecoveryInv, SaveAhead, InFlight, LastStepSaved, Closing, jobVars
<1>5. NoGaps'
  <2>1. \A u \in 1 .. states["model"] - 1 : Regular(u) => u <= Top
    BY DEF RecoveryInv, NoGaps
  <2> QED
    BY <1>1, <2>1 DEF RecoveryInv, NoGaps, jobVars
<1>6. OneSaveBehind'
  BY <1>1 DEF RecoveryInv, OneSaveBehind, jobVars
<1>7. SavedLast'
  BY <1>1 DEF RecoveryInv, SavedLast, jobVars, NoStep
<1>8. PurgeBelow'
  BY <1>1, PurgesUnchanged, DoomedAreSteps DEF RecoveryInv, PurgeBelow, jobVars
<1> QED
  BY <1>1, <1>2, <1>3, <1>4, <1>5, <1>6, <1>7, <1>8 DEF RecoveryInv

(* The synchronous save returns with its step durable, or raises.          *)
LEMMA SyncKeepsRecoveryInv ==
  ASSUME RecoveryInv, SnapshotInv', SaveSyncReturns \/ SaveSyncRaises
  PROVE  RecoveryInv'
<1> USE Numbers DEF RecoveryInv
<1>1. /\ UNCHANGED <<disk, states, managerVars, purgeVars, jobVars>>
      /\ pc = "writing" /\ ~raised
      /\ states["step"] = states["model"] /\ saving = states["step"]
      /\ 1 <= states["step"] /\ states["step"] <= config.steps
      /\ \/ /\ pc' = "loop" /\ ~raised' /\ lastSaved' = states["step"]
            /\ upload = "done" /\ saving = Top
         \/ /\ pc' = "close_staging" /\ raised' /\ lastSaved' = lastSaved
            /\ upload = "failed"
  BY DEF SaveSyncReturns, SaveSyncRaises, SaveAhead, LastStepSaved, Closing,
     SnapshotInv, StatesOfOneStep, Fields
<1>2. Top' = Top /\ Kept' = Kept /\ LatestIsLoadable'
  BY <1>1, FolderUnchanged
<1> USE DEF managerVars, jobVars
<1>3. FullSavesOnly' /\ CopyIsWhole' /\ SavesAwaited'
  BY <1>1 DEF FullSavesOnly, CopyIsWhole, IsFull, SavesAwaited, InFlight
<1>4. SaveAhead' /\ LastStepSaved'
  BY <1>1, <1>2 DEF SaveAhead, InFlight, LastStepSaved, Closing
<1>5. NoGaps'
  BY <1>1, <1>2 DEF NoGaps
<1>6. OneSaveBehind'
  BY <1>1, <1>2 DEF OneSaveBehind
<1>7. SavedLast'
  BY <1>1, <1>2 DEF SavedLast
<1>8. PurgeBelow'
  BY <1>1, <1>2, PurgesUnchanged DEF PurgeBelow
<1> QED
  BY <1>2, <1>3, <1>4, <1>5, <1>6, <1>7, <1>8

(* close waits for the copy, then for the save; a failed save makes it     *)
(* raise.                                                                  *)
LEMMA CloseKeepsRecoveryInv ==
  ASSUME RecoveryInv, SnapshotInv', CloseStaging \/ CloseSaving
  PROVE  RecoveryInv'
<1> USE Numbers DEF RecoveryInv
<1>1. /\ UNCHANGED <<disk, states, snapshot, upload, saving, target, purgeVars, lastSaved, jobVars>>
      /\ pc \in {"close_staging", "close_saving"}
      /\ pc' \in {"close_saving", "close_purge"}
      /\ raised => raised'
      /\ \/ UNCHANGED <<raised, saveFuture>> /\ pc' = "close_saving"
         \/ /\ ~saveFuture' /\ pc' = "close_purge"
            /\ saveFuture => ~InFlight
            /\ saveFuture /\ upload = "failed" => raised'
            /\ raised' => raised \/ upload # "idle"
  <2>1. CASE CloseStaging
    BY <2>1 DEF CloseStaging
  <2>2. CASE CloseSaving
    <3>1. raised \in BOOLEAN /\ saveFuture \in BOOLEAN
      BY DEF SnapshotInv, TypeOK, CheckpointerTypeOK
    <3>2. raised' <=> raised \/ (saveFuture /\ upload = "failed")
      BY <2>2, <3>1 DEF CloseSaving, SavingFailed
    <3>3. ~saveFuture' /\ (saveFuture => upload \in {"done", "failed"})
      BY <2>2, <3>1 DEF CloseSaving, WaitForSaving, SavingPending
    <3> QED
      BY <2>2, <3>2, <3>3 DEF CloseSaving, InFlight
  <2> QED
    BY <2>1, <2>2
<1>2. Top' = Top /\ Kept' = Kept /\ LatestIsLoadable'
  BY <1>1, FolderUnchanged
<1> USE DEF jobVars
<1>3. FullSavesOnly' /\ CopyIsWhole'
  BY <1>1 DEF FullSavesOnly, CopyIsWhole, IsFull
<1>4. SavesAwaited'
  BY <1>1 DEF SavesAwaited, InFlight
<1>5. SaveAhead' /\ LastStepSaved'
  BY <1>1, <1>2 DEF SaveAhead, InFlight, LastStepSaved, Closing
<1>6. NoGaps' /\ OneSaveBehind'
  BY <1>1, <1>2 DEF NoGaps, OneSaveBehind
<1>7. SavedLast'
  BY <1>1 DEF SavedLast
<1>8. PurgeBelow'
  BY <1>1, <1>2, PurgesUnchanged DEF PurgeBelow
<1> QED
  BY <1>2, <1>3, <1>4, <1>5, <1>6, <1>7, <1>8

(* Nothing but the folder is left of a job that has ended; without an      *)
(* exception it has left its last save there.                              *)
LEMMA EndKeepsRecoveryInv ==
  ASSUME RecoveryInv, SnapshotInv', ClosePurge \/ Crash
  PROVE  RecoveryInv'
<1> USE Numbers DEF RecoveryInv
<1>1. /\ UNCHANGED <<disk, states, config, lastSaved>>
      /\ upload' = "idle" /\ target' = ".metadata" /\ ~saveFuture'
      /\ purgeQueue' = <<>> /\ purging' = NoStep
      /\ pc' = "down" /\ ~raised'
      /\ pc # "down"
  BY DEF ClosePurge, Crash, ManagerGone
<1>2. Top' = Top /\ Kept' = Kept /\ LatestIsLoadable'
  BY <1>1, FolderUnchanged
<1>3. FullSavesOnly' /\ CopyIsWhole' /\ SavesAwaited'
  BY <1>1 DEF FullSavesOnly, CopyIsWhole, SavesAwaited, InFlight
<1>4. SaveAhead' /\ LastStepSaved'
  BY <1>1 DEF SaveAhead, InFlight, LastStepSaved, Closing
<1>5. NoGaps' /\ OneSaveBehind'
  BY <1>1, <1>2 DEF NoGaps, OneSaveBehind
<1>6. ASSUME ended' \in {"completed", "exhausted"}
      PROVE  /\ lastSaved # NoStep => lastSaved = Top
             /\ ended' = "completed" => config.steps <= Kept
  <2>1. /\ pc = "close_purge" /\ ~raised
        /\ ended' = "completed" => ~(states["step"] > states["data"])
    BY <1>6 DEF ClosePurge, Crash
  <2>2. ~InFlight /\ upload # "failed"
    BY <2>1 DEF SavesAwaited
  <2>3. upload # "idle" => saving = Top
    BY <2>2 DEF SaveAhead, InFlight, SnapshotInv, TypeOK, CheckpointerTypeOK, UploadPhase
  <2> QED
    BY <2>1, <2>3 DEF SavedLast, LastStepSaved, Closing
<1>7. SavedLast'
  BY <1>1, <1>2, <1>6 DEF SavedLast
<1>8. PurgeBelow'
  <2>1. Doomed' = {}
    BY <1>1 DEF Doomed, ToSet
  <2> QED
    BY <2>1 DEF PurgeBelow
<1> QED
  BY <1>2, <1>3, <1>4, <1>5, <1>7, <1>8

(* The copy goes on to the writer, or is dropped there.                    *)
LEMMA CopyKeepsRecoveryInv ==
  ASSUME RecoveryInv, SnapshotInv', StageModel \/ StageOptimizer \/ UploadFails,
         UNCHANGED <<pc, raised, lastSaved, jobVars>>
  PROVE  RecoveryInv'
<1> USE Numbers DEF RecoveryInv
<1>1. /\ UNCHANGED <<disk, states, saving, target, saveFuture, purgeVars>>
      /\ InFlight
      /\ upload' \in {"stage_optim", "queued", "failed"}
  BY DEF StageModel, StageOptimizer, UploadFails, InFlight
<1>2. Top' = Top /\ Kept' = Kept /\ LatestIsLoadable'
  BY <1>1, FolderUnchanged
<1> USE DEF jobVars
<1>3. FullSavesOnly'
  BY <1>1 DEF FullSavesOnly, InFlight
<1>4. CopyIsWhole'
  <2>1. snapshot \in Content /\ states["model"] \in Nat /\ states["optim"] \in Nat
    BY StepsAreNumbers DEF SnapshotInv, TypeOK, CheckpointerTypeOK, Fields
  <2>2. CASE StageModel
    <3>1. snapshot' = [snapshot EXCEPT !["model"] = states["model"]] /\ upload' = "stage_optim"
      BY <2>2 DEF StageModel
    <3> QED
      BY <2>1, <2>2, <3>1 DEF StageModel, CopyIsWhole, Content, Fields, NotSaved
  <2>3. CASE StageOptimizer
    <3>1. snapshot' = [snapshot EXCEPT !["optim"] = states["optim"]] /\ upload' = "queued"
      BY <2>3 DEF StageOptimizer
    <3> QED
      BY <2>1, <2>3, <3>1 DEF StageOptimizer, CopyIsWhole, IsFull, Content, Fields, NotSaved
  <2>4. CASE UploadFails
    BY <2>4 DEF UploadFails, CopyIsWhole
  <2> QED
    BY <2>2, <2>3, <2>4
<1>5. SavesAwaited'
  <2>1. saveFuture \/ pc = "writing"
    BY <1>1 DEF SavesAwaited
  <2>2. pc \notin {"purge", "write"} /\ pc \notin {"down", "load", "close_purge"}
    BY <1>1, <2>1 DEF SavesAwaited, InFlight
  <2> QED
    BY <1>1, <2>1, <2>2 DEF SavesAwaited
<1>6. SaveAhead' /\ LastStepSaved'
  <2>1. LastStep' = LastStep
    BY <1>1 DEF LastStep
  <2> QED
    BY <1>1, <1>2, <2>1 DEF SaveAhead, InFlight, LastStepSaved, Closing
<1>7. NoGaps'
  BY <1>1, <1>2 DEF NoGaps, InFlight
<1>8. OneSaveBehind' /\ SavedLast'
  BY <1>1, <1>2 DEF OneSaveBehind, SavedLast, InFlight
<1>9. PurgeBelow'
  BY <1>1, <1>2, PurgesUnchanged DEF PurgeBelow, InFlight
<1> QED
  BY <1>2, <1>3, <1>4, <1>5, <1>6, <1>7, <1>8, <1>9

(* The writer takes the folder for the step being saved, which is not the  *)
(* latest yet, and publishes its marker when its data is complete.         *)
LEMMA WriteKeepsRecoveryInv ==
  ASSUME RecoveryInv, SnapshotInv', UploadBegin,
         UNCHANGED <<pc, raised, lastSaved, jobVars>>
  PROVE  RecoveryInv'
<1> USE Numbers DEF RecoveryInv
<1>1. /\ UNCHANGED <<states, snapshot, saving, target, saveFuture, purgeVars>>
      /\ InFlight /\ upload = "queued" /\ upload' = "writing"
      /\ saving \in Steps
  BY DEF UploadBegin, InFlight, SnapshotInv, CopyOfOneStep
<1> DEFINE d == [exists |-> TRUE, markers |-> disk[saving].markers, content |-> Nothing]
<1>2. disk' = [disk EXCEPT ![saving] = d]
  BY DEF UploadBegin
<1>3. Top' = Top /\ Kept' = Kept /\ LatestIsLoadable'
  <2>1. saving # Top
    BY <1>1 DEF SaveAhead
  <2>2. Top' = Top /\ LatestIsLoadable'
    BY <1>1, <1>2, <2>1, TopSpared
  <2> QED
    BY <2>2 DEF Kept
<1> USE DEF jobVars
<1>4. \A s \in Steps : /\ disk'[s].markers = disk[s].markers
                       /\ disk'[s].exists => disk[s].exists \/ s = saving
  BY <1>1, <1>2 DEF SnapshotInv, TypeOK, CheckpointerTypeOK
<1> HIDE DEF d
<1>5. FullSavesOnly'
  BY <1>1, <1>4 DEF FullSavesOnly
<1>6. CopyIsWhole'
  BY <1>1 DEF CopyIsWhole, IsFull
<1>7. SavesAwaited'
  BY <1>1 DEF SavesAwaited, InFlight
<1>8. SaveAhead' /\ LastStepSaved'
  <2>1. LastStep' = LastStep
    BY <1>1 DEF LastStep
  <2> QED
    BY <1>1, <1>3, <2>1 DEF SaveAhead, InFlight, LastStepSaved, Closing
<1>9. NoGaps'
  BY <1>1, <1>3, <1>4 DEF NoGaps
<1>10. OneSaveBehind' /\ SavedLast'
  BY <1>1, <1>3 DEF OneSaveBehind, SavedLast
<1>11. PurgeBelow'
  BY <1>1, <1>3, PurgesUnchanged DEF PurgeBelow
<1> QED
  BY <1>3, <1>5, <1>6, <1>7, <1>8, <1>9, <1>10, <1>11

LEMMA PublishKeepsRecoveryInv ==
  ASSUME RecoveryInv, SnapshotInv', UploadFinish,
         UNCHANGED <<pc, raised, lastSaved, jobVars>>
  PROVE  RecoveryInv'
<1> USE Numbers DEF RecoveryInv
<1>1. /\ UNCHANGED <<states, snapshot, saving, target, saveFuture, purgeVars>>
      /\ InFlight /\ upload = "writing" /\ upload' = "done"
      /\ saving \in Steps /\ pc \notin {"down", "load"}
      /\ 1 <= saving /\ Top < saving
  BY DEF UploadFinish, InFlight, SnapshotInv, CopyOfOneStep, NoSaveBeforeLoad, SaveAhead
<1>2. Top' = saving /\ LatestIsLoadable' /\ Top < Top' /\ Kept <= Kept' /\ Kept' \in Nat
  <2>1. Top' = saving /\ LatestIsLoadable' /\ saving \in Nat
    BY <1>1, TopCommitted, StepsAreNumbers
  <2>2. Kept' = saving
    BY <1>1, <2>1 DEF Kept, NoStep
  <2>3. Kept <= saving
    BY <1>1 DEF Kept
  <2> QED
    BY <1>1, <2>1, <2>2, <2>3
<1> USE DEF jobVars
<1>3. \A s \in Steps :
        /\ s # saving => disk'[s] = disk[s]
        /\ s = saving => disk'[s].markers = disk[s].markers \union {".metadata"}
  BY <1>1 DEF UploadFinish, SnapshotInv, TypeOK, CheckpointerTypeOK, FullSavesOnly
<1>4. FullSavesOnly'
  <2>1. SavedBySome(saving)
    BY <1>1 DEF FullSavesOnly
  <2> QED
    BY <1>1, <1>3, <2>1 DEF FullSavesOnly
<1>5. CopyIsWhole' /\ SavesAwaited'
  BY <1>1 DEF CopyIsWhole, SavesAwaited, InFlight
<1>6. SaveAhead'
  BY <1>1, <1>2 DEF SaveAhead, InFlight
<1>7. LastStepSaved'
  <2>1. LastStep' = LastStep
    BY <1>1 DEF LastStep
  <2> QED
    BY <1>1, <1>2, <2>1 DEF LastStepSaved, Closing
<1>8. NoGaps'
  <2>1. \A u \in 1 .. saving - 1 : Regular(u) => u <= Top
    BY <1>1 DEF NoGaps
  <2>2. ASSUME NEW s \in Steps, disk'[s].exists, NEW u \in 1 .. s - 1, Regular(u)
        PROVE  u <= Top'
    <3>1. s \in Nat /\ saving \in Nat
      BY <1>1, StepsAreNumbers
    <3>2. CASE s = saving
      BY <1>1, <1>2, <2>1, <2>2, <3>1, <3>2
    <3>3. CASE s # saving
      <4>1. u <= Top
        BY <1>3, <2>2, <3>3 DEF NoGaps
      <4> QED
        BY <1>1, <1>2, <3>1, <4>1
    <3> QED
      BY <3>2, <3>3
  <2> QED
    BY <1>1, <1>2, <2>1, <2>2 DEF NoGaps
<1>9. OneSaveBehind'
  BY <1>1, <1>2 DEF OneSaveBehind
<1>10. SavedLast'
  BY <1>1, <1>2 DEF SavedLast
<1>11. PurgeBelow'
  BY <1>1, <1>2, PurgesUnchanged DEF PurgeBelow
<1> QED
  BY <1>2, <1>4, <1>5, <1>6, <1>7, <1>8, <1>9, <1>10, <1>11

(* The purge thread touches what is queued, which is never the latest.     *)
LEMMA PurgeThreadStep ==
  ASSUME RecoveryInv, PurgeTake \/ PurgeDone \/ PurgeFails
  PROVE  /\ Top' = Top /\ LatestIsLoadable'
         /\ \A s \in Steps : /\ disk'[s].markers \subseteq disk[s].markers
                             /\ disk'[s].exists => disk[s].exists
         /\ Doomed' \subseteq Doomed
         /\ UNCHANGED <<states, managerVars>>
<1> USE DEF RecoveryInv
<1>1. /\ disk \in [Steps -> Directory]
      /\ purgeQueue \in Seq(Steps) /\ purging \in Steps \union {NoStep}
  BY DEF SnapshotInv, TypeOK, CheckpointerTypeOK
<1>2. CASE PurgeTake
  <2> DEFINE s == Head(purgeQueue)
  <2>1. /\ s \in Steps /\ purging' = s
        /\ purgeQueue # <<>> /\ purgeQueue' = Tail(purgeQueue)
    BY <1>1, <1>2 DEF PurgeTake
  <2>2. s \in ToSet(purgeQueue) /\ ToSet(purgeQueue') \subseteq ToSet(purgeQueue)
    BY <1>1, <2>1 DEF ToSet
  <2>3. s \in Doomed /\ Doomed' \subseteq Doomed
    BY <2>1, <2>2 DEF Doomed
  <2>4. PICK left \in SUBSET disk[s].markers, content \in {disk[s].content, Nothing} :
          disk' = [disk EXCEPT ![s] =
                     [exists |-> disk[s].exists, markers |-> left, content |-> content]]
    BY <1>2 DEF PurgeTake
  <2> DEFINE d == [exists |-> disk[s].exists, markers |-> left, content |-> content]
  <2>5. d.markers \subseteq disk[s].markers /\ d.exists = disk[s].exists
    OBVIOUS
  <2> HIDE DEF s, d
  <2>6. Top' = Top /\ LatestIsLoadable'
    <3>1. s # Top
      BY <2>3 DEF PurgeBelow
    <3>2. disk' = [disk EXCEPT ![s] = d]
      BY <2>4 DEF d
    <3> QED
      BY <2>1, <2>5, <3>1, <3>2, TopSpared
  <2>7. \A t \in Steps : /\ disk'[t].markers \subseteq disk[t].markers
                         /\ disk'[t].exists => disk[t].exists
    BY <1>1, <2>1, <2>4, <2>5 DEF d
  <2> QED
    BY <1>2, <2>3, <2>6, <2>7 DEF PurgeTake
<1>3. CASE PurgeDone
  <2>1. purging \in Steps /\ purging \in Doomed /\ Doomed' \subseteq Doomed
    BY <1>1, <1>3 DEF PurgeDone, Doomed
  <2>2. purging # Top /\ disk' = [disk EXCEPT ![purging] = Absent]
    BY <1>3, <2>1 DEF PurgeDone, PurgeBelow
  <2>3. Absent.markers = {} /\ Absent.exists = FALSE
    BY DEF Absent
  <2>4. Top' = Top /\ LatestIsLoadable'
    <3>1. Absent.markers \subseteq disk[purging].markers
      BY <2>3
    <3> QED
      BY <2>1, <2>2, <3>1, TopSpared
  <2>5. \A t \in Steps : /\ disk'[t].markers \subseteq disk[t].markers
                         /\ disk'[t].exists => disk[t].exists
    BY <1>1, <2>1, <2>2, <2>3
  <2> QED
    BY <1>3, <2>1, <2>4, <2>5 DEF PurgeDone
<1>4. CASE PurgeFails
  <2>1. Doomed' \subseteq Doomed
    BY <1>4 DEF PurgeFails, Doomed
  <2> QED
    BY <1>4, <2>1, FolderUnchanged DEF PurgeFails
<1> QED
  BY <1>2, <1>3, <1>4

LEMMA PurgeThreadKeepsRecoveryInv ==
  ASSUME RecoveryInv, SnapshotInv', PurgeTake \/ PurgeDone \/ PurgeFails,
         UNCHANGED <<pc, raised, lastSaved, jobVars>>
  PROVE  RecoveryInv'
<1> USE Numbers, PurgeThreadStep DEF managerVars, jobVars
<1>1. Kept' = Kept
  BY DEF Kept
<1>2. FullSavesOnly'
  BY DEF RecoveryInv, FullSavesOnly
<1>3. CopyIsWhole' /\ SavesAwaited'
  BY DEF RecoveryInv, CopyIsWhole, IsFull, SavesAwaited, InFlight
<1>4. SaveAhead' /\ LastStepSaved'
  <2>1. LastStep' = LastStep
    BY DEF LastStep
  <2> QED
    BY <1>1, <2>1 DEF RecoveryInv, SaveAhead, InFlight, LastStepSaved, Closing
<1>5. NoGaps'
  BY DEF RecoveryInv, NoGaps
<1>6. OneSaveBehind' /\ SavedLast'
  BY <1>1 DEF RecoveryInv, OneSaveBehind, SavedLast
<1>7. PurgeBelow'
  BY DEF RecoveryInv, PurgeBelow
<1> QED
  BY <1>2, <1>3, <1>4, <1>5, <1>6, <1>7 DEF RecoveryInv

-------------------------------------------------------------------------------

(* A new folder holds nothing, or the seed, which is the model alone.      *)
LEMMA RecoveryInit ==
  ASSUME Init
  PROVE  RecoveryInv
<1>1. SnapshotInv
  BY SnapshotInit
<1>2. /\ states = Fresh /\ upload = "idle" /\ target = ".metadata" /\ saveFuture = FALSE
      /\ purgeQueue = <<>> /\ purging = NoStep /\ pc = "down" /\ raised = FALSE
      /\ ended = "never" /\ lastSaved = NoStep
      /\ config.async_mode = "disabled" /\ states["model"] = 0
  BY DEF Init, CheckpointerInit, NoConfig, Fresh, Fields
<1>3. PICK seed \in {Absent, [exists |-> TRUE, markers |-> {".metadata"},
                              content |-> [Nothing EXCEPT !.model = 0]]} :
        disk = [s \in Steps |-> IF s = 0 THEN seed ELSE Absent]
  BY DEF Init, CheckpointerInit
<1>4. \A s \in Steps : /\ disk[s].markers \subseteq {".metadata"}
                       /\ disk[s].markers # {} \/ disk[s].exists => s = 0
  BY <1>3 DEF Absent
<1>5. LatestIsLoadable
  <2>1. ASSUME Top # NoStep PROVE CanLoad(Top)
    <3>1. Top \in Steps /\ ".metadata" \in disk[Top].markers
      BY <2>1, TopFacts DEF IsResumableCheckpoint
    <3>2. Top = 0
      BY <1>4, <3>1
    <3>3. seed.content["model"] # NotSaved
      <4>1. seed # Absent
        BY <1>3, <3>1, <3>2 DEF Absent
      <4>2. seed = [exists |-> TRUE, markers |-> {".metadata"},
                    content |-> [Nothing EXCEPT !.model = 0]]
        BY <1>3, <4>1, Zenon
      <4>3. [Nothing EXCEPT !["model"] = 0]["model"] = 0
        BY DEF Nothing, Fields
      <4>4. seed.content = [Nothing EXCEPT !["model"] = 0]
        BY <4>2
      <4> QED
        BY <4>3, <4>4 DEF NotSaved
    <3> QED
      BY <1>3, <3>1, <3>2, <3>3 DEF CanLoad, StatesToLoad
  <2> QED
    BY <2>1 DEF LatestIsLoadable, Top
<1>6. FullSavesOnly /\ CopyIsWhole
  BY <1>2, <1>4 DEF FullSavesOnly, CopyIsWhole
<1>7. SavesAwaited /\ SaveAhead /\ LastStepSaved
  BY <1>2 DEF SavesAwaited, SaveAhead, LastStepSaved, InFlight, Closing
<1>8. NoGaps /\ OneSaveBehind
  BY <1>2, <1>4 DEF NoGaps, OneSaveBehind
<1>9. SavedLast
  BY <1>2 DEF SavedLast
<1>10. PurgeBelow
  <2>1. Doomed = {}
    BY <1>2 DEF Doomed, ToSet
  <2> QED
    BY <2>1 DEF PurgeBelow
<1> QED
  BY <1>1, <1>5, <1>6, <1>7, <1>8, <1>9, <1>10 DEF RecoveryInv

(* Every step of the run keeps the recovery invariant.                     *)
LEMMA RecoveryStep ==
  ASSUME ResumesLatest, RecoveryInv, [Next]_vars
  PROVE  RecoveryInv'
<1>1. SnapshotInv'
  BY SnapshotStep DEF RecoveryInv
<1>2. CASE LaunchSome \/ Train
  BY <1>1, <1>2, LaunchKeepsRecoveryInv, LoadKeepsRecoveryInv, LoopKeepsRecoveryInv,
     OptimKeepsRecoveryInv, WaitKeepsRecoveryInv, PurgesKeepRecoveryInv,
     SaveKeepsRecoveryInv, SyncKeepsRecoveryInv, CloseKeepsRecoveryInv,
     EndKeepsRecoveryInv DEF LaunchSome, Train
<1>3. CASE Background
  BY <1>1, <1>3, CopyKeepsRecoveryInv, WriteKeepsRecoveryInv, PublishKeepsRecoveryInv,
     PurgeThreadKeepsRecoveryInv DEF Background
<1>4. CASE TrainStepRaises \/ SaveFails \/ Crash
  BY <1>1, <1>4, RaiseKeepsRecoveryInv, CopyKeepsRecoveryInv, EndKeepsRecoveryInv
     DEF SaveFails
<1>5. CASE UNCHANGED vars
  <2>1. Top' = Top /\ Kept' = Kept /\ (LatestIsLoadable => LatestIsLoadable')
    BY <1>5, FolderUnchanged DEF vars
  <2>2. Doomed' = Doomed
    BY <1>5, PurgesUnchanged DEF vars
  <2>3. UNCHANGED <<disk, states, managerVars, pc, config, raised, ended, lastSaved>>
    BY <1>5 DEF vars
  <2> USE DEF managerVars
  <2>4. FullSavesOnly' /\ CopyIsWhole' /\ SavesAwaited'
    BY <2>3 DEF RecoveryInv, FullSavesOnly, CopyIsWhole, IsFull, SavesAwaited, InFlight
  <2>5. SaveAhead' /\ LastStepSaved'
    <3>1. LastStep' = LastStep
      BY <2>3 DEF LastStep
    <3> QED
      BY <2>1, <2>3, <3>1 DEF RecoveryInv, SaveAhead, InFlight, LastStepSaved, Closing
  <2>6. NoGaps' /\ OneSaveBehind' /\ SavedLast'
    BY <2>1, <2>3 DEF RecoveryInv, NoGaps, OneSaveBehind, SavedLast
  <2>7. PurgeBelow'
    BY <2>1, <2>2, <2>3 DEF RecoveryInv, PurgeBelow
  <2> QED
    BY <1>1, <2>1, <2>4, <2>5, <2>6, <2>7 DEF RecoveryInv
<1> QED
  BY <1>2, <1>3, <1>4, <1>5 DEF Next, Terminated

LEMMA RecoveryInvariant ==
  ASSUME ResumesLatest
  PROVE  Spec => []RecoveryInv
<1>1. Init => RecoveryInv
  BY RecoveryInit
<1>2. RecoveryInv /\ [Next]_vars => RecoveryInv'
  BY RecoveryStep
<1> QED
  BY <1>1, <1>2, PTL DEF Spec

(* In jobs that resume from the latest checkpoint, the one that is found   *)
(* after a crash, in a save or in a deletion, is always one load() takes.  *)
THEOREM LatestLoadable ==
  ASSUME ResumesLatest
  PROVE  Spec => []LatestIsLoadable
<1>1. RecoveryInv => LatestIsLoadable
  BY DEF RecoveryInv
<1> QED
  BY <1>1, RecoveryInvariant, PTL

(* However late the purge thread comes to a deletion, it is neither of the *)
(* step a restart would resume from nor of the one being saved.            *)
THEOREM ResumeSpared ==
  ASSUME ResumesLatest
  PROVE  Spec => []PurgeSparesResume
<1>1. RecoveryInv => PurgeSparesResume
  BY DEF RecoveryInv, PurgeBelow, PurgeSparesResume, Doomed, Top
<1> QED
  BY <1>1, RecoveryInvariant, PTL

(* What survives is the latest checkpoint: the seed keeps nothing.         *)
LEMMA DurableIsKept ==
  ASSUME RecoveryInv
  PROVE  Durable = Kept
<1> DEFINE intact == {s \in Steps : Intact(s)}
<1>1. Durable = IF intact = {} THEN 0 ELSE Max(intact)
  BY DEF Durable
<1>2. \A s \in intact : s \in Nat /\ s <= Top
  BY TopFacts, StepsAreNumbers DEF Intact
<1>3. ASSUME Top # NoStep, Top # 0 PROVE Top \in intact
  BY <1>3, TopFacts DEF RecoveryInv, LatestIsLoadable, Top, CanLoad, StatesToLoad, Intact,
     IsResumableCheckpoint, IsFull
<1>4. intact \subseteq Steps
  OBVIOUS
<1> HIDE DEF intact
<1>5. intact # {} => Max(intact) = Latest(intact)
  BY DEF Latest
<1>6. CASE Top = NoStep
  BY <1>1, <1>2, <1>6 DEF Kept, NoStep
<1>7. CASE Top = 0
  <2>1. ASSUME intact # {} PROVE Max(intact) = 0
    <3>1. Max(intact) \in intact
      BY <1>4, <2>1, LargestStep
    <3> QED
      BY <1>2, <1>7, <3>1
  <2> QED
    BY <1>1, <1>7, <2>1 DEF Kept, NoStep
<1>8. CASE Top # NoStep /\ Top # 0
  BY <1>1, <1>2, <1>3, <1>4, <1>5, <1>8, LatestUnique DEF Kept
<1> QED
  BY <1>6, <1>7, <1>8

(* A job that ends without an exception leaves its last save, and, having  *)
(* reached training.steps, all of its training on disk.                    *)
THEOREM ExitLosesNothing ==
  ASSUME ResumesLatest
  PROVE  Spec => []NothingLostOnExit
<1>1. RecoveryInv => NothingLostOnExit
  <2>1. SUFFICES ASSUME RecoveryInv, pc = "down", ended \in {"completed", "exhausted"}
                 PROVE  /\ lastSaved # NoStep => Intact(lastSaved)
                        /\ ended = "completed" => Durable >= config.steps
    BY DEF NothingLostOnExit
  <2>2. SnapshotInv
    BY <2>1 DEF RecoveryInv
  <2>3. ASSUME lastSaved # NoStep PROVE Intact(lastSaved)
    <3>1. lastSaved = Top /\ 1 <= Top
      BY <2>1, <2>3 DEF RecoveryInv, SavedLast
    <3>2. Top # NoStep /\ Top # 0 /\ Top \in Int
      BY <3>1, TopFacts DEF NoStep
    <3>3. CanLoad(Top)
      BY <2>1, <3>2 DEF RecoveryInv, LatestIsLoadable, Top
    <3> QED
      BY <3>1, <3>2, <3>3 DEF CanLoad, StatesToLoad, Intact, IsResumableCheckpoint, IsFull
  <2>4. ended = "completed" => config.steps <= Kept
    BY <2>1 DEF RecoveryInv, SavedLast
  <2> QED
    BY <2>1, <2>2, <2>3, <2>4, DurableIsKept, Numbers
<1> QED
  BY <1>1, RecoveryInvariant, PTL

(* Every window of an interval of steps has one that is saved.             *)
LEMMA RegularInWindow ==
  ASSUME NEW n \in Nat
  PROVE  \E u \in n + 1 .. n + Interval : Regular(u)
<1> DEFINE m == n + Interval
<1>1. Interval \in Nat \ {0} /\ m \in Nat
  BY CheckpointerAssumption DEF CheckpointerAssumption
<1> HIDE DEF m
<1>2. /\ m = (Interval * (m \div Interval)) + (m % Interval)
      /\ m \div Interval \in Nat
      /\ m % Interval \in 0 .. Interval - 1
  BY <1>1
<1> DEFINE q == m \div Interval
<1> HIDE DEF q
<1>3. (Interval * q) % Interval = 0
  BY <1>1, <1>2 DEF q
<1>4. (m - (m % Interval)) % Interval = 0
  BY <1>1, <1>2, <1>3 DEF q
<1>5. m - (m % Interval) \in n + 1 .. n + Interval
  BY <1>1, <1>2 DEF m
<1> QED
  BY <1>4, <1>5 DEF Regular, ShouldSave

(* A crash costs one interval of updates, two when saves are asynchronous, *)
(* for every interval, every schedule and any number of crashes before.    *)
THEOREM LossIsBounded ==
  ASSUME ResumesLatest
  PROVE  Spec => []BoundedLoss
<1>1. RecoveryInv => BoundedLoss
  <2>1. SUFFICES ASSUME RecoveryInv
                 PROVE  states["model"] - Kept
                          <= Interval * (IF config.async_mode = "disabled" THEN 1 ELSE 2)
    BY DurableIsKept DEF BoundedLoss
  <2> DEFINE m == states["model"]
  <2>2. /\ m \in Nat /\ Kept \in Nat /\ Top \in Int /\ Top <= Kept
        /\ Interval \in Nat \ {0}
    BY <2>1, Numbers, CheckpointerAssumption DEF RecoveryInv, CheckpointerAssumption
  <2>3. PICK u \in Kept + 1 .. Kept + Interval : Regular(u)
    BY <2>2, RegularInWindow
  <2>4. PICK v \in Kept + Interval + 1 .. Kept + Interval + Interval : Regular(v)
    <3>1. Kept + Interval \in Nat
      BY <2>2
    <3> QED
      BY <3>1, RegularInWindow
  <2>5. u \in Nat /\ v \in Nat /\ u < v /\ 1 <= u /\ ~(u <= Top)
    BY <2>2, <2>3, <2>4
  <2>6. CASE config.async_mode = "disabled"
    <3>1. u \notin 1 .. m - 1
      BY <2>1, <2>3, <2>5, <2>6 DEF RecoveryInv, OneSaveBehind
    <3> QED
      BY <2>2, <2>3, <2>5, <2>6, <3>1
  <2>7. CASE config.async_mode # "disabled"
    <3>1. v \notin 1 .. m - 1
      <4>1. SUFFICES ASSUME v \in 1 .. m - 1 PROVE FALSE
        OBVIOUS
      <4>2. u \in 1 .. v - 1
        BY <2>5
      <4> QED
        BY <2>1, <2>3, <2>4, <2>5, <4>1, <4>2 DEF RecoveryInv, OneSaveBehind
    <3> QED
      BY <2>2, <2>4, <2>5, <2>7, <3>1
  <2> QED
    BY <2>6, <2>7
<1> QED
  BY <1>1, RecoveryInvariant, PTL

-------------------------------------------------------------------------------
(* Refinement of RecoverableTraining. *)

(* Only a commit changes which checkpoint is the latest.                   *)
LEMMA OnlyCommitsMoveTop ==
  ASSUME RecoveryInv, [Next]_vars, ~(Background /\ UploadFinish)
  PROVE  Kept' = Kept
<1>1. CASE UNCHANGED disk
  BY <1>1, FolderUnchanged
<1>2. CASE UploadBegin
  <2> DEFINE d == [exists |-> TRUE, markers |-> disk[saving].markers, content |-> Nothing]
  <2>1. /\ saving \in Steps /\ InFlight
        /\ disk' = [disk EXCEPT ![saving] = d]
        /\ d.markers \subseteq disk[saving].markers
    BY <1>2 DEF RecoveryInv, SnapshotInv, CopyOfOneStep, InFlight, UploadBegin
  <2>2. saving # Top
    BY <2>1, TopFacts DEF RecoveryInv, SaveAhead
  <2> HIDE DEF d
  <2>3. Top' = Top
    BY <2>1, <2>2, TopSpared DEF RecoveryInv
  <2> QED
    BY <2>3 DEF Kept
<1>3. CASE PurgeTake \/ PurgeDone \/ PurgeFails
  BY <1>3, PurgeThreadStep DEF Kept
<1>4. UNCHANGED disk \/ UploadBegin \/ PurgeTake \/ PurgeDone \/ PurgeFails
  <2>1. CASE LaunchSome \/ Train
    BY <2>1 DEF LaunchSome, Train, Launch, LoadNothing, LoadCheckpoint, LoadRaises,
       TrainingEnds, DataloaderExhausted, ForwardBackward, OptimStep, SaveNotDue,
       SaveWaits, SavePurges, SaveAsync, SavePinned, SaveSync, SaveSyncReturns,
       SaveSyncRaises, CloseStaging, CloseSaving, ClosePurge
  <2>2. CASE Background
    BY <2>2 DEF Background, StageModel, StageOptimizer
  <2>3. CASE TrainStepRaises \/ SaveFails \/ Crash \/ UNCHANGED vars
    BY <2>3 DEF TrainStepRaises, SaveFails, UploadFails, Crash, vars
  <2> QED
    BY <2>1, <2>2, <2>3 DEF Next, Terminated
<1> QED
  BY <1>1, <1>2, <1>3, <1>4

(* A run that has not started, or has ended, holds no step.                *)
LEMMA StartedFacts ==
  ASSUME RecoveryInv
  PROVE  /\ pc \notin {"down", "load"} /\ ~raised => Started
         /\ pc \notin {"down", "load"} /\ 1 <= states["step"] => Started
         /\ pc \notin {"down", "load"} /\ upload # "idle" => Started
         /\ pc \in {"down", "load"} => ~Started
<1>1. states = Fresh => states["step"] = 0
  BY DEF Fresh, Fields
<1>2. upload # "idle" => 1 <= states["step"]
  BY Numbers DEF RecoveryInv, SaveAhead
<1> QED
  BY <1>1, <1>2 DEF Started

(* Each step of the run, seen from its owner.                              *)
Idles ==
  /\ Started' <=> Started
  /\ Kept' = Kept
  /\ Started => states'["step"] = states["step"]
Starts == ~Started /\ Started' /\ states'["step"] = Kept /\ Kept' = Kept
Advances ==
  /\ Started /\ Started' /\ Kept' = Kept
  /\ states["step"] < MaxSteps /\ states'["step"] = states["step"] + 1
Commits ==
  /\ Started /\ Started' /\ states'["step"] = states["step"]
  /\ Kept' \in Kept + 1 .. states["step"]
Stops == Started /\ ~Started' /\ Kept' = Kept

LEMMA CommitStep ==
  ASSUME RecoveryInv, Background, UploadFinish
  PROVE  Commits
<1>1. /\ upload = "writing" /\ saving \in Steps /\ Top < saving /\ 1 <= saving
      /\ saving <= states["step"] /\ pc \notin {"down", "load"}
  BY DEF RecoveryInv, UploadFinish, SnapshotInv, CopyOfOneStep, InFlight,
     SaveAhead, NoSaveBeforeLoad
<1>2. UNCHANGED <<states, pc, raised>>
  BY DEF Background, UploadFinish
<1>3. Started /\ Started'
  <2>1. Started
    BY <1>1, StartedFacts
  <2> QED
    BY <1>2, <2>1 DEF Started
<1>4. saving \in Nat /\ Kept \in Nat /\ states["step"] \in Nat /\ Top \in Int
  BY <1>1, StepsAreNumbers, Numbers DEF RecoveryInv
<1>5. Kept' = saving /\ Kept < saving
  <2>1. Top' = saving
    BY TopCommitted DEF RecoveryInv
  <2>2. Kept' = saving
    BY <1>1, <2>1 DEF Kept, NoStep
  <2>3. Kept < saving
    BY <1>1, <1>4 DEF Kept
  <2> QED
    BY <2>2, <2>3
<1> QED
  BY <1>1, <1>2, <1>3, <1>4, <1>5 DEF Commits

LEMMA StartStep ==
  ASSUME ResumesLatest, RecoveryInv, SnapshotInv', Kept' = Kept,
         LaunchSome \/ LoadNothing \/ LoadCheckpoint \/ LoadRaises
  PROVE  Idles \/ Starts
<1>1. pc \in {"down", "load"} /\ ~Started /\ ~raised
  BY StartedFacts DEF LaunchSome, Launch, LoadNothing, LoadCheckpoint, LoadRaises,
     RecoveryInv, LastStepSaved, Closing
<1>2. CASE LaunchSome
  BY <1>1, <1>2 DEF LaunchSome, Launch, Started, Idles
<1>3. CASE LoadNothing
  <2>1. Top = NoStep /\ states["step"] = 0
    BY <1>3 DEF LoadNothing, LoadStep, Top, RecoveryInv, SnapshotInv, StatesOfOneStep
  <2> QED
    BY <1>1, <1>3, <2>1 DEF LoadNothing, Started, Starts, Kept
<1>4. CASE LoadCheckpoint
  <2>1. Top # NoStep /\ states'["step"] = Top
    BY <1>4, RestartStep DEF LoadCheckpoint
  <2> QED
    BY <1>1, <1>4, <2>1 DEF LoadCheckpoint, Started, Starts, Kept
<1>5. CASE LoadRaises
  <2>1. states = Fresh
    BY <1>5 DEF LoadRaises, RecoveryInv, SnapshotInv, TypeOK, CheckpointerTypeOK,
       StatesOfOneStep, Fresh
  <2> QED
    BY <1>1, <1>5, <2>1 DEF LoadRaises, Started, Idles
<1> QED
  BY <1>2, <1>3, <1>4, <1>5

LEMMA LoopStep ==
  ASSUME RecoveryInv, Kept' = Kept,
         TrainingEnds \/ DataloaderExhausted \/ ForwardBackward
  PROVE  Idles \/ Advances
<1>1. pc = "loop" /\ ~raised /\ ~raised' /\ pc' \in {"optim", "close_staging"}
  BY DEF TrainingEnds, DataloaderExhausted, ForwardBackward, RecoveryInv, LastStepSaved,
     Closing
<1>2. Started /\ Started'
  BY <1>1 DEF Started
<1>3. CASE TrainingEnds
  BY <1>2, <1>3 DEF TrainingEnds, Idles
<1>4. CASE DataloaderExhausted \/ ForwardBackward
  <2>1. states \in [Fields -> Steps] /\ config.steps \in Steps
    BY DEF RecoveryInv, SnapshotInv, TypeOK, CheckpointerTypeOK, JobConfig
  <2>2. /\ states["step"] < config.steps
        /\ \/ states' = [states EXCEPT !["step"] = @ + 1]
           \/ states' = [states EXCEPT !["step"] = @ + 1, !["data"] = @ + 1]
    BY <1>4 DEF DataloaderExhausted, ForwardBackward, ShouldContinueTraining
  <2>3. states'["step"] = states["step"] + 1
    BY <2>1, <2>2 DEF Fields
  <2>4. states["step"] \in Nat /\ config.steps \in Nat /\ config.steps <= MaxSteps
    BY <2>1, CheckpointerAssumption DEF Fields, Steps, CheckpointerAssumption
  <2> QED
    BY <1>2, <2>2, <2>3, <2>4, CheckpointerAssumption DEF Advances, CheckpointerAssumption
<1> QED
  BY <1>3, <1>4

(* An exception raised in a step that counted does not undo the start.     *)
LEMMA TurnStep ==
  ASSUME RecoveryInv, Kept' = Kept,
         \/ OptimStep \/ TrainStepRaises
         \/ SaveNotDue \/ SaveWaits \/ SavePurges \/ SaveAsync \/ SavePinned
         \/ SaveSync \/ SaveSyncReturns \/ SaveSyncRaises
  PROVE  Idles
<1>1. /\ pc \in {"optim", "save", "purge", "write", "writing"}
      /\ pc' \notin {"down", "load"}
      /\ states'["step"] = states["step"]
  <2>1. CASE OptimStep
    <3>1. states' = [states EXCEPT !["model"] = @ + 1, !["optim"] = @ + 1]
      BY <2>1 DEF OptimStep
    <3> QED
      BY <2>1, <3>1 DEF OptimStep, RecoveryInv, SnapshotInv, TypeOK, CheckpointerTypeOK,
         Fields
  <2>2. CASE ~OptimStep
    BY <2>2 DEF TrainStepRaises, SaveNotDue, SaveWaits, SavePurges, SaveAsync, SavePinned,
       SaveSync, SaveSyncReturns, SaveSyncRaises
  <2> QED
    BY <2>1, <2>2
<1>2. ~raised /\ 1 <= states["step"]
  BY <1>1, Numbers DEF RecoveryInv, LastStepSaved, Closing, SnapshotInv, StatesOfOneStep,
     Fields
<1>3. Started
  BY <1>1, <1>2, StartedFacts
<1>4. Started'
  <2>1. states' # Fresh
    BY <1>1, <1>2 DEF Fresh, Fields
  <2> QED
    BY <1>1, <2>1 DEF Started
<1> QED
  BY <1>1, <1>3, <1>4 DEF Idles

LEMMA EndStep ==
  ASSUME RecoveryInv, Kept' = Kept,
         CloseStaging \/ CloseSaving \/ ClosePurge \/ Crash
  PROVE  Idles \/ Stops
<1>1. UNCHANGED states
  BY DEF CloseStaging, CloseSaving, ClosePurge, Crash
<1>2. CASE CloseStaging
  BY <1>1, <1>2 DEF CloseStaging, Started, Idles
<1>3. CASE CloseSaving
  <2>1. /\ pc = "close_saving" /\ pc' = "close_purge"
        /\ raised' => raised \/ upload = "failed"
        /\ raised => raised'
    BY <1>3 DEF CloseSaving, SavingFailed
  <2>2. CASE raised
    BY <1>1, <2>1, <2>2 DEF Started, Idles
  <2>3. CASE ~raised
    <3>1. Started
      BY <2>1, <2>3, StartedFacts
    <3>2. raised' => states # Fresh
      <4>1. upload # "idle" => 1 <= states["step"]
        BY Numbers DEF RecoveryInv, SaveAhead
      <4> QED
        BY <2>1, <2>3, <4>1 DEF Fresh, Fields
    <3>3. Started'
      BY <1>1, <2>1, <3>2 DEF Started
    <3> QED
      BY <1>1, <3>1, <3>3 DEF Idles
  <2> QED
    BY <2>2, <2>3
<1>4. CASE ClosePurge \/ Crash
  <2>1. ~Started'
    BY <1>4 DEF ClosePurge, Crash, Started
  <2> QED
    BY <1>1, <2>1 DEF Idles, Stops
<1> QED
  BY <1>2, <1>3, <1>4

LEMMA OwnersView ==
  ASSUME ResumesLatest, RecoveryInv, SnapshotInv', [Next]_vars
  PROVE  Idles \/ Starts \/ Advances \/ Commits \/ Stops
<1>1. CASE Background /\ UploadFinish
  BY <1>1, CommitStep
<1>2. CASE ~(Background /\ UploadFinish)
  <2>1. Kept' = Kept
    BY <1>2, OnlyCommitsMoveTop
  <2>2. CASE LaunchSome \/ Train
    BY <2>1, <2>2, StartStep, LoopStep, TurnStep, EndStep DEF Train
  <2>3. CASE Background \/ SaveFails \/ UNCHANGED vars
    <3>1. UNCHANGED <<pc, raised, states>>
      BY <2>3 DEF Background, SaveFails, UploadFails, vars, StageModel, StageOptimizer,
         UploadBegin, UploadFinish, PurgeTake, PurgeDone, PurgeFails
    <3> QED
      BY <2>1, <3>1 DEF Started, Idles
  <2>4. CASE TrainStepRaises \/ Crash
    BY <2>1, <2>4, TurnStep, EndStep
  <2> QED
    BY <2>2, <2>3, <2>4 DEF Next, Terminated
<1> QED
  BY <1>1, <1>2

DurableAgrees == Durable = Kept

(* A step of the run is a start from exactly the durable step, a step of   *)
(* training, a commit of one trained, an end, or nothing its owner sees.   *)
LEMMA RecoverySteps ==
  ASSUME ResumesLatest, RecoveryInv, RecoveryInv', [Next]_vars,
         Durable = Kept, Durable' = Kept'
  PROVE  [Recovery!Next]_(Recovery!vars)
<1>1. Idles \/ Starts \/ Advances \/ Commits \/ Stops
  BY OwnersView DEF RecoveryInv
<1>2. Started \in BOOLEAN /\ Started' \in BOOLEAN
  BY DEF Started
<1>3. CASE Idles
  <2>1. Started' = Started
    BY <1>2, <1>3 DEF Idles
  <2> QED
    BY <1>3, <2>1 DEF Idles, Recovery!vars
<1>4. CASE Starts
  BY <1>4 DEF Starts, Recovery!Next, Recovery!Start
<1>5. CASE Advances
  BY <1>5 DEF Advances, Recovery!Next, Recovery!Advance
<1>6. CASE Commits
  BY <1>6 DEF Commits, Recovery!Next, Recovery!Commit
<1>7. CASE Stops
  BY <1>7 DEF Stops, Recovery!Next, Recovery!Stop
<1> QED
  BY <1>1, <1>3, <1>4, <1>5, <1>6, <1>7

(* Crashes, failed saves, deletions, shorter and longer jobs on the same   *)
(* folder: the run is one of durable progress, restarted where it was.     *)
THEOREM RecoveryImplemented ==
  ASSUME ResumesLatest
  PROVE  Spec => ImplementsRecovery
<1>1. Init => Recovery!Init
  <2>1. SUFFICES ASSUME Init PROVE Durable = 0 /\ ~Started
    BY DEF Recovery!Init, Started
  <2>2. RecoveryInv
    BY <2>1, RecoveryInit
  <2>3. pc = "down" /\ \A s \in Steps : s # 0 => disk[s] = Absent
    BY <2>1 DEF Init, CheckpointerInit
  <2>4. Top = NoStep \/ Top = 0
    BY <2>3, TopFacts DEF IsResumableCheckpoint, Absent
  <2> QED
    BY <2>2, <2>3, <2>4, DurableIsKept DEF Kept, Started
<1>2. RecoveryInv => DurableAgrees
  BY DurableIsKept DEF DurableAgrees
<1>3. RecoveryInv /\ RecoveryInv' /\ DurableAgrees /\ DurableAgrees' /\ [Next]_vars
        => [Recovery!Next]_(Recovery!vars)
  BY RecoverySteps DEF DurableAgrees
<1> QED
  BY <1>1, <1>2, <1>3, RecoveryInvariant, PTL DEF Spec, ImplementsRecovery, Recovery!Spec
===============================================================================
