------------------------------ MODULE DataLoaders ------------------------------
(***************************************************************************)
(* The trainer's dataloader: by configuration the Grain loader             *)
(* (PackedStream) or the Megatron loader (MegatronLoader).  Either keeps   *)
(* the contract of BaseDataLoader with the checkpoints (ResumableStream).  *)
(***************************************************************************)
EXTENDS PackedStream

CONSTANTS World, GpusPerNode, MicroBatch, Samples, Ahead, MaxSteps

VARIABLES loader, setup, files, pc, written, consumed, drawn, fetched, handed, history,
          checkpoint, restarts

Megatron == INSTANCE MegatronLoader

megatronVars == <<setup, files, pc, written, consumed, drawn, fetched, handed, history,
                  checkpoint, restarts>>
allVars == <<vars, loader, megatronVars>>

ASSUME LoaderAssumption == Megatron!SizesOK

AnyOf(S) == CHOOSE x \in S : TRUE

\* The configuration of the loader that is not used is arbitrary.
LoaderInit ==
  /\ Init /\ Megatron!Init
  /\ \/ loader = "grain" /\ setup = AnyOf([nodeLocal : BOOLEAN, repeat : BOOLEAN])
     \/ loader = "megatron" /\ config = AnyOf(Configs)

\* Only the configured loader runs.
LoaderNext ==
  \/ loader = "grain" /\ Next /\ UNCHANGED <<loader, megatronVars>>
  \/ loader = "megatron" /\ Megatron!Next /\ UNCHANGED <<loader, vars>>

LoaderSpec == LoaderInit /\ [][LoaderNext]_allVars

-----------------------------------------------------------------------------
LoaderTypeOK == TypeOK /\ Megatron!TypeOK

\* See MegatronLoader.
SamplesOnce == Megatron!SamplesOnce
FailsOnlyAfterTear == Megatron!FailsOnlyAfterTear

\* What a checkpointed loader promises: one sequence of rows (of global batches), and
\* after a restart the same ones again from the checkpoint on.  The trainer's replay
\* after a crash therefore sees the data of the lost steps, not other data.
Stream ==
  INSTANCE ResumableStream WITH
    out <- IF loader = "grain" THEN delivered ELSE Megatron!GlobalBatches(handed),
    seen <- IF loader = "grain" THEN seen ELSE history,
    saved <- IF loader = "grain" THEN saved.rows ELSE checkpoint.steps
Resumes == Stream!Spec
=============================================================================
