---------------------------- MODULE MegatronLoader ----------------------------
(***************************************************************************)
(* MegatronDataLoader on all data-parallel ranks (components/data/megatron) *)
(* from the index cache to the trainer.  When a rank builds its dataset,   *)
(* the rank that may write finds or writes four index files and loads them; *)
(* the others wait at a barrier and load them.  The sampler then cuts each *)
(* global batch of consecutive samples into the slices of the ranks.       *)
(* Samples are numbered in the order of the shuffle index, which is a      *)
(* permutation and the same for every rank that reads whole files.         *)
(***************************************************************************)
EXTENDS Integers, Sequences, FiniteSets, FiniteSetsExt

CONSTANTS
  World,         \* dp_world_size
  GpusPerNode,   \* ranks of a node
  MicroBatch,    \* samples of a rank in a batch
  Samples,       \* len(dataset)
  Ahead,         \* batches that the DataLoader's workers prefetch
  MaxSteps,      \* bound: batches the trainer takes
  MaxCrashes     \* bound: restarts

VARIABLES
  setup,       \* [nodeLocal, repeat]: node_uses_local_storage and repeat, fixed
  files,       \* for each store, the state of the four files
  pc,          \* where each rank is
  written,     \* for each rank, the files it has written in this build
  consumed,    \* _consumed_samples of each rank
  drawn,       \* the sampler's next sample, of each rank
  fetched,     \* the batches each rank's workers hold
  handed,      \* the batches each rank's trainer took in the current history
  history,     \* the global batches of the longest history
  checkpoint,  \* [consumed, steps]
  restarts     \* restarts so far

cacheVars == <<files, written>>
vars == <<setup, cacheVars, pc, consumed, drawn, fetched, handed, history, checkpoint, restarts>>

Ranks == 0 .. World - 1
Files == 1 .. 4      \* description, document index, sample index, shuffle index
GlobalBatch == MicroBatch * World
Usable == (Samples \div GlobalBatch) * GlobalBatch

\* What the loader's __init__ accepts: batches are not empty, and the dataset holds at
\* least one global batch.
SizesOK ==
  /\ {World, GpusPerNode, MicroBatch} \subseteq Nat \ {0}
  /\ {Samples, Ahead, MaxSteps, MaxCrashes} \subseteq Nat
  /\ GlobalBatch <= Samples

\* Rank 0, and with node-local storage the first rank of each node, may write.
CachingAllowed(r) == r = 0 \/ (setup.nodeLocal /\ r % GpusPerNode = 0)
Store(r) == IF setup.nodeLocal THEN r \div GpusPerNode ELSE 0

FileStates == {"absent", "torn", "whole"}
(* Mutant: a cache with a description is taken for complete.              *)
DescriptionFound(r) == files[Store(r)][1] # "absent"
CacheHit(r) == \A f \in Files : files[Store(r)][f] # "absent"

Init ==
  /\ setup \in [nodeLocal : BOOLEAN, repeat : BOOLEAN]
  /\ files = [s \in Ranks |-> [f \in Files |-> "absent"]]
  /\ pc = [r \in Ranks |-> "start"]
  /\ written = [r \in Ranks |-> 0]
  /\ consumed = [r \in Ranks |-> 0]
  /\ drawn = [r \in Ranks |-> 0]
  /\ fetched = [r \in Ranks |-> << >>]
  /\ handed = [r \in Ranks |-> << >>]
  /\ history = << >>
  /\ checkpoint = [consumed |-> [r \in Ranks |-> 0], steps |-> 0]
  /\ restarts = 0

-----------------------------------------------------------------------------
\* The index cache.

\* The writer looks for the four files; every other rank goes to the barrier.
FindCache(r) ==
  /\ pc[r] = "start"
  /\ pc' = [pc EXCEPT ![r] = IF ~CachingAllowed(r) THEN "barrier"
                             ELSE IF CacheHit(r) THEN "load" ELSE "write"]
  /\ UNCHANGED <<setup, cacheVars, consumed, drawn, fetched, handed, history, checkpoint, restarts>>

\* Opening a file to write it empties it.
OpenFile(r) ==
  /\ pc[r] = "write"
  /\ pc' = [pc EXCEPT ![r] = "writing"]
  /\ files' = [files EXCEPT ![Store(r)][written[r] + 1] = "torn"]
  /\ UNCHANGED <<setup, written, consumed, drawn, fetched, handed, history, checkpoint, restarts>>

CloseFile(r) ==
  /\ pc[r] = "writing"
  /\ files' = [files EXCEPT ![Store(r)][written[r] + 1] = "whole"]
  /\ written' = [written EXCEPT ![r] = @ + 1]
  /\ pc' = [pc EXCEPT ![r] = IF written[r] + 1 = 4 THEN "load" ELSE "write"]
  /\ UNCHANGED <<setup, consumed, drawn, fetched, handed, history, checkpoint, restarts>>

\* np.load raises on an index that is absent or shorter than its header says.  The
\* description is not read.
LoadIndices(r) ==
  /\ pc[r] = "load"
  /\ pc' = [pc EXCEPT ![r] =
       IF \E f \in Files \ {1} : files[Store(r)][f] # "whole" THEN "failed"
       ELSE IF CachingAllowed(r) THEN "barrier" ELSE "built"]
  /\ UNCHANGED <<setup, cacheVars, consumed, drawn, fetched, handed, history, checkpoint, restarts>>

\* The writers have their dataset; the others construct theirs now.
Barrier ==
  /\ \A r \in Ranks : pc[r] = "barrier"
  /\ pc' = [r \in Ranks |-> IF CachingAllowed(r) THEN "built" ELSE "load"]
  /\ UNCHANGED <<setup, cacheVars, consumed, drawn, fetched, handed, history, checkpoint, restarts>>

-----------------------------------------------------------------------------
\* Sampling.

\* load_state_dict and __iter__: a count at the end of the data starts over.
StartIterating(r) ==
  /\ pc[r] = "built"
  /\ LET c == checkpoint.consumed[r]
         from == IF c >= Usable /\ setup.repeat THEN 0 ELSE c
     IN  /\ consumed' = [consumed EXCEPT ![r] = from]
         /\ drawn' = [drawn EXCEPT ![r] = from]
         /\ pc' = [pc EXCEPT ![r] = IF from >= Usable THEN "ended" ELSE "training"]
  /\ UNCHANGED <<setup, cacheVars, fetched, handed, history, checkpoint, restarts>>

\* The slice of a rank in the global batch that begins with sample i.
Slice(r, i) == (i + r * MicroBatch) .. (i + (r + 1) * MicroBatch - 1)

\* A worker fetches the next batch; an incomplete global batch is dropped.
Fetch(r) ==
  /\ pc[r] \in {"training", "asking"}
  /\ Len(fetched[r]) < Ahead
  /\ drawn[r] + GlobalBatch <= Samples
  /\ fetched' = [fetched EXCEPT ![r] = Append(@, Slice(r, drawn[r]))]
  /\ drawn' = [drawn EXCEPT ![r] = @ + GlobalBatch]
  /\ UNCHANGED <<setup, cacheVars, pc, consumed, handed, history, checkpoint, restarts>>

\* The trainer asks for a batch once every rank has had the one before it: the
\* collectives of a step keep the ranks together.
AskBatch(r) ==
  /\ pc[r] = "training"
  /\ Len(handed[r]) < MaxSteps
  /\ \A q \in Ranks : Len(handed[q]) >= Len(handed[r])
  /\ pc' = [pc EXCEPT ![r] = "asking"]
  /\ UNCHANGED <<setup, cacheVars, consumed, drawn, fetched, handed, history, checkpoint, restarts>>

\* The batches of the steps that every rank has begun.
GlobalBatches(h) ==
  [i \in 1 .. Min({Len(h[r]) : r \in Ranks}) |-> [r \in Ranks |-> h[r][i]]]

\* Samples count as consumed when they are handed to the trainer.
HandOver(r) ==
  /\ pc[r] = "asking"
  /\ fetched[r] # << >>
  /\ pc' = [pc EXCEPT ![r] = "training"]
  /\ handed' = [handed EXCEPT ![r] = Append(@, Head(fetched[r]))]
  /\ fetched' = [fetched EXCEPT ![r] = Tail(@)]
  /\ consumed' = [consumed EXCEPT ![r] = @ + GlobalBatch]
  /\ history' = IF Len(GlobalBatches(handed')) > Len(history)
                THEN GlobalBatches(handed') ELSE history
  /\ UNCHANGED <<setup, cacheVars, drawn, checkpoint, restarts>>

\* The sampler has no batch left: start over, or stop.
EndEpoch(r) ==
  /\ pc[r] = "asking"
  /\ fetched[r] = << >>
  /\ drawn[r] + GlobalBatch > Samples
  /\ IF setup.repeat
     THEN /\ consumed' = [consumed EXCEPT ![r] = 0]
          /\ drawn' = [drawn EXCEPT ![r] = 0]
          /\ UNCHANGED pc
     ELSE /\ pc' = [pc EXCEPT ![r] = "ended"]
          /\ UNCHANGED <<consumed, drawn>>
  /\ UNCHANGED <<setup, cacheVars, fetched, handed, history, checkpoint, restarts>>

(* Mutant: samples count as consumed when they are prefetched.            *)
SaveDrawn ==
  /\ \A r \in Ranks : pc[r] = "training" /\ Len(handed[r]) = Len(handed[0])
  /\ checkpoint' = [consumed |-> drawn, steps |-> Len(handed[0])]
  /\ UNCHANGED <<setup, cacheVars, pc, consumed, drawn, fetched, handed, history, restarts>>

\* state_dict of every rank, in a checkpoint between two steps.
SaveState ==
  /\ \A r \in Ranks : pc[r] = "training" /\ Len(handed[r]) = Len(handed[0])
  /\ checkpoint' = [consumed |-> consumed, steps |-> Len(handed[0])]
  /\ UNCHANGED <<setup, cacheVars, pc, consumed, drawn, fetched, handed, history, restarts>>

\* The job dies at any point, half-written files included, and is started again.
RestartJob ==
  /\ restarts < MaxCrashes
  /\ restarts' = restarts + 1
  /\ pc' = [r \in Ranks |-> "start"]
  /\ written' = [r \in Ranks |-> 0]
  /\ consumed' = [r \in Ranks |-> 0]
  /\ drawn' = [r \in Ranks |-> 0]
  /\ fetched' = [r \in Ranks |-> << >>]
  /\ handed' = [r \in Ranks |-> SubSeq(handed[r], 1, checkpoint.steps)]
  /\ UNCHANGED <<setup, files, history, checkpoint>>

Next ==
  \/ \E r \in Ranks : \/ FindCache(r) \/ OpenFile(r) \/ CloseFile(r) \/ LoadIndices(r)
                      \/ StartIterating(r) \/ Fetch(r) \/ AskBatch(r) \/ HandOver(r)
                      \/ EndEpoch(r)
  \/ Barrier \/ SaveState \/ RestartJob

Spec == Init /\ [][Next]_vars

-----------------------------------------------------------------------------
\* Correctness.

TypeOK ==
  /\ setup \in [nodeLocal : BOOLEAN, repeat : BOOLEAN]
  /\ files \in [Ranks -> [Files -> FileStates]]
  /\ pc \in [Ranks -> {"start", "write", "writing", "load", "failed", "barrier", "built",
                       "training", "asking", "ended"}]
  /\ written \in [Ranks -> 0 .. 4]
  /\ consumed \in [Ranks -> 0 .. Usable]
  /\ drawn \in [Ranks -> 0 .. Usable]
  /\ \A r \in Ranks : /\ fetched[r] \in Seq(SUBSET (0 .. Samples - 1))
                      /\ handed[r] \in Seq(SUBSET (0 .. Samples - 1))
  /\ checkpoint \in [consumed : [Ranks -> 0 .. Usable], steps : 0 .. MaxSteps]
  /\ restarts \in 0 .. MaxCrashes

StepsPerEpoch == Usable \div GlobalBatch
EpochOf(i) == (i - 1) \div StepsPerEpoch

\* In every epoch each usable sample goes to one rank in one step, also when the
\* epoch is interrupted and resumed from a checkpoint: no two batches of an epoch
\* share a sample, and an epoch has as many batches as the usable samples fill.
SamplesOnce ==
  \A r, q \in Ranks : \A i \in DOMAIN handed[r], j \in DOMAIN handed[q] :
    /\ Cardinality(handed[r][i]) = MicroBatch
    /\ handed[r][i] \subseteq 0 .. Usable - 1
    /\ EpochOf(i) = EpochOf(j) /\ <<r, i>> # <<q, j>> => handed[r][i] \cap handed[q][j] = {}

\* A rank fails to load the indices only after the job died in the middle of writing
\* the last of them: the barrier, and the writing of the files in order, keep every
\* rank from files that are absent or half-written.
FailsOnlyAfterTear ==
  \A r \in Ranks : pc[r] = "failed" =>
    /\ restarts > 0
    /\ files[Store(r)] = [f \in Files |-> IF f = 4 THEN "torn" ELSE "whole"]
=============================================================================
