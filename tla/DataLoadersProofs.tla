--------------------------- MODULE DataLoadersProofs ---------------------------
(***************************************************************************)
(* Proofs about DataLoaders: whichever loader is configured, it keeps the  *)
(* contract of BaseDataLoader with the checkpoints.                        *)
(*                                                                         *)
(* The inductive invariants are those of the two loaders, each proved in a *)
(* module of its own: only the configured one moves, so both always hold.  *)
(***************************************************************************)
EXTENDS DataLoaders, PackedStreamProofs

Proved == INSTANCE MegatronLoaderProofs

-------------------------------------------------------------------------------
(* What is proved of MegatronLoader is about the loader that is used here. *)

LEMMA SameLoader ==
  /\ Megatron!SizesOK <=> Proved!SizesOK
  /\ Megatron!Init <=> Proved!Init
  /\ Megatron!Next <=> Proved!Next
BY DEF Megatron!SizesOK, Proved!SizesOK, Megatron!Init, Proved!Init,
       Megatron!Next, Proved!Next, Megatron!FindCache, Proved!FindCache,
       Megatron!OpenFile, Proved!OpenFile, Megatron!CloseFile, Proved!CloseFile,
       Megatron!LoadIndices, Proved!LoadIndices, Megatron!Barrier, Proved!Barrier,
       Megatron!StartIterating, Proved!StartIterating, Megatron!Fetch, Proved!Fetch,
       Megatron!AskBatch, Proved!AskBatch, Megatron!HandOver, Proved!HandOver,
       Megatron!EndEpoch, Proved!EndEpoch, Megatron!SaveState, Proved!SaveState,
       Megatron!RestartJob, Proved!RestartJob,
       Megatron!cacheVars, Proved!cacheVars, Megatron!Ranks, Proved!Ranks,
       Megatron!Files, Proved!Files, Megatron!GlobalBatch, Proved!GlobalBatch,
       Megatron!Usable, Proved!Usable, Megatron!CachingAllowed, Proved!CachingAllowed,
       Megatron!Store, Proved!Store, Megatron!CacheHit, Proved!CacheHit,
       Megatron!Slice, Proved!Slice, Megatron!GlobalBatches, Proved!GlobalBatches,
       Megatron!Min, Proved!Min

LEMMA SameProperties ==
  /\ Megatron!TypeOK <=> Proved!TypeOK
  /\ Megatron!SamplesOnce <=> Proved!SamplesOnce
  /\ Megatron!FailsOnlyAfterTear <=> Proved!FailsOnlyAfterTear
<1>1. \A S : Megatron!Cardinality(S) = Proved!Cardinality(S)
  BY DEF Megatron!Cardinality, Proved!Cardinality
<1>2. Megatron!TypeOK <=> Proved!TypeOK
  BY DEF Megatron!TypeOK, Proved!TypeOK, Megatron!Ranks, Proved!Ranks,
         Megatron!Files, Proved!Files, Megatron!FileStates, Proved!FileStates,
         Megatron!GlobalBatch, Proved!GlobalBatch, Megatron!Usable, Proved!Usable
<1>3. Megatron!SamplesOnce <=> Proved!SamplesOnce
  BY <1>1 DEF Megatron!SamplesOnce, Proved!SamplesOnce, Megatron!Ranks, Proved!Ranks,
         Megatron!GlobalBatch, Proved!GlobalBatch, Megatron!Usable, Proved!Usable,
         Megatron!EpochOf, Proved!EpochOf, Megatron!StepsPerEpoch, Proved!StepsPerEpoch
<1>4. Megatron!FailsOnlyAfterTear <=> Proved!FailsOnlyAfterTear
  BY DEF Megatron!FailsOnlyAfterTear, Proved!FailsOnlyAfterTear, Megatron!Ranks, Proved!Ranks,
         Megatron!Files, Proved!Files, Megatron!Store, Proved!Store
<1> QED
  BY <1>2, <1>3, <1>4

LEMMA SameBatches ==
  \A h : Megatron!GlobalBatches(h) = Proved!GlobalBatches(h)
BY DEF Megatron!GlobalBatches, Proved!GlobalBatches, Megatron!Min, Proved!Min,
       Megatron!Ranks, Proved!Ranks

-------------------------------------------------------------------------------
(* The invariant of both loaders.                                          *)

LoadersInv == RowsInv /\ Proved!LoaderInv

LEMMA LoadersInit ==
  ASSUME LoaderInit
  PROVE  LoadersInv /\ Stream!Init
<1>1. Init /\ Proved!Init /\ Proved!SizesOK
  BY SameLoader, LoaderAssumption DEF LoaderInit
<1>2. RowsInv /\ Resumption!Init
  BY <1>1, RowsInvInit
<1>3. Proved!LoaderInv /\ Proved!Stream!Init
  BY <1>1, Proved!LoaderInvInit, Proved!StreamInit
<1>4. /\ delivered = << >> /\ seen = << >> /\ saved.rows = 0
      /\ Megatron!GlobalBatches(handed) = << >> /\ history = << >> /\ checkpoint.steps = 0
  BY <1>2, <1>3, SameBatches DEF Resumption!Init, Proved!Stream!Init
<1> QED
  BY <1>2, <1>3, <1>4 DEF LoadersInv, Stream!Init

LEMMA LoadersStep ==
  ASSUME LoadersInv, [LoaderNext]_allVars
  PROVE  LoadersInv' /\ [Stream!Next]_(Stream!vars)
<1>1. Proved!SizesOK /\ RowsInv /\ Proved!LoaderInv
  BY SameLoader, LoaderAssumption DEF LoadersInv
<1>2. CASE loader = "grain" /\ Next /\ UNCHANGED <<loader, megatronVars>>
  <2>1. RowsInv' /\ [Resumption!Next]_(Resumption!vars)
    BY <1>1, <1>2, RowsInvStep
  <2>2. Proved!LoaderInv'
    <3>1. UNCHANGED Proved!vars
      BY <1>2 DEF megatronVars, Proved!vars, Proved!cacheVars
    <3> QED
      BY <1>1, <3>1, Proved!LoaderInvStep
  <2>3. [Stream!Next]_(Stream!vars)
    BY <1>2, <2>1
    DEF Stream!Next, Stream!vars, Stream!Deliver, Stream!Save, Stream!Restart,
        Resumption!Next, Resumption!vars, Resumption!Deliver, Resumption!Save,
        Resumption!Restart
  <2> QED
    BY <2>1, <2>2, <2>3 DEF LoadersInv
<1>3. CASE loader = "megatron" /\ Megatron!Next /\ UNCHANGED <<loader, vars>>
  <2>1. Proved!LoaderInv' /\ [Proved!Stream!Next]_(Proved!Stream!vars)
    BY <1>1, <1>3, SameLoader, Proved!LoaderInvStep
  <2>2. RowsInv'
    BY <1>1, <1>3, RowsInvStep
  <2>3. [Stream!Next]_(Stream!vars)
    BY <1>3, <2>1, SameBatches
    DEF Stream!Next, Stream!vars, Stream!Deliver, Stream!Save, Stream!Restart,
        Proved!Stream!Next, Proved!Stream!vars, Proved!Stream!Deliver,
        Proved!Stream!Save, Proved!Stream!Restart
  <2> QED
    BY <2>1, <2>2, <2>3 DEF LoadersInv
<1>4. CASE UNCHANGED allVars
  <2>1. RowsInv'
    BY <1>1, <1>4, RowsInvStep DEF allVars
  <2>2. Proved!LoaderInv'
    <3>1. UNCHANGED Proved!vars
      BY <1>4 DEF allVars, megatronVars, Proved!vars, Proved!cacheVars
    <3> QED
      BY <1>1, <3>1, Proved!LoaderInvStep
  <2>3. UNCHANGED (Stream!vars)
    BY <1>4 DEF allVars, vars, megatronVars, Stream!vars, Megatron!GlobalBatches
  <2> QED
    BY <2>1, <2>2, <2>3 DEF LoadersInv
<1> QED
  BY <1>2, <1>3, <1>4 DEF LoaderNext

LEMMA LoadersInvariant == LoaderSpec => []LoadersInv
<1>1. LoaderInit => LoadersInv
  BY LoadersInit
<1>2. LoadersInv /\ [LoaderNext]_allVars => LoadersInv'
  BY LoadersStep
<1> QED
  BY <1>1, <1>2, PTL DEF LoaderSpec

-------------------------------------------------------------------------------
(* The theorems.                                                           *)

(* Both loaders keep their types, at any number of restarts.               *)
THEOREM LoadersTypeCorrect == LoaderSpec => []LoaderTypeOK
<1>1. LoadersInv => LoaderTypeOK
  BY SameLoader, SameProperties, LoaderAssumption, Proved!LoaderInvImplies
  DEF LoadersInv, RowsInv, IInv, LoaderTypeOK
<1> QED
  BY <1>1, LoadersInvariant, PTL

(* With the Grain loader a rank is given the tokens of its documents in    *)
(* order, none lost and none twice, over every restart.                    *)
THEOREM LoadersKeepOrder == LoaderSpec => []TokensInOrder
<1>1. LoadersInv => TokensInOrder
  BY OrderOfChain DEF LoadersInv, RowsInv
<1> QED
  BY <1>1, LoadersInvariant, PTL

(* Every row it packs keeps both limits and is full, but for the last one. *)
THEOREM LoadersKeepLimits == LoaderSpec => []RowsFitLimits
<1>1. LoadersInv => RowsFitLimits
  BY LimitsOfFits DEF LoadersInv, RowsInv
<1> QED
  BY <1>1, LoadersInvariant, PTL

(* The Megatron loader gives each sample of an epoch to one rank in one    *)
(* step.                                                                   *)
THEOREM LoadersSampleOnce == LoaderSpec => []SamplesOnce
<1>1. LoadersInv => SamplesOnce
  BY SameLoader, SameProperties, LoaderAssumption, Proved!LoaderInvImplies
  DEF LoadersInv, SamplesOnce
<1> QED
  BY <1>1, LoadersInvariant, PTL

(* It fails to load its indices only when an earlier job died while it     *)
(* wrote the last of them.                                                 *)
THEOREM LoadersFailOnTears == LoaderSpec => []FailsOnlyAfterTear
<1>1. LoadersInv => FailsOnlyAfterTear
  BY SameLoader, SameProperties, LoaderAssumption, Proved!LoaderInvImplies
  DEF LoadersInv, FailsOnlyAfterTear
<1> QED
  BY <1>1, LoadersInvariant, PTL

(* Whichever loader is configured, a restarted trainer is given the items  *)
(* after its checkpoint again, the same ones in the same order: the        *)
(* dataloaders implement ResumableStream.                                  *)
THEOREM LoadersResume == LoaderSpec => Resumes
<1>1. LoaderInit => Stream!Init
  BY LoadersInit
<1>2. LoadersInv /\ [LoaderNext]_allVars => [Stream!Next]_(Stream!vars)
  BY LoadersStep
<1> QED
  BY <1>1, <1>2, LoadersInvariant, PTL DEF LoaderSpec, Resumes, Stream!Spec
===============================================================================
