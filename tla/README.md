# Formal models of torchtitan

TLA+ models of the concurrent and stateful parts of torchtitan, checked with
TLC on small instances and proved with TLAPS for every instance.  Line numbers
refer to the sources at the modelled commit; `PROJECT.json` maps each
definition to the lines it stands for.

## 1. Inventory

torchtitan is a training framework for large models.  Most of its lines are
tensor programs: model definitions, sharding, graph passes and kernels.  Their
correctness is numerical.  The parts whose correctness is about *ordering,
accounting and failure* are few, and they carry the program's control logic.

| Component | State it keeps | Operations | Hard behaviour | What makes it correct |
|---|---|---|---|---|
| `RolloutGroupWorkBuffer` (`experiments/rl/components/work_buffer.py`) | slot counter, ordered dict group id -> WAITING/INFLIGHT/FINALIZED, closed flag | wait_for_slot, add_work, claim_next, finalize_work, take_finalized, release_active_groups, close | five kinds of tasks wait on one condition; slots outlive the dict entry | slots = groups in the pipeline; windowed FIFO; its RuntimeErrors unreachable |
| `Controller.run` and its loops (`controller.py`) | the loops' positions, the queue of one batch, the policy version | data input, rollout workers, batcher, trainer, shutdown | every loop waits for another; a stage crashes; shutdown | bounded staleness, progress, a completed or reported end |
| `WeightSyncManager` (`components/weight_sync.py`) | push task, pull task | start_async_push_pull, wait_prev_push, wait_prev_pull, wait_inflight_push_pull | overlap with the next step; failures seen at the next await | push reads stable weights, pull a stable store, version names weights |
| `Batcher`, `TrainingSampleBuilder` | partial groups, counters | add_training_samples | untrainable groups | a batch has exactly P trainable groups; packing loses no sample |
| `VLLMGenerator`, `RequestDispatcher` (`actors/generator.py`) | inbox, futures, pull and close requests, per-rank engine and version | generate, pull_model_state_dict, close, engine loop, drain task | requests, pulls and close race; decisions broadcast to ranks; completions fan in | each call answered once, with honest version bounds |
| `InterGeneratorRouter`, strategies (`routing/`) | load per generator, SERVING/SYNCING, session map | generate, pull, close | drain before pull; sessions migrate | no call lost, drained when pulled, sticky while serving |
| `Rollouter`, `RolloutWorker` | worker pool | do_group_rollout | a sibling fails or a worker dies | one result per group |
| `PolicyTrainer` | model, optimizer, version | forward_backward, optim_step, push, save | overlap of staging and optimizer | one step per version |
| `CheckpointManager` (`components/checkpointer/`) | staging and save futures, purge queue, directories | save, load, maybe_wait_for_staging, purge | asynchronous save racing the optimizer, the purge thread and a crash | what is loaded is a complete, consistent step |
| `Trainer` (`trainer.py`) | step, dataloader, optimizers, scheduler | train_step, train | a step of several microbatches; exhausted data; resume | data and step advance together |
| Grain dataloader (`components/data/{dataset,sources,packing,loader}.py`) | source cursor, remainder of a document, prefetch queue | next, get_state, set_state | resume in the middle of an epoch, a document, a prefetched row | every token once and in order, across ranks, epochs and restarts; rows keep their limits |
| Megatron dataloader (`components/data/megatron`) | index files, consumed samples, workers | build, iterate, state_dict | ranks share files that one of them writes; a crash while writing; prefetched is not consumed | no rank loads a partial index of a live writer; every sample once per epoch |
| LR scheduler, `ParallelDims`, pipeline split | none or a counter | pure functions | integer boundaries | total, monotone, disjoint and covering |
| torchft, flex_shard, graph_trainer, FSDP, kernels, models, overrides, quantization | tensors, graphs | - | numerical or library protocols | out of scope |

How they interact.  `Controller.run` starts four kinds of asyncio tasks.  The
data-input loop charges a slot of the buffer and adds a group; a rollout worker
claims it, calls the router for every turn, which calls one generator's rank 0,
and finalizes it; the batcher loop takes finalized groups in a window, packs
them in a thread, and puts a batch into a queue of size one; the trainer loop
consumes the batch, runs forward/backward and the optimizer on the
`PolicyTrainer`, and starts a push (trainer -> store) followed by a pull
(store -> generators) in the background; the end of the pull releases the
batch's slots.  The supervised trainer (`trainer.py`) instead iterates over the
data pipeline and hands its state to the `CheckpointManager`.

The `hazards` of `PROJECT.json` list what is hard to test, each at its line,
with the property that covers it, or a note that says why none does.

## 2. Plan

In this order, the most important behaviour first:

1. `WorkBuffer` + `AsyncRL` - the asynchronous RL pipeline (**done**, with
   proofs of all its safety properties).
2. `GenerationService` + `Generator` - the continuous-batching engine loop
   and its request futures; abstract specification: every request is answered
   once, with honest versions (**done**, with proofs of its safety and of the
   refinement).
3. `TrainingSamples`, `GeneratorRouter` - routing, drain and sessions over
   several generators, and the versions of the samples that come out of it;
   implements `GenerationService` (**done**, with proofs of its safety and of the
   refinement).
4. `RecoverableTraining`, `Checkpointer`, `TrainLoop` - asynchronous save with
   staging, retention, the purge thread, crashes and restarts under the train
   loop; abstract specification: durable progress (**done**, with proofs of its
   safety and of the refinement).
5. `ResumableStream`, `DataShard`, `PackedStream`, `MegatronLoader`,
   `DataLoaders` - sharding, packing, prefetching and resume of the training
   data (**done**, with proofs of its safety and of the refinement).
6. A job that goes back with an explicit `load_step`; `PolicyTrainer`'s loop,
   which does not wait for the staging (hazards without a property).
7. Mixes of datasets and blended indices; first-fit packing; the RL batcher's
   microbatch rows; the LR schedule and the pipeline split: pure algorithms
   against a reference definition.

Theorems, done: every invariant and every action property that a passing run
checks, and the four refinements (2, 3, 4 and 5), for every value of the
constants.  Model-checked only: the five liveness properties
(`TrainingCompletes`, `RunEnds`, `ServedUnlessCrashed`, `JobCompletes`,
`EveryCallEnds`), because TLAPS proves nothing about fairness and `ENABLED`.
Left: 6 and 7, and what can be proved of them.

Of the hypotheses of the theorems, most are the assumptions of the modules,
which TLC evaluates in every run.  Three are named and explained where they are
used: `BroadcastIsBarrier` (section 5), `ResumesLatest` (section 6) and
`SizesOK` (section 8).

## 3. `WorkBuffer`, `AsyncRL`, `MCAsyncRL`

`WorkBuffer` translates the operations of `RolloutGroupWorkBuffer`.  Each is
one `async with self._condition` block, which asyncio runs without
interleaving; a task blocked in `wait_for` is an operator that is not enabled.
`AsyncRL` extends it with the tasks of `Controller.run`:

| Code | Model |
|---|---|
| `_data_input_loop` | `dataPc`, `DataWaitForSlot`, `DataAddWork`, `DataCrash` |
| `_rollout_loop` (B workers) | `RolloutClaim`, `RolloutFinalize` |
| `_batcher_loop`, `Batcher.add_training_samples` | `batcherPc`, `BatcherTake`, `BatcherPackTrainable`, `BatcherPackUntrainable`, `BatcherRelease`, `BatcherPut`, `BatcherCrash` |
| `_trainer_loop` | `trainerPc`, `Trainer...` |
| `WeightSyncManager` | `pushTask`, `pullTask`, `PushModelStateDict`, `PullAwaitPush`, `PullModelStateDict`, `PullRelease` |
| `run` | `RunShutdown`, `Terminated` |

An action is what a task does between two suspension points.  Abstractions:

* A group is its id.  Whether it has a trainable sample is chosen when the
  batcher packs it; a rollout that failed is an empty group, hence untrainable.
* Weights are the version they were produced by, so "the store holds the
  weights of step n" is `storeVersion = n`.
* The router's pull returns once every generator has pulled, so the generators
  are one generator here.  `born[g]` is the version its opening turn may be
  sampled with: the generators' version when it is admitted, overwritten when
  a worker claims it.
* `close()` and the `cancel()` calls of `run` follow one another without a
  suspension point, and no task holds the condition's lock across one.  So no
  loop ever observes a closed buffer, and the paths that return `None` after
  `close()` are never taken inside `run()`; `RunShutdown` is one action.  The
  push and pull tasks are not cancelled and go on after it.
* A raise inside the buffer (`add_work`, `release_active_groups`) is modelled
  (the ELSE branches) and proved unreachable.
* Bounds: `NumTrainingSteps` steps, `MaxUntrainableGroups` untrainable groups
  in a behaviour.  `Faults` says which failures may happen: the dataset, the
  packing, the trainer's calls, a non-finite loss, the push, the pull.

### Runs

| Run | Instance | Question |
|---|---|---|
| `asyncrl_window` | P=2, S=1, B=4, W=3, 4 steps, 1 untrainable group, no fault, fair | off-policy bound, windowed FIFO, lag, stable push and pull under every interleaving; all steps are trained and the generators end with the last weights |
| `asyncrl_faults` | S=1, resumed from step 1, all faults, fair | slots and weights stay right whatever fails; `run` always ends; deadlock checked |
| `asyncrl_lost_sync` | S=0, the push may fail, fair | violation: `run` neither completes nor raises (see Findings) |

P=2 is the least that separates a group from a batch; W=3 with B=4 the least
with W neither 1, P nor B, so that the window, the budget and the rounding in
`(B + W - 2) // P` all matter; four steps let a group be as old as the bound
and one older, which the mutant of `InWindow` shows to be reached.

Fairness: the event loop resumes every task whose awaited condition holds, and
every thread or remote call returns or raises, so each task is weakly fair.
`Terminated` is the only step allowed after the end; any other stop would be
reported as a deadlock.

### Proofs

All safety properties of the two passing safety runs are theorems, for every
P, S, W, number of steps and set of faults, from `BufferAssumption` and
`AsyncAssumption` (what the configuration's validation and `run` ensure).

* `AsyncRLProofs`: `SlotInv` adds to the type invariant that every group is in
  exactly one place, that the places hold what the positions of the loops say,
  and that the counter is the sum of the places.  `TypeCorrect`,
  `SlotsAccounted`, `BufferCallsSucceed` and `WindowedFifo` follow.
* In the same module, `SyncInv` relates the trainer's position, the two tasks
  and the three versions; the generators fall one version behind per batch of
  slots held, `P * (trainer - sync) <= |training|` and
  `P * (sync - generators) <= |syncing|`.  `GeneratorsFollow`, `NamedWeights`,
  `CompletedRunInSync` and `SyncReadsStable` follow.
* `AsyncRLAgeProofs`: the bound of `max_offpolicy_steps` is a budget argument.
  While a group g lives, each version the trainer adds consumes P groups; the
  groups that can be consumed before g are those already past the window, those
  in the pipeline ahead of it, and the at most W-1 that overtake it.
  `AgeBudget` states that the debt so far plus the groups still ahead of g
  never exceeds `K = B + W - 2`, and `OffpolicyBound` divides by P.

Only model-checked: `TrainingCompletes` and `RunEnds` (liveness).

## 4. `GenerationService`, `Generator`, `MCGenerator`

`GenerationService` states what a caller of one `VLLMGenerator` may rely on:
every `generate` call is answered once, by a completion whose policy versions
lie between the last pull acknowledged before the call and the last pull
requested, or it fails.  `Generator` is the code behind it, and the run
`generator_serve` checks that it implements that promise
(`ImplementsService`; the five variables of the service are variables of the
generator, so the mapping is the identity).

| Code (`actors/generator.py` unless named) | Model |
|---|---|
| `generate`, `RequestDispatcher.submit_generation` | `Generate` |
| `pull_model_state_dict`, `submit_model_state_dict_pull` | `PullModelStateDict`, `pullCall`, `modelStateDictPullRequest` |
| `close`: set the flag, join the loop, cancel the drain task, fail the futures | `CloseRequested`, `CloseJoined`, `CloseReturns` |
| `_decide_next_action` and the broadcast | `DecideClose`, `DecidePull`, `DecideStep`, `Broadcast` |
| `IntraGeneratorRouter` | `reservations`, `reservedLoad`, `LoadAfterReserve`, `LoadAfterRelease` |
| the body of `_engine_loop` on each rank | `ApplyClose`, `ApplyPull` + `FinishPull`, `ApplyStep` + `EngineStep` |
| its `except` clause | `Crash`, `FailOutstandingFutures` |
| `_rank0_resolve_futures` | `Resolve` |
| `_rank0_drain_results` | `DrainResult`, `DrainRaises` |
| the gloo timeout of a broadcast | `BroadcastTimesOut` (external) |

A rank runs its loop's body between two points at which another task or
another rank can act: the wait for work, the broadcast, the copy of the weights
and every `engine.step()`.  Abstractions:

* A rank of the model is the first TP rank of a data-parallel replica; the
  others repeat its steps and hold no output.
* A request is a model value.  `tokens[r]` counts its tokens and `sampled[r]`
  collects the versions of the weights they were sampled with: the engine's
  scheduler picks any nonempty set of its requests to advance, and a request
  ends at `MaxTokens` or earlier (a stop token).
* `calledAt`, `sampled` and `tokens` are read by properties and by the engine
  only.  FIFO lists are sets, since no step of the loop depends on their order.
* The strategy inside a generator is left open: any rank may get any request.
* A broadcast is one slot per rank.  Rank 0 enters the next one only when every
  rank has taken the one before, as a collective does.
* Pulls come one at a time, each after the return of the one before, which is
  what `WeightSyncManager.wait_prev_pull` does.
* `BroadcastIsBarrier` names an assumption of the code: no peer acts on a
  decision before rank 0 goes on (`_engine_loop` calls it a barrier; gloo's
  broadcast only promises that a receiver has the data).  `generator_serve`
  takes it, `generator_skew` shows what rests on it.
* Bounds: `MaxPolicyVersion` pulls, one call per request, `MaxTokens` tokens.

Runs are in section 5.  Two ranks are needed for a completion to cross the
port and for a pull to land on one rank before the other; two requests for a
burst with arrivals and departures; two versions and two tokens for a request
that spans a pull; a burst of two steps for decisions that come while the
engine is still busy.  Three ranks add no kind of interaction: peers talk to
rank 0 only.

Fairness: the event loop resumes the tasks whose condition holds, engine steps
and copies return, gloo delivers or times out.  No call has to be made, no
crash has to happen.

What the loop does not promise is stated by `ServedUnlessCrashed`: a call ends
unless a rank crashes.  `EveryCallEnds` is the stronger claim of a comment, and
it fails (section 9).

## 5. Runs of the generator

| Run | Instance | Question |
|---|---|---|
| `generator_serve` | 2 ranks, 2 requests, bursts of 2, 2 tokens, 2 versions, crashes, fair | a request is in one place, bounds are honest, load is accounted for, close leaves nobody waiting, every call ends without a crash, the service is implemented |
| `generator_crashed` | 1 rank, crashes, fair | violation: a call made after the loop has crashed never ends |
| `generator_pull` | 2 ranks | violation: a pull returns while a peer still copies |
| `generator_skew` | 2 ranks, broadcast not a barrier, no crash | violation: close leaves a caller waiting |

### Proofs

`GeneratorProofs` proves every property of `generator_serve` but liveness, for
any set of requests, ranks, bursts, pulls, tokens and crashes, in two invariants.

* `PlacesInv` follows a request from the queue through the broadcast, the engine
  and the port of a rank.  That a request is in one place is not inductive by
  itself: a rank may run on while another has yet to take its decision.  The
  invariant says instead that the stages of a rank, the ranks and the queue are
  pairwise disjoint (`StagesApart`, `HoldersApart`), that in service they hold
  the registered requests and no other (`Registered`), that whatever a rank
  holds is reserved, with loads equal to the numbers of reservations
  (`Reserved`), and that an engine holds no finished request (`Unsampled`).
  Nothing limits the set of requests; that the counted sets are finite is part
  of the induction.  `TypeCorrect` and `RequestsInOnePlace` follow, barrier or not.
* `VersionsInv` follows the versions.  No rank has acted on a decision that rank 0
  has yet to act on (`OneDecision`), so whatever an engine admits is stamped.
  A rank's `Target` is the version it ends with once it has applied what it has
  received; rank 0's is never ahead of a live peer's (`PeersCatchUp`), which is
  what makes the lower stamp, taken from rank 0's version, a lower bound for
  tokens sampled on another rank.  `StampsBracket` carries both bounds through
  slice, engine and port; `PullPending` ties the outstanding pull to rank 0.
  `LoadAccounted`, `VersionsHonest`, `NobodyLeftWaiting` and `ServiceImplemented`
  follow.

The second invariant has the hypothesis `BroadcastIsBarrier`.  It is not for
convenience: `generator_skew` shows `NobodyWaitsAfterClose` violated without it.
Only model-checked: `ServedUnlessCrashed` (liveness).

## 6. `RecoverableTraining`, `Checkpointer`, `TrainLoop`, `MCTrainLoop`

`Checkpointer` is the `CheckpointManager` of `components/checkpointer/dcp.py`
over the policies of `base.py`: the folder, the save in flight, the purge
thread.  `TrainLoop` extends it by `Trainer.train`, `Trainer.close` and
`train.py`'s `main`, and by the jobs that are launched one after another on the
same folder.  `RecoverableTraining` is what they promise together.

| Model | Code |
|---|---|
| `disk[N]` | directory `step-N`: whether it exists, which marker files it has (`.metadata`, `model.safetensors.index.json`), what its data files hold |
| `states` | `self.states`: the live model, optimizer (and scheduler), dataloader and trainer |
| `snapshot`, `upload`, `saving`, `target` | the save in flight: what was copied so far, its phase, step and marker |
| `stagingFuture`, `saveFuture` | `staging_future`, `save_future` are not None |
| `purgeQueue`, `purging` | `purge_queue`, and the path `purge_thread` is removing |
| `pc`, `raised` | where `main` -> `train` -> `save` or `close` stands; an exception is passing |
| `SaveWaits`, `SavePurges`, `SaveAsync`/`SavePinned`/`SaveSync` | `_save`: wait for the save before, queue what is stale, write in the configured mode; the last step is always synchronous |
| `StageModel`, `StageOptimizer` | DCP's stager: the tensors are copied while the trainer goes on |
| `UploadBegin`, `UploadFinish`, `UploadFails` | DCP: the data files, then the marker; an I/O error |
| `PurgeTake`, `PurgeDone`, `PurgeFails` | `purge_thread`: any part of a directory may be gone before all of it is |
| `OptimStep` | `maybe_wait_for_staging`, `optimizers.step`, `lr_schedulers.step` |
| `CloseStaging`, `CloseSaving`, `ClosePurge` | `close`: the two waits and, in its `finally`, the sentinel and the join |
| `Crash` | the process is killed: only `disk` stays, as it is |

Abstractions.  A training state is four counters (updates seen by the model and
by the optimizer, batch groups handed out, step), so that a checkpoint that
mixes moments shows.  `NotSaved` stands for a key that a checkpoint lacks and
for data that is torn.  All ranks call the same collectives in the same order
and are one process.  DCP itself is external: it takes the plain state at the
call, copies tensors at once (`async`) or later (`async_with_pinned_mem`), and
publishes the marker last.  The staging itself does not fail.

| Run | Instance | Question |
|---|---|---|
| `checkpoint_resume` | interval 2, first-step checkpoint, k=2 with step 1 exempt, jobs of 5 and 6 steps in the three modes over data for 5, and one with a `load_step` that does not exist; 3 launches, 2 faults; fair | whatever dies when, a restart finds a consistent, whole checkpoint, at most two intervals behind; retention spares it; a normal exit loses no save; a job ends by itself |
| `checkpoint_finished` | `last_save_model_only`, 2 launches, no fault | violation: the checkpoint selected after a finished job cannot be loaded |

Interval 2 with 5 or 6 steps gives first-step, interval and last-step saves,
on and off the interval; k=2 is the least the configuration allows and leaves
one whole checkpoint while the next is written; three launches let a job meet
the debris of a job that met the debris of another; two faults make a second
save fail after the first.  The sixth step has no data, so that both ways out
of the loop occur.

Fairness: the trainer, the writer and the purge thread are threads whose calls
return or raise.  `JobCompletes` assumes no fault after some point, not that
faults do not happen.

`TrainLoopProofs` proves `TypeCorrect` and `SnapshotsConsistent` for every set
of jobs (also those that go back with `load_step` or end with a model-only
checkpoint), interval, `KeepLatestK`, exemption and bound, from
`CheckpointerAssumption` and `TrainLoopAssumption` (what the configuration's
`__post_init__` checks).  `ConsistentSnapshots` alone is not inductive: nothing
in it says what the copy in flight holds.  `SnapshotInv` adds that the live
counters agree at every position of the loop but between the forward pass and
the optimizer, that the copy and each directory hold, field by field, nothing
or their own step, and that while tensors are being copied the manager holds
the staging future and the live model is still of the step being saved.  Even
the types need it: the model's counter stays in range because it equals the
step's.

`LatestLoadable`, `ResumeSpared`, `LossIsBounded`, `ExitLosesNothing` and
`RecoveryImplemented` are proved from `RecoveryInv`, for every interval, mode,
`KeepLatestK`, exemption, number of jobs, launches and faults.  `LatestIsLoadable`
alone is not inductive: a deletion may take the checkpoint that a restart needs,
unless something newer is whole.  `RecoveryInv` is about the order of the saves:
the copy becomes whole before it is written (`CopyIsWhole`); the save in flight
is ahead of all that is on disk (`SaveAhead`) and somebody waits for it
(`SavesAwaited`), so there is never a second one; what is queued or being
deleted is neither the latest checkpoint nor the step being saved (`PurgeBelow`,
from the wait for the save before that `_save` makes before it purges); below a
save no regular step lacks (`NoGaps`), and of those that the loop has passed only
the last may (`OneSaveBehind`), which gives the two intervals of `BoundedLoss`
and the one of synchronous saves; a job leaves the loop with its last step saved,
its data exhausted or an exception (`LastStepSaved`, `SavedLast`).

Their hypothesis `ResumesLatest` says that every job saves its last step in full
and either has no `load_step` or one that no job writes (as the job of the run).
Both parts are needed.  A model-only last save is `checkpoint_finished`, a
violation.  A job that goes back to an older step writes into directories that
are whole (a hazard without a property).  Only model-checked: `JobCompletes`
(liveness).

## 7. `TrainingSamples`, `GeneratorRouter`, `MCGeneratorRouter`

`GeneratorRouter` is `InterGeneratorRouter` with its strategies, between the
rollouts that generate their turns one after another and the generators.  A
generator appears as `GenerationService` sees it: it stamps a call when it
admits it, and moves to a new version once inside a pull.  `TrainingSamples`
is `rollout_to_training_samples`, which turns the turns of a rollout into
samples and labels them with versions.

| Code | Model |
|---|---|
| `_GeneratorHandle`: `state`, `reserved_load`, `idle` | `state`, `reservedLoad`, `idle` |
| `_serving` | `serving`; a waiter is `blocked`, then `woken`, and runs at a later step (`Resume`) |
| `generate`, `_route`, `_reserve`, `_release` | `Generate`, `Dispatch`, `Reserve`, `EndCall` + `Release` |
| `_pull_model_state_dict`, `_pull_one`, `gather` | `PullModelStateDict`, `Drained`, `PullReturns`, `PullRaises`, `EndPull`, `GatherOf` |
| `_set_state` | `SetState` |
| the three strategies | `RoundRobinChoice`, `LeastLoadedChoice`, `Choice`, `RecordChoice`, `RememberSession` |
| the turn loop of `_run_single_rollout` | `Complete`, `Raise`, `turns` |
| `VLLMGenerator` (admission, the copy between two engine steps) | `Admit`, `Swap` |
| `rollout_to_training_samples` | `Opening`, `Packed`, `Sample` |

Abstractions.  What an actor does between two awaits is one step.  Loads are
numbers of calls (`estimated_cost` is 1).  `_last_chosen`, an ever-growing
number per handle, is kept as `chosenSince`, the number of others chosen since:
the strategy compares, it does not count.  A call woken by the event is ahead
of the next pull in the queue of the event loop, hence the guard on `woken` in
`PullModelStateDict`; without it the assertion in `_route` would fail.  Pulls
come one after another, as `wait_prev_pull` has it.  Of a turn only the bounds
of its versions and whether its prompt continues the history are kept.
`evicted`, `passedOver` and `calledAt` are history variables for properties.

| Run | Instance | Question |
|---|---|---|
| `router_sync` | 2 generators, 2 rollouts of 2 turns, 1 session kept, 1 pull; every strategy, with and without hot swap; calls and pulls fail; fair | loads, drains, wake-ups, starvation, the order of versions in a rollout, progress, the service |
| `router_versions` | 1 rollout, `LeastLoaded`, hot swap, no fault | violation: the opening turn is not the oldest |

241,768 states.  Two generators are the least between which a session can move
and of which one can serve while the other drains; two rollouts of two turns
the least that evict a session between two turns; one pull is where versions
differ.  Fairness: ready tasks run and a generator ends what it was asked for.
The run stops when all rollouts have ended, so deadlock is not checked;
`EveryCallEnds` says that nothing stops before.

`ImplementsService` shows that several generators behind the router keep the
promise of one: the calls are pairs of a rollout and a turn, and the status of
a call is computed from its rollout (`CallOf`).

`GeneratorRouterProofs` proves the five safety invariants for any number of
generators, rollouts, turns and pulls.  `RouterInv` says that a generator is
out of the candidates exactly while it drains or pulls, that the event matches
the states, and that without a failed pull every generator outside a pull holds
the version of the last one: so nothing is routed to a drained generator, and
what is routed next is at least as new as what has finished.  `LossesCounted`
bounds `passedOver` by `chosenSince`: a generator that loses a tie loses it to
one chosen longer ago, which is then behind it.  `OrderInv` carries the order of
versions through the turns of a rollout, and for a session that is pinned through
its generator.  
`ServiceImplemented` needs `ServiceInv` besides: no generator is more than one
pull behind (`VersionsNear`), and a pending call was made when no acknowledged
version was newer than any generator's (`CallIsNew`), wherever it is routed
later and however often it is blocked and woken.  Every step of the router then
maps to one call made, answered or failed, one pull, or a stutter; that a step
moves a single call is a lemma (`OneCallMoves`).  Only model-checked:
`EveryCallEnds` (liveness).

## 8. `ResumableStream`, `DataShard`, `PackedStream`, `MegatronLoader`, `DataLoaders`

`ResumableStream` is the contract of `BaseDataLoader` as a `Stateful`: one fixed
sequence of items, which a restart continues after the last checkpoint.
`PackedStream` is `GrainDataLoader` on one data-parallel rank, `MegatronLoader`
is `MegatronDataLoader` on all of them, and `DataLoaders` is the choice between
the two that the trainer's configuration makes; `Resumes` is the refinement.

| Code | Model |
|---|---|
| `_build_map_dataset`: shuffle, slice, repeat | `Order`, `DataShard`, `RowIndex`, `CursorAfter` |
| `HuggingFaceStreamingSource`, `_HuggingFaceCursorIterator` | `RowIndex`, `Rolled`, `SourceEnded` |
| `_DocumentAwareConcatThenSplitIterator.__next__` | `ReadDocument`, `ReadEnd`, `AddSegment` and `ChunkEnd`, `EmitRow` |
| `get_state`, `set_state` | `PackingState`, `Restore` |
| the prefetch thread, `__iter__`, `state_dict`, `load_state_dict` | `queue`, `TakeRow`, `Save`, `Restart` |
| `_build_generic_dataset`: who writes, the barrier | `CachingAllowed`, `FindCache`, `Barrier` |
| `_build_document_sample_shuffle_indices`: look, write, load | `CacheHit`, `OpenFile`, `CloseFile`, `LoadIndices` |
| `MegatronBatchSampler`, the `DataLoader`'s workers | `Slice`, `Fetch` |
| `_batches`, `__iter__`, `state_dict`, `load_state_dict` | `HandOver`, `EndEpoch`, `StartIterating`, `SaveState`, `RestartJob` |

Abstractions.  A document is its length and the positions where its parts
begin; tokens are numbered, so a row is a list of segments and "no token is lost"
is a relation between the end of one segment and the beginning of the next.
Filters and processors are applied to the documents beforehand.  The cursor of
an indexed dataset and of a stream differ in when they roll over, and both are
kept.  A stream gives a rank every world-th row (the library may give it whole
files instead).  A batch is one row.  Prefetch and resume inside Grain are
external: a queued row carries the state after it, and `get_state` gives the
state of the last row taken.  Every rank has a row, which the code checks of an
indexed dataset and trusts of a stream.  In `MegatronLoader` a rank is a
data-parallel rank, samples are numbered in the order of the shuffle index, a
file is absent, torn or whole, and the indices are loaded when they are mapped:
`np.load` raises on a file that is shorter than its header says.  The
collectives of a step keep the ranks within one batch of each other.

| Run | Instance | Question |
|---|---|---|
| `data_resume` | rows of 4 tokens and 2 documents, context 3, 4 documents in 2 orders, all configurations of 1 or 2 ranks, 2 rows prefetched, 6 taken; 3 Megatron ranks on 2 nodes, 13 samples, batches of 2, 4 steps; 2 restarts | order of tokens, limits of rows, each sample once, failing loads, resume |

109,677 states.  The documents are a joined one with an inner start, an empty
one, one longer than a row, and a short one, so that rows end by each of the
three limits, a document spans rows and a checkpoint falls inside it; six
rows pass the end of the epoch on every rank.  13 samples give two whole global
batches of six and one sample that is dropped; four steps are two epochs; two nodes
of two and one ranks give stores with and without a reader.  Two restarts let a
restored state be saved and restored again, and a cache be torn, found and
loaded.  No liveness: nobody has to take a row, the bounds end the run, and
a rank whose load failed stops, so deadlock is not checked.

`PackedStreamProofs` proves that the slices of the ranks partition the dataset and
differ by at most one row, and `TypeCorrect`, `OrderKept` and `LimitsKept` of
`PackedStream` for any documents, orders, configurations and limits, from
`PackedStreamAssumption`.  `TokensInOrder` alone is not inductive:
the rows say nothing of the states that are queued and saved.  The argument is
that a state of the iterator stands for a point of the stream, the token that
comes next (`Point`).  `StatesOK` says which states are kept: the remainder's
document follows the parent's cursor, and its offset lies inside it.  `get_state`
and `set_state` keep the point (`Restoring`), reading a document moves it over
empty documents only (`Reading`, `DocumentEnds`), and a cut segment begins at
the point before it and ends at the point after it (`Cutting`).  So delivered
rows, queued rows and the row in the making are one chain of points (`Chain`), and
a restart goes back to a point on it.  `Fits` adds that a row that is not full
is followed by nothing.

`RowsRepeat` is the refinement for this loader.  A chain of points does not yet
say that a restart delivers the *same* rows: the limits could cut them
elsewhere.  But the next token is one token (`NextToken`), a segment goes on as
far as the limits and its document let it (`SameSegment`), and a row ends where
they say (`RowEnds`), so one row follows a point (`SameRow`).  `SeenInv` keeps
the longest history as such a sequence with `delivered` as a prefix.

`MegatronLoaderProofs` proves the same for the Megatron loader, for any number
of ranks and nodes, of samples and of batches ahead that satisfy `SizesOK`: batches
are not empty and the data holds one global batch, else the constructor raises.
`CacheInv` gives each store one rank that writes it, puts the writer's position
in step with the files, and lets no reader load before its writer is past the
barrier; hence a load fails only on what a killed job has left.  `BatchInv`
makes every batch a function of its number alone, which is also what the restored
sampler computes from `consumed_samples`; `HistoryInv` says so of the history.
An item of `ResumableStream` is what all ranks have been handed of a step: the
last of them to take its batch adds one, the others are stutters
(`StreamImplemented`).

`DataLoadersProofs` puts the two together.  Only the configured loader moves, so
both invariants always hold, and `LoadersTypeCorrect`, `LoadersKeepOrder`,
`LoadersKeepLimits`, `LoadersSampleOnce`, `LoadersFailOnTears` and `LoadersResume`
are theorems of the specification that `data_resume` checks.  Nothing of this
section is model-checked only.

What was met while modelling and is not a property: rank 0 that raises before
the barrier leaves the other ranks waiting in it; a rank whose documents are all
empty searches for ever when the source repeats; a shard of a stream without
rows ends although it repeats.

## 9. Findings

* `asyncrl_lost_sync`: `run()`'s docstring promises to run "until training
  completes or a stage crashes" (`controller.py:764`).  The push and pull tasks
  are not among the tasks it waits for.  With `target_offpolicy_steps=0` all
  slots belong to the batch being synced; if its push fails the slots are never
  released, no batch forms, and the trainer waits for one without reaching the
  await that would re-raise.

* `generator_crashed`: `_engine_loop`'s except clause promises that callers do
  not hang (`generator.py:1131`), and fails the futures outstanding at the
  crash.  `_engine_loop_task` stays set, so later calls pass the check that the
  loop is running and register futures nobody resolves before `close`.
* `generator_pull`: `pull_model_state_dict` "blocks until the engine loop has
  finished pulling" (`generator.py:1299`), but rank 0 resolves the future after
  its own copy.  A peer may still read the store when the router and the
  `WeightSyncManager` go on to the next push.
* `generator_skew`: rank 0 stamps the futures after awaiting the broadcast.  If
  a peer answers before it has resumed, the drain task pops a future without a
  version and dies; `close` does not know that future any more, and its caller
  waits for ever, against `generator.py:1392`.
* `checkpoint_finished`: `_find_load_step` returns "the highest step in
  `folder` that can actually be loaded" (`base.py:465`).  The final model-only
  checkpoint has `.metadata` too and is selected when the finished job is
  started again, with the same or with more steps; `load` asks for all states
  and raises.

* `router_versions`: "`min_policy_version` = the oldest (opening) turn's version"
  (`training_sample_builder.py:184`).  During a weight sync with hot swap, the
  default, the generators change one by one, and `LeastLoaded` may send the second
  turn to one that is still behind.  `OldestTurnOpens` states when the
  docstring is right.

Hazards without a property, with the reasons in `PROJECT.json`: the gloo
timeout on an idle generator, overlapping pulls, a job that goes back with
`load_step`, the RL trainer's optimizer step during a staging, updates lost
when the data runs out, an empty completion that ends the batcher.

## 10. Not modelled

See `components` in `PROJECT.json`: tensor programs, graph passes, kernels and
configuration parsing have no interleaving or retained protocol state; the
torchft quorum lives in its library.  Within the modelled components: metrics,
logging, validation before and after training, the contents of samples.
