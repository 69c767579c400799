------------------------------- MODULE Generator -------------------------------
(***************************************************************************)
(* VLLMGenerator and its RequestDispatcher: one engine loop per rank, rank *)
(* 0 deciding and broadcasting what all of them do next, and the endpoints *)
(* generate, pull_model_state_dict and close, which run concurrently with  *)
(* the loop on rank 0's event loop.                                        *)
(*                                                                         *)
(* A rank is the tp_rank 0 of a data-parallel replica: the other TP ranks  *)
(* repeat its steps in lockstep and hold no output.  A request is a model  *)
(* value; of its tokens the model keeps their number and the versions of   *)
(* the weights they were sampled with.  Sets stand for the FIFO lists of   *)
(* requests, whose order only the engine's scheduler sees.                 *)
(***************************************************************************)
EXTENDS Integers, FiniteSets

CONSTANTS
  Requests,
  DpDegree,                         \* data-parallel ranks 0 .. DpDegree - 1
  MaxEngineStepsBetweenDecisions,   \* length of a burst of engine steps
  MaxTokens,                        \* SamplingConfig.max_tokens
  MaxPolicyVersion,                 \* bound: pulls in a behaviour
  BroadcastIsBarrier,               \* no rank acts on a decision before rank 0
  EngineMayCrash

ASSUME GeneratorAssumption ==
  /\ DpDegree \in Nat \ {0}
  /\ MaxEngineStepsBetweenDecisions \in Nat \ {0}
  /\ MaxTokens \in Nat \ {0}
  /\ MaxPolicyVersion \in Nat
  /\ BroadcastIsBarrier \in BOOLEAN
  /\ EngineMayCrash \in BOOLEAN

Ranks == 0 .. DpDegree - 1
Versions == 0 .. MaxPolicyVersion
NoVersion == -1
Unstamped == -1

VARIABLES
  call, completion, calledAt,   \* the generate calls (calledAt is a history)
  pullCall, pullVersion,        \* the last pull_model_state_dict call
  closePc,                      \* the close endpoint on rank 0
  queuedGenerationRequests,
  modelStateDictPullRequest,    \* version or NoVersion
  closeRequest,
  generationFutures,            \* requests whose future is registered
  minPolicyVersion,             \* the version stamped on the future
  reservations, reservedLoad,   \* IntraGeneratorRouter
  loopPc,                       \* _engine_loop of every rank
  inbox,                        \* the decision on its way to every rank
  applying,                     \* version that a rank is pulling
  policyVersion,                \* of every rank
  engine,                       \* unfinished requests in every rank's engine
  stepsLeft,                    \* of the burst
  sampled,                      \* request -> versions its tokens come from
  tokens,                       \* request -> number of tokens
  resultPort,                   \* rank -> completions on their way to rank 0
  drainTask                     \* _rank0_drain_results

callVars   == <<call, completion, calledAt>>
pullVars   == <<pullCall, pullVersion, modelStateDictPullRequest>>
closeVars  == <<closePc, closeRequest>>
futureVars == <<generationFutures, minPolicyVersion, reservations,
                reservedLoad>>
engineVars == <<engine, stepsLeft, sampled, tokens>>
vars == <<callVars, pullVars, closeVars, queuedGenerationRequests, futureVars,
          loopPc, inbox, applying, policyVersion, engineVars, resultPort,
          drainTask>>

NoCompletion == [min |-> -1, max |-> -1]

Decision(action, requests, version) ==
  [action |-> action, requests |-> requests, version |-> version]

NoRequests == [d \in Ranks |-> {}]
NoDecision == Decision("none", NoRequests, NoVersion)

(* After start_engine_loop has returned on every rank.                     *)
Init ==
  /\ call = [r \in Requests |-> "idle"]
  /\ completion = [r \in Requests |-> NoCompletion]
  /\ calledAt = [r \in Requests |-> 0]
  /\ pullCall = "returned" /\ pullVersion = 0
  /\ closePc = "open" /\ closeRequest = FALSE
  /\ queuedGenerationRequests = {}
  /\ modelStateDictPullRequest = NoVersion
  /\ generationFutures = {}
  /\ minPolicyVersion = [r \in Requests |-> Unstamped]
  /\ reservations = [r \in {} |-> 0]
  /\ reservedLoad = [d \in Ranks |-> 0]
  /\ loopPc = [d \in Ranks |-> IF d = 0 THEN "decide" ELSE "receive"]
  /\ inbox = [d \in Ranks |-> NoDecision]
  /\ applying = [d \in Ranks |-> NoVersion]
  /\ policyVersion = [d \in Ranks |-> 0]
  /\ engine = NoRequests
  /\ stepsLeft = [d \in Ranks |-> 0]
  /\ sampled = [r \in Requests |-> {}]
  /\ tokens = [r \in Requests |-> 0]
  /\ resultPort = [d \in Ranks |-> {}]
  /\ drainTask = "running"

-------------------------------------------------------------------------------
(* The endpoints.  close sets _engine_loop_task to None once it has joined *)
(* the loop; from then on the endpoints raise.                             *)
EngineLoopStarted == closePc \in {"open", "joining"}

Acknowledged ==
  IF pullCall = "returned" THEN pullVersion ELSE pullVersion - 1

Generate(r) ==
  /\ call[r] = "idle"
  /\ IF EngineLoopStarted
     THEN /\ call' = [call EXCEPT ![r] = "waiting"]
          /\ calledAt' = [calledAt EXCEPT ![r] = Acknowledged]
          /\ generationFutures' = generationFutures \cup {r}
          /\ queuedGenerationRequests' = queuedGenerationRequests \cup {r}
     ELSE /\ call' = [call EXCEPT ![r] = "raised"]
          /\ UNCHANGED <<calledAt, generationFutures,
                         queuedGenerationRequests>>
  /\ UNCHANGED <<completion, pullVars, closeVars, minPolicyVersion,
                 reservations, reservedLoad, loopPc, inbox, applying,
                 policyVersion, engineVars, resultPort, drainTask>>

(* The router pulls one version after another, each once the pull before   *)
(* it has returned (WeightSyncManager.wait_prev_pull).                     *)
PullModelStateDict ==
  /\ EngineLoopStarted
  /\ pullCall = "returned"
  /\ pullVersion < MaxPolicyVersion
  /\ pullVersion' = pullVersion + 1
  /\ pullCall' = "waiting"
  /\ modelStateDictPullRequest' = pullVersion'
  /\ UNCHANGED <<callVars, closeVars, queuedGenerationRequests, futureVars,
                 loopPc, inbox, applying, policyVersion, engineVars,
                 resultPort, drainTask>>

(* Mutant: the pull's future is forgotten.                                 *)
PullCallForgotten == pullCall

PullCallFailed == IF pullCall = "waiting" THEN "raised" ELSE pullCall

(* _fail_outstanding_futures.                                              *)
FailOutstandingFutures ==
  /\ call' = [r \in Requests |->
                IF r \in generationFutures THEN "raised" ELSE call[r]]
  /\ generationFutures' = {}
  /\ pullCall' = PullCallFailed
  /\ modelStateDictPullRequest' =
       IF pullCall = "waiting" THEN NoVersion ELSE modelStateDictPullRequest
  /\ UNCHANGED <<completion, calledAt, pullVersion, minPolicyVersion,
                 reservations, reservedLoad>>

(* close: wake the loop, join it, stop the drain task, fail what is left.  *)
CloseRequested ==
  /\ closePc = "open"
  /\ closePc' = "joining"
  /\ closeRequest' = TRUE
  /\ UNCHANGED <<callVars, pullVars, queuedGenerationRequests, futureVars,
                 loopPc, inbox, applying, policyVersion, engineVars,
                 resultPort, drainTask>>

CloseJoined ==
  /\ closePc = "joining"
  /\ loopPc[0] \in {"closed", "crashed"}
  /\ closePc' = "draining"
  /\ drainTask' = "cancelled"
  /\ UNCHANGED <<callVars, pullVars, closeRequest, queuedGenerationRequests,
                 futureVars, loopPc, inbox, applying, policyVersion,
                 engineVars, resultPort>>

CloseReturns ==
  /\ closePc = "draining"
  /\ FailOutstandingFutures
  /\ closePc' = "closed"
  /\ UNCHANGED <<closeRequest, queuedGenerationRequests, loopPc, inbox,
                 applying, policyVersion, engineVars, resultPort, drainTask>>

-------------------------------------------------------------------------------
(* Rank 0 decides: CLOSE before PULL_MODEL_STATE_DICT before STEP.  The    *)
(* broadcast ends when every rank has entered it, so a rank has at most    *)
(* one decision on its way to it.                                          *)
Broadcast(decision) ==
  /\ loopPc[0] = "decide"
  /\ inbox = [d \in Ranks |-> NoDecision]
  /\ inbox' = [d \in Ranks |-> decision]
  /\ loopPc' = [loopPc EXCEPT ![0] = "receive"]

DecideClose ==
  /\ closeRequest
  /\ Broadcast(Decision("CLOSE", NoRequests, NoVersion))
  /\ UNCHANGED <<callVars, pullVars, closeVars, queuedGenerationRequests,
                 futureVars, applying, policyVersion, engineVars, resultPort,
                 drainTask>>

DecidePull ==
  /\ ~closeRequest
  /\ modelStateDictPullRequest # NoVersion
  /\ Broadcast(Decision("PULL", NoRequests, modelStateDictPullRequest))
  /\ UNCHANGED <<callVars, pullVars, closeVars, queuedGenerationRequests,
                 futureVars, applying, policyVersion, engineVars, resultPort,
                 drainTask>>

(* Mutant: in-flight requests do not keep rank 0 stepping.                 *)
StepWhenQueued == queuedGenerationRequests # {}

(* In-flight requests on any rank keep rank 0 issuing STEP.                *)
StepNeeded == queuedGenerationRequests \cup generationFutures # {}

(* Mutant: the reservations are not counted.                               *)
LoadUncounted(route) == reservedLoad

LoadAfterReserve(route) ==
  [d \in Ranks |->
     reservedLoad[d]
       + Cardinality({r \in queuedGenerationRequests : route[r] = d})]

Routed(route) ==
  [d \in Ranks |-> {r \in queuedGenerationRequests : route[r] = d}]

(* IntraGeneratorRouter.reserve for every queued request; its strategy is  *)
(* left open.  A single rank needs no router, and its reservations here    *)
(* only repeat the futures.                                                *)
DecideStep(route) ==
  /\ ~closeRequest /\ modelStateDictPullRequest = NoVersion
  /\ StepNeeded
  /\ Broadcast(Decision("STEP", Routed(route), NoVersion))
  /\ reservedLoad' = LoadAfterReserve(route)
  /\ reservations' =
       [r \in DOMAIN reservations \cup queuedGenerationRequests |->
          IF r \in queuedGenerationRequests THEN route[r]
          ELSE reservations[r]]
  /\ queuedGenerationRequests' = {}
  /\ UNCHANGED <<callVars, pullVars, closeVars, generationFutures,
                 minPolicyVersion, applying, policyVersion, engineVars,
                 resultPort, drainTask>>

-------------------------------------------------------------------------------
(* What a rank does with the decision it has received.                     *)
DecisionReached(d) ==
  /\ loopPc[d] = "receive"
  /\ inbox[d] # NoDecision
  /\ BroadcastIsBarrier /\ d # 0 => inbox[0] = NoDecision

Received(d) == inbox' = [inbox EXCEPT ![d] = NoDecision]

NextTurn(d) == IF d = 0 THEN "decide" ELSE "receive"

ApplyClose(d) ==
  /\ DecisionReached(d) /\ inbox[d].action = "CLOSE"
  /\ Received(d)
  /\ loopPc' = [loopPc EXCEPT ![d] = "closed"]
  /\ UNCHANGED <<callVars, pullVars, closeVars, queuedGenerationRequests,
                 futureVars, applying, policyVersion, engineVars, resultPort,
                 drainTask>>

ApplyPull(d) ==
  /\ DecisionReached(d) /\ inbox[d].action = "PULL"
  /\ Received(d)
  /\ loopPc' = [loopPc EXCEPT ![d] = "pulling"]
  /\ applying' = [applying EXCEPT ![d] = inbox[d].version]
  /\ UNCHANGED <<callVars, pullVars, closeVars, queuedGenerationRequests,
                 futureVars, policyVersion, engineVars, resultPort,
                 drainTask>>

RequestsOf(decision) == UNION {decision.requests[d] : d \in Ranks}

(* Mutant: every rank admits the whole decision.                           *)
WholeDecision(d) == RequestsOf(inbox[d])

LocalRequests(d) == inbox[d].requests[d]

Stamped ==
  [r \in Requests |-> IF r \in RequestsOf(inbox[0]) THEN policyVersion[0]
                      ELSE minPolicyVersion[r]]

(* Rank 0 stamps its version on the futures of all ranks' requests; every  *)
(* rank admits its own slice and starts a burst.                           *)
Admit(d) ==
  /\ Received(d)
  /\ minPolicyVersion' = IF d = 0 THEN Stamped ELSE minPolicyVersion
  /\ engine' = [engine EXCEPT ![d] = @ \cup LocalRequests(d)]
  /\ stepsLeft' = [stepsLeft EXCEPT ![d] = MaxEngineStepsBetweenDecisions]
  /\ loopPc' = [loopPc EXCEPT ![d] = IF engine'[d] = {} THEN NextTurn(d)
                                     ELSE "stepping"]
  /\ UNCHANGED <<callVars, pullVars, closeVars, queuedGenerationRequests,
                 generationFutures, reservations, reservedLoad, applying,
                 policyVersion, sampled, tokens, resultPort, drainTask>>

(* _engine_loop's except clause: only rank 0 holds futures to fail.        *)
Crash(d) ==
  /\ loopPc' = [loopPc EXCEPT ![d] = "crashed"]
  /\ IF d = 0 THEN FailOutstandingFutures
     ELSE UNCHANGED <<callVars, pullVars, futureVars>>
  /\ UNCHANGED <<closeVars, queuedGenerationRequests, inbox, applying,
                 policyVersion, engineVars, resultPort, drainTask>>

(* Stamping raises when a future is gone already.                          *)
ApplyStep(d) ==
  /\ DecisionReached(d) /\ inbox[d].action = "STEP"
  /\ IF d = 0 /\ ~(RequestsOf(inbox[0]) \subseteq generationFutures)
     THEN Crash(0)
     ELSE Admit(d)

(* Mutant: the peers do not bump their version.                            *)
VersionBumpedOnRank0Only(d) ==
  [policyVersion EXCEPT ![0] = IF d = 0 THEN applying[0] ELSE @]

VersionBumped(d) == [policyVersion EXCEPT ![d] = applying[d]]

(* _pull_model_state_dict: a rank copies the weights on its own; rank 0    *)
(* resolves the pull's future when its own copy is there.                  *)
FinishPull(d) ==
  /\ loopPc[d] = "pulling"
  /\ policyVersion' = VersionBumped(d)
  /\ applying' = [applying EXCEPT ![d] = NoVersion]
  /\ loopPc' = [loopPc EXCEPT ![d] = NextTurn(d)]
  /\ IF d = 0 /\ pullCall = "waiting"
     THEN /\ pullCall' = "returned"
          /\ modelStateDictPullRequest' = NoVersion
     ELSE UNCHANGED <<pullCall, modelStateDictPullRequest>>
  /\ UNCHANGED <<callVars, pullVersion, closeVars, queuedGenerationRequests,
                 futureVars, inbox, engineVars, resultPort, drainTask>>

(* Mutant: the placeholder minimum is kept.                                *)
PlaceholderBounds(r, version) == [min |-> version, max |-> version]

(* The true minimum replaces the placeholder of _build_completions.        *)
Bounds(r, version) == [min |-> minPolicyVersion[r], max |-> version]

(* Mutant: the load stays reserved.                                        *)
LoadKept(finished) == reservedLoad

LoadAfterRelease(finished) ==
  [d \in Ranks |->
     reservedLoad[d] - Cardinality({r \in finished : reservations[r] = d})]

(* _rank0_resolve_futures.                                                 *)
Resolve(finished, version) ==
  /\ call' = [r \in Requests |->
                IF r \in finished THEN "returned" ELSE call[r]]
  /\ completion' =
       [r \in Requests |-> IF r \in finished THEN Bounds(r, version)
                           ELSE completion[r]]
  /\ generationFutures' = generationFutures \ finished
  /\ reservations' =
       [r \in DOMAIN reservations \ finished |-> reservations[r]]
  /\ reservedLoad' = LoadAfterRelease(finished)
  /\ UNCHANGED <<calledAt, minPolicyVersion>>

(* One engine.step(): the scheduler advances some of the requests, and     *)
(* those that stop are completed: by rank 0 at once, by a peer over the    *)
(* port.                                                                   *)
EngineStep(d, advanced, finished) ==
  /\ loopPc[d] = "stepping"
  /\ advanced # {} /\ advanced \subseteq engine[d]
  /\ {r \in advanced : tokens[r] + 1 = MaxTokens} \subseteq finished
  /\ finished \subseteq advanced
  /\ tokens' = [r \in Requests |->
                  IF r \in advanced THEN tokens[r] + 1 ELSE tokens[r]]
  /\ sampled' = [r \in Requests |->
                   IF r \in advanced THEN sampled[r] \cup {policyVersion[d]}
                   ELSE sampled[r]]
  /\ engine' = [engine EXCEPT ![d] = @ \ finished]
  /\ stepsLeft' = [stepsLeft EXCEPT ![d] = @ - 1]
  /\ loopPc' = [loopPc EXCEPT ![d] =
                  IF stepsLeft[d] = 1 \/ engine'[d] = {} THEN NextTurn(d)
                  ELSE "stepping"]
  /\ IF d = 0
     THEN Resolve(finished, policyVersion[0]) /\ UNCHANGED resultPort
     ELSE /\ resultPort' =
               [resultPort EXCEPT ![d] = @ \cup
                  {[request |-> r, version |-> policyVersion[d]] :
                     r \in finished}]
          /\ UNCHANGED <<callVars, futureVars>>
  /\ UNCHANGED <<pullVars, closeVars, queuedGenerationRequests, inbox,
                 applying, policyVersion, drainTask>>

(* _rank0_drain_results, one completion at a time.                         *)
Resolvable(r) == r \in generationFutures /\ minPolicyVersion[r] # Unstamped

DrainResult(d, result) ==
  /\ drainTask = "running"
  /\ result \in resultPort[d]
  /\ Resolvable(result.request)
  /\ Resolve({result.request}, result.version)
  /\ resultPort' = [resultPort EXCEPT ![d] = @ \ {result}]
  /\ UNCHANGED <<pullVars, closeVars, queuedGenerationRequests, loopPc,
                 inbox, applying, policyVersion, engineVars, drainTask>>

(* A future that is gone, or that has no version stamped on it, raises in  *)
(* the drain task, which ends; the future has been popped by then.         *)
DrainRaises(d, result) ==
  /\ drainTask = "running"
  /\ result \in resultPort[d]
  /\ ~Resolvable(result.request)
  /\ drainTask' = "raised"
  /\ generationFutures' = generationFutures \ {result.request}
  /\ resultPort' = [resultPort EXCEPT ![d] = @ \ {result}]
  /\ UNCHANGED <<callVars, pullVars, closeVars, queuedGenerationRequests,
                 minPolicyVersion, reservations, reservedLoad, loopPc, inbox,
                 applying, policyVersion, engineVars>>

-------------------------------------------------------------------------------
(* engine.step(), add_request or the copy of the weights raises.           *)
EngineCrash(d) ==
  /\ EngineMayCrash
  /\ loopPc[d] \in {"stepping", "pulling"}
  /\ Crash(d)

(* The process group's timeout: a broadcast with a rank that has crashed.  *)
BroadcastTimesOut(d) ==
  /\ IF d = 0
     THEN /\ loopPc[0] = "decide"
          /\ \E p \in Ranks : loopPc[p] = "crashed" /\ inbox[p] # NoDecision
     ELSE /\ loopPc[d] = "receive" /\ inbox[d] = NoDecision
          /\ loopPc[0] = "crashed"
  /\ Crash(d)

(* close has returned and the peers have applied CLOSE.                    *)
Terminated ==
  /\ closePc = "closed"
  /\ \A d \in Ranks : loopPc[d] \in {"closed", "crashed"}
  /\ UNCHANGED vars

-------------------------------------------------------------------------------
DecideNextAction ==
  \/ DecideClose \/ DecidePull
  \/ \E route \in [queuedGenerationRequests -> Ranks] : DecideStep(route)

EngineSteps(d) ==
  \E advanced \in SUBSET engine[d] :
    \E finished \in SUBSET advanced : EngineStep(d, advanced, finished)

EngineLoop(d) ==
  \/ ApplyClose(d) \/ ApplyPull(d) \/ ApplyStep(d)
  \/ FinishPull(d) \/ EngineSteps(d)

Drain ==
  \E d \in Ranks : \E result \in resultPort[d] :
    DrainResult(d, result) \/ DrainRaises(d, result)

CloseContinues == CloseJoined \/ CloseReturns

Next ==
  \/ \E r \in Requests : Generate(r)
  \/ PullModelStateDict
  \/ CloseRequested \/ CloseContinues
  \/ DecideNextAction
  \/ \E d \in Ranks : EngineLoop(d) \/ EngineCrash(d) \/ BroadcastTimesOut(d)
  \/ Drain
  \/ Terminated

Spec == Init /\ [][Next]_vars

(* The event loop resumes the tasks; engine steps and copies return; gloo  *)
(* delivers a broadcast or times out.  Nobody has to call an endpoint.     *)
Fairness ==
  /\ WF_vars(CloseContinues)
  /\ WF_vars(DecideNextAction)
  /\ \A d \in Ranks : WF_vars(EngineLoop(d)) /\ WF_vars(BroadcastTimesOut(d))
  /\ WF_vars(Drain)

FairSpec == Spec /\ Fairness

-------------------------------------------------------------------------------
EndpointTypeOK ==
  /\ call \in [Requests -> {"idle", "waiting", "returned", "raised"}]
  /\ calledAt \in [Requests -> Versions]
  /\ completion \in [Requests -> [min : Versions \cup {-1},
                                  max : Versions \cup {-1}]]
  /\ pullCall \in {"waiting", "returned", "raised"}
  /\ pullVersion \in Versions
  /\ closePc \in {"open", "joining", "draining", "closed"}
  /\ closeRequest \in BOOLEAN

DispatcherTypeOK ==
  /\ queuedGenerationRequests \subseteq Requests
  /\ modelStateDictPullRequest \in Versions \cup {NoVersion}
  /\ generationFutures \subseteq Requests
  /\ minPolicyVersion \in [Requests -> Versions \cup {Unstamped}]
  /\ DOMAIN reservations \subseteq Requests
  /\ reservations \in [DOMAIN reservations -> Ranks]
  /\ reservedLoad \in [Ranks -> Nat]
  /\ resultPort \in
       [Ranks -> SUBSET [request : Requests, version : Versions]]
  /\ drainTask \in {"running", "raised", "cancelled"}

LoopTypeOK ==
  /\ loopPc \in [Ranks -> {"decide", "receive", "pulling", "stepping",
                           "closed", "crashed"}]
  /\ inbox \in [Ranks -> [action : {"none", "CLOSE", "PULL", "STEP"},
                          requests : [Ranks -> SUBSET Requests],
                          version : Versions \cup {NoVersion}]]
  /\ applying \in [Ranks -> Versions \cup {NoVersion}]
  /\ policyVersion \in [Ranks -> Versions]
  /\ engine \in [Ranks -> SUBSET Requests]
  /\ stepsLeft \in [Ranks -> 0 .. MaxEngineStepsBetweenDecisions]
  /\ sampled \in [Requests -> SUBSET Versions]
  /\ tokens \in [Requests -> 0 .. MaxTokens]

(* Every variable has its type; no load goes negative (the assert of       *)
(* IntraGeneratorRouter.release) and no request exceeds max_tokens.        *)
TypeOK == EndpointTypeOK /\ DispatcherTypeOK /\ LoopTypeOK

(* Rank 0's bookkeeping is in force: its loop has not crashed, nor has     *)
(* close failed the futures.                                               *)
InService == loopPc[0] # "crashed" /\ closePc # "closed"

Places == {<<"queue", 0>>} \cup ({"inbox", "engine", "port"} \X Ranks)

RequestsAt(place) ==
  LET d == place[2] IN
  CASE place[1] = "queue"  -> queuedGenerationRequests
    [] place[1] = "inbox"  -> inbox[d].requests[d]
    [] place[1] = "engine" -> engine[d]
    [] place[1] = "port"   -> {result.request : result \in resultPort[d]}

(* A request with a registered future is in exactly one place on its way   *)
(* through queue, broadcast, engine and port, and no other request is in   *)
(* any: the hand-offs between tasks and ranks lose and duplicate nothing.  *)
EachRequestInOnePlace ==
  InService =>
    \A r \in Requests :
      Cardinality({place \in Places : r \in RequestsAt(place)}) =
        IF r \in generationFutures THEN 1 ELSE 0

(* The versions a completion carries bracket the version of every token,   *)
(* although pulls land in the middle of it and on one rank before another. *)
HonestVersions ==
  \A r \in Requests :
    call[r] = "returned" =>
      \A v \in sampled[r] : completion[r].min <= v /\ v <= completion[r].max

(* The reserved load of a rank is the number of unresolved requests that   *)
(* were routed to it.                                                      *)
LoadAccounting ==
  InService =>
    /\ DOMAIN reservations = generationFutures \ queuedGenerationRequests
    /\ \A d \in Ranks :
         reservedLoad[d] =
           Cardinality({r \in DOMAIN reservations : reservations[r] = d})

(* Nobody is left waiting by close ("awaiting callers get an exception     *)
(* instead of hanging"), whenever the calls and the crash came.            *)
NobodyWaitsAfterClose ==
  closePc = "closed" =>
    /\ pullCall # "waiting"
    /\ \A r \in Requests : call[r] # "waiting"

(* pull_model_state_dict blocks until the weights have been pulled, on     *)
(* every rank: the caller overwrites the store once it has returned.       *)
PullIsCollective ==
  pullCall = "returned" =>
    \A d \in Ranks : policyVersion[d] = pullVersion

SomebodyWaits ==
  pullCall = "waiting" \/ \E r \in Requests : call[r] = "waiting"

(* Every generate and every pull call ends ("so callers don't hang"); the  *)
(* calls of a behaviour are bounded, so in the end nobody waits.           *)
EveryCallEnds == <>[]~SomebodyWaits

Crashed == \E d \in Ranks : loopPc[d] = "crashed"

(* Without a crash every call ends, however pulls, bursts and the other    *)
(* requests compete with it; close returns even after a crash.             *)
ServedUnlessCrashed ==
  <>[](/\ SomebodyWaits => Crashed
       /\ closePc \in {"open", "closed"})

Service == INSTANCE GenerationService

(* The engine loop, the broadcasts and the drain task implement the        *)
(* promise of GenerationService.                                           *)
ImplementsService == Service!Spec
===============================================================================
