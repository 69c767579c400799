---------------------------- MODULE GeneratorRouter ----------------------------
(***************************************************************************)
(* InterGeneratorRouter and its routing strategies, between the rollouts   *)
(* that generate their turns through it and the generator meshes, each of  *)
(* which changes its weights inside a pull.                                *)
(*                                                                         *)
(* The router is one actor on one event loop: what it does between two     *)
(* awaits is one step.  A generator is the service of GenerationService    *)
(* seen from outside: it stamps a call with its version when it admits it, *)
(* and moves to a new version once, somewhere inside the pull.             *)
(***************************************************************************)
EXTENDS TrainingSamples

CONSTANTS
  NumGenerators,
  Rollouts,          \* one session each; the turns of one are sequential
  MaxTurns,          \* bound: turns of a rollout
  MaxSessions,       \* StickySessionRoutingStrategy.max_sessions
  MaxPolicyVersion,  \* bound: pulls in a behaviour
  Strategies,        \* strategies an instance is configured with
  HotSwap,           \* values of the option hot_swap
  Faults             \* subset of {"pull", "generate"}

ASSUME RouterAssumption ==
  /\ NumGenerators \in Nat \ {0}
  /\ IsFiniteSet(Rollouts)
  /\ MaxTurns \in Nat \ {0}
  /\ MaxSessions \in Nat \ {0}
  /\ MaxPolicyVersion \in Nat
  /\ Strategies \subseteq {"round_robin", "least_loaded", "sticky"}
  /\ HotSwap \subseteq BOOLEAN

(* The order of the list of handles is the order of the numbers.           *)
Generators == 1 .. NumGenerators
Nobody == 0
Versions == 0 .. MaxPolicyVersion

VARIABLES
  strategy, hotSwap,     \* the configuration
  state,                 \* generator -> "serving" or "syncing"
  reservedLoad, idle,    \* generator -> load of its handle, its idle event
  serving,               \* the event _serving
  counter,               \* RoundRobin: choices made
  chosenSince,           \* LeastLoaded: generator -> how many of the others
                         \* were chosen since it was, in place of the numbers
                         \* in _last_chosen; one never chosen counts as if the
                         \* handles had been chosen from the last to the first
  sessions,              \* Sticky: the sessions, least recently used first
  pinned,                \* Sticky: session -> its generator
  rollout,               \* rollout -> where its present turn is
  target,                \* rollout -> generator its call was routed to
  admitted,              \* rollout -> version its call was stamped with
  turns,                 \* rollout -> its finished turns
  pull,                  \* generator -> where its _pull_one is
  pullCall, pullVersion, \* the pull_model_state_dict endpoint
  version,               \* generator -> policy version
  calledAt,              \* history: version acknowledged at the call
  evicted,               \* history: sessions dropped while pinned
  passedOver             \* history: choices a generator has lost in a row

strategyVars == <<counter, chosenSince, sessions, pinned, evicted, passedOver>>
handleVars   == <<state, serving>>
loadVars     == <<reservedLoad, idle>>
callVars     == <<rollout, target, admitted, turns, calledAt>>
pullVars     == <<pull, pullCall, pullVersion, version>>
config       == <<strategy, hotSwap>>
vars == <<config, strategyVars, handleVars, loadVars, callVars, pullVars>>

InFlight == {"dispatched", "generating"}

Running(g) == {r \in Rollouts : rollout[r] \in InFlight /\ target[r] = g}

Init ==
  /\ strategy \in Strategies /\ hotSwap \in HotSwap
  /\ state = [g \in Generators |-> "serving"]
  /\ reservedLoad = [g \in Generators |-> 0]
  /\ idle = [g \in Generators |-> TRUE]
  /\ serving = TRUE
  /\ counter = 0
  /\ chosenSince = [g \in Generators |-> NumGenerators - g]
  /\ sessions = <<>>
  /\ pinned = [r \in Rollouts |-> Nobody]
  /\ rollout = [r \in Rollouts |-> "ready"]
  /\ target = [r \in Rollouts |-> Nobody]
  /\ admitted = [r \in Rollouts |-> 0]
  /\ turns = [r \in Rollouts |-> <<>>]
  /\ pull = [g \in Generators |-> "none"]
  /\ pullCall = "returned" /\ pullVersion = 0
  /\ version = [g \in Generators |-> 0]
  /\ calledAt = [r \in Rollouts |-> [k \in 1 .. MaxTurns |-> 0]]
  /\ evicted = {}
  /\ passedOver = [g \in Generators |-> 0]

-------------------------------------------------------------------------------
(* Routing strategies: which candidate a strategy chooses.                 *)
Candidates == {g \in Generators : state[g] = "serving"}

RoundRobinChoice ==
  LET position == counter % Cardinality(Candidates)
  IN CHOOSE g \in Candidates :
       Cardinality({h \in Candidates : h < g}) = position

LowestLoaded ==
  {g \in Candidates : \A h \in Candidates : reservedLoad[g] <= reservedLoad[h]}

(* Mutant: ties are always broken the same way.                            *)
FirstLeastLoadedChoice == Min(LowestLoaded)

LeastLoadedChoice ==
  CHOOSE g \in LowestLoaded :
    \A h \in LowestLoaded : chosenSince[h] <= chosenSince[g]

FallbackChoice ==
  IF strategy = "round_robin" THEN RoundRobinChoice ELSE LeastLoadedChoice

Sticks(r) == strategy = "sticky" /\ pinned[r] \in Candidates

(* Mutant: a session goes wherever the fallback says.                      *)
UnpinnedChoice(r) == FallbackChoice

Choice(r) == IF Sticks(r) THEN pinned[r] ELSE FallbackChoice

(* What RoundRobin and LeastLoaded remember of a choice.                   *)
RecordChoice(g) ==
  IF strategy = "round_robin"
  THEN counter' = counter + 1 /\ UNCHANGED <<chosenSince, passedOver>>
  ELSE /\ chosenSince' =
            [h \in Generators |->
               IF h = g THEN 0
               ELSE IF chosenSince[h] < chosenSince[g] THEN chosenSince[h] + 1
               ELSE chosenSince[h]]
       /\ passedOver' =
            [h \in Generators |->
               IF h = g THEN 0
               ELSE IF h \in LowestLoaded THEN passedOver[h] + 1
               ELSE passedOver[h]]
       /\ UNCHANGED counter

(* OrderedDict.move_to_end: the most recently used session is the last.    *)
MoveToEnd(r) ==
  LET Before(i) == SubSeq(sessions, 1, i - 1)
      After(i)  == SubSeq(sessions, i + 1, Len(sessions))
      places == {i \in DOMAIN sessions : sessions[i] = r}
      others == IF places = {} THEN sessions
                ELSE LET i == CHOOSE p \in places : TRUE IN Before(i) \o After(i)
  IN Append(others, r)

(* The session is (re)pinned, and the least recently used one is dropped   *)
(* when there are too many.                                                *)
RememberSession(r, g) ==
  LET used == MoveToEnd(r)
      full == Len(used) > MaxSessions
  IN /\ sessions' = IF full THEN Tail(used) ELSE used
     /\ pinned' = [s \in Rollouts |->
                     IF full /\ s = Head(used) THEN Nobody
                     ELSE IF s = r THEN g ELSE pinned[s]]
     /\ evicted' = IF full THEN evicted \cup {Head(used)} ELSE evicted

(* RoutingStrategy.choose.                                                 *)
Choose(r, g) ==
  /\ g = Choice(r)
  /\ IF Sticks(r)
     THEN UNCHANGED <<counter, chosenSince, passedOver>>
     ELSE RecordChoice(g)
  /\ IF strategy = "sticky"
     THEN RememberSession(r, g)
     ELSE UNCHANGED <<sessions, pinned, evicted>>

-------------------------------------------------------------------------------
(* _route.  Loads are counted in calls: estimated_cost is 1.               *)
Reserve(g) ==
  /\ idle' = [idle EXCEPT ![g] = @ /\ reservedLoad[g] # 0]
  /\ reservedLoad' = [reservedLoad EXCEPT ![g] = @ + 1]

(* Mutant: the idle event is set whatever is left.                         *)
ReleaseAll(g) ==
  /\ reservedLoad' = [reservedLoad EXCEPT ![g] = @ - 1]
  /\ idle' = [idle EXCEPT ![g] = TRUE]

(* Mutant: a call that ends is released twice.                             *)
ReleaseTwice(g) ==
  /\ reservedLoad' = [reservedLoad EXCEPT ![g] = @ - 2]
  /\ idle' = [idle EXCEPT ![g] = reservedLoad[g] = 2]

Release(g) ==
  /\ reservedLoad' = [reservedLoad EXCEPT ![g] = @ - 1]
  /\ idle' = [idle EXCEPT ![g] = reservedLoad[g] = 1]

Dispatch(r) ==
  \E g \in Candidates :
    /\ Choose(r, g)
    /\ Reserve(g)
    /\ target' = [target EXCEPT ![r] = g]
    /\ rollout' = [rollout EXCEPT ![r] = "dispatched"]

(* The newest version a caller knows every later token to come from.       *)
Acknowledged ==
  IF pullCall = "returned" THEN pullVersion ELSE pullVersion - 1

(* The next turn of a rollout: routed at once when the event is set, which *)
(* is tested without giving the loop away.                                 *)
Generate(r) ==
  /\ rollout[r] = "ready"
  /\ calledAt' = [calledAt EXCEPT ![r][Len(turns[r]) + 1] = Acknowledged]
  /\ IF serving
     THEN Dispatch(r)
     ELSE /\ rollout' = [rollout EXCEPT ![r] = "blocked"]
          /\ UNCHANGED <<strategyVars, loadVars, target>>
  /\ UNCHANGED <<config, handleVars, admitted, turns, pullVars>>

(* A call that the event has woken chooses among the candidates of now.    *)
Resume(r) ==
  /\ rollout[r] = "woken"
  /\ Dispatch(r)
  /\ UNCHANGED <<config, handleVars, admitted, turns, calledAt, pullVars>>

(* The generator admits the call and stamps it.                            *)
Admit(r) ==
  /\ rollout[r] = "dispatched"
  /\ rollout' = [rollout EXCEPT ![r] = "generating"]
  /\ admitted' = [admitted EXCEPT ![r] = version[target[r]]]
  /\ UNCHANGED <<config, strategyVars, handleVars, loadVars, target, turns,
                 calledAt, pullVars>>

EndCall(r) ==
  /\ Release(target[r])
  /\ target' = [target EXCEPT ![r] = Nobody]
  /\ admitted' = [admitted EXCEPT ![r] = 0]

(* The completion comes back, the router releases, and env.step decides    *)
(* whether the rollout goes on.  Its prompt continues the one before it    *)
(* unless the environment edited the history.                              *)
Complete(r) ==
  /\ rollout[r] = "generating"
  /\ EndCall(r)
  /\ \E continues \in BOOLEAN :
       /\ turns[r] = <<>> => continues
       /\ turns' = [turns EXCEPT ![r] = Append(@,
                      [continues |-> continues, min |-> admitted[r],
                       max |-> version[target[r]]])]
  /\ \E status \in {"ready", "done"} :
       /\ Len(turns'[r]) = MaxTurns => status = "done"
       /\ rollout' = [rollout EXCEPT ![r] = status]
  /\ UNCHANGED <<config, strategyVars, handleVars, calledAt, pullVars>>

(* The call raises, or the environment does after it: the rollout ends with *)
(* the turns it has.                                                       *)
Raise(r) ==
  /\ rollout[r] \in InFlight
  /\ "generate" \in Faults
  /\ EndCall(r)
  /\ rollout' = [rollout EXCEPT ![r] = "error"]
  /\ UNCHANGED <<config, strategyVars, handleVars, turns, calledAt, pullVars>>

-------------------------------------------------------------------------------
(* _pull_model_state_dict.  Setting the event _serving wakes the calls that *)
(* wait for it; they resume at later steps of the event loop.              *)
(* Mutant: the event is not refreshed when a generator leaves.             *)
SetStateAndForget(newState) ==
  /\ state' = newState
  /\ serving' = (serving \/ \E g \in Generators : newState[g] = "serving")
  /\ rollout' = [r \in Rollouts |->
                   IF serving' /\ rollout[r] = "blocked" THEN "woken"
                   ELSE rollout[r]]

(* Mutant: the event is not set when a generator comes back.               *)
SetStateAndStay(newState) ==
  /\ state' = newState
  /\ serving' = (serving /\ \E g \in Generators : newState[g] = "serving")
  /\ rollout' = [r \in Rollouts |->
                   IF serving' /\ rollout[r] = "blocked" THEN "woken"
                   ELSE rollout[r]]

SetState(newState) ==
  /\ state' = newState
  /\ serving' = \E g \in Generators : newState[g] = "serving"
  /\ rollout' = [r \in Rollouts |->
                   IF serving' /\ rollout[r] = "blocked" THEN "woken"
                   ELSE rollout[r]]

(* The tasks of the gather start one after the other: hot swap sends every *)
(* pull at once, a drain takes every generator out and pulls those that    *)
(* have nothing in flight.  The controller pulls one version after another *)
(* (WeightSyncManager.wait_prev_pull).  A call woken by the event is ahead *)
(* of the next pull in the queue of the event loop.                        *)
PullModelStateDict ==
  /\ pullCall = "returned" /\ pullVersion < MaxPolicyVersion
  /\ \A r \in Rollouts : rollout[r] # "woken"
  /\ pullCall' = "waiting" /\ pullVersion' = pullVersion + 1
  /\ IF hotSwap
     THEN /\ pull' = [g \in Generators |-> "pulling"]
          /\ UNCHANGED <<handleVars, rollout>>
     ELSE /\ SetState([g \in Generators |-> "syncing"])
          /\ pull' = [g \in Generators |->
                        IF idle[g] THEN "pulling" ELSE "draining"]
  /\ UNCHANGED <<config, strategyVars, loadVars, target, admitted, turns,
                 calledAt, version>>

Drained(g) ==
  /\ pull[g] = "draining" /\ idle[g]
  /\ pull' = [pull EXCEPT ![g] = "pulling"]
  /\ UNCHANGED <<config, strategyVars, handleVars, loadVars, callVars,
                 pullCall, pullVersion, version>>

(* The generator moves to the new weights, between two engine steps.       *)
Swap(g) ==
  /\ pull[g] = "pulling" /\ version[g] # pullVersion
  /\ version' = [version EXCEPT ![g] = pullVersion]
  /\ UNCHANGED <<config, strategyVars, handleVars, loadVars, callVars, pull,
                 pullCall, pullVersion>>

(* The end of _pull_one, whatever the pull did: its finally readmits.      *)
EndPull(g) ==
  /\ pull' = [pull EXCEPT ![g] = "none"]
  /\ IF hotSwap THEN UNCHANGED <<handleVars, rollout>>
     ELSE SetState([state EXCEPT ![g] = "serving"])
  /\ UNCHANGED <<config, strategyVars, loadVars, target, admitted, turns,
                 calledAt, pullVersion, version>>

(* Mutant: the gather returns with the first of its pulls.                 *)
FirstPullReturns(g) == "returned"

(* The gather returns when every pull has, unless one of them has raised.  *)
GatherOf(g) ==
  IF pullCall = "waiting" /\ \A h \in Generators \ {g} : pull[h] = "none"
  THEN "returned" ELSE pullCall

PullReturns(g) ==
  /\ pull[g] = "pulling" /\ version[g] = pullVersion
  /\ pullCall' = GatherOf(g)
  /\ EndPull(g)

(* The gather raises at once; the pulls of the other generators go on.     *)
PullRaises(g) ==
  /\ pull[g] = "pulling"
  /\ "pull" \in Faults
  /\ pullCall' = "raised"
  /\ EndPull(g)

Step(r) == Resume(r) \/ Admit(r) \/ Complete(r)

PullStep(g) == Drained(g) \/ Swap(g) \/ PullReturns(g)

Next ==
  \/ \E r \in Rollouts : Generate(r) \/ Step(r) \/ Raise(r)
  \/ PullModelStateDict
  \/ \E g \in Generators : PullStep(g) \/ PullRaises(g)

Spec == Init /\ [][Next]_vars

(* Ready tasks of the event loop run, and a generator ends what it was     *)
(* asked for (Generator: NobodyWaitsAfterClose, ServedUnlessCrashed).      *)
FairSpec ==
  /\ Spec
  /\ \A r \in Rollouts : WF_vars(Step(r))
  /\ \A g \in Generators : WF_vars(PullStep(g))

-------------------------------------------------------------------------------
(* The variables have their types.                                         *)
TypeOK ==
  /\ strategy \in Strategies /\ hotSwap \in HotSwap
  /\ state \in [Generators -> {"serving", "syncing"}]
  /\ reservedLoad \in [Generators -> Nat]
  /\ idle \in [Generators -> BOOLEAN]
  /\ serving \in BOOLEAN
  /\ counter \in Nat
  /\ chosenSince \in [Generators -> 0 .. NumGenerators - 1]
  /\ sessions \in Seq(Rollouts)
  /\ pinned \in [Rollouts -> Generators \cup {Nobody}]
  /\ rollout \in [Rollouts -> {"ready", "blocked", "woken", "done", "error"}
                                \cup InFlight]
  /\ target \in [Rollouts -> Generators \cup {Nobody}]
  /\ admitted \in [Rollouts -> Versions]
  /\ turns \in [Rollouts -> Seq(Turn(Versions))]
  /\ pull \in [Generators -> {"none", "draining", "pulling"}]
  /\ pullCall \in {"waiting", "returned", "raised"}
  /\ pullVersion \in Versions
  /\ version \in [Generators -> Versions]
  /\ calledAt \in [Rollouts -> [1 .. MaxTurns -> Versions]]
  /\ evicted \subseteq Rollouts
  /\ passedOver \in [Generators -> Nat]

(* A handle's reserved load is the number of calls in flight on its        *)
(* generator, and its idle event is set exactly when there are none, over  *)
(* completions, failures, drains and re-admissions in any order.           *)
LoadAccounting ==
  \A g \in Generators :
    /\ reservedLoad[g] = Cardinality(Running(g))
    /\ idle[g] <=> reservedLoad[g] = 0

(* Without hot swap no call is in flight on a generator while it changes   *)
(* its weights, so no completion mixes two versions.                       *)
DrainedWhilePulling ==
  ~hotSwap =>
    /\ \A g \in Generators : pull[g] = "pulling" => Running(g) = {}
    /\ \A r \in Rollouts : \A k \in DOMAIN turns[r] :
         turns[r][k].min = turns[r][k].max

(* The assertion in _route: a call that the event let through, or woke, is *)
(* left with a generator to choose when it runs, although the set of       *)
(* serving generators changes between the two.                             *)
WokenFindServing ==
  (serving \/ \E r \in Rollouts : rollout[r] = "woken") => Candidates # {}

(* LeastLoaded breaks ties by recency so that no generator starves: one    *)
(* that is among the least loaded is passed over at most once for every    *)
(* other generator, however the others come and go.                        *)
NoStarvation ==
  strategy # "round_robin" =>
    \A g \in Generators : passedOver[g] < NumGenerators

(* The versions that turns of a rollout are labelled with never go back,   *)
(* so a sample's min_policy_version, that of its opening turn, is the      *)
(* oldest of its tokens: when generators drain for a pull, and when        *)
(* sessions stick to a generator and are never evicted.                    *)
KeepsOrder(r) ==
  /\ ~hotSwap \/ (strategy = "sticky" /\ r \notin evicted)
  /\ pullCall # "raised"

OldestTurnOpens ==
  \A r \in Rollouts :
    KeepsOrder(r) => \A s \in TrainingSamples(turns[r]) : HonestSample(turns[r], s)

(* What rollout_to_training_samples says of every sample: its              *)
(* min_policy_version is the oldest turn's version.                        *)
MinIsOldest ==
  \A r \in Rollouts : \A s \in TrainingSamples(turns[r]) : HonestSample(turns[r], s)

(* A call that waits for a serving generator, or is in flight, ends, and   *)
(* so does a pull: drains and calls never wait for each other for ever.    *)
EveryCallEnds ==
  /\ \A r \in Rollouts :
       rollout[r] \in {"blocked", "woken"} \cup InFlight
         ~> rollout[r] \in {"ready", "done", "error"}
  /\ pullCall = "waiting" ~> pullCall # "waiting"

-------------------------------------------------------------------------------
(* The routed turns as the calls of the service a single generator gives.  *)
Calls == Rollouts \X (1 .. MaxTurns)

CallOf(r, k) ==
  IF k <= Len(turns[r]) THEN "returned"
  ELSE IF k # Len(turns[r]) + 1 \/ rollout[r] \in {"ready", "done"} THEN "idle"
  ELSE IF rollout[r] = "error" THEN "raised"
  ELSE "waiting"

CompletionOf(r, k) ==
  IF k <= Len(turns[r])
  THEN [min |-> turns[r][k].min, max |-> turns[r][k].max]
  ELSE [min |-> -1, max |-> -1]

Service == INSTANCE GenerationService WITH
  Requests   <- Calls,
  call       <- [q \in Calls |-> CallOf(q[1], q[2])],
  completion <- [q \in Calls |-> CompletionOf(q[1], q[2])],
  calledAt   <- [q \in Calls |-> calledAt[q[1]][q[2]]]

(* Behind the router several generators are one generation service: once   *)
(* pull_model_state_dict has returned, no later call gets older tokens.    *)
ImplementsService == Service!Spec
===============================================================================
