---------------------------- MODULE GeneratorProofs ----------------------------
(***************************************************************************)
(* Proofs about Generator, for all ranks, bursts, pulls and crashes, and   *)
(* for any set of requests.                                                *)
(*                                                                         *)
(* Two invariants.  The first follows a request from the queue through the *)
(* broadcast, an engine and the port, and the load reserved for it; it     *)
(* needs nothing of the broadcast.  The second follows the versions: it    *)
(* holds because no rank acts on a decision before rank 0 has stamped the  *)
(* requests in it (BroadcastIsBarrier), and because of two ranks neither   *)
(* is ahead of the other by more than the decision it has still to apply.  *)
(***************************************************************************)
EXTENDS Generator, FiniteSetTheorems, TLAPS

PortRequests(d) == {result.request : result \in resultPort[d]}

(* What rank d has been given and not handed back to rank 0.               *)
Held(d) == inbox[d].requests[d] \cup engine[d] \cup PortRequests(d)

Fresh(r) == tokens[r] = 0 /\ sampled[r] = {}

WellFormedDecisions ==
  \A d \in Ranks :
    /\ inbox[d].action = "none" => inbox[d] = NoDecision
    /\ inbox[d].action # "STEP" => inbox[d].requests = NoRequests
    /\ inbox[d].action = "PULL" => inbox[d].version # NoVersion
    /\ loopPc[d] = "pulling" => applying[d] # NoVersion
    /\ loopPc[d] = "stepping" => stepsLeft[d] # 0

CloseJoinsLoop ==
  closePc \in {"draining", "closed"} => loopPc[0] \in {"closed", "crashed"}

PullsCounted == pullCall # "returned" => pullVersion # 0

(* The stages of a rank, the ranks and the queue share no request.         *)
StagesApart ==
  \A d \in Ranks :
    /\ inbox[d].requests[d] \cap engine[d] = {}
    /\ inbox[d].requests[d] \cap PortRequests(d) = {}
    /\ engine[d] \cap PortRequests(d) = {}
    /\ \A x, y \in resultPort[d] : x.request = y.request => x = y

HoldersApart ==
  \A d \in Ranks :
    /\ queuedGenerationRequests \cap Held(d) = {}
    /\ \A e \in Ranks : d # e => Held(d) \cap Held(e) = {}

Registered ==
  InService =>
    \A r \in Requests :
      r \in generationFutures <=>
        r \in queuedGenerationRequests \/ \E d \in Ranks : r \in Held(d)

Reserved ==
  /\ IsFiniteSet(queuedGenerationRequests)
  /\ IsFiniteSet(DOMAIN reservations)
  /\ queuedGenerationRequests \cap DOMAIN reservations = {}
  /\ \A d \in Ranks : Held(d) \subseteq DOMAIN reservations
  /\ \A d \in Ranks :
       reservedLoad[d] =
         Cardinality({r \in DOMAIN reservations : reservations[r] = d})

Uncalled ==
  \A r \in Requests :
    call[r] = "idle" =>
      /\ Fresh(r)
      /\ r \notin queuedGenerationRequests
      /\ r \notin DOMAIN reservations
      /\ r \notin generationFutures

(* No request is sampled before an engine has admitted it, and none in an  *)
(* engine has all its tokens.                                              *)
Unsampled ==
  \A r \in Requests :
    /\ r \in queuedGenerationRequests => Fresh(r)
    /\ \A d \in Ranks : r \in inbox[d].requests[d] => Fresh(r)
    /\ \A d \in Ranks : r \in engine[d] => tokens[r] # MaxTokens

PlacesInv ==
  /\ TypeOK
  /\ WellFormedDecisions
  /\ CloseJoinsLoop
  /\ PullsCounted
  /\ StagesApart
  /\ HoldersApart
  /\ Registered
  /\ Reserved
  /\ Uncalled
  /\ Unsampled

-------------------------------------------------------------------------------
(* The version a rank has once it has applied what it has received.        *)
Target(d) ==
  IF inbox[d].action = "PULL" THEN inbox[d].version
  ELSE IF loopPc[d] = "pulling" THEN applying[d] ELSE policyVersion[d]

(* What rank 0 has stamped and has not resolved.                           *)
StampedAt(d) ==
  engine[d] \cup PortRequests(d)
    \cup (IF inbox[0] = NoDecision THEN inbox[d].requests[d] ELSE {})

(* No rank has acted on a decision that rank 0 has still to act on.        *)
OneDecision ==
  /\ inbox[0] # NoDecision => \A d \in Ranks : inbox[d] = inbox[0]
  /\ loopPc[0] \in {"decide", "stepping", "pulling"} => inbox[0] = NoDecision

CallersRegistered ==
  /\ \A r \in Requests : r \in generationFutures <=> call[r] = "waiting"
  /\ \A r \in Requests :
       (r \in queuedGenerationRequests \/ \E d \in Ranks : r \in Held(d)) =>
         call[r] \in {"waiting", "raised"}
  /\ closePc = "closed" => generationFutures = {} /\ pullCall # "waiting"
  /\ InService => DOMAIN reservations \subseteq generationFutures

PullPending ==
  /\ modelStateDictPullRequest =
       IF pullCall = "waiting" THEN pullVersion ELSE NoVersion
  /\ policyVersion[0] = Acknowledged
  /\ InService /\ inbox[0].action = "PULL" =>
       inbox[0].version = pullVersion /\ pullCall = "waiting"
  /\ InService /\ loopPc[0] = "pulling" =>
       applying[0] = pullVersion /\ pullCall = "waiting"

VersionsGrow ==
  \A d \in Ranks :
    /\ policyVersion[d] <= Target(d)
    /\ loopPc[d] = "pulling" => policyVersion[d] <= applying[d]
    /\ loopPc[d] = "pulling" => applying[d] <= Target(d)
    /\ Target(d) <= pullVersion

PeersCatchUp ==
  loopPc[0] # "crashed" =>
    \A d \in Ranks : loopPc[d] # "crashed" => Target(0) <= Target(d)

StampsBelow(d) ==
  \A r \in StampedAt(d) :
    /\ minPolicyVersion[r] # Unstamped
    /\ calledAt[r] <= minPolicyVersion[r]
    /\ \A v \in sampled[r] : minPolicyVersion[r] <= v

SlicesReachable(d) ==
  loopPc[d] # "crashed" =>
    \A r \in StampedAt(d) \cap inbox[d].requests[d] :
      minPolicyVersion[r] <= Target(d)

EnginesAbove(d) ==
  \A r \in engine[d] :
    /\ minPolicyVersion[r] <= policyVersion[d]
    /\ \A v \in sampled[r] : v <= policyVersion[d]

PortsAbove(d) ==
  \A x \in resultPort[d] :
    /\ minPolicyVersion[x.request] <= x.version
    /\ x.version <= pullVersion
    /\ \A v \in sampled[x.request] : v <= x.version

StampsBracket ==
  \A d \in Ranks :
    StampsBelow(d) /\ SlicesReachable(d) /\ EnginesAbove(d) /\ PortsAbove(d)

CalledBeforeAcknowledged == \A r \in Requests : calledAt[r] <= Acknowledged

VersionsInv ==
  /\ OneDecision
  /\ CallersRegistered
  /\ PullPending
  /\ VersionsGrow
  /\ PeersCatchUp
  /\ StampsBracket
  /\ CalledBeforeAcknowledged
  /\ HonestVersions

-------------------------------------------------------------------------------
(* The kinds of steps that matter for the places of requests.              *)

(* A rank gives up its loop.                                               *)
CrashStep(d) ==
  /\ loopPc[d] \in {"decide", "receive", "stepping", "pulling"}
  /\ Crash(d)

AdmitStep(d) ==
  /\ DecisionReached(d) /\ inbox[d].action = "STEP"
  /\ d = 0 => RequestsOf(inbox[0]) \subseteq generationFutures
  /\ Admit(d)

(* The steps that move no request.                                         *)
QuietStep ==
  \/ PullModelStateDict \/ CloseRequested \/ CloseJoined \/ CloseReturns
  \/ DecideClose \/ DecidePull
  \/ \E d \in Ranks :
       ApplyClose(d) \/ ApplyPull(d) \/ FinishPull(d) \/ CrashStep(d)
  \/ UNCHANGED vars

(* Every step is of one of these kinds.                                    *)
LEMMA StepCases ==
  ASSUME [Next]_vars
  PROVE  \/ QuietStep
         \/ \E r \in Requests : Generate(r)
         \/ \E route \in [queuedGenerationRequests -> Ranks] : DecideStep(route)
         \/ \E d \in Ranks : AdmitStep(d)
         \/ \E d \in Ranks : EngineSteps(d)
         \/ \E d \in Ranks : \E result \in resultPort[d] :
              DrainResult(d, result) \/ DrainRaises(d, result)
<1>0. 0 \in Ranks
  BY GeneratorAssumption DEF Ranks
<1>1. ASSUME NEW d \in Ranks, ApplyStep(d)
      PROVE  AdmitStep(d) \/ CrashStep(d)
  BY <1>1 DEF ApplyStep, AdmitStep, CrashStep, DecisionReached
<1>2. ASSUME NEW d \in Ranks, EngineCrash(d) \/ BroadcastTimesOut(d)
      PROVE  CrashStep(d)
  BY <1>2 DEF EngineCrash, BroadcastTimesOut, CrashStep
<1>3. ASSUME NEW d \in Ranks, EngineLoop(d)
      PROVE  QuietStep \/ AdmitStep(d) \/ EngineSteps(d)
  BY <1>1, <1>3 DEF EngineLoop, QuietStep
<1>4. Terminated => QuietStep
  BY DEF Terminated, QuietStep
<1>5. CASE Next
  BY <1>2, <1>3, <1>4, <1>5
     DEF Next, CloseContinues, DecideNextAction, Drain, QuietStep
<1>6. CASE UNCHANGED vars
  BY <1>6 DEF QuietStep
<1> QED
  BY <1>5, <1>6

-------------------------------------------------------------------------------
(* What the kinds of steps do to the places.                               *)

(* A decision other than STEP hands out nothing.                           *)
LEMMA EmptyDecisions ==
  /\ \A d \in Ranks : NoDecision.requests[d] = {}
  /\ NoDecision.action = "none"
  /\ \A action, version : \A d \in Ranks :
       Decision(action, NoRequests, version).requests[d] = {}
BY DEF NoDecision, Decision, NoRequests

Moved(d, slice, held, ported) ==
  /\ LocalRequests(d)' = slice
  /\ engine'[d] = held
  /\ PortRequests(d)' = ported

Unmoved(d) == Moved(d, LocalRequests(d), engine[d], PortRequests(d))

(* The slices of a decision other than STEP, and of none, are empty.       *)
LEMMA EmptySlices ==
  ASSUME TypeOK, WellFormedDecisions, NEW d \in Ranks, inbox[d].action # "STEP"
  PROVE  LocalRequests(d) = {}
BY DEF WellFormedDecisions, LocalRequests, NoRequests

(* A rank that receives such a decision leaves every slice as it was.      *)
LEMMA ReceivedSlices ==
  ASSUME TypeOK, WellFormedDecisions, NEW d \in Ranks,
         inbox[d].action # "STEP", Received(d), NEW e \in Ranks
  PROVE  LocalRequests(e)' = LocalRequests(e)
<1>1. CASE d = e
  <2>1. inbox'[e] = NoDecision
    BY <1>1 DEF Received, TypeOK, LoopTypeOK
  <2> QED
    BY <1>1, <2>1, EmptySlices, EmptyDecisions DEF LocalRequests
<1>2. CASE d # e
  <2>1. inbox'[e] = inbox[e]
    BY <1>2 DEF Received, TypeOK, LoopTypeOK
  <2> QED
    BY <2>1 DEF LocalRequests
<1> QED
  BY <1>1, <1>2

(* Before a broadcast all slices are empty, and after one that is not STEP.*)
LEMMA BroadcastSlices ==
  ASSUME TypeOK, WellFormedDecisions, NEW decision, Broadcast(decision),
         NEW d \in Ranks
  PROVE  /\ LocalRequests(d) = {}
         /\ LocalRequests(d)' = decision.requests[d]
BY EmptyDecisions DEF Broadcast, LocalRequests, TypeOK, LoopTypeOK

(* What all quiet steps share.                                             *)
QuietEffect ==
  /\ \A d \in Ranks : Unmoved(d)
  /\ UNCHANGED <<queuedGenerationRequests, engine, resultPort, reservations,
                 reservedLoad, tokens, sampled, minPolicyVersion, completion,
                 calledAt>>
  /\ generationFutures' \subseteq generationFutures
  /\ InService' => InService /\ generationFutures' = generationFutures
  /\ \A r \in Requests :
       \/ call'[r] = call[r] /\ (r \in generationFutures' <=> r \in generationFutures)
       \/ r \in generationFutures /\ r \notin generationFutures' /\ call'[r] = "raised"

LEMMA FailEffect ==
  ASSUME TypeOK, FailOutstandingFutures
  PROVE  /\ generationFutures' = {}
         /\ UNCHANGED <<completion, calledAt, minPolicyVersion, reservations,
                        reservedLoad, pullVersion>>
         /\ \A r \in Requests :
              IF r \in generationFutures THEN call'[r] = "raised"
              ELSE call'[r] = call[r]
BY DEF FailOutstandingFutures

LEMMA QuietMovesNothing ==
  ASSUME PlacesInv, QuietStep
  PROVE  QuietEffect
<1> USE DEF PlacesInv
<1>0. 0 \in Ranks
  BY GeneratorAssumption DEF Ranks
<1>1. CASE PullModelStateDict \/ CloseRequested \/ CloseJoined \/ UNCHANGED vars
  <2>1. UNCHANGED <<inbox, engine, resultPort, queuedGenerationRequests,
                    reservations, reservedLoad, tokens, sampled,
                    minPolicyVersion, completion, calledAt, generationFutures,
                    call, loopPc>>
    BY <1>1 DEF PullModelStateDict, CloseRequested, CloseJoined, vars, callVars,
                futureVars, engineVars
  <2>2. closePc' # "closed" => closePc # "closed"
    BY <1>1 DEF PullModelStateDict, CloseRequested, CloseJoined, vars, closeVars
  <2>3. \A d \in Ranks : Unmoved(d)
    BY <2>1 DEF Unmoved, Moved, LocalRequests, PortRequests
  <2> QED
    BY <2>1, <2>2, <2>3 DEF QuietEffect, InService
<1>2. CASE CloseReturns
  <2>1. UNCHANGED <<inbox, engine, resultPort, queuedGenerationRequests,
                    tokens, sampled, loopPc>>
    BY <1>2 DEF CloseReturns, engineVars
  <2>2. \A d \in Ranks : Unmoved(d)
    BY <2>1 DEF Unmoved, Moved, LocalRequests, PortRequests
  <2>3. ~InService'
    BY <1>2 DEF CloseReturns, InService
  <2> QED
    BY <1>2, <2>1, <2>2, <2>3, FailEffect DEF QuietEffect, CloseReturns
<1>3. CASE DecideClose \/ DecidePull
  <2>1. UNCHANGED <<engine, resultPort, queuedGenerationRequests,
                    reservations, reservedLoad, tokens, sampled,
                    minPolicyVersion, completion, calledAt, generationFutures,
                    call, closePc>>
    BY <1>3 DEF DecideClose, DecidePull, callVars, futureVars, engineVars,
                closeVars
  <2>2. PICK action, version :
          Broadcast(Decision(action, NoRequests, version))
    BY <1>3 DEF DecideClose, DecidePull
  <2>3. \A d \in Ranks : LocalRequests(d)' = LocalRequests(d)
    <3>1. \A d \in Ranks : Decision(action, NoRequests, version).requests[d] = {}
      BY EmptyDecisions
    <3> QED
      BY <2>2, <3>1, BroadcastSlices
  <2>4. \A d \in Ranks : Unmoved(d)
    BY <2>1, <2>3 DEF Unmoved, Moved, PortRequests
  <2>5. loopPc[0] # "crashed"
    BY <2>2 DEF Broadcast
  <2> QED
    BY <2>1, <2>4, <2>5 DEF QuietEffect, InService
<1>4. ASSUME NEW d \in Ranks, ApplyClose(d) \/ ApplyPull(d)
      PROVE  QuietEffect
  <2>1. UNCHANGED <<engine, resultPort, queuedGenerationRequests,
                    reservations, reservedLoad, tokens, sampled,
                    minPolicyVersion, completion, calledAt, generationFutures,
                    call, closePc>>
    BY <1>4 DEF ApplyClose, ApplyPull, callVars, futureVars, engineVars,
                closeVars
  <2>2. Received(d) /\ inbox[d].action # "STEP"
    BY <1>4 DEF ApplyClose, ApplyPull
  <2>3. \A e \in Ranks : Unmoved(e)
    BY <2>1, <2>2, ReceivedSlices DEF Unmoved, Moved, PortRequests
  <2>4. loopPc'[0] # "crashed" => loopPc[0] # "crashed"
    BY <1>4, <1>0 DEF ApplyClose, ApplyPull, DecisionReached, TypeOK, LoopTypeOK
  <2> QED
    BY <2>1, <2>3, <2>4 DEF QuietEffect, InService
<1>5. ASSUME NEW d \in Ranks, FinishPull(d)
      PROVE  QuietEffect
  <2>1. UNCHANGED <<inbox, engine, resultPort, queuedGenerationRequests,
                    reservations, reservedLoad, tokens, sampled,
                    minPolicyVersion, completion, calledAt, generationFutures,
                    call, closePc>>
    BY <1>5 DEF FinishPull, callVars, futureVars, engineVars, closeVars
  <2>2. \A e \in Ranks : Unmoved(e)
    BY <2>1 DEF Unmoved, Moved, LocalRequests, PortRequests
  <2>3. loopPc'[0] # "crashed" => loopPc[0] # "crashed"
    BY <1>5, <1>0 DEF FinishPull, TypeOK, LoopTypeOK
  <2> QED
    BY <2>1, <2>2, <2>3 DEF QuietEffect, InService
<1>6. ASSUME NEW d \in Ranks, CrashStep(d)
      PROVE  QuietEffect
  <2>1. UNCHANGED <<inbox, engine, resultPort, queuedGenerationRequests,
                    tokens, sampled, closePc>>
    BY <1>6 DEF CrashStep, Crash, engineVars, closeVars
  <2>2. \A e \in Ranks : Unmoved(e)
    BY <2>1 DEF Unmoved, Moved, LocalRequests, PortRequests
  <2>3. CASE d = 0
    <3>1. ~InService'
      BY <1>6, <1>0, <2>3 DEF CrashStep, Crash, InService, TypeOK, LoopTypeOK
    <3> QED
      BY <1>6, <2>1, <2>2, <2>3, <3>1, FailEffect DEF QuietEffect, CrashStep, Crash
  <2>4. CASE d # 0
    <3>1. UNCHANGED <<callVars, futureVars>>
      BY <1>6, <2>4 DEF CrashStep, Crash
    <3>2. loopPc'[0] = loopPc[0]
      BY <1>6, <1>0, <2>4 DEF CrashStep, Crash, TypeOK, LoopTypeOK
    <3> QED
      BY <2>1, <2>2, <3>1, <3>2 DEF QuietEffect, InService, callVars, futureVars
  <2> QED
    BY <2>3, <2>4
<1> QED
  BY <1>1, <1>2, <1>3, <1>4, <1>5, <1>6 DEF QuietStep

(* DecideStep deals the queue out to the slices, which were empty.         *)
LEMMA DecideStepMoves ==
  ASSUME PlacesInv, NEW route \in [queuedGenerationRequests -> Ranks],
         DecideStep(route), NEW d \in Ranks
  PROVE  /\ LocalRequests(d) = {}
         /\ Moved(d, {r \in queuedGenerationRequests : route[r] = d},
                  engine[d], PortRequests(d))
<1>1. /\ LocalRequests(d) = {}
      /\ LocalRequests(d)' = Decision("STEP", Routed(route), NoVersion).requests[d]
  BY BroadcastSlices DEF DecideStep, PlacesInv
<1>2. Decision("STEP", Routed(route), NoVersion).requests[d] =
        {r \in queuedGenerationRequests : route[r] = d}
  BY DEF Decision, Routed
<1>3. UNCHANGED <<engine, resultPort>>
  BY DEF DecideStep, engineVars
<1> QED
  BY <1>1, <1>2, <1>3 DEF Moved, PortRequests

(* A rank that admits moves its slice into its engine.                     *)
LEMMA AdmitMoves ==
  ASSUME PlacesInv, NEW d \in Ranks, AdmitStep(d)
  PROVE  /\ Moved(d, {}, engine[d] \cup LocalRequests(d), PortRequests(d))
         /\ \A e \in Ranks \ {d} : Unmoved(e)
<1>1. TypeOK
  BY DEF PlacesInv
<1>2. UNCHANGED resultPort
  BY DEF AdmitStep, Admit
<1>3. engine' = [engine EXCEPT ![d] = @ \cup LocalRequests(d)]
  BY DEF AdmitStep, Admit
<1>4. inbox' = [inbox EXCEPT ![d] = NoDecision]
  BY DEF AdmitStep, Admit, Received
<1>5. Moved(d, {}, engine[d] \cup LocalRequests(d), PortRequests(d))
  <2>1. inbox'[d] = NoDecision
    BY <1>1, <1>4 DEF TypeOK, LoopTypeOK
  <2>2. LocalRequests(d)' = {}
    BY <2>1, EmptyDecisions DEF LocalRequests
  <2>3. engine'[d] = engine[d] \cup LocalRequests(d)
    BY <1>1, <1>3 DEF TypeOK, LoopTypeOK
  <2> QED
    BY <1>2, <2>2, <2>3 DEF Moved, PortRequests
<1>6. ASSUME NEW e \in Ranks \ {d}
      PROVE  Unmoved(e)
  <2>1. inbox'[e] = inbox[e] /\ engine'[e] = engine[e]
    BY <1>1, <1>3, <1>4 DEF TypeOK, LoopTypeOK
  <2> QED
    BY <1>2, <2>1 DEF Unmoved, Moved, LocalRequests, PortRequests
<1> QED
  BY <1>5, <1>6

(* What is finished by rank 0 is gone, by a peer it is in the port.        *)
LEMMA EngineStepMoves ==
  ASSUME PlacesInv, NEW d \in Ranks, NEW advanced, NEW finished,
         EngineStep(d, advanced, finished)
  PROVE  /\ Moved(d, LocalRequests(d), engine[d] \ finished,
                  IF d = 0 THEN PortRequests(d) ELSE PortRequests(d) \cup finished)
         /\ \A e \in Ranks \ {d} : Unmoved(e)
         /\ finished \subseteq engine[d]
         /\ d = 0 => UNCHANGED resultPort
         /\ d # 0 => resultPort' =
                       [resultPort EXCEPT ![d] = @ \cup
                         {[request |-> r, version |-> policyVersion[d]] :
                            r \in finished}]
<1>1. TypeOK
  BY DEF PlacesInv
<1>2. inbox' = inbox
  BY DEF EngineStep
<1>3. engine' = [engine EXCEPT ![d] = @ \ finished] /\ finished \subseteq engine[d]
  BY DEF EngineStep
<1>4. /\ d = 0 => UNCHANGED resultPort
      /\ d # 0 => resultPort' =
                    [resultPort EXCEPT ![d] = @ \cup
                      {[request |-> r, version |-> policyVersion[d]] :
                         r \in finished}]
  BY DEF EngineStep
<1>5. ASSUME NEW e \in Ranks \ {d}
      PROVE  Unmoved(e)
  <2>1. engine'[e] = engine[e] /\ resultPort'[e] = resultPort[e]
    BY <1>1, <1>3, <1>4 DEF TypeOK, LoopTypeOK, DispatcherTypeOK
  <2> QED
    BY <1>2, <2>1 DEF Unmoved, Moved, LocalRequests, PortRequests
<1>6. engine'[d] = engine[d] \ finished /\ LocalRequests(d)' = LocalRequests(d)
  BY <1>1, <1>2, <1>3 DEF TypeOK, LoopTypeOK, LocalRequests
<1>7. CASE d = 0
  BY <1>3, <1>4, <1>5, <1>6, <1>7 DEF Moved, PortRequests
<1>8. CASE d # 0
  <2>1. resultPort'[d] = resultPort[d] \cup
          {[request |-> r, version |-> policyVersion[d]] : r \in finished}
    BY <1>1, <1>4, <1>8 DEF TypeOK, DispatcherTypeOK
  <2>2. PortRequests(d)' = PortRequests(d) \cup finished
    <3> DEFINE results == {[request |-> r, version |-> policyVersion[d]] : r \in finished}
    <3>1. {result.request : result \in results} = finished
      <4>1. ASSUME NEW r \in finished
            PROVE  r \in {result.request : result \in results}
        <5>1. [request |-> r, version |-> policyVersion[d]] \in results
          OBVIOUS
        <5>2. [request |-> r, version |-> policyVersion[d]].request = r
          OBVIOUS
        <5> HIDE DEF results
        <5> QED
          BY <5>1, <5>2
      <4>2. ASSUME NEW result \in results
            PROVE  result.request \in finished
        OBVIOUS
      <4> HIDE DEF results
      <4> QED
        BY <4>1, <4>2
    <3> HIDE DEF results
    <3> QED
      BY <2>1, <3>1 DEF PortRequests, results
  <2> QED
    BY <1>3, <1>4, <1>5, <1>6, <1>8, <2>2 DEF Moved
<1> QED
  BY <1>7, <1>8

(* The drain task takes one result, and its request, out of a port.        *)
LEMMA DrainMoves ==
  ASSUME PlacesInv, NEW d \in Ranks, NEW result \in resultPort[d],
         DrainResult(d, result) \/ DrainRaises(d, result)
  PROVE  /\ Moved(d, LocalRequests(d), engine[d],
                  PortRequests(d) \ {result.request})
         /\ \A e \in Ranks \ {d} : Unmoved(e)
         /\ result.request \in PortRequests(d)
         /\ resultPort' = [resultPort EXCEPT ![d] = @ \ {result}]
<1>1. TypeOK
  BY DEF PlacesInv
<1>2. UNCHANGED <<inbox, engine>>
  BY DEF DrainResult, DrainRaises, engineVars
<1>3. resultPort' = [resultPort EXCEPT ![d] = @ \ {result}]
  BY DEF DrainResult, DrainRaises
<1>4. result.request \in PortRequests(d)
  BY DEF PortRequests
<1>5. ASSUME NEW e \in Ranks \ {d}
      PROVE  Unmoved(e)
  <2>1. resultPort'[e] = resultPort[e]
    BY <1>1, <1>3 DEF TypeOK, DispatcherTypeOK
  <2> QED
    BY <1>2, <2>1 DEF Unmoved, Moved, LocalRequests, PortRequests
<1>6. PortRequests(d)' = PortRequests(d) \ {result.request}
  <2>1. resultPort'[d] = resultPort[d] \ {result}
    BY <1>1, <1>3 DEF TypeOK, DispatcherTypeOK
  <2>2. \A x \in resultPort[d] : x.request = result.request => x = result
    BY DEF PlacesInv, StagesApart
  <2> QED
    BY <2>1, <2>2 DEF PortRequests
<1> QED
  BY <1>2, <1>3, <1>4, <1>5, <1>6 DEF Moved, LocalRequests

-------------------------------------------------------------------------------
(* The first invariant is preserved, conjunct by conjunct.                 *)

LEMMA EngineStepsStep ==
  ASSUME NEW d \in Ranks, EngineSteps(d)
  PROVE  \E advanced, finished : EngineStep(d, advanced, finished)
BY DEF EngineSteps

LEMMA DecisionsStayWellFormed ==
  ASSUME PlacesInv, [Next]_vars
  PROVE  WellFormedDecisions'
<1> USE GeneratorAssumption DEF PlacesInv
<1>0. TypeOK /\ LoopTypeOK /\ 0 \in Ranks
  BY DEF TypeOK, Ranks
<1>1. CASE UNCHANGED <<inbox, loopPc, applying, stepsLeft>>
  BY <1>1 DEF WellFormedDecisions
<1>2. ASSUME NEW decision, Broadcast(decision),
             UNCHANGED <<applying, stepsLeft>>,
             decision.action = "none" => decision = NoDecision,
             decision.action # "STEP" => decision.requests = NoRequests,
             decision.action = "PULL" => decision.version # NoVersion
      PROVE  WellFormedDecisions'
  BY <1>0, <1>2 DEF WellFormedDecisions, Broadcast, LoopTypeOK
<1>3. CASE DecideClose
  BY <1>2, <1>3 DEF DecideClose, Decision, engineVars
<1>4. CASE DecidePull
  BY <1>2, <1>4 DEF DecidePull, Decision, engineVars
<1>5. ASSUME NEW route \in [queuedGenerationRequests -> Ranks], DecideStep(route)
      PROVE  WellFormedDecisions'
  BY <1>2, <1>5 DEF DecideStep, Decision, engineVars
<1>6. ASSUME NEW d \in Ranks, ApplyClose(d) \/ ApplyPull(d) \/ AdmitStep(d)
      PROVE  WellFormedDecisions'
  <2>1. inbox' = [inbox EXCEPT ![d] = NoDecision]
    BY <1>6 DEF ApplyClose, ApplyPull, AdmitStep, Admit, Received
  <2>2. \A e \in Ranks :
          /\ inbox'[e].action = "none" => inbox'[e] = NoDecision
          /\ inbox'[e].action # "STEP" => inbox'[e].requests = NoRequests
          /\ inbox'[e].action = "PULL" => inbox'[e].version # NoVersion
    BY <2>1, <1>0 DEF WellFormedDecisions, NoDecision, Decision, LoopTypeOK
  <2>3. \A e \in Ranks :
          /\ loopPc'[e] = "pulling" => applying'[e] # NoVersion
          /\ loopPc'[e] = "stepping" => stepsLeft'[e] # 0
    BY <1>0, <1>6 DEF ApplyClose, ApplyPull, AdmitStep, Admit, engineVars,
                      WellFormedDecisions, LoopTypeOK, NextTurn
  <2> QED
    BY <2>2, <2>3 DEF WellFormedDecisions
<1>7. ASSUME NEW d \in Ranks, FinishPull(d) \/ EngineSteps(d) \/ CrashStep(d)
      PROVE  WellFormedDecisions'
  <2>1. inbox' = inbox
    BY <1>7 DEF FinishPull, EngineSteps, EngineStep, CrashStep, Crash
  <2>2. \A e \in Ranks : loopPc'[e] = "pulling" => applying'[e] # NoVersion
    BY <1>0, <1>7 DEF FinishPull, EngineSteps, EngineStep, CrashStep, Crash,
                      WellFormedDecisions, LoopTypeOK, NextTurn
  <2>3. \A e \in Ranks : loopPc'[e] = "stepping" => stepsLeft'[e] # 0
    BY <1>0, <1>7 DEF FinishPull, EngineSteps, EngineStep, CrashStep, Crash,
                      WellFormedDecisions, LoopTypeOK, NextTurn, engineVars
  <2> QED
    BY <2>1, <2>2, <2>3 DEF WellFormedDecisions
<1>8. CASE \/ PullModelStateDict \/ CloseRequested \/ CloseJoined \/ CloseReturns
           \/ UNCHANGED vars
           \/ \E r \in Requests : Generate(r)
           \/ \E d \in Ranks : \E result \in resultPort[d] :
                DrainResult(d, result) \/ DrainRaises(d, result)
  BY <1>1, <1>8 DEF PullModelStateDict, CloseRequested, CloseJoined, CloseReturns,
       vars, Generate, DrainResult, DrainRaises, engineVars
<1> QED
  BY <1>3, <1>4, <1>5, <1>6, <1>7, <1>8, StepCases DEF QuietStep

LEMMA LoopStaysJoined ==
  ASSUME PlacesInv, [Next]_vars
  PROVE  CloseJoinsLoop'
<1> USE GeneratorAssumption DEF PlacesInv
<1>0. TypeOK /\ LoopTypeOK /\ 0 \in Ranks
  BY DEF TypeOK, Ranks
<1>1. loopPc[0] \in {"closed", "crashed"} => loopPc'[0] = loopPc[0]
  <2> SUFFICES ASSUME loopPc[0] \in {"closed", "crashed"}
               PROVE  loopPc'[0] = loopPc[0]
    OBVIOUS
  <2>1. CASE UNCHANGED loopPc
    BY <2>1
  <2>2. ASSUME NEW d \in Ranks,
               \/ ApplyClose(d) \/ ApplyPull(d) \/ AdmitStep(d) \/ FinishPull(d)
               \/ EngineSteps(d) \/ CrashStep(d)
        PROVE  loopPc'[0] = loopPc[0]
    <3>1. d # 0
      BY <2>2 DEF ApplyClose, ApplyPull, AdmitStep, FinishPull, EngineSteps,
                  EngineStep, CrashStep, DecisionReached
    <3> QED
      BY <1>0, <2>2, <3>1 DEF ApplyClose, ApplyPull, AdmitStep, Admit, FinishPull,
            EngineSteps, EngineStep, CrashStep, Crash, LoopTypeOK
  <2>3. \A decision : ~Broadcast(decision)
    BY DEF Broadcast
  <2>4. CASE \/ PullModelStateDict \/ CloseRequested \/ CloseJoined
             \/ CloseReturns \/ UNCHANGED vars
             \/ \E r \in Requests : Generate(r)
             \/ \E d \in Ranks : \E result \in resultPort[d] :
                  DrainResult(d, result) \/ DrainRaises(d, result)
    BY <2>4 DEF PullModelStateDict, CloseRequested, CloseJoined,
         CloseReturns, vars, Generate, DrainResult, DrainRaises
  <2> QED
    BY <2>2, <2>3, <2>4, StepCases
       DEF QuietStep, DecideClose, DecidePull, DecideStep
<1>2. closePc' \in {"draining", "closed"} =>
        closePc \in {"draining", "closed"} \/ loopPc[0] \in {"closed", "crashed"}
  <2>1. CASE CloseRequested \/ CloseJoined \/ CloseReturns
    BY <2>1 DEF CloseRequested, CloseJoined, CloseReturns
  <2>2. CASE ~(CloseRequested \/ CloseJoined \/ CloseReturns)
    <3>1. UNCHANGED closePc
      BY <2>2, StepCases
         DEF QuietStep, PullModelStateDict, DecideClose, DecidePull, ApplyClose,
             ApplyPull, FinishPull, CrashStep, Crash, vars, closeVars, Generate,
             DecideStep, AdmitStep, Admit, EngineSteps, EngineStep, DrainResult,
             DrainRaises
    <3> QED
      BY <3>1
  <2> QED
    BY <2>1, <2>2
<1> QED
  BY <1>1, <1>2 DEF CloseJoinsLoop

LEMMA HeldIs ==
  ASSUME NEW d
  PROVE  Held(d) = LocalRequests(d) \cup engine[d] \cup PortRequests(d)
BY DEF Held, LocalRequests

LEMMA HeldType ==
  ASSUME TypeOK, NEW d \in Ranks
  PROVE  Held(d) \subseteq Requests
<1>1. LocalRequests(d) \subseteq Requests /\ engine[d] \subseteq Requests
  BY DEF TypeOK, LoopTypeOK, LocalRequests
<1>2. PortRequests(d) \subseteq Requests
  BY DEF TypeOK, DispatcherTypeOK, PortRequests
<1> QED
  BY <1>1, <1>2, HeldIs

(* What every step leaves where it is.                                     *)
LEMMA GenerateMoves ==
  ASSUME NEW r \in Requests, Generate(r)
  PROVE  /\ \A d \in Ranks : Unmoved(d)
         /\ UNCHANGED <<inbox, engine, resultPort, reservations, reservedLoad,
                        tokens, sampled, minPolicyVersion, completion, loopPc,
                        closePc>>
BY DEF Generate, Unmoved, Moved, LocalRequests, PortRequests, engineVars, closeVars

LEMMA StagesStayApart ==
  ASSUME PlacesInv, [Next]_vars
  PROVE  StagesApart'
<1> USE DEF PlacesInv
<1> SUFFICES ASSUME NEW d \in Ranks
             PROVE  /\ LocalRequests(d)' \cap engine'[d] = {}
                    /\ LocalRequests(d)' \cap PortRequests(d)' = {}
                    /\ engine'[d] \cap PortRequests(d)' = {}
                    /\ \A x, y \in resultPort'[d] :
                         x.request = y.request => x = y
  BY DEF StagesApart, LocalRequests
<1> DEFINE Apart == /\ LocalRequests(d)' \cap engine'[d] = {}
                    /\ LocalRequests(d)' \cap PortRequests(d)' = {}
                    /\ engine'[d] \cap PortRequests(d)' = {}
           Once == \A x, y \in resultPort'[d] : x.request = y.request => x = y
<1>1. /\ LocalRequests(d) \cap engine[d] = {}
      /\ LocalRequests(d) \cap PortRequests(d) = {}
      /\ engine[d] \cap PortRequests(d) = {}
      /\ \A x, y \in resultPort[d] : x.request = y.request => x = y
  BY DEF StagesApart, LocalRequests
<1>2. Unmoved(d) => Apart
  BY <1>1 DEF Unmoved, Moved
<1>3. resultPort'[d] = resultPort[d] => Once
  BY <1>1
<1> HIDE DEF Apart, Once
<1>4. CASE QuietStep
  BY <1>2, <1>3, <1>4, QuietMovesNothing DEF QuietEffect, Apart, Once
<1>5. CASE \E r \in Requests : Generate(r)
  BY <1>2, <1>3, <1>5, GenerateMoves DEF Apart, Once
<1>6. ASSUME NEW route \in [queuedGenerationRequests -> Ranks], DecideStep(route)
      PROVE  Apart /\ Once
  <2>1. resultPort' = resultPort
    BY <1>6 DEF DecideStep
  <2>2. queuedGenerationRequests \cap Held(d) = {}
    BY DEF HoldersApart
  <2>3. Moved(d, {r \in queuedGenerationRequests : route[r] = d},
                 engine[d], PortRequests(d))
    BY <1>6, DecideStepMoves
  <2>4. Apart
    BY <1>1, <2>2, <2>3, HeldIs DEF Apart, Moved
  <2> QED
    BY <1>3, <2>1, <2>4
<1>7. ASSUME NEW e \in Ranks, AdmitStep(e)
      PROVE  Apart /\ Once
  <2>1. resultPort' = resultPort
    BY <1>7 DEF AdmitStep, Admit
  <2>2. CASE e = d
    BY <1>1, <1>3, <1>7, <2>1, <2>2, AdmitMoves DEF Apart, Moved
  <2>3. CASE e # d
    BY <1>2, <1>3, <1>7, <2>1, <2>3, AdmitMoves
  <2> QED
    BY <2>2, <2>3
<1>8. ASSUME NEW e \in Ranks, EngineSteps(e)
      PROVE  Apart /\ Once
  <2>1. PICK advanced, finished : EngineStep(e, advanced, finished)
    BY <1>8, EngineStepsStep
  <2>2. TypeOK
    OBVIOUS
  <2>3. CASE e # d
    <3>1. resultPort'[d] = resultPort[d]
      BY <2>1, <2>2, <2>3, EngineStepMoves DEF TypeOK, DispatcherTypeOK
    <3>2. Unmoved(d)
      BY <2>1, <2>3, EngineStepMoves
    <3> QED
      BY <1>2, <1>3, <3>1, <3>2
  <2>4. CASE e = d
    <3>1. Apart
      BY <1>1, <2>1, <2>4, EngineStepMoves DEF Apart, Moved
    <3>2. CASE d = 0
      BY <1>3, <2>1, <2>4, <3>1, <3>2, EngineStepMoves
    <3>3. CASE d # 0
      <4> DEFINE new == {[request |-> r, version |-> policyVersion[d]] : r \in finished}
      <4>1. resultPort' = [resultPort EXCEPT ![d] = @ \cup new]
        BY <2>1, <2>4, <3>3 DEF EngineStep
      <4>2. resultPort'[d] = resultPort[d] \cup new
        BY <2>2, <4>1 DEF TypeOK, DispatcherTypeOK
      <4>6. finished \subseteq engine[d]
        BY <2>1, <2>4 DEF EngineStep
      <4>7. \A x \in new : x.request \in engine[d]
        BY <4>6
      <4>3. \A x, y \in new : x.request = y.request => x = y
        OBVIOUS
      <4> HIDE DEF new
      <4>4. \A x \in resultPort[d], y \in new : x.request # y.request
        BY <1>1, <4>7 DEF PortRequests
      <4>5. Once
        BY <1>1, <4>2, <4>3, <4>4 DEF Once
      <4> QED
        BY <3>1, <4>5
    <3> QED
      BY <3>2, <3>3
  <2> QED
    BY <2>3, <2>4
<1>9. ASSUME NEW e \in Ranks, NEW result \in resultPort[e],
             DrainResult(e, result) \/ DrainRaises(e, result)
      PROVE  Apart /\ Once
  <2>1. resultPort'[d] \subseteq resultPort[d]
    BY <1>9 DEF DrainResult, DrainRaises, TypeOK, DispatcherTypeOK
  <2>2. Once
    BY <1>1, <2>1 DEF Once
  <2>3. CASE e = d
    BY <1>1, <1>9, <2>2, <2>3, DrainMoves DEF Apart, Moved
  <2>4. CASE e # d
    BY <1>2, <1>9, <2>2, <2>4, DrainMoves
  <2> QED
    BY <2>3, <2>4
<1> QED
  BY <1>4, <1>5, <1>6, <1>7, <1>8, <1>9, StepCases DEF Apart, Once

(* What each step does to what the ranks hold.                             *)
LEMMA HeldSteps ==
  ASSUME PlacesInv
  PROVE  /\ QuietStep => \A d \in Ranks : Held(d)' = Held(d)
         /\ \A r \in Requests : Generate(r) => \A d \in Ranks : Held(d)' = Held(d)
         /\ \A route \in [queuedGenerationRequests -> Ranks] : DecideStep(route) =>
              \A d \in Ranks :
                Held(d)' = Held(d) \cup {r \in queuedGenerationRequests : route[r] = d}
         /\ \A d \in Ranks : AdmitStep(d) => \A e \in Ranks : Held(e)' = Held(e)
         /\ \A d \in Ranks : \A advanced, finished : EngineStep(d, advanced, finished) =>
              /\ \A e \in Ranks \ {d} : Held(e)' = Held(e)
              /\ Held(d)' = IF d = 0 THEN Held(d) \ finished ELSE Held(d)
         /\ \A d \in Ranks : \A result \in resultPort[d] :
              DrainResult(d, result) \/ DrainRaises(d, result) =>
                /\ \A e \in Ranks \ {d} : Held(e)' = Held(e)
                /\ Held(d)' = Held(d) \ {result.request}
<1>1. ASSUME NEW d, Unmoved(d)
      PROVE  Held(d)' = Held(d)
  BY <1>1 DEF Unmoved, Moved, Held, LocalRequests
<1>2. QuietStep => \A d \in Ranks : Held(d)' = Held(d)
  BY <1>1, QuietMovesNothing DEF QuietEffect
<1>3. \A r \in Requests : Generate(r) => \A d \in Ranks : Held(d)' = Held(d)
  BY <1>1, GenerateMoves
<1>4. ASSUME NEW route \in [queuedGenerationRequests -> Ranks], DecideStep(route),
             NEW d \in Ranks
      PROVE  Held(d)' = Held(d) \cup {r \in queuedGenerationRequests : route[r] = d}
  <2>1. Held(d)' = {r \in queuedGenerationRequests : route[r] = d}
                     \cup engine[d] \cup PortRequests(d)
    BY <1>4, DecideStepMoves DEF Moved, Held, LocalRequests
  <2> QED
    BY <1>4, <2>1, DecideStepMoves, HeldIs
<1>5. ASSUME NEW d \in Ranks, AdmitStep(d), NEW e \in Ranks
      PROVE  Held(e)' = Held(e)
  <2>1. CASE e = d
    <3>1. Held(d)' = {} \cup (engine[d] \cup LocalRequests(d)) \cup PortRequests(d)
      BY <1>5, AdmitMoves DEF Moved, Held, LocalRequests
    <3> QED
      BY <2>1, <3>1, HeldIs
  <2>2. CASE e # d
    BY <1>1, <1>5, <2>2, AdmitMoves
  <2> QED
    BY <2>1, <2>2
<1>6. ASSUME NEW d \in Ranks, NEW advanced, NEW finished,
             EngineStep(d, advanced, finished)
      PROVE  /\ \A e \in Ranks \ {d} : Held(e)' = Held(e)
             /\ Held(d)' = IF d = 0 THEN Held(d) \ finished ELSE Held(d)
  <2>1. \A e \in Ranks \ {d} : Held(e)' = Held(e)
    BY <1>1, <1>6, EngineStepMoves
  <2>2. Held(d)' = LocalRequests(d) \cup (engine[d] \ finished) \cup
                    (IF d = 0 THEN PortRequests(d) ELSE PortRequests(d) \cup finished)
    BY <1>6, EngineStepMoves DEF Moved, Held, LocalRequests
  <2>3. finished \subseteq engine[d]
    BY <1>6, EngineStepMoves
  <2>4. /\ LocalRequests(d) \cap engine[d] = {}
        /\ engine[d] \cap PortRequests(d) = {}
    BY DEF PlacesInv, StagesApart, LocalRequests
  <2> QED
    BY <2>1, <2>2, <2>3, <2>4, HeldIs
<1>7. ASSUME NEW d \in Ranks, NEW result \in resultPort[d],
             DrainResult(d, result) \/ DrainRaises(d, result)
      PROVE  /\ \A e \in Ranks \ {d} : Held(e)' = Held(e)
             /\ Held(d)' = Held(d) \ {result.request}
  <2>1. \A e \in Ranks \ {d} : Held(e)' = Held(e)
    BY <1>1, <1>7, DrainMoves
  <2>2. Held(d)' = LocalRequests(d) \cup engine[d]
                     \cup (PortRequests(d) \ {result.request})
    BY <1>7, DrainMoves DEF Moved, Held, LocalRequests
  <2>3. result.request \in PortRequests(d)
    BY <1>7, DrainMoves
  <2>4. /\ LocalRequests(d) \cap PortRequests(d) = {}
        /\ engine[d] \cap PortRequests(d) = {}
    BY DEF PlacesInv, StagesApart, LocalRequests
  <2> QED
    BY <2>1, <2>2, <2>3, <2>4, HeldIs
<1> QED
  BY <1>2, <1>3, <1>4, <1>5, <1>6, <1>7

LEMMA HoldersStayApart ==
  ASSUME PlacesInv, [Next]_vars
  PROVE  HoldersApart'
<1> USE DEF PlacesInv
<1> DEFINE queue == queuedGenerationRequests
<1> SUFFICES ASSUME NEW d \in Ranks
             PROVE  /\ queue' \cap Held(d)' = {}
                    /\ \A e \in Ranks : d # e => Held(d)' \cap Held(e)' = {}
  BY DEF HoldersApart
<1>1. ASSUME queue' = queue, \A e \in Ranks : Held(e)' \subseteq Held(e)
      PROVE  /\ queue' \cap Held(d)' = {}
             /\ \A e \in Ranks : d # e => Held(d)' \cap Held(e)' = {}
  BY <1>1 DEF HoldersApart
<1>2. CASE QuietStep
  BY <1>1, <1>2, QuietMovesNothing, HeldSteps DEF QuietEffect
<1>3. ASSUME NEW r \in Requests, Generate(r)
      PROVE  /\ queue' \cap Held(d)' = {}
             /\ \A e \in Ranks : d # e => Held(d)' \cap Held(e)' = {}
  <2>1. queue' \subseteq queue \cup {r} /\ call[r] = "idle"
    BY <1>3 DEF Generate
  <2>2. \A e \in Ranks : Held(e)' = Held(e)
    BY <1>3, HeldSteps
  <2>3. r \notin Held(d)
    BY <2>1 DEF Uncalled, Reserved
  <2> QED
    BY <2>1, <2>2, <2>3 DEF HoldersApart
<1>4. ASSUME NEW route \in [queuedGenerationRequests -> Ranks], DecideStep(route)
      PROVE  /\ queue' \cap Held(d)' = {}
             /\ \A e \in Ranks : d # e => Held(d)' \cap Held(e)' = {}
  <2>1. queue' = {}
    BY <1>4 DEF DecideStep
  <2>2. \A e \in Ranks : Held(e)' = Held(e) \cup {r \in queue : route[r] = e}
    BY <1>4, HeldSteps
  <2> QED
    BY <2>1, <2>2 DEF HoldersApart
<1>5. ASSUME NEW e \in Ranks, AdmitStep(e)
      PROVE  queue' = queue /\ \A x \in Ranks : Held(x)' \subseteq Held(x)
  BY <1>5, HeldSteps DEF AdmitStep, Admit
<1>6. ASSUME NEW e \in Ranks, EngineSteps(e)
      PROVE  queue' = queue /\ \A x \in Ranks : Held(x)' \subseteq Held(x)
  <2>1. PICK advanced, finished : EngineStep(e, advanced, finished)
    BY <1>6, EngineStepsStep
  <2>2. /\ \A x \in Ranks \ {e} : Held(x)' = Held(x)
        /\ Held(e)' = IF e = 0 THEN Held(e) \ finished ELSE Held(e)
    BY <2>1, HeldSteps
  <2> QED
    BY <2>1, <2>2 DEF EngineStep
<1>7. ASSUME NEW e \in Ranks, NEW result \in resultPort[e],
             DrainResult(e, result) \/ DrainRaises(e, result)
      PROVE  queue' = queue /\ \A x \in Ranks : Held(x)' \subseteq Held(x)
  <2>1. /\ \A x \in Ranks \ {e} : Held(x)' = Held(x)
        /\ Held(e)' = Held(e) \ {result.request}
    BY <1>7, HeldSteps
  <2> QED
    BY <1>7, <2>1 DEF DrainResult, DrainRaises
<1> QED
  BY <1>1, <1>2, <1>3, <1>4, <1>5, <1>6, <1>7, StepCases

(* Neither a crash of rank 0 nor the end of close is undone.               *)
LEMMA OutOfServiceForGood ==
  ASSUME PlacesInv, [Next]_vars, InService'
  PROVE  InService
<1> USE DEF PlacesInv
<1>0. 0 \in Ranks /\ TypeOK /\ LoopTypeOK
  BY GeneratorAssumption DEF Ranks, TypeOK
<1>1. CASE QuietStep
  BY <1>1, QuietMovesNothing DEF QuietEffect
<1>2. CASE \E r \in Requests : Generate(r)
  BY <1>2, GenerateMoves DEF InService
<1>3. CASE \E route \in [queuedGenerationRequests -> Ranks] : DecideStep(route)
  BY <1>3 DEF DecideStep, Broadcast, InService, closeVars
<1>4. ASSUME NEW d \in Ranks, AdmitStep(d) \/ EngineSteps(d)
      PROVE  InService
  <2>1. closePc' = closePc
    BY <1>4 DEF AdmitStep, Admit, EngineSteps, EngineStep, closeVars
  <2>2. loopPc'[0] # "crashed" => loopPc[0] # "crashed"
    BY <1>0, <1>4 DEF AdmitStep, Admit, DecisionReached, EngineSteps, EngineStep,
                      LoopTypeOK
  <2> QED
    BY <2>1, <2>2 DEF InService
<1>5. ASSUME NEW d \in Ranks, NEW result \in resultPort[d],
             DrainResult(d, result) \/ DrainRaises(d, result)
      PROVE  InService
  BY <1>5 DEF DrainResult, DrainRaises, InService, closeVars
<1> QED
  BY <1>1, <1>2, <1>3, <1>4, <1>5, StepCases

LEMMA StaysRegistered ==
  ASSUME PlacesInv, [Next]_vars
  PROVE  Registered'
<1> USE DEF PlacesInv
<1> DEFINE queue == queuedGenerationRequests
           futures == generationFutures
<1> SUFFICES ASSUME InService', NEW r \in Requests
             PROVE  r \in futures' <=> r \in queue' \/ \E d \in Ranks : r \in Held(d)'
  BY DEF Registered
<1>1. r \in futures <=> r \in queue \/ \E d \in Ranks : r \in Held(d)
  BY OutOfServiceForGood DEF Registered
<1>2. CASE QuietStep
  BY <1>1, <1>2, QuietMovesNothing, HeldSteps DEF QuietEffect
<1>3. ASSUME NEW s \in Requests, Generate(s)
      PROVE  r \in futures' <=> r \in queue' \/ \E d \in Ranks : r \in Held(d)'
  <2>1. \/ futures' = futures \cup {s} /\ queue' = queue \cup {s}
        \/ futures' = futures /\ queue' = queue
    BY <1>3 DEF Generate
  <2>2. \A d \in Ranks : Held(d)' = Held(d)
    BY <1>3, HeldSteps
  <2> QED
    BY <1>1, <2>1, <2>2
<1>4. ASSUME NEW route \in [queuedGenerationRequests -> Ranks], DecideStep(route)
      PROVE  r \in futures' <=> r \in queue' \/ \E d \in Ranks : r \in Held(d)'
  <2>1. queue' = {} /\ futures' = futures
    BY <1>4 DEF DecideStep
  <2>2. \A d \in Ranks : Held(d)' = Held(d) \cup {s \in queue : route[s] = d}
    BY <1>4, HeldSteps
  <2>3. r \in queue => route[r] \in Ranks
    OBVIOUS
  <2> QED
    BY <1>1, <2>1, <2>2, <2>3
<1>5. ASSUME NEW e \in Ranks, AdmitStep(e)
      PROVE  r \in futures' <=> r \in queue' \/ \E d \in Ranks : r \in Held(d)'
  <2>1. \A d \in Ranks : Held(d)' = Held(d)
    BY <1>5, HeldSteps
  <2>2. queue' = queue /\ futures' = futures
    BY <1>5 DEF AdmitStep, Admit
  <2> QED
    BY <1>1, <2>1, <2>2
<1>6. ASSUME NEW e \in Ranks, EngineSteps(e)
      PROVE  r \in futures' <=> r \in queue' \/ \E d \in Ranks : r \in Held(d)'
  <2>1. PICK advanced, finished : EngineStep(e, advanced, finished)
    BY <1>6, EngineStepsStep
  <2>2. /\ \A x \in Ranks \ {e} : Held(x)' = Held(x)
        /\ Held(e)' = IF e = 0 THEN Held(e) \ finished ELSE Held(e)
    BY <2>1, HeldSteps
  <2>3. queue' = queue
    BY <2>1 DEF EngineStep
  <2>4. futures' = IF e = 0 THEN futures \ finished ELSE futures
    BY <2>1 DEF EngineStep, Resolve, futureVars
  <2>5. finished \subseteq Held(e)
    BY <2>1, EngineStepMoves, HeldIs
  <2>6. r \in finished => r \notin queue /\ \A x \in Ranks \ {e} : r \notin Held(x)
    BY <2>5 DEF HoldersApart
  <2> QED
    BY <1>1, <2>2, <2>3, <2>4, <2>5, <2>6
<1>7. ASSUME NEW e \in Ranks, NEW result \in resultPort[e],
             DrainResult(e, result) \/ DrainRaises(e, result)
      PROVE  r \in futures' <=> r \in queue' \/ \E d \in Ranks : r \in Held(d)'
  <2>1. /\ \A x \in Ranks \ {e} : Held(x)' = Held(x)
        /\ Held(e)' = Held(e) \ {result.request}
    BY <1>7, HeldSteps
  <2>2. queue' = queue /\ futures' = futures \ {result.request}
    BY <1>7 DEF DrainResult, DrainRaises, Resolve
  <2>3. result.request \in Held(e)
    BY <1>7, DrainMoves, HeldIs
  <2>4. r = result.request =>
          r \notin queue /\ \A x \in Ranks \ {e} : r \notin Held(x)
    BY <2>3 DEF HoldersApart
  <2> QED
    BY <1>1, <2>1, <2>2, <2>3, <2>4
<1> QED
  BY <1>2, <1>3, <1>4, <1>5, <1>6, <1>7, StepCases

-------------------------------------------------------------------------------
(* The load reserved for a rank.                                           *)

LoadIs(load, held) ==
  \A d \in Ranks : load[d] = Cardinality({r \in DOMAIN held : held[r] = d})

ReservedFor(held, d) == {r \in DOMAIN held : held[r] = d}

(* Reserving one rank for each of some new requests adds them up.          *)
LEMMA LoadAfterReserving ==
  ASSUME NEW queue, NEW held, NEW load, NEW route \in [queue -> Ranks],
         IsFiniteSet(queue), IsFiniteSet(DOMAIN held),
         queue \cap DOMAIN held = {}, LoadIs(load, held),
         NEW new, new = [r \in DOMAIN held \cup queue |->
                           IF r \in queue THEN route[r] ELSE held[r]]
  PROVE  /\ IsFiniteSet(DOMAIN new)
         /\ \A d \in Ranks :
              load[d] + Cardinality(ReservedFor(route, d)) =
                Cardinality(ReservedFor(new, d))
<1>1. IsFiniteSet(DOMAIN new)
  BY FS_Union
<1>2. ASSUME NEW d \in Ranks
      PROVE  load[d] + Cardinality(ReservedFor(route, d)) =
               Cardinality(ReservedFor(new, d))
  <2> DEFINE Q == {r \in queue : route[r] = d}
             H == {r \in DOMAIN held : held[r] = d}
  <2>1. ReservedFor(new, d) = H \cup Q /\ ReservedFor(route, d) = Q
    BY DEF ReservedFor
  <2>2. H \cap Q = {}
    OBVIOUS
  <2>3. IsFiniteSet(Q) /\ IsFiniteSet(H)
    BY FS_Subset
  <2>4. load[d] = Cardinality(H)
    BY DEF LoadIs
  <2> HIDE DEF Q, H
  <2>5. Cardinality(H \cup Q) =
          Cardinality(H) + Cardinality(Q) - Cardinality(H \cap Q)
    BY <2>3, FS_Union
  <2>6. Cardinality(H \cap Q) = 0
    BY <2>2, FS_EmptySet
  <2>7. Cardinality(H) \in Nat /\ Cardinality(Q) \in Nat
    BY <2>3, FS_CardinalityType
  <2>8. load[d] + Cardinality(Q) = Cardinality(H \cup Q)
    BY <2>4, <2>5, <2>6, <2>7
  <2> QED
    BY <2>1, <2>8
<1> QED
  BY <1>1, <1>2

(* Releasing some of the reserved requests takes them off.                 *)
LEMMA LoadAfterReleasing ==
  ASSUME NEW finished, NEW held, NEW load, IsFiniteSet(DOMAIN held),
         finished \subseteq DOMAIN held, LoadIs(load, held),
         NEW rest, rest = [r \in DOMAIN held \ finished |-> held[r]]
  PROVE  /\ IsFiniteSet(DOMAIN rest)
         /\ \A d \in Ranks :
              load[d] - Cardinality({r \in finished : held[r] = d}) =
                Cardinality({r \in DOMAIN rest : rest[r] = d})
<1>1. IsFiniteSet(DOMAIN rest)
  BY FS_Subset
<1>2. ASSUME NEW d \in Ranks
      PROVE  load[d] - Cardinality({r \in finished : held[r] = d}) =
               Cardinality({r \in DOMAIN rest : rest[r] = d})
  <2> DEFINE F == {r \in finished : held[r] = d}
             H == {r \in DOMAIN held : held[r] = d}
  <2>1. {r \in DOMAIN rest : rest[r] = d} = H \ F
    OBVIOUS
  <2>2. F \subseteq H
    OBVIOUS
  <2>3. IsFiniteSet(F) /\ IsFiniteSet(H)
    BY FS_Subset
  <2>4. load[d] = Cardinality(H)
    BY DEF LoadIs
  <2> HIDE DEF F, H
  <2>5. Cardinality(H \ F) = Cardinality(H) - Cardinality(H \cap F)
    BY <2>3, FS_Difference
  <2>6. H \cap F = F
    BY <2>2
  <2> QED
    BY <2>1, <2>4, <2>5, <2>6 DEF F
<1> QED
  BY <1>1, <1>2

(* finished requests are released, and nothing else is.                    *)
LEMMA ResolveReleases ==
  ASSUME PlacesInv, NEW finished, NEW version, Resolve(finished, version),
         finished \subseteq DOMAIN reservations
  PROVE  /\ DOMAIN reservations' = DOMAIN reservations \ finished
         /\ IsFiniteSet(DOMAIN reservations')
         /\ LoadIs(reservedLoad', reservations')
<1>1. IsFiniteSet(DOMAIN reservations) /\ LoadIs(reservedLoad, reservations)
  BY DEF PlacesInv, Reserved, LoadIs
<1>2. reservations' = [r \in DOMAIN reservations \ finished |-> reservations[r]]
  BY DEF Resolve
<1>3. \A d \in Ranks :
        reservedLoad'[d] =
          reservedLoad[d] - Cardinality({r \in finished : reservations[r] = d})
  BY DEF Resolve, LoadAfterRelease
<1>4. /\ IsFiniteSet(DOMAIN reservations')
      /\ \A d \in Ranks :
           reservedLoad[d] - Cardinality({r \in finished : reservations[r] = d}) =
             Cardinality({r \in DOMAIN reservations' : reservations'[r] = d})
  BY <1>1, <1>2, LoadAfterReleasing
<1> QED
  BY <1>2, <1>3, <1>4 DEF LoadIs

LEMMA StaysReserved ==
  ASSUME PlacesInv, [Next]_vars
  PROVE  Reserved'
<1> USE DEF PlacesInv
<1> DEFINE queue == queuedGenerationRequests
           held == DOMAIN reservations
<1>1. /\ IsFiniteSet(queue) /\ IsFiniteSet(held) /\ queue \cap held = {}
      /\ \A d \in Ranks : Held(d) \subseteq held
      /\ LoadIs(reservedLoad, reservations)
  BY DEF Reserved, LoadIs
<1> SUFFICES /\ IsFiniteSet(queue') /\ IsFiniteSet(held') /\ queue' \cap held' = {}
             /\ \A d \in Ranks : Held(d)' \subseteq held'
             /\ LoadIs(reservedLoad', reservations')
  BY DEF Reserved, LoadIs
<1> DEFINE Goal == /\ IsFiniteSet(queue') /\ IsFiniteSet(held')
                   /\ queue' \cap held' = {}
                   /\ \A d \in Ranks : Held(d)' \subseteq held'
                   /\ LoadIs(reservedLoad', reservations')
<1>2. ASSUME queue' = queue, reservations' = reservations,
             reservedLoad' = reservedLoad,
             \A d \in Ranks : Held(d)' \subseteq Held(d)
      PROVE  Goal
  BY <1>1, <1>2
<1>3. CASE QuietStep
  <2>1. queue' = queue /\ reservations' = reservations /\ reservedLoad' = reservedLoad
    BY <1>3, QuietMovesNothing DEF QuietEffect
  <2>2. \A d \in Ranks : Held(d)' = Held(d)
    BY <1>3, HeldSteps
  <2> QED
    BY <1>2, <2>1, <2>2
<1>4. ASSUME NEW r \in Requests, Generate(r)
      PROVE  Goal
  <2>1. UNCHANGED <<reservations, reservedLoad>>
    BY <1>4, GenerateMoves
  <2>2. \A d \in Ranks : Held(d)' = Held(d)
    BY <1>4, HeldSteps
  <2>3. (queue' = queue \cup {r} \/ queue' = queue) /\ r \notin held
    BY <1>4 DEF Generate, Uncalled
  <2>4. IsFiniteSet(queue')
    BY <1>1, <2>3, FS_AddElement
  <2> QED
    BY <1>1, <2>1, <2>2, <2>3, <2>4
<1>5. ASSUME NEW route \in [queuedGenerationRequests -> Ranks], DecideStep(route)
      PROVE  Goal
  <2>1. queue' = {} /\ IsFiniteSet(queue')
    BY <1>5, FS_EmptySet DEF DecideStep
  <2>2. reservations' = [r \in held \cup queue |->
                           IF r \in queue THEN route[r] ELSE reservations[r]]
    BY <1>5 DEF DecideStep
  <2>3. \A d \in Ranks :
          reservedLoad'[d] =
            reservedLoad[d] + Cardinality({r \in queue : route[r] = d})
    BY <1>5 DEF DecideStep, LoadAfterReserve
  <2>4. /\ IsFiniteSet(held')
        /\ \A d \in Ranks :
             reservedLoad[d] + Cardinality({r \in queue : route[r] = d}) =
               Cardinality({r \in held' : reservations'[r] = d})
    <3> DEFINE old == reservations
               new == reservations'
               load == reservedLoad
               waiting == queuedGenerationRequests
    <3>1. route \in [waiting -> Ranks]
      OBVIOUS
    <3>2. /\ IsFiniteSet(waiting) /\ IsFiniteSet(DOMAIN old)
          /\ waiting \cap DOMAIN old = {} /\ LoadIs(load, old)
      BY <1>1
    <3>3. new = [r \in DOMAIN old \cup waiting |->
                   IF r \in waiting THEN route[r] ELSE old[r]]
      BY <2>2
    <3> HIDE DEF old, new, load, waiting
    <3>4. /\ IsFiniteSet(DOMAIN new)
          /\ \A d \in Ranks :
               load[d] + Cardinality(ReservedFor(route, d)) =
                 Cardinality(ReservedFor(new, d))
      BY <3>1, <3>2, <3>3, LoadAfterReserving
    <3>5. \A d : ReservedFor(route, d) = {r \in queue : route[r] = d}
      BY DEF ReservedFor
    <3>6. \A d : ReservedFor(new, d) = {r \in held' : reservations'[r] = d}
      BY DEF ReservedFor, new
    <3> QED
      BY <3>4, <3>5, <3>6 DEF new, load
  <2>5. LoadIs(reservedLoad', reservations')
    BY <2>3, <2>4 DEF LoadIs
  <2>6. \A d \in Ranks : Held(d)' = Held(d) \cup {r \in queue : route[r] = d}
    BY <1>5, HeldSteps
  <2>7. held' = held \cup queue
    BY <2>2
  <2>8. \A d \in Ranks : Held(d)' \subseteq held'
    BY <1>1, <2>6, <2>7
  <2> QED
    BY <2>1, <2>4, <2>5, <2>8
<1>6. ASSUME NEW e \in Ranks, AdmitStep(e)
      PROVE  Goal
  <2>1. queue' = queue /\ reservations' = reservations /\ reservedLoad' = reservedLoad
    BY <1>6 DEF AdmitStep, Admit
  <2>2. \A d \in Ranks : Held(d)' = Held(d)
    BY <1>6, HeldSteps
  <2> QED
    BY <1>2, <2>1, <2>2
<1>7. ASSUME NEW e \in Ranks, EngineSteps(e)
      PROVE  Goal
  <2>1. PICK advanced, finished : EngineStep(e, advanced, finished)
    BY <1>7, EngineStepsStep
  <2>2. /\ \A x \in Ranks \ {e} : Held(x)' = Held(x)
        /\ Held(e)' = IF e = 0 THEN Held(e) \ finished ELSE Held(e)
    BY <2>1, HeldSteps
  <2>3. queue' = queue
    BY <2>1 DEF EngineStep
  <2>4. CASE e # 0
    BY <1>2, <2>1, <2>2, <2>3, <2>4 DEF EngineStep, futureVars
  <2>5. CASE e = 0
    <3>1. finished \subseteq Held(e)
      BY <2>1, EngineStepMoves, HeldIs
    <3>2. Resolve(finished, policyVersion[0])
      BY <2>1, <2>5 DEF EngineStep
    <3>3. /\ held' = held \ finished
          /\ IsFiniteSet(held')
          /\ LoadIs(reservedLoad', reservations')
      BY <1>1, <3>1, <3>2, ResolveReleases
    <3>4. \A x \in Ranks \ {e} : Held(x) \cap finished = {}
      BY <3>1 DEF HoldersApart
    <3> QED
      BY <1>1, <2>2, <2>3, <2>5, <3>3, <3>4
  <2> QED
    BY <2>4, <2>5
<1>8. ASSUME NEW e \in Ranks, NEW result \in resultPort[e],
             DrainResult(e, result) \/ DrainRaises(e, result)
      PROVE  Goal
  <2>1. /\ \A x \in Ranks \ {e} : Held(x)' = Held(x)
        /\ Held(e)' = Held(e) \ {result.request}
    BY <1>8, HeldSteps
  <2>2. queue' = queue
    BY <1>8 DEF DrainResult, DrainRaises
  <2>3. CASE DrainRaises(e, result)
    BY <1>2, <2>1, <2>2, <2>3 DEF DrainRaises
  <2>4. CASE DrainResult(e, result)
    <3>1. result.request \in Held(e)
      BY <1>8, DrainMoves, HeldIs
    <3>2. Resolve({result.request}, result.version)
      BY <2>4 DEF DrainResult
    <3>3. /\ held' = held \ {result.request}
          /\ IsFiniteSet(held')
          /\ LoadIs(reservedLoad', reservations')
      <4>1. {result.request} \subseteq DOMAIN reservations
        BY <1>1, <3>1
      <4>2. PlacesInv
        OBVIOUS
      <4> HIDE DEF PlacesInv
      <4> QED
        BY <3>2, <4>1, <4>2, ResolveReleases
    <3>4. \A x \in Ranks \ {e} : result.request \notin Held(x)
      BY <3>1 DEF HoldersApart
    <3> QED
      BY <1>1, <2>1, <2>2, <3>3, <3>4
  <2> QED
    BY <1>8, <2>3, <2>4
<1> QED
  BY <1>3, <1>4, <1>5, <1>6, <1>7, <1>8, StepCases

-------------------------------------------------------------------------------
LEMMA StaysUncalled ==
  ASSUME PlacesInv, [Next]_vars
  PROVE  Uncalled'
<1> USE DEF PlacesInv
<1> DEFINE queue == queuedGenerationRequests
           held == DOMAIN reservations
           futures == generationFutures
<1> SUFFICES ASSUME NEW r \in Requests, call'[r] = "idle"
             PROVE  /\ tokens'[r] = 0 /\ sampled'[r] = {}
                    /\ r \notin queue' /\ r \notin held' /\ r \notin futures'
  BY DEF Uncalled, Fresh
<1> DEFINE Goal == /\ tokens'[r] = 0 /\ sampled'[r] = {}
                   /\ r \notin queue' /\ r \notin held' /\ r \notin futures'
<1>0. TypeOK /\ EndpointTypeOK
  BY DEF TypeOK
<1>1. call[r] = "idle" => /\ tokens[r] = 0 /\ sampled[r] = {}
                          /\ r \notin queue /\ r \notin held /\ r \notin futures
                          /\ \A d \in Ranks : r \notin Held(d)
  BY DEF Uncalled, Fresh, Reserved
<1>2. CASE QuietStep
  <2>1. QuietEffect
    BY <1>2, QuietMovesNothing
  <2>2. call[r] = "idle"
    BY <2>1 DEF QuietEffect
  <2> QED
    BY <1>1, <2>1, <2>2 DEF QuietEffect
<1>3. ASSUME NEW s \in Requests, Generate(s)
      PROVE  Goal
  <2>1. call[r] = "idle" /\ r # s
    BY <1>0, <1>3 DEF Generate, EndpointTypeOK
  <2>2. queue' \subseteq queue \cup {s} /\ futures' \subseteq futures \cup {s}
    BY <1>3 DEF Generate
  <2> QED
    BY <1>1, <1>3, <2>1, <2>2, GenerateMoves
<1>4. ASSUME NEW route \in [queuedGenerationRequests -> Ranks], DecideStep(route)
      PROVE  Goal
  <2>1. UNCHANGED <<call, tokens, sampled, generationFutures>>
    BY <1>4 DEF DecideStep, callVars, engineVars
  <2>2. queue' = {} /\ held' = held \cup queue
    BY <1>4 DEF DecideStep
  <2> QED
    BY <1>1, <2>1, <2>2
<1>5. ASSUME NEW e \in Ranks, AdmitStep(e)
      PROVE  Goal
  BY <1>1, <1>5 DEF AdmitStep, Admit, callVars
<1>6. ASSUME NEW e \in Ranks, EngineSteps(e)
      PROVE  Goal
  <2>1. PICK advanced, finished : EngineStep(e, advanced, finished)
    BY <1>6, EngineStepsStep
  <2>2. call[r] = "idle" /\ futures' \subseteq futures /\ held' \subseteq held
    BY <2>1 DEF EngineStep, Resolve, callVars, futureVars
  <2>3. queue' = queue
    BY <2>1 DEF EngineStep
  <2>4. r \notin advanced
    <3>1. advanced \subseteq Held(e)
      BY <2>1, HeldIs DEF EngineStep
    <3> QED
      BY <1>1, <2>2, <3>1
  <2>5. tokens'[r] = tokens[r] /\ sampled'[r] = sampled[r]
    BY <2>1, <2>4 DEF EngineStep
  <2> QED
    BY <1>1, <2>2, <2>3, <2>5
<1>7. ASSUME NEW e \in Ranks, NEW result \in resultPort[e],
             DrainResult(e, result) \/ DrainRaises(e, result)
      PROVE  Goal
  <2>1. call[r] = "idle" /\ futures' \subseteq futures /\ held' \subseteq held
    BY <1>7 DEF DrainResult, DrainRaises, Resolve, callVars
  <2>2. UNCHANGED <<queuedGenerationRequests, tokens, sampled>>
    BY <1>7 DEF DrainResult, DrainRaises, engineVars
  <2> QED
    BY <1>1, <2>1, <2>2
<1> QED
  BY <1>2, <1>3, <1>4, <1>5, <1>6, <1>7, StepCases

LEMMA StaysUnsampled ==
  ASSUME PlacesInv, [Next]_vars
  PROVE  Unsampled'
<1> USE DEF PlacesInv
<1> DEFINE queue == queuedGenerationRequests
<1> SUFFICES ASSUME NEW r \in Requests, NEW d \in Ranks
             PROVE  /\ r \in queue' \/ r \in LocalRequests(d)' =>
                         tokens'[r] = 0 /\ sampled'[r] = {}
                    /\ r \in engine'[d] => tokens'[r] # MaxTokens
  <2>1. 0 \in Ranks
    BY GeneratorAssumption DEF Ranks
  <2> QED
    BY <2>1 DEF Unsampled, Fresh, LocalRequests
<1> DEFINE Goal == /\ r \in queue' \/ r \in LocalRequests(d)' =>
                        tokens'[r] = 0 /\ sampled'[r] = {}
                   /\ r \in engine'[d] => tokens'[r] # MaxTokens
<1>1. /\ r \in queue \/ r \in LocalRequests(d) => tokens[r] = 0 /\ sampled[r] = {}
      /\ r \in engine[d] => tokens[r] # MaxTokens
  BY DEF Unsampled, Fresh, LocalRequests
<1>2. CASE QuietStep
  <2>1. QuietEffect
    BY <1>2, QuietMovesNothing
  <2> QED
    BY <1>1, <2>1 DEF QuietEffect, Unmoved, Moved
<1>3. ASSUME NEW s \in Requests, Generate(s)
      PROVE  Goal
  <2>1. queue' \subseteq queue \cup {s} /\ call[s] = "idle"
    BY <1>3 DEF Generate
  <2>2. tokens[s] = 0 /\ sampled[s] = {}
    BY <2>1 DEF Uncalled, Fresh
  <2>3. UNCHANGED <<tokens, sampled>> /\ Unmoved(d)
    BY <1>3, GenerateMoves
  <2> QED
    BY <1>1, <2>1, <2>2, <2>3 DEF Unmoved, Moved
<1>4. ASSUME NEW route \in [queuedGenerationRequests -> Ranks], DecideStep(route)
      PROVE  Goal
  <2>1. UNCHANGED <<tokens, sampled>> /\ queue' = {}
    BY <1>4 DEF DecideStep, engineVars
  <2>2. Moved(d, {s \in queue : route[s] = d}, engine[d], PortRequests(d))
    BY <1>4, DecideStepMoves
  <2> QED
    BY <1>1, <2>1, <2>2 DEF Moved
<1>5. ASSUME NEW e \in Ranks, AdmitStep(e)
      PROVE  Goal
  <2>1. UNCHANGED <<tokens, sampled, queuedGenerationRequests>>
    BY <1>5 DEF AdmitStep, Admit
  <2>2. \/ Unmoved(d)
        \/ Moved(d, {}, engine[d] \cup LocalRequests(d), PortRequests(d))
    BY <1>5, AdmitMoves
  <2>3. MaxTokens # 0
    BY GeneratorAssumption
  <2> QED
    BY <1>1, <2>1, <2>2, <2>3 DEF Unmoved, Moved
<1>6. ASSUME NEW e \in Ranks, EngineSteps(e)
      PROVE  Goal
  <2>1. PICK advanced, finished : EngineStep(e, advanced, finished)
    BY <1>6, EngineStepsStep
  <2>2. queue' = queue
    BY <2>1 DEF EngineStep
  <2>3. /\ advanced \subseteq engine[e]
        /\ {s \in advanced : tokens[s] + 1 = MaxTokens} \subseteq finished
        /\ tokens'[r] = IF r \in advanced THEN tokens[r] + 1 ELSE tokens[r]
        /\ r \notin advanced => sampled'[r] = sampled[r]
    BY <2>1 DEF EngineStep
  <2>4. LocalRequests(d)' = LocalRequests(d)
    BY <2>1 DEF EngineStep, LocalRequests
  <2>5. r \in advanced => r \notin queue /\ r \notin LocalRequests(d)
    <3>1. r \in advanced => r \in Held(e) /\ r \in engine[e]
      BY <2>3, HeldIs
    <3>2. r \in advanced => r \notin queue
      BY <3>1 DEF HoldersApart
    <3>3. CASE d = e
      BY <3>1, <3>2, <3>3 DEF StagesApart, LocalRequests
    <3>4. CASE d # e
      <4>1. r \in advanced => r \notin Held(d)
        BY <3>1, <3>4 DEF HoldersApart
      <4> QED
        BY <3>2, <4>1, HeldIs
    <3> QED
      BY <3>3, <3>4
  <2>6. r \in engine'[d] => tokens'[r] # MaxTokens
    <3>1. CASE d = e
      <4>1. engine'[d] = engine[d] \ finished
        BY <2>1, <3>1, EngineStepMoves DEF Moved
      <4> QED
        BY <1>1, <2>3, <4>1
    <3>2. CASE d # e
      <4>1. engine'[d] = engine[d]
        BY <2>1, <3>2, EngineStepMoves DEF Unmoved, Moved
      <4>2. r \in engine[d] => r \in Held(d) /\ r \notin Held(e)
        BY <3>2, HeldIs DEF HoldersApart
      <4>3. advanced \subseteq Held(e)
        BY <2>3, HeldIs
      <4> QED
        BY <1>1, <2>3, <4>1, <4>2, <4>3
    <3> QED
      BY <3>1, <3>2
  <2> QED
    BY <1>1, <2>2, <2>3, <2>4, <2>5, <2>6
<1>7. ASSUME NEW e \in Ranks, NEW result \in resultPort[e],
             DrainResult(e, result) \/ DrainRaises(e, result)
      PROVE  Goal
  <2>1. UNCHANGED <<queuedGenerationRequests, inbox, engine, tokens, sampled>>
    BY <1>7 DEF DrainResult, DrainRaises, engineVars
  <2> QED
    BY <1>1, <2>1 DEF LocalRequests
<1> QED
  BY <1>2, <1>3, <1>4, <1>5, <1>6, <1>7, StepCases

-------------------------------------------------------------------------------
(* Types.                                                                  *)
LEMMA VersionTypes ==
  /\ 0 \in Ranks /\ Ranks \subseteq Int
  /\ 0 \in Versions /\ Versions \subseteq Nat
  /\ \A v \in Versions : v < MaxPolicyVersion => v + 1 \in Versions
  /\ NoDecision \in [action : {"none", "CLOSE", "PULL", "STEP"},
                     requests : [Ranks -> SUBSET Requests],
                     version : Versions \cup {NoVersion}]
  /\ NoRequests \in [Ranks -> SUBSET Requests]
BY GeneratorAssumption
   DEF Ranks, Versions, NoDecision, Decision, NoRequests, NoVersion

CallTypeOK ==
  /\ call \in [Requests -> {"idle", "waiting", "returned", "raised"}]
  /\ calledAt \in [Requests -> Versions]
  /\ completion \in [Requests -> [min : Versions \cup {-1},
                                  max : Versions \cup {-1}]]

(* The endpoints on pulls and shutdown.                                    *)
ControlTypeOK ==
  /\ pullCall \in {"waiting", "returned", "raised"}
  /\ pullVersion \in Versions
  /\ closePc \in {"open", "joining", "draining", "closed"}
  /\ closeRequest \in BOOLEAN
  /\ modelStateDictPullRequest \in Versions \cup {NoVersion}
  /\ drainTask \in {"running", "raised", "cancelled"}

LEMMA ResolveTypes ==
  ASSUME TypeOK, NEW finished \in SUBSET Requests, NEW version \in Versions,
         Resolve(finished, version)
  PROVE  CallTypeOK'
<1>1. EndpointTypeOK /\ minPolicyVersion \in [Requests -> Versions \cup {Unstamped}]
  BY DEF TypeOK, DispatcherTypeOK
<1>2. \A r \in Requests :
        Bounds(r, version) \in [min : Versions \cup {-1}, max : Versions \cup {-1}]
  BY <1>1 DEF Bounds, Unstamped
<1> QED
  BY <1>1, <1>2 DEF Resolve, EndpointTypeOK, CallTypeOK

LEMMA CallTypes ==
  ASSUME PlacesInv, [Next]_vars
  PROVE  CallTypeOK'
<1> USE DEF PlacesInv
<1>0. TypeOK /\ EndpointTypeOK /\ CallTypeOK
  BY DEF TypeOK, EndpointTypeOK, CallTypeOK
<1>1. CASE UNCHANGED callVars
  BY <1>0, <1>1 DEF CallTypeOK, callVars
<1>2. CASE FailOutstandingFutures
  BY <1>0, <1>2 DEF CallTypeOK, FailOutstandingFutures
<1>3. CASE QuietStep
  <2>1. FailOutstandingFutures \/ UNCHANGED callVars
    BY <1>3 DEF QuietStep, PullModelStateDict, CloseRequested, CloseJoined,
         CloseReturns, DecideClose, DecidePull, ApplyClose, ApplyPull,
         FinishPull, CrashStep, Crash, vars
  <2> QED
    BY <1>1, <1>2, <2>1
<1>4. ASSUME NEW r \in Requests, Generate(r)
      PROVE  CallTypeOK'

  <2>1. pullVersion \in Versions /\ pullCall \in {"waiting", "returned", "raised"}
    BY <1>0 DEF EndpointTypeOK
  <2>2. Acknowledged \in Versions
    BY <2>1, GeneratorAssumption DEF Acknowledged, PullsCounted, Versions
  <2> QED
    BY <1>0, <1>4, <2>2 DEF CallTypeOK, Generate
<1>5. ASSUME NEW route \in [queuedGenerationRequests -> Ranks], DecideStep(route)
      PROVE  CallTypeOK'
  BY <1>1, <1>5 DEF DecideStep
<1>6. ASSUME NEW d \in Ranks, AdmitStep(d)
      PROVE  CallTypeOK'
  BY <1>1, <1>6 DEF AdmitStep, Admit
<1>7. ASSUME NEW d \in Ranks, EngineSteps(d)
      PROVE  CallTypeOK'
  <2>1. PICK advanced, finished : EngineStep(d, advanced, finished)
    BY <1>7, EngineStepsStep
  <2>2. finished \in SUBSET Requests /\ policyVersion[d] \in Versions
    BY <1>0, <2>1 DEF EngineStep, TypeOK, LoopTypeOK
  <2>3. CASE d = 0
    BY <1>0, <2>1, <2>2, <2>3, ResolveTypes DEF EngineStep
  <2>4. CASE d # 0
    BY <1>1, <2>1, <2>4 DEF EngineStep
  <2> QED
    BY <2>3, <2>4
<1>8. ASSUME NEW d \in Ranks, NEW result \in resultPort[d],
             DrainResult(d, result) \/ DrainRaises(d, result)
      PROVE  CallTypeOK'
  <2>1. result \in [request : Requests, version : Versions]
    BY <1>0 DEF TypeOK, DispatcherTypeOK
  <2>2. {result.request} \in SUBSET Requests /\ result.version \in Versions
    BY <2>1
  <2>3. CASE DrainResult(d, result)
    BY <1>0, <2>2, <2>3, ResolveTypes DEF DrainResult
  <2>4. CASE DrainRaises(d, result)
    BY <1>1, <2>4 DEF DrainRaises
  <2> QED
    BY <1>8, <2>3, <2>4
<1> QED
  BY <1>3, <1>4, <1>5, <1>6, <1>7, <1>8, StepCases

LEMMA ControlTypes ==
  ASSUME PlacesInv, [Next]_vars
  PROVE  ControlTypeOK' /\ PullsCounted'
<1> USE DEF PlacesInv
<1>0. ControlTypeOK /\ PullsCounted
  BY DEF TypeOK, EndpointTypeOK, DispatcherTypeOK, ControlTypeOK
<1>1. CASE UNCHANGED <<pullVars, closeVars, drainTask>>
  BY <1>0, <1>1 DEF ControlTypeOK, PullsCounted, pullVars, closeVars
<1>2. CASE \/ DecideClose \/ DecidePull
           \/ \E d \in Ranks : ApplyClose(d) \/ ApplyPull(d) \/ AdmitStep(d)
           \/ \E d \in Ranks : EngineSteps(d)
           \/ \E r \in Requests : Generate(r)
           \/ \E route \in [queuedGenerationRequests -> Ranks] : DecideStep(route)
           \/ UNCHANGED vars
  BY <1>1, <1>2 DEF DecideClose, DecidePull, ApplyClose, ApplyPull, AdmitStep,
       Admit, EngineSteps, EngineStep, Generate, DecideStep, vars
<1>3. CASE PullModelStateDict
  <2>1. pullVersion' \in Versions /\ pullVersion' # 0
    BY <1>0, <1>3, VersionTypes
       DEF PullModelStateDict, ControlTypeOK, Versions
  <2> QED
    BY <1>0, <1>3, <2>1
       DEF PullModelStateDict, ControlTypeOK, PullsCounted, closeVars
<1>4. CASE CloseRequested \/ CloseJoined
  BY <1>0, <1>4 DEF CloseRequested, CloseJoined, ControlTypeOK, PullsCounted, pullVars
<1>5. ASSUME FailOutstandingFutures,
             closePc' \in {"open", "joining", "draining", "closed"},
             UNCHANGED <<closeRequest, drainTask>>
      PROVE  ControlTypeOK' /\ PullsCounted'
  BY <1>0, <1>5 DEF FailOutstandingFutures, PullCallFailed, ControlTypeOK, PullsCounted
<1>6. CASE CloseReturns
  BY <1>5, <1>6 DEF CloseReturns
<1>7. ASSUME NEW d \in Ranks, CrashStep(d)
      PROVE  ControlTypeOK' /\ PullsCounted'
  <2>1. UNCHANGED <<closeVars, drainTask>>
    BY <1>7 DEF CrashStep, Crash
  <2>2. CASE d = 0
    BY <1>0, <1>5, <1>7, <2>1, <2>2 DEF CrashStep, Crash, closeVars, ControlTypeOK
  <2>3. CASE d # 0
    BY <1>1, <1>7, <2>1, <2>3 DEF CrashStep, Crash
  <2> QED
    BY <2>2, <2>3
<1>8. ASSUME NEW d \in Ranks, FinishPull(d)
      PROVE  ControlTypeOK' /\ PullsCounted'
  BY <1>0, <1>8 DEF FinishPull, ControlTypeOK, PullsCounted, closeVars
<1>9. ASSUME NEW d \in Ranks, NEW result \in resultPort[d],
             DrainResult(d, result) \/ DrainRaises(d, result)
      PROVE  ControlTypeOK' /\ PullsCounted'
  BY <1>0, <1>9 DEF DrainResult, DrainRaises, ControlTypeOK, PullsCounted,
       pullVars, closeVars
<1> QED
  BY <1>2, <1>3, <1>4, <1>6, <1>7, <1>8, <1>9, StepCases DEF QuietStep

(* The rest of the types: of rank 0's bookkeeping, of the ports, and of    *)
(* the loops.                                                              *)
BookTypeOK ==
  /\ queuedGenerationRequests \subseteq Requests
  /\ generationFutures \subseteq Requests
  /\ minPolicyVersion \in [Requests -> Versions \cup {Unstamped}]

ReservedTypeOK ==
  /\ DOMAIN reservations \subseteq Requests
  /\ reservations \in [DOMAIN reservations -> Ranks]
  /\ reservedLoad \in [Ranks -> Nat]

PortTypeOK ==
  resultPort \in [Ranks -> SUBSET [request : Requests, version : Versions]]

LEMMA BookTypes ==
  ASSUME PlacesInv, [Next]_vars
  PROVE  BookTypeOK'
<1> USE DEF PlacesInv
<1>0. BookTypeOK /\ TypeOK /\ LoopTypeOK /\ 0 \in Ranks
  BY VersionTypes DEF TypeOK, DispatcherTypeOK, BookTypeOK
<1>1. CASE QuietStep
  BY <1>0, <1>1, QuietMovesNothing DEF QuietEffect, BookTypeOK
<1>2. ASSUME NEW r \in Requests, Generate(r)
      PROVE  BookTypeOK'
  BY <1>0, <1>2 DEF Generate, BookTypeOK
<1>3. ASSUME NEW route \in [queuedGenerationRequests -> Ranks], DecideStep(route)
      PROVE  BookTypeOK'
  BY <1>0, <1>3 DEF DecideStep, BookTypeOK
<1>4. ASSUME NEW d \in Ranks, AdmitStep(d)
      PROVE  BookTypeOK'
  BY <1>0, <1>4 DEF AdmitStep, Admit, Stamped, BookTypeOK, LoopTypeOK
<1>5. ASSUME NEW d \in Ranks, EngineSteps(d)
      PROVE  BookTypeOK'
  BY <1>0, <1>5 DEF EngineSteps, EngineStep, Resolve, futureVars, BookTypeOK
<1>6. ASSUME NEW d \in Ranks, NEW result \in resultPort[d],
             DrainResult(d, result) \/ DrainRaises(d, result)
      PROVE  BookTypeOK'
  BY <1>0, <1>6 DEF DrainResult, DrainRaises, Resolve, BookTypeOK
<1> QED
  BY <1>1, <1>2, <1>3, <1>4, <1>5, <1>6, StepCases

LEMMA ReservedTypes ==
  ASSUME PlacesInv, [Next]_vars
  PROVE  ReservedTypeOK'
<1> USE DEF PlacesInv
<1>0. ReservedTypeOK /\ queuedGenerationRequests \subseteq Requests
  BY DEF TypeOK, DispatcherTypeOK, ReservedTypeOK
<1> DEFINE ReservedType == /\ DOMAIN reservations \subseteq Requests
                           /\ reservations \in [DOMAIN reservations -> Ranks]
           LoadDomain == reservedLoad = [d \in Ranks |-> reservedLoad[d]]
<1>1. ReservedType /\ LoadDomain
  BY <1>0 DEF ReservedTypeOK
<1>2. ASSUME ReservedType', LoadDomain'
      PROVE  ReservedTypeOK'
  <2>1. Reserved'
    BY StaysReserved
  <2>2. IsFiniteSet(DOMAIN reservations')
    BY <2>1 DEF Reserved
  <2>3. \A d \in Ranks :
          reservedLoad'[d] = Cardinality({r \in DOMAIN reservations' : reservations'[r] = d})
    BY <2>1 DEF Reserved
  <2>4. \A d \in Ranks :
          Cardinality({r \in DOMAIN reservations' : reservations'[r] = d}) \in Nat
    <3> TAKE d \in Ranks
    <3>1. IsFiniteSet({r \in DOMAIN reservations' : reservations'[r] = d})
      BY <2>2, FS_Subset
    <3> QED
      BY <3>1, FS_CardinalityType
  <2>5. \A d \in Ranks : reservedLoad'[d] \in Nat
    BY <2>3, <2>4
  <2>6. reservedLoad' \in [Ranks -> Nat]
    BY <1>2, <2>5
  <2> QED
    BY <1>2, <2>6 DEF ReservedTypeOK
<1>3. CASE UNCHANGED <<reservations, reservedLoad>>
  BY <1>0, <1>3 DEF ReservedTypeOK
<1>4. CASE QuietStep
  BY <1>3, <1>4, QuietMovesNothing DEF QuietEffect
<1>5. ASSUME NEW r \in Requests, Generate(r)
      PROVE  ReservedTypeOK'
  BY <1>3, <1>5 DEF Generate
<1>6. ASSUME NEW route \in [queuedGenerationRequests -> Ranks], DecideStep(route)
      PROVE  ReservedTypeOK'
  <2>1. ReservedType'
    BY <1>0, <1>1, <1>6 DEF DecideStep
  <2>2. LoadDomain'
    BY <1>6 DEF DecideStep, LoadAfterReserve
  <2> QED
    BY <1>2, <2>1, <2>2
<1>7. ASSUME NEW d \in Ranks, AdmitStep(d)
      PROVE  ReservedTypeOK'
  BY <1>3, <1>7 DEF AdmitStep, Admit
<1>8. ASSUME NEW finished, NEW version, Resolve(finished, version)
      PROVE  ReservedTypeOK'
  <2>1. ReservedType'
    BY <1>1, <1>8 DEF Resolve
  <2>2. LoadDomain'
    BY <1>8 DEF Resolve, LoadAfterRelease
  <2> QED
    BY <1>2, <2>1, <2>2
<1>9. ASSUME NEW d \in Ranks, EngineSteps(d)
      PROVE  ReservedTypeOK'
  <2>1. PICK advanced, finished : EngineStep(d, advanced, finished)
    BY <1>9, EngineStepsStep
  <2> QED
    BY <1>3, <1>8, <2>1 DEF EngineStep, futureVars
<1>10. ASSUME NEW d \in Ranks, NEW result \in resultPort[d],
              DrainResult(d, result) \/ DrainRaises(d, result)
       PROVE  ReservedTypeOK'
  BY <1>3, <1>8, <1>10 DEF DrainResult, DrainRaises
<1> QED
  BY <1>4, <1>5, <1>6, <1>7, <1>9, <1>10, StepCases

LEMMA PortTypes ==
  ASSUME PlacesInv, [Next]_vars
  PROVE  PortTypeOK'
<1> USE DEF PlacesInv
<1>0. PortTypeOK /\ TypeOK /\ LoopTypeOK
  BY DEF TypeOK, DispatcherTypeOK, PortTypeOK
<1>1. CASE UNCHANGED resultPort
  BY <1>0, <1>1 DEF PortTypeOK
<1>2. CASE \/ QuietStep
           \/ \E r \in Requests : Generate(r)
           \/ \E route \in [queuedGenerationRequests -> Ranks] : DecideStep(route)
           \/ \E d \in Ranks : AdmitStep(d)
  BY <1>1, <1>2, QuietMovesNothing
     DEF QuietEffect, Generate, DecideStep, AdmitStep, Admit
<1>3. ASSUME NEW d \in Ranks, EngineSteps(d)
      PROVE  PortTypeOK'
  <2>1. PICK advanced, finished : EngineStep(d, advanced, finished)
    BY <1>3, EngineStepsStep
  <2>2. CASE d = 0
    BY <1>1, <2>1, <2>2 DEF EngineStep
  <2>3. CASE d # 0
    <3> DEFINE new == {[request |-> r, version |-> policyVersion[d]] : r \in finished}
    <3>1. resultPort' = [resultPort EXCEPT ![d] = @ \cup new]
      BY <2>1, <2>3 DEF EngineStep
    <3>2. finished \subseteq Requests /\ policyVersion[d] \in Versions
      BY <1>0, <2>1 DEF EngineStep, LoopTypeOK
    <3>3. new \subseteq [request : Requests, version : Versions]
      BY <3>2
    <3> HIDE DEF new
    <3> QED
      BY <1>0, <3>1, <3>3 DEF PortTypeOK
  <2> QED
    BY <2>2, <2>3
<1>4. ASSUME NEW d \in Ranks, NEW result \in resultPort[d],
             DrainResult(d, result) \/ DrainRaises(d, result)
      PROVE  PortTypeOK'
  BY <1>0, <1>4 DEF DrainResult, DrainRaises, PortTypeOK
<1> QED
  BY <1>2, <1>3, <1>4, StepCases

LEMMA LoopTypes ==
  ASSUME PlacesInv, [Next]_vars
  PROVE  LoopTypeOK'
<1> USE DEF PlacesInv
<1>0. LoopTypeOK /\ 0 \in Ranks
  BY VersionTypes DEF TypeOK
<1> DEFINE Action == {"none", "CLOSE", "PULL", "STEP"}
           DecisionType == [action : Action, requests : [Ranks -> SUBSET Requests],
                            version : Versions \cup {NoVersion}]
           Pc == {"decide", "receive", "pulling", "stepping", "closed", "crashed"}
           Loops == /\ loopPc \in [Ranks -> Pc]
                    /\ applying \in [Ranks -> Versions \cup {NoVersion}]
                    /\ policyVersion \in [Ranks -> Versions]
           Inboxes == inbox \in [Ranks -> DecisionType]
           Engines == /\ engine \in [Ranks -> SUBSET Requests]
                      /\ stepsLeft \in [Ranks -> 0 .. MaxEngineStepsBetweenDecisions]
           Texts == /\ sampled \in [Requests -> SUBSET Versions]
                    /\ tokens \in [Requests -> 0 .. MaxTokens]
<1>1. Loops /\ Inboxes /\ Engines /\ Texts
  BY <1>0 DEF LoopTypeOK
<1> SUFFICES Loops' /\ Inboxes' /\ Engines' /\ Texts'
  BY DEF LoopTypeOK
<1>2. ASSUME NEW decision \in DecisionType, Broadcast(decision),
             UNCHANGED <<applying, policyVersion, engineVars>>
      PROVE  Loops' /\ Inboxes' /\ Engines' /\ Texts'
  BY <1>0, <1>1, <1>2 DEF Broadcast, engineVars
<1>3. \A action \in Action, requests \in [Ranks -> SUBSET Requests],
         version \in Versions \cup {NoVersion} :
        Decision(action, requests, version) \in DecisionType
  BY DEF Decision
<1>4. CASE DecideClose
  <2>1. Decision("CLOSE", NoRequests, NoVersion) \in DecisionType
    BY <1>3, VersionTypes
  <2> QED
    BY <1>2, <1>4, <2>1 DEF DecideClose
<1>5. CASE DecidePull
  <2>1. Decision("PULL", NoRequests, modelStateDictPullRequest) \in DecisionType
    BY <1>3, VersionTypes DEF TypeOK, DispatcherTypeOK
  <2> QED
    BY <1>2, <1>5, <2>1 DEF DecidePull
<1>6. ASSUME NEW route \in [queuedGenerationRequests -> Ranks], DecideStep(route)
      PROVE  Loops' /\ Inboxes' /\ Engines' /\ Texts'
  <2>1. Routed(route) \in [Ranks -> SUBSET Requests]
    BY DEF Routed, TypeOK, DispatcherTypeOK
  <2>2. Decision("STEP", Routed(route), NoVersion) \in DecisionType
    BY <1>3, <2>1
  <2> QED
    BY <1>2, <1>6, <2>2 DEF DecideStep
<1>7. ASSUME NEW d \in Ranks, Received(d)
      PROVE  Inboxes'
  BY <1>1, <1>7, VersionTypes DEF Received
<1>8. ASSUME NEW d \in Ranks, ApplyClose(d) \/ ApplyPull(d)
      PROVE  Loops' /\ Inboxes' /\ Engines' /\ Texts'
  <2>1. Received(d) /\ UNCHANGED engineVars
    BY <1>8 DEF ApplyClose, ApplyPull
  <2>2. Loops'
    BY <1>1, <1>8 DEF ApplyClose, ApplyPull
  <2> QED
    BY <1>1, <1>7, <2>1, <2>2 DEF engineVars
<1>9. ASSUME NEW d \in Ranks, AdmitStep(d)
      PROVE  Loops' /\ Inboxes' /\ Engines' /\ Texts'
  <2>1. Received(d) /\ Admit(d)
    BY <1>9 DEF AdmitStep, Admit
  <2>2. Loops' /\ Texts'
    BY <1>1, <2>1 DEF Admit, NextTurn
  <2>3. LocalRequests(d) \subseteq Requests
    BY <1>1 DEF LocalRequests
  <2>4. Engines'
    BY <1>1, <2>1, <2>3, GeneratorAssumption DEF Admit
  <2> QED
    BY <1>7, <2>1, <2>2, <2>4
<1>10. ASSUME NEW d \in Ranks, FinishPull(d)
       PROVE  Loops' /\ Inboxes' /\ Engines' /\ Texts'
  <2>1. applying[d] \in Versions
    BY <1>1, <1>10 DEF FinishPull, WellFormedDecisions
  <2>2. Loops'
    BY <1>1, <1>10, <2>1 DEF FinishPull, VersionBumped, NextTurn
  <2> QED
    BY <1>1, <1>10, <2>2 DEF FinishPull, engineVars
<1>11. ASSUME NEW d \in Ranks, CrashStep(d)
       PROVE  Loops' /\ Inboxes' /\ Engines' /\ Texts'
  BY <1>1, <1>11 DEF CrashStep, Crash, engineVars
<1>12. ASSUME NEW d \in Ranks, EngineSteps(d)
       PROVE  Loops' /\ Inboxes' /\ Engines' /\ Texts'
  <2>1. PICK advanced, finished : EngineStep(d, advanced, finished)
    BY <1>12, EngineStepsStep
  <2>2. Loops' /\ Inboxes'
    BY <1>1, <2>1 DEF EngineStep, NextTurn
  <2>3. stepsLeft[d] # 0
    BY <2>1 DEF EngineStep, WellFormedDecisions
  <2>4. /\ engine' = [engine EXCEPT ![d] = @ \ finished]
        /\ stepsLeft' = [stepsLeft EXCEPT ![d] = @ - 1]
    BY <2>1 DEF EngineStep
  <2>5. Engines'
    <3>1. MaxEngineStepsBetweenDecisions \in Nat
      BY GeneratorAssumption
    <3>2. stepsLeft[d] \in 0 .. MaxEngineStepsBetweenDecisions
      BY <1>1
    <3>3. stepsLeft[d] - 1 \in 0 .. MaxEngineStepsBetweenDecisions
      BY <2>3, <3>1, <3>2
    <3>4. stepsLeft' \in [Ranks -> 0 .. MaxEngineStepsBetweenDecisions]
      BY <1>1, <2>4, <3>3
    <3>5. engine' \in [Ranks -> SUBSET Requests]
      BY <1>1, <2>4
    <3> QED
      BY <3>4, <3>5
  <2>6. /\ tokens' = [r \in Requests |-> IF r \in advanced THEN tokens[r] + 1
                                        ELSE tokens[r]]
        /\ sampled' = [r \in Requests |->
                         IF r \in advanced THEN sampled[r] \cup {policyVersion[d]}
                         ELSE sampled[r]]
        /\ advanced \subseteq engine[d]
    BY <2>1 DEF EngineStep
  <2>7. \A r \in advanced : tokens[r] # MaxTokens
    BY <1>1, <2>6 DEF Unsampled
  <2>8. tokens' \in [Requests -> 0 .. MaxTokens]
    <3>1. MaxTokens \in Nat
      BY GeneratorAssumption
    <3>2. \A r \in Requests : tokens[r] \in 0 .. MaxTokens
      BY <1>1
    <3>3. \A r \in Requests :
            r \in advanced => tokens[r] + 1 \in 0 .. MaxTokens
      BY <2>7, <3>1, <3>2
    <3> QED
      BY <2>6, <3>2, <3>3
  <2>9. sampled' \in [Requests -> SUBSET Versions]
    BY <1>1, <2>6
  <2> QED
    BY <2>2, <2>5, <2>8, <2>9
<1>13. CASE UNCHANGED <<loopPc, inbox, applying, policyVersion, engineVars>>
  BY <1>1, <1>13 DEF engineVars
<1>14. CASE \/ PullModelStateDict \/ CloseRequested \/ CloseJoined \/ CloseReturns
            \/ UNCHANGED vars
            \/ \E r \in Requests : Generate(r)
            \/ \E d \in Ranks : \E result \in resultPort[d] :
                 DrainResult(d, result) \/ DrainRaises(d, result)
  BY <1>13, <1>14 DEF PullModelStateDict, CloseRequested, CloseJoined,
       CloseReturns, vars, Generate, DrainResult, DrainRaises
<1> QED
  BY <1>4, <1>5, <1>6, <1>8, <1>9, <1>10, <1>11, <1>12, <1>14, StepCases
     DEF QuietStep

LEMMA PlacesInit == Init => PlacesInv
<1> SUFFICES ASSUME Init PROVE PlacesInv
  OBVIOUS
<1> USE GeneratorAssumption, VersionTypes DEF Init
<1>1. EndpointTypeOK
  BY DEF EndpointTypeOK, NoCompletion
<1>2. DispatcherTypeOK
  BY DEF DispatcherTypeOK, NoVersion, Unstamped
<1>3. LoopTypeOK
  <2> DEFINE DecisionType == [action : {"none", "CLOSE", "PULL", "STEP"},
                              requests : [Ranks -> SUBSET Requests],
                              version : Versions \cup {NoVersion}]
  <2>1. inbox \in [Ranks -> DecisionType]
    <3>1. NoDecision \in DecisionType
      OBVIOUS
    <3> HIDE DEF DecisionType
    <3> QED
      BY <3>1
  <2>2. loopPc \in [Ranks -> {"decide", "receive", "pulling", "stepping",
                             "closed", "crashed"}]
    OBVIOUS
  <2>3. /\ applying \in [Ranks -> Versions \cup {NoVersion}]
        /\ policyVersion \in [Ranks -> Versions]
        /\ engine \in [Ranks -> SUBSET Requests]
    OBVIOUS
  <2>4. stepsLeft \in [Ranks -> 0 .. MaxEngineStepsBetweenDecisions]
    OBVIOUS
  <2>5. sampled \in [Requests -> SUBSET Versions]
    OBVIOUS
  <2>6. tokens \in [Requests -> 0 .. MaxTokens]
    OBVIOUS
  <2> QED
    BY <2>1, <2>2, <2>3, <2>4, <2>5, <2>6 DEF LoopTypeOK
<1>4. \A d \in Ranks : /\ LocalRequests(d) = {} /\ engine[d] = {}
                       /\ resultPort[d] = {} /\ PortRequests(d) = {}
  BY EmptyDecisions DEF LocalRequests, NoRequests, PortRequests
<1>5. \A d \in Ranks : Held(d) = {}
  BY <1>4, HeldIs
<1>6. WellFormedDecisions /\ CloseJoinsLoop /\ PullsCounted
  BY EmptyDecisions DEF WellFormedDecisions, CloseJoinsLoop, PullsCounted,
                        NoDecision, Decision
<1>7. StagesApart
  BY <1>4 DEF StagesApart, LocalRequests
<1>8. HoldersApart /\ Registered
  BY <1>5 DEF HoldersApart, Registered
<1>9. Reserved
  <2>1. DOMAIN reservations = {}
    OBVIOUS
  <2>2. IsFiniteSet(queuedGenerationRequests) /\ IsFiniteSet(DOMAIN reservations)
    BY <2>1, FS_EmptySet
  <2>3. \A d \in Ranks : {r \in DOMAIN reservations : reservations[r] = d} = {}
    BY <2>1
  <2>4. \A d \in Ranks :
          reservedLoad[d] = Cardinality({r \in DOMAIN reservations : reservations[r] = d})
    BY <2>3, FS_EmptySet
  <2> QED
    BY <1>5, <2>1, <2>2, <2>4 DEF Reserved
<1>10. Uncalled /\ Unsampled
  BY <1>4 DEF Uncalled, Unsampled, Fresh, LocalRequests
<1> QED
  BY <1>1, <1>2, <1>3, <1>6, <1>7, <1>8, <1>9, <1>10 DEF PlacesInv, TypeOK

LEMMA PlacesNext == PlacesInv /\ [Next]_vars => PlacesInv'
<1> SUFFICES ASSUME PlacesInv, [Next]_vars PROVE PlacesInv'
  OBVIOUS
<1>1. EndpointTypeOK'
  BY CallTypes, ControlTypes DEF CallTypeOK, ControlTypeOK, EndpointTypeOK
<1>2. DispatcherTypeOK'
  BY BookTypes, ReservedTypes, PortTypes, ControlTypes
     DEF BookTypeOK, ReservedTypeOK, PortTypeOK, ControlTypeOK, DispatcherTypeOK
<1>3. TypeOK'
  BY <1>1, <1>2, LoopTypes DEF TypeOK
<1> QED
  BY <1>3, DecisionsStayWellFormed, LoopStaysJoined, ControlTypes, StagesStayApart,
     HoldersStayApart, StaysRegistered, StaysReserved, StaysUncalled,
     StaysUnsampled DEF PlacesInv

LEMMA PlacesInvariant == Spec => []PlacesInv
BY PlacesInit, PlacesNext, PTL DEF Spec

-------------------------------------------------------------------------------
(* The second invariant.  A rank acts on a decision after rank 0 has.      *)
Barrier == BroadcastIsBarrier /\ PlacesInv /\ VersionsInv

LEMMA OneDecisionStep ==
  ASSUME Barrier, [Next]_vars
  PROVE  OneDecision'
<1> USE DEF Barrier, PlacesInv, VersionsInv
<1>0. LoopTypeOK /\ 0 \in Ranks
  BY VersionTypes DEF TypeOK
<1>1. CASE /\ UNCHANGED inbox
           /\ loopPc'[0] \in {"decide", "stepping", "pulling"} =>
                loopPc[0] \in {"decide", "stepping", "pulling"}
  BY <1>1 DEF OneDecision
<1>2. ASSUME NEW decision, Broadcast(decision)
      PROVE  OneDecision'
  <2>1. loopPc'[0] = "receive"
    BY <1>0, <1>2 DEF Broadcast, LoopTypeOK
  <2>2. \A d \in Ranks : inbox'[d] = inbox'[0]
    BY <1>0, <1>2 DEF Broadcast
  <2> QED
    BY <2>1, <2>2 DEF OneDecision
<1>3. ASSUME NEW d \in Ranks, DecisionReached(d), Received(d)
      PROVE  OneDecision'
  <2>1. inbox'[0] = NoDecision
    BY <1>0, <1>3 DEF DecisionReached, Received, LoopTypeOK
  <2> QED
    BY <2>1 DEF OneDecision
<1>4. CASE DecideClose \/ DecidePull
           \/ \E route \in [queuedGenerationRequests -> Ranks] : DecideStep(route)
  BY <1>2, <1>4 DEF DecideClose, DecidePull, DecideStep
<1>5. CASE \E d \in Ranks : ApplyClose(d) \/ ApplyPull(d) \/ AdmitStep(d)
  BY <1>3, <1>5 DEF ApplyClose, ApplyPull, AdmitStep, Admit
<1>6. CASE \/ PullModelStateDict \/ CloseRequested \/ CloseJoined \/ CloseReturns
           \/ UNCHANGED vars
           \/ \E r \in Requests : Generate(r)
           \/ \E d \in Ranks : \E result \in resultPort[d] :
                DrainResult(d, result) \/ DrainRaises(d, result)
  BY <1>1, <1>6 DEF PullModelStateDict, CloseRequested, CloseJoined,
       CloseReturns, vars, Generate, DrainResult, DrainRaises
<1>7. ASSUME NEW d \in Ranks, FinishPull(d) \/ CrashStep(d) \/ EngineSteps(d)
      PROVE  OneDecision'
  <2>1. inbox' = inbox
    BY <1>7 DEF FinishPull, CrashStep, Crash, EngineSteps, EngineStep
  <2>2. CASE FinishPull(d) \/ EngineSteps(d)
    <3>1. d # 0 => loopPc'[0] = loopPc[0]
      BY <1>0, <2>2 DEF FinishPull, EngineSteps, EngineStep, LoopTypeOK
    <3>2. loopPc[d] \in {"stepping", "pulling"}
      BY <2>2 DEF FinishPull, EngineSteps, EngineStep
    <3> QED
      BY <1>1, <2>1, <3>1, <3>2
  <2>3. CASE CrashStep(d)
    BY <1>0, <1>1, <2>1, <2>3 DEF CrashStep, Crash, LoopTypeOK
  <2> QED
    BY <1>7, <2>2, <2>3
<1> QED
  BY <1>4, <1>5, <1>6, <1>7, StepCases DEF QuietStep

(* Rank 0 is in service while it steps or pulls.                           *)
LEMMA WorkingInService ==
  ASSUME CloseJoinsLoop, loopPc[0] \in {"decide", "receive", "stepping", "pulling"}
  PROVE  InService
BY DEF CloseJoinsLoop, InService

(* What rank 0 finishes, and what the drain task resolves, is awaited; the *)
(* drain task raises only over a future that is gone.                      *)
LEMMA FinishedAwaited ==
  ASSUME Barrier
  PROVE  /\ \A advanced, finished :
              EngineStep(0, advanced, finished) => finished \subseteq generationFutures
         /\ \A d \in Ranks : \A result \in resultPort[d] :
              /\ DrainResult(d, result) => result.request \in generationFutures
              /\ DrainRaises(d, result) => result.request \notin generationFutures
<1> USE DEF Barrier, PlacesInv, VersionsInv
<1>0. 0 \in Ranks
  BY VersionTypes
<1>1. ASSUME NEW advanced, NEW finished, EngineStep(0, advanced, finished)
      PROVE  finished \subseteq generationFutures
  <2>1. InService
    BY <1>1, WorkingInService DEF EngineStep
  <2>2. finished \subseteq Held(0) /\ Held(0) \subseteq Requests
    BY <1>0, <1>1, EngineStepMoves, HeldIs, HeldType
  <2> QED
    BY <1>0, <2>1, <2>2 DEF Registered
<1>2. ASSUME NEW d \in Ranks, NEW result \in resultPort[d], DrainRaises(d, result)
      PROVE  result.request \notin generationFutures
  <2>1. result.request \in StampedAt(d)
    BY DEF StampedAt, PortRequests
  <2>2. minPolicyVersion[result.request] # Unstamped
    BY <2>1 DEF StampsBracket, StampsBelow
  <2> QED
    BY <1>2, <2>2 DEF DrainRaises, Resolvable
<1>3. \A d \in Ranks : \A result \in resultPort[d] :
        DrainResult(d, result) => result.request \in generationFutures
  BY DEF DrainResult, Resolvable
<1> QED
  BY <1>1, <1>2, <1>3

LEMMA CallersStayRegistered ==
  ASSUME Barrier, [Next]_vars
  PROVE  CallersRegistered'
<1> USE DEF Barrier, PlacesInv, VersionsInv
<1> DEFINE queue == queuedGenerationRequests
           held == DOMAIN reservations
           futures == generationFutures
           Placed(r) == r \in queue \/ \E d \in Ranks : r \in Held(d)
           Awaited == \A r \in Requests : r \in futures <=> call[r] = "waiting"
           Unanswered == \A r \in Requests : Placed(r) => call[r] \in {"waiting", "raised"}
           Closed == closePc = "closed" => futures = {} /\ pullCall # "waiting"
           Future == InService => held \subseteq futures
<1>0. 0 \in Ranks /\ TypeOK /\ EndpointTypeOK
  BY VersionTypes DEF TypeOK
<1>1. Awaited /\ Unanswered /\ Closed /\ Future
  BY DEF CallersRegistered
<1> SUFFICES Awaited' /\ Unanswered' /\ Closed' /\ Future'
  BY DEF CallersRegistered
<1>2. InService' => InService
  BY OutOfServiceForGood
<1>3. CASE QuietStep
  <2>1. QuietEffect
    BY <1>3, QuietMovesNothing
  <2>2. \A d \in Ranks : Held(d)' = Held(d)
    BY <1>3, HeldSteps
  <2>3. Awaited'
    BY <1>1, <2>1 DEF QuietEffect
  <2>4. Unanswered'
    BY <1>1, <2>1, <2>2 DEF QuietEffect
  <2>5. Future'
    BY <1>1, <2>1 DEF QuietEffect
  <2>6. Closed'
    <3>1. CASE FailOutstandingFutures
      BY <3>1 DEF FailOutstandingFutures, PullCallFailed
    <3>2. CASE PullModelStateDict
      BY <3>2 DEF PullModelStateDict, EngineLoopStarted, closeVars
    <3>3. CASE UNCHANGED <<pullCall, generationFutures>> /\ closePc' # "closed"
      BY <3>3
    <3>4. CASE UNCHANGED <<pullCall, generationFutures, closePc>>
      BY <1>1, <3>4
    <3>5. ASSUME NEW d \in Ranks, FinishPull(d)
          PROVE  Closed'
      BY <1>1, <3>5 DEF FinishPull, closeVars, futureVars
    <3>6. ASSUME NEW d \in Ranks, CrashStep(d)
          PROVE  Closed'
      BY <3>1, <3>4, <3>6 DEF CrashStep, Crash, closeVars, pullVars, futureVars
    <3>7. CASE CloseRequested \/ CloseJoined
      BY <3>3, <3>7 DEF CloseRequested, CloseJoined, pullVars, futureVars
    <3>8. CASE \/ UNCHANGED vars \/ DecideClose \/ DecidePull
               \/ \E d \in Ranks : ApplyClose(d) \/ ApplyPull(d)
      BY <3>4, <3>8 DEF vars, DecideClose, DecidePull, ApplyClose, ApplyPull,
           pullVars, futureVars, closeVars
    <3> QED
      BY <1>3, <3>1, <3>2, <3>5, <3>6, <3>7, <3>8 DEF QuietStep, CloseReturns
  <2> QED
    BY <2>3, <2>4, <2>5, <2>6
<1>4. ASSUME NEW s \in Requests, Generate(s)
      PROVE  Awaited' /\ Unanswered' /\ Closed' /\ Future'
  <2>1. UNCHANGED <<pullCall, closePc, reservations>>
    BY <1>4 DEF Generate, pullVars, closeVars
  <2>2. \A d \in Ranks : Held(d)' = Held(d)
    BY <1>4, HeldSteps
  <2>3. call[s] = "idle" /\ s \notin futures /\ ~Placed(s)
    BY <1>4 DEF Generate, Uncalled, Reserved
  <2>4. CASE EngineLoopStarted
    <3>1. /\ call' = [call EXCEPT ![s] = "waiting"]
          /\ futures' = futures \cup {s} /\ queue' = queue \cup {s}
      BY <1>4, <2>4 DEF Generate
    <3>2. closePc # "closed"
      BY <2>4 DEF EngineLoopStarted
    <3>3. Awaited'
      BY <1>0, <1>1, <3>1 DEF EndpointTypeOK
    <3>4. Unanswered'
      BY <1>0, <1>1, <2>2, <2>3, <3>1 DEF EndpointTypeOK
    <3> QED
      BY <1>1, <1>2, <2>1, <3>1, <3>2, <3>3, <3>4
  <2>5. CASE ~EngineLoopStarted
    <3>1. /\ call' = [call EXCEPT ![s] = "raised"]
          /\ futures' = futures /\ queue' = queue
      BY <1>4, <2>5 DEF Generate
    <3>2. Awaited' /\ Unanswered'
      BY <1>0, <1>1, <2>2, <2>3, <3>1 DEF EndpointTypeOK
    <3> QED
      BY <1>1, <1>2, <2>1, <3>1, <3>2
  <2> QED
    BY <2>4, <2>5
<1>5. ASSUME NEW route \in [queuedGenerationRequests -> Ranks], DecideStep(route)
      PROVE  Awaited' /\ Unanswered' /\ Closed' /\ Future'
  <2>1. UNCHANGED <<call, pullCall, closePc, generationFutures>>
    BY <1>5 DEF DecideStep, callVars, pullVars, closeVars
  <2>2. queue' = {} /\ held' = held \cup queue
    BY <1>5 DEF DecideStep
  <2>3. \A d \in Ranks : Held(d)' = Held(d) \cup {r \in queue : route[r] = d}
    BY <1>5, HeldSteps
  <2>4. Unanswered'
    BY <1>1, <2>1, <2>2, <2>3
  <2>5. InService => queue \subseteq futures
    BY <1>0 DEF Registered, TypeOK, DispatcherTypeOK
  <2> QED
    BY <1>1, <1>2, <2>1, <2>2, <2>4, <2>5
<1>6. ASSUME NEW e \in Ranks, AdmitStep(e)
      PROVE  Awaited' /\ Unanswered' /\ Closed' /\ Future'
  <2>1. UNCHANGED <<call, pullCall, closePc, generationFutures, reservations,
                    queuedGenerationRequests>>
    BY <1>6 DEF AdmitStep, Admit, callVars, pullVars, closeVars
  <2>2. \A d \in Ranks : Held(d)' = Held(d)
    BY <1>6, HeldSteps
  <2> QED
    BY <1>1, <1>2, <2>1, <2>2
<1>7. ASSUME NEW finished \in SUBSET futures, NEW version,
             Resolve(finished, version), UNCHANGED <<pullCall, closePc>>,
             \A r \in Requests : Placed(r)' => Placed(r) /\ r \notin finished
      PROVE  Awaited' /\ Unanswered' /\ Closed' /\ Future'
  <2>1. /\ call' = [r \in Requests |-> IF r \in finished THEN "returned" ELSE call[r]]
        /\ futures' = futures \ finished
        /\ held' = held \ finished
    BY <1>7 DEF Resolve
  <2>2. Awaited' /\ Unanswered'
    BY <1>1, <1>7, <2>1
  <2> QED
    BY <1>1, <1>2, <1>7, <2>1, <2>2
<1>8. ASSUME NEW e \in Ranks, EngineSteps(e)
      PROVE  Awaited' /\ Unanswered' /\ Closed' /\ Future'
  <2>1. PICK advanced, finished : EngineStep(e, advanced, finished)
    BY <1>8, EngineStepsStep
  <2>2. /\ \A x \in Ranks \ {e} : Held(x)' = Held(x)
        /\ Held(e)' = IF e = 0 THEN Held(e) \ finished ELSE Held(e)
    BY <2>1, HeldSteps
  <2>3. UNCHANGED <<pullCall, closePc, queuedGenerationRequests>>
    BY <2>1 DEF EngineStep, pullVars, closeVars
  <2>4. CASE e # 0
    <3>1. UNCHANGED <<call, generationFutures, reservations>>
      BY <2>1, <2>4 DEF EngineStep, callVars, futureVars
    <3>2. \A d \in Ranks : Held(d)' = Held(d)
      BY <2>2, <2>4
    <3> QED
      BY <1>1, <1>2, <2>3, <3>1, <3>2
  <2>5. CASE e = 0
    <3>1. finished \subseteq futures
      BY <2>1, <2>5, FinishedAwaited
    <3>2. finished \subseteq Held(0)
      BY <2>1, <2>5, EngineStepMoves, HeldIs
    <3>3. \A r \in Requests : Placed(r)' => Placed(r) /\ r \notin finished
      BY <1>0, <2>2, <2>3, <2>5, <3>2 DEF HoldersApart
    <3>4. Resolve(finished, policyVersion[0])
      BY <2>1, <2>5 DEF EngineStep
    <3> QED
      BY <1>7, <2>3, <3>1, <3>3, <3>4
  <2> QED
    BY <2>4, <2>5
<1>9. ASSUME NEW e \in Ranks, NEW result \in resultPort[e],
             DrainResult(e, result) \/ DrainRaises(e, result)
      PROVE  Awaited' /\ Unanswered' /\ Closed' /\ Future'
  <2>1. /\ \A x \in Ranks \ {e} : Held(x)' = Held(x)
        /\ Held(e)' = Held(e) \ {result.request}
    BY <1>9, HeldSteps
  <2>2. UNCHANGED <<pullCall, closePc, queuedGenerationRequests>>
    BY <1>9 DEF DrainResult, DrainRaises, pullVars, closeVars
  <2>3. result.request \in Held(e)
    BY <1>9, DrainMoves, HeldIs
  <2>4. \A r \in Requests : Placed(r)' => Placed(r) /\ r # result.request
    BY <2>1, <2>2, <2>3 DEF HoldersApart
  <2>5. CASE DrainResult(e, result)
    <3>1. {result.request} \in SUBSET futures
      BY <2>5, FinishedAwaited
    <3>2. Resolve({result.request}, result.version)
      BY <2>5 DEF DrainResult
    <3> QED
      BY <1>7, <2>2, <2>4, <3>1, <3>2
  <2>6. CASE DrainRaises(e, result)
    <3>1. result.request \notin futures
      BY <2>6, FinishedAwaited
    <3>2. UNCHANGED <<call, reservations>> /\ futures' = futures
      BY <2>6, <3>1 DEF DrainRaises, callVars
    <3>3. Awaited' /\ Unanswered'
      BY <1>1, <2>4, <3>2
    <3> QED
      BY <1>1, <1>2, <2>2, <3>2, <3>3
  <2> QED
    BY <1>9, <2>5, <2>6
<1> QED
  BY <1>3, <1>4, <1>5, <1>6, <1>8, <1>9, StepCases

(* Versions are integers, so they can be compared.                         *)
LEMMA VersionsAreIntegers ==
  ASSUME TypeOK
  PROVE  /\ pullVersion \in Nat
         /\ Acknowledged \in Int /\ Acknowledged <= pullVersion
         /\ \A d \in Ranks : /\ policyVersion[d] \in Nat
                             /\ applying[d] \in Int
                             /\ inbox[d].version \in Int
                             /\ Target(d) \in Int
         /\ \A r \in Requests : /\ calledAt[r] \in Nat
                                /\ minPolicyVersion[r] \in Int
                                /\ \A v \in sampled[r] : v \in Nat
         /\ \A d \in Ranks : \A x \in resultPort[d] :
              x.request \in Requests /\ x.version \in Nat
<1> USE DEF TypeOK, EndpointTypeOK, DispatcherTypeOK, LoopTypeOK
<1>1. pullVersion \in Nat /\ pullCall \in {"waiting", "returned", "raised"}
  BY VersionTypes
<1>2. \A d \in Ranks : /\ policyVersion[d] \in Nat
                       /\ applying[d] \in Int
                       /\ inbox[d].version \in Int
  BY VersionTypes DEF NoVersion
<1>3. \A d \in Ranks : Target(d) \in Int
  BY <1>2 DEF Target
<1>4. \A r \in Requests : /\ calledAt[r] \in Nat
                          /\ minPolicyVersion[r] \in Int
                          /\ \A v \in sampled[r] : v \in Nat
  BY VersionTypes DEF Unstamped
<1>5. \A d \in Ranks : \A x \in resultPort[d] :
        x.request \in Requests /\ x.version \in Nat
  BY VersionTypes
<1> QED
  BY <1>1, <1>2, <1>3, <1>4, <1>5 DEF Acknowledged

LEMMA PullStaysPending ==
  ASSUME Barrier, [Next]_vars
  PROVE  PullPending' /\ Acknowledged' >= Acknowledged
<1> USE DEF Barrier, PlacesInv, VersionsInv
<1>0. /\ LoopTypeOK /\ 0 \in Ranks /\ EndpointTypeOK
      /\ pullVersion \in Nat /\ Acknowledged \in Int
  BY VersionTypes, VersionsAreIntegers DEF TypeOK
<1> DEFINE Request == modelStateDictPullRequest =
                        IF pullCall = "waiting" THEN pullVersion ELSE NoVersion
           Applied == policyVersion[0] = Acknowledged
           Sent == InService /\ inbox[0].action = "PULL" =>
                     inbox[0].version = pullVersion /\ pullCall = "waiting"
           Pulling == InService /\ loopPc[0] = "pulling" =>
                        applying[0] = pullVersion /\ pullCall = "waiting"
           Goal == /\ Request' /\ Applied' /\ Sent' /\ Pulling'
                   /\ Acknowledged' >= Acknowledged
<1>1. Request /\ Applied /\ Sent /\ Pulling
  BY DEF PullPending
<1> SUFFICES Goal
  BY DEF PullPending
<1>2. InService' => InService
  BY OutOfServiceForGood
<1>3. CASE /\ UNCHANGED <<pullVars, policyVersion, applying, inbox>>
           /\ loopPc'[0] = "pulling" => loopPc[0] = "pulling"
  BY <1>0, <1>1, <1>2, <1>3 DEF pullVars, Acknowledged
<1>4. ASSUME NEW decision, Broadcast(decision),
             UNCHANGED <<pullVars, policyVersion, applying>>,
             decision.action = "PULL" => decision.version = modelStateDictPullRequest,
             decision.action = "PULL" => modelStateDictPullRequest # NoVersion
      PROVE  Goal
  <2>1. inbox'[0] = decision /\ loopPc'[0] # "pulling"
    BY <1>0, <1>4 DEF Broadcast, LoopTypeOK
  <2>2. Request' /\ Applied' /\ Acknowledged' = Acknowledged
    BY <1>1, <1>4 DEF pullVars, Acknowledged
  <2>3. Sent'
    BY <1>1, <1>4, <2>1 DEF pullVars
  <2> QED
    BY <1>0, <2>1, <2>2, <2>3
<1>5. CASE DecideClose
  BY <1>4, <1>5 DEF DecideClose, Decision
<1>6. CASE DecidePull
  BY <1>4, <1>6 DEF DecidePull, Decision
<1>7. CASE \E route \in [queuedGenerationRequests -> Ranks] : DecideStep(route)
  BY <1>4, <1>7 DEF DecideStep, Decision
<1>8. CASE PullModelStateDict
  <2>1. /\ pullCall = "returned" /\ pullCall' = "waiting"
        /\ pullVersion' = pullVersion + 1
        /\ modelStateDictPullRequest' = pullVersion'
        /\ UNCHANGED <<policyVersion, applying, inbox, loopPc, closeVars>>
    BY <1>8 DEF PullModelStateDict
  <2>2. InService' = InService
    BY <2>1 DEF InService, closeVars
  <2>3. Acknowledged' = Acknowledged
    BY <1>0, <2>1 DEF Acknowledged
  <2> QED
    BY <1>0, <1>1, <2>1, <2>2, <2>3
<1>9. ASSUME FailOutstandingFutures, ~InService',
             UNCHANGED <<policyVersion>>
      PROVE  Goal
  <2>1. Acknowledged' = Acknowledged
    BY <1>9 DEF FailOutstandingFutures, PullCallFailed, Acknowledged
  <2>2. Request'
    BY <1>1, <1>9 DEF FailOutstandingFutures, PullCallFailed
  <2> QED
    BY <1>0, <1>1, <1>9, <2>1, <2>2
<1>10. CASE CloseReturns
  BY <1>9, <1>10 DEF CloseReturns, InService
<1>11. ASSUME NEW d \in Ranks, CrashStep(d)
       PROVE  Goal
  <2>1. CASE d = 0
    <3>1. ~InService' /\ FailOutstandingFutures /\ UNCHANGED policyVersion
      BY <1>0, <1>11, <2>1 DEF CrashStep, Crash, InService, LoopTypeOK
    <3> QED
      BY <1>9, <3>1
  <2>2. CASE d # 0
    BY <1>0, <1>3, <1>11, <2>2 DEF CrashStep, Crash, LoopTypeOK
  <2> QED
    BY <2>1, <2>2
<1>12. ASSUME NEW d \in Ranks, FinishPull(d)
       PROVE  Goal
  <2>1. CASE d # 0
    <3>1. /\ policyVersion'[0] = policyVersion[0]
          /\ applying'[0] = applying[0] /\ loopPc'[0] = loopPc[0]
      BY <1>0, <1>12, <2>1 DEF FinishPull, VersionBumped, LoopTypeOK
    <3>2. UNCHANGED <<pullVars, inbox>>
      BY <1>12, <2>1 DEF FinishPull, pullVars
    <3> QED
      BY <1>0, <1>1, <1>2, <3>1, <3>2 DEF pullVars, Acknowledged
  <2>2. CASE d = 0
    <3>1. InService
      BY <1>12, <2>2, WorkingInService DEF FinishPull
    <3>2. applying[0] = pullVersion /\ pullCall = "waiting"
      BY <1>1, <1>12, <2>2, <3>1 DEF FinishPull
    <3>3. /\ pullCall' = "returned" /\ modelStateDictPullRequest' = NoVersion
          /\ pullVersion' = pullVersion
          /\ policyVersion'[0] = pullVersion /\ loopPc'[0] = "decide"
          /\ inbox' = inbox
      BY <1>0, <1>12, <2>2, <3>2 DEF FinishPull, VersionBumped, LoopTypeOK, NextTurn
    <3>4. inbox[0].action # "PULL"
      BY <1>12, <2>2, EmptyDecisions DEF FinishPull, OneDecision
    <3> QED
      BY <1>0, <3>2, <3>3, <3>4 DEF Acknowledged
  <2> QED
    BY <2>1, <2>2
<1>13. ASSUME NEW d \in Ranks, ApplyClose(d) \/ ApplyPull(d) \/ AdmitStep(d)
       PROVE  Goal
  <2>1. UNCHANGED <<pullVars, policyVersion>>
    BY <1>13 DEF ApplyClose, ApplyPull, AdmitStep, Admit
  <2>2. Request' /\ Applied' /\ Acknowledged' = Acknowledged
    BY <1>1, <2>1 DEF pullVars, Acknowledged
  <2>3. inbox' = [inbox EXCEPT ![d] = NoDecision]
    BY <1>13 DEF ApplyClose, ApplyPull, AdmitStep, Admit, Received
  <2>4. Sent'
    BY <1>0, <1>1, <1>2, <2>1, <2>3, EmptyDecisions DEF pullVars, LoopTypeOK
  <2>5. Pulling'
    <3>1. CASE ApplyPull(d) /\ d = 0
      <4>1. applying'[0] = inbox[0].version /\ inbox[0].action = "PULL"
        BY <1>0, <3>1 DEF ApplyPull, LoopTypeOK
      <4> QED
        BY <1>1, <1>2, <2>1, <4>1 DEF pullVars
    <3>2. CASE ~(ApplyPull(d) /\ d = 0)
      <4>1. /\ loopPc'[0] = "pulling" => loopPc[0] = "pulling"
            /\ applying'[0] = applying[0]
        BY <1>0, <1>13, <3>2 DEF ApplyClose, ApplyPull, AdmitStep, Admit,
             DecisionReached, NextTurn, LoopTypeOK
      <4> QED
        BY <1>1, <1>2, <2>1, <4>1 DEF pullVars
    <3> QED
      BY <3>1, <3>2
  <2> QED
    BY <1>0, <2>2, <2>4, <2>5
<1>14. ASSUME NEW d \in Ranks, EngineSteps(d)
       PROVE  Goal
  BY <1>0, <1>3, <1>14 DEF EngineSteps, EngineStep, LoopTypeOK, NextTurn
<1>15. CASE \/ CloseRequested \/ CloseJoined \/ UNCHANGED vars
            \/ \E r \in Requests : Generate(r)
            \/ \E d \in Ranks : \E result \in resultPort[d] :
                 DrainResult(d, result) \/ DrainRaises(d, result)
  BY <1>3, <1>15 DEF CloseRequested, CloseJoined, vars, Generate, DrainResult,
       DrainRaises
<1> QED
  BY <1>5, <1>6, <1>7, <1>8, <1>10, <1>11, <1>12, <1>13, <1>14, <1>15, StepCases
     DEF QuietStep

(* What a step means for the versions of one rank.                         *)
SameVersions(d) ==
  /\ inbox'[d] = inbox[d] /\ applying'[d] = applying[d]
  /\ policyVersion'[d] = policyVersion[d]
  /\ loopPc'[d] = "pulling" <=> loopPc[d] = "pulling"

BroadcastSent(d) ==
  /\ inbox[d] = NoDecision
  /\ inbox'[d].action = "PULL" => inbox'[d].version = pullVersion
  /\ applying'[d] = applying[d] /\ policyVersion'[d] = policyVersion[d]
  /\ loopPc'[d] = "pulling" <=> loopPc[d] = "pulling"

DecisionTaken(d) ==
  /\ inbox[d].action # "PULL" /\ inbox'[d] = NoDecision
  /\ applying'[d] = applying[d] /\ policyVersion'[d] = policyVersion[d]
  /\ loopPc[d] = "receive" /\ loopPc'[d] # "pulling"

PullTaken(d) ==
  /\ inbox[d].action = "PULL" /\ inbox'[d] = NoDecision
  /\ applying'[d] = inbox[d].version /\ policyVersion'[d] = policyVersion[d]
  /\ loopPc[d] = "receive" /\ loopPc'[d] = "pulling"

PullApplied(d) ==
  /\ inbox'[d] = inbox[d]
  /\ policyVersion'[d] = applying[d]
  /\ loopPc[d] = "pulling" /\ loopPc'[d] # "pulling" /\ loopPc'[d] # "crashed"

GivenUp(d) ==
  /\ inbox'[d] = inbox[d] /\ policyVersion'[d] = policyVersion[d]
  /\ loopPc'[d] = "crashed"

LEMMA RankSteps ==
  ASSUME Barrier, [Next]_vars, NEW d \in Ranks
  PROVE  \/ SameVersions(d) /\ (loopPc'[d] # "crashed" => loopPc[d] # "crashed")
         \/ BroadcastSent(d) /\ (loopPc'[d] # "crashed" => loopPc[d] # "crashed")
         \/ DecisionTaken(d) \/ PullTaken(d) \/ PullApplied(d) \/ GivenUp(d)
<1> USE DEF Barrier, PlacesInv, VersionsInv
<1>0. LoopTypeOK /\ 0 \in Ranks
  BY VersionTypes DEF TypeOK
<1> DEFINE Goal ==
         \/ SameVersions(d) /\ (loopPc'[d] # "crashed" => loopPc[d] # "crashed")
         \/ BroadcastSent(d) /\ (loopPc'[d] # "crashed" => loopPc[d] # "crashed")
         \/ DecisionTaken(d) \/ PullTaken(d) \/ PullApplied(d) \/ GivenUp(d)
<1>1. CASE UNCHANGED <<inbox, loopPc, applying, policyVersion>>
  BY <1>1 DEF SameVersions
<1>2. ASSUME NEW decision, Broadcast(decision),
             UNCHANGED <<applying, policyVersion>>,
             decision.action = "PULL" => decision.version = pullVersion
      PROVE  Goal
  <2>1. inbox[d] = NoDecision /\ inbox'[d] = decision
    BY <1>2 DEF Broadcast
  <2>2. /\ loopPc'[d] = "pulling" <=> loopPc[d] = "pulling"
        /\ loopPc'[d] # "crashed" => loopPc[d] # "crashed"
    BY <1>0, <1>2 DEF Broadcast, LoopTypeOK
  <2> QED
    BY <1>2, <2>1, <2>2 DEF BroadcastSent
<1>3. CASE DecideClose
  BY <1>2, <1>3 DEF DecideClose, Decision
<1>4. CASE DecidePull
  <2>1. modelStateDictPullRequest = pullVersion
    BY <1>4 DEF DecidePull, PullPending
  <2> QED
    BY <1>2, <1>4, <2>1 DEF DecidePull, Decision
<1>5. CASE \E route \in [queuedGenerationRequests -> Ranks] : DecideStep(route)
  BY <1>2, <1>5 DEF DecideStep, Decision
<1>6. ASSUME NEW e \in Ranks, ApplyClose(e) \/ AdmitStep(e)
      PROVE  Goal
  <2>1. /\ inbox' = [inbox EXCEPT ![e] = NoDecision]
        /\ UNCHANGED <<applying, policyVersion>>
        /\ loopPc[e] = "receive" /\ inbox[e].action # "PULL"
    BY <1>6 DEF ApplyClose, AdmitStep, Admit, Received, DecisionReached
  <2>2. /\ \A x \in Ranks \ {e} : loopPc'[x] = loopPc[x]
        /\ loopPc'[e] # "pulling"
    BY <1>0, <1>6 DEF ApplyClose, AdmitStep, Admit, LoopTypeOK, NextTurn
  <2>3. CASE d = e
    BY <1>0, <2>1, <2>2, <2>3 DEF DecisionTaken, LoopTypeOK
  <2>4. CASE d # e
    BY <1>0, <2>1, <2>2, <2>4 DEF SameVersions, LoopTypeOK
  <2> QED
    BY <2>3, <2>4
<1>7. ASSUME NEW e \in Ranks, ApplyPull(e)
      PROVE  Goal
  <2>1. /\ inbox' = [inbox EXCEPT ![e] = NoDecision]
        /\ applying' = [applying EXCEPT ![e] = inbox[e].version]
        /\ loopPc' = [loopPc EXCEPT ![e] = "pulling"]
        /\ UNCHANGED policyVersion
        /\ loopPc[e] = "receive" /\ inbox[e].action = "PULL"
    BY <1>7 DEF ApplyPull, Received, DecisionReached
  <2>2. CASE d = e
    BY <1>0, <2>1, <2>2 DEF PullTaken, LoopTypeOK
  <2>3. CASE d # e
    BY <1>0, <2>1, <2>3 DEF SameVersions, LoopTypeOK
  <2> QED
    BY <2>2, <2>3
<1>8. ASSUME NEW e \in Ranks, FinishPull(e)
      PROVE  Goal
  <2>1. /\ inbox' = inbox /\ loopPc[e] = "pulling"
        /\ applying' = [applying EXCEPT ![e] = NoVersion]
        /\ loopPc' = [loopPc EXCEPT ![e] = NextTurn(e)]
        /\ policyVersion' = [policyVersion EXCEPT ![e] = applying[e]]
    BY <1>8 DEF FinishPull, VersionBumped
  <2>2. CASE d = e
    BY <1>0, <2>1, <2>2 DEF PullApplied, LoopTypeOK, NextTurn
  <2>3. CASE d # e
    BY <1>0, <2>1, <2>3 DEF SameVersions, LoopTypeOK
  <2> QED
    BY <2>2, <2>3
<1>9. ASSUME NEW e \in Ranks, CrashStep(e)
      PROVE  Goal
  <2>1. /\ UNCHANGED <<inbox, applying, policyVersion>>
        /\ loopPc' = [loopPc EXCEPT ![e] = "crashed"]
    BY <1>9 DEF CrashStep, Crash
  <2>2. CASE d = e
    BY <1>0, <2>1, <2>2 DEF GivenUp, LoopTypeOK
  <2>3. CASE d # e
    BY <1>0, <2>1, <2>3 DEF SameVersions, LoopTypeOK
  <2> QED
    BY <2>2, <2>3
<1>10. ASSUME NEW e \in Ranks, EngineSteps(e)
       PROVE  Goal
  <2>1. /\ UNCHANGED <<inbox, applying, policyVersion>>
        /\ loopPc[e] = "stepping"
        /\ \A x \in Ranks \ {e} : loopPc'[x] = loopPc[x]
        /\ loopPc'[e] # "pulling"
    BY <1>0, <1>10 DEF EngineSteps, EngineStep, LoopTypeOK, NextTurn
  <2> QED
    BY <2>1 DEF SameVersions
<1>11. CASE \/ PullModelStateDict \/ CloseRequested \/ CloseJoined \/ CloseReturns
            \/ UNCHANGED vars
            \/ \E r \in Requests : Generate(r)
            \/ \E e \in Ranks : \E result \in resultPort[e] :
                 DrainResult(e, result) \/ DrainRaises(e, result)
  BY <1>1, <1>11 DEF PullModelStateDict, CloseRequested, CloseJoined,
       CloseReturns, vars, Generate, DrainResult, DrainRaises
<1> QED
  BY <1>3, <1>4, <1>5, <1>6, <1>7, <1>8, <1>9, <1>10, <1>11, StepCases
     DEF QuietStep

LEMMA PullVersionGrows ==
  ASSUME PlacesInv, [Next]_vars
  PROVE  pullVersion' >= pullVersion
<1>1. pullVersion \in Nat
  BY VersionsAreIntegers DEF PlacesInv
<1>2. CASE UNCHANGED pullVersion
  BY <1>1, <1>2
<1>3. CASE PullModelStateDict
  BY <1>1, <1>3 DEF PullModelStateDict
<1>4. CASE ~PullModelStateDict
  BY <1>2, <1>4, StepCases
     DEF QuietStep, CloseRequested, CloseJoined, CloseReturns,
         FailOutstandingFutures, DecideClose, DecidePull, ApplyClose, ApplyPull,
         FinishPull, CrashStep, Crash, vars, pullVars, Generate, DecideStep,
         AdmitStep, Admit, EngineSteps, EngineStep, DrainResult, DrainRaises
<1> QED
  BY <1>3, <1>4

(* No rank's version goes back, nor does the version it is heading for,    *)
(* unless it gives up.                                                     *)
LEMMA VersionsKeepGrowing ==
  ASSUME Barrier, [Next]_vars
  PROVE  /\ VersionsGrow'
         /\ \A d \in Ranks :
              /\ policyVersion[d] <= policyVersion'[d]
              /\ loopPc'[d] # "crashed" =>
                   loopPc[d] # "crashed" /\ Target(d) <= Target(d)'
<1> USE DEF Barrier, PlacesInv, VersionsInv
<1> SUFFICES ASSUME NEW d \in Ranks
             PROVE  /\ policyVersion'[d] <= Target(d)'
                    /\ loopPc'[d] = "pulling" => policyVersion'[d] <= applying'[d]
                    /\ loopPc'[d] = "pulling" => applying'[d] <= Target(d)'
                    /\ Target(d)' <= pullVersion'
                    /\ policyVersion[d] <= policyVersion'[d]
                    /\ loopPc'[d] # "crashed" =>
                         loopPc[d] # "crashed" /\ Target(d) <= Target(d)'
  BY DEF VersionsGrow
<1>0. /\ policyVersion[d] \in Int /\ applying[d] \in Int /\ inbox[d].version \in Int
      /\ pullVersion \in Int /\ Target(d) \in Int
  BY VersionsAreIntegers
<1>1. /\ policyVersion[d] <= Target(d)
      /\ loopPc[d] = "pulling" => policyVersion[d] <= applying[d]
      /\ loopPc[d] = "pulling" => applying[d] <= Target(d)
      /\ Target(d) <= pullVersion
  BY DEF VersionsGrow
<1>2. pullVersion' >= pullVersion /\ pullVersion' \in Int
  <2>1. EndpointTypeOK'
    BY PlacesNext DEF TypeOK
  <2>2. pullVersion' \in Versions
    BY <2>1 DEF EndpointTypeOK
  <2> QED
    BY <2>2, PullVersionGrows, VersionTypes
<1>3. CASE SameVersions(d) /\ (loopPc'[d] # "crashed" => loopPc[d] # "crashed")
  BY <1>0, <1>1, <1>2, <1>3 DEF SameVersions, Target
<1>4. CASE BroadcastSent(d) /\ (loopPc'[d] # "crashed" => loopPc[d] # "crashed")
  BY <1>0, <1>1, <1>2, <1>4, EmptyDecisions DEF BroadcastSent, Target
<1>5. CASE DecisionTaken(d)
  BY <1>0, <1>1, <1>2, <1>5, EmptyDecisions DEF DecisionTaken, Target
<1>6. CASE PullTaken(d)
  BY <1>0, <1>1, <1>2, <1>6, EmptyDecisions DEF PullTaken, Target
<1>7. CASE PullApplied(d)
  BY <1>0, <1>1, <1>2, <1>7 DEF PullApplied, Target
<1>8. CASE GivenUp(d)
  BY <1>0, <1>1, <1>2, <1>8 DEF GivenUp, Target
<1> QED
  BY <1>3, <1>4, <1>5, <1>6, <1>7, <1>8, RankSteps

LEMMA NextIntegers ==
  ASSUME PlacesInv, [Next]_vars
  PROVE  /\ pullVersion' \in Int
         /\ \A d \in Ranks : policyVersion'[d] \in Int /\ Target(d)' \in Int
<1>1. EndpointTypeOK' /\ LoopTypeOK'
  BY PlacesNext DEF PlacesInv, TypeOK
<1>2. pullVersion' \in Int
  BY <1>1, VersionTypes DEF EndpointTypeOK
<1>3. ASSUME NEW d \in Ranks
      PROVE  policyVersion'[d] \in Int /\ Target(d)' \in Int
  <2>1. /\ inbox'[d].version \in Versions \cup {NoVersion}
        /\ applying'[d] \in Versions \cup {NoVersion}
        /\ policyVersion'[d] \in Versions
    BY <1>1 DEF LoopTypeOK
  <2>2. \A v \in Versions \cup {NoVersion} : v \in Int
    BY GeneratorAssumption DEF Versions, NoVersion
  <2>3. inbox'[d].version \in Int /\ applying'[d] \in Int /\ policyVersion'[d] \in Int
    BY <2>1, <2>2
  <2> QED
    BY <2>3 DEF Target
<1> QED
  BY <1>2, <1>3

(* No rank heads for an older version than rank 0 does.                    *)
LEMMA PeersStayCaughtUp ==
  ASSUME Barrier, [Next]_vars
  PROVE  PeersCatchUp'
<1> USE DEF Barrier, PlacesInv, VersionsInv
<1>0. 0 \in Ranks /\ LoopTypeOK
  BY VersionTypes DEF TypeOK
<1> SUFFICES ASSUME loopPc'[0] # "crashed", NEW d \in Ranks,
                    loopPc'[d] # "crashed"
             PROVE  Target(0)' <= Target(d)'
  BY DEF PeersCatchUp
<1>1. loopPc[0] # "crashed" /\ loopPc[d] # "crashed"
  BY <1>0, VersionsKeepGrowing
<1>2. Target(0) <= Target(d) /\ Target(d) <= Target(d)'
  BY <1>1, VersionsKeepGrowing DEF PeersCatchUp
<1>3. /\ Target(0) \in Int /\ Target(d) \in Int /\ pullVersion \in Int
      /\ policyVersion[0] \in Int /\ applying[0] \in Int
      /\ inbox[0].version \in Int
  BY <1>0, VersionsAreIntegers
<1>4. Target(d)' \in Int
  BY NextIntegers
<1>5. CASE BroadcastSent(0)
  <2>1. CASE inbox'[0].action = "PULL"
    <3>1. Target(0)' = inbox'[0].version
      BY <2>1 DEF Target
    <3>2. inbox'[d] = inbox'[0]
      BY <2>1, OneDecisionStep, EmptyDecisions DEF OneDecision
    <3>3. Target(d)' = inbox'[0].version
      BY <2>1, <3>2 DEF Target
    <3>4. Target(0)' \in Int
      BY <1>3, <1>5, <2>1, <3>1 DEF BroadcastSent
    <3> QED
      BY <3>1, <3>3, <3>4
  <2>2. CASE inbox'[0].action # "PULL"
    <3>1. Target(0)' = Target(0)
      BY <1>5, <2>2, EmptyDecisions DEF BroadcastSent, Target
    <3> QED
      BY <1>2, <1>3, <1>4, <3>1
  <2> QED
    BY <2>1, <2>2
<1>6. CASE SameVersions(0) \/ DecisionTaken(0) \/ PullTaken(0) \/ PullApplied(0)
  <2>1. Target(0)' = Target(0)
    BY <1>6, EmptyDecisions
       DEF SameVersions, DecisionTaken, PullTaken, PullApplied, Target
  <2> QED
    BY <1>2, <1>3, <1>4, <2>1
<1>7. ~GivenUp(0)
  BY DEF GivenUp
<1> QED
  BY <1>0, <1>5, <1>6, <1>7, RankSteps

LEMMA StaysCalledBefore ==
  ASSUME Barrier, [Next]_vars
  PROVE  CalledBeforeAcknowledged'
<1> USE DEF Barrier, PlacesInv, VersionsInv
<1>1. Acknowledged' >= Acknowledged
  BY PullStaysPending
<1>2. Acknowledged \in Int /\ Acknowledged' \in Int
  <2>1. EndpointTypeOK'
    BY PlacesNext DEF TypeOK
  <2>2. pullVersion' \in Int
    BY <2>1, VersionTypes DEF EndpointTypeOK
  <2> QED
    BY <2>2, VersionsAreIntegers DEF Acknowledged
<1>3. \A r \in Requests : calledAt[r] \in Int /\ calledAt[r] <= Acknowledged
  BY VersionsAreIntegers DEF CalledBeforeAcknowledged
<1>4. CASE UNCHANGED calledAt
  BY <1>1, <1>2, <1>3, <1>4 DEF CalledBeforeAcknowledged
<1>5. ASSUME NEW r \in Requests, Generate(r)
      PROVE  CalledBeforeAcknowledged'
  <2>1. \A s \in Requests : calledAt'[s] = calledAt[s] \/ calledAt'[s] = Acknowledged
    BY <1>5 DEF Generate, TypeOK, EndpointTypeOK
  <2> QED
    BY <1>1, <1>2, <1>3, <2>1 DEF CalledBeforeAcknowledged
<1>6. CASE \/ \E route \in [queuedGenerationRequests -> Ranks] : DecideStep(route)
           \/ \E d \in Ranks : AdmitStep(d)
           \/ \E d \in Ranks : EngineSteps(d)
           \/ \E d \in Ranks : \E result \in resultPort[d] :
                DrainResult(d, result) \/ DrainRaises(d, result)
  <2>1. ASSUME NEW finished, NEW version, Resolve(finished, version)
        PROVE  UNCHANGED calledAt
    BY <2>1 DEF Resolve
  <2>2. ASSUME NEW d \in Ranks, NEW advanced, NEW finished,
               EngineStep(d, advanced, finished)
        PROVE  UNCHANGED calledAt
    BY <2>1, <2>2 DEF EngineStep, callVars
  <2>3. ASSUME NEW d \in Ranks, EngineSteps(d)
        PROVE  UNCHANGED calledAt
    BY <2>2, <2>3, EngineStepsStep
  <2>4. ASSUME NEW d \in Ranks, NEW result,
               DrainResult(d, result) \/ DrainRaises(d, result)
        PROVE  UNCHANGED calledAt
    BY <2>1, <2>4 DEF DrainResult, DrainRaises, callVars
  <2>5. CASE \/ \E route \in [queuedGenerationRequests -> Ranks] : DecideStep(route)
             \/ \E d \in Ranks : AdmitStep(d)
    BY <1>4, <2>5 DEF DecideStep, AdmitStep, Admit, callVars
  <2> QED
    BY <1>4, <1>6, <2>3, <2>4, <2>5
<1>7. CASE QuietStep
  BY <1>4, <1>7, QuietMovesNothing DEF QuietEffect
<1> QED
  BY <1>5, <1>6, <1>7, StepCases

(* Stamps stay good where requests only leave and no token is sampled.     *)
StampsKept(d) ==
  /\ StampedAt(d)' \subseteq StampedAt(d)
  /\ StampedAt(d)' \cap inbox'[d].requests[d] \subseteq inbox[d].requests[d]
  /\ engine'[d] \subseteq engine[d]
  /\ resultPort'[d] \subseteq resultPort[d]
  /\ \A r \in StampedAt(d) :
       /\ minPolicyVersion'[r] = minPolicyVersion[r]
       /\ calledAt'[r] = calledAt[r]
       /\ sampled'[r] = sampled[r]

LEMMA StampedIs ==
  ASSUME TypeOK, NEW d \in Ranks
  PROVE  /\ engine[d] \subseteq StampedAt(d)
         /\ \A x \in resultPort[d] : x.request \in StampedAt(d)
         /\ StampedAt(d) \subseteq Held(d)
         /\ Held(d) \subseteq Requests
         /\ inbox[0] # NoDecision => StampedAt(d) = engine[d] \cup PortRequests(d)
         /\ inbox[0] = NoDecision => StampedAt(d) = Held(d)
BY HeldType DEF StampedAt, PortRequests, Held

LEMMA KeptStampsBracket ==
  ASSUME Barrier, [Next]_vars, NEW d \in Ranks, StampsKept(d)
  PROVE  /\ StampsBelow(d)' /\ SlicesReachable(d)'
         /\ EnginesAbove(d)' /\ PortsAbove(d)'
<1>0. /\ TypeOK /\ PlacesInv
      /\ StampsBelow(d) /\ SlicesReachable(d) /\ EnginesAbove(d) /\ PortsAbove(d)
  BY DEF Barrier, PlacesInv, VersionsInv, StampsBracket
<1>1. StampsBelow(d)'
  BY <1>0 DEF StampsKept, StampsBelow
<1>2. \A r \in StampedAt(d) : r \in Requests /\ minPolicyVersion[r] \in Int
                              /\ \A v \in sampled[r] : v \in Int
  BY <1>0, StampedIs, VersionsAreIntegers
<1>3. SlicesReachable(d)'
  <2>1. SUFFICES ASSUME loopPc'[d] # "crashed",
                        NEW r \in StampedAt(d)' \cap inbox'[d].requests[d]
                 PROVE  minPolicyVersion'[r] <= Target(d)'
    BY DEF SlicesReachable
  <2>2. loopPc[d] # "crashed" /\ Target(d) <= Target(d)'
    BY <2>1, VersionsKeepGrowing
  <2>3. /\ r \in StampedAt(d) \cap inbox[d].requests[d]
        /\ minPolicyVersion'[r] = minPolicyVersion[r]
    BY <2>1 DEF StampsKept
  <2>4. minPolicyVersion[r] <= Target(d)
    BY <1>0, <2>2, <2>3 DEF SlicesReachable
  <2> QED
    BY <1>0, <1>2, <2>2, <2>3, <2>4, VersionsAreIntegers, NextIntegers
<1>4. EnginesAbove(d)'
  <2>1. SUFFICES ASSUME NEW r \in engine'[d]
                 PROVE  /\ minPolicyVersion'[r] <= policyVersion'[d]
                        /\ \A v \in sampled'[r] : v <= policyVersion'[d]
    BY DEF EnginesAbove
  <2>2. /\ r \in engine[d] /\ r \in StampedAt(d)
        /\ minPolicyVersion'[r] = minPolicyVersion[r] /\ sampled'[r] = sampled[r]
    BY <1>0, <2>1, StampedIs DEF StampsKept
  <2>3. /\ minPolicyVersion[r] <= policyVersion[d]
        /\ \A v \in sampled[r] : v <= policyVersion[d]
    BY <1>0, <2>2 DEF EnginesAbove
  <2>4. policyVersion[d] <= policyVersion'[d]
    BY VersionsKeepGrowing
  <2>5. policyVersion[d] \in Int /\ policyVersion'[d] \in Int
    BY <1>0, VersionsAreIntegers, NextIntegers
  <2> QED
    BY <1>2, <2>2, <2>3, <2>4, <2>5
<1>5. PortsAbove(d)'
  <2>1. SUFFICES ASSUME NEW x \in resultPort'[d]
                 PROVE  /\ minPolicyVersion'[x.request] <= x.version
                        /\ x.version <= pullVersion'
                        /\ \A v \in sampled'[x.request] : v <= x.version
    BY DEF PortsAbove
  <2>2. /\ x \in resultPort[d] /\ x.request \in StampedAt(d)
        /\ minPolicyVersion'[x.request] = minPolicyVersion[x.request]
        /\ sampled'[x.request] = sampled[x.request]
    BY <1>0, <2>1, StampedIs DEF StampsKept
  <2>3. /\ minPolicyVersion[x.request] <= x.version
        /\ x.version <= pullVersion
        /\ \A v \in sampled[x.request] : v <= x.version
    BY <1>0, <2>2 DEF PortsAbove
  <2>4. pullVersion \in Int /\ pullVersion' \in Int /\ x.version \in Int
    BY <1>0, <2>2, VersionsAreIntegers, NextIntegers
  <2>5. pullVersion <= pullVersion'
    BY <1>0, <2>4, PullVersionGrows
  <2> QED
    BY <2>2, <2>3, <2>4, <2>5
<1> QED
  BY <1>1, <1>3, <1>4, <1>5

LEMMA StampedShrinks ==
  ASSUME NEW d \in Ranks, NEW slice, NEW held, NEW ported,
         Moved(d, slice, held, ported),
         slice \subseteq LocalRequests(d), held \subseteq engine[d],
         ported \subseteq PortRequests(d),
         inbox'[0] = NoDecision => inbox[0] = NoDecision \/ slice = {}
  PROVE  /\ StampedAt(d)' \subseteq StampedAt(d)
         /\ inbox'[d].requests[d] \subseteq inbox[d].requests[d]
         /\ engine'[d] \subseteq engine[d]
BY DEF StampedAt, Moved, LocalRequests

LEMMA QuietKeepsStamps ==
  ASSUME Barrier, QuietStep, NEW d \in Ranks
  PROVE  StampsKept(d)
<1>0. /\ PlacesInv /\ TypeOK /\ WellFormedDecisions /\ OneDecision
      /\ LoopTypeOK /\ 0 \in Ranks
  BY VersionTypes DEF Barrier, PlacesInv, VersionsInv, TypeOK
<1>1. QuietEffect
  BY <1>0, QuietMovesNothing
<1>2. Moved(d, LocalRequests(d), engine[d], PortRequests(d))
  BY <1>1 DEF QuietEffect, Unmoved
<1>3. ASSUME inbox'[0] = NoDecision, inbox[0] # NoDecision
      PROVE  LocalRequests(d) = {}
  <2>1. inbox[d] = inbox[0]
    BY <1>0, <1>3 DEF OneDecision
  <2>2. inbox[0].action # "STEP"
    <3>1. CASE UNCHANGED inbox
      BY <1>3, <3>1
    <3>2. CASE DecideClose \/ DecidePull
      BY <1>0, <1>3, <3>2 DEF DecideClose, DecidePull, Broadcast
    <3>3. ASSUME NEW e \in Ranks, ApplyClose(e) \/ ApplyPull(e)
          PROVE  inbox[0].action # "STEP"
      BY <1>0, <1>3, <3>3 DEF ApplyClose, ApplyPull, Received, LoopTypeOK
    <3>4. CASE \/ PullModelStateDict \/ CloseRequested \/ CloseJoined \/ CloseReturns
               \/ \E e \in Ranks : FinishPull(e) \/ CrashStep(e)
               \/ UNCHANGED vars
      BY <3>1, <3>4 DEF PullModelStateDict, CloseRequested, CloseJoined,
           CloseReturns, FinishPull, CrashStep, Crash, vars
    <3> QED
      BY <3>2, <3>3, <3>4 DEF QuietStep
  <2> QED
    BY <1>0, <2>1, <2>2, EmptySlices
<1>4. /\ StampedAt(d)' \subseteq StampedAt(d)
      /\ inbox'[d].requests[d] \subseteq inbox[d].requests[d]
      /\ engine'[d] \subseteq engine[d]
  BY <1>2, <1>3, StampedShrinks
<1>5. /\ resultPort' = resultPort /\ minPolicyVersion' = minPolicyVersion
      /\ calledAt' = calledAt /\ sampled' = sampled
  BY <1>1 DEF QuietEffect
<1> QED
  BY <1>4, <1>5 DEF StampsKept

LEMMA GenerateKeepsStamps ==
  ASSUME Barrier, NEW s \in Requests, Generate(s), NEW d \in Ranks
  PROVE  StampsKept(d)
<1>0. PlacesInv /\ TypeOK /\ Uncalled /\ Reserved /\ EndpointTypeOK
  BY DEF Barrier, PlacesInv, TypeOK
<1>1. /\ Moved(d, LocalRequests(d), engine[d], PortRequests(d))
      /\ inbox' = inbox /\ resultPort' = resultPort
      /\ minPolicyVersion' = minPolicyVersion /\ sampled' = sampled
  BY GenerateMoves DEF Unmoved
<1>2. /\ StampedAt(d)' \subseteq StampedAt(d)
      /\ inbox'[d].requests[d] \subseteq inbox[d].requests[d]
      /\ engine'[d] \subseteq engine[d]
  BY <1>1, StampedShrinks
<1>3. call[s] = "idle" /\ s \notin DOMAIN reservations
  BY <1>0 DEF Generate, Uncalled
<1>4. s \notin StampedAt(d) /\ StampedAt(d) \subseteq Requests
  BY <1>0, <1>3, StampedIs DEF Reserved
<1>5. \A r \in Requests : r # s => calledAt'[r] = calledAt[r]
  BY <1>0 DEF Generate, EndpointTypeOK
<1> QED
  BY <1>1, <1>2, <1>4, <1>5 DEF StampsKept

LEMMA DecideStepKeepsStamps ==
  ASSUME Barrier, NEW route \in [queuedGenerationRequests -> Ranks],
         DecideStep(route), NEW d \in Ranks
  PROVE  StampsKept(d)
<1>0. PlacesInv /\ TypeOK /\ HoldersApart /\ 0 \in Ranks
  BY VersionTypes DEF Barrier, PlacesInv
<1> DEFINE slice == {r \in queuedGenerationRequests : route[r] = d}
<1>1. Moved(d, slice, engine[d], PortRequests(d))
  BY <1>0, DecideStepMoves
<1>2. inbox[0] = NoDecision /\ inbox'[0] # NoDecision
  BY <1>0, EmptyDecisions DEF DecideStep, Broadcast, Decision
<1>3. /\ StampedAt(d)' = engine[d] \cup PortRequests(d)
      /\ inbox'[d].requests[d] = slice /\ engine'[d] = engine[d]
  BY <1>1, <1>2 DEF StampedAt, Moved, LocalRequests
<1>4. StampedAt(d)' \subseteq Held(d) /\ StampedAt(d)' \subseteq StampedAt(d)
  BY <1>3 DEF Held, StampedAt
<1>5. StampedAt(d)' \cap inbox'[d].requests[d] = {}
  BY <1>0, <1>3, <1>4 DEF HoldersApart
<1>6. /\ resultPort' = resultPort /\ minPolicyVersion' = minPolicyVersion
      /\ calledAt' = calledAt /\ sampled' = sampled
  BY DEF DecideStep, callVars, engineVars
<1> QED
  BY <1>3, <1>4, <1>5, <1>6 DEF StampsKept

LEMMA DrainKeepsStamps ==
  ASSUME Barrier, NEW e \in Ranks, NEW result \in resultPort[e],
         DrainResult(e, result) \/ DrainRaises(e, result), NEW d \in Ranks
  PROVE  StampsKept(d)
<1>0. PlacesInv /\ DispatcherTypeOK
  BY DEF Barrier, PlacesInv, TypeOK
<1>1. \E ported : /\ Moved(d, LocalRequests(d), engine[d], ported)
                  /\ ported \subseteq PortRequests(d)
  <2>1. CASE d = e
    <3>1. Moved(d, LocalRequests(d), engine[d], PortRequests(d) \ {result.request})
      BY <1>0, <2>1, DrainMoves
    <3> QED
      BY <3>1
  <2>2. CASE d # e
    <3>1. Moved(d, LocalRequests(d), engine[d], PortRequests(d))
      BY <1>0, <2>2, DrainMoves DEF Unmoved
    <3> QED
      BY <3>1
  <2> QED
    BY <2>1, <2>2
<1>2. /\ inbox' = inbox /\ minPolicyVersion' = minPolicyVersion
      /\ calledAt' = calledAt /\ sampled' = sampled
  BY DEF DrainResult, DrainRaises, Resolve, callVars, engineVars
<1>3. resultPort'[d] \subseteq resultPort[d]
  <2>1. resultPort' = [resultPort EXCEPT ![e] = @ \ {result}]
    BY <1>0, DrainMoves
  <2> QED
    BY <1>0, <2>1 DEF DispatcherTypeOK
<1>4. /\ StampedAt(d)' \subseteq StampedAt(d)
      /\ inbox'[d].requests[d] \subseteq inbox[d].requests[d]
      /\ engine'[d] \subseteq engine[d]
  BY <1>1, <1>2, StampedShrinks
<1> QED
  BY <1>2, <1>3, <1>4 DEF StampsKept

(* Rank 0 stamps what it admits and what the others will: its version is   *)
(* neither older than the calls nor newer than what any rank is heading    *)
(* for, and nothing of it has been sampled.                                *)
LEMMA AdmitOnRank0Stamps ==
  ASSUME Barrier, [Next]_vars, AdmitStep(0), NEW d \in Ranks
  PROVE  /\ StampsBelow(d)' /\ SlicesReachable(d)'
         /\ EnginesAbove(d)' /\ PortsAbove(d)'
<1>0. /\ PlacesInv /\ TypeOK /\ LoopTypeOK /\ DispatcherTypeOK /\ 0 \in Ranks
      /\ StagesApart /\ HoldersApart /\ Unsampled /\ OneDecision
      /\ PullPending /\ CalledBeforeAcknowledged /\ PeersCatchUp
      /\ StampsBelow(d) /\ SlicesReachable(d) /\ EnginesAbove(d) /\ PortsAbove(d)
  BY VersionTypes
     DEF Barrier, PlacesInv, VersionsInv, TypeOK, StampsBracket
<1> DEFINE slice == inbox[d].requests[d]
<1>1. /\ inbox[0] # NoDecision /\ inbox[0].action = "STEP"
      /\ loopPc[0] = "receive" /\ loopPc'[0] # "crashed"
  BY <1>0 DEF AdmitStep, Admit, DecisionReached, LoopTypeOK, NextTurn
<1>2. \A e \in Ranks : inbox[e] = inbox[0]
  BY <1>0, <1>1 DEF OneDecision
<1>3. /\ inbox' = [inbox EXCEPT ![0] = NoDecision]
      /\ minPolicyVersion' = Stamped
      /\ resultPort' = resultPort /\ calledAt' = calledAt /\ sampled' = sampled
      /\ policyVersion' = policyVersion /\ applying' = applying
      /\ pullVersion' = pullVersion
      /\ \A e \in Ranks \ {0} : loopPc'[e] = loopPc[e]
  BY <1>0 DEF AdmitStep, Admit, Received, callVars, engineVars, pullVars,
              LoopTypeOK
<1>4. engine'[d] = IF d = 0 THEN engine[d] \cup slice ELSE engine[d]
  BY <1>0 DEF AdmitStep, Admit, LocalRequests, LoopTypeOK
<1>5. \A r \in Requests :
        minPolicyVersion'[r] = IF r \in RequestsOf(inbox[0]) THEN policyVersion[0]
                               ELSE minPolicyVersion[r]
  BY <1>3 DEF Stamped
<1>6. slice \subseteq RequestsOf(inbox[0]) /\ slice \subseteq Requests
  BY <1>0, <1>2 DEF RequestsOf, LoopTypeOK
<1>7. StampedAt(d) = engine[d] \cup PortRequests(d)
  BY <1>0, <1>1, StampedIs
<1>8. StampedAt(d) \cap RequestsOf(inbox[0]) = {}
  <2>1. SUFFICES ASSUME NEW r \in StampedAt(d), NEW e \in Ranks,
                        r \in inbox[0].requests[e]
                 PROVE  FALSE
    BY DEF RequestsOf
  <2>2. r \in inbox[e].requests[e] /\ r \in Held(e) /\ r \in Held(d)
    BY <1>0, <1>2, <2>1, StampedIs DEF Held
  <2>3. d = e
    BY <1>0, <2>2 DEF HoldersApart
  <2> QED
    BY <1>0, <1>7, <2>1, <2>2, <2>3 DEF StagesApart
<1>9. /\ StampedAt(d)' \subseteq StampedAt(d) \cup slice
      /\ StampedAt(d) \subseteq Requests
  BY <1>0, <1>3, <1>4, StampedIs, EmptyDecisions
     DEF StampedAt, PortRequests, LoopTypeOK
<1>10. /\ policyVersion[0] \in Nat /\ policyVersion[0] = Acknowledged
       /\ policyVersion[d] \in Nat /\ policyVersion'[d] = policyVersion[d]
  BY <1>0, <1>3, VersionsAreIntegers DEF PullPending
<1>11. ASSUME NEW r \in slice
       PROVE  /\ minPolicyVersion'[r] = policyVersion[0]
              /\ sampled'[r] = {} /\ calledAt'[r] <= policyVersion[0]
  BY <1>0, <1>3, <1>5, <1>6, <1>10
     DEF Unsampled, Fresh, CalledBeforeAcknowledged
<1>12. ASSUME NEW r \in StampedAt(d)
       PROVE  minPolicyVersion'[r] = minPolicyVersion[r]
  BY <1>5, <1>8, <1>9
<1>13. StampsBelow(d)'
  <2>1. SUFFICES ASSUME NEW r \in StampedAt(d)'
                 PROVE  /\ minPolicyVersion'[r] # Unstamped
                        /\ calledAt'[r] <= minPolicyVersion'[r]
                        /\ \A v \in sampled'[r] : minPolicyVersion'[r] <= v
    BY DEF StampsBelow
  <2>2. CASE r \in slice
    BY <1>10, <1>11, <2>2 DEF Unstamped
  <2>3. CASE r \in StampedAt(d)
    BY <1>0, <1>3, <1>12, <2>3 DEF StampsBelow
  <2> QED
    BY <1>9, <2>1, <2>2, <2>3
<1>14. SlicesReachable(d)'
  <2>1. CASE d = 0
    <3>1. inbox'[d].requests[d] = {}
      BY <1>0, <1>3, <2>1, EmptyDecisions DEF LoopTypeOK
    <3> QED
      BY <3>1 DEF SlicesReachable
  <2>2. CASE d # 0
    <3>1. SUFFICES ASSUME loopPc'[d] # "crashed", NEW r \in inbox'[d].requests[d]
                   PROVE  minPolicyVersion'[r] <= Target(d)'
      BY DEF SlicesReachable
    <3>2. inbox'[d] = inbox[d] /\ loopPc'[d] = loopPc[d]
      BY <1>0, <1>3, <2>2 DEF LoopTypeOK
    <3>3. Target(d)' = Target(d)
      BY <1>3, <3>2 DEF Target
    <3>4. Target(0) = policyVersion[0] /\ Target(0) <= Target(d)
      BY <1>0, <1>1, <3>1, <3>2 DEF Target, PeersCatchUp
    <3>5. minPolicyVersion'[r] = policyVersion[0]
      BY <1>11, <3>1, <3>2
    <3> QED
      BY <3>3, <3>4, <3>5
  <2> QED
    BY <2>1, <2>2
<1>15. EnginesAbove(d)'
  <2>1. SUFFICES ASSUME NEW r \in engine'[d]
                 PROVE  /\ minPolicyVersion'[r] <= policyVersion'[d]
                        /\ \A v \in sampled'[r] : v <= policyVersion'[d]
    BY DEF EnginesAbove
  <2>2. CASE r \in engine[d]
    BY <1>0, <1>3, <1>7, <1>12, <2>2 DEF EnginesAbove
  <2>3. CASE r \in slice /\ d = 0
    BY <1>10, <1>11, <2>3
  <2> QED
    BY <1>4, <2>1, <2>2, <2>3
<1>16. PortsAbove(d)'
  <2>1. SUFFICES ASSUME NEW x \in resultPort[d]
                 PROVE  /\ minPolicyVersion'[x.request] <= x.version
                        /\ x.version <= pullVersion'
                        /\ \A v \in sampled'[x.request] : v <= x.version
    BY <1>3 DEF PortsAbove
  <2>2. x.request \in StampedAt(d)
    BY <1>0, <2>1, StampedIs
  <2> QED
    BY <1>0, <1>3, <1>12, <2>2 DEF PortsAbove
<1> QED
  BY <1>13, <1>14, <1>15, <1>16

(* Another rank admits only what rank 0 has stamped before (the broadcast  *)
(* is a barrier), after the pulls that were decided before.                *)
LEMMA AdmitOnPeerStamps ==
  ASSUME Barrier, [Next]_vars, NEW e \in Ranks, e # 0, AdmitStep(e),
         NEW d \in Ranks
  PROVE  /\ StampsBelow(d)' /\ SlicesReachable(d)'
         /\ EnginesAbove(d)' /\ PortsAbove(d)'
<1>0. /\ PlacesInv /\ TypeOK /\ LoopTypeOK /\ 0 \in Ranks /\ Unsampled
      /\ StampsBelow(d) /\ SlicesReachable(d) /\ EnginesAbove(d) /\ PortsAbove(d)
  BY VersionTypes
     DEF Barrier, PlacesInv, VersionsInv, TypeOK, StampsBracket
<1>1. /\ inbox[0] = NoDecision /\ inbox[e].action = "STEP" /\ loopPc[e] = "receive"
  BY DEF AdmitStep, DecisionReached, Barrier
<1>2. /\ inbox' = [inbox EXCEPT ![e] = NoDecision]
      /\ minPolicyVersion' = minPolicyVersion
      /\ resultPort' = resultPort /\ calledAt' = calledAt /\ sampled' = sampled
      /\ policyVersion' = policyVersion
  BY DEF AdmitStep, Admit, Received, callVars, engineVars
<1>3. CASE d # e
  <2>1. Moved(d, LocalRequests(d), engine[d], PortRequests(d))
    BY <1>0, <1>3, AdmitMoves DEF Unmoved
  <2>2. /\ StampedAt(d)' \subseteq StampedAt(d)
        /\ inbox'[d].requests[d] \subseteq inbox[d].requests[d]
        /\ engine'[d] \subseteq engine[d]
    BY <1>1, <2>1, StampedShrinks
  <2>3. StampsKept(d)
    BY <1>2, <2>2 DEF StampsKept
  <2> QED
    BY <2>3, KeptStampsBracket
<1>4. CASE d = e
  <2>1. /\ inbox'[0] = NoDecision /\ inbox'[d] = NoDecision
        /\ engine'[d] = engine[d] \cup inbox[d].requests[d]
    BY <1>0, <1>1, <1>2, <1>4 DEF AdmitStep, Admit, LocalRequests, LoopTypeOK
  <2>2. StampedAt(d)' = StampedAt(d) /\ inbox'[d].requests[d] = {}
    BY <1>1, <1>2, <2>1, EmptyDecisions DEF StampedAt, PortRequests
  <2>3. inbox[d].requests[d] \subseteq StampedAt(d)
    BY <1>1 DEF StampedAt
  <2>4. StampsBelow(d)' /\ SlicesReachable(d)'
    BY <1>0, <1>2, <2>2 DEF StampsBelow, SlicesReachable
  <2>5. Target(d) = policyVersion[d] /\ loopPc[d] # "crashed"
    BY <1>1, <1>4 DEF Target
  <2>6. \A r \in inbox[d].requests[d] :
          minPolicyVersion[r] <= policyVersion[d] /\ sampled[r] = {}
    BY <1>0, <2>3, <2>5 DEF SlicesReachable, Unsampled, Fresh, LoopTypeOK
  <2>7. EnginesAbove(d)'
    BY <1>0, <1>2, <2>1, <2>6 DEF EnginesAbove
  <2>8. PortsAbove(d)'
    <3>1. pullVersion' = pullVersion
      BY DEF AdmitStep, Admit, pullVars
    <3> QED
      BY <1>0, <1>2, <3>1 DEF PortsAbove
  <2> QED
    BY <2>4, <2>7, <2>8
<1> QED
  BY <1>3, <1>4

(* An engine samples with its rank's version, which is the newest of the   *)
(* request's tokens and no older than its stamp.                           *)
LEMMA EngineStepStamps ==
  ASSUME Barrier, [Next]_vars, NEW e \in Ranks, NEW advanced, NEW finished,
         EngineStep(e, advanced, finished), NEW d \in Ranks
  PROVE  /\ StampsBelow(d)' /\ SlicesReachable(d)'
         /\ EnginesAbove(d)' /\ PortsAbove(d)'
<1>0. /\ PlacesInv /\ TypeOK /\ LoopTypeOK /\ DispatcherTypeOK
      /\ StagesApart /\ HoldersApart /\ VersionsGrow
      /\ StampsBelow(d) /\ SlicesReachable(d) /\ EnginesAbove(d) /\ PortsAbove(d)
  BY DEF Barrier, PlacesInv, VersionsInv, TypeOK, StampsBracket
<1>1. /\ inbox' = inbox /\ minPolicyVersion' = minPolicyVersion
      /\ calledAt' = calledAt /\ policyVersion' = policyVersion
      /\ pullVersion' = pullVersion
      /\ advanced \subseteq engine[e] /\ finished \subseteq advanced
      /\ sampled' = [r \in Requests |->
                       IF r \in advanced THEN sampled[r] \cup {policyVersion[e]}
                       ELSE sampled[r]]
  BY DEF EngineStep, Resolve, callVars, pullVars, futureVars
<1>2. \A r \in Requests :
        sampled'[r] = IF r \in advanced THEN sampled[r] \cup {policyVersion[e]}
                      ELSE sampled[r]
  BY <1>1
<1>3. StampedAt(d) \subseteq Held(d) /\ StampedAt(d) \subseteq Requests
  BY <1>0, StampedIs
<1>4. CASE d # e
  <2>1. Moved(d, LocalRequests(d), engine[d], PortRequests(d))
    BY <1>0, <1>4, EngineStepMoves DEF Unmoved
  <2>2. /\ StampedAt(d)' \subseteq StampedAt(d)
        /\ inbox'[d].requests[d] \subseteq inbox[d].requests[d]
        /\ engine'[d] \subseteq engine[d]
    BY <1>1, <2>1, StampedShrinks
  <2>3. resultPort'[d] = resultPort[d]
    BY <1>0, <1>4 DEF EngineStep, DispatcherTypeOK
  <2>4. StampedAt(d) \cap advanced = {}
    <3>1. advanced \subseteq Held(e) /\ Held(d) \cap Held(e) = {}
      BY <1>0, <1>1, <1>4 DEF Held, HoldersApart
    <3> QED
      BY <1>3, <3>1
  <2>5. StampsKept(d)
    BY <1>1, <1>2, <1>3, <2>2, <2>3, <2>4 DEF StampsKept
  <2> QED
    BY <2>5, KeptStampsBracket
<1>5. CASE d = e
  <2>0. /\ policyVersion[d] \in Nat /\ policyVersion[d] <= pullVersion
        /\ pullVersion \in Int
    <3>1. /\ policyVersion[d] \in Int /\ Target(d) \in Int /\ pullVersion \in Int
          /\ policyVersion[d] \in Nat
      BY <1>0, VersionsAreIntegers
    <3>2. policyVersion[d] <= Target(d) /\ Target(d) <= pullVersion
      BY <1>0 DEF VersionsGrow
    <3> QED
      BY <3>1, <3>2
  <2>1. /\ engine'[d] = engine[d] \ finished
        /\ PortRequests(d)' \subseteq PortRequests(d) \cup finished
        /\ LocalRequests(d)' = LocalRequests(d)
    BY <1>0, <1>5, EngineStepMoves DEF Moved
  <2>2. /\ StampedAt(d)' \subseteq StampedAt(d)
        /\ inbox'[d].requests[d] = inbox[d].requests[d]
        /\ inbox[d].requests[d] \cap advanced = {}
    BY <1>0, <1>1, <1>5, <2>1 DEF StampedAt, StagesApart
  <2>3. \A r \in advanced : r \in engine[d] /\ minPolicyVersion[r] <= policyVersion[d]
    BY <1>0, <1>1, <1>5 DEF EnginesAbove
  <2>4. StampsBelow(d)'
    BY <1>0, <1>1, <1>2, <1>3, <1>5, <2>2, <2>3 DEF StampsBelow
  <2>5. SlicesReachable(d)'
    <3>1. SUFFICES ASSUME loopPc'[d] # "crashed",
                          NEW r \in StampedAt(d)' \cap inbox'[d].requests[d]
                   PROVE  minPolicyVersion'[r] <= Target(d)'
      BY DEF SlicesReachable
    <3>2. loopPc[d] = "stepping" /\ loopPc'[d] # "pulling" /\ applying' = applying
      BY <1>0, <1>5 DEF EngineStep, LoopTypeOK, NextTurn
    <3>3. Target(d)' = Target(d)
      BY <1>1, <3>2 DEF Target
    <3> QED
      BY <1>0, <1>1, <2>2, <3>1, <3>2, <3>3 DEF SlicesReachable
  <2>6. EnginesAbove(d)'
    <3>1. SUFFICES ASSUME NEW r \in engine'[d]
                   PROVE  /\ minPolicyVersion'[r] <= policyVersion'[d]
                          /\ \A v \in sampled'[r] : v <= policyVersion'[d]
      BY DEF EnginesAbove
    <3>2. r \in engine[d] /\ r \in Requests
      BY <1>0, <2>1, <3>1 DEF LoopTypeOK
    <3> QED
      BY <1>0, <1>1, <1>2, <1>5, <2>0, <3>2 DEF EnginesAbove
  <2>7. PortsAbove(d)'
    <3>1. SUFFICES ASSUME NEW x \in resultPort'[d]
                   PROVE  /\ minPolicyVersion[x.request] <= x.version
                          /\ x.version <= pullVersion
                          /\ \A v \in sampled'[x.request] : v <= x.version
      BY <1>1 DEF PortsAbove
    <3>2. CASE x \in resultPort[d]
      <4>1. x.request \in PortRequests(d) /\ x.request \in Requests
        BY <1>0, <3>2, VersionsAreIntegers DEF PortRequests
      <4>2. x.request \notin advanced
        BY <1>0, <1>1, <1>5, <4>1 DEF StagesApart
      <4> QED
        BY <1>0, <1>2, <3>2, <4>1, <4>2 DEF PortsAbove
    <3>3. CASE x \notin resultPort[d]
      <4>1. d # 0
        BY <1>0, <1>5, <3>1, <3>3, EngineStepMoves
      <4>2. resultPort'[d] = resultPort[d] \cup
              {[request |-> r, version |-> policyVersion[d]] : r \in finished}
        <5>1. resultPort' = [resultPort EXCEPT ![d] = @ \cup
                {[request |-> r, version |-> policyVersion[d]] : r \in finished}]
          BY <1>0, <1>5, <4>1, EngineStepMoves
        <5> QED
          BY <1>0, <5>1 DEF DispatcherTypeOK
      <4>3. PICK r \in finished : x = [request |-> r, version |-> policyVersion[d]]
        BY <3>1, <3>3, <4>2
      <4>4. /\ r \in engine[d] /\ r \in Requests /\ r \in advanced
            /\ x.request = r /\ x.version = policyVersion[d]
        BY <1>0, <1>1, <1>5, <4>3 DEF LoopTypeOK
      <4>5. \A v \in sampled[r] : v <= policyVersion[d]
        BY <1>0, <4>4 DEF EnginesAbove
      <4>6. sampled'[r] = sampled[r] \cup {policyVersion[d]}
        BY <1>2, <1>5, <4>4
      <4>7. minPolicyVersion[r] <= policyVersion[d]
        BY <2>3, <4>4
      <4>8. \A v \in sampled'[r] : v <= policyVersion[d]
        BY <2>0, <4>5, <4>6
      <4> QED
        BY <2>0, <4>4, <4>7, <4>8
    <3> QED
      BY <3>2, <3>3
  <2> QED
    BY <2>4, <2>5, <2>6, <2>7
<1> QED
  BY <1>4, <1>5

LEMMA StampsStayBracketed ==
  ASSUME Barrier, [Next]_vars
  PROVE  StampsBracket'
<1> SUFFICES ASSUME NEW d \in Ranks
             PROVE  /\ StampsBelow(d)' /\ SlicesReachable(d)'
                    /\ EnginesAbove(d)' /\ PortsAbove(d)'
  BY DEF StampsBracket
<1>1. CASE QuietStep
  BY <1>1, QuietKeepsStamps, KeptStampsBracket
<1>2. ASSUME NEW r \in Requests, Generate(r)
      PROVE  StampsKept(d)
  BY <1>2, GenerateKeepsStamps
<1>3. ASSUME NEW route \in [queuedGenerationRequests -> Ranks], DecideStep(route)
      PROVE  StampsKept(d)
  BY <1>3, DecideStepKeepsStamps
<1>4. ASSUME NEW e \in Ranks, NEW result \in resultPort[e],
             DrainResult(e, result) \/ DrainRaises(e, result)
      PROVE  StampsKept(d)
  BY <1>4, DrainKeepsStamps
<1>5. ASSUME NEW e \in Ranks, AdmitStep(e)
      PROVE  /\ StampsBelow(d)' /\ SlicesReachable(d)'
             /\ EnginesAbove(d)' /\ PortsAbove(d)'
  BY <1>5, AdmitOnRank0Stamps, AdmitOnPeerStamps
<1>6. ASSUME NEW e \in Ranks, EngineSteps(e)
      PROVE  /\ StampsBelow(d)' /\ SlicesReachable(d)'
             /\ EnginesAbove(d)' /\ PortsAbove(d)'
  <2>1. PICK advanced, finished : EngineStep(e, advanced, finished)
    BY <1>6, EngineStepsStep
  <2> QED
    BY <2>1, EngineStepStamps
<1> QED
  BY <1>1, <1>2, <1>3, <1>4, <1>5, <1>6, StepCases, KeptStampsBracket

LEMMA ResolveEffect ==
  ASSUME NEW finished, NEW version, Resolve(finished, version),
         NEW r \in Requests
  PROVE  IF r \in finished
         THEN /\ call'[r] = "returned"
              /\ completion'[r].min = minPolicyVersion[r]
              /\ completion'[r].max = version
         ELSE call'[r] = call[r] /\ completion'[r] = completion[r]
BY DEF Resolve, Bounds

(* A request that is answered has left every engine for good.              *)
LEMMA StaysHonest ==
  ASSUME Barrier, [Next]_vars
  PROVE  HonestVersions'
<1>0. /\ PlacesInv /\ TypeOK /\ 0 \in Ranks /\ CallersRegistered /\ HonestVersions
      /\ \A d \in Ranks : StampsBelow(d) /\ EnginesAbove(d) /\ PortsAbove(d)
  BY VersionTypes DEF Barrier, PlacesInv, VersionsInv, StampsBracket
<1>1. CASE /\ UNCHANGED <<completion, sampled>>
           /\ \A r \in Requests : call'[r] = "returned" => call[r] = "returned"
  BY <1>0, <1>1 DEF HonestVersions
<1>2. CASE QuietStep
  BY <1>0, <1>1, <1>2, QuietMovesNothing DEF QuietEffect
<1>3. CASE \/ \E r \in Requests : Generate(r)
           \/ \E route \in [queuedGenerationRequests -> Ranks] : DecideStep(route)
           \/ \E d \in Ranks : AdmitStep(d)
           \/ \E d \in Ranks : \E result \in resultPort[d] : DrainRaises(d, result)
  BY <1>0, <1>1, <1>3
     DEF Generate, DecideStep, AdmitStep, Admit, DrainRaises, callVars,
         engineVars, TypeOK, EndpointTypeOK
<1>4. ASSUME NEW d \in Ranks, NEW result \in resultPort[d], DrainResult(d, result)
      PROVE  HonestVersions'
  <2>1. /\ Resolve({result.request}, result.version) /\ sampled' = sampled
        /\ result.request \in Requests
    BY <1>0, <1>4, VersionsAreIntegers DEF DrainResult, engineVars
  <2>2. SUFFICES ASSUME NEW r \in Requests, call'[r] = "returned",
                        NEW v \in sampled[r]
                 PROVE  completion'[r].min <= v /\ v <= completion'[r].max
    BY <2>1 DEF HonestVersions
  <2>3. CASE r = result.request
    <3>1. r \in StampedAt(d)
      BY <1>0, <2>3, StampedIs
    <3>2. minPolicyVersion[r] <= v /\ v <= result.version
      BY <1>0, <2>2, <2>3, <3>1 DEF StampsBelow, PortsAbove
    <3> QED
      BY <2>1, <2>3, <3>2, ResolveEffect
  <2>4. CASE r # result.request
    <3>1. call[r] = "returned" /\ completion'[r] = completion[r]
      BY <2>1, <2>2, <2>4, ResolveEffect
    <3> QED
      BY <1>0, <2>2, <3>1 DEF HonestVersions
  <2> QED
    BY <2>3, <2>4
<1>5. ASSUME NEW d \in Ranks, NEW advanced, NEW finished,
             EngineStep(d, advanced, finished)
      PROVE  HonestVersions'
  <2>1. /\ advanced \subseteq engine[d] /\ finished \subseteq advanced
        /\ \A r \in Requests :
             sampled'[r] = IF r \in advanced THEN sampled[r] \cup {policyVersion[d]}
                           ELSE sampled[r]
    BY <1>5 DEF EngineStep
  <2>2. \A r \in Requests : call[r] = "returned" => r \notin advanced
    BY <1>0, <2>1 DEF Held, CallersRegistered
  <2>3. SUFFICES ASSUME NEW r \in Requests, call'[r] = "returned",
                        NEW v \in sampled'[r]
                 PROVE  completion'[r].min <= v /\ v <= completion'[r].max
    BY DEF HonestVersions
  <2>4. CASE d = 0 /\ r \in finished
    <3>1. /\ completion'[r].min = minPolicyVersion[r]
          /\ completion'[r].max = policyVersion[0]
      BY <1>5, <2>4, ResolveEffect DEF EngineStep
    <3>2. r \in engine[0] /\ r \in StampedAt(0)
      BY <1>0, <2>1, <2>4, StampedIs
    <3>3. \A u \in sampled[r] : minPolicyVersion[r] <= u /\ u <= policyVersion[0]
      BY <1>0, <3>2 DEF StampsBelow, EnginesAbove
    <3>4. minPolicyVersion[r] <= policyVersion[0] /\ policyVersion[0] \in Nat
      BY <1>0, <3>2, VersionsAreIntegers DEF EnginesAbove
    <3>5. v \in sampled[r] \/ v = policyVersion[0]
      BY <2>1, <2>3, <2>4
    <3> QED
      BY <3>1, <3>3, <3>4, <3>5
  <2>5. CASE ~(d = 0 /\ r \in finished)
    <3>1. call'[r] = call[r] /\ completion'[r] = completion[r]
      BY <1>5, <2>5, ResolveEffect DEF EngineStep, callVars
    <3>2. v \in sampled[r]
      BY <2>1, <2>2, <2>3, <3>1
    <3> QED
      BY <1>0, <2>3, <3>1, <3>2 DEF HonestVersions
  <2> QED
    BY <2>4, <2>5
<1>6. ASSUME NEW d \in Ranks, EngineSteps(d)
      PROVE  HonestVersions'
  BY <1>5, <1>6, EngineStepsStep
<1> QED
  BY <1>2, <1>3, <1>4, <1>6, StepCases

LEMMA VersionsInit == Init => VersionsInv
<1> SUFFICES ASSUME Init
             PROVE  VersionsInv
  OBVIOUS
<1>0. /\ 0 \in Ranks /\ \A d \in Ranks : inbox[d] = NoDecision
      /\ Acknowledged = 0
  BY VersionTypes DEF Init, Acknowledged
<1>1. \A d \in Ranks : /\ Held(d) = {} /\ StampedAt(d) = {} /\ Target(d) = 0
                       /\ loopPc[d] # "pulling" /\ policyVersion[d] = 0
  BY <1>0, EmptyDecisions
     DEF Init, Held, StampedAt, PortRequests, Target, NoRequests
<1>2. OneDecision
  BY <1>0 DEF OneDecision, Init
<1>3. CallersRegistered
  BY <1>1 DEF CallersRegistered, Init
<1>4. PullPending
  BY <1>0, <1>1, EmptyDecisions DEF PullPending, Init
<1>5. VersionsGrow /\ PeersCatchUp
  BY <1>0, <1>1 DEF VersionsGrow, PeersCatchUp, Init
<1>6. StampsBracket
  BY <1>1 DEF StampsBracket, StampsBelow, SlicesReachable, EnginesAbove,
       PortsAbove, Init, NoRequests
<1>7. CalledBeforeAcknowledged /\ HonestVersions
  BY <1>0 DEF CalledBeforeAcknowledged, HonestVersions, Init
<1> QED
  BY <1>2, <1>3, <1>4, <1>5, <1>6, <1>7 DEF VersionsInv

LEMMA VersionsNext == Barrier /\ [Next]_vars => VersionsInv'
BY OneDecisionStep, CallersStayRegistered, PullStaysPending,
   VersionsKeepGrowing, PeersStayCaughtUp, StampsStayBracketed,
   StaysCalledBefore, StaysHonest
   DEF VersionsInv

(* The versions of the weights, of the stamps and of the completions stay  *)
(* in order, when no rank overtakes rank 0.                                *)
LEMMA VersionsInvariant ==
  ASSUME BroadcastIsBarrier
  PROVE  Spec => [](PlacesInv /\ VersionsInv)
<1>1. Init => PlacesInv /\ VersionsInv
  BY PlacesInit, VersionsInit
<1>2. PlacesInv /\ VersionsInv /\ [Next]_vars => (PlacesInv /\ VersionsInv)'
  BY PlacesNext, VersionsNext DEF Barrier
<1> QED
  BY <1>1, <1>2, PTL DEF Spec

-------------------------------------------------------------------------------
(* The implementation of GenerationService.                                *)

(* A resolution is an answer to the calls of what it resolves.             *)
LEMMA ResolveAnswers ==
  ASSUME Barrier, NEW finished \in SUBSET generationFutures,
         NEW version \in 0 .. pullVersion, Resolve(finished, version),
         UNCHANGED <<pullCall, pullVersion>>,
         \A r \in finished : /\ minPolicyVersion[r] # Unstamped
                             /\ calledAt[r] <= minPolicyVersion[r]
                             /\ minPolicyVersion[r] <= version
  PROVE  Service!Answer(finished)
<1>0. /\ TypeOK /\ DispatcherTypeOK /\ CallersRegistered
      /\ finished \subseteq Requests
  BY DEF Barrier, PlacesInv, VersionsInv, TypeOK, DispatcherTypeOK
<1> DEFINE bounds == [r \in finished |-> Bounds(r, version)]
<1>1. \A r \in finished : call[r] = "waiting"
  BY <1>0 DEF CallersRegistered
<1>2. ASSUME NEW r \in finished
      PROVE  Bounds(r, version) \in [min : 0 .. pullVersion, max : 0 .. pullVersion]
  <2>1. minPolicyVersion[r] \in Nat /\ pullVersion \in Nat
    BY <1>0, VersionTypes, VersionsAreIntegers DEF DispatcherTypeOK, Unstamped
  <2>2. minPolicyVersion[r] \in 0 .. pullVersion
    BY <2>1
  <2> QED
    BY <2>2 DEF Bounds
<1>3. bounds \in [finished -> [min : 0 .. pullVersion, max : 0 .. pullVersion]]
  BY <1>2
<1>4. \A r \in finished : /\ bounds[r] = Bounds(r, version)
                          /\ calledAt[r] <= bounds[r].min
                          /\ bounds[r].min <= bounds[r].max
  BY DEF Bounds
<1>5. completion' = [r \in Requests |-> IF r \in finished THEN bounds[r]
                                        ELSE completion[r]]
  BY <1>4 DEF Resolve
<1> HIDE DEF bounds
<1>6. \E b \in [finished -> [min : 0 .. pullVersion, max : 0 .. pullVersion]] :
        /\ \A r \in finished : calledAt[r] <= b[r].min /\ b[r].min <= b[r].max
        /\ completion' = [r \in Requests |-> IF r \in finished THEN b[r]
                                             ELSE completion[r]]
  BY <1>3, <1>4, <1>5
<1> QED
  BY <1>1, <1>6 DEF Service!Answer, Resolve

LEMMA FailureFails ==
  ASSUME Barrier, FailOutstandingFutures
  PROVE  Service!Fail(generationFutures)
<1>1. \A r \in generationFutures : call[r] = "waiting"
  BY DEF Barrier, PlacesInv, VersionsInv, CallersRegistered, TypeOK,
         DispatcherTypeOK
<1> QED
  BY <1>1 DEF Service!Fail, FailOutstandingFutures, PullCallFailed

LEMMA ServiceStep ==
  ASSUME Barrier, [Next]_vars
  PROVE  [Service!Next]_(Service!serviceVars)
<1>0. /\ PlacesInv /\ TypeOK /\ EndpointTypeOK /\ DispatcherTypeOK /\ LoopTypeOK
      /\ 0 \in Ranks
      /\ \A d \in Ranks : StampsBelow(d) /\ EnginesAbove(d) /\ PortsAbove(d)
      /\ generationFutures \subseteq Requests
  BY VersionTypes
     DEF Barrier, PlacesInv, VersionsInv, TypeOK, StampsBracket,
         DispatcherTypeOK
<1>1. CASE UNCHANGED <<call, completion, calledAt, pullCall, pullVersion>>
  BY <1>1 DEF Service!serviceVars
<1>2. ASSUME NEW r \in Requests, Generate(r)
      PROVE  Service!Next
  <2>1. CASE EngineLoopStarted
    <3>1. Service!Call(r)
      BY <1>2, <2>1 DEF Generate, Service!Call, Acknowledged,
           Service!Acknowledged, pullVars
    <3> QED
      BY <3>1 DEF Service!Next
  <2>2. CASE ~EngineLoopStarted
    <3>1. call' = [s \in Requests |-> IF s \in {r} THEN "raised" ELSE call[s]]
      BY <1>0, <1>2, <2>2 DEF Generate, EndpointTypeOK
    <3>2. Service!Fail({r})
      BY <1>2, <2>2, <3>1 DEF Generate, Service!Fail, pullVars
    <3> QED
      BY <3>2 DEF Service!Next
  <2> QED
    BY <2>1, <2>2
<1>3. CASE FailOutstandingFutures
  BY <1>0, <1>3, FailureFails DEF Service!Next
<1>4. CASE PullModelStateDict
  BY <1>4 DEF PullModelStateDict, callVars, Service!Pull, Service!Next
<1>5. ASSUME NEW d \in Ranks, FinishPull(d)
      PROVE  [Service!Next]_(Service!serviceVars)
  <2>1. CASE d = 0 /\ pullCall = "waiting"
    BY <1>5, <2>1 DEF FinishPull, callVars, Service!Acknowledge, Service!Next
  <2>2. CASE ~(d = 0 /\ pullCall = "waiting")
    BY <1>1, <1>5, <2>2 DEF FinishPull, callVars
  <2> QED
    BY <2>1, <2>2
<1>6. ASSUME NEW d \in Ranks, NEW result \in resultPort[d], DrainResult(d, result)
      PROVE  Service!Next
  <2> DEFINE r == result.request
  <2>1. /\ r \in generationFutures /\ r \in StampedAt(d)
        /\ Resolve({r}, result.version)
        /\ UNCHANGED <<pullCall, pullVersion>>
    BY <1>0, <1>6, StampedIs DEF DrainResult, Resolvable, pullVars
  <2>2. result.version \in 0 .. pullVersion
    BY <1>0, VersionsAreIntegers DEF PortsAbove
  <2>3. /\ minPolicyVersion[r] # Unstamped
        /\ calledAt[r] <= minPolicyVersion[r]
        /\ minPolicyVersion[r] <= result.version
    BY <1>0, <2>1 DEF StampsBelow, PortsAbove
  <2> HIDE DEF r
  <2>4. Service!Answer({r})
    BY <2>1, <2>2, <2>3, ResolveAnswers
  <2> QED
    BY <1>0, <2>1, <2>4 DEF Service!Next
<1>7. ASSUME NEW d \in Ranks, NEW advanced, NEW finished,
             EngineStep(d, advanced, finished)
      PROVE  [Service!Next]_(Service!serviceVars)
  <2>1. CASE d # 0
    BY <1>1, <1>7, <2>1 DEF EngineStep, callVars, pullVars
  <2>2. CASE d = 0
    <3>1. /\ Resolve(finished, policyVersion[0])
          /\ finished \subseteq engine[0]
          /\ UNCHANGED <<pullCall, pullVersion>>
      BY <1>7, <2>2 DEF EngineStep, pullVars
    <3>2. finished \subseteq generationFutures
      BY <1>7, <2>2, FinishedAwaited
    <3>3. \A r \in finished : /\ minPolicyVersion[r] # Unstamped
                              /\ calledAt[r] <= minPolicyVersion[r]
                              /\ minPolicyVersion[r] <= policyVersion[0]
      BY <1>0, <3>1, StampedIs DEF StampsBelow, EnginesAbove
    <3>4. policyVersion[0] \in 0 .. pullVersion
      <4>1. policyVersion[0] = Acknowledged
        BY DEF Barrier, VersionsInv, PullPending
      <4> QED
        BY <1>0, <4>1, VersionsAreIntegers
    <3>5. Service!Answer(finished)
      BY <3>1, <3>2, <3>3, <3>4, ResolveAnswers
    <3> QED
      BY <1>0, <3>2, <3>5 DEF Service!Next
  <2> QED
    BY <2>1, <2>2
<1>8. ASSUME NEW d \in Ranks, EngineSteps(d)
      PROVE  [Service!Next]_(Service!serviceVars)
  BY <1>7, <1>8, EngineStepsStep
<1>9. ASSUME NEW d \in Ranks, CrashStep(d)
      PROVE  [Service!Next]_(Service!serviceVars)
  BY <1>1, <1>3, <1>9 DEF CrashStep, Crash, callVars, pullVars
<1>10. CASE CloseReturns
  BY <1>3, <1>10 DEF CloseReturns
<1>11. CASE \/ CloseRequested \/ CloseJoined \/ DecideClose \/ DecidePull
            \/ \E d \in Ranks : ApplyClose(d) \/ ApplyPull(d) \/ AdmitStep(d)
            \/ \E route \in [queuedGenerationRequests -> Ranks] : DecideStep(route)
            \/ \E d \in Ranks : \E result \in resultPort[d] : DrainRaises(d, result)
            \/ UNCHANGED vars
  BY <1>1, <1>11
     DEF CloseRequested, CloseJoined, DecideClose, DecidePull, ApplyClose,
         ApplyPull, AdmitStep, Admit, DecideStep, DrainRaises, vars, callVars,
         pullVars
<1> QED
  BY <1>2, <1>4, <1>5, <1>6, <1>8, <1>9, <1>10, <1>11, StepCases
     DEF QuietStep

-------------------------------------------------------------------------------
(* Every variable of the generator has its type, in every reachable state: *)
(* the load of no rank goes negative and no request exceeds max_tokens.    *)
THEOREM TypeCorrect == Spec => []TypeOK
<1>1. PlacesInv => TypeOK
  BY DEF PlacesInv
<1> QED
  BY <1>1, PlacesInvariant, PTL

LEMMA PlaceIs ==
  ASSUME NEW place \in Places
  PROVE  \/ place = <<"queue", 0>> /\ RequestsAt(place) = queuedGenerationRequests
         \/ \E d \in Ranks :
              \/ place = <<"inbox", d>> /\ RequestsAt(place) = inbox[d].requests[d]
              \/ place = <<"engine", d>> /\ RequestsAt(place) = engine[d]
              \/ place = <<"port", d>> /\ RequestsAt(place) = PortRequests(d)
<1>1. CASE place = <<"queue", 0>>
  BY <1>1 DEF RequestsAt
<1>2. ASSUME NEW d \in Ranks, place = <<"inbox", d>>
      PROVE  RequestsAt(place) = inbox[d].requests[d]
  BY <1>2 DEF RequestsAt
<1>3. ASSUME NEW d \in Ranks, place = <<"engine", d>>
      PROVE  RequestsAt(place) = engine[d]
  BY <1>3 DEF RequestsAt
<1>4. ASSUME NEW d \in Ranks, place = <<"port", d>>
      PROVE  RequestsAt(place) = PortRequests(d)
  BY <1>4 DEF RequestsAt, PortRequests
<1> QED
  BY <1>1, <1>2, <1>3, <1>4 DEF Places

LEMMA OnePlace ==
  ASSUME PlacesInv, NEW p \in Places, NEW q \in Places,
         NEW r, r \in RequestsAt(p), r \in RequestsAt(q)
  PROVE  p = q
<1> DEFINE At(place, d) ==
      \/ place = <<"inbox", d>> /\ r \in inbox[d].requests[d]
      \/ place = <<"engine", d>> /\ r \in engine[d]
      \/ place = <<"port", d>> /\ r \in PortRequests(d)
<1>1. \A place \in {p, q} :
        \/ place = <<"queue", 0>> /\ r \in queuedGenerationRequests
        \/ \E d \in Ranks : At(place, d)
  BY PlaceIs
<1>2. \A d \in Ranks : \A place : At(place, d) => r \in Held(d)
  BY DEF Held
<1>3. \A d, e \in Ranks : r \in Held(d) /\ r \in Held(e) => d = e
  BY DEF PlacesInv, HoldersApart
<1>4. \A d \in Ranks : r \in Held(d) => r \notin queuedGenerationRequests
  BY DEF PlacesInv, HoldersApart
<1>5. \A d \in Ranks : At(p, d) /\ At(q, d) => p = q
  BY DEF PlacesInv, StagesApart
<1> HIDE DEF At
<1> QED
  BY <1>1, <1>2, <1>3, <1>4, <1>5

LEMMA SomePlace ==
  ASSUME PlacesInv, InService, NEW r \in Requests
  PROVE  r \in generationFutures <=> \E place \in Places : r \in RequestsAt(place)
<1>1. /\ <<"queue", 0>> \in Places
      /\ \A d \in Ranks : /\ <<"inbox", d>> \in Places
                          /\ <<"engine", d>> \in Places
                          /\ <<"port", d>> \in Places
  BY DEF Places
<1>2. /\ RequestsAt(<<"queue", 0>>) = queuedGenerationRequests
      /\ \A d \in Ranks : /\ RequestsAt(<<"inbox", d>>) = inbox[d].requests[d]
                          /\ RequestsAt(<<"engine", d>>) = engine[d]
                          /\ RequestsAt(<<"port", d>>) = PortRequests(d)
  BY DEF RequestsAt, PortRequests
<1>3. r \in generationFutures <=>
        r \in queuedGenerationRequests \/ \E d \in Ranks : r \in Held(d)
  BY DEF PlacesInv, Registered
<1>4. ASSUME NEW place \in Places, r \in RequestsAt(place)
      PROVE  r \in queuedGenerationRequests \/ \E d \in Ranks : r \in Held(d)
  BY <1>4, PlaceIs DEF Held
<1>5. ASSUME NEW d \in Ranks, r \in Held(d)
      PROVE  \E place \in Places : r \in RequestsAt(place)
  BY <1>1, <1>2, <1>5 DEF Held
<1> QED
  BY <1>1, <1>2, <1>3, <1>4, <1>5

(* The hand-offs from the queue to the broadcast, from there to an engine  *)
(* and from a peer's engine over the port lose and duplicate no request:   *)
(* one with a registered future is in exactly one place, others in none.   *)
(* It holds however far one rank runs ahead of another.                    *)
THEOREM RequestsInOnePlace == Spec => []EachRequestInOnePlace
<1>1. ASSUME PlacesInv, InService, NEW r \in Requests
      PROVE  Cardinality({place \in Places : r \in RequestsAt(place)}) =
               IF r \in generationFutures THEN 1 ELSE 0
  <2> DEFINE places == {place \in Places : r \in RequestsAt(place)}
  <2>1. CASE r \in generationFutures
    <3>1. PICK place \in Places : r \in RequestsAt(place)
      BY <1>1, <2>1, SomePlace
    <3>2. places = {place}
      BY <1>1, <3>1, OnePlace
    <3> QED
      BY <2>1, <3>2, FS_Singleton
  <2>2. CASE r \notin generationFutures
    <3>1. places = {}
      BY <1>1, <2>2, SomePlace
    <3> QED
      BY <2>2, <3>1, FS_EmptySet
  <2> QED
    BY <2>1, <2>2
<1>2. PlacesInv => EachRequestInOnePlace
  BY <1>1 DEF EachRequestInOnePlace
<1> QED
  BY <1>2, PlacesInvariant, PTL

(* reserve and release balance: in service, the load the router holds for  *)
(* a rank is the number of unresolved requests that were routed to it.     *)
THEOREM LoadAccounted ==
  ASSUME BroadcastIsBarrier
  PROVE  Spec => []LoadAccounting
<1>1. ASSUME PlacesInv, VersionsInv
      PROVE  LoadAccounting
  <2>1. SUFFICES ASSUME InService
                 PROVE  DOMAIN reservations = generationFutures \ queuedGenerationRequests
    BY <1>1 DEF LoadAccounting, PlacesInv, Reserved
  <2>2. /\ DOMAIN reservations \subseteq generationFutures
        /\ DOMAIN reservations \cap queuedGenerationRequests = {}
    BY <1>1, <2>1 DEF PlacesInv, VersionsInv, Reserved, CallersRegistered
  <2>3. \A r \in generationFutures \ queuedGenerationRequests :
          \E d \in Ranks : r \in Held(d)
    BY <1>1, <2>1 DEF PlacesInv, Registered, TypeOK, DispatcherTypeOK
  <2>4. \A d \in Ranks : Held(d) \subseteq DOMAIN reservations
    BY <1>1 DEF PlacesInv, Reserved
  <2> QED
    BY <2>2, <2>3, <2>4
<1> QED
  BY <1>1, VersionsInvariant, PTL

(* close, "awaiting callers get an exception instead of hanging": once it  *)
(* has returned neither a pull nor a generate call is waiting, whenever    *)
(* they were made and whoever crashed.                                     *)
THEOREM NobodyLeftWaiting ==
  ASSUME BroadcastIsBarrier
  PROVE  Spec => []NobodyWaitsAfterClose
<1>1. VersionsInv => NobodyWaitsAfterClose
  BY DEF VersionsInv, CallersRegistered, NobodyWaitsAfterClose
<1> QED
  BY <1>1, VersionsInvariant, PTL

(* The versions on a completion bracket the version of each of its tokens, *)
(* although a pull reaches one rank before another and in mid-completion.  *)
THEOREM VersionsHonest ==
  ASSUME BroadcastIsBarrier
  PROVE  Spec => []HonestVersions
<1>1. VersionsInv => HonestVersions
  BY DEF VersionsInv
<1> QED
  BY <1>1, VersionsInvariant, PTL

(* The engine loops, the broadcasts, the router and the drain task do for  *)
(* the callers what GenerationService promises: each step of theirs is a   *)
(* call, an answer, a pull, its acknowledgement, a failure, or nothing     *)
(* that a caller sees.                                                     *)
THEOREM ServiceImplemented ==
  ASSUME BroadcastIsBarrier
  PROVE  Spec => ImplementsService
<1>1. Init => Service!Init
  BY DEF Init, Service!Init, NoCompletion, Service!NoCompletion
<1>2. (PlacesInv /\ VersionsInv) /\ [Next]_vars
        => [Service!Next]_(Service!serviceVars)
  BY ServiceStep DEF Barrier
<1> QED
  BY <1>1, <1>2, VersionsInvariant, PTL DEF Spec, ImplementsService, Service!Spec
===============================================================================
