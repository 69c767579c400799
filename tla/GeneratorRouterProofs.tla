------------------------- MODULE GeneratorRouterProofs -------------------------
(***************************************************************************)
(* Proofs about GeneratorRouter, for any number of generators, rollouts,   *)
(* turns and pulls, any strategies and any faults.                         *)
(*                                                                         *)
(* The argument: a generator is out of the candidates exactly while it     *)
(* drains or pulls, so once its last call is released nothing is routed to *)
(* it; without a failed pull every candidate holds the version of the last *)
(* pull, so what is routed next is at least as new as what is finished.    *)
(* Since no generator is more than one pull behind, a call is admitted at a *)
(* version no older than any acknowledged when it was made: the generators *)
(* behind the router keep the promise of one (GenerationService).          *)
(***************************************************************************)
EXTENDS GeneratorRouter, TLAPS, FiniteSetTheorems, SequenceTheorems,
        WellFoundedInduction

(* An unfinished call that was routed is at a generator.                   *)
CallsHaveTargets ==
  \A r \in Rollouts : rollout[r] \in InFlight => target[r] \in Generators

(* Without hot swap, out of service is inside _pull_one; with it, nobody   *)
(* leaves.                                                                 *)
OutWhilePulled ==
  \A g \in Generators :
    /\ hotSwap => state[g] = "serving" /\ pull[g] # "draining"
    /\ ~hotSwap => (state[g] = "serving" <=> pull[g] = "none")
    /\ ~hotSwap /\ pull[g] = "pulling" => reservedLoad[g] = 0

(* The event is set when somebody serves, and wakes everybody.             *)
EventMatches ==
  /\ serving <=> \E g \in Generators : state[g] = "serving"
  /\ \A r \in Rollouts : rollout[r] = "woken" => serving

(* A pull is under way until the gather has returned or raised; when it    *)
(* returns, every generator is at the version it named.                    *)
PullsEnd ==
  /\ pullCall = "returned" => \A g \in Generators : pull[g] = "none"
  /\ pullCall # "returned" => pullVersion >= 1
  /\ \A g \in Generators :
       /\ version[g] <= pullVersion
       /\ pull[g] = "none" /\ pullCall # "raised" => version[g] = pullVersion

(* What is stamped while drained stays true until the end of the call.     *)
StampsHold ==
  /\ \A r \in Rollouts : rollout[r] = "generating" =>
       /\ admitted[r] <= version[target[r]]
       /\ ~hotSwap => admitted[r] = version[target[r]]
  /\ ~hotSwap => \A r \in Rollouts : \A k \in DOMAIN turns[r] :
                   turns[r][k].min = turns[r][k].max

RouterInv ==
  /\ TypeOK
  /\ CallsHaveTargets
  /\ LoadAccounting
  /\ OutWhilePulled
  /\ EventMatches
  /\ PullsEnd
  /\ StampsHold

(* How many generators were chosen since g bounds how often it lost.       *)
LossesCounted ==
  /\ \A g \in Generators : passedOver[g] <= chosenSince[g]
  /\ \A g, h \in Generators : chosenSince[g] = chosenSince[h] => g = h

(* The generator that the next turn of r would be routed to, or is at, is  *)
(* no older than the turns r has.                                          *)
TurnsAscend(r) ==
  /\ \A k \in DOMAIN turns[r] :
       /\ turns[r][k].min <= turns[r][k].max
       /\ turns[r][k].max <= pullVersion
  /\ \A i, j \in DOMAIN turns[r] : i < j => turns[r][i].max <= turns[r][j].min

NextTurnNewer(r) ==
  /\ rollout[r] \in InFlight =>
       \A k \in DOMAIN turns[r] : turns[r][k].max <= version[target[r]]
  /\ rollout[r] = "generating" =>
       \A k \in DOMAIN turns[r] : turns[r][k].max <= admitted[r]

StaysPinned(r) ==
  hotSwap =>
    /\ rollout[r] \in InFlight \/ turns[r] # <<>> => pinned[r] \in Generators
    /\ rollout[r] \in InFlight => target[r] = pinned[r]
    /\ pinned[r] \in Generators =>
         \A k \in DOMAIN turns[r] : turns[r][k].max <= version[pinned[r]]

OrderInv ==
  \A r \in Rollouts :
    KeepsOrder(r) => TurnsAscend(r) /\ NextTurnNewer(r) /\ StaysPinned(r)

-------------------------------------------------------------------------------
LEMMA RunningIsFinite ==
  ASSUME NEW g
  PROVE  IsFiniteSet(Running(g)) /\ Cardinality(Running(g)) \in Nat
BY RouterAssumption, FS_Subset, FS_CardinalityType DEF Running

(* A call routed to g is one more call in flight on g.                     *)
LEMMA ReserveCounts ==
  ASSUME TypeOK, LoadAccounting, NEW r \in Rollouts, rollout[r] \notin InFlight,
         NEW g \in Generators, Reserve(g),
         target' = [target EXCEPT ![r] = g],
         rollout' = [rollout EXCEPT ![r] = "dispatched"]
  PROVE  LoadAccounting'
<1> SUFFICES ASSUME NEW h \in Generators
             PROVE  /\ reservedLoad'[h] = Cardinality(Running(h)')
                    /\ idle'[h] <=> reservedLoad'[h] = 0
  BY DEF LoadAccounting
<1>1. /\ reservedLoad[h] = Cardinality(Running(h))
      /\ idle[h] <=> reservedLoad[h] = 0
      /\ reservedLoad[h] \in Nat
  BY DEF LoadAccounting, TypeOK
<1>2. CASE h = g
  <2>1. Running(g)' = Running(g) \cup {r} /\ r \notin Running(g)
    BY DEF Running, InFlight, TypeOK
  <2>2. Cardinality(Running(g)') = Cardinality(Running(g)) + 1
    BY <2>1, RunningIsFinite, FS_AddElement
  <2>3. reservedLoad'[g] = reservedLoad[g] + 1
    BY DEF Reserve, TypeOK
  <2>4. ~ idle'[g]
    BY <1>1, <1>2 DEF Reserve, TypeOK
  <2>5. reservedLoad'[g] = Cardinality(Running(g)') /\ reservedLoad'[g] # 0
    BY <1>1, <1>2, <2>2, <2>3
  <2> QED
    BY <1>2, <2>4, <2>5
<1>3. CASE h # g
  <2>1. Running(h)' = Running(h)
    BY <1>3 DEF Running, InFlight, TypeOK
  <2>2. reservedLoad'[h] = reservedLoad[h] /\ idle'[h] = idle[h]
    BY <1>3 DEF Reserve, TypeOK
  <2> QED
    BY <1>1, <2>1, <2>2
<1> QED
  BY <1>2, <1>3

(* A call that ends is one less.                                           *)
LEMMA ReleaseCounts ==
  ASSUME TypeOK, LoadAccounting, CallsHaveTargets,
         NEW r \in Rollouts, rollout[r] \in InFlight, EndCall(r),
         NEW status \in {"ready", "done", "error"},
         rollout' = [rollout EXCEPT ![r] = status]
  PROVE  LoadAccounting' /\ reservedLoad' \in [Generators -> Nat]
<1> DEFINE t == target[r]
<1>1. t \in Generators
  BY DEF CallsHaveTargets
<1>2. ASSUME NEW h \in Generators
      PROVE  /\ reservedLoad'[h] = Cardinality(Running(h)')
             /\ idle'[h] <=> reservedLoad'[h] = 0
             /\ reservedLoad'[h] \in Nat
  <2>1. /\ reservedLoad[h] = Cardinality(Running(h))
        /\ idle[h] <=> reservedLoad[h] = 0
        /\ reservedLoad[h] \in Nat
    BY DEF LoadAccounting, TypeOK
  <2>2. CASE h = t
    <3>1. Running(h)' = Running(h) \ {r} /\ r \in Running(h)
      BY <2>2 DEF Running, InFlight, TypeOK, EndCall
    <3>2. Cardinality(Running(h)') = Cardinality(Running(h)) - 1
      BY <3>1, RunningIsFinite, FS_RemoveElement
    <3>3. Cardinality(Running(h)') \in Nat
      BY <3>1, RunningIsFinite, FS_RemoveElement, FS_CardinalityType
    <3>4. reservedLoad'[h] = reservedLoad[h] - 1
      BY <2>2 DEF EndCall, Release, TypeOK
    <3>5. idle'[h] <=> reservedLoad[h] = 1
      BY <2>2 DEF EndCall, Release, TypeOK
    <3>6. reservedLoad'[h] = Cardinality(Running(h)') /\ reservedLoad'[h] \in Nat
      BY <2>1, <3>2, <3>3, <3>4
    <3>7. reservedLoad[h] = 1 <=> reservedLoad'[h] = 0
      BY <2>1, <3>4
    <3> QED
      BY <3>5, <3>6, <3>7
  <2>3. CASE h # t
    <3>1. Running(h)' = Running(h)
      BY <2>3 DEF Running, InFlight, TypeOK, EndCall
    <3>2. reservedLoad'[h] = reservedLoad[h] /\ idle'[h] = idle[h]
      BY <2>3 DEF EndCall, Release, TypeOK
    <3> QED
      BY <2>1, <3>1, <3>2
  <2> QED
    BY <2>2, <2>3
<1> QED
  BY <1>1, <1>2 DEF LoadAccounting, EndCall, Release, TypeOK

(* Waking a call starts and ends none.                                     *)
LEMMA SetStateCounts ==
  ASSUME TypeOK, NEW newState \in [Generators -> {"serving", "syncing"}],
         SetState(newState)
  PROVE  /\ \A r \in Rollouts :
              /\ rollout'[r] \in InFlight <=> rollout[r] \in InFlight
              /\ rollout[r] \in InFlight => rollout'[r] = rollout[r]
              /\ rollout'[r] # rollout[r] =>
                   serving' /\ rollout[r] = "blocked" /\ rollout'[r] = "woken"
         /\ rollout' \in [Rollouts -> {"ready", "blocked", "woken", "done", "error"}
                                        \cup InFlight]
         /\ state' \in [Generators -> {"serving", "syncing"}]
         /\ serving' \in BOOLEAN
         /\ serving' <=> \E g \in Generators : state'[g] = "serving"
BY DEF SetState, InFlight, TypeOK

-------------------------------------------------------------------------------
(* Moving a session to the end keeps a list of sessions.                   *)
LEMMA MoveToEndType ==
  ASSUME TypeOK, NEW r \in Rollouts
  PROVE  MoveToEnd(r) \in Seq(Rollouts) /\ MoveToEnd(r) # <<>>
<1> DEFINE places == {i \in DOMAIN sessions : sessions[i] = r}
<1> DEFINE at == CHOOSE p \in places : TRUE
<1> DEFINE before == SubSeq(sessions, 1, at - 1)
<1> DEFINE after == SubSeq(sessions, at + 1, Len(sessions))
<1> DEFINE others == IF places = {} THEN sessions ELSE before \o after
<1>1. sessions \in Seq(Rollouts)
  BY DEF TypeOK
<1>2. others \in Seq(Rollouts)
  <2>1. CASE places = {}
    BY <1>1, <2>1
  <2>2. CASE places # {}
    <3>1. at \in 1 .. Len(sessions) /\ Len(sessions) \in Nat
      <4>1. at \in places
        BY <2>2, Zenon
      <4> QED
        BY <1>1, <4>1
    <3> HIDE DEF at
    <3>2. /\ \A i \in 1 .. at - 1 : sessions[i] \in Rollouts
          /\ \A i \in at + 1 .. Len(sessions) : sessions[i] \in Rollouts
      BY <1>1, <3>1
    <3>3. before \in Seq(Rollouts)
      BY <3>1, <3>2, SubSeqProperties
    <3>4. after \in Seq(Rollouts)
      BY <3>1, <3>2, SubSeqProperties
    <3> QED
      BY <2>2, <3>3, <3>4, ConcatProperties
  <2> QED
    BY <2>1, <2>2
<1>3. MoveToEnd(r) = Append(others, r)
  BY Zenon DEF MoveToEnd
<1> HIDE DEF others
<1> QED
  BY <1>2, <1>3, AppendProperties

(* What a choice leaves behind has its types.                              *)
LEMMA ChooseType ==
  ASSUME TypeOK, NEW r \in Rollouts, NEW g \in Candidates, Choose(r, g)
  PROVE  /\ counter' \in Nat
         /\ chosenSince' \in [Generators -> 0 .. NumGenerators - 1]
         /\ passedOver' \in [Generators -> Nat]
         /\ sessions' \in Seq(Rollouts)
         /\ pinned' \in [Rollouts -> Generators \cup {Nobody}]
         /\ evicted' \subseteq Rollouts
<1> USE RouterAssumption
<1>1. g \in Generators
  BY DEF Candidates
<1>2. /\ counter' \in Nat
      /\ chosenSince' \in [Generators -> 0 .. NumGenerators - 1]
      /\ passedOver' \in [Generators -> Nat]
  <2>1. CASE UNCHANGED <<counter, chosenSince, passedOver>>
    BY <2>1 DEF TypeOK
  <2>2. CASE RecordChoice(g)
    <3>1. \A h \in Generators :
            /\ chosenSince[h] \in 0 .. NumGenerators - 1
            /\ passedOver[h] \in Nat
      BY DEF TypeOK
    <3>2. CASE strategy = "round_robin"
      BY <2>2, <3>2 DEF RecordChoice, TypeOK
    <3>3. CASE strategy # "round_robin"
      <4>1. \A h \in Generators :
              (IF h = g THEN 0
               ELSE IF chosenSince[h] < chosenSince[g] THEN chosenSince[h] + 1
               ELSE chosenSince[h]) \in 0 .. NumGenerators - 1
        <5>1. NumGenerators \in Nat /\ 0 \in 0 .. NumGenerators - 1
          OBVIOUS
        <5>2. chosenSince[g] \in 0 .. NumGenerators - 1
          BY <1>1, <3>1
        <5>3. \A h \in Generators : chosenSince[h] \in 0 .. NumGenerators - 1
          BY <3>1
        <5> QED
          BY <5>1, <5>2, <5>3
      <4>2. \A h \in Generators :
              (IF h = g THEN 0
               ELSE IF h \in LowestLoaded THEN passedOver[h] + 1
               ELSE passedOver[h]) \in Nat
        BY <3>1
      <4>3. chosenSince' \in [Generators -> 0 .. NumGenerators - 1]
        BY <2>2, <3>3, <4>1, Zenon DEF RecordChoice
      <4>4. passedOver' \in [Generators -> Nat]
        BY <2>2, <3>3, <4>2, Zenon DEF RecordChoice
      <4> QED
        BY <2>2, <3>3, <4>3, <4>4 DEF RecordChoice, TypeOK
    <3> QED
      BY <3>2, <3>3
  <2> QED
    BY <2>1, <2>2 DEF Choose
<1>3. /\ sessions' \in Seq(Rollouts)
      /\ pinned' \in [Rollouts -> Generators \cup {Nobody}]
      /\ evicted' \subseteq Rollouts
  <2>1. CASE UNCHANGED <<sessions, pinned, evicted>>
    BY <2>1 DEF TypeOK
  <2>2. CASE RememberSession(r, g)
    <3> DEFINE used == MoveToEnd(r)
    <3>1. used \in Seq(Rollouts) /\ used # <<>>
      BY MoveToEndType
    <3>2. Head(used) \in Rollouts /\ Tail(used) \in Seq(Rollouts)
      BY <3>1, HeadTailProperties
    <3> HIDE DEF used
    <3>3. sessions' \in Seq(Rollouts)
      BY <2>2, <3>1, <3>2 DEF RememberSession, used
    <3>4. evicted' \subseteq Rollouts
      BY <2>2, <3>2 DEF RememberSession, used, TypeOK
    <3>5. pinned' \in [Rollouts -> Generators \cup {Nobody}]
      BY <1>1, <2>2 DEF RememberSession, TypeOK
    <3> QED
      BY <3>3, <3>4, <3>5
  <2> QED
    BY <2>1, <2>2 DEF Choose
<1> QED
  BY <1>2, <1>3

LEMMA AcknowledgedType ==
  ASSUME TypeOK, PullsEnd
  PROVE  Acknowledged \in Versions
BY RouterAssumption DEF TypeOK, PullsEnd, Acknowledged, Versions

-------------------------------------------------------------------------------
LEMMA RouterInit ==
  ASSUME Init
  PROVE  RouterInv
<1> USE RouterAssumption
<1>1. /\ 0 \in Versions /\ <<>> \in Seq(Rollouts) /\ <<>> \in Seq(Turn(Versions))
      /\ NumGenerators \in Generators
  BY DEF Versions, Generators
<1>2. \A g \in Generators : NumGenerators - g \in 0 .. NumGenerators - 1
  BY DEF Generators
<1>3. TypeOK
  BY <1>1, <1>2 DEF Init, TypeOK, InFlight
<1>4. LoadAccounting
  <2>1. \A g \in Generators : Running(g) = {}
    BY DEF Init, Running, InFlight
  <2> QED
    BY <2>1, FS_EmptySet DEF Init, LoadAccounting
<1>5. CallsHaveTargets /\ OutWhilePulled /\ EventMatches /\ PullsEnd /\ StampsHold
  BY <1>1 DEF Init, CallsHaveTargets, OutWhilePulled, EventMatches, PullsEnd,
     StampsHold, InFlight, Versions
<1> QED
  BY <1>3, <1>4, <1>5 DEF RouterInv

(* A call is routed: to a candidate, which is not being pulled.            *)
LEMMA DispatchKeepsInv ==
  ASSUME RouterInv, NEW r \in Rollouts,
         rollout[r] \in {"ready", "woken"}, Dispatch(r),
         calledAt' \in [Rollouts -> [1 .. MaxTurns -> Versions]],
         UNCHANGED <<config, handleVars, admitted, turns, pullVars>>
  PROVE  RouterInv'
<1> USE RouterAssumption DEF RouterInv
<1>1. PICK g \in Candidates :
        /\ Choose(r, g)
        /\ Reserve(g)
        /\ target' = [target EXCEPT ![r] = g]
        /\ rollout' = [rollout EXCEPT ![r] = "dispatched"]
  BY DEF Dispatch
<1>2. g \in Generators /\ state[g] = "serving"
  BY <1>1 DEF Candidates
<1>3. LoadAccounting'
  BY <1>1, <1>2, ReserveCounts DEF InFlight
<1>4. TypeOK'
  <2>1. /\ reservedLoad' \in [Generators -> Nat]
        /\ idle' \in [Generators -> BOOLEAN]
    BY <1>1, <1>2 DEF Reserve, TypeOK
  <2>2. /\ target' \in [Rollouts -> Generators \cup {Nobody}]
        /\ rollout' \in [Rollouts -> {"ready", "blocked", "woken", "done", "error"}
                                       \cup InFlight]
    BY <1>1, <1>2 DEF TypeOK, InFlight
  <2> QED
    BY <1>1, <2>1, <2>2, ChooseType
       DEF TypeOK, config, handleVars, pullVars
<1>5. CallsHaveTargets'
  BY <1>1, <1>2 DEF CallsHaveTargets, InFlight, TypeOK
<1>6. OutWhilePulled'
  BY <1>1, <1>2 DEF OutWhilePulled, Reserve, config, handleVars, pullVars, TypeOK
<1>7. EventMatches'
  BY <1>1 DEF EventMatches, handleVars, TypeOK
<1>8. PullsEnd'
  BY DEF PullsEnd, pullVars
<1>9. StampsHold'
  BY <1>1 DEF StampsHold, config, pullVars, TypeOK
<1> QED
  BY <1>3, <1>4, <1>5, <1>6, <1>7, <1>8, <1>9

LEMMA GenerateKeepsInv ==
  ASSUME RouterInv, NEW r \in Rollouts, Generate(r) \/ Resume(r)
  PROVE  RouterInv'
<1> USE RouterAssumption DEF RouterInv
<1>1. CASE Resume(r)
  BY <1>1, DispatchKeepsInv DEF Resume, TypeOK
<1>2. CASE Generate(r)
  <2>1. calledAt' \in [Rollouts -> [1 .. MaxTurns -> Versions]]
    BY <1>2, AcknowledgedType DEF Generate, TypeOK
  <2>2. CASE serving
    BY <1>2, <2>1, <2>2, DispatchKeepsInv DEF Generate
  <2>3. CASE ~serving
    <3>1. /\ rollout[r] = "ready"
          /\ rollout' = [rollout EXCEPT ![r] = "blocked"]
          /\ UNCHANGED <<strategyVars, loadVars, target, config, handleVars,
                         admitted, turns, pullVars>>
      BY <1>2, <2>3 DEF Generate
    <3>2. TypeOK'
      BY <2>1, <3>1 DEF TypeOK, strategyVars, loadVars, config, handleVars, pullVars
    <3>3. \A g \in Generators : Running(g)' = Running(g)
      BY <3>1 DEF Running, InFlight, TypeOK
    <3>4. LoadAccounting'
      BY <3>1, <3>3 DEF LoadAccounting, loadVars
    <3>5. CallsHaveTargets' /\ EventMatches' /\ StampsHold'
      BY <3>1 DEF CallsHaveTargets, EventMatches, StampsHold, InFlight, TypeOK,
         handleVars, pullVars, config
    <3>6. OutWhilePulled' /\ PullsEnd'
      BY <3>1 DEF OutWhilePulled, PullsEnd, config, handleVars, loadVars, pullVars
    <3> QED
      BY <3>2, <3>4, <3>5, <3>6
  <2> QED
    BY <2>2, <2>3
<1> QED
  BY <1>1, <1>2

LEMMA AdmitKeepsInv ==
  ASSUME RouterInv, NEW r \in Rollouts, Admit(r)
  PROVE  RouterInv'
<1> USE RouterAssumption DEF RouterInv
<1>1. target[r] \in Generators
  BY DEF Admit, CallsHaveTargets, InFlight
<1>2. TypeOK'
  BY <1>1 DEF Admit, TypeOK, InFlight, config, strategyVars, handleVars, loadVars,
     pullVars
<1>3. \A g \in Generators : Running(g)' = Running(g)
  BY DEF Admit, Running, InFlight, TypeOK
<1>4. LoadAccounting'
  BY <1>3 DEF Admit, LoadAccounting, loadVars
<1>5. CallsHaveTargets' /\ EventMatches'
  BY DEF Admit, CallsHaveTargets, EventMatches, InFlight, TypeOK, handleVars
<1>6. OutWhilePulled' /\ PullsEnd'
  BY DEF Admit, OutWhilePulled, PullsEnd, config, handleVars, loadVars, pullVars
<1>7. StampsHold'
  <2>1. version[target[r]] \in Int
    BY <1>1 DEF TypeOK, Versions
  <2> QED
    BY <2>1 DEF Admit, StampsHold, TypeOK, config, pullVars
<1> QED
  BY <1>2, <1>4, <1>5, <1>6, <1>7

(* A call ends, with or without a turn: its generator is one call lighter. *)
LEMMA EndCallKeepsInv ==
  ASSUME RouterInv, NEW r \in Rollouts, Complete(r) \/ Raise(r)
  PROVE  RouterInv'
<1> USE RouterAssumption DEF RouterInv
<1>1. /\ rollout[r] \in InFlight
      /\ EndCall(r)
      /\ UNCHANGED <<config, strategyVars, handleVars, calledAt, pullVars>>
  BY DEF Complete, Raise, InFlight
<1>2. PICK status \in {"ready", "done", "error"} :
        rollout' = [rollout EXCEPT ![r] = status]
  BY DEF Complete, Raise
<1>3. target[r] \in Generators
  BY <1>1 DEF CallsHaveTargets
<1>4. LoadAccounting' /\ reservedLoad' \in [Generators -> Nat]
  BY <1>1, <1>2, ReleaseCounts
<1>5. \/ turns' = turns
      \/ /\ rollout[r] = "generating"
         /\ \E continues \in BOOLEAN :
              turns' = [turns EXCEPT ![r] =
                          Append(@, [continues |-> continues, min |-> admitted[r],
                                     max |-> version[target[r]]])]
  BY DEF Complete, Raise
<1>6. \/ turns' = turns
      \/ \E t \in Turn(Versions) :
           /\ turns' = [turns EXCEPT ![r] = Append(turns[r], t)]
           /\ ~hotSwap => t.min = t.max
  <2>1. SUFFICES ASSUME NEW continues \in BOOLEAN,
                        rollout[r] = "generating",
                        turns' = [turns EXCEPT ![r] =
                          Append(@, [continues |-> continues, min |-> admitted[r],
                                     max |-> version[target[r]]])]
                 PROVE  \E t \in Turn(Versions) :
                          /\ turns' = [turns EXCEPT ![r] = Append(turns[r], t)]
                          /\ ~hotSwap => t.min = t.max
    BY <1>5
  <2> DEFINE t == [continues |-> continues, min |-> admitted[r],
                   max |-> version[target[r]]]
  <2>2. admitted[r] \in Versions /\ version[target[r]] \in Versions
    BY <1>3 DEF TypeOK
  <2>3. t \in Turn(Versions)
    BY <2>2 DEF Turn
  <2>4. ~hotSwap => t.min = t.max
    BY <2>1 DEF StampsHold
  <2>5. turns' = [turns EXCEPT ![r] = Append(turns[r], t)]
    BY <2>1 DEF TypeOK
  <2> QED
    BY <2>3, <2>4, <2>5
<1>7. /\ turns' \in [Rollouts -> Seq(Turn(Versions))]
      /\ ~hotSwap => \A q \in Rollouts : \A k \in DOMAIN turns'[q] :
                       turns'[q][k].min = turns'[q][k].max
  <2>1. CASE turns' = turns
    BY <2>1 DEF TypeOK, StampsHold
  <2>2. ASSUME NEW t \in Turn(Versions),
               turns' = [turns EXCEPT ![r] = Append(turns[r], t)],
               ~hotSwap => t.min = t.max
        PROVE  <1>7!1 /\ <1>7!2
    <3>1. turns[r] \in Seq(Turn(Versions))
      BY DEF TypeOK
    <3>2. /\ turns'[r] = Append(turns[r], t)
          /\ turns'[r] \in Seq(Turn(Versions))
          /\ \A q \in Rollouts \ {r} : turns'[q] = turns[q]
      BY <2>2, <3>1, AppendProperties DEF TypeOK
    <3>3. \A k \in DOMAIN turns'[r] :
            \/ k \in DOMAIN turns[r] /\ turns'[r][k] = turns[r][k]
            \/ turns'[r][k] = t
      BY <3>1, <3>2, AppendProperties
    <3>4. turns' \in [Rollouts -> Seq(Turn(Versions))]
      BY <2>2, <3>2 DEF TypeOK
    <3>5. ~hotSwap => \A q \in Rollouts : \A k \in DOMAIN turns'[q] :
                       turns'[q][k].min = turns'[q][k].max
      BY <2>2, <3>2, <3>3 DEF StampsHold
    <3> QED
      BY <3>4, <3>5
  <2> QED
    BY <1>6, <2>1, <2>2
<1>8. TypeOK'
  <2>1. idle' \in [Generators -> BOOLEAN]
    BY <1>1, <1>3 DEF EndCall, Release, TypeOK
  <2>2. /\ target' \in [Rollouts -> Generators \cup {Nobody}]
        /\ admitted' \in [Rollouts -> Versions]
        /\ rollout' \in [Rollouts -> {"ready", "blocked", "woken", "done", "error"}
                                       \cup InFlight]
    BY <1>1, <1>2 DEF EndCall, TypeOK, Versions
  <2> QED
    BY <1>1, <1>4, <1>7, <2>1, <2>2
       DEF TypeOK, config, strategyVars, handleVars, pullVars
<1>9. CallsHaveTargets' /\ EventMatches' /\ PullsEnd'
  BY <1>1, <1>2 DEF CallsHaveTargets, EventMatches, PullsEnd, EndCall, InFlight,
     TypeOK, handleVars, pullVars
<1>10. OutWhilePulled'
  <2>1. \A g \in Generators :
          ~hotSwap /\ pull[g] = "pulling" => target[r] # g
    <3>1. \A g \in Generators : target[r] = g => reservedLoad[g] # 0
      <4>1. \A g \in Generators : target[r] = g => r \in Running(g)
        BY <1>1 DEF Running
      <4> QED
        BY <4>1, RunningIsFinite, FS_EmptySet DEF LoadAccounting
    <3> QED
      BY <3>1 DEF OutWhilePulled
  <2> QED
    BY <1>1, <2>1 DEF OutWhilePulled, EndCall, Release, TypeOK, config, handleVars,
       pullVars
<1>11. StampsHold'
  BY <1>1, <1>2, <1>7 DEF StampsHold, EndCall, TypeOK, config, pullVars
<1> QED
  BY <1>4, <1>8, <1>9, <1>10, <1>11

(* A step that leaves the calls, their loads and their stamps alone.       *)
LEMMA LoadUntouched ==
  ASSUME LoadAccounting, UNCHANGED <<reservedLoad, idle, target>>,
         \A r \in Rollouts : rollout'[r] \in InFlight <=> rollout[r] \in InFlight
  PROVE  LoadAccounting'
<1>1. \A g \in Generators : Running(g)' = Running(g)
  BY DEF Running
<1> QED
  BY <1>1 DEF LoadAccounting

LEMMA StartPullKeepsInv ==
  ASSUME RouterInv, PullModelStateDict
  PROVE  RouterInv'
<1> USE RouterAssumption DEF RouterInv
<1>1. /\ pullCall = "returned" /\ pullCall' = "waiting"
      /\ pullVersion \in Nat /\ pullVersion' = pullVersion + 1
      /\ pullVersion' \in Versions
      /\ \A g \in Generators : pull[g] = "none" /\ version[g] \in Versions
      /\ \A r \in Rollouts : rollout[r] # "woken"
      /\ UNCHANGED <<config, strategyVars, loadVars, target, admitted, turns,
                     calledAt, version>>
  BY DEF PullModelStateDict, TypeOK, PullsEnd, Versions
<1>2. /\ \A r \in Rollouts :
           /\ rollout'[r] \in InFlight <=> rollout[r] \in InFlight
           /\ rollout[r] \in InFlight => rollout'[r] = rollout[r]
           /\ rollout'[r] # rollout[r] => serving' /\ rollout'[r] = "woken"
      /\ rollout' \in [Rollouts -> {"ready", "blocked", "woken", "done", "error"}
                                     \cup InFlight]
      /\ state' \in [Generators -> {"serving", "syncing"}]
      /\ serving' \in BOOLEAN
      /\ serving' <=> \E g \in Generators : state'[g] = "serving"
      /\ pull' \in [Generators -> {"none", "draining", "pulling"}]
      /\ \A g \in Generators :
           /\ pull'[g] # "none"
           /\ hotSwap => state'[g] = "serving" /\ pull'[g] = "pulling"
           /\ ~hotSwap => state'[g] = "syncing" /\ (pull'[g] = "pulling" => idle[g])
  <2>1. CASE hotSwap
    BY <2>1 DEF PullModelStateDict, TypeOK, handleVars, EventMatches, OutWhilePulled
  <2>2. CASE ~hotSwap
    <3>1. [g \in Generators |-> "syncing"] \in [Generators -> {"serving", "syncing"}]
      OBVIOUS
    <3>2. SetState([g \in Generators |-> "syncing"])
      BY <2>2 DEF PullModelStateDict
    <3>3. state' = [g \in Generators |-> "syncing"]
      BY <3>2 DEF SetState
    <3>4. pull' = [g \in Generators |-> IF idle[g] THEN "pulling" ELSE "draining"]
      BY <2>2 DEF PullModelStateDict
    <3> QED
      BY <2>2, <3>1, <3>2, <3>3, <3>4, SetStateCounts
  <2> QED
    BY <2>1, <2>2
<1>3. TypeOK'
  BY <1>1, <1>2 DEF TypeOK, config, strategyVars, loadVars
<1>4. LoadAccounting'
  BY <1>1, <1>2, LoadUntouched DEF loadVars
<1>5. CallsHaveTargets' /\ EventMatches'
  BY <1>1, <1>2 DEF CallsHaveTargets, EventMatches
<1>6. OutWhilePulled'
  BY <1>1, <1>2 DEF OutWhilePulled, LoadAccounting, config, loadVars
<1>7. PullsEnd'
  BY <1>1, <1>2 DEF PullsEnd, Versions
<1>8. StampsHold'
  BY <1>1, <1>2 DEF StampsHold, InFlight, config
<1> QED
  BY <1>3, <1>4, <1>5, <1>6, <1>7, <1>8

LEMMA DrainedKeepsInv ==
  ASSUME RouterInv, NEW g \in Generators, Drained(g)
  PROVE  RouterInv'
<1> USE RouterAssumption DEF RouterInv
<1>1. /\ pull[g] = "draining" /\ idle[g]
      /\ pull' = [pull EXCEPT ![g] = "pulling"]
      /\ UNCHANGED <<config, strategyVars, handleVars, loadVars, callVars,
                     pullCall, pullVersion, version>>
  BY DEF Drained
<1>2. TypeOK'
  BY <1>1 DEF TypeOK, config, strategyVars, handleVars, loadVars, callVars
<1>3. LoadAccounting'
  BY <1>1, LoadUntouched DEF loadVars, callVars
<1>4. CallsHaveTargets' /\ EventMatches' /\ StampsHold'
  BY <1>1 DEF CallsHaveTargets, EventMatches, StampsHold, callVars, handleVars, config
<1>5. OutWhilePulled'
  BY <1>1 DEF OutWhilePulled, LoadAccounting, TypeOK, config, handleVars, loadVars
<1>6. PullsEnd'
  BY <1>1 DEF PullsEnd, TypeOK
<1> QED
  BY <1>2, <1>3, <1>4, <1>5, <1>6

LEMMA SwapKeepsInv ==
  ASSUME RouterInv, NEW g \in Generators, Swap(g)
  PROVE  RouterInv'
<1> USE RouterAssumption DEF RouterInv
<1>1. /\ pull[g] = "pulling"
      /\ version' = [version EXCEPT ![g] = pullVersion]
      /\ version[g] <= pullVersion
      /\ UNCHANGED <<config, strategyVars, handleVars, loadVars, callVars, pull,
                     pullCall, pullVersion>>
  BY DEF Swap, PullsEnd
<1>2. TypeOK'
  BY <1>1 DEF TypeOK, config, strategyVars, handleVars, loadVars, callVars
<1>3. LoadAccounting'
  BY <1>1, LoadUntouched DEF loadVars, callVars
<1>4. CallsHaveTargets' /\ EventMatches' /\ OutWhilePulled'
  BY <1>1 DEF CallsHaveTargets, EventMatches, OutWhilePulled, callVars, handleVars,
     config, loadVars
<1>5. PullsEnd'
  BY <1>1 DEF PullsEnd, TypeOK, Versions
<1>6. StampsHold'
  <2>1. ASSUME NEW r \in Rollouts, rollout[r] = "generating"
        PROVE  /\ admitted[r] <= version'[target[r]]
               /\ ~hotSwap => admitted[r] = version'[target[r]]
    <3>1. target[r] \in Generators
      BY <2>1 DEF CallsHaveTargets, InFlight
    <3>2. ~hotSwap => target[r] # g
      <4>1. target[r] = g => r \in Running(g)
        BY <2>1 DEF Running, InFlight
      <4>2. target[r] = g => reservedLoad[g] # 0
        BY <4>1, RunningIsFinite, FS_EmptySet DEF LoadAccounting
      <4> QED
        BY <1>1, <4>2 DEF OutWhilePulled
    <3>3. /\ admitted[r] \in Int /\ version[g] \in Int /\ pullVersion \in Int
          /\ version[target[r]] \in Int
      BY <3>1 DEF TypeOK, Versions
    <3> QED
      BY <1>1, <2>1, <3>1, <3>2, <3>3 DEF StampsHold, TypeOK
  <2> QED
    BY <1>1, <2>1 DEF StampsHold, callVars, config
<1> QED
  BY <1>2, <1>3, <1>4, <1>5, <1>6

(* A pull ends: with its version, or with the gather's failure.            *)
LEMMA EndPullKeepsInv ==
  ASSUME RouterInv, NEW g \in Generators, PullReturns(g) \/ PullRaises(g)
  PROVE  RouterInv'
<1> USE RouterAssumption DEF RouterInv
<1>1. /\ pull[g] = "pulling" /\ pullCall # "returned"
      /\ pull' = [pull EXCEPT ![g] = "none"]
      /\ pullCall' \in {"waiting", "returned", "raised"}
      /\ UNCHANGED <<config, strategyVars, loadVars, target, admitted, turns,
                     calledAt, pullVersion, version>>
  <2>1. pullCall # "returned"
    BY DEF PullsEnd, PullReturns, PullRaises
  <2> QED
    BY <2>1 DEF PullReturns, PullRaises, EndPull, GatherOf, TypeOK
<1>2. /\ pullCall' = "returned" => \A h \in Generators : pull'[h] = "none"
      /\ pullCall' # "raised" => version[g] = pullVersion /\ pullCall # "raised"
  BY <1>1 DEF PullReturns, PullRaises, GatherOf, TypeOK
<1>3. /\ \A r \in Rollouts :
           /\ rollout'[r] \in InFlight <=> rollout[r] \in InFlight
           /\ rollout[r] \in InFlight => rollout'[r] = rollout[r]
           /\ rollout'[r] # rollout[r] => serving' /\ rollout'[r] = "woken"
      /\ rollout' \in [Rollouts -> {"ready", "blocked", "woken", "done", "error"}
                                     \cup InFlight]
      /\ state' = [state EXCEPT ![g] = "serving"]
      /\ state' \in [Generators -> {"serving", "syncing"}]
      /\ serving' \in BOOLEAN /\ serving'
  <2>1. EndPull(g)
    BY DEF PullReturns, PullRaises
  <2>2. CASE hotSwap
    <3>1. UNCHANGED <<handleVars, rollout>>
      BY <2>1, <2>2 DEF EndPull
    <3>2. state[g] = "serving"
      BY <2>2 DEF OutWhilePulled
    <3>3. [state EXCEPT ![g] = "serving"] = state
      BY <3>2 DEF TypeOK
    <3> QED
      BY <3>1, <3>2, <3>3 DEF TypeOK, handleVars, EventMatches
  <2>3. CASE ~hotSwap
    <3>1. [state EXCEPT ![g] = "serving"] \in [Generators -> {"serving", "syncing"}]
      BY DEF TypeOK
    <3>2. SetState([state EXCEPT ![g] = "serving"])
      BY <2>1, <2>3 DEF EndPull
    <3>3. state' = [state EXCEPT ![g] = "serving"] /\ state'[g] = "serving"
      BY <3>2 DEF SetState, TypeOK
    <3> QED
      BY <3>1, <3>2, <3>3, SetStateCounts
  <2> QED
    BY <2>2, <2>3
<1>4. TypeOK'
  BY <1>1, <1>3 DEF TypeOK, config, strategyVars, loadVars
<1>5. LoadAccounting'
  BY <1>1, <1>3, LoadUntouched DEF loadVars
<1>6. CallsHaveTargets' /\ EventMatches'
  BY <1>1, <1>3 DEF CallsHaveTargets, EventMatches, TypeOK
<1>7. OutWhilePulled'
  BY <1>1, <1>3 DEF OutWhilePulled, TypeOK, config, loadVars
<1>8. PullsEnd'
  BY <1>1, <1>2 DEF PullsEnd, TypeOK
<1>9. StampsHold'
  BY <1>1, <1>3 DEF StampsHold, InFlight, config
<1> QED
  BY <1>4, <1>5, <1>6, <1>7, <1>8, <1>9

LEMMA RouterStep ==
  ASSUME RouterInv, [Next]_vars
  PROVE  RouterInv'
<1>1. CASE UNCHANGED vars
  <2>1. LoadAccounting'
    BY <1>1, LoadUntouched DEF RouterInv, vars, loadVars, callVars
  <2> QED
    BY <1>1, <2>1 DEF RouterInv, TypeOK, CallsHaveTargets, OutWhilePulled, EventMatches,
       PullsEnd, StampsHold, vars, config, strategyVars, handleVars, loadVars,
       callVars, pullVars
<1>2. ASSUME NEW r \in Rollouts, Generate(r) \/ Step(r) \/ Raise(r)
      PROVE  RouterInv'
  BY <1>2, GenerateKeepsInv, AdmitKeepsInv, EndCallKeepsInv DEF Step
<1>3. CASE PullModelStateDict
  BY <1>3, StartPullKeepsInv
<1>4. ASSUME NEW g \in Generators, PullStep(g) \/ PullRaises(g)
      PROVE  RouterInv'
  BY <1>4, DrainedKeepsInv, SwapKeepsInv, EndPullKeepsInv DEF PullStep
<1> QED
  BY <1>1, <1>2, <1>3, <1>4 DEF Next

(* The invariant gives what the runs check of loads and drains.            *)
LEMMA RouterInvImplies ==
  ASSUME RouterInv
  PROVE  TypeOK /\ LoadAccounting /\ DrainedWhilePulling /\ WokenFindServing
<1> USE DEF RouterInv
<1>1. ASSUME ~hotSwap, NEW g \in Generators, pull[g] = "pulling"
      PROVE  Running(g) = {}
  BY <1>1, RunningIsFinite, FS_EmptySet DEF OutWhilePulled, LoadAccounting
<1>2. DrainedWhilePulling
  BY <1>1 DEF DrainedWhilePulling, StampsHold
<1>3. WokenFindServing
  BY DEF WokenFindServing, EventMatches, Candidates
<1> QED
  BY <1>2, <1>3

LEMMA RouterInvariant == Spec => []RouterInv
<1>1. Init => RouterInv
  BY RouterInit
<1>2. RouterInv /\ [Next]_vars => RouterInv'
  BY RouterStep
<1> QED
  BY <1>1, <1>2, PTL DEF Spec

(* Every variable of the router has its type: no load, bound, event or     *)
(* recency leaves its range, whatever generators do.                       *)
THEOREM TypeCorrect == Spec => []TypeOK
<1>1. RouterInv => TypeOK
  BY RouterInvImplies
<1> QED
  BY <1>1, RouterInvariant, PTL

(* The router's load of a generator is the number of calls in flight on    *)
(* it, through every failure and every pull.                               *)
THEOREM LoadCounted == Spec => []LoadAccounting
<1>1. RouterInv => LoadAccounting
  BY RouterInvImplies
<1> QED
  BY <1>1, RouterInvariant, PTL

(* Without hot swap no generator is pulled before its calls have ended, so *)
(* no turn mixes the versions of two pulls.                                *)
THEOREM PulledWhenDrained == Spec => []DrainedWhilePulling
<1>1. RouterInv => DrainedWhilePulling
  BY RouterInvImplies
<1> QED
  BY <1>1, RouterInvariant, PTL

(* The assertion in _route: a call that was let through or woken finds a   *)
(* generator that serves, although others leave in the meantime.           *)
THEOREM WokenCallsRouted == Spec => []WokenFindServing
<1>1. RouterInv => WokenFindServing
  BY RouterInvImplies
<1> QED
  BY <1>1, RouterInvariant, PTL

-------------------------------------------------------------------------------
(* The choice among the least loaded is the one chosen longest ago.        *)
LEMMA LongestAgo ==
  ASSUME TypeOK, NEW h \in LowestLoaded
  PROVE  /\ LeastLoadedChoice \in LowestLoaded
         /\ chosenSince[h] <= chosenSince[LeastLoadedChoice]
<1> USE RouterAssumption
<1> DEFINE Depth(g) == NumGenerators - chosenSince[g]
<1> DEFINE depths == {Depth(g) : g \in LowestLoaded}
<1>1. \A g \in LowestLoaded : g \in Generators /\ chosenSince[g] \in 0 .. NumGenerators - 1
  BY DEF LowestLoaded, Candidates, TypeOK
<1>2. depths \subseteq Nat /\ depths # {}
  <2>1. Depth(h) \in depths
    OBVIOUS
  <2>2. \A g \in LowestLoaded : Depth(g) \in Nat
    BY <1>1
  <2> QED
    BY <2>1, <2>2
<1>3. PICK d \in depths : \A e \in depths : ~ (<<e, d>> \in OpToRel(<, Nat))
  <2>1. IsWellFoundedOn(OpToRel(<, Nat), Nat)
    BY NatLessThanWellFounded
  <2> HIDE DEF depths
  <2> QED
    BY <1>2, <2>1, WFMin
<1>4. PICK g \in LowestLoaded : d = Depth(g)
  OBVIOUS
<1>5. \A k \in LowestLoaded : chosenSince[k] <= chosenSince[g]
  <2>1. SUFFICES ASSUME NEW k \in LowestLoaded PROVE chosenSince[k] <= chosenSince[g]
    OBVIOUS
  <2>2. Depth(k) \in depths /\ Depth(k) \in Nat /\ d \in Nat
    BY <1>2
  <2>3. ~ (Depth(k) < d)
    BY <1>3, <2>2 DEF OpToRel
  <2>4. chosenSince[k] \in Int /\ chosenSince[g] \in Int /\ NumGenerators \in Int
    BY <1>1
  <2> QED
    BY <1>4, <2>3, <2>4
<1> HIDE DEF depths
<1>6. /\ LeastLoadedChoice \in LowestLoaded
      /\ \A k \in LowestLoaded : chosenSince[k] <= chosenSince[LeastLoadedChoice]
  BY <1>5 DEF LeastLoadedChoice
<1> QED
  BY <1>6

LEMMA ChoiceCountsLosses ==
  ASSUME TypeOK, LossesCounted, strategy # "round_robin",
         NEW r \in Rollouts, NEW g \in Candidates, Choose(r, g)
  PROVE  LossesCounted'
<1> USE RouterAssumption
<1>1. CASE UNCHANGED <<counter, chosenSince, passedOver>>
  BY <1>1 DEF LossesCounted
<1>2. CASE ~ UNCHANGED <<counter, chosenSince, passedOver>>
  <2>1. g = LeastLoadedChoice
    BY <1>2 DEF Choose, Choice, FallbackChoice
  <2>2. g \in Generators
    BY DEF Candidates
  <2>3. \A h \in Generators : chosenSince[h] \in Nat /\ passedOver[h] \in Nat
    BY DEF TypeOK
  <2>4. RecordChoice(g)
    BY <1>2 DEF Choose
  <2>5. \A h \in Generators :
          /\ chosenSince'[h] = IF h = g THEN 0
                               ELSE IF chosenSince[h] < chosenSince[g]
                                    THEN chosenSince[h] + 1
                               ELSE chosenSince[h]
          /\ passedOver'[h] = IF h = g THEN 0
                              ELSE IF h \in LowestLoaded THEN passedOver[h] + 1
                              ELSE passedOver[h]
    BY <2>4, Zenon DEF RecordChoice
  <2>6. \A h \in LowestLoaded : h # g => chosenSince[h] < chosenSince[g]
    <3>1. \A h \in LowestLoaded : h \in Generators
      BY DEF LowestLoaded, Candidates
    <3> QED
      BY <2>1, <2>2, <2>3, <3>1, LongestAgo DEF LossesCounted
  <2>7. \A h \in Generators : passedOver'[h] <= chosenSince'[h]
    BY <2>2, <2>3, <2>5, <2>6 DEF LossesCounted
  <2>8. \A h, k \in Generators : chosenSince'[h] = chosenSince'[k] => h = k
    BY <2>2, <2>3, <2>5 DEF LossesCounted
  <2> QED
    BY <2>7, <2>8 DEF LossesCounted
<1> QED
  BY <1>1, <1>2

(* No generator that is tied for the least load is passed over more often  *)
(* than there are others, whatever drains come between the choices.        *)
THEOREM LeastLoadedNeverStarves == Spec => []NoStarvation
<1> USE RouterAssumption
<1> DEFINE Inv == strategy # "round_robin" => LossesCounted
<1>1. Init => Inv
  BY DEF Init, LossesCounted, Generators
<1>2. RouterInv /\ Inv /\ [Next]_vars => Inv'
  <2> SUFFICES ASSUME RouterInv, Inv, [Next]_vars, strategy' # "round_robin"
               PROVE  LossesCounted'
    OBVIOUS
  <2>1. strategy' = strategy
    BY DEF Next, Step, Generate, Resume, Admit, Complete, Raise, PullModelStateDict,
       PullStep, Drained, Swap, PullReturns, PullRaises, EndPull, vars, config
  <2>2. CASE UNCHANGED <<chosenSince, passedOver>>
    BY <2>1, <2>2 DEF LossesCounted
  <2>3. ASSUME NEW r \in Rollouts, Dispatch(r)
        PROVE  LossesCounted'
    BY <2>1, <2>3, ChoiceCountsLosses DEF Dispatch, RouterInv
  <2> QED
    BY <2>2, <2>3 DEF Next, Step, Generate, Resume, Admit, Complete, Raise,
       PullModelStateDict, PullStep, Drained, Swap, PullReturns, PullRaises, EndPull,
       vars, strategyVars
<1>3. RouterInv /\ Inv => NoStarvation
  BY DEF RouterInv, TypeOK, LossesCounted, NoStarvation
<1>4. Init => RouterInv
  BY RouterInit
<1>5. RouterInv /\ [Next]_vars => RouterInv'
  BY RouterStep
<1> QED
  BY <1>1, <1>2, <1>3, <1>4, <1>5, PTL DEF Spec

-------------------------------------------------------------------------------
RolloutInOrder(r) ==
  KeepsOrder(r) => TurnsAscend(r) /\ NextTurnNewer(r) /\ StaysPinned(r)

(* What a rollout's order reads of the state, when it is not its own step. *)
LEMMA OrderUntouched ==
  ASSUME RouterInv, NEW r \in Rollouts, RolloutInOrder(r),
         KeepsOrder(r)' => KeepsOrder(r),
         UNCHANGED <<hotSwap, turns, pullVersion, version>>,
         rollout'[r] \in InFlight =>
           rollout'[r] = rollout[r] /\ UNCHANGED <<target[r], admitted[r]>>,
         KeepsOrder(r)' /\ hotSwap => UNCHANGED pinned[r]
  PROVE  RolloutInOrder(r)'
<1> SUFFICES ASSUME KeepsOrder(r)'
             PROVE  TurnsAscend(r)' /\ NextTurnNewer(r)' /\ StaysPinned(r)'
  BY DEF RolloutInOrder
<1>1. TurnsAscend(r) /\ NextTurnNewer(r) /\ StaysPinned(r)
  BY DEF RolloutInOrder
<1>2. TurnsAscend(r)'
  BY <1>1 DEF TurnsAscend
<1>3. NextTurnNewer(r)'
  BY <1>1 DEF NextTurnNewer, InFlight
<1>4. StaysPinned(r)'
  BY <1>1 DEF StaysPinned
<1> QED
  BY <1>2, <1>3, <1>4

(* A choice pins the session it is made for and may evict another one.     *)
LEMMA ChoicePins ==
  ASSUME TypeOK, NEW r \in Rollouts, NEW g, Choose(r, g), strategy = "sticky"
  PROVE  /\ r \notin evicted' => pinned'[r] = g
         /\ \A q \in Rollouts \ {r} : q \notin evicted' => pinned'[q] = pinned[q]
         /\ evicted \subseteq evicted'
BY Zenon DEF Choose, RememberSession

LEMMA DispatchKeepsOrder ==
  ASSUME RouterInv, OrderInv, NEW r \in Rollouts, rollout[r] \notin InFlight,
         Dispatch(r), UNCHANGED <<config, handleVars, admitted, turns, pullVars>>
  PROVE  OrderInv'
<1> USE RouterAssumption
<1>1. PICK g \in Candidates :
        /\ Choose(r, g)
        /\ target' = [target EXCEPT ![r] = g]
        /\ rollout' = [rollout EXCEPT ![r] = "dispatched"]
  BY DEF Dispatch
<1>2. g \in Generators /\ state[g] = "serving"
  BY <1>1 DEF Candidates
<1>3. TypeOK
  BY DEF RouterInv
<1>4. \A q \in Rollouts : KeepsOrder(q)' => KeepsOrder(q)
  <2>1. CASE strategy = "sticky"
    BY <1>1, <1>3, <2>1, ChoicePins DEF KeepsOrder, config, pullVars
  <2>2. CASE strategy # "sticky"
    BY <2>2 DEF KeepsOrder, config, pullVars
  <2> QED
    BY <2>1, <2>2
<1>5. ASSUME NEW q \in Rollouts, q # r
      PROVE  RolloutInOrder(q)'
  <2>1. RolloutInOrder(q)
    BY DEF OrderInv, RolloutInOrder
  <2>2. /\ rollout'[q] = rollout[q] /\ target'[q] = target[q]
        /\ admitted'[q] = admitted[q]
    BY <1>1, <1>3, <1>5 DEF TypeOK
  <2>3. KeepsOrder(q)' /\ hotSwap => pinned'[q] = pinned[q]
    BY <1>1, <1>3, <1>5, ChoicePins DEF KeepsOrder, config
  <2> QED
    BY <1>4, <2>1, <2>2, <2>3, OrderUntouched DEF config, pullVars
<1>6. ASSUME KeepsOrder(r)'
      PROVE  TurnsAscend(r)' /\ NextTurnNewer(r)' /\ StaysPinned(r)'
  <2>1. TurnsAscend(r) /\ StaysPinned(r)
    BY <1>4, <1>6 DEF OrderInv
  <2>2. TurnsAscend(r)'
    BY <2>1 DEF TurnsAscend, pullVars
  <2>3. \A k \in DOMAIN turns[r] : turns[r][k].max <= version[g]
    <3>1. CASE ~hotSwap
      <4>1. version[g] = pullVersion
        BY <1>2, <1>6, <3>1 DEF RouterInv, OutWhilePulled, PullsEnd, KeepsOrder, pullVars
      <4> QED
        BY <2>1, <4>1 DEF TurnsAscend
    <3>2. CASE hotSwap /\ turns[r] # <<>>
      <4>1. strategy = "sticky" /\ pinned[r] \in Generators
        BY <1>6, <2>1, <3>2 DEF StaysPinned, KeepsOrder, config
      <4>2. pinned[r] \in Candidates
        BY <3>2, <4>1 DEF RouterInv, OutWhilePulled, Candidates
      <4>3. g = pinned[r]
        BY <1>1, <4>1, <4>2 DEF Choose, Choice, Sticks
      <4> QED
        BY <2>1, <3>2, <4>1, <4>3 DEF StaysPinned
    <3>3. CASE turns[r] = <<>>
      BY <3>3
    <3> QED
      BY <3>1, <3>2, <3>3
  <2>4. NextTurnNewer(r)'
    BY <1>1, <1>3, <2>3 DEF NextTurnNewer, InFlight, TypeOK, pullVars
  <2>5. StaysPinned(r)'
    <3>1. CASE hotSwap
      <4>1. pinned'[r] = g
        BY <1>1, <1>3, <1>6, <3>1, ChoicePins DEF KeepsOrder, config
      <4> QED
        BY <1>1, <1>2, <1>3, <2>3, <4>1 DEF StaysPinned, TypeOK, pullVars
    <3>2. CASE ~hotSwap
      BY <3>2 DEF StaysPinned, config
    <3> QED
      BY <3>1, <3>2
  <2> QED
    BY <2>2, <2>4, <2>5
<1> QED
  BY <1>5, <1>6 DEF OrderInv, RolloutInOrder

(* A turn is finished: it is as new as its generator, so newer than those  *)
(* before it.                                                              *)
LEMMA CompleteKeepsOrder ==
  ASSUME RouterInv, OrderInv, NEW r \in Rollouts, Complete(r)
  PROVE  OrderInv'
<1> USE RouterAssumption
<1>1. TypeOK
  BY DEF RouterInv
<1>2. PICK continues \in BOOLEAN, status \in {"ready", "done"} :
        /\ turns' = [turns EXCEPT ![r] =
                       Append(@, [continues |-> continues, min |-> admitted[r],
                                  max |-> version[target[r]]])]
        /\ rollout' = [rollout EXCEPT ![r] = status]
  BY DEF Complete
<1> DEFINE t == [continues |-> continues, min |-> admitted[r],
                 max |-> version[target[r]]]
<1>3. /\ rollout[r] = "generating" /\ EndCall(r)
      /\ UNCHANGED <<config, strategyVars, handleVars, calledAt, pullVars>>
  BY DEF Complete
<1>4. \A q \in Rollouts : KeepsOrder(q)' => KeepsOrder(q)
  BY <1>3 DEF KeepsOrder, config, strategyVars, pullVars
<1>5. ASSUME NEW q \in Rollouts, q # r, KeepsOrder(q)'
      PROVE  TurnsAscend(q)' /\ NextTurnNewer(q)' /\ StaysPinned(q)'
  <2>1. TurnsAscend(q) /\ NextTurnNewer(q) /\ StaysPinned(q)
    BY <1>4, <1>5 DEF OrderInv
  <2>2. /\ turns'[q] = turns[q] /\ rollout'[q] = rollout[q]
        /\ target'[q] = target[q] /\ admitted'[q] = admitted[q]
    BY <1>1, <1>2, <1>3, <1>5 DEF TypeOK, EndCall
  <2>3. UNCHANGED <<hotSwap, pinned, pullVersion, version>>
    BY <1>3 DEF config, strategyVars, pullVars
  <2>4. TurnsAscend(q)'
    BY <2>1, <2>2, <2>3 DEF TurnsAscend
  <2>5. NextTurnNewer(q)'
    BY <2>1, <2>2, <2>3 DEF NextTurnNewer
  <2>6. StaysPinned(q)'
    BY <2>1, <2>2, <2>3 DEF StaysPinned
  <2> QED
    BY <2>4, <2>5, <2>6
<1>6. ASSUME KeepsOrder(r)'
      PROVE  TurnsAscend(r)' /\ NextTurnNewer(r)' /\ StaysPinned(r)'
  <2>1. TurnsAscend(r) /\ NextTurnNewer(r) /\ StaysPinned(r)
    BY <1>4, <1>6 DEF OrderInv
  <2>2. /\ target[r] \in Generators
        /\ admitted[r] \in Versions /\ version[target[r]] \in Versions
    BY <1>1, <1>3 DEF RouterInv, CallsHaveTargets, InFlight, TypeOK
  <2>3. turns[r] \in Seq(Turn(Versions)) /\ t \in Turn(Versions)
    BY <1>1, <2>2 DEF TypeOK, Turn
  <2>4. /\ turns'[r] = Append(turns[r], t)
        /\ rollout'[r] \notin InFlight /\ rollout'[r] # "generating"
    BY <1>1, <1>2 DEF TypeOK, InFlight
  <2>5. /\ t.min <= t.max /\ t.max <= pullVersion
        /\ \A k \in DOMAIN turns[r] : turns[r][k].max <= t.min
    BY <1>3, <2>1, <2>2 DEF RouterInv, StampsHold, PullsEnd, NextTurnNewer
  <2>6. /\ DOMAIN turns[r] = 1 .. Len(turns[r]) /\ Len(turns[r]) \in Nat
        /\ DOMAIN turns'[r] = 1 .. Len(turns[r]) + 1
        /\ \A k \in 1 .. Len(turns[r]) : turns'[r][k] = turns[r][k]
        /\ turns'[r][Len(turns[r]) + 1] = t
    <3>1. turns'[r] \in Seq(Turn(Versions)) /\ Len(turns'[r]) = Len(turns[r]) + 1
      BY <2>3, <2>4, AppendProperties
    <3> QED
      BY <2>3, <2>4, <3>1, AppendProperties
  <2> HIDE DEF t
  <2>7. UNCHANGED <<hotSwap, pinned, pullVersion, version>>
    BY <1>3 DEF config, strategyVars, pullVars
  <2>8. TurnsAscend(r)'
    <3> DEFINE n == Len(turns[r])
    <3>1. \A k \in DOMAIN turns'[r] : k \in 1 .. n \/ k = n + 1
      BY <2>6
    <3>2. \A k \in DOMAIN turns'[r] : /\ turns'[r][k].min <= turns'[r][k].max
                                      /\ turns'[r][k].max <= pullVersion
      BY <2>1, <2>5, <2>6, <3>1 DEF TurnsAscend
    <3>3. ASSUME NEW i \in DOMAIN turns'[r], NEW j \in DOMAIN turns'[r], i < j
          PROVE  turns'[r][i].max <= turns'[r][j].min
      <4>1. i \in 1 .. n
        BY <2>6, <3>3
      <4>2. CASE j \in 1 .. n
        <5>1. turns'[r][i] = turns[r][i] /\ turns'[r][j] = turns[r][j]
          BY <2>6, <4>1, <4>2
        <5> QED
          BY <2>1, <3>3, <4>1, <4>2, <5>1 DEF TurnsAscend
      <4>3. CASE j = n + 1
        BY <2>5, <2>6, <4>1, <4>3
      <4> QED
        BY <3>1, <4>2, <4>3
    <3> QED
      BY <2>7, <3>2, <3>3 DEF TurnsAscend
  <2>9. NextTurnNewer(r)'
    BY <2>4 DEF NextTurnNewer
  <2>10. StaysPinned(r)'
    <3>1. CASE hotSwap
      <4>1. target[r] = pinned[r] /\ t.max = version[pinned[r]]
            /\ pinned[r] \in Generators
        BY <1>3, <2>1, <2>2, <3>1 DEF StaysPinned, InFlight, t
      <4>2. version[pinned[r]] \in Int
        BY <2>2, <4>1 DEF Versions
      <4>3. \A k \in DOMAIN turns'[r] : turns'[r][k].max <= version[pinned[r]]
        <5>1. \A k \in DOMAIN turns[r] : turns[r][k].max <= version[pinned[r]]
          BY <2>1, <3>1 DEF StaysPinned
        <5>2. turns'[r][Len(turns[r]) + 1].max <= version[pinned[r]]
          BY <2>6, <4>1, <4>2
        <5>3. \A k \in DOMAIN turns'[r] : k \in DOMAIN turns[r] \/ k = Len(turns[r]) + 1
          BY <2>6
        <5> QED
          BY <2>6, <5>1, <5>2, <5>3
      <4> QED
        BY <2>4, <2>7, <4>1, <4>3 DEF StaysPinned
    <3>2. CASE ~hotSwap
      BY <2>7, <3>2 DEF StaysPinned
    <3> QED
      BY <3>1, <3>2
  <2> QED
    BY <2>8, <2>9, <2>10
<1> QED
  BY <1>5, <1>6 DEF OrderInv

LEMMA TurnsType ==
  ASSUME TypeOK, NEW r \in Rollouts
  PROVE  /\ turns[r] \in Seq(Turn(Versions))
         /\ \A k \in DOMAIN turns[r] : turns[r][k].min \in Int /\ turns[r][k].max \in Int
<1>1. turns[r] \in Seq(Turn(Versions))
  BY DEF TypeOK
<1>2. \A k \in DOMAIN turns[r] : turns[r][k] \in Turn(Versions)
  BY <1>1
<1> QED
  BY <1>1, <1>2 DEF Turn, Versions

LEMMA OrderInit ==
  ASSUME Init
  PROVE  OrderInv
BY DEF Init, OrderInv, TurnsAscend, NextTurnNewer, StaysPinned, InFlight, Nobody,
   Generators

(* The versions of the generators only grow.                               *)
LEMMA SwapKeepsOrder ==
  ASSUME RouterInv, OrderInv, NEW g \in Generators, Swap(g)
  PROVE  OrderInv'
<1> SUFFICES ASSUME NEW r \in Rollouts, KeepsOrder(r)'
             PROVE  TurnsAscend(r)' /\ NextTurnNewer(r)' /\ StaysPinned(r)'
  BY DEF OrderInv
<1>1. /\ version' = [version EXCEPT ![g] = pullVersion]
      /\ UNCHANGED <<config, strategyVars, callVars, pullCall, pullVersion>>
  BY DEF Swap
<1>2. /\ TypeOK
      /\ turns[r] \in Seq(Turn(Versions))
      /\ \A k \in DOMAIN turns[r] : turns[r][k].max \in Int
  BY TurnsType DEF RouterInv, TypeOK
<1>3. \A h \in Generators :
        /\ version[h] \in Int /\ version'[h] \in Int
        /\ version[h] <= version'[h]
  BY <1>1 DEF RouterInv, TypeOK, PullsEnd, Versions
<1>4. TurnsAscend(r) /\ NextTurnNewer(r) /\ StaysPinned(r)
  BY <1>1 DEF OrderInv, KeepsOrder, config, strategyVars
<1>5. TurnsAscend(r)'
  BY <1>1, <1>4 DEF TurnsAscend, callVars
<1>6. NextTurnNewer(r)'
  <2>1. rollout[r] \in InFlight => target[r] \in Generators
    BY DEF RouterInv, CallsHaveTargets
  <2>2. rollout[r] \in InFlight =>
          \A k \in DOMAIN turns[r] : turns[r][k].max <= version'[target[r]]
    BY <1>2, <1>3, <1>4, <2>1 DEF NextTurnNewer
  <2> QED
    BY <1>1, <1>4, <2>2 DEF NextTurnNewer, callVars
<1>7. StaysPinned(r)'
  <2>1. hotSwap /\ pinned[r] \in Generators =>
          \A k \in DOMAIN turns[r] : turns[r][k].max <= version'[pinned[r]]
    BY <1>2, <1>3, <1>4 DEF StaysPinned
  <2> QED
    BY <1>1, <1>4, <2>1 DEF StaysPinned, callVars, config, strategyVars
<1> QED
  BY <1>5, <1>6, <1>7

LEMMA StartPullKeepsOrder ==
  ASSUME RouterInv, OrderInv, PullModelStateDict
  PROVE  OrderInv'
<1> SUFFICES ASSUME NEW r \in Rollouts, KeepsOrder(r)'
             PROVE  TurnsAscend(r)' /\ NextTurnNewer(r)' /\ StaysPinned(r)'
  BY DEF OrderInv
<1>1. /\ pullCall = "returned" /\ pullVersion' = pullVersion + 1
      /\ UNCHANGED <<config, strategyVars, target, admitted, turns, version>>
      /\ rollout'[r] \in InFlight => rollout'[r] = rollout[r]
  <2>1. rollout' = rollout \/ \E newState : SetState(newState)
    BY DEF PullModelStateDict
  <2>2. rollout'[r] \in InFlight => rollout'[r] = rollout[r]
    BY <2>1 DEF SetState, InFlight
  <2> QED
    BY <2>2 DEF PullModelStateDict
<1>2. /\ pullVersion \in Int
      /\ turns[r] \in Seq(Turn(Versions))
      /\ \A k \in DOMAIN turns[r] : turns[r][k].max \in Int
  <2>1. TypeOK
    BY DEF RouterInv
  <2>2. pullVersion \in Int
    BY <2>1 DEF TypeOK, Versions
  <2> QED
    BY <2>1, <2>2, TurnsType
<1>3. TurnsAscend(r) /\ NextTurnNewer(r) /\ StaysPinned(r)
  BY <1>1 DEF OrderInv, KeepsOrder, config, strategyVars
<1>4. TurnsAscend(r)'
  BY <1>1, <1>2, <1>3 DEF TurnsAscend
<1>5. NextTurnNewer(r)'
  BY <1>1, <1>3 DEF NextTurnNewer, InFlight
<1>6. StaysPinned(r)'
  BY <1>1, <1>3 DEF StaysPinned, config, strategyVars
<1> QED
  BY <1>4, <1>5, <1>6

LEMMA OrderStep ==
  ASSUME RouterInv, OrderInv, [Next]_vars
  PROVE  OrderInv'
<1>1. \A r \in Rollouts : RolloutInOrder(r)
  BY DEF OrderInv, RolloutInOrder
<1>2. TypeOK
  BY DEF RouterInv
<1>3. ASSUME NEW r \in Rollouts, Generate(r) \/ Resume(r)
      PROVE  OrderInv'
  <2>1. CASE Dispatch(r)
    BY <1>2, <1>3, <2>1, DispatchKeepsOrder DEF Generate, Resume, InFlight
  <2>2. CASE ~Dispatch(r)
    <3>1. /\ rollout' = [rollout EXCEPT ![r] = "blocked"]
          /\ UNCHANGED <<config, strategyVars, target, admitted, turns, pullVars>>
      BY <1>3, <2>2 DEF Generate, Resume
    <3>2. ASSUME NEW q \in Rollouts
          PROVE  RolloutInOrder(q)'
      BY <1>1, <1>2, <3>1, OrderUntouched
         DEF KeepsOrder, InFlight, config, strategyVars, pullVars, TypeOK
    <3> QED
      BY <3>2 DEF OrderInv, RolloutInOrder
  <2> QED
    BY <2>1, <2>2
<1>4. ASSUME NEW r \in Rollouts, Admit(r)
      PROVE  OrderInv'
  <2>1. /\ rollout[r] = "dispatched"
        /\ rollout' = [rollout EXCEPT ![r] = "generating"]
        /\ admitted' = [admitted EXCEPT ![r] = version[target[r]]]
        /\ UNCHANGED <<config, strategyVars, target, turns, pullVars>>
    BY <1>4 DEF Admit
  <2>2. ASSUME NEW q \in Rollouts, q # r
        PROVE  RolloutInOrder(q)'
    BY <1>1, <1>2, <2>1, <2>2, OrderUntouched
       DEF KeepsOrder, config, strategyVars, pullVars, TypeOK
  <2>3. ASSUME KeepsOrder(r)'
        PROVE  TurnsAscend(r)' /\ NextTurnNewer(r)' /\ StaysPinned(r)'
    <3>1. TurnsAscend(r) /\ NextTurnNewer(r) /\ StaysPinned(r)
      BY <1>1, <2>1, <2>3 DEF RolloutInOrder, KeepsOrder, config, strategyVars, pullVars
    <3>2. rollout'[r] = "generating" /\ admitted'[r] = version[target[r]]
      BY <1>2, <2>1 DEF TypeOK
    <3>3. TurnsAscend(r)'
      BY <2>1, <3>1 DEF TurnsAscend, pullVars
    <3>4. NextTurnNewer(r)'
      BY <2>1, <3>1, <3>2 DEF NextTurnNewer, InFlight, pullVars
    <3>5. StaysPinned(r)'
      BY <2>1, <3>1, <3>2 DEF StaysPinned, InFlight, config, strategyVars, pullVars
    <3> QED
      BY <3>3, <3>4, <3>5
  <2> QED
    BY <2>2, <2>3 DEF OrderInv, RolloutInOrder
<1>5. ASSUME NEW r \in Rollouts, Raise(r)
      PROVE  OrderInv'
  <2>1. /\ rollout' = [rollout EXCEPT ![r] = "error"]
        /\ target' = [target EXCEPT ![r] = Nobody]
        /\ admitted' = [admitted EXCEPT ![r] = 0]
        /\ UNCHANGED <<config, strategyVars, turns, pullVars>>
    BY <1>5 DEF Raise, EndCall
  <2>2. ASSUME NEW q \in Rollouts
        PROVE  RolloutInOrder(q)'
    BY <1>1, <1>2, <2>1, OrderUntouched
       DEF KeepsOrder, InFlight, config, strategyVars, pullVars, TypeOK
  <2> QED
    BY <2>2 DEF OrderInv, RolloutInOrder
<1>6. ASSUME NEW g \in Generators, Drained(g) \/ PullReturns(g) \/ PullRaises(g)
      PROVE  OrderInv'
  <2>1. /\ pullCall' # "raised" => pullCall # "raised"
        /\ UNCHANGED <<config, strategyVars, target, admitted, turns, pullVersion,
                       version>>
    BY <1>6 DEF Drained, PullReturns, PullRaises, EndPull, GatherOf, callVars
  <2>2. \A q \in Rollouts : rollout'[q] \in InFlight => rollout'[q] = rollout[q]
    <3>1. rollout' = rollout \/ \E newState : SetState(newState)
      BY <1>6 DEF Drained, PullReturns, PullRaises, EndPull, callVars
    <3>2. CASE \E newState : SetState(newState)
      BY <3>2 DEF SetState, InFlight
    <3> QED
      BY <3>1, <3>2
  <2>3. ASSUME NEW q \in Rollouts
        PROVE  RolloutInOrder(q)'
    BY <1>1, <2>1, <2>2, OrderUntouched DEF KeepsOrder, config, strategyVars
  <2> QED
    BY <2>3 DEF OrderInv, RolloutInOrder
<1>7. CASE UNCHANGED vars
  <2>1. ASSUME NEW q \in Rollouts
        PROVE  RolloutInOrder(q)'
    BY <1>1, <1>7, OrderUntouched
       DEF KeepsOrder, vars, config, strategyVars, callVars, pullVars
  <2> QED
    BY <2>1 DEF OrderInv, RolloutInOrder
<1> QED
  BY <1>3, <1>4, <1>5, <1>6, <1>7, CompleteKeepsOrder, StartPullKeepsOrder,
     SwapKeepsOrder DEF Next, Step, PullStep

-------------------------------------------------------------------------------
LEMMA BoundedSetHasMax ==
  ASSUME NEW b \in Nat, NEW S, S \subseteq 0 .. b, S # {}
  PROVE  Max(S) \in S /\ \A x \in S : x <= Max(S)
<1> DEFINE gaps == {b - x : x \in S}
<1>1. gaps \subseteq Nat /\ gaps # {}
  <2>1. \A x \in S : b - x \in Nat
    OBVIOUS
  <2>2. PICK x \in S : TRUE
    OBVIOUS
  <2>3. b - x \in gaps
    OBVIOUS
  <2> QED
    BY <2>1, <2>3
<1>2. PICK d \in gaps : \A e \in gaps : ~ (<<e, d>> \in OpToRel(<, Nat))
  <2>1. IsWellFoundedOn(OpToRel(<, Nat), Nat)
    BY NatLessThanWellFounded
  <2> HIDE DEF gaps
  <2> QED
    BY <1>1, <2>1, WFMin
<1>3. PICK m \in S : d = b - m
  OBVIOUS
<1>4. \A x \in S : m >= x
  <2> SUFFICES ASSUME NEW x \in S PROVE m >= x
    OBVIOUS
  <2>1. b - x \in gaps /\ b - x \in Nat /\ d \in Nat
    BY <1>1
  <2>2. ~ (b - x < d)
    BY <1>2, <2>1 DEF OpToRel
  <2> QED
    BY <1>3, <2>2
<1> HIDE DEF gaps
<1>5. Max(S) \in S /\ \A x \in S : Max(S) >= x
  BY <1>4 DEF Max
<1> QED
  BY <1>5

(* Every turn has an opening turn, which is not after it.                  *)
LEMMA OpeningType ==
  ASSUME NEW ts \in Seq(Turn(Versions)), NEW k \in DOMAIN ts
  PROVE  Opening(ts, k) \in 1 .. k
<1> DEFINE breaks == {o \in 1 .. k : o = 1 \/ ~ts[o].continues}
<1>1. k \in Nat /\ 1 \in breaks
  OBVIOUS
<1>2. breaks \subseteq 0 .. k
  OBVIOUS
<1> DEFINE o == Max(breaks)
<1>3. o \in breaks /\ \A x \in breaks : x <= o
  <2> HIDE DEF breaks
  <2> QED
    BY <1>1, <1>2, BoundedSetHasMax
<1> HIDE DEF o
<1>4. \A i \in o + 1 .. k : ts[i].continues
  BY <1>1, <1>3
<1>5. o \in 1 .. k /\ (o = 1 \/ ~ts[o].continues)
  BY <1>3
<1> QED
  BY <1>4, <1>5 DEF Opening

(* A sample of turns whose versions ascend is labelled truly.              *)
LEMMA AscendingTurnsAreHonest ==
  ASSUME TypeOK, NEW r \in Rollouts, TurnsAscend(r),
         NEW s \in TrainingSamples(turns[r])
  PROVE  HonestSample(turns[r], s)
<1> DEFINE ts == turns[r]
<1> USE RouterAssumption
<1>1. ts \in Seq(Turn(Versions)) /\ \A k \in DOMAIN ts : ts[k].min \in Int /\ ts[k].max \in 0 .. MaxPolicyVersion
  <2>1. ts \in Seq(Turn(Versions))
    BY DEF TypeOK
  <2>2. \A k \in DOMAIN ts : ts[k] \in Turn(Versions)
    BY <2>1
  <2> QED
    BY <2>1, <2>2 DEF Turn, Versions
<1>2. PICK j \in DOMAIN ts : s = Sample(ts, Opening(ts, j))
  BY DEF TrainingSamples, Openings
<1> DEFINE o == Opening(ts, j)
<1>3. o \in DOMAIN ts
  BY <1>1, OpeningType
<1>4. s.turn = o /\ s.min = ts[o].min /\ s.max = Max({ts[k].max : k \in Packed(ts, o)})
  BY <1>2 DEF Sample
<1> SUFFICES ASSUME NEW k \in Packed(ts, o)
             PROVE  s.min <= ts[k].min /\ ts[k].max <= s.max
  BY <1>4 DEF HonestSample
<1>5. k \in DOMAIN ts /\ o \in 1 .. k
  BY <1>1, OpeningType DEF Packed
<1>6. s.min <= ts[k].min
  <2>1. ts[o].min <= ts[o].max /\ (o < k => ts[o].max <= ts[k].min)
    BY <1>3, <1>5 DEF TurnsAscend
  <2>2. ts[o].min \in Int /\ ts[o].max \in Int /\ ts[k].min \in Int
    BY <1>1, <1>3, <1>5
  <2>3. o = k \/ o < k
    BY <1>1, <1>5
  <2> QED
    BY <1>4, <2>1, <2>2, <2>3
<1>7. ts[k].max <= s.max
  <2> DEFINE maxima == {ts[i].max : i \in Packed(ts, o)}
  <2>1. maxima \subseteq 0 .. MaxPolicyVersion
    BY <1>1 DEF Packed
  <2>2. ts[k].max \in maxima
    OBVIOUS
  <2> HIDE DEF maxima
  <2>3. ts[k].max <= Max(maxima)
    BY <2>1, <2>2, BoundedSetHasMax
  <2> QED
    BY <1>4, <2>3 DEF maxima
<1> QED
  BY <1>6, <1>7

(* While generators drain for their pulls, and for a session that stays    *)
(* pinned, no token of a sample is older than its min_policy_version.      *)
THEOREM SamplesInOrder == Spec => []OldestTurnOpens
<1>1. Init => RouterInv /\ OrderInv
  BY RouterInit, OrderInit
<1>2. RouterInv /\ OrderInv /\ [Next]_vars => (RouterInv /\ OrderInv)'
  BY RouterStep, OrderStep
<1>3. RouterInv /\ OrderInv => OldestTurnOpens
  BY AscendingTurnsAreHonest DEF RouterInv, OrderInv, OldestTurnOpens
<1> QED
  BY <1>1, <1>2, <1>3, PTL DEF Spec

-------------------------------------------------------------------------------
(* Behind the router the generators are one generation service.            *)

(* No generator is more than one version behind the last pull.             *)
VersionsNear == \A g \in Generators : pullVersion <= version[g] + 1

Pending == {"blocked", "woken"} \cup InFlight

(* A call is for a turn that may still be taken, and wherever it is routed *)
(* it is admitted at a version no older than what was acknowledged when it *)
(* was made.                                                               *)
CallIsNew(r) ==
  /\ Len(turns[r]) <= MaxTurns
  /\ rollout[r] # "done" => Len(turns[r]) < MaxTurns
  /\ rollout[r] \in Pending =>
       \A g \in Generators : calledAt[r][Len(turns[r]) + 1] <= version[g]
  /\ rollout[r] = "generating" => calledAt[r][Len(turns[r]) + 1] <= admitted[r]

ServiceInv == VersionsNear /\ \A r \in Rollouts : CallIsNew(r)

LEMMA VersionsGrow ==
  ASSUME RouterInv, VersionsNear, [Next]_vars
  PROVE  /\ VersionsNear'
         /\ \A g \in Generators : /\ version[g] \in Int /\ version'[g] \in Int
                                  /\ version[g] <= version'[g]
<1>1. /\ version \in [Generators -> Versions] /\ pullVersion \in Int
      /\ \A g \in Generators : version[g] \in Int
  BY DEF RouterInv, TypeOK, Versions
<1>2. ASSUME UNCHANGED <<version, pullVersion>>
      PROVE  /\ VersionsNear'
             /\ \A g \in Generators : /\ version[g] \in Int /\ version'[g] \in Int
                                      /\ version[g] <= version'[g]
  BY <1>1, <1>2 DEF VersionsNear
<1>3. CASE PullModelStateDict
  <2>1. \A g \in Generators : version[g] = pullVersion
    BY <1>3 DEF PullModelStateDict, RouterInv, PullsEnd
  <2>2. version' = version /\ pullVersion' = pullVersion + 1
    BY <1>3 DEF PullModelStateDict
  <2> QED
    BY <1>1, <2>1, <2>2 DEF VersionsNear
<1>4. ASSUME NEW g \in Generators, Swap(g)
      PROVE  /\ VersionsNear'
             /\ \A h \in Generators : /\ version[h] \in Int /\ version'[h] \in Int
                                      /\ version[h] <= version'[h]
  <2>1. version' = [version EXCEPT ![g] = pullVersion] /\ pullVersion' = pullVersion
    BY <1>4 DEF Swap
  <2>2. version[g] <= pullVersion
    BY DEF RouterInv, PullsEnd
  <2>3. \A h \in Generators : version'[h] = IF h = g THEN pullVersion ELSE version[h]
    BY <1>1, <2>1
  <2> QED
    BY <1>1, <2>1, <2>2, <2>3 DEF VersionsNear
<1>5. ASSUME NEW r \in Rollouts, Generate(r) \/ Step(r) \/ Raise(r)
      PROVE  UNCHANGED <<version, pullVersion>>
  BY <1>5 DEF Generate, Step, Resume, Admit, Complete, Raise, pullVars
<1>6. ASSUME NEW g \in Generators, Drained(g) \/ PullReturns(g) \/ PullRaises(g)
      PROVE  UNCHANGED <<version, pullVersion>>
  BY <1>6 DEF Drained, PullReturns, PullRaises, EndPull
<1>7. CASE UNCHANGED vars
  BY <1>2, <1>7 DEF vars, pullVars
<1> QED
  BY <1>2, <1>3, <1>4, <1>5, <1>6, <1>7 DEF Next, PullStep

(* Every generator holds what is acknowledged.                             *)
LEMMA AcknowledgedHeld ==
  ASSUME RouterInv, VersionsNear
  PROVE  Acknowledged \in Int /\ \A g \in Generators : Acknowledged <= version[g]
<1>1. /\ pullVersion \in Int /\ \A g \in Generators : version[g] \in Int
  BY DEF RouterInv, TypeOK, Versions
<1> QED
  BY <1>1 DEF RouterInv, PullsEnd, VersionsNear, Acknowledged

LEMMA TurnNumbers ==
  ASSUME TypeOK, NEW r \in Rollouts
  PROVE  /\ turns[r] \in Seq(Turn(Versions)) /\ Len(turns[r]) \in Nat
         /\ Len(turns[r]) < MaxTurns =>
              /\ Len(turns[r]) + 1 \in 1 .. MaxTurns
              /\ calledAt[r][Len(turns[r]) + 1] \in Int
<1>1. Len(turns[r]) \in Nat /\ MaxTurns \in Nat
  BY TurnsType, LenProperties, RouterAssumption
<1>2. \A k \in 1 .. MaxTurns : calledAt[r][k] \in Int
  <2>1. calledAt \in [Rollouts -> [1 .. MaxTurns -> Versions]]
    BY DEF TypeOK
  <2>2. \A k \in 1 .. MaxTurns : calledAt[r][k] \in Versions
    BY <2>1
  <2> QED
    BY <2>2 DEF Versions
<1>3. Len(turns[r]) < MaxTurns => Len(turns[r]) + 1 \in 1 .. MaxTurns
  BY <1>1
<1> QED
  BY <1>1, <1>2, <1>3, TurnsType

(* What other calls do to a call.                                          *)
LEMMA CallKept ==
  ASSUME TypeOK, NEW r \in Rollouts, CallIsNew(r),
         \A g \in Generators : /\ version[g] \in Int /\ version'[g] \in Int
                               /\ version[g] <= version'[g],
         turns'[r] = turns[r], calledAt'[r] = calledAt[r],
         \/ rollout'[r] = rollout[r] /\ admitted'[r] = admitted[r]
         \/ rollout[r] \in Pending /\ rollout'[r] \in Pending \ {"generating"}
         \/ rollout[r] \in Pending /\ rollout'[r] = "error"
  PROVE  CallIsNew(r)'
<1>1. rollout'[r] = "done" => rollout[r] = "done"
  BY DEF Pending, InFlight
<1>2. rollout[r] = "done" => rollout'[r] = "done"
  BY DEF Pending, InFlight
<1>3. rollout'[r] \in Pending => rollout[r] \in Pending /\ rollout[r] # "done"
  BY DEF Pending, InFlight
<1>4. rollout'[r] \in Pending =>
        \A g \in Generators : calledAt[r][Len(turns[r]) + 1] <= version'[g]
  <2> SUFFICES ASSUME rollout'[r] \in Pending, NEW g \in Generators
               PROVE  calledAt[r][Len(turns[r]) + 1] <= version'[g]
    OBVIOUS
  <2>1. calledAt[r][Len(turns[r]) + 1] <= version[g] /\ calledAt[r][Len(turns[r]) + 1] \in Int
    BY <1>3, TurnNumbers DEF CallIsNew
  <2> QED
    BY <2>1
<1>5. rollout'[r] = "generating" => rollout[r] = "generating" /\ admitted'[r] = admitted[r]
  BY DEF Pending, InFlight
<1> QED
  BY <1>2, <1>4, <1>5 DEF CallIsNew

LEMMA CallsStep ==
  ASSUME RouterInv, ServiceInv, [Next]_vars
  PROVE  ServiceInv'
<1>1. /\ VersionsNear /\ VersionsNear'
      /\ \A g \in Generators : /\ version[g] \in Int /\ version'[g] \in Int
                               /\ version[g] <= version'[g]
  BY VersionsGrow DEF ServiceInv
<1>2. TypeOK /\ \A r \in Rollouts : CallIsNew(r)
  BY DEF RouterInv, ServiceInv
<1>3. SUFFICES ASSUME NEW q \in Rollouts PROVE CallIsNew(q)'
  BY <1>1 DEF ServiceInv
<1>4. CallIsNew(q) /\ Len(turns[q]) \in Nat /\ MaxTurns \in Nat
  BY <1>2, TurnNumbers, RouterAssumption
<1>5. ASSUME NEW r \in Rollouts, Generate(r)
      PROVE  CallIsNew(q)'
  <2>1. /\ rollout[r] = "ready" /\ turns' = turns /\ admitted' = admitted /\ version' = version
        /\ calledAt' = [calledAt EXCEPT ![r][Len(turns[r]) + 1] = Acknowledged]
        /\ \E status \in {"blocked", "dispatched"} : rollout' = [rollout EXCEPT ![r] = status]
    BY <1>5 DEF Generate, Dispatch, pullVars
  <2>2. CASE q = r
    <3>1. /\ rollout'[r] \in {"blocked", "dispatched"} /\ Len(turns[r]) < MaxTurns
      BY <1>2, <1>4, <2>1, <2>2 DEF CallIsNew, TypeOK
    <3>2. calledAt'[r][Len(turns[r]) + 1] = Acknowledged
      BY <1>2, <2>1, <3>1, TurnNumbers DEF TypeOK
    <3> QED
      BY <1>1, <1>4, <2>1, <2>2, <3>1, <3>2, AcknowledgedHeld DEF CallIsNew
  <2>3. CASE q # r
    <3>1. rollout'[q] = rollout[q] /\ calledAt'[q] = calledAt[q]
      BY <1>2, <2>1, <2>3 DEF TypeOK
    <3> QED
      BY <1>1, <1>2, <1>4, <2>1, <3>1, CallKept
  <2> QED
    BY <2>2, <2>3
<1>6. ASSUME NEW r \in Rollouts, Admit(r)
      PROVE  CallIsNew(q)'
  <2>1. /\ rollout[r] = "dispatched" /\ turns' = turns /\ calledAt' = calledAt
        /\ rollout' = [rollout EXCEPT ![r] = "generating"]
        /\ admitted' = [admitted EXCEPT ![r] = version[target[r]]]
        /\ target[r] \in Generators /\ version' = version
    BY <1>6 DEF Admit, RouterInv, CallsHaveTargets, InFlight, pullVars
  <2>2. CASE q = r
    <3>1. rollout'[r] = "generating" /\ admitted'[r] = version[target[r]]
      BY <1>2, <2>1 DEF TypeOK
    <3>2. /\ Len(turns[r]) < MaxTurns
          /\ \A g \in Generators : calledAt[r][Len(turns[r]) + 1] <= version[g]
      BY <1>4, <2>1, <2>2 DEF CallIsNew, Pending, InFlight
    <3> QED
      BY <1>4, <2>1, <2>2, <3>1, <3>2 DEF CallIsNew
  <2>3. CASE q # r
    <3>1. rollout'[q] = rollout[q] /\ admitted'[q] = admitted[q]
      BY <1>2, <2>1, <2>3 DEF TypeOK
    <3> QED
      BY <1>1, <1>2, <1>4, <2>1, <3>1, CallKept
  <2> QED
    BY <2>2, <2>3
<1>7. ASSUME NEW r \in Rollouts, Complete(r)
      PROVE  CallIsNew(q)'
  <2> DEFINE t(c) == [continues |-> c, min |-> admitted[r], max |-> version[target[r]]]
  <2>1. PICK c \in BOOLEAN, status \in {"ready", "done"} :
          /\ rollout[r] = "generating" /\ calledAt' = calledAt
          /\ turns' = [turns EXCEPT ![r] = Append(turns[r], t(c))]
          /\ rollout' = [rollout EXCEPT ![r] = status]
          /\ Len(turns'[r]) = MaxTurns => status = "done"
          /\ admitted' = [admitted EXCEPT ![r] = 0]
    BY <1>7 DEF Complete, EndCall
  <2>2. CASE q = r
    <3>1. Len(turns[r]) < MaxTurns
      BY <1>4, <2>1, <2>2 DEF CallIsNew
    <3>2. turns'[r] = Append(turns[r], t(c)) /\ rollout'[r] = status
      BY <1>2, <2>1 DEF TypeOK
    <3>3. Len(turns'[r]) = Len(turns[r]) + 1
      BY <1>2, <3>2, TurnNumbers
    <3> QED
      BY <1>4, <2>1, <2>2, <3>1, <3>2, <3>3 DEF CallIsNew, Pending, InFlight
  <2>3. CASE q # r
    <3>1. rollout'[q] = rollout[q] /\ admitted'[q] = admitted[q] /\ turns'[q] = turns[q]
      BY <1>2, <2>1, <2>3 DEF TypeOK
    <3> QED
      BY <1>1, <1>2, <1>4, <2>1, <3>1, CallKept
  <2> QED
    BY <2>2, <2>3
<1>8. ASSUME NEW r \in Rollouts, Resume(r) \/ Raise(r)
      PROVE  CallIsNew(q)'
  <2>1. /\ turns' = turns /\ calledAt' = calledAt /\ rollout[r] \in Pending
        /\ \E status \in {"dispatched", "error"} : rollout' = [rollout EXCEPT ![r] = status]
        /\ admitted' = admitted \/ admitted' = [admitted EXCEPT ![r] = 0]
    BY <1>8 DEF Resume, Raise, Dispatch, EndCall, Pending
  <2>2. CASE q = r
    <3>1. rollout'[r] \in {"dispatched", "error"}
      BY <1>2, <2>1 DEF TypeOK
    <3>2. rollout'[r] \in Pending \ {"generating"} \/ rollout'[r] = "error"
      BY <3>1 DEF Pending, InFlight
    <3> QED
      BY <1>1, <1>2, <1>4, <2>1, <2>2, <3>2, CallKept
  <2>3. CASE q # r
    <3>1. rollout'[q] = rollout[q] /\ admitted'[q] = admitted[q]
      BY <1>2, <2>1, <2>3 DEF TypeOK
    <3> QED
      BY <1>1, <1>2, <1>4, <2>1, <3>1, CallKept
  <2> QED
    BY <2>2, <2>3
<1>9. CASE PullModelStateDict \/ UNCHANGED vars
           \/ \E g \in Generators : PullStep(g) \/ PullRaises(g)
  <2>1. /\ turns' = turns /\ calledAt' = calledAt /\ admitted' = admitted
        /\ rollout'[q] = rollout[q] \/ (rollout[q] = "blocked" /\ rollout'[q] = "woken")
    <3>1. turns' = turns /\ calledAt' = calledAt /\ admitted' = admitted
      BY <1>9 DEF PullModelStateDict, PullStep, Drained, Swap, PullReturns, PullRaises,
                  EndPull, vars, callVars
    <3>2. rollout' = rollout \/ \E newState : SetState(newState)
      BY <1>9 DEF PullModelStateDict, PullStep, Drained, Swap, PullReturns, PullRaises,
                  EndPull, vars, callVars
    <3>3. (\E newState : SetState(newState)) =>
            rollout'[q] = rollout[q] \/ (rollout[q] = "blocked" /\ rollout'[q] = "woken")
      BY DEF SetState
    <3> QED
      BY <3>1, <3>2, <3>3
  <2>2. rollout'[q] = rollout[q]
          \/ (rollout[q] \in Pending /\ rollout'[q] \in Pending \ {"generating"})
    BY <2>1 DEF Pending, InFlight
  <2> QED
    BY <1>1, <1>2, <1>4, <2>1, <2>2, CallKept
<1> QED
  BY <1>5, <1>6, <1>7, <1>8, <1>9 DEF Next, Step

(* The calls of the service and their completions, as functions.           *)
CallMap == [q \in Calls |-> CallOf(q[1], q[2])]
CompletionMap == [q \in Calls |-> CompletionOf(q[1], q[2])]
CalledMap == [q \in Calls |-> calledAt[q[1]][q[2]]]

(* A turn is seen from outside by what is appended and by whether its call *)
(* is pending.                                                             *)
LEMMA CallsSame ==
  ASSUME NEW r \in Rollouts, turns'[r] = turns[r],
         rollout'[r] = rollout[r] \/ (rollout[r] \in Pending /\ rollout'[r] \in Pending)
  PROVE  \A k : CallOf(r, k)' = CallOf(r, k) /\ CompletionOf(r, k)' = CompletionOf(r, k)
BY DEF CallOf, CompletionOf, Pending, InFlight

LEMMA MapsSame ==
  ASSUME \A r \in Rollouts :
           /\ turns'[r] = turns[r] /\ calledAt'[r] = calledAt[r]
           /\ rollout'[r] = rollout[r] \/ (rollout[r] \in Pending /\ rollout'[r] \in Pending)
  PROVE  CallMap' = CallMap /\ CompletionMap' = CompletionMap /\ CalledMap' = CalledMap
<1>1. \A q \in Calls : /\ q[1] \in Rollouts
                       /\ CallOf(q[1], q[2])' = CallOf(q[1], q[2])
                       /\ CompletionOf(q[1], q[2])' = CompletionOf(q[1], q[2])
  BY CallsSame DEF Calls
<1> QED
  BY <1>1 DEF CallMap, CompletionMap, CalledMap

(* One rollout moves: only the call of its present turn is another.        *)
LEMMA OneCallMoves ==
  ASSUME TypeOK, NEW r \in Rollouts, NEW k, k = Len(turns[r]) + 1, k <= MaxTurns,
         \A q \in Rollouts \ {r} : turns'[q] = turns[q] /\ rollout'[q] = rollout[q],
         \/ turns'[r] = turns[r]
         \/ rollout'[r] \in {"ready", "done"} /\ \E t : turns'[r] = Append(turns[r], t)
  PROVE  /\ <<r, k>> \in Calls
         /\ \A q \in Calls : q # <<r, k>> =>
              /\ CallMap'[q] = CallMap[q]
              /\ CompletionMap'[q] = CompletionMap[q]
         /\ CallMap[<<r, k>>] = CallOf(r, k) /\ CallMap'[<<r, k>>] = CallOf(r, k)'
         /\ CompletionMap[<<r, k>>] = CompletionOf(r, k)
         /\ CompletionMap'[<<r, k>>] = CompletionOf(r, k)'
<1>1. turns[r] \in Seq(Turn(Versions)) /\ Len(turns[r]) \in Nat /\ k \in 1 .. MaxTurns
  BY TurnNumbers, RouterAssumption
<1>2. <<r, k>> \in Calls
  BY <1>1 DEF Calls
<1>3. ASSUME NEW q \in Rollouts, NEW i \in 1 .. MaxTurns, <<q, i>> # <<r, k>>
      PROVE  CallOf(q, i)' = CallOf(q, i) /\ CompletionOf(q, i)' = CompletionOf(q, i)
  <2>1. CASE q # r
    BY <2>1, CallsSame
  <2>2. CASE q = r /\ turns'[r] = turns[r]
    BY <1>1, <1>3, <2>2 DEF CallOf, CompletionOf
  <2>3. CASE q = r /\ turns'[r] # turns[r]
    <3>1. PICK t : turns'[r] = Append(turns[r], t)
      BY <2>3
    <3>2. /\ Len(turns'[r]) = Len(turns[r]) + 1
          /\ \A j \in 1 .. Len(turns[r]) : turns'[r][j] = turns[r][j]
      BY <1>1, <3>1
    <3>3. i # k /\ rollout'[r] \in {"ready", "done"}
      BY <1>3, <2>3
    <3> QED
      BY <1>1, <2>3, <3>2, <3>3 DEF CallOf, CompletionOf
  <2> QED
    BY <2>1, <2>2, <2>3
<1>4. ASSUME NEW q \in Calls, q # <<r, k>>
      PROVE  /\ CallMap'[q] = CallMap[q]
             /\ CompletionMap'[q] = CompletionMap[q]
  <2>1. PICK a \in Rollouts, i \in 1 .. MaxTurns : q = <<a, i>>
    BY DEF Calls
  <2>2. CallOf(q[1], q[2])' = CallOf(q[1], q[2]) /\ CompletionOf(q[1], q[2])' = CompletionOf(q[1], q[2])
    BY <1>3, <1>4, <2>1
  <2> QED
    BY <2>2 DEF CallMap, CompletionMap
<1>5. /\ CallMap[<<r, k>>] = CallOf(r, k) /\ CallMap'[<<r, k>>] = CallOf(r, k)'
      /\ CompletionMap[<<r, k>>] = CompletionOf(r, k)
      /\ CompletionMap'[<<r, k>>] = CompletionOf(r, k)'
  BY <1>2 DEF CallMap, CompletionMap
<1> QED
  BY <1>2, <1>4, <1>5

(* A call is made.                                                         *)
LEMMA GenerateImplements ==
  ASSUME RouterInv, ServiceInv, NEW r \in Rollouts, Generate(r)
  PROVE  Service!Next
<1> DEFINE k == Len(turns[r]) + 1
<1>1. /\ TypeOK /\ rollout[r] = "ready" /\ CallIsNew(r)
      /\ turns' = turns /\ UNCHANGED <<pullCall, pullVersion>>
      /\ calledAt' = [calledAt EXCEPT ![r][k] = Acknowledged]
      /\ \E status \in {"blocked", "dispatched"} : rollout' = [rollout EXCEPT ![r] = status]
  BY DEF Generate, Dispatch, pullVars, RouterInv, ServiceInv
<1>2. PICK n \in 1 .. MaxTurns : n = k
  BY <1>1, TurnNumbers DEF CallIsNew
<1>3. /\ rollout'[r] \in {"blocked", "dispatched"}
      /\ \A q \in Rollouts \ {r} : turns'[q] = turns[q] /\ rollout'[q] = rollout[q]
  BY <1>1 DEF TypeOK
<1> DEFINE p == <<r, n>>
<1>4. /\ p \in Calls
      /\ \A q \in Calls : q # p =>
           CallMap'[q] = CallMap[q] /\ CompletionMap'[q] = CompletionMap[q]
      /\ CallMap[p] = CallOf(r, n) /\ CallMap'[p] = CallOf(r, n)'
      /\ CompletionMap[p] = CompletionOf(r, n) /\ CompletionMap'[p] = CompletionOf(r, n)'
  BY <1>1, <1>2, <1>3, OneCallMoves
<1>5. Len(turns[r]) \in Nat
  BY <1>1, TurnNumbers
<1>6. CallOf(r, n) = "idle" /\ CallOf(r, n)' = "waiting" /\ CompletionOf(r, n)' = CompletionOf(r, n)
  BY <1>1, <1>2, <1>3, <1>5 DEF CallOf, CompletionOf
<1>7. CalledMap' = [CalledMap EXCEPT ![p] = Acknowledged]
  <2>1. calledAt \in [Rollouts -> [1 .. MaxTurns -> Versions]]
    BY <1>1 DEF TypeOK
  <2>2. ASSUME NEW a \in Rollouts, NEW i \in 1 .. MaxTurns
        PROVE  calledAt'[a][i] = IF <<a, i>> = p THEN Acknowledged ELSE calledAt[a][i]
    BY <1>1, <1>2, <2>1
  <2>3. \A q \in Calls : CalledMap'[q] = IF q = p THEN Acknowledged ELSE CalledMap[q]
    BY <2>2 DEF CalledMap, Calls
  <2> HIDE DEF p
  <2> QED
    BY <1>4, <2>3 DEF CalledMap
<1>8. CallMap[p] = "idle" /\ CallMap' = [CallMap EXCEPT ![p] = "waiting"]
  <2>1. \A q \in Calls : CallMap'[q] = IF q = p THEN "waiting" ELSE CallMap[q]
    BY <1>4, <1>6
  <2> HIDE DEF p
  <2> QED
    BY <1>4, <1>6, <2>1 DEF CallMap
<1>9. CompletionMap' = CompletionMap
  <2>1. \A q \in Calls : CompletionMap'[q] = CompletionMap[q]
    BY <1>4, <1>6
  <2> QED
    BY <2>1 DEF CompletionMap
<1> HIDE DEF p
<1>10. Acknowledged = Service!Acknowledged
  BY DEF Acknowledged, Service!Acknowledged
<1>11. Service!Call(p)
  BY <1>1, <1>7, <1>8, <1>9, <1>10 DEF Service!Call, CallMap, CompletionMap, CalledMap
<1> QED
  BY <1>4, <1>11 DEF Service!Next

(* A completion answers its call, with versions inside the bounds.         *)
LEMMA CompleteImplements ==
  ASSUME RouterInv, ServiceInv, NEW r \in Rollouts, Complete(r)
  PROVE  Service!Next
<1> DEFINE k == Len(turns[r]) + 1
           bounds == [min |-> admitted[r], max |-> version[target[r]]]
           t(c) == [continues |-> c, min |-> admitted[r], max |-> version[target[r]]]
<1>1. PICK c \in BOOLEAN, status \in {"ready", "done"} :
        /\ turns' = [turns EXCEPT ![r] = Append(turns[r], t(c))]
        /\ rollout' = [rollout EXCEPT ![r] = status]
  BY DEF Complete
<1>2. /\ TypeOK /\ rollout[r] = "generating" /\ CallIsNew(r)
      /\ UNCHANGED <<calledAt, pullCall, pullVersion>>
      /\ target[r] \in Generators
  BY DEF Complete, pullVars, RouterInv, ServiceInv, CallsHaveTargets, InFlight
<1>3. PICK n \in 1 .. MaxTurns : n = k
  BY <1>2, TurnNumbers DEF CallIsNew
<1>4. /\ turns'[r] = Append(turns[r], t(c)) /\ rollout'[r] = status
      /\ \A q \in Rollouts \ {r} : turns'[q] = turns[q] /\ rollout'[q] = rollout[q]
  BY <1>1, <1>2 DEF TypeOK
<1> DEFINE p == <<r, n>>
<1>5. /\ p \in Calls
      /\ \A q \in Calls : q # p =>
           CallMap'[q] = CallMap[q] /\ CompletionMap'[q] = CompletionMap[q]
      /\ CallMap[p] = CallOf(r, n) /\ CallMap'[p] = CallOf(r, n)'
      /\ CompletionMap[p] = CompletionOf(r, n) /\ CompletionMap'[p] = CompletionOf(r, n)'
  <2>1. rollout'[r] \in {"ready", "done"} /\ \E x : turns'[r] = Append(turns[r], x)
    BY <1>4
  <2>2. n = Len(turns[r]) + 1 /\ n <= MaxTurns
    BY <1>3, RouterAssumption
  <2> HIDE DEF t
  <2> QED
    BY <1>2, <1>4, <2>1, <2>2, OneCallMoves
<1>6. /\ turns[r] \in Seq(Turn(Versions)) /\ Len(turns[r]) \in Nat
      /\ calledAt[r][k] \in Int
  BY <1>2, <1>3, TurnNumbers DEF CallIsNew
<1>7. Len(turns'[r]) = n /\ turns'[r][n] = t(c)
  BY <1>3, <1>4, <1>6
<1>8. CallOf(r, n) = "waiting" /\ CallOf(r, n)' = "returned" /\ CompletionOf(r, n)' = bounds
  <2>1. CallOf(r, n) = "waiting"
    BY <1>2, <1>3, <1>6 DEF CallOf
  <2>2. CallOf(r, n)' = "returned"
    BY <1>7 DEF CallOf
  <2>3. CompletionOf(r, n)' = bounds
    BY <1>7 DEF CompletionOf
  <2> QED
    BY <2>1, <2>2, <2>3
<1>9. /\ CalledMap' = CalledMap /\ CalledMap[p] = calledAt[r][n]
  BY <1>2, <1>5 DEF CalledMap
<1>10. /\ bounds \in [min : 0 .. pullVersion, max : 0 .. pullVersion]
       /\ CalledMap[p] <= bounds.min /\ bounds.min <= bounds.max
  <2>1. /\ admitted[r] \in Versions /\ version[target[r]] \in Versions /\ pullVersion \in Versions
    BY <1>2 DEF TypeOK
  <2>2. admitted[r] <= version[target[r]] /\ version[target[r]] <= pullVersion
    BY <1>2 DEF RouterInv, StampsHold, PullsEnd
  <2>3. CalledMap[p] <= admitted[r]
    BY <1>2, <1>3, <1>9 DEF CallIsNew
  <2> QED
    BY <2>1, <2>2, <2>3 DEF Versions
<1> HIDE DEF p, bounds
<1>11. /\ CallMap[p] = "waiting"
       /\ CallMap' = [q \in Calls |-> IF q \in {p} THEN "returned" ELSE CallMap[q]]
  <2>1. \A q \in Calls : CallMap'[q] = IF q \in {p} THEN "returned" ELSE CallMap[q]
    BY <1>5, <1>8
  <2> QED
    BY <1>5, <1>8, <2>1 DEF CallMap
<1> DEFINE answer == [q \in {p} |-> bounds]
<1>12. CompletionMap' = [q \in Calls |-> IF q \in {p} THEN answer[q] ELSE CompletionMap[q]]
  <2>1. \A q \in Calls : CompletionMap'[q] = IF q \in {p} THEN answer[q] ELSE CompletionMap[q]
    BY <1>5, <1>8
  <2> HIDE DEF answer
  <2> QED
    BY <2>1 DEF CompletionMap
<1>13. /\ answer \in [{p} -> [min : 0 .. pullVersion, max : 0 .. pullVersion]]
       /\ \A q \in {p} : CalledMap[q] <= answer[q].min /\ answer[q].min <= answer[q].max
  BY <1>10
<1> HIDE DEF answer
<1>14. Service!Answer({p})
  BY <1>2, <1>9, <1>11, <1>12, <1>13 DEF Service!Answer, CallMap, CompletionMap, CalledMap
<1> QED
  BY <1>5, <1>14 DEF Service!Next

(* An exception fails the call.                                            *)
LEMMA RaiseImplements ==
  ASSUME RouterInv, ServiceInv, NEW r \in Rollouts, Raise(r)
  PROVE  Service!Next
<1> DEFINE k == Len(turns[r]) + 1
<1>1. /\ TypeOK /\ rollout[r] \in InFlight /\ CallIsNew(r)
      /\ UNCHANGED <<turns, calledAt, pullCall, pullVersion>>
      /\ rollout' = [rollout EXCEPT ![r] = "error"]
  BY DEF Raise, pullVars, RouterInv, ServiceInv
<1>2. PICK n \in 1 .. MaxTurns : n = k
  BY <1>1, TurnNumbers DEF CallIsNew, InFlight
<1>3. /\ rollout'[r] = "error"
      /\ \A q \in Rollouts \ {r} : turns'[q] = turns[q] /\ rollout'[q] = rollout[q]
  BY <1>1 DEF TypeOK
<1> DEFINE p == <<r, n>>
<1>4. /\ p \in Calls
      /\ \A q \in Calls : q # p =>
           CallMap'[q] = CallMap[q] /\ CompletionMap'[q] = CompletionMap[q]
      /\ CallMap[p] = CallOf(r, n) /\ CallMap'[p] = CallOf(r, n)'
      /\ CompletionMap[p] = CompletionOf(r, n) /\ CompletionMap'[p] = CompletionOf(r, n)'
  BY <1>1, <1>2, <1>3, OneCallMoves
<1>5. CallOf(r, n) = "waiting" /\ CallOf(r, n)' = "raised" /\ CompletionOf(r, n)' = CompletionOf(r, n)
  <2>1. Len(turns[r]) \in Nat
    BY <1>1, TurnNumbers
  <2> QED
    BY <1>1, <1>2, <1>3, <2>1 DEF CallOf, CompletionOf, InFlight
<1> HIDE DEF p
<1>6. /\ CallMap[p] = "waiting"
      /\ CallMap' = [q \in Calls |-> IF q \in {p} THEN "raised" ELSE CallMap[q]]
  <2>1. \A q \in Calls : CallMap'[q] = IF q \in {p} THEN "raised" ELSE CallMap[q]
    BY <1>4, <1>5
  <2> QED
    BY <1>4, <1>5, <2>1 DEF CallMap
<1>7. CompletionMap' = CompletionMap /\ CalledMap' = CalledMap
  <2>1. \A q \in Calls : CompletionMap'[q] = CompletionMap[q]
    BY <1>4, <1>5
  <2> QED
    BY <1>1, <2>1 DEF CompletionMap, CalledMap
<1>8. Service!Fail({p})
  BY <1>1, <1>6, <1>7 DEF Service!Fail, CallMap, CompletionMap, CalledMap
<1> QED
  BY <1>4, <1>8 DEF Service!Next

(* The pull is asked for, is acknowledged or fails; the versions move and   *)
(* blocked calls are woken without a caller noticing.                      *)
LEMMA PullImplements ==
  ASSUME RouterInv, PullModelStateDict \/ \E g \in Generators : PullStep(g) \/ PullRaises(g)
  PROVE  [Service!Next]_(Service!serviceVars)
<1>1. UNCHANGED <<turns, calledAt>>
  BY DEF PullModelStateDict, PullStep, Drained, Swap, PullReturns, PullRaises, EndPull, callVars
<1>2. ASSUME NEW r \in Rollouts
      PROVE  rollout'[r] = rollout[r] \/ (rollout[r] \in Pending /\ rollout'[r] \in Pending)
  <2>1. rollout' = rollout \/ \E newState : SetState(newState)
    BY DEF PullModelStateDict, PullStep, Drained, Swap, PullReturns, PullRaises, EndPull, callVars
  <2>2. (\E newState : SetState(newState)) =>
          rollout'[r] = rollout[r] \/ (rollout[r] = "blocked" /\ rollout'[r] = "woken")
    BY DEF SetState
  <2> QED
    BY <2>1, <2>2 DEF Pending
<1>3. CallMap' = CallMap /\ CompletionMap' = CompletionMap /\ CalledMap' = CalledMap
  BY <1>1, <1>2, MapsSame
<1>4. CASE PullModelStateDict
  <2>1. Service!Pull
    BY <1>3, <1>4 DEF PullModelStateDict, Service!Pull, CallMap, CompletionMap, CalledMap
  <2> QED
    BY <2>1 DEF Service!Next
<1>5. ASSUME NEW g \in Generators, PullReturns(g)
      PROVE  [Service!Next]_(Service!serviceVars)
  <2>1. pullVersion' = pullVersion
    BY <1>5 DEF PullReturns, EndPull
  <2>2. (pullCall = "waiting" /\ pullCall' = "returned") \/ pullCall' = pullCall
    BY <1>5 DEF PullReturns, GatherOf
  <2>3. CASE pullCall = "waiting" /\ pullCall' = "returned"
    <3>1. Service!Acknowledge
      BY <1>3, <2>1, <2>3 DEF Service!Acknowledge, CallMap, CompletionMap, CalledMap
    <3> QED
      BY <3>1 DEF Service!Next
  <2>4. CASE pullCall' = pullCall
    BY <1>3, <2>1, <2>4 DEF Service!serviceVars, CallMap, CompletionMap, CalledMap
  <2> QED
    BY <2>2, <2>3, <2>4
<1>6. ASSUME NEW g \in Generators, PullRaises(g)
      PROVE  [Service!Next]_(Service!serviceVars)
  <2>1. pullVersion' = pullVersion /\ pullCall' = "raised" /\ pullCall # "returned"
    BY <1>6 DEF PullRaises, EndPull, RouterInv, PullsEnd
  <2>2. CallMap' = [q \in Calls |-> IF q \in {} THEN "raised" ELSE CallMap[q]]
    BY <1>3 DEF CallMap
  <2>3. Service!Fail({})
    BY <1>3, <2>1, <2>2 DEF Service!Fail, CallMap, CompletionMap, CalledMap
  <2> QED
    BY <2>3 DEF Service!Next
<1>7. ASSUME NEW g \in Generators, Drained(g) \/ Swap(g)
      PROVE  UNCHANGED (Service!serviceVars)
  <2>1. UNCHANGED <<pullCall, pullVersion>>
    BY <1>7 DEF Drained, Swap
  <2> QED
    BY <1>3, <2>1 DEF Service!serviceVars, CallMap, CompletionMap, CalledMap
<1> QED
  BY <1>4, <1>5, <1>6, <1>7 DEF PullStep

LEMMA ServiceStep ==
  ASSUME RouterInv, ServiceInv, [Next]_vars
  PROVE  [Service!Next]_(Service!serviceVars)
<1>1. ASSUME NEW r \in Rollouts, Resume(r) \/ Admit(r)
      PROVE  UNCHANGED (Service!serviceVars)
  <2>1. /\ TypeOK /\ UNCHANGED <<turns, calledAt, pullCall, pullVersion>>
        /\ rollout[r] \in Pending
        /\ \E status \in Pending : rollout' = [rollout EXCEPT ![r] = status]
    BY <1>1 DEF Resume, Dispatch, Admit, pullVars, Pending, InFlight, RouterInv
  <2>2. \A q \in Rollouts :
          rollout'[q] = rollout[q] \/ (rollout[q] \in Pending /\ rollout'[q] \in Pending)
    BY <2>1 DEF TypeOK
  <2>3. CallMap' = CallMap /\ CompletionMap' = CompletionMap /\ CalledMap' = CalledMap
    BY <2>1, <2>2, MapsSame
  <2> QED
    BY <2>1, <2>3 DEF Service!serviceVars, CallMap, CompletionMap, CalledMap
<1>2. CASE UNCHANGED vars
  <2>1. UNCHANGED <<turns, rollout, calledAt, pullCall, pullVersion>>
    BY <1>2 DEF vars, callVars, pullVars
  <2>2. CallMap' = CallMap /\ CompletionMap' = CompletionMap /\ CalledMap' = CalledMap
    BY <2>1, MapsSame
  <2> QED
    BY <2>1, <2>2 DEF Service!serviceVars, CallMap, CompletionMap, CalledMap
<1> QED
  BY <1>1, <1>2, GenerateImplements, CompleteImplements, RaiseImplements, PullImplements
  DEF Next, Step

LEMMA ServiceInit ==
  ASSUME Init
  PROVE  ServiceInv /\ Service!Init
<1>1. /\ \A r \in Rollouts : rollout[r] = "ready" /\ turns[r] = << >>
      /\ \A r \in Rollouts : \A k \in 1 .. MaxTurns : calledAt[r][k] = 0
      /\ \A g \in Generators : version[g] = 0
      /\ pullCall = "returned" /\ pullVersion = 0
  BY DEF Init
<1>2. Len(<< >>) = 0 /\ MaxTurns \in Nat \ {0}
  BY RouterAssumption
<1>3. ServiceInv
  BY <1>1, <1>2 DEF ServiceInv, VersionsNear, CallIsNew, Pending, InFlight
<1>4. \A r \in Rollouts : \A k \in 1 .. MaxTurns :
        CallOf(r, k) = "idle" /\ CompletionOf(r, k) = [min |-> -1, max |-> -1]
  BY <1>1, <1>2 DEF CallOf, CompletionOf
<1>5. \A q \in Calls : /\ CallOf(q[1], q[2]) = "idle"
                       /\ CompletionOf(q[1], q[2]) = [min |-> -1, max |-> -1]
                       /\ calledAt[q[1]][q[2]] = 0
  BY <1>1, <1>4 DEF Calls
<1>6. Service!Init
  BY <1>1, <1>5 DEF Service!Init, Service!NoCompletion
<1> QED
  BY <1>3, <1>6

(* Behind the router any number of generators are one generation service:  *)
(* every call is answered once, with versions between the last pull that   *)
(* was acknowledged before it and the last one requested, or it fails.     *)
THEOREM ServiceImplemented == Spec => ImplementsService
<1>1. Init => ServiceInv /\ Service!Init
  BY ServiceInit
<1>2. RouterInv /\ ServiceInv /\ [Next]_vars
        => ServiceInv' /\ [Service!Next]_(Service!serviceVars)
  BY CallsStep, ServiceStep
<1> QED
  BY <1>1, <1>2, RouterInvariant, PTL DEF Spec, ImplementsService, Service!Spec
===============================================================================
