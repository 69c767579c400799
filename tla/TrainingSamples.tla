---------------------------- MODULE TrainingSamples ----------------------------
(***************************************************************************)
(* TrainingSampleBuilder.rollout_to_training_samples: how the turns of one *)
(* rollout become training samples, and the policy versions a sample is    *)
(* labelled with.  Of a turn the module keeps whether its prompt continues *)
(* the prompt and completion before it, and the bounds of the versions its *)
(* completion was sampled under.                                           *)
(***************************************************************************)
EXTENDS Integers, Sequences, FiniteSets, FiniteSetsExt

Turn(Version) == [continues : BOOLEAN, min : Version, max : Version]

(* The turn that opens the sample turn k is packed into: the first one, or *)
(* the last whose prompt does not continue the one before it.              *)
Opening(turns, k) ==
  CHOOSE o \in 1 .. k :
    /\ o = 1 \/ ~turns[o].continues
    /\ \A i \in o + 1 .. k : turns[i].continues

Openings(turns) == {Opening(turns, k) : k \in DOMAIN turns}

(* The turns packed into the sample that turn o opens.                     *)
Packed(turns, o) == {k \in DOMAIN turns : Opening(turns, k) = o}

(* A sample is born with the versions of its opening turn; the turns that  *)
(* join it widen the maximum only.                                         *)
Sample(turns, o) ==
  [turn |-> o,
   min  |-> turns[o].min,
   max  |-> Max({turns[k].max : k \in Packed(turns, o)})]

TrainingSamples(turns) == {Sample(turns, o) : o \in Openings(turns)}

(* The label promises that no token of the sample is older than min, and   *)
(* none newer than max.                                                    *)
HonestSample(turns, s) ==
  \A k \in Packed(turns, s.turn) :
    s.min <= turns[k].min /\ turns[k].max <= s.max

(* Mutant: the versions of the last turn replace the sample's own.         *)
SampleOfLastTurn(turns, o) ==
  LET last == Max(Packed(turns, o))
  IN [turn |-> o, min |-> turns[last].min, max |-> turns[last].max]
===============================================================================
