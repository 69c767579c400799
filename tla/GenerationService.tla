--------------------------- MODULE GenerationService ---------------------------
(***************************************************************************)
(* What VLLMGenerator promises its callers, whatever its ranks, bursts and *)
(* broadcasts do: a generate call is answered once, by a completion whose  *)
(* policy versions are bracketed by the last pull acknowledged before the  *)
(* call and the last pull requested, or it fails.                          *)
(***************************************************************************)
EXTENDS Integers

CONSTANTS Requests, MaxPolicyVersion

VARIABLES call,          \* request -> life of its generate call
          completion,    \* request -> bounds the completion carries
          calledAt,      \* request -> version acknowledged when it was called
          pullCall,      \* life of the last pull_model_state_dict call
          pullVersion    \* its version

serviceVars == <<call, completion, calledAt, pullCall, pullVersion>>

CallState == {"idle", "waiting", "returned", "raised"}

NoCompletion == [min |-> -1, max |-> -1]

(* The newest version a caller knows every later token to come from.       *)
Acknowledged ==
  IF pullCall = "returned" THEN pullVersion ELSE pullVersion - 1

Init ==
  /\ call = [r \in Requests |-> "idle"]
  /\ completion = [r \in Requests |-> NoCompletion]
  /\ calledAt = [r \in Requests |-> 0]
  /\ pullCall = "returned" /\ pullVersion = 0

Call(r) ==
  /\ call[r] = "idle"
  /\ call' = [call EXCEPT ![r] = "waiting"]
  /\ calledAt' = [calledAt EXCEPT ![r] = Acknowledged]
  /\ UNCHANGED <<completion, pullCall, pullVersion>>

(* The requests that finished in one engine step are answered together.    *)
Answer(R) ==
  /\ \A r \in R : call[r] = "waiting"
  /\ call' = [r \in Requests |-> IF r \in R THEN "returned" ELSE call[r]]
  /\ \E bounds \in [R -> [min : 0 .. pullVersion, max : 0 .. pullVersion]] :
       /\ \A r \in R :
            calledAt[r] <= bounds[r].min /\ bounds[r].min <= bounds[r].max
       /\ completion' =
            [r \in Requests |-> IF r \in R THEN bounds[r] ELSE completion[r]]
  /\ UNCHANGED <<calledAt, pullCall, pullVersion>>

Pull ==
  /\ pullCall = "returned"
  /\ pullVersion < MaxPolicyVersion
  /\ pullVersion' = pullVersion + 1
  /\ pullCall' = "waiting"
  /\ UNCHANGED <<call, completion, calledAt>>

Acknowledge ==
  /\ pullCall = "waiting"
  /\ pullCall' = "returned"
  /\ UNCHANGED <<call, completion, calledAt, pullVersion>>

(* A crash or the shutdown fails the calls outstanding at that moment, and *)
(* a call made after the shutdown.                                         *)
Fail(R) ==
  /\ \A r \in R : call[r] \in {"idle", "waiting"}
  /\ call' = [r \in Requests |-> IF r \in R THEN "raised" ELSE call[r]]
  /\ pullCall' \in {pullCall, "raised"}
  /\ pullCall = "returned" => pullCall' = "returned"
  /\ UNCHANGED <<completion, calledAt, pullVersion>>

Next ==
  \/ \E r \in Requests : Call(r)
  \/ \E R \in SUBSET Requests : Answer(R) \/ Fail(R)
  \/ Pull \/ Acknowledge

Spec == Init /\ [][Next]_serviceVars
===============================================================================
