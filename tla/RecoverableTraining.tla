------------------------- MODULE RecoverableTraining -------------------------
(***************************************************************************)
(* What checkpointing promises the owner of a training run: some prefix of *)
(* the steps is durable, the durable prefix only grows, it never contains  *)
(* a step that was not trained, and a process that starts again, after a   *)
(* crash or not, goes on from exactly the durable step.                    *)
(***************************************************************************)
EXTENDS Naturals

CONSTANT MaxSteps

VARIABLES
  durable,   \* the last step whose state survives the process
  running,
  step       \* of the running process

vars == <<durable, running, step>>

Init == durable = 0 /\ running = FALSE /\ step = 0

\* A process starts from the durable step.
Start == ~running /\ running' = TRUE /\ step' = durable /\ UNCHANGED durable

Advance == running /\ step < MaxSteps /\ step' = step + 1 /\ UNCHANGED <<durable, running>>

\* A step trained since the last commit becomes durable.
Commit ==
  /\ running
  /\ durable' \in durable + 1 .. step
  /\ UNCHANGED <<running, step>>

\* The process ends or dies: what is not durable is lost.
Stop == running /\ running' = FALSE /\ step' = 0 /\ UNCHANGED durable

Next == Start \/ Advance \/ Commit \/ Stop

Spec == Init /\ [][Next]_vars
===============================================================================
