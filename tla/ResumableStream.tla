--------------------------- MODULE ResumableStream ---------------------------
(***************************************************************************)
(* What a checkpointed dataloader promises the trainer: one fixed sequence *)
(* of items, continued after every restart from the item that follows the  *)
(* last checkpoint.  `out` is what the current history of the training     *)
(* consists of, `seen` the longest history the trainer ever had, `saved`   *)
(* the number of items before the last checkpoint.                         *)
(***************************************************************************)
EXTENDS Naturals, Sequences

VARIABLES out, seen, saved

vars == <<out, seen, saved>>

Init == out = << >> /\ seen = << >> /\ saved = 0

\* The next item: the one seen at this place, if the place was reached before.
Deliver ==
  /\ Len(out') = Len(out) + 1
  /\ SubSeq(out', 1, Len(out)) = out
  /\ seen' = IF Len(out) < Len(seen) THEN seen ELSE out'
  /\ out' = SubSeq(seen', 1, Len(out'))
  /\ UNCHANGED saved

Save == saved' = Len(out) /\ UNCHANGED <<out, seen>>

Restart == out' = SubSeq(out, 1, saved) /\ UNCHANGED <<seen, saved>>

Next == Deliver \/ Save \/ Restart

Spec == Init /\ [][Next]_vars
=============================================================================
