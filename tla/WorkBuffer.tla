------------------------------ MODULE WorkBuffer ------------------------------
(***************************************************************************)
(* RolloutGroupWorkBuffer: the bounded buffer shared by the data-input,    *)
(* rollout and batcher loops of the asynchronous RL controller.            *)
(*                                                                         *)
(* Every operator below is the body of one "async with self._condition"    *)
(* block: asyncio runs it without interleaving, and a blocked waiter is an *)
(* operator whose guard is not enabled.  The OrderedDict is keyed by group *)
(* id in insertion order; its only producer inserts increasing ids, so the *)
(* oldest entry is the smallest key.                                       *)
(***************************************************************************)
EXTENDS Integers, FiniteSets

CONSTANTS MaxActiveRolloutGroups,   \* active-slot budget, B in the docs
          WindowSize                \* look-ahead window, W in the docs

ASSUME BufferAssumption ==
  /\ MaxActiveRolloutGroups \in Nat
  /\ WindowSize \in 1 .. MaxActiveRolloutGroups

VARIABLES activeRolloutGroups,      \* slots charged
          workByGroupId,            \* group id -> life-cycle state
          closed

bufferVars == <<activeRolloutGroups, workByGroupId, closed>>

WorkState == {"WAITING", "INFLIGHT", "FINALIZED"}

GroupsIn(state) == {g \in DOMAIN workByGroupId : workByGroupId[g] = state}

WithoutGroup(g) ==
  [h \in DOMAIN workByGroupId \ {g} |-> workByGroupId[h]]

WithState(g, state) ==
  [h \in DOMAIN workByGroupId \cup {g} |->
     IF h = g THEN state ELSE workByGroupId[h]]

BufferInit ==
  /\ activeRolloutGroups = 0
  /\ workByGroupId = [g \in {} |-> "WAITING"]
  /\ closed = FALSE

(* Mutant: one slot too many.                                              *)
HasActiveSlotOffByOne == activeRolloutGroups <= MaxActiveRolloutGroups

HasActiveSlotAvailable == activeRolloutGroups < MaxActiveRolloutGroups

(* Mutant: add_work is called without waiting for a slot.                  *)
SlotGrantedAlways == ~closed

(* wait_for_slot returns True.                                             *)
SlotGranted == ~closed /\ HasActiveSlotAvailable

(* add_work charges a slot; it does not look at _closed.                   *)
AddWork(g) ==
  /\ HasActiveSlotAvailable
  /\ activeRolloutGroups' = activeRolloutGroups + 1
  /\ workByGroupId' = WithState(g, "WAITING")
  /\ UNCHANGED closed

(* claim_next: the oldest WAITING entry becomes INFLIGHT.                  *)
ClaimNext(g) ==
  /\ ~closed
  /\ g \in GroupsIn("WAITING")
  /\ \A h \in GroupsIn("WAITING") : g <= h
  /\ workByGroupId' = WithState(g, "INFLIGHT")
  /\ UNCHANGED <<activeRolloutGroups, closed>>

(* finalize_work of a group whose entry is still there.                    *)
FinalizeWork(g) ==
  /\ g \in DOMAIN workByGroupId
  /\ workByGroupId' = WithState(g, "FINALIZED")
  /\ UNCHANGED <<activeRolloutGroups, closed>>

(* Mutant: the window is one id too wide.                                  *)
InWindowOffByOne(g) ==
  \A head \in DOMAIN workByGroupId : g <= head + WindowSize

(* The window [head, head + window_size - 1] anchored at the oldest entry. *)
InWindow(g) ==
  \A head \in DOMAIN workByGroupId : g <= head + WindowSize - 1

(* Mutant: taking the entry also frees its slot.                           *)
TakeFinalizedAndFree(g) ==
  /\ ~closed
  /\ g \in GroupsIn("FINALIZED")
  /\ InWindow(g)
  /\ \A h \in GroupsIn("FINALIZED") : g <= h
  /\ workByGroupId' = WithoutGroup(g)
  /\ activeRolloutGroups' = activeRolloutGroups - 1
  /\ UNCHANGED closed

(* take_finalized: the oldest FINALIZED entry of the window leaves the     *)
(* dict; its slot stays charged.                                           *)
TakeFinalized(g) ==
  /\ ~closed
  /\ g \in GroupsIn("FINALIZED")
  /\ InWindow(g)
  /\ \A h \in GroupsIn("FINALIZED") : g <= h
  /\ workByGroupId' = WithoutGroup(g)
  /\ UNCHANGED <<activeRolloutGroups, closed>>

(* release_active_groups(count), the call that does not raise.             *)
CanRelease(count) == count <= activeRolloutGroups

ReleaseActiveGroups(count) ==
  /\ CanRelease(count)
  /\ activeRolloutGroups' = activeRolloutGroups - count
  /\ UNCHANGED <<workByGroupId, closed>>

(* close drops the entries and keeps the slot count.                       *)
Close ==
  /\ closed' = TRUE
  /\ workByGroupId' = [g \in {} |-> "WAITING"]
  /\ UNCHANGED activeRolloutGroups
===============================================================================
