------------------------------ MODULE Lifecycle ------------------------------
(***************************************************************************)
(* What the active workspace promises about one vine, whatever the scores, *)
(* clocks, capacity and counters behind it: the life of a vine is          *)
(*                                                                         *)
(*   absent -> active <-> twilight -> evicted -> absent                    *)
(*               \________________________^                                *)
(*                                                                         *)
(* and an Amber-Locked vine is immune to the decay loop.  Workspace        *)
(* implements this specification; Oracle uses DecayRelation as the effect  *)
(* of one decay cycle.                                                     *)
(***************************************************************************)
EXTENDS VineStates

VARIABLES
  state,     \* [Ids -> VineState], "absent" = not in Workspace._vines
  locked     \* the Amber-Locked vines

lifecycleVars == <<state, locked>>

LifecycleInit ==
  /\ state = [v \in Ids |-> "absent"]
  /\ locked = {}

LSprout(v) ==
  /\ state[v] = "absent"
  /\ state' = [state EXCEPT ![v] = "active"]
  /\ UNCHANGED locked

LReinforce(v) ==
  /\ state[v] = "twilight"
  /\ state' = [state EXCEPT ![v] = "active"]
  /\ UNCHANGED locked

LLock(v) ==
  /\ state[v] \in LiveStates
  /\ locked' = locked \cup {v}
  /\ UNCHANGED state

LUnlock(v) ==
  /\ locked' = locked \ {v}
  /\ UNCHANGED state

LDecay ==
  /\ state' \in [Ids -> VineState]
  /\ DecayRelation(state, locked, state')
  /\ UNCHANGED locked

(* Removal is the only way out: of an evicted vine once it is archived, or *)
(* of any vine that is forgotten.                                          *)
LRelease(S) ==
  /\ state' = [v \in Ids |-> IF v \in S THEN "absent" ELSE state[v]]
  /\ locked' = locked \ S

LifecycleNext ==
  \/ \E v \in Ids : LSprout(v) \/ LReinforce(v) \/ LLock(v) \/ LUnlock(v)
  \/ LDecay
  \/ \E S \in SUBSET Ids : LRelease(S)

LifecycleSpec == LifecycleInit /\ [][LifecycleNext]_lifecycleVars
=============================================================================
