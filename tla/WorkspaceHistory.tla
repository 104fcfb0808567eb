--------------------------- MODULE WorkspaceHistory ---------------------------
(***************************************************************************)
(* Workspace with two history variables that record what each vine went    *)
(* through since it was last active: the properties of this module relate  *)
(* an eviction to that past.                                               *)
(***************************************************************************)
EXTENDS Workspace

VARIABLES
  low,       \* consecutive decay cycles that scored the vine too low, the
             \* caller's count of them where it passes one
  fadedAt    \* when that run of low scores began

historyVars == <<vars, low, fadedAt>>

HistoryInit ==
  /\ Init
  /\ low = [v \in Ids |-> 0]
  /\ fadedAt = [v \in Ids |-> 0]

HistoryDecay(sc, ov) ==
  /\ RunDecayCycle(sc, ov)
  /\ low' = [v \in Ids |->
               IF ~Subject(v) THEN low[v]
               ELSE IF sc[v] >= TWILIGHT_THRESHOLD THEN 0
               ELSE IF low[v] > 0 /\ ov[v] # None THEN ov[v] + 1
               ELSE low[v] + 1]
  /\ fadedAt' = [v \in Ids |->
                   IF Subject(v) /\ low[v] = 0 THEN now ELSE fadedAt[v]]

\* Anything that brings the vine back ends its run of low scores.
Settled ==
  /\ low' = [v \in Ids |-> IF state'[v] \in {"active", "absent"} THEN 0
                           ELSE low[v]]
  /\ fadedAt' = [v \in Ids |-> IF low'[v] = 0 THEN 0 ELSE fadedAt[v]]

HistoryNext ==
  \/ Tick /\ Settled
  \/ \E v \in Ids : (Add(v) \/ Remove(v) \/ Lock(v) \/ Unlock(v)
                       \/ Reinforce(v)) /\ Settled
  \/ \E S \in SUBSET Ids : PruneEvicted(S) /\ Settled
  \/ \E s \in CrestLists : SetCrests(s) /\ Settled
  \/ \E sc \in [Ids -> Scores] : \E ov \in Overrides : HistoryDecay(sc, ov)
  \/ Restart /\ Settled

HistorySpec == HistoryInit /\ [][HistoryNext]_historyVars

(* "5 query cycles or 30 minutes, whichever is longer": a vine leaves L1   *)
(* only after a cycle that faded it and TwilightCycles more that kept      *)
(* scoring it too low, TwilightTicks apart or more, none of it while       *)
(* locked, whatever locks, restarts and snap-backs came in between; or     *)
(* because the workspace is over capacity.                                 *)
EvictionEarned ==
  [][\A v \in Ids :
       state[v] \in LiveStates /\ state'[v] = "evicted" =>
         \/ /\ low'[v] > TwilightCycles
            /\ now - fadedAt[v] >= TwilightTicks
         \/ Cardinality(Live') >= Capacity]_historyVars

(* A capacity eviction takes the least valuable vine: an unlocked vine     *)
(* that stays scored at least as high as any vine evicted early in the     *)
(* same cycle.                                                             *)
CapacityTakesLowest ==
  [][\A v, w \in Ids :
       /\ state[v] \in LiveStates /\ state'[v] = "evicted"
       /\ ~(low'[v] > TwilightCycles /\ now - fadedAt[v] >= TwilightTicks)
       /\ state'[w] \in LiveStates /\ w \notin locked
       => score'[v] <= score'[w]]_historyVars
=============================================================================
