----------------------------- MODULE VineStates -----------------------------
(***************************************************************************)
(* The states of a vine (vine.VineState) and the moves one decay cycle can *)
(* make.                                                                   *)
(***************************************************************************)
EXTENDS Naturals, Sequences

CONSTANT Ids     \* vine ids

\* vine.VineState, plus "absent".
LiveStates == {"active", "twilight"}
VineState == LiveStates \cup {"evicted", "absent"}

\* The moves one decay cycle can make with one vine.
DecayEdges ==
  {<<"active", "twilight">>,     \* demoted
   <<"twilight", "active">>,     \* snapped back by a relevant intent
   <<"twilight", "evicted">>,    \* twilight window expired, or over capacity
   <<"active", "evicted">>}      \* over capacity

(* The effect of one decay cycle on the states st of all vines.  A vine on *)
(* which the cycle makes no move keeps its state; a locked vine always     *)
(* does.                                                                   *)
DecayRelation(st, lk, st2) ==
  \A v \in Ids :
    \/ st2[v] = st[v]
    \/ v \notin lk /\ <<st[v], st2[v]>> \in DecayEdges

\* The crests that are left of the list s without the vines S.
Without(s, S) ==
  LET kept[n \in 0 .. Len(s)] ==
        IF n = 0 THEN <<>>
        ELSE IF s[n] \in S THEN kept[n - 1] ELSE Append(kept[n - 1], s[n])
  IN kept[Len(s)]
=============================================================================
