--------------------------- MODULE WorkspaceProofs ---------------------------
(***************************************************************************)
(* Proofs about Workspace, for every set of vines, every capacity, every   *)
(* twilight window and every scorer.                                       *)
(*                                                                         *)
(* LockedIsLive is inductive once the variables are typed.                 *)
(* CompressedIffFaded and FreshWindow are too.  The refinement of          *)
(* Lifecycle needs LockedIsLive only for its steps that evict.             *)
(***************************************************************************)
EXTENDS WorkspaceHistory, FiniteSetTheorems, SequenceTheorems,
        WellFoundedInduction, TLAPS

(* The strengthening that one step preserves.                              *)
IInv == VinesTyped /\ LockedIsLive /\ CompressedIffFaded /\ FreshWindow

LEMMA InitIInv == Init => IInv
  BY WorkspaceAssumption DEF Init, IInv, VinesTyped, LockedIsLive,
     CompressedIffFaded, FreshWindow, L!VineState, LiveStates, L!LiveStates, None

(* What a decay cycle does with one vine, from the scores alone.           *)
LEMMA DecayedEdges ==
  ASSUME VinesTyped, NEW v \in Ids, NEW sc, NEW ov
  PROVE  /\ Decayed(v, sc, ov) \in L!VineState
         /\ Decayed(v, sc, ov) # state[v] =>
              v \notin locked /\ <<state[v], Decayed(v, sc, ov)>> \in L!DecayEdges
         /\ Decayed(v, sc, ov) \in LiveStates => state[v] \in LiveStates
  BY DEF VinesTyped, Decayed, SnapsBack, Fades, Lingers, Subject, L!VineState,
     L!DecayEdges, LiveStates, L!LiveStates

(* A capacity eviction only takes unlocked vines that are live.            *)
LEMMA EvictionsUnlocked ==
  ASSUME VinesTyped, NEW sc, NEW ov, NEW E \in CapacityEvictions(sc, ov),
         NEW v \in E
  PROVE  v \in Ids /\ v \notin locked /\ state[v] \in LiveStates
  BY DecayedEdges DEF CapacityEvictions, Candidates, LiveAfter

LEMMA NextCyclesTyped ==
  ASSUME VinesTyped, NEW v \in Ids, NEW ov \in Overrides
  PROVE  NextCycles(v, ov) \in Nat
<1>1. ov[v] \in Nat \cup {None}
  BY WorkspaceAssumption DEF Overrides
<1>2. cycles[v] \in Nat \cup {None}
  BY DEF VinesTyped
<1> QED
  BY <1>1, <1>2 DEF NextCycles, None

LEMMA DropIInv ==
  ASSUME IInv, NEW S \in SUBSET Ids, Drop(S)
  PROVE  IInv'
<1> USE DEF IInv, VinesTyped, Drop
<1>1. VinesTyped'
  BY DEF L!VineState, None
<1>2. LockedIsLive'
  BY DEF LockedIsLive
<1>3. CompressedIffFaded'
  BY DEF CompressedIffFaded
<1>4. FreshWindow'
  BY DEF FreshWindow
<1> QED
  BY <1>1, <1>2, <1>3, <1>4

LEMMA ReinforceIInv ==
  ASSUME IInv, NEW v \in Ids, Reinforce(v)
  PROVE  IInv'
<1> USE DEF IInv, VinesTyped, Reinforce
<1>0. Bonused(score[v]) \in Int
  BY DEF Bonused, REINFORCEMENT_BONUS, FullScore
<1>1. VinesTyped'
  BY <1>0 DEF L!VineState, L!LiveStates, None
<1>2. LockedIsLive'
  BY DEF LockedIsLive, LiveStates, L!LiveStates
<1>3. CompressedIffFaded'
  BY DEF CompressedIffFaded, LiveStates, L!LiveStates
<1>4. FreshWindow'
  BY DEF FreshWindow, LiveStates, L!LiveStates
<1> QED
  BY <1>1, <1>2, <1>3, <1>4

LEMMA DecayIInv ==
  ASSUME IInv, NEW sc \in [Ids -> Scores], NEW ov \in Overrides,
         RunDecayCycle(sc, ov)
  PROVE  IInv'
<1> PICK E \in CapacityEvictions(sc, ov) :
      /\ state' = [v \in Ids |-> IF v \in E THEN "evicted"
                                 ELSE Decayed(v, sc, ov)]
      /\ cycles' = [v \in Ids |-> CyclesAfter(v, sc, ov, E)]
      /\ packed' = PackedAfter(sc, E)
  BY DEF RunDecayCycle
<1> VinesTyped
  BY DEF IInv
<1> sc \in [Ids -> Int]
  BY WorkspaceAssumption
<1>1. VinesTyped'
  <2>1. state' \in [Ids -> L!VineState]
    BY DecayedEdges DEF L!VineState
  <2>2. cycles' \in [Ids -> Nat \cup {None}]
    BY NextCyclesTyped DEF CyclesAfter, VinesTyped
  <2>3. packed' \subseteq Ids
    BY DEF PackedAfter
  <2>4. score' \in [Ids -> Int]
    BY DEF RunDecayCycle, Scored, Bonused, REINFORCEMENT_BONUS, FullScore,
       VinesTyped
  <2>5. touched' \in [Ids -> Nat]
    BY DEF RunDecayCycle, TouchedAfter, VinesTyped
  <2>6. since' \in [Ids -> Nat \cup {None}]
    BY DEF RunDecayCycle, TwilightSince, VinesTyped
  <2>7. locked' = locked /\ now' = now
    BY DEF RunDecayCycle
  <2> QED
    BY <2>1, <2>2, <2>3, <2>4, <2>5, <2>6, <2>7 DEF VinesTyped
<1>2. LockedIsLive'
  <2> SUFFICES ASSUME NEW v \in locked PROVE state'[v] \in LiveStates
    BY DEF LockedIsLive, RunDecayCycle
  <2> v \in Ids /\ state[v] \in LiveStates
    BY DEF IInv, LockedIsLive, VinesTyped
  <2>1. v \notin E
    BY EvictionsUnlocked
  <2> QED
    BY <2>1, DecayedEdges
<1>3. CompressedIffFaded'
  <2> SUFFICES ASSUME NEW v \in Ids
               PROVE  v \in packed' <=>
                        v \notin Shielded /\ state'[v] \in {"twilight", "evicted"}
    BY DEF CompressedIffFaded
  <2>1. v \in packed <=> v \notin Shielded /\ state[v] \in {"twilight", "evicted"}
    BY DEF IInv, CompressedIffFaded
  <2>2. v \in packed' <=>
          v \notin Shielded /\ (v \in E \/ Fades(v, sc) \/ (v \in packed /\ ~SnapsBack(v, sc)))
    BY DEF PackedAfter
  <2>3. state'[v] = IF v \in E THEN "evicted" ELSE Decayed(v, sc, ov)
    OBVIOUS
  <2> QED
    BY <2>1, <2>2, <2>3 DEF Decayed, SnapsBack, Fades, Lingers, Subject,
       LiveStates, L!LiveStates
<1>4. FreshWindow'
  <2> SUFFICES ASSUME NEW v \in Ids, state'[v] \in {"absent", "active"}
               PROVE  since'[v] = None /\ cycles'[v] = None
    BY DEF FreshWindow
  <2>1. v \notin E /\ Decayed(v, sc, ov) \in {"absent", "active"}
    OBVIOUS
  <2>2. SnapsBack(v, sc) \/ (~Fades(v, sc) /\ ~Lingers(v, sc)
                               /\ state[v] \in {"absent", "active"})
    BY <2>1 DEF Decayed, SnapsBack, Fades, Lingers, Subject, LiveStates,
       L!LiveStates
  <2>3. state[v] \in {"absent", "active"} => since[v] = None /\ cycles[v] = None
    BY DEF IInv, FreshWindow
  <2>4. since'[v] = IF SnapsBack(v, sc) THEN None
                    ELSE IF Fades(v, sc) THEN now
                    ELSE IF Lingers(v, sc) THEN TwilightSince(v)
                    ELSE since[v]
    BY DEF RunDecayCycle
  <2> QED
    BY <2>1, <2>2, <2>3, <2>4 DEF CyclesAfter
<1> QED
  BY <1>1, <1>2, <1>3, <1>4 DEF IInv

LEMMA NextIInv == IInv /\ [Next]_vars => IInv'
<1> SUFFICES ASSUME IInv, [Next]_vars PROVE IInv'
  OBVIOUS
<1> USE DEF IInv, VinesTyped, LockedIsLive, CompressedIffFaded, FreshWindow
<1>1. CASE Tick
  BY <1>1 DEF Tick
<1>2. ASSUME NEW v \in Ids, Add(v) PROVE IInv'
  BY <1>2 DEF Add, FullScore, L!VineState, L!LiveStates, LiveStates
<1>3. ASSUME NEW v \in Ids, Remove(v) PROVE IInv'
  BY <1>3, DropIInv DEF Remove
<1>4. ASSUME NEW v \in Ids, Lock(v) PROVE IInv'
  BY <1>4 DEF Lock
<1>5. ASSUME NEW v \in Ids, Unlock(v) PROVE IInv'
  BY <1>5 DEF Unlock
<1>6. ASSUME NEW v \in Ids, Reinforce(v) PROVE IInv'
  BY <1>6, ReinforceIInv
<1>7. ASSUME NEW S \in SUBSET Ids, PruneEvicted(S) PROVE IInv'
  BY <1>7, DropIInv DEF PruneEvicted
<1>8. ASSUME NEW s \in CrestLists, SetCrests(s) PROVE IInv'
  BY <1>8 DEF SetCrests
<1>9. ASSUME NEW sc \in [Ids -> Scores], NEW ov \in Overrides,
             RunDecayCycle(sc, ov)
      PROVE  IInv'
  BY <1>9, DecayIInv
<1>10. CASE Restart
  BY <1>10 DEF Restart, None
<1>11. CASE UNCHANGED vars
  BY <1>11 DEF vars
<1> QED
  BY <1>1, <1>2, <1>3, <1>4, <1>5, <1>6, <1>7, <1>8, <1>9, <1>10, <1>11
     DEF Next

(* Every reachable state of every workspace satisfies the strengthening:   *)
(* the variables are typed, a locked vine is live, an anchor is compressed *)
(* exactly while its vine is faded, and no twilight bookkeeping outlives   *)
(* the twilight window.                                                    *)
THEOREM WorkspaceInvariant == Spec => []IInv
  BY InitIInv, NextIInv, PTL DEF Spec

(* Amber Locks are safe for every capacity, scorer and schedule: no        *)
(* run_decay_cycle, prune_evicted or restart leaves a locked vine evicted. *)
THEOREM AmberLocksHold == Spec => []LockedIsLive
<1>1. IInv => LockedIsLive
  BY DEF IInv
<1> QED
  BY <1>1, WorkspaceInvariant, PTL

(* No decay cycle ever meets a released anchor it would have to compress.  *)
THEOREM AnchorsRecoverable == Spec => []CompressedIffFaded
<1>1. IInv => CompressedIffFaded
  BY DEF IInv
<1> QED
  BY <1>1, WorkspaceInvariant, PTL

-----------------------------------------------------------------------------
(* Refinement of Lifecycle *)

LEMMA InitImplements == Init => L!LifecycleInit
  BY DEF Init, L!LifecycleInit

LEMMA DecayImplements ==
  ASSUME IInv, NEW sc \in [Ids -> Scores], NEW ov \in Overrides,
         RunDecayCycle(sc, ov)
  PROVE  L!LDecay
<1> PICK E \in CapacityEvictions(sc, ov) :
      state' = [v \in Ids |-> IF v \in E THEN "evicted"
                              ELSE Decayed(v, sc, ov)]
  BY DEF RunDecayCycle
<1> VinesTyped
  BY DEF IInv
<1>1. state' \in [Ids -> L!VineState]
  BY DecayedEdges DEF L!VineState
<1>2. L!DecayRelation(state, locked, state')
  <2> SUFFICES ASSUME NEW v \in Ids
               PROVE  \/ state'[v] = state[v]
                      \/ v \notin locked /\ <<state[v], state'[v]>> \in L!DecayEdges
    BY DEF L!DecayRelation
  <2>1. CASE v \in E
    BY <2>1, EvictionsUnlocked DEF L!DecayEdges, LiveStates, L!LiveStates
  <2>2. CASE v \notin E
    BY <2>2, DecayedEdges
  <2> QED
    BY <2>1, <2>2
<1> QED
  BY <1>1, <1>2 DEF L!LDecay, RunDecayCycle

LEMMA DropImplements ==
  ASSUME NEW S \in SUBSET Ids, Drop(S)
  PROVE  L!LRelease(S)
  BY DEF Drop, L!LRelease

LEMMA NextImplements ==
  IInv /\ [Next]_vars => [L!LifecycleNext]_(L!lifecycleVars)
<1> SUFFICES ASSUME IInv, [Next]_vars
             PROVE  L!LifecycleNext \/ UNCHANGED L!lifecycleVars
  OBVIOUS
<1>1. CASE Tick
  BY <1>1 DEF Tick, L!lifecycleVars
<1>2. ASSUME NEW v \in Ids, Add(v) PROVE L!LSprout(v)
  BY <1>2 DEF Add, L!LSprout
<1>3. ASSUME NEW v \in Ids, Remove(v) PROVE L!LRelease({v})
  BY <1>3, DropImplements DEF Remove
<1>4. ASSUME NEW v \in Ids, Lock(v) PROVE L!LLock(v)
  BY <1>4 DEF Lock, L!LLock, LiveStates
<1>5. ASSUME NEW v \in Ids, Unlock(v) PROVE L!LUnlock(v)
  BY <1>5 DEF Unlock, L!LUnlock
<1>6. ASSUME NEW v \in Ids, Reinforce(v)
      PROVE  L!LReinforce(v) \/ UNCHANGED L!lifecycleVars
  BY <1>6 DEF Reinforce, L!LReinforce, L!lifecycleVars
<1>7. ASSUME NEW S \in SUBSET Ids, PruneEvicted(S) PROVE L!LRelease(S)
  BY <1>7, DropImplements DEF PruneEvicted
<1>8. ASSUME NEW s \in CrestLists, SetCrests(s) PROVE UNCHANGED L!lifecycleVars
  BY <1>8 DEF SetCrests, L!lifecycleVars
<1>9. ASSUME NEW sc \in [Ids -> Scores], NEW ov \in Overrides,
             RunDecayCycle(sc, ov)
      PROVE  L!LDecay
  BY <1>9, DecayImplements
<1>10. CASE Restart
  BY <1>10 DEF Restart, L!lifecycleVars
<1>11. CASE UNCHANGED vars
  BY <1>11 DEF vars, L!lifecycleVars
<1> QED
  BY <1>1, <1>2, <1>3, <1>4, <1>5, <1>6, <1>7, <1>8, <1>9, <1>10, <1>11
     DEF Next, L!LifecycleNext

(* Whatever the scorer, the clock, the capacity and the caller's counters  *)
(* do, a vine only ever moves along the edges of Lifecycle, and a locked   *)
(* one does not move at all.                                               *)
THEOREM WorkspaceRefinesLifecycle == Spec => ImplementsLifecycle
  BY InitImplements, NextImplements, WorkspaceInvariant, PTL
     DEF Spec, ImplementsLifecycle, L!LifecycleSpec

-----------------------------------------------------------------------------
(* The crests                                                              *)

\* A set of naturals that is not empty has a least element.
LEMMA Least ==
  ASSUME NEW B, B \subseteq Nat, B # {}
  PROVE  \E n \in B : \A m \in B : n <= m
<1>1. PICK n \in B : \A m \in B : ~(<<m, n>> \in OpToRel(<, Nat))
  BY NatLessThanWellFounded, WFMin
<1>2. \A m \in B : ~(m < n)
  BY <1>1 DEF OpToRel
<1> QED  BY <1>2

\* What is left of a list of vines is a list of vines.
LEMMA WithoutTyped ==
  ASSUME NEW s \in Seq(Ids), NEW S
  PROVE  L!Without(s, S) \in Seq(Ids)
<1> DEFINE Step(g, n) == IF n = 0 THEN <<>>
                         ELSE IF s[n] \in S THEN g[n - 1]
                         ELSE Append(g[n - 1], s[n])
           kept == CHOOSE g : g = [n \in 0 .. Len(s) |-> Step(g, n)]
<1>0. Len(s) \in Nat /\ \A n \in 1 .. Len(s) : s[n] \in Ids
  OBVIOUS
<1>1. \A m \in 0 .. Len(s) : \E g : g = [n \in 0 .. m |-> Step(g, n)]
  <2> DEFINE Bad == {m \in 0 .. Len(s) : ~\E g : g = [n \in 0 .. m |-> Step(g, n)]}
  <2> SUFFICES ASSUME Bad # {} PROVE FALSE
    OBVIOUS
  <2>1. PICK m \in Bad : \A k \in Bad : m <= k
    <3>1. Bad \subseteq Nat
      BY <1>0
    <3> HIDE DEF Bad
    <3> QED  BY <3>1, Least
  <2>2. CASE m = 0
    <3> DEFINE h == [n \in 0 .. 0 |-> <<>>]
    <3>1. h = [n \in 0 .. 0 |-> Step(h, n)]
      OBVIOUS
    <3> QED  BY <3>1, <2>1, <2>2
  <2>3. CASE m # 0
    <3>0. m \in 1 .. Len(s) /\ m - 1 \in 0 .. Len(s) /\ ~(m <= m - 1)
      BY <2>1, <2>3, <1>0
    <3>1. m \in 1 .. Len(s) /\ m - 1 \in 0 .. Len(s) /\ m - 1 \notin Bad
      <4> HIDE DEF Bad
      <4> QED  BY <3>0, <2>1
    <3>2. PICK g : g = [n \in 0 .. (m - 1) |-> Step(g, n)]
      BY <3>1
    <3> DEFINE h == [n \in 0 .. m |-> IF n = m THEN Step(g, m) ELSE g[n]]
    <3>3. ASSUME NEW n \in 0 .. m PROVE h[n] = Step(h, n)
      <4>1. CASE n = 0
        BY <4>1, <3>1, <3>2, <1>0
      <4>2. CASE n # 0
        <5>1. n - 1 \in 0 .. (m - 1) /\ n - 1 # m /\ h[n - 1] = g[n - 1]
          BY <4>2, <3>1, <1>0
        <5>2. h[n] = Step(g, n)
          <6>1. CASE n = m
            BY <6>1
          <6>2. CASE n # m
            <7>1. n \in 0 .. (m - 1) /\ h[n] = g[n]
              BY <6>2, <3>1, <1>0
            <7> QED  BY <7>1, <3>2
          <6> QED  BY <6>1, <6>2
        <5> QED  BY <5>1, <5>2, <4>2
      <4> QED  BY <4>1, <4>2
    <3>4. h = [n \in 0 .. m |-> Step(h, n)]
      BY <3>3
    <3> HIDE DEF h
    <3> QED  BY <3>4, <2>1
  <2> QED  BY <2>2, <2>3
<1>2. kept = [n \in 0 .. Len(s) |-> Step(kept, n)]
  <2> DEFINE Has(m) == \E g : g = [n \in 0 .. m |-> Step(g, n)]
  <2>1. Has(Len(s))
    <3>1. Len(s) \in 0 .. Len(s)
      BY <1>0
    <3>2. \A m \in 0 .. Len(s) : Has(m)
      BY <1>1
    <3> HIDE DEF Has
    <3> QED  BY <3>1, <3>2
  <2> QED  BY <2>1
<1>3. L!Without(s, S) = kept[Len(s)]
  BY DEF L!Without
<1> HIDE DEF kept
<1>4. \A n \in 0 .. Len(s) : kept[n] \in Seq(Ids)
  <2> DEFINE Bad == {n \in 0 .. Len(s) : kept[n] \notin Seq(Ids)}
  <2> SUFFICES ASSUME Bad # {} PROVE FALSE
    OBVIOUS
  <2>1. PICK m \in Bad : \A k \in Bad : m <= k
    <3>1. Bad \subseteq Nat
      BY <1>0
    <3> HIDE DEF Bad
    <3> QED  BY <3>1, Least
  <2>2. kept[m] = Step(kept, m)
    BY <1>2, <2>1
  <2>3. CASE m = 0
    <3>1. kept[m] = <<>>
      BY <2>2, <2>3
    <3>2. << >> \in Seq(Ids)
      OBVIOUS
    <3> QED  BY <2>1, <3>1, <3>2
  <2>4. CASE m # 0
    <3>1. m \in 1 .. Len(s) /\ m - 1 \in 0 .. Len(s) /\ m - 1 \notin Bad
      BY <2>1, <2>4, <1>0
    <3>2. kept[m - 1] \in Seq(Ids)
      BY <3>1
    <3>3. Append(kept[m - 1], s[m]) \in Seq(Ids)
      BY <3>1, <3>2, <1>0
    <3> QED  BY <2>1, <2>2, <2>4, <3>2, <3>3
  <2> QED  BY <2>3, <2>4
<1> QED  BY <1>3, <1>4, <1>0

\* The crests a step leaves are vines again.
LEMMA CrestsNext ==
  ASSUME IInv, crests \in Seq(Ids), [Next]_vars
  PROVE  (crests \in Seq(Ids))'
<1>1. ASSUME NEW S \in SUBSET Ids, Drop(S) PROVE crests' \in Seq(Ids)
  BY <1>1, WithoutTyped DEF Drop, CrestsWithout
<1>2. ASSUME NEW s \in CrestLists, SetCrests(s) PROVE crests' \in Seq(Ids)
  BY <1>2, WorkspaceAssumption DEF SetCrests, CrestLists
<1>3. CASE crests' = crests
  BY <1>3
<1> QED
  BY <1>1, <1>2, <1>3 DEF Next, vars, Tick, Add, Remove, Lock, Unlock,
     Reinforce, PruneEvicted, RunDecayCycle, Restart

(* The workspace is well-typed: whatever is dropped, locked, reinforced or *)
(* decayed, every counter is a natural or absent and the crests are vines. *)
THEOREM WorkspaceTyped == Spec => []TypeOK
<1>1. Init => crests \in Seq(Ids)
  BY DEF Init
<1>2. IInv /\ crests \in Seq(Ids) /\ [Next]_vars => (crests \in Seq(Ids))'
  BY CrestsNext
<1>3. Spec => [](crests \in Seq(Ids))
  BY <1>1, <1>2, WorkspaceInvariant, PTL DEF Spec
<1>4. IInv /\ crests \in Seq(Ids) => TypeOK
  BY DEF IInv, TypeOK
<1> QED
  BY <1>3, <1>4, WorkspaceInvariant, PTL

-----------------------------------------------------------------------------
(* The capacity ceiling                                                    *)

LEMMA MinOfTwo ==
  ASSUME NEW a \in Int, NEW b \in Int
  PROVE  Min({a, b}) = IF a <= b THEN a ELSE b
BY DEF Min

LEMMA MaxOfTwo ==
  ASSUME NEW a \in Int, NEW b \in Int
  PROVE  Max({a, b}) = IF a >= b THEN a ELSE b
BY DEF Max

LEMMA SubsetsFinite ==
  ASSUME NEW S \in SUBSET Ids
  PROVE  IsFiniteSet(S) /\ Cardinality(S) \in Nat
BY WorkspaceAssumption, FS_Subset, FS_CardinalityType

\* What the capacity eviction of a decay cycle leaves live: everything when
\* there was room, Capacity vines when enough were unlocked, and otherwise
\* only locked ones.
LEMMA CapacityLeaves ==
  ASSUME VinesTyped, NEW sc, NEW ov, NEW E \in CapacityEvictions(sc, ov)
  PROVE  LET left == LiveAfter(sc, ov) \ E
         IN /\ Cardinality(left) <= Capacity \/ left \subseteq locked
            /\ E # {} => Cardinality(left) >= Capacity
<1> DEFINE A == LiveAfter(sc, ov)
           C == Candidates(sc, ov)
<1>1. E \subseteq C /\ C \subseteq A /\ A \subseteq Ids /\ A \ C \subseteq locked
  BY DEF CapacityEvictions, Candidates, LiveAfter
<1>2. /\ Cardinality(E) = Max({0, Min({Cardinality(A) - Capacity, Cardinality(C)})})
      /\ Cardinality(A) \in Nat /\ Cardinality(C) \in Nat /\ Cardinality(E) \in Nat
      /\ IsFiniteSet(A) /\ IsFiniteSet(C) /\ IsFiniteSet(E)
      /\ Capacity \in Nat
  BY <1>1, SubsetsFinite, WorkspaceAssumption DEF CapacityEvictions, Overflow
<1> HIDE DEF A, C
<1>3. Cardinality(A \ E) = Cardinality(A) - Cardinality(E)
  <2>1. A \cap E = E
    BY <1>1
  <2>2. Cardinality(A \ E) = Cardinality(A) - Cardinality(A \cap E)
    BY <1>2, FS_Difference, Zenon
  <2> QED  BY <2>1, <2>2
<1> DEFINE over == Cardinality(A) - Capacity
           n == Cardinality(C)
<1>4. Cardinality(E) = LET m == IF over <= n THEN over ELSE n
                       IN IF 0 >= m THEN 0 ELSE m
  <2>1. over \in Int /\ n \in Int
    BY <1>2
  <2> HIDE DEF over, n
  <2>2. Min({over, n}) = IF over <= n THEN over ELSE n
    BY <2>1, MinOfTwo
  <2>3. Min({over, n}) \in Int
    BY <2>1, <2>2
  <2>4. Max({0, Min({over, n})}) = IF 0 >= Min({over, n}) THEN 0 ELSE Min({over, n})
    BY <2>3, MaxOfTwo
  <2>5. Cardinality(E) = Max({0, Min({over, n})})
    BY <1>2 DEF over, n
  <2> QED  BY <2>2, <2>4, <2>5
<1>5. E # {} => Cardinality(E) > 0
  BY <1>2, FS_EmptySet
<1>6. E # {} => Cardinality(A \ E) >= Capacity
  BY <1>2, <1>3, <1>4, <1>5
<1>7. Cardinality(A \ E) <= Capacity \/ A \ E \subseteq locked
  <2>1. CASE over <= n
    BY <2>1, <1>2, <1>3, <1>4
  <2>2. CASE ~(over <= n)
    <3>1. Cardinality(E) = Cardinality(C)
      BY <2>2, <1>2, <1>4
    <3>2. E = C
      BY <3>1, <1>1, <1>2, FS_Subset
    <3> QED  BY <3>2, <1>1
  <2> QED  BY <2>1, <2>2
<1> QED
  BY <1>6, <1>7 DEF A

\* The live vines after a decay cycle that evicted E for the capacity.
LEMMA LiveNext ==
  ASSUME VinesTyped, NEW sc, NEW ov, NEW E \in CapacityEvictions(sc, ov),
         state' = [v \in Ids |-> IF v \in E THEN "evicted"
                                 ELSE Decayed(v, sc, ov)]
  PROVE  Live' = LiveAfter(sc, ov) \ E
BY DEF Live, LiveAfter, LiveStates, L!LiveStates

\* Only a decay cycle demotes or evicts.
LEMMA OnlyDecayFades ==
  ASSUME VinesTyped, [Next]_vars, NEW v \in Ids,
         state'[v] \in {"twilight", "evicted"}, state'[v] # state[v]
  PROVE  \E sc \in [Ids -> Scores] : \E ov \in Overrides : RunDecayCycle(sc, ov)
<1> USE DEF VinesTyped
<1>1. ASSUME NEW S \in SUBSET Ids, Drop(S) PROVE FALSE
  BY <1>1 DEF Drop
<1>2. ASSUME NEW w \in Ids, Add(w) PROVE FALSE
  BY <1>2 DEF Add
<1>3. ASSUME NEW w \in Ids, Reinforce(w) PROVE FALSE
  BY <1>3 DEF Reinforce
<1>4. CASE state' = state
  BY <1>4
<1> QED
  BY <1>1, <1>2, <1>3, <1>4 DEF Next, vars, Tick, Remove, Lock, Unlock,
     PruneEvicted, SetCrests, Restart

LEMMA CapacityStep ==
  IInv /\ [Next]_vars =>
    [(\E v \in Ids : <<state[v], state'[v]>> \in
                       {<<"active", "twilight">>, <<"active", "evicted">>,
                        <<"twilight", "evicted">>}) =>
       Cardinality(Live') <= Max({Capacity, Cardinality(locked)})]_vars
<1> SUFFICES ASSUME IInv, [Next]_vars, NEW v \in Ids,
                    <<state[v], state'[v]>> \in
                      {<<"active", "twilight">>, <<"active", "evicted">>,
                       <<"twilight", "evicted">>}
             PROVE  Cardinality(Live') <= Max({Capacity, Cardinality(locked)})
  OBVIOUS
<1> VinesTyped
  BY DEF IInv
<1>1. PICK sc \in [Ids -> Scores], ov \in Overrides : RunDecayCycle(sc, ov)
  <2>1. state'[v] \in {"twilight", "evicted"} /\ state'[v] # state[v]
    OBVIOUS
  <2> QED  BY <2>1, OnlyDecayFades
<1>2. PICK E \in CapacityEvictions(sc, ov) :
        state' = [w \in Ids |-> IF w \in E THEN "evicted" ELSE Decayed(w, sc, ov)]
  BY <1>1 DEF RunDecayCycle
<1>3. Live' = LiveAfter(sc, ov) \ E
  BY <1>2, LiveNext
<1>4. Cardinality(Live') <= Capacity \/ Live' \subseteq locked
  BY <1>3, CapacityLeaves
<1>5. /\ Capacity \in Int /\ Cardinality(locked) \in Int
      /\ Cardinality(Live') \in Int
  <2>1. locked \subseteq Ids /\ Live' \subseteq Ids
    BY DEF VinesTyped, Live
  <2> QED  BY <2>1, SubsetsFinite, WorkspaceAssumption
<1>6. Live' \subseteq locked => Cardinality(Live') <= Cardinality(locked)
  <2>1. IsFiniteSet(locked)
    BY SubsetsFinite DEF VinesTyped
  <2> QED  BY <2>1, FS_Subset
<1> QED
  BY <1>4, <1>5, <1>6, MaxOfTwo

(* A decay cycle that demotes or evicts anything leaves the workspace      *)
(* within its capacity but for locked vines: _enforce_capacity takes as    *)
(* many of the lowest as it must, for every number of vines and locks.     *)
THEOREM CapacityCeilingHolds == Spec => CapacityHeld
  BY CapacityStep, WorkspaceInvariant, PTL DEF Spec, CapacityHeld

-----------------------------------------------------------------------------
(* What a vine went through before it is evicted                           *)

\* The history of a vine that is out of the active state matches its
\* bookkeeping: it was scored too low once more often than its counter says,
\* and its window began with the first of those scores.
HistoryMatches ==
  /\ low \in [Ids -> Nat]
  /\ DOMAIN fadedAt = Ids
  /\ \A v \in Ids :
       /\ state[v] = "active" => low[v] = 0
       /\ state[v] = "twilight" =>
            /\ low[v] > 0 /\ low[v] > cycles[v]
            /\ since[v] # None /\ fadedAt[v] = since[v]

HInv == IInv /\ HistoryMatches

LEMMA HistoryInitMatches == HistoryInit => HInv
  BY InitIInv DEF HistoryInit, HInv, HistoryMatches, Init

LEMMA HistoryNextIsNext == [HistoryNext]_historyVars => [Next]_vars
  BY DEF HistoryNext, historyVars, HistoryDecay, Next, vars

\* Between decay cycles a vine keeps its history until it is back.
LEMMA SettledMatches ==
  ASSUME HInv, Settled,
         \A v \in Ids : state'[v] = "twilight" =>
           /\ state[v] = "twilight" /\ since'[v] = since[v]
           /\ cycles'[v] = cycles[v] \/ (cycles[v] = 0 /\ cycles'[v] = None)
  PROVE  HistoryMatches'
<1> USE DEF HInv, HistoryMatches, Settled, None
<1>1. low' \in [Ids -> Nat] /\ DOMAIN fadedAt' = Ids
  OBVIOUS
<1>2. ASSUME NEW v \in Ids, state'[v] = "active" PROVE low'[v] = 0
  BY <1>2
<1>3. ASSUME NEW v \in Ids, state'[v] = "twilight"
      PROVE  /\ low'[v] > 0 /\ low'[v] > cycles'[v]
             /\ since'[v] # None /\ fadedAt'[v] = since'[v]
  <2>1. state[v] = "twilight" /\ low[v] \in Nat
    BY <1>3
  <2>2. low'[v] = low[v] /\ low[v] > 0
    BY <1>3, <2>1
  <2>3. fadedAt'[v] = fadedAt[v]
    BY <2>1, <2>2
  <2> QED  BY <1>3, <2>1, <2>2, <2>3
<1> QED
  BY <1>1, <1>2, <1>3

LEMMA DecayMatches ==
  ASSUME HInv, NEW sc \in [Ids -> Scores], NEW ov \in Overrides,
         HistoryDecay(sc, ov)
  PROVE  HistoryMatches'
<1> VinesTyped /\ HistoryMatches /\ sc \in [Ids -> Int]
  BY WorkspaceAssumption DEF HInv, IInv
<1> PICK E \in CapacityEvictions(sc, ov) :
      /\ state' = [v \in Ids |-> IF v \in E THEN "evicted"
                                 ELSE Decayed(v, sc, ov)]
      /\ cycles' = [v \in Ids |-> CyclesAfter(v, sc, ov, E)]
  BY DEF HistoryDecay, RunDecayCycle
<1>0. \A v \in Ids : ov[v] \in Nat \cup {None}
  BY WorkspaceAssumption DEF Overrides
<1>1. low' \in [Ids -> Nat] /\ DOMAIN fadedAt' = Ids
  BY <1>0 DEF HistoryDecay, HistoryMatches
<1>2. ASSUME NEW v \in Ids, state'[v] = "active" PROVE low'[v] = 0
  <2>1. Decayed(v, sc, ov) = "active"
    BY <1>2
  <2>2. CASE Subject(v)
    <3>1. sc[v] >= TWILIGHT_THRESHOLD
      BY <2>1, <2>2 DEF Decayed, SnapsBack, Fades, Lingers, Subject,
         LiveStates, L!LiveStates, TWILIGHT_THRESHOLD
    <3> QED  BY <3>1, <2>2 DEF HistoryDecay
  <2>3. CASE ~Subject(v)
    <3>1. state[v] = "active"
      BY <2>1, <2>3 DEF Decayed, SnapsBack, Fades, Lingers
    <3> QED  BY <3>1, <2>3 DEF HistoryDecay, HistoryMatches
  <2> QED  BY <2>2, <2>3
<1>3. ASSUME NEW v \in Ids, state'[v] = "twilight"
      PROVE  /\ low'[v] > 0 /\ low'[v] > cycles'[v]
             /\ since'[v] # None /\ fadedAt'[v] = since'[v]
  <2>1. v \notin E /\ Decayed(v, sc, ov) = "twilight"
    BY <1>3
  <2>2. /\ since'[v] = IF SnapsBack(v, sc) THEN None
                       ELSE IF Fades(v, sc) THEN now
                       ELSE IF Lingers(v, sc) THEN TwilightSince(v)
                       ELSE since[v]
        /\ cycles'[v] = CyclesAfter(v, sc, ov, E)
        /\ low'[v] = IF ~Subject(v) THEN low[v]
                     ELSE IF sc[v] >= TWILIGHT_THRESHOLD THEN 0
                     ELSE IF low[v] > 0 /\ ov[v] # None THEN ov[v] + 1
                     ELSE low[v] + 1
        /\ fadedAt'[v] = IF Subject(v) /\ low[v] = 0 THEN now ELSE fadedAt[v]
    BY DEF HistoryDecay, RunDecayCycle
  <2>3. /\ low[v] \in Nat /\ now \in Nat
        /\ state[v] = "active" => low[v] = 0
        /\ state[v] = "twilight" =>
             /\ low[v] > 0 /\ low[v] > cycles[v]
             /\ since[v] # None /\ fadedAt[v] = since[v]
    BY DEF HistoryMatches, VinesTyped
  <2>4. CASE Fades(v, sc)
    <3>1. Subject(v) /\ low[v] = 0 /\ ~(sc[v] >= TWILIGHT_THRESHOLD)
            /\ ~SnapsBack(v, sc)
      BY <2>4, <2>3 DEF Fades, SnapsBack, TWILIGHT_THRESHOLD
    <3>2. cycles'[v] = 0 /\ low'[v] = 1 /\ since'[v] = now /\ fadedAt'[v] = now
      BY <3>1, <2>1, <2>2, <2>4 DEF CyclesAfter
    <3> QED  BY <3>2, <2>3 DEF None
  <2>5. CASE Lingers(v, sc)
    <3>1. /\ Subject(v) /\ state[v] = "twilight"
          /\ ~(sc[v] >= TWILIGHT_THRESHOLD) /\ ~SnapsBack(v, sc) /\ ~Fades(v, sc)
      BY <2>5 DEF Lingers, Fades, SnapsBack, TWILIGHT_THRESHOLD
    <3>2. since'[v] = since[v] /\ fadedAt'[v] = fadedAt[v]
      BY <3>1, <2>2, <2>3, <2>5 DEF TwilightSince
    <3>3. cycles'[v] = NextCycles(v, ov)
      BY <3>1, <2>1, <2>2, <2>5 DEF CyclesAfter
    <3>4. low'[v] = IF ov[v] # None THEN ov[v] + 1 ELSE low[v] + 1
      BY <3>1, <2>2, <2>3
    <3>5. cycles[v] \in Nat \cup {None}
      BY DEF VinesTyped
    <3>6. low'[v] > 0 /\ low'[v] > cycles'[v]
      BY <3>1, <3>3, <3>4, <3>5, <2>3, <1>0 DEF NextCycles, None
    <3> QED  BY <3>1, <3>2, <3>6, <2>3
  <2>6. CASE ~Fades(v, sc) /\ ~Lingers(v, sc)
    <3>1. state[v] = "twilight" /\ ~SnapsBack(v, sc)
      BY <2>1, <2>6 DEF Decayed
    <3>2. ~Subject(v)
      BY <3>1, <2>6 DEF Lingers, SnapsBack, TWILIGHT_THRESHOLD
    <3> QED  BY <3>1, <3>2, <2>1, <2>2, <2>3, <2>6 DEF CyclesAfter
  <2> QED
    BY <2>4, <2>5, <2>6
<1> QED
  BY <1>1, <1>2, <1>3 DEF HistoryMatches

LEMMA HistoryNextMatches == HInv /\ [HistoryNext]_historyVars => HInv'
<1> SUFFICES ASSUME HInv, [HistoryNext]_historyVars PROVE HInv'
  OBVIOUS
<1>0. IInv' /\ IInv
  BY HistoryNextIsNext, NextIInv DEF HInv
<1> USE DEF HInv
<1>1. CASE Tick /\ Settled
  BY <1>0, <1>1, SettledMatches DEF Tick
<1>2. ASSUME NEW v \in Ids, Add(v), Settled PROVE HInv'
  BY <1>0, <1>2, SettledMatches DEF Add, IInv, VinesTyped
<1>3. ASSUME NEW S \in SUBSET Ids, Drop(S), Settled PROVE HInv'
  BY <1>0, <1>3, SettledMatches DEF Drop
<1>4. ASSUME NEW v \in Ids, Lock(v) \/ Unlock(v), Settled PROVE HInv'
  BY <1>0, <1>4, SettledMatches DEF Lock, Unlock
<1>5. ASSUME NEW v \in Ids, Reinforce(v), Settled PROVE HInv'
  <2>1. \A w \in Ids : state'[w] = "twilight" =>
           /\ state[w] = "twilight" /\ since'[w] = since[w]
           /\ cycles'[w] = cycles[w]
    BY <1>0, <1>5 DEF Reinforce, IInv, VinesTyped
  <2> QED  BY <1>0, <1>5, <2>1, SettledMatches
<1>6. ASSUME NEW s \in CrestLists, SetCrests(s), Settled PROVE HInv'
  BY <1>0, <1>6, SettledMatches DEF SetCrests
<1>7. ASSUME NEW sc \in [Ids -> Scores], NEW ov \in Overrides,
             HistoryDecay(sc, ov)
      PROVE  HInv'
  BY <1>0, <1>7, DecayMatches
<1>8. CASE Restart /\ Settled
  BY <1>0, <1>8, SettledMatches DEF Restart
<1>9. CASE UNCHANGED historyVars
  BY <1>0, <1>9 DEF historyVars, vars, HistoryMatches
<1> QED
  BY <1>1, <1>2, <1>3, <1>4, <1>5, <1>6, <1>7, <1>8, <1>9
     DEF HistoryNext, Remove, PruneEvicted

\* An eviction of a decay cycle is either earned by the vine or takes it for
\* the capacity.
LEMMA EvictionCause ==
  ASSUME HInv, NEW sc \in [Ids -> Scores], NEW ov \in Overrides,
         HistoryDecay(sc, ov), NEW E \in CapacityEvictions(sc, ov),
         state' = [v \in Ids |-> IF v \in E THEN "evicted"
                                 ELSE Decayed(v, sc, ov)],
         NEW v \in Ids, state[v] \in LiveStates, state'[v] = "evicted"
  PROVE  \/ low'[v] > TwilightCycles /\ now - fadedAt[v] >= TwilightTicks
         \/ v \in E
<1> SUFFICES ASSUME v \notin E
             PROVE  low'[v] > TwilightCycles /\ now - fadedAt[v] >= TwilightTicks
  OBVIOUS
<1> VinesTyped /\ HistoryMatches /\ sc \in [Ids -> Int]
  BY WorkspaceAssumption DEF HInv, IInv
<1>1. Lingers(v, sc) /\ TwilightExpired(v, ov)
  BY DEF Decayed, LiveStates, L!LiveStates
<1>2. /\ Subject(v) /\ state[v] = "twilight" /\ ~(sc[v] >= TWILIGHT_THRESHOLD)
  BY <1>1 DEF Lingers, TWILIGHT_THRESHOLD
<1>3. /\ low[v] \in Nat /\ low[v] > 0 /\ low[v] > cycles[v]
      /\ since[v] # None /\ fadedAt[v] = since[v]
  BY <1>2 DEF HistoryMatches
<1>4. now - fadedAt[v] >= TwilightTicks
  BY <1>1, <1>3 DEF TwilightExpired, TwilightSince
<1>5. NextCycles(v, ov) >= TwilightCycles
  BY <1>1 DEF TwilightExpired
<1>6. low'[v] = IF ov[v] # None THEN ov[v] + 1 ELSE low[v] + 1
  BY <1>2, <1>3 DEF HistoryDecay
<1>7. cycles[v] \in Nat \cup {None} /\ ov[v] \in Nat \cup {None}
        /\ TwilightCycles \in Nat
  BY WorkspaceAssumption DEF VinesTyped, Overrides
<1>8. low'[v] > TwilightCycles
  BY <1>3, <1>5, <1>6, <1>7 DEF NextCycles, None
<1> QED
  BY <1>4, <1>8

\* A step of the history that evicts is a decay cycle.
LEMMA OnlyDecayEvicts ==
  ASSUME HInv, [HistoryNext]_historyVars, NEW v \in Ids,
         state[v] \in LiveStates, state'[v] = "evicted"
  PROVE  \E sc \in [Ids -> Scores] : \E ov \in Overrides : HistoryDecay(sc, ov)
<1> VinesTyped
  BY DEF HInv, IInv
<1> USE DEF VinesTyped, LiveStates, L!LiveStates
<1>1. ASSUME NEW S \in SUBSET Ids, Drop(S) PROVE FALSE
  BY <1>1 DEF Drop
<1>2. ASSUME NEW w \in Ids, Add(w) PROVE FALSE
  BY <1>2 DEF Add
<1>3. ASSUME NEW w \in Ids, Reinforce(w) PROVE FALSE
  BY <1>3 DEF Reinforce
<1>4. CASE state' = state
  BY <1>4
<1> QED
  BY <1>1, <1>2, <1>3, <1>4 DEF HistoryNext, historyVars, vars, Tick, Remove,
     Lock, Unlock, PruneEvicted, SetCrests, Restart

LEMMA EarnedStep ==
  ASSUME HInv, [HistoryNext]_historyVars, NEW v \in Ids,
         state[v] \in LiveStates, state'[v] = "evicted"
  PROVE  \/ /\ low'[v] > TwilightCycles
            /\ now - fadedAt[v] >= TwilightTicks
         \/ Cardinality(Live') >= Capacity
<1> VinesTyped
  BY DEF HInv, IInv
<1>1. PICK sc \in [Ids -> Scores], ov \in Overrides : HistoryDecay(sc, ov)
  BY OnlyDecayEvicts
<1>2. PICK E \in CapacityEvictions(sc, ov) :
        state' = [w \in Ids |-> IF w \in E THEN "evicted" ELSE Decayed(w, sc, ov)]
  BY <1>1 DEF HistoryDecay, RunDecayCycle
<1>3. \/ low'[v] > TwilightCycles /\ now - fadedAt[v] >= TwilightTicks
      \/ v \in E
  BY <1>1, <1>2, EvictionCause
<1>4. v \in E => Cardinality(Live') >= Capacity
  <2>1. Live' = LiveAfter(sc, ov) \ E
    BY <1>2, LiveNext
  <2> QED  BY <2>1, CapacityLeaves
<1> QED
  BY <1>3, <1>4

LEMMA LowestStep ==
  ASSUME HInv, [HistoryNext]_historyVars, NEW v \in Ids, NEW w \in Ids,
         state[v] \in LiveStates, state'[v] = "evicted",
         ~(low'[v] > TwilightCycles /\ now - fadedAt[v] >= TwilightTicks),
         state'[w] \in LiveStates, w \notin locked
  PROVE  score'[v] <= score'[w]
<1> VinesTyped
  BY DEF HInv, IInv
<1>1. PICK sc \in [Ids -> Scores], ov \in Overrides : HistoryDecay(sc, ov)
  BY OnlyDecayEvicts
<1>2. PICK E \in CapacityEvictions(sc, ov) :
        state' = [u \in Ids |-> IF u \in E THEN "evicted" ELSE Decayed(u, sc, ov)]
  BY <1>1 DEF HistoryDecay, RunDecayCycle
<1>3. v \in E
  BY <1>1, <1>2, EvictionCause
<1>4. w \in Candidates(sc, ov) \ E
  BY <1>2 DEF Candidates, LiveAfter, LiveStates, L!LiveStates
<1>5. RanksBefore(v, w, sc)
  BY <1>3, <1>4 DEF CapacityEvictions
<1>6. \A u \in Ids : Scored(u, sc) \in Int
  <2>1. sc \in [Ids -> Int] /\ score \in [Ids -> Int]
    BY WorkspaceAssumption DEF VinesTyped
  <2> QED  BY <2>1 DEF Scored, Bonused, REINFORCEMENT_BONUS, FullScore
<1>7. score'[v] = Scored(v, sc) /\ score'[w] = Scored(w, sc)
  BY <1>1 DEF HistoryDecay, RunDecayCycle
<1> QED
  BY <1>5, <1>6, <1>7 DEF RanksBefore

\* Every behaviour with its history is one of the workspace, and keeps the
\* strengthening.
LEMMA HistoryInvariant == HistorySpec => []HInv
  BY HistoryInitMatches, HistoryNextMatches, PTL DEF HistorySpec

(* "5 query cycles or 30 minutes, whichever is longer", for every window,  *)
(* every scorer and every count a caller passes: run_decay_cycle takes a   *)
(* vine out of L1 only after more than TwilightCycles low scores in a row  *)
(* over at least TwilightTicks, or while the workspace stays full.         *)
THEOREM EvictionsAreEarned == HistorySpec => EvictionEarned
<1>1. HInv /\ [HistoryNext]_historyVars =>
        [\A v \in Ids :
           state[v] \in LiveStates /\ state'[v] = "evicted" =>
             \/ /\ low'[v] > TwilightCycles
                /\ now - fadedAt[v] >= TwilightTicks
             \/ Cardinality(Live') >= Capacity]_historyVars
  BY EarnedStep
<1> QED
  BY <1>1, HistoryInvariant, PTL DEF HistorySpec, EvictionEarned

(* _enforce_capacity takes the least valuable of the unlocked vines: one   *)
(* that is evicted before its time is scored no higher than any that stays *)
(* and could have been taken instead.                                      *)
THEOREM CapacityTakesTheLowest == HistorySpec => CapacityTakesLowest
<1>1. HInv /\ [HistoryNext]_historyVars =>
        [\A v, w \in Ids :
           /\ state[v] \in LiveStates /\ state'[v] = "evicted"
           /\ ~(low'[v] > TwilightCycles /\ now - fadedAt[v] >= TwilightTicks)
           /\ state'[w] \in LiveStates /\ w \notin locked
           => score'[v] <= score'[w]]_historyVars
  BY LowestStep
<1> QED
  BY <1>1, HistoryInvariant, PTL DEF HistorySpec, CapacityTakesLowest
=============================================================================
