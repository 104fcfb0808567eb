------------------------------ MODULE Workspace ------------------------------
(***************************************************************************)
(* The Level 1 active workspace (workspace.py): the vines, the decay loop, *)
(* Amber Locks, focal crests, the capacity ceiling and the pruning of      *)
(* evicted vines.  One RLock guards every method, so a method is one step. *)
(*                                                                         *)
(* A Vine's anchor is abstracted to whether it is held compressed; the     *)
(* scorer (proximity_score, or the Oracle's shield-aware scorer) to an     *)
(* arbitrary choice of a score per live vine, in hundredths.               *)
(***************************************************************************)
EXTENDS Integers, Sequences, FiniteSets, FiniteSetsExt, Functions

CONSTANTS
  Ids,              \* vine ids
  Scores,           \* the scores a scorer may return, in hundredths
  Capacity,         \* WorkspaceConfig.capacity
  TwilightCycles,   \* TWILIGHT_CYCLES
  TwilightTicks,    \* TWILIGHT_MINUTES, in clock ticks
  MaxLocks,         \* MAX_AMBER_LOCKS
  MaxCrests,        \* MAX_CRESTS
  Shielded,         \* the vines with a protected_anchor, never compressed
  CallerCycles,     \* the counts a caller may pass in cycles_since_twilight
  MaxNow,           \* bound on the clock
  MaxCycles         \* bound on the twilight cycle counters

ASSUME WorkspaceAssumption ==
  /\ IsFiniteSet(Ids)
  /\ Scores \subseteq Int
  /\ Capacity \in Nat \ {0}
  /\ TwilightCycles \in Nat /\ TwilightTicks \in Nat
  /\ MaxLocks \in Nat /\ MaxCrests \in Nat
  /\ Shielded \subseteq Ids
  /\ CallerCycles \subseteq Nat
  /\ MaxNow \in Nat /\ MaxCycles \in Nat

TWILIGHT_THRESHOLD == 42
REINFORCEMENT_BONUS == 8
FullScore == 100
None == -1

VARIABLES
  state,     \* Vine.state per id, "absent" when not in _vines
  locked,    \* the vines with Vine.locked
  score,     \* Vine.score
  touched,   \* Vine.last_touched
  since,     \* Vine.twilight_since, or None
  cycles,    \* _twilight_cycles, None where there is no entry
  packed,    \* the vines whose anchor is compressed (Vine._compressed)
  crests,    \* _crests, primary first
  now        \* the clock of time.time()

vars == <<state, locked, score, touched, since, cycles, packed, crests, now>>

L == INSTANCE Lifecycle WITH Ids <- Ids, state <- state, locked <- locked

LiveStates == L!LiveStates
Live == {v \in Ids : state[v] \in LiveStates}

Init ==
  /\ state = [v \in Ids |-> "absent"]
  /\ locked = {}
  /\ score = [v \in Ids |-> 0]
  /\ touched = [v \in Ids |-> 0]
  /\ since = [v \in Ids |-> None]
  /\ cycles = [v \in Ids |-> None]
  /\ packed = {}
  /\ crests = <<>>
  /\ now = 0

Tick ==
  /\ now < MaxNow
  /\ now' = now + 1
  /\ UNCHANGED <<state, locked, score, touched, since, cycles, packed, crests>>

-----------------------------------------------------------------------------
(* Membership *)

Add(v) ==
  /\ state[v] = "absent"
  /\ state' = [state EXCEPT ![v] = "active"]
  /\ score' = [score EXCEPT ![v] = FullScore]
  /\ touched' = [touched EXCEPT ![v] = now]
  /\ UNCHANGED <<locked, since, cycles, packed, crests, now>>

\* The crests that survive the removal of the vines S.
CrestsWithout(S) == L!Without(crests, S)

\* Forget everything _vines, _twilight_cycles and _crests hold about S.
Drop(S) ==
  /\ state' = [v \in Ids |-> IF v \in S THEN "absent" ELSE state[v]]
  /\ score' = [v \in Ids |-> IF v \in S THEN 0 ELSE score[v]]
  /\ touched' = [v \in Ids |-> IF v \in S THEN 0 ELSE touched[v]]
  /\ since' = [v \in Ids |-> IF v \in S THEN None ELSE since[v]]
  /\ cycles' = [v \in Ids |-> IF v \in S THEN None ELSE cycles[v]]
  /\ locked' = locked \ S
  /\ packed' = packed \ S
  /\ crests' = CrestsWithout(S)
  /\ UNCHANGED now

Remove(v) ==
  /\ state[v] # "absent"
  /\ Drop({v})

\* prune_evicted(vine_ids): the requested vines that are evicted.
PruneEvicted(S) ==
  /\ S # {}
  /\ \A v \in S : state[v] = "evicted"
  /\ Drop(S)

(* persistence_snapshot, written by the Oracle after every operation, and  *)
(* restore_persistence_snapshot into the empty workspace of the next       *)
(* process.  A counter of zero is not restored as an entry, and rows come  *)
(* back with the anchor in the form they were written in.  A compressed    *)
(* row cannot be decoded, so the restore is only taken without one.        *)
Restart ==
  /\ \A v \in Ids : state[v] # "evicted"
  /\ packed = {}
  /\ cycles' = [v \in Ids |-> IF cycles[v] = 0 THEN None ELSE cycles[v]]
  /\ UNCHANGED <<state, locked, score, touched, since, packed, crests, now>>

-----------------------------------------------------------------------------
(* Amber Locks and crests *)

Lock(v) ==
  /\ state[v] \in LiveStates
  /\ v \notin locked
  /\ Cardinality(locked) < MaxLocks
  /\ locked' = locked \cup {v}
  /\ UNCHANGED <<state, score, touched, since, cycles, packed, crests, now>>

Unlock(v) ==
  /\ v \in locked
  /\ locked' = locked \ {v}
  /\ UNCHANGED <<state, score, touched, since, cycles, packed, crests, now>>

\* At most MAX_CRESTS ids, without duplicates.
CrestLists == {s \in UNION {[1 .. m -> Ids] : m \in 0 .. MaxCrests} :
                 IsInjective(s)}

SetCrests(s) ==
  /\ \A i \in 1 .. Len(s) : state[s[i]] \in LiveStates
  /\ crests' = s
  /\ UNCHANGED <<state, locked, score, touched, since, cycles, packed, now>>

-----------------------------------------------------------------------------
(* The decay loop *)

Bonused(x) == IF x + REINFORCEMENT_BONUS < FullScore
              THEN x + REINFORCEMENT_BONUS ELSE FullScore

Reinforce(v) ==
  /\ state[v] \in LiveStates
  /\ touched' = [touched EXCEPT ![v] = now]
  /\ IF state[v] = "twilight"
     THEN /\ state' = [state EXCEPT ![v] = "active"]
          /\ since' = [since EXCEPT ![v] = None]
          /\ score' = [score EXCEPT ![v] = Bonused(@)]
          /\ cycles' = [cycles EXCEPT ![v] = None]
          /\ packed' = packed \ {v}
     ELSE UNCHANGED <<state, since, score, cycles, packed>>
  /\ UNCHANGED <<locked, crests, now>>

(* run_decay_cycle(intent, now, cycles_since_twilight): sc is the score of *)
(* every vine against the intent, ov the caller's overrides of the cycle   *)
(* counters (None = no override).                                          *)

SubjectEvenLocked(v) == state[v] \in LiveStates
Subject(v) == state[v] \in LiveStates /\ v \notin locked

SnapsBack(v, sc) ==
  Subject(v) /\ state[v] = "twilight" /\ sc[v] >= TWILIGHT_THRESHOLD

Fades(v, sc) ==
  Subject(v) /\ state[v] = "active" /\ sc[v] < TWILIGHT_THRESHOLD

Lingers(v, sc) ==
  Subject(v) /\ state[v] = "twilight" /\ sc[v] < TWILIGHT_THRESHOLD

TwilightSince(v) == IF since[v] = None THEN now ELSE since[v]

CountDown(v, ov) == IF ov[v] # None THEN ov[v] ELSE cycles[v] - 1

NextCycles(v, ov) ==
  IF ov[v] # None THEN ov[v]
  ELSE (IF cycles[v] = None THEN 0 ELSE cycles[v]) + 1

WhicheverIsShorter(v, ov) ==
  \/ NextCycles(v, ov) >= TwilightCycles
  \/ now - TwilightSince(v) >= TwilightTicks

TwilightExpired(v, ov) ==
  /\ NextCycles(v, ov) >= TwilightCycles
  /\ now - TwilightSince(v) >= TwilightTicks

Scored(v, sc) ==
  IF SnapsBack(v, sc) THEN Bonused(sc[v])
  ELSE IF Subject(v) THEN sc[v]
  ELSE score[v]

TouchedAfter(v, sc) == IF SnapsBack(v, sc) THEN now ELSE touched[v]

Decayed(v, sc, ov) ==
  IF SnapsBack(v, sc) THEN "active"
  ELSE IF Fades(v, sc) THEN "twilight"
  ELSE IF Lingers(v, sc) /\ TwilightExpired(v, ov) THEN "evicted"
  ELSE state[v]

(* _enforce_capacity: the overflow is taken from the unlocked live vines   *)
(* with the lowest (score, last_touched).  The order of equal pairs is the *)
(* insertion order of _vines, which the model leaves open.                 *)
LiveAfter(sc, ov) == {v \in Ids : Decayed(v, sc, ov) \in LiveStates}

CandidatesEvenLocked(sc, ov) == LiveAfter(sc, ov)
Candidates(sc, ov) == LiveAfter(sc, ov) \ locked

LooseOverflow(sc, ov) == Cardinality(LiveAfter(sc, ov)) - Capacity - 1
Overflow(sc, ov) == Cardinality(LiveAfter(sc, ov)) - Capacity

RanksByTouch(v, w, sc) == TouchedAfter(v, sc) <= TouchedAfter(w, sc)
RanksBefore(v, w, sc) ==
  \/ Scored(v, sc) < Scored(w, sc)
  \/ /\ Scored(v, sc) = Scored(w, sc)
     /\ TouchedAfter(v, sc) <= TouchedAfter(w, sc)

CapacityEvictions(sc, ov) ==
  {E \in SUBSET Candidates(sc, ov) :
     /\ Cardinality(E) =
          Max({0, Min({Overflow(sc, ov), Cardinality(Candidates(sc, ov))})})
     /\ \A v \in E : \A w \in Candidates(sc, ov) \ E : RanksBefore(v, w, sc)}

\* _twilight_cycles once the cycle has decayed the vines and evicted E.
CyclesAfter(v, sc, ov, E) ==
  IF v \in E \/ SnapsBack(v, sc) THEN None
  ELSE IF Fades(v, sc) THEN 0
  ELSE IF Lingers(v, sc) THEN NextCycles(v, ov)
  ELSE cycles[v]

\* The anchors held compressed: demotion and capacity eviction compress,
\* snap-back decompresses, and a shielded anchor is never touched.
PackedOnlyOnFade(sc, E) ==
  {v \in Ids \ Shielded : Fades(v, sc) \/ (v \in packed /\ ~SnapsBack(v, sc))}

PackedAfter(sc, E) ==
  {v \in Ids \ Shielded :
     v \in E \/ Fades(v, sc) \/ (v \in packed /\ ~SnapsBack(v, sc))}

RunDecayCycle(sc, ov) ==
  /\ \A v \in Ids : Lingers(v, sc) => NextCycles(v, ov) <= MaxCycles
  /\ \E E \in CapacityEvictions(sc, ov) :
       /\ state' = [v \in Ids |-> IF v \in E THEN "evicted"
                                  ELSE Decayed(v, sc, ov)]
       /\ cycles' = [v \in Ids |-> CyclesAfter(v, sc, ov, E)]
       /\ packed' = PackedAfter(sc, E)
  /\ score' = [v \in Ids |-> Scored(v, sc)]
  /\ touched' = [v \in Ids |-> TouchedAfter(v, sc)]
  /\ since' = [v \in Ids |->
                 IF SnapsBack(v, sc) THEN None
                 ELSE IF Fades(v, sc) THEN now
                 ELSE IF Lingers(v, sc) THEN TwilightSince(v)
                 ELSE since[v]]
  /\ UNCHANGED <<locked, crests, now>>

Overrides == [Ids -> CallerCycles \cup {None}]

Next ==
  \/ Tick
  \/ \E v \in Ids : Add(v) \/ Remove(v) \/ Lock(v) \/ Unlock(v) \/ Reinforce(v)
  \/ \E S \in SUBSET Ids : PruneEvicted(S)
  \/ \E s \in CrestLists : SetCrests(s)
  \/ \E sc \in [Ids -> Scores] : \E ov \in Overrides : RunDecayCycle(sc, ov)
  \/ Restart

Spec == Init /\ [][Next]_vars

-----------------------------------------------------------------------------
(* Properties *)

VinesTyped ==
  /\ state \in [Ids -> L!VineState]
  /\ locked \subseteq Ids
  /\ score \in [Ids -> Int]
  /\ touched \in [Ids -> Nat]
  /\ since \in [Ids -> Nat \cup {None}]
  /\ cycles \in [Ids -> Nat \cup {None}]
  /\ packed \subseteq Ids
  /\ now \in Nat

TypeOK == VinesTyped /\ crests \in Seq(Ids)

(* An Amber-Locked vine is live: no sequence of locks, decay cycles,       *)
(* capacity evictions and restarts ever puts a locked memory on its way    *)
(* out of L1 (lock refuses evicted vines, run_decay_cycle and              *)
(* _enforce_capacity skip locked ones).                                    *)
LockedIsLive == \A v \in locked : state[v] \in LiveStates

(* An anchor is held compressed exactly while its unshielded vine is out   *)
(* of the active state.  Vine.compress raises on an anchor that is already *)
(* released, so a demotion or a capacity eviction of a compressed vine     *)
(* would abort a decay cycle halfway; and an active compressed vine would  *)
(* be scored against an empty vector.                                      *)
CompressedIffFaded ==
  \A v \in Ids :
    v \in packed <=> v \notin Shielded /\ state[v] \in {"twilight", "evicted"}

(* The cycle counter and the start of the twilight window never outlive    *)
(* the window: an active vine carries neither, so a vine that snapped back *)
(* starts its next fade from zero.                                         *)
FreshWindow ==
  \A v \in Ids : state[v] \in {"absent", "active"} =>
                   since[v] = None /\ cycles[v] = None

(* A decay cycle that demotes or evicts anything leaves the workspace      *)
(* within its capacity but for locked vines (_enforce_capacity ends every  *)
(* run_decay_cycle).                                                       *)
CapacityHeld ==
  [][(\E v \in Ids : <<state[v], state'[v]>> \in
                       {<<"active", "twilight">>, <<"active", "evicted">>,
                        <<"twilight", "evicted">>}) =>
       Cardinality(Live') <= Max({Capacity, Cardinality(locked)})]_vars

(* The workspace implements the vine lifecycle of Lifecycle.tla.           *)
ImplementsLifecycle == L!LifecycleSpec
=============================================================================
