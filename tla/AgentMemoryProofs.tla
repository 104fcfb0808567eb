------------------------- MODULE AgentMemoryProofs -------------------------
(***************************************************************************)
(* What is remembered and what is recalled: proofs about AgentMemory, for  *)
(* every bound on ids, time and failures, and about Retrieval, for any     *)
(* number of records.                                                      *)
(*                                                                         *)
(* AgentMemory.                                                            *)
(* That a committed record is managed is a statement about two databases   *)
(* that change one after the other.  The strengthening says what each      *)
(* half-done operation has already written: a record under way is pending  *)
(* and new, its vine is stored before the commit, a record whose vine is   *)
(* about to go has no payload, and the open Oracle holds at least what is  *)
(* stored, so that a save does not drop what it does not know.             *)
(*                                                                         *)
(* Retrieval.                                                              *)
(* Moving competing memories together is described for every set S of      *)
(* records that may be left over later (Regrouped): the first of S has a   *)
(* rival behind it.  A context trace has either visited what its links     *)
(* reach or still has it in its queue, at no greater depth, or calls       *)
(* itself incomplete (TraceInv).                                           *)
(***************************************************************************)
EXTENDS AgentMemory, Retrieval, SequenceTheorems, WellFoundedInduction, TLAPS

\* Ids that were never drawn are used nowhere.
FreshUnused ==
  \A v \in Ids : v >= nextId => status[v] = "none" /\ v \notin mem \cup life

\* The record that remember is writing, step by step.
CurUnderWay ==
  /\ cur # NoId => status[cur] = "pending"
  /\ pc = "sprout" => cur \notin mem
  /\ pc = "commit" => cur \in life

\* What forget has under way: nothing it is about to erase counts as kept.
ErasingUnderWay ==
  /\ erasing # NoId => status[erasing] = "none"
  /\ todo \cap kept = {}

\* The open Oracle knows every vine that is stored, a closed one none; and
\* once recovery let the profile open, every readable record is managed.
OracleCovers ==
  /\ evicted \subseteq mem
  /\ IF pc = "closed" THEN mem = {} ELSE life \subseteq mem
  /\ pc \notin {"closed", "recover"} => Committed \subseteq mem

KeptCommitted == kept \subseteq Committed
DeletedUnlinked == \A v \in Ids : status[v] = "none" => by[v] = NoId

\* A remember that neither finished nor was undone is the one under way, unless
\* its rollback failed; the rollback itself started with a failure.
HalfDone ==
  /\ pc \in {"undo_lifecycle", "undo_payload"} => faults >= 1
  /\ pc \notin {"closed", "recover"} /\ faults < 2 => PendingIds \subseteq {cur}

\* What forget has under way holds everything derived from it, and start-up
\* prunes only once nothing is pending; so what is erased leaves no logic behind,
\* committed or still to be committed.
LogicRooted ==
  /\ pc = "recover" /\ todo # {} => PendingIds = {}
  /\ \A w \in ContextualLogic : related[w] \cap todo # {} => w \in todo
  /\ faults < 2 =>
       \A v \in Ids : status[v] # "none" /\ layer[v] = "contextual_logic" =>
                      related[v] \subseteq Committed

IInv ==
  /\ TypeOK
  /\ FreshUnused /\ CurUnderWay /\ ErasingUnderWay /\ OracleCovers
  /\ KeptCommitted /\ DeletedUnlinked
  /\ CommittedIsManaged /\ ChainsSound

-----------------------------------------------------------------------------
LEMMA InitIInv == Init => IInv
  BY AgentMemoryAssumption
  DEF Init, IInv, TypeOK, FreshUnused, CurUnderWay, ErasingUnderWay,
      OracleCovers, KeptCommitted, DeletedUnlinked, CommittedIsManaged,
      ChainsSound, Ids, NoId, Never, Layers, Committed

\* Removing a row of the payload store leaves the chains sound.
LEMMA DeleteChains ==
  ASSUME TypeOK, ChainsSound, DeletedUnlinked, NEW d \in Ids, Delete(d)
  PROVE  ChainsSound' /\ DeletedUnlinked'
<1>. USE DEF Ids, NoId, Never
<1>1. DeletedUnlinked'
  BY DEF TypeOK, DeletedUnlinked, ChainsSound, Delete, DeleteRow
<1>2. ASSUME NEW w \in Ids, by'[w] # NoId
      PROVE  /\ by'[w] > w
             /\ status'[by'[w]] # "none"
             /\ at'[w] = effective'[by'[w]]
             /\ effective'[w] <= at'[w]
  <2>1. w # d
    BY <1>2 DEF Delete, DeleteRow
  <2>2. CASE by[w] = d
    BY <1>2, <2>1, <2>2 DEF TypeOK, ChainsSound, Delete, DeleteRow
  <2>3. CASE by[w] # d
    BY <1>2, <2>1, <2>3 DEF TypeOK, ChainsSound, Delete, DeleteRow
  <2>. QED  BY <2>2, <2>3
<1>. QED  BY <1>1, <1>2 DEF ChainsSound

\* Removing a row that is not kept takes only that record out of Committed.
LEMMA DeletePayload ==
  ASSUME TypeOK, NEW d \in Ids, Delete(d)
  PROVE  /\ Committed' = Committed \ {d}
         /\ status' \in [Ids -> {"none", "pending", "committed"}]
         /\ layer' \in [Ids -> Layers]
         /\ expires' \in [Ids -> Nat \cup {Never}]
         /\ related' \in [Ids -> SUBSET Ids]
         /\ effective' \in [Ids -> Nat]
         /\ by' \in [Ids -> Ids \cup {NoId}]
         /\ at' \in [Ids -> Nat \cup {Never}]
         /\ \A v \in Ids : expires'[v] # Never => layer'[v] = "live"
         /\ \A v \in Ids : status'[v] = IF v = d THEN "none" ELSE status[v]
  BY DEF TypeOK, Delete, DeleteRow, Committed, Layers

LEMMA RememberStep ==
  ASSUME IInv, NEW lay \in Layers \ {"long_term"}, NEW eff \in 0 .. MaxEffective,
         NEW S \in SUBSET Committed, NEW rel \in SUBSET mem,
         Remember(lay, eff, S, rel)
  PROVE  IInv'
<1>. USE AgentMemoryAssumption DEF IInv, NoId, Never
<1>1. nextId \in Ids /\ nextId # NoId /\ nextId + 1 \in Nat \ {0} /\ eff \in Nat
  BY DEF Remember, Put, NewExpiration, TypeOK, Ids
<1>2. /\ \A w \in Ids : status'[w] = IF w = nextId THEN "pending" ELSE status[w]
      /\ \A w \in Ids : by'[w] = IF w \in S THEN nextId ELSE by[w]
      /\ \A w \in Ids : at'[w] = IF w \in S THEN eff ELSE at[w]
      /\ \A w \in Ids : effective'[w] = IF w = nextId THEN eff ELSE effective[w]
  BY <1>1 DEF Remember, Put, NewExpiration, TypeOK
<1>3. TypeOK'
  <2>1. /\ status' \in [Ids -> {"none", "pending", "committed"}]
        /\ layer' \in [Ids -> Layers]
        /\ related' \in [Ids -> SUBSET Ids]
        /\ effective' \in [Ids -> Nat]
        /\ by' \in [Ids -> Ids \cup {NoId}]
        /\ at' \in [Ids -> Nat \cup {Never}]
    BY <1>1 DEF Remember, Put, NewExpiration, TypeOK
  <2>2. /\ expires' \in [Ids -> Nat \cup {Never}]
        /\ \A v \in Ids : expires'[v] # Never => layer'[v] = "live"
    BY <1>1 DEF Remember, Put, NewExpiration, TypeOK
  <2>3. cur' = nextId /\ pc' = "sprout" /\ nextId' = nextId + 1 /\ todo = {} /\ todo' = {}
        /\ UNCHANGED <<life, mem, evicted, stranded, erasing, now, faults, kept>>
    BY DEF Remember, Put, NewExpiration, lifeVars, Idle
  <2>. QED  BY <1>1, <2>1, <2>2, <2>3 DEF TypeOK
<1>4. Committed' = Committed
  <2>1. status[nextId] = "none"
    BY <1>1 DEF FreshUnused, Ids
  <2>. QED  BY <1>2, <2>1 DEF Committed
<1>5. FreshUnused' /\ CurUnderWay' /\ ErasingUnderWay' /\ OracleCovers'
  BY <1>1, <1>2, <1>4 DEF Remember, Put, NewExpiration, TypeOK, FreshUnused, CurUnderWay, ErasingUnderWay,
     OracleCovers, lifeVars, Idle, Ids
<1>6. KeptCommitted' /\ CommittedIsManaged'
  BY <1>4 DEF Remember, Put, NewExpiration, KeptCommitted, CommittedIsManaged, lifeVars
<1>7. DeletedUnlinked'
  BY <1>1, <1>2, <1>3 DEF DeletedUnlinked, TypeOK, Committed
<1>8. ASSUME NEW w \in Ids, by'[w] # NoId
      PROVE  /\ by'[w] > w
             /\ status'[by'[w]] # "none"
             /\ at'[w] = effective'[by'[w]]
             /\ effective'[w] <= at'[w]
  <2>1. CASE w \in S
    BY <1>1, <1>2, <2>1 DEF Remember, Put, NewExpiration, CanReplace, FreshUnused, Committed, TypeOK, Ids
  <2>2. CASE w \notin S
    <3>1. by[w] # NoId /\ by[w] \in Ids /\ by[w] # nextId /\ w # nextId
      BY <1>1, <1>2, <1>8, <2>2 DEF ChainsSound, FreshUnused, DeletedUnlinked,
         TypeOK, Ids
    <3>. QED  BY <1>1, <1>2, <2>2, <3>1 DEF ChainsSound
  <2>. QED  BY <2>1, <2>2
<1>. QED  BY <1>3, <1>5, <1>6, <1>7, <1>8 DEF ChainsSound

-----------------------------------------------------------------------------
(* Steps that leave the payload store alone *)

\* What the payload store's part of the invariant depends on.
LEMMA PayloadFrame ==
  ASSUME IInv, UNCHANGED payloadVars
  PROVE  /\ DeletedUnlinked' /\ ChainsSound' /\ Committed' = Committed
         /\ PendingIds' = PendingIds
  BY DEF IInv, DeletedUnlinked, ChainsSound, Committed, PendingIds, payloadVars

LEMMA SproutStep == IInv /\ Sprout => IInv'
<1>. SUFFICES ASSUME IInv, Sprout PROVE IInv'
  OBVIOUS
<1>. USE DEF IInv, NoId
<1>1. DeletedUnlinked' /\ ChainsSound' /\ Committed' = Committed
  BY PayloadFrame DEF Sprout
<1>2. cur \in Ids /\ cur < nextId /\ cur \notin evicted /\ cur \notin mem
  BY DEF Sprout, TypeOK, FreshUnused, CurUnderWay, OracleCovers, Ids
<1>3. TypeOK'
  BY <1>2 DEF Sprout, SaveLifecycle, Fault, TypeOK, payloadVars
<1>4. FreshUnused' /\ CurUnderWay' /\ ErasingUnderWay' /\ OracleCovers'
  BY <1>1, <1>2 DEF Sprout, SaveLifecycle, Fault, TypeOK, FreshUnused, CurUnderWay,
     ErasingUnderWay, OracleCovers, payloadVars
<1>5. KeptCommitted' /\ CommittedIsManaged'
  BY <1>1, <1>2 DEF Sprout, SaveLifecycle, OracleCovers, KeptCommitted,
     CommittedIsManaged
<1>. QED  BY <1>1, <1>3, <1>4, <1>5

LEMMA UndoLifecycleStep == IInv /\ UndoLifecycle => IInv'
  BY AgentMemoryAssumption DEF IInv, TypeOK, FreshUnused, CurUnderWay, ErasingUnderWay, OracleCovers,
     KeptCommitted, DeletedUnlinked, CommittedIsManaged, ChainsSound,
     NoId, Never, Committed, payloadVars, lifeVars, procVars, UndoLifecycle, OracleForget, Fault

LEMMA EraseLifecycleStep == IInv /\ EraseLifecycle => IInv'
  BY AgentMemoryAssumption DEF IInv, TypeOK, FreshUnused, CurUnderWay, ErasingUnderWay, OracleCovers,
     KeptCommitted, DeletedUnlinked, CommittedIsManaged, ChainsSound,
     NoId, Never, Committed, payloadVars, lifeVars, procVars, EraseLifecycle, OracleForget, GiveUpErasing, Fault

LEMMA CrashStep == IInv /\ Crash => IInv'
  BY AgentMemoryAssumption DEF IInv, TypeOK, FreshUnused, CurUnderWay, ErasingUnderWay, OracleCovers,
     KeptCommitted, DeletedUnlinked, CommittedIsManaged, ChainsSound,
     NoId, Never, Committed, payloadVars, lifeVars, procVars, Crash

LEMMA OpenStep == IInv /\ Open => IInv'
  BY AgentMemoryAssumption DEF IInv, TypeOK, FreshUnused, CurUnderWay, ErasingUnderWay, OracleCovers,
     KeptCommitted, DeletedUnlinked, CommittedIsManaged, ChainsSound,
     NoId, Never, Committed, payloadVars, lifeVars, procVars, Open

LEMMA RecoveredStep == IInv /\ Recovered => IInv'
  BY AgentMemoryAssumption DEF IInv, TypeOK, FreshUnused, CurUnderWay, ErasingUnderWay, OracleCovers,
     KeptCommitted, DeletedUnlinked, CommittedIsManaged, ChainsSound,
     NoId, Never, Committed, payloadVars, lifeVars, procVars, Recovered, Recovering

LEMMA ObserveStep == IInv /\ Observe => IInv'
  BY AgentMemoryAssumption DEF IInv, TypeOK, FreshUnused, CurUnderWay, ErasingUnderWay, OracleCovers,
     KeptCommitted, DeletedUnlinked, CommittedIsManaged, ChainsSound,
     NoId, Never, Committed, payloadVars, lifeVars, procVars, Observe, Idle

LEMMA TickStep == IInv /\ Tick => IInv'
  BY AgentMemoryAssumption DEF IInv, TypeOK, FreshUnused, CurUnderWay, ErasingUnderWay, OracleCovers,
     KeptCommitted, DeletedUnlinked, CommittedIsManaged, ChainsSound,
     NoId, Never, Committed, payloadVars, lifeVars, procVars, Tick, Idle

LEMMA ForgetStep == ASSUME NEW v \in Ids PROVE IInv /\ Forget(v) => IInv'
  BY AgentMemoryAssumption DEF IInv, TypeOK, FreshUnused, CurUnderWay, ErasingUnderWay, OracleCovers,
     KeptCommitted, DeletedUnlinked, CommittedIsManaged, ChainsSound,
     NoId, Never, Committed, payloadVars, lifeVars, procVars, Forget, StartErasing, Dependents, ContextualLogic, Idle

LEMMA PruneStep == ASSUME NEW v \in Ids PROVE IInv /\ PruneExpired(v) => IInv'
  BY AgentMemoryAssumption DEF IInv, TypeOK, FreshUnused, CurUnderWay, ErasingUnderWay, OracleCovers,
     KeptCommitted, DeletedUnlinked, CommittedIsManaged, ChainsSound,
     NoId, Never, Committed, payloadVars, lifeVars, procVars, PruneExpired, StartErasing, Dependents, ContextualLogic, Idle, Recovering

LEMMA RecoverOrphanStep == ASSUME NEW v \in Ids PROVE IInv /\ RecoverOrphan(v) => IInv'
  BY AgentMemoryAssumption DEF IInv, TypeOK, FreshUnused, CurUnderWay, ErasingUnderWay, OracleCovers,
     KeptCommitted, DeletedUnlinked, CommittedIsManaged, ChainsSound,
     NoId, Never, Committed, payloadVars, lifeVars, procVars, RecoverOrphan, OracleForget

LEMMA ObserveFailsStep == ASSUME NEW v \in Ids PROVE IInv /\ ObserveFails(v) => IInv'
  BY AgentMemoryAssumption DEF IInv, TypeOK, FreshUnused, CurUnderWay, ErasingUnderWay, OracleCovers,
     KeptCommitted, DeletedUnlinked, CommittedIsManaged, ChainsSound,
     NoId, Never, Committed, payloadVars, lifeVars, procVars, ObserveFails, Fault, Idle

-----------------------------------------------------------------------------
(* Steps that change the payload store *)

LEMMA CommitStep == IInv /\ Commit => IInv'
<1>. SUFFICES ASSUME IInv, Commit PROVE IInv'
  OBVIOUS
<1>. USE DEF IInv, NoId, Never
<1>1. CASE MarkCommitted(cur)
  <2>1. cur \in Ids /\ cur \in life /\ cur \notin todo
    BY DEF Commit, TypeOK, CurUnderWay
  <2>0. status' # status
    BY <1>1, <2>1 DEF MarkCommitted, TypeOK
  <2>2. Committed' = Committed \cup {cur}
    BY <1>1, <2>1 DEF MarkCommitted, Committed, TypeOK
  <2>3. UNCHANGED <<lifeVars, layer, expires, related, effective, by, at,
                    todo, erasing, nextId, now, faults>>
    BY <1>1, <2>0 DEF Commit, MarkCommitted, payloadVars, lifeVars
  <2>4. pc' = "idle" /\ cur' = NoId /\ kept' = kept \cup {cur}
    BY <1>1, <2>0 DEF Commit, MarkCommitted, payloadVars
  <2>5. \A v \in Ids : status'[v] = IF v = cur THEN "committed" ELSE status[v]
    BY <1>1 DEF MarkCommitted, TypeOK
  <2>6. TypeOK'
    BY <1>1, <2>3, <2>4 DEF MarkCommitted, TypeOK, lifeVars, Commit
  <2>7. FreshUnused' /\ CurUnderWay' /\ ErasingUnderWay' /\ OracleCovers'
    <3>1. cur < nextId
      BY <2>1 DEF FreshUnused, CurUnderWay, TypeOK, Ids
    <3>. QED
      BY <2>1, <2>2, <2>3, <2>4, <2>5, <3>1
      DEF TypeOK, FreshUnused, CurUnderWay, ErasingUnderWay, OracleCovers,
          lifeVars, Commit, Ids
  <2>8. KeptCommitted' /\ CommittedIsManaged'
    BY <2>1, <2>2, <2>3, <2>4 DEF KeptCommitted, CommittedIsManaged, lifeVars
  <2>9. DeletedUnlinked' /\ ChainsSound'
    BY <2>3, <2>5 DEF DeletedUnlinked, ChainsSound, TypeOK
  <2>. QED  BY <2>6, <2>7, <2>8, <2>9
<1>2. CASE UNCHANGED payloadVars
  BY <1>2, PayloadFrame
  DEF Commit, Fault, MarkCommitted, payloadVars, lifeVars, TypeOK, FreshUnused,
      CurUnderWay, ErasingUnderWay, OracleCovers, KeptCommitted,
      CommittedIsManaged
<1>. QED  BY <1>1, <1>2 DEF Commit, payloadVars

LEMMA UndoPayloadStep == IInv /\ UndoPayload => IInv'
<1>. SUFFICES ASSUME IInv, UndoPayload PROVE IInv'
  OBVIOUS
<1>. USE DEF IInv, NoId
<1>1. cur \in Ids /\ cur \notin Committed
  BY DEF UndoPayload, TypeOK, CurUnderWay, Committed
<1>2. /\ faults' \in Nat
      /\ pc' = "idle" /\ cur' = NoId
      /\ UNCHANGED <<life, mem, evicted, stranded, todo, erasing, nextId, now, kept>>
  BY AgentMemoryAssumption DEF UndoPayload, Fault, TypeOK, lifeVars
<1>3. CASE Delete(cur)
  BY <1>1, <1>2, <1>3, DeletePayload, DeleteChains
  DEF UndoPayload, TypeOK, FreshUnused, CurUnderWay, ErasingUnderWay, OracleCovers,
      KeptCommitted, CommittedIsManaged
<1>4. CASE UNCHANGED payloadVars
  BY <1>2, <1>4, PayloadFrame
  DEF UndoPayload, payloadVars, TypeOK, FreshUnused, CurUnderWay, ErasingUnderWay,
      OracleCovers, KeptCommitted, CommittedIsManaged
<1>. QED  BY <1>3, <1>4 DEF UndoPayload

LEMMA ErasePayloadStep ==
  ASSUME IInv, NEW v \in Ids, ErasePayload(v)
  PROVE  IInv'
<1>. USE DEF IInv, NoId
<1>1. v \in todo /\ v \notin kept /\ cur = NoId /\ cur' = NoId
  BY DEF ErasePayload, Erasable, ErasingUnderWay, TypeOK
<1>2. /\ faults' \in Nat
      /\ UNCHANGED <<life, mem, evicted, stranded, pc, nextId, now, kept>>
  BY AgentMemoryAssumption DEF ErasePayload, GiveUpErasing, Fault, TypeOK, lifeVars
<1>3. CASE Delete(v) /\ erasing' = v /\ todo' = todo
  <2>1. TypeOK'
    BY <1>1, <1>2, <1>3, DeletePayload DEF TypeOK
  <2>2. FreshUnused' /\ CurUnderWay' /\ ErasingUnderWay' /\ OracleCovers'
    BY <1>1, <1>2, <1>3, DeletePayload
    DEF TypeOK, FreshUnused, CurUnderWay, ErasingUnderWay, OracleCovers
  <2>3. KeptCommitted' /\ CommittedIsManaged'
    BY <1>1, <1>2, <1>3, DeletePayload DEF KeptCommitted, CommittedIsManaged
  <2>4. DeletedUnlinked' /\ ChainsSound'
    BY <1>3, DeleteChains
  <2>. QED  BY <2>1, <2>2, <2>3, <2>4
<1>4. CASE UNCHANGED payloadVars /\ todo' = {} /\ erasing' = NoId
  BY <1>1, <1>2, <1>4, PayloadFrame
  DEF payloadVars, TypeOK, FreshUnused, CurUnderWay, ErasingUnderWay,
      OracleCovers, KeptCommitted, CommittedIsManaged
<1>. QED  BY <1>3, <1>4 DEF ErasePayload, GiveUpErasing

LEMMA RecoverPendingStep ==
  ASSUME IInv, NEW v \in Ids, RecoverPending(v)
  PROVE  IInv'
<1>. USE DEF IInv, NoId
<1>1. v \notin Committed /\ pc = "recover" /\ cur = NoId /\ v \notin kept
  BY DEF RecoverPending, PendingIds, Committed, TypeOK, KeptCommitted
<1>2. UNCHANGED <<life, mem, evicted, stranded, pc, cur, todo, erasing, nextId,
                  now, faults, kept>>
  BY DEF RecoverPending, lifeVars, procVars
<1>3. CASE v \in life /\ MarkCommitted(v)
  <2>1. Committed' = Committed \cup {v}
    BY <1>3 DEF MarkCommitted, Committed, TypeOK
  <2>. QED
    BY <1>1, <1>2, <1>3, <2>1
    DEF MarkCommitted, TypeOK, FreshUnused, CurUnderWay, ErasingUnderWay,
        OracleCovers, KeptCommitted, DeletedUnlinked, CommittedIsManaged,
        ChainsSound
<1>4. CASE Delete(v)
  <2>1. TypeOK'
    BY <1>1, <1>2, <1>4, DeletePayload DEF TypeOK
  <2>2. FreshUnused' /\ CurUnderWay' /\ ErasingUnderWay' /\ OracleCovers'
    BY <1>1, <1>2, <1>4, DeletePayload
    DEF TypeOK, FreshUnused, CurUnderWay, ErasingUnderWay, OracleCovers
  <2>3. KeptCommitted' /\ CommittedIsManaged'
    BY <1>1, <1>2, <1>4, DeletePayload DEF KeptCommitted, CommittedIsManaged
  <2>4. DeletedUnlinked' /\ ChainsSound'
    BY <1>4, DeleteChains
  <2>. QED  BY <2>1, <2>2, <2>3, <2>4
<1>. QED  BY <1>3, <1>4 DEF RecoverPending

LEMMA ContractSteps ==
  ASSUME IInv, NEW v \in Ids, NEW lay \in Layers, Promote(v, lay) \/ RefreshLive(v)
  PROVE  IInv'
<1>. USE DEF IInv, NoId
<1>1. UNCHANGED <<status, effective, by, at, life, mem, evicted, stranded, pc, cur,
                  todo, erasing, nextId, now, faults, kept>>
  BY DEF Promote, RefreshLive, lifeVars, procVars
<1>2. Committed' = Committed
  BY <1>1 DEF Committed
<1>3. /\ layer' \in [Ids -> Layers]
      /\ expires' \in [Ids -> Nat \cup {Never}]
      /\ related' \in [Ids -> SUBSET Ids]
      /\ \A w \in Ids : expires'[w] # Never => layer'[w] = "live"
  BY AgentMemoryAssumption DEF Promote, RefreshLive, PromotedExpiration, TypeOK
<1>. QED
  BY <1>1, <1>2, <1>3
  DEF TypeOK, FreshUnused, CurUnderWay, ErasingUnderWay, OracleCovers,
      KeptCommitted, DeletedUnlinked, CommittedIsManaged, ChainsSound

LEMMA StutterStep == IInv /\ UNCHANGED vars => IInv'
  BY DEF vars, payloadVars, lifeVars, procVars, IInv, TypeOK, FreshUnused,
     CurUnderWay, ErasingUnderWay, OracleCovers, KeptCommitted, DeletedUnlinked,
     CommittedIsManaged, ChainsSound, Committed

-----------------------------------------------------------------------------
(* The inductive invariant holds in every reachable state of AgentMemory:  *)
(* every crash, failure, recovery and erasure leaves the two databases in  *)
(* step (remember, forget and _recover_incomplete_operations).             *)
THEOREM AgentMemoryInvariant == Spec => []IInv
<1>1. IInv /\ [Next]_vars => IInv'
  <2>. SUFFICES ASSUME IInv, [Next]_vars PROVE IInv'
    OBVIOUS
  <2>1. ASSUME NEW lay \in Layers \ {"long_term"}, NEW eff \in 0 .. MaxEffective,
               NEW S \in SUBSET Committed, NEW rel \in SUBSET mem,
               Remember(lay, eff, S, rel)
        PROVE  IInv'
    BY <2>1, RememberStep
  <2>2. ASSUME NEW v \in Ids, NEW lay \in Layers, Promote(v, lay) PROVE IInv'
    BY <2>2, ContractSteps
  <2>3. ASSUME NEW v \in Ids, RefreshLive(v) PROVE IInv'
    BY <2>3, ContractSteps DEF Layers
  <2>4. ASSUME NEW v \in Ids, Forget(v) \/ PruneExpired(v) PROVE IInv'
    BY <2>4, ForgetStep, PruneStep
  <2>5. ASSUME NEW v \in Ids, ErasePayload(v) PROVE IInv'
    BY <2>5, ErasePayloadStep
  <2>6. ASSUME NEW v \in Ids,
               RecoverPending(v) \/ RecoverOrphan(v) \/ ObserveFails(v)
        PROVE  IInv'
    BY <2>6, RecoverPendingStep, RecoverOrphanStep, ObserveFailsStep
  <2>7. CASE Sprout \/ Commit \/ UndoLifecycle \/ UndoPayload \/ EraseLifecycle
    BY <2>7, SproutStep, CommitStep, UndoLifecycleStep, UndoPayloadStep,
       EraseLifecycleStep
  <2>8. CASE Crash \/ Open \/ Recovered \/ Observe \/ Tick
    BY <2>8, CrashStep, OpenStep, RecoveredStep, ObserveStep, TickStep
  <2>9. CASE UNCHANGED vars
    BY <2>9, StutterStep
  <2>. QED  BY <2>1, <2>2, <2>3, <2>4, <2>5, <2>6, <2>7, <2>8, <2>9 DEF Next
<1>. QED  BY <1>1, InitIInv, PTL DEF Spec

(* Whatever crashes or fails between the two databases, a committed        *)
(* payload has lifecycle state, unless an eviction whose transfer failed   *)
(* stranded its vine: start-up refuses to open for no other reason.        *)
THEOREM StoresInStep == Spec => []CommittedIsManaged
  BY AgentMemoryInvariant, PTL DEF IInv

(* A memory whose remember returned stays readable and managed until       *)
(* forget or expiry sets out to erase it, stranding apart.                 *)
THEOREM RememberIsDurable == Spec => []RememberedSurvives
<1>1. IInv => RememberedSurvives
  BY DEF IInv, KeptCommitted, CommittedIsManaged, RememberedSurvives
<1>. QED  BY <1>1, AgentMemoryInvariant, PTL

(* Supersession chains are acyclic, never dangle and stay in temporal      *)
(* order through put, rollback, erasure and recovery.                      *)
THEOREM SupersessionSound == Spec => []ChainsSound
  BY AgentMemoryInvariant, PTL DEF IInv

-----------------------------------------------------------------------------
(* Half-done remembers *)

\* Removing or committing a row takes it out of the pending ones.
LEMMA PendingAfter ==
  ASSUME TypeOK, NEW d \in Ids, Delete(d) \/ MarkCommitted(d)
  PROVE  PendingIds' = PendingIds \ {d}
  BY DEF TypeOK, Delete, DeleteRow, MarkCommitted, PendingIds

LEMMA HalfDoneStep ==
  ASSUME IInv, HalfDone, [Next]_vars
  PROVE  HalfDone'
<1>. USE DEF HalfDone, NoId
<1>1. TypeOK /\ faults \in Nat
  BY DEF IInv, TypeOK
<1>2. ASSUME UNCHANGED payloadVars PROVE PendingIds' = PendingIds
  BY <1>2 DEF payloadVars, PendingIds
<1>3. ASSUME NEW lay \in Layers \ {"long_term"}, NEW eff \in 0 .. MaxEffective,
             NEW S \in SUBSET Committed, NEW rel \in SUBSET mem,
             Remember(lay, eff, S, rel)
      PROVE  HalfDone'
  <2>1. nextId \in Ids /\ cur = NoId /\ cur' = nextId /\ pc' = "sprout" /\ faults' = faults
        /\ pc = "idle"
    BY <1>1, <1>3 DEF Remember, TypeOK, Ids, Idle
  <2>2. PendingIds' \subseteq PendingIds \cup {nextId}
    BY <1>1, <1>3 DEF Remember, Put, TypeOK, PendingIds
  <2>3. cur \notin PendingIds
    BY <2>1 DEF PendingIds, Ids
  <2>. QED  BY <2>1, <2>2, <2>3
<1>4. CASE Sprout
  BY <1>1, <1>2, <1>4 DEF Sprout, Fault
<1>5. CASE Commit
  <2>1. cur \in Ids /\ pc = "commit"
    BY <1>1, <1>5 DEF Commit, TypeOK
  <2>2. CASE MarkCommitted(cur) /\ pc' = "idle" /\ cur' = NoId /\ faults' = faults
    BY <1>1, <2>1, <2>2, PendingAfter
  <2>3. CASE Fault /\ pc' = "undo_lifecycle" /\ UNCHANGED <<payloadVars, cur>>
    BY <1>1, <1>2, <2>1, <2>3 DEF Fault
  <2>. QED  BY <1>5, <2>2, <2>3 DEF Commit
<1>6. CASE UndoLifecycle
  BY <1>1, <1>2, <1>6 DEF UndoLifecycle, Fault
<1>7. CASE UndoPayload
  <2>1. cur \in Ids /\ pc = "undo_payload" /\ pc' = "idle" /\ cur' = NoId
    BY <1>1, <1>7 DEF UndoPayload, TypeOK
  <2>2. CASE Delete(cur) /\ faults' = faults
    BY <1>1, <2>1, <2>2, PendingAfter
  <2>3. CASE Fault
    BY <1>1, <2>1, <2>3 DEF Fault
  <2>. QED  BY <1>7, <2>2, <2>3 DEF UndoPayload
<1>8. ASSUME NEW v \in Ids, NEW lay \in Layers, Promote(v, lay) \/ RefreshLive(v)
      PROVE  HalfDone'
  BY <1>1, <1>8 DEF Promote, RefreshLive, PendingIds, procVars
<1>9. ASSUME NEW v \in Ids, Forget(v) \/ PruneExpired(v) \/ ObserveFails(v) \/ RecoverOrphan(v)
      PROVE  HalfDone'
  BY <1>1, <1>2, <1>9 DEF Forget, PruneExpired, ObserveFails, RecoverOrphan, Fault, procVars
<1>10. ASSUME NEW v \in Ids, ErasePayload(v)
       PROVE  HalfDone'
  <2>1. pc' = pc /\ cur' = cur /\ faults' \in {faults, faults + 1} /\ todo # {}
    BY <1>10 DEF ErasePayload, GiveUpErasing, Fault, Erasable
  <2>2. PendingIds' \subseteq PendingIds
    BY <1>1, <1>2, <1>10, PendingAfter DEF ErasePayload
  <2>3. pc \in {"idle", "recover"}
    BY <1>1, <2>1 DEF TypeOK
  <2>. QED  BY <1>1, <2>1, <2>2, <2>3
<1>11. ASSUME NEW v \in Ids, RecoverPending(v)
       PROVE  HalfDone'
  BY <1>11 DEF RecoverPending, procVars
<1>12. CASE EraseLifecycle
  <2>1. pc' = pc /\ cur' = cur /\ faults' \in {faults, faults + 1}
    BY <1>12 DEF EraseLifecycle, GiveUpErasing, Fault
  <2>2. PendingIds' = PendingIds
    BY <1>2, <1>12 DEF EraseLifecycle
  <2>3. pc \in {"idle", "recover"}
    BY <1>1, <1>12 DEF TypeOK, EraseLifecycle
  <2>. QED  BY <1>1, <2>1, <2>2, <2>3
<1>13. CASE Crash \/ Open
  BY <1>13 DEF Crash, Open
<1>14. CASE Recovered
  BY <1>2, <1>14 DEF Recovered, Recovering
<1>15. CASE Observe \/ Tick \/ UNCHANGED vars
  BY <1>2, <1>15 DEF Observe, Tick, vars, procVars
<1>. QED
  BY <1>3, <1>4, <1>5, <1>6, <1>7, <1>8, <1>9, <1>10, <1>11, <1>12, <1>13, <1>14, <1>15
  DEF Next, Layers

(* Outside an operation nothing is pending, whatever crashed: a remember   *)
(* that failed leaves no trace, unless its rollback failed as well.        *)
THEOREM FailedRememberLeavesNothing == Spec => []NoHalfRemembered
<1>1. Init => HalfDone
  BY DEF Init, HalfDone
<1>2. IInv /\ HalfDone /\ [Next]_vars => HalfDone'
  BY HalfDoneStep
<1>3. IInv /\ HalfDone => NoHalfRemembered
  BY DEF IInv, TypeOK, HalfDone, NoHalfRemembered, Idle, PendingIds, Ids, NoId
<1>. QED  BY <1>1, <1>2, <1>3, AgentMemoryInvariant, PTL DEF Spec

(* The states of AgentMemory have their types, for every bound.            *)
THEOREM AgentMemoryTypes == Spec => []TypeOK
  BY AgentMemoryInvariant, PTL DEF IInv

-----------------------------------------------------------------------------
(* Derived records *)

\* _contextual_dependents is closed: what derives from a dependent is one.
LEMMA DependentsClosed ==
  ASSUME NEW v, NEW w \in ContextualLogic, related[w] \cap (Dependents(v) \cup {v}) # {}
  PROVE  w \in Dependents(v)
<1>. SUFFICES ASSUME NEW D \in SUBSET ContextualLogic, ClosedUnder(v, D)
              PROVE  w \in D
  BY DEF Dependents
<1>1. Dependents(v) \subseteq D
  BY DEF Dependents
<1>. QED  BY <1>1 DEF ClosedUnder

\* Links that stay where they are, on records that stay or go, stay rooted while
\* Committed does not shrink.
LEMMA RootedFrame ==
  ASSUME LogicRooted, Committed \subseteq Committed', faults' \in {faults, faults + 1},
         faults \in Nat,
         \A v \in Ids : status'[v] # "none" /\ layer'[v] = "contextual_logic" =>
                          \/ related'[v] \subseteq Committed
                          \/ /\ status[v] # "none" /\ layer[v] = "contextual_logic"
                             /\ related'[v] = related[v]
  PROVE  faults' < 2 =>
           \A v \in Ids : status'[v] # "none" /\ layer'[v] = "contextual_logic" =>
                          related'[v] \subseteq Committed'
  BY DEF LogicRooted

LEMMA LogicRootedStep ==
  ASSUME IInv, HalfDone, LogicRooted, [Next]_vars
  PROVE  LogicRooted'
<1>. USE DEF NoId
<1>1. TypeOK /\ faults \in Nat
  BY DEF IInv, TypeOK
<1>2. ASSUME UNCHANGED payloadVars, faults' \in {faults, faults + 1},
             pc' = "recover" /\ todo' # {} => PendingIds = {},
             \A w \in ContextualLogic : related[w] \cap todo' # {} => w \in todo'
      PROVE  LogicRooted'
  <2>1. /\ PendingIds' = PendingIds /\ Committed' = Committed
        /\ ContextualLogic' = ContextualLogic
        /\ UNCHANGED <<status, layer, related>>
    BY <1>2 DEF payloadVars, PendingIds, Committed, ContextualLogic
  <2>2. faults' < 2 =>
           \A v \in Ids : status'[v] # "none" /\ layer'[v] = "contextual_logic" =>
                          related'[v] \subseteq Committed'
    BY <1>1, <1>2, <2>1, RootedFrame
  <2>. QED  BY <1>2, <2>1, <2>2 DEF LogicRooted
<1>3. ASSUME NEW lay \in Layers \ {"long_term"}, NEW eff \in 0 .. MaxEffective,
             NEW S \in SUBSET Committed, NEW rel \in SUBSET mem,
             Remember(lay, eff, S, rel)
      PROVE  LogicRooted'
  <2>1. /\ nextId \in Ids /\ pc' = "sprout" /\ faults' = faults /\ todo' = {}
        /\ rel \subseteq Committed
    BY <1>1, <1>3 DEF Remember, TypeOK, Ids, Idle, LinksValid, ManagedExists
  <2>2. status[nextId] = "none"
    BY <1>1, <2>1 DEF IInv, FreshUnused, TypeOK
  <2>3. /\ Committed' = Committed
        /\ \A v \in Ids : /\ v # nextId => /\ status'[v] = status[v] /\ layer'[v] = layer[v]
                                           /\ related'[v] = related[v]
                          /\ v = nextId => related'[v] = rel
    BY <1>1, <1>3, <2>1, <2>2 DEF Remember, Put, TypeOK, Committed
  <2>4. faults' < 2 =>
           \A v \in Ids : status'[v] # "none" /\ layer'[v] = "contextual_logic" =>
                          related'[v] \subseteq Committed'
    BY <1>1, <2>1, <2>3, RootedFrame
  <2>. QED  BY <2>1, <2>4 DEF LogicRooted
<1>4. CASE Sprout \/ UndoLifecycle
  <2>1. todo' = {}
    BY <1>1, <1>4 DEF Sprout, UndoLifecycle, TypeOK
  <2>2. UNCHANGED payloadVars /\ faults' \in {faults, faults + 1}
    BY <1>4 DEF Sprout, UndoLifecycle, Fault
  <2>. QED  BY <1>2, <2>1, <2>2
<1>5. ASSUME NEW v \in Ids, MarkCommitted(v), todo = {}, todo' = {}, faults' = faults
      PROVE  LogicRooted'
  <2>1. /\ Committed \subseteq Committed'
        /\ \A w \in Ids : status'[w] # "none" => status[w] # "none"
        /\ UNCHANGED <<layer, related>>
    BY <1>1, <1>5 DEF MarkCommitted, TypeOK, Committed
  <2>2. faults' < 2 =>
           \A w \in Ids : status'[w] # "none" /\ layer'[w] = "contextual_logic" =>
                          related'[w] \subseteq Committed'
    BY <1>1, <1>5, <2>1, RootedFrame
  <2>. QED  BY <1>5, <2>2 DEF LogicRooted
<1>6. ASSUME NEW v \in Ids, Delete(v), v \notin Committed, todo = {}, todo' = {},
             faults' = faults
      PROVE  LogicRooted'
  <2>1. /\ Committed' = Committed
        /\ \A w \in Ids : status'[w] # "none" =>
              status[w] # "none" /\ layer'[w] = layer[w] /\ related'[w] = related[w]
    BY <1>1, <1>6, DeletePayload DEF Delete, DeleteRow, TypeOK, Committed
  <2>2. faults' < 2 =>
           \A w \in Ids : status'[w] # "none" /\ layer'[w] = "contextual_logic" =>
                          related'[w] \subseteq Committed'
    BY <1>1, <1>6, <2>1, RootedFrame
  <2>. QED  BY <1>6, <2>2 DEF LogicRooted
<1>7. CASE Commit
  <2>1. cur \in Ids /\ todo = {} /\ todo' = {}
    BY <1>1, <1>7 DEF Commit, TypeOK
  <2>2. CASE MarkCommitted(cur) /\ faults' = faults
    BY <1>5, <2>1, <2>2
  <2>3. CASE Fault /\ UNCHANGED payloadVars
    BY <1>2, <2>1, <2>3 DEF Fault
  <2>. QED  BY <1>7, <2>2, <2>3 DEF Commit
<1>8. CASE UndoPayload
  <2>1. cur \in Ids /\ todo = {} /\ todo' = {} /\ cur \notin Committed
    BY <1>1, <1>8 DEF UndoPayload, TypeOK, IInv, CurUnderWay, Committed
  <2>2. CASE Delete(cur) /\ faults' = faults
    BY <1>6, <2>1, <2>2
  <2>3. CASE Fault /\ UNCHANGED payloadVars
    BY <1>2, <2>1, <2>3 DEF Fault
  <2>. QED  BY <1>8, <2>2, <2>3 DEF UndoPayload
<1>9. ASSUME NEW v \in Ids, RecoverPending(v)
      PROVE  LogicRooted'
  <2>1. todo = {} /\ todo' = {} /\ faults' = faults /\ v \notin Committed
    BY <1>9 DEF RecoverPending, procVars, LogicRooted, PendingIds, Committed
  <2>. QED  BY <1>5, <1>6, <1>9, <2>1 DEF RecoverPending
<1>10. ASSUME NEW v \in Ids, NEW lay \in Layers, Promote(v, lay)
       PROVE  LogicRooted'
  <2>1. /\ todo = {} /\ todo' = {} /\ faults' = faults /\ Committed' = Committed
        /\ status' = status
        /\ \A w \in Ids : layer'[w] = "contextual_logic" =>
              layer[w] = "contextual_logic" /\ related'[w] = related[w]
    BY <1>1, <1>10 DEF Promote, Idle, procVars, Committed, TypeOK
  <2>2. faults' < 2 =>
           \A w \in Ids : status'[w] # "none" /\ layer'[w] = "contextual_logic" =>
                          related'[w] \subseteq Committed'
    BY <1>1, <2>1, RootedFrame
  <2>. QED  BY <2>1, <2>2 DEF LogicRooted
<1>11. ASSUME NEW v \in Ids, RefreshLive(v)
       PROVE  LogicRooted'
  BY <1>11 DEF RefreshLive, LogicRooted, PendingIds, ContextualLogic, Committed, procVars
<1>12. ASSUME NEW v \in Ids, Forget(v) \/ PruneExpired(v)
       PROVE  LogicRooted'
  <2>1. /\ UNCHANGED payloadVars /\ faults' = faults /\ todo' = Dependents(v) \cup {v}
        /\ pc' = "recover" => PendingIds = {}
    BY <1>12 DEF Forget, PruneExpired, StartErasing, Idle, Recovering
  <2>2. \A w \in ContextualLogic : related[w] \cap todo' # {} => w \in todo'
    BY <2>1, DependentsClosed
  <2>. QED  BY <1>2, <2>1, <2>2
<1>13. ASSUME NEW v \in Ids, ErasePayload(v)
       PROVE  LogicRooted'
  <2>1. CASE GiveUpErasing /\ UNCHANGED payloadVars
    BY <1>2, <2>1 DEF GiveUpErasing, Fault
  <2>2. CASE Delete(v) /\ UNCHANGED <<todo, faults>>
    <3>1. /\ Committed' = Committed \ {v} /\ pc' = pc /\ v \in todo
          /\ \A w \in todo : v \notin related[w]
          /\ \A w \in Ids : status'[w] # "none" =>
               /\ w # v /\ status'[w] = status[w] /\ layer'[w] = layer[w]
               /\ related'[w] = related[w]
      <4>1. Committed' = Committed \ {v}
        BY <1>1, <2>2, DeletePayload
      <4>2. pc' = pc /\ v \in todo /\ \A w \in todo : v \notin related[w]
        BY <1>13 DEF ErasePayload, Erasable
      <4>3. \A w \in Ids : status'[w] # "none" =>
               /\ w # v /\ status'[w] = status[w] /\ layer'[w] = layer[w]
               /\ related'[w] = related[w]
        BY <1>1, <2>2 DEF Delete, DeleteRow, TypeOK
      <4>. QED  BY <4>1, <4>2, <4>3
    <3>2. PendingIds' \subseteq PendingIds
      BY <1>1, <2>2, PendingAfter
    <3>3. ASSUME NEW w \in ContextualLogic'
          PROVE  w \in ContextualLogic /\ w # v /\ related'[w] = related[w]
      BY <3>1 DEF ContextualLogic, Committed
    <3>4. \A w \in ContextualLogic' : related'[w] \cap todo' # {} => w \in todo'
      BY <2>2, <3>3 DEF LogicRooted
    <3>5. ASSUME faults < 2 PROVE PendingIds = {}
      <4>1. pc \in {"idle", "recover"}
        BY <1>1, <3>1 DEF TypeOK
      <4>2. CASE pc = "recover"
        BY <3>1, <4>2 DEF LogicRooted
      <4>3. CASE pc = "idle"
        BY <1>1, <3>5, <4>3 DEF HalfDone, TypeOK, PendingIds, Ids
      <4>. QED  BY <4>1, <4>2, <4>3
    <3>6. ASSUME faults < 2, NEW w \in Ids, status'[w] # "none",
                 layer'[w] = "contextual_logic"
          PROVE  related'[w] \subseteq Committed'
      <4>1. w \in ContextualLogic
        BY <1>1, <3>1, <3>5, <3>6 DEF TypeOK, PendingIds, ContextualLogic, Committed
      <4>2. v \notin related[w]
        BY <3>1, <4>1 DEF LogicRooted
      <4>3. related[w] \subseteq Committed
        BY <3>1, <3>6 DEF LogicRooted
      <4>. QED  BY <3>1, <3>6, <4>2, <4>3
    <3>7. pc' = "recover" /\ todo' # {} => PendingIds' = {}
      BY <2>2, <3>1, <3>2 DEF LogicRooted
    <3>. QED  BY <2>2, <3>4, <3>6, <3>7 DEF LogicRooted
  <2>. QED  BY <1>13, <2>1, <2>2 DEF ErasePayload
<1>14. CASE EraseLifecycle
  <2>1. UNCHANGED <<payloadVars, pc>> /\ faults' \in {faults, faults + 1}
    BY <1>14 DEF EraseLifecycle, GiveUpErasing, Fault
  <2>2. CASE todo' = {}
    BY <1>2, <2>1, <2>2
  <2>3. CASE todo' = todo \ {erasing}
    <3>1. erasing \notin ContextualLogic
      BY <1>14 DEF EraseLifecycle, IInv, ErasingUnderWay, ContextualLogic, Committed
    <3>2. \A w \in ContextualLogic : related[w] \cap todo' # {} => w \in todo'
      BY <2>3, <3>1 DEF LogicRooted
    <3>3. pc' = "recover" /\ todo' # {} => PendingIds = {}
      BY <2>1, <2>3 DEF LogicRooted
    <3>. QED  BY <1>2, <2>1, <3>2, <3>3
  <2>. QED  BY <1>14, <2>2, <2>3 DEF EraseLifecycle, GiveUpErasing
<1>15. CASE Crash
  BY <1>2, <1>15 DEF Crash
<1>16. CASE Open \/ Recovered
  <2>1. todo = {}
    BY <1>1, <1>16 DEF Open, Recovered, Recovering, TypeOK
  <2>. QED  BY <1>2, <1>16, <2>1 DEF Open, Recovered
<1>17. ASSUME NEW v \in Ids, RecoverOrphan(v) \/ ObserveFails(v)
       PROVE  LogicRooted'
  <2>1. UNCHANGED <<payloadVars, todo, pc>> /\ faults' \in {faults, faults + 1}
    BY <1>17 DEF RecoverOrphan, ObserveFails, Fault, procVars
  <2>. QED  BY <1>2, <2>1 DEF LogicRooted
<1>18. CASE Observe \/ Tick \/ UNCHANGED vars
  <2>1. UNCHANGED <<payloadVars, todo, pc, faults>>
    BY <1>18 DEF Observe, Tick, vars, procVars
  <2>. QED  BY <1>2, <2>1 DEF LogicRooted
<1>. QED
  BY <1>3, <1>4, <1>7, <1>8, <1>9, <1>10, <1>11, <1>12, <1>13, <1>14, <1>15, <1>16,
     <1>17, <1>18 DEF Next

(* forget cascades: no committed contextual logic outlives a record it was *)
(* derived from, whatever crash interrupts the cascade and whatever the    *)
(* graph of derivations, unless the rollback of a remember failed.         *)
THEOREM ErasureCascades == Spec => []NoOrphanLogic
<1>1. Init => HalfDone /\ LogicRooted
  BY DEF Init, HalfDone, LogicRooted, ContextualLogic, Committed
<1>2. IInv /\ (HalfDone /\ LogicRooted) /\ [Next]_vars => (HalfDone /\ LogicRooted)'
  BY HalfDoneStep, LogicRootedStep
<1>3. LogicRooted => NoOrphanLogic
  BY DEF LogicRooted, NoOrphanLogic, ContextualLogic, Committed
<1>. QED  BY <1>1, <1>2, <1>3, AgentMemoryInvariant, PTL DEF Spec

-----------------------------------------------------------------------------
(* Retrieval: lists of records                                             *)

\* A set of naturals that is not empty has a least element.
LEMMA Least ==
  ASSUME NEW S, S \subseteq Nat, S # {}
  PROVE  \E x \in S : \A y \in S : x <= y
<1>1. PICK x \in S : \A y \in S : ~(<<y, x>> \in OpToRel(<, Nat))
  BY NatLessThanWellFounded, WFMin
<1>2. \A y \in S : ~(y < x)
  BY <1>1 DEF OpToRel
<1> QED  BY <1>2

\* The function by which Only is defined.
Picks(s, S, f, m) ==
  f = [n \in 0 .. m |-> IF n = 0 THEN <<>>
                        ELSE IF s[n] \in S THEN Append(f[n - 1], s[n]) ELSE f[n - 1]]

LEMMA PicksExist ==
  ASSUME NEW s, NEW S, NEW m \in Nat
  PROVE  \E f : Picks(s, S, f, m)
<1> DEFINE Bad == {k \in Nat : ~\E f : Picks(s, S, f, k)}
<1>1. ASSUME Bad # {} PROVE FALSE
  <2>1. PICK k \in Bad : \A j \in Bad : k <= j
    <3>1. Bad \subseteq Nat
      OBVIOUS
    <3> HIDE DEF Bad
    <3> QED  BY <1>1, <3>1, Least
  <2>2. k \in Nat /\ ~\E f : Picks(s, S, f, k)
    BY <2>1
  <2>3. CASE k = 0
    <3> DEFINE h == [n \in 0 .. 0 |-> <<>>]
    <3>1. Picks(s, S, h, 0)
      BY DEF Picks
    <3> QED  BY <2>2, <2>3, <3>1
  <2>4. CASE k # 0
    <3>1. k - 1 \in Nat /\ ~(k <= k - 1)
      BY <2>2, <2>4
    <3>2. k - 1 \notin Bad
      <4> HIDE DEF Bad
      <4> QED  BY <2>1, <3>1
    <3>3. PICK g : Picks(s, S, g, k - 1)
      BY <3>1, <3>2
    <3> DEFINE Step(f, n) == IF n = 0 THEN <<>>
                             ELSE IF s[n] \in S THEN Append(f[n - 1], s[n]) ELSE f[n - 1]
               h == [n \in 0 .. k |-> IF n = k THEN Step(g, k) ELSE g[n]]
    <3>4. \A n \in 0 .. (k - 1) : g[n] = Step(g, n)
      BY <3>3 DEF Picks
    <3>5. ASSUME NEW n \in 0 .. k  PROVE h[n] = Step(h, n)
      <4>1. CASE n = 0
        <5>1. n # k /\ n \in 0 .. (k - 1)
          BY <2>4, <3>1, <4>1
        <5>2. h[n] = g[n] /\ g[n] = <<>>
          BY <3>4, <4>1, <5>1
        <5> QED  BY <4>1, <5>2
      <4>2. CASE n # 0
        <5>1. n - 1 \in 0 .. (k - 1) /\ n - 1 # k /\ n - 1 \in 0 .. k
          BY <2>2, <4>2
        <5>2. h[n - 1] = g[n - 1]
          BY <5>1
        <5>3. h[n] = Step(g, n)
          <6>1. CASE n = k
            BY <6>1
          <6>2. CASE n # k
            <7>1. n \in 0 .. (k - 1) /\ h[n] = g[n]
              BY <2>2, <6>2
            <7> QED  BY <3>4, <7>1
          <6> QED  BY <6>1, <6>2
        <5> QED  BY <4>2, <5>2, <5>3
      <4> QED  BY <4>1, <4>2
    <3>6. h = [n \in 0 .. k |-> Step(h, n)]
      BY <3>5
    <3> HIDE DEF h
    <3>7. Picks(s, S, h, k)
      BY <3>6 DEF Picks
    <3> QED  BY <2>2, <3>7
  <2> QED  BY <2>3, <2>4
<1> QED  BY <1>1

\* What is kept of the first m records of s: they are listed in the order of s,
\* of which only the first two matter below.
KeptOf(s, S, o, m, T) ==
  /\ o \in Seq(T)
  /\ Range(o) = {s[n] : n \in 1 .. m} \cap S
  /\ (\A n \in 1 .. m : s[n] \notin S) => o = <<>>
  /\ \A a \in 1 .. m :
       s[a] \in S /\ (\A b \in 1 .. (a - 1) : s[b] \notin S) =>
         /\ Len(o) >= 1 /\ o[1] = s[a]
         /\ m = a => Len(o) = 1
         /\ a + 1 <= m /\ s[a + 1] \in S => Len(o) >= 2 /\ o[2] = s[a + 1]

LEMMA KeptOfStep ==
  ASSUME NEW T, NEW s \in Seq(T), NEW S, NEW m \in 1 .. Len(s), NEW o,
         KeptOf(s, S, o, m - 1, T)
  PROVE  KeptOf(s, S, IF s[m] \in S THEN Append(o, s[m]) ELSE o, m, T)
<1>0. /\ m \in Nat /\ m - 1 \in Nat /\ s[m] \in T /\ o \in Seq(T) /\ Len(o) \in Nat
      /\ {s[n] : n \in 1 .. m} = {s[n] : n \in 1 .. (m - 1)} \cup {s[m]}
  <2>1. m \in Nat /\ m - 1 \in Nat /\ s[m] \in T /\ o \in Seq(T) /\ Len(o) \in Nat
    BY DEF KeptOf
  <2>2. \A n : n \in 1 .. m <=> n \in 1 .. (m - 1) \/ n = m
    BY <2>1
  <2> QED  BY <2>1, <2>2
<1>1. CASE s[m] \notin S
  <2>1. Range(o) = {s[n] : n \in 1 .. m} \cap S
    BY <1>0, <1>1 DEF KeptOf
  <2>2. (\A n \in 1 .. m : s[n] \notin S) => o = <<>>
    BY <1>0 DEF KeptOf
  <2>3. ASSUME NEW a \in 1 .. m, s[a] \in S, \A b \in 1 .. (a - 1) : s[b] \notin S
        PROVE  /\ Len(o) >= 1 /\ o[1] = s[a]
               /\ m = a => Len(o) = 1
               /\ a + 1 <= m /\ s[a + 1] \in S => Len(o) >= 2 /\ o[2] = s[a + 1]
    <3>1. a # m /\ a \in 1 .. (m - 1)
      BY <1>0, <1>1, <2>3
    <3>2. /\ Len(o) >= 1 /\ o[1] = s[a]
          /\ a + 1 <= m - 1 /\ s[a + 1] \in S => Len(o) >= 2 /\ o[2] = s[a + 1]
      BY <2>3, <3>1 DEF KeptOf
    <3>3. a + 1 <= m /\ s[a + 1] \in S => a + 1 <= m - 1
      <4>1. s[a + 1] \in S => a + 1 # m
        BY <1>1
      <4> QED  BY <1>0, <3>1, <4>1
    <3> QED  BY <3>1, <3>2, <3>3
  <2> QED  BY <1>0, <1>1, <2>1, <2>2, <2>3 DEF KeptOf
<1>2. CASE s[m] \in S
  <2> DEFINE p == Append(o, s[m])
  <2>1. /\ p \in Seq(T) /\ Len(p) = Len(o) + 1 /\ p[Len(o) + 1] = s[m]
        /\ \A i \in 1 .. Len(o) : p[i] = o[i]
    BY <1>0
  <2>2. Range(p) = Range(o) \cup {s[m]}
    <3>1. DOMAIN p = 1 .. (Len(o) + 1) /\ DOMAIN o = 1 .. Len(o)
      BY <1>0, <2>1
    <3>2. \A i : i \in 1 .. (Len(o) + 1) <=> i \in 1 .. Len(o) \/ i = Len(o) + 1
      BY <1>0
    <3> HIDE DEF p
    <3> QED  BY <2>1, <3>1, <3>2 DEF Range
  <2> HIDE DEF p
  <2>3. Range(p) = {s[n] : n \in 1 .. m} \cap S
    BY <1>0, <1>2, <2>2 DEF KeptOf
  <2>4. m \in 1 .. m
    BY <1>0
  <2>5. ASSUME NEW a \in 1 .. m, s[a] \in S, \A b \in 1 .. (a - 1) : s[b] \notin S
        PROVE  /\ Len(p) >= 1 /\ p[1] = s[a]
               /\ m = a => Len(p) = 1
               /\ a + 1 <= m /\ s[a + 1] \in S => Len(p) >= 2 /\ p[2] = s[a + 1]
    <3>1. CASE a = m
      <4>1. o = <<>>
        BY <2>5, <3>1 DEF KeptOf
      <4>2. Len(o) = 0
        BY <4>1
      <4> QED  BY <1>0, <2>1, <3>1, <4>2
    <3>2. CASE a # m
      <4>1. a \in 1 .. (m - 1)
        BY <1>0, <3>2
      <4>2. /\ Len(o) >= 1 /\ o[1] = s[a]
            /\ m - 1 = a => Len(o) = 1
            /\ a + 1 <= m - 1 /\ s[a + 1] \in S => Len(o) >= 2 /\ o[2] = s[a + 1]
        BY <2>5, <4>1 DEF KeptOf
      <4>3. p[1] = o[1] /\ Len(p) >= 1
        BY <1>0, <2>1, <4>2
      <4>4. CASE a + 1 = m
        <5>1. Len(o) = 1
          BY <4>1, <4>2, <4>4
        <5> QED  BY <2>1, <3>2, <4>2, <4>3, <4>4, <5>1
      <4>5. CASE a + 1 # m
        <5>1. ASSUME a + 1 <= m, s[a + 1] \in S
              PROVE  Len(p) >= 2 /\ p[2] = s[a + 1]
          <6>1. a + 1 <= m - 1
            BY <1>0, <4>1, <4>5, <5>1
          <6>2. Len(o) >= 2 /\ o[2] = s[a + 1]
            BY <4>2, <5>1, <6>1
          <6> QED  BY <1>0, <2>1, <6>2
        <5> QED  BY <3>2, <4>2, <4>3, <5>1
      <4> QED  BY <4>4, <4>5
    <3> QED  BY <3>1, <3>2
  <2>6. KeptOf(s, S, p, m, T)
    BY <1>2, <2>1, <2>3, <2>4, <2>5 DEF KeptOf
  <2> QED  BY <1>2, <2>6 DEF p
<1> QED  BY <1>1, <1>2

LEMMA OnlyIs ==
  ASSUME NEW T, NEW s \in Seq(T), NEW S
  PROVE  KeptOf(s, S, Only(s, S), Len(s), T)
<1> DEFINE taken == CHOOSE f : Picks(s, S, f, Len(s))
<1>0. Len(s) \in Nat
  OBVIOUS
<1>1. Picks(s, S, taken, Len(s))
  BY <1>0, PicksExist
<1>2. Only(s, S) = taken[Len(s)]
  BY DEF Only, Picks
<1> HIDE DEF taken
<1> DEFINE Bad == {n \in 0 .. Len(s) : ~KeptOf(s, S, taken[n], n, T)}
<1>3. ASSUME Bad # {} PROVE FALSE
  <2>1. PICK m \in Bad : \A k \in Bad : m <= k
    <3>1. Bad \subseteq Nat
      BY <1>0
    <3> HIDE DEF Bad
    <3> QED  BY <1>3, <3>1, Least
  <2>2. m \in 0 .. Len(s) /\ ~KeptOf(s, S, taken[m], m, T)
    BY <2>1
  <2>3. taken[m] = IF m = 0 THEN <<>>
                  ELSE IF s[m] \in S THEN Append(taken[m - 1], s[m]) ELSE taken[m - 1]
    BY <1>1, <2>2 DEF Picks
  <2>4. CASE m = 0
    <3>1. <<>> \in Seq(T) /\ Range(<<>>) = {}
      BY DEF Range
    <3>2. 1 .. 0 = {}
      OBVIOUS
    <3>3. KeptOf(s, S, <<>>, 0, T)
      BY <3>1, <3>2 DEF KeptOf
    <3> QED  BY <2>2, <2>3, <2>4, <3>3
  <2>5. CASE m # 0
    <3>1. m \in 1 .. Len(s) /\ m - 1 \in 0 .. Len(s) /\ ~(m <= m - 1)
      BY <1>0, <2>2, <2>5
    <3>2. m - 1 \notin Bad
      <4> HIDE DEF Bad
      <4> QED  BY <2>1, <3>1
    <3>3. KeptOf(s, S, taken[m - 1], m - 1, T)
      BY <3>1, <3>2
    <3> QED  BY <2>2, <2>3, <2>5, <3>1, <3>3, KeptOfStep
  <2> QED  BY <2>4, <2>5
<1>4. Len(s) \in 0 .. Len(s)
  BY <1>0
<1> QED  BY <1>2, <1>3, <1>4

LEMMA OnlyFacts ==
  ASSUME NEW T, NEW s \in Seq(T), NEW S
  PROVE  /\ Only(s, S) \in Seq(T)
         /\ Range(Only(s, S)) = Range(s) \cap S
         /\ (\A n \in DOMAIN s : s[n] \notin S) => Only(s, S) = <<>>
         /\ \A a \in DOMAIN s :
              s[a] \in S /\ (\A b \in 1 .. (a - 1) : s[b] \notin S) =>
                /\ Len(Only(s, S)) >= 1 /\ Only(s, S)[1] = s[a]
                /\ a + 1 \in DOMAIN s /\ s[a + 1] \in S =>
                     Len(Only(s, S)) >= 2 /\ Only(s, S)[2] = s[a + 1]
<1>1. DOMAIN s = 1 .. Len(s) /\ Len(s) \in Nat
  OBVIOUS
<1>2. KeptOf(s, S, Only(s, S), Len(s), T)
  BY OnlyIs
<1>3. Range(s) = {s[n] : n \in 1 .. Len(s)}
  BY <1>1 DEF Range
<1>4. \A a \in 1 .. Len(s) : a + 1 \in 1 .. Len(s) => a + 1 <= Len(s)
  BY <1>1
<1> QED  BY <1>1, <1>2, <1>3, <1>4 DEF KeptOf

\* A record in a list that has one of S has a first one.
LEMMA FirstOf ==
  ASSUME NEW T, NEW s \in Seq(T), NEW S, \E n \in DOMAIN s : s[n] \in S
  PROVE  \E a \in DOMAIN s : s[a] \in S /\ \A b \in 1 .. (a - 1) : s[b] \notin S
<1>1. DOMAIN s = 1 .. Len(s) /\ Len(s) \in Nat
  OBVIOUS
<1> DEFINE B == {n \in DOMAIN s : s[n] \in S}
<1>2. B \subseteq Nat /\ B # {}
  BY <1>1
<1> HIDE DEF B
<1>3. PICK a \in B : \A b \in B : a <= b
  BY <1>2, Least
<1>4. a \in DOMAIN s /\ s[a] \in S
  BY DEF B
<1>5. ASSUME NEW b \in 1 .. (a - 1)  PROVE s[b] \notin S
  <2>1. b \in DOMAIN s /\ ~(a <= b)
    BY <1>1, <1>4
  <2> QED  BY <1>3, <2>1 DEF B
<1> QED  BY <1>4, <1>5

LEMMA UptoIs ==
  ASSUME NEW T, NEW s \in Seq(T), NEW n \in Nat
  PROVE  /\ Upto(s, n) \in Seq(T)
         /\ Len(Upto(s, n)) = IF Len(s) < n THEN Len(s) ELSE n
         /\ \A i \in 1 .. Len(Upto(s, n)) : Upto(s, n)[i] = s[i]
         /\ Range(Upto(s, n)) \subseteq Range(s)
<1> DEFINE k == IF Len(s) < n THEN Len(s) ELSE n
           u == SubSeq(s, 1, k)
<1>1. Len(s) \in Nat /\ k \in Nat /\ k <= Len(s)
  OBVIOUS
<1>2. u \in Seq(T) /\ Len(u) = k /\ \A i \in 1 .. k : u[i] = s[i]
  <2> HIDE DEF k
  <2>1. \A i \in 1 .. k : i \in 1 .. Len(s)
    BY <1>1
  <2> QED  BY <1>1, <2>1, SubSeqProperties
<1>3. Upto(s, n) = u
  BY DEF Upto
<1> HIDE DEF u
<1>4. Range(u) \subseteq Range(s)
  <2>1. DOMAIN u = 1 .. k /\ DOMAIN s = 1 .. Len(s)
    BY <1>2
  <2>2. \A i \in 1 .. k : i \in 1 .. Len(s)
    BY <1>1
  <2> HIDE DEF k
  <2> QED  BY <1>2, <2>1, <2>2 DEF Range
<1> QED  BY <1>2, <1>3, <1>4

-----------------------------------------------------------------------------
(* Retrieval: competing records stay together                              *)

\* The rivals of the first record of a list, by their place in the rest, and
\* the first of them.
RivalPlaces(stored, asOf, rest) ==
  {i \in DOMAIN Tail(rest) : Competing(stored, asOf, Head(rest), Tail(rest)[i])}

FirstRival(stored, asOf, rest) ==
  CHOOSE i \in RivalPlaces(stored, asOf, rest) :
    \A j \in RivalPlaces(stored, asOf, rest) : i <= j

\* One turn of _prioritize_competing_candidates, f being what the turns after it
\* do.
Turned(stored, asOf, f, rest) ==
  IF rest = <<>> THEN <<>>
  ELSE IF RivalPlaces(stored, asOf, rest) = {} THEN <<Head(rest)>> \o f[Tail(rest)]
  ELSE <<Head(rest), Tail(rest)[FirstRival(stored, asOf, rest)]>>
         \o f[RemoveAt(Tail(rest), FirstRival(stored, asOf, rest))]

Lists(D, m) == {s \in Seq(D) : Len(s) <= m}

\* The function by which Prioritized is defined, on the lists of R.
Orders(stored, asOf, f, R) == f = [rest \in R |-> Turned(stored, asOf, f, rest)]

LEMMA Removed ==
  ASSUME NEW D, NEW t \in Seq(D), NEW p \in DOMAIN t
  PROVE  /\ RemoveAt(t, p) \in Seq(D) /\ Len(RemoveAt(t, p)) = Len(t) - 1
         /\ t[p] \in D /\ Range(t) = Range(RemoveAt(t, p)) \cup {t[p]}
<1>1. Len(t) \in Nat /\ p \in 1 .. Len(t) /\ p \in Nat /\ DOMAIN t = 1 .. Len(t)
  OBVIOUS
<1> DEFINE u == SubSeq(t, 1, p - 1)
           v == SubSeq(t, p + 1, Len(t))
<1>2. /\ u \in Seq(D) /\ Len(u) = p - 1 /\ \A i \in 1 .. (p - 1) : u[i] = t[i]
      /\ v \in Seq(D) /\ Len(v) = Len(t) - p
      /\ \A i \in 1 .. (Len(t) - p) : v[i] = t[p + i]
  <2>1. /\ p - 1 \in Int /\ p + 1 \in Int /\ Len(t) \in Int
        /\ \A i \in 1 .. (p - 1) : t[i] \in D
        /\ \A i \in (p + 1) .. Len(t) : t[i] \in D
    BY <1>1
  <2>2. /\ u \in Seq(D) /\ Len(u) = IF 1 <= p - 1 THEN (p - 1) - 1 + 1 ELSE 0
        /\ \A i \in 1 .. ((p - 1) - 1 + 1) : u[i] = t[1 + i - 1]
    BY <2>1, SubSeqProperties
  <2>3. /\ v \in Seq(D)
        /\ Len(v) = IF p + 1 <= Len(t) THEN Len(t) - (p + 1) + 1 ELSE 0
        /\ \A i \in 1 .. (Len(t) - (p + 1) + 1) : v[i] = t[(p + 1) + i - 1]
    BY <2>1, SubSeqProperties
  <2> HIDE DEF u, v
  <2>4. Len(u) = p - 1 /\ Len(v) = Len(t) - p
    BY <1>1, <2>2, <2>3
  <2>5. ASSUME NEW i \in 1 .. (p - 1)  PROVE u[i] = t[i]
    <3>1. i \in 1 .. ((p - 1) - 1 + 1) /\ 1 + i - 1 = i
      BY <1>1
    <3>2. u[i] = t[1 + i - 1]
      BY <2>2, <3>1
    <3> QED  BY <3>1, <3>2
  <2>6. ASSUME NEW i \in 1 .. (Len(t) - p)  PROVE v[i] = t[p + i]
    <3>1. i \in 1 .. (Len(t) - (p + 1) + 1) /\ (p + 1) + i - 1 = p + i
      <4> DEFINE l == Len(t)
      <4>1. l \in Nat /\ p \in Nat /\ i \in 1 .. (l - p)
        BY <1>1
      <4> HIDE DEF l
      <4>2. i \in 1 .. (l - (p + 1) + 1) /\ (p + 1) + i - 1 = p + i
        BY <4>1
      <4> QED  BY <4>2 DEF l
    <3>2. v[i] = t[(p + 1) + i - 1]
      BY <2>3, <3>1
    <3> QED  BY <3>1, <3>2
  <2> QED  BY <2>2, <2>3, <2>4, <2>5, <2>6
<1>3. RemoveAt(t, p) = u \o v
  BY DEF RemoveAt
<1> HIDE DEF u, v
<1>4. u \o v \in Seq(D) /\ Len(u \o v) = Len(t) - 1
  <2>1. u \in Seq(D) /\ v \in Seq(D)
    BY <1>2
  <2>2. u \o v \in Seq(D) /\ Len(u \o v) = Len(u) + Len(v)
    BY <2>1, ConcatProperties
  <2> QED  BY <1>1, <1>2, <2>2
<1>5. ASSUME NEW i \in 1 .. (Len(t) - 1)
      PROVE  (u \o v)[i] = IF i < p THEN t[i] ELSE t[i + 1]
  <2>1. \A k \in 1 .. (Len(u) + Len(v)) :
          (u \o v)[k] = IF k <= Len(u) THEN u[k] ELSE v[k - Len(u)]
    BY <1>2, ConcatProperties
  <2>2. i \in 1 .. (Len(u) + Len(v)) /\ (i <= Len(u) <=> i < p)
    BY <1>1, <1>2
  <2>3. CASE i < p
    <3>1. i \in 1 .. (p - 1)
      BY <1>1, <2>3
    <3> QED  BY <1>2, <2>1, <2>2, <2>3, <3>1
  <2>4. CASE ~(i < p)
    <3>1. i - Len(u) \in 1 .. (Len(t) - p) /\ p + (i - Len(u)) = i + 1
      <4> DEFINE l == Len(t)
      <4>1. l \in Nat /\ p \in 1 .. l /\ i \in 1 .. (l - 1) /\ Len(u) = p - 1
        BY <1>1, <1>2
      <4> HIDE DEF l
      <4>2. i - (p - 1) \in 1 .. (l - p) /\ p + (i - (p - 1)) = i + 1
        BY <2>4, <4>1
      <4> QED  BY <4>1, <4>2 DEF l
    <3>2. v[i - Len(u)] = t[p + (i - Len(u))]
      BY <1>2, <3>1
    <3> QED  BY <2>1, <2>2, <2>4, <3>1, <3>2
  <2> QED  BY <2>3, <2>4
<1>6. Range(t) = Range(u \o v) \cup {t[p]}
  <2> DEFINE w == u \o v
  <2>1. DOMAIN w = 1 .. (Len(t) - 1)
    <3>1. w \in Seq(D) /\ Len(w) = Len(t) - 1
      BY <1>4
    <3> HIDE DEF w
    <3> QED  BY <3>1
  <2>2. ASSUME NEW i \in 1 .. (Len(t) - 1)  PROVE w[i] \in Range(t)
    <3>1. i \in 1 .. Len(t) /\ i + 1 \in 1 .. Len(t)
      BY <1>1
    <3>2. w[i] = t[i] \/ w[i] = t[i + 1]
      BY <1>5
    <3>3. \A k \in 1 .. Len(t) : t[k] \in Range(t)
      BY <1>1 DEF Range
    <3> HIDE DEF w
    <3> QED  BY <3>1, <3>2, <3>3
  <2>3. ASSUME NEW i \in 1 .. Len(t), i # p  PROVE t[i] \in Range(w)
    <3>1. CASE i < p
      <4>1. i \in 1 .. (Len(t) - 1)
        BY <1>1, <3>1
      <4>2. w[i] = t[i]
        BY <1>5, <3>1, <4>1
      <4> HIDE DEF w
      <4> QED  BY <2>1, <4>1, <4>2 DEF Range
    <3>2. CASE ~(i < p)
      <4>1. i - 1 \in 1 .. (Len(t) - 1) /\ ~(i - 1 < p) /\ (i - 1) + 1 = i
        BY <1>1, <2>3, <3>2
      <4>2. w[i - 1] = t[i]
        BY <1>5, <4>1
      <4> HIDE DEF w
      <4> QED  BY <2>1, <4>1, <4>2 DEF Range
    <3> QED  BY <3>1, <3>2
  <2>4. t[p] \in Range(t)
    BY <1>1 DEF Range
  <2> HIDE DEF w
  <2>5. Range(w) \subseteq Range(t)
    BY <2>1, <2>2 DEF Range
  <2>6. Range(t) \subseteq Range(w) \cup {t[p]}
    BY <1>1, <2>3 DEF Range
  <2> QED  BY <2>4, <2>5, <2>6 DEF w
<1> QED  BY <1>1, <1>3, <1>4, <1>6

\* The lists that are left after a turn are shorter.
LEMMA TurnShortens ==
  ASSUME NEW stored, NEW asOf, NEW rest \in Seq(DOMAIN stored), rest # <<>>
  PROVE  /\ Head(rest) \in DOMAIN stored
         /\ Tail(rest) \in Seq(DOMAIN stored) /\ Len(Tail(rest)) = Len(rest) - 1
         /\ Range(rest) = Range(Tail(rest)) \cup {Head(rest)}
         /\ Len(rest) \in Nat /\ Len(rest) >= 1
         /\ RivalPlaces(stored, asOf, rest) # {} =>
              LET t == Tail(rest)
                  p == FirstRival(stored, asOf, rest)
              IN /\ p \in DOMAIN t /\ t[p] \in DOMAIN stored
                 /\ Competing(stored, asOf, Head(rest), t[p])
                 /\ RemoveAt(t, p) \in Seq(DOMAIN stored)
                 /\ Len(RemoveAt(t, p)) = Len(rest) - 2
                 /\ Range(t) = Range(RemoveAt(t, p)) \cup {t[p]}
<1> DEFINE D == DOMAIN stored
           t == Tail(rest)
<1>1. /\ Head(rest) \in D /\ t \in Seq(D) /\ Len(t) = Len(rest) - 1
      /\ Len(rest) \in Nat /\ Len(rest) >= 1
      /\ Head(rest) = rest[1] /\ \A i \in 1 .. Len(t) : t[i] = rest[i + 1]
  BY HeadTailProperties
<1>2. Range(rest) = Range(t) \cup {Head(rest)}
  <2>1. DOMAIN rest = 1 .. Len(rest)
    OBVIOUS
  <2>2. DOMAIN t = 1 .. (Len(rest) - 1)
    <3>1. t \in Seq(D) /\ Len(t) = Len(rest) - 1
      BY <1>1
    <3> HIDE DEF t
    <3> QED  BY <3>1
  <2> HIDE DEF t
  <2>3. \A i \in 1 .. (Len(rest) - 1) : i + 1 \in 1 .. Len(rest)
    BY <1>1
  <2>4. \A i \in 1 .. Len(rest) : i = 1 \/ (i - 1 \in 1 .. (Len(rest) - 1) /\ (i - 1) + 1 = i)
    BY <1>1
  <2>5. 1 \in 1 .. Len(rest)
    BY <1>1
  <2>6. Range(t) \cup {Head(rest)} \subseteq Range(rest)
    BY <1>1, <2>1, <2>2, <2>3, <2>5 DEF Range
  <2>7. Range(rest) \subseteq Range(t) \cup {Head(rest)}
    <3>1. ASSUME NEW i \in 1 .. Len(rest), i # 1  PROVE rest[i] \in Range(t)
      <4>1. i - 1 \in DOMAIN t /\ t[i - 1] = rest[(i - 1) + 1] /\ (i - 1) + 1 = i
        BY <1>1, <2>2, <2>4, <3>1
      <4> QED  BY <4>1 DEF Range
    <3> QED  BY <1>1, <2>1, <3>1 DEF Range
  <2> QED  BY <2>6, <2>7
<1>3. ASSUME RivalPlaces(stored, asOf, rest) # {}
      PROVE  LET p == FirstRival(stored, asOf, rest)
             IN /\ p \in DOMAIN t /\ t[p] \in D
                /\ Competing(stored, asOf, Head(rest), t[p])
                /\ RemoveAt(t, p) \in Seq(D)
                /\ Len(RemoveAt(t, p)) = Len(rest) - 2
                /\ Range(t) = Range(RemoveAt(t, p)) \cup {t[p]}
  <2> DEFINE places == RivalPlaces(stored, asOf, rest)
             p == FirstRival(stored, asOf, rest)
  <2>1. places \subseteq DOMAIN t /\ places # {}
    BY <1>3 DEF RivalPlaces
  <2>2. DOMAIN t \subseteq Nat
    <3>1. t \in Seq(D)
      BY <1>1
    <3> HIDE DEF t
    <3> QED  BY <3>1
  <2>3. \E i \in places : \A j \in places : i <= j
    <3> HIDE DEF places
    <3> QED  BY <2>1, <2>2, Least
  <2>4. p \in places
    BY <2>3 DEF FirstRival
  <2>5. p \in DOMAIN t /\ Competing(stored, asOf, Head(rest), t[p])
    BY <2>4 DEF RivalPlaces
  <2> HIDE DEF p, t
  <2>6. /\ RemoveAt(t, p) \in Seq(D) /\ Len(RemoveAt(t, p)) = Len(t) - 1
        /\ t[p] \in D /\ Range(t) = Range(RemoveAt(t, p)) \cup {t[p]}
    <3>1. t \in Seq(D) /\ p \in DOMAIN t
      BY <1>1, <2>5
    <3> HIDE DEF D
    <3> QED  BY ONLY <3>1, Removed
  <2> QED  BY <1>1, <2>5, <2>6 DEF p
<1> QED  BY <1>1, <1>2, <1>3

\* A turn looks at f on shorter lists only.
LEMMA TurnsAgree ==
  ASSUME NEW stored, NEW asOf, NEW f, NEW g, NEW rest \in Seq(DOMAIN stored),
         \A s \in Seq(DOMAIN stored) : Len(s) < Len(rest) => f[s] = g[s]
  PROVE  Turned(stored, asOf, f, rest) = Turned(stored, asOf, g, rest)
<1> DEFINE D == DOMAIN stored
<1>1. CASE rest = <<>>
  BY <1>1 DEF Turned
<1>2. CASE rest # <<>> /\ RivalPlaces(stored, asOf, rest) = {}
  <2>1. Tail(rest) \in Seq(D) /\ Len(Tail(rest)) < Len(rest)
    BY <1>2, TurnShortens
  <2>2. f[Tail(rest)] = g[Tail(rest)]
    BY <2>1
  <2> QED  BY <1>2, <2>2 DEF Turned
<1>3. CASE rest # <<>> /\ RivalPlaces(stored, asOf, rest) # {}
  <2> DEFINE u == RemoveAt(Tail(rest), FirstRival(stored, asOf, rest))
  <2>1. u \in Seq(D) /\ Len(u) < Len(rest)
    BY <1>3, TurnShortens
  <2>2. f[u] = g[u]
    <3> HIDE DEF u
    <3> QED  BY <2>1
  <2> QED  BY <1>3, <2>2 DEF Turned
<1> QED  BY <1>1, <1>2, <1>3

\* On which lists the function is defined does not matter.
LEMMA OrdersAgree ==
  ASSUME NEW stored, NEW asOf, NEW m \in Nat, NEW n \in Nat, NEW f, NEW g,
         Orders(stored, asOf, f, Lists(DOMAIN stored, m)),
         Orders(stored, asOf, g, Lists(DOMAIN stored, n))
  PROVE  \A rest \in Lists(DOMAIN stored, m) \cap Lists(DOMAIN stored, n) :
           f[rest] = g[rest]
<1> DEFINE D == DOMAIN stored
           Both == Lists(D, m) \cap Lists(D, n)
           Bad == {k \in Nat : \E rest \in Both : Len(rest) = k /\ f[rest] # g[rest]}
<1>1. ASSUME Bad # {} PROVE FALSE
  <2>1. PICK k \in Bad : \A j \in Bad : k <= j
    <3>1. Bad \subseteq Nat
      OBVIOUS
    <3> HIDE DEF Bad
    <3> QED  BY <1>1, <3>1, Least
  <2>2. PICK rest \in Both : Len(rest) = k /\ f[rest] # g[rest]
    BY <2>1
  <2>3. rest \in Seq(D) /\ Len(rest) <= m /\ Len(rest) <= n /\ k \in Nat
    BY <2>1, <2>2 DEF Lists
  <2>4. f[rest] = Turned(stored, asOf, f, rest) /\ g[rest] = Turned(stored, asOf, g, rest)
    BY <2>2 DEF Orders
  <2>5. ASSUME NEW s \in Seq(D), Len(s) < k  PROVE f[s] = g[s]
    <3>1. Len(s) \in Nat /\ ~(k <= Len(s)) /\ s \in Both
      BY <2>2, <2>3, <2>5 DEF Lists
    <3>2. Len(s) \notin Bad
      <4> HIDE DEF Bad
      <4> QED  BY <2>1, <3>1
    <3> QED  BY <3>1, <3>2
  <2>6. \A u \in Seq(D) : Len(u) < Len(rest) => f[u] = g[u]
    BY <2>2, <2>5
  <2>7. Turned(stored, asOf, f, rest) = Turned(stored, asOf, g, rest)
    BY <2>3, <2>6, TurnsAgree
  <2> QED  BY <2>2, <2>4, <2>7
<1> QED  BY <1>1 DEF Lists

LEMMA OrdersExist ==
  ASSUME NEW stored, NEW asOf, NEW m \in Nat
  PROVE  \E f : Orders(stored, asOf, f, Lists(DOMAIN stored, m))
<1> DEFINE D == DOMAIN stored
           Bad == {k \in Nat : ~\E f : Orders(stored, asOf, f, Lists(D, k))}
<1>1. ASSUME Bad # {} PROVE FALSE
  <2>1. PICK k \in Bad : \A j \in Bad : k <= j
    <3>1. Bad \subseteq Nat
      OBVIOUS
    <3> HIDE DEF Bad
    <3> QED  BY <1>1, <3>1, Least
  <2>2. k \in Nat /\ ~\E f : Orders(stored, asOf, f, Lists(D, k))
    BY <2>1
  <2>3. \E g : \A s \in Seq(D) : Len(s) < k => g[s] = Turned(stored, asOf, g, s)
    <3>1. CASE k = 0
      <4>1. \A s \in Seq(D) : ~(Len(s) < k)
        BY <3>1
      <4> QED  BY <4>1
    <3>2. CASE k # 0
      <4>1. k - 1 \in Nat /\ ~(k <= k - 1)
        BY <2>2, <3>2
      <4>2. k - 1 \notin Bad
        <5> HIDE DEF Bad
        <5> QED  BY <2>1, <4>1
      <4>3. PICK g : Orders(stored, asOf, g, Lists(D, k - 1))
        BY <4>1, <4>2
      <4>4. ASSUME NEW s \in Seq(D), Len(s) < k
            PROVE  g[s] = Turned(stored, asOf, g, s)
        <5>1. Len(s) \in Nat /\ Len(s) <= k - 1
          BY <2>2, <4>4
        <5>2. s \in Lists(D, k - 1)
          BY <5>1 DEF Lists
        <5> QED  BY <4>3, <5>2 DEF Orders
      <4> QED  BY <4>4
    <3> QED  BY <3>1, <3>2
  <2>4. PICK g : \A s \in Seq(D) : Len(s) < k => g[s] = Turned(stored, asOf, g, s)
    BY <2>3
  <2> DEFINE h == [rest \in Lists(D, k) |-> Turned(stored, asOf, g, rest)]
  <2>5. ASSUME NEW rest \in Lists(D, k)
        PROVE  h[rest] = Turned(stored, asOf, h, rest)
    <3>1. rest \in Seq(D) /\ Len(rest) <= k /\ Len(rest) \in Nat
      BY DEF Lists
    <3>2. ASSUME NEW s \in Seq(D), Len(s) < Len(rest)  PROVE g[s] = h[s]
      <4>1. Len(s) \in Nat /\ Len(s) < k /\ Len(s) <= k
        BY <2>2, <3>1, <3>2
      <4>2. s \in Lists(D, k)
        BY <4>1 DEF Lists
      <4> QED  BY <2>4, <4>1, <4>2
    <3>3. h[rest] = Turned(stored, asOf, g, rest)
      OBVIOUS
    <3> HIDE DEF h
    <3>4. Turned(stored, asOf, g, rest) = Turned(stored, asOf, h, rest)
      BY <3>1, <3>2, TurnsAgree
    <3> QED  BY <3>3, <3>4
  <2>6. h = [rest \in Lists(D, k) |-> Turned(stored, asOf, h, rest)]
    BY <2>5
  <2> HIDE DEF h
  <2>7. Orders(stored, asOf, h, Lists(D, k))
    BY <2>6 DEF Orders
  <2> QED  BY <2>2, <2>7
<1> QED  BY <1>1

\* The function by which Prioritized is defined, on every list.
Ordered(stored, asOf) == CHOOSE f : Orders(stored, asOf, f, Seq(DOMAIN stored))

LEMMA PrioritizedIs ==
  ASSUME NEW stored, NEW asOf
  PROVE  /\ Orders(stored, asOf, Ordered(stored, asOf), Seq(DOMAIN stored))
         /\ \A ranked : Prioritized(stored, asOf, ranked) = Ordered(stored, asOf)[ranked]
<1> DEFINE D == DOMAIN stored
           G(n) == CHOOSE f : Orders(stored, asOf, f, Lists(D, n))
           F == [rest \in Seq(D) |-> G(Len(rest))[rest]]
<1>1. \A n \in Nat : Orders(stored, asOf, G(n), Lists(D, n))
  BY OrdersExist
<1>2. ASSUME NEW rest \in Seq(D)
      PROVE  F[rest] = Turned(stored, asOf, F, rest)
  <2> DEFINE g == G(Len(rest))
  <2>0. Len(rest) \in Nat /\ rest \in Lists(D, Len(rest))
    BY DEF Lists
  <2>1. F[rest] = g[rest]
    OBVIOUS
  <2>2. Orders(stored, asOf, g, Lists(D, Len(rest)))
    BY <1>1, <2>0
  <2>3. g[rest] = Turned(stored, asOf, g, rest)
    <3> HIDE DEF g
    <3> QED  BY <2>0, <2>2 DEF Orders
  <2>4. ASSUME NEW s \in Seq(D), Len(s) < Len(rest)  PROVE g[s] = F[s]
    <3> DEFINE k == G(Len(s))
    <3>1. Len(s) \in Nat /\ s \in Lists(D, Len(s)) /\ s \in Lists(D, Len(rest))
      BY <2>0, <2>4 DEF Lists
    <3>2. F[s] = k[s]
      OBVIOUS
    <3>3. Orders(stored, asOf, k, Lists(D, Len(s)))
      BY <1>1, <3>1
    <3> HIDE DEF g, k
    <3>4. g[s] = k[s]
      BY <2>0, <2>2, <3>1, <3>3, OrdersAgree
    <3> QED  BY <3>2, <3>4
  <2> HIDE DEF F, g
  <2>5. Turned(stored, asOf, g, rest) = Turned(stored, asOf, F, rest)
    BY <2>4, TurnsAgree
  <2> QED  BY <2>1, <2>3, <2>5
<1>3. F = [rest \in Seq(D) |-> Turned(stored, asOf, F, rest)]
  BY <1>2
<1> HIDE DEF F
<1>4. Orders(stored, asOf, Ordered(stored, asOf), Seq(D))
  <2>1. Orders(stored, asOf, F, Seq(D))
    BY <1>3 DEF Orders
  <2> QED  BY <2>1 DEF Ordered
<1>5. ASSUME NEW ranked
      PROVE  Prioritized(stored, asOf, ranked) = Ordered(stored, asOf)[ranked]
  BY DEF Prioritized, Ordered, Orders, Turned, RivalPlaces, FirstRival
<1> QED  BY <1>4, <1>5

LEMMA Joined ==
  ASSUME NEW D, NEW u \in Seq(D), NEW v \in Seq(D)
  PROVE  /\ u \o v \in Seq(D) /\ Len(u \o v) = Len(u) + Len(v)
         /\ \A i \in 1 .. Len(u) : (u \o v)[i] = u[i]
         /\ \A i \in 1 .. Len(v) : (u \o v)[Len(u) + i] = v[i]
         /\ Range(u \o v) = Range(u) \cup Range(v)
<1> DEFINE w == u \o v
<1>1. /\ w \in Seq(D) /\ Len(w) = Len(u) + Len(v) /\ Len(u) \in Nat /\ Len(v) \in Nat
      /\ \A k \in 1 .. (Len(u) + Len(v)) :
           w[k] = IF k <= Len(u) THEN u[k] ELSE v[k - Len(u)]
  BY ConcatProperties, LenProperties
<1> HIDE DEF w
<1>2. ASSUME NEW i \in 1 .. Len(u)
      PROVE  i \in 1 .. Len(w) /\ w[i] = u[i]
  <2>1. i \in 1 .. (Len(u) + Len(v)) /\ i <= Len(u)
    BY <1>1
  <2> QED  BY <1>1, <2>1
<1>3. ASSUME NEW i \in 1 .. Len(v)
      PROVE  Len(u) + i \in 1 .. Len(w) /\ w[Len(u) + i] = v[i]
  <2>1. /\ Len(u) + i \in 1 .. (Len(u) + Len(v)) /\ ~(Len(u) + i <= Len(u))
        /\ (Len(u) + i) - Len(u) = i
    BY <1>1
  <2> QED  BY <1>1, <2>1
<1>4. DOMAIN w = 1 .. Len(w) /\ DOMAIN u = 1 .. Len(u) /\ DOMAIN v = 1 .. Len(v)
  BY <1>1
<1>5. Range(u) \cup Range(v) \subseteq Range(w)
  BY <1>2, <1>3, <1>4 DEF Range
<1>6. Range(w) \subseteq Range(u) \cup Range(v)
  <2>1. ASSUME NEW k \in 1 .. Len(w)  PROVE w[k] \in Range(u) \cup Range(v)
    <3>1. CASE k <= Len(u)
      <4>1. k \in 1 .. Len(u)
        BY <1>1, <3>1
      <4> QED  BY <1>2, <1>4, <4>1 DEF Range
    <3>2. CASE ~(k <= Len(u))
      <4>1. k - Len(u) \in 1 .. Len(v) /\ Len(u) + (k - Len(u)) = k
        BY <1>1, <3>2
      <4>2. w[k] = v[k - Len(u)]
        BY <1>3, <4>1
      <4> QED  BY <1>4, <4>1, <4>2 DEF Range
    <3> QED  BY <3>1, <3>2
  <2> QED  BY <1>4, <2>1 DEF Range
<1>7. Range(w) = Range(u) \cup Range(v)
  BY <1>5, <1>6
<1> QED  BY <1>1, <1>2, <1>3, <1>7 DEF w

\* The first record of S in a list is followed by a rival, when it has one and
\* all of its rivals are in S.
FirstPaired(stored, asOf, rest, w, S) ==
  \A a \in DOMAIN w :
    /\ w[a] \in S /\ \A b \in 1 .. (a - 1) : w[b] \notin S
    /\ \E y \in Range(rest) : Competing(stored, asOf, w[a], y)
    /\ \A y \in Range(rest) : Competing(stored, asOf, w[a], y) => y \in S
    => a + 1 \in DOMAIN w /\ Competing(stored, asOf, w[a], w[a + 1]) /\ w[a + 1] \in S

\* What _prioritize_competing_candidates makes of the list rest.
Regrouped(stored, asOf, rest, w) ==
  /\ w \in Seq(DOMAIN stored) /\ Range(w) = Range(rest)
  /\ \A S : FirstPaired(stored, asOf, rest, w, S)

\* A record without a rival goes first.
LEMMA AloneFirst ==
  ASSUME NEW stored, NEW asOf, NEW rest \in Seq(DOMAIN stored), rest # <<>>,
         RivalPlaces(stored, asOf, rest) = {},
         NEW v, Regrouped(stored, asOf, Tail(rest), v)
  PROVE  Regrouped(stored, asOf, rest, <<Head(rest)>> \o v)
<1> DEFINE D == DOMAIN stored
           c == Head(rest)
           t == Tail(rest)
           w == <<c>> \o v
<1>1. c \in D /\ t \in Seq(D) /\ Range(rest) = Range(t) \cup {c}
  BY TurnShortens
<1>2. v \in Seq(D) /\ Range(v) = Range(t) /\ Len(v) \in Nat
  BY DEF Regrouped
<1>3. <<c>> \in Seq(D) /\ Len(<<c>>) = 1 /\ <<c>>[1] = c /\ Range(<<c>>) = {c}
  BY <1>1 DEF Range
<1>4. /\ w \in Seq(D) /\ Len(w) = 1 + Len(v) /\ w[1] = c
      /\ \A i \in 1 .. Len(v) : w[1 + i] = v[i]
      /\ Range(w) = Range(rest)
  <2> DEFINE one == <<c>>
  <2>1. one \in Seq(D) /\ Len(one) = 1 /\ one[1] = c /\ Range(one) = {c}
    BY <1>3
  <2>2. w = one \o v
    OBVIOUS
  <2> HIDE DEF one, w
  <2>3. 1 \in 1 .. Len(one)
    BY <2>1
  <2>4. /\ w \in Seq(D) /\ Len(w) = Len(one) + Len(v)
        /\ \A i \in 1 .. Len(one) : w[i] = one[i]
        /\ \A i \in 1 .. Len(v) : w[Len(one) + i] = v[i]
        /\ Range(w) = Range(one) \cup Range(v)
    <3>1. one \in Seq(D) /\ v \in Seq(D)
      BY <1>2, <2>1
    <3> HIDE DEF D
    <3> QED  BY ONLY <2>2, <3>1, Joined
  <2>5. Range(w) = Range(rest)
    BY <1>1, <1>2, <2>1, <2>4
  <2> QED  BY <2>1, <2>3, <2>4, <2>5
<1>5. DOMAIN w = 1 .. (1 + Len(v)) /\ DOMAIN v = 1 .. Len(v)
  <2>1. w \in Seq(D) /\ Len(w) = 1 + Len(v)
    BY <1>4
  <2> HIDE DEF w
  <2> QED  BY <1>2, <2>1
<1> HIDE DEF w
<1>6. ASSUME NEW S, NEW a \in DOMAIN w,
             w[a] \in S, \A b \in 1 .. (a - 1) : w[b] \notin S,
             \E y \in Range(rest) : Competing(stored, asOf, w[a], y),
             \A y \in Range(rest) : Competing(stored, asOf, w[a], y) => y \in S
      PROVE  a + 1 \in DOMAIN w /\ Competing(stored, asOf, w[a], w[a + 1]) /\ w[a + 1] \in S
  <2>1. CASE a = 1
    <3>1. PICK y \in Range(rest) : Competing(stored, asOf, c, y)
      BY <1>4, <1>6, <2>1
    <3>2. y # c
      BY <3>1 DEF Competing
    <3>3. y \in Range(t)
      BY <1>1, <3>2
    <3>4. PICK i \in DOMAIN t : t[i] = y
      BY <3>3 DEF Range
    <3>5. i \in RivalPlaces(stored, asOf, rest)
      BY <3>1, <3>4 DEF RivalPlaces
    <3> QED  BY <3>5
  <2>2. CASE a # 1
    <3>1. a \in 1 .. (1 + Len(v)) /\ a - 1 \in 1 .. Len(v) /\ 1 + (a - 1) = a /\ 1 \in 1 .. (a - 1)
      BY <1>2, <1>5, <2>2
    <3>2. w[a] = v[a - 1] /\ c \notin S
      BY <1>4, <1>6, <3>1
    <3>3. ASSUME NEW b \in 1 .. (a - 1 - 1)  PROVE v[b] \notin S
      <4>1. 1 + b \in 1 .. (a - 1) /\ b \in 1 .. Len(v)
        BY <1>2, <3>1
      <4> QED  BY <1>4, <1>6, <4>1
    <3>4. \E y \in Range(t) : Competing(stored, asOf, v[a - 1], y)
      BY <1>1, <1>6, <3>2
    <3>5. \A y \in Range(t) : Competing(stored, asOf, v[a - 1], y) => y \in S
      BY <1>1, <1>6, <3>2
    <3>6. FirstPaired(stored, asOf, t, v, S)
      BY DEF Regrouped
    <3>7. /\ a - 1 + 1 \in DOMAIN v /\ Competing(stored, asOf, v[a - 1], v[a - 1 + 1])
          /\ v[a - 1 + 1] \in S
      BY <1>5, <1>6, <3>1, <3>2, <3>3, <3>4, <3>5, <3>6 DEF FirstPaired
    <3>8. a - 1 + 1 = a /\ a \in 1 .. Len(v)
      BY <1>5, <3>1, <3>7
    <3>9. a + 1 \in DOMAIN w /\ w[a + 1] = v[a] /\ a + 1 = 1 + a
      BY <1>2, <1>4, <1>5, <3>8
    <3> QED  BY <3>2, <3>7, <3>8, <3>9
  <2> QED  BY <2>1, <2>2
<1>7. \A S : FirstPaired(stored, asOf, rest, w, S)
  BY <1>6 DEF FirstPaired
<1>8. Regrouped(stored, asOf, rest, w)
  BY <1>4, <1>7 DEF Regrouped
<1> QED  BY <1>8 DEF w

LEMMA CompetingSymmetric ==
  ASSUME NEW stored, NEW asOf, NEW i, NEW j, Competing(stored, asOf, i, j)
  PROVE  Competing(stored, asOf, j, i)
BY DEF Competing

\* A record with a rival goes first, and the first of its rivals second.
LEMMA PairFirst ==
  ASSUME NEW stored, NEW asOf, NEW rest \in Seq(DOMAIN stored), rest # <<>>,
         NEW c, c = Head(rest), NEW p, NEW left,
         p \in DOMAIN stored, c \in DOMAIN stored, Competing(stored, asOf, c, p),
         Range(rest) = Range(left) \cup {p, c},
         NEW v, Regrouped(stored, asOf, left, v)
  PROVE  Regrouped(stored, asOf, rest, <<c, p>> \o v)
<1> DEFINE D == DOMAIN stored
           w == <<c, p>> \o v
<1>2. v \in Seq(D) /\ Range(v) = Range(left) /\ Len(v) \in Nat
  BY DEF Regrouped
<1>4. /\ w \in Seq(D) /\ Len(w) = 2 + Len(v) /\ w[1] = c /\ w[2] = p
      /\ \A i \in 1 .. Len(v) : w[2 + i] = v[i]
      /\ Range(w) = Range(rest)
  <2> DEFINE two == <<c, p>>
  <2>1. two \in Seq(D) /\ Len(two) = 2 /\ two[1] = c /\ two[2] = p
    OBVIOUS
  <2>0. Range(two) = {p, c}
    <3>1. DOMAIN two = {1, 2}
      OBVIOUS
    <3> HIDE DEF two
    <3> QED  BY <2>1, <3>1 DEF Range
  <2>2. w = two \o v
    OBVIOUS
  <2> HIDE DEF two, w
  <2>3. 1 \in 1 .. Len(two) /\ 2 \in 1 .. Len(two)
    BY <2>1
  <2>4. /\ w \in Seq(D) /\ Len(w) = Len(two) + Len(v)
        /\ \A i \in 1 .. Len(two) : w[i] = two[i]
        /\ \A i \in 1 .. Len(v) : w[Len(two) + i] = v[i]
        /\ Range(w) = Range(two) \cup Range(v)
    <3>1. two \in Seq(D) /\ v \in Seq(D)
      BY <1>2, <2>1
    <3> HIDE DEF D
    <3> QED  BY ONLY <2>2, <3>1, Joined
  <2>5. Range(w) = Range(rest)
    BY <1>2, <2>0, <2>4
  <2> QED  BY <2>1, <2>3, <2>4, <2>5
<1>5. DOMAIN w = 1 .. (2 + Len(v)) /\ DOMAIN v = 1 .. Len(v)
  <2>1. w \in Seq(D) /\ Len(w) = 2 + Len(v)
    BY <1>4
  <2> HIDE DEF w
  <2> QED  BY <1>2, <2>1
<1> HIDE DEF w
<1>6. ASSUME NEW S, NEW a \in DOMAIN w,
             w[a] \in S, \A b \in 1 .. (a - 1) : w[b] \notin S,
             \E y \in Range(rest) : Competing(stored, asOf, w[a], y),
             \A y \in Range(rest) : Competing(stored, asOf, w[a], y) => y \in S
      PROVE  a + 1 \in DOMAIN w /\ Competing(stored, asOf, w[a], w[a + 1]) /\ w[a + 1] \in S
  <2>1. CASE a = 1
    <3>1. a + 1 = 2 /\ 2 \in DOMAIN w
      BY <1>2, <1>5, <2>1
    <3>0. p \in Range(rest)
      OBVIOUS
    <3>2. p \in S
      BY <1>4, <1>6, <2>1, <3>0
    <3> QED  BY <1>4, <2>1, <3>1, <3>2
  <2>2. CASE a = 2
    <3>1. 1 \in 1 .. (a - 1)
      BY <2>2
    <3>2. c \notin S
      BY <1>4, <1>6, <3>1
    <3>3. Competing(stored, asOf, p, c)
      BY CompetingSymmetric
    <3> QED  BY <1>4, <1>6, <2>2, <3>2, <3>3
  <2>3. CASE a # 1 /\ a # 2
    <3>1. /\ a \in 1 .. (2 + Len(v)) /\ a - 2 \in 1 .. Len(v) /\ 2 + (a - 2) = a
          /\ 1 \in 1 .. (a - 1) /\ 2 \in 1 .. (a - 1)
      BY <1>2, <1>5, <2>3
    <3>2. w[a] = v[a - 2] /\ c \notin S /\ p \notin S
      BY <1>4, <1>6, <3>1
    <3>3. ASSUME NEW b \in 1 .. (a - 2 - 1)  PROVE v[b] \notin S
      <4>1. 2 + b \in 1 .. (a - 1) /\ b \in 1 .. Len(v)
        BY <1>2, <3>1
      <4> QED  BY <1>4, <1>6, <4>1
    <3>4. \E y \in Range(left) : Competing(stored, asOf, v[a - 2], y)
      BY <1>6, <3>2
    <3>5. \A y \in Range(left) : Competing(stored, asOf, v[a - 2], y) => y \in S
      BY <1>6, <3>2
    <3>6. FirstPaired(stored, asOf, left, v, S)
      BY DEF Regrouped
    <3>7. /\ a - 2 + 1 \in DOMAIN v /\ Competing(stored, asOf, v[a - 2], v[a - 2 + 1])
          /\ v[a - 2 + 1] \in S
      BY <1>5, <1>6, <3>1, <3>2, <3>3, <3>4, <3>5, <3>6 DEF FirstPaired
    <3>8. a - 2 + 1 \in 1 .. Len(v) /\ 2 + (a - 2 + 1) = a + 1
      BY <1>5, <3>1, <3>7
    <3>9. a + 1 \in DOMAIN w /\ w[a + 1] = v[a - 2 + 1]
      <4>1. w[2 + (a - 2 + 1)] = v[a - 2 + 1]
        BY <1>4, <3>8
      <4>2. a + 1 \in 1 .. (2 + Len(v))
        BY <1>2, <3>1, <3>8
      <4> QED  BY <1>5, <3>8, <4>1, <4>2
    <3> QED  BY <3>2, <3>7, <3>9
  <2> QED  BY <2>1, <2>2, <2>3
<1>7. \A S : FirstPaired(stored, asOf, rest, w, S)
  BY <1>6 DEF FirstPaired
<1>8. Regrouped(stored, asOf, rest, w)
  BY <1>4, <1>7 DEF Regrouped
<1> QED  BY <1>8 DEF w

\* _prioritize_competing_candidates loses no candidate and keeps rivals together.
LEMMA PrioritizedRegroups ==
  ASSUME NEW stored, NEW asOf, NEW ranked \in Seq(DOMAIN stored)
  PROVE  Regrouped(stored, asOf, ranked, Prioritized(stored, asOf, ranked))
<1> DEFINE D == DOMAIN stored
           F == Ordered(stored, asOf)
           Bad == {k \in Nat : \E rest \in Seq(D) :
                     Len(rest) = k /\ ~Regrouped(stored, asOf, rest, F[rest])}
<1>0. \A rest \in Seq(D) : F[rest] = Turned(stored, asOf, F, rest)
  <2>1. Orders(stored, asOf, F, Seq(D))
    BY PrioritizedIs
  <2> HIDE DEF F
  <2> QED  BY <2>1 DEF Orders
<1> HIDE DEF F
<1>1. ASSUME Bad # {} PROVE FALSE
  <2>1. PICK k \in Bad : \A j \in Bad : k <= j
    <3>1. Bad \subseteq Nat
      OBVIOUS
    <3> HIDE DEF Bad
    <3> QED  BY <1>1, <3>1, Least
  <2>2. PICK rest \in Seq(D) : Len(rest) = k /\ ~Regrouped(stored, asOf, rest, F[rest])
    BY <2>1
  <2>3. F[rest] = Turned(stored, asOf, F, rest)
    BY <1>0
  <2>4. ASSUME NEW s \in Seq(D), Len(s) < k
        PROVE  Regrouped(stored, asOf, s, F[s])
    <3>1. Len(s) \in Nat /\ k \in Nat /\ ~(k <= Len(s))
      BY <2>1, <2>4
    <3>2. Len(s) \notin Bad
      <4> HIDE DEF Bad
      <4> QED  BY <2>1, <3>1
    <3> QED  BY <3>1, <3>2
  <2>5. CASE rest = <<>>
    <3>1. F[rest] = <<>>
      BY <2>3, <2>5 DEF Turned
    <3>2. <<>> \in Seq(D) /\ DOMAIN <<>> = {}
      OBVIOUS
    <3>3. Regrouped(stored, asOf, <<>>, <<>>)
      BY <3>2 DEF Regrouped, FirstPaired
    <3> QED  BY <2>2, <2>5, <3>1, <3>3
  <2>6. CASE rest # <<>> /\ RivalPlaces(stored, asOf, rest) = {}
    <3>1. Tail(rest) \in Seq(D) /\ Len(Tail(rest)) < k
      BY <2>2, <2>6, TurnShortens
    <3>2. Regrouped(stored, asOf, Tail(rest), F[Tail(rest)])
      BY <2>4, <3>1
    <3>3. Regrouped(stored, asOf, rest, <<Head(rest)>> \o F[Tail(rest)])
      BY <2>6, <3>2, AloneFirst
    <3> QED  BY <2>2, <2>3, <2>6, <3>3 DEF Turned
  <2>7. CASE rest # <<>> /\ RivalPlaces(stored, asOf, rest) # {}
    <3> DEFINE c == Head(rest)
               t == Tail(rest)
               q == FirstRival(stored, asOf, rest)
               p == t[q]
               left == RemoveAt(t, q)
    <3>1. /\ c \in D /\ p \in D /\ Competing(stored, asOf, c, p)
          /\ left \in Seq(D) /\ Len(left) < k
          /\ Range(rest) = Range(left) \cup {p, c}
      <4>1. /\ c \in D /\ p \in D /\ Competing(stored, asOf, c, p)
            /\ left \in Seq(D) /\ Len(left) = Len(rest) - 2
            /\ Range(rest) = Range(t) \cup {c} /\ Range(t) = Range(left) \cup {p}
            /\ Len(rest) \in Nat
        BY <2>7, TurnShortens
      <4> HIDE DEF c, t, q, p, left
      <4> QED  BY <2>2, <4>1
    <3>2. F[rest] = <<c, p>> \o F[left]
      BY <2>3, <2>7 DEF Turned
    <3>3. c = Head(rest)
      OBVIOUS
    <3> HIDE DEF c, t, q, p, left
    <3>4. Regrouped(stored, asOf, left, F[left])
      BY <2>4, <3>1
    <3>5. Regrouped(stored, asOf, rest, <<c, p>> \o F[left])
      BY <2>7, <3>1, <3>3, <3>4, PairFirst
    <3> QED  BY <2>2, <3>2, <3>5
  <2> QED  BY <2>5, <2>6, <2>7
<1>2. Len(ranked) \in Nat
  OBVIOUS
<1>3. Regrouped(stored, asOf, ranked, F[ranked])
  BY <1>1, <1>2
<1>4. Prioritized(stored, asOf, ranked) = F[ranked]
  BY PrioritizedIs DEF F
<1> QED  BY <1>3, <1>4

LEMMA KeptIs ==
  ASSUME NEW stored, NEW asOf, NEW topK \in Nat \ {0}, NEW found \in Seq(DOMAIN stored)
  PROVE  LET taken == Kept(stored, topK, asOf, found)
         IN /\ taken \in Seq(DOMAIN stored) /\ Range(taken) \subseteq Range(found)
            /\ taken # <<>> => Len(found) >= 1 /\ taken[1] = found[1]
            /\ Len(found) >= 2 /\ Competing(stored, asOf, found[1], found[2]) =>
                 Len(taken) >= 2 /\ taken[2] = found[2]
<1> DEFINE D == DOMAIN stored
           m == IF topK = 1 THEN 2 ELSE topK
           scanned == Upto(found, m)
           expanded == /\ topK = 1
                       /\ Len(scanned) = 2
                       /\ Competing(stored, asOf, scanned[1], scanned[2])
           n == IF expanded THEN 2 ELSE topK
           taken == Upto(scanned, n)
<1>1. taken = Kept(stored, topK, asOf, found)
  BY DEF Kept
<1>2. m \in Nat /\ m >= 2 /\ n \in Nat /\ n >= 1 /\ Len(found) \in Nat
  OBVIOUS
<1>3. /\ scanned \in Seq(D) /\ Len(scanned) = IF Len(found) < m THEN Len(found) ELSE m
      /\ \A i \in 1 .. Len(scanned) : scanned[i] = found[i]
      /\ Range(scanned) \subseteq Range(found)
  <2> HIDE DEF m
  <2> QED  BY <1>2, UptoIs
<1>4. /\ taken \in Seq(D) /\ Len(taken) = IF Len(scanned) < n THEN Len(scanned) ELSE n
      /\ \A i \in 1 .. Len(taken) : taken[i] = scanned[i]
      /\ Range(taken) \subseteq Range(scanned)
  <2>1. scanned \in Seq(D) /\ n \in Nat
    BY <1>2, <1>3
  <2> HIDE DEF scanned, n
  <2> QED  BY <2>1, UptoIs
<1>5. Len(scanned) \in Nat /\ Len(taken) \in Nat
  BY <1>2, <1>3, <1>4
<1>6. ASSUME taken # <<>>
      PROVE  Len(found) >= 1 /\ taken[1] = found[1]
  <2>1. Len(taken) # 0
    <3>1. taken \in Seq(D)
      BY <1>4
    <3> HIDE DEF taken
    <3> QED  BY <1>6, <3>1, EmptySeq
  <2> HIDE DEF taken, scanned, m, n
  <2>2. 1 \in 1 .. Len(taken) /\ 1 \in 1 .. Len(scanned) /\ Len(found) >= 1
    BY <1>2, <1>3, <1>4, <1>5, <2>1
  <2> QED  BY <1>3, <1>4, <2>2
<1>7. ASSUME Len(found) >= 2, Competing(stored, asOf, found[1], found[2])
      PROVE  Len(taken) >= 2 /\ taken[2] = found[2]
  <2>1. Len(scanned) >= 2
    BY <1>2, <1>3, <1>7
  <2>2. scanned[1] = found[1] /\ scanned[2] = found[2]
    <3>1. 1 \in 1 .. Len(scanned) /\ 2 \in 1 .. Len(scanned)
      BY <1>5, <2>1
    <3> QED  BY <1>3, <3>1
  <2>3. n >= 2
    <3>1. CASE topK = 1
      <4>1. Len(scanned) = 2
        BY <1>2, <1>3, <2>1, <3>1
      <4>2. expanded
        BY <1>7, <2>2, <3>1, <4>1
      <4> QED  BY <4>2
    <3>2. CASE topK # 1
      BY <3>2
    <3> QED  BY <3>1, <3>2
  <2> HIDE DEF taken, scanned, m, n
  <2>4. Len(taken) >= 2 /\ 2 \in 1 .. Len(taken)
    BY <1>2, <1>4, <1>5, <2>1, <2>3
  <2> QED  BY <1>4, <2>2, <2>4
<1>8. Range(taken) \subseteq Range(found)
  BY <1>3, <1>4
<1> HIDE DEF taken
<1> QED  BY <1>1, <1>4, <1>6, <1>7, <1>8

\* A corpus of records.
Stored(stored) == stored \in [1 .. MaxStored -> Records]

LEMMA MatchesIs ==
  ASSUME NEW stored, Stored(stored)
  PROVE  /\ Matches(stored) \in Seq(DOMAIN stored)
         /\ Range(Matches(stored)) = {i \in DOMAIN stored : Intact(stored[i])}
<1> DEFINE D == 1 .. MaxStored
           all == [i \in D |-> i]
           S == {i \in D : Intact(stored[i])}
<1>1. DOMAIN stored = D /\ MaxStored \in Nat
  BY RetrievalAssumption DEF Stored
<1>2. all \in Seq(D) /\ Range(all) = D
  <2>1. all \in [D -> D] /\ DOMAIN all = D
    OBVIOUS
  <2>2. Range(all) = D
    BY <2>1 DEF Range
  <2> QED  BY <1>1, <2>1, <2>2
<1>3. Matches(stored) = Only(all, S)
  BY <1>1 DEF Matches
<1> HIDE DEF all, S, D
<1>4. Only(all, S) \in Seq(D) /\ Range(Only(all, S)) = D \cap S
  <2>1. Only(all, S) \in Seq(D) /\ Range(Only(all, S)) = Range(all) \cap S
    BY <1>2, OnlyFacts
  <2> QED  BY <1>2, <2>1
<1>5. D \cap S = {i \in D : Intact(stored[i])}
  BY DEF S
<1> QED  BY <1>1, <1>3, <1>4, <1>5

\* The ranking of candidates loses none.
LEMMA RankedIs ==
  ASSUME NEW stored, NEW asOf, NEW candidates \in Seq(DOMAIN stored)
  PROVE  /\ Ranked(stored, asOf, candidates) \in Seq(DOMAIN stored)
         /\ Range(Ranked(stored, asOf, candidates)) = Range(candidates)
<1> DEFINE D == DOMAIN stored
           current == {i \in D : TemporalCurrent(stored[i], asOf)}
           u == Only(candidates, current)
           v == Only(candidates, D \ current)
<1>1. u \in Seq(D) /\ Range(u) = Range(candidates) \cap current
  BY OnlyFacts
<1>2. v \in Seq(D) /\ Range(v) = Range(candidates) \cap (D \ current)
  BY OnlyFacts
<1>3. Ranked(stored, asOf, candidates) = u \o v
  BY DEF Ranked
<1>4. Range(candidates) \subseteq D
  BY DEF Range
<1>5. u \o v \in Seq(D) /\ Range(u \o v) = Range(u) \cup Range(v)
  <2> HIDE DEF u, v, D
  <2> QED  BY <1>1, <1>2, Joined
<1> HIDE DEF u, v
<1> QED  BY <1>1, <1>2, <1>3, <1>4, <1>5

\* The results that are kept of candidates, of which only those in S are read,
\* and the first two of them.
Selected(stored, asOf, candidates, S, results) ==
  /\ results \in Seq(DOMAIN stored)
  /\ Range(results) \subseteq Range(candidates) \cap S
  /\ results # <<>>
     /\ (\E y \in Range(candidates) : Competing(stored, asOf, results[1], y))
     /\ (\A y \in Range(candidates) : Competing(stored, asOf, results[1], y) => y \in S)
     => Len(results) >= 2 /\ Competing(stored, asOf, results[1], results[2])

LEMMA Selection ==
  ASSUME NEW stored, NEW asOf, NEW topK \in Nat \ {0},
         NEW candidates \in Seq(DOMAIN stored), NEW S,
         NEW results,
         results = Kept(stored, topK, asOf,
                        Only(Prioritized(stored, asOf, Ranked(stored, asOf, candidates)), S))
  PROVE  Selected(stored, asOf, candidates, S, results)
<1> DEFINE D == DOMAIN stored
           ranked == Ranked(stored, asOf, candidates)
           w == Prioritized(stored, asOf, ranked)
           given == Only(w, S)
<1>1. ranked \in Seq(D) /\ Range(ranked) = Range(candidates)
  BY RankedIs
<1>2. w \in Seq(D) /\ Range(w) = Range(candidates) /\ FirstPaired(stored, asOf, ranked, w, S)
  <2>1. Regrouped(stored, asOf, ranked, w)
    <3> HIDE DEF ranked
    <3> QED  BY <1>1, PrioritizedRegroups
  <2> QED  BY <1>1, <2>1 DEF Regrouped
<1>3. results = Kept(stored, topK, asOf, given)
  OBVIOUS
<1> HIDE DEF ranked, w
<1>4. /\ given \in Seq(D) /\ Range(given) = Range(candidates) \cap S
      /\ (\A n \in DOMAIN w : w[n] \notin S) => given = <<>>
      /\ \A a \in DOMAIN w :
           w[a] \in S /\ (\A b \in 1 .. (a - 1) : w[b] \notin S) =>
             /\ Len(given) >= 1 /\ given[1] = w[a]
             /\ a + 1 \in DOMAIN w /\ w[a + 1] \in S =>
                  Len(given) >= 2 /\ given[2] = w[a + 1]
  BY <1>2, OnlyFacts
<1> HIDE DEF given
<1>5. /\ results \in Seq(D) /\ Range(results) \subseteq Range(given)
      /\ results # <<>> => Len(given) >= 1 /\ results[1] = given[1]
      /\ Len(given) >= 2 /\ Competing(stored, asOf, given[1], given[2]) =>
           Len(results) >= 2 /\ results[2] = given[2]
  <2>1. given \in Seq(DOMAIN stored)
    BY <1>4
  <2> DEFINE k == Kept(stored, topK, asOf, given)
  <2>2. /\ k \in Seq(DOMAIN stored) /\ Range(k) \subseteq Range(given)
        /\ k # <<>> => Len(given) >= 1 /\ k[1] = given[1]
        /\ Len(given) >= 2 /\ Competing(stored, asOf, given[1], given[2]) =>
             Len(k) >= 2 /\ k[2] = given[2]
    BY <2>1, KeptIs
  <2> QED  BY <1>3, <2>2
<1>6. ASSUME results # <<>>,
             \E y \in Range(candidates) : Competing(stored, asOf, results[1], y),
             \A y \in Range(candidates) : Competing(stored, asOf, results[1], y) => y \in S
      PROVE  Len(results) >= 2 /\ Competing(stored, asOf, results[1], results[2])
  <2>1. Len(given) >= 1 /\ results[1] = given[1]
    BY <1>5, <1>6
  <2>2. given # <<>>
    BY <2>1
  <2>3. PICK a \in DOMAIN w : w[a] \in S /\ \A b \in 1 .. (a - 1) : w[b] \notin S
    BY <1>2, <1>4, <2>2, FirstOf
  <2>4. given[1] = w[a]
    BY <1>4, <2>3
  <2>5. a + 1 \in DOMAIN w /\ Competing(stored, asOf, w[a], w[a + 1]) /\ w[a + 1] \in S
    BY <1>1, <1>2, <1>6, <2>1, <2>3, <2>4 DEF FirstPaired
  <2>6. Len(given) >= 2 /\ given[2] = w[a + 1]
    BY <1>4, <2>3, <2>5
  <2> QED  BY <1>5, <2>1, <2>4, <2>5, <2>6
<1> QED  BY <1>4, <1>5, <1>6 DEF Selected

\* What both kinds of recall answer with.
LEMMA ResultsAreSound ==
  ASSUME NEW stored, Stored(stored), NEW topK \in Nat \ {0}, NEW asOf,
         NEW offline \in BOOLEAN, NEW results,
         results = IF offline THEN OfflineResults(stored, topK, asOf)
                              ELSE SemanticResults(stored, topK, asOf)
  PROVE  /\ results \in Seq(DOMAIN stored)
         /\ \A i \in Range(results) :
              /\ InEffect(stored[i], asOf) /\ Eligible(stored[i])
              /\ stored[i].state = "sound"
<1> DEFINE D == DOMAIN stored
<1>1. Matches(stored) \in Seq(D) /\ Range(Matches(stored)) = {i \in D : Intact(stored[i])}
  BY MatchesIs
<1>2. \A i \in D : stored[i].state \in {"sound", "expired", "altered", "sealed"}
  BY DEF Stored, Records
<1>3. ASSUME NEW i \in D, Eligible(stored[i]), Intact(stored[i]), Decrypts(stored[i])
      PROVE  stored[i].state = "sound"
  BY <1>2, <1>3 DEF Eligible, Intact, Decrypts
<1>4. CASE offline
  <2> DEFINE C == {i \in D : InEffect(stored[i], asOf)}
             G == {i \in D : Eligible(stored[i]) /\ Decrypts(stored[i])}
             c == OfflineCandidates(stored, asOf)
  <2>1. c \in Seq(D) /\ Range(c) = Range(Matches(stored)) \cap C
    BY <1>1, OnlyFacts DEF OfflineCandidates
  <2>2. results = Kept(stored, topK, asOf,
                       Only(Prioritized(stored, asOf, Ranked(stored, asOf, c)), G))
    BY <1>4 DEF OfflineResults
  <2> HIDE DEF c, G
  <2>3. Selected(stored, asOf, c, G, results)
    BY <2>1, <2>2, Selection
  <2> QED  BY <1>1, <1>3, <2>1, <2>3 DEF Selected, G
<1>5. CASE ~offline
  <2> DEFINE C == {i \in D : InEffect(stored[i], asOf) /\ Eligible(stored[i])}
             G == {i \in D : Decrypts(stored[i])}
             c == SemanticCandidates(stored, asOf)
  <2>1. c \in Seq(D) /\ Range(c) = Range(Matches(stored)) \cap C
    BY <1>1, OnlyFacts DEF SemanticCandidates
  <2>2. results = Kept(stored, topK, asOf,
                       Only(Prioritized(stored, asOf, Ranked(stored, asOf, c)), G))
    BY <1>5 DEF SemanticResults
  <2> HIDE DEF c, G
  <2>3. Selected(stored, asOf, c, G, results)
    BY <2>1, <2>2, Selection
  <2> QED  BY <1>1, <1>3, <2>1, <2>3 DEF Selected, G
<1> QED  BY <1>4, <1>5

\* A recall by vectors keeps the best result together with a rival.
LEMMA RivalsAreKept ==
  ASSUME NEW stored, Stored(stored), NEW topK \in Nat \ {0}, NEW asOf,
         NEW results, results = SemanticResults(stored, topK, asOf), results # <<>>,
         NEW rivals,
         rivals = {i \in DOMAIN stored :
                     /\ InEffect(stored[i], asOf) /\ Eligible(stored[i])
                     /\ Intact(stored[i])
                     /\ Competing(stored, asOf, results[1], i)},
         rivals # {}, \A i \in rivals : stored[i].state = "sound"
  PROVE  /\ Len(results) >= 2 /\ results[2] \in rivals
         /\ Competing(stored, asOf, results[1], results[2])
<1> DEFINE D == DOMAIN stored
           C == {i \in D : InEffect(stored[i], asOf) /\ Eligible(stored[i])}
           G == {i \in D : Decrypts(stored[i])}
           c == SemanticCandidates(stored, asOf)
<1>1. Matches(stored) \in Seq(D) /\ Range(Matches(stored)) = {i \in D : Intact(stored[i])}
  BY MatchesIs
<1>2. c \in Seq(D) /\ Range(c) = Range(Matches(stored)) \cap C
  BY <1>1, OnlyFacts DEF SemanticCandidates
<1>3. results = Kept(stored, topK, asOf,
                     Only(Prioritized(stored, asOf, Ranked(stored, asOf, c)), G))
  BY DEF SemanticResults
<1>4. \A y : y \in rivals <=> y \in Range(c) /\ Competing(stored, asOf, results[1], y)
  BY <1>1, <1>2
<1>5. \A y \in rivals : y \in G
  BY DEF Decrypts
<1> HIDE DEF c, G
<1>6. Selected(stored, asOf, c, G, results)
  BY <1>2, <1>3, Selection
<1>7. Len(results) >= 2 /\ Competing(stored, asOf, results[1], results[2])
  BY <1>4, <1>5, <1>6 DEF Selected
<1>8. results[2] \in Range(c)
  <2>1. results \in Seq(D) /\ Range(results) \subseteq Range(c)
    BY <1>6 DEF Selected
  <2>2. 2 \in DOMAIN results
    BY <1>7, <2>1
  <2>3. results[2] \in Range(results)
    BY <2>2 DEF Range
  <2> QED  BY <2>1, <2>3
<1> QED  BY <1>4, <1>7, <1>8

-----------------------------------------------------------------------------
(* Retrieval: the answers                                                  *)

\* The requests, and the only state an answer to a recall is given in.
Requested == request \in RecallRequests \cup ContextRequests

LEMMA RecallAnswers ==
  ASSUME Requested, NEW topK \in 1 .. 3, NEW asOf \in 0 .. 2, NEW offline \in BOOLEAN,
         Recall(topK, asOf, offline)
  PROVE  RivalsTogether'
<1> DEFINE stored == request.stored
           found == IF offline THEN OfflineResults(stored, topK, asOf)
                               ELSE SemanticResults(stored, topK, asOf)
<1>1. Stored(stored) /\ topK \in Nat \ {0} /\ request' = request
  BY DEF Requested, Recall, RecallRequests, ContextRequests, Stored
<1>2. answer' = Recalled(stored, topK, asOf, found, offline)
  BY DEF Recall
<1>3. /\ answer'.results = found /\ answer'.asOf = asOf /\ answer'.topK = topK
      /\ answer'.conflicting = Conflicting(stored, asOf, found)
      /\ answer'.degraded = offline
  BY <1>2 DEF Recalled
<1> DEFINE results == answer'.results
           rivals == {i \in DOMAIN stored :
                        /\ InEffect(stored[i], asOf) /\ Eligible(stored[i])
                        /\ Intact(stored[i])
                        /\ Competing(stored, asOf, results[1], i)}
<1>4. /\ results \in Seq(DOMAIN stored)
      /\ \A i \in Range(results) :
           /\ InEffect(stored[i], asOf) /\ Eligible(stored[i])
           /\ stored[i].state = "sound"
  <2>1. found = IF offline THEN OfflineResults(stored, topK, asOf)
                           ELSE SemanticResults(stored, topK, asOf)
    OBVIOUS
  <2> HIDE DEF found, stored
  <2>2. /\ found \in Seq(DOMAIN stored)
        /\ \A i \in Range(found) :
             /\ InEffect(stored[i], asOf) /\ Eligible(stored[i])
             /\ stored[i].state = "sound"
    BY <1>1, <2>1, ResultsAreSound
  <2> QED  BY <1>3, <2>2
<1>5. ASSUME results # <<>>, ~offline, rivals # {},
             \A i \in rivals : stored[i].state = "sound"
      PROVE  /\ Len(results) >= 2 /\ results[2] \in rivals
             /\ {results[1], results[2]} \subseteq answer'.conflicting
             /\ topK = 2 => PreflightEvidence(answer') = results
  <2>1. results = SemanticResults(stored, topK, asOf)
    BY <1>3, <1>5
  <2>2. /\ Len(results) >= 2 /\ results[2] \in rivals
        /\ Competing(stored, asOf, results[1], results[2])
    <3> HIDE DEF stored
    <3> QED  BY <1>1, <1>5, <2>1, RivalsAreKept
  <2>3. results[1] \in Range(results) /\ results[2] \in Range(results)
    <3>1. DOMAIN results = 1 .. Len(results) /\ Len(results) \in Nat
      BY <1>4
    <3> HIDE DEF results
    <3>2. 1 \in DOMAIN results /\ 2 \in DOMAIN results
      BY <2>2, <3>1
    <3> QED  BY <3>2 DEF Range
  <2>4. {results[1], results[2]} \subseteq answer'.conflicting
    <3>1. Competing(stored, asOf, results[2], results[1])
      BY <2>2, CompetingSymmetric
    <3>2. answer'.conflicting = Conflicting(stored, asOf, results)
      BY <1>3
    <3> HIDE DEF results, stored
    <3> QED  BY <2>2, <2>3, <3>1, <3>2 DEF Conflicting
  <2>5. PreflightEvidence(answer') = results
    BY <2>4 DEF PreflightEvidence
  <2> QED  BY <2>2, <2>4, <2>5
<1> HIDE DEF found
<1> QED  BY <1>1, <1>3, <1>4, <1>5 DEF RivalsTogether

LEMMA RivalsStep ==
  ASSUME Requested, RivalsTogether, [RetrievalNext]_retrievalVars
  PROVE  Requested' /\ RivalsTogether'
<1>1. ASSUME NEW topK \in 1 .. 3, NEW asOf \in 0 .. 2, NEW offline \in BOOLEAN,
             Recall(topK, asOf, offline)
      PROVE  Requested' /\ RivalsTogether'
  <2>1. RivalsTogether'
    BY <1>1, RecallAnswers
  <2> QED  BY <1>1, <2>1 DEF Requested, Recall
<1>2. CASE BeginContext
  BY <1>2 DEF BeginContext, ContextStart, Requested, RivalsTogether
<1>3. CASE FollowLink
  <2>1. answer'.kind = "trace"
    <3>1. answer.kind = "trace" /\ answer' = Followed(request, answer)
      BY <1>3 DEF FollowLink
    <3> QED  BY <3>1 DEF Followed
  <2> QED  BY <1>3, <2>1 DEF FollowLink, Requested, RivalsTogether
<1>4. CASE EndContext
  BY <1>4 DEF EndContext, Requested, RivalsTogether
<1>5. CASE UNCHANGED retrievalVars
  BY <1>5 DEF retrievalVars, Requested, RivalsTogether, PreflightEvidence
<1> QED  BY <1>1, <1>2, <1>3, <1>4, <1>5 DEF RetrievalNext

-----------------------------------------------------------------------------
(* Retrieval: what a context trace follows                                 *)

\* The function by which FlattenSeq is defined.
Flattens(seqs, f, m) ==
  f = [i \in 1 .. m |-> IF i = 1 THEN seqs[i] ELSE f[i - 1] \o seqs[i]]

LEMMA FlattensExist ==
  ASSUME NEW seqs, NEW m \in Nat
  PROVE  \E f : Flattens(seqs, f, m)
<1> DEFINE Bad == {k \in Nat : ~\E f : Flattens(seqs, f, k)}
<1>1. ASSUME Bad # {} PROVE FALSE
  <2>1. PICK k \in Bad : \A j \in Bad : k <= j
    <3>1. Bad \subseteq Nat
      OBVIOUS
    <3> HIDE DEF Bad
    <3> QED  BY <1>1, <3>1, Least
  <2>2. k \in Nat /\ ~\E f : Flattens(seqs, f, k)
    BY <2>1
  <2> DEFINE Step(f, i) == IF i = 1 THEN seqs[i] ELSE f[i - 1] \o seqs[i]
  <2>3. \E g : \A i \in 1 .. (k - 1) : g[i] = Step(g, i)
    <3>1. CASE k = 0
      <4>1. \A i \in 1 .. (k - 1) : FALSE
        BY <3>1
      <4> QED  BY <4>1
    <3>2. CASE k # 0
      <4>1. k - 1 \in Nat /\ ~(k <= k - 1)
        BY <2>2, <3>2
      <4>2. k - 1 \notin Bad
        <5> HIDE DEF Bad
        <5> QED  BY <2>1, <4>1
      <4>3. PICK g : Flattens(seqs, g, k - 1)
        BY <4>1, <4>2
      <4>4. \A i \in 1 .. (k - 1) : g[i] = Step(g, i)
        BY <4>3 DEF Flattens
      <4> QED  BY <4>4
    <3> QED  BY <3>1, <3>2
  <2>4. PICK g : \A i \in 1 .. (k - 1) : g[i] = Step(g, i)
    BY <2>3
  <2> DEFINE h == [i \in 1 .. k |-> Step(g, i)]
  <2>5. ASSUME NEW i \in 1 .. k  PROVE h[i] = Step(h, i)
    <3>1. CASE i = 1
      BY <3>1
    <3>2. CASE i # 1
      <4>1. i - 1 \in 1 .. (k - 1) /\ i - 1 \in 1 .. k
        BY <2>2, <3>2
      <4>2. h[i - 1] = Step(g, i - 1) /\ g[i - 1] = Step(g, i - 1)
        BY <2>4, <4>1
      <4>3. h[i] = Step(g, i)
        OBVIOUS
      <4> HIDE DEF h
      <4> QED  BY <3>2, <4>2, <4>3
    <3> QED  BY <3>1, <3>2
  <2>6. h = [i \in 1 .. k |-> Step(h, i)]
    BY <2>5
  <2> HIDE DEF h
  <2>7. Flattens(seqs, h, k)
    BY <2>6 DEF Flattens
  <2> QED  BY <2>2, <2>7
<1> QED  BY <1>1

LEMMA FlattenIs ==
  ASSUME NEW T, NEW seqs \in Seq(Seq(T)), seqs # <<>>
  PROVE  /\ FlattenSeq(seqs) \in Seq(T)
         /\ Range(FlattenSeq(seqs)) = UNION {Range(seqs[n]) : n \in DOMAIN seqs}
<1> DEFINE flatten == CHOOSE f : Flattens(seqs, f, Len(seqs))
           Till(n) == UNION {Range(seqs[i]) : i \in 1 .. n}
           Good(n) == flatten[n] \in Seq(T) /\ Range(flatten[n]) = Till(n)
           Bad == {n \in 1 .. Len(seqs) : ~Good(n)}
<1>0. Len(seqs) \in Nat /\ Len(seqs) # 0 /\ DOMAIN seqs = 1 .. Len(seqs)
  BY EmptySeq
<1>1. Flattens(seqs, flatten, Len(seqs))
  BY <1>0, FlattensExist
<1>2. FlattenSeq(seqs) = flatten[Len(seqs)]
  BY <1>0 DEF FlattenSeq, Flattens
<1> HIDE DEF flatten
<1>3. ASSUME Bad # {} PROVE FALSE
  <2>1. PICK m \in Bad : \A k \in Bad : m <= k
    <3>1. Bad \subseteq Nat
      BY <1>0
    <3> HIDE DEF Bad
    <3> QED  BY <1>3, <3>1, Least
  <2>2. m \in 1 .. Len(seqs) /\ ~Good(m) /\ seqs[m] \in Seq(T)
    BY <1>0, <2>1
  <2>3. flatten[m] = IF m = 1 THEN seqs[m] ELSE flatten[m - 1] \o seqs[m]
    BY <1>1, <2>2 DEF Flattens
  <2>4. CASE m = 1
    <3>1. Till(1) = Range(seqs[1])
      <4>1. 1 .. 1 = {1}
        OBVIOUS
      <4> QED  BY <4>1
    <3> QED  BY <2>2, <2>3, <2>4, <3>1
  <2>5. CASE m # 1
    <3>1. m - 1 \in 1 .. Len(seqs) /\ ~(m <= m - 1)
      BY <1>0, <2>2, <2>5
    <3>2. m - 1 \notin Bad
      <4> HIDE DEF Bad
      <4> QED  BY <2>1, <3>1
    <3>3. Good(m - 1)
      BY <3>1, <3>2
    <3>4. Till(m) = Till(m - 1) \cup Range(seqs[m])
      <4>1. \A i : i \in 1 .. m <=> i \in 1 .. (m - 1) \/ i = m
        BY <1>0, <2>2
      <4> QED  BY <4>1
    <3> DEFINE u == flatten[m - 1]
               v == seqs[m]
    <3>5. u \in Seq(T) /\ v \in Seq(T) /\ Range(u) = Till(m - 1)
      BY <2>2, <3>3
    <3>6. flatten[m] = u \o v
      BY <2>3, <2>5
    <3>7. u \o v \in Seq(T) /\ Range(u \o v) = Range(u) \cup Range(v)
      <4> HIDE DEF u, v, Till
      <4> QED  BY ONLY <3>5, Joined
    <3> QED  BY <2>2, <3>4, <3>5, <3>6, <3>7
  <2> QED  BY <2>4, <2>5
<1>4. Good(Len(seqs))
  <2>1. Len(seqs) \in 1 .. Len(seqs)
    BY <1>0
  <2>2. Bad = {}
    BY <1>3
  <2> HIDE DEF Good
  <2> QED  BY <2>1, <2>2
<1> QED  BY <1>0, <1>2, <1>4

\* The requests for a context trace, as far as the trace needs them.
Linked == 1 .. MaxLinked

ContextRequest(r) ==
  /\ r.links \in [Linked -> Seq(Linked)]
  /\ r.roots \in Seq(Linked) /\ r.roots # <<>> /\ Range(r.roots) \cap r.bad = {}
  /\ r.depth \in Nat \ {0}

LEMMA RequestsAreSo ==
  ASSUME NEW r \in ContextRequests
  PROVE  ContextRequest(r)
<1>1. MaxLinked \in Nat /\ 1 \in Linked /\ 2 \in Linked
  BY RetrievalAssumption DEF Linked
<1>2. r.links \in [Linked -> Seq(Linked)]
  <2>1. r.links \in Linkages
    BY DEF ContextRequests
  <2>2. PICK g \in SUBSET {e \in Linked \X Linked : e[1] < e[2]} :
          r.links = [i \in Linked |->
                       Only([j \in Linked |-> j], {j \in Linked : <<i, j>> \in g})]
    BY <2>1 DEF Linkages, Linked
  <2> DEFINE all == [j \in Linked |-> j]
  <2>3. all \in Seq(Linked)
    BY <1>1 DEF Linked
  <2>4. r.links = [i \in Linked |-> Only(all, {j \in Linked : <<i, j>> \in g})]
    BY <2>2
  <2> HIDE DEF all
  <2>5. \A S : Only(all, S) \in Seq(Linked)
    BY <2>3, OnlyFacts
  <2> QED  BY <2>4, <2>5
<1>3. r.roots \in {<<1>>, <<1, 2>>, <<2, 1>>}
  BY DEF ContextRequests
<1>4. r.roots \in Seq(Linked) /\ r.roots # <<>> /\ Range(r.roots) \subseteq {1, 2}
  <2>1. CASE r.roots = <<1>>
    BY <1>1, <2>1 DEF Range
  <2>2. CASE r.roots = <<1, 2>>
    BY <1>1, <2>2 DEF Range
  <2>3. CASE r.roots = <<2, 1>>
    BY <1>1, <2>3 DEF Range
  <2> QED  BY <1>3, <2>1, <2>2, <2>3
<1>5. \A i \in r.bad : i >= 3
  <2>1. r.bad \in {{}} \cup {{i} : i \in 3 .. MaxLinked}
    BY DEF ContextRequests
  <2>2. \A i \in 3 .. MaxLinked : i >= 3
    BY <1>1
  <2> QED  BY <2>1, <2>2
<1>6. Range(r.roots) \cap r.bad = {}
  BY <1>4, <1>5
<1>7. r.depth \in Nat \ {0}
  BY DEF ContextRequests
<1> QED  BY <1>2, <1>4, <1>6, <1>7 DEF ContextRequest

\* The function by which Reached is defined: what is reached in so many links.
LayersOf(r, f, m) ==
  f = [n \in 0 .. m |->
         IF n = 0 THEN Range(r.roots) \ r.gated
         ELSE f[n - 1] \cup UNION {Range(r.links[i]) : i \in f[n - 1] \ r.bad}]

ReachedIn(r) == CHOOSE f : LayersOf(r, f, r.depth)

LEMMA LayersExist ==
  ASSUME NEW r, NEW m \in Nat
  PROVE  \E f : LayersOf(r, f, m)
<1> DEFINE Step(f, n) == IF n = 0 THEN Range(r.roots) \ r.gated
                         ELSE f[n - 1] \cup UNION {Range(r.links[i]) : i \in f[n - 1] \ r.bad}
           Exists(k) == \E f : f = [n \in 0 .. k |-> Step(f, n)]
           Bad == {k \in Nat : ~Exists(k)}
<1>1. ASSUME Bad # {} PROVE FALSE
  <2>1. PICK k \in Bad : \A j \in Bad : k <= j
    <3>1. Bad \subseteq Nat
      OBVIOUS
    <3> HIDE DEF Bad
    <3> QED  BY <1>1, <3>1, Least
  <2>2. k \in Nat /\ ~Exists(k)
    BY <2>1
  <2>3. \E g : \A n \in 0 .. (k - 1) : g[n] = Step(g, n)
    <3>1. CASE k = 0
      <4>1. \A n \in 0 .. (k - 1) : FALSE
        BY <3>1
      <4> QED  BY <4>1
    <3>2. CASE k # 0
      <4>1. k - 1 \in Nat /\ ~(k <= k - 1)
        BY <2>2, <3>2
      <4>2. k - 1 \notin Bad
        <5> HIDE DEF Bad
        <5> QED  BY <2>1, <4>1
      <4>3. Exists(k - 1)
        BY <4>1, <4>2
      <4>4. PICK g : g = [n \in 0 .. (k - 1) |-> Step(g, n)]
        BY <4>3
      <4> HIDE DEF Step
      <4>5. \A n \in 0 .. (k - 1) : g[n] = Step(g, n)
        BY <4>4
      <4> QED  BY <4>5
    <3> QED  BY <3>1, <3>2
  <2>4. PICK g : \A n \in 0 .. (k - 1) : g[n] = Step(g, n)
    BY <2>3
  <2> DEFINE h == [n \in 0 .. k |-> Step(g, n)]
  <2>5. ASSUME NEW n \in 0 .. k  PROVE h[n] = Step(h, n)
    <3>0. h[n] = Step(g, n)
      OBVIOUS
    <3>1. CASE n = 0
      <4> HIDE DEF h
      <4> QED  BY <3>0, <3>1
    <3>2. CASE n # 0
      <4>1. n - 1 \in 0 .. (k - 1) /\ n - 1 \in 0 .. k
        BY <2>2, <3>2
      <4>2. h[n - 1] = g[n - 1]
        <5>1. h[n - 1] = Step(g, n - 1)
          BY <4>1
        <5> HIDE DEF h, Step
        <5> QED  BY <2>4, <4>1, <5>1
      <4> HIDE DEF h
      <4> QED  BY <3>0, <3>2, <4>2
    <3> QED  BY <3>1, <3>2
  <2>6. h = [n \in 0 .. k |-> Step(h, n)]
    <3> HIDE DEF Step
    <3> QED  BY <2>5
  <2> HIDE DEF h
  <2>7. Exists(k)
    BY <2>6
  <2> QED  BY <2>2, <2>7
<1>2. Exists(m)
  BY <1>1
<1>3. PICK f : f = [n \in 0 .. m |-> Step(f, n)]
  BY <1>2
<1>4. LayersOf(r, f, m)
  BY <1>3 DEF LayersOf
<1> QED  BY <1>4

\* What is reached grows, by the links of the records that can be read.
LEMMA LayersAre ==
  ASSUME NEW r, r.depth \in Nat
  PROVE  LET R == ReachedIn(r)
         IN /\ Reached(r) = R[r.depth]
            /\ R[0] = Range(r.roots) \ r.gated
            /\ \A n \in 1 .. r.depth :
                 R[n] = R[n - 1] \cup UNION {Range(r.links[i]) : i \in R[n - 1] \ r.bad}
<1>1. \E f : LayersOf(r, f, r.depth)
  BY LayersExist
<1>2. LayersOf(r, ReachedIn(r), r.depth)
  BY <1>1 DEF ReachedIn
<1>3. Reached(r) = ReachedIn(r)[r.depth]
  BY DEF Reached, ReachedIn, LayersOf
<1> DEFINE R == ReachedIn(r)
<1>4. R = [n \in 0 .. r.depth |->
             IF n = 0 THEN Range(r.roots) \ r.gated
             ELSE R[n - 1] \cup UNION {Range(r.links[i]) : i \in R[n - 1] \ r.bad}]
  BY <1>2 DEF LayersOf
<1> HIDE DEF R
<1>5. 0 \in 0 .. r.depth /\ \A n \in 1 .. r.depth : n \in 0 .. r.depth /\ n # 0
  OBVIOUS
<1>6. R[0] = Range(r.roots) \ r.gated
  BY <1>4, <1>5
<1>7. ASSUME NEW n \in 1 .. r.depth
      PROVE  R[n] = R[n - 1] \cup UNION {Range(r.links[i]) : i \in R[n - 1] \ r.bad}
  BY <1>4, <1>5
<1> QED  BY <1>3, <1>6, <1>7 DEF R

LEMMA LayersGrow ==
  ASSUME NEW r, r.depth \in Nat, NEW n \in 0 .. r.depth
  PROVE  ReachedIn(r)[n] \subseteq Reached(r)
<1> DEFINE R == ReachedIn(r)
           Good(k) == R[n] \subseteq R[k]
           Bad == {k \in n .. r.depth : ~Good(k)}
<1>0. \A k \in 1 .. r.depth : R[k - 1] \subseteq R[k]
  BY LayersAre
<1>1. ASSUME Bad # {} PROVE FALSE
  <2>1. PICK k \in Bad : \A j \in Bad : k <= j
    <3>1. Bad \subseteq Nat
      OBVIOUS
    <3> HIDE DEF Bad
    <3> QED  BY <1>1, <3>1, Least
  <2>2. k \in n .. r.depth /\ ~Good(k)
    BY <2>1
  <2>3. k # n
    BY <2>2
  <2>4. k - 1 \in n .. r.depth /\ k \in 1 .. r.depth /\ ~(k <= k - 1)
    BY <2>2, <2>3
  <2>5. k - 1 \notin Bad
    <3> HIDE DEF Bad
    <3> QED  BY <2>1, <2>4
  <2>6. Good(k - 1)
    BY <2>4, <2>5
  <2> QED  BY <1>0, <2>2, <2>4, <2>6
<1>2. r.depth \in n .. r.depth
  OBVIOUS
<1>3. R[n] \subseteq R[r.depth]
  BY <1>1, <1>2
<1> QED  BY <1>3, LayersAre

-----------------------------------------------------------------------------
(* Retrieval: the queue of a context trace                                 *)

Entries(r) == [to : Linked, depth : 1 .. r.depth, path : Seq(Linked)]

Traces(r) ==
  [kind : {"trace"}, queue : Seq(Entries(r)), visited : SUBSET Linked,
   evidence : SUBSET Linked, incomplete : BOOLEAN]

\* A link to j waits in the queue, at most so many links from a root.
Awaits(q, j, n) == \E a \in DOMAIN q : q[a].to = j /\ q[a].depth <= n

\* The queue is in the order of the number of links, which differs by one at most.
InOrder(q) ==
  \A a, b \in DOMAIN q :
    q[b].depth <= q[a].depth + 1 /\ (a < b => q[a].depth <= q[b].depth)

\* Nothing is followed or found that the roots do not reach.
OnlyReached(r, t) ==
  /\ \A a \in DOMAIN t.queue : t.queue[a].to \in ReachedIn(r)[t.queue[a].depth]
  /\ t.evidence \subseteq Reached(r) \ r.bad

\* Unless the trace calls itself incomplete, every link of a record that was
\* visited leads to one that was visited too, or it waits with as few links from
\* a root as the record can be reached in.
NothingLost(r, t) ==
  ~t.incomplete =>
    /\ Range(r.roots) \cap r.gated = {}
    /\ \A n \in 0 .. (r.depth - 1) :
         \A i \in (ReachedIn(r)[n] \cap t.visited) \ r.bad :
           \A j \in Range(r.links[i]) : j \in t.visited \/ Awaits(t.queue, j, n + 1)

TraceInv(r, t) ==
  /\ t \in Traces(r) /\ t.visited = Range(r.roots) \cup t.evidence
  /\ InOrder(t.queue) /\ OnlyReached(r, t) /\ NothingLost(r, t)

\* What is reached and was not visited has a link in front of it that waits.
LEMMA NearestMissing ==
  ASSUME NEW r, ContextRequest(r), NEW t, TraceInv(r, t), ~t.incomplete,
         NEW n \in 0 .. r.depth, NEW x \in ReachedIn(r)[n], x \notin t.visited
  PROVE  \E a \in DOMAIN t.queue : t.queue[a].depth <= n
<1> DEFINE R == ReachedIn(r)
           Bad == {k \in 0 .. n : ~(R[k] \subseteq t.visited)}
<1>0. /\ r.depth \in Nat /\ n \in Nat
      /\ R[0] = Range(r.roots) \ r.gated
      /\ \A k \in 1 .. r.depth :
           R[k] = R[k - 1] \cup UNION {Range(r.links[i]) : i \in R[k - 1] \ r.bad}
  BY LayersAre DEF ContextRequest
<1>1. PICK m \in Bad : \A k \in Bad : m <= k
  <2>1. Bad \subseteq Nat /\ n \in Bad
    BY <1>0
  <2> HIDE DEF Bad
  <2> QED  BY <2>1, Least
<1>2. m \in 0 .. n /\ ~(R[m] \subseteq t.visited)
  BY <1>1
<1>3. m # 0
  <2>1. Range(r.roots) \subseteq t.visited
    BY DEF TraceInv
  <2>2. R[0] \subseteq t.visited
    BY <1>0, <2>1
  <2> QED  BY <1>2, <2>2
<1>4. m \in 1 .. r.depth /\ m - 1 \in 0 .. (r.depth - 1) /\ ~(m <= m - 1) /\ m - 1 \in 0 .. n
  BY <1>0, <1>2, <1>3
<1>5. R[m - 1] \subseteq t.visited
  <2>1. m - 1 \notin Bad
    <3> HIDE DEF Bad
    <3> QED  BY <1>1, <1>4
  <2> QED  BY <1>4, <2>1
<1>6. PICK j \in R[m] : j \notin t.visited
  BY <1>2
<1>7. R[m] = R[m - 1] \cup UNION {Range(r.links[i]) : i \in R[m - 1] \ r.bad}
  BY <1>0, <1>4
<1>8. PICK i \in R[m - 1] \ r.bad : j \in Range(r.links[i])
  BY <1>5, <1>6, <1>7
<1>9. i \in (R[m - 1] \cap t.visited) \ r.bad
  BY <1>5, <1>8
<1>10. Awaits(t.queue, j, m - 1 + 1)
  BY <1>4, <1>6, <1>8, <1>9 DEF TraceInv, NothingLost
<1>11. PICK a \in DOMAIN t.queue : t.queue[a].depth <= m - 1 + 1
  BY <1>10 DEF Awaits
<1>12. t.queue[a].depth \in Nat
  <2>1. t.queue \in Seq(Entries(r))
    BY DEF TraceInv, Traces
  <2>2. t.queue[a] \in Entries(r)
    BY <2>1
  <2>3. t.queue[a].depth \in 1 .. r.depth
    BY <2>2 DEF Entries
  <2> QED  BY <1>0, <2>3
<1>13. t.queue[a].depth <= n
  BY <1>0, <1>2, <1>11, <1>12
<1> QED  BY <1>13

\* The roots are expanded.
LEMMA TraceStart ==
  ASSUME NEW r, ContextRequest(r)
  PROVE  TraceInv(r, ContextStart(r.links, r.roots, r.gated))
<1> DEFINE R == ReachedIn(r)
           From(i) == [n \in DOMAIN r.links[i] |->
                         [to |-> r.links[i][n], depth |-> 1, path |-> <<i>>]]
           seqs == [n \in DOMAIN r.roots |->
                      IF r.roots[n] \in r.gated THEN <<>> ELSE From(r.roots[n])]
           q == FlattenSeq(seqs)
           t == ContextStart(r.links, r.roots, r.gated)
           E == Entries(r)
<1>0. /\ r.links \in [Linked -> Seq(Linked)] /\ r.roots \in Seq(Linked) /\ r.roots # <<>>
      /\ Range(r.roots) \cap r.bad = {} /\ r.depth \in Nat /\ r.depth >= 1
  BY DEF ContextRequest
<1>1. /\ t = [kind |-> "trace", queue |-> q, visited |-> Range(r.roots),
              evidence |-> {}, incomplete |-> Range(r.roots) \cap r.gated # {}]
  BY DEF ContextStart
<1>2. ASSUME NEW i \in Linked  PROVE From(i) \in Seq(E)
  <2>1. r.links[i] \in Seq(Linked)
    BY <1>0
  <2>2. DOMAIN r.links[i] = 1 .. Len(r.links[i]) /\ Len(r.links[i]) \in Nat
    BY <2>1
  <2>3. ASSUME NEW n \in 1 .. Len(r.links[i])
        PROVE  [to |-> r.links[i][n], depth |-> 1, path |-> <<i>>] \in E
    <3>1. r.links[i][n] \in Linked /\ 1 \in 1 .. r.depth /\ <<i>> \in Seq(Linked)
      BY <1>0, <2>1
    <3> QED  BY <3>1 DEF Entries
  <2> HIDE DEF E
  <2> QED  BY <2>2, <2>3, SeqDef
<1>3. seqs \in Seq(Seq(E)) /\ seqs # <<>> /\ DOMAIN seqs = DOMAIN r.roots
  <2>1. DOMAIN r.roots = 1 .. Len(r.roots) /\ Len(r.roots) \in Nat /\ Len(r.roots) # 0
    BY <1>0, EmptySeq
  <2>2. ASSUME NEW n \in 1 .. Len(r.roots)
        PROVE  (IF r.roots[n] \in r.gated THEN <<>> ELSE From(r.roots[n])) \in Seq(E)
    <3>1. r.roots[n] \in Linked /\ <<>> \in Seq(E)
      BY <1>0
    <3>2. From(r.roots[n]) \in Seq(E)
      BY <1>2, <3>1
    <3> HIDE DEF From, E
    <3> QED  BY <3>1, <3>2
  <2> HIDE DEF From, E
  <2>3. seqs \in [1 .. Len(r.roots) -> Seq(E)]
    BY <2>1, <2>2
  <2>4. seqs \in Seq(Seq(E)) /\ DOMAIN seqs = DOMAIN r.roots
    BY <2>1, <2>3, SeqDef
  <2>5. 1 \in DOMAIN seqs
    BY <2>1, <2>4
  <2> QED  BY <2>4, <2>5
<1>4. /\ q \in Seq(E) /\ Range(q) = UNION {Range(seqs[n]) : n \in DOMAIN r.roots}
  <2> HIDE DEF seqs, E
  <2> QED  BY <1>3, FlattenIs
<1>5. ASSUME NEW a \in DOMAIN q
      PROVE  /\ q[a].depth = 1
             /\ \E i \in Range(r.roots) \ r.gated : q[a].to \in Range(r.links[i])
  <2>1. q[a] \in Range(q)
    BY DEF Range
  <2>2. PICK n \in DOMAIN r.roots : q[a] \in Range(seqs[n])
    <3> HIDE DEF q, seqs
    <3> QED  BY <1>4, <2>1
  <2>3. seqs[n] = IF r.roots[n] \in r.gated THEN <<>> ELSE From(r.roots[n])
    BY <1>3, <2>2
  <2> HIDE DEF q
  <2>4. r.roots[n] \notin r.gated /\ q[a] \in Range(From(r.roots[n]))
    BY <2>2, <2>3 DEF Range
  <2>5. PICK k \in DOMAIN r.links[r.roots[n]] :
          q[a] = [to |-> r.links[r.roots[n]][k], depth |-> 1, path |-> <<r.roots[n]>>]
    BY <2>4 DEF Range
  <2> QED  BY <2>2, <2>4, <2>5 DEF Range
<1>6. ASSUME NEW i \in Range(r.roots) \ r.gated, NEW j \in Range(r.links[i])
      PROVE  Awaits(q, j, 1)
  <2>1. PICK n \in DOMAIN r.roots : r.roots[n] = i
    BY DEF Range
  <2>2. PICK k \in DOMAIN r.links[i] : r.links[i][k] = j
    BY DEF Range
  <2>3. seqs[n] = From(i)
    BY <2>1
  <2> DEFINE e == [to |-> j, depth |-> 1, path |-> <<i>>]
  <2>4. From(i)[k] = e /\ DOMAIN From(i) = DOMAIN r.links[i]
    BY <2>2
  <2>5. e \in Range(seqs[n])
    <3> HIDE DEF seqs, From, e
    <3> QED  BY <2>2, <2>3, <2>4 DEF Range
  <2>6. e \in Range(q)
    <3> HIDE DEF seqs, e, q
    <3> QED  BY <1>4, <2>1, <2>5
  <2>7. PICK a \in DOMAIN q : q[a] = e
    <3> HIDE DEF q, e
    <3> QED  BY <2>6 DEF Range
  <2>8. q[a].to = j /\ q[a].depth <= 1
    <3> HIDE DEF q
    <3> QED  BY <2>7
  <2> QED  BY <2>8 DEF Awaits
<1> HIDE DEF q
<1>7. t \in Traces(r)
  <2>1. Range(r.roots) \subseteq Linked
    BY <1>0 DEF Range
  <2> HIDE DEF t
  <2> QED  BY <1>1, <1>4, <2>1 DEF Traces
<1>8. InOrder(q)
  <2>1. \A a, b \in DOMAIN q : q[b].depth <= q[a].depth + 1 /\ q[a].depth <= q[b].depth
    BY <1>5
  <2> QED  BY <2>1 DEF InOrder
<1>9. OnlyReached(r, t)
  <2>1. /\ R[0] = Range(r.roots) \ r.gated
        /\ R[1] = R[0] \cup UNION {Range(r.links[i]) : i \in R[0] \ r.bad}
    <3>1. 1 \in 1 .. r.depth /\ 1 - 1 = 0
      BY <1>0
    <3>2. /\ R[0] = Range(r.roots) \ r.gated
          /\ \A n \in 1 .. r.depth :
               R[n] = R[n - 1] \cup UNION {Range(r.links[i]) : i \in R[n - 1] \ r.bad}
      BY <1>0, LayersAre
    <3> HIDE DEF R
    <3> QED  BY <3>1, <3>2
  <2>2. ASSUME NEW a \in DOMAIN q  PROVE q[a].to \in R[q[a].depth]
    <3>1. PICK i \in Range(r.roots) \ r.gated : q[a].to \in Range(r.links[i])
      BY <1>5
    <3>2. i \in R[0] \ r.bad
      BY <1>0, <2>1
    <3> HIDE DEF R
    <3> QED  BY <1>5, <2>1, <3>1, <3>2
  <2>3. t.queue = q /\ t.evidence = {}
    BY <1>1
  <2> HIDE DEF t
  <2> QED  BY <2>2, <2>3 DEF OnlyReached
<1>10. NothingLost(r, t)
  <2>1. /\ t.queue = q /\ t.visited = Range(r.roots)
        /\ t.incomplete = (Range(r.roots) \cap r.gated # {})
    BY <1>1
  <2> HIDE DEF t
  <2>2. ASSUME Range(r.roots) \cap r.gated = {}, NEW n \in 0 .. (r.depth - 1),
               NEW i \in Range(r.roots), NEW j \in Range(r.links[i])
        PROVE  Awaits(q, j, n + 1)
    <3>1. PICK a \in DOMAIN q : q[a].to = j /\ q[a].depth <= 1
      BY <1>6, <2>2 DEF Awaits
    <3>2. q[a].depth = 1 /\ 1 <= n + 1
      BY <1>5, <3>1
    <3> QED  BY <3>1, <3>2 DEF Awaits
  <2> QED  BY <2>1, <2>2 DEF NothingLost
<1>11. t.visited = Range(r.roots) \cup t.evidence /\ t.queue = q
  BY <1>1
<1> QED  BY <1>7, <1>8, <1>9, <1>10, <1>11 DEF TraceInv

\* The first link is taken from the queue.
LEMMA QueueTaken ==
  ASSUME NEW E, NEW q \in Seq(E), q # <<>>
  PROVE  /\ Tail(q) \in Seq(E) /\ Head(q) = q[1] /\ q[1] \in E /\ 1 \in DOMAIN q
         /\ \A a \in DOMAIN Tail(q) : Tail(q)[a] = q[a + 1] /\ a + 1 \in DOMAIN q /\ 1 < a + 1
         /\ \A a \in DOMAIN q : a = 1 \/ (a - 1 \in DOMAIN Tail(q) /\ Tail(q)[a - 1] = q[a])
<1> DEFINE u == Tail(q)
<1>1. /\ u \in Seq(E) /\ Len(u) = Len(q) - 1 /\ Len(q) \in Nat /\ Len(q) >= 1
      /\ Head(q) = q[1] /\ \A i \in 1 .. Len(u) : u[i] = q[i + 1]
  BY HeadTailProperties
<1> HIDE DEF u
<1>2. DOMAIN u = 1 .. (Len(q) - 1) /\ DOMAIN q = 1 .. Len(q)
  BY <1>1
<1>3. 1 \in DOMAIN q /\ q[1] \in E
  BY <1>1, <1>2
<1>4. \A a \in DOMAIN u : a + 1 \in DOMAIN q /\ 1 < a + 1 /\ u[a] = q[a + 1]
  BY <1>1, <1>2
<1>5. \A a \in DOMAIN q : a = 1 \/ (a - 1 \in DOMAIN u /\ (a - 1) + 1 = a)
  BY <1>1, <1>2
<1>6. \A a \in DOMAIN q : a = 1 \/ (a - 1 \in DOMAIN u /\ u[a - 1] = q[a])
  BY <1>4, <1>5
<1> QED  BY <1>1, <1>3, <1>4, <1>6 DEF u

\* Links join the end of the queue.
LEMMA QueueJoined ==
  ASSUME NEW E, NEW u \in Seq(E), NEW new \in Seq(E)
  PROVE  LET q == u \o new
         IN /\ q \in Seq(E)
            /\ \A a \in DOMAIN u : a \in DOMAIN q /\ q[a] = u[a]
            /\ \A a \in DOMAIN new : Len(u) + a \in DOMAIN q /\ q[Len(u) + a] = new[a]
            /\ \A a \in DOMAIN q : \/ a \in DOMAIN u /\ q[a] = u[a]
                                   \/ /\ a - Len(u) \in DOMAIN new /\ q[a] = new[a - Len(u)]
                                      /\ \A b \in DOMAIN u : b < a
<1> DEFINE q == u \o new
<1>1. /\ q \in Seq(E) /\ Len(q) = Len(u) + Len(new)
      /\ \A i \in 1 .. Len(u) : q[i] = u[i]
      /\ \A i \in 1 .. Len(new) : q[Len(u) + i] = new[i]
  BY Joined
<1>2. Len(u) \in Nat /\ Len(new) \in Nat
  OBVIOUS
<1> HIDE DEF q
<1>3. DOMAIN q = 1 .. (Len(u) + Len(new)) /\ DOMAIN u = 1 .. Len(u) /\ DOMAIN new = 1 .. Len(new)
  BY <1>1
<1>4. \A a \in DOMAIN u : a \in DOMAIN q /\ q[a] = u[a]
  BY <1>1, <1>2, <1>3
<1>5. \A a \in DOMAIN new : Len(u) + a \in DOMAIN q /\ q[Len(u) + a] = new[a]
  BY <1>1, <1>2, <1>3
<1>6. ASSUME NEW a \in DOMAIN q, a \notin DOMAIN u
      PROVE  /\ a - Len(u) \in DOMAIN new /\ q[a] = new[a - Len(u)]
             /\ \A b \in DOMAIN u : b < a
  <2>1. a - Len(u) \in 1 .. Len(new) /\ Len(u) + (a - Len(u)) = a
    BY <1>2, <1>3, <1>6
  <2>2. q[a] = new[a - Len(u)]
    BY <1>3, <1>5, <2>1
  <2>3. \A b \in 1 .. Len(u) : b < a
    BY <1>2, <1>3, <1>6
  <2> QED  BY <1>3, <2>1, <2>2, <2>3
<1> QED  BY <1>1, <1>4, <1>5, <1>6 DEF q

\* A link that is dropped leads to a record that was visited, or the trace
\* calls itself incomplete.
LEMMA DroppedStep ==
  ASSUME NEW r, ContextRequest(r), NEW t, TraceInv(r, t), t.queue # <<>>,
         NEW flag \in BOOLEAN, Head(t.queue).to \in t.visited \/ flag,
         NEW s, s = [t EXCEPT !.queue = Tail(@), !.incomplete = @ \/ flag]
  PROVE  TraceInv(r, s)
<1> DEFINE q == t.queue
           u == Tail(q)
           E == Entries(r)
<1>0. t \in Traces(r) /\ q \in Seq(E) /\ q # <<>>
  BY DEF TraceInv, Traces
<1>1. /\ s.queue = u /\ s.visited = t.visited /\ s.evidence = t.evidence
      /\ s.incomplete = (t.incomplete \/ flag)
  BY <1>0 DEF Traces
<1>2. /\ u \in Seq(E) /\ Head(q) = q[1] /\ q[1] \in E /\ 1 \in DOMAIN q
      /\ \A a \in DOMAIN u : u[a] = q[a + 1] /\ a + 1 \in DOMAIN q /\ 1 < a + 1
      /\ \A a \in DOMAIN q : a = 1 \/ (a - 1 \in DOMAIN u /\ u[a - 1] = q[a])
  <2> HIDE DEF q, E
  <2> QED  BY <1>0, QueueTaken
<1>3. DOMAIN u \subseteq Nat
  <2>1. u \in Seq(E)
    BY <1>2
  <2> HIDE DEF u
  <2> QED  BY <2>1
<1> HIDE DEF u
<1>4. s \in Traces(r)
  BY <1>0, <1>2 DEF Traces, u
<1>5. InOrder(u)
  <2>1. \A a, b \in DOMAIN u : a < b => a + 1 < b + 1
    BY <1>3
  <2>2. InOrder(q)
    BY DEF TraceInv
  <2> HIDE DEF q
  <2> QED  BY <1>2, <2>1, <2>2 DEF InOrder
<1>6. OnlyReached(r, s)
  <2>1. OnlyReached(r, t)
    BY DEF TraceInv
  <2> QED  BY <1>1, <1>2, <2>1 DEF OnlyReached
<1>7. NothingLost(r, s)
  <2> SUFFICES ASSUME ~s.incomplete
               PROVE  /\ Range(r.roots) \cap r.gated = {}
                      /\ \A n \in 0 .. (r.depth - 1) :
                           \A i \in (ReachedIn(r)[n] \cap s.visited) \ r.bad :
                             \A j \in Range(r.links[i]) :
                               j \in s.visited \/ Awaits(s.queue, j, n + 1)
    BY DEF NothingLost
  <2>1. ~t.incomplete /\ Head(q).to \in t.visited
    BY <1>1
  <2>2. NothingLost(r, t)
    BY DEF TraceInv
  <2>3. Range(r.roots) \cap r.gated = {}
    BY <2>1, <2>2 DEF NothingLost
  <2>4. ASSUME NEW n \in 0 .. (r.depth - 1), NEW i \in (ReachedIn(r)[n] \cap s.visited) \ r.bad,
               NEW j \in Range(r.links[i]), j \notin s.visited
        PROVE  Awaits(s.queue, j, n + 1)
    <3>1. Awaits(q, j, n + 1)
      BY <1>1, <2>1, <2>2, <2>4 DEF NothingLost
    <3>2. PICK a \in DOMAIN q : q[a].to = j /\ q[a].depth <= n + 1
      BY <3>1 DEF Awaits
    <3>3. a # 1
      BY <1>1, <1>2, <2>1, <2>4, <3>2
    <3>4. a - 1 \in DOMAIN u /\ u[a - 1] = q[a]
      BY <1>2, <3>3
    <3> QED  BY <1>1, <3>2, <3>4 DEF Awaits
  <2> QED  BY <2>3, <2>4
<1> HIDE DEF q
<1> QED  BY <1>1, <1>4, <1>5, <1>6, <1>7 DEF TraceInv

\* The links of a record that is included.
NewLinks(r, e) ==
  IF e.depth < r.depth
  THEN [n \in DOMAIN r.links[e.to] |->
          [to |-> r.links[e.to][n], depth |-> e.depth + 1, path |-> Append(e.path, e.to)]]
  ELSE <<>>

LEMMA NewLinksAre ==
  ASSUME NEW r, ContextRequest(r), NEW e \in Entries(r)
  PROVE  /\ NewLinks(r, e) \in Seq(Entries(r))
         /\ \A a \in DOMAIN NewLinks(r, e) :
              /\ NewLinks(r, e)[a].depth = e.depth + 1 /\ e.depth < r.depth
              /\ NewLinks(r, e)[a].to \in Range(r.links[e.to])
         /\ e.depth < r.depth =>
              \A j \in Range(r.links[e.to]) : Awaits(NewLinks(r, e), j, e.depth + 1)
<1> DEFINE E == Entries(r)
           all == [n \in DOMAIN r.links[e.to] |->
                     [to |-> r.links[e.to][n], depth |-> e.depth + 1,
                      path |-> Append(e.path, e.to)]]
<1>0. /\ e.to \in Linked /\ e.depth \in 1 .. r.depth /\ e.path \in Seq(Linked)
      /\ r.depth \in Nat /\ r.links[e.to] \in Seq(Linked)
  BY DEF ContextRequest, Entries
<1>1. CASE ~(e.depth < r.depth)
  <2>1. NewLinks(r, e) = <<>>
    BY <1>1 DEF NewLinks
  <2>2. <<>> \in Seq(E) /\ DOMAIN <<>> = {}
    OBVIOUS
  <2> QED  BY <1>1, <2>1, <2>2
<1>2. CASE e.depth < r.depth
  <2>1. NewLinks(r, e) = all
    BY <1>2 DEF NewLinks
  <2>2. e.depth + 1 \in 1 .. r.depth /\ e.depth + 1 <= e.depth + 1
    BY <1>0, <1>2
  <2>3. DOMAIN r.links[e.to] = 1 .. Len(r.links[e.to]) /\ Len(r.links[e.to]) \in Nat
    BY <1>0
  <2>4. ASSUME NEW n \in 1 .. Len(r.links[e.to])
        PROVE  [to |-> r.links[e.to][n], depth |-> e.depth + 1,
                path |-> Append(e.path, e.to)] \in E
    <3>1. r.links[e.to][n] \in Linked /\ Append(e.path, e.to) \in Seq(Linked)
      BY <1>0
    <3> QED  BY <2>2, <3>1 DEF Entries
  <2>5. all \in Seq(E)
    <3> HIDE DEF E
    <3> QED  BY <2>3, <2>4, SeqDef
  <2>6. ASSUME NEW a \in DOMAIN all
        PROVE  all[a].depth = e.depth + 1 /\ all[a].to \in Range(r.links[e.to])
    BY DEF Range
  <2>7. ASSUME NEW j \in Range(r.links[e.to])  PROVE Awaits(all, j, e.depth + 1)
    <3>1. PICK n \in DOMAIN r.links[e.to] : r.links[e.to][n] = j
      BY DEF Range
    <3>2. n \in DOMAIN all /\ all[n].to = j /\ all[n].depth = e.depth + 1
      BY <3>1
    <3> HIDE DEF all
    <3> QED  BY <2>2, <3>2 DEF Awaits
  <2> HIDE DEF all
  <2> QED  BY <1>2, <2>1, <2>5, <2>6, <2>7
<1> QED  BY <1>1, <1>2

\* A record is included; its links are queued behind those that wait.
LEMMA IncludedStep ==
  ASSUME NEW r, ContextRequest(r), NEW t, TraceInv(r, t), t.queue # <<>>,
         NEW e, e = Head(t.queue), e.to \notin t.visited, e.to \notin r.bad,
         NEW s, s = [t EXCEPT !.queue = Tail(@) \o NewLinks(r, e),
                              !.visited = @ \cup {e.to}, !.evidence = @ \cup {e.to}]
  PROVE  TraceInv(r, s)
<1> DEFINE q == t.queue
           u == Tail(q)
           E == Entries(r)
           R == ReachedIn(r)
           new == NewLinks(r, e)
           p == u \o new
           d == e.depth
<1>0. t \in Traces(r) /\ q \in Seq(E) /\ q # <<>>
  BY DEF TraceInv, Traces
<1>1. /\ s.queue = p /\ s.visited = t.visited \cup {e.to} /\ s.evidence = t.evidence \cup {e.to}
      /\ s.incomplete = t.incomplete
  BY <1>0 DEF Traces
<1>2. /\ u \in Seq(E) /\ Head(q) = q[1] /\ q[1] \in E /\ 1 \in DOMAIN q
      /\ \A a \in DOMAIN u : u[a] = q[a + 1] /\ a + 1 \in DOMAIN q /\ 1 < a + 1
      /\ \A a \in DOMAIN q : a = 1 \/ (a - 1 \in DOMAIN u /\ u[a - 1] = q[a])
  <2> HIDE DEF q, E
  <2> QED  BY <1>0, QueueTaken
<1>3. e = q[1] /\ e \in E /\ d \in 1 .. r.depth /\ e.to \in Linked /\ r.depth \in Nat /\ d \in Nat
  <2>1. e = q[1] /\ e \in E
    BY <1>2
  <2>2. d \in 1 .. r.depth /\ e.to \in Linked
    BY <2>1 DEF Entries
  <2> QED  BY <2>1, <2>2 DEF ContextRequest
<1>4. /\ new \in Seq(E)
      /\ \A a \in DOMAIN new : /\ new[a].depth = d + 1 /\ d < r.depth
                               /\ new[a].to \in Range(r.links[e.to])
      /\ d < r.depth => \A j \in Range(r.links[e.to]) : Awaits(new, j, d + 1)
  BY <1>3, NewLinksAre
<1> HIDE DEF u, new
<1>5. /\ p \in Seq(E)
      /\ \A a \in DOMAIN u : a \in DOMAIN p /\ p[a] = u[a]
      /\ \A a \in DOMAIN new : Len(u) + a \in DOMAIN p /\ p[Len(u) + a] = new[a]
      /\ \A a \in DOMAIN p : \/ a \in DOMAIN u /\ p[a] = u[a]
                             \/ /\ a - Len(u) \in DOMAIN new /\ p[a] = new[a - Len(u)]
                                /\ \A b \in DOMAIN u : b < a
  <2> HIDE DEF E
  <2>1. u \in Seq(E) /\ new \in Seq(E)
    BY <1>2, <1>4
  <2> QED  BY ONLY <2>1, QueueJoined
<1>6. DOMAIN u \subseteq Nat /\ DOMAIN p \subseteq Nat
  <2>1. u \in Seq(E) /\ p \in Seq(E)
    BY <1>2, <1>5
  <2> HIDE DEF u, p
  <2> QED  BY <2>1
<1>7. \A a \in DOMAIN p : p[a].depth \in Nat
  <2>1. ASSUME NEW a \in DOMAIN p  PROVE p[a].depth \in Nat
    <3>1. p \in Seq(E)
      BY <1>5
    <3> HIDE DEF p
    <3>2. p[a] \in E
      <4> HIDE DEF E
      <4> QED  BY <3>1
    <3>3. p[a].depth \in 1 .. r.depth
      BY <3>2 DEF Entries
    <3> QED  BY <1>3, <3>3
  <2> QED  BY <2>1
<1> HIDE DEF p
<1>8. s \in Traces(r)
  <2> DEFINE v == t.visited \cup {e.to}
             w == t.evidence \cup {e.to}
  <2>1. s = [t EXCEPT !.queue = p, !.visited = v, !.evidence = w]
    BY DEF p, u, new
  <2>2. t.visited \in SUBSET Linked /\ t.evidence \in SUBSET Linked
    BY <1>0 DEF Traces
  <2>3. v \in SUBSET Linked /\ w \in SUBSET Linked /\ p \in Seq(E)
    BY <1>3, <1>5, <2>2
  <2> HIDE DEF v, w, E
  <2>4. t \in [kind : {"trace"}, queue : Seq(E), visited : SUBSET Linked,
               evidence : SUBSET Linked, incomplete : BOOLEAN]
    BY <1>0 DEF Traces, E
  <2>5. s \in [kind : {"trace"}, queue : Seq(E), visited : SUBSET Linked,
               evidence : SUBSET Linked, incomplete : BOOLEAN]
    BY ONLY <2>1, <2>3, <2>4
  <2> QED  BY <2>5 DEF Traces, E
<1>9. \A a \in DOMAIN u : d <= u[a].depth /\ u[a].depth <= d + 1
  <2>1. InOrder(q)
    BY DEF TraceInv
  <2> HIDE DEF q
  <2> QED  BY <1>2, <1>3, <2>1 DEF InOrder
<1>10. \A a, b \in DOMAIN u : a < b => u[a].depth <= u[b].depth
  <2>1. \A a, b \in DOMAIN u : a < b => a + 1 < b + 1
    BY <1>6
  <2>2. InOrder(q)
    BY DEF TraceInv
  <2> HIDE DEF q
  <2> QED  BY <1>2, <2>1, <2>2 DEF InOrder
<1>11. InOrder(p)
  <2>1. ASSUME NEW a \in DOMAIN p
        PROVE  d <= p[a].depth /\ p[a].depth <= d + 1
    <3>1. CASE a \in DOMAIN u /\ p[a] = u[a]
      BY <1>9, <3>1
    <3>2. CASE a - Len(u) \in DOMAIN new /\ p[a] = new[a - Len(u)]
      BY <1>3, <1>4, <3>2
    <3> QED  BY <1>5, <3>1, <3>2
  <2>2. ASSUME NEW a \in DOMAIN p, NEW b \in DOMAIN p, a < b
        PROVE  p[a].depth <= p[b].depth
    <3>1. CASE b \in DOMAIN u /\ p[b] = u[b]
      <4>1. a \in DOMAIN u /\ p[a] = u[a]
        BY <1>5, <1>6, <2>2, <3>1
      <4> QED  BY <1>10, <2>2, <3>1, <4>1
    <3>2. CASE b - Len(u) \in DOMAIN new /\ p[b] = new[b - Len(u)]
      <4>1. p[b].depth = d + 1
        BY <1>4, <3>2
      <4> QED  BY <2>1, <4>1
    <3> QED  BY <1>5, <3>1, <3>2
  <2>3. ASSUME NEW a \in DOMAIN p, NEW b \in DOMAIN p
        PROVE  p[b].depth <= p[a].depth + 1
    <3>1. d <= p[a].depth /\ p[b].depth <= d + 1 /\ p[a].depth \in Nat /\ p[b].depth \in Nat
      BY <1>7, <2>1
    <3> QED  BY <1>3, <3>1
  <2> QED  BY <2>2, <2>3 DEF InOrder
<1>12. OnlyReached(r, t)
  BY DEF TraceInv
<1>13. e.to \in R[d]
  <2> HIDE DEF R
  <2> QED  BY <1>2, <1>3, <1>12 DEF OnlyReached, R
<1>14. OnlyReached(r, s)
  <2>1. e.to \in Reached(r) \ r.bad
    <3>1. d \in 0 .. r.depth
      BY <1>3
    <3>2. R[d] \subseteq Reached(r)
      <4> HIDE DEF d
      <4> QED  BY <1>3, <3>1, LayersGrow
    <3> QED  BY <1>13, <3>2
  <2>2. ASSUME NEW a \in DOMAIN p  PROVE p[a].to \in R[p[a].depth]
    <3>1. CASE a \in DOMAIN u /\ p[a] = u[a]
      <4>1. p[a] = q[a + 1] /\ a + 1 \in DOMAIN q
        BY <1>2, <3>1
      <4> HIDE DEF R
      <4> QED  BY <1>12, <4>1 DEF OnlyReached, R
    <3>2. CASE a - Len(u) \in DOMAIN new /\ p[a] = new[a - Len(u)]
      <4>1. p[a].depth = d + 1 /\ d < r.depth /\ p[a].to \in Range(r.links[e.to])
        BY <1>4, <3>2
      <4>2. d + 1 \in 1 .. r.depth /\ (d + 1) - 1 = d
        BY <1>3, <4>1
      <4>3. \A n \in 1 .. r.depth :
              R[n] = R[n - 1] \cup UNION {Range(r.links[i]) : i \in R[n - 1] \ r.bad}
        BY <1>3, LayersAre
      <4> HIDE DEF R, d
      <4>4. R[d + 1] = R[d] \cup UNION {Range(r.links[i]) : i \in R[d] \ r.bad}
        BY <4>2, <4>3
      <4> QED  BY <1>13, <4>1, <4>4
    <3> QED  BY <1>5, <3>1, <3>2
  <2> QED  BY <1>1, <1>12, <2>1, <2>2 DEF OnlyReached
<1>15. NothingLost(r, s)
  <2> SUFFICES ASSUME ~s.incomplete
               PROVE  /\ Range(r.roots) \cap r.gated = {}
                      /\ \A n \in 0 .. (r.depth - 1) :
                           \A i \in (R[n] \cap s.visited) \ r.bad :
                             \A j \in Range(r.links[i]) :
                               j \in s.visited \/ Awaits(s.queue, j, n + 1)
    BY DEF NothingLost
  <2>1. ~t.incomplete
    BY <1>1
  <2>2. NothingLost(r, t)
    BY DEF TraceInv
  <2>3. Range(r.roots) \cap r.gated = {}
    BY <2>1, <2>2 DEF NothingLost
  <2>4. ASSUME NEW n \in 0 .. (r.depth - 1), NEW i \in (R[n] \cap s.visited) \ r.bad,
               NEW j \in Range(r.links[i]), j \notin s.visited
        PROVE  Awaits(p, j, n + 1)
    <3>1. CASE i \in t.visited
      <4>1. Awaits(q, j, n + 1)
        BY <1>1, <2>1, <2>2, <2>4, <3>1 DEF NothingLost
      <4>2. PICK a \in DOMAIN q : q[a].to = j /\ q[a].depth <= n + 1
        BY <4>1 DEF Awaits
      <4>3. a # 1
        BY <1>1, <1>3, <2>4, <4>2
      <4>4. a - 1 \in DOMAIN u /\ u[a - 1] = q[a]
        BY <1>2, <4>3
      <4>5. a - 1 \in DOMAIN p /\ p[a - 1] = q[a]
        BY <1>5, <4>4
      <4> QED  BY <4>2, <4>5 DEF Awaits
    <3>2. CASE i \notin t.visited
      <4>1. i = e.to
        BY <1>1, <2>4, <3>2
      <4>2. n \in 0 .. r.depth /\ n \in Nat /\ n < r.depth
        BY <1>3, <2>4
      <4>3. i \in R[n]
        BY <2>4
      <4>4. PICK a \in DOMAIN q : q[a].depth <= n
        <5> HIDE DEF R
        <5> QED  BY <2>1, <3>2, <4>2, <4>3, NearestMissing DEF R
      <4>5. d <= q[a].depth /\ q[a].depth \in Nat
        <5>1. CASE a = 1
          BY <1>3, <5>1
        <5>2. CASE a # 1
          <6>1. a - 1 \in DOMAIN u /\ u[a - 1] = q[a]
            BY <1>2, <5>2
          <6>2. a - 1 \in DOMAIN p /\ p[a - 1] = u[a - 1]
            BY <1>5, <6>1
          <6> QED  BY <1>7, <1>9, <6>1, <6>2
        <5> QED  BY <5>1, <5>2
      <4>6. d <= n /\ d < r.depth
        BY <1>3, <4>2, <4>4, <4>5
      <4>7. Awaits(new, j, d + 1)
        BY <1>4, <2>4, <4>1, <4>6
      <4>8. PICK b \in DOMAIN new : new[b].to = j
        BY <4>7 DEF Awaits
      <4>9. new[b].depth <= n + 1
        BY <1>3, <1>4, <4>2, <4>6, <4>8
      <4>10. Len(u) + b \in DOMAIN p /\ p[Len(u) + b] = new[b]
        BY <1>5, <4>8
      <4> QED  BY <4>8, <4>9, <4>10 DEF Awaits
    <3> QED  BY <3>1, <3>2
  <2> QED  BY <1>1, <2>3, <2>4
<1>16. s.visited = Range(r.roots) \cup s.evidence
  <2>1. t.visited = Range(r.roots) \cup t.evidence
    BY DEF TraceInv
  <2> QED  BY <1>1, <2>1
<1> QED  BY <1>1, <1>8, <1>11, <1>14, <1>15, <1>16 DEF TraceInv

\* One turn of the loop.
LEMMA FollowedStep ==
  ASSUME NEW r, ContextRequest(r), NEW t, TraceInv(r, t), t.queue # <<>>
  PROVE  TraceInv(r, Followed(r, t))
<1> DEFINE e == Head(t.queue)
           rest == [t EXCEPT !.queue = Tail(@)]
           flagged == [rest EXCEPT !.incomplete = TRUE]
           included == [rest EXCEPT !.visited = @ \cup {e.to}, !.evidence = @ \cup {e.to},
                                    !.queue = @ \o NewLinks(r, e)]
           Dropped(flag) == [t EXCEPT !.queue = Tail(@), !.incomplete = @ \/ flag]
           s == Followed(r, t)
<1>0. t \in Traces(r)
  BY DEF TraceInv
<1>1. s = IF e.to \in Range(e.path) THEN flagged
          ELSE IF e.to \in t.visited THEN rest
          ELSE IF e.to \in r.bad THEN flagged
          ELSE included
  BY DEF Followed, Queued, NewLinks
<1>2. rest = Dropped(FALSE) /\ flagged = Dropped(TRUE)
  BY <1>0 DEF Traces
<1>3. included = [t EXCEPT !.queue = Tail(@) \o NewLinks(r, e),
                           !.visited = @ \cup {e.to}, !.evidence = @ \cup {e.to}]
  BY <1>0 DEF Traces
<1>4. CASE s = flagged
  <2>1. s = Dropped(TRUE)
    BY <1>2, <1>4
  <2> QED  BY <2>1, DroppedStep
<1>5. CASE s = rest /\ e.to \in t.visited
  <2>1. s = Dropped(FALSE)
    BY <1>2, <1>5
  <2> QED  BY <1>5, <2>1, DroppedStep
<1>6. CASE s = included /\ e.to \notin t.visited /\ e.to \notin r.bad
  <2> HIDE DEF included, s
  <2>1. TraceInv(r, s)
    BY <1>3, <1>6, IncludedStep
  <2> QED  BY <2>1 DEF s
<1> QED  BY <1>1, <1>4, <1>5, <1>6

\* A trace that follows every link and does not call itself incomplete.
LEMMA AllFollowed ==
  ASSUME NEW r, ContextRequest(r), NEW t, TraceInv(r, t), t.queue = <<>>, ~t.incomplete
  PROVE  Reached(r) \subseteq t.evidence \cup Range(r.roots)
<1>1. r.depth \in Nat /\ r.depth \in 0 .. r.depth
  BY DEF ContextRequest
<1>2. Reached(r) = ReachedIn(r)[r.depth]
  BY <1>1, LayersAre
<1>3. ASSUME NEW x \in ReachedIn(r)[r.depth], x \notin t.visited  PROVE FALSE
  <2>1. \E a \in DOMAIN t.queue : t.queue[a].depth <= r.depth
    BY <1>1, <1>3, NearestMissing
  <2>2. DOMAIN t.queue = {}
    OBVIOUS
  <2> QED  BY <2>1, <2>2
<1>4. t.visited = Range(r.roots) \cup t.evidence
  BY DEF TraceInv
<1> QED  BY <1>2, <1>3, <1>4

\* What is known of an answer that is still on its way.
Tracing == answer.kind = "trace" => request.kind = "context" /\ TraceInv(request, answer)

RetrievalInv == Requested /\ Tracing /\ RivalsTogether /\ ContextComplete

LEMMA ContextTyped ==
  ASSUME Requested, request.kind = "context"
  PROVE  ContextRequest(request)
<1>1. request \in ContextRequests
  BY DEF Requested, RecallRequests
<1> QED  BY <1>1, RequestsAreSo

LEMMA RetrievalStarts ==
  ASSUME RetrievalInit
  PROVE  RetrievalInv
BY DEF RetrievalInit, NoAnswer, RetrievalInv, Requested, Tracing, RivalsTogether, ContextComplete

LEMMA RetrievalStep ==
  ASSUME RetrievalInv, [RetrievalNext]_retrievalVars
  PROVE  RetrievalInv'
<1>0. Requested /\ Tracing /\ RivalsTogether /\ ContextComplete
  BY DEF RetrievalInv
<1>1. Requested' /\ RivalsTogether'
  BY <1>0, RivalsStep
<1>2. ASSUME NEW topK \in 1 .. 3, NEW asOf \in 0 .. 2, NEW offline \in BOOLEAN,
             Recall(topK, asOf, offline)
      PROVE  Tracing' /\ ContextComplete'
  <2>1. answer'.kind = "recall"
    BY <1>2 DEF Recall, Recalled
  <2> QED  BY <2>1 DEF Tracing, ContextComplete
<1>3. ASSUME BeginContext  PROVE Tracing' /\ ContextComplete'
  <2>1. /\ request.kind = "context" /\ request' = request
        /\ answer' = ContextStart(request.links, request.roots, request.gated)
    BY <1>3 DEF BeginContext
  <2>2. TraceInv(request, ContextStart(request.links, request.roots, request.gated))
    BY <1>0, <2>1, ContextTyped, TraceStart
  <2>3. answer'.kind = "trace"
    BY <2>1 DEF ContextStart
  <2>4. TraceInv(request', answer')
    BY <2>1, <2>2
  <2> QED  BY <2>1, <2>3, <2>4 DEF Tracing, ContextComplete
<1>4. ASSUME FollowLink  PROVE Tracing' /\ ContextComplete'
  <2>1. /\ answer.kind = "trace" /\ answer.queue # <<>> /\ request' = request
        /\ answer' = Followed(request, answer)
    BY <1>4 DEF FollowLink, MoreLinks
  <2>2. request.kind = "context" /\ TraceInv(request, answer)
    BY <1>0, <2>1 DEF Tracing
  <2>3. TraceInv(request, Followed(request, answer))
    BY <1>0, <2>1, <2>2, ContextTyped, FollowedStep
  <2>4. TraceInv(request', answer')
    BY <2>1, <2>3
  <2>5. answer'.kind = "trace"
    <3>1. Followed(request, answer) \in Traces(request)
      BY <2>3 DEF TraceInv
    <3> QED  BY <2>1, <3>1 DEF Traces
  <2> QED  BY <2>1, <2>2, <2>4, <2>5 DEF Tracing, ContextComplete
<1>5. ASSUME EndContext  PROVE Tracing' /\ ContextComplete'
  <2>1. /\ answer.kind = "trace" /\ request' = request
        /\ answer' = [kind |-> "context", evidence |-> answer.evidence,
                      incomplete |-> answer.incomplete \/ answer.queue # <<>>]
    BY <1>5 DEF EndContext
  <2>2. request.kind = "context" /\ TraceInv(request, answer)
    BY <1>0, <2>1 DEF Tracing
  <2>3. ContextRequest(request)
    BY <1>0, <2>2, ContextTyped
  <2>4. answer.evidence \subseteq Reached(request) \ request.bad
    BY <2>2 DEF TraceInv, OnlyReached
  <2>5. answer.queue = <<>> /\ ~answer.incomplete =>
          Reached(request) \subseteq answer.evidence \cup Range(request.roots)
    BY <2>2, <2>3, AllFollowed
  <2>6. /\ answer'.kind = "context" /\ answer'.evidence = answer.evidence
        /\ ~answer'.incomplete => answer.queue = <<>> /\ ~answer.incomplete
    BY <2>1
  <2>7. Reached(request') = Reached(request)
    BY <2>1
  <2>8. ContextComplete'
    BY <2>1, <2>4, <2>5, <2>6, <2>7 DEF ContextComplete
  <2> QED  BY <2>6, <2>8 DEF Tracing
<1>6. ASSUME UNCHANGED retrievalVars  PROVE Tracing' /\ ContextComplete'
  <2>1. request' = request /\ answer' = answer
    BY <1>6 DEF retrievalVars
  <2>2. Reached(request') = Reached(request)
    BY <2>1
  <2> QED  BY <1>0, <2>1, <2>2 DEF Tracing, ContextComplete
<1>7. Tracing' /\ ContextComplete'
  BY <1>2, <1>3, <1>4, <1>5, <1>6 DEF RetrievalNext
<1> QED  BY <1>1, <1>7 DEF RetrievalInv

\* The requests of a run stay what they are, and a trace that is under way keeps
\* its queue, its evidence and its verdict in line with what the roots reach.
THEOREM RetrievalInvariant == RetrievalSpec => []RetrievalInv
<1>1. RetrievalInit => RetrievalInv
  BY RetrievalStarts
<1>2. RetrievalInv /\ [RetrievalNext]_retrievalVars => RetrievalInv'
  BY RetrievalStep
<1> QED  BY <1>1, <1>2, PTL DEF RetrievalSpec

\* Every answer to a recall by vectors keeps the best result and a rival of it
\* together and marks both, and no recall answers with a record that is out of
\* its time, expired, below the threshold or not authentic (_recall,
\* _prioritize_competing_candidates, AlwaysAvailableMemory.recall), whatever
\* the corpus and its order.
THEOREM RivalsStayTogether == RetrievalSpec => []RivalsTogether
<1>1. RetrievalInv => RivalsTogether
  BY DEF RetrievalInv
<1> QED  BY <1>1, RetrievalInvariant, PTL

\* A context trace that does not call itself incomplete has found everything its
\* roots reach within the depth asked for (_build_context_response), however the
\* records are linked.
THEOREM TracesAreComplete == RetrievalSpec => []ContextComplete
<1>1. RetrievalInv => ContextComplete
  BY DEF RetrievalInv
<1> QED  BY <1>1, RetrievalInvariant, PTL
=============================================================================
