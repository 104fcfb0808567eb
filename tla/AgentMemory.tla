---------------------------- MODULE AgentMemory ----------------------------
(***************************************************************************)
(* AgentMemory (agent_memory.py): the host-facing memory of one profile.   *)
(* It keeps two databases that no transaction spans: the encrypted         *)
(* payload store, and the lifecycle store of the Oracle.  remember, forget *)
(* and start-up recovery are sequences of transactions on one or the       *)
(* other; the process may crash between any two of them, and any of them   *)
(* may fail and be rolled back.                                            *)
(*                                                                         *)
(* One process holds the profile's writer lease and runs one operation at  *)
(* a time, so an operation is interrupted only by a crash.  Ids are        *)
(* numbered in the order in which remember draws them.  The lifecycle      *)
(* store is reduced to the ids it manages: life in its database, mem in    *)
(* the open Oracle, and evicted, the vines whose transfer to the archive   *)
(* failed and which no save writes (the Oracle module has the detail).     *)
(***************************************************************************)
EXTENDS Integers, FiniteSets

CONSTANTS
  MaxIds,       \* how many records are ever created
  MaxNow,       \* bound on the clock
  LiveTicks,    \* lifetime of a Live record, in clock ticks
  MaxEffective, \* bound on effective_at
  MaxFaults     \* how many transactions may fail for a reason of their own

ASSUME AgentMemoryAssumption ==
  /\ MaxIds \in Nat /\ MaxNow \in Nat /\ LiveTicks \in Nat
  /\ MaxEffective \in Nat /\ MaxFaults \in Nat

Ids == 1 .. MaxIds
NoId == 0
Never == -1
Layers == {"live", "short_term", "long_term", "contextual_logic"}

VARIABLES
  \* the payload store
  status,     \* payloads.operation_state, "none" without a row
  layer,      \* memory contract: layer
  expires,    \* memory contract: expires_at, or Never
  related,    \* memory contract: related_ids
  effective,  \* payloads.effective_at
  by,         \* payloads.superseded_by, or NoId
  at,         \* payloads.superseded_at, or Never
  \* the lifecycle store and the Oracle that has it open
  life, mem, evicted,
  \* the process
  pc,         \* what it does next
  cur,        \* remember: the record under way
  todo,       \* forget: the records left to erase
  erasing,    \* forget: the record whose lifecycle state is still to go
  \* environment and history
  nextId, now, faults,
  kept,       \* records whose remember returned, less those that some forget
              \* set out to erase
  stranded    \* records whose row a save dropped after a failed transfer

payloadVars == <<status, layer, expires, related, effective, by, at>>
lifeVars == <<life, mem, evicted, stranded>>
procVars == <<pc, cur, todo, erasing>>
vars == <<payloadVars, lifeVars, procVars, nextId, now, faults, kept>>

Committed == {v \in Ids : status[v] = "committed"}
PendingIds == {v \in Ids : status[v] = "pending"}

\* _managed_exists
ManagedExists(v) == v \in mem /\ v \in Committed

IsExpired(v) == layer[v] = "live" /\ expires[v] # Never /\ expires[v] <= now
ExpiredLive == {v \in Committed : IsExpired(v)}

\* The process is open and between two operations.
Idle == pc = "idle" /\ todo = {}

Init ==
  /\ status = [v \in Ids |-> "none"]
  /\ layer = [v \in Ids |-> "live"]
  /\ expires = [v \in Ids |-> Never]
  /\ related = [v \in Ids |-> {}]
  /\ effective = [v \in Ids |-> 0]
  /\ by = [v \in Ids |-> NoId]
  /\ at = [v \in Ids |-> Never]
  /\ life = {} /\ mem = {} /\ evicted = {} /\ stranded = {}
  /\ pc = "closed" /\ cur = NoId /\ todo = {} /\ erasing = NoId
  /\ nextId = 1 /\ now = 0 /\ faults = 0
  /\ kept = {}

-----------------------------------------------------------------------------
(* Transactions of the two stores *)

(* _EncryptedPayloadStore.delete: the record goes, and whatever it         *)
(* superseded is handed to the record that superseded it.                  *)
DeleteRow(v) ==
  /\ status' = [status EXCEPT ![v] = "none"]
  /\ layer' = [layer EXCEPT ![v] = "live"]
  /\ expires' = [expires EXCEPT ![v] = Never]
  /\ related' = [related EXCEPT ![v] = {}]
  /\ effective' = [effective EXCEPT ![v] = 0]

DeleteWithoutRelink(v) ==
  /\ DeleteRow(v)
  /\ by' = [by EXCEPT ![v] = NoId]
  /\ at' = [at EXCEPT ![v] = Never]

\* Mutant: the superseded records go with the one that superseded them.
DeleteChain(v) ==
  LET gone == {w \in Ids : w = v \/ by[w] = v}
  IN /\ status' = [w \in Ids |-> IF w \in gone THEN "none" ELSE status[w]]
     /\ by' = [w \in Ids |-> IF w \in gone THEN NoId ELSE by[w]]
     /\ at' = [w \in Ids |-> IF w \in gone THEN Never ELSE at[w]]
     /\ UNCHANGED <<layer, expires, related, effective>>

Delete(v) ==
  /\ DeleteRow(v)
  /\ by' = [w \in Ids |-> IF w = v THEN NoId
                          ELSE IF by[w] = v THEN by[v] ELSE by[w]]
  /\ at' = [w \in Ids |-> IF w = v THEN Never
                          ELSE IF by[w] = v THEN at[v] ELSE at[w]]

\* mark_committed
MarkCommitted(v) ==
  /\ status[v] = "pending"
  /\ status' = [status EXCEPT ![v] = "committed"]
  /\ UNCHANGED <<layer, expires, related, effective, by, at>>

\* Oracle.forget: the managed state in the database, then in memory.
OracleForget(v) ==
  /\ life' = life \ {v}
  /\ mem' = mem \ {v}
  /\ evicted' = evicted \ {v}
  /\ stranded' = stranded \ {v}

\* save_workspace writes what the Oracle holds, except evicted vines.
SaveLifecycle ==
  /\ life' = mem' \ evicted
  /\ stranded' = stranded \cup (life \cap evicted)
  /\ UNCHANGED evicted

\* A transaction fails and is rolled back.
Fault ==
  /\ faults < MaxFaults
  /\ faults' = faults + 1

-----------------------------------------------------------------------------
(* remember *)

\* A fresh record may replace committed ones that nothing superseded yet and
\* that do not take effect later.
CanReplace(S, eff) ==
  \A w \in S : w \in Committed /\ by[w] = NoId /\ effective[w] <= eff

\* Contextual logic links existing records; no other layer links any.  The
\* long-term layer cannot be written directly.
LinksValid(lay, rel) ==
  /\ lay = "contextual_logic" <=> rel # {}
  /\ \A w \in rel : ManagedExists(w)

\* new_memory_contract: only a Live record expires.
NewExpiration(lay) == IF lay = "live" THEN now + LiveTicks ELSE Never

\* put: one transaction that adds the pending row and links the superseded.
Put(v, lay, eff, S, rel) ==
  /\ CanReplace(S, eff)
  /\ status' = [status EXCEPT ![v] = "pending"]
  /\ layer' = [layer EXCEPT ![v] = lay]
  /\ expires' = [expires EXCEPT ![v] = NewExpiration(lay)]
  /\ related' = [related EXCEPT ![v] = rel]
  /\ effective' = [effective EXCEPT ![v] = eff]
  /\ by' = [w \in Ids |-> IF w \in S THEN v ELSE by[w]]
  /\ at' = [w \in Ids |-> IF w \in S THEN eff ELSE at[w]]

(* remember, up to put.  Contextual logic prunes first, so it finds no     *)
(* expired Live record.  A duplicate of a managed record changes nothing;  *)
(* a duplicate of an unmanaged committed record would delete that record   *)
(* first, but there is none while the profile is open (OracleCovers in the *)
(* proofs).  refresh_live with changed content is a remember of a Live     *)
(* record that supersedes the old one.                                     *)
Remember(lay, eff, S, rel) ==
  /\ Idle
  /\ nextId <= MaxIds
  /\ lay = "contextual_logic" => ExpiredLive = {}
  /\ LinksValid(lay, rel)
  /\ Put(nextId, lay, eff, S, rel)
  /\ cur' = nextId
  /\ nextId' = nextId + 1
  /\ pc' = "sprout"
  /\ UNCHANGED <<lifeVars, todo, erasing, now, faults, kept>>

\* Oracle.sprout: the vine is in memory before the save, and stays there if
\* the save fails.  The save writes everything the Oracle holds.
Sprout ==
  /\ pc = "sprout"
  /\ mem' = mem \cup {cur}
  /\ \/ /\ SaveLifecycle
        /\ pc' = "commit"
        /\ UNCHANGED faults
     \/ /\ Fault
        /\ pc' = "undo_lifecycle"
        /\ UNCHANGED <<life, evicted, stranded>>
  /\ UNCHANGED <<payloadVars, cur, todo, erasing, nextId, now,
                 kept>>

Commit ==
  /\ pc = "commit"
  /\ \/ /\ MarkCommitted(cur)
        /\ kept' = kept \cup {cur}
        /\ pc' = "idle" /\ cur' = NoId
        /\ UNCHANGED faults
     \/ /\ Fault
        /\ pc' = "undo_lifecycle"
        /\ UNCHANGED <<payloadVars, cur, kept>>
  /\ UNCHANGED <<lifeVars, todo, erasing, nextId, now>>

\* The except branch of remember: forget, then delete, then re-raise.  If one
\* of them raises in its turn, what is left of the record stays behind.
UndoLifecycleOnly ==
  /\ pc = "undo_lifecycle"
  /\ OracleForget(cur)
  /\ pc' = "idle" /\ cur' = NoId
  /\ UNCHANGED <<payloadVars, todo, erasing, nextId, now, faults, kept>>

UndoLifecycle ==
  /\ pc = "undo_lifecycle"
  /\ \/ OracleForget(cur) /\ pc' = "undo_payload" /\ UNCHANGED <<cur, faults>>
     \/ Fault /\ pc' = "idle" /\ cur' = NoId /\ UNCHANGED lifeVars
  /\ UNCHANGED <<payloadVars, todo, erasing, nextId, now, kept>>

UndoPayload ==
  /\ pc = "undo_payload"
  /\ \/ Delete(cur) /\ UNCHANGED faults
     \/ Fault /\ UNCHANGED payloadVars
  /\ pc' = "idle" /\ cur' = NoId
  /\ UNCHANGED <<lifeVars, todo, erasing, nextId, now, kept>>

-----------------------------------------------------------------------------
(* Contracts *)

\* set_memory_contract, of a promotion and of a refresh with equal content.
KeptExpiration(v) == expires[v]
PromotedExpiration(v) == Never

Promote(v, lay) ==
  /\ Idle
  /\ ManagedExists(v)
  /\ <<layer[v], lay>> \in {<<"live", "short_term">>, <<"short_term", "long_term">>}
  /\ layer' = [layer EXCEPT ![v] = lay]
  /\ expires' = [expires EXCEPT ![v] = PromotedExpiration(v)]
  /\ related' = [related EXCEPT ![v] = {}]
  /\ UNCHANGED <<status, effective, by, at, lifeVars, procVars,
                 nextId, now, faults, kept>>

RefreshLive(v) ==
  /\ Idle
  /\ ExpiredLive = {}
  /\ ManagedExists(v)
  /\ layer[v] = "live"
  /\ by[v] = NoId
  /\ expires' = [expires EXCEPT ![v] = now + LiveTicks]
  /\ UNCHANGED <<status, layer, related, effective, by, at, lifeVars,
                 procVars, nextId, now, faults, kept>>

-----------------------------------------------------------------------------
(* forget *)

\* _contextual_dependents: everything committed that is derived from v, at
\* any distance.
ContextualLogic == {w \in Committed : layer[w] = "contextual_logic"}

ClosedUnder(v, D) ==
  \A w \in ContextualLogic : related[w] \cap (D \cup {v}) # {} => w \in D

Dependents(v) ==
  {w \in ContextualLogic :
     \A D \in SUBSET ContextualLogic : ClosedUnder(v, D) => w \in D}

StartErasing(v) ==
  /\ todo' = Dependents(v) \cup {v}
  /\ kept' = kept \ todo'

Forget(v) ==
  /\ Idle
  /\ status[v] # "none" \/ v \in mem
  /\ StartErasing(v)
  /\ UNCHANGED <<payloadVars, lifeVars, pc, cur, erasing, nextId, now, faults>>

(* The loop of forget: dependents before what they depend on, and for each *)
(* record the payload before the lifecycle state.  A failure ends it; one  *)
(* in the pruning of start-up ends the process, which Crash covers.        *)
ErasableInAnyOrder(v) == v \in todo
Erasable(v) == v \in todo /\ \A w \in todo : v \notin related[w]

GiveUpErasing == pc = "idle" /\ Fault /\ todo' = {} /\ erasing' = NoId

ErasePayload(v) ==
  /\ erasing = NoId
  /\ Erasable(v)
  /\ \/ Delete(v) /\ erasing' = v /\ UNCHANGED <<todo, faults>>
     \/ GiveUpErasing /\ UNCHANGED payloadVars
  /\ UNCHANGED <<lifeVars, pc, cur, nextId, now, kept>>

EraseLifecycle ==
  /\ erasing # NoId
  /\ \/ /\ OracleForget(erasing)
        /\ todo' = todo \ {erasing} /\ erasing' = NoId
        /\ UNCHANGED faults
     \/ GiveUpErasing /\ UNCHANGED lifeVars
  /\ UNCHANGED <<payloadVars, pc, cur, nextId, now, kept>>

-----------------------------------------------------------------------------
(* Start-up and the end of the process *)

Crash ==
  /\ pc # "closed"
  /\ pc' = "closed"
  /\ mem' = {} /\ evicted' = {}
  /\ cur' = NoId /\ todo' = {} /\ erasing' = NoId
  /\ UNCHANGED <<payloadVars, life, stranded, nextId, now, faults, kept>>

Open ==
  /\ pc = "closed"
  /\ mem' = life
  /\ pc' = "recover"
  /\ UNCHANGED <<payloadVars, life, evicted, stranded, cur, todo, erasing, nextId, now,
                 faults, kept>>

\* _recover_incomplete_operations settles the pending records one by one ...
RecoverByCommitting(v) ==
  /\ pc = "recover"
  /\ v \in PendingIds
  /\ MarkCommitted(v)
  /\ UNCHANGED <<lifeVars, procVars, nextId, now, faults, kept>>

RecoverPending(v) ==
  /\ pc = "recover"
  /\ v \in PendingIds
  /\ IF v \in life THEN MarkCommitted(v) ELSE Delete(v)
  /\ UNCHANGED <<lifeVars, procVars, nextId, now, faults, kept>>

\* ... refuses a payload without lifecycle state, and forgets the reverse.
RecoverOrphan(v) ==
  /\ pc = "recover"
  /\ PendingIds = {} /\ todo = {}
  /\ Committed \subseteq life
  /\ v \in life \ Committed
  /\ OracleForget(v)
  /\ UNCHANGED <<payloadVars, procVars, nextId, now, faults, kept>>

\* _prune_expired_live_memory ends the start-up, and is run by a recall that
\* may change the lifecycle, by remember of contextual logic and by
\* refresh_live.
Recovering == pc = "recover" /\ PendingIds = {} /\ Committed = life /\ todo = {}

Recovered ==
  /\ Recovering
  /\ ExpiredLive = {}
  /\ pc' = "idle"
  /\ UNCHANGED <<payloadVars, lifeVars, cur, todo, erasing, nextId,
                 now, faults, kept>>

PruneExpired(v) ==
  /\ Idle \/ Recovering
  /\ v \in ExpiredLive
  /\ StartErasing(v)
  /\ UNCHANGED <<payloadVars, lifeVars, pc, cur, erasing, nextId, now, faults>>

\* An observation (recall) archives what is evicted and saves the workspace.
\* If the transfer of a vine that it evicts fails, it raises and saves nothing.
Observe ==
  /\ Idle
  /\ life' = mem /\ evicted' = {} /\ stranded' = stranded \ evicted
  /\ UNCHANGED <<payloadVars, mem, procVars, nextId, now, faults, kept>>

ObserveFails(v) ==
  /\ Idle
  /\ v \in mem
  /\ Fault
  /\ evicted' = evicted \cup {v}
  /\ UNCHANGED <<payloadVars, life, mem, stranded, procVars, nextId, now, kept>>

\* Only steps that start an operation read the clock, so it advances between
\* operations.
Tick ==
  /\ Idle
  /\ now < MaxNow
  /\ now' = now + 1
  /\ UNCHANGED <<payloadVars, lifeVars, procVars, nextId, faults,
                 kept>>

-----------------------------------------------------------------------------
Next ==
  \/ /\ Idle
     /\ \E lay \in Layers \ {"long_term"}, eff \in 0 .. MaxEffective,
           S \in SUBSET Committed, rel \in SUBSET mem : Remember(lay, eff, S, rel)
  \/ Sprout \/ Commit \/ UndoLifecycle \/ UndoPayload
  \/ \E v \in Ids, lay \in Layers : Promote(v, lay)
  \/ \E v \in Ids : RefreshLive(v) \/ Forget(v) \/ ErasePayload(v)
                      \/ RecoverPending(v) \/ RecoverOrphan(v) \/ PruneExpired(v)
                      \/ ObserveFails(v)
  \/ EraseLifecycle \/ Crash \/ Open \/ Recovered \/ Observe \/ Tick

Spec == Init /\ [][Next]_vars

-----------------------------------------------------------------------------
(* Properties *)

TypeOK ==
  /\ status \in [Ids -> {"none", "pending", "committed"}]
  /\ layer \in [Ids -> Layers]
  /\ expires \in [Ids -> Nat \cup {Never}]
  /\ related \in [Ids -> SUBSET Ids]
  /\ effective \in [Ids -> Nat]
  /\ by \in [Ids -> Ids \cup {NoId}]
  /\ at \in [Ids -> Nat \cup {Never}]
  /\ life \subseteq Ids /\ mem \subseteq Ids
  /\ evicted \subseteq Ids /\ stranded \subseteq Ids
  /\ pc \in {"closed", "recover", "idle", "sprout", "commit", "undo_lifecycle",
             "undo_payload"}
  /\ cur \in Ids \cup {NoId} /\ erasing \in Ids \cup {NoId} /\ todo \subseteq Ids
  /\ pc \in {"sprout", "commit", "undo_lifecycle", "undo_payload"} <=> cur # NoId
  /\ todo # {} => pc \in {"idle", "recover"}
  /\ erasing # NoId => erasing \in todo
  /\ \A v \in Ids : expires[v] # Never => layer[v] = "live"
  /\ nextId \in Nat \ {0} /\ now \in Nat /\ faults \in Nat
  /\ kept \subseteq Ids

(* A committed payload has lifecycle state, so that start-up does not meet *)
(* the payload "missing lifecycle state" that it refuses to open with: no  *)
(* crash or failure between the two stores makes a readable memory         *)
(* unmanaged, except the stranding of an evicted vine.                     *)
CommittedIsManaged == Committed \subseteq life \cup stranded

(* A memory whose remember returned is readable and managed until some     *)
(* forget or expiry sets out to erase it; no crash, no failed remember or  *)
(* forget of another record and no recovery takes it (stranding apart).    *)
RememberedSurvives == kept \subseteq Committed \cap (life \cup stranded)

(* Supersession links point at existing, later records with the effective  *)
(* time they were given, however the records between were erased: chains   *)
(* are acyclic, never dangle and stay in temporal order.                   *)
ChainsSound ==
  \A v \in Ids : by[v] # NoId =>
    /\ by[v] > v
    /\ status[by[v]] # "none"
    /\ at[v] = effective[by[v]]
    /\ effective[v] <= at[v]

(* Outside an operation no record is superseded by one that is not         *)
(* readable, so that no recall loses a memory to a remember that failed,   *)
(* unless the rollback of a remember failed in its turn.                   *)
NoHalfRemembered == Idle /\ faults < 2 => PendingIds = {}

(* Erasing a source cascades: no committed contextual logic outlives a     *)
(* record it was derived from, even when a crash interrupts the cascade.   *)
(* Only a remember whose rollback failed too can leave some: the cascade   *)
(* does not see its pending record, and the next start-up commits it.      *)
NoOrphanLogic ==
  faults < 2 => \A v \in ContextualLogic : related[v] \subseteq Committed
=============================================================================
