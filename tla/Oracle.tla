------------------------------- MODULE Oracle -------------------------------
(***************************************************************************)
(* The Oracle (oracle.py) over the SQLite store (persistence.py): every    *)
(* operation changes the process-local workspace first and then commits    *)
(* one or two transactions against the shared database.  Several processes *)
(* may have the same database open; any of them may crash at any point;    *)
(* a transaction may fail and be rolled back.                              *)
(*                                                                         *)
(* Each write transaction runs under BEGIN IMMEDIATE and compares the      *)
(* workspace_generation counter with the one the process last loaded or    *)
(* committed.  The two are equal exactly when no other process committed   *)
(* in between, which the variable fresh records without the number.        *)
(*                                                                         *)
(* The L2 index row, the L3 archive row, the LSH buckets and the eviction  *)
(* metadata of a vine are always written and deleted in one transaction:   *)
(* one set stands for the four.                                            *)
(***************************************************************************)
EXTENDS VineStates, Integers, Sequences, FiniteSets, Functions

CONSTANTS
  Procs,        \* processes with the store open
  MaxCrests,    \* MAX_CRESTS
  Shielded,     \* TRUE: anchors are protected, so never compressed
  MaxFaults     \* how many transactions may fail for a reason of their own

ASSUME OracleAssumption ==
  /\ IsFiniteSet(Ids)
  /\ MaxCrests \in Nat
  /\ Shielded \in BOOLEAN
  /\ MaxFaults \in Nat

None == "none"
ASSUME NoneAssumption == None \notin Ids

VARIABLES
  \* each process
  pc,          \* "closed", "idle", or the transaction that comes next
  ws,          \* Vine.state per id, in the process's workspace
  lk,          \* its locked vines
  crests,      \* its _crests
  sprouting,   \* the vine the running sprout will return, or None
  \* the database
  fresh,       \* processes whose _workspace_generation is the database's
  rowState,    \* active_workspace.state, "absent" without a row
  rowLocked,   \* active_workspace.locked
  rowRank,     \* active_workspace.crest_rank + 1, 0 for NULL
  indexed,     \* metadata_index = cold_archive = eviction_metadata keys
  faults,      \* failures of the database so far
  \* history
  used,        \* ids already given to a vine (uuid4)
  acked,       \* vines whose sprout returned
  forgotten,   \* vines whose forget returned
  stranded,    \* vines that were pending when a transaction of an up-to-date
               \* process failed
  dirty        \* processes with an operation that failed since their last save

procVars == <<pc, ws, lk, crests, sprouting>>
dbVars == <<fresh, rowState, rowLocked, rowRank, indexed, faults>>
rowVars == <<rowState, rowLocked, rowRank, indexed>>
histVars == <<used, acked, forgotten, stranded, dirty>>
vars == <<procVars, dbVars, histVars>>

Empty == [v \in Ids |-> "absent"]
Rows == {v \in Ids : rowState[v] # "absent"}
Pending(p) == {v \in Ids : ws[p][v] = "evicted"}

Init ==
  /\ pc = [p \in Procs |-> "closed"]
  /\ ws = [p \in Procs |-> Empty]
  /\ lk = [p \in Procs |-> {}]
  /\ crests = [p \in Procs |-> <<>>]
  /\ sprouting = [p \in Procs |-> None]
  /\ fresh = {}
  /\ rowState = Empty
  /\ rowLocked = {}
  /\ rowRank = [v \in Ids |-> 0]
  /\ indexed = {}
  /\ faults = 0
  /\ used = {} /\ acked = {} /\ forgotten = {} /\ stranded = {} /\ dirty = {}

-----------------------------------------------------------------------------
(* Transactions *)

\* _begin_locked: a stale process may not write.
BeginUnchecked(p) == p \in Procs
Begin(p) == p \in fresh

\* _commit_locked: the generation advances past every other process's.
Commit(p) == fresh' = {p}

(* The transaction p is about to run fails: stale generation, or a fault   *)
(* of the database.  The rollback leaves the database as it was, and the   *)
(* exception leaves the operation with the workspace already changed.      *)
TransactionFails(p) ==
  /\ pc[p] = "save" \/ (pc[p] = "archive" /\ Pending(p) # {})
  /\ \/ p \notin fresh /\ UNCHANGED <<faults, stranded>>
     \/ /\ p \in fresh /\ faults < MaxFaults
        /\ faults' = faults + 1
        /\ stranded' = stranded \cup Pending(p)
  /\ pc' = [pc EXCEPT ![p] = "idle"]
  /\ sprouting' = [sprouting EXCEPT ![p] = None]
  /\ dirty' = dirty \cup {p}
  /\ UNCHANGED <<ws, lk, crests, fresh, rowVars, used, acked, forgotten>>

-----------------------------------------------------------------------------
(* Opening and closing *)

\* load_workspace refuses ranks with a gap, and cannot rebuild a compressed
\* anchor: Vine's constructor rejects the empty vector it is given.
RanksContiguous ==
  LET ranked == {v \in Ids : rowRank[v] # 0}
  IN {rowRank[v] : v \in ranked} = 1 .. Cardinality(ranked)

RowsDecodable == Shielded \/ \A v \in Ids : rowState[v] # "twilight"

LoadedCrests ==
  [i \in 1 .. Cardinality({v \in Ids : rowRank[v] # 0}) |->
     CHOOSE v \in Ids : rowRank[v] = i]

Open(p) ==
  /\ pc[p] = "closed"
  /\ RanksContiguous
  /\ RowsDecodable
  /\ pc' = [pc EXCEPT ![p] = "idle"]
  /\ ws' = [ws EXCEPT ![p] = rowState]
  /\ lk' = [lk EXCEPT ![p] = rowLocked]
  /\ crests' = [crests EXCEPT ![p] = LoadedCrests]
  /\ fresh' = fresh \cup {p}
  /\ dirty' = dirty \ {p}
  /\ UNCHANGED <<sprouting, rowVars, faults, used, acked, forgotten, stranded>>

\* The process ends, in order or not: what is not in the database is gone.
Crash(p) ==
  /\ pc[p] # "closed"
  /\ pc' = [pc EXCEPT ![p] = "closed"]
  /\ ws' = [ws EXCEPT ![p] = Empty]
  /\ lk' = [lk EXCEPT ![p] = {}]
  /\ crests' = [crests EXCEPT ![p] = <<>>]
  /\ sprouting' = [sprouting EXCEPT ![p] = None]
  /\ fresh' = fresh \ {p}
  /\ dirty' = dirty \ {p}
  /\ UNCHANGED <<rowVars, faults, used, acked, forgotten, stranded>>

-----------------------------------------------------------------------------
(* The first half of an operation: the change of the workspace in memory *)

Starts(p, next) ==
  /\ pc[p] = "idle"
  /\ pc' = [pc EXCEPT ![p] = next]

Sprout(p, v) ==
  /\ Starts(p, "save")
  /\ v \notin used
  /\ used' = used \cup {v}
  /\ ws' = [ws EXCEPT ![p][v] = "active"]
  /\ sprouting' = [sprouting EXCEPT ![p] = v]
  /\ UNCHANGED <<lk, crests, dbVars, acked, forgotten, stranded, dirty>>

Reinforce(p, v) ==
  /\ Starts(p, "save")
  /\ ws[p][v] \in LiveStates
  /\ ws' = [ws EXCEPT ![p][v] = "active"]
  /\ UNCHANGED <<lk, crests, sprouting, dbVars, histVars>>

\* The cap on locks is Workspace's business and left out here.
Lock(p, v) ==
  /\ Starts(p, "save")
  /\ ws[p][v] \in LiveStates
  /\ lk' = [lk EXCEPT ![p] = @ \cup {v}]
  /\ UNCHANGED <<ws, crests, sprouting, dbVars, histVars>>

Unlock(p, v) ==
  /\ Starts(p, "save")
  /\ ws[p][v] # "absent"
  /\ lk' = [lk EXCEPT ![p] = @ \ {v}]
  /\ UNCHANGED <<ws, crests, sprouting, dbVars, histVars>>

CrestLists == {s \in UNION {[1 .. m -> Ids] : m \in 0 .. MaxCrests} :
                 IsInjective(s)}

SetCrests(p, s) ==
  /\ Starts(p, "save")
  /\ \A i \in 1 .. Len(s) : ws[p][s[i]] \in LiveStates
  /\ crests' = [crests EXCEPT ![p] = s]
  /\ UNCHANGED <<ws, lk, sprouting, dbVars, histVars>>

\* observe: one decay cycle, of which any outcome is possible.
Observe(p) ==
  /\ Starts(p, "archive")
  /\ \E st \in [Ids -> VineState] :
       /\ DecayRelation(ws[p], lk[p], st)
       /\ ws' = [ws EXCEPT ![p] = st]
  /\ UNCHANGED <<lk, crests, sprouting, dbVars, histVars>>

-----------------------------------------------------------------------------
(* The second half: the transactions *)

\* The live Vine objects S are gone from p's workspace.
Released(p, S) ==
  /\ ws' = [ws EXCEPT ![p] = [v \in Ids |-> IF v \in S THEN "absent"
                                            ELSE ws[p][v]]]
  /\ lk' = [lk EXCEPT ![p] = @ \ S]
  /\ crests' = [crests EXCEPT ![p] = Without(@, S)]

\* The active_workspace rows of S are deleted.
RowsDeleted(S) ==
  /\ rowState' = [v \in Ids |-> IF v \in S THEN "absent" ELSE rowState[v]]
  /\ rowLocked' = rowLocked \ S
  /\ rowRank' = [v \in Ids |-> IF v \in S THEN 0 ELSE rowRank[v]]

(* _archive_pending_evictions: every pending vine, the ones of an earlier  *)
(* failed call included, moves to L2 and L3 and loses its row, and only    *)
(* then its live object.  Without pending vines there is no transaction.   *)
NothingToArchive(p) ==
  /\ pc[p] = "archive"
  /\ Pending(p) = {}
  /\ pc' = [pc EXCEPT ![p] = "save"]
  /\ UNCHANGED <<ws, lk, crests, sprouting, dbVars, histVars>>

PruneWithoutArchive(p) ==
  /\ pc[p] = "archive"
  /\ Pending(p) # {}
  /\ Begin(p)
  /\ Commit(p)
  /\ RowsDeleted(Pending(p))
  /\ Released(p, Pending(p))
  /\ pc' = [pc EXCEPT ![p] = "save"]
  /\ UNCHANGED <<indexed, faults, sprouting, histVars>>

CommitEvictions(p) ==
  /\ pc[p] = "archive"
  /\ Pending(p) # {}
  /\ Begin(p)
  /\ Commit(p)
  /\ indexed' = indexed \cup Pending(p)
  /\ RowsDeleted(Pending(p))
  /\ Released(p, Pending(p))
  /\ pc' = [pc EXCEPT ![p] = "save"]
  /\ UNCHANGED <<faults, sprouting, histVars>>

\* save_workspace: all rows are replaced by the vines that are not evicted.
SavedEvenEvicted(p, v) == ws[p][v]
SavedState(p, v) == IF ws[p][v] = "evicted" THEN "absent" ELSE ws[p][v]

StaleLocks(p) == rowLocked
SavedLocks(p) == {v \in lk[p] : ws[p][v] \in LiveStates}

SavedRank(p, v) ==
  IF SavedState(p, v) # "absent" /\ \E i \in 1 .. Len(crests[p]) : crests[p][i] = v
  THEN CHOOSE i \in 1 .. Len(crests[p]) : crests[p][i] = v
  ELSE 0

SaveWorkspace(p) ==
  /\ pc[p] = "save"
  /\ Begin(p)
  /\ Commit(p)
  /\ rowState' = [v \in Ids |-> SavedState(p, v)]
  /\ rowLocked' = SavedLocks(p)
  /\ rowRank' = [v \in Ids |-> SavedRank(p, v)]
  /\ pc' = [pc EXCEPT ![p] = "idle"]
  /\ acked' = acked \cup ({sprouting[p]} \ {None})
  /\ sprouting' = [sprouting EXCEPT ![p] = None]
  /\ dirty' = dirty \ {p}
  /\ UNCHANGED <<ws, lk, crests, indexed, faults, used, forgotten, stranded>>

(* forget: delete_memory in one transaction, then the live object.  The    *)
(* workspace is not saved again.                                           *)
ForgetKeepsLive(p, v) ==
  /\ pc[p] = "idle"
  /\ Begin(p)
  /\ Commit(p)
  /\ v \in used
  /\ RowsDeleted({v})
  /\ indexed' = indexed \ {v}
  /\ forgotten' = forgotten \cup {v}
  /\ UNCHANGED <<procVars, faults, used, acked, stranded, dirty>>

Forget(p, v) ==
  /\ pc[p] = "idle"
  /\ Begin(p)
  /\ Commit(p)
  /\ v \in used
  /\ RowsDeleted({v})
  /\ indexed' = indexed \ {v}
  /\ Released(p, {v})
  /\ forgotten' = forgotten \cup {v}
  /\ UNCHANGED <<pc, sprouting, faults, used, acked, stranded, dirty>>

-----------------------------------------------------------------------------
Next ==
  \E p \in Procs :
    \/ Open(p) \/ Crash(p)
    \/ \E v \in Ids : Sprout(p, v) \/ Reinforce(p, v) \/ Lock(p, v)
                        \/ Unlock(p, v) \/ Forget(p, v)
    \/ \E s \in CrestLists : SetCrests(p, s)
    \/ Observe(p) \/ NothingToArchive(p) \/ CommitEvictions(p)
    \/ SaveWorkspace(p) \/ TransactionFails(p)

Spec == Init /\ [][Next]_vars

-----------------------------------------------------------------------------
(* Properties *)

StoreTyped ==
  /\ pc \in [Procs -> {"closed", "idle", "archive", "save"}]
  /\ ws \in [Procs -> [Ids -> VineState]]
  /\ lk \in [Procs -> SUBSET Ids]
  /\ sprouting \in [Procs -> Ids \cup {None}]
  /\ fresh \subseteq Procs
  /\ rowState \in [Ids -> LiveStates \cup {"absent"}]
  /\ rowLocked \subseteq Ids
  /\ indexed \subseteq Ids
  /\ faults \in Nat
  /\ used \subseteq Ids /\ acked \subseteq Ids /\ forgotten \subseteq Ids
  /\ stranded \subseteq Ids /\ dirty \subseteq Procs

TypeOK ==
  /\ StoreTyped
  /\ crests \in [Procs -> Seq(Ids)]
  /\ rowRank \in [Ids -> 0 .. MaxCrests]

(* A memory whose sprout returned is in some durable tier until it is      *)
(* forgotten, whatever crashes, stale processes and failed transactions    *)
(* come in between.                                                        *)
SproutedIsDurable == acked \ forgotten \subseteq Rows \cup indexed

(* A memory whose sprout returned is in a durable tier, or at least in the *)
(* workspace of a process that can still archive it, until it is           *)
(* forgotten: a failed eviction transfer leaves it pending, never lost.    *)
NeverLost ==
  \A v \in acked \ forgotten :
    v \in Rows \cup indexed \/ \E p \in fresh : ws[p][v] # "absent"

(* The part of SproutedIsDurable that holds with failing transactions too: *)
(* the only memories that can leave the database unforgotten are those     *)
(* that were pending when commit_evictions failed.                         *)
OnlyStrandedAreLost == acked \ forgotten \subseteq Rows \cup indexed \cup stranded

(* A vine is in L1 or in L2/L3, never in both: commit_evictions deletes    *)
(* the row it archives, and no later save of any process brings it back.   *)
TiersDisjoint == Rows \cap indexed = {}

(* A forgotten memory never comes back: neither a process that still holds *)
(* the vine in memory nor a save that was under way can restore it.        *)
ForgottenStaysGone == forgotten \cap (Rows \cup indexed) = {}

(* A crash between two operations changes nothing: what load_workspace     *)
(* would restore is what the process holds, unless its last operation      *)
(* failed.                                                                 *)
RestartIsExact ==
  \A p \in fresh \ dirty : pc[p] = "idle" =>
    /\ \A v \in Ids : ws[p][v] # "evicted" => rowState[v] = ws[p][v]
    /\ rowLocked = lk[p]

(* The checkpoint can always be opened again, as far as its crests go.     *)
CrestsReopen == RanksContiguous
=============================================================================
