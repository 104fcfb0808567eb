---------------------------- MODULE OracleProofs ----------------------------
(***************************************************************************)
(* Proofs about Oracle, for every set of vines and of processes.           *)
(*                                                                         *)
(* No property of the database is inductive by itself: a save overwrites   *)
(* all rows with what one process holds in memory.  The strengthening says *)
(* what the memory of an up-to-date process has to do with the rows it is  *)
(* about to overwrite; nothing is known, or needed, of a stale one.        *)
(***************************************************************************)
EXTENDS Oracle, FiniteSetTheorems, SequenceTheorems, WellFoundedInduction,
        TLAPS

\* An up-to-date process is open, and holds every vine that has a row, so a
\* save that leaves a vine out does so only because it is evicted.
HoldsRows ==
  \A p \in fresh : pc[p] # "closed" /\ \A v \in Rows : ws[p][v] # "absent"

\* Outside an observe only stranded vines are pending.
PendingIsStranded ==
  \A p \in fresh : pc[p] # "archive" => Pending(p) \subseteq stranded

\* An up-to-date process holds no vine that is archived or forgotten.
HoldsNoDeparted ==
  \A p \in fresh : \A v \in indexed \cup forgotten : ws[p][v] = "absent"

\* The vine that a running sprout will return is there to be saved.
SproutingIsLive ==
  \A p \in Procs : sprouting[p] # None =>
    pc[p] = "save" /\ ws[p][sprouting[p]] = "active"

\* A fresh id is nowhere yet.
UsedCovers ==
  /\ \A p \in Procs : \A v \in Ids : ws[p][v] # "absent" => v \in used
  /\ Rows \subseteq used /\ indexed \subseteq used /\ forgotten \subseteq used

\* Locks are on live vines, in memory and in the rows.
LocksLive ==
  /\ \A p \in Procs : \A v \in lk[p] : ws[p][v] \in LiveStates
  /\ rowLocked \subseteq Rows

\* Only a fault strands a vine.
FaultStrands == stranded # {} => faults > 0
FaultsBounded == faults <= MaxFaults

IInv ==
  /\ StoreTyped
  /\ HoldsRows /\ PendingIsStranded /\ HoldsNoDeparted
  /\ SproutingIsLive /\ UsedCovers /\ LocksLive
  /\ FaultStrands /\ FaultsBounded
  /\ OnlyStrandedAreLost /\ TiersDisjoint /\ ForgottenStaysGone
  /\ RestartIsExact

-----------------------------------------------------------------------------
LEMMA InitIInv == Init => IInv
  BY OracleAssumption DEF Init, IInv, StoreTyped, HoldsRows, PendingIsStranded,
     HoldsNoDeparted, SproutingIsLive, UsedCovers, LocksLive, FaultStrands,
     FaultsBounded, OnlyStrandedAreLost, TiersDisjoint, ForgottenStaysGone,
     RestartIsExact, Empty, Rows, VineState, LiveStates, None

LEMMA StutterIInv == IInv /\ UNCHANGED vars => IInv'
  BY DEF vars, procVars, dbVars, histVars, IInv, StoreTyped, HoldsRows,
     PendingIsStranded, HoldsNoDeparted, SproutingIsLive, UsedCovers, LocksLive,
     FaultStrands, FaultsBounded, OnlyStrandedAreLost, TiersDisjoint,
     ForgottenStaysGone, RestartIsExact, Rows, Pending

LEMMA TransactionFailsIInv ==
  ASSUME IInv, NEW p \in Procs, TransactionFails(p)
  PROVE  IInv'
<1> USE DEF IInv, StoreTyped, Rows, Pending, VineState, LiveStates, dbVars, rowVars, histVars,
     procVars, TransactionFails
<1>1. StoreTyped'
  BY OracleAssumption, NoneAssumption
<1>2. HoldsRows'
  BY DEF HoldsRows, PendingIsStranded
<1>3. PendingIsStranded'
  BY DEF PendingIsStranded
<1>4. HoldsNoDeparted'
  BY DEF HoldsNoDeparted, TiersDisjoint, ForgottenStaysGone, UsedCovers
<1>5. SproutingIsLive'
  BY DEF SproutingIsLive
<1>6. UsedCovers'
  BY DEF UsedCovers
<1>7. LocksLive'
  BY DEF LocksLive, UsedCovers
<1>8. FaultStrands'
  BY DEF FaultStrands
<1>9. FaultsBounded'
  BY OracleAssumption, NoneAssumption DEF FaultsBounded
<1>10. OnlyStrandedAreLost'
  BY DEF OnlyStrandedAreLost, HoldsRows, PendingIsStranded,
     SproutingIsLive
<1>11. TiersDisjoint'
  BY DEF TiersDisjoint, HoldsNoDeparted
<1>12. ForgottenStaysGone'
  BY DEF ForgottenStaysGone, HoldsNoDeparted
<1>13. RestartIsExact'
  BY DEF RestartIsExact, LocksLive
<1> QED
  BY <1>1, <1>2, <1>3, <1>4, <1>5, <1>6, <1>7, <1>8, <1>9, <1>10, <1>11,
     <1>12, <1>13

LEMMA OpenIInv ==
  ASSUME IInv, NEW p \in Procs, Open(p)
  PROVE  IInv'
<1> USE DEF IInv, StoreTyped, Rows, Pending, VineState, LiveStates, dbVars, rowVars, histVars,
     procVars, Open
<1>1. StoreTyped'
  BY OracleAssumption, NoneAssumption
<1>2. HoldsRows'
  BY DEF HoldsRows, PendingIsStranded
<1>3. PendingIsStranded'
  BY DEF PendingIsStranded
<1>4. HoldsNoDeparted'
  BY DEF HoldsNoDeparted, TiersDisjoint, ForgottenStaysGone, UsedCovers
<1>5. SproutingIsLive'
  BY DEF SproutingIsLive
<1>6. UsedCovers'
  BY DEF UsedCovers
<1>7. LocksLive'
  BY DEF LocksLive, UsedCovers
<1>8. FaultStrands'
  BY DEF FaultStrands
<1>9. FaultsBounded'
  BY OracleAssumption, NoneAssumption DEF FaultsBounded
<1>10. OnlyStrandedAreLost'
  BY DEF OnlyStrandedAreLost, HoldsRows, PendingIsStranded,
     SproutingIsLive
<1>11. TiersDisjoint'
  BY DEF TiersDisjoint, HoldsNoDeparted
<1>12. ForgottenStaysGone'
  BY DEF ForgottenStaysGone, HoldsNoDeparted
<1>13. RestartIsExact'
  BY DEF RestartIsExact, LocksLive
<1> QED
  BY <1>1, <1>2, <1>3, <1>4, <1>5, <1>6, <1>7, <1>8, <1>9, <1>10, <1>11,
     <1>12, <1>13

LEMMA CrashIInv ==
  ASSUME IInv, NEW p \in Procs, Crash(p)
  PROVE  IInv'
<1> USE DEF IInv, StoreTyped, Rows, Pending, VineState, LiveStates, dbVars, rowVars, histVars,
     procVars, Crash, Empty
<1>1. StoreTyped'
  BY OracleAssumption, NoneAssumption
<1>2. HoldsRows'
  BY DEF HoldsRows, PendingIsStranded
<1>3. PendingIsStranded'
  BY DEF PendingIsStranded
<1>4. HoldsNoDeparted'
  BY DEF HoldsNoDeparted, TiersDisjoint, ForgottenStaysGone, UsedCovers
<1>5. SproutingIsLive'
  BY DEF SproutingIsLive
<1>6. UsedCovers'
  BY DEF UsedCovers
<1>7. LocksLive'
  BY DEF LocksLive, UsedCovers
<1>8. FaultStrands'
  BY DEF FaultStrands
<1>9. FaultsBounded'
  BY OracleAssumption, NoneAssumption DEF FaultsBounded
<1>10. OnlyStrandedAreLost'
  BY DEF OnlyStrandedAreLost, HoldsRows, PendingIsStranded,
     SproutingIsLive
<1>11. TiersDisjoint'
  BY DEF TiersDisjoint, HoldsNoDeparted
<1>12. ForgottenStaysGone'
  BY DEF ForgottenStaysGone, HoldsNoDeparted
<1>13. RestartIsExact'
  BY DEF RestartIsExact, LocksLive
<1> QED
  BY <1>1, <1>2, <1>3, <1>4, <1>5, <1>6, <1>7, <1>8, <1>9, <1>10, <1>11,
     <1>12, <1>13

LEMMA SproutIInv ==
  ASSUME IInv, NEW p \in Procs, NEW w \in Ids, Sprout(p, w)
  PROVE  IInv'
<1> USE DEF IInv, StoreTyped, Rows, Pending, VineState, LiveStates, dbVars, rowVars, histVars,
     procVars, Sprout, Starts
<1>1. StoreTyped'
  BY OracleAssumption, NoneAssumption
<1>2. HoldsRows'
  BY DEF HoldsRows, PendingIsStranded
<1>3. PendingIsStranded'
  BY DEF PendingIsStranded
<1>4. HoldsNoDeparted'
  BY DEF HoldsNoDeparted, TiersDisjoint, ForgottenStaysGone, UsedCovers
<1>5. SproutingIsLive'
  BY DEF SproutingIsLive
<1>6. UsedCovers'
  BY DEF UsedCovers
<1>7. LocksLive'
  BY DEF LocksLive, UsedCovers
<1>8. FaultStrands'
  BY DEF FaultStrands
<1>9. FaultsBounded'
  BY OracleAssumption, NoneAssumption DEF FaultsBounded
<1>10. OnlyStrandedAreLost'
  BY DEF OnlyStrandedAreLost, HoldsRows, PendingIsStranded,
     SproutingIsLive
<1>11. TiersDisjoint'
  BY DEF TiersDisjoint, HoldsNoDeparted
<1>12. ForgottenStaysGone'
  BY DEF ForgottenStaysGone, HoldsNoDeparted
<1>13. RestartIsExact'
  BY DEF RestartIsExact, LocksLive
<1> QED
  BY <1>1, <1>2, <1>3, <1>4, <1>5, <1>6, <1>7, <1>8, <1>9, <1>10, <1>11,
     <1>12, <1>13

LEMMA ReinforceIInv ==
  ASSUME IInv, NEW p \in Procs, NEW w \in Ids, Reinforce(p, w)
  PROVE  IInv'
<1> USE DEF IInv, StoreTyped, Rows, Pending, VineState, LiveStates, dbVars, rowVars, histVars,
     procVars, Reinforce, Starts
<1>1. StoreTyped'
  BY OracleAssumption, NoneAssumption
<1>2. HoldsRows'
  BY DEF HoldsRows, PendingIsStranded
<1>3. PendingIsStranded'
  BY DEF PendingIsStranded
<1>4. HoldsNoDeparted'
  BY DEF HoldsNoDeparted, TiersDisjoint, ForgottenStaysGone, UsedCovers
<1>5. SproutingIsLive'
  BY DEF SproutingIsLive
<1>6. UsedCovers'
  BY DEF UsedCovers
<1>7. LocksLive'
  BY DEF LocksLive, UsedCovers
<1>8. FaultStrands'
  BY DEF FaultStrands
<1>9. FaultsBounded'
  BY OracleAssumption, NoneAssumption DEF FaultsBounded
<1>10. OnlyStrandedAreLost'
  BY DEF OnlyStrandedAreLost, HoldsRows, PendingIsStranded,
     SproutingIsLive
<1>11. TiersDisjoint'
  BY DEF TiersDisjoint, HoldsNoDeparted
<1>12. ForgottenStaysGone'
  BY DEF ForgottenStaysGone, HoldsNoDeparted
<1>13. RestartIsExact'
  BY DEF RestartIsExact, LocksLive
<1> QED
  BY <1>1, <1>2, <1>3, <1>4, <1>5, <1>6, <1>7, <1>8, <1>9, <1>10, <1>11,
     <1>12, <1>13

LEMMA LockIInv ==
  ASSUME IInv, NEW p \in Procs, NEW w \in Ids, Lock(p, w)
  PROVE  IInv'
<1> USE DEF IInv, StoreTyped, Rows, Pending, VineState, LiveStates, dbVars, rowVars, histVars,
     procVars, Lock, Starts
<1>1. StoreTyped'
  BY OracleAssumption, NoneAssumption
<1>2. HoldsRows'
  BY DEF HoldsRows, PendingIsStranded
<1>3. PendingIsStranded'
  BY DEF PendingIsStranded
<1>4. HoldsNoDeparted'
  BY DEF HoldsNoDeparted, TiersDisjoint, ForgottenStaysGone, UsedCovers
<1>5. SproutingIsLive'
  BY DEF SproutingIsLive
<1>6. UsedCovers'
  BY DEF UsedCovers
<1>7. LocksLive'
  BY DEF LocksLive, UsedCovers
<1>8. FaultStrands'
  BY DEF FaultStrands
<1>9. FaultsBounded'
  BY OracleAssumption, NoneAssumption DEF FaultsBounded
<1>10. OnlyStrandedAreLost'
  BY DEF OnlyStrandedAreLost, HoldsRows, PendingIsStranded,
     SproutingIsLive
<1>11. TiersDisjoint'
  BY DEF TiersDisjoint, HoldsNoDeparted
<1>12. ForgottenStaysGone'
  BY DEF ForgottenStaysGone, HoldsNoDeparted
<1>13. RestartIsExact'
  BY DEF RestartIsExact, LocksLive
<1> QED
  BY <1>1, <1>2, <1>3, <1>4, <1>5, <1>6, <1>7, <1>8, <1>9, <1>10, <1>11,
     <1>12, <1>13

LEMMA UnlockIInv ==
  ASSUME IInv, NEW p \in Procs, NEW w \in Ids, Unlock(p, w)
  PROVE  IInv'
<1> USE DEF IInv, StoreTyped, Rows, Pending, VineState, LiveStates, dbVars, rowVars, histVars,
     procVars, Unlock, Starts
<1>1. StoreTyped'
  BY OracleAssumption, NoneAssumption
<1>2. HoldsRows'
  BY DEF HoldsRows, PendingIsStranded
<1>3. PendingIsStranded'
  BY DEF PendingIsStranded
<1>4. HoldsNoDeparted'
  BY DEF HoldsNoDeparted, TiersDisjoint, ForgottenStaysGone, UsedCovers
<1>5. SproutingIsLive'
  BY DEF SproutingIsLive
<1>6. UsedCovers'
  BY DEF UsedCovers
<1>7. LocksLive'
  BY DEF LocksLive, UsedCovers
<1>8. FaultStrands'
  BY DEF FaultStrands
<1>9. FaultsBounded'
  BY OracleAssumption, NoneAssumption DEF FaultsBounded
<1>10. OnlyStrandedAreLost'
  BY DEF OnlyStrandedAreLost, HoldsRows, PendingIsStranded,
     SproutingIsLive
<1>11. TiersDisjoint'
  BY DEF TiersDisjoint, HoldsNoDeparted
<1>12. ForgottenStaysGone'
  BY DEF ForgottenStaysGone, HoldsNoDeparted
<1>13. RestartIsExact'
  BY DEF RestartIsExact, LocksLive
<1> QED
  BY <1>1, <1>2, <1>3, <1>4, <1>5, <1>6, <1>7, <1>8, <1>9, <1>10, <1>11,
     <1>12, <1>13

LEMMA SetCrestsIInv ==
  ASSUME IInv, NEW p \in Procs, NEW s \in CrestLists, SetCrests(p, s)
  PROVE  IInv'
<1> USE DEF IInv, StoreTyped, Rows, Pending, VineState, LiveStates, dbVars, rowVars, histVars,
     procVars, SetCrests, Starts
<1>1. StoreTyped'
  BY OracleAssumption, NoneAssumption
<1>2. HoldsRows'
  BY DEF HoldsRows, PendingIsStranded
<1>3. PendingIsStranded'
  BY DEF PendingIsStranded
<1>4. HoldsNoDeparted'
  BY DEF HoldsNoDeparted, TiersDisjoint, ForgottenStaysGone, UsedCovers
<1>5. SproutingIsLive'
  BY DEF SproutingIsLive
<1>6. UsedCovers'
  BY DEF UsedCovers
<1>7. LocksLive'
  BY DEF LocksLive, UsedCovers
<1>8. FaultStrands'
  BY DEF FaultStrands
<1>9. FaultsBounded'
  BY OracleAssumption, NoneAssumption DEF FaultsBounded
<1>10. OnlyStrandedAreLost'
  BY DEF OnlyStrandedAreLost, HoldsRows, PendingIsStranded,
     SproutingIsLive
<1>11. TiersDisjoint'
  BY DEF TiersDisjoint, HoldsNoDeparted
<1>12. ForgottenStaysGone'
  BY DEF ForgottenStaysGone, HoldsNoDeparted
<1>13. RestartIsExact'
  BY DEF RestartIsExact, LocksLive
<1> QED
  BY <1>1, <1>2, <1>3, <1>4, <1>5, <1>6, <1>7, <1>8, <1>9, <1>10, <1>11,
     <1>12, <1>13

LEMMA ObserveIInv ==
  ASSUME IInv, NEW p \in Procs, Observe(p)
  PROVE  IInv'
<1> USE DEF IInv, StoreTyped, Rows, Pending, VineState, LiveStates, dbVars, rowVars, histVars,
     procVars, Observe, Starts, DecayRelation, DecayEdges
<1>1. StoreTyped'
  BY OracleAssumption, NoneAssumption
<1>2. HoldsRows'
  BY DEF HoldsRows, PendingIsStranded
<1>3. PendingIsStranded'
  BY DEF PendingIsStranded
<1>4. HoldsNoDeparted'
  BY DEF HoldsNoDeparted, TiersDisjoint, ForgottenStaysGone, UsedCovers
<1>5. SproutingIsLive'
  BY DEF SproutingIsLive
<1>6. UsedCovers'
  BY DEF UsedCovers
<1>7. LocksLive'
  BY DEF LocksLive, UsedCovers
<1>8. FaultStrands'
  BY DEF FaultStrands
<1>9. FaultsBounded'
  BY OracleAssumption, NoneAssumption DEF FaultsBounded
<1>10. OnlyStrandedAreLost'
  BY DEF OnlyStrandedAreLost, HoldsRows, PendingIsStranded,
     SproutingIsLive
<1>11. TiersDisjoint'
  BY DEF TiersDisjoint, HoldsNoDeparted
<1>12. ForgottenStaysGone'
  BY DEF ForgottenStaysGone, HoldsNoDeparted
<1>13. RestartIsExact'
  BY DEF RestartIsExact, LocksLive
<1> QED
  BY <1>1, <1>2, <1>3, <1>4, <1>5, <1>6, <1>7, <1>8, <1>9, <1>10, <1>11,
     <1>12, <1>13

LEMMA NothingToArchiveIInv ==
  ASSUME IInv, NEW p \in Procs, NothingToArchive(p)
  PROVE  IInv'
<1> USE DEF IInv, StoreTyped, Rows, Pending, VineState, LiveStates, dbVars, rowVars, histVars,
     procVars, NothingToArchive
<1>1. StoreTyped'
  BY OracleAssumption, NoneAssumption
<1>2. HoldsRows'
  BY DEF HoldsRows, PendingIsStranded
<1>3. PendingIsStranded'
  BY DEF PendingIsStranded
<1>4. HoldsNoDeparted'
  BY DEF HoldsNoDeparted, TiersDisjoint, ForgottenStaysGone, UsedCovers
<1>5. SproutingIsLive'
  BY DEF SproutingIsLive
<1>6. UsedCovers'
  BY DEF UsedCovers
<1>7. LocksLive'
  BY DEF LocksLive, UsedCovers
<1>8. FaultStrands'
  BY DEF FaultStrands
<1>9. FaultsBounded'
  BY OracleAssumption, NoneAssumption DEF FaultsBounded
<1>10. OnlyStrandedAreLost'
  BY DEF OnlyStrandedAreLost, HoldsRows, PendingIsStranded,
     SproutingIsLive
<1>11. TiersDisjoint'
  BY DEF TiersDisjoint, HoldsNoDeparted
<1>12. ForgottenStaysGone'
  BY DEF ForgottenStaysGone, HoldsNoDeparted
<1>13. RestartIsExact'
  BY DEF RestartIsExact, LocksLive
<1> QED
  BY <1>1, <1>2, <1>3, <1>4, <1>5, <1>6, <1>7, <1>8, <1>9, <1>10, <1>11,
     <1>12, <1>13

LEMMA CommitEvictionsIInv ==
  ASSUME IInv, NEW p \in Procs, CommitEvictions(p)
  PROVE  IInv'
<1> USE DEF IInv, StoreTyped, Rows, Pending, VineState, LiveStates, dbVars, rowVars, histVars,
     procVars, CommitEvictions, Begin, Commit, RowsDeleted, Released
<1>1. StoreTyped'
  BY OracleAssumption, NoneAssumption
<1>2. HoldsRows'
  BY DEF HoldsRows, PendingIsStranded
<1>3. PendingIsStranded'
  BY DEF PendingIsStranded
<1>4. HoldsNoDeparted'
  BY DEF HoldsNoDeparted, TiersDisjoint, ForgottenStaysGone, UsedCovers
<1>5. SproutingIsLive'
  BY DEF SproutingIsLive
<1>6. UsedCovers'
  BY DEF UsedCovers
<1>7. LocksLive'
  BY DEF LocksLive, UsedCovers
<1>8. FaultStrands'
  BY DEF FaultStrands
<1>9. FaultsBounded'
  BY OracleAssumption, NoneAssumption DEF FaultsBounded
<1>10. OnlyStrandedAreLost'
  BY DEF OnlyStrandedAreLost, HoldsRows, PendingIsStranded,
     SproutingIsLive
<1>11. TiersDisjoint'
  BY DEF TiersDisjoint, HoldsNoDeparted
<1>12. ForgottenStaysGone'
  BY DEF ForgottenStaysGone, HoldsNoDeparted
<1>13. RestartIsExact'
  BY DEF RestartIsExact, LocksLive
<1> QED
  BY <1>1, <1>2, <1>3, <1>4, <1>5, <1>6, <1>7, <1>8, <1>9, <1>10, <1>11,
     <1>12, <1>13

LEMMA SaveWorkspaceIInv ==
  ASSUME IInv, NEW p \in Procs, SaveWorkspace(p)
  PROVE  IInv'
<1> USE DEF IInv, StoreTyped, Rows, Pending, VineState, LiveStates, dbVars, rowVars, histVars,
     procVars, SaveWorkspace, Begin, Commit, SavedState, SavedLocks
<1>1. StoreTyped'
  BY OracleAssumption, NoneAssumption
<1>2. HoldsRows'
  BY DEF HoldsRows, PendingIsStranded
<1>3. PendingIsStranded'
  BY DEF PendingIsStranded
<1>4. HoldsNoDeparted'
  BY DEF HoldsNoDeparted, TiersDisjoint, ForgottenStaysGone, UsedCovers
<1>5. SproutingIsLive'
  BY DEF SproutingIsLive
<1>6. UsedCovers'
  BY DEF UsedCovers
<1>7. LocksLive'
  BY DEF LocksLive, UsedCovers
<1>8. FaultStrands'
  BY DEF FaultStrands
<1>9. FaultsBounded'
  BY OracleAssumption, NoneAssumption DEF FaultsBounded
<1>10. OnlyStrandedAreLost'
  BY DEF OnlyStrandedAreLost, HoldsRows, PendingIsStranded,
     SproutingIsLive
<1>11. TiersDisjoint'
  BY DEF TiersDisjoint, HoldsNoDeparted
<1>12. ForgottenStaysGone'
  BY DEF ForgottenStaysGone, HoldsNoDeparted
<1>13. RestartIsExact'
  BY DEF RestartIsExact, LocksLive
<1> QED
  BY <1>1, <1>2, <1>3, <1>4, <1>5, <1>6, <1>7, <1>8, <1>9, <1>10, <1>11,
     <1>12, <1>13

LEMMA ForgetIInv ==
  ASSUME IInv, NEW p \in Procs, NEW w \in Ids, Forget(p, w)
  PROVE  IInv'
<1> USE DEF IInv, StoreTyped, Rows, Pending, VineState, LiveStates, dbVars, rowVars, histVars,
     procVars, Forget, Begin, Commit, RowsDeleted, Released
<1>1. StoreTyped'
  BY OracleAssumption, NoneAssumption
<1>2. HoldsRows'
  BY DEF HoldsRows, PendingIsStranded
<1>3. PendingIsStranded'
  BY DEF PendingIsStranded
<1>4. HoldsNoDeparted'
  BY DEF HoldsNoDeparted, TiersDisjoint, ForgottenStaysGone, UsedCovers
<1>5. SproutingIsLive'
  BY DEF SproutingIsLive
<1>6. UsedCovers'
  BY DEF UsedCovers
<1>7. LocksLive'
  BY DEF LocksLive, UsedCovers
<1>8. FaultStrands'
  BY DEF FaultStrands
<1>9. FaultsBounded'
  BY OracleAssumption, NoneAssumption DEF FaultsBounded
<1>10. OnlyStrandedAreLost'
  BY DEF OnlyStrandedAreLost, HoldsRows, PendingIsStranded,
     SproutingIsLive
<1>11. TiersDisjoint'
  BY DEF TiersDisjoint, HoldsNoDeparted
<1>12. ForgottenStaysGone'
  BY DEF ForgottenStaysGone, HoldsNoDeparted
<1>13. RestartIsExact'
  BY DEF RestartIsExact, LocksLive
<1> QED
  BY <1>1, <1>2, <1>3, <1>4, <1>5, <1>6, <1>7, <1>8, <1>9, <1>10, <1>11,
     <1>12, <1>13

LEMMA NextIInv == IInv /\ [Next]_vars => IInv'
<1> SUFFICES ASSUME IInv, [Next]_vars PROVE IInv'
  OBVIOUS
<1>1. ASSUME NEW p \in Procs,
             Open(p) \/ Crash(p) \/ Observe(p) \/ NothingToArchive(p)
               \/ CommitEvictions(p) \/ SaveWorkspace(p) \/ TransactionFails(p)
      PROVE  IInv'
  BY <1>1, OpenIInv, CrashIInv, ObserveIInv, NothingToArchiveIInv,
     CommitEvictionsIInv, SaveWorkspaceIInv, TransactionFailsIInv
<1>2. ASSUME NEW p \in Procs, NEW v \in Ids,
             Sprout(p, v) \/ Reinforce(p, v) \/ Lock(p, v) \/ Unlock(p, v)
               \/ Forget(p, v)
      PROVE  IInv'
  BY <1>2, SproutIInv, ReinforceIInv, LockIInv, UnlockIInv, ForgetIInv
<1>3. ASSUME NEW p \in Procs, NEW s \in CrestLists, SetCrests(p, s)
      PROVE  IInv'
  BY <1>3, SetCrestsIInv
<1>4. CASE UNCHANGED vars
  BY <1>4, StutterIInv
<1> QED
  BY <1>1, <1>2, <1>3, <1>4 DEF Next

-----------------------------------------------------------------------------
(* The strengthening holds in every reachable state, for any number of     *)
(* vines, processes, crashes and failed transactions.                      *)
THEOREM OracleInvariant == Spec => []IInv
  BY InitIInv, NextIInv, PTL DEF Spec

(* With failing transactions, a sprouted memory leaves the database        *)
(* unforgotten only if it was pending when commit_evictions failed.        *)
THEOREM LossIsStranding == Spec => []OnlyStrandedAreLost
<1>1. IInv => OnlyStrandedAreLost
  BY DEF IInv
<1> QED
  BY <1>1, OracleInvariant, PTL

(* Without failing transactions no crash, no restart and no stale process  *)
(* ever loses a memory whose sprout returned.                              *)
THEOREM SproutedMemoriesSurvive ==
  ASSUME MaxFaults = 0
  PROVE  Spec => []SproutedIsDurable
<1>1. IInv => SproutedIsDurable
  BY DEF IInv, StoreTyped, FaultStrands, FaultsBounded, OnlyStrandedAreLost,
     SproutedIsDurable
<1> QED
  BY <1>1, OracleInvariant, PTL

(* No save of any process, up to date or stale, brings a forgotten memory  *)
(* back into any durable tier.                                             *)
THEOREM ForgetIsFinal == Spec => []ForgottenStaysGone
<1>1. IInv => ForgottenStaysGone
  BY DEF IInv
<1> QED
  BY <1>1, OracleInvariant, PTL

(* L1 rows and the archive never hold the same vine.                       *)
THEOREM EvictionMovesWhole == Spec => []TiersDisjoint
<1>1. IInv => TiersDisjoint
  BY DEF IInv
<1> QED
  BY <1>1, OracleInvariant, PTL

(* A crash between two operations restores exactly the states and locks    *)
(* the process held.                                                       *)
THEOREM CrashIsTransparent == Spec => []RestartIsExact
<1>1. IInv => RestartIsExact
  BY DEF IInv
<1> QED
  BY <1>1, OracleInvariant, PTL

-----------------------------------------------------------------------------
(* The crests and their ranks                                              *)

\* A set of naturals that is not empty has a least element.
LEMMA Least ==
  ASSUME NEW B, B \subseteq Nat, B # {}
  PROVE  \E n \in B : \A m \in B : n <= m
<1>1. PICK n \in B : \A m \in B : ~(<<m, n>> \in OpToRel(<, Nat))
  BY NatLessThanWellFounded, WFMin
<1>2. \A m \in B : ~(m < n)
  BY <1>1 DEF OpToRel
<1> QED  BY <1>2

\* What is left of a list of vines is a list of vines that is no longer.
LEMMA WithoutTyped ==
  ASSUME NEW s \in Seq(Ids), NEW S
  PROVE  Without(s, S) \in Seq(Ids) /\ Len(Without(s, S)) <= Len(s)
<1> DEFINE Step(g, n) == IF n = 0 THEN <<>>
                         ELSE IF s[n] \in S THEN g[n - 1]
                         ELSE Append(g[n - 1], s[n])
           kept == CHOOSE g : g = [n \in 0 .. Len(s) |-> Step(g, n)]
<1>0. Len(s) \in Nat /\ \A n \in 1 .. Len(s) : s[n] \in Ids
  OBVIOUS
<1>1. \A m \in 0 .. Len(s) : \E g : g = [n \in 0 .. m |-> Step(g, n)]
  <2> DEFINE Bad == {m \in 0 .. Len(s) : ~\E g : g = [n \in 0 .. m |-> Step(g, n)]}
  <2> SUFFICES ASSUME Bad # {} PROVE FALSE
    OBVIOUS
  <2>1. PICK m \in Bad : \A k \in Bad : m <= k
    <3>1. Bad \subseteq Nat
      BY <1>0
    <3> HIDE DEF Bad
    <3> QED  BY <3>1, Least
  <2>2. CASE m = 0
    <3> DEFINE h == [n \in 0 .. 0 |-> <<>>]
    <3>1. h = [n \in 0 .. 0 |-> Step(h, n)]
      OBVIOUS
    <3> QED  BY <3>1, <2>1, <2>2
  <2>3. CASE m # 0
    <3>0. m \in 1 .. Len(s) /\ m - 1 \in 0 .. Len(s) /\ ~(m <= m - 1)
      BY <2>1, <2>3, <1>0
    <3>1. m \in 1 .. Len(s) /\ m - 1 \in 0 .. Len(s) /\ m - 1 \notin Bad
      <4> HIDE DEF Bad
      <4> QED  BY <3>0, <2>1
    <3>2. PICK g : g = [n \in 0 .. (m - 1) |-> Step(g, n)]
      BY <3>1
    <3> DEFINE h == [n \in 0 .. m |-> IF n = m THEN Step(g, m) ELSE g[n]]
    <3>3. ASSUME NEW n \in 0 .. m PROVE h[n] = Step(h, n)
      <4>1. CASE n = 0
        BY <4>1, <3>1, <3>2, <1>0
      <4>2. CASE n # 0
        <5>1. n - 1 \in 0 .. (m - 1) /\ n - 1 # m /\ h[n - 1] = g[n - 1]
          BY <4>2, <3>1, <1>0
        <5>2. h[n] = Step(g, n)
          <6>1. CASE n = m
            BY <6>1
          <6>2. CASE n # m
            <7>1. n \in 0 .. (m - 1) /\ h[n] = g[n]
              BY <6>2, <3>1, <1>0
            <7> QED  BY <7>1, <3>2
          <6> QED  BY <6>1, <6>2
        <5> QED  BY <5>1, <5>2, <4>2
      <4> QED  BY <4>1, <4>2
    <3>4. h = [n \in 0 .. m |-> Step(h, n)]
      BY <3>3
    <3> HIDE DEF h
    <3> QED  BY <3>4, <2>1
  <2> QED  BY <2>2, <2>3
<1>2. kept = [n \in 0 .. Len(s) |-> Step(kept, n)]
  <2> DEFINE Has(m) == \E g : g = [n \in 0 .. m |-> Step(g, n)]
  <2>1. Has(Len(s))
    <3>1. Len(s) \in 0 .. Len(s)
      BY <1>0
    <3>2. \A m \in 0 .. Len(s) : Has(m)
      BY <1>1
    <3> HIDE DEF Has
    <3> QED  BY <3>1, <3>2
  <2> QED  BY <2>1
<1>3. Without(s, S) = kept[Len(s)]
  BY DEF Without
<1> HIDE DEF kept
<1>4. \A n \in 0 .. Len(s) : kept[n] \in Seq(Ids) /\ Len(kept[n]) <= n
  <2> DEFINE Bad == {n \in 0 .. Len(s) :
                       ~(kept[n] \in Seq(Ids) /\ Len(kept[n]) <= n)}
  <2> SUFFICES ASSUME Bad # {} PROVE FALSE
    OBVIOUS
  <2>1. PICK m \in Bad : \A k \in Bad : m <= k
    <3>1. Bad \subseteq Nat
      BY <1>0
    <3> HIDE DEF Bad
    <3> QED  BY <3>1, Least
  <2>2. kept[m] = Step(kept, m)
    BY <1>2, <2>1
  <2>3. CASE m = 0
    <3>1. kept[m] = <<>>
      BY <2>2, <2>3
    <3>2. << >> \in Seq(Ids) /\ Len(<< >>) = 0
      OBVIOUS
    <3> QED  BY <2>1, <2>3, <3>1, <3>2
  <2>4. CASE m # 0
    <3>1. m \in 1 .. Len(s) /\ m - 1 \in 0 .. Len(s) /\ m - 1 \notin Bad
      BY <2>1, <2>4, <1>0
    <3>2. kept[m - 1] \in Seq(Ids) /\ Len(kept[m - 1]) <= m - 1
      BY <3>1
    <3>3. /\ Append(kept[m - 1], s[m]) \in Seq(Ids)
          /\ Len(Append(kept[m - 1], s[m])) = Len(kept[m - 1]) + 1
      BY <3>1, <3>2, <1>0
    <3>4. Len(kept[m - 1]) \in Nat
      BY <3>2
    <3>5. kept[m] \in Seq(Ids) /\ Len(kept[m]) <= m
      BY <2>2, <2>4, <3>1, <3>2, <3>3, <3>4
    <3> QED  BY <2>1, <3>5
  <2> QED  BY <2>3, <2>4
<1> QED  BY <1>3, <1>4, <1>0

CrestsTyped ==
  /\ crests \in [Procs -> Seq(Ids)]
  /\ \A p \in Procs : Len(crests[p]) <= MaxCrests
  /\ rowRank \in [Ids -> 0 .. MaxCrests]

\* The crests of the database are as many vines as have a rank.
LEMMA LoadedCrestsTyped ==
  ASSUME CrestsTyped, RanksContiguous
  PROVE  LoadedCrests \in Seq(Ids) /\ Len(LoadedCrests) <= MaxCrests
<1> DEFINE ranked == {v \in Ids : rowRank[v] # 0}
           n == Cardinality(ranked)
<1>1. n \in Nat
  <2>1. ranked \in SUBSET Ids
    OBVIOUS
  <2>2. IsFiniteSet(ranked)
    <3>1. IsFiniteSet(Ids)
      BY OracleAssumption
    <3> HIDE DEF ranked
    <3> QED  BY <2>1, <3>1, FS_Subset
  <2> HIDE DEF ranked
  <2> QED  BY <2>2, FS_CardinalityType
<1>2. {rowRank[v] : v \in ranked} = 1 .. n
  BY DEF RanksContiguous
<1>3. \A i \in 1 .. n : \E v \in Ids : rowRank[v] = i
  BY <1>2
<1>4. LoadedCrests = [i \in 1 .. n |-> CHOOSE v \in Ids : rowRank[v] = i]
  BY DEF LoadedCrests
<1>5. \A i \in 1 .. n : i <= MaxCrests
  <2>1. \A v \in Ids : rowRank[v] \in Nat /\ rowRank[v] <= MaxCrests
    BY OracleAssumption DEF CrestsTyped
  <2> QED  BY <2>1, <1>3
<1> HIDE DEF n
<1>6. LoadedCrests \in [1 .. n -> Ids]
  <2>1. \A i \in 1 .. n : (CHOOSE v \in Ids : rowRank[v] = i) \in Ids
    BY <1>3
  <2> QED  BY <2>1, <1>4
<1>7. LoadedCrests \in Seq(Ids) /\ Len(LoadedCrests) = n
  BY <1>1, <1>6
<1>8. n <= MaxCrests
  <2>1. n = 0 \/ n \in 1 .. n
    BY <1>1
  <2> QED  BY <1>1, <1>5, <2>1, OracleAssumption
<1> QED  BY <1>7, <1>8

LEMMA ReleasedTyped ==
  ASSUME CrestsTyped, NEW p \in Procs, NEW S, Released(p, S)
  PROVE  /\ crests' \in [Procs -> Seq(Ids)]
         /\ \A q \in Procs : Len(crests'[q]) <= MaxCrests
<1>1. crests[p] \in Seq(Ids) /\ Len(crests[p]) <= MaxCrests /\ Len(crests[p]) \in Nat
  BY DEF CrestsTyped
<1>2. /\ Without(crests[p], S) \in Seq(Ids)
      /\ Len(Without(crests[p], S)) <= Len(crests[p])
  BY <1>1, WithoutTyped
<1>3. Len(Without(crests[p], S)) \in Nat
  BY <1>2
<1>4. crests' = [crests EXCEPT ![p] = Without(crests[p], S)]
  BY DEF Released
<1>5. crests' \in [Procs -> Seq(Ids)]
  BY <1>2, <1>4 DEF CrestsTyped
<1>6. ASSUME NEW q \in Procs PROVE Len(crests'[q]) <= MaxCrests
  <2>1. CASE q = p
    <3>1. crests'[q] = Without(crests[p], S)
      BY <1>4, <2>1 DEF CrestsTyped
    <3> QED  BY <3>1, <1>1, <1>2, <1>3, OracleAssumption
  <2>2. CASE q # p
    BY <1>4, <2>2 DEF CrestsTyped
  <2> QED  BY <2>1, <2>2
<1> QED  BY <1>5, <1>6

LEMMA RowsDeletedTyped ==
  ASSUME CrestsTyped, NEW S, RowsDeleted(S)
  PROVE  rowRank' \in [Ids -> 0 .. MaxCrests]
BY OracleAssumption DEF RowsDeleted, CrestsTyped

\* One crest list is replaced by another that is not too long.
LEMMA CrestsReplaced ==
  ASSUME CrestsTyped, NEW p \in Procs, NEW s \in Seq(Ids), Len(s) <= MaxCrests,
         crests' = [crests EXCEPT ![p] = s], rowRank' = rowRank
  PROVE  CrestsTyped'
BY DEF CrestsTyped

LEMMA SavedRankTyped ==
  ASSUME CrestsTyped, NEW p \in Procs, NEW v \in Ids
  PROVE  SavedRank(p, v) \in 0 .. MaxCrests
<1>1. Len(crests[p]) \in Nat /\ Len(crests[p]) <= MaxCrests
  BY DEF CrestsTyped
<1>2. SavedRank(p, v) \in 0 .. Len(crests[p])
  BY <1>1 DEF SavedRank
<1> QED  BY <1>1, <1>2, OracleAssumption

LEMMA CrestsNext == CrestsTyped /\ [Next]_vars => CrestsTyped'
<1> SUFFICES ASSUME CrestsTyped, [Next]_vars PROVE CrestsTyped'
  OBVIOUS
<1>1. CASE UNCHANGED <<crests, rowRank>>
  BY <1>1 DEF CrestsTyped
<1>2. ASSUME NEW p \in Procs, Open(p) PROVE CrestsTyped'
  BY <1>2, LoadedCrestsTyped, CrestsReplaced DEF Open, rowVars
<1>3. ASSUME NEW p \in Procs, Crash(p) PROVE CrestsTyped'
  <2>1. << >> \in Seq(Ids) /\ Len(<< >>) <= MaxCrests
    BY OracleAssumption
  <2> QED  BY <1>3, <2>1, CrestsReplaced DEF Crash, rowVars
<1>4. ASSUME NEW p \in Procs, NEW s \in CrestLists, SetCrests(p, s)
      PROVE  CrestsTyped'
  <2>1. s \in Seq(Ids) /\ Len(s) <= MaxCrests
    BY OracleAssumption DEF CrestLists
  <2> QED  BY <1>4, <2>1, CrestsReplaced DEF SetCrests, dbVars
<1>5. ASSUME NEW p \in Procs, NEW v \in Ids, Forget(p, v) PROVE CrestsTyped'
  BY <1>5, ReleasedTyped, RowsDeletedTyped DEF Forget, CrestsTyped
<1>6. ASSUME NEW p \in Procs, CommitEvictions(p) PROVE CrestsTyped'
  BY <1>6, ReleasedTyped, RowsDeletedTyped DEF CommitEvictions, CrestsTyped
<1>7. ASSUME NEW p \in Procs, SaveWorkspace(p) PROVE CrestsTyped'
  BY <1>7, SavedRankTyped DEF SaveWorkspace, CrestsTyped
<1>8. ASSUME NEW p \in Procs, NEW v \in Ids,
             Sprout(p, v) \/ Reinforce(p, v) \/ Lock(p, v) \/ Unlock(p, v)
      PROVE  UNCHANGED <<crests, rowRank>>
  BY <1>8 DEF Sprout, Reinforce, Lock, Unlock, dbVars
<1>9. ASSUME NEW p \in Procs,
             Observe(p) \/ NothingToArchive(p) \/ TransactionFails(p)
      PROVE  UNCHANGED <<crests, rowRank>>
  BY <1>9 DEF Observe, NothingToArchive, TransactionFails, dbVars, rowVars
<1>10. CASE UNCHANGED vars
  BY <1>10 DEF vars, procVars, dbVars, CrestsTyped
<1> QED
  BY <1>1, <1>2, <1>3, <1>4, <1>5, <1>6, <1>7, <1>8, <1>9, <1>10 DEF Next

(* The store is well-typed: the crests of every process are at most        *)
(* MaxCrests vines, the loaded ones included, and no row has a higher rank *)
(* than that, whatever was archived, forgotten or saved in between.        *)
THEOREM StoreIsTyped == Spec => []TypeOK
<1>1. Init => CrestsTyped
  BY OracleAssumption DEF Init, CrestsTyped
<1>2. Spec => []CrestsTyped
  BY <1>1, CrestsNext, PTL DEF Spec
<1>3. IInv /\ CrestsTyped => TypeOK
  BY DEF IInv, CrestsTyped, TypeOK
<1> QED
  BY <1>2, <1>3, OracleInvariant, PTL
=============================================================================
