----------------------------- MODULE Migration -----------------------------
(***************************************************************************)
(* Profiles of earlier releases, and the move of a profile into another    *)
(* one.  A legacy-v1 profile may be read, pruned by forget and migrated; a *)
(* scoped-v2 profile from before the layer contracts or the authenticated  *)
(* record metadata adopts both when it is opened, in the database first    *)
(* and in the key manifest afterwards.  migrate_to copies the records of   *)
(* the source into an empty target with remember, then gives the copies    *)
(* their own contracts, and erases the copies when it fails.               *)
(* verify_profile_migration later compares the two profiles read-only.     *)
(*                                                                         *)
(* One process has both profiles open.  A remember or forget of the target *)
(* that is cut off is completed or undone by the next start-up, which      *)
(* module AgentMemory shows, so each is one step here; it may also fail    *)
(* and change nothing.  Topic and payload of a record are the record it    *)
(* was first written as.                                                   *)
(***************************************************************************)
EXTENDS Integers, Sequences, FiniteSets, FiniteSetsExt, SequencesExt

CONSTANTS
  MaxSource,   \* how many records the source ever has
  MaxAdopted,  \* how many of them, in a scoped source, from before contracts
  MaxTarget,   \* with how many records the target's users leave it
  MaxEff,      \* bound on effective_at
  MaxNow,      \* bound on the clock
  LiveTicks,   \* lifetime of a Live record
  MaxEdits,    \* how many writes the target's own users make
  MaxFailures  \* how many writes fail or records are found damaged

ASSUME MigrationAssumption ==
  /\ {MaxSource, MaxTarget, MaxEff, LiveTicks} \subseteq Nat \ {0}
  /\ {MaxAdopted, MaxNow, MaxEdits, MaxFailures} \subseteq Nat

NoId == 0
Null == -1

VARIABLES
  kind,      \* "legacy" or "scoped": security_schema of the source
  src, tgt,  \* the records of the two profiles
  marks,     \* schema markers in the source's database
  tags,      \* records of the source with an integrity tag
  features,  \* features in the source's key manifest
  pc,        \* what the process does next
  rest,      \* migrate_to: what is left of its current loop
  made,      \* migrate_to: the pairs of source and target, in the order made
  outcome,   \* how the last migrate_to ended, if nothing was written since
  nextId, now, edits, failures

sourceVars == <<kind, src, marks, tags, features, nextId>>
runVars == <<rest, made>>
envVars == <<now, edits, failures>>
migrationVars == <<sourceVars, tgt, pc, runVars, outcome, envVars>>

Ids == 1 .. MaxSource

\* A contract: its layer, its links, and whose provenance, review date and
\* history it has.
NoContract == [layer |-> "none", expires |-> Null, related |-> {}, from |-> "none"]
ContractOf(layer, expires, related, from) ==
  [layer |-> layer, expires |-> expires, related |-> related, from |-> from]

\* A row; it is ok unless it is damaged, which quarantines the record when a
\* start-up verifies it.
Record(of, eff, contract) ==
  [of |-> of, eff |-> eff, by |-> NoId, contract |-> contract, ok |-> TRUE]

EmptyStore == [v \in {} |-> Record(NoId, 0, NoContract)]

MigrationInit ==
  /\ kind \in {"legacy", "scoped"}
  /\ src = EmptyStore /\ tgt = EmptyStore
  /\ marks = {} /\ tags = {} /\ features = {}
  /\ pc = "earlier"
  /\ rest = <<>> /\ made = <<>> /\ outcome = "none"
  /\ nextId = 1 /\ now = 0 /\ edits = 0 /\ failures = 0

Fails == failures < MaxFailures /\ failures' = failures + 1
Edit == edits < MaxEdits /\ edits' = edits + 1

-----------------------------------------------------------------------------
(* The record stores *)

\* put: every superseded record exists, is superseded by nothing and does not
\* take effect later.
CanReplace(store, eff, S) ==
  \A w \in S : /\ w \in DOMAIN store /\ store[w].ok
               /\ store[w].by = NoId
               /\ store[w].eff <= eff

Put(store, v, record, S) ==
  [w \in DOMAIN store \cup {v} |->
     IF w = v THEN record
     ELSE IF w \in S THEN [store[w] EXCEPT !.by = v] ELSE store[w]]

\* delete: what the record superseded goes to the one that superseded it.
Delete(v, store) ==
  [w \in DOMAIN store \ {v} |->
     IF store[w].by = v THEN [store[w] EXCEPT !.by = store[v].by]
     ELSE store[w]]

Dependents(store, v) ==
  LET Logic == {w \in DOMAIN store :
                  store[w].ok /\ store[w].contract.related # {}}
      Closed(D) == \A w \in Logic :
                     store[w].contract.related \cap (D \cup {v}) # {} => w \in D
  IN {w \in Logic : \A D \in SUBSET Logic : Closed(D) => w \in D}

DeleteAll(store, S) == FoldSet(Delete, store, S)

\* forget, with its cascade; what is quarantined is passed over.
Forgotten(v, store) ==
  IF v \in DOMAIN store
  THEN DeleteAll(store, Dependents(store, v) \cup {v})
  ELSE store

ForgetAll(store, S) == FoldSet(Forgotten, store, S)

Expired(store) ==
  {v \in DOMAIN store : /\ store[v].ok
                         /\ store[v].contract.layer = "live"
                         /\ store[v].contract.expires <= now}

\* _prune_expired_live_memory
Pruned(store) == ForgetAll(store, Expired(store))

-----------------------------------------------------------------------------
(* The source, as an earlier release left it *)

\* A record of an earlier release: a legacy one, perhaps from before the
\* temporal columns, or a scoped one without a contract.
EarlierPut(eff, S) ==
  /\ pc = "earlier"
  /\ nextId <= IF kind = "legacy" THEN MaxSource ELSE MaxAdopted
  /\ eff = Null => kind = "legacy" /\ S = {}
                     /\ \A v \in DOMAIN src : src[v].eff = Null
  /\ eff # Null => CanReplace(src, eff, S) /\ \A v \in DOMAIN src : src[v].eff # Null
  /\ src' = Put(src, nextId, Record(nextId, eff, NoContract), S)
  /\ nextId' = nextId + 1
  /\ UNCHANGED <<kind, marks, tags, features, tgt, pc, runVars, outcome, envVars>>

Install ==
  /\ pc = "earlier" /\ pc' = "closed"
  /\ UNCHANGED <<sourceVars, tgt, runVars, outcome, envVars>>

\* The legacy store adds the temporal columns when it is opened: a record
\* took effect when it was written.
WithTemporalColumns(store) ==
  [v \in DOMAIN store |->
     IF store[v].eff = Null THEN [store[v] EXCEPT !.eff = Min({v, MaxEff})]
     ELSE store[v]]

\* What initialize_memory_contracts and initialize_record_integrity raise on.
WithContract == {v \in DOMAIN src : src[v].contract # NoContract}
ContractsRefused ==
  \/ "contracts" \in features \ marks
  \/ "contracts" \notin marks /\ WithContract # {}
  \/ "contracts" \in marks /\ WithContract # DOMAIN src
IntegrityRefused ==
  \/ "integrity" \in features \ marks
  \/ "integrity" \in marks \ features /\ tags # DOMAIN src
  \/ "integrity" \notin marks \cup features /\ tags # {}

\* migrated_short_term_contract
AdoptedContract == ContractOf("short_term", Null, {}, "adopted")

\* Mutant: the contracts are written without their marker.
ContractsUnmarked ==
  /\ pc = "closed" /\ kind = "scoped" /\ ~ContractsRefused
  /\ src' = [v \in DOMAIN src |->
               IF src[v].contract = NoContract
               THEN [src[v] EXCEPT !.contract = AdoptedContract] ELSE src[v]]
  /\ pc' = IF "contracts" \in features THEN "integrity" ELSE "enableContracts"
  /\ UNCHANGED <<kind, marks, tags, features, nextId, tgt, runVars, outcome,
                 envVars>>

\* One transaction: the missing contracts and the marker.
AdoptContracts ==
  /\ pc = "closed" /\ kind = "scoped" /\ ~ContractsRefused
  /\ src' = [v \in DOMAIN src |->
               IF src[v].contract = NoContract
               THEN [src[v] EXCEPT !.contract = AdoptedContract] ELSE src[v]]
  /\ marks' = marks \cup {"contracts"}
  /\ pc' = IF "contracts" \in features THEN "integrity" ELSE "enableContracts"
  /\ UNCHANGED <<kind, tags, features, nextId, tgt, runVars, outcome, envVars>>

EnableContracts ==
  /\ pc = "enableContracts"
  /\ features' = features \cup {"contracts"}
  /\ pc' = "integrity"
  /\ UNCHANGED <<kind, src, marks, tags, nextId, tgt, runVars, outcome, envVars>>

\* _validate_record_before_integrity_adoption raises on a damaged record.
ValidForAdoption == \A v \in DOMAIN src : src[v].ok

\* One transaction, the tags and the marker; if they are there already, only
\* the feature is missing.
AdoptIntegrity ==
  /\ pc = "integrity" /\ "integrity" \notin features /\ ~IntegrityRefused
  /\ "integrity" \in marks \/ ValidForAdoption
  /\ IF "integrity" \in marks
     THEN UNCHANGED <<marks, tags>>
     ELSE tags' = DOMAIN src /\ marks' = marks \cup {"integrity"}
  /\ pc' = "enableIntegrity"
  /\ UNCHANGED <<kind, src, features, nextId, tgt, runVars, outcome, envVars>>

\* The start-up ends with the expired Live records pruned, and the target is
\* opened next.
Opened(store) ==
  /\ pc' = "open"
  /\ src' = store
  /\ tags' = tags \cap DOMAIN store
  /\ tgt' = Pruned(tgt)
  /\ outcome' = IF <<src', tgt'>> = <<src, tgt>> THEN outcome ELSE "none"

EnableIntegrity ==
  /\ pc = "enableIntegrity"
  /\ features' = features \cup {"integrity"}
  /\ Opened(Pruned(src))
  /\ UNCHANGED <<kind, marks, nextId, runVars, envVars>>

\* A start-up that has nothing to adopt verifies the tags, and a damaged
\* record stays quarantined.
VerifyRecords ==
  /\ pc = "integrity" /\ "integrity" \in features /\ ~IntegrityRefused
  /\ Opened(Pruned(src))
  /\ UNCHANGED <<kind, marks, features, nextId, runVars, envVars>>

\* AgentMemory.__init__ picks the store by the version of the database.
OpenLegacy ==
  /\ pc = "closed" /\ kind = "legacy"
  /\ Opened(WithTemporalColumns(src))
  /\ UNCHANGED <<kind, marks, features, nextId, runVars, envVars>>

-----------------------------------------------------------------------------
(* The profiles in use *)

Readable == {v \in DOMAIN src : src[v].ok}

\* remember in the source; a legacy profile is migration-only.
SourceRemember(layer, eff, S, related) ==
  /\ pc = "open" /\ kind = "scoped" /\ nextId <= MaxSource
  /\ (layer = "contextual_logic") <=> (related # {})
  /\ related \subseteq Readable
  /\ CanReplace(src, eff, S)
  /\ LET expires == IF layer = "live" THEN now + LiveTicks ELSE Null
         new == ContractOf(layer, expires, related, "caller")
     IN src' = Put(src, nextId, Record(nextId, eff, new), S)
  /\ tags' = IF "integrity" \in features THEN tags \cup {nextId} ELSE tags
  /\ nextId' = nextId + 1
  /\ outcome' = "none"
  /\ UNCHANGED <<kind, marks, features, tgt, pc, runVars, envVars>>

SourceForget(v) ==
  /\ pc = "open" /\ v \in Readable
  /\ src' = Forgotten(v, src)
  /\ tags' = tags \cap DOMAIN src'
  /\ outcome' = "none"
  /\ UNCHANGED <<kind, marks, features, nextId, tgt, pc, runVars, envVars>>

\* An id that the store does not use, for uuid4.
NewId(store) ==
  Min({t \in 1 .. Cardinality(DOMAIN store) + 1 : t \notin DOMAIN store})

\* remember and forget in the target, by its own users.
TargetRemember(S) ==
  /\ pc = "open" /\ Edit /\ Cardinality(DOMAIN tgt) < MaxTarget
  /\ \A t \in DOMAIN tgt : tgt[t].of # NoId
  /\ CanReplace(tgt, MaxEff, S)
  /\ LET new == ContractOf("short_term", Null, {}, "caller")
     IN tgt' = Put(tgt, NewId(tgt), Record(NoId, MaxEff, new), S)
  /\ outcome' = "none"
  /\ UNCHANGED <<sourceVars, pc, runVars, now, failures>>

TargetForget(t) ==
  /\ pc = "open" /\ Edit /\ t \in DOMAIN tgt
  /\ tgt' = Forgotten(t, tgt)
  /\ outcome' = "none"
  /\ UNCHANGED <<sourceVars, pc, runVars, now, failures>>

-----------------------------------------------------------------------------
(* migrate_to *)

\* records_for_migration: quarantined records are left out.
Migratable == Readable
Predecessors(i) == {j \in Migratable : src[j].by = i}

\* A call that raises before its first copy changes nothing: the target is
\* not empty, a link leads out of the records, or a payload breaks the policy.
\* The records come by the wall clock, which may have been set back, and by
\* random id where it stood still: a record may come before the one that it
\* superseded.
Migrate ==
  /\ pc = "open"
  /\ DOMAIN tgt = {}
  /\ \A i \in Migratable : src[i].by \in Migratable \cup {NoId}
  /\ pc' = "copy"
  /\ rest' \in SetToSeqs(Migratable)
  /\ made' = <<>> /\ outcome' = "none"
  /\ UNCHANGED <<sourceVars, tgt, envVars>>

MigratedIds == {made[n][1] : n \in DOMAIN made}
CopyOf(i) == made[CHOOSE n \in DOMAIN made : made[n][1] = i][2]

\* Mutant: a record is copied as soon as it is met.
CopyableAtOnce(i) == TRUE

\* The loop passes over a record until the ones it superseded are copied.
Copyable(i) == Predecessors(i) \subseteq MigratedIds

\* The layer a copy has until it is given its contract.
TemporaryContract(i) ==
  IF src[i].contract.layer = "live"
  THEN ContractOf("live", src[i].contract.expires, {}, "transfer")
  ELSE ContractOf("short_term", Null, {}, "transfer")

\* Mutant: the records with a contract of their own are not taken back.
RollBackTemporary ==
  SelectSeq(Reverse(made), LAMBDA m : tgt[m[2]].contract.from = "transfer")

CreatedInReverse == Reverse(made)

\* The except branch erases the copies, the last one first.
Raise ==
  /\ pc' = "rollback"
  /\ rest' = CreatedInReverse
  /\ made' = <<>>

CopyStep ==
  /\ pc = "copy" /\ rest # <<>>
  /\ LET i == Head(rest)
         t == NewId(tgt)
         S == {CopyOf(j) : j \in Predecessors(i) \cap MigratedIds}
         new == TemporaryContract(i)
         Remembers == /\ new.layer = "live" => new.expires > now
                      /\ CanReplace(tgt, src[i].eff, S)
     IN IF ~Copyable(i)
        THEN /\ rest' = Append(Tail(rest), i)
             /\ UNCHANGED <<tgt, pc, made, failures>>
        ELSE \/ /\ Remembers
                /\ tgt' = Put(tgt, t, Record(i, src[i].eff, new), S)
                /\ made' = Append(made, <<i, t>>)
                /\ rest' = Tail(rest)
                /\ UNCHANGED <<pc, failures>>
             \/ /\ IF Remembers THEN Fails ELSE UNCHANGED failures
                /\ Raise /\ UNCHANGED tgt
  /\ UNCHANGED <<sourceVars, outcome, now, edits>>

Copied ==
  /\ pc = "copy" /\ rest = <<>>
  /\ pc' = "contracts"
  /\ rest' = IF kind = "scoped" THEN made ELSE <<>>
  /\ UNCHANGED <<sourceVars, tgt, made, outcome, envVars>>

\* The contract of the source, with its links translated.
TargetContract(i) ==
  [src[i].contract EXCEPT !.related = {CopyOf(j) : j \in @}]

ContractStep ==
  /\ pc = "contracts" /\ rest # <<>>
  /\ LET i == Head(rest)[1]
         t == Head(rest)[2]
         Known == src[i].contract.related \subseteq MigratedIds
     IN \/ /\ Known
           /\ tgt' = [tgt EXCEPT ![t].contract = TargetContract(i)]
           /\ rest' = Tail(rest)
           /\ UNCHANGED <<pc, made, failures>>
        \/ /\ IF Known THEN Fails ELSE UNCHANGED failures
           /\ Raise /\ UNCHANGED tgt
  /\ UNCHANGED <<sourceVars, outcome, now, edits>>

Finish ==
  /\ pc = "contracts" /\ rest = <<>>
  /\ pc' = "open" /\ made' = <<>> /\ outcome' = "migrated"
  /\ UNCHANGED <<sourceVars, tgt, rest, envVars>>

\* A forget that fails leaves the rest of the copies behind.
RollBack ==
  /\ pc = "rollback"
  /\ IF rest = <<>>
     THEN pc' = "open" /\ outcome' = "raised" /\ UNCHANGED <<tgt, rest, failures>>
     ELSE \/ /\ tgt' = Forgotten(Head(rest)[2], tgt)
             /\ rest' = Tail(rest)
             /\ UNCHANGED <<pc, outcome, failures>>
          \/ /\ Fails
             /\ pc' = "open" /\ outcome' = "none" /\ rest' = <<>>
             /\ UNCHANGED tgt
  /\ UNCHANGED <<sourceVars, made, now, edits>>

-----------------------------------------------------------------------------
(* Processes and time *)

\* The process ends, or closes both profiles.
Close ==
  /\ pc \notin {"earlier", "closed"}
  /\ pc' = "closed" /\ rest' = <<>> /\ made' = <<>>
  /\ UNCHANGED <<sourceVars, tgt, outcome, envVars>>

\* A row of a scoped source is damaged, its contract apart.
Damage(v) ==
  /\ pc = "closed" /\ kind = "scoped"
  /\ Fails
  /\ src' = [src EXCEPT ![v].ok = FALSE]
  /\ outcome' = "none"
  /\ UNCHANGED <<kind, marks, tags, features, nextId, tgt, pc, runVars, now,
                 edits>>

\* Only Live records look at the clock, and what it does while the profiles
\* are closed it may as well do just before.
Tick ==
  /\ pc \in {"open", "copy", "contracts"}
  /\ \E store \in {src, tgt} : \E v \in DOMAIN store :
        store[v].contract.layer = "live"
  /\ now < MaxNow /\ now' = now + 1
  /\ UNCHANGED <<sourceVars, tgt, pc, runVars, outcome, edits, failures>>

MigrationNext ==
  \/ /\ pc = "earlier"
     /\ \E eff \in {Null} \cup 1 .. MaxEff, S \in SUBSET DOMAIN src :
           EarlierPut(eff, S)
  \/ Install \/ OpenLegacy
  \/ AdoptContracts \/ EnableContracts \/ AdoptIntegrity \/ EnableIntegrity
  \/ VerifyRecords \/ \E v \in DOMAIN src : Damage(v)
  \/ /\ pc = "open" /\ nextId <= MaxSource
     /\ \E layer \in {"live", "short_term", "contextual_logic"},
           eff \in 1 .. MaxEff, S \in SUBSET DOMAIN src,
           related \in SUBSET DOMAIN src : SourceRemember(layer, eff, S, related)
  \/ \E v \in DOMAIN src : SourceForget(v)
  \/ pc = "open" /\ \E S \in SUBSET DOMAIN tgt : TargetRemember(S)
  \/ \E t \in DOMAIN tgt : TargetForget(t)
  \/ Migrate \/ CopyStep \/ Copied \/ ContractStep \/ Finish \/ RollBack
  \/ Close \/ Tick

MigrationSpec == MigrationInit /\ [][MigrationNext]_migrationVars

-----------------------------------------------------------------------------
(* verify_profile_migration *)

Token(record) == <<record.of, record.eff>>
Tokens(store) == {Token(store[v]) : v \in DOMAIN store}
Twin(i) == CHOOSE t \in DOMAIN tgt : Token(tgt[t]) = Token(src[i])

\* _verify_contract
ContractMatches(i) ==
  LET target == tgt[Twin(i)].contract
  IN IF kind = "legacy"
     THEN target = ContractOf("short_term", Null, {}, "transfer")
     ELSE target = [src[i].contract EXCEPT !.related = {Twin(j) : j \in @}]

\* A store that is opened read-only validates its schema and does not change
\* it: the temporal columns must be there.
ReadOnlyStore == \A i \in DOMAIN src : src[i].eff # Null

\* _snapshot_profile refuses a profile with quarantined records or, if it is
\* scoped, without contracts.
Snapshot ==
  /\ ReadOnlyStore
  /\ Readable = DOMAIN src
  /\ kind = "scoped" => WithContract = DOMAIN src

\* Mutant: the verifier looks at the records and not at their contracts.
AcceptsContents(extras) ==
  /\ Snapshot /\ DOMAIN src # {}
  /\ Cardinality(Tokens(tgt)) = Cardinality(DOMAIN tgt)
  /\ Tokens(src) \subseteq Tokens(tgt)

Accepts(extras) ==
  /\ Snapshot /\ DOMAIN src # {}
  /\ Cardinality(Tokens(tgt)) = Cardinality(DOMAIN tgt)
  /\ Tokens(src) \subseteq Tokens(tgt)
  /\ extras \/ Tokens(tgt) \subseteq Tokens(src)
  /\ \A i \in DOMAIN src :
       /\ tgt[Twin(i)].by = IF src[i].by = NoId THEN NoId ELSE Twin(src[i].by)
       /\ ContractMatches(i)

-----------------------------------------------------------------------------
(* Properties *)

\* A start-up that adopts the contracts and the integrity tags of an earlier
\* release may be cut off anywhere; no later start-up meets a combination of
\* markers, records and features that it refuses.
UpgradeResumes ==
  kind = "scoped" =>
    /\ pc = "closed" => ~ContractsRefused
    /\ pc = "integrity" => ~IntegrityRefused

\* A migrate_to that raised, without a failure in its rollback, leaves the
\* target empty, so that it can be tried again: also when it had given some of
\* the copies their contracts, or when a Live record expired under way.
RaisedLeavesNothing ==
  pc = "open" /\ outcome = "raised" => DOMAIN tgt = {}

\* What migrate_to returns from is accepted by verify_profile_migration, from
\* a legacy and from a scoped source, whatever was forgotten, superseded or
\* linked in it, as long as nothing was written since and no record of the
\* source is quarantined.
MigratedVerifies ==
  (/\ pc = "open" /\ outcome = "migrated"
   /\ DOMAIN src # {} /\ Readable = DOMAIN src) => Accepts(FALSE)

\* The current version of a record: the end of its chain.
Current(store, v) ==
  CHOOSE w \in DOMAIN store :
    /\ store[w].by = NoId
    /\ \E S \in SUBSET DOMAIN store :
         /\ {v, w} \subseteq S
         /\ \A x \in S : x = w \/ store[x].by \in S
         /\ \A x \in S : x = v \/ \E y \in S : store[y].by = x

\* A target that the verifier accepts, even next to other records, and even
\* after migrations that were cut off or rolled back in part, holds a copy of
\* every source record with the same current version and, from a scoped
\* source, the same layer, expiry and sources.
VerifiedIsFaithful ==
  pc = "open" /\ Accepts(TRUE) =>
    \A i \in DOMAIN src : \E t \in DOMAIN tgt :
      /\ tgt[t].of = i /\ tgt[t].eff = src[i].eff
      /\ tgt[Current(tgt, t)].of = Current(src, i)
      /\ kind = "scoped" =>
           /\ tgt[t].contract.layer = src[i].contract.layer
           /\ tgt[t].contract.expires = src[i].contract.expires
           /\ {tgt[r].of : r \in tgt[t].contract.related}
                = src[i].contract.related
=============================================================================
