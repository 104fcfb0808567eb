------------------------------ MODULE Rekeying ------------------------------
(***************************************************************************)
(* Key rotation (AgentMemory.rotate_key, retire_previous_key) and the      *)
(* activation of record envelope v3 (migrate_record_envelope_v3), over     *)
(* everything that is encrypted under a profile key: payload records and   *)
(* tombstones, the rows of the lifecycle store, the anchors that the open  *)
(* Oracle holds, the receipt signing key, the readiness evidence and the   *)
(* LSH index.  No transaction spans them.                                  *)
(*                                                                         *)
(* A ciphertext is the key and the envelope version that read it.  An      *)
(* operation is a sequence of steps, todo; each is one transaction or one  *)
(* file replaced.  An exception drops the steps left, a crash also what    *)
(* the process held.  Batches have a limit and the operator calls again.   *)
(***************************************************************************)
EXTENDS Keyring, Sequences, FiniteSetsExt

CONSTANTS
  MaxRecords,  \* how many records are ever created
  BatchSize    \* batch_size of rotate_key and migrate_record_envelope_v3

ASSUME RekeyingAssumption == MaxRecords \in Nat /\ BatchSize \in Nat \ {0}

Records == 1 .. MaxRecords
Absent == [key |-> NoKey, ver |-> 0]
Ciphertexts == [key : Keys, ver : {2, 3}] \cup {Absent}

VARIABLES
  row,       \* payloads, with vectors, terms and contract
  pending,   \* records whose operation_state is 'pending'
  tomb,      \* deletion_tombstones
  quarantine,
  corrupt,   \* records whose authentication fails
  life,      \* the lifecycle row: active workspace or archive
  archived,  \* records whose lifecycle row is in the archive
  anchor,    \* Vine.protected_anchor in the open Oracle
  envelope,  \* record_envelope_state.migration_state
  signing,   \* the key that wraps the receipt signing key, NoKey: unwrapped
  evidence,  \* the key that wraps the readiness evidence, NoKey: no file
  lsh,       \* what the LSH index key is derived from
  up,        \* the process is open
  op, todo,  \* the operation under way and its steps left
  left,      \* what the batch limit leaves
  victim,    \* the key being retired
  debt       \* what rotate_key could convert when it was called

ledgerVars == <<row, pending, tomb, quarantine, corrupt>>
lifeVars == <<life, archived, anchor>>
wrapVars == <<signing, evidence, lsh>>
procVars == <<up, op, todo, left, victim, debt>>
vars == <<keyringVars, ledgerVars, lifeVars, envelope, wrapVars, procVars>>

Present(f) == {r \in Records : f[r] # Absent}
Committed == Present(row) \ pending

\* _validate_existing_schema: the tables are exactly those of the v2 schema, or
\* those with the envelope state, the marker of an activation.
V3Schema == envelope # "inactive"

\* _EncryptedPayloadStore.record_envelope_write_version; it raises, and
\* nothing is written, while the manifest is ahead of the database.
WriteVersion == IF envelope \in {"migrating", "verified"} THEN 3 ELSE 2
CanWrite == ring.v3 => WriteVersion = 3

\* Mutant: the shield does not know of the activation.
ShieldStaysV2 == 2

\* ScopedAesGcmShield takes the version from the keyring.
ShieldVersion == IF ring.v3 THEN 3 ELSE 2

\* lsh_index_key
LshKey(m) == [key |-> m.active, ver |-> IF m.v3 THEN 3 ELSE 2]

\* key_usage and count_protected_payloads_for_key
Uses(f, k) == {r \in Records : f[r].key = k}
OldVersion(f) == {r \in Records : f[r].ver = 2}

\* Mutant: a record that is not committed does not count.
CommittedUses(k) ==
  Cardinality(Uses(row, k) \ pending) + Cardinality(Uses(tomb, k))

KeyUsage(k) == Cardinality(Uses(row, k)) + Cardinality(Uses(tomb, k))
Remaining(k) == KeyUsage(k) + Cardinality(Uses(life, k))

\* The part of it that a call of rotate_key can convert.
Convertible(k) == Cardinality(Uses(row, k) \ (pending \cup quarantine))
                    + Cardinality(Uses(tomb, k)) + Cardinality(Uses(life, k))

Idle == up /\ todo = <<>>

Init ==
  /\ KeyringInit(FirstManifest) /\ faults = 0
  /\ row = [r \in Records |-> Absent] /\ tomb = row /\ life = row /\ anchor = row
  /\ pending = {} /\ quarantine = {} /\ corrupt = {} /\ archived = {}
  /\ envelope = "inactive"
  /\ signing = NoKey /\ evidence = NoKey /\ lsh = LshKey(FirstManifest)
  /\ up = FALSE /\ op = "none" /\ todo = <<>> /\ left = 0
  /\ victim = NoKey /\ debt = 0

-----------------------------------------------------------------------------
(* Use of the profile between maintenance calls *)

\* remember; it may fail and leave the record pending when its rollback
\* fails too.
Remember(r) ==
  /\ Idle /\ CanWrite
  /\ row[r] = Absent /\ tomb[r] = Absent
  /\ \A s \in Records : s < r => row[s] # Absent \/ tomb[s] # Absent
  /\ row' = [row EXCEPT ![r] = [key |-> ring.active, ver |-> WriteVersion]]
  /\ anchor' = [anchor EXCEPT ![r] = [key |-> ring.active, ver |-> ShieldVersion]]
  /\ life' = [life EXCEPT ![r] = anchor'[r]]
  /\ \/ UNCHANGED <<pending, faults>>
     \/ Fault /\ pending' = pending \cup {r}
  /\ UNCHANGED <<disk, ring, keyFiles, bound, drawn, torn, tomb, quarantine,
                 corrupt, archived, envelope, wrapVars, procVars>>

\* _EncryptedPayloadStore.delete authenticates the record and the tombstones
\* before it erases, so a corrupt record stays.
Forget(r) ==
  /\ Idle /\ CanWrite
  /\ r \in Committed \ corrupt
  /\ row' = [row EXCEPT ![r] = Absent]
  /\ tomb' = [tomb EXCEPT ![r] = [key |-> ring.active, ver |-> WriteVersion]]
  /\ quarantine' = quarantine \ {r}
  /\ life' = [life EXCEPT ![r] = Absent]
  /\ anchor' = [anchor EXCEPT ![r] = Absent]
  /\ archived' = archived \ {r}
  /\ UNCHANGED <<keyringVars, pending, corrupt, envelope, wrapVars, procVars>>

\* An eviction moves the anchor as it is to the archive.
Archive(r) ==
  /\ Idle
  /\ anchor[r] # Absent
  /\ life' = [life EXCEPT ![r] = anchor[r]]
  /\ anchor' = [anchor EXCEPT ![r] = Absent]
  /\ archived' = archived \cup {r}
  /\ UNCHANGED <<keyringVars, ledgerVars, envelope, wrapVars, procVars>>

\* save_workspace: every row of the active workspace is written from memory.
Saved(a) == [r \in Records |-> IF a[r] # Absent THEN a[r] ELSE life[r]]

Save ==
  /\ Idle
  /\ life' = Saved(anchor)
  /\ UNCHANGED <<keyringVars, ledgerVars, archived, anchor, envelope, wrapVars,
                 procVars>>

\* Readiness evidence is recorded under the active key.
RecordEvidence ==
  /\ Idle /\ ring.v3
  /\ evidence' = ring.active
  /\ UNCHANGED <<keyringVars, ledgerVars, lifeVars, envelope, signing, lsh,
                 procVars>>

\* The stored bytes of a record are damaged.
Corrupt(r) ==
  /\ r \in Committed \ corrupt
  /\ Fault
  /\ corrupt' = corrupt \cup {r}
  /\ UNCHANGED <<disk, ring, keyFiles, bound, drawn, torn, row, pending, tomb,
                 quarantine, lifeVars, envelope, wrapVars, procVars>>

-----------------------------------------------------------------------------
(* Steps of the maintenance operations *)

\* Mutant: the manifest before the marker in the database.
EnableBeforePrepare == <<"enable", "prepare", "signing", "lsh", "gate",
                         "anchors", "rows", "records", "tombs", "verify">>

RotateSteps == <<"draw", "activate", "readiness", "signing", "lsh", "anchors",
                 "rows", "records", "tombs", "verify">>
EnvelopeSteps == <<"prepare", "enable", "signing", "lsh", "gate", "anchors",
                   "rows", "records", "tombs", "verify">>

\* rotate_key; begin_rotation is passed over when a rotation is under way.
RotateKey ==
  /\ Idle
  /\ ring.rotation # "verified"
  /\ ring.rotation = "none" => drawn < MaxKeys
  /\ op' = "rotate" /\ left' = BatchSize
  /\ debt' = Convertible(IF ring.rotation = "none" THEN ring.active
                         ELSE Source(ring))
  /\ todo' = IF ring.rotation = "migrating" THEN Tail(Tail(RotateSteps))
             ELSE RotateSteps
  /\ UNCHANGED <<keyringVars, ledgerVars, lifeVars, envelope, wrapVars, up,
                 victim>>

\* migrate_record_envelope_v3
MigrateEnvelope ==
  /\ Idle
  /\ ring.rotation = "none"
  /\ op' = "envelope" /\ left' = BatchSize /\ todo' = EnvelopeSteps
  /\ UNCHANGED <<keyringVars, ledgerVars, lifeVars, envelope, wrapVars, up,
                 victim, debt>>

\* retire_previous_key
RetirePreviousKey ==
  /\ Idle
  /\ ring.rotation = "verified"
  /\ Remaining(Source(ring)) = 0
  /\ RetireInManifest
  /\ op' = "retire" /\ todo' = <<"unlink">> /\ victim' = Source(ring)
  /\ UNCHANGED <<ledgerVars, lifeVars, envelope, wrapVars, up, left, debt>>

At(step) == up /\ todo # <<>> /\ Head(todo) = step

\* The step is done.
Proceed == todo' = Tail(todo) /\ UNCHANGED <<up, op, left, victim, debt>>

\* The step raises: the call ends there.
Abandon == todo' = <<>> /\ UNCHANGED <<up, op, left, victim, debt>>

Draw ==
  /\ At("draw")
  /\ DrawKey
  /\ Proceed
  /\ UNCHANGED <<disk, ring, torn, faults, ledgerVars, lifeVars, envelope,
                 wrapVars>>

Activate ==
  /\ At("activate")
  /\ \/ ActivateKey /\ Proceed
     \/ ActivateKeyFails /\ Abandon
  /\ UNCHANGED <<ledgerVars, lifeVars, envelope, wrapVars>>

\* invalidate_recovery rewrites the evidence file, if there is one.
InvalidateRecovery ==
  /\ At("readiness")
  /\ evidence' = IF ring.v3 /\ evidence # NoKey THEN ring.active ELSE evidence
  /\ Proceed
  /\ UNCHANGED <<keyringVars, ledgerVars, lifeVars, envelope, signing, lsh>>

\* _protect_signing_key: wrapped under the active key, which needs v3.
Wrapped(m) == IF m.v3 THEN m.active ELSE signing

\* _reveal_signing_key
Revealed(m) == signing = NoKey \/ signing \in m.held

\* PreflightReceiptAuthority.__init__ with create: a new key, or one that is
\* not wrapped yet, is wrapped if it can be.
SigningKeyOpened(m) == IF signing = NoKey THEN Wrapped(m) ELSE signing

\* protect_preflight_signing_key
ProtectSigningKey ==
  /\ At("signing")
  /\ signing' = Wrapped(ring)
  /\ Proceed
  /\ UNCHANGED <<keyringVars, ledgerVars, lifeVars, envelope, evidence, lsh>>

\* rotate_lsh_index
RotateLshIndex ==
  /\ At("lsh")
  /\ lsh' = LshKey(ring)
  /\ Proceed
  /\ UNCHANGED <<keyringVars, ledgerVars, lifeVars, envelope, signing, evidence>>

\* What the operation has left to convert in f.
Old(f) == IF op = "rotate" THEN Uses(f, Source(ring)) ELSE OldVersion(f)

\* reencrypt: a rotation keeps the version, an activation the key.
Reencrypted(c) == IF op = "rotate" THEN [c EXCEPT !.key = ring.active]
                  ELSE [c EXCEPT !.ver = 3]

Convert(f, S) == [r \in Records |-> IF r \in S THEN Reencrypted(f[r]) ELSE f[r]]

\* The first n members of S, in the order of creation.
First(S, n) == {r \in S : Cardinality({s \in S : s < r}) < n}

\* rewrap_active_protected_anchors: all of them in a rotation, up to the
\* limit in an activation; the workspace is saved when something changed.
Rewrapped == IF op = "rotate" THEN Old(anchor) ELSE First(Old(anchor), left)

\* Mutant: the lifecycle rows are converted without what the Oracle holds.
RewrapNothing ==
  /\ At("anchors")
  /\ Proceed
  /\ UNCHANGED <<keyringVars, ledgerVars, lifeVars, envelope, wrapVars>>

RewrapAnchors ==
  /\ At("anchors")
  /\ anchor' = Convert(anchor, Rewrapped)
  /\ \/ /\ life' = IF Rewrapped = {} THEN life ELSE Saved(anchor')
        /\ todo' = Tail(todo)
        /\ left' = IF op = "rotate" THEN BatchSize
                   ELSE left - Cardinality(Rewrapped)
        /\ UNCHANGED <<faults, up, op, victim, debt>>
     \/ Rewrapped # {} /\ Fault /\ Abandon /\ UNCHANGED life
  /\ UNCHANGED <<disk, ring, keyFiles, bound, drawn, torn, ledgerVars, archived,
                 envelope, wrapVars>>

\* A loop over a batch ends when nothing is left to convert or the limit is
\* reached; each turn takes one transaction.
Turn == left' = left - 1 /\ UNCHANGED <<up, op, todo, victim, debt>>
EndLoop(S) == (S = {} \/ left = 0) /\ todo' = Tail(todo)

\* rotate_protected_payloads
RotateRow ==
  /\ At("rows") /\ left > 0
  /\ \E r \in Old(life) : life' = Convert(life, {r})
  /\ Turn
  /\ UNCHANGED <<keyringVars, ledgerVars, archived, anchor, envelope, wrapVars>>

RowsDone ==
  /\ At("rows")
  /\ EndLoop(Old(life))
  /\ left' = IF op = "rotate" THEN BatchSize ELSE left
  /\ UNCHANGED <<keyringVars, ledgerVars, lifeVars, envelope, wrapVars, up, op,
                 victim, debt>>

\* Mutant: a quarantined record takes its place in the batch.
EligibleEvenQuarantined == Old(row) \cap Committed

\* rotate_batch and migrate_record_envelope_batch: committed records that are
\* not quarantined, oldest first.
Eligible == (Old(row) \cap Committed) \ quarantine

\* The transaction at the end of _reencrypt_record: payload, vectors, terms and
\* contract together.
Rewrite(r) == row' = Convert(row, {r})

\* _reencrypt_record; a record that does not authenticate is quarantined, and
\* so is one whose key is unavailable for a moment.
ReencryptRecord ==
  /\ At("records") /\ left > 0 /\ Eligible # {}
  /\ LET r == Min(Eligible)
     IN \/ /\ r \notin corrupt
           /\ Rewrite(r)
           /\ UNCHANGED <<quarantine, faults>>
        \/ /\ r \in corrupt
           /\ quarantine' = quarantine \cup {r}
           /\ UNCHANGED <<row, faults>>
        \/ /\ Fault
           /\ quarantine' = quarantine \cup {r}
           /\ UNCHANGED row
  /\ Turn
  /\ UNCHANGED <<disk, ring, keyFiles, bound, drawn, torn, pending, tomb, corrupt,
                 lifeVars, envelope, wrapVars>>

RecordsDone ==
  /\ At("records")
  /\ EndLoop(Eligible)
  /\ UNCHANGED <<keyringVars, ledgerVars, lifeVars, envelope, wrapVars, up, op,
                 left, victim, debt>>

\* _rotate_tombstones and _migrate_tombstones_to_v3, with the limit that the
\* records left.
RotateTombstone ==
  /\ At("tombs") /\ left > 0
  /\ \E r \in Old(tomb) : tomb' = Convert(tomb, {r})
  /\ Turn
  /\ UNCHANGED <<keyringVars, row, pending, quarantine, corrupt, lifeVars,
                 envelope, wrapVars>>

TombstonesDone ==
  /\ At("tombs")
  /\ EndLoop(Old(tomb))
  /\ UNCHANGED <<keyringVars, ledgerVars, lifeVars, envelope, wrapVars, up, op,
                 left, victim, debt>>

\* The call ends by marking a rotation verified, if nothing refers to the
\* source key and nothing is quarantined.
VerifyRotation ==
  /\ At("verify") /\ op = "rotate"
  /\ IF Remaining(Source(ring)) = 0 /\ quarantine = {}
     THEN \/ Publish(Verified(ring)) /\ UNCHANGED faults
          \/ PublishFails(Verified(ring)) /\ MayMend
     ELSE UNCHANGED <<disk, ring, torn, faults>>
  /\ Proceed
  /\ UNCHANGED <<keyFiles, bound, drawn, ledgerVars, lifeVars, envelope,
                 wrapVars>>

\* mark_record_envelope_v3_verified
VerifyEnvelope ==
  /\ At("verify") /\ op = "envelope"
  /\ envelope' = IF /\ OldVersion(row) \cup OldVersion(tomb) \cup OldVersion(life) = {}
                    /\ quarantine = {}
                 THEN "verified" ELSE envelope
  /\ Proceed
  /\ UNCHANGED <<keyringVars, ledgerVars, lifeVars, wrapVars>>

\* prepare_record_envelope_v3
Prepare ==
  /\ At("prepare")
  /\ envelope' = IF envelope = "inactive" THEN "prepared" ELSE envelope
  /\ Proceed
  /\ UNCHANGED <<keyringVars, ledgerVars, lifeVars, wrapVars>>

\* enable_record_envelope_v3
EnableV3 ==
  /\ At("enable") /\ CanEnableV3(ring)
  /\ \/ /\ ring.v3 /\ Proceed
        /\ UNCHANGED <<disk, ring, torn, faults>>
     \/ /\ ~ring.v3 /\ Publish(WithV3(ring)) /\ Proceed
        /\ UNCHANGED faults
     \/ /\ ~ring.v3 /\ PublishFails(WithV3(ring)) /\ Abandon
        /\ MayMend
  /\ UNCHANGED <<keyFiles, bound, drawn, ledgerVars, lifeVars, envelope,
                 wrapVars>>

\* enable_record_envelope_v3_writes
OpenGate(e) == IF e = "prepared" THEN "migrating" ELSE e

EnableWrites ==
  /\ At("gate")
  /\ envelope' = OpenGate(envelope)
  /\ Proceed
  /\ UNCHANGED <<keyringVars, ledgerVars, lifeVars, wrapVars>>

Unlink ==
  /\ At("unlink")
  /\ RemoveKey(victim, FALSE)
  /\ Proceed
  /\ UNCHANGED <<ledgerVars, lifeVars, envelope, wrapVars>>

\* A step other than the ones above raises.
StepFails ==
  /\ up /\ todo # <<>>
  /\ Head(todo) \in {"readiness", "signing", "lsh", "rows", "tombs", "prepare",
                     "gate", "unlink"}
  /\ Fault
  /\ Abandon
  /\ UNCHANGED <<disk, ring, keyFiles, bound, drawn, torn, ledgerVars, lifeVars,
                 envelope, wrapVars>>

-----------------------------------------------------------------------------
(* Crash and start-up *)

Crash ==
  /\ up
  /\ up' = FALSE /\ op' = "none" /\ todo' = <<>> /\ left' = 0
  /\ victim' = NoKey /\ debt' = 0
  /\ ring' = disk
  /\ anchor' = [r \in Records |-> Absent]
  /\ UNCHANGED <<disk, keyFiles, bound, drawn, torn, faults, ledgerVars, life,
                 archived, envelope, wrapVars>>

\* What start-up refuses: a key without its file, a record under a key that
\* the manifest does not have, v3 records without the v3 key schedule or the
\* reverse, a signing key or evidence under an unknown key.
Acceptable ==
  /\ Loads(disk)
  /\ \A f \in {row, tomb, life} : \A r \in Present(f) :
        f[r].key \in disk.held /\ (f[r].ver = 3 => disk.v3)
  /\ WriteVersion = 3 => disk.v3
  /\ disk.v3 => V3Schema
  /\ envelope = "verified" => OldVersion(row) \cup OldVersion(tomb) = {}
  /\ Revealed(disk)
  /\ evidence \in disk.held \cup {NoKey}

\* __init__ finishes an activation whose marker is in the database.
MustFinish == V3Schema /\ ~disk.v3

FinishActivation ==
  /\ ~up /\ Acceptable /\ MustFinish
  /\ CanEnableV3(disk)
  /\ Publish(WithV3(disk))
  /\ UNCHANGED <<keyFiles, bound, drawn, faults, ledgerVars, lifeVars, envelope,
                 wrapVars, procVars>>

Open ==
  /\ ~up /\ Acceptable /\ ~MustFinish
  /\ up' = TRUE
  /\ envelope' = OpenGate(envelope)
  /\ quarantine' = quarantine \cup corrupt
  /\ lsh' = LshKey(disk)
  /\ anchor' = [r \in Records |-> IF r \in archived THEN Absent ELSE life[r]]
  /\ pending' = {}
  /\ signing' = SigningKeyOpened(disk)
  /\ UNCHANGED <<keyringVars, row, tomb, corrupt, life, archived, evidence, op,
                 todo, left, victim, debt>>

Next ==
  \/ \E r \in Records : Remember(r) \/ Forget(r) \/ Archive(r) \/ Corrupt(r)
  \/ Save \/ RecordEvidence
  \/ RotateKey \/ MigrateEnvelope \/ RetirePreviousKey
  \/ Draw \/ Activate \/ InvalidateRecovery \/ ProtectSigningKey
  \/ RotateLshIndex \/ RewrapAnchors \/ RotateRow \/ RowsDone
  \/ ReencryptRecord \/ RecordsDone \/ RotateTombstone \/ TombstonesDone
  \/ VerifyRotation \/ VerifyEnvelope
  \/ Prepare \/ EnableV3 \/ EnableWrites \/ Unlink \/ StepFails
  \/ Crash \/ FinishActivation \/ Open

Spec == Init /\ [][Next]_vars

-----------------------------------------------------------------------------
(* Properties *)

\* Types: in particular a rotation has exactly one key to leave behind.
TypeOK ==
  /\ KeyringTypeOK
  /\ \A f \in {row, tomb, life, anchor} : f \in [Records -> Ciphertexts]
  /\ \A S \in {pending, quarantine, corrupt, archived} : S \subseteq Records
  /\ envelope \in {"inactive", "prepared", "migrating", "verified"}
  /\ signing \in Keys \cup {NoKey} /\ evidence \in Keys \cup {NoKey}
  /\ lsh \in Ciphertexts
  /\ up \in BOOLEAN /\ op \in {"none", "rotate", "envelope", "retire"}
  /\ left \in 0 .. BatchSize /\ victim \in Keys \cup {NoKey} /\ debt \in Nat

\* Whatever crashed or failed in a rotation, a retirement or an activation,
\* every ciphertext of the profile is read by a key that the manifest on disk
\* has and whose file is there, and a v3 one only once the manifest says v3.
EverythingReadable ==
  LET readable(c) == /\ c.key \in disk.held \cap keyFiles
                     /\ c.ver = 3 => disk.v3
  IN /\ \A f \in {row, tomb, life, anchor} : \A r \in Present(f) : readable(f[r])
     /\ {signing, evidence} \ {NoKey} \subseteq disk.held \cap keyFiles

\* A rotation marked verified is done: no record, tombstone, lifecycle row,
\* anchor in memory, wrapped key or index needs the old key any more, and
\* nothing brings it back before the key is retired.
VerifiedMeansDone ==
  disk.rotation = "verified" =>
    LET old == Source(disk)
    IN /\ \A f \in {row, tomb, life, anchor} : Uses(f, old) = {}
       /\ old \notin {signing, evidence, lsh.key}

\* Once the activation is verified, nothing of the profile is in the v2
\* envelope, and no later save, eviction, rotation or failure writes v2 again.
VerifiedEnvelopeIsPure ==
  envelope = "verified" =>
    \A f \in {row, tomb, life, anchor} : OldVersion(f) = {}

\* A closed profile opens again, except in the two states that the code can
\* leave itself in: a manifest that failed after its rename (torn), and a
\* rotation begun in the process in which the activation had failed between
\* the database marker and the manifest.
Reopens ==
  ~up => \/ Acceptable /\ (MustFinish => CanEnableV3(disk))
         \/ torn
         \/ envelope = "prepared" /\ ~disk.v3 /\ disk.rotation # "none"

\* rotate_key is resumed by calling it again: a call that runs to its end
\* leaves less to convert than it found, however small the batch and whatever
\* is pending or quarantined, so repeated calls come to an end.
EachCallAdvances ==
  [][At("verify") /\ op = "rotate" /\ todo' = <<>> =>
       debt = 0 \/ Convertible(Source(ring)) < debt]_vars
=============================================================================
