------------------------------ MODULE Recovery ------------------------------
(***************************************************************************)
(* The recovery side of a profile that is on record envelope v3: native    *)
(* key custody (ProfileKeyring.prepare_custody_migration,                  *)
(* activate_custody_migration, retire_file_custody), backups and their     *)
(* generations (BackupArchive), restore drills, and the readiness evidence *)
(* (ReadinessEvidenceStore) that ties them to the installed artifact and   *)
(* to a qualified host.                                                    *)
(*                                                                         *)
(* The custody helper and the device are external: an item has a           *)
(* generation that only moves forward.  An archive is its manifest.  What  *)
(* a rotation converts is the subject of module Rekeying; here it may or   *)
(* may not be finished when the call ends.  As there, an operation is a    *)
(* sequence of steps; each is one file replaced or removed, one call of    *)
(* the helper or one transaction.  A step that raises after it took effect *)
(* leaves what the failure of the next step leaves.                        *)
(***************************************************************************)
EXTENDS Keyring, Sequences

CONSTANTS
  MaxProcs,      \* how many processes ever open the profile
  MaxArchives,   \* how many backups are ever taken
  MaxArtifacts,  \* how many versions of the package are ever installed
  MaxHosts       \* how many host qualifications are ever recorded

ASSUME RecoveryAssumption ==
  /\ {MaxProcs, MaxArtifacts} \subseteq Nat \ {0}
  /\ {MaxArchives, MaxHosts} \subseteq Nat

VARIABLES
  candidates,  \* prepared or verified descriptors of a key
  receipt,     \* the process in the custody activation receipt, 0: none
  switchedBy,  \* the process that put the active key in custody, 0: none
  generation,  \* the device's generation of a key's item
  counter,     \* backup_generation in the metadata
  archives,    \* the published archives
  evidence,    \* local-readiness.json
  artifact,    \* the installed package
  hosts,       \* host qualifications recorded so far
  drilled,     \* archives that were restored, opened and reconciled
  up, proc,    \* an AgentMemory is open, in this process
  todo, arg    \* the steps left of the operation under way, and its archive
               \* or key

custodyVars == <<candidates, receipt, switchedBy>>
backupVars == <<generation, counter, archives, drilled>>
readinessVars == <<evidence, hosts>>
procVars == <<up, proc, todo, arg>>
vars == <<keyringVars, custodyVars, backupVars, readinessVars, artifact,
          procVars>>

NoHost == [id |-> 0, key |-> NoKey]
ArtifactOnly == [key |-> 1, artifact |-> artifact, host |-> NoHost,
                 backup |-> 0, restore |-> 0]

\* activate_custody_migration: the manifest that refers to the descriptor.
WithCustody(m) == [m EXCEPT !.opaque = @ \cup {m.active}]

\* A profile that is verified on v3, in file custody or already in native
\* custody, whose installed artifact was qualified.  Failing steps are for the
\* first, without upgrades (bounds).
Init ==
  /\ LET m == WithV3(FirstManifest)
     IN  \/ KeyringInit(m) /\ faults \in 0 .. MaxFaults
         \/ KeyringInit(WithCustody(m)) /\ faults = MaxFaults
  /\ candidates = [k \in Keys |-> 0] /\ receipt = 0 /\ switchedBy = 0
  /\ generation = [k \in Keys |-> 0] /\ counter = 0
  /\ archives = <<>> /\ drilled = {}
  /\ artifact = IF faults < MaxFaults THEN MaxArtifacts ELSE 1
  /\ evidence = ArtifactOnly /\ hosts = 0
  /\ up = TRUE /\ proc = 1 /\ todo = <<>> /\ arg = 0

Idle == up /\ todo = <<>>
InCustody == ring.active \in ring.opaque

Begin(steps, a) ==
  /\ Idle
  /\ todo' = steps /\ arg' = a
  /\ UNCHANGED <<up, proc>>

At(step) == up /\ todo # <<>> /\ Head(todo) = step
Proceed ==
  /\ todo' = Tail(todo)
  /\ arg' = IF todo' = <<>> THEN 0 ELSE arg
  /\ UNCHANGED <<up, proc>>
Abandon == todo' = <<>> /\ arg' = 0 /\ UNCHANGED <<up, proc>>

\* load_record: the evidence is under a key of the manifest.
CanLoad(m) == evidence.key \in m.held

\* artifact_record_is_current: the installed files are hashed again.
ArtifactCurrent == evidence.artifact = artifact

\* host_boundary_record_is_current: a qualification is bound to the artifact
\* and to the profile root.  One that expired, or whose artifact was replaced,
\* never counts again and is modelled as no record.
HostCurrent(h, m) == h # NoHost /\ h.key = m.active

\* authority_digests: what is current of the two, 0 when nothing is.
ArtifactId == IF ArtifactCurrent THEN evidence.artifact ELSE 0
HostId(m) ==
  IF ArtifactCurrent /\ HostCurrent(evidence.host, m) THEN evidence.host.id ELSE 0

-----------------------------------------------------------------------------
(* Native custody *)

\* _load_manifest, and the checks of create: the manifests that are well
\* formed.  A host authority needs an artifact.
WellFormed(m) == m.generation > 0 /\ (m.host # 0 => m.artifact # 0)

\* verify: the manifest authenticates under the key of the open profile.
Authentic(a) == WellFormed(archives[a]) /\ archives[a].key = ring.active

\* verify, with the minimum generation of the open profile.  The members are
\* not modelled: they are the ones that create wrote.
Accepts(a) ==
  /\ Authentic(a)
  /\ InCustody => archives[a].generation >= generation[ring.active]

\* prepare_custody_migration takes back the item and the descriptor when it
\* raises.
PrepareCustody == candidates' = [candidates EXCEPT ![ring.active] = @ + 1]

\* What is left after the preparation.
CustodySteps == <<"describe", "receipt", "switch">>

\* migrate_key_custody with the receipt of a backup just verified; it changes
\* nothing when the key is in custody already.  The records are not modelled:
\* their number agrees with the archive's, or the call raises at once.
MigrateCustody(a) ==
  /\ Idle /\ Accepts(a)
  /\ ring.rotation = "none" /\ ~InCustody
  /\ candidates[ring.active] < 2                         \* bound
  /\ PrepareCustody
  /\ Begin(CustodySteps, 0)
  /\ UNCHANGED <<keyringVars, receipt, switchedBy, backupVars, readinessVars,
                 artifact>>

\* activate_custody_migration needs exactly one candidate.
DescribeCustody ==
  /\ At("describe")
  /\ IF candidates[ring.active] = 1
     THEN bound' = [bound EXCEPT ![ring.active] = "verified"] /\ Proceed
     ELSE Abandon /\ UNCHANGED bound
  /\ UNCHANGED <<disk, ring, keyFiles, drawn, torn, faults, custodyVars, backupVars,
                 readinessVars, artifact>>

WriteReceipt ==
  /\ At("receipt")
  /\ receipt' = proc
  /\ Proceed
  /\ UNCHANGED <<keyringVars, candidates,
                 switchedBy, backupVars, readinessVars, artifact>>

SwitchCustody ==
  /\ At("switch")
  /\ \/ Publish(WithCustody(ring)) /\ Proceed /\ UNCHANGED faults
     \/ PublishFails(WithCustody(ring)) /\ Abandon /\ MayMend
  /\ switchedBy' = IF disk' = disk THEN switchedBy ELSE proc
  /\ UNCHANGED <<keyFiles, bound, drawn, candidates, receipt, backupVars,
                 readinessVars, artifact>>

\* Mutant: the process that activated custody may remove the file.
SameProcessMayRetire == bound[ring.active] \in {"verified", "active"}

\* retire_file_custody: a custody that is only verified must have been
\* activated by another process.
MayRetireFile ==
  /\ bound[ring.active] \in {"verified", "active"}
  /\ bound[ring.active] = "verified" => receipt \notin {0, proc}

\* Mutant: the receipt is removed before the descriptor is active.
ReceiptFirst == <<"unreceipt", "promote", "unraw", "invalidate">>

RetireFileSteps == <<"promote", "unraw", "unreceipt", "invalidate">>

RetireFileCustody ==
  /\ InCustody /\ MayRetireFile
  /\ Begin(RetireFileSteps, 0)
  /\ UNCHANGED <<keyringVars, custodyVars, backupVars, readinessVars,
                 artifact>>

PromoteCustody ==
  /\ At("promote")
  /\ bound' = [bound EXCEPT ![ring.active] = "active"]
  /\ candidates' = [candidates EXCEPT ![ring.active] =
                      IF bound[ring.active] = "verified" THEN @ - 1 ELSE @]
  /\ Proceed
  /\ UNCHANGED <<disk, ring, keyFiles, drawn, torn, faults, receipt, switchedBy,
                 backupVars, readinessVars, artifact>>

UnlinkRaw ==
  /\ At("unraw")
  /\ keyFiles' = keyFiles \ {ring.active}
  /\ Proceed
  /\ UNCHANGED <<disk, ring, bound, drawn, torn, faults, custodyVars, backupVars,
                 readinessVars, artifact>>

UnlinkReceipt ==
  /\ At("unreceipt")
  /\ receipt' = 0
  /\ Proceed
  /\ UNCHANGED <<keyringVars, candidates,
                 switchedBy, backupVars, readinessVars, artifact>>

-----------------------------------------------------------------------------
(* Backups and drills *)

\* Mutant: the generation that the device already has, once it has one.
SameGeneration ==
  IF generation[ring.active] = 0 THEN 1 ELSE generation[ring.active]

NextGeneration == generation[ring.active] + 1

CountBackup == counter' = counter + 1

\* backup_create; without rollback detection the generation is a counter in
\* the metadata, with it the next one of the device.
BackupCreate(tier) ==
  /\ ring.rotation = "none"
  /\ Len(archives) < MaxArchives
  /\ \/ /\ tier = "none"
        /\ CountBackup
        /\ Begin(<<"publish", "record">>, Len(archives) + 1)
     \/ /\ tier = "local-best-effort" /\ InCustody
        /\ Begin(<<"publishNext", "advance", "record">>, Len(archives) + 1)
        /\ UNCHANGED counter
  /\ UNCHANGED <<keyringVars, custodyVars, generation, archives, drilled,
                 readinessVars, artifact>>

\* What create puts in an archive: its manifest, and of the members the
\* keyring manifest and the raw key files that are on disk.
Archive(gen) ==
  [key |-> ring.active, generation |-> gen, artifact |-> ArtifactId,
   host |-> HostId(ring), keyring |-> disk, raw |-> keyFiles \cap disk.held,
   state |-> "published"]

\* BackupArchive.create writes a staging directory and renames it.
PublishArchive(gen) ==
  /\ IF CanLoad(ring) /\ WellFormed(Archive(gen))
     THEN archives' = Append(archives, Archive(gen)) /\ Proceed
     ELSE Abandon /\ UNCHANGED archives
  /\ UNCHANGED <<keyringVars, custodyVars,
                 generation, counter, drilled, readinessVars, artifact>>

Publication ==
  \/ At("publish") /\ PublishArchive(counter)
  \/ At("publishNext") /\ PublishArchive(NextGeneration)

\* advance_monotonic_generation; it needs custody that is active.
AdvanceGeneration ==
  /\ At("advance")
  /\ IF bound[ring.active] = "active"
     THEN /\ generation' = [generation EXCEPT ![ring.active] =
                              archives[arg].generation]
          /\ archives' = [archives EXCEPT ![arg].state = "advanced"]
          /\ Proceed
     ELSE Abandon /\ UNCHANGED <<generation, archives>>
  /\ UNCHANGED <<keyringVars, custodyVars,
                 counter, drilled, readinessVars, artifact>>

\* _validate_current_receipt
Current(a) ==
  /\ CanLoad(ring)
  /\ archives[a].key = ring.active
  /\ archives[a].artifact = ArtifactId /\ archives[a].host = HostId(ring)

\* _write_record, under the active key.
WriteRecord(r) == evidence' = [r EXCEPT !.key = ring.active]

\* Mutant: a backup that was verified counts as restored.
VerifiedCountsAsRestored(a) == [evidence EXCEPT !.backup = a, !.restore = a]

\* record_backup: another backup invalidates an earlier drill.
WithBackup(a) ==
  [evidence EXCEPT !.backup = a, !.restore = IF @ = a THEN @ ELSE 0]

RecordBackup ==
  /\ At("record")
  /\ IF Current(arg)
     THEN /\ WriteRecord(WithBackup(arg))
          /\ archives' = [archives EXCEPT ![arg].state =
                            IF @ = "advanced" THEN "recorded" ELSE @]
          /\ Proceed
     ELSE Abandon /\ UNCHANGED <<evidence, archives>>
  /\ UNCHANGED <<keyringVars, custodyVars, generation, counter, drilled, hosts,
                 artifact>>

\* backup_verify; an archive that is refused, or that was not taken under the
\* current authorities, changes nothing.
BackupVerify(a) ==
  /\ Idle /\ Accepts(a) /\ Current(a)
  /\ WriteRecord(WithBackup(a))
  /\ UNCHANGED <<keyringVars, custodyVars, backupVars, hosts, artifact,
                 procVars>>

\* verify_profile_binding: the root of the archive is the profile's own.
BoundTo(a, m) == m.active = archives[a].key

\* BackupArchive.restore opens the staged keyring before it publishes: its
\* active key is the archive's, and every root comes from a raw file of the
\* archive or from an item that the device still has.
Opens(a) ==
  LET m == archives[a].keyring
  IN  /\ BoundTo(a, m)
      /\ \A k \in m.held : IF k \in m.opaque THEN bound[k] # "none"
                           ELSE k \in archives[a].raw

\* AgentMemory.restore, into a new profile; the open one is left alone.
Restores(a) == Accepts(a) /\ Opens(a)

\* record_restore takes a drill only for the backup that the evidence names.
WithRestore(a) ==
  IF Current(a) /\ evidence.backup = a
  THEN WriteRecord([evidence EXCEPT !.restore = a])
  ELSE UNCHANGED evidence

\* restore_drill restores, opens and reconciles, and removes the copy.
RestoreDrill(a) ==
  /\ Idle /\ Restores(a)
  /\ drilled' = drilled \cup {a}
  /\ WithRestore(a)
  /\ UNCHANGED <<keyringVars, custodyVars, generation, counter, archives,
                 hosts, artifact, procVars>>

\* invalidate_recovery, in a rotation and in the retirement of the file.
InvalidateRecovery ==
  /\ At("invalidate")
  /\ CanLoad(ring)
  /\ WriteRecord([evidence EXCEPT !.backup = 0, !.restore = 0])
  /\ Proceed
  /\ UNCHANGED <<keyringVars, custodyVars,
                 backupVars, hosts, artifact>>

-----------------------------------------------------------------------------
(* Artifact and host *)

\* qualify_installed_artifact; another artifact drops the host.
QualifyArtifact ==
  /\ Idle /\ CanLoad(ring)
  /\ WriteRecord([evidence EXCEPT !.artifact = artifact,
                    !.host = IF evidence.artifact = artifact THEN @ ELSE NoHost])
  /\ UNCHANGED <<keyringVars, custodyVars, backupVars, hosts,
                 artifact, procVars>>

\* verify_host_qualification: the receipt of a host that kept the boundary.
\* Each qualification has an identity of its own.
HostReceipt == [id |-> hosts + 1, key |-> ring.active]

\* record_host_boundary
WithHost(h) == [evidence EXCEPT !.host = h]

\* qualify_host_boundary
QualifyHost ==
  /\ Idle /\ CanLoad(ring)
  /\ ArtifactId # 0 /\ hosts < MaxHosts
  /\ hosts' = hosts + 1
  /\ HostCurrent(HostReceipt, ring)
  /\ WriteRecord(WithHost(HostReceipt))
  /\ UNCHANGED <<keyringVars, custodyVars, backupVars, artifact, procVars>>

HostExpires ==
  /\ evidence.host # NoHost
  /\ evidence' = [evidence EXCEPT !.host = NoHost]
  /\ UNCHANGED <<keyringVars, custodyVars, backupVars, hosts, artifact,
                 procVars>>

\* Another version of the package is installed than the one recorded.
Upgrade ==
  /\ ArtifactCurrent /\ artifact < MaxArtifacts
  /\ artifact' = artifact + 1
  /\ evidence' = [evidence EXCEPT !.host = NoHost]
  /\ UNCHANGED <<keyringVars, custodyVars, backupVars, hosts, procVars>>

-----------------------------------------------------------------------------
(* Rotation, as far as the roots and the evidence go *)

\* rotate_key: begin_rotation draws a key, unless a rotation is under way.
RotateKey ==
  /\ ring.rotation # "verified"
  /\ \/ /\ ring.rotation = "none"
        /\ DrawKey
        /\ Begin(<<"activate", "invalidate", "verify">>, 0)
     \/ /\ ring.rotation = "migrating"
        /\ Begin(<<"invalidate", "verify">>, 0)
        /\ UNCHANGED <<keyFiles, bound, drawn>>
  /\ UNCHANGED <<disk, ring, torn, faults, custodyVars, backupVars,
                 readinessVars, artifact>>

Activate ==
  /\ At("activate")
  /\ \/ ActivateKey /\ Proceed
     \/ ActivateKeyFails /\ Abandon
  /\ UNCHANGED <<custodyVars, backupVars, readinessVars, artifact>>

VerifyRotation ==
  /\ At("verify")
  /\ \/ Publish(Verified(ring)) /\ UNCHANGED faults
     \/ PublishFails(Verified(ring)) /\ MayMend
     \/ UNCHANGED <<disk, ring, torn, faults>>
  /\ Proceed
  /\ UNCHANGED <<keyFiles, bound, drawn, custodyVars, backupVars,
                 readinessVars, artifact>>

RetirePreviousKey ==
  /\ RetireInManifest
  /\ Begin(IF Source(ring) \in ring.opaque THEN <<"delete">> ELSE <<"unlink">>,
           Source(ring))
  /\ UNCHANGED <<custodyVars, backupVars, readinessVars, artifact>>

Unlink ==
  /\ \/ At("unlink") /\ RemoveKey(arg, FALSE)
     \/ At("delete") /\ RemoveKey(arg, TRUE)
  /\ Proceed
  /\ UNCHANGED <<custodyVars, backupVars, readinessVars, artifact>>

-----------------------------------------------------------------------------
(* Failures and processes *)

\* A step raises before it takes effect.  The first step of an operation then
\* leaves everything as it was.
StepFails ==
  /\ up /\ todo # <<>>
  /\ Head(todo) \in {"describe", "receipt", "unraw", "unreceipt", "invalidate",
                     "publish", "advance", "record", "unlink", "delete"}
  /\ Fault /\ Abandon
  /\ UNCHANGED <<disk, ring, keyFiles, bound, drawn, torn, custodyVars,
                 backupVars, readinessVars, artifact>>

\* The profile is opened, by process p; a root that does not load refuses it.
Reopen(p) ==
  /\ up
  /\ up' = Loads(disk) /\ proc' = p
  /\ todo' = <<>> /\ arg' = 0
  /\ ring' = disk
  /\ UNCHANGED <<disk, keyFiles, bound, drawn, torn, faults, custodyVars,
                 backupVars, readinessVars, artifact>>

\* The process ends, wherever it is, and another one opens the profile.
Restart == proc < MaxProcs /\ Reopen(proc + 1)

\* The AgentMemory is closed and the same process opens another.
CloseAndOpen == Idle /\ Reopen(proc)

Next ==
  \/ \E a \in DOMAIN archives :
        MigrateCustody(a) \/ BackupVerify(a) \/ RestoreDrill(a)
  \/ DescribeCustody \/ WriteReceipt \/ SwitchCustody
  \/ RetireFileCustody \/ PromoteCustody \/ UnlinkRaw \/ UnlinkReceipt
  \/ \E tier \in {"none", "local-best-effort"} : BackupCreate(tier)
  \/ Publication \/ AdvanceGeneration
  \/ RecordBackup \/ InvalidateRecovery
  \/ QualifyArtifact \/ QualifyHost \/ HostExpires \/ Upgrade
  \/ RotateKey \/ Activate \/ VerifyRotation \/ RetirePreviousKey
  \/ Unlink \/ StepFails \/ Restart \/ CloseAndOpen

Spec == Init /\ [][Next]_vars

-----------------------------------------------------------------------------
(* What doctor and the guided set-up report of the manifest m *)

\* ReadinessEvidenceStore.evidence
BackupValid(m) ==
  /\ evidence.backup # 0
  /\ archives[evidence.backup].key = m.active
  /\ archives[evidence.backup].artifact = ArtifactId
  /\ archives[evidence.backup].host = HostId(m)

RestoreValid(m) == BackupValid(m) /\ evidence.restore = evidence.backup

\* Custody counts when it is active and no raw key file is left.
QualifiedCustody(m) ==
  m.active \in m.opaque /\ bound[m.active] = "active" /\ keyFiles = {}

\* _readiness_failures is empty, as far as this module goes.
LocalGate(m) ==
  /\ ArtifactId # 0 /\ HostId(m) # 0
  /\ BackupValid(m) /\ RestoreValid(m)
  /\ QualifiedCustody(m)
  /\ m.rotation \in {"none", "verified"}

\* build_capabilities_v1 for a profile without an enclave; evidence that does
\* not load makes it not ready.
Ready == CanLoad(ring) /\ LocalGate(ring)

\* AlwaysAvailableMemory.__init__: an inspector opens the profile to read it,
\* from the manifest on disk, beside whatever process has it open.
InspectorOpens == Loads(disk)

\* AlwaysAvailableMemory.doctor: what the inspector found verified.
Inspected ==
  [artifact |-> CanLoad(disk) /\ ArtifactId # 0,
   host     |-> CanLoad(disk) /\ HostId(disk) # 0,
   backup   |-> CanLoad(disk) /\ BackupValid(disk),
   restore  |-> CanLoad(disk) /\ RestoreValid(disk),
   custody  |-> QualifiedCustody(disk)]

\* _run_local_production_init: the checks of the profile that do not pass.
\* The envelope is verified in this module, and the rollback tier asked for is
\* the one of the backup; a rotation under way is not looked at.
Blocking == {check \in DOMAIN Inspected : ~Inspected[check]}
ReadyToActivate == InspectorOpens /\ Blocking = {}

-----------------------------------------------------------------------------
(* Properties *)

Archives == [key : Keys, generation : Nat,
             artifact : 0 .. MaxArtifacts, host : 0 .. MaxHosts,
             keyring : Manifest, raw : SUBSET Keys,
             state : {"published", "advanced", "recorded"}]

\* Types; the evidence refers to archives that exist, and a rotation has
\* exactly one key to leave behind.
TypeOK ==
  /\ KeyringTypeOK
  /\ candidates \in [Keys -> 0 .. 2]
  /\ {receipt, switchedBy} \subseteq 0 .. MaxProcs
  /\ generation \in [Keys -> Nat] /\ counter \in Nat
  /\ \A a \in DOMAIN archives : archives[a] \in Archives
  /\ drilled \subseteq DOMAIN archives
  /\ evidence \in [key : Keys, artifact : 0 .. MaxArtifacts,
                   host : [id : 0 .. MaxHosts, key : Keys \cup {NoKey}],
                   backup : {0} \cup DOMAIN archives,
                   restore : {0} \cup DOMAIN archives]
  /\ hosts \in 0 .. MaxHosts
  /\ artifact \in 1 .. MaxArtifacts
  /\ up \in BOOLEAN /\ proc \in 1 .. MaxProcs /\ arg \in Nat

\* A custody migration can be cut off anywhere: at every point of it, of the
\* retirement of the file, of a rotation and of a key retirement, the manifest
\* on disk names only roots that load, and until the descriptor is active the
\* receipt that the retirement asks for is there, so that a later process can
\* finish (except after a manifest that failed when it was already renamed,
\* torn).
CustodyResumable ==
  \/ /\ Loads(disk)
     /\ disk.active \in disk.opaque =>
          bound[disk.active] = "active" \/ receipt # 0
  \/ torn

\* No process both puts the root in custody and removes the file it came
\* from, however often the profile is closed and opened again in it
\* (LOCAL_AGENT_SECURITY.md: "Reopening an object in that same process does
\* not satisfy the gate").
FreshProcessRetires ==
  [][\A k \in keyFiles \ keyFiles' :
        k \in disk.opaque => proc # switchedBy]_vars

\* Of two backups with rollback detection that ran to the advance of the
\* device, under the key that is still active, the older one is refused.
OlderBackupRefused ==
  \A a, b \in DOMAIN archives :
    (/\ a < b
     /\ archives[a].key = archives[b].key
     /\ archives[a].state # "published" /\ archives[b].state # "published")
    => ~Accepts(a)

\* A profile that reports itself ready, to the process that has it open or to
\* a guided set-up that inspects it at any moment from outside, names a backup
\* that was really restored and that would still be restored, with every root
\* it needs; only a later backup that was cut off between the advance of the
\* device and its record makes it stale.
ReadyMeansRestorable ==
  (up /\ Ready) \/ ReadyToActivate =>
    /\ evidence.backup \in drilled
    /\ \/ Restores(evidence.backup)
       \/ \E b \in DOMAIN archives :
             b > evidence.backup /\ archives[b].state = "advanced"
=============================================================================
