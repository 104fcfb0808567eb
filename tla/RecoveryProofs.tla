--------------------------- MODULE RecoveryProofs ---------------------------
(***************************************************************************)
(* The safety of key custody, backups and readiness, for any number of     *)
(* keys, processes, archives, artifacts, hosts and faults.                 *)
(*                                                                         *)
(* A cut-off move to native custody can be finished because the manifest   *)
(* on disk and the one in memory differ in three ways only (Link), and in  *)
(* each of them the roots that either names are there.  An older backup is *)
(* refused because the generation of a device only grows by an archive     *)
(* that was published for it.  A ready profile can be restored because a   *)
(* drill stays good until a later backup advances the device.              *)
(***************************************************************************)
EXTENDS Recovery, SequenceTheorems, TLAPS

\* What can be left of the steps of an operation.
Plans ==
  {<<>>,
   CustodySteps, <<"receipt", "switch">>, <<"switch">>,
   RetireFileSteps, <<"unraw", "unreceipt", "invalidate">>,
   <<"unreceipt", "invalidate">>, <<"invalidate">>,
   <<"publish", "record">>, <<"record">>,
   <<"publishNext", "advance", "record">>, <<"advance", "record">>,
   <<"activate", "invalidate", "verify">>, <<"invalidate", "verify">>,
   <<"verify">>, <<"delete">>, <<"unlink">>}

TodoInv == todo \in Plans /\ (todo # <<>> => up)

\* The manifest in memory is the one on disk, unless a write failed after the
\* rename: of a rotation, of its verification or of the move to custody.
Link ==
  \/ ring = disk
  \/ /\ up /\ torn /\ ring.rotation = "none"
     /\ \E k \in Keys \ ring.held : disk = Rotated(ring, k)
  \/ up /\ ring.rotation = "migrating" /\ disk = Verified(ring)
  \/ /\ up /\ ~torn /\ ring.rotation = "none"
     /\ ring.active \notin ring.opaque /\ disk = WithCustody(ring)
     /\ switchedBy = proc

\* A manifest that the operations of the keyring make.
Sound(m) ==
  /\ m \in Manifest /\ m.active \in m.held /\ m.opaque \subseteq m.held
  /\ m.rotation = "none" => m.held = {m.active}
  /\ m.rotation # "none" => \E k \in Keys \ {m.active} : m.held = {m.active, k}

\* It names keys that were drawn.
Known(m) == Sound(m) /\ \A k \in m.held : k <= drawn

\* Its roots load, and its custody is active or can be made so.
Rooted(m) ==
  /\ Loads(m)
  /\ m.active \in m.opaque => bound[m.active] = "active" \/ receipt # 0

KeyInv ==
  /\ Known(disk) /\ Known(ring)
  /\ \A k \in Keys : k > drawn => k \notin keyFiles /\ bound[k] = "none"
  /\ Link
  /\ up => Rooted(ring)
  /\ ~torn => Rooted(disk)
  /\ torn => disk.active \notin keyFiles /\ bound[disk.active] = "none"
  /\ ring.active \notin ring.opaque => bound[ring.active] # "active"
  /\ \A k \in Keys : bound[k] = "verified" => candidates[k] > 0

\* While the raw file of a root in custody exists, the receipt names the
\* process that moved it, and custody was made active by a later one.
RawSafe(m) ==
  m.active \in m.opaque /\ m.active \in keyFiles =>
    /\ bound[m.active] = "verified" => receipt = switchedBy
    /\ bound[m.active] = "active" => switchedBy < proc

RawInv == switchedBy <= proc /\ RawSafe(ring) /\ RawSafe(disk)

\* What the operation under way has behind it, by the step it is at.
KeyPhase ==
  todo # <<>> =>
    /\ Head(todo) \in {"describe", "receipt", "switch"} =>
         ring.rotation = "none" /\ ring.active \notin ring.opaque
    /\ Head(todo) \in {"receipt", "switch"} => bound[ring.active] = "verified"
    /\ Head(todo) = "switch" => receipt = proc
    /\ Head(todo) = "promote" => ring.active \in ring.opaque /\ MayRetireFile
    /\ Head(todo) \in {"unraw", "unreceipt"} =>
         ring.active \in ring.opaque /\ bound[ring.active] = "active"
    /\ Head(todo) = "activate" =>
         /\ ring.rotation = "none"
         /\ drawn \notin ring.held /\ drawn \notin disk.held
         /\ generation[drawn] = 0
         /\ IF ring.active \in ring.opaque
            THEN bound[drawn] = "active" /\ drawn \notin keyFiles
            ELSE bound[drawn] = "none" /\ drawn \in keyFiles
    /\ todo \in {<<"invalidate", "verify">>, <<"verify">>} =>
         ring.rotation = "migrating"
    /\ Head(todo) \in {"unlink", "delete"} =>
         arg \in Keys /\ arg \notin ring.held /\ arg \notin disk.held

BackupPhase ==
  todo # <<>> =>
    /\ Head(todo) \in {"publish", "publishNext"} =>
         ring.rotation = "none" /\ arg = Len(archives) + 1
    /\ Head(todo) \in {"publishNext", "advance"} => ring.active \in ring.opaque
    /\ Head(todo) \in {"advance", "record"} =>
         arg = Len(archives) /\ arg > 0 /\ evidence.restore # arg
    /\ Head(todo) = "advance" =>
         /\ archives[arg].key = ring.active /\ archives[arg].state = "published"
         /\ archives[arg].generation = generation[ring.active] + 1

\* An archive is well formed; the roots that it needs are its own key; what the
\* device was advanced to is no newer than the device.
Kept(a) ==
  /\ WellFormed(archives[a])
  /\ archives[a].keyring.active = archives[a].key =>
       archives[a].keyring.held = {archives[a].key}
  /\ archives[a].state # "published" =>
       archives[a].generation <= generation[archives[a].key]

Increasing(a, b) ==
  (/\ a < b /\ archives[a].key = archives[b].key
   /\ archives[a].state # "published" /\ archives[b].state # "published")
  => archives[a].generation < archives[b].generation

\* The device counts for the root of a manifest only once it is in custody.
Uncounted(m) == m.active \notin m.opaque => generation[m.active] = 0

BackupInv ==
  /\ archives \in Seq(Archives)
  /\ \A a \in DOMAIN archives : Kept(a)
  /\ \A a, b \in DOMAIN archives : Increasing(a, b)
  /\ Uncounted(ring) /\ Uncounted(disk)
  /\ \A k \in Keys : k > drawn => generation[k] = 0

\* A drill that the evidence names was one; what it read of the archive itself
\* does not change, and only an advance of the device can outdate it.
Drilled(a) ==
  /\ a \in drilled
  /\ archives[a].keyring.active = archives[a].key
  /\ archives[a].keyring.held \ archives[a].keyring.opaque \subseteq archives[a].raw
  /\ \/ archives[a].generation >= generation[archives[a].key]
     \/ \E b \in DOMAIN archives : b > a /\ archives[b].state = "advanced"

DrillInv == evidence.restore # 0 => Drilled(evidence.restore)

IInv ==
  /\ TypeOK /\ TodoInv /\ KeyInv /\ RawInv /\ KeyPhase
  /\ BackupInv /\ BackupPhase /\ DrillInv

-----------------------------------------------------------------------------
(* Lemmas about the steps of an operation *)

\* The step that comes first, and what is left after it.
LEMMA HeadTail ==
  /\ \A x : Head(<<x>>) = x /\ Tail(<<x>>) = <<>>
  /\ \A x, y : Head(<<x, y>>) = x /\ Tail(<<x, y>>) = <<y>>
  /\ \A x, y, z : Head(<<x, y, z>>) = x /\ Tail(<<x, y, z>>) = <<y, z>>
  /\ \A x, y, z, w : Head(<<x, y, z, w>>) = x /\ Tail(<<x, y, z, w>>) = <<y, z, w>>
  /\ \A x, y, z : <<x>> # <<>> /\ <<x, y>> # <<>> /\ <<x, y, z>> # <<>>
OBVIOUS

LEMMA After ==
  ASSUME todo \in Plans, todo # <<>>
  PROVE  /\ Head(todo) = "describe" => Tail(todo) = <<"receipt", "switch">>
         /\ Head(todo) = "receipt" => Tail(todo) = <<"switch">>
         /\ Head(todo) = "promote" =>
              Tail(todo) = <<"unraw", "unreceipt", "invalidate">>
         /\ Head(todo) = "unraw" => Tail(todo) = <<"unreceipt", "invalidate">>
         /\ Head(todo) = "unreceipt" => Tail(todo) = <<"invalidate">>
         /\ Head(todo) = "publish" => Tail(todo) = <<"record">>
         /\ Head(todo) = "publishNext" => Tail(todo) = <<"advance", "record">>
         /\ Head(todo) = "advance" => Tail(todo) = <<"record">>
         /\ Head(todo) = "activate" => Tail(todo) = <<"invalidate", "verify">>
         /\ Head(todo) = "invalidate" =>
              \/ Tail(todo) = <<>>
              \/ todo = <<"invalidate", "verify">> /\ Tail(todo) = <<"verify">>
         /\ Head(todo) = "verify" => todo = <<"verify">>
         /\ Head(todo) \in {"switch", "record", "verify", "delete", "unlink"} =>
              Tail(todo) = <<>>
         /\ Tail(todo) \in Plans
<1>1. CASE todo = <<"describe", "receipt", "switch">>
  BY <1>1, HeadTail DEF Plans, CustodySteps, RetireFileSteps
<1>2. CASE todo = <<"receipt", "switch">>
  BY <1>2, HeadTail DEF Plans, CustodySteps, RetireFileSteps
<1>3. CASE todo = <<"switch">>
  BY <1>3, HeadTail DEF Plans, CustodySteps, RetireFileSteps
<1>4. CASE todo = <<"promote", "unraw", "unreceipt", "invalidate">>
  BY <1>4, HeadTail DEF Plans, CustodySteps, RetireFileSteps
<1>5. CASE todo = <<"unraw", "unreceipt", "invalidate">>
  BY <1>5, HeadTail DEF Plans, CustodySteps, RetireFileSteps
<1>6. CASE todo = <<"unreceipt", "invalidate">>
  BY <1>6, HeadTail DEF Plans, CustodySteps, RetireFileSteps
<1>7. CASE todo = <<"invalidate">>
  BY <1>7, HeadTail DEF Plans, CustodySteps, RetireFileSteps
<1>8. CASE todo = <<"publish", "record">>
  BY <1>8, HeadTail DEF Plans, CustodySteps, RetireFileSteps
<1>9. CASE todo = <<"record">>
  BY <1>9, HeadTail DEF Plans, CustodySteps, RetireFileSteps
<1>10. CASE todo = <<"publishNext", "advance", "record">>
  BY <1>10, HeadTail DEF Plans, CustodySteps, RetireFileSteps
<1>11. CASE todo = <<"advance", "record">>
  BY <1>11, HeadTail DEF Plans, CustodySteps, RetireFileSteps
<1>12. CASE todo = <<"activate", "invalidate", "verify">>
  BY <1>12, HeadTail DEF Plans, CustodySteps, RetireFileSteps
<1>13. CASE todo = <<"invalidate", "verify">>
  BY <1>13, HeadTail DEF Plans, CustodySteps, RetireFileSteps
<1>14. CASE todo = <<"verify">>
  BY <1>14, HeadTail DEF Plans, CustodySteps, RetireFileSteps
<1>15. CASE todo = <<"delete">>
  BY <1>15, HeadTail DEF Plans, CustodySteps, RetireFileSteps
<1>16. CASE todo = <<"unlink">>
  BY <1>16, HeadTail DEF Plans, CustodySteps, RetireFileSteps
<1> QED
  BY <1>1, <1>2, <1>3, <1>4, <1>5, <1>6, <1>7, <1>8, <1>9, <1>10, <1>11, <1>12, <1>13, <1>14, <1>15, <1>16
     DEF Plans, CustodySteps, RetireFileSteps

-----------------------------------------------------------------------------
(* Lemmas about manifests *)

LEMMA SourceIs ==
  ASSUME NEW m, Sound(m), m.rotation # "none"
  PROVE  /\ Source(m) \in Keys /\ Source(m) # m.active
         /\ m.held = {m.active, Source(m)}
<1>1. PICK k \in Keys \ {m.active} : m.held = {m.active, k}
  BY DEF Sound
<1>2. Source(m) = CHOOSE j \in m.held : j # m.active
  BY DEF Source
<1>3. Source(m) \in m.held /\ Source(m) # m.active
  BY <1>1, <1>2
<1> QED  BY <1>1, <1>3

\* begin_rotation adds its key, in custody when the active one is.
LEMMA RotatedIs ==
  ASSUME NEW m, Sound(m), m.rotation = "none", NEW k \in Keys, k \notin m.held
  PROVE  /\ Sound(Rotated(m, k))
         /\ Rotated(m, k).held = m.held \cup {k} /\ Rotated(m, k).active = k
         /\ Rotated(m, k).rotation = "migrating"
         /\ Rotated(m, k).opaque = IF m.active \in m.opaque
                                   THEN m.opaque \cup {k} ELSE m.opaque
<1> DEFINE n == Rotated(m, k)
<1>1. /\ n.held = m.held \cup {k} /\ n.active = k /\ n.rotation = "migrating"
      /\ n.v3 = m.v3
      /\ n.opaque = IF m.active \in m.opaque THEN m.opaque \cup {k} ELSE m.opaque
  BY DEF Rotated, Sound, Manifest
<1>2. n \in Manifest
  BY <1>1 DEF Rotated, Sound, Manifest
<1>3. m.active \in Keys \ {k} /\ n.held = {n.active, m.active}
  BY <1>1 DEF Sound, Manifest
<1>4. Sound(n)
  BY <1>1, <1>2, <1>3 DEF Sound
<1> QED  BY <1>1, <1>4

LEMMA VerifiedIs ==
  ASSUME NEW m, Sound(m), m.rotation = "migrating"
  PROVE  /\ Sound(Verified(m))
         /\ Verified(m).held = m.held /\ Verified(m).active = m.active
         /\ Verified(m).rotation = "verified" /\ Verified(m).opaque = m.opaque
<1> DEFINE n == Verified(m)
<1>1. /\ n.held = m.held /\ n.active = m.active /\ n.rotation = "verified"
      /\ n.opaque = m.opaque /\ n \in Manifest
  BY DEF Verified, Sound, Manifest
<1> QED  BY <1>1 DEF Sound

LEMMA RetiredIs ==
  ASSUME NEW m, Sound(m)
  PROVE  /\ Sound(Retired(m))
         /\ Retired(m).held = {m.active} /\ Retired(m).active = m.active
         /\ Retired(m).rotation = "none"
         /\ Retired(m).opaque = m.opaque \cap {m.active}
<1> DEFINE n == Retired(m)
<1>1. /\ n.held = {m.active} /\ n.active = m.active /\ n.rotation = "none"
      /\ n.opaque = m.opaque \cap {m.active} /\ n.v3 = m.v3
  BY DEF Retired, Sound, Manifest
<1>2. n \in Manifest
  BY <1>1 DEF Retired, Sound, Manifest
<1> QED  BY <1>1, <1>2 DEF Sound

LEMMA WithCustodyIs ==
  ASSUME NEW m, Sound(m)
  PROVE  /\ Sound(WithCustody(m))
         /\ WithCustody(m).held = m.held /\ WithCustody(m).active = m.active
         /\ WithCustody(m).rotation = m.rotation
         /\ WithCustody(m).opaque = m.opaque \cup {m.active}
<1> DEFINE n == WithCustody(m)
<1>1. /\ n.held = m.held /\ n.active = m.active /\ n.rotation = m.rotation
      /\ n.opaque = m.opaque \cup {m.active} /\ n \in Manifest
  BY DEF WithCustody, Sound, Manifest
<1> QED  BY <1>1 DEF Sound

LEMMA SoundKeys ==
  ASSUME NEW m, Sound(m)
  PROVE  m.active \in Keys /\ m.held \subseteq Keys /\ m.opaque \subseteq Keys
BY DEF Sound, Manifest

\* Where the manifest in memory and the one on disk agree.
LEMMA LinkFacts ==
  ASSUME KeyInv
  PROVE  /\ Sound(ring) /\ Sound(disk)
         /\ disk = ring \/ up
         /\ torn \/ disk.active = ring.active
         /\ ring.rotation = "verified" => disk = ring
         /\ ring.active \in ring.opaque /\ ~torn =>
              disk.opaque = ring.opaque /\ disk.held = ring.held
         /\ torn /\ up => disk.active \notin ring.held
<1>1. Sound(ring) /\ Sound(disk) /\ (disk = ring \/ up)
  BY DEF KeyInv, Known, Link
<1>2. CASE ring = disk
  <2>1. ~(torn /\ up)
    BY <1>2, <1>1 DEF KeyInv, Rooted, Loads, Sound
  <2> QED  BY <1>1, <1>2, <2>1
<1>3. CASE up /\ torn /\ ring.rotation = "none"
           /\ \E k \in Keys \ ring.held : disk = Rotated(ring, k)
  <2>1. PICK k \in Keys \ ring.held : disk = Rotated(ring, k)
    BY <1>3
  <2>2. disk.active = k
    BY <1>1, <1>3, <2>1, RotatedIs
  <2> QED  BY <1>1, <1>3, <2>1, <2>2
<1>4. CASE up /\ ring.rotation = "migrating" /\ disk = Verified(ring)
  <2>1. disk.active = ring.active /\ disk.held = ring.held /\ disk.opaque = ring.opaque
    BY <1>1, <1>4, VerifiedIs
  <2>2. ~torn
    BY <2>1, <1>1, <1>4 DEF KeyInv, Rooted, Loads, Sound
  <2> QED  BY <1>1, <1>4, <2>1, <2>2
<1>5. CASE up /\ ~torn /\ ring.rotation = "none"
           /\ ring.active \notin ring.opaque /\ disk = WithCustody(ring)
  BY <1>1, <1>5, WithCustodyIs
<1> QED  BY <1>2, <1>3, <1>4, <1>5 DEF KeyInv, Link

-----------------------------------------------------------------------------
(* Every step keeps the operation under way in order *)

LEMMA TodoStep ==
  ASSUME TodoInv, Next
  PROVE  TodoInv'
<1>1. ASSUME todo # <<>>, Proceed  PROVE TodoInv'
  BY <1>1, After DEF TodoInv, Proceed
<1>2. ASSUME Abandon  PROVE TodoInv'
  BY <1>2 DEF TodoInv, Abandon, Plans
<1>3. ASSUME NEW steps \in Plans, NEW a, Begin(steps, a)  PROVE TodoInv'
  BY <1>3 DEF TodoInv, Begin, Idle
<1>4. ASSUME UNCHANGED procVars  PROVE TodoInv'
  BY <1>4 DEF TodoInv, procVars
<1>5. CASE \E a \in DOMAIN archives : MigrateCustody(a)
  BY <1>5, <1>3 DEF MigrateCustody, Plans
<1>6. CASE \/ \E a \in DOMAIN archives : BackupVerify(a) \/ RestoreDrill(a)
           \/ QualifyArtifact \/ QualifyHost \/ HostExpires \/ Upgrade
  BY <1>6, <1>4 DEF BackupVerify, RestoreDrill, QualifyArtifact, QualifyHost,
                    HostExpires, Upgrade
<1>7. CASE DescribeCustody \/ WriteReceipt \/ SwitchCustody \/ PromoteCustody
           \/ UnlinkRaw \/ UnlinkReceipt \/ InvalidateRecovery \/ Activate
           \/ VerifyRotation \/ Unlink \/ StepFails
  BY <1>7, <1>1, <1>2 DEF DescribeCustody, WriteReceipt, SwitchCustody,
     PromoteCustody, UnlinkRaw, UnlinkReceipt, InvalidateRecovery, Activate,
     VerifyRotation, Unlink, StepFails, At
<1>8. CASE Publication \/ AdvanceGeneration \/ RecordBackup
  BY <1>8, <1>1, <1>2 DEF Publication, PublishArchive, AdvanceGeneration,
     RecordBackup, At
<1>9. CASE RetireFileCustody
  BY <1>9, <1>3 DEF RetireFileCustody, Plans
<1>10. CASE \E tier \in {"none", "local-best-effort"} : BackupCreate(tier)
  BY <1>10, <1>3 DEF BackupCreate, Plans
<1>11. CASE RotateKey
  BY <1>11, <1>3 DEF RotateKey, Plans
<1>12. CASE RetirePreviousKey
  BY <1>12, <1>3 DEF RetirePreviousKey, Plans
<1>13. CASE Restart \/ CloseAndOpen
  BY <1>13 DEF Restart, CloseAndOpen, Reopen, TodoInv, Plans
<1> QED
  BY <1>5, <1>6, <1>7, <1>8, <1>9, <1>10, <1>11, <1>12, <1>13 DEF Next

-----------------------------------------------------------------------------
(* The keyring: custody, rotation and retirement of keys *)

LEMMA Numbers == Keys \subseteq Nat \ {0}
BY KeyringAssumption DEF Keys

LEMMA KeyTypes ==
  ASSUME TypeOK
  PROVE  /\ drawn \in Keys /\ drawn \in Nat /\ keyFiles \subseteq Keys
         /\ bound \in [Keys -> {"none", "verified", "active"}]
BY Numbers DEF TypeOK, KeyringTypeOK

LEMMA ProcTypes ==
  ASSUME TypeOK
  PROVE  proc \in Nat \ {0} /\ switchedBy \in Nat
BY RecoveryAssumption DEF TypeOK

\* A step that leaves the keyring and the custody alone.
LEMMA QuietKeys ==
  ASSUME KeyInv, RawInv,
         UNCHANGED <<disk, ring, keyFiles, bound, drawn, torn, receipt,
                     switchedBy, up, proc>>,
         \A k \in Keys : candidates[k] > 0 => candidates'[k] > 0
  PROVE  KeyInv' /\ RawInv'
<1>1. Link'
  BY DEF KeyInv, Link
<1>2. Known(disk)' /\ Known(ring)'
  BY DEF KeyInv, Known
<1>3. (up => Rooted(ring))' /\ (~torn => Rooted(disk))'
  BY DEF KeyInv, Rooted, Loads
<1>4. KeyInv'
  BY <1>1, <1>2, <1>3 DEF KeyInv
<1>5. RawInv'
  BY DEF RawInv, RawSafe
<1> QED  BY <1>4, <1>5

\* A step that replaces no manifest: the roots that were there stay there.
LEMMA SameManifests ==
  ASSUME TypeOK, KeyInv, UNCHANGED <<disk, ring, torn, switchedBy, up, proc>>,
         drawn' \in Nat, drawn <= drawn',
         \A k \in Keys : k > drawn' => k \notin keyFiles' /\ bound'[k] = "none",
         up => Rooted(ring)', ~torn => Rooted(disk)',
         torn => disk.active \notin keyFiles' /\ bound'[disk.active] = "none",
         ring.active \notin ring.opaque => bound'[ring.active] # "active",
         \A k \in Keys : bound'[k] = "verified" => candidates'[k] > 0
  PROVE  KeyInv'
<1>1. Link'
  BY DEF KeyInv, Link
<1>2. \A m : Known(m) => Known(m)'
  <2>1. SUFFICES ASSUME NEW m, Known(m), NEW k \in m.held  PROVE k <= drawn'
    BY DEF Known
  <2>2. k \in Keys /\ k <= drawn
    BY <2>1, SoundKeys DEF Known
  <2> QED  BY <2>2, Numbers, KeyTypes
<1>3. Known(disk)' /\ Known(ring)'
  BY <1>2 DEF KeyInv, Known
<1> QED  BY <1>1, <1>3 DEF KeyInv

LEMMA DescribeKeys ==
  ASSUME TypeOK, TodoInv, KeyInv, RawInv, KeyPhase, DescribeCustody
  PROVE  KeyInv' /\ RawInv'
<1>1. /\ UNCHANGED <<disk, ring, keyFiles, drawn, torn, receipt, switchedBy,
                     candidates, up, proc>>
      /\ ring.rotation = "none" /\ ring.active \notin ring.opaque
      /\ up /\ ring.active \in Keys /\ bound \in [Keys -> {"none", "verified", "active"}]
  BY DEF DescribeCustody, At, KeyPhase, custodyVars, Proceed, Abandon, TypeOK,
         KeyringTypeOK, Manifest
<1>2. CASE UNCHANGED bound
  BY <1>1, <1>2, QuietKeys
<1>3. CASE /\ candidates[ring.active] = 1
           /\ bound' = [bound EXCEPT ![ring.active] = "verified"]
  <2>1. torn \/ disk.active = ring.active
    BY LinkFacts
  <2>2. Rooted(ring)'
    BY <1>1, <1>3 DEF KeyInv, Rooted, Loads
  <2>3. ~torn => disk.active \notin disk.opaque \/ bound[disk.active] # "active"
    BY <1>1, <2>1 DEF KeyInv
  <2>4. ~torn => Rooted(disk)'
    BY <1>1, <1>3, <2>1, <2>3 DEF KeyInv, Rooted, Loads
  <2>5. torn => disk.active # ring.active
    BY <1>1, LinkFacts DEF KeyInv, Known, Sound
  <2>6. ring.active <= drawn /\ ring.active \in Nat /\ drawn \in Nat
    BY <1>1, Numbers DEF KeyInv, Known, Sound, TypeOK, KeyringTypeOK
  <2>7. KeyInv'
    <3>1. \A k \in Keys : k > drawn' => k \notin keyFiles' /\ bound'[k] = "none"
      BY <1>1, <1>3, <2>6 DEF KeyInv
    <3>2. torn => disk.active \notin keyFiles' /\ bound'[disk.active] = "none"
      BY <1>1, <1>3, <2>5 DEF KeyInv, Known, Sound, Manifest
    <3>3. \A k \in Keys : bound'[k] = "verified" => candidates'[k] > 0
      BY <1>1, <1>3 DEF KeyInv
    <3> QED  BY <1>1, <1>3, <2>2, <2>4, <2>6, <3>1, <3>2, <3>3, SameManifests
  <2>8. ~torn /\ disk.active \in disk.opaque => bound[disk.active] = "verified"
    BY <1>1, <2>1, <2>3 DEF KeyInv, Rooted, Loads, Known, Sound
  <2>9. RawInv'
    BY <1>1, <1>3, <2>1, <2>8 DEF RawInv, RawSafe, KeyInv
  <2> QED  BY <2>7, <2>9
<1> QED  BY <1>2, <1>3 DEF DescribeCustody

LEMMA ReceiptKeys ==
  ASSUME TypeOK, TodoInv, KeyInv, RawInv, KeyPhase, WriteReceipt
  PROVE  KeyInv' /\ RawInv'
<1>1. /\ UNCHANGED <<disk, ring, keyFiles, bound, drawn, torn, switchedBy,
                     candidates, up, proc>>
      /\ receipt' = proc /\ proc # 0
      /\ ring.rotation = "none" /\ ring.active \notin ring.opaque
      /\ up /\ drawn \in Nat
  BY Numbers DEF WriteReceipt, At, KeyPhase, keyringVars, Proceed, TypeOK, KeyringTypeOK
<1>2. (up => Rooted(ring)') /\ (~torn => Rooted(disk)')
  BY <1>1 DEF KeyInv, Rooted, Loads
<1>3. KeyInv'
  <2>1. \A k \in Keys : k > drawn' => k \notin keyFiles' /\ bound'[k] = "none"
    BY <1>1 DEF KeyInv
  <2>2. torn => disk.active \notin keyFiles' /\ bound'[disk.active] = "none"
    BY <1>1 DEF KeyInv
  <2>3. \A k \in Keys : bound'[k] = "verified" => candidates'[k] > 0
    BY <1>1 DEF KeyInv
  <2>4. ring.active \notin ring.opaque => bound'[ring.active] # "active"
    BY <1>1 DEF KeyInv
  <2> QED  BY <1>1, <1>2, <2>1, <2>2, <2>3, <2>4, SameManifests
<1>4. disk = ring \/ torn \/ switchedBy = proc
  BY <1>1 DEF KeyInv, Link
<1>5. RawInv'
  BY <1>1, <1>4 DEF RawInv, RawSafe, KeyInv
<1> QED  BY <1>3, <1>5

LEMMA PromoteKeys ==
  ASSUME TypeOK, TodoInv, KeyInv, RawInv, KeyPhase, PromoteCustody
  PROVE  KeyInv' /\ RawInv'
<1>1. /\ UNCHANGED <<disk, ring, keyFiles, drawn, torn, receipt, switchedBy, up, proc>>
      /\ ring.active \in ring.opaque /\ up
      /\ bound[ring.active] = "verified" => receipt \notin {0, proc}
      /\ bound' = [bound EXCEPT ![ring.active] = "active"]
      /\ candidates' = [candidates EXCEPT ![ring.active] =
                          IF bound[ring.active] = "verified" THEN @ - 1 ELSE @]
  BY DEF PromoteCustody, At, KeyPhase, MayRetireFile, Proceed
<1>2. /\ ring.active \in Keys /\ ring.active <= drawn /\ drawn \in Nat
      /\ ring.active \in Nat /\ disk.active \in Keys
      /\ bound \in [Keys -> {"none", "verified", "active"}]
      /\ candidates \in [Keys -> 0 .. 2]
  BY LinkFacts, SoundKeys, Numbers DEF KeyInv, Known, Sound, TypeOK, KeyringTypeOK
<1>3. (up => Rooted(ring)') /\ (~torn => Rooted(disk)')
  BY <1>1, <1>2 DEF KeyInv, Rooted, Loads, Known, Sound
<1>4. torn => disk.active # ring.active
  BY <1>1, LinkFacts DEF KeyInv, Known, Sound
<1>5. KeyInv'
  <2>1. \A k \in Keys : k > drawn' => k \notin keyFiles' /\ bound'[k] = "none"
    BY <1>1, <1>2 DEF KeyInv
  <2>2. torn => disk.active \notin keyFiles' /\ bound'[disk.active] = "none"
    BY <1>1, <1>2, <1>4 DEF KeyInv
  <2>3. \A k \in Keys : bound'[k] = "verified" => candidates'[k] > 0
    BY <1>1, <1>2 DEF KeyInv
  <2> QED  BY <1>1, <1>2, <1>3, <2>1, <2>2, <2>3, SameManifests
<1>6. ring.active \in keyFiles => switchedBy < proc
  <2>1. bound[ring.active] \in {"verified", "active"}
    BY <1>1 DEF KeyInv, Rooted, Loads, Known, Sound
  <2>2. switchedBy \in Nat /\ proc \in Nat /\ switchedBy <= proc
    BY RecoveryAssumption DEF TypeOK, RawInv
  <2> QED  BY <1>1, <2>1, <2>2 DEF RawInv, RawSafe
<1>7. torn \/ disk.active = ring.active
  BY LinkFacts
<1>8. RawInv'
  BY <1>1, <1>2, <1>6, <1>7 DEF RawInv, RawSafe, KeyInv
<1> QED  BY <1>5, <1>8

LEMMA UnlinkRawKeys ==
  ASSUME TypeOK, TodoInv, KeyInv, RawInv, KeyPhase, UnlinkRaw
  PROVE  KeyInv' /\ RawInv'
<1>1. /\ UNCHANGED <<disk, ring, bound, drawn, torn, receipt, switchedBy,
                     candidates, up, proc>>
      /\ ring.active \in ring.opaque /\ up
      /\ keyFiles' = keyFiles \ {ring.active}
  BY DEF UnlinkRaw, At, KeyPhase, Proceed, custodyVars
<1>2. drawn \in Nat /\ keyFiles' \subseteq keyFiles
  BY <1>1, Numbers DEF TypeOK, KeyringTypeOK
<1>3. ~torn => disk.opaque = ring.opaque
  BY <1>1, LinkFacts
<1>4. (up => Rooted(ring)') /\ (~torn => Rooted(disk)')
  BY <1>1, <1>3 DEF KeyInv, Rooted, Loads
<1>5. KeyInv'
  <2>1. \A k \in Keys : k > drawn' => k \notin keyFiles' /\ bound'[k] = "none"
    BY <1>1, <1>2 DEF KeyInv
  <2>2. torn => disk.active \notin keyFiles' /\ bound'[disk.active] = "none"
    BY <1>1, <1>2 DEF KeyInv
  <2>3. \A k \in Keys : bound'[k] = "verified" => candidates'[k] > 0
    BY <1>1 DEF KeyInv
  <2> QED  BY <1>1, <1>2, <1>4, <2>1, <2>2, <2>3, SameManifests
<1>6. RawInv'
  BY <1>1, <1>2 DEF RawInv, RawSafe
<1> QED  BY <1>5, <1>6

LEMMA UnlinkReceiptKeys ==
  ASSUME TypeOK, TodoInv, KeyInv, RawInv, KeyPhase, UnlinkReceipt
  PROVE  KeyInv' /\ RawInv'
<1>1. /\ UNCHANGED <<disk, ring, keyFiles, bound, drawn, torn, switchedBy,
                     candidates, up, proc>>
      /\ ring.active \in ring.opaque /\ up /\ bound[ring.active] = "active"
  BY DEF UnlinkReceipt, At, KeyPhase, Proceed, keyringVars
<1>2. drawn \in Nat
  BY Numbers DEF TypeOK, KeyringTypeOK
<1>3. torn \/ disk.active = ring.active
  BY LinkFacts
<1>4. (up => Rooted(ring)') /\ (~torn => Rooted(disk)')
  BY <1>1, <1>3 DEF KeyInv, Rooted, Loads
<1>5. KeyInv'
  <2>1. \A k \in Keys : k > drawn' => k \notin keyFiles' /\ bound'[k] = "none"
    BY <1>1 DEF KeyInv
  <2>2. torn => disk.active \notin keyFiles' /\ bound'[disk.active] = "none"
    BY <1>1 DEF KeyInv
  <2>3. \A k \in Keys : bound'[k] = "verified" => candidates'[k] > 0
    BY <1>1 DEF KeyInv
  <2> QED  BY <1>1, <1>2, <1>4, <2>1, <2>2, <2>3, SameManifests
<1>6. RawInv'
  BY <1>1, <1>3 DEF RawInv, RawSafe, KeyInv
<1> QED  BY <1>5, <1>6

LEMMA RotateKeys ==
  ASSUME TypeOK, TodoInv, KeyInv, RawInv, RotateKey
  PROVE  KeyInv' /\ RawInv'
<1>1. UNCHANGED <<disk, ring, torn, receipt, switchedBy, candidates, up, proc>>
  BY DEF RotateKey, Begin, custodyVars
<1>2. CASE UNCHANGED <<keyFiles, bound, drawn>>
  BY <1>1, <1>2, QuietKeys
<1>3. CASE DrawKey
  <2>1. /\ drawn \in Nat /\ drawn' = drawn + 1 /\ drawn + 1 \in Keys
        /\ bound \in [Keys -> {"none", "verified", "active"}]
        /\ ring.active \in Keys /\ disk.active \in Keys
        /\ ring.active # drawn + 1 /\ disk.active # drawn + 1
    <3>1. drawn + 1 \in Keys /\ drawn' = drawn + 1
      BY <1>3, KeyTypes, KeyringAssumption DEF DrawKey, Keys
    <3>2. ring.active <= drawn /\ disk.active <= drawn
      BY DEF KeyInv, Known, Sound
    <3>3. ring.active \in Keys /\ disk.active \in Keys
      BY LinkFacts, SoundKeys
    <3> QED  BY <3>1, <3>2, <3>3, KeyTypes, Numbers
  <2>2. \/ bound' = [bound EXCEPT ![drawn + 1] = "active"] /\ UNCHANGED keyFiles
        \/ keyFiles' = keyFiles \cup {drawn + 1} /\ UNCHANGED bound
    BY <1>3 DEF DrawKey
  <2>3. (up => Rooted(ring)') /\ (~torn => Rooted(disk)')
    <3>1. \A m : m.held \subseteq Keys /\ Loads(m) => Loads(m)'
      BY <2>1, <2>2 DEF Loads
    <3>2. ring.held \subseteq Keys /\ disk.held \subseteq Keys
      BY LinkFacts, SoundKeys
    <3>3. (up => Loads(ring)') /\ (~torn => Loads(disk)')
      BY <1>1, <3>1, <3>2 DEF KeyInv, Rooted, Loads
    <3> QED  BY <1>1, <2>1, <2>2, <3>3 DEF KeyInv, Rooted
  <2>4. KeyInv'
    <3>1. \A k \in Keys : k > drawn' => k \notin keyFiles' /\ bound'[k] = "none"
      BY <2>1, <2>2, Numbers DEF KeyInv
    <3>2. torn => disk.active \notin keyFiles' /\ bound'[disk.active] = "none"
      BY <2>1, <2>2 DEF KeyInv
    <3>3. \A k \in Keys : bound'[k] = "verified" => candidates'[k] > 0
      BY <1>1, <2>1, <2>2 DEF KeyInv
    <3>4. ring.active \notin ring.opaque => bound'[ring.active] # "active"
      BY <2>1, <2>2 DEF KeyInv
    <3> QED  BY <1>1, <2>1, <2>3, <3>1, <3>2, <3>3, <3>4, SameManifests
  <2>5. RawInv'
    BY <1>1, <2>1, <2>2 DEF RawInv, RawSafe
  <2> QED  BY <2>4, <2>5
<1> QED  BY <1>2, <1>3 DEF RotateKey

LEMMA UnlinkKeys ==
  ASSUME TypeOK, TodoInv, KeyInv, RawInv, KeyPhase, Unlink
  PROVE  KeyInv' /\ RawInv'
<1>1. /\ UNCHANGED <<disk, ring, drawn, torn, receipt, switchedBy, candidates,
                     up, proc>>
      /\ arg \in Keys /\ arg \notin ring.held /\ arg \notin disk.held
      /\ \/ bound' = [bound EXCEPT ![arg] = "none"] /\ UNCHANGED keyFiles
         \/ keyFiles' = keyFiles \ {arg} /\ UNCHANGED bound
  BY DEF Unlink, RemoveKey, At, KeyPhase, Proceed, custodyVars
<1>2. /\ drawn \in Nat /\ bound \in [Keys -> {"none", "verified", "active"}]
      /\ ring.active \in ring.held /\ disk.active \in disk.held
      /\ ring.held \subseteq Keys /\ disk.held \subseteq Keys
  BY Numbers, LinkFacts, SoundKeys DEF TypeOK, KeyringTypeOK, Sound
<1>3. (up => Rooted(ring)') /\ (~torn => Rooted(disk)')
  BY <1>1, <1>2 DEF KeyInv, Rooted, Loads
<1>4. KeyInv'
  <2>1. \A k \in Keys : k > drawn' => k \notin keyFiles' /\ bound'[k] = "none"
    BY <1>1, <1>2 DEF KeyInv
  <2>2. torn => disk.active \notin keyFiles' /\ bound'[disk.active] = "none"
    BY <1>1, <1>2 DEF KeyInv
  <2>3. \A k \in Keys : bound'[k] = "verified" => candidates'[k] > 0
    BY <1>1, <1>2 DEF KeyInv
  <2>4. ring.active \notin ring.opaque => bound'[ring.active] # "active"
    BY <1>1, <1>2 DEF KeyInv
  <2> QED  BY <1>1, <1>2, <1>3, <2>1, <2>2, <2>3, <2>4, SameManifests
<1>5. RawInv'
  BY <1>1, <1>2 DEF RawInv, RawSafe
<1> QED  BY <1>4, <1>5

\* A manifest that is published, and is then the one in memory too.
LEMMA Published ==
  ASSUME KeyInv, NEW m, disk' = m, ring' = m, torn' = FALSE, Known(m), Rooted(m),
         m.active \notin m.opaque => bound[m.active] # "active",
         UNCHANGED <<keyFiles, bound, drawn, receipt, candidates>>
  PROVE  KeyInv'
<1>1. \A n : n = m => Known(n)' /\ Rooted(n)'
  BY DEF Known, Rooted, Loads
<1>2. Known(disk)' /\ Known(ring)' /\ Rooted(ring)' /\ Rooted(disk)'
  BY <1>1 DEF Known, Rooted, Loads
<1>3. Link'
  BY DEF Link
<1> QED  BY <1>2, <1>3 DEF KeyInv

\* A manifest that is on disk only, since the write raised behind the rename.
LEMMA HalfPublished ==
  ASSUME KeyInv, up, NEW m, disk' = m, torn' = FALSE, Known(m), Rooted(m), Link',
         UNCHANGED <<ring, up, keyFiles, bound, drawn, receipt, candidates>>
  PROVE  KeyInv'
<1>1. \A n : n = m => Known(n)' /\ Rooted(n)'
  BY DEF Known, Rooted, Loads
<1>2. Known(disk)' /\ Rooted(disk)'
  BY <1>1 DEF Known, Rooted, Loads
<1>3. Known(ring)' /\ Rooted(ring)'
  BY DEF KeyInv, Known, Rooted, Loads
<1> QED  BY <1>2, <1>3 DEF KeyInv

LEMMA SwitchKeys ==
  ASSUME TypeOK, TodoInv, KeyInv, RawInv, KeyPhase, SwitchCustody
  PROVE  KeyInv' /\ RawInv'
<1> DEFINE m == WithCustody(ring)
<1>1. /\ UNCHANGED <<keyFiles, bound, drawn, receipt, candidates, up, proc>>
      /\ up /\ ring.rotation = "none" /\ ring.active \notin ring.opaque
      /\ bound[ring.active] = "verified" /\ receipt = proc /\ proc # 0
      /\ switchedBy' = IF disk' = disk THEN switchedBy ELSE proc
      /\ switchedBy \in Nat /\ proc \in Nat
  BY ProcTypes DEF SwitchCustody, At, KeyPhase, Proceed, Abandon
<1>2. /\ Sound(m) /\ m.held = ring.held /\ m.active = ring.active
      /\ m.rotation = "none" /\ m.opaque = ring.opaque \cup {ring.active}
      /\ Sound(ring)
  BY <1>1, LinkFacts, WithCustodyIs
<1>3. Known(m) /\ Rooted(m) /\ m # ring
  BY <1>1, <1>2 DEF KeyInv, Known, Rooted, Loads
<1>4. disk = m => switchedBy = proc
  BY <1>1, <1>2, <1>3, LinkFacts DEF KeyInv, Link, Rooted, Loads, Sound
<1> HIDE DEF m
<1>5. ASSUME disk' = m  PROVE switchedBy' = proc
  BY <1>1, <1>4, <1>5
<1>6. CASE disk' = m /\ ring' = m /\ torn' = FALSE
  <2>1. KeyInv'
    BY <1>1, <1>2, <1>3, <1>6, Published
  <2>2. RawInv'
    BY <1>1, <1>2, <1>5, <1>6 DEF RawInv, RawSafe
  <2> QED  BY <2>1, <2>2
<1>7. CASE disk' = m /\ disk' # disk /\ ring' = ring /\ torn' = FALSE
  <2>1. Link'
    BY <1>1, <1>5, <1>7 DEF Link, m
  <2>2. KeyInv'
    BY <1>1, <1>3, <1>7, <2>1, HalfPublished
  <2>3. RawInv'
    BY <1>1, <1>2, <1>5, <1>7 DEF RawInv, RawSafe
  <2> QED  BY <2>2, <2>3
<1>8. CASE disk' = disk /\ ring' = ring /\ torn' = torn
  <2>1. switchedBy' = switchedBy
    BY <1>1, <1>8
  <2> QED  BY <1>1, <1>8, <2>1, QuietKeys
<1>9. torn \in BOOLEAN
  BY DEF TypeOK, KeyringTypeOK
<1> QED
  BY <1>6, <1>7, <1>8, <1>9 DEF SwitchCustody, Publish, PublishFails, MayMend, m

LEMMA ActivateKeys ==
  ASSUME TypeOK, TodoInv, KeyInv, RawInv, KeyPhase, Activate
  PROVE  KeyInv' /\ RawInv'
<1> DEFINE m == Rotated(ring, drawn)
<1>1. /\ UNCHANGED <<drawn, receipt, candidates, switchedBy, up, proc>>
      /\ up /\ ring.rotation = "none"
      /\ drawn \notin ring.held /\ drawn \notin disk.held
      /\ IF ring.active \in ring.opaque
         THEN bound[drawn] = "active" /\ drawn \notin keyFiles
         ELSE bound[drawn] = "none" /\ drawn \in keyFiles
  BY DEF Activate, ActivateKey, ActivateKeyFails, At, KeyPhase, Proceed, Abandon,
         custodyVars
<1>2. /\ Sound(ring) /\ Sound(disk) /\ Sound(m)
      /\ m.held = ring.held \cup {drawn} /\ m.active = drawn
      /\ m.rotation = "migrating"
      /\ m.opaque = IF ring.active \in ring.opaque
                    THEN ring.opaque \cup {drawn} ELSE ring.opaque
  BY <1>1, KeyTypes, LinkFacts, RotatedIs
<1>3. drawn \notin ring.opaque
  BY <1>1, <1>2 DEF Sound
<1> HIDE DEF m
<1>4. CASE ActivateKey
  <2>1. disk' = m /\ ring' = m /\ torn' = FALSE /\ UNCHANGED <<keyFiles, bound>>
    BY <1>4 DEF ActivateKey, Publish, m
  <2>2. Known(m)
    BY <1>2, KeyTypes DEF KeyInv, Known
  <2>3. Rooted(m)
    BY <1>1, <1>2, <1>3 DEF KeyInv, Rooted, Loads
  <2>4. KeyInv'
    BY <1>1, <1>2, <1>3, <2>1, <2>2, <2>3, Published
  <2>5. RawInv'
    BY <1>1, <1>2, <1>3, <2>1 DEF RawInv, RawSafe
  <2> QED  BY <2>4, <2>5
<1>5. CASE ActivateKeyFails
  <2>1. /\ disk' \in {disk, m} /\ ring' = ring
        /\ keyFiles' = keyFiles \ {drawn}
        /\ bound' = [bound EXCEPT ![drawn] = "none"]
        /\ torn' = (torn \/ disk' = m)
    BY <1>5 DEF ActivateKeyFails, PublishFails, m
  <2>2. /\ drawn \in Keys /\ bound \in [Keys -> {"none", "verified", "active"}]
        /\ ring.held \subseteq Keys /\ disk.held \subseteq Keys
        /\ ring.active \in ring.held /\ disk.active \in disk.held
    BY <1>2, KeyTypes, SoundKeys DEF Sound
  <2>3. /\ ring.active # drawn /\ disk.active # drawn
        /\ \A k \in Keys \ {drawn} :
              bound'[k] = bound[k] /\ (k \in keyFiles' <=> k \in keyFiles)
        /\ bound'[drawn] = "none" /\ drawn \notin keyFiles'
    BY <1>1, <2>1, <2>2
  <2>4. Rooted(ring)'
    BY <1>1, <1>2, <2>1, <2>2, <2>3 DEF KeyInv, Rooted, Loads
  <2>5. /\ \A k \in Keys : k > drawn' => k \notin keyFiles' /\ bound'[k] = "none"
        /\ \A k \in Keys : bound'[k] = "verified" => candidates'[k] > 0
        /\ ring.active \notin ring.opaque => bound'[ring.active] # "active"
    BY <1>1, <2>2, <2>3 DEF KeyInv
  <2>6. RawSafe(ring)'
    BY <1>1, <2>1, <2>2, <2>3 DEF RawInv, RawSafe
  <2>7. CASE disk' = m
    <3>1. torn' = TRUE /\ disk.held # disk'.held
      BY <1>1, <1>2, <2>1, <2>7
    <3>2. Link'
      BY <1>1, <2>1, <2>2, <2>7 DEF Link, m
    <3>3. Known(disk)' /\ Known(ring)'
      BY <1>1, <1>2, <2>1, <2>7, KeyTypes DEF KeyInv, Known
    <3>4. KeyInv'
      BY <1>1, <1>2, <2>1, <2>3, <2>4, <2>5, <2>7, <3>1, <3>2, <3>3 DEF KeyInv
    <3>5. RawInv'
      BY <1>1, <1>2, <2>3, <2>6, <2>7 DEF RawInv, RawSafe
    <3> QED  BY <3>4, <3>5
  <2>8. CASE disk' = disk /\ disk' # m
    <3>1. torn' = torn
      BY <2>1, <2>8 DEF TypeOK, KeyringTypeOK
    <3>2. ~torn => Rooted(disk)'
      BY <1>1, <1>2, <2>1, <2>2, <2>3, <2>8 DEF KeyInv, Rooted, Loads
    <3>3. torn => disk.active \notin keyFiles' /\ bound'[disk.active] = "none"
      BY <2>2, <2>3 DEF KeyInv
    <3>4. drawn' \in Nat /\ drawn <= drawn' /\ UNCHANGED <<disk, ring>>
      BY <1>1, <2>1, <2>8, KeyTypes
    <3>5. KeyInv'
      BY <1>1, <2>4, <2>5, <3>1, <3>2, <3>3, <3>4, SameManifests
    <3>6. RawInv'
      BY <1>1, <2>2, <2>3, <2>6, <2>8 DEF RawInv, RawSafe
    <3> QED  BY <3>5, <3>6
  <2>9. disk = m => FALSE
    BY <1>1, <1>2
  <2> QED  BY <2>1, <2>7, <2>8, <2>9
<1> QED  BY <1>4, <1>5 DEF Activate

LEMMA VerifyKeys ==
  ASSUME TypeOK, TodoInv, KeyInv, RawInv, KeyPhase, VerifyRotation
  PROVE  KeyInv' /\ RawInv'
<1> DEFINE m == Verified(ring)
<1>1. /\ UNCHANGED <<keyFiles, bound, drawn, receipt, candidates, switchedBy,
                     up, proc>>
      /\ up /\ ring.rotation = "migrating"
  BY After, HeadTail DEF VerifyRotation, At, KeyPhase, TodoInv, Proceed, custodyVars
<1>2. /\ Sound(ring) /\ Sound(m) /\ m.held = ring.held /\ m.active = ring.active
      /\ m.rotation = "verified" /\ m.opaque = ring.opaque
  BY <1>1, LinkFacts, VerifiedIs
<1> HIDE DEF m
<1>3. Known(m) /\ Rooted(m)
  BY <1>1, <1>2 DEF KeyInv, Known, Rooted, Loads
<1>4. CASE disk' = m /\ ring' = m /\ torn' = FALSE
  <2>1. KeyInv'
    BY <1>1, <1>2, <1>3, <1>4, Published DEF KeyInv
  <2>2. RawInv'
    BY <1>1, <1>2, <1>4 DEF RawInv, RawSafe
  <2> QED  BY <2>1, <2>2
<1>5. CASE disk' = m /\ ring' = ring /\ torn' = FALSE
  <2>1. Link'
    BY <1>1, <1>5 DEF Link, m
  <2>2. KeyInv'
    BY <1>1, <1>3, <1>5, <2>1, HalfPublished
  <2>3. RawInv'
    BY <1>1, <1>2, <1>5 DEF RawInv, RawSafe
  <2> QED  BY <2>2, <2>3
<1>6. CASE disk' = disk /\ ring' = ring /\ torn' = torn
  BY <1>1, <1>6, QuietKeys
<1>7. torn \in BOOLEAN
  BY DEF TypeOK, KeyringTypeOK
<1> QED
  BY <1>4, <1>5, <1>6, <1>7 DEF VerifyRotation, Publish, PublishFails, MayMend, m

LEMMA RetireKeys ==
  ASSUME TypeOK, TodoInv, KeyInv, RawInv, RetirePreviousKey
  PROVE  KeyInv' /\ RawInv'
<1> DEFINE m == Retired(ring)
<1>1. /\ UNCHANGED <<keyFiles, bound, drawn, receipt, candidates, switchedBy,
                     up, proc>>
      /\ up /\ disk' = m /\ ring' = m /\ torn' = FALSE
  BY DEF RetirePreviousKey, RetireInManifest, Publish, Begin, Idle, custodyVars
<1>2. /\ Sound(ring) /\ Sound(m) /\ m.held = {ring.active} /\ m.active = ring.active
      /\ m.opaque = ring.opaque \cap {ring.active} /\ ring.active \in ring.held
  BY LinkFacts, RetiredIs DEF Sound
<1> HIDE DEF m
<1>3. Known(m) /\ Rooted(m)
  BY <1>1, <1>2 DEF KeyInv, Known, Rooted, Loads
<1>4. KeyInv'
  BY <1>1, <1>2, <1>3, Published DEF KeyInv
<1>5. RawInv'
  BY <1>1, <1>2 DEF RawInv, RawSafe
<1> QED  BY <1>4, <1>5

\* Whatever happened before, a profile that opens has the roots it names.
LEMMA ReopenKeys ==
  ASSUME TypeOK, TodoInv, KeyInv, RawInv, NEW p \in Nat, proc <= p, Reopen(p)
  PROVE  KeyInv' /\ RawInv'
<1>1. /\ UNCHANGED <<disk, keyFiles, bound, drawn, torn, receipt, candidates,
                     switchedBy>>
      /\ up /\ up' = Loads(disk) /\ ring' = disk /\ proc' = p
  BY DEF Reopen, custodyVars
<1>2. Sound(disk) /\ disk.active \in disk.held
  BY LinkFacts DEF Sound
<1>3. Loads(disk) => Rooted(disk)
  BY <1>2 DEF KeyInv, Rooted, Loads
<1>4. disk.active \notin disk.opaque => bound[disk.active] # "active"
  <2>1. CASE torn
    BY <2>1 DEF KeyInv
  <2>2. CASE ~torn
    <3>1. disk.active = ring.active
      BY <2>2, LinkFacts
    <3>2. ring.active \in ring.opaque => disk.opaque = ring.opaque
      BY <2>2, LinkFacts
    <3> QED  BY <3>1, <3>2 DEF KeyInv
  <2> QED  BY <2>1, <2>2
<1>5. KeyInv'
  <2>1. Known(disk)' /\ Known(ring)'
    BY <1>1 DEF KeyInv, Known
  <2>2. (up => Rooted(ring))' /\ (~torn => Rooted(disk))'
    BY <1>1, <1>3 DEF KeyInv, Rooted, Loads
  <2>3. Link'
    BY <1>1 DEF Link
  <2> QED  BY <1>1, <1>4, <2>1, <2>2, <2>3 DEF KeyInv
<1>6. RawInv'
  <2>1. switchedBy \in Nat /\ proc \in Nat
    BY RecoveryAssumption DEF TypeOK
  <2> QED  BY <1>1, <2>1 DEF RawInv, RawSafe
<1> QED  BY <1>5, <1>6

LEMMA KeyStep ==
  ASSUME TypeOK, TodoInv, KeyInv, RawInv, KeyPhase, Next
  PROVE  KeyInv' /\ RawInv'
<1>1. ASSUME UNCHANGED <<keyringVars, custodyVars, up, proc>>
      PROVE  KeyInv' /\ RawInv'
  BY <1>1, QuietKeys DEF keyringVars, custodyVars
<1>2. CASE \E a \in DOMAIN archives : MigrateCustody(a)
  <2>1. /\ UNCHANGED <<disk, ring, keyFiles, bound, drawn, torn, receipt,
                       switchedBy, up, proc>>
        /\ candidates' = [candidates EXCEPT ![ring.active] = @ + 1]
    BY <1>2 DEF MigrateCustody, PrepareCustody, Begin, keyringVars
  <2>2. candidates \in [Keys -> 0 .. 2]
    BY DEF TypeOK
  <2>3. \A k \in Keys : candidates[k] > 0 => candidates'[k] > 0
    BY <2>1, <2>2
  <2> QED  BY <2>1, <2>3, QuietKeys
<1>3. CASE \/ \E a \in DOMAIN archives : BackupVerify(a) \/ RestoreDrill(a)
           \/ QualifyArtifact \/ QualifyHost \/ HostExpires \/ Upgrade
  BY <1>1, <1>3 DEF BackupVerify, RestoreDrill, QualifyArtifact, QualifyHost,
                    HostExpires, Upgrade, procVars
<1>4. CASE RetireFileCustody
           \/ \E tier \in {"none", "local-best-effort"} : BackupCreate(tier)
  BY <1>1, <1>4 DEF RetireFileCustody, BackupCreate, Begin
<1>5. CASE Publication \/ AdvanceGeneration \/ RecordBackup \/ InvalidateRecovery
  BY <1>1, <1>5 DEF Publication, PublishArchive, AdvanceGeneration, RecordBackup,
                    InvalidateRecovery, Proceed, Abandon
<1>6. CASE StepFails
  BY <1>6, QuietKeys DEF StepFails, Abandon, custodyVars
<1>7. CASE Restart \/ CloseAndOpen
  <2>1. proc \in Nat
    BY ProcTypes
  <2>2. CASE Restart
    BY <2>1, <2>2, ReopenKeys DEF Restart
  <2>3. CASE CloseAndOpen
    BY <2>1, <2>3, ReopenKeys DEF CloseAndOpen
  <2> QED  BY <1>7, <2>2, <2>3
<1> QED
  BY <1>2, <1>3, <1>4, <1>5, <1>6, <1>7, DescribeKeys, ReceiptKeys, SwitchKeys,
     PromoteKeys, UnlinkRawKeys, UnlinkReceiptKeys, RotateKeys, ActivateKeys,
     VerifyKeys, RetireKeys, UnlinkKeys DEF Next

\* What a step of an operation leaves to the next one.
LEMMA KeyPhaseStep ==
  ASSUME TypeOK, TodoInv, KeyInv, RawInv, KeyPhase, BackupInv, Next
  PROVE  KeyPhase'
<1>1. ASSUME todo' = <<>>  PROVE KeyPhase'
  BY <1>1 DEF KeyPhase
<1>2. ASSUME UNCHANGED <<procVars, keyringVars, custodyVars, generation>>
      PROVE  KeyPhase'
  BY <1>2 DEF KeyPhase, procVars, keyringVars, custodyVars, MayRetireFile
<1>3. CASE \/ \E a \in DOMAIN archives : BackupVerify(a) \/ RestoreDrill(a)
           \/ QualifyArtifact \/ QualifyHost \/ HostExpires \/ Upgrade
  BY <1>2, <1>3 DEF BackupVerify, RestoreDrill, QualifyArtifact, QualifyHost,
                    HostExpires, Upgrade, backupVars
<1>4. CASE SwitchCustody \/ RecordBackup \/ VerifyRotation \/ Unlink \/ StepFails
           \/ Restart \/ CloseAndOpen
  <2>1. todo' = <<>>
    BY <1>4, After DEF SwitchCustody, RecordBackup, VerifyRotation, Unlink,
       StepFails, Restart, CloseAndOpen, Reopen, At, Proceed, Abandon, TodoInv
  <2> QED  BY <2>1, <1>1
<1>5. ASSUME NEW x \in {"publish", "publishNext", "advance", "record"},
             Head(todo') = x
      PROVE  KeyPhase'
  BY <1>5, HeadTail DEF KeyPhase
<1>6. ASSUME todo' = <<"invalidate">>  PROVE KeyPhase'
  BY <1>6, HeadTail DEF KeyPhase
<1>7. CASE \E tier \in {"none", "local-best-effort"} : BackupCreate(tier)
  <2>1. todo' \in {<<"publish", "record">>, <<"publishNext", "advance", "record">>}
    BY <1>7 DEF BackupCreate, Begin
  <2> QED  BY <2>1, <1>5, HeadTail
<1>8. CASE Publication \/ AdvanceGeneration
  <2>1. todo' \in {<<>>, <<"record">>, <<"advance", "record">>}
    BY <1>8, After DEF Publication, PublishArchive, AdvanceGeneration, At, Proceed,
       Abandon, TodoInv
  <2> QED  BY <2>1, <1>1, <1>5, HeadTail
<1>9. CASE \E a \in DOMAIN archives : MigrateCustody(a)
  <2>1. /\ todo' = <<"describe", "receipt", "switch">>
        /\ ring' = ring /\ ring.rotation = "none" /\ ring.active \notin ring.opaque
    BY <1>9 DEF MigrateCustody, Begin, CustodySteps, InCustody, keyringVars
  <2>2. Head(todo') = "describe"
    BY <2>1, HeadTail
  <2> QED  BY <2>1, <2>2, HeadTail DEF KeyPhase
<1>10. CASE DescribeCustody
  <2>1. CASE Abandon
    BY <1>1, <2>1 DEF Abandon
  <2>2. CASE bound' = [bound EXCEPT ![ring.active] = "verified"] /\ Proceed
    <3>1. /\ todo' = <<"receipt", "switch">> /\ ring' = ring
          /\ ring.rotation = "none" /\ ring.active \notin ring.opaque
      BY <1>10, <2>2, After DEF DescribeCustody, At, Proceed, TodoInv, KeyPhase
    <3>2. bound'[ring.active] = "verified"
      BY <2>2, KeyTypes, LinkFacts, SoundKeys
    <3>3. Head(todo') = "receipt"
      BY <3>1, HeadTail
    <3> QED  BY <3>1, <3>2, <3>3, HeadTail DEF KeyPhase
  <2> QED  BY <1>10, <2>1, <2>2 DEF DescribeCustody
<1>11. CASE WriteReceipt
  <2>1. /\ todo' = <<"switch">> /\ UNCHANGED <<ring, bound, proc>> /\ receipt' = proc
        /\ ring.rotation = "none" /\ ring.active \notin ring.opaque
        /\ bound[ring.active] = "verified"
    BY <1>11, After DEF WriteReceipt, At, Proceed, TodoInv, KeyPhase, keyringVars
  <2>2. Head(todo') = "switch"
    BY <2>1, HeadTail
  <2> QED  BY <2>1, <2>2, HeadTail DEF KeyPhase
<1>12. CASE RetireFileCustody
  <2>1. /\ todo' = <<"promote", "unraw", "unreceipt", "invalidate">>
        /\ UNCHANGED <<ring, bound, receipt, proc>>
        /\ ring.active \in ring.opaque /\ MayRetireFile
    BY <1>12 DEF RetireFileCustody, RetireFileSteps, Begin, InCustody, keyringVars,
                 custodyVars
  <2>2. Head(todo') = "promote" /\ MayRetireFile'
    BY <2>1, HeadTail DEF MayRetireFile
  <2> QED  BY <2>1, <2>2, HeadTail DEF KeyPhase
<1>13. CASE PromoteCustody
  <2>1. /\ todo' = <<"unraw", "unreceipt", "invalidate">>
        /\ UNCHANGED ring /\ ring.active \in ring.opaque
        /\ bound' = [bound EXCEPT ![ring.active] = "active"]
    BY <1>13, After DEF PromoteCustody, At, Proceed, TodoInv, KeyPhase
  <2>2. bound'[ring.active] = "active"
    BY <2>1, KeyTypes, LinkFacts, SoundKeys
  <2>3. Head(todo') = "unraw"
    BY <2>1, HeadTail
  <2> QED  BY <2>1, <2>2, <2>3, HeadTail DEF KeyPhase
<1>14. CASE UnlinkRaw
  <2>1. /\ todo' = <<"unreceipt", "invalidate">> /\ UNCHANGED <<ring, bound>>
        /\ ring.active \in ring.opaque /\ bound[ring.active] = "active"
    BY <1>14, After DEF UnlinkRaw, At, Proceed, TodoInv, KeyPhase
  <2>2. Head(todo') = "unreceipt"
    BY <2>1, HeadTail
  <2> QED  BY <2>1, <2>2, HeadTail DEF KeyPhase
<1>15. CASE UnlinkReceipt
  BY <1>15, <1>6, After DEF UnlinkReceipt, At, Proceed, TodoInv
<1>16. ASSUME todo' \in {<<"invalidate", "verify">>, <<"verify">>},
              ring'.rotation = "migrating"
       PROVE  KeyPhase'
  <2>1. Head(todo') \in {"invalidate", "verify"}
    BY <1>16, HeadTail
  <2> QED  BY <1>16, <2>1 DEF KeyPhase
<1>17. CASE InvalidateRecovery
  <2>1. UNCHANGED ring
    BY <1>17 DEF InvalidateRecovery, keyringVars
  <2>2. \/ todo' = <<>>
        \/ todo = <<"invalidate", "verify">> /\ todo' = <<"verify">>
    BY <1>17, After DEF InvalidateRecovery, At, Proceed, TodoInv
  <2>3. todo = <<"invalidate", "verify">> => ring.rotation = "migrating"
    BY HeadTail DEF KeyPhase
  <2> QED  BY <2>1, <2>2, <2>3, <1>1, <1>16
<1>18. CASE RotateKey
  <2>1. CASE ring.rotation = "migrating" /\ todo' = <<"invalidate", "verify">>
    BY <1>16, <1>18, <2>1 DEF RotateKey
  <2>2. CASE /\ ring.rotation = "none" /\ DrawKey
             /\ todo' = <<"activate", "invalidate", "verify">>
    <3>1. /\ UNCHANGED <<disk, ring, generation>> /\ drawn' = drawn + 1
          /\ drawn + 1 \in Keys /\ drawn \in Nat
      BY <1>18, <2>2, KeyTypes, KeyringAssumption
         DEF RotateKey, DrawKey, Keys, backupVars
    <3>2. drawn + 1 \notin ring.held /\ drawn + 1 \notin disk.held
      BY <3>1, Numbers DEF KeyInv, Known
    <3>3. drawn + 1 > drawn
      BY <3>1
    <3>4. drawn + 1 \notin keyFiles /\ bound[drawn + 1] = "none"
      BY <3>1, <3>3 DEF KeyInv
    <3>5. IF ring.active \in ring.opaque
          THEN bound'[drawn'] = "active" /\ drawn' \notin keyFiles'
          ELSE bound'[drawn'] = "none" /\ drawn' \in keyFiles'
      BY <2>2, <3>1, <3>4, KeyTypes DEF DrawKey
    <3>6. Head(todo') = "activate"
      BY <2>2, HeadTail
    <3>7. generation'[drawn'] = 0
      BY <3>1, <3>3 DEF BackupInv
    <3> QED  BY <2>2, <3>1, <3>2, <3>5, <3>6, <3>7, HeadTail DEF KeyPhase
  <2> QED  BY <1>18, <2>1, <2>2 DEF RotateKey, Begin
<1>19. CASE Activate
  <2>1. CASE Abandon
    BY <1>1, <2>1 DEF Abandon
  <2>2. CASE ActivateKey /\ Proceed
    <3>1. ring' = Rotated(ring, drawn) /\ todo' = <<"invalidate", "verify">>
      BY <1>19, <2>2, After DEF Activate, ActivateKey, Publish, At, Proceed, TodoInv
    <3>2. ring.rotation = "none" /\ drawn \notin ring.held /\ drawn \in Keys
      BY <1>19, KeyTypes DEF Activate, At, KeyPhase
    <3>3. ring'.rotation = "migrating"
      BY <3>1, <3>2, LinkFacts, RotatedIs
    <3> QED  BY <3>1, <3>3, <1>16
  <2> QED  BY <1>19, <2>1, <2>2 DEF Activate
<1>20. CASE RetirePreviousKey
  <2>1. /\ ring' = Retired(ring) /\ disk' = Retired(ring)
        /\ ring.rotation = "verified" /\ arg' = Source(ring)
        /\ todo' \in {<<"delete">>, <<"unlink">>}
    BY <1>20 DEF RetirePreviousKey, RetireInManifest, Publish, Begin
  <2>2. arg' \in Keys /\ arg' \notin ring'.held /\ arg' \notin disk'.held
    BY <2>1, LinkFacts, SourceIs, RetiredIs
  <2>3. Head(todo') \in {"delete", "unlink"}
    BY <2>1, HeadTail
  <2> QED  BY <2>1, <2>2, <2>3, HeadTail DEF KeyPhase
<1> QED
  BY <1>3, <1>4, <1>7, <1>8, <1>9, <1>10, <1>11, <1>12, <1>13, <1>14, <1>15,
     <1>17, <1>18, <1>19, <1>20 DEF Next

-----------------------------------------------------------------------------
(* Archives and the generation of the device *)

\* t is s but for the state of the archive i.
Marks(s, t, i, v) ==
  /\ t \in Seq(Archives) /\ Len(t) = Len(s) /\ DOMAIN t = DOMAIN s
  /\ \A j \in DOMAIN s : j # i => t[j] = s[j]
  /\ t[i].state = v
  /\ \A j \in DOMAIN s :
       /\ t[j].key = s[j].key /\ t[j].generation = s[j].generation
       /\ t[j].artifact = s[j].artifact /\ t[j].host = s[j].host
       /\ t[j].keyring = s[j].keyring /\ t[j].raw = s[j].raw

LEMMA Marked ==
  ASSUME NEW s \in Seq(Archives), NEW i \in DOMAIN s,
         NEW v \in {"published", "advanced", "recorded"}, NEW t,
         t = [s EXCEPT ![i].state = v]
  PROVE  Marks(s, t, i, v)
<1>1. s[i] \in Archives
  OBVIOUS
<1>2. t[i] = [s[i] EXCEPT !.state = v] /\ DOMAIN t = DOMAIN s /\ Len(t) = Len(s)
  OBVIOUS
<1>3. /\ t[i] \in Archives /\ t[i].state = v
      /\ t[i].key = s[i].key /\ t[i].generation = s[i].generation
      /\ t[i].artifact = s[i].artifact /\ t[i].host = s[i].host
      /\ t[i].keyring = s[i].keyring /\ t[i].raw = s[i].raw
  BY <1>1, <1>2 DEF Archives
<1>4. \A j \in DOMAIN s : j # i => t[j] = s[j]
  OBVIOUS
<1>5. t \in Seq(Archives)
  BY <1>2, <1>3, <1>4
<1> QED  BY <1>2, <1>3, <1>4, <1>5 DEF Marks

\* What create puts in an archive.
LEMMA ArchiveIs ==
  ASSUME TypeOK, KeyInv, NEW gen \in Nat
  PROVE  /\ Archive(gen) \in Archives
         /\ Archive(gen).key = ring.active /\ Archive(gen).generation = gen
         /\ Archive(gen).keyring = disk /\ Archive(gen).state = "published"
<1>1. ring.active \in Keys /\ disk \in Manifest
  BY LinkFacts, SoundKeys DEF Sound
<1>2. ArtifactId \in 0 .. MaxArtifacts
  <2>1. evidence.artifact \in 0 .. MaxArtifacts
    BY DEF TypeOK
  <2> QED  BY <2>1, RecoveryAssumption DEF ArtifactId
<1>3. HostId(ring) \in 0 .. MaxHosts
  <2>1. evidence.host.id \in 0 .. MaxHosts
    BY DEF TypeOK
  <2> QED  BY <2>1, RecoveryAssumption DEF HostId
<1>4. keyFiles \cap disk.held \subseteq Keys
  BY KeyTypes
<1> QED  BY <1>1, <1>2, <1>3, <1>4 DEF Archive, Archives

\* The manifest that an archive takes from the disk holds no root but its own.
LEMMA OwnRoot ==
  ASSUME KeyInv, ring.rotation = "none", disk.active = ring.active
  PROVE  disk.held = {ring.active}
<1>1. Sound(ring) /\ Sound(disk)
  BY LinkFacts
<1>2. CASE ring = disk
  BY <1>1, <1>2 DEF Sound
<1>3. CASE \E k \in Keys \ ring.held : disk = Rotated(ring, k)
  <2>1. PICK k \in Keys \ ring.held : disk = Rotated(ring, k)
    BY <1>3
  <2>2. disk.active = k
    BY <1>1, <2>1, RotatedIs
  <2> QED  BY <1>1, <2>2 DEF Sound
<1>4. CASE disk = WithCustody(ring)
  BY <1>1, <1>4, WithCustodyIs DEF Sound
<1> QED  BY <1>2, <1>3, <1>4 DEF KeyInv, Link

\* A step that takes no backup and does not advance the device.
LEMMA QuietBackups ==
  ASSUME TypeOK, BackupInv, UNCHANGED <<archives, generation>>,
         drawn' \in Nat, drawn <= drawn', Uncounted(ring)', Uncounted(disk)'
  PROVE  BackupInv'
<1>1. \A a : Kept(a) => Kept(a)'
  BY DEF Kept, WellFormed
<1>2. \A a, b : Increasing(a, b) => Increasing(a, b)'
  BY DEF Increasing
<1>3. \A k \in Keys : k > drawn' => k > drawn
  BY KeyTypes, Numbers
<1> QED  BY <1>1, <1>2, <1>3 DEF BackupInv

LEMMA BackupStep ==
  ASSUME TypeOK, TodoInv, KeyInv, KeyPhase, BackupInv, BackupPhase, Next
  PROVE  BackupInv'
<1>1. ASSUME UNCHANGED <<disk, ring, drawn, archives, generation>>
      PROVE  BackupInv'
  BY <1>1, KeyTypes, QuietBackups DEF BackupInv, Uncounted
<1>2. ASSUME NEW m, disk' \in {disk, ring, m}, ring' \in {disk, ring, m},
             m.active \notin m.opaque => generation[m.active] = 0,
             UNCHANGED <<archives, generation, drawn>>
      PROVE  BackupInv'
  BY <1>2, KeyTypes, QuietBackups DEF BackupInv, Uncounted
<1>3. CASE \/ \E a \in DOMAIN archives : MigrateCustody(a) \/ BackupVerify(a)
           \/ RetireFileCustody \/ QualifyArtifact \/ QualifyHost \/ HostExpires
           \/ Upgrade
           \/ WriteReceipt \/ UnlinkReceipt \/ InvalidateRecovery
  BY <1>1, <1>3 DEF MigrateCustody, BackupVerify, RetireFileCustody,
     QualifyArtifact, QualifyHost, HostExpires, Upgrade, WriteReceipt,
     UnlinkReceipt, InvalidateRecovery, keyringVars, backupVars
<1>4. CASE \/ \E a \in DOMAIN archives : RestoreDrill(a)
           \/ \E tier \in {"none", "local-best-effort"} : BackupCreate(tier)
           \/ DescribeCustody \/ PromoteCustody \/ UnlinkRaw \/ Unlink \/ StepFails
  BY <1>1, <1>4 DEF RestoreDrill, BackupCreate, DescribeCustody, PromoteCustody,
     UnlinkRaw, Unlink, RemoveKey, StepFails, keyringVars, backupVars
<1>5. CASE RotateKey
  <2>1. UNCHANGED <<disk, ring, archives, generation>>
    BY <1>5 DEF RotateKey, backupVars
  <2>2. drawn' \in Nat /\ drawn <= drawn'
    BY <1>5, KeyTypes DEF RotateKey, DrawKey
  <2> QED  BY <2>1, <2>2, QuietBackups DEF BackupInv, Uncounted
<1>6. CASE SwitchCustody
  <2>1. /\ disk' \in {disk, WithCustody(ring)} /\ ring' \in {ring, WithCustody(ring)}
        /\ UNCHANGED <<archives, generation, drawn>>
    BY <1>6 DEF SwitchCustody, Publish, PublishFails, backupVars
  <2>2. WithCustody(ring).active \in WithCustody(ring).opaque
    BY LinkFacts, WithCustodyIs
  <2> QED  BY <2>1, <2>2, <1>2
<1>7. CASE Activate
  <2> DEFINE m == Rotated(ring, drawn)
  <2>1. /\ disk' \in {disk, m} /\ ring' \in {ring, m}
        /\ UNCHANGED <<archives, generation, drawn>>
    BY <1>7 DEF Activate, ActivateKey, ActivateKeyFails, Publish, PublishFails,
       backupVars
  <2>2. ring.rotation = "none" /\ drawn \notin ring.held /\ generation[drawn] = 0
    BY <1>7 DEF Activate, At, KeyPhase
  <2>3. m.active = drawn
    BY <2>2, LinkFacts, RotatedIs, KeyTypes
  <2> HIDE DEF m
  <2> QED  BY <2>1, <2>2, <2>3, <1>2
<1>8. CASE VerifyRotation
  <2> DEFINE m == Verified(ring)
  <2>1. /\ disk' \in {disk, m} /\ ring' \in {ring, m}
        /\ UNCHANGED <<archives, generation, drawn>>
    BY <1>8 DEF VerifyRotation, Publish, PublishFails, backupVars
  <2>2. ring.rotation = "migrating"
    BY <1>8, After, HeadTail DEF VerifyRotation, At, TodoInv, KeyPhase
  <2>3. m.active = ring.active /\ m.opaque = ring.opaque
    BY <2>2, LinkFacts, VerifiedIs
  <2> HIDE DEF m
  <2>4. m.active \notin m.opaque => generation[m.active] = 0
    BY <2>3 DEF BackupInv, Uncounted
  <2> QED  BY <2>1, <2>4, <1>2
<1>9. CASE RetirePreviousKey
  <2> DEFINE m == Retired(ring)
  <2>1. disk' = m /\ ring' = m /\ UNCHANGED <<archives, generation, drawn>>
    BY <1>9 DEF RetirePreviousKey, RetireInManifest, Publish, backupVars
  <2>2. m.active = ring.active /\ m.opaque = ring.opaque \cap {ring.active}
    BY LinkFacts, RetiredIs
  <2> HIDE DEF m
  <2>3. m.active \notin m.opaque => generation[m.active] = 0
    BY <2>2 DEF BackupInv, Uncounted
  <2> QED  BY <2>1, <2>3, <1>2
<1>10. CASE Restart \/ CloseAndOpen
  <2>1. disk' = disk /\ ring' = disk /\ UNCHANGED <<archives, generation, drawn>>
    BY <1>10 DEF Restart, CloseAndOpen, Reopen, backupVars
  <2> QED  BY <2>1, KeyTypes, QuietBackups DEF BackupInv, Uncounted
<1>11. CASE Publication
  <2>1. CASE UNCHANGED archives
    BY <2>1, <1>1, <1>11 DEF Publication, PublishArchive, keyringVars
  <2>2. CASE archives' # archives
    <3>1. PICK gen \in Nat : /\ WellFormed(Archive(gen))
                             /\ archives' = Append(archives, Archive(gen))
      <4>1. counter \in Nat /\ NextGeneration \in Nat
        BY LinkFacts, SoundKeys DEF TypeOK, NextGeneration
      <4> QED  BY <1>11, <2>2, <4>1 DEF Publication, PublishArchive
    <3> DEFINE n == Archive(gen)
    <3>2. /\ n \in Archives /\ n.key = ring.active /\ n.keyring = disk
          /\ n.state = "published"
      BY ArchiveIs
    <3>3. UNCHANGED <<disk, ring, drawn, generation>> /\ ring.rotation = "none"
      BY <1>11 DEF Publication, PublishArchive, At, BackupPhase, keyringVars
    <3>4. WellFormed(n)
      BY <3>1
    <3> HIDE DEF n
    <3>5. /\ archives' \in Seq(Archives) /\ Len(archives') = Len(archives) + 1
          /\ \A a \in DOMAIN archives : archives'[a] = archives[a]
          /\ archives'[Len(archives) + 1] = n
          /\ DOMAIN archives = 1 .. Len(archives)
          /\ DOMAIN archives' = 1 .. Len(archives) + 1 /\ Len(archives) \in Nat
      BY <3>1, <3>2 DEF BackupInv, n
    <3>6. \A a \in DOMAIN archives' : Kept(a)'
      <4>1. TAKE a \in DOMAIN archives'
      <4>2. CASE a = Len(archives) + 1
        BY <3>2, <3>3, <3>4, <3>5, <4>2, OwnRoot DEF Kept, WellFormed
      <4>3. CASE a \in DOMAIN archives
        BY <3>3, <3>5, <4>3 DEF BackupInv, Kept, WellFormed
      <4> QED  BY <3>5, <4>2, <4>3
    <3>7. \A a, b \in DOMAIN archives' : Increasing(a, b)'
      <4>1. TAKE a, b \in DOMAIN archives'
      <4>2. CASE a = Len(archives) + 1 \/ b = Len(archives) + 1
        BY <3>2, <3>5, <4>2 DEF Increasing
      <4>3. CASE a \in DOMAIN archives /\ b \in DOMAIN archives
        BY <3>5, <4>3 DEF BackupInv, Increasing
      <4> QED  BY <3>5, <4>2, <4>3
    <3>8. Uncounted(ring)' /\ Uncounted(disk)'
      BY <3>3 DEF BackupInv, Uncounted
    <3> QED  BY <3>3, <3>5, <3>6, <3>7, <3>8 DEF BackupInv
  <2> QED  BY <2>1, <2>2
<1>12. CASE AdvanceGeneration
  <2>1. CASE UNCHANGED <<generation, archives>>
    BY <2>1, <1>1, <1>12 DEF AdvanceGeneration, keyringVars
  <2>2. CASE /\ generation' = [generation EXCEPT ![ring.active] =
                                 archives[arg].generation]
             /\ archives' = [archives EXCEPT ![arg].state = "advanced"]
    <3>1. /\ arg = Len(archives) /\ arg > 0 /\ ring.active \in ring.opaque
          /\ archives[arg].key = ring.active
          /\ archives[arg].generation = generation[ring.active] + 1
          /\ UNCHANGED <<disk, ring, drawn>> /\ up
      BY <1>12, HeadTail DEF AdvanceGeneration, At, BackupPhase, keyringVars
    <3>2. /\ archives \in Seq(Archives) /\ arg \in DOMAIN archives
          /\ DOMAIN archives = 1 .. Len(archives) /\ Len(archives) \in Nat
      BY <3>1 DEF BackupInv
    <3>3. /\ archives' \in Seq(Archives) /\ DOMAIN archives' = DOMAIN archives
          /\ \A j \in DOMAIN archives : j # arg => archives'[j] = archives[j]
          /\ \A j \in DOMAIN archives :
               /\ archives'[j].key = archives[j].key
               /\ archives'[j].generation = archives[j].generation
               /\ archives'[j].artifact = archives[j].artifact
               /\ archives'[j].host = archives[j].host
               /\ archives'[j].keyring = archives[j].keyring
      <4>1. Marks(archives, archives', arg, "advanced")
        BY <2>2, <3>2, Marked
      <4> QED  BY <4>1 DEF Marks
    <3>4. /\ generation \in [Keys -> Nat] /\ ring.active \in Keys
          /\ \A j \in DOMAIN archives :
               archives[j].key \in Keys /\ archives[j].generation \in Nat
      BY <3>2, LinkFacts, SoundKeys DEF TypeOK, Archives
    <3>5. /\ generation'[ring.active] = generation[ring.active] + 1
          /\ \A k \in Keys : generation[k] <= generation'[k]
          /\ \A k \in Keys \ {ring.active} : generation'[k] = generation[k]
      BY <2>2, <3>1, <3>4
    <3>6. \A a \in DOMAIN archives' : Kept(a)'
      <4>1. TAKE a \in DOMAIN archives'
      <4>2. Kept(a)
        BY <3>3 DEF BackupInv
      <4>3. WellFormed(archives'[a])
        BY <3>3, <4>2 DEF Kept, WellFormed
      <4>4. archives'[a].keyring.active = archives'[a].key =>
              archives'[a].keyring.held = {archives'[a].key}
        BY <3>3, <4>2 DEF Kept
      <4>5. archives'[a].state # "published" =>
              archives'[a].generation <= generation'[archives'[a].key]
        <5>1. CASE a = arg
          BY <3>1, <3>3, <3>4, <3>5, <5>1
        <5>2. CASE a # arg
          <6>1. /\ archives'[a] = archives[a] /\ archives[a].key \in Keys
                /\ archives[a].generation \in Nat
            BY <3>3, <3>4, <5>2
          <6>2. /\ generation[archives[a].key] \in Nat
                /\ generation'[archives[a].key] \in Nat
                /\ generation[archives[a].key] <= generation'[archives[a].key]
            BY <3>4, <3>5, <6>1
          <6> QED  BY <4>2, <6>1, <6>2 DEF Kept
        <5> QED  BY <5>1, <5>2
      <4> QED  BY <4>3, <4>4, <4>5 DEF Kept, WellFormed
    <3>7. \A a, b \in DOMAIN archives' : Increasing(a, b)'
      <4>1. SUFFICES ASSUME NEW a \in DOMAIN archives, NEW b \in DOMAIN archives,
                            a < b, archives[a].key = archives[b].key,
                            archives'[a].state # "published",
                            archives'[b].state # "published"
                     PROVE  archives[a].generation < archives[b].generation
        BY <3>3 DEF Increasing
      <4>2. a # arg
        BY <3>1, <3>2, <4>1
      <4>3. archives[a].state # "published" /\ Kept(a)
        BY <3>3, <4>1, <4>2 DEF BackupInv
      <4>4. CASE b = arg
        BY <3>1, <3>4, <4>1, <4>3, <4>4 DEF Kept
      <4>5. CASE b # arg
        BY <3>3, <4>1, <4>3, <4>5 DEF BackupInv, Increasing
      <4> QED  BY <4>4, <4>5
    <3>8. Uncounted(ring)' /\ Uncounted(disk)'
      <4>1. disk.active = ring.active => disk.active \in disk.opaque
        <5>1. CASE torn
          BY <3>1, <5>1, LinkFacts DEF Sound
        <5>2. CASE ~torn
          BY <3>1, <5>2, LinkFacts
        <5> QED  BY <5>1, <5>2
      <4>2. disk.active \in Keys
        BY LinkFacts, SoundKeys
      <4> QED  BY <3>1, <3>4, <3>5, <4>1, <4>2 DEF BackupInv, Uncounted
    <3>9. \A k \in Keys : k > drawn' => generation'[k] = 0
      <4>1. ring.active <= drawn
        BY DEF KeyInv, Known, Sound
      <4> QED  BY <3>1, <3>4, <3>5, <4>1, Numbers, KeyTypes DEF BackupInv
    <3> QED  BY <3>3, <3>6, <3>7, <3>8, <3>9 DEF BackupInv
  <2> QED  BY <1>12, <2>1, <2>2 DEF AdvanceGeneration
<1>13. CASE RecordBackup
  <2>1. CASE UNCHANGED archives
    BY <2>1, <1>1, <1>13 DEF RecordBackup, keyringVars
  <2>2. CASE archives' = [archives EXCEPT ![arg].state =
                            IF @ = "advanced" THEN "recorded" ELSE @]
    <3>1. /\ arg \in DOMAIN archives /\ archives \in Seq(Archives)
          /\ UNCHANGED <<disk, ring, drawn, generation>>
      BY <1>13, HeadTail DEF RecordBackup, At, BackupPhase, keyringVars, BackupInv
    <3> DEFINE v == IF archives[arg].state = "advanced" THEN "recorded"
                    ELSE archives[arg].state
    <3>2. archives' = [archives EXCEPT ![arg].state = v]
      BY <2>2, <3>1
    <3>3. v \in {"published", "advanced", "recorded"}
          /\ (v = "published" <=> archives[arg].state = "published")
      <4>1. archives[arg] \in Archives
        BY <3>1
      <4>2. archives[arg].state \in {"published", "advanced", "recorded"}
        BY <4>1 DEF Archives
      <4> QED  BY <4>2
    <3> HIDE DEF v
    <3>4. /\ archives' \in Seq(Archives) /\ DOMAIN archives' = DOMAIN archives
          /\ \A j \in DOMAIN archives : j # arg => archives'[j] = archives[j]
          /\ archives'[arg].state = v
          /\ \A j \in DOMAIN archives :
               /\ archives'[j].key = archives[j].key
               /\ archives'[j].generation = archives[j].generation
               /\ archives'[j].artifact = archives[j].artifact
               /\ archives'[j].host = archives[j].host
               /\ archives'[j].keyring = archives[j].keyring
      <4>1. Marks(archives, archives', arg, v)
        BY <3>1, <3>2, <3>3, Marked
      <4> QED  BY <4>1 DEF Marks
    <3>5. \A j \in DOMAIN archives :
             archives'[j].state = "published" <=> archives[j].state = "published"
      BY <3>3, <3>4
    <3>6. \A a \in DOMAIN archives' : Kept(a)'
      BY <3>1, <3>4, <3>5 DEF BackupInv, Kept, WellFormed
    <3>7. \A a, b \in DOMAIN archives' : Increasing(a, b)'
      BY <3>4, <3>5 DEF BackupInv, Increasing
    <3>8. Uncounted(ring)' /\ Uncounted(disk)'
      BY <3>1 DEF BackupInv, Uncounted
    <3> QED  BY <3>1, <3>4, <3>6, <3>7, <3>8 DEF BackupInv
  <2> QED  BY <1>13, <2>1, <2>2 DEF RecordBackup
<1> QED
  BY <1>3, <1>4, <1>5, <1>6, <1>7, <1>8, <1>9, <1>10, <1>11, <1>12, <1>13 DEF Next

\* Where a backup has got to.
LEMMA BackupPhaseStep ==
  ASSUME TypeOK, TodoInv, KeyInv, BackupInv, BackupPhase, Next
  PROVE  BackupPhase'
<1>1. ASSUME todo' = <<>> \/ Head(todo') \notin
               {"publish", "publishNext", "advance", "record"}
      PROVE  BackupPhase'
  BY <1>1 DEF BackupPhase
<1>2. ASSUME UNCHANGED <<todo, arg, ring, archives, generation>>,
             UNCHANGED evidence \/ evidence'.restore = evidence.restore
      PROVE  BackupPhase'
  BY <1>2 DEF BackupPhase
<1>3. evidence.restore \in {0} \cup DOMAIN archives /\ archives \in Seq(Archives)
  BY DEF TypeOK, BackupInv
<1>4. CASE HostExpires \/ Upgrade
  <2>1. evidence'.restore = evidence.restore
    BY <1>4 DEF HostExpires, Upgrade, TypeOK
  <2> QED  BY <1>2, <1>4, <2>1 DEF HostExpires, Upgrade, keyringVars, backupVars,
                                   procVars
<1>5. CASE \/ \E a \in DOMAIN archives : BackupVerify(a) \/ RestoreDrill(a)
           \/ QualifyArtifact \/ QualifyHost
  BY <1>1, <1>5 DEF BackupVerify, RestoreDrill, QualifyArtifact, QualifyHost,
                    Idle, procVars
<1>6. CASE DescribeCustody \/ WriteReceipt \/ SwitchCustody \/ PromoteCustody
           \/ UnlinkRaw \/ UnlinkReceipt \/ InvalidateRecovery \/ Activate
           \/ VerifyRotation \/ Unlink \/ StepFails \/ RecordBackup
           \/ Restart \/ CloseAndOpen
  <2>1. todo' \in {<<>>, <<"receipt", "switch">>, <<"switch">>,
                   <<"unraw", "unreceipt", "invalidate">>,
                   <<"unreceipt", "invalidate">>, <<"invalidate">>, <<"verify">>,
                   <<"invalidate", "verify">>}
    BY <1>6, After DEF DescribeCustody, WriteReceipt, SwitchCustody, PromoteCustody,
       UnlinkRaw, UnlinkReceipt, InvalidateRecovery, Activate, VerifyRotation,
       Unlink, StepFails, RecordBackup, Restart, CloseAndOpen, Reopen, At, Proceed,
       Abandon, TodoInv
  <2> QED  BY <2>1, <1>1, HeadTail
<1>7. CASE \/ \E a \in DOMAIN archives : MigrateCustody(a)
           \/ RetireFileCustody \/ RotateKey \/ RetirePreviousKey
  <2>1. todo' \in {<<"describe", "receipt", "switch">>,
                   <<"promote", "unraw", "unreceipt", "invalidate">>,
                   <<"activate", "invalidate", "verify">>,
                   <<"invalidate", "verify">>, <<"delete">>, <<"unlink">>}
    BY <1>7 DEF MigrateCustody, RetireFileCustody, RotateKey, RetirePreviousKey,
       Begin, CustodySteps, RetireFileSteps
  <2> QED  BY <2>1, <1>1, HeadTail
<1>8. CASE \E tier \in {"none", "local-best-effort"} : BackupCreate(tier)
  <2>1. /\ UNCHANGED <<ring, archives>> /\ ring.rotation = "none"
        /\ arg' = Len(archives) + 1
        /\ \/ todo' = <<"publish", "record">>
           \/ todo' = <<"publishNext", "advance", "record">>
              /\ ring.active \in ring.opaque
    BY <1>8 DEF BackupCreate, Begin, InCustody, keyringVars
  <2>2. todo' = <<"publish", "record">> => Head(todo') = "publish"
    BY HeadTail
  <2>3. todo' = <<"publishNext", "advance", "record">> => Head(todo') = "publishNext"
    BY HeadTail
  <2> QED  BY <2>1, <2>2, <2>3 DEF BackupPhase
<1>9. CASE Publication
  <2>1. CASE Abandon
    BY <1>1, <2>1 DEF Abandon
  <2>2. CASE /\ Proceed
             /\ \/ At("publish") /\ archives' = Append(archives, Archive(counter))
                \/ At("publishNext") /\ archives' = Append(archives, Archive(NextGeneration))
    <3>1. /\ arg = Len(archives) + 1 /\ UNCHANGED <<ring, generation, evidence>>
          /\ Head(todo) = "publishNext" => ring.active \in ring.opaque
      BY <1>9, <2>2 DEF Publication, PublishArchive, At, BackupPhase, keyringVars,
                        readinessVars
    <3>2. \/ Head(todo) = "publish" /\ todo' = <<"record">>
          \/ Head(todo) = "publishNext" /\ todo' = <<"advance", "record">>
      BY <2>2, After DEF At, Proceed, TodoInv
    <3>3. arg' = arg
      BY <2>2, <3>2 DEF Proceed
    <3>4. counter \in Nat /\ NextGeneration \in Nat
      BY LinkFacts, SoundKeys DEF TypeOK, NextGeneration
    <3>5. /\ Len(archives') = Len(archives) + 1 /\ Len(archives) \in Nat
          /\ DOMAIN archives = 1 .. Len(archives)
          /\ Head(todo) = "publishNext" => archives'[arg] = Archive(NextGeneration)
      <4>1. Head(todo) = "publishNext" =>
              archives' = Append(archives, Archive(NextGeneration))
        BY <2>2 DEF At
      <4>2. Archive(NextGeneration) \in Archives /\ Archive(counter) \in Archives
        BY <3>4, ArchiveIs
      <4> QED  BY <1>3, <2>2, <3>1, <4>1, <4>2
    <3>6. evidence.restore # Len(archives')
      BY <1>3, <3>5
    <3>7. arg' = Len(archives') /\ arg' > 0 /\ evidence'.restore # arg'
      BY <3>1, <3>3, <3>5, <3>6
    <3>8. CASE todo' = <<"record">>
      <4>1. Head(todo') = "record"
        BY <3>8, HeadTail
      <4> QED  BY <3>7, <4>1 DEF BackupPhase
    <3>9. CASE todo' = <<"advance", "record">> /\ Head(todo) = "publishNext"
      <4>1. Head(todo') = "advance"
        BY <3>9, HeadTail
      <4>2. /\ archives'[arg].key = ring.active
            /\ archives'[arg].generation = generation[ring.active] + 1
            /\ archives'[arg].state = "published"
        <5>1. /\ Archive(NextGeneration).key = ring.active
              /\ Archive(NextGeneration).generation = NextGeneration
              /\ Archive(NextGeneration).state = "published"
          BY <3>4, ArchiveIs
        <5> QED  BY <3>5, <3>9, <5>1 DEF NextGeneration
      <4> QED  BY <3>1, <3>3, <3>7, <3>9, <4>1, <4>2 DEF BackupPhase
    <3> QED  BY <3>2, <3>8, <3>9
  <2> QED  BY <1>9, <2>1, <2>2 DEF Publication, PublishArchive
<1>10. CASE AdvanceGeneration
  <2>1. CASE Abandon
    BY <1>1, <2>1 DEF Abandon
  <2>2. CASE Proceed /\ archives' = [archives EXCEPT ![arg].state = "advanced"]
    <3>1. /\ todo' = <<"record">> /\ arg' = arg /\ UNCHANGED evidence
          /\ arg = Len(archives) /\ arg > 0 /\ evidence.restore # arg
      BY <1>10, <2>2, After DEF AdvanceGeneration, At, Proceed, TodoInv, BackupPhase,
                                readinessVars
    <3>2. Len(archives') = Len(archives)
      BY <1>3, <2>2
    <3>3. Head(todo') = "record"
      BY <3>1, HeadTail
    <3> QED  BY <3>1, <3>2, <3>3 DEF BackupPhase
  <2> QED  BY <1>10, <2>1, <2>2 DEF AdvanceGeneration
<1> QED
  BY <1>4, <1>5, <1>6, <1>7, <1>8, <1>9, <1>10 DEF Next

\* A drill stays good, or a later backup has advanced the device.
LEMMA DrillStep ==
  ASSUME TypeOK, TodoInv, KeyInv, BackupInv, BackupPhase, DrillInv, Next
  PROVE  DrillInv'
<1>1. ASSUME UNCHANGED <<archives, generation>>, drilled \subseteq drilled',
             evidence'.restore \in {0, evidence.restore}
      PROVE  DrillInv'
  BY <1>1 DEF DrillInv, Drilled
<1>2. CASE \/ \E a \in DOMAIN archives : MigrateCustody(a)
           \/ DescribeCustody \/ WriteReceipt \/ SwitchCustody
           \/ RetireFileCustody \/ PromoteCustody \/ UnlinkRaw \/ UnlinkReceipt
           \/ \E tier \in {"none", "local-best-effort"} : BackupCreate(tier)
           \/ RotateKey \/ Activate \/ VerifyRotation \/ RetirePreviousKey
           \/ Unlink \/ StepFails \/ Restart \/ CloseAndOpen
  <2>1. UNCHANGED <<archives, generation, drilled, evidence>>
    BY <1>2 DEF MigrateCustody, DescribeCustody, WriteReceipt, SwitchCustody,
       RetireFileCustody, PromoteCustody, UnlinkRaw, UnlinkReceipt, BackupCreate,
       RotateKey, Activate, VerifyRotation, RetirePreviousKey, Unlink, StepFails,
       Restart, CloseAndOpen, Reopen, backupVars, readinessVars
  <2> QED  BY <2>1, <1>1
<1>3. CASE \/ \E a \in DOMAIN archives : BackupVerify(a)
           \/ InvalidateRecovery
           \/ QualifyArtifact \/ QualifyHost \/ HostExpires \/ Upgrade
  <2>1. UNCHANGED <<archives, generation, drilled>>
    BY <1>3 DEF BackupVerify, InvalidateRecovery, QualifyArtifact, QualifyHost,
       HostExpires, Upgrade, backupVars
  <2>2. evidence'.restore \in {0, evidence.restore}
    BY <1>3 DEF BackupVerify, InvalidateRecovery, QualifyArtifact, QualifyHost,
       HostExpires, Upgrade, WriteRecord, WithBackup, WithHost, TypeOK
  <2> QED  BY <2>1, <2>2, <1>1
<1>4. CASE \E a \in DOMAIN archives : RestoreDrill(a)
  <2>1. PICK a \in DOMAIN archives : RestoreDrill(a)
    BY <1>4
  <2>2. CASE UNCHANGED evidence
    BY <1>1, <2>1, <2>2 DEF RestoreDrill
  <2>3. CASE WriteRecord([evidence EXCEPT !.restore = a])
    <3>1. evidence'.restore = a
      BY <2>3 DEF WriteRecord, TypeOK
    <3>2. /\ Accepts(a) /\ Opens(a) /\ drilled' = drilled \cup {a}
          /\ UNCHANGED <<archives, generation>>
      BY <2>1 DEF RestoreDrill, Restores
    <3>3. /\ archives[a].key = ring.active /\ archives[a].generation \in Nat
          /\ generation[ring.active] = 0 \/ ring.active \in ring.opaque
      BY <3>2 DEF Accepts, Authentic, BackupInv, Uncounted, TypeOK, Archives
    <3>4. archives[a].generation >= generation[archives[a].key]
      BY <3>2, <3>3 DEF Accepts, InCustody
    <3>5. Drilled(a)'
      BY <3>2, <3>4 DEF Opens, BoundTo, Drilled
    <3> QED  BY <3>1, <3>5 DEF DrillInv, Drilled
  <2> QED  BY <2>1, <2>2, <2>3 DEF RestoreDrill, WithRestore
<1>5. CASE Publication
  <2>1. CASE UNCHANGED archives
    BY <1>1, <1>5, <2>1 DEF Publication, PublishArchive, readinessVars
  <2>2. CASE \E gen \in Nat : archives' = Append(archives, Archive(gen))
    <3>1. UNCHANGED <<generation, drilled, evidence>>
      BY <1>5 DEF Publication, PublishArchive, readinessVars
    <3>2. PICK gen \in Nat : archives' = Append(archives, Archive(gen))
      BY <2>2
    <3>3. Archive(gen) \in Archives /\ archives \in Seq(Archives)
      BY ArchiveIs DEF BackupInv
    <3>4. /\ \A a \in DOMAIN archives : archives'[a] = archives[a]
          /\ DOMAIN archives \subseteq DOMAIN archives'
      BY <3>2, <3>3
    <3>5. drilled \subseteq DOMAIN archives
      BY DEF TypeOK
    <3> QED  BY <3>1, <3>4, <3>5 DEF DrillInv, Drilled
  <2>3. counter \in Nat /\ NextGeneration \in Nat
    BY LinkFacts, SoundKeys DEF TypeOK, NextGeneration
  <2> QED  BY <1>5, <2>1, <2>2, <2>3 DEF Publication, PublishArchive
<1>6. CASE AdvanceGeneration
  <2>1. CASE UNCHANGED <<generation, archives>>
    BY <1>1, <1>6, <2>1 DEF AdvanceGeneration, readinessVars
  <2>2. CASE archives' = [archives EXCEPT ![arg].state = "advanced"]
    <3>1. /\ arg = Len(archives) /\ arg > 0 /\ evidence.restore # arg
          /\ UNCHANGED <<drilled, evidence>>
      BY <1>6, HeadTail DEF AdvanceGeneration, At, BackupPhase, readinessVars
    <3>2. archives \in Seq(Archives) /\ arg \in DOMAIN archives
          /\ DOMAIN archives = 1 .. Len(archives) /\ Len(archives) \in Nat
      BY <3>1 DEF BackupInv
    <3>3. Marks(archives, archives', arg, "advanced")
      BY <2>2, <3>2, Marked
    <3>4. evidence.restore \in {0} \cup DOMAIN archives
      BY DEF TypeOK
    <3>5. evidence.restore # 0 => arg > evidence.restore
      BY <3>1, <3>2, <3>4
    <3>6. arg \in DOMAIN archives' /\ archives'[arg].state = "advanced"
      BY <3>2, <3>3 DEF Marks
    <3> QED  BY <3>1, <3>2, <3>3, <3>4, <3>5, <3>6 DEF DrillInv, Drilled, Marks
  <2> QED  BY <1>6, <2>1, <2>2 DEF AdvanceGeneration
<1>7. CASE RecordBackup
  <2>1. CASE UNCHANGED <<evidence, archives>>
    BY <1>1, <1>7, <2>1 DEF RecordBackup
  <2>2. CASE WriteRecord(WithBackup(arg))
    <3>1. evidence.restore # arg
      BY <1>7, HeadTail DEF RecordBackup, At, BackupPhase
    <3>2. evidence'.restore = 0
      BY <2>2, <3>1 DEF WriteRecord, WithBackup, TypeOK
    <3> QED  BY <3>2 DEF DrillInv
  <2> QED  BY <1>7, <2>1, <2>2 DEF RecordBackup
<1> QED
  BY <1>2, <1>3, <1>4, <1>5, <1>6, <1>7 DEF Next

-----------------------------------------------------------------------------
(* Types *)

LEMMA KeyringTypesStep ==
  ASSUME TypeOK, TodoInv, KeyInv, RawInv, KeyPhase, Next
  PROVE  KeyringTypeOK'
<1>1. Sound(disk)' /\ Sound(ring)'
  BY KeyStep DEF KeyInv, Known
<1>2. \A m \in {disk', ring'} :
        /\ m \in Manifest /\ m.active \in m.held
        /\ IF m.rotation = "none" THEN m.held = {m.active}
           ELSE \E k \in Keys \ {m.active} : m.held = {m.active, k}
  BY <1>1 DEF Sound
<1>3. ASSUME UNCHANGED <<keyFiles, bound, drawn, torn, faults>>
      PROVE  KeyringTypeOK'
  BY <1>2, <1>3 DEF TypeOK, KeyringTypeOK
<1>4. /\ keyFiles \subseteq Keys /\ drawn \in Keys /\ torn \in BOOLEAN
      /\ bound \in [Keys -> {"none", "verified", "active"}]
      /\ faults \in 0 .. MaxFaults /\ ring.active \in Keys
  BY LinkFacts, SoundKeys DEF TypeOK, KeyringTypeOK
<1>5. ASSUME Fault  PROVE faults' \in 0 .. MaxFaults
  BY <1>4, <1>5, KeyringAssumption DEF Fault
<1>6. CASE \/ \E a \in DOMAIN archives :
                MigrateCustody(a) \/ BackupVerify(a) \/ RestoreDrill(a)
           \/ WriteReceipt \/ RetireFileCustody \/ UnlinkReceipt
           \/ \E tier \in {"none", "local-best-effort"} : BackupCreate(tier)
           \/ Publication \/ AdvanceGeneration \/ RecordBackup \/ InvalidateRecovery
           \/ QualifyArtifact \/ QualifyHost \/ HostExpires \/ Upgrade
  BY <1>3, <1>6 DEF MigrateCustody, BackupVerify, RestoreDrill, WriteReceipt,
     RetireFileCustody, UnlinkReceipt, BackupCreate, Publication, PublishArchive,
     AdvanceGeneration, RecordBackup, InvalidateRecovery, QualifyArtifact,
     QualifyHost, HostExpires, Upgrade, keyringVars
<1>7. CASE Restart \/ CloseAndOpen
  BY <1>3, <1>7 DEF Restart, CloseAndOpen, Reopen
<1>8. CASE DescribeCustody \/ PromoteCustody \/ UnlinkRaw
  BY <1>2, <1>4, <1>8 DEF DescribeCustody, PromoteCustody, UnlinkRaw, KeyringTypeOK
<1>9. CASE SwitchCustody
  BY <1>2, <1>4, <1>5, <1>9 DEF SwitchCustody, Publish, PublishFails, MayMend,
     KeyringTypeOK
<1>10. CASE RotateKey
  <2>1. CASE DrawKey
    <3>1. drawn + 1 \in Keys
      BY <1>4, <2>1, KeyringAssumption DEF DrawKey, Keys
    <3> QED  BY <1>2, <1>4, <1>10, <2>1, <3>1 DEF RotateKey, DrawKey, KeyringTypeOK
  <2>2. CASE UNCHANGED <<keyFiles, bound, drawn>>
    BY <1>3, <1>10, <2>2 DEF RotateKey
  <2> QED  BY <1>10, <2>1, <2>2 DEF RotateKey
<1>11. CASE Activate
  <2>1. CASE ActivateKey
    BY <1>2, <1>4, <2>1 DEF ActivateKey, Publish, KeyringTypeOK
  <2>2. CASE ActivateKeyFails
    BY <1>2, <1>4, <1>5, <2>2 DEF ActivateKeyFails, PublishFails, KeyringTypeOK
  <2> QED  BY <1>11, <2>1, <2>2 DEF Activate
<1>12. CASE VerifyRotation
  BY <1>2, <1>4, <1>5, <1>12 DEF VerifyRotation, Publish, PublishFails, MayMend,
     KeyringTypeOK
<1>13. CASE RetirePreviousKey
  BY <1>2, <1>4, <1>13 DEF RetirePreviousKey, RetireInManifest, Publish, KeyringTypeOK
<1>14. CASE Unlink
  <2>1. arg \in Keys
    BY <1>14 DEF Unlink, At, KeyPhase
  <2> QED  BY <1>2, <1>4, <1>14, <2>1 DEF Unlink, RemoveKey, KeyringTypeOK
<1>15. CASE StepFails
  BY <1>2, <1>4, <1>5, <1>15 DEF StepFails, KeyringTypeOK
<1> QED
  BY <1>6, <1>7, <1>8, <1>9, <1>10, <1>11, <1>12, <1>13, <1>14, <1>15 DEF Next

CustodyTypes ==
  /\ candidates \in [Keys -> 0 .. 2]
  /\ receipt \in 0 .. MaxProcs /\ switchedBy \in 0 .. MaxProcs
  /\ proc \in 1 .. MaxProcs /\ up \in BOOLEAN /\ arg \in Nat

LEMMA CustodyTypesStep ==
  ASSUME TypeOK, TodoInv, KeyInv, KeyPhase, BackupInv, Next
  PROVE  CustodyTypes'
<1>1. CustodyTypes /\ ring.active \in Keys
  BY LinkFacts, SoundKeys DEF TypeOK, CustodyTypes
<1>2. Proceed => up' = up /\ proc' = proc /\ arg' \in Nat
  BY <1>1 DEF Proceed, CustodyTypes
<1>3. Abandon => up' = up /\ proc' = proc /\ arg' \in Nat
  BY <1>1 DEF Abandon, CustodyTypes
<1>4. CASE \/ Publication \/ AdvanceGeneration \/ RecordBackup
           \/ InvalidateRecovery \/ DescribeCustody \/ UnlinkRaw
           \/ Activate \/ VerifyRotation \/ Unlink \/ StepFails
  BY <1>1, <1>2, <1>3, <1>4 DEF Publication, PublishArchive, AdvanceGeneration,
     RecordBackup, InvalidateRecovery, DescribeCustody, UnlinkRaw, Activate,
     VerifyRotation, Unlink, StepFails, custodyVars, CustodyTypes
<1>5. CASE \/ \E a \in DOMAIN archives : BackupVerify(a) \/ RestoreDrill(a)
           \/ QualifyArtifact \/ QualifyHost \/ HostExpires \/ Upgrade
  BY <1>1, <1>5 DEF BackupVerify, RestoreDrill, QualifyArtifact, QualifyHost,
     HostExpires, Upgrade, custodyVars, procVars, CustodyTypes
<1>6. ASSUME NEW steps, NEW a \in Nat, Begin(steps, a), UNCHANGED custodyVars
      PROVE  CustodyTypes'
  BY <1>1, <1>6 DEF Begin, custodyVars, CustodyTypes
<1>7. CASE RetireFileCustody
           \/ \E tier \in {"none", "local-best-effort"} : BackupCreate(tier)
  <2>1. Len(archives) + 1 \in Nat
    BY DEF BackupInv
  <2> QED  BY <1>6, <1>7, <2>1 DEF RetireFileCustody, BackupCreate
<1>8. CASE RotateKey
  BY <1>6, <1>8 DEF RotateKey
<1>9. CASE RetirePreviousKey
  <2>1. Source(ring) \in Nat
    BY <1>9, LinkFacts, SourceIs, Numbers DEF RetirePreviousKey, RetireInManifest
  <2> QED  BY <1>6, <1>9, <2>1 DEF RetirePreviousKey
<1>10. CASE \E a \in DOMAIN archives : MigrateCustody(a)
  <2>1. /\ candidates[ring.active] < 2
        /\ candidates' = [candidates EXCEPT ![ring.active] = @ + 1]
        /\ UNCHANGED <<receipt, switchedBy, up, proc>> /\ arg' = 0
    BY <1>10 DEF MigrateCustody, PrepareCustody, Begin
  <2>2. candidates' \in [Keys -> 0 .. 2]
    BY <1>1, <2>1 DEF CustodyTypes
  <2> QED  BY <1>1, <2>1, <2>2 DEF CustodyTypes
<1>11. CASE WriteReceipt \/ UnlinkReceipt \/ SwitchCustody
  <2>1. /\ receipt' \in {receipt, proc, 0} /\ switchedBy' \in {switchedBy, proc}
        /\ UNCHANGED candidates /\ up' = up /\ proc' = proc /\ arg' \in Nat
    BY <1>2, <1>3, <1>11 DEF WriteReceipt, UnlinkReceipt, SwitchCustody
  <2> QED  BY <1>1, <2>1, RecoveryAssumption DEF CustodyTypes
<1>12. CASE PromoteCustody
  <2>1. /\ candidates' = [candidates EXCEPT ![ring.active] =
                            IF bound[ring.active] = "verified" THEN @ - 1 ELSE @]
        /\ UNCHANGED <<receipt, switchedBy>> /\ up' = up /\ proc' = proc
        /\ arg' \in Nat
    BY <1>2, <1>12 DEF PromoteCustody
  <2>2. bound[ring.active] = "verified" => candidates[ring.active] > 0
    BY <1>1 DEF KeyInv
  <2>3. candidates' \in [Keys -> 0 .. 2]
    BY <1>1, <2>1, <2>2 DEF CustodyTypes
  <2> QED  BY <1>1, <2>1, <2>3 DEF CustodyTypes
<1>13. CASE Restart \/ CloseAndOpen
  <2>1. UNCHANGED custodyVars /\ up' = Loads(disk) /\ arg' = 0
    BY <1>13 DEF Restart, CloseAndOpen, Reopen
  <2>2. Loads(disk) \in BOOLEAN
    BY DEF Loads
  <2>3. proc' = proc \/ (proc < MaxProcs /\ proc' = proc + 1)
    <3>1. CASE Restart
      BY <3>1 DEF Restart, Reopen
    <3>2. CASE CloseAndOpen
      BY <3>2 DEF CloseAndOpen, Reopen
    <3> QED  BY <1>13, <3>1, <3>2
  <2>4. proc' \in 1 .. MaxProcs
    BY <1>1, <2>3, RecoveryAssumption DEF CustodyTypes
  <2>5. up' \in BOOLEAN
    BY <2>1, <2>2
  <2> QED  BY <1>1, <2>1, <2>4, <2>5 DEF CustodyTypes, custodyVars
<1> QED
  BY <1>4, <1>5, <1>7, <1>8, <1>9, <1>10, <1>11, <1>12, <1>13 DEF Next

EvidenceType ==
  [key : Keys, artifact : 0 .. MaxArtifacts,
   host : [id : 0 .. MaxHosts, key : Keys \cup {NoKey}],
   backup : {0} \cup DOMAIN archives, restore : {0} \cup DOMAIN archives]

RecordTypes ==
  /\ generation \in [Keys -> Nat] /\ counter \in Nat
  /\ drilled \subseteq DOMAIN archives
  /\ evidence \in EvidenceType
  /\ hosts \in 0 .. MaxHosts /\ artifact \in 1 .. MaxArtifacts

LEMMA RecordTypesStep ==
  ASSUME TypeOK, TodoInv, KeyInv, KeyPhase, BackupInv, BackupPhase, Next
  PROVE  RecordTypes'
<1>1. RecordTypes /\ ring.active \in Keys /\ archives \in Seq(Archives)
  BY LinkFacts, SoundKeys DEF TypeOK, RecordTypes, EvidenceType, BackupInv
<1>2. ASSUME DOMAIN archives \subseteq DOMAIN archives',
             UNCHANGED <<generation, counter, drilled, evidence, hosts, artifact>>
      PROVE  RecordTypes'
  BY <1>1, <1>2 DEF RecordTypes, EvidenceType
<1>3. ASSUME NEW r, r \in EvidenceType, evidence' = r,
             DOMAIN archives' = DOMAIN archives,
             UNCHANGED <<generation, counter, drilled>>,
             hosts' \in 0 .. MaxHosts, artifact' \in 1 .. MaxArtifacts
      PROVE  RecordTypes'
  BY <1>1, <1>3 DEF RecordTypes, EvidenceType
<1>4. CASE \/ \E a \in DOMAIN archives : MigrateCustody(a)
           \/ DescribeCustody \/ WriteReceipt \/ SwitchCustody
           \/ RetireFileCustody \/ PromoteCustody \/ UnlinkRaw \/ UnlinkReceipt
           \/ RotateKey \/ Activate \/ VerifyRotation \/ RetirePreviousKey
           \/ Unlink \/ StepFails \/ Restart \/ CloseAndOpen
  BY <1>2, <1>4 DEF MigrateCustody, DescribeCustody, WriteReceipt, SwitchCustody,
     RetireFileCustody, PromoteCustody, UnlinkRaw, UnlinkReceipt, RotateKey,
     Activate, VerifyRotation, RetirePreviousKey, Unlink, StepFails, Restart,
     CloseAndOpen, Reopen, backupVars, readinessVars
<1>5. CASE \E tier \in {"none", "local-best-effort"} : BackupCreate(tier)
  <2>1. counter' \in Nat
    BY <1>1, <1>5 DEF BackupCreate, CountBackup, RecordTypes
  <2> QED  BY <1>1, <1>5, <2>1 DEF BackupCreate, readinessVars, RecordTypes,
                                   EvidenceType
<1>6. CASE Publication
  <2>1. counter \in Nat /\ NextGeneration \in Nat
    BY <1>1 DEF RecordTypes, NextGeneration
  <2>2. Archive(counter) \in Archives /\ Archive(NextGeneration) \in Archives
    BY <2>1, ArchiveIs
  <2>3. DOMAIN archives \subseteq DOMAIN archives'
    BY <1>1, <1>6, <2>2 DEF Publication, PublishArchive
  <2> QED  BY <1>2, <1>6, <2>3 DEF Publication, PublishArchive, readinessVars
<1>7. CASE AdvanceGeneration
  <2>1. DOMAIN archives' = DOMAIN archives
    BY <1>1, <1>7 DEF AdvanceGeneration
  <2>2. generation' \in [Keys -> Nat]
    <3>1. archives[arg].generation \in Nat
      BY <1>1, <1>7, HeadTail
         DEF AdvanceGeneration, At, BackupPhase, RecordTypes
    <3> QED  BY <1>1, <1>7, <3>1 DEF AdvanceGeneration, RecordTypes
  <2> QED  BY <1>1, <1>7, <2>1, <2>2 DEF AdvanceGeneration, readinessVars,
                                         RecordTypes, EvidenceType
<1>8. ASSUME NEW a \in DOMAIN archives  PROVE WithBackup(a) \in EvidenceType
  BY <1>1 DEF WithBackup, RecordTypes, EvidenceType
<1>9. \A r \in EvidenceType : [r EXCEPT !.key = ring.active] \in EvidenceType
  BY <1>1 DEF EvidenceType
<1>10. CASE RecordBackup
  <2>1. DOMAIN archives' = DOMAIN archives
    BY <1>1, <1>10 DEF RecordBackup
  <2>2. arg \in DOMAIN archives
    BY <1>1, <1>10, HeadTail DEF RecordBackup, At, BackupPhase
  <2>3. evidence' \in EvidenceType
    BY <1>1, <1>8, <1>9, <1>10, <2>2 DEF RecordBackup, WriteRecord, RecordTypes
  <2> QED  BY <1>1, <1>3, <1>10, <2>1, <2>3 DEF RecordBackup, RecordTypes
<1>11. CASE \E a \in DOMAIN archives : BackupVerify(a)
  <2>1. evidence' \in EvidenceType
    BY <1>8, <1>9, <1>11 DEF BackupVerify, WriteRecord
  <2> QED  BY <1>1, <1>3, <1>11, <2>1 DEF BackupVerify, backupVars, RecordTypes
<1>12. CASE \E a \in DOMAIN archives : RestoreDrill(a)
  <2>1. PICK a \in DOMAIN archives : RestoreDrill(a)
    BY <1>12
  <2>2. [evidence EXCEPT !.restore = a] \in EvidenceType
    BY <1>1 DEF RecordTypes, EvidenceType
  <2>3. evidence' \in EvidenceType
    BY <1>1, <1>9, <2>1, <2>2 DEF RestoreDrill, WithRestore, WriteRecord, RecordTypes
  <2> QED  BY <1>1, <2>1, <2>3 DEF RestoreDrill, RecordTypes, EvidenceType
<1>13. CASE InvalidateRecovery
  <2>1. [evidence EXCEPT !.backup = 0, !.restore = 0] \in EvidenceType
    BY <1>1 DEF RecordTypes, EvidenceType
  <2>2. evidence' \in EvidenceType
    BY <1>9, <1>13, <2>1 DEF InvalidateRecovery, WriteRecord
  <2> QED  BY <1>1, <1>3, <1>13, <2>2 DEF InvalidateRecovery, backupVars, RecordTypes
<1>14. NoHost \in [id : 0 .. MaxHosts, key : Keys \cup {NoKey}]
  BY RecoveryAssumption DEF NoHost, NoKey
<1>15. CASE QualifyArtifact
  <2>1. [evidence EXCEPT !.artifact = artifact,
           !.host = IF evidence.artifact = artifact THEN @ ELSE NoHost] \in EvidenceType
    <3>1. /\ evidence \in EvidenceType
          /\ artifact \in 0 .. MaxArtifacts
      BY <1>1 DEF RecordTypes
    <3>2. \A h \in [id : 0 .. MaxHosts, key : Keys \cup {NoKey}] :
            [evidence EXCEPT !.artifact = artifact, !.host = h] \in EvidenceType
      BY <3>1 DEF EvidenceType
    <3>3. evidence.host \in [id : 0 .. MaxHosts, key : Keys \cup {NoKey}]
      BY <3>1 DEF EvidenceType
    <3>4. CASE evidence.artifact = artifact
      BY <3>2, <3>3, <3>4
    <3>5. CASE evidence.artifact # artifact
      BY <1>14, <3>2, <3>5
    <3> QED  BY <3>4, <3>5
  <2>2. evidence' \in EvidenceType
    BY <1>9, <1>15, <2>1 DEF QualifyArtifact, WriteRecord
  <2> QED  BY <1>1, <1>3, <1>15, <2>2 DEF QualifyArtifact, backupVars, RecordTypes
<1>16. CASE QualifyHost
  <2>1. hosts' \in 0 .. MaxHosts /\ hosts + 1 \in 0 .. MaxHosts
    BY <1>1, <1>16, RecoveryAssumption DEF QualifyHost, RecordTypes
  <2>2. WithHost(HostReceipt) \in EvidenceType
    BY <1>1, <2>1 DEF WithHost, HostReceipt, RecordTypes, EvidenceType
  <2>3. evidence' \in EvidenceType
    BY <1>9, <1>16, <2>2 DEF QualifyHost, WriteRecord
  <2> QED  BY <1>1, <1>3, <1>16, <2>1, <2>3 DEF QualifyHost, backupVars, RecordTypes
<1>17. CASE HostExpires \/ Upgrade
  <2>1. evidence' \in EvidenceType
    BY <1>1, <1>14, <1>17 DEF HostExpires, Upgrade, RecordTypes, EvidenceType
  <2>2. artifact' \in 1 .. MaxArtifacts
    BY <1>1, <1>17, RecoveryAssumption DEF HostExpires, Upgrade, RecordTypes
  <2> QED  BY <1>1, <1>3, <1>17, <2>1, <2>2 DEF HostExpires, Upgrade, backupVars,
                                               RecordTypes
<1> QED
  BY <1>4, <1>5, <1>6, <1>7, <1>10, <1>11, <1>12, <1>13, <1>15, <1>16, <1>17 DEF Next

LEMMA TypeStep ==
  ASSUME IInv, Next
  PROVE  TypeOK'
<1>1. KeyringTypeOK' /\ CustodyTypes' /\ RecordTypes'
  BY KeyringTypesStep, CustodyTypesStep, RecordTypesStep DEF IInv
<1>2. (\A a \in DOMAIN archives : archives[a] \in Archives)'
  BY BackupStep DEF IInv, BackupInv
<1> QED  BY <1>1, <1>2 DEF TypeOK, CustodyTypes, RecordTypes, EvidenceType

-----------------------------------------------------------------------------
(* The inductive invariant *)

LEMMA InitInv == Init => IInv
<1> SUFFICES ASSUME Init  PROVE IInv
  OBVIOUS
<1> DEFINE plain == WithV3(FirstManifest)
           native == WithCustody(plain)
<1>1. 1 \in Keys
  BY KeyringAssumption DEF Keys
<1>2. FirstManifest \in Manifest
  BY <1>1 DEF FirstManifest, Manifest
<1>3. /\ plain \in Manifest /\ plain.active = 1 /\ plain.held = {1}
      /\ plain.opaque = {} /\ plain.rotation = "none"
  BY <1>1, <1>2 DEF WithV3, FirstManifest, Manifest
<1>4. /\ native \in Manifest /\ native.active = 1 /\ native.held = {1}
      /\ native.opaque = {1} /\ native.rotation = "none"
  <2>1. Sound(plain)
    BY <1>3 DEF Sound
  <2> HIDE DEF plain
  <2> QED  BY <1>3, <2>1, WithCustodyIs DEF Sound
<1>5. PICK m \in {plain, native} : KeyringInit(m) /\ faults \in 0 .. MaxFaults
  BY KeyringAssumption DEF Init
<1> HIDE DEF plain, native
<1>6. /\ m \in Manifest /\ m.active = 1 /\ m.held = {1} /\ m.rotation = "none"
      /\ m.opaque = {} \/ m.opaque = {1}
      /\ faults \in 0 .. MaxFaults
  BY <1>3, <1>4, <1>5
<1>7. /\ disk = m /\ ring = m /\ drawn = 1 /\ torn = FALSE
      /\ keyFiles = {1} \ m.opaque
      /\ bound = [k \in Keys |-> IF k \in m.opaque THEN "active" ELSE "none"]
  BY <1>5, <1>6 DEF KeyringInit
<1>8. /\ candidates = [k \in Keys |-> 0] /\ receipt = 0 /\ switchedBy = 0
      /\ generation = [k \in Keys |-> 0] /\ counter = 0
      /\ archives = <<>> /\ drilled = {}
      /\ evidence = ArtifactOnly /\ hosts = 0 /\ artifact \in 1 .. MaxArtifacts
      /\ up = TRUE /\ proc = 1 /\ todo = <<>> /\ arg = 0
  BY RecoveryAssumption DEF Init
<1>9. KeyringTypeOK
  BY <1>1, <1>6, <1>7 DEF KeyringTypeOK
<1>10. TypeOK
  <2>1. evidence \in EvidenceType
    BY <1>1, <1>8, RecoveryAssumption DEF ArtifactOnly, NoHost, NoKey, EvidenceType
  <2>2. /\ candidates \in [Keys -> 0 .. 2] /\ generation \in [Keys -> Nat]
        /\ {receipt, switchedBy} \subseteq 0 .. MaxProcs
        /\ hosts \in 0 .. MaxHosts /\ artifact \in 1 .. MaxArtifacts
        /\ proc \in 1 .. MaxProcs
    BY <1>8, RecoveryAssumption
  <2> QED  BY <1>8, <1>9, <2>1, <2>2 DEF TypeOK, EvidenceType
<1>11. KeyInv
  <2>1. Known(m) /\ Sound(m)
    BY <1>6, <1>7 DEF Known, Sound
  <2>2. Rooted(m)
    BY <1>1, <1>6, <1>7 DEF Rooted, Loads
  <2>3. \A k \in Keys : k > 1 => k \notin keyFiles /\ bound[k] = "none"
    BY <1>6, <1>7
  <2>4. m.active \notin m.opaque => bound[m.active] # "active"
    BY <1>1, <1>6, <1>7
  <2>5. \A k \in Keys : bound[k] # "verified"
    BY <1>7
  <2> QED  BY <1>7, <2>1, <2>2, <2>3, <2>4, <2>5 DEF KeyInv, Link
<1>12. RawInv
  BY <1>1, <1>6, <1>7, <1>8 DEF RawInv, RawSafe
<1>13. BackupInv
  BY <1>1, <1>6, <1>7, <1>8 DEF BackupInv, Uncounted
<1>14. TodoInv /\ KeyPhase /\ BackupPhase
  BY <1>8 DEF TodoInv, Plans, KeyPhase, BackupPhase
<1>15. DrillInv
  BY <1>8 DEF DrillInv, ArtifactOnly
<1> QED  BY <1>10, <1>11, <1>12, <1>13, <1>14, <1>15 DEF IInv

LEMMA StepInv == IInv /\ Next => IInv'
<1> SUFFICES ASSUME IInv, Next  PROVE IInv'
  OBVIOUS
<1>1. TypeOK'
  BY TypeStep
<1>2. TodoInv'
  BY TodoStep DEF IInv
<1>3. KeyInv' /\ RawInv'
  BY KeyStep DEF IInv
<1>4. KeyPhase'
  BY KeyPhaseStep DEF IInv
<1>5. BackupInv' /\ BackupPhase'
  BY BackupStep, BackupPhaseStep DEF IInv
<1>6. DrillInv'
  BY DrillStep DEF IInv
<1> QED  BY <1>1, <1>2, <1>3, <1>4, <1>5, <1>6 DEF IInv

LEMMA StutterInv == IInv /\ UNCHANGED vars => IInv'
<1> SUFFICES ASSUME IInv, UNCHANGED vars  PROVE IInv'
  OBVIOUS
<1>0. /\ UNCHANGED <<disk, ring, keyFiles, bound, drawn, torn, faults>>
      /\ UNCHANGED <<candidates, receipt, switchedBy, generation, counter,
                     archives, drilled, evidence, hosts, artifact>>
      /\ UNCHANGED <<up, proc, todo, arg>>
  BY DEF vars, keyringVars, custodyVars, backupVars, readinessVars, procVars
<1>1. TypeOK'
  BY <1>0 DEF IInv, TypeOK, KeyringTypeOK
<1>2. TodoInv'
  BY <1>0 DEF IInv, TodoInv
<1>3. KeyInv' /\ RawInv'
  BY <1>0, QuietKeys DEF IInv
<1>4. KeyPhase'
  BY <1>0 DEF IInv, KeyPhase, MayRetireFile
<1>5. BackupInv'
  BY <1>0, QuietBackups, KeyTypes DEF IInv, BackupInv, Uncounted
<1>6. BackupPhase'
  BY <1>0 DEF IInv, BackupPhase
<1>7. DrillInv'
  BY <1>0 DEF IInv, DrillInv, Drilled
<1> QED  BY <1>1, <1>2, <1>3, <1>4, <1>5, <1>6, <1>7 DEF IInv

\* The operations of custody, backup, readiness and rotation keep the manifests,
\* the roots, the archives and the evidence in step, wherever one is cut off.
THEOREM RecoveryInductive == Spec => []IInv
<1>1. Init => IInv
  BY InitInv
<1>2. IInv /\ [Next]_vars => IInv'
  BY StepInv, StutterInv
<1> QED  BY <1>1, <1>2, PTL DEF Spec

\* Every variable of ProfileKeyring, BackupArchive and ReadinessEvidenceStore
\* keeps its type, and the evidence refers to archives that exist.
THEOREM RecoveryTypes == Spec => []TypeOK
<1>1. IInv => TypeOK
  BY DEF IInv
<1> QED  BY <1>1, RecoveryInductive, PTL

\* prepare, activate and retire of the custody move, begin_rotation and
\* retire_previous_key can be cut off anywhere and be finished later.
THEOREM CustodyCanBeResumed == Spec => []CustodyResumable
<1>1. IInv => CustodyResumable
  BY DEF IInv, KeyInv, Rooted, CustodyResumable
<1> QED  BY <1>1, RecoveryInductive, PTL

\* retire_file_custody removes a raw key file in another process than the one
\* whose activate_custody_migration moved the root.
THEOREM AnotherProcessRetires == Spec => FreshProcessRetires
<1> DEFINE Retires == \A k \in keyFiles \ keyFiles' : k \in disk.opaque => proc # switchedBy
<1>1. IInv /\ Next => Retires
  <2>1. SUFFICES ASSUME IInv, Next, NEW k \in keyFiles \ keyFiles', k \in disk.opaque
                 PROVE  proc # switchedBy
    OBVIOUS
  <2>2. k \in disk.held /\ k \in Keys /\ Sound(disk)
    BY <2>1, LinkFacts, SoundKeys DEF IInv, Sound
  <2>3. UnlinkRaw \/ Activate \/ Unlink
    BY <2>1 DEF Next, MigrateCustody, BackupVerify, RestoreDrill, DescribeCustody,
       WriteReceipt, SwitchCustody, Publish, RetireFileCustody, PromoteCustody,
       UnlinkReceipt, BackupCreate, Publication, PublishArchive, AdvanceGeneration,
       RecordBackup, InvalidateRecovery, QualifyArtifact, QualifyHost, HostExpires,
       Upgrade, RotateKey, DrawKey, VerifyRotation, RetirePreviousKey,
       RetireInManifest, StepFails, Restart, CloseAndOpen, Reopen, keyringVars
  <2>4. CASE Activate
    <3>1. drawn \notin disk.held
      BY <2>1, <2>4 DEF IInv, KeyPhase, Activate, At
    <3> QED  BY <2>1, <2>2, <2>4, <3>1 DEF Activate, ActivateKey, ActivateKeyFails
  <2>5. CASE Unlink
    <3>1. arg \notin disk.held
      BY <2>1, <2>5 DEF IInv, KeyPhase, Unlink, At
    <3> QED  BY <2>1, <2>2, <2>5, <3>1 DEF Unlink, RemoveKey
  <2>6. CASE UnlinkRaw
    <3>1. k = ring.active /\ ring.active \in ring.opaque
          /\ bound[ring.active] = "active"
      BY <2>1, <2>6 DEF UnlinkRaw, At, IInv, KeyPhase
    <3>2. switchedBy < proc /\ switchedBy \in Nat /\ proc \in Nat
      BY <2>1, <3>1, ProcTypes DEF IInv, RawInv, RawSafe
    <3> QED  BY <3>2
  <2> QED  BY <2>3, <2>4, <2>5, <2>6
<1>2. UNCHANGED vars => Retires
  BY DEF vars, keyringVars
<1> HIDE DEF Retires
<1>3. IInv /\ [Next]_vars => [Retires]_vars
  BY <1>1
<1>4. [][Retires]_vars => FreshProcessRetires
  BY DEF FreshProcessRetires, Retires
<1>5. []IInv /\ [][Next]_vars => [][Retires]_vars
  BY <1>3, PTL
<1> QED  BY <1>4, <1>5, RecoveryInductive, PTL DEF Spec

\* Of two archives whose advance_monotonic_generation returned, verify refuses
\* the older one.
THEOREM RollbackRefused == Spec => []OlderBackupRefused
<1>1. IInv => OlderBackupRefused
  <2>1. SUFFICES ASSUME IInv, NEW a \in DOMAIN archives, NEW b \in DOMAIN archives,
                        a < b, archives[a].key = archives[b].key,
                        archives[a].state # "published",
                        archives[b].state # "published", Accepts(a)
                 PROVE  FALSE
    BY DEF OlderBackupRefused
  <2>2. archives[a].generation < archives[b].generation
    BY <2>1 DEF IInv, BackupInv, Increasing
  <2>3. archives[b].generation <= generation[archives[b].key]
        /\ archives[b].generation > 0
    BY <2>1 DEF IInv, BackupInv, Kept, WellFormed
  <2>4. archives[a].key = ring.active /\ ring.active \in Keys
    BY <2>1, LinkFacts, SoundKeys DEF IInv, Accepts, Authentic
  <2>5. /\ archives[a].generation \in Nat /\ archives[b].generation \in Nat
        /\ generation[ring.active] \in Nat
    BY <2>1, <2>4 DEF IInv, TypeOK, Archives
  <2>6. ring.active \in ring.opaque
    BY <2>1, <2>3, <2>4, <2>5 DEF IInv, BackupInv, Uncounted
  <2>7. archives[a].generation >= generation[ring.active]
    BY <2>1, <2>6 DEF Accepts, InCustody
  <2> QED  BY <2>1, <2>2, <2>3, <2>4, <2>5, <2>7
<1> QED  BY <1>1, RecoveryInductive, PTL

\* A profile that build_capabilities_v1 or the guided set-up calls ready names a
\* backup that was drilled and that restores again, with every root it needs,
\* unless a later backup advanced the device and was cut off.
THEOREM ReadyCanBeRestored == Spec => []ReadyMeansRestorable
<1>1. IInv => ReadyMeansRestorable
  <2>1. SUFFICES ASSUME IInv, (up /\ Ready) \/ ReadyToActivate
                 PROVE  /\ evidence.backup \in drilled
                        /\ \/ Restores(evidence.backup)
                           \/ \E b \in DOMAIN archives :
                                 /\ b > evidence.backup
                                 /\ archives[b].state = "advanced"
    BY DEF ReadyMeansRestorable
  <2>2. PICK m \in {ring, disk} :
          /\ RestoreValid(m) /\ QualifiedCustody(m)
          /\ m = ring \/ Loads(disk)
    <3>1. CASE up /\ Ready
      BY <3>1 DEF Ready, LocalGate
    <3>2. CASE ReadyToActivate
      <4>1. Inspected.restore /\ Inspected.custody /\ Loads(disk)
        BY <3>2 DEF ReadyToActivate, InspectorOpens, Blocking, Inspected
      <4> QED  BY <4>1 DEF Inspected
    <3> QED  BY <2>1, <3>1, <3>2
  <2>3. m.active = ring.active
    <3>1. CASE m = ring
      BY <3>1
    <3>2. CASE Loads(disk)
      <4>1. ~torn
        BY <2>1, <3>2, LinkFacts DEF IInv, KeyInv, Loads, Sound
      <4> QED  BY <2>1, <2>2, <4>1, LinkFacts DEF IInv
    <3> QED  BY <2>2, <3>1, <3>2
  <2>4. bound[ring.active] = "active" /\ ring.active \in ring.opaque
    BY <2>1, <2>2, <2>3 DEF IInv, KeyInv, QualifiedCustody
  <2>5. PICK a : a = evidence.backup
    OBVIOUS
  <2>6. a # 0 /\ archives[a].key = ring.active /\ evidence.restore = a
    BY <2>2, <2>3, <2>5 DEF RestoreValid, BackupValid
  <2>7. Drilled(a) /\ a \in DOMAIN archives
    BY <2>1, <2>6 DEF IInv, DrillInv, TypeOK, Drilled
  <2>8. Kept(a)
    BY <2>1, <2>7 DEF IInv, BackupInv
  <2>9. /\ archives[a].keyring.active = archives[a].key
        /\ archives[a].keyring.held = {ring.active}
    BY <2>6, <2>7, <2>8 DEF Kept, Drilled
  <2>10. Opens(a)
    BY <2>4, <2>6, <2>7, <2>9 DEF Opens, BoundTo, Drilled
  <2>11. archives[a].generation >= generation[ring.active] => Restores(a)
    BY <2>6, <2>8, <2>10 DEF Restores, Accepts, Authentic, Kept
  <2> QED  BY <2>5, <2>6, <2>7, <2>11 DEF Drilled
<1> QED  BY <1>1, RecoveryInductive, PTL

=============================================================================
