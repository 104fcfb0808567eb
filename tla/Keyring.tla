------------------------------ MODULE Keyring ------------------------------
(***************************************************************************)
(* ProfileKeyring (agent_security.py): the manifest of a profile's keys    *)
(* and the key files it refers to.                                         *)
(*                                                                         *)
(* disk is keyring.json, ring the copy that the open process works from,   *)
(* keyFiles the raw files under keys/.  The root of an opaque key is in    *)
(* native custody instead (the helper process is external): bound is the   *)
(* state of the descriptor that refers to its item.  Keys are numbered in  *)
(* the order in which they are drawn: the number also stands for the epoch.*)
(* A manifest is replaced by writing a temporary file, renaming it over    *)
(* the old one and checking what was published: the call can raise before  *)
(* the rename, or after it, when the new manifest is already on disk.      *)
(***************************************************************************)
EXTENDS Naturals, FiniteSets

CONSTANTS
  MaxKeys,     \* how many keys are ever drawn
  MaxFaults    \* how many steps may fail for a reason of their own

ASSUME KeyringAssumption == MaxKeys \in Nat \ {0} /\ MaxFaults \in Nat

Keys == 1 .. MaxKeys
NoKey == 0

VARIABLES
  disk,      \* the manifest on disk
  ring,      \* ProfileKeyring._manifest
  keyFiles,  \* keys whose raw file exists
  bound,     \* state of a key's custody descriptor, "none" without one
  drawn,     \* the last key drawn
  torn,      \* the manifest on disk names a key that begin_rotation removed
  faults

keyringVars == <<disk, ring, keyFiles, bound, drawn, torn, faults>>

Manifest == [active : Keys, held : SUBSET Keys, opaque : SUBSET Keys,
             v3 : BOOLEAN, rotation : {"none", "migrating", "verified"}]

\* _create_manifest
FirstManifest == [active |-> 1, held |-> {1}, opaque |-> {}, v3 |-> FALSE,
                  rotation |-> "none"]

\* The key that a rotation leaves behind.
Source(m) == IF m.rotation = "none" THEN NoKey
             ELSE CHOOSE k \in m.held : k # m.active

Fault ==
  /\ faults < MaxFaults
  /\ faults' = faults + 1

\* A profile at rest, in file or in native custody.
KeyringInit(m) ==
  /\ disk = m /\ ring = m
  /\ keyFiles = m.held \ m.opaque
  /\ bound = [k \in Keys |-> IF k \in m.opaque THEN "active" ELSE "none"]
  /\ drawn = 1 /\ torn = FALSE

\* _atomic_write_json returns.
Publish(m) ==
  /\ disk' = m /\ ring' = m
  /\ torn' = FALSE

\* _atomic_write_json raises, before or after the rename.
PublishFails(m) ==
  /\ Fault
  /\ disk' \in {disk, m}
  /\ UNCHANGED ring

\* A manifest that was renamed is whole, whatever it replaced.
MayMend == torn' = (torn /\ disk' = disk)

\* begin_rotation: a fresh key, with its own file or its own custody item and
\* descriptor, like the key that it follows.
DrawKey ==
  /\ drawn < MaxKeys
  /\ drawn' = drawn + 1
  /\ IF ring.active \in ring.opaque
     THEN bound' = [bound EXCEPT ![drawn + 1] = "active"] /\ UNCHANGED keyFiles
     ELSE keyFiles' = keyFiles \cup {drawn + 1} /\ UNCHANGED bound

\* begin_rotation: the manifest that makes it the active key.
Rotated(m, k) ==
  [m EXCEPT !.active = k, !.held = @ \cup {k}, !.rotation = "migrating",
            !.opaque = IF m.active \in @ THEN @ \cup {k} ELSE @]

ActivateKey ==
  /\ Publish(Rotated(ring, drawn))
  /\ UNCHANGED <<keyFiles, bound, drawn, faults>>

\* begin_rotation takes every failure to mean that nothing was published, and
\* removes the new key file, or the new item and its descriptor.
ActivateKeyFails ==
  /\ PublishFails(Rotated(ring, drawn))
  /\ keyFiles' = keyFiles \ {drawn}
  /\ bound' = [bound EXCEPT ![drawn] = "none"]
  /\ torn' = (torn \/ disk' = Rotated(ring, drawn))
  /\ UNCHANGED drawn

\* mark_rotation_verified
Verified(m) == [m EXCEPT !.rotation = "verified"]

\* retire_previous_key: the manifest first; the key file, or the item and its
\* descriptor, after it.
Retired(m) == [m EXCEPT !.held = {m.active}, !.opaque = @ \cap {m.active},
                        !.rotation = "none"]

RetireInManifest ==
  /\ ring.rotation = "verified"
  /\ Publish(Retired(ring))
  /\ UNCHANGED <<keyFiles, bound, drawn, faults>>

\* An opaque key's raw file, if any, is not looked for.
RemoveKey(k, wasOpaque) ==
  /\ IF wasOpaque
     THEN bound' = [bound EXCEPT ![k] = "none"] /\ UNCHANGED keyFiles
     ELSE keyFiles' = keyFiles \ {k} /\ UNCHANGED bound
  /\ UNCHANGED <<disk, ring, drawn, torn, faults>>

\* enable_record_envelope_v3
WithV3(m) == [m EXCEPT !.v3 = TRUE]

CanEnableV3(m) == m.rotation = "none" /\ (m.v3 \/ m.held = {m.active})

\* _load_referenced_keys: every key of the manifest has its file, or a
\* descriptor that was verified.
Loads(m) == \A k \in m.held :
  IF k \in m.opaque THEN bound[k] \in {"verified", "active"} ELSE k \in keyFiles

KeyringTypeOK ==
  /\ \A m \in {disk, ring} :
        /\ m \in Manifest
        /\ m.active \in m.held
        /\ IF m.rotation = "none" THEN m.held = {m.active}
           ELSE \E k \in Keys \ {m.active} : m.held = {m.active, k}
  /\ keyFiles \subseteq Keys
  /\ bound \in [Keys -> {"none", "verified", "active"}]
  /\ drawn \in Keys /\ torn \in BOOLEAN
  /\ faults \in 0 .. MaxFaults
=============================================================================
