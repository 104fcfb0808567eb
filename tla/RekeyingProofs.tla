--------------------------- MODULE RekeyingProofs ---------------------------
(***************************************************************************)
(* The two procedures that rewrite a whole profile: key rotation with      *)
(* envelope activation, for any number of keys, records and faults and any *)
(* batch size, and the migration into a new profile, for any number of     *)
(* records, any contracts and any faults.                                  *)
(*                                                                         *)
(* Rekeying.  The invariants rest on each other and on where the operation *)
(* under way has got to: a rotation may be marked verified only because    *)
(* the steps before the mark have left nothing under the old key that the  *)
(* count does not see.  IInv adds that: how the manifest in memory and the *)
(* one on disk can differ, which keys have their file, and what holds      *)
(* after each step of an operation.                                        *)
(*                                                                         *)
(* Migration.  MigrationInv says how the source is linked and marked, what *)
(* a target is between the runs of migrate_to, and how far a run has come: *)
(* what it has read, what it has created and set up, and what each of its  *)
(* handlers puts back.  The twin of a record is the only one that names it *)
(* as its origin, and a chain of supersession has one end, so that the     *)
(* verifier that follows both chains compares the same two records.        *)
(***************************************************************************)
EXTENDS Rekeying, Migration, FiniteSetTheorems, SequenceTheorems, WellFoundedInduction,
        TLAPS

Steps == {"draw", "activate", "readiness", "signing", "lsh", "anchors", "rows",
          "records", "tombs", "verify", "prepare", "enable", "gate", "unlink"}

\* The steps that an operation begins with.
Full == CASE op = "rotate" -> RotateSteps
          [] op = "envelope" -> EnvelopeSteps
          [] OTHER -> <<"unlink">>

\* t is what is left of s.
Suffix(t, s) ==
  /\ Len(t) <= Len(s)
  /\ \A i \in 1 .. Len(t) : t[i] = s[Len(s) - Len(t) + i]

TodoInv ==
  /\ todo \in Seq(Steps)
  /\ todo # <<>> => up /\ op # "none" /\ Suffix(todo, Full)

\* The manifest in memory is the one on disk, unless a write failed after the
\* rename: of a rotation, of its verification or of the activation.
Link ==
  \/ ring = disk
  \/ /\ up
     /\ \/ /\ ring.rotation = "none"
           /\ \E k \in Keys \ ring.held : disk = Rotated(ring, k)
        \/ ring.rotation = "migrating" /\ disk = Verified(ring)
        \/ ring.rotation = "none" /\ ~ring.v3 /\ disk = WithV3(ring)

KeyInv ==
  /\ ring.opaque = {}
  /\ Link
  /\ up => ring.held \subseteq keyFiles
  /\ ~torn => disk.held \subseteq keyFiles
  /\ \A k \in disk.held : k <= drawn

\* A ciphertext is read with the manifest in memory; it is not under the key
\* that a verified rotation leaves, nor in v2 once the activation is verified.
Fine(c) ==
  /\ c # Absent => c.key \in ring.held \cap keyFiles /\ (c.ver = 3 => ring.v3)
  /\ disk.rotation = "verified" => c.key # Source(disk)
  /\ envelope = "verified" => c.ver # 2

\* The same of a key that wraps a file.
WrapFine(k) ==
  /\ k # NoKey => k \in ring.held \cap keyFiles /\ ring.v3
  /\ disk.rotation = "verified" => k # Source(disk)

DataInv ==
  /\ \A r \in Records : Fine(row[r]) /\ Fine(tomb[r]) /\ Fine(life[r])
                          /\ Fine(anchor[r])
  /\ WrapFine(signing) /\ WrapFine(evidence)
  /\ disk.rotation = "verified" => lsh.key # Source(disk)

EnvelopeInv ==
  /\ envelope \in {"migrating", "verified"} => ring.v3
  /\ disk.v3 => envelope # "inactive"
  /\ \A r \in Records : anchor[r].ver = 2 => life[r].ver = 2

\* What a rotation has behind it, by the number of steps it has left.
RotatePhase ==
  op = "rotate" /\ todo # <<>> =>
    /\ Len(todo) >= 9 => ring.rotation = "none"
    /\ Len(todo) = 9 => drawn \in keyFiles /\ \A k \in disk.held : k < drawn
    /\ Len(todo) <= 8 => ring.rotation = "migrating"
    /\ Len(todo) <= 7 => evidence # Source(ring)
    /\ Len(todo) <= 6 => signing # Source(ring)
    /\ Len(todo) <= 5 => lsh.key # Source(ring)
    /\ Len(todo) <= 4 => Uses(anchor, Source(ring)) = {}

\* The same of an activation.
EnvelopePhase ==
  op = "envelope" /\ todo # <<>> =>
    /\ ring.rotation = "none"
    /\ Len(todo) <= 9 => envelope # "inactive"
    /\ Len(todo) <= 8 => ring.v3
    /\ Len(todo) <= 5 => envelope \in {"migrating", "verified"}
    /\ Len(todo) <= 4 /\ left > 0 => OldVersion(anchor) = {}

RetirePhase ==
  op = "retire" /\ todo # <<>> => victim \in Keys \ disk.held

IInv ==
  /\ TypeOK /\ TodoInv /\ KeyInv /\ DataInv /\ EnvelopeInv
  /\ RotatePhase /\ EnvelopePhase /\ RetirePhase

-----------------------------------------------------------------------------
(* Lemmas about sets of records, manifests and sequences of steps *)

\* A set of naturals that is not empty has a least element.
LEMMA Least ==
  ASSUME NEW S, S \subseteq Nat, S # {}
  PROVE  \E x \in S : \A y \in S : x <= y
<1>1. PICK x \in S : \A y \in S : ~(<<y, x>> \in OpToRel(<, Nat))
  BY NatLessThanWellFounded, WFMin
<1>2. \A y \in S : ~(y < x)
  BY <1>1 DEF OpToRel
<1> QED  BY <1>2

\* Eligible has the record that rotate_batch takes first.
LEMMA MinIn ==
  ASSUME NEW S, S \subseteq Nat, S # {}
  PROVE  Min(S) \in S
BY Least DEF Min

LEMMA RecordsFinite ==
  ASSUME NEW S \in SUBSET Records
  PROVE  /\ IsFiniteSet(S) /\ Cardinality(S) \in Nat
         /\ Cardinality(S) = 0 => S = {}
<1>1. IsFiniteSet(Records)
  BY FS_Interval, RekeyingAssumption DEF Records
<1>2. IsFiniteSet(S)
  BY <1>1, FS_Subset
<1> QED  BY <1>2, FS_CardinalityType, FS_EmptySet

\* A batch has at most n records, and everything when it has fewer.
LEMMA FirstBatch ==
  ASSUME NEW S \in SUBSET Records, NEW n \in Nat
  PROVE  /\ First(S, n) \subseteq S
         /\ Cardinality(First(S, n)) \in 0 .. n
         /\ Cardinality(First(S, n)) < n => First(S, n) = S
<1> DEFINE Below(r) == {s \in S : s < r}
           F == First(S, n)
<1>1. F \subseteq S /\ \A r \in S : r \in F <=> Cardinality(Below(r)) < n
  BY DEF First
<1>2. \A r \in S : r \in Nat /\ r <= MaxRecords
  BY RekeyingAssumption DEF Records
<1>3. IsFiniteSet(F) /\ Cardinality(F) \in Nat
  BY <1>1, RecordsFinite
<1>4. \A r \in S : IsFiniteSet(Below(r)) /\ Cardinality(Below(r)) \in Nat
  BY RecordsFinite
<1> HIDE DEF F
<1>5. ASSUME F # {}  PROVE Cardinality(F) <= n
  <2> DEFINE D == {MaxRecords - r : r \in F}
  <2>1. D \subseteq Nat /\ D # {}
    BY <1>1, <1>2, <1>5, RekeyingAssumption
  <2>2. PICK d \in D : \A e \in D : d <= e
    BY <2>1, Least
  <2>3. PICK m \in F : d = MaxRecords - m
    OBVIOUS
  <2>4. \A r \in F : r <= m
    <3>1. TAKE r \in F
    <3>2. MaxRecords - m <= MaxRecords - r
      BY <2>2, <2>3
    <3> QED  BY <3>2, <2>3, <1>1, <1>2, RekeyingAssumption
  <2>5. F \subseteq Below(m) \cup {m}
    BY <2>3, <2>4, <1>1, <1>2
  <2>6. Cardinality(Below(m)) < n /\ Cardinality(Below(m)) \in Nat
    BY <2>3, <1>1, <1>4
  <2>7. /\ IsFiniteSet(Below(m) \cup {m})
        /\ Cardinality(Below(m) \cup {m}) <= Cardinality(Below(m)) + 1
        /\ Cardinality(Below(m) \cup {m}) \in Nat
    <3> DEFINE B == Below(m)
    <3>1. IsFiniteSet(B) /\ Cardinality(B) \in Nat
      BY <2>3, <1>1, <1>4
    <3> HIDE DEF B
    <3>2. IsFiniteSet(B \cup {m}) /\ Cardinality(B \cup {m}) <= Cardinality(B) + 1
      BY <3>1, FS_AddElement
    <3> QED  BY <3>2, FS_CardinalityType DEF B
  <2>8. Cardinality(F) <= Cardinality(Below(m) \cup {m})
    BY <2>5, <2>7, FS_Subset
  <2> QED  BY <2>6, <2>7, <2>8, <1>3
<1>6. F = {} => Cardinality(F) <= n
  BY FS_EmptySet
<1>7. ASSUME F # S  PROVE  Cardinality(F) >= n
  <2>1. S \ F \subseteq Nat /\ S \ F # {}
    BY <1>1, <1>2, <1>7
  <2>2. PICK r \in S \ F : \A t \in S \ F : r <= t
    BY <2>1, Least
  <2>3. Below(r) \subseteq F
    BY <2>2, <1>2
  <2>4. Cardinality(Below(r)) \in Nat /\ ~(Cardinality(Below(r)) < n)
    BY <2>2, <1>1, <1>4
  <2>5. Cardinality(Below(r)) <= Cardinality(F)
    BY <2>3, <1>3, FS_Subset
  <2> QED  BY <2>4, <2>5, <1>3
<1>8. Cardinality(F) \in 0 .. n /\ (Cardinality(F) < n => F = S)
  BY <1>3, <1>5, <1>6, <1>7
<1> QED  BY <1>1, <1>8 DEF F

\* What a manifest of the open profile is.
Sound(m) ==
  /\ m \in Manifest
  /\ m.active \in m.held
  /\ IF m.rotation = "none" THEN m.held = {m.active}
     ELSE \E k \in Keys \ {m.active} : m.held = {m.active, k}

LEMMA KeyringSound ==
  ASSUME KeyringTypeOK
  PROVE  Sound(disk) /\ Sound(ring)
BY DEF KeyringTypeOK, Sound

\* A rotation has one key to leave behind.
LEMMA SourceIs ==
  ASSUME NEW m, Sound(m), m.rotation # "none"
  PROVE  /\ Source(m) \in Keys /\ Source(m) # m.active /\ Source(m) # NoKey
         /\ m.held = {m.active, Source(m)}
<1>1. PICK k \in Keys \ {m.active} : m.held = {m.active, k}
  BY DEF Sound
<1>2. Source(m) = CHOOSE j \in m.held : j # m.active
  BY DEF Source
<1>3. Source(m) \in m.held /\ Source(m) # m.active
  BY <1>1, <1>2
<1>4. Source(m) # NoKey
  BY <1>1, <1>3, KeyringAssumption DEF Keys, NoKey, Sound, Manifest
<1> QED  BY <1>1, <1>3, <1>4

\* The manifests that the operations publish.
LEMMA RotatedIs ==
  ASSUME NEW m, Sound(m), m.rotation = "none", m.opaque = {},
         NEW k \in Keys \ m.held
  PROVE  /\ Sound(Rotated(m, k))
         /\ Rotated(m, k).held = m.held \cup {k} /\ Rotated(m, k).active = k
         /\ Rotated(m, k).rotation = "migrating" /\ Rotated(m, k).v3 = m.v3
         /\ Rotated(m, k).opaque = {}
         /\ Source(Rotated(m, k)) = m.active
<1> DEFINE n == Rotated(m, k)
<1>1. /\ n.held = {m.active, k} /\ n.active = k /\ n.rotation = "migrating"
      /\ n.v3 = m.v3 /\ n.opaque = {} /\ n \in Manifest
  BY DEF Rotated, Sound, Manifest
<1>2. m.active \in Keys \ {k} /\ n.held = {n.active, m.active}
  BY <1>1 DEF Sound, Manifest
<1>3. Sound(n)
  BY <1>1, <1>2 DEF Sound
<1>4. Source(n) = m.active
  BY <1>1, <1>2, <1>3, SourceIs
<1> QED  BY <1>1, <1>3, <1>4 DEF Sound

LEMMA VerifiedIs ==
  ASSUME NEW m, Sound(m), m.rotation = "migrating"
  PROVE  /\ Sound(Verified(m))
         /\ Verified(m).held = m.held /\ Verified(m).active = m.active
         /\ Verified(m).rotation = "verified" /\ Verified(m).v3 = m.v3
         /\ Verified(m).opaque = m.opaque
         /\ Source(Verified(m)) = Source(m)
<1> DEFINE n == Verified(m)
<1>1. /\ n.held = m.held /\ n.active = m.active /\ n.rotation = "verified"
      /\ n.v3 = m.v3 /\ n.opaque = m.opaque /\ n \in Manifest
  BY DEF Verified, Sound, Manifest
<1>2. Sound(n)
  BY <1>1 DEF Sound
<1>3. Source(n) = Source(m)
  BY <1>1 DEF Source
<1> QED  BY <1>1, <1>2, <1>3

LEMMA RetiredIs ==
  ASSUME NEW m, Sound(m)
  PROVE  /\ Sound(Retired(m))
         /\ Retired(m).held = {m.active} /\ Retired(m).active = m.active
         /\ Retired(m).rotation = "none" /\ Retired(m).v3 = m.v3
         /\ m.opaque = {} => Retired(m).opaque = {}
BY DEF Retired, Sound, Manifest

LEMMA WithV3Is ==
  ASSUME NEW m, Sound(m)
  PROVE  /\ Sound(WithV3(m))
         /\ WithV3(m).held = m.held /\ WithV3(m).active = m.active
         /\ WithV3(m).rotation = m.rotation /\ WithV3(m).v3 = TRUE
         /\ WithV3(m).opaque = m.opaque
BY DEF WithV3, Sound, Manifest

\* What the manifest on disk has in common with the one in memory.
LEMMA LinkFacts ==
  ASSUME KeyringTypeOK, KeyInv
  PROVE  /\ ring.held \subseteq disk.held /\ (ring.v3 => disk.v3)
         /\ disk.opaque = {}
         /\ disk.rotation = "verified" =>
              /\ ring.active = disk.active /\ ring.held = disk.held
              /\ ring.rotation # "none" /\ Source(ring) = Source(disk)
         /\ ~up => ring = disk
<1>1. Sound(disk) /\ Sound(ring)
  BY KeyringSound
<1>2. CASE ring = disk
  BY <1>2, <1>1, SourceIs DEF KeyInv
<1>3. CASE ring.rotation = "none" /\ up /\
           \E k \in Keys \ ring.held : disk = Rotated(ring, k)
  BY <1>3, <1>1, RotatedIs DEF KeyInv
<1>4. CASE ring.rotation = "migrating" /\ up /\ disk = Verified(ring)
  BY <1>4, <1>1, VerifiedIs DEF KeyInv
<1>5. CASE ring.rotation = "none" /\ up /\ ~ring.v3 /\ disk = WithV3(ring)
  BY <1>5, <1>1, WithV3Is DEF KeyInv
<1> QED  BY <1>2, <1>3, <1>4, <1>5 DEF KeyInv, Link

-----------------------------------------------------------------------------
(* Where an operation has got to *)

LEMMA FullSteps ==
  /\ RotateSteps \in Seq(Steps) /\ Len(RotateSteps) = 10
  /\ EnvelopeSteps \in Seq(Steps) /\ Len(EnvelopeSteps) = 10
  /\ <<"unlink">> \in Seq(Steps) /\ Len(<<"unlink">>) = 1
BY DEF RotateSteps, EnvelopeSteps, Steps

LEMMA SuffixTail ==
  ASSUME NEW s \in Seq(Steps), NEW t \in Seq(Steps), Suffix(t, s), t # <<>>
  PROVE  /\ Tail(t) \in Seq(Steps) /\ Suffix(Tail(t), s)
         /\ Len(Tail(t)) = Len(t) - 1 /\ Len(t) \in 1 .. Len(s)
         /\ Head(t) = s[Len(s) - Len(t) + 1]
         /\ Tail(t) # <<>> <=> Len(t) > 1
<1>1. Len(t) \in Nat /\ Len(s) \in Nat /\ Len(t) # 0
  OBVIOUS
<1>2. Tail(t) \in Seq(Steps) /\ Len(Tail(t)) = Len(t) - 1
  BY <1>1
<1>3. Suffix(Tail(t), s)
  BY <1>1, <1>2 DEF Suffix
<1>4. Head(t) = s[Len(s) - Len(t) + 1] /\ Len(t) \in 1 .. Len(s)
  BY <1>1 DEF Suffix
<1>5. Tail(t) # <<>> <=> Len(t) > 1
  <2> DEFINE u == Tail(t)
  <2>1. u \in Seq(Steps) /\ Len(u) = Len(t) - 1
    BY <1>2
  <2> HIDE DEF u
  <2>2. u # <<>> <=> Len(u) > 0
    BY <2>1, EmptySeq
  <2> QED  BY <1>1, <2>1, <2>2 DEF u
<1> QED  BY <1>2, <1>3, <1>4, <1>5

\* The step that an operation is at gives the number of steps it has left.
LEMMA StepsLeft ==
  ASSUME TodoInv, todo # <<>>
  PROVE  /\ op = "rotate" =>
              /\ Len(todo) \in 1 .. 10
              /\ Head(todo) = RotateSteps[11 - Len(todo)]
         /\ op = "envelope" =>
              /\ Len(todo) \in 1 .. 10
              /\ Head(todo) = EnvelopeSteps[11 - Len(todo)]
         /\ op \notin {"rotate", "envelope"} =>
              Len(todo) = 1 /\ Head(todo) = "unlink"
         /\ todo' = Tail(todo) =>
              /\ todo' \in Seq(Steps) /\ Suffix(todo', Full)
              /\ Len(todo') = Len(todo) - 1
              /\ todo' # <<>> <=> Len(todo) > 1
<1>1. todo \in Seq(Steps) /\ Suffix(todo, Full)
  BY DEF TodoInv
<1>2. /\ op = "rotate" => Full = RotateSteps
      /\ op = "envelope" => Full = EnvelopeSteps
      /\ op \notin {"rotate", "envelope"} => Full = <<"unlink">>
  BY DEF Full
<1>3. Full \in Seq(Steps)
  BY <1>2, FullSteps
<1>4. /\ Len(todo) \in 1 .. Len(Full)
      /\ Head(todo) = Full[Len(Full) - Len(todo) + 1]
      /\ Tail(todo) \in Seq(Steps) /\ Suffix(Tail(todo), Full)
      /\ Len(Tail(todo)) = Len(todo) - 1
      /\ Tail(todo) # <<>> <=> Len(todo) > 1
  BY <1>1, <1>3, SuffixTail
<1>5. /\ op = "rotate" => Len(Full) = 10
      /\ op = "envelope" => Len(Full) = 10
      /\ op \notin {"rotate", "envelope"} => Len(Full) = 1
  BY <1>2, FullSteps
<1>6. Len(Full) = 10 => Len(Full) - Len(todo) + 1 = 11 - Len(todo)
  BY <1>4
<1>7. op \notin {"rotate", "envelope"} => Len(todo) = 1 /\ Head(todo) = "unlink"
  <2>1. <<"unlink">>[1] = "unlink"
    OBVIOUS
  <2>2. Len(Full) = 1 => Len(todo) = 1 /\ Head(todo) = Full[1]
    BY <1>4
  <2> QED  BY <1>2, <1>5, <2>1, <2>2
<1> QED  BY <1>2, <1>4, <1>5, <1>6, <1>7

LEMMA RotateLeft ==
  ASSUME NEW n \in 1 .. 10, NEW h, h = RotateSteps[11 - n]
  PROVE  /\ h = "draw" <=> n = 10
         /\ h = "activate" <=> n = 9
         /\ h = "readiness" <=> n = 8
         /\ h = "signing" <=> n = 7
         /\ h = "lsh" <=> n = 6
         /\ h = "anchors" <=> n = 5
         /\ h = "rows" <=> n = 4
         /\ h = "records" <=> n = 3
         /\ h = "tombs" <=> n = 2
         /\ h = "verify" <=> n = 1
         /\ h \notin {"prepare", "enable", "gate", "unlink"}
<1>1. /\ RotateSteps[1] = "draw" /\ RotateSteps[2] = "activate"
      /\ RotateSteps[3] = "readiness" /\ RotateSteps[4] = "signing"
      /\ RotateSteps[5] = "lsh" /\ RotateSteps[6] = "anchors"
      /\ RotateSteps[7] = "rows" /\ RotateSteps[8] = "records"
      /\ RotateSteps[9] = "tombs" /\ RotateSteps[10] = "verify"
  BY DEF RotateSteps
<1>2. /\ (n = 10 => 11 - n = 1) /\ (n = 9 => 11 - n = 2)
      /\ (n = 8 => 11 - n = 3) /\ (n = 7 => 11 - n = 4)
      /\ (n = 6 => 11 - n = 5) /\ (n = 5 => 11 - n = 6)
      /\ (n = 4 => 11 - n = 7) /\ (n = 3 => 11 - n = 8)
      /\ (n = 2 => 11 - n = 9) /\ (n = 1 => 11 - n = 10)
  OBVIOUS
<1>3. /\ (n = 10 => h = "draw") /\ (n = 9 => h = "activate")
      /\ (n = 8 => h = "readiness") /\ (n = 7 => h = "signing")
      /\ (n = 6 => h = "lsh") /\ (n = 5 => h = "anchors")
      /\ (n = 4 => h = "rows") /\ (n = 3 => h = "records")
      /\ (n = 2 => h = "tombs") /\ (n = 1 => h = "verify")
  BY <1>1, <1>2
<1>4. \/ n = 1 \/ n = 2 \/ n = 3 \/ n = 4 \/ n = 5
      \/ n = 6 \/ n = 7 \/ n = 8 \/ n = 9 \/ n = 10
  OBVIOUS
<1> QED  BY <1>3, <1>4

LEMMA EnvelopeLeft ==
  ASSUME NEW n \in 1 .. 10, NEW h, h = EnvelopeSteps[11 - n]
  PROVE  /\ h = "prepare" <=> n = 10
         /\ h = "enable" <=> n = 9
         /\ h = "signing" <=> n = 8
         /\ h = "lsh" <=> n = 7
         /\ h = "gate" <=> n = 6
         /\ h = "anchors" <=> n = 5
         /\ h = "rows" <=> n = 4
         /\ h = "records" <=> n = 3
         /\ h = "tombs" <=> n = 2
         /\ h = "verify" <=> n = 1
         /\ h \notin {"draw", "activate", "readiness", "unlink"}
<1>1. /\ EnvelopeSteps[1] = "prepare" /\ EnvelopeSteps[2] = "enable"
      /\ EnvelopeSteps[3] = "signing" /\ EnvelopeSteps[4] = "lsh"
      /\ EnvelopeSteps[5] = "gate" /\ EnvelopeSteps[6] = "anchors"
      /\ EnvelopeSteps[7] = "rows" /\ EnvelopeSteps[8] = "records"
      /\ EnvelopeSteps[9] = "tombs" /\ EnvelopeSteps[10] = "verify"
  BY DEF EnvelopeSteps
<1>2. /\ (n = 10 => 11 - n = 1) /\ (n = 9 => 11 - n = 2)
      /\ (n = 8 => 11 - n = 3) /\ (n = 7 => 11 - n = 4)
      /\ (n = 6 => 11 - n = 5) /\ (n = 5 => 11 - n = 6)
      /\ (n = 4 => 11 - n = 7) /\ (n = 3 => 11 - n = 8)
      /\ (n = 2 => 11 - n = 9) /\ (n = 1 => 11 - n = 10)
  OBVIOUS
<1>3. /\ (n = 10 => h = "prepare") /\ (n = 9 => h = "enable")
      /\ (n = 8 => h = "signing") /\ (n = 7 => h = "lsh")
      /\ (n = 6 => h = "gate") /\ (n = 5 => h = "anchors")
      /\ (n = 4 => h = "rows") /\ (n = 3 => h = "records")
      /\ (n = 2 => h = "tombs") /\ (n = 1 => h = "verify")
  BY <1>1, <1>2
<1>4. \/ n = 1 \/ n = 2 \/ n = 3 \/ n = 4 \/ n = 5
      \/ n = 6 \/ n = 7 \/ n = 8 \/ n = 9 \/ n = 10
  OBVIOUS
<1> QED  BY <1>3, <1>4

\* Both, for the operation under way.
LEMMA Where ==
  ASSUME TodoInv, op \in {"none", "rotate", "envelope", "retire"}, todo # <<>>
  PROVE  /\ op = "rotate" =>
              /\ Head(todo) = "draw" <=> Len(todo) = 10
              /\ Head(todo) = "activate" <=> Len(todo) = 9
              /\ Head(todo) = "readiness" <=> Len(todo) = 8
              /\ Head(todo) = "signing" <=> Len(todo) = 7
              /\ Head(todo) = "lsh" <=> Len(todo) = 6
              /\ Head(todo) = "anchors" <=> Len(todo) = 5
              /\ Head(todo) = "rows" <=> Len(todo) = 4
              /\ Head(todo) = "records" <=> Len(todo) = 3
              /\ Head(todo) = "tombs" <=> Len(todo) = 2
              /\ Head(todo) = "verify" <=> Len(todo) = 1
              /\ Head(todo) \notin {"prepare", "enable", "gate", "unlink"}
         /\ op = "envelope" =>
              /\ Head(todo) = "prepare" <=> Len(todo) = 10
              /\ Head(todo) = "enable" <=> Len(todo) = 9
              /\ Head(todo) = "signing" <=> Len(todo) = 8
              /\ Head(todo) = "lsh" <=> Len(todo) = 7
              /\ Head(todo) = "gate" <=> Len(todo) = 6
              /\ Head(todo) = "anchors" <=> Len(todo) = 5
              /\ Head(todo) = "rows" <=> Len(todo) = 4
              /\ Head(todo) = "records" <=> Len(todo) = 3
              /\ Head(todo) = "tombs" <=> Len(todo) = 2
              /\ Head(todo) = "verify" <=> Len(todo) = 1
              /\ Head(todo) \notin {"draw", "activate", "readiness", "unlink"}
         /\ op = "retire" => Len(todo) = 1 /\ Head(todo) = "unlink"
         /\ op \in {"rotate", "envelope", "retire"} /\ up
         /\ Len(todo) \in 1 .. 10
<1>1. op # "none" /\ up
  BY DEF TodoInv
<1>2. CASE op = "rotate"
  <2>1. Len(todo) \in 1 .. 10 /\ Head(todo) = RotateSteps[11 - Len(todo)]
    BY <1>2, StepsLeft
  <2> QED  BY <1>1, <1>2, <2>1, RotateLeft
<1>3. CASE op = "envelope"
  <2>1. Len(todo) \in 1 .. 10 /\ Head(todo) = EnvelopeSteps[11 - Len(todo)]
    BY <1>3, StepsLeft
  <2> QED  BY <1>1, <1>3, <2>1, EnvelopeLeft
<1>4. CASE op = "retire"
  BY <1>1, <1>4, StepsLeft
<1> QED  BY <1>1, <1>2, <1>3, <1>4

\* A step leaves the steps of the operation alone, ends it, goes on to the next
\* step or begins an operation.
Progress ==
  \/ UNCHANGED <<todo, op>> /\ (todo # <<>> => up')
  \/ todo' = <<>>
  \/ todo # <<>> /\ todo' = Tail(todo) /\ UNCHANGED <<op, up>>
  \/ up' /\ op' = "rotate" /\ todo' \in {RotateSteps, Tail(Tail(RotateSteps))}
  \/ up' /\ op' = "envelope" /\ todo' = EnvelopeSteps
  \/ up' /\ op' = "retire" /\ todo' = <<"unlink">>

LEMMA ProgressStep ==
  ASSUME TodoInv, Next
  PROVE  Progress
<1> USE DEF Progress, TodoInv
<1>1. ASSUME NEW r \in Records, Remember(r) \/ Forget(r) \/ Archive(r) \/ Corrupt(r)
      PROVE  Progress
  BY <1>1 DEF Remember, Forget, Archive, Corrupt, procVars
<1>2. CASE Save \/ RecordEvidence
  BY <1>2 DEF Save, RecordEvidence, procVars
<1>3. CASE RotateKey \/ MigrateEnvelope \/ RetirePreviousKey
  BY <1>3 DEF RotateKey, MigrateEnvelope, RetirePreviousKey, Idle
<1>4. CASE Draw \/ Activate \/ InvalidateRecovery \/ ProtectSigningKey
             \/ RotateLshIndex \/ RewrapAnchors
  BY <1>4 DEF Draw, Activate, InvalidateRecovery, ProtectSigningKey,
     RotateLshIndex, RewrapAnchors, Proceed, Abandon, At
<1>5. CASE RotateRow \/ ReencryptRecord \/ RotateTombstone
  BY <1>5 DEF RotateRow, ReencryptRecord, RotateTombstone, Turn
<1>6. CASE RowsDone \/ RecordsDone \/ TombstonesDone
  BY <1>6 DEF RowsDone, RecordsDone, TombstonesDone, EndLoop, At
<1>7. CASE VerifyRotation \/ VerifyEnvelope \/ Prepare \/ EnableV3 \/ EnableWrites
             \/ Unlink \/ StepFails
  BY <1>7 DEF VerifyRotation, VerifyEnvelope, Prepare, EnableV3, EnableWrites,
     Unlink, StepFails, Proceed, Abandon, At
<1>8. CASE Crash \/ FinishActivation \/ Open
  BY <1>8 DEF Crash, FinishActivation, Open, procVars
<1> QED  BY <1>1, <1>2, <1>3, <1>4, <1>5, <1>6, <1>7, <1>8 DEF Next

LEMMA TodoStep ==
  ASSUME TodoInv, Progress
  PROVE  TodoInv'
<1>1. CASE UNCHANGED <<todo, op>> /\ (todo # <<>> => up')
  BY <1>1 DEF TodoInv, Full
<1>2. CASE todo' = <<>>
  BY <1>2, EmptySeq DEF TodoInv
<1>3. CASE todo # <<>> /\ todo' = Tail(todo) /\ UNCHANGED <<op, up>>
  <2>1. todo' \in Seq(Steps) /\ Suffix(todo', Full)
    BY <1>3, StepsLeft
  <2>2. Full' = Full
    BY <1>3 DEF Full
  <2> QED  BY <1>3, <2>1, <2>2 DEF TodoInv
<1>4. ASSUME NEW s \in Seq(Steps)  PROVE Suffix(s, s)
  BY <1>4 DEF Suffix
<1>5. CASE up' /\ op' = "rotate" /\ todo' \in {RotateSteps, Tail(Tail(RotateSteps))}
  <2>1. Full' = RotateSteps
    BY <1>5 DEF Full
  <2>2. RotateSteps \in Seq(Steps) /\ Suffix(RotateSteps, RotateSteps)
    BY <1>4, FullSteps
  <2>3. RotateSteps # <<>> /\ Tail(RotateSteps) # <<>>
    BY FullSteps, <2>2, SuffixTail DEF RotateSteps
  <2>4. Tail(RotateSteps) \in Seq(Steps) /\ Suffix(Tail(RotateSteps), RotateSteps)
    BY <2>2, <2>3, SuffixTail
  <2>5. /\ Tail(Tail(RotateSteps)) \in Seq(Steps)
        /\ Suffix(Tail(Tail(RotateSteps)), RotateSteps)
    BY <2>2, <2>3, <2>4, SuffixTail
  <2> QED  BY <1>5, <2>1, <2>2, <2>5 DEF TodoInv
<1>6. CASE up' /\ op' = "envelope" /\ todo' = EnvelopeSteps
  BY <1>4, <1>6, FullSteps DEF TodoInv, Full
<1>7. CASE up' /\ op' = "retire" /\ todo' = <<"unlink">>
  BY <1>4, <1>7, FullSteps DEF TodoInv, Full
<1> QED  BY <1>1, <1>2, <1>3, <1>5, <1>6, <1>7 DEF Progress

-----------------------------------------------------------------------------
(* The manifests and the key files *)

\* A step that publishes no manifest and touches no key file.
KeysSame ==
  /\ UNCHANGED <<disk, ring, keyFiles, bound, drawn, torn>>
  /\ faults' \in {faults, faults + 1} /\ faults' \in 0 .. MaxFaults

LEMMA SameStep ==
  ASSUME IInv, Next
  PROVE  \/ KeysSame /\ UNCHANGED up
         \/ Draw \/ Activate \/ VerifyRotation \/ EnableV3 \/ Unlink
         \/ RetirePreviousKey \/ Crash \/ FinishActivation \/ Open
<1>0. faults \in 0 .. MaxFaults /\ MaxFaults \in Nat
  BY KeyringAssumption DEF IInv, TypeOK, KeyringTypeOK
<1>1. faults' = faults \/ Fault => faults' \in {faults, faults + 1} /\ faults' \in 0 .. MaxFaults
  BY <1>0 DEF Fault
<1> USE <1>1 DEF KeysSame
<1>2. ASSUME NEW r \in Records, Remember(r) \/ Forget(r) \/ Archive(r) \/ Corrupt(r)
      PROVE  KeysSame /\ UNCHANGED up
  BY <1>2 DEF Remember, Forget, Archive, Corrupt, procVars, keyringVars
<1>3. Save \/ RecordEvidence \/ RotateKey \/ MigrateEnvelope => KeysSame /\ UNCHANGED up
  BY DEF Save, RecordEvidence, RotateKey, MigrateEnvelope, procVars, keyringVars
<1>4. InvalidateRecovery \/ ProtectSigningKey \/ RotateLshIndex
        => KeysSame /\ UNCHANGED up
  BY DEF InvalidateRecovery, ProtectSigningKey, RotateLshIndex, Proceed, keyringVars
<1>5. RewrapAnchors => KeysSame /\ UNCHANGED up
  BY DEF RewrapAnchors, Abandon
<1>6. RotateRow \/ ReencryptRecord \/ RotateTombstone => KeysSame /\ UNCHANGED up
  BY DEF RotateRow, ReencryptRecord, RotateTombstone, Turn, keyringVars
<1>7. RowsDone \/ RecordsDone \/ TombstonesDone => KeysSame /\ UNCHANGED up
  BY DEF RowsDone, RecordsDone, TombstonesDone, keyringVars
<1>8. VerifyEnvelope \/ Prepare \/ EnableWrites \/ StepFails => KeysSame /\ UNCHANGED up
  BY DEF VerifyEnvelope, Prepare, EnableWrites, StepFails, Proceed, Abandon, keyringVars
<1> QED  BY <1>2, <1>3, <1>4, <1>5, <1>6, <1>7, <1>8 DEF Next

LEMMA KeyStep ==
  ASSUME IInv, Next
  PROVE  KeyringTypeOK' /\ KeyInv'
<1> USE DEF KeyringTypeOK, KeyInv
<1>1. KeyringTypeOK /\ KeyInv /\ TodoInv /\ op \in {"none", "rotate", "envelope", "retire"}
  BY DEF IInv, TypeOK
<1>2. Sound(disk) /\ Sound(ring)
  BY <1>1, KeyringSound
<1>3. /\ ring.held \subseteq disk.held /\ (ring.v3 => disk.v3) /\ disk.opaque = {}
      /\ ~up => ring = disk
  BY <1>1, LinkFacts
<1>4. ring.active \in Keys /\ disk.active \in Keys /\ ring.held \subseteq Keys
        /\ disk.held \subseteq Keys /\ drawn \in Nat
  BY <1>1, <1>2, KeyringAssumption DEF Sound, Manifest, Keys
<1>5. \A k \in disk.held \cup ring.held : k \in Nat
  BY <1>3, <1>4, KeyringAssumption DEF Keys
<1>6. faults' = faults \/ Fault => faults' \in 0 .. MaxFaults
  BY <1>1, KeyringAssumption DEF Fault
<1>7. ASSUME KeysSame, UNCHANGED up  PROVE KeyringTypeOK' /\ KeyInv'
  BY <1>1, <1>3, <1>7 DEF KeysSame, Link
<1>8. CASE Draw
  <2>1. /\ drawn' = drawn + 1 /\ drawn < MaxKeys
        /\ keyFiles' = keyFiles \cup {drawn + 1}
        /\ UNCHANGED <<disk, ring, torn, faults, bound, up>>
    BY <1>8, <1>1 DEF Draw, DrawKey, Proceed
  <2>2. drawn' \in Keys
    BY <2>1, <1>1, KeyringAssumption DEF Keys
  <2>3. \A k \in disk.held : k <= drawn'
    BY <2>1, <1>1, <1>4, <1>5
  <2> QED  BY <2>1, <2>2, <2>3, <1>1 DEF Link
<1>9. CASE Activate
  <2>1. up /\ op = "rotate" /\ Len(todo) = 9
    BY <1>1, <1>9, Where DEF Activate, At
  <2>2. ring.rotation = "none" /\ drawn \in keyFiles /\ \A k \in disk.held : k < drawn
    BY <2>1, <1>9 DEF IInv, RotatePhase, Activate, At
  <2>3. drawn \in Keys \ ring.held /\ drawn \notin disk.held
    BY <2>2, <1>1, <1>3, <1>4
  <2> DEFINE m == Rotated(ring, drawn)
  <2>4. /\ Sound(m) /\ m.held = ring.held \cup {drawn} /\ m.opaque = {}
        /\ m = Rotated(ring, drawn)
    BY <1>1, <1>2, <2>2, <2>3, RotatedIs
  <2> HIDE DEF m
  <2>5. \A k \in m.held : k <= drawn
    BY <2>2, <2>4, <1>3, <1>4, <1>5
  <2>6. CASE ActivateKey /\ Proceed
    <3>1. disk' = m /\ ring' = m /\ torn' = FALSE
            /\ UNCHANGED <<keyFiles, bound, drawn, faults, up>>
      BY <2>6, <2>4 DEF ActivateKey, Publish, Proceed
    <3> QED  BY <3>1, <2>1, <2>2, <2>4, <2>5, <1>1 DEF Sound, Link
  <2>7. CASE ActivateKeyFails /\ Abandon
    <3>1. /\ disk' \in {disk, m} /\ ring' = ring /\ Fault
          /\ keyFiles' = keyFiles \ {drawn}
          /\ bound' = [bound EXCEPT ![drawn] = "none"]
          /\ torn' = (torn \/ disk' = m)
          /\ UNCHANGED <<drawn, up>>
      BY <2>7, <2>4 DEF ActivateKeyFails, PublishFails, Abandon
    <3>2. /\ bound' \in [Keys -> {"none", "verified", "active"}]
          /\ torn' \in BOOLEAN /\ keyFiles' \subseteq Keys
      BY <3>1, <1>1
    <3>3. Link'
      BY <3>1, <2>1, <2>2, <2>3, <2>4, <1>1 DEF Link
    <3>4. /\ Sound(disk)' /\ Sound(ring)'
      BY <3>1, <2>4, <1>2 DEF Sound
    <3>5. /\ up' => ring'.held \subseteq keyFiles'
          /\ ~torn' => disk'.held \subseteq keyFiles'
          /\ \A k \in disk'.held : k <= drawn'
      BY <3>1, <2>3, <2>4, <2>5, <1>1, <1>3
    <3> QED  BY <3>1, <3>2, <3>3, <3>4, <3>5, <1>1, <1>6 DEF Sound
  <2> QED  BY <2>6, <2>7, <1>9 DEF Activate
<1>10. CASE VerifyRotation
  <2>1. up /\ op = "rotate" /\ Len(todo) = 1
    BY <1>1, <1>10, Where DEF VerifyRotation, At
  <2>2. ring.rotation = "migrating"
    BY <2>1, <1>10 DEF IInv, RotatePhase, VerifyRotation, At
  <2> DEFINE m == Verified(ring)
  <2>3. Sound(m) /\ m.held = ring.held /\ m.opaque = {} /\ m = Verified(ring)
    BY <1>1, <1>2, <2>2, VerifiedIs
  <2> HIDE DEF m
  <2>4. UNCHANGED <<keyFiles, bound, drawn, up>>
    BY <1>10 DEF VerifyRotation, Proceed
  <2>5. \/ disk' = m /\ ring' = m /\ torn' = FALSE /\ faults' = faults
        \/ disk' = m /\ ring' = ring /\ torn' \in BOOLEAN /\ (~torn' => ~torn \/ disk' # disk) /\ Fault
        \/ UNCHANGED <<disk, ring, torn>> /\ (faults' = faults \/ Fault)
    BY <1>1, <1>10, <2>3 DEF VerifyRotation, Publish, PublishFails, MayMend
  <2>6. Sound(disk)' /\ Sound(ring)'
    BY <2>3, <2>5, <1>2 DEF Sound
  <2>7. Link'
    BY <2>1, <2>2, <2>3, <2>4, <2>5, <1>1 DEF Link
  <2>8. /\ up' => ring'.held \subseteq keyFiles'
        /\ ~torn' => disk'.held \subseteq keyFiles'
        /\ \A k \in disk'.held : k <= drawn'
    BY <2>1, <2>3, <2>4, <2>5, <1>1, <1>3
  <2> QED  BY <2>3, <2>4, <2>5, <2>6, <2>7, <2>8, <1>1, <1>6 DEF Sound
<1>11. CASE EnableV3
  <2>1. up /\ ring.rotation = "none" /\ UNCHANGED <<keyFiles, bound, drawn, up>>
    BY <1>11 DEF EnableV3, At, CanEnableV3, Proceed, Abandon
  <2> DEFINE m == WithV3(ring)
  <2>2. Sound(m) /\ m.held = ring.held /\ m.opaque = {} /\ m = WithV3(ring)
    BY <1>1, <1>2, WithV3Is
  <2> HIDE DEF m
  <2>3. \/ disk' = m /\ ring' = m /\ torn' = FALSE /\ faults' = faults
        \/ disk' = m /\ ring' = ring /\ ~ring.v3 /\ torn' \in BOOLEAN /\ Fault
        \/ UNCHANGED <<disk, ring, torn>> /\ (faults' = faults \/ Fault)
    BY <1>1, <1>11, <2>2 DEF EnableV3, Publish, PublishFails, MayMend
  <2>4. Sound(disk)' /\ Sound(ring)'
    BY <2>2, <2>3, <1>2 DEF Sound
  <2>5. Link'
    BY <2>1, <2>2, <2>3, <1>1 DEF Link
  <2>6. /\ up' => ring'.held \subseteq keyFiles'
        /\ ~torn' => disk'.held \subseteq keyFiles'
        /\ \A k \in disk'.held : k <= drawn'
    BY <2>1, <2>2, <2>3, <1>1, <1>3
  <2> QED  BY <2>1, <2>2, <2>3, <2>4, <2>5, <2>6, <1>1, <1>6 DEF Sound
<1>12. CASE Unlink
  <2>1. op = "retire" /\ todo # <<>>
    BY <1>1, <1>12, Where DEF Unlink, At
  <2>2. victim \notin disk.held
    BY <2>1 DEF IInv, RetirePhase
  <2>3. /\ keyFiles' = keyFiles \ {victim}
        /\ UNCHANGED <<disk, ring, bound, drawn, torn, faults, up>>
    BY <1>12 DEF Unlink, RemoveKey, Proceed
  <2> QED  BY <2>2, <2>3, <1>1, <1>3 DEF Link
<1>13. CASE RetirePreviousKey
  <2> DEFINE m == Retired(ring)
  <2>1. /\ disk' = m /\ ring' = m /\ torn' = FALSE /\ up
        /\ UNCHANGED <<keyFiles, bound, drawn, faults, up>>
    BY <1>13 DEF RetirePreviousKey, RetireInManifest, Publish, Idle
  <2>2. Sound(m) /\ m.held = {ring.active} /\ m.opaque = {}
    BY <1>1, <1>2, RetiredIs
  <2> HIDE DEF m
  <2>3. m.held \subseteq ring.held
    BY <2>2, <1>2 DEF Sound
  <2> QED  BY <2>1, <2>2, <2>3, <1>1, <1>3 DEF Sound, Link
<1>14. CASE Crash
  BY <1>14, <1>1, <1>3 DEF Crash, Link
<1>15. CASE FinishActivation
  <2> DEFINE m == WithV3(disk)
  <2>1. /\ disk' = m /\ ring' = m /\ torn' = FALSE /\ ~up
        /\ UNCHANGED <<keyFiles, bound, drawn, faults, up>>
    BY <1>15 DEF FinishActivation, Publish, procVars
  <2>2. Sound(m) /\ m.held = disk.held /\ m.opaque = {}
    BY <1>2, <1>3, WithV3Is
  <2>3. disk.held \subseteq keyFiles
    BY <1>15, <1>3 DEF FinishActivation, Acceptable, Loads
  <2> HIDE DEF m
  <2> QED  BY <2>1, <2>2, <2>3, <1>1, <1>3 DEF Sound, Link
<1>16. CASE Open
  <2>1. disk.held \subseteq keyFiles
    BY <1>16, <1>3 DEF Open, Acceptable, Loads
  <2> QED  BY <2>1, <1>16, <1>1, <1>3 DEF Open, keyringVars, Link
<1> QED  BY SameStep, <1>7, <1>8, <1>9, <1>10, <1>11, <1>12, <1>13, <1>14, <1>15, <1>16

-----------------------------------------------------------------------------
(* What is encrypted *)

\* A step that takes no key away from what is encrypted, and marks nothing
\* verified.
Keeps ==
  /\ ring.held \subseteq ring'.held
  /\ \A k \in ring.held \cap keyFiles : k \in keyFiles'
  /\ ring.v3 => ring'.v3
  /\ disk' = disk \/ disk'.rotation # "verified"
  /\ envelope' = "verified" => envelope = "verified"

LEMMA EnvelopeSame ==
  ASSUME IInv, Next
  PROVE  \/ UNCHANGED envelope
         \/ VerifyEnvelope \/ Prepare \/ EnableWrites \/ Open
<1>1. ASSUME NEW r \in Records, Remember(r) \/ Forget(r) \/ Archive(r) \/ Corrupt(r)
      PROVE  UNCHANGED envelope
  BY <1>1 DEF Remember, Forget, Archive, Corrupt
<1>2. Save \/ RecordEvidence \/ RotateKey \/ MigrateEnvelope \/ RetirePreviousKey
        => UNCHANGED envelope
  BY DEF Save, RecordEvidence, RotateKey, MigrateEnvelope, RetirePreviousKey
<1>3. Draw \/ Activate \/ InvalidateRecovery \/ ProtectSigningKey \/ RotateLshIndex
        \/ RewrapAnchors => UNCHANGED envelope
  BY DEF Draw, Activate, InvalidateRecovery, ProtectSigningKey, RotateLshIndex,
     RewrapAnchors
<1>4. RotateRow \/ ReencryptRecord \/ RotateTombstone \/ RowsDone \/ RecordsDone
        \/ TombstonesDone => UNCHANGED envelope
  BY DEF RotateRow, ReencryptRecord, RotateTombstone, RowsDone, RecordsDone,
     TombstonesDone
<1>5. VerifyRotation \/ EnableV3 \/ Unlink \/ StepFails \/ Crash \/ FinishActivation
        => UNCHANGED envelope
  BY DEF VerifyRotation, EnableV3, Unlink, StepFails, Crash, FinishActivation
<1> QED  BY <1>1, <1>2, <1>3, <1>4, <1>5 DEF Next

LEMMA KeepsStep ==
  ASSUME IInv, Next, ~VerifyRotation, ~VerifyEnvelope, ~RetirePreviousKey
  PROVE  Keeps
<1>1. KeyringTypeOK /\ KeyInv /\ TodoInv /\ op \in {"none", "rotate", "envelope", "retire"}
  BY DEF IInv, TypeOK
<1>2. Sound(disk) /\ Sound(ring)
  BY <1>1, KeyringSound
<1>3. /\ ring.held \subseteq disk.held /\ (ring.v3 => disk.v3)
      /\ ~up => ring = disk
  BY <1>1, LinkFacts
<1>4. envelope' = "verified" => envelope = "verified"
  <2>1. Prepare \/ EnableWrites \/ Open => (envelope' = "verified" => envelope = "verified")
    BY DEF Prepare, EnableWrites, Open, OpenGate
  <2> QED  BY <2>1, EnvelopeSame
<1> USE DEF Keeps
<1>5. KeysSame => Keeps
  BY <1>4 DEF KeysSame
<1>6. Draw => Keeps
  BY <1>4 DEF Draw, DrawKey
<1>7. CASE Activate
  <2>1. op = "rotate" /\ Len(todo) = 9 /\ todo # <<>>
    BY <1>1, <1>7, Where DEF Activate, At
  <2>2. ring.rotation = "none" /\ \A k \in disk.held : k < drawn
    BY <2>1 DEF IInv, RotatePhase
  <2>3. drawn \in Keys \ ring.held
    BY <2>2, <1>1, <1>3, KeyringAssumption DEF KeyringTypeOK, Keys
  <2> DEFINE m == Rotated(ring, drawn)
  <2>4. m.held = ring.held \cup {drawn} /\ m.v3 = ring.v3 /\ m.rotation = "migrating"
    BY <1>1, <1>2, <2>2, <2>3, RotatedIs DEF KeyInv
  <2> HIDE DEF m
  <2>5. \/ disk' = m /\ ring' = m /\ UNCHANGED keyFiles
        \/ disk' \in {disk, m} /\ ring' = ring /\ keyFiles' = keyFiles \ {drawn}
    BY <1>7 DEF Activate, ActivateKey, ActivateKeyFails, Publish, PublishFails, m
  <2> QED  BY <2>3, <2>4, <2>5, <1>4
<1>8. CASE EnableV3
  <2> DEFINE m == WithV3(ring)
  <2>1. m.held = ring.held /\ m.v3 = TRUE /\ m.rotation = "none"
    BY <1>8, <1>2, WithV3Is DEF EnableV3, CanEnableV3
  <2> HIDE DEF m
  <2>2. disk' \in {disk, m} /\ ring' \in {ring, m} /\ UNCHANGED keyFiles
    BY <1>8 DEF EnableV3, Publish, PublishFails, m
  <2> QED  BY <2>1, <2>2, <1>4
<1>9. CASE Unlink
  <2>1. victim \notin disk.held
    BY <1>1, <1>9, Where DEF Unlink, At, IInv, RetirePhase
  <2> QED  BY <2>1, <1>3, <1>4, <1>9 DEF Unlink, RemoveKey
<1>10. CASE Crash
  BY <1>3, <1>4, <1>10 DEF Crash
<1>11. CASE FinishActivation
  <2> DEFINE m == WithV3(disk)
  <2>1. m.held = disk.held /\ m.v3 = TRUE /\ m.rotation = "none"
    BY <1>11, <1>2, WithV3Is DEF FinishActivation, CanEnableV3
  <2> HIDE DEF m
  <2>2. disk' = m /\ ring' = m /\ UNCHANGED keyFiles
    BY <1>11 DEF FinishActivation, Publish, m
  <2> QED  BY <2>1, <2>2, <1>3, <1>4
<1>12. Open => Keeps
  BY <1>4 DEF Open, keyringVars
<1> QED  BY SameStep, <1>5, <1>6, <1>7, <1>8, <1>9, <1>10, <1>11, <1>12

LEMMA FineStep ==
  ASSUME Keeps, NEW c, Fine(c)
  PROVE  Fine(c)'
BY DEF Keeps, Fine

LEMMA WrapStep ==
  ASSUME Keeps, NEW k, WrapFine(k)
  PROVE  WrapFine(k)'
BY DEF Keeps, WrapFine

\* A map from records to ciphertexts, all of them fine.
GoodMap(f) ==
  /\ f \in [Records -> Ciphertexts]
  /\ \A r \in Records : Fine(f[r])

LEMMA AbsentIs ==
  ASSUME IInv
  PROVE  /\ Absent \in Ciphertexts /\ Fine(Absent)
         /\ \A c \in Ciphertexts : c # Absent =>
              c.key \in Keys /\ c.key # NoKey /\ c.ver \in {2, 3}
         /\ Absent.key = NoKey /\ Absent.ver = 0
<1>1. Sound(disk) /\ (disk.rotation = "verified" => Source(disk) # NoKey)
  BY KeyringSound, SourceIs DEF IInv, TypeOK
<1> QED  BY <1>1, KeyringAssumption DEF Absent, Ciphertexts, Fine, Keys, NoKey

LEMMA MapsGood ==
  ASSUME IInv
  PROVE  GoodMap(row) /\ GoodMap(tomb) /\ GoodMap(life) /\ GoodMap(anchor)
BY DEF IInv, TypeOK, DataInv, GoodMap

\* What is written under the active key.
LEMMA NewCell ==
  ASSUME IInv, ring.held \subseteq keyFiles, NEW v \in {2, 3}, v = 3 => ring.v3,
         envelope = "verified" => v = 3
  PROVE  LET c == [key |-> ring.active, ver |-> v]
         IN c \in Ciphertexts /\ Fine(c)
<1>1. KeyringTypeOK /\ KeyInv
  BY DEF IInv, TypeOK
<1>2. Sound(disk) /\ Sound(ring)
  BY <1>1, KeyringSound
<1>3. ring.active \in Keys /\ ring.active \in ring.held
  BY <1>2 DEF Sound, Manifest
<1>4. disk.rotation = "verified" => ring.active # Source(disk)
  BY <1>1, <1>2, LinkFacts, SourceIs
<1> QED  BY <1>3, <1>4 DEF Ciphertexts, Fine

LEMMA NewWrap ==
  ASSUME IInv, ring.held \subseteq keyFiles, ring.v3
  PROVE  WrapFine(ring.active) /\ ring.active \in Keys
<1>1. KeyringTypeOK /\ KeyInv
  BY DEF IInv, TypeOK
<1>2. Sound(disk) /\ Sound(ring)
  BY <1>1, KeyringSound
<1>3. ring.active \in Keys /\ ring.active \in ring.held
  BY <1>2 DEF Sound, Manifest
<1>4. disk.rotation = "verified" => ring.active # Source(disk)
  BY <1>1, <1>2, LinkFacts, SourceIs
<1> QED  BY <1>3, <1>4 DEF WrapFine

\* The steps that convert, and what they make of a map.
Converting == up /\ todo # <<>> /\ op \in {"rotate", "envelope"} /\ Len(todo) <= 5

LEMMA ConvertIs ==
  ASSUME IInv, Converting, NEW f, GoodMap(f), NEW S, S \subseteq Old(f)
  PROVE  /\ GoodMap(Convert(f, S))
         /\ \A r \in Records :
              /\ r \notin S => Convert(f, S)[r] = f[r]
              /\ op = "rotate" => Convert(f, S)[r].ver = f[r].ver
              /\ op = "rotate" /\ r \in S => Convert(f, S)[r].key = ring.active
              /\ op = "envelope" /\ r \in S => Convert(f, S)[r].ver = 3
<1>1. KeyringTypeOK /\ KeyInv /\ TodoInv /\ op \in {"none", "rotate", "envelope", "retire"}
  BY DEF IInv, TypeOK
<1>2. ring.held \subseteq keyFiles /\ Len(todo) \in 1 .. 10
  BY <1>1, Where DEF KeyInv, Converting
<1>3. op = "rotate" => ring.rotation = "migrating" /\ Source(ring) # NoKey
  <2>1. op = "rotate" => ring.rotation = "migrating"
    BY <1>2 DEF IInv, RotatePhase, Converting
  <2> QED  BY <1>1, <2>1, KeyringSound, SourceIs
<1>4. op = "envelope" => ring.v3
  BY <1>2 DEF IInv, EnvelopePhase, Converting
<1> DEFINE g == Convert(f, S)
<1>5. ASSUME NEW r \in Records
      PROVE  /\ g[r] \in Ciphertexts /\ Fine(g[r])
             /\ r \notin S => g[r] = f[r]
             /\ op = "rotate" => g[r].ver = f[r].ver
             /\ op = "rotate" /\ r \in S => g[r].key = ring.active
             /\ op = "envelope" /\ r \in S => g[r].ver = 3
  <2>1. f[r] \in Ciphertexts /\ Fine(f[r])
    BY <1>5 DEF GoodMap
  <2>2. CASE r \notin S
    BY <2>1, <2>2, <1>5 DEF Convert, Converting
  <2>3. CASE r \in S /\ op = "rotate"
    <3>1. f[r].key # NoKey
      BY <2>3, <1>3 DEF Old, Uses
    <3>2. f[r] # Absent
      BY <3>1, AbsentIs
    <3>3. f[r] = [key |-> f[r].key, ver |-> f[r].ver] /\ f[r].ver \in {2, 3}
            /\ f[r].key \in Keys
      BY <2>1, <3>2 DEF Ciphertexts
    <3>4. g[r] = [f[r] EXCEPT !.key = ring.active]
      BY <1>5, <2>3 DEF Convert, Reencrypted
    <3>5. g[r] = [key |-> ring.active, ver |-> f[r].ver]
      BY <3>3, <3>4
    <3>6. (f[r].ver = 3 => ring.v3) /\ (envelope = "verified" => f[r].ver = 3)
      BY <2>1, <3>2, <3>3 DEF Fine
    <3>7. g[r] \in Ciphertexts /\ Fine(g[r])
      BY <3>3, <3>5, <3>6, <1>2, NewCell
    <3> QED  BY <2>3, <3>5, <3>7
  <2>4. CASE r \in S /\ op = "envelope"
    <3>1. f[r].ver = 2
      BY <2>4 DEF Old, OldVersion
    <3>2. f[r] # Absent
      BY <3>1, AbsentIs
    <3>3. f[r] = [key |-> f[r].key, ver |-> f[r].ver] /\ f[r].key \in Keys
      BY <2>1, <3>2 DEF Ciphertexts
    <3>4. g[r] = [f[r] EXCEPT !.ver = 3]
      BY <1>5, <2>4 DEF Convert, Reencrypted
    <3>5. g[r] = [key |-> f[r].key, ver |-> 3]
      BY <3>3, <3>4
    <3>6. /\ f[r].key \in ring.held \cap keyFiles
          /\ disk.rotation = "verified" => f[r].key # Source(disk)
      BY <2>1, <3>2 DEF Fine
    <3>7. ASSUME NEW k \in Keys, k \in ring.held \cap keyFiles,
                 disk.rotation = "verified" => k # Source(disk)
          PROVE  /\ [key |-> k, ver |-> 3] \in Ciphertexts
                 /\ Fine([key |-> k, ver |-> 3])
      BY <3>7, <1>4, <2>4 DEF Ciphertexts, Fine
    <3>8. g[r] \in Ciphertexts /\ Fine(g[r])
      BY <3>3, <3>5, <3>6, <3>7
    <3> QED  BY <2>4, <3>5, <3>8
  <2> QED  BY <2>2, <2>3, <2>4 DEF Converting
<1>6. g = [r \in Records |-> g[r]]
  BY DEF Convert
<1>7. GoodMap(g)
  <2> HIDE DEF g
  <2> QED  BY <1>5, <1>6 DEF GoodMap
<1> QED  BY <1>5, <1>7

\* At one of these steps the operation is converting.
LEMMA ConvertingAt ==
  ASSUME IInv, NEW s \in {"anchors", "rows", "records", "tombs"}, At(s)
  PROVE  Converting /\ (s # "anchors" => Len(todo) <= 4) /\ (s = "anchors" => Len(todo) = 5)
<1>1. TodoInv /\ op \in {"none", "rotate", "envelope", "retire"} /\ todo # <<>> /\ up
        /\ Head(todo) = s
  BY DEF IInv, TypeOK, At
<1>2. /\ op = "rotate" \/ op = "envelope"
      /\ (s = "anchors" => Len(todo) = 5) /\ (s = "rows" => Len(todo) = 4)
      /\ (s = "records" => Len(todo) = 3) /\ (s = "tombs" => Len(todo) = 2)
  BY <1>1, Where
<1> QED  BY <1>1, <1>2 DEF Converting

LEMMA SavedIs ==
  ASSUME IInv, NEW a, GoodMap(a)
  PROVE  /\ GoodMap(Saved(a))
         /\ \A r \in Records : a[r] # Absent => Saved(a)[r] = a[r]
<1>1. GoodMap(life)
  BY MapsGood
<1> QED  BY <1>1 DEF Saved, GoodMap

\* A map with one entry written anew.
LEMMA PutIs ==
  ASSUME NEW f, GoodMap(f), NEW r \in Records, NEW c \in Ciphertexts, Fine(c)
  PROVE  GoodMap([f EXCEPT ![r] = c]) /\ [f EXCEPT ![r] = c][r] = c
BY DEF GoodMap

\* Every step leaves maps that the present manifest reads.
LEMMA MapsMove ==
  ASSUME IInv, Next
  PROVE  GoodMap(row') /\ GoodMap(tomb') /\ GoodMap(life') /\ GoodMap(anchor')
<1>0. GoodMap(row) /\ GoodMap(tomb) /\ GoodMap(life) /\ GoodMap(anchor)
  BY MapsGood
<1>1. Absent \in Ciphertexts /\ Fine(Absent)
  BY AbsentIs
<1>2. /\ up => ring.held \subseteq keyFiles
      /\ envelope \in {"migrating", "verified"} => ring.v3
  BY DEF IInv, KeyInv, EnvelopeInv
<1>3. ASSUME CanWrite, up
      PROVE  LET c == [key |-> ring.active, ver |-> WriteVersion]
             IN c \in Ciphertexts /\ Fine(c)
  <2>1. /\ WriteVersion \in {2, 3} /\ (WriteVersion = 3 => ring.v3)
        /\ envelope = "verified" => WriteVersion = 3
    BY <1>2, <1>3 DEF WriteVersion
  <2> QED  BY <2>1, <1>2, <1>3, NewCell
<1>4. ASSUME up
      PROVE  LET c == [key |-> ring.active, ver |-> ShieldVersion]
             IN c \in Ciphertexts /\ Fine(c)
  <2>1. /\ ShieldVersion \in {2, 3} /\ (ShieldVersion = 3 => ring.v3)
        /\ envelope = "verified" => ShieldVersion = 3
    BY <1>2 DEF ShieldVersion
  <2> QED  BY <2>1, <1>2, <1>4, NewCell
<1> DEFINE Good == GoodMap(row') /\ GoodMap(tomb') /\ GoodMap(life') /\ GoodMap(anchor')
<1>5. UNCHANGED <<row, tomb, life, anchor>> => Good
  BY <1>0
<1>6. ASSUME NEW r \in Records, Remember(r)  PROVE Good
  <2> DEFINE c == [key |-> ring.active, ver |-> WriteVersion]
             d == [key |-> ring.active, ver |-> ShieldVersion]
  <2>1. /\ row' = [row EXCEPT ![r] = c] /\ tomb' = tomb
        /\ anchor' = [anchor EXCEPT ![r] = d]
        /\ life' = [life EXCEPT ![r] = anchor'[r]]
    BY <1>6 DEF Remember
  <2>2. c \in Ciphertexts /\ Fine(c) /\ d \in Ciphertexts /\ Fine(d)
    BY <1>6, <1>3, <1>4 DEF Remember, Idle
  <2> HIDE DEF c, d
  <2>3. GoodMap(anchor') /\ anchor'[r] = d
    BY <2>1, <2>2, <1>0, PutIs
  <2> QED  BY <2>1, <2>2, <2>3, <1>0, PutIs
<1>7. ASSUME NEW r \in Records, Forget(r)  PROVE Good
  <2> DEFINE c == [key |-> ring.active, ver |-> WriteVersion]
  <2>1. /\ row' = [row EXCEPT ![r] = Absent] /\ tomb' = [tomb EXCEPT ![r] = c]
        /\ anchor' = [anchor EXCEPT ![r] = Absent]
        /\ life' = [life EXCEPT ![r] = Absent]
    BY <1>7 DEF Forget
  <2>2. c \in Ciphertexts /\ Fine(c)
    BY <1>7, <1>3 DEF Forget, Idle
  <2> HIDE DEF c
  <2> QED  BY <2>1, <2>2, <1>0, <1>1, PutIs
<1>8. ASSUME NEW r \in Records, Archive(r)  PROVE Good
  <2>1. /\ row' = row /\ tomb' = tomb /\ anchor' = [anchor EXCEPT ![r] = Absent]
        /\ life' = [life EXCEPT ![r] = anchor[r]]
    BY <1>8 DEF Archive, ledgerVars
  <2>2. anchor[r] \in Ciphertexts /\ Fine(anchor[r])
    BY <1>0 DEF GoodMap
  <2> QED  BY <2>1, <2>2, <1>0, <1>1, PutIs
<1>9. ASSUME NEW r \in Records, Corrupt(r)  PROVE Good
  BY <1>5, <1>9 DEF Corrupt, lifeVars
<1>10. CASE Save
  BY <1>0, <1>10, SavedIs DEF Save, ledgerVars
<1>11. CASE RecordEvidence \/ RotateKey \/ MigrateEnvelope \/ RetirePreviousKey
  BY <1>5, <1>11 DEF RecordEvidence, RotateKey, MigrateEnvelope, RetirePreviousKey,
     ledgerVars, lifeVars
<1>12. CASE Draw \/ Activate \/ InvalidateRecovery \/ ProtectSigningKey \/ RotateLshIndex
  BY <1>5, <1>12 DEF Draw, Activate, InvalidateRecovery, ProtectSigningKey,
     RotateLshIndex, ledgerVars, lifeVars
<1>13. CASE RewrapAnchors
  <2>1. Converting
    BY <1>13, ConvertingAt DEF RewrapAnchors
  <2>2. Rewrapped \subseteq Old(anchor)
    BY DEF Rewrapped, First
  <2>3. GoodMap(anchor')
    BY <1>0, <1>13, <2>1, <2>2, ConvertIs DEF RewrapAnchors
  <2>4. GoodMap(Saved(anchor'))
    BY <2>3, SavedIs
  <2>5. life' \in {life, Saved(anchor')} /\ row' = row /\ tomb' = tomb
    BY <1>13 DEF RewrapAnchors, ledgerVars
  <2> QED  BY <1>0, <2>3, <2>4, <2>5
<1>14. CASE RotateRow
  <2>1. Converting
    BY <1>14, ConvertingAt DEF RotateRow
  <2>2. PICK r \in Old(life) : life' = Convert(life, {r})
    BY <1>14 DEF RotateRow
  <2> QED  BY <1>0, <1>14, <2>1, <2>2, ConvertIs DEF RotateRow, ledgerVars
<1>15. CASE ReencryptRecord
  <2>1. Converting
    BY <1>15, ConvertingAt DEF ReencryptRecord
  <2>2. Min(Eligible) \in Old(row)
    <3>1. Eligible \subseteq Nat /\ Eligible # {} /\ Eligible \subseteq Old(row)
      BY <1>15, RekeyingAssumption DEF ReencryptRecord, Eligible, Committed, Present, Records
    <3> QED  BY <3>1, MinIn
  <2>3. GoodMap(Convert(row, {Min(Eligible)}))
    BY <1>0, <2>1, <2>2, ConvertIs
  <2>4. row' \in {row, Convert(row, {Min(Eligible)})} /\ UNCHANGED <<tomb, life, anchor>>
    BY <1>15 DEF ReencryptRecord, Rewrite, lifeVars
  <2> QED  BY <1>0, <2>3, <2>4
<1>16. CASE RotateTombstone
  <2>1. Converting
    BY <1>16, ConvertingAt DEF RotateTombstone
  <2>2. PICK r \in Old(tomb) : tomb' = Convert(tomb, {r})
    BY <1>16 DEF RotateTombstone
  <2> QED  BY <1>0, <1>16, <2>1, <2>2, ConvertIs DEF RotateTombstone, lifeVars
<1>17. CASE RowsDone \/ RecordsDone \/ TombstonesDone
  BY <1>5, <1>17 DEF RowsDone, RecordsDone, TombstonesDone, ledgerVars, lifeVars
<1>18. CASE VerifyRotation \/ VerifyEnvelope \/ Prepare \/ EnableV3 \/ EnableWrites
              \/ Unlink \/ StepFails \/ FinishActivation
  BY <1>5, <1>18 DEF VerifyRotation, VerifyEnvelope, Prepare, EnableV3, EnableWrites,
     Unlink, StepFails, FinishActivation, ledgerVars, lifeVars
<1>19. CASE Crash
  <2>1. GoodMap([r \in Records |-> Absent])
    BY <1>1 DEF GoodMap
  <2> QED  BY <1>0, <1>19, <2>1 DEF Crash, ledgerVars
<1>20. CASE Open
  <2>1. GoodMap([r \in Records |-> IF r \in archived THEN Absent ELSE life[r]])
    BY <1>0, <1>1 DEF GoodMap
  <2> QED  BY <1>0, <1>20, <2>1 DEF Open
<1> QED  BY <1>6, <1>7, <1>8, <1>9, <1>10, <1>11, <1>12, <1>13, <1>14, <1>15,
            <1>16, <1>17, <1>18, <1>19, <1>20 DEF Next

\* The keys that wrap a file, and the index.
WrapsGood(s, e, l) ==
  /\ s \in Keys \cup {NoKey} /\ WrapFine(s)
  /\ e \in Keys \cup {NoKey} /\ WrapFine(e)
  /\ l \in Ciphertexts /\ (disk.rotation = "verified" => l.key # Source(disk))

LEMMA WrapsMove ==
  ASSUME IInv, Next
  PROVE  WrapsGood(signing', evidence', lsh')
<1>0. WrapsGood(signing, evidence, lsh)
  BY DEF IInv, TypeOK, DataInv, WrapsGood
<1>1. KeyringTypeOK /\ KeyInv
  BY DEF IInv, TypeOK
<1>2. /\ ring.opaque = {} /\ disk.opaque = {}
      /\ up => ring.held \subseteq keyFiles
      /\ ~up => ring = disk
  BY <1>1, LinkFacts DEF KeyInv
<1>3. ASSUME ring.held \subseteq keyFiles
      PROVE  /\ ring.v3 => WrapFine(ring.active) /\ ring.active \in Keys
             /\ LshKey(ring) \in Ciphertexts
             /\ disk.rotation = "verified" => LshKey(ring).key # Source(disk)
  <2>1. ring.v3 => WrapFine(ring.active) /\ ring.active \in Keys
    BY <1>3, NewWrap
  <2>2. ring.active \in Keys /\ ring.v3 \in BOOLEAN
    BY <1>1, KeyringSound DEF Sound, Manifest
  <2>3. disk.rotation = "verified" => ring.active # Source(disk)
    BY <1>1, KeyringSound, LinkFacts, SourceIs
  <2>4. LshKey(ring) \in Ciphertexts /\ LshKey(ring).key = ring.active
    BY <2>2 DEF LshKey, Ciphertexts
  <2> QED  BY <2>1, <2>3, <2>4
<1> USE DEF WrapsGood
<1>4. UNCHANGED wrapVars => WrapsGood(signing', evidence', lsh')
  BY <1>0 DEF wrapVars
<1>5. ASSUME NEW r \in Records, Remember(r) \/ Forget(r) \/ Archive(r) \/ Corrupt(r)
      PROVE  UNCHANGED wrapVars
  BY <1>5 DEF Remember, Forget, Archive, Corrupt
<1>6. Save \/ RotateKey \/ MigrateEnvelope \/ RetirePreviousKey \/ Draw \/ Activate
        \/ RewrapAnchors => UNCHANGED wrapVars
  BY DEF Save, RotateKey, MigrateEnvelope, RetirePreviousKey, Draw, Activate,
     RewrapAnchors
<1>7. RotateRow \/ ReencryptRecord \/ RotateTombstone \/ RowsDone \/ RecordsDone
        \/ TombstonesDone => UNCHANGED wrapVars
  BY DEF RotateRow, ReencryptRecord, RotateTombstone, RowsDone, RecordsDone,
     TombstonesDone
<1>8. VerifyRotation \/ VerifyEnvelope \/ Prepare \/ EnableV3 \/ EnableWrites \/ Unlink
        \/ StepFails \/ Crash \/ FinishActivation => UNCHANGED wrapVars
  BY DEF VerifyRotation, VerifyEnvelope, Prepare, EnableV3, EnableWrites, Unlink,
     StepFails, Crash, FinishActivation
<1>9. CASE RecordEvidence
  BY <1>0, <1>2, <1>3, <1>9 DEF RecordEvidence, Idle
<1>10. CASE InvalidateRecovery
  BY <1>0, <1>2, <1>3, <1>10 DEF InvalidateRecovery, At
<1>11. CASE ProtectSigningKey
  BY <1>0, <1>2, <1>3, <1>11 DEF ProtectSigningKey, At, Wrapped
<1>12. CASE RotateLshIndex
  BY <1>0, <1>2, <1>3, <1>12 DEF RotateLshIndex, At
<1>13. CASE Open
  <2>1. ring = disk /\ disk.held \subseteq keyFiles
    BY <1>2, <1>13 DEF Open, Acceptable, Loads
  <2> QED  BY <2>1, <1>0, <1>3, <1>13 DEF Open, SigningKeyOpened, Wrapped
<1> QED  BY <1>4, <1>5, <1>6, <1>7, <1>8, <1>9, <1>10, <1>11, <1>12, <1>13 DEF Next

DataGood ==
  /\ GoodMap(row) /\ GoodMap(tomb) /\ GoodMap(life) /\ GoodMap(anchor)
  /\ WrapsGood(signing, evidence, lsh)

\* When the rotation is marked verified nothing is under the old key: the count
\* has seen the records, the steps before it have done the rest.
LEMMA VerifyRotationData ==
  ASSUME IInv, VerifyRotation
  PROVE  DataGood'
<1>1. KeyringTypeOK /\ KeyInv /\ TodoInv /\ op \in {"none", "rotate", "envelope", "retire"}
  BY DEF IInv, TypeOK
<1>2. op = "rotate" /\ Len(todo) = 1 /\ todo # <<>>
  BY <1>1, Where DEF VerifyRotation, At
<1>3. /\ ring.rotation = "migrating"
      /\ evidence # Source(ring) /\ signing # Source(ring) /\ lsh.key # Source(ring)
      /\ Uses(anchor, Source(ring)) = {}
  BY <1>2 DEF IInv, RotatePhase
<1>4. Sound(ring)
  BY <1>1, KeyringSound
<1> DEFINE m == Verified(ring)
<1>5. /\ m.held = ring.held /\ m.v3 = ring.v3 /\ Source(m) = Source(ring)
  BY <1>3, <1>4, VerifiedIs
<1> HIDE DEF m
<1>6. GoodMap(row) /\ GoodMap(tomb) /\ GoodMap(life) /\ GoodMap(anchor)
        /\ WrapsGood(signing, evidence, lsh)
  BY MapsGood DEF IInv, TypeOK, DataInv, WrapsGood
<1>7. UNCHANGED <<keyFiles, envelope, row, tomb, life, anchor, signing, evidence, lsh>>
  BY DEF VerifyRotation, ledgerVars, lifeVars, wrapVars
<1>8. \/ UNCHANGED <<disk, ring>>
      \/ disk' = m /\ ring' \in {ring, m} /\ Remaining(Source(ring)) = 0
  BY DEF VerifyRotation, Publish, PublishFails, m
<1>9. CASE UNCHANGED <<disk, ring>>
  BY <1>6, <1>7, <1>9 DEF DataGood, GoodMap, WrapsGood, Fine, WrapFine
<1>10. CASE disk' = m /\ ring' \in {ring, m} /\ Remaining(Source(ring)) = 0
  <2> DEFINE k == Source(ring)
  <2>1. Uses(row, k) = {} /\ Uses(tomb, k) = {} /\ Uses(life, k) = {}
    <3>1. /\ Uses(row, k) \in SUBSET Records /\ Uses(tomb, k) \in SUBSET Records
          /\ Uses(life, k) \in SUBSET Records
      BY DEF Uses
    <3>2. /\ Cardinality(Uses(row, k)) \in Nat /\ Cardinality(Uses(tomb, k)) \in Nat
          /\ Cardinality(Uses(life, k)) \in Nat
      BY <3>1, RecordsFinite
    <3>3. /\ Cardinality(Uses(row, k)) = 0 /\ Cardinality(Uses(tomb, k)) = 0
          /\ Cardinality(Uses(life, k)) = 0
      BY <1>10, <3>2 DEF Remaining, KeyUsage
    <3> QED  BY <3>1, <3>3, RecordsFinite
  <2>2. \A r \in Records : /\ row[r].key # k /\ tomb[r].key # k
                           /\ life[r].key # k /\ anchor[r].key # k
    BY <2>1, <1>3 DEF Uses
  <2>3. ring'.held = ring.held /\ ring'.v3 = ring.v3 /\ Source(disk') = k
    BY <1>5, <1>10
  <2> HIDE DEF k
  <2>4. ASSUME NEW c, Fine(c), c.key # k  PROVE Fine(c)'
    BY <2>3, <2>4, <1>7 DEF Fine
  <2>5. ASSUME NEW f, GoodMap(f), \A r \in Records : f[r].key # k  PROVE GoodMap(f)'
    BY <2>4, <2>5 DEF GoodMap
  <2>6. GoodMap(row)' /\ GoodMap(tomb)' /\ GoodMap(life)' /\ GoodMap(anchor)'
    <3>1. \A f : GoodMap(f) /\ (\A r \in Records : f[r].key # k) => GoodMap(f)'
      BY <2>5
    <3>2. GoodMap(row)'
      BY <3>1, <2>2, <1>6, <1>7 DEF GoodMap
    <3>3. GoodMap(tomb)'
      BY <3>1, <2>2, <1>6, <1>7 DEF GoodMap
    <3>4. GoodMap(life)'
      BY <3>1, <2>2, <1>6, <1>7 DEF GoodMap
    <3>5. GoodMap(anchor)'
      BY <3>1, <2>2, <1>6, <1>7 DEF GoodMap
    <3> QED  BY <3>2, <3>3, <3>4, <3>5
  <2>7. WrapsGood(signing, evidence, lsh)'
    BY <1>3, <1>6, <1>7, <2>3 DEF WrapsGood, WrapFine, k
  <2> QED  BY <2>6, <2>7 DEF DataGood
<1> QED  BY <1>8, <1>9, <1>10

\* When the activation is marked verified nothing is in the v2 envelope; the
\* anchors are not counted, but they are no older than the saved rows.
LEMMA VerifyEnvelopeData ==
  ASSUME IInv, VerifyEnvelope
  PROVE  DataGood'
<1>1. GoodMap(row) /\ GoodMap(tomb) /\ GoodMap(life) /\ GoodMap(anchor)
        /\ WrapsGood(signing, evidence, lsh)
  BY MapsGood DEF IInv, TypeOK, DataInv, WrapsGood
<1>2. UNCHANGED <<disk, ring, keyFiles, row, tomb, life, anchor, signing, evidence, lsh>>
  BY DEF VerifyEnvelope, ledgerVars, lifeVars, wrapVars, keyringVars
<1>3. CASE UNCHANGED envelope
  BY <1>1, <1>2, <1>3 DEF DataGood, GoodMap, WrapsGood, Fine, WrapFine
<1>4. CASE OldVersion(row) \cup OldVersion(tomb) \cup OldVersion(life) = {}
  <2>1. \A r \in Records : row[r].ver # 2 /\ tomb[r].ver # 2 /\ life[r].ver # 2
    BY <1>4 DEF OldVersion
  <2>2. \A r \in Records : anchor[r].ver # 2
    BY <2>1 DEF IInv, EnvelopeInv
  <2> QED  BY <1>1, <1>2, <2>1, <2>2 DEF DataGood, GoodMap, WrapsGood, Fine, WrapFine
<1> QED  BY <1>3, <1>4 DEF VerifyEnvelope

\* When the old key leaves the manifest nothing is under it.
LEMMA RetireData ==
  ASSUME IInv, RetirePreviousKey
  PROVE  DataGood'
<1>1. KeyringTypeOK /\ KeyInv
  BY DEF IInv, TypeOK
<1>2. Sound(disk) /\ Sound(ring) /\ ring.rotation = "verified"
  BY <1>1, KeyringSound DEF RetirePreviousKey
<1>3. ring = disk
  BY <1>1, <1>2 DEF KeyInv, Link
<1>4. ring.held = {ring.active, Source(ring)} /\ disk.rotation = "verified"
  BY <1>2, <1>3, SourceIs
<1> DEFINE m == Retired(ring)
<1>5. m.held = {ring.active} /\ m.v3 = ring.v3 /\ m.rotation = "none"
  BY <1>2, RetiredIs
<1> HIDE DEF m
<1>6. disk' = m /\ ring' = m /\ UNCHANGED keyFiles
  BY DEF RetirePreviousKey, RetireInManifest, Publish, m
<1>7. UNCHANGED <<envelope, row, tomb, life, anchor, signing, evidence, lsh>>
  BY DEF RetirePreviousKey, ledgerVars, lifeVars, wrapVars
<1>8. GoodMap(row) /\ GoodMap(tomb) /\ GoodMap(life) /\ GoodMap(anchor)
        /\ WrapsGood(signing, evidence, lsh)
  BY MapsGood DEF IInv, TypeOK, DataInv, WrapsGood
<1>9. ASSUME NEW c, Fine(c)  PROVE Fine(c)'
  BY <1>3, <1>4, <1>5, <1>6, <1>7, <1>9 DEF Fine
<1>10. ASSUME NEW k, WrapFine(k)  PROVE WrapFine(k)'
  BY <1>3, <1>4, <1>5, <1>6, <1>7, <1>10 DEF WrapFine
<1>11. ASSUME NEW f, GoodMap(f)  PROVE GoodMap(f)'
  BY <1>9, <1>11 DEF GoodMap
<1>12. \A f : GoodMap(f) => GoodMap(f)'
  BY <1>11
<1>13. GoodMap(row)' /\ GoodMap(tomb)' /\ GoodMap(life)' /\ GoodMap(anchor)'
  BY <1>7, <1>8, <1>12 DEF GoodMap
<1>14. WrapsGood(signing, evidence, lsh)'
  BY <1>5, <1>6, <1>7, <1>8, <1>10 DEF WrapsGood
<1> QED  BY <1>13, <1>14 DEF DataGood

LEMMA DataStep ==
  ASSUME IInv, Next
  PROVE  DataGood'
<1>1. CASE VerifyRotation
  BY <1>1, VerifyRotationData
<1>2. CASE VerifyEnvelope
  BY <1>2, VerifyEnvelopeData
<1>3. CASE RetirePreviousKey
  BY <1>3, RetireData
<1>4. CASE ~VerifyRotation /\ ~VerifyEnvelope /\ ~RetirePreviousKey
  <2>1. Keeps
    BY <1>4, KeepsStep
  <2>2. \A f : GoodMap(f) => GoodMap(f)'
    BY <2>1, FineStep DEF GoodMap
  <2>3. GoodMap(row') /\ GoodMap(tomb') /\ GoodMap(life') /\ GoodMap(anchor')
    BY MapsMove
  <2>4. GoodMap(row)' /\ GoodMap(tomb)' /\ GoodMap(life)' /\ GoodMap(anchor)'
    BY <2>2, <2>3 DEF GoodMap
  <2>5. WrapsGood(signing', evidence', lsh')
    BY WrapsMove
  <2>6. WrapFine(signing') /\ WrapFine(evidence')
    BY <2>5 DEF WrapsGood
  <2>7. \A k : WrapFine(k) => WrapFine(k)'
    BY <2>1, WrapStep
  <2>8. WrapsGood(signing, evidence, lsh)'
    BY <2>1, <2>5, <2>6, <2>7 DEF WrapsGood, Keeps
  <2> QED  BY <2>4, <2>8 DEF DataGood
<1> QED  BY <1>1, <1>2, <1>3, <1>4

-----------------------------------------------------------------------------
(* The envelope and the steps of the operations *)

\* No step takes the v3 key schedule back, and the manifest has it only after
\* the marker is in the database.
LEMMA EnvelopeStep ==
  ASSUME IInv, Next
  PROVE  /\ envelope' \in {"migrating", "verified"} => ring'.v3
         /\ disk'.v3 => envelope' # "inactive"
         /\ envelope' \in {"inactive", "prepared", "migrating", "verified"}
<1>1. KeyringTypeOK /\ KeyInv /\ TodoInv /\ op \in {"none", "rotate", "envelope", "retire"}
  BY DEF IInv, TypeOK
<1>2. Sound(disk) /\ Sound(ring)
  BY <1>1, KeyringSound
<1>3. /\ ring.held \subseteq disk.held /\ (ring.v3 => disk.v3)
      /\ ~up => ring = disk
  BY <1>1, LinkFacts
<1>4. /\ envelope \in {"migrating", "verified"} => ring.v3
      /\ disk.v3 => envelope # "inactive"
      /\ envelope \in {"inactive", "prepared", "migrating", "verified"}
  BY DEF IInv, TypeOK, EnvelopeInv
<1>5. ring.v3 => ring'.v3
  <2>1. CASE VerifyRotation
    <3>1. ring.rotation = "migrating"
      <4>1. op = "rotate" /\ Len(todo) = 1 /\ todo # <<>>
        BY <1>1, <2>1, Where DEF VerifyRotation, At
      <4> QED  BY <4>1 DEF IInv, RotatePhase
    <3>2. ring' \in {ring, Verified(ring)}
      BY <2>1 DEF VerifyRotation, Publish, PublishFails
    <3> QED  BY <1>2, <3>1, <3>2, VerifiedIs
  <2>2. CASE RetirePreviousKey
    <3>1. ring' = Retired(ring)
      BY <2>2 DEF RetirePreviousKey, RetireInManifest, Publish
    <3> QED  BY <1>2, <3>1, RetiredIs
  <2>3. VerifyEnvelope => ring' = ring
    BY DEF VerifyEnvelope, keyringVars
  <2> QED  BY <2>1, <2>2, <2>3, KeepsStep DEF Keeps
<1>6. disk'.v3 => disk.v3 \/ envelope # "inactive"
  <2>1. KeysSame \/ Draw \/ Unlink \/ Crash \/ Open => disk' = disk
    BY DEF KeysSame, Draw, Unlink, RemoveKey, Crash, Open, keyringVars
  <2>2. CASE Activate
    <3>1. op = "rotate" /\ Len(todo) = 9 /\ todo # <<>>
      BY <1>1, <2>2, Where DEF Activate, At
    <3>2. ring.rotation = "none" /\ \A k \in disk.held : k < drawn
      BY <3>1 DEF IInv, RotatePhase
    <3>3. drawn \in Keys \ ring.held
      BY <3>2, <1>1, <1>3, KeyringAssumption DEF KeyringTypeOK, Keys
    <3>4. disk' \in {disk, Rotated(ring, drawn)}
      BY <2>2 DEF Activate, ActivateKey, ActivateKeyFails, Publish, PublishFails
    <3>5. Rotated(ring, drawn).v3 = ring.v3
      BY <1>1, <1>2, <3>2, <3>3, RotatedIs DEF KeyInv
    <3> QED  BY <1>3, <3>4, <3>5
  <2>3. CASE VerifyRotation
    <3>1. ring.rotation = "migrating"
      <4>1. op = "rotate" /\ Len(todo) = 1 /\ todo # <<>>
        BY <1>1, <2>3, Where DEF VerifyRotation, At
      <4> QED  BY <4>1 DEF IInv, RotatePhase
    <3>2. disk' \in {disk, Verified(ring)}
      BY <2>3 DEF VerifyRotation, Publish, PublishFails
    <3> QED  BY <1>2, <1>3, <3>1, <3>2, VerifiedIs
  <2>4. CASE RetirePreviousKey
    <3>1. disk' = Retired(ring)
      BY <2>4 DEF RetirePreviousKey, RetireInManifest, Publish
    <3> QED  BY <1>2, <1>3, <3>1, RetiredIs
  <2>5. CASE EnableV3
    <3>1. op = "envelope" /\ Len(todo) = 9 /\ todo # <<>>
      BY <1>1, <2>5, Where DEF EnableV3, At
    <3> QED  BY <3>1 DEF IInv, EnvelopePhase
  <2>6. CASE FinishActivation
    BY <2>6 DEF FinishActivation, MustFinish, V3Schema
  <2> QED  BY <2>1, <2>2, <2>3, <2>4, <2>5, <2>6, SameStep
<1>7. CASE UNCHANGED envelope
  BY <1>4, <1>5, <1>6, <1>7
<1>8. CASE VerifyEnvelope
  <2>1. op = "envelope" /\ Len(todo) = 1 /\ todo # <<>>
    BY <1>1, <1>8, Where DEF VerifyEnvelope, At
  <2>2. ring.v3
    BY <2>1 DEF IInv, EnvelopePhase
  <2> QED  BY <2>2, <1>4, <1>5, <1>6, <1>8 DEF VerifyEnvelope
<1>9. CASE Prepare
  BY <1>4, <1>5, <1>6, <1>9 DEF Prepare
<1>10. CASE EnableWrites
  <2>1. op = "envelope" /\ Len(todo) = 6 /\ todo # <<>>
    BY <1>1, <1>10, Where DEF EnableWrites, At
  <2>2. ring.v3
    BY <2>1 DEF IInv, EnvelopePhase
  <2> QED  BY <2>2, <1>4, <1>5, <1>6, <1>10 DEF EnableWrites, OpenGate
<1>11. CASE Open
  BY <1>3, <1>4, <1>5, <1>6, <1>11 DEF Open, OpenGate, MustFinish, V3Schema
<1> QED  BY EnvelopeSame, <1>7, <1>8, <1>9, <1>10, <1>11

\* An anchor in memory is never older than the saved row.
LEMMA AnchorStep ==
  ASSUME IInv, Next
  PROVE  \A r \in Records : anchor'[r].ver = 2 => life'[r].ver = 2
<1>0. /\ GoodMap(life) /\ GoodMap(anchor) /\ Absent.ver # 2 /\ Absent.ver = 0
      /\ \A r \in Records : anchor[r].ver = 2 => life[r].ver = 2
  BY MapsGood, AbsentIs DEF IInv, EnvelopeInv
<1>00. life \in [Records -> Ciphertexts] /\ anchor \in [Records -> Ciphertexts]
  BY <1>0 DEF GoodMap
<1> DEFINE Goal == \A r \in Records : anchor'[r].ver = 2 => life'[r].ver = 2
<1>1. UNCHANGED <<life, anchor>> => Goal
  BY <1>0
<1>2. ASSUME NEW r \in Records, Remember(r)  PROVE Goal
  <2> DEFINE d == [key |-> ring.active, ver |-> ShieldVersion]
  <2>1. anchor' = [anchor EXCEPT ![r] = d] /\ life' = [life EXCEPT ![r] = anchor'[r]]
    BY <1>2 DEF Remember
  <2> HIDE DEF d
  <2> QED  BY <2>1, <1>0, <1>00
<1>3. ASSUME NEW r \in Records, Forget(r) \/ Archive(r)  PROVE Goal
  <2>1. anchor' = [anchor EXCEPT ![r] = Absent]
    BY <1>3 DEF Forget, Archive
  <2>2. \E c : life' = [life EXCEPT ![r] = c]
    BY <1>3 DEF Forget, Archive
  <2> QED  BY <2>1, <2>2, <1>0, <1>00
<1>4. ASSUME NEW r \in Records, Corrupt(r)  PROVE Goal
  BY <1>1, <1>4 DEF Corrupt, lifeVars
<1>5. CASE Save
  BY <1>0, <1>5, SavedIs DEF Save
<1>6. CASE RecordEvidence \/ RotateKey \/ MigrateEnvelope \/ RetirePreviousKey
  BY <1>1, <1>6 DEF RecordEvidence, RotateKey, MigrateEnvelope, RetirePreviousKey,
     lifeVars
<1>7. CASE Draw \/ Activate \/ InvalidateRecovery \/ ProtectSigningKey \/ RotateLshIndex
  BY <1>1, <1>7 DEF Draw, Activate, InvalidateRecovery, ProtectSigningKey,
     RotateLshIndex, lifeVars
<1>8. CASE RewrapAnchors
  <2>1. Converting
    BY <1>8, ConvertingAt DEF RewrapAnchors
  <2>2. Rewrapped \subseteq Old(anchor) /\ anchor' = Convert(anchor, Rewrapped)
    BY <1>8 DEF Rewrapped, First, RewrapAnchors
  <2>3. /\ GoodMap(anchor')
        /\ \A r \in Records :
             /\ r \notin Rewrapped => anchor'[r] = anchor[r]
             /\ op = "rotate" => anchor'[r].ver = anchor[r].ver
             /\ op = "envelope" /\ r \in Rewrapped => anchor'[r].ver = 3
    BY <1>0, <2>1, <2>2, ConvertIs
  <2>4. \A r \in Records : anchor'[r].ver = 2 => anchor[r].ver = 2
    BY <2>1, <2>3 DEF Converting
  <2>5. life' = life \/ life' = Saved(anchor')
    BY <1>8 DEF RewrapAnchors
  <2>6. CASE life' = life
    BY <1>0, <2>4, <2>6
  <2>7. CASE life' = Saved(anchor')
    BY <1>0, <2>3, <2>7, SavedIs
  <2> QED  BY <2>5, <2>6, <2>7
<1>9. CASE RotateRow
  <2>1. Converting /\ Len(todo) <= 4 /\ left > 0 /\ anchor' = anchor
    BY <1>9, ConvertingAt DEF RotateRow
  <2>2. PICK r \in Old(life) : life' = Convert(life, {r})
    BY <1>9 DEF RotateRow
  <2>3. \A s \in Records : /\ s # r => life'[s] = life[s]
                           /\ op = "rotate" => life'[s].ver = life[s].ver
    BY <1>0, <2>1, <2>2, ConvertIs
  <2>4. op = "envelope" => \A s \in Records : anchor[s].ver # 2
    BY <2>1 DEF IInv, EnvelopePhase, OldVersion, Converting
  <2> QED  BY <1>0, <2>1, <2>3, <2>4 DEF Converting
<1>10. CASE ReencryptRecord \/ RotateTombstone \/ RowsDone \/ RecordsDone \/ TombstonesDone
  BY <1>1, <1>10 DEF ReencryptRecord, RotateTombstone, RowsDone, RecordsDone,
     TombstonesDone, lifeVars
<1>11. CASE VerifyRotation \/ VerifyEnvelope \/ Prepare \/ EnableV3 \/ EnableWrites
              \/ Unlink \/ StepFails \/ FinishActivation
  BY <1>1, <1>11 DEF VerifyRotation, VerifyEnvelope, Prepare, EnableV3, EnableWrites,
     Unlink, StepFails, FinishActivation, lifeVars
<1>12. CASE Crash
  BY <1>0, <1>12 DEF Crash
<1>13. CASE Open
  BY <1>0, <1>13 DEF Open
<1> QED  BY <1>2, <1>3, <1>4, <1>5, <1>6, <1>7, <1>8, <1>9, <1>10, <1>11, <1>12,
            <1>13 DEF Next

\* What the phases of an operation speak of.
phaseVars == <<op, disk, ring, keyFiles, drawn, envelope, evidence, signing, lsh,
               anchor, victim>>

\* A step that the phases do not notice: no operation under way or left, or one
\* that stays where it is or goes on with nothing changed.
Quiet ==
  \/ todo' = <<>>
  \/ UNCHANGED <<phaseVars, todo, left>>
  \/ UNCHANGED <<phaseVars, todo>> /\ left > 0 /\ left' = left - 1
       /\ At(Head(todo)) /\ Len(todo) <= 4
  \/ UNCHANGED phaseVars /\ todo' = Tail(todo) /\ todo # <<>> /\ Len(todo) <= 4
       /\ (left' = left \/ op = "rotate")

LEMMA QuietStep ==
  ASSUME IInv, Next
  PROVE  \/ Quiet
         \/ RotateKey \/ MigrateEnvelope \/ RetirePreviousKey
         \/ Draw \/ Activate \/ InvalidateRecovery \/ ProtectSigningKey
         \/ RotateLshIndex \/ RewrapAnchors
         \/ Prepare \/ EnableV3 \/ EnableWrites
<1>1. TodoInv /\ op \in {"none", "rotate", "envelope", "retire"}
  BY DEF IInv, TypeOK
<1> USE DEF Quiet
<1>2. ASSUME NEW r \in Records, Remember(r) \/ Forget(r) \/ Archive(r)
      PROVE  Quiet
  BY <1>2 DEF Remember, Forget, Archive, Idle, procVars
<1>3. ASSUME NEW r \in Records, Corrupt(r)  PROVE Quiet
  BY <1>3 DEF Corrupt, phaseVars, procVars, lifeVars, wrapVars
<1>4. Save \/ RecordEvidence => Quiet
  BY DEF Save, RecordEvidence, Idle, procVars
<1>5. ASSUME RotateRow \/ ReencryptRecord \/ RotateTombstone  PROVE Quiet
  <2>1. UNCHANGED <<phaseVars, todo>> /\ left > 0 /\ left' = left - 1
    BY <1>5 DEF RotateRow, ReencryptRecord, RotateTombstone, Turn, phaseVars,
       keyringVars, wrapVars, lifeVars
  <2>2. At(Head(todo)) /\ Head(todo) \in {"rows", "records", "tombs"}
    BY <1>5 DEF RotateRow, ReencryptRecord, RotateTombstone, At
  <2>3. Len(todo) <= 4
    BY <2>2, ConvertingAt
  <2> QED  BY <2>1, <2>2, <2>3
<1>6. ASSUME RowsDone \/ RecordsDone \/ TombstonesDone  PROVE Quiet
  <2>1. UNCHANGED phaseVars /\ todo' = Tail(todo) /\ (left' = left \/ op = "rotate")
    BY <1>6 DEF RowsDone, RecordsDone, TombstonesDone, EndLoop, phaseVars,
       keyringVars, wrapVars, lifeVars
  <2>2. At(Head(todo)) /\ Head(todo) \in {"rows", "records", "tombs"}
    BY <1>6 DEF RowsDone, RecordsDone, TombstonesDone, At
  <2>3. Len(todo) <= 4 /\ todo # <<>>
    BY <2>2, ConvertingAt DEF At
  <2> QED  BY <2>1, <2>2, <2>3
<1>7. ASSUME VerifyRotation \/ VerifyEnvelope \/ Unlink  PROVE Quiet
  <2>1. todo # <<>> /\ Head(todo) \in {"verify", "unlink"} /\ todo' = Tail(todo)
    BY <1>7 DEF VerifyRotation, VerifyEnvelope, Unlink, At, Proceed
  <2>2. Len(todo) = 1
    BY <1>1, <2>1, Where
  <2> QED  BY <1>1, <2>1, <2>2, StepsLeft
<1>8. StepFails \/ Crash => Quiet
  BY DEF StepFails, Abandon, Crash
<1>9. FinishActivation \/ Open => Quiet
  BY <1>1 DEF FinishActivation, Open, TodoInv, procVars
<1> QED  BY <1>2, <1>3, <1>4, <1>5, <1>6, <1>7, <1>8, <1>9 DEF Next

\* The next step of an operation.
LEMMA Onward ==
  ASSUME IInv, todo # <<>>, todo' = Tail(todo)
  PROVE  /\ Len(todo) \in 1 .. 10 /\ Len(todo') = Len(todo) - 1
         /\ todo' # <<>> => Len(todo) > 1
BY StepsLeft, Where DEF IInv, TypeOK

LEMMA BeginLengths ==
  /\ Len(RotateSteps) = 10 /\ Len(Tail(Tail(RotateSteps))) = 8
  /\ Len(EnvelopeSteps) = 10 /\ Len(<<"unlink">>) = 1
<1>1. /\ RotateSteps \in Seq(Steps) /\ RotateSteps # <<>> /\ Len(RotateSteps) = 10
      /\ Tail(RotateSteps) \in Seq(Steps) /\ Len(Tail(RotateSteps)) = 9
  BY FullSteps DEF RotateSteps
<1>2. Len(Tail(Tail(RotateSteps))) = 8
  <2> DEFINE t == Tail(RotateSteps)
  <2>1. t \in Seq(Steps) /\ Len(t) = 9
    BY <1>1
  <2> HIDE DEF t
  <2>2. Len(Tail(t)) = 8
    BY <2>1
  <2> QED  BY <2>2 DEF t
<1> QED  BY <1>1, <1>2, FullSteps

LEMMA RetirePhaseStep ==
  ASSUME IInv, Next
  PROVE  RetirePhase'
<1>1. TodoInv /\ op \in {"none", "rotate", "envelope", "retire"} /\ KeyringTypeOK
  BY DEF IInv, TypeOK
<1>2. CASE Quiet
  BY <1>2 DEF Quiet, RetirePhase, IInv, phaseVars
<1>3. CASE RotateKey \/ MigrateEnvelope
  BY <1>3 DEF RotateKey, MigrateEnvelope, RetirePhase
<1>4. CASE RetirePreviousKey
  <2>1. disk' = Retired(ring) /\ victim' = Source(ring) /\ ring.rotation = "verified"
    BY <1>4 DEF RetirePreviousKey, RetireInManifest, Publish
  <2>2. Sound(ring)
    BY <1>1, KeyringSound
  <2>3. Source(ring) \in Keys /\ Source(ring) # ring.active
    BY <2>1, <2>2, SourceIs
  <2>4. Retired(ring).held = {ring.active}
    BY <2>2, RetiredIs
  <2> QED  BY <2>1, <2>3, <2>4 DEF RetirePhase
<1>5. ASSUME \/ Draw \/ Activate \/ InvalidateRecovery \/ ProtectSigningKey
             \/ RotateLshIndex \/ RewrapAnchors \/ Prepare \/ EnableV3 \/ EnableWrites
      PROVE  RetirePhase'
  <2>1. op' = op
    BY <1>5 DEF Draw, Activate, InvalidateRecovery, ProtectSigningKey, RotateLshIndex,
       RewrapAnchors, Prepare, EnableV3, EnableWrites, Proceed, Abandon
  <2>2. todo # <<>> /\ Head(todo) # "unlink"
    BY <1>5 DEF Draw, Activate, InvalidateRecovery, ProtectSigningKey, RotateLshIndex,
       RewrapAnchors, Prepare, EnableV3, EnableWrites, At
  <2>3. op # "retire"
    BY <1>1, <2>2, Where
  <2> QED  BY <2>1, <2>3 DEF RetirePhase
<1> QED  BY QuietStep, <1>2, <1>3, <1>4, <1>5

LEMMA RotatePhaseStep ==
  ASSUME IInv, Next
  PROVE  RotatePhase'
<1>1. TodoInv /\ op \in {"none", "rotate", "envelope", "retire"} /\ KeyringTypeOK
        /\ KeyInv /\ RotatePhase
  BY DEF IInv, TypeOK
<1>2. Sound(ring) /\ Sound(disk)
  BY <1>1, KeyringSound
<1>3. ring.held \subseteq disk.held
  BY <1>1, LinkFacts
<1>4. CASE Quiet
  <2>1. CASE todo' = <<>>
    BY <2>1 DEF RotatePhase
  <2>2. CASE UNCHANGED <<phaseVars, todo>>
    BY <1>1, <2>2 DEF RotatePhase, phaseVars, Uses
  <2>3. CASE UNCHANGED phaseVars /\ todo' = Tail(todo) /\ todo # <<>> /\ Len(todo) <= 4
    <3>1. Len(todo) \in 1 .. 10 /\ Len(todo') = Len(todo) - 1
      BY <2>3, Onward
    <3>2. ~(Len(todo') >= 9) /\ Len(todo') # 9
      <4>1. Len(todo) <= 4
        BY <2>3
      <4>2. ASSUME NEW n \in 1 .. 10, n <= 4, NEW l, l = n - 1
            PROVE  ~(l >= 9) /\ l # 9
        BY <4>2
      <4> QED  BY <3>1, <4>1, <4>2
    <3>3. op' = "rotate" => /\ ring.rotation = "migrating" /\ evidence # Source(ring)
                            /\ signing # Source(ring) /\ lsh.key # Source(ring)
                            /\ Uses(anchor, Source(ring)) = {}
      BY <1>1, <2>3, <3>1 DEF RotatePhase, phaseVars
    <3> QED  BY <2>3, <3>2, <3>3 DEF RotatePhase, phaseVars, Uses
  <2> QED  BY <1>4, <2>1, <2>2, <2>3 DEF Quiet
<1>5. CASE RotateKey
  <2>1. UNCHANGED ring /\ ring.rotation \in {"none", "migrating"}
    BY <1>2, <1>5 DEF RotateKey, keyringVars, Sound, Manifest
  <2>2. IF ring.rotation = "migrating" THEN Len(todo') = 8 ELSE Len(todo') = 10
    BY <1>5, BeginLengths DEF RotateKey
  <2>3. CASE ring.rotation = "migrating" /\ Len(todo') = 8
    <3>1. ~(Len(todo') >= 9) /\ Len(todo') # 9 /\ ~(Len(todo') <= 7)
            /\ ~(Len(todo') <= 6) /\ ~(Len(todo') <= 5) /\ ~(Len(todo') <= 4)
      BY <2>3
    <3> QED  BY <2>1, <2>3, <3>1 DEF RotatePhase
  <2>4. CASE ring.rotation = "none" /\ Len(todo') = 10
    BY <2>1, <2>4 DEF RotatePhase
  <2> QED  BY <2>1, <2>2, <2>3, <2>4
<1>6. CASE MigrateEnvelope \/ RetirePreviousKey
  BY <1>6 DEF MigrateEnvelope, RetirePreviousKey, RotatePhase
<1>7. CASE Prepare \/ EnableV3 \/ EnableWrites
  <2>1. op' = op
    BY <1>7 DEF Prepare, EnableV3, EnableWrites, Proceed, Abandon
  <2>2. op = "envelope"
    BY <1>1, <1>7, Where DEF Prepare, EnableV3, EnableWrites, At
  <2> QED  BY <2>1, <2>2 DEF RotatePhase
<1>8. CASE Draw
  <2>1. /\ op = "rotate" /\ Len(todo) = 10 /\ todo # <<>> /\ todo' = Tail(todo)
    BY <1>1, <1>8, Where DEF Draw, At, Proceed
  <2>2. Len(todo') = 9
    BY <2>1, Onward
  <2>3. ring.rotation = "none" /\ ring' = ring /\ disk' = disk /\ drawn' = drawn + 1
          /\ keyFiles' = keyFiles \cup {drawn + 1}
    BY <1>1, <1>8, <2>1 DEF RotatePhase, Draw, DrawKey, KeyInv
  <2>4. \A k \in disk.held : k \in Nat /\ k <= drawn
    BY <1>1, <1>2, KeyringAssumption DEF KeyInv, Sound, Manifest, Keys
  <2>5. drawn \in Nat
    BY <1>1, KeyringAssumption DEF KeyringTypeOK, Keys
  <2>6. drawn' \in keyFiles' /\ \A k \in disk'.held : k < drawn'
    BY <2>3, <2>4, <2>5
  <2> QED  BY <2>2, <2>3, <2>6 DEF RotatePhase
<1>9. CASE Activate
  <2>1. op = "rotate" /\ Len(todo) = 9 /\ todo # <<>>
    BY <1>1, <1>9, Where DEF Activate, At
  <2>2. ring.rotation = "none" /\ \A k \in disk.held : k < drawn
    BY <1>1, <2>1 DEF RotatePhase
  <2>3. CASE todo' = Tail(todo) /\ ring' = Rotated(ring, drawn)
    <3>1. Len(todo') = 8
      BY <2>1, <2>3, Onward
    <3>2. drawn \in Keys \ ring.held
      BY <2>2, <1>1, <1>3, KeyringAssumption DEF KeyringTypeOK, Keys
    <3>3. Rotated(ring, drawn).rotation = "migrating"
      BY <1>1, <1>2, <2>2, <3>2, RotatedIs DEF KeyInv
    <3>4. ~(Len(todo') >= 9) /\ Len(todo') # 9 /\ ~(Len(todo') <= 7)
            /\ ~(Len(todo') <= 6) /\ ~(Len(todo') <= 5) /\ ~(Len(todo') <= 4)
      BY <3>1
    <3>5. ring'.rotation = "migrating"
      BY <2>3, <3>3
    <3> QED  BY <3>4, <3>5 DEF RotatePhase
  <2>4. CASE todo' = <<>>
    BY <2>4 DEF RotatePhase
  <2> QED  BY <1>9, <2>3, <2>4 DEF Activate, ActivateKey, Publish, Proceed, Abandon
<1>10. ASSUME \/ InvalidateRecovery \/ ProtectSigningKey \/ RotateLshIndex
              \/ RewrapAnchors
       PROVE  RotatePhase'
  <2>1. UNCHANGED <<op, ring>> /\ todo # <<>> /\ (todo' = Tail(todo) \/ todo' = <<>>)
    BY <1>10 DEF InvalidateRecovery, ProtectSigningKey, RotateLshIndex, RewrapAnchors,
       Proceed, Abandon, At, keyringVars
  <2>2. SUFFICES ASSUME op = "rotate", todo' = Tail(todo)
                 PROVE  RotatePhase'
    BY <2>1 DEF RotatePhase
  <2> DEFINE n == Len(todo)
  <2>3. n \in 1 .. 10 /\ Len(todo') = n - 1
    BY <2>1, <2>2, Onward
  <2>4. /\ InvalidateRecovery => n = 8
        /\ ProtectSigningKey => n = 7
        /\ RotateLshIndex => n = 6
        /\ RewrapAnchors => n = 5
    BY <1>1, <2>1, <2>2, Where DEF InvalidateRecovery, ProtectSigningKey,
       RotateLshIndex, RewrapAnchors, At
  <2>5. n \in 5 .. 8
    BY <1>10, <2>4
  <2>6. ring.rotation = "migrating"
    BY <1>1, <2>1, <2>2, <2>5 DEF RotatePhase
  <2>7. Source(ring) # NoKey /\ Source(ring) # ring.active
    BY <1>2, <2>6, SourceIs
  <2>8. (~ring.v3 => signing = NoKey /\ evidence = NoKey)
    BY DEF IInv, DataInv, WrapFine
  <2>9. /\ n <= 7 => evidence # Source(ring)
        /\ n <= 6 => signing # Source(ring)
        /\ n <= 5 => lsh.key # Source(ring)
    BY <1>1, <2>1, <2>2 DEF RotatePhase
  <2> HIDE DEF n
  <2>10. CASE InvalidateRecovery
    <3>1. evidence' # Source(ring)
      BY <2>7, <2>8, <2>10 DEF InvalidateRecovery
    <3> QED  BY <2>1, <2>3, <2>4, <2>6, <2>10, <3>1 DEF RotatePhase
  <2>11. CASE ProtectSigningKey
    <3>1. signing' # Source(ring) /\ evidence' = evidence
      BY <2>7, <2>8, <2>11 DEF ProtectSigningKey, Wrapped
    <3> QED  BY <2>1, <2>3, <2>4, <2>6, <2>9, <2>11, <3>1 DEF RotatePhase
  <2>12. CASE RotateLshIndex
    <3>1. lsh'.key # Source(ring) /\ evidence' = evidence /\ signing' = signing
      BY <2>7, <2>12 DEF RotateLshIndex, LshKey
    <3> QED  BY <2>1, <2>3, <2>4, <2>6, <2>9, <2>12, <3>1 DEF RotatePhase
  <2>13. CASE RewrapAnchors
    <3>1. UNCHANGED <<evidence, signing, lsh>>
      BY <2>13 DEF RewrapAnchors, wrapVars
    <3>2. Rewrapped = Old(anchor) /\ Old(anchor) = Uses(anchor, Source(ring))
      BY <2>2 DEF Rewrapped, Old
    <3>3. Converting /\ GoodMap(anchor)
      BY <2>13, ConvertingAt, MapsGood DEF RewrapAnchors
    <3>4. anchor' = Convert(anchor, Old(anchor))
      BY <2>13, <3>2 DEF RewrapAnchors
    <3>5. \A r \in Records : /\ r \notin Old(anchor) => anchor'[r] = anchor[r]
                             /\ r \in Old(anchor) => anchor'[r].key = ring.active
      BY <2>2, <3>3, <3>4, ConvertIs
    <3>6. Uses(anchor', Source(ring)) = {}
      BY <2>7, <3>2, <3>5 DEF Uses
    <3> QED  BY <2>1, <2>3, <2>4, <2>6, <2>9, <2>13, <3>1, <3>6 DEF RotatePhase, Uses
  <2> QED  BY <1>10, <2>10, <2>11, <2>12, <2>13
<1> QED  BY QuietStep, <1>4, <1>5, <1>6, <1>7, <1>8, <1>9, <1>10

LEMMA EnvelopePhaseStep ==
  ASSUME IInv, Next
  PROVE  EnvelopePhase'
<1>1. TodoInv /\ op \in {"none", "rotate", "envelope", "retire"} /\ KeyringTypeOK
        /\ KeyInv /\ EnvelopePhase /\ left \in Nat
  BY RekeyingAssumption DEF IInv, TypeOK
<1>2. Sound(ring)
  BY <1>1, KeyringSound
<1>3. CASE Quiet
  <2>1. CASE todo' = <<>>
    BY <2>1 DEF EnvelopePhase
  <2>2. CASE UNCHANGED <<phaseVars, todo, left>>
    BY <1>1, <2>2 DEF EnvelopePhase, phaseVars, OldVersion
  <2>3. CASE UNCHANGED <<phaseVars, todo>> /\ left > 0 /\ left' = left - 1
    BY <1>1, <2>3 DEF EnvelopePhase, phaseVars, OldVersion
  <2>4. CASE UNCHANGED phaseVars /\ todo' = Tail(todo) /\ todo # <<>> /\ Len(todo) <= 4
               /\ (left' = left \/ op = "rotate")
    <3>1. Len(todo) \in 1 .. 10 /\ Len(todo') = Len(todo) - 1
      BY <2>4, Onward
    <3>2. op' = "envelope" =>
            /\ ring.rotation = "none" /\ envelope # "inactive" /\ ring.v3
            /\ envelope \in {"migrating", "verified"}
            /\ left > 0 => OldVersion(anchor) = {}
            /\ left' = left
      BY <1>1, <2>4, <3>1 DEF EnvelopePhase, phaseVars
    <3> QED  BY <2>4, <3>2 DEF EnvelopePhase, phaseVars, OldVersion
  <2> QED  BY <1>3, <2>1, <2>2, <2>3, <2>4 DEF Quiet
<1>4. CASE RotateKey \/ RetirePreviousKey
  BY <1>4 DEF RotateKey, RetirePreviousKey, EnvelopePhase
<1>5. CASE MigrateEnvelope
  BY <1>5, BeginLengths DEF MigrateEnvelope, keyringVars, EnvelopePhase
<1>6. ASSUME \/ Draw \/ Activate \/ InvalidateRecovery
      PROVE  EnvelopePhase'
  <2>1. op' = op
    BY <1>6 DEF Draw, Activate, InvalidateRecovery, Proceed, Abandon
  <2>2. op = "rotate"
    BY <1>1, <1>6, Where DEF Draw, Activate, InvalidateRecovery, At
  <2> QED  BY <2>1, <2>2 DEF EnvelopePhase
<1>7. ASSUME \/ ProtectSigningKey \/ RotateLshIndex \/ RewrapAnchors
             \/ Prepare \/ EnableV3 \/ EnableWrites
      PROVE  EnvelopePhase'
  <2>1. op' = op /\ todo # <<>> /\ (todo' = Tail(todo) \/ todo' = <<>>)
    BY <1>7 DEF ProtectSigningKey, RotateLshIndex, RewrapAnchors, Prepare, EnableV3,
       EnableWrites, Proceed, Abandon, At
  <2>2. SUFFICES ASSUME op = "envelope", todo' = Tail(todo), todo' # <<>>
                 PROVE  EnvelopePhase'
    BY <2>1 DEF EnvelopePhase
  <2> DEFINE n == Len(todo)
  <2>3. n \in 1 .. 10 /\ Len(todo') = n - 1
    BY <2>1, <2>2, Onward
  <2>4. /\ Prepare => n = 10
        /\ EnableV3 => n = 9
        /\ ProtectSigningKey => n = 8
        /\ RotateLshIndex => n = 7
        /\ EnableWrites => n = 6
        /\ RewrapAnchors => n = 5
    BY <1>1, <2>1, <2>2, Where DEF Prepare, EnableV3, ProtectSigningKey,
       RotateLshIndex, EnableWrites, RewrapAnchors, At
  <2>5. /\ ring.rotation = "none"
        /\ n <= 9 => envelope # "inactive"
        /\ n <= 8 => ring.v3
        /\ n <= 5 => envelope \in {"migrating", "verified"}
    BY <1>1, <2>1, <2>2 DEF EnvelopePhase
  <2> HIDE DEF n
  <2>6. CASE Prepare
    <3>1. UNCHANGED ring /\ envelope' # "inactive"
      BY <2>6 DEF Prepare, keyringVars
    <3> QED  BY <2>3, <2>4, <2>5, <2>6, <3>1 DEF EnvelopePhase
  <2>7. CASE EnableV3
    <3>1. (ring' = ring /\ ring.v3) \/ ring' = WithV3(ring)
      <4>1. Tail(todo) # <<>>
        BY <2>2
      <4> QED  BY <2>2, <2>7, <4>1 DEF EnableV3, Publish, Abandon
    <3>2. ring'.v3 /\ ring'.rotation = "none"
      BY <1>2, <2>5, <3>1, WithV3Is
    <3>3. UNCHANGED envelope
      BY <2>7 DEF EnableV3
    <3> QED  BY <2>3, <2>4, <2>5, <2>7, <3>2, <3>3 DEF EnvelopePhase
  <2>8. CASE ProtectSigningKey \/ RotateLshIndex
    <3>1. UNCHANGED <<ring, envelope>> /\ n \in {7, 8}
      BY <2>4, <2>8 DEF ProtectSigningKey, RotateLshIndex, keyringVars
    <3> QED  BY <2>3, <2>5, <3>1 DEF EnvelopePhase
  <2>9. CASE EnableWrites
    <3>1. UNCHANGED ring /\ envelope' \in {"migrating", "verified"}
      <4>1. envelope \in {"prepared", "migrating", "verified"}
        BY <2>4, <2>5, <2>9 DEF IInv, TypeOK
      <4> QED  BY <2>9, <4>1 DEF EnableWrites, OpenGate, keyringVars
    <3> QED  BY <2>3, <2>4, <2>5, <2>9, <3>1 DEF EnvelopePhase
  <2>10. CASE RewrapAnchors
    <3>1. UNCHANGED <<ring, envelope>> /\ anchor' = Convert(anchor, Rewrapped)
      BY <2>10 DEF RewrapAnchors
    <3>2. left' = left - Cardinality(Rewrapped)
      BY <2>2, <2>10 DEF RewrapAnchors, Abandon
    <3>3. Rewrapped = First(Old(anchor), left) /\ Old(anchor) = OldVersion(anchor)
      BY <2>2 DEF Rewrapped, Old
    <3>4. Old(anchor) \in SUBSET Records
      BY <3>3 DEF OldVersion
    <3>5. Rewrapped \subseteq Old(anchor) /\ Cardinality(Rewrapped) \in 0 .. left
            /\ (Cardinality(Rewrapped) < left => Rewrapped = Old(anchor))
      BY <1>1, <3>3, <3>4, FirstBatch
    <3>6. left' > 0 => Rewrapped = OldVersion(anchor)
      BY <1>1, <3>2, <3>3, <3>5
    <3>7. Converting /\ GoodMap(anchor)
      BY <2>10, ConvertingAt, MapsGood DEF RewrapAnchors
    <3>8. \A r \in Records : /\ r \notin Rewrapped => anchor'[r] = anchor[r]
                             /\ r \in Rewrapped => anchor'[r].ver = 3
      BY <2>2, <3>1, <3>5, <3>7, ConvertIs
    <3>9. left' > 0 => OldVersion(anchor') = {}
      BY <3>6, <3>8 DEF OldVersion
    <3> QED  BY <2>3, <2>4, <2>5, <2>10, <3>1, <3>9 DEF EnvelopePhase, OldVersion
  <2> QED  BY <1>7, <2>6, <2>7, <2>8, <2>9, <2>10
<1> QED  BY QuietStep, <1>3, <1>4, <1>5, <1>6, <1>7

LEMMA SetsStep ==
  ASSUME IInv, Next
  PROVE  pending' \subseteq Records /\ quarantine' \subseteq Records
           /\ corrupt' \subseteq Records /\ archived' \subseteq Records
<1> DEFINE Fits == /\ pending' \subseteq Records /\ quarantine' \subseteq Records
                   /\ corrupt' \subseteq Records /\ archived' \subseteq Records
<1>1. /\ pending \subseteq Records /\ quarantine \subseteq Records
      /\ corrupt \subseteq Records /\ archived \subseteq Records
  BY DEF IInv, TypeOK
<1>2. UNCHANGED <<ledgerVars, archived>> => Fits
  BY <1>1 DEF ledgerVars
<1>3. ASSUME NEW r \in Records, Remember(r) \/ Forget(r) \/ Archive(r) \/ Corrupt(r)
      PROVE  Fits
  BY <1>1, <1>3 DEF Remember, Forget, Archive, Corrupt, ledgerVars, lifeVars
<1>4. Save \/ RecordEvidence \/ RotateKey \/ MigrateEnvelope \/ RetirePreviousKey => Fits
  BY <1>2 DEF Save, RecordEvidence, RotateKey, MigrateEnvelope, RetirePreviousKey, lifeVars
<1>5. Draw \/ Activate \/ InvalidateRecovery \/ ProtectSigningKey \/ RotateLshIndex
        \/ RewrapAnchors => Fits
  BY <1>2 DEF Draw, Activate, InvalidateRecovery, ProtectSigningKey, RotateLshIndex,
     RewrapAnchors, lifeVars
<1>6. RotateRow \/ RotateTombstone \/ RowsDone \/ RecordsDone \/ TombstonesDone => Fits
  BY <1>1 DEF RotateRow, RotateTombstone, RowsDone, RecordsDone, TombstonesDone,
     lifeVars, ledgerVars
<1>7. ASSUME ReencryptRecord  PROVE Fits
  <2>1. Eligible \subseteq Nat /\ Eligible # {} /\ Eligible \subseteq Records
    BY <1>7, RekeyingAssumption DEF ReencryptRecord, Eligible, Committed, Present, Records
  <2>2. Min(Eligible) \in Records
    BY <2>1, MinIn
  <2> QED  BY <1>1, <1>7, <2>2 DEF ReencryptRecord, lifeVars
<1>8. VerifyRotation \/ VerifyEnvelope \/ Prepare \/ EnableV3 \/ EnableWrites \/ Unlink
        \/ StepFails \/ FinishActivation \/ Crash => Fits
  BY <1>2 DEF VerifyRotation, VerifyEnvelope, Prepare, EnableV3, EnableWrites, Unlink,
     StepFails, FinishActivation, Crash, lifeVars
<1>9. Open => Fits
  BY <1>1 DEF Open
<1> QED  BY <1>3, <1>4, <1>5, <1>6, <1>7, <1>8, <1>9 DEF Next

\* The batch limit is never exceeded, and the counts are natural numbers.
LEMMA ProcStep ==
  ASSUME IInv, Next
  PROVE  /\ up' \in BOOLEAN /\ op' \in {"none", "rotate", "envelope", "retire"}
         /\ left' \in 0 .. BatchSize /\ victim' \in Keys \cup {NoKey} /\ debt' \in Nat
<1> DEFINE Fits ==
      /\ up' \in BOOLEAN /\ op' \in {"none", "rotate", "envelope", "retire"}
      /\ left' \in 0 .. BatchSize /\ victim' \in Keys \cup {NoKey} /\ debt' \in Nat
<1>1. /\ up \in BOOLEAN /\ op \in {"none", "rotate", "envelope", "retire"}
      /\ left \in 0 .. BatchSize /\ victim \in Keys \cup {NoKey} /\ debt \in Nat
      /\ BatchSize \in Nat
  BY RekeyingAssumption DEF IInv, TypeOK
<1>2. UNCHANGED <<up, op, left, victim, debt>> => Fits
  BY <1>1
<1>3. ASSUME NEW r \in Records, Remember(r) \/ Forget(r) \/ Archive(r) \/ Corrupt(r)
      PROVE  Fits
  BY <1>2, <1>3 DEF Remember, Forget, Archive, Corrupt, procVars
<1>4. Save \/ RecordEvidence => Fits
  BY <1>2 DEF Save, RecordEvidence, procVars
<1>5. ASSUME RotateKey  PROVE Fits
  <2> DEFINE k == IF ring.rotation = "none" THEN ring.active ELSE Source(ring)
  <2>1. /\ Uses(row, k) \ (pending \cup quarantine) \in SUBSET Records
        /\ Uses(tomb, k) \in SUBSET Records /\ Uses(life, k) \in SUBSET Records
    BY DEF Uses
  <2> HIDE DEF k
  <2>2. Convertible(k) \in Nat
    BY <2>1, RecordsFinite DEF Convertible
  <2> QED  BY <1>1, <1>5, <2>2 DEF RotateKey, k
<1>6. MigrateEnvelope => Fits
  BY <1>1 DEF MigrateEnvelope
<1>7. ASSUME RetirePreviousKey  PROVE Fits
  <2>1. Source(ring) \in Keys
    BY <1>7, KeyringSound, SourceIs DEF IInv, TypeOK, RetirePreviousKey
  <2> QED  BY <1>1, <1>7, <2>1 DEF RetirePreviousKey
<1>8. Draw \/ Activate \/ InvalidateRecovery \/ ProtectSigningKey \/ RotateLshIndex => Fits
  BY <1>2 DEF Draw, Activate, InvalidateRecovery, ProtectSigningKey, RotateLshIndex,
     Proceed, Abandon
<1>9. ASSUME RewrapAnchors  PROVE Fits
  <2>1. op = "envelope" => Cardinality(Rewrapped) \in 0 .. left
    <3>1. OldVersion(anchor) \in SUBSET Records /\ left \in Nat
      BY <1>1 DEF OldVersion
    <3> QED  BY <3>1, FirstBatch DEF Rewrapped, Old
  <2>2. op \in {"rotate", "envelope"}
    BY <1>9, ConvertingAt DEF RewrapAnchors, Converting
  <2>3. left' \in 0 .. BatchSize
    BY <1>1, <1>9, <2>1, <2>2 DEF RewrapAnchors, Abandon
  <2> QED  BY <1>1, <1>9, <2>3 DEF RewrapAnchors, Abandon
<1>10. RotateRow \/ ReencryptRecord \/ RotateTombstone => Fits
  BY <1>1 DEF RotateRow, ReencryptRecord, RotateTombstone, Turn
<1>11. RowsDone \/ RecordsDone \/ TombstonesDone => Fits
  BY <1>1 DEF RowsDone, RecordsDone, TombstonesDone
<1>12. VerifyRotation \/ VerifyEnvelope \/ Prepare \/ EnableV3 \/ EnableWrites \/ Unlink
         \/ StepFails => Fits
  BY <1>2 DEF VerifyRotation, VerifyEnvelope, Prepare, EnableV3, EnableWrites, Unlink,
     StepFails, Proceed, Abandon
<1>13. FinishActivation => Fits
  BY <1>2 DEF FinishActivation, procVars
<1>14. Open => Fits
  BY <1>1 DEF Open
<1>15. ASSUME Crash  PROVE Fits
  <2>1. up' = FALSE /\ op' = "none" /\ left' = 0 /\ victim' = NoKey /\ debt' = 0
    BY <1>15 DEF Crash
  <2>2. 0 \in 0 .. BatchSize
    BY <1>1
  <2> QED  BY <2>1, <2>2
<1> QED  BY <1>3, <1>4, <1>5, <1>6, <1>7, <1>8, <1>9, <1>10, <1>11, <1>12, <1>13,
            <1>14, <1>15 DEF Next

-----------------------------------------------------------------------------
(* The theorems *)

LEMMA InitInv ==
  ASSUME Init
  PROVE  IInv
<1> DEFINE m == FirstManifest
<1>1. /\ m \in Manifest /\ m.held = {m.active} /\ m.active = 1 /\ m.opaque = {}
      /\ m.v3 = FALSE /\ m.rotation = "none" /\ 1 \in Keys
  BY KeyringAssumption DEF FirstManifest, Manifest, Keys
<1>2. /\ disk = m /\ ring = m /\ keyFiles = {1} /\ drawn = 1 /\ torn = FALSE /\ faults = 0
      /\ bound = [k \in Keys |-> "none"]
  BY <1>1 DEF Init, KeyringInit
<1>3. LshKey(m) = [key |-> 1, ver |-> 2]
  BY <1>1 DEF LshKey
<1> HIDE DEF m
<1>4. KeyringTypeOK
  <2>1. keyFiles \subseteq Keys /\ drawn \in Keys /\ faults \in 0 .. MaxFaults
    BY <1>1, <1>2, KeyringAssumption
  <2>2. bound \in [Keys -> {"none", "verified", "active"}] /\ torn \in BOOLEAN
    BY <1>2
  <2> QED  BY <1>1, <1>2, <2>1, <2>2 DEF KeyringTypeOK
<1>5. KeyInv
  BY <1>1, <1>2 DEF KeyInv, Link
<1>6. /\ \A f \in {row, tomb, life, anchor} : f = [r \in Records |-> Absent]
      /\ Absent \in Ciphertexts /\ lsh \in Ciphertexts /\ Absent.ver = 0
  <2>1. lsh = [key |-> 1, ver |-> 2]
    BY <1>3 DEF Init, m
  <2>2. Absent \in Ciphertexts /\ lsh \in Ciphertexts
    BY <1>1, <2>1 DEF Ciphertexts
  <2> QED  BY <2>2 DEF Init, Absent
<1>7. TypeOK
  <2>1. \A f \in {row, tomb, life, anchor} : f \in [Records -> Ciphertexts]
    BY <1>6
  <2>2. \A S \in {pending, quarantine, corrupt, archived} : S \subseteq Records
    BY DEF Init
  <2>3. /\ signing = NoKey /\ evidence = NoKey /\ up = FALSE /\ op = "none"
        /\ left = 0 /\ victim = NoKey /\ debt = 0 /\ envelope = "inactive"
    BY DEF Init
  <2>4. 0 \in 0 .. BatchSize
    BY RekeyingAssumption
  <2> QED  BY <1>4, <1>6, <2>1, <2>2, <2>3, <2>4 DEF TypeOK
<1>8. TodoInv
  BY EmptySeq DEF Init, TodoInv
<1>9. DataInv
  <2>1. Fine(Absent)
    BY <1>1, <1>2, <1>6 DEF Fine, Init
  <2>2. WrapFine(NoKey)
    BY <1>1, <1>2 DEF WrapFine
  <2> QED  BY <1>1, <1>2, <1>6, <2>1, <2>2 DEF DataInv, Init
<1>10. EnvelopeInv
  BY <1>1, <1>2, <1>6 DEF EnvelopeInv, Init
<1>11. RotatePhase /\ EnvelopePhase /\ RetirePhase
  BY DEF Init, RotatePhase, EnvelopePhase, RetirePhase
<1> QED  BY <1>5, <1>7, <1>8, <1>9, <1>10, <1>11 DEF IInv

LEMMA StepInv ==
  ASSUME IInv, Next
  PROVE  IInv'
<1>1. KeyringTypeOK' /\ KeyInv'
  BY KeyStep
<1>2. DataGood'
  BY DataStep
<1>3. DataInv'
  <2>1. /\ \A r \in Records : Fine(row[r])' /\ Fine(tomb[r])' /\ Fine(life[r])'
                               /\ Fine(anchor[r])'
    BY <1>2 DEF DataGood, GoodMap
  <2>2. WrapFine(signing)' /\ WrapFine(evidence)'
          /\ (disk'.rotation = "verified" => lsh'.key # Source(disk'))
    BY <1>2 DEF DataGood, WrapsGood
  <2> QED  BY <2>1, <2>2 DEF DataInv
<1>4. TypeOK'
  <2>1. /\ row' \in [Records -> Ciphertexts] /\ tomb' \in [Records -> Ciphertexts]
        /\ life' \in [Records -> Ciphertexts] /\ anchor' \in [Records -> Ciphertexts]
    BY <1>2 DEF DataGood, GoodMap
  <2>2. /\ signing' \in Keys \cup {NoKey} /\ evidence' \in Keys \cup {NoKey}
        /\ lsh' \in Ciphertexts
    BY <1>2 DEF DataGood, WrapsGood
  <2> QED  BY <1>1, <2>1, <2>2, SetsStep, ProcStep, EnvelopeStep DEF TypeOK
<1>5. TodoInv'
  BY ProgressStep, TodoStep DEF IInv
<1>6. EnvelopeInv'
  BY EnvelopeStep, AnchorStep DEF EnvelopeInv
<1> QED  BY <1>1, <1>3, <1>4, <1>5, <1>6, RotatePhaseStep, EnvelopePhaseStep,
            RetirePhaseStep DEF IInv

LEMMA StutterInv ==
  ASSUME IInv, UNCHANGED vars
  PROVE  IInv'
<1>1. UNCHANGED <<disk, ring, keyFiles, bound, drawn, torn, faults, row, pending, tomb,
                  quarantine, corrupt, life, archived, anchor, envelope, signing,
                  evidence, lsh, up, op, todo, left, victim, debt>>
  BY DEF vars, keyringVars, ledgerVars, lifeVars, wrapVars, procVars
<1>2. TypeOK' /\ KeyInv'
  BY <1>1 DEF IInv, TypeOK, KeyringTypeOK, KeyInv, Link
<1>3. TodoInv'
  BY <1>1 DEF IInv, TodoInv, Full
<1>4. DataInv' /\ EnvelopeInv'
  BY <1>1 DEF IInv, DataInv, Fine, WrapFine, EnvelopeInv
<1>5. RotatePhase' /\ EnvelopePhase' /\ RetirePhase'
  BY <1>1 DEF IInv, RotatePhase, EnvelopePhase, RetirePhase, Uses, OldVersion
<1> QED  BY <1>2, <1>3, <1>4, <1>5 DEF IInv

\* The inductive invariant of rotation, retirement and activation.
THEOREM RekeyingInductive == Spec => []IInv
<1>1. Init => IInv
  BY InitInv
<1>2. IInv /\ [Next]_vars => IInv'
  BY StepInv, StutterInv
<1> QED  BY <1>1, <1>2, PTL DEF Spec

\* rotate_key, retire_previous_key and migrate_record_envelope_v3 keep the types
\* of what they touch: a rotation always has exactly one key to leave behind, and
\* no batch goes over its limit.
THEOREM RekeyingTypes == Spec => []TypeOK
<1>1. IInv => TypeOK
  BY DEF IInv
<1> QED  BY <1>1, RekeyingInductive, PTL

\* Every ciphertext of the profile stays readable with the manifest on disk,
\* whatever fails or crashes, at whatever step of rotate_key,
\* retire_previous_key and migrate_record_envelope_v3.
THEOREM RekeyingReadable == Spec => []EverythingReadable
<1>1. ASSUME IInv  PROVE EverythingReadable
  <2>1. ring.held \subseteq disk.held /\ (ring.v3 => disk.v3)
    BY LinkFacts, <1>1 DEF IInv, TypeOK
  <2>2. /\ \A r \in Records : Fine(row[r]) /\ Fine(tomb[r]) /\ Fine(life[r])
                                /\ Fine(anchor[r])
        /\ WrapFine(signing) /\ WrapFine(evidence)
    BY <1>1 DEF IInv, DataInv
  <2>3. ASSUME NEW f \in {row, tomb, life, anchor}, NEW r \in Present(f)
        PROVE  f[r].key \in disk.held \cap keyFiles /\ (f[r].ver = 3 => disk.v3)
    BY <2>1, <2>2 DEF Present, Fine
  <2>4. {signing, evidence} \ {NoKey} \subseteq disk.held \cap keyFiles
    BY <2>1, <2>2 DEF WrapFine
  <2> QED  BY <2>3, <2>4 DEF EverythingReadable
<1> QED  BY <1>1, RekeyingInductive, PTL

\* mark_rotation_verified is never premature: the key it lets retire_previous_key
\* remove reads nothing any more, and nothing is written under it again.
THEOREM RekeyingVerifiedDone == Spec => []VerifiedMeansDone
<1>1. ASSUME IInv  PROVE VerifiedMeansDone
  <2>1. SUFFICES ASSUME disk.rotation = "verified"
                 PROVE  /\ \A f \in {row, tomb, life, anchor} : Uses(f, Source(disk)) = {}
                        /\ Source(disk) \notin {signing, evidence, lsh.key}
    BY DEF VerifiedMeansDone
  <2>2. /\ \A r \in Records : Fine(row[r]) /\ Fine(tomb[r]) /\ Fine(life[r])
                                /\ Fine(anchor[r])
        /\ WrapFine(signing) /\ WrapFine(evidence)
        /\ lsh.key # Source(disk)
    BY <1>1, <2>1 DEF IInv, DataInv
  <2>3. \A f \in {row, tomb, life, anchor} : Uses(f, Source(disk)) = {}
    BY <2>1, <2>2 DEF Uses, Fine
  <2> QED  BY <2>1, <2>2, <2>3 DEF WrapFine
<1> QED  BY <1>1, RekeyingInductive, PTL

\* After mark_record_envelope_v3_verified nothing of the profile is in the v2
\* envelope, what the open Oracle holds included, and nothing returns to it.
THEOREM RekeyingEnvelopePure == Spec => []VerifiedEnvelopeIsPure
<1>1. ASSUME IInv  PROVE VerifiedEnvelopeIsPure
  <2>1. \A r \in Records : Fine(row[r]) /\ Fine(tomb[r]) /\ Fine(life[r])
                                /\ Fine(anchor[r])
    BY <1>1 DEF IInv, DataInv
  <2> QED  BY <2>1 DEF VerifiedEnvelopeIsPure, OldVersion, Fine
<1> QED  BY <1>1, RekeyingInductive, PTL

\* AgentMemory.__init__ opens the profile again after any crash, except after
\* the two failures that Reopens names.
THEOREM RekeyingReopens == Spec => []Reopens
<1>1. ASSUME IInv  PROVE Reopens
  <2>1. SUFFICES ASSUME ~up, ~torn,
                        ~(envelope = "prepared" /\ ~disk.v3 /\ disk.rotation # "none")
                 PROVE  Acceptable /\ (MustFinish => CanEnableV3(disk))
    BY <1>1 DEF Reopens, IInv, TypeOK, KeyringTypeOK
  <2>2. KeyringTypeOK /\ KeyInv
    BY <1>1 DEF IInv, TypeOK
  <2>3. ring = disk /\ disk.opaque = {} /\ disk.held \subseteq keyFiles /\ Sound(disk)
    BY <2>1, <2>2, LinkFacts, KeyringSound DEF KeyInv
  <2>4. /\ \A r \in Records : Fine(row[r]) /\ Fine(tomb[r]) /\ Fine(life[r])
        /\ WrapFine(signing) /\ WrapFine(evidence)
    BY <1>1 DEF IInv, DataInv
  <2>5. /\ envelope \in {"migrating", "verified"} => ring.v3
        /\ disk.v3 => envelope # "inactive"
        /\ envelope \in {"inactive", "prepared", "migrating", "verified"}
    BY <1>1 DEF IInv, EnvelopeInv, TypeOK
  <2>6. \A f \in {row, tomb, life} : \A r \in Present(f) :
           f[r].key \in disk.held /\ (f[r].ver = 3 => disk.v3)
    BY <2>3, <2>4 DEF Present, Fine
  <2>7. envelope = "verified" => OldVersion(row) \cup OldVersion(tomb) = {}
    BY <2>4 DEF OldVersion, Fine
  <2>8. Loads(disk) /\ Revealed(disk) /\ evidence \in disk.held \cup {NoKey}
    BY <2>3, <2>4 DEF Loads, Revealed, WrapFine
  <2>9. (WriteVersion = 3 => disk.v3) /\ (disk.v3 => V3Schema)
    BY <2>3, <2>5 DEF WriteVersion, V3Schema
  <2>10. Acceptable
    BY <2>6, <2>7, <2>8, <2>9 DEF Acceptable
  <2>11. MustFinish => CanEnableV3(disk)
    BY <2>1, <2>3, <2>5 DEF MustFinish, V3Schema, CanEnableV3, Sound
  <2> QED  BY <2>10, <2>11
<1> QED  BY <1>1, RekeyingInductive, PTL

-----------------------------------------------------------------------------
(* The progress of rotate_key *)

\* The key that the call leaves behind, before and after begin_rotation.
Leaving == IF ring.rotation = "none" THEN ring.active ELSE Source(ring)

\* What is under it: the records that rotate_batch can still take, the
\* tombstones and the lifecycle rows.
Waiting == Uses(row, Leaving) \ (pending \cup quarantine)
Buried == Uses(tomb, Leaving)
Living == Uses(life, Leaving)

Burden(W, T, L) == Cardinality(W) + Cardinality(T) + Cardinality(L)

\* With n steps left, c to convert of the d that there were and l left of the
\* batch, W the records and L the lifecycle rows among the c: each of the three
\* loops has used up its batch or has left nothing behind.
Advances(n, c, d, l, W, L) ==
  /\ c <= d
  /\ n = 4 => c + (BatchSize - l) <= d
  /\ n = 3 => c < d \/ (L = {} /\ c + (BatchSize - l) <= d)
  /\ n = 2 => c < d \/ (W = {} /\ L = {} /\ c + (BatchSize - l) <= d)
  /\ n = 1 => c < d \/ d = 0

AdvanceInv ==
  op = "rotate" /\ todo # <<>> =>
    Advances(Len(todo), Burden(Waiting, Buried, Living), debt, left, Waiting, Living)

LEMMA Counts ==
  ASSUME NEW W \in SUBSET Records, NEW T \in SUBSET Records, NEW L \in SUBSET Records
  PROVE  /\ Cardinality(W) \in Nat /\ Cardinality(T) \in Nat /\ Cardinality(L) \in Nat
         /\ Burden(W, T, L) \in Nat
         /\ W = {} /\ T = {} /\ L = {} => Burden(W, T, L) = 0
BY RecordsFinite, FS_EmptySet DEF Burden

LEMMA Sets == {Waiting, Buried, Living} \subseteq SUBSET Records
BY DEF Waiting, Buried, Living, Uses

LEMMA OneLess ==
  ASSUME NEW S \in SUBSET Records, NEW r \in S
  PROVE  /\ Cardinality(S) \in Nat /\ Cardinality(S \ {r}) \in Nat
         /\ Cardinality(S \ {r}) = Cardinality(S) - 1
BY RecordsFinite, FS_RemoveElement

\* Where a rotation converts, the key it leaves is the source in the manifest,
\* and a converted record is no longer under it.
LEMMA ConvertedUses ==
  ASSUME IInv, Converting, op = "rotate"
  PROVE  /\ ring.rotation = "migrating" /\ Leaving = Source(ring)
         /\ Source(ring) # NoKey
         /\ Eligible = Waiting
         /\ \A f : GoodMap(f) =>
              /\ Old(f) = Uses(f, Leaving)
              /\ \A S \in SUBSET Uses(f, Leaving) :
                   Uses(Convert(f, S), Leaving) = Uses(f, Leaving) \ S
<1>1. KeyringTypeOK /\ TodoInv /\ op \in {"none", "rotate", "envelope", "retire"}
  BY DEF IInv, TypeOK
<1>2. Len(todo) \in 1 .. 10 /\ Len(todo) <= 5
  BY <1>1, Where DEF Converting
<1>3. ring.rotation = "migrating"
  BY <1>2 DEF IInv, RotatePhase, Converting
<1>4. Leaving = Source(ring) /\ Source(ring) # NoKey /\ Source(ring) # ring.active
  BY <1>1, <1>3, KeyringSound, SourceIs DEF Leaving
<1>5. \A f : Old(f) = Uses(f, Leaving)
  BY <1>4 DEF Old
<1>6. Eligible = Waiting
  <2>1. \A r \in Uses(row, Leaving) : row[r] # Absent
    BY <1>4 DEF Uses, Absent
  <2>2. Eligible = (Uses(row, Leaving) \cap Committed) \ quarantine
    BY <1>5 DEF Eligible
  <2>3. Uses(row, Leaving) \subseteq Present(row)
    BY <2>1 DEF Uses, Present
  <2> QED  BY <2>2, <2>3 DEF Waiting, Committed
<1>7. ASSUME NEW f, GoodMap(f), NEW S \in SUBSET Uses(f, Leaving)
      PROVE  Uses(Convert(f, S), Leaving) = Uses(f, Leaving) \ S
  <2>1. S \subseteq Old(f) /\ S \subseteq Records
    BY <1>5, <1>7 DEF Uses
  <2>2. \A r \in Records : /\ r \notin S => Convert(f, S)[r] = f[r]
                           /\ r \in S => Convert(f, S)[r].key = ring.active
    BY <1>7, <2>1, ConvertIs
  <2> QED  BY <1>4, <2>1, <2>2 DEF Uses
<1> QED  BY <1>3, <1>4, <1>5, <1>6, <1>7

\* The steps that a rotation is taken on by.
LEMMA AdvanceRoute ==
  ASSUME IInv, Next, op' = "rotate", todo' # <<>>, ~RotateKey
  PROVE  /\ op = "rotate" /\ todo # <<>> /\ up
         /\ debt' = debt
         /\ \/ \E r \in Records : Corrupt(r)
            \/ Draw \/ InvalidateRecovery \/ ProtectSigningKey \/ RotateLshIndex
            \/ Activate /\ todo' = Tail(todo)
            \/ RewrapAnchors /\ todo' = Tail(todo)
            \/ RotateRow \/ RowsDone \/ ReencryptRecord \/ RecordsDone
            \/ RotateTombstone \/ TombstonesDone
<1> DEFINE Goal ==
      /\ op = "rotate" /\ todo # <<>> /\ up
      /\ debt' = debt
      /\ \/ \E r \in Records : Corrupt(r)
         \/ Draw \/ InvalidateRecovery \/ ProtectSigningKey \/ RotateLshIndex
         \/ Activate /\ todo' = Tail(todo)
         \/ RewrapAnchors /\ todo' = Tail(todo)
         \/ RotateRow \/ RowsDone \/ ReencryptRecord \/ RecordsDone
         \/ RotateTombstone \/ TombstonesDone
<1>1. /\ TodoInv /\ op \in {"none", "rotate", "envelope", "retire"}
      /\ todo # <<>> => up
  BY DEF IInv, TypeOK, TodoInv
<1>2. ASSUME NEW r \in Records, Remember(r) \/ Forget(r) \/ Archive(r)
      PROVE  Goal
  BY <1>2 DEF Remember, Forget, Archive, Idle, procVars
<1>3. ASSUME NEW r \in Records, Corrupt(r)  PROVE Goal
  BY <1>1, <1>3 DEF Corrupt, procVars
<1>4. Save \/ RecordEvidence \/ MigrateEnvelope \/ RetirePreviousKey => Goal
  BY DEF Save, RecordEvidence, MigrateEnvelope, RetirePreviousKey, Idle, procVars
<1>5. Draw \/ InvalidateRecovery \/ ProtectSigningKey \/ RotateLshIndex => Goal
  BY DEF Draw, InvalidateRecovery, ProtectSigningKey, RotateLshIndex, At, Proceed
<1>6. Activate => Goal
  BY DEF Activate, At, Proceed, Abandon
<1>7. RewrapAnchors => Goal
  BY DEF RewrapAnchors, At, Abandon
<1>8. RotateRow \/ ReencryptRecord \/ RotateTombstone => Goal
  BY DEF RotateRow, ReencryptRecord, RotateTombstone, At, Turn
<1>9. RowsDone \/ RecordsDone \/ TombstonesDone => Goal
  BY DEF RowsDone, RecordsDone, TombstonesDone, At
<1>10. ASSUME VerifyRotation  PROVE Goal
  <2>1. todo # <<>> /\ Head(todo) = "verify" /\ op = "rotate" /\ todo' = Tail(todo)
    BY <1>10 DEF VerifyRotation, At, Proceed
  <2> QED  BY <1>1, <2>1, Where, StepsLeft
<1>11. ASSUME VerifyEnvelope \/ Prepare \/ EnableV3 \/ EnableWrites \/ Unlink
       PROVE  Goal
  <2>1. op' = op /\ todo # <<>>
    BY <1>11 DEF VerifyEnvelope, Prepare, EnableV3, EnableWrites, Unlink, At, Proceed,
       Abandon
  <2>2. op # "rotate"
    BY <1>1, <1>11, Where DEF VerifyEnvelope, Prepare, EnableV3, EnableWrites, Unlink, At
  <2> QED  BY <2>1, <2>2
<1>12. StepFails \/ Crash => Goal
  BY DEF StepFails, Abandon, Crash
<1>13. FinishActivation \/ Open => Goal
  BY <1>1 DEF FinishActivation, Open, procVars
<1> QED  BY <1>2, <1>3, <1>4, <1>5, <1>6, <1>7, <1>8, <1>9, <1>10, <1>11, <1>12,
            <1>13 DEF Next

\* A step that converts nothing, with the same key to leave.
Uncounted ==
  /\ UNCHANGED <<row, tomb, life, pending, quarantine>>
  /\ Leaving' = Leaving

LEMMA UncountedStep ==
  ASSUME Uncounted
  PROVE  UNCHANGED <<Waiting, Buried, Living>>
BY DEF Uncounted, Waiting, Buried, Living, Uses

\* The numbers of a step.
LEMMA NumbersOn ==
  ASSUME NEW n \in 1 .. 10, NEW c \in Nat, NEW d \in Nat, NEW l \in 0 .. BatchSize,
         NEW W, NEW L, Advances(n, c, d, l, W, L)
  PROVE  /\ n >= 6 => \A k : Advances(n - 1, c, d, k, W, L)
         /\ n = 5 => \A b \in Nat : \A V, K : b <= c => Advances(4, b, d, BatchSize, V, K)
         /\ n = 4 /\ l > 0 /\ c > 0 => \A V, K : Advances(4, c - 1, d, l - 1, V, K)
         /\ n = 4 /\ (L = {} \/ l = 0) => Advances(3, c, d, BatchSize, W, L)
         /\ n = 3 /\ l > 0 /\ c > 0 => \A V : Advances(3, c - 1, d, l - 1, V, L)
         /\ n = 3 /\ (W = {} \/ l = 0) => Advances(2, c, d, l, W, L)
         /\ n = 2 /\ l > 0 /\ c > 0 => Advances(2, c - 1, d, l - 1, W, L)
         /\ n = 2 /\ ((W = {} /\ L = {} => c = 0) \/ l = 0) => Advances(1, c, d, l, W, L)
<1>0. BatchSize \in Nat \ {0} /\ l \in Nat /\ n \in Nat
  BY RekeyingAssumption
<1>1. /\ c <= d
      /\ n = 4 => c + (BatchSize - l) <= d
      /\ n = 3 => c < d \/ (L = {} /\ c + (BatchSize - l) <= d)
      /\ n = 2 => c < d \/ (W = {} /\ L = {} /\ c + (BatchSize - l) <= d)
  BY DEF Advances
<1>2. n >= 6 => \A k : Advances(n - 1, c, d, k, W, L)
  <2>1. ASSUME n >= 6  PROVE n - 1 # 4 /\ n - 1 # 3 /\ n - 1 # 2 /\ n - 1 # 1
    BY <1>0, <2>1
  <2> QED  BY <1>1, <2>1 DEF Advances
<1>3. n = 5 => \A b \in Nat : \A V, K : b <= c => Advances(4, b, d, BatchSize, V, K)
  BY <1>0, <1>1 DEF Advances
<1>4. n = 4 /\ l > 0 /\ c > 0 => \A V, K : Advances(4, c - 1, d, l - 1, V, K)
  BY <1>0, <1>1 DEF Advances
<1>5. n = 4 /\ (L = {} \/ l = 0) => Advances(3, c, d, BatchSize, W, L)
  BY <1>0, <1>1 DEF Advances
<1>6. n = 3 /\ l > 0 /\ c > 0 => \A V : Advances(3, c - 1, d, l - 1, V, L)
  BY <1>0, <1>1 DEF Advances
<1>7. n = 3 /\ (W = {} \/ l = 0) => Advances(2, c, d, l, W, L)
  BY <1>0, <1>1 DEF Advances
<1>8. n = 2 /\ l > 0 /\ c > 0 => Advances(2, c - 1, d, l - 1, W, L)
  BY <1>0, <1>1 DEF Advances
<1>9. n = 2 /\ ((W = {} /\ L = {} => c = 0) \/ l = 0) => Advances(1, c, d, l, W, L)
  BY <1>0, <1>1 DEF Advances
<1> QED  BY <1>2, <1>3, <1>4, <1>5, <1>6, <1>7, <1>8, <1>9

\* A loop that has taken one record.
LEMMA OneTaken ==
  ASSUME NEW W \in SUBSET Records, NEW T \in SUBSET Records, NEW L \in SUBSET Records
  PROVE  /\ Burden(W, T, L) \in Nat
         /\ \A r \in W : Burden(W \ {r}, T, L) = Burden(W, T, L) - 1
                           /\ Burden(W \ {r}, T, L) \in Nat
         /\ \A r \in T : Burden(W, T \ {r}, L) = Burden(W, T, L) - 1
                           /\ Burden(W, T \ {r}, L) \in Nat
         /\ \A r \in L : Burden(W, T, L \ {r}) = Burden(W, T, L) - 1
                           /\ Burden(W, T, L \ {r}) \in Nat
<1>1. Cardinality(W) \in Nat /\ Cardinality(T) \in Nat /\ Cardinality(L) \in Nat
  BY Counts
<1>2. ASSUME NEW r \in W
      PROVE  Burden(W \ {r}, T, L) = Burden(W, T, L) - 1 /\ Burden(W \ {r}, T, L) \in Nat
  <2>1. Cardinality(W \ {r}) = Cardinality(W) - 1 /\ Cardinality(W \ {r}) \in Nat
    BY OneLess
  <2> QED  BY <1>1, <2>1 DEF Burden
<1>3. ASSUME NEW r \in T
      PROVE  Burden(W, T \ {r}, L) = Burden(W, T, L) - 1 /\ Burden(W, T \ {r}, L) \in Nat
  <2>1. Cardinality(T \ {r}) = Cardinality(T) - 1 /\ Cardinality(T \ {r}) \in Nat
    BY OneLess
  <2> QED  BY <1>1, <2>1 DEF Burden
<1>4. ASSUME NEW r \in L
      PROVE  Burden(W, T, L \ {r}) = Burden(W, T, L) - 1 /\ Burden(W, T, L \ {r}) \in Nat
  <2>1. Cardinality(L \ {r}) = Cardinality(L) - 1 /\ Cardinality(L \ {r}) \in Nat
    BY OneLess
  <2> QED  BY <1>1, <2>1 DEF Burden
<1> QED  BY <1>1, <1>2, <1>3, <1>4 DEF Burden

\* The key to leave stays the same: begin_rotation makes it the source.
LEMMA LeavingStays ==
  ASSUME IInv, Next, op = "rotate", todo # <<>>,
         ring' = ring \/ (Activate /\ todo' = Tail(todo))
  PROVE  Leaving' = Leaving
<1>1. ring' = ring => Leaving' = Leaving
  BY DEF Leaving
<1>2. ASSUME Activate, todo' = Tail(todo), ring' # ring  PROVE Leaving' = Leaving
  <2>1. KeyringTypeOK /\ KeyInv /\ TodoInv /\ op \in {"none", "rotate", "envelope", "retire"}
    BY DEF IInv, TypeOK
  <2>2. Len(todo) = 9
    BY <1>2, <2>1, Where DEF Activate, At
  <2>3. ring.rotation = "none" /\ \A k \in disk.held : k < drawn
    BY <2>2 DEF IInv, RotatePhase
  <2>4. ring' = Rotated(ring, drawn)
    BY <1>2 DEF Activate, ActivateKey, ActivateKeyFails, Publish, PublishFails
  <2>5. drawn \in Keys \ ring.held
    BY <2>1, <2>3, LinkFacts, KeyringAssumption DEF KeyringTypeOK, Keys
  <2>6. /\ Rotated(ring, drawn).rotation = "migrating"
        /\ Source(Rotated(ring, drawn)) = ring.active
    BY <2>1, <2>3, <2>5, KeyringSound, RotatedIs DEF KeyInv
  <2> QED  BY <2>3, <2>4, <2>6 DEF Leaving
<1> QED  BY <1>1, <1>2

\* rewrap_active_protected_anchors saves the workspace, which brings no row back
\* under the key that is left.
LEMMA RewrapLeaves ==
  ASSUME IInv, Next, op = "rotate", RewrapAnchors, todo' = Tail(todo)
  PROVE  /\ Len(todo) = 5 /\ left' = BatchSize
         /\ Waiting' = Waiting /\ Buried' = Buried /\ Living' \subseteq Living
<1>1. Converting /\ Len(todo) = 5 /\ todo # <<>> /\ GoodMap(anchor)
  BY ConvertingAt, MapsGood DEF RewrapAnchors, At
<1>2. UNCHANGED <<ring, row, tomb, pending, quarantine>>
  BY DEF RewrapAnchors, ledgerVars
<1>3. Leaving' = Leaving
  BY <1>2 DEF Leaving
<1>4. Len(todo') = 4
  BY <1>1, Onward
<1>5. todo' # <<>>
  BY <1>4
<1>6. /\ Rewrapped = Old(anchor) /\ left' = BatchSize /\ anchor' = Convert(anchor, Rewrapped)
      /\ life' = life \/ life' = Saved(anchor')
  BY <1>5 DEF RewrapAnchors, Rewrapped, Abandon
<1>7. /\ Old(anchor) = Uses(anchor, Leaving)
      /\ \A S \in SUBSET Uses(anchor, Leaving) :
           Uses(Convert(anchor, S), Leaving) = Uses(anchor, Leaving) \ S
  BY <1>1, ConvertedUses
<1>8. Uses(anchor', Leaving) = {}
  BY <1>6, <1>7
<1>9. Uses(life', Leaving) \subseteq Uses(life, Leaving)
  <2>1. CASE life' = life
    BY <2>1
  <2>2. CASE life' = Saved(anchor')
    <3>1. \A r \in Records : anchor'[r].key # Leaving
      BY <1>8 DEF Uses
    <3>2. \A r \in Records : life'[r] = anchor'[r] \/ life'[r] = life[r]
      BY <2>2 DEF Saved
    <3> QED  BY <3>1, <3>2 DEF Uses
  <2> QED  BY <1>6, <2>1, <2>2
<1>10. Waiting' = Waiting /\ Buried' = Buried
  BY <1>2, <1>3 DEF Waiting, Buried, Uses
<1>11. Living' \subseteq Living
  BY <1>3, <1>9 DEF Living, Uses
<1> QED  BY <1>1, <1>6, <1>10, <1>11

LEMMA AdvanceStep ==
  ASSUME IInv, AdvanceInv, Next
  PROVE  AdvanceInv'
<1> SUFFICES ASSUME op' = "rotate", todo' # <<>>
             PROVE  Advances(Len(todo'), Burden(Waiting', Buried', Living'), debt',
                             left', Waiting', Living')
  BY DEF AdvanceInv
<1>1. /\ TodoInv /\ op \in {"none", "rotate", "envelope", "retire"}
      /\ left \in 0 .. BatchSize /\ debt \in Nat /\ BatchSize \in Nat \ {0}
  BY RekeyingAssumption DEF IInv, TypeOK
<1> DEFINE W == Waiting
           T == Buried
           L == Living
           c == Burden(W, T, L)
           n == Len(todo)
<1>2. /\ W \in SUBSET Records /\ T \in SUBSET Records /\ L \in SUBSET Records
      /\ c \in Nat
  BY Sets, Counts
<1>3. CASE RotateKey
  <2>1. /\ UNCHANGED <<ring, row, tomb, life, pending, quarantine>>
        /\ debt' = Convertible(Leaving) /\ left' = BatchSize
        /\ todo' = IF ring.rotation = "migrating" THEN Tail(Tail(RotateSteps))
                   ELSE RotateSteps
    BY <1>3 DEF RotateKey, keyringVars, ledgerVars, lifeVars, Leaving
  <2>2. Len(todo') \in {8, 10}
    BY <2>1, BeginLengths
  <2>3. Waiting' = W /\ Buried' = T /\ Living' = L
    BY <2>1, UncountedStep DEF Uncounted, Leaving
  <2>4. debt' = c
    BY <2>1 DEF Convertible, Burden, Waiting, Buried, Living
  <2> HIDE DEF W, T, L, c
  <2>5. Burden(Waiting', Buried', Living') = c
    BY <2>3 DEF c
  <2>6. ASSUME NEW m \in {8, 10}  PROVE Advances(m, c, c, BatchSize, W, L)
    BY <1>2, <2>6 DEF Advances
  <2> QED  BY <2>1, <2>2, <2>3, <2>4, <2>5, <2>6
<1>4. CASE ~RotateKey
  <2>1. /\ op = "rotate" /\ todo # <<>> /\ up /\ debt' = debt
        /\ \/ \E r \in Records : Corrupt(r)
           \/ Draw \/ InvalidateRecovery \/ ProtectSigningKey \/ RotateLshIndex
           \/ Activate /\ todo' = Tail(todo)
           \/ RewrapAnchors /\ todo' = Tail(todo)
           \/ RotateRow \/ RowsDone \/ ReencryptRecord \/ RecordsDone
           \/ RotateTombstone \/ TombstonesDone
    BY <1>4, AdvanceRoute
  <2>2. n \in 1 .. 10 /\ Advances(n, c, debt, left, W, L)
    BY <1>1, <2>1, Where DEF AdvanceInv
  <2>3. todo' = Tail(todo) => Len(todo') = n - 1
    BY <2>1, Onward
  <2> DEFINE Goal == Advances(Len(todo'), Burden(Waiting', Buried', Living'), debt',
                              left', Waiting', Living')
  <2>4. ASSUME NEW r \in Records, Corrupt(r)  PROVE Goal
    <3>1. UNCHANGED <<ring, row, tomb, life, pending, quarantine, todo, left>>
      BY <2>4 DEF Corrupt, lifeVars, procVars
    <3>2. Waiting' = W /\ Buried' = T /\ Living' = L
      BY <3>1, UncountedStep DEF Uncounted, Leaving
    <3> QED  BY <2>1, <2>2, <3>1, <3>2
  <2>5. ASSUME \/ Draw \/ InvalidateRecovery \/ ProtectSigningKey \/ RotateLshIndex
               \/ Activate /\ todo' = Tail(todo)
        PROVE  Goal
    <3>1. /\ UNCHANGED <<row, tomb, life, pending, quarantine>> /\ todo' = Tail(todo)
          /\ ring' = ring \/ Activate
      BY <2>5 DEF Draw, InvalidateRecovery, ProtectSigningKey, RotateLshIndex, Activate,
         keyringVars, ledgerVars, lifeVars, Proceed
    <3>2. Waiting' = W /\ Buried' = T /\ Living' = L
      BY <2>1, <3>1, LeavingStays, UncountedStep DEF Uncounted
    <3>3. n >= 6
      <4>1. Head(todo) \in {"draw", "activate", "readiness", "signing", "lsh"}
        BY <2>5 DEF Draw, InvalidateRecovery, ProtectSigningKey, RotateLshIndex,
           Activate, At
      <4>2. n \in {6, 7, 8, 9, 10}
        BY <1>1, <2>1, <4>1, Where
      <4> HIDE DEF n
      <4> QED  BY <4>2
    <3> HIDE DEF W, T, L, n
    <3>4. Burden(Waiting', Buried', Living') = c
      BY <3>2
    <3> HIDE DEF c
    <3>5. \A k : Advances(n - 1, c, debt, k, W, L)
      BY <1>1, <1>2, <2>2, <3>3, NumbersOn
    <3> QED  BY <2>1, <2>3, <3>1, <3>2, <3>4, <3>5
  <2>6. ASSUME RewrapAnchors, todo' = Tail(todo)  PROVE Goal
    <3>1. n = 5 /\ left' = BatchSize /\ Waiting' = W /\ Buried' = T /\ Living' \subseteq L
      BY <2>1, <2>6, RewrapLeaves
    <3> DEFINE K == Living'
    <3>2. K \in SUBSET Records /\ K \subseteq L
      BY <1>2, <3>1
    <3> HIDE DEF K, W, T, L, n
    <3>3. Burden(W, T, K) \in Nat /\ Burden(W, T, K) <= c
      <4>1. Cardinality(K) <= Cardinality(L)
        BY <1>2, <3>2, RecordsFinite, FS_Subset
      <4>2. /\ Cardinality(W) \in Nat /\ Cardinality(T) \in Nat /\ Cardinality(K) \in Nat
            /\ Cardinality(L) \in Nat
        BY <1>2, <3>2, RecordsFinite
      <4> QED  BY <4>1, <4>2 DEF Burden
    <3> HIDE DEF c
    <3>4. Advances(4, Burden(W, T, K), debt, BatchSize, W, K)
      BY <1>1, <1>2, <2>2, <3>1, <3>3, NumbersOn
    <3>5. Len(todo') = 4
      BY <2>3, <2>6, <3>1
    <3> QED  BY <2>1, <3>1, <3>4, <3>5 DEF K
  <2>7. ASSUME RotateRow \/ ReencryptRecord \/ RotateTombstone  PROVE Goal
    <3>1. /\ UNCHANGED <<ring, todo, pending>> /\ left > 0 /\ left' = left - 1
          /\ Converting /\ Leaving' = Leaving
      BY <2>7, ConvertingAt DEF RotateRow, ReencryptRecord, RotateTombstone, Turn,
         keyringVars, ledgerVars, Leaving
    <3>2. /\ RotateRow => n = 4
          /\ ReencryptRecord => n = 3
          /\ RotateTombstone => n = 2
      BY <1>1, <2>1, Where DEF RotateRow, ReencryptRecord, RotateTombstone, At
    <3>3. GoodMap(row) /\ GoodMap(tomb) /\ GoodMap(life)
      BY MapsGood
    <3>4. /\ Old(life) = L /\ Old(tomb) = T /\ Eligible = W
          /\ \A r \in L : Uses(Convert(life, {r}), Leaving) = L \ {r}
          /\ \A r \in T : Uses(Convert(tomb, {r}), Leaving) = T \ {r}
          /\ \A r \in Uses(row, Leaving) :
               Uses(Convert(row, {r}), Leaving) = Uses(row, Leaving) \ {r}
      BY <2>1, <3>1, <3>3, ConvertedUses DEF Living, Buried
    <3>5. CASE RotateRow
      <4>1. /\ UNCHANGED <<row, tomb, pending, quarantine>>
            /\ \E r \in L : life' = Convert(life, {r})
        BY <3>4, <3>5 DEF RotateRow, ledgerVars
      <4>2. PICK r \in L : life' = Convert(life, {r})
        BY <4>1
      <4>3. Living' = L \ {r}
        BY <3>1, <3>4, <4>2 DEF Living, Uses
      <4>4. Waiting' = W /\ Buried' = T
        BY <3>1, <4>1 DEF Waiting, Buried, Uses
      <4> HIDE DEF W, T, L, n
      <4>5. Burden(Waiting', Buried', Living') = c - 1 /\ c > 0
        <5>1. Burden(W, T, L \ {r}) = c - 1 /\ Burden(W, T, L \ {r}) \in Nat
          BY <1>2, <4>2, OneTaken
        <5> QED  BY <1>2, <4>3, <4>4, <5>1
      <4> HIDE DEF c
      <4>6. \A V, K : Advances(4, c - 1, debt, left - 1, V, K)
        BY <1>1, <1>2, <2>2, <3>1, <3>2, <3>5, <4>5, NumbersOn
      <4>7. Len(todo') = 4
        BY <3>1, <3>2, <3>5 DEF n
      <4> QED  BY <2>1, <3>1, <4>5, <4>6, <4>7
    <3>6. CASE ReencryptRecord
      <4> DEFINE r == Min(Eligible)
      <4>1. r \in W /\ r \in Uses(row, Leaving) /\ W \subseteq Records
        <5>1. Eligible \subseteq Nat /\ Eligible # {}
          BY <1>2, <3>4, <3>6, RekeyingAssumption DEF ReencryptRecord, Records
        <5> QED  BY <1>2, <3>4, <5>1, MinIn DEF Waiting
      <4>2. /\ UNCHANGED <<tomb, life, pending>>
            /\ \/ row' = Convert(row, {r}) /\ quarantine' = quarantine
               \/ row' = row /\ quarantine' = quarantine \cup {r}
        BY <3>6 DEF ReencryptRecord, Rewrite, lifeVars
      <4> HIDE DEF r
      <4>3. Waiting' = W \ {r}
        <5>1. Uses(row', Leaving) \ (pending \cup quarantine') = W \ {r}
          BY <3>4, <4>1, <4>2 DEF Waiting
        <5> QED  BY <3>1, <5>1 DEF Waiting, Uses
      <4>4. Buried' = T /\ Living' = L
        BY <3>1, <4>2 DEF Buried, Living, Uses
      <4> HIDE DEF W, T, L, n
      <4>5. Burden(Waiting', Buried', Living') = c - 1 /\ c > 0
        <5>1. Burden(W \ {r}, T, L) = c - 1 /\ Burden(W \ {r}, T, L) \in Nat
          BY <1>2, <4>1, OneTaken
        <5> QED  BY <1>2, <4>3, <4>4, <5>1
      <4> HIDE DEF c
      <4>6. \A V : Advances(3, c - 1, debt, left - 1, V, L)
        BY <1>1, <1>2, <2>2, <3>1, <3>2, <3>6, <4>5, NumbersOn
      <4>7. Len(todo') = 3
        BY <3>1, <3>2, <3>6 DEF n
      <4> QED  BY <2>1, <3>1, <4>4, <4>5, <4>6, <4>7
    <3>7. CASE RotateTombstone
      <4>1. /\ UNCHANGED <<row, life, pending, quarantine>>
            /\ \E r \in T : tomb' = Convert(tomb, {r})
        BY <3>4, <3>7 DEF RotateTombstone, lifeVars
      <4>2. PICK r \in T : tomb' = Convert(tomb, {r})
        BY <4>1
      <4>3. Buried' = T \ {r}
        BY <3>1, <3>4, <4>2 DEF Buried, Uses
      <4>4. Waiting' = W /\ Living' = L
        BY <3>1, <4>1 DEF Waiting, Living, Uses
      <4> HIDE DEF W, T, L, n
      <4>5. Burden(Waiting', Buried', Living') = c - 1 /\ c > 0
        <5>1. Burden(W, T \ {r}, L) = c - 1 /\ Burden(W, T \ {r}, L) \in Nat
          BY <1>2, <4>2, OneTaken
        <5> QED  BY <1>2, <4>3, <4>4, <5>1
      <4> HIDE DEF c
      <4>6. Advances(2, c - 1, debt, left - 1, W, L)
        BY <1>1, <1>2, <2>2, <3>1, <3>2, <3>7, <4>5, NumbersOn
      <4>7. Len(todo') = 2
        BY <3>1, <3>2, <3>7 DEF n
      <4> QED  BY <2>1, <3>1, <4>4, <4>5, <4>6, <4>7
    <3> QED  BY <2>7, <3>5, <3>6, <3>7
  <2>8. ASSUME RowsDone \/ RecordsDone \/ TombstonesDone  PROVE Goal
    <3>1. /\ UNCHANGED <<ring, row, tomb, life, pending, quarantine>>
          /\ todo' = Tail(todo) /\ Converting
      BY <2>8, ConvertingAt DEF RowsDone, RecordsDone, TombstonesDone, EndLoop,
         keyringVars, ledgerVars, lifeVars
    <3>2. Waiting' = W /\ Buried' = T /\ Living' = L
      BY <3>1, UncountedStep DEF Uncounted, Leaving
    <3>3. Old(life) = L /\ Old(tomb) = T /\ Eligible = W
      BY <2>1, <3>1, MapsGood, ConvertedUses DEF Living, Buried
    <3>4. /\ RowsDone => n = 4 /\ (L = {} \/ left = 0) /\ left' = BatchSize
          /\ RecordsDone => n = 3 /\ (W = {} \/ left = 0) /\ left' = left
          /\ TombstonesDone => n = 2 /\ (T = {} \/ left = 0) /\ left' = left
      BY <1>1, <2>1, <3>3, Where DEF RowsDone, RecordsDone, TombstonesDone, EndLoop, At
    <3> HIDE DEF W, T, L, n
    <3>5. Burden(Waiting', Buried', Living') = c
      BY <3>2
    <3>6. W = {} /\ L = {} /\ T = {} => c = 0
      BY <1>2, Counts
    <3> HIDE DEF c
    <3>7. CASE RowsDone
      <4>1. Advances(3, c, debt, BatchSize, W, L) /\ Len(todo') = 3
        BY <1>1, <1>2, <2>2, <2>3, <3>1, <3>4, <3>7, NumbersOn
      <4> QED  BY <2>1, <3>2, <3>4, <3>5, <3>7, <4>1
    <3>8. CASE RecordsDone
      <4>1. Advances(2, c, debt, left, W, L) /\ Len(todo') = 2
        BY <1>1, <1>2, <2>2, <2>3, <3>1, <3>4, <3>8, NumbersOn
      <4> QED  BY <2>1, <3>2, <3>4, <3>5, <3>8, <4>1
    <3>9. CASE TombstonesDone
      <4>1. Advances(1, c, debt, left, W, L) /\ Len(todo') = 1
        BY <1>1, <1>2, <2>2, <2>3, <3>1, <3>4, <3>6, <3>9, NumbersOn
      <4> QED  BY <2>1, <3>2, <3>4, <3>5, <3>9, <4>1
    <3> QED  BY <2>8, <3>7, <3>8, <3>9
  <2> QED  BY <2>1, <2>4, <2>5, <2>6, <2>7, <2>8
<1> QED  BY <1>3, <1>4

\* A rotate_key that reaches its end leaves less under the old key than it
\* found there, or found nothing: pending and quarantined records take nothing
\* of its batches.
THEOREM RekeyingAdvances == Spec => EachCallAdvances
<1>1. Init => AdvanceInv
  BY DEF Init, AdvanceInv
<1>2. IInv /\ AdvanceInv /\ [Next]_vars => AdvanceInv'
  <2>1. ASSUME AdvanceInv, UNCHANGED vars  PROVE AdvanceInv'
    <3>1. UNCHANGED <<op, todo, left, debt, ring, row, tomb, life, pending, quarantine>>
      BY <2>1 DEF vars, keyringVars, ledgerVars, lifeVars, procVars
    <3>2. UNCHANGED <<Waiting, Buried, Living>>
      BY <3>1, UncountedStep DEF Uncounted, Leaving
    <3> QED  BY <2>1, <3>1, <3>2 DEF AdvanceInv
  <2> QED  BY <2>1, AdvanceStep
<1>3. ASSUME IInv, AdvanceInv, At("verify"), op = "rotate"
      PROVE  debt = 0 \/ Convertible(Source(ring)) < debt
  <2>1. TodoInv /\ op \in {"none", "rotate", "envelope", "retire"} /\ todo # <<>>
          /\ Head(todo) = "verify"
    BY <1>3 DEF IInv, TypeOK, At
  <2>2. Len(todo) = 1
    BY <1>3, <2>1, Where
  <2>3. Advances(1, Burden(Waiting, Buried, Living), debt, left, Waiting, Living)
    BY <1>3, <2>1, <2>2 DEF AdvanceInv
  <2>4. ring.rotation = "migrating"
    BY <1>3, <2>1, <2>2 DEF IInv, RotatePhase
  <2>5. Convertible(Source(ring)) = Burden(Waiting, Buried, Living)
    BY <2>4 DEF Convertible, Burden, Waiting, Buried, Living, Leaving
  <2> QED  BY <2>3, <2>5 DEF Advances
<1>4. IInv /\ AdvanceInv /\ [Next]_vars =>
        [At("verify") /\ op = "rotate" /\ todo' = <<>> =>
           debt = 0 \/ Convertible(Source(ring)) < debt]_vars
  BY <1>3
<1> QED  BY <1>1, <1>2, <1>4, RekeyingInductive, PTL DEF Spec, EachCallAdvances

-----------------------------------------------------------------------------
(* Migration: folds over sets                                              *)

\* A chosen member of a set, the way FoldSet chooses it.
OneOf(S) == CHOOSE x \in S : TRUE

\* The subsets of S with at most k members: a fold over S is defined on all of
\* them, by induction on k.
UpTo(S, k) == {D \in SUBSET S : Cardinality(D) <= k}

LEMMA UpToFacts ==
  ASSUME NEW S, IsFiniteSet(S)
  PROVE  /\ Cardinality(S) \in Nat
         /\ UpTo(S, Cardinality(S)) = SUBSET S
         /\ \A D \in UpTo(S, 0) : D = {}
         /\ \A k \in Nat : \A D \in UpTo(S, k + 1) :
              D # {} => OneOf(D) \in D /\ D \ {OneOf(D)} \in UpTo(S, k)
<1>1. \A D \in SUBSET S : /\ IsFiniteSet(D) /\ Cardinality(D) \in Nat
                          /\ Cardinality(D) <= Cardinality(S)
                          /\ Cardinality(D) = 0 => D = {}
  BY FS_Subset, FS_CardinalityType, FS_EmptySet
<1>2. ASSUME NEW k \in Nat, NEW D \in UpTo(S, k + 1), D # {}
      PROVE  OneOf(D) \in D /\ D \ {OneOf(D)} \in UpTo(S, k)
  <2>1. OneOf(D) \in D
    BY <1>2 DEF OneOf
  <2>2. IsFiniteSet(D) /\ Cardinality(D) \in Nat /\ Cardinality(D) <= k + 1
    BY <1>1 DEF UpTo
  <2>3. Cardinality(D \ {OneOf(D)}) = Cardinality(D) - 1
    BY <2>1, <2>2, FS_RemoveElement
  <2>4. D \ {OneOf(D)} \in SUBSET S
    BY DEF UpTo
  <2> QED  BY <2>1, <2>2, <2>3, <2>4 DEF UpTo
<1>3. Cardinality(S) \in Nat
  BY FS_CardinalityType
<1>4. \A D \in UpTo(S, 0) : D = {}
  BY <1>1 DEF UpTo
<1>5. UpTo(S, Cardinality(S)) = SUBSET S
  BY <1>1 DEF UpTo
<1> QED  BY <1>2, <1>3, <1>4, <1>5

DeletesBy(iter, S, base) ==
  /\ DeleteAll(base, S) = iter[S]
  /\ iter[{}] = base
  /\ \A D \in SUBSET S : D # {} =>
       iter[D] = Delete(OneOf(D), iter[D \ {OneOf(D)}])

\* The fold of Delete satisfies its defining equation.
LEMMA DeleteFoldDef ==
  ASSUME NEW S, IsFiniteSet(S), NEW base
  PROVE  \E iter : DeletesBy(iter, S, base)
<1> DEFINE Step(g, D) == IF D = {} THEN base
                         ELSE Delete(CHOOSE x \in D : TRUE,
                                     g[D \ {CHOOSE x \in D : TRUE}])
           iter == CHOOSE g : g = [D \in SUBSET S |-> Step(g, D)]
           Has(k) == \E g : g = [D \in UpTo(S, k) |-> Step(g, D)]
<1>1. Has(0)
  <2> DEFINE g == [D \in UpTo(S, 0) |-> base]
  <2>1. g = [D \in UpTo(S, 0) |-> Step(g, D)]
    BY UpToFacts
  <2> QED  BY <2>1
<1>2. ASSUME NEW k \in Nat, Has(k) PROVE Has(k + 1)
  <2>1. PICK g : g = [D \in UpTo(S, k) |-> Step(g, D)]
    BY <1>2
  <2> DEFINE h == [D \in UpTo(S, k + 1) |-> Step(g, D)]
  <2>2. ASSUME NEW D \in UpTo(S, k + 1) PROVE h[D] = Step(h, D)
    <3>1. CASE D = {}
      BY <3>1
    <3>2. CASE D # {}
      <4>1. D \ {OneOf(D)} \in UpTo(S, k)
        BY <3>2, UpToFacts
      <4>2. D \ {OneOf(D)} \in UpTo(S, k + 1)
        <5>1. \A E \in UpTo(S, k) : Cardinality(E) \in Nat
          BY FS_Subset, FS_CardinalityType DEF UpTo
        <5> QED  BY <4>1, <5>1 DEF UpTo
      <4>3. h[D \ {OneOf(D)}] = g[D \ {OneOf(D)}]
        BY <4>1, <4>2, <2>1
      <4> QED  BY <3>2, <4>3 DEF OneOf
    <3> QED  BY <3>1, <3>2
  <2>3. h = [D \in UpTo(S, k + 1) |-> Step(h, D)]
    BY <2>2
  <2> HIDE DEF h
  <2> QED  BY <2>3
<1>3. \A k \in Nat : Has(k)
  <2> HIDE DEF Has
  <2> DEFINE Bad == {k \in Nat : ~Has(k)}
  <2> SUFFICES ASSUME Bad # {} PROVE FALSE
    OBVIOUS
  <2>1. PICK m \in Bad : \A k \in Bad : m <= k
    BY Least
  <2>2. m # 0 /\ m \in Nat
    BY <2>1, <1>1
  <2>3. m - 1 \in Nat /\ m - 1 \notin Bad
    BY <2>1, <2>2
  <2>4. Has(m - 1 + 1)
    BY <2>3, <1>2
  <2> QED  BY <2>1, <2>2, <2>4
<1>4. iter = [D \in SUBSET S |-> Step(iter, D)]
  <2>1. Has(Cardinality(S)) /\ UpTo(S, Cardinality(S)) = SUBSET S
    <3> HIDE DEF Has
    <3> QED  BY <1>3, UpToFacts
  <2>2. \E g : g = [D \in SUBSET S |-> Step(g, D)]
    BY <2>1
  <2> QED  BY <2>2
<1>5. DeleteAll(base, S) = iter[S]
  BY DEF DeleteAll, FoldSet, MapThenFoldSet
<1> HIDE DEF iter
<1>6. iter[{}] = base
  BY <1>4
<1>7. ASSUME NEW D \in SUBSET S, D # {}
      PROVE  iter[D] = Delete(OneOf(D), iter[D \ {OneOf(D)}])
  BY <1>4, <1>7 DEF OneOf
<1>8. DeletesBy(iter, S, base)
  BY <1>5, <1>6, <1>7 DEF DeletesBy
<1> QED  BY <1>8

ForgetsBy(iter, S, base) ==
  /\ ForgetAll(base, S) = iter[S]
  /\ iter[{}] = base
  /\ \A D \in SUBSET S : D # {} =>
       iter[D] = Forgotten(OneOf(D), iter[D \ {OneOf(D)}])

\* The fold of Forgotten satisfies its defining equation.
LEMMA ForgetFoldDef ==
  ASSUME NEW S, IsFiniteSet(S), NEW base
  PROVE  \E iter : ForgetsBy(iter, S, base)
<1> DEFINE Step(g, D) == IF D = {} THEN base
                         ELSE Forgotten(CHOOSE x \in D : TRUE,
                                        g[D \ {CHOOSE x \in D : TRUE}])
           iter == CHOOSE g : g = [D \in SUBSET S |-> Step(g, D)]
           Has(k) == \E g : g = [D \in UpTo(S, k) |-> Step(g, D)]
<1>1. Has(0)
  <2> DEFINE g == [D \in UpTo(S, 0) |-> base]
  <2>1. g = [D \in UpTo(S, 0) |-> Step(g, D)]
    BY UpToFacts
  <2> QED  BY <2>1
<1>2. ASSUME NEW k \in Nat, Has(k) PROVE Has(k + 1)
  <2>1. PICK g : g = [D \in UpTo(S, k) |-> Step(g, D)]
    BY <1>2
  <2> DEFINE h == [D \in UpTo(S, k + 1) |-> Step(g, D)]
  <2>2. ASSUME NEW D \in UpTo(S, k + 1) PROVE h[D] = Step(h, D)
    <3>1. CASE D = {}
      BY <3>1
    <3>2. CASE D # {}
      <4>1. D \ {OneOf(D)} \in UpTo(S, k)
        BY <3>2, UpToFacts
      <4>2. D \ {OneOf(D)} \in UpTo(S, k + 1)
        <5>1. \A E \in UpTo(S, k) : Cardinality(E) \in Nat
          BY FS_Subset, FS_CardinalityType DEF UpTo
        <5> QED  BY <4>1, <5>1 DEF UpTo
      <4>3. h[D \ {OneOf(D)}] = g[D \ {OneOf(D)}]
        BY <4>1, <4>2, <2>1
      <4> QED  BY <3>2, <4>3 DEF OneOf
    <3> QED  BY <3>1, <3>2
  <2>3. h = [D \in UpTo(S, k + 1) |-> Step(h, D)]
    BY <2>2
  <2> HIDE DEF h
  <2> QED  BY <2>3
<1>3. \A k \in Nat : Has(k)
  <2> HIDE DEF Has
  <2> DEFINE Bad == {k \in Nat : ~Has(k)}
  <2> SUFFICES ASSUME Bad # {} PROVE FALSE
    OBVIOUS
  <2>1. PICK m \in Bad : \A k \in Bad : m <= k
    BY Least
  <2>2. m # 0 /\ m \in Nat
    BY <2>1, <1>1
  <2>3. m - 1 \in Nat /\ m - 1 \notin Bad
    BY <2>1, <2>2
  <2>4. Has(m - 1 + 1)
    BY <2>3, <1>2
  <2> QED  BY <2>1, <2>2, <2>4
<1>4. iter = [D \in SUBSET S |-> Step(iter, D)]
  <2>1. Has(Cardinality(S)) /\ UpTo(S, Cardinality(S)) = SUBSET S
    <3> HIDE DEF Has
    <3> QED  BY <1>3, UpToFacts
  <2>2. \E g : g = [D \in SUBSET S |-> Step(g, D)]
    BY <2>1
  <2> QED  BY <2>2
<1>5. ForgetAll(base, S) = iter[S]
  BY DEF ForgetAll, FoldSet, MapThenFoldSet
<1> HIDE DEF iter
<1>6. iter[{}] = base
  BY <1>4
<1>7. ASSUME NEW D \in SUBSET S, D # {}
      PROVE  iter[D] = Forgotten(OneOf(D), iter[D \ {OneOf(D)}])
  BY <1>4, <1>7 DEF OneOf
<1>8. ForgetsBy(iter, S, base)
  BY <1>5, <1>6, <1>7 DEF ForgetsBy
<1> QED  BY <1>8

LEMMA LeastSubset ==
  ASSUME NEW S, IsFiniteSet(S), NEW B, B \subseteq SUBSET S, B # {}
  PROVE  \E D \in B : \A T \in B : T \subseteq D => T = D
<1> DEFINE Sizes == {Cardinality(D) : D \in B}
<1>1. \A D \in B : IsFiniteSet(D) /\ Cardinality(D) \in Nat
  BY FS_Subset, FS_CardinalityType
<1>2. Sizes \subseteq Nat /\ Sizes # {}
  BY <1>1
<1>3. PICK n \in Sizes : \A m \in Sizes : n <= m
  <2> HIDE DEF Sizes
  <2> QED  BY <1>2, Least
<1>4. PICK D \in B : n = Cardinality(D)
  BY <1>3
<1>5. ASSUME NEW T \in B, T \subseteq D PROVE T = D
  <2>1. Cardinality(T) <= Cardinality(D) /\ Cardinality(D) <= Cardinality(T)
    BY <1>1, <1>3, <1>4, <1>5, FS_Subset
  <2>2. Cardinality(D) = Cardinality(T)
    BY <1>1, <2>1
  <2> QED  BY <1>1, <1>5, <2>2, FS_Subset
<1> QED  BY <1>5

\* Induction over a fold of Delete: a relation R between the set that was
\* deleted and the store it leaves.
LEMMA DeleteFold ==
  ASSUME NEW S, IsFiniteSet(S), NEW base, NEW R,
         <<{}, base>> \in R,
         \A D \in SUBSET S : \A x \in D : \A s :
           <<D \ {x}, s>> \in R => <<D, Delete(x, s)>> \in R
  PROVE  <<S, DeleteAll(base, S)>> \in R
<1>0. PICK iter : DeletesBy(iter, S, base)
  BY DeleteFoldDef
<1>1. /\ DeleteAll(base, S) = iter[S]
      /\ iter[{}] = base
      /\ \A D \in SUBSET S : D # {} =>
           iter[D] = Delete(OneOf(D), iter[D \ {OneOf(D)}])
  BY <1>0 DEF DeletesBy
<1> DEFINE Bad == {D \in SUBSET S : <<D, iter[D]>> \notin R}
<1>2. Bad = {}
  <2> SUFFICES ASSUME Bad # {} PROVE FALSE
    OBVIOUS
  <2>1. PICK D \in Bad : \A T \in Bad : T \subseteq D => T = D
    <3>1. Bad \subseteq SUBSET S
      OBVIOUS
    <3> HIDE DEF Bad
    <3> QED  BY <3>1, LeastSubset
  <2>2. D # {} /\ D \in SUBSET S
    <3>1. D \in SUBSET S /\ <<D, iter[D]>> \notin R
      BY <2>1
    <3> QED  BY <3>1, <1>1
  <2>3. OneOf(D) \in D
    BY <2>2 DEF OneOf
  <2>4. D \ {OneOf(D)} \notin Bad /\ D \ {OneOf(D)} \in SUBSET S
    <3>1. D \ {OneOf(D)} \subseteq D /\ D \ {OneOf(D)} # D
      BY <2>3
    <3> HIDE DEF Bad
    <3> QED  BY <3>1, <2>1, <2>2
  <2>5. <<D \ {OneOf(D)}, iter[D \ {OneOf(D)}]>> \in R
    BY <2>4
  <2>6. <<D, Delete(OneOf(D), iter[D \ {OneOf(D)}])>> \in R
    BY <2>2, <2>3, <2>5
  <2> QED  BY <2>1, <2>2, <2>6, <1>1
<1> QED  BY <1>1, <1>2

\* Induction over a fold of Forgotten: a relation R between the set that was
\* forgotten and the store it leaves.
LEMMA ForgetFold ==
  ASSUME NEW S, IsFiniteSet(S), NEW base, NEW R,
         <<{}, base>> \in R,
         \A D \in SUBSET S : \A x \in D : \A s :
           <<D \ {x}, s>> \in R => <<D, Forgotten(x, s)>> \in R
  PROVE  <<S, ForgetAll(base, S)>> \in R
<1>0. PICK iter : ForgetsBy(iter, S, base)
  BY ForgetFoldDef
<1>1. /\ ForgetAll(base, S) = iter[S]
      /\ iter[{}] = base
      /\ \A D \in SUBSET S : D # {} =>
           iter[D] = Forgotten(OneOf(D), iter[D \ {OneOf(D)}])
  BY <1>0 DEF ForgetsBy
<1> DEFINE Bad == {D \in SUBSET S : <<D, iter[D]>> \notin R}
<1>2. Bad = {}
  <2> SUFFICES ASSUME Bad # {} PROVE FALSE
    OBVIOUS
  <2>1. PICK D \in Bad : \A T \in Bad : T \subseteq D => T = D
    <3>1. Bad \subseteq SUBSET S
      OBVIOUS
    <3> HIDE DEF Bad
    <3> QED  BY <3>1, LeastSubset
  <2>2. D # {} /\ D \in SUBSET S
    <3>1. D \in SUBSET S /\ <<D, iter[D]>> \notin R
      BY <2>1
    <3> QED  BY <3>1, <1>1
  <2>3. OneOf(D) \in D
    BY <2>2 DEF OneOf
  <2>4. D \ {OneOf(D)} \notin Bad /\ D \ {OneOf(D)} \in SUBSET S
    <3>1. D \ {OneOf(D)} \subseteq D /\ D \ {OneOf(D)} # D
      BY <2>3
    <3> HIDE DEF Bad
    <3> QED  BY <3>1, <2>1, <2>2
  <2>5. <<D \ {OneOf(D)}, iter[D \ {OneOf(D)}]>> \in R
    BY <2>4
  <2>6. <<D, Forgotten(OneOf(D), iter[D \ {OneOf(D)}])>> \in R
    BY <2>2, <2>3, <2>5
  <2> QED  BY <2>1, <2>2, <2>6, <1>1
<1> QED  BY <1>1, <1>2

-----------------------------------------------------------------------------
(* Migration: the record stores                                            *)

Layers == {"none", "live", "short_term", "contextual_logic"}
Contract == [layer : Layers, expires : Int, related : SUBSET Nat,
             from : {"none", "adopted", "transfer", "caller"}]
Row == [of : Nat, eff : Int, by : Nat, contract : Contract, ok : BOOLEAN]

IsStore(s) ==
  /\ s \in [DOMAIN s -> Row]
  /\ DOMAIN s \subseteq Nat \ {NoId}
  /\ IsFiniteSet(DOMAIN s)

\* What a version chain is: every record is superseded by a later one that is
\* there, or by none.
Linked(s) ==
  \A v \in DOMAIN s :
    s[v].by # NoId => s[v].by \in DOMAIN s /\ s[v].by > v

\* The sources of a readable record are there.
Sourced(s) ==
  \A v \in DOMAIN s : s[v].ok => s[v].contract.related \subseteq DOMAIN s

\* r holds some of the records of s, as they were but for their chains.
KeepsRows(r, s) ==
  /\ DOMAIN r \subseteq DOMAIN s
  /\ \A v \in DOMAIN r : /\ r[v].of = s[v].of /\ r[v].eff = s[v].eff
                         /\ r[v].contract = s[v].contract /\ r[v].ok = s[v].ok

LEMMA KeepsRowsTransitive ==
  ASSUME NEW q, NEW r, NEW s, KeepsRows(q, r), KeepsRows(r, s)
  PROVE  KeepsRows(q, s)
BY DEF KeepsRows

\* How a store r comes out of s by deleting the records D.
Leaves(D, r, s) ==
  /\ IsStore(r) /\ DOMAIN r = DOMAIN s \ D /\ KeepsRows(r, s)
  /\ Linked(s) => Linked(r)

LEMMA RowExcept ==
  /\ \A x \in Row : \A b \in Nat :
       LET y == [x EXCEPT !.by = b]
       IN /\ y \in Row /\ y.by = b /\ y.of = x.of /\ y.eff = x.eff
          /\ y.contract = x.contract /\ y.ok = x.ok
  /\ \A x \in Row : \A c \in Contract :
       LET y == [x EXCEPT !.contract = c]
       IN /\ y \in Row /\ y.contract = c /\ y.of = x.of /\ y.eff = x.eff
          /\ y.by = x.by /\ y.ok = x.ok
  /\ \A x \in Row : \A e \in Int :
       LET y == [x EXCEPT !.eff = e]
       IN /\ y \in Row /\ y.eff = e /\ y.of = x.of /\ y.contract = x.contract
          /\ y.by = x.by /\ y.ok = x.ok
  /\ \A x \in Row : \A k \in BOOLEAN :
       LET y == [x EXCEPT !.ok = k]
       IN /\ y \in Row /\ y.ok = k /\ y.of = x.of /\ y.contract = x.contract
          /\ y.by = x.by /\ y.eff = x.eff
  /\ \A x \in Row : /\ x.of \in Nat /\ x.eff \in Int /\ x.by \in Nat
                    /\ x.contract \in Contract /\ x.ok \in BOOLEAN
BY DEF Row

LEMMA DeleteLeaves ==
  ASSUME NEW s, IsStore(s), NEW v \in DOMAIN s
  PROVE  Leaves({v}, Delete(v, s), s)
<1> DEFINE r == Delete(v, s)
<1>1. /\ DOMAIN r = DOMAIN s \ {v}
      /\ \A w \in DOMAIN r :
           r[w] = IF s[w].by = v THEN [s[w] EXCEPT !.by = s[v].by] ELSE s[w]
  BY DEF Delete
<1>2. r \in [DOMAIN r -> Row]
  <2>1. r = [w \in DOMAIN s \ {v} |->
               IF s[w].by = v THEN [s[w] EXCEPT !.by = s[v].by] ELSE s[w]]
    BY DEF Delete
  <2>2. \A w \in DOMAIN s : s[w] \in Row /\ s[w].by \in Nat
    BY RowExcept DEF IsStore
  <2>3. \A w \in DOMAIN s : [s[w] EXCEPT !.by = s[v].by] \in Row
    BY <2>2, RowExcept
  <2> HIDE DEF r
  <2> QED  BY <2>1, <2>2, <2>3
<1> HIDE DEF r
<1>3. \A w \in DOMAIN r :
        /\ r[w].of = s[w].of /\ r[w].eff = s[w].eff
        /\ r[w].contract = s[w].contract /\ r[w].ok = s[w].ok
        /\ r[w].by = IF s[w].by = v THEN s[v].by ELSE s[w].by
  <2> TAKE w \in DOMAIN r
  <2>1. s[w] \in Row /\ s[v].by \in Nat
    BY <1>1, RowExcept DEF IsStore
  <2>2. CASE s[w].by = v
    <3>1. r[w] = [s[w] EXCEPT !.by = s[v].by]
      BY <1>1, <2>2
    <3> QED  BY <2>1, <2>2, <3>1, RowExcept
  <2>3. CASE s[w].by # v
    BY <1>1, <2>3
  <2> QED  BY <2>2, <2>3
<1>4. IsStore(r)
  <2>1. IsFiniteSet(DOMAIN r)
    BY <1>1, FS_RemoveElement DEF IsStore
  <2> QED  BY <1>1, <1>2, <2>1 DEF IsStore
<1>5. KeepsRows(r, s)
  BY <1>1, <1>3 DEF KeepsRows
<1>6. ASSUME Linked(s) PROVE Linked(r)
  <2> SUFFICES ASSUME NEW w \in DOMAIN r, r[w].by # NoId
               PROVE  r[w].by \in DOMAIN r /\ r[w].by > w
    BY DEF Linked
  <2>1. w \in DOMAIN s /\ w # v /\ w \in Nat /\ v \in Nat /\ NoId \notin DOMAIN s
    BY <1>1 DEF IsStore
  <2>2. \A u \in DOMAIN s : s[u].by # NoId => s[u].by \in DOMAIN s /\ s[u].by > u
    BY <1>6 DEF Linked
  <2>3. \A u \in DOMAIN s : s[u].by \in Nat
    BY RowExcept DEF IsStore
  <2>4. CASE s[w].by = v
    <3>1. r[w].by = s[v].by /\ v > w
      BY <1>3, <2>1, <2>2, <2>4
    <3>2. s[v].by \in DOMAIN s /\ s[v].by > v
      BY <3>1, <2>2
    <3> QED  BY <3>1, <3>2, <2>1, <2>3, <1>1
  <2>5. CASE s[w].by # v
    <3>1. r[w].by = s[w].by
      BY <1>3, <2>5
    <3> QED  BY <3>1, <2>1, <2>2, <2>5, <1>1
  <2> QED  BY <2>4, <2>5
<1>7. Leaves({v}, r, s)
  BY <1>1, <1>4, <1>5, <1>6 DEF Leaves
<1> QED  BY <1>7 DEF r

LEMMA DeleteAllLeaves ==
  ASSUME NEW s, IsStore(s), NEW D \in SUBSET DOMAIN s
  PROVE  Leaves(D, DeleteAll(s, D), s)
<1> DEFINE Stores == UNION {[E -> Row] : E \in SUBSET DOMAIN s}
           R == {q \in (SUBSET D) \X Stores : Leaves(q[1], q[2], s)}
<1>1. \A E, r : <<E, r>> \in R <=> E \in SUBSET D /\ Leaves(E, r, s)
  <2>1. ASSUME NEW E, NEW r, E \in SUBSET D, Leaves(E, r, s)
        PROVE  r \in Stores
    <3>1. DOMAIN r \in SUBSET DOMAIN s /\ r \in [DOMAIN r -> Row]
      BY <2>1 DEF Leaves, IsStore
    <3> QED  BY <3>1
  <2> HIDE DEF Stores
  <2> QED  BY <2>1
<1> HIDE DEF R
<1>2. IsFiniteSet(D)
  BY FS_Subset DEF IsStore
<1>3. <<{}, s>> \in R
  <2>1. Leaves({}, s, s)
    BY DEF Leaves, KeepsRows
  <2> QED  BY <1>1, <2>1
<1>4. ASSUME NEW E \in SUBSET D, NEW x \in E, NEW r, <<E \ {x}, r>> \in R
      PROVE  <<E, Delete(x, r)>> \in R
  <2>1. Leaves(E \ {x}, r, s)
    BY <1>1, <1>4
  <2>2. x \in DOMAIN r /\ IsStore(r)
    BY <2>1 DEF Leaves
  <2>3. Leaves({x}, Delete(x, r), r)
    BY <2>2, DeleteLeaves
  <2>4. Leaves(E, Delete(x, r), s)
    <3>1. DOMAIN Delete(x, r) = DOMAIN s \ E
      BY <2>1, <2>3 DEF Leaves
    <3>2. KeepsRows(Delete(x, r), s)
      BY <2>1, <2>3, KeepsRowsTransitive DEF Leaves
    <3> QED  BY <2>1, <2>3, <3>1, <3>2 DEF Leaves
  <2> QED  BY <1>1, <2>4
<1>5. <<D, DeleteAll(s, D)>> \in R
  BY <1>2, <1>3, <1>4, DeleteFold
<1> QED  BY <1>1, <1>5

\* What forget and the pruning of expired records leave of a store s.
Forgets(r, s) ==
  /\ IsStore(r) /\ KeepsRows(r, s)
  /\ Linked(s) => Linked(r)
  /\ Sourced(s) => Sourced(r)

LEMMA ForgottenForgets ==
  ASSUME NEW s, IsStore(s), NEW v
  PROVE  Forgets(Forgotten(v, s), s) /\ v \notin DOMAIN Forgotten(v, s)
<1>1. CASE v \notin DOMAIN s
  BY <1>1 DEF Forgotten, Forgets, KeepsRows
<1>2. CASE v \in DOMAIN s
  <2> DEFINE D == Dependents(s, v) \cup {v}
             r == Forgotten(v, s)
  <2>1. D \in SUBSET DOMAIN s
    BY <1>2 DEF Dependents
  <2>2. r = DeleteAll(s, D)
    BY <1>2 DEF Forgotten
  <2>3. Leaves(D, r, s)
    <3> HIDE DEF D, r
    <3> QED  BY <2>1, <2>2, DeleteAllLeaves
  <2>4. v \notin DOMAIN r
    BY <2>3 DEF Leaves
  <2>5. ASSUME Sourced(s) PROVE Sourced(r)
    <3> SUFFICES ASSUME NEW w \in DOMAIN r, r[w].ok
                 PROVE  r[w].contract.related \subseteq DOMAIN r
      BY DEF Sourced
    <3> DEFINE Logic == {u \in DOMAIN s : s[u].ok /\ s[u].contract.related # {}}
               Closed(E) == \A u \in Logic :
                 s[u].contract.related \cap (E \cup {v}) # {} => u \in E
    <3>1. Dependents(s, v) = {u \in Logic : \A E \in SUBSET Logic : Closed(E) => u \in E}
      BY DEF Dependents
    <3>2. /\ w \in DOMAIN s /\ w \notin D /\ DOMAIN r = DOMAIN s \ D
          /\ r[w].contract = s[w].contract /\ s[w].ok
      <4> HIDE DEF D, r
      <4> QED  BY <2>3 DEF Leaves, KeepsRows
    <3>3. s[w].contract.related \subseteq DOMAIN s
      BY <3>2, <2>5 DEF Sourced
    <3>4. s[w].contract.related \cap D = {}
      <4> SUFFICES ASSUME s[w].contract.related \cap D # {} PROVE FALSE
        OBVIOUS
      <4>1. w \in Logic
        BY <3>2
      <4>2. ASSUME NEW E \in SUBSET Logic, Closed(E) PROVE w \in E
        <5>1. Dependents(s, v) \subseteq E
          <6> HIDE DEF Logic, Closed
          <6> QED  BY <3>1, <4>2
        <5>2. s[w].contract.related \cap (E \cup {v}) # {}
          BY <5>1
        <5> HIDE DEF Logic
        <5> QED  BY <4>1, <4>2, <5>2
      <4>3. w \in Dependents(s, v)
        <5> HIDE DEF Logic, Closed
        <5> QED  BY <3>1, <4>1, <4>2
      <4> QED  BY <4>3, <3>2
    <3> QED  BY <3>2, <3>3, <3>4
  <2> QED  BY <2>3, <2>4, <2>5 DEF Forgets, Leaves
<1> QED  BY <1>1, <1>2

LEMMA PrunedForgets ==
  ASSUME NEW s, IsStore(s)
  PROVE  Forgets(Pruned(s), s)
<1> DEFINE X == Expired(s)
           Stores == UNION {[E -> Row] : E \in SUBSET DOMAIN s}
           R == {q \in (SUBSET X) \X Stores : Forgets(q[2], s)}
<1>0. X \subseteq DOMAIN s
  BY DEF Expired
<1> HIDE DEF X
<1>1. \A E, r : <<E, r>> \in R <=> E \in SUBSET X /\ Forgets(r, s)
  <2>1. ASSUME NEW r, Forgets(r, s) PROVE r \in Stores
    <3>1. DOMAIN r \in SUBSET DOMAIN s /\ r \in [DOMAIN r -> Row]
      BY <2>1 DEF Forgets, KeepsRows, IsStore
    <3> QED  BY <3>1
  <2> HIDE DEF Stores
  <2> QED  BY <2>1
<1> HIDE DEF R
<1>2. IsFiniteSet(X)
  BY <1>0, FS_Subset DEF IsStore
<1>3. <<{}, s>> \in R
  <2>1. Forgets(s, s)
    BY DEF Forgets, KeepsRows
  <2> QED  BY <1>1, <2>1
<1>4. ASSUME NEW E \in SUBSET X, NEW x \in E, NEW r, <<E \ {x}, r>> \in R
      PROVE  <<E, Forgotten(x, r)>> \in R
  <2>1. Forgets(r, s)
    BY <1>1, <1>4
  <2>2. IsStore(r)
    BY <2>1 DEF Forgets
  <2>3. Forgets(Forgotten(x, r), r)
    BY <2>2, ForgottenForgets
  <2>4. Forgets(Forgotten(x, r), s)
    BY <2>1, <2>3, KeepsRowsTransitive DEF Forgets
  <2> QED  BY <1>1, <2>4
<1>5. <<X, ForgetAll(s, X)>> \in R
  BY <1>2, <1>3, <1>4, ForgetFold
<1> QED  BY <1>1, <1>5 DEF Pruned, X

\* What put makes of a store s.
Puts(r, s, v, record, S) ==
  /\ IsStore(r) /\ DOMAIN r = DOMAIN s \cup {v} /\ r[v] = record
  /\ \A w \in DOMAIN s :
       /\ r[w].of = s[w].of /\ r[w].eff = s[w].eff /\ r[w].ok = s[w].ok
       /\ r[w].contract = s[w].contract
       /\ r[w].by = IF w \in S THEN v ELSE s[w].by

LEMMA PutStores ==
  ASSUME NEW s, IsStore(s), NEW v \in Nat \ {NoId}, v \notin DOMAIN s,
         NEW record \in Row, NEW S
  PROVE  Puts(Put(s, v, record, S), s, v, record, S)
<1> DEFINE r == Put(s, v, record, S)
<1>1. r = [w \in DOMAIN s \cup {v} |->
             IF w = v THEN record
             ELSE IF w \in S THEN [s[w] EXCEPT !.by = v] ELSE s[w]]
  BY DEF Put
<1>2. \A w \in DOMAIN s : s[w] \in Row
  BY DEF IsStore
<1>3. \A w \in DOMAIN s : [s[w] EXCEPT !.by = v] \in Row
  BY <1>2, RowExcept
<1> HIDE DEF r
<1>4. DOMAIN r = DOMAIN s \cup {v} /\ r[v] = record
  BY <1>1
<1>5. r \in [DOMAIN r -> Row]
  BY <1>1, <1>2, <1>3
<1>6. IsStore(r)
  <2>1. IsFiniteSet(DOMAIN r)
    BY <1>4, FS_AddElement DEF IsStore
  <2> QED  BY <1>4, <1>5, <2>1 DEF IsStore
<1>7. ASSUME NEW w \in DOMAIN s
      PROVE  /\ r[w].of = s[w].of /\ r[w].eff = s[w].eff /\ r[w].ok = s[w].ok
             /\ r[w].contract = s[w].contract
             /\ r[w].by = IF w \in S THEN v ELSE s[w].by
  <2>1. CASE w \in S
    <3>1. r[w] = [s[w] EXCEPT !.by = v]
      BY <1>1, <2>1
    <3> QED  BY <1>2, <2>1, <3>1, RowExcept
  <2>2. CASE w \notin S
    <3>1. r[w] = s[w]
      BY <1>1, <2>2
    <3> QED  BY <2>2, <3>1
  <2> QED  BY <2>1, <2>2
<1>8. Puts(r, s, v, record, S)
  BY <1>4, <1>6, <1>7 DEF Puts
<1> QED  BY <1>8 DEF r

LEMMA NewIdIsNew ==
  ASSUME NEW s, IsStore(s)
  PROVE  NewId(s) \in Nat \ {NoId} /\ NewId(s) \notin DOMAIN s
<1> DEFINE n == Cardinality(DOMAIN s)
           New == {t \in 1 .. n + 1 : t \notin DOMAIN s}
<1>1. IsFiniteSet(DOMAIN s) /\ n \in Nat
  BY FS_CardinalityType DEF IsStore
<1>2. New # {}
  <2> SUFFICES ASSUME 1 .. n + 1 \subseteq DOMAIN s PROVE FALSE
    OBVIOUS
  <2>1. Cardinality(1 .. n + 1) = n + 1
    BY <1>1, FS_Interval
  <2>2. Cardinality(1 .. n + 1) <= n
    BY <1>1, FS_Subset
  <2> QED  BY <1>1, <2>1, <2>2
<1>3. New \subseteq Nat
  OBVIOUS
<1>4. \E x \in New : \A y \in New : x <= y
  <2> HIDE DEF New
  <2> QED  BY <1>2, <1>3, Least
<1>5. NewId(s) = CHOOSE x \in New : \A y \in New : x <= y
  BY DEF NewId, Min
<1>6. NewId(s) \in New
  <2> HIDE DEF New
  <2> QED  BY <1>4, <1>5
<1> QED  BY <1>6, <1>1 DEF NoId

-----------------------------------------------------------------------------
(* Migration: the invariant                                                *)

Phases == {"earlier", "closed", "enableContracts", "integrity",
           "enableIntegrity", "open", "copy", "contracts", "rollback"}
InUse == {"open", "copy", "contracts", "rollback"}

\* The source: its records are their own originals, and an open one has the
\* temporal columns.
SourceInv ==
  /\ kind \in {"legacy", "scoped"} /\ pc \in Phases
  /\ nextId \in Nat \ {NoId}
  /\ IsStore(src) /\ Linked(src) /\ Sourced(src)
  /\ \A v \in DOMAIN src : v < nextId /\ src[v].of = v
  /\ kind = "legacy" => \A v \in DOMAIN src : src[v].contract = NoContract
  /\ kind = "scoped" \/ pc \in InUse => \A v \in DOMAIN src : src[v].eff # Null

\* The markers, tags and features go forward together: the database before
\* the manifest, and the contracts before the integrity tags.
MarksInv ==
  /\ pc \in {"enableContracts", "integrity", "enableIntegrity"} => kind = "scoped"
  /\ kind = "scoped" =>
       /\ marks \subseteq {"contracts", "integrity"}
       /\ features \subseteq marks
       /\ "integrity" \in marks => "contracts" \in features
       /\ WithContract = IF "contracts" \in marks THEN DOMAIN src ELSE {}
       /\ tags = IF "integrity" \in marks THEN DOMAIN src ELSE {}
       /\ "contracts" \notin marks =>
            pc \in {"earlier", "closed"} /\ outcome # "migrated"
       /\ pc \in {"integrity", "enableIntegrity"} => "contracts" \in features
       /\ pc = "enableIntegrity" => "integrity" \in marks
       /\ pc \in InUse => "integrity" \in features
       /\ pc = "earlier" => marks = {}

TargetInv ==
  /\ IsStore(tgt)
  /\ pc \in {"earlier", "copy", "contracts", "rollback"} => outcome = "none"
  /\ outcome = "raised" => DOMAIN tgt = {}
  /\ pc = "rollback" =>
       /\ rest \in Seq(Nat \X Nat)
       /\ \A t \in DOMAIN tgt : \E n \in DOMAIN rest : rest[n][2] = t

\* The copies that a migration has made so far: one of each record, with its
\* chain as far as it is copied.
CopiesInv ==
  /\ made \in Seq(Nat \X Nat)
  /\ \A m, n \in DOMAIN made : made[m][1] = made[n][1] => m = n
  /\ DOMAIN tgt = {made[n][2] : n \in DOMAIN made}
  /\ MigratedIds \subseteq Migratable
  /\ \A i \in Migratable : src[i].by \in Migratable \cup {NoId}
  /\ \A i \in MigratedIds : Predecessors(i) \subseteq MigratedIds
  /\ \A n \in DOMAIN made :
       LET i == made[n][1]
           copy == tgt[made[n][2]]
       IN /\ copy.of = i /\ copy.eff = src[i].eff
          /\ copy.by = IF src[i].by \in MigratedIds THEN CopyOf(src[i].by) ELSE NoId

\* The loop over the records: what is left of it are the records not copied.
CopyInv ==
  /\ CopiesInv
  /\ rest \in Seq(Nat)
  /\ IsInjective(rest) /\ Range(rest) = Migratable \ MigratedIds
  /\ \A n \in DOMAIN made : tgt[made[n][2]].contract = TemporaryContract(made[n][1])

\* The loop over the copies: what is not left of it has its own contract.
ContractsInv ==
  /\ CopiesInv
  /\ MigratedIds = Migratable
  /\ rest \in Seq(Nat \X Nat)
  /\ \A m \in DOMAIN rest : \E n \in DOMAIN made : made[n] = rest[m]
  /\ kind = "legacy" =>
       /\ rest = <<>>
       /\ \A n \in DOMAIN made :
            tgt[made[n][2]].contract = TemporaryContract(made[n][1])
  /\ kind = "scoped" => \A n \in DOMAIN made :
       \/ \E m \in DOMAIN rest : rest[m] = made[n]
       \/ /\ src[made[n][1]].contract.related \subseteq MigratedIds
          /\ tgt[made[n][2]].contract = TargetContract(made[n][1])

\* What a migration leaves: f maps the records of the source to their copies.
Mirrored(f) ==
  /\ f \in [Readable -> DOMAIN tgt]
  /\ \A t \in DOMAIN tgt : \E i \in Readable : f[i] = t
  /\ \A i \in Readable :
       /\ tgt[f[i]].of = i /\ tgt[f[i]].eff = src[i].eff
       /\ src[i].by \in Readable \cup {NoId}
       /\ tgt[f[i]].by = IF src[i].by = NoId THEN NoId ELSE f[src[i].by]
       /\ kind = "legacy" =>
            tgt[f[i]].contract = ContractOf("short_term", Null, {}, "transfer")
       /\ kind = "scoped" =>
            /\ src[i].contract.related \subseteq Readable
            /\ tgt[f[i]].contract
                 = [src[i].contract EXCEPT !.related = {f[j] : j \in @}]

RunInv ==
  /\ pc = "copy" => CopyInv
  /\ pc = "contracts" => ContractsInv
  /\ outcome = "migrated" => \E f \in [Readable -> DOMAIN tgt] : Mirrored(f)

MigrationInv == now \in Nat /\ SourceInv /\ MarksInv /\ TargetInv /\ RunInv

-----------------------------------------------------------------------------
(* Migration: the source                                                   *)

LEMMA ContractTypes ==
  /\ NoContract \in Contract /\ AdoptedContract \in Contract
  /\ AdoptedContract # NoContract
  /\ NoContract.related = {} /\ AdoptedContract.related = {}
  /\ NoContract.layer = "none"
  /\ \A layer \in Layers, expires \in Int, related \in SUBSET Nat,
        from \in {"none", "adopted", "transfer", "caller"} :
       LET c == ContractOf(layer, expires, related, from)
       IN /\ c \in Contract /\ c.layer = layer /\ c.related = related
          /\ c.expires = expires /\ c.from = from
<1>1. \A layer \in Layers, expires \in Int, related \in SUBSET Nat,
         from \in {"none", "adopted", "transfer", "caller"} :
        LET c == ContractOf(layer, expires, related, from)
        IN /\ c \in Contract /\ c.layer = layer /\ c.related = related
           /\ c.expires = expires /\ c.from = from
  BY DEF Contract, ContractOf
<1>2. NoContract \in Contract /\ NoContract.related = {} /\ NoContract.layer = "none"
  BY DEF NoContract, Contract, Layers, Null
<1>3. /\ AdoptedContract \in Contract /\ AdoptedContract.related = {}
      /\ AdoptedContract.layer = "short_term"
  BY DEF AdoptedContract, ContractOf, Contract, Layers, Null
<1> QED  BY <1>1, <1>2, <1>3

LEMMA RecordTypes ==
  \A of \in Nat, eff \in Int, c \in Contract :
    LET x == Record(of, eff, c)
    IN /\ x \in Row /\ x.of = of /\ x.eff = eff /\ x.by = NoId
       /\ x.contract = c /\ x.ok
BY DEF Record, Row, NoId

\* A source with the same rows, in a phase that asks no more of them.
LEMMA SourceStays ==
  ASSUME SourceInv, UNCHANGED sourceVars, pc' \in Phases,
         pc' \in InUse => pc \in InUse \/ kind = "scoped"
  PROVE  SourceInv'
BY DEF SourceInv, sourceVars

\* A source whose rows s are rows it had.
LEMMA SourceForgets ==
  ASSUME SourceInv, NEW s, Forgets(s, src), src' = s,
         kind' = kind, nextId' = nextId, pc' \in Phases,
         pc' \in InUse => pc \in InUse \/ kind = "scoped"
  PROVE  SourceInv'
<1>1. /\ IsStore(s) /\ Linked(s) /\ Sourced(s) /\ DOMAIN s \subseteq DOMAIN src
      /\ \A v \in DOMAIN s : /\ s[v].of = src[v].of /\ s[v].eff = src[v].eff
                             /\ s[v].contract = src[v].contract
  BY DEF SourceInv, Forgets, KeepsRows
<1>2. \A v \in DOMAIN s : v < nextId /\ s[v].of = v
  BY <1>1 DEF SourceInv
<1>3. kind = "legacy" => \A v \in DOMAIN s : s[v].contract = NoContract
  BY <1>1 DEF SourceInv
<1>4. kind = "scoped" \/ pc' \in InUse => \A v \in DOMAIN s : s[v].eff # Null
  BY <1>1 DEF SourceInv
<1> QED  BY <1>1, <1>2, <1>3, <1>4 DEF SourceInv

\* A new source record.
LEMMA SourcePut ==
  ASSUME SourceInv, NEW eff \in Int, NEW c \in Contract, NEW S \in SUBSET DOMAIN src,
         src' = Put(src, nextId, Record(nextId, eff, c), S),
         kind' = kind, nextId' = nextId + 1, pc' = pc,
         \A w \in S : src[w].by = NoId,
         c.related \subseteq DOMAIN src,
         kind = "legacy" => c = NoContract,
         kind = "scoped" \/ pc \in InUse => eff # Null
  PROVE  /\ SourceInv' /\ DOMAIN src' = DOMAIN src \cup {nextId}
         /\ src'[nextId].contract = c
         /\ \A w \in DOMAIN src : src'[w].contract = src[w].contract
<1> DEFINE record == Record(nextId, eff, c)
<1>1. /\ record \in Row /\ record.of = nextId /\ record.eff = eff
      /\ record.by = NoId /\ record.contract = c
  BY RecordTypes DEF SourceInv
<1> HIDE DEF record
<1>2. nextId \in Nat \ {NoId} /\ nextId \notin DOMAIN src /\ IsStore(src)
  BY DEF SourceInv, IsStore
<1>3. src' = Put(src, nextId, record, S)
  BY DEF record
<1>4. /\ IsStore(src')
      /\ DOMAIN src' = DOMAIN src \cup {nextId}
      /\ src'[nextId] = record
      /\ \A w \in DOMAIN src :
           /\ src'[w].of = src[w].of /\ src'[w].eff = src[w].eff
           /\ src'[w].ok = src[w].ok /\ src'[w].contract = src[w].contract
           /\ src'[w].by = IF w \in S THEN nextId ELSE src[w].by
  <2>1. Puts(src', src, nextId, record, S)
    BY <1>1, <1>2, <1>3, PutStores
  <2> QED  BY <2>1 DEF Puts
<1>5. \A v \in DOMAIN src : /\ v \in Nat /\ v < nextId /\ src[v].of = v
                            /\ src[v].by \in Nat
  BY RowExcept DEF SourceInv, IsStore
<1>6. Linked(src')
  <2> SUFFICES ASSUME NEW v \in DOMAIN src', src'[v].by # NoId
               PROVE  src'[v].by \in DOMAIN src' /\ src'[v].by > v
    BY DEF Linked
  <2>1. v \in DOMAIN src
    BY <1>1, <1>4
  <2>2. CASE v \in S
    BY <1>4, <1>5, <1>2, <2>1, <2>2
  <2>3. CASE v \notin S
    BY <1>4, <2>1, <2>3 DEF SourceInv, Linked
  <2> QED  BY <2>2, <2>3
<1>7. Sourced(src')
  BY <1>1, <1>4 DEF SourceInv, Sourced
<1>8. \A v \in DOMAIN src' : v < nextId' /\ src'[v].of = v
  BY <1>1, <1>2, <1>4, <1>5
<1>9. kind' = "legacy" => \A v \in DOMAIN src' : src'[v].contract = NoContract
  BY <1>1, <1>4 DEF SourceInv
<1>10. kind' = "scoped" \/ pc' \in InUse => \A v \in DOMAIN src' : src'[v].eff # Null
  BY <1>1, <1>4 DEF SourceInv
<1>11. nextId' \in Nat \ {NoId}
  BY <1>2 DEF NoId
<1>12. SourceInv'
  BY <1>4, <1>6, <1>7, <1>8, <1>9, <1>10, <1>11 DEF SourceInv
<1> QED  BY <1>1, <1>4, <1>12

\* A source whose rows only got another contract, instant or health.
LEMMA SourceRewritten ==
  ASSUME SourceInv, kind' = kind, nextId' = nextId, pc' \in Phases,
         DOMAIN src' = DOMAIN src, src' \in [DOMAIN src -> Row],
         \A v \in DOMAIN src :
           /\ src'[v].of = src[v].of /\ src'[v].by = src[v].by
           /\ src'[v].ok => src[v].ok
           /\ src'[v].contract.related \subseteq src[v].contract.related
           /\ kind = "legacy" => src'[v].contract = NoContract
           /\ kind = "scoped" \/ pc' \in InUse => src'[v].eff # Null
  PROVE  SourceInv'
<1>1. IsStore(src')
  BY DEF SourceInv, IsStore
<1>2. Linked(src') /\ Sourced(src')
  BY DEF SourceInv, Linked, Sourced
<1> QED  BY <1>1, <1>2 DEF SourceInv

\* Markers, tags and features with the same rows in a later phase.
LEMMA MarksStay ==
  ASSUME MarksInv, UNCHANGED sourceVars,
         pc' = pc \/ pc' \in InUse \cup {"closed"},
         pc' \in InUse => pc \in InUse,
         outcome' = "migrated" => outcome = "migrated" \/ pc \in InUse
  PROVE  MarksInv'
<1>1. WithContract' = WithContract
  BY DEF WithContract, sourceVars
<1> QED  BY <1>1 DEF MarksInv, sourceVars, InUse

LEMMA WithContractKeeps ==
  ASSUME NEW s, KeepsRows(s, src), src' = s
  PROVE  WithContract' = WithContract \cap DOMAIN s
BY DEF WithContract, KeepsRows

LEMMA MinOfTwo ==
  ASSUME NEW a \in Nat, NEW b \in Nat
  PROVE  Min({a, b}) \in Nat
<1>1. \E x \in {a, b} : \A y \in {a, b} : x <= y
  OBVIOUS
<1>2. Min({a, b}) \in {a, b}
  BY <1>1 DEF Min
<1> QED  BY <1>2

LEMMA EarlierPutKeepsSource ==
  ASSUME SourceInv, MarksInv, NEW eff \in {Null} \cup 1 .. MaxEff,
         NEW S \in SUBSET DOMAIN src, EarlierPut(eff, S)
  PROVE  SourceInv' /\ MarksInv'
<1>1. /\ pc = "earlier" /\ pc' = pc /\ kind' = kind /\ nextId' = nextId + 1
      /\ src' = Put(src, nextId, Record(nextId, eff, NoContract), S)
      /\ marks' = marks /\ tags' = tags /\ features' = features
      /\ outcome' = outcome
      /\ eff = Null => kind = "legacy" /\ S = {}
  BY DEF EarlierPut, envVars
<1>2. eff \in Int
  BY MigrationAssumption DEF Null
<1>3. \A w \in S : src[w].by = NoId
  <2>1. CASE eff = Null
    BY <1>1, <2>1
  <2>2. CASE eff # Null
    BY <2>2 DEF EarlierPut, CanReplace
  <2> QED  BY <2>1, <2>2
<1>4. /\ SourceInv' /\ DOMAIN src' = DOMAIN src \cup {nextId}
      /\ src'[nextId].contract = NoContract
      /\ \A w \in DOMAIN src : src'[w].contract = src[w].contract
  <2>1. NoContract \in Contract /\ NoContract.related \subseteq DOMAIN src
    BY ContractTypes
  <2>2. kind = "scoped" \/ pc \in InUse => eff # Null
    <3>1. pc \notin InUse
      BY <1>1 DEF InUse
    <3>2. kind = "scoped" => kind # "legacy"
      OBVIOUS
    <3> QED  BY <1>1, <3>1, <3>2
  <2> QED  BY <1>1, <1>2, <1>3, <2>1, <2>2, SourcePut
<1>5. WithContract' = WithContract
  BY <1>4 DEF WithContract
<1>6. MarksInv'
  BY <1>1, <1>5 DEF MarksInv, InUse
<1> QED  BY <1>4, <1>6

LEMMA OpenLegacyKeepsSource ==
  ASSUME SourceInv, MarksInv, OpenLegacy
  PROVE  SourceInv' /\ MarksInv'
<1>1. /\ kind = "legacy" /\ kind' = kind /\ nextId' = nextId /\ pc' = "open"
      /\ src' = WithTemporalColumns(src)
  BY DEF OpenLegacy, Opened
<1>2. src' = [v \in DOMAIN src |->
                IF src[v].eff = Null THEN [src[v] EXCEPT !.eff = Min({v, MaxEff})]
                ELSE src[v]]
  BY <1>1 DEF WithTemporalColumns
<1>3. ASSUME NEW v \in DOMAIN src
      PROVE  /\ src'[v] \in Row /\ src'[v].of = src[v].of
             /\ src'[v].by = src[v].by /\ src'[v].ok = src[v].ok
             /\ src'[v].contract = src[v].contract /\ src'[v].eff # Null
  <2>1. src[v] \in Row /\ v \in Nat
    BY DEF SourceInv, IsStore
  <2>2. CASE src[v].eff = Null
    <3>1. Min({v, MaxEff}) \in Nat
      BY <2>1, MigrationAssumption, MinOfTwo
    <3>2. Min({v, MaxEff}) \in Int /\ Min({v, MaxEff}) # Null
      BY <3>1 DEF Null
    <3>3. src'[v] = [src[v] EXCEPT !.eff = Min({v, MaxEff})]
      BY <1>2, <2>2
    <3> HIDE DEF Null
    <3> QED  BY <2>1, <3>2, <3>3, RowExcept
  <2>3. CASE src[v].eff # Null
    BY <1>2, <2>1, <2>3
  <2> QED  BY <2>2, <2>3
<1>4. SourceInv'
  <2>1. DOMAIN src' = DOMAIN src /\ src' \in [DOMAIN src -> Row]
    BY <1>2, <1>3
  <2>2. \A v \in DOMAIN src : kind = "legacy" => src'[v].contract = NoContract
    BY <1>3 DEF SourceInv
  <2>3. pc' \in Phases
    BY <1>1 DEF Phases
  <2> QED  BY <1>1, <1>3, <2>1, <2>2, <2>3, SourceRewritten
<1>5. MarksInv'
  BY <1>1 DEF MarksInv
<1> QED  BY <1>4, <1>5

LEMMA AdoptContractsKeepsSource ==
  ASSUME SourceInv, MarksInv, AdoptContracts
  PROVE  /\ SourceInv' /\ MarksInv'
         /\ outcome' = "migrated" => src' = src
<1>1. /\ pc = "closed" /\ kind = "scoped" /\ kind' = kind /\ nextId' = nextId
      /\ src' = [v \in DOMAIN src |->
                   IF src[v].contract = NoContract
                   THEN [src[v] EXCEPT !.contract = AdoptedContract] ELSE src[v]]
      /\ marks' = marks \cup {"contracts"} /\ tags' = tags /\ features' = features
      /\ pc' = IF "contracts" \in features THEN "integrity" ELSE "enableContracts"
      /\ outcome' = outcome
  BY DEF AdoptContracts, envVars
<1>2. ASSUME NEW v \in DOMAIN src
      PROVE  /\ src'[v] \in Row /\ src'[v].of = src[v].of /\ src'[v].by = src[v].by
             /\ src'[v].ok = src[v].ok /\ src'[v].eff = src[v].eff
             /\ src'[v].contract # NoContract
             /\ src'[v].contract.related \subseteq src[v].contract.related
             /\ src[v].contract # NoContract => src'[v] = src[v]
  <2>1. src[v] \in Row
    BY DEF SourceInv, IsStore
  <2>2. CASE src[v].contract = NoContract
    <3>1. src'[v] = [src[v] EXCEPT !.contract = AdoptedContract]
      BY <1>1, <2>2
    <3> QED  BY <2>1, <2>2, <3>1, RowExcept, ContractTypes
  <2>3. CASE src[v].contract # NoContract
    BY <1>1, <2>1, <2>3
  <2> QED  BY <2>2, <2>3
<1>3. DOMAIN src' = DOMAIN src /\ src' \in [DOMAIN src -> Row]
  BY <1>1, <1>2
<1>4. SourceInv'
  <2>1. pc' \in Phases /\ pc' \notin InUse
    BY <1>1 DEF Phases, InUse
  <2>2. \A v \in DOMAIN src : src[v].eff # Null
    BY <1>1 DEF SourceInv
  <2> QED  BY <1>1, <1>2, <1>3, <2>1, <2>2, SourceRewritten
<1>5. WithContract' = DOMAIN src'
  BY <1>2, <1>3 DEF WithContract
<1>6. MarksInv'
  BY <1>1, <1>3, <1>5 DEF MarksInv, InUse
<1>7. ASSUME outcome' = "migrated" PROVE src' = src
  <2>1. WithContract = DOMAIN src
    BY <1>1, <1>7 DEF MarksInv
  <2>2. \A v \in DOMAIN src : src'[v] = src[v]
    BY <2>1, <1>2 DEF WithContract
  <2>3. src \in [DOMAIN src -> Row]
    BY DEF SourceInv, IsStore
  <2> QED  BY <2>2, <2>3, <1>3
<1> QED  BY <1>4, <1>6, <1>7

LEMMA AdoptionKeepsSource ==
  ASSUME SourceInv, MarksInv, EnableContracts \/ AdoptIntegrity
  PROVE  SourceInv' /\ MarksInv' /\ src' = src
<1>1. CASE EnableContracts
  <2>1. /\ pc = "enableContracts" /\ pc' = "integrity"
        /\ features' = features \cup {"contracts"}
        /\ UNCHANGED <<kind, src, marks, tags, nextId, outcome>>
    BY <1>1 DEF EnableContracts
  <2>2. SourceInv'
    BY <2>1 DEF SourceInv, Phases, InUse
  <2>3. WithContract' = WithContract
    BY <2>1 DEF WithContract
  <2>4. MarksInv'
    BY <2>1, <2>3 DEF MarksInv, InUse
  <2> QED  BY <2>1, <2>2, <2>4
<1>2. CASE AdoptIntegrity
  <2>1. /\ pc = "integrity" /\ pc' = "enableIntegrity"
        /\ IF "integrity" \in marks
           THEN marks' = marks /\ tags' = tags
           ELSE tags' = DOMAIN src /\ marks' = marks \cup {"integrity"}
        /\ UNCHANGED <<kind, src, features, nextId, outcome>>
    BY <1>2 DEF AdoptIntegrity
  <2>2. SourceInv'
    BY <2>1 DEF SourceInv, Phases, InUse
  <2>3. WithContract' = WithContract
    BY <2>1 DEF WithContract
  <2>4. MarksInv'
    BY <2>1, <2>3 DEF MarksInv, InUse
  <2> QED  BY <2>1, <2>2, <2>4
<1> QED  BY <1>1, <1>2

\* Records of the source are forgotten, and their tags with them.
LEMMA MarksForget ==
  ASSUME MarksInv, NEW s, KeepsRows(s, src), src' = s, pc' = "open",
         kind' = kind, marks' = marks, features \subseteq features',
         features' \subseteq features \cup {"integrity"},
         kind = "scoped" => "integrity" \in features' /\ "contracts" \in features,
         "integrity" \in features' => "integrity" \in marks \/ kind = "legacy",
         tags' = tags \cap DOMAIN s
  PROVE  MarksInv'
<1>1. WithContract' = WithContract \cap DOMAIN s
  BY WithContractKeeps
<1>2. DOMAIN s \subseteq DOMAIN src
  BY DEF KeepsRows
<1>3. ASSUME kind = "scoped"
      PROVE  /\ "contracts" \in marks /\ "integrity" \in marks
             /\ WithContract' = DOMAIN s /\ tags' = DOMAIN s
  <2>1. "contracts" \in marks /\ "integrity" \in marks
    BY <1>3 DEF MarksInv
  <2> QED  BY <1>1, <1>2, <1>3, <2>1 DEF MarksInv
<1> QED  BY <1>3 DEF MarksInv, InUse

LEMMA StartupKeepsSource ==
  ASSUME SourceInv, MarksInv, EnableIntegrity \/ VerifyRecords
  PROVE  SourceInv' /\ MarksInv'
<1>1. /\ pc \in {"integrity", "enableIntegrity"} /\ pc' = "open"
      /\ src' = Pruned(src) /\ tags' = tags \cap DOMAIN Pruned(src)
      /\ kind' = kind /\ marks' = marks /\ nextId' = nextId
      /\ features' \in {features, features \cup {"integrity"}}
      /\ "integrity" \in features'
      /\ pc = "integrity" => features' = features
  BY DEF EnableIntegrity, VerifyRecords, Opened
<1>2. Forgets(Pruned(src), src)
  BY PrunedForgets DEF SourceInv
<1>3. kind = "scoped" /\ "contracts" \in features /\ "integrity" \in marks
  BY <1>1 DEF MarksInv
<1>4. SourceInv'
  <2>1. pc' \in Phases
    BY <1>1 DEF Phases
  <2> QED  BY <1>1, <1>2, <1>3, <2>1, SourceForgets
<1>5. MarksInv'
  <2>1. KeepsRows(Pruned(src), src)
    BY <1>2 DEF Forgets
  <2> QED  BY <1>1, <1>3, <2>1, MarksForget
<1> QED  BY <1>4, <1>5

LEMMA DamageKeepsSource ==
  ASSUME SourceInv, MarksInv, NEW v \in DOMAIN src, Damage(v)
  PROVE  SourceInv' /\ MarksInv'
<1>1. /\ pc = "closed" /\ kind = "scoped" /\ outcome' = "none"
      /\ src' = [src EXCEPT ![v].ok = FALSE]
      /\ UNCHANGED <<kind, marks, tags, features, nextId, pc>>
  BY DEF Damage
<1>2. src \in [DOMAIN src -> Row]
  BY DEF SourceInv, IsStore
<1>3. src' = [src EXCEPT ![v] = [src[v] EXCEPT !.ok = FALSE]]
  BY <1>1
<1>4. ASSUME NEW w \in DOMAIN src
      PROVE  /\ src'[w] \in Row /\ src'[w].of = src[w].of
             /\ src'[w].by = src[w].by /\ src'[w].eff = src[w].eff
             /\ src'[w].contract = src[w].contract
             /\ src'[w].ok => src[w].ok
  <2>1. src[w] \in Row
    BY <1>2
  <2>2. CASE w = v
    <3>1. src'[w] = [src[w] EXCEPT !.ok = FALSE]
      BY <1>3, <1>2, <2>2
    <3>2. /\ src'[w] \in Row /\ src'[w].ok = FALSE
          /\ src'[w].of = src[w].of /\ src'[w].eff = src[w].eff
      BY <2>1, <3>1 DEF Row
    <3>3. src'[w].by = src[w].by /\ src'[w].contract = src[w].contract
      BY <2>1, <3>1 DEF Row
    <3> QED  BY <3>2, <3>3
  <2>3. CASE w # v
    BY <1>3, <1>2, <2>1, <2>3
  <2> QED  BY <2>2, <2>3
<1>5. DOMAIN src' = DOMAIN src /\ src' \in [DOMAIN src -> Row]
  BY <1>2, <1>3, <1>4
<1>6. SourceInv'
  <2>1. pc' \in Phases /\ kind # "legacy"
    BY <1>1 DEF SourceInv
  <2>2. \A w \in DOMAIN src : src[w].eff # Null
    BY <1>1 DEF SourceInv
  <2> QED  BY <1>1, <1>4, <1>5, <2>1, <2>2, SourceRewritten
<1>7. WithContract' = WithContract
  BY <1>4, <1>5 DEF WithContract
<1>8. MarksInv'
  BY <1>1, <1>5, <1>7 DEF MarksInv, InUse
<1> QED  BY <1>6, <1>8

LEMMA SourceRememberKeepsSource ==
  ASSUME SourceInv, MarksInv,
         NEW layer \in {"live", "short_term", "contextual_logic"},
         NEW eff \in 1 .. MaxEff, NEW S \in SUBSET DOMAIN src,
         NEW related \in SUBSET DOMAIN src,
         now \in Nat,
         SourceRemember(layer, eff, S, related)
  PROVE  SourceInv' /\ MarksInv'
<1> DEFINE expires == IF layer = "live" THEN now + LiveTicks ELSE Null
           c == ContractOf(layer, expires, related, "caller")
<1>1. /\ pc = "open" /\ pc' = pc /\ kind = "scoped" /\ kind' = kind
      /\ src' = Put(src, nextId, Record(nextId, eff, c), S)
      /\ tags' = IF "integrity" \in features THEN tags \cup {nextId} ELSE tags
      /\ nextId' = nextId + 1 /\ marks' = marks /\ features' = features
      /\ \A w \in S : src[w].by = NoId
  BY DEF SourceRemember, CanReplace
<1>2. c \in Contract /\ c.related = related /\ c # NoContract
  <2>1. layer \in Layers /\ related \in SUBSET Nat
    BY DEF Layers, SourceInv, IsStore
  <2>2. expires \in Int
    BY MigrationAssumption DEF Null
  <2>3. c \in Contract /\ c.related = related /\ c.layer = layer
    <3> HIDE DEF expires
    <3> QED  BY <2>1, <2>2, ContractTypes
  <2>4. layer # "none"
    OBVIOUS
  <2> HIDE DEF c
  <2> QED  BY <2>3, <2>4, ContractTypes
<1> HIDE DEF c
<1>3. eff \in Int /\ eff # Null
  BY MigrationAssumption DEF Null
<1>4. /\ SourceInv' /\ DOMAIN src' = DOMAIN src \cup {nextId}
      /\ src'[nextId].contract = c
      /\ \A w \in DOMAIN src : src'[w].contract = src[w].contract
  <2>1. c.related \subseteq DOMAIN src
    BY <1>2
  <2>2. kind # "legacy"
    BY <1>1
  <2> QED  BY <1>1, <1>2, <1>3, <2>1, <2>2, SourcePut
<1>5. /\ "integrity" \in features /\ "integrity" \in marks /\ "contracts" \in marks
      /\ WithContract = DOMAIN src /\ tags = DOMAIN src
  BY <1>1 DEF MarksInv, InUse
<1>6. WithContract' = DOMAIN src'
  BY <1>2, <1>4, <1>5 DEF WithContract
<1>7. tags' = DOMAIN src'
  BY <1>1, <1>4, <1>5
<1>8. MarksInv'
  BY <1>1, <1>5, <1>6, <1>7 DEF MarksInv, InUse
<1> QED  BY <1>4, <1>8

LEMMA SourceForgetKeepsSource ==
  ASSUME SourceInv, MarksInv, NEW v \in DOMAIN src, SourceForget(v)
  PROVE  SourceInv' /\ MarksInv'
<1>1. /\ pc = "open" /\ pc' = pc /\ src' = Forgotten(v, src)
      /\ tags' = tags \cap DOMAIN Forgotten(v, src)
      /\ UNCHANGED <<kind, marks, features, nextId>>
  BY DEF SourceForget
<1>2. Forgets(Forgotten(v, src), src)
  BY ForgottenForgets DEF SourceInv
<1>3. SourceInv'
  <2>1. pc' \in Phases
    BY <1>1 DEF Phases
  <2>2. pc' \in InUse => pc \in InUse
    BY <1>1
  <2> QED  BY <1>1, <1>2, <2>1, <2>2, SourceForgets
<1>4. MarksInv'
  <2>1. KeepsRows(Forgotten(v, src), src)
    BY <1>2 DEF Forgets
  <2>2. kind = "scoped" =>
          "integrity" \in features /\ "integrity" \in marks /\ "contracts" \in features
    BY <1>1 DEF MarksInv, InUse
  <2>3. CASE kind = "scoped"
    BY <1>1, <2>1, <2>2, <2>3, MarksForget
  <2>4. CASE kind # "scoped"
    BY <1>1, <2>4 DEF MarksInv
  <2> QED  BY <2>3, <2>4
<1> QED  BY <1>3, <1>4

-----------------------------------------------------------------------------
(* Migration: the target, outside a run of migrate_to                      *)

LEMMA MirroredStays ==
  ASSUME UNCHANGED <<kind, src, tgt>>, NEW f, Mirrored(f)
  PROVE  Mirrored(f)'
<1>1. Readable' = Readable
  BY DEF Readable
<1> QED  BY <1>1 DEF Mirrored

LEMMA MigratedStays ==
  ASSUME RunInv, UNCHANGED <<kind, src, tgt>>, outcome = "migrated"
  PROVE  (\E f \in [Readable -> DOMAIN tgt] : Mirrored(f))'
<1>1. Readable' = Readable
  BY DEF Readable
<1>2. PICK f \in [Readable -> DOMAIN tgt] : Mirrored(f)
  BY DEF RunInv
<1>3. Mirrored(f)'
  BY <1>2, MirroredStays
<1> QED  BY <1>1, <1>2, <1>3

\* A step outside a run that leaves the target alone.
LEMMA QuietMigrationStep ==
  ASSUME TargetInv, RunInv, UNCHANGED <<kind, tgt>>,
         pc' \notin {"copy", "contracts", "rollback"},
         pc' = "earlier" => pc = "earlier",
         outcome' \in {outcome, "none"},
         outcome' = "migrated" => src' = src
  PROVE  TargetInv' /\ RunInv'
<1>1. TargetInv'
  BY DEF TargetInv
<1>2. ASSUME outcome' = "migrated"
      PROVE  (\E f \in [Readable -> DOMAIN tgt] : Mirrored(f))'
  BY <1>2, MigratedStays
<1> QED  BY <1>1, <1>2 DEF RunInv

LEMMA SameRun ==
  ASSUME TargetInv, RunInv,
         UNCHANGED <<kind, src, tgt, pc, rest, made, outcome>>
  PROVE  TargetInv' /\ RunInv'
<1>1. TargetInv'
  BY DEF TargetInv
<1>2. /\ Readable' = Readable /\ MigratedIds' = MigratedIds
      /\ Migratable' = Migratable
      /\ \A i : CopyOf(i)' = CopyOf(i) /\ Predecessors(i)' = Predecessors(i)
      /\ \A i : TemporaryContract(i)' = TemporaryContract(i)
  BY DEF Readable, MigratedIds, Migratable, CopyOf, Predecessors, TemporaryContract
<1>3. \A i : TargetContract(i)' = TargetContract(i)
  BY <1>2 DEF TargetContract
<1>4. CopiesInv => CopiesInv'
  BY <1>2 DEF CopiesInv
<1>5. CopyInv => CopyInv'
  BY <1>2, <1>4 DEF CopyInv
<1>6. ContractsInv => ContractsInv'
  BY <1>2, <1>3, <1>4 DEF ContractsInv
<1>7. outcome' = "migrated" => (\E f \in [Readable -> DOMAIN tgt] : Mirrored(f))'
  BY MigratedStays
<1> QED  BY <1>1, <1>5, <1>6, <1>7 DEF RunInv

\* A start-up prunes the target.
LEMMA OpenedStep ==
  ASSUME TargetInv, RunInv, kind' = kind, pc \notin {"copy", "contracts", "rollback"},
         NEW s, Opened(s)
  PROVE  TargetInv' /\ RunInv'
<1>1. /\ pc' = "open" /\ tgt' = Pruned(tgt)
      /\ outcome' = IF <<src', tgt'>> = <<src, tgt>> THEN outcome ELSE "none"
  BY DEF Opened
<1>2. Forgets(Pruned(tgt), tgt)
  BY PrunedForgets DEF TargetInv
<1>3. IsStore(tgt') /\ DOMAIN tgt' \subseteq DOMAIN tgt
  BY <1>1, <1>2 DEF Forgets, KeepsRows
<1>4. TargetInv'
  BY <1>1, <1>3 DEF TargetInv
<1>5. ASSUME outcome' = "migrated"
      PROVE  (\E f \in [Readable -> DOMAIN tgt] : Mirrored(f))'
  <2>1. UNCHANGED <<kind, src, tgt>> /\ outcome = "migrated"
    BY <1>1, <1>5
  <2> QED  BY <2>1, MigratedStays
<1> QED  BY <1>1, <1>4, <1>5 DEF RunInv

\* Users of the target write to it.
LEMMA TargetEdits ==
  ASSUME TargetInv, RunInv,
         \/ \E S \in SUBSET DOMAIN tgt : TargetRemember(S)
         \/ \E t \in DOMAIN tgt : TargetForget(t)
  PROVE  TargetInv' /\ RunInv'
<1>1. pc = "open" /\ pc' = pc /\ outcome' = "none"
  BY DEF TargetRemember, TargetForget
<1>2. IsStore(tgt')
  <2>1. CASE \E S \in SUBSET DOMAIN tgt : TargetRemember(S)
    <3> DEFINE c == ContractOf("short_term", Null, {}, "caller")
    <3>1. PICK S \in SUBSET DOMAIN tgt :
            tgt' = Put(tgt, NewId(tgt), Record(NoId, MaxEff, c), S)
      BY <2>1 DEF TargetRemember
    <3>2. c \in Contract
      BY ContractTypes DEF Layers, Null
    <3> HIDE DEF c
    <3>3. MaxEff \in Nat /\ MaxEff \in 0 .. MaxEff /\ NoId \in Nat
      BY MigrationAssumption DEF NoId
    <3>4. Record(NoId, MaxEff, c) \in Row
      BY <3>2, <3>3, RecordTypes
    <3>5. NewId(tgt) \in Nat \ {NoId} /\ NewId(tgt) \notin DOMAIN tgt
      BY NewIdIsNew DEF TargetInv
    <3>6. Puts(tgt', tgt, NewId(tgt), Record(NoId, MaxEff, c), S)
      BY <3>1, <3>4, <3>5, PutStores DEF TargetInv
    <3> QED  BY <3>6 DEF Puts
  <2>2. CASE \E t \in DOMAIN tgt : TargetForget(t)
    <3>1. PICK t \in DOMAIN tgt : tgt' = Forgotten(t, tgt)
      BY <2>2 DEF TargetForget
    <3> QED  BY <3>1, ForgottenForgets DEF TargetInv, Forgets
  <2> QED  BY <2>1, <2>2
<1> QED  BY <1>1, <1>2 DEF TargetInv, RunInv

\* Its rollback forgets the copies, from the last one on.
LEMMA RollBackStep ==
  ASSUME TargetInv, RunInv, RollBack
  PROVE  TargetInv' /\ RunInv'
<1>1. /\ pc = "rollback" /\ rest \in Seq(Nat \X Nat) /\ IsStore(tgt)
      /\ outcome = "none"
      /\ \A t \in DOMAIN tgt : \E n \in DOMAIN rest : rest[n][2] = t
  BY DEF RollBack, TargetInv
<1>2. CASE rest = <<>>
  <2>1. pc' = "open" /\ outcome' = "raised" /\ tgt' = tgt
    BY <1>2 DEF RollBack
  <2>2. DOMAIN rest = {}
    BY <1>2
  <2>3. DOMAIN tgt = {}
    BY <1>1, <2>2
  <2> QED  BY <1>1, <2>1, <2>3 DEF TargetInv, RunInv
<1>3. CASE rest # <<>> /\ tgt' = Forgotten(Head(rest)[2], tgt)
           /\ rest' = Tail(rest) /\ pc' = pc /\ outcome' = outcome
  <2>1. /\ Forgets(tgt', tgt) /\ Head(rest)[2] \notin DOMAIN tgt'
    BY <1>1, <1>3, ForgottenForgets
  <2>2. IsStore(tgt') /\ DOMAIN tgt' \subseteq DOMAIN tgt
    BY <2>1 DEF Forgets, KeepsRows
  <2>3. rest' \in Seq(Nat \X Nat)
    BY <1>1, <1>3
  <2>4. ASSUME NEW t \in DOMAIN tgt' PROVE \E n \in DOMAIN rest' : rest'[n][2] = t
    <3>1. PICK n \in DOMAIN rest : rest[n][2] = t
      BY <1>1, <2>2
    <3>2. n # 1
      BY <2>1, <2>4, <3>1, <1>1, <1>3
    <3>3. n \in 1 .. Len(rest) /\ Len(rest) \in Nat
      BY <1>1, <3>1, LenProperties
    <3>4. /\ Len(rest') = Len(rest) - 1
          /\ \A k \in 1 .. Len(rest') : rest'[k] = rest[k + 1]
          /\ DOMAIN rest' = 1 .. Len(rest')
      BY <1>1, <1>3, HeadTailProperties, LenProperties
    <3>5. n - 1 \in DOMAIN rest' /\ rest'[n - 1] = rest[n]
      BY <3>2, <3>3, <3>4
    <3> QED  BY <3>1, <3>5
  <2> QED  BY <1>1, <1>3, <2>2, <2>3, <2>4 DEF TargetInv, RunInv
<1>4. CASE pc' = "open" /\ outcome' = "none" /\ tgt' = tgt
  BY <1>1, <1>4 DEF TargetInv, RunInv
<1> QED  BY <1>2, <1>3, <1>4 DEF RollBack

-----------------------------------------------------------------------------
(* Migration: a run of migrate_to                                          *)

\* The end of a sequence without repetitions, and the sequence with its head
\* moved to the end.
LEMMA TailOfDistinct ==
  ASSUME NEW S, NEW s \in Seq(S), s # <<>>, IsInjective(s)
  PROVE  /\ IsInjective(Tail(s)) /\ Tail(s) \in Seq(S)
         /\ Head(s) \in Range(s)
         /\ Range(Tail(s)) = Range(s) \ {Head(s)}
<1> DEFINE r == Tail(s)
<1>1. /\ Len(s) \in Nat \ {0} /\ DOMAIN s = 1 .. Len(s) /\ Head(s) = s[1]
  BY LenProperties, EmptySeq
<1>2. /\ r \in Seq(S) /\ Len(r) = Len(s) - 1 /\ DOMAIN r = 1 .. Len(r)
      /\ \A n \in 1 .. Len(r) : r[n] = s[n + 1]
  BY HeadTailProperties, LenProperties
<1> HIDE DEF r
<1>3. IsInjective(r)
  <2> SUFFICES ASSUME NEW a \in DOMAIN r, NEW b \in DOMAIN r, r[a] = r[b]
               PROVE  a = b
    BY DEF IsInjective
  <2>1. /\ a \in Nat /\ b \in Nat /\ a + 1 \in DOMAIN s /\ b + 1 \in DOMAIN s
        /\ s[a + 1] = s[b + 1]
    BY <1>1, <1>2
  <2>2. a + 1 = b + 1
    BY <2>1 DEF IsInjective
  <2> QED  BY <2>1, <2>2
<1>4. Head(s) \in Range(s)
  BY <1>1 DEF Range
<1>5. ASSUME NEW x \in Range(r) PROVE x \in Range(s) \ {Head(s)}
  <2>1. PICK n \in 1 .. Len(r) : x = s[n + 1]
    BY <1>2 DEF Range
  <2>2. n + 1 \in DOMAIN s /\ n + 1 # 1
    BY <1>1, <1>2
  <2> QED  BY <1>1, <2>1, <2>2 DEF Range, IsInjective
<1>6. ASSUME NEW x \in Range(s), x # Head(s) PROVE x \in Range(r)
  <2>1. PICK n \in DOMAIN s : x = s[n]
    BY DEF Range
  <2>2. n - 1 \in 1 .. Len(r) /\ r[n - 1] = s[n]
    BY <1>1, <1>2, <1>6, <2>1
  <2> QED  BY <1>2, <2>1, <2>2 DEF Range
<1>7. /\ IsInjective(r) /\ r \in Seq(S) /\ Head(s) \in Range(s)
      /\ Range(r) = Range(s) \ {Head(s)}
  BY <1>2, <1>3, <1>4, <1>5, <1>6
<1> QED  BY <1>7 DEF r

LEMMA AppendToDistinct ==
  ASSUME NEW S, NEW s \in Seq(S), IsInjective(s), NEW x \in S, x \notin Range(s)
  PROVE  /\ IsInjective(Append(s, x)) /\ Append(s, x) \in Seq(S)
         /\ Range(Append(s, x)) = Range(s) \cup {x}
<1> DEFINE r == Append(s, x)
<1>1. Len(s) \in Nat /\ DOMAIN s = 1 .. Len(s)
  BY LenProperties
<1>2. /\ r \in Seq(S) /\ Len(r) = Len(s) + 1 /\ DOMAIN r = 1 .. Len(r)
      /\ \A n \in 1 .. Len(s) : r[n] = s[n]
      /\ r[Len(s) + 1] = x
  BY AppendProperties, LenProperties
<1> HIDE DEF r
<1>3. \A n \in DOMAIN r : \/ n \in DOMAIN s /\ r[n] = s[n]
                          \/ n = Len(s) + 1 /\ r[n] = x
  BY <1>1, <1>2
<1>4. DOMAIN s \subseteq DOMAIN r /\ Len(s) + 1 \in DOMAIN r
  BY <1>1, <1>2
<1>5. \A n \in DOMAIN s : s[n] # x
  BY DEF Range
<1>6. IsInjective(r)
  BY <1>3, <1>5 DEF IsInjective
<1>7. Range(r) = Range(s) \cup {x}
  BY <1>1, <1>2, <1>3, <1>4 DEF Range
<1>8. IsInjective(r) /\ r \in Seq(S) /\ Range(r) = Range(s) \cup {x}
  BY <1>2, <1>6, <1>7
<1> QED  BY <1>8 DEF r

LEMMA RotatedDistinct ==
  ASSUME NEW S, NEW s \in Seq(S), s # <<>>, IsInjective(s)
  PROVE  /\ IsInjective(Append(Tail(s), Head(s)))
         /\ Append(Tail(s), Head(s)) \in Seq(S)
         /\ Range(Append(Tail(s), Head(s))) = Range(s)
<1> DEFINE r == Tail(s)
           x == Head(s)
<1>1. /\ IsInjective(r) /\ r \in Seq(S) /\ x \in Range(s) /\ x \in S
      /\ Range(r) = Range(s) \ {x}
  BY TailOfDistinct, HeadTailProperties
<1> HIDE DEF r, x
<1>2. /\ IsInjective(Append(r, x)) /\ Append(r, x) \in Seq(S)
      /\ Range(Append(r, x)) = Range(r) \cup {x}
  BY <1>1, AppendToDistinct
<1>3. Range(Append(r, x)) = Range(s)
  BY <1>1, <1>2
<1> QED  BY <1>2, <1>3 DEF r, x

\* SetToSeqs: the sequences of the members of a finite set.
LEMMA OrderingsOf ==
  ASSUME NEW S, IsFiniteSet(S), NEW s \in SetToSeqs(S)
  PROVE  s \in Seq(S) /\ IsInjective(s) /\ Range(s) = S
<1> DEFINE D == 1 .. Cardinality(S)
<1>1. Cardinality(S) \in Nat
  BY FS_CardinalityType
<1>2. s \in [D -> S] /\ \A i, j \in D : i # j => s[i] # s[j]
  BY DEF SetToSeqs
<1>3. IsFiniteSet(D) /\ Cardinality(D) = Cardinality(S)
  BY <1>1, FS_Interval
<1>4. s \in Seq(S)
  BY <1>1, <1>2
<1> HIDE DEF D
<1>5. IsInjective(s)
  BY <1>2 DEF IsInjective
<1>6. s \in Injection(D, S)
  BY <1>2 DEF Injection, IsInjective
<1>7. s \in Surjection(D, S)
  BY <1>3, <1>6, FS_Injection
<1>8. Range(s) = S
  BY <1>2, <1>7 DEF Surjection, Range
<1> QED  BY <1>4, <1>5, <1>8

LEMMA MigrateStep ==
  ASSUME SourceInv, TargetInv, RunInv, Migrate
  PROVE  TargetInv' /\ RunInv'
<1>1. /\ pc' = "copy" /\ DOMAIN tgt = {} /\ rest' \in SetToSeqs(Migratable)
      /\ made' = <<>> /\ outcome' = "none"
      /\ \A i \in Migratable : src[i].by \in Migratable \cup {NoId}
      /\ UNCHANGED <<kind, src, tgt>>
  BY DEF Migrate, sourceVars
<1>2. IsFiniteSet(Migratable) /\ Migratable \subseteq Nat
  <2>1. Migratable \subseteq DOMAIN src
    BY DEF Migratable, Readable
  <2>2. IsFiniteSet(DOMAIN src) /\ DOMAIN src \subseteq Nat
    BY DEF SourceInv, IsStore
  <2> QED  BY <2>1, <2>2, FS_Subset
<1>3. rest' \in Seq(Nat) /\ IsInjective(rest') /\ Range(rest') = Migratable
  <2> DEFINE M == Migratable
  <2>1. IsFiniteSet(M) /\ M \subseteq Nat /\ rest' \in SetToSeqs(M)
    BY <1>1, <1>2
  <2> HIDE DEF M
  <2>2. rest' \in Seq(M) /\ IsInjective(rest') /\ Range(rest') = M
    BY <2>1, OrderingsOf
  <2>3. rest' \in Seq(Nat)
    BY <2>1, <2>2, SeqMonotonic
  <2> QED  BY <2>2, <2>3 DEF M
<1>4. made' \in Seq(Nat \X Nat) /\ DOMAIN made' = {}
  <2>1. DOMAIN made' = {}
    BY <1>1
  <2> QED  BY <1>1, <2>1, EmptySeq
<1>5. Readable' = Readable /\ Migratable' = Migratable
  BY <1>1 DEF Readable, Migratable
<1>6. MigratedIds' = {}
  BY <1>4 DEF MigratedIds
<1>7. \A i \in Migratable' : src'[i].by \in Migratable' \cup {NoId}
  BY <1>1, <1>5
<1>8. CopiesInv'
  BY <1>1, <1>4, <1>6, <1>7 DEF CopiesInv
<1>9. CopyInv'
  BY <1>3, <1>4, <1>5, <1>6, <1>8 DEF CopyInv
<1> QED  BY <1>1, <1>9 DEF TargetInv, RunInv

\* CopyOf, of any pairs.
CopyIn(pairs, i) == pairs[CHOOSE n \in DOMAIN pairs : pairs[n][1] = i][2]

LEMMA CopyLookup ==
  ASSUME NEW pairs, \A m, n \in DOMAIN pairs : pairs[m][1] = pairs[n][1] => m = n,
         NEW n \in DOMAIN pairs
  PROVE  CopyIn(pairs, pairs[n][1]) = pairs[n][2]
<1>1. (CHOOSE m \in DOMAIN pairs : pairs[m][1] = pairs[n][1]) = n
  OBVIOUS
<1> QED  BY <1>1 DEF CopyIn

\* The copies by the record that they are copies of.
LEMMA CopiesAre ==
  ASSUME CopiesInv
  PROVE  /\ \A n \in DOMAIN made :
              made[n][1] \in MigratedIds /\ CopyOf(made[n][1]) = made[n][2]
         /\ \A i \in MigratedIds :
              \E n \in DOMAIN made : made[n][1] = i /\ CopyOf(i) = made[n][2]
         /\ \A t \in DOMAIN tgt : \E i \in MigratedIds : CopyOf(i) = t
         /\ \A i \in MigratedIds :
              /\ CopyOf(i) \in DOMAIN tgt
              /\ tgt[CopyOf(i)].of = i /\ tgt[CopyOf(i)].eff = src[i].eff
              /\ tgt[CopyOf(i)].by = IF src[i].by \in MigratedIds
                                     THEN CopyOf(src[i].by) ELSE NoId
<1>1. \A n \in DOMAIN made :
        made[n][1] \in MigratedIds /\ CopyOf(made[n][1]) = made[n][2]
  <2> TAKE n \in DOMAIN made
  <2>1. made[n][1] \in MigratedIds
    BY DEF MigratedIds
  <2>2. CopyOf(made[n][1]) = made[n][2]
    BY CopyLookup DEF CopyOf, CopyIn, CopiesInv
  <2> QED  BY <2>1, <2>2
<1>2. \A i \in MigratedIds :
        \E n \in DOMAIN made : made[n][1] = i /\ CopyOf(i) = made[n][2]
  BY <1>1 DEF MigratedIds
<1>3. \A t \in DOMAIN tgt : \E i \in MigratedIds : CopyOf(i) = t
  BY <1>1 DEF CopiesInv
<1>4. \A i \in MigratedIds :
        /\ CopyOf(i) \in DOMAIN tgt
        /\ tgt[CopyOf(i)].of = i /\ tgt[CopyOf(i)].eff = src[i].eff
        /\ tgt[CopyOf(i)].by = IF src[i].by \in MigratedIds
                               THEN CopyOf(src[i].by) ELSE NoId
  <2> TAKE i \in MigratedIds
  <2>1. PICK n \in DOMAIN made : made[n][1] = i /\ CopyOf(i) = made[n][2]
    BY <1>2
  <2>2. CopyOf(i) \in DOMAIN tgt
    BY <2>1 DEF CopiesInv
  <2>3. /\ tgt[made[n][2]].of = i /\ tgt[made[n][2]].eff = src[i].eff
        /\ tgt[made[n][2]].by = IF src[i].by \in MigratedIds
                                THEN CopyOf(src[i].by) ELSE NoId
    BY <2>1 DEF CopiesInv
  <2> QED  BY <2>1, <2>2, <2>3
<1> QED  BY <1>1, <1>2, <1>3, <1>4

LEMMA RaiseStep ==
  ASSUME TargetInv, CopiesInv, Raise, UNCHANGED <<tgt, outcome>>, outcome = "none"
  PROVE  TargetInv' /\ RunInv'
<1>1. /\ pc' = "rollback" /\ rest' = Reverse(made) /\ made \in Seq(Nat \X Nat)
      /\ \A t \in DOMAIN tgt : \E n \in DOMAIN made : made[n][2] = t
  BY DEF Raise, CreatedInReverse, CopiesInv
<1>2. Len(made) \in Nat /\ DOMAIN made = 1 .. Len(made)
  BY <1>1, LenProperties
<1>3. rest' = [n \in 1 .. Len(made) |-> made[Len(made) - n + 1]]
  BY <1>1 DEF Reverse
<1>4. \A n \in 1 .. Len(made) : made[Len(made) - n + 1] \in Nat \X Nat
  <2> TAKE n \in 1 .. Len(made)
  <2>1. Len(made) - n + 1 \in 1 .. Len(made)
    BY <1>2
  <2> QED  BY <2>1, <1>1, ElementOfSeq
<1>5. rest' \in Seq(Nat \X Nat)
  <2>1. rest' \in [1 .. Len(made) -> Nat \X Nat]
    BY <1>3, <1>4
  <2> QED  BY <2>1, <1>2, SeqDef
<1>6. ASSUME NEW t \in DOMAIN tgt PROVE \E n \in DOMAIN rest' : rest'[n][2] = t
  <2>1. PICK n \in DOMAIN made : made[n][2] = t
    BY <1>1
  <2>2. Len(made) - n + 1 \in 1 .. Len(made)
        /\ Len(made) - (Len(made) - n + 1) + 1 = n
    BY <1>2
  <2>3. rest'[Len(made) - n + 1] = made[n]
    BY <1>3, <2>2
  <2> QED  BY <1>3, <2>1, <2>2, <2>3
<1> QED  BY <1>1, <1>5, <1>6 DEF TargetInv, RunInv

\* One more copy.
LEMMA CopyMade ==
  ASSUME SourceInv, TargetInv, CopyInv, rest # <<>>, Copyable(Head(rest)),
         UNCHANGED <<kind, src>>,
         tgt' = Put(tgt, NewId(tgt),
                    Record(Head(rest), src[Head(rest)].eff,
                           TemporaryContract(Head(rest))),
                    {CopyOf(j) : j \in Predecessors(Head(rest)) \cap MigratedIds}),
         made' = Append(made, <<Head(rest), NewId(tgt)>>),
         rest' = Tail(rest)
  PROVE  IsStore(tgt') /\ CopyInv'
<1> DEFINE i == Head(rest)
           t == NewId(tgt)
           S == {CopyOf(j) : j \in Predecessors(i) \cap MigratedIds}
           record == Record(i, src[i].eff, TemporaryContract(i))
<1>1. /\ i \in Migratable \ MigratedIds
      /\ rest' \in Seq(Nat) /\ IsInjective(rest')
      /\ Range(rest') = (Migratable \ MigratedIds) \ {i}
  BY TailOfDistinct DEF CopyInv
<1>2. t \in Nat \ {NoId} /\ t \notin DOMAIN tgt
  BY NewIdIsNew DEF TargetInv
<1>3. CopiesInv
  BY DEF CopyInv
<1>4. /\ i \in DOMAIN src /\ i \in Nat /\ src[i] \in Row /\ src[i].eff \in Int
      /\ i # NoId
  BY <1>1, RowExcept DEF Migratable, Readable, SourceInv, IsStore
<1>5. TemporaryContract(i) \in Contract
  <2>1. src[i].contract \in Contract
    BY <1>4, RowExcept
  <2>2. src[i].contract.expires \in Int
    BY <2>1 DEF Contract
  <2>3. /\ ContractOf("live", src[i].contract.expires, {}, "transfer") \in Contract
        /\ ContractOf("short_term", Null, {}, "transfer") \in Contract
    BY <2>2, ContractTypes DEF Layers, Null
  <2> QED  BY <2>3 DEF TemporaryContract
<1>6. /\ record \in Row /\ record.of = i /\ record.eff = src[i].eff
      /\ record.by = NoId /\ record.contract = TemporaryContract(i)
  BY <1>4, <1>5, RecordTypes
<1>7. tgt' = Put(tgt, t, record, S) /\ made' = Append(made, <<i, t>>)
  OBVIOUS
<1> HIDE DEF i, t, record
<1>8. Puts(tgt', tgt, t, record, S)
  <2> HIDE DEF S
  <2> QED  BY <1>2, <1>6, <1>7, PutStores DEF TargetInv
<1>9. /\ IsStore(tgt') /\ DOMAIN tgt' = DOMAIN tgt \cup {t}
      /\ tgt'[t] = record
      /\ \A u \in DOMAIN tgt :
           /\ tgt'[u].of = tgt[u].of /\ tgt'[u].eff = tgt[u].eff
           /\ tgt'[u].contract = tgt[u].contract
           /\ tgt'[u].by = IF u \in S THEN t ELSE tgt[u].by
  BY <1>8 DEF Puts
<1>10. /\ made \in Seq(Nat \X Nat) /\ Len(made) \in Nat
       /\ DOMAIN made = 1 .. Len(made)
  BY <1>3, LenProperties DEF CopiesInv
<1>11. /\ made' \in Seq(Nat \X Nat) /\ DOMAIN made' = 1 .. Len(made) + 1
       /\ \A n \in DOMAIN made : made'[n] = made[n]
       /\ made'[Len(made) + 1] = <<i, t>>
  <2>1. <<i, t>> \in Nat \X Nat
    BY <1>2, <1>4
  <2> HIDE DEF S
  <2> QED  BY <2>1, <1>7, <1>10, AppendProperties, LenProperties
<1>12. \A n \in DOMAIN made' : n \in DOMAIN made \/ n = Len(made) + 1
  BY <1>10, <1>11
<1>13. DOMAIN made \subseteq DOMAIN made' /\ Len(made) + 1 \in DOMAIN made'
  BY <1>10, <1>11
<1>14. \A n \in DOMAIN made : made[n][1] \in MigratedIds /\ made[n][1] # i
  BY <1>1 DEF MigratedIds
<1>15. \A m, n \in DOMAIN made' : made'[m][1] = made'[n][1] => m = n
  <2> TAKE m, n \in DOMAIN made'
  <2>1. \A a, b \in DOMAIN made : made[a][1] = made[b][1] => a = b
    BY <1>3 DEF CopiesInv
  <2>2. CASE m \in DOMAIN made /\ n \in DOMAIN made
    BY <2>1, <2>2, <1>11
  <2>3. CASE m = Len(made) + 1 /\ n = Len(made) + 1
    BY <2>3
  <2>4. CASE m \in DOMAIN made /\ n = Len(made) + 1
    BY <2>4, <1>11, <1>14
  <2>5. CASE n \in DOMAIN made /\ m = Len(made) + 1
    BY <2>5, <1>11, <1>14
  <2> QED  BY <1>12, <2>2, <2>3, <2>4, <2>5
<1>16. MigratedIds' = MigratedIds \cup {i}
  BY <1>11, <1>12, <1>13 DEF MigratedIds
<1>17. \A n \in DOMAIN made' : CopyIn(made', made'[n][1]) = made'[n][2]
  BY <1>15, CopyLookup
<1>18. CopyIn(made', i) = t /\ \A j \in MigratedIds : CopyIn(made', j) = CopyOf(j)
  <2>1. CopyIn(made', i) = t
    <3> DEFINE last == Len(made) + 1
    <3>1. last \in DOMAIN made' /\ made'[last][1] = i /\ made'[last][2] = t
      BY <1>11, <1>13
    <3> HIDE DEF last
    <3> QED  BY <3>1, <1>17
  <2>2. ASSUME NEW j \in MigratedIds PROVE CopyIn(made', j) = CopyOf(j)
    <3>1. PICK n \in DOMAIN made : made[n][1] = j /\ CopyOf(j) = made[n][2]
      BY <1>3, CopiesAre
    <3>2. n \in DOMAIN made' /\ made'[n] = made[n]
      BY <1>11, <1>13
    <3> QED  BY <3>1, <3>2, <1>17
  <2> QED  BY <2>1, <2>2
<1>19. /\ Readable' = Readable /\ Migratable' = Migratable
       /\ \A j : Predecessors(j)' = Predecessors(j)
       /\ \A j : TemporaryContract(j)' = TemporaryContract(j)
       /\ \A j : CopyOf(j)' = CopyIn(made', j)
  BY DEF Readable, Migratable, Predecessors, TemporaryContract, CopyOf, CopyIn
<1>20. Predecessors(i) \subseteq MigratedIds
  BY DEF Copyable, i
<1>21. \A j \in MigratedIds : Predecessors(j) \subseteq MigratedIds
  BY <1>3 DEF CopiesInv
\* What superseded i, if it is there, is not copied yet.
<1>22. src[i].by \notin MigratedIds \cup {i}
  <2>1. src[i].by # i
    <3>1. src[i].by # NoId => src[i].by > i
      BY <1>4 DEF SourceInv, Linked
    <3> QED  BY <1>4, <3>1
  <2>2. ASSUME src[i].by \in MigratedIds PROVE FALSE
    <3>1. i \in Predecessors(src[i].by)
      BY <1>1 DEF Predecessors
    <3> QED  BY <2>2, <3>1, <1>1, <1>21
  <2> QED  BY <2>1, <2>2
\* The copies that are superseded by the new one.
<1>23. \A j \in MigratedIds : CopyOf(j) \in S <=> src[j].by = i
  <2> TAKE j \in MigratedIds
  <2>1. ASSUME src[j].by = i PROVE CopyOf(j) \in S
    <3>1. j \in Predecessors(i)
      BY <2>1, <1>3 DEF Predecessors, CopiesInv
    <3> QED  BY <3>1
  <2>2. ASSUME CopyOf(j) \in S PROVE src[j].by = i
    <3>1. PICK k \in Predecessors(i) \cap MigratedIds : CopyOf(k) = CopyOf(j)
      BY <2>2
    <3>2. k = j
      BY <3>1, <1>3, CopiesAre
    <3> QED  BY <3>1, <3>2 DEF Predecessors
  <2> QED  BY <2>1, <2>2
<1>24. ASSUME NEW n \in DOMAIN made'
       PROVE  LET j == made'[n][1]
                  copy == tgt'[made'[n][2]]
              IN /\ copy.of = j /\ copy.eff = src[j].eff
                 /\ copy.by = IF src[j].by \in MigratedIds \cup {i}
                              THEN CopyIn(made', src[j].by) ELSE NoId
                 /\ copy.contract = TemporaryContract(j)
  <2>1. CASE n = Len(made) + 1
    <3>1. made'[n][1] = i /\ made'[n][2] = t
      BY <2>1, <1>11
    <3> QED  BY <3>1, <1>6, <1>9, <1>22
  <2>2. CASE n \in DOMAIN made
    <3> DEFINE j == made[n][1]
               u == made[n][2]
    <3>1. /\ made'[n][1] = j /\ made'[n][2] = u /\ j \in MigratedIds
          /\ CopyOf(j) = u /\ u \in DOMAIN tgt
      <4>1. made'[n] = made[n] /\ u \in DOMAIN tgt
        BY <2>2, <1>3, <1>11 DEF CopiesInv
      <4>2. j \in MigratedIds /\ CopyOf(j) = u
        BY <2>2, <1>3, CopiesAre
      <4> QED  BY <4>1, <4>2
    <3>2. /\ tgt[u].of = j /\ tgt[u].eff = src[j].eff
          /\ tgt[u].by = IF src[j].by \in MigratedIds THEN CopyOf(src[j].by) ELSE NoId
      BY <2>2, <1>3 DEF CopiesInv
    <3>3. tgt[u].contract = TemporaryContract(j)
      BY <2>2 DEF CopyInv
    <3> HIDE DEF j, u, S
    <3>4. /\ tgt'[u].of = j /\ tgt'[u].eff = src[j].eff
          /\ tgt'[u].contract = TemporaryContract(j)
          /\ tgt'[u].by = IF u \in S THEN t ELSE tgt[u].by
      BY <1>9, <3>1, <3>2, <3>3
    <3>5. u \in S <=> src[j].by = i
      BY <1>23, <3>1
    <3>6. tgt'[u].by = IF src[j].by \in MigratedIds \cup {i}
                       THEN CopyIn(made', src[j].by) ELSE NoId
      BY <3>2, <3>4, <3>5, <1>1, <1>18
    <3> QED  BY <3>1, <3>4, <3>6
  <2> QED  BY <1>12, <2>1, <2>2
<1>25. DOMAIN tgt' = {made'[n][2] : n \in DOMAIN made'}
  <2>1. \A u : u \in DOMAIN tgt <=> \E n \in DOMAIN made : made[n][2] = u
    BY <1>3 DEF CopiesInv
  <2>2. made'[Len(made) + 1][2] = t
    BY <1>11
  <2>3. \A n \in DOMAIN made' : made'[n][2] \in DOMAIN tgt \cup {t}
    BY <2>1, <2>2, <1>11, <1>12
  <2>4. \A u \in DOMAIN tgt \cup {t} : \E n \in DOMAIN made' : made'[n][2] = u
    BY <2>1, <2>2, <1>11, <1>13
  <2>5. DOMAIN tgt' = DOMAIN tgt \cup {t}
    BY <1>9
  <2> QED  BY <2>3, <2>4, <2>5
<1>26. CopiesInv'
  <2>1. MigratedIds' \subseteq Migratable'
    BY <1>1, <1>3, <1>16, <1>19 DEF CopiesInv
  <2>2. \A j \in Migratable' : src'[j].by \in Migratable' \cup {NoId}
    BY <1>3, <1>19 DEF CopiesInv
  <2>3. \A j \in MigratedIds' : Predecessors(j)' \subseteq MigratedIds'
    BY <1>16, <1>19, <1>20, <1>21
  <2>4. \A n \in DOMAIN made' :
          LET j == made'[n][1]
              copy == tgt'[made'[n][2]]
          IN /\ copy.of = j /\ copy.eff = src'[j].eff
             /\ copy.by = IF src'[j].by \in MigratedIds'
                          THEN CopyIn(made', src'[j].by) ELSE NoId
    <3> HIDE DEF S
    <3> QED  BY <1>16, <1>24
  <2>5. \A n \in DOMAIN made' :
          LET j == made'[n][1]
              copy == tgt'[made'[n][2]]
          IN /\ copy.of = j /\ copy.eff = src'[j].eff
             /\ copy.by = IF src'[j].by \in MigratedIds'
                          THEN (made'[CHOOSE m \in DOMAIN made' : made'[m][1] = src'[j].by])[2]
                          ELSE NoId
    BY <2>4 DEF CopyIn
  <2> HIDE DEF S
  <2> QED  BY <1>11, <1>15, <1>25, <2>1, <2>2, <2>3, <2>5 DEF CopiesInv, CopyOf
<1>27. CopyInv'
  <2>1. Range(rest') = Migratable' \ MigratedIds'
    BY <1>1, <1>16, <1>19
  <2>2. \A n \in DOMAIN made' :
          tgt'[made'[n][2]].contract = TemporaryContract(made'[n][1])
    BY <1>24
  <2>3. \A n \in DOMAIN made' :
          tgt'[made'[n][2]].contract
            = IF src'[made'[n][1]].contract.layer = "live"
              THEN ContractOf("live", src'[made'[n][1]].contract.expires, {}, "transfer")
              ELSE ContractOf("short_term", Null, {}, "transfer")
    BY <2>2 DEF TemporaryContract
  <2> HIDE DEF S
  <2> QED  BY <1>1, <1>26, <2>1, <2>3 DEF CopyInv, TemporaryContract
<1> QED  BY <1>9, <1>27

\* The copies made so far, when the loop goes on without one.
LEMMA CopiesStay ==
  ASSUME UNCHANGED <<kind, src, made>>
  PROVE  /\ Readable' = Readable /\ Migratable' = Migratable
         /\ MigratedIds' = MigratedIds
         /\ \A i : CopyOf(i)' = CopyOf(i) /\ Predecessors(i)' = Predecessors(i)
         /\ \A i : TemporaryContract(i)' = TemporaryContract(i)
         /\ \A i : TargetContract(i)' = TargetContract(i)
         /\ tgt' = tgt /\ CopiesInv => CopiesInv'
<1>1. /\ Readable' = Readable /\ MigratedIds' = MigratedIds
      /\ Migratable' = Migratable
      /\ \A i : CopyOf(i)' = CopyOf(i) /\ Predecessors(i)' = Predecessors(i)
      /\ \A i : TemporaryContract(i)' = TemporaryContract(i)
  BY DEF Readable, MigratedIds, Migratable, CopyOf, Predecessors, TemporaryContract
<1>2. \A i : TargetContract(i)' = TargetContract(i)
  BY <1>1 DEF TargetContract
<1>3. tgt' = tgt /\ CopiesInv => CopiesInv'
  BY <1>1 DEF CopiesInv
<1> QED  BY <1>1, <1>2, <1>3

LEMMA CopyStepKeeps ==
  ASSUME SourceInv, TargetInv, RunInv, CopyStep
  PROVE  TargetInv' /\ RunInv'
<1>1. /\ pc = "copy" /\ rest # <<>> /\ CopyInv /\ outcome = "none"
      /\ UNCHANGED <<kind, src, outcome>>
  BY DEF CopyStep, sourceVars, RunInv, TargetInv
<1>2. CopiesInv
  BY <1>1 DEF CopyInv
<1>3. CASE ~Copyable(Head(rest))
  <2>1. /\ rest' = Append(Tail(rest), Head(rest))
        /\ UNCHANGED <<tgt, pc, made>>
    BY <1>3 DEF CopyStep
  <2>2. /\ IsInjective(rest') /\ rest' \in Seq(Nat) /\ Range(rest') = Range(rest)
    BY <1>1, <2>1, RotatedDistinct DEF CopyInv
  <2>3. CopyInv'
    BY <1>1, <1>2, <2>1, <2>2, CopiesStay DEF CopyInv
  <2> QED  BY <1>1, <2>1, <2>3 DEF TargetInv, RunInv
<1>4. CASE Copyable(Head(rest)) /\ Raise /\ tgt' = tgt
  BY <1>1, <1>2, <1>4, RaiseStep
<1>5. CASE /\ Copyable(Head(rest)) /\ pc' = pc
           /\ tgt' = Put(tgt, NewId(tgt),
                    Record(Head(rest), src[Head(rest)].eff,
                           TemporaryContract(Head(rest))),
                    {CopyOf(j) : j \in Predecessors(Head(rest)) \cap MigratedIds})
           /\ made' = Append(made, <<Head(rest), NewId(tgt)>>)
           /\ rest' = Tail(rest)
  <2>1. IsStore(tgt') /\ CopyInv'
    BY <1>1, <1>5, CopyMade
  <2> QED  BY <1>1, <1>5, <2>1 DEF TargetInv, RunInv
<1> QED  BY <1>3, <1>4, <1>5 DEF CopyStep

LEMMA CopiedStep ==
  ASSUME TargetInv, RunInv, SourceInv, Copied
  PROVE  TargetInv' /\ RunInv'
<1>1. /\ pc = "copy" /\ pc' = "contracts" /\ rest = <<>> /\ CopyInv /\ CopiesInv
      /\ rest' = IF kind = "scoped" THEN made ELSE <<>>
      /\ outcome = "none"
      /\ UNCHANGED <<kind, src, tgt, made, outcome>>
  BY DEF Copied, sourceVars, RunInv, TargetInv, CopyInv
<1>2. MigratedIds = Migratable
  <2>1. DOMAIN rest = {}
    BY <1>1
  <2>2. Range(rest) = {}
    BY <2>1 DEF Range
  <2> QED  BY <1>1, <2>2 DEF CopyInv, CopiesInv
<1>3. rest' \in Seq(Nat \X Nat)
  <2>1. made \in Seq(Nat \X Nat)
    BY <1>1 DEF CopiesInv
  <2>2. CASE kind = "scoped"
    BY <1>1, <2>1, <2>2
  <2>3. CASE kind # "scoped"
    BY <1>1, <2>3, EmptySeq
  <2> QED  BY <2>2, <2>3
<1>4. CopiesInv' /\ MigratedIds' = Migratable'
  BY <1>1, <1>2, CopiesStay
<1>5. CASE kind = "scoped"
  <2>1. rest' = made' /\ kind' # "legacy"
    BY <1>1, <1>5
  <2> QED  BY <1>1, <1>3, <1>4, <2>1 DEF ContractsInv, TargetInv, RunInv
<1>6. CASE kind = "legacy"
  <2>1. rest' = <<>> /\ DOMAIN rest' = {} /\ kind' # "scoped"
    BY <1>1, <1>6
  <2>2. \A n \in DOMAIN made :
          tgt[made[n][2]].contract = TemporaryContract(made[n][1])
    BY <1>1 DEF CopyInv
  <2>3. (\A n \in DOMAIN made :
           tgt[made[n][2]].contract = TemporaryContract(made[n][1]))'
    BY <1>1, <2>2 DEF TemporaryContract
  <2>4. ContractsInv'
    BY <1>3, <1>4, <2>1, <2>3 DEF ContractsInv
  <2> QED  BY <1>1, <2>4 DEF TargetInv, RunInv
<1> QED  BY <1>5, <1>6 DEF SourceInv

\* The first copy that is left gets its contract.
LEMMA ContractGiven ==
  ASSUME SourceInv, TargetInv, ContractsInv, rest # <<>>,
         UNCHANGED <<kind, src, made>>,
         src[Head(rest)[1]].contract.related \subseteq MigratedIds,
         tgt' = [tgt EXCEPT ![Head(rest)[2]].contract = TargetContract(Head(rest)[1])],
         rest' = Tail(rest)
  PROVE  IsStore(tgt') /\ ContractsInv'
<1> DEFINE i == Head(rest)[1]
           t == Head(rest)[2]
           c == TargetContract(i)
<1>1. /\ CopiesInv /\ rest \in Seq(Nat \X Nat) /\ Len(rest) \in Nat \ {0}
      /\ DOMAIN rest = 1 .. Len(rest) /\ Head(rest) = rest[1]
  BY LenProperties, EmptySeq DEF ContractsInv
<1>2. /\ rest' \in Seq(Nat \X Nat) /\ Len(rest') = Len(rest) - 1
      /\ DOMAIN rest' = 1 .. Len(rest')
      /\ \A n \in 1 .. Len(rest') : rest'[n] = rest[n + 1]
  BY <1>1, HeadTailProperties, LenProperties
<1>3. PICK first \in DOMAIN made : made[first] = Head(rest)
  <2>1. 1 \in DOMAIN rest
    BY <1>1
  <2> QED  BY <1>1, <2>1 DEF ContractsInv
<1>4. /\ made[first][1] = i /\ made[first][2] = t /\ i \in MigratedIds
      /\ t \in DOMAIN tgt /\ i \in DOMAIN src
  <2>1. i \in MigratedIds
    BY <1>3 DEF MigratedIds
  <2>2. i \in DOMAIN src
    BY <2>1, <1>1 DEF CopiesInv, Migratable, Readable
  <2> QED  BY <1>1, <1>3, <2>1, <2>2 DEF CopiesInv
<1>5. c \in Contract
  <2>1. src[i].contract \in Contract
    BY <1>4, RowExcept DEF SourceInv, IsStore
  <2>2. {CopyOf(j) : j \in src[i].contract.related} \in SUBSET Nat
    <3>1. \A j \in src[i].contract.related : CopyOf(j) \in DOMAIN tgt
      BY <1>1, CopiesAre
    <3>2. DOMAIN tgt \subseteq Nat
      BY DEF TargetInv, IsStore
    <3> QED  BY <3>1, <3>2
  <2>3. c = [src[i].contract EXCEPT !.related = {CopyOf(j) : j \in src[i].contract.related}]
    BY DEF TargetContract
  <2> HIDE DEF c
  <2>4. \A S \in SUBSET Nat : [src[i].contract EXCEPT !.related = S] \in Contract
    BY <2>1 DEF Contract
  <2> QED  BY <2>2, <2>3, <2>4
<1>6. tgt \in [DOMAIN tgt -> Row] /\ tgt' = [tgt EXCEPT ![t].contract = c]
  BY DEF TargetInv, IsStore
<1>7. i = Head(rest)[1] /\ t = Head(rest)[2]
  OBVIOUS
<1>8. /\ src[i].contract.related \subseteq MigratedIds
      /\ c = TargetContract(i)
  OBVIOUS
<1> HIDE DEF i, t, c
<1>9. tgt' = [tgt EXCEPT ![t] = [tgt[t] EXCEPT !.contract = c]]
  BY <1>4, <1>6
<1>10. DOMAIN tgt' = DOMAIN tgt
  BY <1>9
<1>11. ASSUME NEW u \in DOMAIN tgt
       PROVE  /\ tgt'[u] \in Row /\ tgt'[u].of = tgt[u].of
              /\ tgt'[u].by = tgt[u].by /\ tgt'[u].eff = tgt[u].eff
              /\ tgt'[u].contract = IF u = t THEN c ELSE tgt[u].contract
  <2>1. tgt[u] \in Row
    BY <1>6
  <2>2. CASE u = t
    <3>1. tgt'[u] = [tgt[u] EXCEPT !.contract = c]
      BY <1>9, <1>6, <2>2
    <3>2. tgt'[u] \in Row /\ tgt'[u].contract = c
      BY <1>5, <2>1, <3>1 DEF Row
    <3>3. /\ tgt'[u].of = tgt[u].of /\ tgt'[u].by = tgt[u].by
          /\ tgt'[u].eff = tgt[u].eff
      BY <2>1, <3>1 DEF Row
    <3> QED  BY <2>2, <3>2, <3>3
  <2>3. CASE u # t
    BY <1>9, <1>6, <2>1, <2>3
  <2> QED  BY <2>2, <2>3
<1>12. IsStore(tgt')
  <2>1. tgt' \in [DOMAIN tgt -> Row]
    BY <1>9, <1>10, <1>11
  <2> QED  BY <1>10, <2>1 DEF TargetInv, IsStore
<1>13. /\ Migratable' = Migratable /\ MigratedIds' = MigratedIds
       /\ \A j : CopyOf(j)' = CopyOf(j) /\ Predecessors(j)' = Predecessors(j)
       /\ \A j : TargetContract(j)' = TargetContract(j)
  BY CopiesStay
<1>14. \A n \in DOMAIN made : made[n][2] \in DOMAIN tgt
  BY <1>1 DEF CopiesInv
<1>15. CopiesInv'
  <2>1. DOMAIN tgt' = {made'[n][2] : n \in DOMAIN made'}
    BY <1>1, <1>10 DEF CopiesInv
  <2>2. \A n \in DOMAIN made :
          LET j == made[n][1]
              copy == tgt'[made[n][2]]
          IN /\ copy.of = j /\ copy.eff = src[j].eff
             /\ copy.by = IF src[j].by \in MigratedIds THEN CopyOf(src[j].by) ELSE NoId
    <3> TAKE n \in DOMAIN made
    <3> DEFINE u == made[n][2]
    <3>1. /\ tgt[u].of = made[n][1] /\ tgt[u].eff = src[made[n][1]].eff
          /\ tgt[u].by = IF src[made[n][1]].by \in MigratedIds
                        THEN CopyOf(src[made[n][1]].by) ELSE NoId
      BY <1>1 DEF CopiesInv
    <3>2. u \in DOMAIN tgt
      BY <1>14
    <3> HIDE DEF u
    <3>3. /\ tgt'[u].of = tgt[u].of /\ tgt'[u].eff = tgt[u].eff
          /\ tgt'[u].by = tgt[u].by
      BY <1>11, <3>2
    <3>4. /\ tgt'[u].of = made[n][1] /\ tgt'[u].eff = src[made[n][1]].eff
          /\ tgt'[u].by = IF src[made[n][1]].by \in MigratedIds
                         THEN CopyOf(src[made[n][1]].by) ELSE NoId
      BY <3>1, <3>3
    <3> QED  BY <3>4 DEF u
  <2>3. \A n \in DOMAIN made' :
          LET j == made'[n][1]
              copy == tgt'[made'[n][2]]
          IN /\ copy.of = j /\ copy.eff = src'[j].eff
             /\ copy.by = IF src'[j].by \in MigratedIds' THEN CopyIn(made', src'[j].by) ELSE NoId
    BY <2>2, <1>13 DEF CopyOf, CopyIn
  <2>4. \A n \in DOMAIN made' :
          LET j == made'[n][1]
              copy == tgt'[made'[n][2]]
          IN /\ copy.of = j /\ copy.eff = src'[j].eff
             /\ copy.by = IF src'[j].by \in MigratedIds'
                          THEN (made'[CHOOSE m \in DOMAIN made' : made'[m][1] = src'[j].by])[2]
                          ELSE NoId
    BY <2>3 DEF CopyIn
  <2> QED  BY <1>1, <1>13, <2>1, <2>4 DEF CopiesInv, CopyOf
<1>16. \A m \in DOMAIN rest' : \E n \in DOMAIN made' : made'[n] = rest'[m]
  <2> TAKE m \in DOMAIN rest'
  <2>1. m + 1 \in DOMAIN rest /\ rest'[m] = rest[m + 1]
    BY <1>1, <1>2
  <2> QED  BY <2>1 DEF ContractsInv
<1>17. kind # "legacy"
  BY DEF ContractsInv
<1>18. ASSUME NEW n \in DOMAIN made
       PROVE  \/ \E m \in DOMAIN rest' : rest'[m] = made[n]
              \/ /\ src[made[n][1]].contract.related \subseteq MigratedIds
                 /\ tgt'[made[n][2]].contract = TargetContract(made[n][1])
  <2>1. CASE made[n][2] = t
    <3>1. made[n][1] = i
      <4>1. \A m \in DOMAIN made : tgt[made[m][2]].of = made[m][1]
        BY <1>1 DEF CopiesInv
      <4>2. tgt[made[n][2]].of = made[n][1] /\ tgt[made[first][2]].of = made[first][1]
        BY <4>1
      <4> QED  BY <4>2, <1>4, <2>1
    <3> QED  BY <1>4, <1>8, <1>11, <2>1, <3>1
  <2>2. CASE made[n][2] # t
    <3>1. tgt'[made[n][2]].contract = tgt[made[n][2]].contract
      BY <1>11, <1>14, <2>2
    <3>2. CASE \E m \in DOMAIN rest : rest[m] = made[n]
      <4>1. PICK m \in DOMAIN rest : rest[m] = made[n]
        BY <3>2
      <4>2. m # 1
        BY <4>1, <2>2, <1>1, <1>7
      <4>3. m \in 1 .. Len(rest) /\ Len(rest) \in Nat
        BY <1>1
      <4>4. m - 1 \in 1 .. Len(rest') /\ (m - 1) + 1 = m
        BY <1>2, <4>2, <4>3
      <4>5. rest'[m - 1] = rest[m]
        BY <1>2, <4>4
      <4> QED  BY <4>1, <4>4, <4>5, <1>2
    <3>3. CASE ~\E m \in DOMAIN rest : rest[m] = made[n]
      BY <3>1, <3>3, <1>17 DEF ContractsInv, SourceInv
    <3> QED  BY <3>2, <3>3
  <2> QED  BY <2>1, <2>2
<1>19. \A n \in DOMAIN made' :
         \/ \E m \in DOMAIN rest' : rest'[m] = made'[n]
         \/ /\ src'[made'[n][1]].contract.related \subseteq MigratedIds'
            /\ tgt'[made'[n][2]].contract
                 = [src'[made'[n][1]].contract EXCEPT !.related = {CopyIn(made', j) : j \in @}]
  BY <1>13, <1>18 DEF TargetContract, CopyOf, CopyIn
<1>20. ContractsInv'
  <2>1. \A n \in DOMAIN made' :
         \/ \E m \in DOMAIN rest' : rest'[m] = made'[n]
         \/ /\ src'[made'[n][1]].contract.related \subseteq MigratedIds'
            /\ tgt'[made'[n][2]].contract
                 = [src'[made'[n][1]].contract EXCEPT !.related =
                      {(made'[CHOOSE m \in DOMAIN made' : made'[m][1] = j])[2] : j \in @}]
    BY <1>19 DEF CopyIn
  <2>2. MigratedIds' = Migratable'
    BY <1>13 DEF ContractsInv
  <2> QED  BY <1>2, <1>15, <1>16, <1>17, <2>1, <2>2
           DEF ContractsInv, TargetContract, CopyOf
<1> QED  BY <1>12, <1>20

LEMMA ContractStepKeeps ==
  ASSUME SourceInv, TargetInv, RunInv, ContractStep
  PROVE  TargetInv' /\ RunInv'
<1>1. /\ pc = "contracts" /\ rest # <<>> /\ ContractsInv /\ outcome = "none"
      /\ UNCHANGED <<kind, src, outcome>>
  BY DEF ContractStep, sourceVars, RunInv, TargetInv
<1>2. CASE Raise /\ tgt' = tgt
  BY <1>1, <1>2, RaiseStep DEF ContractsInv
<1>3. CASE /\ src[Head(rest)[1]].contract.related \subseteq MigratedIds
           /\ tgt' = [tgt EXCEPT ![Head(rest)[2]].contract = TargetContract(Head(rest)[1])]
           /\ rest' = Tail(rest) /\ UNCHANGED <<pc, made>>
  <2>1. IsStore(tgt') /\ ContractsInv'
    BY <1>1, <1>3, ContractGiven
  <2> QED  BY <1>1, <1>3, <2>1 DEF TargetInv, RunInv
<1> QED  BY <1>2, <1>3 DEF ContractStep

LEMMA FinishStep ==
  ASSUME SourceInv, TargetInv, RunInv, Finish
  PROVE  TargetInv' /\ RunInv'
<1>1. /\ pc = "contracts" /\ pc' = "open" /\ rest = <<>> /\ ContractsInv
      /\ outcome = "none" /\ outcome' = "migrated"
      /\ UNCHANGED <<kind, src, tgt>>
  BY DEF Finish, sourceVars, RunInv, TargetInv
<1>2. CopiesInv /\ MigratedIds = Readable /\ DOMAIN rest = {}
  BY <1>1 DEF ContractsInv, Migratable
<1> DEFINE f == [i \in Readable |-> CopyOf(i)]
<1>3. f \in [Readable -> DOMAIN tgt]
  BY <1>2, CopiesAre
<1>4. \A t \in DOMAIN tgt : \E i \in Readable : f[i] = t
  BY <1>2, CopiesAre
<1>5. ASSUME NEW i \in Readable
      PROVE  /\ tgt[f[i]].of = i /\ tgt[f[i]].eff = src[i].eff
             /\ src[i].by \in Readable \cup {NoId}
             /\ tgt[f[i]].by = IF src[i].by = NoId THEN NoId ELSE f[src[i].by]
  <2>1. f[i] = CopyOf(i)
    OBVIOUS
  <2>2. src[i].by \in Readable \cup {NoId} /\ NoId \notin Readable
    BY <1>2 DEF CopiesInv, Migratable, Readable, SourceInv, IsStore
  <2>3. src[i].by \in Readable => f[src[i].by] = CopyOf(src[i].by)
    OBVIOUS
  <2> HIDE DEF f
  <2> QED  BY <1>2, <2>1, <2>2, <2>3, CopiesAre
<1>6. ASSUME NEW i \in Readable
      PROVE  /\ kind = "legacy" =>
                  tgt[f[i]].contract = ContractOf("short_term", Null, {}, "transfer")
             /\ kind = "scoped" =>
                  /\ src[i].contract.related \subseteq Readable
                  /\ tgt[f[i]].contract
                       = [src[i].contract EXCEPT !.related = {f[j] : j \in @}]
  <2>1. f[i] = CopyOf(i)
    OBVIOUS
  <2>2. PICK n \in DOMAIN made : made[n][1] = i /\ CopyOf(i) = made[n][2]
    BY <1>2, CopiesAre
  <2>3. ASSUME kind = "legacy"
        PROVE  tgt[f[i]].contract = ContractOf("short_term", Null, {}, "transfer")
    <3>1. tgt[CopyOf(i)].contract = TemporaryContract(i)
      BY <1>1, <2>2, <2>3 DEF ContractsInv
    <3>2. src[i].contract.layer # "live"
      BY <2>3, ContractTypes DEF SourceInv, Readable
    <3> QED  BY <2>1, <3>1, <3>2 DEF TemporaryContract
  <2>4. ASSUME kind = "scoped"
        PROVE  /\ src[i].contract.related \subseteq Readable
               /\ tgt[f[i]].contract
                    = [src[i].contract EXCEPT !.related = {f[j] : j \in @}]
    <3>1. /\ src[i].contract.related \subseteq MigratedIds
          /\ tgt[CopyOf(i)].contract = TargetContract(i)
      BY <1>1, <1>2, <2>2, <2>4 DEF ContractsInv
    <3>2. {f[j] : j \in src[i].contract.related}
            = {CopyOf(j) : j \in src[i].contract.related}
      BY <1>2, <3>1
    <3> QED  BY <1>2, <2>1, <3>1, <3>2 DEF TargetContract
  <2> QED  BY <2>3, <2>4
<1>7. Mirrored(f)
  <2> HIDE DEF f
  <2> QED  BY <1>3, <1>4, <1>5, <1>6 DEF Mirrored
<1>8. (\E g \in [Readable -> DOMAIN tgt] : Mirrored(g))'
  <2>1. \E g \in [Readable -> DOMAIN tgt] : Mirrored(g)
    <3> HIDE DEF f
    <3> QED  BY <1>3, <1>7
  <2>2. PICK g \in [Readable -> DOMAIN tgt] : Mirrored(g)
    BY <2>1
  <2>3. Mirrored(g)' /\ Readable' = Readable
    BY <1>1, <2>2, MirroredStays DEF Readable
  <2> QED  BY <1>1, <2>2, <2>3
<1> QED  BY <1>1, <1>8 DEF TargetInv, RunInv

-----------------------------------------------------------------------------
(* Migration: the theorems                                                 *)

LEMMA MigrationInvHoldsInitially ==
  ASSUME MigrationInit PROVE MigrationInv
<1>1. /\ kind \in {"legacy", "scoped"} /\ src = EmptyStore /\ tgt = EmptyStore
      /\ marks = {} /\ tags = {} /\ features = {} /\ pc = "earlier"
      /\ outcome = "none" /\ nextId = 1 /\ now = 0
  BY DEF MigrationInit
<1>2. DOMAIN EmptyStore = {} /\ EmptyStore \in [DOMAIN EmptyStore -> Row]
  BY DEF EmptyStore
<1>3. IsStore(EmptyStore) /\ Linked(EmptyStore) /\ Sourced(EmptyStore)
  BY <1>2, FS_EmptySet DEF IsStore, Linked, Sourced
<1>4. SourceInv
  BY <1>1, <1>2, <1>3 DEF SourceInv, Phases, NoId
<1>5. WithContract = {}
  BY <1>1, <1>2 DEF WithContract
<1>6. MarksInv
  BY <1>1, <1>2, <1>5 DEF MarksInv, InUse
<1>7. TargetInv /\ RunInv
  BY <1>1, <1>3 DEF TargetInv, RunInv
<1> QED  BY <1>1, <1>4, <1>6, <1>7 DEF MigrationInv

\* A step that leaves the rows of both profiles alone, or the run too.
LEMMA LaterPhase ==
  ASSUME SourceInv, MarksInv, UNCHANGED sourceVars, pc' \in Phases,
         pc' = pc \/ pc' \in InUse \cup {"closed"},
         pc' \in InUse => pc \in InUse,
         outcome' = "migrated" => outcome = "migrated" \/ pc \in InUse
  PROVE  SourceInv' /\ MarksInv'
BY SourceStays, MarksStay

LEMMA MigrationInvIsInductive ==
  ASSUME MigrationInv, [MigrationNext]_migrationVars
  PROVE  MigrationInv'
<1>0. now \in Nat /\ SourceInv /\ MarksInv /\ TargetInv /\ RunInv
  BY DEF MigrationInv
<1>1. CASE UNCHANGED migrationVars
  <2>1. /\ UNCHANGED sourceVars
        /\ UNCHANGED <<kind, src, tgt, pc, rest, made, outcome>> /\ now' = now
    BY <1>1 DEF migrationVars, sourceVars, runVars, envVars
  <2>2. SourceInv' /\ MarksInv'
    <3>1. pc' \in Phases
      BY <1>0, <2>1 DEF SourceInv
    <3> QED  BY <1>0, <2>1, <3>1, LaterPhase
  <2> QED  BY <1>0, <2>1, <2>2, SameRun DEF MigrationInv
<1>2. ASSUME NEW eff \in {Null} \cup 1 .. MaxEff, NEW S \in SUBSET DOMAIN src,
             EarlierPut(eff, S)
      PROVE  MigrationInv'
  <2>1. SourceInv' /\ MarksInv'
    BY <1>0, <1>2, EarlierPutKeepsSource
  <2>2. TargetInv' /\ RunInv'
    <3>1. /\ UNCHANGED <<kind, tgt, outcome>> /\ pc = "earlier" /\ pc' = pc
          /\ now' = now
      BY <1>2 DEF EarlierPut, envVars
    <3>2. outcome = "none"
      BY <1>0, <3>1 DEF TargetInv
    <3> QED  BY <1>0, <3>1, <3>2, QuietMigrationStep
  <2>3. now' = now
    BY <1>2 DEF EarlierPut, envVars
  <2> QED  BY <1>0, <2>1, <2>2, <2>3 DEF MigrationInv
<1>3. CASE Install
  <2>1. /\ UNCHANGED sourceVars /\ UNCHANGED <<kind, src, tgt, outcome, now>>
        /\ pc = "earlier" /\ pc' = "closed"
    BY <1>3 DEF Install, sourceVars, envVars
  <2>2. SourceInv' /\ MarksInv'
    <3>1. pc' \in Phases /\ pc' \notin InUse
      BY <2>1 DEF Phases, InUse
    <3>2. outcome = "none"
      BY <1>0, <2>1 DEF TargetInv
    <3> QED  BY <1>0, <2>1, <3>1, <3>2, LaterPhase
  <2>3. TargetInv' /\ RunInv'
    BY <1>0, <2>1, QuietMigrationStep
  <2> QED  BY <1>0, <2>1, <2>2, <2>3 DEF MigrationInv
<1>4. CASE OpenLegacy
  <2>1. SourceInv' /\ MarksInv'
    BY <1>0, <1>4, OpenLegacyKeepsSource
  <2>2. /\ pc = "closed" /\ kind' = kind /\ now' = now
        /\ Opened(WithTemporalColumns(src))
    BY <1>4 DEF OpenLegacy, envVars
  <2>3. TargetInv' /\ RunInv'
    BY <1>0, <2>2, OpenedStep
  <2> QED  BY <1>0, <2>1, <2>2, <2>3 DEF MigrationInv
<1>5. CASE AdoptContracts
  <2>1. /\ SourceInv' /\ MarksInv'
        /\ outcome' = "migrated" => src' = src
    BY <1>0, <1>5, AdoptContractsKeepsSource
  <2>2. /\ UNCHANGED <<kind, tgt, outcome>> /\ now' = now
        /\ pc' \in {"integrity", "enableContracts"}
    BY <1>5 DEF AdoptContracts, envVars
  <2>3. TargetInv' /\ RunInv'
    BY <1>0, <2>1, <2>2, QuietMigrationStep
  <2> QED  BY <1>0, <2>1, <2>2, <2>3 DEF MigrationInv
<1>6. CASE EnableContracts \/ AdoptIntegrity
  <2>1. SourceInv' /\ MarksInv' /\ src' = src
    BY <1>0, <1>6, AdoptionKeepsSource
  <2>2. /\ UNCHANGED <<kind, tgt, outcome>> /\ now' = now
        /\ pc' \in {"integrity", "enableIntegrity"}
    BY <1>6 DEF EnableContracts, AdoptIntegrity, envVars
  <2>3. TargetInv' /\ RunInv'
    BY <1>0, <2>1, <2>2, QuietMigrationStep
  <2> QED  BY <1>0, <2>1, <2>2, <2>3 DEF MigrationInv
<1>7. CASE EnableIntegrity \/ VerifyRecords
  <2>1. SourceInv' /\ MarksInv'
    BY <1>0, <1>7, StartupKeepsSource
  <2>2. /\ pc \in {"integrity", "enableIntegrity"} /\ kind' = kind /\ now' = now
        /\ Opened(Pruned(src))
    BY <1>7 DEF EnableIntegrity, VerifyRecords, envVars
  <2>3. TargetInv' /\ RunInv'
    BY <1>0, <2>2, OpenedStep
  <2> QED  BY <1>0, <2>1, <2>2, <2>3 DEF MigrationInv
<1>8. ASSUME NEW v \in DOMAIN src, Damage(v) PROVE MigrationInv'
  <2>1. SourceInv' /\ MarksInv'
    BY <1>0, <1>8, DamageKeepsSource
  <2>2. /\ UNCHANGED <<kind, tgt, pc>> /\ now' = now /\ pc = "closed"
        /\ outcome' = "none"
    BY <1>8 DEF Damage
  <2>3. TargetInv' /\ RunInv'
    BY <1>0, <2>2, QuietMigrationStep
  <2> QED  BY <1>0, <2>1, <2>2, <2>3 DEF MigrationInv
<1>9. ASSUME NEW layer \in {"live", "short_term", "contextual_logic"},
             NEW eff \in 1 .. MaxEff, NEW S \in SUBSET DOMAIN src,
             NEW related \in SUBSET DOMAIN src,
             SourceRemember(layer, eff, S, related)
      PROVE  MigrationInv'
  <2>1. SourceInv' /\ MarksInv'
    BY <1>0, <1>9, SourceRememberKeepsSource
  <2>2. /\ UNCHANGED <<kind, tgt, pc>> /\ now' = now /\ pc = "open"
        /\ outcome' = "none"
    BY <1>9 DEF SourceRemember, envVars
  <2>3. TargetInv' /\ RunInv'
    BY <1>0, <2>2, QuietMigrationStep
  <2> QED  BY <1>0, <2>1, <2>2, <2>3 DEF MigrationInv
<1>10. ASSUME NEW v \in DOMAIN src, SourceForget(v) PROVE MigrationInv'
  <2>1. SourceInv' /\ MarksInv'
    BY <1>0, <1>10, SourceForgetKeepsSource
  <2>2. /\ UNCHANGED <<kind, tgt, pc>> /\ now' = now /\ pc = "open"
        /\ outcome' = "none"
    BY <1>10 DEF SourceForget, envVars
  <2>3. TargetInv' /\ RunInv'
    BY <1>0, <2>2, QuietMigrationStep
  <2> QED  BY <1>0, <2>1, <2>2, <2>3 DEF MigrationInv
<1>11. CASE \/ \E S \in SUBSET DOMAIN tgt : TargetRemember(S)
            \/ \E t \in DOMAIN tgt : TargetForget(t)
  <2>1. /\ UNCHANGED sourceVars /\ pc = "open" /\ pc' = pc
        /\ outcome' = "none" /\ now' = now
    BY <1>11 DEF TargetRemember, TargetForget
  <2>2. SourceInv' /\ MarksInv'
    <3>1. pc' \in Phases
      BY <2>1 DEF Phases
    <3> QED  BY <1>0, <2>1, <3>1, LaterPhase
  <2>3. TargetInv' /\ RunInv'
    BY <1>0, <1>11, TargetEdits
  <2> QED  BY <1>0, <2>1, <2>2, <2>3 DEF MigrationInv
<1>12. CASE Migrate \/ CopyStep \/ Copied \/ ContractStep \/ Finish \/ RollBack
  <2>1. /\ UNCHANGED sourceVars /\ now' = now
        /\ pc \in {"open", "copy", "contracts", "rollback"}
        /\ pc' \in {"open", "copy", "contracts", "rollback"}
    BY <1>12 DEF Migrate, CopyStep, Copied, ContractStep, Finish, RollBack, Raise, envVars
  <2>2. SourceInv' /\ MarksInv'
    <3>1. pc' \in Phases /\ pc' \in InUse /\ pc \in InUse
      BY <2>1 DEF Phases, InUse
    <3> QED  BY <1>0, <2>1, <3>1, LaterPhase
  <2>3. TargetInv' /\ RunInv'
    BY <1>0, <1>12, MigrateStep, CopyStepKeeps, CopiedStep, ContractStepKeeps,
       FinishStep, RollBackStep
  <2> QED  BY <1>0, <2>1, <2>2, <2>3 DEF MigrationInv
<1>13. CASE Close
  <2>1. /\ UNCHANGED sourceVars /\ UNCHANGED <<kind, src, tgt, outcome, now>>
        /\ pc' = "closed"
    BY <1>13 DEF Close, sourceVars, envVars
  <2>2. SourceInv' /\ MarksInv'
    <3>1. pc' \in Phases /\ pc' \notin InUse
      BY <2>1 DEF Phases, InUse
    <3> QED  BY <1>0, <2>1, <3>1, LaterPhase
  <2>3. TargetInv' /\ RunInv'
    BY <1>0, <2>1, QuietMigrationStep
  <2> QED  BY <1>0, <2>1, <2>2, <2>3 DEF MigrationInv
<1>14. CASE Tick
  <2>1. /\ UNCHANGED sourceVars /\ now' = now + 1
        /\ UNCHANGED <<kind, src, tgt, pc, rest, made, outcome>>
    BY <1>14 DEF Tick, sourceVars, runVars
  <2>2. SourceInv' /\ MarksInv'
    <3>1. pc' \in Phases
      BY <1>0, <2>1 DEF SourceInv
    <3> QED  BY <1>0, <2>1, <3>1, LaterPhase
  <2> QED  BY <1>0, <2>1, <2>2, SameRun DEF MigrationInv
<1> QED
  BY <1>1, <1>2, <1>3, <1>4, <1>5, <1>6, <1>7, <1>8, <1>9, <1>10, <1>11, <1>12,
     <1>13, <1>14 DEF MigrationNext

\* Whatever fails, the source keeps its links, marks and tags, a target outside
\* a run of migrate_to is a profile as open_agent_memory opens it, and a run is
\* as far as its program counter says.
THEOREM MigrationInvariant == MigrationSpec => []MigrationInv
<1>1. MigrationInit => MigrationInv
  BY MigrationInvHoldsInitially
<1>2. MigrationInv /\ [MigrationNext]_migrationVars => MigrationInv'
  BY MigrationInvIsInductive
<1> QED  BY <1>1, <1>2, PTL DEF MigrationSpec

\* A start-up that is cut off between the database and the key manifest, or
\* between the contracts and the integrity tags, leaves nothing behind that a
\* later start-up refuses: the markers and features only go forward together.
THEOREM UpgradesResume == MigrationSpec => []UpgradeResumes
<1>1. MarksInv => UpgradeResumes
  BY DEF MarksInv, UpgradeResumes, ContractsRefused, IntegrityRefused
<1>2. MigrationInv => UpgradeResumes
  BY <1>1 DEF MigrationInv
<1> QED  BY <1>2, MigrationInvariant, PTL

\* A migrate_to that raised, and whose rollback did not fail, left no copy in
\* the target: what the rollback goes through names every record there is.
THEOREM RaisedMigrationsLeaveNothing == MigrationSpec => []RaisedLeavesNothing
<1>1. MigrationInv => RaisedLeavesNothing
  BY DEF MigrationInv, TargetInv, RaisedLeavesNothing
<1> QED  BY <1>1, MigrationInvariant, PTL

-----------------------------------------------------------------------------
(* Migration: verify_profile_migration                                     *)

\* The verifier tells records by their tokens: it counts as many of them as
\* records exactly when no two records share one.
LEMMA TokensTellRecords ==
  ASSUME NEW s, IsFiniteSet(DOMAIN s)
  PROVE  Cardinality(Tokens(s)) = Cardinality(DOMAIN s)
           <=> \A t, u \in DOMAIN s : Token(s[t]) = Token(s[u]) => t = u
<1> DEFINE g == [t \in DOMAIN s |-> Token(s[t])]
           X == DOMAIN s
           Y == Tokens(s)
<1>1. g \in Surjection(X, Y)
  BY DEF Surjection, Tokens
<1>2. g \in Injection(X, Y) <=> \A t, u \in X : Token(s[t]) = Token(s[u]) => t = u
  <2>1. g \in [X -> Y]
    BY DEF Tokens
  <2>2. DOMAIN g = X /\ \A t \in X : g[t] = Token(s[t])
    OBVIOUS
  <2> HIDE DEF g, X, Y
  <2> QED  BY <2>1, <2>2 DEF Injection, IsInjective
<1>3. Cardinality(Y) = Cardinality(X) <=> g \in Injection(X, Y)
  <2>1. IsFiniteSet(X)
    OBVIOUS
  <2> HIDE DEF g, X, Y
  <2> QED  BY <1>1, <2>1, FS_Surjection
<1> QED  BY <1>2, <1>3

LEMMA MirrorIsAccepted ==
  ASSUME SourceInv, MarksInv, TargetInv, pc = "open",
         DOMAIN src # {}, Readable = DOMAIN src, NEW f, Mirrored(f)
  PROVE  Accepts(FALSE)
<1>1. /\ f \in [DOMAIN src -> DOMAIN tgt]
      /\ \A t \in DOMAIN tgt : \E i \in DOMAIN src : f[i] = t
      /\ \A i \in DOMAIN src :
           /\ tgt[f[i]].of = i /\ tgt[f[i]].eff = src[i].eff
           /\ src[i].by \in DOMAIN src \cup {NoId}
           /\ tgt[f[i]].by = IF src[i].by = NoId THEN NoId ELSE f[src[i].by]
  BY DEF Mirrored
<1>2. \A i \in DOMAIN src : src[i].of = i
  BY DEF SourceInv
<1>3. ASSUME NEW i \in DOMAIN src, NEW t \in DOMAIN tgt
      PROVE  Token(tgt[t]) = Token(src[i]) <=> t = f[i]
  <2>1. PICK j \in DOMAIN src : f[j] = t
    BY <1>1
  <2>2. tgt[t].of = j /\ tgt[t].eff = src[j].eff
    BY <1>1, <2>1
  <2>3. tgt[f[i]].of = i
    BY <1>1
  <2> QED  BY <1>2, <2>1, <2>2, <2>3 DEF Token
<1>4. \A i \in DOMAIN src : f[i] \in DOMAIN tgt /\ Twin(i) = f[i]
  <2> TAKE i \in DOMAIN src
  <2>1. f[i] \in DOMAIN tgt
    BY <1>1
  <2>2. \A t \in DOMAIN tgt : Token(tgt[t]) = Token(src[i]) <=> t = f[i]
    BY <1>3
  <2> QED  BY <2>1, <2>2 DEF Twin
<1>5. Tokens(src) = Tokens(tgt)
  <2>1. \A i \in DOMAIN src : Token(tgt[f[i]]) = Token(src[i])
    BY <1>1, <1>3
  <2>2. Tokens(src) \subseteq Tokens(tgt)
    BY <1>4, <2>1 DEF Tokens
  <2>3. Tokens(tgt) \subseteq Tokens(src)
    BY <1>1, <2>1 DEF Tokens
  <2> QED  BY <2>2, <2>3
<1>6. Cardinality(Tokens(tgt)) = Cardinality(DOMAIN tgt)
  <2>1. \A t, u \in DOMAIN tgt : Token(tgt[t]) = Token(tgt[u]) => t = u
    <3> TAKE t, u \in DOMAIN tgt
    <3>1. PICK i \in DOMAIN src : f[i] = u
      BY <1>1
    <3>2. Token(tgt[u]) = Token(src[i])
      BY <1>3, <3>1
    <3> QED  BY <1>3, <3>1, <3>2
  <2>2. IsFiniteSet(DOMAIN tgt)
    BY DEF TargetInv, IsStore
  <2> QED  BY <2>1, <2>2, TokensTellRecords
<1>7. Snapshot
  <2>1. pc \in InUse
    BY DEF InUse
  <2>2. \A i \in DOMAIN src : src[i].eff # Null
    BY <2>1 DEF SourceInv
  <2>3. kind = "scoped" => WithContract = DOMAIN src
    BY <2>1 DEF MarksInv
  <2> QED  BY <2>2, <2>3 DEF Snapshot, ReadOnlyStore
<1>8. ASSUME NEW i \in DOMAIN src
      PROVE  tgt[Twin(i)].by = IF src[i].by = NoId THEN NoId ELSE Twin(src[i].by)
  <2>1. src[i].by # NoId => Twin(src[i].by) = f[src[i].by]
    BY <1>1, <1>4
  <2> QED  BY <1>1, <1>4, <2>1
<1>9. ASSUME NEW i \in DOMAIN src PROVE ContractMatches(i)
  <2>1. CASE kind = "legacy"
    <3>1. tgt[f[i]].contract = ContractOf("short_term", Null, {}, "transfer")
      BY <2>1 DEF Mirrored
    <3> QED  BY <1>4, <2>1, <3>1 DEF ContractMatches
  <2>2. CASE kind = "scoped"
    <3>1. /\ src[i].contract.related \subseteq DOMAIN src
          /\ tgt[f[i]].contract
               = [src[i].contract EXCEPT !.related = {f[j] : j \in src[i].contract.related}]
      BY <2>2 DEF Mirrored
    <3>2. {f[j] : j \in src[i].contract.related} = {Twin(j) : j \in src[i].contract.related}
      BY <1>4, <3>1
    <3>3. kind # "legacy"
      BY <2>2
    <3>4. tgt[Twin(i)].contract
            = [src[i].contract EXCEPT !.related = {Twin(j) : j \in src[i].contract.related}]
      BY <1>4, <3>1, <3>2
    <3> QED  BY <3>3, <3>4 DEF ContractMatches
  <2> QED  BY <2>1, <2>2 DEF SourceInv
<1> QED  BY <1>5, <1>6, <1>7, <1>8, <1>9 DEF Accepts

\* What migrate_to returns from, verify_profile_migration accepts: the copies
\* mirror the records that could be read, their chains and their contracts,
\* until one of the two profiles changes.
THEOREM MigrationsVerify == MigrationSpec => []MigratedVerifies
<1>1. MigrationInv => MigratedVerifies
  <2> SUFFICES ASSUME MigrationInv, pc = "open", outcome = "migrated",
                      DOMAIN src # {}, Readable = DOMAIN src
               PROVE  Accepts(FALSE)
    BY DEF MigratedVerifies
  <2>1. PICK f \in [Readable -> DOMAIN tgt] : Mirrored(f)
    BY DEF MigrationInv, RunInv
  <2> QED  BY <2>1, MirrorIsAccepted DEF MigrationInv
<1> QED  BY <1>1, MigrationInvariant, PTL

\* The chain of v in the store s ends at w, as Current says it.
EndsAt(s, v, w) ==
  /\ w \in DOMAIN s /\ s[w].by = NoId
  /\ \E S \in SUBSET DOMAIN s :
       /\ {v, w} \subseteq S
       /\ \A x \in S : x = w \/ s[x].by \in S
       /\ \A x \in S : x = v \/ \E y \in S : s[y].by = x

\* Every chain that goes to later records ends.
LEMMA ChainEnds ==
  ASSUME NEW s, IsStore(s), Linked(s), NEW limit \in Nat,
         \A v \in DOMAIN s : v < limit
  PROVE  \A v \in DOMAIN s : \E w : EndsAt(s, v, w)
<1> DEFINE Bad == {v \in DOMAIN s : ~\E w : EndsAt(s, v, w)}
           B == {n \in Nat : \E v \in Bad : v + n = limit}
<1>0. DOMAIN s \subseteq Nat \ {NoId}
  BY DEF IsStore
<1>1. ASSUME Bad # {} PROVE FALSE
  <2>1. B # {}
    <3>1. PICK v \in Bad : TRUE
      BY <1>1
    <3>2. v \in Nat /\ v < limit
      BY <1>0
    <3>3. limit - v \in Nat /\ v + (limit - v) = limit
      BY <3>2
    <3>4. limit - v \in B
      BY <3>1, <3>3
    <3> QED  BY <3>4
  <2>2. PICK n \in B : \A m \in B : n <= m
    <3> HIDE DEF B
    <3>1. B \subseteq Nat
      BY DEF B
    <3> QED  BY <2>1, <3>1, Least
  <2>3. PICK v \in Bad : v + n = limit
    BY <2>2
  <2>4. v \in DOMAIN s /\ ~\E w : EndsAt(s, v, w)
    BY <2>3
  <2>5. ASSUME s[v].by = NoId PROVE FALSE
    <3>1. EndsAt(s, v, v)
      <4>1. {v} \in SUBSET DOMAIN s
        BY <2>4
      <4> QED  BY <4>1, <2>4, <2>5 DEF EndsAt
    <3> QED  BY <2>4, <3>1
  <2> DEFINE u == s[v].by
  <2>6. u \in DOMAIN s /\ u > v /\ u < limit /\ u \in Nat /\ v \in Nat
    BY <1>0, <2>4, <2>5 DEF Linked
  <2>7. u \notin Bad
    <3>1. ASSUME u \in Bad PROVE FALSE
      <4>1. limit - u \in Nat /\ u + (limit - u) = limit
        BY <2>6
      <4>2. limit - u \in B
        BY <3>1, <4>1
      <4>3. n <= limit - u /\ n = limit - v /\ n \in Nat
        <5> HIDE DEF Bad, u
        <5> QED  BY <2>2, <2>3, <2>6, <4>2
      <4> QED  BY <4>3, <2>6
    <3> QED  BY <3>1
  <2>8. PICK w : EndsAt(s, u, w)
    BY <2>6, <2>7
  <2> HIDE DEF u
  <2>9. PICK S \in SUBSET DOMAIN s :
          /\ {u, w} \subseteq S
          /\ \A x \in S : x = w \/ s[x].by \in S
          /\ \A x \in S : x = u \/ \E y \in S : s[y].by = x
    BY <2>8 DEF EndsAt
  <2>10. S \cup {v} \in SUBSET DOMAIN s /\ {v, w} \subseteq S \cup {v}
    BY <2>4, <2>9
  <2>11. \A x \in S \cup {v} : x = w \/ s[x].by \in S \cup {v}
    BY <2>9 DEF u
  <2>12. \A x \in S \cup {v} : x = v \/ \E y \in S \cup {v} : s[y].by = x
    BY <2>9 DEF u
  <2>13. EndsAt(s, v, w)
    BY <2>8, <2>10, <2>11, <2>12 DEF EndsAt
  <2> QED  BY <2>4, <2>13
<1> QED  BY <1>1

\* No chain ends at two records.  The records on the way to the first end that
\* are not on the way to the second would each supersede another of them, and
\* that end supersedes one without being superseded: they would be more than
\* they are.
LEMMA ChainEndIsUnique ==
  ASSUME NEW s, IsStore(s), NEW v, NEW a, NEW b, EndsAt(s, v, a), EndsAt(s, v, b)
  PROVE  a = b
<1> SUFFICES ASSUME a # b PROVE FALSE
  OBVIOUS
<1>1. PICK S \in SUBSET DOMAIN s :
        /\ {v, a} \subseteq S
        /\ \A x \in S : x = a \/ s[x].by \in S
        /\ \A x \in S : x = v \/ \E y \in S : s[y].by = x
  BY DEF EndsAt
<1>2. PICK Q \in SUBSET DOMAIN s :
        /\ {v, b} \subseteq Q
        /\ \A x \in Q : x = b \/ s[x].by \in Q
        /\ \A x \in Q : x = v \/ \E y \in Q : s[y].by = x
  BY DEF EndsAt
<1>3. /\ s[a].by = NoId /\ s[b].by = NoId /\ NoId \notin DOMAIN s
      /\ IsFiniteSet(DOMAIN s)
  BY DEF EndsAt, IsStore
<1> DEFINE T == S \ Q
           P == {y \in T : s[y].by \in T}
           g == [y \in P |-> s[y].by]
<1>4. a \in T
  BY <1>1, <1>2, <1>3
<1>5. \A x \in T : \E y \in T : s[y].by = x
  <2> TAKE x \in T
  <2>1. x # v
    BY <1>2
  <2>2. PICK y \in S : s[y].by = x
    BY <1>1, <2>1
  <2>3. y \notin Q
    BY <1>1, <1>2, <1>3, <2>2
  <2> QED  BY <2>2, <2>3
<1>6. g \in Surjection(P, T)
  <2>1. g \in [P -> T]
    OBVIOUS
  <2>2. \A x \in T : \E y \in P : g[y] = x
    BY <1>5
  <2> HIDE DEF g, P, T
  <2> QED  BY <2>1, <2>2 DEF Surjection
<1>7. P \subseteq T \ {a}
  BY <1>1, <1>3
<1>8. IsFiniteSet(T)
  <2>1. T \subseteq DOMAIN s
    OBVIOUS
  <2> HIDE DEF T
  <2> QED  BY <1>3, <2>1, FS_Subset
<1> HIDE DEF T, P, g
<1>9. IsFiniteSet(T \ {a}) /\ Cardinality(T \ {a}) = Cardinality(T) - 1
  BY <1>4, <1>8, FS_RemoveElement
<1>10. IsFiniteSet(P) /\ Cardinality(P) <= Cardinality(T \ {a})
  BY <1>7, <1>9, FS_Subset
<1>11. Cardinality(T) <= Cardinality(P)
  BY <1>6, <1>10, FS_Surjection
<1>12. Cardinality(T) \in Nat /\ Cardinality(P) \in Nat
  BY <1>8, <1>10, FS_CardinalityType
<1> QED  BY <1>9, <1>10, <1>11, <1>12

LEMMA CurrentIsTheEnd ==
  ASSUME NEW s, IsStore(s), NEW v, NEW w, EndsAt(s, v, w)
  PROVE  Current(s, v) = w
<1>1. Current(s, v) = CHOOSE x \in DOMAIN s : EndsAt(s, v, x)
  BY DEF Current, EndsAt
<1>2. w \in DOMAIN s
  BY DEF EndsAt
<1>3. \A x : EndsAt(s, v, x) => x = w
  BY ChainEndIsUnique
<1> QED  BY <1>1, <1>2, <1>3

\* What the verifier accepts: every source record has one twin, with its
\* chain.
LEMMA TwinsAre ==
  ASSUME SourceInv, TargetInv, Accepts(TRUE)
  PROVE  \A i \in DOMAIN src :
           /\ src[i].ok /\ Twin(i) \in DOMAIN tgt
           /\ tgt[Twin(i)].of = i /\ tgt[Twin(i)].eff = src[i].eff
           /\ tgt[Twin(i)].by = IF src[i].by = NoId THEN NoId ELSE Twin(src[i].by)
           /\ ContractMatches(i)
<1>1. /\ Readable = DOMAIN src
      /\ Tokens(src) \subseteq Tokens(tgt)
      /\ \A i \in DOMAIN src :
           /\ tgt[Twin(i)].by = IF src[i].by = NoId THEN NoId ELSE Twin(src[i].by)
           /\ ContractMatches(i)
  BY DEF Accepts, Snapshot
<1> TAKE i \in DOMAIN src
<1>2. src[i].of = i /\ src[i].ok
  BY <1>1 DEF SourceInv, Readable
<1>3. \E t \in DOMAIN tgt : Token(tgt[t]) = Token(src[i])
  BY <1>1 DEF Tokens
<1>4. Twin(i) \in DOMAIN tgt /\ Token(tgt[Twin(i)]) = Token(src[i])
  BY <1>3 DEF Twin
<1>5. tgt[Twin(i)].of = i /\ tgt[Twin(i)].eff = src[i].eff
  BY <1>2, <1>4 DEF Token
<1> QED  BY <1>1, <1>2, <1>4, <1>5

LEMMA TwinChains ==
  ASSUME SourceInv, TargetInv, Accepts(TRUE), NEW i \in DOMAIN src, NEW w,
         EndsAt(src, i, w)
  PROVE  EndsAt(tgt, Twin(i), Twin(w))
<1>1. \A j \in DOMAIN src :
        /\ Twin(j) \in DOMAIN tgt
        /\ tgt[Twin(j)].by = IF src[j].by = NoId THEN NoId ELSE Twin(src[j].by)
  BY TwinsAre
<1>2. PICK S \in SUBSET DOMAIN src :
        /\ {i, w} \subseteq S
        /\ \A x \in S : x = w \/ src[x].by \in S
        /\ \A x \in S : x = i \/ \E y \in S : src[y].by = x
  BY DEF EndsAt
<1>3. w \in DOMAIN src /\ src[w].by = NoId /\ NoId \notin DOMAIN src
  BY DEF EndsAt, SourceInv, IsStore
<1> DEFINE Q == {Twin(x) : x \in S}
<1>4. Q \in SUBSET DOMAIN tgt /\ {Twin(i), Twin(w)} \subseteq Q
  BY <1>1, <1>2
<1>5. \A t \in Q : t = Twin(w) \/ tgt[t].by \in Q
  <2> TAKE t \in Q
  <2>1. PICK x \in S : t = Twin(x)
    OBVIOUS
  <2>2. CASE x = w
    BY <2>1, <2>2
  <2>3. CASE x # w
    <3>1. src[x].by \in S /\ src[x].by # NoId
      BY <1>2, <1>3, <2>3
    <3>2. tgt[t].by = Twin(src[x].by)
      BY <1>1, <2>1, <3>1
    <3> QED  BY <3>1, <3>2
  <2> QED  BY <2>2, <2>3
<1>6. \A t \in Q : t = Twin(i) \/ \E u \in Q : tgt[u].by = t
  <2> TAKE t \in Q
  <2>1. PICK x \in S : t = Twin(x)
    OBVIOUS
  <2>2. CASE x = i
    BY <2>1, <2>2
  <2>3. CASE x # i
    <3>1. PICK y \in S : src[y].by = x
      BY <1>2, <2>3
    <3>2. src[y].by # NoId
      BY <1>3, <3>1
    <3>3. Twin(y) \in Q /\ tgt[Twin(y)].by = t
      BY <1>1, <2>1, <3>1, <3>2
    <3> QED  BY <3>3
  <2> QED  BY <2>2, <2>3
<1>7. Twin(w) \in DOMAIN tgt /\ tgt[Twin(w)].by = NoId
  BY <1>1, <1>3
<1> HIDE DEF Q
<1> QED  BY <1>4, <1>5, <1>6, <1>7 DEF EndsAt

LEMMA AcceptedIsFaithful ==
  ASSUME SourceInv, TargetInv, Accepts(TRUE), NEW i \in DOMAIN src
  PROVE  \E t \in DOMAIN tgt :
           /\ tgt[t].of = i /\ tgt[t].eff = src[i].eff
           /\ tgt[Current(tgt, t)].of = Current(src, i)
           /\ kind = "scoped" =>
                /\ tgt[t].contract.layer = src[i].contract.layer
                /\ tgt[t].contract.expires = src[i].contract.expires
                /\ {tgt[r].of : r \in tgt[t].contract.related}
                     = src[i].contract.related
<1> DEFINE t == Twin(i)
<1>1. t \in DOMAIN tgt /\ tgt[t].of = i /\ tgt[t].eff = src[i].eff
  BY TwinsAre
<1>2. tgt[Current(tgt, t)].of = Current(src, i)
  <2>1. PICK w : EndsAt(src, i, w)
    BY ChainEnds DEF SourceInv
  <2>2. EndsAt(tgt, t, Twin(w))
    BY <2>1, TwinChains
  <2>3. Current(src, i) = w
    BY <2>1, CurrentIsTheEnd DEF SourceInv
  <2>4. Current(tgt, t) = Twin(w)
    <3> HIDE DEF t
    <3> QED  BY <2>2, CurrentIsTheEnd DEF TargetInv
  <2>5. w \in DOMAIN src
    BY <2>1 DEF EndsAt
  <2>6. tgt[Twin(w)].of = w
    BY <2>5, TwinsAre
  <2> QED  BY <2>3, <2>4, <2>6
<1>3. ASSUME kind = "scoped"
      PROVE  /\ tgt[t].contract.layer = src[i].contract.layer
             /\ tgt[t].contract.expires = src[i].contract.expires
             /\ {tgt[r].of : r \in tgt[t].contract.related}
                  = src[i].contract.related
  <2> DEFINE c == src[i].contract
  <2>1. ContractMatches(i)
    BY TwinsAre
  <2>2. tgt[t].contract = [c EXCEPT !.related = {Twin(j) : j \in c.related}]
    BY <1>3, <2>1 DEF ContractMatches
  <2>3. c \in Contract
    BY RowExcept DEF SourceInv, IsStore
  <2>4. \A X : LET d == [c EXCEPT !.related = X]
               IN d.related = X /\ d.layer = c.layer /\ d.expires = c.expires
    BY <2>3 DEF Contract
  <2>5. /\ tgt[t].contract.layer = c.layer /\ tgt[t].contract.expires = c.expires
        /\ tgt[t].contract.related = {Twin(j) : j \in c.related}
    <3> HIDE DEF c, t
    <3> QED  BY <2>2, <2>4
  <2>6. c.related \subseteq DOMAIN src
    BY TwinsAre DEF SourceInv, Sourced
  <2>7. \A j \in c.related : tgt[Twin(j)].of = j
    BY <2>6, TwinsAre
  <2>8. {tgt[r].of : r \in {Twin(j) : j \in c.related}} = c.related
    BY <2>7
  <2> QED  BY <2>5, <2>8
<1> QED  BY <1>1, <1>2, <1>3

\* A target that verify_profile_migration accepts holds a faithful copy of
\* every source record, whatever else it holds and however it came about.  The
\* verifier compares single rows; that the versions end at the same record
\* follows because a chain ends, and at one record only.
THEOREM VerifiedTargetsAreFaithful == MigrationSpec => []VerifiedIsFaithful
<1>1. MigrationInv => VerifiedIsFaithful
  BY AcceptedIsFaithful DEF MigrationInv, VerifiedIsFaithful
<1> QED  BY <1>1, MigrationInvariant, PTL
=============================================================================
