--------------------------- MODULE EnclaveProofs ---------------------------
(***************************************************************************)
(* Proofs about the protected enclave, for any number of clients,          *)
(* envelopes, challenges and sessions, any capacities and any lifetimes    *)
(* the origin's configuration accepts.                                     *)
(*                                                                         *)
(* Two facts carry them: a table entry ages together with everything that  *)
(* was given no more time than it, and a name somebody still refers to is  *)
(* never drawn again.                                                      *)
(***************************************************************************)
EXTENDS Enclave, TLAPS

----------------------------------------------------------------------------
(* The inductive invariant. *)

Names == Challenges \cup Sessions \cup {None}
Paths == {"challenge", "session", "vector"}

IsTable(t, keys, entries) ==
    /\ DOMAIN t \subseteq keys
    /\ t = [k \in DOMAIN t |-> t[k]]
    /\ \A k \in DOMAIN t : t[k] \in entries

Shields == [phase : {"none", "attested", "challenged", "open"},
            left : 0 .. AttestationTtl, arg : Names, waiting : Envelopes \cup {None}]
ClientType == client \in [Clients -> Shields]

EnvelopeType ==
    envelope \in [Envelopes -> [from : Clients \cup {None}, path : Paths \cup {None},
                                arg : Names, of : Owners \cup {None}]]

AnswerType ==
    answer \in [Envelopes -> {NoAnswer} \cup [ok : BOOLEAN, value : Names]]

TablesType ==
    /\ IsTable(challenges, Challenges, [left : 0 .. ChallengeTtl, owner : Clients])
    /\ IsTable(sessions, Sessions, [left : 0 .. SessionTtl, owner : Clients])
    /\ IsTable(seen, Envelopes, [left : 0 .. ReplayTtl])

RestType ==
    /\ net \subseteq Envelopes
    /\ files \in 0 .. StateFiles
    /\ origin \in {"down", "initializing", "up"}
    /\ origin = "initializing" => files < StateFiles
    /\ lost \subseteq Sessions
    /\ acted \in [Envelopes -> 0 .. 2]

TypeOK == ClientType /\ EnvelopeType /\ AnswerType /\ TablesType /\ RestType

\* A request under way is its sender's own and the one its shield waits for at
\* this phase; a copy of it is still on the network.
Asked(path) == CASE path = "challenge" -> "attested" [] path = "session" -> "challenged"
                 [] OTHER -> "open"
WaitInv ==
    \A c \in Clients : client[c].waiting # None =>
        LET e == client[c].waiting IN
        /\ e \in net
        /\ envelope[e].from = c
        /\ envelope[e].path \in Paths
        /\ client[c].phase = Asked(envelope[e].path)

\* What is on the network was sent by a client.
NetInv == \A e \in net : envelope[e].from \in Clients

\* The session s outlives the attestation of c, or the origin forgot it.
Honoured(c, s) ==
    client[c].left > 0 =>
        \/ s \in lost
        \/ /\ s \in DOMAIN sessions
           /\ sessions[s].owner = c
           /\ client[c].left <= sessions[s].left

OpenInv == \A c \in Clients : client[c].phase = "open" => Honoured(c, client[c].arg)

\* An answer is for a sender that waits, and a session it names is honoured.
AnswerInv ==
    \A e \in Envelopes : answer[e] # NoAnswer =>
        \E c \in Clients :
            /\ client[c].waiting = e /\ e # None
            /\ answer[e].ok /\ envelope[e].path = "session" =>
                  Honoured(c, answer[e].value)

\* What was carried out is remembered for as long as what it names lives.
Spent(e) ==
    /\ e \in net
    /\ envelope[e].path \in {"session", "vector"}
    /\ envelope[e].path = "session" => envelope[e].arg \notin DOMAIN challenges
    /\ envelope[e].path = "vector" /\ envelope[e].arg \in Live(sessions) =>
          /\ e \in DOMAIN seen
          /\ sessions[envelope[e].arg].left <= seen[e].left

ActedInv == \A e \in Envelopes : acted[e] # 0 => acted[e] = 1 /\ Spent(e)

IInv == TypeOK /\ WaitInv /\ NetInv /\ OpenInv /\ AnswerInv /\ ActedInv

----------------------------------------------------------------------------
(* Tables and names. *)

\* The lifetimes are positive numbers, none longer than an envelope is remembered.
LEMMA Lifetimes ==
    /\ ReplayTtl \in Nat
    /\ AttestationTtl \in Nat /\ 1 <= AttestationTtl /\ AttestationTtl <= ReplayTtl
    /\ ChallengeTtl \in Nat /\ 1 <= ChallengeTtl /\ ChallengeTtl <= ReplayTtl
    /\ SessionTtl \in Nat /\ 1 <= SessionTtl /\ SessionTtl <= ReplayTtl
<1>1. OriginConfig
  BY ConstantsAssumption DEF ConstantsAssumption
<1>2. /\ ReplayTtl \in Nat
      /\ AttestationTtl \in 1 .. ReplayTtl /\ ChallengeTtl \in 1 .. ReplayTtl
      /\ SessionTtl \in 1 .. ReplayTtl
  BY <1>1 DEF OriginConfig
<1>. QED
  BY <1>2

\* A purge keeps the entries that live, as they are.
LEMMA PurgedIs ==
    ASSUME NEW t, NEW keys, NEW entries, IsTable(t, keys, entries)
    PROVE /\ IsTable(Purged(t), keys, entries)
          /\ DOMAIN Purged(t) = Live(t)
          /\ Live(t) \subseteq DOMAIN t
          /\ \A k \in Live(t) : Purged(t)[k] = t[k] /\ t[k].left > 0
BY DEF IsTable, Purged, Live, Restrict

\* u is the table t, purged, with the entry r under the key k.
Added(u, t, k, r) ==
    /\ DOMAIN u = Live(t) \cup {k}
    /\ u[k] = r
    /\ \A n \in Live(t) \ {k} : u[n] = t[n]

\* What an assignment to a purged table leaves.
LEMMA EntryAdded ==
    ASSUME NEW t, NEW keys, NEW entries, IsTable(t, keys, entries),
           NEW k \in keys, NEW r \in entries
    PROVE /\ IsTable(With(Purged(t), k, r), keys, entries)
          /\ Added(With(Purged(t), k, r), t, k, r)
<1>. DEFINE u == With(Purged(t), k, r)
<1>1. /\ DOMAIN Purged(t) = Live(t) /\ Live(t) \subseteq DOMAIN t
      /\ \A n \in Live(t) : Purged(t)[n] = t[n]
  BY PurgedIs
<1>2. u = [n \in Live(t) \cup {k} |-> IF n = k THEN r ELSE Purged(t)[n]]
  BY <1>1 DEF With
<1>. HIDE DEF u
<1>3. DOMAIN u = Live(t) \cup {k} /\ u[k] = r /\ \A n \in Live(t) \ {k} : u[n] = t[n]
  BY <1>1, <1>2
<1>4. u = [n \in DOMAIN u |-> u[n]]
  BY <1>2
<1>5. IsTable(u, keys, entries) /\ Added(u, t, k, r)
  BY <1>1, <1>3, <1>4 DEF IsTable, Added
<1>. QED
  BY <1>5 DEF u

\* The replay cache after an envelope was admitted.
LEMMA RememberedIs ==
    ASSUME TablesType, NEW e \in Envelopes
    PROVE /\ IsTable(Remembered(e), Envelopes, [left : 0 .. ReplayTtl])
          /\ DOMAIN Remembered(e) = Live(seen) \cup {e}
          /\ Remembered(e)[e].left = ReplayTtl
          /\ \A f \in Live(seen) \ {e} : Remembered(e)[f] = seen[f]
<1>. DEFINE r == [left |-> ReplayTtl]
            entries == [left : 0 .. ReplayTtl]
<1>1. r \in entries /\ r.left = ReplayTtl
  BY ConstantsAssumption DEF ConstantsAssumption, OriginConfig
<1>2. IsTable(seen, Envelopes, entries)
  BY DEF TablesType
<1>3. Remembered(e) = With(Purged(seen), e, r)
  BY DEF Remembered
<1>. HIDE DEF r, entries
<1>4. IsTable(Remembered(e), Envelopes, entries) /\ Added(Remembered(e), seen, e, r)
  BY <1>1, <1>2, <1>3, EntryAdded
<1>. QED
  BY <1>1, <1>4 DEF entries, Added

\* A name in use: somebody holds it.
LEMMA HeldIs ==
    /\ \A c \in Clients : client[c].arg \in Held
    /\ \A e \in net : envelope[e].arg \in Held
    /\ \A e \in Envelopes : answer[e] # NoAnswer => answer[e].value \in Held
BY DEF Held

\* A name that is drawn is nobody's.
LEMMA FreeNameIs ==
    ASSUME NEW names, NEW table, NEW n \in FreeNames(names, table)
    PROVE n \in names /\ n \notin DOMAIN table /\ n \notin Held
BY DEF FreeNames, Least

----------------------------------------------------------------------------
(* The shield's steps: the origin's tables stay as they are. *)

\* An envelope that keeps its contents on the network stays spent.
LEMMA SpentStays ==
    ASSUME NEW e \in Envelopes, Spent(e), UNCHANGED tables,
           envelope'[e] = envelope[e], e \in net'
    PROVE Spent(e)'
BY DEF Spent, tables, Live

\* A fresh attestation leaves a shield with nothing to honour.
LEMMA AttestStep ==
    ASSUME IInv, NEW c \in Clients, Attest(c)
    PROVE IInv'
<1>1. PICK left \in 0 .. AttestationTtl : client' = [client EXCEPT ![c] = Idle("attested", left, None)]
  BY DEF Attest, Evidence
<1>. DEFINE shield == Idle("attested", left, None)
<1>2. client' = [client EXCEPT ![c] = shield]
  BY <1>1
<1>3. shield \in Shields
  BY DEF Names, Idle, Shields
<1>4. UNCHANGED <<envelope, net, answer, tables, challenges, sessions, seen, files,
                  origin, lost, acted>> /\ client[c].waiting = None
  BY DEF Attest, tables
<1>5. shield.waiting = None /\ shield.phase = "attested"
  BY DEF Idle
<1>. HIDE DEF shield
<1>6. client'[c] = shield /\ \A d \in Clients \ {c} : client'[d] = client[d]
  BY <1>2 DEF IInv, TypeOK, ClientType
<1>7. TypeOK'
  BY <1>2, <1>3, <1>4 DEF IInv, TypeOK, ClientType, EnvelopeType, AnswerType,
     TablesType, IsTable, RestType
<1>8. WaitInv' /\ NetInv'
  BY <1>4, <1>5, <1>6 DEF IInv, WaitInv, NetInv
<1>9. OpenInv'
  BY <1>4, <1>5, <1>6 DEF IInv, OpenInv, Honoured
<1>10. AnswerInv'
  <2>. SUFFICES ASSUME NEW e \in Envelopes, answer[e] # NoAnswer
                PROVE \E d \in Clients :
                        /\ client'[d].waiting = e /\ e # None
                        /\ answer[e].ok /\ envelope[e].path = "session" =>
                              Honoured(d, answer[e].value)'
    BY <1>4 DEF AnswerInv
  <2>1. PICK d \in Clients :
           /\ client[d].waiting = e /\ e # None
           /\ answer[e].ok /\ envelope[e].path = "session" => Honoured(d, answer[e].value)
    BY DEF IInv, AnswerInv
  <2>2. client'[d] = client[d]
    BY <1>4, <1>6, <2>1
  <2>3. Honoured(d, answer[e].value) => Honoured(d, answer[e].value)'
    BY <1>4, <2>2 DEF Honoured
  <2>. QED
    BY <2>1, <2>2, <2>3
<1>11. ActedInv'
  BY <1>4 DEF IInv, ActedInv, Spent, Live
<1>. QED
  BY <1>7, <1>8, <1>9, <1>10, <1>11 DEF IInv

\* A request takes an envelope nobody waits for and the network does not hold.
LEMMA SendStep ==
    ASSUME IInv, NEW c \in Clients, NEW path \in Paths, NEW arg \in Names,
           NEW of \in Owners \cup {None},
           client[c].phase = Asked(path), Send(c, path, arg, of)
    PROVE IInv'
<1>1. PICK e \in FreeEnvelopes :
         /\ client' = [client EXCEPT ![c].waiting = e]
         /\ envelope' = [envelope EXCEPT ![e] =
                           [from |-> c, path |-> path, arg |-> arg, of |-> of]]
         /\ net' = net \cup {e}
         /\ answer' = [answer EXCEPT ![e] = NoAnswer]
  BY DEF Send
<1>2. /\ UNCHANGED <<tables, challenges, sessions, seen, files, origin, lost, acted>>
      /\ client[c].waiting = None
  BY DEF Send, tables
<1>3. e \in Envelopes /\ e \notin net
  BY DEF FreeEnvelopes, Least
<1>4. /\ \A d \in Clients \ {c} : client'[d] = client[d]
      /\ client'[c].waiting = e
      /\ \A d \in Clients : /\ client'[d].phase = client[d].phase
                            /\ client'[d].left = client[d].left
                            /\ client'[d].arg = client[d].arg
  BY <1>1 DEF IInv, TypeOK, ClientType, Shields
<1>5. /\ envelope'[e].from = c /\ envelope'[e].path = path
      /\ answer'[e] = NoAnswer
      /\ \A f \in Envelopes \ {e} : envelope'[f] = envelope[f] /\ answer'[f] = answer[f]
  BY <1>1, <1>3 DEF IInv, TypeOK, EnvelopeType, AnswerType
<1>6. TypeOK'
  <2>1. ClientType'
    BY <1>1, <1>3 DEF IInv, TypeOK, ClientType, Shields
  <2>2. EnvelopeType' /\ AnswerType'
    BY <1>1, <1>3 DEF IInv, TypeOK, EnvelopeType, AnswerType
  <2>3. TablesType' /\ RestType'
    BY <1>1, <1>2, <1>3 DEF IInv, TypeOK, TablesType, IsTable, RestType
  <2>. QED
    BY <2>1, <2>2, <2>3 DEF TypeOK
<1>7. WaitInv'
  <2>. SUFFICES ASSUME NEW d \in Clients, client'[d].waiting # None
                PROVE /\ client'[d].waiting \in net'
                      /\ envelope'[client'[d].waiting].from = d
                      /\ envelope'[client'[d].waiting].path \in Paths
                      /\ client'[d].phase = Asked(envelope'[client'[d].waiting].path)
    BY DEF WaitInv, Asked
  <2>1. CASE d = c
    BY <1>1, <1>4, <1>5, <2>1 DEF Asked
  <2>2. CASE d # c
    <3>1. /\ client[d].waiting \in net /\ envelope[client[d].waiting].from = d
          /\ envelope[client[d].waiting].path \in Paths
          /\ client[d].phase = Asked(envelope[client[d].waiting].path)
          /\ client'[d] = client[d]
      BY <1>4, <2>2 DEF IInv, WaitInv
    <3>2. client[d].waiting \in Envelopes \ {e}
      BY <1>3, <3>1 DEF IInv, TypeOK, RestType
    <3>. QED
      BY <1>1, <1>5, <3>1, <3>2
  <2>. QED
    BY <2>1, <2>2
<1>8. NetInv'
  BY <1>1, <1>3, <1>5 DEF IInv, NetInv, TypeOK, RestType
<1>9. OpenInv'
  BY <1>2, <1>4 DEF IInv, OpenInv, Honoured
<1>10. AnswerInv'
  <2>. SUFFICES ASSUME NEW f \in Envelopes, answer'[f] # NoAnswer
                PROVE \E d \in Clients :
                        /\ client'[d].waiting = f /\ f # None
                        /\ answer'[f].ok /\ envelope'[f].path = "session" =>
                              Honoured(d, answer[f].value)'
    BY DEF AnswerInv
  <2>1. f # e /\ answer'[f] = answer[f] /\ envelope'[f] = envelope[f]
    BY <1>5
  <2>2. PICK d \in Clients :
           /\ client[d].waiting = f /\ f # None
           /\ answer[f].ok /\ envelope[f].path = "session" => Honoured(d, answer[f].value)
    BY <2>1 DEF IInv, AnswerInv
  <2>3. client'[d] = client[d]
    BY <1>2, <1>4, <2>2
  <2>4. Honoured(d, answer[f].value) => Honoured(d, answer[f].value)'
    BY <1>2, <2>1, <2>3 DEF Honoured
  <2>. QED
    BY <2>1, <2>2, <2>3, <2>4
<1>11. ActedInv'
  <2>. SUFFICES ASSUME NEW f \in Envelopes, acted'[f] # 0
                PROVE acted'[f] = 1 /\ Spent(f)'
    BY DEF ActedInv
  <2>1. acted[f] = 1 /\ Spent(f) /\ acted'[f] = acted[f]
    BY <1>2 DEF IInv, ActedInv
  <2>2. f \in net' /\ envelope'[f] = envelope[f]
    BY <1>1, <1>3, <1>5, <2>1 DEF Spent
  <2>. QED
    BY <1>2, <2>1, <2>2, SpentStays
<1>. QED
  BY <1>6, <1>7, <1>8, <1>9, <1>10, <1>11 DEF IInv

\* Each of the shield's requests is the one its phase allows.
LEMMA RequestStep ==
    ASSUME IInv, NEW c \in Clients,
           \/ AccessChallenge(c) \/ OpenSession(c) \/ Protect(c)
           \/ \E owner \in Owners : Similarity(c, owner)
    PROVE IInv'
<1>1. client[c].arg \in Names /\ None \in Names
  BY DEF IInv, TypeOK, ClientType, Shields, Names
<1>2. CASE AccessChallenge(c)
  BY <1>1, <1>2, SendStep DEF AccessChallenge, Paths, Asked
<1>3. CASE OpenSession(c)
  BY <1>1, <1>3, SendStep DEF OpenSession, Prove, Paths, Asked
<1>4. CASE Protect(c)
  BY <1>1, <1>4, SendStep, ConstantsAssumption DEF Protect, Paths, Asked, ConstantsAssumption
<1>5. CASE \E owner \in Owners : Similarity(c, owner)
  BY <1>1, <1>5, SendStep DEF Similarity, Paths, Asked
<1>. QED
  BY <1>2, <1>3, <1>4, <1>5

\* What an answer makes of a shield, and what a failed call leaves of it.
LEMMA ShieldAfter ==
    ASSUME NEW r \in Shields, NEW path, NEW value \in Names
    PROVE /\ Advanced(r, path, value) \in Shields
          /\ Advanced(r, path, value).waiting = None
          /\ Advanced(r, path, value).left = r.left
          /\ path = "challenge" => Advanced(r, path, value).phase = "challenged"
          /\ path = "session" => Advanced(r, path, value).arg = value
          /\ path \notin {"challenge", "session"} =>
                /\ Advanced(r, path, value).phase = r.phase
                /\ Advanced(r, path, value).arg = r.arg
          /\ Abandoned(r) \in Shields
          /\ Abandoned(r).waiting = None
          /\ Abandoned(r).phase = "open" =>
                r.phase = "open" /\ Abandoned(r).left = r.left /\ Abandoned(r).arg = r.arg
<1>1. 0 \in 0 .. AttestationTtl /\ None \in Names
  BY ConstantsAssumption DEF ConstantsAssumption, OriginConfig, Names
<1>2. CASE path = "challenge"
  BY <1>1, <1>2 DEF Advanced, Abandoned, NoShield, Shields, Idle
<1>3. CASE path = "session"
  BY <1>1, <1>3 DEF Advanced, Abandoned, NoShield, Shields, Idle
<1>4. CASE path \notin {"challenge", "session"}
  BY <1>1, <1>4 DEF Advanced, Abandoned, NoShield, Shields, Idle
<1>. QED
  BY <1>2, <1>3, <1>4

\* A call ends: the shield no longer waits, and an open one has its session.
LEMMA ReturnStep ==
    ASSUME IInv, NEW c \in Clients, NEW e, e = client[c].waiting, e # None,
           NEW shield \in Shields, shield.waiting = None,
           shield.phase = "open" =>
              shield.left = client[c].left /\ Honoured(c, shield.arg),
           client' = [client EXCEPT ![c] = shield],
           answer' = [answer EXCEPT ![e] = NoAnswer],
           IF e \in net THEN UNCHANGED <<envelope, acted>> ELSE Drop(e),
           UNCHANGED <<net, tables, files, origin, lost>>
    PROVE IInv'
<1>1. e \in net /\ e \in Envelopes /\ envelope[e].from = c
  BY DEF IInv, WaitInv, TypeOK, RestType
<1>2. UNCHANGED <<envelope, net, challenges, sessions, seen, files, origin, lost, acted>>
  BY <1>1 DEF tables
<1>3. client'[c] = shield /\ \A d \in Clients \ {c} : client'[d] = client[d]
  BY DEF IInv, TypeOK, ClientType
<1>4. answer'[e] = NoAnswer /\ \A f \in Envelopes \ {e} : answer'[f] = answer[f]
  BY <1>1 DEF IInv, TypeOK, AnswerType
<1>5. TypeOK'
  <2>1. ClientType'
    BY DEF IInv, TypeOK, ClientType
  <2>2. EnvelopeType' /\ AnswerType'
    BY <1>1, <1>2 DEF IInv, TypeOK, EnvelopeType, AnswerType
  <2>3. TablesType' /\ RestType'
    BY <1>2 DEF IInv, TypeOK, TablesType, IsTable, RestType
  <2>. QED
    BY <2>1, <2>2, <2>3 DEF TypeOK
<1>6. WaitInv' /\ NetInv'
  BY <1>2, <1>3 DEF IInv, WaitInv, NetInv
<1>7. OpenInv'
  <2>. SUFFICES ASSUME NEW d \in Clients, client'[d].phase = "open"
                PROVE Honoured(d, client[d].arg)'
    BY DEF OpenInv
  <2>1. CASE d = c
    BY <1>2, <1>3, <2>1 DEF Honoured
  <2>2. CASE d # c
    BY <1>2, <1>3, <2>2 DEF IInv, OpenInv, Honoured
  <2>. QED
    BY <2>1, <2>2
<1>8. AnswerInv'
  <2>. SUFFICES ASSUME NEW f \in Envelopes, answer'[f] # NoAnswer
                PROVE \E d \in Clients :
                        /\ client'[d].waiting = f /\ f # None
                        /\ answer'[f].ok /\ envelope'[f].path = "session" =>
                              Honoured(d, answer[f].value)'
    BY DEF AnswerInv
  <2>1. f # e /\ answer'[f] = answer[f] /\ envelope'[f] = envelope[f]
    BY <1>2, <1>4
  <2>2. PICK d \in Clients :
           /\ client[d].waiting = f /\ f # None
           /\ answer[f].ok /\ envelope[f].path = "session" => Honoured(d, answer[f].value)
    BY <2>1 DEF IInv, AnswerInv
  <2>3. client'[d] = client[d]
    BY <1>3, <2>1, <2>2
  <2>4. Honoured(d, answer[f].value) => Honoured(d, answer[f].value)'
    BY <1>2, <2>1, <2>3 DEF Honoured
  <2>. QED
    BY <2>1, <2>2, <2>3, <2>4
<1>9. ActedInv'
  BY <1>2 DEF IInv, ActedInv, Spent, Live
<1>. QED
  BY <1>5, <1>6, <1>7, <1>8, <1>9 DEF IInv

\* The answer comes back to the shield that asked.
LEMMA ReceiveStep ==
    ASSUME IInv, NEW c \in Clients, Receive(c)
    PROVE IInv'
<1>. DEFINE e == client[c].waiting
            r == client[c]
            path == envelope[e].path
            value == answer[e].value
            shield == IF answer[e].ok THEN Advanced(r, path, value) ELSE Abandoned(r)
<1>1. /\ e # None /\ answer[e] # NoAnswer
      /\ client' = [client EXCEPT ![c] = shield]
      /\ answer' = [answer EXCEPT ![e] = NoAnswer]
      /\ IF e \in net THEN UNCHANGED <<envelope, acted>> ELSE Drop(e)
      /\ UNCHANGED <<net, tables, files, origin, lost>>
  BY DEF Receive
<1>2. /\ e \in Envelopes /\ envelope[e].from = c /\ envelope[e].path \in Paths
      /\ r.phase = Asked(envelope[e].path)
  BY <1>1 DEF IInv, WaitInv, TypeOK, RestType
<1>3. r \in Shields /\ answer[e].value \in Names
  BY <1>1, <1>2 DEF IInv, TypeOK, ClientType, AnswerType
<1>4. answer[e].ok /\ envelope[e].path = "session" => Honoured(c, answer[e].value)
  <2>1. PICK d \in Clients :
           /\ client[d].waiting = e
           /\ answer[e].ok /\ envelope[e].path = "session" => Honoured(d, answer[e].value)
    BY <1>1, <1>2 DEF IInv, AnswerInv
  <2>2. d = c
    BY <1>1, <1>2, <2>1 DEF IInv, WaitInv
  <2>. QED
    BY <2>1, <2>2
<1>5. r.phase = "open" => Honoured(c, r.arg)
  BY DEF IInv, OpenInv
<1>. HIDE DEF e, r, path, value
<1>6. CASE answer[e].ok
  <2>1. shield = Advanced(r, path, value)
    BY <1>6
  <2>. HIDE DEF shield
  <2>2. r \in Shields /\ value \in Names
    BY <1>3 DEF value
  <2>3. shield \in Shields /\ shield.waiting = None /\ shield.left = r.left
    BY <2>1, <2>2, ShieldAfter
  <2>4. shield.phase = "open" => Honoured(c, shield.arg)
    <3>1. CASE path = "challenge"
      BY <2>1, <2>2, <3>1, ShieldAfter
    <3>2. CASE path = "session"
      <4>1. shield.arg = value
        BY <2>1, <2>2, <3>2, ShieldAfter
      <4>. QED
        BY <1>4, <1>6, <3>2, <4>1 DEF path, value
    <3>3. CASE path = "vector"
      BY <1>5, <2>1, <2>2, <3>3, ShieldAfter
    <3>. QED
      BY <1>2, <3>1, <3>2, <3>3 DEF Paths, path
  <2>. QED
    BY <1>1, <2>3, <2>4, ReturnStep DEF e, r
<1>7. CASE ~answer[e].ok
  <2>1. shield = Abandoned(r)
    BY <1>7
  <2>. HIDE DEF shield
  <2>2. /\ shield \in Shields /\ shield.waiting = None
        /\ shield.phase = "open" => shield.left = r.left /\ Honoured(c, shield.arg)
    BY <1>3, <1>5, <2>1, ShieldAfter
  <2>. QED
    BY <1>1, <2>2, ReturnStep DEF e, r
<1>. QED
  BY <1>6, <1>7

\* The call fails at the shield, whatever became of the envelope.
LEMMA FailStep ==
    ASSUME IInv, NEW c \in Clients, Fail(c)
    PROVE IInv'
<1>. DEFINE e == client[c].waiting
            r == client[c]
            shield == Abandoned(r)
<1>1. /\ e # None
      /\ client' = [client EXCEPT ![c] = shield]
      /\ answer' = [answer EXCEPT ![e] = NoAnswer]
      /\ IF e \in net THEN UNCHANGED <<envelope, acted>> ELSE Drop(e)
      /\ UNCHANGED <<net, tables, files, origin, lost>>
  BY DEF Fail
<1>2. r \in Shields /\ None \in Names
  BY DEF IInv, TypeOK, ClientType, Names
<1>3. r.phase = "open" => Honoured(c, r.arg)
  BY DEF IInv, OpenInv
<1>. HIDE DEF e, r
<1>4. /\ shield \in Shields /\ shield.waiting = None
      /\ shield.phase = "open" => shield.left = r.left /\ Honoured(c, shield.arg)
  BY <1>2, <1>3, ShieldAfter
<1>. HIDE DEF shield
<1>. QED
  BY <1>1, <1>4, ReturnStep DEF e, r

\* A copy is lost that nobody waits for.
LEMMA LoseStep ==
    ASSUME IInv, NEW e \in Envelopes, Lose(e)
    PROVE IInv'
<1>1. /\ e \in net /\ net' = net \ {e}
      /\ UNCHANGED <<client, answer, tables, challenges, sessions, seen, files, origin, lost>>
      /\ envelope' = [envelope EXCEPT ![e] = NoEnvelope]
      /\ acted' = [acted EXCEPT ![e] = 0]
  BY DEF Lose, Drop, tables
<1>2. \A c \in Clients : client[c].waiting # None => client[c].waiting # e
  BY DEF Lose, Waiting
<1>3. /\ acted'[e] = 0
      /\ \A f \in Envelopes \ {e} : envelope'[f] = envelope[f] /\ acted'[f] = acted[f]
  BY <1>1 DEF IInv, TypeOK, EnvelopeType, RestType
<1>4. TypeOK'
  <2>1. ClientType' /\ AnswerType' /\ TablesType'
    BY <1>1 DEF IInv, TypeOK, ClientType, AnswerType, TablesType, IsTable
  <2>2. EnvelopeType'
    BY <1>1 DEF IInv, TypeOK, EnvelopeType, NoEnvelope, Names
  <2>3. RestType'
    BY <1>1 DEF IInv, TypeOK, RestType
  <2>. QED
    BY <2>1, <2>2, <2>3 DEF TypeOK
<1>5. WaitInv'
  <2>. SUFFICES ASSUME NEW d \in Clients, client[d].waiting # None
                PROVE /\ client[d].waiting \in net'
                      /\ envelope'[client[d].waiting] = envelope[client[d].waiting]
    BY <1>1 DEF IInv, WaitInv, Asked
  <2>. QED
    BY <1>1, <1>2, <1>3 DEF IInv, WaitInv, TypeOK, RestType
<1>6. NetInv'
  BY <1>1, <1>3 DEF IInv, NetInv, TypeOK, RestType
<1>7. OpenInv'
  BY <1>1 DEF IInv, OpenInv, Honoured
<1>8. AnswerInv'
  <2>. SUFFICES ASSUME NEW f \in Envelopes, answer[f] # NoAnswer
                PROVE \E d \in Clients :
                        /\ client[d].waiting = f /\ f # None
                        /\ answer[f].ok /\ envelope'[f].path = "session" =>
                              Honoured(d, answer[f].value)'
    BY <1>1 DEF AnswerInv
  <2>1. PICK d \in Clients :
           /\ client[d].waiting = f /\ f # None
           /\ answer[f].ok /\ envelope[f].path = "session" => Honoured(d, answer[f].value)
    BY DEF IInv, AnswerInv
  <2>2. envelope'[f] = envelope[f]
    BY <1>2, <1>3, <2>1
  <2>3. Honoured(d, answer[f].value) => Honoured(d, answer[f].value)'
    BY <1>1 DEF Honoured
  <2>. QED
    BY <2>1, <2>2, <2>3
<1>9. ActedInv'
  <2>. SUFFICES ASSUME NEW f \in Envelopes, acted'[f] # 0
                PROVE acted'[f] = 1 /\ Spent(f)'
    BY DEF ActedInv
  <2>1. f # e /\ acted'[f] = acted[f] /\ envelope'[f] = envelope[f]
    BY <1>3
  <2>2. acted[f] = 1 /\ Spent(f)
    BY <2>1 DEF IInv, ActedInv
  <2>3. f \in net'
    BY <1>1, <2>1, <2>2 DEF Spent
  <2>. QED
    BY <1>1, <2>1, <2>2, <2>3, SpentStays
<1>. QED
  BY <1>4, <1>5, <1>6, <1>7, <1>8, <1>9 DEF IInv

----------------------------------------------------------------------------
(* The origin's steps: the shields, the envelopes and the network stay. *)

\* What a step of the origin does to its tables, as far as a name in use can
\* tell: a live session stays, no name in use comes back, and the replay cache
\* remembers what it remembered.
SessionsKept ==
    /\ \A s \in DOMAIN sessions : sessions[s].left > 0 =>
          s \in DOMAIN sessions' /\ sessions'[s] = sessions[s]
    /\ \A s \in DOMAIN sessions' : s \in Held =>
          s \in DOMAIN sessions /\ sessions'[s] = sessions[s]

ChallengesKept == \A ch \in DOMAIN challenges' : ch \in Held => ch \in DOMAIN challenges

SeenKept ==
    \A f \in DOMAIN seen : seen[f].left > 0 =>
        f \in DOMAIN seen' /\ seen[f].left <= seen'[f].left

TablesKept ==
    /\ SessionsKept /\ ChallengesKept /\ SeenKept
    /\ \A s \in lost : s \in Held => s \in lost'

\* A session somebody refers to stays honoured.
LEMMA HonouredKept ==
    ASSUME IInv, TablesKept, UNCHANGED client, NEW c \in Clients, NEW s,
           s \in Held, Honoured(c, s)
    PROVE Honoured(c, s)'
<1>. SUFFICES ASSUME client[c].left > 0
              PROVE \/ s \in lost'
                    \/ /\ s \in DOMAIN sessions'
                       /\ sessions'[s].owner = c
                       /\ client[c].left <= sessions'[s].left
  BY DEF Honoured
<1>1. CASE s \in lost
  BY <1>1 DEF TablesKept
<1>2. CASE /\ s \in DOMAIN sessions
           /\ sessions[s].owner = c
           /\ client[c].left <= sessions[s].left
  <2>1. client[c].left \in Nat /\ sessions[s].left \in Nat
    BY <1>2, ConstantsAssumption
       DEF IInv, TypeOK, ClientType, Shields, TablesType, IsTable,
           ConstantsAssumption, OriginConfig
  <2>2. sessions[s].left > 0
    BY <1>2, <2>1
  <2>. QED
    BY <1>2, <2>2 DEF TablesKept, SessionsKept
<1>. QED
  BY <1>1, <1>2 DEF Honoured

\* What was carried out stays remembered for long enough.
LEMMA SpentKept ==
    ASSUME IInv, TablesKept, TablesType', UNCHANGED <<envelope, net>>,
           NEW e \in Envelopes, Spent(e)
    PROVE Spent(e)'
<1>. DEFINE a == envelope[e].arg
<1>1. a \in Held /\ e \in net
  BY HeldIs DEF Spent
<1>2. envelope[e].path = "session" => a \notin DOMAIN challenges'
  BY <1>1 DEF Spent, TablesKept, ChallengesKept
<1>3. ASSUME envelope[e].path = "vector", a \in DOMAIN sessions', sessions'[a].left > 0
      PROVE e \in DOMAIN seen' /\ sessions'[a].left <= seen'[e].left
  <2>1. a \in DOMAIN sessions /\ sessions'[a] = sessions[a]
    BY <1>1, <1>3 DEF TablesKept, SessionsKept
  <2>2. e \in DOMAIN seen /\ sessions[a].left <= seen[e].left
    BY <1>3, <2>1 DEF Spent, Live
  <2>3. sessions[a].left \in Nat /\ seen[e].left \in Nat
    BY <2>1, <2>2, ConstantsAssumption
       DEF IInv, TypeOK, TablesType, IsTable, ConstantsAssumption, OriginConfig
  <2>4. seen[e].left > 0
    BY <1>3, <2>1, <2>2, <2>3
  <2>5. e \in DOMAIN seen' /\ seen[e].left <= seen'[e].left
    BY <2>2, <2>4 DEF TablesKept, SeenKept
  <2>6. seen'[e].left \in Nat
    BY <2>5, ConstantsAssumption DEF TablesType, IsTable, ConstantsAssumption, OriginConfig
  <2>. QED
    BY <2>1, <2>2, <2>3, <2>5, <2>6
<1>. QED
  BY <1>1, <1>2, <1>3 DEF Spent, Live

\* A step of the origin that keeps its tables, answers the sender of e if it
\* waits, and carries out e if it was not carried out before.
LEMMA OriginStep ==
    ASSUME IInv, NEW e \in net, NEW a \in [ok : BOOLEAN, value : Names],
           TablesType', RestType', TablesKept, UNCHANGED <<client, envelope, net>>,
           Replied(e, a),
           a.ok /\ envelope[e].path = "session" =>
              \A c : c = envelope[e].from => Honoured(c, a.value)',
           \/ UNCHANGED acted
           \/ acted[e] = 0 /\ CarriedOut(e) /\ Spent(e)'
    PROVE IInv'
<1>1. e \in Envelopes
  BY DEF IInv, TypeOK, RestType
<1>2. \A f \in Envelopes : \/ answer'[f] = answer[f]
                           \/ f = e /\ answer'[f] = a /\ e \in Waiting
  BY <1>1 DEF Replied, IInv, TypeOK, AnswerType
<1>3. TypeOK'
  <2>1. AnswerType'
    BY <1>1 DEF Replied, IInv, TypeOK, AnswerType
  <2>2. ClientType' /\ EnvelopeType'
    BY DEF IInv, TypeOK, ClientType, EnvelopeType
  <2>. QED
    BY <2>1, <2>2 DEF TypeOK
<1>4. WaitInv' /\ NetInv'
  BY DEF IInv, WaitInv, NetInv
<1>5. OpenInv'
  <2>. SUFFICES ASSUME NEW d \in Clients, client[d].phase = "open",
                       NEW s, s = client[d].arg
                PROVE Honoured(d, s)'
    BY DEF OpenInv, Honoured
  <2>1. s \in Held /\ Honoured(d, s)
    BY HeldIs DEF IInv, OpenInv
  <2>. QED
    BY <2>1, HonouredKept
<1>6. AnswerInv'
  <2>. SUFFICES ASSUME NEW f \in Envelopes, answer'[f] # NoAnswer
                PROVE \E d \in Clients :
                        /\ client[d].waiting = f /\ f # None
                        /\ answer'[f].ok /\ envelope[f].path = "session" =>
                              \A v : v = answer'[f].value => Honoured(d, v)'
    BY DEF AnswerInv, Honoured
  <2>1. CASE answer'[f] = answer[f]
    <3>1. PICK d \in Clients :
             /\ client[d].waiting = f /\ f # None
             /\ answer[f].ok /\ envelope[f].path = "session" => Honoured(d, answer[f].value)
      BY <2>1 DEF IInv, AnswerInv
    <3>2. ASSUME NEW v, v = answer[f].value, Honoured(d, v)
          PROVE Honoured(d, v)'
      <4>1. v \in Held
        BY <2>1, <3>2, HeldIs
      <4>. QED
        BY <3>2, <4>1, HonouredKept
    <3>. QED
      BY <2>1, <3>1, <3>2
  <2>2. CASE f = e /\ answer'[f] = a /\ e \in Waiting
    <3>1. PICK d \in Clients : client[d].waiting = e /\ e # None
      BY <2>2 DEF Waiting
    <3>2. envelope[e].from = d
      BY <3>1 DEF IInv, WaitInv
    <3>3. a.ok /\ envelope[e].path = "session" => Honoured(d, a.value)'
      BY <3>2
    <3>. QED
      BY <2>2, <3>1, <3>3
  <2>. QED
    BY <1>2, <2>1, <2>2
<1>7. ActedInv'
  <2>. SUFFICES ASSUME NEW f \in Envelopes, acted'[f] # 0
                PROVE acted'[f] = 1 /\ Spent(f)'
    BY DEF ActedInv
  <2>1. CASE acted'[f] = acted[f]
    BY <2>1, SpentKept DEF IInv, ActedInv
  <2>2. CASE acted'[f] # acted[f]
    <3>1. f = e /\ acted[e] = 0 /\ Spent(e)' /\ acted' = [acted EXCEPT ![e] = 1]
      BY <1>1, <2>2 DEF CarriedOut, IInv, TypeOK, RestType
    <3>. QED
      BY <1>1, <3>1 DEF IInv, TypeOK, RestType
  <2>. QED
    BY <2>1, <2>2
<1>. QED
  BY <1>3, <1>4, <1>5, <1>6, <1>7 DEF IInv

ChallengeEntries == [left : 0 .. ChallengeTtl, owner : Clients]
SessionEntries == [left : 0 .. SessionTtl, owner : Clients]
SeenEntries == [left : 0 .. ReplayTtl]

\* Expired sessions are purged.
LEMMA SessionsPurged ==
    ASSUME IInv, sessions' = Purged(sessions)
    PROVE SessionsKept /\ IsTable(sessions', Sessions, SessionEntries)
<1>1. IsTable(sessions, Sessions, SessionEntries)
  BY DEF IInv, TypeOK, TablesType, SessionEntries
<1>2. /\ IsTable(sessions', Sessions, SessionEntries)
      /\ DOMAIN sessions' = Live(sessions)
      /\ Live(sessions) \subseteq DOMAIN sessions
      /\ \A s \in Live(sessions) : sessions'[s] = sessions[s]
  BY <1>1, PurgedIs
<1>. QED
  BY <1>2 DEF SessionsKept, Live

\* A session is opened under a name nobody holds.
LEMMA SessionOpened ==
    ASSUME IInv, NEW s \in FreeNames(Sessions, sessions), NEW r \in SessionEntries,
           sessions' = With(Purged(sessions), s, r)
    PROVE /\ SessionsKept /\ IsTable(sessions', Sessions, SessionEntries)
          /\ s \in DOMAIN sessions' /\ sessions'[s] = r
          /\ s \notin Held
<1>1. IsTable(sessions, Sessions, SessionEntries)
  BY DEF IInv, TypeOK, TablesType, SessionEntries
<1>2. s \in Sessions /\ s \notin DOMAIN sessions /\ s \notin Held
  BY FreeNameIs
<1>3. IsTable(sessions', Sessions, SessionEntries) /\ Added(sessions', sessions, s, r)
  BY <1>1, <1>2, EntryAdded
<1>. QED
  BY <1>2, <1>3 DEF Added, SessionsKept, Live

\* Expired challenges are purged.
LEMMA ChallengesPurged ==
    ASSUME IInv, challenges' = Purged(challenges)
    PROVE ChallengesKept /\ IsTable(challenges', Challenges, ChallengeEntries)
<1>1. IsTable(challenges, Challenges, ChallengeEntries)
  BY DEF IInv, TypeOK, TablesType, ChallengeEntries
<1>2. /\ IsTable(challenges', Challenges, ChallengeEntries)
      /\ DOMAIN challenges' = Live(challenges)
      /\ Live(challenges) \subseteq DOMAIN challenges
  BY <1>1, PurgedIs
<1>. QED
  BY <1>2 DEF ChallengesKept

\* A challenge is issued under a name nobody holds.
LEMMA ChallengeIssued ==
    ASSUME IInv, NEW ch \in FreeNames(Challenges, challenges), NEW r \in ChallengeEntries,
           challenges' = With(Purged(challenges), ch, r)
    PROVE ChallengesKept /\ IsTable(challenges', Challenges, ChallengeEntries)
<1>1. IsTable(challenges, Challenges, ChallengeEntries)
  BY DEF IInv, TypeOK, TablesType, ChallengeEntries
<1>2. ch \in Challenges /\ ch \notin DOMAIN challenges /\ ch \notin Held
  BY FreeNameIs
<1>3. IsTable(challenges', Challenges, ChallengeEntries) /\ Added(challenges', challenges, ch, r)
  BY <1>1, <1>2, EntryAdded
<1>. QED
  BY <1>2, <1>3 DEF Added, ChallengesKept, Live

\* A challenge is consumed.
LEMMA ChallengeUsed ==
    ASSUME IInv, NEW ch, challenges' = Without(Purged(challenges), ch)
    PROVE /\ ChallengesKept /\ IsTable(challenges', Challenges, ChallengeEntries)
          /\ ch \notin DOMAIN challenges'
<1>. DEFINE t == Purged(challenges)
<1>1. IsTable(challenges, Challenges, ChallengeEntries)
  BY DEF IInv, TypeOK, TablesType, ChallengeEntries
<1>2. /\ IsTable(t, Challenges, ChallengeEntries)
      /\ DOMAIN t = Live(challenges)
      /\ Live(challenges) \subseteq DOMAIN challenges
  BY <1>1, PurgedIs
<1>3. challenges' = [k \in DOMAIN t \ {ch} |-> t[k]]
  BY DEF Without, Restrict
<1>. HIDE DEF t
<1>. QED
  BY <1>2, <1>3 DEF ChallengesKept, IsTable

\* The replay cache is purged, or remembers an envelope it did not hold.
LEMMA SeenPurged ==
    ASSUME IInv, seen' = Purged(seen)
    PROVE SeenKept /\ IsTable(seen', Envelopes, SeenEntries)
<1>1. IsTable(seen, Envelopes, SeenEntries)
  BY DEF IInv, TypeOK, TablesType, SeenEntries
<1>2. /\ IsTable(seen', Envelopes, SeenEntries)
      /\ DOMAIN seen' = Live(seen)
      /\ \A e \in Live(seen) : seen'[e] = seen[e]
  BY <1>1, PurgedIs
<1>3. \A e \in DOMAIN seen : seen[e].left \in Nat
  BY <1>1, ConstantsAssumption DEF IsTable, SeenEntries, ConstantsAssumption, OriginConfig
<1>. QED
  BY <1>2, <1>3 DEF SeenKept, Live

LEMMA EnvelopeSeen ==
    ASSUME IInv, NEW e \in Envelopes, Admits(e), seen' = Remembered(e)
    PROVE /\ SeenKept /\ IsTable(seen', Envelopes, SeenEntries)
          /\ e \in DOMAIN seen' /\ seen'[e].left = ReplayTtl
<1>1. IsTable(seen, Envelopes, SeenEntries) /\ TablesType
  BY DEF IInv, TypeOK, TablesType, SeenEntries
<1>2. /\ IsTable(seen', Envelopes, SeenEntries)
      /\ DOMAIN seen' = Live(seen) \cup {e}
      /\ seen'[e].left = ReplayTtl
      /\ \A f \in Live(seen) \ {e} : seen'[f] = seen[f]
  BY <1>1, RememberedIs DEF SeenEntries
<1>3. \A f \in DOMAIN seen : seen[f].left \in Nat
  BY <1>1, ConstantsAssumption DEF IsTable, SeenEntries, ConstantsAssumption, OriginConfig
<1>4. e \notin Live(seen)
  BY DEF Admits
<1>. QED
  BY <1>2, <1>3, <1>4 DEF SeenKept, Live

\* The origin's three tables, put together.
LEMMA TablesTogether ==
    ASSUME IsTable(challenges', Challenges, ChallengeEntries),
           IsTable(sessions', Sessions, SessionEntries),
           IsTable(seen', Envelopes, SeenEntries)
    PROVE TablesType'
BY DEF TablesType, IsTable, ChallengeEntries, SessionEntries, SeenEntries

LEMMA Refuses == Refusal \in [ok : BOOLEAN, value : Names] /\ ~Refusal.ok
BY DEF Refusal, Names

LEMMA RefuseStep ==
    ASSUME IInv, NEW e \in Envelopes, RefuseEnvelope(e)
    PROVE IInv'
<1>1. /\ e \in net /\ UNCHANGED <<client, envelope, net, files, origin, lost, acted>>
      /\ challenges' = Purged(challenges) /\ sessions' = Purged(sessions)
      /\ seen' = Purged(seen) /\ Replied(e, Refusal)
  BY DEF RefuseEnvelope, Serving
<1>2. TablesKept /\ TablesType'
  BY <1>1, SessionsPurged, ChallengesPurged, SeenPurged, TablesTogether DEF TablesKept
<1>3. RestType'
  BY <1>1 DEF IInv, TypeOK, RestType
<1>. QED
  BY <1>1, <1>2, <1>3, Refuses, OriginStep

LEMMA ServeChallengeStep ==
    ASSUME IInv, NEW e \in Envelopes, ServeChallenge(e)
    PROVE IInv'
<1>1. /\ e \in net /\ UNCHANGED <<client, envelope, net, files, origin, lost, acted>>
      /\ envelope[e].path = "challenge" /\ Admits(e)
      /\ sessions' = Purged(sessions) /\ seen' = Remembered(e)
  BY DEF ServeChallenge, Serving
<1>2. /\ SessionsKept /\ IsTable(sessions', Sessions, SessionEntries)
      /\ SeenKept /\ IsTable(seen', Envelopes, SeenEntries)
  BY <1>1, SessionsPurged, EnvelopeSeen
<1>3. RestType'
  BY <1>1 DEF IInv, TypeOK, RestType
<1>4. CASE challenges' = Purged(challenges) /\ Replied(e, Refusal)
  <2>1. TablesKept /\ TablesType'
    BY <1>1, <1>2, <1>4, ChallengesPurged, TablesTogether DEF TablesKept
  <2>. QED
    BY <1>1, <1>3, <1>4, <2>1, Refuses, OriginStep
<1>5. ASSUME NEW ch \in FreeNames(Challenges, challenges),
             challenges' = With(Purged(challenges), ch,
                              [left |-> ChallengeTtl, owner |-> envelope[e].from]),
             Replied(e, [ok |-> TRUE, value |-> ch])
      PROVE IInv'
  <2>. DEFINE r == [left |-> ChallengeTtl, owner |-> envelope[e].from]
              a == [ok |-> TRUE, value |-> ch]
  <2>1. r \in ChallengeEntries
    BY <1>1, ConstantsAssumption
       DEF IInv, NetInv, ChallengeEntries, ConstantsAssumption, OriginConfig
  <2>2. a \in [ok : BOOLEAN, value : Names]
    BY FreeNameIs DEF Names
  <2>. HIDE DEF r, a
  <2>3. ChallengesKept /\ IsTable(challenges', Challenges, ChallengeEntries)
    BY <1>5, <2>1, ChallengeIssued DEF r
  <2>4. TablesKept /\ TablesType'
    BY <1>1, <1>2, <2>3, TablesTogether DEF TablesKept
  <2>5. Replied(e, a)
    BY <1>5 DEF a
  <2>. QED
    BY <1>1, <1>3, <2>2, <2>4, <2>5, OriginStep
<1>. QED
  BY <1>4, <1>5 DEF ServeChallenge

LEMMA ServeSessionStep ==
    ASSUME IInv, NEW e \in Envelopes, NEW proofVerified \in BOOLEAN,
           ServeSession(e, proofVerified)
    PROVE IInv'
<1>. DEFINE ch == envelope[e].arg
            known == ch \in Live(challenges) /\ challenges[ch].owner = envelope[e].from
            opens == known /\ Cardinality(Live(sessions)) < MaxSessions
<1>1. /\ e \in net /\ UNCHANGED <<client, envelope, net, files, origin>>
      /\ envelope[e].path = "session" /\ Admits(e) /\ seen' = Remembered(e)
      /\ challenges' = IF proofVerified THEN Without(Purged(challenges), ch)
                                        ELSE Purged(challenges)
  BY DEF ServeSession, Serving
<1>2. /\ SeenKept /\ IsTable(seen', Envelopes, SeenEntries)
      /\ ChallengesKept /\ IsTable(challenges', Challenges, ChallengeEntries)
      /\ proofVerified => ch \notin DOMAIN challenges'
  BY <1>1, EnvelopeSeen, ChallengesPurged, ChallengeUsed
<1>3. CASE sessions' = Purged(sessions) /\ Replied(e, Refusal) /\ UNCHANGED <<acted, lost>>
  <2>1. TablesKept /\ TablesType'
    BY <1>2, <1>3, SessionsPurged, TablesTogether DEF TablesKept
  <2>2. RestType'
    BY <1>1, <1>3 DEF IInv, TypeOK, RestType
  <2>. QED
    BY <1>1, <1>3, <2>1, <2>2, Refuses, OriginStep
<1>4. ASSUME proofVerified, opens, NEW s \in FreeNames(Sessions, sessions),
             sessions' = With(Purged(sessions), s,
                            [left |-> SessionTtl, owner |-> envelope[e].from]),
             Replied(e, [ok |-> TRUE, value |-> s]),
             CarriedOut(e), lost' = lost \ {s}
      PROVE IInv'
  <2>. DEFINE r == [left |-> SessionTtl, owner |-> envelope[e].from]
              a == [ok |-> TRUE, value |-> s]
  <2>1. /\ r \in SessionEntries /\ r.owner = envelope[e].from /\ r.left = SessionTtl
        /\ envelope[e].from \in Clients
    BY <1>1, ConstantsAssumption
       DEF IInv, NetInv, SessionEntries, ConstantsAssumption, OriginConfig
  <2>2. a \in [ok : BOOLEAN, value : Names] /\ a.value = s
    BY FreeNameIs DEF Names
  <2>. HIDE DEF r, a
  <2>3. /\ SessionsKept /\ IsTable(sessions', Sessions, SessionEntries)
        /\ s \in DOMAIN sessions' /\ sessions'[s] = r /\ s \notin Held
    BY <1>4, <2>1, SessionOpened DEF r
  <2>4. TablesKept /\ TablesType'
    BY <1>2, <1>4, <2>3, TablesTogether DEF TablesKept
  <2>5. acted[e] = 0
    BY <1>1, <1>4 DEF IInv, ActedInv, Spent, TypeOK, TablesType, IsTable, Live
  <2>6. RestType'
    BY <1>1, <1>4, <2>5 DEF IInv, TypeOK, RestType, CarriedOut
  <2>7. \A c : c = envelope[e].from => Honoured(c, a.value)'
    <3>. SUFFICES ASSUME NEW c \in Clients, c = envelope[e].from
                  PROVE Honoured(c, s)'
      BY <2>1, <2>2
    <3>1. client[c].left <= SessionTtl
      <4>1. client[c].left \in 0 .. AttestationTtl
        BY DEF IInv, TypeOK, ClientType, Shields
      <4>2. AttestationTtl \in Nat /\ SessionTtl \in Nat
        BY Lifetimes
      <4>3. AttestationTtl <= SessionTtl
        BY ConstantsAssumption DEF ConstantsAssumption
      <4>. QED
        BY <4>1, <4>2, <4>3
    <3>. QED
      BY <1>1, <2>1, <2>3, <3>1 DEF Honoured
  <2>8. Spent(e)'
    BY <1>1, <1>2, <1>4 DEF Spent
  <2>9. Replied(e, a)
    BY <1>4 DEF a
  <2>. QED
    BY <1>1, <1>4, <2>2, <2>4, <2>5, <2>6, <2>7, <2>8, <2>9, OriginStep
<1>. QED
  BY <1>3, <1>4 DEF ServeSession

LEMMA ServeVectorStep ==
    ASSUME IInv, NEW e \in Envelopes, NEW engineWorks \in BOOLEAN,
           ServeVector(e, engineWorks)
    PROVE IInv'
<1>. DEFINE s == envelope[e].arg
            a == [ok |-> TRUE, value |-> None]
<1>1. /\ e \in net /\ UNCHANGED <<client, envelope, net, files, origin, lost>>
      /\ envelope[e].path = "vector" /\ Admits(e) /\ seen' = Remembered(e)
      /\ challenges' = Purged(challenges) /\ sessions' = Purged(sessions)
  BY DEF ServeVector, Serving
<1>2. TablesKept /\ TablesType'
  BY <1>1, EnvelopeSeen, ChallengesPurged, SessionsPurged, TablesTogether DEF TablesKept
<1>3. a \in [ok : BOOLEAN, value : Names]
  BY DEF Names
<1>. HIDE DEF a
<1>4. CASE Replied(e, Refusal) /\ UNCHANGED acted
  <2>1. RestType'
    BY <1>1, <1>4 DEF IInv, TypeOK, RestType
  <2>. QED
    BY <1>1, <1>2, <1>4, <2>1, Refuses, OriginStep
<1>5. CASE s \in Live(sessions) /\ Replied(e, a) /\ CarriedOut(e)
  <2>1. acted[e] = 0
    <3>. SUFFICES ASSUME acted[e] # 0 PROVE FALSE
      OBVIOUS
    <3>1. /\ e \in DOMAIN seen /\ sessions[s].left <= seen[e].left
          /\ s \in DOMAIN sessions /\ sessions[s].left > 0
      BY <1>1, <1>5 DEF IInv, ActedInv, Spent, Live
    <3>2. sessions[s].left \in Nat /\ seen[e].left \in Nat
      BY <3>1, ConstantsAssumption
         DEF IInv, TypeOK, TablesType, IsTable, ConstantsAssumption, OriginConfig
    <3>3. e \in Live(seen)
      BY <3>1, <3>2 DEF Live
    <3>. QED
      BY <1>1, <3>3 DEF Admits
  <2>2. RestType'
    BY <1>1, <1>5, <2>1 DEF IInv, TypeOK, RestType, CarriedOut
  <2>3. e \in DOMAIN seen' /\ seen'[e].left = ReplayTtl
    BY <1>1, EnvelopeSeen
  <2>4. s \in DOMAIN sessions' => sessions'[s].left <= ReplayTtl
    BY <1>2, ConstantsAssumption DEF TablesType, IsTable, ConstantsAssumption, OriginConfig
  <2>5. Spent(e)'
    BY <1>1, <2>3, <2>4 DEF Spent, Live
  <2>. QED
    BY <1>1, <1>2, <1>3, <1>5, <2>1, <2>2, <2>5, OriginStep
<1>6. \/ Replied(e, Refusal) /\ UNCHANGED acted
      \/ s \in Live(sessions) /\ Replied(e, a) /\ CarriedOut(e)
  BY Zenon DEF ServeVector, a
<1>. QED
  BY <1>4, <1>5, <1>6

----------------------------------------------------------------------------
(* Starting, stopping and the passing of time. *)

\* Starting the origin and writing its state files touches nothing else.
LEMMA StartStep ==
    ASSUME IInv, NEW initialize \in BOOLEAN, Start(initialize) \/ WriteStateFile
    PROVE IInv'
<1>1. UNCHANGED <<client, envelope, net, answer, challenges, sessions, seen, lost, acted>>
  BY DEF Start, WriteStateFile, tables
<1>2. RestType'
  BY <1>1 DEF IInv, TypeOK, RestType, Start, WriteStateFile, StateFiles
<1>3. TypeOK'
  BY <1>1, <1>2 DEF IInv, TypeOK, ClientType, EnvelopeType, AnswerType, TablesType, IsTable
<1>4. WaitInv' /\ NetInv' /\ OpenInv'
  BY <1>1 DEF IInv, WaitInv, NetInv, OpenInv, Honoured
<1>5. AnswerInv' /\ ActedInv'
  BY <1>1 DEF IInv, AnswerInv, Honoured, ActedInv, Spent, Live
<1>. QED
  BY <1>3, <1>4, <1>5 DEF IInv

\* A restart empties the tables; a session somebody holds is lost.
LEMMA CrashStep ==
    ASSUME IInv, Crash
    PROVE IInv'
<1>1. /\ UNCHANGED <<client, envelope, net, answer, files, acted>>
      /\ challenges' = NoEntries /\ sessions' = NoEntries /\ seen' = NoEntries
      /\ lost' = (lost \cup DOMAIN sessions) \cap Held
      /\ origin' \in {"up", "down"}
  BY DEF Crash
<1>2. DOMAIN NoEntries = {} /\ NoEntries = [k \in DOMAIN NoEntries |-> NoEntries[k]]
  BY DEF NoEntries
<1>3. TypeOK'
  <2>1. TablesType'
    BY <1>1, <1>2 DEF TablesType, IsTable
  <2>2. RestType'
    BY <1>1 DEF IInv, TypeOK, TablesType, IsTable, RestType
  <2>3. ClientType' /\ EnvelopeType' /\ AnswerType'
    BY <1>1 DEF IInv, TypeOK, ClientType, EnvelopeType, AnswerType
  <2>. QED
    BY <2>1, <2>2, <2>3 DEF TypeOK
<1>4. WaitInv' /\ NetInv'
  BY <1>1 DEF IInv, WaitInv, NetInv
<1>5. ASSUME NEW c \in Clients, NEW s, s \in Held, Honoured(c, s)
      PROVE Honoured(c, s)'
  BY <1>1, <1>5 DEF Honoured
<1>6. OpenInv'
  <2>. SUFFICES ASSUME NEW d \in Clients, client[d].phase = "open",
                       NEW s, s = client[d].arg
                PROVE Honoured(d, s)'
    BY <1>1 DEF OpenInv, Honoured
  <2>1. s \in Held /\ Honoured(d, s)
    BY HeldIs DEF IInv, OpenInv
  <2>. QED
    BY <1>5, <2>1
<1>7. AnswerInv'
  <2>. SUFFICES ASSUME NEW f \in Envelopes, answer[f] # NoAnswer
                PROVE \E d \in Clients :
                        /\ client[d].waiting = f /\ f # None
                        /\ answer[f].ok /\ envelope[f].path = "session" =>
                              \A v : v = answer[f].value => Honoured(d, v)'
    BY <1>1 DEF AnswerInv, Honoured
  <2>1. PICK d \in Clients :
           /\ client[d].waiting = f /\ f # None
           /\ answer[f].ok /\ envelope[f].path = "session" => Honoured(d, answer[f].value)
    BY DEF IInv, AnswerInv
  <2>2. answer[f].value \in Held
    BY HeldIs
  <2>. QED
    BY <1>5, <2>1, <2>2
<1>8. ActedInv'
  BY <1>1, <1>2 DEF IInv, ActedInv, Spent, Live
<1>. QED
  BY <1>3, <1>4, <1>6, <1>7, <1>8 DEF IInv

\* What a tick leaves of a lifetime.
Older(n) == IF n = 0 THEN 0 ELSE n - 1

\* An aged table has the same keys, each entry with a tick less.
LEMMA AgedIs ==
    ASSUME NEW t, NEW keys, NEW entries, NEW ttl \in Nat, NEW owners,
           \/ entries = [left : 0 .. ttl] \/ entries = [left : 0 .. ttl, owner : owners],
           IsTable(t, keys, entries)
    PROVE /\ IsTable(Aged(t), keys, entries)
          /\ DOMAIN Aged(t) = DOMAIN t
          /\ \A k \in DOMAIN t : Aged(t)[k].left = Older(t[k].left)
<1>1. DOMAIN Aged(t) = DOMAIN t /\ Aged(t) = [k \in DOMAIN t |-> Aged(t)[k]]
  BY DEF Aged
<1>2. ASSUME NEW k \in DOMAIN t
      PROVE Aged(t)[k] = [t[k] EXCEPT !.left = Older(t[k].left)]
  BY DEF Aged, Older
<1>3. CASE entries = [left : 0 .. ttl]
  <2>1. ASSUME NEW r \in [left : 0 .. ttl]
        PROVE /\ [r EXCEPT !.left = Older(r.left)] \in [left : 0 .. ttl]
              /\ [r EXCEPT !.left = Older(r.left)].left = Older(r.left)
    BY DEF Older
  <2>. QED
    BY <1>1, <1>2, <1>3, <2>1 DEF IsTable
<1>4. CASE entries = [left : 0 .. ttl, owner : owners]
  <2>1. ASSUME NEW r \in [left : 0 .. ttl, owner : owners]
        PROVE /\ [r EXCEPT !.left = Older(r.left)] \in [left : 0 .. ttl, owner : owners]
              /\ [r EXCEPT !.left = Older(r.left)].left = Older(r.left)
    BY DEF Older
  <2>. QED
    BY <1>1, <1>2, <1>4, <2>1 DEF IsTable
<1>. QED
  BY <1>3, <1>4

\* An aged entry keeps its owner.
LEMMA AgedOwner ==
    ASSUME NEW t, NEW k \in DOMAIN t, t[k] \in SessionEntries
    PROVE Aged(t)[k].owner = t[k].owner
BY DEF Aged, SessionEntries

\* Time passes for the shields and for the tables alike.
LEMMA TickStep ==
    ASSUME IInv, Tick
    PROVE IInv'
<1>1. /\ UNCHANGED <<envelope, net, answer, files, origin, lost, acted>>
      /\ challenges' = Aged(challenges) /\ sessions' = Aged(sessions) /\ seen' = Aged(seen)
      /\ client' = [c \in Clients |->
                      [client[c] EXCEPT !.left = IF @ = 0 THEN 0 ELSE @ - 1]]
  BY DEF Tick
<1>2. /\ ClientType'
      /\ \A c \in Clients : /\ client'[c].left = Older(client[c].left)
                            /\ client'[c].phase = client[c].phase
                            /\ client'[c].arg = client[c].arg
                            /\ client'[c].waiting = client[c].waiting
  <2>1. ASSUME NEW r \in Shields
        PROVE /\ [r EXCEPT !.left = Older(r.left)] \in Shields
              /\ [r EXCEPT !.left = Older(r.left)].left = Older(r.left)
              /\ [r EXCEPT !.left = Older(r.left)].phase = r.phase
              /\ [r EXCEPT !.left = Older(r.left)].arg = r.arg
              /\ [r EXCEPT !.left = Older(r.left)].waiting = r.waiting
    BY Lifetimes DEF Shields, Older
  <2>2. \A c \in Clients : client[c] \in Shields
    BY DEF IInv, TypeOK, ClientType
  <2>3. client' = [c \in Clients |-> [client[c] EXCEPT !.left = Older(client[c].left)]]
    BY <1>1 DEF Older
  <2>. QED
    BY <2>1, <2>2, <2>3 DEF ClientType
<1>3. /\ IsTable(challenges', Challenges, ChallengeEntries)
      /\ DOMAIN challenges' = DOMAIN challenges
  <2>1. IsTable(challenges, Challenges, ChallengeEntries)
    BY DEF IInv, TypeOK, TablesType, ChallengeEntries
  <2>. QED
    BY <1>1, <2>1, AgedIs, Lifetimes DEF ChallengeEntries
<1>4. /\ IsTable(sessions', Sessions, SessionEntries)
      /\ DOMAIN sessions' = DOMAIN sessions
      /\ \A s \in DOMAIN sessions : /\ sessions'[s].left = Older(sessions[s].left)
                                    /\ sessions'[s].owner = sessions[s].owner
  <2>1. IsTable(sessions, Sessions, SessionEntries)
    BY DEF IInv, TypeOK, TablesType, SessionEntries
  <2>2. /\ IsTable(sessions', Sessions, SessionEntries)
        /\ DOMAIN sessions' = DOMAIN sessions
    BY <1>1, <2>1, AgedIs, Lifetimes DEF SessionEntries
  <2>3. \A s \in DOMAIN sessions : sessions'[s].left = Older(sessions[s].left)
    BY <1>1, <2>1, AgedIs, Lifetimes DEF SessionEntries
  <2>4. \A s \in DOMAIN sessions : sessions'[s].owner = sessions[s].owner
    BY <1>1, <2>1, AgedOwner DEF IsTable
  <2>. QED
    BY <2>2, <2>3, <2>4
<1>5. /\ IsTable(seen', Envelopes, SeenEntries)
      /\ DOMAIN seen' = DOMAIN seen
      /\ \A f \in DOMAIN seen : seen'[f].left = Older(seen[f].left)
  <2>1. IsTable(seen, Envelopes, SeenEntries)
    BY DEF IInv, TypeOK, TablesType, SeenEntries
  <2>. QED
    BY <1>1, <2>1, AgedIs, Lifetimes DEF SeenEntries
<1>6. /\ \A c \in Clients : client[c].left \in Nat
      /\ \A s \in DOMAIN sessions : sessions[s].left \in Nat
      /\ \A f \in DOMAIN seen : seen[f].left \in Nat
  <2>1. \A c \in Clients : client[c].left \in Nat
    BY Lifetimes DEF IInv, TypeOK, ClientType, Shields
  <2>2. /\ \A s \in DOMAIN sessions : sessions[s].left \in Nat
        /\ \A f \in DOMAIN seen : seen[f].left \in Nat
    BY Lifetimes DEF IInv, TypeOK, TablesType, IsTable
  <2>. QED
    BY <2>1, <2>2
<1>7. TypeOK'
  <2>1. TablesType'
    BY <1>3, <1>4, <1>5, TablesTogether
  <2>2. EnvelopeType' /\ AnswerType' /\ RestType'
    BY <1>1 DEF IInv, TypeOK, EnvelopeType, AnswerType, RestType
  <2>. QED
    BY <1>2, <2>1, <2>2 DEF TypeOK
<1>8. WaitInv' /\ NetInv'
  <2>1. WaitInv'
    BY <1>1, <1>2 DEF IInv, WaitInv, Asked
  <2>2. NetInv'
    BY <1>1 DEF IInv, NetInv
  <2>. QED
    BY <2>1, <2>2
<1>9. ASSUME NEW c \in Clients, NEW s, Honoured(c, s)
      PROVE Honoured(c, s)'
  BY <1>1, <1>2, <1>4, <1>6, <1>9 DEF Honoured, Older
<1>10. OpenInv'
  <2>. SUFFICES ASSUME NEW d \in Clients, client[d].phase = "open",
                       NEW s, s = client[d].arg
                PROVE Honoured(d, s)'
    BY <1>2 DEF OpenInv, Honoured
  <2>. QED
    BY <1>9 DEF IInv, OpenInv
<1>11. AnswerInv'
  <2>. SUFFICES ASSUME NEW f \in Envelopes, answer[f] # NoAnswer
                PROVE \E d \in Clients :
                        /\ client'[d].waiting = f /\ f # None
                        /\ answer[f].ok /\ envelope[f].path = "session" =>
                              \A v : v = answer[f].value => Honoured(d, v)'
    BY <1>1 DEF AnswerInv, Honoured
  <2>1. PICK d \in Clients :
           /\ client[d].waiting = f /\ f # None
           /\ answer[f].ok /\ envelope[f].path = "session" => Honoured(d, answer[f].value)
    BY DEF IInv, AnswerInv
  <2>. QED
    BY <1>2, <1>9, <2>1
<1>12. ActedInv'
  <2>. SUFFICES ASSUME NEW e \in Envelopes, acted[e] # 0
                PROVE acted[e] = 1 /\ Spent(e)'
    BY <1>1 DEF ActedInv
  <2>1. acted[e] = 1 /\ Spent(e)
    BY DEF IInv, ActedInv
  <2>2. ASSUME envelope[e].path = "vector", envelope[e].arg \in DOMAIN sessions,
               Older(sessions[envelope[e].arg].left) > 0
        PROVE /\ e \in DOMAIN seen
              /\ Older(sessions[envelope[e].arg].left) <= Older(seen[e].left)
    BY <1>6, <2>1, <2>2 DEF Spent, Live, Older
  <2>. QED
    BY <1>1, <1>3, <1>4, <1>5, <2>1, <2>2 DEF Spent, Live
<1>. QED
  BY <1>7, <1>8, <1>10, <1>11, <1>12 DEF IInv

----------------------------------------------------------------------------
(* The theorems. *)

LEMMA InitIInv == Init => IInv
<1>. SUFFICES ASSUME Init PROVE IInv
  OBVIOUS
<1>1. DOMAIN NoEntries = {} /\ NoEntries = [k \in DOMAIN NoEntries |-> NoEntries[k]]
  BY DEF NoEntries
<1>2. NoShield \in Shields /\ NoShield.waiting = None /\ NoShield.phase = "none"
  BY Lifetimes DEF NoShield, Idle, Shields, Names
<1>3. NoEnvelope \in [from : Clients \cup {None}, path : Paths \cup {None},
                      arg : Names, of : Owners \cup {None}]
  BY DEF NoEnvelope, Names
<1>4. TypeOK
  BY <1>1, <1>2, <1>3 DEF Init, TypeOK, ClientType, EnvelopeType, AnswerType, TablesType,
     IsTable, RestType, StateFiles
<1>5. WaitInv /\ NetInv /\ OpenInv /\ AnswerInv /\ ActedInv
  BY <1>2 DEF Init, WaitInv, NetInv, OpenInv, AnswerInv, ActedInv
<1>. QED
  BY <1>4, <1>5 DEF IInv

LEMMA NextIInv == IInv /\ [Next]_vars => IInv'
<1>. SUFFICES ASSUME IInv, [Next]_vars PROVE IInv'
  OBVIOUS
<1>1. ASSUME NEW c \in Clients,
             \/ Attest(c) \/ AccessChallenge(c) \/ OpenSession(c) \/ Protect(c)
             \/ Receive(c) \/ Fail(c)
             \/ \E owner \in Owners : Similarity(c, owner)
      PROVE IInv'
  BY <1>1, AttestStep, RequestStep, ReceiveStep, FailStep
<1>2. ASSUME NEW e \in Envelopes,
             \/ Lose(e) \/ RefuseEnvelope(e) \/ ServeChallenge(e)
             \/ \E proofVerified \in ProofOutcomes : ServeSession(e, proofVerified)
             \/ \E engineWorks \in EngineOutcomes : ServeVector(e, engineWorks)
      PROVE IInv'
  BY <1>2, LoseStep, RefuseStep, ServeChallengeStep, ServeSessionStep, ServeVectorStep
     DEF ProofOutcomes, EngineOutcomes
<1>3. CASE (\E initialize \in BOOLEAN : Start(initialize)) \/ WriteStateFile
  BY <1>3, StartStep
<1>4. CASE Crash
  BY <1>4, CrashStep
<1>5. CASE Tick
  BY <1>5, TickStep
<1>6. CASE UNCHANGED vars
  <2>1. UNCHANGED <<client, envelope, net, answer, challenges, sessions, seen, files,
                    origin, lost, acted>>
    BY <1>6 DEF vars
  <2>2. TypeOK' /\ WaitInv' /\ NetInv' /\ OpenInv'
    BY <2>1 DEF IInv, TypeOK, ClientType, EnvelopeType, AnswerType, TablesType, IsTable,
       RestType, WaitInv, NetInv, OpenInv, Honoured
  <2>3. AnswerInv' /\ ActedInv'
    BY <2>1 DEF IInv, AnswerInv, Honoured, ActedInv, Spent, Live
  <2>. QED
    BY <2>2, <2>3 DEF IInv
<1>. QED
  BY <1>1, <1>2, <1>3, <1>4, <1>5, <1>6 DEF Next

\* The shields, what travels and the origin's tables stay in step: a request is
\* its sender's, a session is named only while it is honoured or lost, and what
\* was carried out is remembered for as long as what it names lives.
THEOREM EnclaveInductive == Spec => []IInv
<1>1. Init => IInv
  BY InitIInv
<1>2. IInv /\ [Next]_vars => IInv'
  BY NextIInv
<1>. QED
  BY <1>1, <1>2, PTL DEF Spec

\* process_envelope and its handlers carry an envelope out at most once, for
\* every configuration the origin accepts: any number of clients, any
\* capacities, any lifetimes up to the replay window, any restarts.
THEOREM EnclaveActsOnce == Spec => []ActedOnce
<1>1. IInv => ActedOnce
  BY DEF IInv, ActedInv, ActedOnce, TypeOK, RestType
<1>. QED
  BY <1>1, EnclaveInductive, PTL

\* A vector operation the shield's own freshness check lets through meets a live
\* session bound to it, unless the origin has restarted since it was opened.
THEOREM EnclaveHonours == Spec => []SessionHonoured
<1>1. IInv => SessionHonoured
  <2>. SUFFICES ASSUME IInv, NEW c \in Clients, client[c].phase = "open",
                       client[c].left > 0, client[c].arg \notin lost
                PROVE /\ client[c].arg \in Live(sessions)
                      /\ sessions[client[c].arg].owner = c
    BY DEF SessionHonoured, AttestationFresh
  <2>. DEFINE s == client[c].arg
  <2>1. s \in DOMAIN sessions /\ sessions[s].owner = c /\ client[c].left <= sessions[s].left
    BY DEF IInv, OpenInv, Honoured
  <2>2. client[c].left \in Nat /\ sessions[s].left \in Nat
    BY <2>1, Lifetimes DEF IInv, TypeOK, ClientType, Shields, TablesType, IsTable
  <2>. QED
    BY <2>1, <2>2 DEF Live
<1>. QED
  BY <1>1, EnclaveInductive, PTL
=============================================================================
