------------------------------ MODULE Enclave ------------------------------
(***************************************************************************)
(* The protected enclave: shields (EnclaveCryptoShield over                *)
(* CloudflareEnclaveProvider), the Cloudflare gateway between them and the *)
(* origin (EnclaveService), which keeps one-time challenges, sessions and  *)
(* the cache of envelopes it has seen.                                     *)
(*                                                                         *)
(* The network may delay, lose and repeat an envelope: a copy stays in     *)
(* `net' until it is lost.  Time is counted in ticks; an entry of a table  *)
(* carries the ticks it has left, and an expired one (0 left) stays until  *)
(* the next purge.  The origin's handlers do not await between reading the *)
(* body and returning, so serving an envelope is one step.  A name         *)
(* (envelope, challenge, session) is drawn at random by the code and is    *)
(* never met again; here it is reused only once nothing refers to it.      *)
(*                                                                         *)
(* A client stands for its (profile, scope, proof key) triple.             *)
(***************************************************************************)
EXTENDS Naturals, FiniteSets, Functions

CONSTANTS Clients,          \* the principals whose processes build shields
          Owners,           \* the principals with stored vectors
          Envelopes, Challenges, Sessions,   \* names
          None,
          AttestationTtl, ChallengeTtl, SessionTtl, ReplayTtl,
          MaxChallenges, MaxSessions, MaxSeen

\* Every lifetime is at most the 600 seconds an envelope is remembered.
OriginConfig ==
    /\ ReplayTtl \in Nat
    /\ \A ttl \in {AttestationTtl, ChallengeTtl, SessionTtl} : ttl \in 1 .. ReplayTtl

ASSUME ConstantsAssumption ==
    /\ Clients \subseteq Owners
    /\ Envelopes \cup Challenges \cup Sessions \subseteq Nat
    /\ Challenges \cap Sessions = {}
    /\ OriginConfig
    /\ AttestationTtl <= SessionTtl       \* as build_service leaves them
    /\ {MaxChallenges, MaxSessions, MaxSeen} \subseteq Nat \ {0}

VARIABLES client,      \* the shield of each client, or its construction
          envelope,    \* what each envelope in use carries
          net,         \* envelopes of which a copy may still reach the origin
          answer,      \* the answer under way to the sender of each envelope
          challenges, sessions, seen,     \* the origin's tables
          files,       \* how many CKKS state files are on disk
          origin,      \* "down", "initializing" or "up"
          lost,        \* history: sessions a restart of the origin forgot
          acted        \* history: how often an envelope was carried out

vars == <<client, envelope, net, answer, challenges, sessions, seen,
          files, origin, lost, acted>>
tables == <<challenges, sessions, seen>>

StateFiles == 4     \* context, public key, secret key, summation keys
NoEnvelope == [from |-> None, path |-> None, arg |-> None, of |-> None]
NoAnswer == None
Refusal == [ok |-> FALSE, value |-> None]
Idle(phase, left, arg) ==
    [phase |-> phase, left |-> left, arg |-> arg, waiting |-> None]
NoShield == Idle("none", 0, None)
NoEntries == [k \in {} |-> None]

Init ==
    /\ client = [c \in Clients |-> NoShield]
    /\ envelope = [e \in Envelopes |-> NoEnvelope]
    /\ net = {}
    /\ answer = [e \in Envelopes |-> NoAnswer]
    /\ challenges = NoEntries /\ sessions = NoEntries /\ seen = NoEntries
    /\ files = 0 /\ origin = "down"
    /\ lost = {}
    /\ acted = [e \in Envelopes |-> 0]

----------------------------------------------------------------------------
(* Tables. *)

Live(table) == {k \in DOMAIN table : table[k].left > 0}

\* _purge of one table: the entries that have expired go.
Purged(table) == Restrict(table, Live(table))

Aged(table) ==
    [k \in DOMAIN table |-> [table[k] EXCEPT !.left = IF @ = 0 THEN 0 ELSE @ - 1]]

With(table, k, entry) ==
    [n \in DOMAIN table \cup {k} |-> IF n = k THEN entry ELSE table[n]]

Without(table, k) == Restrict(table, DOMAIN table \ {k})

Waiting == {client[c].waiting : c \in Clients} \ {None}
Held == {client[c].arg : c \in Clients}
           \cup {answer[e].value : e \in {f \in Envelopes : answer[f] # NoAnswer}}
           \cup {envelope[e].arg : e \in Waiting \cup net}

\* The names are numbers, and a new one is the least that is free.
Least(free) == {n \in free : \A m \in free : n <= m}
FreeEnvelopes == Least(Envelopes \ (Waiting \cup net \cup DOMAIN seen))
FreeNames(names, table) == Least(names \ (DOMAIN table \cup Held))

\* An envelope nobody waits for and of which no copy is left is forgotten.
Drop(e) ==
    /\ envelope' = [envelope EXCEPT ![e] = NoEnvelope]
    /\ acted' = [acted EXCEPT ![e] = 0]

----------------------------------------------------------------------------
(* The shield. *)

\* The freshness check before every vector operation.
AttestationFresh(c) == client[c].left > 0

\* What can come back for a nonce: evidence of the approved workload or of
\* another, with or without a fresh hardware token over this nonce and transport
\* key, and with what the journey has left of its lifetime.
Evidence == [approved : BOOLEAN, native : BOOLEAN, left : 0 .. AttestationTtl]

\* AzureMaaJwtVerifier: signature, freshness, hardware claims, policies, binding.
NativeVerified(evidence) == evidence.native

\* Ed25519AttestationVerifier: anything else raises.
Verified(evidence) ==
    evidence.approved /\ NativeVerified(evidence) /\ evidence.left > 0

\* A fresh shield: live attestation, then the transport key is bound.  A shield
\* the process drops for it leaves its session behind: nothing tells the origin.
Attest(c) ==
    /\ client[c].phase \in {"none", "open"} /\ client[c].waiting = None
    /\ origin = "up"
    /\ \E evidence \in Evidence :
        /\ Verified(evidence)
        /\ client' = [client EXCEPT ![c] = Idle("attested", evidence.left, None)]
    /\ UNCHANGED <<envelope, net, answer, tables, files, origin, lost, acted>>

\* _secure_post: a new ephemeral key and nonce make a new envelope.
Send(c, path, arg, of) ==
    /\ client[c].waiting = None
    /\ \E e \in FreeEnvelopes :
        /\ client' = [client EXCEPT ![c].waiting = e]
        /\ envelope' = [envelope EXCEPT ![e] =
                          [from |-> c, path |-> path, arg |-> arg, of |-> of]]
        /\ net' = net \cup {e}
        /\ answer' = [answer EXCEPT ![e] = NoAnswer]
    /\ UNCHANGED <<tables, files, origin, lost, acted>>

AccessChallenge(c) ==
    client[c].phase = "attested" /\ Send(c, "challenge", None, None)

\* The proof made by the Ristretto helper names the challenge it answers.
Prove(c) == client[c].arg

OpenSession(c) ==
    client[c].phase = "challenged" /\ Send(c, "session", Prove(c), None)

Protect(c) ==
    /\ client[c].phase = "open" /\ AttestationFresh(c)
    /\ Send(c, "vector", client[c].arg, c)

\* The vector compared is any stored one, its own or another client's.
Similarity(c, owner) ==
    /\ client[c].phase = "open" /\ AttestationFresh(c)
    /\ Send(c, "vector", client[c].arg, owner)

FreshFromOpening(shield, path, value) ==
    CASE path = "challenge" -> Idle("challenged", shield.left, value)
      [] path = "session" -> Idle("open", AttestationTtl, value)
      [] OTHER -> Idle(shield.phase, shield.left, shield.arg)

\* What the shield becomes when the answer to its request is a value.
Advanced(shield, path, value) ==
    CASE path = "challenge" -> Idle("challenged", shield.left, value)
      [] path = "session" -> Idle("open", shield.left, value)
      [] OTHER -> Idle(shield.phase, shield.left, shield.arg)

\* A failed call raises: a shield under construction is abandoned, an open one
\* stays as it is.
Abandoned(shield) ==
    IF shield.phase = "open" THEN Idle("open", shield.left, shield.arg) ELSE NoShield

Receive(c) ==
    LET e == client[c].waiting IN
    /\ e # None /\ answer[e] # NoAnswer
    /\ client' = [client EXCEPT ![c] =
                    IF answer[e].ok THEN Advanced(@, envelope[e].path, answer[e].value)
                                    ELSE Abandoned(@)]
    /\ answer' = [answer EXCEPT ![e] = NoAnswer]
    /\ IF e \in net THEN UNCHANGED <<envelope, acted>> ELSE Drop(e)
    /\ UNCHANGED <<net, tables, files, origin, lost>>

\* The gateway's error, or the client's or the gateway's time-out: the envelope
\* may still be on its way, or have been served.
Fail(c) ==
    LET e == client[c].waiting IN
    /\ e # None
    /\ client' = [client EXCEPT ![c] = Abandoned(@)]
    /\ answer' = [answer EXCEPT ![e] = NoAnswer]
    /\ IF e \in net THEN UNCHANGED <<envelope, acted>> ELSE Drop(e)
    /\ UNCHANGED <<net, tables, files, origin, lost>>

\* Also: the gateway turned the request away before it called the origin.  The
\* sender cannot tell a lost envelope from a late one, so losing it after the
\* sender gave up loses nothing of the behaviour.
Lose(e) ==
    /\ e \in net \ Waiting
    /\ net' = net \ {e}
    /\ Drop(e)
    /\ UNCHANGED <<client, answer, tables, files, origin, lost>>

----------------------------------------------------------------------------
(* The origin. *)

\* process_envelope up to _dispatch: purge, refuse a replay, refuse at capacity.
Admits(e) == e \notin Live(seen) /\ Cardinality(Live(seen)) < MaxSeen
ForgottenSoon(e) == With(Purged(seen), e, [left |-> ChallengeTtl])
Remembered(e) == With(Purged(seen), e, [left |-> ReplayTtl])

Replied(e, a) ==
    answer' = IF e \in Waiting /\ answer[e] = NoAnswer
                 THEN [answer EXCEPT ![e] = a] ELSE answer

CarriedOut(e) == acted' = [acted EXCEPT ![e] = IF @ = 2 THEN 2 ELSE @ + 1]

Serving(e, path) ==
    /\ origin = "up"
    /\ e \in net /\ envelope[e].path = path
    /\ UNCHANGED <<client, envelope, net, files, origin>>

RefuseEnvelope(e) ==
    /\ Serving(e, envelope[e].path)
    /\ ~Admits(e)
    /\ challenges' = Purged(challenges) /\ sessions' = Purged(sessions)
    /\ seen' = Purged(seen)
    /\ Replied(e, Refusal)
    /\ UNCHANGED <<acted, lost>>

ServeChallenge(e) ==
    /\ Serving(e, "challenge")
    /\ Admits(e)
    /\ seen' = Remembered(e)
    /\ sessions' = Purged(sessions)
    /\ IF Cardinality(Live(challenges)) < MaxChallenges
          THEN \E ch \in FreeNames(Challenges, challenges) :
               /\ challenges' = With(Purged(challenges), ch,
                     [left |-> ChallengeTtl, owner |-> envelope[e].from])
               /\ Replied(e, [ok |-> TRUE, value |-> ch])
          ELSE challenges' = Purged(challenges) /\ Replied(e, Refusal)
    /\ UNCHANGED <<acted, lost>>

\* The verifier is a helper process: a rejection, a crash and a time-out all
\* refuse the proof.
ProofOutcomes == BOOLEAN

\* The proof is verified first; then the challenge is consumed, whatever follows.
ServeSession(e, proofVerified) ==
    LET ch == envelope[e].arg
        known == ch \in Live(challenges) /\ challenges[ch].owner = envelope[e].from
        opens == known /\ Cardinality(Live(sessions)) < MaxSessions
    IN
    /\ Serving(e, "session")
    /\ Admits(e)
    /\ seen' = Remembered(e)
    /\ challenges' = IF proofVerified THEN Without(Purged(challenges), ch)
                                      ELSE Purged(challenges)
    /\ IF proofVerified /\ opens
          THEN \E s \in FreeNames(Sessions, sessions) :
               /\ sessions' = With(Purged(sessions), s,
                     [left |-> SessionTtl, owner |-> envelope[e].from])
               /\ Replied(e, [ok |-> TRUE, value |-> s])
               /\ CarriedOut(e)
               /\ lost' = lost \ {s}
          ELSE /\ sessions' = Purged(sessions)
               /\ Replied(e, Refusal)
               /\ UNCHANGED <<acted, lost>>

\* _unwrap_ckks_ciphertext: the wrapper names the principal it was made for.
Unwraps(of, session) == of = sessions[session].owner

\* OpenFHE may fail on any input; the service refuses then.
EngineOutcomes == BOOLEAN

\* encrypt (of the client's own vector) and similarity.
ServeVector(e, engineWorks) ==
    LET s == envelope[e].arg
        done == /\ engineWorks
                /\ s \in Live(sessions)
                /\ Unwraps(envelope[e].of, s)
    IN
    /\ Serving(e, "vector")
    /\ Admits(e)
    /\ seen' = Remembered(e)
    /\ challenges' = Purged(challenges) /\ sessions' = Purged(sessions)
    /\ IF done THEN Replied(e, [ok |-> TRUE, value |-> None]) /\ CarriedOut(e)
               ELSE Replied(e, Refusal) /\ UNCHANGED acted
    /\ UNCHANGED lost

\* OpenFheCkksEngine: the state files are written one by one by the one-time
\* initializer; a partial set is refused by every later start.
Start(initialize) ==
    /\ origin = "down"
    /\ files = 0
    /\ initialize
    /\ origin' = "initializing"
    /\ UNCHANGED <<client, envelope, net, answer, tables, files, lost, acted>>

WriteStateFile ==
    /\ origin = "initializing"
    /\ files' = files + 1
    /\ origin' = IF files' = StateFiles THEN "up" ELSE origin
    /\ UNCHANGED <<client, envelope, net, answer, tables, lost, acted>>

\* Everything the service knows is in memory.  A complete set of state files
\* lets it start again; while it is down it takes no step.
Crash ==
    /\ origin # "down"
    /\ origin' = IF files = StateFiles THEN "up" ELSE "down"
    /\ challenges' = NoEntries /\ sessions' = NoEntries /\ seen' = NoEntries
    /\ lost' = (lost \cup DOMAIN sessions) \cap Held
    /\ UNCHANGED <<client, envelope, net, answer, files, acted>>

Tick ==
    /\ client' = [c \in Clients |->
                    [client[c] EXCEPT !.left = IF @ = 0 THEN 0 ELSE @ - 1]]
    /\ challenges' = Aged(challenges) /\ sessions' = Aged(sessions)
    /\ seen' = Aged(seen)
    /\ UNCHANGED <<envelope, net, answer, files, origin, lost, acted>>

Next ==
    \/ \E c \in Clients :
        \/ Attest(c) \/ AccessChallenge(c) \/ OpenSession(c) \/ Protect(c)
        \/ Receive(c) \/ Fail(c)
        \/ \E owner \in Owners : Similarity(c, owner)
    \/ \E e \in Envelopes :
        \/ Lose(e) \/ RefuseEnvelope(e) \/ ServeChallenge(e)
        \/ \E proofVerified \in ProofOutcomes : ServeSession(e, proofVerified)
        \/ \E engineWorks \in EngineOutcomes : ServeVector(e, engineWorks)
    \/ \E initialize \in BOOLEAN : Start(initialize)
    \/ WriteStateFile \/ Crash \/ Tick

Spec == Init /\ [][Next]_vars

----------------------------------------------------------------------------
(* Properties. *)

\* An envelope is carried out at most once - one session opened, one vector
\* sealed, one score given - however often the network repeats it, whatever the
\* purges have dropped from the replay cache and however often the origin
\* restarts with an empty one: what the cache forgets, the end of the challenge
\* or the session it names refuses.
ActedOnce == \A e \in Envelopes : acted[e] <= 1

\* As long as the shield's own freshness check lets a call through, its session
\* is alive at the origin and bound to it, unless the origin has restarted
\* since: no vector operation meets an expired session, however late the
\* answers that built the shield came.
SessionHonoured ==
    \A c \in Clients : client[c].phase = "open" /\ AttestationFresh(c) =>
        \/ client[c].arg \in lost
        \/ /\ client[c].arg \in Live(sessions)
           /\ sessions[client[c].arg].owner = c
=============================================================================
