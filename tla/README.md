# A TLA+ verification of Echo Veil

Echo Veil is a local memory layer for agents. A memory is a *vine*: an anchor
vector with a topic, held in an active workspace, faded into twilight when the
conversation leaves it, and archived when it does not come back. The agent
adapter keeps the encrypted text of a memory in a second database beside the
lifecycle database, and hosts reach it through a local broker or through the
plugins and the guarded runner that let a model provider be called only with
evidence from the memory.

This directory holds TLA+ models of that code, TLC configurations that check
them on small instances, and TLAPS proofs of their main properties for every
instance. `PROJECT.json` maps every definition to the lines it models.

To run everything (in this directory):

    tlc -workers 2 -config MCWorkspace.cfg MCWorkspace
    tlapm WorkspaceProofs.tla

`RekeyingProofs` takes tlapm about ten minutes, the other proof modules less.

## 1. Inventory

| Part | State | Operations | What is hard | What makes it correct |
|---|---|---|---|---|
| Active workspace (`workspace.py`, `vine.py`) | `_vines`, `_twilight_cycles`, `_crests`; per vine its state, lock, score, times and anchor | add, remove, lock, unlock, set_crests, reinforce, run_decay_cycle, prune_evicted, snapshot and restore | counters and anchors over long sequences of cycles; capacity after decay | a locked vine never leaves; an eviction is earned; anchors can always be restored; crests exist |
| Oracle (`oracle.py`) over `SQLiteStore` (`persistence.py`) | a workspace per process; the tables active_workspace, metadata_index, cold_archive, eviction_metadata; the generation counter | open, sprout, observe, forget, reinforce, lock, unlock, set_crests, close; rewrap and rotations | memory is changed before the transaction; two processes on one database; crash between two transactions; a transaction that fails | nothing is lost; no vine in two tiers; nothing forgotten returns; a restart is exact; the store opens again |
| Agent memory (`agent_memory.py`, `memory_layers.py`) | payload rows (pending or committed), contracts, supersession links, tombstones, vectors and terms; the Oracle | remember, refresh_live, promote, forget, recall, expiry, recovery at start-up | two databases and no common transaction; a rollback that fails; cascades; expiry | the databases stay in step; what was remembered stays; chains and derivations are sound |
| Profile keyring, rotation and custody (`agent_security.py`, `agent_memory.py`) | `keyring.json`, key files, custody descriptors and items, key id of every ciphertext | begin_rotation, rotate in batches, mark verified, retire; custody prepare, activate, retire | crash between key file, manifest and databases; anchors in memory; a write that raises after it took effect | every ciphertext is readable; what is verified is done; a retired key is not needed; a cut-off move can be finished |
| Record envelope v3 (`record_envelope.py`, `agent_memory.py`) | database marker, manifest feature, write gate, format of each row | prepare, enable, convert, verify | crash between the steps; rows that do not convert | the profile opens again; a verified profile has no old row |
| Broker (`agent_broker.py`) | queue per caller, rotation of callers, jobs, connections | submit, get, cancel, close, dispatch, answer | deadline against dispatch; stop against submit; fairness | no rejected request runs; each request is answered once; no caller starves |
| Backup, restore, readiness (`backup.py`, `readiness_store.py`, `readiness_authority.py`, `local_readiness.py`) | archive directories, generation counter, the device's generation, the evidence record | create, verify, restore, drill, record, invalidate, qualify artifact and host | publication by rename; stale evidence; rollback; upgrade or rotation in between | an older backup is refused; a profile that calls itself ready can be restored |
| Embedder and availability layer (`agent_memory.py`, `always_available.py`, `agent_cli.py`) | circuit of the transport, which adapter serves | embed, record failure, cool down, half-open request, step down | outages in mid-operation; a circuit that never closes | evidence is semantic or says it is not; the circuit closes after an outage |
| Preflight, receipts, hosts (`agent_preflight.py`, `preflight_receipt.py`, `guarded_runner.py`, `integrations/`) | issued receipts, consumed nonces, per-turn state of each plugin | preflight, issue, verify and consume, inject, admit | replay, expiry, handlers that await, replaced sessions | a provider is called on the evidence of its own turn only |
| Origin (`echo_veil_origin`), provider (`cloudflare_provider.py`), shield (`crypto_shield.py`) | challenges, sessions, replay cache, attestation | challenge, open, protect, evaluate, restart | repeated and delayed envelopes, three clocks, capacity | an envelope is acted on once; a session in use is alive |
| Migration (`agent_memory.py`, `migration.py`) | records, contracts and tags of two profiles, schema markers, manifest features | adopt at start-up, migrate_to, roll back, verify | crash between database and manifest; expiry under way; verifier in another process | adoption resumes; a copy is faithful or leaves nothing |
| Retrieval (`agent_memory.py`, `always_available.py`, `agent_preflight.py`) | none | candidates, rank, competing memories, cut, context traversal | order of steps, limits, cycles | a competing memory is shown; a trace is complete or says so |
| Command line, website, benchmarks | none of their own | parse, launch, print | - | out of scope |

The Oracle calls the workspace under its lock and then the store. AgentMemory
calls the payload store and the Oracle in turn, holding the profile's writer
lease. The broker's single worker thread calls AgentMemory. The hazards found
in this survey are listed in `PROJECT.json`, each at its line.

## 2. Plan

Done, in this order: `Workspace` with its abstract `Lifecycle`; `Oracle`;
`AgentMemory`; the proofs of each; `Broker`; `Keyring` with `Rekeying` and
`Recovery` over it; `Retrieval`; `Adapter` and `Access` over it; `Enclave`;
`Migration`; the proofs of `Rekeying`, `Recovery`, `Broker`, `Enclave`,
`Access`, `Migration` and `Retrieval`. What composes what:

- `Workspace` implements `Lifecycle` (`INSTANCE ... WITH`, checked and proved);
- `Rekeying` and `Recovery` are two views of one `Keyring`, from the databases
  and from custody and backup;
- `Access` composes the hosts with the `Adapter` that serves them;
- `AgentMemory`, `Rekeying` and `Migration` use one another's result: a
  remember or forget that is cut off is finished by start-up, which
  `AgentMemory` checks step by step, so `Rekeying` and `Migration` take each as
  one step.

Next:

1. AgentMemory's lifecycle store as an abstraction of Oracle (a refinement with
   `life = Rows \cup indexed`).
2. Portable archives and portable custody export, quarantine and its causes,
   storage maintenance and reindex.

## 3. Modules

### VineStates, Lifecycle, Workspace

`VineStates` has the states of a vine and `DecayRelation`, all that a decay
cycle can do to them. `Lifecycle` is the abstract specification of a vine:
absent, active, twilight, evicted, with locks that hold it. `Workspace` is the
code: one RLock guards each method, so one method is one step. Times are ticks
of a clock, scores are hundredths, and the scorer is any function from vines to
`Scores` (the proximity formula is floating-point geometry and no property
depends on it). An anchor is reduced to whether it is compressed. A call that
raises or changes nothing is not an action; `lock` of a locked vine is one.
`Restart` is what persistence_snapshot and restore_persistence_snapshot do
together: only a counter of zero is not preserved. The refinement is
`L == INSTANCE Lifecycle WITH Ids <- Ids, state <- state, locked <- locked`; the
run checks `L!Spec` as `ImplementsLifecycle`.

`WorkspaceHistory` adds two history variables, how often in a row a vine was
scored too low and since when, for the two properties that relate an eviction to
the past; `MCWorkspace` gives it a plain and a shielded vine.

### Oracle

Several processes with their own workspaces over one database. An operation is
the change in memory and then one transaction (`SaveWorkspace`) or two
(`CommitEvictions` first), each its own step, so that crashes, other processes
and failures fall in between. `_begin_locked` compares the generation with the
one the process knows; `fresh` is the set of processes for which they are equal,
which is all the counter is for. `Observe` uses `DecayRelation`, which the
refinement below shows to cover every outcome of the decay loop.
`TransactionFails` is a stale generation or one of `MaxFaults` faults of the
database: the rollback keeps the rows, the workspace keeps the change.
`used`, `acked`, `forgotten`, `stranded` and `dirty` are history.

### AgentMemory

One process over two databases. remember is put, sprout, mark_committed, and on
an exception forget and delete; forget is a loop over the dependents; start-up
settles pending records, removes lifecycle state without a payload, and prunes.
Each transaction is a step, after each of which the process may crash, and
`MaxFaults` of them may fail. `Idle` is the state between two operations: the
writer lease and the single-threaded adapter let nothing run beside one. The
lifecycle database is reduced to the set of ids it manages; `evicted` are the
vines that an observation failed to archive, and `stranded` those whose row a
later save dropped, which is what Oracle's `stranded` is seen from here.

### Broker

Connection threads, the worker and the main thread over the fair queue. Each
method of the queue holds its condition variable and is one step; between two of
them anything may happen. A client sends any number of requests, one at a time,
so the model has no end and liveness is against a queue that never empties. Time
is not a number: `TimeOut` (the connection's wait) and `RejectLate` (the worker)
may notice the deadline at any time, and a job that the worker finds in time has
not timed out at its connection, whose wait began later. The four rejections
are one, since the client treats them alike. A connection without a free slot is
closed at once, which changes nothing. `ran`, `passed` and `gone` are history.

### Keyring, Rekeying

`Keyring` is the manifest on disk, the copy an open process works from, the key
files and the custody descriptors. Keys are numbered as they are drawn. A
manifest write that raises may have happened before or after the rename; in the
second case `begin_rotation` deletes the new key although the manifest names it
(`torn`).

`Rekeying` is `rotate_key`, `retire_previous_key` and
`migrate_record_envelope_v3` over everything that is encrypted under a profile
key: payload rows and tombstones, lifecycle rows, the anchors the open Oracle
holds, the receipt signing key, the readiness evidence and the LSH index. A
ciphertext is the key and the envelope version that read it. An operation is
the sequence `todo` of its steps, each one transaction or one file replaced, in
the code's order; an exception drops the steps that are left (`StepFails`), a
crash also what memory held (`Crash`), and `FinishActivation` and `Open` are
what start-up does then. Batches are limited to `BatchSize`, and the operator
calls again. Between calls records are remembered, forgotten and archived,
and found corrupt and quarantined.

### Recovery

The recovery side of a profile on record envelope v3. `MigrateCustody` ..
`SwitchCustody` are prepare and activate of the custody move,
`RetireFileCustody` .. `UnlinkReceipt` the removal of the raw file by a later
process; `BackupCreate` .. `RecordBackup` are one backup, with or without
rollback detection; `RestoreDrill` is a restore that is opened and reconciled.
`QualifyArtifact`, `QualifyHost`, `HostExpires` and `Upgrade` change what the
evidence has to match. `Ready` is what `build_capabilities_v1` reports for a
local profile; `ReadyToActivate` is the end of the guided set-up, which looks at
the profile through an inspector that reads the manifest on disk beside whatever
process has it open. What is abstracted: an archive is its manifest and its members
are undamaged; only device-bound archives of v3 profiles occur; a count of
records in evidence is free; an expired host record is no record; a rotation may
or may not be finished when its call ends (`Rekeying` has the detail); a step
that raises after it took effect leaves what the failure of the next step
leaves. The helper process and the device are external: an item's generation
only moves forward.

### Retrieval

A corpus is given best first and a score is the band it falls in, since which of
two records ranks higher is floating-point geometry. What is modelled is what
happens to the ranked list: integrity and authentication failures, the temporal
filter, the thresholds, moving competing memories together, the cut to `top_k`,
the marks, the offline variant, and what the preflight keeps. The context trace
is step by step: queue, visited set, depth and record limits, gated roots,
records that fail. `RetrievalInit` enumerates every corpus; `Recall` and
`BeginContext` ask every question of it. `Only` stands for the loops that pass
over records; it is a recursive function, since the provers know nothing of
`SelectSeq`.

### Adapter, Access

`Adapter` is the process that serves a profile, as far as its embedding model
matters: the transport's failure counter, cool-down and half-open request; the
semantic adapter, the read-only one that replaces it, and the closed one; the
production gate; a preflight as a recall, a trace and an issue, between which
the model may fail. `Access` adds the hosts, one in each behaviour. Each handler
of the Pi, Hermes and OpenClaw plugins is split at its awaits, so sessions may
be replaced, models switched, runs abandoned and evidence expired while a
handler waits, and a late answer is applied. The guarded runner goes through
the adapter step by step; for the plugins the answer of a preflight is one step
with any outcome the adapter has. The host programs are external and raise
their events in order. `run.late` is history: how many handlers of an earlier run
returned with a receipt since the present one started, up to two.

OpenClaw passes no session to the handlers but a context, which may name a run, a
session and a session key, or none of them: `Keys` says which keys each context
has, and `Overlap`, `Nameless` and `SameIdentity` are the comparisons the code
makes of them. A record in `gate` keeps the prompt that its token was put into,
which need not be the prompt its evidence was asked for.

### Enclave

The shield's construction and calls, the gateway (which refuses or passes on)
and the origin's challenges, sessions and replay cache, each entry with the
ticks it has left. The network may lose, delay and repeat any envelope, the
origin may crash and forget its tables. Cryptography is the check that a
principal, a challenge and a session belong together.

### Migration

Two profiles in one process. At start-up a scoped profile from before the layer
contracts or the authenticated metadata adopts both, in the database first and
in the manifest afterwards. `Migrate`, `CopyStep`, `Copied`, `ContractStep`,
`Finish` and `RollBack` are migrate_to; `Accepts` is verify_profile_migration.
Topic and payload are the record they were first written as.

## 4. Runs

| Run | Instance | Distinct states | Result |
|---|---|---|---|
| `workspace` | a plain and a shielded vine, capacity 1, scores on both sides of the threshold, window of 2 cycles and 2 ticks, caller overrides 0 and 2, one lock, two crests | 98,637 | passes |
| `oracle` | 2 vines, 2 processes, 1 crest, 1 fault | 2,965,852 | passes, deadlock checked |
| `agent_memory` | 3 records, a clock of 2 ticks, 2 effective times, 1 fault | 1,823,872 | passes, deadlock checked |
| `broker` | 2 clients of one caller and 1 of another, whose own time-out may pass, depth 2, quota 2 | 193,496 | passes, deadlock checked, with liveness |
| `rekeying` | 2 records, 3 keys, batches of 1, 1 failing step | 848,429 | passes |
| `recovery` | 2 keys, 2 processes, 2 archives, 2 artifacts, 1 host record, 1 failing step | 1,592,611 | passes |
| `retrieval` | every corpus of 4 records, every link graph of 5 | 3,589,576 | passes |
| `access` | 2 calls, 3 sessions (for OpenClaw contexts with the keys a, b and none), 2 queries, 2 models, threshold 2, 1 outage, 2 receipts, caches of 1 and 2 | 1,939,950 | passes, with liveness |
| `enclave` | 1 client and a second owner, 3 envelopes, 2 challenges and sessions, capacities of 1, lifetimes of 1 and 2 ticks | 2,430,055 | passes, deadlock checked |
| `migration` | 3 source records, 3 target records, 1 record from before contracts, 2 times, 1 edit, 1 fault | 1,835,961 | passes, deadlock checked |
| `oracle_fault` | 2 vines, 1 process, 1 fault | | `NeverLost` violated |
| `oracle_crest` | 2 vines, 1 process, 2 crests, no fault | | `CrestsReopen` violated |

What each property says is the comment above its definition. `Broker`,
`Rekeying`, `Recovery` and `Access` also define a `TypeOK` that is not part of a
run: it is a part of the proved invariant, as `FreshWindow` of `Workspace` is.

Why the bounds are enough.

- Workspace: the vines interact through the capacity, the lock limit and the
  crests only, which two vines fill; scores 41 and 42 are the two sides of the
  threshold; the clock and counters pass the window on both sides, with a
  snap-back before.
- Oracle: every property is about one vine; the second makes transactions that
  concern only the other. Two processes give a stale one and a fresh one.
- AgentMemory: three records give a chain with a middle and a derivation of a
  derivation; Live records live one tick and the clock has two values.
- Broker: three clients fill a queue of two with one job at the worker, and one
  caller can have two jobs queued while the other waits; the number of
  connection slots (four) is not reached.
- Rekeying: with two records and batches of one every operation needs several
  calls, a record can be converted, forgotten or corrupt while the other waits;
  three keys are two rotations in a row.
- Recovery: two archives give an older and a newer one, two artifacts an upgrade
  between any two steps, two keys one rotation, two processes the fresh one that
  the retirement asks for. A profile starts in file custody, with one failing
  step to come and no upgrade or the reverse, or already in native custody with
  upgrades only, which keeps the three parts of the state space apart.
- Retrieval: four records give a best result, its rival, something between and
  something altered, sealed, expired or superseded; five linked records give two
  ways of different length to a record with a successor. The limits on the number
  of candidates and of edges (40) are larger than the corpora.
- Access: two of everything that a late answer can be confused with; a replay
  cache, a table of ready turns and a table of pending preflights of one and two
  entries are full in the run. Pi's session and model change once. Two contexts of
  OpenClaw have nothing in common and one has no key, so every branch of the
  comparison is taken. A fourth that shares a key with each of the two made no
  difference to `GuardedProviderCall` (OpenClaw alone, 2,858,385 states).
- Enclave: one envelope is under way while a second is repeated and a third is
  new; capacities of one are full with the entry of an abandoned construction.
  `MaxSeen` is the number of envelopes, so the refusal of a full replay cache is
  not reached (it only refuses).
- Migration: three records give a chain with a middle, a derivation and a record
  that expires during the copy; one edit is enough to make a target that the
  verifier must refuse.

Deadlock is checked where the system never ends: the profile never gets stuck,
with two exceptions that the models exclude by their constants (the crest gap
needs two crests in Oracle; a start-up that refuses a stranded payload can be
repeated by Open and Crash). In `Rekeying`, `Recovery` and `Access` the bounds on
keys, processes, archives and receipts run out, and in `Retrieval` an answer is
the end, so there it is not.

Fairness. `broker` assumes weak fairness of the worker, of each connection
thread and of the main thread once it stops (threads are scheduled, and the code
calls the dispatch bounded). No client has to act, no deadline has to pass and no
signal has to come, so `EveryRequestAnswered` does not rest on the time-outs.
`access` assumes, for the guarded runner, whose calls go through the adapter step
by step, weak fairness of `Serve` (the server's thread takes the next
call), of `Use` (somebody goes on using the memory; a circuit that nobody uses
stays open, since only a request closes it) and of `CoolDown` (time passes).
Nothing makes the model server recover: `OutageEnds` has that as its premise, and
nothing restarts the process. Nothing in the other components waits for another
step; `EachCallAdvances` of `Rekeying` is the step form of progress: each call of
rotate_key that ends without an error has converted something or is done.

### What the violations show

- `oracle_fault`. A failed eviction transfer leaves the vine evicted in memory,
  and `save_workspace` writes every vine but the evicted ones. Any save before
  the next successful observation drops the row, a crash then loses the vine;
  the notes say that failed writes leave vines pending. `OnlyStrandedAreLost`
  shows that this is the only way to lose one.
- `oracle_crest`. `forget` does not save the workspace, so forgetting the
  primary of two crests leaves rank 1 without rank 0, which load_workspace
  refuses.

### Where a property makes an exception

Each of these is behaviour of the code that the models have and a property
leaves out by name, or that the hazards list without a property.

- promote does not check the expiry of a Live record, so an expired one can
  become permanent (`agent_memory.py:5376`).
- If a remember of contextual logic fails and its rollback fails too, the
  pending record escapes the cascade of its source, and start-up commits it.
  `NoHalfRemembered` and `NoOrphanLogic` are about fewer than two failures.
- The client of the command line gives up after 30 seconds by default, the
  broker after 120: the job stays queued and runs, although
  `docs/QUALITY.md:507-509` is about mutations that commit invisibly.
- `OutageEnds` leaves production out. There one failed request sets the
  transport to "degraded", model_available becomes false
  (`agent_memory.py:7091-7094`), assert_operational_mode then blocks every
  request that could close the circuit, and only a restart helps. The security
  notes describe the block (`docs/LOCAL_AGENT_SECURITY.md:27-30`), and not that it
  does not end.
- The circuit does not open when the model list answers and the embedding request
  fails: the answer of the first resets the counter (`agent_memory.py:841-844`),
  although the two belong to one embedding; `docs/QUALITY.md:511-512` promises a
  circuit after repeated failures.
- The step down to read-only recall closes the semantic adapter for every client
  of the process until it restarts, and closes it before the read-only one is
  open (`agent_cli.py`).
- Two handlers of earlier runs of Pi that return late in one run of the same
  session, a before_agent_start and after it a turn_start, put evidence of an
  earlier prompt out with the present one: the first sets the prompt on record, the
  second a receipt for it that has not been injected
  (`integrations/pi/extensions/index.ts:516-572`). One late answer never does.
  `GuardedProviderCall` leaves the prompt open in a run with two of them; the
  session, the model, the expiry and the single use hold there too.
- OpenClaw's gate does not bind evidence to a session.
  `integrations/openclaw/src/index.ts:828-832` compares identities only when the
  record and the context both have some, and one common run, session or session
  key is enough, whatever the prompt. So a run whose context has no usable key is
  admitted on the evidence of any other run; evidence that was asked for without
  keys is admitted in any run, there only in its own prompt (lines 787-793); and
  two prompts of one session can exchange their evidence. The repository promises
  only a random, expiring, single-use attestation
  (`docs/LOCAL_AGENT_SECURITY.md:439-441`). `GuardedProviderCall` asks for what
  is left, `ClawEvidence`, and for the expiry and the single use.
- `RivalsTogether` is about the best result. A rival of a later result may be
  cut, and an unreadable rival takes the place of the next.
- A backup has two windows. A crash between publication and the advance of the
  device leaves an archive whose generation the next backup has too; a crash
  between the advance and the record leaves recorded evidence for a backup that
  the device now refuses. `OlderBackupRefused` and `ReadyMeansRestorable` name
  both.
- A restore whose final fsync fails has already renamed the profile into place;
  the handler then deletes the custody item it provisioned (`backup.py:1300-1311`).
- After a second prepare of the custody move there are two descriptors, and
  every later activation calls the state ambiguous (`agent_security.py:2840`). A
  rotation while custody is only verified leaves the raw key of the old root.
- After a manifest write that raised behind its rename, begin_rotation removes
  the key that the manifest on disk names (`torn`); the profile does not open.
  `EverythingReadable` holds, since nothing was encrypted under it yet.
- When the activation of v3 fails between the database marker and the manifest,
  the process stays open and accepts a rotation; start-up then finds both under
  way and refuses. `Reopens` names the state.
- A crash in migrate_to leaves the copies, and a retry is refused because the
  target is not empty.
- A shield never renews its session: after the shorter of its two lifetimes every
  call fails until a new shield is built. Sessions of abandoned constructions hold
  the origin's capacity until they expire. A crash while the origin initialises
  leaves part of its key state, which the next start refuses.
- The row of an unshielded vine in twilight cannot be decoded
  (`persistence.py:1440`); the Oracle runs use shielded anchors, as every agent
  profile does.

## 5. Proofs

| Module | Theorems |
|---|---|
| `WorkspaceProofs` | `WorkspaceInvariant`, `AmberLocksHold`, `AnchorsRecoverable`, `WorkspaceRefinesLifecycle`, `WorkspaceTyped`, `CapacityCeilingHolds`, `EvictionsAreEarned`, `CapacityTakesTheLowest` |
| `OracleProofs` | `OracleInvariant`, `LossIsStranding`, `SproutedMemoriesSurvive`, `ForgetIsFinal`, `EvictionMovesWhole`, `CrashIsTransparent`, `StoreIsTyped` |
| `AgentMemoryProofs` | `AgentMemoryInvariant`, `AgentMemoryTypes`, `StoresInStep`, `RememberIsDurable`, `SupersessionSound`, `FailedRememberLeavesNothing`, `ErasureCascades`; of `Retrieval`: `RetrievalInvariant`, `RivalsStayTogether`, `TracesAreComplete` |
| `RekeyingProofs` | `RekeyingInductive`, `RekeyingTypes`, `RekeyingReadable`, `RekeyingVerifiedDone`, `RekeyingEnvelopePure`, `RekeyingReopens`, `RekeyingAdvances`; of `Migration`: `MigrationInvariant`, `UpgradesResume`, `RaisedMigrationsLeaveNothing`, `MigrationsVerify`, `VerifiedTargetsAreFaithful` |
| `RecoveryProofs` | `RecoveryInductive`, `RecoveryTypes`, `CustodyCanBeResumed`, `AnotherProcessRetires`, `RollbackRefused`, `ReadyCanBeRestored` |
| `BrokerProofs` | `BrokerInductive`, `BrokerTypes`, `BrokerTruthful`, `BrokerTurns` |
| `EnclaveProofs` | `EnclaveInductive`, `EnclaveActsOnce`, `EnclaveHonours` |
| `AccessProofs` | `AccessInductive`, `AccessTypes`, `ProviderCallsGuarded` |

They hold for any number of vines, processes, records, keys, clients, archives,
calls, receipts and faults, from the named assumptions on the constants only
(the vines and the clients are finite sets, other numbers are naturals,
`Shielded` is a set of ids or a Boolean, an attestation of the origin does not
outlive a session, as with the defaults of `build_service`, although its
configuration alone would accept the contrary; a trace has records for its two
roots). `IInv` is the inductive invariant of a module, and `MigrationInv` and
`RetrievalInv` are where two components share one; TLC checked their conjuncts
on the instance of the component's run.

Induction over data is done by hand. What a recursive function or a fold computes
is proved by its least counterexample (`Least`): a length, a depth or a size at
which the claim fails first, from which the definition leads to an earlier one.
That is how `Without`, `Only`, `Prioritized`, `Reached`, `FlattenSeq` and the folds of
`Migration` are described, once each, and the proofs about steps cite the lemma.

- Workspace. The invariant is the types, `LockedIsLive`, `CompressedIffFaded`
  and `FreshWindow` together. Each action of the workspace is an action of the
  lifecycle or a stutter; RunDecayCycle needs that a locked vine is no candidate
  for the capacity eviction. The ceiling is a count of finite sets: a cycle evicts
  as many of the unlocked live vines as exceed the capacity, or all there are. For
  the two properties about the past, the history variables bound the counter and
  the start of twilight of every faded vine.
- Oracle. The properties are about the database, and are inductive only with
  what a fresh process holds: a vine of its workspace that is not evicted and
  not part of the running operation has a row, a forgotten vine or an indexed
  one is in no fresh workspace, and a vine being sprouted is new. Stale
  processes may hold anything, since Begin keeps them from writing; that is the
  heart of the argument.
- AgentMemory. The record under way is pending and newer than all others; the
  lifecycle database covers the committed records but for stranded ones, and
  while the profile is open the Oracle covers them all; an erasure under way
  has deleted the payload of the record whose lifecycle state it deletes next.
  Links go to larger ids, so chains are acyclic. For the two properties about
  fewer than two failures the invariant adds what a failure leaves (`HalfDone`:
  while at most one has happened, a record is pending only with the operation
  that will commit or remove it) and that whoever erases a source still has its
  dependents on the list (`LogicRooted`).
- Retrieval, recall. `Regrouped` says what moving competing memories together
  does to a list: for every set S of records, the first record of S in the result
  is followed by a rival, if it has rivals and all of them are in S. With S the
  records that the cut, the thresholds and the damage let through, this is the
  property. Such a record is put down with its first rival: had an earlier record
  taken the rival away, or taken this record as its own rival, then a record of S
  (the rival, or that earlier record, since rivalry is symmetric) would stand before
  the first.
- Retrieval, context. `TraceInv`: the queue is in order of its links' depths, which
  differ by one at most, and unless the trace calls itself incomplete, every link
  out of a visited record leads to a visited one or is queued at its depth. If
  something within reach were missing, the nearest missing record would still be
  queued; at the end the queue is empty.
- Rekeying. A rotation may be marked verified only because the steps before the
  mark left nothing under the old key that the count does not see. `RotatePhase`
  and `EnvelopePhase` say what holds after each step, by the number of steps that
  are left; `Link` names the three ways in which the manifest on disk can be ahead
  of the one in memory; `Fine` says of every ciphertext that the manifest in
  memory reads it. A batch needs the lemmas about `First`: at most `n` records,
  and all of them when it comes back with fewer. That a call of the rotation
  advances (`AdvanceInv`) compares the numbers of rows before and after each of its
  three loops: a loop has used up what was left of the batch, or has left no row
  of its kind under the old key.
- Migration. `MigrationInv` has a part each for the source, the markers, the
  target and the run. Markers, tags and features go forward in one order, so
  adoption resumes wherever it was cut off. While a run is under way, its list of
  pairs names every record of the target, so the rollback that forgets them one by
  one leaves nothing. When it has ended, a bijection `f` takes every readable record
  to its copy (`Mirrored`); a copy names the record it was made from, and a chain of
  supersession has one end, so the current records that the verifier follows on both
  sides are twins.
- Recovery. As in Rekeying, `Link` names how the two manifests can differ. Whichever of the two an
  operation works from, its roots load (`Rooted`), and while the raw file of a
  root in custody exists, the receipt names the process that moved it (`RawSafe`),
  which is why only a later one can have made the custody active. The generations
  of the archives that the device was advanced to increase (`Increasing`) and none
  is beyond the device (`Kept`). A drill that the evidence names stays good until
  the device advances, and every advance belongs to an archive in `"advanced"`
  until its record replaces the evidence (`Drilled`).
- Broker. A job is in one place: a queue, the worker, what the stop left, or
  completed (`PlaceInv`); only who has it answers it, and it is in `ran` only
  while or after the worker had it (`JobInv`). `Turns` orders the rotation: a
  caller that was served since another's last turn has its next turn behind it.
- Enclave. Two facts carry it: an entry ages together with everything that was
  given no more time than it (a spent envelope is in the replay cache for as long
  as the session it names lives), and a name that somebody still refers to is
  never drawn again.
- Access. A job keeps the call it was begun for, so an answer is for the question
  that was asked although its caller may have given up (`JobInv`); the turns of
  Hermes and the tokens of OpenClaw name the evidence they were made from, and a
  token is in one place (`HermesInv`, `ClawInv`). A token of OpenClaw may be in
  another prompt than the one its evidence was asked for, but not when the
  evidence was asked for without a key (`Token`). With Pi the request itself checks
  the session, the model, the expiry and that the evidence is for the prompt on
  record, and a receipt that was used is in the replay cache or has expired
  (`TurnInv`). What is left is that the prompt on record is the run's. It need not
  be, since late answers change it; `PromptInv` lists what then keeps the run from
  its provider (`Misled`): it has failed, or the receipt is one that it has not
  injected, or one whose query is not the prompt on record. A first late answer
  leads into that list, no step but a second one leads out of it to the provider,
  and the proof attempt is how the exception above was found: TLC has the
  counterexample at three calls and four receipts, beyond the bounds of the run.

Left to TLC, and why.

- The liveness of `Access` and `Broker` (`OutageEnds`, `EveryRequestAnswered`):
  it rests on fairness, so on ENABLED.
- The two violations, which are counterexamples.

Every other property that a run checks is stated by a theorem.

## 6. Not modelled

- Cryptographic primitives, embeddings and their nearest-neighbour index,
  floating-point scores, conflict and drift statistics: no property here depends
  on their values.
- File permissions and ownership, launching of processes, parsing of arguments
  and frames, reports, benchmarks, the website, packaging checks: input and output
  without state of their own.
- In the modelled components: the cap on locks in Oracle, the in-process tiers
  without a store, content equality (a duplicate remember returns the existing
  record), the storage capacity gate, storage maintenance and reindex, what causes
  a quarantine, portable archives and portable custody, archives from before v3
  and damaged archive members, the broker's socket file, the override
  `allow_inferential` of check_generation_gate (which payloads are given out is
  in no property), and PreflightReceiptVerifier, which no host uses.
