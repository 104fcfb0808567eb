------------------------------- MODULE Access -------------------------------
(***************************************************************************)
(* The hosts that may call a model provider only with evidence from the    *)
(* memory: the Pi extension (a signed receipt for each provider request),  *)
(* the Hermes plugin (a nonce for each turn), the OpenClaw plugin (an      *)
(* attestation token for each run) and the guarded runner (one preflight,  *)
(* then the host).  Each behaviour has one of them, over the adapter.      *)
(*                                                                         *)
(* The host programs are external: they raise the events in their order,   *)
(* but a session may be replaced, a model switched or a turn abandoned     *)
(* while a handler of the plugin awaits its call, and a handler that       *)
(* returns late still changes the plugin's state.  The text of each        *)
(* preflight is taken to be different from any other.  With OpenClaw a     *)
(* session is the context that the host passes to a handler: contexts may  *)
(* share some of their keys, or have none.                                 *)
(***************************************************************************)
EXTENDS Adapter

CONSTANTS
  MaxReplay,    \* MAX_REPLAY_ENTRIES
  MaxReady,     \* MAX_READY_TURNS
  MaxPending,   \* MAX_PENDING_PREFLIGHTS
  MaxChanges,   \* how often Pi's session and model change
  Keys          \* OpenClaw: which run, session and session key a context names

ASSUME AccessAssumption ==
  /\ {MaxReplay, MaxReady, MaxPending} \subseteq Nat \ {0}
  /\ MaxChanges \in Nat /\ {Sessions, Models} \subseteq SUBSET Nat
  /\ DOMAIN Keys = Sessions

VARIABLES
  host,      \* the host of this behaviour
  session,   \* Pi: the session and the model that are selected
  model,
  pi,        \* Pi: the extension's state
  run,       \* Pi: the agent run of the host
  consumed,  \* Pi: the receipts in the replay cache
  ready,     \* Hermes: _ready_turns; ids grow in the order of insertion
  pending,   \* OpenClaw: prepared and not yet injected
  gate,      \* OpenClaw: injected and waiting for beforeAgentRun, each with
             \* the prompt that it was put into
  provider   \* the others: the provider request that was just admitted

piVars == <<session, model, pi, run, consumed>>
hostVars == <<piVars, ready, pending, gate>>
vars == <<adapterVars, host, hostVars, provider>>

\* What the hosts leave alone of the adapter.
served == <<modelVars, transport, adapter, job, expired>>

NoTurn == [state |-> "idle", turn |-> 0, query |-> 0, inPrompt |-> FALSE]
NoRun == [phase |-> "none", prompt |-> 0, system |-> 0, message |-> 0,
          late |-> 0]

Started == {"agent", "turn", "turning", "context", "request", "provider"}

\* History: a handler of an earlier run returns with a receipt after this one
\* has started; more than two make no difference.
Overtaken ==
  IF run.phase \in Started /\ run.late < 2
  THEN [run EXCEPT !.late = @ + 1] ELSE run

\* The evidence i goes out with a provider request.
Admit(i) ==
  issued' = [issued EXCEPT ![i].uses = IF @ < 2 THEN @ + 1 ELSE @]

RequestBy(s, q) == provider' = [session |-> s, query |-> q]

NoRequest == [session |-> 0, query |-> 0]

Refuse == provider' = NoRequest /\ UNCHANGED issued

\* What an answered call brings: the evidence it asked for, or a failure.
\* The runner's calls go through the adapter step by step; for the others
\* the answer is one step with any of the outcomes the adapter has.  An
\* answer that Pi finds expired when it verifies it is a failure.
Fresh == Len(issued) + 1

Entry(i) == [session |-> calls[i].session, query |-> calls[i].query,
             id |-> Fresh]

Answered(i, by, ok) ==
  /\ calls[i].by = by
  /\ calls' = [calls EXCEPT ![i] = NoCall]
  /\ IF ok
     THEN /\ Fresh <= MaxEvidence
          /\ issued' = Append(issued, EvidenceFor(calls[i], "semantic"))
     ELSE UNCHANGED issued
  /\ provider' = NoRequest

----------------------------------------------------------------------------
(* Pi *)

\* failClosed.  Its abort ends a run that has started: the host makes no
\* request of it any more and settles.  Before the start of the agent, or by
\* a handler that returns too late, it stops nothing.
FailClosed == pi' = [pi EXCEPT !.state = "failed", !.turn = 0,
                               !.inPrompt = FALSE]
Abort == run' = [NoRun EXCEPT !.phase = "aborted"]

\* Pi's sessions and models are numbered from 1 in the order of selection.
MayChange == session + model < 2 + MaxChanges

Ask(by, q) == calls' = Asked(by, q, session, model)

\* prepareTurn has returned the receipt of a call.
Prepared(inPrompt) ==
  [pi EXCEPT !.turn = Fresh, !.inPrompt = inPrompt]

\* on input, up to the await.
PiInput(q) ==
  /\ run.phase = "none" /\ pi.state = "idle" /\ FreeSlots # {}
  /\ pi' = [pi EXCEPT !.state = "input_pending", !.query = q]
  /\ run' = [NoRun EXCEPT !.phase = "input"]
  /\ Ask("input", q)
  /\ UNCHANGED <<session, model, consumed>> /\ Refuse

\* The rest of it: the state is set whatever happened in between.  The host
\* may expand the text into another prompt.
PiInputReturns(i, q, ok) ==
  /\ Answered(i, "input", ok)
  /\ IF ok
     THEN /\ pi' = [Prepared(TRUE) EXCEPT !.state = "receipt_ready"]
          /\ run' = IF calls[i].live
                    THEN [NoRun EXCEPT !.phase = "queued", !.prompt = q]
                    ELSE Overtaken
     ELSE /\ FailClosed
          /\ run' = IF calls[i].live THEN NoRun ELSE run
  /\ UNCHANGED <<session, model, consumed>>

\* A prompt that does not come through the input event.
PiPrompt(q) ==
  /\ run.phase = "none"
  /\ run' = [NoRun EXCEPT !.phase = "queued", !.prompt = q]
  /\ UNCHANGED <<session, model, pi, consumed, calls>> /\ Refuse

\* on before_agent_start: the receipt of the input event is used when it is
\* for this very prompt.
PiBeforeAgentStart ==
  /\ run.phase = "queued"
  /\ LET mustPrepare == pi.state = "idle" \/ pi.turn = 0 \/ pi.query # run.prompt
     IN  \/ /\ pi.state \notin {"receipt_ready", "idle"}
            /\ FailClosed
            /\ run' = [run EXCEPT !.phase = "agent"]
            /\ UNCHANGED calls
         \/ /\ pi.state \in {"receipt_ready", "idle"} /\ mustPrepare
            /\ FreeSlots # {}
            /\ Ask("start", run.prompt)
            /\ run' = [run EXCEPT !.phase = "starting"]
            /\ UNCHANGED pi
         \/ /\ pi.state = "receipt_ready" /\ ~mustPrepare
            /\ run' = [run EXCEPT !.phase = "agent", !.system = pi.turn]
            /\ UNCHANGED <<pi, calls>>
  /\ UNCHANGED <<session, model, consumed>> /\ Refuse

PiStartReturns(i, ok) ==
  /\ Answered(i, "start", ok)
  /\ IF ok
     THEN pi' = [Prepared(TRUE) EXCEPT !.state = "receipt_ready",
                                          !.query = calls[i].query]
     ELSE FailClosed
  /\ run' = IF calls[i].live
            THEN [run EXCEPT !.phase = "agent",
                             !.system = IF ok THEN Fresh ELSE 0]
            ELSE IF ok THEN Overtaken ELSE run
  /\ UNCHANGED <<session, model, consumed>>

PiAgentStart ==
  /\ run.phase = "agent"
  /\ IF pi.state = "receipt_ready" /\ pi.turn # 0
     THEN /\ pi' = [pi EXCEPT !.state = "agent_running"]
          /\ run' = [run EXCEPT !.phase = "turn"]
     ELSE FailClosed /\ Abort
  /\ UNCHANGED <<session, model, consumed, calls>> /\ Refuse

\* on turn_start: the first turn of a run has the receipt of its start, every
\* later one gets its own.
PiTurnStart ==
  /\ run.phase = "turn"
  /\ \/ /\ pi.state = "agent_running" /\ pi.turn # 0
        /\ pi' = [pi EXCEPT !.state = "provider_pending"]
        /\ run' = [run EXCEPT !.phase = "context"]
        /\ UNCHANGED calls
     \/ /\ pi.state = "between_turns" /\ pi.query # 0 /\ FreeSlots # {}
        /\ Ask("turn", pi.query)
        /\ run' = [run EXCEPT !.phase = "turning"]
        /\ UNCHANGED pi
     \/ /\ ~(pi.state = "agent_running" /\ pi.turn # 0)
        /\ pi.state # "between_turns" \/ pi.query = 0
        /\ FailClosed /\ Abort
        /\ UNCHANGED calls
  /\ UNCHANGED <<session, model, consumed>> /\ Refuse

PiTurnReturns(i, ok) ==
  /\ Answered(i, "turn", ok)
  /\ IF ok
     THEN pi' = [Prepared(FALSE) EXCEPT !.state = "provider_pending"]
     ELSE FailClosed
  /\ CASE ~calls[i].live -> run' = IF ok THEN Overtaken ELSE run
       [] calls[i].live /\ ok -> run' = [run EXCEPT !.phase = "context"]
       [] calls[i].live /\ ~ok -> Abort
  /\ UNCHANGED <<session, model, consumed>>

\* on context: a receipt that is not in the system prompt joins the messages.
PiContext ==
  /\ run.phase = "context"
  /\ IF pi.state = "provider_pending" /\ pi.turn # 0
     THEN /\ run' = [run EXCEPT !.phase = "request",
                       !.message = IF pi.inPrompt THEN 0 ELSE pi.turn]
          /\ UNCHANGED pi
     ELSE FailClosed /\ Abort
  /\ UNCHANGED <<session, model, consumed, calls>> /\ Refuse

BindingsUnchecked(i) == i # 0 /\ i \notin expired

\* The claims of a receipt that depend on the moment: expectedClaims.
Binds(e, s, m, q) == e.session = s /\ e.model = m /\ e.query = q

\* verifyPreflightResponse against the bindings of this moment.
BindingsHold(i) ==
  /\ i # 0 /\ i \notin expired
  /\ Binds(issued[i], session, model, pi.query)

\* consume: what has expired leaves the replay cache first.
Consumable(i) ==
  /\ i \notin consumed \ expired
  /\ Cardinality(consumed \ expired) < MaxReplay

\* on before_provider_request.  Another extension may have stripped the
\* context from the payload; the receipt is consumed all the same.
PiBeforeProviderRequest(stripped) ==
  /\ run.phase = "request"
  /\ LET may == /\ pi.state = "provider_pending" /\ pi.query # 0
                /\ BindingsHold(pi.turn)
                /\ Consumable(pi.turn)
         present == ~stripped /\ pi.turn \in {run.system, run.message}
     IN  /\ consumed' = IF may THEN (consumed \ expired) \cup {pi.turn}
                        ELSE IF pi.state = "provider_pending" /\ pi.query # 0
                                /\ BindingsHold(pi.turn)
                        THEN consumed \ expired ELSE consumed
         /\ IF may /\ present
            THEN /\ pi' = [pi EXCEPT !.state = "provider_authorized"]
                 /\ run' = [run EXCEPT !.phase = "provider", !.message = 0]
                 /\ Admit(pi.turn) /\ UNCHANGED provider
            ELSE FailClosed /\ Abort /\ Refuse
  /\ UNCHANGED <<session, model, calls>>

PiTurnEnd ==
  /\ run.phase = "provider"
  /\ IF pi.state = "provider_authorized"
     THEN /\ pi' = [pi EXCEPT !.turn = 0, !.inPrompt = FALSE,
                              !.state = "between_turns"]
          /\ run' = [run EXCEPT !.phase = "turn"]
     ELSE FailClosed /\ Abort
  /\ UNCHANGED <<session, model, consumed, calls>> /\ Refuse

\* on agent_settled: a run ends between two of its events.
PiSettled ==
  /\ run.phase \in {"agent", "turn", "context", "request", "provider",
                   "aborted"}
  /\ pi' = NoTurn
  /\ run' = NoRun
  /\ UNCHANGED <<session, model, consumed, calls>> /\ Refuse

\* on session_start: a new or a reloaded session (the return to an earlier
\* session is left to the latter).  The handlers that await a call are not
\* told.
PiSessionStart(s) ==
  /\ s = session \/ (s = session + 1 /\ MayChange)
  /\ session' = s
  /\ consumed' = {}
  /\ pi' = NoTurn
  /\ run' = NoRun
  /\ calls' = [i \in Slots |-> [calls[i] EXCEPT !.live = FALSE]]
  /\ UNCHANGED model /\ Refuse

\* The command echo-veil-availability; its lookup is Lookup of Adapter.
PiAvailability ==
  /\ pi' = [pi EXCEPT !.turn = 0, !.inPrompt = FALSE, !.state = "idle"]
  /\ UNCHANGED <<session, model, run, consumed, calls>> /\ Refuse

\* Another model, or another set of tools, is selected.
PiSwitchModel(m) ==
  /\ m > model /\ MayChange
  /\ model' = m
  /\ UNCHANGED <<session, pi, run, consumed, calls>> /\ Refuse

PiNext ==
  \/ \E q \in Queries : PiInput(q) \/ PiPrompt(q)
  \/ \E i \in Slots, ok \in BOOLEAN :
       \/ \E q \in Queries : PiInputReturns(i, q, ok)
       \/ PiStartReturns(i, ok) \/ PiTurnReturns(i, ok)
  \/ PiBeforeAgentStart \/ PiAgentStart \/ PiTurnStart \/ PiContext
  \/ \E stripped \in BOOLEAN : PiBeforeProviderRequest(stripped)
  \/ PiTurnEnd \/ PiSettled \/ PiAvailability
  \/ \E s \in Sessions : PiSessionStart(s)
  \/ \E m \in Models : PiSwitchModel(m)

----------------------------------------------------------------------------
(* Hermes: a turn is its session and its query *)

Without(s, q) == {e \in ready : e.session # s \/ e.query # q}

\* on_pre_llm_call, up to the call.
HermesPre(s, q) ==
  /\ FreeSlots # {}
  /\ ready' = Without(s, q)
  /\ calls' = Asked("pre", q, s, 0)
  /\ Refuse

\* _mark_turn_ready: the oldest turn makes room.
Evicted(turns) ==
  IF Cardinality(turns) > MaxReady
  THEN {e \in turns : \E f \in turns : f.id < e.id} ELSE turns

HermesPreReturns(i, ok) ==
  /\ Answered(i, "pre", ok)
  /\ LET rest == Without(calls[i].session, calls[i].query)
     IN  ready' = IF ok THEN Evicted(rest \cup {Entry(i)}) ELSE rest

\* on_llm_execution: the nonce stays, since the host retries by itself; a
\* request without the nonce of its turn is blocked and changes nothing.
HermesExecute(s, q) ==
  /\ \E e \in ready :
       /\ e.session = s /\ e.query = q
       /\ Admit(e.id) /\ RequestBy(s, q)
  /\ UNCHANGED <<ready, calls>>

\* on_session_closed.
HermesClose(s) ==
  /\ ready' = {e \in ready : e.session # s}
  /\ UNCHANGED calls /\ Refuse

HermesNext ==
  \/ \E s \in Sessions, q \in Queries : HermesPre(s, q) \/ HermesExecute(s, q)
  \/ \E i \in Slots, ok \in BOOLEAN : HermesPreReturns(i, ok)
  \/ \E s \in Sessions : HermesClose(s)

----------------------------------------------------------------------------
(* OpenClaw *)

\* prune.
Live(entries) == {e \in entries : e.id \notin expired}

Capacity == Cardinality(Live(pending)) + Cardinality(Live(gate)) < MaxPending

\* beforeAgentReply, up to the call: the capacity is checked before it.
ClawReply(s, q) ==
  /\ FreeSlots # {} /\ Capacity
  /\ pending' = Live(pending) /\ gate' = Live(gate)
  /\ calls' = Asked("reply", q, s, 0)
  /\ Refuse

\* turnIdentityKeys finds nothing in the context.
Nameless(s) == Keys[s] = {}

\* identitiesOverlap: any key that both have will do.
Overlap(s, t) == Keys[s] \cap Keys[t] # {}

\* The new record replaces those for the same prompt that share a key.
ClawReplyReturns(i, ok) ==
  /\ Answered(i, "reply", ok)
  /\ pending' = IF ok
                THEN {e \in pending : \/ ~Overlap(e.session, calls[i].session)
                                      \/ e.query # calls[i].query}
                       \cup {Entry(i)}
                ELSE pending
  /\ UNCHANGED gate

\* beforePromptBuild: the one record that shares a key, or among several the
\* first for this prompt, or, when none does, the one record for this prompt.
Candidates(s, q) ==
  LET sharing == {e \in Live(pending) : Overlap(e.session, s)}
      ofPrompt == {e \in Live(pending) : e.query = q}
  IN  CASE Cardinality(sharing) = 1 -> sharing
        [] Cardinality(sharing) > 1 -> sharing \cap ofPrompt
        [] sharing = {} /\ Cardinality(ofPrompt) = 1 -> ofPrompt
        [] OTHER -> {}

\* injectRecord drops the digest of the prompt that the evidence is for.
ClawBuild(s, q) ==
  /\ \/ \E e \in Candidates(s, q) :
          /\ \A f \in Candidates(s, q) : e.id <= f.id
          /\ pending' = Live(pending) \ {e}
          /\ gate' = Live(gate) \cup {[e EXCEPT !.query = q]}
          /\ UNCHANGED calls
     \/ /\ Candidates(s, q) = {} /\ FreeSlots # {} /\ Capacity
        /\ calls' = Asked("build", q, s, 0)
        /\ pending' = Live(pending) /\ gate' = Live(gate)
  /\ Refuse

ClawBuildReturns(i, ok) ==
  /\ Answered(i, "build", ok)
  /\ gate' = IF ok THEN gate \cup {Entry(i)} ELSE gate
  /\ UNCHANGED pending

\* The identities are compared only when there are some on both sides.
SameIdentity(e, s) ==
  Nameless(e.session) \/ Nameless(s) \/ Overlap(e.session, s)

\* beforeAgentRun, of a prompt that carries this token and may have lost the
\* text it came with: the token is spent whether or not it passes.
ClawGate(s, e, complete) ==
  /\ e \in Live(gate)
  /\ gate' = Live(gate) \ {e}
  /\ pending' = Live(pending)
  /\ IF complete /\ SameIdentity(e, s)
     THEN Admit(e.id) /\ RequestBy(s, e.query) ELSE Refuse
  /\ UNCHANGED calls

\* A handler finds the hook policy changed and drops everything.
ClawPolicyLost ==
  /\ pending' = {} /\ gate' = {}
  /\ UNCHANGED calls /\ Refuse

ClawNext ==
  \/ \E s \in Sessions, q \in Queries : ClawReply(s, q) \/ ClawBuild(s, q)
  \/ \E i \in Slots, ok \in BOOLEAN :
       ClawReplyReturns(i, ok) \/ ClawBuildReturns(i, ok)
  \/ \E s \in Sessions, e \in gate, complete \in BOOLEAN :
       ClawGate(s, e, complete)
  \/ ClawPolicyLost

----------------------------------------------------------------------------
(* The guarded runner and the prompt hook: one preflight, one host run *)

RunnerStart(q) ==
  /\ FreeSlots # {}
  /\ calls' = Asked("runner", q, 1, 0)
  /\ Refuse

RunnerReturns(i) ==
  /\ calls[i].status \in {"done", "failed"}
  /\ calls' = [calls EXCEPT ![i] = NoCall]
  /\ IF calls[i].status = "done"
     THEN Admit(calls[i].id) /\ RequestBy(calls[i].session, calls[i].query)
     ELSE Refuse

RunnerNext ==
  \/ \E q \in Queries : RunnerStart(q)
  \/ \E i \in Slots : RunnerReturns(i)

----------------------------------------------------------------------------
(* Composition *)

Init ==
  /\ AdapterInit
  /\ host \in {"pi", "hermes", "openclaw", "runner"}
  /\ host # "runner" => config = "staging"
  /\ session = 1 /\ model = 1
  /\ pi = NoTurn /\ run = NoRun /\ consumed = {}
  /\ ready = {}
  /\ pending = {} /\ gate = {}
  /\ provider = NoRequest

HostNext ==
  \/ host = "pi" /\ PiNext /\ UNCHANGED <<ready, pending, gate>>
  \/ host = "hermes" /\ HermesNext /\ UNCHANGED <<piVars, pending, gate>>
  \/ host = "openclaw" /\ ClawNext /\ UNCHANGED <<piVars, ready>>
  \/ host = "runner" /\ RunnerNext /\ UNCHANGED hostVars

\* Pi's receipts live equally long and are taken to arrive in the order of
\* their issue, so they expire in that order.
EvidenceExpires ==
  /\ host \in {"pi", "openclaw"}
  /\ \E i \in 1..MaxEvidence :
       Expire(i) /\ (host = "pi" => 1..(i - 1) \subseteq expired)
  /\ UNCHANGED <<hostVars, provider>>

Next ==
  \/ host = "runner" /\ AdapterNext /\ UNCHANGED <<hostVars, provider>>
  \/ EvidenceExpires
  \/ HostNext /\ UNCHANGED served

\* Where the calls go through the adapter, the server's thread serves its
\* queue, clients keep using the memory and time passes.  Nothing makes the
\* model server recover, and nobody restarts the process.
AdapterFairness ==
  /\ WF_adapterVars(host = "runner" /\ Serve)
  /\ WF_adapterVars(host = "runner" /\ Use)
  /\ WF_adapterVars(host = "runner" /\ CoolDown)

Spec ==
  /\ Init /\ [][Next /\ UNCHANGED host]_vars
  /\ AdapterFairness

----------------------------------------------------------------------------
(* Properties *)

EntrySet == [session : Sessions \cup {0, 1}, query : Queries \cup {0}, id : Nat]
Ids == {0} \cup DOMAIN issued

TypeOK ==
  /\ AdapterTypeOK
  /\ host \in {"pi", "hermes", "openclaw", "runner"}
  /\ session \in Sessions \cup {1} /\ model \in Models \cup {1}
  /\ pi \in [state : {"idle", "input_pending", "receipt_ready", "agent_running",
                      "provider_pending", "provider_authorized", "between_turns",
                      "failed"},
             turn : Ids, query : Queries \cup {0}, inPrompt : BOOLEAN]
  /\ run \in [phase : {"none", "input", "queued", "starting", "aborted"} \cup Started,
              prompt : Queries \cup {0}, system : Ids, message : Ids, late : 0 .. 2]
  /\ consumed \subseteq DOMAIN issued
  /\ {ready, pending, gate} \subseteq SUBSET EntrySet
  /\ provider \in [session : Sessions \cup {0, 1}, query : Queries \cup {0}]

\* The evidence is for the context s and the prompt q of an OpenClaw run, as
\* far as its gate can tell: they share a key, or the evidence was asked for
\* without any and is for this very prompt, or the run itself has none.
ClawEvidence(e, s, q) ==
  \/ Overlap(e.session, s)
  \/ Nameless(e.session) /\ e.query = q
  \/ Nameless(s)

\* Evidence that goes out with the request of this step is fit for it.
EvidenceFits ==
  \A i \in DOMAIN issued :
    issued'[i].uses > issued[i].uses =>
      /\ issued[i].basis = "semantic"
      /\ host = "pi" => /\ issued[i].session = session
                        /\ issued[i].query = run.prompt \/ run.late = 2
                        /\ issued[i].model = model
      /\ host \in {"hermes", "runner"} =>
           /\ issued[i].session = provider'.session
           /\ issued[i].query = provider'.query
      /\ host = "openclaw" =>
           ClawEvidence(issued[i], provider'.session, provider'.query)
      /\ host \in {"pi", "openclaw"} => i \notin expired /\ issued[i].uses = 0

\* No provider request goes out on other evidence than its own: what is
\* admitted was recalled semantically, with Pi, Hermes and the runner for the
\* session in which the request is made and for the prompt of the run that
\* makes it, and with Pi for the model that is selected at that moment; Pi
\* and OpenClaw use unexpired evidence, and use it once.  This holds although
\* sessions are replaced, models switched and runs abandoned while handlers
\* await their answers, late answers are applied, and the adapter steps down
\* in mid-preflight.
\* Two exceptions.  Two late answers in one run of Pi, one of a start and one
\* of a turn, together pass the bindings with the prompt of the run they
\* belong to.  OpenClaw has no session of a request, only the keys that the
\* host passes: evidence that was asked for with keys goes out with a run
\* that has one of them, for whatever prompt; evidence that was asked for
\* without goes out with any run, for its own prompt; and a run without keys
\* is admitted on the evidence of any other.
GuardedProviderCall == [][EvidenceFits]_vars

\* When the model server is back for good and the semantic adapter is still
\* the one that serves, the circuit closes again: a refusal while it cools
\* down, or a failure that is counted, never keeps it from being tried.
\* (In production it can: see OutageEnds in the README.)
OutageEnds ==
  config # "production" =>
    (<>[](service = "up" /\ adapter = "semantic")
       => <>[](transport.state = "healthy"))
=============================================================================
