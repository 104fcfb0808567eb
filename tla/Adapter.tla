------------------------------ MODULE Adapter ------------------------------
(***************************************************************************)
(* The process that serves a profile, as far as its embedding model is     *)
(* concerned: the embedder's transport with its circuit                    *)
(* (OllamaTextEmbedder), the adapter that steps down to read-only recall   *)
(* when the model is out (_RuntimeAvailabilityMemory,                      *)
(* AlwaysAvailableMemory), the production gate (assert_operational_mode),  *)
(* and the preflight (prepare_preflight, prepare_preflight_v2) that turns  *)
(* a recall and a context trace into evidence for one turn of a host.      *)
(*                                                                         *)
(* Calls of hosts wait in slots and are served one at a time, as the       *)
(* broker does; a process of its own for each call is a Restart before it. *)
(* The model server is external.                                           *)
(***************************************************************************)
EXTENDS Naturals, Sequences, FiniteSets

CONSTANTS
  Threshold,    \* OLLAMA_CIRCUIT_FAILURE_THRESHOLD
  MaxOutages,   \* how often the model server ever gets into trouble
  MaxEvidence,  \* how many preflights ever succeed
  Slots,        \* the calls that may be under way
  Queries, Sessions, Models

ASSUME AdapterAssumption ==
  /\ Threshold \in Nat \ {0}
  /\ {MaxOutages, MaxEvidence} \subseteq Nat
  /\ \A S \in {Queries, Sessions, Models} : S # {} /\ 0 \notin S
  /\ 0 \notin Slots

VARIABLES
  config,     \* "staging", "failover" (with the availability layer) or
              \* "production"
  service,    \* the model server
  outages,    \* how often it got into trouble
  transport,  \* the circuit of the embedder
  adapter,    \* "semantic", "offline" (AlwaysAvailableMemory) or "closed"
  calls,      \* the preflight calls under way
  job,        \* the call that is being served
  issued,     \* the evidence handed out, in order
  expired     \* the evidence whose lifetime has passed

modelVars == <<config, service, outages>>
adapterVars == <<modelVars, transport, adapter, calls, job, issued, expired>>

Configs == {"staging", "failover", "production"}
Troubles == {"down", "loading", "missing", "garbled"}

----------------------------------------------------------------------------
(* The embedder *)

Healthy == [failures |-> 0, cooling |-> FALSE, state |-> "healthy"]

\* _record_transport_failure_locked; past the threshold the count has no
\* further effect.
Failed(t) ==
  IF t.failures + 1 >= Threshold
  THEN [failures |-> Threshold, cooling |-> TRUE, state |-> "open"]
  ELSE [t EXCEPT !.failures = @ + 1, !.state = "degraded"]

NoHalfOpen(t, reply) ==
  IF t.state = "open" THEN [transport |-> t, ends |-> "unavailable"]
  ELSE IF reply = "ok" THEN [transport |-> Healthy, ends |-> "ok"]
  ELSE [transport |-> IF reply = "none" THEN Failed(t) ELSE t,
        ends |-> IF reply = "none" THEN "unavailable" ELSE "error"]

\* _request_json: what it makes of the transport, and how it ends.
Request(t, reply) ==
  LET tried == [t EXCEPT !.state = IF @ = "open" THEN "half-open" ELSE @]
  IN  IF t.cooling
      THEN [transport |-> [t EXCEPT !.state = "open"], ends |-> "unavailable"]
      ELSE CASE reply = "ok" -> [transport |-> Healthy, ends |-> "ok"]
             [] reply = "none" -> [transport |-> Failed(tried),
                                   ends |-> "unavailable"]
             [] reply = "invalid" -> [transport |-> tried, ends |-> "error"]

\* What the server answers to GET /api/tags and to POST /api/embed: while it
\* loads the model only the first succeeds.
TagsReply ==
  CASE service = "down" -> "none"
    [] service = "garbled" -> "invalid"
    [] OTHER -> "ok"

EmbedReply == IF service = "up" THEN "ok" ELSE "none"

\* _resolve_model: a model that is not installed is unavailable.
ResolveModel(t) ==
  LET tags == Request(t, TagsReply)
  IN  IF tags.ends = "ok" /\ service = "missing"
      THEN [tags EXCEPT !.ends = "unavailable"]
      ELSE tags

\* _embed_batch.
Embed(t) ==
  LET model == ResolveModel(t)
  IN  IF model.ends = "ok" THEN Request(model.transport, EmbedReply) ELSE model

----------------------------------------------------------------------------
(* The adapter *)

\* doctor: model_available.
ModelAvailable == transport.state \notin {"degraded", "open"}

\* assert_operational_mode: the other gates of production are taken as met.
Operational == config = "production" => ModelAvailable

\* assert_doctor_ready.
DoctorReady == adapter = "semantic" /\ Operational

\* _degrade closes the memory before it opens the read-only one, which may
\* fail.
Degraded == {"offline", "closed"}

\* What becomes of the adapter when an embedding ends so.
AdapterAfter(ends) ==
  IF ends = "unavailable" /\ config = "failover" THEN Degraded ELSE {adapter}

\* An operation of any client that embeds something: remember, refresh_live,
\* recall, context, reindex.
Use ==
  /\ adapter = "semantic" /\ Operational /\ job.slot = 0
  /\ LET e == Embed(transport)
     IN  /\ transport' = e.transport
         /\ adapter' \in AdapterAfter(e.ends)
  /\ UNCHANGED <<modelVars, calls, job, issued, expired>>

\* availability_recall: the adapter steps down whether or not the model is
\* available, and stays so.
Lookup ==
  /\ config = "failover" /\ adapter \in {"semantic", "closed"}
  /\ job.slot = 0
  /\ adapter' \in Degraded
  /\ UNCHANGED <<modelVars, transport, calls, job, issued, expired>>

\* _open_memory in a new process: the embedder looks its model up.
Restart ==
  /\ job.slot = 0
  /\ LET e == ResolveModel(Healthy)
     IN  /\ transport' = e.transport
         /\ adapter' = CASE e.ends = "ok" -> "semantic"
                         [] e.ends = "unavailable" /\ config = "failover" ->
                              "offline"
                         [] OTHER -> "closed"
  /\ UNCHANGED <<modelVars, calls, job, issued, expired>>

----------------------------------------------------------------------------
(* The model server, and time *)

Trouble(s) ==
  /\ service = "up" /\ outages < MaxOutages
  /\ service' = s
  /\ outages' = outages + 1
  /\ UNCHANGED <<config, transport, adapter, calls, job, issued, expired>>

Recover ==
  /\ service # "up"
  /\ service' = "up"
  /\ UNCHANGED <<config, outages, transport, adapter, calls, job, issued,
                 expired>>

\* OLLAMA_CIRCUIT_COOLDOWN_SECONDS pass.
CoolDown ==
  /\ transport.cooling
  /\ transport' = [transport EXCEPT !.cooling = FALSE]
  /\ UNCHANGED <<modelVars, adapter, calls, job, issued, expired>>

Expire(i) ==
  /\ i \in DOMAIN issued \ expired
  /\ expired' = expired \cup {i}
  /\ UNCHANGED <<modelVars, transport, adapter, calls, job, issued>>

----------------------------------------------------------------------------
(* The preflight *)

NoCall == [by |-> "", query |-> 0, session |-> 0, model |-> 0,
           status |-> "", id |-> 0, live |-> FALSE]
NoJob == [slot |-> 0, call |-> NoCall, phase |-> "", basis |-> ""]

FreeSlots == {i \in Slots : calls[i] = NoCall}

\* The calls after a host asked for evidence: the slots are interchangeable.
Asked(by, q, s, m) ==
  LET i == CHOOSE j \in FreeSlots : TRUE
  IN  [calls EXCEPT ![i] =
         [by |-> by, query |-> q, session |-> s, model |-> m,
          status |-> "queued", id |-> 0, live |-> TRUE]]

\* The job ends: its caller learns how, unless it has given up.
Ended(status, id) ==
  /\ calls' = IF calls[job.slot].status = "running"
              THEN [calls EXCEPT ![job.slot].status = status,
                                 ![job.slot].id = id]
              ELSE calls
  /\ job' = NoJob

\* dispatch, and the doctor's report that the preflight starts with.
Begin(i) ==
  /\ job.slot = 0 /\ calls[i].status = "queued"
  /\ IF DoctorReady
     THEN /\ calls' = [calls EXCEPT ![i].status = "running"]
          /\ job' = [slot |-> i, call |-> calls[i], phase |-> "recall",
                     basis |-> "semantic"]
     ELSE /\ calls' = [calls EXCEPT ![i].status = "failed"]
          /\ UNCHANGED job
  /\ UNCHANGED <<modelVars, transport, adapter, issued, expired>>

\* preview_recall and preview_context: an embedding, and the step down to
\* read-only recall when it is unavailable; a step down made by the recall
\* makes the context trace read-only too.
Retrieve(phase, next) ==
  /\ job.phase = phase
  /\ IF adapter = "offline"
     THEN /\ job' = [job EXCEPT !.phase = next, !.basis = "degraded"]
          /\ UNCHANGED <<transport, adapter, calls>>
     ELSE LET e == Embed(transport)
          IN  /\ transport' = e.transport
              /\ adapter' \in AdapterAfter(e.ends)
              /\ IF e.ends = "ok"
                 THEN /\ job' = [job EXCEPT !.phase = next]
                      /\ UNCHANGED calls
                 ELSE IF adapter' = "offline"
                 THEN /\ job' = [job EXCEPT !.phase = next,
                                            !.basis = "degraded"]
                      /\ UNCHANGED calls
                 ELSE Ended("failed", 0)
  /\ UNCHANGED <<modelVars, issued, expired>>

\* The context trace is made for queries that call for it.
PreviewRecall == \E next \in {"context", "issue"} : Retrieve("recall", next)
PreviewContext == Retrieve("context", "issue")

AnyBasis(basis) == TRUE

\* _compact_recall and _compact_context: evidence from a degraded answer is
\* refused.
Acceptable(basis) == basis = "semantic"

\* The claims of the evidence; uses counts the provider requests made on it.
EvidenceFor(call, basis) ==
  [query |-> call.query, session |-> call.session, model |-> call.model,
   basis |-> basis, uses |-> 0]

\* build_preflight_evidence and issue, or one of them raises.
Issue ==
  /\ job.phase = "issue"
  /\ \/ /\ Acceptable(job.basis) /\ Len(issued) < MaxEvidence
        /\ issued' = Append(issued, EvidenceFor(job.call, job.basis))
        /\ Ended("done", Len(issued) + 1)
     \/ UNCHANGED issued /\ Ended("failed", 0)
  /\ UNCHANGED <<modelVars, transport, adapter, expired>>

\* The caller's time-out, or the process or the connection is lost.
TimeOut(i) ==
  /\ calls[i].status \in {"queued", "running"}
  /\ calls' = [calls EXCEPT ![i].status = "failed"]
  /\ UNCHANGED <<modelVars, transport, adapter, job, issued, expired>>

----------------------------------------------------------------------------
(* Composition *)

AdapterInit ==
  /\ config \in Configs
  /\ service = "up" /\ outages = 0
  /\ transport = Healthy
  /\ adapter = "semantic"
  /\ calls = [i \in Slots |-> NoCall]
  /\ job = NoJob
  /\ issued = <<>> /\ expired = {}

Serve ==
  \/ \E i \in Slots : Begin(i)
  \/ PreviewRecall \/ PreviewContext \/ Issue

AdapterNext ==
  \/ Use \/ Lookup \/ Restart \/ CoolDown \/ Recover \/ Serve
  \/ \E s \in Troubles : Trouble(s)
  \/ \E i \in Slots : TimeOut(i)

Callers == {"input", "start", "turn", "pre", "reply", "build", "runner"}

\* Sessions and models are numbered from 1; 0 stands for none.
CallSet == [by : Callers \cup {""}, query : Queries \cup {0},
            session : Sessions \cup {0, 1}, model : Models \cup {0, 1},
            status : {"", "queued", "running", "done", "failed"},
            id : Nat, live : BOOLEAN]

EvidenceSet == [query : Queries \cup {0}, session : Sessions \cup {0, 1},
                model : Models \cup {0, 1}, basis : {"semantic"}, uses : 0 .. 2]

AdapterTypeOK ==
  /\ config \in Configs
  /\ service \in {"up"} \cup Troubles
  /\ outages \in 0 .. MaxOutages
  /\ transport \in [failures : 0 .. Threshold, cooling : BOOLEAN,
                    state : {"healthy", "degraded", "open", "half-open"}]
  /\ transport.cooling => transport.failures = Threshold
  /\ adapter \in {"semantic", "offline", "closed"}
  /\ config # "failover" => adapter # "offline"
  /\ calls \in [Slots -> CallSet]
  /\ job \in [slot : Slots \cup {0}, call : CallSet,
              phase : {"", "recall", "context", "issue"},
              basis : {"", "semantic", "degraded"}]
  /\ issued \in Seq(EvidenceSet) /\ Len(issued) <= MaxEvidence
  /\ expired \subseteq DOMAIN issued
=============================================================================
