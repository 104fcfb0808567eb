---------------------------- MODULE AccessProofs ----------------------------
(***************************************************************************)
(* A provider is called with the evidence of its own request only, as      *)
(* GuardedProviderCall says it of each host, for any number of calls,      *)
(* sessions, models, queries and receipts, any keys and capacities and any *)
(* outages.                                                                *)
(*                                                                         *)
(* The runner's answers are for its own question, since a job keeps the    *)
(* call it was begun for. The turns of Hermes and the tokens of OpenClaw   *)
(* name the evidence they were made from; a token whose evidence was asked *)
(* for without a key is in the prompt that it is for, since only that      *)
(* brings the two together. With Pi the request checks session, model and  *)
(* the prompt on record; what is left is that a late answer which changes  *)
(* the prompt on record also takes away what the run has injected, so that *)
(* it needs a second one to go out.                                        *)
(***************************************************************************)
EXTENDS Access, SequenceTheorems, TLAPS

\* A job is for the call in its slot, unless its caller gave up; an answer
\* names evidence for the question that was asked.
JobInv ==
  /\ job.phase # "" <=> job.slot # 0
  /\ \A i \in Slots : calls[i].status = "running" =>
       /\ job.slot = i
       /\ job.call.query = calls[i].query /\ job.call.session = calls[i].session
  /\ \A i \in Slots : calls[i].status = "done" =>
       /\ calls[i].id \in DOMAIN issued
       /\ issued[calls[i].id].query = calls[i].query
       /\ issued[calls[i].id].session = calls[i].session

\* The handler that awaits a call, and where that leaves the run.
Awaits == {<<"input", "input">>, <<"start", "starting">>, <<"turn", "turning">>}

\* The run waits for one call at most, which is for its prompt.
LiveInv ==
  \A i \in Slots : calls[i].live =>
    /\ <<calls[i].by, run.phase>> \in Awaits
    /\ \A j \in Slots : calls[j].live => i = j
    /\ calls[i].by = "start" => calls[i].query = run.prompt
    /\ calls[i].by = "turn" /\ run.late < 2 => calls[i].query = run.prompt

\* A receipt that has been used is in the replay cache or has expired.
TurnInv ==
  /\ pi.state \in {"failed", "between_turns", "idle"} => pi.turn = 0
  /\ pi.turn # 0 /\ issued[pi.turn].uses > 0 => pi.turn \in consumed \cup expired
  /\ run.phase \notin Started => run.late = 0

\* What keeps a run that has another prompt on record from its provider.
Misled ==
  \/ pi.state \in {"failed", "idle"} /\ (run.late = 0 => run.phase = "agent")
  \/ run.late = 1 /\ pi.state = "provider_pending" /\ run.phase = "agent"
  \/ /\ run.late = 1
     /\ pi.state \in {"receipt_ready", "agent_running", "provider_pending"}
     /\ pi.inPrompt /\ pi.turn \notin {0, run.system, run.message}
  \/ /\ run.late = 1 /\ pi.state = "provider_pending"
     /\ pi.turn # 0 /\ issued[pi.turn].query = run.prompt

PromptInv ==
  run.phase \in Started /\ run.late < 2 /\ pi.query # run.prompt => Misled

PiInv == host = "pi" => LiveInv /\ TurnInv /\ PromptInv

\* An entry names the evidence it was made from.
For(e) ==
  /\ e.id \in DOMAIN issued
  /\ issued[e.id].session = e.session /\ issued[e.id].query = e.query

HermesInv == host = "hermes" => \A e \in ready : For(e)

\* A token names the evidence it was made from, which without a key is for
\* the prompt that the token is in.
Token(e) ==
  /\ e.id \in DOMAIN issued
  /\ issued[e.id].session = e.session
  /\ Nameless(e.session) => issued[e.id].query = e.query

\* A token is in one place and has not been used.
ClawTokens ==
  /\ \A e \in pending, f \in gate : e.id # f.id
  /\ \A e \in pending : For(e)
  /\ \A e \in gate : Token(e)
  /\ \A e \in pending \cup gate : issued[e.id].uses = 0
  /\ \A e, f \in pending \cup gate : e.id = f.id => e = f

ClawInv == host = "openclaw" => ClawTokens

IInv == TypeOK /\ JobInv /\ PiInv /\ HermesInv /\ ClawInv

-----------------------------------------------------------------------------
(* The embedder *)

Transports ==
  [failures : 0 .. Threshold, cooling : BOOLEAN,
   state : {"healthy", "degraded", "open", "half-open"}]

\* It cools down only once the failures have reached the threshold.
Circuit(t) == t \in Transports /\ (t.cooling => t.failures = Threshold)

\* A circuit, and the end of a request.
Sane(r) == Circuit(r.transport) /\ r.ends \in {"ok", "unavailable", "error"}

LEMMA FailedIs ==
  ASSUME NEW t, Circuit(t)
  PROVE  Circuit(Failed(t))
<1>1. Threshold \in Nat /\ t \in Transports
  BY AdapterAssumption DEF Circuit
<1>2. CASE t.failures + 1 >= Threshold
  BY <1>1, <1>2 DEF Failed, Transports, Circuit
<1>3. CASE ~(t.failures + 1 >= Threshold)
  <2> DEFINE u == Failed(t)
  <2>1. t.failures \in Nat /\ t.failures + 1 \in 0 .. Threshold /\ ~t.cooling
    BY <1>1, <1>3 DEF Transports, Circuit
  <2>2. u = [t EXCEPT !.failures = @ + 1, !.state = "degraded"]
    BY <1>3 DEF Failed
  <2>3. u = [failures |-> t.failures + 1, cooling |-> t.cooling, state |-> "degraded"]
    BY <1>1, <2>2 DEF Transports
  <2>4. u \in Transports /\ ~u.cooling
    BY <1>1, <2>1, <2>3 DEF Transports
  <2> QED  BY <2>4 DEF Circuit
<1> QED  BY <1>2, <1>3

LEMMA RequestIs ==
  ASSUME NEW t, Circuit(t), NEW reply \in {"ok", "none", "invalid"}
  PROVE  Sane(Request(t, reply))
<1> DEFINE tried == [t EXCEPT !.state = IF @ = "open" THEN "half-open" ELSE @]
<1>1. /\ Circuit(tried) /\ Circuit(Healthy)
      /\ Circuit([t EXCEPT !.state = "open"])
  BY AdapterAssumption DEF Circuit, Transports, Healthy
<1>2. Circuit(Failed(tried))
  BY <1>1, FailedIs
<1>3. Request(t, reply) =
        IF t.cooling
        THEN [transport |-> [t EXCEPT !.state = "open"], ends |-> "unavailable"]
        ELSE CASE reply = "ok" -> [transport |-> Healthy, ends |-> "ok"]
               [] reply = "none" -> [transport |-> Failed(tried),
                                     ends |-> "unavailable"]
               [] reply = "invalid" -> [transport |-> tried, ends |-> "error"]
  BY DEF Request
<1> HIDE DEF tried
<1> QED  BY <1>1, <1>2, <1>3 DEF Sane

\* A lookup of the model, and an embedding.
LEMMA EmbedIs ==
  ASSUME NEW t, Circuit(t)
  PROVE  Sane(ResolveModel(t)) /\ Sane(Embed(t))
<1> DEFINE tags == Request(t, TagsReply)
           found == ResolveModel(t)
<1>1. TagsReply \in {"ok", "none", "invalid"} /\ EmbedReply \in {"ok", "none", "invalid"}
  BY DEF TagsReply, EmbedReply
<1>2. Sane(tags)
  BY <1>1, RequestIs
<1>3. tags = [transport |-> tags.transport, ends |-> tags.ends]
  BY <1>1 DEF Request
<1>4. found = IF tags.ends = "ok" /\ service = "missing"
              THEN [tags EXCEPT !.ends = "unavailable"] ELSE tags
  BY DEF ResolveModel
<1> HIDE DEF tags, found
<1>5. Sane(found)
  BY <1>2, <1>3, <1>4 DEF Sane
<1>6. Sane(Request(found.transport, EmbedReply))
  BY <1>1, <1>5, RequestIs DEF Sane
<1>7. Embed(t) = IF found.ends = "ok" THEN Request(found.transport, EmbedReply) ELSE found
  BY DEF Embed, found
<1> QED  BY <1>5, <1>6, <1>7 DEF found

-----------------------------------------------------------------------------
(* The calls *)

\* A host asks: the call goes to a slot that was free.
Asks(by, q, s, m) ==
  \E i \in Slots :
    /\ calls[i] = NoCall
    /\ calls' = [calls EXCEPT ![i] =
                   [by |-> by, query |-> q, session |-> s, model |-> m,
                    status |-> "queued", id |-> 0, live |-> TRUE]]

LEMMA AskedIs ==
  ASSUME NEW by, NEW q, NEW s, NEW m, FreeSlots # {}, calls' = Asked(by, q, s, m)
  PROVE  Asks(by, q, s, m)
<1> DEFINE i == CHOOSE j \in FreeSlots : TRUE
<1>1. i \in FreeSlots
  OBVIOUS
<1>2. i \in Slots /\ calls[i] = NoCall
  BY <1>1 DEF FreeSlots
<1>3. calls' = [calls EXCEPT ![i] =
                   [by |-> by, query |-> q, session |-> s, model |-> m,
                    status |-> "queued", id |-> 0, live |-> TRUE]]
  BY DEF Asked
<1> HIDE DEF i
<1> QED  BY <1>2, <1>3 DEF Asks

LEMMA CallTypes ==
  /\ NoCall \in CallSet
  /\ \A by \in Callers, q \in Queries \cup {0}, s \in Sessions \cup {0, 1},
        m \in Models \cup {0, 1} :
       [by |-> by, query |-> q, session |-> s, model |-> m, status |-> "queued",
        id |-> 0, live |-> TRUE] \in CallSet
  /\ \A by, q, s, m :
       [by |-> by, query |-> q, session |-> s, model |-> m, status |-> "queued",
        id |-> 0, live |-> TRUE] # NoCall
BY DEF NoCall, CallSet

LEMMA CallEdits ==
  ASSUME NEW c \in CallSet, NEW st \in {"", "queued", "running", "done", "failed"},
         NEW n \in Nat
  PROVE  /\ [c EXCEPT !.status = st] \in CallSet
         /\ [c EXCEPT !.status = st].status = st
         /\ [c EXCEPT !.status = st].query = c.query
         /\ [c EXCEPT !.status = st].session = c.session
         /\ [c EXCEPT !.status = st, !.id = n] \in CallSet
         /\ [c EXCEPT !.status = st, !.id = n].status = st
         /\ [c EXCEPT !.status = st, !.id = n].id = n
         /\ [c EXCEPT !.status = st, !.id = n].query = c.query
         /\ [c EXCEPT !.status = st, !.id = n].session = c.session
         /\ [c EXCEPT !.live = FALSE] \in CallSet
BY DEF CallSet
-----------------------------------------------------------------------------
(* The evidence *)

\* What was handed out stays, but for its uses.
Carried ==
  \A i \in DOMAIN issued :
    /\ i \in DOMAIN issued'
    /\ issued'[i].query = issued[i].query /\ issued'[i].session = issued[i].session

EvidenceTypes == issued \in Seq(EvidenceSet) /\ Len(issued) <= MaxEvidence

LEMMA Appended ==
  ASSUME EvidenceTypes, NEW e \in EvidenceSet, Fresh <= MaxEvidence,
         issued' = Append(issued, e)
  PROVE  /\ EvidenceTypes' /\ Carried
         /\ Fresh \in DOMAIN issued' /\ Fresh \notin DOMAIN issued /\ Fresh \in Nat
         /\ issued'[Fresh] = e
         /\ \A i \in DOMAIN issued : issued'[i] = issued[i]
         /\ DOMAIN issued \subseteq DOMAIN issued'
<1>1. /\ issued' \in Seq(EvidenceSet) /\ Len(issued') = Len(issued) + 1
      /\ \A i \in 1 .. Len(issued) : issued'[i] = issued[i]
      /\ issued'[Len(issued) + 1] = e
  BY AppendProperties DEF EvidenceTypes
<1>2. /\ Len(issued) \in Nat /\ DOMAIN issued = 1 .. Len(issued)
      /\ DOMAIN issued' = 1 .. Len(issued) + 1
  BY <1>1, LenProperties DEF EvidenceTypes
<1> QED  BY <1>1, <1>2 DEF EvidenceTypes, Carried, Fresh

LEMMA Admitted ==
  ASSUME EvidenceTypes, NEW i \in DOMAIN issued, Admit(i)
  PROVE  /\ EvidenceTypes' /\ Carried
         /\ DOMAIN issued' = DOMAIN issued
         /\ \A j \in DOMAIN issued : j # i => issued'[j] = issued[j]
<1> DEFINE e == [issued[i] EXCEPT !.uses = IF @ < 2 THEN @ + 1 ELSE @]
<1>1. issued' = [issued EXCEPT ![i] = e]
  BY DEF Admit
<1>2. issued[i] \in EvidenceSet
  BY DEF EvidenceTypes
<1>3. e \in EvidenceSet /\ e.query = issued[i].query /\ e.session = issued[i].session
  BY <1>2 DEF EvidenceSet
<1> HIDE DEF e
<1>4. issued' \in Seq(EvidenceSet) /\ Len(issued') = Len(issued)
  <2>1. issued \in Seq(EvidenceSet) /\ i \in 1 .. Len(issued)
    BY LenProperties DEF EvidenceTypes
  <2> QED  BY <1>1, <1>3, <2>1, ExceptSeq
<1>5. DOMAIN issued' = DOMAIN issued
  BY <1>1
<1> QED  BY <1>1, <1>3, <1>4, <1>5 DEF EvidenceTypes, Carried

LEMMA KeptEvidence ==
  ASSUME EvidenceTypes, UNCHANGED issued
  PROVE  EvidenceTypes' /\ Carried /\ DOMAIN issued' = DOMAIN issued
BY DEF EvidenceTypes, Carried

\* The claims of a call are those of evidence.
LEMMA EvidenceForIs ==
  ASSUME NEW c \in CallSet
  PROVE  /\ EvidenceFor(c, "semantic") \in EvidenceSet
         /\ EvidenceFor(c, "semantic").query = c.query
         /\ EvidenceFor(c, "semantic").session = c.session
         /\ EvidenceFor(c, "semantic").uses = 0
<1>1. /\ c.query \in Queries \cup {0} /\ c.session \in Sessions \cup {0, 1}
      /\ c.model \in Models \cup {0, 1}
  BY DEF CallSet
<1>2. EvidenceFor(c, "semantic") =
        [query |-> c.query, session |-> c.session, model |-> c.model,
         basis |-> "semantic", uses |-> 0]
  BY DEF EvidenceFor
<1> QED  BY <1>1, <1>2 DEF EvidenceSet

-----------------------------------------------------------------------------
(* The adapter *)

ModelTypes ==
  /\ config \in Configs /\ service \in {"up"} \cup Troubles
  /\ outages \in 0 .. MaxOutages
  /\ Circuit(transport)
  /\ adapter \in {"semantic", "offline", "closed"}
  /\ config # "failover" => adapter # "offline"

JobSet == [slot : Slots \cup {0}, call : CallSet,
           phase : {"", "recall", "context", "issue"},
           basis : {"", "semantic", "degraded"}]

CallTypesOK == calls \in [Slots -> CallSet] /\ job \in JobSet

LEMMA AdapterParts ==
  AdapterTypeOK <=> /\ ModelTypes /\ CallTypesOK /\ EvidenceTypes
                    /\ expired \subseteq DOMAIN issued
BY DEF AdapterTypeOK, ModelTypes, CallTypesOK, JobSet, EvidenceTypes, Circuit, Transports

LEMMA ModelStep ==
  ASSUME ModelTypes, AdapterNext
  PROVE  ModelTypes'
<1> DEFINE looked == ResolveModel(transport)
           done == Embed(transport)
           fresh == ResolveModel(Healthy)
<1>1. Circuit(Healthy)
  BY AdapterAssumption DEF Circuit, Transports, Healthy
<1>2. Sane(done) /\ Sane(fresh)
  BY <1>1, EmbedIs DEF ModelTypes
<1> HIDE DEF done, fresh
<1>3. \A ends : AdapterAfter(ends) \subseteq {"semantic", "offline", "closed"}
                /\ (config # "failover" => "offline" \notin AdapterAfter(ends))
  BY DEF AdapterAfter, Degraded, ModelTypes
<1>4. CASE Use
  <2>1. transport' = done.transport /\ adapter' \in AdapterAfter(done.ends)
    BY <1>4 DEF Use, done
  <2> QED  BY <1>2, <1>3, <1>4, <2>1 DEF Use, modelVars, ModelTypes, Sane, Circuit
<1>5. CASE Lookup
  BY <1>5 DEF Lookup, modelVars, ModelTypes, Degraded, Circuit
<1>6. CASE Restart
  <2>1. /\ transport' = fresh.transport
        /\ adapter' = CASE fresh.ends = "ok" -> "semantic"
                         [] fresh.ends = "unavailable" /\ config = "failover" ->
                              "offline"
                         [] OTHER -> "closed"
    BY <1>6 DEF Restart, fresh
  <2>2. adapter' \in {"semantic", "offline", "closed"}
        /\ (config # "failover" => adapter' # "offline")
    BY <2>1
  <2> QED  BY <1>2, <1>6, <2>1, <2>2 DEF Restart, modelVars, ModelTypes, Sane, Circuit
<1>7. CASE CoolDown
  BY <1>7 DEF CoolDown, modelVars, ModelTypes, Circuit, Transports
<1>8. CASE Recover \/ \E s \in Troubles : Trouble(s)
  <2>1. outages' \in 0 .. MaxOutages
    BY <1>8, AdapterAssumption DEF Recover, Trouble, ModelTypes
  <2> QED  BY <1>8, <2>1 DEF Recover, Trouble, ModelTypes, Circuit
<1>9. ASSUME NEW phase, NEW next, Retrieve(phase, next)
      PROVE  ModelTypes'
  <2>1. \/ UNCHANGED <<transport, adapter>>
        \/ transport' = done.transport /\ adapter' \in AdapterAfter(done.ends)
    BY <1>9 DEF Retrieve, done
  <2> QED  BY <1>2, <1>3, <1>9, <2>1 DEF Retrieve, modelVars, ModelTypes, Sane, Circuit
<1>10. CASE (\E i \in Slots : Begin(i) \/ TimeOut(i)) \/ Issue
  BY <1>10 DEF Begin, TimeOut, Issue, modelVars, ModelTypes, Circuit
<1> QED
  BY <1>4, <1>5, <1>6, <1>7, <1>8, <1>9, <1>10
     DEF AdapterNext, Serve, PreviewRecall, PreviewContext

LEMMA DoneKept ==
  ASSUME JobInv, Carried, NEW i \in Slots, calls[i].status = "done"
  PROVE  /\ calls[i].id \in DOMAIN issued'
         /\ issued'[calls[i].id].query = calls[i].query
         /\ issued'[calls[i].id].session = calls[i].session
<1>1. /\ calls[i].id \in DOMAIN issued
      /\ issued[calls[i].id].query = calls[i].query
      /\ issued[calls[i].id].session = calls[i].session
  BY DEF JobInv
<1> QED  BY <1>1 DEF Carried

\* A job that ends leaves nothing running.
LEMMA EndedIs ==
  ASSUME CallTypesOK, JobInv, job.slot \in Slots, NEW st \in {"done", "failed"},
         NEW n \in Nat, Ended(st, n), Carried,
         st = "done" => /\ n \in DOMAIN issued'
                        /\ issued'[n].query = job.call.query
                        /\ issued'[n].session = job.call.session
  PROVE  CallTypesOK' /\ JobInv'
<1> DEFINE k == job.slot
           c == [calls[k] EXCEPT !.status = st, !.id = n]
<1>1. /\ calls \in [Slots -> CallSet] /\ calls[k] \in CallSet
      /\ calls' = IF calls[k].status = "running" THEN [calls EXCEPT ![k] = c] ELSE calls
      /\ job' = NoJob
  BY DEF CallTypesOK, Ended
<1>2. c \in CallSet /\ c.status = st /\ c.id = n
      /\ c.query = calls[k].query /\ c.session = calls[k].session
  <2>1. calls[k] \in CallSet /\ st \in {"", "queued", "running", "done", "failed"}
    BY <1>1
  <2> HIDE DEF k
  <2> QED  BY <2>1 DEF CallSet
<1> HIDE DEF c
<1>3. NoJob \in JobSet /\ NoJob.phase = "" /\ NoJob.slot = 0
  BY CallTypes DEF NoJob, JobSet
<1>4. calls' \in [Slots -> CallSet]
  BY <1>1, <1>2
<1>5. ASSUME NEW i \in Slots
      PROVE  /\ calls'[i].status # "running"
             /\ calls'[i].status = "done" =>
                  /\ calls'[i].id \in DOMAIN issued'
                  /\ issued'[calls'[i].id].query = calls'[i].query
                  /\ issued'[calls'[i].id].session = calls'[i].session
  <2>1. CASE i = k /\ calls[k].status = "running"
    <3>1. calls'[i] = c
      BY <1>1, <2>1
    <3>2. job.call.query = calls[k].query /\ job.call.session = calls[k].session
      BY <2>1 DEF JobInv
    <3> QED  BY <1>2, <3>1, <3>2
  <2>2. CASE ~(i = k /\ calls[k].status = "running")
    <3>1. calls'[i] = calls[i]
      BY <1>1, <2>2
    <3>2. calls[i].status # "running"
      BY <2>2 DEF JobInv
    <3> QED  BY <3>1, <3>2, DoneKept
  <2> QED  BY <2>1, <2>2
<1> QED  BY <1>1, <1>3, <1>4, <1>5 DEF CallTypesOK, JobInv

\* One call is changed, to one that is not running and has no answer.
LEMMA OneCall ==
  ASSUME CallTypesOK, JobInv, NEW i \in Slots, NEW c \in CallSet,
         calls' = [calls EXCEPT ![i] = c], UNCHANGED job, Carried,
         c.status \notin {"running", "done"}
  PROVE  CallTypesOK' /\ JobInv'
<1>1. \A j \in Slots : calls'[j] = IF j = i THEN c ELSE calls[j]
  BY DEF CallTypesOK
<1>2. CallTypesOK'
  BY DEF CallTypesOK
<1>3. \A j \in Slots : calls'[j].status = "done" =>
          /\ calls'[j].id \in DOMAIN issued'
          /\ issued'[calls'[j].id].query = calls'[j].query
          /\ issued'[calls'[j].id].session = calls'[j].session
  BY <1>1, DoneKept
<1>4. ASSUME NEW j \in Slots, calls'[j].status = "running"
      PROVE  /\ job'.slot = j
             /\ job'.call.query = calls'[j].query /\ job'.call.session = calls'[j].session
  <2>1. calls'[j] = calls[j]
    BY <1>1, <1>4
  <2> QED  BY <1>4, <2>1 DEF JobInv
<1>5. job'.phase # "" <=> job'.slot # 0
  BY DEF JobInv
<1>6. JobInv'
  BY <1>3, <1>4, <1>5 DEF JobInv
<1> QED  BY <1>2, <1>6

LEMMA NoJobChange ==
  ASSUME CallTypesOK, JobInv, UNCHANGED <<calls, job>>, Carried
  PROVE  CallTypesOK' /\ JobInv'
BY DEF CallTypesOK, JobInv, Carried

LEMMA BeginStep ==
  ASSUME CallTypesOK, JobInv, NEW i \in Slots, Begin(i), Carried
  PROVE  CallTypesOK' /\ JobInv'
<1>1. job.slot = 0 /\ calls[i].status = "queued" /\ calls[i] \in CallSet
      /\ calls \in [Slots -> CallSet]
  BY DEF Begin, CallTypesOK
<1>2. CASE DoctorReady
  <2> DEFINE c == [calls[i] EXCEPT !.status = "running"]
  <2>1. /\ calls' = [calls EXCEPT ![i] = c]
        /\ job' = [slot |-> i, call |-> calls[i], phase |-> "recall",
                   basis |-> "semantic"]
    BY <1>2 DEF Begin
  <2>2. c \in CallSet /\ c.query = calls[i].query /\ c.session = calls[i].session
        /\ c.status = "running"
    BY <1>1, CallEdits
  <2> HIDE DEF c
  <2>3. CallTypesOK'
    BY <1>1, <2>1, <2>2 DEF CallTypesOK, JobSet
  <2>4. \A j \in Slots : calls'[j] = IF j = i THEN c ELSE calls[j]
    BY <1>1, <2>1
  <2>5. \A j \in Slots : j # i => calls'[j].status # "running"
    BY <1>1, <2>4, AdapterAssumption DEF JobInv
  <2>6. i # 0
    BY AdapterAssumption
  <2>7. \A j \in Slots : calls'[j].status = "done" =>
          /\ calls'[j].id \in DOMAIN issued'
          /\ issued'[calls'[j].id].query = calls'[j].query
          /\ issued'[calls'[j].id].session = calls'[j].session
    BY <2>2, <2>4, DoneKept
  <2>8. job'.call.query = calls'[i].query /\ job'.call.session = calls'[i].session
        /\ job'.slot = i /\ job'.phase = "recall"
    BY <2>1, <2>2, <2>4
  <2>9. JobInv'
    BY <2>5, <2>6, <2>7, <2>8 DEF JobInv
  <2> QED  BY <2>3, <2>9
<1>3. CASE ~DoctorReady
  <2> DEFINE c == [calls[i] EXCEPT !.status = "failed"]
  <2>1. c \in CallSet /\ c.status = "failed"
    BY <1>1, CallEdits
  <2>2. calls' = [calls EXCEPT ![i] = c] /\ UNCHANGED job
    BY <1>3 DEF Begin
  <2> HIDE DEF c
  <2> QED  BY <2>1, <2>2, OneCall
<1> QED  BY <1>2, <1>3

LEMMA RetrieveStep ==
  ASSUME CallTypesOK, JobInv, NEW phase \in {"recall", "context"},
         NEW next \in {"context", "issue"}, Retrieve(phase, next), Carried
  PROVE  CallTypesOK' /\ JobInv'
<1>1. job \in JobSet /\ job.phase = phase /\ job.slot \in Slots
  BY DEF Retrieve, CallTypesOK, JobInv, JobSet
<1>2. \/ Ended("failed", 0)
      \/ /\ UNCHANGED calls
         /\ \/ job' = [job EXCEPT !.phase = next]
            \/ job' = [job EXCEPT !.phase = next, !.basis = "degraded"]
  BY DEF Retrieve
<1>3. CASE Ended("failed", 0)
  BY <1>1, <1>3, EndedIs
<1>4. CASE /\ UNCHANGED calls
           /\ \/ job' = [job EXCEPT !.phase = next]
              \/ job' = [job EXCEPT !.phase = next, !.basis = "degraded"]
  <2>1. /\ job' \in JobSet /\ job'.slot = job.slot /\ job'.call = job.call
        /\ job'.phase = next
    BY <1>1, <1>4 DEF JobSet
  <2>2. CallTypesOK'
    BY <1>4, <2>1 DEF CallTypesOK
  <2>3. job.slot # 0
    BY <1>1, AdapterAssumption
  <2>4. JobInv'
    BY <1>4, <2>1, <2>3 DEF JobInv, Carried
  <2> QED  BY <2>2, <2>4
<1> QED  BY <1>2, <1>3, <1>4

\* The evidence that a step leaves behind.
EvidenceStep == EvidenceTypes' /\ Carried /\ DOMAIN issued \subseteq DOMAIN issued'

LEMMA IssueStep ==
  ASSUME CallTypesOK, JobInv, EvidenceTypes, Issue
  PROVE  CallTypesOK' /\ JobInv' /\ EvidenceStep
<1>1. job \in JobSet /\ job.slot \in Slots /\ job.call \in CallSet
  BY DEF Issue, CallTypesOK, JobInv, JobSet
<1>2. CASE /\ Acceptable(job.basis) /\ Len(issued) < MaxEvidence
           /\ issued' = Append(issued, EvidenceFor(job.call, job.basis))
           /\ Ended("done", Len(issued) + 1)
  <2> DEFINE e == EvidenceFor(job.call, "semantic")
  <2>1. e \in EvidenceSet /\ e.query = job.call.query /\ e.session = job.call.session
    BY <1>1, EvidenceForIs
  <2>2. issued' = Append(issued, e) /\ Ended("done", Fresh)
    BY <1>2 DEF Acceptable, Fresh
  <2> HIDE DEF e
  <2>3. Fresh <= MaxEvidence
    <3>1. Len(issued) \in Nat /\ MaxEvidence \in Nat /\ Len(issued) < MaxEvidence
      BY <1>2, AdapterAssumption, LenProperties DEF EvidenceTypes
    <3> QED  BY <3>1 DEF Fresh
  <2>4. EvidenceStep /\ Fresh \in Nat /\ Fresh \in DOMAIN issued' /\ issued'[Fresh] = e
    BY <2>1, <2>2, <2>3, Appended DEF EvidenceStep
  <2>5. CallTypesOK' /\ JobInv'
    BY <1>1, <2>1, <2>2, <2>4, EndedIs DEF EvidenceStep
  <2> QED  BY <2>4, <2>5
<1>3. CASE UNCHANGED issued /\ Ended("failed", 0)
  <2>1. EvidenceStep
    BY <1>3, KeptEvidence DEF EvidenceStep
  <2>2. CallTypesOK' /\ JobInv'
    BY <1>1, <1>3, <2>1, EndedIs DEF EvidenceStep
  <2> QED  BY <2>1, <2>2
<1> QED  BY <1>2, <1>3 DEF Issue

LEMMA TimeOutStep ==
  ASSUME CallTypesOK, JobInv, NEW i \in Slots, TimeOut(i), Carried
  PROVE  CallTypesOK' /\ JobInv'
<1> DEFINE c == [calls[i] EXCEPT !.status = "failed"]
<1>1. calls[i] \in CallSet
  BY DEF CallTypesOK
<1>2. c \in CallSet /\ c.status = "failed"
  BY <1>1, CallEdits
<1>3. calls' = [calls EXCEPT ![i] = c] /\ UNCHANGED job
  BY DEF TimeOut
<1> HIDE DEF c
<1> QED  BY <1>2, <1>3, OneCall

\* A step of the adapter keeps what is issued; its calls stay as they should.
LEMMA AdapterStep ==
  ASSUME AdapterTypeOK, JobInv, AdapterNext
  PROVE  AdapterTypeOK' /\ JobInv' /\ EvidenceStep
<1>1. ModelTypes /\ CallTypesOK /\ EvidenceTypes /\ expired \subseteq DOMAIN issued
  BY AdapterParts
<1>2. expired' = expired
  BY DEF AdapterNext, Use, Lookup, Restart, CoolDown, Recover, Trouble, Serve, Begin,
         PreviewRecall, PreviewContext, Retrieve, Issue, TimeOut
<1>3. CallTypesOK' /\ JobInv' /\ EvidenceStep
  <2>1. CASE Issue
    BY <1>1, <2>1, IssueStep
  <2>2. ASSUME UNCHANGED issued
        PROVE  EvidenceStep
    BY <1>1, <2>2, KeptEvidence DEF EvidenceStep
  <2>3. CASE Use \/ Lookup \/ Restart \/ CoolDown \/ Recover
             \/ \E s \in Troubles : Trouble(s)
    <3>1. UNCHANGED <<calls, job, issued>>
      BY <2>3 DEF Use, Lookup, Restart, CoolDown, Recover, Trouble
    <3> QED  BY <1>1, <2>2, <3>1, NoJobChange DEF EvidenceStep
  <2>4. CASE \E i \in Slots : Begin(i)
    <3>1. UNCHANGED issued
      BY <2>4 DEF Begin
    <3> QED  BY <1>1, <2>2, <2>4, <3>1, BeginStep DEF EvidenceStep
  <2>5. CASE \E i \in Slots : TimeOut(i)
    <3>1. UNCHANGED issued
      BY <2>5 DEF TimeOut
    <3> QED  BY <1>1, <2>2, <2>5, <3>1, TimeOutStep DEF EvidenceStep
  <2>6. CASE PreviewRecall \/ PreviewContext
    <3>1. PICK phase \in {"recall", "context"}, next \in {"context", "issue"} :
            Retrieve(phase, next)
      BY <2>6 DEF PreviewRecall, PreviewContext
    <3>2. UNCHANGED issued
      BY <3>1 DEF Retrieve
    <3> QED  BY <1>1, <2>2, <3>1, <3>2, RetrieveStep DEF EvidenceStep
  <2> QED  BY <2>1, <2>3, <2>4, <2>5, <2>6 DEF AdapterNext, Serve
<1>4. ModelTypes'
  BY <1>1, ModelStep
<1>5. (expired \subseteq DOMAIN issued)'
  BY <1>1, <1>2, <1>3 DEF EvidenceStep
<1>6. AdapterTypeOK'
  BY <1>3, <1>4, <1>5 DEF EvidenceStep, AdapterTypeOK, ModelTypes, CallTypesOK, JobSet,
     EvidenceTypes, Circuit, Transports
<1> QED  BY <1>3, <1>6

-----------------------------------------------------------------------------
(* What the hosts do to the calls and the evidence *)

CallKept == CallTypesOK' /\ JobInv'

LEMMA AskStep ==
  ASSUME CallTypesOK, JobInv, EvidenceTypes, UNCHANGED <<job, issued>>,
         NEW by \in Callers, NEW q \in Queries \cup {0},
         NEW s \in Sessions \cup {0, 1}, NEW m \in Models \cup {0, 1},
         FreeSlots # {}, calls' = Asked(by, q, s, m)
  PROVE  CallKept /\ EvidenceStep /\ Asks(by, q, s, m)
<1> DEFINE c == [by |-> by, query |-> q, session |-> s, model |-> m,
                 status |-> "queued", id |-> 0, live |-> TRUE]
<1>1. Asks(by, q, s, m)
  BY AskedIs
<1>2. PICK i \in Slots : calls' = [calls EXCEPT ![i] = c]
  BY <1>1 DEF Asks
<1>3. c \in CallSet /\ c.status = "queued"
  BY CallTypes
<1>4. EvidenceStep
  BY KeptEvidence DEF EvidenceStep
<1> HIDE DEF c
<1>5. CallTypesOK' /\ JobInv'
  BY <1>2, <1>3, <1>4, OneCall DEF EvidenceStep
<1> QED  BY <1>1, <1>4, <1>5 DEF CallKept

\* An answer frees the slot, and brings the evidence that was asked for.
Brought(i) ==
  /\ Fresh \in DOMAIN issued' /\ Fresh \notin DOMAIN issued /\ Fresh \in Nat \ {0}
  /\ issued'[Fresh].query = calls[i].query
  /\ issued'[Fresh].session = calls[i].session
  /\ issued'[Fresh].uses = 0

LEMMA AnswerStep ==
  ASSUME CallTypesOK, JobInv, EvidenceTypes, UNCHANGED job,
         NEW i \in Slots, NEW by, NEW ok \in BOOLEAN, Answered(i, by, ok)
  PROVE  /\ CallKept /\ EvidenceStep
         /\ \A j \in DOMAIN issued : issued'[j] = issued[j]
         /\ ok => Brought(i)
         /\ calls[i] \in CallSet
         /\ \A j \in Slots : calls'[j] = IF j = i THEN NoCall ELSE calls[j]
<1>1. calls \in [Slots -> CallSet] /\ calls' = [calls EXCEPT ![i] = NoCall]
  BY DEF CallTypesOK, Answered
<1>2. NoCall \in CallSet /\ NoCall.status = ""
  BY CallTypes DEF NoCall
<1>3. /\ EvidenceStep /\ (ok => Brought(i))
      /\ \A j \in DOMAIN issued : issued'[j] = issued[j]
  <2>1. CASE ok
    <3> DEFINE e == EvidenceFor(calls[i], "semantic")
    <3>1. /\ e \in EvidenceSet /\ e.query = calls[i].query
          /\ e.session = calls[i].session /\ e.uses = 0
      BY <1>1, EvidenceForIs
    <3>2. Fresh <= MaxEvidence /\ issued' = Append(issued, e)
      BY <2>1 DEF Answered
    <3> HIDE DEF e
    <3>3. Fresh # 0
      BY LenProperties DEF Fresh, EvidenceTypes
    <3> QED  BY <3>1, <3>2, <3>3, Appended DEF EvidenceStep, Brought
  <2>2. CASE ~ok
    <3>1. UNCHANGED issued
      BY <2>2 DEF Answered
    <3> QED  BY <2>2, <3>1, KeptEvidence DEF EvidenceStep
  <2> QED  BY <2>1, <2>2
<1>4. CallTypesOK' /\ JobInv'
  BY <1>1, <1>2, <1>3, OneCall DEF EvidenceStep
<1>5. \A j \in Slots : calls'[j] = IF j = i THEN NoCall ELSE calls[j]
  BY <1>1
<1> QED  BY <1>1, <1>3, <1>4, <1>5 DEF CallKept

LEMMA AdmitStep ==
  ASSUME CallTypesOK, JobInv, EvidenceTypes, UNCHANGED <<calls, job>>,
         NEW i \in DOMAIN issued, Admit(i)
  PROVE  CallKept /\ EvidenceStep /\ \A j \in DOMAIN issued : j # i => issued'[j] = issued[j]
<1>1. EvidenceStep /\ \A j \in DOMAIN issued : j # i => issued'[j] = issued[j]
  BY Admitted DEF EvidenceStep
<1> QED  BY <1>1, NoJobChange DEF EvidenceStep, CallKept

LEMMA QuietStep ==
  ASSUME CallTypesOK, JobInv, EvidenceTypes, UNCHANGED <<calls, job, issued>>
  PROVE  CallKept /\ EvidenceStep
<1>1. EvidenceStep
  BY KeptEvidence DEF EvidenceStep
<1> QED  BY <1>1, NoJobChange DEF EvidenceStep, CallKept

\* The rest of the adapter is left alone by the hosts.
LEMMA ServedStep ==
  ASSUME AdapterTypeOK, UNCHANGED served, CallKept, EvidenceStep
  PROVE  AdapterTypeOK'
<1>1. ModelTypes /\ expired \subseteq DOMAIN issued
  BY AdapterParts
<1>2. ModelTypes'
  BY <1>1 DEF served, modelVars, ModelTypes, Circuit
<1>3. (expired \subseteq DOMAIN issued)'
  BY <1>1 DEF served, EvidenceStep
<1> QED  BY <1>2, <1>3 DEF EvidenceStep, CallKept, AdapterTypeOK, ModelTypes, CallTypesOK,
            JobSet, EvidenceTypes, Circuit, Transports

-----------------------------------------------------------------------------
(* Pi: the helpers *)

PiRecords == [state : {"idle", "input_pending", "receipt_ready", "agent_running",
                       "provider_pending", "provider_authorized", "between_turns",
                       "failed"},
              turn : Ids, query : Queries \cup {0}, inPrompt : BOOLEAN]
RunRecords == [phase : {"none", "input", "queued", "starting", "aborted"} \cup Started,
               prompt : Queries \cup {0}, system : Ids, message : Ids, late : 0 .. 2]

PiTypes ==
  /\ session \in Sessions \cup {1} /\ model \in Models \cup {1}
  /\ pi \in PiRecords /\ run \in RunRecords
  /\ consumed \subseteq DOMAIN issued

PiHolds == PiTypes /\ LiveInv /\ TurnInv /\ PromptInv

\* What a step of Pi starts from, and what it must establish.
PiFrom ==
  /\ CallTypesOK /\ JobInv /\ EvidenceTypes /\ PiHolds
  /\ UNCHANGED <<job, expired>>
PiTo == CallKept /\ EvidenceStep /\ PiHolds'

LEMMA IdsGrow ==
  ASSUME EvidenceStep
  PROVE  Ids \subseteq Ids' /\ 0 \in Ids' /\ PiRecords \subseteq PiRecords'
         /\ RunRecords \subseteq RunRecords'
<1>1. Ids \subseteq Ids' /\ 0 \in Ids'
  BY DEF EvidenceStep, Ids
<1> QED  BY <1>1 DEF PiRecords, RunRecords, Started

LEMMA Failing ==
  ASSUME pi \in PiRecords, EvidenceStep, FailClosed
  PROVE  /\ pi' \in PiRecords' /\ pi'.state = "failed" /\ pi'.turn = 0
         /\ pi'.query = pi.query
BY IdsGrow DEF FailClosed, PiRecords

LEMMA Resting ==
  ASSUME EvidenceStep
  PROVE  /\ NoTurn \in PiRecords' /\ NoRun \in RunRecords'
         /\ [NoRun EXCEPT !.phase = "aborted"] \in RunRecords'
         /\ [NoRun EXCEPT !.phase = "aborted"].phase = "aborted"
         /\ [NoRun EXCEPT !.phase = "aborted"].late = 0
         /\ NoTurn.turn = 0 /\ NoRun.phase = "none" /\ NoRun.late = 0
BY IdsGrow DEF NoTurn, NoRun, PiRecords, RunRecords, Started

LEMMA Queueing ==
  ASSUME NEW q \in Queries, run' = [NoRun EXCEPT !.phase = "queued", !.prompt = q]
  PROVE  run' \in RunRecords' /\ run'.phase = "queued" /\ run'.late = 0
<1>1. 0 \in Ids' /\ q \in Queries \cup {0} /\ 0 \in 0 .. 2
  BY DEF Ids
<1>2. NoRun \in RunRecords' /\ NoRun.late = 0
  BY <1>1 DEF NoRun, RunRecords, Started
<1> HIDE DEF NoRun
<1>3. run' \in RunRecords'
  BY <1>1, <1>2 DEF RunRecords
<1>4. run'.phase = "queued" /\ run'.late = 0
  BY <1>2 DEF RunRecords
<1> QED  BY <1>3, <1>4

LEMMA Overtaking ==
  ASSUME run \in RunRecords
  PROVE  /\ Overtaken \in RunRecords
         /\ Overtaken.phase = run.phase /\ Overtaken.prompt = run.prompt
         /\ Overtaken.system = run.system /\ Overtaken.message = run.message
         /\ run.phase \in Started /\ run.late < 2 => Overtaken.late = run.late + 1
         /\ run.phase \notin Started \/ run.late = 2 => Overtaken.late = run.late
         /\ Overtaken.late < 2 => run.late < 2
BY DEF Overtaken, RunRecords

\* Who waits.
LEMMA NoneLive ==
  ASSUME LiveInv, run.phase \notin {"input", "starting", "turning"}
  PROVE  \A i \in Slots : ~calls[i].live
BY DEF LiveInv, Awaits

LEMMA LiveNone ==
  ASSUME \A i \in Slots : ~calls'[i].live
  PROVE  LiveInv'
BY DEF LiveInv

\* A call that was not awaited changes nothing for the one that is.
LEMMA LateAnswer ==
  ASSUME LiveInv, run \in RunRecords, NEW i \in Slots, ~calls[i].live,
         \A j \in Slots : calls'[j] = IF j = i THEN NoCall ELSE calls[j],
         run' = run \/ run' = Overtaken
  PROVE  LiveInv'
<1>1. /\ run'.phase = run.phase /\ run'.prompt = run.prompt
      /\ run'.late < 2 => run.late < 2
  BY Overtaking
<1>2. ~NoCall.live
  BY DEF NoCall
<1>3. \A j \in Slots : calls'[j].live => calls'[j] = calls[j] /\ calls[j].live
  BY <1>2
<1> QED  BY <1>1, <1>3 DEF LiveInv

LEMMA AnswerAwaited ==
  ASSUME LiveInv, NEW i \in Slots, calls[i].live,
         \A j \in Slots : calls'[j] = IF j = i THEN NoCall ELSE calls[j]
  PROVE  /\ <<calls[i].by, run.phase>> \in Awaits
         /\ \A j \in Slots : ~calls'[j].live
<1>1. ~NoCall.live
  BY DEF NoCall
<1> QED  BY <1>1 DEF LiveInv

\* A question that is asked while nobody waits.
LEMMA AskAwaited ==
  ASSUME CallTypesOK, NEW by, NEW q, NEW s, NEW m, Asks(by, q, s, m),
         \A i \in Slots : ~calls[i].live, <<by, run'.phase>> \in Awaits,
         by = "start" => q = run'.prompt,
         by = "turn" /\ run'.late < 2 => q = run'.prompt
  PROVE  LiveInv'
<1> DEFINE c == [by |-> by, query |-> q, session |-> s, model |-> m,
                 status |-> "queued", id |-> 0, live |-> TRUE]
<1>1. PICK i \in Slots : calls' = [calls EXCEPT ![i] = c]
  BY DEF Asks
<1>2. c.by = by /\ c.query = q
  OBVIOUS
<1> HIDE DEF c
<1>3. \A j \in Slots : calls'[j] = IF j = i THEN c ELSE calls[j]
  BY <1>1 DEF CallTypesOK
<1>4. \A j \in Slots : calls'[j].live => j = i
  BY <1>3
<1> QED  BY <1>2, <1>3, <1>4 DEF LiveInv

-----------------------------------------------------------------------------
(* Pi: the steps *)

\* A handler that fails after its run is over aborts nothing.
LEMMA FailsLate ==
  ASSUME PiFrom, EvidenceStep, FailClosed, run' = run, consumed' = consumed,
         UNCHANGED <<session, model>>
  PROVE  PiTypes' /\ TurnInv' /\ PromptInv'
<1>1. /\ pi' \in PiRecords' /\ pi'.state = "failed" /\ pi'.turn = 0
      /\ pi'.query = pi.query
  BY Failing DEF PiFrom, PiHolds, PiTypes
<1>2. PiTypes'
  BY <1>1, IdsGrow DEF PiFrom, PiHolds, PiTypes, EvidenceStep
<1>3. TurnInv'
  BY <1>1 DEF TurnInv, PiFrom, PiHolds
<1>4. PromptInv'
  <2>1. run.late \in 0 .. 2
    BY DEF PiFrom, PiHolds, PiTypes, RunRecords
  <2>2. run.phase \in Started /\ run.late < 2 /\ pi.query # run.prompt =>
          (run.late = 0 => run.phase = "agent")
    BY <2>1 DEF PiFrom, PiHolds, PromptInv, Misled
  <2>3. (pi.state \in {"failed", "idle"})'
    BY <1>1
  <2> QED  BY <1>1, <2>2, <2>3 DEF PromptInv, Misled
<1> QED  BY <1>2, <1>3, <1>4

\* One that fails in time ends the run.
LEMMA FailsInTime ==
  ASSUME PiFrom, EvidenceStep, FailClosed, Abort \/ run' = NoRun,
         consumed' \subseteq DOMAIN issued', UNCHANGED <<session, model>>
  PROVE  PiTypes' /\ TurnInv' /\ PromptInv'
<1>1. pi' \in PiRecords' /\ pi'.state = "failed" /\ pi'.turn = 0
  BY Failing DEF PiFrom, PiHolds, PiTypes
<1>2. run' \in RunRecords' /\ run'.phase \in {"none", "aborted"} /\ run'.late = 0
  BY Resting DEF Abort
<1>3. PiTypes'
  BY <1>1, <1>2 DEF PiFrom, PiHolds, PiTypes
<1>4. TurnInv' /\ PromptInv'
  BY <1>1, <1>2 DEF TurnInv, PromptInv, Started
<1> QED  BY <1>3, <1>4

LEMMA PiInputStep ==
  ASSUME PiFrom, NEW q \in Queries, PiInput(q)
  PROVE  PiTo
<1>1. /\ CallTypesOK /\ JobInv /\ EvidenceTypes /\ PiTypes /\ LiveInv /\ TurnInv
      /\ UNCHANGED <<job, issued, expired, consumed, session, model>>
  BY DEF PiFrom, PiHolds, PiInput, Refuse
<1>2. /\ "input" \in Callers /\ q \in Queries \cup {0}
      /\ session \in Sessions \cup {0, 1} /\ model \in Models \cup {0, 1}
  BY <1>1 DEF Callers, PiTypes
<1>3. CallKept /\ EvidenceStep /\ Asks("input", q, session, model)
  BY <1>1, <1>2, AskStep DEF PiInput, Ask
<1>4. /\ pi' \in PiRecords' /\ pi'.state = "input_pending" /\ pi'.turn = pi.turn
      /\ pi.turn = 0
  <2>1. pi \in PiRecords /\ pi.turn = 0 /\ pi' = [pi EXCEPT !.state = "input_pending", !.query = q]
    BY <1>1 DEF PiInput, PiTypes, TurnInv
  <2>2. pi' \in PiRecords /\ pi'.state = "input_pending" /\ pi'.turn = pi.turn
    BY <2>1 DEF PiRecords
  <2> QED  BY <1>3, <2>1, <2>2, IdsGrow
<1>5. run' \in RunRecords' /\ run'.phase = "input" /\ run'.late = 0
  <2>1. run' = [NoRun EXCEPT !.phase = "input"]
    BY DEF PiInput
  <2>2. 0 \in Ids'
    BY DEF Ids
  <2> QED  BY <2>1, <2>2 DEF NoRun, RunRecords
<1>6. PiTypes'
  BY <1>1, <1>3, <1>4, <1>5 DEF PiTypes
<1>7. LiveInv'
  <2>1. \A i \in Slots : ~calls[i].live
    BY <1>1, NoneLive DEF PiInput
  <2> QED  BY <1>1, <1>3, <1>5, <2>1, AskAwaited DEF Awaits
<1>8. TurnInv' /\ PromptInv'
  BY <1>4, <1>5 DEF TurnInv, PromptInv, Started
<1> QED  BY <1>3, <1>6, <1>7, <1>8 DEF PiTo, PiHolds

LEMMA PiPromptStep ==
  ASSUME PiFrom, NEW q \in Queries, PiPrompt(q)
  PROVE  PiTo
<1>1. /\ CallTypesOK /\ JobInv /\ EvidenceTypes /\ PiTypes /\ LiveInv /\ TurnInv
      /\ UNCHANGED <<calls, job, issued, expired, consumed, session, model, pi>>
  BY DEF PiFrom, PiHolds, PiPrompt, Refuse
<1>2. CallKept /\ EvidenceStep
  BY <1>1, QuietStep
<1>3. run' \in RunRecords' /\ run'.phase = "queued" /\ run'.late = 0
  BY Queueing DEF PiPrompt
<1>4. PiTypes'
  BY <1>1, <1>2, <1>3, IdsGrow DEF PiTypes
<1>5. LiveInv'
  <2>1. \A i \in Slots : ~calls[i].live
    BY <1>1, NoneLive DEF PiPrompt
  <2> QED  BY <1>1, <2>1, LiveNone
<1>6. TurnInv'
  BY <1>1, <1>3 DEF TurnInv
<1>7. PromptInv'
  BY <1>3 DEF PromptInv, Started
<1> QED  BY <1>2, <1>4, <1>5, <1>6, <1>7 DEF PiTo, PiHolds

\* What an answer brings to Pi.
LEMMA PiAnswer ==
  ASSUME PiFrom, NEW i \in Slots, NEW by, NEW ok \in BOOLEAN, Answered(i, by, ok)
  PROVE  /\ CallKept /\ EvidenceStep
         /\ \A j \in DOMAIN issued : issued'[j] = issued[j]
         /\ ok => Brought(i)
         /\ calls[i] \in CallSet /\ calls[i].by = by
         /\ \A j \in Slots : calls'[j] = IF j = i THEN NoCall ELSE calls[j]
<1>1. CallTypesOK /\ JobInv /\ EvidenceTypes /\ UNCHANGED job
  BY DEF PiFrom
<1>2. calls[i].by = by
  BY DEF Answered
<1> QED  BY <1>1, <1>2, AnswerStep

\* A receipt that a handler took from an answer to a run that has started:
\* the run has a late answer more, and the receipt is not one it has injected.
LEMMA TakenLate ==
  ASSUME PiFrom, EvidenceStep, Fresh \notin DOMAIN issued, Fresh # 0,
         run' = Overtaken, run'.phase \in Started, run'.late < 2,
         pi'.state = "receipt_ready", pi'.inPrompt, pi'.turn = Fresh
  PROVE  Misled'
<1>1. run \in RunRecords
  BY DEF PiFrom, PiHolds, PiTypes
<1>2. /\ run'.late = 1 /\ run'.system = run.system /\ run'.message = run.message
  <2>1. run.late \in 0 .. 2
    BY <1>1 DEF RunRecords
  <2> QED  BY <1>1, <2>1, Overtaking
<1>3. Fresh \notin {0, run.system, run.message}
  BY <1>1 DEF RunRecords, Ids
<1>4. (/\ run.late = 1
       /\ pi.state \in {"receipt_ready", "agent_running", "provider_pending"}
       /\ pi.inPrompt /\ pi.turn \notin {0, run.system, run.message})'
  BY <1>2, <1>3
<1> QED  BY <1>4 DEF Misled

LEMMA PiInputReturnsStep ==
  ASSUME PiFrom, NEW i \in Slots, NEW ok \in BOOLEAN, NEW q \in Queries,
         PiInputReturns(i, q, ok)
  PROVE  PiTo
<1>1. /\ PiTypes /\ LiveInv /\ TurnInv /\ run \in RunRecords /\ pi \in PiRecords
      /\ UNCHANGED <<expired, consumed, session, model>>
  BY DEF PiFrom, PiHolds, PiInputReturns, PiTypes
<1>2. /\ CallKept /\ EvidenceStep
      /\ ok => Brought(i)
      /\ \A j \in Slots : calls'[j] = IF j = i THEN NoCall ELSE calls[j]
      /\ calls[i].by = "input"
  BY PiAnswer DEF PiInputReturns
<1>3. CASE ok
  <2>1. /\ Fresh \in DOMAIN issued' /\ Fresh \notin DOMAIN issued /\ Fresh # 0
        /\ issued'[Fresh].uses = 0
    BY <1>2, <1>3 DEF Brought
  <2>2. /\ pi' \in PiRecords' /\ pi'.turn = Fresh /\ pi'.inPrompt
        /\ pi'.state = "receipt_ready" /\ pi'.query = pi.query
    <3>1. pi' = [pi EXCEPT !.turn = Fresh, !.inPrompt = TRUE, !.state = "receipt_ready"]
      BY <1>1, <1>3 DEF PiInputReturns, Prepared, PiRecords
    <3>2. Fresh \in Ids' /\ pi \in PiRecords'
      BY <1>1, <1>2, <2>1, IdsGrow DEF Ids
    <3> QED  BY <1>1, <3>1, <3>2 DEF PiRecords
  <2>3. CASE calls[i].live
    <3>1. run' \in RunRecords' /\ run'.phase = "queued" /\ run'.late = 0
      BY <1>3, <2>3, Queueing DEF PiInputReturns
    <3>2. PiTypes'
      BY <1>1, <1>2, <2>2, <3>1 DEF PiTypes, EvidenceStep
    <3>3. LiveInv'
      BY <1>1, <1>2, <2>3, AnswerAwaited, LiveNone
    <3>4. TurnInv' /\ PromptInv'
      BY <2>1, <2>2, <3>1 DEF TurnInv, PromptInv, Started
    <3> QED  BY <1>2, <3>2, <3>3, <3>4 DEF PiTo, PiHolds
  <2>4. CASE ~calls[i].live
    <3>1. run' = Overtaken
      BY <1>3, <2>4 DEF PiInputReturns
    <3>2. PiTypes'
      BY <1>1, <1>2, <2>2, <3>1, Overtaking, IdsGrow DEF PiTypes, EvidenceStep
    <3>3. LiveInv'
      BY <1>1, <1>2, <2>4, <3>1, LateAnswer
    <3>4. TurnInv'
      BY <1>1, <2>1, <2>2, <3>1, Overtaking DEF TurnInv
    <3>5. PromptInv'
      BY <1>2, <2>1, <2>2, <3>1, TakenLate DEF PromptInv
    <3> QED  BY <1>2, <3>2, <3>3, <3>4, <3>5 DEF PiTo, PiHolds
  <2> QED  BY <2>3, <2>4
<1>4. CASE ~ok
  <2>1. FailClosed
    BY <1>4 DEF PiInputReturns
  <2>2. CASE calls[i].live
    <3>1. run' = NoRun /\ consumed' \subseteq DOMAIN issued'
      BY <1>1, <1>2, <1>4, <2>2 DEF PiInputReturns, PiTypes, EvidenceStep
    <3>2. LiveInv'
      BY <1>1, <1>2, <2>2, AnswerAwaited, LiveNone
    <3> QED  BY <1>1, <1>2, <2>1, <3>1, <3>2, FailsInTime DEF PiTo, PiHolds
  <2>3. CASE ~calls[i].live
    <3>1. run' = run
      BY <1>4, <2>3 DEF PiInputReturns
    <3>2. LiveInv'
      BY <1>1, <1>2, <2>3, <3>1, LateAnswer
    <3> QED  BY <1>1, <1>2, <2>1, <3>1, <3>2, FailsLate DEF PiTo, PiHolds
  <2> QED  BY <2>2, <2>3
<1> QED  BY <1>3, <1>4

\* The facts that a step without a call of its own begins with.
LEMMA PiQuiet ==
  ASSUME PiFrom, UNCHANGED <<calls, issued>>,
         run.phase \notin {"input", "starting", "turning"}
  PROVE  CallKept /\ EvidenceStep /\ LiveInv'
<1>1. CallKept /\ EvidenceStep
  BY QuietStep DEF PiFrom
<1>2. \A i \in Slots : ~calls[i].live
  BY NoneLive DEF PiFrom, PiHolds
<1> QED  BY <1>1, <1>2, LiveNone

LEMMA PiBeforeAgentStartStep ==
  ASSUME PiFrom, PiBeforeAgentStart
  PROVE  PiTo
<1>1. /\ PiTypes /\ LiveInv /\ TurnInv /\ run \in RunRecords /\ pi \in PiRecords
      /\ UNCHANGED <<issued, expired, consumed, session, model>>
      /\ run.phase = "queued" /\ run.late = 0
  BY DEF PiFrom, PiHolds, PiBeforeAgentStart, PiTypes, Refuse, TurnInv, Started
<1>2. \A i \in Slots : ~calls[i].live
  BY <1>1, NoneLive
<1>3. CASE /\ pi.state \notin {"receipt_ready", "idle"}
           /\ FailClosed
           /\ run' = [run EXCEPT !.phase = "agent"]
           /\ UNCHANGED calls
  <2>1. CallKept /\ EvidenceStep /\ LiveInv'
    BY <1>1, <1>3, PiQuiet
  <2>2. /\ pi' \in PiRecords' /\ pi'.state = "failed" /\ pi'.turn = 0
    BY <1>1, <1>3, <2>1, Failing
  <2>3. run' \in RunRecords /\ run'.phase = "agent" /\ run'.late = 0
    BY <1>1, <1>3 DEF RunRecords, Started
  <2>4. PiTypes'
    BY <1>1, <2>1, <2>2, <2>3, IdsGrow DEF PiTypes
  <2>5. TurnInv'
    BY <1>1, <2>2, <2>3 DEF TurnInv
  <2>6. PromptInv'
    BY <2>2, <2>3 DEF PromptInv, Misled
  <2> QED  BY <2>1, <2>4, <2>5, <2>6 DEF PiTo, PiHolds
<1>4. CASE /\ FreeSlots # {}
           /\ Ask("start", run.prompt)
           /\ run' = [run EXCEPT !.phase = "starting"]
           /\ UNCHANGED pi
  <2>1. /\ "start" \in Callers /\ run.prompt \in Queries \cup {0}
        /\ session \in Sessions \cup {0, 1} /\ model \in Models \cup {0, 1}
    BY <1>1 DEF Callers, PiTypes, RunRecords
  <2>2. CallTypesOK /\ JobInv /\ EvidenceTypes /\ UNCHANGED <<job, issued>>
    BY <1>1 DEF PiFrom
  <2>3. CallKept /\ EvidenceStep /\ Asks("start", run.prompt, session, model)
    BY <1>4, <2>1, <2>2, AskStep DEF Ask
  <2>4. /\ run' \in RunRecords /\ run'.phase = "starting" /\ run'.late = 0
        /\ run'.prompt = run.prompt
    BY <1>1, <1>4 DEF RunRecords
  <2>5. PiTypes'
    BY <1>1, <1>4, <2>3, <2>4, IdsGrow DEF PiTypes
  <2>6. LiveInv'
    BY <1>2, <2>2, <2>3, <2>4, AskAwaited DEF Awaits
  <2>7. TurnInv'
    BY <1>1, <1>4, <2>4 DEF TurnInv
  <2>8. PromptInv'
    BY <2>4 DEF PromptInv, Started
  <2> QED  BY <2>3, <2>5, <2>6, <2>7, <2>8 DEF PiTo, PiHolds
<1>5. CASE /\ pi.state = "receipt_ready" /\ pi.query = run.prompt
           /\ run' = [run EXCEPT !.phase = "agent", !.system = pi.turn]
           /\ UNCHANGED <<pi, calls>>
  <2>1. CallKept /\ EvidenceStep /\ LiveInv'
    BY <1>1, <1>5, PiQuiet
  <2>2. /\ run' \in RunRecords /\ run'.phase = "agent" /\ run'.late = 0
        /\ run'.prompt = run.prompt
    BY <1>1, <1>5 DEF RunRecords, PiRecords, Started
  <2>3. PiTypes'
    BY <1>1, <1>5, <2>1, <2>2, IdsGrow DEF PiTypes
  <2>4. TurnInv'
    BY <1>1, <1>5, <2>2 DEF TurnInv
  <2>5. PromptInv'
    BY <1>5, <2>2 DEF PromptInv
  <2> QED  BY <2>1, <2>3, <2>4, <2>5 DEF PiTo, PiHolds
<1> QED  BY <1>3, <1>4, <1>5 DEF PiBeforeAgentStart

LEMMA PiStartReturnsStep ==
  ASSUME PiFrom, NEW i \in Slots, NEW ok \in BOOLEAN, PiStartReturns(i, ok)
  PROVE  PiTo
<1>1. /\ PiTypes /\ LiveInv /\ TurnInv /\ run \in RunRecords /\ pi \in PiRecords
      /\ UNCHANGED <<expired, consumed, session, model>>
  BY DEF PiFrom, PiHolds, PiStartReturns, PiTypes
<1>2. /\ CallKept /\ EvidenceStep
      /\ ok => Brought(i)
      /\ \A j \in Slots : calls'[j] = IF j = i THEN NoCall ELSE calls[j]
      /\ calls[i].by = "start" /\ calls[i].query \in Queries \cup {0}
  <2>1. Answered(i, "start", ok)
    BY DEF PiStartReturns
  <2>2. calls[i] \in CallSet
    BY <2>1, PiAnswer
  <2>3. calls[i].query \in Queries \cup {0}
    BY <2>2 DEF CallSet
  <2> QED  BY <2>1, <2>3, PiAnswer
<1>3. ASSUME calls[i].live
      PROVE  /\ run.phase = "starting" /\ run.late = 0 /\ calls[i].query = run.prompt
             /\ LiveInv'
  <2>1. <<calls[i].by, run.phase>> \in Awaits /\ calls[i].query = run.prompt
    BY <1>1, <1>2, <1>3 DEF LiveInv
  <2>2. run.phase = "starting"
    BY <1>2, <2>1 DEF Awaits
  <2>3. LiveInv'
    BY <1>1, <1>2, <1>3, AnswerAwaited, LiveNone
  <2> QED  BY <1>1, <2>1, <2>2, <2>3 DEF TurnInv, Started
<1>4. CASE ok
  <2>1. /\ Fresh \in DOMAIN issued' /\ Fresh \notin DOMAIN issued /\ Fresh # 0
        /\ issued'[Fresh].uses = 0
    BY <1>2, <1>4 DEF Brought
  <2>2. /\ pi' \in PiRecords' /\ pi'.turn = Fresh /\ pi'.inPrompt
        /\ pi'.state = "receipt_ready" /\ pi'.query = calls[i].query
    <3>1. pi' = [pi EXCEPT !.turn = Fresh, !.inPrompt = TRUE, !.state = "receipt_ready",
                           !.query = calls[i].query]
      BY <1>1, <1>4 DEF PiStartReturns, Prepared, PiRecords
    <3>2. Fresh \in Ids' /\ pi \in PiRecords'
      BY <1>1, <1>2, <2>1, IdsGrow DEF Ids
    <3> QED  BY <1>2, <3>1, <3>2 DEF PiRecords
  <2>3. CASE calls[i].live
    <3>1. /\ run' \in RunRecords' /\ run'.phase = "agent" /\ run'.late = 0
          /\ run'.prompt = run.prompt
      <4>1. run' = [run EXCEPT !.phase = "agent", !.system = Fresh]
        BY <1>4, <2>3 DEF PiStartReturns
      <4>2. Fresh \in Ids' /\ run \in RunRecords' /\ run.late = 0
        BY <1>1, <1>2, <1>3, <2>1, <2>3, IdsGrow DEF Ids
      <4> QED  BY <4>1, <4>2 DEF RunRecords, Started
    <3>2. PiTypes'
      BY <1>1, <1>2, <2>2, <3>1 DEF PiTypes, EvidenceStep
    <3>3. TurnInv'
      BY <2>1, <2>2, <3>1 DEF TurnInv
    <3>4. PromptInv'
      BY <1>3, <2>2, <2>3, <3>1 DEF PromptInv
    <3> QED  BY <1>2, <1>3, <2>3, <3>2, <3>3, <3>4 DEF PiTo, PiHolds
  <2>4. CASE ~calls[i].live
    <3>1. run' = Overtaken
      BY <1>4, <2>4 DEF PiStartReturns
    <3>2. PiTypes'
      BY <1>1, <1>2, <2>2, <3>1, Overtaking, IdsGrow DEF PiTypes, EvidenceStep
    <3>3. LiveInv'
      BY <1>1, <1>2, <2>4, <3>1, LateAnswer
    <3>4. TurnInv'
      BY <1>1, <2>1, <2>2, <3>1, Overtaking DEF TurnInv
    <3>5. PromptInv'
      BY <1>2, <2>1, <2>2, <3>1, TakenLate DEF PromptInv
    <3> QED  BY <1>2, <3>2, <3>3, <3>4, <3>5 DEF PiTo, PiHolds
  <2> QED  BY <2>3, <2>4
<1>5. CASE ~ok
  <2>1. FailClosed
    BY <1>5 DEF PiStartReturns
  <2>2. CASE calls[i].live
    <3>1. run' = [run EXCEPT !.phase = "agent", !.system = 0]
      BY <1>5, <2>2 DEF PiStartReturns
    <3>2. /\ pi' \in PiRecords' /\ pi'.state = "failed" /\ pi'.turn = 0
      BY <1>1, <1>2, <2>1, Failing
    <3>3. run' \in RunRecords' /\ run'.phase = "agent" /\ run'.late = 0
      <4>1. 0 \in Ids' /\ run \in RunRecords' /\ run.late = 0
        BY <1>1, <1>2, <1>3, <2>2, IdsGrow
      <4> QED  BY <3>1, <4>1 DEF RunRecords, Started
    <3>4. PiTypes'
      BY <1>1, <1>2, <3>2, <3>3 DEF PiTypes, EvidenceStep
    <3>5. TurnInv'
      BY <3>2, <3>3 DEF TurnInv
    <3>6. PromptInv'
      BY <3>2, <3>3 DEF PromptInv, Misled
    <3> QED  BY <1>2, <1>3, <2>2, <3>4, <3>5, <3>6 DEF PiTo, PiHolds
  <2>3. CASE ~calls[i].live
    <3>1. run' = run
      BY <1>5, <2>3 DEF PiStartReturns
    <3>2. LiveInv'
      BY <1>1, <1>2, <2>3, <3>1, LateAnswer
    <3> QED  BY <1>1, <1>2, <2>1, <3>1, <3>2, FailsLate DEF PiTo, PiHolds
  <2> QED  BY <2>2, <2>3
<1> QED  BY <1>4, <1>5

LEMMA PiAgentStartStep ==
  ASSUME PiFrom, PiAgentStart
  PROVE  PiTo
<1>1. /\ PiTypes /\ TurnInv /\ PromptInv /\ run \in RunRecords /\ pi \in PiRecords
      /\ UNCHANGED <<calls, issued, expired, consumed, session, model>>
      /\ run.phase = "agent"
  BY DEF PiFrom, PiHolds, PiAgentStart, PiTypes, Refuse
<1>2. CallKept /\ EvidenceStep /\ LiveInv'
  BY <1>1, PiQuiet
<1>3. CASE pi.state = "receipt_ready" /\ pi.turn # 0
  <2>1. /\ pi' = [pi EXCEPT !.state = "agent_running"]
        /\ run' = [run EXCEPT !.phase = "turn"]
    BY <1>3 DEF PiAgentStart
  <2>2. /\ pi' \in PiRecords /\ pi'.state = "agent_running" /\ pi'.turn = pi.turn
        /\ pi'.query = pi.query /\ pi'.inPrompt = pi.inPrompt
    BY <1>1, <2>1 DEF PiRecords
  <2>3. /\ run' \in RunRecords /\ run'.phase = "turn" /\ run'.late = run.late
        /\ run'.prompt = run.prompt /\ run'.system = run.system
        /\ run'.message = run.message
    BY <1>1, <2>1 DEF RunRecords, Started
  <2>4. PiTypes'
    BY <1>1, <1>2, <2>2, <2>3, IdsGrow DEF PiTypes
  <2>5. TurnInv'
    BY <1>1, <2>2, <2>3 DEF TurnInv, Started
  <2>6. PromptInv'
    BY <1>1, <1>3, <2>2, <2>3 DEF PromptInv, Misled, Started
  <2> QED  BY <1>2, <2>4, <2>5, <2>6 DEF PiTo, PiHolds
<1>4. CASE FailClosed /\ Abort
  <2>1. consumed' \subseteq DOMAIN issued'
    BY <1>1 DEF PiTypes
  <2> QED  BY <1>1, <1>2, <1>4, <2>1, FailsInTime DEF PiTo, PiHolds
<1> QED  BY <1>3, <1>4 DEF PiAgentStart

LEMMA PiTurnStartStep ==
  ASSUME PiFrom, PiTurnStart
  PROVE  PiTo
<1>1. /\ PiTypes /\ LiveInv /\ TurnInv /\ PromptInv /\ run \in RunRecords
      /\ pi \in PiRecords
      /\ UNCHANGED <<issued, expired, consumed, session, model>>
      /\ run.phase = "turn"
  BY DEF PiFrom, PiHolds, PiTurnStart, PiTypes, Refuse
<1>2. CASE /\ pi.state = "agent_running" /\ pi.turn # 0
           /\ pi' = [pi EXCEPT !.state = "provider_pending"]
           /\ run' = [run EXCEPT !.phase = "context"]
           /\ UNCHANGED calls
  <2>1. CallKept /\ EvidenceStep /\ LiveInv'
    BY <1>1, <1>2, PiQuiet
  <2>2. /\ pi' \in PiRecords /\ pi'.state = "provider_pending" /\ pi'.turn = pi.turn
        /\ pi'.query = pi.query /\ pi'.inPrompt = pi.inPrompt
    BY <1>1, <1>2 DEF PiRecords
  <2>3. /\ run' \in RunRecords /\ run'.phase = "context" /\ run'.late = run.late
        /\ run'.prompt = run.prompt /\ run'.system = run.system
        /\ run'.message = run.message
    BY <1>1, <1>2 DEF RunRecords, Started
  <2>4. PiTypes'
    BY <1>1, <2>1, <2>2, <2>3, IdsGrow DEF PiTypes
  <2>5. TurnInv'
    BY <1>1, <2>2, <2>3 DEF TurnInv, Started
  <2>6. PromptInv'
    BY <1>1, <1>2, <2>2, <2>3 DEF PromptInv, Misled, Started
  <2> QED  BY <2>1, <2>4, <2>5, <2>6 DEF PiTo, PiHolds
<1>3. CASE /\ pi.state = "between_turns" /\ FreeSlots # {}
           /\ Ask("turn", pi.query)
           /\ run' = [run EXCEPT !.phase = "turning"]
           /\ UNCHANGED pi
  <2>1. /\ "turn" \in Callers /\ pi.query \in Queries \cup {0}
        /\ session \in Sessions \cup {0, 1} /\ model \in Models \cup {0, 1}
    BY <1>1 DEF Callers, PiTypes, PiRecords
  <2>2. CallTypesOK /\ JobInv /\ EvidenceTypes /\ UNCHANGED <<job, issued>>
    BY <1>1 DEF PiFrom
  <2>3. CallKept /\ EvidenceStep /\ Asks("turn", pi.query, session, model)
    BY <1>3, <2>1, <2>2, AskStep DEF Ask
  <2>4. /\ run' \in RunRecords /\ run'.phase = "turning" /\ run'.late = run.late
        /\ run'.prompt = run.prompt
    BY <1>1, <1>3 DEF RunRecords, Started
  <2>5. run.late < 2 => pi.query = run.prompt
    BY <1>1, <1>3 DEF PromptInv, Misled, Started
  <2>6. PiTypes'
    BY <1>1, <1>3, <2>3, <2>4, IdsGrow DEF PiTypes
  <2>7. LiveInv'
    <3>1. \A i \in Slots : ~calls[i].live
      BY <1>1, NoneLive
    <3> QED  BY <2>2, <2>3, <2>4, <2>5, <3>1, AskAwaited DEF Awaits
  <2>8. TurnInv'
    BY <1>1, <1>3, <2>4 DEF TurnInv, Started
  <2>9. PromptInv'
    BY <1>3, <2>4, <2>5 DEF PromptInv
  <2> QED  BY <2>3, <2>6, <2>7, <2>8, <2>9 DEF PiTo, PiHolds
<1>4. CASE FailClosed /\ Abort /\ UNCHANGED calls
  <2>1. CallKept /\ EvidenceStep /\ LiveInv'
    BY <1>1, <1>4, PiQuiet
  <2>2. consumed' \subseteq DOMAIN issued'
    BY <1>1, <2>1 DEF PiTypes, EvidenceStep
  <2> QED  BY <1>1, <1>4, <2>1, <2>2, FailsInTime DEF PiTo, PiHolds
<1> QED  BY <1>2, <1>3, <1>4 DEF PiTurnStart

LEMMA PiTurnReturnsStep ==
  ASSUME PiFrom, NEW i \in Slots, NEW ok \in BOOLEAN, PiTurnReturns(i, ok)
  PROVE  PiTo
<1>1. /\ PiTypes /\ LiveInv /\ TurnInv /\ PromptInv /\ run \in RunRecords
      /\ pi \in PiRecords
      /\ UNCHANGED <<expired, consumed, session, model>>
  BY DEF PiFrom, PiHolds, PiTurnReturns, PiTypes
<1>2. /\ CallKept /\ EvidenceStep
      /\ ok => Brought(i)
      /\ \A j \in Slots : calls'[j] = IF j = i THEN NoCall ELSE calls[j]
      /\ calls[i].by = "turn"
  BY PiAnswer DEF PiTurnReturns
<1>3. ASSUME calls[i].live
      PROVE  /\ run.phase = "turning"
             /\ run.late < 2 => calls[i].query = run.prompt
             /\ LiveInv'
  <2>1. /\ <<calls[i].by, run.phase>> \in Awaits
        /\ run.late < 2 => calls[i].query = run.prompt
    BY <1>1, <1>2, <1>3 DEF LiveInv
  <2>2. run.phase = "turning"
    BY <1>2, <2>1 DEF Awaits
  <2>3. LiveInv'
    BY <1>1, <1>2, <1>3, AnswerAwaited, LiveNone
  <2> QED  BY <2>1, <2>2, <2>3
<1>4. CASE ok
  <2>1. /\ Fresh \in DOMAIN issued' /\ Fresh # 0
        /\ issued'[Fresh].uses = 0 /\ issued'[Fresh].query = calls[i].query
    BY <1>2, <1>4 DEF Brought
  <2>2. /\ pi' \in PiRecords' /\ pi'.turn = Fresh
        /\ pi'.state = "provider_pending" /\ pi'.query = pi.query
    <3>1. pi' = [pi EXCEPT !.turn = Fresh, !.inPrompt = FALSE,
                           !.state = "provider_pending"]
      BY <1>1, <1>4 DEF PiTurnReturns, Prepared, PiRecords
    <3>2. Fresh \in Ids' /\ pi \in PiRecords'
      BY <1>1, <1>2, <2>1, IdsGrow DEF Ids
    <3> QED  BY <1>1, <3>1, <3>2 DEF PiRecords
  <2>3. run.late \in 0 .. 2
    BY <1>1 DEF RunRecords
  \* Only at the start of the agent can a run be misled without a late answer.
  <2>4. run.phase \in Started /\ run.late = 0 /\ pi.query # run.prompt => run.phase = "agent"
    BY <1>1 DEF PromptInv, Misled
  <2>5. CASE calls[i].live
    <3>1. /\ run' \in RunRecords' /\ run'.phase = "context" /\ run'.late = run.late
          /\ run'.prompt = run.prompt
      <4>1. run' = [run EXCEPT !.phase = "context"]
        BY <1>4, <2>5 DEF PiTurnReturns
      <4>2. run' \in RunRecords /\ run'.phase = "context" /\ run'.late = run.late
            /\ run'.prompt = run.prompt
        BY <1>1, <4>1 DEF RunRecords, Started
      <4> QED  BY <1>2, <4>2, IdsGrow
    <3>2. PiTypes'
      BY <1>1, <1>2, <2>2, <3>1 DEF PiTypes, EvidenceStep
    <3>3. TurnInv'
      BY <2>1, <2>2, <3>1 DEF TurnInv, Started
    <3>4. PromptInv'
      <4>1. ASSUME run.late < 2, pi.query # run.prompt
            PROVE  run.late = 1
        BY <1>3, <2>3, <2>4, <2>5, <4>1 DEF Started
      <4>2. issued'[pi'.turn].query = run.prompt \/ run.late = 2
        BY <1>3, <2>1, <2>2, <2>3, <2>5
      <4> QED  BY <2>1, <2>2, <3>1, <4>1, <4>2 DEF PromptInv, Misled
    <3> QED  BY <1>2, <1>3, <2>5, <3>2, <3>3, <3>4 DEF PiTo, PiHolds
  <2>6. CASE ~calls[i].live
    <3>1. run' = Overtaken
      BY <1>4, <2>6 DEF PiTurnReturns
    <3>2. PiTypes'
      BY <1>1, <1>2, <2>2, <3>1, Overtaking, IdsGrow DEF PiTypes, EvidenceStep
    <3>3. LiveInv'
      BY <1>1, <1>2, <2>6, <3>1, LateAnswer
    <3>4. TurnInv'
      BY <1>1, <2>1, <2>2, <3>1, Overtaking DEF TurnInv
    <3>5. PromptInv'
      <4>1. /\ run'.phase = run.phase /\ run'.prompt = run.prompt
            /\ run.phase \in Started /\ run.late < 2 => run'.late = run.late + 1
            /\ run'.late < 2 => run.late < 2
        BY <1>1, <3>1, Overtaking
      <4>2. ASSUME run'.phase \in Started, run'.late < 2, pi'.query # run'.prompt
            PROVE  Misled'
        <5>1. run.late = 0 /\ run'.late = 1
          BY <2>3, <4>1, <4>2
        <5>2. run'.phase = "agent"
          BY <2>2, <2>4, <4>1, <4>2, <5>1
        <5> QED  BY <2>2, <5>1, <5>2 DEF Misled
      <4> QED  BY <4>2 DEF PromptInv, Started
    <3> QED  BY <1>2, <3>2, <3>3, <3>4, <3>5 DEF PiTo, PiHolds
  <2> QED  BY <2>5, <2>6
<1>5. CASE ~ok
  <2>1. FailClosed
    BY <1>5 DEF PiTurnReturns
  <2>2. CASE calls[i].live
    <3>1. Abort
      BY <1>5, <2>2 DEF PiTurnReturns
    <3>2. consumed' \subseteq DOMAIN issued'
      BY <1>1, <1>2 DEF PiTypes, EvidenceStep
    <3> QED  BY <1>1, <1>2, <1>3, <2>1, <2>2, <3>1, <3>2, FailsInTime DEF PiTo, PiHolds
  <2>3. CASE ~calls[i].live
    <3>1. run' = run
      BY <1>5, <2>3 DEF PiTurnReturns
    <3>2. LiveInv'
      BY <1>1, <1>2, <2>3, <3>1, LateAnswer
    <3> QED  BY <1>1, <1>2, <2>1, <3>1, <3>2, FailsLate DEF PiTo, PiHolds
  <2> QED  BY <2>2, <2>3
<1> QED  BY <1>4, <1>5

LEMMA PiContextStep ==
  ASSUME PiFrom, PiContext
  PROVE  PiTo
<1>1. /\ PiTypes /\ TurnInv /\ PromptInv /\ run \in RunRecords /\ pi \in PiRecords
      /\ UNCHANGED <<calls, issued, expired, consumed, session, model>>
      /\ run.phase = "context"
  BY DEF PiFrom, PiHolds, PiContext, PiTypes, Refuse
<1>2. CallKept /\ EvidenceStep /\ LiveInv'
  BY <1>1, PiQuiet
<1>3. CASE pi.state = "provider_pending" /\ pi.turn # 0
  <2> DEFINE note == IF pi.inPrompt THEN 0 ELSE pi.turn
  <2>1. pi' = pi /\ run' = [run EXCEPT !.phase = "request", !.message = note]
    BY <1>3 DEF PiContext
  <2>2. note \in Ids /\ (pi.inPrompt => note = 0)
    BY <1>1 DEF PiRecords, Ids
  <2> HIDE DEF note
  <2>3. /\ run' \in RunRecords /\ run'.phase = "request" /\ run'.late = run.late
        /\ run'.prompt = run.prompt /\ run'.system = run.system
        /\ run'.message = note
    BY <1>1, <2>1, <2>2 DEF RunRecords, Started
  <2>4. PiTypes'
    BY <1>1, <1>2, <2>1, <2>3, IdsGrow DEF PiTypes
  <2>5. TurnInv'
    BY <1>1, <2>1, <2>3 DEF TurnInv, Started
  <2>6. PromptInv'
    BY <1>1, <1>3, <2>1, <2>2, <2>3 DEF PromptInv, Misled, Started
  <2> QED  BY <1>2, <2>4, <2>5, <2>6 DEF PiTo, PiHolds
<1>4. CASE FailClosed /\ Abort
  <2>1. consumed' \subseteq DOMAIN issued'
    BY <1>1 DEF PiTypes
  <2> QED  BY <1>1, <1>2, <1>4, <2>1, FailsInTime DEF PiTo, PiHolds
<1> QED  BY <1>3, <1>4 DEF PiContext

\* What goes out is unused evidence for the session, the model and the prompt.
Sent ==
  /\ pi.turn \in DOMAIN issued /\ pi.turn \notin expired
  /\ issued[pi.turn].session = session /\ issued[pi.turn].model = model
  /\ issued[pi.turn].query = run.prompt \/ run.late = 2
  /\ pi.query = run.prompt \/ run.late = 2
  /\ issued[pi.turn].uses = 0

LEMMA SentIs ==
  ASSUME PiTypes, TurnInv, PromptInv, EvidenceTypes, run.phase = "request",
         BindingsHold(pi.turn), Consumable(pi.turn),
         pi.turn \in {run.system, run.message}, pi.state = "provider_pending"
  PROVE  Sent
<1>1. pi.turn # 0 /\ pi.turn \notin expired
  BY DEF BindingsHold
<1>2. pi.turn \in DOMAIN issued /\ run.late \in 0 .. 2
  BY <1>1 DEF PiTypes, PiRecords, RunRecords, Ids
<1>3. /\ issued[pi.turn].session = session /\ issued[pi.turn].model = model
      /\ issued[pi.turn].query = pi.query
  BY DEF BindingsHold, Binds
<1>4. issued[pi.turn].uses = 0
  <2>1. pi.turn \notin consumed
    BY <1>1 DEF Consumable
  <2>2. issued[pi.turn] \in EvidenceSet
    BY <1>2 DEF EvidenceTypes
  <2>3. issued[pi.turn].uses \in 0 .. 2
    BY <2>2 DEF EvidenceSet
  <2> QED  BY <1>1, <2>1, <2>3 DEF TurnInv
<1>5. pi.query = run.prompt \/ run.late = 2
  <2> SUFFICES ASSUME run.late < 2, pi.query # run.prompt
               PROVE  FALSE
    BY <1>2
  <2>1. Misled
    BY DEF PromptInv, Started
  <2> QED  BY <1>3, <2>1 DEF Misled
<1> QED  BY <1>1, <1>2, <1>3, <1>4, <1>5 DEF Sent

\* A request is refused, or goes out on evidence that is fit for it.
LEMMA PiRequest ==
  ASSUME PiTypes, TurnInv, PromptInv, EvidenceTypes, NEW stripped \in BOOLEAN,
         PiBeforeProviderRequest(stripped)
  PROVE  /\ consumed' \subseteq DOMAIN issued
         /\ \/ FailClosed /\ Abort /\ Refuse
            \/ /\ Sent /\ Admit(pi.turn)
               /\ pi' = [pi EXCEPT !.state = "provider_authorized"]
               /\ run' = [run EXCEPT !.phase = "provider", !.message = 0]
               /\ pi.turn \in consumed' \/ pi.turn \in expired
<1> DEFINE may == /\ pi.state = "provider_pending" /\ pi.query # 0
                  /\ BindingsHold(pi.turn)
                  /\ Consumable(pi.turn)
           present == ~stripped /\ pi.turn \in {run.system, run.message}
<1>1. /\ run.phase = "request"
      /\ consumed' = IF may THEN (consumed \ expired) \cup {pi.turn}
                     ELSE IF pi.state = "provider_pending" /\ pi.query # 0
                             /\ BindingsHold(pi.turn)
                     THEN consumed \ expired ELSE consumed
      /\ IF may /\ present
         THEN /\ pi' = [pi EXCEPT !.state = "provider_authorized"]
              /\ run' = [run EXCEPT !.phase = "provider", !.message = 0]
              /\ Admit(pi.turn)
         ELSE FailClosed /\ Abort /\ Refuse
  BY DEF PiBeforeProviderRequest
<1>2. consumed \subseteq DOMAIN issued /\ (may => pi.turn \in DOMAIN issued)
  BY DEF PiTypes, PiRecords, Ids, BindingsHold
<1>3. may /\ present => Sent
  BY <1>1, SentIs
<1>4. consumed' \subseteq DOMAIN issued /\ (may => pi.turn \in consumed')
  <2> HIDE DEF may
  <2> QED  BY <1>1, <1>2
<1> HIDE DEF may, present
<1> QED  BY <1>1, <1>3, <1>4

LEMMA PiBeforeProviderRequestStep ==
  ASSUME PiFrom, NEW stripped \in BOOLEAN, PiBeforeProviderRequest(stripped)
  PROVE  PiTo
<1>1. /\ PiTypes /\ TurnInv /\ PromptInv /\ EvidenceTypes /\ CallTypesOK /\ JobInv
      /\ LiveInv
      /\ run \in RunRecords /\ pi \in PiRecords
      /\ UNCHANGED <<calls, job, expired, session, model>>
      /\ run.phase = "request"
  BY DEF PiFrom, PiHolds, PiBeforeProviderRequest, PiTypes
<1>2. consumed' \subseteq DOMAIN issued
  BY <1>1, PiRequest
<1>3. CASE FailClosed /\ Abort /\ Refuse
  <2>1. CallKept /\ EvidenceStep /\ LiveInv'
    BY <1>1, <1>3, PiQuiet DEF Refuse
  <2>2. consumed' \subseteq DOMAIN issued'
    BY <1>2, <1>3 DEF Refuse
  <2> QED  BY <1>1, <1>3, <2>1, <2>2, FailsInTime DEF PiTo, PiHolds
<1>4. CASE /\ Sent /\ Admit(pi.turn)
           /\ pi' = [pi EXCEPT !.state = "provider_authorized"]
           /\ run' = [run EXCEPT !.phase = "provider", !.message = 0]
           /\ pi.turn \in consumed' \/ pi.turn \in expired
  <2>1. CallKept /\ EvidenceStep
    BY <1>1, <1>4, AdmitStep DEF Sent
  <2>2. LiveInv'
    BY <1>1, NoneLive, LiveNone
  <2>3. /\ pi' \in PiRecords /\ pi'.state = "provider_authorized"
        /\ pi'.turn = pi.turn /\ pi'.query = pi.query
    BY <1>1, <1>4 DEF PiRecords
  <2>4. /\ run' \in RunRecords /\ run'.phase = "provider" /\ run'.late = run.late
        /\ run'.prompt = run.prompt
    BY <1>1, <1>4 DEF RunRecords, Started, Ids
  <2>5. PiTypes'
    BY <1>1, <1>2, <2>1, <2>3, <2>4, IdsGrow DEF PiTypes, EvidenceStep
  <2>6. TurnInv'
    BY <1>1, <1>4, <2>3, <2>4 DEF TurnInv, Started
  <2>7. PromptInv'
    BY <1>4, <2>3, <2>4 DEF PromptInv, Sent
  <2> QED  BY <2>1, <2>2, <2>5, <2>6, <2>7 DEF PiTo, PiHolds
<1> QED  BY <1>1, <1>3, <1>4, PiRequest

LEMMA PiTurnEndStep ==
  ASSUME PiFrom, PiTurnEnd
  PROVE  PiTo
<1>1. /\ PiTypes /\ TurnInv /\ PromptInv /\ run \in RunRecords /\ pi \in PiRecords
      /\ UNCHANGED <<calls, issued, expired, consumed, session, model>>
      /\ run.phase = "provider"
  BY DEF PiFrom, PiHolds, PiTurnEnd, PiTypes, Refuse
<1>2. CallKept /\ EvidenceStep /\ LiveInv'
  BY <1>1, PiQuiet
<1>3. CASE pi.state = "provider_authorized"
  <2>1. /\ pi' = [pi EXCEPT !.turn = 0, !.inPrompt = FALSE, !.state = "between_turns"]
        /\ run' = [run EXCEPT !.phase = "turn"]
    BY <1>3 DEF PiTurnEnd
  <2>2. /\ pi' \in PiRecords /\ pi'.state = "between_turns" /\ pi'.turn = 0
        /\ pi'.query = pi.query
    BY <1>1, <2>1 DEF PiRecords, Ids
  <2>3. /\ run' \in RunRecords /\ run'.phase = "turn" /\ run'.late = run.late
        /\ run'.prompt = run.prompt
    BY <1>1, <2>1 DEF RunRecords, Started
  <2>4. PiTypes'
    BY <1>1, <1>2, <2>2, <2>3, IdsGrow DEF PiTypes
  <2>5. TurnInv'
    BY <2>2, <2>3 DEF TurnInv, Started
  <2>6. PromptInv'
    BY <1>1, <1>3, <2>2, <2>3 DEF PromptInv, Misled, Started
  <2> QED  BY <1>2, <2>4, <2>5, <2>6 DEF PiTo, PiHolds
<1>4. CASE FailClosed /\ Abort
  <2>1. consumed' \subseteq DOMAIN issued'
    BY <1>1 DEF PiTypes
  <2> QED  BY <1>1, <1>2, <1>4, <2>1, FailsInTime DEF PiTo, PiHolds
<1> QED  BY <1>3, <1>4 DEF PiTurnEnd

LEMMA PiSettledStep ==
  ASSUME PiFrom, PiSettled
  PROVE  PiTo
<1>1. /\ PiTypes
      /\ UNCHANGED <<calls, issued, consumed, session, model>>
      /\ run.phase \notin {"input", "starting", "turning"}
      /\ pi' = NoTurn /\ run' = NoRun
  BY DEF PiFrom, PiHolds, PiSettled, Refuse
<1>2. CallKept /\ EvidenceStep /\ LiveInv'
  BY <1>1, PiQuiet
<1>3. PiTypes'
  BY <1>1, <1>2, Resting DEF PiTypes
<1>4. TurnInv' /\ PromptInv'
  BY <1>1, <1>2, Resting DEF TurnInv, PromptInv, Started
<1> QED  BY <1>2, <1>3, <1>4 DEF PiTo, PiHolds

LEMMA PiSessionStartStep ==
  ASSUME PiFrom, NEW s \in Sessions, PiSessionStart(s)
  PROVE  PiTo
<1>1. /\ CallTypesOK /\ JobInv /\ EvidenceTypes /\ PiTypes
      /\ UNCHANGED <<job, issued, model>>
      /\ session' = s /\ consumed' = {} /\ pi' = NoTurn /\ run' = NoRun
      /\ calls' = [i \in Slots |-> [calls[i] EXCEPT !.live = FALSE]]
  BY DEF PiFrom, PiHolds, PiSessionStart, Refuse
<1>2. EvidenceStep
  BY <1>1, KeptEvidence DEF EvidenceStep
<1>3. ASSUME NEW i \in Slots
      PROVE  /\ calls'[i] \in CallSet /\ ~calls'[i].live
             /\ calls'[i].status = calls[i].status /\ calls'[i].query = calls[i].query
             /\ calls'[i].session = calls[i].session /\ calls'[i].id = calls[i].id
  <2>1. calls[i] \in CallSet /\ calls'[i] = [calls[i] EXCEPT !.live = FALSE]
    BY <1>1 DEF CallTypesOK
  <2> QED  BY <2>1 DEF CallSet
<1>4. CallTypesOK'
  BY <1>1, <1>3 DEF CallTypesOK
<1>5. JobInv'
  <2>1. ASSUME NEW i \in Slots, calls'[i].status = "done"
        PROVE  /\ calls'[i].id \in DOMAIN issued'
               /\ issued'[calls'[i].id].query = calls'[i].query
               /\ issued'[calls'[i].id].session = calls'[i].session
    <3>1. calls[i].status = "done"
      BY <1>3, <2>1
    <3> QED  BY <1>1, <1>2, <1>3, <3>1, DoneKept DEF EvidenceStep
  <2>2. ASSUME NEW i \in Slots, calls'[i].status = "running"
        PROVE  /\ job'.slot = i
               /\ job'.call.query = calls'[i].query /\ job'.call.session = calls'[i].session
    <3>1. calls[i].status = "running"
      BY <1>3, <2>2
    <3> QED  BY <1>1, <1>3, <3>1 DEF JobInv
  <2>3. job'.phase # "" <=> job'.slot # 0
    BY <1>1 DEF JobInv
  <2> QED  BY <2>1, <2>2, <2>3 DEF JobInv
<1>6. LiveInv'
  BY <1>3, LiveNone
<1>7. PiTypes'
  BY <1>1, <1>2, Resting DEF PiTypes
<1>8. TurnInv' /\ PromptInv'
  BY <1>1, <1>2, Resting DEF TurnInv, PromptInv, Started
<1> QED  BY <1>2, <1>4, <1>5, <1>6, <1>7, <1>8 DEF PiTo, PiHolds, CallKept

LEMMA PiAvailabilityStep ==
  ASSUME PiFrom, PiAvailability
  PROVE  PiTo
<1>1. /\ PiTypes /\ LiveInv /\ TurnInv /\ PromptInv /\ run \in RunRecords
      /\ pi \in PiRecords /\ CallTypesOK /\ JobInv /\ EvidenceTypes
      /\ UNCHANGED <<calls, job, issued, expired, consumed, session, model, run>>
  BY DEF PiFrom, PiHolds, PiAvailability, PiTypes, Refuse
<1>2. CallKept /\ EvidenceStep
  BY <1>1, QuietStep
<1>3. LiveInv'
  BY <1>1 DEF LiveInv
<1>4. /\ pi' \in PiRecords /\ pi'.state = "idle" /\ pi'.turn = 0
      /\ pi'.query = pi.query
  <2>1. pi' = [pi EXCEPT !.turn = 0, !.inPrompt = FALSE, !.state = "idle"]
    BY DEF PiAvailability
  <2> QED  BY <1>1, <2>1 DEF PiRecords, Ids
<1>5. PiTypes'
  BY <1>1, <1>2, <1>4, IdsGrow DEF PiTypes
<1>6. TurnInv'
  BY <1>1, <1>4 DEF TurnInv
<1>7. PromptInv'
  <2>1. run.phase \in Started /\ run.late < 2 /\ pi.query # run.prompt =>
          (run.late = 0 => run.phase = "agent")
    BY <1>1 DEF PromptInv, Misled
  <2> QED  BY <1>1, <1>4, <2>1 DEF PromptInv, Misled
<1> QED  BY <1>2, <1>3, <1>5, <1>6, <1>7 DEF PiTo, PiHolds

LEMMA PiSwitchModelStep ==
  ASSUME PiFrom, NEW m \in Models, PiSwitchModel(m)
  PROVE  PiTo
<1>1. /\ PiTypes /\ LiveInv /\ TurnInv /\ PromptInv
      /\ CallTypesOK /\ JobInv /\ EvidenceTypes
      /\ UNCHANGED <<calls, job, issued, expired, consumed, session, pi, run>>
      /\ model' = m
  BY DEF PiFrom, PiHolds, PiSwitchModel, Refuse
<1>2. CallKept /\ EvidenceStep
  BY <1>1, QuietStep
<1>3. PiTypes'
  BY <1>1, <1>2, IdsGrow DEF PiTypes
<1>4. LiveInv'
  BY <1>1 DEF LiveInv
<1>5. TurnInv'
  BY <1>1 DEF TurnInv
<1>6. PromptInv'
  BY <1>1 DEF PromptInv, Misled
<1> QED  BY <1>2, <1>3, <1>4, <1>5, <1>6 DEF PiTo, PiHolds

LEMMA PiStep ==
  ASSUME PiFrom, PiNext
  PROVE  PiTo
<1>1. CASE \E q \in Queries : PiInput(q) \/ PiPrompt(q)
  BY <1>1, PiInputStep, PiPromptStep
<1>2. CASE \E i \in Slots, ok \in BOOLEAN :
             \/ \E q \in Queries : PiInputReturns(i, q, ok)
             \/ PiStartReturns(i, ok) \/ PiTurnReturns(i, ok)
  BY <1>2, PiInputReturnsStep, PiStartReturnsStep, PiTurnReturnsStep
<1>3. CASE PiBeforeAgentStart \/ PiAgentStart \/ PiTurnStart \/ PiContext
  BY <1>3, PiBeforeAgentStartStep, PiAgentStartStep, PiTurnStartStep, PiContextStep
<1>4. CASE \E stripped \in BOOLEAN : PiBeforeProviderRequest(stripped)
  BY <1>4, PiBeforeProviderRequestStep
<1>5. CASE PiTurnEnd \/ PiSettled \/ PiAvailability
  BY <1>5, PiTurnEndStep, PiSettledStep, PiAvailabilityStep
<1>6. CASE \E s \in Sessions : PiSessionStart(s)
  BY <1>6, PiSessionStartStep
<1>7. CASE \E m \in Models : PiSwitchModel(m)
  BY <1>7, PiSwitchModelStep
<1> QED  BY <1>1, <1>2, <1>3, <1>4, <1>5, <1>6, <1>7 DEF PiNext

-----------------------------------------------------------------------------
(* The use of evidence *)

LEMMA Uses ==
  ASSUME EvidenceTypes, NEW i \in DOMAIN issued
  PROVE  issued[i].uses \in Nat /\ issued[i].basis = "semantic"
<1>1. issued[i] \in EvidenceSet
  BY DEF EvidenceTypes
<1> QED  BY <1>1 DEF EvidenceSet

LEMMA NoUse ==
  ASSUME EvidenceTypes, \A i \in DOMAIN issued : issued'[i] = issued[i]
  PROVE  EvidenceFits
<1>1. ASSUME NEW i \in DOMAIN issued
      PROVE  ~(issued'[i].uses > issued[i].uses)
  BY <1>1, Uses
<1> QED  BY <1>1 DEF EvidenceFits

LEMMA OneUse ==
  ASSUME EvidenceTypes, NEW k \in DOMAIN issued, Admit(k),
         host = "pi" => /\ issued[k].session = session
                        /\ issued[k].query = run.prompt \/ run.late = 2
                        /\ issued[k].model = model,
         host \in {"hermes", "runner"} => /\ issued[k].session = provider'.session
                                         /\ issued[k].query = provider'.query,
         host = "openclaw" =>
           ClawEvidence(issued[k], provider'.session, provider'.query),
         host \in {"pi", "openclaw"} => k \notin expired /\ issued[k].uses = 0
  PROVE  EvidenceFits
<1>1. ASSUME NEW i \in DOMAIN issued, issued'[i].uses > issued[i].uses
      PROVE  i = k
  <2> SUFFICES ASSUME i # k
               PROVE  FALSE
    OBVIOUS
  <2>1. issued'[i] = issued[i]
    BY Admitted
  <2> QED  BY <1>1, <2>1, Uses
<1> QED  BY <1>1, Uses DEF EvidenceFits

\* The start of a step of the other hosts, and what it must establish.
HostFrom == CallTypesOK /\ JobInv /\ EvidenceTypes /\ UNCHANGED <<job, expired>>
HostTo == CallKept /\ EvidenceStep /\ EvidenceFits

LEMMA HostQuiet ==
  ASSUME HostFrom, UNCHANGED calls, Refuse
  PROVE  HostTo
<1>1. CallKept /\ EvidenceStep
  BY QuietStep DEF HostFrom, Refuse
<1>2. EvidenceFits
  BY NoUse DEF HostFrom, Refuse
<1> QED  BY <1>1, <1>2 DEF HostTo

LEMMA HostAsks ==
  ASSUME HostFrom, Refuse, NEW by \in Callers, NEW q \in Queries,
         NEW s \in Sessions \cup {1}, FreeSlots # {}, calls' = Asked(by, q, s, 0)
  PROVE  HostTo
<1>1. /\ CallTypesOK /\ JobInv /\ EvidenceTypes /\ UNCHANGED <<job, issued>>
      /\ q \in Queries \cup {0} /\ s \in Sessions \cup {0, 1}
      /\ 0 \in Models \cup {0, 1}
  BY DEF HostFrom, Refuse
<1>2. CallKept /\ EvidenceStep
  BY <1>1, AskStep
<1>3. EvidenceFits
  BY <1>1, NoUse
<1> QED  BY <1>2, <1>3 DEF HostTo

LEMMA HostAnswer ==
  ASSUME HostFrom, NEW i \in Slots, NEW by, NEW ok \in BOOLEAN, Answered(i, by, ok)
  PROVE  /\ HostTo
         /\ \A j \in DOMAIN issued : issued'[j] = issued[j]
         /\ ok => Brought(i)
         /\ calls[i] \in CallSet
<1>1. /\ CallKept /\ EvidenceStep /\ EvidenceTypes
      /\ \A j \in DOMAIN issued : issued'[j] = issued[j]
      /\ ok => Brought(i)
      /\ calls[i] \in CallSet
  BY AnswerStep DEF HostFrom
<1>2. EvidenceFits
  BY <1>1, NoUse
<1> QED  BY <1>1, <1>2 DEF HostTo

LEMMA PiGuard ==
  ASSUME PiFrom, host = "pi", PiNext
  PROVE  EvidenceFits
<1>1. PiTypes /\ TurnInv /\ PromptInv /\ EvidenceTypes
  BY DEF PiFrom, PiHolds
<1>2. CASE UNCHANGED issued
  BY <1>1, <1>2, NoUse
<1>3. ASSUME NEW i \in Slots, NEW by, NEW ok \in BOOLEAN, Answered(i, by, ok)
      PROVE  EvidenceFits
  BY <1>1, <1>3, PiAnswer, NoUse
<1>4. ASSUME NEW stripped \in BOOLEAN, PiBeforeProviderRequest(stripped)
      PROVE  EvidenceFits
  <2>1. CASE Refuse
    BY <1>2, <2>1 DEF Refuse
  <2>2. CASE Sent /\ Admit(pi.turn)
    BY <1>1, <2>2, OneUse DEF Sent
  <2> QED  BY <1>1, <1>4, <2>1, <2>2, PiRequest
<1> QED
  BY <1>2, <1>3, <1>4
     DEF PiNext, PiInput, PiPrompt, PiInputReturns, PiBeforeAgentStart, PiStartReturns,
         PiAgentStart, PiTurnStart, PiTurnReturns, PiContext, PiTurnEnd, PiSettled,
         PiSessionStart, PiAvailability, PiSwitchModel, Refuse

-----------------------------------------------------------------------------
(* Hermes, OpenClaw and the runner *)

LEMMA ForKept ==
  ASSUME EvidenceStep, NEW e, For(e)
  PROVE  For(e)'
BY DEF For, EvidenceStep, Carried

LEMMA EntryIs ==
  ASSUME NEW i \in Slots, Brought(i), calls[i] \in CallSet, NEW e, e = Entry(i)
  PROVE  /\ e \in EntrySet /\ e.id = Fresh /\ For(e)'
         /\ issued'[e.id].uses = 0
<1>1. /\ calls[i].query \in Queries \cup {0} /\ calls[i].session \in Sessions \cup {0, 1}
      /\ Fresh \in Nat
  BY DEF CallSet, Brought
<1>2. e.id = Fresh /\ e.session = calls[i].session /\ e.query = calls[i].query
  BY DEF Entry
<1>3. e \in EntrySet
  BY <1>1 DEF Entry, EntrySet
<1>4. For(e)'
  BY <1>2 DEF For, Brought
<1> QED  BY <1>2, <1>3, <1>4 DEF Brought

LEMMA Requested ==
  ASSUME NEW s \in Sessions \cup {0, 1}, NEW q \in Queries \cup {0}, RequestBy(s, q)
  PROVE  /\ provider' \in [session : Sessions \cup {0, 1}, query : Queries \cup {0}]
         /\ provider'.session = s /\ provider'.query = q
BY DEF RequestBy

ProviderTypes == provider \in [session : Sessions \cup {0, 1}, query : Queries \cup {0}]

LEMMA RefusedTypes ==
  ASSUME Refuse
  PROVE  ProviderTypes'
BY DEF Refuse, NoRequest, ProviderTypes

Turns == ready \subseteq EntrySet /\ \A e \in ready : For(e)

LEMMA TurnsKept ==
  ASSUME Turns, EvidenceStep,
         \A e \in ready' : e \in ready \/ (e \in EntrySet /\ For(e)')
  PROVE  Turns'
<1>1. \A e \in ready' : e \in EntrySet /\ For(e)'
  BY ForKept DEF Turns
<1> QED  BY <1>1 DEF Turns

LEMMA HermesStep ==
  ASSUME HostFrom, host = "hermes", Turns, ProviderTypes, HermesNext
  PROVE  HostTo /\ Turns' /\ ProviderTypes'
<1>1. ASSUME NEW s \in Sessions, NEW q \in Queries, HermesPre(s, q)
      PROVE  HostTo /\ Turns' /\ ProviderTypes'
  <2>1. HostTo
    BY <1>1, HostAsks DEF HermesPre, Callers
  <2>2. \A e \in ready' : e \in ready
    BY <1>1 DEF HermesPre, Without
  <2>3. ProviderTypes'
    BY <1>1, RefusedTypes DEF HermesPre
  <2> QED  BY <2>1, <2>2, <2>3, TurnsKept DEF HostTo
<1>2. ASSUME NEW s \in Sessions, NEW q \in Queries, HermesExecute(s, q)
      PROVE  HostTo /\ Turns' /\ ProviderTypes'
  <2>1. PICK e \in ready : /\ e.session = s /\ e.query = q
                           /\ Admit(e.id) /\ RequestBy(s, q)
    BY <1>2 DEF HermesExecute
  <2>2. For(e) /\ UNCHANGED <<ready, calls>>
    BY <1>2 DEF HermesExecute, Turns
  <2>3. ProviderTypes' /\ provider'.session = s /\ provider'.query = q
    BY <2>1, Requested DEF ProviderTypes
  <2>4. CallKept /\ EvidenceStep
    BY <2>1, <2>2, AdmitStep DEF HostFrom, For
  <2>5. EvidenceFits
    BY <2>1, <2>2, <2>3, OneUse DEF HostFrom, For
  <2> QED  BY <2>2, <2>3, <2>4, <2>5, TurnsKept DEF HostTo
<1>3. ASSUME NEW i \in Slots, NEW ok \in BOOLEAN, HermesPreReturns(i, ok)
      PROVE  HostTo /\ Turns' /\ ProviderTypes'
  <2>1. HostTo /\ (ok => Brought(i)) /\ calls[i] \in CallSet
    BY <1>3, HostAnswer DEF HermesPreReturns
  <2>2. \A e \in ready' : e \in ready \/ (ok /\ e = Entry(i))
    BY <1>3 DEF HermesPreReturns, Without, Evicted
  <2>3. \A e \in ready' : e \in ready \/ (e \in EntrySet /\ For(e)')
    BY <2>1, <2>2, EntryIs
  <2>4. ProviderTypes'
    BY <1>3 DEF HermesPreReturns, Answered, NoRequest, ProviderTypes
  <2> QED  BY <2>1, <2>3, <2>4, TurnsKept DEF HostTo
<1>4. ASSUME NEW s \in Sessions, HermesClose(s)
      PROVE  HostTo /\ Turns' /\ ProviderTypes'
  <2>1. HostTo
    BY <1>4, HostQuiet DEF HermesClose
  <2>2. \A e \in ready' : e \in ready
    BY <1>4 DEF HermesClose
  <2>3. ProviderTypes'
    BY <1>4, RefusedTypes DEF HermesClose
  <2> QED  BY <2>1, <2>2, <2>3, TurnsKept DEF HostTo
<1> QED  BY <1>1, <1>2, <1>3, <1>4 DEF HermesNext

ClawTypes == pending \subseteq EntrySet /\ gate \subseteq EntrySet

LEMMA TokenKept ==
  ASSUME EvidenceStep, NEW e, Token(e)
  PROVE  Token(e)'
BY DEF Token, EvidenceStep, Carried

\* Evidence without a key is found by its prompt only.
LEMMA CandidateIs ==
  ASSUME NEW s, NEW q, NEW e \in Candidates(s, q)
  PROVE  e \in Live(pending) /\ (Nameless(e.session) => e.query = q)
<1> DEFINE sharing == {f \in Live(pending) : Overlap(f.session, s)}
           ofPrompt == {f \in Live(pending) : f.query = q}
<1>1. e \in sharing \/ e \in ofPrompt
  BY DEF Candidates
<1>2. CASE e \in sharing
  BY <1>2 DEF Overlap, Nameless
<1>3. CASE e \in ofPrompt
  BY <1>3
<1> QED  BY <1>1, <1>2, <1>3

\* Tokens that are dropped while the evidence of the others stays.
LEMMA TokensDropped ==
  ASSUME ClawTypes, ClawTokens, EvidenceStep,
         pending' \subseteq pending, gate' \subseteq gate,
         \A e \in pending' \cup gate' : issued'[e.id] = issued[e.id]
  PROVE  ClawTypes' /\ ClawTokens'
<1>1. /\ \A e \in pending' : For(e)'
      /\ \A e \in gate' : Token(e)'
      /\ \A e \in pending' \cup gate' : issued'[e.id].uses = 0
  BY ForKept, TokenKept DEF ClawTokens
<1>2. /\ \A e \in pending', f \in gate' : e.id # f.id
      /\ \A e, f \in pending' \cup gate' : e.id = f.id => e = f
  BY DEF ClawTokens
<1>3. ClawTypes'
  BY DEF ClawTypes
<1> QED  BY <1>1, <1>2, <1>3 DEF ClawTokens

\* A token that is put into the prompt q.
LEMMA TokenInjected ==
  ASSUME ClawTypes, ClawTokens, EvidenceStep, UNCHANGED issued,
         NEW s, NEW q \in Queries, NEW e \in Candidates(s, q),
         pending' = Live(pending) \ {e},
         gate' = Live(gate) \cup {[e EXCEPT !.query = q]}
  PROVE  ClawTypes' /\ ClawTokens'
<1> DEFINE new == [e EXCEPT !.query = q]
<1>1. /\ e \in pending /\ e \in EntrySet /\ For(e) /\ issued[e.id].uses = 0
      /\ Nameless(e.session) => e.query = q
  BY CandidateIs DEF ClawTokens, ClawTypes, Live
<1>2. new \in EntrySet /\ new.id = e.id /\ new.session = e.session /\ new.query = q
  BY <1>1 DEF EntrySet
<1> HIDE DEF new
<1>3. Token(new)
  BY <1>1, <1>2 DEF For, Token
<1>4. /\ pending' \subseteq pending /\ e \notin pending'
      /\ \A f \in gate' : f \in gate \/ f = new
  BY DEF Live, new
<1>5. \A f \in pending' : For(f)' /\ issued'[f.id].uses = 0
  BY <1>4, ForKept DEF ClawTokens
<1>6. \A f \in gate' : Token(f)' /\ issued'[f.id].uses = 0
  BY <1>1, <1>2, <1>3, <1>4, TokenKept DEF ClawTokens
<1>7. \A f \in pending' : f.id # e.id
  BY <1>1, <1>4 DEF ClawTokens
<1>8. \A f \in gate : f.id # e.id
  BY <1>1 DEF ClawTokens
<1>9. \A f \in pending', g \in gate' : f.id # g.id
  BY <1>2, <1>4, <1>7 DEF ClawTokens
<1>10. \A f, g \in pending' \cup gate' : f.id = g.id => f = g
  BY <1>2, <1>4, <1>7, <1>8 DEF ClawTokens
<1>11. ClawTypes'
  BY <1>2, <1>4 DEF ClawTypes
<1> QED  BY <1>5, <1>6, <1>9, <1>10, <1>11 DEF ClawTokens

\* A new token has an id of its own.
LEMMA TokenAdded ==
  ASSUME ClawTypes, ClawTokens, EvidenceStep,
         \A j \in DOMAIN issued : issued'[j] = issued[j],
         NEW i \in Slots, Brought(i), calls[i] \in CallSet, NEW new, new = Entry(i),
         \/ pending' \subseteq pending \cup {new} /\ gate' = gate
         \/ pending' = pending /\ gate' = gate \cup {new}
  PROVE  ClawTypes' /\ ClawTokens'
<1>1. /\ new \in EntrySet /\ new.id = Fresh /\ For(new)'
      /\ issued'[new.id].uses = 0
  BY EntryIs
<1>2. \A e \in pending \cup gate : e.id \in DOMAIN issued /\ e.id # new.id
  BY <1>1 DEF ClawTokens, For, Token, Brought
<1>3. \A e \in pending' \cup gate' : e \in pending \cup gate \/ e = new
  OBVIOUS
<1>4. \A e \in pending', f \in gate' : e.id # f.id
  BY <1>2 DEF ClawTokens
<1>5. \A e \in pending' : For(e)'
  BY <1>1, ForKept DEF ClawTokens
<1>6. \A e \in gate' : Token(e)'
  <2>1. Token(new)'
    BY <1>1 DEF For, Token
  <2> QED  BY <2>1, TokenKept DEF ClawTokens
<1>7. \A e \in pending' \cup gate' : issued'[e.id].uses = 0
  <2>1. \A e \in pending \cup gate : issued'[e.id].uses = 0
    BY <1>2 DEF ClawTokens
  <2> QED  BY <1>1, <1>3, <2>1
<1>8. \A e, f \in pending' \cup gate' : e.id = f.id => e = f
  BY <1>2, <1>3 DEF ClawTokens
<1>9. ClawTypes'
  BY <1>1, <1>3 DEF ClawTypes
<1> QED  BY <1>4, <1>5, <1>6, <1>7, <1>8, <1>9 DEF ClawTokens

\* Whatever an action drops of the tokens without using or adding one.
LEMMA TokensQuiet ==
  ASSUME HostTo, ClawTypes, ClawTokens, Refuse,
         pending' \subseteq pending, gate' \subseteq gate
  PROVE  HostTo /\ ClawTypes' /\ ClawTokens' /\ ProviderTypes'
<1>1. ClawTypes' /\ ClawTokens'
  BY TokensDropped DEF HostTo, Refuse
<1> QED  BY <1>1, RefusedTypes

LEMMA ClawStep ==
  ASSUME HostFrom, host = "openclaw", ClawTypes, ClawTokens, ProviderTypes, ClawNext
  PROVE  HostTo /\ ClawTypes' /\ ClawTokens' /\ ProviderTypes'
<1>0. Live(pending) \subseteq pending /\ Live(gate) \subseteq gate
  BY DEF Live
<1>1. ASSUME NEW s \in Sessions, NEW q \in Queries, ClawReply(s, q)
      PROVE  HostTo /\ ClawTypes' /\ ClawTokens' /\ ProviderTypes'
  <2>1. HostTo
    BY <1>1, HostAsks DEF ClawReply, Callers
  <2>2. /\ Refuse /\ pending' = Live(pending) /\ gate' = Live(gate)
    BY <1>1 DEF ClawReply
  <2>3. pending' \subseteq pending /\ gate' \subseteq gate
    BY <1>0, <2>2
  <2> QED  BY <2>1, <2>2, <2>3, TokensQuiet
<1>2. ASSUME NEW s \in Sessions, NEW q \in Queries, ClawBuild(s, q)
      PROVE  HostTo /\ ClawTypes' /\ ClawTokens' /\ ProviderTypes'
  <2>1. Refuse
    BY <1>2 DEF ClawBuild
  <2>2. CASE \E e \in Candidates(s, q) :
               /\ \A f \in Candidates(s, q) : e.id <= f.id
               /\ pending' = Live(pending) \ {e}
               /\ gate' = Live(gate) \cup {[e EXCEPT !.query = q]}
               /\ UNCHANGED calls
    <3>1. PICK e \in Candidates(s, q) :
            /\ pending' = Live(pending) \ {e}
            /\ gate' = Live(gate) \cup {[e EXCEPT !.query = q]}
            /\ UNCHANGED calls
      BY <2>2
    <3>2. HostTo
      BY <2>1, <3>1, HostQuiet
    <3>3. ClawTypes' /\ ClawTokens'
      BY <2>1, <3>1, <3>2, TokenInjected DEF HostTo, Refuse
    <3> QED  BY <2>1, <3>2, <3>3, RefusedTypes
  <2>3. CASE /\ FreeSlots # {} /\ calls' = Asked("build", q, s, 0)
             /\ pending' = Live(pending) /\ gate' = Live(gate)
    <3>1. HostTo
      BY <2>1, <2>3, HostAsks DEF Callers
    <3>2. pending' \subseteq pending /\ gate' \subseteq gate
      BY <1>0, <2>3
    <3> QED  BY <2>1, <3>1, <3>2, TokensQuiet
  <2> QED  BY <1>2, <2>2, <2>3 DEF ClawBuild
<1>3. ASSUME NEW i \in Slots, NEW ok \in BOOLEAN,
             ClawReplyReturns(i, ok) \/ ClawBuildReturns(i, ok)
      PROVE  HostTo /\ ClawTypes' /\ ClawTokens' /\ ProviderTypes'
  <2>1. PICK by : Answered(i, by, ok)
    BY <1>3 DEF ClawReplyReturns, ClawBuildReturns
  <2>2. /\ HostTo /\ (ok => Brought(i)) /\ calls[i] \in CallSet
        /\ \A j \in DOMAIN issued : issued'[j] = issued[j]
    BY <2>1, HostAnswer
  <2>3. ProviderTypes'
    BY <2>1 DEF Answered, NoRequest, ProviderTypes
  <2>4. EvidenceStep
    BY <2>2 DEF HostTo
  <2>5. CASE ok
    <3> DEFINE new == Entry(i)
    <3>1. \/ pending' \subseteq pending \cup {new} /\ gate' = gate
          \/ pending' = pending /\ gate' = gate \cup {new}
      BY <1>3, <2>5 DEF ClawReplyReturns, ClawBuildReturns
    <3> HIDE DEF new
    <3>2. new = Entry(i)
      BY DEF new
    <3>3. ClawTypes' /\ ClawTokens'
      BY <2>2, <2>4, <2>5, <3>1, <3>2, TokenAdded
    <3> QED  BY <2>2, <2>3, <3>3
  <2>6. CASE ~ok
    <3>1. pending' = pending /\ gate' = gate /\ UNCHANGED issued
      BY <1>3, <2>1, <2>6 DEF ClawReplyReturns, ClawBuildReturns, Answered
    <3>2. ClawTypes' /\ ClawTokens'
      BY <2>4, <3>1, TokensDropped
    <3> QED  BY <2>2, <2>3, <3>2
  <2> QED  BY <2>5, <2>6
<1>4. ASSUME NEW s \in Sessions, NEW e \in gate, NEW complete \in BOOLEAN,
             ClawGate(s, e, complete)
      PROVE  HostTo /\ ClawTypes' /\ ClawTokens' /\ ProviderTypes'
  <2>1. /\ e \in Live(gate) /\ pending' = Live(pending) /\ gate' = Live(gate) \ {e}
        /\ UNCHANGED calls
    BY <1>4 DEF ClawGate
  <2>2. pending' \subseteq pending /\ gate' \subseteq gate
    BY <1>0, <2>1
  <2>3. CASE Refuse
    BY <2>1, <2>2, <2>3, HostQuiet, TokensQuiet
  <2>4. CASE SameIdentity(e, s) /\ Admit(e.id) /\ RequestBy(s, e.query)
    <3>1. /\ Token(e) /\ issued[e.id].uses = 0 /\ e.id \notin expired
          /\ e.query \in Queries \cup {0}
      BY <2>1 DEF ClawTokens, ClawTypes, EntrySet, Live
    <3>2. ProviderTypes' /\ provider'.session = s /\ provider'.query = e.query
      BY <2>4, <3>1, Requested DEF ProviderTypes
    <3>3. CallKept /\ EvidenceStep
          /\ \A j \in DOMAIN issued : j # e.id => issued'[j] = issued[j]
      BY <2>1, <2>4, <3>1, AdmitStep DEF HostFrom, Token
    <3>4. ClawEvidence(issued[e.id], s, e.query)
      BY <2>4, <3>1 DEF ClawEvidence, SameIdentity, Token
    <3>5. EvidenceFits
      BY <2>4, <3>1, <3>2, <3>4, OneUse DEF HostFrom, Token
    <3>6. ASSUME NEW f \in pending' \cup gate'
          PROVE  issued'[f.id] = issued[f.id]
      <4>1. f \in pending \cup gate /\ f.id # e.id
        BY <2>1, <2>2 DEF ClawTokens
      <4>2. f.id \in DOMAIN issued
        BY <4>1 DEF ClawTokens, For, Token
      <4> QED  BY <3>3, <4>1, <4>2
    <3>7. ClawTypes' /\ ClawTokens'
      BY <2>2, <3>3, <3>6, TokensDropped
    <3> QED  BY <3>2, <3>3, <3>5, <3>7 DEF HostTo
  <2> QED  BY <1>4, <2>3, <2>4 DEF ClawGate
<1>5. CASE ClawPolicyLost
  <2>1. UNCHANGED calls /\ Refuse /\ pending' = {} /\ gate' = {}
    BY <1>5 DEF ClawPolicyLost
  <2>2. pending' \subseteq pending /\ gate' \subseteq gate
    BY <2>1
  <2> QED  BY <2>1, <2>2, HostQuiet, TokensQuiet
<1> QED  BY <1>1, <1>2, <1>3, <1>4, <1>5 DEF ClawNext

LEMMA RunnerStep ==
  ASSUME HostFrom, host = "runner", ProviderTypes, RunnerNext
  PROVE  HostTo /\ ProviderTypes'
<1>1. ASSUME NEW q \in Queries, RunnerStart(q)
      PROVE  HostTo /\ ProviderTypes'
  <2>1. HostTo
    BY <1>1, HostAsks DEF RunnerStart, Callers
  <2> QED  BY <1>1, <2>1, RefusedTypes DEF RunnerStart
<1>2. ASSUME NEW i \in Slots, RunnerReturns(i)
      PROVE  HostTo /\ ProviderTypes'
  <2>1. /\ CallTypesOK /\ JobInv /\ EvidenceTypes /\ UNCHANGED job
        /\ calls[i] \in CallSet /\ calls' = [calls EXCEPT ![i] = NoCall]
    BY <1>2 DEF HostFrom, CallTypesOK, RunnerReturns
  <2>2. NoCall \in CallSet /\ NoCall.status = ""
    BY CallTypes DEF NoCall
  <2>3. ASSUME EvidenceStep
        PROVE  CallKept
    BY <2>1, <2>2, <2>3, OneCall DEF EvidenceStep, CallKept
  <2>4. CASE calls[i].status = "done"
    <3> DEFINE k == calls[i].id
               s == calls[i].session
               q == calls[i].query
    <3>1. Admit(k) /\ RequestBy(s, q)
      BY <1>2, <2>4 DEF RunnerReturns
    <3>2. k \in DOMAIN issued /\ issued[k].query = q /\ issued[k].session = s
      BY <2>1, <2>4 DEF JobInv
    <3>3. s \in Sessions \cup {0, 1} /\ q \in Queries \cup {0}
      BY <2>1 DEF CallSet
    <3> HIDE DEF k, s, q
    <3>4. ProviderTypes' /\ provider'.session = s /\ provider'.query = q
      BY <3>1, <3>3, Requested DEF ProviderTypes
    <3>5. EvidenceStep
      BY <2>1, <3>1, <3>2, Admitted DEF EvidenceStep
    <3>6. EvidenceFits
      BY <2>1, <3>1, <3>2, <3>4, OneUse
    <3> QED  BY <2>3, <3>4, <3>5, <3>6 DEF HostTo
  <2>5. CASE Refuse
    <3>1. EvidenceStep
      BY <2>1, <2>5, KeptEvidence DEF EvidenceStep, Refuse
    <3>2. EvidenceFits
      BY <2>1, <2>5, NoUse DEF Refuse
    <3>3. ProviderTypes'
      BY <2>5, RefusedTypes
    <3> QED  BY <2>3, <3>1, <3>2, <3>3 DEF HostTo
  <2> QED  BY <1>2, <2>4, <2>5 DEF RunnerReturns
<1> QED  BY <1>1, <1>2 DEF RunnerNext

-----------------------------------------------------------------------------
(* The system *)

LEMMA TypeParts ==
  TypeOK <=> /\ AdapterTypeOK /\ PiTypes /\ ClawTypes /\ ready \subseteq EntrySet
             /\ ProviderTypes
             /\ host \in {"pi", "hermes", "openclaw", "runner"}
BY DEF TypeOK, PiTypes, PiRecords, RunRecords, ClawTypes, ProviderTypes

\* The same, of the next state.
LEMMA TypePartsNext ==
  ASSUME AdapterTypeOK', PiTypes', ClawTypes', (ready \subseteq EntrySet)',
         ProviderTypes', host' \in {"pi", "hermes", "openclaw", "runner"}
  PROVE  TypeOK'
BY DEF TypeOK, PiTypes, PiRecords, RunRecords, ClawTypes, ProviderTypes

\* A host whose variables stay keeps their types while the evidence grows.
LEMMA PiTypesKept ==
  ASSUME PiTypes, EvidenceStep, UNCHANGED piVars
  PROVE  PiTypes'
BY IdsGrow DEF PiTypes, piVars, EvidenceStep

LEMMA InitInv == Init => IInv
<1> SUFFICES ASSUME Init
             PROVE  IInv
  OBVIOUS
<1>1. /\ config \in Configs /\ service = "up" /\ outages = 0 /\ transport = Healthy
      /\ adapter = "semantic" /\ calls = [i \in Slots |-> NoCall] /\ job = NoJob
      /\ issued = <<>> /\ expired = {}
      /\ session = 1 /\ model = 1 /\ pi = NoTurn /\ run = NoRun /\ consumed = {}
      /\ ready = {} /\ pending = {} /\ gate = {}
      /\ provider = [session |-> 0, query |-> 0]
      /\ host \in {"pi", "hermes", "openclaw", "runner"}
  BY DEF Init, AdapterInit, NoRequest
<1>2. ModelTypes
  BY <1>1, AdapterAssumption DEF ModelTypes, Circuit, Transports, Healthy
<1>3. EvidenceTypes
  <2>1. issued \in Seq(EvidenceSet) /\ Len(issued) = 0
    BY <1>1, EmptySeq
  <2>2. Len(issued) <= MaxEvidence
    BY <2>1, AdapterAssumption
  <2> QED  BY <2>1, <2>2 DEF EvidenceTypes
<1>4. NoJob \in JobSet /\ NoJob.phase = "" /\ NoJob.slot = 0
  BY CallTypes DEF NoJob, JobSet
<1>5. \A i \in Slots : calls[i] = NoCall
  BY <1>1
<1>6. NoCall.status = "" /\ ~NoCall.live
  BY DEF NoCall
<1>7. CallTypesOK
  BY <1>1, <1>4, CallTypes DEF CallTypesOK
<1>8. AdapterTypeOK
  BY <1>1, <1>2, <1>3, <1>7, AdapterParts
<1>9. /\ pi \in PiRecords /\ run \in RunRecords /\ pi.turn = 0
      /\ run.phase = "none" /\ run.late = 0
  BY <1>1 DEF NoTurn, NoRun, PiRecords, RunRecords, Ids
<1>10. TypeOK
  <2>1. PiTypes /\ ClawTypes /\ ready \subseteq EntrySet
    BY <1>1, <1>9 DEF PiTypes, ClawTypes
  <2>2. ProviderTypes
    BY <1>1 DEF ProviderTypes
  <2> QED  BY <1>1, <1>8, <2>1, <2>2, TypeParts
<1>11. JobInv
  BY <1>1, <1>4, <1>5, <1>6 DEF JobInv
<1>12. LiveInv
  BY <1>5, <1>6 DEF LiveInv
<1>13. TurnInv /\ PromptInv
  BY <1>9 DEF TurnInv, PromptInv, Started
<1>14. ClawTokens
  BY <1>1 DEF ClawTokens
<1> QED
  BY <1>1, <1>10, <1>11, <1>12, <1>13, <1>14 DEF IInv, PiInv, HermesInv, ClawInv

\* What an inductive step must establish, in parts.
LEMMA InvNext ==
  ASSUME AdapterTypeOK', PiTypes', ClawTypes', (ready \subseteq EntrySet)',
         ProviderTypes', host' \in {"pi", "hermes", "openclaw", "runner"},
         JobInv', PiInv', HermesInv', ClawInv'
  PROVE  IInv'
<1>1. TypeOK'
  BY TypePartsNext
<1> QED  BY <1>1 DEF IInv

\* The steps of the process that serves the runner.
LEMMA ServeInv ==
  ASSUME IInv, host = "runner", AdapterNext, UNCHANGED <<hostVars, provider, host>>
  PROVE  IInv' /\ EvidenceFits
<1>1. /\ AdapterTypeOK /\ PiTypes /\ ClawTypes /\ ready \subseteq EntrySet
      /\ ProviderTypes /\ JobInv
  BY TypeParts DEF IInv
<1>2. AdapterTypeOK' /\ JobInv' /\ EvidenceStep
  BY <1>1, AdapterStep
<1>3. PiTypes'
  BY <1>1, <1>2, PiTypesKept DEF hostVars
<1>4. ClawTypes' /\ (ready \subseteq EntrySet)' /\ ProviderTypes'
  BY <1>1 DEF hostVars, ClawTypes, ProviderTypes
<1>5. PiInv' /\ HermesInv' /\ ClawInv'
  BY DEF PiInv, HermesInv, ClawInv
<1>6. host' \in {"pi", "hermes", "openclaw", "runner"}
  OBVIOUS
<1>7. IInv'
  BY <1>2, <1>3, <1>4, <1>5, <1>6, InvNext
<1>8. EvidenceTypes
  BY <1>1, AdapterParts
<1>9. \A j \in DOMAIN issued : issued'[j] = issued[j]
  <2>1. CASE UNCHANGED issued
    BY <2>1
  <2>2. CASE Issue
    <3>1. CASE issued' = Append(issued, EvidenceFor(job.call, job.basis))
      <4>1. issued \in Seq(EvidenceSet)
        BY <1>8 DEF EvidenceTypes
      <4> QED  BY <3>1, <4>1
    <3> QED  BY <2>1, <2>2, <3>1 DEF Issue
  <2> QED
    BY <2>1, <2>2
       DEF AdapterNext, Use, Lookup, Restart, CoolDown, Recover, Trouble, Serve, Begin,
           PreviewRecall, PreviewContext, Retrieve, TimeOut
<1> QED  BY <1>7, <1>8, <1>9, NoUse

\* Time passes.
LEMMA ExpireInv ==
  ASSUME IInv, EvidenceExpires, UNCHANGED host
  PROVE  IInv' /\ EvidenceFits
<1>1. /\ AdapterTypeOK /\ PiTypes /\ ClawTypes /\ ready \subseteq EntrySet
      /\ ProviderTypes /\ JobInv /\ PiInv /\ ClawInv
      /\ host \in {"pi", "openclaw"}
  BY TypeParts DEF IInv, EvidenceExpires
<1>2. PICK i \in DOMAIN issued : expired' = expired \cup {i}
  BY DEF EvidenceExpires, Expire
<1>3. UNCHANGED <<modelVars, transport, adapter, calls, job, issued, hostVars, provider>>
  BY DEF EvidenceExpires, Expire
<1>4. EvidenceTypes /\ CallTypesOK /\ ModelTypes /\ expired \subseteq DOMAIN issued
  BY <1>1, AdapterParts
<1>5. CallKept /\ EvidenceStep
  BY <1>1, <1>3, <1>4, QuietStep
<1>6. AdapterTypeOK'
  BY <1>1, <1>2, <1>3 DEF AdapterTypeOK, modelVars
<1>7. PiTypes'
  BY <1>1, <1>3, <1>5, PiTypesKept DEF hostVars
<1>8. ClawTypes' /\ (ready \subseteq EntrySet)' /\ ProviderTypes'
  BY <1>1, <1>3 DEF hostVars, ClawTypes, ProviderTypes
<1>9. PiInv'
  <2> SUFFICES ASSUME host = "pi"
               PROVE  LiveInv' /\ TurnInv' /\ PromptInv'
    BY DEF PiInv
  <2>1. LiveInv /\ TurnInv /\ PromptInv /\ UNCHANGED <<calls, issued, pi, run, consumed>>
    BY <1>1, <1>3 DEF PiInv, hostVars, piVars
  <2>2. LiveInv'
    BY <2>1 DEF LiveInv
  <2>3. TurnInv'
    BY <1>2, <2>1 DEF TurnInv
  <2>4. PromptInv'
    BY <2>1 DEF PromptInv, Misled
  <2> QED  BY <2>2, <2>3, <2>4
<1>10. ClawInv'
  BY <1>1, <1>3 DEF ClawInv, ClawTokens, For, Token, hostVars
<1>11. HermesInv'
  BY <1>1 DEF HermesInv
<1>12. IInv'
  BY <1>1, <1>5, <1>6, <1>7, <1>8, <1>9, <1>10, <1>11, InvNext DEF CallKept
<1>13. EvidenceFits
  BY <1>3, <1>4, NoUse
<1> QED  BY <1>12, <1>13

\* The steps of the hosts.
LEMMA HostInv ==
  ASSUME IInv, HostNext, UNCHANGED served, UNCHANGED host
  PROVE  IInv' /\ EvidenceFits
<1>1. /\ AdapterTypeOK /\ PiTypes /\ ClawTypes /\ ready \subseteq EntrySet
      /\ ProviderTypes /\ JobInv /\ PiInv /\ HermesInv /\ ClawInv
      /\ host' \in {"pi", "hermes", "openclaw", "runner"}
  BY TypeParts DEF IInv
<1>2. EvidenceTypes /\ CallTypesOK
  BY <1>1, AdapterParts
<1>3. HostFrom
  BY <1>1, <1>2 DEF HostFrom, served
<1>4. ASSUME CallKept, EvidenceStep
      PROVE  AdapterTypeOK' /\ JobInv'
  BY <1>1, <1>4, ServedStep DEF CallKept
<1>5. CASE host = "pi" /\ PiNext /\ UNCHANGED <<ready, pending, gate>>
  <2>1. PiFrom
    BY <1>1, <1>2, <1>3, <1>5 DEF PiFrom, PiHolds, PiInv, HostFrom
  <2>2. PiTo /\ EvidenceFits
    BY <1>5, <2>1, PiStep, PiGuard
  <2>3. PiTypes' /\ PiInv' /\ HermesInv' /\ ClawInv'
    BY <1>5, <2>2 DEF PiTo, PiHolds, PiInv, HermesInv, ClawInv
  <2>4. ClawTypes' /\ (ready \subseteq EntrySet)'
    BY <1>1, <1>5 DEF ClawTypes
  <2>5. ProviderTypes'
    <3>1. provider' = NoRequest \/ provider' = provider
      BY <1>5
         DEF PiNext, PiInput, PiPrompt, PiInputReturns, PiBeforeAgentStart,
             PiStartReturns, PiAgentStart, PiTurnStart, PiTurnReturns, PiContext,
             PiBeforeProviderRequest, PiTurnEnd, PiSettled, PiSessionStart,
             PiAvailability, PiSwitchModel, Refuse, Answered
    <3>2. CASE provider' = NoRequest
      BY <3>2 DEF NoRequest, ProviderTypes
    <3>3. CASE provider' = provider
      BY <3>3, <1>1 DEF ProviderTypes
    <3> QED  BY <3>1, <3>2, <3>3
  <2>6. AdapterTypeOK' /\ JobInv'
    BY <1>4, <2>2 DEF PiTo
  <2> QED  BY <1>1, <2>2, <2>3, <2>4, <2>5, <2>6, InvNext
<1>6. CASE host = "hermes" /\ HermesNext /\ UNCHANGED <<piVars, pending, gate>>
  <2>1. HostTo /\ Turns' /\ ProviderTypes'
    BY <1>1, <1>3, <1>6, HermesStep DEF Turns, HermesInv
  <2>2. PiTypes'
    BY <1>1, <1>6, <2>1, PiTypesKept DEF HostTo
  <2>3. ClawTypes'
    BY <1>1, <1>6 DEF ClawTypes
  <2>4. (ready \subseteq EntrySet)' /\ HermesInv'
    BY <2>1 DEF Turns, HermesInv
  <2>5. PiInv' /\ ClawInv'
    BY <1>6 DEF PiInv, ClawInv
  <2>6. AdapterTypeOK' /\ JobInv' /\ EvidenceFits
    BY <1>4, <2>1 DEF HostTo
  <2> QED  BY <1>1, <2>1, <2>2, <2>3, <2>4, <2>5, <2>6, InvNext
<1>7. CASE host = "openclaw" /\ ClawNext /\ UNCHANGED <<piVars, ready>>
  <2>1. HostTo /\ ClawTypes' /\ ClawTokens' /\ ProviderTypes'
    BY <1>1, <1>3, <1>7, ClawStep DEF ClawInv
  <2>2. PiTypes'
    BY <1>1, <1>7, <2>1, PiTypesKept DEF HostTo
  <2>3. (ready \subseteq EntrySet)'
    BY <1>1, <1>7
  <2>4. PiInv' /\ HermesInv' /\ ClawInv'
    BY <1>7, <2>1 DEF PiInv, HermesInv, ClawInv
  <2>5. AdapterTypeOK' /\ JobInv' /\ EvidenceFits
    BY <1>4, <2>1 DEF HostTo
  <2> QED  BY <1>1, <2>1, <2>2, <2>3, <2>4, <2>5, InvNext
<1>8. CASE host = "runner" /\ RunnerNext /\ UNCHANGED hostVars
  <2>1. HostTo /\ ProviderTypes'
    BY <1>1, <1>3, <1>8, RunnerStep
  <2>2. PiTypes'
    BY <1>1, <1>8, <2>1, PiTypesKept DEF HostTo, hostVars
  <2>3. ClawTypes' /\ (ready \subseteq EntrySet)'
    BY <1>1, <1>8 DEF ClawTypes, hostVars
  <2>4. PiInv' /\ HermesInv' /\ ClawInv'
    BY <1>8 DEF PiInv, HermesInv, ClawInv
  <2>5. AdapterTypeOK' /\ JobInv' /\ EvidenceFits
    BY <1>4, <2>1 DEF HostTo
  <2> QED  BY <1>1, <2>1, <2>2, <2>3, <2>4, <2>5, InvNext
<1> QED  BY <1>5, <1>6, <1>7, <1>8 DEF HostNext

LEMMA StepInv ==
  ASSUME IInv, Next, UNCHANGED host
  PROVE  IInv' /\ EvidenceFits
<1>1. CASE host = "runner" /\ AdapterNext /\ UNCHANGED <<hostVars, provider>>
  BY <1>1, ServeInv
<1>2. CASE EvidenceExpires
  BY <1>2, ExpireInv
<1>3. CASE HostNext /\ UNCHANGED served
  BY <1>3, HostInv
<1> QED  BY <1>1, <1>2, <1>3 DEF Next

LEMMA StutterInv ==
  ASSUME IInv, UNCHANGED vars
  PROVE  IInv' /\ EvidenceFits
<1>1. /\ AdapterTypeOK /\ PiTypes /\ ClawTypes /\ ready \subseteq EntrySet
      /\ ProviderTypes /\ JobInv /\ PiInv /\ HermesInv /\ ClawInv
      /\ host \in {"pi", "hermes", "openclaw", "runner"}
  BY TypeParts DEF IInv
<1>2. UNCHANGED <<config, service, outages, transport, adapter, calls, job, issued,
                  expired, host, session, model, pi, run, consumed, ready, pending, gate,
                  provider>>
  BY DEF vars, adapterVars, modelVars, hostVars, piVars
<1>3. EvidenceTypes /\ CallTypesOK
  BY <1>1, AdapterParts
<1>4. CallKept /\ EvidenceStep
  BY <1>1, <1>2, <1>3, QuietStep
<1>5. AdapterTypeOK'
  BY <1>1, <1>2, <1>4, ServedStep DEF served, modelVars
<1>6. PiTypes'
  BY <1>1, <1>2, <1>4, PiTypesKept DEF piVars
<1>7. ClawTypes' /\ (ready \subseteq EntrySet)' /\ ProviderTypes'
  BY <1>1, <1>2 DEF ClawTypes, ProviderTypes
<1>8. PiInv'
  BY <1>1, <1>2 DEF PiInv, LiveInv, TurnInv, PromptInv, Misled
<1>9. HermesInv' /\ ClawInv'
  BY <1>1, <1>2 DEF HermesInv, ClawInv, ClawTokens, For, Token
<1>10. host' \in {"pi", "hermes", "openclaw", "runner"}
  BY <1>1, <1>2
<1>11. IInv'
  BY <1>4, <1>5, <1>6, <1>7, <1>8, <1>9, <1>10, InvNext DEF CallKept
<1>12. EvidenceFits
  BY <1>2, <1>3, NoUse
<1> QED  BY <1>11, <1>12

\* The invariant behind GuardedProviderCall: a job is for the call it was begun
\* for, a run waits for one call, and the prompt on record may be another's
\* only where the handlers of the run refuse.
THEOREM AccessInductive == Spec => []IInv
<1>1. IInv /\ [Next /\ UNCHANGED host]_vars => IInv'
  BY StepInv, StutterInv
<1> QED  BY InitInv, <1>1, PTL DEF Spec

\* The model's type invariant, of adapter, calls, evidence and every host.
THEOREM AccessTypes == Spec => []TypeOK
<1>1. IInv => TypeOK
  BY DEF IInv
<1> QED  BY AccessInductive, <1>1, PTL

\* No provider is called on other evidence than its own, whatever is late,
\* replaced, expired or abandoned in the meantime, with the two exceptions
\* that GuardedProviderCall states: two late answers in one run of Pi, and
\* evidence or runs of OpenClaw without a key in common.
THEOREM ProviderCallsGuarded == Spec => GuardedProviderCall
<1>1. IInv /\ [Next /\ UNCHANGED host]_vars => EvidenceFits
  BY StepInv, StutterInv
<1> QED  BY AccessInductive, <1>1, PTL DEF Spec, GuardedProviderCall
=============================================================================
