------------------------------- MODULE Broker -------------------------------
(***************************************************************************)
(* The local broker (agent_broker.py): one thread per connection submits a *)
(* request to a bounded queue that takes turns between callers and waits   *)
(* for its completion; one worker thread takes requests off the queue and  *)
(* dispatches them to the memory; the main thread accepts connections and, *)
(* when told to stop, closes the queue and answers what is still in it.    *)
(*                                                                         *)
(* The queue is guarded by one condition variable, so each of its methods  *)
(* is one step.  A client (BrokerClient) sends one request at a time, as   *)
(* often as it likes, so its id also names its job and its connection.     *)
(* The deadline of a request may pass at any time; the connection thread   *)
(* and the worker notice it independently.  Frames, peer checks and        *)
(* telemetry are left out, and the four ways to reject a request (its      *)
(* deadline, the two limits of the queue, the stop) are one.               *)
(***************************************************************************)
EXTENDS Naturals, Sequences, FiniteSets, SequencesExt

CONSTANTS
  Clients,   \* clients, each with one request at a time
  Callers,   \* caller ids
  CallerOf,  \* the caller id of a client
  Depth,     \* queue_depth
  Quota,     \* per_caller_quota
  Impatient  \* the clients whose own time-out can pass

ASSUME BrokerAssumption ==
  /\ IsFiniteSet(Clients)
  /\ CallerOf \in [Clients -> Callers]
  /\ Depth \in Nat \ {0}
  /\ Quota \in 1 .. Depth
  /\ Impatient \subseteq Clients

None == "none"
ASSUME NoneAssumption == None \notin Clients

Slots == Depth + 2

VARIABLES
  \* the queue
  queues,     \* _queues, empty where there is no entry
  callers,    \* _callers
  closed,     \* _closed
  \* jobs and connections
  conn,       \* where the connection thread is
  response,   \* job.response, or what the thread is about to write
  completed,  \* the jobs whose completed event is set
  gone,       \* the clients that stopped waiting for their answer
  \* the worker and the main thread
  worker, active,
  server, stop, pending,
  \* history
  ran,        \* the jobs whose dispatch began
  passed      \* per caller, whose jobs were taken since its last turn

queueVars == <<queues, callers, closed>>
jobVars == <<conn, response, completed, gone>>
workerVars == <<worker, active>>
serverVars == <<server, stop, pending>>
vars == <<queueVars, jobVars, workerVars, serverVars, ran, passed>>

Contents(c) == {queues[c][i] : i \in DOMAIN queues[c]}
Queued == {j \in Clients : j \in Contents(CallerOf[j])}
Connected == {j \in Clients : conn[j] # "none"}

Init ==
  /\ queues = [c \in Callers |-> <<>>]
  /\ callers = <<>>
  /\ closed = FALSE
  /\ conn = [j \in Clients |-> "none"]
  /\ response = [j \in Clients |-> None]
  /\ completed = {} /\ gone = {}
  /\ worker = "loop" /\ active = None
  /\ server = "serving" /\ stop = FALSE /\ pending = {}
  /\ ran = {}
  /\ passed = [c \in Callers |-> {}]

\* The connection thread of j has its answer.
Answer(j, code) ==
  /\ conn' = [conn EXCEPT ![j] = "writing"]
  /\ response' = [response EXCEPT ![j] = code]

\* A job is completed, by the worker or by the main thread.
Complete(j, code) ==
  /\ response' = [response EXCEPT ![j] = code]
  /\ completed' = completed \cup {j}

-----------------------------------------------------------------------------
(* The queue *)

\* submit: a caller without queued jobs goes to the end of the turns.
EnqueueFirst(j) ==
  LET c == CallerOf[j]
  IN /\ queues' = [queues EXCEPT ![c] = Append(@, j)]
     /\ callers' = IF queues[c] = <<>> THEN <<c>> \o callers ELSE callers

Enqueue(j) ==
  LET c == CallerOf[j]
  IN /\ queues' = [queues EXCEPT ![c] = Append(@, j)]
     /\ callers' = IF queues[c] = <<>> THEN Append(callers, c) ELSE callers

Rejects(j) ==
  \/ closed
  \/ Cardinality(Queued) >= Depth
  \/ Len(queues[CallerOf[j]]) >= Quota

\* cancel of a job that is still queued; a job is in its queue only once, and a
\* caller in the turns.
Dequeue(j) ==
  LET c == CallerOf[j]
      left == RemoveFirst(queues[c], j)
  IN /\ queues' = [queues EXCEPT ![c] = left]
     /\ callers' = IF left = <<>> THEN RemoveFirst(callers, c) ELSE callers

-----------------------------------------------------------------------------
(* The main thread *)

Connect(j) ==
  /\ server = "serving"
  /\ conn[j] = "none"
  /\ Cardinality(Connected) < Slots
  /\ conn' = [conn EXCEPT ![j] = "reading"]
  /\ UNCHANGED <<queueVars, response, completed, gone, workerVars, serverVars,
                 ran, passed>>

\* SIGINT or SIGTERM
RequestStop ==
  /\ ~stop
  /\ stop' = TRUE
  /\ UNCHANGED <<queueVars, jobVars, workerVars, server, pending, ran, passed>>

\* close: the queue is emptied, and what was in it is answered job by job.
Close ==
  /\ server = "serving" /\ stop
  /\ server' = "closing"
  /\ closed' = TRUE
  /\ pending' = Queued
  /\ queues' = [c \in Callers |-> <<>>]
  /\ callers' = <<>>
  /\ passed' = [c \in Callers |-> {}]
  /\ UNCHANGED <<jobVars, workerVars, stop, ran>>

AnswerPending(j) ==
  /\ server = "closing"
  /\ j \in pending
  /\ pending' = pending \ {j}
  /\ Complete(j, "rejected")
  /\ UNCHANGED <<queueVars, conn, gone, workerVars, server, stop, ran, passed>>

(* serve_forever waits a bounded time for the worker and the connections   *)
(* and returns; the memory is closed once the operation that runs on it    *)
(* has ended, and the process exits with the threads that are left.        *)
Exit ==
  /\ server = "closing"
  /\ pending = {}
  /\ worker # "dispatch"
  /\ server' = "exited"
  /\ conn' = [j \in Clients |-> "none"]
  /\ gone' = gone \cup Connected
  /\ response' = [j \in Clients |-> None]
  /\ completed' = {}
  /\ worker' = "exited" /\ active' = None
  /\ UNCHANGED <<queueVars, stop, pending, ran, passed>>

-----------------------------------------------------------------------------
(* A connection thread *)

\* The frame cannot be read or is not a valid request.
BadRequest(j) ==
  /\ conn[j] = "reading"
  /\ Answer(j, "failed")
  /\ UNCHANGED <<queueVars, completed, gone, workerVars, serverVars, ran, passed>>

Submit(j) ==
  /\ conn[j] = "reading"
  /\ \/ Rejects(j) /\ Answer(j, "rejected") /\ UNCHANGED <<queues, callers, passed>>
     \/ /\ ~Rejects(j)
        /\ Enqueue(j)
        /\ passed' = IF queues[CallerOf[j]] = <<>>
                     THEN [passed EXCEPT ![CallerOf[j]] = {}] ELSE passed
        /\ conn' = [conn EXCEPT ![j] = "waiting"]
        /\ UNCHANGED response
  /\ UNCHANGED <<closed, completed, gone, workerVars, serverVars, ran>>

\* completed.wait(deadline) returns False ...
TimeOut(j) ==
  /\ conn[j] = "waiting"
  /\ j \notin completed
  /\ conn' = [conn EXCEPT ![j] = "expired"]
  /\ UNCHANGED <<queueVars, response, completed, gone, workerVars, serverVars,
                 ran, passed>>

\* ... and the job is taken off the queue, unless it is no longer there.
AnswerAtDeadline(j) ==
  /\ conn[j] = "expired"
  /\ Answer(j, "rejected")
  /\ UNCHANGED <<queueVars, completed, gone, workerVars, serverVars, ran, passed>>

Cancel(j) ==
  /\ conn[j] = "expired"
  /\ \/ j \in Queued /\ Dequeue(j) /\ Answer(j, "rejected")
     \/ /\ j \notin Queued
        /\ conn' = [conn EXCEPT ![j] = "blocked"]
        /\ UNCHANGED <<queues, callers, response>>
  /\ UNCHANGED <<closed, completed, gone, workerVars, serverVars, ran, passed>>

\* Either wait returns with the job completed.
Wake(j) ==
  /\ conn[j] \in {"waiting", "blocked"}
  /\ j \in completed
  /\ Answer(j, response[j])
  /\ UNCHANGED <<queueVars, completed, gone, workerVars, serverVars, ran, passed>>

\* The answer is written, or cannot be (its client is gone, or it does not fit
\* a frame); the slot is free again.
Write(j) ==
  /\ conn[j] = "writing"
  /\ conn' = [conn EXCEPT ![j] = "none"]
  /\ response' = [response EXCEPT ![j] = None]
  /\ completed' = completed \ {j}
  /\ gone' = gone \ {j}
  /\ ran' = ran \ {j}
  /\ UNCHANGED <<queueVars, workerVars, serverVars, passed>>

\* BrokerClient.call: the client's own time-out.
GiveUp(j) ==
  /\ j \in (Impatient \cap Connected) \ gone
  /\ gone' = gone \cup {j}
  /\ UNCHANGED <<queueVars, conn, response, completed, workerVars, serverVars,
                 ran, passed>>

-----------------------------------------------------------------------------
(* The worker thread *)

Loop ==
  /\ worker = "loop"
  /\ worker' = IF stop THEN "exited" ELSE "get"
  /\ UNCHANGED <<queueVars, jobVars, active, serverVars, ran, passed>>

GetNothing ==
  /\ worker = "get"
  /\ callers = <<>>
  /\ worker' = "loop"
  /\ UNCHANGED <<queueVars, jobVars, active, serverVars, ran, passed>>

\* The caller whose turn it is gives its oldest job and goes to the end.
Get ==
  /\ worker = "get"
  /\ callers # <<>>
  /\ LET c == Head(callers)
         left == Tail(queues[c])
     IN /\ active' = Head(queues[c])
        /\ queues' = [queues EXCEPT ![c] = left]
        /\ callers' = IF left = <<>> THEN Tail(callers)
                      ELSE Append(Tail(callers), c)
        /\ passed' = [d \in Callers |->
                       IF d = c \/ queues[d] = <<>> THEN {} ELSE passed[d] \cup {c}]
  /\ worker' = "taken"
  /\ UNCHANGED <<closed, jobVars, serverVars, ran>>

\* The job spent longer than the deadline in the queue.
RejectLateQuietly ==
  /\ worker = "taken"
  /\ worker' = "loop" /\ active' = None
  /\ UNCHANGED <<queueVars, jobVars, serverVars, ran, passed>>

RejectLate ==
  /\ worker = "taken"
  /\ Complete(active, "rejected")
  /\ worker' = "loop" /\ active' = None
  /\ UNCHANGED <<queueVars, conn, gone, serverVars, ran, passed>>

\* It did not; then the connection thread has not timed out either.
Dispatch ==
  /\ worker = "taken"
  /\ conn[active] = "waiting"
  /\ ran' = ran \cup {active}
  /\ worker' = "dispatch"
  /\ UNCHANGED <<queueVars, jobVars, active, serverVars, passed>>

Finish ==
  /\ worker = "dispatch"
  /\ \E code \in {"result", "failed"} : Complete(active, code)
  /\ worker' = "loop" /\ active' = None
  /\ UNCHANGED <<queueVars, conn, gone, serverVars, ran, passed>>

-----------------------------------------------------------------------------
WorkerNext == Loop \/ GetNothing \/ Get \/ RejectLate \/ Dispatch \/ Finish

ConnectionNext(j) == BadRequest(j) \/ Submit(j) \/ Cancel(j) \/ Wake(j) \/ Write(j)

ServerNext == Close \/ (\E j \in Clients : AnswerPending(j)) \/ Exit

\* The process has ended.
Ended == server = "exited" /\ UNCHANGED vars

Next ==
  \/ \E j \in Clients : Connect(j) \/ TimeOut(j) \/ GiveUp(j) \/ ConnectionNext(j)
  \/ RequestStop \/ ServerNext \/ WorkerNext \/ Ended

Spec == Init /\ [][Next]_vars

(* Every thread is scheduled, and a dispatch ends ("the bounded active     *)
(* operation" of _handle_connection).  Nothing is assumed of the clients,  *)
(* of deadlines or of the signal to stop.                                  *)
FairSpec ==
  /\ Spec
  /\ WF_vars(WorkerNext) /\ WF_vars(ServerNext)
  /\ \A j \in Clients : WF_vars(ConnectionNext(j))

-----------------------------------------------------------------------------
(* Properties *)

TypeOK ==
  /\ queues \in [Callers -> Seq(Clients)]
  /\ callers \in Seq(Callers)
  /\ closed \in BOOLEAN /\ stop \in BOOLEAN
  /\ conn \in [Clients -> {"none", "reading", "waiting", "expired", "blocked",
                           "writing"}]
  /\ response \in [Clients -> {None, "rejected", "failed", "result"}]
  /\ \A j \in Clients : conn[j] = "writing" => response[j] # None
  /\ completed \subseteq Clients /\ gone \subseteq Clients
  /\ worker \in {"loop", "get", "taken", "dispatch", "exited"}
  /\ active \in Clients \cup {None}
  /\ active # None <=> worker \in {"taken", "dispatch"}
  /\ server \in {"serving", "closing", "exited"}
  /\ pending \subseteq Clients
  /\ ran \subseteq Clients
  /\ passed \in [Callers -> SUBSET Callers]

(* A request that is rejected, for its deadline, a limit of the queue or   *)
(* the stop, has not begun and never will; a result means that it ran.     *)
AnswerIsTruthful ==
  \A j \in Clients :
    /\ response[j] = "rejected" => j \notin ran \cup Queued /\ active # j
    /\ response[j] = "result" => j \in ran

(* Callers take turns: while a caller has jobs queued, no other caller has *)
(* two jobs taken between two of its own.                                  *)
NoOvertaking ==
  [][active' # active /\ active' # None =>
       \A c \in Callers : c # CallerOf[active'] /\ queues[c] # <<>> =>
         CallerOf[active'] \notin passed[c]]_vars

(* Every request that was accepted is answered, although others keep       *)
(* coming, also when its deadline passes while it is taken off the queue   *)
(* or while the broker stops, unless the process ends first.               *)
EveryRequestAnswered ==
  \A j \in Clients : conn[j] = "waiting" ~> conn[j] = "none"
=============================================================================
