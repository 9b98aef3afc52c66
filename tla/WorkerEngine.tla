----------------------------- MODULE WorkerEngine -----------------------------
(***************************************************************************)
(* srt/managers/scheduler.py in worker-pool mode: the event loop of one    *)
(* worker engine, down to which model it hosts and which requests it       *)
(* holds.  A worker polls its socket, obeys at most one activation and one *)
(* deactivation of what it read, and while activated fetches requests of   *)
(* its model and runs them.  The batches and their KV cache are not here.  *)
(***************************************************************************)
EXTENDS WorkerPool, RedisQueues

VARIABLES
  activated,      \* _activated of each worker
  hosted,         \* model_name of each worker
  todo,           \* control requests read and selected, in the order to obey them
  draining,       \* in _run_to_completion_normal for Head(todo)
  waiting,        \* waiting_queue
  running,        \* running_batch and last_batch
  finished        \* requests whose last output was streamed out

engineVars == <<activated, hosted, todo, draining, waiting, running, finished>>

EngineInit ==
  /\ activated = [g \in GPUs |-> [w \in Workers |-> w < Len(InitPlacement[g])]]
  /\ hosted = [g \in GPUs |-> [w \in Workers |->
       IF w < Len(InitPlacement[g]) THEN InitPlacement[g][w + 1] ELSE NoModel]]
  /\ todo = [g \in GPUs |-> [w \in Workers |-> <<>>]]
  /\ draining = [g \in GPUs |-> [w \in Workers |-> FALSE]]
  /\ waiting = [g \in GPUs |-> [w \in Workers |-> {}]]
  /\ running = [g \in GPUs |-> [w \in Workers |-> {}]]
  /\ finished = {}

Report(g, req, ok) ==
  engine_out' = [engine_out EXCEPT ![g] = Append(@, ReqOutput(req, ok))]

\* The first request of a kind among those read, if there is one.
FirstOf(batch, type) ==
  LET I == {i \in DOMAIN batch :
              batch[i].type = type /\ \A j \in 1 .. i - 1 : batch[j].type # type}
  IN  IF I = {} THEN <<>> ELSE <<batch[CHOOSE i \in I : TRUE]>>

ActivationFirst(batch, isActivated) ==  \* fault
  FirstOf(batch, "activate") \o FirstOf(batch, "deactivate")

\* process_activate_deactivate_requests: the first request of each kind, the
\* deactivation first iff the worker is activated; the others are dropped.
Selected(batch, isActivated) ==
  LET act == FirstOf(batch, "activate")
      deact == FirstOf(batch, "deactivate")
  IN  IF isActivated THEN deact \o act ELSE act \o deact

PollControl(g, w) ==
  /\ todo[g][w] = <<>>
  /\ DrainSocket(g, w)
  /\ todo' = [todo EXCEPT ![g][w] = Selected(worker_sock[g][w], activated[g][w])]
  /\ UNCHANGED <<model_to_worker, free_workers, redisVars, activated, hosted,
                 draining, waiting, running, finished>>

NextIs(g, w, type) ==
  /\ todo[g][w] # <<>>
  /\ Head(todo[g][w]).type = type
  /\ ~draining[g][w]

Obeyed(g, w) == todo' = [todo EXCEPT ![g][w] = Tail(@)]

\* handle_activate_request: refused by an activated worker, whatever the model.
\* Of the asserts on last_batch and running_batch the guard states nothing:
\* a deactivated worker has emptied both.
HandleActivateRequest(g, w) ==
  LET req == Head(todo[g][w]) IN
  /\ NextIs(g, w, "activate")
  /\ Obeyed(g, w)
  /\ Report(g, req, ~activated[g][w])
  /\ activated' = [activated EXCEPT ![g][w] = TRUE]
  /\ hosted' = IF activated[g][w] THEN hosted
               ELSE [hosted EXCEPT ![g][w] = req.model]
  /\ UNCHANGED <<poolVars, frontend, backend, draining, waiting, running, finished>>

\* handle_deactivate_request on a deactivated worker.
RefuseDeactivateRequest(g, w) ==
  /\ NextIs(g, w, "deactivate")
  /\ ~activated[g][w]
  /\ Obeyed(g, w)
  /\ Report(g, Head(todo[g][w]), FALSE)
  /\ UNCHANGED <<poolVars, frontend, backend, activated, hosted, draining,
                 waiting, running, finished>>

\* _evict_all_waiting_requests empties the waiting queue, if it is called.
Evicts(req) == req.evict \/ req.preempt
KeptWaitingUncleared(g, w, req) == waiting[g][w]  \* fault: sent, and kept
KeptWaiting(g, w, req) == IF Evicts(req) THEN {} ELSE waiting[g][w]

\* handle_deactivate_request up to the treatment of the running requests.  The
\* model named by the request is not compared with the hosted one.  Preempting
\* (RECOMPUTE) retracts the running requests into the waiting queue, after the
\* waiting ones were sent away; otherwise the worker runs to completion.
HandleDeactivateRequest(g, w) ==
  LET req == Head(todo[g][w])
      left == KeptWaiting(g, w, req)
  IN
  /\ NextIs(g, w, "deactivate")
  /\ activated[g][w]
  /\ activated' = [activated EXCEPT ![g][w] = FALSE]
  /\ IF Evicts(req)
     THEN \E order \in SetToSeqs(waiting[g][w]) :
            frontend' = [frontend EXCEPT ![hosted[g][w]] = @ \o order]
     ELSE UNCHANGED frontend
  /\ \/ /\ ~req.preempt
        /\ waiting' = [waiting EXCEPT ![g][w] = left]
        /\ draining' = [draining EXCEPT ![g][w] = TRUE]
        /\ UNCHANGED <<running, todo, engine_out>>
     \/ /\ req.preempt
        /\ waiting' = [waiting EXCEPT ![g][w] = left \cup running[g][w]]
        /\ running' = [running EXCEPT ![g][w] = {}]
        /\ Obeyed(g, w)
        /\ Report(g, req, TRUE)
        /\ UNCHANGED draining
  /\ UNCHANGED <<poolVars, backend, hosted, finished>>

\* The loop of _run_to_completion_normal is over.
BatchDone(g, w) == running[g][w] = {}  \* fault: the waiting requests are left
Drained(g, w) == waiting[g][w] = {} /\ running[g][w] = {}

\* The end of _run_to_completion_normal and of handle_deactivate_request.
CompleteDeactivation(g, w) ==
  /\ draining[g][w]
  /\ Drained(g, w)
  /\ draining' = [draining EXCEPT ![g][w] = FALSE]
  /\ Obeyed(g, w)
  /\ Report(g, Head(todo[g][w]), TRUE)
  /\ UNCHANGED <<poolVars, frontend, backend, activated, hosted, waiting, running, finished>>
-------------------------------------------------------------------------------
(* Serving, in the event loop's activated branch or while running to completion *)

ServingActivated(g, w) == activated[g][w] /\ todo[g][w] = <<>>  \* fault: not when draining
Serving(g, w) == draining[g][w] \/ (activated[g][w] /\ todo[g][w] = <<>>)

\* recv_generation_requests: lpop of at most max_fetch_count requests, a count
\* the free KV cache decides.
RecvGenerationRequests(g, w) ==
  LET key == hosted[g][w] IN
  /\ activated[g][w] /\ todo[g][w] = <<>>
  /\ \E n \in 1 .. Len(backend[key]) :
       /\ waiting' = [waiting EXCEPT ![g][w] = @ \cup ToSet(SubSeq(backend[key], 1, n))]
       /\ backend' = [backend EXCEPT ![key] = SubSeq(@, n + 1, Len(@))]
  /\ UNCHANGED <<poolVars, frontend, engine_out, activated, hosted, todo,
                 draining, running, finished>>

\* get_next_batch_to_run puts a waiting request into a prefill batch.
StartRunning(g, w) ==
  /\ Serving(g, w)
  /\ \E r \in waiting[g][w] :
       /\ waiting' = [waiting EXCEPT ![g][w] = @ \ {r}]
       /\ running' = [running EXCEPT ![g][w] = @ \cup {r}]
  /\ UNCHANGED <<poolVars, redisVars, activated, hosted, todo, draining, finished>>

\* update_running_batch finds no KV cache for the next tokens (retract_decode).
Retract(g, w) ==
  /\ Serving(g, w)
  /\ \E r \in running[g][w] :
       /\ running' = [running EXCEPT ![g][w] = @ \ {r}]
       /\ waiting' = [waiting EXCEPT ![g][w] = @ \cup {r}]
  /\ UNCHANGED <<poolVars, redisVars, activated, hosted, todo, draining, finished>>

\* process_batch_result streams a finished request out.
Finish(g, w) ==
  /\ Serving(g, w)
  /\ \E r \in running[g][w] :
       /\ running' = [running EXCEPT ![g][w] = @ \ {r}]
       /\ finished' = finished \cup {r}
  /\ UNCHANGED <<poolVars, redisVars, activated, hosted, todo, draining, waiting>>

Control(g, w) ==
  \/ PollControl(g, w)
  \/ HandleActivateRequest(g, w)
  \/ RefuseDeactivateRequest(g, w)
  \/ HandleDeactivateRequest(g, w)
  \/ CompleteDeactivation(g, w)

Generation(g, w) ==
  \/ RecvGenerationRequests(g, w)
  \/ StartRunning(g, w)
  \/ Retract(g, w)
  \/ Finish(g, w)

EngineTypeOK ==
  /\ activated \in [GPUs -> [Workers -> BOOLEAN]]
  /\ hosted \in [GPUs -> [Workers -> Models \cup {NoModel}]]
  /\ todo \in [GPUs -> [Workers -> Seq(ControlReqs)]]
  /\ draining \in [GPUs -> [Workers -> BOOLEAN]]
  /\ waiting \in [GPUs -> [Workers -> SUBSET Reqs]]
  /\ running \in [GPUs -> [Workers -> SUBSET Reqs]]
  /\ finished \in SUBSET Reqs
===============================================================================
