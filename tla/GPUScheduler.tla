----------------------------- MODULE GPUScheduler -----------------------------
(***************************************************************************)
(* multi_model/scheduling/gpu/gpu_scheduler.py: the process that admits    *)
(* requests to the engines of one GPU.  It has two threads.                *)
(*  - The receiver loops over: pull the frontend lists of the models it    *)
(*    believes active into the priority queue, obey the request handler,   *)
(*    read what the engines report.                                        *)
(*  - The scheduling thread loops over: look at the backend lengths, run   *)
(*    admission control on the queue, push what it admitted to the         *)
(*    backend lists.                                                       *)
(* They share the queue (under its lock) and the model states (without).   *)
(* The queue is a set: the priorities decide only the order of admission.  *)
(* The receiver reads the handler's messages in batches; one that arrives  *)
(* behind a batch is taken to arrive later.                                *)
(***************************************************************************)
EXTENDS WorkerPool, RedisQueues

CONSTANT SkipThreshold  \* RequestQueue._skip_model_threshold

ASSUME ThresholdAssumption == SkipThreshold \in Nat

VARIABLES
  handler_sock,   \* control messages of the request handler, not read yet
  model_states,   \* _model_states
  queue,          \* RequestQueue: requests waiting for admission
  new_queue,      \* admission_control: popped requests that stay in the queue
  rpc,            \* step the receiver thread is at
  reports,        \* receiver thread: engine reports popped, not obeyed yet
  spc,            \* step the scheduling thread is at
  skipped,        \* scheduling thread: models whose backend list is too long
  admitted        \* scheduling thread: requests taken out of the queue, not pushed yet

schedVars == <<handler_sock, model_states, queue, new_queue, rpc, reports,
               spc, skipped, admitted>>

ModelStates == {"deactivated", "activating", "activated", "deactivating"}

SchedInit ==
  /\ handler_sock = [g \in GPUs |-> <<>>]
  /\ model_states = [g \in GPUs |-> [m \in Models |->
       IF Served(g, m) THEN "activated" ELSE "deactivated"]]
  /\ queue = [g \in GPUs |-> {}]
  /\ new_queue = [g \in GPUs |-> {}]
  /\ rpc = [g \in GPUs |-> "frontend"]
  /\ reports = [g \in GPUs |-> <<>>]
  /\ spc = [g \in GPUs |-> "lens"]
  /\ skipped = [g \in GPUs |-> {}]
  /\ admitted = [g \in GPUs |-> {}]

SetModelState(g, m, s) ==
  model_states' = [model_states EXCEPT ![g][m] = s]

RequestsOf(S, m) == {r \in S : ModelOf[r] = m}

-------------------------------------------------------------------------------
(* The receiver thread *)

\* RequestQueue._lock is held by the scheduling thread.
Locked(g) == spc[g] = "locked"

ReceivesUntilGone(g) ==  \* fault: deactivating models too
  {m \in Models : model_states[g][m] # "deactivated"}
CanReceive(g) == {m \in Models : model_states[g][m] \in {"activating", "activated"}}

\* _recv_from_frontend_queue and add_requests.
RecvFromFrontendQueue(g) ==
  /\ rpc[g] = "frontend"
  /\ ~Locked(g)
  /\ queue' = [queue EXCEPT
       ![g] = @ \cup UNION {ToSet(frontend[m]) : m \in CanReceive(g)}]
  /\ frontend' = [m \in Models |-> IF m \in CanReceive(g) THEN <<>> ELSE frontend[m]]
  /\ rpc' = [rpc EXCEPT ![g] = "handler"]
  /\ UNCHANGED <<poolVars, backend, engine_out, handler_sock, model_states,
                 new_queue, reports, spc, skipped, admitted>>

\* _recv_from_request_handler marks the model before it does anything else.
MarkModel(g) ==
  LET req == Head(handler_sock[g]) IN
  /\ rpc[g] = "handler"
  /\ handler_sock[g] # <<>>
  /\ SetModelState(g, req.model,
       IF req.type = "activate" THEN "activating" ELSE "deactivating")
  /\ rpc' = [rpc EXCEPT ![g] = "obey"]
  /\ UNCHANGED <<poolVars, redisVars, handler_sock, queue, new_queue, reports,
                 spc, skipped, admitted>>

\* The message marked last is done with.
Obeys(g, type) ==
  /\ rpc[g] = "obey"
  /\ Head(handler_sock[g]).type = type
  /\ handler_sock' = [handler_sock EXCEPT ![g] = Tail(@)]
  /\ rpc' = [rpc EXCEPT ![g] = "handler"]

\* A DeactivateReqInput: whatever the pool answers, the requests the model
\* still has in the queue (in the arbitrary order of a Python set) and in its
\* backend list go back to the frontend.
HandleDeactivate(g) ==
  LET req == Head(handler_sock[g])
      m == req.model
      popped == RequestsOf(queue[g], m)
  IN
  /\ Obeys(g, "deactivate")
  /\ ~Locked(g)
  /\ \/ ReleaseAndDeactivate(g, req)
     \/ ~Served(g, m) /\ UNCHANGED poolVars
  /\ queue' = [queue EXCEPT ![g] = @ \ popped]
  /\ \E order \in SetToSeqs(popped) :
       frontend' = [frontend EXCEPT ![m] = @ \o order \o backend[m]]
  /\ backend' = [backend EXCEPT ![m] = <<>>]
  /\ UNCHANGED <<engine_out, model_states, new_queue, reports, spc, skipped, admitted>>

\* Fault: the pool's refusal is not heeded.
HandleActivateUnheeded(g) ==
  LET req == Head(handler_sock[g]) IN
  /\ Obeys(g, "activate")
  /\ AssignAndActivate(g, req) \/ (CannotActivate(g, req) /\ UNCHANGED poolVars)
  /\ UNCHANGED <<redisVars, model_states, queue, new_queue, reports, spc, skipped, admitted>>

\* An ActivateReqInput: if the pool refuses, the model is marked deactivated.
HandleActivate(g) ==
  LET req == Head(handler_sock[g]) IN
  /\ Obeys(g, "activate")
  /\ \/ AssignAndActivate(g, req) /\ UNCHANGED model_states
     \/ /\ CannotActivate(g, req)
        /\ SetModelState(g, req.model, "deactivated")
        /\ UNCHANGED poolVars
  /\ UNCHANGED <<redisVars, queue, new_queue, reports, spc, skipped, admitted>>

\* No message is left; pop_all takes what the engines have reported so far.
RecvFromEngine(g) ==
  /\ rpc[g] = "handler"
  /\ handler_sock[g] = <<>>
  /\ reports' = [reports EXCEPT ![g] = engine_out[g]]
  /\ engine_out' = [engine_out EXCEPT ![g] = <<>>]
  /\ rpc' = [rpc EXCEPT ![g] = "engine"]
  /\ UNCHANGED <<poolVars, frontend, backend, handler_sock, model_states, queue,
                 new_queue, spc, skipped, admitted>>

\* A reported success sets the state, a failure changes nothing.
HandleReport(g) ==
  LET out == Head(reports[g]) IN
  /\ rpc[g] = "engine"
  /\ reports[g] # <<>>
  /\ reports' = [reports EXCEPT ![g] = Tail(@)]
  /\ IF out.success
     THEN SetModelState(g, out.model,
            IF out.type = "activate" THEN "activated" ELSE "deactivated")
     ELSE UNCHANGED model_states
  /\ UNCHANGED <<poolVars, redisVars, handler_sock, queue, new_queue, rpc,
                 spc, skipped, admitted>>

ReportsHandled(g) ==
  /\ rpc[g] = "engine"
  /\ reports[g] = <<>>
  /\ rpc' = [rpc EXCEPT ![g] = "frontend"]
  /\ UNCHANGED <<poolVars, redisVars, handler_sock, model_states, queue,
                 new_queue, reports, spc, skipped, admitted>>
-------------------------------------------------------------------------------
(* The scheduling thread *)

AtThreshold(list) == Len(list) >= SkipThreshold  \* fault: off by one
TooLong(list) == Len(list) > SkipThreshold

\* get_queue_length of every model that is not deactivated.
ReadBackendLens(g) ==
  /\ spc[g] = "lens"
  /\ skipped' = [skipped EXCEPT ![g] =
       {m \in Models : model_states[g][m] # "deactivated" /\ TooLong(backend[m])}]
  /\ spc' = [spc EXCEPT ![g] = "admit"]
  /\ UNCHANGED <<poolVars, redisVars, handler_sock, model_states, queue, new_queue,
                 rpc, reports, admitted>>

Admissible(g, r) ==
  /\ ModelOf[r] \notin skipped[g]
  /\ model_states[g][ModelOf[r]] \in {"activating", "activated"}

\* One turn of admission_control's loop, the queue locked since the first.  The
\* state of the model is looked up anew each time; nothing limits the resources.
AdmissionControl(g) ==
  /\ spc[g] \in {"admit", "locked"}
  /\ \E r \in queue[g] :
       /\ queue' = [queue EXCEPT ![g] = @ \ {r}]
       /\ \/ /\ Admissible(g, r)
             /\ admitted' = [admitted EXCEPT ![g] = @ \cup {r}]
             /\ UNCHANGED new_queue
          \/ /\ ~Admissible(g, r)
             /\ new_queue' = [new_queue EXCEPT ![g] = @ \cup {r}]
             /\ UNCHANGED admitted
  /\ spc' = [spc EXCEPT ![g] = "locked"]
  /\ UNCHANGED <<poolVars, redisVars, handler_sock, model_states, rpc, reports, skipped>>

\* Fault: what was not admitted is forgotten.
EndAdmissionForgetting(g) ==
  /\ spc[g] \in {"admit", "locked"}
  /\ queue[g] = {}
  /\ new_queue' = [new_queue EXCEPT ![g] = {}]
  /\ spc' = [spc EXCEPT ![g] = IF admitted[g] = {} THEN "lens" ELSE "send"]
  /\ UNCHANGED <<poolVars, redisVars, handler_sock, model_states, queue, rpc, reports,
                 skipped, admitted>>

\* The queue is used up: what was not admitted is put back.
EndAdmission(g) ==
  /\ spc[g] \in {"admit", "locked"}
  /\ queue[g] = {}
  /\ queue' = [queue EXCEPT ![g] = new_queue[g]]
  /\ new_queue' = [new_queue EXCEPT ![g] = {}]
  /\ spc' = [spc EXCEPT ![g] = IF admitted[g] = {} THEN "lens" ELSE "send"]
  /\ UNCHANGED <<poolVars, redisVars, handler_sock, model_states, rpc, reports,
                 skipped, admitted>>

\* _send_to_backend_queue, one rpush at a time, the lock long released.
SendToBackendQueue(g) ==
  /\ spc[g] = "send"
  /\ \E r \in admitted[g] :
       /\ backend' = [backend EXCEPT ![ModelOf[r]] = Append(@, r)]
       /\ admitted' = [admitted EXCEPT ![g] = @ \ {r}]
  /\ spc' = [spc EXCEPT ![g] = IF admitted'[g] = {} THEN "lens" ELSE "send"]
  /\ UNCHANGED <<poolVars, frontend, engine_out, handler_sock, model_states,
                 queue, new_queue, rpc, reports, skipped>>

Receiver(g) ==
  \/ RecvFromFrontendQueue(g)
  \/ MarkModel(g)
  \/ HandleDeactivate(g)
  \/ HandleActivate(g)
  \/ RecvFromEngine(g)
  \/ HandleReport(g)
  \/ ReportsHandled(g)

SchedulingLoop(g) ==
  \/ ReadBackendLens(g)
  \/ AdmissionControl(g)
  \/ EndAdmission(g)
  \/ SendToBackendQueue(g)

SchedTypeOK ==
  /\ handler_sock \in [GPUs -> Seq(ControlReqs)]
  /\ model_states \in [GPUs -> [Models -> ModelStates]]
  /\ queue \in [GPUs -> SUBSET Reqs]
  /\ new_queue \in [GPUs -> SUBSET Reqs]
  /\ rpc \in [GPUs -> {"frontend", "handler", "obey", "engine"}]
  /\ reports \in [GPUs -> Seq(ReqOutputs)]
  /\ spc \in [GPUs -> {"lens", "admit", "locked", "send"}]
  /\ skipped \in [GPUs -> SUBSET Models]
  /\ admitted \in [GPUs -> SUBSET Reqs]
===============================================================================
