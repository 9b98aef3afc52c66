------------------------------ MODULE WorkerPool ------------------------------
(***************************************************************************)
(* multi_model/scheduling/gpu/worker_pool.py: which worker of a GPU serves *)
(* which model.  The pool only does the bookkeeping: it forwards a request *)
(* over the worker's PUSH socket and answers at once, so a worker counts   *)
(* as free again before it has seen the deactivation.  What makes that     *)
(* safe is the order of the messages in the worker's own socket.           *)
(***************************************************************************)
EXTENDS Messages, SequencesExt

CONSTANT InitPlacement  \* InitPlacement[g]: init_model_names of GPU g, in order

ASSUME PlacementAssumption ==
  \A g \in GPUs :
    /\ InitPlacement[g] \in Seq(Models)
    /\ Len(InitPlacement[g]) <= WorkersPerGPU
    /\ IsInjective(InitPlacement[g])

VARIABLES
  model_to_worker,  \* _model_to_worker of each GPU's pool (NoWorker: absent key)
  free_workers,     \* _free_workers, the deque of idle worker ids
  worker_sock       \* messages sent to a worker that it has not read yet

poolVars == <<model_to_worker, free_workers, worker_sock>>

Served(g, m) == model_to_worker[g][m] # NoWorker

\* The pool once the scheduler's constructor has handed out init_model_names.
PoolInit ==
  /\ model_to_worker = [g \in GPUs |-> [m \in Models |->
       IF m \in ToSet(InitPlacement[g])
       THEN (CHOOSE i \in DOMAIN InitPlacement[g] : InitPlacement[g][i] = m) - 1
       ELSE NoWorker]]
  /\ free_workers = [g \in GPUs |->
       LET n == Len(InitPlacement[g])
       IN  [i \in 1 .. WorkersPerGPU - n |-> n + i - 1]]
  /\ worker_sock = [g \in GPUs |-> [w \in Workers |-> <<>>]]

SendToWorker(g, w, req) ==
  worker_sock' = [worker_sock EXCEPT ![g][w] = Append(@, req)]

\* handle_activate_model returns False, having changed nothing: the model is
\* served already, or get_idle_worker finds no worker.
CannotActivate(g, req) == Served(g, req.model) \/ free_workers[g] = <<>>

\* Fault: the worker stays in the deque.
AssignWithoutPop(g, req) ==
  LET w == Head(free_workers[g]) IN
  /\ ~CannotActivate(g, req)
  /\ model_to_worker' = [model_to_worker EXCEPT ![g][req.model] = w]
  /\ SendToWorker(g, w, req)
  /\ UNCHANGED free_workers

\* handle_activate_model returns True: assign_worker takes the longest idle worker.
AssignAndActivate(g, req) ==
  LET w == Head(free_workers[g]) IN
  /\ ~CannotActivate(g, req)
  /\ model_to_worker' = [model_to_worker EXCEPT ![g][req.model] = w]
  /\ free_workers' = [free_workers EXCEPT ![g] = Tail(@)]
  /\ SendToWorker(g, w, req)

\* Faults: a model is released that has no worker; the worker is not told.
ReleaseUnchecked(g, req) ==
  LET w == model_to_worker[g][req.model] IN
  /\ model_to_worker' = [model_to_worker EXCEPT ![g][req.model] = NoWorker]
  /\ free_workers' = [free_workers EXCEPT ![g] = Append(@, w)]
  /\ IF w \in Workers THEN SendToWorker(g, w, req) ELSE UNCHANGED worker_sock
ReleaseSilently(g, req) ==
  /\ Served(g, req.model)
  /\ model_to_worker' = [model_to_worker EXCEPT ![g][req.model] = NoWorker]
  /\ free_workers' = [free_workers EXCEPT ![g] = Append(@, model_to_worker[g][req.model])]
  /\ UNCHANGED worker_sock

\* handle_deactivate_model returns True: release_worker frees the worker at once.
ReleaseAndDeactivate(g, req) ==
  LET w == model_to_worker[g][req.model] IN
  /\ Served(g, req.model)
  /\ model_to_worker' = [model_to_worker EXCEPT ![g][req.model] = NoWorker]
  /\ free_workers' = [free_workers EXCEPT ![g] = Append(@, w)]
  /\ SendToWorker(g, w, req)

\* recv_gpu_scheduler_requests: a worker drains its socket in one go.
DrainSocket(g, w) ==
  /\ worker_sock[g][w] # <<>>
  /\ worker_sock' = [worker_sock EXCEPT ![g][w] = <<>>]

PoolNext ==
  \E g \in GPUs :
    \/ \E req \in ControlReqs :
         \/ req.type = "activate" /\ AssignAndActivate(g, req)
         \/ req.type = "deactivate" /\ ReleaseAndDeactivate(g, req)
    \/ \E w \in Workers : DrainSocket(g, w) /\ UNCHANGED <<model_to_worker, free_workers>>

PoolSpec == PoolInit /\ [][PoolNext]_poolVars
-------------------------------------------------------------------------------
PoolTypeOK ==
  /\ model_to_worker \in [GPUs -> [Models -> Workers \cup {NoWorker}]]
  /\ free_workers \in [GPUs -> Seq(Workers)]
  /\ worker_sock \in [GPUs -> [Workers -> Seq(ControlReqs)]]

\* The pool partitions the workers: an idle worker is queued once and serves
\* no model, a busy one serves exactly one model, and no worker is lost
\* (assign_worker and release_worker move a worker between the two).
NoDuplicate(g) == IsInjective(free_workers[g])
FreeIffIdle(g) ==
  \A w \in Workers :
    w \in ToSet(free_workers[g]) <=> ~ \E m \in Models : model_to_worker[g][m] = w
OneModelEach(g) ==
  \A m, n \in Models :
    Served(g, m) /\ model_to_worker[g][m] = model_to_worker[g][n] => m = n

PoolPartition == \A g \in GPUs : NoDuplicate(g) /\ FreeIffIdle(g) /\ OneModelEach(g)

Alternates(g, w) ==
  LET q == worker_sock[g][w] IN
  \A i \in 1 .. Len(q) - 1 :
    /\ q[i].type # q[i + 1].type
    /\ q[i].type = "activate" => q[i + 1].model = q[i].model

LastAgrees(g, w) ==
  LET q == worker_sock[g][w] IN
  q # <<>> =>
    IF q[Len(q)].type = "activate"
    THEN model_to_worker[g][q[Len(q)].model] = w
    ELSE w \in ToSet(free_workers[g])

\* A worker released before it has deactivated is safe to hand out again: in
\* its socket activations and deactivations alternate, a deactivation names the
\* model activated just before it, and the last message agrees with the pool.
SocketAlternates == \A g \in GPUs, w \in Workers : Alternates(g, w) /\ LastAgrees(g, w)
===============================================================================
