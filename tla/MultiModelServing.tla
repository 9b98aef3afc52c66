--------------------------- MODULE MultiModelServing ---------------------------
(***************************************************************************)
(* The worker-pool serving path put together: clients, the request         *)
(* handler, the GPU schedulers and the worker engines, joined by Redis     *)
(* lists and sockets.  The request handler appears as its two effects: it  *)
(* pushes a client's request to the frontend list of its model, and it     *)
(* forwards activate and deactivate calls to the scheduler of the GPU      *)
(* named in the call, answering success without waiting for anyone.        *)
(***************************************************************************)
EXTENDS GPUScheduler, WorkerEngine

CONSTANTS
  MaxCommands,     \* bound on the activate/deactivate calls of a behaviour
  Deactivations,   \* the <<preempt, evict_waiting_requests>> of the callers
  MaxUnread,       \* bound on the control messages a worker may have to read at once
  Orderly          \* callers change a model only once its last change is reported

ASSUME CallersAssumption ==
  /\ MaxCommands \in Nat
  /\ MaxUnread \in Nat \ {0}
  /\ Deactivations \subseteq BOOLEAN \X BOOLEAN
  /\ Orderly \in BOOLEAN

VARIABLES
  submitted,   \* requests the clients have sent
  commands     \* number of activate/deactivate calls so far

vars == <<poolVars, redisVars, schedVars, engineVars, submitted, commands>>

Init ==
  /\ PoolInit /\ RedisInit /\ SchedInit /\ EngineInit
  /\ submitted = {}
  /\ commands = 0

\* RequestHandlerWorkerPool.generate: rpush to the model's frontend list.
Generate(r) ==
  /\ r \notin submitted
  /\ submitted' = submitted \cup {r}
  /\ frontend' = [frontend EXCEPT ![ModelOf[r]] = Append(@, r)]
  /\ UNCHANGED <<poolVars, backend, engine_out, schedVars, engineVars, commands>>

\* The last change of model m on GPU g is known to the scheduler, and the call
\* is one the placement policy would make knowing it.
InOrder(g, req) ==
  /\ model_states[g][req.model] =
       IF req.type = "activate" THEN "deactivated" ELSE "activated"
  /\ \A i \in DOMAIN handler_sock[g] : handler_sock[g][i].model # req.model
  /\ \A i \in DOMAIN engine_out[g] : engine_out[g][i].model # req.model
  /\ \A i \in DOMAIN reports[g] : reports[g][i].model # req.model

\* RequestHandlerWorkerPool.activate and .deactivate: forwarded, never awaited.
Call(g, req) ==
  /\ commands < MaxCommands
  /\ Orderly => InOrder(g, req)
  /\ \A w \in Workers : Len(worker_sock[g][w]) + Len(handler_sock[g]) < MaxUnread
  /\ handler_sock' = [handler_sock EXCEPT ![g] = Append(@, req)]
  /\ commands' = commands + 1
  /\ UNCHANGED <<poolVars, redisVars, model_states, queue, new_queue, rpc, reports, spc,
                 skipped, admitted, engineVars, submitted>>

Activate(g, m) == Call(g, ActivateReq(m))
Deactivate(g, m) == \E d \in Deactivations : Call(g, DeactivateReq(m, d[1], d[2]))

SchedulerStep(g) ==
  /\ Receiver(g) \/ SchedulingLoop(g)
  /\ UNCHANGED <<engineVars, submitted, commands>>

EngineStep(g, w) ==
  /\ Control(g, w) \/ Generation(g, w)
  /\ UNCHANGED <<schedVars, submitted, commands>>

Next ==
  \/ \E r \in Reqs : Generate(r)
  \/ \E g \in GPUs :
       \/ \E m \in Models : Activate(g, m) \/ Deactivate(g, m)
       \/ SchedulerStep(g)
       \/ \E w \in Workers : EngineStep(g, w)

Spec == Init /\ [][Next]_vars

\* Every queue, list, socket and thread holds what its readers expect: no command of the wrong
\* kind, no request in the place of a model, whatever calls the callers mix.
TypeOK ==
  /\ PoolTypeOK /\ RedisTypeOK /\ SchedTypeOK /\ EngineTypeOK
  /\ submitted \in SUBSET Reqs
  /\ commands \in 0 .. MaxCommands
-------------------------------------------------------------------------------
(* Safety *)

\* The places of the system that hold request r, a list as often as it occurs.
Places(r) ==
  LET In(list) == {i \in DOMAIN list : list[i] = r} IN
  (UNION {{<<"frontend", m, i>> : i \in In(frontend[m])} : m \in Models})
  \cup (UNION {{<<"backend", m, i>> : i \in In(backend[m])} : m \in Models})
  \cup {<<"queue", g>> : g \in {g \in GPUs : r \in queue[g]}}
  \cup {<<"new_queue", g>> : g \in {g \in GPUs : r \in new_queue[g]}}
  \cup {<<"admitted", g>> : g \in {g \in GPUs : r \in admitted[g]}}
  \cup {<<"waiting", p>> : p \in {p \in GPUs \X Workers : r \in waiting[p[1]][p[2]]}}
  \cup {<<"running", p>> : p \in {p \in GPUs \X Workers : r \in running[p[1]][p[2]]}}

\* No request is lost or duplicated: an unfinished request is in exactly one
\* list, queue, thread or engine, a finished one in none, however activations,
\* deactivations and the hand-over between the two scheduler threads interleave.
EveryRequestHeldOnce ==
  \A r \in Reqs :
    Cardinality(Places(r)) = IF r \in submitted \ finished THEN 1 ELSE 0

\* An engine never holds a request of a model it does not host: its weights and
\* tokenizer change only while it holds no request.
HoldsOnlyHostedModel ==
  \A g \in GPUs, w \in Workers :
    \A r \in waiting[g][w] \cup running[g][w] : ModelOf[r] = hosted[g][w]

\* A deactivated engine that is not running to completion holds nothing.
DeactivatedHoldsNothing ==
  \A g \in GPUs, w \in Workers :
    ~activated[g][w] /\ ~draining[g][w] => waiting[g][w] \cup running[g][w] = {}

\* Nothing on its way to or from worker w of GPU g.
Idle(g, w) == worker_sock[g][w] = <<>> /\ todo[g][w] = <<>>
Quiet(g) ==
  /\ handler_sock[g] = <<>> /\ engine_out[g] = <<>> /\ reports[g] = <<>>
  /\ \A w \in Workers : Idle(g, w)

\* Although the pool re-assigns a worker before it has deactivated, a worker
\* that has obeyed its messages hosts the model the pool gave it, or nothing.
WorkerFollowsPool ==
  \A g \in GPUs, w \in Workers :
    Idle(g, w) =>
      IF activated[g][w]
      THEN hosted[g][w] \in Models /\ model_to_worker[g][hosted[g][w]] = w
      ELSE w \in ToSet(free_workers[g])

\* A model the pool has given a worker to is one the scheduler admits requests
\* for, once nothing is under way.
ServedModelIsActivated ==
  \A g \in GPUs : Quiet(g) =>
    \A m \in Models : Served(g, m) => model_states[g][m] = "activated"

\* Between two messages the scheduler pulls requests exactly for the models
\* that have a worker.
StatesFollowPool ==
  \A g \in GPUs : rpc[g] # "obey" =>
    \A m \in Models : Served(g, m) <=> m \in CanReceive(g)

\* A model that is gone from a GPU leaves no request behind in the GPU's queue,
\* where no other GPU could serve it.
NothingQueuedForDeactivated ==
  \A g \in GPUs, m \in Models :
    model_states[g][m] = "deactivated" => RequestsOf(queue[g] \cup new_queue[g], m) = {}

\* A model that is gone from every GPU leaves no request in its backend list:
\* deactivation pops "all backend queue to frontend queue".
BackendReturnedToFrontend ==
  \A m \in Models :
    (\A g \in GPUs : model_states[g][m] = "deactivated") => backend[m] = <<>>
-------------------------------------------------------------------------------
(* Refinement: what a client may rely on *)

RunBy(r) == {p \in GPUs \X Workers : r \in running[p[1]][p[2]]}

Phase(r) ==
  CASE r \notin submitted -> "new"
    [] r \in finished -> "finished"
    [] r \in submitted \ finished /\ RunBy(r) # {} -> "running"
    [] OTHER -> "waiting"

Lifecycle == INSTANCE RequestLifecycle WITH
  phase <- [r \in Reqs |-> Phase(r)],
  under <- [r \in Reqs |-> {hosted[p[1]][p[2]] : p \in RunBy(r)}]

\* Every request passes through RequestLifecycle, however models come and go: it
\* never runs in two engines or under another model, nor finishes or waits twice.
FollowsLifecycle == Lifecycle!Spec
-------------------------------------------------------------------------------
(* Liveness *)

\* Threads and engine loops go on for ever: no iteration blocks on another
\* process.  An engine makes progress with fetching, with starting and with
\* finishing requests.  The receiver gets the queue's lock although the other
\* thread takes it again and again: that one sleeps 10 ms in every turn, unlocked.
\* Nothing forces clients or callers to act.
Fairness ==
  \A g \in GPUs :
    /\ SF_vars(Receiver(g) /\ UNCHANGED <<engineVars, submitted, commands>>)
    /\ WF_vars(SchedulingLoop(g) /\ UNCHANGED <<engineVars, submitted, commands>>)
    /\ \A w \in Workers :
         /\ WF_vars(Control(g, w) /\ UNCHANGED <<schedVars, submitted, commands>>)
         /\ WF_vars(RecvGenerationRequests(g, w) /\ UNCHANGED <<schedVars, submitted, commands>>)
         /\ WF_vars(StartRunning(g, w) /\ UNCHANGED <<schedVars, submitted, commands>>)
         /\ SF_vars(Finish(g, w) /\ UNCHANGED <<schedVars, submitted, commands>>)

FairSpec == Spec /\ Fairness

\* A deactivation ends: the worker runs to completion and reports, although
\* requests are retracted meanwhile, and the scheduler hears of it.
ChangesSettle ==
  \A g \in GPUs, m \in Models :
    model_states[g][m] \in {"activating", "deactivating"}
      ~> model_states[g][m] \in {"activated", "deactivated"}

\* A request is answered if its model ends up on some GPU for good, wherever the
\* model's comings and goings had left the request.
ServedIfModelStays ==
  \A r \in Reqs :
    <>[](\E g \in GPUs : model_states[g][ModelOf[r]] = "activated")
      => (r \in submitted ~> r \in finished)
===============================================================================
