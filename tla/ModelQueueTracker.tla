--------------------------- MODULE ModelQueueTracker ---------------------------
(***************************************************************************)
(* multi_model/scheduling/model_queue_tracker.py: the controller's view of *)
(* the requests of one model, from which the placement policy decides      *)
(* whether the model is idle.  The controller learns of a request through  *)
(* messages that race each other: the request handler announces it and,    *)
(* once it is answered, reports it finished; every engine that runs it or  *)
(* retracts it says so over a socket of its own.  A request may run before *)
(* the controller has heard of it, for the handler announces it only after *)
(* it has pushed it to Redis.  waiting_reqs and running_reqs are bags: how *)
(* often a request is in the list.                                         *)
(***************************************************************************)
EXTENDS Integers, Sequences

CONSTANTS
  TrackedReqs,     \* requests for the model
  Warmups,         \* those with is_warmup
  TrackedEngines,  \* worker engines that may run the model
  MaxMoves         \* bound on the runs and retractions of one request

ASSUME TrackerAssumption ==
  /\ Warmups \subseteq TrackedReqs
  /\ TrackedEngines # {}
  /\ MaxMoves \in Nat

VARIABLES
  phase,          \* what each request is really doing
  runs,           \* the requests each engine runs
  ran_on,         \* history: the engines that have run each request
  announced,      \* requests the handler has sent to the controller
  clock,          \* time.time() of the latest run or retraction of each request
  from_handler,   \* the handler's socket to the controller
  from_engine,    \* the engines' sockets to the controller
  state,          \* Req.state, or "unknown": not in received_reqs
  is_warmup,      \* Req.is_warmup
  start_running_time,
  preempted_time,
  waiting_reqs,
  running_reqs,
  raised          \* a handler of the tracker has raised an exception

worldVars == <<phase, runs, ran_on, announced, clock, from_handler, from_engine>>
trackerVars == <<state, is_warmup, start_running_time, preempted_time,
                 waiting_reqs, running_reqs, raised>>
trackingVars == <<worldVars, trackerVars>>

HandlerMsgs == [type: {"generate", "finish"}, rid: TrackedReqs]
EngineMsgs == [type: {"run", "retract"}, rid: TrackedReqs, time: Nat]

TrackerInit ==
  /\ phase = [r \in TrackedReqs |-> "new"]
  /\ runs = [e \in TrackedEngines |-> {}]
  /\ ran_on = [r \in TrackedReqs |-> {}]
  /\ announced = {}
  /\ clock = [r \in TrackedReqs |-> 0]
  /\ from_handler = <<>>
  /\ from_engine = [e \in TrackedEngines |-> <<>>]
  /\ state = [r \in TrackedReqs |-> "unknown"]
  /\ is_warmup = [r \in TrackedReqs |-> FALSE]
  /\ start_running_time = [r \in TrackedReqs |-> 0]
  /\ preempted_time = [r \in TrackedReqs |-> 0]
  /\ waiting_reqs = [r \in TrackedReqs |-> 0]
  /\ running_reqs = [r \in TrackedReqs |-> 0]
  /\ raised = FALSE
-------------------------------------------------------------------------------
(* The world: the request handler and the engines *)

\* _send_single_request: first to Redis ...
Push(r) ==
  /\ phase[r] = "new"
  /\ phase' = [phase EXCEPT ![r] = "waiting"]
  /\ UNCHANGED <<runs, ran_on, announced, clock, from_handler, from_engine, trackerVars>>

\* ... then, when the await on Redis returns, to the controller.
Announce(r) ==
  /\ phase[r] # "new" /\ r \notin announced
  /\ announced' = announced \cup {r}
  /\ from_handler' = Append(from_handler, [type |-> "generate", rid |-> r])
  /\ UNCHANGED <<phase, runs, ran_on, clock, from_engine, trackerVars>>

Tell(e, type, r) ==
  /\ clock[r] < MaxMoves
  /\ clock' = [clock EXCEPT ![r] = @ + 1]
  /\ from_engine' = [from_engine EXCEPT
       ![e] = Append(@, [type |-> type, rid |-> r, time |-> clock[r] + 1])]

\* get_next_batch_to_run: a prefill batch with r in it.
Run(e, r) ==
  /\ phase[r] = "waiting"
  /\ phase' = [phase EXCEPT ![r] = "running"]
  /\ runs' = [runs EXCEPT ![e] = @ \cup {r}]
  /\ ran_on' = [ran_on EXCEPT ![r] = @ \cup {e}]
  /\ Tell(e, "run", r)
  /\ UNCHANGED <<announced, from_handler, trackerVars>>

\* update_running_batch or _retract_running_batch_normal; afterwards r runs
\* again in the same engine or, evicted, in another.
RetractRun(e, r) ==
  /\ r \in runs[e]
  /\ phase' = [phase EXCEPT ![r] = "waiting"]
  /\ runs' = [runs EXCEPT ![e] = @ \ {r}]
  /\ Tell(e, "retract", r)
  /\ UNCHANGED <<ran_on, announced, from_handler, trackerVars>>

\* _wait_for_response sees the last output: the handler waits for it only after
\* the announcement.
Answer(r) ==
  /\ phase[r] = "running" /\ r \in announced
  /\ phase' = [phase EXCEPT ![r] = "answered"]
  /\ runs' = [e \in TrackedEngines |-> runs[e] \ {r}]
  /\ from_handler' = Append(from_handler, [type |-> "finish", rid |-> r])
  /\ UNCHANGED <<ran_on, announced, clock, from_engine, trackerVars>>
-------------------------------------------------------------------------------
(* The tracker: one message of handle_requests at a time *)

IsNew(r) == state[r] \in {"unknown", "finished"}

\* A warmup turns out to be running already.
DropsWarmup(r) == r \in Warmups /\ state[r] = "running" /\ running_reqs[r] > 0

\* enqueue_req
EnqueueReq(r) ==
  /\ is_warmup' = [is_warmup EXCEPT ![r] = r \in Warmups]
  /\ IF IsNew(r)
     THEN /\ state' = [state EXCEPT ![r] = "waiting"]
          /\ start_running_time' = [start_running_time EXCEPT ![r] = 0]
          /\ preempted_time' = [preempted_time EXCEPT ![r] = 0]
          /\ waiting_reqs' = [waiting_reqs EXCEPT ![r] = IF r \in Warmups THEN @ ELSE @ + 1]
          /\ UNCHANGED running_reqs
     ELSE /\ running_reqs' = [running_reqs EXCEPT
               ![r] = IF DropsWarmup(r) THEN @ - 1 ELSE @]
          /\ UNCHANGED <<state, start_running_time, preempted_time, waiting_reqs>>
  /\ UNCHANGED raised

NotPreempted(r) == state[r] = "waiting"  \* fault: retracted requests forgotten
Queued(r) == state[r] \in {"waiting", "preempted"}

\* Fault: no look at the state, no look whether the list holds r.
FinishBlindly(r) ==
  /\ state' = [state EXCEPT ![r] = "finished"]
  /\ running_reqs' = [running_reqs EXCEPT ![r] = @ - 1]
  /\ UNCHANGED <<is_warmup, start_running_time, preempted_time, waiting_reqs, raised>>

\* finish_req: None.update_finish_info raises if the list does not hold r.
\* handle_requests keeps the finish of a warmup from the tracker.
FinishReq(r) ==
  LET inRunning == state[r] = "running"
      missing == \/ inRunning /\ running_reqs[r] = 0
                 \/ Queued(r) /\ waiting_reqs[r] = 0
  IN
  /\ IF r \in Warmups \/ is_warmup[r]
     THEN UNCHANGED <<state, running_reqs, waiting_reqs, raised>>
     ELSE /\ state' = [state EXCEPT ![r] = IF missing THEN @ ELSE "finished"]
          /\ running_reqs' = [running_reqs EXCEPT
               ![r] = IF inRunning /\ ~missing THEN @ - 1 ELSE @]
          /\ waiting_reqs' = [waiting_reqs EXCEPT
               ![r] = IF Queued(r) /\ ~missing THEN @ - 1 ELSE @]
          /\ raised' = (raised \/ missing)
  /\ UNCHANGED <<is_warmup, start_running_time, preempted_time>>

\* The request goes from the waiting to the running list.
StartsUnlessRunning(r, run_time) == state[r] # "running"  \* fault: late messages
Starts(r, run_time) ==
  \/ state[r] = "waiting"
  \/ state[r] = "preempted" /\ run_time > preempted_time[r]

IgnoresUnknown(r) == FALSE  \* fault
Unknown(r) == state[r] = "unknown"

\* start_running_reqs, for one request of the batch
StartRunningReq(r, run_time) ==
  LET moves == Starts(r, run_time)
      missing == moves /\ waiting_reqs[r] = 0
  IN
  /\ CASE Unknown(r) ->
            /\ state' = [state EXCEPT ![r] = "running"]
            /\ start_running_time' = [start_running_time EXCEPT ![r] = run_time]
            /\ running_reqs' = [running_reqs EXCEPT ![r] = @ + 1]
            /\ UNCHANGED <<waiting_reqs, raised>>
       [] ~Unknown(r) /\ is_warmup[r] ->
            UNCHANGED <<state, start_running_time, running_reqs, waiting_reqs, raised>>
       [] OTHER ->
            /\ start_running_time' = [start_running_time EXCEPT ![r] = run_time]
            /\ raised' = (raised \/ missing)
            /\ IF moves /\ ~missing
               THEN /\ state' = [state EXCEPT ![r] = "running"]
                    /\ waiting_reqs' = [waiting_reqs EXCEPT ![r] = @ - 1]
                    /\ running_reqs' = [running_reqs EXCEPT ![r] = @ + 1]
               ELSE UNCHANGED <<state, waiting_reqs, running_reqs>>
  /\ UNCHANGED <<is_warmup, preempted_time>>

\* preempt_reqs, for one request of the batch
PreemptReq(r, retract_time) ==
  LET moves == state[r] = "running" /\ start_running_time[r] <= retract_time
      missing == moves /\ running_reqs[r] = 0
  IN
  /\ IF state[r] # "unknown" /\ is_warmup[r]
     THEN UNCHANGED <<state, preempted_time, running_reqs, waiting_reqs, raised>>
     ELSE /\ preempted_time' = IF state[r] = "unknown" THEN preempted_time
                               ELSE [preempted_time EXCEPT ![r] = retract_time]
          /\ raised' = (raised \/ missing \/ state[r] = "unknown")
          /\ state' = [state EXCEPT
               ![r] = IF (moves /\ ~missing) \/ @ = "waiting" THEN "preempted" ELSE @]
          /\ running_reqs' = [running_reqs EXCEPT ![r] = IF moves /\ ~missing THEN @ - 1 ELSE @]
          /\ waiting_reqs' = [waiting_reqs EXCEPT ![r] = IF moves /\ ~missing THEN @ + 1 ELSE @]
  /\ UNCHANGED <<is_warmup, start_running_time>>

RecvFromHandler ==
  LET msg == Head(from_handler) IN
  /\ from_handler # <<>>
  /\ from_handler' = Tail(from_handler)
  /\ \/ msg.type = "generate" /\ EnqueueReq(msg.rid)
     \/ msg.type = "finish" /\ FinishReq(msg.rid)
  /\ UNCHANGED <<phase, runs, ran_on, announced, clock, from_engine>>

RecvFromEngine(e) ==
  LET msg == Head(from_engine[e]) IN
  /\ from_engine[e] # <<>>
  /\ from_engine' = [from_engine EXCEPT ![e] = Tail(@)]
  /\ \/ msg.type = "run" /\ StartRunningReq(msg.rid, msg.time)
     \/ msg.type = "retract" /\ PreemptReq(msg.rid, msg.time)
  /\ UNCHANGED <<phase, runs, ran_on, announced, clock, from_handler>>

TrackerNext ==
  \/ \E r \in TrackedReqs : Push(r) \/ Announce(r) \/ Answer(r)
  \/ \E e \in TrackedEngines, r \in TrackedReqs : Run(e, r) \/ RetractRun(e, r)
  \/ RecvFromHandler
  \/ \E e \in TrackedEngines : RecvFromEngine(e)

TrackerSpec == TrackerInit /\ [][TrackerNext]_trackingVars
-------------------------------------------------------------------------------
TrackerTypeOK ==
  /\ phase \in [TrackedReqs -> {"new", "waiting", "running", "answered"}]
  /\ runs \in [TrackedEngines -> SUBSET TrackedReqs]
  /\ ran_on \in [TrackedReqs -> SUBSET TrackedEngines]
  /\ announced \in SUBSET TrackedReqs
  /\ clock \in [TrackedReqs -> Nat]
  /\ from_handler \in Seq(HandlerMsgs)
  /\ from_engine \in [TrackedEngines -> Seq(EngineMsgs)]
  /\ state \in [TrackedReqs -> {"unknown", "waiting", "running", "preempted", "finished"}]
  /\ is_warmup \in [TrackedReqs -> BOOLEAN]
  /\ start_running_time \in [TrackedReqs -> Nat]
  /\ preempted_time \in [TrackedReqs -> Nat]
  /\ waiting_reqs \in [TrackedReqs -> Nat]
  /\ running_reqs \in [TrackedReqs -> Nat]
  /\ raised \in BOOLEAN

\* A message that comes too late, too early or from an engine that ran the
\* request long ago makes no handler raise: an exception would throw away all
\* the messages read with it.
NeverRaises == ~raised

\* A request is in exactly the list its state names, and there once: moving it
\* between the lists never leaves a copy behind, whatever order messages come in.
ListsMatchStates ==
  \A r \in TrackedReqs \ Warmups :
    /\ running_reqs[r] = (IF state[r] = "running" THEN 1 ELSE 0)
    /\ waiting_reqs[r] = (IF state[r] \in {"waiting", "preempted"} THEN 1 ELSE 0)

Underway(r) == \E i \in DOMAIN from_handler : from_handler[i].rid = r

\* The model looks busy exactly while it is: once the handler's messages about
\* a request are read, the request is in a list iff it has not been answered.
BusyWhileUnanswered ==
  \A r \in announced \ Warmups :
    ~Underway(r) => (waiting_reqs[r] + running_reqs[r] > 0 <=> phase[r] # "answered")

\* No message about r is underway.
Settled(r) ==
  /\ ~Underway(r)
  /\ \A e \in TrackedEngines : \A i \in DOMAIN from_engine[e] : from_engine[e][i].rid # r
StaysInOneEngine(r) == \A d, e \in ran_on[r] : d = e

\* The messages about a request that has run in one engine only are overtaken by
\* none but the handler's: once they are read, the tracker knows what the request
\* is doing.  (After a migration the old engine's messages come in between.)
ViewConverges ==
  \A r \in announced \ Warmups :
    Settled(r) /\ StaysInOneEngine(r) =>
      state[r] \in (CASE phase[r] = "waiting" -> {"waiting", "preempted"}
                       [] phase[r] = "answered" -> {"finished"}
                       [] OTHER -> {"running"})
===============================================================================
