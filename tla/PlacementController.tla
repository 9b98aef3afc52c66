-------------------------- MODULE PlacementController --------------------------
(***************************************************************************)
(* GlobalController.run_scheduling_loop with SimpleGlobalPolicy: in rounds *)
(* it plans from the queues it was told of, from its own record of where   *)
(* models are ACTIVE and from the free GPU memory it measures; the calls   *)
(* of a plan are then made in parallel, and any of them may fail or time   *)
(* out while the GPU obeys it all the same.                                *)
(*                                                                         *)
(* Requests per model are averages over a window in the code; here they    *)
(* are some number between the last two counts seen.  The time budgets     *)
(* that order equally placed candidates are left open.  An instance is     *)
(* named by its GPU, as the policy does.                                   *)
(***************************************************************************)
EXTENDS SequencesExt

CONSTANTS
  CtModels, CtGPUs,
  CtSize,         \* model_weights_info: the memory of a model's weights
  CtMemory,       \* gpu_mem: the memory of a GPU
  CtWorkers,      \* workers_per_gpu
  CtRatio,        \* MEMORY_PER_REQUEST_RATIO_THRESHOLD
  CtPlacement,    \* init_placements: the GPU each model is on at first, or none
  CtMaxLoad,      \* bound on the requests of each model
  CtFailing,      \* the <<type, model>> whose call may fail, once each
  CtMaxFailures,  \* bound on the calls that fail
  CtMaxUnobeyed   \* bound on the calls a GPU has yet to obey when a round is planned

ASSUME ControllerAssumption ==
  /\ CtGPUs \subseteq Nat /\ IsFiniteSet(CtGPUs) /\ IsFiniteSet(CtModels)
  /\ CtSize \in [CtModels -> Nat] /\ CtMemory \in Nat /\ CtWorkers \in Nat
  /\ CtPlacement \in [CtModels -> SUBSET CtGPUs]
  /\ \A m \in CtModels : Cardinality(CtPlacement[m]) <= 1
  /\ CtRatio \in Nat \ {0} /\ CtMaxLoad \in [CtModels -> Nat]
  /\ CtFailing \subseteq {"activate", "deactivate"} \X CtModels
  /\ CtMaxFailures \in Nat /\ CtMaxUnobeyed \in Nat

VARIABLES
  ctView,      \* model_instance_state_dict: the GPUs on which a model is ACTIVE
  ctReal,      \* the GPUs on which it is
  ctLoad,      \* requests waiting or running, by model_queues
  ctSeen,      \* the same in the round before
  ctStarted,   \* _start_run_policy
  ctPc,        \* the loop is about to "plan", to "execute", or "crashed"
  ctCalls,     \* the calls of the round that have not returned
  ctSent,      \* what each GPU has been sent and not yet obeyed
  ctFailures   \* the failed calls

controllerVars == <<ctView, ctReal, ctLoad, ctSeen, ctStarted, ctPc, ctCalls, ctSent, ctFailures>>

Activation(m, g) == [type |-> "activate", model |-> m, gpu |-> g]
Deactivation(m, g) == [type |-> "deactivate", model |-> m, gpu |-> g]

ControllerInit ==
  /\ ctView = CtPlacement
  /\ ctReal = ctView
  /\ ctLoad = [m \in CtModels |-> 0] /\ ctSeen = ctLoad
  /\ ctStarted = FALSE /\ ctPc = "plan"
  /\ ctCalls = {} /\ ctSent = [g \in CtGPUs |-> <<>>] /\ ctFailures = {}
-------------------------------------------------------------------------------
(* The queues: requests arrive, and end on the GPUs where their model is.  *)
(* Those that do while a plan is executed count for the next round only.   *)

Arrives(m) ==
  /\ ctPc = "plan"
  /\ ctLoad[m] < CtMaxLoad[m]
  /\ ctLoad' = [ctLoad EXCEPT ![m] = @ + 1]
  /\ ctStarted' = TRUE
  /\ UNCHANGED <<ctView, ctReal, ctSeen, ctPc, ctCalls, ctSent, ctFailures>>

Ends(m) ==
  /\ ctPc = "plan"
  /\ ctLoad[m] > 0 /\ ctReal[m] # {}
  /\ ctLoad' = [ctLoad EXCEPT ![m] = @ - 1]
  /\ UNCHANGED <<ctView, ctReal, ctSeen, ctStarted, ctPc, ctCalls, ctSent, ctFailures>>
-------------------------------------------------------------------------------
(* The policy.                                                             *)

SizeOf(S) == MapThenSumSet(LAMBDA m : CtSize[m], S)

\* _get_gpu_to_model_mapping.
On(g) == {m \in CtModels : g \in ctView[m]}

\* get_available_gpu_memory.
Measured(g) == CtMemory - SizeOf({m \in CtModels : g \in ctReal[m]})

\* _calculate_memory_per_request, as a fraction: free memory over requests.
Requests(S, smooth) == MapThenSumSet(LAMBDA m : smooth[m], S)
Free(S) == CtMemory - SizeOf(S)
Share(S, smooth) == IF Requests(S, smooth) = 0 THEN 1 ELSE Requests(S, smooth)

\* One GPU has more than CtRatio times the memory per request of the other.
Exceeds(high, low, smooth) ==
  Free(low) > 0 /\ Free(high) * Share(low, smooth) > CtRatio * Free(low) * Share(high, smooth)

\* _count_unstable_pairs.
UnstablePair(S, T, smooth) ==
  \/ Requests(S, smooth) = 0 \/ Requests(T, smooth) = 0
  \/ Free(S) <= 0 \/ Free(T) <= 0
  \/ Exceeds(S, T, smooth) \/ Exceeds(T, S, smooth)
UnstablePairs(on, smooth) ==
  Cardinality({p \in CtGPUs \X CtGPUs : p[1] < p[2] /\ UnstablePair(on[p[1]], on[p[2]], smooth)})

\* _find_optimal_migrations_by_memory: the candidates <<model, from, to>>.
After(m, g, h) == [x \in CtGPUs |-> IF x = g THEN On(g) \ {m} ELSE IF x = h THEN On(h) \cup {m} ELSE On(x)]
NoWorse(m, g, h, smooth) ==  \* fault: <= for <
  UnstablePairs(After(m, g, h), smooth) <= UnstablePairs([x \in CtGPUs |-> On(x)], smooth)
Better(m, g, h, smooth) ==
  UnstablePairs(After(m, g, h), smooth) < UnstablePairs([x \in CtGPUs |-> On(x)], smooth)
Migrations(smooth) ==
  {c \in CtModels \X CtGPUs \X CtGPUs :
     LET m == c[1] g == c[2] h == c[3] IN
     /\ g \in ctView[m] /\ g # h /\ Cardinality(On(g)) # 1
     /\ Exceeds(On(h), On(g), smooth)
     /\ smooth[m] > 0 /\ Measured(h) >= CtSize[m]
     /\ Better(m, g, h, smooth)}

\* Averages over the window.
Averages ==
  {smooth \in [CtModels -> UNION {ctSeen[m]..ctLoad[m] \cup ctLoad[m]..ctSeen[m] : m \in CtModels}] :
   \A m \in CtModels :
     \/ ctLoad[m] <= smooth[m] /\ smooth[m] <= ctSeen[m]
     \/ ctSeen[m] <= smooth[m] /\ smooth[m] <= ctLoad[m] /\ smooth[m] > 0}

\* _find_inactive_models_with_requests.
NewlyPending == {m \in CtModels : ctLoad[m] > ctSeen[m] /\ ctView[m] = {}}  \* fault: asked once
Pending == {m \in CtModels : ctLoad[m] > 0 /\ ctView[m] = {}}

\* _place_inactive_model for one after the other: a placement of some of the
\* pending models that fits in the memory left, to which none can be added.
LeftUnmoved(g, moved) == Measured(g)  \* fault: migrations reserve nothing
Left(g, moved) == Measured(g) - SizeOf({c[1] : c \in {c \in moved : c[3] = g}})
Placements(moved) ==
  LET room(p, g) == Left(g, moved) - SizeOf({m \in Pending : p[m] = {g}})
  IN  {p \in [Pending -> {{}} \cup {{g} : g \in CtGPUs}] :
         /\ \A g \in CtGPUs : (\E m \in Pending : p[m] = {g}) => room(p, g) >= 0
         /\ \A m \in Pending, g \in CtGPUs : p[m] = {} => room(p, g) < CtSize[m]}

\* gen_actions.  A model that is idle, with no requests and none come lately, is
\* deactivated; a migration is dropped if its target has no worker to spare.
WithWorker(S) == {c \in S : Cardinality(On(c[3])) < CtWorkers}

Plan(Idle) ==
  /\ Idle \subseteq {m \in CtModels : ctLoad[m] = 0}
  /\ ctPc = "plan" /\ ctStarted
  /\ ctPc' = "execute" /\ ctSeen' = ctLoad
  /\ UNCHANGED <<ctView, ctReal, ctLoad, ctStarted, ctSent, ctFailures>>
  /\ \A m \in CtModels : Cardinality(ctView[m]) <= 1
  /\ \A g \in CtGPUs : Len(ctSent[g]) <= CtMaxUnobeyed
  /\ \E smooth \in Averages :
     \E moves \in IF Migrations(smooth) = {} THEN {{}} ELSE {WithWorker({c}) : c \in Migrations(smooth)} :
     \E placed \in Placements(moves) :
       LET evicted  == UNION {{Deactivation(m, g) : g \in ctView[m]} : m \in Idle}
           migrated == UNION {{Deactivation(c[1], c[2]), Activation(c[1], c[3])} : c \in {c \in moves : c[1] \notin Idle}}
           started  == UNION {{Activation(m, g) : g \in placed[m]} : m \in Pending}
       IN  ctCalls' = evicted \cup migrated \cup started

\* _get_gpu_to_active_instances asserts one GPU per model: its exception ends
\* the loop, and with it the server.
AssertionFails ==
  /\ ctPc = "plan" /\ ctStarted
  /\ \E m \in CtModels : Cardinality(ctView[m]) > 1
  /\ ctPc' = "crashed"
  /\ UNCHANGED <<ctView, ctReal, ctLoad, ctSeen, ctStarted, ctCalls, ctSent, ctFailures>>
-------------------------------------------------------------------------------
(* execute_actions: a thread per call.                                     *)

\* on_activate or on_deactivate of the instance that was named.
Noted(c) == IF c.type = "activate" THEN ctView[c.model] \cup {c.gpu} ELSE ctView[c.model] \ {c.gpu}

\* BaseAction.execute: the call reaches the GPU, and the answer is noted.
Executes(c) ==
  /\ c \in ctCalls
  /\ ctCalls' = ctCalls \ {c}
  /\ ctSent' = [ctSent EXCEPT ![c.gpu] = Append(@, c)]
  /\ ctView' = [ctView EXCEPT ![c.model] = Noted(c)]
  /\ UNCHANGED <<ctReal, ctLoad, ctSeen, ctStarted, ctPc, ctFailures>>

\* It does not get there, or is not answered in time: the exception is logged.
Fails(c) ==
  /\ c \in ctCalls /\ <<c.type, c.model>> \in CtFailing \ ctFailures
  /\ Cardinality(ctFailures) < CtMaxFailures
  /\ ctCalls' = ctCalls \ {c}
  /\ ctSent' \in {ctSent, [ctSent EXCEPT ![c.gpu] = Append(@, c)]}
  /\ ctFailures' = ctFailures \cup {<<c.type, c.model>>}
  /\ UNCHANGED <<ctView, ctReal, ctLoad, ctSeen, ctStarted, ctPc>>

\* The GPU obeys, maybe before the call has returned (which only the next round
\* can tell).
Obeys(g) ==
  /\ ctSent[g] # <<>>
  /\ LET c == Head(ctSent[g]) IN
       ctReal' = [ctReal EXCEPT ![c.model] = IF c.type = "activate" THEN @ \cup {g} ELSE @ \ {g}]
  /\ ctSent' = [ctSent EXCEPT ![g] = Tail(@)]
  /\ UNCHANGED <<ctView, ctLoad, ctSeen, ctStarted, ctPc, ctCalls, ctFailures>>

\* All futures are done.
AnyCallDone ==  \* fault: the loop goes on with calls under way
  /\ ctPc = "execute"
  /\ ctPc' = "plan"
  /\ UNCHANGED <<ctView, ctReal, ctLoad, ctSeen, ctStarted, ctCalls, ctSent, ctFailures>>
RoundEnds ==
  /\ ctPc = "execute" /\ ctCalls = {}
  /\ ctPc' = "plan"
  /\ UNCHANGED <<ctView, ctReal, ctLoad, ctSeen, ctStarted, ctCalls, ctSent, ctFailures>>

ControllerLoop ==
  \/ \E Idle \in SUBSET CtModels : Plan(Idle)
  \/ AssertionFails \/ RoundEnds

ControllerNext ==
  \/ ControllerLoop
  \/ \E c \in ctCalls : Executes(c) \/ Fails(c)
  \/ \E g \in CtGPUs : Obeys(g)
  \/ \E m \in CtModels : Arrives(m) \/ Ends(m)

ControllerProgress == ControllerLoop \/ (\E c \in ctCalls : Executes(c)) \/ \E g \in CtGPUs : Obeys(g)

\* The loop, the threads of a round and the GPUs go on; requests need not come or end.
ControllerSpec ==
  ControllerInit /\ [][ControllerNext]_controllerVars /\ WF_controllerVars(ControllerProgress)
-------------------------------------------------------------------------------
\* "assert len(model_active_instances) <= 1": when the policy reads the states
\* every model is ACTIVE on one GPU at most.
OneActiveInstance ==
  ctPc = "plan" => \A m \in CtModels : Cardinality(ctView[m]) <= 1

\* Although a migration's two calls are made in parallel, and either may fail,
\* it takes a deactivation that failed to leave a model ACTIVE on two GPUs.
OneActiveUnlessFailed ==
  ctPc = "plan" => \A m \in CtModels :
    <<"deactivate", m>> \notin ctFailures => Cardinality(ctView[m]) <= 1

\* What a round starts on a GPU, by migration and for pending models together,
\* fits in the memory that was measured for the round.
PlansFit ==
  [][(ctPc = "plan" /\ ctPc' = "execute") =>
      \A g \in CtGPUs : SizeOf({c.model : c \in {c \in ctCalls' : c.type = "activate" /\ c.gpu = g}}) <= Measured(g)]_controllerVars

LeftOut(m) ==
  /\ ctLoad[m] > 0 /\ ctReal[m] = {}
  /\ ctPc # "crashed" /\ <<"deactivate", m>> \notin ctFailures
  /\ \E g \in CtGPUs : Measured(g) >= CtSize[m]

\* If no request comes or ends any more, every model that has requests comes to
\* be on a GPU and stays there, unless no GPU has room for it, the controller is
\* gone, or a deactivation of it failed: then it may stay ACTIVE in the record
\* alone, and no round looks at it again.  (Smaller models that come and go can
\* starve it.)
PendingModelActivated ==
  <>[][FALSE]_ctLoad => <>[](\A m \in CtModels : ~LeftOut(m))

Migrates == ctPc = "plan" /\ \E m \in CtModels, g, h \in CtGPUs : {Activation(m, g), Deactivation(m, h)} \subseteq ctCalls'

\* Migrations do not chase each other: if no request comes or ends any more, the
\* placement settles.
MigrationsCease == <>[][FALSE]_ctLoad => <>[][~Migrates]_controllerVars
===============================================================================
