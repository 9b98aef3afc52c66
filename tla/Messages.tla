------------------------------- MODULE Messages -------------------------------
(***************************************************************************)
(* The parties of Prism's worker-pool serving path and the control         *)
(* messages they exchange (srt/managers/io_struct.py).  A request handler  *)
(* forwards activation and deactivation requests to the GPU scheduler of   *)
(* the target GPU; its worker pool forwards them to one of the GPU's       *)
(* worker engines; the engine reports back through Redis.                  *)
(***************************************************************************)
EXTENDS Integers, Sequences, FiniteSets

CONSTANTS
  GPUs,           \* GPU ids; one GPUScheduler process per GPU
  WorkersPerGPU,  \* --workers-per-gpu
  Models,         \* names of the models the server can host
  Reqs,           \* generation requests of the clients
  ModelOf,        \* ModelOf[r]: the model request r asks for
  NoWorker,       \* "model_name not in _model_to_worker"
  NoModel         \* model_name of an engine that has hosted no model yet

Workers == 0 .. WorkersPerGPU - 1

ASSUME PartiesAssumption ==
  /\ WorkersPerGPU \in Nat \ {0}
  /\ IsFiniteSet(Reqs)
  /\ NoWorker \notin Workers
  /\ NoModel \notin Models
  /\ ModelOf \in [Reqs -> Models]

\* ActivateReqInput and DeactivateReqInput, down to the fields a handler reads.
\* preempt stands for preempt=True with preempt_mode RECOMPUTE, the mode every
\* deactivation of the placement policy names.
ActivateReq(m) ==
  [type |-> "activate", model |-> m, preempt |-> FALSE, evict |-> FALSE]
DeactivateReq(m, p, e) ==
  [type |-> "deactivate", model |-> m, preempt |-> p, evict |-> e]

ControlReqs ==
  [type: {"activate", "deactivate"}, model: Models, preempt: BOOLEAN, evict: BOOLEAN]

\* ActivateReqOutput and DeactivateReqOutput: what a worker engine reports.
ReqOutput(req, ok) == [type |-> req.type, model |-> req.model, success |-> ok]
ReqOutputs ==
  [type: {"activate", "deactivate"}, model: Models, success: BOOLEAN]
===============================================================================
