------------------------------- MODULE MCBackend -------------------------------
(***************************************************************************)
(* Instances for TLC of five components that do not share state, so that   *)
(* one run checks them: the controller's placement loop, the loading of    *)
(* weights, the overlapped scheduler loop, the LoRA slots and the rows of  *)
(* the penalties.  A behaviour is a behaviour of one of them, its part,    *)
(* while the others stay as they are at first.                             *)
(***************************************************************************)
EXTENDS PlacementController, WeightLoading, OverlapLoop, LoraManager, SamplingInfo

CONSTANTS Parts, m1, m2, m3, o1, o2, o3, s1, s2, s3

VARIABLE part

\* Three models on two GPUs of memory 9: the one of size 1 may have two requests.
MC_Size == [m \in CtModels |-> IF m = m1 THEN 1 ELSE 5]
MC_MaxLoad == [m \in CtModels |-> IF m = m1 THEN 2 ELSE 1]
MC_Placement == [m \in CtModels |-> IF m = m3 THEN {1} ELSE {0}]
MC_Failing == {<<"activate", m2>>, <<"deactivate", m1>>}

\* One of three prompts takes two prefill rounds.
MC_Rounds == [r \in OvReqs |-> IF r = o2 THEN 2 ELSE 1]

\* A request with one penalty, one with both, and one without any.
MC_Weight ==
  [r \in SiReqs |-> [k \in SiKinds |-> CASE r = s1 -> IF k = "frequency" THEN 1 ELSE 0
                                         [] r = s2 -> IF k = "frequency" THEN 2 ELSE 1
                                         [] OTHER -> 0]]
-------------------------------------------------------------------------------
backendVars == <<part, controllerVars, loadingVars, overlapVars, loraVars, samplingVars>>

BackendInit ==
  /\ part \in Parts
  /\ ControllerInit /\ OverlapInit /\ LoraInit /\ SamplingInit
  /\ LoadingInit /\ (part # "loading" => wlWay = CHOOSE w \in WlWays : TRUE)

Part(p, others) == part = p /\ UNCHANGED <<part, others>>
InController == Part("controller", <<loadingVars, overlapVars, loraVars, samplingVars>>)
InLoading == Part("loading", <<controllerVars, overlapVars, loraVars, samplingVars>>)
InOverlap == Part("overlap", <<controllerVars, loadingVars, loraVars, samplingVars>>)
InLora == Part("lora", <<controllerVars, loadingVars, overlapVars, samplingVars>>)
InSampling == Part("sampling", <<controllerVars, loadingVars, overlapVars, loraVars>>)

BackendNext ==
  \/ InController /\ ControllerNext
  \/ InLoading /\ LoadingNext
  \/ InOverlap /\ OverlapNext
  \/ InLora /\ LoraNext
  \/ InSampling /\ SamplingNext

\* The fairness of each component, for the behaviours of its part.
BackendFairness ==
  /\ WF_backendVars(InController /\ ControllerProgress)
  /\ WF_backendVars(InLoading /\ ServiceStep)
  /\ \A e \in WlEngines : WF_backendVars(InLoading /\ RunnerStep(e))
  /\ WF_backendVars(InOverlap /\ OverlapWorker) /\ WF_backendVars(InOverlap /\ OverlapScheduler)

BackendSpec == BackendInit /\ [][BackendNext]_backendVars /\ BackendFairness
===============================================================================
