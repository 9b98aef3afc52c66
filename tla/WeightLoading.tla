----------------------------- MODULE WeightLoading -----------------------------
(***************************************************************************)
(* How the model runner of a pool worker gets a model's weights onto its   *)
(* GPU (srt/model_executor/worker_pool_model_runner.py): by itself, with   *)
(* two threads when async_loading is set, or from the model service        *)
(* (multi_model/model_sevice.py), a process that serves the engines one    *)
(* after the other and copies a model in pieces with a pool of threads.    *)
(*                                                                         *)
(* The weights of a model are WlRows rows.  A row holds the model it comes *)
(* from, or nothing yet, or is still in host memory.                       *)
(***************************************************************************)
EXTENDS SequencesExt

CONSTANTS
  WlEngines, WlModels, WlNone,
  WlWays,         \* the ways of loading: "service", "async" or "sync"
  WlRows,         \* rows of a weight tensor
  WlThreads,      \* max_threads of the service
  WlMaxFailures,  \* bound on the copies that fail
  WlMaxTransfers  \* bound on the transfer threads of an engine

ASSUME LoadingAssumption ==
  /\ WlWays \subseteq {"service", "async", "sync"}
  /\ WlRows \in Nat /\ WlThreads \in Nat \ {0} /\ WlRows % WlThreads = 0
  /\ WlMaxFailures \in Nat /\ WlMaxTransfers \in Nat

\* WlNone is no model, no tensor and no job.
ASSUME NoneAssumption ==
  /\ WlNone \notin WlModels
  /\ WlNone \notin [1..WlRows -> WlModels \cup {WlNone}]
  /\ WlNone \notin [engine: WlEngines, model: WlModels, pieces: SUBSET (Nat \X Nat)]

VARIABLES
  wlWay,       \* server_args
  wlPc,        \* where each engine is in activate()
  wlAsked,     \* model_config of each engine
  wlModel,     \* self.model: its rows, or WlNone
  wlHost,      \* self.state_dict_host
  wlThread,    \* the transfer threads of each engine, by the state_dict they have read
  wlInput,     \* the service's input_queue
  wlJob,       \* what the service is at: the engine, the model and the pieces to copy
  wlOutput,    \* output_queues
  wlTime,      \* loading_time, as the engine read it
  wlFailures

loadingVars ==
  <<wlWay, wlPc, wlAsked, wlModel, wlHost, wlThread, wlInput, wlJob, wlOutput, wlTime, wlFailures>>

Rows(x) == [i \in 1..WlRows |-> x]
OnHost == "host"

LoadingInit ==
  /\ wlWay \in WlWays
  /\ wlPc = [e \in WlEngines |-> "off"]
  /\ wlAsked = [e \in WlEngines |-> WlNone] /\ wlModel = wlAsked /\ wlHost = wlAsked
  /\ wlThread = [e \in WlEngines |-> <<>>] /\ wlOutput = wlThread
  /\ wlInput = <<>> /\ wlJob = WlNone
  /\ wlTime = [e \in WlEngines |-> "none"] /\ wlFailures = 0
-------------------------------------------------------------------------------
(* The engine.                                                             *)

\* activate and the beginning of load_gpu_model or activate_async.
ActivateRunner(e, m) ==
  /\ wlPc[e] = "off"
  /\ wlAsked' = [wlAsked EXCEPT ![e] = m]
  /\ \/ /\ wlWay = "sync"
        /\ wlModel' = [wlModel EXCEPT ![e] = Rows(m)] /\ wlHost' = [wlHost EXCEPT ![e] = m]
        /\ wlPc' = [wlPc EXCEPT ![e] = "active"]
        /\ UNCHANGED <<wlThread, wlInput>>
     \/ /\ wlWay = "async" /\ Len(wlThread[e]) < WlMaxTransfers
        /\ wlThread' = [wlThread EXCEPT ![e] = Append(@, WlNone)]
        /\ wlPc' = [wlPc EXCEPT ![e] = "dict"]
        /\ UNCHANGED <<wlModel, wlHost, wlInput>>
     \/ /\ wlWay = "service"
        /\ wlModel' = [wlModel EXCEPT ![e] = Rows(WlNone)]
        /\ wlInput' = Append(wlInput, <<m, e>>)
        /\ wlPc' = [wlPc EXCEPT ![e] = "answer"]
        /\ UNCHANGED <<wlHost, wlThread>>
  /\ UNCHANGED <<wlWay, wlJob, wlOutput, wlTime, wlFailures>>

\* async_init_model: the thread that activate_async joins.
InitDict(e) ==
  /\ wlPc[e] = "dict"
  /\ wlHost' = [wlHost EXCEPT ![e] = wlAsked[e]]
  /\ wlPc' = [wlPc EXCEPT ![e] = "build"]
  /\ UNCHANGED <<wlWay, wlAsked, wlModel, wlThread, wlInput, wlJob, wlOutput, wlTime, wlFailures>>

InitModel(e) ==
  /\ wlPc[e] = "build"
  /\ wlModel' = [wlModel EXCEPT ![e] = Rows(OnHost)]
  /\ wlPc' = [wlPc EXCEPT ![e] = "active"]
  /\ UNCHANGED <<wlWay, wlAsked, wlHost, wlThread, wlInput, wlJob, wlOutput, wlTime, wlFailures>>

\* async_transfer_and_load: the thread that nobody joins.  It waits for a
\* state_dict_host, and then for a model to load it into.
Transfer(e, i) ==
  /\ i \in DOMAIN wlThread[e] /\ wlThread[e][i] = WlNone /\ wlHost[e] # WlNone
  /\ wlThread' = [wlThread EXCEPT ![e][i] = wlHost[e]]
  /\ UNCHANGED <<wlWay, wlPc, wlAsked, wlModel, wlHost, wlInput, wlJob, wlOutput, wlTime, wlFailures>>

LoadStateDict(e, i) ==
  /\ i \in DOMAIN wlThread[e] /\ wlThread[e][i] # WlNone /\ wlModel[e] # WlNone
  /\ wlModel' = [wlModel EXCEPT ![e] = Rows(wlThread[e][i])]
  /\ wlThread' = [wlThread EXCEPT ![e] = RemoveAt(@, i)]
  /\ UNCHANGED <<wlWay, wlPc, wlAsked, wlHost, wlInput, wlJob, wlOutput, wlTime, wlFailures>>

\* load_gpu_model reads the three messages of an answer.  None is followed by
\* an error, and the request is put again (retry is never counted down).
ErrorLeft(e) ==  \* fault: the error is not read
  /\ wlOutput' = [wlOutput EXCEPT ![e] = Tail(@)] /\ wlInput' = Append(wlInput, <<wlAsked[e], e>>)
Retry(e) ==
  /\ Len(wlOutput[e]) >= 2
  /\ wlOutput' = [wlOutput EXCEPT ![e] = Tail(Tail(@))] /\ wlInput' = Append(wlInput, <<wlAsked[e], e>>)

ReadAnswer(e) ==
  /\ wlPc[e] = "answer" /\ wlOutput[e] # <<>>
  /\ IF Head(wlOutput[e]) = "none"
     THEN Retry(e) /\ UNCHANGED wlPc
     ELSE /\ wlOutput' = [wlOutput EXCEPT ![e] = Tail(@)]
          /\ wlPc' = [wlPc EXCEPT ![e] = "time"]
          /\ UNCHANGED wlInput
  /\ UNCHANGED <<wlWay, wlAsked, wlModel, wlHost, wlThread, wlJob, wlTime, wlFailures>>

ReadTime(e) ==
  /\ wlPc[e] = "time" /\ wlOutput[e] # <<>>
  /\ wlTime' = [wlTime EXCEPT ![e] = Head(wlOutput[e])]
  /\ wlOutput' = [wlOutput EXCEPT ![e] = Tail(@)]
  /\ wlPc' = [wlPc EXCEPT ![e] = "id"]
  /\ UNCHANGED <<wlWay, wlAsked, wlModel, wlHost, wlThread, wlInput, wlJob, wlFailures>>

\* A copy that failed after "success" shows only here: its loading_time is None,
\* which cannot be formatted, and the exception ends the engine.
ReadServiceId(e) ==
  /\ wlPc[e] = "id" /\ wlOutput[e] # <<>>
  /\ wlPc' = [wlPc EXCEPT ![e] = IF wlTime[e] # "none" THEN "active" ELSE "failed"]
  /\ wlTime' = [wlTime EXCEPT ![e] = "none"]
  /\ wlOutput' = [wlOutput EXCEPT ![e] = Tail(@)]
  /\ UNCHANGED <<wlWay, wlAsked, wlModel, wlHost, wlThread, wlInput, wlJob, wlFailures>>

\* No answer in 300 s: an exception that ends the engine.
Timeout(e) ==
  /\ wlPc[e] = "answer" /\ wlOutput[e] = <<>>
  /\ wlPc' = [wlPc EXCEPT ![e] = "failed"]
  /\ UNCHANGED <<wlWay, wlAsked, wlModel, wlHost, wlThread, wlInput, wlJob, wlOutput, wlTime, wlFailures>>

\* deactivate and delete_gpu_model.
DeactivateRunner(e) ==
  /\ wlPc[e] = "active"
  /\ wlModel' = [wlModel EXCEPT ![e] = WlNone]
  /\ wlPc' = [wlPc EXCEPT ![e] = "off"]
  /\ UNCHANGED <<wlWay, wlAsked, wlHost, wlThread, wlInput, wlJob, wlOutput, wlTime, wlFailures>>
-------------------------------------------------------------------------------
(* The model service.                                                      *)

Pieces == {<<(t * WlRows) \div WlThreads, ((t + 1) * WlRows) \div WlThreads>> : t \in 0..(WlThreads - 1)}

\* run takes a job; the copies are submitted before "success" is put.
TakeJob ==
  /\ wlJob = WlNone /\ wlInput # <<>>
  /\ LET m == Head(wlInput)[1] e == Head(wlInput)[2] IN
       /\ wlJob' = [engine |-> e, model |-> m, pieces |-> Pieces]
       /\ wlOutput' = [wlOutput EXCEPT ![e] = Append(@, "success")]
  /\ wlInput' = Tail(wlInput)
  /\ UNCHANGED <<wlWay, wlPc, wlAsked, wlModel, wlHost, wlThread, wlTime, wlFailures>>

\* It cannot submit them.
RefuseJob ==
  /\ wlJob = WlNone /\ wlInput # <<>> /\ wlFailures < WlMaxFailures
  /\ wlOutput' = [wlOutput EXCEPT ![Head(wlInput)[2]] = @ \o <<"none", "error">>]
  /\ wlInput' = Tail(wlInput)
  /\ wlFailures' = wlFailures + 1
  /\ UNCHANGED <<wlWay, wlPc, wlAsked, wlModel, wlHost, wlThread, wlJob, wlTime>>

\* gpu_transfer of one piece, on one of the threads.
GpuTransfer(p) ==
  /\ wlJob # WlNone /\ p \in wlJob.pieces
  /\ wlJob' = [wlJob EXCEPT !.pieces = @ \ {p}]
  /\ wlModel' = IF wlModel[wlJob.engine] = WlNone THEN wlModel
                ELSE [wlModel EXCEPT ![wlJob.engine] =
                       [i \in 1..WlRows |-> IF p[1] < i /\ i <= p[2] THEN wlJob.model ELSE @[i]]]
  /\ UNCHANGED <<wlWay, wlPc, wlAsked, wlHost, wlThread, wlInput, wlOutput, wlTime, wlFailures>>

\* All futures are done; or one of them has failed.
Submitted == wlJob # WlNone  \* fault: the futures are not waited for
Copied == wlJob # WlNone /\ wlJob.pieces = {}
JobDone ==
  /\ Copied
  /\ wlOutput' = [wlOutput EXCEPT ![wlJob.engine] = @ \o <<"time", "id">>]
  /\ wlJob' = WlNone
  /\ UNCHANGED <<wlWay, wlPc, wlAsked, wlModel, wlHost, wlThread, wlInput, wlTime, wlFailures>>

JobFails ==
  /\ wlJob # WlNone /\ wlJob.pieces # {} /\ wlFailures < WlMaxFailures
  /\ wlOutput' = [wlOutput EXCEPT ![wlJob.engine] = @ \o <<"none", "error">>]
  /\ wlJob' = WlNone
  /\ wlFailures' = wlFailures + 1
  /\ UNCHANGED <<wlWay, wlPc, wlAsked, wlModel, wlHost, wlThread, wlInput, wlTime>>

ServiceStep == TakeJob \/ (\E p \in Pieces : GpuTransfer(p)) \/ JobDone
RunnerStep(e) == InitDict(e) \/ InitModel(e) \/ ReadAnswer(e) \/ ReadTime(e) \/ ReadServiceId(e)

LoadingNext ==
  \/ ServiceStep \/ RefuseJob \/ JobFails
  \/ \E e \in WlEngines :
       \/ RunnerStep(e) \/ Timeout(e) \/ DeactivateRunner(e)
       \/ \E m \in WlModels : ActivateRunner(e, m)
       \/ \E i \in DOMAIN wlThread[e] : Transfer(e, i) \/ LoadStateDict(e, i)

LoadingFairness ==
  /\ WF_loadingVars(ServiceStep)
  /\ \A e \in WlEngines : WF_loadingVars(RunnerStep(e))

LoadingSpec == LoadingInit /\ [][LoadingNext]_loadingVars /\ LoadingFairness
-------------------------------------------------------------------------------
\* "Code protection, ensure model is loaded": an engine whose runner is active
\* runs on the whole weights of the model it was activated for.
OwnWeights ==
  \A e \in WlEngines : wlPc[e] = "active" => wlModel[e] = Rows(wlAsked[e])

\* So it does unless the weights come with async_loading.
OwnWeightsUnlessAsync == wlWay # "async" => OwnWeights

\* The three messages of an answer are read as they were put: an engine that
\* is not loading has none left over that its next load would take for its own.
AnswersInStep ==
  \A e \in WlEngines :
    wlPc[e] \in {"off", "active"} =>
      /\ wlOutput[e] = <<>> /\ ~(wlJob # WlNone /\ wlJob.engine = e)
      /\ \A i \in DOMAIN wlInput : wlInput[i][2] # e

===============================================================================
