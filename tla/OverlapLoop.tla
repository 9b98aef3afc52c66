------------------------------ MODULE OverlapLoop ------------------------------
(***************************************************************************)
(* event_loop_overlap of srt/managers/scheduler.py with the threads of     *)
(* tp_worker_overlap_thread.py.  A batch is launched before the results of *)
(* the one before it are read: its input tokens are futures, negative      *)
(* numbers that the forward thread looks up in future_token_ids_map.       *)
(*                                                                         *)
(* The n-th token of request r is <<r, n>>: the model answers a prompt of  *)
(* r with <<r, 1>> and the token <<r, n>> with <<r, n + 1>>.  Memory is    *)
(* never short here (EngineBatch has that), so nothing is retracted; what  *)
(* is counted is the KV slots of each request that are not given back.     *)
(***************************************************************************)
EXTENDS SequencesExt

CONSTANTS
  OvReqs,
  OvRounds,      \* the prefill rounds (chunks) each prompt takes
  OvMaxNew,      \* max_new_tokens
  OvMaxRunning,  \* max_running_requests
  OvNone

ASSUME OverlapAssumption ==
  /\ IsFiniteSet(OvReqs) /\ OvMaxRunning \in Nat \ {0} /\ OvMaxNew \in Nat \ {0}
  /\ OvRounds \in [OvReqs -> Nat \ {0}] /\ OvNone \notin OvReqs

VARIABLES
  ovToCome,      \* requests not yet received
  ovWaiting,     \* waiting_queue
  ovRunning,     \* running_batch: its reqs and its output_ids, the futures of their last tokens
  ovLast,        \* last_batch
  ovInflight,    \* current_inflight_req
  ovResults,     \* result_queue: the batches launched whose results are not read
  ovCt,          \* future_token_ids_ct
  ovMap,         \* future_token_ids_map
  ovInput, ovForward, ovCopy, ovOutput,  \* the queues of the worker, and the batch in its forward thread
  ovReq,         \* output_ids, is_inflight_req, the rounds prefilled and the KV slots of each request
  ovFinished,
  ovPc           \* "schedule" a batch, or read a "result"

overlapVars == <<ovToCome, ovWaiting, ovRunning, ovLast, ovInflight, ovResults, ovCt, ovMap, ovInput,
                 ovForward, ovCopy, ovOutput, ovReq, ovFinished, ovPc>>
workerVars == <<ovMap, ovForward, ovCopy, ovOutput>>

NoOvBatch == [mode |-> "none", reqs |-> <<>>, ids |-> <<>>]
FutureLimit == OvMaxRunning * 3

OverlapInit ==
  /\ ovToCome = OvReqs /\ ovWaiting = {} /\ ovFinished = {}
  /\ ovRunning = NoOvBatch /\ ovLast = NoOvBatch /\ ovInflight = OvNone
  /\ ovResults = <<>> /\ ovInput = <<>> /\ ovForward = <<>> /\ ovCopy = <<>> /\ ovOutput = <<>>
  /\ ovCt = 0
  /\ ovMap = [i \in 1..(OvMaxRunning * 5 - 1) |-> OvNone]
  /\ ovReq = [r \in OvReqs |-> [out |-> <<>>, inflight |-> 0, rounds |-> 0, slots |-> 0]]
  /\ ovPc = "schedule"
-------------------------------------------------------------------------------
(* The worker's threads.                                                   *)

\* forward_thread_func_ takes a batch: resolve_future_token_ids.
Resolve(ids) == [i \in DOMAIN ids |-> IF ids[i] < 0 THEN ovMap[-ids[i]] ELSE OvNone]

TakeBatch ==
  /\ ovForward = <<>> /\ ovInput # <<>>
  /\ ovForward' = <<[Head(ovInput) EXCEPT !.ids = Resolve(@)]>>
  /\ ovInput' = Tail(ovInput)
  /\ UNCHANGED <<ovToCome, ovWaiting, ovRunning, ovLast, ovInflight, ovResults, ovCt, ovMap, ovCopy, ovOutput,
                 ovReq, ovFinished, ovPc>>

\* The rest of its round: the model's tokens go to the map and to be copied.
Launched ==
  /\ ovForward # <<>>
  /\ LET b == ovForward[1]
         next == [i \in DOMAIN b.reqs |->
                   IF b.mode = "extend" THEN <<b.reqs[i], 1>> ELSE <<b.ids[i][1], b.ids[i][2] + 1>>]
     IN  /\ ovMap' = [i \in DOMAIN ovMap |-> IF i - b.ct \in DOMAIN next THEN next[i - b.ct] ELSE ovMap[i]]
         /\ ovCopy' = Append(ovCopy, next)
  /\ ovForward' = <<>>
  /\ UNCHANGED <<ovToCome, ovWaiting, ovRunning, ovLast, ovInflight, ovResults, ovCt, ovInput, ovOutput,
                 ovReq, ovFinished, ovPc>>

\* copy_thread_func.
CopyResult ==
  /\ ovCopy # <<>>
  /\ ovOutput' = Append(ovOutput, Head(ovCopy))
  /\ ovCopy' = Tail(ovCopy)
  /\ UNCHANGED <<ovToCome, ovWaiting, ovRunning, ovLast, ovInflight, ovResults, ovCt, ovMap, ovInput, ovForward,
                 ovReq, ovFinished, ovPc>>
-------------------------------------------------------------------------------
(* The scheduler.                                                          *)

OvReceive(r) ==
  /\ ovPc = "schedule" /\ r \in ovToCome
  /\ ovToCome' = ovToCome \ {r}
  /\ ovWaiting' = ovWaiting \cup {r}
  /\ UNCHANGED <<ovRunning, ovLast, ovInflight, ovResults, ovCt, ovInput, workerVars, ovReq, ovFinished, ovPc>>

\* cache_finished_req gives back the slots of all tokens but the last.
GiveBack(r, out) == ovReq[r].slots - (ovReq[r].rounds + Len(out) - 1)

\* abort_request.
OvAbort(r) ==
  /\ ovPc = "schedule" /\ r \in (ovWaiting \cup Range(ovRunning.reqs)) \ ovFinished
  /\ ovWaiting' = ovWaiting \ {r}
  /\ ovFinished' = ovFinished \cup {r}
  /\ ovReq' = IF r \in ovWaiting THEN ovReq ELSE [ovReq EXCEPT ![r].slots = GiveBack(r, ovReq[r].out)]
  /\ UNCHANGED <<ovToCome, ovRunning, ovLast, ovInflight, ovResults, ovCt, ovInput, workerVars, ovPc>>

\* filter_batch: the indices of the requests that stay, in order, in the lists it keeps in step.
KeepIndices(b, gone) ==
  {keep \in SetToSeqs({i \in DOMAIN b.reqs : b.reqs[i] \notin gone}) :
     \A i, j \in DOMAIN keep : i < j => keep[i] < keep[j]}
AtIndices(s, keep) == [i \in DOMAIN keep |-> s[keep[i]]]
FilterReqs(b, gone) ==  \* fault: output_ids left alone
  {[b EXCEPT !.reqs = AtIndices(@, keep)] : keep \in KeepIndices(b, gone)}
FilterBatch(b, gone) ==
  {[b EXCEPT !.reqs = AtIndices(@, keep), !.ids = AtIndices(@, keep)] : keep \in KeepIndices(b, gone)}

\* The first part of get_next_batch_to_run: what the running batch is with the batch
\* prefilled last in it, but for a request that has chunks to come.
MergeBatch(b, c) == [mode |-> "decode", reqs |-> b.reqs \o c.reqs, ids |-> b.ids \o c.ids]
PrefillKept ==  \* fault: a batch is not merged while a request has chunks to come
  IF ovLast.mode # "extend" \/ ovInflight # OvNone THEN {ovRunning} ELSE {MergeBatch(ovRunning, ovLast)}
Merged ==
  IF ovLast.mode # "extend" THEN {ovRunning}
  ELSE {MergeBatch(ovRunning, last) :
          last \in IF ovInflight = OvNone THEN {ovLast} ELSE FilterBatch(ovLast, ovFinished \cup {ovInflight})}

\* The results of the last batch are read now, if there was one.
ThenRead == IF ovLast = NoOvBatch THEN "schedule" ELSE "result"

\* run_batch: the batch goes to the worker, and futures for its tokens back.
Run(b, running) ==
  LET futures == [i \in DOMAIN b.reqs |-> -(ovCt + i)]
  IN  /\ ovInput' = Append(ovInput, [mode |-> b.mode, reqs |-> b.reqs, ids |-> b.ids, ct |-> ovCt])
      /\ ovResults' = Append(ovResults, b)
      /\ ovCt' = (ovCt + Len(b.reqs)) % FutureLimit
      /\ ovLast' = [b EXCEPT !.ids = futures]
      /\ ovRunning' = IF b.mode = "decode" THEN [b EXCEPT !.ids = futures] ELSE running
      /\ ovPc' = ThenRead

\* get_new_batch_prefill: the request in flight goes on, others join.  One of
\* them at most is cut at the end of the chunk, and then it is the last.
Prefill(S) ==
  LET more(r) == ovReq[r].rounds + 1 < OvRounds[r]
      first   == IF ovInflight = OvNone THEN <<>> ELSE <<ovInflight>>
      cut     == {r \in S \cup Range(first) : more(r)}
      next    == IF cut = {} THEN OvNone ELSE CHOOSE r \in cut : TRUE
  IN  \E running \in Merged, whole \in SetToSeqs(S \ cut), last \in SetToSeqs(S \cap cut) :
        LET reqs == first \o whole \o last
        IN  /\ ovPc = "schedule" /\ reqs # <<>> /\ S \subseteq ovWaiting
            /\ Cardinality(cut) <= 1 /\ (ovInflight \in cut => S = {})
            /\ Len(running.reqs) + Len(reqs) <= OvMaxRunning
            /\ Run([mode |-> "extend", reqs |-> reqs, ids |-> [i \in DOMAIN reqs |-> 0]], running)
            /\ ovInflight' = next
            /\ ovWaiting' = ovWaiting \ S
            /\ ovReq' = [r \in OvReqs |-> IF r \in Range(reqs)
                          THEN [ovReq[r] EXCEPT !.rounds = @ + 1, !.slots = @ + 1,
                                                !.inflight = IF r = next THEN @ + 1 ELSE @]
                          ELSE ovReq[r]]
            /\ UNCHANGED <<ovToCome, workerVars, ovFinished>>

\* update_running_batch and prepare_for_decode.
Decode ==
  \E running \in Merged : \E b \in FilterBatch(running, ovFinished) :
    /\ ovPc = "schedule" /\ b.reqs # <<>>
    /\ Run(b, b)
    /\ ovReq' = [r \in OvReqs |-> IF r \in Range(b.reqs) THEN [ovReq[r] EXCEPT !.slots = @ + 1] ELSE ovReq[r]]
    /\ UNCHANGED <<ovToCome, ovWaiting, ovInflight, workerVars, ovFinished>>

\* Nothing to run: only the results of the last batch are read.
NothingToRun ==
  \E running \in Merged :
    /\ ovPc = "schedule" /\ Range(running.reqs) \subseteq ovFinished
    /\ (ovWaiting = {} /\ ovInflight = OvNone) \/ Len(running.reqs) >= OvMaxRunning
    /\ ovLast # NoOvBatch \/ ovRunning # NoOvBatch
    /\ ovRunning' = NoOvBatch
    /\ ovLast' = NoOvBatch
    /\ ovPc' = ThenRead
    /\ UNCHANGED <<ovToCome, ovWaiting, ovInflight, ovResults, ovCt, ovInput, workerVars, ovReq, ovFinished>>

\* process_batch_result for one request of a batch: a token decoded for a
\* request that is finished already is not taken and its slot is freed; a chunk
\* has no token; else the token is taken, and may be the last (stop).
DecodedAnyway(mode, r) == FALSE  \* fault: every token is taken
FinishedBefore(mode, r) == mode = "decode" /\ r \in ovFinished

ResultOf(mode, r, token, stop) ==
  LET q   == ovReq[r]
      out == Append(q.out, token)
  IN  IF FinishedBefore(mode, r) THEN [q EXCEPT !.slots = @ - 1]
      ELSE IF mode = "extend" /\ q.inflight > 0 THEN [q EXCEPT !.inflight = @ - 1]
      ELSE IF stop \/ Len(out) >= OvMaxNew \/ r \in ovFinished
           THEN [q EXCEPT !.out = out, !.slots = GiveBack(r, out)]
           ELSE [q EXCEPT !.out = out]

Finishes(mode, r, stop) ==
  /\ ~FinishedBefore(mode, r) /\ ~(mode = "extend" /\ ovReq[r].inflight > 0)
  /\ stop \/ Len(ovReq[r].out) + 1 >= OvMaxNew

\* resulve_batch_result waits for the tokens, and until the batch the forward
\* thread has taken meanwhile is launched.
ProcessResult(Stops) ==
  /\ ovPc = "result" /\ ovOutput # <<>> /\ ovForward = <<>>
  /\ LET b      == Head(ovResults)
         tokens == Head(ovOutput)
         at(r)  == CHOOSE i \in DOMAIN b.reqs : b.reqs[i] = r
     IN  /\ Stops \subseteq Range(b.reqs)
         /\ ovReq' = [r \in OvReqs |-> IF r \in Range(b.reqs) THEN ResultOf(b.mode, r, tokens[at(r)], r \in Stops)
                                       ELSE ovReq[r]]
         /\ ovFinished' = ovFinished \cup {r \in Range(b.reqs) : Finishes(b.mode, r, r \in Stops)}
  /\ ovResults' = Tail(ovResults)
  /\ ovOutput' = Tail(ovOutput)
  /\ ovPc' = "schedule"
  /\ UNCHANGED <<ovToCome, ovWaiting, ovRunning, ovLast, ovInflight, ovCt, ovInput, ovMap, ovForward, ovCopy>>

OverlapWorker == TakeBatch \/ Launched \/ CopyResult

OverlapScheduler ==
  \/ \E S \in SUBSET OvReqs : Prefill(S) \/ ProcessResult(S)
  \/ Decode \/ NothingToRun

OverlapNext == OverlapWorker \/ OverlapScheduler \/ \E r \in OvReqs : OvReceive(r) \/ OvAbort(r)

OverlapFairness == WF_overlapVars(OverlapWorker) /\ WF_overlapVars(OverlapScheduler)
OverlapSpec == OverlapInit /\ [][OverlapNext]_overlapVars /\ OverlapFairness
-------------------------------------------------------------------------------
\* Every token a request is given is its own next one, though it was computed
\* from a future: no future is overwritten before it is looked up, and filtering
\* and merging keep a batch's output_ids in step with its requests.
OutputIsOwn ==
  \A r \in OvReqs : \A n \in DOMAIN ovReq[r].out : ovReq[r].out[n] = <<r, n>>

\* The KV slots of a request are given back once: when it finishes, but for
\* the slot of the decode step launched before that was known, which is given
\* back with that step's result.
SlotsGivenBack ==
  \A r \in OvReqs :
    /\ ovReq[r].slots >= 0
    /\ r \in ovFinished => ovReq[r].slots = Cardinality({i \in DOMAIN ovResults : r \in Range(ovResults[i].reqs)})

\* In the end every request received is finished: none is left behind in a batch whose
\* result nobody reads, or in a batch never merged into the running one.
OverlapFinishes == <>[](OvReqs \ ovToCome \subseteq ovFinished)
===============================================================================
