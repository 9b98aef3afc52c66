------------------------------ MODULE SamplingInfo ------------------------------
(***************************************************************************)
(* srt/sampling: the penalties that go with a batch.  SamplingBatchInfo    *)
(* hands filter and merge on to a BatchedPenalizerOrchestrator, whose      *)
(* penalizers keep one row per request - its weight, and the output tokens *)
(* it has been fed - but only while some request of the batch needs them.  *)
(*                                                                         *)
(* The batches change as in srt/managers/scheduler.py: a prefill batch     *)
(* joins the running batch, finished requests are filtered out, retracted  *)
(* ones go back to the queue and are prefilled again.                      *)
(***************************************************************************)
EXTENDS SequencesExt

CONSTANTS
  SiReqs,
  SiKinds,        \* the penalizers: frequency, presence, repetition, min_new_tokens
  SiWeight,       \* the weight of each penalizer in the sampling_params of a request; 0: none
  SiMaxNew,       \* bound on the output tokens of a request
  SiMaxRetracts   \* bound on the retractions of a behaviour

ASSUME SamplingAssumption ==
  /\ IsFiniteSet(SiReqs)
  /\ SiWeight \in [SiReqs -> [SiKinds -> Nat]]
  /\ SiMaxNew \in Nat \ {0} /\ SiMaxRetracts \in Nat

VARIABLES
  siWaiting, siLast, siRunning,  \* waiting_queue, last_batch (a prefill batch) and running_batch
  siOut,       \* output tokens of each request since its last prefill
  siDone,      \* finished requests
  siRetracts

samplingVars == <<siWaiting, siLast, siRunning, siOut, siDone, siRetracts>>

\* A penalizer that is not prepared has no rows.
Unprepared == [prepared |-> FALSE, rows |-> <<>>]
NoSiBatch == [reqs |-> <<>>, required |-> FALSE, pen |-> [k \in SiKinds |-> Unprepared]]

SamplingInit ==
  /\ siWaiting = SiReqs /\ siLast = NoSiBatch /\ siRunning = NoSiBatch
  /\ siOut = [r \in SiReqs |-> 0] /\ siDone = {} /\ siRetracts = 0
-------------------------------------------------------------------------------
(* The penalizers.                                                         *)

IsRequired(k, reqs) == \E i \in DOMAIN reqs : SiWeight[reqs[i]][k] # 0
Prepare(p, k, reqs) ==
  IF p.prepared THEN p
  ELSE [prepared |-> TRUE, rows |-> [i \in DOMAIN reqs |-> [weight |-> SiWeight[reqs[i]][k], fed |-> 0]]]
PrepareIfRequired(k, reqs) == IF IsRequired(k, reqs) THEN Prepare(Unprepared, k, reqs) ELSE Unprepared

\* BatchedPenalizerOrchestrator.__init__, of a batch to be prefilled.
Orchestrate(reqs) ==
  [reqs |-> reqs, required |-> \E k \in SiKinds : IsRequired(k, reqs),
   pen |-> [k \in SiKinds |-> PrepareIfRequired(k, reqs)]]

\* cumulate_output_tokens
Fed(p) == [p EXCEPT !.rows = [i \in DOMAIN p.rows |-> [p.rows[i] EXCEPT !.fed = @ + 1]]]
Cumulate(b) == IF b.required THEN [b EXCEPT !.pen = [k \in SiKinds |-> Fed(b.pen[k])]] ELSE b

\* filter_batch: the requests first, then filter over the requests that are left.
Kept(s, keep) == [i \in DOMAIN keep |-> s[keep[i]]]
FilterPenalizer(p, k, reqs, keep) ==
  IF ~IsRequired(k, reqs) THEN Unprepared
  ELSE IF p.prepared THEN [p EXCEPT !.rows = Kept(@, keep)] ELSE p
Filter(b, keep) ==
  IF keep = <<>> THEN NoSiBatch
  ELSE IF Len(keep) = Len(b.reqs) THEN b
  ELSE LET reqs == Kept(b.reqs, keep) IN
       IF b.required
         THEN [reqs |-> reqs, required |-> \E k \in SiKinds : IsRequired(k, reqs),
               pen |-> [k \in SiKinds |-> FilterPenalizer(b.pen[k], k, reqs, keep)]]
         ELSE [b EXCEPT !.reqs = reqs]

\* merge_batch: merge of the orchestrators, before the requests are joined.
TheirsUnprepared(mine, theirs, k, a, b) ==  \* fault
  IF ~mine.prepared THEN mine ELSE [prepared |-> TRUE, rows |-> mine.rows \o theirs.rows]
MergePenalizer(mine, theirs, k, a, b) ==
  IF ~mine.prepared /\ ~theirs.prepared THEN mine
  ELSE [prepared |-> TRUE, rows |-> Prepare(mine, k, a).rows \o Prepare(theirs, k, b).rows]
Merge(a, b) ==
  [reqs |-> a.reqs \o b.reqs, required |-> a.required \/ b.required,
   pen |-> [k \in SiKinds |->
     IF a.required \/ b.required THEN MergePenalizer(a.pen[k], b.pen[k], k, a.reqs, b.reqs) ELSE a.pen[k]]]
-------------------------------------------------------------------------------
(* The batches: get_next_batch_to_run, run_batch and process_batch_result. *)

\* The prefill batch of the last round joins the running batch.
Joined == IF siLast.reqs = <<>> THEN siRunning
          ELSE IF siRunning.reqs = <<>> THEN siLast
          ELSE Merge(siRunning, siLast)

\* The model answers every request of a batch with a token; some of them end with it.
Sample(reqs, out) ==
  \E ended \in SUBSET Range(reqs) :
    /\ siOut' = [r \in SiReqs |-> IF r \in Range(reqs) THEN out[r] + 1 ELSE out[r]]
    /\ \A r \in Range(reqs) : siOut'[r] = SiMaxNew => r \in ended
    /\ siDone' = siDone \cup ended

PrefillBatch ==
  \E S \in SUBSET siWaiting : \E reqs \in SetToSeqs(S) :
    /\ S # {} /\ siWaiting' = siWaiting \ S
    /\ siRunning' = Joined /\ siLast' = Orchestrate(reqs)
    /\ Sample(reqs, [r \in SiReqs |-> IF r \in S THEN 0 ELSE siOut[r]])
    /\ UNCHANGED siRetracts

\* update_running_batch: filter, retract when memory is short, and decode.
InOrder(I) == {keep \in SetToSeqs(I) : \A i, j \in DOMAIN keep : i < j => keep[i] < keep[j]}
Without(b, gone) == InOrder({i \in DOMAIN b.reqs : b.reqs[i] \notin gone})
DecodeBatch ==
  \E keep \in Without(Joined, siDone) :
    LET left == Filter(Joined, keep) IN
    /\ Joined.reqs # <<>> /\ siLast' = NoSiBatch
    /\ \E R \in SUBSET Range(left.reqs) : \E rest \in Without(left, R) :
         /\ R # {} => R # Range(left.reqs) /\ siRetracts < SiMaxRetracts
         /\ siRetracts' = IF R = {} THEN siRetracts ELSE siRetracts + 1
         /\ siWaiting' = siWaiting \cup R
         /\ LET b == Filter(left, rest) IN siRunning' = Cumulate(b) /\ Sample(b.reqs, siOut)

SamplingNext == PrefillBatch \/ DecodeBatch

SamplingSpec == SamplingInit /\ [][SamplingNext]_samplingVars
-------------------------------------------------------------------------------
\* Through any sequence of filters and merges, a request that asks for a penalty has a row of
\* its own in that penalizer, with its weight and with every token it has been given since its
\* prefill but the last, which is fed to it with the next decode: no request is sampled with
\* the penalties of another one.
RowsFollowRequests ==
  \A b \in {siLast, siRunning}, k \in SiKinds : \A i \in DOMAIN b.reqs :
    LET r == b.reqs[i] IN
    SiWeight[r][k] # 0 =>
      /\ b.required /\ b.pen[k].prepared /\ Len(b.pen[k].rows) = Len(b.reqs)
      /\ b.pen[k].rows[i] = [weight |-> SiWeight[r][k], fed |-> siOut[r] - 1]
===============================================================================
