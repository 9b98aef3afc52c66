---------------------------- MODULE RequestHandler ----------------------------
(***************************************************************************)
(* multi_model/request_handler_worker_pool.py: the coroutines that take a  *)
(* request from its client to Redis and the answer back.  One event loop   *)
(* runs them all, so that a coroutine is interrupted only where it awaits: *)
(* each action goes from one await to the next.  handle_loop puts what the *)
(* detokenizers send into the ReqState registered under the request's id   *)
(* and wakes the coroutine that waits for it; that one looks, whenever it  *)
(* has waited four seconds in vain, whether its client is still there.     *)
(*                                                                         *)
(* The worker engines are seen from here: an engine fetches a request,     *)
(* generates, and sends its detokenizer all tokens so far; a request it    *)
(* has retracted may be evicted, and starts again in whichever engine      *)
(* fetches it next.  A token is the number of the attempt that sampled it. *)
(***************************************************************************)
EXTENDS Detokenizer

CONSTANTS
  Models,
  ModelOf,        \* model of each request
  GPUs,
  GPUOf,          \* GPU of each engine
  MaxTokens,      \* bound on the tokens of an answer
  MaxEvictions    \* bound on the evictions of one request

ASSUME HandlerAssumption ==
  /\ ModelOf \in [Reqs -> Models]
  /\ GPUOf \in [Engines -> GPUs]
  /\ GPUs \cap Models = {} /\ Engines \cap {"nowhere", "redis", "finished"} = {}
  /\ MaxTokens \in Nat \ {0}
  /\ MaxEvictions \in Nat

VARIABLES
  connected,          \* requests whose client has not gone away
  streams,            \* requests sent with stream = True
  shown,              \* what the client has been given last
  task,               \* where the coroutine of each request awaits
  rid_to_state,       \* the requests registered
  out_list,           \* ReqState.out_list
  finished,           \* ReqState.finished
  event,              \* ReqState.event
  aborted_later,      \* requests whose background task has run
  to_controller,      \* what the controller has been sent
  abort_reqs,         \* AbortReqs sent to each engine
  place,              \* where each request is: Redis or an engine
  attempt,            \* how often the request has been started
  ids,                \* Req.output_ids
  recv_from_detokenizer   \* what each detokenizer has sent

clientVars == <<connected, streams, shown>>
reqState == <<out_list, finished, event>>
handlerVars == <<clientVars, task, rid_to_state, reqState, aborted_later, to_controller,
                 abort_reqs>>
engineVars == <<place, attempt, ids, decode_status>>
requestVars == <<handlerVars, engineVars, recv_from_detokenizer>>

Tasks == {"idle", "pushing", "waiting", "checking", "yielded", "done", "aborted", "cancelled"}
Ended == {"done", "aborted", "cancelled"}
Outs == [text: Texts, finished: BOOLEAN]
NoOut == [text |-> <<>>, finished |-> FALSE]

HandlerInit ==
  /\ connected = Reqs
  /\ streams = {}
  /\ shown = [r \in Reqs |-> NoOut]
  /\ task = [r \in Reqs |-> "idle"]
  /\ rid_to_state = {}
  /\ out_list = [r \in Reqs |-> <<>>]
  /\ finished = [r \in Reqs |-> FALSE]
  /\ event = [r \in Reqs |-> FALSE]
  /\ aborted_later = {}
  /\ to_controller = <<>>
  /\ abort_reqs = [e \in Engines |-> {}]
  /\ place = [r \in Reqs |-> "nowhere"]
  /\ attempt = [r \in Reqs |-> 0]
  /\ ids = [r \in Reqs |-> <<>>]
  /\ recv_from_detokenizer = [e \in Engines |-> <<>>]
  /\ DetokenizerInit
-------------------------------------------------------------------------------
(* Sending a request *)

Goto(r, pc) == task' = [task EXCEPT ![r] = pc]
TellController(type, r) == to_controller' = Append(to_controller, [type |-> type, rid |-> r])

\* generate_request up to the await on Redis: an engine may take the request
\* from now on.
Send(r) ==
  /\ task[r] = "idle" /\ r \in connected
  /\ Goto(r, "pushing")
  /\ streams' \in {streams, streams \cup {r}}
  /\ place' = [place EXCEPT ![r] = "redis"]
  /\ UNCHANGED <<reqState, connected, shown, rid_to_state, aborted_later,
                 to_controller, abort_reqs, attempt, ids, decode_status,
                 recv_from_detokenizer>>

\* Redis has answered: announce the request and register its state.
Register(r) ==
  /\ task[r] = "pushing"
  /\ TellController("generate", r)
  /\ rid_to_state' = rid_to_state \cup {r}
  /\ Goto(r, "waiting")
  /\ UNCHANGED <<clientVars, reqState, engineVars, aborted_later, abort_reqs,
                 recv_from_detokenizer>>
-------------------------------------------------------------------------------
(* Waiting for the answer: _wait_for_response *)

LastOut(r) == out_list[r][Len(out_list[r])]

Completes(r) == finished[r]

\* The event is set: yield the latest output; the last one ends the request.
Wake(r) ==
  /\ task[r] = "waiting" /\ event[r]
  /\ shown' = [shown EXCEPT ![r] = LastOut(r)]
  /\ out_list' = [out_list EXCEPT ![r] = <<>>]
  /\ IF Completes(r)
     THEN /\ rid_to_state' = rid_to_state \ {r}
          /\ TellController("finish", r)
          /\ Goto(r, "done")
          /\ UNCHANGED event
     ELSE /\ Goto(r, "yielded")
          /\ event' = [event EXCEPT ![r] = FALSE]
          /\ UNCHANGED <<rid_to_state, to_controller>>
  /\ UNCHANGED <<engineVars, connected, streams, finished, aborted_later, abort_reqs,
                 recv_from_detokenizer>>

\* stream_results has sent the chunk and asks for the next.
ClearsAfterYield(r) == [event EXCEPT ![r] = FALSE]  \* fault: yield out, then event.clear()
AfterYield(r) == event
Resume(r) ==
  /\ task[r] = "yielded" /\ r \in streams
  /\ Goto(r, "waiting")
  /\ event' = AfterYield(r)
  /\ UNCHANGED <<clientVars, engineVars, rid_to_state, out_list, finished, aborted_later,
                 to_controller, abort_reqs, recv_from_detokenizer>>

\* Four seconds without an event: await request.is_disconnected().
WaitTimesOut(r) ==
  /\ task[r] = "waiting" /\ ~event[r]
  /\ Goto(r, "checking")
  /\ UNCHANGED <<clientVars, reqState, engineVars, rid_to_state, aborted_later,
                 to_controller, abort_reqs, recv_from_detokenizer>>

\* send_to_scheduler_dict has one entry for each key of port_args_dict; with the
\* worker pool these are the GPUs.  For any other key it holds an empty list.
send_to_scheduler_dict(key) == {e \in Engines : GPUOf[e] = key}

\* abort_request
AbortRequest(r) ==
  IF r \in rid_to_state
  THEN /\ rid_to_state' = rid_to_state \ {r}
       /\ abort_reqs' = [e \in Engines |->
            IF e \in send_to_scheduler_dict(ModelOf[r]) THEN abort_reqs[e] \cup {r}
            ELSE abort_reqs[e]]
  ELSE UNCHANGED <<rid_to_state, abort_reqs>>

\* The client has gone: abort and raise.  Otherwise wait on.
Checked(r) ==
  /\ task[r] = "checking"
  /\ IF r \in connected
     THEN Goto(r, "waiting") /\ UNCHANGED <<rid_to_state, abort_reqs>>
     ELSE Goto(r, "aborted") /\ AbortRequest(r)
  /\ UNCHANGED <<clientVars, reqState, engineVars, aborted_later, to_controller,
                 recv_from_detokenizer>>
-------------------------------------------------------------------------------
(* The client goes away *)

Disconnect(r) ==
  /\ task[r] \notin Ended \cup {"idle"} /\ r \in connected
  /\ connected' = connected \ {r}
  /\ UNCHANGED <<reqState, engineVars, streams, shown, task, rid_to_state,
                 aborted_later, to_controller, abort_reqs,
                 recv_from_detokenizer>>

\* StreamingResponse cancels stream_results wherever it awaits.
CancelStream(r) ==
  /\ r \in streams \ connected /\ task[r] \notin Ended
  /\ Goto(r, "cancelled")
  /\ UNCHANGED <<clientVars, reqState, engineVars, rid_to_state, aborted_later,
                 to_controller, abort_reqs, recv_from_detokenizer>>

\* create_abort_task: three seconds after a streaming response has ended.
NoResponse(r) == FALSE  \* fault: none has
HasBackgroundTask(r) == r \in streams
AbortLater(r) ==
  /\ HasBackgroundTask(r) /\ r \notin aborted_later /\ task[r] \in Ended
  /\ aborted_later' = aborted_later \cup {r}
  /\ AbortRequest(r)
  /\ UNCHANGED <<clientVars, reqState, engineVars, task, to_controller,
                 recv_from_detokenizer>>
-------------------------------------------------------------------------------
(* handle_loop: an output from a detokenizer *)

ForgetFinished(msg) ==  \* fault: forget the request as the replies to commands do
  IF msg.out.finished THEN rid_to_state \ {msg.rid} ELSE rid_to_state
StillRegistered(msg) == rid_to_state

HandleOutput(e) ==
  /\ recv_from_detokenizer[e] # <<>>
  /\ recv_from_detokenizer' = [recv_from_detokenizer EXCEPT ![e] = Tail(@)]
  /\ LET msg == Head(recv_from_detokenizer[e])
         r == msg.rid
     IN IF r \in rid_to_state
        THEN /\ out_list' = [out_list EXCEPT ![r] = Append(@, msg.out)]
             /\ finished' = [finished EXCEPT ![r] = msg.out.finished]
             /\ event' = [event EXCEPT ![r] = TRUE]
             /\ rid_to_state' = StillRegistered(msg)
        ELSE UNCHANGED <<reqState, rid_to_state>>
  /\ UNCHANGED <<clientVars, engineVars, task, aborted_later, to_controller, abort_reqs>>
-------------------------------------------------------------------------------
(* The worker engines *)

\* handle_generate_request: a new Req, whatever has been generated before.
Fetch(e, r) ==
  /\ place[r] = "redis"
  /\ place' = [place EXCEPT ![r] = e]
  /\ attempt' = [attempt EXCEPT ![r] = @ + 1]
  /\ ids' = [ids EXCEPT ![r] = <<>>]
  /\ UNCHANGED <<handlerVars, decode_status, recv_from_detokenizer>>

\* stream_output, and the detokenizer behind it.  Req.vid is 0 in every attempt.
Output(e, r, last) ==
  \E d \in Decodings(StatusOf(e, r, 0), ids'[r], last) :
    /\ Keep(e, r, d.status)
    /\ recv_from_detokenizer' = [recv_from_detokenizer EXCEPT
         ![e] = Append(@, [rid |-> r, out |-> [text |-> d.text, finished |-> last]])]

\* A forward pass.  A request that streams sends its first token, and then what
\* it has every stream_interval passes; any request does when it finishes.
Generate(e, r) ==
  /\ place[r] = e
  /\ ids' = [ids EXCEPT ![r] = Append(@, attempt[r])]
  /\ \E last \in BOOLEAN :
       /\ Len(ids'[r]) = MaxTokens => last
       /\ place' = [place EXCEPT ![r] = IF last THEN "finished" ELSE e]
       /\ \/ (last \/ r \in streams) /\ Output(e, r, last)
          \/ /\ ~last /\ (r \in streams => Len(ids'[r]) > 1)
             /\ UNCHANGED <<decode_status, recv_from_detokenizer>>
  /\ UNCHANGED <<handlerVars, attempt>>

\* retract_decode, then _evict_all_waiting_requests: the prompt goes back to
\* Redis, what has been generated does not.
Evict(e, r) ==
  /\ place[r] = e /\ attempt[r] <= MaxEvictions
  /\ place' = [place EXCEPT ![r] = "redis"]
  /\ UNCHANGED <<handlerVars, attempt, ids, decode_status, recv_from_detokenizer>>
-------------------------------------------------------------------------------
HandlerStep(r) ==
  Register(r) \/ Wake(r) \/ Resume(r) \/ WaitTimesOut(r) \/ Checked(r) \/ CancelStream(r)
  \/ AbortLater(r)

HandlerNext ==
  \/ \E r \in Reqs : Send(r) \/ Disconnect(r) \/ HandlerStep(r)
  \/ \E e \in Engines : HandleOutput(e)
  \/ \E e \in Engines, r \in Reqs : Fetch(e, r) \/ Generate(e, r) \/ Evict(e, r)

HandlerSpec == HandlerInit /\ [][HandlerNext]_requestVars

\* The event loop runs every coroutine that can go on; nobody must send a
\* request or go away, and engines need not generate.
HandlerFairSpec ==
  /\ HandlerSpec
  /\ \A r \in Reqs : /\ WF_requestVars(Register(r)) /\ WF_requestVars(Wake(r)) /\ WF_requestVars(Resume(r))
                     /\ WF_requestVars(WaitTimesOut(r)) /\ WF_requestVars(Checked(r))
                     /\ WF_requestVars(CancelStream(r)) /\ WF_requestVars(AbortLater(r))
  /\ \A e \in Engines : WF_requestVars(HandleOutput(e))
-------------------------------------------------------------------------------
HandlerTypeOK ==
  /\ connected \in SUBSET Reqs
  /\ streams \in SUBSET Reqs
  /\ shown \in [Reqs -> Outs]
  /\ task \in [Reqs -> Tasks]
  /\ rid_to_state \in SUBSET Reqs
  /\ out_list \in [Reqs -> Seq(Outs)]
  /\ finished \in [Reqs -> BOOLEAN]
  /\ event \in [Reqs -> BOOLEAN]
  /\ aborted_later \in SUBSET streams
  /\ to_controller \in Seq([type: {"generate", "finish"}, rid: Reqs])
  /\ abort_reqs \in [Engines -> SUBSET Reqs]
  /\ place \in [Reqs -> Engines \cup {"nowhere", "redis", "finished"}]
  /\ attempt \in [Reqs -> Nat]
  /\ ids \in [Reqs -> Texts]
  /\ recv_from_detokenizer \in [Engines -> Seq([rid: Reqs, out: Outs])]
  /\ DetokenizerTypeOK

\* _wait_for_response indexes out_list[-1] and deletes rid_to_state[rid] without
\* looking: whatever handle_loop, the timeout and the abort tasks have done
\* meanwhile, a woken coroutine finds an output and its request registered.
WokenFindsItsState ==
  \A r \in Reqs :
    /\ task[r] \in {"waiting", "checking", "yielded"} => r \in rid_to_state
    /\ task[r] \in {"waiting", "checking"} /\ event[r] => out_list[r] # <<>>

Reports(r, type) == {i \in DOMAIN to_controller : to_controller[i] = [type |-> type, rid |-> r]}

\* The client of a request that has never been evicted ends up with all its
\* tokens: merged chunks, chunks decoded twice and timeouts lose none.
AnswerIsWhole ==
  \A r \in Reqs : task[r] = "done" /\ attempt[r] = 1 => shown[r] = [text |-> ids[r], finished |-> TRUE]

\* What a client is shown was sampled in one attempt: the decode status of the
\* detokenizer goes with the Req it was built for (schedule_batch.py: vid is the
\* "version id to sync decode status with in detokenizer_manager").
TextOfOneAttempt ==
  \A r \in Reqs : \A i, j \in DOMAIN shown[r].text : shown[r].text[i] = shown[r].text[j]

LastOutputUnderway(r) ==
  \E e \in Engines : \E i \in DOMAIN recv_from_detokenizer[e] :
    /\ recv_from_detokenizer[e][i].rid = r
    /\ recv_from_detokenizer[e][i].out.finished

\* An answer that finds its request registered reaches the client, unless the
\* client goes away: no wake-up is lost between chunks, timeouts and checks.
AnswerDelivered ==
  \A r \in Reqs :
    (LastOutputUnderway(r) /\ r \in rid_to_state /\ attempt[r] = 1)
      ~> (task[r] = "done" \/ r \notin connected)

\* The state of a request whose client has gone does not stay registered, for a
\* streamed answer as for one that is not.
NoStateLeaks == \A r \in Reqs : r \notin connected ~> r \notin rid_to_state
===============================================================================
