---------------------------- MODULE Frontend_proofs ----------------------------
(***************************************************************************)
(* Proofs about the components in front of the engines, which share no     *)
(* state: the request handler, for any number of requests and engines, the *)
(* controller's tracker of a model's requests, and the executors of the    *)
(* language front end.                                                     *)
(***************************************************************************)
EXTENDS RequestHandler, ModelQueueTracker, StreamExecutor, FiniteSetTheorems, WellFoundedInduction, SequenceTheorems, TLAPS

-------------------------------------------------------------------------------
(***************************************************************************)
(* Proofs about RequestHandler, for any number of requests and engines and *)
(* answers of any length.  _wait_for_response may trust what it finds when *)
(* it is woken because only its own coroutine, or one that runs after it   *)
(* has ended, takes the request's state away, and because whoever sets the *)
(* event of a request has given it an output before.                       *)
(***************************************************************************)
\* What the event loop and the coroutine of a request leave for each other.
Consistent(r) ==
  /\ task[r] \in {"idle", "pushing"} => r \notin rid_to_state /\ ~event[r]
  /\ task[r] \in {"waiting", "checking", "yielded"} =>
       /\ r \in rid_to_state
       /\ event[r] => out_list[r] # <<>>

WakeInv == \A r \in Reqs : Consistent(r)
-------------------------------------------------------------------------------
(* Types *)

\* What a detokenizer makes of tokens is a text and a status.
LEMMA DecodingsTyped ==
  ASSUME NEW s \in Status, NEW t \in Texts, NEW last \in BOOLEAN, NEW d \in Decodings(s, t, last)
  PROVE  d.text \in Texts /\ d.status \in Status
<1> DEFINE new == NewTokens(s, t)
           whole == s.decoded_text \o new
           chunk == [vid |-> s.vid, decoded_text |-> whole, read_offset |-> Len(t)]
<1>1. /\ s.vid \in Nat /\ s.decoded_text \in Seq(Nat) /\ s.read_offset \in Nat
      /\ t \in Seq(Nat) /\ Len(t) \in Nat
  BY DEF Status, Texts
<1>2. \A i \in s.read_offset + 1 .. Len(t) : t[i] \in Nat
  BY <1>1
<1>3. new \in Seq(Nat) /\ Len(new) \in Nat
  BY <1>1, <1>2, SubSeqProperties DEF NewTokens
<1>4. whole \in Seq(Nat)
  BY <1>1, <1>3
<1>5. chunk \in Status
  BY <1>1, <1>4 DEF Status, Texts
<1>6. ASSUME NEW k \in 0 .. Len(new)
      PROVE  s.decoded_text \o SubSeq(new, 1, k) \in Seq(Nat)
  <2>1. SubSeq(new, 1, k) \in Seq(Nat)
    BY <1>3, SubSeqProperties
  <2> QED
    BY <1>1, <2>1
<1> DEFINE Shown(k) == [text |-> s.decoded_text \o SubSeq(new, 1, k), status |-> s]
<1>7. \/ d = [text |-> whole, status |-> chunk]
      \/ \E k \in 0 .. Len(new) : d = Shown(k)
  <2>1. Decodings(s, t, last) = IF last \/ new = <<>> THEN {Shown(Len(new))}
                                ELSE {[text |-> whole, status |-> chunk]} \cup {Shown(k) : k \in 0 .. Len(new) - 1}
    BY DEF Decodings
  <2> HIDE DEF new, whole, chunk, Shown
  <2> QED
    BY <1>3, <2>1
<1>8. \A k \in 0 .. Len(new) : Shown(k).text \in Texts /\ Shown(k).status \in Status
  BY <1>6 DEF Texts
<1> HIDE DEF new, whole, chunk, Shown
<1> QED
  BY <1>4, <1>5, <1>7, <1>8 DEF Texts

\* What the engine and its detokenizer hold and send is well typed.
LEMMA OutputTyped ==
  ASSUME HandlerTypeOK, NEW e \in Engines, NEW r \in Reqs, NEW last \in BOOLEAN,
         ids' \in [Reqs -> Texts], Output(e, r, last)
  PROVE  DetokenizerTypeOK' /\ recv_from_detokenizer' \in [Engines -> Seq([rid: Reqs, out: Outs])]
<1>1. StatusOf(e, r, 0) \in Status
  BY DEF StatusOf, NewStatus, Status, Texts, HandlerTypeOK, DetokenizerTypeOK
<1>2. PICK d \in Decodings(StatusOf(e, r, 0), ids'[r], last) :
        /\ Keep(e, r, d.status)
        /\ recv_from_detokenizer' = [recv_from_detokenizer EXCEPT
             ![e] = Append(@, [rid |-> r, out |-> [text |-> d.text, finished |-> last]])]
  BY DEF Output
<1>3. d.text \in Texts /\ d.status \in Status
  BY <1>1, DecodingsTyped
<1>4. [rid |-> r, out |-> [text |-> d.text, finished |-> last]] \in [rid: Reqs, out: Outs]
  BY <1>3 DEF Outs
<1>5. recv_from_detokenizer' \in [Engines -> Seq([rid: Reqs, out: Outs])]
  <2> DEFINE Msgs == [rid: Reqs, out: Outs]
             msg == [rid |-> r, out |-> [text |-> d.text, finished |-> last]]
  <2>1. recv_from_detokenizer \in [Engines -> Seq(Msgs)] /\ msg \in Msgs
    BY <1>4 DEF HandlerTypeOK
  <2>2. recv_from_detokenizer' = [recv_from_detokenizer EXCEPT ![e] = Append(@, msg)]
    BY <1>2
  <2> HIDE DEF Msgs, msg
  <2>3. Append(recv_from_detokenizer[e], msg) \in Seq(Msgs)
    BY <2>1
  <2>4. recv_from_detokenizer' \in [Engines -> Seq(Msgs)]
    BY <2>1, <2>2, <2>3
  <2> QED
    BY <2>4 DEF Msgs
<1>6. /\ decode_status' = [decode_status EXCEPT ![e] =
                            [q \in DOMAIN decode_status[e] \cup {r} |->
                               IF q = r THEN d.status ELSE decode_status[e][q]]]
      /\ DOMAIN decode_status = Engines
  BY <1>2 DEF Keep, HandlerTypeOK, DetokenizerTypeOK
<1>7. DOMAIN decode_status' = Engines
  BY <1>6
<1>8. ASSUME NEW f \in Engines
      PROVE  /\ DOMAIN decode_status'[f] \subseteq Reqs
             /\ \A q \in DOMAIN decode_status'[f] : decode_status'[f][q] \in Status
  <2>1. CASE f = e
    BY <1>3, <1>6, <2>1 DEF HandlerTypeOK, DetokenizerTypeOK
  <2>2. CASE f # e
    <3>1. decode_status'[f] = decode_status[f]
      BY <1>6, <2>2
    <3> QED
      BY <3>1 DEF HandlerTypeOK, DetokenizerTypeOK
  <2> QED
    BY <2>1, <2>2
<1> QED
  BY <1>5, <1>7, <1>8 DEF DetokenizerTypeOK

\* The detokenizers' statuses change with decode_status only.
LEMMA StatusesKept ==
  ASSUME DetokenizerTypeOK, UNCHANGED decode_status
  PROVE  DetokenizerTypeOK'
BY DEF DetokenizerTypeOK

\* What the event loop reads next is an output.
LEMMA NextOutput ==
  ASSUME HandlerTypeOK, NEW e \in Engines, recv_from_detokenizer[e] # <<>>
  PROVE  LET msg == Head(recv_from_detokenizer[e])
         IN  /\ msg.rid \in Reqs /\ msg.out \in Outs /\ msg.out.finished \in BOOLEAN
             /\ Tail(recv_from_detokenizer[e]) \in Seq([rid: Reqs, out: Outs])
<1> DEFINE Msgs == [rid: Reqs, out: Outs]
<1>1. recv_from_detokenizer[e] \in Seq(Msgs)
  BY DEF HandlerTypeOK
<1>2. Head(recv_from_detokenizer[e]) \in Msgs /\ Tail(recv_from_detokenizer[e]) \in Seq(Msgs)
  <2> HIDE DEF Msgs
  <2> QED
    BY <1>1, HeadTailProperties
<1> QED
  BY <1>2 DEF Outs

\* Well typed too are the places where coroutines await, the controller's messages and the
\* states an abort takes away.
LEMMA PartsTyped ==
  ASSUME HandlerTypeOK, NEW r \in Reqs
  PROVE  /\ \A pc \in Tasks : Goto(r, pc) => task' \in [Reqs -> Tasks]
         /\ \A type \in {"generate", "finish"} :
              TellController(type, r) => to_controller' \in Seq([type: {"generate", "finish"}, rid: Reqs])
         /\ AbortRequest(r) => rid_to_state' \in SUBSET Reqs /\ abort_reqs' \in [Engines -> SUBSET Reqs]
<1>1. \A pc \in Tasks : Goto(r, pc) => task' \in [Reqs -> Tasks]
  BY DEF HandlerTypeOK, Goto
<1>2. ASSUME NEW type \in {"generate", "finish"}, TellController(type, r)
      PROVE  to_controller' \in Seq([type: {"generate", "finish"}, rid: Reqs])
  BY <1>2 DEF HandlerTypeOK, TellController
<1>3. ASSUME AbortRequest(r)
      PROVE  rid_to_state' \in SUBSET Reqs /\ abort_reqs' \in [Engines -> SUBSET Reqs]
  <2>1. CASE r \in rid_to_state
    <3>1. /\ rid_to_state' = rid_to_state \ {r}
          /\ abort_reqs' = [e \in Engines |-> IF e \in send_to_scheduler_dict(ModelOf[r])
                                              THEN abort_reqs[e] \cup {r} ELSE abort_reqs[e]]
      BY <1>3, <2>1 DEF AbortRequest
    <3> QED
      BY <3>1 DEF HandlerTypeOK
  <2>2. CASE r \notin rid_to_state
    BY <1>3, <2>2 DEF HandlerTypeOK, AbortRequest
  <2> QED
    BY <2>1, <2>2
<1> QED
  BY <1>1, <1>2, <1>3

\* Every action keeps the types of what the handler, Redis and the engines hold.
LEMMA HandlerTyped ==
  ASSUME HandlerTypeOK, WakeInv, [HandlerNext]_requestVars
  PROVE  HandlerTypeOK'
<1>0. {"pushing", "waiting", "checking", "yielded", "done", "aborted", "cancelled"} \subseteq Tasks
  BY DEF Tasks
<1>1. CASE UNCHANGED requestVars
  BY <1>1, StatusesKept DEF HandlerTypeOK, requestVars, handlerVars, engineVars, clientVars, reqState
<1>2. ASSUME NEW r \in Reqs, Send(r) \/ Disconnect(r) \/ Resume(r) \/ WaitTimesOut(r) \/ CancelStream(r)
      PROVE  HandlerTypeOK'
  BY <1>0, <1>2, PartsTyped, StatusesKept
     DEF HandlerTypeOK, Send, Disconnect, Resume, WaitTimesOut, CancelStream, AfterYield,
         handlerVars, engineVars, clientVars, reqState
<1>3. ASSUME NEW r \in Reqs, Register(r) PROVE HandlerTypeOK'
  BY <1>0, <1>3, PartsTyped, StatusesKept DEF HandlerTypeOK, Register, engineVars, clientVars, reqState
<1>4. ASSUME NEW r \in Reqs, Wake(r) PROVE HandlerTypeOK'
  <2>1. LastOut(r) \in Outs
    BY <1>4 DEF HandlerTypeOK, WakeInv, Consistent, Wake, LastOut
  <2>2. shown' \in [Reqs -> Outs] /\ out_list' \in [Reqs -> Seq(Outs)]
    BY <1>4, <2>1 DEF HandlerTypeOK, Wake
  <2>3. /\ task' \in [Reqs -> Tasks] /\ rid_to_state' \in SUBSET Reqs /\ event' \in [Reqs -> BOOLEAN]
        /\ to_controller' \in Seq([type: {"generate", "finish"}, rid: Reqs])
    <3>1. CASE Completes(r)
      BY <1>0, <1>4, <3>1, PartsTyped DEF HandlerTypeOK, Wake
    <3>2. CASE ~Completes(r)
      BY <1>0, <1>4, <3>2, PartsTyped DEF HandlerTypeOK, Wake
    <3> QED
      BY <3>1, <3>2
  <2>4. UNCHANGED <<engineVars, connected, streams, finished, aborted_later, abort_reqs, recv_from_detokenizer>>
    BY <1>4 DEF Wake
  <2> QED
    BY <2>2, <2>3, <2>4, StatusesKept DEF HandlerTypeOK, engineVars
<1>5. ASSUME NEW r \in Reqs, Checked(r) \/ AbortLater(r) PROVE HandlerTypeOK'
  <2>1. rid_to_state' \in SUBSET Reqs /\ abort_reqs' \in [Engines -> SUBSET Reqs]
    <3>1. AbortRequest(r) \/ UNCHANGED <<rid_to_state, abort_reqs>>
      BY <1>5 DEF Checked, AbortLater
    <3> QED
      BY <3>1, PartsTyped DEF HandlerTypeOK
  <2>2. task' \in [Reqs -> Tasks] /\ aborted_later' \in SUBSET streams
    <3>1. UNCHANGED task \/ Goto(r, "waiting") \/ Goto(r, "aborted")
      BY <1>5 DEF Checked, AbortLater
    <3>2. aborted_later' = aborted_later \/ (r \in streams /\ aborted_later' = aborted_later \cup {r})
      BY <1>5 DEF Checked, AbortLater, HasBackgroundTask
    <3> QED
      BY <1>0, <3>1, <3>2, PartsTyped DEF HandlerTypeOK
  <2>3. UNCHANGED <<connected, streams, shown, out_list, finished, event, to_controller, place, attempt,
                    ids, decode_status, recv_from_detokenizer>>
    BY <1>5 DEF Checked, AbortLater, clientVars, reqState, engineVars
  <2> QED
    BY <2>1, <2>2, <2>3, StatusesKept DEF HandlerTypeOK
<1>6. ASSUME NEW e \in Engines, HandleOutput(e) PROVE HandlerTypeOK'
  <2> DEFINE msg == Head(recv_from_detokenizer[e])
             Msgs == [rid: Reqs, out: Outs]
  <2>1. /\ recv_from_detokenizer[e] # <<>>
        /\ recv_from_detokenizer' = [recv_from_detokenizer EXCEPT ![e] = Tail(@)]
    BY <1>6 DEF HandleOutput
  <2>2. recv_from_detokenizer' \in [Engines -> Seq(Msgs)]
    <3>1. recv_from_detokenizer \in [Engines -> Seq(Msgs)] /\ Tail(recv_from_detokenizer[e]) \in Seq(Msgs)
      BY <2>1, NextOutput DEF HandlerTypeOK
    <3> HIDE DEF Msgs
    <3> QED
      BY <2>1, <3>1
  <2>3. msg.rid \in Reqs /\ msg.out \in Outs /\ msg.out.finished \in BOOLEAN
    BY <2>1, NextOutput
  <2>4. /\ out_list' \in [Reqs -> Seq(Outs)] /\ finished' \in [Reqs -> BOOLEAN]
        /\ event' \in [Reqs -> BOOLEAN] /\ rid_to_state' \in SUBSET Reqs
    <3>1. CASE msg.rid \in rid_to_state
      <4>1. /\ out_list' = [out_list EXCEPT ![msg.rid] = Append(@, msg.out)]
            /\ finished' = [finished EXCEPT ![msg.rid] = msg.out.finished]
            /\ event' = [event EXCEPT ![msg.rid] = TRUE]
            /\ rid_to_state' = rid_to_state
        BY <1>6, <3>1 DEF HandleOutput, StillRegistered
      <4> HIDE DEF msg
      <4> QED
        BY <2>3, <4>1 DEF HandlerTypeOK
    <3>2. CASE msg.rid \notin rid_to_state
      BY <1>6, <3>2 DEF HandlerTypeOK, HandleOutput, reqState
    <3> QED
      BY <3>1, <3>2
  <2>5. UNCHANGED <<clientVars, engineVars, task, aborted_later, to_controller, abort_reqs>>
    BY <1>6 DEF HandleOutput
  <2> QED
    BY <2>2, <2>4, <2>5, StatusesKept DEF HandlerTypeOK, clientVars, engineVars
<1>7. ASSUME NEW e \in Engines, NEW r \in Reqs, Fetch(e, r) \/ Evict(e, r) PROVE HandlerTypeOK'
  <2>1. /\ place' \in [Reqs -> Engines \cup {"nowhere", "redis", "finished"}]
        /\ attempt' \in [Reqs -> Nat] /\ ids' \in [Reqs -> Texts]
    <3>1. ids \in [Reqs -> Seq(Nat)] /\ <<>> \in Seq(Nat)
      BY DEF HandlerTypeOK, Texts
    <3>2. CASE Fetch(e, r)
      BY <3>1, <3>2 DEF HandlerTypeOK, Fetch, Texts
    <3>3. CASE Evict(e, r)
      BY <3>1, <3>3 DEF HandlerTypeOK, Evict, Texts
    <3> QED
      BY <1>7, <3>2, <3>3
  <2>2. UNCHANGED <<handlerVars, decode_status, recv_from_detokenizer>>
    BY <1>7 DEF Fetch, Evict
  <2> QED
    BY <2>1, <2>2, StatusesKept DEF HandlerTypeOK, handlerVars, clientVars, reqState
<1>8. ASSUME NEW e \in Engines, NEW r \in Reqs, Generate(e, r) PROVE HandlerTypeOK'
  <2>1. ids' \in [Reqs -> Texts]
    BY <1>8 DEF HandlerTypeOK, Generate, Texts
  <2>2. PICK last \in BOOLEAN :
          /\ place' = [place EXCEPT ![r] = IF last THEN "finished" ELSE e]
          /\ \/ Output(e, r, last)
             \/ UNCHANGED <<decode_status, recv_from_detokenizer>>
    BY <1>8 DEF Generate
  <2>3. place' \in [Reqs -> Engines \cup {"nowhere", "redis", "finished"}]
    BY <2>2 DEF HandlerTypeOK
  <2>4. DetokenizerTypeOK' /\ recv_from_detokenizer' \in [Engines -> Seq([rid: Reqs, out: Outs])]
    BY <2>1, <2>2, OutputTyped, StatusesKept DEF HandlerTypeOK
  <2>5. UNCHANGED <<handlerVars, attempt>>
    BY <1>8 DEF Generate
  <2> QED
    BY <2>1, <2>3, <2>4, <2>5 DEF HandlerTypeOK, handlerVars, clientVars, reqState
<1> QED
  BY <1>1, <1>2, <1>3, <1>4, <1>5, <1>6, <1>7, <1>8 DEF HandlerNext, HandlerStep
-------------------------------------------------------------------------------
(* The wake-up *)

\* Every action leaves event loop and coroutines consistent.
LEMMA WakeStep ==
  ASSUME HandlerTypeOK, WakeInv, [HandlerNext]_requestVars
  PROVE  WakeInv'
<1> SUFFICES ASSUME NEW q \in Reqs PROVE Consistent(q)'
  BY DEF WakeInv
<1>0. /\ Consistent(q) /\ task \in [Reqs -> Tasks] /\ event \in [Reqs -> BOOLEAN]
      /\ out_list \in [Reqs -> Seq(Outs)] /\ rid_to_state \in SUBSET Reqs
  BY DEF WakeInv, HandlerTypeOK
<1>1. CASE UNCHANGED <<task, rid_to_state, event, out_list>>
  BY <1>0, <1>1 DEF Consistent
<1>2. ASSUME NEW r \in Reqs, Send(r) \/ Register(r) \/ WaitTimesOut(r) \/ CancelStream(r)
      PROVE  Consistent(q)'
  BY <1>0, <1>2 DEF Consistent, Send, Register, WaitTimesOut, CancelStream, Goto, Tasks, reqState
<1>3. ASSUME NEW r \in Reqs, Wake(r) PROVE Consistent(q)'
  <2>1. CASE Completes(r)
    BY <1>0, <1>3, <2>1 DEF Consistent, Wake, Goto
  <2>2. CASE ~Completes(r)
    BY <1>0, <1>3, <2>2 DEF Consistent, Wake, Goto
  <2> QED
    BY <2>1, <2>2
<1>4. ASSUME NEW r \in Reqs, Resume(r) PROVE Consistent(q)'
  BY <1>0, <1>4 DEF Consistent, Resume, Goto, AfterYield
<1>5. ASSUME NEW r \in Reqs, Checked(r) PROVE Consistent(q)'
  BY <1>0, <1>5 DEF Consistent, Checked, Goto, AbortRequest, reqState
<1>6. ASSUME NEW r \in Reqs, AbortLater(r) PROVE Consistent(q)'
  <2>1. rid_to_state' \in {rid_to_state, rid_to_state \ {r}} /\ task[r] \in Ended
    BY <1>6 DEF AbortLater, AbortRequest
  <2>2. UNCHANGED <<task, out_list, event>>
    BY <1>6 DEF AbortLater, reqState
  <2> QED
    BY <1>0, <2>1, <2>2 DEF Consistent, Ended
<1>7. ASSUME NEW e \in Engines, HandleOutput(e) PROVE Consistent(q)'
  <2> DEFINE r == Head(recv_from_detokenizer[e]).rid
             out == Head(recv_from_detokenizer[e]).out
  <2>0. r \in Reqs /\ out \in Outs
    BY <1>7, NextOutput DEF HandleOutput
  <2>1. UNCHANGED <<task, rid_to_state>>
    BY <1>7 DEF HandleOutput, StillRegistered
  <2>2. CASE r \notin rid_to_state
    BY <1>0, <1>7, <2>1, <2>2 DEF Consistent, HandleOutput, reqState
  <2>3. CASE r \in rid_to_state
    <3>1. /\ out_list' = [out_list EXCEPT ![r] = Append(@, out)]
          /\ event' = [event EXCEPT ![r] = TRUE]
      BY <1>7, <2>3 DEF HandleOutput
    <3> HIDE DEF r, out
    <3>2. Append(out_list[r], out) # <<>>
      BY <1>0, <2>0, AppendProperties
    <3>3. CASE q = r
      BY <1>0, <2>0, <2>1, <2>3, <3>1, <3>2, <3>3 DEF Consistent
    <3>4. CASE q # r
      BY <1>0, <2>0, <2>1, <3>1, <3>4 DEF Consistent
    <3> QED
      BY <3>3, <3>4
  <2> QED
    BY <2>2, <2>3
<1> QED
  BY <1>1, <1>2, <1>3, <1>4, <1>5, <1>6, <1>7
     DEF HandlerNext, HandlerStep, requestVars, handlerVars, reqState, Disconnect, Fetch, Generate, Evict

\* At first nothing has been sent.
LEMMA HandlerStarts == HandlerInit => HandlerTypeOK /\ WakeInv
<1> SUFFICES ASSUME HandlerInit PROVE HandlerTypeOK /\ WakeInv
  OBVIOUS
<1>1. NoOut \in Outs
  BY DEF NoOut, Outs, Texts
<1>2. HandlerTypeOK
  BY <1>1 DEF HandlerInit, HandlerTypeOK, DetokenizerInit, DetokenizerTypeOK, Tasks, Texts
<1>3. WakeInv
  BY DEF HandlerInit, WakeInv, Consistent
<1> QED
  BY <1>2, <1>3

\* Types and wake-ups hold in every state.
LEMMA HandlerHolds == HandlerSpec => [](HandlerTypeOK /\ WakeInv)
<1>1. HandlerTypeOK /\ WakeInv /\ [HandlerNext]_requestVars => (HandlerTypeOK /\ WakeInv)'
  BY HandlerTyped, WakeStep
<1> QED
  BY <1>1, HandlerStarts, PTL DEF HandlerSpec

\* A coroutine that handle_loop wakes always finds an output to show and its
\* request registered, whatever timeouts, disconnects, abort tasks, evictions
\* and late answers there have been (_wait_for_response, handle_loop).
THEOREM WokenFinds == HandlerSpec => []WokenFindsItsState
<1>1. WakeInv => WokenFindsItsState
  BY DEF WakeInv, Consistent, WokenFindsItsState
<1> QED
  BY <1>1, HandlerHolds, PTL

\* Texts, outputs, decode statuses and queues keep their types, for tokens and
\* answers without any bound.
THEOREM HandlerTypes == HandlerSpec => []HandlerTypeOK
BY HandlerHolds, PTL
-------------------------------------------------------------------------------
(* The whole answer *)

\* Engine e, its detokenizer or what they have sent is about request r.
Sent(e, r) == \E i \in DOMAIN recv_from_detokenizer[e] : recv_from_detokenizer[e][i].rid = r
Known(e, r) == r \in DOMAIN decode_status[e] \/ Sent(e, r)

\* The decoded text is that of the tokens up to the offset.
Fits(s, t) == s.vid = 0 /\ s.read_offset <= Len(t) /\ s.decoded_text = SubSeq(t, 1, s.read_offset)

\* A request started once is known to one engine, and its detokenizer is not
\* ahead of it; what it sends last is the whole text.
LastIsWhole(e, r) ==
  \A i \in DOMAIN recv_from_detokenizer[e] :
    LET msg == recv_from_detokenizer[e][i]
    IN  msg.rid = r /\ msg.out.finished =>
          /\ place[r] = "finished" /\ msg.out.text = ids[r]
          /\ \A j \in DOMAIN recv_from_detokenizer[e] : i < j => recv_from_detokenizer[e][j].rid # r

StartedOnce(r) ==
  /\ \A e, f \in Engines : Known(e, r) /\ Known(f, r) => e = f
  /\ \A e \in Engines : place[r] \in Engines /\ Known(e, r) => e = place[r]
  /\ \A e \in Engines : r \in DOMAIN decode_status[e] => Fits(decode_status[e][r], ids[r])
  /\ \A e \in Engines : LastIsWhole(e, r)

EngineSide(r) ==
  /\ attempt[r] = 0 => place[r] \in {"nowhere", "redis"} /\ \A e \in Engines : ~Known(e, r)
  /\ attempt[r] = 1 => StartedOnce(r)

\* What the handler has taken for the last output of a request started once.
HandlerSide(r) ==
  /\ task[r] = "idle" => attempt[r] = 0 /\ place[r] = "nowhere"
  /\ task[r] \in {"idle", "pushing"} \/ attempt[r] = 0 => ~finished[r] /\ task[r] # "done"
  /\ attempt[r] = 1 /\ finished[r] =>
       /\ place[r] = "finished" /\ \A e \in Engines : ~Sent(e, r)
       /\ task[r] \in {"waiting", "checking", "yielded"} =>
            event[r] /\ out_list[r] # <<>> /\ LastOut(r) = [text |-> ids[r], finished |-> TRUE]
  /\ attempt[r] = 1 /\ task[r] = "done" =>
       place[r] = "finished" /\ shown[r] = [text |-> ids[r], finished |-> TRUE]

AnswerInv == \A r \in Reqs : EngineSide(r) /\ HandlerSide(r)

\* Tokens decoded so far and the new ones are all tokens.
LEMMA DecodedWhole ==
  ASSUME NEW s \in Status, NEW t \in Texts, Fits(s, t)
  PROVE  /\ s.decoded_text \o NewTokens(s, t) = t
         /\ SubSeq(NewTokens(s, t), 1, Len(NewTokens(s, t))) = NewTokens(s, t)
<1>1. /\ s.read_offset \in 0 .. Len(t) /\ t \in Seq(Nat) /\ Len(t) \in Nat
      /\ s.decoded_text = SubSeq(t, 1, s.read_offset)
      /\ NewTokens(s, t) = SubSeq(t, s.read_offset + 1, Len(t))
  BY DEF Status, Texts, Fits, NewTokens
<1>2. NewTokens(s, t) \in Seq(Nat)
  <2>1. \A i \in s.read_offset + 1 .. Len(t) : t[i] \in Nat
    BY <1>1
  <2> QED
    BY <1>1, <2>1, SubSeqProperties
<1>3. SubSeq(NewTokens(s, t), 1, Len(NewTokens(s, t))) = NewTokens(s, t)
  BY <1>2, SubSeqFull
<1>4. CASE t = <<>>
  <2>1. s.read_offset = 0 /\ Len(t) = 0
    BY <1>1, <1>4
  <2>2. SubSeq(t, 1, 0) = <<>>
    BY SubSeqEmpty
  <2> QED
    BY <1>1, <1>3, <1>4, <2>1, <2>2
<1>5. CASE t # <<>>
  <2>1. Len(t) \in Nat \ {0}
    BY <1>1, <1>5
  <2>2. SubSeq(t, 1, s.read_offset) \o SubSeq(t, s.read_offset + 1, Len(t)) = SubSeq(t, 1, Len(t))
    <3>1. 1 \in 1 .. Len(t) + 1 /\ s.read_offset \in 1 - 1 .. Len(t) /\ Len(t) \in s.read_offset .. Len(t)
      BY <1>1, <2>1
    <3> QED
      BY <1>1, <3>1, ConcatAdjacentSubSeq
  <2>3. SubSeq(t, 1, Len(t)) = t
    BY <1>1, SubSeqFull
  <2> QED
    BY <1>1, <1>3, <2>2, <2>3
<1> QED
  BY <1>4, <1>5

\* A new token leaves what has been decoded as it is.
LEMMA StillFits ==
  ASSUME NEW s \in Status, NEW t \in Texts, NEW x \in Nat, Fits(s, t)
  PROVE  Fits(s, Append(t, x))
<1> DEFINE k == s.read_offset
<1>1. /\ k \in 0 .. Len(t) /\ t \in Seq(Nat) /\ Len(t) \in Nat /\ Len(Append(t, x)) = Len(t) + 1
      /\ s.decoded_text = SubSeq(t, 1, k) /\ s.vid = 0
  BY DEF Status, Texts, Fits
<1>2. SubSeq(Append(t, x), 1, k) = SubSeq(t, 1, k)
  <2>1. \A i \in 1 .. k : Append(t, x)[i] = t[i]
    BY <1>1
  <2>2. /\ SubSeq(t, 1, k) \in Seq(Nat) /\ SubSeq(Append(t, x), 1, k) \in Seq(Nat)
        /\ Len(SubSeq(t, 1, k)) = k /\ Len(SubSeq(Append(t, x), 1, k)) = k
        /\ \A i \in 1 .. k : SubSeq(t, 1, k)[i] = t[i] /\ SubSeq(Append(t, x), 1, k)[i] = Append(t, x)[i]
    <3>1. \A i \in 1 .. k : t[i] \in Nat /\ Append(t, x)[i] \in Nat
      BY <1>1, <2>1
    <3> QED
      BY <1>1, <3>1, SubSeqProperties
  <2> QED
    BY <2>1, <2>2, SeqEqual
<1> QED
  BY <1>1, <1>2 DEF Fits

\* What a detokenizer keeps fits, and what it shows last is the whole text.
LEMMA DecodingsFit ==
  ASSUME NEW s \in Status, NEW t \in Texts, Fits(s, t), NEW last \in BOOLEAN, NEW d \in Decodings(s, t, last)
  PROVE  Fits(d.status, t) /\ (last => d.text = t)
<1> DEFINE new == NewTokens(s, t)
           whole == s.decoded_text \o new
           chunk == [vid |-> s.vid, decoded_text |-> whole, read_offset |-> Len(t)]
           Shown(k) == [text |-> s.decoded_text \o SubSeq(new, 1, k), status |-> s]
<1>1. whole = t /\ Shown(Len(new)) = [text |-> t, status |-> s]
  BY DecodedWhole
<1>2. Fits(chunk, t)
  <2>1. SubSeq(t, 1, Len(t)) = t /\ Len(t) <= Len(t)
    BY SubSeqFull DEF Texts
  <2>2. chunk.vid = 0 /\ chunk.decoded_text = t /\ chunk.read_offset = Len(t)
    BY <1>1 DEF Fits
  <2> HIDE DEF chunk
  <2> QED
    BY <2>1, <2>2 DEF Fits
<1>3. Decodings(s, t, last) = IF last \/ new = <<>> THEN {Shown(Len(new))}
                              ELSE {[text |-> whole, status |-> chunk]} \cup {Shown(k) : k \in 0 .. Len(new) - 1}
  BY DEF Decodings
<1>4. \A k : Shown(k).status = s
  OBVIOUS
<1> HIDE DEF new, whole, chunk, Shown
<1> QED
  BY <1>1, <1>2, <1>3, <1>4

\* A request and the engines' side of it stay as they are.
LEMMA EngineSideKept ==
  ASSUME NEW q \in Reqs, EngineSide(q), place'[q] = place[q], attempt'[q] = attempt[q], ids'[q] = ids[q],
         \A e \in Engines :
           /\ q \in DOMAIN decode_status'[e] => /\ q \in DOMAIN decode_status[e]
                                                /\ decode_status'[e][q] = decode_status[e][q]
           /\ Sent(e, q)' => Sent(e, q)
           /\ LastIsWhole(e, q) => LastIsWhole(e, q)'
  PROVE  EngineSide(q)'
<1>1. \A e \in Engines : Known(e, q)' => Known(e, q)
  BY DEF Known
<1>2. CASE attempt[q] = 1
  <2>1. StartedOnce(q)
    BY <1>2 DEF EngineSide
  <2>2. StartedOnce(q)'
    BY <1>1, <2>1 DEF StartedOnce
  <2> QED
    BY <1>2, <2>2 DEF EngineSide
<1>3. CASE attempt[q] # 1
  BY <1>1, <1>3 DEF EngineSide
<1> QED
  BY <1>2, <1>3

\* The handler's side of it stays as it is.
LEMMA HandlerSideKept ==
  ASSUME NEW q \in Reqs, HandlerSide(q), place'[q] = place[q], attempt'[q] = attempt[q], ids'[q] = ids[q],
         task'[q] = task[q], finished'[q] = finished[q], event'[q] = event[q], out_list'[q] = out_list[q],
         shown'[q] = shown[q], \A e \in Engines : Sent(e, q)' => Sent(e, q)
  PROVE  HandlerSide(q)'
<1>1. LastOut(q)' = LastOut(q)
  BY DEF LastOut
<1> QED
  BY <1>1 DEF HandlerSide

\* An engine has nothing to do with the request of another.
LEMMA OtherChannel ==
  ASSUME NEW q \in Reqs, NEW e \in Engines, UNCHANGED <<place[q], ids[q], recv_from_detokenizer[e]>>
  PROVE  (Sent(e, q)' => Sent(e, q)) /\ (LastIsWhole(e, q) => LastIsWhole(e, q)')
BY DEF Sent, LastIsWhole

\* Reading the first output of a channel.
LEMMA ChannelRead ==
  ASSUME HandlerTypeOK, NEW q \in Reqs, NEW e \in Engines, UNCHANGED <<place, ids>>,
         recv_from_detokenizer[e] # <<>>, recv_from_detokenizer'[e] = Tail(recv_from_detokenizer[e])
  PROVE  /\ (Sent(e, q)' => Sent(e, q)) /\ (LastIsWhole(e, q) => LastIsWhole(e, q)')
         /\ LastIsWhole(e, q) /\ Head(recv_from_detokenizer[e]).rid = q
              /\ Head(recv_from_detokenizer[e]).out.finished => ~Sent(e, q)'
         /\ Head(recv_from_detokenizer[e]).rid = q => Sent(e, q)
<1> DEFINE Msgs == [rid: Reqs, out: Outs]
           old == recv_from_detokenizer[e]
           new == recv_from_detokenizer'[e]
<1>1. old \in Seq(Msgs)
  BY DEF HandlerTypeOK
<1> HIDE DEF Msgs
<1>2. /\ Len(old) \in Nat \ {0} /\ DOMAIN old = 1 .. Len(old) /\ Head(old) = old[1]
      /\ DOMAIN new = 1 .. Len(old) - 1
      /\ \A i \in 1 .. Len(old) - 1 : new[i] = old[i + 1]
  BY <1>1, HeadTailProperties
<1>3. Sent(e, q)' => Sent(e, q)
  <2>1. ASSUME NEW i \in 1 .. Len(old) - 1, new[i].rid = q PROVE i + 1 \in DOMAIN old /\ old[i + 1].rid = q
    BY <1>2, <2>1
  <2> QED
    BY <1>2, <2>1 DEF Sent
<1>4. ASSUME LastIsWhole(e, q) PROVE LastIsWhole(e, q)'
  <2> SUFFICES ASSUME NEW i \in DOMAIN new, new[i].rid = q, new[i].out.finished
               PROVE  /\ place[q] = "finished" /\ new[i].out.text = ids[q]
                      /\ \A j \in DOMAIN new : i < j => new[j].rid # q
    BY DEF LastIsWhole
  <2>1. i + 1 \in DOMAIN old /\ new[i] = old[i + 1]
    BY <1>2
  <2>2. /\ place[q] = "finished" /\ old[i + 1].out.text = ids[q]
        /\ \A j \in DOMAIN old : i + 1 < j => old[j].rid # q
    BY <1>4, <2>1 DEF LastIsWhole
  <2>3. ASSUME NEW j \in DOMAIN new, i < j PROVE new[j].rid # q
    <3>1. j + 1 \in DOMAIN old /\ i + 1 < j + 1 /\ new[j] = old[j + 1]
      BY <1>2, <2>3
    <3> QED
      BY <2>2, <3>1
  <2> QED
    BY <2>1, <2>2, <2>3
<1>5. ASSUME LastIsWhole(e, q), old[1].rid = q, old[1].out.finished PROVE ~Sent(e, q)'
  <2>1. \A j \in DOMAIN old : 1 < j => old[j].rid # q
    BY <1>2, <1>5 DEF LastIsWhole
  <2>2. ASSUME NEW i \in DOMAIN new PROVE new[i].rid # q
    <3>1. i + 1 \in DOMAIN old /\ 1 < i + 1 /\ new[i] = old[i + 1]
      BY <1>2
    <3> QED
      BY <2>1, <3>1
  <2> QED
    BY <2>2 DEF Sent
<1>6. old[1].rid = q => Sent(e, q)
  BY <1>2 DEF Sent
<1> QED
  BY <1>2, <1>3, <1>4, <1>5, <1>6

\* A generated token: the request is running for the first time, and what its
\* detokenizer makes of it fits.
LEMMA GenerateWhole ==
  ASSUME HandlerTypeOK, NEW e \in Engines, NEW r \in Reqs, EngineSide(r), attempt[r] = 1,
         place[r] = e, NEW last \in BOOLEAN, Output(e, r, last), UNCHANGED attempt,
         ids' = [ids EXCEPT ![r] = Append(@, attempt[r])],
         place' = [place EXCEPT ![r] = IF last THEN "finished" ELSE e]
  PROVE  StartedOnce(r)'
<1> DEFINE t == ids[r]
           Msgs == [rid: Reqs, out: Outs]
           old == recv_from_detokenizer[e]
<1>0. /\ place[r] \in Engines /\ place[r] # "finished" /\ "finished" \notin Engines
      /\ t \in Texts /\ ids'[r] = Append(t, 1) /\ ids'[r] \in Texts
      /\ place'[r] = IF last THEN "finished" ELSE e
  <2>1. ids \in [Reqs -> Texts] /\ place \in [Reqs -> Engines \cup {"nowhere", "redis", "finished"}]
    BY DEF HandlerTypeOK
  <2>2. t \in Seq(Nat)
    BY <2>1 DEF Texts
  <2>3. Append(t, 1) \in Seq(Nat)
    BY <2>2
  <2> QED
    BY <2>1, <2>3, HandlerAssumption DEF Texts
<1>1. /\ \A f \in Engines : Known(f, r) => f = e
      /\ \A f \in Engines : r \in DOMAIN decode_status[f] => Fits(decode_status[f][r], t)
      /\ \A f \in Engines : LastIsWhole(f, r)
  BY <1>0 DEF EngineSide, StartedOnce
<1>2. StatusOf(e, r, 0) \in Status /\ Fits(StatusOf(e, r, 0), ids'[r])
  <2>1. StatusOf(e, r, 0) \in Status
    BY DEF StatusOf, NewStatus, Status, Texts, HandlerTypeOK, DetokenizerTypeOK
  <2>2. Fits(NewStatus(0), t)
    <3>1. SubSeq(t, 1, 0) = <<>> /\ Len(t) >= 0
      BY <1>0, SubSeqEmpty DEF Texts
    <3> QED
      BY <3>1 DEF Fits, NewStatus
  <2>3. Fits(StatusOf(e, r, 0), t)
    BY <1>1, <2>2 DEF StatusOf
  <2> QED
    BY <1>0, <2>1, <2>3, StillFits
<1>3. PICK d \in Decodings(StatusOf(e, r, 0), ids'[r], last) :
        /\ Keep(e, r, d.status)
        /\ recv_from_detokenizer' = [recv_from_detokenizer EXCEPT
             ![e] = Append(@, [rid |-> r, out |-> [text |-> d.text, finished |-> last]])]
  BY DEF Output
<1> DEFINE msg == [rid |-> r, out |-> [text |-> d.text, finished |-> last]]
<1>4. Fits(d.status, ids'[r]) /\ (last => d.text = ids'[r])
  BY <1>0, <1>2, DecodingsFit
<1>5. msg \in Msgs /\ old \in Seq(Msgs)
  <2>1. d.text \in Texts
    BY <1>0, <1>2, DecodingsTyped
  <2> QED
    BY <2>1 DEF HandlerTypeOK, Outs
<1>6. /\ \A f \in Engines \ {e} : recv_from_detokenizer'[f] = recv_from_detokenizer[f]
      /\ recv_from_detokenizer'[e] = Append(old, msg)
  BY <1>3 DEF HandlerTypeOK
<1>7. /\ \A f \in Engines \ {e} : decode_status'[f] = decode_status[f]
      /\ decode_status'[e][r] = d.status
  BY <1>3 DEF Keep, HandlerTypeOK, DetokenizerTypeOK
<1>8. ASSUME NEW f \in Engines, Known(f, r)' PROVE f = e
  <2>1. CASE f # e
    <3>1. Known(f, r)
      BY <1>6, <1>7, <1>8, <2>1 DEF Known, Sent
    <3> QED
      BY <1>1, <3>1
  <2> QED
    BY <2>1
<1>9. ASSUME NEW f \in Engines, r \in DOMAIN decode_status'[f] PROVE Fits(decode_status'[f][r], ids'[r])
  <2>1. f = e
    BY <1>8, <1>9 DEF Known
  <2> QED
    BY <1>4, <1>7, <2>1
<1>10. ASSUME NEW f \in Engines PROVE LastIsWhole(f, r)'
  <2> DEFINE new == recv_from_detokenizer'[f]
  <2> SUFFICES ASSUME NEW i \in DOMAIN new, new[i].rid = r, new[i].out.finished
               PROVE  /\ place'[r] = "finished" /\ new[i].out.text = ids'[r]
                      /\ \A j \in DOMAIN new : i < j => new[j].rid # r
    BY DEF LastIsWhole
  <2>1. f = e
    BY <1>8 DEF Known, Sent
  <2> HIDE DEF Msgs, msg
  <2>2. /\ Len(old) \in Nat /\ DOMAIN old = 1 .. Len(old) /\ DOMAIN new = 1 .. Len(old) + 1
        /\ \A j \in 1 .. Len(old) : new[j] = old[j]
        /\ new[Len(old) + 1] = msg
    BY <1>5, <1>6, <2>1, AppendProperties
  <2>3. \A j \in DOMAIN old : ~(old[j].rid = r /\ old[j].out.finished)
    BY <1>0, <1>1 DEF LastIsWhole
  <2>4. i = Len(old) + 1
    BY <2>2, <2>3
  <2>5. last /\ new[i].out.text = ids'[r]
    BY <1>4, <2>2, <2>4 DEF msg
  <2>6. \A j \in DOMAIN new : ~(i < j)
    BY <2>2, <2>4
  <2> QED
    BY <1>0, <2>5, <2>6
<1>11. place'[r] \in Engines => place'[r] = e
  BY <1>0
<1> QED
  BY <1>8, <1>9, <1>10, <1>11 DEF StartedOnce

\* A token that nobody is told of.
LEMMA SilentWhole ==
  ASSUME HandlerTypeOK, NEW e \in Engines, NEW r \in Reqs, EngineSide(r), attempt[r] = 1, place[r] = e,
         UNCHANGED <<decode_status, recv_from_detokenizer, attempt>>,
         ids' = [ids EXCEPT ![r] = Append(@, attempt[r])], place'[r] = e
  PROVE  StartedOnce(r)'
<1>0. /\ place[r] # "finished" /\ ids[r] \in Texts /\ ids'[r] = Append(ids[r], 1)
      /\ DetokenizerTypeOK
  BY HandlerAssumption DEF HandlerTypeOK
<1>1. StartedOnce(r)
  BY DEF EngineSide
<1>2. ASSUME NEW f \in Engines, r \in DOMAIN decode_status[f] PROVE Fits(decode_status[f][r], ids'[r])
  <2>1. decode_status[f][r] \in Status /\ Fits(decode_status[f][r], ids[r])
    BY <1>0, <1>1, <1>2 DEF StartedOnce, DetokenizerTypeOK
  <2> QED
    BY <1>0, <2>1, StillFits
<1>3. ASSUME NEW f \in Engines PROVE LastIsWhole(f, r)'
  BY <1>0, <1>1 DEF StartedOnce, LastIsWhole
<1>4. \A f \in Engines : Known(f, r)' => Known(f, r)
  BY DEF Known, Sent
<1> QED
  BY <1>1, <1>2, <1>3, <1>4 DEF StartedOnce

\* A forward pass changes nothing for other requests.
LEMMA GenerateOthers ==
  ASSUME HandlerTypeOK, NEW e \in Engines, NEW r \in Reqs, NEW q \in Reqs, q # r, Generate(e, r)
  PROVE  /\ place'[q] = place[q] /\ ids'[q] = ids[q] /\ attempt'[q] = attempt[q]
         /\ \A f \in Engines :
              /\ q \in DOMAIN decode_status'[f] => /\ q \in DOMAIN decode_status[f]
                                                   /\ decode_status'[f][q] = decode_status[f][q]
              /\ Sent(f, q)' => Sent(f, q)
              /\ LastIsWhole(f, q) => LastIsWhole(f, q)'
<1>1. /\ place'[q] = place[q] /\ ids'[q] = ids[q] /\ attempt'[q] = attempt[q]
  BY DEF HandlerTypeOK, Generate
<1>2. CASE UNCHANGED <<decode_status, recv_from_detokenizer>>
  BY <1>1, <1>2, OtherChannel
<1>3. ASSUME NEW last \in BOOLEAN, Output(e, r, last)
      PROVE  \A f \in Engines :
               /\ q \in DOMAIN decode_status'[f] => /\ q \in DOMAIN decode_status[f]
                                                    /\ decode_status'[f][q] = decode_status[f][q]
               /\ Sent(f, q)' => Sent(f, q)
               /\ LastIsWhole(f, q) => LastIsWhole(f, q)'
  <2>1. PICK d \in Decodings(StatusOf(e, r, 0), ids'[r], last) :
          /\ Keep(e, r, d.status)
          /\ recv_from_detokenizer' = [recv_from_detokenizer EXCEPT
               ![e] = Append(@, [rid |-> r, out |-> [text |-> d.text, finished |-> last]])]
    BY <1>3 DEF Output
  <2>2. recv_from_detokenizer' \in [Engines -> Seq([rid: Reqs, out: Outs])]
    <3>1. ids' \in [Reqs -> Texts]
      BY DEF HandlerTypeOK, Generate, Texts
    <3> QED
      BY <1>3, <3>1, OutputTyped
  <2> DEFINE Msgs == [rid: Reqs, out: Outs]
             msg == [rid |-> r, out |-> [text |-> d.text, finished |-> last]]
             old == recv_from_detokenizer[e]
             new == recv_from_detokenizer'[e]
  <2>3. /\ recv_from_detokenizer \in [Engines -> Seq(Msgs)] /\ msg.rid = r
        /\ recv_from_detokenizer' = [recv_from_detokenizer EXCEPT ![e] = Append(@, msg)]
    BY <2>1 DEF HandlerTypeOK
  <2>4. /\ \A f \in Engines \ {e} : decode_status'[f] = decode_status[f]
        /\ q \in DOMAIN decode_status'[e] => q \in DOMAIN decode_status[e]
        /\ q \in DOMAIN decode_status[e] => decode_status'[e][q] = decode_status[e][q]
    BY <2>1 DEF Keep, HandlerTypeOK, DetokenizerTypeOK
  <2> HIDE DEF Msgs, msg
  <2>5. /\ Len(old) \in Nat /\ DOMAIN old = 1 .. Len(old) /\ DOMAIN new = 1 .. Len(old) + 1
        /\ \A j \in 1 .. Len(old) : new[j] = old[j]
        /\ new[Len(old) + 1] = msg
        /\ \A f \in Engines \ {e} : recv_from_detokenizer'[f] = recv_from_detokenizer[f]
    <3>1. old \in Seq(Msgs) /\ new = Append(old, msg)
      BY <2>3
    <3>2. \A f \in Engines \ {e} : recv_from_detokenizer'[f] = recv_from_detokenizer[f]
      BY <2>3
    <3>3. Len(old) \in Nat /\ DOMAIN old = 1 .. Len(old)
      BY <3>1
    <3>4. /\ Len(new) = Len(old) + 1 /\ DOMAIN new = 1 .. Len(new)
          /\ \A j \in 1 .. Len(old) : new[j] = old[j]
          /\ new[Len(old) + 1] = msg
      BY <3>1
    <3> QED
      BY <3>2, <3>3, <3>4
  <2>6. \A i \in DOMAIN new : new[i].rid = q => i \in DOMAIN old /\ new[i] = old[i]
    BY <2>3, <2>5
  <2>7. Sent(e, q)' => Sent(e, q)
    BY <2>6 DEF Sent
  <2>8. LastIsWhole(e, q) => LastIsWhole(e, q)'
    BY <1>1, <2>6 DEF LastIsWhole
  <2>9. ASSUME NEW f \in Engines \ {e}
        PROVE  (Sent(f, q)' => Sent(f, q)) /\ (LastIsWhole(f, q) => LastIsWhole(f, q)')
    BY <1>1, <2>5, OtherChannel
  <2> QED
    BY <2>4, <2>7, <2>8, <2>9
<1> QED
  BY <1>1, <1>2, <1>3 DEF Generate

\* A request that runs for the first time has not been answered.
LEMMA RunningUnanswered ==
  ASSUME HandlerTypeOK, NEW r \in Reqs, HandlerSide(r), place[r] \in Engines \cup {"redis"}
  PROVE  task[r] # "idle" /\ (attempt[r] \in {0, 1} => ~finished[r] /\ task[r] # "done")
<1>1. place[r] # "nowhere" /\ place[r] # "finished"
  BY HandlerAssumption
<1> QED
  BY <1>1 DEF HandlerSide

\* Engines keep what makes the last output whole.
LEMMA EnginesKeep ==
  ASSUME HandlerTypeOK, AnswerInv, NEW q \in Reqs, NEW e \in Engines, NEW r \in Reqs,
         Fetch(e, r) \/ Generate(e, r) \/ Evict(e, r)
  PROVE  EngineSide(q)' /\ HandlerSide(q)'
<1>0. /\ EngineSide(q) /\ HandlerSide(q) /\ EngineSide(r) /\ HandlerSide(r)
      /\ place \in [Reqs -> Engines \cup {"nowhere", "redis", "finished"}] /\ attempt \in [Reqs -> Nat]
      /\ ids \in [Reqs -> Texts]
  BY DEF AnswerInv, HandlerTypeOK
<1>1. UNCHANGED <<task, finished, event, out_list, shown>>
  BY DEF Fetch, Generate, Evict, handlerVars, reqState, clientVars
<1>2. CASE q # r
  <2>1. /\ place'[q] = place[q] /\ ids'[q] = ids[q] /\ attempt'[q] = attempt[q]
        /\ \A f \in Engines :
             /\ q \in DOMAIN decode_status'[f] => /\ q \in DOMAIN decode_status[f]
                                                  /\ decode_status'[f][q] = decode_status[f][q]
             /\ Sent(f, q)' => Sent(f, q)
             /\ LastIsWhole(f, q) => LastIsWhole(f, q)'
    <3>1. CASE Fetch(e, r) \/ Evict(e, r)
      <4>1. /\ place'[q] = place[q] /\ ids'[q] = ids[q] /\ attempt'[q] = attempt[q]
            /\ UNCHANGED <<decode_status, recv_from_detokenizer>>
        BY <1>0, <1>2, <3>1 DEF Fetch, Evict
      <4> QED
        BY <4>1, OtherChannel
    <3>2. CASE Generate(e, r)
      BY <1>2, <3>2, GenerateOthers
    <3> QED
      BY <3>1, <3>2
  <2>2. EngineSide(q)'
    BY <1>0, <2>1, EngineSideKept
  <2>3. HandlerSide(q)'
    BY <1>0, <1>1, <2>1, HandlerSideKept
  <2> QED
    BY <2>2, <2>3
<1>3. CASE q = r
  <2>1. task[r] # "idle" /\ (attempt[r] \in {0, 1} => ~finished[r] /\ task[r] # "done")
    <3>1. place[r] \in Engines \cup {"redis"}
      BY DEF Fetch, Generate, Evict
    <3> QED
      BY <1>0, <3>1, RunningUnanswered
  <2>2. CASE Fetch(e, r)
    <3>1. attempt'[r] = attempt[r] + 1 /\ attempt[r] \in Nat /\ place'[r] = e
          /\ UNCHANGED <<decode_status, recv_from_detokenizer>>
      BY <1>0, <2>2 DEF Fetch
    <3>2. CASE attempt[r] = 0
      <4>1. \A f \in Engines : ~Known(f, r)
        BY <1>0, <3>2 DEF EngineSide
      <4>2. \A f \in Engines : ~Known(f, r)'
        BY <3>1, <4>1 DEF Known, Sent
      <4>3. \A f \in Engines : LastIsWhole(f, r)'
        BY <4>2 DEF LastIsWhole, Known, Sent
      <4>4. StartedOnce(r)'
        BY <4>2, <4>3 DEF StartedOnce, Known
      <4> QED
        BY <1>1, <1>3, <2>1, <3>1, <3>2, <4>4 DEF EngineSide, HandlerSide
    <3>3. CASE attempt[r] # 0
      <4>1. attempt'[r] \notin {0, 1}
        BY <3>1, <3>3
      <4>2. task[r] \in {"idle", "pushing"} => ~finished[r] /\ task[r] # "done"
        BY <1>0 DEF HandlerSide
      <4> QED
        BY <1>1, <1>3, <2>1, <4>1, <4>2 DEF EngineSide, HandlerSide
    <3> QED
      BY <3>2, <3>3
  <2>3. CASE Evict(e, r)
    <3>1. /\ place[r] = e /\ place'[r] = "redis" /\ UNCHANGED <<attempt, ids, decode_status, recv_from_detokenizer>>
          /\ "redis" \notin Engines /\ place[r] # "finished" /\ place[r] \notin {"nowhere", "redis"}
      BY <1>0, <2>3, HandlerAssumption DEF Evict
    <3>2. CASE attempt[r] = 1
      <4>1. StartedOnce(r)
        BY <1>0, <3>2 DEF EngineSide
      <4>2. \A f \in Engines : Known(f, r)' => Known(f, r)
        BY <3>1 DEF Known, Sent
      <4>3. \A f \in Engines : LastIsWhole(f, r)'
        BY <3>1, <4>1 DEF StartedOnce, LastIsWhole
      <4>4. StartedOnce(r)'
        BY <3>1, <4>1, <4>2, <4>3 DEF StartedOnce
      <4> QED
        BY <1>1, <1>3, <2>1, <3>1, <3>2, <4>4 DEF EngineSide, HandlerSide
    <3>3. CASE attempt[r] # 1
      <4>1. attempt[r] # 0
        BY <1>0, <3>1 DEF EngineSide
      <4>2. task[r] \in {"idle", "pushing"} => ~finished[r] /\ task[r] # "done"
        BY <1>0 DEF HandlerSide
      <4> QED
        BY <1>1, <1>3, <2>1, <3>1, <3>3, <4>1, <4>2 DEF EngineSide, HandlerSide
    <3> QED
      BY <3>2, <3>3
  <2>4. CASE Generate(e, r)
    <3>1. PICK last \in BOOLEAN :
            /\ place' = [place EXCEPT ![r] = IF last THEN "finished" ELSE e]
            /\ \/ Output(e, r, last)
               \/ ~last /\ UNCHANGED <<decode_status, recv_from_detokenizer>>
      BY <2>4 DEF Generate
    <3>2. /\ place[r] = e /\ UNCHANGED attempt /\ ids' = [ids EXCEPT ![r] = Append(@, attempt[r])]
          /\ place[r] \notin {"nowhere", "redis", "finished"}
      BY <2>4, HandlerAssumption DEF Generate
    <3>3. attempt[r] # 0
      BY <1>0, <3>2 DEF EngineSide
    <3>4. attempt[r] = 1 => StartedOnce(r)'
      <4>1. CASE Output(e, r, last)
        BY <1>0, <3>1, <3>2, <4>1, GenerateWhole
      <4>2. CASE ~last /\ UNCHANGED <<decode_status, recv_from_detokenizer>>
        <5>1. place'[r] = e
          BY <1>0, <3>1, <4>2
        <5> QED
          BY <1>0, <3>2, <4>2, <5>1, SilentWhole
      <4> QED
        BY <3>1, <4>1, <4>2
    <3>5. task[r] \in {"idle", "pushing"} => ~finished[r] /\ task[r] # "done"
      BY <1>0 DEF HandlerSide
    <3> QED
      BY <1>1, <1>3, <2>1, <3>2, <3>3, <3>4, <3>5 DEF EngineSide, HandlerSide
  <2> QED
    BY <1>3, <2>2, <2>3, <2>4
<1> QED
  BY <1>2, <1>3

\* The event loop passes a last output on as it was sent.
LEMMA OutputKeeps ==
  ASSUME HandlerTypeOK, WakeInv, AnswerInv, NEW q \in Reqs, NEW e \in Engines, HandleOutput(e)
  PROVE  EngineSide(q)' /\ HandlerSide(q)'
<1> DEFINE msg == Head(recv_from_detokenizer[e])
<1>0. EngineSide(q) /\ HandlerSide(q)
  BY DEF AnswerInv
<1>1. /\ UNCHANGED <<place, attempt, ids, decode_status, task, shown>>
      /\ recv_from_detokenizer[e] # <<>>
      /\ recv_from_detokenizer'[e] = Tail(recv_from_detokenizer[e])
      /\ \A f \in Engines \ {e} : recv_from_detokenizer'[f] = recv_from_detokenizer[f]
  BY DEF HandlerTypeOK, HandleOutput, engineVars, clientVars
<1>2. msg.rid \in Reqs /\ msg.out \in Outs /\ msg.out.finished \in BOOLEAN
  BY <1>1, NextOutput
<1>3. /\ \A f \in Engines : (Sent(f, q)' => Sent(f, q)) /\ (LastIsWhole(f, q) => LastIsWhole(f, q)')
      /\ LastIsWhole(e, q) /\ msg.rid = q /\ msg.out.finished => ~Sent(e, q)'
      /\ msg.rid = q => Sent(e, q)
  BY <1>1, ChannelRead, OtherChannel
<1>4. EngineSide(q)'
  BY <1>0, <1>1, <1>3, EngineSideKept
<1>5. CASE msg.rid # q \/ msg.rid \notin rid_to_state
  <2>1. finished'[q] = finished[q] /\ event'[q] = event[q] /\ out_list'[q] = out_list[q]
    <3>1. CASE msg.rid \in rid_to_state
      <4>1. msg.rid # q
        BY <1>5, <3>1
      <4>2. /\ out_list' = [out_list EXCEPT ![msg.rid] = Append(@, msg.out)]
            /\ finished' = [finished EXCEPT ![msg.rid] = msg.out.finished]
            /\ event' = [event EXCEPT ![msg.rid] = TRUE]
        BY <3>1 DEF HandleOutput
      <4> HIDE DEF msg
      <4> QED
        BY <4>1, <4>2 DEF HandlerTypeOK
    <3>2. CASE msg.rid \notin rid_to_state
      BY <3>2 DEF HandleOutput, reqState
    <3> QED
      BY <3>1, <3>2
  <2> QED
    BY <1>0, <1>1, <1>3, <1>4, <2>1, HandlerSideKept
<1>6. CASE msg.rid = q /\ q \in rid_to_state
  <2>1. /\ out_list' = [out_list EXCEPT ![q] = Append(@, msg.out)]
        /\ finished' = [finished EXCEPT ![q] = msg.out.finished]
        /\ event' = [event EXCEPT ![q] = TRUE]
    BY <1>6 DEF HandleOutput
  <2>2. /\ finished'[q] = msg.out.finished /\ event'[q] = TRUE
        /\ out_list'[q] # <<>> /\ LastOut(q)' = msg.out
    <3> DEFINE old == out_list[q]
    <3> HIDE DEF msg
    <3>1. old \in Seq(Outs) /\ out_list'[q] = Append(old, msg.out)
      BY <2>1 DEF HandlerTypeOK
    <3>2. Len(Append(old, msg.out)) = Len(old) + 1 /\ Append(old, msg.out)[Len(old) + 1] = msg.out
          /\ Append(old, msg.out) # <<>>
      BY <1>2, <3>1, AppendProperties
    <3> QED
      BY <1>2, <2>1, <3>1, <3>2 DEF HandlerTypeOK, LastOut
  <2>3. attempt[q] # 0
    BY <1>0, <1>3, <1>6 DEF EngineSide, Known
  <2>4. task[q] # "idle"
    BY <1>0, <2>3 DEF HandlerSide
  <2>5. ASSUME attempt[q] = 1, msg.out.finished
        PROVE  /\ place[q] = "finished" /\ \A f \in Engines : ~Sent(f, q)'
               /\ msg.out = [text |-> ids[q], finished |-> TRUE]
    <3>1. StartedOnce(q)
      BY <1>0, <2>5 DEF EngineSide
    <3>2. ~Sent(e, q)' /\ \A f \in Engines : Sent(f, q) => f = e
      BY <1>3, <1>6, <2>5, <3>1 DEF StartedOnce, Known
    <3>3. place[q] = "finished" /\ msg.out.text = ids[q]
      <4>1. 1 \in DOMAIN recv_from_detokenizer[e] /\ msg = recv_from_detokenizer[e][1]
        BY <1>1 DEF HandlerTypeOK
      <4> HIDE DEF msg
      <4> QED
        BY <1>6, <2>5, <3>1, <4>1 DEF StartedOnce, LastIsWhole
    <3>4. msg.out = [text |-> ids[q], finished |-> TRUE]
      BY <1>2, <2>5, <3>3 DEF Outs
    <3> QED
      BY <1>3, <3>2, <3>3, <3>4
  <2>6. task[q] # "pushing"
    BY <1>6 DEF WakeInv, Consistent
  <2> QED
    BY <1>0, <1>1, <1>4, <2>2, <2>3, <2>4, <2>5, <2>6 DEF HandlerSide
<1> QED
  BY <1>4, <1>5, <1>6

\* A coroutine shows its client what it was woken for.
LEMMA CoroutinesKeep ==
  ASSUME HandlerTypeOK, WakeInv, AnswerInv, NEW q \in Reqs, NEW r \in Reqs,
         Send(r) \/ Disconnect(r) \/ HandlerStep(r)
  PROVE  EngineSide(q)' /\ HandlerSide(q)'
<1>0. /\ EngineSide(q) /\ HandlerSide(q) /\ EngineSide(r) /\ HandlerSide(r) /\ Consistent(r)
      /\ place \in [Reqs -> Engines \cup {"nowhere", "redis", "finished"}] /\ task \in [Reqs -> Tasks]
      /\ shown \in [Reqs -> Outs] /\ event \in [Reqs -> BOOLEAN] /\ out_list \in [Reqs -> Seq(Outs)]
  BY DEF AnswerInv, WakeInv, HandlerTypeOK
<1>1. UNCHANGED <<attempt, ids, decode_status, recv_from_detokenizer, finished>>
  BY DEF Send, Disconnect, HandlerStep, Register, Wake, Resume, WaitTimesOut, Checked, CancelStream,
         AbortLater, engineVars, reqState
<1>2. CASE Send(r)
  <2>1. /\ task[r] = "idle" /\ task' = [task EXCEPT ![r] = "pushing"]
        /\ place' = [place EXCEPT ![r] = "redis"] /\ UNCHANGED <<event, out_list, shown>>
    BY <1>2 DEF Send, Goto, reqState
  <2>2. attempt[r] = 0 /\ ~finished[r]
    BY <1>0, <2>1 DEF HandlerSide
  <2>3. CASE q = r
    <3>1. task'[q] = "pushing" /\ place'[q] = "redis" /\ attempt'[q] = 0 /\ ~finished'[q]
      BY <1>0, <1>1, <2>1, <2>2, <2>3
    <3>2. \A e \in Engines : ~Known(e, q)'
      BY <1>0, <1>1, <2>2, <2>3 DEF EngineSide, Known, Sent
    <3> QED
      BY <3>1, <3>2 DEF EngineSide, HandlerSide
  <2>4. CASE q # r
    <3>1. place'[q] = place[q] /\ task'[q] = task[q]
      BY <1>0, <2>1, <2>4
    <3> QED
      BY <1>0, <1>1, <2>1, <3>1, OtherChannel, EngineSideKept, HandlerSideKept
  <2> QED
    BY <2>3, <2>4
<1>3. CASE ~Send(r)
  <2>0. UNCHANGED place
    BY <1>3 DEF Disconnect, HandlerStep, Register, Wake, Resume, WaitTimesOut, Checked, CancelStream,
                AbortLater, engineVars
  <2>1. EngineSide(q)'
    BY <1>0, <1>1, <2>0, OtherChannel, EngineSideKept
  <2>2. \A e \in Engines : Sent(e, q)' => Sent(e, q)
    BY <1>1 DEF Sent
  <2>3. CASE UNCHANGED <<task, event, out_list, shown>>
    BY <1>0, <1>1, <2>0, <2>1, <2>2, <2>3, HandlerSideKept
  <2>4. CASE Wake(r)
    <3>1. task[r] = "waiting" /\ event[r]
      BY <2>4 DEF Wake
    <3>2. CASE q # r
      <4>1. task'[q] = task[q] /\ event'[q] = event[q] /\ out_list'[q] = out_list[q] /\ shown'[q] = shown[q]
        BY <1>0, <2>4, <3>2 DEF Wake, Goto
      <4> QED
        BY <1>0, <1>1, <2>0, <2>1, <2>2, <4>1, HandlerSideKept
    <3>3. CASE q = r /\ finished[r]
      <4>1. task'[q] = "done" /\ shown'[q] = LastOut(q)
        BY <1>0, <2>4, <3>3 DEF Wake, Goto, Completes
      <4> QED
        BY <1>0, <1>1, <2>0, <2>1, <2>2, <3>1, <3>3, <4>1 DEF HandlerSide
    <3>4. CASE q = r /\ ~finished[r]
      <4>1. task'[q] = "yielded"
        BY <1>0, <2>4, <3>4 DEF Wake, Goto, Completes
      <4> QED
        BY <1>0, <1>1, <2>0, <2>1, <2>2, <3>1, <3>4, <4>1 DEF HandlerSide
    <3> QED
      BY <3>2, <3>3, <3>4
  <2>5. CASE Register(r) \/ Resume(r) \/ WaitTimesOut(r) \/ Checked(r) \/ CancelStream(r)
    <3>1. UNCHANGED <<event, out_list, shown>>
      BY <2>5 DEF Register, Resume, WaitTimesOut, Checked, CancelStream, AfterYield, reqState, clientVars
    <3>2. CASE q # r
      <4>1. task'[q] = task[q]
        BY <1>0, <2>5, <3>2 DEF Register, Resume, WaitTimesOut, Checked, CancelStream, Goto
      <4> QED
        BY <1>0, <1>1, <2>0, <2>1, <2>2, <3>1, <4>1, HandlerSideKept
    <3>3. CASE q = r /\ task[r] = "pushing"
      <4>1. ~finished[q] /\ task'[q] \in {"waiting", "cancelled"}
        BY <1>0, <2>5, <3>3 DEF Register, Resume, WaitTimesOut, Checked, CancelStream, Goto, HandlerSide
      <4> QED
        BY <1>0, <1>1, <2>0, <2>1, <2>2, <3>3, <4>1 DEF HandlerSide
    <3>4. CASE q = r /\ task[r] # "pushing"
      <4>1. /\ task[q] \in {"waiting", "checking", "yielded"} \/ task'[q] = "cancelled"
            /\ task'[q] \in {"waiting", "checking", "aborted", "cancelled"}
        BY <1>0, <2>5, <3>4 DEF Register, Resume, WaitTimesOut, Checked, CancelStream, Goto
      <4>2. LastOut(q)' = LastOut(q)
        BY <3>1 DEF LastOut
      <4> QED
        BY <1>0, <1>1, <2>0, <2>1, <2>2, <3>1, <4>1, <4>2 DEF HandlerSide
    <3> QED
      BY <3>2, <3>3, <3>4
  <2>6. CASE Disconnect(r) \/ AbortLater(r)
    BY <2>3, <2>6 DEF Disconnect, AbortLater, reqState, clientVars
  <2> QED
    BY <1>3, <2>3, <2>4, <2>5, <2>6 DEF HandlerStep
<1> QED
  BY <1>2, <1>3

\* Every step keeps the answers' invariant.
LEMMA AnswerStep ==
  ASSUME HandlerTypeOK, WakeInv, AnswerInv, [HandlerNext]_requestVars
  PROVE  AnswerInv'
<1> SUFFICES ASSUME NEW q \in Reqs PROVE EngineSide(q)' /\ HandlerSide(q)'
  BY DEF AnswerInv
<1>1. CASE UNCHANGED requestVars
  <2>1. EngineSide(q) /\ HandlerSide(q)
    BY DEF AnswerInv
  <2>2. UNCHANGED <<place, attempt, ids, decode_status, recv_from_detokenizer, task, finished, event,
                    out_list, shown>>
    BY <1>1 DEF requestVars, handlerVars, engineVars, clientVars, reqState
  <2>3. \A e \in Engines : (Sent(e, q)' => Sent(e, q)) /\ (LastIsWhole(e, q) => LastIsWhole(e, q)')
    BY <2>2, OtherChannel
  <2> QED
    BY <2>1, <2>2, <2>3, EngineSideKept, HandlerSideKept
<1> QED
  BY <1>1, EnginesKeep, OutputKeeps, CoroutinesKeep DEF HandlerNext

\* It holds at first, with nothing asked.
LEMMA AnswerStarts == HandlerInit => AnswerInv
<1> SUFFICES ASSUME HandlerInit, NEW q \in Reqs PROVE EngineSide(q) /\ HandlerSide(q)
  BY DEF AnswerInv
<1>1. attempt[q] = 0 /\ place[q] = "nowhere" /\ ~finished[q] /\ task[q] = "idle"
  BY DEF HandlerInit
<1>2. \A e \in Engines : recv_from_detokenizer[e] = <<>> /\ decode_status[e] = <<>>
  BY DEF HandlerInit, DetokenizerInit
<1>3. DOMAIN <<>> = {}
  OBVIOUS
<1>4. \A e \in Engines : ~Known(e, q)
  BY <1>2, <1>3 DEF Known, Sent
<1> QED
  BY <1>1, <1>4 DEF EngineSide, HandlerSide

\* The client of a request that no engine has started twice is shown all its
\* tokens, however they were cut into chunks, decoded again and overtaken by
\* timeouts (_wait_for_response, DetokenizerManager.event_loop).
THEOREM AnswersAreWhole == HandlerSpec => []AnswerIsWhole
<1>1. AnswerInv => AnswerIsWhole
  BY DEF AnswerInv, HandlerSide, AnswerIsWhole
<1>2. (HandlerTypeOK /\ WakeInv) /\ AnswerInv /\ [HandlerNext]_requestVars => AnswerInv'
  BY AnswerStep
<1> QED
  BY <1>1, <1>2, AnswerStarts, HandlerHolds, PTL DEF HandlerSpec
-------------------------------------------------------------------------------
(***************************************************************************)
(* Proofs about ModelQueueTracker, for any set of requests and warmups and *)
(* any number of engines.  What makes the invariants inductive is what the *)
(* channels can hold: an engine retracts a request only behind a run of it *)
(* in its own channel, and the handler reports a request finished only     *)
(* behind its announcement.                                                *)
(***************************************************************************)
Listed == {"waiting", "running", "preempted"}

\* The lists agree with the state of every request the tracker does not know to
\* be a warmup.
ListInv ==
  \A r \in TrackedReqs :
    /\ is_warmup[r] => r \in Warmups
    /\ ~is_warmup[r] =>
         /\ running_reqs[r] = (IF state[r] = "running" THEN 1 ELSE 0)
         /\ waiting_reqs[r] = (IF state[r] \in {"waiting", "preempted"} THEN 1 ELSE 0)

\* The tracker knows r once it has read the first n messages of engine e.
KnownBy(e, r, n) ==
  \/ state[r] # "unknown"
  \/ \E j \in 1 .. n : from_engine[e][j].type = "run" /\ from_engine[e][j].rid = r

\* An engine retracts only what it has run, and one engine runs a request.
RetractsBehindRuns ==
  \A e \in TrackedEngines : \A i \in 1 .. Len(from_engine[e]) :
    from_engine[e][i].type = "retract" => KnownBy(e, from_engine[e][i].rid, i - 1)
RunsAreTold ==
  \A e \in TrackedEngines : \A r \in runs[e] :
    phase[r] = "running" /\ KnownBy(e, r, Len(from_engine[e]))
OneEngineRuns ==
  \A e, f \in TrackedEngines : \A r \in TrackedReqs : r \in runs[e] /\ r \in runs[f] => e = f

EngineInv == RetractsBehindRuns /\ RunsAreTold /\ OneEngineRuns

\* The handler's messages about a request: an announcement, then perhaps a finish.
FinishesAreTrue ==
  /\ \A i \in 1 .. Len(from_handler) :
       /\ from_handler[i].rid \in announced
       /\ from_handler[i].type = "finish" => phase[from_handler[i].rid] = "answered"
  /\ \A r \in TrackedReqs : phase[r] = "answered" => r \in announced
FinishBehindGenerate ==
  \A i, j \in 1 .. Len(from_handler) :
    i < j /\ from_handler[i].rid = from_handler[j].rid =>
      from_handler[i].type = "generate" /\ from_handler[j].type = "finish"
AnswersAreTold ==
  \A i \in 1 .. Len(from_handler) :
    phase[from_handler[i].rid] = "answered" =>
      \E j \in 1 .. Len(from_handler) :
        from_handler[j].type = "finish" /\ from_handler[j].rid = from_handler[i].rid
ReadUpToDate ==
  \A r \in announced \ Warmups :
    \/ \E i \in 1 .. Len(from_handler) : from_handler[i].rid = r
    \/ phase[r] # "answered" /\ state[r] \in Listed
    \/ phase[r] = "answered" /\ state[r] = "finished"

HandlerInv == FinishesAreTrue /\ FinishBehindGenerate /\ AnswersAreTold /\ ReadUpToDate

TrackerInv == TrackerTypeOK /\ NeverRaises /\ ListInv /\ EngineInv /\ HandlerInv
-------------------------------------------------------------------------------
(* Sequences *)

\* Appending a message keeps the ones before it where they are.
LEMMA AppendFacts ==
  ASSUME NEW S, NEW q \in Seq(S), NEW x \in S
  PROVE  /\ Append(q, x) \in Seq(S)
         /\ Len(q) \in Nat
         /\ Len(Append(q, x)) = Len(q) + 1
         /\ \A i \in 1 .. Len(q) : Append(q, x)[i] = q[i]
         /\ Append(q, x)[Len(q) + 1] = x
  OBVIOUS

\* Reading a message moves the others up by one.
LEMMA TailFacts ==
  ASSUME NEW S, NEW q \in Seq(S), q # <<>>
  PROVE  /\ Tail(q) \in Seq(S)
         /\ Len(q) \in Nat \ {0}
         /\ Len(Tail(q)) = Len(q) - 1
         /\ \A i \in 1 .. Len(q) - 1 : Tail(q)[i] = q[i + 1]
         /\ Head(q) = q[1]
         /\ q[1] \in S
  OBVIOUS

\* In the initial state every channel and list is empty.
LEMMA InitTracker == TrackerInit => TrackerInv
<1> SUFFICES ASSUME TrackerInit PROVE TrackerInv
  OBVIOUS
<1>1. TrackerTypeOK
  <2>1. <<>> \in Seq(HandlerMsgs) /\ <<>> \in Seq(EngineMsgs)
    OBVIOUS
  <2>2. is_warmup \in [TrackedReqs -> BOOLEAN] /\ raised \in BOOLEAN
    BY Zenon DEF TrackerInit
  <2> QED BY <2>1, <2>2 DEF TrackerInit, TrackerTypeOK
<1>2. NeverRaises
  BY DEF TrackerInit, NeverRaises
<1>3. ListInv
  BY DEF TrackerInit, ListInv
<1>4. EngineInv
  <2>1. \A e \in TrackedEngines : Len(from_engine[e]) = 0 /\ runs[e] = {}
    BY DEF TrackerInit
  <2> QED BY <2>1 DEF EngineInv, RetractsBehindRuns, RunsAreTold, OneEngineRuns
<1>5. HandlerInv
  <2>1. /\ Len(from_handler) = 0 /\ announced = {}
        /\ \A r \in TrackedReqs : phase[r] # "answered"
    BY DEF TrackerInit
  <2> QED BY <2>1 DEF HandlerInv, FinishesAreTrue, FinishBehindGenerate, AnswersAreTold, ReadUpToDate
<1> QED BY <1>1, <1>2, <1>3, <1>4, <1>5 DEF TrackerInv
-------------------------------------------------------------------------------
(* The handlers of the tracker, each for one request *)

ListsTyped ==
  /\ state \in [TrackedReqs -> {"unknown", "waiting", "running", "preempted", "finished"}]
  /\ is_warmup \in [TrackedReqs -> BOOLEAN]
  /\ start_running_time \in [TrackedReqs -> Nat]
  /\ preempted_time \in [TrackedReqs -> Nat]
  /\ waiting_reqs \in [TrackedReqs -> Nat]
  /\ running_reqs \in [TrackedReqs -> Nat]
  /\ raised \in BOOLEAN

\* What each handler keeps: the lists agree with the states, nothing is raised,
\* no other request changes, and no request is forgotten.
HandlerKeeps(r) ==
  /\ ListsTyped' /\ NeverRaises' /\ ListInv'
  /\ \A s \in TrackedReqs \ {r} : state'[s] = state[s]
  /\ state[r] # "unknown" => state'[r] # "unknown"

\* An announcement puts a request that is not a warmup into a list.
LEMMA EnqueueEffect ==
  ASSUME ListsTyped, NeverRaises, ListInv, NEW r \in TrackedReqs, EnqueueReq(r)
  PROVE  /\ HandlerKeeps(r)
         /\ r \notin Warmups => state'[r] \in Listed
<1>1. /\ is_warmup' \in [TrackedReqs -> BOOLEAN]
      /\ is_warmup'[r] <=> r \in Warmups
      /\ \A s \in TrackedReqs \ {r} : is_warmup'[s] = is_warmup[s]
  <2>1. is_warmup' = [is_warmup EXCEPT ![r] = r \in Warmups]
    BY DEF EnqueueReq
  <2>2. is_warmup \in [TrackedReqs -> BOOLEAN]
    BY DEF ListsTyped
  <2>3. (r \in Warmups) \in BOOLEAN
    OBVIOUS
  <2>4. is_warmup'[r] <=> r \in Warmups
    BY <2>1, <2>2, Zenon
  <2>5. \A s \in TrackedReqs \ {r} : is_warmup'[s] = is_warmup[s]
    BY <2>1, <2>2, Zenon
  <2>6. is_warmup' \in [TrackedReqs -> BOOLEAN]
    BY <2>1, <2>2, <2>3, Zenon
  <2> QED BY <2>4, <2>5, <2>6
<1>2. CASE IsNew(r)
  <2>1. /\ state' = [state EXCEPT ![r] = "waiting"]
        /\ start_running_time' = [start_running_time EXCEPT ![r] = 0]
        /\ preempted_time' = [preempted_time EXCEPT ![r] = 0]
        /\ waiting_reqs' = [waiting_reqs EXCEPT ![r] = IF r \in Warmups THEN @ ELSE @ + 1]
        /\ running_reqs' = running_reqs /\ raised' = raised
    BY <1>2 DEF EnqueueReq
  <2>2. ListsTyped' /\ NeverRaises'
    BY <1>1, <2>1 DEF ListsTyped, NeverRaises
  <2>3. ListInv'
    BY <1>1, <1>2, <2>1 DEF ListsTyped, ListInv, IsNew
  <2> QED BY <2>1, <2>2, <2>3 DEF ListsTyped, HandlerKeeps, Listed
<1>3. CASE ~IsNew(r)
  <2>1. /\ running_reqs' = [running_reqs EXCEPT ![r] = IF DropsWarmup(r) THEN @ - 1 ELSE @]
        /\ UNCHANGED <<state, start_running_time, preempted_time, waiting_reqs, raised>>
    BY <1>3 DEF EnqueueReq
  <2>2. ListsTyped' /\ NeverRaises'
    BY <1>1, <2>1 DEF ListsTyped, NeverRaises, DropsWarmup
  <2>3. ListInv'
    BY <1>1, <2>1 DEF ListsTyped, ListInv, DropsWarmup
  <2> QED BY <1>3, <2>1, <2>2, <2>3 DEF ListsTyped, HandlerKeeps, Listed, IsNew
<1> QED BY <1>2, <1>3

\* A finish takes a request that is not a warmup out of both lists.
LEMMA FinishEffect ==
  ASSUME ListsTyped, NeverRaises, ListInv, NEW r \in TrackedReqs, FinishReq(r)
  PROVE  /\ HandlerKeeps(r)
         /\ r \notin Warmups => state'[r] = "finished"
  BY DEF ListsTyped, NeverRaises, ListInv, FinishReq, Queued, HandlerKeeps

\* A run makes the request known, leaves a listed one in a list and a finished
\* one alone.
LEMMA StartEffect ==
  ASSUME ListsTyped, NeverRaises, ListInv, NEW r \in TrackedReqs, NEW t \in Nat,
         StartRunningReq(r, t)
  PROVE  /\ HandlerKeeps(r)
         /\ state'[r] # "unknown"
         /\ state[r] \in Listed => state'[r] \in Listed
         /\ state[r] = "finished" => state'[r] = "finished"
  BY DEF ListsTyped, NeverRaises, ListInv, StartRunningReq, Starts, Unknown, HandlerKeeps, Listed

\* So does a retraction of a request the tracker knows.
LEMMA PreemptEffect ==
  ASSUME ListsTyped, NeverRaises, ListInv, NEW r \in TrackedReqs, NEW t \in Nat,
         PreemptReq(r, t), state[r] # "unknown"
  PROVE  /\ HandlerKeeps(r)
         /\ state[r] \in Listed => state'[r] \in Listed
         /\ state[r] = "finished" => state'[r] = "finished"
  BY DEF ListsTyped, NeverRaises, ListInv, PreemptReq, HandlerKeeps, Listed
-------------------------------------------------------------------------------
(* The world *)

\* A message an engine sends leaves what its channel held before in place.
LEMMA TellEffect ==
  ASSUME TrackerTypeOK, NEW e \in TrackedEngines, NEW r \in TrackedReqs, NEW type \in {"run", "retract"},
         Tell(e, type, r), UNCHANGED state
  PROVE  /\ clock' \in [TrackedReqs -> Nat]
         /\ from_engine' \in [TrackedEngines -> Seq(EngineMsgs)]
         /\ \A f \in TrackedEngines \ {e} : from_engine'[f] = from_engine[f]
         /\ Len(from_engine'[e]) = Len(from_engine[e]) + 1
         /\ Len(from_engine[e]) \in Nat
         /\ \A i \in 1 .. Len(from_engine[e]) : from_engine'[e][i] = from_engine[e][i]
         /\ from_engine'[e][Len(from_engine[e]) + 1].type = type
         /\ from_engine'[e][Len(from_engine[e]) + 1].rid = r
<1> DEFINE msg == [type |-> type, rid |-> r, time |-> clock[r] + 1]
           q == from_engine[e]
<1>1. clock[r] \in Nat /\ q \in Seq(EngineMsgs) /\ from_engine \in [TrackedEngines -> Seq(EngineMsgs)]
  BY DEF TrackerTypeOK
<1>2. msg \in EngineMsgs
  BY <1>1 DEF EngineMsgs
<1>3. clock' \in [TrackedReqs -> Nat] /\ from_engine' = [from_engine EXCEPT ![e] = Append(q, msg)]
  BY <1>1 DEF TrackerTypeOK, Tell
<1>4. /\ Append(q, msg) \in Seq(EngineMsgs)
      /\ Len(q) \in Nat /\ Len(Append(q, msg)) = Len(q) + 1
      /\ \A i \in 1 .. Len(q) : Append(q, msg)[i] = q[i]
      /\ Append(q, msg)[Len(q) + 1] = msg
  <2> HIDE DEF msg, q
  <2> QED BY <1>1, <1>2, AppendFacts
<1>5. from_engine'[e] = Append(q, msg)
  BY <1>1, <1>3
<1>6. msg.type = type /\ msg.rid = r
  OBVIOUS
<1> HIDE DEF msg
<1> QED BY <1>1, <1>3, <1>4, <1>5, <1>6

\* So the tracker will know what it would have known, and what the message tells.
LEMMA TellKnows ==
  ASSUME TrackerTypeOK, EngineInv, NEW e \in TrackedEngines, NEW r \in TrackedReqs,
         NEW type \in {"run", "retract"}, Tell(e, type, r), UNCHANGED state,
         type = "retract" => KnownBy(e, r, Len(from_engine[e]))
  PROVE  /\ RetractsBehindRuns'
         /\ \A f \in TrackedEngines, s \in TrackedReqs :
              KnownBy(f, s, Len(from_engine[f])) => KnownBy(f, s, Len(from_engine[f]))'
         /\ type = "run" => KnownBy(e, r, Len(from_engine[e]))'
<1> DEFINE n(f) == Len(from_engine[f])
<1>1. /\ \A f \in TrackedEngines \ {e} : from_engine'[f] = from_engine[f]
      /\ Len(from_engine'[e]) = n(e) + 1
      /\ \A i \in 1 .. n(e) : from_engine'[e][i] = from_engine[e][i]
      /\ from_engine'[e][n(e) + 1].type = type
      /\ from_engine'[e][n(e) + 1].rid = r
  BY TellEffect
<1>2. \A f \in TrackedEngines : n(f) \in Nat
  BY DEF TrackerTypeOK
<1>3. ASSUME NEW f \in TrackedEngines, NEW s \in TrackedReqs, NEW k \in 0 .. n(f), KnownBy(f, s, k)
      PROVE  \A l \in Nat : l >= k => KnownBy(f, s, l)'
  BY <1>1, <1>2, <1>3 DEF KnownBy
<1>4. RetractsBehindRuns'
  <2> SUFFICES ASSUME NEW f \in TrackedEngines, NEW i \in 1 .. Len(from_engine'[f]),
                      from_engine'[f][i].type = "retract"
               PROVE  KnownBy(f, from_engine[f][i].rid, i - 1)'
    BY DEF RetractsBehindRuns
  <2>1. CASE i \in 1 .. n(f)
    <3>1. from_engine'[f][i] = from_engine[f][i]
      BY <1>1, <2>1
    <3>2. PICK s \in TrackedReqs : s = from_engine[f][i].rid
      <4>1. from_engine[f] \in Seq(EngineMsgs)
        BY DEF TrackerTypeOK
      <4>2. from_engine[f][i] \in EngineMsgs
        BY <2>1, <4>1
      <4> QED BY <4>2 DEF EngineMsgs
    <3>3. KnownBy(f, s, i - 1) /\ i - 1 \in 0 .. n(f) /\ i - 1 \in Nat
      BY <1>2, <2>1, <3>1, <3>2 DEF EngineInv, RetractsBehindRuns
    <3>4. KnownBy(f, s, i - 1)'
      BY <1>3, <3>3
    <3> QED BY <3>1, <3>2, <3>4 DEF KnownBy
  <2>2. CASE i \notin 1 .. n(f)
    <3>1. f = e /\ i = n(e) + 1
      BY <1>1, <1>2, <2>2
    <3>2. type = "retract" /\ from_engine'[e][i].rid = r
      BY <1>1, <3>1
    <3>3. KnownBy(e, r, n(e))
      BY <3>2
    <3> QED BY <1>1, <1>2, <3>1, <3>2, <3>3 DEF KnownBy
  <2> QED BY <2>1, <2>2
<1>5. ASSUME NEW f \in TrackedEngines, NEW s \in TrackedReqs, KnownBy(f, s, n(f))
      PROVE  KnownBy(f, s, n(f))'
  BY <1>1, <1>2, <1>5 DEF KnownBy
<1>6. type = "run" => KnownBy(e, r, n(e))'
  BY <1>1, <1>2 DEF KnownBy
<1> QED BY <1>4, <1>5, <1>6

\* Every message of the handler's channel is about a request.
LEMMA HandlerMsgFacts ==
  ASSUME TrackerTypeOK, NEW i \in 1 .. Len(from_handler)
  PROVE  from_handler[i].rid \in TrackedReqs /\ from_handler[i].type \in {"generate", "finish"}
<1>1. from_handler \in Seq(HandlerMsgs)
  BY DEF TrackerTypeOK
<1>2. from_handler[i] \in HandlerMsgs
  BY <1>1
<1> QED BY <1>2 DEF HandlerMsgs

\* Nothing changes for the handler's channel while no request is answered.
LEMMA HandlerUnmoved ==
  ASSUME TrackerTypeOK, HandlerInv, UNCHANGED <<from_handler, announced, state>>,
         \A s \in TrackedReqs : phase'[s] = "answered" <=> phase[s] = "answered"
  PROVE  HandlerInv'
<1>1. \A i \in 1 .. Len(from_handler) : from_handler[i].rid \in TrackedReqs
  BY HandlerMsgFacts
<1>2. announced \subseteq TrackedReqs
  BY DEF TrackerTypeOK
<1> QED
  BY <1>1, <1>2 DEF HandlerInv, FinishesAreTrue, FinishBehindGenerate, AnswersAreTold, ReadUpToDate

\* Nor for the tracker while no message is read.
LEMMA TrackerUnmoved ==
  ASSUME NeverRaises, ListInv, UNCHANGED trackerVars
  PROVE  NeverRaises' /\ ListInv'
  BY DEF NeverRaises, ListInv, trackerVars

\* Push preserves the invariant.
LEMMA PushStep == ASSUME TrackerInv, NEW r \in TrackedReqs, Push(r) PROVE TrackerInv'
<1> USE DEF TrackerInv
<1>1. TrackerTypeOK'
  BY DEF TrackerTypeOK, Push, trackerVars
<1>2. phase' = [phase EXCEPT ![r] = "waiting"] /\ phase[r] = "new" /\ DOMAIN phase = TrackedReqs
  BY DEF Push, TrackerTypeOK
<1>3. EngineInv'
  <2>0. UNCHANGED <<runs, from_engine, state>> /\ \A e \in TrackedEngines : runs[e] \subseteq TrackedReqs
    BY DEF Push, trackerVars, TrackerTypeOK
  <2>1. RetractsBehindRuns' /\ OneEngineRuns'
    BY <2>0 DEF EngineInv, RetractsBehindRuns, OneEngineRuns, KnownBy
  <2>2. RunsAreTold'
    BY <1>2, <2>0 DEF EngineInv, RunsAreTold, KnownBy
  <2> QED BY <2>1, <2>2 DEF EngineInv
<1>4. HandlerInv'
  BY <1>2, HandlerUnmoved DEF Push, trackerVars
<1> QED BY <1>1, <1>3, <1>4, TrackerUnmoved DEF Push

\* Run preserves the invariant.
LEMMA RunStep ==
  ASSUME TrackerInv, NEW e \in TrackedEngines, NEW r \in TrackedReqs, Run(e, r) PROVE TrackerInv'
<1> USE DEF TrackerInv
<1>0. UNCHANGED <<announced, from_handler, trackerVars, state>> /\ Tell(e, "run", r)
  BY DEF Run, trackerVars
<1>1. /\ phase' = [phase EXCEPT ![r] = "running"] /\ phase[r] = "waiting"
      /\ runs' = [runs EXCEPT ![e] = @ \cup {r}]
      /\ DOMAIN phase = TrackedReqs /\ runs \in [TrackedEngines -> SUBSET TrackedReqs]
  BY DEF Run, TrackerTypeOK
<1>2. TrackerTypeOK'
  <2>1. phase' \in [TrackedReqs -> {"new", "waiting", "running", "answered"}]
    BY <1>1 DEF TrackerTypeOK
  <2>2. runs' \in [TrackedEngines -> SUBSET TrackedReqs]
    BY <1>1
  <2>3. clock' \in [TrackedReqs -> Nat] /\ from_engine' \in [TrackedEngines -> Seq(EngineMsgs)]
    BY <1>0, TellEffect
  <2>4. ran_on' \in [TrackedReqs -> SUBSET TrackedEngines]
    BY DEF Run, TrackerTypeOK
  <2> QED
    BY <1>0, <2>1, <2>2, <2>3, <2>4 DEF TrackerTypeOK, trackerVars
<1>3. EngineInv'
  <2>1. /\ RetractsBehindRuns'
        /\ \A f \in TrackedEngines, s \in TrackedReqs :
             KnownBy(f, s, Len(from_engine[f])) => KnownBy(f, s, Len(from_engine[f]))'
        /\ KnownBy(e, r, Len(from_engine[e]))'
    BY <1>0, TellKnows
  <2>2. RunsAreTold'
    <3> SUFFICES ASSUME NEW f \in TrackedEngines, NEW s \in runs'[f]
                 PROVE  phase'[s] = "running" /\ KnownBy(f, s, Len(from_engine[f]))'
      BY DEF RunsAreTold
    <3>1. CASE s \in runs[f]
      BY <1>1, <2>1, <3>1 DEF EngineInv, RunsAreTold
    <3>2. CASE s \notin runs[f]
      <4>1. f = e /\ s = r
        BY <1>1, <3>2
      <4> QED BY <1>1, <2>1, <4>1
    <3> QED BY <3>1, <3>2
  <2>3. OneEngineRuns'
    BY <1>1 DEF EngineInv, RunsAreTold, OneEngineRuns
  <2> QED BY <2>1, <2>2, <2>3 DEF EngineInv
<1>4. HandlerInv'
  BY <1>0, <1>1, HandlerUnmoved
<1> QED BY <1>0, <1>2, <1>3, <1>4, TrackerUnmoved

\* RetractRun preserves the invariant.
LEMMA RetractStep ==
  ASSUME TrackerInv, NEW e \in TrackedEngines, NEW r \in TrackedReqs, RetractRun(e, r) PROVE TrackerInv'
<1> USE DEF TrackerInv
<1>0. UNCHANGED <<ran_on, announced, from_handler, trackerVars, state>> /\ Tell(e, "retract", r)
  BY DEF RetractRun, trackerVars
<1>1. /\ phase' = [phase EXCEPT ![r] = "waiting"] /\ r \in runs[e]
      /\ runs' = [runs EXCEPT ![e] = @ \ {r}]
      /\ DOMAIN phase = TrackedReqs /\ runs \in [TrackedEngines -> SUBSET TrackedReqs]
  BY DEF RetractRun, TrackerTypeOK
<1>2. TrackerTypeOK'
  BY <1>0, <1>1, TellEffect DEF TrackerTypeOK, trackerVars
<1>3. phase[r] = "running" /\ KnownBy(e, r, Len(from_engine[e]))
  BY <1>1 DEF EngineInv, RunsAreTold
<1>4. EngineInv'
  <2>1. /\ RetractsBehindRuns'
        /\ \A f \in TrackedEngines, s \in TrackedReqs :
             KnownBy(f, s, Len(from_engine[f])) => KnownBy(f, s, Len(from_engine[f]))'
    BY <1>0, <1>3, TellKnows
  <2>2. RunsAreTold'
    BY <1>1, <2>1 DEF EngineInv, RunsAreTold, OneEngineRuns
  <2>3. OneEngineRuns'
    BY <1>1 DEF EngineInv, OneEngineRuns
  <2> QED BY <2>1, <2>2, <2>3 DEF EngineInv
<1>5. HandlerInv'
  BY <1>0, <1>1, <1>3, HandlerUnmoved
<1> QED BY <1>0, <1>2, <1>4, <1>5, TrackerUnmoved

\* A message of the handler goes behind those of its channel.
LEMMA SendEffect ==
  ASSUME TrackerTypeOK, NEW msg \in HandlerMsgs, from_handler' = Append(from_handler, msg)
  PROVE  /\ from_handler' \in Seq(HandlerMsgs)
         /\ Len(from_handler) \in Nat
         /\ Len(from_handler') = Len(from_handler) + 1
         /\ \A i \in 1 .. Len(from_handler) : from_handler'[i] = from_handler[i]
         /\ from_handler'[Len(from_handler) + 1] = msg
  BY AppendFacts DEF TrackerTypeOK

\* Announce preserves the invariant: nothing of r is in the channel yet.
LEMMA AnnounceStep == ASSUME TrackerInv, NEW r \in TrackedReqs, Announce(r) PROVE TrackerInv'
<1> USE DEF TrackerInv
<1> DEFINE msg == [type |-> "generate", rid |-> r]
           n == Len(from_handler)
<1>1. /\ r \notin announced /\ announced' = announced \cup {r}
      /\ UNCHANGED <<phase, runs, ran_on, clock, from_engine, trackerVars>>
      /\ from_handler' = Append(from_handler, msg) /\ msg \in HandlerMsgs
      /\ msg.type = "generate" /\ msg.rid = r
  BY DEF Announce, HandlerMsgs
<1>2. /\ from_handler' \in Seq(HandlerMsgs)
      /\ n \in Nat /\ Len(from_handler') = n + 1
      /\ \A i \in 1 .. n : from_handler'[i] = from_handler[i]
      /\ from_handler'[n + 1] = msg
  <2> HIDE DEF msg
  <2> QED BY <1>1, SendEffect
<1>3. TrackerTypeOK'
  BY <1>1, <1>2 DEF TrackerTypeOK, trackerVars
<1>4. EngineInv'
  BY <1>1 DEF EngineInv, RetractsBehindRuns, RunsAreTold, OneEngineRuns, KnownBy, trackerVars
<1>5. \A i \in 1 .. n : from_handler[i].rid # r /\ from_handler[i].rid \in announced
  BY <1>1 DEF HandlerInv, FinishesAreTrue
<1>6. phase[r] # "answered"
  BY <1>1 DEF HandlerInv, FinishesAreTrue
<1>7. HandlerInv'
  <2> HIDE DEF msg
  <2>1. FinishesAreTrue'
    BY <1>1, <1>2 DEF HandlerInv, FinishesAreTrue
  <2>2. FinishBehindGenerate'
    BY <1>1, <1>2, <1>5 DEF HandlerInv, FinishBehindGenerate
  <2>3. AnswersAreTold'
    BY <1>1, <1>2, <1>6 DEF HandlerInv, AnswersAreTold
  <2>4. ReadUpToDate'
    BY <1>1, <1>2 DEF HandlerInv, ReadUpToDate, trackerVars
  <2> QED BY <2>1, <2>2, <2>3, <2>4 DEF HandlerInv
<1> QED BY <1>1, <1>3, <1>4, <1>7, TrackerUnmoved

\* Answer preserves the invariant: only the announcement of r can be in the channel.
LEMMA TrackedAnswerStep == ASSUME TrackerInv, NEW r \in TrackedReqs, Answer(r) PROVE TrackerInv'
<1> USE DEF TrackerInv
<1> DEFINE msg == [type |-> "finish", rid |-> r]
           n == Len(from_handler)
<1>1. /\ phase[r] = "running" /\ r \in announced
      /\ UNCHANGED <<ran_on, announced, clock, from_engine, trackerVars>>
      /\ from_handler' = Append(from_handler, msg) /\ msg \in HandlerMsgs
      /\ msg.type = "finish" /\ msg.rid = r
  BY DEF Answer, HandlerMsgs
<1>2. /\ from_handler' \in Seq(HandlerMsgs)
      /\ n \in Nat /\ Len(from_handler') = n + 1
      /\ \A i \in 1 .. n : from_handler'[i] = from_handler[i]
      /\ from_handler'[n + 1] = msg
  <2> HIDE DEF msg
  <2> QED BY <1>1, SendEffect
<1>3. /\ phase' = [phase EXCEPT ![r] = "answered"] /\ DOMAIN phase = TrackedReqs
      /\ runs' = [f \in TrackedEngines |-> runs[f] \ {r}]
  BY DEF Answer, TrackerTypeOK
<1>4. TrackerTypeOK'
  BY <1>1, <1>2, <1>3 DEF TrackerTypeOK, trackerVars
<1>5. EngineInv'
  BY <1>1, <1>3 DEF TrackerTypeOK, EngineInv, RetractsBehindRuns, RunsAreTold, OneEngineRuns, KnownBy, trackerVars
<1>6. \A i \in 1 .. n : /\ from_handler[i].rid \in TrackedReqs
                        /\ from_handler[i].rid = r => from_handler[i].type = "generate"
  BY <1>1, HandlerMsgFacts DEF HandlerInv, FinishesAreTrue
<1>7. HandlerInv'
  <2> HIDE DEF msg
  <2>1. FinishesAreTrue'
    BY <1>1, <1>2, <1>3, <1>6 DEF HandlerInv, FinishesAreTrue
  <2>2. FinishBehindGenerate'
    BY <1>1, <1>2, <1>6 DEF HandlerInv, FinishBehindGenerate
  <2>3. AnswersAreTold'
    BY <1>1, <1>2, <1>3, <1>6 DEF HandlerInv, AnswersAreTold
  <2>4. ReadUpToDate'
    <3>1. announced' = announced /\ state' = state /\ announced \subseteq TrackedReqs
      BY <1>1 DEF TrackerTypeOK, trackerVars
    <3> SUFFICES ASSUME NEW s \in announced \ Warmups
                 PROVE  \/ \E i \in 1 .. Len(from_handler') : from_handler'[i].rid = s
                        \/ phase'[s] # "answered" /\ state[s] \in Listed
                        \/ phase'[s] = "answered" /\ state[s] = "finished"
      BY <3>1 DEF ReadUpToDate
    <3>2. CASE s = r
      BY <1>1, <1>2, <3>2
    <3>3. CASE s # r
      <4>1. phase'[s] = phase[s]
        BY <1>3, <3>3
      <4>2. \/ \E i \in 1 .. n : from_handler[i].rid = s
            \/ phase[s] # "answered" /\ state[s] \in Listed
            \/ phase[s] = "answered" /\ state[s] = "finished"
        BY DEF HandlerInv, ReadUpToDate
      <4> QED
        BY <1>2, <4>1, <4>2
    <3> QED
      BY <3>2, <3>3
  <2> QED BY <2>1, <2>2, <2>3, <2>4 DEF HandlerInv
<1> QED BY <1>1, <1>4, <1>5, <1>7, TrackerUnmoved
-------------------------------------------------------------------------------
(* The tracker reads *)

\* What a handler keeps of the engines' side: more is known than before.
LEMMA EngineStillKnown ==
  ASSUME TrackerTypeOK, EngineInv, NEW r \in TrackedReqs, HandlerKeeps(r),
         UNCHANGED <<phase, runs, from_engine>>
  PROVE  EngineInv'
<1>1. \A s \in TrackedReqs : state[s] # "unknown" => state'[s] # "unknown"
  BY DEF HandlerKeeps
<1>2. \A e \in TrackedEngines : \A i \in 1 .. Len(from_engine[e]) : from_engine[e][i].rid \in TrackedReqs
  <2> SUFFICES ASSUME NEW e \in TrackedEngines, NEW i \in 1 .. Len(from_engine[e])
               PROVE  from_engine[e][i].rid \in TrackedReqs
    OBVIOUS
  <2>1. from_engine[e] \in Seq(EngineMsgs)
    BY DEF TrackerTypeOK
  <2>2. from_engine[e][i] \in EngineMsgs
    BY <2>1
  <2> QED BY <2>2 DEF EngineMsgs
<1>3. \A e \in TrackedEngines : runs[e] \subseteq TrackedReqs
  BY DEF TrackerTypeOK
<1> QED
  BY <1>1, <1>2, <1>3 DEF EngineInv, RetractsBehindRuns, RunsAreTold, OneEngineRuns, KnownBy

\* RecvFromHandler preserves the invariant.
LEMMA TrackedHandlerStep == ASSUME TrackerInv, RecvFromHandler PROVE TrackerInv'
<1> USE DEF TrackerInv
<1> DEFINE n == Len(from_handler)
           r == from_handler[1].rid
<1>1. /\ from_handler' = Tail(from_handler) /\ from_handler # <<>>
      /\ UNCHANGED <<phase, runs, ran_on, announced, clock, from_engine>>
      /\ from_handler \in Seq(HandlerMsgs)
  BY DEF RecvFromHandler, TrackerTypeOK
<1>2. /\ from_handler' \in Seq(HandlerMsgs) /\ n \in Nat \ {0} /\ Len(from_handler') = n - 1
      /\ \A i \in 1 .. n - 1 : from_handler'[i] = from_handler[i + 1]
      /\ Head(from_handler) = from_handler[1]
  BY <1>1, TailFacts
<1>3. r \in TrackedReqs /\ \A i \in 1 .. n : from_handler[i].rid \in TrackedReqs
  BY <1>2, HandlerMsgFacts
<1>4. ListsTyped
  BY DEF ListsTyped, TrackerTypeOK
<1>5. /\ HandlerKeeps(r)
      /\ \/ /\ from_handler[1].type = "generate"
            /\ r \notin Warmups => state'[r] \in Listed
         \/ /\ from_handler[1].type = "finish"
            /\ r \notin Warmups => state'[r] = "finished"
  <2> HIDE DEF r
  <2>1. CASE from_handler[1].type = "generate" /\ EnqueueReq(r)
    BY <1>3, <1>4, <2>1, EnqueueEffect
  <2>2. CASE from_handler[1].type = "finish" /\ FinishReq(r)
    BY <1>3, <1>4, <2>2, FinishEffect
  <2> QED BY <1>2, <2>1, <2>2 DEF RecvFromHandler, r
<1>6. TrackerTypeOK'
  BY <1>1, <1>2, <1>5 DEF ListsTyped, TrackerTypeOK, HandlerKeeps
<1>7. EngineInv'
  <2> HIDE DEF r
  <2> QED BY <1>1, <1>3, <1>5, EngineStillKnown
<1>8. FinishesAreTrue'
  BY <1>1, <1>2 DEF HandlerInv, FinishesAreTrue
<1>9. FinishBehindGenerate'
  BY <1>1, <1>2 DEF HandlerInv, FinishBehindGenerate
<1>10. AnswersAreTold'
  <2> SUFFICES ASSUME NEW i \in 1 .. n - 1, phase[from_handler[i + 1].rid] = "answered"
               PROVE  \E j \in 1 .. n - 1 : /\ from_handler[j + 1].type = "finish"
                                            /\ from_handler[j + 1].rid = from_handler[i + 1].rid
    BY <1>1, <1>2 DEF AnswersAreTold
  <2>1. PICK j \in 1 .. n : /\ from_handler[j].type = "finish"
                            /\ from_handler[j].rid = from_handler[i + 1].rid
    BY <1>2 DEF HandlerInv, AnswersAreTold
  <2>2. j # 1
    BY <1>2, <2>1 DEF HandlerInv, FinishBehindGenerate
  <2>3. j - 1 \in 1 .. n - 1 /\ j = (j - 1) + 1
    BY <1>2, <2>2
  <2> QED BY <2>1, <2>3
<1>11. ReadUpToDate'
  <2> SUFFICES ASSUME NEW s \in announced \ Warmups,
                      \A i \in 1 .. n - 1 : from_handler[i + 1].rid # s
               PROVE  \/ phase[s] # "answered" /\ state'[s] \in Listed
                      \/ phase[s] = "answered" /\ state'[s] = "finished"
    <3> DEFINE Up(s) == \/ phase[s] # "answered" /\ state'[s] \in Listed
                        \/ phase[s] = "answered" /\ state'[s] = "finished"
    <3>1. \A s \in announced \ Warmups :
            (\E i \in 1 .. n - 1 : from_handler[i + 1].rid = s) \/ Up(s)
      OBVIOUS
    <3>2. \A s \in announced \ Warmups :
            (\E i \in 1 .. Len(from_handler') : from_handler'[i].rid = s) \/ Up(s)
      <4> HIDE DEF Up
      <4> QED BY <1>2, <3>1
    <3>3. announced' = announced /\ phase' = phase
      BY <1>1
    <3> QED BY <3>2, <3>3 DEF ReadUpToDate
  <2>1. \A i \in 1 .. n : i # 1 => from_handler[i].rid # s
    <3> SUFFICES ASSUME NEW i \in 1 .. n, i # 1 PROVE from_handler[i].rid # s
      OBVIOUS
    <3>1. i - 1 \in 1 .. n - 1 /\ (i - 1) + 1 = i
      BY <1>2
    <3> QED BY <3>1
  <2>2. CASE s = r
    <3>1. CASE from_handler[1].type = "generate"
      <4>1. phase[s] # "answered"
        BY <1>2, <2>1, <2>2, <3>1 DEF HandlerInv, AnswersAreTold
      <4> QED BY <1>5, <2>2, <3>1, <4>1
    <3>2. CASE from_handler[1].type = "finish"
      <4>1. phase[s] = "answered"
        BY <1>2, <2>2, <3>2 DEF HandlerInv, FinishesAreTrue
      <4> QED BY <1>5, <2>2, <3>2, <4>1
    <3> QED BY <1>5, <3>1, <3>2
  <2>3. CASE s # r
    <3>1. s \in TrackedReqs /\ state'[s] = state[s]
      BY <1>5, <2>3 DEF HandlerKeeps, TrackerTypeOK
    <3>2. \A i \in 1 .. n : from_handler[i].rid # s
      BY <2>1, <2>3
    <3> QED BY <3>1, <3>2 DEF HandlerInv, ReadUpToDate
  <2> QED BY <2>2, <2>3
<1> QED BY <1>5, <1>6, <1>7, <1>8, <1>9, <1>10, <1>11 DEF HandlerInv, HandlerKeeps

\* RecvFromEngine preserves the invariant: the engine's first message is a run,
\* or about a request the tracker knows.
LEMMA EngineStep ==
  ASSUME TrackerInv, NEW e \in TrackedEngines, RecvFromEngine(e) PROVE TrackerInv'
<1> USE DEF TrackerInv
<1> DEFINE q == from_engine[e]
           n == Len(q)
           r == q[1].rid
           t == q[1].time
<1>1. /\ from_engine' = [from_engine EXCEPT ![e] = Tail(q)] /\ q # <<>>
      /\ UNCHANGED <<phase, runs, ran_on, announced, clock, from_handler>>
      /\ q \in Seq(EngineMsgs) /\ from_engine \in [TrackedEngines -> Seq(EngineMsgs)]
  BY DEF RecvFromEngine, TrackerTypeOK
<1>2. /\ Tail(q) \in Seq(EngineMsgs) /\ n \in Nat \ {0} /\ Len(Tail(q)) = n - 1
      /\ \A i \in 1 .. n - 1 : Tail(q)[i] = q[i + 1]
      /\ Head(q) = q[1] /\ q[1] \in EngineMsgs
  <2> HIDE DEF q
  <2> QED BY <1>1, TailFacts DEF n
<1>3. /\ from_engine' \in [TrackedEngines -> Seq(EngineMsgs)]
      /\ from_engine'[e] = Tail(q)
      /\ \A f \in TrackedEngines \ {e} : from_engine'[f] = from_engine[f]
  BY <1>1, <1>2
<1>4. r \in TrackedReqs /\ t \in Nat /\ q[1].type \in {"run", "retract"}
  BY <1>2 DEF EngineMsgs
<1>5. ListsTyped
  BY DEF ListsTyped, TrackerTypeOK
<1>6. /\ HandlerKeeps(r)
      /\ state'[r] # "unknown"
      /\ state[r] \in Listed => state'[r] \in Listed
      /\ state[r] = "finished" => state'[r] = "finished"
  <2>1. CASE q[1].type = "run" /\ StartRunningReq(r, t)
    <3> HIDE DEF q, r, t
    <3> QED BY <1>4, <1>5, <2>1, StartEffect
  <2>2. CASE q[1].type = "retract" /\ PreemptReq(r, t)
    <3>1. KnownBy(e, r, 0)
      BY <1>2, <2>2 DEF EngineInv, RetractsBehindRuns
    <3>2. state[r] # "unknown"
      BY <3>1 DEF KnownBy
    <3> HIDE DEF q, r, t
    <3> QED BY <1>4, <1>5, <2>2, <3>2, PreemptEffect DEF HandlerKeeps
  <2> QED BY <1>2, <2>1, <2>2 DEF RecvFromEngine
<1>7. TrackerTypeOK'
  BY <1>1, <1>3, <1>6 DEF ListsTyped, TrackerTypeOK, HandlerKeeps
<1>8. ASSUME NEW f \in TrackedEngines, NEW s \in TrackedReqs, NEW k \in 0 .. Len(from_engine[f]),
             KnownBy(f, s, k)
      PROVE  /\ f # e => KnownBy(f, s, k)'
             /\ f = e /\ k > 0 => KnownBy(e, s, k - 1)'
  <2>1. CASE state[s] # "unknown"
    BY <1>6, <2>1 DEF HandlerKeeps, KnownBy
  <2>2. CASE state[s] = "unknown"
    <3>1. PICK j \in 1 .. k : from_engine[f][j].type = "run" /\ from_engine[f][j].rid = s
      BY <1>8, <2>2 DEF KnownBy
    <3>2. CASE f # e
      BY <1>3, <3>1, <3>2 DEF KnownBy
    <3>3. CASE f = e /\ j = 1
      BY <1>6, <3>1, <3>3 DEF KnownBy
    <3>4. CASE f = e /\ j # 1
      <4>1. j - 1 \in 1 .. k - 1 /\ j - 1 \in 1 .. n - 1 /\ (j - 1) + 1 = j
        BY <1>2, <3>4
      <4>2. from_engine'[e][j - 1] = q[j]
        BY <1>2, <1>3, <4>1
      <4> QED BY <3>1, <3>4, <4>1, <4>2 DEF KnownBy
    <3> QED BY <3>2, <3>3, <3>4
  <2> QED BY <2>1, <2>2
<1>9. RetractsBehindRuns'
  <2> SUFFICES ASSUME NEW f \in TrackedEngines, NEW i \in 1 .. Len(from_engine'[f]),
                      from_engine'[f][i].type = "retract"
               PROVE  KnownBy(f, from_engine[f][i].rid, i - 1)'
    BY DEF RetractsBehindRuns
  <2>0. from_engine'[f] \in Seq(EngineMsgs)
    BY <1>3
  <2>1. PICK s \in TrackedReqs : s = from_engine'[f][i].rid
    <3>1. from_engine'[f][i] \in EngineMsgs
      BY <2>0
    <3> QED BY <3>1 DEF EngineMsgs
  <2>2. CASE f = e
    <3>1. i \in 1 .. n - 1 /\ i + 1 \in 1 .. n /\ from_engine'[e][i] = q[i + 1]
      BY <1>2, <1>3, <2>2
    <3>2. KnownBy(e, s, i) /\ i \in 0 .. n
      <4>1. q[i + 1].type = "retract" /\ q[i + 1].rid = s
        BY <2>1, <2>2, <3>1
      <4>2. KnownBy(e, s, (i + 1) - 1)
        BY <3>1, <4>1 DEF EngineInv, RetractsBehindRuns
      <4> QED BY <3>1, <4>2
    <3>3. KnownBy(e, s, i - 1)'
      BY <1>8, <3>1, <3>2
    <3> QED BY <2>1, <2>2, <3>3 DEF KnownBy
  <2>3. CASE f # e
    <3>1. from_engine'[f] = from_engine[f] /\ i \in 1 .. Len(from_engine[f])
      BY <1>3, <2>3
    <3>2. KnownBy(f, s, i - 1) /\ i - 1 \in 0 .. Len(from_engine[f])
      BY <2>0, <2>1, <3>1 DEF EngineInv, RetractsBehindRuns
    <3>3. KnownBy(f, s, i - 1)'
      BY <1>8, <2>3, <3>2
    <3> QED BY <2>1, <3>3 DEF KnownBy
  <2> QED BY <2>2, <2>3
<1>10. RunsAreTold'
  <2> SUFFICES ASSUME NEW f \in TrackedEngines, NEW s \in runs[f]
               PROVE  phase[s] = "running" /\ KnownBy(f, s, Len(from_engine[f]))'
    BY <1>1 DEF RunsAreTold
  <2>1. s \in TrackedReqs /\ phase[s] = "running" /\ KnownBy(f, s, Len(from_engine[f]))
    BY DEF TrackerTypeOK, EngineInv, RunsAreTold
  <2>2. Len(from_engine[f]) \in Nat
    BY <1>1
  <2>3. CASE f = e
    <3>1. PICK k \in Nat : k = n
      BY <1>2
    <3>2. KnownBy(e, s, k - 1)'
      BY <1>2, <1>8, <2>1, <2>3, <3>1
    <3>3. Len(from_engine'[e]) = k - 1
      BY <1>2, <1>3, <3>1
    <3> QED BY <2>1, <2>3, <3>2, <3>3 DEF KnownBy
  <2>4. CASE f # e
    BY <1>3, <1>8, <2>1, <2>2, <2>4 DEF KnownBy
  <2> QED BY <2>3, <2>4
<1>11. OneEngineRuns'
  BY <1>1 DEF EngineInv, OneEngineRuns
<1>12. HandlerInv'
  <2>1. FinishesAreTrue' /\ FinishBehindGenerate' /\ AnswersAreTold'
    BY <1>1 DEF HandlerInv, FinishesAreTrue, FinishBehindGenerate, AnswersAreTold
  <2>2. \A s \in TrackedReqs : /\ state[s] \in Listed => state'[s] \in Listed
                               /\ state[s] = "finished" => state'[s] = "finished"
    BY <1>6 DEF HandlerKeeps
  <2>3. announced \subseteq TrackedReqs
    BY DEF TrackerTypeOK
  <2>4. ReadUpToDate'
    BY <1>1, <2>2, <2>3 DEF HandlerInv, ReadUpToDate
  <2> QED BY <2>1, <2>4 DEF HandlerInv
<1> QED BY <1>6, <1>7, <1>9, <1>10, <1>11, <1>12 DEF EngineInv, HandlerKeeps
-------------------------------------------------------------------------------
(* The theorems *)

\* Every step of the system preserves the invariant.
LEMMA TrackerStep == TrackerInv /\ [TrackerNext]_trackingVars => TrackerInv'
<1> SUFFICES ASSUME TrackerInv, [TrackerNext]_trackingVars PROVE TrackerInv'
  OBVIOUS
<1>1. ASSUME NEW r \in TrackedReqs, Push(r) \/ Announce(r) \/ Answer(r) PROVE TrackerInv'
  BY <1>1, PushStep, AnnounceStep, TrackedAnswerStep
<1>2. ASSUME NEW e \in TrackedEngines, NEW r \in TrackedReqs, Run(e, r) \/ RetractRun(e, r)
      PROVE  TrackerInv'
  BY <1>2, RunStep, RetractStep
<1>3. CASE RecvFromHandler
  BY <1>3, TrackedHandlerStep
<1>4. ASSUME NEW e \in TrackedEngines, RecvFromEngine(e) PROVE TrackerInv'
  BY <1>4, EngineStep
<1>5. CASE UNCHANGED trackingVars
  BY <1>5 DEF trackingVars, worldVars, trackerVars, TrackerInv, TrackerTypeOK, NeverRaises, ListInv, EngineInv,
     RetractsBehindRuns, RunsAreTold, OneEngineRuns, KnownBy, HandlerInv, FinishesAreTrue,
     FinishBehindGenerate, AnswersAreTold, ReadUpToDate
<1> QED BY <1>1, <1>2, <1>3, <1>4, <1>5 DEF TrackerNext

\* The inductive invariant holds in every reachable state.
LEMMA TrackerInvariant == TrackerSpec => []TrackerInv
<1> QED BY InitTracker, TrackerStep, PTL DEF TrackerSpec

\* The variables of the tracker and of its world keep their types.
THEOREM TrackerTypes == TrackerSpec => []TrackerTypeOK
<1>1. TrackerInv => TrackerTypeOK
  BY DEF TrackerInv
<1> QED BY <1>1, TrackerInvariant, PTL

\* No order of the messages makes a handler of the tracker raise, so none is
\* lost because of another one.
THEOREM NoHandlerRaises == TrackerSpec => []NeverRaises
<1>1. TrackerInv => NeverRaises
  BY DEF TrackerInv
<1> QED BY <1>1, TrackerInvariant, PTL

\* A request that is not a warmup is in exactly the list its state names, once.
THEOREM ListsAlwaysMatch == TrackerSpec => []ListsMatchStates
<1>1. TrackerInv => ListsMatchStates
  BY DEF TrackerInv, ListInv, ListsMatchStates
<1> QED BY <1>1, TrackerInvariant, PTL

\* What the tracker has read of a request's messages from the handler is up to date.
LEMMA ReadRequests ==
  ASSUME TrackerInv, NEW r \in announced \ Warmups, ~Underway(r)
  PROVE  \/ phase[r] # "answered" /\ state[r] \in Listed
         \/ phase[r] = "answered" /\ state[r] = "finished"
<1>1. DOMAIN from_handler = 1 .. Len(from_handler)
  <2>1. from_handler \in Seq(HandlerMsgs)
    BY DEF TrackerInv, TrackerTypeOK
  <2> QED BY <2>1
<1>2. \A i \in 1 .. Len(from_handler) : from_handler[i].rid # r
  BY <1>1 DEF Underway
<1>3. ReadUpToDate
  BY DEF TrackerInv, HandlerInv
<1> QED BY <1>2, <1>3 DEF ReadUpToDate

\* Once the handler's messages about a request are read, it is in a list iff it
\* has not been answered.
THEOREM BusyIffUnanswered == TrackerSpec => []BusyWhileUnanswered
<1>1. ASSUME TrackerInv PROVE BusyWhileUnanswered
  <2> USE <1>1 DEF TrackerInv
  <2> SUFFICES ASSUME NEW r \in announced \ Warmups, ~Underway(r)
               PROVE  waiting_reqs[r] + running_reqs[r] > 0 <=> phase[r] # "answered"
    BY DEF BusyWhileUnanswered
  <2>1. \/ phase[r] # "answered" /\ state[r] \in Listed
        \/ phase[r] = "answered" /\ state[r] = "finished"
    BY ReadRequests
  <2>2. r \in TrackedReqs /\ ~is_warmup[r]
    BY DEF TrackerTypeOK, ListInv
  <2> QED BY <2>1, <2>2 DEF ListInv, Listed
<1> QED BY <1>1, TrackerInvariant, PTL

-------------------------------------------------------------------------------
(* The view of a request that stays in one engine.  Its messages come in the *)
(* order of their times, and the last of them, or the state the tracker has  *)
(* read from it, says whether the request runs.                              *)

\* q says nothing about r.
Silent(q, r) == \A i \in 1 .. Len(q) : q[i].rid # r

\* The messages of q about r are in the order of their times, later than t and
\* p, and none is later than u.
Ascending(q, r, t, p, u) ==
  /\ \A i \in 1 .. Len(q) : q[i].rid = r => t < q[i].time /\ p < q[i].time /\ q[i].time <= u
  /\ \A i, j \in 1 .. Len(q) : i < j /\ q[i].rid = r /\ q[j].rid = r => q[i].time < q[j].time

\* The last message of q about r is a run iff r is running.
LastTells(q, r, ph) ==
  \E i \in 1 .. Len(q) :
    /\ q[i].rid = r
    /\ \A j \in 1 .. Len(q) : i < j => q[j].rid # r
    /\ q[i].type = "run" <=> ph = "running"

FollowedIn(e, r) ==
  /\ start_running_time[r] <= clock[r] /\ preempted_time[r] <= clock[r]
  /\ Ascending(from_engine[e], r, start_running_time[r], preempted_time[r], clock[r])
  /\ \/ LastTells(from_engine[e], r, phase[r])
     \/ Silent(from_engine[e], r) /\ (state[r] = "running" <=> phase[r] = "running")

Followed(r) ==
  /\ r \in announced => phase[r] # "new"
  /\ state[r] = "finished" => phase[r] = "answered"
  /\ \A d \in TrackedEngines \ ran_on[r] : r \notin runs[d] /\ Silent(from_engine[d], r)
  /\ \A e \in TrackedEngines :
       ran_on[r] \subseteq {e} /\ phase[r] # "answered" => FollowedIn(e, r)

FollowInv == \A r \in TrackedReqs \ Warmups : Followed(r)

\* A message about another request changes nothing for r.
LEMMA AppendOther ==
  ASSUME NEW q \in Seq(EngineMsgs), NEW msg \in EngineMsgs, NEW r \in TrackedReqs, msg.rid # r,
         NEW t \in Nat, NEW p \in Nat, NEW u \in Nat, NEW ph
  PROVE  /\ Silent(q, r) => Silent(Append(q, msg), r)
         /\ Ascending(q, r, t, p, u) => Ascending(Append(q, msg), r, t, p, u)
         /\ LastTells(q, r, ph) => LastTells(Append(q, msg), r, ph)
<1> DEFINE c == Append(q, msg)
<1>1. /\ Len(q) \in Nat /\ Len(c) = Len(q) + 1
      /\ \A i \in 1 .. Len(q) : c[i] = q[i]
      /\ c[Len(q) + 1] = msg
  BY AppendFacts
<1> HIDE DEF c
<1>2. \A i \in 1 .. Len(c) : c[i].rid = r => i \in 1 .. Len(q) /\ c[i] = q[i]
  BY <1>1
<1>3. Silent(q, r) => Silent(c, r)
  BY <1>1, <1>2 DEF Silent
<1>4. Ascending(q, r, t, p, u) => Ascending(c, r, t, p, u)
  BY <1>2 DEF Ascending
<1>5. ASSUME LastTells(q, r, ph) PROVE LastTells(c, r, ph)
  <2>1. PICK i \in 1 .. Len(q) : /\ q[i].rid = r
                                 /\ \A j \in 1 .. Len(q) : i < j => q[j].rid # r
                                 /\ q[i].type = "run" <=> ph = "running"
    BY <1>5 DEF LastTells
  <2>2. i \in 1 .. Len(c) /\ c[i] = q[i]
    BY <1>1
  <2>3. \A j \in 1 .. Len(c) : i < j => c[j].rid # r
    BY <1>2, <2>1
  <2> QED BY <2>1, <2>2, <2>3 DEF LastTells
<1> QED BY <1>3, <1>4, <1>5 DEF c

\* A message about r, of a later time than those before it, is the last about r.
LEMMA AppendOwn ==
  ASSUME NEW q \in Seq(EngineMsgs), NEW msg \in EngineMsgs, NEW r \in TrackedReqs, msg.rid = r,
         NEW t \in Nat, NEW p \in Nat, NEW u \in Nat, NEW ph,
         msg.time = u + 1, t <= u, p <= u, Ascending(q, r, t, p, u),
         msg.type = "run" <=> ph = "running"
  PROVE  /\ Ascending(Append(q, msg), r, t, p, u + 1)
         /\ LastTells(Append(q, msg), r, ph)
<1> DEFINE c == Append(q, msg)
           n == Len(q)
<1>1. /\ n \in Nat /\ Len(c) = n + 1
      /\ \A i \in 1 .. n : c[i] = q[i]
      /\ c[n + 1] = msg
      /\ \A i \in 1 .. n : q[i].time \in Nat
  <2>1. \A i \in 1 .. n : q[i] \in EngineMsgs
    OBVIOUS
  <2> QED BY <2>1, AppendFacts DEF EngineMsgs
<1> HIDE DEF c, n
<1>2. \A i \in 1 .. n : q[i].rid = r => t < q[i].time /\ p < q[i].time /\ q[i].time <= u
  BY DEF Ascending, n
<1>3. \A i, j \in 1 .. n : i < j /\ q[i].rid = r /\ q[j].rid = r => q[i].time < q[j].time
  BY DEF Ascending, n
<1>4. \A i \in 1 .. Len(c) : i \in 1 .. n \/ i = n + 1
  BY <1>1
<1>5. \A i \in 1 .. Len(c) : c[i].rid = r => t < c[i].time /\ p < c[i].time /\ c[i].time <= u + 1
  BY <1>1, <1>2, <1>4
<1>6. \A i, j \in 1 .. Len(c) : i < j /\ c[i].rid = r /\ c[j].rid = r => c[i].time < c[j].time
  <2> SUFFICES ASSUME NEW i \in 1 .. Len(c), NEW j \in 1 .. Len(c), i < j, c[i].rid = r, c[j].rid = r
               PROVE  c[i].time < c[j].time
    OBVIOUS
  <2>1. i \in 1 .. n
    BY <1>1
  <2>2. CASE j \in 1 .. n
    BY <1>1, <1>3, <2>1, <2>2
  <2>3. CASE j = n + 1
    BY <1>1, <1>2, <2>1, <2>3
  <2> QED BY <1>4, <2>2, <2>3
<1>7. LastTells(c, r, ph)
  <2>1. n + 1 \in 1 .. Len(c) /\ \A j \in 1 .. Len(c) : ~(n + 1 < j)
    BY <1>1
  <2> QED BY <1>1, <2>1 DEF LastTells
<1> QED BY <1>5, <1>6, <1>7 DEF Ascending, c

\* Reading a message leaves the others in order; the last about r stays the last,
\* unless it was the one that is read.
LEMMA TailTells ==
  ASSUME NEW q \in Seq(EngineMsgs), q # <<>>, NEW r \in TrackedReqs,
         NEW t \in Nat, NEW p \in Nat, NEW u \in Nat, NEW ph
  PROVE  /\ Silent(q, r) => Silent(Tail(q), r)
         /\ Ascending(q, r, t, p, u) =>
              /\ Ascending(Tail(q), r, t, p, u)
              /\ q[1].rid = r => /\ t < q[1].time /\ p < q[1].time /\ q[1].time <= u
                                 /\ Ascending(Tail(q), r, q[1].time, p, u)
                                 /\ Ascending(Tail(q), r, t, q[1].time, u)
         /\ LastTells(q, r, ph) =>
              \/ LastTells(Tail(q), r, ph)
              \/ q[1].rid = r /\ Silent(Tail(q), r) /\ (q[1].type = "run" <=> ph = "running")
<1> DEFINE c == Tail(q)
           n == Len(q)
<1>1. /\ n \in Nat \ {0} /\ Len(c) = n - 1
      /\ \A i \in 1 .. n - 1 : c[i] = q[i + 1]
  BY TailFacts
<1> HIDE DEF c, n
<1>2. \A i \in 1 .. Len(c) : i \in 1 .. n - 1 /\ i + 1 \in 1 .. n /\ 1 < i + 1 /\ c[i] = q[i + 1]
  BY <1>1
<1>3. Silent(q, r) => Silent(c, r)
  BY <1>2 DEF Silent, n
<1>4. ASSUME Ascending(q, r, t, p, u)
      PROVE  /\ Ascending(c, r, t, p, u)
             /\ q[1].rid = r => /\ t < q[1].time /\ p < q[1].time /\ q[1].time <= u
                                /\ Ascending(c, r, q[1].time, p, u)
                                /\ Ascending(c, r, t, q[1].time, u)
  <2>1. \A i \in 1 .. n : q[i].rid = r => t < q[i].time /\ p < q[i].time /\ q[i].time <= u
    BY <1>4 DEF Ascending, n
  <2>2. \A i, j \in 1 .. n : i < j /\ q[i].rid = r /\ q[j].rid = r => q[i].time < q[j].time
    BY <1>4 DEF Ascending, n
  <2>3. 1 \in 1 .. n
    BY <1>1
  <2>4. \A i \in 1 .. Len(c) : c[i].rid = r => t < c[i].time /\ p < c[i].time /\ c[i].time <= u
    BY <1>2, <2>1
  <2>5. \A i \in 1 .. Len(c) : q[1].rid = r /\ c[i].rid = r => q[1].time < c[i].time
    BY <1>2, <2>2, <2>3
  <2>6. \A i, j \in 1 .. Len(c) : i < j /\ c[i].rid = r /\ c[j].rid = r => c[i].time < c[j].time
    <3>1. \A i, j \in 1 .. Len(c) : i < j => i + 1 < j + 1
      BY <1>1
    <3> QED BY <1>2, <2>2, <3>1
  <2> QED BY <2>1, <2>3, <2>4, <2>5, <2>6 DEF Ascending
<1>5. ASSUME LastTells(q, r, ph)
      PROVE  \/ LastTells(c, r, ph)
             \/ q[1].rid = r /\ Silent(c, r) /\ (q[1].type = "run" <=> ph = "running")
  <2>1. PICK i \in 1 .. n : /\ q[i].rid = r
                            /\ \A j \in 1 .. n : i < j => q[j].rid # r
                            /\ q[i].type = "run" <=> ph = "running"
    BY <1>5 DEF LastTells, n
  <2>2. CASE i = 1
    <3>1. Silent(c, r)
      BY <1>2, <2>1, <2>2 DEF Silent
    <3> QED BY <2>1, <2>2, <3>1
  <2>3. CASE i # 1
    <3>1. PICK k \in 1 .. Len(c) : k + 1 = i
      <4>1. i - 1 \in 1 .. Len(c) /\ (i - 1) + 1 = i
        BY <1>1, <2>3
      <4> QED BY <4>1
    <3>2. \A j \in 1 .. Len(c) : k < j => c[j].rid # r
      <4>1. \A j \in 1 .. Len(c) : k < j => i < j + 1
        BY <1>1, <3>1
      <4> QED BY <1>2, <2>1, <4>1
    <3>3. c[k] = q[i]
      BY <1>2, <3>1
    <3> QED BY <2>1, <3>2, <3>3 DEF LastTells
  <2> QED BY <2>2, <2>3
<1> QED BY <1>3, <1>4, <1>5 DEF c

\* In the initial state nothing is underway about any request.
LEMMA InitFollow == TrackerInit => FollowInv
<1> SUFFICES ASSUME TrackerInit, NEW r \in TrackedReqs PROVE Followed(r)
  BY DEF FollowInv
<1>1. /\ announced = {} /\ state[r] = "unknown" /\ phase[r] = "new" /\ clock[r] = 0
      /\ start_running_time[r] = 0 /\ preempted_time[r] = 0
      /\ \A e \in TrackedEngines : runs[e] = {} /\ Len(from_engine[e]) = 0
  BY DEF TrackerInit
<1>2. \A e \in TrackedEngines : /\ Silent(from_engine[e], r)
                                /\ Ascending(from_engine[e], r, 0, 0, 0)
  BY <1>1 DEF Silent, Ascending
<1> QED BY <1>1, <1>2 DEF Followed, FollowedIn

\* What an engine sends is a message of its own channel, one unit later than the
\* latest about the request.
LEMMA TellSends ==
  ASSUME TrackerTypeOK, NEW e \in TrackedEngines, NEW r \in TrackedReqs, NEW type \in {"run", "retract"},
         Tell(e, type, r)
  PROVE  /\ \E msg \in EngineMsgs :
              /\ from_engine'[e] = Append(from_engine[e], msg)
              /\ msg.type = type /\ msg.rid = r /\ msg.time = clock[r] + 1
         /\ \A f \in TrackedEngines \ {e} : from_engine'[f] = from_engine[f]
         /\ clock'[r] = clock[r] + 1
         /\ \A s \in TrackedReqs \ {r} : clock'[s] = clock[s]
<1> DEFINE msg == [type |-> type, rid |-> r, time |-> clock[r] + 1]
<1>1. clock \in [TrackedReqs -> Nat] /\ from_engine \in [TrackedEngines -> Seq(EngineMsgs)]
  BY DEF TrackerTypeOK
<1>2. msg \in EngineMsgs /\ msg.type = type /\ msg.rid = r /\ msg.time = clock[r] + 1
  BY <1>1 DEF EngineMsgs
<1>3. /\ from_engine' = [from_engine EXCEPT ![e] = Append(from_engine[e], msg)]
      /\ clock' = [clock EXCEPT ![r] = clock[r] + 1]
  BY <1>1 DEF Tell
<1>4. /\ from_engine'[e] = Append(from_engine[e], msg)
      /\ \A f \in TrackedEngines \ {e} : from_engine'[f] = from_engine[f]
      /\ clock'[r] = clock[r] + 1
      /\ \A s \in TrackedReqs \ {r} : clock'[s] = clock[s]
  <2> HIDE DEF msg
  <2> QED BY <1>1, <1>3
<1> QED BY <1>2, <1>4

FollowTyped(r) ==
  /\ start_running_time[r] \in Nat /\ preempted_time[r] \in Nat /\ clock[r] \in Nat
  /\ ran_on[r] \subseteq TrackedEngines
  /\ \A e \in TrackedEngines : from_engine[e] \in Seq(EngineMsgs)

\* The part of the type invariant that is about one request.
LEMMA FollowedTypes == ASSUME TrackerTypeOK, NEW r \in TrackedReqs PROVE FollowTyped(r)
  BY DEF TrackerTypeOK, FollowTyped

\* A request that the engines and the tracker leave alone is followed as before,
\* unless it is answered.
LEMMA Unfollowed ==
  ASSUME NEW r \in TrackedReqs, Followed(r), UNCHANGED <<ran_on, clock, from_engine, trackerVars>>,
         \A e \in TrackedEngines : r \in runs'[e] => r \in runs[e],
         r \in announced' => phase'[r] # "new",
         phase'[r] # "answered" => /\ phase[r] # "answered"
                                   /\ phase'[r] = "running" <=> phase[r] = "running"
  PROVE  Followed(r)'
<1>1. /\ state' = state /\ start_running_time' = start_running_time
      /\ preempted_time' = preempted_time
  BY DEF trackerVars
<1>2. /\ state'[r] = "finished" => phase'[r] = "answered"
      /\ \A d \in TrackedEngines \ ran_on[r] : r \notin runs'[d] /\ Silent(from_engine[d], r)
  BY <1>1 DEF Followed
<1>3. ASSUME NEW e \in TrackedEngines, ran_on[r] \subseteq {e}, phase'[r] # "answered"
      PROVE  FollowedIn(e, r)'
  <2>1. FollowedIn(e, r)
    BY <1>3 DEF Followed
  <2>2. LastTells(from_engine[e], r, phase[r]) => LastTells(from_engine[e], r, phase'[r])
    BY <1>3 DEF LastTells
  <2> QED BY <1>1, <1>3, <2>1, <2>2 DEF FollowedIn
<1> QED BY <1>2, <1>3 DEF Followed

\* Nor does it follow a request differently that another one is told of.
LEMMA ToldOfAnother ==
  ASSUME TrackerTypeOK, NEW r \in TrackedReqs, NEW e \in TrackedEngines, NEW s \in TrackedReqs, s # r,
         NEW type \in {"run", "retract"}, Tell(e, type, s), UNCHANGED <<announced, trackerVars>>,
         Followed(r), phase'[r] = phase[r], ran_on'[r] = ran_on[r],
         \A f \in TrackedEngines : r \in runs'[f] => r \in runs[f]
  PROVE  Followed(r)'
<1>1. PICK msg \in EngineMsgs : /\ from_engine'[e] = Append(from_engine[e], msg)
                                /\ msg.type = type /\ msg.rid = s
  BY TellSends
<1>2. /\ \A f \in TrackedEngines \ {e} : from_engine'[f] = from_engine[f]
      /\ clock'[r] = clock[r]
  BY TellSends
<1>3. /\ state' = state /\ start_running_time' = start_running_time
      /\ preempted_time' = preempted_time
  BY DEF trackerVars
<1>4. FollowTyped(r)
  BY FollowedTypes
<1>5. ASSUME NEW f \in TrackedEngines
      PROVE  /\ Silent(from_engine[f], r) => Silent(from_engine'[f], r)
             /\ Ascending(from_engine[f], r, start_running_time[r], preempted_time[r], clock[r]) =>
                  Ascending(from_engine'[f], r, start_running_time[r], preempted_time[r], clock[r])
             /\ LastTells(from_engine[f], r, phase[r]) => LastTells(from_engine'[f], r, phase[r])
  <2>1. CASE f = e
    BY <1>1, <1>4, <2>1, AppendOther DEF FollowTyped
  <2>2. CASE f # e
    BY <1>2, <2>2
  <2> QED BY <2>1, <2>2
<1>6. \A f \in TrackedEngines : FollowedIn(f, r) => FollowedIn(f, r)'
  BY <1>2, <1>3, <1>5 DEF FollowedIn
<1> QED BY <1>3, <1>5, <1>6 DEF Followed

\* A request that an engine runs or retracts and says so.
LEMMA ToldOfItself ==
  ASSUME TrackerTypeOK, NEW r \in TrackedReqs, NEW e \in TrackedEngines,
         NEW type \in {"run", "retract"}, Tell(e, type, r), UNCHANGED <<announced, trackerVars>>,
         Followed(r), phase[r] # "answered", phase'[r] \notin {"answered", "new"},
         type = "run" <=> phase'[r] = "running",
         ran_on[r] \subseteq ran_on'[r], e \in ran_on'[r],
         \A f \in TrackedEngines \ {e} : r \in runs'[f] => r \in runs[f]
  PROVE  Followed(r)'
<1>1. PICK msg \in EngineMsgs : /\ from_engine'[e] = Append(from_engine[e], msg)
                                /\ msg.type = type /\ msg.rid = r /\ msg.time = clock[r] + 1
  BY TellSends
<1>2. /\ \A f \in TrackedEngines \ {e} : from_engine'[f] = from_engine[f]
      /\ clock'[r] = clock[r] + 1
  BY TellSends
<1>3. /\ state' = state /\ start_running_time' = start_running_time
      /\ preempted_time' = preempted_time
  BY DEF trackerVars
<1>4. FollowTyped(r)
  BY FollowedTypes
<1>5. \A d \in TrackedEngines \ ran_on'[r] : r \notin runs'[d] /\ Silent(from_engine'[d], r)
  <2> SUFFICES ASSUME NEW d \in TrackedEngines \ ran_on'[r]
               PROVE  r \notin runs'[d] /\ Silent(from_engine'[d], r)
    OBVIOUS
  <2>1. d # e /\ d \notin ran_on[r]
    OBVIOUS
  <2> QED BY <1>2, <2>1 DEF Followed
<1>6. ASSUME NEW f \in TrackedEngines, ran_on'[r] \subseteq {f} PROVE FollowedIn(f, r)'
  <2>1. f = e /\ ran_on[r] \subseteq {e}
    BY <1>6
  <2>2. FollowedIn(e, r)
    BY <2>1 DEF Followed
  <2>3. /\ Ascending(from_engine'[e], r, start_running_time[r], preempted_time[r], clock[r] + 1)
        /\ LastTells(from_engine'[e], r, phase'[r])
    <3>1. PICK t \in Nat, p \in Nat, u \in Nat :
            t = start_running_time[r] /\ p = preempted_time[r] /\ u = clock[r]
      BY <1>4 DEF FollowTyped
    <3>2. PICK q \in Seq(EngineMsgs) : q = from_engine[e]
      BY <1>4 DEF FollowTyped
    <3>3. t <= u /\ p <= u /\ Ascending(q, r, t, p, u)
      BY <2>2, <3>1, <3>2 DEF FollowedIn
    <3>4. msg.rid = r /\ msg.time = u + 1 /\ (msg.type = "run" <=> phase'[r] = "running")
      BY <1>1, <3>1
    <3>5. Ascending(Append(q, msg), r, t, p, u + 1) /\ LastTells(Append(q, msg), r, phase'[r])
      BY <3>3, <3>4, AppendOwn
    <3> QED BY <1>1, <3>1, <3>2, <3>5
  <2>4. start_running_time[r] <= clock[r] + 1 /\ preempted_time[r] <= clock[r] + 1
    BY <1>4, <2>2 DEF FollowedIn, FollowTyped
  <2> QED BY <1>2, <1>3, <2>1, <2>3, <2>4 DEF FollowedIn
<1>7. state'[r] # "finished"
  BY <1>3 DEF Followed
<1> QED BY <1>5, <1>6, <1>7 DEF Followed

\* A step of the world leaves every request followed.
LEMMA WorldFollows ==
  ASSUME TrackerInv, NEW s \in TrackedReqs, NEW r \in TrackedReqs, Followed(r),
         \/ Push(s) \/ Announce(s) \/ Answer(s)
         \/ \E e \in TrackedEngines : Run(e, s) \/ RetractRun(e, s)
  PROVE  Followed(r)'
<1>0. TrackerTypeOK /\ DOMAIN phase = TrackedReqs
  BY DEF TrackerInv, TrackerTypeOK
<1>1. CASE Push(s)
  <2>1. /\ phase[s] = "new" /\ phase' = [phase EXCEPT ![s] = "waiting"]
        /\ UNCHANGED <<runs, announced, ran_on, clock, from_engine, trackerVars>>
    BY <1>1 DEF Push
  <2>2. /\ r \in announced' => phase'[r] # "new"
        /\ phase'[r] # "answered" => /\ phase[r] # "answered"
                                     /\ phase'[r] = "running" <=> phase[r] = "running"
    BY <1>0, <2>1 DEF Followed
  <2> QED BY <2>1, <2>2, Unfollowed
<1>2. CASE Announce(s)
  <2>1. /\ phase[s] # "new" /\ announced' = announced \cup {s}
        /\ UNCHANGED <<phase, runs, ran_on, clock, from_engine, trackerVars>>
    BY <1>2 DEF Announce
  <2>2. r \in announced' => phase'[r] # "new"
    BY <2>1 DEF Followed
  <2> QED BY <2>1, <2>2, Unfollowed
<1>3. CASE Answer(s)
  <2>1. /\ phase' = [phase EXCEPT ![s] = "answered"]
        /\ runs' = [e \in TrackedEngines |-> runs[e] \ {s}]
        /\ UNCHANGED <<announced, ran_on, clock, from_engine, trackerVars>>
    BY <1>3 DEF Answer
  <2>2. /\ r \in announced' => phase'[r] # "new"
        /\ phase'[r] # "answered" => /\ phase[r] # "answered"
                                     /\ phase'[r] = "running" <=> phase[r] = "running"
    BY <1>0, <2>1 DEF Followed
  <2>3. \A e \in TrackedEngines : r \in runs'[e] => r \in runs[e]
    BY <2>1
  <2> QED BY <2>1, <2>2, <2>3, Unfollowed
<1>4. ASSUME NEW e \in TrackedEngines, Run(e, s) PROVE Followed(r)'
  <2>1. /\ phase[s] = "waiting" /\ phase' = [phase EXCEPT ![s] = "running"]
        /\ runs' = [runs EXCEPT ![e] = @ \cup {s}]
        /\ ran_on' = [ran_on EXCEPT ![s] = @ \cup {e}]
        /\ UNCHANGED <<announced, trackerVars>> /\ Tell(e, "run", s)
        /\ runs \in [TrackedEngines -> SUBSET TrackedReqs]
        /\ ran_on \in [TrackedReqs -> SUBSET TrackedEngines]
    BY <1>0, <1>4 DEF Run, TrackerTypeOK
  <2>2. CASE s = r
    <3>1. /\ phase'[r] = "running" /\ phase[r] = "waiting" /\ ran_on'[r] = ran_on[r] \cup {e}
          /\ \A f \in TrackedEngines \ {e} : r \in runs'[f] => r \in runs[f]
      BY <1>0, <2>1, <2>2
    <3> QED BY <1>0, <2>1, <2>2, <3>1, ToldOfItself
  <2>3. CASE s # r
    <3>1. /\ phase'[r] = phase[r] /\ ran_on'[r] = ran_on[r]
          /\ \A f \in TrackedEngines : r \in runs'[f] => r \in runs[f]
      BY <1>0, <2>1, <2>3
    <3> QED BY <1>0, <2>1, <2>3, <3>1, ToldOfAnother
  <2> QED BY <2>2, <2>3
<1>5. ASSUME NEW e \in TrackedEngines, RetractRun(e, s) PROVE Followed(r)'
  <2>1. /\ s \in runs[e] /\ phase' = [phase EXCEPT ![s] = "waiting"]
        /\ runs' = [runs EXCEPT ![e] = @ \ {s}] /\ ran_on' = ran_on
        /\ UNCHANGED <<announced, trackerVars>> /\ Tell(e, "retract", s)
        /\ runs \in [TrackedEngines -> SUBSET TrackedReqs]
    BY <1>0, <1>5 DEF RetractRun, TrackerTypeOK
  <2>2. \A f \in TrackedEngines : r \in runs'[f] => r \in runs[f]
    BY <2>1
  <2>3. CASE s = r
    <3>1. e \in ran_on[r] /\ phase[r] = "running" /\ phase'[r] = "waiting"
      BY <1>0, <2>1, <2>3 DEF Followed, TrackerInv, EngineInv, RunsAreTold
    <3> QED BY <1>0, <2>1, <2>2, <2>3, <3>1, ToldOfItself
  <2>4. CASE s # r
    <3>1. phase'[r] = phase[r]
      BY <1>0, <2>1, <2>4
    <3> QED BY <1>0, <2>1, <2>2, <2>4, <3>1, ToldOfAnother
  <2> QED BY <2>3, <2>4
<1> QED BY <1>1, <1>2, <1>3, <1>4, <1>5

\* What the tracker keeps of every other request than the one it reads about.
SameView(r) ==
  /\ state'[r] = state[r]
  /\ start_running_time'[r] = start_running_time[r]
  /\ preempted_time'[r] = preempted_time[r]

\* No handler touches another request.
LEMMA OthersUnread ==
  ASSUME TrackerTypeOK, NEW s \in TrackedReqs, NEW r \in TrackedReqs, r # s, NEW t \in Nat,
         EnqueueReq(s) \/ FinishReq(s) \/ StartRunningReq(s, t) \/ PreemptReq(s, t)
  PROVE  SameView(r)
<1>1. CASE EnqueueReq(s)
  BY <1>1 DEF TrackerTypeOK, EnqueueReq, SameView
<1>2. CASE FinishReq(s)
  BY <1>2 DEF TrackerTypeOK, FinishReq, SameView
<1>3. CASE StartRunningReq(s, t)
  BY <1>3 DEF TrackerTypeOK, StartRunningReq, SameView
<1>4. CASE PreemptReq(s, t)
  BY <1>4 DEF TrackerTypeOK, PreemptReq, SameView
<1> QED BY <1>1, <1>2, <1>3, <1>4

\* An announcement makes a request wait unless the tracker has heard of it.
LEMMA EnqueueReads ==
  ASSUME TrackerTypeOK, NEW r \in TrackedReqs, EnqueueReq(r)
  PROVE  \/ SameView(r)
         \/ /\ state[r] \in {"unknown", "finished"} /\ state'[r] = "waiting"
            /\ start_running_time'[r] = 0 /\ preempted_time'[r] = 0
  BY DEF TrackerTypeOK, EnqueueReq, IsNew, SameView

\* A finish leaves the times alone.
LEMMA FinishReads ==
  ASSUME TrackerTypeOK, NEW r \in TrackedReqs, FinishReq(r)
  PROVE  /\ start_running_time'[r] = start_running_time[r]
         /\ preempted_time'[r] = preempted_time[r]
         /\ state'[r] = state[r] \/ state'[r] = "finished"
  BY DEF TrackerTypeOK, FinishReq

\* A run that is later than what the tracker has read makes the request run.
LEMMA StartReads ==
  ASSUME TrackerTypeOK, ListInv, NEW r \in TrackedReqs \ Warmups, NEW t \in Nat,
         StartRunningReq(r, t)
  PROVE  /\ start_running_time'[r] = t /\ preempted_time'[r] = preempted_time[r]
         /\ state'[r] = "finished" => state[r] = "finished"
         /\ state[r] # "finished" /\ preempted_time[r] < t => state'[r] = "running"
<1>1. /\ ~is_warmup[r]
      /\ waiting_reqs[r] = (IF state[r] \in {"waiting", "preempted"} THEN 1 ELSE 0)
  BY DEF ListInv
<1>2. /\ state \in [TrackedReqs -> {"unknown", "waiting", "running", "preempted", "finished"}]
      /\ start_running_time \in [TrackedReqs -> Nat] /\ preempted_time' = preempted_time
  BY DEF TrackerTypeOK, StartRunningReq
<1>3. CASE Unknown(r)
  BY <1>2, <1>3 DEF StartRunningReq, Unknown
<1>4. CASE ~Unknown(r)
  <2>1. /\ start_running_time' = [start_running_time EXCEPT ![r] = t]
        /\ IF Starts(r, t) /\ ~(Starts(r, t) /\ waiting_reqs[r] = 0)
           THEN state' = [state EXCEPT ![r] = "running"]
           ELSE state' = state
    BY <1>1, <1>4 DEF StartRunningReq
  <2> QED BY <1>1, <1>2, <1>4, <2>1 DEF Starts, Unknown
<1> QED BY <1>3, <1>4

\* A retraction that is later than what the tracker has read makes it wait.
LEMMA PreemptReads ==
  ASSUME TrackerTypeOK, ListInv, NEW r \in TrackedReqs \ Warmups, NEW t \in Nat,
         PreemptReq(r, t)
  PROVE  /\ start_running_time'[r] = start_running_time[r]
         /\ preempted_time'[r] = t \/ preempted_time'[r] = preempted_time[r]
         /\ state'[r] = "finished" => state[r] = "finished"
         /\ start_running_time[r] < t => state'[r] # "running"
<1>1. /\ ~is_warmup[r]
      /\ running_reqs[r] = (IF state[r] = "running" THEN 1 ELSE 0)
  BY DEF ListInv
<1>2. /\ state \in [TrackedReqs -> {"unknown", "waiting", "running", "preempted", "finished"}]
      /\ start_running_time \in [TrackedReqs -> Nat] /\ preempted_time \in [TrackedReqs -> Nat]
  BY DEF TrackerTypeOK
<1>3. start_running_time' = start_running_time
  BY DEF PreemptReq
<1>4. preempted_time'[r] = t \/ preempted_time'[r] = preempted_time[r]
  BY <1>1, <1>2 DEF PreemptReq
<1>5. LET moves == state[r] = "running" /\ start_running_time[r] <= t IN
      state' = [state EXCEPT
        ![r] = IF (moves /\ ~(moves /\ running_reqs[r] = 0)) \/ @ = "waiting" THEN "preempted" ELSE @]
  BY <1>1 DEF PreemptReq
<1>6. /\ state'[r] = "finished" => state[r] = "finished"
      /\ start_running_time[r] < t => state'[r] # "running"
  BY <1>1, <1>2, <1>5
<1> QED BY <1>3, <1>4, <1>6

\* Lower bounds may go down.
LEMMA AscendingFrom ==
  ASSUME NEW q \in Seq(EngineMsgs), NEW r, NEW t \in Nat, NEW p \in Nat, NEW u \in Nat,
         Ascending(q, r, t, p, u)
  PROVE  Ascending(q, r, 0, 0, u)
<1>1. \A i \in 1 .. Len(q) : q[i].time \in Nat
  <2>1. \A i \in 1 .. Len(q) : q[i] \in EngineMsgs
    OBVIOUS
  <2> QED BY <2>1 DEF EngineMsgs
<1> QED BY <1>1 DEF Ascending

\* What the tracker reads from the handler leaves every request followed.
LEMMA HandlerFollows ==
  ASSUME TrackerInv, NEW r \in TrackedReqs \ Warmups, Followed(r), RecvFromHandler
  PROVE  Followed(r)'
<1> DEFINE s == from_handler[1].rid
<1>1. TrackerTypeOK /\ FollowTyped(r)
  BY FollowedTypes DEF TrackerInv
<1>2. /\ from_handler # <<>> /\ UNCHANGED <<phase, runs, ran_on, announced, clock, from_engine>>
      /\ from_handler \in Seq(HandlerMsgs)
  BY <1>1 DEF RecvFromHandler, TrackerTypeOK
<1>3. /\ 1 \in 1 .. Len(from_handler) /\ Head(from_handler) = from_handler[1]
      /\ s \in TrackedReqs
  BY <1>1, <1>2, TailFacts, HandlerMsgFacts
<1>4. \/ from_handler[1].type = "generate" /\ EnqueueReq(s)
      \/ from_handler[1].type = "finish" /\ FinishReq(s) /\ phase[s] = "answered"
  <2>1. from_handler[1].type = "finish" => phase[s] = "answered"
    BY <1>3 DEF TrackerInv, HandlerInv, FinishesAreTrue
  <2> QED BY <1>3, <2>1 DEF RecvFromHandler
<1> HIDE DEF s
<1>5. CASE SameView(r)
  <2>1. \A e \in TrackedEngines : FollowedIn(e, r) => FollowedIn(e, r)'
    BY <1>2, <1>5 DEF FollowedIn, SameView
  <2> QED BY <1>2, <1>5, <2>1 DEF Followed, SameView
<1>6. CASE ~SameView(r) /\ from_handler[1].type = "finish"
  <2>1. 0 \in Nat /\ FinishReq(s) /\ phase[s] = "answered"
    BY <1>4, <1>6
  <2>2. r = s
    BY <1>1, <1>3, <1>6, <2>1, OthersUnread
  <2> QED BY <1>2, <2>1, <2>2 DEF Followed
<1>7. CASE ~SameView(r) /\ from_handler[1].type # "finish"
  <2>1. 0 \in Nat /\ EnqueueReq(s)
    BY <1>4, <1>7
  <2>2. r = s
    BY <1>1, <1>3, <1>7, <2>1, OthersUnread
  <2>3. /\ state[r] \in {"unknown", "finished"} /\ state'[r] = "waiting"
        /\ start_running_time'[r] = 0 /\ preempted_time'[r] = 0
    BY <1>1, <1>7, <2>1, <2>2, EnqueueReads
  <2>4. ASSUME NEW e \in TrackedEngines, FollowedIn(e, r), phase[r] # "answered"
        PROVE  FollowedIn(e, r)'
    <3>1. Ascending(from_engine[e], r, 0, 0, clock[r])
      BY <1>1, <2>4, AscendingFrom DEF FollowedIn, FollowTyped
    <3>2. 0 <= clock[r]
      BY <1>1 DEF FollowTyped
    <3>3. LastTells(from_engine[e], r, phase[r]) \/ (Silent(from_engine[e], r) /\ phase[r] # "running")
      BY <2>3, <2>4 DEF FollowedIn
    <3> QED BY <1>2, <2>3, <3>1, <3>2, <3>3 DEF FollowedIn
  <2> QED BY <1>2, <2>3, <2>4 DEF Followed
<1> QED BY <1>5, <1>6, <1>7

\* So does what it reads from an engine.
LEMMA EngineFollows ==
  ASSUME TrackerInv, NEW r \in TrackedReqs \ Warmups, Followed(r),
         NEW e \in TrackedEngines, RecvFromEngine(e)
  PROVE  Followed(r)'
<1>1. TrackerTypeOK /\ FollowTyped(r) /\ ListInv
  BY FollowedTypes DEF TrackerInv
<1>2. PICK q \in Seq(EngineMsgs) : q = from_engine[e]
  BY <1>1 DEF FollowTyped
<1>3. /\ q # <<>> /\ UNCHANGED <<phase, runs, ran_on, announced, clock>>
      /\ from_engine'[e] = Tail(q)
      /\ \A f \in TrackedEngines \ {e} : from_engine'[f] = from_engine[f]
  BY <1>1, <1>2 DEF RecvFromEngine, TrackerTypeOK
<1>4. Head(q) = q[1] /\ q[1] \in EngineMsgs /\ 1 \in 1 .. Len(q)
  BY <1>3, TailFacts
<1>5. PICK s \in TrackedReqs, t \in Nat : s = q[1].rid /\ t = q[1].time
  BY <1>4 DEF EngineMsgs
<1>6. \/ q[1].type = "run" /\ StartRunningReq(s, t)
      \/ q[1].type = "retract" /\ PreemptReq(s, t)
  BY <1>2, <1>4, <1>5 DEF RecvFromEngine
<1>7. PICK p1 \in Nat, p2 \in Nat, u \in Nat :
        p1 = start_running_time[r] /\ p2 = preempted_time[r] /\ u = clock[r]
  BY <1>1 DEF FollowTyped
<1>8. /\ Silent(q, r) => Silent(Tail(q), r)
      /\ Ascending(q, r, p1, p2, u) =>
           /\ Ascending(Tail(q), r, p1, p2, u)
           /\ s = r => /\ p1 < t /\ p2 < t /\ t <= u
                       /\ Ascending(Tail(q), r, t, p2, u)
                       /\ Ascending(Tail(q), r, p1, t, u)
      /\ LastTells(q, r, phase[r]) =>
           \/ LastTells(Tail(q), r, phase[r])
           \/ s = r /\ Silent(Tail(q), r) /\ (q[1].type = "run" <=> phase[r] = "running")
  BY <1>3, <1>5, TailTells
<1>9. \A d \in TrackedEngines \ ran_on[r] : r \notin runs[d] /\ Silent(from_engine'[d], r)
  BY <1>2, <1>3, <1>8 DEF Followed
<1>10. CASE s # r
  <2>1. SameView(r)
    BY <1>1, <1>6, <1>10, OthersUnread
  <2>2. \A f \in TrackedEngines : FollowedIn(f, r) => FollowedIn(f, r)'
    <3> SUFFICES ASSUME NEW f \in TrackedEngines, FollowedIn(f, r) PROVE FollowedIn(f, r)'
      OBVIOUS
    <3>1. CASE f = e
      BY <1>2, <1>3, <1>7, <1>8, <1>10, <2>1, <3>1 DEF FollowedIn, SameView
    <3>2. CASE f # e
      BY <1>3, <2>1, <3>2 DEF FollowedIn, SameView
    <3> QED BY <3>1, <3>2
  <2> QED BY <1>3, <1>9, <2>1, <2>2 DEF Followed, SameView
<1>11. CASE s = r
  <2>1. state'[r] = "finished" => state[r] = "finished"
    BY <1>1, <1>6, <1>11, StartReads, PreemptReads
  <2>2. ASSUME NEW f \in TrackedEngines, ran_on[r] \subseteq {f}, phase[r] # "answered"
        PROVE  FollowedIn(f, r)'
    <3>1. f = e
      <4>1. ~Silent(from_engine[e], r)
        BY <1>2, <1>4, <1>5, <1>11 DEF Silent
      <4>2. e \in ran_on[r]
        BY <4>1 DEF Followed
      <4> QED BY <2>2, <4>2
    <3>2. FollowedIn(e, r) /\ state[r] # "finished"
      BY <2>2, <3>1 DEF Followed
    <3>3. /\ p1 < t /\ p2 < t /\ t <= u
          /\ Ascending(Tail(q), r, t, p2, u)
          /\ Ascending(Tail(q), r, p1, t, u)
          /\ Ascending(Tail(q), r, p1, p2, u)
          /\ p1 <= u /\ p2 <= u
      BY <1>2, <1>7, <1>8, <1>11, <3>2 DEF FollowedIn
    <3>4. LastTells(Tail(q), r, phase[r])
            \/ (Silent(Tail(q), r) /\ (q[1].type = "run" <=> phase[r] = "running"))
      <4>1. ~Silent(q, r)
        BY <1>4, <1>5, <1>11 DEF Silent
      <4>2. LastTells(q, r, phase[r])
        BY <1>2, <3>2, <4>1 DEF FollowedIn
      <4> QED BY <1>8, <4>2
    <3>5. CASE q[1].type = "run" /\ StartRunningReq(r, t)
      <4>1. /\ start_running_time'[r] = t /\ preempted_time'[r] = p2 /\ state'[r] = "running"
        BY <1>1, <1>7, <3>2, <3>3, <3>5, StartReads
      <4> QED BY <1>3, <1>7, <3>1, <3>3, <3>4, <3>5, <4>1 DEF FollowedIn
    <3>6. CASE q[1].type = "retract" /\ PreemptReq(r, t)
      <4>1. /\ start_running_time'[r] = p1 /\ preempted_time'[r] \in {t, p2} /\ state'[r] # "running"
        BY <1>1, <1>7, <3>3, <3>6, PreemptReads
      <4> QED BY <1>3, <1>7, <3>1, <3>3, <3>4, <3>6, <4>1 DEF FollowedIn
    <3> QED BY <1>6, <1>11, <3>5, <3>6
  <2> QED BY <1>3, <1>9, <2>1, <2>2 DEF Followed
<1> QED BY <1>10, <1>11

\* Every step leaves every request that is not a warmup followed.
LEMMA FollowStep == TrackerInv /\ FollowInv /\ [TrackerNext]_trackingVars => FollowInv'
<1> SUFFICES ASSUME TrackerInv, FollowInv, [TrackerNext]_trackingVars, NEW r \in TrackedReqs \ Warmups
             PROVE  Followed(r)'
  BY DEF FollowInv
<1>0. Followed(r)
  BY DEF FollowInv
<1>1. ASSUME NEW s \in TrackedReqs, Push(s) \/ Announce(s) \/ Answer(s) PROVE Followed(r)'
  BY <1>0, <1>1, WorldFollows
<1>2. ASSUME NEW e \in TrackedEngines, NEW s \in TrackedReqs, Run(e, s) \/ RetractRun(e, s)
      PROVE  Followed(r)'
  BY <1>0, <1>2, WorldFollows
<1>3. CASE RecvFromHandler
  BY <1>0, <1>3, HandlerFollows
<1>4. ASSUME NEW e \in TrackedEngines, RecvFromEngine(e) PROVE Followed(r)'
  BY <1>0, <1>4, EngineFollows
<1>5. CASE UNCHANGED trackingVars
  <2>1. UNCHANGED <<phase, runs, announced, ran_on, clock, from_engine, trackerVars>>
    BY <1>5 DEF trackingVars, worldVars
  <2>2. r \in announced' => phase'[r] # "new"
    BY <1>0, <2>1 DEF Followed
  <2> QED BY <1>0, <2>1, <2>2, Unfollowed
<1> QED BY <1>1, <1>2, <1>3, <1>4, <1>5 DEF TrackerNext

\* Once the messages about a request that has stayed in one engine are read, the
\* tracker knows what the request is doing.
THEOREM ViewOfOneEngine == TrackerSpec => []ViewConverges
<1>1. TrackerInv /\ FollowInv => ViewConverges
  <2> SUFFICES ASSUME TrackerInv, FollowInv, NEW r \in announced \ Warmups,
                      Settled(r), StaysInOneEngine(r)
               PROVE  state[r] \in (CASE phase[r] = "waiting" -> {"waiting", "preempted"}
                                      [] phase[r] = "answered" -> {"finished"}
                                      [] OTHER -> {"running"})
    BY DEF ViewConverges
  <2>1. TrackerTypeOK /\ r \in TrackedReqs /\ FollowTyped(r)
    BY FollowedTypes DEF TrackerInv, TrackerTypeOK
  <2>2. Followed(r) /\ phase[r] \in {"waiting", "running", "answered"}
    BY <2>1 DEF FollowInv, Followed, TrackerTypeOK
  <2>3. \/ phase[r] # "answered" /\ state[r] \in Listed
        \/ phase[r] = "answered" /\ state[r] = "finished"
    BY ReadRequests DEF Settled
  <2>4. CASE phase[r] = "answered"
    BY <2>3, <2>4
  <2>5. CASE phase[r] # "answered"
    <3>1. PICK e \in TrackedEngines : ran_on[r] \subseteq {e}
      <4>1. CASE ran_on[r] = {}
        BY <4>1, TrackerAssumption
      <4>2. CASE ran_on[r] # {}
        BY <2>1, <4>2 DEF StaysInOneEngine, FollowTyped
      <4> QED BY <4>1, <4>2
    <3>2. FollowedIn(e, r)
      BY <2>2, <2>5, <3>1 DEF Followed
    <3>3. \A i \in 1 .. Len(from_engine[e]) : from_engine[e][i].rid # r
      <4>1. DOMAIN from_engine[e] = 1 .. Len(from_engine[e])
        BY <2>1 DEF FollowTyped
      <4> QED BY <4>1 DEF Settled
    <3>4. ~LastTells(from_engine[e], r, phase[r])
      BY <3>3 DEF LastTells
    <3>5. state[r] = "running" <=> phase[r] = "running"
      BY <3>2, <3>4 DEF FollowedIn
    <3> QED BY <2>2, <2>3, <2>5, <3>5 DEF Listed
  <2> QED BY <2>4, <2>5
<1> QED BY <1>1, InitFollow, FollowStep, TrackerInvariant, PTL DEF TrackerSpec
-------------------------------------------------------------------------------
(***************************************************************************)
(* Proofs about StreamExecutor, for any set of programs and executors: the *)
(* unfinished tasks of a queue are what is queued and what its worker has  *)
(* in hand, and the text that a reader has been given is a prefix of what  *)
(* the program's state has.  Both rest on the same facts about an executor *)
(* (Sound), which every step of a worker and of the program preserves.     *)
(***************************************************************************)

(* Sequences *)

\* A set of numbers has a least element: well-founded are the intervals from 0.
LEMMA LeastElement ==
  ASSUME NEW S, S \subseteq Nat, S # {}
  PROVE  \E n \in S : \A m \in S : n <= m
<1> DEFINE T == {0..n : n \in S}
           R == StrictSubsetOrdering(Nat)
<1>1. T \subseteq FiniteSubsetsOf(Nat) /\ T # {}
  <2>1. \A n \in S : IsFiniteSet(0..n) /\ 0..n \in SUBSET Nat
    BY FS_Interval
  <2> QED
    BY <2>1 DEF FiniteSubsetsOf
<1>2. PICK t \in T : \A u \in T : <<u, t>> \notin R
  <2> HIDE DEF T, R
  <2> QED
    BY <1>1, WFMin, FS_StrictSubsetOrderingWellFounded DEF R
<1>3. PICK n \in S : t = 0..n
  OBVIOUS
<1>4. ASSUME NEW m \in S, m < n PROVE FALSE
  <2>1. (0..m) \subseteq (0..n) /\ n \in 0..n /\ n \notin 0..m
    BY <1>4
  <2>2. <<0..m, 0..n>> \in R
    BY <2>1 DEF StrictSubsetOrdering
  <2> QED
    BY <1>2, <1>3, <2>2
<1> QED
  BY <1>4

\* Induction over the natural numbers, for a set of them.
LEMMA UpFromZero ==
  ASSUME NEW S, 0 \in S, \A n \in Nat : n \in S => n + 1 \in S
  PROVE  \A n \in Nat : n \in S
<1> SUFFICES ASSUME NEW k \in Nat, k \notin S PROVE FALSE
  OBVIOUS
<1> DEFINE T == {n \in Nat : n \notin S}
<1>1. PICK n \in T : \A m \in T : n <= m
  <2>1. T \subseteq Nat /\ T # {}
    OBVIOUS
  <2> HIDE DEF T
  <2> QED
    BY <2>1, LeastElement
<1>2. n # 0 /\ n - 1 \in Nat /\ n - 1 \notin T
  BY <1>1
<1> QED
  BY <1>2

\* Joining any number of sequences.
LEMMA FlattenTyped ==
  ASSUME NEW P, NEW seqs \in Seq(Seq(P))
  PROVE  FlattenSeq(seqs) \in Seq(P)
<1> DEFINE n == Len(seqs)
           Joins(f, k) == f = [i \in 1..k |-> IF i = 1 THEN seqs[i] ELSE f[i - 1] \o seqs[i]]
           S == {k \in Nat : k <= n => \E f : Joins(f, k)}
           flatten == CHOOSE f : Joins(f, n)
<1>1. n \in Nat /\ \A i \in 1..n : seqs[i] \in Seq(P)
  OBVIOUS
<1>2. CASE n = 0
  BY <1>2 DEF FlattenSeq
<1>3. \A k \in Nat : k \in S
  <2>1. 0 \in S
    <3>1. Joins(<<>>, 0)
      OBVIOUS
    <3> QED
      BY <3>1
  <2>2. ASSUME NEW k \in Nat, k \in S PROVE k + 1 \in S
    <3> SUFFICES ASSUME k + 1 <= n PROVE \E f : Joins(f, k + 1)
      <4> HIDE DEF Joins
      <4> QED
        BY <2>2
    <3>1. PICK f : Joins(f, k)
      <4>1. k <= n
        BY <1>1
      <4> HIDE DEF Joins, n
      <4> QED
        BY <2>2, <4>1
    <3> DEFINE g == [i \in 1..(k + 1) |-> IF i <= k THEN f[i] ELSE IF i = 1 THEN seqs[i] ELSE f[i - 1] \o seqs[i]]
    <3>2. \A i \in 1..(k + 1) : g[i] = IF i = 1 THEN seqs[i] ELSE g[i - 1] \o seqs[i]
      <4> SUFFICES ASSUME NEW i \in 1..(k + 1) PROVE g[i] = IF i = 1 THEN seqs[i] ELSE g[i - 1] \o seqs[i]
        OBVIOUS
      <4>1. CASE i <= k
        <5>0. i \in 1..k
          BY <4>1
        <5>1. f[i] = IF i = 1 THEN seqs[i] ELSE f[i - 1] \o seqs[i]
          BY <3>1, <5>0, Zenon
        <5>2. g[i] = f[i] /\ (i # 1 => g[i - 1] = f[i - 1])
          BY <4>1
        <5> QED
          BY <5>1, <5>2
      <4>2. CASE i = k + 1
        <5>1. i # 1 => g[i - 1] = f[i - 1]
          BY <4>2
        <5>2. g[i] = IF i = 1 THEN seqs[i] ELSE f[i - 1] \o seqs[i]
          BY <4>2
        <5> QED
          BY <5>1, <5>2
      <4> QED
        BY <4>1, <4>2
    <3>3. g = [i \in 1..(k + 1) |-> g[i]]
      OBVIOUS
    <3> HIDE DEF g
    <3>4. Joins(g, k + 1)
      BY <3>2, <3>3
    <3> QED
      BY <3>4
  <2> HIDE DEF S
  <2> QED
    BY <2>1, <2>2, UpFromZero
<1>4. Joins(flatten, n)
  <2> HIDE DEF Joins
  <2>1. \E f : Joins(f, n)
    BY <1>1, <1>3
  <2> QED
    BY <2>1
<1>5. \A i \in 1..n : flatten[i] = IF i = 1 THEN seqs[i] ELSE flatten[i - 1] \o seqs[i]
  <2> HIDE DEF flatten
  <2> QED
    BY <1>4
<1>6. \A k \in Nat : k \in 1..n => flatten[k] \in Seq(P)
  <2> DEFINE U == {k \in Nat : k \in 1..n => flatten[k] \in Seq(P)}
  <2> HIDE DEF flatten
  <2>1. 0 \in U
    OBVIOUS
  <2>2. ASSUME NEW k \in Nat, k \in U PROVE k + 1 \in U
    <3> SUFFICES ASSUME k + 1 \in 1..n PROVE flatten[k + 1] \in Seq(P)
      OBVIOUS
    <3>1. flatten[k + 1] = IF k + 1 = 1 THEN seqs[k + 1] ELSE flatten[(k + 1) - 1] \o seqs[k + 1]
      BY <1>5
    <3>2. seqs[k + 1] \in Seq(P) /\ (k + 1) - 1 = k
      BY <1>1
    <3>3. k + 1 # 1 => flatten[k] \in Seq(P)
      BY <1>1, <2>2
    <3> HIDE DEF n
    <3> QED
      BY <3>1, <3>2, <3>3
  <2> HIDE DEF U
  <2>3. \A k \in Nat : k \in U
    BY <2>1, <2>2, UpFromZero
  <2> QED
    BY <2>3 DEF U
<1>7. CASE n # 0
  <2>1. FlattenSeq(seqs) = flatten[n]
    BY <1>7 DEF FlattenSeq
  <2>2. n \in 1..n
    BY <1>1, <1>7
  <2> HIDE DEF flatten, n
  <2> QED
    BY <1>1, <1>6, <2>1, <2>2
<1> QED
  BY <1>2, <1>7

\* A part of a sequence, from a place that may be beyond its end.
LEMMA SubSeqTyped ==
  ASSUME NEW P, NEW t, t \in Seq(P), NEW i \in Nat
  PROVE  SubSeq(t, i + 1, Len(t)) \in Seq(P)
<1>1. CASE i + 1 <= Len(t)
  BY <1>1, SubSeqProperties
<1>2. CASE i + 1 > Len(t)
  BY <1>2, SubSeqEmpty
<1> QED
  BY <1>1, <1>2

\* A sequence is a prefix of itself continued.
LEMMA PrefixOfConcat ==
  ASSUME NEW P, NEW out, out \in Seq(P), NEW s, s \in Seq(P)
  PROVE  IsPrefix(out, out \o s)
<1> DEFINE t == out \o s
           n == Len(out)
<1>1. /\ n \in Nat /\ t \in Seq(P) /\ Len(t) = n + Len(s) /\ Len(s) \in Nat
      /\ \A i \in 1..n : t[i] = out[i]
  BY ConcatProperties
<1> HIDE DEF t
<1>2. n <= Len(t)
  BY <1>1
<1>3. SubSeq(out, 1, n) = SubSeq(t, 1, n)
  <2>1. SubSeq(out, 1, n) = [i \in 1..n |-> out[i]] /\ SubSeq(t, 1, n) = [i \in 1..n |-> t[i]]
    BY <1>1, <1>2
  <2> QED
    BY <1>1, <2>1
<1> QED
  BY <1>2, <1>3 DEF IsPrefix, t

-------------------------------------------------------------------------------
(* Executors *)

Commit == [kind |-> "commit", name |-> SeNone]
AllExprs == Exprs \cup {Commit}
AllPieces == {x.id : x \in AllExprs} \X Nat

HasInHand(exe) == IF exe.pc \in {"exec", "drain"} THEN 1 ELSE 0

\* An executor with the fields of one, items that are lists of expressions of E
\* and a text of pieces of P, whose queue counts right.
Sound(exe, E, P) ==
  /\ DOMAIN exe = DOMAIN NoExe
  /\ exe.queue \in Seq(Seq(E)) /\ exe.item \in Seq(E)
  /\ exe.text \in Seq(P) /\ exe.forkPos \in Nat /\ exe.at \in Nat
  /\ exe.unfinished = Len(exe.queue) + HasInHand(exe)

\* What a step may do with an executor: leave it sound, with more text or as much.
GoesOn(exe, new, E, P) ==
  /\ Sound(new, E, P)
  /\ \E s \in Seq(P) : new.text = exe.text \o s

\* What the reader of the whole text has been given.
ReaderFollows ==
  OfText => /\ seReader.out \in Seq(AllPieces)
            /\ \E s \in Seq(AllPieces) : Root.text = seReader.out \o s

StreamInv ==
  /\ seProgram \in SePrograms /\ seOp \in Nat \ {0}
  /\ DOMAIN seExe = SeExes /\ \A e \in SeExes : Sound(seExe[e], AllExprs, AllPieces)
  /\ DOMAIN seReader = {"of", "at", "out", "late"}
  /\ ReaderFollows

\* What the assumptions say of the expressions of the program.
LEMMA ProgramTyped ==
  ASSUME seProgram \in SePrograms
  PROVE  /\ Len(seProgram) \in Nat /\ DOMAIN seProgram = 1..Len(seProgram)
         /\ \A i \in DOMAIN seProgram : /\ seProgram[i].do = "submit" => seProgram[i].item \in Seq(AllExprs)
                                        /\ seProgram[i].do = "fork" => SeRoot \notin Range(seProgram[i].kids)
         /\ \A x \in AllExprs : /\ x.kind = "gen" => x.chunks \in Nat
                                /\ x.kind = "append" => x.kids \in Seq(SeExes)
         /\ \A x \in AllExprs, i \in Nat : <<x.id, i>> \in AllPieces
<1>1. seProgram \in Seq(Range(seProgram))
  BY StreamAssumption
<1>2. ASSUME NEW i \in DOMAIN seProgram, seProgram[i].do = "submit" PROVE seProgram[i].item \in Seq(AllExprs)
  <2>1. seProgram[i].item \in Seq(Range(seProgram[i].item))
    BY <1>2, StreamAssumption
  <2>2. Range(seProgram[i].item) \subseteq AllExprs
    BY <1>2 DEF AllExprs, Exprs
  <2> QED
    BY <2>1, <2>2
<1>3. ASSUME NEW i \in DOMAIN seProgram, seProgram[i].do = "fork" PROVE SeRoot \notin Range(seProgram[i].kids)
  <2>1. seProgram[i].kids \in Seq(SeExes \ {SeRoot})
    BY <1>3, StreamAssumption
  <2> QED
    BY <2>1 DEF Range
<1>4. ASSUME NEW x \in AllExprs
      PROVE  /\ x.kind = "gen" => x.chunks \in Nat
             /\ x.kind = "append" => x.kids \in Seq(SeExes)
  <2>1. CASE x = Commit
    BY <2>1 DEF Commit
  <2>2. CASE x \in Exprs
    <3>1. PICK i \in {j \in DOMAIN seProgram : seProgram[j].do = "submit"} : x \in Range(seProgram[i].item)
      BY <2>2 DEF Exprs
    <3> QED
      BY <3>1, StreamAssumption
  <2> QED
    BY <2>1, <2>2 DEF AllExprs
<1> QED
  BY <1>1, <1>2, <1>3, <1>4 DEF AllPieces

\* An executor that keeps its text goes on with none.
LEMMA SameText ==
  ASSUME NEW E, NEW P, NEW exe, Sound(exe, E, P), NEW new, Sound(new, E, P), new.text = exe.text
  PROVE  GoesOn(exe, new, E, P)
<1>1. exe.text = exe.text \o <<>> /\ <<>> \in Seq(P)
  BY DEF Sound
<1> QED
  BY <1>1 DEF GoesOn

\* The transformations that the steps of a worker are made of.
LEMMA ExecutedSound ==
  ASSUME NEW E, NEW P, NEW exe, Sound(exe, E, P), exe.item # <<>>
  PROVE  Sound(Executed(exe), E, P) /\ Executed(exe).text = exe.text
BY DEF Sound, Executed, HasInHand, NoExe

\* More text.
LEMMA SaidSound ==
  ASSUME NEW E, NEW P, NEW exe, Sound(exe, E, P), NEW s, s \in Seq(P)
  PROVE  /\ Sound(Said(exe, s), E, P) /\ Said(exe, s).text = exe.text \o s
         /\ Said(exe, s).item = exe.item
BY DEF Sound, Said, HasInHand, NoExe

\* An expression is executed that adds to the text.
LEMMA SaidAndDone ==
  ASSUME NEW E, NEW P, NEW old, Sound(old, E, P), NEW exe, Sound(exe, E, P),
         exe.text = old.text, exe.item # <<>>, NEW s, s \in Seq(P)
  PROVE  GoesOn(old, Executed(Said(exe, s)), E, P)
<1> DEFINE said == Said(exe, s)
<1>1. Sound(said, E, P) /\ said.text = old.text \o s /\ said.item # <<>>
  <2>0. Sound(said, E, P)
    BY SaidSound
  <2>1. said.text = exe.text \o s
    BY DEF Sound, Said, NoExe
  <2>2. said.item = exe.item
    BY SaidSound
  <2> QED
    BY <2>0, <2>1, <2>2, Zenon
<1> HIDE DEF said
<1>2. Sound(Executed(said), E, P) /\ Executed(said).text = old.text \o s
  BY <1>1, ExecutedSound
<1> QED
  BY <1>2 DEF GoesOn, said

\* How far an answer has come is not in what must be sound of an executor.
LEMMA AtSound ==
  ASSUME NEW E, NEW P, NEW exe, Sound(exe, E, P), NEW i \in Nat
  PROVE  Sound([exe EXCEPT !.at = i], E, P) /\ [exe EXCEPT !.at = i].text = exe.text
BY DEF Sound, HasInHand, NoExe

\* A variable bound.
LEMMA BoundSound ==
  ASSUME NEW E, NEW P, NEW exe, Sound(exe, E, P), NEW n, NEW v
  PROVE  /\ Sound(Bound(exe, n, v), E, P) /\ Bound(exe, n, v).text = exe.text
         /\ Bound(exe, n, v).item = exe.item
BY DEF Sound, Bound, HasInHand, NoExe

\* A variable announced, or its waiters woken.
LEMMA AnnouncedSound ==
  ASSUME NEW E, NEW P, NEW exe, Sound(exe, E, P), NEW n
  PROVE  /\ Sound(Announced(exe, n), E, P) /\ Announced(exe, n).text = exe.text
         /\ Announced(exe, n).item = exe.item
         /\ Sound(Woken(exe, n), E, P) /\ Woken(exe, n).text = exe.text
BY DEF Sound, Announced, Woken, HasInHand, NoExe

\* An item put into the queue is counted.
LEMMA PutSound ==
  ASSUME NEW E, NEW P, NEW exe, Sound(exe, E, P), NEW item \in Seq(E)
  PROVE  Sound(Put(exe, item), E, P) /\ Put(exe, item).text = exe.text
<1>1. /\ Append(exe.queue, item) \in Seq(Seq(E)) /\ Len(Append(exe.queue, item)) = Len(exe.queue) + 1
      /\ Len(exe.queue) \in Nat
  BY DEF Sound
<1> QED
  BY <1>1 DEF Sound, Put, HasInHand, NoExe

-------------------------------------------------------------------------------
(* The steps of a worker *)

\* Only the executor e changes, and it goes on.
OnlyGoesOn(e) ==
  /\ DOMAIN seExe' = SeExes
  /\ \A o \in SeExes \ {e} : seExe'[o] = seExe[o]
  /\ GoesOn(seExe[e], seExe'[e], AllExprs, AllPieces)

\* An executor that is replaced by one that goes on.
LEMMA Replaced ==
  ASSUME StreamInv, NEW e \in SeExes, NEW new, GoesOn(seExe[e], new, AllExprs, AllPieces),
         seExe' = [seExe EXCEPT ![e] = new]
  PROVE  OnlyGoesOn(e)
BY DEF StreamInv, OnlyGoesOn

\* Taking an item from the queue into the hand, or the empty one that ends the worker.
LEMMA TakeItemGoesOn ==
  ASSUME StreamInv, NEW e \in SeExes, TakeItem(e)
  PROVE  OnlyGoesOn(e)
<1> DEFINE exe == seExe[e]
           item == Head(exe.queue)
           new == [exe EXCEPT !.queue = Tail(exe.queue), !.item = item, !.at = 0,
                              !.unfinished = IF item = <<>> THEN NoneDone(exe) ELSE exe.unfinished,
                              !.pc = IF item = <<>> THEN "last" ELSE "exec"]
<1>1. Sound(exe, AllExprs, AllPieces) /\ exe.pc = "get" /\ exe.queue # <<>>
  BY DEF StreamInv, TakeItem, Worker
<1>2. seExe' = [seExe EXCEPT ![e] = new]
  BY DEF TakeItem, StreamInv
<1>3. /\ item \in Seq(AllExprs) /\ Tail(exe.queue) \in Seq(Seq(AllExprs))
      /\ Len(Tail(exe.queue)) = Len(exe.queue) - 1 /\ Len(exe.queue) \in Nat
  BY <1>1 DEF Sound
<1> HIDE DEF exe
<1>4. Sound(new, AllExprs, AllPieces) /\ new.text = exe.text
  BY <1>1, <1>3 DEF Sound, HasInHand, NoExe, NoneDone
<1>5. GoesOn(exe, new, AllExprs, AllPieces)
  <2> HIDE DEF new
  <2> QED
    BY <1>1, <1>4, SameText
<1> HIDE DEF new
<1> QED
  BY <1>2, <1>5, Replaced DEF exe

\* The item in hand is done when its last expression is.
LEMMA TaskDoneGoesOn ==
  ASSUME StreamInv, NEW e \in SeExes, TaskDone(e)
  PROVE  OnlyGoesOn(e)
<1> DEFINE exe == seExe[e]
           new == [exe EXCEPT !.unfinished = exe.unfinished - 1, !.textEvent = seStream, !.pc = "get"]
<1>1. Sound(exe, AllExprs, AllPieces) /\ exe.pc = "exec"
  BY DEF StreamInv, TaskDone, Worker
<1>2. seExe' = [seExe EXCEPT ![e] = new]
  BY DEF TaskDone, StreamInv
<1> HIDE DEF exe
<1>3. Len(exe.queue) \in Nat
  BY <1>1 DEF Sound
<1>4. Sound(new, AllExprs, AllPieces) /\ new.text = exe.text
  BY <1>1, <1>3 DEF Sound, HasInHand, NoExe
<1> HIDE DEF new
<1>5. GoesOn(exe, new, AllExprs, AllPieces)
  BY <1>1, <1>4, SameText
<1> QED
  BY <1>2, <1>5, Replaced DEF exe

\* What is known of the expression that is executed.
LEMMA ExecutingTyped ==
  ASSUME StreamInv, NEW e \in SeExes, NEW kind, Executing(e, kind)
  PROVE  /\ Sound(seExe[e], AllExprs, AllPieces) /\ seExe[e].item # <<>> /\ seExe[e].pc = "exec"
         /\ Head(seExe[e].item) \in AllExprs /\ Head(seExe[e].item).kind = kind
         /\ \A i \in Nat : <<Head(seExe[e].item).id, i>> \in AllPieces
         /\ kind = "gen" => Head(seExe[e].item).chunks \in Nat
         /\ kind = "append" => Head(seExe[e].item).kids \in Seq(SeExes)
<1>1. Sound(seExe[e], AllExprs, AllPieces) /\ seExe[e].item # <<>> /\ seExe[e].pc = "exec"
  BY DEF StreamInv, Executing, Worker
<1>2. Head(seExe[e].item) \in AllExprs /\ Head(seExe[e].item).kind = kind
  BY <1>1 DEF Sound, Executing
<1> QED
  BY <1>1, <1>2, ProgramTyped DEF StreamInv

\* Filling in, selecting: the text grows by a piece.
LEMMA SayingGoesOn ==
  ASSUME StreamInv, NEW e \in SeExes, Fill(e) \/ ExecuteSelect(e)
  PROVE  OnlyGoesOn(e)
<1> DEFINE exe == seExe[e]
           x == Head(exe.item)
           s == <<<<x.id, 1>>>>
           b == Bound(exe, x.name, Text(s))
           bound == Announced(b, x.name)
<1>1. Sound(exe, AllExprs, AllPieces) /\ exe.item # <<>> /\ <<x.id, 1>> \in AllPieces
  BY ExecutingTyped DEF Fill, ExecuteSelect
<1>2. Fill(e) => seExe' = [seExe EXCEPT ![e] = Executed(Said(exe, s))]
  BY DEF Fill
<1>3. ExecuteSelect(e) => seExe' = [seExe EXCEPT ![e] = Executed(Said(bound, s))]
  BY DEF ExecuteSelect
<1> HIDE DEF x
<1>4. s \in Seq(AllPieces)
  BY <1>1
<1> HIDE DEF s, exe
<1>5. GoesOn(exe, Executed(Said(exe, s)), AllExprs, AllPieces)
  BY <1>1, <1>4, SaidAndDone
<1>6. Sound(b, AllExprs, AllPieces) /\ b.text = exe.text /\ b.item # <<>>
  BY <1>1, BoundSound
<1> HIDE DEF b
<1>7. Sound(bound, AllExprs, AllPieces) /\ bound.text = exe.text /\ bound.item # <<>>
  BY <1>6, AnnouncedSound
<1> HIDE DEF bound
<1>8. GoesOn(exe, Executed(Said(bound, s)), AllExprs, AllPieces)
  BY <1>1, <1>4, <1>7, SaidAndDone
<1> QED
  BY <1>2, <1>3, <1>5, <1>8, Replaced DEF exe

\* A chunk of an answer, or all of it.
LEMMA ChunkGoesOn ==
  ASSUME NEW E, NEW P, NEW exe, Sound(exe, E, P), NEW x, x.chunks \in Nat, \A i \in Nat : <<x.id, i>> \in P
  PROVE  GoesOn(exe, Chunk(exe, x), E, P)
<1>1. CASE seStream /\ exe.at = 0
  <2> DEFINE b == Bound(exe, x.name, Text(<<>>))
             new == [b EXCEPT !.at = 1, !.streamSet = @ \cup {x.name}]
  <2>1. Chunk(exe, x) = new
    BY <1>1 DEF Chunk
  <2>2. Sound(b, E, P) /\ b.text = exe.text
    BY BoundSound
  <2> HIDE DEF b
  <2>3. Sound(new, E, P) /\ new.text = exe.text
    BY <2>2 DEF Sound, HasInHand, NoExe
  <2> HIDE DEF new
  <2> QED
    BY <2>1, <2>3, SameText
<1>2. CASE seStream /\ exe.at # 0
  <2> DEFINE s == <<<<x.id, exe.at>>>>
             said == Said(exe, s)
             value == Text(Append(exe.vars[x.name][2], <<x.id, exe.at>>))
             bound == Bound(said, x.name, value)
             woken == Woken(bound, x.name)
             new == [woken EXCEPT !.at = woken.at + 1]
  <2>1. Chunk(exe, x) = new
    BY <1>2 DEF Chunk
  <2>2. s \in Seq(P)
    BY DEF Sound
  <2> HIDE DEF s
  <2>3. Sound(said, E, P) /\ said.text = exe.text \o s
    BY <2>2, SaidSound
  <2> HIDE DEF said
  <2>4. Sound(bound, E, P) /\ bound.text = exe.text \o s
    BY <2>3, BoundSound
  <2> HIDE DEF bound
  <2>5. Sound(woken, E, P) /\ woken.text = exe.text \o s
    BY <2>4, AnnouncedSound
  <2> HIDE DEF woken
  <2>6. Sound(new, E, P) /\ new.text = exe.text \o s
    <3>1. woken.at + 1 \in Nat
      BY <2>5 DEF Sound
    <3> QED
      BY <2>5, <3>1, AtSound
  <2> HIDE DEF new
  <2> QED
    BY <2>1, <2>2, <2>6 DEF GoesOn
<1>3. CASE ~seStream
  <2> DEFINE all == [i \in 1..x.chunks |-> <<x.id, i>>]
             said == Said(exe, all)
             bound == Bound(said, x.name, Text(all))
             new == [bound EXCEPT !.at = x.chunks + 1]
  <2>1. Chunk(exe, x) = new
    BY <1>3 DEF Chunk
  <2>2. all \in Seq(P)
    <3>1. all \in [1..x.chunks -> P]
      OBVIOUS
    <3> QED
      BY <3>1
  <2> HIDE DEF all
  <2>3. Sound(said, E, P) /\ said.text = exe.text \o all
    BY <2>2, SaidSound
  <2> HIDE DEF said
  <2>4. Sound(bound, E, P) /\ bound.text = exe.text \o all
    BY <2>3, BoundSound
  <2> HIDE DEF bound
  <2>5. Sound(new, E, P) /\ new.text = exe.text \o all
    <3>1. x.chunks + 1 \in Nat
      OBVIOUS
    <3> QED
      BY <2>4, <3>1, AtSound
  <2> HIDE DEF new
  <2> QED
    BY <2>1, <2>2, <2>5 DEF GoesOn
<1> QED
  BY <1>1, <1>2, <1>3

\* Generation, chunk by chunk, and then its event.
LEMMA GenGoesOn ==
  ASSUME StreamInv, NEW e \in SeExes, ExecuteGen(e)
  PROVE  OnlyGoesOn(e)
<1> DEFINE exe == seExe[e]
           x == Head(exe.item)
           woken == Announced(exe, x.name)
<1>1. /\ Sound(exe, AllExprs, AllPieces) /\ exe.item # <<>>
      /\ x.chunks \in Nat /\ \A i \in Nat : <<x.id, i>> \in AllPieces
  BY ExecutingTyped DEF ExecuteGen
<1>2. seExe' = [seExe EXCEPT ![e] = Gen(exe, x)]
  BY DEF ExecuteGen
<1> HIDE DEF x, exe
<1>3. CASE exe.at > x.chunks
  <2>1. Gen(exe, x) = Executed(woken)
    BY <1>3 DEF Gen
  <2>2. Sound(woken, AllExprs, AllPieces) /\ woken.text = exe.text /\ woken.item # <<>>
    BY <1>1, AnnouncedSound
  <2> HIDE DEF woken
  <2>3. Sound(Executed(woken), AllExprs, AllPieces) /\ Executed(woken).text = exe.text
    BY <2>2, ExecutedSound
  <2>4. GoesOn(exe, Executed(woken), AllExprs, AllPieces)
    BY <1>1, <2>3, SameText
  <2> QED
    BY <1>2, <2>1, <2>4, Replaced DEF exe
<1>4. CASE ~(exe.at > x.chunks)
  <2>1. Gen(exe, x) = Chunk(exe, x)
    BY <1>4 DEF Gen
  <2>2. GoesOn(exe, Chunk(exe, x), AllExprs, AllPieces)
    BY <1>1, ChunkGoesOn
  <2> QED
    BY <1>2, <2>1, <2>2, Replaced DEF exe
<1> QED
  BY <1>3, <1>4

\* A scope begins and ends, lazy operations are committed: no text is added.
LEMMA ScopesGoOn ==
  ASSUME StreamInv, NEW e \in SeExes, ScopeBegin(e) \/ ScopeEnd(e) \/ CommitLazy(e)
  PROVE  OnlyGoesOn(e)
<1> DEFINE exe == seExe[e]
<1>1. Sound(exe, AllExprs, AllPieces) /\ exe.item # <<>>
  BY ExecutingTyped DEF ScopeBegin, ScopeEnd, CommitLazy
<1>2. ASSUME NEW new, Sound(new, AllExprs, AllPieces), new.text = exe.text, new.item # <<>>,
             seExe' = [seExe EXCEPT ![e] = Executed(new)]
      PROVE  OnlyGoesOn(e)
  <2>1. Sound(Executed(new), AllExprs, AllPieces) /\ Executed(new).text = exe.text
    BY <1>2, ExecutedSound
  <2>2. GoesOn(exe, Executed(new), AllExprs, AllPieces)
    BY <1>1, <2>1, SameText
  <2> QED
    BY <1>2, <2>2, Replaced
<1>3. CASE CommitLazy(e)
  BY <1>1, <1>2, <1>3 DEF CommitLazy
<1>4. ASSUME NEW n, NEW v PROVE /\ Sound(Bound(exe, n, v), AllExprs, AllPieces)
                                /\ Bound(exe, n, v).text = exe.text /\ Bound(exe, n, v).item # <<>>
  BY <1>1, BoundSound
<1>5. CASE ScopeBegin(e)
  <2>1. seExe' = [seExe EXCEPT ![e] = Executed(Bound(exe, Head(exe.item).name, <<"at", Len(exe.text)>>))]
    BY <1>5 DEF ScopeBegin
  <2> HIDE DEF exe
  <2> QED
    BY <1>2, <1>4, <2>1
<1>6. CASE ScopeEnd(e)
  <2> DEFINE n == Head(exe.item).name
             bound == Bound(exe, n, Text(SubSeq(exe.text, exe.vars[n][2] + 1, Len(exe.text))))
             new == [bound EXCEPT !.set = @ \cup {n}]
  <2>1. seExe' = [seExe EXCEPT ![e] = Executed(new)]
    BY <1>6 DEF ScopeEnd
  <2>2. Sound(bound, AllExprs, AllPieces) /\ bound.text = exe.text /\ bound.item # <<>>
    BY <1>4
  <2> HIDE DEF bound
  <2>3. Sound(new, AllExprs, AllPieces) /\ new.text = exe.text /\ new.item # <<>>
    BY <2>2 DEF Sound, HasInHand, NoExe
  <2> HIDE DEF new
  <2> QED
    BY <1>2, <2>1, <2>3
<1> QED
  BY <1>3, <1>5, <1>6

\* What the children have said since the fork is added to the text.
LEMMA ConcatenateGoesOn ==
  ASSUME StreamInv, NEW e \in SeExes, Concatenate(e)
  PROVE  OnlyGoesOn(e)
<1> DEFINE exe == seExe[e]
           kids == Head(exe.item).kids
           said == [i \in DOMAIN kids |-> SinceFork(kids[i])]
           s == FlattenSeq(said)
<1>1. Sound(exe, AllExprs, AllPieces) /\ exe.item # <<>> /\ kids \in Seq(SeExes)
  BY ExecutingTyped DEF Concatenate
<1>2. ASSUME NEW k \in SeExes PROVE SinceFork(k) \in Seq(AllPieces)
  <2>1. seExe[k].text \in Seq(AllPieces) /\ seExe[k].forkPos \in Nat
    BY DEF StreamInv, Sound
  <2> QED
    BY <2>1, SubSeqTyped DEF SinceFork
<1>3. seExe' = [seExe EXCEPT ![e] = Executed(Said(exe, s))]
  BY DEF Concatenate
<1> HIDE DEF kids
<1>4. said \in Seq(Seq(AllPieces))
  <2>1. DOMAIN kids = 1..Len(kids) /\ Len(kids) \in Nat /\ \A i \in DOMAIN kids : kids[i] \in SeExes
    BY <1>1
  <2>2. said \in [1..Len(kids) -> Seq(AllPieces)]
    BY <1>2, <2>1
  <2>3. \A m \in Nat : \A q \in [1..m -> Seq(AllPieces)] : q \in Seq(Seq(AllPieces))
    OBVIOUS
  <2> HIDE DEF said
  <2> QED
    BY <2>1, <2>2, <2>3
<1> HIDE DEF said
<1>5. s \in Seq(AllPieces)
  BY <1>4, FlattenTyped
<1> HIDE DEF s
<1>6. GoesOn(exe, Executed(Said(exe, s)), AllExprs, AllPieces)
  <2> HIDE DEF exe
  <2> QED
    BY <1>1, <1>5, SaidAndDone
<1> QED
  BY <1>3, <1>6, Replaced

\* The clean-up after an error, as far as the queue: what is in hand is done, then the next
\* item is taken from the queue, until there is none.
LEMMA DrainingGoesOn ==
  ASSUME StreamInv, NEW e \in SeExes, Fails(e) \/ DrainDone(e) \/ DrainGet(e)
  PROVE  OnlyGoesOn(e)
<1> DEFINE exe == seExe[e]
           failed == [exe EXCEPT !.pc = AfterError]
           done == [exe EXCEPT !.unfinished = exe.unfinished - 1, !.pc = "drained"]
           over == [exe EXCEPT !.pc = "events", !.left = exe.made, !.size = Cardinality(exe.made)]
           next == [exe EXCEPT !.queue = Tail(exe.queue), !.pc = "drain"]
<1>1. Sound(exe, AllExprs, AllPieces)
  BY DEF StreamInv
<1>2. /\ Fails(e) => exe.pc = "exec" /\ seExe' = [seExe EXCEPT ![e] = failed]
      /\ DrainDone(e) => exe.pc = "drain" /\ seExe' = [seExe EXCEPT ![e] = done]
      /\ DrainGet(e) => exe.pc = "drained" /\ seExe' = [seExe EXCEPT ![e] = Drained(exe)]
  BY DEF StreamInv, Fails, Executing, DrainDone, DrainGet, Worker
<1> HIDE DEF exe
<1>3. Drained(exe) = IF exe.queue = <<>> THEN over ELSE next
  BY DEF Drained
<1>4. exe.pc = "exec" => Sound(failed, AllExprs, AllPieces) /\ failed.text = exe.text
  BY <1>1 DEF Sound, HasInHand, NoExe, AfterError
<1>5. exe.pc = "drain" => Sound(done, AllExprs, AllPieces) /\ done.text = exe.text
  <2>1. Len(exe.queue) \in Nat
    BY <1>1 DEF Sound
  <2> QED
    BY <1>1, <2>1 DEF Sound, HasInHand, NoExe
<1>6. exe.pc = "drained" /\ exe.queue = <<>> => Sound(over, AllExprs, AllPieces) /\ over.text = exe.text
  BY <1>1 DEF Sound, HasInHand, NoExe
<1>7. exe.pc = "drained" /\ exe.queue # <<>> => Sound(next, AllExprs, AllPieces) /\ next.text = exe.text
  <2>1. /\ Len(exe.queue) \in Nat
        /\ exe.queue # <<>> => /\ Tail(exe.queue) \in Seq(Seq(AllExprs))
                               /\ Len(Tail(exe.queue)) = Len(exe.queue) - 1
    BY <1>1 DEF Sound
  <2> QED
    BY <1>1, <2>1 DEF Sound, HasInHand, NoExe
<1> HIDE DEF failed, done, over, next
<1>8. ASSUME NEW new, Sound(new, AllExprs, AllPieces), new.text = exe.text, seExe' = [seExe EXCEPT ![e] = new]
      PROVE  OnlyGoesOn(e)
  <2>1. GoesOn(exe, new, AllExprs, AllPieces)
    BY <1>1, <1>8, SameText
  <2> QED
    BY <1>8, <2>1, Replaced DEF exe
<1>9. CASE Fails(e)
  BY <1>2, <1>4, <1>8, <1>9
<1>10. CASE DrainDone(e)
  BY <1>2, <1>5, <1>8, <1>10
<1>11. CASE DrainGet(e)
  BY <1>2, <1>3, <1>6, <1>7, <1>8, <1>11
<1> QED
  BY <1>9, <1>10, <1>11

\* The events are set, the worker ends.
LEMMA EndingGoesOn ==
  ASSUME StreamInv, NEW e \in SeExes, SetEvents(e) \/ WakeReader(e) \/ Finish(e)
  PROVE  OnlyGoesOn(e)
<1> DEFINE exe == seExe[e]
           Left(n) == [exe EXCEPT !.left = exe.left \ {n}]
           crashed == [exe EXCEPT !.pc = "crashed"]
           last == [exe EXCEPT !.error = TRUE, !.pc = "last"]
           woken == [exe EXCEPT !.textEvent = seStream, !.pc = "finish"]
           dead == [exe EXCEPT !.finished = TRUE, !.pc = "dead"]
<1>1. Sound(exe, AllExprs, AllPieces)
  BY DEF StreamInv
<1>2. exe.pc \in {"events", "last", "finish"}
  BY DEF SetEvents, WakeReader, Finish, Worker
<1>3. \/ \E n : seExe' = [seExe EXCEPT ![e] = Announced(Left(n), n)]
      \/ seExe' = [seExe EXCEPT ![e] = crashed] \/ seExe' = [seExe EXCEPT ![e] = last]
      \/ seExe' = [seExe EXCEPT ![e] = woken] \/ seExe' = [seExe EXCEPT ![e] = dead]
  <2>1. CASE SetEvents(e)
    <3>1. CASE seExe' = [seExe EXCEPT ![e].pc = "crashed"]
      BY <3>1 DEF StreamInv
    <3>2. CASE seExe' = [seExe EXCEPT ![e].error = TRUE, ![e].pc = "last"]
      BY <3>2 DEF StreamInv
    <3>3. CASE \E n \in seExe[e].left : seExe' = [seExe EXCEPT ![e] = Announced([seExe[e] EXCEPT !.left = @ \ {n}], n)]
      BY <3>3
    <3> QED
      BY <2>1, <3>1, <3>2, <3>3 DEF SetEvents
  <2>2. CASE WakeReader(e)
    BY <2>2 DEF WakeReader, StreamInv
  <2>3. CASE Finish(e)
    BY <2>3 DEF Finish, StreamInv
  <2> QED
    BY <2>1, <2>2, <2>3
<1> HIDE DEF exe
<1>4. \A n : Sound(Left(n), AllExprs, AllPieces) /\ Left(n).text = exe.text
  BY <1>1, <1>2 DEF Sound, HasInHand, NoExe
<1>5. /\ Sound(crashed, AllExprs, AllPieces) /\ crashed.text = exe.text
      /\ Sound(last, AllExprs, AllPieces) /\ last.text = exe.text
  BY <1>1, <1>2 DEF Sound, HasInHand, NoExe
<1>6. /\ Sound(woken, AllExprs, AllPieces) /\ woken.text = exe.text
      /\ Sound(dead, AllExprs, AllPieces) /\ dead.text = exe.text
  BY <1>1, <1>2 DEF Sound, HasInHand, NoExe
<1> HIDE DEF Left, crashed, last, woken, dead
<1>7. \A n : Sound(Announced(Left(n), n), AllExprs, AllPieces) /\ Announced(Left(n), n).text = exe.text
  BY <1>4, AnnouncedSound
<1>8. ASSUME NEW new, Sound(new, AllExprs, AllPieces), new.text = exe.text, seExe' = [seExe EXCEPT ![e] = new]
      PROVE  OnlyGoesOn(e)
  <2>1. GoesOn(exe, new, AllExprs, AllPieces)
    BY <1>1, <1>8, SameText
  <2> QED
    BY <1>8, <2>1, Replaced DEF exe
<1> QED
  BY <1>3, <1>5, <1>6, <1>7, <1>8

\* A worker's step changes its own executor only, and that one goes on.
LEMMA WorkerGoesOn ==
  ASSUME StreamInv, NEW e \in SeExes, WorkerStep(e)
  PROVE  OnlyGoesOn(e)
BY TakeItemGoesOn, TaskDoneGoesOn, SayingGoesOn, GenGoesOn, ScopesGoOn, ConcatenateGoesOn, DrainingGoesOn,
   EndingGoesOn DEF WorkerStep

-------------------------------------------------------------------------------
(* Any step of the executors *)

\* All stay sound, and the text of the program's state grows or stays.
Forward ==
  /\ DOMAIN seExe' = SeExes /\ \A e \in SeExes : Sound(seExe'[e], AllExprs, AllPieces)
  /\ GoesOn(Root, seExe'[SeRoot], AllExprs, AllPieces)

\* An executor that is left alone goes on.
LEMMA AloneGoesOn ==
  ASSUME StreamInv, NEW e \in SeExes
  PROVE  GoesOn(seExe[e], seExe[e], AllExprs, AllPieces)
<1>1. Sound(seExe[e], AllExprs, AllPieces)
  BY DEF StreamInv
<1> QED
  BY <1>1, SameText

\* When each executor goes on, all do.
LEMMA EachForward ==
  ASSUME StreamInv, DOMAIN seExe' = SeExes,
         \A e \in SeExes : GoesOn(seExe[e], seExe'[e], AllExprs, AllPieces)
  PROVE  Forward
<1>1. SeRoot \in SeExes
  BY StreamAssumption
<1> QED
  BY <1>1 DEF Forward, GoesOn, Root

\* No text is taken back by a worker.
LEMMA WorkerForward ==
  ASSUME StreamInv, NEW e \in SeExes, OnlyGoesOn(e)
  PROVE  Forward
<1>1. \A o \in SeExes : GoesOn(seExe[o], seExe'[o], AllExprs, AllPieces)
  BY AloneGoesOn DEF OnlyGoesOn
<1> QED
  BY <1>1, EachForward DEF OnlyGoesOn

\* One executor, or none of these, is replaced.
LEMMA OneForward ==
  ASSUME StreamInv, NEW e, NEW new, seExe' = [seExe EXCEPT ![e] = new],
         e \in SeExes => GoesOn(seExe[e], new, AllExprs, AllPieces)
  PROVE  Forward
<1>1. DOMAIN seExe' = SeExes
  BY DEF StreamInv
<1>2. \A o \in SeExes : seExe'[o] = IF o = e THEN new ELSE seExe[o]
  BY DEF StreamInv
<1>3. \A o \in SeExes : GoesOn(seExe[o], seExe'[o], AllExprs, AllPieces)
  BY <1>2, AloneGoesOn
<1> QED
  BY <1>1, <1>3, EachForward

\* The same executors.
LEMMA StandForward ==
  ASSUME StreamInv, UNCHANGED seExe
  PROVE  Forward
BY AloneGoesOn, EachForward DEF StreamInv

\* The empty item that ends a worker is counted too.
LEMMA EndForward ==
  ASSUME StreamInv, NEW kids, seExe' = WithEnd(kids)
  PROVE  Forward
<1>1. ASSUME NEW e \in SeExes PROVE GoesOn(seExe[e], seExe'[e], AllExprs, AllPieces)
  <2>1. seExe'[e] = IF e \in kids /\ Alive(e) THEN Put(seExe[e], <<>>) ELSE seExe[e]
    BY DEF WithEnd
  <2>2. Sound(seExe[e], AllExprs, AllPieces) /\ <<>> \in Seq(AllExprs)
    BY DEF StreamInv
  <2>3. Sound(Put(seExe[e], <<>>), AllExprs, AllPieces) /\ Put(seExe[e], <<>>).text = seExe[e].text
    BY <2>2, PutSound
  <2>4. GoesOn(seExe[e], Put(seExe[e], <<>>), AllExprs, AllPieces)
    BY <2>2, <2>3, SameText
  <2> QED
    BY <2>1, <2>4, AloneGoesOn
<1> QED
  BY <1>1, EachForward DEF WithEnd

-------------------------------------------------------------------------------
(* The steps of the program *)

\* The operation that the program is at.
LEMMA OpTyped ==
  ASSUME StreamInv, NEW do, NEW step, Ongoing(do, step)
  PROVE  /\ Op.do = do
         /\ do # "end" => Op.exe \in SeExes
         /\ do = "submit" => Op.item \in Seq(AllExprs)
         /\ do = "fork" => SeRoot \notin Range(Op.kids)
<1>1. seOp \in DOMAIN seProgram
  BY ProgramTyped DEF StreamInv, Ongoing
<1>2. seProgram[seOp].do # "end" => seProgram[seOp].exe \in SeExes
  BY <1>1, StreamAssumption DEF StreamInv
<1> QED
  BY <1>1, <1>2, ProgramTyped DEF StreamInv, Ongoing, Op

\* Submitting: the events of the names, then the item in the queue, counted.
LEMMA SubmitForward ==
  ASSUME StreamInv, InitVarEvent \/ Submit
  PROVE  Forward
<1> DEFINE o == Op.exe
           item == Op.item
           evented == [seExe[o] EXCEPT !.made = seExe[o].made \cup EventsOf(item),
                                       !.set = seExe[o].set \ EventsOf(item)]
<1>1. Op.item \in Seq(AllExprs) /\ o \in SeExes
  BY OpTyped DEF InitVarEvent, Submit
<1>2. Sound(seExe[o], AllExprs, AllPieces)
  BY <1>1 DEF StreamInv
<1>3. CASE InitVarEvent
  <2>1. seExe' = [seExe EXCEPT ![o] = evented]
    BY <1>1, <1>3 DEF InitVarEvent, StreamInv
  <2>2. Sound(evented, AllExprs, AllPieces) /\ evented.text = seExe[o].text
    BY <1>2 DEF Sound, HasInHand, NoExe
  <2> HIDE DEF evented
  <2>3. GoesOn(seExe[o], evented, AllExprs, AllPieces)
    BY <1>2, <2>2, SameText
  <2> HIDE DEF o
  <2> QED
    BY <2>1, <2>3, OneForward
<1>4. CASE Submit
  <2>1. seExe' = [seExe EXCEPT ![o] = Put(seExe[o], item)]
    BY <1>4 DEF Submit
  <2>2. GoesOn(seExe[o], Put(seExe[o], item), AllExprs, AllPieces)
    BY <1>1, <1>2, PutSound, SameText
  <2> HIDE DEF o, item
  <2> QED
    BY <2>1, <2>2, OneForward
<1> QED
  BY <1>3, <1>4

\* Before a fork the parent may be given lazy operations to commit.
LEMMA ForkBeginsForward ==
  ASSUME StreamInv, ForkBegins
  PROVE  Forward
<1> DEFINE o == Op.exe
           item == <<[kind |-> "commit", name |-> SeNone]>>
           new == IF Len(Op.kids) > 1 THEN Put(seExe[o], item) ELSE seExe[o]
<1>1. item \in Seq(AllExprs)
  BY DEF AllExprs, Commit
<1>2. o \in SeExes
  BY OpTyped DEF ForkBegins
<1>3. seExe' = [seExe EXCEPT ![o] = new]
  BY DEF ForkBegins
<1> HIDE DEF o, item
<1>4. Sound(seExe[o], AllExprs, AllPieces)
  BY <1>2 DEF StreamInv
<1>5. GoesOn(seExe[o], Put(seExe[o], item), AllExprs, AllPieces)
  BY <1>1, <1>4, PutSound, SameText
<1>6. GoesOn(seExe[o], new, AllExprs, AllPieces)
  BY <1>2, <1>5, AloneGoesOn
<1> HIDE DEF new
<1> QED
  BY <1>3, <1>6, OneForward

\* The children begin with the parent's text and with nothing to do.
LEMMA ForkForward ==
  ASSUME StreamInv, Fork
  PROVE  Forward
<1> DEFINE o == Op.exe
           kid == [NoExe EXCEPT !.pc = "get", !.vars = seExe[o].vars, !.text = seExe[o].text,
                                !.forkPos = Len(seExe[o].text)]
<1>1. SeRoot \notin Range(Op.kids) /\ o \in SeExes
  BY OpTyped DEF Fork
<1>2. seExe' = [e \in SeExes |-> IF e \in Range(Op.kids) THEN kid ELSE seExe[e]]
  BY DEF Fork
<1>3. Sound(kid, AllExprs, AllPieces)
  <2>1. seExe[o].text \in Seq(AllPieces) /\ Len(seExe[o].text) \in Nat
    BY <1>1 DEF StreamInv, Sound
  <2> HIDE DEF o
  <2> QED
    BY <2>1 DEF Sound, HasInHand, NoExe
<1> HIDE DEF kid
<1>4. \A e \in SeExes : Sound(seExe'[e], AllExprs, AllPieces)
  BY <1>2, <1>3 DEF StreamInv
<1>5. SeRoot \in SeExes
  BY StreamAssumption
<1>6. seExe'[SeRoot] = Root
  BY <1>1, <1>2, <1>5 DEF Root
<1>7. GoesOn(Root, Root, AllExprs, AllPieces)
  BY <1>5, AloneGoesOn DEF Root
<1> QED
  BY <1>2, <1>4, <1>6, <1>7 DEF Forward

\* A join gathers variables.
LEMMA GatherForward ==
  ASSUME StreamInv, Gather
  PROVE  Forward
<1> DEFINE o == Op.exe
           kid == Op.kids[seJoin.kid]
           new == DOMAIN seExe[kid].vars \ seJoin.base
           gathered == Gathered(seExe[o], new, seExe[kid].vars)
<1>1. UNCHANGED seExe \/ seExe' = [seExe EXCEPT ![o] = gathered]
  BY DEF Gather
<1>2. ASSUME o \in SeExes PROVE GoesOn(seExe[o], gathered, AllExprs, AllPieces)
  <2>1. Sound(seExe[o], AllExprs, AllPieces)
    BY <1>2 DEF StreamInv
  <2>2. Sound(gathered, AllExprs, AllPieces) /\ gathered.text = seExe[o].text
    <3> HIDE DEF o, new
    <3> QED
      BY <2>1 DEF Sound, HasInHand, NoExe, Gathered
  <2> HIDE DEF gathered
  <2> QED
    BY <2>1, <2>2, SameText
<1> HIDE DEF gathered, o
<1> QED
  BY <1>1, <1>2, OneForward, StandForward

\* Nor by the program, which gives executors to its children and joins them.
LEMMA ProgramForward ==
  ASSUME StreamInv, ProgramStep
  PROVE  Forward
<1>1. CASE GetVar \/ Sync \/ JoinBegins \/ RunSynced
  <2>1. UNCHANGED seExe
    BY <1>1 DEF GetVar, Sync, JoinBegins, RunSynced
  <2> QED
    BY <2>1, StandForward
<1>2. CASE JoinEnds \/ End \/ RunEnds
  <2>1. \E kids : seExe' = WithEnd(kids)
    BY <1>2 DEF JoinEnds, End, RunEnds
  <2> QED
    BY <2>1, EndForward
<1> QED
  BY <1>1, <1>2, SubmitForward, ForkBeginsForward, ForkForward, GatherForward DEF ProgramStep

\* What else a step of the program changes: the operation it is at.
LEMMA ProgramMoves ==
  ASSUME StreamInv, ProgramStep
  PROVE  UNCHANGED <<seProgram, seStream, seReader>> /\ seOp' \in Nat \ {0}
<1>1. Len(seProgram) \in Nat
  BY ProgramTyped DEF StreamInv
<1>2. UNCHANGED seOp \/ seOp' = seOp + 1 \/ seOp' = Len(seProgram) + 1
  BY DEF ProgramStep, InitVarEvent, Submit, GetVar, Sync, ForkBegins, Fork, JoinBegins, Gather, JoinEnds, End,
         RunEnds, RunSynced, Ongoing, NextOp, Raise
<1>3. UNCHANGED <<seProgram, seStream, seReader>>
  BY DEF ProgramStep, InitVarEvent, Submit, GetVar, Sync, ForkBegins, Fork, JoinBegins, Gather, JoinEnds, End,
         RunEnds, RunSynced, Ongoing
<1> QED
  BY <1>1, <1>2, <1>3 DEF StreamInv

-------------------------------------------------------------------------------
(* The steps of the reader *)

\* Waiting clears an event of the program's state.
LEMMA ReaderForward ==
  ASSUME StreamInv, ReaderStep
  PROVE  Forward
<1>1. CASE FindEvent \/ ReadNew \/ CheckEnd
  <2>1. UNCHANGED seExe
    BY <1>1 DEF FindEvent, ReadNew, CheckEnd
  <2> QED
    BY <2>1, StandForward
<1>2. CASE WaitAndClear
  <2> DEFINE ofText == [Root EXCEPT !.textEvent = FALSE]
             ofName == [Root EXCEPT !.streamSet = Root.streamSet \ {seReader.of}]
  <2>1. SeRoot \in SeExes /\ Sound(Root, AllExprs, AllPieces)
    BY StreamAssumption DEF StreamInv, Root
  <2>2. seExe' = [seExe EXCEPT ![SeRoot] = ofText] \/ seExe' = [seExe EXCEPT ![SeRoot] = ofName]
    BY <1>2 DEF WaitAndClear, Root
  <2>3. /\ Sound(ofText, AllExprs, AllPieces) /\ ofText.text = Root.text
        /\ Sound(ofName, AllExprs, AllPieces) /\ ofName.text = Root.text
    <3> HIDE DEF Root
    <3> QED
      BY <2>1 DEF Sound, HasInHand, NoExe
  <2> HIDE DEF ofText, ofName
  <2>4. GoesOn(Root, ofText, AllExprs, AllPieces) /\ GoesOn(Root, ofName, AllExprs, AllPieces)
    BY <2>1, <2>3, SameText
  <2> QED
    BY <2>1, <2>2, <2>4, OneForward DEF Root
<1> QED
  BY <1>1, <1>2 DEF ReaderStep

\* What has not been read of a sequence that begins with what has.
LEMMA UnreadRest ==
  ASSUME NEW P, NEW out, out \in Seq(P), NEW s, s \in Seq(P)
  PROVE  Unread(out, out \o s) = s
<1> DEFINE t == out \o s
           u == SubSeq(t, Len(out) + 1, Len(t))
<1>1. t \in Seq(P) /\ Len(t) = Len(out) + Len(s) /\ Len(out) \in Nat /\ Len(s) \in Nat
  BY ConcatProperties
<1>2. \A i \in 1..Len(s) : t[Len(out) + i] = s[i]
  BY ConcatProperties
<1> HIDE DEF t
<1>3. u \in Seq(P) /\ Len(u) = Len(s) /\ \A i \in 1..Len(s) : u[i] = t[Len(out) + 1 + i - 1]
  <2>1. \A i \in Len(out) + 1 .. Len(t) : t[i] \in P
    BY <1>1
  <2>2. Len(out) + 1 \in Int /\ Len(t) \in Int
    BY <1>1
  <2> QED
    BY <1>1, <2>1, <2>2, SubSeqProperties
<1>4. \A i \in 1..Len(s) : u[i] = s[i]
  <2> DEFINE m == Len(out)
  <2> HIDE DEF u, m
  <2>1. \A i \in 1..Len(s) : m + 1 + i - 1 = m + i
    BY <1>1 DEF m
  <2> QED
    BY <1>2, <1>3, <2>1 DEF m
<1> HIDE DEF u
<1>5. u = s
  BY <1>3, <1>4
<1> QED
  BY <1>5 DEF Unread, t, u

\* The reader has been given a beginning of the text, after its own steps...
LEMMA ReaderStepFollows ==
  ASSUME StreamInv, ReaderStep, Forward
  PROVE  ReaderFollows' /\ DOMAIN seReader' = DOMAIN seReader
<1> DEFINE Q == Seq(AllPieces)
<1>1. /\ seReader'.of = seReader.of /\ DOMAIN seReader' = DOMAIN seReader
      /\ seProgram' = seProgram
  BY DEF StreamInv, ReaderStep, FindEvent, WaitAndClear, ReadNew, CheckEnd, Reader
<1>2. AllPieces' = AllPieces
  BY <1>1 DEF AllPieces, AllExprs, Exprs, Commit
<1> SUFFICES ASSUME OfText PROVE seReader'.out \in Q /\ \E s \in Q : Root'.text = seReader'.out \o s
  BY <1>1, <1>2 DEF ReaderFollows, OfText
<1>3. PICK s \in Q : Root.text = seReader.out \o s
  BY DEF StreamInv, ReaderFollows
<1>4. seReader.out \in Q
  BY DEF StreamInv, ReaderFollows
<1>5. CASE UNCHANGED seExe /\ ReadNew
  <2>1. seReader'.out = seReader.out \o Unread(seReader.out, Root.text)
    BY <1>5 DEF ReadNew, StreamInv
  <2>2. Unread(seReader.out, Root.text) = s
    BY <1>3, <1>4, UnreadRest
  <2>3. Root' = Root
    BY <1>5 DEF Root
  <2>4. Root'.text = seReader'.out
    BY <1>3, <2>1, <2>2, <2>3
  <2>5. Root.text \in Q
    BY StreamAssumption DEF StreamInv, Root, Sound
  <2> DEFINE t == Root.text
  <2> HIDE DEF t
  <2>6. t \in Q /\ seReader'.out = t /\ Root'.text = t
    BY <2>3, <2>4, <2>5 DEF t
  <2>7. <<>> \in Q /\ t = t \o <<>>
    BY <2>6
  <2> QED
    BY <2>6, <2>7
<1>6. CASE seReader'.out = seReader.out /\ Root'.text = Root.text
  BY <1>3, <1>4, <1>6
<1>7. CASE FindEvent \/ CheckEnd
  <2>1. seReader'.out = seReader.out /\ Root' = Root
    BY <1>7 DEF FindEvent, CheckEnd, StreamInv, Root
  <2> QED
    BY <1>6, <2>1
<1>8. CASE WaitAndClear
  <2>1. seReader'.out = seReader.out
    BY <1>8 DEF WaitAndClear, StreamInv
  <2>2. SeRoot \in SeExes /\ DOMAIN Root = DOMAIN NoExe
    BY StreamAssumption DEF StreamInv, Root, Sound
  <2>3. Root'.text = Root.text
    BY <1>8, <2>2 DEF WaitAndClear, StreamInv, Root, NoExe
  <2> QED
    BY <1>6, <2>1, <2>3
<1> QED
  BY <1>5, <1>7, <1>8 DEF ReaderStep, ReadNew

\* ... and when the text has grown.
LEMMA ForwardFollows ==
  ASSUME StreamInv, Forward, UNCHANGED <<seProgram, seReader>>
  PROVE  ReaderFollows'
<1> DEFINE Q == Seq(AllPieces)
<1>1. AllPieces' = AllPieces /\ OfText' = OfText
  BY DEF AllPieces, AllExprs, Exprs, Commit, OfText
<1> SUFFICES ASSUME OfText PROVE seReader.out \in Q /\ \E s \in Q : Root'.text = seReader.out \o s
  BY <1>1 DEF ReaderFollows
<1>2. seReader.out \in Q
  BY DEF StreamInv, ReaderFollows
<1>3. PICK s \in Q : Root.text = seReader.out \o s
  BY DEF StreamInv, ReaderFollows
<1>4. PICK t \in Q : Root'.text = Root.text \o t
  BY DEF Forward, GoesOn, Root
<1>5. Root'.text = (seReader.out \o s) \o t
  BY <1>3, <1>4, Zenon
<1>6. (seReader.out \o s) \o t = seReader.out \o (s \o t)
  <2>1. \A a, b, c \in Q : (a \o b) \o c = a \o (b \o c)
    BY ConcatAssociative
  <2> HIDE DEF Q
  <2> QED
    BY <1>2, <2>1, Zenon
<1>7. s \o t \in Q
  BY ConcatProperties
<1> QED
  BY <1>2, <1>5, <1>6, <1>7

-------------------------------------------------------------------------------
(* The invariant *)

\* Executors that have not begun satisfy the invariant.
LEMMA StreamInvInitially ==
  ASSUME StreamInit
  PROVE  StreamInv
<1>1. seProgram \in SePrograms /\ seOp \in Nat \ {0} /\ DOMAIN seExe = SeExes
  BY DEF StreamInit
<1>2. DOMAIN seReader = {"of", "at", "out", "late"} /\ seReader.out = <<>>
  BY DEF StreamInit
<1>3. ASSUME NEW e \in SeExes PROVE Sound(seExe[e], AllExprs, AllPieces) /\ seExe[e].text = <<>>
  <2>1. seExe[e] = IF e = SeRoot THEN [NoExe EXCEPT !.pc = "get"] ELSE NoExe
    BY DEF StreamInit
  <2> QED
    BY <2>1 DEF Sound, HasInHand, NoExe
<1>4. ReaderFollows
  <2>1. Root.text = <<>>
    BY <1>3, StreamAssumption DEF Root
  <2>2. <<>> \in Seq(AllPieces) /\ <<>> = <<>> \o <<>>
    OBVIOUS
  <2> QED
    BY <1>2, <2>1, <2>2 DEF ReaderFollows
<1> QED
  BY <1>1, <1>2, <1>3, <1>4 DEF StreamInv

\* The invariant is inductive.
LEMMA StreamInvKept ==
  ASSUME StreamInv, [StreamNext]_streamVars
  PROVE  StreamInv'
<1>1. CASE UNCHANGED streamVars
  BY <1>1 DEF streamVars, StreamInv, ReaderFollows, OfText, Root, AllPieces, AllExprs, Exprs, Commit
<1>2. ASSUME Forward, UNCHANGED <<seProgram>>, seOp' \in Nat \ {0}, ReaderFollows', DOMAIN seReader' = DOMAIN seReader
      PROVE  StreamInv'
  <2>1. AllExprs' = AllExprs /\ AllPieces' = AllPieces
    BY <1>2 DEF AllPieces, AllExprs, Exprs, Commit
  <2> QED
    BY <1>2, <2>1 DEF StreamInv, Forward
<1>3. CASE \E e \in SeExes : WorkerStep(e)
  <2>1. PICK e \in SeExes : WorkerStep(e)
    BY <1>3
  <2>2. Forward
    BY <2>1, WorkerGoesOn, WorkerForward
  <2>3. UNCHANGED <<seProgram, seOp, seReader>>
    BY <2>1 DEF WorkerStep, TakeItem, TaskDone, Fill, ExecuteGen, ExecuteSelect, ScopeBegin, ScopeEnd, Concatenate,
                CommitLazy, Fails, DrainDone, DrainGet, SetEvents, WakeReader, Finish, Executing, Worker
  <2> QED
    BY <1>2, <2>2, <2>3, ForwardFollows DEF StreamInv
<1>4. CASE ProgramStep
  <2>1. Forward /\ UNCHANGED <<seProgram, seReader>> /\ seOp' \in Nat \ {0}
    BY <1>4, ProgramForward, ProgramMoves
  <2> QED
    BY <1>2, <2>1, ForwardFollows
<1>5. CASE ReaderStep
  <2>1. Forward
    BY <1>5, ReaderForward
  <2>2. UNCHANGED <<seProgram, seOp>>
    BY <1>5 DEF ReaderStep, FindEvent, WaitAndClear, ReadNew, CheckEnd, Reader
  <2> QED
    BY <1>2, <1>5, <2>1, <2>2, ReaderStepFollows DEF StreamInv
<1> QED
  BY <1>1, <1>3, <1>4, <1>5 DEF StreamNext

\* Whatever the programs of gen, select, fork and join do, every executor stays sound and no text is taken back.
THEOREM StreamInvariant == StreamSpec => []StreamInv
<1>1. StreamInit => StreamInv
  BY StreamInvInitially
<1>2. StreamInv /\ [StreamNext]_streamVars => StreamInv'
  BY StreamInvKept
<1> QED
  BY <1>1, <1>2, PTL DEF StreamSpec

\* queue.join waits for what is queued and in the worker's hands and for nothing else, in
\* every program, through the clean-up after an error too.
THEOREM TasksCounted == StreamSpec => []JoinCountsItems
<1>1. StreamInv => JoinCountsItems
  BY DEF StreamInv, JoinCountsItems, Sound, InHand, HasInHand
<1> QED
  BY <1>1, StreamInvariant, PTL

\* Whoever iterates over the text of a program has been given a beginning of it: nothing
\* twice, nothing left out, nothing out of order.
THEOREM TextInOrder == StreamSpec => []StreamedInOrder
<1>1. ASSUME StreamInv, OfText PROVE IsPrefix(seReader.out, Root.text)
  <2> DEFINE out == seReader.out
  <2>1. out \in Seq(AllPieces)
    BY <1>1 DEF StreamInv, ReaderFollows
  <2>2. PICK s \in Seq(AllPieces) : Root.text = out \o s
    BY <1>1 DEF StreamInv, ReaderFollows
  <2> HIDE DEF out
  <2>3. IsPrefix(out, out \o s)
    BY <2>1, PrefixOfConcat
  <2> QED
    BY <2>2, <2>3 DEF out
<1>2. StreamInv => StreamedInOrder
  BY <1>1 DEF StreamedInOrder
<1> QED
  BY <1>2, StreamInvariant, PTL

-------------------------------------------------------------------------------
(***************************************************************************)
(* What a program gets of a variable is a whole answer.  This rests on how *)
(* a name is used: the worker has a partial value of it in hand only while *)
(* the name's event is not set, for the expression it executes is one that *)
(* the program has submitted and not read yet (Pending).  The programs are *)
(* those that submit a name again to an executor only after they have read *)
(* it, never twice in one item, and that name no variable scope like an    *)
(* answer.                                                                 *)
(***************************************************************************)
IsAnswer(x) == x.kind \in {"gen", "select"}
AnswersIn(item) == {item[k].name : k \in {j \in 1 .. Len(item) : IsAnswer(item[j])}}
Distinct(item) ==
  \A j, k \in 1 .. Len(item) :
    IsAnswer(item[j]) /\ IsAnswer(item[k]) /\ item[j].name = item[k].name => j = k
Names(X) == {x.name : x \in {y \in X : IsAnswer(y)}}
ScopesApart(X) == \A x \in X : x.kind \in {"scope", "scopeEnd"} => x.name \notin Names(X)

\* The names an executor has to answer yet.
Pending(exe) == AnswersIn(exe.item) \cup UNION {AnswersIn(exe.queue[a]) : a \in 1 .. Len(exe.queue)}

\* Each of them is to be answered once, and its event exists and is not set.
Tidy(exe) ==
  /\ Distinct(exe.item)
  /\ \A a \in 1 .. Len(exe.queue) :
       /\ Distinct(exe.queue[a]) /\ AnswersIn(exe.queue[a]) \cap AnswersIn(exe.item) = {}
       /\ \A b \in 1 .. Len(exe.queue) : a # b => AnswersIn(exe.queue[a]) \cap AnswersIn(exe.queue[b]) = {}
  /\ Pending(exe) \subseteq exe.made \ exe.set

\* The values of the names are whole, but for what the worker has in hand.
Pieces(x, m) == [i \in 1 .. m |-> <<x.id, i>>]
InAnswer(exe) == exe.pc = "exec" /\ exe.item # <<>> /\ Head(exe.item).kind = "gen" /\ exe.at > 0
WholeFor(n, v, X) == \E x \in X : x.name = n /\ v = Whole(x)
Valued(exe, X) ==
  /\ \A n \in DOMAIN exe.vars \cap Names(X) :
       exe.vars[n][1] = "text" =>
         WholeFor(n, exe.vars[n][2], X) \/ (InAnswer(exe) /\ Head(exe.item).name = n)
  /\ InAnswer(exe) => /\ Head(exe.item).name \in DOMAIN exe.vars
                      /\ exe.vars[Head(exe.item).name] = Text(Pieces(Head(exe.item), exe.at - 1))
                      /\ exe.at <= Head(exe.item).chunks + 1

\* What a worker's step does to an executor.
Answers(exe, new, X) ==
  /\ Tidy(new) /\ Valued(new, X)
  /\ new.made = exe.made /\ Pending(new) \subseteq Pending(exe)
  /\ \A n \in new.set \cap Names(X) : n \in exe.set \/ n \in Pending(exe)

\* The rest of an item.
LEMMA TailAnswers ==
  ASSUME NEW S, NEW q \in Seq(S), q # <<>>
  PROVE  /\ AnswersIn(Tail(q)) \subseteq AnswersIn(q)
         /\ IsAnswer(Head(q)) => Head(q).name \in AnswersIn(q)
         /\ Distinct(q) => /\ Distinct(Tail(q))
                           /\ IsAnswer(Head(q)) => Head(q).name \notin AnswersIn(Tail(q))
<1>1. /\ Len(q) \in Nat \ {0} /\ Len(Tail(q)) = Len(q) - 1 /\ Head(q) = q[1]
      /\ \A i \in 1 .. Len(q) - 1 : Tail(q)[i] = q[i + 1]
  BY TailFacts
<1>2. \A i \in 1 .. Len(Tail(q)) : i + 1 \in 1 .. Len(q) /\ i + 1 # 1 /\ Tail(q)[i] = q[i + 1]
  BY <1>1
<1>3. 1 \in 1 .. Len(q)
  BY <1>1
<1>4. AnswersIn(Tail(q)) \subseteq AnswersIn(q)
  BY <1>2 DEF AnswersIn
<1>5. IsAnswer(Head(q)) => Head(q).name \in AnswersIn(q)
  BY <1>1, <1>3 DEF AnswersIn
<1>6. ASSUME Distinct(q) PROVE Distinct(Tail(q))
  <2> SUFFICES ASSUME NEW j \in 1 .. Len(Tail(q)), NEW k \in 1 .. Len(Tail(q)),
                      IsAnswer(Tail(q)[j]), IsAnswer(Tail(q)[k]), Tail(q)[j].name = Tail(q)[k].name
               PROVE  j = k
    BY DEF Distinct
  <2>1. j + 1 = k + 1
    BY <1>2, <1>6 DEF Distinct
  <2> QED BY <2>1
<1>7. ASSUME Distinct(q), IsAnswer(Head(q)), Head(q).name \in AnswersIn(Tail(q)) PROVE FALSE
  <2>1. PICK k \in 1 .. Len(Tail(q)) : IsAnswer(Tail(q)[k]) /\ Tail(q)[k].name = Head(q).name
    BY <1>7 DEF AnswersIn
  <2> QED BY <1>1, <1>2, <1>3, <1>7, <2>1 DEF Distinct
<1> QED BY <1>4, <1>5, <1>6, <1>7

\* The answers of an item are among the names of the program.
LEMMA AnswersNamed ==
  ASSUME NEW X, NEW q \in Seq(X \cup {Commit})
  PROVE  AnswersIn(q) \subseteq Names(X)
<1>1. \A i \in 1 .. Len(q) : q[i] \in X \cup {Commit}
  OBVIOUS
<1>2. ~IsAnswer(Commit)
  BY DEF Commit, IsAnswer
<1> QED BY <1>1, <1>2 DEF AnswersIn, Names

\* A step that neither answers nor takes an expression in hand.
LEMMA StaysTidy ==
  ASSUME NEW X, NEW exe, Tidy(exe), Valued(exe, X), ~InAnswer(exe), NEW new, ~InAnswer(new),
         new.item = exe.item, new.queue = exe.queue, new.made = exe.made, new.set = exe.set,
         new.vars = exe.vars
  PROVE  Answers(exe, new, X)
<1>1. Pending(new) = Pending(exe)
  BY DEF Pending
<1>2. Tidy(new)
  BY <1>1 DEF Tidy
<1>3. Valued(new, X)
  BY DEF Valued
<1> QED BY <1>1, <1>2, <1>3 DEF Answers

\* An expression is done and the rest of the item is left.
LEMMA HeadDone ==
  ASSUME NEW X, NEW P, NEW exe, Sound(exe, X \cup {Commit}, P), Tidy(exe), exe.item # <<>>, NEW new,
         new.item = Tail(exe.item), new.queue = exe.queue, new.at = 0, new.made = exe.made,
         \A n \in new.set \cap Names(X) : n \in exe.set \/ (IsAnswer(Head(exe.item)) /\ n = Head(exe.item).name),
         \A n \in DOMAIN new.vars \cap Names(X) : new.vars[n][1] = "text" => WholeFor(n, new.vars[n][2], X)
  PROVE  Answers(exe, new, X)
<1> DEFINE q == exe.item
<1>1. /\ q \in Seq(X \cup {Commit}) /\ q # <<>>
      /\ \A a \in 1 .. Len(exe.queue) : exe.queue[a] \in Seq(X \cup {Commit})
  BY DEF Sound
<1>2. /\ AnswersIn(Tail(q)) \subseteq AnswersIn(q)
      /\ IsAnswer(Head(q)) => Head(q).name \in AnswersIn(q)
      /\ Distinct(q) => /\ Distinct(Tail(q))
                        /\ IsAnswer(Head(q)) => Head(q).name \notin AnswersIn(Tail(q))
  <2> HIDE DEF q
  <2> QED BY <1>1, TailAnswers
<1> HIDE DEF q
<1>3. AnswersIn(q) \subseteq Pending(exe) /\ Pending(new) \subseteq Pending(exe)
  BY <1>2 DEF Pending, q
<1>4. ASSUME NEW n \in Pending(new) PROVE n \in new.made /\ n \notin new.set
  <2>1. n \in exe.made /\ n \notin exe.set
    BY <1>3 DEF Tidy
  <2>2. n \in Names(X)
    <3>1. CASE n \in AnswersIn(new.item)
      <4>1. n \in AnswersIn(q)
        BY <1>2, <3>1 DEF q
      <4> QED BY <1>1, <4>1, AnswersNamed
    <3>2. CASE n \notin AnswersIn(new.item)
      <4>1. PICK a \in 1 .. Len(exe.queue) : n \in AnswersIn(exe.queue[a])
        BY <3>2 DEF Pending
      <4> QED BY <1>1, <4>1, AnswersNamed
    <3> QED BY <3>1, <3>2
  <2>3. ~(IsAnswer(Head(q)) /\ n = Head(q).name)
    <3>1. Distinct(q)
      BY DEF Tidy, q
    <3>2. CASE n \in AnswersIn(Tail(q))
      BY <1>2, <3>1, <3>2
    <3>3. CASE n \notin AnswersIn(Tail(q))
      <4>1. PICK a \in 1 .. Len(exe.queue) : n \in AnswersIn(exe.queue[a])
        BY <3>3 DEF Pending, q
      <4>2. AnswersIn(exe.queue[a]) \cap AnswersIn(q) = {}
        BY DEF Tidy, q
      <4> QED BY <1>2, <4>1, <4>2
    <3> QED BY <3>2, <3>3
  <2> QED BY <2>1, <2>2, <2>3 DEF q
<1>5. Tidy(new)
  <2>1. Distinct(new.item) /\ AnswersIn(new.item) \subseteq AnswersIn(exe.item)
    BY <1>2 DEF Tidy, q
  <2> QED BY <1>4, <2>1 DEF Tidy
<1>6. ~InAnswer(new)
  BY DEF InAnswer
<1>7. Valued(new, X)
  BY <1>6 DEF Valued
<1>8. \A n \in new.set \cap Names(X) : n \in exe.set \/ n \in Pending(exe)
  BY <1>2, <1>3 DEF q
<1> QED BY <1>3, <1>5, <1>7, <1>8 DEF Answers

\* While no answer is in hand, what is bound to a name is whole.
LEMMA NothingInHand ==
  ASSUME NEW X, NEW exe, Valued(exe, X), ~InAnswer(exe)
  PROVE  \A n \in DOMAIN exe.vars \cap Names(X) : exe.vars[n][1] = "text" => WholeFor(n, exe.vars[n][2], X)
BY DEF Valued

-------------------------------------------------------------------------------
(* The steps of a worker that has not failed *)

FailedExe(exe) == exe.pc \in {"drain", "drained", "events", "crashed"} \/ exe.error

\* More of an answer is in hand, and bound to its name.
LEMMA InHandAnswers ==
  ASSUME NEW X, NEW P, NEW exe, Sound(exe, X \cup {Commit}, P), Tidy(exe), Valued(exe, X),
         NEW x \in X, exe.pc = "exec", exe.item # <<>>, x = Head(exe.item), x.kind = "gen", x.chunks \in Nat,
         NEW m \in 0 .. x.chunks, NEW new,
         new.pc = "exec", new.item = exe.item, new.queue = exe.queue, new.made = exe.made,
         new.set = exe.set, new.at = m + 1,
         DOMAIN new.vars = DOMAIN exe.vars \cup {x.name}, new.vars[x.name] = Text(Pieces(x, m)),
         \A n \in DOMAIN exe.vars \ {x.name} : new.vars[n] = exe.vars[n]
  PROVE  Answers(exe, new, X)
<1>1. Pending(new) = Pending(exe)
  BY DEF Pending
<1>2. Tidy(new)
  BY <1>1 DEF Tidy
<1>3. InAnswer(new) /\ Head(new.item) = x
  BY DEF InAnswer
<1>4. m + 1 - 1 = m /\ m + 1 <= x.chunks + 1
  OBVIOUS
<1>5. ASSUME NEW n \in DOMAIN new.vars \cap Names(X), new.vars[n][1] = "text", n # x.name
      PROVE  WholeFor(n, new.vars[n][2], X)
  <2>1. n \in DOMAIN exe.vars \cap Names(X) /\ new.vars[n] = exe.vars[n]
    BY <1>5
  <2> QED BY <1>5, <2>1 DEF Valued
<1>6. Valued(new, X)
  BY <1>3, <1>4, <1>5 DEF Valued
<1> QED BY <1>1, <1>2, <1>6 DEF Answers

\* The fields that an executor keeps while its worker executes an expression.
Keeps(new, exe) ==
  /\ DOMAIN new = DOMAIN NoExe
  /\ new.pc = exe.pc /\ new.queue = exe.queue /\ new.made = exe.made

\* What is bound, said, announced and woken, field by field.
LEMMA BoundFields ==
  ASSUME NEW exe, DOMAIN exe = DOMAIN NoExe, NEW n, NEW v
  PROVE  LET new == Bound(exe, n, v) IN
         /\ Keeps(new, exe) /\ new.item = exe.item /\ new.set = exe.set /\ new.at = exe.at
         /\ DOMAIN new.vars = DOMAIN exe.vars \cup {n} /\ new.vars[n] = v
         /\ \A k \in DOMAIN exe.vars \ {n} : new.vars[k] = exe.vars[k]
BY DEF Bound, Keeps, NoExe

\* Saying text leaves what is asked, bound and announced.
LEMMA SaidFields ==
  ASSUME NEW exe, DOMAIN exe = DOMAIN NoExe, NEW s
  PROVE  LET new == Said(exe, s) IN
         /\ Keeps(new, exe) /\ new.item = exe.item /\ new.set = exe.set /\ new.at = exe.at
         /\ new.vars = exe.vars
BY DEF Said, Keeps, NoExe

\* Announcing sets the event of one name, and nothing else of this.
LEMMA AnnouncedFields ==
  ASSUME NEW exe, DOMAIN exe = DOMAIN NoExe, NEW n
  PROVE  LET new == Announced(exe, n) IN
         /\ Keeps(new, exe) /\ new.item = exe.item /\ new.set = exe.set \cup {n} /\ new.at = exe.at
         /\ new.vars = exe.vars
BY DEF Announced, Keeps, NoExe

\* Waking those who stream a name leaves what is asked, bound and announced.
LEMMA WokenFields ==
  ASSUME NEW exe, DOMAIN exe = DOMAIN NoExe, NEW n
  PROVE  LET new == Woken(exe, n) IN
         /\ Keeps(new, exe) /\ new.item = exe.item /\ new.set = exe.set /\ new.at = exe.at
         /\ new.vars = exe.vars
BY DEF Woken, Keeps, NoExe

\* Done with an expression, the executor goes on to the rest of the item.
LEMMA ExecutedFields ==
  ASSUME NEW exe, DOMAIN exe = DOMAIN NoExe
  PROVE  LET new == Executed(exe) IN
         /\ Keeps(new, exe) /\ new.item = Tail(exe.item) /\ new.set = exe.set /\ new.at = 0
         /\ new.vars = exe.vars
BY DEF Executed, Keeps, NoExe

\* Counting the chunks leaves the rest.
LEMMA AtFields ==
  ASSUME NEW exe, DOMAIN exe = DOMAIN NoExe, NEW i, NEW new, new = [exe EXCEPT !.at = i]
  PROVE  /\ Keeps(new, exe) /\ new.item = exe.item /\ new.set = exe.set /\ new.at = i
         /\ new.vars = exe.vars
BY DEF Keeps, NoExe

\* The next chunk of an answer, or all of it.
LEMMA ChunkAnswers ==
  ASSUME NEW X, NEW P, NEW exe, Sound(exe, X \cup {Commit}, P), Tidy(exe), Valued(exe, X),
         NEW x \in X, exe.pc = "exec", exe.item # <<>>, x = Head(exe.item), x.kind = "gen", x.chunks \in Nat,
         exe.at <= x.chunks
  PROVE  Answers(exe, Chunk(exe, x), X)
<1>0. DOMAIN exe = DOMAIN NoExe /\ exe.at \in Nat
  BY DEF Sound
<1>1. CASE seStream /\ exe.at = 0
  <2> DEFINE b == Bound(exe, x.name, Text(<<>>))
             new == [b EXCEPT !.at = 1, !.streamSet = @ \cup {x.name}]
  <2>1. Chunk(exe, x) = new
    BY <1>1 DEF Chunk
  <2>2. /\ Keeps(b, exe) /\ b.item = exe.item /\ b.set = exe.set
        /\ DOMAIN b.vars = DOMAIN exe.vars \cup {x.name} /\ b.vars[x.name] = Text(<<>>)
        /\ \A k \in DOMAIN exe.vars \ {x.name} : b.vars[k] = exe.vars[k]
    BY <1>0, BoundFields
  <2>3. Text(<<>>) = Text(Pieces(x, 0))
    BY DEF Pieces
  <2> HIDE DEF b
  <2>4. Keeps(new, b) /\ new.item = b.item /\ new.set = b.set /\ new.at = 1 /\ new.vars = b.vars
    BY <2>2 DEF Keeps, NoExe
  <2> HIDE DEF new
  <2>5. 0 \in 0 .. x.chunks /\ new.at = 0 + 1
    BY <2>4
  <2>6. Answers(exe, new, X)
    BY <2>2, <2>3, <2>4, <2>5, InHandAnswers DEF Keeps
  <2> QED BY <2>1, <2>6
<1>2. CASE seStream /\ exe.at # 0
  <2> DEFINE s == <<<<x.id, exe.at>>>>
             said == Said(exe, s)
             v == Text(Append(exe.vars[x.name][2], <<x.id, exe.at>>))
             b == Bound(said, x.name, v)
             w == Woken(b, x.name)
             new == [w EXCEPT !.at = w.at + 1]
  <2>1. Chunk(exe, x) = new
    BY <1>2 DEF Chunk
  <2>2. InAnswer(exe)
    BY <1>0, <1>2 DEF InAnswer
  <2>3. exe.vars[x.name][2] = Pieces(x, exe.at - 1)
    BY <2>2 DEF Valued, Text
  <2>4. v = Text(Pieces(x, exe.at))
    <3>1. PICK a \in Nat : a = exe.at /\ a # 0
      BY <1>0, <1>2
    <3>2. \A y : Append([i \in 1 .. a - 1 |-> <<y, i>>], <<y, a>>) = [i \in 1 .. a |-> <<y, i>>]
      BY <3>1
    <3> QED BY <2>3, <3>1, <3>2 DEF Pieces
  <2> HIDE DEF v, s
  <2>5. Keeps(said, exe) /\ said.item = exe.item /\ said.set = exe.set /\ said.at = exe.at /\ said.vars = exe.vars
    BY <1>0, SaidFields
  <2> HIDE DEF said
  <2>6. /\ Keeps(b, said) /\ b.item = said.item /\ b.set = said.set /\ b.at = said.at
        /\ DOMAIN b.vars = DOMAIN said.vars \cup {x.name} /\ b.vars[x.name] = v
        /\ \A k \in DOMAIN said.vars \ {x.name} : b.vars[k] = said.vars[k]
    BY <2>5, BoundFields DEF Keeps
  <2> HIDE DEF b
  <2>7. Keeps(w, b) /\ w.item = b.item /\ w.set = b.set /\ w.at = b.at /\ w.vars = b.vars
    BY <2>6, WokenFields DEF Keeps
  <2> HIDE DEF w
  <2>8. Keeps(new, w) /\ new.item = w.item /\ new.set = w.set /\ new.at = w.at + 1 /\ new.vars = w.vars
    BY <2>7, AtFields DEF Keeps
  <2> HIDE DEF new
  <2>9. exe.at \in 0 .. x.chunks
    BY <1>0
  <2>10. Answers(exe, new, X)
    BY <2>4, <2>5, <2>6, <2>7, <2>8, <2>9, InHandAnswers DEF Keeps
  <2> QED BY <2>1, <2>10
<1>3. CASE ~seStream
  <2> DEFINE all == Pieces(x, x.chunks)
             said == Said(exe, all)
             b == Bound(said, x.name, Text(all))
             new == [b EXCEPT !.at = x.chunks + 1]
  <2>1. Chunk(exe, x) = new
    BY <1>3 DEF Chunk, Pieces
  <2> HIDE DEF all
  <2>5. Keeps(said, exe) /\ said.item = exe.item /\ said.set = exe.set /\ said.at = exe.at /\ said.vars = exe.vars
    BY <1>0, SaidFields
  <2> HIDE DEF said
  <2>6. /\ Keeps(b, said) /\ b.item = said.item /\ b.set = said.set /\ b.at = said.at
        /\ DOMAIN b.vars = DOMAIN said.vars \cup {x.name} /\ b.vars[x.name] = Text(all)
        /\ \A k \in DOMAIN said.vars \ {x.name} : b.vars[k] = said.vars[k]
    BY <2>5, BoundFields DEF Keeps
  <2> HIDE DEF b
  <2>8. Keeps(new, b) /\ new.item = b.item /\ new.set = b.set /\ new.at = x.chunks + 1 /\ new.vars = b.vars
    BY <2>6, AtFields DEF Keeps
  <2> HIDE DEF new
  <2>9. x.chunks \in 0 .. x.chunks
    OBVIOUS
  <2>10. Answers(exe, new, X)
    BY <2>5, <2>6, <2>8, <2>9, InHandAnswers DEF Keeps, all
  <2> QED BY <2>1, <2>10
<1> QED BY <1>1, <1>2, <1>3

\* What is known of the executor that takes a step, and of the program's names.
Ready(e) ==
  /\ StreamInv /\ ScopesApart(Exprs)
  /\ Tidy(seExe[e]) /\ Valued(seExe[e], Exprs)

\* A sound and tidy executor is about to execute x.
InHandIs(exe, x, kind) ==
  /\ Sound(exe, Exprs \cup {Commit}, AllPieces) /\ DOMAIN exe = DOMAIN NoExe
  /\ Tidy(exe) /\ Valued(exe, Exprs)
  /\ exe.item # <<>> /\ exe.pc = "exec" /\ x = Head(exe.item) /\ x.kind = kind
  /\ kind # "commit" => x \in Exprs
  /\ kind = "gen" => x.chunks \in Nat

\* The expression in hand is one of the program, or commits lazy operations.
LEMMA InHandTyped ==
  ASSUME NEW e \in SeExes, Ready(e), NEW kind, Executing(e, kind)
  PROVE  InHandIs(seExe[e], Head(seExe[e].item), kind)
<1>1. /\ Sound(seExe[e], AllExprs, AllPieces) /\ seExe[e].item # <<>> /\ seExe[e].pc = "exec"
      /\ Head(seExe[e].item) \in AllExprs /\ Head(seExe[e].item).kind = kind
      /\ kind = "gen" => Head(seExe[e].item).chunks \in Nat
  BY ExecutingTyped DEF Ready
<1>2. Commit.kind = "commit"
  BY DEF Commit
<1>3. Tidy(seExe[e]) /\ Valued(seExe[e], Exprs) /\ DOMAIN seExe[e] = DOMAIN NoExe
  BY <1>1 DEF Ready, Sound
<1> QED BY <1>1, <1>2, <1>3 DEF AllExprs, InHandIs

\* Only a generation leaves an answer in hand half done.
LEMMA BetweenAnswers ==
  ASSUME NEW exe, NEW x, NEW kind, kind # "gen", InHandIs(exe, x, kind)
  PROVE  \A n \in DOMAIN exe.vars \cap Names(Exprs) :
           exe.vars[n][1] = "text" => WholeFor(n, exe.vars[n][2], Exprs)
<1>1. ~InAnswer(exe)
  BY DEF InAnswer, InHandIs
<1>2. Valued(exe, Exprs)
  BY DEF InHandIs
<1> QED BY <1>1, <1>2, NothingInHand

\* An expression is done that binds and announces no answer.
LEMMA DoneAnswers ==
  ASSUME NEW exe, NEW x, NEW kind, kind # "gen", InHandIs(exe, x, kind), NEW new,
         Keeps(new, exe), new.item = Tail(exe.item), new.at = 0,
         \A n \in new.set \cap Names(Exprs) : n \in exe.set,
         \A n \in DOMAIN new.vars \cap Names(Exprs) : n \in DOMAIN exe.vars /\ new.vars[n] = exe.vars[n]
  PROVE  Answers(exe, new, Exprs)
<1>1. \A n \in DOMAIN new.vars \cap Names(Exprs) : new.vars[n][1] = "text" => WholeFor(n, new.vars[n][2], Exprs)
  BY BetweenAnswers
<1> QED BY <1>1, HeadDone DEF InHandIs, Keeps

\* Generation: a chunk, or the event after the last.
LEMMA GenAnswers ==
  ASSUME NEW e \in SeExes, Ready(e), ExecuteGen(e)
  PROVE  Answers(seExe[e], seExe'[e], Exprs)
<1> DEFINE exe == seExe[e]
           x == Head(exe.item)
           a == Announced(exe, x.name)
           new == Executed(a)
<1>1. InHandIs(exe, x, "gen")
  <2>1. Executing(e, "gen")
    BY DEF ExecuteGen
  <2> QED BY <2>1, InHandTyped
<1>2. seExe'[e] = Gen(exe, x)
  BY DEF ExecuteGen, Ready, StreamInv
<1>3. exe.at \in Nat /\ x.chunks \in Nat
  BY <1>1 DEF Sound, InHandIs
<1> HIDE DEF exe, x
<1>4. CASE exe.at > x.chunks
  <2>1. Gen(exe, x) = new
    BY <1>4 DEF Gen
  <2>2. Keeps(a, exe) /\ a.item = exe.item /\ a.set = exe.set \cup {x.name} /\ a.vars = exe.vars
    BY <1>1, AnnouncedFields DEF InHandIs
  <2> HIDE DEF a
  <2>3. Keeps(new, a) /\ new.item = Tail(a.item) /\ new.set = a.set /\ new.at = 0 /\ new.vars = a.vars
    BY <2>2, ExecutedFields DEF Keeps
  <2> HIDE DEF new
  <2>4. InAnswer(exe)
    BY <1>1, <1>3, <1>4 DEF InAnswer, InHandIs
  <2>5. /\ exe.vars[x.name] = Text(Pieces(x, exe.at - 1)) /\ exe.at <= x.chunks + 1
    BY <1>1, <2>4 DEF Valued, InHandIs
  <2>6. exe.at - 1 = x.chunks
    BY <1>3, <1>4, <2>5
  <2>7. exe.vars[x.name][2] = Pieces(x, x.chunks) /\ Whole(x) = Pieces(x, x.chunks)
    BY <1>1, <2>5, <2>6 DEF Text, Whole, Pieces, InHandIs
  <2>8. WholeFor(x.name, exe.vars[x.name][2], Exprs)
    BY <1>1, <2>7 DEF WholeFor, InHandIs
  <2>9. \A n \in DOMAIN exe.vars \cap Names(Exprs) : exe.vars[n][1] = "text" => WholeFor(n, exe.vars[n][2], Exprs)
    BY <1>1, <2>8 DEF Valued, InHandIs
  <2>10. \A n \in new.set \cap Names(Exprs) : n \in exe.set \/ (IsAnswer(Head(exe.item)) /\ n = Head(exe.item).name)
    BY <1>1, <2>2, <2>3 DEF IsAnswer, InHandIs
  <2>11. Answers(exe, new, Exprs)
    BY <1>1, <2>2, <2>3, <2>9, <2>10, HeadDone DEF InHandIs, Keeps
  <2> QED BY <1>2, <2>1, <2>11 DEF exe
<1>5. CASE ~(exe.at > x.chunks)
  <2>1. Gen(exe, x) = Chunk(exe, x)
    BY <1>5 DEF Gen
  <2>2. exe.at <= x.chunks
    BY <1>3, <1>5
  <2>3. Answers(exe, Chunk(exe, x), Exprs)
    BY <1>1, <2>2, ChunkAnswers DEF InHandIs
  <2> QED BY <1>2, <2>1, <2>3 DEF exe
<1> QED BY <1>4, <1>5

\* A selection binds and announces its whole answer.
LEMMA SelectAnswers ==
  ASSUME NEW e \in SeExes, Ready(e), ExecuteSelect(e)
  PROVE  Answers(seExe[e], seExe'[e], Exprs)
<1> DEFINE exe == seExe[e]
           x == Head(exe.item)
           s == <<<<x.id, 1>>>>
           b == Bound(exe, x.name, Text(s))
           a == Announced(b, x.name)
           said == Said(a, s)
           new == Executed(said)
<1>1. InHandIs(exe, x, "select")
  <2>1. Executing(e, "select")
    BY DEF ExecuteSelect
  <2> QED BY <2>1, InHandTyped
<1>2. seExe'[e] = new
  BY DEF ExecuteSelect, Ready, StreamInv
<1>3. WholeFor(x.name, s, Exprs)
  <2> HIDE DEF x
  <2>1. Whole(x) = [i \in 1 .. 1 |-> <<x.id, i>>]
    BY <1>1 DEF Whole, InHandIs
  <2>2. \A y : [i \in 1 .. 1 |-> <<y, i>>] = <<<<y, 1>>>>
    OBVIOUS
  <2> QED BY <1>1, <2>1, <2>2 DEF WholeFor, InHandIs
<1> HIDE DEF exe, x
<1>4. /\ Keeps(b, exe) /\ b.item = exe.item /\ b.set = exe.set
      /\ DOMAIN b.vars = DOMAIN exe.vars \cup {x.name} /\ b.vars[x.name] = Text(s)
      /\ \A k \in DOMAIN exe.vars \ {x.name} : b.vars[k] = exe.vars[k]
  BY <1>1, BoundFields DEF InHandIs
<1> HIDE DEF b
<1>5. Keeps(a, b) /\ a.item = b.item /\ a.set = b.set \cup {x.name} /\ a.vars = b.vars
  BY <1>4, AnnouncedFields DEF Keeps
<1> HIDE DEF a
<1>6. Keeps(said, a) /\ said.item = a.item /\ said.set = a.set /\ said.vars = a.vars
  BY <1>5, SaidFields DEF Keeps
<1> HIDE DEF said
<1>7. Keeps(new, said) /\ new.item = Tail(said.item) /\ new.set = said.set /\ new.at = 0 /\ new.vars = said.vars
  BY <1>6, ExecutedFields DEF Keeps
<1> HIDE DEF new, s
<1>8. \A n \in DOMAIN exe.vars \cap Names(Exprs) : exe.vars[n][1] = "text" => WholeFor(n, exe.vars[n][2], Exprs)
  BY <1>1, BetweenAnswers
<1>9. \A n \in DOMAIN b.vars \cap Names(Exprs) : b.vars[n][1] = "text" => WholeFor(n, b.vars[n][2], Exprs)
  <2> SUFFICES ASSUME NEW n \in DOMAIN b.vars \cap Names(Exprs), b.vars[n][1] = "text"
               PROVE  WholeFor(n, b.vars[n][2], Exprs)
    OBVIOUS
  <2>1. CASE n = x.name
    <3>1. b.vars[n][2] = s
      BY <1>4, <2>1 DEF Text
    <3> QED BY <1>3, <2>1, <3>1
  <2>2. CASE n # x.name
    BY <1>4, <1>8, <2>2
  <2> QED BY <2>1, <2>2
<1>10. \A n \in new.set \cap Names(Exprs) : n \in exe.set \/ (IsAnswer(Head(exe.item)) /\ n = Head(exe.item).name)
  BY <1>1, <1>4, <1>5, <1>6, <1>7 DEF IsAnswer, InHandIs
<1>11. /\ Sound(exe, Exprs \cup {Commit}, AllPieces) /\ Tidy(exe) /\ exe.item # <<>>
       /\ new.item = Tail(exe.item) /\ new.queue = exe.queue /\ new.at = 0 /\ new.made = exe.made
       /\ new.vars = b.vars
  BY <1>1, <1>4, <1>5, <1>6, <1>7 DEF InHandIs, Keeps
<1>12. Answers(exe, new, Exprs)
  BY <1>9, <1>10, <1>11, HeadDone
<1> QED BY <1>2, <1>12 DEF exe

\* The other expressions bind scopes, or nothing.
LEMMA FillAnswers ==
  ASSUME NEW e \in SeExes, Ready(e), Fill(e)
  PROVE  Answers(seExe[e], seExe'[e], Exprs)
<1> DEFINE exe == seExe[e]
           x == Head(exe.item)
           said == Said(exe, <<<<x.id, 1>>>>)
           new == Executed(said)
<1>1. InHandIs(exe, x, "fill")
  <2>1. Executing(e, "fill")
    BY DEF Fill
  <2> QED BY <2>1, InHandTyped
<1>2. seExe'[e] = new
  BY DEF Fill, Ready, StreamInv
<1> HIDE DEF exe, x
<1>3. Keeps(said, exe) /\ said.item = exe.item /\ said.set = exe.set /\ said.vars = exe.vars
  BY <1>1, SaidFields DEF InHandIs
<1> HIDE DEF said
<1>4. Keeps(new, said) /\ new.item = Tail(said.item) /\ new.set = said.set /\ new.at = 0 /\ new.vars = said.vars
  BY <1>3, ExecutedFields DEF Keeps
<1> HIDE DEF new
<1>5. Keeps(new, exe) /\ new.item = Tail(exe.item) /\ new.set = exe.set /\ new.vars = exe.vars
  BY <1>3, <1>4 DEF Keeps
<1>6. Answers(exe, new, Exprs)
  BY <1>1, <1>4, <1>5, DoneAnswers
<1> QED BY <1>2, <1>6 DEF exe

\* Taking over the text of a joined executor binds no answer.
LEMMA ConcatenateAnswers ==
  ASSUME NEW e \in SeExes, Ready(e), Concatenate(e)
  PROVE  Answers(seExe[e], seExe'[e], Exprs)
<1> DEFINE exe == seExe[e]
           x == Head(exe.item)
           kids == x.kids
           said == Said(exe, FlattenSeq([i \in DOMAIN kids |-> SinceFork(kids[i])]))
           new == Executed(said)
<1>1. InHandIs(exe, x, "append")
  <2>1. Executing(e, "append")
    BY DEF Concatenate
  <2> QED BY <2>1, InHandTyped
<1>2. seExe'[e] = new
  BY DEF Concatenate, Ready, StreamInv
<1> HIDE DEF exe, x
<1>3. Keeps(said, exe) /\ said.item = exe.item /\ said.set = exe.set /\ said.vars = exe.vars
  BY <1>1, SaidFields DEF InHandIs
<1> HIDE DEF said
<1>4. Keeps(new, said) /\ new.item = Tail(said.item) /\ new.set = said.set /\ new.at = 0 /\ new.vars = said.vars
  BY <1>3, ExecutedFields DEF Keeps
<1> HIDE DEF new
<1>5. Keeps(new, exe) /\ new.item = Tail(exe.item) /\ new.set = exe.set /\ new.vars = exe.vars
  BY <1>3, <1>4 DEF Keeps
<1>6. Answers(exe, new, Exprs)
  BY <1>1, <1>4, <1>5, DoneAnswers
<1> QED BY <1>2, <1>6 DEF exe

\* Committing lazy operations binds no answer.
LEMMA CommitAnswers ==
  ASSUME NEW e \in SeExes, Ready(e), CommitLazy(e)
  PROVE  Answers(seExe[e], seExe'[e], Exprs)
<1> DEFINE exe == seExe[e]
           x == Head(exe.item)
           new == Executed(exe)
<1>1. InHandIs(exe, x, "commit")
  <2>1. Executing(e, "commit")
    BY DEF CommitLazy
  <2> QED BY <2>1, InHandTyped
<1>2. seExe'[e] = new
  BY DEF CommitLazy, Ready, StreamInv
<1> HIDE DEF exe, x
<1>3. Keeps(new, exe) /\ new.item = Tail(exe.item) /\ new.set = exe.set /\ new.at = 0 /\ new.vars = exe.vars
  BY <1>1, ExecutedFields DEF InHandIs
<1> HIDE DEF new
<1>4. Answers(exe, new, Exprs)
  BY <1>1, <1>3, DoneAnswers
<1> QED BY <1>2, <1>4 DEF exe

\* A scope binds its own name, which is no answer's, and announces it.
LEMMA ScopeAnswers ==
  ASSUME NEW e \in SeExes, Ready(e), ScopeBegin(e) \/ ScopeEnd(e)
  PROVE  Answers(seExe[e], seExe'[e], Exprs)
<1> DEFINE exe == seExe[e]
           x == Head(exe.item)
           from == exe.vars[x.name][2]
           v1 == <<"at", Len(exe.text)>>
           v2 == Text(SubSeq(exe.text, from + 1, Len(exe.text)))
           b1 == Bound(exe, x.name, v1)
           b2 == Bound(exe, x.name, v2)
           s2 == [b2 EXCEPT !.set = @ \cup {x.name}]
           new1 == Executed(b1)
           new2 == Executed(s2)
<1>1. PICK kind \in {"scope", "scopeEnd"} : InHandIs(exe, x, kind)
  <2>1. Executing(e, "scope") \/ Executing(e, "scopeEnd")
    BY DEF ScopeBegin, ScopeEnd
  <2> QED BY <2>1, InHandTyped
<1>2. seExe'[e] = new1 \/ seExe'[e] = new2
  BY DEF ScopeBegin, ScopeEnd, Ready, StreamInv
<1> HIDE DEF exe, x, v1, v2
<1>3. x.name \notin Names(Exprs)
  BY <1>1 DEF InHandIs, Ready, ScopesApart
<1>4. \A v : LET b == Bound(exe, x.name, v) IN
        /\ Keeps(b, exe) /\ b.item = exe.item /\ b.set = exe.set
        /\ DOMAIN b.vars = DOMAIN exe.vars \cup {x.name}
        /\ \A k \in DOMAIN exe.vars \ {x.name} : b.vars[k] = exe.vars[k]
  BY <1>1, BoundFields DEF InHandIs
<1>5. ASSUME NEW b, NEW new, new = Executed(b), Keeps(b, exe), b.item = exe.item,
             b.set \subseteq exe.set \cup {x.name},
             DOMAIN b.vars = DOMAIN exe.vars \cup {x.name},
             \A k \in DOMAIN exe.vars \ {x.name} : b.vars[k] = exe.vars[k]
      PROVE  Answers(exe, new, Exprs)
  <2>1. Keeps(new, b) /\ new.item = Tail(b.item) /\ new.set = b.set /\ new.at = 0 /\ new.vars = b.vars
    BY <1>5, ExecutedFields DEF Keeps
  <2>2. Keeps(new, exe) /\ new.item = Tail(exe.item)
    BY <1>5, <2>1 DEF Keeps
  <2>3. \A n \in new.set \cap Names(Exprs) : n \in exe.set
    BY <1>3, <1>5, <2>1
  <2>4. \A n \in DOMAIN new.vars \cap Names(Exprs) : n \in DOMAIN exe.vars /\ new.vars[n] = exe.vars[n]
    BY <1>3, <1>5, <2>1
  <2> QED BY <1>1, <2>1, <2>2, <2>3, <2>4, DoneAnswers
<1>6. Answers(exe, new1, Exprs)
  BY <1>4, <1>5
<1>7. Answers(exe, new2, Exprs)
  <2>1. /\ Keeps(b2, exe) /\ b2.item = exe.item /\ b2.set = exe.set
        /\ DOMAIN b2.vars = DOMAIN exe.vars \cup {x.name}
        /\ \A k \in DOMAIN exe.vars \ {x.name} : b2.vars[k] = exe.vars[k]
    BY <1>4
  <2> HIDE DEF b2
  <2>2. /\ Keeps(s2, exe) /\ s2.item = exe.item /\ s2.set = exe.set \cup {x.name} /\ s2.vars = b2.vars
    BY <2>1 DEF Keeps, NoExe
  <2> HIDE DEF s2
  <2> QED BY <1>5, <2>1, <2>2
<1> QED BY <1>2, <1>6, <1>7 DEF exe

\* An item is taken from the queue into the hand.
LEMMA TakeAnswers ==
  ASSUME NEW e \in SeExes, Ready(e), TakeItem(e)
  PROVE  Answers(seExe[e], seExe'[e], Exprs)
<1> DEFINE exe == seExe[e]
           item == Head(exe.queue)
           new == [exe EXCEPT !.queue = Tail(exe.queue), !.item = item, !.at = 0,
                              !.unfinished = IF item = <<>> THEN NoneDone(exe) ELSE exe.unfinished,
                              !.pc = IF item = <<>> THEN "last" ELSE "exec"]
<1>1. /\ Sound(exe, AllExprs, AllPieces) /\ Tidy(exe) /\ Valued(exe, Exprs)
      /\ exe.pc = "get" /\ exe.queue # <<>>
  BY DEF StreamInv, Ready, TakeItem, Worker
<1>2. seExe'[e] = new
  BY DEF TakeItem, StreamInv, Ready
<1> HIDE DEF exe
<1>3. /\ new.queue = Tail(exe.queue) /\ new.item = Head(exe.queue) /\ new.at = 0
      /\ new.made = exe.made /\ new.set = exe.set /\ new.vars = exe.vars
  BY <1>1 DEF Sound, NoExe
<1> HIDE DEF new, item
<1>4. PICK q \in Seq(Seq(AllExprs)) : q = exe.queue /\ q # <<>>
  BY <1>1 DEF Sound
<1>5. /\ Len(q) \in Nat \ {0} /\ Len(Tail(q)) = Len(q) - 1 /\ Head(q) = q[1]
      /\ \A i \in 1 .. Len(q) - 1 : Tail(q)[i] = q[i + 1]
  BY <1>4, TailFacts
<1>6. \A i \in 1 .. Len(Tail(q)) : i + 1 \in 1 .. Len(q) /\ i + 1 # 1 /\ Tail(q)[i] = q[i + 1]
  BY <1>5
<1>7. 1 \in 1 .. Len(q)
  BY <1>5
<1>8. Pending(new) \subseteq Pending(exe)
  BY <1>3, <1>4, <1>5, <1>6, <1>7 DEF Pending
<1>9. Tidy(new)
  <2>1. Distinct(new.item)
    BY <1>1, <1>3, <1>4, <1>5, <1>7 DEF Tidy
  <2>2. ASSUME NEW a \in 1 .. Len(new.queue)
        PROVE  /\ Distinct(new.queue[a]) /\ AnswersIn(new.queue[a]) \cap AnswersIn(new.item) = {}
               /\ \A b \in 1 .. Len(new.queue) :
                    a # b => AnswersIn(new.queue[a]) \cap AnswersIn(new.queue[b]) = {}
    <3>1. a + 1 \in 1 .. Len(q) /\ a + 1 # 1 /\ new.queue[a] = exe.queue[a + 1]
      BY <1>3, <1>4, <1>6
    <3>2. Distinct(new.queue[a]) /\ AnswersIn(new.queue[a]) \cap AnswersIn(new.item) = {}
      BY <1>1, <1>3, <1>4, <1>5, <1>7, <3>1 DEF Tidy
    <3>3. ASSUME NEW b \in 1 .. Len(new.queue), a # b
          PROVE  AnswersIn(new.queue[a]) \cap AnswersIn(new.queue[b]) = {}
      <4>1. b + 1 \in 1 .. Len(q) /\ new.queue[b] = exe.queue[b + 1]
        BY <1>3, <1>4, <1>6
      <4>2. a + 1 # b + 1
        BY <3>3, <1>3, <1>4, <1>5
      <4> QED BY <1>1, <1>4, <3>1, <4>1, <4>2 DEF Tidy
    <3> QED BY <3>2, <3>3
  <2>3. Pending(new) \subseteq new.made \ new.set
    BY <1>1, <1>3, <1>8 DEF Tidy
  <2> QED BY <2>1, <2>2, <2>3 DEF Tidy
<1>10. ~InAnswer(exe) /\ ~InAnswer(new)
  BY <1>1, <1>3 DEF InAnswer
<1>11. Valued(new, Exprs)
  BY <1>1, <1>3, <1>10 DEF Valued
<1>12. Answers(exe, new, Exprs)
  BY <1>3, <1>8, <1>9, <1>11 DEF Answers
<1> QED BY <1>2, <1>12 DEF exe

\* An item is done, or the worker comes to its end.
LEMMA EndAnswers ==
  ASSUME NEW e \in SeExes, Ready(e), TaskDone(e) \/ WakeReader(e) \/ Finish(e)
  PROVE  Answers(seExe[e], seExe'[e], Exprs)
<1> DEFINE exe == seExe[e]
           done == [exe EXCEPT !.unfinished = exe.unfinished - 1, !.textEvent = seStream, !.pc = "get"]
           woken == [exe EXCEPT !.textEvent = seStream, !.pc = "finish"]
           dead == [exe EXCEPT !.finished = TRUE, !.pc = "dead"]
<1>1. /\ DOMAIN exe = DOMAIN NoExe /\ Tidy(exe) /\ Valued(exe, Exprs)
      /\ (exe.pc = "exec" /\ exe.item = <<>>) \/ exe.pc \in {"last", "finish"}
  BY DEF StreamInv, Ready, TaskDone, WakeReader, Finish, Worker, Sound
<1>2. seExe'[e] \in {done, woken, dead}
  BY DEF TaskDone, WakeReader, Finish, StreamInv, Ready
<1> HIDE DEF exe
<1>3. ASSUME NEW new \in {done, woken, dead}
      PROVE  /\ new.item = exe.item /\ new.queue = exe.queue /\ new.made = exe.made /\ new.set = exe.set
             /\ new.vars = exe.vars /\ new.pc # "exec"
  BY <1>1, <1>3 DEF NoExe
<1>4. ~InAnswer(exe)
  BY <1>1 DEF InAnswer
<1>5. ASSUME NEW new \in {done, woken, dead} PROVE Answers(exe, new, Exprs)
  <2> HIDE DEF done, woken, dead
  <2>1. ~InAnswer(new)
    BY <1>3 DEF InAnswer
  <2> QED BY <1>1, <1>3, <1>4, <2>1, StaysTidy
<1> QED BY <1>2, <1>5 DEF exe

\* The error, and nothing of the record, is lost.
KeepsError(new, exe) == DOMAIN new = DOMAIN NoExe /\ new.error = exe.error

\* No expression takes back an error.
LEMMA ErrorKept ==
  ASSUME NEW exe, DOMAIN exe = DOMAIN NoExe
  PROVE  /\ KeepsError(Executed(exe), exe)
         /\ \A s : KeepsError(Said(exe, s), exe)
         /\ \A n : KeepsError(Announced(exe, n), exe) /\ KeepsError(Woken(exe, n), exe)
         /\ \A n, v : KeepsError(Bound(exe, n, v), exe)
         /\ \A S : KeepsError([exe EXCEPT !.set = S], exe) /\ KeepsError([exe EXCEPT !.left = S], exe)
         /\ \A i, S : /\ KeepsError([exe EXCEPT !.at = i], exe)
                      /\ KeepsError([exe EXCEPT !.at = i, !.streamSet = S], exe)
BY DEF KeepsError, Executed, Said, Announced, Woken, Bound, NoExe

\* A chunk does not either.
LEMMA ChunkKeepsError ==
  ASSUME NEW exe, DOMAIN exe = DOMAIN NoExe, NEW x
  PROVE  KeepsError(Chunk(exe, x), exe)
<1>1. CASE seStream /\ exe.at = 0
  <2> DEFINE b == Bound(exe, x.name, Text(<<>>))
             S == b.streamSet \cup {x.name}
  <2>1. Chunk(exe, x) = [b EXCEPT !.at = 1, !.streamSet = S]
    BY <1>1 DEF Chunk
  <2>2. KeepsError(b, exe)
    BY ErrorKept
  <2> HIDE DEF b, S
  <2>3. KeepsError([b EXCEPT !.at = 1, !.streamSet = S], b)
    BY <2>2, ErrorKept DEF KeepsError
  <2> QED BY <2>1, <2>2, <2>3 DEF KeepsError
<1>2. CASE seStream /\ exe.at # 0
  <2> DEFINE said == Said(exe, <<<<x.id, exe.at>>>>)
             v == Text(Append(exe.vars[x.name][2], <<x.id, exe.at>>))
             b == Bound(said, x.name, v)
             w == Woken(b, x.name)
             i == w.at + 1
  <2>1. Chunk(exe, x) = [w EXCEPT !.at = i]
    BY <1>2 DEF Chunk
  <2>2. KeepsError(said, exe)
    BY ErrorKept
  <2> HIDE DEF said, v
  <2>3. KeepsError(b, said)
    BY <2>2, ErrorKept DEF KeepsError
  <2> HIDE DEF b
  <2>4. KeepsError(w, b)
    BY <2>3, ErrorKept DEF KeepsError
  <2> HIDE DEF w, i
  <2>5. KeepsError([w EXCEPT !.at = i], w)
    BY <2>4, ErrorKept DEF KeepsError
  <2> QED BY <2>1, <2>2, <2>3, <2>4, <2>5 DEF KeepsError
<1>3. CASE ~seStream
  <2> DEFINE all == [i \in 1..x.chunks |-> <<x.id, i>>]
             said == Said(exe, all)
             b == Bound(said, x.name, Text(all))
             m == x.chunks + 1
  <2>1. Chunk(exe, x) = [b EXCEPT !.at = m]
    BY <1>3 DEF Chunk
  <2> HIDE DEF all, m
  <2>2. KeepsError(said, exe)
    BY ErrorKept
  <2> HIDE DEF said
  <2>3. KeepsError(b, said)
    BY <2>2, ErrorKept DEF KeepsError
  <2> HIDE DEF b
  <2>4. KeepsError([b EXCEPT !.at = m], b)
    BY <2>3, ErrorKept DEF KeepsError
  <2> QED BY <2>1, <2>2, <2>3, <2>4 DEF KeepsError
<1> QED BY <1>1, <1>2, <1>3

\* Nor does any step of the worker.
LEMMA ErrorStays ==
  ASSUME StreamInv, NEW e \in SeExes, WorkerStep(e), seExe[e].error
  PROVE  seExe'[e].error
<1> DEFINE exe == seExe[e]
           x == Head(exe.item)
<1>1. DOMAIN exe = DOMAIN NoExe /\ DOMAIN seExe = SeExes /\ exe.error
  BY DEF StreamInv, Sound
<1>2. CASE TakeItem(e) \/ TaskDone(e) \/ Fails(e) \/ DrainDone(e) \/ WakeReader(e) \/ Finish(e)
  BY <1>1, <1>2 DEF TakeItem, TaskDone, Fails, DrainDone, WakeReader, Finish, NoExe
<1>3. CASE DrainGet(e)
  BY <1>1, <1>3 DEF DrainGet, Drained, NoExe
<1>4. CASE SetEvents(e)
  <2>1. CASE ~(\E n \in exe.left : seExe' = [seExe EXCEPT ![e] = Announced([exe EXCEPT !.left = @ \ {n}], n)])
    BY <1>1, <1>4, <2>1 DEF SetEvents, NoExe
  <2>2. CASE \E n \in exe.left : seExe' = [seExe EXCEPT ![e] = Announced([exe EXCEPT !.left = @ \ {n}], n)]
    <3>1. PICK n, b : /\ b = [exe EXCEPT !.left = @ \ {n}]
                      /\ seExe' = [seExe EXCEPT ![e] = Announced(b, n)]
      BY <2>2
    <3>2. KeepsError(b, exe)
      BY <1>1, <3>1, ErrorKept
    <3>3. KeepsError(Announced(b, n), b)
      BY <3>2, ErrorKept DEF KeepsError
    <3> QED BY <1>1, <3>1, <3>2, <3>3 DEF KeepsError
  <2> QED BY <2>1, <2>2
<1>5. CASE ExecuteGen(e)
  <2>1. seExe'[e] = Gen(exe, x)
    BY <1>1, <1>5 DEF ExecuteGen
  <2> HIDE DEF exe, x
  <2>2. KeepsError(Chunk(exe, x), exe)
    BY <1>1, ChunkKeepsError
  <2>3. PICK a : a = Announced(exe, x.name)
    OBVIOUS
  <2>4. KeepsError(a, exe)
    BY <1>1, <2>3, ErrorKept
  <2>5. KeepsError(Executed(a), a)
    BY <2>4, ErrorKept DEF KeepsError
  <2>6. Gen(exe, x) = Chunk(exe, x) \/ Gen(exe, x) = Executed(a)
    BY <2>3 DEF Gen
  <2>7. Gen(exe, x).error
    BY <1>1, <2>2, <2>4, <2>5, <2>6 DEF KeepsError
  <2> QED BY <2>1, <2>7 DEF exe
<1>6. CASE ExecuteSelect(e)
  <2> DEFINE s == <<<<x.id, 1>>>>
  <2>1. PICK b, a, d : /\ b = Bound(exe, x.name, Text(s)) /\ a = Announced(b, x.name) /\ d = Said(a, s)
                       /\ seExe'[e] = Executed(d)
    BY <1>1, <1>6 DEF ExecuteSelect
  <2> HIDE DEF exe, x, s
  <2>2. KeepsError(b, exe)
    BY <1>1, <2>1, ErrorKept
  <2>3. KeepsError(a, b)
    BY <2>1, <2>2, ErrorKept DEF KeepsError
  <2>4. KeepsError(d, a)
    BY <2>1, <2>3, ErrorKept DEF KeepsError
  <2>5. KeepsError(Executed(d), d)
    BY <2>4, ErrorKept DEF KeepsError
  <2>6. Executed(d).error
    BY <1>1, <2>2, <2>3, <2>4, <2>5 DEF KeepsError
  <2> QED BY <2>1, <2>6 DEF exe
<1>7. ASSUME NEW b, KeepsError(b, exe), seExe'[e] = Executed(b) PROVE seExe'[e].error
  <2>1. KeepsError(Executed(b), b)
    BY <1>7, ErrorKept DEF KeepsError
  <2> QED BY <1>1, <1>7, <2>1 DEF KeepsError
<1>8. CASE Fill(e) \/ CommitLazy(e) \/ Concatenate(e)
  <2>1. PICK b : (b = exe \/ \E s : b = Said(exe, s)) /\ seExe'[e] = Executed(b)
    BY <1>1, <1>8 DEF Fill, CommitLazy, Concatenate
  <2>2. KeepsError(exe, exe)
    BY <1>1 DEF KeepsError
  <2> HIDE DEF exe
  <2>3. KeepsError(b, exe)
    BY <1>1, <2>1, <2>2, ErrorKept
  <2> QED BY <1>7, <2>1, <2>3 DEF exe
<1>9. CASE ScopeBegin(e)
  <2>1. PICK b : (\E v : b = Bound(exe, x.name, v)) /\ seExe'[e] = Executed(b)
    BY <1>1, <1>9 DEF ScopeBegin
  <2> HIDE DEF x
  <2>2. KeepsError(b, exe)
    BY <1>1, <2>1, ErrorKept
  <2> QED BY <1>7, <2>1, <2>2
<1>10. CASE ScopeEnd(e)
  <2>1. PICK b, S, d : /\ \E v : b = Bound(exe, x.name, v)
                       /\ d = [b EXCEPT !.set = S] /\ seExe'[e] = Executed(d)
    <3>1. PICK b : /\ \E v : b = Bound(exe, x.name, v)
                   /\ seExe'[e] = Executed([b EXCEPT !.set = @ \cup {x.name}])
      BY <1>1, <1>10 DEF ScopeEnd
    <3> QED BY <3>1
  <2> HIDE DEF exe, x
  <2>2. KeepsError(b, exe)
    BY <1>1, <2>1, ErrorKept
  <2>3. DOMAIN b = DOMAIN NoExe
    BY <2>2 DEF KeepsError
  <2>4. KeepsError(d, b)
    BY <2>1, <2>3, ErrorKept
  <2>5. KeepsError(d, exe)
    BY <2>2, <2>4 DEF KeepsError
  <2> QED BY <1>7, <2>1, <2>5 DEF exe
<1> QED BY <1>2, <1>3, <1>4, <1>5, <1>6, <1>8, <1>9, <1>10 DEF WorkerStep

\* A worker that fails, or has failed, has failed after its step.
LEMMA FailureStays ==
  ASSUME StreamInv, NEW e \in SeExes, WorkerStep(e), FailedExe(seExe[e]) \/ Fails(e)
  PROVE  FailedExe(seExe'[e])
<1> DEFINE exe == seExe[e]
<1>1. DOMAIN exe = DOMAIN NoExe /\ DOMAIN seExe = SeExes
  BY DEF StreamInv, Sound
<1>2. CASE exe.error
  BY <1>2, ErrorStays DEF FailedExe
<1>3. CASE exe.pc \in {"drain", "drained", "events", "crashed"}
  <2>0. DrainDone(e) \/ DrainGet(e) \/ SetEvents(e)
    BY <1>3 DEF WorkerStep, TakeItem, TaskDone, Fill, ExecuteGen, ExecuteSelect, ScopeBegin, ScopeEnd,
                Concatenate, CommitLazy, Fails, WakeReader, Finish, Executing, Worker
  <2>1. CASE DrainDone(e)
    BY <1>1, <2>1 DEF DrainDone, FailedExe, NoExe
  <2>2. CASE DrainGet(e)
    BY <1>1, <2>2 DEF DrainGet, Drained, FailedExe, NoExe
  <2>3. CASE SetEvents(e)
    <3>1. exe.pc = "events"
      BY <2>3 DEF SetEvents, Worker
    <3>2. CASE Cardinality(exe.made) # exe.size
      BY <1>1, <2>3, <3>2 DEF SetEvents, FailedExe, NoExe
    <3>3. CASE Cardinality(exe.made) = exe.size /\ exe.left = {}
      <4>1. seExe'[e] = [exe EXCEPT !.error = TRUE, !.pc = "last"]
        BY <1>1, <2>3, <3>3 DEF SetEvents
      <4> HIDE DEF exe
      <4> QED BY <1>1, <4>1 DEF FailedExe, NoExe, exe
    <3>4. CASE Cardinality(exe.made) = exe.size /\ exe.left # {}
      <4>1. PICK n, b : /\ b = [exe EXCEPT !.left = exe.left \ {n}]
                        /\ seExe'[e] = Announced(b, n)
        BY <1>1, <2>3, <3>4 DEF SetEvents
      <4> HIDE DEF exe
      <4>2. DOMAIN b = DOMAIN NoExe /\ b.pc = "events"
        BY <1>1, <3>1, <4>1 DEF NoExe
      <4>3. Announced(b, n).pc = "events"
        BY <4>2, AnnouncedFields DEF Keeps
      <4> QED BY <4>1, <4>3 DEF FailedExe
    <3> QED BY <3>2, <3>3, <3>4
  <2> QED BY <2>0, <2>1, <2>2, <2>3
<1>4. CASE Fails(e)
  BY <1>1, <1>4 DEF Fails, AfterError, FailedExe, NoExe
<1> QED BY <1>2, <1>3, <1>4 DEF FailedExe

\* A worker answers what it has in hand, or fails.
LEMMA WorkerAnswers ==
  ASSUME NEW e \in SeExes, Ready(e), WorkerStep(e), ~FailedExe(seExe'[e])
  PROVE  Answers(seExe[e], seExe'[e], Exprs)
<1>1. ~Fails(e) /\ ~FailedExe(seExe[e])
  BY FailureStays DEF Ready
<1>2. ~(DrainDone(e) \/ DrainGet(e) \/ SetEvents(e))
  BY <1>1 DEF DrainDone, DrainGet, SetEvents, Worker, FailedExe
<1> QED
  BY <1>1, <1>2, FillAnswers, ConcatenateAnswers, CommitAnswers, ScopeAnswers, TakeAnswers, EndAnswers,
     GenAnswers, SelectAnswers DEF WorkerStep


-------------------------------------------------------------------------------
(* What the program asks for and reads *)

Submits(i) == seProgram[i].do = "submit"
Gets(i, e, n) == seProgram[i].do = "get" /\ seProgram[i].exe = e /\ seProgram[i].name = n

\* The hypothesis on programs: an item asks for a name at most once, a name is asked for again of
\* the same executor only after it was read, and no scope is named like an answer.
ReadsBeforeAsking ==
  /\ ScopesApart(Exprs)
  /\ \A j \in DOMAIN seProgram : Submits(j) =>
       /\ Distinct(seProgram[j].item)
       /\ \A i \in DOMAIN seProgram : i < j /\ Submits(i) /\ seProgram[i].exe = seProgram[j].exe =>
            \A n \in AnswersIn(seProgram[i].item) \cap AnswersIn(seProgram[j].item) :
              \E k \in DOMAIN seProgram : i < k /\ k < j /\ Gets(k, seProgram[j].exe, n)

\* An answer has been asked for and not read since.
Asked(e, n) ==
  \E i \in DOMAIN seProgram :
    /\ i < seOp /\ Submits(i) /\ seProgram[i].exe = e /\ n \in AnswersIn(seProgram[i].item)
    /\ \A k \in DOMAIN seProgram : i < k /\ k < seOp => ~Gets(k, e, n)

\* The executors of forks to come have not begun.
Unforked ==
  \A j \in DOMAIN seProgram : j >= seOp /\ seProgram[j].do = "fork" =>
    \A k \in Range(seProgram[j].kids) : seExe[k].pc = "none" /\ ~seExe[k].error

AllTidy == \A e \in SeExes : Tidy(seExe[e]) /\ Valued(seExe[e], Exprs)
AllAsked == seOp <= Len(seProgram) => \A e \in SeExes : \A n \in Pending(seExe[e]) : Asked(e, n)
EventsMade ==
  seOp <= Len(seProgram) /\ Op.do = "submit" /\ seStep = "put" =>
    AnswersIn(Op.item) \subseteq seExe[Op.exe].made \ seExe[Op.exe].set
AllWhole ==
  \A i \in DOMAIN seGot : seGot[i].value[1] = "text" /\ seGot[i].name \in Names(Exprs) =>
    WholeFor(seGot[i].name, seGot[i].value[2], Exprs)

\* The inductive invariant: while no worker has failed, what is still to be answered has an event
\* that is made and not set, so that a read waits for it, and what is bound and not in hand is whole.
GotInv ==
  /\ StreamInv /\ ReadsBeforeAsking /\ Unforked
  /\ \E S : seGot \in Seq(S)
  /\ Failed \/ (AllTidy /\ AllAsked /\ EventsMade /\ AllWhole)

\* Whether the workers have begun or failed is not changed.
SamePlaces == \A e \in SeExes : seExe'[e].pc = seExe[e].pc /\ seExe'[e].error = seExe[e].error

\* What is queued for a worker changes its queue, not what it has in hand.
LEMMA PutPlace ==
  ASSUME NEW exe, DOMAIN exe = DOMAIN NoExe, NEW item
  PROVE  LET new == Put(exe, item) IN
         /\ new.pc = exe.pc /\ new.error = exe.error /\ new.made = exe.made /\ new.set = exe.set
         /\ new.item = exe.item /\ new.vars = exe.vars /\ new.at = exe.at
         /\ new.queue = Append(exe.queue, item)
BY DEF Put, NoExe

\* Only a fork gives executors a worker.
LEMMA ProgramPlaces ==
  ASSUME StreamInv, ProgramStep, ~Fork
  PROVE  SamePlaces
<1>1. DOMAIN seExe = SeExes /\ \A e \in SeExes : DOMAIN seExe[e] = DOMAIN NoExe
  BY DEF StreamInv, Sound
<1>2. CASE GetVar \/ Sync \/ JoinBegins \/ RunSynced
  BY <1>2 DEF GetVar, Sync, JoinBegins, RunSynced, SamePlaces
<1>3. CASE JoinEnds \/ End \/ RunEnds
  <2>1. PICK kids : seExe' = WithEnd(kids)
    BY <1>3 DEF JoinEnds, End, RunEnds
  <2>2. \A e \in SeExes : seExe'[e] = Put(seExe[e], <<>>) \/ seExe'[e] = seExe[e]
    BY <2>1 DEF WithEnd
  <2> QED BY <1>1, <2>2, PutPlace DEF SamePlaces
<1>4. CASE Submit \/ ForkBegins
  <2>1. PICK o, item : seExe' = [seExe EXCEPT ![o] = Put(@, item)] \/ seExe' = [seExe EXCEPT ![o] = @]
    BY <1>4 DEF Submit, ForkBegins
  <2>2. \A e \in SeExes : seExe'[e] = Put(seExe[e], item) \/ seExe'[e] = seExe[e]
    BY <1>1, <2>1
  <2> QED BY <1>1, <2>2, PutPlace DEF SamePlaces
<1>5. CASE InitVarEvent
  <2>1. PICK o, S, T : seExe' = [seExe EXCEPT ![o].made = S, ![o].set = T]
    BY <1>5 DEF InitVarEvent
  <2>2. \A e \in SeExes : seExe'[e] = [seExe[e] EXCEPT !.made = S, !.set = T] \/ seExe'[e] = seExe[e]
    BY <1>1, <2>1
  <2> QED BY <1>1, <2>2 DEF SamePlaces, NoExe
<1>6. CASE Gather
  <2>1. PICK o, new, vars : seExe' = [seExe EXCEPT ![o] = Gathered(@, new, vars)] \/ seExe' = seExe
    BY <1>6 DEF Gather
  <2>2. \A e \in SeExes : seExe'[e] = Gathered(seExe[e], new, vars) \/ seExe'[e] = seExe[e]
    BY <1>1, <2>1
  <2>3. \A e \in SeExes : /\ Gathered(seExe[e], new, vars).pc = seExe[e].pc
                          /\ Gathered(seExe[e], new, vars).error = seExe[e].error
    BY <1>1 DEF Gathered, NoExe
  <2> QED BY <2>2, <2>3 DEF SamePlaces
<1> QED BY <1>2, <1>3, <1>4, <1>5, <1>6 DEF ProgramStep

\* The reader changes what wakes it.
LEMMA ReaderFields ==
  ASSUME StreamInv, ReaderStep, NEW e \in SeExes
  PROVE  /\ seExe'[e].pc = seExe[e].pc /\ seExe'[e].error = seExe[e].error
         /\ seExe'[e].item = seExe[e].item /\ seExe'[e].queue = seExe[e].queue
         /\ seExe'[e].made = seExe[e].made /\ seExe'[e].set = seExe[e].set
         /\ seExe'[e].vars = seExe[e].vars /\ seExe'[e].at = seExe[e].at
<1>1. DOMAIN seExe = SeExes /\ DOMAIN seExe[e] = DOMAIN NoExe
  BY DEF StreamInv, Sound
<1>2. CASE UNCHANGED seExe
  BY <1>2
<1>3. CASE WaitAndClear
  <2>1. \/ seExe' = [seExe EXCEPT ![SeRoot].textEvent = FALSE]
        \/ seExe' = [seExe EXCEPT ![SeRoot].streamSet = @ \ {seReader.of}]
    BY <1>3 DEF WaitAndClear
  <2>2. PICK S : S = seExe[SeRoot].streamSet \ {seReader.of}
    OBVIOUS
  <2>3. \/ seExe'[e] = seExe[e] \/ seExe'[e] = [seExe[e] EXCEPT !.textEvent = FALSE]
        \/ seExe'[e] = [seExe[e] EXCEPT !.streamSet = S]
    BY <1>1, <2>1, <2>2
  <2> QED BY <1>1, <2>3 DEF NoExe
<1> QED BY <1>2, <1>3 DEF ReaderStep, FindEvent, ReadNew, CheckEnd

\* Which steps change the program's place, and how.
LEMMA Moves ==
  ASSUME StreamInv, StreamNext
  PROVE  /\ UNCHANGED seProgram /\ Len(seProgram) \in Nat /\ DOMAIN seProgram = 1 .. Len(seProgram)
         /\ UNCHANGED seOp \/ seOp' = seOp + 1 \/ seOp' = Len(seProgram) + 1
         /\ seOp \in Nat \ {0}
<1>1. /\ Len(seProgram) \in Nat /\ DOMAIN seProgram = 1 .. Len(seProgram) /\ seOp \in Nat \ {0}
  BY ProgramTyped DEF StreamInv
<1>2. CASE \E e \in SeExes : WorkerStep(e)
  <2>1. UNCHANGED <<seProgram, seOp>>
    BY <1>2 DEF WorkerStep, TakeItem, TaskDone, Fill, ExecuteGen, ExecuteSelect, ScopeBegin, ScopeEnd, Concatenate,
                CommitLazy, Fails, DrainDone, DrainGet, SetEvents, WakeReader, Finish, Executing, Worker
  <2> QED BY <1>1, <2>1
<1>3. CASE ProgramStep
  <2>1. UNCHANGED seOp \/ seOp' = seOp + 1 \/ seOp' = Len(seProgram) + 1
    BY <1>3 DEF ProgramStep, InitVarEvent, Submit, GetVar, Sync, ForkBegins, Fork, JoinBegins, Gather, JoinEnds, End,
                RunEnds, RunSynced, Ongoing, NextOp, Raise
  <2> QED BY <1>1, <1>3, <2>1, ProgramMoves
<1>4. CASE ReaderStep
  <2>1. UNCHANGED <<seProgram, seOp>>
    BY <1>4 DEF ReaderStep, FindEvent, WaitAndClear, ReadNew, CheckEnd, Reader
  <2> QED BY <1>1, <2>1
<1> QED BY <1>2, <1>3, <1>4 DEF StreamNext

\* The executors of forks to come have not begun after a step either.
LEMMA UnforkedStays ==
  ASSUME StreamInv, Unforked, StreamNext
  PROVE  Unforked'
<1>1. /\ UNCHANGED seProgram /\ Len(seProgram) \in Nat /\ DOMAIN seProgram = 1 .. Len(seProgram)
      /\ UNCHANGED seOp \/ seOp' = seOp + 1 \/ seOp' = Len(seProgram) + 1
      /\ seOp \in Nat \ {0}
  BY Moves
<1> SUFFICES ASSUME NEW j \in DOMAIN seProgram, j >= seOp', seProgram[j].do = "fork",
                    NEW k \in Range(seProgram[j].kids)
             PROVE  seExe'[k].pc = "none" /\ ~seExe'[k].error
  BY <1>1 DEF Unforked
<1>2. j >= seOp /\ seExe[k].pc = "none" /\ ~seExe[k].error
  BY <1>1 DEF Unforked
<1>3. k \in SeExes
  <2>1. seProgram[j].kids \in Seq(SeExes \ {SeRoot})
    BY StreamAssumption DEF StreamInv
  <2> QED BY <2>1 DEF Range
<1>4. CASE \E e \in SeExes : WorkerStep(e)
  <2>1. PICK e \in SeExes : WorkerStep(e)
    BY <1>4
  <2>2. seExe[e].pc # "none"
    BY <2>1 DEF WorkerStep, TakeItem, TaskDone, Fill, ExecuteGen, ExecuteSelect, ScopeBegin, ScopeEnd, Concatenate,
                CommitLazy, Fails, DrainDone, DrainGet, SetEvents, WakeReader, Finish, Executing, Worker
  <2>3. seExe'[k] = seExe[k]
    BY <1>2, <1>3, <2>1, <2>2, WorkerGoesOn DEF OnlyGoesOn
  <2> QED BY <1>2, <2>3
<1>5. CASE ProgramStep /\ ~Fork
  BY <1>2, <1>3, <1>5, ProgramPlaces DEF SamePlaces
<1>6. CASE Fork
  <2>1. /\ seOp \in DOMAIN seProgram /\ seProgram[seOp].do = "fork" /\ seOp' = seOp + 1
        /\ seExe'[k] = seExe[k] \/ k \in Range(seProgram[seOp].kids)
    BY <1>1, <1>3, <1>6 DEF Fork, Ongoing, NextOp, Op
  <2>2. j # seOp
    BY <1>1, <2>1
  <2>3. k \notin Range(seProgram[seOp].kids)
    BY <2>1, <2>2, StreamAssumption DEF StreamInv
  <2> QED BY <1>2, <2>1, <2>3
<1>7. CASE ReaderStep
  BY <1>2, <1>3, <1>7, ReaderFields
<1> QED BY <1>4, <1>5, <1>6, <1>7 DEF StreamNext

\* A failure is never undone.
LEMMA FailedStays ==
  ASSUME StreamInv, Unforked, StreamNext, Failed
  PROVE  Failed'
<1>1. PICK f \in SeExes : FailedExe(seExe[f])
  BY DEF Failed, FailedExe
<1> SUFFICES FailedExe(seExe'[f])
  BY DEF Failed, FailedExe
<1>2. CASE \E e \in SeExes : WorkerStep(e)
  <2>1. PICK e \in SeExes : WorkerStep(e)
    BY <1>2
  <2> QED BY <1>1, <2>1, FailureStays, WorkerGoesOn DEF OnlyGoesOn
<1>3. CASE ProgramStep /\ ~Fork
  BY <1>1, <1>3, ProgramPlaces DEF SamePlaces, FailedExe
<1>4. CASE Fork
  <2>1. /\ seOp \in DOMAIN seProgram /\ seProgram[seOp].do = "fork"
        /\ seExe'[f] = seExe[f] \/ f \in Range(seProgram[seOp].kids)
    BY <1>1, <1>4, Moves DEF Fork, Ongoing, NextOp, Op
  <2>2. f \notin Range(seProgram[seOp].kids)
    <3>1. seOp >= seOp
      BY DEF StreamInv
    <3> QED BY <1>1, <2>1, <3>1 DEF Unforked, FailedExe
  <2> QED BY <1>1, <2>1, <2>2
<1>5. CASE ReaderStep
  BY <1>1, <1>5, ReaderFields DEF FailedExe
<1> QED BY <1>2, <1>3, <1>4, <1>5 DEF StreamNext


\* Two states of an executor that differ in nothing the answers depend on.
Alike(new, exe) ==
  /\ new.pc = exe.pc /\ new.item = exe.item /\ new.queue = exe.queue /\ new.made = exe.made
  /\ new.set = exe.set /\ new.vars = exe.vars /\ new.at = exe.at

\* An executor that differs in nothing of this is as tidy as before.
LEMMA AlikeTidy ==
  ASSUME NEW X, NEW exe, Tidy(exe), Valued(exe, X), NEW new, Alike(new, exe)
  PROVE  Tidy(new) /\ Valued(new, X) /\ Pending(new) = Pending(exe)
<1>1. Pending(new) = Pending(exe)
  BY DEF Pending, Alike
<1>2. Tidy(new)
  BY <1>1 DEF Tidy, Alike
<1>3. InAnswer(new) <=> InAnswer(exe)
  BY DEF InAnswer, Alike
<1>4. Valued(new, X)
  BY <1>3 DEF Valued, Alike
<1> QED BY <1>1, <1>2, <1>4

\* An item is put into the queue whose answers are not pending and not announced.
LEMMA PutTidy ==
  ASSUME NEW X, NEW E, NEW P, NEW exe, Sound(exe, E, P), Tidy(exe), Valued(exe, X),
         NEW item \in Seq(E), Distinct(item), AnswersIn(item) \cap Pending(exe) = {},
         AnswersIn(item) \subseteq exe.made \ exe.set
  PROVE  /\ Tidy(Put(exe, item)) /\ Valued(Put(exe, item), X)
         /\ Pending(Put(exe, item)) = Pending(exe) \cup AnswersIn(item)
<1> DEFINE new == Put(exe, item)
           q == exe.queue
           m == Len(q)
<1>1. /\ new.pc = exe.pc /\ new.made = exe.made /\ new.set = exe.set
      /\ new.item = exe.item /\ new.vars = exe.vars /\ new.at = exe.at /\ new.queue = Append(q, item)
  BY PutPlace DEF Sound
<1>2. q \in Seq(Seq(E)) /\ m \in Nat
  BY DEF Sound
<1>3. Len(new.queue) = m + 1 /\ new.queue[m + 1] = item /\ \A a \in 1 .. m : new.queue[a] = q[a]
  <2> HIDE DEF q, new
  <2>1. Len(Append(q, item)) = m + 1 /\ Append(q, item)[m + 1] = item
        /\ \A a \in 1 .. m : Append(q, item)[a] = q[a]
    BY <1>2
  <2> QED BY <1>1, <2>1
<1> HIDE DEF new, q, m
<1>4. 1 .. m + 1 = (1 .. m) \cup {m + 1}
  BY <1>2
<1>5. Pending(new) = Pending(exe) \cup AnswersIn(item)
  BY <1>1, <1>3, <1>4 DEF Pending, q, m
<1>6. \A a \in 1 .. m : AnswersIn(q[a]) \subseteq Pending(exe)
  BY DEF Pending, q, m
<1>7. ASSUME NEW a \in 1 .. m + 1
      PROVE  Distinct(new.queue[a]) /\ AnswersIn(new.queue[a]) \cap AnswersIn(new.item) = {}
  <2>1. CASE a = m + 1
    <3>1. AnswersIn(exe.item) \subseteq Pending(exe)
      BY DEF Pending
    <3> QED BY <1>1, <1>3, <2>1, <3>1
  <2>2. CASE a \in 1 .. m
    BY <1>1, <1>3, <2>2 DEF Tidy, q, m
  <2> QED BY <1>4, <2>1, <2>2
<1>8. ASSUME NEW a \in 1 .. m + 1, NEW b \in 1 .. m + 1, a # b
      PROVE  AnswersIn(new.queue[a]) \cap AnswersIn(new.queue[b]) = {}
  <2>1. CASE a \in 1 .. m /\ b \in 1 .. m
    BY <1>3, <1>8, <2>1 DEF Tidy, q, m
  <2>2. CASE a = m + 1 /\ b \in 1 .. m
    BY <1>3, <1>6, <2>2
  <2>3. CASE b = m + 1 /\ a \in 1 .. m
    BY <1>3, <1>6, <2>3
  <2> QED BY <1>4, <1>8, <2>1, <2>2, <2>3
<1>9. Pending(new) \subseteq new.made \ new.set
  BY <1>1, <1>5 DEF Tidy
<1>10. Tidy(new)
  <2>1. Distinct(new.item)
    BY <1>1 DEF Tidy
  <2> QED BY <1>3, <1>7, <1>8, <1>9, <2>1 DEF Tidy
<1>11. InAnswer(new) <=> InAnswer(exe)
  BY <1>1 DEF InAnswer
<1>12. Valued(new, X)
  BY <1>1, <1>11 DEF Valued
<1> QED BY <1>5, <1>10, <1>12 DEF new

\* An item without answers.
AsksNothing(item) == Distinct(item) /\ AnswersIn(item) = {}

\* Queued, an item without answers leaves what is pending.
LEMMA PutNothing ==
  ASSUME NEW X, NEW E, NEW P, NEW exe, Sound(exe, E, P), Tidy(exe), Valued(exe, X),
         NEW item \in Seq(E), AsksNothing(item)
  PROVE  /\ Tidy(Put(exe, item)) /\ Valued(Put(exe, item), X)
         /\ Pending(Put(exe, item)) = Pending(exe)
<1>1. /\ Distinct(item) /\ AnswersIn(item) \cap Pending(exe) = {}
      /\ AnswersIn(item) \subseteq exe.made \ exe.set
  BY DEF AsksNothing
<1>2. /\ Tidy(Put(exe, item)) /\ Valued(Put(exe, item), X)
      /\ Pending(Put(exe, item)) = Pending(exe) \cup AnswersIn(item)
  BY <1>1, PutTidy
<1> QED BY <1>2 DEF AsksNothing

\* Nothing is asked for by the empty item and by the commit of lazy operations.
LEMMA NothingAsked ==
  ASSUME NEW item \in {<<>>, <<[kind |-> "commit", name |-> SeNone]>>}
  PROVE  item \in Seq(AllExprs) /\ AsksNothing(item)
<1>1. CASE item = <<>>
  <2>1. Len(item) = 0
    BY <1>1
  <2>2. 1 .. Len(item) = {}
    BY <2>1
  <2> QED BY <1>1, <2>2 DEF Distinct, AnswersIn, AsksNothing
<1>2. CASE item = <<[kind |-> "commit", name |-> SeNone]>>
  <2>1. item = <<Commit>>
    BY <1>2 DEF Commit
  <2>2. item \in Seq(AllExprs) /\ Len(item) = 1 /\ \A j \in 1 .. 1 : item[j] = Commit
    <3>1. Commit \in AllExprs
      BY DEF AllExprs
    <3> HIDE DEF Commit
    <3> QED BY <2>1, <3>1
  <2>3. ~IsAnswer(Commit)
    BY DEF IsAnswer, Commit
  <2> QED BY <2>2, <2>3 DEF Distinct, AnswersIn, AsksNothing
<1> QED BY <1>1, <1>2

\* The events of an item's names are there before it is put.
LEMMA EventsTidy ==
  ASSUME NEW X, NEW E, NEW P, NEW exe, Sound(exe, E, P), Tidy(exe), Valued(exe, X), NEW S,
         NEW new, new.pc = exe.pc, new.made = exe.made \cup S, new.set = exe.set \ S,
         new.item = exe.item, new.vars = exe.vars, new.at = exe.at, new.queue = exe.queue
  PROVE  /\ Tidy(new) /\ Valued(new, X) /\ Pending(new) = Pending(exe)
         /\ S \subseteq new.made \ new.set
<1>1. /\ new.pc = exe.pc /\ new.made = exe.made \cup S /\ new.set = exe.set \ S
      /\ new.item = exe.item /\ new.vars = exe.vars /\ new.at = exe.at /\ new.queue = exe.queue
  OBVIOUS
<1>2. Pending(new) = Pending(exe)
  BY <1>1 DEF Pending
<1>3. Tidy(new)
  BY <1>1, <1>2 DEF Tidy
<1>4. InAnswer(new) <=> InAnswer(exe)
  BY <1>1 DEF InAnswer
<1>5. Valued(new, X)
  BY <1>1, <1>4 DEF Valued
<1> QED BY <1>1, <1>2, <1>3, <1>5

\* What a join gathers is no text, and it takes no text away.
LEMMA GatheredTidy ==
  ASSUME NEW X, NEW E, NEW P, NEW exe, Sound(exe, E, P), Tidy(exe), Valued(exe, X), NEW N, NEW vars,
         \A k \in N \cap DOMAIN exe.vars : exe.vars[k][1] = "list"
  PROVE  LET new == Gathered(exe, N, vars) IN
         Tidy(new) /\ Valued(new, X) /\ Pending(new) = Pending(exe)
<1> DEFINE new == Gathered(exe, N, vars)
<1>1. /\ new.pc = exe.pc /\ new.made = exe.made /\ new.set = exe.set
      /\ new.item = exe.item /\ new.at = exe.at /\ new.queue = exe.queue
      /\ new.vars = [k \in DOMAIN exe.vars \cup N |->
                       IF k \notin N THEN exe.vars[k]
                       ELSE IF k \in DOMAIN exe.vars THEN <<"list", Append(exe.vars[k][2], vars[k])>>
                       ELSE <<"list", <<vars[k]>>>>]
  BY DEF Sound, NoExe, Gathered
<1> HIDE DEF new
<1>2. \A k \in DOMAIN new.vars : IF k \in N THEN new.vars[k][1] = "list" ELSE new.vars[k] = exe.vars[k]
  BY <1>1
<1>3. \A k \in DOMAIN new.vars \ N : k \in DOMAIN exe.vars
  BY <1>1
<1>4. Pending(new) = Pending(exe)
  BY <1>1 DEF Pending
<1>5. Tidy(new)
  BY <1>1, <1>4 DEF Tidy
<1>6. InAnswer(new) <=> InAnswer(exe)
  BY <1>1 DEF InAnswer
<1>7. ASSUME InAnswer(new)
      PROVE  /\ Head(new.item).name \in DOMAIN new.vars
             /\ new.vars[Head(new.item).name] = Text(Pieces(Head(new.item), new.at - 1))
             /\ new.at <= Head(new.item).chunks + 1
  <2> DEFINE n == Head(exe.item).name
  <2>1. n \in DOMAIN exe.vars /\ exe.vars[n] = Text(Pieces(Head(exe.item), exe.at - 1))
        /\ exe.at <= Head(exe.item).chunks + 1
    BY <1>6, <1>7 DEF Valued
  <2>2. exe.vars[n][1] = "text"
    BY <2>1 DEF Text
  <2>3. n \notin N
    BY <2>1, <2>2
  <2> HIDE DEF n
  <2>4. n \in DOMAIN new.vars /\ new.vars[n] = exe.vars[n]
    BY <1>1, <2>1, <2>3
  <2> QED BY <1>1, <2>1, <2>4 DEF n
<1>8. ASSUME NEW n \in DOMAIN new.vars \cap Names(X), new.vars[n][1] = "text"
      PROVE  WholeFor(n, new.vars[n][2], X) \/ (InAnswer(new) /\ Head(new.item).name = n)
  <2>1. n \notin N
    BY <1>2, <1>8
  <2>2. n \in DOMAIN exe.vars \cap Names(X) /\ new.vars[n] = exe.vars[n]
    BY <1>2, <1>3, <2>1
  <2> QED BY <1>1, <1>6, <1>8, <2>2 DEF Valued
<1>9. Valued(new, X)
  BY <1>7, <1>8 DEF Valued
<1> QED BY <1>4, <1>5, <1>9 DEF new

\* A child starts from the variables of a parent that is not answering.
LEMMA ChildTidy ==
  ASSUME NEW X, NEW E, NEW P, NEW exe, Sound(exe, E, P), Valued(exe, X), exe.unfinished = 0,
         NEW new, new = [NoExe EXCEPT !.pc = "get", !.vars = exe.vars, !.text = exe.text,
                                      !.forkPos = Len(exe.text)]
  PROVE  Tidy(new) /\ Valued(new, X) /\ Pending(new) = {}
<1>1. new.pc = "get" /\ new.item = <<>> /\ new.queue = <<>> /\ new.made = {} /\ new.vars = exe.vars
  BY DEF NoExe
<1>2. exe.pc # "exec"
  <2>1. Len(exe.queue) \in Nat /\ (exe.pc = "exec" => HasInHand(exe) = 1)
    BY DEF Sound, HasInHand
  <2> QED BY <2>1 DEF Sound
<1>3. Len(<<>>) = 0
  OBVIOUS
<1>4. 1 .. Len(new.queue) = {} /\ 1 .. Len(new.item) = {}
  BY <1>1, <1>3
<1>5. Pending(new) = {} /\ AnswersIn(new.item) = {}
  BY <1>4 DEF Pending, AnswersIn
<1>6. Tidy(new)
  BY <1>4, <1>5 DEF Tidy, Distinct
<1>7. ~InAnswer(exe) /\ ~InAnswer(new)
  BY <1>1, <1>2 DEF InAnswer
<1>8. Valued(new, X)
  BY <1>1, <1>7 DEF Valued
<1> QED BY <1>5, <1>6, <1>8


-------------------------------------------------------------------------------
(* The steps of a behaviour in which nothing has failed *)

Sane == AllTidy /\ AllAsked /\ EventsMade /\ AllWhole

\* An answer asked for stays so until it is read.
LEMMA AskedStays ==
  ASSUME NEW e, NEW n, Asked(e, n), UNCHANGED seProgram, seOp \in Nat,
         Len(seProgram) \in Nat, DOMAIN seProgram = 1 .. Len(seProgram),
         \/ seOp' = seOp
         \/ seOp' = seOp + 1 /\ ~Gets(seOp, e, n)
  PROVE  Asked(e, n)'
<1>1. PICK i \in DOMAIN seProgram :
        /\ i < seOp /\ Submits(i) /\ seProgram[i].exe = e /\ n \in AnswersIn(seProgram[i].item)
        /\ \A k \in DOMAIN seProgram : i < k /\ k < seOp => ~Gets(k, e, n)
  BY DEF Asked
<1>2. i < seOp'
  BY <1>1
<1>3. ASSUME NEW k \in DOMAIN seProgram, i < k, k < seOp' PROVE ~Gets(k, e, n)
  <2>1. k < seOp \/ (k = seOp /\ ~Gets(seOp, e, n))
    BY <1>3
  <2> QED BY <1>1, <1>3, <2>1
<1> QED BY <1>1, <1>2, <1>3 DEF Asked, Submits, Gets

\* What is submitted is not pending: it is new, or has been read.
LEMMA NotAskedYet ==
  ASSUME StreamInv, ReadsBeforeAsking, AllAsked, seOp <= Len(seProgram), Op.do = "submit"
  PROVE  /\ Op.exe \in SeExes /\ Op.item \in Seq(AllExprs) /\ Distinct(Op.item)
         /\ AnswersIn(Op.item) \cap Pending(seExe[Op.exe]) = {}
         /\ AnswersIn(Op.item) \subseteq Names(Exprs)
<1>1. /\ seOp \in DOMAIN seProgram /\ seOp <= Len(seProgram) /\ Submits(seOp)
      /\ Op = seProgram[seOp]
  BY ProgramTyped DEF StreamInv, Op, Submits
<1>2. Op.exe \in SeExes /\ Op.item \in Seq(AllExprs)
  <2>1. Op.item \in Seq(AllExprs)
    BY <1>1, ProgramTyped DEF StreamInv, Submits
  <2>2. Op.exe \in SeExes
    BY <1>1, StreamAssumption DEF StreamInv, Submits
  <2> QED BY <2>1, <2>2
<1>3. Distinct(Op.item)
  BY <1>1 DEF ReadsBeforeAsking
<1>4. AnswersIn(Op.item) \subseteq Names(Exprs)
  <2> DEFINE q == Op.item
             X == Exprs
  <2>1. q \in Seq(X \cup {Commit})
    BY <1>2 DEF AllExprs
  <2> HIDE DEF q, X
  <2>2. AnswersIn(q) \subseteq Names(X)
    BY <2>1, AnswersNamed
  <2> QED BY <2>2 DEF q, X
<1>5. ASSUME NEW n \in AnswersIn(Op.item), n \in Pending(seExe[Op.exe]) PROVE FALSE
  <2>1. Asked(Op.exe, n)
    BY <1>1, <1>2, <1>5 DEF AllAsked
  <2>2. PICK i \in DOMAIN seProgram :
          /\ i < seOp /\ Submits(i) /\ seProgram[i].exe = Op.exe /\ n \in AnswersIn(seProgram[i].item)
          /\ \A k \in DOMAIN seProgram : i < k /\ k < seOp => ~Gets(k, Op.exe, n)
    BY <2>1 DEF Asked
  <2>3. \E k \in DOMAIN seProgram : i < k /\ k < seOp /\ Gets(k, Op.exe, n)
    BY <1>1, <1>5, <2>2 DEF ReadsBeforeAsking
  <2> QED BY <2>2, <2>3
<1> QED BY <1>2, <1>3, <1>4, <1>5

\* A worker's step.
LEMMA WorkerSane ==
  ASSUME StreamInv, ReadsBeforeAsking, Sane, NEW e \in SeExes, WorkerStep(e), ~Failed'
  PROVE  Sane'
<1>1. UNCHANGED <<seProgram, seOp, seStep, seGot>>
  BY DEF WorkerStep, TakeItem, TaskDone, Fill, ExecuteGen, ExecuteSelect, ScopeBegin, ScopeEnd, Concatenate,
         CommitLazy, Fails, DrainDone, DrainGet, SetEvents, WakeReader, Finish, Executing, Worker
<1>2. Exprs' = Exprs
  BY <1>1 DEF Exprs
<1>3. Answers(seExe[e], seExe'[e], Exprs)
  <2>1. ~FailedExe(seExe'[e])
    BY DEF Failed, FailedExe
  <2>2. Ready(e)
    BY DEF Ready, Sane, AllTidy, ReadsBeforeAsking
  <2> QED BY <2>1, <2>2, WorkerAnswers
<1>4. \A o \in SeExes \ {e} : seExe'[o] = seExe[o]
  BY WorkerGoesOn DEF OnlyGoesOn
<1>5. AllTidy'
  <2>1. \A o \in SeExes : Tidy(seExe'[o]) /\ Valued(seExe'[o], Exprs)
    BY <1>3, <1>4 DEF Answers, Sane, AllTidy
  <2> QED BY <1>2, <2>1 DEF AllTidy
<1>6. \A o \in SeExes : Pending(seExe'[o]) \subseteq Pending(seExe[o])
  BY <1>3, <1>4 DEF Answers
<1>7. AllAsked'
  <2> SUFFICES ASSUME seOp' <= Len(seProgram'), NEW o \in SeExes, NEW n \in Pending(seExe'[o])
               PROVE  Asked(o, n)'
    BY DEF AllAsked
  <2>1. Asked(o, n)
    BY <1>1, <1>6 DEF Sane, AllAsked
  <2> QED BY <1>1, <2>1 DEF Asked, Submits, Gets
<1>8. EventsMade'
  <2> SUFFICES ASSUME seOp <= Len(seProgram), Op.do = "submit", seStep = "put"
               PROVE  AnswersIn(Op.item) \subseteq seExe'[Op.exe].made \ seExe'[Op.exe].set
    BY <1>1 DEF EventsMade, Op
  <2>1. AnswersIn(Op.item) \subseteq seExe[Op.exe].made \ seExe[Op.exe].set
    BY DEF Sane, EventsMade
  <2>2. /\ Op.exe \in SeExes /\ AnswersIn(Op.item) \cap Pending(seExe[Op.exe]) = {}
        /\ AnswersIn(Op.item) \subseteq Names(Exprs)
    BY NotAskedYet DEF Sane
  <2>3. CASE Op.exe = e
    BY <1>3, <2>1, <2>2, <2>3 DEF Answers
  <2>4. CASE Op.exe # e
    BY <1>4, <2>1, <2>2, <2>4
  <2> QED BY <2>3, <2>4
<1>9. AllWhole'
  BY <1>1, <1>2 DEF AllWhole, Sane, WholeFor, Whole
<1> QED BY <1>5, <1>7, <1>8, <1>9 DEF Sane


\* A step that asks for nothing and reads nothing.
LEMMA MoveSane ==
  ASSUME StreamInv, Sane, StreamNext, UNCHANGED seGot,
         \A e \in SeExes : Tidy(seExe'[e]) /\ Valued(seExe'[e], Exprs)
                           /\ Pending(seExe'[e]) \subseteq Pending(seExe[e]),
         seOp' <= Len(seProgram) => seOp' = seOp \/ (seOp' = seOp + 1 /\ Op.do # "get"),
         EventsMade'
  PROVE  Sane'
<1>1. /\ UNCHANGED seProgram /\ Len(seProgram) \in Nat /\ DOMAIN seProgram = 1 .. Len(seProgram)
      /\ seOp \in Nat \ {0}
  BY Moves
<1>2. Exprs' = Exprs
  BY <1>1 DEF Exprs
<1>3. AllTidy'
  BY <1>2 DEF AllTidy
<1>4. AllAsked'
  <2> SUFFICES ASSUME seOp' <= Len(seProgram), NEW e \in SeExes, NEW n \in Pending(seExe'[e])
               PROVE  Asked(e, n)'
    BY <1>1 DEF AllAsked
  <2>1. seOp <= Len(seProgram) /\ n \in Pending(seExe[e])
    BY <1>1
  <2>2. Asked(e, n)
    BY <2>1 DEF Sane, AllAsked
  <2>3. seOp' = seOp \/ (seOp' = seOp + 1 /\ ~Gets(seOp, e, n))
    BY DEF Gets, Op
  <2>4. seOp \in Nat
    BY <1>1
  <2> QED BY <1>1, <2>2, <2>3, <2>4, AskedStays
<1>5. AllWhole'
  BY <1>1, <1>2 DEF AllWhole, Sane, WholeFor, Whole
<1> QED BY <1>3, <1>4, <1>5 DEF Sane

\* The reader's.
LEMMA ReaderSane ==
  ASSUME StreamInv, Sane, ReaderStep
  PROVE  Sane'
<1>1. UNCHANGED <<seProgram, seOp, seStep, seGot>>
  BY DEF ReaderStep, FindEvent, WaitAndClear, ReadNew, CheckEnd, Reader
<1>2. ASSUME NEW e \in SeExes
      PROVE  /\ Tidy(seExe'[e]) /\ Valued(seExe'[e], Exprs)
             /\ Pending(seExe'[e]) \subseteq Pending(seExe[e])
  <2>1. Alike(seExe'[e], seExe[e])
    BY ReaderFields DEF Alike
  <2> QED BY <2>1, AlikeTidy DEF Sane, AllTidy
<1>3. EventsMade'
  <2> SUFFICES ASSUME seOp <= Len(seProgram), Op.do = "submit", seStep = "put"
               PROVE  AnswersIn(Op.item) \subseteq seExe'[Op.exe].made \ seExe'[Op.exe].set
    BY <1>1 DEF EventsMade, Op
  <2>1. seOp \in DOMAIN seProgram
    BY ProgramTyped DEF StreamInv
  <2>2. Op.exe \in SeExes
    BY <2>1, StreamAssumption DEF StreamInv, Op
  <2> QED BY <2>2, ReaderFields DEF Sane, EventsMade
<1> QED BY <1>1, <1>2, <1>3, MoveSane DEF StreamNext

\* Only the making of events leads to a put.
LEMMA PutFollowsEvents ==
  ASSUME ProgramStep, ~InitVarEvent
  PROVE  EventsMade'
<1>1. seStep' # "put"
  BY DEF ProgramStep, Submit, GetVar, Sync, ForkBegins, Fork, JoinBegins, Gather, JoinEnds, End,
         RunEnds, RunSynced, Ongoing, NextOp, Raise
<1> QED BY <1>1 DEF EventsMade

\* The steps of a program that ask for nothing and read nothing.
LEMMA QuietSane ==
  ASSUME StreamInv, Sane, ProgramStep, ~InitVarEvent, ~Submit, ~GetVar
  PROVE  Sane'
<1>0. DOMAIN seExe = SeExes /\ \A e \in SeExes : Sound(seExe[e], AllExprs, AllPieces)
  BY DEF StreamInv
<1>1. /\ UNCHANGED seGot /\ Len(seProgram) \in Nat
      /\ seOp' <= Len(seProgram) => seOp' = seOp \/ (seOp' = seOp + 1 /\ Op.do # "get")
  <2>1. Len(seProgram) \in Nat
    BY Moves DEF StreamNext
  <2> QED
    BY <2>1 DEF ProgramStep, Sync, ForkBegins, Fork, JoinBegins, Gather, JoinEnds, End,
                RunEnds, RunSynced, Ongoing, NextOp, Raise
<1>2. \A e \in SeExes : Tidy(seExe[e]) /\ Valued(seExe[e], Exprs)
  BY DEF Sane, AllTidy
<1>3. \A item \in {<<>>, <<[kind |-> "commit", name |-> SeNone]>>} :
        item \in Seq(AllExprs) /\ AsksNothing(item)
  BY NothingAsked
<1>4. ASSUME NEW e \in SeExes, NEW item \in {<<>>, <<[kind |-> "commit", name |-> SeNone]>>}
      PROVE  LET new == Put(seExe[e], item) IN
             /\ Tidy(new) /\ Valued(new, Exprs) /\ Pending(new) = Pending(seExe[e])
  <2> DEFINE exe == seExe[e]
             X == Exprs
             E == AllExprs
             P == AllPieces
  <2>1. Sound(exe, E, P) /\ Tidy(exe) /\ Valued(exe, X)
    BY <1>0, <1>2
  <2>2. item \in Seq(E) /\ AsksNothing(item)
    BY <1>3
  <2> HIDE DEF exe, X, E, P
  <2>3. PICK i : i = item
    OBVIOUS
  <2>4. i \in Seq(E) /\ AsksNothing(i)
    BY <2>2, <2>3
  <2>5. /\ Tidy(Put(exe, i)) /\ Valued(Put(exe, i), X) /\ Pending(Put(exe, i)) = Pending(exe)
    BY <2>1, <2>4, PutNothing
  <2> QED BY <2>3, <2>5 DEF exe, X
<1>5. ASSUME NEW e \in SeExes
      PROVE  /\ Tidy(seExe'[e]) /\ Valued(seExe'[e], Exprs)
             /\ Pending(seExe'[e]) \subseteq Pending(seExe[e])
  <2>1. CASE seExe'[e] = seExe[e]
    BY <1>2, <2>1
  <2>2. CASE JoinEnds \/ End \/ RunEnds
    <3>1. seExe'[e] = Put(seExe[e], <<>>) \/ seExe'[e] = seExe[e]
      BY <2>2 DEF JoinEnds, End, RunEnds, WithEnd
    <3> QED BY <1>4, <2>1, <3>1
  <2>3. CASE ForkBegins
    <3>1. seExe'[e] = Put(seExe[e], <<[kind |-> "commit", name |-> SeNone]>>) \/ seExe'[e] = seExe[e]
      BY <1>0, <2>3 DEF ForkBegins
    <3> QED BY <1>4, <2>1, <3>1
  <2>4. CASE Fork
    <3> DEFINE o == Op.exe
               kid == [NoExe EXCEPT !.pc = "get", !.vars = seExe[o].vars, !.text = seExe[o].text,
                                    !.forkPos = Len(seExe[o].text)]
    <3>1. o \in SeExes /\ seExe[o].unfinished = 0
      BY <2>4, OpTyped DEF Fork, Synced
    <3>2. seExe'[e] = kid \/ seExe'[e] = seExe[e]
      BY <2>4 DEF Fork
    <3> HIDE DEF o
    <3>3. Tidy(kid) /\ Valued(kid, Exprs) /\ Pending(kid) = {}
      BY <1>0, <1>2, <3>1, ChildTidy
    <3> QED BY <2>1, <3>2, <3>3
  <2>5. CASE Gather
    <3> DEFINE o == Op.exe
               kid == Op.kids[seJoin.kid]
               N == DOMAIN seExe[kid].vars \ seJoin.base
               vars == seExe[kid].vars
    <3>1. \/ seExe' = seExe
          \/ /\ \A k \in N \cap DOMAIN seExe[o].vars : seExe[o].vars[k][1] = "list"
             /\ seExe' = [seExe EXCEPT ![o] = Gathered(@, N, vars)]
      BY <2>5 DEF Gather
    <3> HIDE DEF N, vars, kid, o
    <3>2. CASE seExe'[e] # seExe[e]
      <4>1. /\ e = o /\ seExe'[e] = Gathered(seExe[e], N, vars)
            /\ \A k \in N \cap DOMAIN seExe[e].vars : seExe[e].vars[k][1] = "list"
        BY <1>0, <3>1, <3>2
      <4> QED BY <1>0, <1>2, <4>1, GatheredTidy
    <3> QED BY <2>1, <3>2
  <2>6. CASE Sync \/ JoinBegins \/ RunSynced
    BY <2>1, <2>6 DEF Sync, JoinBegins, RunSynced
  <2> QED BY <2>2, <2>3, <2>4, <2>5, <2>6 DEF ProgramStep
<1>6. EventsMade'
  BY PutFollowsEvents
<1> QED BY <1>1, <1>5, <1>6, MoveSane DEF StreamNext

\* The events of an item are made.
LEMMA EventsSane ==
  ASSUME StreamInv, Sane, InitVarEvent
  PROVE  Sane'
<1> DEFINE o == Op.exe
           S == EventsOf(Op.item)
           new == [seExe[o] EXCEPT !.made = seExe[o].made \cup S, !.set = seExe[o].set \ S]
<1>1. /\ o \in SeExes /\ Op.item \in Seq(AllExprs) /\ DOMAIN seExe = SeExes
      /\ Sound(seExe[o], AllExprs, AllPieces)
  BY OpTyped DEF InitVarEvent, StreamInv
<1>2. UNCHANGED <<seProgram, seOp, seGot>> /\ seExe' = [seExe EXCEPT ![o] = new]
  BY <1>1 DEF InitVarEvent, Ongoing
<1>3. Tidy(seExe[o]) /\ Valued(seExe[o], Exprs)
  BY <1>1 DEF Sane, AllTidy
<1>4. AnswersIn(Op.item) \subseteq S
  <2>1. DOMAIN Op.item = 1 .. Len(Op.item)
    BY <1>1
  <2> QED BY <2>1 DEF AnswersIn, EventsOf, IsAnswer, Named
<1> HIDE DEF S, o
<1>5. /\ Tidy(new) /\ Valued(new, Exprs) /\ Pending(new) = Pending(seExe[o])
      /\ S \subseteq new.made \ new.set
  <2> DEFINE exe == seExe[o]
             X == Exprs
             E == AllExprs
             P == AllPieces
  <2>1. Sound(exe, E, P) /\ Tidy(exe) /\ Valued(exe, X)
    BY <1>1, <1>3
  <2>2. /\ new.pc = exe.pc /\ new.made = exe.made \cup S /\ new.set = exe.set \ S
        /\ new.item = exe.item /\ new.vars = exe.vars /\ new.at = exe.at /\ new.queue = exe.queue
    BY <1>1 DEF Sound, NoExe
  <2> HIDE DEF exe, X, E, P, new
  <2>3. /\ Tidy(new) /\ Valued(new, X) /\ Pending(new) = Pending(exe)
        /\ S \subseteq new.made \ new.set
    BY <2>1, <2>2, EventsTidy
  <2> QED BY <2>3 DEF exe, X
<1> HIDE DEF new
<1>6. seExe'[o] = new /\ \A e \in SeExes \ {o} : seExe'[e] = seExe[e]
  BY <1>1, <1>2
<1>7. \A e \in SeExes : Tidy(seExe'[e]) /\ Valued(seExe'[e], Exprs)
                        /\ Pending(seExe'[e]) \subseteq Pending(seExe[e])
  BY <1>5, <1>6 DEF Sane, AllTidy
<1>8. EventsMade'
  <2>1. Op' = Op
    BY <1>2 DEF Op
  <2>2. AnswersIn(Op.item) \subseteq seExe'[Op.exe].made \ seExe'[Op.exe].set
    BY <1>4, <1>5, <1>6 DEF o
  <2> QED BY <2>1, <2>2 DEF EventsMade
<1>9. ProgramStep
  BY DEF ProgramStep
<1> QED BY <1>2, <1>7, <1>8, <1>9, MoveSane DEF StreamNext


\* An item is put: its answers are asked for.
LEMMA SubmitSane ==
  ASSUME StreamInv, ReadsBeforeAsking, Sane, Submit
  PROVE  Sane'
<1> DEFINE o == Op.exe
           item == Op.item
<1>0. ProgramStep /\ StreamNext
  BY DEF ProgramStep, StreamNext
<1>1. /\ o \in SeExes /\ item \in Seq(AllExprs) /\ Distinct(item)
      /\ AnswersIn(item) \cap Pending(seExe[o]) = {}
      /\ AnswersIn(item) \subseteq seExe[o].made \ seExe[o].set
      /\ seOp <= Len(seProgram) /\ seOp \in DOMAIN seProgram /\ Submits(seOp)
      /\ DOMAIN seExe = SeExes /\ Sound(seExe[o], AllExprs, AllPieces)
  <2>1. seOp <= Len(seProgram) /\ Op.do = "submit" /\ seStep = "put"
    BY DEF Submit, Ongoing
  <2>2. seOp \in DOMAIN seProgram /\ Submits(seOp)
    BY <2>1, ProgramTyped DEF StreamInv, Submits, Op
  <2>3. AnswersIn(item) \subseteq seExe[o].made \ seExe[o].set
    BY <2>1 DEF Sane, EventsMade
  <2>4. /\ o \in SeExes /\ item \in Seq(AllExprs) /\ Distinct(item)
        /\ AnswersIn(item) \cap Pending(seExe[o]) = {}
    BY <2>1, NotAskedYet DEF Sane
  <2>5. DOMAIN seExe = SeExes /\ Sound(seExe[o], AllExprs, AllPieces)
    BY <2>4 DEF StreamInv
  <2> QED BY <2>1, <2>2, <2>3, <2>4, <2>5
<1>2. /\ UNCHANGED <<seProgram, seGot>> /\ seOp' = seOp + 1
      /\ seExe' = [seExe EXCEPT ![o] = Put(seExe[o], item)]
  BY DEF Submit, Ongoing, NextOp
<1>3. seOp \in Nat /\ Len(seProgram) \in Nat /\ DOMAIN seProgram = 1 .. Len(seProgram)
  BY ProgramTyped DEF StreamInv
<1>4. Exprs' = Exprs
  BY <1>2 DEF Exprs
<1>5. /\ Tidy(Put(seExe[o], item)) /\ Valued(Put(seExe[o], item), Exprs)
      /\ Pending(Put(seExe[o], item)) = Pending(seExe[o]) \cup AnswersIn(item)
  <2> DEFINE exe == seExe[o]
             X == Exprs
             E == AllExprs
             P == AllPieces
  <2>1. Sound(exe, E, P) /\ Tidy(exe) /\ Valued(exe, X) /\ item \in Seq(E)
    BY <1>1 DEF Sane, AllTidy
  <2> HIDE DEF exe, X, E, P, item
  <2>2. AnswersIn(item) \cap Pending(exe) = {} /\ AnswersIn(item) \subseteq exe.made \ exe.set
    BY <1>1 DEF exe
  <2>3. /\ Tidy(Put(exe, item)) /\ Valued(Put(exe, item), X)
        /\ Pending(Put(exe, item)) = Pending(exe) \cup AnswersIn(item)
    BY <1>1, <2>1, <2>2, PutTidy
  <2> QED BY <2>3 DEF exe, X
<1>6. seExe'[o] = Put(seExe[o], item) /\ \A e \in SeExes \ {o} : seExe'[e] = seExe[e]
  BY <1>1, <1>2
<1>7. AllTidy'
  <2>1. \A e \in SeExes : Tidy(seExe'[e]) /\ Valued(seExe'[e], Exprs)
    BY <1>5, <1>6 DEF Sane, AllTidy
  <2> QED BY <1>4, <2>1 DEF AllTidy
<1>8. AllAsked'
  <2> SUFFICES ASSUME NEW e \in SeExes, NEW n \in Pending(seExe'[e])
               PROVE  Asked(e, n)'
    BY DEF AllAsked
  <2>1. CASE n \in Pending(seExe[e])
    <3>1. Asked(e, n) /\ ~Gets(seOp, e, n)
      BY <1>1, <2>1 DEF Sane, AllAsked, Gets, Submits
    <3> QED BY <1>2, <1>3, <3>1, AskedStays
  <2>2. CASE n \notin Pending(seExe[e])
    <3>1. e = o /\ n \in AnswersIn(item)
      BY <1>5, <1>6, <2>2
    <3>2. /\ seOp < seOp' /\ Submits(seOp) /\ seProgram[seOp].exe = e
          /\ n \in AnswersIn(seProgram[seOp].item)
      BY <1>1, <1>2, <1>3, <3>1 DEF Op
    <3>3. \A k \in DOMAIN seProgram : ~(seOp < k /\ k < seOp')
      BY <1>2, <1>3
    <3> QED BY <1>1, <1>2, <3>2, <3>3 DEF Asked, Submits, Gets
  <2> QED BY <2>1, <2>2
<1>9. EventsMade'
  <2>1. ~InitVarEvent
    BY DEF Submit, InitVarEvent, Ongoing
  <2> QED BY <1>0, <2>1, PutFollowsEvents
<1>10. AllWhole'
  BY <1>2, <1>4 DEF AllWhole, Sane, WholeFor, Whole
<1> QED BY <1>7, <1>8, <1>9, <1>10 DEF Sane

\* What has its event set, or none, is not pending and not in hand.
LEMMA ReadIsWhole ==
  ASSUME StreamInv, Sane, NEW e \in SeExes, NEW n, n \in seExe[e].made => n \in seExe[e].set
  PROVE  /\ n \notin Pending(seExe[e])
         /\ n \in DOMAIN seExe[e].vars \cap Names(Exprs) /\ seExe[e].vars[n][1] = "text" =>
              WholeFor(n, seExe[e].vars[n][2], Exprs)
<1> DEFINE exe == seExe[e]
<1>1. Sound(exe, AllExprs, AllPieces) /\ Tidy(exe) /\ Valued(exe, Exprs)
  BY DEF StreamInv, Sane, AllTidy
<1> HIDE DEF exe
<1>2. n \notin Pending(exe)
  BY <1>1 DEF Tidy, exe
<1>3. ASSUME InAnswer(exe) PROVE Head(exe.item).name # n
  <2>1. exe.item \in Seq(AllExprs) /\ exe.item # <<>> /\ IsAnswer(Head(exe.item))
    BY <1>1, <1>3 DEF InAnswer, Sound, IsAnswer
  <2>2. Head(exe.item).name \in AnswersIn(exe.item)
    <3>1. PICK q \in Seq(AllExprs) : q = exe.item
      BY <2>1
    <3> QED BY <2>1, <3>1, TailAnswers
  <2> QED BY <1>2, <2>2 DEF Pending
<1> QED BY <1>1, <1>2, <1>3 DEF Valued, exe

\* One more value is read.
LEMMA OneMoreGot ==
  ASSUME NEW S, NEW q \in Seq(S), NEW v
  PROVE  /\ Append(q, v) \in Seq(S \cup {v})
         /\ \A i \in DOMAIN Append(q, v) :
              \/ i \in DOMAIN q /\ Append(q, v)[i] = q[i]
              \/ Append(q, v)[i] = v
<1>1. q \in Seq(S \cup {v}) /\ v \in S \cup {v} /\ Len(q) \in Nat /\ DOMAIN q = 1 .. Len(q)
  OBVIOUS
<1>2. Append(q, v) \in Seq(S \cup {v}) /\ DOMAIN Append(q, v) = 1 .. Len(q) + 1
  BY <1>1
<1>3. \A i \in 1 .. Len(q) + 1 : Append(q, v)[i] = IF i \in 1 .. Len(q) THEN q[i] ELSE v
  BY <1>1
<1> QED BY <1>1, <1>2, <1>3

\* A read waits for the event of the name.
LEMMA GetSane ==
  ASSUME StreamInv, Sane, GetVar, \E S : seGot \in Seq(S)
  PROVE  Sane'
<1> DEFINE o == Op.exe
           n == Op.name
           got == [exe |-> o, name |-> n, value |-> seExe[o].vars[n]]
<1>0. ProgramStep /\ StreamNext
  BY DEF ProgramStep, StreamNext
<1>1. /\ o \in SeExes /\ (n \in seExe[o].made => n \in seExe[o].set) /\ UNCHANGED seExe
      /\ seOp <= Len(seProgram)
      /\ \/ n \in DOMAIN seExe[o].vars /\ seGot' = Append(seGot, got) /\ seOp' = seOp + 1
         \/ UNCHANGED seGot /\ seOp' = Len(seProgram) + 1
  BY OpTyped DEF GetVar, NextOp, Raise, Ongoing
<1>2. /\ UNCHANGED seProgram /\ Len(seProgram) \in Nat /\ DOMAIN seProgram = 1 .. Len(seProgram)
      /\ seOp \in Nat
  BY <1>0, Moves
<1>3. Exprs' = Exprs
  BY <1>2 DEF Exprs
<1>4. /\ n \notin Pending(seExe[o])
      /\ n \in DOMAIN seExe[o].vars \cap Names(Exprs) /\ seExe[o].vars[n][1] = "text" =>
           WholeFor(n, seExe[o].vars[n][2], Exprs)
  <2> HIDE DEF o, n
  <2> QED BY <1>1, ReadIsWhole
<1>5. AllTidy'
  BY <1>1, <1>3 DEF Sane, AllTidy
<1>6. AllAsked'
  <2> SUFFICES ASSUME seOp' <= Len(seProgram), NEW e \in SeExes, NEW m \in Pending(seExe[e])
               PROVE  Asked(e, m)'
    BY <1>1, <1>2 DEF AllAsked
  <2>1. Asked(e, m)
    BY <1>1 DEF Sane, AllAsked
  <2>2. seOp' = seOp + 1
    BY <1>1, <1>2
  <2>3. ~Gets(seOp, e, m)
    BY <1>4 DEF Gets, Op
  <2> QED BY <1>2, <2>1, <2>2, <2>3, AskedStays
<1>7. EventsMade'
  <2>1. ~InitVarEvent
    BY DEF GetVar, InitVarEvent, Ongoing
  <2> QED BY <1>0, <2>1, PutFollowsEvents
<1>8. \A i \in DOMAIN seGot' :
        \/ i \in DOMAIN seGot /\ seGot'[i] = seGot[i]
        \/ seGot'[i] = got /\ n \in DOMAIN seExe[o].vars
  <2>1. PICK S : seGot \in Seq(S)
    OBVIOUS
  <2> HIDE DEF got, o, n
  <2>2. CASE n \in DOMAIN seExe[o].vars /\ seGot' = Append(seGot, got)
    <3>1. PICK q \in Seq(S) : q = seGot
      BY <2>1
    <3>2. \A i \in DOMAIN Append(q, got) :
            \/ i \in DOMAIN q /\ Append(q, got)[i] = q[i]
            \/ Append(q, got)[i] = got
      BY OneMoreGot
    <3> QED BY <2>2, <3>1, <3>2
  <2> QED BY <1>1, <2>2
<1>9. AllWhole'
  <2> SUFFICES ASSUME NEW i \in DOMAIN seGot', seGot'[i].value[1] = "text", seGot'[i].name \in Names(Exprs)
               PROVE  WholeFor(seGot'[i].name, seGot'[i].value[2], Exprs)
    BY <1>3 DEF AllWhole
  <2>1. CASE i \in DOMAIN seGot /\ seGot'[i] = seGot[i]
    BY <2>1 DEF Sane, AllWhole
  <2>2. CASE seGot'[i] = got /\ n \in DOMAIN seExe[o].vars
    BY <1>4, <2>2
  <2> QED BY <1>8, <2>1, <2>2
<1> QED BY <1>5, <1>6, <1>7, <1>9 DEF Sane


\* In the beginning nothing is asked for.
LEMMA GotInitially ==
  ASSUME StreamInit, ReadsBeforeAsking
  PROVE  GotInv
<1>1. StreamInv
  BY StreamInvInitially
<1>2. /\ seOp = 1 /\ seStep = "begin" /\ seGot = <<>>
      /\ \A e \in SeExes : seExe[e] = IF e = SeRoot THEN [NoExe EXCEPT !.pc = "get"] ELSE NoExe
  BY DEF StreamInit
<1>3. Unforked
  <2> SUFFICES ASSUME NEW j \in DOMAIN seProgram, seProgram[j].do = "fork",
                      NEW k \in Range(seProgram[j].kids)
               PROVE  seExe[k].pc = "none" /\ ~seExe[k].error
    BY DEF Unforked
  <2>1. seProgram[j].kids \in Seq(SeExes \ {SeRoot})
    BY <1>1, StreamAssumption DEF StreamInv
  <2>2. k \in SeExes \ {SeRoot}
    BY <2>1 DEF Range
  <2> QED BY <1>2, <2>2 DEF NoExe
<1>4. ASSUME NEW e \in SeExes
      PROVE  Tidy(seExe[e]) /\ Valued(seExe[e], Exprs) /\ Pending(seExe[e]) = {}
  <2> DEFINE exe == seExe[e]
  <2>1. exe.item = <<>> /\ exe.queue = <<>> /\ exe.vars = <<>> /\ exe.pc # "exec"
    BY <1>2 DEF NoExe
  <2> HIDE DEF exe
  <2>2. Len(<<>>) = 0 /\ DOMAIN <<>> = {}
    OBVIOUS
  <2>3. 1 .. Len(exe.queue) = {} /\ 1 .. Len(exe.item) = {} /\ DOMAIN exe.vars = {}
    BY <2>1, <2>2
  <2>4. Pending(exe) = {} /\ AnswersIn(exe.item) = {}
    BY <2>3 DEF Pending, AnswersIn
  <2>5. Tidy(exe)
    BY <2>3, <2>4 DEF Tidy, Distinct
  <2>6. Valued(exe, Exprs)
    BY <2>1, <2>3 DEF Valued, InAnswer
  <2> QED BY <2>4, <2>5, <2>6 DEF exe
<1>5. AllTidy /\ AllAsked
  BY <1>4 DEF AllTidy, AllAsked
<1>6. EventsMade
  BY <1>2 DEF EventsMade
<1>7. AllWhole /\ seGot \in Seq({})
  BY <1>2 DEF AllWhole
<1> QED BY <1>1, <1>3, <1>5, <1>6, <1>7 DEF GotInv

\* What is known of the values read is inductive.
LEMMA GotKept ==
  ASSUME GotInv, [StreamNext]_streamVars
  PROVE  GotInv'
<1>0. StreamInv'
  BY StreamInvKept DEF GotInv
<1>1. CASE UNCHANGED streamVars
  <2>1. UNCHANGED <<seProgram, seExe, seOp, seStep, seGot>>
    BY <1>1 DEF streamVars
  <2>2. Exprs' = Exprs
    BY <2>1 DEF Exprs
  <2>3. ReadsBeforeAsking' /\ Unforked'
    BY <2>1, <2>2 DEF GotInv, ReadsBeforeAsking, Unforked, Submits, Gets
  <2>4. Failed' = Failed
    BY <2>1 DEF Failed
  <2>5. AllTidy' = AllTidy /\ AllAsked' = AllAsked /\ EventsMade' = EventsMade /\ AllWhole' = AllWhole
    BY <2>1, <2>2 DEF AllTidy, AllAsked, Asked, Submits, Gets, EventsMade, Op, AllWhole
  <2> QED BY <1>0, <2>1, <2>3, <2>4, <2>5 DEF GotInv
<1>2. CASE StreamNext
  <2>1. UNCHANGED seProgram
    BY <1>2, Moves DEF GotInv
  <2>2. Exprs' = Exprs
    BY <2>1 DEF Exprs
  <2>3. ReadsBeforeAsking'
    BY <2>1, <2>2 DEF GotInv, ReadsBeforeAsking, Submits, Gets
  <2>4. Unforked'
    BY <1>2, UnforkedStays DEF GotInv
  <2>5. (\E S : seGot \in Seq(S))'
    <3>1. PICK S : seGot \in Seq(S)
      BY DEF GotInv
    <3>2. CASE UNCHANGED seGot
      BY <3>1, <3>2
    <3>3. CASE GetVar
      <4>1. PICK v : seGot' = Append(seGot, v) \/ seGot' = seGot
        BY <3>3 DEF GetVar
      <4>2. Append(seGot, v) \in Seq(S \cup {v})
        BY <3>1, OneMoreGot
      <4> QED BY <3>1, <4>1, <4>2
    <3>4. UNCHANGED seGot \/ GetVar
      BY <1>2 DEF StreamNext, ReaderStep, FindEvent, WaitAndClear, ReadNew, CheckEnd, Reader,
                  WorkerStep, TakeItem, TaskDone, Fill, ExecuteGen, ExecuteSelect, ScopeBegin, ScopeEnd,
                  Concatenate, CommitLazy, Fails, DrainDone, DrainGet, SetEvents, WakeReader, Finish,
                  Executing, Worker, ProgramStep, InitVarEvent, Submit, Sync, ForkBegins, Fork, JoinBegins,
                  Gather, JoinEnds, End, RunEnds, RunSynced
    <3> QED BY <3>2, <3>3, <3>4
  <2>6. Failed \/ Sane
    BY DEF GotInv, Sane
  <2>7. CASE Failed
    BY <1>0, <1>2, <2>3, <2>4, <2>5, <2>7, FailedStays DEF GotInv
  <2>8. CASE Sane /\ ~Failed'
    <3>0. StreamInv /\ ReadsBeforeAsking /\ Sane /\ ~Failed' /\ (\E S : seGot \in Seq(S))
      BY <2>8 DEF GotInv
    <3>1. ASSUME \E e \in SeExes : WorkerStep(e) PROVE Sane'
      BY <3>0, <3>1, WorkerSane
    <3>2. ASSUME ReaderStep PROVE Sane'
      BY <3>0, <3>2, ReaderSane
    <3>3. ASSUME ProgramStep PROVE Sane'
      BY <3>0, <3>3, EventsSane, SubmitSane, GetSane, QuietSane
    <3>4. Sane'
      BY <1>2, <3>1, <3>2, <3>3 DEF StreamNext
    <3> QED BY <1>0, <2>3, <2>4, <2>5, <3>4 DEF Sane, GotInv
  <2>9. CASE Failed'
    BY <1>0, <2>3, <2>4, <2>5, <2>9 DEF GotInv
  <2> QED BY <2>6, <2>7, <2>8, <2>9
<1> QED BY <1>1, <1>2

\* A program that reads an answer before it asks for the name again never goes on with half
\* an answer: what s["name"] returns is all of it, whichever executor, chunks and threads
\* are involved, unless a generation has failed.
THEOREM ReadsGetWhole == StreamSpec /\ ReadsBeforeAsking => []GotWhole
<1>1. StreamInit /\ ReadsBeforeAsking => GotInv
  BY GotInitially
<1>2. GotInv /\ [StreamNext]_streamVars => GotInv'
  BY GotKept
<1>3. GotInv => GotWhole
  <2> SUFFICES ASSUME GotInv, ~Failed, NEW i \in DOMAIN seGot, seGot[i].value[1] = "text",
                      NEW y \in Exprs, y.kind \in {"gen", "select"}, y.name = seGot[i].name
               PROVE  \E x \in Exprs : x.name = seGot[i].name /\ seGot[i].value[2] = Whole(x)
    BY DEF GotWhole
  <2>1. seGot[i].name \in Names(Exprs)
    BY DEF Names, IsAnswer
  <2>2. WholeFor(seGot[i].name, seGot[i].value[2], Exprs)
    BY <2>1 DEF GotInv, AllWhole
  <2> QED BY <2>2 DEF WholeFor
<1> QED BY <1>1, <1>2, <1>3, PTL DEF StreamSpec
===============================================================================
