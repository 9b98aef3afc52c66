----------------------------- MODULE EngineBatch ------------------------------
(***************************************************************************)
(* srt/managers/scheduler.py, schedule_batch.py and schedule_policy.py:    *)
(* one worker's loop with its batches and its KV memory.  Each round obeys *)
(* aborts and takes in requests, merges the batch prefilled last into the  *)
(* running one, then either prefills waiting requests or decodes one token *)
(* of every running request, retracting some when memory runs out.         *)
(*                                                                         *)
(* A token is a member of Tokens; the model generates any of Sampled.      *)
(* Requests are tried in any order (the policies order them by prefix      *)
(* length, arrival, output length or at random).  A pool hands out its     *)
(* lowest free slots: slots are only ever compared.  new_token_ratio, the  *)
(* share of its remaining output a running request is expected to need, is *)
(* 0 or 1.  Logprobs, LoRA adapters, elastic memory and the statistics are *)
(* left out.                                                               *)
(***************************************************************************)
EXTENDS RadixCache

CONSTANTS
  Requests,
  Prompt,             \* origin_input_ids of each request
  MaxNew,             \* the max_new_tokens it asks for
  Tokens, Sampled,    \* the tokens, and those the model may generate
  KVSize,             \* token_to_kv_pool.size
  MaxRunning,         \* max_running_requests, the rows of req_to_token_pool
  MaxPrefillTokens,
  ChunkedPrefillSize, \* larger than every input when chunking is disabled
  RetractDecodeSteps,
  PrefixAware,        \* the policy matches the waiting queue up front (lpm, dfs-weight)
  IsMixedChunk,
  ManyDecodeSteps,    \* num_continuous_decode_steps > 1
  JumpForward,        \* the requests with a jump_forward_map
  None

ASSUME EngineAssumption ==
  /\ KVSize \in Nat /\ MaxRunning \in Nat \ {0} /\ RetractDecodeSteps \in Nat \ {0}
  /\ MaxPrefillTokens \in Nat \ {0} /\ ChunkedPrefillSize \in Nat \ {0}
  /\ {PrefixAware, IsMixedChunk, ManyDecodeSteps} \subseteq BOOLEAN
  /\ Prompt \in [Requests -> Seq(Tokens) \ {<<>>}] /\ MaxNew \in [Requests -> Nat]
  /\ \A r \in Requests : Len(Prompt[r]) + 3 <= KVSize
  /\ JumpForward \subseteq Requests /\ None \notin Requests /\ Sampled \subseteq Tokens

Slots == 1..KVSize
Rows == 1..MaxRunning

VARIABLES
  tree_cache,
  kvFree,       \* token_to_kv_pool.free_slots
  rowFree,      \* req_to_token_pool.free_slots
  reqToToken,   \* req_to_token: the KV slots of each row
  req,          \* the Req objects
  arrived,      \* requests received
  finished,     \* requests with a finished_reason, or dropped from the waiting queue
  waiting,      \* waiting_queue
  running,      \* running_batch.reqs, {} when there is no running batch
  inflight,     \* current_inflight_req
  batchIsFull,
  last,         \* last_batch, until it is merged; NoBatch after a decode
  pc,           \* where the loop is
  adder,        \* the PrefillAdder of this round
  batch,        \* the batch being run
  todo,         \* its requests whose result is not processed
  draining      \* in _run_to_completion_normal

batchVars == <<tree_cache, kvFree, rowFree, reqToToken, req, arrived, finished, waiting, running,
               inflight, batchIsFull, last, pc, adder, batch, todo, draining>>

memory == <<tree_cache, kvFree, rowFree, reqToToken>>

NoBatch == [mode |-> "none", reqs |-> {}, decoding |-> {}]
NoAdder == [canRun |-> <<>>, total |-> 0, cur |-> 0, input |-> 0, chunk |-> 0, tokens |-> 0, inflight |-> None]
NewReq  == [out |-> <<>>, prefix |-> <<>>, node |-> <<>>, row |-> 0, fill |-> 0, seq |-> 0, chunks |-> 0]

\* origin_input_ids + output_ids, and what init_next_round_input may match:
\* at least one token is left to compute.
Ids(r) == Prompt[r] \o req[r].out
MatchKey(r) == SubSeq(Ids(r), 1, Len(Ids(r)) - 1)

\* handle_generate_request: no request may outgrow the KV pool.
Lesser(a, b) == IF a < b THEN a ELSE b
MaxNewTokens(r) == Lesser(MaxNew[r], (KVSize - 1) - Len(Prompt[r]) - 1)

\* alloc: the n lowest free slots of a pool, in order.
Lowest(free, n) == [i \in 1..n |-> CHOOSE s \in free : Cardinality({x \in free : x < s}) = i - 1]

Available == Cardinality(kvFree) + tree_cache.evictable

\* alloc_token_slots: the evictions that may make room for n tokens.
RoomFor(n) == IF Cardinality(kvFree) >= n THEN {{}} ELSE Evictions(tree_cache, n)
FreeAfter(N) == kvFree \cup SlotsIn(tree_cache, N)

BatchInit ==
  /\ tree_cache = EmptyTree
  /\ kvFree = Slots
  /\ rowFree = Rows
  /\ reqToToken = [w \in Rows |-> <<>>]
  /\ req = [r \in Requests |-> NewReq]
  /\ arrived = {} /\ finished = {} /\ waiting = {} /\ running = {}
  /\ inflight = None
  /\ batchIsFull = FALSE
  /\ last = NoBatch
  /\ pc = "recv"
  /\ adder = NoAdder
  /\ batch = NoBatch
  /\ todo = {}
  /\ draining = FALSE
-------------------------------------------------------------------------------
(* What caching a request does to the memory.                              *)

\* Which of a request's slots the tree has meanwhile got for the same tokens.
NoDuplicates(r, ids) == {}  \* fault
Duplicates(r, ids) == (Len(req[r].prefix) + 1)..MatchLen(tree_cache, ids)

\* req_to_token_pool.free and waiting_queue.extend.
RowBack(r) == rowFree \cup {req[r].row}
Forget(r) == waiting  \* fault
Requeue(r) == waiting \cup {r}

\* cache_finished_req: the request's slots go to the tree, the duplicates are
\* freed, and so is the row.
CacheFinished(r, ids) ==
  LET slots == SubSeq(reqToToken[req[r].row], 1, Len(ids))
  IN  /\ tree_cache' = DecLock(Insert(tree_cache, ids, slots), req[r].node)
      /\ kvFree' = kvFree \cup {slots[i] : i \in Duplicates(r, ids)}
      /\ rowFree' = RowBack(r)
      /\ UNCHANGED reqToToken

\* cache_unfinished_req: likewise, but the row goes on with the tree's slots
\* and the lock moves from the node the request came from to the new one.
CacheUnfinished(r) ==
  LET ids   == SubSeq(Ids(r), 1, req[r].fill)
      row   == reqToToken[req[r].row]
      grown == Insert(tree_cache, ids, row)
  IN  /\ tree_cache' = IncLock(DecLock(grown, req[r].node), ids)
      /\ kvFree' = kvFree \cup {row[i] : i \in Duplicates(r, ids)}
      /\ reqToToken' = [reqToToken EXCEPT ![req[r].row] =
           [i \in DOMAIN row |-> IF i \in (Len(req[r].prefix) + 1)..Len(ids) THEN SlotsOf(grown, ids)[i] ELSE row[i]]]

CachedAs(r) ==
  LET ids == SubSeq(Ids(r), 1, req[r].fill)
  IN  [req[r] EXCEPT !.prefix = SlotsOf(Insert(tree_cache, ids, reqToToken[req[r].row]), ids), !.node = ids]
-------------------------------------------------------------------------------
(* Control requests and new requests.                                      *)

\* handle_generate_request.
Receive(r) ==
  /\ pc = "recv" /\ ~draining /\ r \notin arrived
  /\ arrived' = arrived \cup {r}
  /\ waiting' = waiting \cup {r}
  /\ UNCHANGED <<memory, req, finished, running, inflight, batchIsFull, last, pc, adder, batch, todo, draining>>

ReleaseAborted(r) ==
  IF r \in running \ finished THEN CacheFinished(r, MatchKey(r)) ELSE UNCHANGED memory

\* abort_request: out of the waiting queue, or finished where it runs.  A
\* request that is neither, in the batch prefilled last, is not found.
Abort(r) ==
  /\ pc = "recv" /\ ~draining /\ r \in arrived
  /\ waiting' = waiting \ {r}
  /\ finished' = finished \cup ({r} \cap (waiting \cup running))
  /\ ReleaseAborted(r)
  /\ UNCHANGED <<req, arrived, running, inflight, batchIsFull, last, pc, adder, batch, todo, draining>>

\* get_next_batch_to_run, its first part: the batch prefilled last joins the
\* running batch, without the request that has chunks to come: that one
\* leaves its row and goes on from the cache.
MergeLastBatch ==
  /\ pc = "recv"
  /\ pc' = "prefill"
  /\ IF last.reqs # {} /\ inflight # None
     THEN /\ running' = running \cup (last.reqs \ (finished \cup {inflight}))
          /\ CacheUnfinished(inflight)
          /\ req' = [req EXCEPT ![inflight] = CachedAs(inflight)]
          /\ rowFree' = RowBack(inflight)
          /\ batchIsFull' = FALSE
     ELSE /\ running' = running \cup last.reqs
          /\ UNCHANGED <<memory, req, batchIsFull>>
  /\ last' = NoBatch
  /\ UNCHANGED <<arrived, finished, waiting, inflight, adder, batch, todo, draining>>
-------------------------------------------------------------------------------
(* get_new_batch_prefill.                                                  *)

PrefillAllowed ==
  /\ inflight # None \/ (~batchIsFull /\ waiting # {})
  /\ Cardinality(running) < MaxRunning
  /\ running = {} \/ Available >= RetractDecodeSteps * Cardinality(running)

SkipPrefill ==
  /\ pc = "prefill" /\ ~PrefillAllowed
  /\ batchIsFull' = (batchIsFull \/ ((inflight # None \/ waiting # {}) /\ Cardinality(running) >= MaxRunning))
  /\ pc' = "decode"
  /\ UNCHANGED <<memory, req, arrived, finished, waiting, running, inflight, last, adder, batch, todo, draining>>

\* The places in its output that a running request may still fill, and those past its maximum, which a request that asked
\* for no token has, as it gets one with its prefill.
Remaining(r) == (Len(req[r].out) + 1)..MaxNewTokens(r)
Beyond(r) == (MaxNewTokens(r) + 1)..Len(req[r].out)

\* The tokens PrefillAdder sets aside for the requests that run, by the expected share of what each may still generate, which
\* it does not keep from being less than nothing.
Reserve(share) ==
  IF share = 0 THEN 0
  ELSE Cardinality(UNION {{r} \X Remaining(r) : r \in running}) - Cardinality(UNION {{r} \X Beyond(r) : r \in running})

\* _prefill_one_req: request r takes n tokens of the batch and may need more.
Take(a, r, n, more) ==
  [a EXCEPT !.canRun = Append(@, r), !.total = @ - (n + more), !.cur = @ - n,
            !.input = @ - n, !.chunk = @ - n, !.tokens = @ + n]

BudgetState(a) ==
  IF a.total <= 0 \/ a.cur <= 0 THEN "no_token"
  ELSE IF a.input <= 0 \/ a.chunk <= 0 THEN "other" ELSE "continue"

\* The adder starts from the room there is; a request in flight goes first,
\* with as much as a chunk holds, whatever the budget.
BeginPrefill(share) ==
  /\ pc = "prefill" /\ PrefillAllowed
  /\ LET mixed == IF IsMixedChunk THEN Cardinality(running) ELSE 0
         r     == inflight
         empty == [NoAdder EXCEPT !.total = Available - mixed - Reserve(share), !.cur = Available - mixed,
                                  !.input = MaxPrefillTokens - mixed, !.chunk = ChunkedPrefillSize - mixed]
         keys  == IF PrefixAware THEN {MatchKey(w) : w \in waiting}
                  ELSE {MatchKey(w) : w \in {inflight} \ {None}}
     IN  /\ tree_cache' = Split(tree_cache, keys)
         /\ IF r = None
            THEN /\ adder' = empty
                 /\ UNCHANGED <<req, inflight>>
            ELSE LET prefix == IF PrefixAware THEN req[r].prefix
                               ELSE SlotsOf(tree_cache, Cached(tree_cache, MatchKey(r)))
                     node   == IF PrefixAware THEN req[r].node ELSE Cached(tree_cache, MatchKey(r))
                     extend == Len(Ids(r)) - Len(prefix)
                     n      == Lesser(extend, empty.chunk)
                 IN  /\ req' = [req EXCEPT ![r].prefix = prefix, ![r].node = node, ![r].fill = Len(prefix) + n]
                     /\ inflight' = IF extend > empty.chunk THEN r ELSE None
                     /\ adder' = Take(empty, r, n, IF extend > empty.chunk THEN 0 ELSE MaxNewTokens(r))
  /\ pc' = "adding"
  /\ UNCHANGED <<kvFree, rowFree, reqToToken, arrived, finished, waiting, running, batchIsFull, last, batch, todo, draining>>

Candidates == waiting \ Range(adder.canRun)

\* add_one_req refuses what does not fit before its prefix is locked, or after.
FullBeforeLock(need, total, room) == need >= total  \* fault
Full(need, total, room) == need >= total \/ need > room

\* add_one_req for a request of the waiting queue: what it matches of the
\* cache is locked first, which may take room away.
AddOneReq(r) ==
  /\ pc = "adding" /\ r \in Candidates
  /\ Cardinality(running) + Len(adder.canRun) < MaxRunning
  /\ LET key    == MatchKey(r)
         split  == Split(tree_cache, {key})
         node   == Cached(tree_cache, key)
         locked == IncLock(split, node)
         extend == Len(Ids(r)) - Len(node)
         room   == adder.total + (locked.evictable - split.evictable)
         whole  == extend <= adder.chunk
         n      == IF whole THEN extend ELSE adder.chunk
         full   == Full(extend + MaxNewTokens(r), adder.total, room)
         fits   == ~full /\ ~(extend > adder.input /\ adder.canRun # <<>>) /\ n > 0
         taken  == Take([adder EXCEPT !.total = room], r, n, IF whole THEN MaxNewTokens(r) ELSE 0)
         answer == IF fits THEN BudgetState(taken) ELSE IF full THEN "no_token" ELSE "other"
     IN  /\ tree_cache' = IF fits THEN locked ELSE split
         /\ adder' = IF fits THEN [taken EXCEPT !.inflight = IF whole THEN @ ELSE r] ELSE adder
         /\ req' = IF fits
                   THEN [req EXCEPT ![r].prefix = SlotsOf(split, node), ![r].node = node,
                                    ![r].fill = Len(node) + n]
                   ELSE req
         /\ batchIsFull' = (batchIsFull \/ answer = "no_token")
         /\ pc' = IF answer = "continue" THEN "adding" ELSE "extend"
  /\ UNCHANGED <<kvFree, rowFree, reqToToken, arrived, finished, waiting, running, inflight, last, batch, todo, draining>>

\* abort_exceed_slo_reqs, for a request met in the queue past its deadline.
AbortExceedSLO(r) ==
  /\ pc = "adding" /\ r \in Candidates
  /\ waiting' = waiting \ {r}
  /\ finished' = finished \cup {r}
  /\ UNCHANGED <<memory, req, arrived, running, inflight, batchIsFull, last, pc, adder, batch, todo, draining>>

StopAdding ==
  /\ pc = "adding"
  /\ Candidates = {} \/ Cardinality(running) + Len(adder.canRun) >= MaxRunning
  /\ batchIsFull' = (batchIsFull \/ Candidates # {})
  /\ pc' = "extend"
  /\ UNCHANGED <<memory, req, arrived, finished, waiting, running, inflight, last, adder, batch, todo, draining>>

NothingAdded ==
  /\ pc = "extend" /\ adder.canRun = <<>>
  /\ adder' = NoAdder
  /\ pc' = "decode"
  /\ UNCHANGED <<memory, req, arrived, finished, waiting, running, inflight, batchIsFull, last, batch, todo, draining>>

\* The places of the tokens a prefill computes, of one request and of several.
Fresh(r) == (Len(req[r].prefix) + 1)..req[r].fill
FreshOf(R) == UNION {{r} \X Fresh(r) : r \in R}

\* The rest of get_new_batch_prefill, prepare_for_extend and, for a mixed
\* batch, prepare_for_decode and mix_with_running.
PrepareForExtend ==
  /\ pc = "extend" /\ adder.canRun # <<>>
  /\ LET reqs   == Range(adder.canRun)
         rows   == Lowest(rowFree, Len(adder.canRun))
         At(r)  == CHOOSE i \in DOMAIN adder.canRun : adder.canRun[i] = r
         pt(r)  == Cardinality(FreshOf({x \in reqs : At(x) < At(r)}))
         mixed  == IF IsMixedChunk THEN running ELSE {}
         need   == adder.tokens + Cardinality(mixed)
         flying == IF adder.inflight # None THEN adder.inflight ELSE inflight
     IN  \E N \in RoomFor(need) :
           LET free  == FreeAfter(N)
               locs  == Lowest(free, need)
               Mine(r) == SubSeq(locs, pt(r) + 1, pt(r) + Cardinality(Fresh(r)))
               extra(m) == locs[adder.tokens + Cardinality({x \in mixed : req[x].row < req[m].row}) + 1]
           IN  IF Cardinality(free) < need
               THEN /\ pc' = "out_of_memory"
                    /\ UNCHANGED <<memory, req, waiting, running, inflight, batch, todo, adder>>
               ELSE /\ tree_cache' = Without(tree_cache, N)
                    /\ kvFree' = free \ Range(locs)
                    /\ rowFree' = rowFree \ Range(rows)
                    /\ reqToToken' = [w \in Rows |->
                         LET new == {r \in reqs : rows[At(r)] = w}
                             old == {m \in mixed : req[m].row = w}
                             row == IF new = {} THEN reqToToken[w]
                                    ELSE LET r == CHOOSE x \in new : TRUE IN req[r].prefix \o Mine(r)
                         IN  IF old = {} THEN row ELSE Append(row, extra(CHOOSE m \in old : TRUE))]
                    /\ req' = [r \in Requests |->
                         IF r \in reqs
                         THEN [req[r] EXCEPT !.row = rows[At(r)], !.seq = req[r].fill,
                                             !.chunks = IF r = flying THEN @ + 1 ELSE @]
                         ELSE IF r \in mixed THEN [req[r] EXCEPT !.seq = @ + 1, !.fill = Len(Ids(r))]
                         ELSE req[r]]
                    /\ waiting' = waiting \ reqs
                    /\ inflight' = flying
                    /\ running' = running \ mixed
                    /\ batch' = [mode |-> "extend", reqs |-> reqs \cup mixed, decoding |-> mixed]
                    /\ todo' = reqs \cup mixed
                    /\ adder' = NoAdder
                    /\ pc' = "process"
  /\ UNCHANGED <<arrived, finished, batchIsFull, last, draining>>
-------------------------------------------------------------------------------
(* update_running_batch, called once a round from get_next_batch_to_run and,
   with several decode steps in a row, again while the batch is still there. *)

Again == batch # NoBatch

\* The head of _run_to_completion_normal's loop.
NothingRuns == running = {}  \* fault
NothingCached == running = {} /\ waiting = {} /\ kvFree = Slots  \* fault
NothingLeft == running = {} /\ waiting = {}

\* Back to the head of the loop with nothing run.  event_loop_normal clears
\* batch_is_full then and get_next_batch_to_run when the batch has emptied;
\* _run_to_completion_normal does not, nor does a repeated decode step.
NoRunningBatch ==
  /\ pc = "decode" /\ running = {} /\ ~(draining /\ NothingLeft)
  /\ batchIsFull' = (batchIsFull /\ draining)
  /\ pc' = "recv"
  /\ UNCHANGED <<memory, req, arrived, finished, waiting, running, inflight, last, adder, batch, todo, draining>>

RunningBatchGone ==
  /\ \/ pc = "decode" /\ running # {} /\ running \subseteq finished
     \/ pc = "jump" /\ running = {}
  /\ running' = {}
  /\ batchIsFull' = (batchIsFull /\ Again)
  /\ pc' = "recv"
  /\ batch' = NoBatch
  /\ UNCHANGED <<memory, req, arrived, finished, waiting, inflight, last, adder, todo, draining>>

\* filter_batch and check_decode_mem.
CheckDecodeMem ==
  /\ pc = "decode" /\ ~(running \subseteq finished)
  /\ LET active == running \ finished
     IN  /\ running' = active
         /\ batchIsFull' = (batchIsFull /\ (Again \/ active = running))
         /\ \E N \in RoomFor(Cardinality(active)) :
              /\ tree_cache' = Without(tree_cache, N)
              /\ kvFree' = FreeAfter(N)
              /\ pc' = IF Cardinality(FreeAfter(N)) >= Cardinality(active) THEN "jump" ELSE "retract"
  /\ UNCHANGED <<rowFree, reqToToken, req, arrived, finished, waiting, inflight, last, adder, batch, todo, draining>>

\* retract_decode gives up the request that has generated least, the one with
\* the longest prompt among those, until there is room for some decode steps.
Before(r, s) ==
  \/ Len(req[r].out) < Len(req[s].out)
  \/ Len(req[r].out) = Len(req[s].out) /\ Len(Prompt[r]) > Len(Prompt[s])

Retract(r) ==
  /\ pc = "retract" /\ r \in running
  /\ \A s \in running : ~Before(s, r)
  /\ LET mine     == {reqToToken[req[r].row][i] : i \in (Len(req[r].prefix) + 1)..req[r].seq}
         unlocked == DecLock(tree_cache, req[r].node)
         needed   == (Cardinality(running) - 1) * RetractDecodeSteps
         residual == needed - Cardinality(kvFree \cup mine)
     IN  \E N \in IF residual > 0 THEN Evictions(unlocked, residual) ELSE {{}} :
           /\ tree_cache' = Without(unlocked, N)
           /\ kvFree' = kvFree \cup mine \cup SlotsIn(unlocked, N)
           /\ pc' = IF Cardinality(kvFree') < needed THEN "retract" ELSE "jump"
  /\ rowFree' = RowBack(r)
  /\ req' = [req EXCEPT ![r].prefix = <<>>, ![r].node = <<>>]
  /\ running' = running \ {r}
  /\ waiting' = Requeue(r)
  /\ batchIsFull' = (batchIsFull /\ Again)
  /\ UNCHANGED <<reqToToken, arrived, finished, inflight, last, adder, batch, todo, draining>>

\* check_for_jump_forward: the grammar fixes the next tokens, so the request
\* is cached as it is and queued again with a longer output.  (Bound: one
\* token a jump, while the output is not full.)
Jump(r, token) ==
  /\ pc = "jump" /\ r \in running \cap JumpForward
  /\ Len(req[r].out) < MaxNewTokens(r)
  /\ CacheFinished(r, MatchKey(r))
  /\ req' = [req EXCEPT ![r].out = Append(@, token)]
  /\ running' = running \ {r}
  /\ waiting' = Requeue(r)
  /\ batchIsFull' = (batchIsFull /\ Again)
  /\ UNCHANGED <<arrived, finished, inflight, last, pc, adder, batch, todo, draining>>

PrepareForDecode ==
  /\ pc = "jump" /\ running # {}
  /\ LET locs == Lowest(kvFree, Cardinality(running))
         Mine(r) == locs[Cardinality({s \in running : req[s].row < req[r].row}) + 1]
     IN  /\ kvFree' = kvFree \ Range(locs)
         /\ reqToToken' = [w \in Rows |->
              LET mine == {r \in running : req[r].row = w}
              IN  IF mine = {} THEN reqToToken[w] ELSE Append(reqToToken[w], Mine(CHOOSE r \in mine : TRUE))]
  /\ req' = [r \in Requests |-> IF r \in running THEN [req[r] EXCEPT !.seq = @ + 1] ELSE req[r]]
  /\ batch' = [mode |-> "decode", reqs |-> running, decoding |-> {}]
  /\ todo' = running
  /\ pc' = "process"
  /\ UNCHANGED <<tree_cache, rowFree, arrived, finished, waiting, running, inflight, batchIsFull, last, adder, draining>>
-------------------------------------------------------------------------------
(* process_batch_result, one request after the other.                      *)

HasChunks(r) == r \in todo /\ batch.mode = "extend" /\ req[r].chunks > 0

\* A request with chunks to come has no output yet.
ProcessChunk(r) ==
  /\ pc = "process" /\ HasChunks(r)
  /\ req' = [req EXCEPT ![r].chunks = @ - 1]
  /\ todo' = todo \ {r}
  /\ UNCHANGED <<memory, arrived, finished, waiting, running, inflight, batchIsFull, last, pc, adder, batch, draining>>

\* The model's token, with which the request may be finished: at its maximum
\* length, or by a stop token or string.
Process(r, token, stop) ==
  /\ pc = "process" /\ r \in todo
  /\ ~(batch.mode = "extend" /\ req[r].chunks > 0)
  /\ LET done == r \in finished \/ stop \/ Len(req[r].out) + 1 >= MaxNewTokens(r)
         kept == ~done /\ batch.mode = "extend" /\ r \notin batch.decoding
         q    == IF kept THEN CachedAs(r) ELSE req[r]
     IN  /\ finished' = IF done THEN finished \cup {r} ELSE finished
         /\ IF done THEN CacheFinished(r, Ids(r))
            ELSE IF kept THEN CacheUnfinished(r) /\ UNCHANGED rowFree
            ELSE UNCHANGED memory
         /\ req' = [req EXCEPT ![r] = [q EXCEPT !.out = Append(q.out, token)]]
  /\ todo' = todo \ {r}
  /\ UNCHANGED <<arrived, waiting, running, inflight, batchIsFull, last, pc, adder, batch, draining>>

BatchProcessed ==
  /\ pc = "process" /\ todo = {}
  /\ last' = IF batch.mode = "extend" THEN batch ELSE NoBatch
  /\ \/ pc' = "recv" /\ batch' = NoBatch
     \/ ManyDecodeSteps /\ batch.mode = "decode" /\ pc' = "decode" /\ UNCHANGED batch
  /\ UNCHANGED <<memory, req, arrived, finished, waiting, running, inflight, batchIsFull, adder, todo, draining>>
-------------------------------------------------------------------------------
(* Deactivation without preemption: _run_to_completion_normal goes round   *)
(* the loop, taking nothing in, until a round runs nothing and no request  *)
(* waits.                                                                  *)

RunToCompletion ==
  /\ pc = "recv" /\ ~draining
  /\ draining' = TRUE
  /\ UNCHANGED <<memory, req, arrived, finished, waiting, running, inflight, batchIsFull, last, pc, adder, batch, todo>>

Completed ==
  /\ pc = "decode" /\ draining /\ NothingLeft
  /\ pc' = "completed"
  /\ UNCHANGED <<memory, req, arrived, finished, waiting, running, inflight, batchIsFull, last, adder, batch, todo,
                 draining>>

LoopStep ==
  \/ MergeLastBatch \/ SkipPrefill
  \/ \E share \in {0, 1} : BeginPrefill(share)
  \/ \E r \in Requests : AddOneReq(r) \/ Retract(r) \/ ProcessChunk(r)
  \/ StopAdding \/ NothingAdded \/ PrepareForExtend
  \/ NoRunningBatch \/ RunningBatchGone \/ CheckDecodeMem \/ PrepareForDecode
  \/ \E r \in Requests, token \in Sampled : Jump(r, token)
  \/ \E r \in Requests, token \in Sampled, stop \in BOOLEAN : Process(r, token, stop)
  \/ BatchProcessed \/ Completed

Outside == \E r \in Requests : Receive(r) \/ Abort(r) \/ AbortExceedSLO(r)

BatchNext == LoopStep \/ Outside \/ RunToCompletion \/ (pc = "completed" /\ UNCHANGED batchVars)

\* Weak fairness of the loop: a step of it is possible until it has ended.  (WF_batchVars(LoopStep)
\* would have TLC look for one in every state.)
LoopEnded == pc \in {"completed", "out_of_memory"}
LoopFairness == []<>LoopEnded \/ []<><<LoopStep>>_batchVars

BatchSpec == BatchInit /\ [][BatchNext]_batchVars /\ LoopFairness
-------------------------------------------------------------------------------
RowHolders == (running \cup last.reqs \cup (IF pc = "process" THEN batch.reqs ELSE {})) \ finished
LockHolders == RowHolders \cup Range(adder.canRun) \cup ({inflight} \ {None})

\* The places of a request's row past its cached prefix, and the slots in them, which the tree
\* does not hold for it.
PastPrefix(r) == (Len(req[r].prefix) + 1)..req[r].seq
Private(r) == {reqToToken[req[r].row][i] : i \in PastPrefix(r)}

\* Every KV slot is in exactly one place: free, in the tree, or past the
\* cached prefix in the row of one unfinished request.  A slot in two places
\* is overwritten while in use or freed twice, one in none is lost
\* (check_memory, "KV cache pool leak detected!").
SlotsPartitioned ==
  /\ kvFree \cup CachedSlots(tree_cache) \cup UNION {Private(r) : r \in RowHolders} = Slots
  /\ Cardinality(kvFree) + Cardinality(DOMAIN tree_cache.value)
       + Cardinality(UNION {{r} \X PastPrefix(r) : r \in RowHolders}) = KVSize

\* Every row of req_to_token_pool is free or belongs to one unfinished request
\* (check_memory, "Memory pool leak detected!").
RowsPartitioned ==
  /\ rowFree \cup {req[r].row : r \in RowHolders} = Rows
  /\ Cardinality(rowFree) + Cardinality(RowHolders) = MaxRunning

\* Both pools are partitioned: no slot or row is lost, shared or given back twice, by
\* abort, retraction, jump, chunk or end of a request, in whatever order they come.
MemoryPartitioned == SlotsPartitioned /\ RowsPartitioned

\* lock_ref counts the requests whose last_node is the node or below it, so a
\* node some request computes on is never evicted; evictable_size_ is the
\* number of tokens on unlocked nodes.
LocksCountUsers ==
  /\ \A n \in tree_cache.nodes : tree_cache.lock[n] = Cardinality({r \in LockHolders : n \in Heads(req[r].node)})
  /\ tree_cache.evictable = Cardinality(Edges(tree_cache, {n \in tree_cache.nodes : tree_cache.lock[n] = 0}))

\* The tree is a radix tree: what is cached is closed under prefixes, ends in
\* a node and branches at nodes only.
TreeIsRadix ==
  LET cached == DOMAIN tree_cache.value
  IN  /\ tree_cache.nodes \subseteq cached /\ DOMAIN tree_cache.lock = tree_cache.nodes
      /\ \A p \in cached : /\ Heads(p) \subseteq cached
                           /\ \E n \in tree_cache.nodes : IsPrefix(p, n)
                           /\ \A a, b \in Tokens : a # b /\ {Append(p, a), Append(p, b)} \subseteq cached
                                                    => p \in tree_cache.nodes

\* A request computes on the KV entries of its own tokens: its last_node is a
\* prefix of them, its prefix_indices are the slots the tree holds for it, its
\* row begins with them, and outside a forward pass its row covers every token
\* but the last.
RowsHoldOwnTokens ==
  /\ \A r \in LockHolders :
       /\ req[r].node \in tree_cache.nodes \cup {<<>>} /\ IsPrefix(req[r].node, Ids(r))
       /\ req[r].prefix = SlotsOf(tree_cache, req[r].node)
  /\ \A r \in RowHolders : IsPrefix(req[r].prefix, reqToToken[req[r].row])
  /\ \A r \in running \ finished : pc # "process" => req[r].seq = Len(Ids(r)) - 1

\* The engine schedules its requests so as to prevent OOM errors: alloc_token_slots never ends
\* the process with "Prefill out of memory. Try to lower your batch size."
PrefillFits == pc # "out_of_memory"

\* Requests let in from the waiting queue fit, whatever the locking of what they match takes from the evictable tokens: only
\* a batch with the next chunk of a request in flight, which is taken whatever room is left, can end the process with
\* "Prefill out of memory", or one let in while a request past its maximum is still in the running batch: that one counts
\* for less than nothing in what PrefillAdder sets aside.
AdmittedFits ==
  pc = "out_of_memory" /\ (\A r \in running : Beyond(r) = {}) => ~(Range(adder.canRun) \subseteq waiting)

\* _run_to_completion_normal returns only when every request has finished.
CompletionLosesNothing == pc = "completed" => arrived \subseteq finished

\* A request received is finished in the end, retracted or not, unless the
\* engine is deactivated.
ReceivedIsFinished == \A r \in Requests : (r \in arrived) ~> (r \in finished \/ draining)

\* A deactivation ends, unless batch_is_full stays set with nothing running:
\* _run_to_completion_normal never clears it.
CompletionEnds == []<>(~batchIsFull) => (draining ~> pc = "completed")
===============================================================================
