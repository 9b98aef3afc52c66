---------------------------- MODULE StreamExecutor ----------------------------
(***************************************************************************)
(* lang/interpreter.py: a program (run_internal, in its own thread)        *)
(* submits expressions to a StreamExecutor, whose worker thread executes   *)
(* them; it reads variables, forks children and joins them, while a reader *)
(* iterates over the text (text_iter).                                     *)
(*                                                                         *)
(* A program is a sequence of operations.  What is submitted is a sequence *)
(* of expressions (an SglExprList), and the text of an expression x is     *)
(* made of pieces <<x.id, 1>>, <<x.id, 2>>, ... as the backend answers.    *)
(***************************************************************************)
EXTENDS SequencesExt

CONSTANTS
  SePrograms,
  SeExes, SeRoot,  \* the executors, and the one the program starts with
  SeFailing,       \* the names whose generation may fail in the backend
  SeStreams,       \* the values of "stream"
  SeIters,         \* what the reader iterates over: names, or "text"
  SeNone

\* A program submits lists of expressions; the executors that fork makes are new.
ASSUME StreamAssumption ==
  /\ SeRoot \in SeExes /\ SeNone \notin SeExes
  /\ SeStreams \subseteq BOOLEAN
  /\ \A p \in SePrograms :
       /\ p \in Seq(Range(p))
       /\ \A i \in DOMAIN p : /\ p[i].do # "end" => p[i].exe \in SeExes
                              /\ p[i].do = "submit" => p[i].item \in Seq(Range(p[i].item))
                              /\ p[i].do = "fork" => p[i].kids \in Seq(SeExes \ {SeRoot})
       /\ \A i, j \in {k \in DOMAIN p : p[k].do = "fork"} :
            i # j => Range(p[i].kids) \cap Range(p[j].kids) = {}
  /\ \A p \in SePrograms : \A i \in {j \in DOMAIN p : p[j].do = "submit"} : \A x \in Range(p[i].item) :
       /\ x.kind = "gen" => x.chunks \in Nat
       /\ x.kind = "append" => x.kids \in Seq(SeExes)

VARIABLES
  seProgram, seStream,
  seExe,      \* the executors, each with its worker's place ("pc") and the expressions left of its item
  seOp,       \* the operation the program is at
  seStep,     \* and how far it is in it
  seJoin,     \* join: the next child, and src_var_set
  seGot,      \* what the program has read
  seRaised,   \* the program has raised
  seReader    \* text_iter: its event, what it has yielded

streamVars == <<seProgram, seStream, seExe, seOp, seStep, seJoin, seGot, seRaised, seReader>>

NoExe == [pc |-> "none", queue |-> <<>>, unfinished |-> 0, item |-> <<>>, at |-> 0,
          vars |-> <<>>, made |-> {}, set |-> {}, streamSet |-> {}, left |-> {}, size |-> 0,
          text |-> <<>>, textEvent |-> FALSE, finished |-> FALSE, error |-> FALSE, forkPos |-> 0]

StreamInit ==
  /\ seProgram \in SePrograms /\ seStream \in SeStreams
  /\ seExe = [e \in SeExes |-> IF e = SeRoot THEN [NoExe EXCEPT !.pc = "get"] ELSE NoExe]
  /\ seOp = 1 /\ seStep = "begin" /\ seGot = <<>> /\ seRaised = FALSE
  /\ seJoin = [kid |-> 1, base |-> {}]
  /\ \E i \in SeIters : seReader = [of |-> i, at |-> IF seStream THEN "start" ELSE "none",
                                    out |-> <<>>, late |-> FALSE]

\* threading.Event objects of a name: one is made for gen, select and a variable scope.
Named(x) == x.kind \in {"gen", "select", "scope"}
EventsOf(item) == {item[i].name : i \in {j \in DOMAIN item : Named(item[j])}}
Text(v) == <<"text", v>>
Alive(e) == seExe[e].pc \notin {"none", "dead", "crashed"}
-------------------------------------------------------------------------------
(* The worker of an executor: _thread_worker_func and _execute.            *)

Worker(e, pc) == seExe[e].pc = pc /\ UNCHANGED <<seProgram, seStream, seOp, seStep, seJoin, seGot,
                                                 seRaised, seReader>>
Put(exe, item) == [exe EXCEPT !.queue = Append(@, item), !.unfinished = @ + 1]

NoneLeft(exe) == exe.unfinished  \* fault
NoneDone(exe) == exe.unfinished - 1
TakeItem(e) ==
  /\ Worker(e, "get") /\ seExe[e].queue # <<>>
  /\ LET item == Head(seExe[e].queue) IN
     seExe' = [seExe EXCEPT ![e].queue = Tail(@), ![e].item = item, ![e].at = 0,
                            ![e].unfinished = IF item = <<>> THEN NoneDone(seExe[e]) ELSE @,
                            ![e].pc = IF item = <<>> THEN "last" ELSE "exec"]

TaskDone(e) ==
  /\ Worker(e, "exec") /\ seExe[e].item = <<>>
  /\ seExe' = [seExe EXCEPT ![e].unfinished = @ - 1, ![e].textEvent = seStream, ![e].pc = "get"]

Executing(e, kind) == Worker(e, "exec") /\ seExe[e].item # <<>> /\ Head(seExe[e].item).kind = kind
Executed(exe) == [exe EXCEPT !.item = Tail(@), !.at = 0]
Said(exe, s) == [exe EXCEPT !.text = @ \o s]
Bound(exe, n, v) == [exe EXCEPT !.vars = [k \in DOMAIN @ \cup {n} |-> IF k = n THEN v ELSE @[k]]]
Announced(exe, n) == [exe EXCEPT !.set = @ \cup {n}, !.streamSet = @ \cup {n}]
Woken(exe, n) == [exe EXCEPT !.streamSet = @ \cup {n}, !.textEvent = TRUE]

Fill(e) ==
  /\ Executing(e, "fill")
  /\ seExe' = [seExe EXCEPT ![e] = Executed(Said(@, <<<<Head(@.item).id, 1>>>>))]

\* _execute_gen: the answer of the backend, whole or chunk by chunk, and then its event.
Chunk(exe, x) ==
  IF seStream
    THEN IF exe.at = 0
           THEN [Bound(exe, x.name, Text(<<>>)) EXCEPT !.at = 1, !.streamSet = @ \cup {x.name}]
           ELSE [Woken(Bound(Said(exe, <<<<x.id, exe.at>>>>), x.name,
                             Text(Append(exe.vars[x.name][2], <<x.id, exe.at>>))), x.name)
                   EXCEPT !.at = @ + 1]
    ELSE LET all == [i \in 1..x.chunks |-> <<x.id, i>>]
         IN [Bound(Said(exe, all), x.name, Text(all)) EXCEPT !.at = x.chunks + 1]
Gen(exe, x) == IF exe.at > x.chunks THEN Executed(Announced(exe, x.name)) ELSE Chunk(exe, x)
ExecuteGen(e) ==
  /\ Executing(e, "gen")
  /\ seExe' = [seExe EXCEPT ![e] = Gen(@, Head(@.item))]

ExecuteSelect(e) ==
  /\ Executing(e, "select")
  /\ LET x == Head(seExe[e].item) IN
     seExe' = [seExe EXCEPT ![e] =
                 Executed(Said(Announced(Bound(@, x.name, Text(<<<<x.id, 1>>>>)), x.name),
                               <<<<x.id, 1>>>>))]

\* A variable scope binds the place its text starts at, then that text.
ScopeBegin(e) ==
  /\ Executing(e, "scope")
  /\ seExe' = [seExe EXCEPT ![e] = Executed(Bound(@, Head(@.item).name, <<"at", Len(@.text)>>))]
ScopeEnd(e) ==
  /\ Executing(e, "scopeEnd")
  /\ LET exe == seExe[e]
         n == Head(exe.item).name
         from == exe.vars[n][2] IN
     seExe' = [seExe EXCEPT ![e] =
       Executed([Bound(exe, n, Text(SubSeq(exe.text, from + 1, Len(exe.text)))) EXCEPT !.set = @ \cup {n}])]

\* _execute_concatenate_and_append_text: what the children have said since the fork.
SinceFork(k) == SubSeq(seExe[k].text, seExe[k].forkPos + 1, Len(seExe[k].text))
Concatenate(e) ==
  /\ Executing(e, "append")
  /\ LET kids == Head(seExe[e].item).kids IN
     /\ \A i \in DOMAIN kids : seExe[kids[i]].unfinished = 0
     /\ seExe' = [seExe EXCEPT ![e] = Executed(Said(@, FlattenSeq([i \in DOMAIN kids |-> SinceFork(kids[i])])))]

CommitLazy(e) ==
  /\ Executing(e, "commit")
  /\ seExe' = [seExe EXCEPT ![e] = Executed(@)]

\* The backend fails; the worker empties its queue, sets all events and ends.
GetFirst == "drained"  \* fault
AfterError == "drain"
Fails(e) ==
  /\ Executing(e, "gen")
  /\ Head(seExe[e].item).name \in SeFailing /\ seExe[e].at <= Head(seExe[e].item).chunks
  /\ seExe' = [seExe EXCEPT ![e].pc = AfterError]
DrainDone(e) ==
  /\ Worker(e, "drain")
  /\ seExe' = [seExe EXCEPT ![e].unfinished = @ - 1, ![e].pc = "drained"]
Drained(exe) ==
  IF exe.queue = <<>>
    THEN [exe EXCEPT !.pc = "events", !.left = exe.made, !.size = Cardinality(exe.made)]
    ELSE [exe EXCEPT !.queue = Tail(@), !.pc = "drain"]
DrainGet(e) == Worker(e, "drained") /\ seExe' = [seExe EXCEPT ![e] = Drained(@)]

\* Iterating over a dictionary that has grown raises.
SetEvents(e) ==
  /\ Worker(e, "events")
  /\ IF Cardinality(seExe[e].made) # seExe[e].size
       THEN seExe' = [seExe EXCEPT ![e].pc = "crashed"]
       ELSE IF seExe[e].left = {}
         THEN seExe' = [seExe EXCEPT ![e].error = TRUE, ![e].pc = "last"]
         ELSE \E n \in seExe[e].left :
                seExe' = [seExe EXCEPT ![e] = Announced([seExe[e] EXCEPT !.left = @ \ {n}], n)]

WakeReader(e) ==
  /\ Worker(e, "last")
  /\ seExe' = [seExe EXCEPT ![e].textEvent = seStream, ![e].pc = "finish"]
Finish(e) ==
  /\ Worker(e, "finish")
  /\ seExe' = [seExe EXCEPT ![e].finished = TRUE, ![e].pc = "dead"]

WorkerStep(e) ==
  \/ TakeItem(e) \/ TaskDone(e) \/ Fill(e) \/ ExecuteGen(e) \/ ExecuteSelect(e) \/ ScopeBegin(e) \/ ScopeEnd(e)
  \/ Concatenate(e) \/ CommitLazy(e) \/ Fails(e) \/ DrainDone(e) \/ DrainGet(e) \/ SetEvents(e)
  \/ WakeReader(e) \/ Finish(e)
-------------------------------------------------------------------------------
(* The program: run_internal and the operations of its ProgramState.       *)

Op == seProgram[seOp]
Ongoing(do, step) ==
  /\ seOp <= Len(seProgram) /\ Op.do = do /\ seStep = step
  /\ UNCHANGED <<seProgram, seStream, seReader>>
NextOp == seOp' = seOp + 1 /\ seStep' = "begin"
Raise == seOp' = Len(seProgram) + 1 /\ seStep' = "begin" /\ seRaised' = TRUE

\* submit: the events of the names, then the queue.
InitVarEvent ==
  /\ Ongoing("submit", "begin") /\ seStep' = "put"
  /\ seExe' = [seExe EXCEPT ![Op.exe].made = @ \cup EventsOf(Op.item), ![Op.exe].set = @ \ EventsOf(Op.item)]
  /\ UNCHANGED <<seOp, seJoin, seGot, seRaised>>
Submit ==
  /\ Ongoing("submit", "put") /\ NextOp
  /\ seExe' = [seExe EXCEPT ![Op.exe] = Put(@, Op.item)]
  /\ UNCHANGED <<seJoin, seGot, seRaised>>

GetVar ==
  LET exe == seExe[Op.exe] IN
  /\ Ongoing("get", "begin")
  /\ Op.name \in exe.made => Op.name \in exe.set
  /\ UNCHANGED <<seExe, seJoin>>
  /\ IF Op.name \in DOMAIN exe.vars
       THEN /\ seGot' = Append(seGot, [exe |-> Op.exe, name |-> Op.name, value |-> exe.vars[Op.name]])
            /\ NextOp /\ UNCHANGED seRaised
       ELSE Raise /\ UNCHANGED seGot

NotJoined(e) == TRUE  \* fault
Synced(e) == seExe[e].unfinished = 0
Sync ==
  /\ Ongoing("sync", "begin") /\ Synced(Op.exe) /\ NextOp
  /\ UNCHANGED <<seExe, seJoin, seGot, seRaised>>

\* fork: lazy operations are committed when there are several children; then sync.
ForkBegins ==
  /\ Ongoing("fork", "begin") /\ seStep' = "sync"
  /\ seExe' = [seExe EXCEPT ![Op.exe] =
                 IF Len(Op.kids) > 1 THEN Put(@, <<[kind |-> "commit", name |-> SeNone]>>) ELSE @]
  /\ UNCHANGED <<seOp, seJoin, seGot, seRaised>>
Fork ==
  LET exe == seExe[Op.exe] IN
  /\ Ongoing("fork", "sync") /\ Synced(Op.exe) /\ NextOp
  /\ seExe' = [e \in SeExes |->
                 IF e \in Range(Op.kids)
                   THEN [NoExe EXCEPT !.pc = "get", !.vars = exe.vars, !.text = exe.text,
                                      !.forkPos = Len(exe.text)]
                   ELSE seExe[e]]
  /\ UNCHANGED <<seJoin, seGot, seRaised>>

\* join("gather_variable"): the new variables of the children become lists; then they end.
JoinBegins ==
  /\ Ongoing("join", "begin") /\ seStep' = "gather"
  /\ seJoin' = [kid |-> 1, base |-> DOMAIN seExe[Op.exe].vars]
  /\ UNCHANGED <<seExe, seOp, seGot, seRaised>>
Gathered(exe, new, kidVars) ==
  [exe EXCEPT !.vars = [k \in DOMAIN @ \cup new |->
     IF k \notin new THEN @[k]
     ELSE IF k \in DOMAIN @ THEN <<"list", Append(@[k][2], kidVars[k])>>
     ELSE <<"list", <<kidVars[k]>>>>]]
Gather ==
  /\ Ongoing("join", "gather") /\ seJoin.kid <= Len(Op.kids)
  /\ LET kid == Op.kids[seJoin.kid]
         exe == seExe[Op.exe]
         new == DOMAIN seExe[kid].vars \ seJoin.base IN
     /\ Synced(kid) /\ UNCHANGED seGot
     /\ IF \E k \in new \cap DOMAIN exe.vars : exe.vars[k][1] # "list"
          THEN Raise /\ UNCHANGED <<seExe, seJoin>>
          ELSE /\ seExe' = [seExe EXCEPT ![Op.exe] = Gathered(@, new, seExe[kid].vars)]
               /\ seJoin' = [seJoin EXCEPT !.kid = @ + 1]
               /\ UNCHANGED <<seOp, seStep, seRaised>>
WithEnd(kids) == [e \in SeExes |-> IF e \in kids /\ Alive(e) THEN Put(seExe[e], <<>>) ELSE seExe[e]]
JoinEnds ==
  /\ Ongoing("join", "gather") /\ seJoin.kid > Len(Op.kids) /\ NextOp
  /\ seExe' = WithEnd(Range(Op.kids))
  /\ UNCHANGED <<seJoin, seGot, seRaised>>
End ==
  /\ Ongoing("end", "begin") /\ NextOp
  /\ seExe' = WithEnd(Range(Op.kids))
  /\ UNCHANGED <<seJoin, seGot, seRaised>>

\* The end of run_internal: end(), and sync() unless the program has raised.  The children
\* of a program that raises end with their ProgramStates (__del__).
RunEnds ==
  /\ seOp = Len(seProgram) + 1 /\ seStep = "begin"
  /\ seStep' = IF seRaised THEN "done" ELSE "sync"
  /\ seExe' = WithEnd(IF seRaised THEN SeExes ELSE {SeRoot})
  /\ UNCHANGED <<seProgram, seStream, seOp, seJoin, seGot, seRaised, seReader>>
RunSynced ==
  /\ seOp = Len(seProgram) + 1 /\ seStep = "sync" /\ Synced(SeRoot)
  /\ seStep' = "done"
  /\ UNCHANGED <<seProgram, seStream, seExe, seOp, seJoin, seGot, seRaised, seReader>>

ProgramStep ==
  \/ InitVarEvent \/ Submit \/ GetVar \/ Sync \/ ForkBegins \/ Fork \/ JoinBegins \/ Gather \/ JoinEnds
  \/ End \/ RunEnds \/ RunSynced
-------------------------------------------------------------------------------
(* The reader: text_iter() or text_iter(name) of the program's state.      *)

Root == seExe[SeRoot]
Reader(at) == seReader.at = at /\ UNCHANGED <<seProgram, seStream, seOp, seStep, seJoin, seGot, seRaised>>
OfText == seReader.of = "text"

\* An iterator over a name looks for its event; it gives up when the executor has finished.
FindEvent ==
  /\ Reader("start") /\ UNCHANGED seExe
  /\ \/ /\ Root.finished /\ ~OfText
        /\ seReader' = [seReader EXCEPT !.at = "done", !.late = TRUE]
     \/ /\ OfText \/ (~Root.finished /\ seReader.of \in Root.made)
        /\ seReader' = [seReader EXCEPT !.at = "wait"]
WaitAndClear ==
  /\ Reader("wait")
  /\ IF OfText THEN Root.textEvent ELSE seReader.of \in Root.streamSet
  /\ seExe' = IF OfText THEN [seExe EXCEPT ![SeRoot].textEvent = FALSE]
              ELSE [seExe EXCEPT ![SeRoot].streamSet = @ \ {seReader.of}]
  /\ seReader' = [seReader EXCEPT !.at = "read"]
FromStart(out, s) == s  \* fault
Unread(out, s) == SubSeq(s, Len(out) + 1, Len(s))
\* After a failure there may be no such variable, and the iterator raises.
ReadNew ==
  /\ Reader("read") /\ UNCHANGED seExe
  /\ seReader' =
       IF OfText THEN [seReader EXCEPT !.at = "check", !.out = @ \o Unread(@, Root.text)]
       ELSE IF seReader.of \in DOMAIN Root.vars
         THEN [seReader EXCEPT !.at = "check", !.out = @ \o Unread(@, Root.vars[seReader.of][2])]
       ELSE [seReader EXCEPT !.at = "done", !.late = TRUE]
CheckEnd ==
  /\ Reader("check") /\ UNCHANGED seExe
  /\ LET over == IF OfText THEN Root.finished ELSE seReader.of \in Root.set IN
     seReader' = [seReader EXCEPT !.at = IF over THEN "done" ELSE "wait"]
ReaderStep == FindEvent \/ WaitAndClear \/ ReadNew \/ CheckEnd
-------------------------------------------------------------------------------
StreamNext == (\E e \in SeExes : WorkerStep(e)) \/ ProgramStep \/ ReaderStep

StreamSpec ==
  /\ StreamInit /\ [][StreamNext]_streamVars
  /\ \A e \in SeExes : WF_streamVars(WorkerStep(e))
  /\ WF_streamVars(ProgramStep)
  /\ WF_streamVars(ReaderStep)
-------------------------------------------------------------------------------
(* What the language front end promises.                                   *)

\* The expressions of a program, and what a whole answer to one is.
Exprs == UNION {Range(seProgram[i].item) : i \in {j \in DOMAIN seProgram : seProgram[j].do = "submit"}}
Whole(x) == [i \in 1..(IF x.kind = "gen" THEN x.chunks ELSE 1) |-> <<x.id, i>>]
Failed == \E e \in SeExes : seExe[e].pc \in {"drain", "drained", "events", "crashed"} \/ seExe[e].error

\* s["name"] waits for the value and gets all of it: no program goes on with half an
\* answer, or with the answer to another name, unless a generation failed.
GotWhole ==
  Failed \/ \A i \in DOMAIN seGot :
    seGot[i].value[1] = "text" /\ (\E x \in Exprs : x.kind \in {"gen", "select"} /\ x.name = seGot[i].name)
      => \E x \in Exprs : x.name = seGot[i].name /\ seGot[i].value[2] = Whole(x)

InHand(e) == IF seExe[e].pc \in {"exec", "drain"} THEN 1 ELSE 0

\* queue.join counts right, through the clean-up after an error too: what it waits for is
\* what is queued and the item in the worker's hands.
JoinCountsItems == \A e \in SeExes : seExe[e].unfinished = Len(seExe[e].queue) + InHand(e)

\* A child starts from all that was submitted to its parent before the fork, in order,
\* whatever the parent's worker had still to do when fork was called.
SubmittedBefore(e, j) ==
  FlattenSeq([i \in 1..(j - 1) |->
    IF seProgram[i].do = "submit" /\ seProgram[i].exe = e
      THEN FlattenSeq([k \in DOMAIN seProgram[i].item |->
             LET x == seProgram[i].item[k] IN IF x.kind \in {"scope", "scopeEnd"} THEN <<>> ELSE Whole(x)])
      ELSE <<>>])
ForkStartsFromAll ==
  Failed \/ \A j \in 1..(seOp - 1) : seProgram[j].do = "fork" =>
    \A k \in Range(seProgram[j].kids) :
      SubSeq(seExe[k].text, 1, seExe[k].forkPos) = SubmittedBefore(seProgram[j].exe, j)

\* After a join, a variable that every child generated is the list of their values, in the
\* children's order.
JoinedInOrder ==
  Failed \/ \A j \in 1..(seOp - 1) : seProgram[j].do = "join" =>
    \A n \in UNION {EventsOf(seProgram[i].item) : i \in {h \in 1..j : seProgram[h].do = "submit"}} :
      (\A k \in Range(seProgram[j].kids) : n \in seExe[k].made) =>
        LET kids == seProgram[j].kids
            vars == seExe[seProgram[j].exe].vars IN
        /\ \A k \in Range(kids) \cup {seProgram[j].exe} : n \in DOMAIN seExe[k].vars
        /\ vars[n] = <<"list", [i \in DOMAIN kids |-> seExe[kids[i]].vars[n]]>>

\* What one thread takes over from another is complete: a value got, the text a child
\* starts from, the lists a join gathers.
TakenOverWhole == GotWhole /\ ForkStartsFromAll /\ JoinedInOrder

\* A program that has begun and whose generations do not fail returns: no get, fork, join or
\* last sync waits for ever.
RunReturns == (seOp > 1) ~> (seStep = "done" \/ Failed)

\* text_iter yields the text once and in order.
StreamedInOrder ==
  OfText => IsPrefix(seReader.out, Root.text)
===============================================================================
