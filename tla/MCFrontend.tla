------------------------------ MODULE MCFrontend ------------------------------
(***************************************************************************)
(* Instances for TLC of three components that do not share state, so that  *)
(* one run checks them: the request handler, the controller's tracker and  *)
(* the language front end.  A behaviour is a behaviour of one of them, its *)
(* part, while the others stay as they are at first.                       *)
(***************************************************************************)
EXTENDS RequestHandler, ModelQueueTracker, StreamExecutor

CONSTANTS Parts, r1, e1, e2, m1, g1, t1, t2

VARIABLE part

frontendVars == <<part, requestVars, trackingVars, streamVars>>

MC_ModelOf == [r \in Reqs |-> m1]
MC_GPUOf == [e \in Engines |-> g1]

\* Programs of the language front end, over the executor "s" and its children.
GenOf(id, name, chunks) == [kind |-> "gen", name |-> name, id |-> id, chunks |-> chunks]
SelectOf(id, name) == [kind |-> "select", name |-> name, id |-> id]
FillOf(id) == [kind |-> "fill", name |-> SeNone, id |-> id]
ScopeOf(name) == [kind |-> "scope", name |-> name]
ScopeEndOf(name) == [kind |-> "scopeEnd", name |-> name]
AppendOf(kids) == [kind |-> "append", name |-> SeNone, kids |-> kids]

SubmitTo(exe, item) == [do |-> "submit", exe |-> exe, item |-> item]
Get(exe, name) == [do |-> "get", exe |-> exe, name |-> name]
SyncOf(exe) == [do |-> "sync", exe |-> exe]
ForkInto(kids) == [do |-> "fork", exe |-> "s", kids |-> kids]
JoinOf(kids) == [do |-> "join", exe |-> "s", kids |-> kids]
EndOf(kids) == [do |-> "end", kids |-> kids]

\* A choice that decides how the program goes on, and an answer that may fail.
ToolUse ==
  <<SubmitTo("s", <<FillOf(1), SelectOf(2, "tool")>>), Get("s", "tool"),
    SubmitTo("s", <<FillOf(3), GenOf(4, "word", 2)>>), Get("s", "word")>>

\* Two tips at once, joined, in a variable scope.
Tips ==
  <<SubmitTo("s", <<FillOf(1)>>), ForkInto(<<"c1", "c2">>),
    SubmitTo("c1", <<GenOf(2, "tip", 1)>>), SubmitTo("c2", <<GenOf(3, "tip", 1)>>),
    SubmitTo("s", <<ScopeOf("p")>>), JoinOf(<<"c1", "c2">>), SubmitTo("s", <<FillOf(4)>>),
    SubmitTo("s", <<ScopeEndOf("p")>>), Get("s", "p")>>

\* A child whose text is appended to its parent's.
Appended ==
  <<SubmitTo("s", <<SelectOf(1, "a")>>), ForkInto(<<"c1">>), SubmitTo("c1", <<GenOf(2, "tip", 2)>>),
    SubmitTo("s", <<AppendOf(<<"c1">>)>>), SyncOf("s"), EndOf(<<"c1">>), Get("s", "a")>>

MC_Programs == {ToolUse, Tips, Appended}
-------------------------------------------------------------------------------
FrontendInit ==
  /\ part \in Parts
  /\ HandlerInit /\ TrackerInit
  /\ IF part = "stream" THEN StreamInit
     ELSE StreamInit /\ seProgram = ToolUse /\ ~seStream /\ seReader.of = "text"

Part(p, others) == part = p /\ UNCHANGED <<part, others>>
InHandler == Part("handler", <<trackingVars, streamVars>>)
InTracker == Part("tracker", <<requestVars, streamVars>>)
InStream == Part("stream", <<requestVars, trackingVars>>)

FrontendNext ==
  \/ InHandler /\ HandlerNext
  \/ InTracker /\ TrackerNext
  \/ InStream /\ StreamNext

\* HandlerFairSpec and StreamSpec, each for the behaviours of its part.
FrontendFairness ==
  /\ \A r \in Reqs :
       /\ WF_frontendVars(InHandler /\ Register(r)) /\ WF_frontendVars(InHandler /\ Wake(r))
       /\ WF_frontendVars(InHandler /\ Resume(r)) /\ WF_frontendVars(InHandler /\ WaitTimesOut(r))
       /\ WF_frontendVars(InHandler /\ Checked(r)) /\ WF_frontendVars(InHandler /\ CancelStream(r))
       /\ WF_frontendVars(InHandler /\ AbortLater(r))
  /\ \A e \in Engines : WF_frontendVars(InHandler /\ HandleOutput(e))
  /\ \A e \in SeExes : WF_frontendVars(InStream /\ WorkerStep(e))
  /\ WF_frontendVars(InStream /\ ProgramStep) /\ WF_frontendVars(InStream /\ ReaderStep)

FrontendSpec == FrontendInit /\ [][FrontendNext]_frontendVars /\ FrontendFairness
===============================================================================
