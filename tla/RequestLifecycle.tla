--------------------------- MODULE RequestLifecycle ---------------------------
(***************************************************************************)
(* What the serving system promises for a generation request, whatever     *)
(* happens to the models: it waits until an engine hosting its model takes *)
(* it, it runs under that model only, it may be sent back to wait, and it  *)
(* leaves once, from running.  Queues, workers, schedulers and the calls   *)
(* that activate and deactivate models are invisible here.                 *)
(***************************************************************************)
EXTENDS FiniteSets

CONSTANTS Reqs, Models, ModelOf

VARIABLES
  phase,   \* how far each request is
  under    \* the models of the engines that run it

lifecycleVars == <<phase, under>>

Phases == {"new", "waiting", "running", "finished"}

Init ==
  /\ phase = [r \in Reqs |-> "new"]
  /\ under = [r \in Reqs |-> {}]

Enter(S, p, models) ==
  /\ phase' = [r \in Reqs |-> IF r \in S THEN p ELSE phase[r]]
  /\ under' = [r \in Reqs |-> IF r \in S THEN models ELSE under[r]]

Submit(r) == phase[r] = "new" /\ Enter({r}, "waiting", {})
Start(r) == phase[r] = "waiting" /\ Enter({r}, "running", {ModelOf[r]})
SendBack(S) == (\A r \in S : phase[r] = "running") /\ Enter(S, "waiting", {})
Finish(r) == phase[r] = "running" /\ Enter({r}, "finished", {})

Next ==
  \/ \E r \in Reqs : Submit(r) \/ Start(r) \/ Finish(r)
  \/ \E S \in SUBSET Reqs : SendBack(S)

Spec == Init /\ [][Next]_lifecycleVars
===============================================================================
