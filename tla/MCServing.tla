------------------------------ MODULE MCServing -------------------------------
(* Instances of MultiModelServing for TLC: one GPU or two, up to three models. *)
EXTENDS MultiModelServing

CONSTANTS g1, g2, m1, m2, m3, r1, r2

MC_ModelOf == [r \in Reqs |-> IF r = r1 THEN m1 ELSE m2]

\* The scheduler's first GPU starts with the first model, the second one empty.
MC_Placement == [g \in GPUs |-> IF g = g1 THEN <<m1>> ELSE <<>>]

\* Deactivations that run to completion, with and without eviction; and those
\* that preempt.
MC_RunToCompletion == {<<FALSE, TRUE>>, <<FALSE, FALSE>>}
MC_EvictOnly == {<<FALSE, TRUE>>}
MC_Recompute == {<<TRUE, TRUE>>, <<FALSE, TRUE>>}
===============================================================================
