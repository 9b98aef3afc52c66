----------------------------- MODULE RedisQueues ------------------------------
(***************************************************************************)
(* The Redis lists through which the processes hand requests over          *)
(* (srt/redis_utils.py).  Every operation is one Redis command or one      *)
(* MULTI block, hence atomic: rpush, lpop with a count, lrange+delete.     *)
(***************************************************************************)
EXTENDS Messages, SequencesExt

VARIABLES
  frontend,    \* frontend[m]: requests of model m no scheduler has taken yet
  backend,     \* backend[m]: requests admitted for the engine that hosts m
  engine_out   \* engine_out[g]: engine_to_gpu_scheduler:{g}

redisVars == <<frontend, backend, engine_out>>

RedisInit ==
  /\ frontend = [m \in Models |-> <<>>]
  /\ backend = [m \in Models |-> <<>>]
  /\ engine_out = [g \in GPUs |-> <<>>]

RedisTypeOK ==
  /\ frontend \in [Models -> Seq(Reqs)]
  /\ backend \in [Models -> Seq(Reqs)]
  /\ engine_out \in [GPUs -> Seq(ReqOutputs)]
===============================================================================
