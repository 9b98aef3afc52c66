---------------------------- MODULE Following_proofs ----------------------------
(***************************************************************************)
(* Proofs that workers and model states follow the pool, for any number    *)
(* of GPUs, workers, models and requests, although the pool's view of a    *)
(* worker runs ahead of the worker and the scheduler's view of a model     *)
(* runs behind it.                                                         *)
(*  - What a worker still has to obey takes it from the state it is in to  *)
(*    the one the pool has given it.                                       *)
(*  - With orderly callers a change of a model is in one place of the      *)
(*    system at a time, and the model's state says which change it is.     *)
(***************************************************************************)
EXTENDS MultiModelServing_proofs

-------------------------------------------------------------------------------
(* What assigning and releasing a worker do *)

\* Assigning sends the activation to one idle worker and gives it the model.
LEMMA AssignEffect ==
  ASSUME PoolInv, NEW g \in GPUs, NEW req \in ControlReqs, AssignAndActivate(g, req)
  PROVE  \E w \in Workers :
           /\ w \in ToSet(free_workers[g]) /\ model_to_worker[g][req.model] = NoWorker
           /\ worker_sock'[g][w] = Append(worker_sock[g][w], req)
           /\ \A v \in Workers : v # w => worker_sock'[g][v] = worker_sock[g][v]
           /\ model_to_worker'[g][req.model] = w
           /\ \A o \in Models : o # req.model => model_to_worker'[g][o] = model_to_worker[g][o]
           /\ ToSet(free_workers'[g]) = ToSet(free_workers[g]) \ {w}
           /\ \A h \in GPUs : h # g => /\ worker_sock'[h] = worker_sock[h]
                                       /\ model_to_worker'[h] = model_to_worker[h]
                                       /\ free_workers'[h] = free_workers[h]
<1> DEFINE w == Head(free_workers[g])
           m == req.model
<1>1. /\ m \in Models /\ model_to_worker[g][m] = NoWorker
      /\ free_workers[g] \in Seq(Workers) /\ free_workers[g] # <<>>
      /\ IsInjective(free_workers[g])
  BY DEF AssignAndActivate, CannotActivate, Served, PoolInv, PoolTypeOK, PoolPartition,
         NoDuplicate, ControlReqs
<1>2. /\ w \in Workers /\ w \in ToSet(free_workers[g])
      /\ ToSet(Tail(free_workers[g])) = ToSet(free_workers[g]) \ {w}
  BY <1>1, InjectiveTail
<1> HIDE DEF w
<1>3. /\ model_to_worker' = [model_to_worker EXCEPT ![g][m] = w]
      /\ free_workers' = [free_workers EXCEPT ![g] = Tail(@)]
      /\ SendToWorker(g, w, req)
  BY DEF AssignAndActivate, w
<1>4. /\ worker_sock'[g][w] = Append(worker_sock[g][w], req)
      /\ \A v \in Workers : v # w => worker_sock'[g][v] = worker_sock[g][v]
      /\ \A h \in GPUs : h # g => worker_sock'[h] = worker_sock[h]
  BY <1>2, <1>3 DEF PoolInv, PoolTypeOK, SendToWorker
<1>5. /\ model_to_worker'[g][m] = w
      /\ \A o \in Models : o # m => model_to_worker'[g][o] = model_to_worker[g][o]
      /\ \A h \in GPUs : h # g => model_to_worker'[h] = model_to_worker[h]
  BY <1>1, <1>3 DEF PoolInv, PoolTypeOK
<1>6. /\ ToSet(free_workers'[g]) = ToSet(free_workers[g]) \ {w}
      /\ \A h \in GPUs : h # g => free_workers'[h] = free_workers[h]
  <2>1. free_workers'[g] = Tail(free_workers[g])
    BY <1>3 DEF PoolInv, PoolTypeOK
  <2> QED
    BY <1>2, <1>3, <2>1 DEF PoolInv, PoolTypeOK
<1> QED
  BY <1>1, <1>2, <1>4, <1>5, <1>6

\* Releasing sends the deactivation to the worker of the model and frees it.
LEMMA ReleaseEffect ==
  ASSUME PoolInv, NEW g \in GPUs, NEW req \in ControlReqs, ReleaseAndDeactivate(g, req)
  PROVE  \E w \in Workers :
           /\ model_to_worker[g][req.model] = w
           /\ worker_sock'[g][w] = Append(worker_sock[g][w], req)
           /\ \A v \in Workers : v # w => worker_sock'[g][v] = worker_sock[g][v]
           /\ model_to_worker'[g][req.model] = NoWorker
           /\ \A o \in Models : o # req.model => model_to_worker'[g][o] = model_to_worker[g][o]
           /\ ToSet(free_workers'[g]) = ToSet(free_workers[g]) \cup {w}
           /\ \A h \in GPUs : h # g => /\ worker_sock'[h] = worker_sock[h]
                                       /\ model_to_worker'[h] = model_to_worker[h]
                                       /\ free_workers'[h] = free_workers[h]
<1> DEFINE w == model_to_worker[g][req.model]
           m == req.model
<1>1. m \in Models /\ w \in Workers /\ free_workers[g] \in Seq(Workers)
  BY DEF ReleaseAndDeactivate, Served, PoolInv, PoolTypeOK, ControlReqs
<1>2. /\ model_to_worker' = [model_to_worker EXCEPT ![g][m] = NoWorker]
      /\ free_workers' = [free_workers EXCEPT ![g] = Append(@, w)]
      /\ SendToWorker(g, w, req)
  BY DEF ReleaseAndDeactivate
<1> HIDE DEF w
<1>3. /\ worker_sock'[g][w] = Append(worker_sock[g][w], req)
      /\ \A v \in Workers : v # w => worker_sock'[g][v] = worker_sock[g][v]
      /\ \A h \in GPUs : h # g => worker_sock'[h] = worker_sock[h]
  BY <1>1, <1>2 DEF PoolInv, PoolTypeOK, SendToWorker
<1>4. /\ model_to_worker'[g][m] = NoWorker
      /\ \A o \in Models : o # m => model_to_worker'[g][o] = model_to_worker[g][o]
      /\ \A h \in GPUs : h # g => model_to_worker'[h] = model_to_worker[h]
  BY <1>1, <1>2 DEF PoolInv, PoolTypeOK
<1>5. /\ ToSet(free_workers'[g]) = ToSet(free_workers[g]) \cup {w}
      /\ \A h \in GPUs : h # g => free_workers'[h] = free_workers[h]
  <2>1. free_workers'[g] = Append(free_workers[g], w)
    BY <1>2 DEF PoolInv, PoolTypeOK
  <2>2. ToSet(Append(free_workers[g], w)) = ToSet(free_workers[g]) \cup {w}
    BY <1>1, ToSetAppend
  <2> QED
    BY <1>2, <2>1, <2>2 DEF PoolInv, PoolTypeOK
<1> QED
  BY <1>1, <1>3, <1>4, <1>5 DEF w
-------------------------------------------------------------------------------
(* What a worker has still to obey *)

\* The deactivation an engine runs to completion for has taken effect already.
Left(g, w) == IF draining[g][w] THEN Tail(todo[g][w]) ELSE todo[g][w]

Activates(q) == q[Len(q)].type = "activate"
EndsActive(g, w) == IF Left(g, w) = <<>> THEN activated[g][w] ELSE Activates(Left(g, w))
EndModel(g, w) ==
  IF Left(g, w) = <<>> THEN hosted[g][w] ELSE Left(g, w)[Len(Left(g, w))].model

\* Messages an engine can obey one after the other, none of them in vain.
Fits(q, active) == q # <<>> => q[1].type = IF active THEN "deactivate" ELSE "activate"
AlternateTypes(q) == \A i \in 1 .. Len(q) - 1 : q[i].type # q[i + 1].type

\* What worker w has selected fits its state, what it has not read fits the
\* state the selected messages lead to, and with all of them obeyed it is the
\* worker the pool takes it for.
Follows(g, w) ==
  /\ AlternateTypes(Left(g, w)) /\ Fits(Left(g, w), activated[g][w])
  /\ Fits(worker_sock[g][w], EndsActive(g, w))
  /\ worker_sock[g][w] = <<>> =>
       IF EndsActive(g, w)
       THEN EndModel(g, w) \in Models /\ model_to_worker[g][EndModel(g, w)] = w
       ELSE w \in ToSet(free_workers[g])
Followed == \A g \in GPUs, w \in Workers : Follows(g, w)

\* Once a message is obeyed, the next one fits.
LEMMA TailFits ==
  ASSUME NEW q \in Seq(ControlReqs), q # <<>>, AlternateTypes(q)
  PROVE  /\ Tail(q) \in Seq(ControlReqs) /\ AlternateTypes(Tail(q))
         /\ Fits(Tail(q), q[1].type = "activate")
         /\ Tail(q) # <<>> => Tail(q)[Len(Tail(q))] = q[Len(q)]
         /\ Tail(q) = <<>> => q[Len(q)] = q[1]
<1>1. /\ Len(q) \in Nat /\ Len(q) > 0
      /\ Tail(q) \in Seq(ControlReqs) /\ Len(Tail(q)) = Len(q) - 1
      /\ \A i \in 1 .. Len(q) - 1 : Tail(q)[i] = q[i + 1]
  OBVIOUS
<1>2. \A i \in 1 .. Len(q) : q[i].type \in {"activate", "deactivate"}
  <2>1. \A i \in 1 .. Len(q) : q[i] \in ControlReqs
    OBVIOUS
  <2> QED
    BY <2>1 DEF ControlReqs
<1> DEFINE t == Tail(q)
<1> HIDE DEF t
<1>3. /\ t \in Seq(ControlReqs) /\ Len(t) = Len(q) - 1
      /\ \A i \in 1 .. Len(q) - 1 : t[i] = q[i + 1]
  BY <1>1 DEF t
<1>4. /\ t \in Seq(ControlReqs) /\ Len(t) = Len(q) - 1 /\ (t = <<>> <=> Len(q) = 1)
      /\ \A i \in 1 .. Len(q) - 1 : t[i] = q[i + 1]
  BY <1>1, <1>3
<1>5. AlternateTypes(t)
  <2> SUFFICES ASSUME NEW i \in 1 .. Len(t) - 1 PROVE t[i].type # t[i + 1].type
    BY DEF AlternateTypes
  <2>1. i \in 1 .. Len(q) - 1 /\ i + 1 \in 1 .. Len(q) - 1 /\ i + 1 + 1 = i + 2
    BY <1>1, <1>4
  <2>2. t[i] = q[i + 1] /\ t[i + 1] = q[i + 1 + 1]
    BY <1>4, <2>1
  <2>3. q[i + 1].type # q[i + 1 + 1].type
    BY <2>1 DEF AlternateTypes
  <2> QED
    BY <2>2, <2>3
<1>6. Fits(t, q[1].type = "activate")
  <2> SUFFICES ASSUME t # <<>>
               PROVE  t[1].type = IF q[1].type = "activate" THEN "deactivate" ELSE "activate"
    BY DEF Fits
  <2>1. 1 \in 1 .. Len(q) - 1 /\ 1 + 1 = 2 /\ 2 \in 1 .. Len(q) /\ 1 \in 1 .. Len(q)
    BY <1>1, <1>4
  <2>2. t[1] = q[2] /\ q[1].type # q[2].type
    BY <1>4, <2>1 DEF AlternateTypes
  <2> QED
    BY <1>2, <2>1, <2>2
<1>7. t # <<>> => t[Len(t)] = q[Len(q)]
  <2> SUFFICES ASSUME t # <<>> PROVE t[Len(t)] = q[Len(q)]
    OBVIOUS
  <2>1. Len(q) - 1 \in 1 .. Len(q) - 1 /\ Len(q) - 1 + 1 = Len(q)
    BY <1>1, <1>4
  <2> QED
    BY <1>4, <2>1
<1> QED
  BY <1>4, <1>5, <1>6, <1>7 DEF t

\* The first message of a type, if it is known which one that is.
LEMMA FirstOfIs ==
  ASSUME NEW q \in Seq(ControlReqs), NEW type,
         NEW k \in 1 .. Len(q), q[k].type = type, \A j \in 1 .. k - 1 : q[j].type # type
  PROVE  FirstOf(q, type) = <<q[k]>>
<1> DEFINE I == {i \in DOMAIN q : q[i].type = type /\ \A j \in 1 .. i - 1 : q[j].type # type}
<1>1. k \in I
  OBVIOUS
<1>2. \A i \in I : i = k
  <2> SUFFICES ASSUME NEW i \in I PROVE i = k
    OBVIOUS
  <2>1. i \in 1 .. Len(q) /\ Len(q) \in Nat
    OBVIOUS
  <2>2. ~(i < k) /\ ~(k < i)
    BY <2>1
  <2> QED
    BY <2>1, <2>2
<1>3. I # {} /\ (CHOOSE i \in I : TRUE) = k
  BY <1>1, <1>2
<1> HIDE DEF I
<1>4. FirstOf(q, type) = IF I = {} THEN <<>> ELSE <<q[CHOOSE i \in I : TRUE]>>
  BY DEF FirstOf, I
<1> QED
  BY <1>3, <1>4

\* An engine that reads at most two messages in turn drops none of them.
LEMMA SelectedAll ==
  ASSUME NEW q \in Seq(ControlReqs), q # <<>>, Len(q) <= 2, NEW b \in BOOLEAN,
         Fits(q, b), AlternateTypes(q)
  PROVE  Selected(q, b) = q
<1> DEFINE first == IF b THEN "deactivate" ELSE "activate"
           second == IF b THEN "activate" ELSE "deactivate"
<1>1. Selected(q, b) = FirstOf(q, first) \o FirstOf(q, second)
  BY DEF Selected
<1>2. (Len(q) = 1 \/ Len(q) = 2) /\ q[1].type = first /\ first # second
  <2>1. Len(q) \in Nat /\ Len(q) # 0
    OBVIOUS
  <2>2. q[1].type = first
    BY Zenon DEF Fits
  <2>3. first # second
    OBVIOUS
  <2>4. \A n \in Nat : n # 0 /\ n <= 2 => n = 1 \/ n = 2
    OBVIOUS
  <2> QED
    BY <2>1, <2>2, <2>3, <2>4
<1>3. FirstOf(q, first) = <<q[1]>>
  BY <1>2, FirstOfIs
<1>4. CASE Len(q) = 1
  <2>1. FirstOf(q, second) = <<>>
    <3>1. \A i \in DOMAIN q : q[i].type # second
      BY <1>2, <1>4
    <3> QED
      BY <3>1 DEF FirstOf
  <2>2. <<q[1]>> = q
    BY <1>4
  <2>3. <<q[1]>> \o <<>> = <<q[1]>>
    OBVIOUS
  <2> QED
    BY <1>1, <1>3, <2>1, <2>2, <2>3
<1>5. CASE Len(q) = 2
  <2>1. q[1].type # q[2].type /\ q[2].type \in {"activate", "deactivate"}
    <3>1. q[2] \in ControlReqs /\ 1 \in 1 .. Len(q) - 1 /\ 1 + 1 = 2
      BY <1>5
    <3> QED
      BY <3>1 DEF ControlReqs, AlternateTypes
  <2>2. q[2].type = second
    BY <1>2, <2>1
  <2>3. FirstOf(q, second) = <<q[2]>>
    <3>1. \A j \in 1 .. 2 - 1 : q[j].type # second
      BY <1>2
    <3> QED
      BY <1>5, <2>2, <3>1, FirstOfIs
  <2>4. <<q[1]>> \o <<q[2]>> = q
    BY <1>5
  <2> QED
    BY <1>1, <1>3, <2>3, <2>4
<1> QED
  BY <1>2, <1>4, <1>5
-------------------------------------------------------------------------------
(* Steps of the pool and of the engines *)

\* The pool has worker w where it had it.
SamePool(g, w) ==
  /\ \A m \in Models : model_to_worker'[g][m] = w <=> model_to_worker[g][m] = w
  /\ w \in ToSet(free_workers'[g]) <=> w \in ToSet(free_workers[g])

\* The engine has left what it had left.
SameLeft(g, w) ==
  /\ Left(g, w)' = Left(g, w) /\ activated'[g][w] = activated[g][w]
  /\ hosted'[g][w] = hosted[g][w]

\* The engine obeys one message, which fits.
ObeysOne(g, w) ==
  /\ Left(g, w) \in Seq(ControlReqs) /\ Left(g, w) # <<>> /\ Left(g, w)' = Tail(Left(g, w))
  /\ activated'[g][w] = (Left(g, w)[1].type = "activate")
  /\ Left(g, w)[1].type = "activate" => hosted'[g][w] = Left(g, w)[1].model

\* A worker nothing happened to still follows.
LEMMA SameFollows ==
  ASSUME NEW g \in GPUs, NEW w \in Workers, Follows(g, w), SamePool(g, w), SameLeft(g, w),
         worker_sock'[g][w] = worker_sock[g][w]
  PROVE  Follows(g, w)'
<1>1. EndsActive(g, w)' = EndsActive(g, w) /\ EndModel(g, w)' = EndModel(g, w)
  BY DEF SameLeft, EndsActive, EndModel
<1> QED
  BY <1>1 DEF SameLeft, SamePool, Follows

\* What an engine has obeyed is part of its state and no longer left.
LEMMA ObeyFollows ==
  ASSUME NEW g \in GPUs, NEW w \in Workers, Follows(g, w), SamePool(g, w), ObeysOne(g, w),
         worker_sock'[g][w] = worker_sock[g][w]
  PROVE  Follows(g, w)'
<1> DEFINE q == Left(g, w)
<1>1. q \in Seq(ControlReqs) /\ q # <<>> /\ AlternateTypes(q)
  BY DEF ObeysOne, Follows
<1>2. /\ AlternateTypes(Tail(q)) /\ Fits(Tail(q), q[1].type = "activate")
      /\ Tail(q) # <<>> => Tail(q)[Len(Tail(q))] = q[Len(q)]
      /\ Tail(q) = <<>> => q[Len(q)] = q[1]
  <2> HIDE DEF q
  <2> QED
    BY <1>1, TailFits
<1>3. AlternateTypes(Left(g, w)') /\ Fits(Left(g, w)', activated'[g][w])
  BY <1>2 DEF ObeysOne
<1>4. /\ EndsActive(g, w)' = EndsActive(g, w)
      /\ EndsActive(g, w) => EndModel(g, w)' = EndModel(g, w)
  <2>1. EndsActive(g, w) = Activates(q) /\ EndModel(g, w) = q[Len(q)].model
    BY <1>1 DEF EndsActive, EndModel
  <2>2. CASE Tail(q) = <<>>
    BY <1>2, <2>1, <2>2 DEF ObeysOne, EndsActive, EndModel, Activates
  <2>3. CASE Tail(q) # <<>>
    BY <1>2, <2>1, <2>3 DEF ObeysOne, EndsActive, EndModel, Activates
  <2> QED
    BY <2>2, <2>3
<1> QED
  BY <1>3, <1>4 DEF SamePool, Follows

\* A message sent to a socket is the first one there if there was none.
LEMMA AppendFirst ==
  ASSUME NEW q \in Seq(ControlReqs), NEW req \in ControlReqs
  PROVE  Append(q, req) # <<>> /\ Append(q, req)[1] = IF q = <<>> THEN req ELSE q[1]
<1>1. Len(q) \in Nat /\ (q = <<>> <=> Len(q) = 0) /\ Append(q, req) # <<>>
  OBVIOUS
<1>2. CASE q = <<>>
  BY <1>2
<1>3. CASE q # <<>>
  <2>1. 1 \in 1 .. Len(q)
    BY <1>1, <1>3
  <2> QED
    BY <1>1, <1>3, <2>1
<1> QED
  BY <1>2, <1>3

\* A worker is given a model, or loses one, while the messages it has not
\* obeyed lead to the other state.
LEMMA AssignFollows ==
  ASSUME PoolInv, ServingInv, Followed, NEW g \in GPUs, NEW req \in ControlReqs,
         \/ req.type = "activate" /\ AssignAndActivate(g, req)
         \/ req.type = "deactivate" /\ ReleaseAndDeactivate(g, req),
         UNCHANGED engineVars
  PROVE  Followed'
<1>1. PICK w \in Workers :
        /\ \/ /\ req.type = "activate" /\ w \in ToSet(free_workers[g])
              /\ model_to_worker[g][req.model] = NoWorker
              /\ model_to_worker'[g][req.model] = w
              /\ ToSet(free_workers'[g]) = ToSet(free_workers[g]) \ {w}
           \/ /\ req.type = "deactivate" /\ model_to_worker[g][req.model] = w
              /\ model_to_worker'[g][req.model] = NoWorker
              /\ ToSet(free_workers'[g]) = ToSet(free_workers[g]) \cup {w}
        /\ worker_sock'[g][w] = Append(worker_sock[g][w], req)
        /\ \A v \in Workers : v # w => worker_sock'[g][v] = worker_sock[g][v]
        /\ \A o \in Models : o # req.model => model_to_worker'[g][o] = model_to_worker[g][o]
        /\ \A h \in GPUs : h # g => /\ worker_sock'[h] = worker_sock[h]
                                    /\ model_to_worker'[h] = model_to_worker[h]
                                    /\ free_workers'[h] = free_workers[h]
  <2>1. CASE req.type = "activate" /\ AssignAndActivate(g, req)
    BY <2>1, AssignEffect
  <2>2. CASE req.type = "deactivate" /\ ReleaseAndDeactivate(g, req)
    BY <2>2, ReleaseEffect
  <2> QED
    BY <2>1, <2>2
<1>2. SUFFICES ASSUME NEW h \in GPUs, NEW v \in Workers PROVE Follows(h, v)'
  BY DEF Followed
<1>3. Follows(h, v) /\ SameLeft(h, v)
  BY DEF Followed, SameLeft, Left, engineVars
<1>4. CASE <<h, v>> # <<g, w>>
  <2>1. SamePool(h, v) /\ worker_sock'[h][v] = worker_sock[h][v]
    BY <1>1, <1>4, PartiesAssumption DEF SamePool
  <2> QED
    BY <1>3, <2>1, SameFollows
<1>5. CASE <<h, v>> = <<g, w>>
  <2> DEFINE q == worker_sock[g][w]
  <2>1. q \in Seq(ControlReqs) /\ worker_sock'[g][w] = Append(q, req)
    BY <1>1 DEF PoolInv, PoolTypeOK
  <2>2. Append(q, req) # <<>> /\ Append(q, req)[1] = IF q = <<>> THEN req ELSE q[1]
    BY <2>1, AppendFirst
  <2>3. /\ EndsActive(g, w)' = EndsActive(g, w)
        /\ AlternateTypes(Left(g, w)') /\ Fits(Left(g, w)', activated'[g][w])
    BY <1>3, <1>5 DEF SameLeft, EndsActive, Follows
  <2>4. q = <<>> => req.type = IF EndsActive(g, w) THEN "deactivate" ELSE "activate"
    <3> SUFFICES ASSUME q = <<>>
                 PROVE  req.type = IF EndsActive(g, w) THEN "deactivate" ELSE "activate"
      OBVIOUS
    <3>1. IF EndsActive(g, w)
          THEN EndModel(g, w) \in Models /\ model_to_worker[g][EndModel(g, w)] = w
          ELSE w \in ToSet(free_workers[g])
      BY <1>3, <1>5 DEF Follows
    <3>2. req.type = "activate" => w \in ToSet(free_workers[g])
      BY <1>1
    <3>3. req.type = "deactivate" => \E m \in Models : model_to_worker[g][m] = w
      BY <1>1, NamesModel
    <3>4. w \in ToSet(free_workers[g]) <=> ~ \E m \in Models : model_to_worker[g][m] = w
      BY DEF PoolInv, PoolPartition, FreeIffIdle
    <3>5. req.type \in {"activate", "deactivate"}
      BY DEF ControlReqs
    <3> QED
      BY <3>1, <3>2, <3>3, <3>4, <3>5
  <2>5. Fits(worker_sock[g][w], EndsActive(g, w))
    BY <1>3, <1>5 DEF Follows
  <2>6. Fits(Append(q, req), EndsActive(g, w))
    BY <2>2, <2>4, <2>5 DEF Fits
  <2> QED
    BY <1>5, <2>1, <2>2, <2>3, <2>6 DEF Follows
<1> QED
  BY <1>4, <1>5

\* A step of one worker's engine leaves the messages of every other alone.
LEMMA OthersLeft ==
  ASSUME PoolTypeOK, ServingInv, NEW g \in GPUs, NEW w \in Workers, EngineStep(g, w),
         NEW h \in GPUs, NEW v \in Workers, <<h, v>> # <<g, w>>
  PROVE  /\ todo'[h][v] = todo[h][v] /\ worker_sock'[h][v] = worker_sock[h][v]
         /\ SameLeft(h, v)
<1>1. todo'[h][v] = todo[h][v]
  <2>1. \/ UNCHANGED todo
        \/ \E q : todo' = [todo EXCEPT ![g][w] = q]
    BY DEF EngineStep, Control, PollControl, HandleActivateRequest, RefuseDeactivateRequest,
           HandleDeactivateRequest, CompleteDeactivation, Generation, RecvGenerationRequests,
           StartRunning, Retract, Finish, Obeyed
  <2> QED
    BY <2>1 DEF ServingInv, ServingTypeOK, EngineTypeOK
<1>2. worker_sock'[h][v] = worker_sock[h][v]
  <2>1. \/ UNCHANGED worker_sock
        \/ \E q : worker_sock' = [worker_sock EXCEPT ![g][w] = q]
    BY DEF EngineStep, Control, PollControl, HandleActivateRequest, RefuseDeactivateRequest,
           HandleDeactivateRequest, CompleteDeactivation, Generation, RecvGenerationRequests,
           StartRunning, Retract, Finish, DrainSocket, poolVars
  <2> QED
    BY <2>1 DEF PoolTypeOK
<1>3. SameAt(h, v)
  BY OthersSame DEF EngineStep
<1> QED
  BY <1>1, <1>2, <1>3 DEF SameAt, SameLeft, Left

\* What an engine does with its messages: read them, obey the next one, or
\* neither.  It refuses none, as each fits.
LEMMA EngineObeys ==
  ASSUME PoolTypeOK, ServingInv, NEW g \in GPUs, NEW w \in Workers, Follows(g, w),
         EngineStep(g, w)
  PROVE  \/ PollControl(g, w)
         \/ (SameLeft(g, w) \/ ObeysOne(g, w)) /\ UNCHANGED worker_sock
<1> USE DEF ServingInv, ServingTypeOK
<1> DEFINE q == todo[g][w]
<1>0. /\ q \in Seq(ControlReqs) /\ activated[g][w] \in BOOLEAN /\ draining[g][w] \in BOOLEAN
      /\ draining[g][w] => ~activated[g][w] /\ q # <<>>
      /\ Fits(Left(g, w), activated[g][w])
  BY DEF EngineTypeOK, EngineInv, DrainsForMessage, Follows
<1>a. ASSUME NEW type, NextIs(g, w, type)
      PROVE  /\ q # <<>> /\ Head(q) = q[1] /\ q[1].type = type /\ ~draining[g][w]
             /\ Left(g, w) = q
             /\ type = IF activated[g][w] THEN "deactivate" ELSE "activate"
  <2>1. q # <<>> /\ Head(q) = q[1] /\ q[1].type = type /\ ~draining[g][w] /\ Left(g, w) = q
    BY <1>0, <1>a DEF NextIs, Left
  <2> QED
    BY <1>0, <2>1 DEF Fits
<1>1. CASE HandleActivateRequest(g, w)
  <2>1. /\ q # <<>> /\ Head(q) = q[1] /\ q[1].type = "activate" /\ ~draining[g][w]
        /\ Left(g, w) = q /\ ~activated[g][w]
    BY <1>1, <1>a DEF HandleActivateRequest
  <2>2. /\ todo'[g][w] = Tail(q) /\ activated'[g][w] = TRUE /\ draining'[g][w] = draining[g][w]
        /\ hosted'[g][w] = q[1].model /\ UNCHANGED worker_sock
    BY <1>1, <2>1 DEF HandleActivateRequest, Obeyed, EngineTypeOK, poolVars
  <2>3. Left(g, w)' = Tail(q)
    BY <2>1, <2>2 DEF Left
  <2> QED
    BY <1>0, <2>1, <2>2, <2>3 DEF ObeysOne
<1>2. CASE RefuseDeactivateRequest(g, w)
  BY <1>2, <1>a DEF RefuseDeactivateRequest
<1>3. CASE HandleDeactivateRequest(g, w)
  <2>1. /\ q # <<>> /\ Head(q) = q[1] /\ q[1].type = "deactivate" /\ ~draining[g][w]
        /\ Left(g, w) = q
    BY <1>3, <1>a DEF HandleDeactivateRequest
  <2>2. activated'[g][w] = FALSE /\ UNCHANGED worker_sock
    BY <1>3 DEF HandleDeactivateRequest, EngineTypeOK, poolVars
  <2>3. Left(g, w)' = Tail(q)
    <3>1. \/ UNCHANGED todo /\ draining' = [draining EXCEPT ![g][w] = TRUE]
          \/ UNCHANGED draining /\ todo' = [todo EXCEPT ![g][w] = Tail(@)]
      BY <1>3, Zenon DEF HandleDeactivateRequest, Obeyed
    <3>2. CASE UNCHANGED todo /\ draining' = [draining EXCEPT ![g][w] = TRUE]
      BY <2>1, <3>2 DEF EngineTypeOK, Left
    <3>3. CASE UNCHANGED draining /\ todo' = [todo EXCEPT ![g][w] = Tail(@)]
      BY <2>1, <3>3 DEF EngineTypeOK, Left
    <3> QED
      BY <3>1, <3>2, <3>3
  <2> QED
    BY <1>0, <2>1, <2>2, <2>3 DEF ObeysOne
<1>4. CASE CompleteDeactivation(g, w)
  <2>1. /\ draining[g][w] /\ draining'[g][w] = FALSE /\ todo'[g][w] = Tail(q)
        /\ UNCHANGED <<activated, hosted, worker_sock>>
    BY <1>4 DEF CompleteDeactivation, Obeyed, EngineTypeOK, poolVars
  <2> QED
    BY <2>1 DEF SameLeft, Left
<1>5. CASE Generation(g, w)
  BY <1>5 DEF Generation, RecvGenerationRequests, StartRunning, Retract, Finish, poolVars,
              SameLeft, Left
<1> QED
  BY <1>1, <1>2, <1>3, <1>4, <1>5 DEF EngineStep, Control

\* At most two messages are read at once; then none is dropped.
SmallReads == \A g \in GPUs, w \in Workers : Len(worker_sock[g][w]) <= 2

\* A worker that reads its messages selects them all, in the order they came.
LEMMA PollFollows ==
  ASSUME PoolInv, ServingInv, SmallReads, NEW g \in GPUs, NEW w \in Workers, Follows(g, w),
         PollControl(g, w)
  PROVE  Follows(g, w)'
<1> USE DEF ServingInv, ServingTypeOK
<1> DEFINE q == worker_sock[g][w]
<1>1. /\ q \in Seq(ControlReqs) /\ q # <<>> /\ Len(q) <= 2 /\ todo[g][w] = <<>>
      /\ activated[g][w] \in BOOLEAN /\ ~draining[g][w]
  BY DEF PollControl, DrainSocket, SmallReads, PoolInv, PoolTypeOK, EngineTypeOK, EngineInv,
         DrainsForMessage
<1>2. /\ worker_sock'[g][w] = <<>> /\ todo'[g][w] = Selected(q, activated[g][w])
      /\ UNCHANGED <<model_to_worker, free_workers, activated, hosted, draining>>
  BY DEF PollControl, DrainSocket, PoolInv, PoolTypeOK, EngineTypeOK
<1>3. Left(g, w) = <<>> /\ EndsActive(g, w) = activated[g][w]
  BY <1>1 DEF Left, EndsActive
<1>4. AlternateTypes(q) /\ Fits(q, activated[g][w])
  BY <1>3 DEF PoolInv, SocketAlternates, Alternates, AlternateTypes, Follows
<1>5. Selected(q, activated[g][w]) = q
  <2> HIDE DEF q
  <2> QED
    BY <1>1, <1>4, SelectedAll
<1>6. Left(g, w)' = q /\ activated'[g][w] = activated[g][w]
  BY <1>1, <1>2, <1>5 DEF Left
<1>7. EndsActive(g, w)' = Activates(q) /\ EndModel(g, w)' = q[Len(q)].model
  BY <1>1, <1>6 DEF EndsActive, EndModel
<1>8. IF Activates(q) THEN q[Len(q)].model \in Models /\ model_to_worker[g][q[Len(q)].model] = w
                      ELSE w \in ToSet(free_workers[g])
  <2>1. Len(q) \in Nat /\ Len(q) # 0
    BY <1>1
  <2>2. q[Len(q)] \in ControlReqs
    BY <1>1, <2>1
  <2> QED
    BY <1>1, <2>2, NamesModel DEF Activates, PoolInv, SocketAlternates, LastAgrees
<1>9. Fits(worker_sock'[g][w], EndsActive(g, w)')
  BY <1>2 DEF Fits
<1> QED
  BY <1>2, <1>4, <1>6, <1>7, <1>8, <1>9 DEF Follows

\* Every step keeps every worker on its way to where the pool has it.
LEMMA FollowedStep ==
  ASSUME PoolInv, ServingInv, SmallReads, Followed, [Next]_vars
  PROVE  Followed'
<1>1. ASSUME UNCHANGED <<poolVars, engineVars>> PROVE Followed'
  <2>1. \A g \in GPUs, w \in Workers : SamePool(g, w) /\ SameLeft(g, w)
    BY <1>1 DEF SamePool, SameLeft, Left, poolVars, engineVars
  <2> QED
    BY <1>1, <2>1, SameFollows DEF Followed, poolVars
<1>2. CASE UNCHANGED vars
  BY <1>1, <1>2 DEF vars
<1>3. ASSUME NEW r \in Reqs, Generate(r) PROVE Followed'
  BY <1>1, <1>3 DEF Generate
<1>4. ASSUME NEW g \in GPUs, NEW m \in Models, Activate(g, m) \/ Deactivate(g, m)
      PROVE  Followed'
  BY <1>1, <1>4 DEF Activate, Deactivate, Call
<1>5. ASSUME NEW g \in GPUs, SchedulerStep(g) PROVE Followed'
  <2>0. ASSUME UNCHANGED poolVars PROVE Followed'
    BY <1>1, <1>5, <2>0 DEF SchedulerStep
  <2>1. ASSUME NEW type, Obeys(g, type)
        PROVE  Head(handler_sock[g]) \in ControlReqs /\ Head(handler_sock[g]).type = type
    BY <2>1, HeadTail DEF Obeys, ServingInv, HandlerInv
  <2>2. CASE HandleDeactivate(g)
    BY <1>5, <2>0, <2>1, <2>2, AssignFollows DEF HandleDeactivate, SchedulerStep
  <2>3. CASE HandleActivate(g)
    BY <1>5, <2>0, <2>1, <2>3, AssignFollows DEF HandleActivate, SchedulerStep
  <2>4. CASE \/ RecvFromFrontendQueue(g) \/ MarkModel(g) \/ RecvFromEngine(g)
             \/ HandleReport(g) \/ ReportsHandled(g) \/ SchedulingLoop(g)
    BY <2>0, <2>4 DEF RecvFromFrontendQueue, MarkModel, RecvFromEngine, HandleReport,
       ReportsHandled, SchedulingLoop, ReadBackendLens, AdmissionControl, EndAdmission,
       SendToBackendQueue
  <2> QED
    BY <1>5, <2>2, <2>3, <2>4 DEF SchedulerStep, Receiver
<1>6. ASSUME NEW g \in GPUs, NEW w \in Workers, EngineStep(g, w) PROVE Followed'
  <2>1. SUFFICES ASSUME NEW h \in GPUs, NEW v \in Workers PROVE Follows(h, v)'
    BY DEF Followed
  <2>2. Follows(h, v) /\ Follows(g, w) /\ PoolTypeOK
    BY DEF Followed, PoolInv
  <2>3. SamePool(h, v)
    BY <1>6 DEF SamePool, EngineStep, Control, PollControl, HandleActivateRequest,
       RefuseDeactivateRequest, HandleDeactivateRequest, CompleteDeactivation, Generation,
       RecvGenerationRequests, StartRunning, Retract, Finish, poolVars
  <2>4. CASE <<h, v>> # <<g, w>>
    <3>1. worker_sock'[h][v] = worker_sock[h][v] /\ SameLeft(h, v)
      BY <1>6, <2>2, <2>4, OthersLeft
    <3> QED
      BY <2>2, <2>3, <3>1, SameFollows
  <2>5. CASE <<h, v>> = <<g, w>>
    <3>1. CASE PollControl(g, w)
      BY <2>2, <2>5, <3>1, PollFollows
    <3>2. CASE (SameLeft(g, w) \/ ObeysOne(g, w)) /\ UNCHANGED worker_sock
      BY <2>2, <2>3, <2>5, <3>2, SameFollows, ObeyFollows
    <3> QED
      BY <1>6, <2>2, <3>1, <3>2, EngineObeys
  <2> QED
    BY <2>4, <2>5
<1> QED
  BY <1>2, <1>3, <1>4, <1>5, <1>6 DEF Next

\* A worker starts where the pool has it, with nothing to obey.
LEMMA FollowedInit == Init => Followed /\ SmallReads
<1> SUFFICES ASSUME Init PROVE Followed /\ SmallReads
  OBVIOUS
<1>0. AlternateTypes(<<>>) /\ \A b : Fits(<<>>, b)
  BY DEF AlternateTypes, Fits
<1>1. ASSUME NEW g \in GPUs, NEW w \in Workers PROVE Follows(g, w)
  <2> DEFINE n == Len(InitPlacement[g])
  <2>1. /\ worker_sock[g][w] = <<>> /\ todo[g][w] = <<>> /\ draining[g][w] = FALSE
        /\ activated[g][w] = (w < n)
        /\ hosted[g][w] = IF w < n THEN InitPlacement[g][w + 1] ELSE NoModel
    BY DEF Init, PoolInit, EngineInit
  <2>2. Left(g, w) = <<>> /\ EndsActive(g, w) = (w < n) /\ EndModel(g, w) = hosted[g][w]
    BY <2>1 DEF Left, EndsActive, EndModel
  <2>3. CASE w < n
    <3>1. /\ InitPlacement[g] \in Seq(Models) /\ w + 1 \in 1 .. n /\ (w + 1) - 1 = w
          /\ IsInjective(InitPlacement[g]) /\ DOMAIN InitPlacement[g] = 1 .. n
      BY <2>3, PlacementAssumption, PartiesAssumption DEF Workers
    <3> DEFINE m == InitPlacement[g][w + 1]
    <3>2. m \in Models /\ m \in ToSet(InitPlacement[g])
      BY <3>1 DEF ToSet
    <3>3. (CHOOSE i \in DOMAIN InitPlacement[g] : InitPlacement[g][i] = m) = w + 1
      BY <3>1 DEF IsInjective
    <3>4. model_to_worker[g][m] = w
      BY <3>1, <3>2, <3>3 DEF Init, PoolInit
    <3> QED
      BY <1>0, <2>1, <2>2, <2>3, <3>2, <3>4 DEF Follows
  <2>4. CASE ~(w < n)
    <3>1. ASSUME NEW m \in Models PROVE model_to_worker[g][m] # w
      <4>1. CASE m \in ToSet(InitPlacement[g])
        <5> DEFINE i == CHOOSE i \in DOMAIN InitPlacement[g] : InitPlacement[g][i] = m
        <5>1. DOMAIN InitPlacement[g] = 1 .. n /\ n \in Nat
          BY PlacementAssumption
        <5>2. i \in 1 .. n
          BY <4>1, <5>1 DEF ToSet
        <5>3. model_to_worker[g][m] = i - 1
          BY <4>1 DEF Init, PoolInit
        <5> HIDE DEF i
        <5> QED
          BY <2>4, <5>1, <5>2, <5>3, PartiesAssumption DEF Workers
      <4>2. CASE m \notin ToSet(InitPlacement[g])
        BY <4>2, PartiesAssumption DEF Init, PoolInit
      <4> QED
        BY <4>1, <4>2
    <3>2. w \in ToSet(free_workers[g])
      BY <3>1, InitInv DEF Init, PoolPartition, FreeIffIdle
    <3> QED
      BY <1>0, <2>1, <2>2, <2>4, <3>2 DEF Follows
  <2> QED
    BY <2>3, <2>4
<1>2. SmallReads
  BY DEF SmallReads, Init, PoolInit
<1> QED
  BY <1>1, <1>2 DEF Followed

\* A worker with nothing left to read or obey is where the pool has it.
LEMMA FollowedIdle == ServingInv /\ Followed => WorkerFollowsPool
<1> SUFFICES ASSUME ServingInv, Followed, NEW g \in GPUs, NEW w \in Workers, Idle(g, w)
             PROVE  IF activated[g][w]
                    THEN hosted[g][w] \in Models /\ model_to_worker[g][hosted[g][w]] = w
                    ELSE w \in ToSet(free_workers[g])
  BY DEF WorkerFollowsPool
<1>1. worker_sock[g][w] = <<>> /\ todo[g][w] = <<>> /\ ~draining[g][w]
  BY DEF Idle, ServingInv, ServingTypeOK, EngineTypeOK, EngineInv, DrainsForMessage
<1>2. EndsActive(g, w) = activated[g][w] /\ EndModel(g, w) = hosted[g][w]
  BY <1>1 DEF Left, EndsActive, EndModel
<1> QED
  BY <1>1, <1>2 DEF Followed, Follows
-------------------------------------------------------------------------------
(* Workers that read before more than two messages have come *)

FewUnread ==
  \A g \in GPUs, w \in Workers : Len(worker_sock[g][w]) + Len(handler_sock[g]) <= MaxUnread

\* Callers wait while a worker has that much to read.
LEMMA FewUnreadStep ==
  ASSUME PoolInv, ServingInv, FewUnread, [Next]_vars
  PROVE  FewUnread'
<1>0. /\ MaxUnread \in Nat
      /\ \A g \in GPUs : handler_sock[g] \in Seq(ControlReqs) /\ Len(handler_sock[g]) \in Nat
      /\ \A g \in GPUs, w \in Workers :
           worker_sock[g][w] \in Seq(ControlReqs) /\ Len(worker_sock[g][w]) \in Nat
  BY CallersAssumption DEF PoolInv, PoolTypeOK, ServingInv, HandlerInv
<1>1. ASSUME UNCHANGED <<worker_sock, handler_sock>> PROVE FewUnread'
  BY <1>1 DEF FewUnread
<1>2. CASE UNCHANGED vars
  BY <1>1, <1>2 DEF vars, poolVars, schedVars
<1>3. ASSUME NEW r \in Reqs, Generate(r) PROVE FewUnread'
  BY <1>1, <1>3 DEF Generate, poolVars, schedVars
<1>4. ASSUME NEW g \in GPUs, NEW m \in Models, Activate(g, m) \/ Deactivate(g, m)
      PROVE  FewUnread'
  <2>1. PICK req \in ControlReqs : Call(g, req)
    BY <1>4, CallTyped DEF Activate, Deactivate
  <2>2. /\ \A w \in Workers : Len(worker_sock[g][w]) + Len(handler_sock[g]) < MaxUnread
        /\ handler_sock' = [handler_sock EXCEPT ![g] = Append(@, req)]
        /\ UNCHANGED worker_sock
    BY <2>1 DEF Call, poolVars
  <2>3. Len(Append(handler_sock[g], req)) = Len(handler_sock[g]) + 1
    BY <1>0
  <2>4. /\ Len(handler_sock'[g]) = Len(handler_sock[g]) + 1
        /\ \A h \in GPUs : h # g => handler_sock'[h] = handler_sock[h]
    BY <2>2, <2>3 DEF ServingInv, HandlerInv
  <2>5. ASSUME NEW h \in GPUs, NEW v \in Workers
        PROVE  Len(worker_sock[h][v]) + Len(handler_sock'[h]) <= MaxUnread
    <3>1. CASE h = g
      <4>1. Len(worker_sock[g][v]) + Len(handler_sock[g]) < MaxUnread
        BY <2>2
      <4>2. \A k, l, n \in Nat : k + l < n => k + (l + 1) <= n
        OBVIOUS
      <4> QED
        BY <1>0, <2>4, <3>1, <4>1, <4>2
    <3>2. CASE h # g
      BY <2>4, <3>2 DEF FewUnread
    <3> QED
      BY <3>1, <3>2
  <2> QED
    BY <2>2, <2>5 DEF FewUnread
<1>5. ASSUME NEW g \in GPUs, SchedulerStep(g) PROVE FewUnread'
  <2>1. ASSUME NEW type, Obeys(g, type),
               \/ \E req \in ControlReqs : AssignAndActivate(g, req)
               \/ \E req \in ControlReqs : ReleaseAndDeactivate(g, req)
               \/ UNCHANGED poolVars
        PROVE  FewUnread'
    <3>1. /\ handler_sock[g] # <<>>
          /\ handler_sock' = [handler_sock EXCEPT ![g] = Tail(@)]
      BY <2>1 DEF Obeys, ServingInv, HandlerInv
    <3>2. Len(Tail(handler_sock[g])) = Len(handler_sock[g]) - 1
      BY <1>0, <3>1
    <3>3. /\ Len(handler_sock'[g]) = Len(handler_sock[g]) - 1
          /\ \A h \in GPUs : h # g => handler_sock'[h] = handler_sock[h]
      BY <3>1, <3>2 DEF ServingInv, HandlerInv
    <3>4. ASSUME NEW v \in Workers
          PROVE  Len(worker_sock'[g][v]) \in {Len(worker_sock[g][v]), Len(worker_sock[g][v]) + 1}
      <4>1. CASE UNCHANGED poolVars
        BY <4>1 DEF poolVars
      <4>2. ASSUME NEW req \in ControlReqs,
                   worker_sock'[g][v] = Append(worker_sock[g][v], req)
            PROVE  Len(worker_sock'[g][v]) = Len(worker_sock[g][v]) + 1
        BY <1>0, <4>2
      <4>3. CASE \E req \in ControlReqs : AssignAndActivate(g, req)
        BY <4>2, <4>3, AssignEffect
      <4>4. CASE \E req \in ControlReqs : ReleaseAndDeactivate(g, req)
        BY <4>2, <4>4, ReleaseEffect
      <4> QED
        BY <2>1, <4>1, <4>3, <4>4
    <3>5. \A h \in GPUs : h # g => worker_sock'[h] = worker_sock[h]
      BY <2>1, AssignEffect, ReleaseEffect DEF poolVars
    <3>6. ASSUME NEW h \in GPUs, NEW v \in Workers
          PROVE  Len(worker_sock'[h][v]) + Len(handler_sock'[h]) <= MaxUnread
      <4>1. CASE h = g
        <5>1. Len(worker_sock[g][v]) + Len(handler_sock[g]) <= MaxUnread
          BY DEF FewUnread
        <5>2. \A k, l, n \in Nat : k + l <= n => k + (l - 1) <= n /\ (k + 1) + (l - 1) <= n
          OBVIOUS
        <5> QED
          BY <1>0, <3>3, <3>4, <4>1, <5>1, <5>2
      <4>2. CASE h # g
        BY <3>3, <3>5, <4>2 DEF FewUnread
      <4> QED
        BY <4>1, <4>2
    <3> QED
      BY <3>6 DEF FewUnread
  <2>2. ASSUME NEW type, Obeys(g, type) PROVE Head(handler_sock[g]) \in ControlReqs
    BY <2>2, HeadTail DEF Obeys, ServingInv, HandlerInv
  <2>3. CASE HandleDeactivate(g)
    BY <2>1, <2>2, <2>3 DEF HandleDeactivate
  <2>4. CASE HandleActivate(g)
    BY <2>1, <2>2, <2>4 DEF HandleActivate
  <2>5. CASE \/ RecvFromFrontendQueue(g) \/ MarkModel(g) \/ RecvFromEngine(g)
             \/ HandleReport(g) \/ ReportsHandled(g) \/ SchedulingLoop(g)
    BY <1>1, <2>5 DEF RecvFromFrontendQueue, MarkModel, RecvFromEngine, HandleReport,
       ReportsHandled, SchedulingLoop, ReadBackendLens, AdmissionControl, EndAdmission,
       SendToBackendQueue, poolVars
  <2> QED
    BY <1>5, <2>3, <2>4, <2>5 DEF SchedulerStep, Receiver
<1>6. ASSUME NEW g \in GPUs, NEW w \in Workers, EngineStep(g, w) PROVE FewUnread'
  <2>1. UNCHANGED handler_sock
    BY <1>6 DEF EngineStep, schedVars
  <2>2. ASSUME NEW h \in GPUs, NEW v \in Workers
        PROVE  worker_sock'[h][v] = worker_sock[h][v] \/ worker_sock'[h][v] = <<>>
    <3>1. UNCHANGED worker_sock \/ worker_sock' = [worker_sock EXCEPT ![g][w] = <<>>]
      BY <1>6 DEF EngineStep, Control, PollControl, HandleActivateRequest,
         RefuseDeactivateRequest, HandleDeactivateRequest, CompleteDeactivation, Generation,
         RecvGenerationRequests, StartRunning, Retract, Finish, DrainSocket, poolVars
    <3> QED
      BY <3>1 DEF PoolInv, PoolTypeOK
  <2>3. Len(<<>>) = 0
    OBVIOUS
  <2>4. ASSUME NEW h \in GPUs, NEW v \in Workers
        PROVE  Len(worker_sock'[h][v]) + Len(handler_sock[h]) <= MaxUnread
    <3>1. Len(worker_sock'[h][v]) \in {Len(worker_sock[h][v]), 0}
      BY <2>2, <2>3
    <3>2. Len(worker_sock[h][v]) + Len(handler_sock[h]) <= MaxUnread
      BY DEF FewUnread
    <3>3. \A k, l, n \in Nat : k + l <= n => 0 + l <= n
      OBVIOUS
    <3> QED
      BY <1>0, <3>1, <3>2, <3>3
  <2> QED
    BY <2>1, <2>4 DEF FewUnread
<1> QED
  BY <1>2, <1>3, <1>4, <1>5, <1>6 DEF Next

\* A worker that never has more than two messages to read ends up, whenever it
\* has obeyed all of them, with the model the pool gave it, or deactivated and
\* in the queue of idle workers: although the pool hands it out again before it
\* has deactivated, and callers may contradict each other.
THEOREM WorkersFollow == MaxUnread <= 2 /\ Spec => []WorkerFollowsPool
<1> DEFINE Types == PoolTypeOK /\ HandlerInv /\ (ServingTypeOK /\ EngineInv)
           Pool == PoolTypeOK /\ PoolPartition /\ SocketAlternates
           Inv == MaxUnread <= 2 /\ FewUnread /\ Followed
<1>1. FewUnread /\ ServingInv /\ PoolTypeOK /\ MaxUnread <= 2 => SmallReads
  <2> SUFFICES ASSUME FewUnread, ServingInv, PoolTypeOK, MaxUnread <= 2,
                      NEW g \in GPUs, NEW w \in Workers
               PROVE  Len(worker_sock[g][w]) <= 2
    BY DEF SmallReads
  <2>1. Len(worker_sock[g][w]) \in Nat /\ Len(handler_sock[g]) \in Nat /\ MaxUnread \in Nat
    BY CallersAssumption DEF PoolTypeOK, ServingInv, HandlerInv
  <2>2. \A k, l, n \in Nat : k + l <= n /\ n <= 2 => k <= 2
    OBVIOUS
  <2>3. Len(worker_sock[g][w]) + Len(handler_sock[g]) <= MaxUnread
    BY DEF FewUnread
  <2> QED
    BY <2>1, <2>2, <2>3
<1>2. MaxUnread <= 2 /\ Init => Inv
  BY FollowedInit, CallersAssumption DEF FewUnread, Init, PoolInit, SchedInit
<1>3. Types /\ Pool /\ Inv /\ [Next]_vars => Inv'
  BY <1>1, FewUnreadStep, FollowedStep DEF PoolInv, ServingInv
<1>4. Types /\ Inv => WorkerFollowsPool
  BY FollowedIdle DEF ServingInv
<1> QED
  BY <1>2, <1>3, <1>4, TypesHold, ServingPool, PTL DEF Spec
-------------------------------------------------------------------------------
(* Lists of messages, and the models they name *)

Names(q) == {q[i].model : i \in DOMAIN q}
Distinct(q) == \A i, j \in DOMAIN q : q[i].model = q[j].model => i = j

\* What the state of a model says while a message about it is under way.
ChangingState(x) == IF x.type = "activate" THEN "activating" ELSE "deactivating"
Told(states, q) == \A i \in DOMAIN q : states[q[i].model] = ChangingState(q[i])
AllSucceed(q) == \A i \in DOMAIN q : q[i].success

\* A message at the end of a list is named with the others.
LEMMA NamesAppend ==
  ASSUME NEW S, NEW q \in Seq(S), NEW x \in S
  PROVE  /\ Names(Append(q, x)) = Names(q) \cup {x.model}
         /\ Distinct(q) /\ x.model \notin Names(q) => Distinct(Append(q, x))
         /\ \A i \in DOMAIN Append(q, x) :
              \/ i \in DOMAIN q /\ Append(q, x)[i] = q[i]
              \/ i = Len(q) + 1 /\ Append(q, x)[i] = x
<1> DEFINE a == Append(q, x)
           n == Len(q)
<1>1. /\ n \in Nat /\ DOMAIN q = 1 .. n /\ DOMAIN a = 1 .. n + 1
      /\ \A i \in 1 .. n : a[i] = q[i]
      /\ a[n + 1] = x /\ n + 1 \in 1 .. n + 1
  OBVIOUS
<1>2. \A i \in 1 .. n + 1 : i \in 1 .. n \/ i = n + 1
  BY <1>1
<1>3. \A i \in 1 .. n : i \in 1 .. n + 1
  BY <1>1
<1> HIDE DEF a, n
<1>4. Names(a) = Names(q) \cup {x.model}
  BY <1>1, <1>2, <1>3 DEF Names
<1>5. Distinct(q) /\ x.model \notin Names(q) => Distinct(a)
  BY <1>1, <1>2 DEF Distinct, Names
<1> QED
  BY <1>1, <1>2, <1>4, <1>5 DEF a, n

\* The first message of a list is named no more once it is taken.
LEMMA NamesTail ==
  ASSUME NEW S, NEW q \in Seq(S), q # <<>>, Distinct(q)
  PROVE  /\ Head(q) \in S /\ Head(q) = q[1] /\ 1 \in DOMAIN q /\ q[1].model \in Names(q)
         /\ Tail(q) \in Seq(S)
         /\ Names(Tail(q)) = Names(q) \ {q[1].model} /\ Distinct(Tail(q))
         /\ \A i \in DOMAIN Tail(q) : /\ i + 1 \in DOMAIN q /\ i + 1 # 1
                                      /\ Tail(q)[i] = q[i + 1]
<1> DEFINE t == Tail(q)
           n == Len(q)
<1>1. /\ n \in Nat /\ n # 0 /\ DOMAIN q = 1 .. n /\ 1 \in 1 .. n
      /\ Head(q) \in S /\ Head(q) = q[1] /\ t \in Seq(S) /\ DOMAIN t = 1 .. n - 1
      /\ \A i \in 1 .. n - 1 : t[i] = q[i + 1]
  OBVIOUS
<1> HIDE DEF t, n
<1>2. \A i \in 1 .. n - 1 : i + 1 \in 1 .. n /\ i + 1 # 1
  BY <1>1
<1>3. \A i \in 1 .. n : i = 1 \/ (i - 1 \in 1 .. n - 1 /\ (i - 1) + 1 = i)
  BY <1>1
<1>4. Names(t) \subseteq Names(q) \ {q[1].model}
  <2> SUFFICES ASSUME NEW i \in 1 .. n - 1
               PROVE  t[i].model \in Names(q) /\ t[i].model # q[1].model
    BY <1>1 DEF Names
  <2>1. t[i] = q[i + 1] /\ i + 1 \in 1 .. n /\ i + 1 # 1
    BY <1>1, <1>2
  <2> QED
    BY <1>1, <2>1 DEF Names, Distinct
<1>5. Names(q) \ {q[1].model} \subseteq Names(t)
  <2> SUFFICES ASSUME NEW i \in 1 .. n, q[i].model # q[1].model PROVE q[i].model \in Names(t)
    BY <1>1 DEF Names
  <2>1. i - 1 \in 1 .. n - 1 /\ t[i - 1] = q[i]
    BY <1>1, <1>3
  <2> QED
    BY <1>1, <2>1 DEF Names
<1>6. Distinct(t)
  <2> SUFFICES ASSUME NEW i \in 1 .. n - 1, NEW j \in 1 .. n - 1, t[i].model = t[j].model
               PROVE  i = j
    BY <1>1 DEF Distinct
  <2>1. /\ i + 1 \in 1 .. n /\ t[i] = q[i + 1]
        /\ j + 1 \in 1 .. n /\ t[j] = q[j + 1]
    BY <1>1, <1>2
  <2>2. i + 1 = j + 1
    BY <1>1, <2>1 DEF Distinct
  <2> QED
    BY <2>2
<1> QED
  BY <1>1, <1>2, <1>4, <1>5, <1>6 DEF Names, t

\* A model no message names may change its state.
LEMMA ToldElsewhere ==
  ASSUME NEW q, NEW S, NEW R, Told(S, q), \A m \in Names(q) : R[m] = S[m]
  PROVE  Told(R, q)
BY DEF Told, Names
-------------------------------------------------------------------------------
(* Where the change of a model is *)

\* The receiver has marked model m and not obeyed the message yet.
Marked(g, m) == rpc[g] = "obey" /\ Head(handler_sock[g]).model = m
Settled(g) ==
  {m \in Models : model_states[g][m] \in {"activated", "deactivated"} \/ Marked(g, m)}

\* A model is settled, named by a message to a worker, or named by a report.
Stages ==
  ({"sock", "todo"} \X Workers) \cup ({"settled", "engine_out", "reports"} \X {"scheduler"})
Spread(settled, sock, list, out, read) ==
  [p \in Stages |->
     CASE p[1] = "settled" -> settled
       [] p[1] = "sock" -> sock[p[2]]
       [] p[1] = "todo" -> list[p[2]]
       [] p[1] = "engine_out" -> out
       [] p[1] = "reports" -> read]
Changing(g) ==
  Spread(Settled(g), [w \in Workers |-> Names(worker_sock[g][w])],
         [w \in Workers |-> Names(todo[g][w])], Names(engine_out[g]), Names(reports[g]))

OneStage(K) == \A m \in Models : \E p \in Stages : \A i \in Stages : m \in K[i] <=> i = p

\* Each stage, and what is in it.
LEMMA StagesAre ==
  /\ <<"settled", "scheduler">> \in Stages
  /\ <<"engine_out", "scheduler">> \in Stages /\ <<"reports", "scheduler">> \in Stages
  /\ \A w \in Workers : <<"sock", w>> \in Stages /\ <<"todo", w>> \in Stages
BY DEF Stages

\* What a distribution of changes over the stages is at each stage.
LEMMA SpreadIs ==
  ASSUME NEW A, NEW B, NEW C, NEW D, NEW E
  PROVE  /\ Spread(A, B, C, D, E)[<<"settled", "scheduler">>] = A
         /\ Spread(A, B, C, D, E)[<<"engine_out", "scheduler">>] = D
         /\ Spread(A, B, C, D, E)[<<"reports", "scheduler">>] = E
         /\ \A w \in Workers : /\ Spread(A, B, C, D, E)[<<"sock", w>>] = B[w]
                               /\ Spread(A, B, C, D, E)[<<"todo", w>>] = C[w]
BY StagesAre DEF Spread

\* There are no others.
LEMMA StageCases ==
  ASSUME NEW p \in Stages
  PROVE  \/ p \in {<<"settled", "scheduler">>, <<"engine_out", "scheduler">>,
                   <<"reports", "scheduler">>}
         \/ \E w \in Workers : p = <<"sock", w>> \/ p = <<"todo", w>>
BY DEF Stages

\* Models of one stage enter another.
Enters(K, L, from, to, moved) ==
  /\ from \in Stages /\ to \in Stages /\ from # to /\ moved \subseteq K[from]
  /\ L[from] = K[from] \ moved /\ L[to] = K[to] \cup moved
  /\ \A p \in Stages \ {from, to} : L[p] = K[p]

\* That leaves each of them in one.
LEMMA EnterKeeps ==
  ASSUME NEW K, NEW L, OneStage(K), NEW from, NEW to, NEW moved, Enters(K, L, from, to, moved)
  PROVE  OneStage(L)
<1> USE DEF Enters
<1> SUFFICES ASSUME NEW m \in Models
             PROVE  \E p \in Stages : \A i \in Stages : m \in L[i] <=> i = p
  BY DEF OneStage
<1>1. PICK p \in Stages : \A i \in Stages : m \in K[i] <=> i = p
  BY DEF OneStage
<1>2. CASE m \in moved
  <2>1. p = from
    BY <1>1, <1>2
  <2>2. \A i \in Stages : m \in L[i] <=> i = to
    BY <1>1, <1>2, <2>1
  <2> QED
    BY <2>2
<1>3. CASE m \notin moved
  <2>1. \A i \in Stages : m \in L[i] <=> m \in K[i]
    BY <1>3
  <2> QED
    BY <1>1, <2>1
<1> QED
  BY <1>2, <1>3

\* A model in one stage is in no other.
LEMMA OnlyThere ==
  ASSUME NEW K, OneStage(K), NEW m \in Models, NEW p \in Stages, m \in K[p]
  PROVE  \A q \in Stages : q # p => m \notin K[q]
BY DEF OneStage

\* What the stages of a GPU are, before and after a step.
LEMMA ChangingIs ==
  ASSUME NEW g \in GPUs
  PROVE  /\ Changing(g)[<<"settled", "scheduler">>] = Settled(g)
         /\ Changing(g)[<<"engine_out", "scheduler">>] = Names(engine_out[g])
         /\ Changing(g)[<<"reports", "scheduler">>] = Names(reports[g])
         /\ \A w \in Workers : /\ Changing(g)[<<"sock", w>>] = Names(worker_sock[g][w])
                               /\ Changing(g)[<<"todo", w>>] = Names(todo[g][w])
BY SpreadIs DEF Changing

\* The changes under way after a step, by stage.
LEMMA ChangingWillBe ==
  ASSUME NEW g \in GPUs
  PROVE  /\ Changing(g)'[<<"settled", "scheduler">>] = Settled(g)'
         /\ Changing(g)'[<<"engine_out", "scheduler">>] = Names(engine_out'[g])
         /\ Changing(g)'[<<"reports", "scheduler">>] = Names(reports'[g])
         /\ \A w \in Workers : /\ Changing(g)'[<<"sock", w>>] = Names(worker_sock'[g][w])
                               /\ Changing(g)'[<<"todo", w>>] = Names(todo'[g][w])
BY SpreadIs DEF Changing

\* A step that changes only these stages.
LEMMA StagesSame ==
  ASSUME NEW g \in GPUs, NEW except,
         <<"settled", "scheduler">> \notin except => Settled(g)' = Settled(g),
         <<"engine_out", "scheduler">> \notin except => engine_out'[g] = engine_out[g],
         <<"reports", "scheduler">> \notin except => reports'[g] = reports[g],
         \A w \in Workers : <<"sock", w>> \notin except => worker_sock'[g][w] = worker_sock[g][w],
         \A w \in Workers : <<"todo", w>> \notin except => todo'[g][w] = todo[g][w]
  PROVE  \A p \in Stages \ except : Changing(g)'[p] = Changing(g)[p]
<1> SUFFICES ASSUME NEW p \in Stages, p \notin except PROVE Changing(g)'[p] = Changing(g)[p]
  OBVIOUS
<1>1. CASE p \in {<<"settled", "scheduler">>, <<"engine_out", "scheduler">>,
                 <<"reports", "scheduler">>}
  BY <1>1, ChangingIs, ChangingWillBe
<1>2. ASSUME NEW w \in Workers, p = <<"sock", w>> PROVE Changing(g)'[p] = Changing(g)[p]
  <2>1. /\ Changing(g)[<<"sock", w>>] = Names(worker_sock[g][w])
        /\ Changing(g)'[<<"sock", w>>] = Names(worker_sock'[g][w])
    BY ChangingIs, ChangingWillBe
  <2> QED
    BY <1>2, <2>1
<1>3. ASSUME NEW w \in Workers, p = <<"todo", w>> PROVE Changing(g)'[p] = Changing(g)[p]
  <2>1. /\ Changing(g)[<<"todo", w>>] = Names(todo[g][w])
        /\ Changing(g)'[<<"todo", w>>] = Names(todo'[g][w])
    BY ChangingIs, ChangingWillBe
  <2> QED
    BY <1>3, <2>1
<1> QED
  BY <1>1, <1>2, <1>3, StageCases

\* A model that no change is under way of is named by no message but a call's.
LEMMA SettledNotNamed ==
  ASSUME NEW g \in GPUs, OneStage(Changing(g)), NEW m \in Settled(g)
  PROVE  /\ \A w \in Workers : m \notin Names(worker_sock[g][w]) /\ m \notin Names(todo[g][w])
         /\ m \notin Names(engine_out[g]) /\ m \notin Names(reports[g])
<1>1. m \in Models
  BY DEF Settled
<1>2. \A q \in Stages : q # <<"settled", "scheduler">> => m \notin Changing(g)[q]
  BY <1>1, ChangingIs, StagesAre, OnlyThere
<1>3. /\ <<"engine_out", "scheduler">> # <<"settled", "scheduler">>
      /\ <<"reports", "scheduler">> # <<"settled", "scheduler">>
      /\ \A w : <<"sock", w>> # <<"settled", "scheduler">>
      /\ \A w : <<"todo", w>> # <<"settled", "scheduler">>
  OBVIOUS
<1> QED
  BY <1>2, <1>3, ChangingIs, StagesAre
-------------------------------------------------------------------------------
(* The invariant of orderly callers *)

StateBefore(x) == IF x.type = "activate" THEN "deactivated" ELSE "activated"

\* A call names a model whose state it changes; the call being obeyed has
\* changed it, and the pool can do what it asks for.
CallsFit(g) ==
  \A i \in DOMAIN handler_sock[g] :
    LET x == handler_sock[g][i] IN
    IF rpc[g] = "obey" /\ i = 1
    THEN /\ model_states[g][x.model] = ChangingState(x)
         /\ Served(g, x.model) <=> x.type = "deactivate"
    ELSE model_states[g][x.model] = StateBefore(x)

\* The scheduler pulls requests for the models with a worker.
StatesAgree(g) ==
  \A m \in Models : Marked(g, m) \/ (Served(g, m) <=> m \in CanReceive(g))

NothingNamedTwice(g) ==
  /\ \A w \in Workers : Distinct(worker_sock[g][w]) /\ Distinct(todo[g][w])
  /\ Distinct(engine_out[g]) /\ Distinct(reports[g]) /\ Distinct(handler_sock[g])
ChangesTold(g) ==
  /\ \A w \in Workers : /\ Told(model_states[g], worker_sock[g][w])
                        /\ Told(model_states[g], todo[g][w])
  /\ Told(model_states[g], engine_out[g]) /\ Told(model_states[g], reports[g])
  /\ AllSucceed(engine_out[g]) /\ AllSucceed(reports[g])
ReportsInTurn(g) == rpc[g] # "engine" => reports[g] = <<>>

\* A model's change is in one stage, and in one message there; the model's state
\* says which change; calls, states and pool agree.
Ordered(g) ==
  /\ OneStage(Changing(g)) /\ NothingNamedTwice(g) /\ ChangesTold(g)
  /\ CallsFit(g) /\ StatesAgree(g) /\ ReportsInTurn(g)

\* What of a GPU's state is part of it.
OrderSame(g) ==
  /\ rpc'[g] = rpc[g] /\ handler_sock'[g] = handler_sock[g]
  /\ model_states'[g] = model_states[g] /\ model_to_worker'[g] = model_to_worker[g]
  /\ worker_sock'[g] = worker_sock[g] /\ todo'[g] = todo[g]
  /\ engine_out'[g] = engine_out[g] /\ reports'[g] = reports[g]

\* A step that leaves the changes of a GPU alone keeps their order.
LEMMA SameOrdered ==
  ASSUME NEW g \in GPUs, Ordered(g), OrderSame(g)
  PROVE  Ordered(g)'
<1>1. Settled(g)' = Settled(g)
  BY DEF OrderSame, Settled, Marked
<1>2. Changing(g)' = Changing(g)
  BY <1>1 DEF OrderSame, Changing
<1>3. NothingNamedTwice(g)' /\ ChangesTold(g)'
  BY DEF OrderSame, Ordered, NothingNamedTwice, ChangesTold
<1>4. CallsFit(g)' /\ StatesAgree(g)' /\ ReportsInTurn(g)'
  BY DEF OrderSame, Ordered, CallsFit, Served, StatesAgree, Marked, CanReceive, ReportsInTurn
<1> QED
  BY <1>2, <1>3, <1>4 DEF Ordered

\* A call that keeps the order is for a model that no change is under way of.
LEMMA CallOrdered ==
  ASSUME Orderly, ServingInv, NEW g \in GPUs, Ordered(g), NEW req \in ControlReqs,
         Call(g, req)
  PROVE  Ordered(g)'
<1> DEFINE q == handler_sock[g]
<1>1. /\ q \in Seq(ControlReqs) /\ handler_sock'[g] = Append(q, req)
      /\ rpc' = rpc /\ model_states' = model_states /\ reports' = reports
      /\ UNCHANGED <<model_to_worker, worker_sock, engine_out, todo>>
      /\ rpc[g] = "obey" => q # <<>>
  BY DEF Call, ServingInv, HandlerInv, poolVars, redisVars, engineVars
<1>2. model_states[g][req.model] = StateBefore(req) /\ req.model \notin Names(q)
  BY DEF Call, InOrder, StateBefore, Names
<1>3. /\ Distinct(q) => Distinct(Append(q, req))
      /\ \A i \in DOMAIN Append(q, req) : \/ i \in DOMAIN q /\ Append(q, req)[i] = q[i]
                                          \/ i = Len(q) + 1 /\ Append(q, req)[i] = req
  <2> HIDE DEF q
  <2> QED
    BY <1>1, <1>2, NamesAppend
<1>4. q # <<>> => /\ Len(q) + 1 # 1
                  /\ Head(Append(q, req)) = Head(q)
  <2> HIDE DEF q
  <2>1. Len(q) \in Nat /\ (q # <<>> => Len(q) # 0)
    BY <1>1
  <2>2. Append(q, req) # <<>> /\ Head(Append(q, req)) = Append(q, req)[1]
    BY <1>1
  <2> QED
    BY <1>1, <2>1, <2>2, AppendFirst
<1>5. \A m : Marked(g, m)' <=> Marked(g, m)
  BY <1>1, <1>4 DEF Marked
<1>6. Settled(g)' = Settled(g)
  BY <1>1, <1>5 DEF Settled
<1>7. Changing(g)' = Changing(g)
  BY <1>1, <1>6 DEF Changing
<1>8. NothingNamedTwice(g)' /\ ChangesTold(g)' /\ StatesAgree(g)' /\ ReportsInTurn(g)'
  BY <1>1, <1>3, <1>5 DEF Ordered, NothingNamedTwice, ChangesTold, StatesAgree, CanReceive,
                          Served, ReportsInTurn
<1>9. CallsFit(g)'
  <2> SUFFICES ASSUME NEW i \in DOMAIN Append(q, req)
               PROVE  LET x == Append(q, req)[i] IN
                      IF rpc[g] = "obey" /\ i = 1
                      THEN /\ model_states[g][x.model] = ChangingState(x)
                           /\ Served(g, x.model) <=> x.type = "deactivate"
                      ELSE model_states[g][x.model] = StateBefore(x)
    BY <1>1 DEF CallsFit, Served
  <2>1. CASE i \in DOMAIN q /\ Append(q, req)[i] = q[i]
    BY <2>1 DEF Ordered, CallsFit
  <2>2. CASE i = Len(q) + 1 /\ Append(q, req)[i] = req
    BY <1>1, <1>2, <1>4, <2>2
  <2> QED
    BY <1>3, <2>1, <2>2
<1> QED
  BY <1>7, <1>8, <1>9 DEF Ordered

\* The messages of a GPU name models.
LEMMA ListsNameModels ==
  ASSUME ServingInv, NEW g \in GPUs
  PROVE  /\ \A w \in Workers : /\ Names(worker_sock[g][w]) \subseteq Models
                               /\ Names(todo[g][w]) \subseteq Models
         /\ Names(engine_out[g]) \subseteq Models /\ Names(reports[g]) \subseteq Models
<1>1. /\ \A w \in Workers : /\ worker_sock[g][w] \in Seq(ControlReqs)
                            /\ todo[g][w] \in Seq(ControlReqs)
      /\ engine_out[g] \in Seq(ReqOutputs) /\ reports[g] \in Seq(ReqOutputs)
  BY DEF ServingInv, PoolTypeOK, ServingTypeOK, EngineTypeOK, RedisTypeOK, SchedTypeOK
<1>2. ASSUME NEW q \in Seq(ControlReqs) PROVE Names(q) \subseteq Models
  BY NamesModel DEF Names
<1>3. ASSUME NEW q \in Seq(ReqOutputs) PROVE Names(q) \subseteq Models
  <2>1. \A x \in ReqOutputs : x.model \in Models
    BY DEF ReqOutputs
  <2> QED
    BY <2>1 DEF Names
<1> QED
  BY <1>1, <1>2, <1>3

\* Marking a model changes its state while no message but the call names it.
LEMMA MarkOrdered ==
  ASSUME ServingInv, NEW g \in GPUs, Ordered(g), MarkModel(g), UNCHANGED todo
  PROVE  Ordered(g)'
<1> DEFINE q == handler_sock[g]
           x == q[1]
           m == x.model
<1>1. /\ q \in Seq(ControlReqs) /\ q # <<>> /\ rpc[g] = "handler" /\ rpc'[g] = "obey"
      /\ UNCHANGED <<handler_sock, model_to_worker, worker_sock, engine_out, reports>>
      /\ Head(q) = x /\ 1 \in DOMAIN q /\ x \in ControlReqs /\ m \in Models
  BY NamesModel DEF MarkModel, ServingInv, HandlerInv, poolVars, redisVars
<1>2. /\ model_states'[g][m] = ChangingState(x)
      /\ \A o \in Models : o # m => model_states'[g][o] = model_states[g][o]
  BY <1>1 DEF MarkModel, SetModelState, ChangingState, ServingInv, ServingTypeOK, SchedTypeOK
<1>3. model_states[g][m] = StateBefore(x)
  BY <1>1 DEF Ordered, CallsFit
<1>4. /\ \A o : ~Marked(g, o)
      /\ \A o : Marked(g, o)' <=> o = m
  BY <1>1 DEF Marked
<1>5. Settled(g)' = Settled(g) /\ m \in Settled(g)
  BY <1>1, <1>2, <1>3, <1>4 DEF Settled, StateBefore
<1>6. Changing(g)' = Changing(g)
  BY <1>1, <1>5 DEF Changing
<1>7. NothingNamedTwice(g)' /\ ReportsInTurn(g)'
  BY <1>1 DEF Ordered, NothingNamedTwice, ReportsInTurn
<1>8. ChangesTold(g)'
  <2>1. /\ \A w \in Workers : m \notin Names(worker_sock[g][w]) /\ m \notin Names(todo[g][w])
        /\ m \notin Names(engine_out[g]) /\ m \notin Names(reports[g])
    BY <1>5, SettledNotNamed DEF Ordered
  <2>2. ASSUME NEW list, Told(model_states[g], list), m \notin Names(list),
               Names(list) \subseteq Models
        PROVE  Told(model_states'[g], list)
    BY <1>2, <2>2, ToldElsewhere
  <2> QED
    BY <1>1, <2>1, <2>2, ListsNameModels DEF Ordered, ChangesTold
<1>9. CallsFit(g)'
  <2> SUFFICES ASSUME NEW i \in DOMAIN q
               PROVE  IF i = 1
                      THEN /\ model_states'[g][q[i].model] = ChangingState(q[i])
                           /\ Served(g, q[i].model) <=> q[i].type = "deactivate"
                      ELSE model_states'[g][q[i].model] = StateBefore(q[i])
    BY <1>1 DEF CallsFit, Served
  <2>1. CASE i = 1
    <3>1. Served(g, m) <=> m \in CanReceive(g)
      BY <1>1, <1>4 DEF Ordered, StatesAgree
    <3>2. x.type \in {"activate", "deactivate"}
      BY <1>1 DEF ControlReqs
    <3> QED
      BY <1>1, <1>2, <1>3, <2>1, <3>1, <3>2 DEF CanReceive, StateBefore
  <2>2. CASE i # 1
    <3>1. q[i].model # m /\ q[i].model \in Models
      BY <1>1, <2>2, NamesModel DEF Ordered, NothingNamedTwice, Distinct
    <3>2. model_states[g][q[i].model] = StateBefore(q[i])
      BY <2>2 DEF Ordered, CallsFit
    <3> QED
      BY <1>2, <2>2, <3>1, <3>2
  <2> QED
    BY <2>1, <2>2
<1>10. StatesAgree(g)'
  <2> SUFFICES ASSUME NEW o \in Models, o # m
               PROVE  Served(g, o) <=> model_states'[g][o] \in {"activating", "activated"}
    BY <1>1, <1>4 DEF StatesAgree, Served, CanReceive
  <2>1. Served(g, o) <=> o \in CanReceive(g)
    BY <1>4 DEF Ordered, StatesAgree
  <2> QED
    BY <1>2, <2>1 DEF CanReceive
<1> QED
  BY <1>6, <1>7, <1>8, <1>9, <1>10 DEF Ordered

\* Obeying the first call leaves the calls behind it as they are.
LEMMA CallsBehind ==
  ASSUME ServingInv, NEW g \in GPUs, Ordered(g), NEW type, Obeys(g, type)
  PROVE  LET x == handler_sock[g][1] IN
         /\ x \in ControlReqs /\ x = Head(handler_sock[g]) /\ x.type = type
         /\ x.model \in Models
         /\ model_states[g][x.model] = ChangingState(x)
         /\ Served(g, x.model) <=> type = "deactivate"
         /\ x.model \in Settled(g) /\ \A m : Marked(g, m) <=> m = x.model
         /\ rpc'[g] = "handler" /\ \A m : ~Marked(g, m)'
         /\ Distinct(handler_sock'[g])
         /\ \A i \in DOMAIN handler_sock'[g] :
              LET y == handler_sock'[g][i] IN
              /\ y.model \in Models /\ y.model # x.model
              /\ model_states[g][y.model] = StateBefore(y)
<1> DEFINE q == handler_sock[g]
           x == q[1]
<1>1. /\ q \in Seq(ControlReqs) /\ q # <<>> /\ rpc[g] = "obey" /\ Distinct(q)
      /\ Head(q).type = type
      /\ handler_sock'[g] = Tail(q) /\ rpc'[g] = "handler"
  BY DEF Obeys, ServingInv, HandlerInv, Ordered, NothingNamedTwice
<1>2. /\ Head(q) = x /\ x \in ControlReqs /\ 1 \in DOMAIN q
      /\ Distinct(Tail(q))
      /\ \A i \in DOMAIN Tail(q) : i + 1 \in DOMAIN q /\ i + 1 # 1 /\ Tail(q)[i] = q[i + 1]
  <2> HIDE DEF q
  <2> QED
    BY <1>1, NamesTail
<1>3. /\ model_states[g][x.model] = ChangingState(x)
      /\ Served(g, x.model) <=> type = "deactivate"
  BY <1>1, <1>2 DEF Ordered, CallsFit
<1>4. ASSUME NEW i \in DOMAIN Tail(q)
      PROVE  /\ Tail(q)[i].model \in Models /\ Tail(q)[i].model # x.model
             /\ model_states[g][Tail(q)[i].model] = StateBefore(Tail(q)[i])
  <2>1. /\ i + 1 \in DOMAIN q /\ i + 1 # 1 /\ Tail(q)[i] = q[i + 1]
        /\ q[i + 1] \in ControlReqs
    BY <1>1, <1>2
  <2>2. model_states[g][q[i + 1].model] = StateBefore(q[i + 1])
    BY <2>1 DEF Ordered, CallsFit
  <2>3. q[i + 1].model # x.model
    BY <1>1, <1>2, <2>1 DEF Distinct
  <2> QED
    BY <2>1, <2>2, <2>3, NamesModel
<1>5. x.model \in Models /\ \A m : (Marked(g, m) <=> m = x.model) /\ ~Marked(g, m)'
  BY <1>1, <1>2, NamesModel DEF Marked
<1>6. x.model \in Settled(g)
  BY <1>5 DEF Settled
<1> QED
  BY <1>1, <1>2, <1>3, <1>4, <1>5, <1>6

\* The pool sends a call on to a worker: the model leaves the settled ones.
LEMMA SendOrdered ==
  ASSUME PoolInv, ServingInv, NEW g \in GPUs, Ordered(g),
         \/ /\ Obeys(g, "activate") /\ AssignAndActivate(g, Head(handler_sock[g]))
         \/ /\ Obeys(g, "deactivate") /\ ReleaseAndDeactivate(g, Head(handler_sock[g])),
         UNCHANGED <<model_states, engine_out, reports, todo>>
  PROVE  Ordered(g)'
<1> DEFINE x == handler_sock[g][1]
           m == x.model
<1>0. PICK type \in {"activate", "deactivate"} : Obeys(g, type)
  OBVIOUS
<1>1. /\ x \in ControlReqs /\ x = Head(handler_sock[g]) /\ x.type = type /\ m \in Models
      /\ model_states[g][m] = ChangingState(x)
      /\ m \in Settled(g) /\ \A o : Marked(g, o) <=> o = m
      /\ rpc'[g] = "handler" /\ \A o : ~Marked(g, o)'
      /\ Distinct(handler_sock'[g])
      /\ \A i \in DOMAIN handler_sock'[g] :
           /\ handler_sock'[g][i].model \in Models /\ handler_sock'[g][i].model # m
           /\ model_states[g][handler_sock'[g][i].model] = StateBefore(handler_sock'[g][i])
  BY <1>0, CallsBehind
<1>2. PICK w \in Workers :
        /\ worker_sock'[g][w] = Append(worker_sock[g][w], x)
        /\ \A v \in Workers : v # w => worker_sock'[g][v] = worker_sock[g][v]
        /\ model_to_worker'[g][m] # NoWorker <=> type = "activate"
        /\ \A o \in Models : o # m => model_to_worker'[g][o] = model_to_worker[g][o]
  <2>1. CASE Obeys(g, "activate") /\ AssignAndActivate(g, Head(handler_sock[g]))
    BY <1>0, <1>1, <2>1, AssignEffect, PartiesAssumption DEF Obeys
  <2>2. CASE Obeys(g, "deactivate") /\ ReleaseAndDeactivate(g, Head(handler_sock[g]))
    BY <1>0, <1>1, <2>2, ReleaseEffect DEF Obeys
  <2> QED
    BY <2>1, <2>2
<1> DEFINE q == worker_sock[g][w]
<1>3. m \notin Names(q)
  BY <1>1, SettledNotNamed DEF Ordered
<1>4. /\ Names(Append(q, x)) = Names(q) \cup {m}
      /\ Distinct(q) => Distinct(Append(q, x))
      /\ Told(model_states[g], q) => Told(model_states[g], Append(q, x))
  <2>1. q \in Seq(ControlReqs)
    BY DEF PoolInv, PoolTypeOK
  <2>2. /\ Names(Append(q, x)) = Names(q) \cup {m}
        /\ Distinct(q) => Distinct(Append(q, x))
        /\ \A i \in DOMAIN Append(q, x) : \/ i \in DOMAIN q /\ Append(q, x)[i] = q[i]
                                          \/ i = Len(q) + 1 /\ Append(q, x)[i] = x
    <3> HIDE DEF q, x
    <3> QED
      BY <1>1, <1>3, <2>1, NamesAppend DEF x
  <2>3. Told(model_states[g], q) => Told(model_states[g], Append(q, x))
    BY <1>1, <2>2 DEF Told
  <2> QED
    BY <2>2, <2>3
<1>5. Settled(g)' = Settled(g) \ {m}
  BY <1>1 DEF Settled, ChangingState
<1> DEFINE K == Changing(g)
           L == Changing(g)'
           A == <<"settled", "scheduler">>
           B == <<"sock", w>>
<1>6. OneStage(L)
  <2>1. K[A] = Settled(g) /\ K[B] = Names(q)
    BY ChangingIs
  <2>a. L[A] = Settled(g)' /\ L[B] = Names(worker_sock'[g][w])
    BY ChangingWillBe
  <2>b. L[B] = Names(q) \cup {m}
    BY <1>2, <1>4, <2>a
  <2>2. \A p \in Stages \ {A, B} : L[p] = K[p]
    <3>1. A \in {A, B}
      OBVIOUS
    <3>2. \A v \in Workers : <<"sock", v>> \notin {A, B} => v # w
      OBVIOUS
    <3> QED
      BY <1>2, <3>1, <3>2, StagesSame
  <2>3. A \in Stages /\ B \in Stages /\ A # B
    BY StagesAre
  <2>4. Enters(K, L, A, B, {m})
    <3> HIDE DEF K, L, A, B
    <3> QED
      BY <1>1, <1>5, <2>1, <2>a, <2>b, <2>2, <2>3 DEF Enters
  <2> QED
    BY <2>4, EnterKeeps DEF Ordered
<1>7. NothingNamedTwice(g)'
  BY <1>1, <1>2, <1>4 DEF Ordered, NothingNamedTwice
<1>8. ChangesTold(g)'
  BY <1>2, <1>4 DEF Ordered, ChangesTold
<1>9. CallsFit(g)'
  BY <1>1 DEF CallsFit
<1>10. StatesAgree(g)'
  <2>1. ASSUME NEW o \in Models, o # m PROVE Served(g, o)' <=> o \in CanReceive(g)'
    BY <1>1, <1>2, <2>1 DEF Ordered, StatesAgree, Served, CanReceive
  <2>2. ASSUME NEW o \in Models, o = m PROVE Served(g, o)' <=> o \in CanReceive(g)'
    BY <1>1, <1>2, <2>2 DEF Served, CanReceive, ChangingState
  <2> QED
    BY <2>1, <2>2 DEF StatesAgree
<1>11. ReportsInTurn(g)'
  BY <1>0 DEF Obeys, Ordered, ReportsInTurn
<1> QED
  BY <1>6, <1>7, <1>8, <1>9, <1>10, <1>11 DEF Ordered

\* No worker is idle: the model is settled again.
LEMMA RefusedOrdered ==
  ASSUME ServingInv, NEW g \in GPUs, Ordered(g), Obeys(g, "activate"),
         SetModelState(g, Head(handler_sock[g]).model, "deactivated"),
         UNCHANGED <<model_to_worker, worker_sock, engine_out, reports, todo>>
  PROVE  Ordered(g)'
<1> DEFINE x == handler_sock[g][1]
           m == x.model
<1>1. /\ x \in ControlReqs /\ x = Head(handler_sock[g]) /\ m \in Models
      /\ ~Served(g, m)
      /\ m \in Settled(g) /\ \A o : Marked(g, o) <=> o = m
      /\ rpc'[g] = "handler" /\ \A o : ~Marked(g, o)'
      /\ Distinct(handler_sock'[g])
      /\ \A i \in DOMAIN handler_sock'[g] :
           /\ handler_sock'[g][i].model \in Models /\ handler_sock'[g][i].model # m
           /\ model_states[g][handler_sock'[g][i].model] = StateBefore(handler_sock'[g][i])
  BY CallsBehind
<1>2. /\ model_states'[g][m] = "deactivated"
      /\ \A o \in Models : o # m => model_states'[g][o] = model_states[g][o]
  BY <1>1 DEF SetModelState, ServingInv, ServingTypeOK, SchedTypeOK
<1>3. Settled(g)' = Settled(g)
  BY <1>1, <1>2 DEF Settled
<1>4. Changing(g)' = Changing(g)
  BY <1>3 DEF Changing
<1>5. NothingNamedTwice(g)' /\ ReportsInTurn(g)'
  BY <1>1 DEF Ordered, NothingNamedTwice, Obeys, ReportsInTurn
<1>6. ChangesTold(g)'
  <2>1. /\ \A w \in Workers : m \notin Names(worker_sock[g][w]) /\ m \notin Names(todo[g][w])
        /\ m \notin Names(engine_out[g]) /\ m \notin Names(reports[g])
    BY <1>1, SettledNotNamed DEF Ordered
  <2>2. ASSUME NEW list, Told(model_states[g], list), m \notin Names(list),
               Names(list) \subseteq Models
        PROVE  Told(model_states'[g], list)
    BY <1>2, <2>2, ToldElsewhere
  <2> QED
    BY <2>1, <2>2, ListsNameModels DEF Ordered, ChangesTold
<1>7. CallsFit(g)'
  BY <1>1, <1>2 DEF CallsFit
<1>8. StatesAgree(g)'
  <2>1. ASSUME NEW o \in Models, o # m PROVE Served(g, o)' <=> o \in CanReceive(g)'
    BY <1>1, <1>2, <2>1 DEF Ordered, StatesAgree, Served, CanReceive
  <2>2. ASSUME NEW o \in Models, o = m PROVE Served(g, o)' <=> o \in CanReceive(g)'
    BY <1>1, <1>2, <2>2 DEF Served, CanReceive
  <2> QED
    BY <2>1, <2>2 DEF StatesAgree
<1> QED
  BY <1>4, <1>5, <1>6, <1>7, <1>8 DEF Ordered

\* The receiver takes over all reports at once.
LEMMA ReadOrdered ==
  ASSUME NEW g \in GPUs, Ordered(g), rpc[g] = "handler", rpc'[g] = "engine",
         reports'[g] = engine_out[g], engine_out'[g] = <<>>,
         UNCHANGED <<model_states, handler_sock, model_to_worker, worker_sock, todo>>
  PROVE  Ordered(g)'
<1>1. reports[g] = <<>> /\ Names(<<>>) = {}
  BY DEF Ordered, ReportsInTurn, Names
<1>2. \A m : ~Marked(g, m) /\ ~Marked(g, m)'
  BY DEF Marked
<1>3. Settled(g)' = Settled(g)
  BY <1>2 DEF Settled
<1> DEFINE K == Changing(g)
           L == Changing(g)'
           A == <<"engine_out", "scheduler">>
           B == <<"reports", "scheduler">>
<1>4. OneStage(L)
  <2>1. K[A] = Names(engine_out[g]) /\ K[B] = {}
    BY <1>1, ChangingIs
  <2>2. L[A] = {} /\ L[B] = Names(engine_out[g])
    BY <1>1, ChangingWillBe
  <2>3. \A p \in Stages \ {A, B} : L[p] = K[p]
    <3>1. A \in {A, B} /\ B \in {A, B}
      OBVIOUS
    <3> QED
      BY <1>3, <3>1, StagesSame
  <2>4. A \in Stages /\ B \in Stages /\ A # B
    BY StagesAre
  <2>5. Enters(K, L, A, B, Names(engine_out[g]))
    <3> HIDE DEF K, L, A, B
    <3> QED
      BY <2>1, <2>2, <2>3, <2>4 DEF Enters
  <2> QED
    BY <2>5, EnterKeeps DEF Ordered
<1>5. NothingNamedTwice(g)'
  BY DEF Ordered, NothingNamedTwice, Distinct
<1>6. ChangesTold(g)'
  BY DEF Ordered, ChangesTold, Told, AllSucceed
<1>7. CallsFit(g)'
  BY DEF Ordered, CallsFit, Served
<1>8. StatesAgree(g)'
  BY <1>2 DEF Ordered, StatesAgree, Served, CanReceive
<1> QED
  BY <1>4, <1>5, <1>6, <1>7, <1>8 DEF Ordered, ReportsInTurn

\* A report read settles its model: the state it sets is the one the change led to.
LEMMA ReportOrdered ==
  ASSUME ServingInv, NEW g \in GPUs, Ordered(g), HandleReport(g), UNCHANGED todo
  PROVE  Ordered(g)'
<1> DEFINE q == reports[g]
           x == q[1]
           m == x.model
<1>1. /\ q \in Seq(ReqOutputs) /\ q # <<>> /\ rpc[g] = "engine" /\ Distinct(q)
      /\ UNCHANGED <<rpc, handler_sock, model_to_worker, worker_sock, engine_out>>
      /\ reports'[g] = Tail(q)
  BY DEF HandleReport, ServingInv, ServingTypeOK, SchedTypeOK, Ordered, NothingNamedTwice,
         poolVars, redisVars
<1>2. /\ Head(q) = x /\ x \in ReqOutputs /\ 1 \in DOMAIN q /\ m \in Names(q)
      /\ Names(Tail(q)) = Names(q) \ {m} /\ Distinct(Tail(q))
      /\ \A i \in DOMAIN Tail(q) : i + 1 \in DOMAIN q /\ Tail(q)[i] = q[i + 1]
  <2> HIDE DEF q
  <2> QED
    BY <1>1, NamesTail
<1>3. /\ m \in Models /\ x.success /\ x.type \in {"activate", "deactivate"}
      /\ model_states[g][m] = ChangingState(x)
  BY <1>2 DEF ReqOutputs, Ordered, ChangesTold, Told, AllSucceed
<1>4. /\ model_states'[g][m] = IF x.type = "activate" THEN "activated" ELSE "deactivated"
      /\ \A o \in Models : o # m => model_states'[g][o] = model_states[g][o]
  BY <1>2, <1>3 DEF HandleReport, SetModelState, ServingInv, ServingTypeOK, SchedTypeOK
<1>5. \A o : ~Marked(g, o) /\ ~Marked(g, o)'
  BY <1>1 DEF Marked
<1>6. Settled(g)' = Settled(g) \cup {m} /\ m \notin Settled(g)
  BY <1>3, <1>4, <1>5 DEF Settled, ChangingState
<1> DEFINE K == Changing(g)
           L == Changing(g)'
           A == <<"reports", "scheduler">>
           B == <<"settled", "scheduler">>
<1>a. K[A] = Names(q)
  BY ChangingIs
<1>b. A \in Stages /\ B \in Stages /\ A # B
  BY StagesAre
<1>7. OneStage(L)
  <2>1. K[B] = Settled(g)
    BY ChangingIs
  <2>2. L[A] = Names(reports'[g]) /\ L[B] = Settled(g)'
    BY ChangingWillBe
  <2>3. \A p \in Stages \ {A, B} : L[p] = K[p]
    <3>1. A \in {A, B} /\ B \in {A, B}
      OBVIOUS
    <3> QED
      BY <1>1, <3>1, StagesSame
  <2>4. L[A] = Names(q) \ {m}
    BY <1>1, <1>2, <2>2
  <2>5. Enters(K, L, A, B, {m})
    <3> HIDE DEF K, L, A, B
    <3> QED
      BY <1>2, <1>6, <1>a, <1>b, <2>1, <2>2, <2>3, <2>4 DEF Enters
  <2> QED
    BY <2>5, EnterKeeps DEF Ordered
<1>8. NothingNamedTwice(g)'
  BY <1>1, <1>2 DEF Ordered, NothingNamedTwice
<1>9. /\ \A w \in Workers : m \notin Names(worker_sock[g][w]) /\ m \notin Names(todo[g][w])
      /\ m \notin Names(engine_out[g]) /\ m \notin Names(reports'[g])
  <2>1. \A p \in Stages : p # A => m \notin K[p]
    <3> HIDE DEF K, A, m
    <3> QED
      BY <1>2, <1>3, <1>a, <1>b, OnlyThere DEF Ordered, K
  <2>2. ASSUME NEW w \in Workers
        PROVE  m \notin Names(worker_sock[g][w]) /\ m \notin Names(todo[g][w])
    <3>1. <<"sock", w>> \in Stages /\ <<"todo", w>> \in Stages
      BY StagesAre
    <3>2. <<"sock", w>> # A /\ <<"todo", w>> # A
      OBVIOUS
    <3>3. m \notin K[<<"sock", w>>] /\ m \notin K[<<"todo", w>>]
      BY <2>1, <3>1, <3>2
    <3>4. K[<<"sock", w>>] = Names(worker_sock[g][w]) /\ K[<<"todo", w>>] = Names(todo[g][w])
      BY ChangingIs
    <3> QED
      BY <3>3, <3>4
  <2>3. m \notin Names(engine_out[g])
    <3>1. <<"engine_out", "scheduler">> \in Stages /\ <<"engine_out", "scheduler">> # A
      BY StagesAre
    <3>2. m \notin K[<<"engine_out", "scheduler">>]
      BY <2>1, <3>1
    <3>3. K[<<"engine_out", "scheduler">>] = Names(engine_out[g])
      BY ChangingIs
    <3> QED
      BY <3>2, <3>3
  <2>4. m \notin Names(reports'[g])
    BY <1>1, <1>2
  <2> QED
    BY <2>2, <2>3, <2>4
<1>10. ChangesTold(g)'
  <2>1. ASSUME NEW list, Told(model_states[g], list), m \notin Names(list),
               Names(list) \subseteq Models
        PROVE  Told(model_states'[g], list)
    BY <1>4, <2>1, ToldElsewhere
  <2>2. /\ Told(model_states[g], reports'[g]) /\ AllSucceed(reports'[g])
        /\ Names(reports'[g]) \subseteq Models
    <3>1. Names(q) \subseteq Models
      BY ListsNameModels
    <3> QED
      BY <1>1, <1>2, <3>1 DEF Ordered, ChangesTold, Told, AllSucceed
  <2> QED
    BY <1>1, <1>9, <2>1, <2>2, ListsNameModels DEF Ordered, ChangesTold
<1>11. CallsFit(g)'
  <2> SUFFICES ASSUME NEW i \in DOMAIN handler_sock[g]
               PROVE  LET y == handler_sock[g][i] IN
                      model_states'[g][y.model] = StateBefore(y)
    BY <1>1 DEF CallsFit
  <2> DEFINE y == handler_sock[g][i]
  <2>1. model_states[g][y.model] = StateBefore(y)
    BY <1>1 DEF Ordered, CallsFit
  <2>2. y \in ControlReqs /\ y.model \in Models
    BY NamesModel DEF ServingInv, HandlerInv
  <2>3. y.model # m
    BY <1>3, <2>1 DEF StateBefore, ChangingState
  <2> QED
    BY <1>4, <2>1, <2>2, <2>3
<1>12. StatesAgree(g)'
  <2>1. ASSUME NEW o \in Models, o # m PROVE Served(g, o)' <=> o \in CanReceive(g)'
    BY <1>1, <1>4, <1>5, <2>1 DEF Ordered, StatesAgree, Served, CanReceive
  <2>2. ASSUME NEW o \in Models, o = m PROVE Served(g, o)' <=> o \in CanReceive(g)'
    BY <1>1, <1>3, <1>4, <1>5, <2>2 DEF Ordered, StatesAgree, Served, CanReceive, ChangingState
  <2> QED
    BY <2>1, <2>2 DEF StatesAgree
<1> QED
  BY <1>1, <1>7, <1>8, <1>10, <1>11, <1>12 DEF Ordered, ReportsInTurn

\* A worker reads and selects all its messages.
LEMMA PollOrdered ==
  ASSUME NEW g \in GPUs, NEW w \in Workers, Ordered(g),
         todo[g][w] = <<>>, todo'[g][w] = worker_sock[g][w], worker_sock'[g][w] = <<>>,
         \A v \in Workers : v # w => /\ todo'[g][v] = todo[g][v]
                                     /\ worker_sock'[g][v] = worker_sock[g][v],
         UNCHANGED <<rpc, model_states, handler_sock, model_to_worker, engine_out, reports>>
  PROVE  Ordered(g)'
<1>1. Names(<<>>) = {} /\ Distinct(<<>>) /\ Told(model_states[g], <<>>)
  BY DEF Names, Distinct, Told
<1>2. \A m : Marked(g, m)' <=> Marked(g, m)
  BY DEF Marked
<1>3. Settled(g)' = Settled(g)
  BY <1>2 DEF Settled
<1> DEFINE K == Changing(g)
           L == Changing(g)'
           A == <<"sock", w>>
           B == <<"todo", w>>
<1>4. OneStage(L)
  <2>1. K[A] = Names(worker_sock[g][w]) /\ K[B] = Names(todo[g][w])
    BY ChangingIs
  <2>2. L[A] = Names(worker_sock'[g][w]) /\ L[B] = Names(todo'[g][w])
    BY ChangingWillBe
  <2>3. \A p \in Stages \ {A, B} : L[p] = K[p]
    <3>1. \A v \in Workers : <<"sock", v>> \notin {A, B} => v # w
      OBVIOUS
    <3>2. \A v \in Workers : <<"todo", v>> \notin {A, B} => v # w
      OBVIOUS
    <3> QED
      BY <1>3, <3>1, <3>2, StagesSame
  <2>4. A \in Stages /\ B \in Stages /\ A # B
    BY StagesAre
  <2>5. Enters(K, L, A, B, Names(worker_sock[g][w]))
    <3> HIDE DEF K, L, A, B
    <3> QED
      BY <1>1, <2>1, <2>2, <2>3, <2>4 DEF Enters
  <2> QED
    BY <2>5, EnterKeeps DEF Ordered
<1>5. NothingNamedTwice(g)'
  BY <1>1 DEF Ordered, NothingNamedTwice
<1>6. ChangesTold(g)'
  BY <1>1 DEF Ordered, ChangesTold
<1>7. CallsFit(g)' /\ StatesAgree(g)' /\ ReportsInTurn(g)'
  BY <1>2 DEF Ordered, CallsFit, StatesAgree, Served, CanReceive, ReportsInTurn
<1> QED
  BY <1>4, <1>5, <1>6, <1>7 DEF Ordered

\* A worker reports the change it was told to make.
LEMMA ObeyOrdered ==
  ASSUME ServingInv, NEW g \in GPUs, NEW w \in Workers, Ordered(g), todo[g][w] # <<>>,
         Obeyed(g, w), Report(g, Head(todo[g][w]), TRUE),
         UNCHANGED <<rpc, model_states, handler_sock, model_to_worker, worker_sock, reports>>
  PROVE  Ordered(g)'
<1> DEFINE q == todo[g][w]
           x == q[1]
           y == ReqOutput(x, TRUE)
           m == x.model
           e == engine_out[g]
<1>1. /\ q \in Seq(ControlReqs) /\ q # <<>> /\ Distinct(q) /\ e \in Seq(ReqOutputs)
      /\ todo'[g][w] = Tail(q) /\ \A v \in Workers : v # w => todo'[g][v] = todo[g][v]
      /\ engine_out'[g] = Append(e, ReqOutput(Head(q), TRUE))
  BY DEF Obeyed, Report, ServingInv, ServingTypeOK, EngineTypeOK, RedisTypeOK, Ordered,
         NothingNamedTwice
<1>2. /\ Head(q) = x /\ x \in ControlReqs /\ 1 \in DOMAIN q /\ m \in Names(q)
      /\ Names(Tail(q)) = Names(q) \ {m} /\ Distinct(Tail(q))
      /\ \A i \in DOMAIN Tail(q) : i + 1 \in DOMAIN q /\ Tail(q)[i] = q[i + 1]
  <2> HIDE DEF q
  <2> QED
    BY <1>1, NamesTail
<1>3. /\ y \in ReqOutputs /\ y.model = m /\ y.type = x.type /\ y.success
      /\ m \in Models /\ model_states[g][m] = ChangingState(x)
      /\ ChangingState(y) = ChangingState(x)
  <2>1. y \in ReqOutputs /\ y.model = m /\ y.type = x.type /\ y.success
    BY <1>2 DEF ReqOutput, ReqOutputs, ControlReqs
  <2>2. m \in Models /\ model_states[g][m] = ChangingState(x)
    BY <1>2, NamesModel DEF Ordered, ChangesTold, Told
  <2> QED
    BY <2>1, <2>2 DEF ChangingState
<1> DEFINE K == Changing(g)
           L == Changing(g)'
           A == <<"todo", w>>
           B == <<"engine_out", "scheduler">>
<1>a. K[A] = Names(q) /\ K[B] = Names(e)
  BY ChangingIs
<1>b. A \in Stages /\ B \in Stages /\ A # B
  BY StagesAre
<1>4. m \notin Names(e)
  <2> HIDE DEF K, A, B, m
  <2> QED
    BY <1>2, <1>3, <1>a, <1>b, OnlyThere DEF Ordered, K
<1>5. /\ Names(Append(e, y)) = Names(e) \cup {m} /\ (Distinct(e) => Distinct(Append(e, y)))
      /\ Told(model_states[g], e) => Told(model_states[g], Append(e, y))
      /\ AllSucceed(e) => AllSucceed(Append(e, y))
  <2>1. /\ Names(Append(e, y)) = Names(e) \cup {m} /\ (Distinct(e) => Distinct(Append(e, y)))
        /\ \A i \in DOMAIN Append(e, y) : \/ i \in DOMAIN e /\ Append(e, y)[i] = e[i]
                                          \/ i = Len(e) + 1 /\ Append(e, y)[i] = y
    <3> HIDE DEF e, y, m
    <3> QED
      BY <1>1, <1>3, <1>4, NamesAppend
  <2> QED
    BY <1>3, <2>1 DEF Told, AllSucceed
<1>6. Settled(g)' = Settled(g) /\ \A o : Marked(g, o)' <=> Marked(g, o)
  BY DEF Settled, Marked
<1>7. OneStage(L)
  <2>1. L[A] = Names(todo'[g][w]) /\ L[B] = Names(engine_out'[g])
    BY ChangingWillBe
  <2>2. L[A] = Names(q) \ {m} /\ L[B] = Names(e) \cup {m}
    BY <1>1, <1>2, <1>5, <2>1
  <2>3. \A p \in Stages \ {A, B} : L[p] = K[p]
    <3>1. \A v \in Workers : <<"todo", v>> \notin {A, B} => v # w
      OBVIOUS
    <3>2. B \in {A, B}
      OBVIOUS
    <3> QED
      BY <1>1, <1>6, <3>1, <3>2, StagesSame
  <2>4. Enters(K, L, A, B, {m})
    <3> HIDE DEF K, L, A, B
    <3> QED
      BY <1>2, <1>a, <1>b, <2>2, <2>3 DEF Enters
  <2> QED
    BY <2>4, EnterKeeps DEF Ordered
<1>8. NothingNamedTwice(g)'
  BY <1>1, <1>2, <1>5 DEF Ordered, NothingNamedTwice
<1>9. ChangesTold(g)'
  <2>1. Told(model_states[g], q) => Told(model_states[g], Tail(q))
    BY <1>2 DEF Told
  <2> QED
    BY <1>1, <1>2, <1>5, <2>1 DEF Ordered, ChangesTold
<1>10. CallsFit(g)' /\ StatesAgree(g)' /\ ReportsInTurn(g)'
  BY <1>6 DEF Ordered, CallsFit, StatesAgree, Served, CanReceive, ReportsInTurn
<1> QED
  BY <1>7, <1>8, <1>9, <1>10 DEF Ordered

AllOrdered == \A g \in GPUs : Ordered(g)

\* An activation is followed by the deactivation of the same model, and no model
\* is named twice: a worker never has more than two messages to read.
LEMMA OrderedSmall == PoolInv /\ AllOrdered => SmallReads
<1> SUFFICES ASSUME PoolInv, AllOrdered, NEW g \in GPUs, NEW w \in Workers,
                    ~(Len(worker_sock[g][w]) <= 2)
             PROVE  FALSE
  BY DEF SmallReads
<1> DEFINE q == worker_sock[g][w]
<1>1. q \in Seq(ControlReqs) /\ Len(q) \in Nat /\ Alternates(g, w) /\ Distinct(q)
  BY DEF PoolInv, PoolTypeOK, SocketAlternates, AllOrdered, Ordered, NothingNamedTwice
<1>2. /\ 1 \in 1 .. Len(q) - 1 /\ 1 + 1 \in 1 .. Len(q) /\ 1 \in 1 .. Len(q) /\ 1 + 1 # 1
      /\ 2 \in 1 .. Len(q) - 1 /\ 2 + 1 \in 1 .. Len(q) /\ 2 \in 1 .. Len(q) /\ 2 + 1 # 2
      /\ 1 + 1 = 2
  BY <1>1
<1>3. q[1] \in ControlReqs /\ q[2] \in ControlReqs /\ DOMAIN q = 1 .. Len(q)
  BY <1>1, <1>2
<1>4. q[1].type # q[2].type
  BY <1>1, <1>2 DEF Alternates
<1>5. q[1].type = "activate" \/ q[2].type = "activate"
  BY <1>3, <1>4 DEF ControlReqs
<1>6. q[1 + 1].model = q[1].model \/ q[2 + 1].model = q[2].model
  BY <1>1, <1>2, <1>5 DEF Alternates
<1> QED
  BY <1>1, <1>2, <1>3, <1>6 DEF Distinct

\* A step of one GPU leaves the order on the others as it is.
LEMMA SchedulerOrdersOwn ==
  ASSUME PoolInv, ServingInv, NEW g \in GPUs, SchedulerStep(g), NEW h \in GPUs, h # g
  PROVE  OrderSame(h)
<1> USE DEF ServingInv, ServingTypeOK, HandlerInv, RedisTypeOK, SchedTypeOK
<1>1. \/ UNCHANGED poolVars
      \/ \E req \in ControlReqs : AssignAndActivate(g, req) \/ ReleaseAndDeactivate(g, req)
  <2>1. ASSUME NEW type, Obeys(g, type) PROVE Head(handler_sock[g]) \in ControlReqs
    BY <2>1, HeadTail DEF Obeys
  <2> QED
    BY <2>1 DEF SchedulerStep, Receiver, RecvFromFrontendQueue, MarkModel, HandleDeactivate,
       HandleActivate, RecvFromEngine, HandleReport, ReportsHandled, SchedulingLoop,
       ReadBackendLens, AdmissionControl, EndAdmission, SendToBackendQueue
<1>2. worker_sock'[h] = worker_sock[h] /\ model_to_worker'[h] = model_to_worker[h]
  BY <1>1, AssignEffect, ReleaseEffect DEF poolVars
<1>3. rpc'[h] = rpc[h]
  <2>1. UNCHANGED rpc \/ \E s : rpc' = [rpc EXCEPT ![g] = s]
    BY DEF SchedulerStep, Receiver, RecvFromFrontendQueue, MarkModel, HandleDeactivate,
       HandleActivate, RecvFromEngine, HandleReport, ReportsHandled, SchedulingLoop,
       ReadBackendLens, AdmissionControl, EndAdmission, SendToBackendQueue, Obeys
  <2> QED
    BY <2>1
<1>4. handler_sock'[h] = handler_sock[h]
  <2>1. UNCHANGED handler_sock \/ \E s : handler_sock' = [handler_sock EXCEPT ![g] = s]
    BY DEF SchedulerStep, Receiver, RecvFromFrontendQueue, MarkModel, HandleDeactivate,
       HandleActivate, RecvFromEngine, HandleReport, ReportsHandled, SchedulingLoop,
       ReadBackendLens, AdmissionControl, EndAdmission, SendToBackendQueue, Obeys
  <2> QED
    BY <2>1
<1>5. model_states'[h] = model_states[h]
  <2>1. UNCHANGED model_states \/ \E m, s : model_states' = [model_states EXCEPT ![g][m] = s]
    BY DEF SchedulerStep, Receiver, RecvFromFrontendQueue, MarkModel, HandleDeactivate,
       HandleActivate, RecvFromEngine, HandleReport, ReportsHandled, SchedulingLoop,
       ReadBackendLens, AdmissionControl, EndAdmission, SendToBackendQueue, SetModelState
  <2> QED
    BY <2>1
<1>6. engine_out'[h] = engine_out[h] /\ reports'[h] = reports[h]
  <2>1. UNCHANGED engine_out \/ engine_out' = [engine_out EXCEPT ![g] = <<>>]
    BY DEF SchedulerStep, Receiver, RecvFromFrontendQueue, MarkModel, HandleDeactivate,
       HandleActivate, RecvFromEngine, HandleReport, ReportsHandled, SchedulingLoop,
       ReadBackendLens, AdmissionControl, EndAdmission, SendToBackendQueue, redisVars
  <2>2. UNCHANGED reports \/ \E s : reports' = [reports EXCEPT ![g] = s]
    BY DEF SchedulerStep, Receiver, RecvFromFrontendQueue, MarkModel, HandleDeactivate,
       HandleActivate, RecvFromEngine, HandleReport, ReportsHandled, SchedulingLoop,
       ReadBackendLens, AdmissionControl, EndAdmission, SendToBackendQueue
  <2> QED
    BY <2>1, <2>2
<1>7. todo'[h] = todo[h]
  BY DEF SchedulerStep, engineVars
<1> QED
  BY <1>2, <1>3, <1>4, <1>5, <1>6, <1>7 DEF OrderSame

\* A step of an engine leaves the changes of the other GPUs alone.
LEMMA EngineOrdersOwn ==
  ASSUME PoolInv, ServingInv, NEW g \in GPUs, NEW w \in Workers, EngineStep(g, w),
         NEW h \in GPUs, h # g
  PROVE  OrderSame(h)
<1>1. UNCHANGED <<rpc, handler_sock, model_states, reports, model_to_worker>>
  BY DEF EngineStep, Control, PollControl, HandleActivateRequest, RefuseDeactivateRequest,
     HandleDeactivateRequest, CompleteDeactivation, Generation, RecvGenerationRequests,
     StartRunning, Retract, Finish, poolVars, schedVars
<1>2. worker_sock'[h] = worker_sock[h]
  <2>1. UNCHANGED worker_sock \/ worker_sock' = [worker_sock EXCEPT ![g][w] = <<>>]
    BY DEF EngineStep, Control, PollControl, HandleActivateRequest, RefuseDeactivateRequest,
       HandleDeactivateRequest, CompleteDeactivation, Generation, RecvGenerationRequests,
       StartRunning, Retract, Finish, DrainSocket, poolVars
  <2> QED
    BY <2>1 DEF PoolInv, PoolTypeOK
<1>3. todo'[h] = todo[h]
  <2>1. UNCHANGED todo \/ \E q : todo' = [todo EXCEPT ![g][w] = q]
    BY DEF EngineStep, Control, PollControl, HandleActivateRequest, RefuseDeactivateRequest,
           HandleDeactivateRequest, CompleteDeactivation, Generation, RecvGenerationRequests,
           StartRunning, Retract, Finish, Obeyed
  <2> QED
    BY <2>1 DEF ServingInv, ServingTypeOK, EngineTypeOK
<1>4. engine_out'[h] = engine_out[h]
  <2>1. UNCHANGED engine_out \/ \E q : engine_out' = [engine_out EXCEPT ![g] = q]
    BY DEF EngineStep, Control, PollControl, HandleActivateRequest, RefuseDeactivateRequest,
           HandleDeactivateRequest, CompleteDeactivation, Generation, RecvGenerationRequests,
           StartRunning, Retract, Finish, Report, redisVars
  <2> QED
    BY <2>1 DEF ServingInv, ServingTypeOK, RedisTypeOK
<1> QED
  BY <1>1, <1>2, <1>3, <1>4 DEF OrderSame

\* The scheduler keeps the order of its own GPU.
LEMMA SchedulerOrdered ==
  ASSUME PoolInv, ServingInv, NEW g \in GPUs, Ordered(g), SchedulerStep(g)
  PROVE  Ordered(g)'
<1>0. UNCHANGED todo
  BY DEF SchedulerStep, engineVars
<1>1. CASE MarkModel(g)
  BY <1>0, <1>1, MarkOrdered
<1>2. CASE HandleDeactivate(g)
  <2>1. Obeys(g, "deactivate") /\ Served(g, Head(handler_sock[g]).model)
    BY <1>2, CallsBehind DEF HandleDeactivate
  <2>2. /\ ReleaseAndDeactivate(g, Head(handler_sock[g]))
        /\ UNCHANGED <<model_states, engine_out, reports>>
    BY <1>2, <2>1 DEF HandleDeactivate
  <2> QED
    BY <1>0, <2>1, <2>2, SendOrdered
<1>3. CASE HandleActivate(g)
  <2>1. CASE AssignAndActivate(g, Head(handler_sock[g])) /\ UNCHANGED model_states
    BY <1>0, <1>3, <2>1, SendOrdered DEF HandleActivate, redisVars
  <2>2. CASE /\ SetModelState(g, Head(handler_sock[g]).model, "deactivated")
             /\ UNCHANGED poolVars
    BY <1>0, <1>3, <2>2, RefusedOrdered DEF HandleActivate, redisVars, poolVars
  <2> QED
    BY <1>3, <2>1, <2>2 DEF HandleActivate
<1>4. CASE RecvFromEngine(g)
  <2>1. /\ rpc[g] = "handler" /\ rpc'[g] = "engine"
        /\ reports'[g] = engine_out[g] /\ engine_out'[g] = <<>>
        /\ UNCHANGED <<model_states, handler_sock, model_to_worker, worker_sock>>
    BY <1>4 DEF RecvFromEngine, ServingInv, ServingTypeOK, HandlerInv, SchedTypeOK,
                RedisTypeOK, poolVars
  <2> QED
    BY <1>0, <2>1, ReadOrdered
<1>5. CASE HandleReport(g)
  BY <1>0, <1>5, ReportOrdered
<1>6. CASE RecvFromFrontendQueue(g) \/ ReportsHandled(g)
  <2>1. /\ rpc[g] \in {"frontend", "engine"} /\ rpc'[g] \in {"handler", "frontend"}
        /\ rpc[g] = "engine" => reports[g] = <<>>
        /\ UNCHANGED <<handler_sock, model_states, model_to_worker, worker_sock, engine_out,
                       reports>>
    BY <1>6 DEF RecvFromFrontendQueue, ReportsHandled, ServingInv, HandlerInv, poolVars,
                redisVars
  <2>2. \A m : ~Marked(g, m) /\ ~Marked(g, m)'
    BY <2>1 DEF Marked
  <2>3. Settled(g)' = Settled(g)
    BY <2>1, <2>2 DEF Settled
  <2>4. Changing(g)' = Changing(g)
    BY <1>0, <2>1, <2>3 DEF Changing
  <2>5. NothingNamedTwice(g)' /\ ChangesTold(g)'
    BY <1>0, <2>1 DEF Ordered, NothingNamedTwice, ChangesTold
  <2>6. CallsFit(g)' /\ StatesAgree(g)' /\ ReportsInTurn(g)'
    BY <2>1, <2>2 DEF Ordered, CallsFit, StatesAgree, Served, CanReceive, ReportsInTurn
  <2> QED
    BY <2>4, <2>5, <2>6 DEF Ordered
<1>7. CASE SchedulingLoop(g)
  <2>1. OrderSame(g)
    BY <1>0, <1>7 DEF SchedulingLoop, ReadBackendLens, AdmissionControl, EndAdmission,
       SendToBackendQueue, OrderSame, poolVars, redisVars
  <2> QED
    BY <2>1, SameOrdered
<1> QED
  BY <1>1, <1>2, <1>3, <1>4, <1>5, <1>6, <1>7 DEF SchedulerStep, Receiver

\* An engine that obeys keeps it too: all its messages fit, so it reports success.
LEMMA EngineOrdered ==
  ASSUME PoolInv, ServingInv, SmallReads, NEW g \in GPUs, NEW w \in Workers, Follows(g, w),
         Ordered(g), EngineStep(g, w)
  PROVE  Ordered(g)'
<1>0. /\ UNCHANGED <<rpc, model_states, handler_sock, reports, model_to_worker>>
      /\ PoolTypeOK
  BY DEF EngineStep, Control, PollControl, HandleActivateRequest, RefuseDeactivateRequest,
     HandleDeactivateRequest, CompleteDeactivation, Generation, RecvGenerationRequests,
     StartRunning, Retract, Finish, poolVars, schedVars, PoolInv
<1>a. Fits(Left(g, w), activated[g][w]) /\ activated[g][w] \in BOOLEAN
  BY DEF Follows, ServingInv, ServingTypeOK, EngineTypeOK
<1>b. ASSUME NEW type, NextIs(g, w, type)
      PROVE  todo[g][w] # <<>> /\ type = IF activated[g][w] THEN "deactivate" ELSE "activate"
  <2>1. todo[g][w] # <<>> /\ Left(g, w) = todo[g][w] /\ Head(todo[g][w]) = todo[g][w][1]
    BY <1>b DEF NextIs, Left, ServingInv, ServingTypeOK, EngineTypeOK
  <2> QED
    BY <1>a, <1>b, <2>1 DEF Fits, NextIs
<1>1. CASE PollControl(g, w)
  <2> DEFINE q == worker_sock[g][w]
  <2>1. /\ q \in Seq(ControlReqs) /\ q # <<>> /\ Len(q) <= 2 /\ todo[g][w] = <<>>
        /\ ~draining[g][w]
    BY <1>1 DEF PollControl, DrainSocket, SmallReads, PoolInv, PoolTypeOK, ServingInv,
       EngineInv, DrainsForMessage
  <2>2. AlternateTypes(q) /\ Fits(q, activated[g][w])
    BY <2>1 DEF PoolInv, SocketAlternates, Alternates, AlternateTypes, Follows, Left, EndsActive
  <2>3. Selected(q, activated[g][w]) = q
    <3> HIDE DEF q
    <3> QED
      BY <1>a, <2>1, <2>2, SelectedAll
  <2>4. /\ todo'[g][w] = q /\ worker_sock'[g][w] = <<>> /\ UNCHANGED engine_out
        /\ \A v \in Workers : v # w => /\ todo'[g][v] = todo[g][v]
                                       /\ worker_sock'[g][v] = worker_sock[g][v]
    BY <1>1, <2>3 DEF PollControl, DrainSocket, ServingInv, ServingTypeOK, EngineTypeOK,
       PoolTypeOK, redisVars
  <2> QED
    BY <1>0, <2>1, <2>4, PollOrdered
<1>2. CASE HandleActivateRequest(g, w)
  <2>1. ~activated[g][w]
    BY <1>2, <1>b DEF HandleActivateRequest
  <2>2. /\ todo[g][w] # <<>> /\ Obeyed(g, w) /\ Report(g, Head(todo[g][w]), TRUE)
        /\ UNCHANGED worker_sock
    BY <1>2, <2>1 DEF HandleActivateRequest, NextIs, poolVars
  <2> QED
    BY <1>0, <2>2, ObeyOrdered
<1>3. CASE RefuseDeactivateRequest(g, w)
  BY <1>3, <1>b DEF RefuseDeactivateRequest
<1>4. CASE HandleDeactivateRequest(g, w)
  <2>1. CASE Obeyed(g, w) /\ Report(g, Head(todo[g][w]), TRUE)
    BY <1>0, <1>4, <2>1, ObeyOrdered DEF HandleDeactivateRequest, NextIs, poolVars
  <2>2. CASE UNCHANGED <<todo, engine_out>>
    <3>1. OrderSame(g)
      BY <1>0, <1>4, <2>2 DEF OrderSame, HandleDeactivateRequest, poolVars
    <3> QED
      BY <3>1, SameOrdered
  <2> QED
    BY <1>4, <2>1, <2>2 DEF HandleDeactivateRequest
<1>5. CASE CompleteDeactivation(g, w)
  <2>1. todo[g][w] # <<>>
    BY <1>5 DEF CompleteDeactivation, ServingInv, EngineInv, DrainsForMessage
  <2> QED
    BY <1>0, <1>5, <2>1, ObeyOrdered DEF CompleteDeactivation, poolVars
<1>6. CASE Generation(g, w)
  <2>1. OrderSame(g)
    BY <1>0, <1>6 DEF OrderSame, Generation, RecvGenerationRequests, StartRunning, Retract,
       Finish, poolVars, redisVars
  <2> QED
    BY <2>1, SameOrdered
<1> QED
  BY <1>1, <1>2, <1>3, <1>4, <1>5, <1>6 DEF EngineStep, Control

\* Every step keeps the order on every GPU, if the callers keep it.
LEMMA OrderedStep ==
  ASSUME Orderly, PoolInv, ServingInv, Followed, AllOrdered, [Next]_vars
  PROVE  AllOrdered'
<1> SUFFICES ASSUME NEW h \in GPUs PROVE Ordered(h)'
  BY DEF AllOrdered
<1>0. Ordered(h) /\ SmallReads
  BY OrderedSmall DEF AllOrdered
<1>1. CASE UNCHANGED vars
  BY <1>0, <1>1, SameOrdered DEF OrderSame, vars, poolVars, redisVars, schedVars, engineVars
<1>2. ASSUME NEW r \in Reqs, Generate(r) PROVE Ordered(h)'
  BY <1>0, <1>2, SameOrdered DEF OrderSame, Generate, poolVars, schedVars, engineVars
<1>3. ASSUME NEW g \in GPUs, NEW m \in Models, Activate(g, m) \/ Deactivate(g, m)
      PROVE  Ordered(h)'
  <2>1. PICK req \in ControlReqs : Call(g, req)
    BY <1>3, CallTyped DEF Activate, Deactivate
  <2>2. CASE h = g
    BY <1>0, <2>1, <2>2, CallOrdered
  <2>3. CASE h # g
    BY <1>0, <2>1, <2>3, SameOrdered DEF OrderSame, Call, ServingInv, HandlerInv, poolVars,
       redisVars, engineVars
  <2> QED
    BY <2>2, <2>3
<1>4. ASSUME NEW g \in GPUs, SchedulerStep(g) PROVE Ordered(h)'
  BY <1>0, <1>4, SchedulerOrdered, SchedulerOrdersOwn, SameOrdered
<1>5. ASSUME NEW g \in GPUs, NEW w \in Workers, EngineStep(g, w) PROVE Ordered(h)'
  <2>1. Follows(g, w)
    BY DEF Followed
  <2> QED
    BY <1>0, <1>5, <2>1, EngineOrdered, EngineOrdersOwn, SameOrdered
<1> QED
  BY <1>1, <1>2, <1>3, <1>4, <1>5 DEF Next

\* The system starts with every model settled.
LEMMA OrderedInit == Init => AllOrdered
<1> SUFFICES ASSUME Init, NEW g \in GPUs PROVE Ordered(g)
  BY DEF AllOrdered
<1>0. Names(<<>>) = {} /\ Distinct(<<>>) /\ AllSucceed(<<>>) /\ \A S : Told(S, <<>>)
  BY DEF Names, Distinct, Told, AllSucceed
<1>1. /\ \A w \in Workers : worker_sock[g][w] = <<>> /\ todo[g][w] = <<>>
      /\ engine_out[g] = <<>> /\ reports[g] = <<>> /\ handler_sock[g] = <<>>
      /\ rpc[g] = "frontend"
      /\ \A m \in Models :
           model_states[g][m] = IF Served(g, m) THEN "activated" ELSE "deactivated"
  BY DEF Init, PoolInit, RedisInit, SchedInit, EngineInit
<1>2. Settled(g) = Models
  BY <1>1 DEF Settled
<1>3. OneStage(Changing(g))
  <2> DEFINE A == <<"settled", "scheduler">>
             K == Changing(g)
  <2>1. A \in Stages /\ K[A] = Models
    BY <1>2, StagesAre, ChangingIs
  <2>2. ASSUME NEW p \in Stages, p # A PROVE K[p] = {}
    <3>1. CASE p \in {<<"engine_out", "scheduler">>, <<"reports", "scheduler">>}
      BY <1>0, <1>1, <3>1, ChangingIs
    <3>2. ASSUME NEW w \in Workers, p = <<"sock", w>> \/ p = <<"todo", w>> PROVE K[p] = {}
      <4>1. K[<<"sock", w>>] = {} /\ K[<<"todo", w>>] = {}
        BY <1>0, <1>1, ChangingIs
      <4> QED
        BY <3>2, <4>1
    <3> QED
      BY <2>2, <3>1, <3>2, StageCases
  <2> QED
    BY <2>1, <2>2 DEF OneStage
<1>4. NothingNamedTwice(g) /\ ChangesTold(g) /\ CallsFit(g) /\ ReportsInTurn(g)
  BY <1>0, <1>1 DEF NothingNamedTwice, ChangesTold, CallsFit, ReportsInTurn
<1>5. StatesAgree(g)
  BY <1>1 DEF StatesAgree, CanReceive
<1> QED
  BY <1>3, <1>4, <1>5 DEF Ordered

\* Between two calls the order is what is asked of it.
LEMMA OrderedAgrees ==
  ServingInv /\ AllOrdered => StatesFollowPool /\ ServedModelIsActivated
<1> SUFFICES ASSUME ServingInv, AllOrdered, NEW g \in GPUs, NEW m \in Models
             PROVE  /\ rpc[g] # "obey" => (Served(g, m) <=> m \in CanReceive(g))
                    /\ Quiet(g) /\ Served(g, m) => model_states[g][m] = "activated"
  BY Zenon DEF StatesFollowPool, ServedModelIsActivated
<1>1. Ordered(g)
  BY DEF AllOrdered
<1>2. rpc[g] # "obey" => ~Marked(g, m) /\ (Served(g, m) <=> m \in CanReceive(g))
  BY <1>1 DEF Ordered, StatesAgree, Marked
<1>3. ASSUME Quiet(g), Served(g, m) PROVE model_states[g][m] = "activated"
  <2>1. rpc[g] # "obey"
    BY <1>3 DEF Quiet, ServingInv, HandlerInv
  <2>2. Names(<<>>) = {}
    BY DEF Names
  <2> DEFINE A == <<"settled", "scheduler">>
             K == Changing(g)
  <2>3. ASSUME NEW p \in Stages, p # A PROVE m \notin K[p]
    <3>1. CASE p \in {<<"engine_out", "scheduler">>, <<"reports", "scheduler">>}
      BY <1>3, <2>2, <3>1, ChangingIs DEF Quiet
    <3>2. ASSUME NEW w \in Workers, p = <<"sock", w>> \/ p = <<"todo", w>> PROVE m \notin K[p]
      <4>1. K[<<"sock", w>>] = {} /\ K[<<"todo", w>>] = {}
        BY <1>3, <2>2, ChangingIs DEF Quiet, Idle
      <4> QED
        BY <3>2, <4>1
    <3> QED
      BY <2>3, <3>1, <3>2, StageCases
  <2>4. m \in Settled(g)
    <3>1. PICK p \in Stages : m \in K[p]
      BY <1>1 DEF Ordered, OneStage
    <3>2. p = A
      BY <2>3, <3>1
    <3> QED
      BY <3>1, <3>2, ChangingIs
  <2> QED
    BY <1>2, <1>3, <2>1, <2>4 DEF Settled, CanReceive
<1> QED
  BY <1>2, <1>3

\* With callers that change a model only once its last change is reported, the
\* scheduler pulls requests exactly for the models that have a worker, a model
\* with a worker is activated once nothing is under way, and workers end up where
\* the pool has them: all of it with any number of calls under way at once.
THEOREM OrderlyCallersAgree ==
  Orderly /\ Spec => [](StatesFollowPool /\ ServedModelIsActivated /\ WorkerFollowsPool)
<1> DEFINE Types == PoolTypeOK /\ HandlerInv /\ (ServingTypeOK /\ EngineInv)
           Pool == PoolTypeOK /\ PoolPartition /\ SocketAlternates
           Inv == Orderly /\ AllOrdered /\ Followed
<1>1. Orderly /\ Init => Inv
  BY FollowedInit, OrderedInit
<1>2. Types /\ Pool /\ Inv /\ [Next]_vars => Inv'
  BY OrderedSmall, OrderedStep, FollowedStep DEF PoolInv, ServingInv
<1>3. Types /\ Inv => StatesFollowPool /\ ServedModelIsActivated /\ WorkerFollowsPool
  BY OrderedAgrees, FollowedIdle DEF ServingInv
<1> QED
  BY <1>1, <1>2, <1>3, TypesHold, ServingPool, PTL DEF Spec

\* In particular, a model the pool has given a worker to is one whose requests the
\* scheduler admits, once nothing is under way at its GPU: no late report leaves it
\* "deactivated" with a worker that hosts it.
THEOREM OrderlyServed == Orderly /\ Spec => []ServedModelIsActivated
BY OrderlyCallersAgree, PTL
-------------------------------------------------------------------------------
(* No request is left where its model is gone *)

\* A frontend list holds requests of its model.
FrontendsOfModel == \A m \in Models : frontend[m] \in Seq(RequestsFor(m))

\* A scheduler's queue holds requests only of models with a worker; admission
\* control sets requests aside only while it has the queue's lock.
QueuedServed(g) ==
  /\ spc[g] # "locked" => new_queue[g] = {}
  /\ \A m \in Models : ~Served(g, m) => RequestsOf(queue[g] \cup new_queue[g], m) = {}
AllQueuedServed == \A g \in GPUs : QueuedServed(g)

\* Requests that come back to a frontend list come back to that of their model.
LEMMA FrontendsStep ==
  ASSUME ServingInv, BackendsOfModel, AllClean, FrontendsOfModel, [Next]_vars
  PROVE  FrontendsOfModel'
<1> USE DEF ServingInv, ServingTypeOK
<1>0. frontend \in [Models -> Seq(Reqs)]
  BY DEF RedisTypeOK
<1>1. ASSUME UNCHANGED frontend PROVE FrontendsOfModel'
  BY <1>1 DEF FrontendsOfModel
<1>a. ASSUME NEW m \in Models, NEW list \in Seq(RequestsFor(m)),
             frontend' = [frontend EXCEPT ![m] = list]
      PROVE  FrontendsOfModel'
  BY <1>0, <1>a DEF FrontendsOfModel
<1>b. ASSUME NEW T \in SUBSET Reqs, NEW m \in Models, T \subseteq RequestsFor(m),
             NEW order \in SetToSeqs(T)
      PROVE  order \in Seq(RequestsFor(m))
  BY <1>b, OrderTyped
<1>2. CASE UNCHANGED vars
  BY <1>1, <1>2 DEF vars, redisVars
<1>3. ASSUME NEW r \in Reqs, Generate(r) PROVE FrontendsOfModel'
  <2>1. ModelOf[r] \in Models /\ r \in RequestsFor(ModelOf[r])
    BY PartiesAssumption DEF RequestsFor
  <2>2. Append(frontend[ModelOf[r]], r) \in Seq(RequestsFor(ModelOf[r]))
    BY <2>1 DEF FrontendsOfModel
  <2> QED
    BY <1>3, <1>a, <2>1, <2>2 DEF Generate
<1>4. ASSUME NEW g \in GPUs, NEW m \in Models, Activate(g, m) \/ Deactivate(g, m)
      PROVE  FrontendsOfModel'
  BY <1>1, <1>4 DEF Activate, Deactivate, Call, redisVars
<1>5. ASSUME NEW g \in GPUs, SchedulerStep(g) PROVE FrontendsOfModel'
  <2>1. CASE RecvFromFrontendQueue(g)
    <3>1. \A m \in Models : frontend'[m] = <<>> \/ frontend'[m] = frontend[m]
      BY <2>1 DEF RecvFromFrontendQueue
    <3> SUFFICES ASSUME NEW m \in Models PROVE frontend'[m] \in Seq(RequestsFor(m))
      BY DEF FrontendsOfModel
    <3>2. frontend[m] \in Seq(RequestsFor(m)) /\ <<>> \in Seq(RequestsFor(m))
      BY DEF FrontendsOfModel
    <3>3. frontend'[m] = <<>> \/ frontend'[m] = frontend[m]
      BY <3>1
    <3> QED
      BY <3>2, <3>3
  <2>2. CASE HandleDeactivate(g)
    <3> DEFINE m == Head(handler_sock[g]).model
               popped == RequestsOf(queue[g], m)
    <3>1. m \in Models
      BY <2>2, HeadTail, NamesModel DEF HandleDeactivate, Obeys, HandlerInv
    <3>2. popped \in SUBSET Reqs /\ popped \subseteq RequestsFor(m)
      BY DEF RequestsOf, RequestsFor, SchedTypeOK
    <3>3. PICK order \in SetToSeqs(popped) :
            frontend' = [frontend EXCEPT ![m] = @ \o order \o backend[m]]
      BY <2>2 DEF HandleDeactivate
    <3>4. frontend' = [frontend EXCEPT ![m] = frontend[m] \o order \o backend[m]]
      BY <1>0, <3>3
    <3> HIDE DEF m, popped
    <3>5. frontend[m] \o order \o backend[m] \in Seq(RequestsFor(m))
      BY <1>b, <3>1, <3>2, <3>3 DEF FrontendsOfModel, BackendsOfModel
    <3> QED
      BY <1>a, <3>1, <3>4, <3>5
  <2>3. CASE \/ MarkModel(g) \/ HandleActivate(g) \/ RecvFromEngine(g) \/ HandleReport(g)
             \/ ReportsHandled(g) \/ SchedulingLoop(g)
    BY <1>1, <2>3 DEF MarkModel, HandleActivate, RecvFromEngine, HandleReport, ReportsHandled,
       SchedulingLoop, ReadBackendLens, AdmissionControl, EndAdmission, SendToBackendQueue,
       redisVars
  <2> QED
    BY <1>5, <2>1, <2>2, <2>3 DEF SchedulerStep, Receiver
<1>6. ASSUME NEW g \in GPUs, NEW w \in Workers, EngineStep(g, w) PROVE FrontendsOfModel'
  <2>1. CASE HandleDeactivateRequest(g, w)
    <3> DEFINE m == hosted[g][w]
               S == waiting[g][w]
    <3>1. m \in Models
      BY <2>1 DEF HandleDeactivateRequest, EngineInv, ServesModel
    <3>2. S \in SUBSET Reqs /\ S \subseteq RequestsFor(m)
      BY DEF EngineTypeOK, AllClean, Clean, RequestsFor
    <3>3. \/ UNCHANGED frontend
          \/ \E order \in SetToSeqs(S) : frontend' = [frontend EXCEPT ![m] = @ \o order]
      BY <2>1 DEF HandleDeactivateRequest
    <3>4. ASSUME NEW order \in SetToSeqs(S), frontend' = [frontend EXCEPT ![m] = @ \o order]
          PROVE  FrontendsOfModel'
      <4>1. frontend' = [frontend EXCEPT ![m] = frontend[m] \o order]
        BY <1>0, <3>4
      <4> HIDE DEF m, S
      <4>2. frontend[m] \o order \in Seq(RequestsFor(m))
        BY <1>b, <3>1, <3>2 DEF FrontendsOfModel
      <4> QED
        BY <1>a, <3>1, <4>1, <4>2
    <3> QED
      BY <1>1, <3>3, <3>4
  <2>2. CASE \/ PollControl(g, w) \/ HandleActivateRequest(g, w)
             \/ RefuseDeactivateRequest(g, w) \/ CompleteDeactivation(g, w) \/ Generation(g, w)
    BY <1>1, <2>2 DEF PollControl, HandleActivateRequest, RefuseDeactivateRequest,
       CompleteDeactivation, Generation, RecvGenerationRequests, StartRunning, Retract, Finish,
       redisVars
  <2> QED
    BY <1>6, <2>1, <2>2 DEF EngineStep, Control
<1> QED
  BY <1>2, <1>3, <1>4, <1>5, <1>6 DEF Next

\* A model loses its worker in the same step that returns its requests; the
\* scheduler pulls requests only for models it takes for activated.
LEMMA QueuedStep ==
  ASSUME PoolInv, ServingInv, AllOrdered, FrontendsOfModel, AllQueuedServed, [Next]_vars
  PROVE  AllQueuedServed'
<1> SUFFICES ASSUME NEW h \in GPUs PROVE QueuedServed(h)'
  BY DEF AllQueuedServed
<1> USE DEF ServingInv, ServingTypeOK, SchedTypeOK
<1>0. QueuedServed(h) /\ Ordered(h)
  BY DEF AllQueuedServed, AllOrdered
<1>1. ASSUME spc'[h] = spc[h], queue'[h] = queue[h], new_queue'[h] = new_queue[h],
             model_to_worker'[h] = model_to_worker[h]
      PROVE  QueuedServed(h)'
  BY <1>0, <1>1 DEF QueuedServed, Served
<1>2. CASE UNCHANGED vars
  BY <1>1, <1>2 DEF vars, poolVars, schedVars
<1>3. ASSUME NEW r \in Reqs, Generate(r) PROVE QueuedServed(h)'
  BY <1>1, <1>3 DEF Generate, poolVars, schedVars
<1>4. ASSUME NEW g \in GPUs, NEW m \in Models, Activate(g, m) \/ Deactivate(g, m)
      PROVE  QueuedServed(h)'
  BY <1>1, <1>4 DEF Activate, Deactivate, Call, poolVars
<1>5. ASSUME NEW g \in GPUs, NEW w \in Workers, EngineStep(g, w) PROVE QueuedServed(h)'
  BY <1>1, <1>5 DEF EngineStep, Control, PollControl, HandleActivateRequest,
     RefuseDeactivateRequest, HandleDeactivateRequest, CompleteDeactivation, Generation,
     RecvGenerationRequests, StartRunning, Retract, Finish, poolVars, schedVars
<1>6. ASSUME NEW g \in GPUs, SchedulerStep(g) PROVE QueuedServed(h)'
  <2>1. CASE h # g
    <3>1. OrderSame(h)
      BY <1>6, <2>1, SchedulerOrdersOwn
    <3>2. UNCHANGED queue \/ \E S : queue' = [queue EXCEPT ![g] = S]
      BY <1>6 DEF SchedulerStep, Receiver, RecvFromFrontendQueue, MarkModel, HandleDeactivate,
         HandleActivate, RecvFromEngine, HandleReport, ReportsHandled, SchedulingLoop,
         ReadBackendLens, AdmissionControl, EndAdmission, SendToBackendQueue
    <3>3. UNCHANGED new_queue \/ \E S : new_queue' = [new_queue EXCEPT ![g] = S]
      BY <1>6 DEF SchedulerStep, Receiver, RecvFromFrontendQueue, MarkModel, HandleDeactivate,
         HandleActivate, RecvFromEngine, HandleReport, ReportsHandled, SchedulingLoop,
         ReadBackendLens, AdmissionControl, EndAdmission, SendToBackendQueue
    <3>4. UNCHANGED spc \/ \E s : spc' = [spc EXCEPT ![g] = s]
      BY <1>6 DEF SchedulerStep, Receiver, RecvFromFrontendQueue, MarkModel, HandleDeactivate,
         HandleActivate, RecvFromEngine, HandleReport, ReportsHandled, SchedulingLoop,
         ReadBackendLens, AdmissionControl, EndAdmission, SendToBackendQueue
    <3> QED
      BY <1>1, <2>1, <3>1, <3>2, <3>3, <3>4 DEF OrderSame
  <2>2. CASE h = g /\ RecvFromFrontendQueue(g)
    <3>1. /\ rpc[h] = "frontend" /\ spc[h] # "locked"
          /\ queue'[h] = queue[h] \cup UNION {ToSet(frontend[m]) : m \in CanReceive(h)}
          /\ UNCHANGED <<model_to_worker, new_queue, spc>>
      BY <2>2 DEF RecvFromFrontendQueue, Locked, poolVars
    <3>2. ASSUME NEW m \in Models, ~Served(h, m), NEW n \in CanReceive(h),
                 NEW r \in ToSet(frontend[n])
          PROVE  ModelOf[r] # m
      <4>1. n # m /\ n \in Models
        BY <1>0, <3>1, <3>2 DEF Ordered, StatesAgree, Marked, CanReceive
      <4>2. r \in RequestsFor(n)
        BY <4>1, ToSetIn DEF FrontendsOfModel
      <4> QED
        BY <4>1, <4>2 DEF RequestsFor
    <3>3. ASSUME NEW m \in Models, ~Served(h, m)
          PROVE  RequestsOf(queue'[h] \cup new_queue'[h], m) = {}
      <4>1. RequestsOf(queue[h] \cup new_queue[h], m) = {}
        BY <1>0, <3>3 DEF QueuedServed
      <4> QED
        BY <3>1, <3>2, <3>3, <4>1 DEF RequestsOf
    <3> QED
      BY <1>0, <3>1, <3>3 DEF QueuedServed, Served
  <2>3. CASE h = g /\ HandleDeactivate(g)
    <3> DEFINE m == Head(handler_sock[g]).model
    <3>1. /\ Head(handler_sock[g]) \in ControlReqs /\ m \in Models
          /\ Obeys(g, "deactivate") /\ Served(g, m)
      BY <1>0, <2>3, CallsBehind DEF HandleDeactivate
    <3>2. /\ ReleaseAndDeactivate(g, Head(handler_sock[g])) /\ spc[h] # "locked"
          /\ queue'[h] = queue[h] \ RequestsOf(queue[h], m)
          /\ UNCHANGED <<new_queue, spc>>
      BY <2>3, <3>1 DEF HandleDeactivate, Locked
    <3>3. \A o \in Models : o # m => model_to_worker'[h][o] = model_to_worker[h][o]
      BY <2>3, <3>1, <3>2, ReleaseEffect
    <3>4. ASSUME NEW o \in Models, model_to_worker'[h][o] = NoWorker
          PROVE  RequestsOf(queue'[h] \cup new_queue'[h], o) = {}
      <4>1. CASE o = m
        BY <1>0, <3>2, <4>1 DEF QueuedServed, RequestsOf
      <4>2. CASE o # m
        <5>1. RequestsOf(queue[h] \cup new_queue[h], o) = {}
          BY <1>0, <3>3, <3>4, <4>2 DEF QueuedServed, Served
        <5> QED
          BY <3>2, <5>1 DEF RequestsOf
      <4> QED
        BY <4>1, <4>2
    <3> QED
      BY <1>0, <3>2, <3>4 DEF QueuedServed, Served
  <2>4. CASE h = g /\ HandleActivate(g)
    <3>1. UNCHANGED <<queue, new_queue, spc>>
      BY <2>4 DEF HandleActivate
    <3>2. CASE UNCHANGED poolVars
      BY <1>1, <3>1, <3>2 DEF poolVars
    <3>3. CASE AssignAndActivate(g, Head(handler_sock[g]))
      <4>1. Head(handler_sock[g]) \in ControlReqs
        BY <2>4, HeadTail DEF HandleActivate, Obeys, HandlerInv
      <4>2. \A o \in Models : Served(h, o) => model_to_worker'[h][o] # NoWorker
        BY <2>4, <3>3, <4>1, AssignEffect, PartiesAssumption DEF Served
      <4> QED
        BY <1>0, <3>1, <4>2 DEF QueuedServed, Served
    <3> QED
      BY <2>4, <3>2, <3>3 DEF HandleActivate
  <2>5. CASE h = g /\ AdmissionControl(g)
    <3>1. PICK r \in queue[g] :
            /\ queue'[g] = queue[g] \ {r}
            /\ new_queue'[g] \subseteq new_queue[g] \cup {r}
      BY <2>5 DEF AdmissionControl
    <3>2. spc'[g] = "locked" /\ UNCHANGED model_to_worker
      BY <2>5 DEF AdmissionControl, poolVars
    <3>3. ASSUME NEW m \in Models, ~Served(h, m)
          PROVE  RequestsOf(queue'[h] \cup new_queue'[h], m) = {}
      <4>1. RequestsOf(queue[h] \cup new_queue[h], m) = {}
        BY <1>0, <3>3 DEF QueuedServed
      <4> QED
        BY <2>5, <3>1, <4>1 DEF RequestsOf
    <3> QED
      BY <2>5, <3>2, <3>3 DEF QueuedServed, Served
  <2>6. CASE h = g /\ EndAdmission(g)
    <3>1. /\ queue'[g] = new_queue[g] /\ new_queue'[g] = {}
          /\ UNCHANGED model_to_worker
      BY <2>6 DEF EndAdmission, poolVars
    <3> QED
      BY <1>0, <2>6, <3>1 DEF QueuedServed, Served, RequestsOf
  <2>7. CASE h = g /\ (ReadBackendLens(g) \/ SendToBackendQueue(g))
    <3>1. spc[g] # "locked" /\ UNCHANGED <<queue, new_queue, model_to_worker>>
      BY <2>7 DEF ReadBackendLens, SendToBackendQueue, poolVars
    <3> QED
      BY <1>0, <2>7, <3>1 DEF QueuedServed, Served
  <2>8. CASE \/ MarkModel(g) \/ RecvFromEngine(g) \/ HandleReport(g) \/ ReportsHandled(g)
    BY <1>1, <2>8 DEF MarkModel, RecvFromEngine, HandleReport, ReportsHandled, poolVars
  <2> QED
    BY <1>6, <2>1, <2>2, <2>3, <2>4, <2>5, <2>6, <2>7, <2>8 DEF SchedulerStep, Receiver,
       SchedulingLoop
<1> QED
  BY <1>2, <1>3, <1>4, <1>5, <1>6 DEF Next

\* A model that is gone has no worker.
LEMMA QueuedAgrees == ServingInv /\ AllOrdered /\ AllQueuedServed => NothingQueuedForDeactivated
<1> SUFFICES ASSUME ServingInv, AllOrdered, AllQueuedServed, NEW g \in GPUs, NEW m \in Models,
                    model_states[g][m] = "deactivated"
             PROVE  RequestsOf(queue[g] \cup new_queue[g], m) = {}
  BY DEF NothingQueuedForDeactivated
<1>1. Ordered(g)
  BY DEF AllOrdered
<1>2. ~Marked(g, m)
  <2> SUFFICES ASSUME Marked(g, m) PROVE FALSE
    OBVIOUS
  <2>1. handler_sock[g] \in Seq(ControlReqs) /\ handler_sock[g] # <<>> /\ rpc[g] = "obey"
    BY DEF Marked, ServingInv, HandlerInv
  <2>2. 1 \in DOMAIN handler_sock[g] /\ handler_sock[g][1].model = m
    BY <2>1 DEF Marked
  <2>3. model_states[g][m] = ChangingState(handler_sock[g][1])
    BY <1>1, <2>1, <2>2 DEF Ordered, CallsFit
  <2> QED
    BY <2>3 DEF ChangingState
<1>3. ~Served(g, m)
  BY <1>1, <1>2 DEF Ordered, StatesAgree, CanReceive
<1> QED
  BY <1>3 DEF AllQueuedServed, QueuedServed

\* With orderly callers that do not preempt, a model that is gone from a GPU
\* leaves no request in the GPU's queue nor with its admission control.
THEOREM OrderlyCallersStrandNone ==
  Orderly /\ NeverPreempts /\ Spec => []NothingQueuedForDeactivated
<1> DEFINE Types == PoolTypeOK /\ HandlerInv /\ (ServingTypeOK /\ EngineInv)
           Pool == PoolTypeOK /\ PoolPartition /\ SocketAlternates
           Order == Orderly /\ AllOrdered /\ Followed
           Hosts == NeverPreempts /\ MessagesPlain /\ BackendsOfModel /\ AllClean
           Queued == FrontendsOfModel /\ AllQueuedServed
<1>1. Orderly /\ NeverPreempts /\ Init => Order /\ Hosts /\ Queued
  <2>1. Orderly /\ NeverPreempts /\ Init => Order
    BY FollowedInit, OrderedInit
  <2>2. Orderly /\ NeverPreempts /\ Init => Hosts
    BY DEF Init, PoolInit, RedisInit, SchedInit, EngineInit, MessagesPlain, BackendsOfModel,
           AllClean, Clean
  <2>3. Orderly /\ NeverPreempts /\ Init => Queued
    BY DEF Init, RedisInit, SchedInit, FrontendsOfModel, AllQueuedServed, QueuedServed,
           RequestsOf
  <2> QED
    BY <2>1, <2>2, <2>3
<1>2. Types /\ Pool /\ Order /\ Hosts /\ Queued /\ [Next]_vars => (Order /\ Hosts /\ Queued)'
  <2>1. Types /\ Pool /\ Order /\ [Next]_vars => Order'
    BY OrderedSmall, OrderedStep, FollowedStep DEF PoolInv, ServingInv
  <2>2. Types /\ Hosts /\ [Next]_vars => Hosts'
    BY PlainStep, BackendStep, CleanStep DEF NeverPreempts, ServingInv
  <2>3. Types /\ Pool /\ Order /\ Hosts /\ Queued /\ [Next]_vars => Queued'
    BY FrontendsStep, QueuedStep DEF PoolInv, ServingInv
  <2> QED
    BY <2>1, <2>2, <2>3
<1>3. Types /\ Order /\ Queued => NothingQueuedForDeactivated
  BY QueuedAgrees DEF ServingInv
<1> QED
  BY <1>1, <1>2, <1>3, TypesHold, ServingPool, PTL DEF Spec
===============================================================================
