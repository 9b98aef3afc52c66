------------------------ MODULE MultiModelServing_proofs ------------------------
(***************************************************************************)
(* Proofs about the composed system, for any number of GPUs, workers,      *)
(* models and requests, in four parts.                                     *)
(*  - The worker pool by itself keeps its promises.                        *)
(*  - What schedulers and engines do to a pool is a behaviour of           *)
(*    WorkerPool, so that its theorem holds of the whole system.           *)
(*  - Type correctness, strengthened by when an engine has a model.        *)
(*  - An engine holds requests of its own model only.                      *)
(***************************************************************************)
EXTENDS MultiModelServing, WorkerPool, FiniteSetTheorems, TLAPS

(***************************************************************************)
(* Proofs about the worker pool, for any number of GPUs, workers and       *)
(* models.  PoolTypeOK, PoolPartition and SocketAlternates together are    *)
(* inductive; none of them is alone: that the sockets alternate needs the  *)
(* partition, which says what the last message of a worker can have been   *)
(* when the worker is assigned or released.                                *)
(***************************************************************************)

(* Sequences without duplicates *)

\* A worker put into the queue of idle workers adds itself and nothing else.
LEMMA ToSetAppend ==
  ASSUME NEW S, NEW s \in Seq(S), NEW x \in S
  PROVE  /\ Append(s, x) \in Seq(S)
         /\ ToSet(Append(s, x)) = ToSet(s) \cup {x}
<1>1. Append(s, x) \in Seq(S) /\ Len(Append(s, x)) = Len(s) + 1
  OBVIOUS
<1>2. \A i \in 1 .. Len(s) : Append(s, x)[i] = s[i]
  OBVIOUS
<1>3. Append(s, x)[Len(s) + 1] = x
  OBVIOUS
<1>4. DOMAIN s = 1 .. Len(s) /\ DOMAIN Append(s, x) = 1 .. Len(s) + 1
  BY <1>1
<1>5. Len(s) \in Nat /\ 1 .. Len(s) + 1 = (1 .. Len(s)) \cup {Len(s) + 1}
  OBVIOUS
<1> QED
  BY <1>1, <1>2, <1>3, <1>4, <1>5 DEF ToSet

\* If it was not queued before, the queue still has no worker twice.
LEMMA InjectiveAppend ==
  ASSUME NEW S, NEW s \in Seq(S), NEW x \in S, IsInjective(s), x \notin ToSet(s)
  PROVE  IsInjective(Append(s, x))
<1>1. DOMAIN s = 1 .. Len(s) /\ DOMAIN Append(s, x) = 1 .. Len(s) + 1 /\ Len(s) \in Nat
  OBVIOUS
<1>2. \A i \in 1 .. Len(s) : Append(s, x)[i] = s[i] /\ s[i] # x
  BY <1>1 DEF ToSet
<1>3. Append(s, x)[Len(s) + 1] = x
  OBVIOUS
<1> QED
  BY <1>1, <1>2, <1>3 DEF IsInjective

\* The head of a queue without duplicates is gone once it has been taken.
LEMMA InjectiveTail ==
  ASSUME NEW S, NEW s \in Seq(S), s # <<>>, IsInjective(s)
  PROVE  /\ Tail(s) \in Seq(S)
         /\ Head(s) \in ToSet(s) /\ Head(s) \in S
         /\ IsInjective(Tail(s))
         /\ ToSet(Tail(s)) = ToSet(s) \ {Head(s)}
<1>1. /\ Tail(s) \in Seq(S) /\ Len(Tail(s)) = Len(s) - 1
      /\ Len(s) \in Nat /\ Len(s) > 0 /\ Head(s) = s[1] /\ Head(s) \in S
  OBVIOUS
<1>2. \A i \in 1 .. Len(s) - 1 : Tail(s)[i] = s[i + 1]
  OBVIOUS
<1>3. DOMAIN s = 1 .. Len(s) /\ DOMAIN Tail(s) = 1 .. Len(s) - 1
  BY <1>1
<1>4. Head(s) \in ToSet(s)
  BY <1>1, <1>3 DEF ToSet
<1>5. IsInjective(Tail(s))
  <2> SUFFICES ASSUME NEW i \in 1 .. Len(s) - 1, NEW j \in 1 .. Len(s) - 1,
                      Tail(s)[i] = Tail(s)[j]
               PROVE  i = j
    BY <1>3 DEF IsInjective
  <2>1. s[i + 1] = s[j + 1] /\ i + 1 \in DOMAIN s /\ j + 1 \in DOMAIN s
    BY <1>1, <1>2, <1>3
  <2>2. i + 1 = j + 1
    BY <2>1 DEF IsInjective
  <2> QED
    BY <2>2
<1>6. ASSUME NEW x \in ToSet(Tail(s)) PROVE x \in ToSet(s) \ {Head(s)}
  <2>1. PICK i \in 1 .. Len(s) - 1 : x = Tail(s)[i]
    BY <1>3 DEF ToSet
  <2>2. x = s[i + 1] /\ i + 1 \in 1 .. Len(s) /\ i + 1 # 1
    BY <1>1, <1>2, <2>1
  <2>3. x # s[1]
    BY <1>1, <1>3, <2>2 DEF IsInjective
  <2> QED
    BY <1>1, <1>3, <2>2, <2>3 DEF ToSet
<1>7. ASSUME NEW x \in ToSet(s) \ {Head(s)} PROVE x \in ToSet(Tail(s))
  <2>1. PICK i \in 1 .. Len(s) : x = s[i]
    BY <1>3 DEF ToSet
  <2>2. i # 1 /\ i - 1 \in 1 .. Len(s) - 1
    BY <1>1, <2>1
  <2>3. Tail(s)[i - 1] = x
    BY <1>2, <2>1, <2>2
  <2> QED
    BY <1>3, <2>2, <2>3 DEF ToSet
<1> QED
  BY <1>1, <1>4, <1>5, <1>6, <1>7
-------------------------------------------------------------------------------
(* The initial pool *)

\* The pool starts well typed, partitioned, and with nothing sent.
LEMMA InitInv == PoolInit => PoolTypeOK /\ PoolPartition /\ SocketAlternates
<1> SUFFICES ASSUME PoolInit PROVE PoolTypeOK /\ PoolPartition /\ SocketAlternates
  OBVIOUS
<1> DEFINE IP(g) == InitPlacement[g]
           n(g) == Len(InitPlacement[g])
           Idx(g, m) == CHOOSE i \in DOMAIN IP(g) : IP(g)[i] = m
<1>1. ASSUME NEW g \in GPUs
      PROVE  /\ IP(g) \in Seq(Models) /\ DOMAIN IP(g) = 1 .. n(g) /\ n(g) \in Nat
             /\ n(g) <= WorkersPerGPU /\ IsInjective(IP(g))
  BY PlacementAssumption
<1>2. ASSUME NEW g \in GPUs, NEW i \in 1 .. n(g)
      PROVE  IP(g)[i] \in Models /\ IP(g)[i] \in ToSet(IP(g)) /\ Idx(g, IP(g)[i]) = i
  <2>1. IP(g)[i] \in Models /\ IP(g)[i] \in ToSet(IP(g))
    BY <1>1 DEF ToSet
  <2>2. Idx(g, IP(g)[i]) \in DOMAIN IP(g) /\ IP(g)[Idx(g, IP(g)[i])] = IP(g)[i]
    BY <1>1
  <2>3. Idx(g, IP(g)[i]) = i
    BY <1>1, <2>2 DEF IsInjective
  <2> QED
    BY <2>1, <2>3
<1>3. ASSUME NEW g \in GPUs, NEW m \in Models, m \in ToSet(IP(g))
      PROVE  /\ Idx(g, m) \in 1 .. n(g) /\ IP(g)[Idx(g, m)] = m
             /\ model_to_worker[g][m] = Idx(g, m) - 1
             /\ Idx(g, m) - 1 \in Workers
  <2>1. Idx(g, m) \in 1 .. n(g) /\ IP(g)[Idx(g, m)] = m
    BY <1>1, <1>3 DEF ToSet
  <2>2. model_to_worker[g][m] = Idx(g, m) - 1
    BY <1>3 DEF PoolInit
  <2>3. Idx(g, m) - 1 \in Workers
    BY <1>1, <2>1, PartiesAssumption DEF Workers
  <2> QED
    BY <2>1, <2>2, <2>3
<1>4. ASSUME NEW g \in GPUs, NEW m \in Models, m \notin ToSet(IP(g))
      PROVE  model_to_worker[g][m] = NoWorker
  BY <1>4 DEF PoolInit
<1> HIDE DEF Idx
<1>5. ASSUME NEW g \in GPUs
      PROVE  /\ free_workers[g] \in Seq(Workers)
             /\ IsInjective(free_workers[g])
             /\ ToSet(free_workers[g]) = n(g) .. WorkersPerGPU - 1
  <2> DEFINE k == WorkersPerGPU - n(g)
  <2>1. free_workers[g] = [i \in 1 .. k |-> n(g) + i - 1]
    BY DEF PoolInit
  <2>2. k \in Nat /\ n(g) \in Nat /\ WorkersPerGPU \in Nat
    BY <1>1, PartiesAssumption
  <2> HIDE DEF k, n
  <2>3. \A i \in 1 .. k : n(g) + i - 1 \in Workers
    BY <2>2 DEF Workers, k
  <2>4. free_workers[g] \in Seq(Workers) /\ DOMAIN free_workers[g] = 1 .. k
    BY <2>1, <2>2, <2>3
  <2>5. IsInjective(free_workers[g])
    BY <2>1, <2>2 DEF IsInjective
  <2>6. ToSet(free_workers[g]) = {n(g) + i - 1 : i \in 1 .. k}
    BY <2>1 DEF ToSet
  <2>7. ASSUME NEW w \in n(g) .. WorkersPerGPU - 1
        PROVE  w \in {n(g) + i - 1 : i \in 1 .. k}
    <3>1. w - n(g) + 1 \in 1 .. k /\ n(g) + (w - n(g) + 1) - 1 = w
      BY <2>2 DEF k
    <3> QED
      BY <3>1
  <2>8. \A i \in 1 .. k : n(g) + i - 1 \in n(g) .. WorkersPerGPU - 1
    BY <2>2 DEF k
  <2>9. ToSet(free_workers[g]) = n(g) .. WorkersPerGPU - 1
    BY <2>6, <2>7, <2>8
  <2> QED
    BY <2>4, <2>5, <2>9
<1>6. PoolTypeOK
  <2>1. model_to_worker \in [GPUs -> [Models -> Workers \cup {NoWorker}]]
    BY <1>3, <1>4 DEF PoolInit
  <2>2. free_workers \in [GPUs -> Seq(Workers)]
    BY <1>5 DEF PoolInit
  <2>3. worker_sock \in [GPUs -> [Workers -> Seq(ControlReqs)]]
    BY DEF PoolInit
  <2> QED
    BY <2>1, <2>2, <2>3 DEF PoolTypeOK
<1> HIDE DEF Idx, IP, n
<1>7. ASSUME NEW g \in GPUs PROVE NoDuplicate(g) /\ FreeIffIdle(g) /\ OneModelEach(g)
  <2>1. NoDuplicate(g)
    BY <1>5 DEF NoDuplicate
  <2>2. FreeIffIdle(g)
    <3> SUFFICES ASSUME NEW w \in Workers
                 PROVE  w \in ToSet(free_workers[g])
                          <=> ~ \E m \in Models : model_to_worker[g][m] = w
      BY DEF FreeIffIdle
    <3>1. ASSUME w < n(g) PROVE \E m \in Models : model_to_worker[g][m] = w
      <4>1. w + 1 \in 1 .. n(g) /\ (w + 1) - 1 = w
        BY <1>1, <3>1, PartiesAssumption DEF Workers
      <4> QED
        BY <1>2, <1>3, <4>1
    <3>2. ASSUME NEW m \in Models, model_to_worker[g][m] = w PROVE w < n(g)
      <4>1. m \in ToSet(IP(g))
        BY <1>4, <3>2, PartiesAssumption
      <4> QED
        BY <1>1, <1>3, <3>2, <4>1
    <3>3. w \in ToSet(free_workers[g]) <=> ~(w < n(g))
      BY <1>1, <1>5, PartiesAssumption DEF Workers
    <3> QED
      BY <3>1, <3>2, <3>3
  <2>3. OneModelEach(g)
    <3> SUFFICES ASSUME NEW m \in Models, NEW o \in Models, Served(g, m),
                        model_to_worker[g][m] = model_to_worker[g][o]
                 PROVE  m = o
      BY DEF OneModelEach
    <3>1. m \in ToSet(IP(g)) /\ o \in ToSet(IP(g))
      BY <1>4 DEF Served
    <3>2. Idx(g, m) - 1 = Idx(g, o) - 1 /\ Idx(g, m) \in Nat /\ Idx(g, o) \in Nat
      BY <1>3, <3>1
    <3>3. Idx(g, m) = Idx(g, o)
      BY <3>2
    <3> QED
      BY <1>3, <3>1, <3>3
  <2> QED
    BY <2>1, <2>2, <2>3
<1>8. SocketAlternates
  BY DEF PoolInit, SocketAlternates, Alternates, LastAgrees
<1> QED
  BY <1>6, <1>7, <1>8 DEF PoolPartition
-------------------------------------------------------------------------------
(* The steps *)

PoolInv == PoolTypeOK /\ PoolPartition /\ SocketAlternates

\* What a message to worker w does to the sockets.
LEMMA SendEffect ==
  ASSUME PoolTypeOK, NEW g \in GPUs, NEW w \in Workers, NEW req \in ControlReqs,
         SendToWorker(g, w, req)
  PROVE  /\ worker_sock' \in [GPUs -> [Workers -> Seq(ControlReqs)]]
         /\ worker_sock'[g][w] = Append(worker_sock[g][w], req)
         /\ \A h \in GPUs, v \in Workers :
              <<h, v>> # <<g, w>> => worker_sock'[h][v] = worker_sock[h][v]
<1>1. worker_sock[g][w] \in Seq(ControlReqs)
  BY DEF PoolTypeOK
<1>2. Append(worker_sock[g][w], req) \in Seq(ControlReqs)
  BY <1>1
<1> QED
  BY <1>2 DEF PoolTypeOK, SendToWorker

\* A message that fits the last one of the socket keeps the socket alternating.
LEMMA AppendAlternates ==
  ASSUME NEW q \in Seq(ControlReqs), NEW req \in ControlReqs,
         \A i \in 1 .. Len(q) - 1 :
           /\ q[i].type # q[i + 1].type
           /\ q[i].type = "activate" => q[i + 1].model = q[i].model,
         q # <<>> => /\ q[Len(q)].type # req.type
                     /\ q[Len(q)].type = "activate" => req.model = q[Len(q)].model,
         NEW p, p = Append(q, req)
  PROVE  /\ Len(p) = Len(q) + 1 /\ p[Len(p)] = req /\ p # <<>>
         /\ \A i \in 1 .. Len(p) - 1 :
              /\ p[i].type # p[i + 1].type
              /\ p[i].type = "activate" => p[i + 1].model = p[i].model
<1>1. Len(p) = Len(q) + 1 /\ Len(q) \in Nat /\ p[Len(q) + 1] = req
  OBVIOUS
<1>2. \A i \in 1 .. Len(q) : p[i] = q[i]
  OBVIOUS
<1>3. ASSUME NEW i \in 1 .. Len(p) - 1
      PROVE  /\ p[i].type # p[i + 1].type
             /\ p[i].type = "activate" => p[i + 1].model = p[i].model
  <2>1. CASE i = Len(q)
    BY <1>1, <1>2, <2>1
  <2>2. CASE i # Len(q)
    <3>1. i \in 1 .. Len(q) - 1 /\ i + 1 \in 1 .. Len(q) /\ i \in 1 .. Len(q)
      BY <1>1, <2>2
    <3> QED
      BY <1>2, <3>1
  <2> QED
    BY <2>1, <2>2
<1> QED
  BY <1>1, <1>3

\* assign_worker: a worker that is free has been told to deactivate last.
LEMMA AssignStep ==
  ASSUME PoolInv, NEW g \in GPUs, NEW req \in ControlReqs, req.type = "activate",
         AssignAndActivate(g, req)
  PROVE  PoolInv'
<1> DEFINE w == Head(free_workers[g])
           m == req.model
<1>1. /\ m \in Models /\ model_to_worker[g][m] = NoWorker
      /\ free_workers[g] \in Seq(Workers) /\ free_workers[g] # <<>>
      /\ IsInjective(free_workers[g])
  BY DEF AssignAndActivate, CannotActivate, Served, PoolInv, PoolTypeOK, PoolPartition,
         NoDuplicate, ControlReqs
<1>2. /\ Tail(free_workers[g]) \in Seq(Workers) /\ w \in Workers
      /\ w \in ToSet(free_workers[g])
      /\ IsInjective(Tail(free_workers[g]))
      /\ ToSet(Tail(free_workers[g])) = ToSet(free_workers[g]) \ {w}
  BY <1>1, InjectiveTail
<1> HIDE DEF w
<1>3. /\ model_to_worker' = [model_to_worker EXCEPT ![g][m] = w]
      /\ free_workers' = [free_workers EXCEPT ![g] = Tail(@)]
      /\ SendToWorker(g, w, req)
  BY DEF AssignAndActivate, w
<1>4. /\ worker_sock' \in [GPUs -> [Workers -> Seq(ControlReqs)]]
      /\ worker_sock'[g][w] = Append(worker_sock[g][w], req)
      /\ \A h \in GPUs, v \in Workers :
           <<h, v>> # <<g, w>> => worker_sock'[h][v] = worker_sock[h][v]
  BY <1>2, <1>3, SendEffect DEF PoolInv
<1>5. /\ model_to_worker'[g][m] = w
      /\ \A h \in GPUs, o \in Models :
           <<h, o>> # <<g, m>> => model_to_worker'[h][o] = model_to_worker[h][o]
      /\ free_workers'[g] = Tail(free_workers[g])
      /\ \A h \in GPUs : h # g => free_workers'[h] = free_workers[h]
  BY <1>1, <1>3 DEF PoolInv, PoolTypeOK
<1>6. PoolTypeOK'
  BY <1>1, <1>2, <1>3, <1>4 DEF PoolInv, PoolTypeOK
<1>7. \A o \in Models : model_to_worker[g][o] # w
  BY <1>2 DEF PoolInv, PoolPartition, FreeIffIdle
<1>8. ASSUME NEW h \in GPUs PROVE (NoDuplicate(h) /\ FreeIffIdle(h) /\ OneModelEach(h))'
  <2>0. NoDuplicate(h) /\ FreeIffIdle(h) /\ OneModelEach(h)
    BY DEF PoolInv, PoolPartition
  <2>1. CASE h # g
    BY <1>5, <2>0, <2>1 DEF NoDuplicate, FreeIffIdle, OneModelEach, Served
  <2>2. CASE h = g
    <3>1. NoDuplicate(g)'
      BY <1>2, <1>5 DEF NoDuplicate
    <3>2. FreeIffIdle(g)'
      BY <1>1, <1>2, <1>5, <1>7, <2>0, <2>2, PartiesAssumption DEF FreeIffIdle
    <3>3. OneModelEach(g)'
      BY <1>1, <1>5, <1>7, <2>0, <2>2 DEF OneModelEach, Served
    <3> QED
      BY <2>2, <3>1, <3>2, <3>3
  <2> QED
    BY <2>1, <2>2
<1>9. ASSUME NEW h \in GPUs, NEW v \in Workers PROVE (Alternates(h, v) /\ LastAgrees(h, v))'
  <2> DEFINE q == worker_sock[h][v]
  <2>0. Alternates(h, v) /\ LastAgrees(h, v) /\ q \in Seq(ControlReqs)
    BY DEF PoolInv, PoolTypeOK, SocketAlternates
  <2>1. CASE <<h, v>> = <<g, w>>
    <3>1. q # <<>> => q[Len(q)] \in ControlReqs
      BY <2>0
    <3>2. q # <<>> => q[Len(q)].type = "deactivate"
      BY <1>7, <2>0, <2>1, <3>1 DEF LastAgrees, ControlReqs
    <3>3. worker_sock'[h][v] = Append(q, req)
      BY <1>4, <2>1
    <3> DEFINE p == worker_sock'[h][v]
    <3>4. /\ p[Len(p)] = req /\ p # <<>>
          /\ \A i \in 1 .. Len(p) - 1 :
               /\ p[i].type # p[i + 1].type
               /\ p[i].type = "activate" => p[i + 1].model = p[i].model
      <4> HIDE DEF p, q
      <4>1. \A i \in 1 .. Len(q) - 1 :
              /\ q[i].type # q[i + 1].type
              /\ q[i].type = "activate" => q[i + 1].model = q[i].model
        BY <2>0 DEF Alternates, q
      <4>2. p = Append(q, req)
        BY <3>3 DEF p
      <4> QED
        BY <2>0, <3>2, <4>1, <4>2, AppendAlternates
    <3>5. LastAgrees(h, v)'
      BY <1>5, <2>1, <3>4 DEF LastAgrees
    <3> QED
      BY <3>4, <3>5 DEF Alternates
  <2>2. CASE <<h, v>> # <<g, w>>
    <3>1. worker_sock'[h][v] = q
      BY <1>4, <2>2
    <3>2. q # <<>> => q[Len(q)] \in ControlReqs
      BY <2>0
    <3>3. LastAgrees(h, v)'
      <4> SUFFICES ASSUME q # <<>>
                   PROVE  IF q[Len(q)].type = "activate"
                          THEN model_to_worker'[h][q[Len(q)].model] = v
                          ELSE v \in ToSet(free_workers'[h])
        BY <3>1 DEF LastAgrees
      <4>1. CASE q[Len(q)].type = "activate"
        <5>1. model_to_worker[h][q[Len(q)].model] = v /\ q[Len(q)].model \in Models
          BY <2>0, <3>2, <4>1 DEF LastAgrees, ControlReqs
        <5>2. <<h, q[Len(q)].model>> # <<g, m>>
          BY <1>1, <5>1, PartiesAssumption
        <5> QED
          BY <1>5, <4>1, <5>1, <5>2
      <4>2. CASE q[Len(q)].type # "activate"
        <5>1. v \in ToSet(free_workers[h])
          BY <2>0, <4>2 DEF LastAgrees
        <5>2. v \in ToSet(free_workers'[h])
          BY <1>2, <1>5, <2>2, <5>1
        <5> QED
          BY <4>2, <5>2
      <4> QED
        BY <4>1, <4>2
    <3> QED
      BY <2>0, <3>1, <3>3 DEF Alternates
  <2> QED
    BY <2>1, <2>2
<1> QED
  BY <1>6, <1>8, <1>9 DEF PoolInv, PoolPartition, SocketAlternates

\* release_worker: the worker of a model has been told to activate it last.
LEMMA ReleaseStep ==
  ASSUME PoolInv, NEW g \in GPUs, NEW req \in ControlReqs, req.type = "deactivate",
         ReleaseAndDeactivate(g, req)
  PROVE  PoolInv'
<1> DEFINE m == req.model
           w == model_to_worker[g][m]
<1>1. /\ m \in Models /\ w \in Workers /\ w # NoWorker
      /\ free_workers[g] \in Seq(Workers)
  BY DEF ReleaseAndDeactivate, Served, PoolInv, PoolTypeOK, ControlReqs
<1> HIDE DEF w
<1>2. /\ model_to_worker[g][m] = w
      /\ model_to_worker' = [model_to_worker EXCEPT ![g][m] = NoWorker]
      /\ free_workers' = [free_workers EXCEPT ![g] = Append(@, w)]
      /\ SendToWorker(g, w, req)
  BY DEF ReleaseAndDeactivate, w
<1>3. /\ worker_sock' \in [GPUs -> [Workers -> Seq(ControlReqs)]]
      /\ worker_sock'[g][w] = Append(worker_sock[g][w], req)
      /\ \A h \in GPUs, v \in Workers :
           <<h, v>> # <<g, w>> => worker_sock'[h][v] = worker_sock[h][v]
  BY <1>1, <1>2, SendEffect DEF PoolInv
<1>4. /\ model_to_worker'[g][m] = NoWorker
      /\ \A h \in GPUs, o \in Models :
           <<h, o>> # <<g, m>> => model_to_worker'[h][o] = model_to_worker[h][o]
      /\ free_workers'[g] = Append(free_workers[g], w)
      /\ \A h \in GPUs : h # g => free_workers'[h] = free_workers[h]
  BY <1>1, <1>2 DEF PoolInv, PoolTypeOK
<1>5. w \notin ToSet(free_workers[g]) /\ IsInjective(free_workers[g])
  BY <1>1, <1>2 DEF PoolInv, PoolPartition, FreeIffIdle, NoDuplicate
<1>6. /\ Append(free_workers[g], w) \in Seq(Workers)
      /\ ToSet(Append(free_workers[g], w)) = ToSet(free_workers[g]) \cup {w}
      /\ IsInjective(Append(free_workers[g], w))
  BY <1>1, <1>5, ToSetAppend, InjectiveAppend
<1>7. \A o \in Models : model_to_worker[g][o] = w => o = m
  BY <1>1, <1>2 DEF PoolInv, PoolPartition, OneModelEach, Served
<1>8. PoolTypeOK'
  BY <1>1, <1>2, <1>3, <1>6 DEF PoolInv, PoolTypeOK
<1>9. ASSUME NEW h \in GPUs PROVE (NoDuplicate(h) /\ FreeIffIdle(h) /\ OneModelEach(h))'
  <2>0. NoDuplicate(h) /\ FreeIffIdle(h) /\ OneModelEach(h)
    BY DEF PoolInv, PoolPartition
  <2>1. CASE h # g
    BY <1>4, <2>0, <2>1 DEF NoDuplicate, FreeIffIdle, OneModelEach, Served
  <2>2. CASE h = g
    <3>1. NoDuplicate(g)'
      BY <1>4, <1>6 DEF NoDuplicate
    <3>2. FreeIffIdle(g)'
      BY <1>1, <1>2, <1>4, <1>6, <1>7, <2>0, <2>2, PartiesAssumption DEF FreeIffIdle
    <3>3. OneModelEach(g)'
      BY <1>1, <1>4, <2>0, <2>2 DEF OneModelEach, Served
    <3> QED
      BY <2>2, <3>1, <3>2, <3>3
  <2> QED
    BY <2>1, <2>2
<1>10. ASSUME NEW h \in GPUs, NEW v \in Workers PROVE (Alternates(h, v) /\ LastAgrees(h, v))'
  <2> DEFINE q == worker_sock[h][v]
  <2>0. Alternates(h, v) /\ LastAgrees(h, v) /\ q \in Seq(ControlReqs)
    BY DEF PoolInv, PoolTypeOK, SocketAlternates
  <2>a. q # <<>> => q[Len(q)] \in ControlReqs
    BY <2>0
  <2>1. CASE <<h, v>> = <<g, w>>
    <3>1. q # <<>> => q[Len(q)].type = "activate" /\ q[Len(q)].model = m
      BY <1>5, <1>7, <2>0, <2>a, <2>1 DEF LastAgrees, ControlReqs
    <3>2. worker_sock'[h][v] = Append(q, req)
      BY <1>3, <2>1
    <3> DEFINE p == worker_sock'[h][v]
    <3>3. /\ p[Len(p)] = req /\ p # <<>>
          /\ \A i \in 1 .. Len(p) - 1 :
               /\ p[i].type # p[i + 1].type
               /\ p[i].type = "activate" => p[i + 1].model = p[i].model
      <4> HIDE DEF p, q
      <4>1. \A i \in 1 .. Len(q) - 1 :
              /\ q[i].type # q[i + 1].type
              /\ q[i].type = "activate" => q[i + 1].model = q[i].model
        BY <2>0 DEF Alternates, q
      <4>2. p = Append(q, req)
        BY <3>2 DEF p
      <4>3. q # <<>> => /\ q[Len(q)].type # req.type
                        /\ q[Len(q)].type = "activate" => req.model = q[Len(q)].model
        BY <3>1
      <4>4. q \in Seq(ControlReqs)
        BY <2>0
      <4> QED
        BY <4>1, <4>2, <4>3, <4>4, AppendAlternates
    <3>4. LastAgrees(h, v)'
      BY <1>4, <1>6, <2>1, <3>3 DEF LastAgrees
    <3> QED
      BY <3>3, <3>4 DEF Alternates
  <2>2. CASE <<h, v>> # <<g, w>>
    <3>1. worker_sock'[h][v] = q
      BY <1>3, <2>2
    <3>2. LastAgrees(h, v)'
      <4> SUFFICES ASSUME q # <<>>
                   PROVE  IF q[Len(q)].type = "activate"
                          THEN model_to_worker'[h][q[Len(q)].model] = v
                          ELSE v \in ToSet(free_workers'[h])
        BY <3>1 DEF LastAgrees
      <4>1. CASE q[Len(q)].type = "activate"
        <5>1. model_to_worker[h][q[Len(q)].model] = v /\ q[Len(q)].model \in Models
          BY <2>0, <2>a, <4>1 DEF LastAgrees, ControlReqs
        <5>2. <<h, q[Len(q)].model>> # <<g, m>>
          BY <1>2, <2>2, <5>1
        <5> QED
          BY <1>4, <4>1, <5>1, <5>2
      <4>2. CASE q[Len(q)].type # "activate"
        <5>1. v \in ToSet(free_workers[h])
          BY <2>0, <4>2 DEF LastAgrees
        <5>2. v \in ToSet(free_workers'[h])
          BY <1>4, <1>6, <5>1
        <5> QED
          BY <4>2, <5>2
      <4> QED
        BY <4>1, <4>2
    <3> QED
      BY <2>0, <3>1, <3>2 DEF Alternates
  <2> QED
    BY <2>1, <2>2
<1> QED
  BY <1>8, <1>9, <1>10 DEF PoolInv, PoolPartition, SocketAlternates

\* A worker that drains its socket leaves nothing there to say anything about.
LEMMA DrainStep ==
  ASSUME PoolInv, NEW g \in GPUs, NEW w \in Workers, DrainSocket(g, w),
         UNCHANGED <<model_to_worker, free_workers>>
  PROVE  PoolInv'
<1>1. /\ worker_sock' \in [GPUs -> [Workers -> Seq(ControlReqs)]]
      /\ worker_sock'[g][w] = <<>>
      /\ \A h \in GPUs, v \in Workers :
           <<h, v>> # <<g, w>> => worker_sock'[h][v] = worker_sock[h][v]
  BY DEF DrainSocket, PoolInv, PoolTypeOK
<1>2. PoolTypeOK'
  BY <1>1 DEF PoolInv, PoolTypeOK
<1>3. PoolPartition'
  BY DEF PoolInv, PoolPartition, NoDuplicate, FreeIffIdle, OneModelEach, Served
<1>4. ASSUME NEW h \in GPUs, NEW v \in Workers PROVE (Alternates(h, v) /\ LastAgrees(h, v))'
  <2>1. CASE <<h, v>> = <<g, w>>
    BY <1>1, <2>1 DEF Alternates, LastAgrees
  <2>2. CASE <<h, v>> # <<g, w>>
    <3>1. worker_sock'[h][v] = worker_sock[h][v]
      BY <1>1, <2>2
    <3>2. Alternates(h, v) /\ LastAgrees(h, v)
      BY DEF PoolInv, SocketAlternates
    <3>3. Alternates(h, v)'
      BY <3>1, <3>2 DEF Alternates
    <3>4. LastAgrees(h, v)'
      BY <3>1, <3>2 DEF LastAgrees
    <3> QED
      BY <3>3, <3>4
  <2> QED
    BY <2>1, <2>2
<1> QED
  BY <1>2, <1>3, <1>4 DEF PoolInv, SocketAlternates

\* Every step of the pool preserves the invariant.
LEMMA PoolStep == PoolInv /\ [PoolNext]_poolVars => PoolInv'
<1> SUFFICES ASSUME PoolInv, [PoolNext]_poolVars PROVE PoolInv'
  OBVIOUS
<1>1. CASE UNCHANGED poolVars
  <2>1. UNCHANGED <<model_to_worker, free_workers, worker_sock>>
    BY <1>1 DEF poolVars
  <2>2. PoolTypeOK'
    BY <2>1 DEF PoolInv, PoolTypeOK
  <2>3. PoolPartition'
    BY <2>1 DEF PoolInv, PoolPartition, NoDuplicate, FreeIffIdle, OneModelEach, Served
  <2>4. ASSUME NEW g \in GPUs, NEW w \in Workers PROVE (Alternates(g, w) /\ LastAgrees(g, w))'
    <3>1. Alternates(g, w) /\ LastAgrees(g, w)
      BY DEF PoolInv, SocketAlternates
    <3>2. Alternates(g, w)'
      BY <2>1, <3>1 DEF Alternates
    <3>3. LastAgrees(g, w)'
      BY <2>1, <3>1 DEF LastAgrees
    <3> QED
      BY <3>2, <3>3
  <2> QED
    BY <2>2, <2>3, <2>4 DEF PoolInv, SocketAlternates
<1>2. CASE PoolNext
  <2>1. PICK g \in GPUs :
          \/ \E req \in ControlReqs :
               \/ req.type = "activate" /\ AssignAndActivate(g, req)
               \/ req.type = "deactivate" /\ ReleaseAndDeactivate(g, req)
          \/ \E w \in Workers : DrainSocket(g, w) /\ UNCHANGED <<model_to_worker, free_workers>>
    BY <1>2 DEF PoolNext
  <2> QED
    BY <2>1, AssignStep, ReleaseStep, DrainStep
<1> QED
  BY <1>1, <1>2

\* The pool is correct for every number of GPUs, workers and models: no worker
\* is lost, queued twice or shared, and a worker re-assigned before it has
\* deactivated reads the deactivation before the next activation.
THEOREM PoolCorrect == PoolSpec => [](PoolTypeOK /\ PoolPartition /\ SocketAlternates)
<1>1. PoolInit => PoolInv
  BY InitInv DEF PoolInv
<1>2. PoolInv /\ [PoolNext]_poolVars => PoolInv'
  BY PoolStep
<1>3. PoolInv => PoolTypeOK /\ PoolPartition /\ SocketAlternates
  BY DEF PoolInv
<1> QED
  BY <1>1, <1>2, <1>3, PTL DEF PoolSpec

-------------------------------------------------------------------------------
(* The whole system drives every pool as WorkerPool allows *)

\* The receiver obeys a message it has marked and not yet removed.
HandlerInv ==
  /\ handler_sock \in [GPUs -> Seq(ControlReqs)]
  /\ rpc \in [GPUs -> {"frontend", "handler", "obey", "engine"}]
  /\ \A g \in GPUs : rpc[g] = "obey" => handler_sock[g] # <<>>

\* The messages callers send are well formed.
LEMMA CallTyped ==
  /\ \A m \in Models : ActivateReq(m) \in ControlReqs
  /\ \A m \in Models, d \in Deactivations : DeactivateReq(m, d[1], d[2]) \in ControlReqs
BY CallersAssumption DEF ActivateReq, DeactivateReq, ControlReqs

\* A queue that has just been appended to is not empty.
LEMMA AppendLeavesSome ==
  ASSUME NEW S, NEW s \in Seq(S), NEW x \in S
  PROVE  Append(s, x) \in Seq(S) /\ Append(s, x) # <<>>
<1>1. Append(s, x) \in Seq(S) /\ Len(Append(s, x)) = Len(s) + 1 /\ Len(s) \in Nat
  OBVIOUS
<1>2. Len(<<>>) = 0
  OBVIOUS
<1> QED
  BY <1>1, <1>2

\* A call is appended to the socket of the GPU's scheduler, wherever that is.
LEMMA HandlerCall ==
  ASSUME HandlerInv, NEW g \in GPUs, NEW req \in ControlReqs, Call(g, req)
  PROVE  HandlerInv'
<1> DEFINE q == handler_sock[g]
<1>0. q \in Seq(ControlReqs)
  BY DEF HandlerInv
<1> HIDE DEF q
<1>1. Append(q, req) \in Seq(ControlReqs) /\ Append(q, req) # <<>>
  BY <1>0, AppendLeavesSome
<1>2. handler_sock' = [handler_sock EXCEPT ![g] = Append(q, req)] /\ rpc' = rpc
  BY DEF Call, q
<1> QED
  BY <1>1, <1>2 DEF HandlerInv

\* The receiver marks a message, then obeys it, and removes no other.
LEMMA HandlerReceiver ==
  ASSUME HandlerInv, NEW g \in GPUs, Receiver(g)
  PROVE  HandlerInv'
<1>1. ASSUME NEW type, Obeys(g, type) PROVE HandlerInv'
  <2>1. handler_sock[g] \in Seq(ControlReqs) /\ handler_sock[g] # <<>>
    BY <1>1 DEF HandlerInv, Obeys
  <2>2. Tail(handler_sock[g]) \in Seq(ControlReqs)
    BY <2>1
  <2> QED
    BY <1>1, <2>2 DEF HandlerInv, Obeys
<1>2. CASE HandleDeactivate(g)
  BY <1>1, <1>2 DEF HandleDeactivate
<1>3. CASE HandleActivate(g)
  BY <1>1, <1>3 DEF HandleActivate
<1>4. CASE MarkModel(g)
  BY <1>4 DEF MarkModel, HandlerInv
<1>5. ASSUME UNCHANGED handler_sock,
             \/ UNCHANGED rpc
             \/ \E s \in {"frontend", "handler", "engine"} : rpc' = [rpc EXCEPT ![g] = s]
      PROVE  HandlerInv'
  BY <1>5 DEF HandlerInv
<1>6. CASE RecvFromFrontendQueue(g) \/ RecvFromEngine(g) \/ HandleReport(g) \/ ReportsHandled(g)
  BY <1>5, <1>6 DEF RecvFromFrontendQueue, RecvFromEngine, HandleReport, ReportsHandled
<1> QED
  BY <1>2, <1>3, <1>4, <1>6 DEF Receiver

\* No other step touches the handler's socket or the receiver's position.
LEMMA HandlerStep == HandlerInv /\ [Next]_vars => HandlerInv'
<1> SUFFICES ASSUME HandlerInv, [Next]_vars PROVE HandlerInv'
  OBVIOUS
<1>1. ASSUME UNCHANGED <<handler_sock, rpc>> PROVE HandlerInv'
  BY <1>1 DEF HandlerInv
<1>2. CASE UNCHANGED vars
  BY <1>1, <1>2 DEF vars, schedVars
<1>3. ASSUME NEW r \in Reqs, Generate(r) PROVE HandlerInv'
  BY <1>1, <1>3 DEF Generate, schedVars
<1>4. ASSUME NEW g \in GPUs, NEW m \in Models, Activate(g, m) \/ Deactivate(g, m)
      PROVE  HandlerInv'
  BY <1>4, CallTyped, HandlerCall DEF Activate, Deactivate
<1>5. ASSUME NEW g \in GPUs, SchedulerStep(g) PROVE HandlerInv'
  <2>1. CASE Receiver(g)
    BY <2>1, HandlerReceiver
  <2>2. CASE SchedulingLoop(g)
    BY <1>1, <2>2 DEF SchedulingLoop, ReadBackendLens, AdmissionControl, EndAdmission,
                      SendToBackendQueue
  <2> QED
    BY <1>5, <2>1, <2>2 DEF SchedulerStep
<1>6. ASSUME NEW g \in GPUs, NEW w \in Workers, EngineStep(g, w) PROVE HandlerInv'
  BY <1>1, <1>6 DEF EngineStep, schedVars
<1> QED
  BY <1>2, <1>3, <1>4, <1>5, <1>6 DEF Next

\* What a step of the system does to the pools, a pool may do.
LEMMA PoolSimulation == HandlerInv /\ [Next]_vars => [PoolNext]_poolVars
<1> SUFFICES ASSUME HandlerInv, [Next]_vars PROVE [PoolNext]_poolVars
  OBVIOUS
<1>1. CASE UNCHANGED vars
  BY <1>1 DEF vars
<1>2. ASSUME NEW r \in Reqs, Generate(r) PROVE UNCHANGED poolVars
  BY <1>2 DEF Generate
<1>3. ASSUME NEW g \in GPUs, NEW m \in Models, Activate(g, m) \/ Deactivate(g, m)
      PROVE  UNCHANGED poolVars
  BY <1>3 DEF Activate, Deactivate, Call
<1>4. ASSUME NEW g \in GPUs, SchedulerStep(g) PROVE [PoolNext]_poolVars
  <2>1. ASSUME NEW type, Obeys(g, type)
        PROVE  Head(handler_sock[g]) \in ControlReqs /\ Head(handler_sock[g]).type = type
    <3>1. handler_sock[g] \in Seq(ControlReqs) /\ handler_sock[g] # <<>>
      BY <2>1 DEF HandlerInv, Obeys
    <3> QED
      BY <2>1, <3>1 DEF Obeys
  <2>2. CASE HandleActivate(g)
    BY <2>1, <2>2 DEF HandleActivate, PoolNext
  <2>3. CASE HandleDeactivate(g)
    BY <2>1, <2>3 DEF HandleDeactivate, PoolNext
  <2>4. CASE RecvFromFrontendQueue(g) \/ MarkModel(g) \/ RecvFromEngine(g)
             \/ HandleReport(g) \/ ReportsHandled(g)
    BY <2>4 DEF RecvFromFrontendQueue, MarkModel, RecvFromEngine, HandleReport, ReportsHandled
  <2>5. CASE SchedulingLoop(g)
    BY <2>5 DEF SchedulingLoop, ReadBackendLens, AdmissionControl, EndAdmission,
                SendToBackendQueue
  <2> QED
    BY <1>4, <2>2, <2>3, <2>4, <2>5 DEF SchedulerStep, Receiver
<1>5. ASSUME NEW g \in GPUs, NEW w \in Workers, EngineStep(g, w) PROVE [PoolNext]_poolVars
  <2>1. CASE PollControl(g, w)
    BY <2>1 DEF PollControl, PoolNext
  <2>2. CASE HandleActivateRequest(g, w) \/ RefuseDeactivateRequest(g, w)
             \/ HandleDeactivateRequest(g, w) \/ CompleteDeactivation(g, w)
    BY <2>2 DEF HandleActivateRequest, RefuseDeactivateRequest, HandleDeactivateRequest,
                CompleteDeactivation
  <2>3. CASE Generation(g, w)
    BY <2>3 DEF Generation, RecvGenerationRequests, StartRunning, Retract, Finish
  <2> QED
    BY <1>5, <2>1, <2>2, <2>3 DEF EngineStep, Control
<1> QED
  BY <1>1, <1>2, <1>3, <1>4, <1>5 DEF Next

\* The receiver thread obeys well-formed messages only.
LEMMA HandlerTyped == Spec => []HandlerInv
<1>1. Init => HandlerInv
  BY DEF Init, SchedInit, HandlerInv
<1> QED
  BY <1>1, HandlerStep, PTL DEF Spec

\* The composed system implements the pool: scheduler threads and engines do
\* nothing to assignments, idle queues and worker sockets a pool alone would not.
THEOREM PoolImplemented == Spec => PoolSpec
<1>1. Init => PoolInit
  BY DEF Init
<1>2. HandlerInv /\ [Next]_vars => [PoolNext]_poolVars
  BY PoolSimulation
<1> QED
  BY <1>1, <1>2, HandlerTyped, PTL DEF Spec, PoolSpec

\* In the composed system no worker is lost, queued twice or shared, and every
\* socket brings a worker its activations and deactivations in turn.
THEOREM ServingPool == Spec => [](PoolTypeOK /\ PoolPartition /\ SocketAlternates)
BY PoolImplemented, PoolCorrect, PTL
-------------------------------------------------------------------------------
(* Type correctness *)

\* Reading a list yields elements of its kind.
LEMMA ToSetIn == ASSUME NEW S, NEW s \in Seq(S) PROVE ToSet(s) \subseteq S
BY DEF ToSet

\* A set of requests put into a list, in whatever order, is a list of requests.
LEMMA OrderTyped ==
  ASSUME NEW T \in SUBSET Reqs, NEW order \in SetToSeqs(T)
  PROVE  order \in Seq(T)
<1>1. Cardinality(T) \in Nat
  BY FS_Subset, FS_CardinalityType, PartiesAssumption
<1>2. order \in [1 .. Cardinality(T) -> T]
  BY DEF SetToSeqs
<1> QED
  BY <1>1, <1>2

\* What a worker selects is among what it read.
LEMMA SelectedTyped ==
  ASSUME NEW M, NEW batch \in Seq(M), NEW isActivated
  PROVE  Selected(batch, isActivated) \in Seq(M)
<1>1. ASSUME NEW type PROVE FirstOf(batch, type) \in Seq(M)
  <2> DEFINE I == {i \in DOMAIN batch :
                     batch[i].type = type /\ \A j \in 1 .. i - 1 : batch[j].type # type}
  <2>1. CASE I = {}
    BY <2>1 DEF FirstOf
  <2>2. CASE I # {}
    <3> DEFINE k == CHOOSE i \in I : TRUE
    <3>1. k \in I
      BY <2>2
    <3>2. batch[k] \in M
      BY <3>1
    <3>3. FirstOf(batch, type) = <<batch[k]>>
      BY <2>2 DEF FirstOf
    <3> QED
      BY <3>2, <3>3
  <2> QED
    BY <2>1, <2>2
<1> DEFINE act == FirstOf(batch, "activate")
           deact == FirstOf(batch, "deactivate")
<1>2. act \in Seq(M) /\ deact \in Seq(M)
  BY <1>1
<1>3. Selected(batch, isActivated) = IF isActivated THEN deact \o act ELSE act \o deact
  BY DEF Selected
<1> HIDE DEF act, deact
<1>4. act \o deact \in Seq(M) /\ deact \o act \in Seq(M)
  BY <1>2
<1> QED
  BY <1>3, <1>4

\* An engine that serves hosts a model, and one that runs to completion has the
\* deactivation it obeys still before it.
ServesModel(g, w) == activated[g][w] \/ draining[g][w] => hosted[g][w] \in Models
DrainsForMessage(g, w) == draining[g][w] => ~activated[g][w] /\ todo[g][w] # <<>>
EngineInv == \A g \in GPUs, w \in Workers : ServesModel(g, w) /\ DrainsForMessage(g, w)

RequestsTypeOK == submitted \in SUBSET Reqs /\ commands \in 0 .. MaxCommands
ServingTypeOK == RedisTypeOK /\ SchedTypeOK /\ EngineTypeOK /\ RequestsTypeOK
ServingInv == PoolTypeOK /\ ServingTypeOK /\ HandlerInv /\ EngineInv

\* The system starts well typed.
LEMMA ServingInit == Init => ServingTypeOK /\ EngineInv
<1> SUFFICES ASSUME Init PROVE ServingTypeOK /\ EngineInv
  OBVIOUS
<1>1. RedisTypeOK
  BY DEF Init, RedisInit, RedisTypeOK
<1>2. SchedTypeOK
  BY DEF Init, SchedInit, SchedTypeOK, ModelStates
<1>3. ASSUME NEW g \in GPUs, NEW w \in Workers, w < Len(InitPlacement[g])
      PROVE  InitPlacement[g][w + 1] \in Models
  <2>1. InitPlacement[g] \in Seq(Models) /\ w + 1 \in 1 .. Len(InitPlacement[g])
    BY <1>3, PlacementAssumption, PartiesAssumption DEF Workers
  <2> QED
    BY <2>1
<1>4. hosted \in [GPUs -> [Workers -> Models \cup {NoModel}]]
  BY <1>3 DEF Init, EngineInit
<1>5. activated \in [GPUs -> [Workers -> BOOLEAN]]
  BY DEF Init, EngineInit
<1>6. EngineTypeOK
  BY <1>4, <1>5 DEF Init, EngineInit, EngineTypeOK
<1>7. EngineInv
  BY <1>3 DEF Init, EngineInit, EngineInv, ServesModel, DrainsForMessage
<1>8. RequestsTypeOK
  BY CallersAssumption DEF Init, RequestsTypeOK
<1> QED
  BY <1>1, <1>2, <1>6, <1>7, <1>8 DEF ServingTypeOK

\* The first element of a list is one of its kind, and so are the others.
LEMMA HeadTail ==
  ASSUME NEW M, NEW q \in Seq(M), q # <<>>
  PROVE  Head(q) \in M /\ Tail(q) \in Seq(M)
OBVIOUS

\* Every message names a model.
LEMMA NamesModel == \A req \in ControlReqs : req.model \in Models
BY DEF ControlReqs

\* Clients and callers send well-typed requests.
LEMMA ClientTypes ==
  ASSUME ServingInv,
         \/ \E r \in Reqs : Generate(r)
         \/ \E g \in GPUs, m \in Models : Activate(g, m) \/ Deactivate(g, m)
  PROVE  ServingTypeOK' /\ EngineInv'
<1>1. ASSUME NEW r \in Reqs, Generate(r) PROVE ServingTypeOK' /\ EngineInv'
  <2>1. frontend[ModelOf[r]] \in Seq(Reqs)
    BY PartiesAssumption DEF ServingInv, ServingTypeOK, RedisTypeOK
  <2>2. Append(frontend[ModelOf[r]], r) \in Seq(Reqs)
    BY <2>1
  <2>3. RedisTypeOK'
    BY <1>1, <2>2 DEF Generate, ServingInv, ServingTypeOK, RedisTypeOK
  <2>4. SchedTypeOK' /\ EngineTypeOK' /\ EngineInv'
    BY <1>1 DEF Generate, ServingInv, ServingTypeOK, SchedTypeOK, EngineTypeOK, schedVars,
                engineVars, EngineInv, ServesModel, DrainsForMessage
  <2>5. RequestsTypeOK'
    BY <1>1 DEF Generate, ServingInv, ServingTypeOK, RequestsTypeOK
  <2> QED
    BY <2>3, <2>4, <2>5 DEF ServingTypeOK
<1>2. ASSUME NEW g \in GPUs, NEW req \in ControlReqs, Call(g, req)
      PROVE  ServingTypeOK' /\ EngineInv'
  <2>1. HandlerInv'
    BY <1>2, HandlerCall DEF ServingInv
  <2>2. SchedTypeOK'
    BY <1>2, <2>1 DEF Call, ServingInv, ServingTypeOK, SchedTypeOK, HandlerInv
  <2>3. RedisTypeOK' /\ EngineTypeOK' /\ EngineInv'
    BY <1>2 DEF Call, ServingInv, ServingTypeOK, RedisTypeOK, EngineTypeOK, redisVars,
                engineVars, EngineInv, ServesModel, DrainsForMessage
  <2>4. RequestsTypeOK'
    BY <1>2, CallersAssumption DEF Call, ServingInv, ServingTypeOK, RequestsTypeOK
  <2> QED
    BY <2>2, <2>3, <2>4 DEF ServingTypeOK
<1> QED
  BY <1>1, <1>2, CallTyped DEF Activate, Deactivate

\* The receiver thread keeps every list and queue well typed.
LEMMA ReceiverTypes ==
  ASSUME ServingInv, NEW g \in GPUs, Receiver(g)
  PROVE  RedisTypeOK' /\ SchedTypeOK'
<1> USE DEF ServingInv, ServingTypeOK
<1>0. HandlerInv'
  BY HandlerReceiver
<1>a. ASSUME NEW m \in Models, NEW s \in ModelStates, SetModelState(g, m, s)
      PROVE  model_states' \in [GPUs -> [Models -> ModelStates]]
  BY <1>a DEF SetModelState, SchedTypeOK
<1>1. CASE RecvFromFrontendQueue(g)
  <2>1. \A m \in Models : ToSet(frontend[m]) \subseteq Reqs
    BY ToSetIn DEF RedisTypeOK
  <2>2. UNION {ToSet(frontend[m]) : m \in CanReceive(g)} \subseteq Reqs
    BY <2>1 DEF CanReceive
  <2>3. RedisTypeOK'
    BY <1>1 DEF RecvFromFrontendQueue, RedisTypeOK
  <2>4. SchedTypeOK'
    BY <1>0, <1>1, <2>2 DEF RecvFromFrontendQueue, SchedTypeOK, HandlerInv
  <2> QED
    BY <2>3, <2>4
<1>2. CASE MarkModel(g)
  <2>1. Head(handler_sock[g]).model \in Models
    BY <1>2, HeadTail, NamesModel DEF MarkModel, HandlerInv
  <2>2. SchedTypeOK'
    BY <1>0, <1>2, <2>1 DEF MarkModel, SetModelState, SchedTypeOK, HandlerInv, ModelStates
  <2> QED
    BY <1>2, <2>2 DEF MarkModel, redisVars, RedisTypeOK
<1>3. CASE HandleDeactivate(g)
  <2> DEFINE m == Head(handler_sock[g]).model
             popped == RequestsOf(queue[g], m)
  <2>1. m \in Models
    <3>1. handler_sock[g] \in Seq(ControlReqs) /\ handler_sock[g] # <<>>
      BY <1>3 DEF HandleDeactivate, Obeys, HandlerInv
    <3> QED
      BY <3>1, HeadTail, NamesModel
  <2>2. popped \in SUBSET Reqs
    BY DEF RequestsOf, SchedTypeOK
  <2> HIDE DEF popped, m
  <2>3. PICK order \in SetToSeqs(popped) :
          frontend' = [frontend EXCEPT ![m] = @ \o order \o backend[m]]
    BY <1>3 DEF HandleDeactivate, popped, m
  <2>4. order \in Seq(Reqs)
    <3>1. order \in Seq(popped)
      BY <2>2, OrderTyped
    <3> QED
      BY <2>2, <3>1
  <2>5. frontend[m] \o order \o backend[m] \in Seq(Reqs)
    <3>1. frontend[m] \in Seq(Reqs) /\ backend[m] \in Seq(Reqs)
      BY <2>1 DEF RedisTypeOK
    <3> QED
      BY <2>4, <3>1
  <2>6. RedisTypeOK'
    <3>1. frontend' \in [Models -> Seq(Reqs)]
      BY <2>3, <2>5 DEF RedisTypeOK
    <3>2. backend' \in [Models -> Seq(Reqs)]
      <4>1. backend' = [backend EXCEPT ![m] = <<>>]
        BY <1>3 DEF HandleDeactivate, m
      <4>2. <<>> \in Seq(Reqs)
        OBVIOUS
      <4> QED
        BY <4>1, <4>2 DEF RedisTypeOK
    <3> QED
      BY <1>3, <3>1, <3>2 DEF HandleDeactivate, RedisTypeOK
  <2>7. queue' \in [GPUs -> SUBSET Reqs]
    BY <1>3 DEF HandleDeactivate, SchedTypeOK
  <2>8. SchedTypeOK'
    BY <1>0, <1>3, <2>7 DEF HandleDeactivate, SchedTypeOK, HandlerInv
  <2> QED
    BY <2>6, <2>8
<1>4. CASE HandleActivate(g)
  <2>1. Head(handler_sock[g]).model \in Models
    <3>1. handler_sock[g] \in Seq(ControlReqs) /\ handler_sock[g] # <<>>
      BY <1>4 DEF HandleActivate, Obeys, HandlerInv
    <3> QED
      BY <3>1, HeadTail, NamesModel
  <2>2. model_states' \in [GPUs -> [Models -> ModelStates]]
    <3>1. CASE UNCHANGED model_states
      BY <3>1 DEF SchedTypeOK
    <3>2. CASE SetModelState(g, Head(handler_sock[g]).model, "deactivated")
      BY <1>a, <2>1, <3>2 DEF ModelStates
    <3> QED
      BY <1>4, <3>1, <3>2 DEF HandleActivate
  <2>3. SchedTypeOK'
    BY <1>0, <1>4, <2>2 DEF HandleActivate, SchedTypeOK, HandlerInv
  <2> QED
    BY <1>4, <2>3 DEF HandleActivate, redisVars, RedisTypeOK
<1>5. CASE RecvFromEngine(g)
  <2>1. RedisTypeOK'
    BY <1>5 DEF RecvFromEngine, RedisTypeOK
  <2>2. SchedTypeOK'
    BY <1>0, <1>5 DEF RecvFromEngine, RedisTypeOK, SchedTypeOK, HandlerInv
  <2> QED
    BY <2>1, <2>2
<1>6. CASE HandleReport(g)
  <2>1. /\ Head(reports[g]) \in ReqOutputs
        /\ Tail(reports[g]) \in Seq(ReqOutputs)
    BY <1>6 DEF HandleReport, SchedTypeOK
  <2>2. Head(reports[g]).model \in Models
    BY <2>1 DEF ReqOutputs
  <2>3. model_states' \in [GPUs -> [Models -> ModelStates]]
    <3>1. CASE UNCHANGED model_states
      BY <3>1 DEF SchedTypeOK
    <3>2. ASSUME NEW s \in {"activated", "deactivated"},
                 SetModelState(g, Head(reports[g]).model, s)
          PROVE  model_states' \in [GPUs -> [Models -> ModelStates]]
      BY <1>a, <2>2, <3>2 DEF ModelStates
    <3> QED
      BY <1>6, <3>1, <3>2 DEF HandleReport
  <2>4. SchedTypeOK'
    BY <1>0, <1>6, <2>1, <2>3 DEF HandleReport, SchedTypeOK, HandlerInv
  <2> QED
    BY <1>6, <2>4 DEF HandleReport, redisVars, RedisTypeOK
<1>7. CASE ReportsHandled(g)
  <2>1. SchedTypeOK'
    BY <1>0, <1>7 DEF ReportsHandled, SchedTypeOK, HandlerInv
  <2> QED
    BY <1>7, <2>1 DEF ReportsHandled, redisVars, RedisTypeOK
<1> QED
  BY <1>1, <1>2, <1>3, <1>4, <1>5, <1>6, <1>7 DEF Receiver

\* So does the scheduling thread.
LEMMA SchedulingTypes ==
  ASSUME ServingInv, NEW g \in GPUs, SchedulingLoop(g)
  PROVE  RedisTypeOK' /\ SchedTypeOK'
<1> USE DEF ServingInv, ServingTypeOK
<1>1. CASE ReadBackendLens(g)
  BY <1>1 DEF ReadBackendLens, SchedTypeOK, RedisTypeOK, redisVars
<1>2. CASE AdmissionControl(g)
  <2>1. PICK r \in queue[g] :
          /\ queue' = [queue EXCEPT ![g] = @ \ {r}]
          /\ \/ /\ admitted' = [admitted EXCEPT ![g] = @ \cup {r}]
                /\ UNCHANGED new_queue
             \/ /\ new_queue' = [new_queue EXCEPT ![g] = @ \cup {r}]
                /\ UNCHANGED admitted
    BY <1>2 DEF AdmissionControl
  <2>2. r \in Reqs
    BY DEF SchedTypeOK
  <2>3. /\ queue' \in [GPUs -> SUBSET Reqs] /\ new_queue' \in [GPUs -> SUBSET Reqs]
        /\ admitted' \in [GPUs -> SUBSET Reqs]
    <3>1. queue' \in [GPUs -> SUBSET Reqs]
      BY <2>1 DEF SchedTypeOK
    <3>a. /\ new_queue[g] \cup {r} \in SUBSET Reqs
          /\ admitted[g] \cup {r} \in SUBSET Reqs
      BY <2>2 DEF SchedTypeOK
    <3>2. new_queue' \in [GPUs -> SUBSET Reqs]
      BY <2>1, <3>a DEF SchedTypeOK
    <3>3. admitted' \in [GPUs -> SUBSET Reqs]
      BY <2>1, <3>a DEF SchedTypeOK
    <3> QED
      BY <3>1, <3>2, <3>3
  <2> QED
    BY <1>2, <2>3 DEF AdmissionControl, SchedTypeOK, RedisTypeOK, redisVars
<1>3. CASE EndAdmission(g)
  BY <1>3 DEF EndAdmission, SchedTypeOK, RedisTypeOK, redisVars
<1>4. CASE SendToBackendQueue(g)
  <2>1. PICK r \in admitted[g] :
          /\ backend' = [backend EXCEPT ![ModelOf[r]] = Append(@, r)]
          /\ admitted' = [admitted EXCEPT ![g] = @ \ {r}]
    BY <1>4 DEF SendToBackendQueue
  <2>2. r \in Reqs /\ ModelOf[r] \in Models
    BY PartiesAssumption DEF SchedTypeOK
  <2>3. Append(backend[ModelOf[r]], r) \in Seq(Reqs)
    BY <2>2 DEF RedisTypeOK
  <2>4. backend' \in [Models -> Seq(Reqs)] /\ admitted' \in [GPUs -> SUBSET Reqs]
    BY <2>1, <2>3 DEF RedisTypeOK, SchedTypeOK
  <2>5. spc' \in [GPUs -> {"lens", "admit", "locked", "send"}]
    BY <1>4 DEF SendToBackendQueue, SchedTypeOK
  <2> QED
    BY <1>4, <2>4, <2>5 DEF SendToBackendQueue, SchedTypeOK, RedisTypeOK
<1> QED
  BY <1>1, <1>2, <1>3, <1>4 DEF SchedulingLoop

\* A report of an engine is well formed.
LEMMA ReportTyped ==
  ASSUME RedisTypeOK, NEW g \in GPUs, NEW req \in ControlReqs, NEW ok \in BOOLEAN,
         Report(g, req, ok)
  PROVE  engine_out' \in [GPUs -> Seq(ReqOutputs)]
<1>1. ReqOutput(req, ok) \in ReqOutputs
  BY DEF ReqOutput, ReqOutputs, ControlReqs
<1>2. Append(engine_out[g], ReqOutput(req, ok)) \in Seq(ReqOutputs)
  BY <1>1 DEF RedisTypeOK
<1> QED
  BY <1>2 DEF Report, RedisTypeOK

\* An engine reads, selects and obeys well-typed messages; it serves only with a
\* model, and runs to completion only for a message.
LEMMA ControlTypes ==
  ASSUME ServingInv, NEW g \in GPUs, NEW w \in Workers, Control(g, w)
  PROVE  RedisTypeOK' /\ EngineTypeOK' /\ EngineInv'
<1> USE DEF ServingInv, ServingTypeOK
<1>0. /\ todo[g][w] \in Seq(ControlReqs) /\ worker_sock[g][w] \in Seq(ControlReqs)
      /\ activated[g][w] \in BOOLEAN
      /\ hosted[g][w] \in Models \cup {NoModel}
      /\ waiting[g][w] \in SUBSET Reqs /\ running[g][w] \in SUBSET Reqs
  BY DEF EngineTypeOK, PoolTypeOK
<1>a. ASSUME todo[g][w] # <<>>
      PROVE  /\ Head(todo[g][w]) \in ControlReqs /\ Head(todo[g][w]).model \in Models
             /\ Tail(todo[g][w]) \in Seq(ControlReqs)
  BY <1>0, <1>a, HeadTail, NamesModel
<1>1. CASE PollControl(g, w)
  <2>1. Selected(worker_sock[g][w], activated[g][w]) \in Seq(ControlReqs)
    BY <1>0, SelectedTyped
  <2>2. EngineTypeOK'
    BY <1>1, <2>1 DEF PollControl, EngineTypeOK
  <2>3. EngineInv'
    BY <1>1 DEF PollControl, EngineInv, ServesModel, DrainsForMessage, EngineTypeOK
  <2> QED
    BY <1>1, <2>2, <2>3 DEF PollControl, redisVars, RedisTypeOK
<1>2. CASE HandleActivateRequest(g, w)
  <2>1. todo[g][w] # <<>> /\ ~draining[g][w]
    BY <1>2 DEF HandleActivateRequest, NextIs
  <2>2. todo' \in [GPUs -> [Workers -> Seq(ControlReqs)]]
    BY <1>2, <1>a, <2>1 DEF HandleActivateRequest, Obeyed, EngineTypeOK
  <2>3. hosted' \in [GPUs -> [Workers -> Models \cup {NoModel}]]
    BY <1>2, <1>a, <2>1 DEF HandleActivateRequest, EngineTypeOK
  <2>4. activated' \in [GPUs -> [Workers -> BOOLEAN]]
    BY <1>2 DEF HandleActivateRequest, EngineTypeOK
  <2>5. EngineTypeOK'
    BY <1>2, <2>2, <2>3, <2>4 DEF HandleActivateRequest, EngineTypeOK
  <2>6. engine_out' \in [GPUs -> Seq(ReqOutputs)]
    BY <1>0, <1>2, <1>a, <2>1, ReportTyped DEF HandleActivateRequest
  <2>7. ASSUME NEW h \in GPUs, NEW v \in Workers
        PROVE  (ServesModel(h, v) /\ DrainsForMessage(h, v))'
    <3>1. CASE <<h, v>> = <<g, w>>
      <4>1. ~draining'[g][w]
        BY <1>2, <2>1 DEF HandleActivateRequest
      <4>2. hosted'[g][w] \in Models
        <5>1. CASE activated[g][w]
          BY <1>2, <5>1 DEF HandleActivateRequest, EngineInv, ServesModel
        <5>2. CASE ~activated[g][w]
          BY <1>2, <1>a, <2>1, <5>2 DEF HandleActivateRequest, EngineTypeOK
        <5> QED
          BY <5>1, <5>2
      <4> QED
        BY <3>1, <4>1, <4>2 DEF ServesModel, DrainsForMessage
    <3>2. CASE <<h, v>> # <<g, w>>
      <4>1. /\ activated'[h][v] = activated[h][v] /\ hosted'[h][v] = hosted[h][v]
            /\ todo'[h][v] = todo[h][v] /\ draining'[h][v] = draining[h][v]
        BY <1>2, <3>2 DEF HandleActivateRequest, Obeyed, EngineTypeOK
      <4> QED
        BY <4>1 DEF EngineInv, ServesModel, DrainsForMessage
    <3> QED
      BY <3>1, <3>2
  <2>8. RedisTypeOK'
    BY <1>2, <2>6 DEF HandleActivateRequest, RedisTypeOK
  <2> QED
    BY <2>5, <2>7, <2>8 DEF EngineInv
<1>3. CASE RefuseDeactivateRequest(g, w)
  <2>1. todo[g][w] # <<>> /\ ~draining[g][w]
    BY <1>3 DEF RefuseDeactivateRequest, NextIs
  <2>2. todo' \in [GPUs -> [Workers -> Seq(ControlReqs)]]
    BY <1>3, <1>a, <2>1 DEF RefuseDeactivateRequest, Obeyed, EngineTypeOK
  <2>3. EngineTypeOK'
    BY <1>3, <2>2 DEF RefuseDeactivateRequest, EngineTypeOK
  <2>4. RedisTypeOK'
    BY <1>3, <1>a, <2>1, ReportTyped DEF RefuseDeactivateRequest, RedisTypeOK
  <2>5. EngineInv'
    BY <1>3, <2>1 DEF RefuseDeactivateRequest, Obeyed, EngineInv, ServesModel,
                      DrainsForMessage, EngineTypeOK
  <2> QED
    BY <2>3, <2>4, <2>5
<1>4. CASE HandleDeactivateRequest(g, w)
  <2> DEFINE req == Head(todo[g][w])
  <2>1. todo[g][w] # <<>> /\ ~draining[g][w] /\ activated[g][w]
    BY <1>4 DEF HandleDeactivateRequest, NextIs
  <2>a. /\ activated' = [activated EXCEPT ![g][w] = FALSE]
        /\ UNCHANGED <<hosted, finished, backend>>
        /\ \/ /\ waiting' = [waiting EXCEPT ![g][w] = KeptWaiting(g, w, req)]
              /\ draining' = [draining EXCEPT ![g][w] = TRUE]
              /\ UNCHANGED <<running, todo, engine_out>>
           \/ /\ waiting' = [waiting EXCEPT ![g][w] = KeptWaiting(g, w, req) \cup running[g][w]]
              /\ running' = [running EXCEPT ![g][w] = {}]
              /\ todo' = [todo EXCEPT ![g][w] = Tail(@)]
              /\ Report(g, req, TRUE)
              /\ UNCHANGED draining
    BY <1>4 DEF HandleDeactivateRequest, Obeyed
  <2>2. todo' \in [GPUs -> [Workers -> Seq(ControlReqs)]]
    <3>1. CASE UNCHANGED todo
      BY <3>1 DEF EngineTypeOK
    <3>2. CASE todo' = [todo EXCEPT ![g][w] = Tail(@)]
      BY <1>a, <2>1, <3>2 DEF EngineTypeOK
    <3> QED
      BY <2>a, <3>1, <3>2
  <2>3. activated' \in [GPUs -> [Workers -> BOOLEAN]]
    BY <2>a DEF EngineTypeOK
  <2>4. waiting' \in [GPUs -> [Workers -> SUBSET Reqs]]
    <3>1. KeptWaiting(g, w, req) \in SUBSET Reqs
      BY <1>0 DEF KeptWaiting
    <3>2. KeptWaiting(g, w, req) \cup running[g][w] \in SUBSET Reqs
      BY <1>0, <3>1
    <3>3. ASSUME NEW S \in SUBSET Reqs, waiting' = [waiting EXCEPT ![g][w] = S]
          PROVE  waiting' \in [GPUs -> [Workers -> SUBSET Reqs]]
      BY <3>3 DEF EngineTypeOK
    <3> QED
      BY <2>a, <3>1, <3>2, <3>3
  <2>5. running' \in [GPUs -> [Workers -> SUBSET Reqs]]
    <3>1. CASE UNCHANGED running
      BY <3>1 DEF EngineTypeOK
    <3>2. CASE running' = [running EXCEPT ![g][w] = {}]
      BY <3>2 DEF EngineTypeOK
    <3> QED
      BY <2>a, <3>1, <3>2
  <2>6. draining' \in [GPUs -> [Workers -> BOOLEAN]]
    <3>1. CASE UNCHANGED draining
      BY <3>1 DEF EngineTypeOK
    <3>2. CASE draining' = [draining EXCEPT ![g][w] = TRUE]
      BY <3>2 DEF EngineTypeOK
    <3> QED
      BY <2>a, <3>1, <3>2
  <2>7. EngineTypeOK'
    BY <2>2, <2>3, <2>4, <2>5, <2>6, <2>a DEF EngineTypeOK
  <2>8. frontend' \in [Models -> Seq(Reqs)]
    <3>1. CASE UNCHANGED frontend
      BY <3>1 DEF RedisTypeOK
    <3>2. ASSUME NEW order \in SetToSeqs(waiting[g][w]),
                 frontend' = [frontend EXCEPT ![hosted[g][w]] = @ \o order]
          PROVE  frontend' \in [Models -> Seq(Reqs)]
      <4>1. hosted[g][w] \in Models
        BY <2>1 DEF EngineInv, ServesModel
      <4>2. order \in Seq(waiting[g][w])
        BY <1>0, OrderTyped
      <4>3. order \in Seq(Reqs)
        BY <1>0, <4>2
      <4>4. frontend[hosted[g][w]] \o order \in Seq(Reqs)
        BY <4>1, <4>3 DEF RedisTypeOK
      <4> QED
        BY <3>2, <4>4 DEF RedisTypeOK
    <3> QED
      BY <1>4, <3>1, <3>2 DEF HandleDeactivateRequest
  <2>9. engine_out' \in [GPUs -> Seq(ReqOutputs)]
    <3>1. CASE UNCHANGED engine_out
      BY <3>1 DEF RedisTypeOK
    <3>2. CASE Report(g, req, TRUE)
      BY <1>a, <2>1, <3>2, ReportTyped
    <3> QED
      BY <1>4, <3>1, <3>2 DEF HandleDeactivateRequest
  <2>10. RedisTypeOK'
    BY <1>4, <2>8, <2>9 DEF HandleDeactivateRequest, RedisTypeOK
  <2>11. ASSUME NEW h \in GPUs, NEW v \in Workers
         PROVE  (ServesModel(h, v) /\ DrainsForMessage(h, v))'
    <3>1. CASE <<h, v>> = <<g, w>>
      <4>1. ~activated'[g][w] /\ hosted'[g][w] \in Models
        BY <2>1, <2>a DEF EngineInv, ServesModel, EngineTypeOK
      <4>2. draining'[g][w] => todo'[g][w] # <<>>
        BY <2>1, <2>a DEF EngineTypeOK
      <4> QED
        BY <3>1, <4>1, <4>2 DEF ServesModel, DrainsForMessage
    <3>2. CASE <<h, v>> # <<g, w>>
      <4>1. /\ activated'[h][v] = activated[h][v] /\ hosted'[h][v] = hosted[h][v]
            /\ todo'[h][v] = todo[h][v] /\ draining'[h][v] = draining[h][v]
        <5>1. activated'[h][v] = activated[h][v] /\ hosted'[h][v] = hosted[h][v]
          BY <2>a, <3>2 DEF EngineTypeOK
        <5>2. todo'[h][v] = todo[h][v]
          <6>1. CASE todo' = [todo EXCEPT ![g][w] = Tail(@)]
            BY <3>2, <6>1 DEF EngineTypeOK
          <6> QED
            BY <2>a, <6>1
        <5>3. draining'[h][v] = draining[h][v]
          <6>1. CASE draining' = [draining EXCEPT ![g][w] = TRUE]
            BY <3>2, <6>1 DEF EngineTypeOK
          <6> QED
            BY <2>a, <6>1
        <5> QED
          BY <5>1, <5>2, <5>3
      <4> QED
        BY <4>1 DEF EngineInv, ServesModel, DrainsForMessage
    <3> QED
      BY <3>1, <3>2
  <2> QED
    BY <2>7, <2>10, <2>11 DEF EngineInv
<1>5. CASE CompleteDeactivation(g, w)
  <2>1. todo[g][w] # <<>> /\ draining[g][w]
    BY <1>5 DEF CompleteDeactivation, EngineInv, DrainsForMessage
  <2>2. todo' \in [GPUs -> [Workers -> Seq(ControlReqs)]]
    BY <1>5, <1>a, <2>1 DEF CompleteDeactivation, Obeyed, EngineTypeOK
  <2>3. draining' \in [GPUs -> [Workers -> BOOLEAN]]
    BY <1>5 DEF CompleteDeactivation, EngineTypeOK
  <2>4. EngineTypeOK'
    BY <1>5, <2>2, <2>3 DEF CompleteDeactivation, EngineTypeOK
  <2>5. RedisTypeOK'
    BY <1>5, <1>a, <2>1, ReportTyped DEF CompleteDeactivation, RedisTypeOK
  <2>6. EngineInv'
    BY <1>5, <2>1 DEF CompleteDeactivation, Obeyed, EngineInv, ServesModel,
                      DrainsForMessage, EngineTypeOK
  <2> QED
    BY <2>4, <2>5, <2>6
<1> QED
  BY <1>1, <1>2, <1>3, <1>4, <1>5 DEF Control

\* Serving moves requests between the lists and sets they may be in.
LEMMA GenerationTypes ==
  ASSUME ServingInv, NEW g \in GPUs, NEW w \in Workers, Generation(g, w)
  PROVE  RedisTypeOK' /\ EngineTypeOK' /\ EngineInv'
<1> USE DEF ServingInv, ServingTypeOK
<1>0. waiting[g][w] \in SUBSET Reqs /\ running[g][w] \in SUBSET Reqs
  BY DEF EngineTypeOK
<1>a. ASSUME UNCHANGED <<activated, hosted, todo, draining>> PROVE EngineInv'
  BY <1>a DEF EngineInv, ServesModel, DrainsForMessage
<1>b. ASSUME NEW S \in SUBSET Reqs, waiting' = [waiting EXCEPT ![g][w] = S]
      PROVE  waiting' \in [GPUs -> [Workers -> SUBSET Reqs]]
  BY <1>b DEF EngineTypeOK
<1>c. ASSUME NEW S \in SUBSET Reqs, running' = [running EXCEPT ![g][w] = S]
      PROVE  running' \in [GPUs -> [Workers -> SUBSET Reqs]]
  BY <1>c DEF EngineTypeOK
<1>1. CASE RecvGenerationRequests(g, w)
  <2> DEFINE key == hosted[g][w]
             list == backend[key]
  <2>1. key \in Models /\ list \in Seq(Reqs)
    BY <1>1 DEF RecvGenerationRequests, EngineInv, ServesModel, RedisTypeOK
  <2>2. PICK n \in 1 .. Len(list) :
          /\ waiting' = [waiting EXCEPT ![g][w] = @ \cup ToSet(SubSeq(list, 1, n))]
          /\ backend' = [backend EXCEPT ![key] = SubSeq(@, n + 1, Len(@))]
    BY <1>1 DEF RecvGenerationRequests
  <2> HIDE DEF list, key
  <2>3. SubSeq(list, 1, n) \in Seq(Reqs) /\ SubSeq(list, n + 1, Len(list)) \in Seq(Reqs)
    BY <2>1
  <2>4. waiting[g][w] \cup ToSet(SubSeq(list, 1, n)) \in SUBSET Reqs
    BY <1>0, <2>3, ToSetIn
  <2>5. waiting' \in [GPUs -> [Workers -> SUBSET Reqs]]
    BY <1>b, <2>2, <2>4
  <2>6. backend' \in [Models -> Seq(Reqs)]
    BY <2>1, <2>2, <2>3 DEF RedisTypeOK, list
  <2>7. EngineTypeOK' /\ RedisTypeOK'
    BY <1>1, <2>5, <2>6 DEF RecvGenerationRequests, EngineTypeOK, RedisTypeOK
  <2> QED
    BY <1>1, <1>a, <2>7 DEF RecvGenerationRequests
<1>2. CASE StartRunning(g, w)
  <2>1. PICK r \in waiting[g][w] :
          /\ waiting' = [waiting EXCEPT ![g][w] = @ \ {r}]
          /\ running' = [running EXCEPT ![g][w] = @ \cup {r}]
    BY <1>2 DEF StartRunning
  <2>2. waiting[g][w] \ {r} \in SUBSET Reqs /\ running[g][w] \cup {r} \in SUBSET Reqs
    BY <1>0
  <2>3. EngineTypeOK' /\ RedisTypeOK'
    BY <1>2, <1>b, <1>c, <2>1, <2>2 DEF StartRunning, EngineTypeOK, RedisTypeOK, redisVars
  <2> QED
    BY <1>2, <1>a, <2>3 DEF StartRunning
<1>3. CASE Retract(g, w)
  <2>1. PICK r \in running[g][w] :
          /\ running' = [running EXCEPT ![g][w] = @ \ {r}]
          /\ waiting' = [waiting EXCEPT ![g][w] = @ \cup {r}]
    BY <1>3 DEF Retract
  <2>2. waiting[g][w] \cup {r} \in SUBSET Reqs /\ running[g][w] \ {r} \in SUBSET Reqs
    BY <1>0
  <2>3. EngineTypeOK' /\ RedisTypeOK'
    BY <1>3, <1>b, <1>c, <2>1, <2>2 DEF Retract, EngineTypeOK, RedisTypeOK, redisVars
  <2> QED
    BY <1>3, <1>a, <2>3 DEF Retract
<1>4. CASE Finish(g, w)
  <2>1. PICK r \in running[g][w] :
          /\ running' = [running EXCEPT ![g][w] = @ \ {r}]
          /\ finished' = finished \cup {r}
    BY <1>4 DEF Finish
  <2>2. running[g][w] \ {r} \in SUBSET Reqs /\ finished \cup {r} \in SUBSET Reqs
    BY <1>0 DEF EngineTypeOK
  <2>3. EngineTypeOK' /\ RedisTypeOK'
    BY <1>4, <1>c, <2>1, <2>2 DEF Finish, EngineTypeOK, RedisTypeOK, redisVars
  <2> QED
    BY <1>4, <1>a, <2>3 DEF Finish
<1> QED
  BY <1>1, <1>2, <1>3, <1>4 DEF Generation

\* Every step of the system is well typed.
LEMMA ServingStep ==
  ASSUME ServingInv, [Next]_vars
  PROVE  ServingTypeOK' /\ EngineInv'
<1>1. CASE UNCHANGED vars
  BY <1>1 DEF vars, redisVars, schedVars, engineVars, ServingInv, ServingTypeOK, RedisTypeOK,
              SchedTypeOK, EngineTypeOK, RequestsTypeOK, EngineInv, ServesModel,
              DrainsForMessage
<1>2. ASSUME NEW g \in GPUs, SchedulerStep(g) PROVE ServingTypeOK' /\ EngineInv'
  <2>1. RedisTypeOK' /\ SchedTypeOK'
    BY <1>2, ReceiverTypes, SchedulingTypes DEF SchedulerStep
  <2>2. EngineTypeOK' /\ RequestsTypeOK' /\ EngineInv'
    BY <1>2 DEF SchedulerStep, engineVars, ServingInv, ServingTypeOK, EngineTypeOK,
                RequestsTypeOK, EngineInv, ServesModel, DrainsForMessage
  <2> QED
    BY <2>1, <2>2 DEF ServingTypeOK
<1>3. ASSUME NEW g \in GPUs, NEW w \in Workers, EngineStep(g, w)
      PROVE  ServingTypeOK' /\ EngineInv'
  <2>1. RedisTypeOK' /\ EngineTypeOK' /\ EngineInv'
    BY <1>3, ControlTypes, GenerationTypes DEF EngineStep
  <2>2. SchedTypeOK' /\ RequestsTypeOK'
    BY <1>3 DEF EngineStep, schedVars, ServingInv, ServingTypeOK, SchedTypeOK, RequestsTypeOK
  <2> QED
    BY <2>1, <2>2 DEF ServingTypeOK
<1> QED
  BY <1>1, <1>2, <1>3, ClientTypes DEF Next

\* The strengthened type invariant holds throughout.
LEMMA TypesHold == Spec => [](PoolTypeOK /\ HandlerInv /\ (ServingTypeOK /\ EngineInv))
<1>1. Init => ServingTypeOK /\ EngineInv
  BY ServingInit
<1>2. PoolTypeOK /\ HandlerInv /\ (ServingTypeOK /\ EngineInv) /\ [Next]_vars
        => (ServingTypeOK /\ EngineInv)'
  BY ServingStep DEF ServingInv
<1> QED
  BY <1>1, <1>2, ServingPool, HandlerTyped, PTL DEF Spec

\* The composed system is well typed, for every number of parties: in particular
\* an engine fetches requests and returns them only under the name of a model.
THEOREM ServingTypes == Spec => []TypeOK
<1>1. PoolTypeOK /\ ServingTypeOK => TypeOK
  BY DEF ServingTypeOK, RequestsTypeOK, TypeOK
<1> QED
  BY <1>1, TypesHold, PTL
-------------------------------------------------------------------------------
(* An engine holds requests of its own model only *)

\* No caller asks for running requests to be retracted: true of the placement
\* policy, whose deactivations all say preempt=False.
NeverPreempts == \A d \in Deactivations : ~d[1]

PlainReqs == {req \in ControlReqs : ~req.preempt}
RequestsFor(m) == {r \in Reqs : ModelOf[r] = m}

\* No message under way preempts, a backend list holds requests of its model, an
\* engine holds requests of the model it hosts, and none if it serves nothing.
MessagesPlain ==
  /\ \A g \in GPUs : handler_sock[g] \in Seq(PlainReqs)
  /\ \A g \in GPUs, w \in Workers : worker_sock[g][w] \in Seq(PlainReqs)
  /\ \A g \in GPUs, w \in Workers : todo[g][w] \in Seq(PlainReqs)
BackendsOfModel == \A m \in Models : backend[m] \in Seq(RequestsFor(m))
Clean(g, w) ==
  /\ \A r \in waiting[g][w] \cup running[g][w] : ModelOf[r] = hosted[g][w]
  /\ ~activated[g][w] /\ ~draining[g][w] => waiting[g][w] \cup running[g][w] = {}
AllClean == \A g \in GPUs, w \in Workers : Clean(g, w)

\* Messages are forwarded, selected and dropped, never changed.
LEMMA PlainStep ==
  ASSUME NeverPreempts, ServingInv, MessagesPlain, [Next]_vars
  PROVE  MessagesPlain'
<1>0. /\ handler_sock \in [GPUs -> Seq(ControlReqs)]
      /\ worker_sock \in [GPUs -> [Workers -> Seq(ControlReqs)]]
      /\ todo \in [GPUs -> [Workers -> Seq(ControlReqs)]]
  BY DEF ServingInv, ServingTypeOK, EngineTypeOK, PoolTypeOK, HandlerInv
<1>1. ASSUME UNCHANGED <<handler_sock, worker_sock, todo>> PROVE MessagesPlain'
  BY <1>1 DEF MessagesPlain
<1>2. CASE UNCHANGED vars
  BY <1>1, <1>2 DEF vars, poolVars, schedVars, engineVars
<1>3. ASSUME NEW r \in Reqs, Generate(r) PROVE MessagesPlain'
  BY <1>1, <1>3 DEF Generate, poolVars, schedVars, engineVars
<1>4. ASSUME NEW g \in GPUs, NEW m \in Models, Activate(g, m) \/ Deactivate(g, m)
      PROVE  MessagesPlain'
  <2>1. PICK req \in PlainReqs : Call(g, req)
    <3>1. ActivateReq(m) \in PlainReqs
      BY CallTyped DEF PlainReqs, ActivateReq
    <3>2. \A d \in Deactivations : DeactivateReq(m, d[1], d[2]) \in PlainReqs
      BY CallTyped DEF PlainReqs, DeactivateReq, NeverPreempts
    <3> QED
      BY <1>4, <3>1, <3>2 DEF Activate, Deactivate
  <2>2. Append(handler_sock[g], req) \in Seq(PlainReqs)
    BY DEF MessagesPlain
  <2>3. /\ handler_sock' = [handler_sock EXCEPT ![g] = Append(@, req)]
        /\ UNCHANGED <<worker_sock, todo>>
    BY <2>1 DEF Call, poolVars, engineVars
  <2> QED
    BY <1>0, <2>2, <2>3 DEF MessagesPlain
<1>5. ASSUME NEW g \in GPUs, SchedulerStep(g) PROVE MessagesPlain'
  <2>1. UNCHANGED todo
    BY <1>5 DEF SchedulerStep, engineVars
  <2>2. ASSUME NEW type, Obeys(g, type),
               \/ UNCHANGED poolVars
               \/ \E w \in Workers : SendToWorker(g, w, Head(handler_sock[g]))
        PROVE  MessagesPlain'
    <3>1. handler_sock[g] \in Seq(PlainReqs) /\ handler_sock[g] # <<>>
      BY <2>2 DEF MessagesPlain, Obeys, ServingInv, HandlerInv
    <3>2. Head(handler_sock[g]) \in PlainReqs /\ Tail(handler_sock[g]) \in Seq(PlainReqs)
      BY <3>1, HeadTail
    <3>3. handler_sock' = [handler_sock EXCEPT ![g] = Tail(@)]
      BY <2>2 DEF Obeys
    <3>4. \A h \in GPUs : handler_sock'[h] \in Seq(PlainReqs)
      BY <1>0, <3>2, <3>3 DEF MessagesPlain
    <3>5. ASSUME NEW w \in Workers, SendToWorker(g, w, Head(handler_sock[g]))
          PROVE  \A h \in GPUs, v \in Workers : worker_sock'[h][v] \in Seq(PlainReqs)
      <4>1. Append(worker_sock[g][w], Head(handler_sock[g])) \in Seq(PlainReqs)
        BY <3>2 DEF MessagesPlain
      <4> QED
        BY <1>0, <3>5, <4>1 DEF MessagesPlain, SendToWorker
    <3> QED
      BY <2>1, <2>2, <3>4, <3>5 DEF MessagesPlain, poolVars
  <2>3. CASE HandleActivate(g)
    <3>1. ASSUME AssignAndActivate(g, Head(handler_sock[g]))
          PROVE  \E w \in Workers : SendToWorker(g, w, Head(handler_sock[g]))
      <4>1. free_workers[g] \in Seq(Workers) /\ free_workers[g] # <<>>
        BY <3>1 DEF AssignAndActivate, CannotActivate, ServingInv, PoolTypeOK
      <4>2. Head(free_workers[g]) \in Workers
        BY <4>1
      <4> QED
        BY <3>1, <4>2 DEF AssignAndActivate
    <3> QED
      BY <2>2, <2>3, <3>1 DEF HandleActivate
  <2>4. CASE HandleDeactivate(g)
    <3>1. ASSUME Obeys(g, "deactivate"), ReleaseAndDeactivate(g, Head(handler_sock[g]))
          PROVE  \E w \in Workers : SendToWorker(g, w, Head(handler_sock[g]))
      <4>1. Head(handler_sock[g]).model \in Models
        <5>1. handler_sock[g] \in Seq(ControlReqs) /\ handler_sock[g] # <<>>
          BY <3>1 DEF Obeys, ServingInv, HandlerInv
        <5> QED
          BY <5>1, HeadTail, NamesModel
      <4>2. model_to_worker[g][Head(handler_sock[g]).model] \in Workers
        BY <3>1, <4>1 DEF ReleaseAndDeactivate, Served, ServingInv, PoolTypeOK
      <4> QED
        BY <3>1, <4>2 DEF ReleaseAndDeactivate
    <3> QED
      BY <2>2, <2>4, <3>1 DEF HandleDeactivate
  <2>5. CASE RecvFromFrontendQueue(g) \/ MarkModel(g) \/ RecvFromEngine(g)
             \/ HandleReport(g) \/ ReportsHandled(g)
    BY <1>1, <2>1, <2>5 DEF RecvFromFrontendQueue, MarkModel, RecvFromEngine, HandleReport,
                            ReportsHandled, poolVars
  <2>6. CASE SchedulingLoop(g)
    BY <1>1, <2>1, <2>6 DEF SchedulingLoop, ReadBackendLens, AdmissionControl, EndAdmission,
                            SendToBackendQueue, poolVars
  <2> QED
    BY <1>5, <2>3, <2>4, <2>5, <2>6 DEF SchedulerStep, Receiver
<1>6. ASSUME NEW g \in GPUs, NEW w \in Workers, EngineStep(g, w) PROVE MessagesPlain'
  <2>0. UNCHANGED handler_sock
    BY <1>6 DEF EngineStep, schedVars
  <2>1. CASE PollControl(g, w)
    <3>1. Selected(worker_sock[g][w], activated[g][w]) \in Seq(PlainReqs)
      BY SelectedTyped DEF MessagesPlain
    <3>2. /\ todo' = [todo EXCEPT ![g][w] = Selected(worker_sock[g][w], activated[g][w])]
          /\ worker_sock' = [worker_sock EXCEPT ![g][w] = <<>>]
      BY <2>1 DEF PollControl, DrainSocket
    <3>3. \A h \in GPUs, v \in Workers : todo'[h][v] \in Seq(PlainReqs)
      BY <1>0, <3>1, <3>2 DEF MessagesPlain
    <3>4. <<>> \in Seq(PlainReqs)
      OBVIOUS
    <3>5. \A h \in GPUs, v \in Workers : worker_sock'[h][v] \in Seq(PlainReqs)
      BY <1>0, <3>2, <3>4 DEF MessagesPlain
    <3> QED
      BY <2>0, <3>3, <3>5 DEF MessagesPlain
  <2>2. ASSUME UNCHANGED poolVars, UNCHANGED todo \/ (todo[g][w] # <<>> /\ Obeyed(g, w))
        PROVE  MessagesPlain'
    <3>1. ASSUME todo[g][w] # <<>>, Obeyed(g, w)
          PROVE  \A h \in GPUs, v \in Workers : todo'[h][v] \in Seq(PlainReqs)
      <4>1. Tail(todo[g][w]) \in Seq(PlainReqs)
        BY <3>1, HeadTail DEF MessagesPlain
      <4> QED
        BY <1>0, <3>1, <4>1 DEF MessagesPlain, Obeyed
    <3> QED
      BY <2>0, <2>2, <3>1 DEF MessagesPlain, poolVars
  <2>3. CASE HandleActivateRequest(g, w) \/ RefuseDeactivateRequest(g, w)
             \/ HandleDeactivateRequest(g, w)
    BY <2>2, <2>3 DEF HandleActivateRequest, RefuseDeactivateRequest,
                      HandleDeactivateRequest, NextIs
  <2>4. CASE CompleteDeactivation(g, w)
    BY <2>2, <2>4 DEF CompleteDeactivation, ServingInv, EngineInv, DrainsForMessage
  <2>5. CASE Generation(g, w)
    BY <2>2, <2>5 DEF Generation, RecvGenerationRequests, StartRunning, Retract, Finish
  <2> QED
    BY <1>6, <2>1, <2>3, <2>4, <2>5 DEF EngineStep, Control
<1> QED
  BY <1>2, <1>3, <1>4, <1>5, <1>6 DEF Next

\* Requests enter a backend list under their own model, and leave at its head.
LEMMA BackendStep ==
  ASSUME ServingInv, BackendsOfModel, [Next]_vars
  PROVE  BackendsOfModel'
<1>0. backend \in [Models -> Seq(Reqs)]
  BY DEF ServingInv, ServingTypeOK, RedisTypeOK
<1>1. ASSUME UNCHANGED backend PROVE BackendsOfModel'
  BY <1>1 DEF BackendsOfModel
<1>2. CASE UNCHANGED vars
  BY <1>1, <1>2 DEF vars, redisVars
<1>3. ASSUME NEW r \in Reqs, Generate(r) PROVE BackendsOfModel'
  BY <1>1, <1>3 DEF Generate
<1>4. ASSUME NEW g \in GPUs, NEW m \in Models, Activate(g, m) \/ Deactivate(g, m)
      PROVE  BackendsOfModel'
  BY <1>1, <1>4 DEF Activate, Deactivate, Call, redisVars
<1>5. ASSUME NEW g \in GPUs, SchedulerStep(g) PROVE BackendsOfModel'
  <2>1. CASE HandleDeactivate(g)
    <3>1. PICK m : backend' = [backend EXCEPT ![m] = <<>>]
      BY <2>1 DEF HandleDeactivate
    <3>2. ASSUME NEW o \in Models PROVE backend'[o] \in Seq(RequestsFor(o))
      <4>1. <<>> \in Seq(RequestsFor(o))
        OBVIOUS
      <4>2. backend'[o] = <<>> \/ backend'[o] = backend[o]
        BY <1>0, <3>1
      <4> QED
        BY <4>1, <4>2 DEF BackendsOfModel
    <3> QED
      BY <3>2 DEF BackendsOfModel
  <2>2. CASE SendToBackendQueue(g)
    <3>1. PICK r \in admitted[g] : backend' = [backend EXCEPT ![ModelOf[r]] = Append(@, r)]
      BY <2>2 DEF SendToBackendQueue
    <3>2. r \in RequestsFor(ModelOf[r]) /\ ModelOf[r] \in Models
      BY PartiesAssumption DEF ServingInv, ServingTypeOK, SchedTypeOK, RequestsFor
    <3>3. Append(backend[ModelOf[r]], r) \in Seq(RequestsFor(ModelOf[r]))
      BY <3>2 DEF BackendsOfModel
    <3>4. ASSUME NEW o \in Models PROVE backend'[o] \in Seq(RequestsFor(o))
      <4>1. CASE o = ModelOf[r]
        BY <1>0, <3>1, <3>3, <4>1
      <4>2. CASE o # ModelOf[r]
        BY <1>0, <3>1, <4>2 DEF BackendsOfModel
      <4> QED
        BY <4>1, <4>2
    <3> QED
      BY <3>4 DEF BackendsOfModel
  <2>3. CASE RecvFromFrontendQueue(g) \/ MarkModel(g) \/ HandleActivate(g)
             \/ RecvFromEngine(g) \/ HandleReport(g) \/ ReportsHandled(g)
    BY <1>1, <2>3 DEF RecvFromFrontendQueue, MarkModel, HandleActivate, RecvFromEngine,
                      HandleReport, ReportsHandled, redisVars
  <2>4. CASE ReadBackendLens(g) \/ AdmissionControl(g) \/ EndAdmission(g)
    BY <1>1, <2>4 DEF ReadBackendLens, AdmissionControl, EndAdmission, redisVars
  <2> QED
    BY <1>5, <2>1, <2>2, <2>3, <2>4 DEF SchedulerStep, Receiver, SchedulingLoop
<1>6. ASSUME NEW g \in GPUs, NEW w \in Workers, EngineStep(g, w) PROVE BackendsOfModel'
  <2>1. CASE RecvGenerationRequests(g, w)
    <3> DEFINE key == hosted[g][w]
               list == backend[key]
    <3>1. key \in Models
      BY <2>1 DEF RecvGenerationRequests, ServingInv, EngineInv, ServesModel
    <3>2. PICK n \in 1 .. Len(list) : backend' = [backend EXCEPT ![key] = SubSeq(@, n + 1, Len(@))]
      BY <2>1 DEF RecvGenerationRequests
    <3>3. list \in Seq(RequestsFor(key))
      BY <3>1 DEF BackendsOfModel
    <3> HIDE DEF list, key
    <3>4. SubSeq(list, n + 1, Len(list)) \in Seq(RequestsFor(key))
      BY <3>3
    <3>5. ASSUME NEW o \in Models PROVE backend'[o] \in Seq(RequestsFor(o))
      <4>1. CASE o = key
        BY <1>0, <3>2, <3>4, <4>1 DEF list
      <4>2. CASE o # key
        BY <1>0, <3>2, <4>2 DEF BackendsOfModel
      <4> QED
        BY <4>1, <4>2
    <3> QED
      BY <3>5 DEF BackendsOfModel
  <2>2. CASE StartRunning(g, w) \/ Retract(g, w) \/ Finish(g, w)
    BY <1>1, <2>2 DEF StartRunning, Retract, Finish, redisVars
  <2>3. CASE Control(g, w)
    BY <1>1, <2>3 DEF Control, PollControl, HandleActivateRequest, RefuseDeactivateRequest,
                      HandleDeactivateRequest, CompleteDeactivation, redisVars
  <2> QED
    BY <1>6, <2>1, <2>2, <2>3 DEF EngineStep, Generation
<1> QED
  BY <1>2, <1>3, <1>4, <1>5, <1>6 DEF Next

SameAt(h, v) ==
  /\ waiting'[h][v] = waiting[h][v] /\ running'[h][v] = running[h][v]
  /\ activated'[h][v] = activated[h][v] /\ draining'[h][v] = draining[h][v]
  /\ hosted'[h][v] = hosted[h][v]

\* A step of one worker's engine leaves the state of every other as it is.
LEMMA OthersSame ==
  ASSUME ServingInv, NEW g \in GPUs, NEW w \in Workers, Control(g, w) \/ Generation(g, w),
         NEW h \in GPUs, NEW v \in Workers, <<h, v>> # <<g, w>>
  PROVE  SameAt(h, v)
<1>0. EngineTypeOK
  BY DEF ServingInv, ServingTypeOK
<1>1. waiting'[h][v] = waiting[h][v]
  <2>1. \/ UNCHANGED waiting
        \/ \E S : waiting' = [waiting EXCEPT ![g][w] = S]
    BY DEF Control, PollControl, HandleActivateRequest, RefuseDeactivateRequest,
           HandleDeactivateRequest, CompleteDeactivation, Generation, RecvGenerationRequests,
           StartRunning, Retract, Finish
  <2> QED
    BY <1>0, <2>1 DEF EngineTypeOK
<1>2. running'[h][v] = running[h][v]
  <2>1. \/ UNCHANGED running
        \/ \E S : running' = [running EXCEPT ![g][w] = S]
    BY DEF Control, PollControl, HandleActivateRequest, RefuseDeactivateRequest,
           HandleDeactivateRequest, CompleteDeactivation, Generation, RecvGenerationRequests,
           StartRunning, Retract, Finish
  <2> QED
    BY <1>0, <2>1 DEF EngineTypeOK
<1>3. activated'[h][v] = activated[h][v]
  <2>1. \/ UNCHANGED activated
        \/ \E b : activated' = [activated EXCEPT ![g][w] = b]
    BY DEF Control, PollControl, HandleActivateRequest, RefuseDeactivateRequest,
           HandleDeactivateRequest, CompleteDeactivation, Generation, RecvGenerationRequests,
           StartRunning, Retract, Finish
  <2> QED
    BY <1>0, <2>1 DEF EngineTypeOK
<1>4. draining'[h][v] = draining[h][v]
  <2>1. \/ UNCHANGED draining
        \/ \E b : draining' = [draining EXCEPT ![g][w] = b]
    BY DEF Control, PollControl, HandleActivateRequest, RefuseDeactivateRequest,
           HandleDeactivateRequest, CompleteDeactivation, Generation, RecvGenerationRequests,
           StartRunning, Retract, Finish
  <2> QED
    BY <1>0, <2>1 DEF EngineTypeOK
<1>5. hosted'[h][v] = hosted[h][v]
  <2>1. \/ UNCHANGED hosted
        \/ \E m : hosted' = [hosted EXCEPT ![g][w] = m]
    BY DEF Control, PollControl, HandleActivateRequest, RefuseDeactivateRequest,
           HandleDeactivateRequest, CompleteDeactivation, Generation, RecvGenerationRequests,
           StartRunning, Retract, Finish
  <2> QED
    BY <1>0, <2>1 DEF EngineTypeOK
<1> QED
  BY <1>1, <1>2, <1>3, <1>4, <1>5 DEF SameAt

\* A worker changes its model only while it holds nothing, and stops serving
\* only when it has run to completion.
LEMMA CleanStep ==
  ASSUME ServingInv, MessagesPlain, BackendsOfModel, AllClean, [Next]_vars
  PROVE  AllClean'
<1>0. EngineTypeOK
  BY DEF ServingInv, ServingTypeOK
<1>1. ASSUME UNCHANGED engineVars PROVE AllClean'
  BY <1>1 DEF engineVars, AllClean, Clean
<1>2. CASE UNCHANGED vars
  BY <1>1, <1>2 DEF vars
<1>3. ASSUME NEW r \in Reqs, Generate(r) PROVE AllClean'
  BY <1>1, <1>3 DEF Generate
<1>4. ASSUME NEW g \in GPUs, NEW m \in Models, Activate(g, m) \/ Deactivate(g, m)
      PROVE  AllClean'
  BY <1>1, <1>4 DEF Activate, Deactivate, Call
<1>5. ASSUME NEW g \in GPUs, SchedulerStep(g) PROVE AllClean'
  BY <1>1, <1>5 DEF SchedulerStep
<1>6. ASSUME NEW g \in GPUs, NEW w \in Workers, EngineStep(g, w) PROVE AllClean'
  <2>0. Clean(g, w)
    BY DEF AllClean
  <2>1. ASSUME NEW h \in GPUs, NEW v \in Workers, SameAt(h, v) PROVE Clean(h, v)'
    BY <2>1 DEF AllClean, Clean, SameAt
  <2>2. CASE PollControl(g, w)
    <3>1. SameAt(g, w)
      BY <2>2 DEF PollControl, SameAt
    <3> QED
      BY <2>1, <2>2, <3>1, OthersSame DEF AllClean, Control
  <2>3. CASE HandleActivateRequest(g, w)
    <3>1. Clean(g, w)'
      <4>1. activated'[g][w]
        BY <1>0, <2>3 DEF HandleActivateRequest, EngineTypeOK
      <4>2. CASE activated[g][w]
        BY <2>0, <2>3, <4>1, <4>2 DEF HandleActivateRequest, Clean
      <4>3. CASE ~activated[g][w]
        BY <2>0, <2>3, <4>1, <4>3 DEF HandleActivateRequest, NextIs, Clean
      <4> QED
        BY <4>2, <4>3
    <3> QED
      BY <2>1, <2>3, <3>1, OthersSame DEF AllClean, Control
  <2>4. CASE RefuseDeactivateRequest(g, w)
    <3>1. SameAt(g, w)
      BY <2>4 DEF RefuseDeactivateRequest, SameAt
    <3> QED
      BY <2>1, <2>4, <3>1, OthersSame DEF AllClean, Control
  <2>5. CASE HandleDeactivateRequest(g, w)
    <3>1. ~Head(todo[g][w]).preempt
      <4>1. todo[g][w] \in Seq(PlainReqs) /\ todo[g][w] # <<>>
        BY <2>5 DEF HandleDeactivateRequest, NextIs, MessagesPlain
      <4>2. Head(todo[g][w]) \in PlainReqs
        BY <4>1, HeadTail
      <4> QED
        BY <4>2 DEF PlainReqs
    <3>2. /\ waiting' = [waiting EXCEPT ![g][w] = KeptWaiting(g, w, Head(todo[g][w]))]
          /\ draining' = [draining EXCEPT ![g][w] = TRUE]
          /\ UNCHANGED <<running, hosted>>
      BY <2>5, <3>1 DEF HandleDeactivateRequest
    <3>3. KeptWaiting(g, w, Head(todo[g][w])) \subseteq waiting[g][w]
      BY DEF KeptWaiting
    <3>4. waiting'[g][w] \subseteq waiting[g][w] /\ draining'[g][w]
      BY <1>0, <3>2, <3>3 DEF EngineTypeOK
    <3>5. Clean(g, w)'
      BY <2>0, <3>2, <3>4 DEF Clean
    <3> QED
      BY <2>1, <2>5, <3>5, OthersSame DEF AllClean, Control
  <2>6. CASE CompleteDeactivation(g, w)
    <3>1. waiting'[g][w] = {} /\ running'[g][w] = {}
      BY <2>6 DEF CompleteDeactivation, Drained
    <3>2. Clean(g, w)'
      BY <3>1 DEF Clean
    <3> QED
      BY <2>1, <2>6, <3>2, OthersSame DEF AllClean, Control
  <2>7. CASE RecvGenerationRequests(g, w)
    <3> DEFINE key == hosted[g][w]
               list == backend[key]
    <3>1. PICK n \in 1 .. Len(list) :
            waiting' = [waiting EXCEPT ![g][w] = @ \cup ToSet(SubSeq(list, 1, n))]
      BY <2>7 DEF RecvGenerationRequests
    <3>2. activated[g][w] /\ key \in Models
      BY <2>7 DEF RecvGenerationRequests, ServingInv, EngineInv, ServesModel
    <3>3. list \in Seq(RequestsFor(key))
      BY <3>2 DEF BackendsOfModel
    <3> HIDE DEF list, key
    <3>4. SubSeq(list, 1, n) \in Seq(RequestsFor(key))
      BY <3>3
    <3>5. ToSet(SubSeq(list, 1, n)) \subseteq RequestsFor(key)
      BY <3>4, ToSetIn
    <3>6. waiting'[g][w] = waiting[g][w] \cup ToSet(SubSeq(list, 1, n))
      BY <1>0, <3>1 DEF EngineTypeOK
    <3>7. Clean(g, w)'
      BY <2>0, <2>7, <3>2, <3>5, <3>6 DEF Clean, RecvGenerationRequests, RequestsFor, key
    <3> QED
      BY <2>1, <2>7, <3>7, OthersSame DEF AllClean, Generation
  <2>8. CASE StartRunning(g, w) \/ Retract(g, w) \/ Finish(g, w)
    <3>1. activated[g][w] \/ draining[g][w]
      BY <2>8 DEF StartRunning, Retract, Finish, Serving
    <3>2. UNCHANGED <<activated, draining, hosted>>
      BY <2>8 DEF StartRunning, Retract, Finish
    <3>3. waiting'[g][w] \cup running'[g][w] \subseteq waiting[g][w] \cup running[g][w]
      <4>1. CASE StartRunning(g, w)
        BY <1>0, <4>1 DEF StartRunning, EngineTypeOK
      <4>2. CASE Retract(g, w)
        BY <1>0, <4>2 DEF Retract, EngineTypeOK
      <4>3. CASE Finish(g, w)
        BY <1>0, <4>3 DEF Finish, EngineTypeOK
      <4> QED
        BY <2>8, <4>1, <4>2, <4>3
    <3>4. Clean(g, w)'
      BY <2>0, <3>1, <3>2, <3>3 DEF Clean
    <3> QED
      BY <2>1, <2>8, <3>4, OthersSame DEF AllClean, Generation
  <2> QED
    BY <1>6, <2>2, <2>3, <2>4, <2>5, <2>6, <2>7, <2>8 DEF EngineStep, Control, Generation
<1> QED
  BY <1>2, <1>3, <1>4, <1>5, <1>6 DEF Next

\* If no caller retracts running requests, an engine holds requests of the model
\* it hosts only, and a deactivated one that has run to completion holds none,
\* although a worker is promised to its next model before it has let go of the last.
THEOREM OnlyHostedModel ==
  NeverPreempts /\ Spec => [](HoldsOnlyHostedModel /\ DeactivatedHoldsNothing)
<1> DEFINE Inv == NeverPreempts /\ MessagesPlain /\ BackendsOfModel /\ AllClean
           Types == PoolTypeOK /\ HandlerInv /\ (ServingTypeOK /\ EngineInv)
<1>1. NeverPreempts /\ Init => Inv
  BY DEF Init, PoolInit, RedisInit, SchedInit, EngineInit, MessagesPlain, BackendsOfModel,
         AllClean, Clean
<1>2. Inv /\ Types /\ [Next]_vars => Inv'
  BY PlainStep, BackendStep, CleanStep DEF NeverPreempts, ServingInv
<1>3. Inv => HoldsOnlyHostedModel /\ DeactivatedHoldsNothing
  BY DEF AllClean, Clean, HoldsOnlyHostedModel, DeactivatedHoldsNothing
<1>4. Spec => []Types
  BY TypesHold
<1> QED
  BY <1>1, <1>2, <1>3, <1>4, PTL DEF Spec
===============================================================================
