-------------------------- MODULE Conservation_proofs --------------------------
(***************************************************************************)
(* No request is lost or duplicated, for any number of GPUs, workers,      *)
(* models and requests and with any deactivations: EveryRequestHeldOnce.   *)
(* The state is looked at as a set of holders (the lists, the sets of the  *)
(* threads and engines, the clients before and after) and a step as a move *)
(* of requests from holder to holder.  The holders partition the requests, *)
(* and no list has a request twice; each needs the other, since a list     *)
(* that is appended to must not have the request already.                  *)
(***************************************************************************)
EXTENDS MultiModelServing_proofs, SequenceTheorems

-------------------------------------------------------------------------------
(* Lists without duplicates *)

\* Joining two lists that share nothing.
LEMMA InjectiveConcat ==
  ASSUME NEW S, NEW s \in Seq(S), NEW t \in Seq(S), IsInjective(s), IsInjective(t),
         ToSet(s) \cap ToSet(t) = {}
  PROVE  /\ s \o t \in Seq(S)
         /\ ToSet(s \o t) = ToSet(s) \cup ToSet(t)
         /\ IsInjective(s \o t)
<1> DEFINE k == Len(s)
           n == Len(t)
           u == s \o t
<1>1. /\ u \in Seq(S) /\ Len(u) = k + n /\ k \in Nat /\ n \in Nat
      /\ DOMAIN s = 1 .. k /\ DOMAIN t = 1 .. n /\ DOMAIN u = 1 .. k + n
  OBVIOUS
<1>2. \A i \in 1 .. k : u[i] = s[i]
  OBVIOUS
<1>3. \A i \in 1 .. n : u[k + i] = t[i]
  OBVIOUS
<1>4. \A i \in k + 1 .. k + n : i - k \in 1 .. n /\ u[i] = t[i - k]
  <2> SUFFICES ASSUME NEW i \in k + 1 .. k + n PROVE i - k \in 1 .. n /\ u[i] = t[i - k]
    OBVIOUS
  <2>1. i - k \in 1 .. n /\ k + (i - k) = i
    BY <1>1
  <2> QED
    BY <1>3, <2>1
<1> HIDE DEF k, n, u
<1>5. \A i \in 1 .. k : i \in 1 .. k + n
  BY <1>1
<1>6. \A i \in 1 .. n : k + i \in 1 .. k + n
  BY <1>1
<1>7. \A i \in 1 .. k + n : i \in 1 .. k \/ i \in k + 1 .. k + n
  BY <1>1
<1>8. ToSet(u) = ToSet(s) \cup ToSet(t)
  <2>1. ASSUME NEW x \in ToSet(u) PROVE x \in ToSet(s) \cup ToSet(t)
    <3>1. PICK i \in 1 .. k + n : x = u[i]
      BY <1>1, <2>1 DEF ToSet
    <3> QED
      BY <1>1, <1>2, <1>4, <1>7, <3>1 DEF ToSet
  <2>2. ToSet(s) \subseteq ToSet(u)
    BY <1>1, <1>2, <1>5 DEF ToSet
  <2>3. ToSet(t) \subseteq ToSet(u)
    BY <1>1, <1>3, <1>6 DEF ToSet
  <2> QED
    BY <2>1, <2>2, <2>3
<1>9. IsInjective(u)
  <2> SUFFICES ASSUME NEW i \in 1 .. k + n, NEW j \in 1 .. k + n, u[i] = u[j] PROVE i = j
    BY <1>1 DEF IsInjective
  <2>1. CASE i \in 1 .. k /\ j \in 1 .. k
    BY <1>1, <1>2, <2>1 DEF IsInjective
  <2>2. CASE i \in k + 1 .. k + n /\ j \in k + 1 .. k + n
    <3>1. i - k = j - k
      BY <1>1, <1>4, <2>2 DEF IsInjective
    <3> QED
      BY <1>1, <3>1
  <2>3. ASSUME NEW a \in 1 .. k, NEW b \in k + 1 .. k + n PROVE u[a] # u[b]
    <3>1. u[a] \in ToSet(s) /\ u[b] \in ToSet(t)
      BY <1>1, <1>2, <1>4 DEF ToSet
    <3> QED
      BY <3>1
  <2>4. i \in 1 .. k /\ j \in k + 1 .. k + n => FALSE
    BY <2>3
  <2>5. j \in 1 .. k /\ i \in k + 1 .. k + n => FALSE
    BY <2>3
  <2> QED
    BY <1>7, <2>1, <2>2, <2>4, <2>5
<1> QED
  BY <1>1, <1>8, <1>9 DEF u

\* Taking the first elements of a list.
LEMMA InjectiveSplit ==
  ASSUME NEW S, NEW s \in Seq(S), NEW n \in 1 .. Len(s), IsInjective(s)
  PROVE  LET taken == SubSeq(s, 1, n)
             rest == SubSeq(s, n + 1, Len(s))
         IN  /\ ToSet(taken) \subseteq ToSet(s)
             /\ ToSet(rest) = ToSet(s) \ ToSet(taken)
             /\ IsInjective(rest)
<1> DEFINE taken == SubSeq(s, 1, n)
           rest == SubSeq(s, n + 1, Len(s))
           k == Len(s)
<1>1. k \in Nat /\ n \in 1 .. k /\ DOMAIN s = 1 .. k
  OBVIOUS
<1>2. DOMAIN taken = 1 .. n /\ \A i \in 1 .. n : taken[i] = s[i]
  <2>1. /\ taken \in Seq(S) /\ Len(taken) = n - 1 + 1
        /\ \A i \in 1 .. n - 1 + 1 : taken[i] = s[1 + i - 1]
    BY <1>1, SubSeqProperties
  <2> QED
    BY <1>1, <2>1
<1>3. DOMAIN rest = 1 .. k - n /\ \A i \in 1 .. k - n : rest[i] = s[n + i]
  <2>1. /\ rest \in Seq(S) /\ Len(rest) = IF n + 1 <= k THEN k - (n + 1) + 1 ELSE 0
        /\ \A i \in 1 .. k - (n + 1) + 1 : rest[i] = s[(n + 1) + i - 1]
    BY <1>1, SubSeqProperties
  <2> QED
    BY <1>1, <2>1
<1> HIDE DEF taken, rest, k
<1>4. \A i \in 1 .. n : i \in 1 .. k
  BY <1>1
<1>5. \A i \in 1 .. k - n : n + i \in 1 .. k /\ n + i \notin 1 .. n
  BY <1>1
<1>6. \A i \in 1 .. k : i \in 1 .. n \/ (i - n \in 1 .. k - n /\ n + (i - n) = i)
  BY <1>1
<1>7. ToSet(taken) \subseteq ToSet(s)
  BY <1>1, <1>2, <1>4 DEF ToSet
<1>8. ASSUME NEW x \in ToSet(rest) PROVE x \in ToSet(s) \ ToSet(taken)
  <2>1. PICK i \in 1 .. k - n : x = s[n + i]
    BY <1>3 DEF ToSet
  <2>2. \A j \in 1 .. n : s[j] # x
    BY <1>1, <1>4, <1>5, <2>1 DEF IsInjective
  <2> QED
    BY <1>1, <1>2, <1>5, <2>1, <2>2 DEF ToSet
<1>9. ASSUME NEW x \in ToSet(s) \ ToSet(taken) PROVE x \in ToSet(rest)
  <2>1. PICK i \in 1 .. k : x = s[i]
    BY <1>1 DEF ToSet
  <2>2. i \notin 1 .. n
    BY <1>2, <2>1 DEF ToSet
  <2>3. i - n \in 1 .. k - n /\ rest[i - n] = x
    BY <1>3, <1>6, <2>1, <2>2
  <2> QED
    BY <1>3, <2>3 DEF ToSet
<1>10. IsInjective(rest)
  <2> SUFFICES ASSUME NEW i \in 1 .. k - n, NEW j \in 1 .. k - n, rest[i] = rest[j]
               PROVE  i = j
    BY <1>3 DEF IsInjective
  <2>1. n + i = n + j
    BY <1>1, <1>3, <1>5 DEF IsInjective
  <2> QED
    BY <1>1, <2>1
<1> QED
  BY <1>7, <1>8, <1>9, <1>10 DEF taken, rest, k

\* A set of requests put into a list, in whatever order, is there once.
LEMMA OrderCovers ==
  ASSUME NEW T \in SUBSET Reqs, NEW order \in SetToSeqs(T)
  PROVE  order \in Seq(Reqs) /\ ToSet(order) = T /\ IsInjective(order)
<1> DEFINE D == 1 .. Cardinality(T)
<1>1. IsFiniteSet(T) /\ Cardinality(T) \in Nat
  BY FS_Subset, FS_CardinalityType, PartiesAssumption
<1>2. order \in [D -> T] /\ \A i, j \in D : i # j => order[i] # order[j]
  BY DEF SetToSeqs
<1>3. IsInjective(order) /\ order \in Injection(D, T)
  BY <1>2 DEF IsInjective, Injection
<1>4. Cardinality(D) = Cardinality(T)
  BY <1>1, FS_Interval
<1>5. order \in Surjection(D, T)
  BY <1>1, <1>3, <1>4, FS_Injection
<1>6. ToSet(order) = T
  BY <1>2, <1>5 DEF ToSet, Surjection
<1>7. order \in Seq(Reqs)
  BY <1>1, <1>2
<1> QED
  BY <1>3, <1>6, <1>7
-------------------------------------------------------------------------------
(* Who holds a request *)

Holders ==
  ({"frontend", "backend"} \X Models) \cup ({"queue", "new_queue", "admitted"} \X GPUs)
  \cup ({"waiting", "running"} \X (GPUs \X Workers)) \cup ({"new", "finished"} \X {"client"})

HeldBy(h) ==
  CASE h[1] = "frontend" -> ToSet(frontend[h[2]])
    [] h[1] = "backend" -> ToSet(backend[h[2]])
    [] h[1] = "queue" -> queue[h[2]]
    [] h[1] = "new_queue" -> new_queue[h[2]]
    [] h[1] = "admitted" -> admitted[h[2]]
    [] h[1] = "waiting" -> waiting[h[2][1]][h[2][2]]
    [] h[1] = "running" -> running[h[2][1]][h[2][2]]
    [] h[1] = "new" -> Reqs \ submitted
    [] h[1] = "finished" -> finished

Holding == [h \in Holders |-> HeldBy(h)]

\* Every request has one holder.
OneHolder(K) ==
  \A r \in Reqs : \E h \in Holders : \A i \in Holders : r \in K[i] <=> i = h

NothingTwice == \A m \in Models : IsInjective(frontend[m]) /\ IsInjective(backend[m])

\* The requests of a set go from one holder to another.
Moves(K, L, from, to, moved) ==
  /\ from \in Holders /\ to \in Holders /\ from # to /\ moved \subseteq K[from]
  /\ L[from] = K[from] \ moved /\ L[to] = K[to] \cup moved
  /\ \A h \in Holders \ {from, to} : L[h] = K[h]

\* That leaves one holder for each request.
LEMMA MoveKeeps ==
  ASSUME NEW K, NEW L, OneHolder(K), NEW from, NEW to, NEW moved, Moves(K, L, from, to, moved)
  PROVE  OneHolder(L)
<1> USE DEF Moves
<1> SUFFICES ASSUME NEW r \in Reqs
             PROVE  \E h \in Holders : \A i \in Holders : r \in L[i] <=> i = h
  BY DEF OneHolder
<1>1. PICK h \in Holders : \A i \in Holders : r \in K[i] <=> i = h
  BY DEF OneHolder
<1>2. CASE r \in moved
  <2>1. h = from
    BY <1>1, <1>2
  <2>2. \A i \in Holders : r \in L[i] <=> i = to
    BY <1>1, <1>2, <2>1
  <2> QED
    BY <2>2
<1>3. CASE r \notin moved
  <2>1. \A i \in Holders : r \in L[i] <=> r \in K[i]
    BY <1>3
  <2> QED
    BY <1>1, <2>1
<1> QED
  BY <1>2, <1>3

\* Requests of several holders go to one.
Gathers(K, L, to) ==
  /\ to \in Holders /\ K[to] \subseteq L[to]
  /\ \A h \in Holders \ {to} : L[h] \subseteq K[h] /\ K[h] \ L[h] \subseteq L[to]
  /\ \A r \in L[to] : r \in K[to] \/ \E h \in Holders \ {to} : r \in K[h] \ L[h]

\* Requests gathered from any holders into one are still held once each.
LEMMA GatherKeeps ==
  ASSUME NEW K, NEW L, OneHolder(K), NEW to, Gathers(K, L, to)
  PROVE  OneHolder(L)
<1> USE DEF Gathers
<1> SUFFICES ASSUME NEW r \in Reqs
             PROVE  \E h \in Holders : \A i \in Holders : r \in L[i] <=> i = h
  BY DEF OneHolder
<1>1. PICK h \in Holders : \A i \in Holders : r \in K[i] <=> i = h
  BY DEF OneHolder
<1>2. \A i \in Holders \ {to, h} : r \notin L[i]
  BY <1>1
<1>3. CASE h = to
  BY <1>1, <1>2, <1>3
<1>4. CASE h # to /\ r \in L[h]
  <2>1. r \notin L[to]
    BY <1>1, <1>4
  <2> QED
    BY <1>2, <1>4, <2>1
<1>5. CASE h # to /\ r \notin L[h]
  <2>1. r \in L[to]
    BY <1>1, <1>5
  <2> QED
    BY <1>2, <1>5, <2>1
<1> QED
  BY <1>3, <1>4, <1>5

\* Each holder, before and after a step.
LEMMA HoldersAre ==
  /\ \A m \in Models : <<"frontend", m>> \in Holders /\ <<"backend", m>> \in Holders
  /\ \A g \in GPUs : /\ <<"queue", g>> \in Holders /\ <<"new_queue", g>> \in Holders
                     /\ <<"admitted", g>> \in Holders
  /\ \A g \in GPUs, w \in Workers :
       <<"waiting", <<g, w>>>> \in Holders /\ <<"running", <<g, w>>>> \in Holders
  /\ <<"new", "client">> \in Holders /\ <<"finished", "client">> \in Holders
BY DEF Holders

\* What each holder holds before a step.
LEMMA HoldingIs ==
  /\ \A m \in Models : /\ Holding[<<"frontend", m>>] = ToSet(frontend[m])
                       /\ Holding[<<"backend", m>>] = ToSet(backend[m])
  /\ \A g \in GPUs : /\ Holding[<<"queue", g>>] = queue[g]
                     /\ Holding[<<"new_queue", g>>] = new_queue[g]
                     /\ Holding[<<"admitted", g>>] = admitted[g]
  /\ \A g \in GPUs, w \in Workers : /\ Holding[<<"waiting", <<g, w>>>>] = waiting[g][w]
                                    /\ Holding[<<"running", <<g, w>>>>] = running[g][w]
  /\ Holding[<<"new", "client">>] = Reqs \ submitted
  /\ Holding[<<"finished", "client">>] = finished
BY HoldersAre DEF Holding, HeldBy

\* And after it.
LEMMA HoldingWillBe ==
  /\ \A m \in Models : /\ Holding'[<<"frontend", m>>] = ToSet(frontend'[m])
                       /\ Holding'[<<"backend", m>>] = ToSet(backend'[m])
  /\ \A g \in GPUs : /\ Holding'[<<"queue", g>>] = queue'[g]
                     /\ Holding'[<<"new_queue", g>>] = new_queue'[g]
                     /\ Holding'[<<"admitted", g>>] = admitted'[g]
  /\ \A g \in GPUs, w \in Workers : /\ Holding'[<<"waiting", <<g, w>>>>] = waiting'[g][w]
                                    /\ Holding'[<<"running", <<g, w>>>>] = running'[g][w]
  /\ Holding'[<<"new", "client">>] = Reqs \ submitted'
  /\ Holding'[<<"finished", "client">>] = finished'
BY HoldersAre DEF Holding, HeldBy

\* There are no others.
LEMMA HolderCases ==
  ASSUME NEW h \in Holders
  PROVE  \/ \E m \in Models : h = <<"frontend", m>> \/ h = <<"backend", m>>
         \/ \E g \in GPUs : h = <<"queue", g>> \/ h = <<"new_queue", g>> \/ h = <<"admitted", g>>
         \/ \E g \in GPUs, w \in Workers : h = <<"waiting", <<g, w>>>> \/ h = <<"running", <<g, w>>>>
         \/ h = <<"new", "client">> \/ h = <<"finished", "client">>
BY DEF Holders

\* A step that changes only these holders.
LEMMA OthersKeep ==
  ASSUME NEW except,
         \A m \in Models :
           /\ <<"frontend", m>> \in except \/ frontend'[m] = frontend[m]
           /\ <<"backend", m>> \in except \/ backend'[m] = backend[m],
         \A g \in GPUs :
           /\ <<"queue", g>> \in except \/ queue'[g] = queue[g]
           /\ <<"new_queue", g>> \in except \/ new_queue'[g] = new_queue[g]
           /\ <<"admitted", g>> \in except \/ admitted'[g] = admitted[g],
         \A g \in GPUs, w \in Workers :
           /\ <<"waiting", <<g, w>>>> \in except \/ waiting'[g][w] = waiting[g][w]
           /\ <<"running", <<g, w>>>> \in except \/ running'[g][w] = running[g][w],
         <<"new", "client">> \in except \/ submitted' = submitted,
         <<"finished", "client">> \in except \/ finished' = finished
  PROVE  \A h \in Holders \ except : Holding'[h] = Holding[h]
<1> SUFFICES ASSUME NEW h \in Holders, h \notin except PROVE Holding'[h] = Holding[h]
  OBVIOUS
<1>1. ASSUME NEW m \in Models, h = <<"frontend", m>> PROVE Holding'[h] = Holding[h]
  <2>1. ToSet(frontend'[m]) = ToSet(frontend[m])
    BY <1>1 DEF ToSet
  <2>2. Holding[h] = ToSet(frontend[m]) /\ Holding'[h] = ToSet(frontend'[m])
    BY <1>1, HoldingIs, HoldingWillBe
  <2> QED
    BY <2>1, <2>2
<1>2. ASSUME NEW m \in Models, h = <<"backend", m>> PROVE Holding'[h] = Holding[h]
  <2>1. ToSet(backend'[m]) = ToSet(backend[m])
    BY <1>2 DEF ToSet
  <2>2. Holding[h] = ToSet(backend[m]) /\ Holding'[h] = ToSet(backend'[m])
    BY <1>2, HoldingIs, HoldingWillBe
  <2> QED
    BY <2>1, <2>2
<1>3. ASSUME NEW g \in GPUs, h = <<"queue", g>> \/ h = <<"new_queue", g>> \/ h = <<"admitted", g>>
      PROVE  Holding'[h] = Holding[h]
  <2>1. CASE h = <<"queue", g>>
    BY <2>1, HoldingIs, HoldingWillBe
  <2>2. CASE h = <<"new_queue", g>>
    BY <2>2, HoldingIs, HoldingWillBe
  <2>3. CASE h = <<"admitted", g>>
    BY <2>3, HoldingIs, HoldingWillBe
  <2> QED
    BY <1>3, <2>1, <2>2, <2>3
<1>4. ASSUME NEW g \in GPUs, NEW w \in Workers, h = <<"waiting", <<g, w>>>>
      PROVE  Holding'[h] = Holding[h]
  <2>1. waiting'[g][w] = waiting[g][w]
    BY <1>4
  <2> QED
    BY <1>4, <2>1, HoldingIs, HoldingWillBe
<1>5. ASSUME NEW g \in GPUs, NEW w \in Workers, h = <<"running", <<g, w>>>>
      PROVE  Holding'[h] = Holding[h]
  <2>1. running'[g][w] = running[g][w]
    BY <1>5
  <2> QED
    BY <1>5, <2>1, HoldingIs, HoldingWillBe
<1>6. CASE h = <<"new", "client">>
  BY <1>6, HoldingIs, HoldingWillBe
<1>7. CASE h = <<"finished", "client">>
  BY <1>7, HoldingIs, HoldingWillBe
<1> QED
  BY HolderCases, <1>1, <1>2, <1>3, <1>4, <1>5, <1>6, <1>7
-------------------------------------------------------------------------------
(* Every step moves requests *)

ConservedInv == OneHolder(Holding) /\ NothingTwice

\* Before the first request all are with the clients.
LEMMA ConservedInit == Init => ConservedInv
<1> SUFFICES ASSUME Init PROVE ConservedInv
  OBVIOUS
<1>1. ToSet(<<>>) = {} /\ IsInjective(<<>>)
  BY DEF ToSet, IsInjective
<1>2. NothingTwice
  BY <1>1 DEF Init, RedisInit, NothingTwice
<1>3. \A h \in Holders \ {<<"new", "client">>} : Holding[h] = {}
  <2>1. \A m \in Models : ToSet(frontend[m]) = {} /\ ToSet(backend[m]) = {}
    BY <1>1 DEF Init, RedisInit
  <2>2. \A m \in Models : Holding[<<"frontend", m>>] = {} /\ Holding[<<"backend", m>>] = {}
    BY <2>1, HoldingIs
  <2>3. /\ \A g \in GPUs : queue[g] = {} /\ new_queue[g] = {} /\ admitted[g] = {}
        /\ \A g \in GPUs, w \in Workers : waiting[g][w] = {} /\ running[g][w] = {}
        /\ finished = {}
    BY DEF Init, SchedInit, EngineInit
  <2>4. /\ \A g \in GPUs : /\ Holding[<<"queue", g>>] = {} /\ Holding[<<"new_queue", g>>] = {}
                           /\ Holding[<<"admitted", g>>] = {}
        /\ \A g \in GPUs, w \in Workers :
             Holding[<<"waiting", <<g, w>>>>] = {} /\ Holding[<<"running", <<g, w>>>>] = {}
        /\ Holding[<<"finished", "client">>] = {}
    BY <2>3, HoldingIs
  <2> QED
    BY <2>2, <2>4, HolderCases
<1>4. Holding[<<"new", "client">>] = Reqs
  BY HoldingIs DEF Init
<1> QED
  BY <1>2, <1>3, <1>4, HoldersAre DEF OneHolder, ConservedInv

\* A step that leaves every holder alone.
LEMMA NothingMoves ==
  ASSUME ConservedInv, UNCHANGED <<frontend, backend, queue, new_queue, admitted, waiting, running,
                                   submitted, finished>>
  PROVE  ConservedInv'
<1>1. \A h \in Holders : Holding'[h] = Holding[h]
  <2>1. \A h \in Holders \ {} : Holding'[h] = Holding[h]
    BY OthersKeep
  <2> QED
    BY <2>1
<1>2. OneHolder(Holding')
  BY <1>1 DEF ConservedInv, OneHolder
<1> QED
  BY <1>2 DEF ConservedInv, NothingTwice, OneHolder

\* A client's request goes to the frontend list of its model.
LEMMA GenerateMoves ==
  ASSUME ServingInv, ConservedInv, NEW r \in Reqs, Generate(r)
  PROVE  ConservedInv'
<1> DEFINE m == ModelOf[r]
           A == <<"new", "client">>
           B == <<"frontend", m>>
<1>1. m \in Models /\ frontend \in [Models -> Seq(Reqs)] /\ submitted \in SUBSET Reqs
  BY PartiesAssumption DEF ServingInv, ServingTypeOK, RedisTypeOK, RequestsTypeOK
<1>2. /\ frontend' = [frontend EXCEPT ![m] = Append(@, r)] /\ submitted' = submitted \cup {r}
      /\ r \notin submitted
      /\ UNCHANGED <<backend, queue, new_queue, admitted, waiting, running, finished>>
  BY DEF Generate, schedVars, engineVars
<1> HIDE DEF m
<1>3. A \in Holders /\ B \in Holders /\ A # B
  BY <1>1, HoldersAre
<1>4. Holding[A] = Reqs \ submitted /\ Holding'[A] = Holding[A] \ {r}
  BY <1>2, HoldingIs, HoldingWillBe
<1>5. r \notin ToSet(frontend[m])
  <2>1. Holding[B] = ToSet(frontend[m])
    BY <1>1, HoldingIs
  <2>2. r \in Holding[A]
    BY <1>2, <1>4
  <2> QED
    BY <1>3, <2>1, <2>2 DEF ConservedInv, OneHolder
<1>6. /\ ToSet(Append(frontend[m], r)) = ToSet(frontend[m]) \cup {r}
      /\ IsInjective(Append(frontend[m], r))
  BY <1>1, <1>5, ToSetAppend, InjectiveAppend DEF ConservedInv, NothingTwice
<1>7. Holding'[B] = Holding[B] \cup {r}
  BY <1>1, <1>2, <1>6, HoldingIs, HoldingWillBe
<1>8. \A h \in Holders \ {A, B} : Holding'[h] = Holding[h]
  <2>1. \A n \in Models : n # m => frontend'[n] = frontend[n]
    BY <1>1, <1>2
  <2> QED
    BY <1>2, <2>1, OthersKeep
<1>9. OneHolder(Holding')
  <2>1. Moves(Holding, Holding', A, B, {r})
    BY <1>2, <1>3, <1>4, <1>7, <1>8 DEF Moves
  <2> QED
    BY <2>1, MoveKeeps DEF ConservedInv
<1>10. NothingTwice'
  BY <1>1, <1>2, <1>6 DEF ConservedInv, NothingTwice
<1> QED
  BY <1>9, <1>10 DEF ConservedInv, OneHolder

\* The receiver thread takes the frontend lists of several models at once.
LEMMA RecvFrontendMoves ==
  ASSUME ServingInv, ConservedInv, NEW g \in GPUs, RecvFromFrontendQueue(g),
         UNCHANGED <<waiting, running, submitted, finished>>
  PROVE  ConservedInv'
<1> DEFINE B == <<"queue", g>>
           lists == {ToSet(frontend[m]) : m \in CanReceive(g)}
<1>1. /\ frontend \in [Models -> Seq(Reqs)] /\ queue \in [GPUs -> SUBSET Reqs]
      /\ CanReceive(g) \subseteq Models
  BY DEF ServingInv, ServingTypeOK, RedisTypeOK, SchedTypeOK, CanReceive
<1>2. /\ queue' = [queue EXCEPT ![g] = @ \cup UNION lists]
      /\ frontend' = [m \in Models |-> IF m \in CanReceive(g) THEN <<>> ELSE frontend[m]]
      /\ UNCHANGED <<backend, new_queue, admitted>>
  BY DEF RecvFromFrontendQueue
<1>3. ToSet(<<>>) = {} /\ IsInjective(<<>>)
  BY DEF ToSet, IsInjective
<1>4. \A m \in Models : frontend'[m] = IF m \in CanReceive(g) THEN <<>> ELSE frontend[m]
  BY <1>2
<1>5. queue'[g] = queue[g] \cup UNION lists
  BY <1>1, <1>2
<1>6. ASSUME NEW m \in Models
      PROVE  Holding'[<<"frontend", m>>] = IF m \in CanReceive(g) THEN {} ELSE Holding[<<"frontend", m>>]
  <2>1. CASE m \in CanReceive(g)
    BY <1>3, <1>4, <2>1, HoldingWillBe
  <2>2. CASE m \notin CanReceive(g)
    <3>1. frontend'[m] = frontend[m]
      BY <1>4, <2>2
    <3>2. ToSet(frontend'[m]) = ToSet(frontend[m])
      BY <3>1 DEF ToSet
    <3>3. /\ Holding[<<"frontend", m>>] = ToSet(frontend[m])
          /\ Holding'[<<"frontend", m>>] = ToSet(frontend'[m])
      BY HoldingIs, HoldingWillBe
    <3> QED
      BY <2>2, <3>2, <3>3
  <2> QED
    BY <2>1, <2>2
<1>7. \A h \in Holders \ ({<<"frontend", m>> : m \in Models} \cup {B}) : Holding'[h] = Holding[h]
  <2>1. \A h \in GPUs : h # g => queue'[h] = queue[h]
    BY <1>1, <1>2
  <2> QED
    BY <1>2, <2>1, OthersKeep
<1>8. Holding[B] = queue[g] /\ Holding'[B] = queue'[g]
  BY HoldingIs, HoldingWillBe
<1>9. \A m \in CanReceive(g) : Holding[<<"frontend", m>>] = ToSet(frontend[m])
  BY <1>1, HoldingIs
<1>10. \A x : x \in UNION lists <=> \E m \in CanReceive(g) : x \in Holding[<<"frontend", m>>]
  BY <1>9
<1>11. \A h \in Holders \ {B} :
        Holding'[h] = IF \E m \in CanReceive(g) : h = <<"frontend", m>> THEN {} ELSE Holding[h]
  BY <1>1, <1>6, <1>7
<1>12. B \in Holders /\ \A m \in Models : <<"frontend", m>> \in Holders \ {B}
  BY HoldersAre
<1>13. Gathers(Holding, Holding', B)
  BY <1>1, <1>5, <1>8, <1>10, <1>11, <1>12 DEF Gathers
<1>14. OneHolder(Holding')
  BY <1>13, GatherKeeps DEF ConservedInv
<1>15. NothingTwice'
  BY <1>2, <1>3, <1>4 DEF ConservedInv, NothingTwice
<1> QED
  BY <1>14, <1>15 DEF ConservedInv, OneHolder

\* A deactivation sends what the queue and the backend list hold of the model
\* to its frontend list, in whatever order.
LEMMA DeactivateMoves ==
  ASSUME ServingInv, ConservedInv, NEW g \in GPUs, HandleDeactivate(g),
         UNCHANGED <<waiting, running, submitted, finished>>
  PROVE  ConservedInv'
<1> DEFINE m == Head(handler_sock[g]).model
           popped == RequestsOf(queue[g], m)
           F == <<"frontend", m>>
           B == <<"backend", m>>
           Q == <<"queue", g>>
<1>1. /\ frontend \in [Models -> Seq(Reqs)] /\ backend \in [Models -> Seq(Reqs)]
      /\ queue \in [GPUs -> SUBSET Reqs] /\ popped \in SUBSET Reqs /\ popped \subseteq queue[g]
  BY DEF ServingInv, ServingTypeOK, RedisTypeOK, SchedTypeOK, RequestsOf
<1>2. m \in Models
  <2>1. handler_sock[g] \in Seq(ControlReqs) /\ handler_sock[g] # <<>>
    BY DEF HandleDeactivate, Obeys, ServingInv, HandlerInv
  <2> QED
    BY <2>1, HeadTail, NamesModel
<1>3. PICK order \in SetToSeqs(popped) :
        frontend' = [frontend EXCEPT ![m] = @ \o order \o backend[m]]
  BY DEF HandleDeactivate
<1>4. /\ queue' = [queue EXCEPT ![g] = @ \ popped] /\ backend' = [backend EXCEPT ![m] = <<>>]
      /\ UNCHANGED <<new_queue, admitted>>
  BY DEF HandleDeactivate
<1>5. order \in Seq(Reqs) /\ ToSet(order) = popped /\ IsInjective(order)
  BY <1>1, OrderCovers
<1> HIDE DEF m, popped
<1>6. F \in Holders /\ B \in Holders /\ Q \in Holders /\ F # B /\ F # Q /\ B # Q
  BY <1>2, HoldersAre
<1>7. Holding[F] = ToSet(frontend[m]) /\ Holding[B] = ToSet(backend[m]) /\ Holding[Q] = queue[g]
  BY <1>2, HoldingIs
<1>8. /\ ToSet(frontend[m]) \cap popped = {} /\ ToSet(frontend[m]) \cap ToSet(backend[m]) = {}
      /\ popped \cap ToSet(backend[m]) = {}
  <2>1. popped \subseteq Reqs /\ ToSet(backend[m]) \subseteq Reqs
    BY <1>1, <1>2, ToSetIn
  <2> QED
    BY <1>1, <1>6, <1>7, <2>1 DEF ConservedInv, OneHolder
<1>9. IsInjective(frontend[m]) /\ IsInjective(backend[m])
  BY <1>2 DEF ConservedInv, NothingTwice
<1> DEFINE two == frontend[m] \o order
           all == two \o backend[m]
<1>10. two \in Seq(Reqs) /\ ToSet(two) = ToSet(frontend[m]) \cup popped /\ IsInjective(two)
  BY <1>1, <1>2, <1>5, <1>8, <1>9, InjectiveConcat
<1>11. ToSet(all) = ToSet(frontend[m]) \cup popped \cup ToSet(backend[m]) /\ IsInjective(all)
  <2> HIDE DEF two
  <2>1. backend[m] \in Seq(Reqs) /\ ToSet(two) \cap ToSet(backend[m]) = {}
    BY <1>1, <1>2, <1>8, <1>10
  <2> QED
    BY <1>9, <1>10, <2>1, InjectiveConcat
<1>12. frontend'[m] = all /\ backend'[m] = <<>> /\ queue'[g] = queue[g] \ popped
  BY <1>1, <1>2, <1>3, <1>4
<1>13. \A n \in Models \ {m} : frontend'[n] = frontend[n] /\ backend'[n] = backend[n]
  BY <1>1, <1>3, <1>4
<1> HIDE DEF all
<1>14. ToSet(<<>>) = {} /\ IsInjective(<<>>)
  BY DEF ToSet, IsInjective
<1>15. Holding'[F] = Holding[F] \cup popped \cup Holding[B]
  <2>1. Holding'[F] = ToSet(all)
    BY <1>2, <1>12, HoldingWillBe
  <2> QED
    BY <1>7, <1>11, <2>1
<1>16. Holding'[B] = {} /\ Holding'[Q] = Holding[Q] \ popped
  BY <1>2, <1>7, <1>12, <1>14, HoldingWillBe
<1>17. \A h \in Holders \ {F, B, Q} : Holding'[h] = Holding[h]
  <2>1. \A h \in GPUs : h # g => queue'[h] = queue[h]
    BY <1>1, <1>4
  <2> QED
    BY <1>4, <1>13, <2>1, OthersKeep
<1>18. Gathers(Holding, Holding', F)
  BY <1>1, <1>6, <1>7, <1>15, <1>16, <1>17 DEF Gathers
<1>19. OneHolder(Holding')
  BY <1>18, GatherKeeps DEF ConservedInv
<1>20. NothingTwice'
  BY <1>11, <1>12, <1>13, <1>14 DEF ConservedInv, NothingTwice
<1> QED
  BY <1>19, <1>20 DEF ConservedInv, OneHolder

\* The scheduling thread takes requests out of the queue, and puts them back or
\* pushes them.
LEMMA SchedulingMoves ==
  ASSUME ServingInv, ConservedInv, NEW g \in GPUs, SchedulingLoop(g),
         UNCHANGED <<waiting, running, submitted, finished>>
  PROVE  ConservedInv'
<1> DEFINE Q == <<"queue", g>>
           N == <<"new_queue", g>>
           A == <<"admitted", g>>
<1>0. /\ queue \in [GPUs -> SUBSET Reqs] /\ new_queue \in [GPUs -> SUBSET Reqs]
      /\ admitted \in [GPUs -> SUBSET Reqs] /\ backend \in [Models -> Seq(Reqs)]
  BY DEF ServingInv, ServingTypeOK, RedisTypeOK, SchedTypeOK
<1>h. Q \in Holders /\ N \in Holders /\ A \in Holders /\ Q # N /\ Q # A /\ N # A
  BY HoldersAre
<1>k. Holding[Q] = queue[g] /\ Holding[N] = new_queue[g] /\ Holding[A] = admitted[g]
  BY HoldingIs
<1>l. Holding'[Q] = queue'[g] /\ Holding'[N] = new_queue'[g] /\ Holding'[A] = admitted'[g]
  BY HoldingWillBe
<1>1. CASE ReadBackendLens(g)
  BY <1>1, NothingMoves DEF ReadBackendLens, redisVars
<1>2. CASE AdmissionControl(g)
  <2>1. PICK r \in queue[g] :
          /\ queue' = [queue EXCEPT ![g] = @ \ {r}]
          /\ \/ /\ admitted' = [admitted EXCEPT ![g] = @ \cup {r}]
                /\ UNCHANGED new_queue
             \/ /\ new_queue' = [new_queue EXCEPT ![g] = @ \cup {r}]
                /\ UNCHANGED admitted
    BY <1>2 DEF AdmissionControl
  <2>2. UNCHANGED <<frontend, backend>>
    BY <1>2 DEF AdmissionControl, redisVars
  <2>3. \A h \in Holders \ {Q, N, A} : Holding'[h] = Holding[h]
    <3>1. \A h \in GPUs : h # g => /\ queue'[h] = queue[h] /\ new_queue'[h] = new_queue[h]
                                   /\ admitted'[h] = admitted[h]
      BY <1>0, <2>1
    <3> QED
      BY <2>2, <3>1, OthersKeep
  <2>4. CASE admitted' = [admitted EXCEPT ![g] = @ \cup {r}] /\ UNCHANGED new_queue
    <3>1. /\ queue'[g] = queue[g] \ {r} /\ admitted'[g] = admitted[g] \cup {r}
          /\ new_queue'[g] = new_queue[g]
      BY <1>0, <2>1, <2>4
    <3>2. Moves(Holding, Holding', Q, A, {r})
      BY <1>h, <1>k, <1>l, <2>1, <2>3, <3>1 DEF Moves
    <3> QED
      BY <2>2, <3>2, MoveKeeps DEF ConservedInv, NothingTwice
  <2>5. CASE new_queue' = [new_queue EXCEPT ![g] = @ \cup {r}] /\ UNCHANGED admitted
    <3>1. /\ queue'[g] = queue[g] \ {r} /\ new_queue'[g] = new_queue[g] \cup {r}
          /\ admitted'[g] = admitted[g]
      BY <1>0, <2>1, <2>5
    <3>2. Moves(Holding, Holding', Q, N, {r})
      BY <1>h, <1>k, <1>l, <2>1, <2>3, <3>1 DEF Moves
    <3> QED
      BY <2>2, <3>2, MoveKeeps DEF ConservedInv, NothingTwice
  <2> QED
    BY <2>1, <2>4, <2>5
<1>3. CASE EndAdmission(g)
  <2>1. /\ queue[g] = {} /\ queue' = [queue EXCEPT ![g] = new_queue[g]]
        /\ new_queue' = [new_queue EXCEPT ![g] = {}] /\ UNCHANGED <<frontend, backend, admitted>>
    BY <1>3 DEF EndAdmission, redisVars
  <2>2. \A h \in Holders \ {Q, N} : Holding'[h] = Holding[h]
    <3>1. \A h \in GPUs : h # g => queue'[h] = queue[h] /\ new_queue'[h] = new_queue[h]
      BY <1>0, <2>1
    <3> QED
      BY <2>1, <3>1, OthersKeep
  <2>3. queue'[g] = queue[g] \cup new_queue[g] /\ new_queue'[g] = new_queue[g] \ new_queue[g]
    BY <1>0, <2>1
  <2>4. Moves(Holding, Holding', N, Q, new_queue[g])
    BY <1>h, <1>k, <1>l, <2>2, <2>3 DEF Moves
  <2> QED
    BY <2>1, <2>4, MoveKeeps DEF ConservedInv, NothingTwice
<1>4. CASE SendToBackendQueue(g)
  <2>1. PICK r \in admitted[g] :
          /\ backend' = [backend EXCEPT ![ModelOf[r]] = Append(@, r)]
          /\ admitted' = [admitted EXCEPT ![g] = @ \ {r}]
    BY <1>4 DEF SendToBackendQueue
  <2> DEFINE m == ModelOf[r]
             B == <<"backend", m>>
  <2>2. UNCHANGED <<frontend, queue, new_queue>>
    BY <1>4 DEF SendToBackendQueue
  <2>3. r \in Reqs /\ m \in Models /\ backend[m] \in Seq(Reqs) /\ IsInjective(backend[m])
    BY <1>0, PartiesAssumption DEF ConservedInv, NothingTwice
  <2>4. backend'[m] = Append(backend[m], r) /\ admitted'[g] = admitted[g] \ {r}
    BY <1>0, <2>1, <2>3
  <2>5. \A n \in Models \ {m} : backend'[n] = backend[n]
    BY <1>0, <2>1
  <2> HIDE DEF m
  <2>6. B \in Holders /\ A # B /\ Holding[B] = ToSet(backend[m])
    BY <2>3, HoldersAre, HoldingIs
  <2>7. r \notin ToSet(backend[m])
    BY <1>h, <1>k, <2>3, <2>6 DEF ConservedInv, OneHolder
  <2>8. ToSet(Append(backend[m], r)) = ToSet(backend[m]) \cup {r} /\ IsInjective(Append(backend[m], r))
    BY <2>3, <2>7, ToSetAppend, InjectiveAppend
  <2>9. Holding'[B] = ToSet(Append(backend[m], r))
    BY <2>3, <2>4, HoldingWillBe
  <2>10. \A h \in Holders \ {A, B} : Holding'[h] = Holding[h]
    <3>1. \A h \in GPUs : h # g => admitted'[h] = admitted[h]
      BY <1>0, <2>1
    <3> QED
      BY <2>2, <2>5, <3>1, OthersKeep
  <2>11. Moves(Holding, Holding', A, B, {r})
    BY <1>h, <1>k, <1>l, <2>1, <2>4, <2>6, <2>8, <2>9, <2>10 DEF Moves
  <2>12. NothingTwice'
    BY <2>2, <2>4, <2>5, <2>8 DEF ConservedInv, NothingTwice
  <2> QED
    BY <2>11, <2>12, MoveKeeps DEF ConservedInv
<1> QED
  BY <1>1, <1>2, <1>3, <1>4 DEF SchedulingLoop

\* A deactivated engine sends its waiting requests back, and retracts the
\* running ones when it preempts.
LEMMA EngineDeactivates ==
  ASSUME ServingInv, ConservedInv, NEW g \in GPUs, NEW w \in Workers,
         HandleDeactivateRequest(g, w), UNCHANGED <<queue, new_queue, admitted, submitted>>
  PROVE  ConservedInv'
<1> DEFINE req == Head(todo[g][w])
           m == hosted[g][w]
           F == <<"frontend", m>>
           W == <<"waiting", <<g, w>>>>
           R == <<"running", <<g, w>>>>
           was == waiting[g][w]
           ran == running[g][w]
<1>1. /\ frontend \in [Models -> Seq(Reqs)] /\ waiting \in [GPUs -> [Workers -> SUBSET Reqs]]
      /\ running \in [GPUs -> [Workers -> SUBSET Reqs]] /\ m \in Models
  BY DEF ServingInv, ServingTypeOK, RedisTypeOK, EngineTypeOK, EngineInv, ServesModel,
         HandleDeactivateRequest
<1>2. UNCHANGED <<backend, finished>>
  BY DEF HandleDeactivateRequest
<1>3. /\ IF Evicts(req)
         THEN \E order \in SetToSeqs(was) : frontend' = [frontend EXCEPT ![m] = @ \o order]
         ELSE UNCHANGED frontend
      /\ waiting' = [waiting EXCEPT ![g][w] = (IF Evicts(req) THEN {} ELSE was)
                                             \cup IF req.preempt THEN ran ELSE {}]
      /\ running' = [running EXCEPT ![g][w] = IF req.preempt THEN {} ELSE ran]
      /\ req.preempt => Evicts(req)
  BY <1>1 DEF HandleDeactivateRequest, KeptWaiting, Evicts
<1> HIDE DEF req, m
<1>4. F \in Holders /\ W \in Holders /\ R \in Holders /\ F # W /\ F # R /\ W # R
  BY <1>1, HoldersAre
<1>5. Holding[F] = ToSet(frontend[m]) /\ Holding[W] = was /\ Holding[R] = ran
  BY <1>1, HoldingIs
<1>6. /\ Holding'[F] = ToSet(frontend'[m]) /\ Holding'[W] = waiting'[g][w]
      /\ Holding'[R] = running'[g][w]
  BY <1>1, HoldingWillBe
<1>7. \A h \in Holders \ {F, W, R} : Holding'[h] = Holding[h]
  <2>1. \A n \in Models \ {m} : frontend'[n] = frontend[n]
    BY <1>1, <1>3
  <2>2. \A h \in GPUs, v \in Workers :
          <<h, v>> # <<g, w>> => waiting'[h][v] = waiting[h][v] /\ running'[h][v] = running[h][v]
    BY <1>1, <1>3
  <2> QED
    BY <1>2, <2>1, <2>2, OthersKeep
<1>8. /\ waiting'[g][w] = (IF Evicts(req) THEN {} ELSE was) \cup IF req.preempt THEN ran ELSE {}
      /\ running'[g][w] = IF req.preempt THEN {} ELSE ran
  BY <1>1, <1>3
<1>9. CASE ~Evicts(req)
  <2>1. UNCHANGED frontend /\ Holding'[F] = Holding[F]
    BY <1>3, <1>5, <1>6, <1>9
  <2>2. Holding'[W] = Holding[W] /\ Holding'[R] = Holding[R]
    BY <1>3, <1>5, <1>6, <1>8, <1>9
  <2>3. \A h \in Holders : Holding'[h] = Holding[h]
    BY <1>7, <2>1, <2>2
  <2> QED
    BY <1>2, <2>1, <2>3 DEF ConservedInv, OneHolder, NothingTwice
<1>10. CASE Evicts(req)
  <2>1. PICK order \in SetToSeqs(was) : frontend' = [frontend EXCEPT ![m] = @ \o order]
    BY <1>3, <1>10
  <2>2. order \in Seq(Reqs) /\ ToSet(order) = was /\ IsInjective(order)
    BY <1>1, OrderCovers
  <2>3. was \subseteq Reqs /\ ToSet(frontend[m]) \cap was = {} /\ ran \cap was = {}
    BY <1>1, <1>4, <1>5 DEF ConservedInv, OneHolder
  <2>4. ToSet(frontend[m] \o order) = ToSet(frontend[m]) \cup was /\ IsInjective(frontend[m] \o order)
    BY <1>1, <2>2, <2>3, InjectiveConcat DEF ConservedInv, NothingTwice
  <2>5. frontend'[m] = frontend[m] \o order /\ \A n \in Models \ {m} : frontend'[n] = frontend[n]
    BY <1>1, <2>1
  <2>6. NothingTwice'
    BY <1>2, <2>4, <2>5 DEF ConservedInv, NothingTwice
  <2>7. Holding'[F] = Holding[F] \cup was
    BY <1>5, <1>6, <2>4, <2>5
  <2> DEFINE M == [h \in Holders |-> IF h = F THEN Holding[F] \cup was
                                    ELSE IF h = W THEN {} ELSE Holding[h]]
  <2>8. Moves(Holding, M, W, F, was)
    BY <1>4, <1>5 DEF Moves
  <2>9. OneHolder(M)
    BY <2>8, MoveKeeps DEF ConservedInv
  <2>10. CASE req.preempt
    <3>1. Holding'[W] = ran /\ Holding'[R] = {}
      BY <1>6, <1>8, <1>10, <2>10
    <3>2. Moves(M, Holding', R, W, ran)
      BY <1>4, <1>5, <1>7, <2>7, <3>1 DEF Moves
    <3>3. OneHolder(Holding')
      BY <2>9, <3>2, MoveKeeps
    <3> QED
      BY <2>6, <3>3 DEF ConservedInv, OneHolder
  <2>11. CASE ~req.preempt
    <3>1. Holding'[W] = {} /\ Holding'[R] = Holding[R]
      BY <1>5, <1>6, <1>8, <1>10, <2>11
    <3>2. \A h \in Holders : Holding'[h] = M[h]
      BY <1>4, <1>7, <2>7, <3>1
    <3>3. OneHolder(Holding')
      BY <2>9, <3>2 DEF OneHolder
    <3> QED
      BY <2>6, <3>3 DEF ConservedInv, OneHolder
  <2> QED
    BY <2>10, <2>11
<1> QED
  BY <1>9, <1>10

\* An engine takes requests from the head of its backend list, starts, retracts
\* and finishes them.
LEMMA GenerationMoves ==
  ASSUME ServingInv, ConservedInv, NEW g \in GPUs, NEW w \in Workers, Generation(g, w),
         UNCHANGED <<queue, new_queue, admitted, submitted>>
  PROVE  ConservedInv'
<1> DEFINE W == <<"waiting", <<g, w>>>>
           R == <<"running", <<g, w>>>>
           Done == <<"finished", "client">>
<1>0. /\ backend \in [Models -> Seq(Reqs)] /\ waiting \in [GPUs -> [Workers -> SUBSET Reqs]]
      /\ running \in [GPUs -> [Workers -> SUBSET Reqs]]
  BY DEF ServingInv, ServingTypeOK, RedisTypeOK, EngineTypeOK
<1>h. W \in Holders /\ R \in Holders /\ Done \in Holders /\ W # R /\ W # Done /\ R # Done
  BY HoldersAre
<1>k. Holding[W] = waiting[g][w] /\ Holding[R] = running[g][w] /\ Holding[Done] = finished
  BY HoldingIs
<1>l. Holding'[W] = waiting'[g][w] /\ Holding'[R] = running'[g][w] /\ Holding'[Done] = finished'
  BY HoldingWillBe
<1>1. CASE RecvGenerationRequests(g, w)
  <2> DEFINE m == hosted[g][w]
             B == <<"backend", m>>
  <2>1. m \in Models
    BY <1>1 DEF RecvGenerationRequests, ServingInv, EngineInv, ServesModel
  <2>2. PICK n \in 1 .. Len(backend[m]) :
          /\ waiting' = [waiting EXCEPT ![g][w] = @ \cup ToSet(SubSeq(backend[m], 1, n))]
          /\ backend' = [backend EXCEPT ![m] = SubSeq(@, n + 1, Len(@))]
    BY <1>1 DEF RecvGenerationRequests
  <2> DEFINE taken == ToSet(SubSeq(backend[m], 1, n))
             rest == SubSeq(backend[m], n + 1, Len(backend[m]))
  <2>3. UNCHANGED <<frontend, running, finished>>
    BY <1>1 DEF RecvGenerationRequests
  <2> HIDE DEF m
  <2>4. /\ taken \subseteq ToSet(backend[m]) /\ ToSet(rest) = ToSet(backend[m]) \ taken
        /\ IsInjective(rest)
    BY <1>0, <2>1, InjectiveSplit DEF ConservedInv, NothingTwice
  <2>5. /\ waiting'[g][w] = waiting[g][w] \cup taken /\ backend'[m] = rest
        /\ \A k \in Models \ {m} : backend'[k] = backend[k]
    BY <1>0, <2>1, <2>2
  <2> HIDE DEF taken, rest
  <2>6. B \in Holders /\ B # W /\ Holding[B] = ToSet(backend[m]) /\ Holding'[B] = ToSet(backend'[m])
    BY <2>1, HoldersAre, HoldingIs, HoldingWillBe
  <2>7. Holding'[B] = Holding[B] \ taken
    BY <2>4, <2>5, <2>6
  <2>8. \A h \in Holders \ {B, W} : Holding'[h] = Holding[h]
    <3>1. \A h \in GPUs, v \in Workers : <<h, v>> # <<g, w>> => waiting'[h][v] = waiting[h][v]
      BY <1>0, <2>2
    <3> QED
      BY <2>3, <2>5, <3>1, OthersKeep
  <2>9. Moves(Holding, Holding', B, W, taken)
    BY <1>h, <1>k, <1>l, <2>4, <2>5, <2>6, <2>7, <2>8 DEF Moves
  <2>10. NothingTwice'
    BY <2>3, <2>4, <2>5 DEF ConservedInv, NothingTwice
  <2> QED
    BY <2>9, <2>10, MoveKeeps DEF ConservedInv
<1>2. ASSUME NEW r \in waiting[g][w],
             waiting' = [waiting EXCEPT ![g][w] = @ \ {r}],
             running' = [running EXCEPT ![g][w] = @ \cup {r}],
             UNCHANGED <<frontend, backend, finished>>
      PROVE  ConservedInv'
  <2>1. waiting'[g][w] = waiting[g][w] \ {r} /\ running'[g][w] = running[g][w] \cup {r}
    BY <1>0, <1>2
  <2>2. \A h \in Holders \ {W, R} : Holding'[h] = Holding[h]
    <3>1. \A h \in GPUs, v \in Workers :
            <<h, v>> # <<g, w>> => waiting'[h][v] = waiting[h][v] /\ running'[h][v] = running[h][v]
      BY <1>0, <1>2
    <3>2. \A h \in GPUs, v \in Workers :
            /\ <<"waiting", <<h, v>>>> \in {W, R} \/ waiting'[h][v] = waiting[h][v]
            /\ <<"running", <<h, v>>>> \in {W, R} \/ running'[h][v] = running[h][v]
      BY <3>1
    <3> QED
      BY <1>2, <3>2, OthersKeep
  <2>3. Moves(Holding, Holding', W, R, {r})
    BY <1>h, <1>k, <1>l, <2>1, <2>2 DEF Moves
  <2> QED
    BY <1>2, <2>3, MoveKeeps DEF ConservedInv, NothingTwice
<1>3. ASSUME NEW r \in running[g][w],
             running' = [running EXCEPT ![g][w] = @ \ {r}],
             waiting' = [waiting EXCEPT ![g][w] = @ \cup {r}],
             UNCHANGED <<frontend, backend, finished>>
      PROVE  ConservedInv'
  <2>1. waiting'[g][w] = waiting[g][w] \cup {r} /\ running'[g][w] = running[g][w] \ {r}
    BY <1>0, <1>3
  <2>2. \A h \in Holders \ {R, W} : Holding'[h] = Holding[h]
    <3>1. \A h \in GPUs, v \in Workers :
            <<h, v>> # <<g, w>> => waiting'[h][v] = waiting[h][v] /\ running'[h][v] = running[h][v]
      BY <1>0, <1>3
    <3>2. \A h \in GPUs, v \in Workers :
            /\ <<"waiting", <<h, v>>>> \in {R, W} \/ waiting'[h][v] = waiting[h][v]
            /\ <<"running", <<h, v>>>> \in {R, W} \/ running'[h][v] = running[h][v]
      BY <3>1
    <3> QED
      BY <1>3, <3>2, OthersKeep
  <2>3. Moves(Holding, Holding', R, W, {r})
    BY <1>h, <1>k, <1>l, <2>1, <2>2 DEF Moves
  <2> QED
    BY <1>3, <2>3, MoveKeeps DEF ConservedInv, NothingTwice
<1>4. ASSUME NEW r \in running[g][w],
             running' = [running EXCEPT ![g][w] = @ \ {r}], finished' = finished \cup {r},
             UNCHANGED <<frontend, backend, waiting>>
      PROVE  ConservedInv'
  <2>1. running'[g][w] = running[g][w] \ {r}
    BY <1>0, <1>4
  <2>2. \A h \in Holders \ {R, Done} : Holding'[h] = Holding[h]
    <3>1. \A h \in GPUs, v \in Workers : <<h, v>> # <<g, w>> => running'[h][v] = running[h][v]
      BY <1>0, <1>4
    <3> QED
      BY <1>4, <3>1, OthersKeep
  <2>3. Moves(Holding, Holding', R, Done, {r})
    BY <1>h, <1>k, <1>l, <1>4, <2>1, <2>2 DEF Moves
  <2> QED
    BY <1>4, <2>3, MoveKeeps DEF ConservedInv, NothingTwice
<1>5. CASE StartRunning(g, w)
  BY <1>2, <1>5 DEF StartRunning, redisVars
<1>6. CASE Retract(g, w)
  BY <1>3, <1>6 DEF Retract, redisVars
<1>7. CASE Finish(g, w)
  BY <1>4, <1>7 DEF Finish, redisVars
<1> QED
  BY <1>1, <1>5, <1>6, <1>7 DEF Generation

\* Every step of the system leaves each request with one holder.
LEMMA ConservedStep ==
  ASSUME ServingInv, ConservedInv, [Next]_vars
  PROVE  ConservedInv'
<1>1. CASE UNCHANGED vars
  BY <1>1, NothingMoves DEF vars, redisVars, schedVars, engineVars
<1>2. ASSUME NEW r \in Reqs, Generate(r) PROVE ConservedInv'
  BY <1>2, GenerateMoves
<1>3. ASSUME NEW g \in GPUs, NEW m \in Models, Activate(g, m) \/ Deactivate(g, m)
      PROVE  ConservedInv'
  BY <1>3, NothingMoves DEF Activate, Deactivate, Call, redisVars, engineVars
<1>4. ASSUME NEW g \in GPUs, SchedulerStep(g) PROVE ConservedInv'
  <2>1. UNCHANGED <<waiting, running, submitted, finished>>
    BY <1>4 DEF SchedulerStep, engineVars
  <2>2. CASE RecvFromFrontendQueue(g)
    BY <2>1, <2>2, RecvFrontendMoves
  <2>3. CASE HandleDeactivate(g)
    BY <2>1, <2>3, DeactivateMoves
  <2>4. CASE MarkModel(g) \/ HandleActivate(g) \/ RecvFromEngine(g) \/ HandleReport(g)
             \/ ReportsHandled(g)
    BY <2>1, <2>4, NothingMoves DEF MarkModel, HandleActivate, RecvFromEngine, HandleReport,
                                    ReportsHandled, redisVars
  <2>5. CASE SchedulingLoop(g)
    BY <2>1, <2>5, SchedulingMoves
  <2> QED
    BY <1>4, <2>2, <2>3, <2>4, <2>5 DEF SchedulerStep, Receiver
<1>5. ASSUME NEW g \in GPUs, NEW w \in Workers, EngineStep(g, w) PROVE ConservedInv'
  <2>1. UNCHANGED <<queue, new_queue, admitted, submitted>>
    BY <1>5 DEF EngineStep, schedVars
  <2>2. CASE HandleDeactivateRequest(g, w)
    BY <2>1, <2>2, EngineDeactivates
  <2>3. CASE PollControl(g, w) \/ HandleActivateRequest(g, w) \/ RefuseDeactivateRequest(g, w)
             \/ CompleteDeactivation(g, w)
    BY <2>1, <2>3, NothingMoves DEF PollControl, HandleActivateRequest, RefuseDeactivateRequest,
                                    CompleteDeactivation, redisVars
  <2>4. CASE Generation(g, w)
    BY <2>1, <2>4, GenerationMoves
  <2> QED
    BY <1>5, <2>2, <2>3, <2>4 DEF EngineStep, Control
<1> QED
  BY <1>1, <1>2, <1>3, <1>4, <1>5 DEF Next

\* Every request has one holder, and no list has one twice, throughout.
LEMMA ConservedHolds == Spec => []ConservedInv
<1>1. PoolTypeOK /\ HandlerInv /\ (ServingTypeOK /\ EngineInv) /\ ConservedInv /\ [Next]_vars
        => ConservedInv'
  BY ConservedStep DEF ServingInv
<1> QED
  BY <1>1, ConservedInit, TypesHold, PTL DEF Spec
-------------------------------------------------------------------------------
(* One holder is one place *)

\* A list without duplicates has an element at one position.
LEMMA OnePosition ==
  ASSUME NEW q, IsInjective(q), NEW x
  PROVE  LET at == {i \in DOMAIN q : q[i] = x}
         IN  IF x \in ToSet(q) THEN \E i : at = {i} ELSE at = {}
<1> DEFINE at == {i \in DOMAIN q : q[i] = x}
<1>1. CASE x \in ToSet(q)
  <2>1. PICK i \in DOMAIN q : q[i] = x
    BY <1>1 DEF ToSet
  <2>2. at = {i}
    BY <2>1 DEF IsInjective
  <2> QED
    BY <1>1, <2>2
<1>2. CASE x \notin ToSet(q)
  BY <1>2 DEF ToSet
<1> QED
  BY <1>1, <1>2

\* The places of a request, one by one.
LEMMA PlacesAre ==
  ASSUME NEW r, NEW p
  PROVE  p \in Places(r) <=>
           \/ \E m \in Models : \E i \in DOMAIN frontend[m] :
                frontend[m][i] = r /\ p = <<"frontend", m, i>>
           \/ \E m \in Models : \E i \in DOMAIN backend[m] :
                backend[m][i] = r /\ p = <<"backend", m, i>>
           \/ \E g \in GPUs : r \in queue[g] /\ p = <<"queue", g>>
           \/ \E g \in GPUs : r \in new_queue[g] /\ p = <<"new_queue", g>>
           \/ \E g \in GPUs : r \in admitted[g] /\ p = <<"admitted", g>>
           \/ \E g \in GPUs, w \in Workers : r \in waiting[g][w] /\ p = <<"waiting", <<g, w>>>>
           \/ \E g \in GPUs, w \in Workers : r \in running[g][w] /\ p = <<"running", <<g, w>>>>
<1> DEFINE In(list) == {i \in DOMAIN list : list[i] = r}
           fr == UNION {{<<"frontend", m, i>> : i \in In(frontend[m])} : m \in Models}
           ba == UNION {{<<"backend", m, i>> : i \in In(backend[m])} : m \in Models}
           qu == {<<"queue", g>> : g \in {g \in GPUs : r \in queue[g]}}
           nq == {<<"new_queue", g>> : g \in {g \in GPUs : r \in new_queue[g]}}
           ad == {<<"admitted", g>> : g \in {g \in GPUs : r \in admitted[g]}}
           wa == {<<"waiting", x>> : x \in {x \in GPUs \X Workers : r \in waiting[x[1]][x[2]]}}
           ru == {<<"running", x>> : x \in {x \in GPUs \X Workers : r \in running[x[1]][x[2]]}}
<1>1. Places(r) = fr \cup ba \cup qu \cup nq \cup ad \cup wa \cup ru
  BY DEF Places
<1>2. p \in fr <=> \E m \in Models : \E i \in DOMAIN frontend[m] :
                     frontend[m][i] = r /\ p = <<"frontend", m, i>>
  OBVIOUS
<1>3. p \in ba <=> \E m \in Models : \E i \in DOMAIN backend[m] :
                     backend[m][i] = r /\ p = <<"backend", m, i>>
  OBVIOUS
<1>4. /\ p \in qu <=> \E g \in GPUs : r \in queue[g] /\ p = <<"queue", g>>
      /\ p \in nq <=> \E g \in GPUs : r \in new_queue[g] /\ p = <<"new_queue", g>>
      /\ p \in ad <=> \E g \in GPUs : r \in admitted[g] /\ p = <<"admitted", g>>
  OBVIOUS
<1>5. p \in wa <=> \E g \in GPUs, w \in Workers : r \in waiting[g][w] /\ p = <<"waiting", <<g, w>>>>
  OBVIOUS
<1>6. p \in ru <=> \E g \in GPUs, w \in Workers : r \in running[g][w] /\ p = <<"running", <<g, w>>>>
  OBVIOUS
<1> HIDE DEF fr, ba, qu, nq, ad, wa, ru
<1> QED
  BY <1>1, <1>2, <1>3, <1>4, <1>5, <1>6

\* Where a request is, given its holder.
LEMMA HeldThere ==
  ASSUME NEW r \in Reqs, NEW h \in Holders, \A i \in Holders : r \in Holding[i] <=> i = h
  PROVE  /\ \A m \in Models :
              /\ (\E i \in DOMAIN frontend[m] : frontend[m][i] = r) <=> h = <<"frontend", m>>
              /\ (\E i \in DOMAIN backend[m] : backend[m][i] = r) <=> h = <<"backend", m>>
         /\ \A g \in GPUs : /\ r \in queue[g] <=> h = <<"queue", g>>
                            /\ r \in new_queue[g] <=> h = <<"new_queue", g>>
                            /\ r \in admitted[g] <=> h = <<"admitted", g>>
         /\ \A g \in GPUs, w \in Workers :
              /\ r \in waiting[g][w] <=> h = <<"waiting", <<g, w>>>>
              /\ r \in running[g][w] <=> h = <<"running", <<g, w>>>>
         /\ r \notin submitted <=> h = <<"new", "client">>
         /\ r \in finished <=> h = <<"finished", "client">>
<1>1. \A m \in Models :
        /\ (\E i \in DOMAIN frontend[m] : frontend[m][i] = r) <=> h = <<"frontend", m>>
        /\ (\E i \in DOMAIN backend[m] : backend[m][i] = r) <=> h = <<"backend", m>>
  <2> TAKE m \in Models
  <2>1. /\ Holding[<<"frontend", m>>] = ToSet(frontend[m])
        /\ Holding[<<"backend", m>>] = ToSet(backend[m])
    BY HoldingIs
  <2>2. /\ r \in ToSet(frontend[m]) <=> h = <<"frontend", m>>
        /\ r \in ToSet(backend[m]) <=> h = <<"backend", m>>
    BY <2>1, HoldersAre
  <2> QED
    BY <2>2 DEF ToSet
<1>2. \A g \in GPUs : /\ r \in queue[g] <=> h = <<"queue", g>>
                      /\ r \in new_queue[g] <=> h = <<"new_queue", g>>
                      /\ r \in admitted[g] <=> h = <<"admitted", g>>
  <2> TAKE g \in GPUs
  <2>1. /\ Holding[<<"queue", g>>] = queue[g] /\ Holding[<<"new_queue", g>>] = new_queue[g]
        /\ Holding[<<"admitted", g>>] = admitted[g]
    BY HoldingIs
  <2> QED
    BY <2>1, HoldersAre
<1>3. \A g \in GPUs, w \in Workers :
        /\ r \in waiting[g][w] <=> h = <<"waiting", <<g, w>>>>
        /\ r \in running[g][w] <=> h = <<"running", <<g, w>>>>
  <2> TAKE g \in GPUs, w \in Workers
  <2>1. /\ Holding[<<"waiting", <<g, w>>>>] = waiting[g][w]
        /\ Holding[<<"running", <<g, w>>>>] = running[g][w]
    BY HoldingIs
  <2> QED
    BY <2>1, HoldersAre
<1>4. /\ r \notin submitted <=> h = <<"new", "client">>
      /\ r \in finished <=> h = <<"finished", "client">>
  BY HoldersAre, HoldingIs
<1> QED
  BY <1>1, <1>2, <1>3, <1>4

\* A request with one holder, in lists without duplicates, is in one place.
LEMMA OnePlace ==
  ASSUME ConservedInv, NEW r \in Reqs
  PROVE  IF r \in submitted \ finished THEN \E p : Places(r) = {p} ELSE Places(r) = {}
<1>1. PICK h \in Holders : \A i \in Holders : r \in Holding[i] <=> i = h
  BY DEF ConservedInv, OneHolder
<1>2. \A m \in Models :
        /\ (\E i \in DOMAIN frontend[m] : frontend[m][i] = r) <=> h = <<"frontend", m>>
        /\ (\E i \in DOMAIN backend[m] : backend[m][i] = r) <=> h = <<"backend", m>>
  BY <1>1, HeldThere
<1>3. \A g \in GPUs : /\ r \in queue[g] <=> h = <<"queue", g>>
                      /\ r \in new_queue[g] <=> h = <<"new_queue", g>>
                      /\ r \in admitted[g] <=> h = <<"admitted", g>>
  BY <1>1, HeldThere
<1>4. \A g \in GPUs, w \in Workers : /\ r \in waiting[g][w] <=> h = <<"waiting", <<g, w>>>>
                                     /\ r \in running[g][w] <=> h = <<"running", <<g, w>>>>
  BY <1>1, HeldThere
<1>5. /\ r \notin submitted <=> h = <<"new", "client">>
      /\ r \in finished <=> h = <<"finished", "client">>
  BY <1>1, HeldThere
<1>7. ASSUME NEW m \in Models, NEW i \in DOMAIN frontend[m], frontend[m][i] = r
      PROVE  h = <<"frontend", m>>
  BY <1>2, <1>7
<1>8. ASSUME NEW m \in Models, NEW i \in DOMAIN backend[m], backend[m][i] = r
      PROVE  h = <<"backend", m>>
  BY <1>2, <1>8
<1>9. r \in submitted \ finished <=> h # <<"new", "client">> /\ h # <<"finished", "client">>
  BY <1>5
<1>10. ASSUME NEW m \in Models, h = <<"frontend", m>>
       PROVE  r \in submitted \ finished /\ \E p : Places(r) = {p}
  <2>1. PICK i : {j \in DOMAIN frontend[m] : frontend[m][j] = r} = {i}
    <3>1. IsInjective(frontend[m]) /\ r \in ToSet(frontend[m])
      BY <1>2, <1>10 DEF ConservedInv, NothingTwice, ToSet
    <3> QED
      BY <3>1, OnePosition
  <2>2. \A n \in Models : \A j \in DOMAIN frontend[n] : frontend[n][j] = r <=> n = m /\ j = i
    BY <1>7, <1>10, <2>1
  <2>3. i \in DOMAIN frontend[m] /\ frontend[m][i] = r
    BY <2>1
  <2>4. ASSUME NEW p PROVE p \in Places(r) <=> p = <<"frontend", m, i>>
    <3>1. \A n \in Models : \A j \in DOMAIN backend[n] : backend[n][j] # r
      BY <1>8, <1>10
    <3>2. \A g \in GPUs : r \notin queue[g] /\ r \notin new_queue[g] /\ r \notin admitted[g]
      <4> TAKE g \in GPUs
      <4>1. h # <<"queue", g>> /\ h # <<"new_queue", g>> /\ h # <<"admitted", g>>
        BY <1>10
      <4> QED
        BY <1>3, <4>1
    <3>3. \A g \in GPUs, w \in Workers : r \notin waiting[g][w] /\ r \notin running[g][w]
      <4> TAKE g \in GPUs, w \in Workers
      <4>1. h # <<"waiting", <<g, w>>>> /\ h # <<"running", <<g, w>>>>
        BY <1>10
      <4> QED
        BY <1>4, <4>1
    <3> QED
      BY <2>2, <2>3, <3>1, <3>2, <3>3, PlacesAre
  <2>5. Places(r) = {<<"frontend", m, i>>}
    BY <2>4
  <2> QED
    BY <1>9, <1>10, <2>5
<1>11. ASSUME NEW m \in Models, h = <<"backend", m>>
       PROVE  r \in submitted \ finished /\ \E p : Places(r) = {p}
  <2>1. PICK i : {j \in DOMAIN backend[m] : backend[m][j] = r} = {i}
    <3>1. IsInjective(backend[m]) /\ r \in ToSet(backend[m])
      BY <1>2, <1>11 DEF ConservedInv, NothingTwice, ToSet
    <3> QED
      BY <3>1, OnePosition
  <2>2. \A n \in Models : \A j \in DOMAIN backend[n] : backend[n][j] = r <=> n = m /\ j = i
    BY <1>8, <1>11, <2>1
  <2>3. i \in DOMAIN backend[m] /\ backend[m][i] = r
    BY <2>1
  <2>4. ASSUME NEW p PROVE p \in Places(r) <=> p = <<"backend", m, i>>
    <3>1. \A n \in Models : \A j \in DOMAIN frontend[n] : frontend[n][j] # r
      BY <1>7, <1>11
    <3>2. \A g \in GPUs : r \notin queue[g] /\ r \notin new_queue[g] /\ r \notin admitted[g]
      <4> TAKE g \in GPUs
      <4>1. h # <<"queue", g>> /\ h # <<"new_queue", g>> /\ h # <<"admitted", g>>
        BY <1>11
      <4> QED
        BY <1>3, <4>1
    <3>3. \A g \in GPUs, w \in Workers : r \notin waiting[g][w] /\ r \notin running[g][w]
      <4> TAKE g \in GPUs, w \in Workers
      <4>1. h # <<"waiting", <<g, w>>>> /\ h # <<"running", <<g, w>>>>
        BY <1>11
      <4> QED
        BY <1>4, <4>1
    <3> QED
      BY <2>2, <2>3, <3>1, <3>2, <3>3, PlacesAre
  <2>5. Places(r) = {<<"backend", m, i>>}
    BY <2>4
  <2> QED
    BY <1>9, <1>11, <2>5
<1>12. ASSUME \A m \in Models : h # <<"frontend", m>> /\ h # <<"backend", m>>, NEW p
       PROVE  p \in Places(r) <=>
                \/ \E g \in GPUs :
                     p = h /\ (h = <<"queue", g>> \/ h = <<"new_queue", g>> \/ h = <<"admitted", g>>)
                \/ \E g \in GPUs, w \in Workers :
                     p = h /\ (h = <<"waiting", <<g, w>>>> \/ h = <<"running", <<g, w>>>>)
  <2>1. \A m \in Models : /\ \A i \in DOMAIN frontend[m] : frontend[m][i] # r
                          /\ \A i \in DOMAIN backend[m] : backend[m][i] # r
    BY <1>7, <1>8, <1>12
  <2>2. p \in Places(r) <=>
          \/ \E g \in GPUs : r \in queue[g] /\ p = <<"queue", g>>
          \/ \E g \in GPUs : r \in new_queue[g] /\ p = <<"new_queue", g>>
          \/ \E g \in GPUs : r \in admitted[g] /\ p = <<"admitted", g>>
          \/ \E g \in GPUs, w \in Workers : r \in waiting[g][w] /\ p = <<"waiting", <<g, w>>>>
          \/ \E g \in GPUs, w \in Workers : r \in running[g][w] /\ p = <<"running", <<g, w>>>>
    BY <2>1, PlacesAre
  <2>3. \A g \in GPUs : /\ (r \in queue[g] /\ p = <<"queue", g>>) <=> (p = h /\ h = <<"queue", g>>)
                        /\ (r \in new_queue[g] /\ p = <<"new_queue", g>>)
                             <=> (p = h /\ h = <<"new_queue", g>>)
                        /\ (r \in admitted[g] /\ p = <<"admitted", g>>)
                             <=> (p = h /\ h = <<"admitted", g>>)
    BY <1>3
  <2>4. \A g \in GPUs, w \in Workers :
          /\ (r \in waiting[g][w] /\ p = <<"waiting", <<g, w>>>>)
               <=> (p = h /\ h = <<"waiting", <<g, w>>>>)
          /\ (r \in running[g][w] /\ p = <<"running", <<g, w>>>>)
               <=> (p = h /\ h = <<"running", <<g, w>>>>)
    BY <1>4
  <2> QED
    BY <2>2, <2>3, <2>4
<1>13. ASSUME \A m \in Models : h # <<"frontend", m>> /\ h # <<"backend", m>>
       PROVE  IF h = <<"new", "client">> \/ h = <<"finished", "client">>
              THEN Places(r) = {} ELSE Places(r) = {h}
  <2>1. CASE h = <<"new", "client">> \/ h = <<"finished", "client">>
    BY <1>12, <1>13, <2>1
  <2>2. CASE ~(h = <<"new", "client">> \/ h = <<"finished", "client">>)
    BY <1>12, <1>13, <2>2, HolderCases
  <2> QED
    BY <2>1, <2>2
<1> QED
  BY <1>9, <1>10, <1>11, <1>13

\* No request is lost or duplicated, whatever the callers activate, deactivate
\* and preempt: an unfinished request is in one list, queue, thread or engine, a
\* finished one in none.
THEOREM RequestsConserved == Spec => []EveryRequestHeldOnce
<1>1. ConservedInv => EveryRequestHeldOnce
  <2> SUFFICES ASSUME ConservedInv, NEW r \in Reqs
               PROVE  Cardinality(Places(r)) = IF r \in submitted \ finished THEN 1 ELSE 0
    BY DEF EveryRequestHeldOnce
  <2>1. CASE r \in submitted \ finished
    <3>1. PICK p : Places(r) = {p}
      BY <2>1, OnePlace
    <3>2. Cardinality({p}) = 1
      BY FS_Singleton
    <3> QED
      BY <2>1, <3>1, <3>2
  <2>2. CASE r \notin submitted \ finished
    <3>1. Places(r) = {}
      BY <2>2, OnePlace
    <3>2. Cardinality({}) = 0
      BY FS_EmptySet
    <3> QED
      BY <2>2, <3>1, <3>2
  <2> QED
    BY <2>1, <2>2
<1> QED
  BY <1>1, ConservedHolds, PTL
-------------------------------------------------------------------------------
(* The composed system implements RequestLifecycle, for any number of GPUs, *)
(* workers, models and requests, if no caller preempts.  That a request has *)
(* one holder makes its phase a matter of which holder that is; that an     *)
(* engine holds requests of its own model (MultiModelServing_proofs) says   *)
(* what the requests run under.                                             *)

\* What the phase of a request depends on, by its holder.
LEMMA PhaseByHolder ==
  ASSUME ConservedInv, NEW r \in Reqs
  PROVE  /\ r \notin submitted => r \notin finished /\ RunBy(r) = {}
         /\ r \in finished => RunBy(r) = {}
         /\ \A g \in GPUs, w \in Workers :
              /\ r \in waiting[g][w] => r \in submitted \ finished /\ RunBy(r) = {}
              /\ r \in running[g][w] => r \in submitted \ finished /\ RunBy(r) = {<<g, w>>}
<1>1. PICK h \in Holders : \A i \in Holders : r \in Holding[i] <=> i = h
  BY DEF ConservedInv, OneHolder
<1>2. \A g \in GPUs, w \in Workers : /\ r \in waiting[g][w] <=> h = <<"waiting", <<g, w>>>>
                                     /\ r \in running[g][w] <=> h = <<"running", <<g, w>>>>
  BY <1>1, HeldThere
<1>3. /\ r \notin submitted <=> h = <<"new", "client">>
      /\ r \in finished <=> h = <<"finished", "client">>
  BY <1>1, HeldThere
<1>4. \A p : p \in RunBy(r) <=> \E g \in GPUs, w \in Workers :
                                  p = <<g, w>> /\ h = <<"running", <<g, w>>>>
  BY <1>2 DEF RunBy
<1>5. ASSUME \A g \in GPUs, w \in Workers : h # <<"running", <<g, w>>>>
      PROVE  RunBy(r) = {}
  BY <1>4, <1>5
<1>6. h = <<"new", "client">> \/ h = <<"finished", "client">> => RunBy(r) = {}
  BY <1>5
<1>7. ASSUME NEW g \in GPUs, NEW w \in Workers, r \in waiting[g][w]
      PROVE  r \in submitted \ finished /\ RunBy(r) = {}
  <2>1. h = <<"waiting", <<g, w>>>>
    BY <1>2, <1>7
  <2> QED
    BY <1>3, <1>5, <2>1
<1>8. ASSUME NEW g \in GPUs, NEW w \in Workers, r \in running[g][w]
      PROVE  r \in submitted \ finished /\ RunBy(r) = {<<g, w>>}
  <2>1. h = <<"running", <<g, w>>>>
    BY <1>2, <1>8
  <2>2. \A p : p \in RunBy(r) <=> p = <<g, w>>
    BY <1>4, <2>1
  <2> QED
    BY <1>3, <2>1, <2>2
<1>9. r \notin submitted => r \notin finished
  BY <1>3
<1> QED
  BY <1>3, <1>6, <1>7, <1>8, <1>9

PhaseMap == [r \in Reqs |-> Phase(r)]
Under(r) == {hosted[p[1]][p[2]] : p \in RunBy(r)}
UnderMap == [r \in Reqs |-> Under(r)]

\* The requests of a set enter a phase, the others stay in theirs.
EnterPhase(S, p, models) ==
  /\ PhaseMap' = [r \in Reqs |-> IF r \in S THEN p ELSE PhaseMap[r]]
  /\ UnderMap' = [r \in Reqs |-> IF r \in S THEN models ELSE UnderMap[r]]

\* A step in which the requests of a set enter a phase, request by request.
LEMMA EnterByOne ==
  ASSUME NEW S, NEW p, NEW models,
         \A r \in Reqs : /\ Phase(r)' = IF r \in S THEN p ELSE Phase(r)
                         /\ Under(r)' = IF r \in S THEN models ELSE Under(r)
  PROVE  EnterPhase(S, p, models)
BY DEF EnterPhase, PhaseMap, UnderMap

\* An EnterPhase is a step of RequestLifecycle.
LEMMA PhaseStep ==
  ASSUME \/ \E r \in Reqs : /\ Phase(r) = "new"
                            /\ EnterPhase({r}, "waiting", {})
         \/ \E r \in Reqs : Phase(r) = "waiting" /\ EnterPhase({r}, "running", {ModelOf[r]})
         \/ \E r \in Reqs : Phase(r) = "running" /\ EnterPhase({r}, "finished", {})
         \/ \E S \in SUBSET Reqs : (\A r \in S : Phase(r) = "running") /\ EnterPhase(S, "waiting", {})
         \/ UNCHANGED <<PhaseMap, UnderMap>>
  PROVE  [Lifecycle!Next]_(Lifecycle!lifecycleVars)
BY DEF EnterPhase, PhaseMap, UnderMap, Under, Lifecycle!Next, Lifecycle!lifecycleVars, Lifecycle!Submit,
       Lifecycle!Start, Lifecycle!SendBack, Lifecycle!Finish, Lifecycle!Enter

\* A step that changes neither what runs where nor the clients' part.
LEMMA NoPhaseStep ==
  ASSUME UNCHANGED <<submitted, finished, running>>,
         \A g \in GPUs, w \in Workers : running[g][w] = {} \/ hosted'[g][w] = hosted[g][w]
  PROVE  UNCHANGED <<PhaseMap, UnderMap>>
<1>1. \A r \in Reqs : RunBy(r)' = RunBy(r)
  BY DEF RunBy
<1>2. ASSUME NEW r \in Reqs PROVE Phase(r)' = Phase(r)
  BY <1>1 DEF Phase
<1>3. ASSUME NEW r \in Reqs PROVE Under(r)' = Under(r)
  <2>1. \A q \in RunBy(r) : hosted'[q[1]][q[2]] = hosted[q[1]][q[2]]
    BY DEF RunBy
  <2> QED
    BY <1>1, <2>1 DEF Under
<1> QED
  BY <1>2, <1>3 DEF PhaseMap, UnderMap

\* A step of one engine after which request r, and no other, is elsewhere.
LEMMA OthersStay ==
  ASSUME NEW r \in Reqs, UNCHANGED hosted,
         \A q \in Reqs \ {r} : /\ q \in submitted' <=> q \in submitted
                               /\ q \in finished' <=> q \in finished
                               /\ RunBy(q)' = RunBy(q)
  PROVE  \A q \in Reqs \ {r} : Phase(q)' = Phase(q) /\ Under(q)' = Under(q)
BY DEF Phase, Under

\* A new request waits.
LEMMA GeneratePhase ==
  ASSUME ConservedInv, NEW r \in Reqs, Generate(r)
  PROVE  Phase(r) = "new" /\ EnterPhase({r}, "waiting", {})
<1>1. /\ r \notin submitted /\ submitted' = submitted \cup {r}
      /\ UNCHANGED <<finished, running, hosted>>
  BY DEF Generate, engineVars
<1>2. r \notin finished /\ RunBy(r) = {}
  BY <1>1, PhaseByHolder
<1>3. \A q \in Reqs : RunBy(q)' = RunBy(q)
  BY <1>1 DEF RunBy
<1>4. \A q \in Reqs \ {r} : Phase(q)' = Phase(q) /\ Under(q)' = Under(q)
  BY <1>1, <1>3, OthersStay
<1>5. Phase(r) = "new" /\ Phase(r)' = "waiting" /\ Under(r)' = {}
  BY <1>1, <1>2, <1>3 DEF Phase, Under
<1> QED
  BY <1>4, <1>5, EnterByOne

\* A request that starts runs in one engine, which hosts its model.
LEMMA StartPhase ==
  ASSUME ServingInv, ConservedInv, HoldsOnlyHostedModel, NEW g \in GPUs, NEW w \in Workers,
         StartRunning(g, w), UNCHANGED submitted
  PROVE  \E r \in Reqs : Phase(r) = "waiting" /\ EnterPhase({r}, "running", {ModelOf[r]})
<1>0. /\ waiting \in [GPUs -> [Workers -> SUBSET Reqs]]
      /\ running \in [GPUs -> [Workers -> SUBSET Reqs]]
  BY DEF ServingInv, ServingTypeOK, EngineTypeOK
<1>1. PICK r \in waiting[g][w] : running' = [running EXCEPT ![g][w] = @ \cup {r}]
  BY DEF StartRunning
<1>2. UNCHANGED <<submitted, finished, hosted>> /\ r \in Reqs
  BY <1>0 DEF StartRunning
<1>3. r \in submitted \ finished /\ RunBy(r) = {}
  BY <1>2, PhaseByHolder
<1>4. ModelOf[r] = hosted[g][w]
  BY DEF HoldsOnlyHostedModel
<1>5. \A h \in GPUs, v \in Workers :
        running'[h][v] = IF h = g /\ v = w THEN running[g][w] \cup {r} ELSE running[h][v]
  BY <1>0, <1>1
<1>6. \A q \in Reqs \ {r} : RunBy(q)' = RunBy(q)
  BY <1>5 DEF RunBy
<1>7. RunBy(r)' = {<<g, w>>}
  <2>1. ASSUME NEW p PROVE p \in RunBy(r)' <=> p = <<g, w>>
    BY <1>3, <1>5 DEF RunBy
  <2> QED
    BY <2>1
<1>8. \A q \in Reqs \ {r} : Phase(q)' = Phase(q) /\ Under(q)' = Under(q)
  BY <1>2, <1>6, OthersStay
<1>9. Phase(r) = "waiting" /\ Phase(r)' = "running"
  BY <1>2, <1>3, <1>7 DEF Phase
<1>10. Under(r)' = {ModelOf[r]}
  BY <1>2, <1>4, <1>7 DEF Under
<1> QED
  BY <1>2, <1>8, <1>9, <1>10, EnterByOne

\* A request that stops running runs nowhere.
LEMMA StopsRunning ==
  ASSUME ServingInv, ConservedInv, NEW g \in GPUs, NEW w \in Workers, NEW r \in running[g][w],
         running' = [running EXCEPT ![g][w] = @ \ {r}]
  PROVE  /\ r \in Reqs /\ Phase(r) = "running" /\ r \in submitted \ finished /\ RunBy(r)' = {}
         /\ \A q \in Reqs \ {r} : RunBy(q)' = RunBy(q)
<1>0. running \in [GPUs -> [Workers -> SUBSET Reqs]]
  BY DEF ServingInv, ServingTypeOK, EngineTypeOK
<1>1. r \in Reqs
  BY <1>0
<1>2. r \in submitted \ finished /\ RunBy(r) = {<<g, w>>}
  BY <1>1, PhaseByHolder
<1>3. \A h \in GPUs, v \in Workers :
        running'[h][v] = IF h = g /\ v = w THEN running[g][w] \ {r} ELSE running[h][v]
  BY <1>0
<1>4. \A q \in Reqs \ {r} : RunBy(q)' = RunBy(q)
  BY <1>3 DEF RunBy
<1>5. RunBy(r)' = {}
  <2>1. ASSUME NEW p PROVE p \notin RunBy(r)'
    <3>1. p \in RunBy(r)' => p \in RunBy(r)
      BY <1>3 DEF RunBy
    <3>2. <<g, w>> \notin RunBy(r)'
      BY <1>3 DEF RunBy
    <3> QED
      BY <1>2, <3>1, <3>2
  <2> QED
    BY <2>1
<1>6. Phase(r) = "running"
  BY <1>2 DEF Phase
<1> QED
  BY <1>1, <1>2, <1>4, <1>5, <1>6

\* A retracted request waits again, a finished one is done.
LEMMA StopPhase ==
  ASSUME ServingInv, ConservedInv, NEW g \in GPUs, NEW w \in Workers, UNCHANGED submitted
  PROVE  /\ Retract(g, w) => \E r \in Reqs : Phase(r) = "running" /\ EnterPhase({r}, "waiting", {})
         /\ Finish(g, w) => \E r \in Reqs : Phase(r) = "running" /\ EnterPhase({r}, "finished", {})
<1>1. ASSUME Retract(g, w)
      PROVE  \E r \in Reqs : Phase(r) = "running" /\ EnterPhase({r}, "waiting", {})
  <2>1. PICK r \in running[g][w] : running' = [running EXCEPT ![g][w] = @ \ {r}]
    BY <1>1 DEF Retract
  <2>2. UNCHANGED <<submitted, finished, hosted>>
    BY <1>1 DEF Retract
  <2>3. /\ r \in Reqs /\ Phase(r) = "running" /\ r \in submitted \ finished /\ RunBy(r)' = {}
        /\ \A q \in Reqs \ {r} : RunBy(q)' = RunBy(q)
    BY <2>1, StopsRunning
  <2>4. Phase(r)' = "waiting" /\ Under(r)' = {}
    BY <2>2, <2>3 DEF Phase, Under
  <2>5. \A q \in Reqs \ {r} : Phase(q)' = Phase(q) /\ Under(q)' = Under(q)
    BY <2>2, <2>3, OthersStay
  <2> QED
    BY <2>3, <2>4, <2>5, EnterByOne
<1>2. ASSUME Finish(g, w)
      PROVE  \E r \in Reqs : Phase(r) = "running" /\ EnterPhase({r}, "finished", {})
  <2>1. PICK r \in running[g][w] :
          running' = [running EXCEPT ![g][w] = @ \ {r}] /\ finished' = finished \cup {r}
    BY <1>2 DEF Finish
  <2>2. UNCHANGED <<submitted, hosted>>
    BY <1>2 DEF Finish
  <2>3. /\ r \in Reqs /\ Phase(r) = "running" /\ r \in submitted \ finished /\ RunBy(r)' = {}
        /\ \A q \in Reqs \ {r} : RunBy(q)' = RunBy(q)
    BY <2>1, StopsRunning
  <2>4. Phase(r)' = "finished" /\ Under(r)' = {}
    BY <2>1, <2>2, <2>3 DEF Phase, Under
  <2>5. \A q \in Reqs \ {r} : Phase(q)' = Phase(q) /\ Under(q)' = Under(q)
    BY <2>1, <2>2, <2>3, OthersStay
  <2> QED
    BY <2>3, <2>4, <2>5, EnterByOne
<1> QED
  BY <1>1, <1>2

\* A preempting deactivation sends what its engine runs back to wait, another
\* deactivation nothing.
LEMMA DeactivatePhase ==
  ASSUME ServingInv, ConservedInv, NEW g \in GPUs, NEW w \in Workers,
         HandleDeactivateRequest(g, w), UNCHANGED submitted
  PROVE  \/ UNCHANGED <<PhaseMap, UnderMap>>
         \/ \E S \in SUBSET Reqs : (\A r \in S : Phase(r) = "running") /\ EnterPhase(S, "waiting", {})
<1>0. running \in [GPUs -> [Workers -> SUBSET Reqs]]
  BY DEF ServingInv, ServingTypeOK, EngineTypeOK
<1>1. UNCHANGED <<submitted, finished, hosted>>
  BY DEF HandleDeactivateRequest
<1>2. CASE UNCHANGED running
  BY <1>1, <1>2, NoPhaseStep
<1>3. CASE running' = [running EXCEPT ![g][w] = {}]
  <2> DEFINE S == running[g][w]
  <2>1. S \in SUBSET Reqs
    BY <1>0
  <2>2. \A h \in GPUs, v \in Workers :
          running'[h][v] = IF h = g /\ v = w THEN {} ELSE running[h][v]
    BY <1>0, <1>3
  <2>3. ASSUME NEW r \in S
        PROVE  Phase(r) = "running" /\ Phase(r)' = "waiting" /\ Under(r)' = {}
    <3>1. r \in Reqs /\ r \in submitted \ finished /\ RunBy(r) = {<<g, w>>}
      BY <2>1, PhaseByHolder
    <3>2. ASSUME NEW p PROVE p \notin RunBy(r)'
      <4>1. p \in RunBy(r)' => p \in RunBy(r)
        BY <2>2 DEF RunBy
      <4>2. <<g, w>> \notin RunBy(r)'
        BY <2>2 DEF RunBy
      <4> QED
        BY <3>1, <4>1, <4>2
    <3>3. RunBy(r)' = {}
      BY <3>2
    <3> QED
      BY <1>1, <3>1, <3>3 DEF Phase, Under
  <2>4. ASSUME NEW q \in Reqs \ S PROVE Phase(q)' = Phase(q) /\ Under(q)' = Under(q)
    <3>1. RunBy(q)' = RunBy(q)
      BY <2>2 DEF RunBy
    <3> QED
      BY <1>1, <3>1 DEF Phase, Under
  <2>5. EnterPhase(S, "waiting", {})
    BY <2>3, <2>4, EnterByOne
  <2> QED
    BY <2>1, <2>3, <2>5
<1> QED
  BY <1>2, <1>3 DEF HandleDeactivateRequest
-------------------------------------------------------------------------------
(* The refinement *)

\* Nothing has been sent at first.
LEMMA LifecycleInit == Init => Lifecycle!Init
<1> SUFFICES ASSUME Init PROVE Lifecycle!Init
  OBVIOUS
<1>1. ASSUME NEW r \in Reqs PROVE r \notin submitted \cup finished /\ RunBy(r) = {}
  BY DEF Init, EngineInit, RunBy
<1>2. ASSUME NEW r \in Reqs PROVE Phase(r) = "new"
  BY <1>1 DEF Phase
<1>3. ASSUME NEW r \in Reqs PROVE {hosted[p[1]][p[2]] : p \in RunBy(r)} = {}
  BY <1>1
<1> QED
  BY <1>2, <1>3 DEF Lifecycle!Init

\* Every step of the system is one of RequestLifecycle, or invisible there.
LEMMA LifecycleStep ==
  ASSUME ServingInv, ConservedInv, HoldsOnlyHostedModel, DeactivatedHoldsNothing, [Next]_vars
  PROVE  [Lifecycle!Next]_(Lifecycle!lifecycleVars)
<1>1. CASE UNCHANGED vars
  BY <1>1, NoPhaseStep, PhaseStep DEF vars, engineVars
<1>2. ASSUME NEW r \in Reqs, Generate(r) PROVE [Lifecycle!Next]_(Lifecycle!lifecycleVars)
  BY <1>2, GeneratePhase, PhaseStep
<1>3. ASSUME NEW g \in GPUs, NEW m \in Models, Activate(g, m) \/ Deactivate(g, m)
      PROVE  [Lifecycle!Next]_(Lifecycle!lifecycleVars)
  BY <1>3, NoPhaseStep, PhaseStep DEF Activate, Deactivate, Call, engineVars
<1>4. ASSUME NEW g \in GPUs, SchedulerStep(g) PROVE [Lifecycle!Next]_(Lifecycle!lifecycleVars)
  BY <1>4, NoPhaseStep, PhaseStep DEF SchedulerStep, engineVars
<1>5. ASSUME NEW g \in GPUs, NEW w \in Workers, EngineStep(g, w)
      PROVE  [Lifecycle!Next]_(Lifecycle!lifecycleVars)
  <2>1. UNCHANGED submitted
    BY <1>5 DEF EngineStep
  <2>2. CASE HandleActivateRequest(g, w)
    <3>1. UNCHANGED <<submitted, finished, running>> /\ ~draining[g][w]
      BY <2>1, <2>2 DEF HandleActivateRequest, NextIs
    <3>2. running[g][w] = {} \/ activated[g][w]
      BY <3>1 DEF DeactivatedHoldsNothing
    <3>3. hosted \in [GPUs -> [Workers -> Models \cup {NoModel}]]
      BY DEF ServingInv, ServingTypeOK, EngineTypeOK
    <3>4. CASE activated[g][w]
      BY <2>2, <3>1, <3>4, NoPhaseStep, PhaseStep DEF HandleActivateRequest
    <3>5. CASE ~activated[g][w]
      <4>1. hosted' = [hosted EXCEPT ![g][w] = Head(todo[g][w]).model]
        BY <2>2, <3>5 DEF HandleActivateRequest
      <4>2. \A h \in GPUs, v \in Workers : running[h][v] = {} \/ hosted'[h][v] = hosted[h][v]
        BY <3>2, <3>3, <3>5, <4>1
      <4> QED
        BY <3>1, <4>2, NoPhaseStep, PhaseStep
    <3> QED
      BY <3>4, <3>5
  <2>3. CASE PollControl(g, w) \/ RefuseDeactivateRequest(g, w) \/ CompleteDeactivation(g, w)
             \/ RecvGenerationRequests(g, w)
    BY <2>1, <2>3, NoPhaseStep, PhaseStep
       DEF PollControl, RefuseDeactivateRequest, CompleteDeactivation, RecvGenerationRequests
  <2>4. CASE HandleDeactivateRequest(g, w)
    BY <2>1, <2>4, DeactivatePhase, PhaseStep
  <2>5. CASE StartRunning(g, w)
    BY <2>1, <2>5, StartPhase, PhaseStep
  <2>6. CASE Retract(g, w) \/ Finish(g, w)
    BY <2>1, <2>6, StopPhase, PhaseStep
  <2> QED
    BY <1>5, <2>2, <2>3, <2>4, <2>5, <2>6 DEF EngineStep, Control, Generation
<1> QED
  BY <1>1, <1>2, <1>3, <1>4, <1>5 DEF Next

\* If no caller preempts, every request passes through RequestLifecycle, however
\* models come and go (handle_activate_request, handle_deactivate_request).
THEOREM LifecycleImplemented == NeverPreempts /\ Spec => FollowsLifecycle
<1>1. PoolTypeOK /\ HandlerInv /\ (ServingTypeOK /\ EngineInv) /\ ConservedInv
        /\ (HoldsOnlyHostedModel /\ DeactivatedHoldsNothing) /\ [Next]_vars
        => [Lifecycle!Next]_(Lifecycle!lifecycleVars)
  BY LifecycleStep DEF ServingInv
<1> QED
  BY <1>1, LifecycleInit, TypesHold, ConservedHolds, OnlyHostedModel, PTL
     DEF Spec, FollowsLifecycle, Lifecycle!Spec
===============================================================================
