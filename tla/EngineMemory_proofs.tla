------------------------- MODULE EngineMemory_proofs --------------------------
(***************************************************************************)
(* Proofs about the memory of one engine, with the code's defaults and for *)
(* any requests, prompts, outputs and sizes of its pools: every KV slot    *)
(* and every row is in one place, and a request computes on the entries of *)
(* its own tokens.                                                         *)
(***************************************************************************)
EXTENDS EngineBatch_proofs, FunctionTheorems

-------------------------------------------------------------------------------
(* Slots in one place                                                      *)

\* Free slots F, the slots V of a tree and the slots own of the rows are apart, each is in one place, and they are all.
Partition(F, V, own) ==
  /\ F \subseteq Slots
  /\ \A p \in DOMAIN V : V[p] \in Slots \ F
  /\ \A p, q \in DOMAIN V : V[p] = V[q] => p = q
  /\ \A r \in DOMAIN own : \A i \in DOMAIN own[r] : own[r][i] \in Slots \ F /\ \A p \in DOMAIN V : V[p] # own[r][i]
  /\ \A r, s \in DOMAIN own : \A i \in DOMAIN own[r], j \in DOMAIN own[s] : own[r][i] = own[s][j] => r = s /\ i = j
  /\ \A s \in Slots \ F : \/ \E p \in DOMAIN V : V[p] = s
                          \/ \E r \in DOMAIN own : \E i \in DOMAIN own[r] : own[r][i] = s

\* All owners but r own what they did.
AllBut(rest, own, r) == DOMAIN rest = DOMAIN own \ {r} /\ \A o \in DOMAIN rest : rest[o] = own[o]

\* The tree W has all that V has and, for each place past m that r owns, one prefix more, of that length and in that slot.
Takes(W, V, own, r, m) ==
  /\ DOMAIN V \subseteq DOMAIN W /\ \A p \in DOMAIN V : W[p] = V[p]
  /\ \A p \in DOMAIN W \ DOMAIN V : Len(p) \in DOMAIN own[r] /\ ~(Len(p) <= m) /\ W[p] = own[r][Len(p)]
  /\ \A p, q \in DOMAIN W \ DOMAIN V : Len(p) = Len(q) => p = q
  /\ \A i \in DOMAIN own[r] : ~(i <= m) => \E p \in DOMAIN W \ DOMAIN V : Len(p) = i

\* Caching: of what r owns, up to the m-th place the tree has slots of its own already and r's are freed, the others go to
\* the tree.
LEMMA Cache ==
  ASSUME NEW F, NEW V, NEW own, Partition(F, V, own), NEW r \in DOMAIN own, NEW m, NEW W, NEW G, NEW rest,
         Takes(W, V, own, r, m),
         G = F \cup {own[r][i] : i \in {j \in DOMAIN own[r] : j <= m}},
         AllBut(rest, own, r)
  PROVE  Partition(G, W, rest)
<1> USE DEF Takes
<1>1. G \subseteq Slots
  BY DEF Partition
<1>2. ASSUME NEW p \in DOMAIN W PROVE W[p] \in Slots \ G
  <2>1. CASE p \in DOMAIN V
    BY <2>1 DEF Partition
  <2>2. CASE p \notin DOMAIN V
    BY <2>2 DEF Partition
  <2> QED
    BY <2>1, <2>2
<1>3. ASSUME NEW p \in DOMAIN W, NEW q \in DOMAIN W, W[p] = W[q] PROVE p = q
  <2>1. CASE p \in DOMAIN V /\ q \in DOMAIN V
    BY <1>3, <2>1 DEF Partition
  <2>2. CASE p \in DOMAIN V /\ q \notin DOMAIN V
    BY <1>3, <2>2 DEF Partition
  <2>3. CASE p \notin DOMAIN V /\ q \in DOMAIN V
    BY <1>3, <2>3 DEF Partition
  <2>4. CASE p \notin DOMAIN V /\ q \notin DOMAIN V
    BY <1>3, <2>4 DEF Partition
  <2> QED
    BY <2>1, <2>2, <2>3, <2>4
<1>4. ASSUME NEW o \in DOMAIN rest, NEW i \in DOMAIN rest[o]
      PROVE  rest[o][i] \in Slots \ G /\ \A p \in DOMAIN W : W[p] # rest[o][i]
  <2>1. o \in DOMAIN own /\ o # r /\ rest[o] = own[o] /\ i \in DOMAIN own[o]
    BY DEF AllBut
  <2>2. own[o][i] \in Slots \ F /\ \A j \in DOMAIN own[r] : own[r][j] # own[o][i]
    BY <2>1 DEF Partition
  <2>3. \A p \in DOMAIN W : W[p] # own[o][i]
    <3> TAKE p \in DOMAIN W
    <3>1. CASE p \in DOMAIN V
      BY <2>1, <3>1 DEF Partition
    <3>2. CASE p \notin DOMAIN V
      BY <2>2, <3>2
    <3> QED
      BY <3>1, <3>2
  <2> QED
    BY <2>1, <2>2, <2>3
<1>5. ASSUME NEW o \in DOMAIN rest, NEW s \in DOMAIN rest, NEW i \in DOMAIN rest[o], NEW j \in DOMAIN rest[s], rest[o][i] = rest[s][j]
      PROVE  o = s /\ i = j
  BY <1>5 DEF Partition, AllBut
<1>6. ASSUME NEW s \in Slots \ G
      PROVE  (\E p \in DOMAIN W : W[p] = s) \/ \E o \in DOMAIN rest : \E i \in DOMAIN rest[o] : rest[o][i] = s
  <2>1. s \in Slots \ F
    OBVIOUS
  <2>2. CASE \E p \in DOMAIN V : V[p] = s
    BY <2>2
  <2>3. CASE \E o \in DOMAIN own : \E i \in DOMAIN own[o] : own[o][i] = s
    <3>1. PICK o \in DOMAIN own : \E i \in DOMAIN own[o] : own[o][i] = s
      BY <2>3
    <3>2. PICK i \in DOMAIN own[o] : own[o][i] = s
      BY <3>1
    <3>3. CASE o # r
      BY <3>2, <3>3 DEF AllBut
    <3>4. CASE o = r
      <4>1. ~(i <= m)
        BY <3>2, <3>4
      <4>2. PICK p \in DOMAIN W \ DOMAIN V : Len(p) = i
        BY <4>1, <3>4
      <4> QED
        BY <4>2, <3>2, <3>4
    <3> QED
      BY <3>3, <3>4
  <2> QED
    BY <2>1, <2>2, <2>3 DEF Partition
<1> QED
  BY <1>1, <1>2, <1>3, <1>4, <1>5, <1>6 DEF Partition

\* One owner more that owns nothing changes nothing.
LEMMA OwnsNothing ==
  ASSUME NEW F, NEW V, NEW rest, Partition(F, V, rest), NEW own, NEW r, AllBut(rest, own, r), DOMAIN own[r] = {}
  PROVE  Partition(F, V, own)
<1>1. \A o \in DOMAIN own : \A i \in DOMAIN own[o] : o \in DOMAIN rest /\ rest[o] = own[o]
  BY DEF AllBut
<1>2. \A o \in DOMAIN rest : o \in DOMAIN own /\ rest[o] = own[o]
  BY DEF AllBut
<1> QED
  BY <1>1, <1>2 DEF Partition

\* Evicting: the slots of the prefixes gone are free.
LEMMA Evict ==
  ASSUME NEW F, NEW V, NEW own, Partition(F, V, own), NEW gone, gone \subseteq DOMAIN V, NEW W, NEW G,
         W = [p \in DOMAIN V \ gone |-> V[p]], G = F \cup {V[p] : p \in gone}
  PROVE  Partition(G, W, own)
<1>1. DOMAIN W = DOMAIN V \ gone /\ \A p \in DOMAIN W : W[p] = V[p]
  OBVIOUS
<1>2. G \subseteq Slots /\ \A p \in DOMAIN W : W[p] \in Slots \ G
  BY <1>1 DEF Partition
<1>3. \A r \in DOMAIN own : \A i \in DOMAIN own[r] : own[r][i] \in Slots \ G /\ \A p \in DOMAIN W : W[p] # own[r][i]
  BY <1>1 DEF Partition
<1>4. \A p, q \in DOMAIN W : W[p] = W[q] => p = q
  BY <1>1 DEF Partition
<1>5. \A s \in Slots \ G : (\E p \in DOMAIN W : W[p] = s) \/ \E r \in DOMAIN own : \E i \in DOMAIN own[r] : own[r][i] = s
  <2> TAKE s \in Slots \ G
  <2>1. s \in Slots \ F /\ \A p \in DOMAIN V : V[p] = s => p \in DOMAIN W
    BY <1>1
  <2> QED
    BY <1>1, <2>1 DEF Partition
<1> QED
  BY <1>2, <1>3, <1>4, <1>5 DEF Partition

\* Giving up: what r owned is free.
LEMMA GiveUp ==
  ASSUME NEW F, NEW V, NEW own, Partition(F, V, own), NEW r \in DOMAIN own, NEW G, NEW rest,
         G = F \cup {own[r][i] : i \in DOMAIN own[r]}, AllBut(rest, own, r)
  PROVE  Partition(G, V, rest)
<1>1. DOMAIN rest = DOMAIN own \ {r} /\ \A o \in DOMAIN rest : rest[o] = own[o]
  BY DEF AllBut
<1>2. G \subseteq Slots /\ \A p \in DOMAIN V : V[p] \in Slots \ G
  BY DEF Partition
<1>3. ASSUME NEW o \in DOMAIN rest, NEW i \in DOMAIN rest[o]
      PROVE  rest[o][i] \in Slots \ G /\ \A p \in DOMAIN V : V[p] # rest[o][i]
  BY <1>1 DEF Partition
<1>4. ASSUME NEW o \in DOMAIN rest, NEW s \in DOMAIN rest, NEW i \in DOMAIN rest[o], NEW j \in DOMAIN rest[s], rest[o][i] = rest[s][j]
      PROVE  o = s /\ i = j
  BY <1>1, <1>4 DEF Partition
<1>5. ASSUME NEW s \in Slots \ G
      PROVE  (\E p \in DOMAIN V : V[p] = s) \/ \E o \in DOMAIN rest : \E i \in DOMAIN rest[o] : rest[o][i] = s
  <2>1. CASE \E p \in DOMAIN V : V[p] = s
    BY <2>1
  <2>2. CASE \E o \in DOMAIN own : \E i \in DOMAIN own[o] : own[o][i] = s
    <3>1. PICK o \in DOMAIN own : \E i \in DOMAIN own[o] : own[o][i] = s
      BY <2>2
    <3>2. o # r
      BY <3>1
    <3> QED
      BY <1>1, <3>1, <3>2
  <2> QED
    BY <2>1, <2>2 DEF Partition
<1>6. \A p, q \in DOMAIN V : V[p] = V[q] => p = q
  BY DEF Partition
<1> QED
  BY <1>2, <1>3, <1>4, <1>5, <1>6 DEF Partition

\* The place i of r is new.
IsNew(own, more, r, i) == r \in DOMAIN more /\ i \in DOMAIN more[r] /\ ~(r \in DOMAIN own /\ i \in DOMAIN own[r])

\* What is owned stays owned, and the new places get the slots of A, each another one, and all of them.
Grown(own, more, A) ==
  /\ \A r \in DOMAIN own : r \in DOMAIN more /\ \A i \in DOMAIN own[r] : i \in DOMAIN more[r] /\ more[r][i] = own[r][i]
  /\ \A r, i : IsNew(own, more, r, i) => more[r][i] \in A
  /\ \A r, s, i, j : IsNew(own, more, r, i) /\ IsNew(own, more, s, j) /\ more[r][i] = more[s][j] => r = s /\ i = j
  /\ \A x \in A : \E r, i : IsNew(own, more, r, i) /\ more[r][i] = x

\* Allocating: of the free slots those of A go to new places.
LEMMA Allocate ==
  ASSUME NEW F, NEW V, NEW own, Partition(F, V, own), NEW more, NEW A, A \subseteq F, Grown(own, more, A)
  PROVE  Partition(F \ A, V, more)
<1> DEFINE G == F \ A
<1> USE DEF Grown
<1>1. ASSUME NEW r \in DOMAIN more, NEW i \in DOMAIN more[r]
      PROVE  \/ IsNew(own, more, r, i) /\ more[r][i] \in A
             \/ r \in DOMAIN own /\ i \in DOMAIN own[r] /\ more[r][i] = own[r][i] /\ own[r][i] \in Slots \ F
  BY DEF IsNew, Partition
<1>2. G \subseteq Slots /\ \A p \in DOMAIN V : V[p] \in Slots \ G /\ V[p] \notin A
  BY DEF Partition
<1>3. ASSUME NEW r \in DOMAIN more, NEW i \in DOMAIN more[r]
      PROVE  more[r][i] \in Slots \ G /\ \A p \in DOMAIN V : V[p] # more[r][i]
  <2>1. CASE more[r][i] \in A
    BY <1>2, <2>1 DEF Partition
  <2>2. CASE r \in DOMAIN own /\ i \in DOMAIN own[r] /\ more[r][i] = own[r][i] /\ own[r][i] \in Slots \ F
    BY <2>2 DEF Partition
  <2> QED
    BY <1>1, <2>1, <2>2
<1>4. ASSUME NEW r \in DOMAIN more, NEW s \in DOMAIN more, NEW i \in DOMAIN more[r], NEW j \in DOMAIN more[s], more[r][i] = more[s][j]
      PROVE  r = s /\ i = j
  <2>1. CASE IsNew(own, more, r, i) /\ more[r][i] \in A
    <3>1. IsNew(own, more, s, j)
      BY <1>1, <1>4, <2>1
    <3> QED
      BY <1>4, <2>1, <3>1
  <2>2. CASE r \in DOMAIN own /\ i \in DOMAIN own[r] /\ more[r][i] = own[r][i] /\ own[r][i] \in Slots \ F
    <3>1. s \in DOMAIN own /\ j \in DOMAIN own[s] /\ more[s][j] = own[s][j]
      BY <1>1, <1>4, <2>2
    <3>2. own[r][i] = own[s][j]
      BY <1>4, <2>2, <3>1
    <3> QED
      BY <2>2, <3>1, <3>2 DEF Partition
  <2> QED
    BY <1>1, <2>1, <2>2
<1>5. ASSUME NEW x \in Slots \ G
      PROVE  (\E p \in DOMAIN V : V[p] = x) \/ \E r \in DOMAIN more : \E i \in DOMAIN more[r] : more[r][i] = x
  <2>1. CASE x \in A
    BY <2>1 DEF IsNew
  <2>2. CASE x \notin A
    <3>1. x \in Slots \ F
      BY <2>2
    <3> QED
      BY <3>1 DEF Partition
  <2> QED
    BY <2>1, <2>2
<1>6. \A p, q \in DOMAIN V : V[p] = V[q] => p = q
  BY DEF Partition
<1> QED
  BY <1>2, <1>3, <1>4, <1>5, <1>6 DEF Partition

-------------------------------------------------------------------------------
(* Counting                                                                *)

\* On S the values of f are in T, each once.
Once(f, S, T) == /\ \A x \in S : f[x] \in T
                 /\ \A x, y \in S : f[x] = f[y] => x = y

\* As many as its values, of a function that has each once.
LEMMA ImageCount ==
  ASSUME NEW S, NEW f, NEW T, IsFiniteSet(T), Once(f, S, T)
  PROVE  /\ IsFiniteSet(S) /\ IsFiniteSet({f[x] : x \in S})
         /\ Cardinality(S) = Cardinality({f[x] : x \in S})
<1> DEFINE I == {f[x] : x \in S}
           g == [x \in S |-> f[x]]
<1>1. I \subseteq T /\ IsFiniteSet(I)
  <2>1. I \in SUBSET T
    BY DEF Once
  <2> QED
    BY <2>1, FS_Subset
<1>2. g \in Injection(S, I) /\ g \in Surjection(S, I)
  <2>1. g \in [S -> I] /\ \A x, y \in S : g[x] = g[y] => x = y
    BY DEF Once
  <2>2. \A t \in I : \E x \in S : g[x] = t
    OBVIOUS
  <2> HIDE DEF g, I
  <2> QED
    BY <2>1, <2>2, Fun_IsInj, Fun_IsSurj
<1>3. IsFiniteSet(S) /\ Cardinality(S) = Cardinality(I)
  <2> HIDE DEF g, I
  <2> QED
    BY <1>1, <1>2, FS_Injection
<1> QED
  BY <1>1, <1>3

\* It has all values it may have, if it has as many places as those.
LEMMA ImageIsAll ==
  ASSUME NEW S, NEW f, NEW T, IsFiniteSet(T), Once(f, S, T), Cardinality(S) = Cardinality(T)
  PROVE  \A t \in T : \E x \in S : f[x] = t
<1> DEFINE I == {f[x] : x \in S}
<1>1. I \in SUBSET T
  BY DEF Once
<1>2. Cardinality(I) = Cardinality(T)
  BY ImageCount
<1>3. I = T
  <2> HIDE DEF I
  <2> QED
    BY <1>1, <1>2, FS_Subset
<1> QED
  BY <1>3

\* How many of S have a smaller h than r.
Rank(S, h, r) == Cardinality({s \in S : h[s] < h[r]})

\* Ranks count from 0, each once.
LEMMA Ranks ==
  ASSUME NEW S, IsFiniteSet(S), NEW h, Once(h, S, Int)
  PROVE  /\ Cardinality(S) \in Nat
         /\ \A r \in S : Rank(S, h, r) \in 0..(Cardinality(S) - 1)
         /\ \A r, s \in S : Rank(S, h, r) = Rank(S, h, s) => r = s
         /\ \A k \in 0..(Cardinality(S) - 1) : \E r \in S : Rank(S, h, r) = k
<1> DEFINE Below(r) == {s \in S : h[s] < h[r]}
           T == 0..(Cardinality(S) - 1)
           f == [r \in S |-> Rank(S, h, r)]
<1>1. Cardinality(S) \in Nat
  BY FS_CardinalityType
<1>0. \A r \in S : h[r] \in Int
  BY DEF Once
<1>2. ASSUME NEW r \in S
      PROVE  IsFiniteSet(Below(r)) /\ Cardinality(Below(r)) \in Nat /\ Cardinality(Below(r)) + 1 <= Cardinality(S)
  <2>1. Below(r) \in SUBSET S /\ r \notin Below(r) /\ Below(r) \cup {r} \in SUBSET S
    BY <1>0
  <2> HIDE DEF Below
  <2>2. IsFiniteSet(Below(r)) /\ Cardinality(Below(r)) \in Nat
    BY <2>1, FS_Subset, FS_CardinalityType
  <2>3. Cardinality(Below(r) \cup {r}) = Cardinality(Below(r)) + 1
    BY <2>1, <2>2, FS_AddElement
  <2>4. Cardinality(Below(r) \cup {r}) <= Cardinality(S)
    BY <2>1, FS_Subset
  <2> QED
    BY <2>2, <2>3, <2>4
<1>3. \A r \in S : Rank(S, h, r) \in T
  <2>1. \A r \in S : Rank(S, h, r) = Cardinality(Below(r))
    BY DEF Rank
  <2> HIDE DEF Below
  <2> QED
    BY <1>1, <1>2, <2>1
<1>4. ASSUME NEW r \in S, NEW s \in S, h[r] < h[s] PROVE Rank(S, h, r) < Rank(S, h, s)
  <2>1. Below(r) \cup {r} \in SUBSET Below(s) /\ r \notin Below(r)
    BY <1>0, <1>4
  <2>2. IsFiniteSet(Below(r)) /\ IsFiniteSet(Below(s)) /\ Cardinality(Below(r)) \in Nat /\ Cardinality(Below(s)) \in Nat
    BY <1>2
  <2> HIDE DEF Below
  <2>3. Cardinality(Below(r) \cup {r}) = Cardinality(Below(r)) + 1
    BY <2>1, <2>2, FS_AddElement
  <2>4. Cardinality(Below(r) \cup {r}) <= Cardinality(Below(s))
    BY <2>1, <2>2, FS_Subset
  <2>5. Cardinality(Below(r)) < Cardinality(Below(s))
    BY <2>2, <2>3, <2>4
  <2> QED
    BY <2>5 DEF Below, Rank
<1>5. \A r, s \in S : Rank(S, h, r) = Rank(S, h, s) => r = s
  <2> TAKE r, s \in S
  <2>1. h[r] < h[s] \/ h[s] < h[r] \/ r = s
    BY DEF Once
  <2>2. Rank(S, h, r) \in Int /\ Rank(S, h, s) \in Int
    BY <1>3
  <2> QED
    BY <1>4, <2>1, <2>2
<1>6. IsFiniteSet(T) /\ Cardinality(T) = Cardinality(S)
  BY <1>1, FS_Interval
<1>7. \A t \in T : \E r \in S : f[r] = t
  <2>1. Once(f, S, T)
    BY <1>3, <1>5 DEF Once
  <2> HIDE DEF f, T
  <2> QED
    BY <1>6, <2>1, ImageIsAll
<1> QED
  BY <1>1, <1>3, <1>5, <1>7

\* There is one of each rank.
LEMMA OfRank ==
  ASSUME NEW S, IsFiniteSet(S), NEW h, Once(h, S, Int), NEW k \in 0..(Cardinality(S) - 1)
  PROVE  \E r \in S : Rank(S, h, r) = k
BY Ranks

\* alloc hands out n different free slots.
LEMMA LowestAre ==
  ASSUME NEW free, free \subseteq Int, IsFiniteSet(free), NEW n \in Nat, n <= Cardinality(free)
  PROVE  /\ DOMAIN Lowest(free, n) = 1..n
         /\ \A i \in 1..n : Lowest(free, n)[i] \in free
         /\ \A i, j \in 1..n : Lowest(free, n)[i] = Lowest(free, n)[j] => i = j
<1> DEFINE h == [s \in free |-> s]
<1>1. \A s \in free : {x \in free : h[x] < h[s]} = {x \in free : x < s}
  OBVIOUS
<1>2. Once(h, free, Int)
  BY DEF Once
<1>3. Cardinality(free) \in Nat /\ \A k \in 0..(Cardinality(free) - 1) : \E s \in free : Rank(free, h, s) = k
  <2> HIDE DEF h
  <2>1. Cardinality(free) \in Nat
    BY FS_CardinalityType
  <2>2. \A k \in 0..(Cardinality(free) - 1) : \E s \in free : Rank(free, h, s) = k
    BY <1>2, OfRank
  <2> QED
    BY <2>1, <2>2
<1>4. \A i \in 1..n : \E s \in free : Cardinality({x \in free : x < s}) = i - 1
  <2> TAKE i \in 1..n
  <2>1. i - 1 \in 0..(Cardinality(free) - 1)
    BY <1>3
  <2>2. PICK s \in free : Rank(free, h, s) = i - 1
    BY <1>3, <2>1
  <2> QED
    BY <1>1, <2>2 DEF Rank
<1>5. \A i \in 1..n : Lowest(free, n)[i] \in free /\ Cardinality({x \in free : x < Lowest(free, n)[i]}) = i - 1
  BY <1>4 DEF Lowest
<1>6. \A i, j \in 1..n : Lowest(free, n)[i] = Lowest(free, n)[j] => i = j
  <2> TAKE i, j \in 1..n
  <2>1. Lowest(free, n)[i] = Lowest(free, n)[j] => i - 1 = j - 1
    BY <1>5
  <2> QED
    BY <2>1
<1> QED
  BY <1>5, <1>6 DEF Lowest

\* The same in a word.
LEMMA LowestOnce ==
  ASSUME NEW free, free \subseteq Int, IsFiniteSet(free), NEW n \in Nat, n <= Cardinality(free)
  PROVE  DOMAIN Lowest(free, n) = 1..n /\ Once(Lowest(free, n), 1..n, free)
BY LowestAre DEF Once

\* A partition's numbers of places add up to the size of the pool.
LEMMA PartitionCounts ==
  ASSUME NEW F, NEW V, NEW own, Partition(F, V, own)
  PROVE  /\ F \cup {V[p] : p \in DOMAIN V} \cup UNION {{own[r][i] : i \in DOMAIN own[r]} : r \in DOMAIN own} = Slots
         /\ Cardinality(F) + Cardinality(DOMAIN V) + Cardinality(UNION {{r} \X DOMAIN own[r] : r \in DOMAIN own}) = KVSize
<1> DEFINE D == DOMAIN V
           I == {V[p] : p \in D}
           C == UNION {{r} \X DOMAIN own[r] : r \in DOMAIN own}
           g == [c \in C |-> own[c[1]][c[2]]]
           J == {g[c] : c \in C}
           K == UNION {{own[r][i] : i \in DOMAIN own[r]} : r \in DOMAIN own}
<1>1. IsFiniteSet(Slots) /\ Cardinality(Slots) = KVSize
  BY EngineAssumption, FS_Interval DEF Slots
<1>2. \A c \in C : c[1] \in DOMAIN own /\ c[2] \in DOMAIN own[c[1]] /\ c = <<c[1], c[2]>>
  OBVIOUS
<1>3. J = K
  <2>1. ASSUME NEW c \in C PROVE g[c] \in K
    <3>1. g[c] = own[c[1]][c[2]]
      OBVIOUS
    <3> QED
      BY <1>2, <3>1
  <2>2. ASSUME NEW x \in K PROVE x \in J
    <3>1. PICK r \in DOMAIN own : \E i \in DOMAIN own[r] : own[r][i] = x
      OBVIOUS
    <3>2. PICK i \in DOMAIN own[r] : own[r][i] = x
      BY <3>1
    <3>3. <<r, i>> \in C /\ g[<<r, i>>] = x
      BY <3>2
    <3> QED
      BY <3>3
  <2> QED
    BY <2>1, <2>2
<1>4. I \subseteq Slots \ F /\ K \subseteq Slots \ F /\ I \cap K = {} /\ Slots \subseteq F \cup I \cup K /\ F \subseteq Slots
  <2>1. I \cap K = {} /\ K \subseteq Slots \ F /\ I \subseteq Slots \ F /\ F \subseteq Slots
    BY DEF Partition
  <2>2. ASSUME NEW s \in Slots \ F PROVE s \in I \cup K
    BY DEF Partition
  <2> QED
    BY <2>1, <2>2
<1>5. Cardinality(D) = Cardinality(I) /\ IsFiniteSet(I)
  <2>1. Once(V, D, Slots)
    BY DEF Partition, Once
  <2> HIDE DEF D
  <2> QED
    BY <1>1, <2>1, ImageCount
<1>6. Cardinality(C) = Cardinality(J) /\ IsFiniteSet(J)
  <2>1. \A c \in C : g[c] \in Slots
    BY <1>2 DEF Partition
  <2>2. ASSUME NEW c \in C, NEW d \in C, g[c] = g[d] PROVE c = d
    <3>1. own[c[1]][c[2]] = own[d[1]][d[2]]
      BY <2>2
    <3>2. c[1] = d[1] /\ c[2] = d[2]
      BY <1>2, <3>1 DEF Partition
    <3> QED
      BY <1>2, <3>2
  <2> HIDE DEF C, g
  <2>3. Once(g, C, Slots)
    BY <2>1, <2>2 DEF Once
  <2> QED
    BY <1>1, <2>3, ImageCount
<1>7. Cardinality(F) + Cardinality(I) + Cardinality(K) = KVSize
  <2> HIDE DEF I, K
  <2>1. IsFiniteSet(F) /\ IsFiniteSet(K) /\ IsFiniteSet(I)
    BY <1>1, <1>4, FS_Subset
  <2>2. IsFiniteSet(F \cup I) /\ Cardinality(F \cup I) = Cardinality(F) + Cardinality(I)
    BY <1>4, <2>1, CountApart
  <2>3. Cardinality((F \cup I) \cup K) = Cardinality(F \cup I) + Cardinality(K)
    <3>1. (F \cup I) \cap K = {}
      BY <1>4
    <3> QED
      BY <2>1, <2>2, <3>1, CountApart
  <2>4. (F \cup I) \cup K = Slots
    BY <1>4
  <2> QED
    BY <1>1, <2>2, <2>3, <2>4
<1>8. F \cup I \cup K = Slots
  <2> HIDE DEF I, K
  <2> QED
    BY <1>4
<1> QED
  <2>1. Cardinality(F) + Cardinality(D) + Cardinality(C) = KVSize
    <3> HIDE DEF D, C, I, J, K
    <3> QED
      BY <1>3, <1>5, <1>6, <1>7
  <2> QED
    BY <1>8, <2>1

-------------------------------------------------------------------------------
(* The slots in the tree                                                   *)

\* What both trees have they have in the same slots.
Agree(t, u) == \A p \in DOMAIN t.value \cap DOMAIN u.value : u.value[p] = t.value[p]

\* Of a key's prefixes those longer than the match are not cached.
LEMMA PastMatch ==
  ASSUME NEW T, NEW t, IsRadix(t, T), NEW key, key \in Seq(T)
  PROVE  /\ MatchLen(t, key) \in 0..Len(key)
         /\ \A p \in Heads(key) : p \notin DOMAIN t.value <=> ~(Len(p) <= MatchLen(t, key))
         /\ \A n \in (Heads(key) \cap DOMAIN t.value) \cup {<<>>} : Len(n) <= MatchLen(t, key)
<1> DEFINE c == Cached(t, key)
           m == MatchLen(t, key)
<1>1. c \in Seq(T) /\ m = Len(c) /\ (c = <<>> \/ c \in Heads(key) \cap DOMAIN t.value)
  BY CachedIs
<1>2. \A p \in Heads(key) \cap DOMAIN t.value : p \in Heads(c)
  BY CachedIs
<1> HIDE DEF c, m
<1>3. m \in 0..Len(key)
  <2>1. CASE c = <<>>
    BY <1>1, <2>1
  <2>2. CASE c \in Heads(key)
    BY <1>1, <2>2, HeadsFacts
  <2> QED
    BY <1>1, <2>1, <2>2
<1>4. ASSUME NEW p \in Heads(key), p \in DOMAIN t.value PROVE Len(p) <= m
  <2>1. p \in Heads(c)
    BY <1>2, <1>4
  <2> QED
    BY <1>1, <2>1, HeadsFacts
<1>5. ASSUME NEW p \in Heads(key), Len(p) <= m PROVE p \in DOMAIN t.value
  <2>1. p # <<>> /\ p \in Seq(T) /\ Len(p) \in Nat
    BY HeadsFacts
  <2>2. c # <<>>
    BY <1>1, <1>5, <2>1
  <2>3. c \in Heads(key) /\ c \in DOMAIN t.value
    BY <1>1, <2>2
  <2>4. p \in Heads(c)
    BY <1>1, <1>5, <2>3, HeadsFacts
  <2> QED
    BY <2>3, <2>4 DEF IsRadix
<1>6. Len(<<>>) <= m
  BY <1>3
<1>7. /\ m \in 0..Len(key)
      /\ \A p \in Heads(key) : p \notin DOMAIN t.value <=> ~(Len(p) <= m)
      /\ \A n \in (Heads(key) \cap DOMAIN t.value) \cup {<<>>} : Len(n) <= m
  BY <1>3, <1>4, <1>5, <1>6
<1> QED
  BY <1>7 DEF m

\* insert keeps the slots it has and takes the key's own for the prefixes past the match.
LEMMA InsertValues ==
  ASSUME NEW T, NEW t, IsRadix(t, T), NEW key, key \in Seq(T), NEW slots
  PROVE  /\ \A p \in DOMAIN t.value : Insert(t, key, slots).value[p] = t.value[p]
         /\ \A p \in Heads(key) \ DOMAIN t.value : Insert(t, key, slots).value[p] = slots[Len(p)]
<1> DEFINE s == Split(t, {key})
           tail == Heads(key) \ DOMAIN s.value
<1>1. s.value = t.value
  BY SplitRadix
<1> HIDE DEF s
<1>2. AddLeaf(s, key, slots).value =
        IF tail = {} THEN s.value
        ELSE [p \in DOMAIN s.value \cup tail |-> IF p \in tail THEN slots[Len(p)] ELSE s.value[p]]
  BY DEF AddLeaf
<1>3. Insert(t, key, slots).value = AddLeaf(s, key, slots).value
  BY DEF Insert, s
<1> QED
  BY <1>1, <1>2, <1>3

\* The slots of what both trees have are the same.
LEMMA SameSlotsOf ==
  ASSUME NEW t, NEW u, Agree(t, u), NEW k, Heads(k) \subseteq DOMAIN t.value, Heads(k) \subseteq DOMAIN u.value
  PROVE  SlotsOf(u, k) = SlotsOf(t, k)
<1>1. \A i \in 1..Len(k) : u.value[SubSeq(k, 1, i)] = t.value[SubSeq(k, 1, i)]
  BY DEF Agree, Heads
<1> QED
  BY <1>1 DEF SlotsOf

\* The slots from a place on and up to another, and the slots that r owns.
Freed(slots, k, m) == {slots[i] : i \in (k + 1)..m}
OwnSlots(own, r, k, n, slots) == DOMAIN own[r] = (k + 1)..n /\ \A i \in DOMAIN own[r] : slots[i] = own[r][i]

\* Caching a request: its slots past its prefix are freed, where the tree has others for the same tokens, or go to the tree.
LEMMA CacheInTree ==
  ASSUME NEW t, IsRadix(t, Tokens), NEW F, NEW own, Partition(F, t.value, own), NEW r \in DOMAIN own,
         NEW ids, ids \in Seq(Tokens), NEW k \in Nat, k <= MatchLen(t, ids),
         NEW slots, OwnSlots(own, r, k, Len(ids), slots), NEW rest, AllBut(rest, own, r)
  PROVE  Partition(F \cup Freed(slots, k, MatchLen(t, ids)), Insert(t, ids, slots).value, rest)
<1> DEFINE m == MatchLen(t, ids)
           V == t.value
           W == Insert(t, ids, slots).value
           G == F \cup {slots[i] : i \in (k + 1)..m}
           n == Len(ids)
<1>0. \A i \in DOMAIN own[r] : slots[i] = own[r][i]
  BY DEF OwnSlots
<1>1. m \in 0..n /\ n \in Nat /\ \A p \in Heads(ids) : p \notin DOMAIN V <=> ~(Len(p) <= m)
  BY PastMatch
<1>2. DOMAIN W = DOMAIN V \cup Heads(ids) /\ \A p \in DOMAIN V : W[p] = V[p]
  BY InsertRadix, InsertValues
<1>3. \A p \in Heads(ids) \ DOMAIN V : W[p] = slots[Len(p)]
  BY InsertValues
<1>4. \A p \in Heads(ids) : Len(p) \in 1..n
  <2> TAKE p \in Heads(ids)
  <2>1. p \in Seq(Tokens) /\ p # <<>> /\ Len(p) \in Nat /\ Len(p) <= Len(ids)
    BY HeadsFacts
  <2> QED
    BY <2>1
<1>5. \A p, q \in Heads(ids) : Len(p) = Len(q) => p = q
  <2> TAKE p, q \in Heads(ids)
  <2>1. p \in Seq(Tokens) /\ q \in Seq(Tokens) /\ Starts(p, ids) /\ Starts(q, ids)
    BY HeadsAre
  <2> QED
    BY <2>1 DEF Starts
<1>6. \A i \in 1..n : \E p \in Heads(ids) : Len(p) = i
  <2> TAKE i \in 1..n
  <2>1. SubSeq(ids, 1, i) \in Heads(ids) /\ i \in 0..Len(ids)
    BY DEF Heads
  <2>2. Len(SubSeq(ids, 1, i)) = i
    BY <2>1, SubSeqStarts
  <2> QED
    BY <2>1, <2>2
<1>7. DOMAIN own[r] = (k + 1)..n /\ k <= m
  BY DEF OwnSlots
<1> HIDE DEF V, W, m, n
<1>8. ASSUME NEW p \in DOMAIN W \ DOMAIN V PROVE Len(p) \in DOMAIN own[r] /\ ~(Len(p) <= m) /\ W[p] = own[r][Len(p)]
  <2>1. p \in Heads(ids) /\ p \notin DOMAIN V
    BY <1>2
  <2>2. Len(p) \in 1..n /\ ~(Len(p) <= m)
    BY <1>1, <1>4, <2>1
  <2>3. Len(p) \in (k + 1)..n
    BY <1>1, <1>7, <2>2
  <2> QED
    BY <1>0, <1>3, <1>7, <2>1, <2>2, <2>3
<1>9. \A p, q \in DOMAIN W \ DOMAIN V : Len(p) = Len(q) => p = q
  BY <1>2, <1>5
<1>10. ASSUME NEW i \in DOMAIN own[r], ~(i <= m) PROVE \E p \in DOMAIN W \ DOMAIN V : Len(p) = i
  <2>1. i \in 1..n
    BY <1>1, <1>7
  <2>2. PICK p \in Heads(ids) : Len(p) = i
    BY <1>6, <2>1
  <2> QED
    BY <1>1, <1>2, <1>10, <2>2
<1>11. G = F \cup {own[r][i] : i \in {j \in DOMAIN own[r] : j <= m}}
  <2>1. {j \in DOMAIN own[r] : j <= m} = (k + 1)..m
    BY <1>1, <1>7
  <2>2. \A i \in (k + 1)..m : slots[i] = own[r][i]
    BY <1>0, <2>1
  <2> QED
    BY <2>1, <2>2
<1>12. Partition(F, V, own)
  BY DEF V
<1>13. Takes(W, V, own, r, m)
  BY <1>2, <1>8, <1>9, <1>10 DEF Takes
<1>14. Partition(G, W, rest)
  <2> HIDE DEF G
  <2> QED
    BY <1>11, <1>12, <1>13, Cache
<1> QED
  BY <1>14 DEF W, m, Freed

\* The prefixes on edges of a tree are cached.
LEMMA EdgesCached ==
  ASSUME NEW T, NEW t, IsRadix(t, T), NEW N, N \subseteq t.nodes
  PROVE  Edges(t, N) \subseteq DOMAIN t.value
BY DEF Edges, Edge, IsRadix

\* Evicting from the tree: the slots of what is gone are free.
LEMMA EvictFromTree ==
  ASSUME NEW t, IsRadix(t, Tokens), NEW F, NEW own, Partition(F, t.value, own), NEW N, N \subseteq t.nodes
  PROVE  Partition(F \cup SlotsIn(t, N), Without(t, N).value, own)
<1> DEFINE gone == Edges(t, N)
           V == t.value
           W == Without(t, N).value
           G == F \cup SlotsIn(t, N)
<1>1. gone \subseteq DOMAIN V
  BY EdgesCached
<1>2. W = [p \in DOMAIN V \ gone |-> V[p]] /\ G = F \cup {V[p] : p \in gone}
  BY DEF Without, SlotsIn
<1>3. Partition(F, V, own)
  OBVIOUS
<1> HIDE DEF V, W, G, gone
<1>4. Partition(G, W, own)
  BY <1>1, <1>2, <1>3, Evict
<1> QED
  BY <1>4 DEF G, W

-------------------------------------------------------------------------------
(* The places of slots and rows                                            *)

\* The slots that the rows of the requests hold past their prefixes, by their places.
Own == [r \in RowHolders |-> [i \in PastPrefix(r) |-> reqToToken[req[r].row][i]]]

SlotsApart == Partition(kvFree, tree_cache.value, Own)

\* A row is free or one holder's.
RowsApart ==
  /\ rowFree \subseteq Rows
  /\ \A r \in RowHolders : req[r].row \in Rows \ rowFree
  /\ \A r, s \in RowHolders : req[r].row = req[s].row => r = s
  /\ \A w \in Rows \ rowFree : \E r \in RowHolders : req[r].row = w

\* A holder's row begins with its prefix and is as long as the request is computed.
RowsWritten ==
  \A r \in RowHolders :
    /\ req[r].seq \in Nat /\ reqToToken[req[r].row] \in [1..req[r].seq -> Slots] /\ Len(req[r].prefix) <= req[r].seq
    /\ \A i \in 1..Len(req[r].prefix) : reqToToken[req[r].row][i] = req[r].prefix[i]

Memory == SlotsApart /\ RowsApart /\ RowsWritten

\* A request that uses the cache has the slots of a prefix of its own tokens.
OwnTokens ==
  \A r \in LockHolders : /\ req[r].node \in Heads(Ids(r)) \cup {<<>>}
                         /\ req[r].prefix = SlotsOf(tree_cache, req[r].node)

\* A step leaves what r holds.
SameUse(r) ==
  /\ req'[r].prefix = req[r].prefix /\ req'[r].seq = req[r].seq /\ req'[r].row = req[r].row
  /\ reqToToken'[req[r].row] = reqToToken[req[r].row]

\* What is left alone is owned as before.
LEMMA OwnSame ==
  ASSUME NEW r, r \in RowHolders, r \in RowHolders', SameUse(r)
  PROVE  Own'[r] = Own[r]
BY DEF Own, SameUse, PastPrefix

\* The holders' rows and their prefixes are those they were.
LEMMA RowSame ==
  ASSUME RowsWritten, NEW r, r \in RowHolders, SameUse(r)
  PROVE  /\ req'[r].seq \in Nat /\ reqToToken'[req'[r].row] \in [1..req'[r].seq -> Slots] /\ Len(req'[r].prefix) <= req'[r].seq
         /\ \A i \in 1..Len(req'[r].prefix) : reqToToken'[req'[r].row][i] = req'[r].prefix[i]
BY DEF RowsWritten, SameUse

\* The holders stay and leave what they hold.
LEMMA HoldersKept ==
  ASSUME Memory, rowFree' = rowFree, RowHolders' = RowHolders, \A r \in RowHolders : SameUse(r)
  PROVE  Own' = Own /\ RowsApart' /\ RowsWritten'
<1>1. Own' = Own
  <2>1. \A r \in RowHolders : Own'[r] = Own[r]
    BY OwnSame
  <2>2. Own = [r \in RowHolders |-> Own[r]] /\ Own' = [r \in RowHolders' |-> Own'[r]]
    BY DEF Own
  <2> QED
    BY <2>1, <2>2
<1>2. RowsApart'
  BY DEF Memory, RowsApart, SameUse
<1>3. RowsWritten'
  BY RowSame DEF Memory, RowsWritten
<1> QED
  BY <1>1, <1>2, <1>3

\* Nothing moves.
LEMMA MemoryKept ==
  ASSUME Memory, UNCHANGED <<kvFree, rowFree>>, tree_cache'.value = tree_cache.value,
         RowHolders' = RowHolders, \A r \in RowHolders : SameUse(r)
  PROVE  Memory' /\ Agree(tree_cache, tree_cache')
BY HoldersKept DEF Memory, SlotsApart, Agree

\* One request gives its row back.
LEMMA RowGivenBack ==
  ASSUME Memory, NEW r \in RowHolders, RowHolders' = RowHolders \ {r}, rowFree' = RowBack(r),
         \A o \in RowHolders \ {r} : SameUse(o)
  PROVE  RowsApart' /\ RowsWritten' /\ AllBut(Own', Own, r)
<1>1. RowsApart'
  <2>1. rowFree' \subseteq Rows
    BY DEF Memory, RowsApart, RowBack
  <2>2. \A o \in RowHolders' : req'[o].row = req[o].row /\ req[o].row # req[r].row
    BY DEF Memory, RowsApart, SameUse
  <2>3. \A o \in RowHolders' : req'[o].row \in Rows \ rowFree'
    BY <2>2 DEF Memory, RowsApart, RowBack
  <2>4. \A o, s \in RowHolders' : req'[o].row = req'[s].row => o = s
    BY <2>2 DEF Memory, RowsApart
  <2>5. \A w \in Rows \ rowFree' : \E o \in RowHolders' : req'[o].row = w
    BY <2>2 DEF Memory, RowsApart, RowBack
  <2> QED
    BY <2>1, <2>3, <2>4, <2>5 DEF RowsApart
<1>2. RowsWritten'
  BY RowSame DEF Memory, RowsWritten
<1>3. AllBut(Own', Own, r)
  <2>1. DOMAIN Own' = RowHolders' /\ DOMAIN Own = RowHolders
    BY DEF Own
  <2>2. \A o \in RowHolders \ {r} : Own'[o] = Own[o]
    BY OwnSame
  <2> QED
    BY <2>1, <2>2 DEF AllBut
<1> QED
  BY <1>1, <1>2, <1>3

\* What r owns.
LEMMA OwnIs ==
  ASSUME NEW r \in RowHolders
  PROVE  r \in DOMAIN Own /\ DOMAIN Own[r] = PastPrefix(r) /\ \A i \in PastPrefix(r) : Own[r][i] = reqToToken[req[r].row][i]
BY DEF Own

\* What a prefix of a key, or nothing, is.
LEMMA HeadTyped ==
  ASSUME NEW T, NEW k, k \in Seq(T), NEW p, p \in Heads(k) \cup {<<>>}
  PROVE  p \in Seq(T) /\ Len(p) \in Nat /\ Len(p) <= Len(k)
<1>1. CASE p \in Heads(k)
  BY <1>1, HeadsFacts
<1>2. CASE p = <<>>
  <2>1. Len(<<>>) = 0 /\ <<>> \in Seq(T)
    OBVIOUS
  <2>2. Len(k) \in Nat
    OBVIOUS
  <2> QED
    BY <1>2, <2>1, <2>2
<1> QED
  BY <1>1, <1>2

\* It is one of each longer prefix of the key.
LEMMA HeadOfShorter ==
  ASSUME NEW T, NEW k, k \in Seq(T), NEW p, p \in Heads(k) \cup {<<>>}, NEW n \in 0..Len(k), Len(p) <= n
  PROVE  p \in Heads(SubSeq(k, 1, n)) \cup {<<>>}
<1> DEFINE q == SubSeq(k, 1, n)
<1>1. Len(q) = n
  BY SubSeqStarts
<1>2. ASSUME p # <<>> PROVE p \in Heads(q)
  <2>1. p \in Heads(k) /\ Len(p) \in Nat
    BY <1>2, HeadTyped
  <2>2. n \in 1..Len(k)
    <3>1. p \in Seq(T) /\ p # <<>>
      BY <1>2, HeadTyped
    <3>2. Len(p) \in Nat \ {0}
      BY <3>1
    <3> QED
      BY <3>2
  <2>3. q \in Heads(k)
    BY <2>2 DEF Heads
  <2> HIDE DEF q
  <2> QED
    BY <1>1, <2>1, <2>3, HeadsFacts
<1> QED
  BY <1>2

\* A prefix is as long as its node.
LEMMA PrefixLen ==
  ASSUME OwnTokens, BatchTypes, NEW r \in LockHolders
  PROVE  Len(req[r].prefix) = Len(req[r].node) /\ Len(req[r].node) \in Nat /\ req[r].node \in Seq(Tokens)
<1>1. r \in Requests
  BY HoldersAre
<1>2. req[r].node \in Seq(Tokens)
  <2>1. Ids(r) \in Seq(Tokens)
    BY <1>1, IdsTyped
  <2>2. req[r].node \in Heads(Ids(r)) \cup {<<>>}
    BY DEF OwnTokens
  <2> QED
    BY <2>1, <2>2, HeadTyped
<1>3. req[r].prefix = SlotsOf(tree_cache, req[r].node)
  BY DEF OwnTokens
<1> QED
  BY <1>2, <1>3, SlotsLen

\* The tree has all of a holder's prefix: what is matched of its tokens is no shorter.
LEMMA PrefixMatched ==
  ASSUME TreeTyped, BatchTypes, LocksHeld, OwnTokens, NEW r \in LockHolders,
         NEW ids, ids \in Seq(Tokens), req[r].node \in Heads(ids) \cup {<<>>}
  PROVE  /\ Len(req[r].prefix) \in Nat /\ Len(req[r].prefix) <= MatchLen(tree_cache, ids)
         /\ MatchLen(tree_cache, ids) \in 0..Len(ids)
<1>1. IsRadix(tree_cache, Tokens)
  BY DEF TreeTyped
<1>2. r \in Requests /\ Nodes[r] = req[r].node
  BY HoldersAre
<1>3. req[r].node \in tree_cache.nodes \cup {<<>>}
  BY <1>2 DEF LocksHeld, Locked
<1>4. req[r].node \in (Heads(ids) \cap DOMAIN tree_cache.value) \cup {<<>>}
  BY <1>1, <1>3 DEF IsRadix
<1>5. Len(req[r].node) <= MatchLen(tree_cache, ids) /\ MatchLen(tree_cache, ids) \in 0..Len(ids)
  BY <1>1, <1>4, PastMatch
<1> QED
  BY <1>5, PrefixLen

-------------------------------------------------------------------------------
(* Caching                                                                 *)

\* A holder's row is a sequence.
LEMMA RowIs ==
  ASSUME RowsWritten, NEW r \in RowHolders
  PROVE  /\ reqToToken[req[r].row] \in Seq(Slots) /\ Len(reqToToken[req[r].row]) = req[r].seq
         /\ req[r].seq \in Nat /\ DOMAIN reqToToken[req[r].row] = 1..req[r].seq
<1> DEFINE w == reqToToken[req[r].row]
           n == req[r].seq
<1>1. n \in Nat /\ w \in [1..n -> Slots]
  BY DEF RowsWritten
<1> HIDE DEF w, n
<1>2. w \in Seq(Slots) /\ Len(w) = n /\ DOMAIN w = 1..n
  BY <1>1
<1> QED
  BY <1>1, <1>2 DEF w, n

\* The slots a request has for what the tree has slots for.
Doubled(slots, r, ids) == {slots[i] : i \in Duplicates(r, ids)}

\* A request that is cached, as long as it is computed, leaves its slots past its prefix to the tree or to the free ones.
LEMMA CachedSlotsMove ==
  ASSUME TreeTyped, BatchTypes, LocksHeld, OwnTokens, Memory, NEW r \in RowHolders,
         NEW ids, ids \in Seq(Tokens), req[r].node \in Heads(ids) \cup {<<>>}, Len(ids) = req[r].seq,
         NEW slots, \A i \in 1..req[r].seq : slots[i] = reqToToken[req[r].row][i],
         tree_cache'.value = Insert(tree_cache, ids, slots).value,
         kvFree' = kvFree \cup Doubled(slots, r, ids), NEW rest, AllBut(rest, Own, r)
  PROVE  Partition(kvFree', tree_cache'.value, rest) /\ Agree(tree_cache, tree_cache')
<1> DEFINE k == Len(req[r].prefix)
<1>1. r \in LockHolders
  BY DEF LockHolders
<1>2. k \in Nat /\ k <= MatchLen(tree_cache, ids)
  BY <1>1, PrefixMatched
<1>3. r \in DOMAIN Own /\ OwnSlots(Own, r, k, Len(ids), slots)
  <2>1. r \in DOMAIN Own /\ DOMAIN Own[r] = PastPrefix(r) /\ \A i \in PastPrefix(r) : Own[r][i] = reqToToken[req[r].row][i]
    BY OwnIs
  <2>2. PastPrefix(r) = (k + 1)..Len(ids)
    BY DEF PastPrefix
  <2>3. \A i \in PastPrefix(r) : i \in 1..req[r].seq
    BY <1>2, <2>2, RowIs DEF Memory
  <2> QED
    BY <2>1, <2>2, <2>3 DEF OwnSlots
<1>4. kvFree' = kvFree \cup Freed(slots, k, MatchLen(tree_cache, ids))
  BY DEF Doubled, Duplicates, Freed
<1> HIDE DEF k
<1>5. IsRadix(tree_cache, Tokens) /\ Partition(kvFree, tree_cache.value, Own)
  BY DEF TreeTyped, Memory, SlotsApart
<1>6. Partition(kvFree \cup Freed(slots, k, MatchLen(tree_cache, ids)), Insert(tree_cache, ids, slots).value, rest)
  BY <1>2, <1>3, <1>5, CacheInTree
<1>7. Agree(tree_cache, tree_cache')
  BY <1>5, InsertValues DEF Agree
<1> QED
  BY <1>4, <1>6, <1>7

\* If it is done, it leaves its row too.
LEMMA CachedAndGone ==
  ASSUME TreeTyped, BatchTypes, LocksHeld, OwnTokens, Memory, NEW r \in RowHolders,
         NEW ids, ids \in Seq(Tokens), req[r].node \in Heads(ids) \cup {<<>>}, Len(ids) = req[r].seq,
         NEW slots, \A i \in 1..req[r].seq : slots[i] = reqToToken[req[r].row][i],
         tree_cache'.value = Insert(tree_cache, ids, slots).value,
         kvFree' = kvFree \cup Doubled(slots, r, ids), rowFree' = RowBack(r),
         RowHolders' = RowHolders \ {r}, \A o \in RowHolders \ {r} : SameUse(o)
  PROVE  Memory' /\ Agree(tree_cache, tree_cache')
<1>1. RowsApart' /\ RowsWritten' /\ AllBut(Own', Own, r)
  BY RowGivenBack
<1>2. Partition(kvFree', tree_cache'.value, Own') /\ Agree(tree_cache, tree_cache')
  BY <1>1, CachedSlotsMove
<1> QED
  BY <1>1, <1>2 DEF Memory, SlotsApart

\* cache_finished_req.
LEMMA CacheFinishedMemory ==
  ASSUME TreeTyped, BatchTypes, LocksHeld, OwnTokens, Memory, NEW r \in RowHolders,
         NEW ids, ids \in Seq(Tokens), req[r].node \in Heads(ids) \cup {<<>>}, Len(ids) = req[r].seq,
         CacheFinished(r, ids), RowHolders' = RowHolders \ {r}, \A o \in RowHolders \ {r} : SameUse(o)
  PROVE  Memory' /\ Agree(tree_cache, tree_cache')
<1> DEFINE row == reqToToken[req[r].row]
           slots == SubSeq(row, 1, Len(ids))
           grown == Insert(tree_cache, ids, slots)
<1>1. tree_cache' = DecLock(grown, req[r].node) /\ kvFree' = kvFree \cup Doubled(slots, r, ids)
      /\ rowFree' = RowBack(r)
  BY DEF CacheFinished, Doubled
<1>2. \A i \in 1..req[r].seq : slots[i] = row[i]
  <2>1. row \in Seq(Slots) /\ Len(row) = req[r].seq /\ req[r].seq \in Nat
    BY RowIs DEF Memory
  <2> HIDE DEF row
  <2>2. Len(ids) \in 0..Len(row)
    BY <2>1
  <2> QED
    BY <2>1, <2>2, SubSeqStarts
<1>3. IsRadix(grown, Tokens)
  BY InsertRadix DEF TreeTyped
<1>4. tree_cache'.value = grown.value
  <2> HIDE DEF grown
  <2> QED
    BY <1>1, <1>3, LockRadix
<1> HIDE DEF slots
<1> QED
  BY <1>1, <1>2, <1>4, CachedAndGone

-------------------------------------------------------------------------------
(* Evicting and retracting                                                 *)

\* What an eviction leaves is where it was.
LEMMA WithoutAgrees ==
  ASSUME NEW t, NEW N
  PROVE  Agree(t, Without(t, N))
BY DEF Agree, Without

\* The same of the eviction for a step that only makes room.
LEMMA EvictedMemory ==
  ASSUME TreeTyped, Memory, NEW N, N \subseteq tree_cache.nodes, tree_cache' = Without(tree_cache, N), kvFree' = FreeAfter(N),
         rowFree' = rowFree, RowHolders' = RowHolders, \A r \in RowHolders : SameUse(r)
  PROVE  Memory' /\ Agree(tree_cache, tree_cache')
<1>1. Own' = Own /\ RowsApart' /\ RowsWritten'
  BY HoldersKept
<1>2. IsRadix(tree_cache, Tokens) /\ Partition(kvFree, tree_cache.value, Own)
  BY DEF TreeTyped, Memory, SlotsApart
<1>3. Partition(kvFree \cup SlotsIn(tree_cache, N), Without(tree_cache, N).value, Own)
  BY <1>2, EvictFromTree
<1>4. SlotsApart'
  BY <1>1, <1>3 DEF SlotsApart, FreeAfter
<1> QED
  BY <1>1, <1>4, WithoutAgrees DEF Memory

\* A request that is retracted gives up its slots past its prefix and its row.
LEMMA RetractMemory ==
  ASSUME TreeTyped, Memory, NEW r \in RowHolders, Retract(r), RowHolders' = RowHolders \ {r}, \A o \in RowHolders \ {r} : SameUse(o)
  PROVE  Memory' /\ Agree(tree_cache, tree_cache')
<1> DEFINE mine == {reqToToken[req[r].row][i] : i \in (Len(req[r].prefix) + 1)..req[r].seq}
           unlocked == DecLock(tree_cache, req[r].node)
<1>1. PICK N : /\ \E n : N \in Evictions(unlocked, n) \/ N = {}
               /\ tree_cache' = Without(unlocked, N) /\ kvFree' = kvFree \cup mine \cup SlotsIn(unlocked, N)
               /\ rowFree' = RowBack(r)
  BY DEF Retract
<1>2. RowsApart' /\ RowsWritten' /\ AllBut(Own', Own, r)
  BY <1>1, RowGivenBack
<1>3. IsRadix(unlocked, Tokens) /\ unlocked.value = tree_cache.value
  BY LockRadix DEF TreeTyped
<1> HIDE DEF unlocked
<1>4. N \subseteq unlocked.nodes
  BY <1>1, EvictionsClosed
<1>5. r \in DOMAIN Own /\ mine = {Own[r][i] : i \in DOMAIN Own[r]}
  BY DEF Own, PastPrefix
<1> DEFINE G == kvFree \cup mine
<1>6. Partition(G, tree_cache.value, Own')
  <2>1. Partition(kvFree, tree_cache.value, Own)
    BY DEF Memory, SlotsApart
  <2> HIDE DEF mine
  <2> QED
    BY <1>2, <1>5, <2>1, GiveUp
<1> HIDE DEF G
<1>7. Partition(G, unlocked.value, Own')
  BY <1>3, <1>6
<1>8. Partition(G \cup SlotsIn(unlocked, N), Without(unlocked, N).value, Own')
  BY <1>3, <1>4, <1>7, EvictFromTree
<1>9. SlotsApart'
  BY <1>1, <1>8 DEF SlotsApart, G
<1>10. Agree(tree_cache, tree_cache')
  BY <1>1, <1>3, WithoutAgrees DEF Agree
<1> QED
  BY <1>2, <1>9, <1>10 DEF Memory

-------------------------------------------------------------------------------
(* Caching a request that goes on                                          *)

\* How much of its tokens a holder has computed: a request in flight what its chunks so far cover, another all of them, or
\* all but the last one sampled.
AsComputed(r) ==
  /\ r = inflight => req[r].seq = req[r].fill
  /\ r # inflight => req[r].seq = IF r \in todo THEN Len(Ids(r)) ELSE Len(Ids(r)) - 1
  /\ r # inflight /\ r \in todo /\ batch.mode = "extend" => req[r].fill = Len(Ids(r))

Computed == \A r \in RowHolders : AsComputed(r)

\* There is a row for each place of the table.
TableTyped == DOMAIN reqToToken = Rows

\* What a holder has computed begins with its prefix.
LEMMA ComputedIds ==
  ASSUME BatchTypes, OwnTokens, Memory, NEW r \in RowHolders, req[r].seq <= Len(Ids(r)),
         NEW ids, ids = SubSeq(Ids(r), 1, req[r].seq)
  PROVE  /\ ids \in Seq(Tokens) /\ Len(ids) = req[r].seq /\ req[r].node \in Heads(ids) \cup {<<>>}
         /\ ids \in Heads(Ids(r)) \cup {<<>>}
<1> DEFINE key == Ids(r)
           n == req[r].seq
           p == req[r].node
<1>1. r \in LockHolders /\ r \in Requests
  BY HoldersAre DEF LockHolders
<1>2. key \in Seq(Tokens) /\ Len(key) \in Nat
  BY <1>1, IdsTyped
<1>3. n \in 0..Len(key)
  BY <1>2 DEF Memory, RowsWritten
<1>4. p \in Heads(key) \cup {<<>>} /\ Len(p) <= n
  BY <1>1, PrefixLen DEF OwnTokens, Memory, RowsWritten
<1>5. ids = SubSeq(key, 1, n)
  OBVIOUS
<1>6. n = 0 => ids = <<>>
  BY <1>2, <1>5, SubSeqEmpty
<1> HIDE DEF key, n, p
<1>7. ids \in Seq(Tokens) /\ Len(ids) = n
  <2>1. SubSeq(key, 1, n) \in Seq(Tokens) /\ Len(SubSeq(key, 1, n)) = n
    BY <1>2, <1>3, SubSeqStarts
  <2> QED
    BY <1>5, <2>1
<1>9. p \in Heads(ids) \cup {<<>>}
  <2>1. p \in Heads(SubSeq(key, 1, n)) \cup {<<>>}
    BY <1>2, <1>3, <1>4, HeadOfShorter
  <2> QED
    BY <1>5, <2>1
<1>8. ids \in Heads(key) \cup {<<>>}
  <2>1. n \in 1..Len(key) \/ n = 0
    BY <1>2, <1>3
  <2> QED
    BY <1>5, <1>6, <2>1 DEF Heads
<1> QED
  BY <1>7, <1>8, <1>9 DEF key, n, p

\* What cache_unfinished_req does to the slots.
LEMMA CacheUnfinishedValues ==
  ASSUME TreeTyped, BatchTypes, NEW r \in Requests, CacheUnfinished(r),
         NEW ids, ids = SubSeq(Ids(r), 1, req[r].fill), NEW row, row = reqToToken[req[r].row]
  PROVE  /\ tree_cache'.value = Insert(tree_cache, ids, row).value
         /\ kvFree' = kvFree \cup Doubled(row, r, ids)
<1> DEFINE t == Insert(tree_cache, ids, row)
           u == DecLock(t, req[r].node)
<1>1. IsRadix(t, Tokens)
  BY IdsTyped, InsertRadix DEF TreeTyped
<1>2. tree_cache' = IncLock(u, ids) /\ kvFree' = kvFree \cup Doubled(row, r, ids)
  BY DEF CacheUnfinished, Doubled
<1> HIDE DEF t
<1>3. IsRadix(u, Tokens) /\ u.value = t.value
  BY <1>1, LockRadix
<1> HIDE DEF u
<1>4. tree_cache'.value = t.value
  BY <1>2, <1>3, LockRadix
<1> QED
  BY <1>2, <1>4 DEF t

\* It touches no other holder's row.
LEMMA CacheUnfinishedRows ==
  ASSUME TableTyped, Memory, NEW r \in RowHolders, CacheUnfinished(r), NEW o \in RowHolders \ {r}
  PROVE  reqToToken'[req[o].row] = reqToToken[req[o].row]
<1>1. req[o].row \in Rows /\ req[o].row # req[r].row
  BY DEF Memory, RowsApart
<1> QED
  BY <1>1 DEF TableTyped, CacheUnfinished

\* The request in flight has its chunk cached and leaves its row.
LEMMA MergeLastBatchMemory ==
  ASSUME TreeTyped, BatchTypes, Loop, Apart, LocksHeld, OwnTokens, Memory, Computed, TableTyped, MergeLastBatch
  PROVE  Memory' /\ Agree(tree_cache, tree_cache')
<1>1. /\ UNCHANGED <<finished, inflight>> /\ pc = "recv" /\ pc' = "prefill" /\ last'.reqs = {}
  BY DEF MergeLastBatch, NoBatch
<1>2. CASE last.reqs # {} /\ inflight # None
  <2> DEFINE r == inflight
             ids == SubSeq(Ids(r), 1, req[r].fill)
             row == reqToToken[req[r].row]
  <2>1. r \in last.reqs /\ r \in Requests /\ r \in RowHolders /\ r \notin running
    BY <1>2 DEF Loop, BatchTypes, RowHolders, Apart
  <2>2. /\ running' = running \cup (last.reqs \ (finished \cup {r})) /\ CacheUnfinished(r) /\ rowFree' = RowBack(r)
        /\ req' = [req EXCEPT ![r] = CachedAs(r)]
    BY <1>2 DEF MergeLastBatch
  <2>3. RowHolders' = RowHolders \ {r}
    BY <1>1, <2>1, <2>2 DEF RowHolders
  <2>4. \A o \in RowHolders \ {r} : SameUse(o)
    <3> TAKE o \in RowHolders \ {r}
    <3>1. o \in Requests
      BY HoldersAre DEF LockHolders
    <3>2. req'[o] = req[o]
      BY <2>2, <3>1 DEF BatchTypes
    <3> HIDE DEF r
    <3>3. reqToToken'[req[o].row] = reqToToken[req[o].row]
      BY <2>1, <2>2, CacheUnfinishedRows
    <3> QED
      BY <3>2, <3>3 DEF SameUse
  <2>5. req[r].fill = req[r].seq /\ req[r].seq <= Len(Ids(r))
    <3>1. req[r].fill = req[r].seq
      BY <2>1 DEF Computed, AsComputed
    <3>2. req[r].fill <= Len(Prompt[r]) + Len(req[r].out)
      BY <2>1 DEF BatchTypes, ReqTyped
    <3> QED
      BY <2>1, <3>1, <3>2, IdsTyped
  <2> HIDE DEF r
  <2>6. ids \in Seq(Tokens) /\ Len(ids) = req[r].seq /\ req[r].node \in Heads(ids) \cup {<<>>}
    BY <2>1, <2>5, ComputedIds
  <2>7. tree_cache'.value = Insert(tree_cache, ids, row).value /\ kvFree' = kvFree \cup Doubled(row, r, ids)
    <3>1. ids = SubSeq(Ids(r), 1, req[r].fill) /\ row = reqToToken[req[r].row]
      OBVIOUS
    <3> HIDE DEF ids, row
    <3> QED
      BY <2>1, <2>2, <3>1, CacheUnfinishedValues
  <2>8. \A i \in 1..req[r].seq : row[i] = reqToToken[req[r].row][i]
    OBVIOUS
  <2> HIDE DEF ids, row
  <2> QED
    BY <2>1, <2>2, <2>3, <2>4, <2>6, <2>7, <2>8, CachedAndGone
<1>3. CASE ~(last.reqs # {} /\ inflight # None)
  <2>1. running' = running \cup last.reqs /\ UNCHANGED <<tree_cache, kvFree, rowFree, reqToToken, req>>
    BY <1>3 DEF MergeLastBatch, memory
  <2>2. RowHolders' = RowHolders
    BY <1>1, <2>1 DEF RowHolders
  <2>3. \A r \in RowHolders : SameUse(r)
    BY <2>1 DEF SameUse
  <2> QED
    BY <2>1, <2>2, <2>3, MemoryKept
<1> QED
  BY <1>2, <1>3

\* A key has one prefix of each length.
LEMMA OneOfLength ==
  ASSUME NEW T, NEW k, k \in Seq(T), NEW p \in Heads(k), NEW q \in Heads(k), Len(p) = Len(q)
  PROVE  p = q
<1>1. p \in Seq(T) /\ q \in Seq(T) /\ Starts(p, k) /\ Starts(q, k)
  BY HeadsAre
<1> QED
  BY <1>1 DEF Starts

\* The prefixes of a key's prefix are the key's.
LEMMA SameHead ==
  ASSUME NEW T, NEW k, k \in Seq(T), NEW p, p \in Heads(k) \cup {<<>>}, NEW i \in 1..Len(p)
  PROVE  SubSeq(p, 1, i) = SubSeq(k, 1, i) /\ SubSeq(k, 1, i) \in Heads(k)
<1>1. p \in Seq(T) /\ Len(p) \in Nat /\ Len(p) <= Len(k)
  BY HeadTyped
<1>2. p \in Heads(k)
  BY <1>1
<1>3. i \in 0..Len(p) /\ i \in 0..Len(k) /\ i \in 1..Len(k)
  <2>1. Len(k) \in Nat
    OBVIOUS
  <2> QED
    BY <1>1, <2>1
<1>4. Len(SubSeq(p, 1, i)) = i /\ Len(SubSeq(k, 1, i)) = i
  BY <1>1, <1>3, SubSeqStarts
<1>5. SubSeq(k, 1, i) \in Heads(k)
  BY <1>3 DEF Heads
<1>6. SubSeq(p, 1, i) \in Heads(k)
  <2>1. SubSeq(p, 1, i) \in Heads(p)
    BY DEF Heads
  <2>2. Heads(p) \subseteq Heads(k)
    BY <1>2, HeadsFacts
  <2> QED
    BY <2>1, <2>2
<1> QED
  BY <1>4, <1>5, <1>6, OneOfLength

\* cache_unfinished_req of a request that has all of its tokens computed: its row now holds the tree's slots only.
LEMMA CachedGoesOn ==
  ASSUME TreeTyped, BatchTypes, LocksHeld, OwnTokens, Memory, TableTyped, NEW r \in RowHolders, CacheUnfinished(r),
         req[r].fill = req[r].seq, req[r].seq <= Len(Ids(r)), rowFree' = rowFree, RowHolders' = RowHolders,
         req'[r].prefix = CachedAs(r).prefix, req'[r].seq = req[r].seq, req'[r].row = req[r].row,
         \A o \in RowHolders \ {r} : SameUse(o)
  PROVE  Memory' /\ Agree(tree_cache, tree_cache')
<1> DEFINE ids == SubSeq(Ids(r), 1, req[r].fill)
           row == reqToToken[req[r].row]
           grown == Insert(tree_cache, ids, row)
           k == Len(req[r].prefix)
           n == req[r].seq
           node == req[r].node
           rest == [o \in RowHolders \ {r} |-> Own[o]]
<1>1. r \in Requests /\ r \in LockHolders
  BY HoldersAre DEF LockHolders
<1>2. ids \in Seq(Tokens) /\ Len(ids) = n /\ node \in Heads(ids) \cup {<<>>}
  BY ComputedIds
<1>3. tree_cache'.value = grown.value /\ kvFree' = kvFree \cup Doubled(row, r, ids)
  <2>1. ids = SubSeq(Ids(r), 1, req[r].fill) /\ row = reqToToken[req[r].row]
    OBVIOUS
  <2> HIDE DEF ids, row
  <2> QED
    BY <1>1, <2>1, CacheUnfinishedValues
<1>4. AllBut(rest, Own, r)
  BY DEF AllBut, Own
<1>5. Partition(kvFree', tree_cache'.value, rest) /\ Agree(tree_cache, tree_cache')
  <2>1. \A i \in 1..n : row[i] = reqToToken[req[r].row][i]
    OBVIOUS
  <2> HIDE DEF rest, ids, row
  <2> QED
    BY <1>2, <1>3, <1>4, <2>1, CachedSlotsMove
<1>6. req'[r].prefix = SlotsOf(grown, ids)
  <2>1. "prefix" \in DOMAIN req[r] /\ "node" \in DOMAIN req[r]
    BY <1>1, ReqFields DEF BatchTypes
  <2> QED
    BY <2>1 DEF CachedAs
<1>7. Len(req'[r].prefix) = n /\ n \in Nat
  <2> HIDE DEF ids, grown
  <2> QED
    BY <1>2, <1>6, SlotsLen
<1>8. Own' = [o \in RowHolders |-> Own'[o]] /\ \A o \in RowHolders \ {r} : Own'[o] = Own[o]
  <2>1. \A o \in RowHolders \ {r} : Own'[o] = Own[o]
    BY OwnSame
  <2>2. Own' = [o \in RowHolders' |-> Own'[o]]
    BY DEF Own
  <2> QED
    BY <2>1, <2>2
<1>9. SlotsApart'
  <2> DEFINE own == Own'
  <2>1. DOMAIN own[r] = {}
    <3>1. DOMAIN own[r] = (Len(req'[r].prefix) + 1)..req'[r].seq
      BY DEF Own, PastPrefix
    <3> QED
      BY <1>7, <3>1
  <2>2. AllBut(rest, own, r)
    BY <1>8 DEF AllBut
  <2> HIDE DEF own, rest
  <2>3. Partition(kvFree', tree_cache'.value, own)
    BY <1>5, <2>1, <2>2, OwnsNothing
  <2> QED
    BY <2>3 DEF own, SlotsApart
<1>10. RowsApart'
  BY DEF Memory, RowsApart, SameUse
<1>11. RowsWritten'
  <2>1. /\ row \in [1..n -> Slots] /\ k \in Nat /\ k <= n /\ \A i \in 1..k : row[i] = req[r].prefix[i]
        /\ req[r].prefix = SlotsOf(tree_cache, node) /\ Len(node) = k
    BY <1>1, PrefixLen DEF Memory, RowsWritten, OwnTokens
  <2>2. req[r].row \in DOMAIN reqToToken
    BY DEF Memory, RowsApart, TableTyped
  <2>3. reqToToken'[req[r].row] = [i \in DOMAIN row |-> IF i \in (k + 1)..Len(ids) THEN SlotsOf(grown, ids)[i] ELSE row[i]]
    BY <2>2 DEF CacheUnfinished
  <2>4. DOMAIN row = 1..n
    BY <2>1
  <2>5. ASSUME NEW i \in 1..n PROVE SlotsOf(grown, ids)[i] = grown.value[SubSeq(ids, 1, i)] /\ SlotsOf(grown, ids)[i] \in Slots
    <3>1. SubSeq(ids, 1, i) \in Heads(ids)
      BY <1>2 DEF Heads
    <3>2. Heads(ids) \subseteq DOMAIN grown.value
      <4> HIDE DEF ids, row
      <4> QED
        BY <1>2, InsertRadix DEF TreeTyped
    <3>3. SlotsOf(grown, ids)[i] = grown.value[SubSeq(ids, 1, i)]
      BY <1>2 DEF SlotsOf
    <3>4. \A p \in DOMAIN grown.value : grown.value[p] \in Slots
      BY <1>3, <1>5 DEF Partition
    <3> HIDE DEF ids, grown
    <3> QED
      BY <3>1, <3>2, <3>3, <3>4
  <2>6. ASSUME NEW i \in 1..k PROVE row[i] = SlotsOf(grown, ids)[i]
    <3>1. SubSeq(node, 1, i) = SubSeq(ids, 1, i)
      <4>1. i \in 1..Len(node)
        BY <2>1
      <4> HIDE DEF ids, node
      <4> QED
        BY <1>2, <4>1, SameHead
    <3>2. row[i] = tree_cache.value[SubSeq(node, 1, i)]
      BY <2>1 DEF SlotsOf
    <3>3. node \in tree_cache.nodes
      <4>1. node \in tree_cache.nodes \cup {<<>>}
        BY <1>1 DEF LocksHeld, Locked, Nodes
      <4>2. node # <<>>
        BY <2>1
      <4> QED
        BY <4>1, <4>2
    <3>4. SubSeq(node, 1, i) \in DOMAIN tree_cache.value
      <4>1. SubSeq(node, 1, i) \in Heads(node)
        BY <2>1 DEF Heads
      <4> QED
        BY <3>3, <4>1 DEF TreeTyped, IsRadix
    <3>5. \A p \in DOMAIN tree_cache.value : grown.value[p] = tree_cache.value[p]
      <4> HIDE DEF ids, row
      <4> QED
        BY <1>2, InsertValues DEF TreeTyped
    <3>6. i \in 1..n
      BY <1>7, <2>1
    <3> HIDE DEF ids, grown, node, row
    <3> QED
      BY <2>5, <3>1, <3>2, <3>4, <3>5, <3>6
  <2> DEFINE s == SlotsOf(grown, ids)
             new == reqToToken'[req[r].row]
  <2>7. \A i \in 1..n : new[i] = s[i]
    <3> TAKE i \in 1..n
    <3>1. new[i] = IF i \in (k + 1)..Len(ids) THEN s[i] ELSE row[i]
      BY <2>3, <2>4
    <3>2. i \in (k + 1)..Len(ids) \/ i \in 1..k
      BY <1>2, <1>7, <2>1
    <3> QED
      BY <2>6, <3>1, <3>2
  <2>8. new \in [1..n -> Slots]
    <3>1. DOMAIN new = 1..n /\ new = [i \in DOMAIN new |-> new[i]]
      BY <2>3, <2>4
    <3> HIDE DEF new, s
    <3> QED
      BY <2>5, <2>7, <3>1 DEF s
  <2>9. \A o \in RowHolders \ {r} :
          /\ req'[o].seq \in Nat /\ reqToToken'[req'[o].row] \in [1..req'[o].seq -> Slots] /\ Len(req'[o].prefix) <= req'[o].seq
          /\ \A i \in 1..Len(req'[o].prefix) : reqToToken'[req'[o].row][i] = req'[o].prefix[i]
    BY RowSame DEF Memory
  <2>10. /\ req'[r].seq \in Nat /\ reqToToken'[req'[r].row] \in [1..req'[r].seq -> Slots] /\ Len(req'[r].prefix) <= req'[r].seq
         /\ \A i \in 1..Len(req'[r].prefix) : reqToToken'[req'[r].row][i] = req'[r].prefix[i]
    <3> HIDE DEF s, ids, grown
    <3> QED
      BY <1>6, <1>7, <2>7, <2>8 DEF s
  <2> QED
    BY <2>9, <2>10 DEF RowsWritten
<1> QED
  BY <1>5, <1>9, <1>10, <1>11 DEF Memory

-------------------------------------------------------------------------------
(* Allocating                                                              *)

\* The places C are the new ones, and c of them gets the slot that locs has at at[c].
NewAt(own, more, C, at, locs) ==
  /\ \A r \in DOMAIN own : r \in DOMAIN more /\ \A i \in DOMAIN own[r] : i \in DOMAIN more[r] /\ more[r][i] = own[r][i]
  /\ \A r, i : IsNew(own, more, r, i) <=> <<r, i>> \in C
  /\ \A c \in C : c = <<c[1], c[2]>> /\ more[c[1]][c[2]] = locs[at[c]]

\* As many slots as places, each to one place: the places get them all.
LEMMA GrownBy ==
  ASSUME NEW own, NEW more, NEW C, NEW at, NEW n \in Nat, NEW locs, NEW F, DOMAIN locs = 1..n, Once(locs, 1..n, F),
         Once(at, C, 1..n), Cardinality(C) = n, NewAt(own, more, C, at, locs)
  PROVE  Grown(own, more, Range(locs)) /\ Range(locs) \subseteq F
<1>1. Range(locs) = {locs[t] : t \in 1..n} /\ Range(locs) \subseteq F
  BY DEF Range, Once
<1>2. \A t \in 1..n : \E c \in C : at[c] = t
  <2> DEFINE T == 1..n
  <2>1. IsFiniteSet(T) /\ Cardinality(T) = n /\ Once(at, C, T)
    BY FS_Interval
  <2> HIDE DEF T
  <2>2. \A t \in T : \E c \in C : at[c] = t
    BY <2>1, ImageIsAll
  <2> QED
    BY <2>2 DEF T
<1>3. \A c \in C : at[c] \in 1..n
  BY DEF Once
<1>4. ASSUME NEW r, NEW i, IsNew(own, more, r, i)
      PROVE  <<r, i>> \in C /\ at[<<r, i>>] \in 1..n /\ more[r][i] = locs[at[<<r, i>>]]
  <2>1. <<r, i>> \in C
    BY <1>4 DEF NewAt
  <2>2. more[<<r, i>>[1]][<<r, i>>[2]] = locs[at[<<r, i>>]]
    BY <2>1 DEF NewAt
  <2> QED
    BY <1>3, <2>1, <2>2
<1>5. ASSUME NEW r, NEW s, NEW i, NEW j, IsNew(own, more, r, i), IsNew(own, more, s, j), more[r][i] = more[s][j]
      PROVE  r = s /\ i = j
  <2>1. /\ <<r, i>> \in C /\ at[<<r, i>>] \in 1..n /\ <<s, j>> \in C /\ at[<<s, j>>] \in 1..n
        /\ locs[at[<<r, i>>]] = locs[at[<<s, j>>]]
    BY <1>4, <1>5
  <2>2. at[<<r, i>>] = at[<<s, j>>]
    BY <2>1 DEF Once
  <2>3. <<r, i>> = <<s, j>>
    BY <2>1, <2>2 DEF Once
  <2> QED
    BY <2>3
<1>6. ASSUME NEW x \in Range(locs) PROVE \E r, i : IsNew(own, more, r, i) /\ more[r][i] = x
  <2>1. PICK t \in 1..n : locs[t] = x
    BY <1>1
  <2>2. PICK c \in C : at[c] = t
    BY <1>2
  <2>3. c = <<c[1], c[2]>> /\ more[c[1]][c[2]] = x
    BY <2>1, <2>2 DEF NewAt
  <2>4. <<c[1], c[2]>> \in C
    BY <2>3
  <2>5. IsNew(own, more, c[1], c[2])
    BY <2>4 DEF NewAt
  <2> QED
    BY <2>3, <2>5
<1>7. \A r \in DOMAIN own : r \in DOMAIN more /\ \A i \in DOMAIN own[r] : i \in DOMAIN more[r] /\ more[r][i] = own[r][i]
  BY DEF NewAt
<1>8. ASSUME NEW r, NEW i, IsNew(own, more, r, i) PROVE more[r][i] \in Range(locs)
  <2>1. more[r][i] = locs[at[<<r, i>>]] /\ at[<<r, i>>] \in 1..n
    BY <1>4, <1>8
  <2> QED
    BY <1>1, <2>1
<1> QED
  BY <1>1, <1>5, <1>6, <1>7, <1>8 DEF Grown

\* Rows free and rows held are all there are.
LEMMA RowsCount ==
  ASSUME RowsApart
  PROVE  /\ IsFiniteSet(rowFree) /\ IsFiniteSet(RowHolders) /\ Cardinality(rowFree) \in Nat /\ Cardinality(RowHolders) \in Nat
         /\ Cardinality(rowFree) + Cardinality(RowHolders) = MaxRunning
         /\ rowFree \cup {req[r].row : r \in RowHolders} = Rows
<1> DEFINE f == [r \in RowHolders |-> req[r].row]
           I == {f[r] : r \in RowHolders}
<1>1. IsFiniteSet(Rows) /\ Cardinality(Rows) = MaxRunning
  BY EngineAssumption, FS_Interval DEF Rows
<1>2. I = {req[r].row : r \in RowHolders}
  OBVIOUS
<1>3. I \cap rowFree = {} /\ I \cup rowFree = Rows
  BY <1>2 DEF RowsApart
<1>4. Once(f, RowHolders, Rows)
  BY DEF RowsApart, Once
<1> HIDE DEF f
<1>5. IsFiniteSet(RowHolders) /\ IsFiniteSet(I) /\ Cardinality(RowHolders) = Cardinality(I)
  BY <1>1, <1>4, ImageCount
<1> HIDE DEF I
<1>6. IsFiniteSet(rowFree)
  BY <1>1, <1>3, FS_Subset
<1>7. Cardinality(rowFree \cup I) = Cardinality(rowFree) + Cardinality(I) /\ Cardinality(rowFree) \in Nat /\ Cardinality(I) \in Nat
  BY <1>3, <1>5, <1>6, CountApart
<1>8. rowFree \cup I = Rows
  BY <1>3
<1>9. Cardinality(rowFree) + Cardinality(RowHolders) = MaxRunning
  BY <1>1, <1>5, <1>7, <1>8
<1> QED
  BY <1>2, <1>5, <1>6, <1>7, <1>8, <1>9

\* The free slots are a finite set of numbers.
LEMMA FreeSlots ==
  ASSUME Memory
  PROVE  kvFree \subseteq Slots /\ kvFree \subseteq Int /\ IsFiniteSet(kvFree) /\ Cardinality(kvFree) \in Nat
<1>1. kvFree \subseteq Slots /\ Slots \subseteq Int /\ IsFiniteSet(Slots)
  BY EngineAssumption, FS_Interval DEF Slots, Memory, SlotsApart, Partition
<1> QED
  BY <1>1, FS_Subset, FS_CardinalityType

\* check_decode_mem leaves a slot for each running request.
DecodeRoom == pc = "jump" => Cardinality(running) <= Cardinality(kvFree)

\* Each running request has one slot more.
LEMMA PrepareForDecodeMemory ==
  ASSUME BatchTypes, Loop, Apart, Memory, TableTyped, DecodeRoom, PrepareForDecode
  PROVE  Memory'
<1> DEFINE n == Cardinality(running)
           locs == Lowest(kvFree, n)
           h == [r \in running |-> req[r].row]
           C == {<<r, req[r].seq + 1>> : r \in running}
           at == [c \in C |-> Rank(running, h, c[1]) + 1]
           Mine(r) == locs[Rank(running, h, r) + 1]
<1>1. /\ pc = "jump" /\ pc' = "process" /\ batch'.reqs = running
      /\ UNCHANGED <<tree_cache, rowFree, finished, running, last>> /\ kvFree' = kvFree \ Range(locs)
      /\ req' = [r \in Requests |-> IF r \in running THEN [req[r] EXCEPT !.seq = @ + 1] ELSE req[r]]
  BY DEF PrepareForDecode
<1>2. RowHolders = running /\ RowHolders' = running
  BY <1>1 DEF RowHolders, Apart, Loop, NoBatch
<1>3. IsFiniteSet(running) /\ n \in Nat /\ n <= Cardinality(kvFree)
  <2>1. IsFiniteSet(running)
    BY <1>2, RowsCount DEF Memory
  <2> QED
    BY <1>1, <2>1, FS_CardinalityType DEF DecodeRoom
<1>4. Once(h, running, Int) /\ \A r \in running : req[r].row \in Rows /\ \A s \in running : req[r].row = req[s].row => r = s
  <2>1. Rows \subseteq Int
    BY DEF Rows
  <2> QED
    BY <1>2, <2>1 DEF Once, Memory, RowsApart
<1>5. ASSUME NEW r \in running PROVE reqToToken'[req[r].row] = Append(reqToToken[req[r].row], Mine(r))
  <2> DEFINE MineOf(x) == locs[Cardinality({s \in running : req[s].row < req[x].row}) + 1]
  <2>1. reqToToken' = [w \in Rows |->
          LET mine == {x \in running : req[x].row = w}
          IN  IF mine = {} THEN reqToToken[w] ELSE Append(reqToToken[w], MineOf(CHOOSE x \in mine : TRUE))]
    BY DEF PrepareForDecode
  <2>2. {s \in running : h[s] < h[r]} = {s \in running : req[s].row < req[r].row}
    OBVIOUS
  <2>3. MineOf(r) = Mine(r)
    BY <2>2 DEF Rank
  <2> HIDE DEF MineOf, Mine
  <2>4. {x \in running : req[x].row = req[r].row} = {r}
    BY <1>4
  <2>5. (CHOOSE x \in {r} : TRUE) = r
    OBVIOUS
  <2>6. req[r].row \in Rows
    BY <1>4
  <2> QED
    BY <2>1, <2>3, <2>4, <2>5, <2>6
<1>6. ASSUME NEW r \in running
      PROVE  req'[r].prefix = req[r].prefix /\ req'[r].row = req[r].row /\ req'[r].seq = req[r].seq + 1
  <2>1. r \in Requests
    BY DEF BatchTypes
  <2> QED
    BY <1>1, <2>1, ReqFields
<1>7. DOMAIN locs = 1..n /\ Once(locs, 1..n, kvFree)
  BY <1>3, FreeSlots, LowestAre DEF Once
<1>8. ASSUME NEW r \in running PROVE Rank(running, h, r) + 1 \in 1..n
  <2> HIDE DEF h
  <2>1. Rank(running, h, r) \in 0..(n - 1)
    BY <1>3, <1>4, Ranks
  <2> QED
    BY <1>3, <2>1
<1>9. \A c \in C : c[1] \in running /\ c = <<c[1], req[c[1]].seq + 1>>
  OBVIOUS
<1>10. Once(at, C, 1..n)
  <2>1. \A c \in C : at[c] \in 1..n
    BY <1>8, <1>9
  <2>2. ASSUME NEW c \in C, NEW d \in C, at[c] = at[d] PROVE c = d
    <3>1. Rank(running, h, c[1]) \in Int /\ Rank(running, h, d[1]) \in Int
      <4> HIDE DEF h
      <4> QED
        BY <1>3, <1>4, <1>9, Ranks
    <3>2. Rank(running, h, c[1]) = Rank(running, h, d[1])
      BY <2>2, <3>1
    <3>3. c[1] = d[1]
      <4> HIDE DEF h
      <4> QED
        BY <1>3, <1>4, <1>9, <3>2, Ranks
    <3> QED
      BY <1>9, <3>3
  <2> QED
    BY <2>1, <2>2 DEF Once
<1>11. Cardinality(C) = n
  <2> DEFINE g == [c \in C |-> c[1]]
  <2>1. Once(g, C, running)
    BY <1>9 DEF Once
  <2>2. {g[c] : c \in C} = running
    <3>1. \A r \in running : <<r, req[r].seq + 1>> \in C /\ g[<<r, req[r].seq + 1>>] = r
      OBVIOUS
    <3>2. \A c \in C : g[c] \in running
      BY <2>1 DEF Once
    <3> HIDE DEF g, C
    <3> QED
      BY <3>1, <3>2
  <2> HIDE DEF g, C
  <2> QED
    BY <1>3, <2>1, <2>2, ImageCount
<1>12. ASSUME NEW r \in running
       PROVE  LET w == reqToToken[req[r].row]
                  m == req[r].seq
                  v == reqToToken'[req'[r].row]
              IN  /\ m \in Nat /\ Len(req[r].prefix) \in Nat /\ Len(req[r].prefix) <= m
                  /\ DOMAIN v = 1..(m + 1) /\ (\A i \in 1..m : v[i] = w[i] /\ v[i] \in Slots)
                  /\ v[m + 1] = Mine(r) /\ v[m + 1] \in kvFree
  <2> DEFINE w == reqToToken[req[r].row]
             m == req[r].seq
             x == Mine(r)
             v == Append(w, x)
  <2>1. w \in Seq(Slots) /\ Len(w) = m /\ m \in Nat /\ Len(req[r].prefix) <= m
    BY <1>2, RowIs DEF Memory, RowsWritten
  <2>2. Len(req[r].prefix) \in Nat
    BY DEF BatchTypes, ReqTyped
  <2>3. x \in kvFree /\ kvFree \subseteq Slots
    BY <1>7, <1>8, FreeSlots DEF Once
  <2>4. reqToToken'[req'[r].row] = v
    BY <1>5, <1>6
  <2> HIDE DEF w, m, x
  <2>5. v \in Seq(Slots) /\ Len(v) = m + 1 /\ (\A i \in 1..m : v[i] = w[i]) /\ v[m + 1] = x
    BY <2>1, <2>3, AppendProperties
  <2> HIDE DEF v
  <2>6. DOMAIN v = 1..(m + 1) /\ \A i \in 1..m : v[i] \in Slots
    BY <2>1, <2>5
  <2> QED
    BY <2>1, <2>2, <2>3, <2>4, <2>5, <2>6 DEF w, m, x
<1> HIDE DEF h, Mine, locs
<1>13. NewAt(Own, Own', C, at, locs)
  <2> DEFINE more == Own'
  <2>1. DOMAIN Own = running /\ DOMAIN more = running
    BY <1>2 DEF Own
  <2>2. ASSUME NEW r \in running
        PROVE  /\ DOMAIN Own[r] = (Len(req[r].prefix) + 1)..req[r].seq
               /\ DOMAIN more[r] = (Len(req[r].prefix) + 1)..(req[r].seq + 1)
               /\ \A i \in DOMAIN Own[r] : Own[r][i] = reqToToken[req[r].row][i]
               /\ \A i \in DOMAIN more[r] : more[r][i] = reqToToken'[req'[r].row][i]
    BY <1>2, <1>6 DEF Own, PastPrefix
  <2> HIDE DEF more
  <2>3. \A r \in DOMAIN Own : r \in DOMAIN more /\ \A i \in DOMAIN Own[r] : i \in DOMAIN more[r] /\ more[r][i] = Own[r][i]
    <3> TAKE r \in DOMAIN Own
    <3>1. r \in running
      BY <2>1
    <3>2. ASSUME NEW i \in DOMAIN Own[r] PROVE i \in DOMAIN more[r] /\ more[r][i] = Own[r][i]
      <4>1. i \in 1..req[r].seq /\ i \in DOMAIN more[r]
        BY <1>12, <2>2, <3>1
      <4> QED
        BY <1>12, <2>2, <3>1, <4>1
    <3> QED
      BY <2>1, <3>2
  <2>4. ASSUME NEW r, NEW i PROVE IsNew(Own, more, r, i) <=> <<r, i>> \in C
    <3>1. CASE r \in running
      <4>1. IsNew(Own, more, r, i) <=> i = req[r].seq + 1
        <5>1. Len(req[r].prefix) \in Nat /\ req[r].seq \in Nat /\ Len(req[r].prefix) <= req[r].seq
          BY <1>12, <3>1
        <5> QED
          BY <2>1, <2>2, <3>1, <5>1 DEF IsNew
      <4> QED
        BY <3>1, <4>1
    <3>2. CASE r \notin running
      BY <2>1, <3>2 DEF IsNew
    <3> QED
      BY <3>1, <3>2
  <2>5. ASSUME NEW c \in C PROVE c = <<c[1], c[2]>> /\ more[c[1]][c[2]] = locs[at[c]]
    <3>1. c[1] \in running /\ c[2] = req[c[1]].seq + 1 /\ c = <<c[1], c[2]>> /\ at[c] = Rank(running, h, c[1]) + 1
      BY <1>9
    <3>2. c[2] \in DOMAIN more[c[1]]
      BY <1>12, <2>2, <3>1
    <3>3. more[c[1]][c[2]] = Mine(c[1])
      BY <1>12, <2>2, <3>1, <3>2
    <3> QED
      BY <3>1, <3>3 DEF Mine
  <2>6. NewAt(Own, more, C, at, locs)
    <3> HIDE DEF C, at
    <3> QED
      BY <2>3, <2>4, <2>5 DEF NewAt
  <2> QED
    BY <2>6 DEF more
<1>14. SlotsApart'
  <2> HIDE DEF C, at, n
  <2> DEFINE more == Own'
  <2>1. NewAt(Own, more, C, at, locs)
    BY <1>13
  <2> HIDE DEF more
  <2>2. Grown(Own, more, Range(locs)) /\ Range(locs) \subseteq kvFree
    BY <1>3, <1>7, <1>10, <1>11, <2>1, GrownBy
  <2>3. Partition(kvFree, tree_cache.value, Own)
    BY DEF Memory, SlotsApart
  <2>4. Partition(kvFree \ Range(locs), tree_cache.value, more)
    BY <2>2, <2>3, Allocate
  <2> QED
    BY <1>1, <2>4 DEF SlotsApart, more
<1>15. RowsApart'
  BY <1>1, <1>2, <1>6 DEF Memory, RowsApart
<1>16. RowsWritten'
  <2> SUFFICES ASSUME NEW r \in running
               PROVE  /\ req'[r].seq \in Nat /\ reqToToken'[req'[r].row] \in [1..req'[r].seq -> Slots]
                      /\ Len(req'[r].prefix) <= req'[r].seq
                      /\ \A i \in 1..Len(req'[r].prefix) : reqToToken'[req'[r].row][i] = req'[r].prefix[i]
    BY <1>2 DEF RowsWritten
  <2> DEFINE v == reqToToken'[req'[r].row]
             m == req[r].seq
             p == req[r].prefix
  <2>1. /\ m \in Nat /\ Len(p) \in Nat /\ Len(p) <= m /\ DOMAIN v = 1..(m + 1)
        /\ (\A i \in 1..m : v[i] = reqToToken[req[r].row][i] /\ v[i] \in Slots) /\ v[m + 1] \in Slots
    BY <1>12, FreeSlots
  <2>2. v = [i \in 1..(m + 1) |-> v[i]]
    BY <1>4, <1>5, <1>6, <2>1
  <2>3. \A i \in 1..Len(p) : reqToToken[req[r].row][i] = p[i]
    BY <1>2 DEF Memory, RowsWritten
  <2> HIDE DEF v, m, p
  <2>4. v \in [1..(m + 1) -> Slots]
    <3>1. \A i \in 1..(m + 1) : i \in 1..m \/ i = m + 1
      BY <2>1
    <3> QED
      BY <2>1, <2>2, <3>1
  <2>5. \A i \in 1..Len(p) : v[i] = p[i]
    BY <2>1, <2>3
  <2>6. req'[r].seq = m + 1 /\ req'[r].prefix = p /\ m + 1 \in Nat /\ Len(p) <= m + 1
    BY <1>6, <2>1 DEF m, p
  <2> QED
    BY <2>4, <2>5, <2>6 DEF v
<1> QED
  BY <1>14, <1>15, <1>16 DEF Memory

\* A batch is prepared: the requests added, each once, fit the rows, the adder has counted the tokens they bring, and all
\* but one in flight bring all they have left.  Once a request is in flight there is nothing left of the chunk.
Added ==
  /\ IsInjective(adder.canRun)
  /\ pc \in {"adding", "extend"} => Cardinality(running) + Len(adder.canRun) <= MaxRunning
  /\ adder.tokens = Cardinality(FreshOf(Range(adder.canRun)))
  /\ \A r \in Range(adder.canRun) : /\ Len(req[r].prefix) <= req[r].fill
                                    /\ r \notin {inflight, adder.inflight} => req[r].fill = Len(Ids(r))
  /\ pc = "adding" /\ (inflight # None \/ adder.inflight # None) => adder.chunk <= 0
  /\ adder.inflight # None => inflight = None

\* The fresh tokens of one request.
LEMMA FreshOne ==
  ASSUME BatchTypes, NEW r \in Requests
  PROVE  /\ IsFiniteSet({r} \X Fresh(r)) /\ Cardinality({r} \X Fresh(r)) = Cardinality(Fresh(r)) /\ Cardinality(Fresh(r)) \in Nat
         /\ Len(req[r].prefix) <= req[r].fill => Cardinality(Fresh(r)) = req[r].fill - Len(req[r].prefix)
<1> DEFINE a == Len(req[r].prefix) + 1
           b == req[r].fill
<1>1. a \in Int /\ b \in Int
  <2> DEFINE k == Len(req[r].prefix)
  <2>1. k \in Nat /\ b \in Int
    BY DEF BatchTypes, ReqTyped
  <2> HIDE DEF k
  <2>2. k + 1 \in Int
    BY <2>1
  <2> QED
    BY <2>1, <2>2 DEF k
<1>2. Fresh(r) = a..b
  BY DEF Fresh
<1> HIDE DEF a, b
<1>3. IsFiniteSet(a..b) /\ Cardinality(a..b) = IF a > b THEN 0 ELSE b - a + 1
  BY <1>1, FS_Interval
<1>4. IsFiniteSet({r}) /\ Cardinality({r}) = 1
  BY FS_Singleton
<1>5. IsFiniteSet({r} \X (a..b)) /\ Cardinality({r} \X (a..b)) = Cardinality({r}) * Cardinality(a..b) /\ Cardinality(a..b) \in Nat
  BY <1>3, <1>4, FS_Product, FS_CardinalityType
<1>6. Cardinality({r} \X (a..b)) = Cardinality(a..b)
  BY <1>4, <1>5
<1>7. a <= b + 1 => Cardinality(a..b) = b - a + 1
  BY <1>1, <1>3
<1>8. Len(req[r].prefix) \in Nat
  BY DEF BatchTypes, ReqTyped
<1> QED
  BY <1>1, <1>2, <1>5, <1>6, <1>7, <1>8 DEF a, b

\* Those of several requests are finitely many.
LEMMA FreshFinite ==
  ASSUME BatchTypes, NEW R \in SUBSET Requests, IsFiniteSet(R)
  PROVE  IsFiniteSet(FreshOf(R)) /\ Cardinality(FreshOf(R)) \in Nat
<1> DEFINE A == {{r} \X Fresh(r) : r \in R}
           f == [r \in R |-> {r} \X Fresh(r)]
<1>1. f \in Surjection(R, A)
  BY DEF Surjection
<1> HIDE DEF f
<1>2. IsFiniteSet(A)
  <2> HIDE DEF A
  <2> QED
    BY <1>1, FS_Surjection
<1>3. \A a \in A : IsFiniteSet(a)
  BY FreshOne
<1>4. FreshOf(R) = UNION A
  BY DEF FreshOf
<1> HIDE DEF A
<1>5. IsFiniteSet(UNION A)
  BY <1>2, <1>3, FS_UNION
<1> QED
  BY <1>4, <1>5, FS_CardinalityType

\* Each request adds its own.
LEMMA FreshMore ==
  ASSUME BatchTypes, NEW R \in SUBSET Requests, IsFiniteSet(R), NEW r \in Requests \ R
  PROVE  Cardinality(FreshOf(R \cup {r})) = Cardinality(FreshOf(R)) + Cardinality(Fresh(r))
<1> DEFINE A == FreshOf(R)
           B == {r} \X Fresh(r)
<1>1. FreshOf(R \cup {r}) = A \cup B
  BY DEF FreshOf
<1>2. A \cap B = {}
  BY DEF FreshOf
<1>3. IsFiniteSet(A) /\ IsFiniteSet(B) /\ Cardinality(B) = Cardinality(Fresh(r))
  BY FreshFinite, FreshOne
<1> HIDE DEF A, B
<1> QED
  BY <1>1, <1>2, <1>3, CountApart DEF A

\* Where in a batch the fresh tokens of a request begin, and each of them is: the requests in the order of h.
FirstOf(Q, h, r) == Cardinality(FreshOf({x \in Q : h[x] < h[r]}))
PlaceOf(Q, h) == [c \in FreshOf(Q) |-> FirstOf(Q, h, c[1]) + c[2] - Len(req[c[1]].prefix)]

\* What precedes a request in a batch, with its own, is no more than all, nor than what precedes a later one.
LEMMA FirstBefore ==
  ASSUME BatchTypes, NEW Q \in SUBSET Requests, IsFiniteSet(Q), NEW h, NEW r \in Q, h[r] \in Int,
         NEW R, R \subseteq Q, \A x \in Q : h[x] \in Int /\ (h[x] <= h[r] => x \in R)
  PROVE  /\ FirstOf(Q, h, r) \in Nat /\ FirstOf(Q, h, r) + Cardinality(Fresh(r)) <= Cardinality(FreshOf(R))
         /\ Cardinality(FreshOf(R)) \in Nat
<1> DEFINE P == {x \in Q : h[x] < h[r]}
<1>1. P \in SUBSET Requests /\ r \in Requests \ P /\ P \cup {r} \subseteq R /\ R \in SUBSET Requests
  OBVIOUS
<1>2. IsFiniteSet(P) /\ IsFiniteSet(R)
  BY FS_Subset
<1>3. FirstOf(Q, h, r) = Cardinality(FreshOf(P))
  BY DEF FirstOf
<1> HIDE DEF P
<1>4. FirstOf(Q, h, r) \in Nat /\ Cardinality(FreshOf(P \cup {r})) = FirstOf(Q, h, r) + Cardinality(Fresh(r))
  BY <1>1, <1>2, <1>3, FreshFinite, FreshMore
<1>5. FreshOf(P \cup {r}) \subseteq FreshOf(R)
  BY <1>1 DEF FreshOf
<1>6. Cardinality(FreshOf(P \cup {r})) <= Cardinality(FreshOf(R)) /\ Cardinality(FreshOf(R)) \in Nat
  <2>1. IsFiniteSet(FreshOf(R)) /\ Cardinality(FreshOf(R)) \in Nat
    BY <1>1, <1>2, FreshFinite
  <2> QED
    BY <1>5, <2>1, FS_Subset
<1> QED
  BY <1>4, <1>6

\* The fresh tokens of a batch take places of their own, and no more than there are tokens.
LEMMA Places ==
  ASSUME BatchTypes, NEW Q \in SUBSET Requests, IsFiniteSet(Q), NEW h, Once(h, Q, Int)
  PROVE  Once(PlaceOf(Q, h), FreshOf(Q), 1..Cardinality(FreshOf(Q)))
<1> DEFINE C == FreshOf(Q)
           at == PlaceOf(Q, h)
<1>1. ASSUME NEW c \in C
      PROVE  /\ c[1] \in Q /\ c = <<c[1], c[2]>>
             /\ at[c] \in Int /\ FirstOf(Q, h, c[1]) \in Nat /\ Cardinality(Fresh(c[1])) \in Nat
             /\ at[c] = FirstOf(Q, h, c[1]) + c[2] - Len(req[c[1]].prefix) /\ c[2] \in Int /\ Len(req[c[1]].prefix) \in Nat
             /\ at[c] > FirstOf(Q, h, c[1]) /\ at[c] <= FirstOf(Q, h, c[1]) + Cardinality(Fresh(c[1]))
  <2>1. c[1] \in Q /\ c[2] \in Fresh(c[1]) /\ c = <<c[1], c[2]>>
    BY DEF FreshOf
  <2> DEFINE k == Len(req[c[1]].prefix)
             f == req[c[1]].fill
             a == FirstOf(Q, h, c[1])
             l == Cardinality(Fresh(c[1]))
  <2>2. k \in Nat /\ f \in Int
    BY <2>1 DEF BatchTypes, ReqTyped
  <2>3. c[2] \in (k + 1)..f
    BY <2>1 DEF Fresh
  <2>4. a \in Nat
    <3> DEFINE P == {x \in Q : h[x] < h[c[1]]}
    <3>1. P \in SUBSET Requests /\ IsFiniteSet(P)
      BY FS_Subset
    <3> HIDE DEF P
    <3> QED
      BY <3>1, FreshFinite DEF FirstOf, P
  <2>5. at[c] = a + c[2] - k
    BY DEF PlaceOf
  <2>6. l = f - k /\ l \in Nat
    <3>1. k <= f
      BY <2>2, <2>3
    <3> QED
      BY <2>1, <3>1, FreshOne
  <2> HIDE DEF k, f, a, l, at
  <2>7. at[c] \in Int /\ c[2] \in Int /\ at[c] > a /\ at[c] <= a + l
    BY <2>2, <2>3, <2>4, <2>5, <2>6
  <2> QED
    BY <2>1, <2>2, <2>4, <2>5, <2>6, <2>7 DEF k, a, l
<1>2. \A x \in Q : h[x] \in Int
  BY DEF Once
<1>3. ASSUME NEW c \in C PROVE at[c] \in 1..Cardinality(C)
  <2>1. FirstOf(Q, h, c[1]) + Cardinality(Fresh(c[1])) <= Cardinality(C) /\ Cardinality(C) \in Nat
    BY <1>1, <1>2, FirstBefore
  <2> HIDE DEF C, at
  <2> QED
    BY <1>1, <2>1
<1>4. ASSUME NEW c \in C, NEW d \in C, h[c[1]] < h[d[1]] PROVE at[c] < at[d]
  <2> DEFINE R == {x \in Q : h[x] < h[d[1]]}
  <2>1. FirstOf(Q, h, d[1]) = Cardinality(FreshOf(R))
    BY DEF FirstOf
  <2>2. R \subseteq Q /\ \A x \in Q : h[x] \in Int /\ (h[x] <= h[c[1]] => x \in R)
    BY <1>1, <1>2, <1>4
  <2> HIDE DEF R
  <2>3. FirstOf(Q, h, c[1]) + Cardinality(Fresh(c[1])) <= FirstOf(Q, h, d[1])
    BY <1>1, <1>2, <2>1, <2>2, FirstBefore
  <2> HIDE DEF at, C
  <2> QED
    BY <1>1, <2>3
<1>5. ASSUME NEW c \in C, NEW d \in C, at[c] = at[d] PROVE c = d
  <2>1. at[c] \in Int /\ at[d] \in Int /\ c[1] \in Q /\ d[1] \in Q
    BY <1>1
  <2>2. h[c[1]] = h[d[1]]
    <3> HIDE DEF at, C
    <3> QED
      BY <1>2, <1>4, <1>5, <2>1
  <2>3. c[1] = d[1]
    BY <2>1, <2>2 DEF Once
  <2>4. c[2] = d[2]
    <3> HIDE DEF at, C
    <3> QED
      BY <1>1, <1>5, <2>3
  <2> QED
    BY <1>1, <2>3, <2>4
<1> HIDE DEF C, at
<1>6. Once(at, C, 1..Cardinality(C))
  BY <1>3, <1>5 DEF Once
<1> QED
  BY <1>6 DEF at, C

\* A holder's prefix, from the tree, is in slots.
LEMMA PrefixSlots ==
  ASSUME TreeTyped, BatchTypes, LocksHeld, OwnTokens, Memory, NEW r \in LockHolders
  PROVE  req[r].prefix \in Seq(Slots) /\ Len(req[r].prefix) \in Nat
<1> DEFINE node == req[r].node
           p == req[r].prefix
           k == Len(node)
<1>1. p = SlotsOf(tree_cache, node) /\ Len(p) = k /\ k \in Nat
  BY PrefixLen DEF OwnTokens
<1>2. node \in tree_cache.nodes \cup {<<>>}
  BY HoldersAre DEF LocksHeld, Locked
<1>3. p = [i \in 1..k |-> tree_cache.value[SubSeq(node, 1, i)]]
  BY <1>1 DEF SlotsOf
<1>4. ASSUME NEW i \in 1..k PROVE tree_cache.value[SubSeq(node, 1, i)] \in Slots
  <2>1. node # <<>> /\ SubSeq(node, 1, i) \in Heads(node)
    BY <1>1 DEF Heads
  <2>2. SubSeq(node, 1, i) \in DOMAIN tree_cache.value
    BY <1>2, <2>1 DEF TreeTyped, IsRadix
  <2> QED
    BY <2>2 DEF Memory, SlotsApart, Partition
<1>5. p \in [1..k -> Slots]
  BY <1>3, <1>4
<1> HIDE DEF p, k
<1>6. p \in Seq(Slots) /\ Len(p) \in Nat
  BY <1>1, <1>5
<1> QED
  BY <1>6 DEF p

\* A sequence is a function on as many places as it is long.
LEMMA SeqFunction ==
  ASSUME NEW S, NEW v, v \in Seq(S), NEW n, Len(v) = n
  PROVE  v \in [1..n -> S]
OBVIOUS

\* Two sequences in a row, the second a part of a longer one.
Joined(v, p, locs, a, l) == v = p \o SubSeq(locs, a + 1, a + l)
Followed(v, p, locs, a, l, S) ==
  /\ v \in [1..(Len(p) + l) -> S]
  /\ \A i \in 1..Len(p) : v[i] = p[i]
  /\ \A i \in (Len(p) + 1)..(Len(p) + l) : v[i] = locs[a + i - Len(p)]

\* Each is where it was.
LEMMA RowOf ==
  ASSUME NEW S, NEW p \in Seq(S), NEW locs, NEW need \in Nat, locs \in [1..need -> S], NEW a \in Nat, NEW l \in Nat, a + l <= need,
         NEW v, Joined(v, p, locs, a, l)
  PROVE  Followed(v, p, locs, a, l, S)
<1> DEFINE q == SubSeq(locs, a + 1, a + l)
           k == Len(p)
<1>1. locs \in Seq(S) /\ Len(locs) = need /\ k \in Nat
  OBVIOUS
<1>2. q \in Seq(S) /\ Len(q) = l /\ \A i \in 1..l : q[i] = locs[a + i]
  <2>1. \A i \in (a + 1)..(a + l) : locs[i] \in S
    BY <1>1
  <2>2. q \in Seq(S)
    BY <1>1, <2>1, SubSeqProperties
  <2>3. Len(q) = l
    BY <1>1, SubSeqProperties
  <2>4. \A i \in 1..l : q[i] = locs[a + 1 + i - 1]
    BY <1>1, SubSeqProperties
  <2>5. \A i \in 1..l : a + 1 + i - 1 = a + i
    OBVIOUS
  <2> QED
    BY <2>2, <2>3, <2>4, <2>5
<1>3. v = p \o q
  BY DEF Joined
<1> HIDE DEF q
<1> HIDE DEF k
<1>7. k = Len(p)
  BY DEF k
<1>8. /\ v \in Seq(S) /\ Len(v) = k + l
      /\ \A i \in 1..(k + l) : v[i] = IF i <= k THEN p[i] ELSE q[i - k]
  BY <1>2, <1>3, <1>7, ConcatProperties
<1>9. \A i \in 1..k : v[i] = p[i]
  BY <1>1, <1>8
<1>4. \A i \in 1..(k + l) : ~(i <= k) => v[i] = q[i - k]
  BY <1>8
<1>5. v \in [1..(k + l) -> S]
  BY <1>8, SeqFunction
<1>6. ASSUME NEW i \in (k + 1)..(k + l) PROVE v[i] = locs[a + i - k]
  <2>1. i \in 1..(k + l) /\ ~(i <= k) /\ i - k \in 1..l /\ a + (i - k) = a + i - k
    BY <1>1
  <2> QED
    BY <1>2, <1>4, <2>1
<1> QED
  BY <1>5, <1>6, <1>7, <1>9 DEF Followed

\* A batch that is prepared takes a row for each request added and a slot for each fresh token, after evicting for them.
LEMMA PrepareForExtendMemory ==
  ASSUME ~IsMixedChunk, TreeTyped, BatchTypes, Loop, Apart, LocksHeld, OwnTokens, Memory, Added, TableTyped, PrepareForExtend
  PROVE  Memory' /\ Agree(tree_cache, tree_cache')
<1> DEFINE run == adder.canRun
           n == Len(run)
           reqs == Range(run)
           rows == Lowest(rowFree, n)
           At(r) == CHOOSE i \in DOMAIN adder.canRun : adder.canRun[i] = r
           h == [r \in reqs |-> At(r)]
           C == FreshOf(reqs)
           at == PlaceOf(reqs, h)
           need == Cardinality(C)
           locs(N) == Lowest(FreeAfter(N), need)
           first(r) == FirstOf(reqs, h, r)
           Mine(N, r) == SubSeq(locs(N), first(r) + 1, first(r) + Cardinality(Fresh(r)))
<1>1. UNCHANGED <<finished, last>> /\ pc = "extend" /\ last.reqs = {}
  BY PrepareForExtendLeaves DEF Loop, NoBatch
<1>2. RowHolders = running \ finished /\ reqs \cap (running \cup finished) = {} /\ reqs \subseteq LockHolders /\ reqs \subseteq Requests
  BY <1>1, HoldersAre DEF RowHolders, Apart, LockHolders
<1>3. run \in Seq(arrived) /\ n \in Nat /\ DOMAIN run = 1..n
  <2>1. run \in Seq(arrived)
    BY DEF BatchTypes, AdderTyped
  <2> HIDE DEF run
  <2> QED
    BY <2>1
<1>4. /\ \A r \in reqs : At(r) \in 1..n /\ run[At(r)] = r
      /\ \A i \in 1..n : run[i] \in reqs /\ At(run[i]) = i
  <2>1. \A r \in reqs : \E i \in DOMAIN run : run[i] = r
    BY DEF Range
  <2>2. \A r \in reqs : At(r) \in DOMAIN run /\ run[At(r)] = r
    BY <2>1
  <2>3. \A i \in DOMAIN run : run[i] \in reqs
    BY DEF Range
  <2>4. \A i, j \in DOMAIN run : run[i] = run[j] => i = j
    BY DEF Added, IsInjective
  <2> HIDE DEF run, reqs, At, n
  <2> QED
    BY <1>3, <2>2, <2>3, <2>4
<1>5. Once(h, reqs, Int) /\ IsFiniteSet(reqs)
  <2>1. \A r \in reqs : h[r] = At(r)
    OBVIOUS
  <2>2. reqs \subseteq arrived
    BY HoldersAre
  <2>3. IsFiniteSet(reqs)
    BY <2>2, FS_Subset DEF BatchTypes
  <2> HIDE DEF h, At, reqs, run, n
  <2> QED
    BY <1>3, <1>4, <2>1, <2>3 DEF Once
<1>6. need = adder.tokens /\ need \in Nat
  <2> HIDE DEF reqs
  <2>1. need \in Nat
    BY <1>2, <1>5, FreshFinite
  <2> QED
    BY <2>1 DEF Added, reqs
<1>7. PICK N \in RoomFor(need) :
        \/ /\ pc' = "out_of_memory"
           /\ UNCHANGED <<memory, req, waiting, running, inflight, batch, todo, adder>>
        \/ /\ ~(Cardinality(FreeAfter(N)) < need)
           /\ tree_cache' = Without(tree_cache, N)
           /\ kvFree' = FreeAfter(N) \ Range(locs(N))
           /\ rowFree' = rowFree \ Range(rows)
           /\ reqToToken' = [w \in Rows |->
                LET new == {r \in reqs : rows[At(r)] = w}
                IN  IF new = {} THEN reqToToken[w]
                    ELSE req[CHOOSE x \in new : TRUE].prefix \o Mine(N, CHOOSE x \in new : TRUE)]
           /\ \E flying : req' = [r \in Requests |->
                IF r \in reqs
                THEN [req[r] EXCEPT !.row = rows[At(r)], !.seq = req[r].fill, !.chunks = IF r = flying THEN @ + 1 ELSE @]
                ELSE req[r]]
           /\ running' = running
           /\ batch'.reqs = reqs
           /\ pc' = "process"
  <2> DEFINE pt(r) == Cardinality(FreshOf({x \in reqs : At(x) < At(r)}))
             mixed == IF IsMixedChunk THEN running ELSE {}
             total == adder.tokens + Cardinality(mixed)
             flying == IF adder.inflight # None THEN adder.inflight ELSE inflight
             Own1(N, r) == SubSeq(Lowest(FreeAfter(N), total), pt(r) + 1, pt(r) + Cardinality(Fresh(r)))
             extra(N, m) == Lowest(FreeAfter(N), total)[adder.tokens + Cardinality({x \in mixed : req[x].row < req[m].row}) + 1]
             table(N) == [w \in Rows |->
               LET new == {r \in reqs : rows[At(r)] = w}
                   old == {m \in mixed : req[m].row = w}
                   row == IF new = {} THEN reqToToken[w]
                          ELSE LET r == CHOOSE x \in new : TRUE IN req[r].prefix \o Own1(N, r)
               IN  IF old = {} THEN row ELSE Append(row, extra(N, CHOOSE m \in old : TRUE))]
             prepared == [r \in Requests |->
               IF r \in reqs
               THEN [req[r] EXCEPT !.row = rows[At(r)], !.seq = req[r].fill,
                                   !.chunks = IF r = flying THEN @ + 1 ELSE @]
               ELSE IF r \in mixed THEN [req[r] EXCEPT !.seq = @ + 1, !.fill = Len(Ids(r))]
               ELSE req[r]]
  <2>1. PICK N \in RoomFor(total) :
          \/ /\ pc' = "out_of_memory"
             /\ UNCHANGED <<memory, req, waiting, running, inflight, batch, todo, adder>>
          \/ /\ ~(Cardinality(FreeAfter(N)) < total)
             /\ tree_cache' = Without(tree_cache, N)
             /\ kvFree' = FreeAfter(N) \ Range(Lowest(FreeAfter(N), total))
             /\ rowFree' = rowFree \ Range(rows)
             /\ reqToToken' = table(N)
             /\ req' = prepared
             /\ running' = running \ mixed
             /\ batch' = [mode |-> "extend", reqs |-> reqs \cup mixed, decoding |-> mixed]
             /\ pc' = "process"
    BY DEF PrepareForExtend
  <2>2. mixed = {} /\ Cardinality({}) = 0
    BY FS_EmptySet
  <2>3. total = need
    <3> HIDE DEF need
    <3> QED
      BY <1>6, <2>2
  <2>4. ASSUME NEW r \in reqs PROVE Own1(N, r) = Mine(N, r)
    <3>1. {x \in reqs : h[x] < h[r]} = {x \in reqs : At(x) < At(r)}
      OBVIOUS
    <3>2. pt(r) = first(r)
      BY <3>1 DEF FirstOf
    <3>3. Lowest(FreeAfter(N), total) = locs(N)
      BY <2>3
    <3> HIDE DEF pt, first, total, locs
    <3> QED
      BY <3>2, <3>3
  <2>5. table(N) = [w \in Rows |->
          LET new == {r \in reqs : rows[At(r)] = w}
          IN  IF new = {} THEN reqToToken[w]
              ELSE req[CHOOSE x \in new : TRUE].prefix \o Mine(N, CHOOSE x \in new : TRUE)]
    <3>1. \A w : {m \in mixed : req[m].row = w} = {}
      BY <2>2
    <3>2. \A w : {r \in reqs : rows[At(r)] = w} # {} => (CHOOSE x \in {r \in reqs : rows[At(r)] = w} : TRUE) \in reqs
      OBVIOUS
    <3> HIDE DEF mixed, Own1, Mine, reqs, rows, At, extra
    <3> QED
      BY <2>4, <3>1, <3>2
  <2>6. prepared = [r \in Requests |->
          IF r \in reqs
          THEN [req[r] EXCEPT !.row = rows[At(r)], !.seq = req[r].fill, !.chunks = IF r = flying THEN @ + 1 ELSE @]
          ELSE req[r]]
    BY <2>2
  <2>7. running \ mixed = running /\ [mode |-> "extend", reqs |-> reqs \cup mixed, decoding |-> mixed].reqs = reqs
    BY <2>2
  <2>8. N \in RoomFor(need) /\ Lowest(FreeAfter(N), total) = locs(N)
    BY <2>3
  <2> HIDE DEF mixed, total, need, prepared, table, reqs, rows, At, Own1, Mine, locs, flying
  <2> QED
    BY <2>1, <2>3, <2>5, <2>6, <2>7, <2>8
<1>8. CASE pc' = "out_of_memory" /\ UNCHANGED <<memory, req, waiting, running, inflight, batch, todo, adder>>
  <2>1. RowHolders' = RowHolders /\ (\A r \in RowHolders : SameUse(r)) /\ UNCHANGED <<kvFree, rowFree, tree_cache>>
    BY <1>1, <1>8 DEF RowHolders, SameUse, memory
  <2> QED
    BY <2>1, MemoryKept
<1>9. CASE /\ ~(Cardinality(FreeAfter(N)) < need)
           /\ tree_cache' = Without(tree_cache, N)
           /\ kvFree' = FreeAfter(N) \ Range(locs(N))
           /\ rowFree' = rowFree \ Range(rows)
           /\ reqToToken' = [w \in Rows |->
                LET new == {r \in reqs : rows[At(r)] = w}
                IN  IF new = {} THEN reqToToken[w]
                    ELSE req[CHOOSE x \in new : TRUE].prefix \o Mine(N, CHOOSE x \in new : TRUE)]
           /\ \E flying : req' = [r \in Requests |->
                IF r \in reqs
                THEN [req[r] EXCEPT !.row = rows[At(r)], !.seq = req[r].fill, !.chunks = IF r = flying THEN @ + 1 ELSE @]
                ELSE req[r]]
           /\ running' = running
           /\ batch'.reqs = reqs
           /\ pc' = "process"
  <2> DEFINE F == FreeAfter(N)
             slots == locs(N)
             k(r) == Len(req[r].prefix)
             l(r) == Cardinality(Fresh(r))
  <2>1. RowHolders' = RowHolders \cup reqs /\ RowHolders \cap reqs = {} /\ RowHolders \subseteq Requests
    BY <1>1, <1>2, <1>9, HoldersAre DEF RowHolders, LockHolders
  <2>2. n <= Cardinality(rowFree) /\ IsFiniteSet(rowFree) /\ rowFree \subseteq Rows /\ Rows \subseteq Int
    <3>1. /\ IsFiniteSet(rowFree) /\ Cardinality(rowFree) \in Nat /\ Cardinality(RowHolders) \in Nat
          /\ Cardinality(rowFree) + Cardinality(RowHolders) = MaxRunning
      BY RowsCount DEF Memory
    <3>2. IsFiniteSet(running) /\ RowHolders \subseteq running
      <4>1. running \subseteq arrived
        BY DEF BatchTypes
      <4> QED
        BY <1>2, <4>1, FS_Subset DEF BatchTypes
    <3>3. Cardinality(RowHolders) <= Cardinality(running) /\ Cardinality(running) \in Nat
      BY <3>2, FS_Subset, FS_CardinalityType
    <3>4. Cardinality(running) + n <= MaxRunning /\ MaxRunning \in Nat
      BY <1>1, EngineAssumption DEF Added
    <3>5. rowFree \subseteq Rows /\ Rows \subseteq Int
      BY DEF Memory, RowsApart, Rows
    <3> HIDE DEF n
    <3> QED
      BY <1>3, <3>1, <3>3, <3>4, <3>5
  <2>3. /\ DOMAIN rows = 1..n /\ \A i \in 1..n : rows[i] \in rowFree
        /\ \A i, j \in 1..n : rows[i] = rows[j] => i = j
    <3> HIDE DEF n
    <3>1. rowFree \subseteq Int
      BY <2>2
    <3> QED
      BY <1>3, <2>2, <3>1, LowestAre
  <2>4. /\ \A r \in reqs : rows[At(r)] \in rowFree /\ rows[At(r)] \in Rows
        /\ \A r, o \in reqs : rows[At(r)] = rows[At(o)] => r = o
        /\ Range(rows) = {rows[At(r)] : r \in reqs}
    <3>1. Range(rows) = {rows[i] : i \in 1..n}
      BY <2>3 DEF Range
    <3> HIDE DEF rows, At, n, reqs, run
    <3>2. {rows[i] : i \in 1..n} = {rows[At(r)] : r \in reqs}
      BY <1>4
    <3> QED
      BY <1>4, <2>2, <2>3, <3>1, <3>2
  <2>5. ASSUME NEW r \in reqs
        PROVE  req'[r].prefix = req[r].prefix /\ req'[r].row = rows[At(r)] /\ req'[r].seq = req[r].fill
    <3>1. r \in Requests
      BY <1>2
    <3> HIDE DEF rows, At, reqs
    <3>2. PICK flying : req' = [x \in Requests |->
                IF x \in reqs
                THEN [req[x] EXCEPT !.row = rows[At(x)], !.seq = req[x].fill, !.chunks = IF x = flying THEN @ + 1 ELSE @]
                ELSE req[x]]
      BY <1>9
    <3> QED
      BY <2>5, <3>1, <3>2, ReqFields
  <2>6. ASSUME NEW r \in reqs PROVE reqToToken'[rows[At(r)]] = req[r].prefix \o Mine(N, r)
    <3> HIDE DEF rows, At, reqs, Mine
    <3>1. {x \in reqs : rows[At(x)] = rows[At(r)]} = {r}
      BY <2>4
    <3>2. (CHOOSE x \in {r} : TRUE) = r
      OBVIOUS
    <3> QED
      BY <1>9, <2>4, <3>1, <3>2
  <2>7. ASSUME NEW o \in RowHolders PROVE SameUse(o)
    <3>1. req'[o] = req[o]
      <4> HIDE DEF rows, At, reqs
      <4> QED
        BY <1>9, <2>1
    <3>2. req[o].row \in Rows \ rowFree
      BY DEF Memory, RowsApart
    <3>3. {x \in reqs : rows[At(x)] = req[o].row} = {}
      <4> HIDE DEF rows, At, reqs
      <4> QED
        BY <2>4, <3>2
    <3>4. reqToToken'[req[o].row] = reqToToken[req[o].row]
      <4> HIDE DEF rows, At, reqs, Mine
      <4> QED
        BY <1>9, <3>2, <3>3
    <3> QED
      BY <3>1, <3>4 DEF SameUse
  <2>8. Partition(F, tree_cache'.value, Own) /\ F \subseteq Slots /\ Slots \subseteq Int /\ IsFiniteSet(F) /\ need <= Cardinality(F)
    <3>1. N \subseteq tree_cache.nodes
      BY RoomForClosed, EvictionsClosed
    <3>2. IsRadix(tree_cache, Tokens) /\ Partition(kvFree, tree_cache.value, Own)
      BY DEF TreeTyped, Memory, SlotsApart
    <3>3. Partition(kvFree \cup SlotsIn(tree_cache, N), Without(tree_cache, N).value, Own)
      BY <3>1, <3>2, EvictFromTree
    <3>4. Partition(F, tree_cache'.value, Own)
      <4> HIDE DEF rows, At, reqs, Mine, locs, need
      <4> QED
        BY <1>9, <3>3 DEF FreeAfter
    <3> HIDE DEF F
    <3>5. F \subseteq Slots
      BY <3>4 DEF Partition
    <3>6. IsFiniteSet(Slots) /\ Slots \subseteq Int
      BY EngineAssumption, FS_Interval DEF Slots
    <3>7. IsFiniteSet(F) /\ Cardinality(F) \in Nat
      BY <3>5, <3>6, FS_Subset, FS_CardinalityType
    <3>8. ~(Cardinality(F) < need)
      <4> HIDE DEF rows, At, reqs, Mine, locs, need
      <4> QED
        BY <1>9 DEF F
    <3> HIDE DEF need
    <3> QED
      BY <1>6, <3>4, <3>5, <3>6, <3>7, <3>8
  <2>9. DOMAIN slots = 1..need /\ Once(slots, 1..need, F) /\ slots \in [1..need -> Slots]
    <3>1. F \subseteq Int
      BY <2>8
    <3> HIDE DEF need, F
    <3>2. DOMAIN Lowest(F, need) = 1..need /\ Once(Lowest(F, need), 1..need, F)
      BY <1>6, <2>8, <3>1, LowestOnce
    <3>3. slots = Lowest(F, need)
      BY DEF F
    <3>4. Lowest(F, need) = [i \in 1..need |-> Lowest(F, need)[i]]
      BY DEF Lowest
    <3> HIDE DEF slots
    <3> QED
      BY <2>8, <3>2, <3>3, <3>4 DEF Once
  <2>10. ASSUME NEW r \in reqs
         PROVE  LET v == reqToToken'[req'[r].row]
                IN  /\ k(r) \in Nat /\ req[r].fill \in Nat /\ k(r) <= req[r].fill
                    /\ v \in [1..req[r].fill -> Slots]
                    /\ \A i \in 1..k(r) : v[i] = req[r].prefix[i]
                    /\ \A i \in (k(r) + 1)..req[r].fill : v[i] = slots[first(r) + i - k(r)]
    <3> DEFINE v == reqToToken'[req'[r].row]
               q == req[r].prefix
               f == req[r].fill
               a == first(r)
               m == l(r)
    <3>1. q \in Seq(Slots) /\ Len(q) \in Nat /\ Len(q) <= f /\ f \in Int
      BY <1>2, PrefixSlots DEF Added, BatchTypes, ReqTyped
    <3>2. m = f - Len(q) /\ m \in Nat
      BY <1>2, <3>1, FreshOne
    <3>3. a \in Nat /\ a + m <= need
      <4>1. \A x \in reqs : h[x] \in Int
        BY <1>5 DEF Once
      <4>2. reqs \in SUBSET Requests
        BY <1>2
      <4> HIDE DEF reqs, h
      <4>3. FirstOf(reqs, h, r) \in Nat /\ FirstOf(reqs, h, r) + Cardinality(Fresh(r)) <= Cardinality(FreshOf(reqs))
        BY <1>5, <4>1, <4>2, FirstBefore
      <4> QED
        BY <4>3
    <3>4. Joined(v, q, slots, a, m)
      <4>1. v = q \o Mine(N, r)
        <5> HIDE DEF Mine, rows, At, reqs
        <5> QED
          BY <2>5, <2>6
      <4> QED
        BY <4>1 DEF Joined
    <3> HIDE DEF v, q, f, a, m, slots, need
    <3>5. Followed(v, q, slots, a, m, Slots)
      BY <1>6, <2>9, <3>1, <3>2, <3>3, <3>4, RowOf
    <3>6. Len(q) + m = f /\ f \in Nat
      BY <3>1, <3>2
    <3>7. /\ Len(q) \in Nat /\ f \in Nat /\ Len(q) <= f
          /\ v \in [1..f -> Slots]
          /\ \A i \in 1..Len(q) : v[i] = q[i]
          /\ \A i \in (Len(q) + 1)..f : v[i] = slots[a + i - Len(q)]
      BY <3>1, <3>5, <3>6 DEF Followed
    <3> QED
      BY <3>7 DEF v, q, f, a
  <2>11. NewAt(Own, Own', C, at, slots)
    <3> DEFINE more == Own'
    <3>1. DOMAIN Own = RowHolders /\ DOMAIN more = RowHolders \cup reqs
      BY <2>1 DEF Own
    <3>2. \A o \in RowHolders : more[o] = Own[o]
      BY <2>1, <2>7, OwnSame
    <3>3. ASSUME NEW r \in reqs
          PROVE  DOMAIN more[r] = Fresh(r) /\ \A i \in Fresh(r) : more[r][i] = reqToToken'[req'[r].row][i]
      <4>1. more[r] = [i \in (Len(req'[r].prefix) + 1)..req'[r].seq |-> reqToToken'[req'[r].row][i]]
        BY <2>1 DEF Own, PastPrefix
      <4>2. (Len(req'[r].prefix) + 1)..req'[r].seq = Fresh(r)
        BY <2>5 DEF Fresh
      <4> HIDE DEF more
      <4> QED
        BY <4>1, <4>2
    <3>4. \A r, i : <<r, i>> \in C <=> r \in reqs /\ i \in Fresh(r)
      BY DEF FreshOf
    <3>5. \A c \in C : c[1] \in reqs /\ c[2] \in Fresh(c[1]) /\ c = <<c[1], c[2]>>
      BY DEF FreshOf
    <3>6. ASSUME NEW c \in C PROVE more[c[1]][c[2]] = slots[at[c]]
      <4> DEFINE r == c[1]
                 i == c[2]
                 v == reqToToken'[req'[r].row]
      <4>1. r \in reqs /\ i \in Fresh(r)
        BY <3>5
      <4>2. more[r][i] = v[i]
        BY <3>3, <4>1
      <4>3. i \in (k(r) + 1)..req[r].fill
        BY <4>1 DEF Fresh
      <4>4. v[i] = slots[first(r) + i - k(r)]
        BY <2>10, <4>1, <4>3
      <4>5. at[c] = first(r) + i - k(r)
        BY DEF PlaceOf
      <4> HIDE DEF at, slots, v, more
      <4> QED
        BY <4>2, <4>4, <4>5
    <3> HIDE DEF more, C, reqs, at, slots
    <3>7. \A r, i : IsNew(Own, more, r, i) <=> <<r, i>> \in C
      BY <2>1, <3>1, <3>2, <3>3, <3>4 DEF IsNew
    <3>8. NewAt(Own, more, C, at, slots)
      BY <3>1, <3>2, <3>5, <3>6, <3>7 DEF NewAt
    <3> QED
      BY <3>8 DEF more
  <2>12. SlotsApart'
    <3> DEFINE more == Own'
               V == tree_cache'.value
    <3>1. NewAt(Own, more, C, at, slots) /\ Partition(F, V, Own)
      BY <2>8, <2>11
    <3>2. Once(at, C, 1..need)
      <4>1. reqs \in SUBSET Requests
        BY <1>2
      <4> HIDE DEF reqs, h
      <4>2. Once(PlaceOf(reqs, h), FreshOf(reqs), 1..Cardinality(FreshOf(reqs)))
        BY <1>5, <4>1, Places
      <4> QED
        BY <4>2
    <3>3. Cardinality(C) = need
      OBVIOUS
    <3> HIDE DEF more, C, at, slots, F, need, V
    <3>4. Grown(Own, more, Range(slots)) /\ Range(slots) \subseteq F
      BY <1>6, <2>9, <3>1, <3>2, <3>3, GrownBy
    <3>5. Partition(F \ Range(slots), V, more)
      BY <3>1, <3>4, Allocate
    <3>6. kvFree' = F \ Range(slots)
      <4> HIDE DEF rows, At, reqs, Mine, locs
      <4> QED
        BY <1>9 DEF F, slots
    <3> QED
      BY <3>5, <3>6 DEF more, V, SlotsApart
  <2>13. RowsApart'
    <3>1. rowFree' = rowFree \ {rows[At(r)] : r \in reqs}
      <4> HIDE DEF rows, At, reqs, Mine, locs, need
      <4> QED
        BY <1>9, <2>4
    <3>2. \A o \in RowHolders : req'[o].row = req[o].row
      BY <2>7 DEF SameUse
    <3>3. \A r \in reqs : req'[r].row = rows[At(r)]
      BY <2>5
    <3> HIDE DEF rows, At, reqs
    <3>4. rowFree' \subseteq Rows /\ \A r \in RowHolders' : req'[r].row \in Rows \ rowFree'
      BY <2>1, <2>4, <3>1, <3>2, <3>3 DEF Memory, RowsApart
    <3>5. \A r, o \in RowHolders' : req'[r].row = req'[o].row => r = o
      BY <2>1, <2>4, <3>2, <3>3 DEF Memory, RowsApart
    <3>6. \A w \in Rows \ rowFree' : \E r \in RowHolders' : req'[r].row = w
      BY <2>1, <3>1, <3>2, <3>3 DEF Memory, RowsApart
    <3> QED
      BY <3>4, <3>5, <3>6 DEF RowsApart
  <2>14. RowsWritten'
    <3>1. ASSUME NEW r \in reqs
          PROVE  /\ req'[r].seq \in Nat /\ reqToToken'[req'[r].row] \in [1..req'[r].seq -> Slots] /\ Len(req'[r].prefix) <= req'[r].seq
                 /\ \A i \in 1..Len(req'[r].prefix) : reqToToken'[req'[r].row][i] = req'[r].prefix[i]
      <4> HIDE DEF rows, At, reqs, slots, first
      <4> QED
        BY <2>5, <2>10
    <3>2. \A r \in RowHolders :
            /\ req'[r].seq \in Nat /\ reqToToken'[req'[r].row] \in [1..req'[r].seq -> Slots] /\ Len(req'[r].prefix) <= req'[r].seq
            /\ \A i \in 1..Len(req'[r].prefix) : reqToToken'[req'[r].row][i] = req'[r].prefix[i]
      BY <2>7, RowSame DEF Memory
    <3> HIDE DEF reqs
    <3> QED
      BY <2>1, <3>1, <3>2 DEF RowsWritten
  <2>15. Agree(tree_cache, tree_cache')
    <3> HIDE DEF rows, At, reqs, Mine, locs, need
    <3> QED
      BY <1>9, WithoutAgrees
  <2> QED
    BY <2>12, <2>13, <2>14, <2>15 DEF Memory
<1> QED
  <2> HIDE DEF rows, At, reqs, Mine, locs, need
  <2> QED
    BY <1>7, <1>8, <1>9

-------------------------------------------------------------------------------
(* What the steps do to the requests                                       *)

\* The steps that leave the memory and the requests' records.
Quiet ==
  \/ \E r \in Requests : Receive(r) \/ AbortExceedSLO(r)
  \/ SkipPrefill \/ StopAdding \/ NothingAdded \/ NoRunningBatch \/ RunningBatchGone
  \/ BatchProcessed \/ RunToCompletion \/ Completed \/ UNCHANGED batchVars

\* They leave who holds rows and locks too.
LEMMA QuietSteps ==
  ASSUME BatchTypes, Loop, Apart, Quiet
  PROVE  /\ UNCHANGED <<tree_cache, kvFree, rowFree, reqToToken, req, inflight, todo>>
         /\ RowHolders' = RowHolders /\ LockHolders' = LockHolders
         /\ todo # {} => batch' = batch
<1>1. ASSUME NEW r \in Requests, Receive(r) \/ AbortExceedSLO(r)
      PROVE  /\ UNCHANGED <<tree_cache, kvFree, rowFree, reqToToken, req, inflight, todo, batch>>
             /\ RowHolders' = RowHolders /\ LockHolders' = LockHolders
  <2>1. /\ UNCHANGED <<memory, req, running, inflight, last, pc, adder, batch, todo>>
        /\ finished' = finished \/ (r \in waiting \ Range(adder.canRun) /\ pc = "adding" /\ finished' = finished \cup {r})
    BY <1>1 DEF Receive, AbortExceedSLO, Candidates
  <2> QED
    BY <2>1 DEF memory, LockHolders, RowHolders, Apart
<1>2. CASE SkipPrefill \/ StopAdding \/ NoRunningBatch \/ Completed \/ RunToCompletion
  <2>1. /\ UNCHANGED <<memory, req, finished, running, inflight, last, adder, batch, todo>>
        /\ pc # "process" /\ pc' # "process"
    BY <1>2 DEF SkipPrefill, StopAdding, NoRunningBatch, Completed, RunToCompletion
  <2> QED
    BY <2>1 DEF memory, LockHolders, RowHolders
<1>3. CASE NothingAdded
  <2>1. /\ UNCHANGED <<memory, req, finished, running, inflight, last, batch, todo>> /\ adder' = NoAdder
        /\ adder.canRun = NoAdder.canRun /\ pc # "process" /\ pc' # "process"
    BY <1>3 DEF NothingAdded, NoAdder
  <2> QED
    BY <2>1 DEF memory, LockHolders, RowHolders
<1>4. CASE RunningBatchGone
  <2>1. /\ UNCHANGED <<memory, req, finished, inflight, last, adder, todo>> /\ running \subseteq finished /\ running' = {}
        /\ pc # "process" /\ pc' # "process" /\ todo = {}
    BY <1>4 DEF RunningBatchGone, Loop
  <2> QED
    BY <2>1 DEF memory, LockHolders, RowHolders
<1>5. CASE BatchProcessed
  <2>1. /\ UNCHANGED <<memory, req, finished, running, inflight, adder, todo>> /\ pc = "process" /\ pc' # "process" /\ todo = {}
        /\ last' = IF batch.mode = "extend" THEN batch ELSE NoBatch
    BY <1>5 DEF BatchProcessed
  <2>2. last.reqs = {} /\ (batch.mode # "extend" => batch.reqs = running)
    BY <2>1 DEF Loop, NoBatch
  <2> QED
    BY <2>1, <2>2 DEF memory, LockHolders, RowHolders, NoBatch
<1>6. CASE UNCHANGED batchVars
  <2>1. UNCHANGED <<tree_cache, kvFree, rowFree, reqToToken, req, finished, running, inflight, last, pc, adder, batch, todo>>
    BY <1>6 DEF batchVars
  <2> QED
    BY <2>1 DEF LockHolders, RowHolders
<1> QED
  BY <1>1, <1>2, <1>3, <1>4, <1>5, <1>6 DEF Quiet

\* The fields of a request that tell what it holds and uses.
SameFields(r) ==
  /\ req'[r].prefix = req[r].prefix /\ req'[r].node = req[r].node /\ req'[r].row = req[r].row
  /\ req'[r].seq = req[r].seq /\ req'[r].fill = req[r].fill

\* A jump makes an output longer.
LEMMA JumpReq ==
  ASSUME BatchTypes, Loop, Apart, NEW r \in Requests, NEW token, Jump(r, token)
  PROVE  /\ \A o \in Requests \ {r} : req'[o] = req[o]
         /\ SameFields(r) /\ req'[r].out = Append(req[r].out, token)
         /\ RowHolders' = RowHolders \ {r} /\ LockHolders' = LockHolders \ {r} /\ r \in RowHolders /\ r # inflight
         /\ todo = {} /\ UNCHANGED <<inflight, todo, pc>> /\ pc = "jump" /\ running' = running \ {r}
<1> DEFINE q == req[r]
           longer == [q EXCEPT !.out = Append(q.out, token)]
<1>1. /\ UNCHANGED <<finished, inflight, last, adder, batch, pc, todo>> /\ pc = "jump"
      /\ r \in running /\ running' = running \ {r} /\ req' = [req EXCEPT ![r].out = Append(@, token)]
  BY DEF Jump
<1>2. r \in LockHolders /\ r \in RowHolders /\ r # inflight /\ last.reqs = {} /\ adder = NoAdder /\ todo = {}
  BY <1>1 DEF LockHolders, RowHolders, Apart, Loop, NoBatch
<1>3. RowHolders' = RowHolders \ {r} /\ LockHolders' = LockHolders \ {r}
  BY <1>1, <1>2, EmptyRange DEF LockHolders, RowHolders
<1>4. \A o \in Requests : req'[o] = IF o = r THEN longer ELSE req[o]
  BY <1>1 DEF BatchTypes
<1>5. /\ longer.prefix = q.prefix /\ longer.node = q.node /\ longer.row = q.row /\ longer.seq = q.seq /\ longer.fill = q.fill
      /\ longer.out = Append(q.out, token)
  BY ReqFields
<1> HIDE DEF longer
<1> QED
  BY <1>1, <1>2, <1>3, <1>4, <1>5 DEF SameFields

\* A chunk's result changes no field but chunks.
LEMMA ProcessChunkReq ==
  ASSUME BatchTypes, Loop, ChunksCounted, NEW r \in Requests, ProcessChunk(r)
  PROVE  /\ \A o \in Requests : SameFields(o) /\ req'[o].out = req[o].out
         /\ RowHolders' = RowHolders /\ LockHolders' = LockHolders
         /\ UNCHANGED <<memory, inflight, batch, pc>> /\ pc = "process" /\ todo' = todo \ {r} /\ r = inflight
<1> DEFINE q == req[r]
           less == [q EXCEPT !.chunks = q.chunks - 1]
<1>1. /\ UNCHANGED <<memory, finished, running, inflight, last, pc, adder, batch>> /\ pc = "process" /\ todo' = todo \ {r}
      /\ req' = [req EXCEPT ![r].chunks = @ - 1] /\ HasChunks(r)
  BY DEF ProcessChunk
<1>2. r = inflight
  BY <1>1 DEF HasChunks, ChunksCounted
<1>3. RowHolders' = RowHolders /\ LockHolders' = LockHolders
  BY <1>1 DEF LockHolders, RowHolders
<1>4. \A o \in Requests : req'[o] = IF o = r THEN less ELSE req[o]
  BY <1>1 DEF BatchTypes
<1>5. /\ less.prefix = q.prefix /\ less.node = q.node /\ less.row = q.row /\ less.seq = q.seq /\ less.fill = q.fill
      /\ less.out = q.out
  BY ReqFields
<1> HIDE DEF less
<1> QED
  BY <1>1, <1>2, <1>3, <1>4, <1>5 DEF SameFields

\* A result makes an output longer, and the request ends, is cached as it goes on, or decodes on.
LEMMA ProcessReq ==
  ASSUME BatchTypes, Loop, Apart, ChunksCounted, NEW r \in Requests, NEW token, NEW stop, Process(r, token, stop)
  PROVE  /\ \A o \in Requests \ {r} : req'[o] = req[o]
         /\ req'[r].row = req[r].row /\ req'[r].seq = req[r].seq /\ req'[r].fill = req[r].fill
         /\ req'[r].out = Append(req[r].out, token)
         /\ UNCHANGED <<inflight, batch, pc>> /\ pc = "process" /\ todo' = todo \ {r} /\ r \in todo /\ r # inflight
         /\ r \in RowHolders
         /\ \/ /\ CacheFinished(r, Ids(r)) /\ RowHolders' = RowHolders \ {r} /\ LockHolders' = LockHolders \ {r}
               /\ req'[r].prefix = req[r].prefix /\ req'[r].node = req[r].node
            \/ /\ CacheUnfinished(r) /\ rowFree' = rowFree /\ RowHolders' = RowHolders /\ LockHolders' = LockHolders
               /\ req'[r].prefix = CachedAs(r).prefix /\ req'[r].node = CachedAs(r).node /\ batch.mode = "extend"
            \/ /\ UNCHANGED memory /\ RowHolders' = RowHolders /\ LockHolders' = LockHolders
               /\ req'[r].prefix = req[r].prefix /\ req'[r].node = req[r].node
<1> DEFINE done == r \in finished \/ stop \/ Len(req[r].out) + 1 >= MaxNewTokens(r)
           kept == ~done /\ batch.mode = "extend" /\ r \notin batch.decoding
           q == IF kept THEN CachedAs(r) ELSE req[r]
           longer == [q EXCEPT !.out = Append(q.out, token)]
<1>1. /\ UNCHANGED <<running, inflight, last, adder, batch, pc>> /\ pc = "process" /\ r \in todo /\ todo' = todo \ {r}
      /\ finished' = IF done THEN finished \cup {r} ELSE finished
      /\ req' = [req EXCEPT ![r] = longer]
      /\ ~(batch.mode = "extend" /\ req[r].chunks > 0)
  BY DEF Process
<1>2. r \in batch.reqs /\ r \notin finished /\ r # inflight /\ adder = NoAdder /\ last.reqs = {}
  BY <1>1 DEF Loop, Apart, ChunksCounted, NoBatch
<1>3. r \in LockHolders /\ r \in RowHolders
  BY <1>1, <1>2 DEF LockHolders, RowHolders
<1>4. /\ DOMAIN q = DOMAIN req[r] /\ q.row = req[r].row /\ q.seq = req[r].seq /\ q.fill = req[r].fill /\ q.out = req[r].out
      /\ q.prefix = IF kept THEN CachedAs(r).prefix ELSE req[r].prefix
      /\ q.node = IF kept THEN CachedAs(r).node ELSE req[r].node
  <2> DEFINE ids == SubSeq(Ids(r), 1, req[r].fill)
             prefix == SlotsOf(Insert(tree_cache, ids, reqToToken[req[r].row]), ids)
             old == req[r]
             new == [old EXCEPT !.prefix = prefix, !.node = ids]
  <2>1. CachedAs(r) = new
    BY DEF CachedAs
  <2>2. DOMAIN old = {"out", "prefix", "node", "row", "fill", "seq", "chunks"}
    BY ReqFields
  <2> HIDE DEF old, ids, prefix
  <2>3. DOMAIN new = DOMAIN old /\ new.row = old.row /\ new.seq = old.seq /\ new.fill = old.fill /\ new.out = old.out
    BY <2>2
  <2> HIDE DEF new, kept
  <2> QED
    BY <2>1, <2>3 DEF old
<1> HIDE DEF q
<1>5. /\ longer.prefix = q.prefix /\ longer.node = q.node /\ longer.row = q.row /\ longer.seq = q.seq /\ longer.fill = q.fill
      /\ longer.out = Append(q.out, token)
  BY <1>4, ReqFields
<1>6. req'[r] = longer /\ \A o \in Requests \ {r} : req'[o] = req[o]
  BY <1>1 DEF BatchTypes
<1> HIDE DEF longer, kept, done
<1>7. CASE done
  <2>1. CacheFinished(r, Ids(r)) /\ ~kept
    BY <1>7 DEF Process, done, kept
  <2>2. RowHolders' = RowHolders \ {r} /\ LockHolders' = LockHolders \ {r}
    BY <1>1, <1>2, <1>7, EmptyRange DEF LockHolders, RowHolders
  <2> QED
    BY <1>1, <1>2, <1>3, <1>4, <1>5, <1>6, <2>1, <2>2
<1>8. CASE kept
  <2>1. CacheUnfinished(r) /\ rowFree' = rowFree /\ ~done /\ batch.mode = "extend"
    BY <1>8 DEF Process, done, kept
  <2>2. RowHolders' = RowHolders /\ LockHolders' = LockHolders
    BY <1>1, <2>1 DEF LockHolders, RowHolders
  <2> QED
    BY <1>1, <1>2, <1>3, <1>4, <1>5, <1>6, <1>8, <2>1, <2>2
<1>9. CASE ~done /\ ~kept
  <2>1. UNCHANGED memory
    BY <1>9 DEF Process, done, kept
  <2>2. RowHolders' = RowHolders /\ LockHolders' = LockHolders
    BY <1>1, <1>9 DEF LockHolders, RowHolders
  <2> QED
    BY <1>1, <1>2, <1>3, <1>4, <1>5, <1>6, <1>9, <2>1, <2>2
<1> QED
  BY <1>7, <1>8, <1>9

\* An abort changes no record.  A running request that is aborted is cached.
LEMMA AbortReq ==
  ASSUME BatchTypes, Loop, Apart, NEW r \in Requests, Abort(r)
  PROVE  /\ UNCHANGED <<req, inflight, todo, pc>> /\ pc = "recv"
         /\ \/ /\ CacheFinished(r, MatchKey(r)) /\ RowHolders' = RowHolders \ {r} /\ LockHolders' = LockHolders \ {r}
               /\ r \in RowHolders /\ r # inflight
            \/ UNCHANGED memory /\ RowHolders' = RowHolders /\ LockHolders' = LockHolders
<1>1. /\ UNCHANGED <<req, running, inflight, last, pc, adder, batch, todo>> /\ pc = "recv"
      /\ finished' = finished \cup ({r} \cap (waiting \cup running))
  BY DEF Abort
<1>2. adder = NoAdder
  BY <1>1 DEF Loop
<1>3. CASE r \in running \ finished
  <2>1. CacheFinished(r, MatchKey(r))
    BY <1>3 DEF Abort, ReleaseAborted
  <2>2. r \in RowHolders /\ r # inflight
    BY <1>3 DEF RowHolders, Apart
  <2>3. RowHolders' = RowHolders \ {r} /\ LockHolders' = LockHolders \ {r}
    BY <1>1, <1>2, <1>3, <2>2, EmptyRange DEF LockHolders, RowHolders
  <2> QED
    BY <1>1, <2>1, <2>2, <2>3
<1>4. CASE r \notin running \ finished
  <2>1. UNCHANGED memory
    BY <1>4 DEF Abort, ReleaseAborted
  <2>2. RowHolders' = RowHolders /\ LockHolders' = LockHolders
    BY <1>1, <1>4 DEF LockHolders, RowHolders, Apart
  <2> QED
    BY <1>1, <2>1, <2>2
<1> QED
  BY <1>3, <1>4

\* A retraction changes the prefix and the node of the request that leaves.
LEMMA RetractReq ==
  ASSUME BatchTypes, Loop, Apart, NEW r \in Requests, Retract(r)
  PROVE  /\ \A o \in Requests \ {r} : req'[o] = req[o]
         /\ RowHolders' = RowHolders \ {r} /\ LockHolders' = LockHolders \ {r} /\ r \in RowHolders
         /\ UNCHANGED <<reqToToken, inflight, todo>>
         /\ todo = {} /\ pc = "retract" /\ r \in running /\ running' = running \ {r}
<1>1. /\ UNCHANGED <<finished, inflight, last, adder, batch, todo, reqToToken>> /\ pc = "retract" /\ pc' # "process"
      /\ r \in running /\ running' = running \ {r} /\ req' = [req EXCEPT ![r].prefix = <<>>, ![r].node = <<>>]
  BY DEF Retract
<1>2. r \in LockHolders /\ r \in RowHolders /\ r # inflight /\ last.reqs = {} /\ adder = NoAdder /\ todo = {}
  BY <1>1 DEF LockHolders, RowHolders, Apart, Loop, NoBatch
<1>3. RowHolders' = RowHolders \ {r} /\ LockHolders' = LockHolders \ {r}
  BY <1>1, <1>2, EmptyRange DEF LockHolders, RowHolders
<1>4. \A o \in Requests \ {r} : req'[o] = req[o]
  BY <1>1 DEF BatchTypes
<1> QED
  BY <1>1, <1>2, <1>3, <1>4

\* With the queue matched up front, a round of prefills begins with the request in flight, if any: it goes on from the
\* prefix it has, with as much of its tokens as a chunk holds.
LEMMA BeginPrefillReq ==
  ASSUME PrefixAware, ~IsMixedChunk, TreeTyped, BatchTypes, Loop, Apart, NEW share, BeginPrefill(share)
  PROVE  /\ UNCHANGED <<kvFree, rowFree, reqToToken, running, todo>> /\ pc = "prefill" /\ pc' = "adding"
         /\ tree_cache'.value = tree_cache.value /\ Cardinality(running) < MaxRunning
         /\ RowHolders' = RowHolders /\ LockHolders' = LockHolders /\ inflight \notin RowHolders /\ inflight' \in {inflight, None}
         /\ todo = {} /\ adder'.inflight = None
         /\ \A o \in Requests : o # inflight => req'[o] = req[o]
         /\ \/ /\ inflight = None /\ UNCHANGED <<req, inflight>>
               /\ adder'.canRun = <<>> /\ adder'.tokens = 0
            \/ LET r      == inflight
                   k      == Len(req[r].prefix)
                   extend == Len(Ids(r)) - k
                   n      == Lesser(extend, ChunkedPrefillSize)
               IN  /\ r \in Requests /\ r \in LockHolders
                   /\ req'[r].prefix = req[r].prefix /\ req'[r].node = req[r].node /\ req'[r].row = req[r].row
                   /\ req'[r].seq = req[r].seq /\ req'[r].out = req[r].out /\ req'[r].fill = k + n
                   /\ adder'.canRun = Append(<<>>, r) /\ adder'.tokens = 0 + n /\ adder'.chunk = ChunkedPrefillSize - n
                   /\ inflight' = IF extend > ChunkedPrefillSize THEN r ELSE None
<1> DEFINE mixed == IF IsMixedChunk THEN Cardinality(running) ELSE 0
           empty == [NoAdder EXCEPT !.total = Available - mixed - Reserve(share), !.cur = Available - mixed,
                                    !.input = MaxPrefillTokens - mixed, !.chunk = ChunkedPrefillSize - mixed]
           r == inflight
           keys == {MatchKey(w) : w \in waiting}
<1>1. /\ UNCHANGED <<kvFree, rowFree, reqToToken, finished, running, last, batch, todo>> /\ pc = "prefill" /\ pc' = "adding"
      /\ tree_cache' = Split(tree_cache, keys) /\ PrefillAllowed
  BY DEF BeginPrefill
<1>2. tree_cache'.value = tree_cache.value
  <2>1. \A w \in waiting : w \in Requests
    BY DEF BatchTypes
  <2>2. keys \subseteq Seq(Tokens)
    BY <2>1, IdsTyped
  <2> HIDE DEF keys
  <2> QED
    BY <1>1, <2>2, SplitRadix DEF TreeTyped
<1>3. last.reqs = {} /\ todo = {} /\ Range(adder.canRun) = {}
  BY <1>1, EmptyRange DEF Loop, NoBatch
<1>4. adder'.inflight = None /\ Range(adder'.canRun) = {inflight} \ {None} /\ inflight' \in {inflight, None}
  BY BeginPrefillAdds
<1>5. RowHolders' = RowHolders /\ LockHolders' = LockHolders /\ inflight \notin RowHolders
  BY <1>1, <1>3, <1>4 DEF RowHolders, LockHolders, Apart
<1>6. empty.canRun = <<>> /\ empty.tokens = 0 /\ empty.chunk = ChunkedPrefillSize - 0 /\ DOMAIN empty = DOMAIN NoAdder
  BY DEF NoAdder
<1>7. ChunkedPrefillSize \in Nat /\ ChunkedPrefillSize - 0 = ChunkedPrefillSize
  BY EngineAssumption
<1>8. CASE r = None
  <2>1. adder' = empty /\ UNCHANGED <<req, inflight>>
    BY <1>8 DEF BeginPrefill
  <2> HIDE DEF empty, keys
  <2> QED
    BY <1>1, <1>2, <1>3, <1>4, <1>5, <1>6, <1>8, <2>1 DEF PrefillAllowed
<1>9. CASE r # None
  <2> DEFINE prefix == IF PrefixAware THEN req[r].prefix
                       ELSE SlotsOf(tree_cache, Cached(tree_cache, MatchKey(r)))
             node == IF PrefixAware THEN req[r].node ELSE Cached(tree_cache, MatchKey(r))
             extend == Len(Ids(r)) - Len(prefix)
             n == Lesser(extend, empty.chunk)
             more == IF extend > empty.chunk THEN 0 ELSE MaxNewTokens(r)
             fill == Len(prefix) + n
             q == req[r]
             begun == [q EXCEPT !.prefix = prefix, !.node = node, !.fill = fill]
  <2>1. /\ req' = [req EXCEPT ![r].prefix = prefix, ![r].node = node, ![r].fill = fill]
        /\ inflight' = IF extend > empty.chunk THEN r ELSE None
        /\ adder' = Take(empty, r, n, more)
    BY <1>9 DEF BeginPrefill
  <2>2. r \in Requests /\ r \in LockHolders
    BY <1>9 DEF BatchTypes, LockHolders
  <2>3. prefix = q.prefix /\ node = q.node
    OBVIOUS
  <2>4. empty.chunk = ChunkedPrefillSize
    BY <1>6, <1>7
  <2> HIDE DEF empty, prefix, node, extend, n, fill, more
  <2>5. /\ adder'.canRun = Append(<<>>, r) /\ adder'.tokens = 0 + n /\ adder'.chunk = ChunkedPrefillSize - n
    BY <1>6, <2>1, <2>4 DEF Take, NoAdder
  <2>6. req'[r] = begun /\ \A o \in Requests : o # r => req'[o] = req[o]
    BY <2>1, <2>2 DEF BatchTypes
  <2>7. /\ begun.prefix = prefix /\ begun.node = node /\ begun.fill = fill /\ begun.row = q.row /\ begun.seq = q.seq
        /\ begun.out = q.out
    BY <2>2, ReqFields
  <2> HIDE DEF begun
  <2>8. extend = Len(Ids(r)) - Len(req[r].prefix) /\ n = Lesser(extend, ChunkedPrefillSize) /\ fill = Len(req[r].prefix) + n
    BY <2>3, <2>4 DEF extend, n, fill
  <2>9. /\ req'[r].prefix = req[r].prefix /\ req'[r].node = req[r].node /\ req'[r].row = req[r].row
        /\ req'[r].seq = req[r].seq /\ req'[r].out = req[r].out /\ req'[r].fill = Len(req[r].prefix) + n
    BY <2>3, <2>6, <2>7, <2>8
  <2> HIDE DEF q, keys
  <2> QED
    BY <1>1, <1>2, <1>3, <1>4, <1>5, <1>9, <2>1, <2>2, <2>4, <2>5, <2>6, <2>8, <2>9 DEF PrefillAllowed
<1> QED
  BY <1>8, <1>9

\* A request that is added goes on from what it matches in the cache, whole or with what is left of the chunk.
LEMMA AddOneReqReq ==
  ASSUME TreeTyped, BatchTypes, Loop, Apart, NEW r \in Requests, AddOneReq(r)
  PROVE  /\ UNCHANGED <<kvFree, rowFree, reqToToken, running, inflight, todo>> /\ pc = "adding" /\ pc' \in {"adding", "extend"}
         /\ tree_cache'.value = tree_cache.value /\ Cardinality(running) + Len(adder.canRun) < MaxRunning
         /\ RowHolders' = RowHolders /\ r \notin RowHolders /\ r \notin Range(adder.canRun) /\ r \notin LockHolders
         /\ r # inflight /\ todo = {}
         /\ \A o \in Requests \ {r} : req'[o] = req[o]
         /\ \/ UNCHANGED <<req, adder>> /\ pc' = "extend" /\ LockHolders' = LockHolders
            \/ LET node   == Cached(tree_cache, MatchKey(r))
                   extend == Len(Ids(r)) - Len(node)
                   whole  == extend <= adder.chunk
                   n      == IF whole THEN extend ELSE adder.chunk
               IN  /\ n > 0 /\ LockHolders' = LockHolders \cup {r}
                   /\ req'[r].prefix = SlotsOf(tree_cache, node) /\ req'[r].node = node /\ req'[r].row = req[r].row
                   /\ req'[r].seq = req[r].seq /\ req'[r].out = req[r].out /\ req'[r].fill = Len(node) + n
                   /\ adder'.canRun = Append(adder.canRun, r) /\ adder'.tokens = adder.tokens + n
                   /\ adder'.chunk = adder.chunk - n
                   /\ adder'.inflight = IF whole THEN adder.inflight ELSE r
<1> DEFINE key == MatchKey(r)
           split == Split(tree_cache, {key})
           node == Cached(tree_cache, key)
           locked == IncLock(split, node)
           prefix == SlotsOf(split, node)
           extend == Len(Ids(r)) - Len(node)
           whole == extend <= adder.chunk
           n == IF whole THEN extend ELSE adder.chunk
           fill == Len(node) + n
           room == adder.total + (locked.evictable - split.evictable)
           more == IF whole THEN MaxNewTokens(r) ELSE 0
           full == Full(extend + MaxNewTokens(r), adder.total, room)
           fits == ~full /\ ~(extend > adder.input /\ adder.canRun # <<>>) /\ n > 0
           taken == Take([adder EXCEPT !.total = room], r, n, more)
           fitted == [taken EXCEPT !.inflight = IF whole THEN taken.inflight ELSE r]
           q == req[r]
           moved == [q EXCEPT !.prefix = prefix, !.node = node, !.fill = fill]
<1>1. /\ UNCHANGED <<kvFree, rowFree, reqToToken, finished, running, inflight, last, batch, todo>> /\ pc = "adding"
      /\ pc' \in {"adding", "extend"} /\ r \in waiting \ Range(adder.canRun)
      /\ Cardinality(running) + Len(adder.canRun) < MaxRunning
  BY DEF AddOneReq, Candidates
<1>2. \/ ~fits /\ tree_cache' = split /\ adder' = adder /\ req' = req /\ pc' = "extend"
      \/ /\ fits /\ tree_cache' = locked /\ adder' = fitted
         /\ req' = [req EXCEPT ![r].prefix = prefix, ![r].node = node, ![r].fill = fill]
  BY DEF AddOneReq
<1>3. IsRadix(split, Tokens) /\ split.value = tree_cache.value
  <2> DEFINE keys == {key}
  <2>1. keys \subseteq Seq(Tokens)
    BY IdsTyped
  <2> HIDE DEF keys
  <2>2. IsRadix(Split(tree_cache, keys), Tokens) /\ Split(tree_cache, keys).value = tree_cache.value
    BY <2>1, SplitRadix DEF TreeTyped
  <2> QED
    BY <2>2 DEF keys
<1> HIDE DEF split
<1>4. locked.value = tree_cache.value
  BY <1>3, LockRadix
<1>5. tree_cache'.value = tree_cache.value
  <2> HIDE DEF locked, fits, fitted
  <2> QED
    BY <1>2, <1>3, <1>4
<1>6. prefix = SlotsOf(tree_cache, node)
  BY <1>3 DEF SlotsOf
<1>7. last.reqs = {} /\ todo = {} /\ r # inflight /\ r \notin RowHolders /\ r \notin LockHolders /\ r \notin Range(adder.canRun)
  BY <1>1 DEF Loop, NoBatch, Apart, RowHolders, LockHolders
<1>8. RowHolders' = RowHolders
  BY <1>1 DEF RowHolders
<1>9. CASE ~fits /\ tree_cache' = split /\ adder' = adder /\ req' = req /\ pc' = "extend"
  <2>1. LockHolders' = LockHolders
    <3> HIDE DEF fits
    <3> QED
      BY <1>1, <1>8, <1>9 DEF LockHolders
  <2> HIDE DEF fits
  <2> QED
    BY <1>1, <1>5, <1>7, <1>8, <1>9, <2>1
<1>10. CASE /\ fits /\ tree_cache' = locked /\ adder' = fitted
            /\ req' = [req EXCEPT ![r].prefix = prefix, ![r].node = node, ![r].fill = fill]
  <2>1. n > 0
    BY <1>10
  <2>2. req'[r] = moved /\ \A o \in Requests \ {r} : req'[o] = req[o]
    <3> HIDE DEF prefix, node, fill, fitted, fits, locked
    <3> QED
      BY <1>10 DEF BatchTypes
  <2>3. /\ fitted.canRun = Append(adder.canRun, r) /\ fitted.tokens = adder.tokens + n /\ fitted.chunk = adder.chunk - n
        /\ fitted.inflight = IF whole THEN adder.inflight ELSE r
    <3>1. DOMAIN adder = DOMAIN NoAdder
      BY DEF BatchTypes, AdderTyped
    <3> HIDE DEF n, room, more, whole
    <3>2. /\ taken.canRun = Append(adder.canRun, r) /\ taken.tokens = adder.tokens + n /\ taken.chunk = adder.chunk - n
          /\ taken.inflight = adder.inflight /\ DOMAIN taken = DOMAIN NoAdder
      BY <3>1 DEF NoAdder, Take
    <3> HIDE DEF taken
    <3> QED
      BY <3>2 DEF NoAdder
  <2> HIDE DEF fitted
  <2>4. /\ moved.prefix = prefix /\ moved.node = node /\ moved.fill = fill /\ moved.row = q.row /\ moved.seq = q.seq
        /\ moved.out = q.out
    <3> HIDE DEF prefix, node, fill
    <3> QED
      BY ReqFields
  <2>5. LockHolders' = LockHolders \cup {r}
    <3>1. Range(adder'.canRun) = Range(adder.canRun) \cup {r}
      <4>1. adder'.canRun = Append(adder.canRun, r)
        BY <1>10, <2>3
      <4> QED
        BY <4>1, AppendRange DEF BatchTypes, AdderTyped
    <3> HIDE DEF fits
    <3> QED
      BY <1>1, <1>8, <3>1 DEF LockHolders
  <2>6. /\ req'[r].prefix = SlotsOf(tree_cache, node) /\ req'[r].node = node /\ req'[r].row = req[r].row
        /\ req'[r].seq = req[r].seq /\ req'[r].out = req[r].out /\ req'[r].fill = Len(node) + n
    BY <1>6, <2>2, <2>4
  <2>7. /\ adder'.canRun = Append(adder.canRun, r) /\ adder'.tokens = adder.tokens + n
        /\ adder'.chunk = adder.chunk - n /\ adder'.inflight = IF whole THEN adder.inflight ELSE r
    BY <1>10, <2>3
  <2>8. /\ node = Cached(tree_cache, MatchKey(r)) /\ extend = Len(Ids(r)) - Len(node)
    OBVIOUS
  <2>9. whole <=> extend <= adder.chunk
    OBVIOUS
  <2>10. n = IF extend <= adder.chunk THEN extend ELSE adder.chunk
    OBVIOUS
  <2> HIDE DEF fits, moved, prefix, fill, locked, node, extend, n, whole
  <2> QED
    BY <1>1, <1>5, <1>7, <1>8, <2>1, <2>2, <2>5, <2>6, <2>7, <2>8, <2>9, <2>10
<1> HIDE DEF fits, fitted, prefix, node, fill, locked
<1> QED
  BY <1>2, <1>9, <1>10

\* The request in flight, in the batch prefilled last, is cached and leaves its row.
LEMMA MergeLastBatchReq ==
  ASSUME BatchTypes, Loop, Apart, MergeLastBatch
  PROVE  /\ UNCHANGED <<inflight, todo, adder>> /\ pc = "recv" /\ pc' = "prefill" /\ todo = {}
         /\ LockHolders' = LockHolders
         /\ \/ /\ inflight \in RowHolders /\ CacheUnfinished(inflight) /\ RowHolders' = RowHolders \ {inflight}
               /\ (\A o \in Requests \ {inflight} : req'[o] = req[o]) /\ req'[inflight] = CachedAs(inflight)
            \/ UNCHANGED <<memory, req>> /\ RowHolders' = RowHolders
<1>1. /\ UNCHANGED <<finished, inflight, todo, adder, batch>> /\ pc = "recv" /\ pc' = "prefill" /\ last'.reqs = {}
  BY DEF MergeLastBatch, NoBatch
<1>2. todo = {}
  BY <1>1 DEF Loop
<1>3. CASE last.reqs # {} /\ inflight # None
  <2> DEFINE r == inflight
  <2>1. r \in last.reqs /\ r \in Requests /\ r \notin running /\ r \notin finished
    BY <1>3 DEF Loop, BatchTypes, Apart
  <2>2. /\ running' = running \cup (last.reqs \ (finished \cup {r})) /\ CacheUnfinished(r)
        /\ req' = [req EXCEPT ![r] = CachedAs(r)]
    BY <1>3 DEF MergeLastBatch
  <2>3. r \in RowHolders /\ RowHolders' = RowHolders \ {r} /\ LockHolders' = LockHolders
    BY <1>1, <1>3, <2>1, <2>2 DEF LockHolders, RowHolders
  <2>4. (\A o \in Requests \ {r} : req'[o] = req[o]) /\ req'[r] = CachedAs(r)
    BY <2>1, <2>2 DEF BatchTypes
  <2> QED
    BY <1>1, <1>2, <2>2, <2>3, <2>4
<1>4. CASE ~(last.reqs # {} /\ inflight # None)
  <2>1. running' = running \cup last.reqs /\ UNCHANGED <<memory, req>>
    BY <1>4 DEF MergeLastBatch
  <2>2. RowHolders' = RowHolders /\ LockHolders' = LockHolders
    BY <1>1, <2>1 DEF LockHolders, RowHolders
  <2> QED
    BY <1>1, <1>2, <2>1, <2>2
<1> QED
  BY <1>3, <1>4

\* Making room to decode filters the batch and evicts.
LEMMA CheckDecodeMemReq ==
  ASSUME BatchTypes, Loop, Apart, CheckDecodeMem
  PROVE  /\ UNCHANGED <<rowFree, reqToToken, req, inflight, adder, todo>> /\ pc = "decode" /\ todo = {}
         /\ RowHolders' = RowHolders /\ LockHolders' = LockHolders
         /\ \E N : /\ N \subseteq tree_cache.nodes /\ tree_cache' = Without(tree_cache, N) /\ kvFree' = FreeAfter(N)
                   /\ pc' = IF Cardinality(kvFree') >= Cardinality(running') THEN "jump" ELSE "retract"
<1>1. /\ UNCHANGED <<rowFree, reqToToken, req, finished, inflight, last, adder, batch, todo>> /\ pc = "decode"
      /\ pc' # "process" /\ running' = running \ finished
  BY DEF CheckDecodeMem
<1>2. todo = {}
  BY <1>1 DEF Loop
<1>3. RowHolders' = RowHolders /\ LockHolders' = LockHolders
  BY <1>1 DEF LockHolders, RowHolders
<1>4. PICK N \in RoomFor(Cardinality(running \ finished)) :
        /\ tree_cache' = Without(tree_cache, N) /\ kvFree' = FreeAfter(N)
        /\ pc' = IF Cardinality(FreeAfter(N)) >= Cardinality(running \ finished) THEN "jump" ELSE "retract"
  BY DEF CheckDecodeMem
<1>5. N \subseteq tree_cache.nodes
  BY RoomForClosed, EvictionsClosed
<1> QED
  BY <1>1, <1>2, <1>3, <1>4, <1>5

\* A decode computes one token more of each running request.
LEMMA PrepareForDecodeReq ==
  ASSUME BatchTypes, Loop, Apart, PrepareForDecode
  PROVE  /\ UNCHANGED <<tree_cache, rowFree, inflight, adder>> /\ pc = "jump" /\ pc' = "process" /\ todo = {}
         /\ todo' = running /\ batch'.mode = "decode"
         /\ RowHolders = running /\ RowHolders' = running /\ LockHolders' = LockHolders
         /\ \A o \in Requests : /\ req'[o].prefix = req[o].prefix /\ req'[o].node = req[o].node /\ req'[o].row = req[o].row
                                /\ req'[o].fill = req[o].fill /\ req'[o].out = req[o].out
         /\ \A o \in running : req'[o].seq = req[o].seq + 1
<1>1. /\ pc = "jump" /\ pc' = "process" /\ batch'.reqs = running /\ batch'.mode = "decode" /\ todo' = running
      /\ UNCHANGED <<tree_cache, rowFree, finished, running, last, inflight, adder>>
      /\ req' = [r \in Requests |-> IF r \in running THEN [req[r] EXCEPT !.seq = @ + 1] ELSE req[r]]
  BY DEF PrepareForDecode
<1>2. RowHolders = running /\ RowHolders' = running /\ LockHolders' = LockHolders /\ todo = {}
  BY <1>1 DEF LockHolders, RowHolders, Apart, Loop, NoBatch
<1>3. \A o \in Requests : /\ req'[o].prefix = req[o].prefix /\ req'[o].node = req[o].node /\ req'[o].row = req[o].row
                          /\ req'[o].fill = req[o].fill /\ req'[o].out = req[o].out
  BY <1>1, ReqFields
<1>4. \A o \in running : req'[o].seq = req[o].seq + 1
  <2>1. running \subseteq Requests
    BY DEF BatchTypes
  <2> QED
    BY <1>1, <2>1, ReqFields
<1> QED
  BY <1>1, <1>2, <1>3, <1>4

\* A batch of prefills computes each of its requests as far as it was filled.
LEMMA PrepareForExtendReq ==
  ASSUME ~IsMixedChunk, BatchTypes, Loop, Apart, PrepareForExtend
  PROVE  /\ pc = "extend" /\ todo = {} /\ LockHolders' = LockHolders /\ Range(adder.canRun) \cap RowHolders = {}
         /\ RowHolders = running \ finished
         /\ \/ /\ pc' = "out_of_memory" /\ UNCHANGED <<memory, req, running, inflight, batch, todo, adder>>
               /\ RowHolders' = RowHolders
            \/ /\ pc' = "process" /\ todo' = Range(adder.canRun) /\ adder' = NoAdder /\ batch'.mode = "extend"
               /\ RowHolders' = RowHolders \cup Range(adder.canRun)
               /\ inflight' = (IF adder.inflight # None THEN adder.inflight ELSE inflight)
               /\ \A o \in Requests : /\ req'[o].prefix = req[o].prefix /\ req'[o].node = req[o].node
                                      /\ req'[o].fill = req[o].fill /\ req'[o].out = req[o].out
                                      /\ req'[o].seq = IF o \in Range(adder.canRun) THEN req[o].fill ELSE req[o].seq
               /\ \E N : N \subseteq tree_cache.nodes /\ tree_cache' = Without(tree_cache, N)
               /\ DOMAIN reqToToken' = Rows
<1> DEFINE reqs == Range(adder.canRun)
           rows == Lowest(rowFree, Len(adder.canRun))
           At(r) == CHOOSE i \in DOMAIN adder.canRun : adder.canRun[i] = r
           mixed == IF IsMixedChunk THEN running ELSE {}
           flying == IF adder.inflight # None THEN adder.inflight ELSE inflight
           prepared == [r \in Requests |->
             IF r \in reqs
             THEN [req[r] EXCEPT !.row = rows[At(r)], !.seq = req[r].fill,
                                 !.chunks = IF r = flying THEN @ + 1 ELSE @]
             ELSE IF r \in mixed THEN [req[r] EXCEPT !.seq = @ + 1, !.fill = Len(Ids(r))]
             ELSE req[r]]
<1>1. UNCHANGED <<finished, last>> /\ pc = "extend" /\ last.reqs = {} /\ todo = {}
  BY PrepareForExtendLeaves DEF Loop, NoBatch
<1>2. RowHolders = running \ finished /\ reqs \cap (running \cup finished) = {} /\ reqs \subseteq LockHolders
      /\ ({inflight, adder.inflight} \ {None}) \subseteq reqs
  BY <1>1 DEF RowHolders, Apart, LockHolders, Loop
<1>3. \/ /\ pc' = "out_of_memory" /\ UNCHANGED <<memory, req, running, inflight, batch, todo, adder>>
      \/ /\ pc' = "process" /\ todo' = reqs \cup mixed /\ adder' = NoAdder /\ running' = running \ mixed
         /\ batch' = [mode |-> "extend", reqs |-> reqs \cup mixed, decoding |-> mixed]
         /\ inflight' = flying /\ req' = prepared /\ DOMAIN reqToToken' = Rows
         /\ \E n : \E N \in RoomFor(n) : tree_cache' = Without(tree_cache, N)
  <2> HIDE DEF mixed
  <2> QED
    BY DEF PrepareForExtend, mixed
<1>4. CASE pc' = "out_of_memory" /\ UNCHANGED <<memory, req, running, inflight, batch, todo, adder>>
  <2>1. RowHolders' = RowHolders /\ LockHolders' = LockHolders
    BY <1>1, <1>4 DEF LockHolders, RowHolders
  <2> QED
    BY <1>1, <1>2, <1>4, <2>1
<1>5. CASE /\ pc' = "process" /\ todo' = reqs \cup mixed /\ adder' = NoAdder /\ running' = running \ mixed
           /\ batch' = [mode |-> "extend", reqs |-> reqs \cup mixed, decoding |-> mixed]
           /\ inflight' = flying /\ req' = prepared /\ DOMAIN reqToToken' = Rows
           /\ \E n : \E N \in RoomFor(n) : tree_cache' = Without(tree_cache, N)
  <2>1. mixed = {}
    OBVIOUS
  <2>2. RowHolders' = RowHolders \cup reqs
    <3> HIDE DEF reqs
    <3> QED
      BY <1>1, <1>2, <1>5, <2>1 DEF RowHolders
  <2>3. LockHolders' = LockHolders
    <3>1. inflight' \in {inflight, adder.inflight}
      BY <1>5
    <3>2. inflight # None /\ adder.inflight # None => inflight \in reqs
      BY <1>2
    <3> HIDE DEF reqs
    <3>3. LockHolders' = RowHolders \cup reqs
      BY <1>2, <1>5, <2>2, <3>1, EmptyRange DEF LockHolders
    <3>4. LockHolders = RowHolders \cup reqs
      BY <1>2 DEF LockHolders, reqs
    <3> QED
      BY <3>3, <3>4
  <2>4. ASSUME NEW o \in Requests
        PROVE  /\ req'[o].prefix = req[o].prefix /\ req'[o].node = req[o].node
               /\ req'[o].fill = req[o].fill /\ req'[o].out = req[o].out
               /\ req'[o].seq = IF o \in reqs THEN req[o].fill ELSE req[o].seq
    <3> HIDE DEF rows, At, reqs, flying, mixed
    <3>1. req'[o] = IF o \in reqs
                    THEN [req[o] EXCEPT !.row = rows[At(o)], !.seq = req[o].fill,
                                        !.chunks = IF o = flying THEN @ + 1 ELSE @]
                    ELSE req[o]
      BY <1>5, <2>1
    <3> QED
      BY <3>1, ReqFields
  <2>5. \E N : N \subseteq tree_cache.nodes /\ tree_cache' = Without(tree_cache, N)
    BY <1>5, RoomForClosed, EvictionsClosed
  <2>6. todo' = reqs /\ batch'.mode = "extend" /\ reqs \cap RowHolders = {}
    BY <1>2, <1>5, <2>1
  <2> HIDE DEF mixed, prepared, rows, At
  <2> QED
    BY <1>1, <1>2, <1>5, <2>2, <2>3, <2>4, <2>5, <2>6
<1> QED
  BY <1>3, <1>4, <1>5

-------------------------------------------------------------------------------
(* How far the requests are computed                                       *)

\* One more token is one more, and leaves what the tokens begin with.
LEMMA IdsLonger ==
  ASSUME NEW T, NEW p \in Seq(T), NEW o \in Seq(T), NEW x \in T
  PROVE  /\ p \o Append(o, x) \in Seq(T) /\ Len(p \o Append(o, x)) = Len(p \o o) + 1
         /\ Heads(p \o o) \subseteq Heads(p \o Append(o, x))
<1> DEFINE a == p \o o
           q == Append(o, x)
           b == p \o q
           k == Len(p)
           n == Len(o)
<1>1. a \in Seq(T) /\ Len(a) = k + n /\ \A i \in 1..(k + n) : a[i] = IF i <= k THEN p[i] ELSE o[i - k]
  BY ConcatProperties
<1>2. q \in Seq(T) /\ Len(q) = n + 1 /\ \A i \in 1..n : q[i] = o[i]
  BY AppendProperties
<1>3. b \in Seq(T) /\ Len(b) = k + Len(q) /\ \A i \in 1..(k + Len(q)) : b[i] = IF i <= k THEN p[i] ELSE q[i - k]
  <2> HIDE DEF q
  <2> QED
    BY <1>2, ConcatProperties
<1>4. k \in Nat /\ n \in Nat
  OBVIOUS
<1> HIDE DEF a, q, b, k, n
<1>5. Len(b) = Len(a) + 1 /\ Len(a) \in Nat /\ \A i \in 1..Len(a) : a[i] = b[i]
  BY <1>1, <1>2, <1>3, <1>4
<1>6. Starts(a, b)
  BY <1>5 DEF Starts
<1>7. \A h \in Heads(a) : h \in Heads(b)
  BY <1>1, <1>3, <1>6, HeadsAre, StartsOrder
<1> QED
  BY <1>3, <1>5, <1>7 DEF a, b, q

\* The same of the tokens of a request.
LEMMA IdsGrow ==
  ASSUME BatchTypes, NEW r \in Requests, NEW x \in Tokens, req'[r].out = Append(req[r].out, x)
  PROVE  Len(Ids(r)') = Len(Ids(r)) + 1 /\ Heads(Ids(r)) \subseteq Heads(Ids(r)') /\ Ids(r)' \in Seq(Tokens)
<1>1. Prompt[r] \in Seq(Tokens) /\ req[r].out \in Seq(Tokens)
  BY EngineAssumption DEF BatchTypes, ReqTyped
<1> DEFINE p == Prompt[r]
           o == req[r].out
<1>2. Ids(r)' = p \o Append(o, x) /\ Ids(r) = p \o o
  BY DEF Ids
<1>3. p \in Seq(Tokens) /\ o \in Seq(Tokens)
  BY <1>1
<1> HIDE DEF p, o
<1>4. /\ p \o Append(o, x) \in Seq(Tokens) /\ Len(p \o Append(o, x)) = Len(p \o o) + 1
      /\ Heads(p \o o) \subseteq Heads(p \o Append(o, x))
  BY <1>3, IdsLonger
<1> QED
  BY <1>2, <1>4

\* A request is left as it is, and so is whether it is in flight and to be processed.
LEMMA ComputedSame ==
  ASSUME NEW r, AsComputed(r), SameFields(r), req'[r].out = req[r].out, r = inflight' <=> r = inflight,
         r # inflight => (r \in todo' <=> r \in todo), r \in todo => batch' = batch
  PROVE  AsComputed(r)'
BY DEF AsComputed, SameFields, Ids

\* The usual case: nobody comes.
LEMMA ComputedOthers ==
  ASSUME Computed, RowHolders' \subseteq RowHolders, todo' = todo, todo # {} => batch' = batch,
         \A r \in RowHolders' : req'[r] = req[r] /\ (r = inflight' <=> r = inflight)
  PROVE  Computed'
<1>1. ASSUME NEW r \in RowHolders' PROVE AsComputed(r)'
  BY ComputedSame DEF Computed, SameFields
<1> QED
  BY <1>1 DEF Computed

\* A batch of prefills is computed as it was filled.
LEMMA PrepareForExtendComputed ==
  ASSUME ~IsMixedChunk, BatchTypes, Loop, Apart, Added, Computed, PrepareForExtend
  PROVE  Computed'
<1> DEFINE reqs == Range(adder.canRun)
<1>1. /\ pc = "extend" /\ todo = {} /\ reqs \cap RowHolders = {} /\ RowHolders = running \ finished
      /\ reqs \subseteq Requests /\ RowHolders \subseteq Requests /\ None \notin Requests
  BY PrepareForExtendReq, HoldersAre, EngineAssumption DEF LockHolders
<1>2. CASE /\ UNCHANGED <<memory, req, running, inflight, batch, todo, adder>> /\ RowHolders' = RowHolders
  BY <1>2, ComputedOthers
<1>3. CASE /\ todo' = reqs /\ batch'.mode = "extend" /\ RowHolders' = RowHolders \cup reqs
           /\ inflight' = (IF adder.inflight # None THEN adder.inflight ELSE inflight)
           /\ \A o \in Requests : /\ req'[o].fill = req[o].fill /\ req'[o].out = req[o].out
                                  /\ req'[o].seq = IF o \in reqs THEN req[o].fill ELSE req[o].seq
  <2>1. adder.inflight # None => inflight = None
    BY DEF Added
  <2>2. inflight \in reqs \cup {None} /\ adder.inflight \in reqs \cup {None}
    BY <1>1 DEF Loop
  <2>3. ASSUME NEW r \in reqs PROVE AsComputed(r)'
    <3>1. r \notin {inflight, adder.inflight} => req[r].fill = Len(Ids(r))
      BY DEF Added
    <3>2. r # inflight' => r \notin {inflight, adder.inflight}
      BY <1>1, <1>3, <2>1, <2>3
    <3>3. Ids(r)' = Ids(r) /\ req'[r].fill = req[r].fill /\ req'[r].seq = req[r].fill
      BY <1>1, <1>3 DEF Ids
    <3> HIDE DEF reqs
    <3> QED
      BY <1>3, <3>1, <3>2, <3>3 DEF AsComputed
  <2>4. ASSUME NEW r \in RowHolders PROVE AsComputed(r)'
    <3>1. AsComputed(r) /\ r \notin todo /\ r \notin todo' /\ r \notin reqs
      BY <1>1, <1>3 DEF Computed
    <3>2. r # inflight /\ r # inflight'
      <4>1. r # inflight /\ r # None
        BY <1>1 DEF Apart
      <4>2. inflight' \in reqs \cup {None}
        BY <1>3, <2>2
      <4> HIDE DEF reqs
      <4> QED
        BY <3>1, <4>1, <4>2
    <3>3. Ids(r)' = Ids(r) /\ req'[r].seq = req[r].seq
      BY <1>1, <1>3, <3>1 DEF Ids
    <3> QED
      BY <3>1, <3>2, <3>3 DEF AsComputed
  <2> HIDE DEF reqs
  <2> QED
    BY <1>3, <2>3, <2>4 DEF Computed
<1> QED
  BY <1>2, <1>3, PrepareForExtendReq

\* A decode computes the token sampled last.
LEMMA PrepareForDecodeComputed ==
  ASSUME BatchTypes, Loop, Apart, Computed, PrepareForDecode
  PROVE  Computed'
<1>1. ASSUME NEW r \in RowHolders' PROVE AsComputed(r)'
  <2>1. r \in RowHolders /\ r \in todo' /\ r \notin todo /\ r # inflight /\ r # inflight' /\ batch'.mode = "decode"
    BY PrepareForDecodeReq DEF Apart
  <2>2. r \in Requests
    BY <2>1, HoldersAre DEF LockHolders
  <2>3. req'[r].seq = req[r].seq + 1 /\ Ids(r)' = Ids(r)
    BY <2>1, <2>2, PrepareForDecodeReq DEF Ids
  <2>4. req[r].seq = Len(Ids(r)) - 1 /\ Len(Ids(r)) \in Nat
    BY <2>1, <2>2, IdsTyped DEF Computed, AsComputed
  <2> QED
    BY <2>1, <2>3, <2>4 DEF AsComputed
<1> QED
  BY <1>1 DEF Computed

\* A result is one token more that is not computed.
LEMMA ProcessComputed ==
  ASSUME BatchTypes, Loop, Apart, ChunksCounted, Computed, NEW r \in Requests, NEW token \in Sampled, NEW stop,
         Process(r, token, stop)
  PROVE  Computed'
<1>1. /\ \A o \in Requests \ {r} : req'[o] = req[o]
      /\ req'[r].seq = req[r].seq /\ req'[r].out = Append(req[r].out, token)
      /\ UNCHANGED <<inflight, batch>> /\ todo' = todo \ {r} /\ r \in todo /\ r # inflight /\ r \in RowHolders
  BY ProcessReq
<1>2. RowHolders' \subseteq RowHolders /\ RowHolders \subseteq Requests
  BY ProcessReq, HoldersAre DEF LockHolders
<1>3. ASSUME NEW o \in RowHolders' \ {r} PROVE AsComputed(o)'
  BY <1>1, <1>2, ComputedSame DEF Computed, SameFields
<1>4. AsComputed(r)'
  <2>1. Len(Ids(r)') = Len(Ids(r)) + 1 /\ Len(Ids(r)) \in Nat
    BY <1>1, IdsGrow, IdsTyped, EngineAssumption
  <2>2. req[r].seq = Len(Ids(r))
    BY <1>1 DEF Computed, AsComputed
  <2> QED
    BY <1>1, <2>1, <2>2 DEF AsComputed
<1> QED
  BY <1>3, <1>4 DEF Computed

\* No step leaves a holder more or less computed than its tokens say.
LEMMA ComputedKept ==
  ASSUME PrefixAware, ~IsMixedChunk, LockInv, Added, Computed, [BatchNext]_batchVars
  PROVE  Computed'
<1>0. /\ TreeTyped /\ BatchTypes /\ Loop /\ Apart /\ ChunksCounted
      /\ RowHolders \subseteq Requests /\ None \notin Requests /\ Sampled \subseteq Tokens
  BY HoldersAre, EngineAssumption DEF LockInv, EngineInv, LockHolders
<1>1. CASE Quiet
  BY <1>0, <1>1, QuietSteps, ComputedOthers
<1>2. ASSUME NEW r \in Requests, Abort(r) PROVE Computed'
  <2>1. UNCHANGED <<req, inflight, todo>> /\ todo = {} /\ RowHolders' \subseteq RowHolders
    BY <1>0, <1>2, AbortReq DEF Loop
  <2> QED
    BY <2>1, ComputedOthers
<1>3. CASE CheckDecodeMem
  <2>1. UNCHANGED <<req, inflight, todo>> /\ todo = {} /\ RowHolders' \subseteq RowHolders
    BY <1>0, <1>3, CheckDecodeMemReq
  <2> QED
    BY <2>1, ComputedOthers
<1>4. ASSUME NEW r \in Requests, Retract(r) PROVE Computed'
  <2>1. /\ \A o \in Requests \ {r} : req'[o] = req[o]
        /\ UNCHANGED <<inflight, todo>> /\ todo = {} /\ RowHolders' = RowHolders \ {r}
    BY <1>0, <1>4, RetractReq
  <2> QED
    BY <1>0, <2>1, ComputedOthers
<1>5. ASSUME NEW r \in Requests, NEW token, Jump(r, token) PROVE Computed'
  <2>1. /\ \A o \in Requests \ {r} : req'[o] = req[o]
        /\ UNCHANGED <<inflight, todo>> /\ todo = {} /\ RowHolders' = RowHolders \ {r}
    BY <1>0, <1>5, JumpReq
  <2> QED
    BY <1>0, <2>1, ComputedOthers
<1>6. ASSUME NEW share, BeginPrefill(share) PROVE Computed'
  <2>1. /\ \A o \in Requests : o # inflight => req'[o] = req[o]
        /\ UNCHANGED todo /\ todo = {} /\ RowHolders' = RowHolders /\ inflight \notin RowHolders /\ inflight' \in {inflight, None}
    BY <1>0, <1>6, BeginPrefillReq
  <2> QED
    BY <1>0, <2>1, ComputedOthers
<1>7. ASSUME NEW r \in Requests, AddOneReq(r) PROVE Computed'
  <2>1. /\ \A o \in Requests \ {r} : req'[o] = req[o]
        /\ UNCHANGED <<inflight, todo>> /\ todo = {} /\ RowHolders' = RowHolders /\ r \notin RowHolders
    BY <1>0, <1>7, AddOneReqReq
  <2> QED
    BY <1>0, <2>1, ComputedOthers
<1>8. CASE MergeLastBatch
  <2>1. /\ UNCHANGED <<inflight, todo>> /\ todo = {}
        /\ \/ /\ RowHolders' = RowHolders \ {inflight} /\ \A o \in Requests \ {inflight} : req'[o] = req[o]
           \/ UNCHANGED req /\ RowHolders' = RowHolders
    BY <1>0, <1>8, MergeLastBatchReq
  <2>2. RowHolders' \subseteq RowHolders /\ \A r \in RowHolders' : req'[r] = req[r]
    BY <1>0, <2>1
  <2> QED
    BY <2>1, <2>2, ComputedOthers
<1>9. ASSUME NEW r \in Requests, ProcessChunk(r) PROVE Computed'
  <2>1. /\ \A o \in Requests : SameFields(o) /\ req'[o].out = req[o].out
        /\ RowHolders' = RowHolders /\ UNCHANGED <<inflight, batch>> /\ todo' = todo \ {r} /\ r = inflight
    BY <1>0, <1>9, ProcessChunkReq
  <2>2. ASSUME NEW o \in RowHolders' PROVE AsComputed(o)'
    BY <1>0, <2>1, ComputedSame DEF Computed
  <2> QED
    BY <2>2 DEF Computed
<1>10. ASSUME NEW r \in Requests, NEW token \in Sampled, NEW stop, Process(r, token, stop) PROVE Computed'
  BY <1>0, <1>10, ProcessComputed
<1>11. CASE PrepareForExtend
  BY <1>0, <1>11, PrepareForExtendComputed
<1>12. CASE PrepareForDecode
  BY <1>0, <1>12, PrepareForDecodeComputed
<1> QED
  BY <1>1, <1>2, <1>3, <1>4, <1>5, <1>6, <1>7, <1>8, <1>9, <1>10, <1>11, <1>12
  DEF BatchNext, LoopStep, Outside, Quiet

-------------------------------------------------------------------------------
(* The memory stays partitioned                                            *)

\* A request whose last token is not computed is cached without it.
LEMMA LastUncomputed ==
  ASSUME BatchTypes, OwnTokens, Memory, Computed, NEW r \in RowHolders, r # inflight, r \notin todo
  PROVE  MatchKey(r) \in Seq(Tokens) /\ Len(MatchKey(r)) = req[r].seq /\ req[r].node \in Heads(MatchKey(r)) \cup {<<>>}
<1> DEFINE ids == MatchKey(r)
<1>1. r \in Requests
  BY HoldersAre DEF LockHolders
<1>2. req[r].seq = Len(Ids(r)) - 1 /\ Len(Ids(r)) \in Nat
  BY <1>1, IdsTyped DEF Computed, AsComputed
<1>3. ids = SubSeq(Ids(r), 1, req[r].seq) /\ req[r].seq <= Len(Ids(r))
  BY <1>2 DEF MatchKey
<1> HIDE DEF ids
<1>4. ids \in Seq(Tokens) /\ Len(ids) = req[r].seq /\ req[r].node \in Heads(ids) \cup {<<>>}
  BY <1>3, ComputedIds
<1> QED
  BY <1>4 DEF ids

\* One whose result is to come has all of its tokens computed.
LEMMA AllComputed ==
  ASSUME BatchTypes, OwnTokens, Computed, NEW r \in RowHolders, r # inflight, r \in todo
  PROVE  /\ Ids(r) \in Seq(Tokens) /\ Len(Ids(r)) = req[r].seq /\ req[r].node \in Heads(Ids(r)) \cup {<<>>}
         /\ req[r].seq <= Len(Ids(r)) /\ (batch.mode = "extend" => req[r].fill = req[r].seq)
<1>1. r \in Requests /\ r \in LockHolders
  BY HoldersAre DEF LockHolders
<1>2. req[r].seq = Len(Ids(r)) /\ Len(Ids(r)) \in Nat /\ Ids(r) \in Seq(Tokens)
  BY <1>1, IdsTyped DEF Computed, AsComputed
<1> QED
  BY <1>1, <1>2 DEF OwnTokens, Computed, AsComputed

\* A result: the request leaves, goes on from the cache, or decodes on.
LEMMA ProcessMemory ==
  ASSUME TreeTyped, BatchTypes, Loop, Apart, ChunksCounted, LocksHeld, OwnTokens, Memory, Computed, TableTyped,
         NEW r \in Requests, NEW token, NEW stop, Process(r, token, stop)
  PROVE  Memory' /\ Agree(tree_cache, tree_cache')
<1>1. /\ \A o \in Requests \ {r} : req'[o] = req[o]
      /\ req'[r].row = req[r].row /\ req'[r].seq = req[r].seq
      /\ r \in todo /\ r # inflight /\ r \in RowHolders
  BY ProcessReq
<1>2. RowHolders \subseteq Requests
  BY HoldersAre DEF LockHolders
<1>3. CASE CacheFinished(r, Ids(r)) /\ RowHolders' = RowHolders \ {r}
  <2>1. \A o \in RowHolders \ {r} : SameUse(o)
    BY <1>1, <1>2, <1>3 DEF SameUse, CacheFinished
  <2> DEFINE ids == Ids(r)
  <2>2. ids \in Seq(Tokens) /\ Len(ids) = req[r].seq /\ req[r].node \in Heads(ids) \cup {<<>>}
    BY <1>1, AllComputed
  <2>3. CacheFinished(r, ids) /\ RowHolders' = RowHolders \ {r}
    BY <1>3
  <2> HIDE DEF ids
  <2> QED
    BY <1>1, <2>1, <2>2, <2>3, CacheFinishedMemory
<1>4. CASE /\ CacheUnfinished(r) /\ rowFree' = rowFree /\ RowHolders' = RowHolders
           /\ req'[r].prefix = CachedAs(r).prefix /\ batch.mode = "extend"
  <2>1. \A o \in RowHolders \ {r} : SameUse(o)
    BY <1>1, <1>2, <1>4, CacheUnfinishedRows DEF SameUse
  <2>2. req[r].fill = req[r].seq /\ req[r].seq <= Len(Ids(r))
    BY <1>1, <1>4, AllComputed
  <2> QED
    BY <1>1, <1>4, <2>1, <2>2, CachedGoesOn
<1>5. CASE UNCHANGED memory /\ RowHolders' = RowHolders /\ req'[r].prefix = req[r].prefix
  <2>1. UNCHANGED <<tree_cache, kvFree, rowFree, reqToToken>>
    BY <1>5 DEF memory
  <2>2. \A o \in RowHolders : SameUse(o)
    BY <1>1, <1>2, <1>5, <2>1 DEF SameUse
  <2> QED
    BY <1>5, <2>1, <2>2, MemoryKept
<1> QED
  BY <1>3, <1>4, <1>5, ProcessReq

\* A request that gives way to its jump, or is aborted as it runs, leaves all but its last token to the cache.
LEMMA GoneMemory ==
  ASSUME TreeTyped, BatchTypes, LocksHeld, OwnTokens, Memory, Computed, NEW r \in RowHolders, r # inflight, r \notin todo,
         CacheFinished(r, MatchKey(r)), RowHolders' = RowHolders \ {r}, \A o \in RowHolders \ {r} : req'[o] = req[o]
  PROVE  Memory' /\ Agree(tree_cache, tree_cache')
<1>1. \A o \in RowHolders \ {r} : SameUse(o)
  BY DEF SameUse, CacheFinished
<1> DEFINE ids == MatchKey(r)
<1>2. ids \in Seq(Tokens) /\ Len(ids) = req[r].seq /\ req[r].node \in Heads(ids) \cup {<<>>}
  BY LastUncomputed
<1>3. CacheFinished(r, ids)
  OBVIOUS
<1> HIDE DEF ids
<1> QED
  BY <1>1, <1>2, <1>3, CacheFinishedMemory

\* Every step leaves each slot and each row in one place, and what is cached before and after it where it was.
LEMMA MemoryStep ==
  ASSUME PrefixAware, ~IsMixedChunk, LockInv, OwnTokens, Memory, Computed, Added, DecodeRoom, TableTyped, [BatchNext]_batchVars
  PROVE  Memory' /\ Agree(tree_cache, tree_cache')
<1>0. /\ TreeTyped /\ BatchTypes /\ Loop /\ Apart /\ ChunksCounted /\ LocksHeld
      /\ RowHolders \subseteq Requests
  BY HoldersAre DEF LockInv, EngineInv, LockHolders
<1>1. CASE Quiet
  <2>1. UNCHANGED <<tree_cache, kvFree, rowFree, reqToToken, req>> /\ RowHolders' = RowHolders
    BY <1>0, <1>1, QuietSteps
  <2>2. \A r \in RowHolders : SameUse(r)
    BY <2>1 DEF SameUse
  <2> QED
    BY <2>1, <2>2, MemoryKept
<1>2. ASSUME NEW r \in Requests, Abort(r) PROVE Memory' /\ Agree(tree_cache, tree_cache')
  <2>1. UNCHANGED req /\ todo = {}
    BY <1>0, <1>2, AbortReq DEF Loop
  <2>2. CASE CacheFinished(r, MatchKey(r)) /\ RowHolders' = RowHolders \ {r} /\ r \in RowHolders /\ r # inflight
    BY <1>0, <2>1, <2>2, GoneMemory
  <2>3. CASE UNCHANGED memory /\ RowHolders' = RowHolders
    <3>1. UNCHANGED <<tree_cache, kvFree, rowFree, reqToToken, req>>
      BY <2>1, <2>3 DEF memory
    <3>2. \A o \in RowHolders : SameUse(o)
      BY <3>1 DEF SameUse
    <3> QED
      BY <2>3, <3>1, <3>2, MemoryKept
  <2> QED
    BY <1>0, <1>2, <2>2, <2>3, AbortReq
<1>3. CASE CheckDecodeMem
  <2>1. UNCHANGED <<rowFree, reqToToken, req>> /\ RowHolders' = RowHolders
    BY <1>0, <1>3, CheckDecodeMemReq
  <2>2. \A r \in RowHolders : SameUse(r)
    BY <2>1 DEF SameUse
  <2>3. PICK N : N \subseteq tree_cache.nodes /\ tree_cache' = Without(tree_cache, N) /\ kvFree' = FreeAfter(N)
    BY <1>0, <1>3, CheckDecodeMemReq
  <2> QED
    BY <1>0, <2>1, <2>2, <2>3, EvictedMemory
<1>4. ASSUME NEW r \in Requests, Retract(r) PROVE Memory' /\ Agree(tree_cache, tree_cache')
  <2>1. /\ \A o \in Requests \ {r} : req'[o] = req[o]
        /\ UNCHANGED reqToToken /\ RowHolders' = RowHolders \ {r} /\ r \in RowHolders
    BY <1>0, <1>4, RetractReq
  <2>2. \A o \in RowHolders \ {r} : SameUse(o)
    BY <1>0, <2>1 DEF SameUse
  <2> QED
    BY <1>0, <1>4, <2>1, <2>2, RetractMemory
<1>5. ASSUME NEW r \in Requests, NEW token, Jump(r, token) PROVE Memory' /\ Agree(tree_cache, tree_cache')
  <2>1. /\ \A o \in Requests \ {r} : req'[o] = req[o]
        /\ todo = {} /\ RowHolders' = RowHolders \ {r} /\ r \in RowHolders /\ r # inflight
    BY <1>0, <1>5, JumpReq
  <2>2. CacheFinished(r, MatchKey(r))
    BY <1>5 DEF Jump
  <2> QED
    BY <1>0, <2>1, <2>2, GoneMemory
<1>6. ASSUME NEW share, BeginPrefill(share) PROVE Memory' /\ Agree(tree_cache, tree_cache')
  <2>1. /\ \A o \in Requests : o # inflight => req'[o] = req[o]
        /\ UNCHANGED <<kvFree, rowFree, reqToToken>> /\ tree_cache'.value = tree_cache.value
        /\ RowHolders' = RowHolders /\ inflight \notin RowHolders
    BY <1>0, <1>6, BeginPrefillReq
  <2>2. \A r \in RowHolders : SameUse(r)
    BY <1>0, <2>1 DEF SameUse
  <2> QED
    BY <2>1, <2>2, MemoryKept
<1>7. ASSUME NEW r \in Requests, AddOneReq(r) PROVE Memory' /\ Agree(tree_cache, tree_cache')
  <2>1. /\ \A o \in Requests \ {r} : req'[o] = req[o]
        /\ UNCHANGED <<kvFree, rowFree, reqToToken>> /\ tree_cache'.value = tree_cache.value
        /\ RowHolders' = RowHolders /\ r \notin RowHolders
    BY <1>0, <1>7, AddOneReqReq
  <2>2. \A o \in RowHolders : SameUse(o)
    BY <1>0, <2>1 DEF SameUse
  <2> QED
    BY <2>1, <2>2, MemoryKept
<1>8. ASSUME NEW r \in Requests, ProcessChunk(r) PROVE Memory' /\ Agree(tree_cache, tree_cache')
  <2>1. (\A o \in Requests : SameFields(o)) /\ RowHolders' = RowHolders /\ UNCHANGED memory
    BY <1>0, <1>8, ProcessChunkReq
  <2>2. UNCHANGED <<tree_cache, kvFree, rowFree, reqToToken>>
    BY <2>1 DEF memory
  <2>3. \A o \in RowHolders : SameUse(o)
    BY <1>0, <2>1, <2>2 DEF SameUse, SameFields
  <2> QED
    BY <2>1, <2>2, <2>3, MemoryKept
<1>9. CASE PrepareForDecode
  <2>1. tree_cache' = tree_cache
    BY <1>9 DEF PrepareForDecode
  <2>2. Agree(tree_cache, tree_cache')
    BY <2>1 DEF Agree
  <2> QED
    BY <1>0, <1>9, <2>2, PrepareForDecodeMemory
<1>10. ASSUME NEW r \in Requests, NEW token, NEW stop, Process(r, token, stop)
       PROVE  Memory' /\ Agree(tree_cache, tree_cache')
  BY <1>0, <1>10, ProcessMemory
<1>11. CASE MergeLastBatch
  BY <1>0, <1>11, MergeLastBatchMemory
<1>12. CASE PrepareForExtend
  BY <1>0, <1>12, PrepareForExtendMemory
<1> QED
  BY <1>1, <1>2, <1>3, <1>4, <1>5, <1>6, <1>7, <1>8, <1>9, <1>10, <1>11, <1>12
  DEF BatchNext, LoopStep, Outside, Quiet

\* The table keeps its rows.
LEMMA TableKept ==
  ASSUME ~IsMixedChunk, PrefixAware, LockInv, TableTyped, [BatchNext]_batchVars
  PROVE  TableTyped'
<1>0. TreeTyped /\ BatchTypes /\ Loop /\ Apart /\ ChunksCounted
  BY DEF LockInv, EngineInv
<1>1. CASE reqToToken' = reqToToken
  BY <1>1 DEF TableTyped
<1>2. ASSUME NEW r, CacheUnfinished(r) PROVE TableTyped'
  BY <1>2 DEF CacheUnfinished, TableTyped
<1>3. CASE Quiet
  BY <1>0, <1>1, <1>3, QuietSteps
<1>4. ASSUME NEW r \in Requests, Abort(r) PROVE TableTyped'
  BY <1>1, <1>4 DEF Abort, ReleaseAborted, CacheFinished, memory
<1>5. CASE CheckDecodeMem
  BY <1>1, <1>5 DEF CheckDecodeMem
<1>6. ASSUME NEW r \in Requests, Retract(r) \/ AddOneReq(r) \/ ProcessChunk(r) PROVE TableTyped'
  BY <1>1, <1>6 DEF Retract, AddOneReq, ProcessChunk, memory
<1>7. ASSUME NEW r \in Requests, NEW token, Jump(r, token) PROVE TableTyped'
  BY <1>1, <1>7 DEF Jump, CacheFinished
<1>8. ASSUME NEW share, BeginPrefill(share) PROVE TableTyped'
  BY <1>1, <1>8 DEF BeginPrefill
<1>9. CASE MergeLastBatch
  BY <1>0, <1>1, <1>2, <1>9, MergeLastBatchReq DEF memory
<1>10. ASSUME NEW r \in Requests, NEW token, NEW stop, Process(r, token, stop) PROVE TableTyped'
  <2>1. CacheFinished(r, Ids(r)) => reqToToken' = reqToToken
    BY DEF CacheFinished
  <2>2. UNCHANGED memory => reqToToken' = reqToToken
    BY DEF memory
  <2> QED
    BY <1>0, <1>1, <1>2, <1>10, <2>1, <2>2, ProcessReq
<1>11. CASE PrepareForExtend
  <2>1. UNCHANGED memory => reqToToken' = reqToToken
    BY DEF memory
  <2> QED
    BY <1>0, <1>1, <1>11, <2>1, PrepareForExtendReq DEF TableTyped
<1>12. CASE PrepareForDecode
  BY <1>12 DEF PrepareForDecode, TableTyped
<1> QED
  BY <1>3, <1>4, <1>5, <1>6, <1>7, <1>8, <1>9, <1>10, <1>11, <1>12 DEF BatchNext, LoopStep, Outside, Quiet

\* A set of slots is counted.
LEMMA SlotsCount ==
  ASSUME NEW F, F \subseteq Slots
  PROVE  IsFiniteSet(F) /\ Cardinality(F) \in Nat
<1>1. IsFiniteSet(Slots)
  BY EngineAssumption, FS_Interval DEF Slots
<1>2. IsFiniteSet(F)
  BY <1>1, FS_Subset
<1> QED
  BY <1>2, FS_CardinalityType

\* There is no less room for one step than for several.
LEMMA NoLessSteps ==
  ASSUME NEW n \in Nat, NEW s \in Nat \ {0}
  PROVE  n * s \in Nat /\ n <= n * s
<1>1. s - 1 \in Nat /\ n * s = n * (s - 1) + n
  OBVIOUS
<1>2. n * (s - 1) \in Nat
  BY <1>1
<1> QED
  BY <1>1, <1>2

\* A decode begins with a slot for each running request.
LEMMA DecodeRoomKept ==
  ASSUME LockInv, Memory, Memory', DecodeRoom, [BatchNext]_batchVars
  PROVE  DecodeRoom'
<1>0. BatchTypes /\ Loop /\ Apart
  BY DEF LockInv, EngineInv
<1>1. IsFiniteSet(running) /\ Cardinality(running) \in Nat
  BY <1>0, FS_Subset, FS_CardinalityType DEF BatchTypes
<1>2. /\ kvFree \subseteq Slots /\ kvFree' \subseteq Slots /\ Cardinality(kvFree) \in Nat /\ Cardinality(kvFree') \in Nat
      /\ IsFiniteSet(kvFree')
  BY SlotsCount DEF Memory, SlotsApart, Partition
<1>3. CASE pc' # "jump"
  BY <1>3 DEF DecodeRoom
<1>4. CASE CheckDecodeMem
  <2>1. running' \subseteq running
    BY <1>4 DEF CheckDecodeMem
  <2>2. Cardinality(running') \in Nat
    BY <1>1, <2>1, FS_Subset, FS_CardinalityType
  <2>3. pc' = IF Cardinality(kvFree') >= Cardinality(running') THEN "jump" ELSE "retract"
    BY <1>0, <1>4, CheckDecodeMemReq
  <2> QED
    BY <1>2, <2>2, <2>3 DEF DecodeRoom
<1>5. ASSUME NEW r \in Requests, Retract(r) PROVE DecodeRoom'
  <2> DEFINE n == Cardinality(running) - 1
             needed == n * RetractDecodeSteps
  <2>1. pc' = IF Cardinality(kvFree') < needed THEN "retract" ELSE "jump"
    BY <1>5 DEF Retract
  <2>2. r \in running /\ running' = running \ {r}
    BY <1>5 DEF Retract
  <2>3. Cardinality(running') = n /\ Cardinality(running') \in Nat
    BY <1>1, <2>2, FS_RemoveElement, FS_CardinalityType
  <2> HIDE DEF n
  <2>4. needed \in Nat /\ n <= needed
    BY <2>3, EngineAssumption, NoLessSteps
  <2> HIDE DEF needed
  <2> QED
    BY <1>2, <2>1, <2>3, <2>4 DEF DecodeRoom
<1>6. ASSUME NEW r \in Requests, NEW token, Jump(r, token) PROVE DecodeRoom'
  <2>1. running' \subseteq running /\ kvFree \subseteq kvFree' /\ pc = "jump"
    BY <1>6 DEF Jump, CacheFinished
  <2>2. Cardinality(running') <= Cardinality(running) /\ Cardinality(running') \in Nat
    BY <1>1, <2>1, FS_Subset, FS_CardinalityType
  <2>3. Cardinality(kvFree) <= Cardinality(kvFree')
    BY <1>2, <2>1, FS_Subset
  <2> QED
    BY <1>1, <1>2, <2>1, <2>2, <2>3 DEF DecodeRoom
<1>7. CASE UNCHANGED batchVars
  BY <1>7 DEF batchVars, DecodeRoom
<1>8. CASE Outside \/ RunToCompletion
  BY <1>3, <1>8 DEF Outside, Receive, Abort, AbortExceedSLO, RunToCompletion
<1>9. ASSUME NEW r \in Requests, AddOneReq(r) \/ ProcessChunk(r) PROVE pc' # "jump"
  BY <1>9 DEF AddOneReq, ProcessChunk
<1>10. ASSUME NEW r \in Requests, NEW token, NEW stop, Process(r, token, stop) PROVE pc' # "jump"
  BY <1>10 DEF Process
<1>11. ASSUME NEW share, BeginPrefill(share) PROVE pc' # "jump"
  BY <1>11 DEF BeginPrefill
<1>12. MergeLastBatch \/ SkipPrefill \/ StopAdding \/ NothingAdded \/ NoRunningBatch \/ RunningBatchGone
       \/ PrepareForDecode \/ BatchProcessed \/ Completed => pc' # "jump"
  BY DEF MergeLastBatch, SkipPrefill, StopAdding, NothingAdded, NoRunningBatch, RunningBatchGone,
     PrepareForDecode, BatchProcessed, Completed
<1>13. PrepareForExtend => pc' # "jump"
  BY DEF PrepareForExtend
<1> QED
  BY <1>3, <1>4, <1>5, <1>6, <1>7, <1>8, <1>9, <1>10, <1>11, <1>12, <1>13 DEF BatchNext, LoopStep

-------------------------------------------------------------------------------
(* What the adder has added                                                *)

\* The n fresh tokens of a request that has k of them from the cache.
FreshFrom(r, k, n) == {r} \X ((k + 1)..(k + n))

\* They are n.
LEMMA FreshAlone ==
  ASSUME NEW r, NEW k \in Nat, NEW n \in Nat
  PROVE  IsFiniteSet(FreshFrom(r, k, n)) /\ Cardinality(FreshFrom(r, k, n)) = n
<1> DEFINE I == (k + 1)..(k + n)
           B == {r} \X I
<1>1. IsFiniteSet(I) /\ Cardinality(I) = n
  <2>1. k + 1 \in Int /\ k + n \in Int
    OBVIOUS
  <2>2. IsFiniteSet((k + 1)..(k + n)) /\ Cardinality((k + 1)..(k + n)) = IF k + 1 > k + n THEN 0 ELSE k + n - (k + 1) + 1
    BY <2>1, FS_Interval
  <2> QED
    BY <2>2
<1>2. IsFiniteSet({r}) /\ Cardinality({r}) = 1
  BY FS_Singleton
<1>3. B = FreshFrom(r, k, n)
  BY DEF FreshFrom
<1> HIDE DEF I
<1>4. IsFiniteSet(B) /\ Cardinality(B) = 1 * n
  BY <1>1, <1>2, FS_Product
<1>5. 1 * n = n
  OBVIOUS
<1> HIDE DEF B
<1> QED
  BY <1>3, <1>4, <1>5

\* The fresh tokens of others and those of one request more.
LEMMA FreshWith ==
  ASSUME NEW R, NEW r, r \notin R, \A o \in R : Fresh(o)' = Fresh(o), NEW S, S = R \cup {r},
         NEW k, NEW n, Fresh(r)' = (k + 1)..(k + n)
  PROVE  FreshOf(S)' = FreshOf(R) \cup FreshFrom(r, k, n) /\ FreshOf(R) \cap FreshFrom(r, k, n) = {}
<1> DEFINE new(o) == Fresh(o)'
<1>1. FreshOf(S)' = UNION {{o} \X new(o) : o \in S}
  BY DEF FreshOf
<1>2. FreshOf(R) = UNION {{o} \X new(o) : o \in R}
  BY DEF FreshOf
<1>3. FreshFrom(r, k, n) = {r} \X new(r)
  BY DEF FreshFrom
<1> HIDE DEF new
<1>4. UNION {{o} \X new(o) : o \in S} = (UNION {{o} \X new(o) : o \in R}) \cup ({r} \X new(r))
  OBVIOUS
<1>5. (UNION {{o} \X new(o) : o \in R}) \cap ({r} \X new(r)) = {}
  OBVIOUS
<1> QED
  BY <1>1, <1>2, <1>3, <1>4, <1>5

\* What is left of a request and what a chunk takes of it.
LEMMA LesserIs ==
  ASSUME NEW a \in Nat, NEW b \in Nat, NEW n, n = Lesser(a, b)
  PROVE  n \in Nat /\ n <= a /\ n <= b /\ (a > b => n = b) /\ (~(a > b) => n = a)
BY DEF Lesser

\* Nothing is added yet, or no more.
LEMMA AddedNone ==
  ASSUME adder'.canRun = <<>>, adder'.tokens = 0, adder'.inflight = None, pc' = "adding" => inflight' = None,
         pc' \in {"adding", "extend"} => Cardinality(running') <= MaxRunning /\ Cardinality(running') \in Nat
  PROVE  Added'
<1> DEFINE e == <<>>
<1>1. DOMAIN e = {} /\ Len(e) = 0 /\ Range(e) = {} /\ IsInjective(e)
  BY DEF Range, IsInjective
<1>2. adder'.canRun = e
  OBVIOUS
<1>3. FreshOf({})' = {} /\ Cardinality({}) = 0
  BY FS_EmptySet DEF FreshOf
<1> HIDE DEF e
<1> DEFINE R == Range(adder'.canRun)
<1>4. R = {}
  BY <1>1, <1>2
<1> HIDE DEF R
<1>5. adder'.tokens = Cardinality(FreshOf({})')
  BY <1>3
<1>6. pc' \in {"adding", "extend"} => Cardinality(running') + Len(adder'.canRun) <= MaxRunning
  BY <1>1, <1>2, EngineAssumption
<1>7. IsInjective(adder'.canRun)
  BY <1>1, <1>2
<1>8. Range(adder'.canRun) = {}
  BY <1>4 DEF R
<1>9. FreshOf(Range(adder.canRun))' = FreshOf({})'
  BY <1>8 DEF FreshOf
<1> QED
  BY <1>5, <1>6, <1>7, <1>8, <1>9 DEF Added

\* Nothing more is added.
LEMMA AddedSame ==
  ASSUME Added, UNCHANGED <<adder, req, inflight, running>>,
         pc' \in {"adding", "extend"} => pc \in {"adding", "extend"}, pc' = "adding" => pc = "adding"
  PROVE  Added'
<1>1. \A r : Fresh(r)' = Fresh(r) /\ Ids(r)' = Ids(r)
  BY DEF Fresh, Ids
<1>2. FreshOf(Range(adder.canRun))' = FreshOf(Range(adder.canRun))
  BY <1>1 DEF FreshOf
<1> QED
  BY <1>1, <1>2 DEF Added

\* The request in flight is added first.
LEMMA FirstAdded ==
  ASSUME BatchTypes, OwnTokens, NEW r \in LockHolders, NEW k, k = Len(req[r].prefix),
         NEW extend, extend = Len(Ids(r)) - k, NEW n, n = Lesser(extend, ChunkedPrefillSize),
         req'[r].prefix = req[r].prefix, req'[r].out = req[r].out, req'[r].fill = k + n,
         adder'.canRun = Append(<<>>, r), adder'.tokens = 0 + n, adder'.chunk = ChunkedPrefillSize - n,
         adder'.inflight = None, inflight' = (IF extend > ChunkedPrefillSize THEN r ELSE None),
         Cardinality(running') < MaxRunning, Cardinality(running') \in Nat
  PROVE  Added'
<1>0. r \in Requests
  BY HoldersAre
<1>1. Len(Ids(r)) \in Nat /\ Ids(r)' = Ids(r)
  BY <1>0, IdsTyped DEF Ids
<1>2. k \in Nat /\ k <= Len(Ids(r))
  <2> DEFINE key == Ids(r)
             node == req[r].node
  <2>1. Len(req[r].prefix) = Len(node) /\ Len(node) \in Nat
    BY PrefixLen
  <2>2. node \in Heads(key) \cup {<<>>} /\ key \in Seq(Tokens)
    BY <1>0, IdsTyped DEF OwnTokens
  <2> HIDE DEF key, node
  <2>3. Len(node) <= Len(key)
    BY <2>2, HeadTyped
  <2> QED
    BY <2>1, <2>3 DEF key
<1> DEFINE run == <<r>>
<1>3. adder'.canRun = run /\ Len(run) = 1 /\ DOMAIN run = 1..1 /\ run[1] = r
  OBVIOUS
<1> HIDE DEF run
<1>4. Range(run) = {r} /\ IsInjective(run)
  <2>1. \A i \in DOMAIN run : i = 1
    BY <1>3
  <2> QED
    BY <1>3, <2>1 DEF Range, IsInjective
<1>5. Fresh(r)' = (k + 1)..(k + n)
  BY DEF Fresh
<1>6. ChunkedPrefillSize \in Nat /\ None # r
  BY <1>0, EngineAssumption
<1>7. /\ extend \in Nat /\ n \in Nat /\ n <= extend /\ n <= ChunkedPrefillSize
      /\ (extend > ChunkedPrefillSize => n = ChunkedPrefillSize) /\ (~(extend > ChunkedPrefillSize) => n = extend)
  <2> DEFINE all == Len(Ids(r))
  <2>1. all \in Nat /\ k \in Nat /\ k <= all /\ extend = all - k
    BY <1>1, <1>2
  <2>2. extend \in Nat
    <3> HIDE DEF all
    <3> QED
      BY <2>1
  <2> HIDE DEF all
  <2> QED
    BY <1>6, <2>2, LesserIs
<1>8. Cardinality(FreshOf({r})') = n
  <2>1. FreshOf({r})' = FreshFrom(r, k, n)
    BY <1>5 DEF FreshOf, FreshFrom
  <2>2. Cardinality(FreshFrom(r, k, n)) = n
    BY <1>2, <1>7, FreshAlone
  <2> QED
    BY <2>1, <2>2
<1>9. Range(adder'.canRun) = {r} /\ IsInjective(adder'.canRun)
  BY <1>3, <1>4
<1>10. FreshOf(Range(adder.canRun))' = FreshOf({r})'
  BY <1>9 DEF FreshOf
<1>11. adder'.tokens = Cardinality(FreshOf(Range(adder.canRun))')
  BY <1>7, <1>8, <1>10
<1>12. Cardinality(running') + Len(adder'.canRun) <= MaxRunning
  BY <1>3, EngineAssumption
<1>13. Len(req'[r].prefix) <= req'[r].fill
  BY <1>2, <1>7
<1>14. inflight' # None => adder'.chunk <= 0
  BY <1>6, <1>7
<1>15. r # inflight' => req'[r].fill = Len(Ids(r)')
  BY <1>1, <1>2, <1>7
<1> QED
  BY <1>9, <1>11, <1>12, <1>13, <1>14, <1>15 DEF Added

\* A round of prefills begins with one request at most.
LEMMA BeginPrefillAdded ==
  ASSUME PrefixAware, ~IsMixedChunk, LockInv, OwnTokens, NEW share, BeginPrefill(share)
  PROVE  Added'
<1>0. TreeTyped /\ BatchTypes /\ Loop /\ Apart
  BY DEF LockInv, EngineInv
<1>1. /\ running' = running /\ pc' = "adding" /\ adder'.inflight = None
      /\ Cardinality(running') < MaxRunning /\ Cardinality(running') \in Nat /\ MaxRunning \in Nat
  <2>1. running' = running /\ pc' = "adding" /\ adder'.inflight = None /\ Cardinality(running) < MaxRunning
    BY <1>0, BeginPrefillReq
  <2>2. Cardinality(running) \in Nat
    BY <1>0, FS_Subset, FS_CardinalityType DEF BatchTypes
  <2> QED
    BY <2>1, <2>2, EngineAssumption
<1>2. CASE inflight = None /\ inflight' = inflight /\ adder'.canRun = <<>> /\ adder'.tokens = 0
  BY <1>1, <1>2, AddedNone
<1>3. ASSUME NEW r, r = inflight, NEW k, k = Len(req[r].prefix), NEW extend, extend = Len(Ids(r)) - k,
             NEW n, n = Lesser(extend, ChunkedPrefillSize), r \in LockHolders,
             req'[r].prefix = req[r].prefix, req'[r].out = req[r].out, req'[r].fill = k + n,
             adder'.canRun = Append(<<>>, r), adder'.tokens = 0 + n, adder'.chunk = ChunkedPrefillSize - n,
             inflight' = IF extend > ChunkedPrefillSize THEN r ELSE None
      PROVE  Added'
  BY <1>0, <1>1, <1>3, FirstAdded
<1> QED
  BY <1>0, <1>2, <1>3, BeginPrefillReq

\* A sequence stays without doubles when what is appended is not in it.
LEMMA AppendedOnce ==
  ASSUME NEW T, NEW s \in Seq(T), NEW x \in T, x \notin Range(s), IsInjective(s)
  PROVE  IsInjective(Append(s, x)) /\ Len(Append(s, x)) = Len(s) + 1
<1> DEFINE n == Len(s)
           t == Append(s, x)
<1>1. n \in Nat /\ DOMAIN s = 1..n
  OBVIOUS
<1>2. t \in Seq(T) /\ Len(t) = n + 1 /\ (\A i \in 1..n : t[i] = s[i]) /\ t[n + 1] = x
  BY AppendProperties
<1>3. DOMAIN t = 1..(n + 1)
  <2> HIDE DEF t
  <2> QED
    BY <1>2
<1>4. \A i \in 1..n : s[i] # x
  BY <1>1 DEF Range
<1>5. \A i, j \in 1..n : s[i] = s[j] => i = j
  BY <1>1 DEF IsInjective
<1> HIDE DEF t, n
<1>6. IsInjective(t)
  <2> SUFFICES ASSUME NEW i \in 1..(n + 1), NEW j \in 1..(n + 1), t[i] = t[j] PROVE i = j
    BY <1>3 DEF IsInjective
  <2>1. (i \in 1..n \/ i = n + 1) /\ (j \in 1..n \/ j = n + 1)
    BY <1>1
  <2> QED
    BY <1>2, <1>4, <1>5, <2>1
<1> QED
  BY <1>2, <1>6 DEF t, n

\* With those of one request more there are as many more.
LEMMA FreshPlusOne ==
  ASSUME NEW R, IsFiniteSet(FreshOf(R)), NEW r, r \notin R, \A o \in R : Fresh(o)' = Fresh(o), NEW S, S = R \cup {r},
         NEW k \in Nat, NEW n \in Nat, Fresh(r)' = (k + 1)..(k + n)
  PROVE  Cardinality(FreshOf(S)') = Cardinality(FreshOf(R)) + n
<1> DEFINE A == FreshOf(R)
           B == FreshFrom(r, k, n)
<1>1. FreshOf(S)' = A \cup B /\ A \cap B = {}
  BY FreshWith
<1>2. IsFiniteSet(B) /\ Cardinality(B) = n
  BY FreshAlone
<1>3. IsFiniteSet(A)
  OBVIOUS
<1> HIDE DEF A, B
<1>4. Cardinality(A \cup B) = Cardinality(A) + n
  BY <1>1, <1>2, <1>3, CountApart
<1> QED
  BY <1>1, <1>4 DEF A

\* One more request is added: of what is left of the chunk it takes all it needs, or all there is.
LEMMA OneMoreAdded ==
  ASSUME BatchTypes, Added, pc = "adding", pc' \in {"adding", "extend"}, NEW r \in Requests, r \notin Range(adder.canRun),
         NEW k \in Nat, NEW extend, extend = Len(Ids(r)) - k,
         NEW n, n = (IF extend <= adder.chunk THEN extend ELSE adder.chunk), n > 0,
         Len(req'[r].prefix) = k, req'[r].out = req[r].out, req'[r].fill = k + n,
         \A o \in Requests \ {r} : req'[o] = req[o],
         adder'.canRun = Append(adder.canRun, r), adder'.tokens = adder.tokens + n, adder'.chunk = adder.chunk - n,
         adder'.inflight = (IF extend <= adder.chunk THEN adder.inflight ELSE r),
         UNCHANGED <<running, inflight>>, Cardinality(running) + Len(adder.canRun) < MaxRunning
  PROVE  Added'
<1> DEFINE run == adder.canRun
           R == Range(run)
           c == adder.chunk
           all == Len(Ids(r))
<1>1. run \in Seq(arrived) /\ R \subseteq arrived /\ R \subseteq Requests /\ IsFiniteSet(R) /\ c \in Int /\ all \in Nat /\ Ids(r)' = Ids(r)
  <2>1. R \subseteq arrived
    BY HoldersAre
  <2>2. arrived \subseteq Requests /\ IsFiniteSet(arrived) /\ run \in Seq(arrived) /\ c \in Int
    BY DEF BatchTypes, AdderTyped
  <2>3. all \in Nat /\ Ids(r)' = Ids(r)
    BY IdsTyped DEF Ids
  <2> HIDE DEF run, R, c, all
  <2> QED
    BY <2>1, <2>2, <2>3, FS_Subset
<1>2. extend \in Int /\ n \in Nat /\ n > 0
  <2>1. extend = all - k /\ n = (IF extend <= c THEN extend ELSE c)
    OBVIOUS
  <2> HIDE DEF all, c
  <2>2. extend \in Int
    BY <1>1, <2>1
  <2>3. n \in Int
    BY <1>1, <2>1, <2>2
  <2> QED
    BY <2>2, <2>3
<1>3. Range(adder'.canRun) = R \cup {r} /\ IsInjective(adder'.canRun) /\ Len(adder'.canRun) = Len(run) + 1
  <2> DEFINE T == Requests
             t == Append(run, r)
  <2>1. run \in Seq(T)
    BY <1>1 DEF BatchTypes
  <2>2. Range(t) = R \cup {r}
    BY <2>1, AppendRange
  <2>3. IsInjective(run) /\ r \notin Range(run) /\ r \in T
    BY DEF Added
  <2>4. adder'.canRun = t
    OBVIOUS
  <2> HIDE DEF run, T
  <2>5. IsInjective(t) /\ Len(t) = Len(run) + 1
    BY <2>1, <2>3, AppendedOnce
  <2> HIDE DEF t, R
  <2> QED
    BY <2>2, <2>4, <2>5
<1>4. \A o \in R : o # r /\ req'[o] = req[o] /\ Ids(o)' = Ids(o) /\ Fresh(o)' = Fresh(o)
  <2>1. \A o \in R : o # r /\ req'[o] = req[o]
    BY <1>1
  <2> HIDE DEF R
  <2> QED
    BY <2>1 DEF Ids, Fresh
<1>5. adder'.tokens = Cardinality(FreshOf(Range(adder.canRun))')
  <2>1. Fresh(r)' = (k + 1)..(k + n)
    BY DEF Fresh
  <2>2. r \notin R /\ adder.tokens = Cardinality(FreshOf(R)) /\ adder'.tokens = adder.tokens + n
    BY DEF Added
  <2>3. PICK S : S = Range(adder'.canRun)
    OBVIOUS
  <2>4. FreshOf(Range(adder.canRun))' = FreshOf(S)'
    BY <2>3 DEF FreshOf
  <2>5. S = R \cup {r}
    BY <1>3, <2>3
  <2> HIDE DEF R, run, c, all
  <2>6. IsFiniteSet(FreshOf(R))
    BY <1>1, FreshFinite
  <2>7. (\A o \in R : Fresh(o)' = Fresh(o)) /\ r \notin R /\ n \in Nat /\ k \in Nat
    BY <1>2, <1>4, <2>2
  <2>8. Cardinality(FreshOf(S)') = Cardinality(FreshOf(R)) + n
    BY <2>1, <2>5, <2>6, <2>7, FreshPlusOne
  <2> QED
    BY <2>2, <2>4, <2>8
<1>6. ~(extend <= c) => inflight = None /\ adder.inflight = None
  <2>1. inflight # None \/ adder.inflight # None => c <= 0
    BY DEF Added
  <2>2. ~(extend <= c) => n = c
    OBVIOUS
  <2> HIDE DEF c
  <2> QED
    BY <1>1, <1>2, <2>1, <2>2
<1>7. adder'.inflight # None => inflight' = None
  <2>1. adder.inflight # None => inflight = None
    BY DEF Added
  <2>2. adder'.inflight = IF extend <= c THEN adder.inflight ELSE r
    OBVIOUS
  <2> HIDE DEF c
  <2> QED
    BY <1>6, <2>1, <2>2
<1>8. pc' = "adding" /\ (inflight' # None \/ adder'.inflight # None) => adder'.chunk <= 0
  <2>1. inflight # None \/ adder.inflight # None => c <= 0
    BY DEF Added
  <2>2. /\ adder'.inflight = (IF extend <= c THEN adder.inflight ELSE r) /\ adder'.chunk = c - n
        /\ n = (IF extend <= c THEN extend ELSE c)
    OBVIOUS
  <2> HIDE DEF c
  <2>3. CASE extend <= c /\ (inflight' # None \/ adder'.inflight # None)
    <3>1. c <= 0
      BY <2>1, <2>2, <2>3
    <3>2. c - n <= 0
      BY <1>1, <1>2, <3>1
    <3> QED
      BY <2>2, <3>2
  <2>4. CASE ~(extend <= c)
    <3>1. n = c
      BY <2>2, <2>4
    <3>2. c - n <= 0
      BY <1>1, <3>1
    <3> QED
      BY <2>2, <3>2
  <2> QED
    BY <2>3, <2>4
<1>9. ASSUME NEW o \in R
      PROVE  Len(req'[o].prefix) <= req'[o].fill /\ (o \notin {inflight', adder'.inflight} => req'[o].fill = Len(Ids(o)'))
  <2>1. Len(req[o].prefix) <= req[o].fill /\ (o \notin {inflight, adder.inflight} => req[o].fill = Len(Ids(o)))
    BY DEF Added
  <2>2. o # None
    BY <1>1, EngineAssumption
  <2>3. o \notin {inflight', adder'.inflight} => o \notin {inflight, adder.inflight}
    BY <1>6, <2>2
  <2> HIDE DEF R
  <2> QED
    BY <1>4, <2>1, <2>3
<1>10. Len(req'[r].prefix) <= req'[r].fill
  <2>1. k <= k + n
    BY <1>2
  <2> QED
    BY <2>1
<1>11. r \notin {inflight', adder'.inflight} => req'[r].fill = Len(Ids(r)')
  <2>1. r # adder'.inflight => n = extend
    OBVIOUS
  <2>2. extend = all - k
    OBVIOUS
  <2>3. n = extend => k + n = all
    <3> HIDE DEF all
    <3> QED
      BY <1>1, <2>2
  <2> QED
    BY <1>1, <2>1, <2>3
<1>12. Cardinality(running') + Len(adder'.canRun) <= MaxRunning
  <2> DEFINE l == Len(run)
             m == Cardinality(running)
  <2>1. m \in Nat
    BY FS_Subset, FS_CardinalityType DEF BatchTypes
  <2>2. l \in Nat
    <3> HIDE DEF run
    <3> QED
      BY <1>1
  <2>3. Len(adder'.canRun) = l + 1 /\ Cardinality(running') = m /\ m + l < MaxRunning
    BY <1>3
  <2> HIDE DEF l, m
  <2> QED
    BY <2>1, <2>2, <2>3, EngineAssumption
<1> HIDE DEF R, c, all
<1> QED
  BY <1>3, <1>5, <1>7, <1>8, <1>9, <1>10, <1>11, <1>12 DEF Added

\* One request is added or none.
LEMMA AddOneReqAdded ==
  ASSUME LockInv, Added, NEW r \in Requests, AddOneReq(r)
  PROVE  Added'
<1>0. TreeTyped /\ BatchTypes /\ Loop /\ Apart
  BY DEF LockInv, EngineInv
<1>1. CASE UNCHANGED <<req, adder>> /\ pc' = "extend"
  <2>1. UNCHANGED <<adder, req, inflight, running>> /\ pc = "adding" /\ pc' = "extend"
    BY <1>0, <1>1, AddOneReqReq
  <2> QED
    BY <2>1, AddedSame
<1>2. ASSUME NEW node, node = Cached(tree_cache, MatchKey(r)), NEW extend, extend = Len(Ids(r)) - Len(node),
             NEW n, n = (IF extend <= adder.chunk THEN extend ELSE adder.chunk), n > 0,
             req'[r].prefix = SlotsOf(tree_cache, node), req'[r].out = req[r].out, req'[r].fill = Len(node) + n,
             adder'.canRun = Append(adder.canRun, r), adder'.tokens = adder.tokens + n, adder'.chunk = adder.chunk - n,
             adder'.inflight = (IF extend <= adder.chunk THEN adder.inflight ELSE r)
      PROVE  Added'
  <2>1. node \in Seq(Tokens)
    <3>1. MatchKey(r) \in Seq(Tokens)
      BY <1>0, IdsTyped
    <3> QED
      BY <1>0, <1>2, <3>1, CachedIs DEF TreeTyped
  <2>2. PICK k \in Nat : k = Len(node) /\ Len(req'[r].prefix) = k
    BY <1>2, <2>1, SlotsLen
  <2>3. /\ r \notin Range(adder.canRun) /\ (\A o \in Requests \ {r} : req'[o] = req[o]) /\ UNCHANGED <<running, inflight>>
        /\ pc = "adding" /\ pc' \in {"adding", "extend"} /\ Cardinality(running) + Len(adder.canRun) < MaxRunning
    BY <1>0, AddOneReqReq
  <2>4. extend = Len(Ids(r)) - k /\ req'[r].fill = k + n
    BY <1>2, <2>2
  <2> QED
    BY <1>0, <1>2, <2>2, <2>3, <2>4, OneMoreAdded
<1>3. \/ UNCHANGED <<req, adder>> /\ pc' = "extend"
      \/ LET node   == Cached(tree_cache, MatchKey(r))
             extend == Len(Ids(r)) - Len(node)
             whole  == extend <= adder.chunk
             n      == IF whole THEN extend ELSE adder.chunk
         IN  /\ n > 0 /\ req'[r].prefix = SlotsOf(tree_cache, node) /\ req'[r].out = req[r].out /\ req'[r].fill = Len(node) + n
             /\ adder'.canRun = Append(adder.canRun, r) /\ adder'.tokens = adder.tokens + n
             /\ adder'.chunk = adder.chunk - n
             /\ adder'.inflight = IF whole THEN adder.inflight ELSE r
  BY <1>0, AddOneReqReq
<1> QED
  BY <1>1, <1>2, <1>3

\* The adder keeps its books.
LEMMA AddedKept ==
  ASSUME PrefixAware, ~IsMixedChunk, LockInv, OwnTokens, Added, [BatchNext]_batchVars
  PROVE  Added'
<1>0. BatchTypes /\ Loop
  BY DEF LockInv, EngineInv
<1>1. Loop'
  BY <1>0, LoopKept
<1>2. CASE pc' \notin {"adding", "extend", "out_of_memory"}
  <2>1. adder' = NoAdder
    BY <1>1, <1>2 DEF Loop
  <2>2. adder'.canRun = <<>> /\ adder'.tokens = 0 /\ adder'.inflight = None
    BY <2>1 DEF NoAdder
  <2> QED
    BY <1>2, <2>2, AddedNone
<1>3. ASSUME NEW share, BeginPrefill(share) PROVE Added'
  BY <1>3, BeginPrefillAdded
<1>4. ASSUME NEW r \in Requests, AddOneReq(r) PROVE Added'
  BY <1>4, AddOneReqAdded
<1>5. ASSUME NEW r \in Requests, AbortExceedSLO(r) PROVE Added'
  <2>1. UNCHANGED <<adder, req, inflight, running, pc>>
    BY <1>5 DEF AbortExceedSLO
  <2> QED
    BY <2>1, AddedSame
<1>6. CASE StopAdding
  <2>1. UNCHANGED <<adder, req, inflight, running>> /\ pc = "adding" /\ pc' = "extend"
    BY <1>6 DEF StopAdding
  <2> QED
    BY <2>1, AddedSame
<1>7. CASE PrepareForExtend /\ pc' \notin {"process"}
  <2>1. UNCHANGED <<adder, req, inflight, running>> /\ pc' = "out_of_memory"
    BY <1>0, <1>7, PrepareForExtendReq DEF LockInv
  <2> QED
    BY <2>1, AddedSame
<1>8. CASE UNCHANGED batchVars
  <2>1. UNCHANGED <<adder, req, inflight, running, pc>>
    BY <1>8 DEF batchVars
  <2> QED
    BY <2>1, AddedSame
<1>9. ASSUME NEW r \in Requests, Receive(r) \/ Abort(r) \/ ProcessChunk(r)
      PROVE  pc' \notin {"adding", "extend", "out_of_memory"}
  BY <1>9 DEF Receive, Abort, ProcessChunk
<1>10. ASSUME NEW r \in Requests, Retract(r) PROVE pc' \notin {"adding", "extend", "out_of_memory"}
  BY <1>10 DEF Retract
<1>11. ASSUME NEW r \in Requests, NEW token, Jump(r, token) PROVE pc' \notin {"adding", "extend", "out_of_memory"}
  BY <1>11 DEF Jump
<1>12. ASSUME NEW r \in Requests, NEW token, NEW stop, Process(r, token, stop)
       PROVE  pc' \notin {"adding", "extend", "out_of_memory"}
  BY <1>12 DEF Process
<1>13. MergeLastBatch \/ SkipPrefill \/ NothingAdded \/ NoRunningBatch \/ RunningBatchGone \/ CheckDecodeMem
       \/ PrepareForDecode \/ BatchProcessed \/ Completed \/ RunToCompletion => pc' \notin {"adding", "extend", "out_of_memory"}
  BY DEF MergeLastBatch, SkipPrefill, NothingAdded, NoRunningBatch, RunningBatchGone, CheckDecodeMem,
     PrepareForDecode, BatchProcessed, Completed, RunToCompletion
<1> QED
  BY <1>2, <1>3, <1>4, <1>5, <1>6, <1>7, <1>8, <1>9, <1>10, <1>11, <1>12, <1>13 DEF BatchNext, LoopStep, Outside

-------------------------------------------------------------------------------
(* Whose tokens a request has                                              *)

\* The slots of a prefix of its own tokens.
TokensOf(r) == req[r].node \in Heads(Ids(r)) \cup {<<>>} /\ req[r].prefix = SlotsOf(tree_cache, req[r].node)

\* A request keeps its place in the tree.
Stays(r) == req'[r].prefix = req[r].prefix /\ req'[r].node = req[r].node /\ Heads(Ids(r)) \subseteq Heads(Ids(r)')

\* The invariant of the locks is kept.
LEMMA LockInvKept ==
  ASSUME PrefixAware, ~IsMixedChunk, LockInv, [BatchNext]_batchVars
  PROVE  LockInv'
BY EngineInvKept, ApartKept, ChunksCountedKept, LocksKept DEF LockInv, EngineInv

\* What is locked is not evicted, so the slots of a request that keeps its place stay its own.
LEMMA TokensStay ==
  ASSUME LockInv, LockInv', OwnTokens, Agree(tree_cache, tree_cache'),
         NEW r, r \in LockHolders, r \in LockHolders', Stays(r)
  PROVE  TokensOf(r)'
<1> DEFINE node == req[r].node
           t == tree_cache
           u == tree_cache'
<1>0. TreeTyped /\ TreeTyped' /\ BatchTypes /\ LocksHeld /\ LocksHeld'
  BY DEF LockInv, EngineInv
<1>1. r \in Requests /\ Nodes[r] = node /\ Nodes'[r] = node
  BY <1>0, HoldersAre DEF Nodes, Stays
<1>2. node \in t.nodes \cup {<<>>} /\ node \in u.nodes \cup {<<>>}
  BY <1>0, <1>1 DEF LocksHeld, Locked
<1>3. node \in Heads(Ids(r)) \cup {<<>>} /\ req[r].prefix = SlotsOf(t, node)
  BY DEF OwnTokens
<1>4. Heads(node) \subseteq DOMAIN t.value /\ Heads(node) \subseteq DOMAIN u.value
  <2>1. CASE node = <<>>
    <3>1. Len(node) = 0
      BY <2>1
    <3> HIDE DEF node
    <3>2. Heads(node) = {}
      BY <3>1 DEF Heads
    <3> QED
      BY <3>2
  <2>2. CASE node # <<>>
    <3>1. node \in t.nodes /\ node \in u.nodes
      BY <1>2, <2>2
    <3>2. IsRadix(t, Tokens) /\ IsRadix(u, Tokens)
      BY <1>0 DEF TreeTyped
    <3> HIDE DEF node, t, u
    <3> QED
      BY <3>1, <3>2 DEF IsRadix
  <2> QED
    BY <2>1, <2>2
<1>5. Agree(t, u)
  OBVIOUS
<1>6. req'[r].node = node /\ req'[r].prefix = req[r].prefix /\ Heads(Ids(r)) \subseteq Heads(Ids(r)')
  BY DEF Stays
<1> HIDE DEF node, t, u
<1>7. SlotsOf(u, node) = SlotsOf(t, node)
  BY <1>4, <1>5, SameSlotsOf
<1> QED
  BY <1>3, <1>6, <1>7 DEF TokensOf, u

\* The request that is cached as it goes on has the slots of all it has computed.
LEMMA TokensCached ==
  ASSUME TreeTyped, BatchTypes, OwnTokens, Memory, NEW r \in RowHolders, CacheUnfinished(r), req[r].fill = req[r].seq,
         req'[r].prefix = CachedAs(r).prefix, req'[r].node = CachedAs(r).node, Heads(Ids(r)) \subseteq Heads(Ids(r)')
  PROVE  TokensOf(r)'
<1> DEFINE ids == SubSeq(Ids(r), 1, req[r].fill)
           row == reqToToken[req[r].row]
<1>1. r \in Requests
  BY HoldersAre DEF LockHolders
<1>2. req[r].seq <= Len(Ids(r))
  <2>1. req[r].fill <= Len(Prompt[r]) + Len(req[r].out)
    BY <1>1 DEF BatchTypes, ReqTyped
  <2> QED
    BY <1>1, <2>1, IdsTyped
<1>3. ids \in Heads(Ids(r)) \cup {<<>>}
  BY <1>2, ComputedIds
<1>4. CachedAs(r).node = ids /\ CachedAs(r).prefix = SlotsOf(Insert(tree_cache, ids, row), ids)
  <2>1. "prefix" \in DOMAIN req[r] /\ "node" \in DOMAIN req[r]
    BY <1>1 DEF BatchTypes, ReqTyped, NewReq
  <2> QED
    BY <2>1 DEF CachedAs
<1>5. tree_cache'.value = Insert(tree_cache, ids, row).value
  <2>1. ids = SubSeq(Ids(r), 1, req[r].fill) /\ row = reqToToken[req[r].row]
    OBVIOUS
  <2> HIDE DEF ids, row
  <2> QED
    BY <1>1, <2>1, CacheUnfinishedValues
<1> HIDE DEF ids, row
<1>6. SlotsOf(tree_cache', ids) = SlotsOf(Insert(tree_cache, ids, row), ids)
  BY <1>5 DEF SlotsOf
<1> QED
  BY <1>3, <1>4, <1>6 DEF TokensOf

\* A request that is added has the slots of what the tree has of its tokens.
LEMMA TokensAdded ==
  ASSUME TreeTyped, BatchTypes, NEW r \in Requests, NEW node, node = Cached(tree_cache, MatchKey(r)),
         req'[r].prefix = SlotsOf(tree_cache, node), req'[r].node = node, req'[r].out = req[r].out,
         tree_cache'.value = tree_cache.value
  PROVE  TokensOf(r)'
<1>1. Ids(r)' = Ids(r) /\ MatchKey(r) \in Seq(Tokens) /\ Ids(r) \in Seq(Tokens)
  BY IdsTyped DEF Ids
<1>2. node = <<>> \/ node \in Heads(MatchKey(r))
  BY <1>1, CachedIs DEF TreeTyped
<1>3. Heads(MatchKey(r)) \subseteq Heads(Ids(r))
  <2> DEFINE ids == Ids(r)
             l == Len(ids)
             m == l - 1
  <2>1. MatchKey(r) = SubSeq(ids, 1, m) /\ l \in Nat \ {0}
    BY IdsTyped DEF MatchKey
  <2>2. CASE m = 0
    <3>1. Len(MatchKey(r)) = 0
      <4>1. m \in 0..l
        <5> HIDE DEF l
        <5> QED
          BY <2>1, <2>2
      <4> HIDE DEF m
      <4> QED
        BY <1>1, <2>1, <2>2, <4>1, SubSeqStarts
    <3>2. Heads(MatchKey(r)) = {}
      BY <3>1 DEF Heads
    <3> QED
      BY <3>2
  <2>3. CASE m # 0
    <3>1. m \in 1..l
      <4> HIDE DEF l
      <4> QED
        BY <2>1, <2>3
    <3> HIDE DEF m
    <3>2. MatchKey(r) \in Heads(ids)
      BY <2>1, <3>1 DEF Heads
    <3> QED
      BY <1>1, <3>2, HeadsFacts
  <2> QED
    BY <2>2, <2>3
<1>4. SlotsOf(tree_cache', node) = SlotsOf(tree_cache, node)
  BY DEF SlotsOf
<1> QED
  BY <1>1, <1>2, <1>3, <1>4 DEF TokensOf

\* A request whose prefix, node and output are left keeps its place.
LEMMA LeftStays ==
  ASSUME NEW r, req'[r].prefix = req[r].prefix, req'[r].node = req[r].node, req'[r].out = req[r].out
  PROVE  Stays(r)
<1>1. Ids(r)' = Ids(r)
  BY DEF Ids
<1> QED
  BY <1>1 DEF Stays

\* So does one that gets a token more.
LEMMA LongerStays ==
  ASSUME BatchTypes, NEW r \in Requests, NEW token \in Tokens, req'[r].prefix = req[r].prefix, req'[r].node = req[r].node,
         req'[r].out = Append(req[r].out, token)
  PROVE  Stays(r)
BY IdsGrow DEF Stays

\* What a request uses stays the slots of its own tokens.
LEMMA OwnTokensKept ==
  ASSUME PrefixAware, ~IsMixedChunk, LockInv, OwnTokens, Memory, Computed, Added, DecodeRoom, TableTyped, [BatchNext]_batchVars
  PROVE  OwnTokens'
<1>0. TreeTyped /\ BatchTypes /\ Loop /\ Apart /\ ChunksCounted /\ LockHolders \subseteq Requests
  BY HoldersAre DEF LockInv, EngineInv
<1>1. LockInv' /\ Agree(tree_cache, tree_cache')
  BY LockInvKept, MemoryStep
<1>2. ASSUME NEW r, r \in LockHolders, r \in LockHolders', Stays(r) PROVE TokensOf(r)'
  BY <1>1, <1>2, TokensStay
<1> SUFFICES ASSUME NEW r \in LockHolders' PROVE TokensOf(r)'
  BY DEF OwnTokens, TokensOf
<1>3. ASSUME r \in LockHolders, req'[r] = req[r] PROVE TokensOf(r)'
  BY <1>2, <1>3, LeftStays
<1>4. CASE Quiet \/ CheckDecodeMem \/ \E o \in Requests : Abort(o)
  <2>1. LockHolders' \subseteq LockHolders /\ req' = req
    BY <1>0, <1>4, QuietSteps, CheckDecodeMemReq, AbortReq
  <2> QED
    BY <1>3, <2>1
<1>5. CASE PrepareForDecode \/ PrepareForExtend
  <2>1. LockHolders' = LockHolders
    BY <1>0, <1>5, PrepareForDecodeReq, PrepareForExtendReq
  <2>2. CASE PrepareForDecode
    <3>1. req'[r].prefix = req[r].prefix /\ req'[r].node = req[r].node /\ req'[r].out = req[r].out
      BY <1>0, <2>1, <2>2, PrepareForDecodeReq
    <3> QED
      BY <1>2, <2>1, <3>1, LeftStays
  <2>3. CASE PrepareForExtend
    <3>1. req'[r].prefix = req[r].prefix /\ req'[r].node = req[r].node /\ req'[r].out = req[r].out
      BY <1>0, <2>1, <2>3, PrepareForExtendReq
    <3> QED
      BY <1>2, <2>1, <3>1, LeftStays
  <2> QED
    BY <1>5, <2>2, <2>3
<1>6. ASSUME NEW o \in Requests, Retract(o) PROVE TokensOf(r)'
  BY <1>0, <1>3, <1>6, RetractReq
<1>7. ASSUME NEW o \in Requests, NEW token, Jump(o, token) PROVE TokensOf(r)'
  BY <1>0, <1>3, <1>7, JumpReq
<1>8. ASSUME NEW o \in Requests, ProcessChunk(o) PROVE TokensOf(r)'
  <2>1. r \in LockHolders /\ SameFields(r) /\ req'[r].out = req[r].out
    BY <1>0, <1>8, ProcessChunkReq
  <2> QED
    BY <1>2, <2>1, LeftStays DEF SameFields
<1>9. ASSUME NEW o \in Requests, NEW token \in Tokens, NEW stop, Process(o, token, stop) PROVE TokensOf(r)'
  <2>1. /\ (\A x \in Requests \ {o} : req'[x] = req[x]) /\ req'[o].out = Append(req[o].out, token)
        /\ o \in RowHolders /\ o \in todo /\ o # inflight /\ LockHolders' \subseteq LockHolders
    BY <1>0, <1>9, ProcessReq
  <2>2. CASE r # o
    BY <1>0, <1>3, <2>1, <2>2
  <2>3. CASE r = o /\ req'[o].prefix = req[o].prefix /\ req'[o].node = req[o].node
    BY <1>0, <1>2, <2>1, <2>3, LongerStays
  <2>4. CASE /\ r = o /\ CacheUnfinished(o) /\ req'[o].prefix = CachedAs(o).prefix /\ req'[o].node = CachedAs(o).node
             /\ batch.mode = "extend"
    <3>1. req[o].fill = req[o].seq
      BY <1>0, <2>1, <2>4, AllComputed
    <3>2. Heads(Ids(o)) \subseteq Heads(Ids(o)')
      BY <1>0, <2>1, IdsGrow
    <3> QED
      BY <1>0, <2>1, <2>4, <3>1, <3>2, TokensCached
  <2> QED
    BY <1>0, <1>9, <2>1, <2>2, <2>3, <2>4, ProcessReq
<1>10. CASE MergeLastBatch
  <2>1. LockHolders' = LockHolders /\ todo = {}
    BY <1>0, <1>10, MergeLastBatchReq
  <2>2. CASE req' = req
    BY <1>3, <2>1, <2>2
  <2>3. ASSUME NEW o, o = inflight, o \in RowHolders, CacheUnfinished(o), \A x \in Requests \ {o} : req'[x] = req[x],
               req'[o] = CachedAs(o)
        PROVE  TokensOf(r)'
    <3>1. CASE r # o
      BY <1>0, <1>3, <2>1, <2>3, <3>1
    <3>2. CASE r = o
      <4>1. req[o].fill = req[o].seq
        BY <2>3 DEF Computed, AsComputed
      <4>2. CachedAs(o).out = req[o].out
        BY DEF CachedAs
      <4>3. Ids(o)' = Ids(o)
        BY <2>3, <4>2 DEF Ids
      <4> QED
        BY <1>0, <2>3, <3>2, <4>1, <4>3, TokensCached
    <3> QED
      BY <3>1, <3>2
  <2> QED
    BY <1>0, <1>10, <2>2, <2>3, MergeLastBatchReq
<1>11. ASSUME NEW share, BeginPrefill(share) PROVE TokensOf(r)'
  <2>1. LockHolders' = LockHolders /\ \A o \in Requests : o # inflight => req'[o] = req[o]
    BY <1>0, <1>11, BeginPrefillReq
  <2>2. CASE r # inflight
    BY <1>0, <1>3, <2>1, <2>2
  <2>3. CASE r = inflight
    <3>1. r # None
      BY <1>0, <2>1, EngineAssumption
    <3>2. req'[r].prefix = req[r].prefix /\ req'[r].node = req[r].node /\ req'[r].out = req[r].out
      BY <1>0, <1>11, <2>3, <3>1, BeginPrefillReq
    <3> QED
      BY <1>2, <2>1, <3>2, LeftStays
  <2> QED
    BY <2>2, <2>3
<1>12. ASSUME NEW o \in Requests, AddOneReq(o) PROVE TokensOf(r)'
  <2>1. /\ (\A x \in Requests \ {o} : req'[x] = req[x]) /\ tree_cache'.value = tree_cache.value
        /\ LockHolders' \subseteq LockHolders \cup {o} /\ o \notin LockHolders
    BY <1>0, <1>12, AddOneReqReq
  <2>2. CASE r # o
    BY <1>0, <1>3, <2>1, <2>2
  <2>3. CASE r = o
    <3>1. req'[o].prefix = SlotsOf(tree_cache, Cached(tree_cache, MatchKey(o)))
          /\ req'[o].node = Cached(tree_cache, MatchKey(o)) /\ req'[o].out = req[o].out
      BY <1>0, <1>12, <2>1, <2>3, AddOneReqReq
    <3> QED
      BY <1>0, <2>1, <2>3, <3>1, TokensAdded
  <2> QED
    BY <2>2, <2>3
<1> QED
  BY <1>4, <1>5, <1>6, <1>7, <1>8, <1>9, <1>10, <1>11, <1>12, EngineAssumption
  DEF BatchNext, LoopStep, Outside, Quiet

-------------------------------------------------------------------------------
(* The theorems                                                            *)

\* What the memory of the engine satisfies in every state, which each step keeps.
MemInv == LockInv /\ Memory /\ Computed /\ Added /\ OwnTokens /\ DecodeRoom /\ TableTyped

\* An engine that has received nothing has all slots and rows free.
LEMMA MemInvInitially ==
  ASSUME BatchInit
  PROVE  MemInv
<1>1. RowHolders = {} /\ LockHolders = {} /\ adder = NoAdder /\ pc = "recv" /\ inflight = None
  BY EmptyRange DEF BatchInit, LockHolders, RowHolders, NoBatch
<1>2. SlotsApart
  <2> DEFINE V == tree_cache.value
             F == kvFree
             own == Own
  <2>1. DOMAIN V = {} /\ F = Slots /\ DOMAIN own = {}
    BY <1>1 DEF BatchInit, EmptyTree, Own
  <2>2. SlotsApart = Partition(F, V, own)
    BY DEF SlotsApart
  <2> HIDE DEF V, F, own
  <2>3. Partition(F, V, own)
    BY <2>1 DEF Partition
  <2> QED
    BY <2>2, <2>3
<1>3. RowsApart /\ RowsWritten
  BY <1>1 DEF BatchInit, RowsApart, RowsWritten
<1>4. Added
  <2> DEFINE run == adder.canRun
  <2>1. run = <<>> /\ adder.tokens = 0 /\ adder.inflight = None /\ Range(run) = {}
    BY <1>1, EmptyRange DEF NoAdder
  <2>2. FreshOf(Range(run)) = {}
    <3> HIDE DEF run
    <3> QED
      BY <2>1 DEF FreshOf
  <2>3. IsInjective(run)
    <3> HIDE DEF run
    <3> QED
      BY <2>1 DEF IsInjective
  <2>4. adder.tokens = Cardinality(FreshOf(Range(run)))
    BY <2>1, <2>2, FS_EmptySet
  <2> QED
    BY <1>1, <2>1, <2>3, <2>4 DEF Added
<1>5. Computed /\ OwnTokens /\ DecodeRoom /\ TableTyped
  BY <1>1 DEF Computed, OwnTokens, DecodeRoom, TableTyped, BatchInit
<1> QED
  BY <1>2, <1>3, <1>4, <1>5, LockInvInitially DEF MemInv, Memory

\* The parts are kept together: none of them is without the others.
LEMMA MemInvKept ==
  ASSUME PrefixAware, ~IsMixedChunk, MemInv, [BatchNext]_batchVars
  PROVE  MemInv'
<1>1. LockInv /\ Memory /\ Computed /\ Added /\ OwnTokens /\ DecodeRoom /\ TableTyped
  BY DEF MemInv
<1>2. LockInv' /\ TableTyped'
  BY <1>1, LockInvKept, TableKept
<1>3. Memory'
  BY <1>1, MemoryStep
<1>4. Computed' /\ Added'
  BY <1>1, ComputedKept, AddedKept
<1>5. OwnTokens'
  BY <1>1, OwnTokensKept
<1>6. DecodeRoom'
  BY <1>1, <1>3, DecodeRoomKept
<1> QED
  BY <1>2, <1>3, <1>4, <1>5, <1>6 DEF MemInv

\* So they hold in every state.
LEMMA MemInvariant ==
  ASSUME PrefixAware, ~IsMixedChunk
  PROVE  BatchSpec => []MemInv
<1>1. BatchInit => MemInv
  BY MemInvInitially
<1>2. MemInv /\ [BatchNext]_batchVars => MemInv'
  BY MemInvKept
<1> QED
  BY <1>1, <1>2, PTL DEF BatchSpec

\* Every slot is free, in the tree, or in the row of one unfinished request past its prefix, and every row is free or one
\* unfinished request's: check_memory never finds a leak, and no slot is handed out while it is in use.
THEOREM MemoryStaysPartitioned == PrefixAware /\ ~IsMixedChunk /\ BatchSpec => []MemoryPartitioned
<1> SUFFICES ASSUME PrefixAware, ~IsMixedChunk PROVE BatchSpec => []MemoryPartitioned
  OBVIOUS
<1>1. MemInv => MemoryPartitioned
  <2> SUFFICES ASSUME MemInv PROVE MemoryPartitioned
    OBVIOUS
  <2> DEFINE V == tree_cache.value
             own == Own
  <2>1. Partition(kvFree, V, own)
    BY DEF MemInv, Memory, SlotsApart
  <2>2. DOMAIN own = RowHolders /\ \A r \in RowHolders : DOMAIN own[r] = PastPrefix(r)
    BY DEF Own
  <2>3. \A r \in RowHolders : Private(r) = {own[r][i] : i \in PastPrefix(r)}
    BY DEF Own, Private
  <2> HIDE DEF own
  <2>4. /\ kvFree \cup {V[p] : p \in DOMAIN V} \cup UNION {{own[r][i] : i \in DOMAIN own[r]} : r \in DOMAIN own} = Slots
        /\ Cardinality(kvFree) + Cardinality(DOMAIN V) + Cardinality(UNION {{r} \X DOMAIN own[r] : r \in DOMAIN own}) = KVSize
    BY <2>1, PartitionCounts
  <2>5. UNION {{own[r][i] : i \in DOMAIN own[r]} : r \in DOMAIN own} = UNION {Private(r) : r \in RowHolders}
    BY <2>2, <2>3
  <2>6. UNION {{r} \X DOMAIN own[r] : r \in DOMAIN own} = UNION {{r} \X PastPrefix(r) : r \in RowHolders}
    BY <2>2
  <2>7. CachedSlots(tree_cache) = {V[p] : p \in DOMAIN V}
    BY DEF CachedSlots
  <2>8. SlotsPartitioned
    BY <2>4, <2>5, <2>6, <2>7 DEF SlotsPartitioned
  <2>9. RowsPartitioned
    BY RowsCount DEF RowsPartitioned, MemInv, Memory
  <2> QED
    BY <2>8, <2>9 DEF MemoryPartitioned
<1>2. BatchSpec => []MemInv
  BY MemInvariant
<1> QED
  BY <1>1, <1>2, PTL

\* A prefix of a key, or nothing, is a prefix of it in the sense of the sequences.
LEMMA HeadIsPrefix ==
  ASSUME NEW T, NEW k, k \in Seq(T), NEW p, p \in Heads(k) \cup {<<>>}
  PROVE  IsPrefix(p, k)
<1>1. p \in Seq(T) /\ Len(p) \in Nat /\ Len(p) <= Len(k)
  BY HeadTyped
<1>2. Starts(p, k)
  <2>1. CASE p \in Heads(k)
    BY <2>1, HeadsAre
  <2>2. CASE p = <<>>
    BY <1>1, <2>2 DEF Starts
  <2> QED
    BY <2>1, <2>2
<1> QED
  BY <1>1, <1>2, StartsIsPrefix

\* No request computes on another's tokens: it has the slots that the tree has for its own, at the head of its row, and
\* outside a forward pass all but its last token computed.
THEOREM RowsStayOwn == PrefixAware /\ ~IsMixedChunk /\ BatchSpec => []RowsHoldOwnTokens
<1> SUFFICES ASSUME PrefixAware, ~IsMixedChunk PROVE BatchSpec => []RowsHoldOwnTokens
  OBVIOUS
<1>1. MemInv => RowsHoldOwnTokens
  <2> SUFFICES ASSUME MemInv PROVE RowsHoldOwnTokens
    OBVIOUS
  <2>0. /\ BatchTypes /\ LocksHeld /\ OwnTokens /\ Loop /\ Apart /\ Memory /\ Computed /\ RowsWritten
        /\ LockHolders \subseteq Requests /\ RowHolders \subseteq LockHolders
    BY HoldersAre DEF MemInv, Memory, LockInv, EngineInv, LockHolders
  <2>1. ASSUME NEW r \in LockHolders
        PROVE  /\ req[r].node \in tree_cache.nodes \cup {<<>>} /\ IsPrefix(req[r].node, Ids(r))
               /\ req[r].prefix = SlotsOf(tree_cache, req[r].node)
    <3>1. req[r].node \in tree_cache.nodes \cup {<<>>}
      BY <2>0, HoldersAre DEF LocksHeld, Locked
    <3>2. req[r].node \in Heads(Ids(r)) \cup {<<>>} /\ req[r].prefix = SlotsOf(tree_cache, req[r].node)
      BY <2>0 DEF OwnTokens
    <3>3. Ids(r) \in Seq(Tokens)
      BY <2>0, IdsTyped
    <3> QED
      BY <3>1, <3>2, <3>3, HeadIsPrefix
  <2>2. ASSUME NEW r \in RowHolders PROVE IsPrefix(req[r].prefix, reqToToken[req[r].row])
    <3> DEFINE p == req[r].prefix
               w == reqToToken[req[r].row]
    <3>1. w \in Seq(Slots) /\ Len(w) = req[r].seq
      BY <2>0, RowIs
    <3>2. Len(p) <= req[r].seq /\ \A i \in 1..Len(p) : w[i] = p[i]
      BY <2>0 DEF RowsWritten
    <3>3. p \in Seq(Slots)
      BY <2>0, PrefixSlots DEF MemInv, LockInv, EngineInv
    <3> HIDE DEF p, w
    <3>4. Starts(p, w)
      BY <3>1, <3>2 DEF Starts
    <3>5. IsPrefix(p, w)
      BY <3>1, <3>3, <3>4, StartsIsPrefix
    <3> QED
      BY <3>5 DEF p, w
  <2>3. ASSUME NEW r \in running \ finished, pc # "process" PROVE req[r].seq = Len(Ids(r)) - 1
    <3>1. r \in RowHolders /\ r \notin todo /\ r # inflight
      BY <2>0, <2>3 DEF RowHolders, Loop, Apart
    <3> QED
      BY <2>0, <3>1 DEF Computed, AsComputed
  <2> QED
    BY <2>1, <2>2, <2>3 DEF RowsHoldOwnTokens
<1>2. BatchSpec => []MemInv
  BY MemInvariant
<1> QED
  BY <1>1, <1>2, PTL

-------------------------------------------------------------------------------
(* The budget of a prefill                                                 *)

\* An eviction makes the room that is asked for, if what is free and what may be evicted are that much.
LEMMA RoomMade ==
  ASSUME TreeTyped, LocksHeld, SlotsApart, NEW num \in Int, num <= Available, NEW N \in RoomFor(num)
  PROVE  Cardinality(FreeAfter(N)) >= num
<1> DEFINE t == tree_cache
           V == t.value
           E == Edges(t, N)
           U == {n \in t.nodes : t.lock[n] = 0}
           G == SlotsIn(t, N)
           H == LockHolders
           at == Nodes
<1>1. kvFree \subseteq Slots /\ Once(V, DOMAIN V, Slots \ kvFree)
  <2> DEFINE own == Own
  <2>1. Partition(kvFree, V, own)
    BY DEF SlotsApart
  <2> HIDE DEF own, V
  <2> QED
    BY <2>1 DEF Partition, Once
<1>2. IsRadix(t, Tokens) /\ Locked(t, H, at)
  BY DEF TreeTyped, LocksHeld
<1>3. N \subseteq t.nodes
  BY RoomForClosed, EvictionsClosed
<1>4. CASE Cardinality(kvFree) >= num
  <2>1. N = {}
    BY <1>4 DEF RoomFor
  <2>2. FreeAfter(N) = kvFree
    BY <2>1 DEF FreeAfter, SlotsIn, Edges
  <2> QED
    BY <1>4, <2>2
<1>5. Cardinality(kvFree) \in Nat /\ IsFiniteSet(kvFree) /\ IsFiniteSet(Slots \ kvFree)
  BY <1>1, SlotsCount
<1> HIDE DEF H, at
<1>6. E \subseteq DOMAIN V /\ IsFiniteSet(DOMAIN V)
  BY <1>2, <1>3, EdgesCached DEF Locked
<1>7. Cardinality(G) = Cardinality(E) /\ IsFiniteSet(G) /\ G \cap kvFree = {} /\ IsFiniteSet(E) /\ Cardinality(E) \in Nat
  <2>1. Once(V, E, Slots \ kvFree)
    BY <1>1, <1>6 DEF Once
  <2>2. G = {V[p] : p \in E}
    BY DEF SlotsIn
  <2> HIDE DEF V, E, G
  <2>3. IsFiniteSet({V[p] : p \in E}) /\ Cardinality(E) = Cardinality({V[p] : p \in E}) /\ IsFiniteSet(E)
    BY <1>5, <2>1, ImageCount
  <2>4. G \subseteq Slots \ kvFree
    BY <2>1, <2>2 DEF Once
  <2> QED
    BY <2>2, <2>3, <2>4, FS_CardinalityType
<1>8. Cardinality(FreeAfter(N)) = Cardinality(kvFree) + Cardinality(E)
  <2>1. FreeAfter(N) = kvFree \cup G
    BY DEF FreeAfter
  <2> HIDE DEF G, E
  <2> QED
    BY <1>5, <1>7, <2>1, CountApart
<1>9. CASE Cardinality(E) >= num
  <2> HIDE DEF E
  <2> QED
    BY <1>5, <1>7, <1>8, <1>9
<1>10. CASE ~(Cardinality(kvFree) >= num) /\ ~(Cardinality(E) >= num)
  <2>1. \A n \in U : Unlocked(t, n) /\ \A m \in t.nodes : n \in Heads(m) => m \in U
    <3> SUFFICES ASSUME NEW n \in U, NEW m \in t.nodes, n \in Heads(m) PROVE m \in U
      BY DEF Unlocked
    <3>1. Holds(n, H, at) = {}
      BY <1>2, HoldersCount
    <3>2. ASSUME NEW r \in H, m \in Heads(at[r]) PROVE n \in Heads(at[r])
      <4>1. at[r] \in t.nodes \cup {<<>>} /\ at[r] # <<>>
        BY <1>2, <3>2, NoHeads DEF Locked
      <4>2. at[r] \in Seq(Tokens)
        BY <1>2, <4>1 DEF IsRadix
      <4> QED
        BY <3>2, <4>2, HeadsFacts
    <3>3. Holds(m, H, at) = {}
      BY <3>1, <3>2 DEF Holds
    <3> QED
      BY <1>2, <3>3, HoldersCount
  <2>2. U \subseteq N
    <3>1. N \in Evictions(t, num)
      BY <1>10 DEF RoomFor
    <3>2. U \in SUBSET t.nodes
      OBVIOUS
    <3> HIDE DEF U, t
    <3> QED
      BY <1>10, <2>1, <3>1, <3>2 DEF Evictions, E
  <2>3. Edges(t, U) \subseteq E
    BY <2>2 DEF Edges
  <2>4. t.evictable = Cardinality(Edges(t, U))
    BY <1>2, UnlockedEdges DEF Locked
  <2> HIDE DEF E, U
  <2>5. Cardinality(Edges(t, U)) <= Cardinality(E) /\ Cardinality(Edges(t, U)) \in Nat
    BY <1>7, <2>3, FS_Subset, FS_CardinalityType
  <2>6. num <= Cardinality(kvFree) + Cardinality(Edges(t, U))
    BY <2>4 DEF Available
  <2> QED
    BY <1>5, <1>7, <1>8, <2>5, <2>6
<1> QED
  BY <1>4, <1>9, <1>10

\* While a batch of the waiting queue is added, with no running request past its maximum, what the adder still gives out
\* and what it has given out fit what is free and what may be evicted.
Budget(total, tokens, room) == total \in Int /\ tokens \in Int /\ total + tokens <= room /\ tokens <= room
Budgeted ==
  pc \in {"adding", "extend"} /\ Range(adder.canRun) \subseteq waiting /\ (\A r \in running : Beyond(r) = {})
    => Budget(adder.total, adder.tokens, Available)

\* Both pools are counted.
LEMMA RoomTyped ==
  ASSUME LocksHeld, SlotsApart
  PROVE  Cardinality(kvFree) \in Nat /\ tree_cache.evictable \in Nat /\ Available \in Nat
<1>1. Cardinality(kvFree) \in Nat
  <2>1. kvFree \subseteq Slots
    BY DEF SlotsApart, Partition
  <2> QED
    BY <2>1, SlotsCount
<1>2. tree_cache.evictable \in Nat
  <2> DEFINE D == DOMAIN tree_cache.value
             H == Held(LockHolders, Nodes)
  <2>1. tree_cache.evictable = Cardinality(D \ H) /\ IsFiniteSet(D)
    BY DEF LocksHeld, Locked
  <2> HIDE DEF D, H
  <2> QED
    BY <2>1, FS_Subset, FS_CardinalityType
<1> QED
  BY <1>1, <1>2 DEF Available

\* No request may outgrow the pool.
LEMMA MaxTyped ==
  ASSUME NEW r \in Requests
  PROVE  MaxNewTokens(r) \in Nat
<1> DEFINE l == Len(Prompt[r])
           m == MaxNew[r]
<1>1. l \in Nat /\ m \in Nat /\ KVSize \in Nat /\ l + 3 <= KVSize
  BY EngineAssumption, PromptLen
<1>2. MaxNewTokens(r) = Lesser(m, (KVSize - 1) - l - 1)
  BY DEF MaxNewTokens
<1> HIDE DEF l, m
<1> QED
  BY <1>1, <1>2 DEF Lesser

\* Less than nothing is never set aside for requests within their maximum.
LEMMA ReserveTyped ==
  ASSUME BatchTypes, \A r \in running : Beyond(r) = {}, NEW share
  PROVE  Reserve(share) \in Nat
<1> DEFINE R(r) == {r} \X Remaining(r)
           S == {R(r) : r \in running}
           B == UNION {{r} \X Beyond(r) : r \in running}
<1>1. B = {} /\ Cardinality(B) = 0
  BY FS_EmptySet
<1>2. IsFiniteSet(running) /\ running \subseteq Requests
  BY FS_Subset DEF BatchTypes
<1>3. ASSUME NEW r \in running PROVE IsFiniteSet(R(r))
  <2> DEFINE l == Len(req[r].out)
  <2>1. l \in Nat
    BY <1>2 DEF BatchTypes, ReqTyped
  <2>2. IsFiniteSet(Remaining(r))
    <3>1. Remaining(r) = (l + 1)..MaxNewTokens(r)
      BY DEF Remaining
    <3> HIDE DEF l
    <3>2. l + 1 \in Int /\ MaxNewTokens(r) \in Int
      BY <1>2, <2>1, MaxTyped
    <3> QED
      BY <3>1, <3>2, FS_Interval
  <2> QED
    BY <2>2, FS_Singleton, FS_Product
<1>4. IsFiniteSet(UNION S)
  <2>1. IsFiniteSet(S)
    <3> DEFINE f == [r \in running |-> R(r)]
    <3>1. f \in Surjection(running, S)
      BY DEF Surjection
    <3> HIDE DEF f, S
    <3> QED
      BY <1>2, <3>1, FS_Surjection
  <2>2. \A s \in S : IsFiniteSet(s)
    BY <1>3
  <2> HIDE DEF S
  <2> QED
    BY <2>1, <2>2, FS_UNION
<1>5. Reserve(share) = IF share = 0 THEN 0 ELSE Cardinality(UNION S) - Cardinality(B)
  BY DEF Reserve
<1> HIDE DEF S, B
<1>6. Cardinality(UNION S) \in Nat
  BY <1>4, FS_CardinalityType
<1> QED
  BY <1>1, <1>5, <1>6

\* A request is taken out of the room that is left when its prefix is locked.
LEMMA TakenFits ==
  ASSUME NEW f \in Int, NEW e \in Int, NEW g \in Int, NEW total, NEW tokens, Budget(total, tokens, f + e),
         NEW room, room = total + (g - e), NEW extend \in Int, NEW chunk \in Int, NEW max \in Nat, ~(extend + max > room),
         NEW n, n = (IF extend <= chunk THEN extend ELSE chunk), NEW more, more = (IF extend <= chunk THEN max ELSE 0)
  PROVE  Budget(room - (n + more), tokens + n, f + g)
<1>1. total \in Int /\ tokens \in Int /\ total + tokens <= f + e
  BY DEF Budget
<1>2. room \in Int
  BY <1>1
<1>3. n \in Int /\ more \in Nat /\ n + more <= extend + max
  OBVIOUS
<1>4. n + more <= room
  BY <1>2, <1>3
<1>5. room - (n + more) \in Int /\ tokens + n \in Int
  BY <1>1, <1>2, <1>3
<1>6. room - (n + more) + (tokens + n) <= f + g
  BY <1>1, <1>3
<1>7. tokens + n <= f + g
  BY <1>1, <1>3, <1>4, <1>5, <1>6
<1> QED
  BY <1>5, <1>6, <1>7 DEF Budget

\* The adder begins with the room there is but for what is set aside, and has given out nothing, or a request in flight.
LEMMA BeginPrefillBudget ==
  ASSUME PrefixAware, ~IsMixedChunk, TreeTyped, BatchTypes, Loop, Apart, LocksHeld, SlotsApart,
         NEW share, BeginPrefill(share)
  PROVE  Budgeted'
<1> DEFINE mixed == IF IsMixedChunk THEN Cardinality(running) ELSE 0
           empty == [NoAdder EXCEPT !.total = Available - mixed - Reserve(share), !.cur = Available - mixed,
                                    !.input = MaxPrefillTokens - mixed, !.chunk = ChunkedPrefillSize - mixed]
           keys == {MatchKey(w) : w \in waiting}
<1>1. UNCHANGED <<kvFree, waiting, running>> /\ tree_cache' = Split(tree_cache, keys)
  BY DEF BeginPrefill
<1>2. CASE inflight # None
  <2>1. Range(adder'.canRun) = {inflight} /\ inflight \notin waiting
    BY <1>2, BeginPrefillAdds DEF Apart
  <2> QED
    BY <1>1, <2>1 DEF Budgeted
<1>3. CASE inflight = None
  <2> SUFFICES ASSUME \A r \in running : Beyond(r)' = {} PROVE Budget(adder'.total, adder'.tokens, Available')
    BY <1>1 DEF Budgeted
  <2>1. adder' = empty /\ req' = req
    BY <1>3 DEF BeginPrefill
  <2>2. \A r \in running : Beyond(r) = {}
    BY <2>1 DEF Beyond
  <2>3. Available' = Available
    <3> HIDE DEF keys
    <3>1. tree_cache'.evictable = tree_cache.evictable
      BY <1>1 DEF Split, TreeTyped, IsRadix
    <3> QED
      BY <1>1, <3>1 DEF Available
  <2>4. empty.total = Available - 0 - Reserve(share) /\ empty.tokens = 0
    BY DEF NoAdder
  <2> HIDE DEF empty
  <2>5. Reserve(share) \in Nat /\ Available \in Nat
    BY <2>2, ReserveTyped, RoomTyped
  <2> QED
    BY <2>1, <2>3, <2>4, <2>5 DEF Budget
<1> QED
  BY <1>2, <1>3

\* A request that is added takes its tokens, and those it may still generate, from the room left when its prefix is locked.
LEMMA AddOneReqBudget ==
  ASSUME TreeTyped, BatchTypes, Loop, Apart, LocksHeld, LocksHeld', SlotsApart, SlotsApart', Budgeted,
         NEW r \in Requests, AddOneReq(r)
  PROVE  Budgeted'
<1> DEFINE key == MatchKey(r)
           split == Split(tree_cache, {key})
           node == Cached(tree_cache, key)
           locked == IncLock(split, node)
           extend == Len(Ids(r)) - Len(node)
           whole == extend <= adder.chunk
           n == IF whole THEN extend ELSE adder.chunk
           room == adder.total + (locked.evictable - split.evictable)
           more == IF whole THEN MaxNewTokens(r) ELSE 0
           full == Full(extend + MaxNewTokens(r), adder.total, room)
           fits == ~full /\ ~(extend > adder.input /\ adder.canRun # <<>>) /\ n > 0
           taken == Take([adder EXCEPT !.total = room], r, n, more)
           fitted == [taken EXCEPT !.inflight = IF whole THEN taken.inflight ELSE r]
<1>1. UNCHANGED <<kvFree, waiting, running>> /\ pc = "adding" /\ \A o \in Requests : req'[o].out = req[o].out
  <2>1. \A o \in Requests \ {r} : req'[o] = req[o]
    BY AddOneReqReq
  <2>2. req'[r].out = req[r].out
    BY AddOneReqReq
  <2> QED
    BY <2>1, <2>2 DEF AddOneReq
<1>2. \/ ~fits /\ tree_cache' = split /\ adder' = adder
      \/ fits /\ tree_cache' = locked /\ adder' = fitted
  BY DEF AddOneReq
<1>3. Range(adder.canRun) \subseteq Range(adder'.canRun)
  BY AddOneReqAdds
<1>4. running \subseteq Requests /\ \A o \in running : Beyond(o)' = Beyond(o)
  BY <1>1 DEF Beyond, BatchTypes
<1>5. split.evictable = tree_cache.evictable
  <2> DEFINE keys == {key}
  <2> HIDE DEF keys
  <2>1. Split(tree_cache, keys).evictable = tree_cache.evictable
    BY DEF Split, TreeTyped, IsRadix
  <2> QED
    BY <2>1 DEF keys
<1>6. /\ Cardinality(kvFree) \in Nat /\ tree_cache.evictable \in Nat /\ Available = Cardinality(kvFree) + tree_cache.evictable
      /\ tree_cache'.evictable \in Nat /\ Available' = Cardinality(kvFree) + tree_cache'.evictable
  <2>1. Cardinality(kvFree) \in Nat /\ tree_cache.evictable \in Nat
    BY RoomTyped
  <2>2. tree_cache'.evictable \in Nat
    <3> DEFINE D == DOMAIN tree_cache'.value
               H == Held(LockHolders', Nodes')
    <3>1. tree_cache'.evictable = Cardinality(D \ H) /\ IsFiniteSet(D)
      BY DEF LocksHeld, Locked
    <3> HIDE DEF D, H
    <3> QED
      BY <3>1, FS_Subset, FS_CardinalityType
  <2> QED
    BY <1>1, <2>1, <2>2 DEF Available
<1> SUFFICES ASSUME Range(adder.canRun) \subseteq waiting, \A o \in running : Beyond(o) = {}
             PROVE  Budget(adder'.total, adder'.tokens, Available')
  BY <1>1, <1>3, <1>4 DEF Budgeted
<1>7. Budget(adder.total, adder.tokens, Cardinality(kvFree) + tree_cache.evictable)
  BY <1>1, <1>6 DEF Budgeted
<1> HIDE DEF split
<1>8. CASE ~fits /\ tree_cache' = split /\ adder' = adder
  <2> HIDE DEF fits
  <2> QED
    BY <1>5, <1>6, <1>7, <1>8
<1>9. CASE fits /\ tree_cache' = locked /\ adder' = fitted
  <2>1. ~(extend + MaxNewTokens(r) > room)
    BY <1>9 DEF Full
  <2>2. room = adder.total + (tree_cache'.evictable - tree_cache.evictable)
    <3> HIDE DEF fits, fitted, locked
    <3> QED
      BY <1>5, <1>9
  <2>3. extend \in Int
    <3>1. key \in Seq(Tokens) /\ Len(Ids(r)) \in Nat
      BY IdsTyped
    <3> HIDE DEF key
    <3>2. Len(node) \in Nat
      BY <3>1, CachedIs DEF TreeTyped
    <3> QED
      BY <3>1, <3>2
  <2>4. adder.chunk \in Int /\ MaxNewTokens(r) \in Nat
    BY MaxTyped DEF BatchTypes, AdderTyped
  <2>5. fitted.total = room - (n + more) /\ fitted.tokens = adder.tokens + n
    <3>1. DOMAIN adder = DOMAIN NoAdder
      BY DEF BatchTypes, AdderTyped
    <3> HIDE DEF n, room, more, whole
    <3>2. taken.total = room - (n + more) /\ taken.tokens = adder.tokens + n /\ DOMAIN taken = DOMAIN NoAdder
      BY <3>1 DEF NoAdder, Take
    <3> HIDE DEF taken
    <3> QED
      BY <3>2 DEF NoAdder
  <2> DEFINE f == Cardinality(kvFree)
             e == tree_cache.evictable
             g == tree_cache'.evictable
             max == MaxNewTokens(r)
             total == adder.total
             tokens == adder.tokens
             chunk == adder.chunk
  <2>6. n = (IF extend <= chunk THEN extend ELSE chunk) /\ more = (IF extend <= chunk THEN max ELSE 0)
    OBVIOUS
  <2>7. f \in Int /\ e \in Int /\ g \in Int /\ Budget(total, tokens, f + e) /\ room = total + (g - e) /\ extend \in Int
        /\ chunk \in Int /\ max \in Nat /\ ~(extend + max > room)
    <3> HIDE DEF room, extend
    <3> QED
      BY <1>6, <1>7, <2>1, <2>2, <2>3, <2>4
  <2> HIDE DEF f, e, g, max, total, tokens, chunk, room, extend, n, more
  <2>8. Budget(room - (n + more), tokens + n, f + g)
    BY <2>6, <2>7, TakenFits
  <2>9. adder'.total = room - (n + more) /\ adder'.tokens = tokens + n /\ Available' = f + g
    <3> HIDE DEF fits, fitted
    <3> QED
      BY <1>6, <1>9, <2>5 DEF f, g, tokens
  <2> QED
    BY <2>8, <2>9
<1> HIDE DEF fits, fitted, locked
<1> QED
  BY <1>2, <1>8, <1>9

\* The steps that neither give out room nor take any back.
LEMMA BudgetSame ==
  ASSUME Budgeted, UNCHANGED <<adder, req, running, kvFree, tree_cache>>, waiting' \subseteq waiting,
         pc' \in {"adding", "extend"} => pc \in {"adding", "extend"}
  PROVE  Budgeted'
<1>1. \A r : Beyond(r)' = Beyond(r)
  BY DEF Beyond
<1>2. Available' = Available
  BY DEF Available
<1> QED
  BY <1>1, <1>2 DEF Budgeted

\* The adder never gives out more than there is.
LEMMA BudgetedKept ==
  ASSUME PrefixAware, ~IsMixedChunk, MemInv, MemInv', Budgeted, [BatchNext]_batchVars
  PROVE  Budgeted'
<1>0. TreeTyped /\ BatchTypes /\ Loop /\ Apart /\ LocksHeld /\ SlotsApart /\ LocksHeld' /\ SlotsApart'
  BY DEF MemInv, LockInv, EngineInv, Memory
<1>1. CASE pc' \notin {"adding", "extend"}
  BY <1>1 DEF Budgeted
<1>2. ASSUME NEW share, BeginPrefill(share) PROVE Budgeted'
  BY <1>0, <1>2, BeginPrefillBudget
<1>3. ASSUME NEW r \in Requests, AddOneReq(r) PROVE Budgeted'
  BY <1>0, <1>3, AddOneReqBudget
<1>4. ASSUME NEW r \in Requests, AbortExceedSLO(r) PROVE Budgeted'
  <2>1. UNCHANGED <<adder, req, running, kvFree, tree_cache, pc>> /\ waiting' \subseteq waiting
    BY <1>4 DEF AbortExceedSLO, memory
  <2> QED
    BY <2>1, BudgetSame
<1>5. CASE StopAdding
  <2>1. UNCHANGED <<adder, req, running, kvFree, tree_cache, waiting>> /\ pc = "adding"
    BY <1>5 DEF StopAdding, memory
  <2> QED
    BY <2>1, BudgetSame
<1>6. CASE UNCHANGED batchVars
  <2>1. UNCHANGED <<adder, req, running, kvFree, tree_cache, waiting, pc>>
    BY <1>6 DEF batchVars
  <2> QED
    BY <2>1, BudgetSame
<1>7. CASE PrepareForExtend
  <2>1. pc' \in {"out_of_memory", "process"}
    BY <1>0, <1>7, PrepareForExtendMoves
  <2> QED
    BY <1>1, <2>1
<1>8. ASSUME NEW r \in Requests, Receive(r) \/ Abort(r) \/ ProcessChunk(r) \/ Retract(r) PROVE pc' \notin {"adding", "extend"}
  BY <1>8 DEF Receive, Abort, ProcessChunk, Retract
<1>9. ASSUME NEW r \in Requests, NEW token, Jump(r, token) PROVE pc' \notin {"adding", "extend"}
  BY <1>9 DEF Jump
<1>10. ASSUME NEW r \in Requests, NEW token, NEW stop, Process(r, token, stop) PROVE pc' \notin {"adding", "extend"}
  BY <1>10 DEF Process
<1>11. MergeLastBatch \/ SkipPrefill \/ NothingAdded \/ NoRunningBatch \/ RunningBatchGone \/ CheckDecodeMem
       \/ PrepareForDecode \/ BatchProcessed \/ Completed \/ RunToCompletion => pc' \notin {"adding", "extend"}
  BY DEF MergeLastBatch, SkipPrefill, NothingAdded, NoRunningBatch, RunningBatchGone, CheckDecodeMem,
     PrepareForDecode, BatchProcessed, Completed, RunToCompletion
<1> QED
  BY <1>1, <1>2, <1>3, <1>4, <1>5, <1>6, <1>7, <1>8, <1>9, <1>10, <1>11 DEF BatchNext, LoopStep, Outside

\* A batch that was let in from the waiting queue gets its slots.
LEMMA AdmittedKept ==
  ASSUME ~IsMixedChunk, MemInv, Budgeted, AdmittedFits, [BatchNext]_batchVars
  PROVE  AdmittedFits'
<1>0. TreeTyped /\ BatchTypes /\ LocksHeld /\ SlotsApart
  BY DEF MemInv, LockInv, EngineInv, Memory
<1>1. CASE PrepareForExtend /\ pc' = "out_of_memory"
  <2> DEFINE reqs == Range(adder.canRun)
             mixed == IF IsMixedChunk THEN running ELSE {}
             need == adder.tokens + Cardinality(mixed)
  <2>1. pc = "extend" /\ UNCHANGED <<req, waiting, running, adder>>
    <3>1. pc = "extend"
      BY <1>1 DEF PrepareForExtend
    <3>2. UNCHANGED <<req, waiting, running, adder>>
      BY <1>1 DEF PrepareForExtend
    <3> QED
      BY <3>1, <3>2
  <2>2. \E N \in RoomFor(need) : Cardinality(FreeAfter(N)) < need
    BY <1>1 DEF PrepareForExtend
  <2>3. \A r : Beyond(r)' = Beyond(r)
    BY <2>1 DEF Beyond
  <2> SUFFICES ASSUME reqs \subseteq waiting, \A r \in running : Beyond(r) = {} PROVE FALSE
    BY <2>1, <2>3 DEF AdmittedFits
  <2>4. adder.tokens \in Int /\ adder.tokens <= Available
    BY <2>1 DEF Budgeted, Budget
  <2>5. need = adder.tokens
    <3>1. mixed = {} /\ Cardinality({}) = 0
      BY FS_EmptySet
    <3> HIDE DEF mixed
    <3> QED
      BY <2>4, <3>1
  <2> HIDE DEF need
  <2>6. PICK N \in RoomFor(need) : Cardinality(FreeAfter(N)) < need
    BY <2>2
  <2>7. Cardinality(FreeAfter(N)) >= need
    BY <1>0, <2>4, <2>5, RoomMade
  <2>8. Cardinality(FreeAfter(N)) \in Nat
    <3>1. kvFree \subseteq Slots
      BY <1>0 DEF SlotsApart, Partition
    <3>2. N \subseteq tree_cache.nodes
      BY RoomForClosed, EvictionsClosed
    <3>3. SlotsIn(tree_cache, N) \subseteq Slots
      <4>1. Edges(tree_cache, N) \subseteq DOMAIN tree_cache.value
        BY <1>0, <3>2, EdgesCached DEF TreeTyped
      <4>2. \A p \in DOMAIN tree_cache.value : tree_cache.value[p] \in Slots
        BY <1>0 DEF SlotsApart, Partition
      <4> QED
        BY <4>1, <4>2 DEF SlotsIn
    <3>4. FreeAfter(N) \subseteq Slots
      BY <3>1, <3>3 DEF FreeAfter
    <3> QED
      BY <3>4, SlotsCount
  <2> QED
    BY <2>4, <2>5, <2>6, <2>7, <2>8
<1>2. CASE UNCHANGED batchVars
  <2>1. UNCHANGED <<pc, req, running, waiting, adder>>
    BY <1>2 DEF batchVars
  <2>2. \A r : Beyond(r)' = Beyond(r)
    BY <2>1 DEF Beyond
  <2> QED
    BY <2>1, <2>2 DEF AdmittedFits
<1>3. CASE pc' # "out_of_memory"
  BY <1>3 DEF AdmittedFits
<1>4. ASSUME NEW r \in Requests, Receive(r) \/ Abort(r) \/ ProcessChunk(r) \/ Retract(r) \/ AbortExceedSLO(r) \/ AddOneReq(r)
      PROVE  pc' # "out_of_memory"
  BY <1>4 DEF Receive, Abort, ProcessChunk, Retract, AbortExceedSLO, AddOneReq
<1>5. ASSUME NEW r \in Requests, NEW token, Jump(r, token) PROVE pc' # "out_of_memory"
  BY <1>5 DEF Jump
<1>6. ASSUME NEW r \in Requests, NEW token, NEW stop, Process(r, token, stop) PROVE pc' # "out_of_memory"
  BY <1>6 DEF Process
<1>7. ASSUME NEW share, BeginPrefill(share) PROVE pc' # "out_of_memory"
  BY <1>7 DEF BeginPrefill
<1>8. MergeLastBatch \/ SkipPrefill \/ StopAdding \/ NothingAdded \/ NoRunningBatch \/ RunningBatchGone \/ CheckDecodeMem
      \/ PrepareForDecode \/ BatchProcessed \/ Completed \/ RunToCompletion => pc' # "out_of_memory"
  BY DEF MergeLastBatch, SkipPrefill, StopAdding, NothingAdded, NoRunningBatch, RunningBatchGone, CheckDecodeMem,
     PrepareForDecode, BatchProcessed, Completed, RunToCompletion
<1> QED
  BY <1>1, <1>2, <1>3, <1>4, <1>5, <1>6, <1>7, <1>8 DEF BatchNext, LoopStep, Outside

\* Requests let in from the waiting queue fit, whatever the order of locks, splits and evictions: no batch of them ends the
\* process with "Prefill out of memory", as long as no request past its maximum is still in the running batch.
THEOREM AdmittedAlwaysFit == PrefixAware /\ ~IsMixedChunk /\ BatchSpec => []AdmittedFits
<1> SUFFICES ASSUME PrefixAware, ~IsMixedChunk PROVE BatchSpec => []AdmittedFits
  OBVIOUS
<1> DEFINE Inv == MemInv /\ Budgeted /\ AdmittedFits
<1>1. BatchInit => Inv
  BY MemInvInitially DEF BatchInit, Budgeted, AdmittedFits
<1>2. Inv /\ [BatchNext]_batchVars => Inv'
  BY MemInvKept, BudgetedKept, AdmittedKept
<1>3. Inv => AdmittedFits
  OBVIOUS
<1> QED
  BY <1>1, <1>2, <1>3, PTL DEF BatchSpec

===============================================================================
