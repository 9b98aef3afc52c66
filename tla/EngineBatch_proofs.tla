--------------------------- MODULE EngineBatch_proofs ---------------------------
(***************************************************************************)
(* Proofs about one engine, for any requests, prompts, outputs and sizes   *)
(* of its pools.  First about the operators of RadixCache: each of them    *)
(* keeps the tree a radix tree.  Then about the engine: its cache stays    *)
(* one, a request received is in one of the places the loop keeps it until *)
(* it has finished, and, with the code's defaults, a request is in one     *)
(* place only and the locks of the tree count the requests that use its    *)
(* nodes.                                                                  *)
(***************************************************************************)
EXTENDS EngineBatch, FiniteSetTheorems, WellFoundedInduction, SequenceTheorems, TLAPS

-------------------------------------------------------------------------------
(* Prefixes *)

\* A set of numbers has a least element: well-founded are the intervals from 0.
LEMMA LeastElement ==
  ASSUME NEW S, S \subseteq Nat, S # {}
  PROVE  \E n \in S : \A m \in S : n <= m
<1> DEFINE T == {0..n : n \in S}
           R == StrictSubsetOrdering(Nat)
<1>1. T \subseteq FiniteSubsetsOf(Nat) /\ T # {}
  <2>1. \A n \in S : IsFiniteSet(0..n) /\ 0..n \in SUBSET Nat
    BY FS_Interval
  <2> QED
    BY <2>1 DEF FiniteSubsetsOf
<1>2. PICK t \in T : \A u \in T : <<u, t>> \notin R
  <2> HIDE DEF T, R
  <2> QED
    BY <1>1, WFMin, FS_StrictSubsetOrderingWellFounded DEF R
<1>3. PICK n \in S : t = 0..n
  OBVIOUS
<1>4. ASSUME NEW m \in S, m < n PROVE FALSE
  <2>1. (0..m) \subseteq (0..n) /\ n \in 0..n /\ n \notin 0..m
    BY <1>4
  <2>2. <<0..m, 0..n>> \in R
    BY <2>1 DEF StrictSubsetOrdering
  <2> QED
    BY <1>2, <1>3, <2>2
<1> QED
  BY <1>4

\* p is a prefix of q, place by place.
Starts(p, q) == Len(p) <= Len(q) /\ \A i \in 1..Len(p) : p[i] = q[i]

\* What a prefix is: SubSeq from the first place.
LEMMA SubSeqStarts ==
  ASSUME NEW T, NEW q, q \in Seq(T), NEW n \in 0..Len(q)
  PROVE  /\ SubSeq(q, 1, n) \in Seq(T) /\ Len(SubSeq(q, 1, n)) = n
         /\ \A i \in 1..n : SubSeq(q, 1, n)[i] = q[i]
<1>1. \A i \in 1..n : q[i] \in T
  OBVIOUS
<1>2. n \in Int /\ (IF 1 <= n THEN n - 1 + 1 ELSE 0) = n /\ n - 1 + 1 = n
  OBVIOUS
<1>3. \A i \in 1..n : 1 + i - 1 = i
  OBVIOUS
<1> QED
  BY <1>1, <1>2, <1>3, SubSeqProperties

\* The heads of a sequence are its prefixes but for the empty one.
LEMMA HeadsAre ==
  ASSUME NEW T, NEW q, q \in Seq(T), NEW p
  PROVE  p \in Heads(q) <=> p \in Seq(T) /\ p # <<>> /\ Starts(p, q)
<1>1. ASSUME p \in Heads(q) PROVE p \in Seq(T) /\ p # <<>> /\ Starts(p, q)
  <2>1. PICK i \in 1..Len(q) : p = SubSeq(q, 1, i)
    BY <1>1 DEF Heads
  <2>2. i \in 0..Len(q)
    BY <2>1
  <2>3. p \in Seq(T) /\ Len(p) = i /\ \A k \in 1..i : p[k] = q[k]
    BY <2>1, <2>2, SubSeqStarts
  <2> QED
    BY <2>1, <2>3 DEF Starts
<1>2. ASSUME p \in Seq(T), p # <<>>, Starts(p, q) PROVE p \in Heads(q)
  <2> DEFINE i == Len(p)
             s == SubSeq(q, 1, i)
  <2>1. i \in 1..Len(q) /\ i \in 0..Len(q) /\ \A k \in 1..i : p[k] = q[k]
    BY <1>2 DEF Starts
  <2>2. s \in Seq(T) /\ Len(s) = i /\ \A k \in 1..i : s[k] = q[k]
    BY <2>1, SubSeqStarts
  <2> HIDE DEF s
  <2>3. p = s
    BY <1>2, <2>1, <2>2
  <2> QED
    BY <2>1, <2>3 DEF Heads, s
<1> QED
  BY <1>1, <1>2

\* Being a prefix is transitive, and of two prefixes of a sequence one is a prefix of the other.
LEMMA StartsOrder ==
  ASSUME NEW T, NEW p \in Seq(T), NEW q \in Seq(T), NEW k \in Seq(T)
  PROVE  /\ Starts(p, p)
         /\ Starts(p, q) /\ Starts(q, k) => Starts(p, k)
         /\ Starts(p, k) /\ Starts(q, k) => (Starts(p, q) <=> Len(p) <= Len(q))
         /\ Starts(p, q) /\ Len(q) <= Len(p) => p = q
         /\ Starts(p, q) => Len(p) <= Len(q)
<1>1. Starts(p, p)
  BY DEF Starts
<1>2. ASSUME Starts(p, q), Starts(q, k) PROVE Starts(p, k)
  BY <1>2 DEF Starts
<1>3. ASSUME Starts(p, k), Starts(q, k) PROVE Starts(p, q) <=> Len(p) <= Len(q)
  BY <1>3 DEF Starts
<1>4. ASSUME Starts(p, q), Len(q) <= Len(p) PROVE p = q
  BY <1>4 DEF Starts
<1> QED
  BY <1>1, <1>2, <1>3, <1>4 DEF Starts

\* It is the community modules' IsPrefix.
LEMMA StartsIsPrefix ==
  ASSUME NEW T, NEW p \in Seq(T), NEW q \in Seq(T)
  PROVE  IsPrefix(p, q) <=> Starts(p, q)
<1>1. ASSUME Len(p) <= Len(q) PROVE SubSeq(p, 1, Len(p)) = SubSeq(q, 1, Len(p)) <=> \A i \in 1..Len(p) : p[i] = q[i]
  <2> DEFINE s == SubSeq(q, 1, Len(p))
  <2>1. SubSeq(p, 1, Len(p)) = p
    BY SubSeqFull
  <2>2. s \in Seq(T) /\ Len(s) = Len(p) /\ \A i \in 1..Len(p) : s[i] = q[i]
    BY <1>1, SubSeqStarts
  <2> HIDE DEF s
  <2>3. p = s <=> \A i \in 1..Len(p) : p[i] = q[i]
    BY <2>2
  <2> QED
    BY <2>1, <2>3 DEF s
<1> QED
  BY <1>1 DEF IsPrefix, Starts

\* The facts about heads that the tree rests on.
LEMMA HeadsFacts ==
  ASSUME NEW T, NEW k, k \in Seq(T)
  PROVE  /\ k # <<>> => k \in Heads(k)
         /\ \A p \in Heads(k) : p \in Seq(T) /\ p # <<>> /\ Len(p) \in Nat /\ Heads(p) \subseteq Heads(k)
         /\ \A p, q \in Heads(k) : Len(p) <= Len(q) => p \in Heads(q)
         /\ \A p \in Heads(k) : Len(p) <= Len(k) /\ (Len(p) = Len(k) => p = k)
<1>1. k # <<>> => k \in Heads(k)
  BY HeadsAre, StartsOrder
<1>2. ASSUME NEW p \in Heads(k) PROVE p \in Seq(T) /\ p # <<>> /\ Starts(p, k) /\ Len(p) \in Nat
  BY HeadsAre
<1>3. ASSUME NEW p \in Heads(k), NEW q \in Heads(p) PROVE q \in Heads(k)
  <2>1. p \in Seq(T) /\ Starts(p, k)
    BY <1>2
  <2>2. q \in Seq(T) /\ q # <<>> /\ Starts(q, p)
    BY <2>1, HeadsAre
  <2>3. Starts(q, k)
    BY <2>1, <2>2, StartsOrder
  <2> QED
    BY <2>2, <2>3, HeadsAre
<1>4. ASSUME NEW p \in Heads(k), NEW q \in Heads(k), Len(p) <= Len(q) PROVE p \in Heads(q)
  <2>1. Starts(p, q)
    BY <1>2, <1>4, StartsOrder
  <2> QED
    BY <1>2, <2>1, HeadsAre
<1>5. ASSUME NEW p \in Heads(k) PROVE Len(p) <= Len(k) /\ (Len(p) = Len(k) => p = k)
  BY <1>2, StartsOrder
<1> QED
  BY <1>1, <1>2, <1>3, <1>4, <1>5

\* A sequence has as many heads as places.
LEMMA HeadsFinite ==
  ASSUME NEW T, NEW k, k \in Seq(T)
  PROVE  IsFiniteSet(Heads(k)) /\ Cardinality(Heads(k)) = Len(k)
<1> DEFINE f == [i \in 1..Len(k) |-> SubSeq(k, 1, i)]
<1>1. f \in Bijection(1..Len(k), Heads(k))
  <2>1. f \in Surjection(1..Len(k), Heads(k))
    BY DEF Heads, Surjection
  <2>2. ASSUME NEW i \in 1..Len(k), NEW j \in 1..Len(k), f[i] = f[j] PROVE i = j
    <3>1. Len(SubSeq(k, 1, i)) = i /\ Len(SubSeq(k, 1, j)) = j
      BY SubSeqStarts
    <3> QED
      BY <2>2, <3>1
  <2> HIDE DEF f
  <2> QED
    BY <2>1, <2>2 DEF Bijection, Injection, Surjection, IsInjective
<1>2. IsFiniteSet(1..Len(k)) /\ Cardinality(1..Len(k)) = Len(k)
  <2>1. Len(k) \in Nat
    OBVIOUS
  <2> QED
    BY <2>1, FS_Interval
<1>3. ExistsBijection(1..Len(k), Heads(k))
  BY <1>1 DEF ExistsBijection
<1> QED
  BY <1>2, <1>3, FS_Bijection

\* Adding a token to a prefix.
LEMMA AppendHeads ==
  ASSUME NEW T, NEW k, k \in Seq(T), NEW p, p \in Seq(T), NEW a \in T, Append(p, a) \in Heads(k)
  PROVE  /\ p # <<>> => p \in Heads(k)
         /\ \A q \in Heads(k) : Len(p) < Len(q) => Append(p, a) \in Heads(q)
         /\ \A b \in T : Append(p, b) \in Heads(k) => a = b
<1>1. /\ Append(p, a) \in Seq(T) /\ Len(Append(p, a)) = Len(p) + 1 /\ Append(p, a)[Len(p) + 1] = a
      /\ \A i \in 1..Len(p) : Append(p, a)[i] = p[i]
  OBVIOUS
<1>2. Starts(Append(p, a), k)
  BY HeadsAre
<1>3. Starts(p, k) /\ k[Len(p) + 1] = a
  BY <1>1, <1>2 DEF Starts
<1>4. p # <<>> => p \in Heads(k)
  BY <1>3, HeadsAre
<1>5. ASSUME NEW q \in Heads(k), Len(p) < Len(q) PROVE Append(p, a) \in Heads(q)
  <2>1. Len(Append(p, a)) <= Len(q)
    BY <1>1, <1>5, HeadsFacts
  <2> QED
    BY <2>1, HeadsFacts
<1>6. ASSUME NEW b \in T, Append(p, b) \in Heads(k) PROVE a = b
  <2>1. Starts(Append(p, b), k)
    BY <1>6, HeadsAre
  <2>2. Len(Append(p, b)) = Len(p) + 1 /\ Append(p, b)[Len(p) + 1] = b
    OBVIOUS
  <2> QED
    BY <1>3, <2>1, <2>2 DEF Starts
<1> QED
  BY <1>4, <1>5, <1>6

\* A nonempty sequence is a head of each longer one it begins.
LEMMA HeadOfAppend ==
  ASSUME NEW T, NEW p, p \in Seq(T), p # <<>>, NEW a \in T
  PROVE  p \in Heads(Append(p, a))
<1>1. Append(p, a) \in Seq(T) /\ Starts(p, Append(p, a))
  BY DEF Starts
<1> QED
  BY <1>1, HeadsAre

-------------------------------------------------------------------------------
(* Radix trees *)

\* A radix tree of sequences over T (EngineBatch has this as TreeIsRadix).
IsRadix(t, T) ==
  /\ DOMAIN t = {"nodes", "value", "lock", "evictable"}
  /\ DOMAIN t.value \subseteq Seq(T) \ {<<>>}
  /\ t.nodes \subseteq DOMAIN t.value /\ DOMAIN t.lock = t.nodes
  /\ \A p \in DOMAIN t.value : Heads(p) \subseteq DOMAIN t.value /\ \E n \in t.nodes : p \in Heads(n)
  /\ \A p \in DOMAIN t.value : \A a, b \in T :
       a # b /\ Append(p, a) \in DOMAIN t.value /\ Append(p, b) \in DOMAIN t.value => p \in t.nodes

\* A finite set of prefixes has a longest one.
LEMMA LongestHead ==
  ASSUME NEW T, NEW k, k \in Seq(T), NEW X, X \subseteq Heads(k), X # {}
  PROVE  \E p \in X : \A q \in X : Len(q) <= Len(p)
<1> DEFINE S == {Len(k) - Len(p) : p \in X}
<1>1. \A p \in X : Len(p) \in Nat /\ Len(p) <= Len(k) /\ Len(k) \in Nat
  BY HeadsFacts
<1>2. S \subseteq Nat /\ S # {}
  BY <1>1
<1>3. PICK n \in S : \A m \in S : n <= m
  <2> HIDE DEF S
  <2> QED
    BY <1>2, LeastElement
<1>4. PICK p \in X : n = Len(k) - Len(p)
  OBVIOUS
<1>5. ASSUME NEW q \in X PROVE Len(q) <= Len(p)
  <2>1. n <= Len(k) - Len(q)
    BY <1>3
  <2> QED
    BY <1>1, <1>4, <2>1
<1> QED
  BY <1>5

\* match_prefix finds the longest cached prefix of a key.
LEMMA CachedIs ==
  ASSUME NEW T, NEW t, IsRadix(t, T), NEW key, key \in Seq(T)
  PROVE  /\ Cached(t, key) \in Seq(T)
         /\ Cached(t, key) = <<>> \/ Cached(t, key) \in Heads(key) \cap DOMAIN t.value
         /\ \A p \in Heads(key) \cap DOMAIN t.value : p \in Heads(Cached(t, key))
         /\ MatchLen(t, key) = Len(Cached(t, key))
<1> DEFINE X == Heads(key) \cap DOMAIN t.value
<1>1. CASE X = {}
  <2>1. MatchLen(t, key) = 0
    BY <1>1, FS_EmptySet DEF MatchLen
  <2>2. Cached(t, key) = <<>>
    BY <2>1, SubSeqEmpty DEF Cached
  <2>3. <<>> \in Seq(T) /\ Len(<<>>) = 0
    OBVIOUS
  <2> QED
    BY <1>1, <2>1, <2>2, <2>3
<1>2. CASE X # {}
  <2>1. PICK p \in X : \A q \in X : Len(q) <= Len(p)
    BY <1>2, LongestHead
  <2>2. p \in Seq(T) /\ Len(p) \in Nat /\ Len(p) <= Len(key) /\ \A q \in X : q \in Heads(p)
    BY <2>1, HeadsFacts
  <2>3. Heads(p) \subseteq X
    BY <2>1, HeadsFacts DEF IsRadix
  <2>4. X = Heads(p)
    BY <2>2, <2>3
  <2>5. MatchLen(t, key) = Len(p)
    BY <2>2, <2>4, HeadsFinite DEF MatchLen
  <2>6. Cached(t, key) = p
    <3> DEFINE c == SubSeq(key, 1, Len(p))
    <3>1. c \in Seq(T) /\ Len(c) = Len(p) /\ \A i \in 1..Len(p) : c[i] = key[i]
      BY <2>2, SubSeqStarts
    <3>2. \A i \in 1..Len(p) : p[i] = key[i]
      BY <2>1, HeadsAre DEF Starts
    <3> HIDE DEF c
    <3>3. c = p
      BY <2>2, <3>1, <3>2
    <3> QED
      BY <2>5, <3>3 DEF Cached, c
  <2> QED
    BY <2>1, <2>2, <2>5, <2>6
<1> QED
  BY <1>1, <1>2

\* The tree of a new cache.
LEMMA EmptyTreeRadix ==
  ASSUME NEW T
  PROVE  IsRadix(EmptyTree, T)
BY DEF IsRadix, EmptyTree

\* Splitting edges: the prefixes where matches end become nodes.
LEMMA SplitRadix ==
  ASSUME NEW T, NEW t, IsRadix(t, T), NEW keys, keys \subseteq Seq(T)
  PROVE  /\ IsRadix(Split(t, keys), T) /\ Split(t, keys).value = t.value
         /\ Split(t, keys).nodes = t.nodes \cup ({Cached(t, k) : k \in keys} \ {<<>>})
         /\ \A k \in keys : Cached(Split(t, keys), k) = Cached(t, k)
<1> DEFINE s == Split(t, keys)
           new == {Cached(t, k) : k \in keys} \ (t.nodes \cup {<<>>})
<1>1. \A k \in keys : Cached(t, k) = <<>> \/ Cached(t, k) \in DOMAIN t.value
  BY CachedIs
<1>2. new \subseteq DOMAIN t.value
  BY <1>1
<1>3. /\ DOMAIN s = {"nodes", "value", "lock", "evictable"} /\ s.value = t.value /\ s.nodes = t.nodes \cup new
      /\ DOMAIN s.lock = t.nodes \cup new
  BY DEF Split, IsRadix
<1>4. s.nodes = t.nodes \cup ({Cached(t, k) : k \in keys} \ {<<>>})
  BY <1>3
<1>5. \A k \in keys : Cached(s, k) = Cached(t, k)
  BY <1>3 DEF Cached, MatchLen
<1> HIDE DEF s, new
<1>6. IsRadix(s, T)
  BY <1>2, <1>3 DEF IsRadix
<1> QED
  BY <1>3, <1>4, <1>5, <1>6 DEF s

\* A leaf is added under a node.
LEMMA AddLeafRadix ==
  ASSUME NEW T, NEW t, IsRadix(t, T), NEW key, key \in Seq(T), NEW slots,
         Cached(t, key) \in t.nodes \cup {<<>>}
  PROVE  /\ IsRadix(AddLeaf(t, key, slots), T)
         /\ DOMAIN AddLeaf(t, key, slots).value = DOMAIN t.value \cup Heads(key)
         /\ AddLeaf(t, key, slots).nodes \subseteq t.nodes \cup {key}
<1> DEFINE s == AddLeaf(t, key, slots)
           V == DOMAIN t.value
           tail == Heads(key) \ V
           c == Cached(t, key)
<1>1. CASE tail = {}
  BY <1>1 DEF AddLeaf
<1>2. CASE tail # {}
  <2>1. /\ DOMAIN s = {"nodes", "value", "lock", "evictable"} /\ s.nodes = t.nodes \cup {key}
        /\ DOMAIN s.value = V \cup tail /\ DOMAIN s.lock = t.nodes \cup {key}
    BY <1>2 DEF AddLeaf
  <2>2. DOMAIN s.value = V \cup Heads(key)
    BY <2>1
  <2>3. key # <<>> /\ key \in Heads(key)
    <3>1. key = <<>> => Heads(key) = {}
      BY DEF Heads
    <3> QED
      BY <1>2, <3>1, HeadsFacts
  <2>4. V \cup Heads(key) \subseteq Seq(T) \ {<<>>}
    BY HeadsFacts DEF IsRadix
  <2>5. ASSUME NEW p \in V \cup Heads(key)
        PROVE  Heads(p) \subseteq V \cup Heads(key) /\ \E n \in s.nodes : p \in Heads(n)
    BY <2>1, <2>3, HeadsFacts DEF IsRadix
  <2>6. ASSUME NEW p \in Seq(T) \ {<<>>}, NEW x \in T, NEW y \in T, x # y,
               Append(p, x) \in V, Append(p, y) \in tail
        PROVE  p \in t.nodes
    <3>1. p \in Heads(key)
      BY <2>6, AppendHeads
    <3>2. p \in V
      <4>1. p \in Heads(Append(p, x))
        BY HeadOfAppend
      <4> QED
        BY <2>6, <4>1 DEF IsRadix
    <3>3. p \in Heads(c) /\ c \in Seq(T) /\ c \in Heads(key) \cap V
      <4>1. Heads(<<>>) = {}
        BY DEF Heads
      <4> QED
        BY <3>1, <3>2, <4>1, CachedIs
    <3>4. Len(p) \in Nat /\ Len(c) \in Nat /\ Len(p) <= Len(c)
      BY <3>3, HeadsFacts
    <3>5. CASE Len(p) < Len(c)
      <4>1. Append(p, y) \in Heads(c)
        BY <2>6, <3>3, <3>5, AppendHeads
      <4> QED
        BY <2>6, <3>3, <4>1 DEF IsRadix
    <3>6. CASE Len(p) = Len(c)
      BY <2>6, <3>3, <3>6, HeadsFacts
    <3> QED
      BY <3>4, <3>5, <3>6
  <2>7. ASSUME NEW p \in V \cup Heads(key), NEW x \in T, NEW y \in T, x # y,
               Append(p, x) \in V \cup Heads(key), Append(p, y) \in V \cup Heads(key)
        PROVE  p \in s.nodes
    <3>0. p \in Seq(T) \ {<<>>}
      BY <2>4
    <3>1. CASE Append(p, x) \in V /\ Append(p, y) \in V
      <4>1. p \in V
        <5>1. p \in Heads(Append(p, x))
          BY <3>0, HeadOfAppend
        <5> QED
          BY <3>1, <5>1 DEF IsRadix
      <4> QED
        BY <2>1, <2>7, <3>1, <4>1 DEF IsRadix
    <3>2. CASE Append(p, x) \in V /\ Append(p, y) \in tail
      BY <2>1, <2>6, <2>7, <3>0, <3>2
    <3>3. CASE Append(p, y) \in V /\ Append(p, x) \in tail
      BY <2>1, <2>6, <2>7, <3>0, <3>3
    <3>4. CASE Append(p, x) \in tail /\ Append(p, y) \in tail
      BY <2>7, <3>0, <3>4, AppendHeads
    <3> QED
      BY <2>7, <3>1, <3>2, <3>3, <3>4
  <2>8. s.nodes \subseteq V \cup Heads(key)
    BY <2>1, <2>3 DEF IsRadix
  <2> HIDE DEF s, V, tail
  <2>9. IsRadix(s, T)
    BY <2>1, <2>2, <2>4, <2>5, <2>7, <2>8 DEF IsRadix
  <2> QED
    BY <2>1, <2>2, <2>9 DEF s, V
<1> QED
  BY <1>1, <1>2

\* insert splits where the key leaves the tree and hangs the rest below it.
LEMMA InsertRadix ==
  ASSUME NEW T, NEW t, IsRadix(t, T), NEW key, key \in Seq(T), NEW slots
  PROVE  /\ IsRadix(Insert(t, key, slots), T)
         /\ DOMAIN Insert(t, key, slots).value = DOMAIN t.value \cup Heads(key)
<1> DEFINE s == Split(t, {key})
<1>1. IsRadix(s, T) /\ s.value = t.value /\ Cached(s, key) = Cached(t, key) /\ Cached(t, key) \in s.nodes \cup {<<>>}
  BY SplitRadix
<1> HIDE DEF s
<1>2. /\ IsRadix(AddLeaf(s, key, slots), T)
      /\ DOMAIN AddLeaf(s, key, slots).value = DOMAIN s.value \cup Heads(key)
  BY <1>1, AddLeafRadix
<1> QED
  BY <1>1, <1>2 DEF Insert, s

\* Locking changes no prefix.
LEMMA LockRadix ==
  ASSUME NEW T, NEW t, IsRadix(t, T), NEW n
  PROVE  /\ IsRadix(IncLock(t, n), T) /\ IncLock(t, n).value = t.value /\ IncLock(t, n).nodes = t.nodes
         /\ IsRadix(DecLock(t, n), T) /\ DecLock(t, n).value = t.value /\ DecLock(t, n).nodes = t.nodes
BY DEF IsRadix, IncLock, DecLock

\* Two sequences with a common prefix, neither a prefix of the other, part after a longest one.
LEMMA Parting ==
  ASSUME NEW T, NEW m, m \in Seq(T), NEW n, n \in Seq(T), m \notin Heads(n), n \notin Heads(m),
         NEW q, q \in Heads(m) \cap Heads(n)
  PROVE  \E c \in Heads(m) \cap Heads(n) : \E a, b \in T :
            a # b /\ Append(c, a) \in Heads(m) /\ Append(c, b) \in Heads(n) /\ Len(q) <= Len(c)
<1> DEFINE S == {i \in 1..Len(m) : i <= Len(n) /\ m[i] # n[i]}
<1>1. q \in Seq(T) /\ q # <<>> /\ Starts(q, m) /\ Starts(q, n) /\ m # <<>> /\ n # <<>>
  <2>1. q \in Seq(T) /\ q # <<>> /\ Starts(q, m) /\ Starts(q, n)
    BY HeadsAre
  <2> QED
    BY <2>1 DEF Starts
<1>2. ~Starts(m, n) /\ ~Starts(n, m)
  BY <1>1, HeadsAre
<1>3. S # {} /\ S \subseteq Nat
  BY <1>2 DEF Starts
<1>4. PICK i \in S : \A j \in S : i <= j
  <2> HIDE DEF S
  <2> QED
    BY <1>3, LeastElement
<1>5. \A j \in 1..(i - 1) : m[j] = n[j]
  BY <1>4
<1>6. i > Len(q)
  BY <1>1, <1>4 DEF Starts
<1> DEFINE c == SubSeq(m, 1, i - 1)
<1>7. c \in Seq(T) /\ Len(c) = i - 1 /\ \A j \in 1..(i - 1) : c[j] = m[j]
  <2>1. i - 1 \in 0..Len(m)
    OBVIOUS
  <2> QED
    BY <2>1, SubSeqStarts
<1> HIDE DEF c
<1>8. c # <<>> /\ Len(q) <= Len(c)
  BY <1>1, <1>6, <1>7
<1>9. Starts(c, m) /\ Starts(c, n)
  BY <1>5, <1>7 DEF Starts
<1>10. m[i] \in T /\ n[i] \in T /\ m[i] # n[i]
  OBVIOUS
<1>11. ASSUME NEW x \in T
       PROVE  /\ Append(c, x) \in Seq(T) /\ Append(c, x) # <<>> /\ Len(Append(c, x)) = i
              /\ Append(c, x)[i] = x /\ \A j \in 1..(i - 1) : Append(c, x)[j] = c[j]
  BY <1>7
<1>12. Starts(Append(c, m[i]), m) /\ Starts(Append(c, n[i]), n)
  BY <1>5, <1>7, <1>10, <1>11 DEF Starts
<1>13. c \in Heads(m) \cap Heads(n)
  BY <1>7, <1>8, <1>9, HeadsAre
<1>14. Append(c, m[i]) \in Heads(m) /\ Append(c, n[i]) \in Heads(n)
  BY <1>10, <1>11, <1>12, HeadsAre
<1> QED
  BY <1>8, <1>10, <1>13, <1>14

\* A cached prefix lies on the edge of the shortest node it is a prefix of.
LEMMA OnAnEdge ==
  ASSUME NEW T, NEW t, IsRadix(t, T), NEW p \in DOMAIN t.value
  PROVE  \E n \in t.nodes : p \in Edge(t, n) /\ p \in Heads(n) /\ n \in Seq(T)
<1> DEFINE below == {n \in t.nodes : p \in Heads(n)}
           S == {Len(n) : n \in below}
<1>1. below # {} /\ \A n \in below : n \in Seq(T) /\ n # <<>> /\ Len(n) \in Nat
  BY DEF IsRadix
<1>2. S # {} /\ S \subseteq Nat
  BY <1>1
<1>3. PICK l \in S : \A k \in S : l <= k
  <2> HIDE DEF S
  <2> QED
    BY <1>2, LeastElement
<1>4. PICK n \in below : l = Len(n)
  OBVIOUS
<1>5. ASSUME NEW m \in (t.nodes \cap Heads(n)) \ {n}, ~(Len(m) < Len(p)) PROVE FALSE
  <2>1. n \in Seq(T) /\ p \in Heads(n) /\ m \in Heads(n)
    BY <1>1
  <2>2. Len(p) \in Nat /\ Len(m) \in Nat /\ Len(m) <= Len(n) /\ (Len(m) = Len(n) => m = n)
    BY <2>1, HeadsFacts
  <2>3. p \in Heads(m)
    BY <1>5, <2>1, <2>2, HeadsFacts
  <2>4. Len(m) \in S
    BY <2>3
  <2> QED
    BY <1>1, <1>3, <1>4, <1>5, <2>2, <2>4
<1> QED
  BY <1>1, <1>5 DEF Edge

\* What lies below a prefix on the edge of a node lies below the node, or on its edge.
LEMMA BelowEdge ==
  ASSUME NEW T, NEW t, IsRadix(t, T), NEW n \in t.nodes, NEW q \in Edge(t, n),
         NEW m \in t.nodes, q \in Heads(m)
  PROVE  n \in Heads(m)
<1>1. n \in Seq(T) /\ n # <<>> /\ m \in Seq(T) /\ m # <<>> /\ q \in Heads(n)
  BY DEF IsRadix, Edge
<1>2. Len(q) \in Nat /\ Len(q) <= Len(m)
  BY <1>1, HeadsFacts
<1> SUFFICES ASSUME n \notin Heads(m) PROVE FALSE
  OBVIOUS
<1>3. m # n
  BY <1>1, HeadsFacts
<1>4. CASE m \in Heads(n)
  BY <1>1, <1>2, <1>3, <1>4 DEF Edge
<1>5. CASE m \notin Heads(n)
  <2>1. PICK c \in Heads(m) \cap Heads(n), a \in T, b \in T :
          a # b /\ Append(c, a) \in Heads(m) /\ Append(c, b) \in Heads(n) /\ Len(q) <= Len(c)
    BY <1>1, <1>5, Parting
  <2>2. Heads(m) \subseteq DOMAIN t.value /\ Heads(n) \subseteq DOMAIN t.value
    BY DEF IsRadix
  <2>3. c \in t.nodes
    BY <2>1, <2>2 DEF IsRadix
  <2>4. c # n
    BY <2>1
  <2>5. Len(c) \in Nat
    BY <1>1, HeadsFacts
  <2> QED
    BY <1>2, <2>1, <2>3, <2>4, <2>5 DEF Edge
<1> QED
  BY <1>4, <1>5

\* Evicting nodes with all that is below them.
LEMMA WithoutRadix ==
  ASSUME NEW T, NEW t, IsRadix(t, T), NEW N, N \subseteq t.nodes,
         \A n \in N : \A m \in t.nodes : n \in Heads(m) => m \in N
  PROVE  /\ IsRadix(Without(t, N), T) /\ Without(t, N).nodes = t.nodes \ N
         /\ DOMAIN Without(t, N).value = DOMAIN t.value \ Edges(t, N)
<1> DEFINE s == Without(t, N)
           V == DOMAIN t.value
           gone == Edges(t, N)
<1>1. /\ DOMAIN s = {"nodes", "value", "lock", "evictable"} /\ s.nodes = t.nodes \ N
      /\ DOMAIN s.value = V \ gone /\ DOMAIN s.lock = t.nodes \ N
  BY DEF Without
<1>2. \A p \in gone : \E n \in N : p \in Edge(t, n)
  BY DEF Edges
<1>3. \A n \in N : Edge(t, n) \subseteq gone
  BY DEF Edges
<1> HIDE DEF s, gone
<1>4. ASSUME NEW m \in t.nodes \ N PROVE m \notin gone
  <2> SUFFICES ASSUME NEW n \in N, m \in Edge(t, n) PROVE FALSE
    BY <1>2
  <2>1. m \in Seq(T) /\ Len(m) \in Nat
    BY DEF IsRadix
  <2> QED
    BY <2>1 DEF Edge
<1>5. ASSUME NEW p \in V \ gone, NEW q \in Heads(p) PROVE q \notin gone
  <2> SUFFICES ASSUME NEW n \in N, q \in Edge(t, n) PROVE FALSE
    BY <1>2
  <2>1. PICK m \in t.nodes : p \in Edge(t, m) /\ p \in Heads(m) /\ m \in Seq(T)
    BY OnAnEdge
  <2>2. q \in Heads(m)
    BY <2>1, HeadsFacts
  <2>3. n \in Heads(m)
    BY <2>2, BelowEdge
  <2> QED
    BY <1>3, <2>1, <2>3
<1>6. ASSUME NEW p \in V \ gone PROVE \E n \in t.nodes \ N : p \in Heads(n)
  <2>1. PICK m \in t.nodes : p \in Edge(t, m) /\ p \in Heads(m)
    BY OnAnEdge
  <2> QED
    BY <1>3, <2>1
<1>7. ASSUME NEW p \in V \ gone, p \in t.nodes PROVE p \notin N
  <2> SUFFICES ASSUME p \in N PROVE FALSE
    OBVIOUS
  <2>1. p \in Seq(T) /\ p # <<>>
    BY DEF IsRadix
  <2>2. p \in Heads(p) /\ \A m \in Heads(p) : Len(m) \in Nat /\ Len(m) <= Len(p) /\ (Len(m) = Len(p) => m = p)
    BY <2>1, HeadsFacts
  <2>3. p \in Edge(t, p)
    BY <2>2 DEF Edge
  <2> QED
    BY <1>3, <2>3
<1> HIDE DEF V
<1>8. IsRadix(s, T)
  <2>1. s.nodes \subseteq DOMAIN s.value
    BY <1>1, <1>4 DEF IsRadix, V
  <2>2. \A p \in DOMAIN s.value : Heads(p) \subseteq DOMAIN s.value
    BY <1>1, <1>5 DEF IsRadix, V
  <2>3. \A p \in DOMAIN s.value : \E n \in s.nodes : p \in Heads(n)
    BY <1>1, <1>6
  <2>4. \A p \in DOMAIN s.value : \A a, b \in T :
          a # b /\ Append(p, a) \in DOMAIN s.value /\ Append(p, b) \in DOMAIN s.value => p \in s.nodes
    BY <1>1, <1>7 DEF IsRadix, V
  <2>5. DOMAIN s.value \subseteq Seq(T) \ {<<>>}
    BY <1>1 DEF IsRadix, V
  <2> QED
    BY <1>1, <2>1, <2>2, <2>3, <2>4, <2>5 DEF IsRadix
<1> QED
  BY <1>1, <1>8 DEF s, gone, V

-------------------------------------------------------------------------------
(* Locks.  Each of a set H of holders is at a node: at[r], or <<>>, the    *)
(* root, which has no lock.                                                *)

Holds(n, H, at) == {r \in H : n \in Heads(at[r])}
Held(H, at) == UNION {Heads(at[r]) : r \in H}

\* lock_ref counts the holders at a node or below it, and evictable_size_ the prefixes that are on nobody's path
\* (EngineBatch has this, by edges, as LocksCountUsers).
Locked(t, H, at) ==
  /\ IsFiniteSet(H) /\ IsFiniteSet(DOMAIN t.value)
  /\ \A r \in H : at[r] \in t.nodes \cup {<<>>}
  /\ \A n \in t.nodes : t.lock[n] = Cardinality(Holds(n, H, at))
  /\ t.evictable = Cardinality(DOMAIN t.value \ Held(H, at))

\* Counting two sets apart.
LEMMA CountApart ==
  ASSUME NEW A, NEW B, IsFiniteSet(A), IsFiniteSet(B), A \cap B = {}
  PROVE  /\ IsFiniteSet(A \cup B) /\ Cardinality(A \cup B) = Cardinality(A) + Cardinality(B)
         /\ Cardinality(A) \in Nat /\ Cardinality(B) \in Nat
<1>1. Cardinality(A) \in Nat /\ Cardinality(B) \in Nat /\ Cardinality(A \cap B) = 0
  BY FS_EmptySet, FS_CardinalityType
<1>2. IsFiniteSet(A \cup B) /\ Cardinality(A \cup B) = Cardinality(A) + Cardinality(B) - Cardinality(A \cap B)
  BY FS_Union
<1> QED
  BY <1>1, <1>2

\* The root has no prefixes.
LEMMA NoHeads == Heads(<<>>) = {}
BY DEF Heads

\* Who is on the path of a prefix is on the path of the node whose edge it lies on, and conversely.
LEMMA PathByEdge ==
  ASSUME NEW T, NEW t, IsRadix(t, T), NEW k \in t.nodes \cup {<<>>}, NEW n \in t.nodes, NEW p \in Edge(t, n)
  PROVE  p \in DOMAIN t.value /\ (p \in Heads(k) <=> n \in Heads(k))
<1>1. p \in Heads(n) /\ p \in DOMAIN t.value
  BY DEF Edge, IsRadix
<1>2. CASE k = <<>>
  BY <1>1, <1>2, NoHeads
<1>3. CASE k \in t.nodes
  <2>1. k \in Seq(T)
    BY <1>3 DEF IsRadix
  <2> QED
    BY <1>1, <1>3, <2>1, BelowEdge, HeadsFacts
<1> QED
  BY <1>1, <1>2, <1>3

\* split_node's child: the node whose edge the prefix lies on.
LEMMA EdgeEndIs ==
  ASSUME NEW T, NEW t, IsRadix(t, T), NEW p \in DOMAIN t.value
  PROVE  EdgeEnd(t, p) \in t.nodes /\ p \in Edge(t, EdgeEnd(t, p))
<1> DEFINE below == {n \in t.nodes : IsPrefix(p, n)}
           P(n) == n \in below /\ \A m \in below : Len(n) <= Len(m)
<1>1. p \in Seq(T) /\ p # <<>>
  BY DEF IsRadix
<1>2. \A n \in t.nodes : n \in Seq(T) /\ n # <<>> /\ Len(n) \in Nat /\ n \in Heads(n)
  BY HeadsFacts DEF IsRadix
<1>3. \A n \in t.nodes : n \in below <=> p \in Heads(n)
  BY <1>1, <1>2, StartsIsPrefix, HeadsAre
<1>4. PICK n \in t.nodes : p \in Edge(t, n) /\ p \in Heads(n)
  BY OnAnEdge
<1>5. \A m \in below : n \in Heads(m) /\ Len(n) <= Len(m) /\ (Len(m) <= Len(n) => m = n)
  <2> SUFFICES ASSUME NEW m \in below PROVE n \in Heads(m) /\ Len(n) <= Len(m) /\ (Len(m) <= Len(n) => m = n)
    OBVIOUS
  <2>1. n \in Heads(m)
    BY <1>3, <1>4, BelowEdge
  <2>2. m \in Seq(T) /\ Len(m) \in Nat /\ Len(n) \in Nat
    BY <1>2
  <2>3. Len(n) <= Len(m) /\ (Len(n) = Len(m) => n = m)
    BY <2>1, <2>2, HeadsFacts
  <2> QED
    BY <2>1, <2>2, <2>3
<1>6. P(n)
  BY <1>3, <1>4, <1>5
<1>7. \A m : P(m) => m = n
  BY <1>3, <1>4, <1>5
<1>8. (CHOOSE x \in below : \A m \in below : Len(x) <= Len(m)) = n
  <2> HIDE DEF below
  <2> QED
    BY <1>6, <1>7
<1> QED
  BY <1>4, <1>8 DEF EdgeEnd

\* Counting the holders of a node.
LEMMA HoldersCount ==
  ASSUME NEW t, NEW H, NEW at, Locked(t, H, at), NEW n \in t.nodes
  PROVE  /\ IsFiniteSet(Holds(n, H, at)) /\ t.lock[n] \in Nat /\ (t.lock[n] = 0 <=> Holds(n, H, at) = {})
         /\ \A r \in Holds(n, H, at) : t.lock[n] = 1 <=> Holds(n, H, at) \ {r} = {}
<1> DEFINE S == Holds(n, H, at)
<1>1. IsFiniteSet(S)
  BY FS_Subset DEF Locked, Holds
<1>2. t.lock[n] = Cardinality(S)
  BY DEF Locked
<1> HIDE DEF S
<1>3. ASSUME NEW r \in S PROVE Cardinality(S) = 1 <=> S \ {r} = {}
  <2>1. IsFiniteSet(S \ {r}) /\ Cardinality(S \ {r}) = Cardinality(S) - 1 /\ Cardinality(S) \in Nat
    BY <1>1, FS_RemoveElement, FS_CardinalityType
  <2>2. Cardinality(S \ {r}) = 0 <=> S \ {r} = {}
    BY <2>1, FS_EmptySet
  <2> QED
    BY <2>1, <2>2
<1> QED
  BY <1>1, <1>2, <1>3, FS_CardinalityType, FS_EmptySet DEF S

\* The unlocked nodes' edges are the prefixes on nobody's path.
LEMMA UnlockedEdges ==
  ASSUME NEW T, NEW t, IsRadix(t, T), NEW H, NEW at, Locked(t, H, at)
  PROVE  Edges(t, {n \in t.nodes : t.lock[n] = 0}) = DOMAIN t.value \ Held(H, at)
<1> DEFINE N == {n \in t.nodes : t.lock[n] = 0}
<1>1. \A r \in H : at[r] \in t.nodes \cup {<<>>}
  BY DEF Locked
<1>2. ASSUME NEW p \in Edges(t, N) PROVE p \in DOMAIN t.value \ Held(H, at)
  <2>1. PICK n \in N : p \in Edge(t, n)
    BY DEF Edges
  <2>2. Holds(n, H, at) = {}
    BY <2>1, HoldersCount
  <2> QED
    BY <1>1, <2>1, <2>2, PathByEdge DEF Held, Holds
<1>3. ASSUME NEW p \in DOMAIN t.value \ Held(H, at) PROVE p \in Edges(t, N)
  <2>1. PICK n \in t.nodes : p \in Edge(t, n)
    BY OnAnEdge
  <2>2. Holds(n, H, at) = {}
    BY <1>1, <2>1, PathByEdge DEF Held, Holds
  <2>3. n \in N
    BY <2>2, HoldersCount
  <2> QED
    BY <2>1, <2>3 DEF Edges
<1> QED
  BY <1>2, <1>3

\* Only where the holders are matters.
LEMMA SameLocks ==
  ASSUME NEW t, NEW H, NEW at, NEW to, Locked(t, H, at), \A r \in H : to[r] = at[r]
  PROVE  Locked(t, H, to)
<1>1. \A n : Holds(n, H, to) = Holds(n, H, at)
  BY DEF Holds
<1>2. Held(H, to) = Held(H, at)
  BY DEF Held
<1> QED
  BY <1>1, <1>2 DEF Locked

\* A node that is split gives its lock to both halves.
LEMMA SplitLocks ==
  ASSUME NEW T, NEW t, IsRadix(t, T), NEW H, NEW at, Locked(t, H, at), NEW keys, keys \subseteq Seq(T)
  PROVE  Locked(Split(t, keys), H, at)
<1> DEFINE s == Split(t, keys)
           new == {Cached(t, k) : k \in keys} \ (t.nodes \cup {<<>>})
<1>1. /\ s.value = t.value /\ s.nodes = t.nodes \cup new /\ s.evictable = t.evictable
      /\ s.lock = [n \in t.nodes \cup new |-> IF n \in new THEN t.lock[EdgeEnd(t, n)] ELSE t.lock[n]]
  BY DEF Split, IsRadix
<1>2. new \subseteq DOMAIN t.value
  BY CachedIs
<1> HIDE DEF s, new
<1>3. ASSUME NEW n \in new PROVE t.lock[EdgeEnd(t, n)] = Cardinality(Holds(n, H, at))
  <2> DEFINE e == EdgeEnd(t, n)
  <2>1. e \in t.nodes /\ n \in Edge(t, e)
    BY <1>2, EdgeEndIs
  <2> HIDE DEF e
  <2>2. Holds(n, H, at) = Holds(e, H, at)
    BY <2>1, PathByEdge DEF Holds, Locked
  <2>3. t.lock[e] = Cardinality(Holds(e, H, at))
    BY <2>1 DEF Locked
  <2> QED
    BY <2>2, <2>3 DEF e
<1>4. \A n \in s.nodes : s.lock[n] = Cardinality(Holds(n, H, at))
  BY <1>1, <1>3 DEF Locked
<1>5. \A r \in H : at[r] \in s.nodes \cup {<<>>}
  BY <1>1 DEF Locked
<1>6. Locked(s, H, at)
  BY <1>1, <1>4, <1>5 DEF Locked
<1> QED
  BY <1>6 DEF s

\* A new leaf is nobody's, and all of it is evictable.
LEMMA AddLeafLocks ==
  ASSUME NEW T, NEW t, IsRadix(t, T), NEW H, NEW at, Locked(t, H, at), NEW key, key \in Seq(T), NEW slots
  PROVE  /\ Locked(AddLeaf(t, key, slots), H, at)
         /\ Cached(t, key) \in t.nodes \cup {<<>>} => key \in AddLeaf(t, key, slots).nodes \cup {<<>>}
<1> DEFINE s == AddLeaf(t, key, slots)
           V == DOMAIN t.value
           tail == Heads(key) \ V
<1>1. CASE tail = {}
  <2>1. s = t
    BY <1>1 DEF AddLeaf
  <2>2. key = <<>> \/ key = Cached(t, key)
    <3>1. ASSUME key # <<>> PROVE key = Cached(t, key)
      <4>1. key \in Heads(key) \cap V
        BY <1>1, <3>1, HeadsFacts
      <4>2. key \in Heads(Cached(t, key)) /\ Cached(t, key) \in Heads(key)
        BY <4>1, NoHeads, CachedIs
      <4>3. Cached(t, key) \in Seq(T) /\ Len(key) \in Nat /\ Len(Cached(t, key)) \in Nat
        BY CachedIs, HeadsFacts, <4>2
      <4> QED
        BY <4>2, <4>3, HeadsFacts
    <3> QED
      BY <3>1
  <2> QED
    BY <2>1, <2>2
<1>2. CASE tail # {}
  <2>1. /\ s.nodes = t.nodes \cup {key} /\ DOMAIN s.value = V \cup tail
        /\ s.lock = [n \in t.nodes \cup {key} |-> IF n = key THEN 0 ELSE t.lock[n]]
        /\ s.evictable = t.evictable + Cardinality(tail)
    BY <1>2 DEF AddLeaf
  <2>2. key \in tail
    <3>1. key # <<>>
      BY <1>2, NoHeads
    <3> QED
      BY <1>2, <3>1, HeadsFacts DEF IsRadix
  <2>3. Held(H, at) \subseteq V /\ \A r \in H : Heads(at[r]) \subseteq V
    BY NoHeads DEF Held, Locked, IsRadix
  <2>4. Holds(key, H, at) = {}
    BY <2>2, <2>3 DEF Holds
  <2>5. IsFiniteSet(V) /\ IsFiniteSet(tail) /\ IsFiniteSet(V \ Held(H, at))
    BY HeadsFinite, FS_Subset DEF Locked
  <2> HIDE DEF s, tail, V
  <2>6. \A n \in s.nodes : s.lock[n] = Cardinality(Holds(n, H, at))
    <3>1. key \notin t.nodes
      BY <2>2 DEF IsRadix, tail, V
    <3> QED
      BY <2>1, <2>4, <3>1, FS_EmptySet DEF Locked
  <2>7. s.evictable = Cardinality((V \cup tail) \ Held(H, at))
    <3>1. (V \cup tail) \ Held(H, at) = (V \ Held(H, at)) \cup tail /\ (V \ Held(H, at)) \cap tail = {}
      BY <2>3 DEF tail
    <3>2. t.evictable = Cardinality(V \ Held(H, at))
      BY DEF Locked, V
    <3>3. Cardinality((V \ Held(H, at)) \cup tail) = Cardinality(V \ Held(H, at)) + Cardinality(tail)
      BY <2>5, <3>1, CountApart
    <3> QED
      BY <2>1, <3>1, <3>2, <3>3
  <2>8. IsFiniteSet(V \cup tail)
    BY <2>5, FS_Union
  <2>9. \A r \in H : at[r] \in s.nodes \cup {<<>>}
    BY <2>1 DEF Locked
  <2>10. Locked(s, H, at)
    BY <2>1, <2>6, <2>7, <2>8, <2>9 DEF Locked
  <2> QED
    BY <2>1, <2>10 DEF s
<1> QED
  BY <1>1, <1>2

\* insert, and the node of what was inserted.
LEMMA InsertLocks ==
  ASSUME NEW T, NEW t, IsRadix(t, T), NEW H, NEW at, Locked(t, H, at), NEW key, key \in Seq(T), NEW slots
  PROVE  /\ Locked(Insert(t, key, slots), H, at)
         /\ key \in Insert(t, key, slots).nodes \cup {<<>>}
<1> DEFINE s == Split(t, {key})
<1>1. /\ IsRadix(s, T) /\ Locked(s, H, at)
      /\ Cached(s, key) \in s.nodes \cup {<<>>}
  BY SplitRadix, SplitLocks
<1> HIDE DEF s
<1>2. Locked(AddLeaf(s, key, slots), H, at) /\ key \in AddLeaf(s, key, slots).nodes \cup {<<>>}
  BY <1>1, AddLeafLocks
<1> QED
  BY <1>2 DEF Insert, s

\* dec_lock_ref takes one holder away.
LEMMA DecLocks ==
  ASSUME NEW T, NEW t, IsRadix(t, T), NEW H, NEW at, Locked(t, H, at), NEW r \in H
  PROVE  Locked(DecLock(t, at[r]), H \ {r}, at)
<1> DEFINE k == at[r]
           u == DecLock(t, k)
           G == H \ {r}
           V == DOMAIN t.value
           A == V \ Held(H, at)
           B == V \ Held(G, at)
           C == Edges(t, {m \in Path(t, k) : t.lock[m] = 1})
<1>1. /\ u.nodes = t.nodes /\ u.value = t.value /\ u.evictable = t.evictable + Cardinality(C)
      /\ u.lock = [m \in t.nodes |-> IF m \in Path(t, k) THEN t.lock[m] - 1 ELSE t.lock[m]]
  BY DEF DecLock, IsRadix
<1>2. k \in t.nodes \cup {<<>>} /\ \A o \in H : at[o] \in t.nodes \cup {<<>>}
  BY DEF Locked
<1>3. IsFiniteSet(G)
  BY FS_Subset DEF Locked
<1> HIDE DEF u
<1>4. ASSUME NEW m \in t.nodes PROVE u.lock[m] = Cardinality(Holds(m, G, at))
  <2>1. Holds(m, G, at) = Holds(m, H, at) \ {r} /\ (r \in Holds(m, H, at) <=> m \in Path(t, k))
    BY DEF Holds, Path
  <2>2. IsFiniteSet(Holds(m, H, at)) /\ t.lock[m] = Cardinality(Holds(m, H, at))
    BY HoldersCount DEF Locked
  <2>3. Cardinality(Holds(m, H, at) \ {r})
          = IF r \in Holds(m, H, at) THEN Cardinality(Holds(m, H, at)) - 1 ELSE Cardinality(Holds(m, H, at))
    BY <2>2, FS_RemoveElement
  <2> QED
    BY <1>1, <2>1, <2>2, <2>3
<1>5. ASSUME NEW p \in C PROVE p \in V /\ p \in Heads(k) /\ p \notin Held(G, at)
  <2>1. PICK m \in Path(t, k) : t.lock[m] = 1 /\ p \in Edge(t, m)
    BY DEF Edges
  <2>2. m \in t.nodes /\ m \in Heads(k)
    BY DEF Path
  <2>3. r \in Holds(m, H, at)
    BY <2>2 DEF Holds
  <2>4. Holds(m, H, at) \ {r} = {}
    BY <2>1, <2>2, <2>3, HoldersCount
  <2>5. p \in V /\ \A o \in H : p \in Heads(at[o]) <=> m \in Heads(at[o])
    BY <1>2, <2>1, <2>2, PathByEdge
  <2> QED
    BY <2>2, <2>4, <2>5 DEF Held, Holds
<1>6. ASSUME NEW p \in V, p \in Heads(k), p \notin Held(G, at) PROVE p \in C
  <2>1. PICK m \in t.nodes : p \in Edge(t, m)
    BY OnAnEdge
  <2>2. \A o \in H : p \in Heads(at[o]) <=> m \in Heads(at[o])
    BY <1>2, <2>1, PathByEdge
  <2>3. m \in Path(t, k) /\ r \in Holds(m, H, at)
    BY <1>6, <2>2 DEF Path, Holds
  <2>4. Holds(m, H, at) \ {r} = {}
    BY <1>6, <2>2 DEF Holds, Held
  <2>5. t.lock[m] = 1
    BY <2>3, <2>4, HoldersCount
  <2> QED
    BY <2>1, <2>3, <2>5 DEF Edges
<1>7. Held(H, at) = Held(G, at) \cup Heads(k)
  BY DEF Held
<1>8. IsFiniteSet(V) /\ t.evictable = Cardinality(A)
  BY DEF Locked
<1> HIDE DEF C
<1>9. B = A \cup C /\ A \cap C = {} /\ C \subseteq V
  BY <1>5, <1>6, <1>7
<1>10. IsFiniteSet(A) /\ IsFiniteSet(C)
  BY <1>8, <1>9, FS_Subset
<1> HIDE DEF A, B
<1>11. Cardinality(B) = Cardinality(A) + Cardinality(C)
  BY <1>9, <1>10, CountApart
<1>12. Locked(u, G, at)
  BY <1>1, <1>2, <1>3, <1>4, <1>8, <1>11 DEF Locked, B
<1> QED
  BY <1>12 DEF u

\* inc_lock_ref adds one.
LEMMA IncLocks ==
  ASSUME NEW T, NEW t, IsRadix(t, T), NEW H, NEW at, Locked(t, H, at),
         NEW r, r \notin H, NEW k \in t.nodes \cup {<<>>}, NEW to, to[r] = k, \A o \in H : to[o] = at[o]
  PROVE  Locked(IncLock(t, k), H \cup {r}, to)
<1> DEFINE u == IncLock(t, k)
           G == H \cup {r}
           V == DOMAIN t.value
           A == V \ Held(H, to)
           B == V \ Held(G, to)
           C == Edges(t, {m \in Path(t, k) : t.lock[m] = 0})
<1>0. Locked(t, H, to)
  BY SameLocks
<1>1. /\ u.nodes = t.nodes /\ u.value = t.value /\ u.evictable = t.evictable - Cardinality(C)
      /\ u.lock = [m \in t.nodes |-> IF m \in Path(t, k) THEN t.lock[m] + 1 ELSE t.lock[m]]
  BY DEF IncLock, IsRadix
<1>2. \A o \in G : to[o] \in t.nodes \cup {<<>>}
  BY <1>0 DEF Locked
<1>3. IsFiniteSet(G)
  BY FS_AddElement DEF Locked
<1> HIDE DEF u
<1>4. ASSUME NEW m \in t.nodes PROVE u.lock[m] = Cardinality(Holds(m, G, to))
  <2>1. /\ r \notin Holds(m, H, to)
        /\ Holds(m, G, to) = IF m \in Path(t, k) THEN Holds(m, H, to) \cup {r} ELSE Holds(m, H, to)
    BY DEF Holds, Path
  <2>2. IsFiniteSet(Holds(m, H, to)) /\ t.lock[m] = Cardinality(Holds(m, H, to))
    BY <1>0, HoldersCount DEF Locked
  <2>3. Cardinality(Holds(m, H, to) \cup {r}) = Cardinality(Holds(m, H, to)) + 1
    BY <2>1, <2>2, FS_AddElement
  <2> QED
    BY <1>1, <2>1, <2>2, <2>3
<1>5. ASSUME NEW p \in C PROVE p \in V /\ p \in Heads(k) /\ p \notin Held(H, to)
  <2>1. PICK m \in Path(t, k) : t.lock[m] = 0 /\ p \in Edge(t, m)
    BY DEF Edges
  <2>2. m \in t.nodes /\ m \in Heads(k)
    BY DEF Path
  <2>3. Holds(m, H, to) = {}
    BY <1>0, <2>1, <2>2, HoldersCount
  <2>4. p \in V /\ \A o \in G : p \in Heads(to[o]) <=> m \in Heads(to[o])
    BY <1>2, <2>1, <2>2, PathByEdge
  <2> QED
    BY <2>2, <2>3, <2>4 DEF Held, Holds
<1>6. ASSUME NEW p \in V, p \in Heads(k), p \notin Held(H, to) PROVE p \in C
  <2>1. PICK m \in t.nodes : p \in Edge(t, m)
    BY OnAnEdge
  <2>2. \A o \in G : p \in Heads(to[o]) <=> m \in Heads(to[o])
    BY <1>2, <2>1, PathByEdge
  <2>3. m \in Path(t, k)
    BY <1>6, <2>2 DEF Path
  <2>4. Holds(m, H, to) = {}
    BY <1>6, <2>2 DEF Holds, Held
  <2>5. t.lock[m] = 0
    BY <1>0, <2>4, HoldersCount
  <2> QED
    BY <2>1, <2>3, <2>5 DEF Edges
<1>7. Held(G, to) = Held(H, to) \cup Heads(k)
  BY DEF Held
<1>8. IsFiniteSet(V) /\ t.evictable = Cardinality(A)
  BY <1>0 DEF Locked
<1> HIDE DEF C
<1>9. A = B \cup C /\ B \cap C = {} /\ C \subseteq V
  BY <1>5, <1>6, <1>7
<1>10. IsFiniteSet(A) /\ IsFiniteSet(B) /\ IsFiniteSet(C)
  BY <1>8, <1>9, FS_Subset
<1> HIDE DEF A, B
<1>11. Cardinality(A) = Cardinality(B) + Cardinality(C) /\ Cardinality(B) \in Nat /\ Cardinality(C) \in Nat
  BY <1>9, <1>10, CountApart
<1>12. u.evictable = Cardinality(B)
  BY <1>1, <1>8, <1>11
<1>13. Locked(u, G, to)
  BY <1>1, <1>2, <1>3, <1>4, <1>8, <1>12 DEF Locked, B
<1> QED
  BY <1>13 DEF u

\* What is evicted was nobody's.
LEMMA WithoutLocks ==
  ASSUME NEW T, NEW t, IsRadix(t, T), NEW H, NEW at, Locked(t, H, at), NEW N, N \subseteq t.nodes,
         \A n \in N : t.lock[n] <= 0, \A n \in N : \A m \in t.nodes : n \in Heads(m) => m \in N
  PROVE  Locked(Without(t, N), H, at)
<1> DEFINE s == Without(t, N)
           V == DOMAIN t.value
           gone == Edges(t, N)
           A == V \ Held(H, at)
<1>1. /\ s.nodes = t.nodes \ N /\ DOMAIN s.value = V \ gone /\ s.evictable = t.evictable - Cardinality(gone)
      /\ s.lock = [n \in t.nodes \ N |-> t.lock[n]]
  BY DEF Without
<1>2. \A n \in N : Holds(n, H, at) = {}
  BY HoldersCount
<1>3. \A r \in H : at[r] \in t.nodes \cup {<<>>}
  BY DEF Locked
<1>4. ASSUME NEW r \in H PROVE at[r] \notin N
  <2> SUFFICES ASSUME at[r] \in N PROVE FALSE
    OBVIOUS
  <2>1. at[r] \in Heads(at[r])
    BY HeadsFacts DEF IsRadix
  <2> QED
    BY <1>2, <2>1 DEF Holds
<1>5. ASSUME NEW p \in gone PROVE p \in A
  <2>1. PICK n \in N : p \in Edge(t, n)
    BY DEF Edges
  <2> QED
    BY <1>2, <1>3, <2>1, PathByEdge DEF Held, Holds
<1>6. IsFiniteSet(V) /\ t.evictable = Cardinality(A)
  BY DEF Locked
<1> HIDE DEF s, gone
<1>7. gone \subseteq A /\ (V \ gone) \ Held(H, at) = A \ gone /\ A \cap gone = gone
  BY <1>5
<1>8. IsFiniteSet(A) /\ IsFiniteSet(V \ gone)
  BY <1>6, FS_Subset
<1> HIDE DEF A
<1>9. Cardinality(A \ gone) = Cardinality(A) - Cardinality(gone)
  BY <1>7, <1>8, FS_Difference
<1>10. \A n \in s.nodes : s.lock[n] = Cardinality(Holds(n, H, at))
  BY <1>1 DEF Locked
<1>11. \A r \in H : at[r] \in s.nodes \cup {<<>>}
  BY <1>1, <1>3, <1>4
<1>12. IsFiniteSet(H)
  BY DEF Locked
<1>13. s.evictable = Cardinality(DOMAIN s.value \ Held(H, at)) /\ IsFiniteSet(DOMAIN s.value)
  BY <1>1, <1>6, <1>7, <1>8, <1>9
<1>14. Locked(s, H, at)
  BY <1>10, <1>11, <1>12, <1>13 DEF Locked
<1> QED
  BY <1>14 DEF s

-------------------------------------------------------------------------------
(* Types *)

ReqTyped(q, r) ==
  /\ DOMAIN q = DOMAIN NewReq /\ q.out \in Seq(Tokens)
  /\ Len(q.prefix) \in Nat /\ q.fill \in Int /\ q.fill <= Len(Prompt[r]) + Len(q.out)

AdderTyped(a, P) ==
  /\ DOMAIN a = DOMAIN NoAdder /\ a.canRun \in Seq(P) /\ a.chunk \in Int
  /\ a.inflight \in P \cup {None}

BatchTypes ==
  /\ DOMAIN req = Requests /\ \A r \in Requests : ReqTyped(req[r], r)
  /\ AdderTyped(adder, arrived)
  /\ arrived \subseteq Requests /\ IsFiniteSet(arrived)
  /\ finished \cup waiting \cup running \cup last.reqs \cup batch.reqs \cup todo \cup ({inflight} \ {None}) \subseteq arrived

\* The tree stays a radix tree of the requests' tokens.
TreeTyped == IsRadix(tree_cache, Tokens)

\* The tokens of a request, and what may be matched of them.
LEMMA IdsTyped ==
  ASSUME BatchTypes, NEW r \in Requests
  PROVE  /\ Ids(r) \in Seq(Tokens) /\ Len(Ids(r)) = Len(Prompt[r]) + Len(req[r].out) /\ Len(Ids(r)) \in Nat \ {0}
         /\ MatchKey(r) \in Seq(Tokens) /\ Len(MatchKey(r)) = Len(Ids(r)) - 1
         /\ SubSeq(Ids(r), 1, req[r].fill) \in Seq(Tokens)
<1>1. Prompt[r] \in Seq(Tokens) /\ Prompt[r] # <<>> /\ req[r].out \in Seq(Tokens)
  BY EngineAssumption DEF BatchTypes, ReqTyped
<1>2. Ids(r) \in Seq(Tokens) /\ Len(Ids(r)) = Len(Prompt[r]) + Len(req[r].out)
  BY <1>1, ConcatProperties DEF Ids
<1>3. Len(Ids(r)) \in Nat \ {0}
  <2> DEFINE p == Len(Prompt[r])
             o == Len(req[r].out)
  <2>1. p \in Nat \ {0} /\ o \in Nat /\ Len(Ids(r)) = p + o
    BY <1>1, <1>2
  <2> HIDE DEF p, o
  <2>2. p + o \in Nat \ {0}
    BY <2>1
  <2> QED
    BY <2>1, <2>2
<1>4. MatchKey(r) \in Seq(Tokens) /\ Len(MatchKey(r)) = Len(Ids(r)) - 1
  <2>1. Len(Ids(r)) - 1 \in 0..Len(Ids(r))
    BY <1>3
  <2> QED
    BY <1>2, <2>1, SubSeqStarts DEF MatchKey
<1>5. SubSeq(Ids(r), 1, req[r].fill) \in Seq(Tokens)
  <2>1. req[r].fill \in Int /\ req[r].fill <= Len(Ids(r))
    BY <1>2 DEF BatchTypes, ReqTyped
  <2>2. CASE req[r].fill < 1
    BY <2>1, <2>2, SubSeqEmpty
  <2>3. CASE req[r].fill >= 1
    <3>1. req[r].fill \in 0..Len(Ids(r))
      BY <1>3, <2>1, <2>3
    <3> QED
      BY <1>2, <3>1, SubSeqStarts
  <2> QED
    BY <2>1, <2>2, <2>3
<1> QED
  BY <1>2, <1>3, <1>4, <1>5

\* What evict may delete: nodes with all that is below them, and none that is locked.
LEMMA EvictionsClosed ==
  ASSUME NEW t, NEW n, NEW N, N \in Evictions(t, n) \/ N = {}
  PROVE  /\ N \subseteq t.nodes /\ \A x \in N : t.lock[x] <= 0
         /\ \A x \in N : \A m \in t.nodes : x \in Heads(m) => m \in N
BY DEF Evictions, Unlocked

\* The same of what alloc_token_slots evicts.
LEMMA RoomForClosed ==
  ASSUME NEW n, NEW N \in RoomFor(n)
  PROVE  N \in Evictions(tree_cache, n) \/ N = {}
BY DEF RoomFor

\* An eviction keeps the tree.
LEMMA EvictedRadix ==
  ASSUME NEW t, IsRadix(t, Tokens), NEW n, NEW N, N \in Evictions(t, n) \/ N = {}
  PROVE  IsRadix(Without(t, N), Tokens)
BY EvictionsClosed, WithoutRadix

\* Caching a request keeps the tree.
LEMMA CacheFinishedRadix ==
  ASSUME TreeTyped, NEW r, NEW ids, ids \in Seq(Tokens), CacheFinished(r, ids)
  PROVE  TreeTyped'
<1> DEFINE slots == SubSeq(reqToToken[req[r].row], 1, Len(ids))
           t == Insert(tree_cache, ids, slots)
<1>1. IsRadix(t, Tokens)
  BY InsertRadix DEF TreeTyped
<1>2. tree_cache' = DecLock(t, req[r].node)
  BY DEF CacheFinished
<1> HIDE DEF t
<1> QED
  BY <1>1, <1>2, LockRadix DEF TreeTyped

\* So does caching a request that goes on.
LEMMA CacheUnfinishedRadix ==
  ASSUME TreeTyped, BatchTypes, NEW r \in Requests, CacheUnfinished(r)
  PROVE  TreeTyped'
<1> DEFINE ids == SubSeq(Ids(r), 1, req[r].fill)
           t == Insert(tree_cache, ids, reqToToken[req[r].row])
           u == DecLock(t, req[r].node)
<1>1. IsRadix(t, Tokens)
  BY IdsTyped, InsertRadix DEF TreeTyped
<1>2. tree_cache' = IncLock(u, ids)
  BY DEF CacheUnfinished
<1> HIDE DEF t
<1>3. IsRadix(u, Tokens)
  BY <1>1, LockRadix
<1> HIDE DEF u
<1> QED
  BY <1>2, <1>3, LockRadix DEF TreeTyped

\* Every step keeps the tree.
LEMMA TreeKept ==
  ASSUME TreeTyped, BatchTypes, [BatchNext]_batchVars
  PROVE  TreeTyped'
<1>1. CASE UNCHANGED tree_cache
  BY <1>1 DEF TreeTyped
<1>2. ASSUME NEW r \in Requests, Abort(r) PROVE TreeTyped'
  <2>1. CASE CacheFinished(r, MatchKey(r))
    BY <2>1, IdsTyped, CacheFinishedRadix
  <2>2. CASE UNCHANGED memory
    BY <1>1, <2>2 DEF memory
  <2> QED
    BY <1>2, <2>1, <2>2 DEF Abort, ReleaseAborted
<1>3. CASE MergeLastBatch
  <2>1. CASE last.reqs # {} /\ inflight # None
    <3>1. inflight \in Requests /\ CacheUnfinished(inflight)
      BY <1>3, <2>1 DEF MergeLastBatch, BatchTypes
    <3> QED
      BY <3>1, CacheUnfinishedRadix
  <2>2. CASE ~(last.reqs # {} /\ inflight # None)
    BY <1>1, <1>3, <2>2 DEF MergeLastBatch, memory
  <2> QED
    BY <2>1, <2>2
<1>4. ASSUME NEW share, BeginPrefill(share) PROVE TreeTyped'
  <2>1. \E keys : keys \subseteq Seq(Tokens) /\ tree_cache' = Split(tree_cache, keys)
    <3>1. \A w \in waiting \cup ({inflight} \ {None}) : w \in Requests
      BY DEF BatchTypes
    <3>2. \A w \in waiting \cup ({inflight} \ {None}) : MatchKey(w) \in Seq(Tokens)
      BY <3>1, IdsTyped
    <3> DEFINE keys == IF PrefixAware THEN {MatchKey(w) : w \in waiting}
                       ELSE {MatchKey(w) : w \in {inflight} \ {None}}
    <3>3. keys \subseteq Seq(Tokens)
      BY <3>2
    <3>4. tree_cache' = Split(tree_cache, keys)
      BY <1>4 DEF BeginPrefill
    <3> QED
      BY <3>3, <3>4
  <2> QED
    BY <2>1, SplitRadix DEF TreeTyped
<1>5. ASSUME NEW r \in Requests, AddOneReq(r) PROVE TreeTyped'
  <2> DEFINE key == MatchKey(r)
             split == Split(tree_cache, {key})
             locked == IncLock(split, Cached(tree_cache, key))
  <2>1. tree_cache' = locked \/ tree_cache' = split
    BY <1>5 DEF AddOneReq
  <2>2. IsRadix(split, Tokens)
    BY IdsTyped, SplitRadix DEF TreeTyped
  <2> HIDE DEF split
  <2>3. IsRadix(locked, Tokens)
    BY <2>2, LockRadix
  <2> QED
    BY <2>1, <2>2, <2>3 DEF TreeTyped
<1>6. CASE PrepareForExtend
  <2>1. UNCHANGED memory \/ \E n : \E N \in RoomFor(n) : tree_cache' = Without(tree_cache, N)
    BY <1>6 DEF PrepareForExtend
  <2> QED
    BY <1>1, <2>1, RoomForClosed, EvictedRadix DEF TreeTyped, memory
<1>7. CASE CheckDecodeMem
  <2>1. \E n : \E N \in RoomFor(n) : tree_cache' = Without(tree_cache, N)
    BY <1>7 DEF CheckDecodeMem
  <2> QED
    BY <2>1, RoomForClosed, EvictedRadix DEF TreeTyped
<1>8. ASSUME NEW r \in Requests, Retract(r) PROVE TreeTyped'
  <2> DEFINE unlocked == DecLock(tree_cache, req[r].node)
  <2>1. \E n : \E N : (N \in Evictions(unlocked, n) \/ N = {}) /\ tree_cache' = Without(unlocked, N)
    BY <1>8 DEF Retract
  <2>2. IsRadix(unlocked, Tokens)
    BY LockRadix DEF TreeTyped
  <2> HIDE DEF unlocked
  <2> QED
    BY <2>1, <2>2, EvictedRadix DEF TreeTyped
<1>9. ASSUME NEW r \in Requests, NEW token, Jump(r, token) PROVE TreeTyped'
  <2>1. CacheFinished(r, MatchKey(r))
    BY <1>9 DEF Jump
  <2> QED
    BY <2>1, IdsTyped, CacheFinishedRadix
<1>10. ASSUME NEW r \in Requests, NEW token, NEW stop, Process(r, token, stop) PROVE TreeTyped'
  <2>1. CacheFinished(r, Ids(r)) \/ CacheUnfinished(r) \/ UNCHANGED memory
    BY <1>10 DEF Process
  <2> QED
    BY <1>1, <2>1, IdsTyped, CacheFinishedRadix, CacheUnfinishedRadix DEF memory
<1>11. CASE \E r \in Requests : Receive(r) \/ AbortExceedSLO(r) \/ ProcessChunk(r)
  BY <1>1, <1>11 DEF Receive, AbortExceedSLO, ProcessChunk, memory
<1>12. CASE SkipPrefill \/ StopAdding \/ NothingAdded \/ NoRunningBatch \/ RunningBatchGone \/ PrepareForDecode
  BY <1>1, <1>12 DEF SkipPrefill, StopAdding, NothingAdded, NoRunningBatch, RunningBatchGone, PrepareForDecode, memory
<1>13. CASE BatchProcessed \/ Completed \/ RunToCompletion \/ UNCHANGED batchVars
  BY <1>1, <1>13 DEF BatchProcessed, Completed, RunToCompletion, batchVars, memory
<1> QED
  BY <1>2, <1>3, <1>4, <1>5, <1>6, <1>7, <1>8, <1>9, <1>10, <1>11, <1>12, <1>13 DEF BatchNext, LoopStep, Outside

\* Steps that leave the requests' records and the adder alone.
LEMMA SetsTyped ==
  ASSUME BatchTypes, UNCHANGED <<req, adder, arrived>>,
         finished' \cup waiting' \cup running' \cup last'.reqs \cup batch'.reqs \cup todo' \cup ({inflight'} \ {None})
           \subseteq arrived
  PROVE  BatchTypes'
BY DEF BatchTypes

\* What a prefix cached as slots is: a sequence as long as the prefix.
LEMMA SlotsLen ==
  ASSUME NEW t, NEW key, key \in Seq(Tokens)
  PROVE  Len(SlotsOf(t, key)) = Len(key) /\ Len(key) \in Nat
<1> DEFINE n == Len(key)
<1>1. n \in Nat
  OBVIOUS
<1> HIDE DEF n
<1>2. Len([i \in 1..n |-> t.value[SubSeq(key, 1, i)]]) = n
  BY <1>1
<1> QED
  BY <1>1, <1>2 DEF SlotsOf, n

\* A request that is cached goes on with the tree's slots.
LEMMA CachedAsTyped ==
  ASSUME BatchTypes, NEW r \in Requests
  PROVE  ReqTyped(CachedAs(r), r) /\ CachedAs(r).out = req[r].out
<1> DEFINE ids == SubSeq(Ids(r), 1, req[r].fill)
           prefix == SlotsOf(Insert(tree_cache, ids, reqToToken[req[r].row]), ids)
           q == req[r]
<1>1. Len(prefix) \in Nat
  BY IdsTyped, SlotsLen
<1>2. CachedAs(r) = [q EXCEPT !.prefix = prefix, !.node = ids]
  BY DEF CachedAs
<1> HIDE DEF ids, prefix, q
<1>3. ReqTyped(q, r)
  BY DEF BatchTypes, q
<1> QED
  BY <1>1, <1>2, <1>3 DEF ReqTyped, NewReq, q

\* The request that the adder takes.
LEMMA TakeTyped ==
  ASSUME NEW P, NEW a, AdderTyped(a, P), NEW r \in P, NEW n \in Int, NEW more
  PROVE  /\ AdderTyped(Take(a, r, n, more), P)
         /\ Take(a, r, n, more).canRun = Append(a.canRun, r) /\ Take(a, r, n, more).inflight = a.inflight
<1>1. Append(a.canRun, r) \in Seq(P) /\ a.chunk - n \in Int
  BY DEF AdderTyped
<1> QED
  BY <1>1 DEF AdderTyped, Take, NoAdder

\* The adder starts with the request in flight, whose next chunk is no longer than its tokens.
LEMMA BeginPrefillTyped ==
  ASSUME BatchTypes, TreeTyped, NEW share, BeginPrefill(share)
  PROVE  BatchTypes'
<1> DEFINE r == inflight
           mixed == IF IsMixedChunk THEN Cardinality(running) ELSE 0
           empty == [NoAdder EXCEPT !.total = Available - mixed - Reserve(share), !.cur = Available - mixed,
                                    !.input = MaxPrefillTokens - mixed, !.chunk = ChunkedPrefillSize - mixed]
           prefix == IF PrefixAware THEN req[r].prefix
                     ELSE SlotsOf(tree_cache, Cached(tree_cache, MatchKey(r)))
           node == IF PrefixAware THEN req[r].node ELSE Cached(tree_cache, MatchKey(r))
           extend == Len(Ids(r)) - Len(prefix)
           n == Lesser(extend, empty.chunk)
<1>1. UNCHANGED <<arrived, finished, waiting, running, last, batch, todo>>
  BY DEF BeginPrefill
<1>2. mixed \in Nat
  <2>1. IsFiniteSet(running)
    BY FS_Subset DEF BatchTypes
  <2> QED
    BY <2>1, FS_CardinalityType
<1> HIDE DEF mixed
<1>3. AdderTyped(empty, arrived) /\ empty.chunk \in Int
  <2>1. <<>> \in Seq(arrived)
    OBVIOUS
  <2> QED
    BY <1>2, <2>1, EngineAssumption DEF NoAdder, AdderTyped
<1>4. CASE r = None
  <2>1. adder' = empty /\ UNCHANGED <<req, inflight>>
    BY <1>4 DEF BeginPrefill, mixed
  <2> HIDE DEF empty
  <2> QED
    BY <1>1, <1>3, <2>1 DEF BatchTypes
<1>5. CASE r # None
  <2>1. /\ req' = [req EXCEPT ![r].prefix = prefix, ![r].node = node, ![r].fill = Len(prefix) + n]
        /\ inflight' = IF extend > empty.chunk THEN r ELSE None
        /\ adder' = Take(empty, r, n, IF extend > empty.chunk THEN 0 ELSE MaxNewTokens(r))
    BY <1>5 DEF BeginPrefill, mixed
  <2>2. r \in arrived /\ r \in Requests
    BY <1>5 DEF BatchTypes
  <2>3. Len(prefix) \in Nat
    <3>1. Cached(tree_cache, MatchKey(r)) \in Seq(Tokens)
      BY <2>2, IdsTyped, CachedIs DEF TreeTyped
    <3> QED
      BY <2>2, <3>1, SlotsLen DEF BatchTypes, ReqTyped
  <2> HIDE DEF empty, prefix, node
  <2>4. Len(Ids(r)) \in Nat /\ Len(Ids(r)) = Len(Prompt[r]) + Len(req[r].out)
    BY <2>2, IdsTyped
  <2>5. extend \in Int /\ Len(prefix) + extend = Len(Ids(r))
    BY <2>3, <2>4
  <2> HIDE DEF extend
  <2>6. n \in Int /\ n <= extend
    BY <1>3, <2>5 DEF Lesser
  <2> HIDE DEF n
  <2>7. Len(prefix) + n \in Int /\ Len(prefix) + n <= Len(Ids(r))
    BY <2>3, <2>5, <2>6
  <2>8. ASSUME NEW o \in Requests PROVE ReqTyped(req'[o], o)
    <3> DEFINE q == req[o]
    <3>1. ReqTyped(q, o)
      BY DEF BatchTypes
    <3>2. CASE o = r
      <4>1. req'[o] = [q EXCEPT !.prefix = prefix, !.node = node, !.fill = Len(prefix) + n]
        BY <2>1, <3>2 DEF BatchTypes
      <4> HIDE DEF q
      <4>2. Len(prefix) + n <= Len(Prompt[o]) + Len(q.out)
        BY <2>4, <2>7, <3>2 DEF q
      <4> QED
        BY <2>3, <2>7, <3>1, <4>1, <4>2 DEF ReqTyped, NewReq
    <3>3. CASE o # r
      BY <2>1, <3>1, <3>3 DEF BatchTypes
    <3> QED
      BY <3>2, <3>3
  <2>9. DOMAIN req' = Requests
    BY <2>1 DEF BatchTypes
  <2>10. AdderTyped(adder', arrived)
    BY <1>3, <2>1, <2>2, <2>6, TakeTyped
  <2>11. {inflight'} \ {None} \subseteq arrived
    BY <2>1, <2>2
  <2> QED
    BY <1>1, <2>8, <2>9, <2>10, <2>11 DEF BatchTypes
<1> QED
  BY <1>4, <1>5

\* A request of the queue is added with as many of its tokens as fit the chunk.
LEMMA AddOneReqTyped ==
  ASSUME BatchTypes, TreeTyped, NEW r \in Requests, AddOneReq(r)
  PROVE  BatchTypes'
<1> DEFINE key == MatchKey(r)
           node == Cached(tree_cache, key)
           split == Split(tree_cache, {key})
           extend == Len(Ids(r)) - Len(node)
           whole == extend <= adder.chunk
           n == IF whole THEN extend ELSE adder.chunk
           room == adder.total + (IncLock(split, node).evictable - split.evictable)
           more == IF whole THEN MaxNewTokens(r) ELSE 0
           taken == Take([adder EXCEPT !.total = room], r, n, more)
           fitting == [taken EXCEPT !.inflight = IF whole THEN taken.inflight ELSE r]
           fitted == [req EXCEPT ![r].prefix = SlotsOf(split, node), ![r].node = node, ![r].fill = Len(node) + n]
<1>1. /\ UNCHANGED <<arrived, finished, waiting, running, last, batch, inflight, todo>> /\ r \in waiting
      /\ \/ adder' = adder /\ req' = req
         \/ adder' = fitting /\ req' = fitted
  BY DEF AddOneReq, Candidates
<1>2. r \in arrived
  BY <1>1 DEF BatchTypes
<1>3. node \in Seq(Tokens) /\ Len(node) \in Nat
  <2>1. node \in Seq(Tokens)
    BY IdsTyped, CachedIs DEF TreeTyped
  <2> HIDE DEF node
  <2> QED
    BY <2>1
<1>4. Len(SlotsOf(split, node)) \in Nat
  BY <1>3, SlotsLen
<1> HIDE DEF node, split, room, more
<1>5. Len(Ids(r)) \in Nat /\ Len(Ids(r)) = Len(Prompt[r]) + Len(req[r].out)
  BY IdsTyped
<1>6. n \in Int /\ Len(node) + n <= Len(Ids(r))
  <2> DEFINE k == Len(node)
             l == Len(Ids(r))
             c == adder.chunk
  <2>1. k \in Nat /\ l \in Nat /\ c \in Int /\ n = IF l - k <= c THEN l - k ELSE c
    BY <1>3, <1>5 DEF BatchTypes, AdderTyped
  <2> HIDE DEF k, l, c, n
  <2>2. n \in Int /\ k + n <= l
    BY <2>1
  <2> QED
    BY <2>2 DEF k, l
<1> HIDE DEF n, whole
<1>7. AdderTyped(fitting, arrived)
  <2> DEFINE a == [adder EXCEPT !.total = room]
  <2>1. AdderTyped(a, arrived)
    BY DEF BatchTypes, AdderTyped, NoAdder
  <2> HIDE DEF a
  <2>2. AdderTyped(taken, arrived)
    BY <1>2, <1>6, <2>1, TakeTyped DEF a
  <2> HIDE DEF taken
  <2> QED
    BY <1>2, <2>2 DEF AdderTyped, NoAdder
<1> HIDE DEF fitting
<1>8. ASSUME NEW o \in Requests PROVE ReqTyped(fitted[o], o)
  <2> DEFINE q == req[o]
             prefix == SlotsOf(split, node)
  <2>1. ReqTyped(q, o)
    BY DEF BatchTypes
  <2>2. CASE o = r
    <3>1. fitted[o] = [q EXCEPT !.prefix = prefix, !.node = node, !.fill = Len(node) + n]
      BY <2>2 DEF BatchTypes
    <3>2. Len(node) + n <= Len(Prompt[o]) + Len(q.out) /\ Len(node) + n \in Int
      <4>1. Len(node) + n \in Int
        BY <1>3, <1>6
      <4> HIDE DEF fitted
      <4> QED
        BY <1>5, <1>6, <2>2, <4>1
    <3>3. Len(prefix) \in Nat
      BY <1>4
    <3> HIDE DEF q, prefix, fitted
    <3> QED
      BY <2>1, <3>1, <3>2, <3>3 DEF ReqTyped, NewReq
  <2>3. CASE o # r
    BY <2>1, <2>3 DEF BatchTypes
  <2> QED
    BY <2>2, <2>3
<1>9. DOMAIN fitted = Requests
  BY DEF BatchTypes
<1> HIDE DEF fitted
<1> QED
  BY <1>1, <1>7, <1>8, <1>9 DEF BatchTypes

\* The batch is made of what was added, and of the running requests if it is mixed.
LEMMA PrepareForExtendTyped ==
  ASSUME BatchTypes, PrepareForExtend
  PROVE  BatchTypes'
<1> DEFINE reqs == Range(adder.canRun)
           rows == Lowest(rowFree, Len(adder.canRun))
           At(r) == CHOOSE i \in DOMAIN adder.canRun : adder.canRun[i] = r
           mixed == IF IsMixedChunk THEN running ELSE {}
           flying == IF adder.inflight # None THEN adder.inflight ELSE inflight
           prepared == [r \in Requests |->
             IF r \in reqs
             THEN [req[r] EXCEPT !.row = rows[At(r)], !.seq = req[r].fill,
                                 !.chunks = IF r = flying THEN @ + 1 ELSE @]
             ELSE IF r \in mixed THEN [req[r] EXCEPT !.seq = @ + 1, !.fill = Len(Ids(r))]
             ELSE req[r]]
<1>1. UNCHANGED <<arrived, finished, last>>
  BY DEF PrepareForExtend
<1>2. CASE UNCHANGED <<req, waiting, running, inflight, batch, todo, adder>>
  BY <1>1, <1>2, SetsTyped DEF BatchTypes
<1>3. CASE ~UNCHANGED <<req, waiting, running, inflight, batch, todo, adder>>
  <2>1. /\ req' = prepared /\ waiting' = waiting \ reqs /\ inflight' = flying /\ running' = running \ mixed
        /\ batch' = [mode |-> "extend", reqs |-> reqs \cup mixed, decoding |-> mixed]
        /\ adder' = NoAdder /\ todo' = reqs \cup mixed
    BY <1>3 DEF PrepareForExtend
  <2>2. adder.canRun \in Seq(arrived) /\ arrived \subseteq Requests
    BY DEF BatchTypes, AdderTyped
  <2>3. reqs \subseteq arrived
    <3> DEFINE run == adder.canRun
    <3>1. run \in Seq(arrived)
      BY <2>2
    <3> HIDE DEF run
    <3>2. Range(run) \subseteq arrived
      BY <3>1 DEF Range
    <3> QED
      BY <3>2 DEF run
  <2> HIDE DEF reqs, rows, At
  <2>4. flying \in arrived \cup {None}
    BY DEF BatchTypes, AdderTyped
  <2>5. mixed \subseteq arrived
    BY DEF BatchTypes
  <2> HIDE DEF mixed, flying
  <2>6. ASSUME NEW r \in Requests PROVE ReqTyped(prepared[r], r)
    <3> DEFINE q == req[r]
               row == rows[At(r)]
               l == Len(Ids(r))
    <3>1. ReqTyped(q, r)
      BY DEF BatchTypes
    <3>2. l \in Nat /\ l = Len(Prompt[r]) + Len(q.out)
      BY IdsTyped
    <3>3. \/ prepared[r] = [q EXCEPT !.row = row, !.seq = q.fill, !.chunks = IF r = flying THEN @ + 1 ELSE @]
          \/ prepared[r] = [q EXCEPT !.seq = @ + 1, !.fill = l]
          \/ prepared[r] = q
      OBVIOUS
    <3> HIDE DEF prepared, q, row, l
    <3>4. CASE prepared[r] = [q EXCEPT !.row = row, !.seq = q.fill, !.chunks = IF r = flying THEN @ + 1 ELSE @]
      BY <3>1, <3>4 DEF ReqTyped, NewReq
    <3>5. CASE prepared[r] = [q EXCEPT !.seq = @ + 1, !.fill = l]
      BY <3>1, <3>2, <3>5 DEF ReqTyped, NewReq
    <3> QED
      BY <3>1, <3>3, <3>4, <3>5
  <2>7. DOMAIN prepared = Requests
    OBVIOUS
  <2> HIDE DEF prepared
  <2>8. AdderTyped(NoAdder, arrived)
    BY DEF AdderTyped, NoAdder
  <2>9. /\ finished \cup (waiting \ reqs) \cup (running \ mixed) \cup last.reqs \subseteq arrived
        /\ reqs \cup mixed \subseteq arrived
    BY <2>3, <2>5 DEF BatchTypes
  <2>10. batch'.reqs \cup todo' \subseteq arrived
    BY <2>1, <2>9
  <2>11. \A r \in Requests : ReqTyped(req'[r], r)
    BY <2>1, <2>6
  <2> QED
    BY <1>1, <2>1, <2>2, <2>4, <2>7, <2>8, <2>9, <2>10, <2>11 DEF BatchTypes
<1> QED
  BY <1>2, <1>3
\* A step that changes one request's record.
LEMMA OneReqTyped ==
  ASSUME BatchTypes, UNCHANGED <<adder, arrived>>, NEW r \in Requests, NEW q, ReqTyped(q, r),
         req' = [req EXCEPT ![r] = q],
         finished' \cup waiting' \cup running' \cup last'.reqs \cup batch'.reqs \cup todo' \cup ({inflight'} \ {None})
           \subseteq arrived
  PROVE  BatchTypes'
<1>1. DOMAIN req' = Requests
  BY DEF BatchTypes
<1>2. ASSUME NEW o \in Requests PROVE ReqTyped(req'[o], o)
  <2>1. req'[o] = IF o = r THEN q ELSE req[o]
    BY DEF BatchTypes
  <2>2. ReqTyped(req[o], o)
    BY DEF BatchTypes
  <2> QED
    BY <2>1, <2>2
<1> QED
  BY <1>1, <1>2 DEF BatchTypes

\* One more token in a request's output.
LEMMA LongerTyped ==
  ASSUME NEW r, NEW q, ReqTyped(q, r), NEW token \in Sampled, Len(Prompt[r]) \in Nat
  PROVE  ReqTyped([q EXCEPT !.out = Append(q.out, token)], r)
<1> DEFINE o == Append(q.out, token)
           n == Len(q.out)
           p == Len(Prompt[r])
<1>1. o \in Seq(Tokens) /\ Len(o) = n + 1 /\ n \in Nat
  BY EngineAssumption DEF ReqTyped
<1>2. q.fill \in Int /\ q.fill <= p + n /\ p \in Nat
  BY DEF ReqTyped
<1> HIDE DEF o, n, p
<1>3. q.fill <= p + Len(o)
  BY <1>1, <1>2
<1>4. ReqTyped([q EXCEPT !.out = o], r)
  BY <1>1, <1>3 DEF ReqTyped, NewReq, p
<1> QED
  BY <1>4 DEF o

\* The length of a prompt is a number.
LEMMA PromptLen == \A r \in Requests : Len(Prompt[r]) \in Nat
<1> SUFFICES ASSUME NEW r \in Requests PROVE Len(Prompt[r]) \in Nat
  OBVIOUS
<1>1. Prompt[r] \in Seq(Tokens)
  BY EngineAssumption
<1> QED
  BY <1>1

\* One more request has arrived.
LEMMA ReceiveTyped ==
  ASSUME BatchTypes, NEW r \in Requests, Receive(r)
  PROVE  BatchTypes'
<1>1. /\ UNCHANGED <<req, finished, running, inflight, last, adder, batch, todo>>
      /\ arrived' = arrived \cup {r} /\ waiting' = waiting \cup {r}
  BY DEF Receive, memory
<1>2. arrived' \subseteq Requests /\ IsFiniteSet(arrived')
  BY <1>1, FS_AddElement DEF BatchTypes
<1>3. AdderTyped(adder, arrived')
  <2>1. \A s \in Seq(arrived) : s \in Seq(arrived')
    BY <1>1
  <2> QED
    BY <1>1, <2>1 DEF BatchTypes, AdderTyped
<1> QED
  BY <1>1, <1>2, <1>3 DEF BatchTypes

\* A result adds a token to one request, cached or not.
LEMMA ProcessTyped ==
  ASSUME BatchTypes, NEW r \in Requests, NEW token \in Sampled, NEW stop, Process(r, token, stop)
  PROVE  BatchTypes'
<1> DEFINE done == r \in finished \/ stop \/ Len(req[r].out) + 1 >= MaxNewTokens(r)
           kept == ~done /\ batch.mode = "extend" /\ r \notin batch.decoding
           q == IF kept THEN CachedAs(r) ELSE req[r]
           longer == [q EXCEPT !.out = Append(q.out, token)]
<1>1. /\ UNCHANGED <<adder, arrived, waiting, running, last, batch, inflight>> /\ todo' \subseteq todo
      /\ finished' \subseteq finished \cup {r} /\ req' = [req EXCEPT ![r] = longer]
  BY DEF Process
<1>2. ReqTyped(q, r)
  BY CachedAsTyped DEF BatchTypes
<1> HIDE DEF q
<1>3. ReqTyped(longer, r)
  BY <1>2, PromptLen, LongerTyped
<1>4. r \in arrived
  BY DEF Process, BatchTypes
<1> HIDE DEF longer
<1> QED
  BY <1>1, <1>3, <1>4, OneReqTyped DEF BatchTypes

\* The records, the adder and the sets of requests keep their types.
LEMMA TypesKept ==
  ASSUME BatchTypes, TreeTyped, [BatchNext]_batchVars
  PROVE  BatchTypes'
<1>1. ASSUME NEW r \in Requests, Abort(r) PROVE BatchTypes'
  <2>1. /\ UNCHANGED <<req, adder, arrived, running, last, batch, inflight, todo>> /\ r \in arrived
        /\ waiting' \subseteq waiting /\ finished' \subseteq finished \cup {r}
    BY <1>1 DEF Abort
  <2> QED
    BY <2>1, SetsTyped DEF BatchTypes
<1>2. CASE MergeLastBatch
  <2>1. /\ UNCHANGED <<adder, arrived, finished, waiting, inflight, batch, todo>> /\ last' = NoBatch
        /\ running' \subseteq running \cup last.reqs
        /\ \/ UNCHANGED req
           \/ inflight # None /\ req' = [req EXCEPT ![inflight] = CachedAs(inflight)]
    BY <1>2 DEF MergeLastBatch
  <2>2. /\ finished' \cup waiting' \cup running' \cup last'.reqs \cup batch'.reqs \cup todo' \cup ({inflight'} \ {None})
             \subseteq arrived
    BY <2>1 DEF BatchTypes, NoBatch
  <2>3. CASE UNCHANGED req
    BY <2>1, <2>2, <2>3, SetsTyped
  <2>4. CASE inflight # None /\ req' = [req EXCEPT ![inflight] = CachedAs(inflight)]
    <3>1. inflight \in Requests
      BY <2>4 DEF BatchTypes
    <3> QED
      BY <2>1, <2>2, <2>4, <3>1, CachedAsTyped, OneReqTyped
  <2> QED
    BY <2>1, <2>3, <2>4
<1>3. ASSUME NEW r \in Requests, Retract(r) PROVE BatchTypes'
  <2> DEFINE q == req[r]
             given == [q EXCEPT !.prefix = <<>>, !.node = <<>>]
  <2>1. /\ UNCHANGED <<adder, arrived, finished, inflight, last, batch, todo>> /\ r \in running
        /\ running' \subseteq running /\ waiting' = waiting \cup {r}
        /\ req' = [req EXCEPT ![r].prefix = <<>>, ![r].node = <<>>]
    BY <1>3 DEF Retract, Requeue
  <2>2. req' = [req EXCEPT ![r] = given]
    BY <2>1 DEF BatchTypes
  <2>3. ReqTyped(q, r)
    BY DEF BatchTypes
  <2> HIDE DEF q
  <2>4. ReqTyped(given, r)
    BY <2>3 DEF ReqTyped, NewReq
  <2> HIDE DEF given
  <2> QED
    BY <2>1, <2>2, <2>4, OneReqTyped DEF BatchTypes
<1>4. ASSUME NEW r \in Requests, NEW token \in Sampled, Jump(r, token) PROVE BatchTypes'
  <2> DEFINE q == req[r]
             longer == [q EXCEPT !.out = Append(q.out, token)]
  <2>1. /\ UNCHANGED <<adder, arrived, finished, inflight, last, batch, todo>> /\ r \in running
        /\ running' \subseteq running /\ waiting' = waiting \cup {r}
        /\ req' = [req EXCEPT ![r].out = Append(@, token)]
    BY <1>4 DEF Jump, Requeue
  <2>2. req' = [req EXCEPT ![r] = longer]
    BY <2>1 DEF BatchTypes
  <2>3. ReqTyped(q, r)
    BY DEF BatchTypes
  <2> HIDE DEF q
  <2>4. ReqTyped(longer, r)
    BY <2>3, PromptLen, LongerTyped
  <2> HIDE DEF longer
  <2> QED
    BY <2>1, <2>2, <2>4, OneReqTyped DEF BatchTypes
<1>5. ASSUME NEW r \in Requests, ProcessChunk(r) PROVE BatchTypes'
  <2> DEFINE q == req[r]
             less == [q EXCEPT !.chunks = q.chunks - 1]
  <2>1. /\ UNCHANGED <<adder, arrived, finished, waiting, running, inflight, last, batch>> /\ todo' \subseteq todo
        /\ req' = [req EXCEPT ![r].chunks = @ - 1]
    BY <1>5 DEF ProcessChunk
  <2>2. req' = [req EXCEPT ![r] = less]
    BY <2>1 DEF BatchTypes
  <2>3. ReqTyped(q, r)
    BY DEF BatchTypes
  <2> HIDE DEF q
  <2>4. ReqTyped(less, r)
    BY <2>3 DEF ReqTyped, NewReq
  <2> HIDE DEF less
  <2> QED
    BY <2>1, <2>2, <2>4, OneReqTyped DEF BatchTypes
<1>6. CASE PrepareForDecode
  <2>1. /\ UNCHANGED <<adder, arrived, finished, waiting, running, inflight, last>> /\ todo' = running
        /\ batch'.reqs = running
        /\ req' = [r \in Requests |-> IF r \in running THEN [req[r] EXCEPT !.seq = @ + 1] ELSE req[r]]
    BY <1>6 DEF PrepareForDecode
  <2>2. ASSUME NEW r \in Requests PROVE ReqTyped(req'[r], r)
    <3> DEFINE q == req[r]
               next == [q EXCEPT !.seq = @ + 1]
    <3>1. ReqTyped(q, r)
      BY DEF BatchTypes
    <3>2. req'[r] = q \/ req'[r] = next
      BY <2>1
    <3> HIDE DEF q
    <3>3. ReqTyped(next, r)
      BY <3>1 DEF ReqTyped, NewReq
    <3> QED
      BY <3>1, <3>2, <3>3
  <2> QED
    BY <2>1, <2>2 DEF BatchTypes
<1>7. ASSUME NEW r \in Requests, AbortExceedSLO(r) PROVE BatchTypes'
  <2>1. /\ UNCHANGED <<req, adder, arrived, running, last, batch, inflight, todo>> /\ r \in waiting
        /\ waiting' \subseteq waiting /\ finished' \subseteq finished \cup {r}
    BY <1>7 DEF AbortExceedSLO, Candidates
  <2> QED
    BY <2>1, SetsTyped DEF BatchTypes
<1>8. CASE NothingAdded
  <2>1. UNCHANGED <<req, arrived, finished, waiting, running, last, batch, inflight, todo>> /\ adder' = NoAdder
    BY <1>8 DEF NothingAdded
  <2>2. AdderTyped(NoAdder, arrived)
    BY DEF AdderTyped, NoAdder
  <2> QED
    BY <2>1, <2>2 DEF BatchTypes
<1>9. CASE SkipPrefill \/ StopAdding \/ NoRunningBatch \/ RunningBatchGone \/ CheckDecodeMem
  <2>1. /\ UNCHANGED <<req, adder, arrived, finished, waiting, last, inflight, todo>> /\ running' \subseteq running
        /\ batch' = batch \/ batch' = NoBatch
    BY <1>9 DEF SkipPrefill, StopAdding, NoRunningBatch, RunningBatchGone, CheckDecodeMem
  <2> QED
    BY <2>1, SetsTyped DEF BatchTypes, NoBatch
<1>10. CASE BatchProcessed \/ Completed \/ RunToCompletion \/ UNCHANGED batchVars
  <2>1. /\ UNCHANGED <<req, adder, arrived, finished, waiting, running, inflight, todo>>
        /\ batch' = batch \/ batch' = NoBatch
        /\ last' = last \/ last' = batch \/ last' = NoBatch
    BY <1>10 DEF BatchProcessed, Completed, RunToCompletion, batchVars
  <2> QED
    BY <2>1, SetsTyped DEF BatchTypes, NoBatch
<1> QED
  BY <1>1, <1>2, <1>3, <1>4, <1>5, <1>6, <1>7, <1>8, <1>9, <1>10, ReceiveTyped, BeginPrefillTyped, AddOneReqTyped,
     PrepareForExtendTyped, ProcessTyped DEF BatchNext, LoopStep, Outside

-------------------------------------------------------------------------------
(* Where the loop is, and where every request received is.                 *)

\* What each of the loop's variables holds is a matter of where the loop is: a batch being run has requests, a request in
\* flight is in the batch that carries its next chunk, and a loop with nothing to decode has none in flight.
Loop ==
  /\ pc \in {"recv", "prefill", "adding", "extend", "decode", "retract", "jump", "process", "completed", "out_of_memory"}
  /\ pc \notin {"adding", "extend", "out_of_memory"} => adder = NoAdder
  /\ adder.inflight # None => adder.inflight \in Range(adder.canRun)
  /\ pc # "recv" => last = NoBatch
  /\ pc \notin {"process", "decode", "retract", "jump"} => batch = NoBatch
  /\ todo \subseteq batch.reqs /\ (pc # "process" => todo = {})
  /\ batch # NoBatch => batch.reqs # {} /\ batch.mode \in {"extend", "decode"}
  /\ batch.mode = "extend" => pc = "process" /\ (inflight # None => inflight \in batch.reqs)
  /\ batch.mode = "decode" => (pc = "process" => batch.reqs = running)
  /\ pc = "process" => batch # NoBatch
  /\ pc = "decode" /\ running = {} => inflight = None /\ batch = NoBatch
  /\ pc \in {"adding", "extend"} /\ inflight # None => inflight \in Range(adder.canRun)
  /\ last.reqs # {} /\ inflight # None => inflight \in last.reqs

\* A request received has finished, or waits, runs, was prefilled last, is being added, is in flight or is in the batch.
Kept ==
  arrived \subseteq finished \cup waiting \cup running \cup last.reqs \cup Range(adder.canRun) \cup {inflight}
                    \cup (IF pc = "process" THEN batch.reqs ELSE {})

\* What a sequence holds once it is longer by one.
LEMMA AppendRange ==
  ASSUME NEW S, NEW s \in Seq(S), NEW x
  PROVE  Range(Append(s, x)) = Range(s) \cup {x}
<1> DEFINE n == Len(s)
           t == Append(s, x)
<1>1. s \in Seq(S \cup {x})
  OBVIOUS
<1>2. n \in Nat /\ DOMAIN s = 1..n
  OBVIOUS
<1>3. t \in Seq(S \cup {x}) /\ Len(t) = n + 1 /\ (\A i \in 1..n : t[i] = s[i]) /\ t[n + 1] = x
  BY <1>1, AppendProperties
<1>4. DOMAIN t = 1..(n + 1)
  <2> HIDE DEF t
  <2> QED
    BY <1>3
<1> HIDE DEF n, t
<1>5. DOMAIN t = DOMAIN s \cup {n + 1}
  BY <1>2, <1>4
<1>6. \A i \in DOMAIN s : t[i] = s[i]
  BY <1>2, <1>3
<1>7. Range(t) = Range(s) \cup {x}
  BY <1>3, <1>5, <1>6 DEF Range
<1> QED
  BY <1>7 DEF t

\* An adder that has added nothing.
LEMMA EmptyRange == Range(NoAdder.canRun) = {} /\ NoAdder.inflight = None
BY DEF NoAdder, Range

\* What BeginPrefill and AddOneReq do to the adder.
LEMMA BeginPrefillAdds ==
  ASSUME NEW share, BeginPrefill(share)
  PROVE  /\ adder'.inflight = None
         /\ Range(adder'.canRun) = {inflight} \ {None}
         /\ inflight' \in {inflight, None}
<1> DEFINE mixed == IF IsMixedChunk THEN Cardinality(running) ELSE 0
           empty == [NoAdder EXCEPT !.total = Available - mixed - Reserve(share), !.cur = Available - mixed,
                                    !.input = MaxPrefillTokens - mixed, !.chunk = ChunkedPrefillSize - mixed]
<1>1. empty.inflight = None /\ empty.canRun = <<>> /\ DOMAIN empty = DOMAIN NoAdder
  BY DEF NoAdder
<1>2. CASE inflight = None
  <2>1. adder' = empty /\ inflight' = inflight
    BY <1>2 DEF BeginPrefill
  <2>2. adder'.canRun = NoAdder.canRun
    BY <1>1, <2>1 DEF NoAdder
  <2> QED
    BY <1>1, <1>2, <2>1, <2>2, EmptyRange
<1>3. CASE inflight # None
  <2>1. inflight' \in {inflight, None} /\ \E n, more : adder' = Take(empty, inflight, n, more)
    BY <1>3 DEF BeginPrefill
  <2> HIDE DEF empty
  <2>2. adder'.canRun = Append(<<>>, inflight) /\ adder'.inflight = None
    BY <1>1, <2>1 DEF Take, NoAdder
  <2>3. Range(<<>>) = {} /\ <<>> \in Seq({})
    BY DEF Range
  <2>4. Range(Append(<<>>, inflight)) = {inflight}
    <3> DEFINE e == <<>>
    <3>1. e \in Seq({}) /\ Range(e) = {}
      BY <2>3
    <3> HIDE DEF e
    <3>2. Range(Append(e, inflight)) = {inflight}
      BY <3>1, AppendRange
    <3> QED
      BY <3>2 DEF e
  <2> QED
    BY <1>3, <2>1, <2>2, <2>4
<1> QED
  BY <1>2, <1>3

\* What is added stays added.
LEMMA AddOneReqAdds ==
  ASSUME BatchTypes, NEW r \in Requests, AddOneReq(r)
  PROVE  /\ Range(adder'.canRun) \in {Range(adder.canRun), Range(adder.canRun) \cup {r}}
         /\ adder'.inflight # None => adder'.inflight \in {r, adder.inflight}
         /\ adder' # adder => r \in Range(adder'.canRun)
<1>1. CASE adder' = adder
  BY <1>1
<1>2. CASE adder' # adder
  <2>1. \E room, n, more : \E i \in {r, adder.inflight} :
          adder' = [Take([adder EXCEPT !.total = room], r, n, more) EXCEPT !.inflight = i]
    <3> DEFINE key == MatchKey(r)
               split == Split(tree_cache, {key})
               node == Cached(tree_cache, key)
               locked == IncLock(split, node)
               extend == Len(Ids(r)) - Len(node)
               room == adder.total + (locked.evictable - split.evictable)
               whole == extend <= adder.chunk
               n == IF whole THEN extend ELSE adder.chunk
               more == IF whole THEN MaxNewTokens(r) ELSE 0
               taken == Take([adder EXCEPT !.total = room], r, n, more)
    <3>1. adder' = [taken EXCEPT !.inflight = IF whole THEN taken.inflight ELSE r]
      BY <1>2 DEF AddOneReq
    <3> HIDE DEF room, n, more, whole
    <3>2. taken.inflight = adder.inflight
      BY DEF BatchTypes, AdderTyped, Take, NoAdder
    <3> HIDE DEF taken
    <3>3. adder' = [taken EXCEPT !.inflight = r] \/ adder' = [taken EXCEPT !.inflight = adder.inflight]
      BY <3>1, <3>2
    <3> QED
      BY <3>3 DEF taken
  <2>2. adder'.canRun = Append(adder.canRun, r) /\ adder'.inflight \in {r, adder.inflight}
    BY <2>1 DEF BatchTypes, AdderTyped, Take, NoAdder
  <2> QED
    BY <2>2, AppendRange DEF BatchTypes, AdderTyped
<1> QED
  BY <1>1, <1>2

\* What PrepareForExtend does to the sets of requests.
LEMMA PrepareForExtendMoves ==
  ASSUME BatchTypes, PrepareForExtend
  PROVE  LET reqs == Range(adder.canRun)
             mixed == IF IsMixedChunk THEN running ELSE {}
         IN  /\ reqs # {}
             /\ \/ pc' = "out_of_memory" /\ UNCHANGED <<waiting, running, inflight, batch, todo, adder>>
                \/ /\ pc' = "process" /\ waiting' = waiting \ reqs /\ running' = running \ mixed
                   /\ inflight' = IF adder.inflight # None THEN adder.inflight ELSE inflight
                   /\ batch' = [mode |-> "extend", reqs |-> reqs \cup mixed, decoding |-> mixed]
                   /\ todo' = reqs \cup mixed /\ adder' = NoAdder
<1>1. Range(adder.canRun) # {}
  <2>1. adder.canRun # <<>> /\ adder.canRun \in Seq(arrived)
    BY DEF PrepareForExtend, BatchTypes, AdderTyped
  <2>2. Len(adder.canRun) \in Nat \ {0} /\ DOMAIN adder.canRun = 1..Len(adder.canRun)
    BY <2>1
  <2>3. 1 \in DOMAIN adder.canRun
    BY <2>2
  <2> QED
    BY <2>3 DEF Range
<1> QED
  BY <1>1 DEF PrepareForExtend

\* Each step leaves the loop's variables as the place it leads to has them.
LEMMA LoopKept ==
  ASSUME Loop, BatchTypes, [BatchNext]_batchVars
  PROVE  Loop'
<1> USE DEF NoBatch
<1>1. CASE \E r \in Requests : Receive(r) \/ Abort(r) \/ AbortExceedSLO(r)
  BY <1>1 DEF Loop, Receive, Abort, AbortExceedSLO
<1>2. CASE MergeLastBatch
  BY <1>2 DEF Loop, MergeLastBatch
<1>3. CASE SkipPrefill
  <2>1. Cardinality({}) < MaxRunning
    BY FS_EmptySet, EngineAssumption
  <2> QED
    BY <1>3, <2>1 DEF Loop, SkipPrefill, PrefillAllowed
<1>4. ASSUME NEW share, BeginPrefill(share) PROVE Loop'
  <2>1. UNCHANGED <<last, batch, todo>> /\ pc = "prefill" /\ pc' = "adding"
    BY <1>4 DEF BeginPrefill
  <2> QED
    BY <1>4, <2>1, BeginPrefillAdds DEF Loop
<1>5. ASSUME NEW r \in Requests, AddOneReq(r) PROVE Loop'
  <2>1. UNCHANGED <<last, batch, todo, inflight>> /\ pc = "adding" /\ pc' \in {"adding", "extend"}
    BY <1>5 DEF AddOneReq
  <2>2. adder'.inflight # None => adder'.inflight \in Range(adder'.canRun)
    BY <1>5, AddOneReqAdds DEF Loop
  <2> QED
    BY <1>5, <2>1, <2>2, AddOneReqAdds DEF Loop
<1>6. CASE StopAdding
  BY <1>6 DEF Loop, StopAdding
<1>7. CASE NothingAdded
  <2>1. Range(<<>>) = {}
    BY DEF Range
  <2> QED
    BY <1>7, <2>1, EmptyRange DEF Loop, NothingAdded
<1>8. CASE PrepareForExtend
  <2>1. last' = last /\ pc = "extend"
    BY <1>8 DEF PrepareForExtend
  <2> QED
    BY <1>8, <2>1, EmptyRange, PrepareForExtendMoves DEF Loop
<1>9. CASE NoRunningBatch \/ RunningBatchGone
  BY <1>9 DEF Loop, NoRunningBatch, RunningBatchGone
<1>10. CASE CheckDecodeMem
  BY <1>10 DEF Loop, CheckDecodeMem
<1>11. ASSUME NEW r \in Requests, Retract(r) PROVE Loop'
  <2>1. /\ UNCHANGED <<inflight, last, adder, batch, todo>> /\ pc = "retract" /\ pc' \in {"retract", "jump"}
    BY <1>11 DEF Retract
  <2> QED
    BY <2>1 DEF Loop
<1>12. ASSUME NEW r \in Requests, NEW token, Jump(r, token) PROVE Loop'
  BY <1>12 DEF Loop, Jump
<1>13. CASE PrepareForDecode
  BY <1>13 DEF Loop, PrepareForDecode
<1>14. ASSUME NEW r \in Requests, ProcessChunk(r) PROVE Loop'
  BY <1>14 DEF Loop, ProcessChunk
<1>15. ASSUME NEW r \in Requests, NEW token, NEW stop, Process(r, token, stop) PROVE Loop'
  <2>1. UNCHANGED <<running, inflight, last, pc, adder, batch>> /\ pc = "process" /\ todo' \subseteq todo
    BY <1>15 DEF Process
  <2> QED
    BY <2>1 DEF Loop
<1>16. CASE BatchProcessed
  BY <1>16 DEF Loop, BatchProcessed
<1>17. CASE Completed \/ RunToCompletion \/ UNCHANGED batchVars
  BY <1>17 DEF Loop, Completed, NothingLeft, RunToCompletion, batchVars
<1> QED
  BY <1>1, <1>2, <1>3, <1>4, <1>5, <1>6, <1>7, <1>8, <1>9, <1>10, <1>11, <1>12, <1>13, <1>14, <1>15, <1>16, <1>17
  DEF BatchNext, LoopStep, Outside

\* Each step that takes a request out of one place puts it into another, or finishes it.
LEMMA KeptKept ==
  ASSUME Kept, Loop, BatchTypes, [BatchNext]_batchVars
  PROVE  Kept'
<1> USE DEF NoBatch
<1>1. CASE \E r \in Requests : Receive(r) \/ Abort(r) \/ AbortExceedSLO(r)
  BY <1>1 DEF Kept, Receive, Abort, AbortExceedSLO, Candidates
<1>2. CASE MergeLastBatch
  BY <1>2 DEF Kept, MergeLastBatch
<1>3. CASE SkipPrefill
  BY <1>3 DEF Kept, SkipPrefill
<1>4. ASSUME NEW share, BeginPrefill(share) PROVE Kept'
  <2>1. UNCHANGED <<arrived, finished, waiting, running, last>> /\ pc = "prefill" /\ pc' = "adding" /\ adder = NoAdder
    BY <1>4 DEF BeginPrefill, Loop
  <2>2. None \notin arrived
    BY EngineAssumption DEF BatchTypes
  <2> QED
    BY <1>4, <2>1, <2>2, BeginPrefillAdds, EmptyRange DEF Kept
<1>5. ASSUME NEW r \in Requests, AddOneReq(r) PROVE Kept'
  <2>1. UNCHANGED <<arrived, finished, waiting, running, last, inflight>> /\ pc = "adding" /\ pc' # "process"
    BY <1>5 DEF AddOneReq
  <2> QED
    BY <1>5, <2>1, AddOneReqAdds DEF Kept
<1>6. CASE StopAdding
  BY <1>6 DEF Kept, StopAdding
<1>7. CASE NothingAdded
  BY <1>7, EmptyRange DEF Kept, NothingAdded, NoAdder
<1>8. CASE PrepareForExtend
  <2>1. UNCHANGED <<arrived, finished, last>> /\ pc = "extend"
    BY <1>8 DEF PrepareForExtend
  <2>2. CASE pc' = "out_of_memory"
    BY <1>8, <2>1, <2>2, PrepareForExtendMoves DEF Kept
  <2>3. CASE pc' # "out_of_memory"
    <3>1. inflight # None => inflight \in Range(adder.canRun)
      BY <2>1 DEF Loop
    <3>2. None \notin arrived
      BY EngineAssumption DEF BatchTypes
    <3> QED
      BY <1>8, <2>1, <2>3, <3>1, <3>2, EmptyRange, PrepareForExtendMoves DEF Kept
  <2> QED
    BY <2>2, <2>3
<1>9. CASE NoRunningBatch \/ RunningBatchGone
  BY <1>9 DEF Kept, NoRunningBatch, RunningBatchGone, Loop
<1>10. CASE CheckDecodeMem
  BY <1>10 DEF Kept, CheckDecodeMem
<1>11. ASSUME NEW r \in Requests, Retract(r) PROVE Kept'
  <2>1. /\ UNCHANGED <<arrived, finished, inflight, last, adder>> /\ pc = "retract" /\ pc' # "process"
        /\ running' = running \ {r} /\ waiting' = waiting \cup {r}
    BY <1>11 DEF Retract, Requeue
  <2> QED
    BY <2>1 DEF Kept
<1>12. ASSUME NEW r \in Requests, NEW token, Jump(r, token) PROVE Kept'
  BY <1>12 DEF Kept, Jump, Requeue
<1>13. CASE PrepareForDecode
  BY <1>13 DEF Kept, PrepareForDecode
<1>14. ASSUME NEW r \in Requests, ProcessChunk(r) PROVE Kept'
  BY <1>14 DEF Kept, ProcessChunk
<1>15. ASSUME NEW r \in Requests, NEW token, NEW stop, Process(r, token, stop) PROVE Kept'
  <2>1. UNCHANGED <<arrived, waiting, running, inflight, last, pc, adder, batch>> /\ finished \subseteq finished'
    BY <1>15 DEF Process
  <2> QED
    BY <2>1 DEF Kept
<1>16. CASE BatchProcessed
  BY <1>16 DEF Kept, BatchProcessed, Loop
<1>17. CASE Completed \/ RunToCompletion \/ UNCHANGED batchVars
  BY <1>17 DEF Kept, Completed, RunToCompletion, batchVars
<1> QED
  BY <1>1, <1>2, <1>3, <1>4, <1>5, <1>6, <1>7, <1>8, <1>9, <1>10, <1>11, <1>12, <1>13, <1>14, <1>15, <1>16, <1>17
  DEF BatchNext, LoopStep, Outside

\* The inductive invariant of one engine.
EngineInv == TreeTyped /\ BatchTypes /\ Loop /\ Kept /\ CompletionLosesNothing

\* The engine starts with nothing received.
LEMMA EngineInvInitially ==
  ASSUME BatchInit
  PROVE  EngineInv
<1>1. TreeTyped
  BY EmptyTreeRadix DEF BatchInit, TreeTyped
<1>2. BatchTypes
  <2>1. \A r \in Requests : ReqTyped(NewReq, r)
    <3>1. Len(NewReq.prefix) = 0 /\ NewReq.out \in Seq(Tokens) /\ Len(NewReq.out) = 0 /\ NewReq.fill = 0
      BY DEF NewReq
    <3> QED
      BY <3>1, PromptLen DEF ReqTyped
  <2>2. AdderTyped(NoAdder, {}) /\ IsFiniteSet({})
    BY FS_EmptySet DEF AdderTyped, NoAdder
  <2> QED
    BY <2>1, <2>2 DEF BatchInit, BatchTypes, NoBatch
<1>3. Loop
  BY EmptyRange DEF BatchInit, Loop, NoBatch
<1>4. Kept /\ CompletionLosesNothing
  BY DEF BatchInit, Kept, CompletionLosesNothing
<1> QED
  BY <1>1, <1>2, <1>3, <1>4 DEF EngineInv

\* _run_to_completion_normal returns with nothing running, waiting, in flight or prefilled.
LEMMA CompletionKept ==
  ASSUME EngineInv, [BatchNext]_batchVars
  PROVE  CompletionLosesNothing'
<1>1. CASE pc' # "completed"
  BY <1>1 DEF CompletionLosesNothing
<1>2. CASE Completed
  <2>1. adder = NoAdder /\ last = NoBatch /\ inflight = None /\ running = {} /\ waiting = {} /\ pc = "decode"
    BY <1>2 DEF Completed, NothingLeft, EngineInv, Loop
  <2>2. None \notin arrived
    BY EngineAssumption DEF EngineInv, BatchTypes
  <2>3. arrived \subseteq finished
    BY <2>1, <2>2, EmptyRange DEF EngineInv, Kept, NoBatch
  <2>4. UNCHANGED <<arrived, finished>>
    BY <1>2 DEF Completed
  <2> QED
    BY <2>3, <2>4 DEF CompletionLosesNothing
<1>3. CASE UNCHANGED batchVars
  BY <1>3 DEF EngineInv, CompletionLosesNothing, batchVars
<1>4. CASE LoopStep /\ ~Completed
  BY <1>4 DEF LoopStep, MergeLastBatch, SkipPrefill, BeginPrefill, AddOneReq, Retract, ProcessChunk, StopAdding,
     NothingAdded, PrepareForExtend, NoRunningBatch, RunningBatchGone, CheckDecodeMem, PrepareForDecode, Jump, Process,
     BatchProcessed, CompletionLosesNothing
<1>5. CASE Outside \/ RunToCompletion
  BY <1>5 DEF Outside, Receive, Abort, AbortExceedSLO, RunToCompletion, CompletionLosesNothing
<1> QED
  BY <1>2, <1>3, <1>4, <1>5 DEF BatchNext

\* The invariant is inductive.
LEMMA EngineInvKept == EngineInv /\ [BatchNext]_batchVars => EngineInv'
BY TreeKept, TypesKept, LoopKept, KeptKept, CompletionKept DEF EngineInv

\* It holds in every state.
LEMMA EngineInvariant == BatchSpec => []EngineInv
<1>1. BatchInit => EngineInv
  BY EngineInvInitially
<1> QED
  BY <1>1, EngineInvKept, PTL DEF BatchSpec

\* What TreeIsRadix says of the tree follows from the invariant that the steps of the cache keep.
LEMMA RadixTree ==
  ASSUME TreeTyped
  PROVE  TreeIsRadix
<1> DEFINE cached == DOMAIN tree_cache.value
<1>1. tree_cache.nodes \subseteq cached /\ DOMAIN tree_cache.lock = tree_cache.nodes
  BY DEF TreeTyped, IsRadix
<1>2. ASSUME NEW p \in cached
      PROVE  /\ Heads(p) \subseteq cached /\ \E n \in tree_cache.nodes : IsPrefix(p, n)
             /\ \A a, b \in Tokens : a # b /\ {Append(p, a), Append(p, b)} \subseteq cached => p \in tree_cache.nodes
  <2>1. Heads(p) \subseteq cached /\ \E n \in tree_cache.nodes : p \in Heads(n)
    BY DEF TreeTyped, IsRadix
  <2>2. \E n \in tree_cache.nodes : IsPrefix(p, n)
    <3>1. PICK n \in tree_cache.nodes : p \in Heads(n)
      BY <2>1
    <3>2. n \in Seq(Tokens)
      BY DEF TreeTyped, IsRadix
    <3>3. p \in Seq(Tokens) /\ Starts(p, n)
      BY <3>1, <3>2, HeadsAre
    <3> QED
      BY <3>2, <3>3, StartsIsPrefix
  <2>3. \A a, b \in Tokens : a # b /\ {Append(p, a), Append(p, b)} \subseteq cached => p \in tree_cache.nodes
    BY DEF TreeTyped, IsRadix
  <2> QED
    BY <2>1, <2>2, <2>3
<1> QED
  BY <1>1, <1>2 DEF TreeIsRadix

\* Whatever requests arrive and whatever is generated, the cache stays a radix tree.
THEOREM TreeStaysRadix == BatchSpec => []TreeIsRadix
<1>1. EngineInv => TreeIsRadix
  BY RadixTree DEF EngineInv
<1> QED
  BY <1>1, EngineInvariant, PTL

\* Draining an engine returns only when every request it has taken in has finished.
THEOREM DrainingLosesNothing == BatchSpec => []CompletionLosesNothing
<1>1. EngineInv => CompletionLosesNothing
  BY DEF EngineInv
<1> QED
  BY <1>1, EngineInvariant, PTL

-------------------------------------------------------------------------------
(* A request is in one place                                               *)

\* Without mixed batches no request is in two places of the loop: what waits, runs, was prefilled last, is being added and
\* is in flight are apart, and what is processed has not finished.
Apart ==
  /\ running \cap last.reqs = {}
  /\ waiting \cap (running \cup last.reqs \cup {inflight} \cup finished) = {}
  /\ inflight \notin running \cup finished
  /\ pc = "process" => waiting \cap batch.reqs = {} /\ (batch.mode = "extend" => running \cap batch.reqs = {})
  /\ Range(adder.canRun) \cap (running \cup finished) = {}
  /\ pc \in {"retract", "jump"} => running \cap finished = {}
  /\ todo \cap finished = {} /\ batch.decoding = {}

\* chunks counts the one chunk of the request in flight whose result is to come.
ChunksCounted == \A r \in Requests : req[r].chunks = IF batch.mode = "extend" /\ r = inflight /\ r \in todo THEN 1 ELSE 0

SameChunks == \A r \in Requests : req'[r].chunks = req[r].chunks

\* A change of other fields of a request leaves its chunks.
LEMMA OthersChunks ==
  ASSUME BatchTypes, NEW r \in Requests, NEW q, req' = [req EXCEPT ![r] = q], q.chunks = req[r].chunks
  PROVE  SameChunks
BY DEF BatchTypes, SameChunks

\* What a request's record holds.
LEMMA ReqFields ==
  ASSUME BatchTypes, NEW r \in Requests
  PROVE  DOMAIN req[r] = {"out", "prefix", "node", "row", "fill", "seq", "chunks"}
BY DEF BatchTypes, ReqTyped, NewReq

\* Chunks are counted when a batch is prepared and when its result is processed, and nowhere else.
LEMMA ChunksKept ==
  ASSUME BatchTypes, [BatchNext]_batchVars
  PROVE  SameChunks \/ PrepareForExtend \/ \E r \in Requests : ProcessChunk(r)
<1>1. CASE UNCHANGED req
  BY <1>1 DEF SameChunks
<1>2. CASE MergeLastBatch
  <2>1. CASE inflight # None /\ req' = [req EXCEPT ![inflight] = CachedAs(inflight)]
    <3>1. inflight \in Requests
      BY <2>1 DEF BatchTypes
    <3>2. CachedAs(inflight).chunks = req[inflight].chunks
      BY <3>1, ReqFields DEF CachedAs
    <3> QED
      BY <2>1, <3>1, <3>2, OthersChunks
  <2> QED
    BY <1>1, <1>2, <2>1 DEF MergeLastBatch
<1>3. ASSUME NEW share, BeginPrefill(share) PROVE SameChunks
  <2> DEFINE r == inflight
             mixed == IF IsMixedChunk THEN Cardinality(running) ELSE 0
             empty == [NoAdder EXCEPT !.total = Available - mixed - Reserve(share), !.cur = Available - mixed,
                                      !.input = MaxPrefillTokens - mixed, !.chunk = ChunkedPrefillSize - mixed]
             prefix == IF PrefixAware THEN req[r].prefix
                       ELSE SlotsOf(tree_cache, Cached(tree_cache, MatchKey(r)))
             node == IF PrefixAware THEN req[r].node ELSE Cached(tree_cache, MatchKey(r))
             fill == Len(prefix) + Lesser(Len(Ids(r)) - Len(prefix), empty.chunk)
             begun == [req EXCEPT ![r].prefix = prefix, ![r].node = node, ![r].fill = fill]
  <2>1. CASE r # None
    <3>1. req' = begun
      BY <1>3, <2>1 DEF BeginPrefill
    <3>2. r \in Requests
      BY <2>1 DEF BatchTypes
    <3> HIDE DEF prefix, node, fill
    <3> DEFINE q == [req[r] EXCEPT !.prefix = prefix, !.node = node, !.fill = fill]
    <3>3. begun = [req EXCEPT ![r] = q] /\ q.chunks = req[r].chunks
      BY <3>2, ReqFields DEF BatchTypes
    <3> HIDE DEF q, begun
    <3> QED
      BY <3>1, <3>2, <3>3, OthersChunks
  <2>2. CASE r = None
    <3>1. UNCHANGED req
      BY <1>3, <2>2 DEF BeginPrefill
    <3> HIDE DEF r, mixed, empty, prefix, node, fill, begun
    <3> QED
      BY <3>1 DEF SameChunks
  <2> QED
    BY <2>1, <2>2
<1>4. ASSUME NEW r \in Requests, AddOneReq(r) PROVE SameChunks
  <2> DEFINE key == MatchKey(r)
             node == Cached(tree_cache, key)
             prefix == SlotsOf(Split(tree_cache, {key}), node)
             extend == Len(Ids(r)) - Len(node)
             fill == Len(node) + IF extend <= adder.chunk THEN extend ELSE adder.chunk
             fitted == [req EXCEPT ![r].prefix = prefix, ![r].node = node, ![r].fill = fill]
             q == [req[r] EXCEPT !.prefix = prefix, !.node = node, !.fill = fill]
  <2>1. UNCHANGED req \/ req' = fitted
    BY <1>4 DEF AddOneReq
  <2> HIDE DEF prefix, node, fill
  <2>2. fitted = [req EXCEPT ![r] = q] /\ q.chunks = req[r].chunks
    BY ReqFields DEF BatchTypes
  <2> HIDE DEF q, fitted
  <2>3. CASE UNCHANGED req
    BY <2>3 DEF SameChunks
  <2>4. CASE req' = fitted
    BY <2>2, <2>4, OthersChunks
  <2> QED
    BY <2>1, <2>3, <2>4
<1>5. ASSUME NEW r \in Requests, Retract(r) PROVE SameChunks
  <2>1. req' = [req EXCEPT ![r].prefix = <<>>, ![r].node = <<>>]
    BY <1>5 DEF Retract
  <2>2. req' = [req EXCEPT ![r] = [req[r] EXCEPT !.prefix = <<>>, !.node = <<>>]]
    BY <2>1 DEF BatchTypes
  <2> QED
    BY <2>2, ReqFields, OthersChunks
<1>6. ASSUME NEW r \in Requests, NEW token, Jump(r, token) PROVE SameChunks
  <2>1. req' = [req EXCEPT ![r].out = Append(@, token)]
    BY <1>6 DEF Jump
  <2>2. req' = [req EXCEPT ![r] = [req[r] EXCEPT !.out = Append(@, token)]]
    BY <2>1 DEF BatchTypes
  <2> QED
    BY <2>2, ReqFields, OthersChunks
<1>7. ASSUME NEW r \in Requests, NEW token, NEW stop, Process(r, token, stop) PROVE SameChunks
  <2>1. \E q : (q = CachedAs(r) \/ q = req[r]) /\ req' = [req EXCEPT ![r] = [q EXCEPT !.out = Append(q.out, token)]]
    BY <1>7 DEF Process
  <2>2. CachedAs(r).chunks = req[r].chunks /\ DOMAIN CachedAs(r) = DOMAIN req[r]
    BY ReqFields DEF CachedAs
  <2> QED
    BY <2>1, <2>2, ReqFields, OthersChunks
<1>8. CASE PrepareForDecode
  <2>1. req' = [r \in Requests |-> IF r \in running THEN [req[r] EXCEPT !.seq = @ + 1] ELSE req[r]]
    BY <1>8 DEF PrepareForDecode
  <2> QED
    BY <2>1, ReqFields DEF SameChunks
<1>9. CASE \E r \in Requests : Receive(r) \/ Abort(r) \/ AbortExceedSLO(r)
  BY <1>1, <1>9 DEF Receive, Abort, AbortExceedSLO
<1>10. CASE SkipPrefill \/ StopAdding \/ NothingAdded \/ NoRunningBatch \/ RunningBatchGone \/ CheckDecodeMem
  BY <1>1, <1>10 DEF SkipPrefill, StopAdding, NothingAdded, NoRunningBatch, RunningBatchGone, CheckDecodeMem
<1>11. CASE BatchProcessed \/ Completed \/ RunToCompletion \/ UNCHANGED batchVars
  BY <1>1, <1>11 DEF BatchProcessed, Completed, RunToCompletion, batchVars
<1> QED
  BY <1>2, <1>3, <1>4, <1>5, <1>6, <1>7, <1>8, <1>9, <1>10, <1>11 DEF BatchNext, LoopStep, Outside

\* What PrepareForExtend, ProcessChunk and Process do to the chunks.
LEMMA PrepareForExtendChunks ==
  ASSUME BatchTypes, PrepareForExtend, batch' # batch
  PROVE  \A r \in Requests : req'[r].chunks = IF r \in Range(adder.canRun) /\ r = inflight' THEN req[r].chunks + 1
                                             ELSE req[r].chunks
<1> DEFINE reqs == Range(adder.canRun)
           rows == Lowest(rowFree, Len(adder.canRun))
           At(r) == CHOOSE i \in DOMAIN adder.canRun : adder.canRun[i] = r
           mixed == IF IsMixedChunk THEN running ELSE {}
           flying == IF adder.inflight # None THEN adder.inflight ELSE inflight
           prepared == [r \in Requests |->
             IF r \in reqs
             THEN [req[r] EXCEPT !.row = rows[At(r)], !.seq = req[r].fill,
                                 !.chunks = IF r = flying THEN @ + 1 ELSE @]
             ELSE IF r \in mixed THEN [req[r] EXCEPT !.seq = @ + 1, !.fill = Len(Ids(r))]
             ELSE req[r]]
<1>1. req' = prepared /\ inflight' = flying
  BY DEF PrepareForExtend
<1> HIDE DEF rows, At, mixed, reqs, flying
<1>2. ASSUME NEW r \in Requests
      PROVE  prepared[r].chunks = IF r \in reqs /\ r = flying THEN req[r].chunks + 1 ELSE req[r].chunks
  BY ReqFields
<1> HIDE DEF prepared
<1> QED
  BY <1>1, <1>2 DEF reqs

\* What PrepareForExtend leaves alone.
LEMMA PrepareForExtendLeaves == PrepareForExtend => UNCHANGED <<arrived, finished, last>> /\ pc = "extend"
BY DEF PrepareForExtend

\* The steps that change the batch.
LEMMA BatchChanges ==
  ASSUME [BatchNext]_batchVars
  PROVE  UNCHANGED batch \/ PrepareForExtend \/ RunningBatchGone \/ PrepareForDecode \/ BatchProcessed
<1>1. CASE Outside \/ RunToCompletion \/ UNCHANGED batchVars
  BY <1>1 DEF Outside, Receive, Abort, AbortExceedSLO, RunToCompletion, batchVars
<1>2. CASE LoopStep
  <2>1. CASE MergeLastBatch \/ SkipPrefill \/ StopAdding \/ NothingAdded \/ NoRunningBatch \/ CheckDecodeMem \/ Completed
    BY <2>1 DEF MergeLastBatch, SkipPrefill, StopAdding, NothingAdded, NoRunningBatch, CheckDecodeMem, Completed
  <2>2. CASE \E share \in {0, 1} : BeginPrefill(share)
    BY <2>2 DEF BeginPrefill
  <2>3. CASE \E r \in Requests : AddOneReq(r) \/ Retract(r) \/ ProcessChunk(r)
    BY <2>3 DEF AddOneReq, Retract, ProcessChunk
  <2>4. CASE \E r \in Requests, token \in Sampled : Jump(r, token)
    BY <2>4 DEF Jump
  <2>5. CASE \E r \in Requests, token \in Sampled, stop \in BOOLEAN : Process(r, token, stop)
    BY <2>5 DEF Process
  <2> QED
    BY <1>2, <2>1, <2>2, <2>3, <2>4, <2>5 DEF LoopStep
<1> QED
  BY <1>1, <1>2 DEF BatchNext

\* A chunk is counted from the batch that carries it to its result.
LEMMA ChunksCountedKept ==
  ASSUME ~IsMixedChunk, Apart, ChunksCounted, Loop, BatchTypes, [BatchNext]_batchVars
  PROVE  ChunksCounted'
<1>1. CASE PrepareForExtend
  <2>0. pc = "extend"
    BY <1>1, PrepareForExtendLeaves
  <2>1. batch = NoBatch /\ \A r \in Requests : req[r].chunks = 0
    BY <2>0 DEF Loop, NoBatch, ChunksCounted
  <2>2. CASE pc' = "out_of_memory"
    <3>1. UNCHANGED <<req, inflight, batch, todo>>
      BY <1>1, <2>2 DEF PrepareForExtend
    <3> QED
      BY <3>1 DEF ChunksCounted
  <2>3. CASE pc' # "out_of_memory"
    <3>1. /\ batch'.mode = "extend" /\ todo' = Range(adder.canRun)
          /\ inflight' = IF adder.inflight # None THEN adder.inflight ELSE inflight
      BY <1>1, <2>3, PrepareForExtendMoves
    <3>2. batch # batch'
      BY <2>1, <3>1 DEF NoBatch
    <3> QED
      BY <1>1, <2>1, <3>1, <3>2, PrepareForExtendChunks DEF ChunksCounted
  <2> QED
    BY <2>2, <2>3
<1>2. ASSUME NEW r \in Requests, ProcessChunk(r) PROVE ChunksCounted'
  <2> DEFINE q == req[r]
  <2>1. /\ UNCHANGED <<inflight, batch>> /\ todo' = todo \ {r} /\ r \in todo /\ q.chunks > 0 /\ batch.mode = "extend"
        /\ req' = [req EXCEPT ![r].chunks = @ - 1]
    BY <1>2 DEF ProcessChunk, HasChunks
  <2>2. r = inflight /\ q.chunks = 1
    BY <2>1 DEF ChunksCounted
  <2>3. req'[r].chunks = 0
    <3>1. req' = [req EXCEPT ![r] = [q EXCEPT !.chunks = q.chunks - 1]]
      BY <2>1 DEF BatchTypes
    <3> HIDE DEF q
    <3>2. [q EXCEPT !.chunks = q.chunks - 1].chunks = 0
      BY <2>2, ReqFields DEF q
    <3> QED
      BY <3>1, <3>2 DEF BatchTypes
  <2>4. \A o \in Requests \ {r} : req'[o] = req[o]
    BY <2>1
  <2> QED
    BY <2>1, <2>2, <2>3, <2>4 DEF ChunksCounted
<1>3. CASE SameChunks /\ batch.mode = "extend"
  <2>1. pc = "process"
    BY <1>3 DEF Loop
  <2>2. ASSUME NEW r \in Requests, NEW token, NEW stop, Process(r, token, stop) PROVE ChunksCounted'
    <3>1. /\ UNCHANGED <<inflight, batch>> /\ todo' = todo \ {r} /\ r \in todo /\ ~(req[r].chunks > 0)
      BY <1>3, <2>2 DEF Process
    <3>2. r # inflight
      BY <1>3, <3>1 DEF ChunksCounted
    <3> QED
      BY <1>3, <3>1, <3>2 DEF SameChunks, ChunksCounted
  <2>3. CASE BatchProcessed
    BY <1>3, <2>3 DEF BatchProcessed, SameChunks, ChunksCounted, NoBatch
  <2>4. CASE UNCHANGED batchVars
    BY <1>3, <2>4 DEF batchVars, SameChunks, ChunksCounted
  <2>5. UNCHANGED batchVars \/ BatchProcessed \/ (\E r \in Requests : ProcessChunk(r))
        \/ (\E r \in Requests, token \in Sampled, stop \in BOOLEAN : Process(r, token, stop))
    BY <2>1 DEF BatchNext, LoopStep, Outside, MergeLastBatch, SkipPrefill, BeginPrefill, AddOneReq, Retract, StopAdding,
       NothingAdded, PrepareForExtend, NoRunningBatch, RunningBatchGone, CheckDecodeMem, PrepareForDecode, Jump,
       Completed, Receive, Abort, AbortExceedSLO, RunToCompletion
  <2> QED
    BY <1>2, <2>2, <2>3, <2>4, <2>5
<1>4. CASE SameChunks /\ batch.mode # "extend" /\ ~PrepareForExtend
  <2>1. \A r \in Requests : req'[r].chunks = 0
    BY <1>4 DEF SameChunks, ChunksCounted
  <2>2. batch' \in {batch, NoBatch} \/ batch'.mode = "decode"
    <3>1. UNCHANGED batch \/ RunningBatchGone \/ PrepareForDecode \/ BatchProcessed
      BY <1>4, BatchChanges
    <3>2. CASE RunningBatchGone
      BY <3>2 DEF RunningBatchGone
    <3>3. CASE PrepareForDecode
      BY <3>3 DEF PrepareForDecode
    <3>4. CASE BatchProcessed
      BY <3>4 DEF BatchProcessed
    <3> QED
      BY <3>1, <3>2, <3>3, <3>4
  <2>3. batch'.mode # "extend"
    BY <1>4, <2>2 DEF NoBatch
  <2> QED
    BY <2>1, <2>3 DEF ChunksCounted
<1> QED
  BY <1>1, <1>2, <1>3, <1>4, ChunksKept

\* A request moves from one place to another.
LEMMA ApartKept ==
  ASSUME ~IsMixedChunk, Apart, ChunksCounted, Loop, BatchTypes, [BatchNext]_batchVars
  PROVE  Apart'
<1> USE DEF NoBatch
<1>0. None \notin finished \cup waiting \cup running \cup last.reqs \cup batch.reqs \cup todo
  BY EngineAssumption DEF BatchTypes
<1>1. ASSUME NEW r \in Requests, Receive(r) PROVE Apart'
  <2>1. r \notin finished \cup waiting \cup running \cup last.reqs \cup batch.reqs \cup todo \cup {inflight} /\ r # None
    BY <1>1, EngineAssumption DEF Receive, BatchTypes
  <2> QED
    BY <1>1, <2>1 DEF Receive, Apart
<1>2. ASSUME NEW r \in Requests, Abort(r) PROVE Apart'
  <2>1. pc = "recv" /\ adder = NoAdder /\ todo = {}
    BY <1>2 DEF Abort, Loop
  <2>2. /\ UNCHANGED <<running, inflight, last, pc, adder, batch, todo>> /\ waiting' = waiting \ {r}
        /\ finished' = finished \cup ({r} \cap (waiting \cup running))
    BY <1>2 DEF Abort
  <2> QED
    BY <2>1, <2>2, EmptyRange DEF Apart
<1>3. ASSUME NEW r \in Requests, AbortExceedSLO(r) PROVE Apart'
  <2>1. pc = "adding" /\ todo = {} /\ r \in waiting \ Range(adder.canRun)
    BY <1>3 DEF AbortExceedSLO, Candidates, Loop
  <2>2. /\ UNCHANGED <<running, inflight, last, pc, adder, batch, todo>> /\ waiting' = waiting \ {r}
        /\ finished' = finished \cup {r}
    BY <1>3 DEF AbortExceedSLO
  <2> QED
    BY <2>1, <2>2 DEF Apart
<1>4. CASE MergeLastBatch
  <2>1. /\ UNCHANGED <<finished, waiting, inflight, adder, batch, todo>> /\ last'.reqs = {} /\ pc' = "prefill"
        /\ adder = NoAdder /\ todo = {}
        /\ \/ running' = running \cup (last.reqs \ (finished \cup {inflight}))
           \/ running' = running \cup last.reqs /\ (last.reqs = {} \/ inflight = None)
    BY <1>4 DEF MergeLastBatch, Loop
  <2> QED
    BY <1>0, <2>1, EmptyRange DEF Apart
<1>5. ASSUME NEW share, BeginPrefill(share) PROVE Apart'
  <2>1. UNCHANGED <<finished, waiting, running, last, batch, todo>> /\ pc' = "adding"
    BY <1>5 DEF BeginPrefill
  <2>2. Range(adder'.canRun) = {inflight} \ {None} /\ inflight' \in {inflight, None}
    BY <1>5, BeginPrefillAdds
  <2> QED
    BY <1>0, <2>1, <2>2 DEF Apart
<1>6. ASSUME NEW r \in Requests, AddOneReq(r) PROVE Apart'
  <2>1. /\ UNCHANGED <<finished, waiting, running, inflight, last, batch, todo>> /\ r \in waiting
        /\ pc' \in {"adding", "extend"}
    BY <1>6 DEF AddOneReq, Candidates
  <2>2. Range(adder'.canRun) \subseteq Range(adder.canRun) \cup {r}
    BY <1>6, AddOneReqAdds
  <2> QED
    BY <2>1, <2>2 DEF Apart
<1>7. CASE NothingAdded
  <2>1. UNCHANGED <<finished, waiting, running, inflight, last, batch, todo>> /\ adder' = NoAdder /\ pc' = "decode"
    BY <1>7 DEF NothingAdded
  <2> QED
    BY <2>1, EmptyRange DEF Apart
<1>8. CASE PrepareForExtend
  <2>0. UNCHANGED <<finished, last>> /\ pc = "extend"
    BY <1>8, PrepareForExtendLeaves
  <2>1. last.reqs = {} /\ batch.reqs = {} /\ todo = {}
    BY <2>0 DEF Loop
  <2>2. CASE pc' = "out_of_memory"
    BY <1>8, <2>0, <2>1, <2>2, PrepareForExtendMoves DEF Apart
  <2>3. CASE pc' # "out_of_memory"
    <3> DEFINE reqs == Range(adder.canRun)
    <3>1. /\ pc' = "process" /\ waiting' = waiting \ reqs /\ running' = running
          /\ inflight' = IF adder.inflight # None THEN adder.inflight ELSE inflight
          /\ batch' = [mode |-> "extend", reqs |-> reqs, decoding |-> {}]
          /\ todo' = reqs /\ adder' = NoAdder
      BY <1>8, <2>3, PrepareForExtendMoves
    <3>2. inflight' \in reqs \cup {inflight}
      BY <2>0, <3>1 DEF Loop
    <3>3. reqs \cap (running \cup finished) = {}
      BY DEF Apart
    <3> HIDE DEF reqs
    <3> QED
      BY <2>0, <2>1, <3>1, <3>2, <3>3, EmptyRange DEF Apart
  <2> QED
    BY <2>2, <2>3
<1>9. CASE SkipPrefill \/ StopAdding \/ NoRunningBatch \/ Completed
  <2>1. UNCHANGED <<finished, waiting, running, inflight, last, adder, batch, todo>>
        /\ pc' \in {"decode", "extend", "recv", "completed"}
    BY <1>9 DEF SkipPrefill, StopAdding, NoRunningBatch, Completed
  <2> QED
    BY <2>1 DEF Apart
<1>10. CASE RunningBatchGone
  <2>1. UNCHANGED <<finished, waiting, inflight, last, adder, todo>> /\ running' = {} /\ batch' = NoBatch /\ pc' = "recv"
    BY <1>10 DEF RunningBatchGone
  <2> QED
    BY <2>1 DEF Apart
<1>11. CASE CheckDecodeMem
  <2>1. /\ UNCHANGED <<finished, waiting, inflight, last, adder, batch, todo>> /\ running' = running \ finished
        /\ pc' # "process"
    BY <1>11 DEF CheckDecodeMem
  <2> QED
    BY <2>1 DEF Apart
<1>12. ASSUME NEW r \in Requests, Retract(r) \/ \E token \in Sampled : Jump(r, token) PROVE Apart'
  <2>1. /\ UNCHANGED <<finished, inflight, last, adder, batch, todo>> /\ r \in running
        /\ running' = running \ {r} /\ waiting' = waiting \cup {r} /\ pc' # "process" /\ pc \in {"retract", "jump"}
    BY <1>12 DEF Retract, Jump, Requeue
  <2> QED
    BY <2>1 DEF Apart
<1>13. CASE PrepareForDecode
  <2>1. /\ UNCHANGED <<finished, waiting, running, inflight, last, adder>> /\ pc = "jump" /\ pc' = "process"
        /\ batch' = [mode |-> "decode", reqs |-> running, decoding |-> {}] /\ todo' = running
    BY <1>13 DEF PrepareForDecode
  <2> QED
    BY <2>1 DEF Apart
<1>14. ASSUME NEW r \in Requests, ProcessChunk(r) PROVE Apart'
  BY <1>14 DEF ProcessChunk, Apart
<1>15. ASSUME NEW r \in Requests, NEW token, NEW stop, Process(r, token, stop) PROVE Apart'
  <2>1. /\ UNCHANGED <<waiting, running, inflight, last, pc, adder, batch>> /\ pc = "process" /\ todo' = todo \ {r}
        /\ finished' \in {finished, finished \cup {r}} /\ r \in todo /\ ~(batch.mode = "extend" /\ req[r].chunks > 0)
    BY <1>15 DEF Process
  <2>2. adder = NoAdder /\ todo \subseteq batch.reqs /\ batch.mode \in {"extend", "decode"}
        /\ (batch.mode = "decode" => batch.reqs = running)
    BY <2>1 DEF Loop
  <2>3. r # inflight
    BY <2>1, <2>2 DEF Apart, ChunksCounted
  <2> QED
    BY <2>1, <2>2, <2>3, EmptyRange DEF Apart
<1>16. CASE BatchProcessed
  <2>1. /\ UNCHANGED <<finished, waiting, running, inflight, adder, todo>> /\ batch' \in {batch, NoBatch}
        /\ last' = IF batch.mode = "extend" THEN batch ELSE NoBatch
        /\ pc = "process" /\ pc' \in {"recv", "decode"}
    BY <1>16 DEF BatchProcessed
  <2> QED
    BY <2>1 DEF Apart
<1>17. CASE RunToCompletion \/ UNCHANGED batchVars
  BY <1>17 DEF RunToCompletion, batchVars, Apart
<1> QED
  BY <1>1, <1>2, <1>3, <1>4, <1>5, <1>6, <1>7, <1>8, <1>9, <1>10, <1>11, <1>12, <1>13, <1>14, <1>15, <1>16, <1>17
  DEF BatchNext, LoopStep, Outside

-------------------------------------------------------------------------------
(* Who holds the locks of the tree                                         *)

\* Each request that holds locks holds those on the path to its last_node.
Nodes == [r \in Requests |-> req[r].node]
LocksHeld == Locked(tree_cache, LockHolders, Nodes)

SameNodes == \A r \in Requests : req'[r].node = req[r].node

\* The holders are requests.
LEMMA HoldersAre ==
  ASSUME BatchTypes
  PROVE  /\ Range(adder.canRun) \subseteq arrived /\ LockHolders \subseteq Requests
         /\ \A r \in Requests : Nodes[r] = req[r].node
<1>1. Range(adder.canRun) \subseteq arrived
  <2> DEFINE run == adder.canRun
  <2>1. run \in Seq(arrived)
    BY DEF BatchTypes, AdderTyped
  <2> HIDE DEF run
  <2>2. Range(run) \subseteq arrived
    BY <2>1 DEF Range
  <2> QED
    BY <2>2 DEF run
<1>2. LockHolders \subseteq arrived
  BY <1>1 DEF LockHolders, RowHolders, BatchTypes
<1> QED
  BY <1>1, <1>2 DEF BatchTypes, Nodes

\* A request that is cached and done gives its locks back.
LEMMA CacheFinishedLocks ==
  ASSUME TreeTyped, BatchTypes, LocksHeld, NEW r \in LockHolders, NEW ids, ids \in Seq(Tokens), CacheFinished(r, ids)
  PROVE  Locked(tree_cache', LockHolders \ {r}, Nodes)
<1> DEFINE slots == SubSeq(reqToToken[req[r].row], 1, Len(ids))
           grown == Insert(tree_cache, ids, slots)
<1>1. IsRadix(grown, Tokens)
  BY InsertRadix DEF TreeTyped
<1>2. Locked(grown, LockHolders, Nodes)
  BY InsertLocks DEF TreeTyped, LocksHeld
<1>3. tree_cache' = DecLock(grown, Nodes[r])
  BY HoldersAre DEF CacheFinished
<1> HIDE DEF grown
<1>4. Locked(DecLock(grown, Nodes[r]), LockHolders \ {r}, Nodes)
  BY <1>1, <1>2, DecLocks
<1> QED
  BY <1>3, <1>4

\* A request that is cached and goes on moves its locks to the path of what was cached.
LEMMA CacheUnfinishedLocks ==
  ASSUME TreeTyped, BatchTypes, LocksHeld, NEW r \in LockHolders, CacheUnfinished(r),
         NEW to, to[r] = SubSeq(Ids(r), 1, req[r].fill), \A o \in LockHolders \ {r} : to[o] = Nodes[o]
  PROVE  Locked(tree_cache', LockHolders, to)
<1> DEFINE ids == SubSeq(Ids(r), 1, req[r].fill)
           grown == Insert(tree_cache, ids, reqToToken[req[r].row])
           given == DecLock(grown, Nodes[r])
           H == LockHolders \ {r}
<1>0. r \in Requests /\ Nodes[r] = req[r].node
  BY HoldersAre
<1>1. ids \in Seq(Tokens)
  BY <1>0, IdsTyped
<1>2. tree_cache' = IncLock(given, ids)
  BY <1>0 DEF CacheUnfinished
<1>3. to[r] = ids
  OBVIOUS
<1> HIDE DEF ids
<1>4. IsRadix(grown, Tokens)
  BY <1>1, InsertRadix DEF TreeTyped
<1>5. Locked(grown, LockHolders, Nodes) /\ ids \in grown.nodes \cup {<<>>}
  BY <1>1, InsertLocks DEF TreeTyped, LocksHeld
<1> HIDE DEF grown
<1>6. IsRadix(given, Tokens) /\ given.nodes = grown.nodes
  BY <1>4, LockRadix
<1>7. Locked(given, H, Nodes)
  BY <1>4, <1>5, DecLocks
<1> HIDE DEF given
<1>8. r \notin H /\ \A o \in H : to[o] = Nodes[o]
  OBVIOUS
<1>9. H \cup {r} = LockHolders
  OBVIOUS
<1>10. ids \in given.nodes \cup {<<>>}
  BY <1>5, <1>6
<1> HIDE DEF H
<1>11. Locked(IncLock(given, ids), H \cup {r}, to)
  BY <1>3, <1>6, <1>7, <1>8, <1>10, IncLocks
<1> QED
  BY <1>2, <1>9, <1>11

\* An eviction takes no lock.
LEMMA EvictedLocks ==
  ASSUME NEW t, IsRadix(t, Tokens), NEW H, NEW at, Locked(t, H, at), NEW n, NEW N, N \in Evictions(t, n) \/ N = {}
  PROVE  Locked(Without(t, N), H, at)
BY EvictionsClosed, WithoutLocks

\* What is to be shown of a step: the tree counts the new holders at the nodes they were at.
LEMMA LocksMoved ==
  ASSUME NEW H \in SUBSET Requests, NEW at, Locked(tree_cache', H, at), H = LockHolders', \A r \in H : req'[r].node = at[r]
  PROVE  LocksHeld'
<1> DEFINE to == Nodes'
<1>1. \A r \in H : to[r] = at[r]
  BY DEF Nodes
<1> HIDE DEF to
<1>2. Locked(tree_cache', H, to)
  BY <1>1, SameLocks
<1> QED
  BY <1>2 DEF LocksHeld, to

\* The usual case: nobody has moved.
LEMMA LocksStay ==
  ASSUME BatchTypes, NEW H \in SUBSET LockHolders, Locked(tree_cache', H, Nodes), H = LockHolders', SameNodes
  PROVE  LocksHeld'
<1>1. H \in SUBSET Requests /\ \A r \in H : req'[r].node = Nodes[r]
  BY HoldersAre DEF SameNodes
<1> QED
  BY <1>1, LocksMoved

\* A change of other fields of a request leaves its node.
LEMMA OthersNodes ==
  ASSUME BatchTypes, NEW r \in Requests, NEW q, req' = [req EXCEPT ![r] = q], q.node = req[r].node
  PROVE  SameNodes
BY DEF BatchTypes, SameNodes

\* With the queue matched up front, the chunk of the request in flight goes on from the node it had.
LEMMA BeginPrefillNodes ==
  ASSUME PrefixAware, BatchTypes, NEW share, BeginPrefill(share)
  PROVE  SameNodes
<1> DEFINE r == inflight
           mixed == IF IsMixedChunk THEN Cardinality(running) ELSE 0
           empty == [NoAdder EXCEPT !.total = Available - mixed - Reserve(share), !.cur = Available - mixed,
                                    !.input = MaxPrefillTokens - mixed, !.chunk = ChunkedPrefillSize - mixed]
           prefix == IF PrefixAware THEN req[r].prefix
                     ELSE SlotsOf(tree_cache, Cached(tree_cache, MatchKey(r)))
           node == IF PrefixAware THEN req[r].node ELSE Cached(tree_cache, MatchKey(r))
           fill == Len(prefix) + Lesser(Len(Ids(r)) - Len(prefix), empty.chunk)
           begun == [req EXCEPT ![r].prefix = prefix, ![r].node = node, ![r].fill = fill]
<1>1. CASE r # None
  <2>1. req' = begun
    BY <1>1 DEF BeginPrefill
  <2>2. r \in Requests
    BY <1>1 DEF BatchTypes
  <2>3. node = req[r].node
    OBVIOUS
  <2> HIDE DEF prefix, node, fill
  <2> DEFINE q == [req[r] EXCEPT !.prefix = prefix, !.node = node, !.fill = fill]
  <2>4. begun = [req EXCEPT ![r] = q] /\ q.node = node
    BY <2>2, ReqFields DEF BatchTypes
  <2> HIDE DEF q, begun
  <2> QED
    BY <2>1, <2>2, <2>3, <2>4, OthersNodes
<1>2. CASE r = None
  <2>1. UNCHANGED req
    BY <1>2 DEF BeginPrefill
  <2> HIDE DEF r, mixed, empty, prefix, node, fill, begun
  <2> QED
    BY <2>1 DEF SameNodes
<1> QED
  BY <1>1, <1>2

\* A batch that is prepared changes no node.
LEMMA PrepareForExtendNodes ==
  ASSUME BatchTypes, PrepareForExtend
  PROVE  SameNodes
<1> DEFINE reqs == Range(adder.canRun)
           rows == Lowest(rowFree, Len(adder.canRun))
           At(r) == CHOOSE i \in DOMAIN adder.canRun : adder.canRun[i] = r
           mixed == IF IsMixedChunk THEN running ELSE {}
           flying == IF adder.inflight # None THEN adder.inflight ELSE inflight
           prepared == [r \in Requests |->
             IF r \in reqs
             THEN [req[r] EXCEPT !.row = rows[At(r)], !.seq = req[r].fill,
                                 !.chunks = IF r = flying THEN @ + 1 ELSE @]
             ELSE IF r \in mixed THEN [req[r] EXCEPT !.seq = @ + 1, !.fill = Len(Ids(r))]
             ELSE req[r]]
<1>1. UNCHANGED req \/ req' = prepared
  BY DEF PrepareForExtend
<1> HIDE DEF rows, At, mixed, reqs, flying
<1>2. ASSUME NEW r \in Requests PROVE prepared[r].node = req[r].node
  BY ReqFields
<1> HIDE DEF prepared
<1> QED
  BY <1>1, <1>2 DEF SameNodes

\* A request that is cached is at the node of what was cached.
LEMMA CachedAsNode ==
  ASSUME BatchTypes, NEW r \in Requests
  PROVE  CachedAs(r).node = SubSeq(Ids(r), 1, req[r].fill) /\ DOMAIN CachedAs(r) = DOMAIN req[r]
<1> DEFINE ids == SubSeq(Ids(r), 1, req[r].fill)
           prefix == SlotsOf(Insert(tree_cache, ids, reqToToken[req[r].row]), ids)
           q == req[r]
<1>1. CachedAs(r) = [q EXCEPT !.prefix = prefix, !.node = ids]
  BY DEF CachedAs
<1>2. DOMAIN q = {"out", "prefix", "node", "row", "fill", "seq", "chunks"}
  BY ReqFields
<1> HIDE DEF ids, prefix, q
<1> QED
  BY <1>1, <1>2 DEF ids, q

\* A token added to the output of a request changes no node.
LEMMA OutputNodes ==
  ASSUME BatchTypes, NEW r \in Requests, NEW q, DOMAIN q = DOMAIN req[r], NEW out
  PROVE  [q EXCEPT !.out = out].node = q.node
BY ReqFields

\* Steps that leave the tree, the holders and their nodes.
LEMMA LocksSame ==
  ASSUME BatchTypes, LocksHeld, UNCHANGED tree_cache, SameNodes, LockHolders' = LockHolders
  PROVE  LocksHeld'
<1>1. Locked(tree_cache', LockHolders, Nodes)
  BY DEF LocksHeld
<1> QED
  BY <1>1, LocksStay

\* A request in the batch prefilled last that has chunks to come moves to the node its chunk ends at.
LEMMA MergeLastBatchLocks ==
  ASSUME TreeTyped, BatchTypes, Loop, LocksHeld, MergeLastBatch
  PROVE  LocksHeld'
<1>1. /\ UNCHANGED <<finished, inflight, adder, batch>> /\ pc = "recv" /\ pc' = "prefill" /\ last'.reqs = {}
  BY DEF MergeLastBatch, NoBatch
<1>2. CASE last.reqs # {} /\ inflight # None
  <2> DEFINE r == inflight
             ids == SubSeq(Ids(r), 1, req[r].fill)
             to == [Nodes EXCEPT ![r] = ids]
  <2>1. r \in last.reqs /\ r \in Requests /\ r \in LockHolders
    BY <1>2 DEF Loop, BatchTypes, LockHolders
  <2>2. /\ running' = running \cup (last.reqs \ (finished \cup {r})) /\ CacheUnfinished(r)
        /\ req' = [req EXCEPT ![r] = CachedAs(r)]
    BY <1>2 DEF MergeLastBatch
  <2>3. LockHolders' = LockHolders
    BY <1>1, <1>2, <2>1, <2>2 DEF LockHolders, RowHolders
  <2>4. to[r] = ids /\ \A o \in LockHolders \ {r} : to[o] = Nodes[o]
    <3> HIDE DEF r, ids
    <3> QED
      BY <2>1, HoldersAre DEF Nodes
  <2>5. CachedAs(r).node = ids
    BY <2>1, CachedAsNode
  <2>6. \A o \in LockHolders : req'[o].node = to[o]
    BY <2>1, <2>2, <2>4, <2>5, HoldersAre DEF BatchTypes
  <2> HIDE DEF r, to
  <2>7. Locked(tree_cache', LockHolders, to)
    BY <2>1, <2>2, <2>4, CacheUnfinishedLocks
  <2> QED
    BY <2>3, <2>6, <2>7, HoldersAre, LocksMoved
<1>3. CASE ~(last.reqs # {} /\ inflight # None)
  <2>1. running' = running \cup last.reqs /\ UNCHANGED <<tree_cache, req>>
    BY <1>3 DEF MergeLastBatch, memory
  <2>2. LockHolders' = LockHolders
    BY <1>1, <2>1 DEF LockHolders, RowHolders
  <2> QED
    BY <2>1, <2>2, LocksSame DEF SameNodes
<1> QED
  BY <1>2, <1>3

\* The edges that the queue's matches end in are split, and nobody moves.
LEMMA BeginPrefillLocks ==
  ASSUME PrefixAware, TreeTyped, BatchTypes, Loop, LocksHeld, NEW share, BeginPrefill(share)
  PROVE  LocksHeld'
<1> DEFINE keys == {MatchKey(w) : w \in waiting}
           split == Split(tree_cache, keys)
<1>1. UNCHANGED <<finished, running, last, batch>> /\ pc = "prefill" /\ pc' = "adding" /\ tree_cache' = split
  BY DEF BeginPrefill
<1>2. keys \subseteq Seq(Tokens)
  <2>1. \A w \in waiting : w \in Requests
    BY DEF BatchTypes
  <2> QED
    BY <2>1, IdsTyped
<1> HIDE DEF keys
<1>3. Locked(split, LockHolders, Nodes)
  BY <1>2, SplitLocks DEF TreeTyped, LocksHeld
<1> HIDE DEF split
<1>4. Range(adder.canRun) = {} /\ Range(adder'.canRun) = {inflight} \ {None} /\ inflight' \in {inflight, None}
  BY <1>1, BeginPrefillAdds, EmptyRange DEF Loop
<1>5. LockHolders' = LockHolders
  BY <1>1, <1>4 DEF LockHolders, RowHolders
<1>6. Locked(tree_cache', LockHolders, Nodes)
  BY <1>1, <1>3
<1> QED
  BY <1>5, <1>6, BeginPrefillNodes, LocksStay

\* A request that is added locks the path to what it matches; one that is refused leaves the edge split.
LEMMA AddOneReqLocks ==
  ASSUME TreeTyped, BatchTypes, Loop, Apart, LocksHeld, NEW r \in Requests, AddOneReq(r)
  PROVE  LocksHeld'
<1> DEFINE key == MatchKey(r)
           split == Split(tree_cache, {key})
           node == Cached(tree_cache, key)
           locked == IncLock(split, node)
           prefix == SlotsOf(split, node)
           extend == Len(Ids(r)) - Len(node)
           whole == extend <= adder.chunk
           n == IF whole THEN extend ELSE adder.chunk
           fill == Len(node) + n
           room == adder.total + (locked.evictable - split.evictable)
           taken == Take([adder EXCEPT !.total = room], r, n, IF whole THEN MaxNewTokens(r) ELSE 0)
           fitted == [taken EXCEPT !.inflight = IF whole THEN taken.inflight ELSE r]
           moved == [req EXCEPT ![r].prefix = prefix, ![r].node = node, ![r].fill = fill]
<1>1. /\ UNCHANGED <<finished, running, inflight, last, batch>> /\ pc = "adding" /\ pc' # "process"
      /\ r \in waiting \ Range(adder.canRun)
  BY DEF AddOneReq, Candidates
<1>2. \/ tree_cache' = split /\ adder' = adder /\ req' = req
      \/ tree_cache' = locked /\ adder' = fitted /\ req' = moved
  BY DEF AddOneReq
<1>3. key \in Seq(Tokens)
  BY IdsTyped
<1>4. Range(fitted.canRun) = Range(adder.canRun) \cup {r}
  <2>1. fitted.canRun = Append(adder.canRun, r)
    <3> HIDE DEF n, room, whole
    <3> QED
      BY DEF BatchTypes, AdderTyped, NoAdder, Take
  <2> QED
    BY <2>1, AppendRange DEF BatchTypes, AdderTyped
<1> HIDE DEF key, prefix, fill, fitted
<1>5. IsRadix(split, Tokens) /\ Locked(split, LockHolders, Nodes) /\ node \in split.nodes \cup {<<>>}
  <2> DEFINE keys == {key}
             s == Split(tree_cache, keys)
  <2>1. keys \subseteq Seq(Tokens) /\ key \in keys
    BY <1>3
  <2> HIDE DEF keys
  <2>2. IsRadix(s, Tokens) /\ Locked(s, LockHolders, Nodes)
    BY <2>1, SplitRadix, SplitLocks DEF TreeTyped, LocksHeld
  <2>3. s.nodes = tree_cache.nodes \cup ({Cached(tree_cache, k) : k \in keys} \ {<<>>})
    BY <2>1, SplitRadix DEF TreeTyped
  <2> QED
    BY <2>1, <2>2, <2>3 DEF keys
<1> HIDE DEF split, node
<1>6. CASE tree_cache' = split /\ adder' = adder /\ req' = req
  <2>1. LockHolders' = LockHolders /\ SameNodes
    BY <1>1, <1>6 DEF LockHolders, RowHolders, Loop, SameNodes
  <2>2. Locked(tree_cache', LockHolders, Nodes)
    BY <1>5, <1>6
  <2> QED
    BY <2>1, <2>2, LocksStay
<1>7. CASE tree_cache' = locked /\ adder' = fitted /\ req' = moved
  <2> DEFINE to == [Nodes EXCEPT ![r] = node]
             H == LockHolders \cup {r}
  <2>1. H = LockHolders'
    BY <1>1, <1>4, <1>7 DEF LockHolders, RowHolders, Loop
  <2>2. r \notin LockHolders
    BY <1>1 DEF LockHolders, RowHolders, Apart
  <2>3. to[r] = node /\ \A o \in LockHolders : to[o] = Nodes[o]
    BY <2>2 DEF Nodes
  <2>4. \A o \in Requests : moved[o].node = IF o = r THEN node ELSE req[o].node
    <3> DEFINE q == req[r]
               new == [q EXCEPT !.prefix = prefix, !.node = node, !.fill = fill]
    <3>1. new.node = node
      BY ReqFields
    <3>2. \A o \in Requests : moved[o] = IF o = r THEN new ELSE req[o]
      BY DEF BatchTypes
    <3> HIDE DEF new, moved
    <3> QED
      BY <3>1, <3>2
  <2> HIDE DEF moved
  <2>5. H \in SUBSET Requests /\ \A o \in H : req'[o].node = to[o]
    BY <1>7, <2>3, <2>4, HoldersAre
  <2> HIDE DEF to
  <2>6. Locked(locked, H, to)
    BY <1>5, <2>2, <2>3, IncLocks
  <2>7. Locked(tree_cache', H, to)
    BY <1>7, <2>6
  <2> HIDE DEF H
  <2> QED
    BY <2>1, <2>5, <2>7, LocksMoved
<1> QED
  BY <1>2, <1>6, <1>7

\* A batch is prepared with what was added, in the room that the evictions make.
LEMMA PrepareForExtendLocks ==
  ASSUME ~IsMixedChunk, TreeTyped, BatchTypes, Loop, Apart, LocksHeld, PrepareForExtend
  PROVE  LocksHeld'
<1>1. UNCHANGED <<finished, last>> /\ pc = "extend"
  BY PrepareForExtendLeaves
<1>2. LockHolders' = LockHolders
  <2> DEFINE reqs == Range(adder.canRun)
  <2>1. last.reqs = {} /\ reqs \cap finished = {} /\ inflight \in reqs \cup {None} /\ adder.inflight \in reqs \cup {None}
    BY <1>1 DEF Loop, Apart, NoBatch
  <2>2. CASE pc' = "out_of_memory"
    <3>1. UNCHANGED <<running, inflight, batch, adder>>
      BY <2>2, PrepareForExtendMoves
    <3> QED
      BY <1>1, <2>2, <3>1 DEF LockHolders, RowHolders
  <2>3. CASE pc' # "out_of_memory"
    <3>1. /\ pc' = "process" /\ running' = running /\ batch'.reqs = reqs /\ adder' = NoAdder
          /\ inflight' = IF adder.inflight # None THEN adder.inflight ELSE inflight
      BY <2>3, PrepareForExtendMoves
    <3> HIDE DEF reqs
    <3>2. LockHolders' = (running \ finished) \cup reqs
      BY <1>1, <2>1, <3>1, EmptyRange DEF LockHolders, RowHolders
    <3>3. LockHolders = (running \ finished) \cup reqs
      BY <1>1, <2>1 DEF LockHolders, RowHolders, reqs
    <3> QED
      BY <3>2, <3>3
  <2> QED
    BY <2>2, <2>3
<1>3. UNCHANGED tree_cache \/ \E n : \E N \in RoomFor(n) : tree_cache' = Without(tree_cache, N)
  BY DEF PrepareForExtend, memory
<1>4. Locked(tree_cache', LockHolders, Nodes)
  BY <1>3, RoomForClosed, EvictedLocks DEF LocksHeld, TreeTyped
<1> QED
  BY <1>2, <1>4, PrepareForExtendNodes, LocksStay

\* A request that is retracted gives its locks back, before what that unlocks is evicted.
LEMMA RetractLocks ==
  ASSUME TreeTyped, BatchTypes, Loop, Apart, LocksHeld, NEW r \in Requests, Retract(r)
  PROVE  LocksHeld'
<1> DEFINE unlocked == DecLock(tree_cache, Nodes[r])
           H == LockHolders \ {r}
           given == [req EXCEPT ![r].prefix = <<>>, ![r].node = <<>>]
<1>1. /\ UNCHANGED <<finished, inflight, last, adder, batch>> /\ pc = "retract" /\ pc' # "process"
      /\ r \in running /\ running' = running \ {r} /\ req' = given
  BY DEF Retract
<1>2. r \in LockHolders /\ r # inflight /\ last.reqs = {} /\ adder = NoAdder
  BY <1>1 DEF LockHolders, RowHolders, Apart, Loop, NoBatch
<1>3. H = LockHolders'
  BY <1>1, <1>2, EmptyRange DEF LockHolders, RowHolders
<1>4. \E n : \E N : (N \in Evictions(unlocked, n) \/ N = {}) /\ tree_cache' = Without(unlocked, N)
  BY DEF Retract, Nodes
<1>5. IsRadix(unlocked, Tokens) /\ Locked(unlocked, H, Nodes)
  BY <1>2, LockRadix, DecLocks DEF TreeTyped, LocksHeld
<1> HIDE DEF unlocked
<1>6. \A o \in H : req'[o].node = Nodes[o]
  <2>1. \A o \in Requests \ {r} : given[o] = req[o]
    BY DEF BatchTypes
  <2> HIDE DEF given
  <2> QED
    BY <1>1, <2>1, HoldersAre
<1>7. Locked(tree_cache', H, Nodes)
  BY <1>4, <1>5, EvictedLocks
<1>8. H \in SUBSET Requests
  BY HoldersAre
<1> HIDE DEF H
<1> QED
  BY <1>3, <1>6, <1>7, <1>8, LocksMoved

\* A request that jumps forward is cached, and gives its locks back until it is prefilled again.
LEMMA JumpLocks ==
  ASSUME TreeTyped, BatchTypes, Loop, Apart, LocksHeld, NEW r \in Requests, NEW token, Jump(r, token)
  PROVE  LocksHeld'
<1> DEFINE q == req[r]
           longer == [q EXCEPT !.out = Append(q.out, token)]
           H == LockHolders \ {r}
<1>1. /\ UNCHANGED <<finished, inflight, last, adder, batch, pc>> /\ pc = "jump" /\ CacheFinished(r, MatchKey(r))
      /\ r \in running /\ running' = running \ {r} /\ req' = [req EXCEPT ![r].out = Append(@, token)]
  BY DEF Jump
<1>2. r \in LockHolders /\ r # inflight /\ last.reqs = {} /\ adder = NoAdder
  BY <1>1 DEF LockHolders, RowHolders, Apart, Loop, NoBatch
<1>3. H = LockHolders'
  BY <1>1, <1>2, EmptyRange DEF LockHolders, RowHolders
<1>4. req' = [req EXCEPT ![r] = longer]
  BY <1>1 DEF BatchTypes
<1>5. longer.node = req[r].node
  BY OutputNodes
<1> HIDE DEF longer
<1>6. SameNodes
  BY <1>4, <1>5, OthersNodes
<1>7. Locked(tree_cache', H, Nodes)
  BY <1>1, <1>2, IdsTyped, CacheFinishedLocks
<1>8. H \in SUBSET LockHolders
  OBVIOUS
<1> HIDE DEF H
<1> QED
  BY <1>3, <1>6, <1>7, <1>8, LocksStay

\* A result ends a request, which gives its locks back, or moves it on to the node of what it has cached.
LEMMA ProcessLocks ==
  ASSUME TreeTyped, BatchTypes, Loop, Apart, ChunksCounted, LocksHeld,
         NEW r \in Requests, NEW token, NEW stop, Process(r, token, stop)
  PROVE  LocksHeld'
<1> DEFINE done == r \in finished \/ stop \/ Len(req[r].out) + 1 >= MaxNewTokens(r)
           kept == ~done /\ batch.mode = "extend" /\ r \notin batch.decoding
           q == IF kept THEN CachedAs(r) ELSE req[r]
           longer == [q EXCEPT !.out = Append(q.out, token)]
<1>1. /\ UNCHANGED <<running, inflight, last, adder, batch, pc>> /\ pc = "process" /\ r \in todo
      /\ finished' = IF done THEN finished \cup {r} ELSE finished
      /\ req' = [req EXCEPT ![r] = longer]
      /\ ~(batch.mode = "extend" /\ req[r].chunks > 0)
  BY DEF Process
<1>2. r \in batch.reqs /\ r \notin finished /\ r # inflight /\ adder = NoAdder /\ last.reqs = {}
  BY <1>1 DEF Loop, Apart, ChunksCounted, NoBatch
<1>3. r \in LockHolders
  BY <1>1, <1>2 DEF LockHolders, RowHolders
<1>4. DOMAIN q = DOMAIN req[r] /\ q.node = IF kept THEN SubSeq(Ids(r), 1, req[r].fill) ELSE req[r].node
  BY CachedAsNode
<1> HIDE DEF q
<1>5. longer.node = q.node
  BY <1>4, OutputNodes
<1> HIDE DEF longer, kept, done
<1>6. CASE done
  <2> DEFINE H == LockHolders \ {r}
  <2>1. CacheFinished(r, Ids(r)) /\ ~kept
    BY <1>6 DEF Process, done, kept
  <2>2. H = LockHolders'
    BY <1>1, <1>2, <1>6, EmptyRange DEF LockHolders, RowHolders
  <2>3. Locked(tree_cache', H, Nodes)
    BY <1>3, <2>1, IdsTyped, CacheFinishedLocks
  <2>4. SameNodes
    BY <1>1, <1>4, <1>5, <2>1, OthersNodes
  <2>5. H \in SUBSET LockHolders
    OBVIOUS
  <2> HIDE DEF H
  <2> QED
    BY <2>2, <2>3, <2>4, <2>5, LocksStay
<1>7. CASE kept
  <2> DEFINE to == [Nodes EXCEPT ![r] = longer.node]
  <2>1. CacheUnfinished(r) /\ ~done
    BY <1>7 DEF Process, done, kept
  <2>2. LockHolders' = LockHolders
    BY <1>1, <2>1 DEF LockHolders, RowHolders
  <2>3. to[r] = SubSeq(Ids(r), 1, req[r].fill) /\ \A o \in LockHolders \ {r} : to[o] = Nodes[o]
    BY <1>4, <1>5, <1>7, HoldersAre DEF Nodes
  <2>4. \A o \in LockHolders : req'[o].node = to[o]
    <3>1. \A o \in Requests : req'[o] = IF o = r THEN longer ELSE req[o]
      BY <1>1 DEF BatchTypes
    <3>2. to[r] = longer.node
      BY DEF Nodes
    <3> HIDE DEF to
    <3> QED
      BY <2>3, <3>1, <3>2, HoldersAre
  <2> HIDE DEF to
  <2>5. Locked(tree_cache', LockHolders, to)
    BY <1>3, <2>1, <2>3, CacheUnfinishedLocks
  <2> QED
    BY <2>2, <2>4, <2>5, HoldersAre, LocksMoved
<1>8. CASE ~done /\ ~kept
  <2>1. UNCHANGED memory
    BY <1>8 DEF Process, done, kept
  <2>2. LockHolders' = LockHolders
    BY <1>1, <1>8 DEF LockHolders, RowHolders
  <2>3. SameNodes
    BY <1>1, <1>4, <1>5, <1>8, OthersNodes
  <2> QED
    BY <2>1, <2>2, <2>3, LocksSame DEF memory
<1> QED
  BY <1>6, <1>7, <1>8

\* A running request that is aborted is cached and gives its locks back; one that waits has none.
LEMMA AbortLocks ==
  ASSUME TreeTyped, BatchTypes, Loop, Apart, LocksHeld, NEW r \in Requests, Abort(r)
  PROVE  LocksHeld'
<1>1. /\ UNCHANGED <<req, running, inflight, last, pc, adder, batch>> /\ pc = "recv"
      /\ finished' = finished \cup ({r} \cap (waiting \cup running))
  BY DEF Abort
<1>2. SameNodes
  BY <1>1 DEF SameNodes
<1>3. adder = NoAdder
  BY <1>1 DEF Loop
<1>4. CASE r \in running \ finished
  <2> DEFINE H == LockHolders \ {r}
  <2>1. CacheFinished(r, MatchKey(r))
    BY <1>4 DEF Abort, ReleaseAborted
  <2>2. r \in LockHolders /\ r # inflight
    BY <1>4 DEF LockHolders, RowHolders, Apart
  <2>3. H = LockHolders'
    BY <1>1, <1>3, <1>4, <2>2, EmptyRange DEF LockHolders, RowHolders
  <2>4. Locked(tree_cache', H, Nodes)
    BY <2>1, <2>2, IdsTyped, CacheFinishedLocks
  <2>5. H \in SUBSET LockHolders
    OBVIOUS
  <2> HIDE DEF H
  <2> QED
    BY <1>2, <2>3, <2>4, <2>5, LocksStay
<1>5. CASE r \notin running \ finished
  <2>1. UNCHANGED memory
    BY <1>5 DEF Abort, ReleaseAborted
  <2>2. LockHolders' = LockHolders
    BY <1>1, <1>5 DEF LockHolders, RowHolders, Apart
  <2> QED
    BY <1>2, <2>1, <2>2, LocksSame DEF memory
<1> QED
  BY <1>4, <1>5

\* Each step leaves the locks as the holders need them.
LEMMA LocksKept ==
  ASSUME PrefixAware, ~IsMixedChunk, TreeTyped, BatchTypes, Loop, Apart, ChunksCounted, LocksHeld, [BatchNext]_batchVars
  PROVE  LocksHeld'
<1>1. ASSUME NEW r \in Requests, Receive(r) \/ AbortExceedSLO(r) PROVE LocksHeld'
  <2>1. /\ UNCHANGED <<memory, req, running, inflight, last, pc, adder, batch>>
        /\ finished' = finished \/ (r \in waiting \ Range(adder.canRun) /\ pc = "adding" /\ finished' = finished \cup {r})
    BY <1>1 DEF Receive, AbortExceedSLO, Candidates
  <2>2. LockHolders' = LockHolders
    BY <2>1 DEF LockHolders, RowHolders, Apart
  <2> QED
    BY <2>1, <2>2, LocksSame DEF memory, SameNodes
<1>2. CASE SkipPrefill \/ StopAdding \/ NoRunningBatch \/ Completed \/ RunToCompletion
  <2>1. /\ UNCHANGED <<memory, req, finished, running, inflight, last, adder, batch>>
        /\ pc # "process" /\ pc' # "process"
    BY <1>2 DEF SkipPrefill, StopAdding, NoRunningBatch, Completed, RunToCompletion
  <2>2. LockHolders' = LockHolders
    BY <2>1 DEF LockHolders, RowHolders
  <2> QED
    BY <2>1, <2>2, LocksSame DEF memory, SameNodes
<1>3. CASE NothingAdded
  <2>1. /\ UNCHANGED <<memory, req, finished, running, inflight, last, batch>> /\ adder' = NoAdder
        /\ adder.canRun = NoAdder.canRun /\ pc # "process" /\ pc' # "process"
    BY <1>3 DEF NothingAdded, NoAdder
  <2>2. LockHolders' = LockHolders
    BY <2>1 DEF LockHolders, RowHolders
  <2> QED
    BY <2>1, <2>2, LocksSame DEF memory, SameNodes
<1>4. CASE RunningBatchGone
  <2>1. /\ UNCHANGED <<memory, req, finished, inflight, last, adder>> /\ running \subseteq finished /\ running' = {}
        /\ pc # "process" /\ pc' # "process"
    BY <1>4 DEF RunningBatchGone
  <2>2. LockHolders' = LockHolders
    BY <2>1 DEF LockHolders, RowHolders
  <2> QED
    BY <2>1, <2>2, LocksSame DEF memory, SameNodes
<1>5. CASE CheckDecodeMem
  <2>1. /\ UNCHANGED <<req, finished, inflight, last, adder, batch>> /\ running' = running \ finished
        /\ pc # "process" /\ pc' # "process"
    BY <1>5 DEF CheckDecodeMem
  <2>2. LockHolders' = LockHolders
    BY <2>1 DEF LockHolders, RowHolders
  <2>3. \E n : \E N \in RoomFor(n) : tree_cache' = Without(tree_cache, N)
    BY <1>5 DEF CheckDecodeMem
  <2>4. Locked(tree_cache', LockHolders, Nodes)
    BY <2>3, RoomForClosed, EvictedLocks DEF LocksHeld, TreeTyped
  <2>5. SameNodes
    BY <2>1 DEF SameNodes
  <2> QED
    BY <2>2, <2>4, <2>5, LocksStay
<1>6. CASE PrepareForDecode
  <2>1. /\ UNCHANGED <<tree_cache, finished, running, inflight, last, adder>> /\ batch'.reqs = running
        /\ pc = "jump" /\ pc' = "process"
        /\ req' = [r \in Requests |-> IF r \in running THEN [req[r] EXCEPT !.seq = @ + 1] ELSE req[r]]
    BY <1>6 DEF PrepareForDecode
  <2>2. LockHolders' = LockHolders
    BY <2>1 DEF LockHolders, RowHolders
  <2>3. SameNodes
    BY <2>1, ReqFields DEF SameNodes
  <2> QED
    BY <2>1, <2>2, <2>3, LocksSame
<1>7. ASSUME NEW r \in Requests, ProcessChunk(r) PROVE LocksHeld'
  <2> DEFINE q == req[r]
             less == [q EXCEPT !.chunks = q.chunks - 1]
  <2>1. UNCHANGED <<memory, finished, running, inflight, last, pc, adder, batch>>
        /\ req' = [req EXCEPT ![r].chunks = @ - 1]
    BY <1>7 DEF ProcessChunk
  <2>2. req' = [req EXCEPT ![r] = less]
    BY <2>1 DEF BatchTypes
  <2>3. less.node = q.node
    BY ReqFields
  <2> HIDE DEF less
  <2>4. SameNodes
    BY <2>2, <2>3, OthersNodes
  <2>5. LockHolders' = LockHolders
    BY <2>1 DEF LockHolders, RowHolders
  <2> QED
    BY <2>1, <2>4, <2>5, LocksSame DEF memory
<1>8. CASE BatchProcessed
  <2>1. /\ UNCHANGED <<memory, req, finished, running, inflight, adder>> /\ pc = "process" /\ pc' # "process"
        /\ last' = IF batch.mode = "extend" THEN batch ELSE NoBatch
    BY <1>8 DEF BatchProcessed
  <2>2. last.reqs = {} /\ (batch.mode # "extend" => batch.reqs = running)
    BY <2>1 DEF Loop, NoBatch
  <2>3. LockHolders' = LockHolders
    BY <2>1, <2>2 DEF LockHolders, RowHolders, NoBatch
  <2> QED
    BY <2>1, <2>3, LocksSame DEF memory, SameNodes
<1>9. CASE UNCHANGED batchVars
  <2>1. UNCHANGED <<tree_cache, req, finished, running, inflight, last, pc, adder, batch>>
    BY <1>9 DEF batchVars
  <2>2. LockHolders' = LockHolders
    BY <2>1 DEF LockHolders, RowHolders
  <2> QED
    BY <2>1, <2>2, LocksSame DEF SameNodes
<1> QED
  BY <1>1, <1>2, <1>3, <1>4, <1>5, <1>6, <1>7, <1>8, <1>9, AbortLocks, MergeLastBatchLocks, BeginPrefillLocks,
     AddOneReqLocks, PrepareForExtendLocks, RetractLocks, JumpLocks, ProcessLocks
  DEF BatchNext, LoopStep, Outside

\* With the code's defaults, a policy that matches the queue up front and no mixed batches, the locks are in the invariant.
LockInv == EngineInv /\ Apart /\ ChunksCounted /\ LocksHeld

\* An engine that has received nothing holds nothing.
LEMMA LockInvInitially ==
  ASSUME BatchInit
  PROVE  LockInv
<1>1. Apart /\ ChunksCounted
  <2>1. \A r \in Requests : NewReq.chunks = 0
    BY DEF NewReq
  <2> QED
    BY <2>1, EmptyRange, EngineAssumption DEF BatchInit, Apart, ChunksCounted, NoBatch
<1>2. LocksHeld
  <2> DEFINE H == LockHolders
             t == EmptyTree
  <2>1. H = {} /\ tree_cache = t
    BY EmptyRange DEF BatchInit, LockHolders, RowHolders, NoBatch
  <2>2. t.nodes = {} /\ DOMAIN t.value = {} /\ t.evictable = 0
    BY DEF EmptyTree
  <2> HIDE DEF H, t
  <2>3. Locked(t, H, Nodes)
    BY <2>1, <2>2, FS_EmptySet DEF Locked
  <2> QED
    BY <2>1, <2>3 DEF LocksHeld, H
<1> QED
  BY <1>1, <1>2, EngineInvInitially DEF LockInv

\* The locks count the requests that use the nodes: what a request computes on is never evicted, and evictable_size_, which
\* admission and retraction go by, is what can be evicted.
THEOREM LocksCounted == PrefixAware /\ ~IsMixedChunk /\ BatchSpec => []LocksCountUsers
<1> SUFFICES ASSUME PrefixAware, ~IsMixedChunk PROVE BatchSpec => []LocksCountUsers
  OBVIOUS
<1>1. BatchInit => LockInv
  BY LockInvInitially
<1>2. LockInv /\ [BatchNext]_batchVars => LockInv'
  BY EngineInvKept, ApartKept, ChunksCountedKept, LocksKept DEF LockInv, EngineInv
<1>3. LockInv => LocksCountUsers
  <2> SUFFICES ASSUME LockInv PROVE LocksCountUsers
    OBVIOUS
  <2>1. Edges(tree_cache, {n \in tree_cache.nodes : tree_cache.lock[n] = 0}) = DOMAIN tree_cache.value \ Held(LockHolders, Nodes)
    BY UnlockedEdges DEF LockInv, EngineInv, TreeTyped, LocksHeld
  <2>2. \A n : Holds(n, LockHolders, Nodes) = {r \in LockHolders : n \in Heads(req[r].node)}
    BY HoldersAre DEF LockInv, EngineInv, Holds
  <2> QED
    BY <2>1, <2>2 DEF LockInv, LocksHeld, Locked, LocksCountUsers
<1> QED
  BY <1>1, <1>2, <1>3, PTL DEF BatchSpec

===============================================================================
