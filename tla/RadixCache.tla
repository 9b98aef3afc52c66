------------------------------ MODULE RadixCache ------------------------------
(***************************************************************************)
(* srt/mem_cache/radix_cache.py: the tree of cached token sequences.  A    *)
(* tree is a record: "value" maps every cached prefix (a nonempty sequence *)
(* of tokens) to the KV slot that holds its last token, "nodes" says which *)
(* prefixes end a TreeNode (a node is named by the tokens from the root to *)
(* it, which a split of its edge leaves alone; the root is <<>>), "lock"   *)
(* is lock_ref, "evictable" is evictable_size_.  Access times, which order *)
(* the evictions, are left out: any unlocked leaf may go first.            *)
(***************************************************************************)
EXTENDS SequencesExt

Heads(key) == {SubSeq(key, 1, i) : i \in 1..Len(key)}

EmptyTree == [nodes |-> {}, value |-> [p \in {} |-> 0], lock |-> [n \in {} |-> 0], evictable |-> 0]

MatchLen(t, key) == Cardinality(Heads(key) \cap DOMAIN t.value)

Cached(t, key) == SubSeq(key, 1, MatchLen(t, key))

SlotsOf(t, key) == [i \in 1..Len(key) |-> t.value[SubSeq(key, 1, i)]]

\* The node whose edge the cached prefix p lies on.
EdgeEnd(t, p) ==
  LET below == {n \in t.nodes : IsPrefix(p, n)}
  IN  CHOOSE n \in below : \A m \in below : Len(n) <= Len(m)

\* The prefixes on the edge of node n: those no shorter node ends.
Edge(t, n) == {p \in Heads(n) : \A m \in (t.nodes \cap Heads(n)) \ {n} : Len(m) < Len(p)}

Edges(t, N) == UNION {Edge(t, n) : n \in N}

\* match_prefix ends at the longest cached prefix of each key, on a node of
\* its own: one that lies inside an edge splits it and takes its lock_ref.
Split(t, keys) ==
  LET new == {Cached(t, k) : k \in keys} \ (t.nodes \cup {<<>>})
  IN  [t EXCEPT !.nodes = @ \cup new,
                !.lock = [n \in t.nodes \cup new |-> IF n \in new THEN @[EdgeEnd(t, n)] ELSE @[n]]]

\* insert: what is cached of the key stays, the rest becomes one unlocked leaf
\* under the node where the match ended.
AddLeaf(t, key, slots) ==
  LET tail == Heads(key) \ DOMAIN t.value
  IN  IF tail = {} THEN t
      ELSE [nodes |-> t.nodes \cup {key},
            value |-> [p \in DOMAIN t.value \cup tail |-> IF p \in tail THEN slots[Len(p)] ELSE t.value[p]],
            lock  |-> [n \in t.nodes \cup {key} |-> IF n = key THEN 0 ELSE t.lock[n]],
            evictable |-> t.evictable + Cardinality(tail)]

InsertUnsplit(t, key, slots) == AddLeaf(t, key, slots)  \* fault
Insert(t, key, slots) == AddLeaf(Split(t, {key}), key, slots)

Path(t, n) == t.nodes \cap Heads(n)

IncLock(t, n) ==
  [t EXCEPT !.lock = [m \in t.nodes |-> IF m \in Path(t, n) THEN @[m] + 1 ELSE @[m]],
            !.evictable = @ - Cardinality(Edges(t, {m \in Path(t, n) : t.lock[m] = 0}))]

DecNode(t, n) ==  \* fault
  [t EXCEPT !.lock = [m \in t.nodes |-> IF m = n THEN @[m] - 1 ELSE @[m]],
            !.evictable = @ + Cardinality(Edges(t, {m \in {n} \cap t.nodes : t.lock[m] = 1}))]
DecLock(t, n) ==
  [t EXCEPT !.lock = [m \in t.nodes |-> IF m \in Path(t, n) THEN @[m] - 1 ELSE @[m]],
            !.evictable = @ + Cardinality(Edges(t, {m \in Path(t, n) : t.lock[m] = 1}))]

AnyNode(t, n) == TRUE  \* fault
Unlocked(t, n) == t.lock[n] <= 0

\* The nodes evict(num) may delete: leaves first, none that is locked, until
\* num tokens are gone or no unlocked leaf is left.
Evictions(t, num) ==
  LET Closed(N) == \A n \in N : Unlocked(t, n) /\ \A m \in t.nodes : n \in Heads(m) => m \in N
      Size(N)   == Cardinality(Edges(t, N))
      closed    == {N \in SUBSET t.nodes : Closed(N)}
  IN  {N \in closed :
         /\ Size(N) >= num \/ \A M \in closed : M \subseteq N
         /\ N = {} \/ \E n \in N : Closed(N \ {n}) /\ Size(N \ {n}) < num}

Without(t, N) ==
  LET gone == Edges(t, N)
  IN  [nodes |-> t.nodes \ N,
       value |-> [p \in DOMAIN t.value \ gone |-> t.value[p]],
       lock  |-> [n \in t.nodes \ N |-> t.lock[n]],
       evictable |-> t.evictable - Cardinality(gone)]

SlotsIn(t, N) == {t.value[p] : p \in Edges(t, N)}

CachedSlots(t) == {t.value[p] : p \in DOMAIN t.value}
===============================================================================
