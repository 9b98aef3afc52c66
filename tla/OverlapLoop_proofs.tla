-------------------------- MODULE OverlapLoop_proofs ---------------------------
(***************************************************************************)
(* Proofs about the overlapped loop, for any requests, chunks, tokens and  *)
(* places in a batch: the KV slots of a request are given back once, and   *)
(* its tokens are its own though batches are launched with futures.        *)
(***************************************************************************)
EXTENDS OverlapLoop, SequenceTheorems, FiniteSetTheorems, TLAPS

-------------------------------------------------------------------------------
(***************************************************************************)
(* Proofs about OverlapLoop, for any number of requests, tokens and places *)
(* in a batch.  When a batch is launched the results of the one before it  *)
(* have still to be read: at most two are outstanding, and what is known   *)
(* of a request is what its state says and what they will change of it.    *)
(***************************************************************************)
OvBatches == [mode: {"none", "extend", "decode"}, reqs: Seq(OvReqs), ids: Seq(Int)]
IsBatch(b) == b \in OvBatches /\ Len(b.ids) = Len(b.reqs)
IsRunning(b) == IsBatch(b) /\ b.mode # "extend" /\ (b.mode = "none" => b = NoOvBatch)

\* Of the tokens of a request only their number is known here.
IsState(q) ==
  /\ q = [out |-> q.out, inflight |-> q.inflight, rounds |-> q.rounds, slots |-> q.slots]
  /\ q.out \in Seq(Range(q.out)) /\ q.inflight \in Nat /\ q.rounds \in Nat /\ q.slots \in Int

OverlapTypes ==
  /\ ovToCome \subseteq OvReqs /\ ovWaiting \subseteq OvReqs /\ ovFinished \subseteq OvReqs
  /\ ovToCome \cap ovWaiting = {}
  /\ ovInflight \in OvReqs \cup {OvNone} /\ ovPc \in {"schedule", "result"}
  /\ ovCt \in 0 .. FutureLimit - 1
  /\ IsRunning(ovRunning)
  /\ IsBatch(ovLast) /\ (ovLast.mode = "none" => ovLast = NoOvBatch)
  /\ ovResults \in Seq(OvBatches)
  /\ \A i \in DOMAIN ovResults : ovResults[i].mode # "none"
  /\ ovReq = [r \in OvReqs |-> ovReq[r]] /\ \A r \in OvReqs : IsState(ovReq[r])

\* Whether the i-th result to come is one of r, of a batch of this mode.
One(p) == IF p THEN 1 ELSE 0
Awaited(r, i, mode) == i \in DOMAIN ovResults /\ ovResults[i].mode = mode /\ r \in Range(ovResults[i].reqs)
Decoding(r) == One(Awaited(r, 1, "decode")) + One(Awaited(r, 2, "decode"))
Extending(r) == One(Awaited(r, 1, "extend")) + One(Awaited(r, 2, "extend"))

\* The results to come, at each place of the loop: the last batch is launched, and the one
\* before it not yet read when the loop goes on to its result.
SameBatch(b, c) == b.mode = c.mode /\ b.reqs = c.reqs
ResultsFollow ==
  IF ovPc = "schedule"
    THEN IF ovLast = NoOvBatch THEN ovResults = <<>>
         ELSE Len(ovResults) = 1 /\ SameBatch(ovResults[1], ovLast)
    ELSE IF ovLast = NoOvBatch THEN Len(ovResults) = 1
         ELSE Len(ovResults) = 2 /\ SameBatch(ovResults[2], ovLast)

\* A request that has not run yet is in no batch.
Unlaunched(r) ==
  r \in ovToCome \cup ovWaiting =>
    /\ ovReq[r].out = <<>> /\ ovReq[r].rounds = 0 /\ ovReq[r].inflight = 0
    /\ Decoding(r) = 0 /\ Extending(r) = 0
    /\ r \notin ovFinished /\ r # ovInflight /\ r \notin Range(ovRunning.reqs)

\* A request with chunks to come has no results to come but those of its chunks.
Chunking(r) ==
  r = ovInflight =>
    /\ r \notin ovFinished /\ Decoding(r) = 0 /\ r \notin Range(ovRunning.reqs)
    /\ ovReq[r].out = <<>> /\ ovReq[r].inflight = Extending(r)

\* Of the prefill rounds to be read only the last one gives a token, the first one.
Prefilling(r) ==
  /\ Extending(r) > 0 => r \notin ovFinished /\ ovReq[r].out = <<>>
  /\ r # ovInflight /\ r \notin ovFinished =>
       ovReq[r].inflight = IF Extending(r) > 0 THEN Extending(r) - 1 ELSE 0

\* A request runs once its first token is read, or is to be read now.
FirstRead(r) ==
  \/ ovReq[r].out # <<>> \/ r \in ovFinished
  \/ ovPc = "result" /\ Awaited(r, 1, "extend") /\ ovReq[r].inflight = 0
InRunning(r) ==
  /\ r \in Range(ovRunning.reqs) \/ Decoding(r) > 0 => FirstRead(r) /\ ~Awaited(r, 2, "extend")
  /\ ovPc = "schedule" /\ r \in Range(ovRunning.reqs) => Extending(r) = 0

\* A request has a slot for every token computed, and for every decode to be read.
SlotsCount(r) ==
  ovReq[r].slots = Decoding(r) + (IF r \in ovFinished THEN 0
                                  ELSE ovReq[r].rounds + (IF ovReq[r].out = <<>> THEN 0 ELSE Len(ovReq[r].out) - 1))

Stages(r) == Unlaunched(r) /\ Chunking(r) /\ Prefilling(r) /\ InRunning(r) /\ SlotsCount(r)
SlotsInv == OverlapTypes /\ ResultsFollow /\ \A r \in OvReqs : Stages(r)
-------------------------------------------------------------------------------
\* A sequence grows by what is appended.
LEMMA Appended ==
  ASSUME NEW s, s \in Seq(Range(s)), NEW t
  PROVE  /\ Append(s, t) \in Seq(Range(Append(s, t))) /\ Append(s, t) # <<>>
         /\ Len(s) \in Nat /\ Len(Append(s, t)) = Len(s) + 1
         /\ Append(s, t)[Len(s) + 1] = t
         /\ \A i \in 1 .. Len(s) : Append(s, t)[i] = s[i]
         /\ s = <<>> <=> Len(s) = 0
<1> DEFINE T == Range(s) \cup {t}
<1>1. s \in Seq(T) /\ t \in T
  BY SeqMonotonic
<1>2. /\ Append(s, t) \in Seq(T) /\ Len(Append(s, t)) = Len(s) + 1
      /\ Append(s, t)[Len(s) + 1] = t
      /\ \A i \in 1 .. Len(s) : Append(s, t)[i] = s[i]
      /\ Len(s) \in Nat /\ (s = <<>> <=> Len(s) = 0) /\ Append(s, t) # <<>>
  <2> HIDE DEF T
  <2> QED
    BY <1>1, AppendProperties, EmptySeq
<1>3. Append(s, t) \in Seq(Range(Append(s, t)))
  <2> HIDE DEF T
  <2> DEFINE a == Append(s, t)
  <2>1. a \in [1 .. Len(a) -> T] /\ Len(a) \in Nat
    BY <1>2, LenProperties
  <2>2. a \in [1 .. Len(a) -> Range(a)]
    BY <2>1 DEF Range
  <2> HIDE DEF a
  <2>3. \A n \in Nat : a \in [1 .. n -> Range(a)] => a \in Seq(Range(a))
    OBVIOUS
  <2>4. a \in Seq(Range(a))
    BY <2>1, <2>2, <2>3
  <2> QED
    BY <2>4 DEF a
<1> QED
  BY <1>2, <1>3

\* What a batch is made of.
LEMMA BatchParts ==
  ASSUME NEW b, IsBatch(b)
  PROVE  /\ b.reqs \in Seq(OvReqs) /\ b.ids \in Seq(Int)
         /\ Len(b.reqs) \in Nat /\ Len(b.ids) = Len(b.reqs)
         /\ DOMAIN b.reqs = 1 .. Len(b.reqs) /\ DOMAIN b.ids = 1 .. Len(b.reqs)
         /\ b.reqs \in [1 .. Len(b.reqs) -> OvReqs] /\ b.ids \in [1 .. Len(b.reqs) -> Int]
         /\ b = [mode |-> b.mode, reqs |-> b.reqs, ids |-> b.ids] /\ b.mode \in {"none", "extend", "decode"}
         /\ \A i \in DOMAIN b.reqs : b.reqs[i] \in OvReqs /\ b.ids[i] \in Int
<1>1. b.reqs \in Seq(OvReqs) /\ b.ids \in Seq(Int) /\ Len(b.ids) = Len(b.reqs)
  BY DEF IsBatch, OvBatches
<1>2. /\ Len(b.reqs) \in Nat /\ DOMAIN b.reqs = 1 .. Len(b.reqs) /\ b.reqs \in [1 .. Len(b.reqs) -> OvReqs]
      /\ DOMAIN b.ids = 1 .. Len(b.ids) /\ b.ids \in [1 .. Len(b.ids) -> Int]
  BY <1>1, LenProperties
<1>3. b = [mode |-> b.mode, reqs |-> b.reqs, ids |-> b.ids] /\ b.mode \in {"none", "extend", "decode"}
  BY DEF IsBatch, OvBatches
<1> QED
  BY <1>1, <1>2, <1>3

\* What filter_batch leaves is in step, and not of those that are gone.
LEMMA Filtered ==
  ASSUME NEW b, IsBatch(b), NEW gone, NEW c \in FilterBatch(b, gone)
  PROVE  /\ IsBatch(c) /\ c.mode = b.mode /\ Len(c.reqs) <= Len(b.reqs)
         /\ \A i \in DOMAIN c.reqs : \E j \in DOMAIN b.reqs :
              c.reqs[i] = b.reqs[j] /\ c.ids[i] = b.ids[j] /\ b.reqs[j] \notin gone
<1> DEFINE n == Len(b.reqs)
           I == {i \in 1 .. n : b.reqs[i] \notin gone}
           k == Cardinality(I)
<1> HIDE DEF n, I, k
<1>1. /\ n \in Nat /\ DOMAIN b.reqs = 1 .. n /\ DOMAIN b.ids = 1 .. n
      /\ b.reqs \in [1 .. n -> OvReqs] /\ b.ids \in [1 .. n -> Int]
      /\ b = [mode |-> b.mode, reqs |-> b.reqs, ids |-> b.ids] /\ b.mode \in {"none", "extend", "decode"}
  BY BatchParts DEF n
<1>2. IsFiniteSet(1 .. n) /\ Cardinality(1 .. n) = n
  <2>1. 1 \in Int /\ n \in Int
    BY <1>1
  <2>2. IsFiniteSet(1 .. n) /\ Cardinality(1 .. n) = IF 1 > n THEN 0 ELSE n - 1 + 1
    BY <2>1, FS_Interval
  <2> QED
    BY <1>1, <2>2
<1>3. k \in Nat /\ k <= n
  BY <1>2, FS_Subset, FS_CardinalityType DEF I, k
<1>4. PICK keep \in KeepIndices(b, gone) : c = [b EXCEPT !.reqs = AtIndices(@, keep), !.ids = AtIndices(@, keep)]
  BY DEF FilterBatch
<1>5. keep \in [1 .. k -> I]
  BY <1>1 DEF KeepIndices, SetToSeqs, I, k
<1>6. c = [mode |-> b.mode, reqs |-> [i \in 1 .. k |-> b.reqs[keep[i]]], ids |-> [i \in 1 .. k |-> b.ids[keep[i]]]]
  BY <1>1, <1>4, <1>5 DEF AtIndices
<1>7. \A i \in 1 .. k : keep[i] \in 1 .. n /\ b.reqs[keep[i]] \notin gone
  BY <1>5 DEF I
<1>8. /\ c.mode = b.mode /\ c.reqs \in [1 .. k -> OvReqs] /\ c.ids \in [1 .. k -> Int]
      /\ \A i \in 1 .. k : c.reqs[i] = b.reqs[keep[i]] /\ c.ids[i] = b.ids[keep[i]]
  BY <1>1, <1>6, <1>7
<1>9. c.reqs \in Seq(OvReqs) /\ c.ids \in Seq(Int) /\ Len(c.reqs) = k /\ Len(c.ids) = k
  <2>1. \A S : \A m \in Nat : \A s \in [1 .. m -> S] : s \in Seq(S) /\ Len(s) = m
    OBVIOUS
  <2> QED
    BY <1>3, <1>8, <2>1
<1>10. IsBatch(c)
  BY <1>1, <1>6, <1>8, <1>9 DEF IsBatch, OvBatches
<1>11. DOMAIN c.reqs = 1 .. k
  BY <1>8
<1>12. Len(c.reqs) <= Len(b.reqs)
  BY <1>3, <1>9 DEF n
<1>13. \A i \in DOMAIN c.reqs : \E j \in DOMAIN b.reqs :
              c.reqs[i] = b.reqs[j] /\ c.ids[i] = b.ids[j] /\ b.reqs[j] \notin gone
  BY <1>1, <1>7, <1>8, <1>11
<1> QED
  BY <1>8, <1>10, <1>12, <1>13

\* Each element of two sequences in one is an element of one of them.
LEMMA Joined ==
  ASSUME NEW S, NEW s \in Seq(S), NEW t \in Seq(S)
  PROVE  /\ s \o t \in Seq(S) /\ Len(s \o t) = Len(s) + Len(t)
         /\ DOMAIN (s \o t) = 1 .. (Len(s) + Len(t))
         /\ \A i \in 1 .. (Len(s) + Len(t)) : (s \o t)[i] = IF i <= Len(s) THEN s[i] ELSE t[i - Len(s)]
<1>1. /\ s \o t \in Seq(S) /\ Len(s \o t) = Len(s) + Len(t)
      /\ \A i \in 1 .. (Len(s) + Len(t)) : (s \o t)[i] = IF i <= Len(s) THEN s[i] ELSE t[i - Len(s)]
  BY ConcatProperties
<1>2. \A x \in Seq(S) : DOMAIN x = 1 .. Len(x)
  BY LenProperties
<1> QED
  BY <1>1, <1>2

\* A batch whose places are places of two others.
JoinedFrom(m, b, c) ==
  /\ IsBatch(m) /\ m.mode = "decode" /\ Len(m.reqs) = Len(b.reqs) + Len(c.reqs)
  /\ \A i \in DOMAIN m.reqs :
       \/ \E j \in DOMAIN b.reqs : m.reqs[i] = b.reqs[j] /\ m.ids[i] = b.ids[j]
       \/ \E j \in DOMAIN c.reqs : m.reqs[i] = c.reqs[j] /\ m.ids[i] = c.ids[j]

\* Two batches in one.
LEMMA MergedBatches ==
  ASSUME NEW b, IsBatch(b), NEW c, IsBatch(c)
  PROVE  JoinedFrom(MergeBatch(b, c), b, c)
<1> DEFINE R == b.reqs \o c.reqs
           D == b.ids \o c.ids
           m == Len(b.reqs)
           n == Len(c.reqs)
<1> HIDE DEF R, D, m, n
<1>1. /\ b.reqs \in Seq(OvReqs) /\ b.ids \in Seq(Int) /\ c.reqs \in Seq(OvReqs) /\ c.ids \in Seq(Int)
      /\ Len(b.reqs) = m /\ Len(c.reqs) = n /\ Len(b.ids) = m /\ Len(c.ids) = n
      /\ m \in Nat /\ n \in Nat /\ DOMAIN b.reqs = 1 .. m /\ DOMAIN c.reqs = 1 .. n
  BY BatchParts DEF m, n
<1>2. /\ R \in Seq(OvReqs) /\ Len(R) = m + n /\ DOMAIN R = 1 .. (m + n)
      /\ \A i \in 1 .. (m + n) : R[i] = IF i <= m THEN b.reqs[i] ELSE c.reqs[i - m]
  <2> DEFINE s == b.reqs
             t == c.reqs
  <2>1. s \in Seq(OvReqs) /\ t \in Seq(OvReqs) /\ Len(s) = m /\ Len(t) = n
    BY <1>1
  <2>2. R = s \o t
    BY DEF R
  <2> HIDE DEF s, t
  <2>3. /\ R \in Seq(OvReqs) /\ Len(R) = m + n /\ DOMAIN R = 1 .. (m + n)
        /\ \A i \in 1 .. (m + n) : R[i] = IF i <= m THEN s[i] ELSE t[i - m]
    BY <2>1, <2>2, Joined
  <2> QED
    BY <2>3 DEF s, t
<1>3. /\ D \in Seq(Int) /\ Len(D) = m + n
      /\ \A i \in 1 .. (m + n) : D[i] = IF i <= m THEN b.ids[i] ELSE c.ids[i - m]
  <2> DEFINE s == b.ids
             t == c.ids
  <2>1. s \in Seq(Int) /\ t \in Seq(Int) /\ Len(s) = m /\ Len(t) = n
    BY <1>1
  <2>2. D = s \o t
    BY DEF D
  <2> HIDE DEF s, t
  <2>3. /\ D \in Seq(Int) /\ Len(D) = m + n
        /\ \A i \in 1 .. (m + n) : D[i] = IF i <= m THEN s[i] ELSE t[i - m]
    BY <2>1, <2>2, Joined
  <2> QED
    BY <2>3 DEF s, t
<1>4. MergeBatch(b, c) = [mode |-> "decode", reqs |-> R, ids |-> D]
  BY DEF MergeBatch, R, D
<1>5. IsBatch(MergeBatch(b, c))
  BY <1>2, <1>3, <1>4 DEF IsBatch, OvBatches
<1>6. ASSUME NEW i \in 1 .. (m + n)
      PROVE  \/ \E j \in 1 .. m : R[i] = b.reqs[j] /\ D[i] = b.ids[j]
             \/ \E j \in 1 .. n : R[i] = c.reqs[j] /\ D[i] = c.ids[j]
  <2>1. CASE i <= m
    <3>1. i \in 1 .. m
      BY <1>1, <2>1
    <3> QED
      BY <1>2, <1>3, <2>1, <3>1
  <2>2. CASE ~(i <= m)
    <3>1. i - m \in 1 .. n
      BY <1>1, <2>2
    <3>2. R[i] = c.reqs[i - m] /\ D[i] = c.ids[i - m]
      BY <1>2, <1>3, <2>2
    <3> QED
      BY <3>1, <3>2
  <2> QED
    BY <2>1, <2>2
<1>7. MergeBatch(b, c).mode = "decode" /\ MergeBatch(b, c).reqs = R /\ MergeBatch(b, c).ids = D
  BY <1>4
<1> QED
  BY <1>1, <1>2, <1>5, <1>6, <1>7 DEF JoinedFrom

\* How many places the running batch may have when the last one has joined it.
Held == Len(ovRunning.reqs) + IF ovLast.mode = "extend" THEN Len(ovLast.reqs) ELSE 0

\* What a batch merges is in step with where it comes from.
LEMMA MergedIs ==
  ASSUME OverlapTypes, NEW m \in Merged
  PROVE  /\ IsRunning(m) /\ Len(m.reqs) <= Held
         /\ ovInflight = OvNone \/ ovLast.mode # "extend" => Len(m.reqs) = Held
         /\ Len(m.reqs) >= Len(ovRunning.reqs)
         /\ \A i \in DOMAIN m.reqs :
              \/ \E j \in DOMAIN ovRunning.reqs : m.reqs[i] = ovRunning.reqs[j] /\ m.ids[i] = ovRunning.ids[j]
              \/ /\ ovLast.mode = "extend" /\ m.reqs[i] # ovInflight
                 /\ \E j \in DOMAIN ovLast.reqs : m.reqs[i] = ovLast.reqs[j] /\ m.ids[i] = ovLast.ids[j]
<1>1. /\ IsRunning(ovRunning) /\ IsBatch(ovRunning) /\ IsBatch(ovLast)
      /\ Len(ovRunning.reqs) \in Nat /\ Len(ovLast.reqs) \in Nat
      /\ \A i \in DOMAIN ovLast.reqs : ovLast.reqs[i] \in OvReqs
  BY BatchParts DEF OverlapTypes, IsRunning
<1>2. CASE ovLast.mode # "extend"
  BY <1>1, <1>2 DEF Merged, Held
<1>3. CASE ovLast.mode = "extend"
  <2>1. PICK last \in IF ovInflight = OvNone THEN {ovLast} ELSE FilterBatch(ovLast, ovFinished \cup {ovInflight}) :
             m = MergeBatch(ovRunning, last)
    BY <1>3 DEF Merged
  <2>2. /\ IsBatch(last) /\ Len(last.reqs) <= Len(ovLast.reqs) /\ Len(last.reqs) \in Nat
        /\ ovInflight = OvNone => Len(last.reqs) = Len(ovLast.reqs)
        /\ \A i \in DOMAIN last.reqs : \E j \in DOMAIN ovLast.reqs :
             last.reqs[i] = ovLast.reqs[j] /\ last.ids[i] = ovLast.ids[j] /\ last.reqs[i] # ovInflight
    <3>1. CASE ovInflight = OvNone
      BY <1>1, <2>1, <3>1, OverlapAssumption
    <3>2. CASE ovInflight # OvNone
      <4>1. last \in FilterBatch(ovLast, ovFinished \cup {ovInflight})
        BY <2>1, <3>2
      <4>2. /\ IsBatch(last) /\ Len(last.reqs) <= Len(ovLast.reqs)
            /\ \A i \in DOMAIN last.reqs : \E j \in DOMAIN ovLast.reqs :
                 /\ last.reqs[i] = ovLast.reqs[j] /\ last.ids[i] = ovLast.ids[j]
                 /\ ovLast.reqs[j] \notin ovFinished \cup {ovInflight}
        BY <1>1, <4>1, Filtered
      <4>3. Len(last.reqs) \in Nat
        BY <4>2, BatchParts
      <4> QED
        BY <3>2, <4>2, <4>3
    <3> QED
      BY <3>1, <3>2
  <2>3. /\ IsBatch(m) /\ m.mode = "decode" /\ Len(m.reqs) = Len(ovRunning.reqs) + Len(last.reqs)
        /\ \A i \in DOMAIN m.reqs :
             \/ \E j \in DOMAIN ovRunning.reqs : m.reqs[i] = ovRunning.reqs[j] /\ m.ids[i] = ovRunning.ids[j]
             \/ \E j \in DOMAIN last.reqs : m.reqs[i] = last.reqs[j] /\ m.ids[i] = last.ids[j]
    <3>1. IsBatch(ovRunning) /\ IsBatch(last) /\ m = MergeBatch(ovRunning, last)
      BY <1>1, <2>1, <2>2
    <3>2. JoinedFrom(m, ovRunning, last)
      BY <3>1, MergedBatches
    <3> QED
      BY <3>2 DEF JoinedFrom
  <2>5. \A i \in DOMAIN m.reqs :
              \/ \E j \in DOMAIN ovRunning.reqs : m.reqs[i] = ovRunning.reqs[j] /\ m.ids[i] = ovRunning.ids[j]
              \/ /\ ovLast.mode = "extend" /\ m.reqs[i] # ovInflight
                 /\ \E j \in DOMAIN ovLast.reqs : m.reqs[i] = ovLast.reqs[j] /\ m.ids[i] = ovLast.ids[j]
    <3> TAKE i \in DOMAIN m.reqs
    <3>1. CASE \E j \in DOMAIN ovRunning.reqs : m.reqs[i] = ovRunning.reqs[j] /\ m.ids[i] = ovRunning.ids[j]
      BY <3>1
    <3>2. CASE \E j \in DOMAIN last.reqs : m.reqs[i] = last.reqs[j] /\ m.ids[i] = last.ids[j]
      <4>1. PICK j \in DOMAIN last.reqs : m.reqs[i] = last.reqs[j] /\ m.ids[i] = last.ids[j]
        BY <3>2
      <4>2. PICK h \in DOMAIN ovLast.reqs :
                 last.reqs[j] = ovLast.reqs[h] /\ last.ids[j] = ovLast.ids[h] /\ last.reqs[j] # ovInflight
        BY <2>2
      <4> QED
        BY <1>3, <4>1, <4>2
    <3> QED
      BY <2>3, <3>1, <3>2
  <2>6. Held = Len(ovRunning.reqs) + Len(ovLast.reqs)
    BY <1>3 DEF Held
  <2>7. /\ Len(m.reqs) <= Held /\ Len(m.reqs) >= Len(ovRunning.reqs)
        /\ ovInflight = OvNone => Len(m.reqs) = Held
    <3>1. \A x, y, z \in Nat : z <= y => x + z <= x + y /\ x + z >= x
      OBVIOUS
    <3>2. /\ Len(ovRunning.reqs) \in Nat /\ Len(ovLast.reqs) \in Nat /\ Len(last.reqs) \in Nat
          /\ Len(last.reqs) <= Len(ovLast.reqs) /\ Len(m.reqs) = Len(ovRunning.reqs) + Len(last.reqs)
      BY <1>1, <2>2, <2>3
    <3>3. Len(m.reqs) <= Held /\ Len(m.reqs) >= Len(ovRunning.reqs)
      BY <2>6, <3>1, <3>2
    <3>4. ovInflight = OvNone => Len(m.reqs) = Held
      BY <2>2, <2>6, <3>2
    <3> QED
      BY <3>3, <3>4
  <2> QED
    BY <1>3, <2>3, <2>5, <2>7 DEF IsRunning
<1> QED
  BY <1>2, <1>3

\* A request runs from where the batches it merges come from.
LEMMA MergedRange ==
  ASSUME OverlapTypes, NEW m \in Merged, NEW r \in Range(m.reqs)
  PROVE  \/ r \in Range(ovRunning.reqs)
         \/ ovLast.mode = "extend" /\ r \in Range(ovLast.reqs) /\ r # ovInflight
<1>1. PICK i \in DOMAIN m.reqs : r = m.reqs[i]
  BY DEF Range
<1> QED
  BY <1>1, MergedIs DEF Range

\* What a batch is launched with: its results come after those to be read, of at most one.
Joins(r, b, mode) == b.mode = mode /\ r \in Range(b.reqs)
Launches(b, running) ==
  /\ ovResults' \in Seq(OvBatches) /\ \A i \in DOMAIN ovResults' : ovResults'[i].mode # "none"
  /\ IsBatch(ovLast') /\ ovLast'.mode # "none" /\ IsRunning(ovRunning')
  /\ ovLast'.mode = b.mode /\ ovLast'.reqs = b.reqs
  /\ ovRunning'.reqs = IF b.mode = "decode" THEN b.reqs ELSE running.reqs
  /\ ovCt' \in 0 .. FutureLimit - 1 /\ ovPc' \in {"schedule", "result"}
  /\ ResultsFollow'
  /\ ovPc' = "schedule" <=> ovLast = NoOvBatch
  /\ ovLast # NoOvBatch => Len(ovResults) = 1 /\ SameBatch(ovResults[1], ovLast)
  /\ ovLast = NoOvBatch => ovResults = <<>>
Awaiting(r, b) ==
  \A mode \in {"extend", "decode"} :
    /\ ~Awaited(r, 2, mode)
    /\ ovLast = NoOvBatch => /\ ~Awaited(r, 1, mode) /\ ~Awaited(r, 2, mode)'
                             /\ Awaited(r, 1, mode)' <=> Joins(r, b, mode)
    /\ ovLast # NoOvBatch => /\ Awaited(r, 1, mode)' <=> Awaited(r, 1, mode)
                             /\ Awaited(r, 2, mode)' <=> Joins(r, b, mode)
                             /\ Awaited(r, 1, mode) <=> Joins(r, ovLast, mode)
\* What run_batch leaves: the batch is the last one, and its results are awaited after those of the one before.
LEMMA Launching ==
  ASSUME OverlapTypes, ResultsFollow, ovPc = "schedule",
         NEW b, IsBatch(b), b.mode \in {"extend", "decode"},
         NEW running, IsRunning(running), Run(b, running)
  PROVE  Launches(b, running) /\ \A r \in OvReqs : Awaiting(r, b)
<1> DEFINE futures == [i \in DOMAIN b.reqs |-> -(ovCt + i)]
           last == [b EXCEPT !.ids = futures]
           old == ovResults
           new == Append(old, b)
<1>1. /\ ovResults' = new /\ ovCt' = (ovCt + Len(b.reqs)) % FutureLimit
      /\ ovLast' = last /\ ovRunning' = (IF b.mode = "decode" THEN last ELSE running)
      /\ ovPc' = IF ovLast = NoOvBatch THEN "schedule" ELSE "result"
  BY DEF Run, ThenRead
<1>2. /\ b.reqs \in Seq(OvReqs) /\ Len(b.reqs) \in Nat /\ DOMAIN b.reqs = 1 .. Len(b.reqs)
      /\ b = [mode |-> b.mode, reqs |-> b.reqs, ids |-> b.ids]
  BY BatchParts
<1>3. ovCt \in Nat /\ FutureLimit \in Nat \ {0}
  BY OverlapAssumption DEF OverlapTypes, FutureLimit
<1>4. futures \in [1 .. Len(b.reqs) -> Int]
  BY <1>2, <1>3
<1>5. futures \in Seq(Int) /\ Len(futures) = Len(b.reqs)
  <2>1. \A S : \A m \in Nat : \A s \in [1 .. m -> S] : s \in Seq(S) /\ Len(s) = m
    OBVIOUS
  <2> HIDE DEF futures
  <2> QED
    BY <1>2, <1>4, <2>1
<1>6. last = [mode |-> b.mode, reqs |-> b.reqs, ids |-> futures]
  <2> HIDE DEF futures
  <2> QED
    BY <1>2
<1> HIDE DEF futures, last
<1>7. IsBatch(last) /\ last.mode = b.mode /\ last.reqs = b.reqs
  BY <1>2, <1>5, <1>6 DEF IsBatch, OvBatches
<1>8. old \in Seq(OvBatches) /\ b \in OvBatches /\ \A i \in DOMAIN old : old[i].mode # "none"
  BY DEF OverlapTypes, IsBatch
<1> HIDE DEF new
<1>9. /\ new \in Seq(OvBatches) /\ Len(new) = Len(old) + 1 /\ Len(old) \in Nat
      /\ \A i \in 1 .. Len(old) : new[i] = old[i]
      /\ new[Len(old) + 1] = b
      /\ DOMAIN new = 1 .. (Len(old) + 1) /\ DOMAIN old = 1 .. Len(old)
  <2> HIDE DEF old
  <2> QED
    BY <1>8, AppendProperties, LenProperties DEF new
<1>10. \A i \in DOMAIN new : new[i].mode # "none"
  <2>1. ASSUME NEW i \in DOMAIN new  PROVE  i \in DOMAIN old \/ i = Len(old) + 1
    BY <1>9
  <2> QED
    BY <1>8, <1>9, <2>1
<1>11. /\ ovLast = NoOvBatch => old = <<>> /\ Len(old) = 0
       /\ ovLast # NoOvBatch => Len(old) = 1 /\ SameBatch(old[1], ovLast)
  BY DEF ResultsFollow
<1>12. ovCt' \in 0 .. FutureLimit - 1
  BY <1>1, <1>2, <1>3
<1>13. ResultsFollow'
  <2>1. ovLast' # NoOvBatch
    BY <1>1, <1>7 DEF NoOvBatch
  <2>2. CASE ovLast = NoOvBatch
    BY <1>1, <1>7, <1>9, <1>11, <2>1, <2>2 DEF ResultsFollow, SameBatch
  <2>3. CASE ovLast # NoOvBatch
    BY <1>1, <1>7, <1>9, <1>11, <2>1, <2>3 DEF ResultsFollow, SameBatch
  <2> QED
    BY <2>2, <2>3
<1>14. Launches(b, running)
  BY <1>1, <1>7, <1>9, <1>10, <1>11, <1>12, <1>13 DEF Launches, IsRunning
<1>15. ASSUME NEW r \in OvReqs  PROVE  Awaiting(r, b)
  <2> HIDE DEF old
  <2>1. CASE ovLast = NoOvBatch
    <3>1. DOMAIN old = {} /\ DOMAIN new = {1} /\ new[1] = b
      BY <1>9, <1>11, <2>1
    <3>2. \A i, mode : ~Awaited(r, i, mode)
      BY <3>1 DEF Awaited, old
    <3>3. \A mode : /\ Awaited(r, 1, mode)' <=> (b.mode = mode /\ r \in Range(b.reqs))
                    /\ ~Awaited(r, 2, mode)'
      BY <1>1, <3>1 DEF Awaited
    <3> QED
      BY <2>1, <3>2, <3>3 DEF Awaiting, Joins
  <2>2. CASE ovLast # NoOvBatch
    <3>1. DOMAIN old = {1} /\ DOMAIN new = {1, 2} /\ new[1] = old[1] /\ new[2] = b /\ SameBatch(old[1], ovLast)
      <4>1. 1 .. 1 = {1} /\ 1 .. (1 + 1) = {1, 2} /\ 1 + 1 = 2 /\ 1 \in 1 .. 1
        OBVIOUS
      <4>2. Len(old) = 1 /\ SameBatch(old[1], ovLast)
        BY <1>11, <2>2
      <4> QED
        BY <1>9, <4>1, <4>2
    <3>2. \A mode : /\ Awaited(r, 1, mode) <=> (ovLast.mode = mode /\ r \in Range(ovLast.reqs))
                    /\ Awaited(r, 1, mode) <=> (old[1].mode = mode /\ r \in Range(old[1].reqs))
                    /\ ~Awaited(r, 2, mode)
      BY <3>1 DEF Awaited, old, SameBatch
    <3>3. \A mode : /\ Awaited(r, 2, mode)' <=> (b.mode = mode /\ r \in Range(b.reqs))
                    /\ Awaited(r, 1, mode)' <=> (old[1].mode = mode /\ r \in Range(old[1].reqs))
      BY <1>1, <3>1 DEF Awaited
    <3> QED
      BY <2>2, <3>2, <3>3 DEF Awaiting, Joins
  <2> QED
    BY <2>1, <2>2
<1> QED
  BY <1>14, <1>15

Counts(r, b) ==
  /\ Decoding(r) \in 0 .. 1 /\ Extending(r) \in 0 .. 1
  /\ Decoding(r)' = Decoding(r) + One(Joins(r, b, "decode"))
  /\ Extending(r)' = Extending(r) + One(Joins(r, b, "extend"))
  /\ ~Awaited(r, 2, "extend")
  /\ Awaited(r, 1, "extend") <=> Extending(r) = 1
  /\ ovLast = NoOvBatch => Extending(r) = 0 /\ Decoding(r) = 0 /\ ~Awaited(r, 2, "extend")'
  /\ ovLast # NoOvBatch =>
       /\ Joins(r, ovLast, "extend") <=> Extending(r) = 1
       /\ Awaited(r, 1, "extend")' <=> Awaited(r, 1, "extend")
       /\ Awaited(r, 2, "extend")' <=> Joins(r, b, "extend")
\* The results awaited of a request when a batch is launched, counted by mode.
LEMMA LaunchedCount ==
  ASSUME NEW r, NEW b, Awaiting(r, b)
  PROVE  Counts(r, b)
<1>1. ~Awaited(r, 2, "extend") /\ ~Awaited(r, 2, "decode")
  BY DEF Awaiting
<1>2. /\ Decoding(r) = One(Awaited(r, 1, "decode")) /\ Decoding(r) \in 0 .. 1
      /\ Extending(r) = One(Awaited(r, 1, "extend")) /\ Extending(r) \in 0 .. 1
  BY <1>1 DEF Decoding, Extending, One
<1>3. CASE ovLast = NoOvBatch
  <2>1. /\ ~Awaited(r, 1, "extend") /\ ~Awaited(r, 2, "extend")'
        /\ ~Awaited(r, 1, "decode") /\ ~Awaited(r, 2, "decode")'
        /\ Awaited(r, 1, "extend")' <=> Joins(r, b, "extend")
        /\ Awaited(r, 1, "decode")' <=> Joins(r, b, "decode")
    BY <1>3 DEF Awaiting
  <2>2. /\ Decoding(r)' = One(Joins(r, b, "decode")) + 0
        /\ Extending(r)' = One(Joins(r, b, "extend")) + 0
    BY <2>1 DEF Decoding, Extending, One
  <2> QED
    BY <1>1, <1>2, <1>3, <2>1, <2>2 DEF One, Counts
<1>4. CASE ovLast # NoOvBatch
  <2>1. /\ Awaited(r, 1, "extend")' <=> Awaited(r, 1, "extend")
        /\ Awaited(r, 1, "decode")' <=> Awaited(r, 1, "decode")
        /\ Awaited(r, 2, "extend")' <=> Joins(r, b, "extend")
        /\ Awaited(r, 2, "decode")' <=> Joins(r, b, "decode")
        /\ Awaited(r, 1, "extend") <=> Joins(r, ovLast, "extend")
    BY <1>4 DEF Awaiting
  <2>2. /\ Decoding(r)' = One(Awaited(r, 1, "decode")) + One(Joins(r, b, "decode"))
        /\ Extending(r)' = One(Awaited(r, 1, "extend")) + One(Joins(r, b, "extend"))
    BY <2>1 DEF Decoding, Extending, One
  <2> QED
    BY <1>1, <1>2, <1>4, <2>1, <2>2 DEF One, Counts
<1> QED
  BY <1>3, <1>4

\* A record of the four fields is a request's state.
LEMMA NewState ==
  ASSUME NEW out, out \in Seq(Range(out)), NEW inflight \in Nat, NEW rounds \in Nat, NEW slots \in Int
  PROVE  IsState([out |-> out, inflight |-> inflight, rounds |-> rounds, slots |-> slots])
BY DEF IsState

\* A batch to decode: the requests of the running batch that are not finished, in step with their futures.
Decodes(b, running) ==
  /\ ovPc = "schedule" /\ running \in Merged /\ IsRunning(b) /\ IsBatch(b) /\ b.mode = "decode"
  /\ Len(b.reqs) <= Len(running.reqs)
  /\ \A i \in DOMAIN b.reqs : \E j \in DOMAIN running.reqs :
       b.reqs[i] = running.reqs[j] /\ b.ids[i] = running.ids[j] /\ running.reqs[j] \notin ovFinished
  /\ Run(b, b)
  /\ ovReq' = [r \in OvReqs |-> IF r \in Range(b.reqs) THEN [ovReq[r] EXCEPT !.slots = @ + 1] ELSE ovReq[r]]
  /\ UNCHANGED <<ovToCome, ovWaiting, ovInflight, workerVars, ovFinished>>

\* The batch of a decode step comes from the merged one.
LEMMA DecodeBatch ==
  ASSUME OverlapTypes, Decode
  PROVE  \E b, running : Decodes(b, running)
<1>0. PICK running \in Merged : \E b \in FilterBatch(running, ovFinished) :
        /\ ovPc = "schedule" /\ b.reqs # <<>> /\ Run(b, b)
        /\ ovReq' = [r \in OvReqs |-> IF r \in Range(b.reqs) THEN [ovReq[r] EXCEPT !.slots = @ + 1] ELSE ovReq[r]]
        /\ UNCHANGED <<ovToCome, ovWaiting, ovInflight, workerVars, ovFinished>>
  BY DEF Decode
<1>1. PICK b \in FilterBatch(running, ovFinished) :
        /\ ovPc = "schedule" /\ b.reqs # <<>> /\ Run(b, b)
        /\ ovReq' = [r \in OvReqs |-> IF r \in Range(b.reqs) THEN [ovReq[r] EXCEPT !.slots = @ + 1] ELSE ovReq[r]]
        /\ UNCHANGED <<ovToCome, ovWaiting, ovInflight, workerVars, ovFinished>>
  BY <1>0
<1>3. IsRunning(running) /\ IsBatch(running)
  BY MergedIs DEF IsRunning
<1>4. /\ IsBatch(b) /\ b.mode = running.mode /\ Len(b.reqs) <= Len(running.reqs)
      /\ \A i \in DOMAIN b.reqs : \E j \in DOMAIN running.reqs :
            b.reqs[i] = running.reqs[j] /\ b.ids[i] = running.ids[j] /\ running.reqs[j] \notin ovFinished
  BY <1>3, Filtered
<1>5. b.mode = "decode" /\ IsRunning(b)
  <2>1. b.mode \in {"none", "extend", "decode"} /\ b.reqs \in Seq(OvReqs)
    BY <1>4, BatchParts
  <2>2. ASSUME b.mode = "none"  PROVE FALSE
    <3>1. running.reqs = <<>>
      BY <1>3, <1>4, <2>2 DEF IsRunning, NoOvBatch
    <3>2. Len(b.reqs) = 0
      BY <1>4, <2>1, <3>1, LenProperties, EmptySeq
    <3> QED
      BY <1>1, <2>1, <3>2, EmptySeq
  <2> QED
    BY <1>3, <1>4, <2>1, <2>2 DEF IsRunning
<1> QED
  BY <1>1, <1>4, <1>5 DEF Decodes

\* One more token is decoded of the requests that run and are not finished.
LEMMA DecodeSlots ==
  ASSUME SlotsInv, Decode
  PROVE  SlotsInv'
<1>2. OverlapTypes /\ ResultsFollow /\ \A r \in OvReqs : Stages(r)
  BY DEF SlotsInv
<1>0. PICK b, running : Decodes(b, running)
  BY <1>2, DecodeBatch
<1>1. /\ ovPc = "schedule" /\ running \in Merged /\ Run(b, b)
      /\ ovReq' = [r \in OvReqs |-> IF r \in Range(b.reqs) THEN [ovReq[r] EXCEPT !.slots = @ + 1] ELSE ovReq[r]]
      /\ UNCHANGED <<ovToCome, ovWaiting, ovInflight, workerVars, ovFinished>>
  BY <1>0 DEF Decodes
<1>4. IsBatch(b) /\ \A r \in Range(b.reqs) : r \in Range(running.reqs) /\ r \notin ovFinished
  BY <1>0 DEF Decodes, Range
<1>5. b.mode = "decode" /\ IsRunning(b)
  BY <1>0 DEF Decodes
<1>6. Launches(b, b) /\ \A r \in OvReqs : Awaiting(r, b)
  BY <1>1, <1>2, <1>4, <1>5, Launching
<1>7. ASSUME NEW r \in OvReqs
      PROVE  /\ ovReq'[r] = [out |-> ovReq[r].out, inflight |-> ovReq[r].inflight, rounds |-> ovReq[r].rounds,
                             slots |-> ovReq[r].slots + One(r \in Range(b.reqs))]
             /\ IsState(ovReq'[r])
             /\ ovReq'[r].out = ovReq[r].out /\ ovReq'[r].inflight = ovReq[r].inflight
             /\ ovReq'[r].rounds = ovReq[r].rounds /\ ovReq'[r].slots = ovReq[r].slots + One(r \in Range(b.reqs))
  <2>1. IsState(ovReq[r])
    BY <1>2 DEF OverlapTypes
  <2>2. ovReq'[r] = [out |-> ovReq[r].out, inflight |-> ovReq[r].inflight, rounds |-> ovReq[r].rounds,
                     slots |-> ovReq[r].slots + One(r \in Range(b.reqs))]
    BY <1>1, <2>1 DEF IsState, One
  <2> QED
    BY <2>1, <2>2 DEF IsState, One
<1>8. OverlapTypes'
  BY <1>1, <1>2, <1>6, <1>7 DEF OverlapTypes, Launches
<1>9. ASSUME NEW r \in OvReqs
      PROVE  Stages(r)'
  <2>1. /\ Unlaunched(r) /\ Chunking(r) /\ Prefilling(r) /\ InRunning(r) /\ SlotsCount(r)
        /\ ovReq[r].inflight \in Nat /\ ovReq[r].rounds \in Nat /\ ovReq[r].slots \in Int
    BY <1>2 DEF Stages, OverlapTypes, IsState
  <2>2. /\ ovReq'[r].out = ovReq[r].out /\ ovReq'[r].inflight = ovReq[r].inflight /\ ovReq'[r].rounds = ovReq[r].rounds
        /\ ovReq'[r].slots = ovReq[r].slots + One(r \in Range(b.reqs))
        /\ ovRunning'.reqs = b.reqs /\ UNCHANGED <<ovToCome, ovWaiting, ovInflight, ovFinished>>
        /\ (ovPc' = "schedule" <=> ovLast = NoOvBatch) /\ ovPc = "schedule" /\ ovPc' \in {"schedule", "result"}
    <3>1. /\ ovRunning'.reqs = b.reqs /\ (ovPc' = "schedule" <=> ovLast = NoOvBatch) /\ ovPc' \in {"schedule", "result"}
      BY <1>5, <1>6 DEF Launches
    <3>2. /\ ovReq'[r].out = ovReq[r].out /\ ovReq'[r].inflight = ovReq[r].inflight
          /\ ovReq'[r].rounds = ovReq[r].rounds /\ ovReq'[r].slots = ovReq[r].slots + One(r \in Range(b.reqs))
      BY <1>7
    <3> QED
      BY <1>1, <3>1, <3>2
  <2>3. /\ r \in Range(b.reqs) => r \in Range(running.reqs) /\ r \notin ovFinished
        /\ r \in Range(running.reqs) => \/ r \in Range(ovRunning.reqs)
                                        \/ Joins(r, ovLast, "extend") /\ ovLast # NoOvBatch /\ r # ovInflight
    BY <1>1, <1>2, <1>4, MergedRange DEF Joins, NoOvBatch
  <2>4. /\ ~Joins(r, b, "extend") /\ (Joins(r, b, "decode") <=> r \in Range(b.reqs))
        /\ Awaiting(r, b)
    BY <1>5, <1>6 DEF Joins
  <2>5. /\ Decoding(r)' = Decoding(r) + One(r \in Range(b.reqs)) /\ Extending(r)' = Extending(r)
        /\ Decoding(r) \in 0 .. 1 /\ Extending(r) \in 0 .. 1
        /\ ~Awaited(r, 2, "extend")' /\ ~Awaited(r, 2, "extend")
        /\ (Awaited(r, 1, "extend") <=> Extending(r) = 1)
        /\ ovLast # NoOvBatch => (Awaited(r, 1, "extend")' <=> Awaited(r, 1, "extend"))
        /\ Joins(r, ovLast, "extend") /\ ovLast # NoOvBatch => Extending(r) = 1
        /\ ovLast = NoOvBatch => Extending(r) = 0 /\ Decoding(r) = 0
    <3>1. Counts(r, b)
      BY <2>4, LaunchedCount
    <3> QED
      BY <2>4, <3>1 DEF Counts, One
  <2>6. Unlaunched(r)'
    BY <2>1, <2>2, <2>3, <2>5 DEF Unlaunched, One
  <2>7. Chunking(r)'
    BY <2>1, <2>2, <2>3, <2>5 DEF Chunking, One
  <2>8. Prefilling(r)'
    BY <2>1, <2>2, <2>3, <2>5 DEF Prefilling
  <2>9. InRunning(r)'
    BY <2>1, <2>2, <2>3, <2>5 DEF InRunning, FirstRead, Prefilling, One
  <2>10. SlotsCount(r)'
    BY <2>1, <2>2, <2>3, <2>5 DEF SlotsCount, One
  <2> QED
    BY <2>6, <2>7, <2>8, <2>9, <2>10 DEF Stages
<1> QED
  BY <1>6, <1>8, <1>9 DEF SlotsInv, Launches

\* The orderings of a finite set are sequences of its elements.
LEMMA InSeqs ==
  ASSUME NEW A, IsFiniteSet(A), NEW s \in SetToSeqs(A)
  PROVE  s \in Seq(A)
<1>1. Cardinality(A) \in Nat
  BY FS_CardinalityType
<1>2. s \in [1 .. Cardinality(A) -> A]
  BY DEF SetToSeqs
<1> QED
  BY <1>1, <1>2

\* The elements of two sequences in one are those of both.
LEMMA JoinedRange ==
  ASSUME NEW S, NEW s \in Seq(S), NEW t \in Seq(S)
  PROVE  Range(s \o t) = Range(s) \cup Range(t)
<1>1. /\ Len(s) \in Nat /\ Len(t) \in Nat /\ DOMAIN s = 1 .. Len(s) /\ DOMAIN t = 1 .. Len(t)
      /\ DOMAIN (s \o t) = 1 .. (Len(s) + Len(t))
      /\ \A i \in 1 .. (Len(s) + Len(t)) : (s \o t)[i] = IF i <= Len(s) THEN s[i] ELSE t[i - Len(s)]
  BY Joined, LenProperties
<1>2. ASSUME NEW x \in Range(s \o t)  PROVE x \in Range(s) \cup Range(t)
  <2>1. PICK i \in 1 .. (Len(s) + Len(t)) : x = (s \o t)[i]
    BY <1>1 DEF Range
  <2>2. CASE i <= Len(s)
    <3>1. i \in DOMAIN s /\ x = s[i]
      BY <1>1, <2>1, <2>2
    <3> QED
      BY <3>1 DEF Range
  <2>3. CASE ~(i <= Len(s))
    <3>1. i - Len(s) \in DOMAIN t /\ x = t[i - Len(s)]
      BY <1>1, <2>1, <2>3
    <3> QED
      BY <3>1 DEF Range
  <2> QED
    BY <2>2, <2>3
<1>3. ASSUME NEW x \in Range(s)  PROVE x \in Range(s \o t)
  <2>1. PICK i \in 1 .. Len(s) : x = s[i]
    BY <1>1 DEF Range
  <2>2. i \in DOMAIN (s \o t) /\ x = (s \o t)[i]
    BY <1>1, <2>1
  <2> QED
    BY <2>2 DEF Range
<1>4. ASSUME NEW x \in Range(t)  PROVE x \in Range(s \o t)
  <2>1. PICK i \in 1 .. Len(t) : x = t[i]
    BY <1>1 DEF Range
  <2>2. /\ Len(s) + i \in 1 .. (Len(s) + Len(t)) /\ ~(Len(s) + i <= Len(s)) /\ (Len(s) + i) - Len(s) = i
    BY <1>1, <2>1
  <2>3. Len(s) + i \in DOMAIN (s \o t) /\ x = (s \o t)[Len(s) + i]
    BY <1>1, <2>1, <2>2
  <2> QED
    BY <2>3 DEF Range
<1> QED
  BY <1>2, <1>3, <1>4

OnceIn(r, reqs) == \A i, j \in DOMAIN reqs : reqs[i] = r /\ reqs[j] = r => i = j

\* The requests of a prefill batch: the one that goes on, and some of those that join.
Prefills(S, reqs, next, running) ==
  /\ ovPc = "schedule" /\ running \in Merged /\ S \subseteq ovWaiting
  /\ reqs \in Seq(OvReqs) /\ reqs # <<>> /\ Range(reqs) \subseteq S \cup {ovInflight}
  /\ ovInflight # OvNone => ovInflight \in Range(reqs)
  /\ next # OvNone => next \in OvReqs /\ next \in S \cup {ovInflight} /\ next \in Range(reqs)
  /\ \A r \in Range(reqs) : r # next => ~(ovReq[r].rounds + 1 < OvRounds[r])
  /\ next # OvNone => ovReq[next].rounds + 1 < OvRounds[next] /\ OnceIn(next, reqs)
  /\ Len(running.reqs) + Len(reqs) <= OvMaxRunning
  /\ Run([mode |-> "extend", reqs |-> reqs, ids |-> [i \in DOMAIN reqs |-> 0]], running)
  /\ ovInflight' = next /\ ovWaiting' = ovWaiting \ S
  /\ ovReq' = [r \in OvReqs |-> IF r \in Range(reqs)
                 THEN [ovReq[r] EXCEPT !.rounds = @ + 1, !.slots = @ + 1, !.inflight = IF r = next THEN @ + 1 ELSE @]
                 ELSE ovReq[r]]
  /\ UNCHANGED <<ovToCome, ovFinished>> /\ UNCHANGED workerVars

\* Every prefill is one of such a batch; the request it cuts is once in it.
LEMMA PrefillBatch ==
  ASSUME OverlapTypes, NEW S, Prefill(S)
  PROVE  \E reqs, next, running : Prefills(S, reqs, next, running)
<1> DEFINE first == IF ovInflight = OvNone THEN <<>> ELSE <<ovInflight>>
           cut == {r \in S \cup Range(first) : ovReq[r].rounds + 1 < OvRounds[r]}
           next == IF cut = {} THEN OvNone ELSE CHOOSE r \in cut : TRUE
           batch(reqs) == [mode |-> "extend", reqs |-> reqs, ids |-> [i \in DOMAIN reqs |-> 0]]
<1>0. \E running \in Merged, whole \in SetToSeqs(S \ cut), last \in SetToSeqs(S \cap cut) :
        /\ ovPc = "schedule" /\ first \o whole \o last # <<>> /\ S \subseteq ovWaiting
        /\ Cardinality(cut) <= 1 /\ (ovInflight \in cut => S = {})
        /\ Len(running.reqs) + Len(first \o whole \o last) <= OvMaxRunning
        /\ Run(batch(first \o whole \o last), running)
        /\ ovInflight' = next /\ ovWaiting' = ovWaiting \ S
        /\ ovReq' = [r \in OvReqs |-> IF r \in Range(first \o whole \o last)
                       THEN [ovReq[r] EXCEPT !.rounds = @ + 1, !.slots = @ + 1, !.inflight = IF r = next THEN @ + 1 ELSE @]
                       ELSE ovReq[r]]
        /\ UNCHANGED <<ovToCome, ovFinished>> /\ UNCHANGED workerVars
  BY DEF Prefill
<1> HIDE DEF batch
<1>1. PICK running \in Merged, whole \in SetToSeqs(S \ cut), last \in SetToSeqs(S \cap cut) :
        /\ ovPc = "schedule" /\ first \o whole \o last # <<>> /\ S \subseteq ovWaiting
        /\ Cardinality(cut) <= 1 /\ (ovInflight \in cut => S = {})
        /\ Len(running.reqs) + Len(first \o whole \o last) <= OvMaxRunning
        /\ Run(batch(first \o whole \o last), running)
        /\ ovInflight' = next /\ ovWaiting' = ovWaiting \ S
        /\ ovReq' = [r \in OvReqs |-> IF r \in Range(first \o whole \o last)
                       THEN [ovReq[r] EXCEPT !.rounds = @ + 1, !.slots = @ + 1, !.inflight = IF r = next THEN @ + 1 ELSE @]
                       ELSE ovReq[r]]
        /\ UNCHANGED <<ovToCome, ovFinished>> /\ UNCHANGED workerVars
  BY <1>0
<1>2. S \subseteq OvReqs /\ IsFiniteSet(OvReqs) /\ ovInflight \in OvReqs \cup {OvNone}
  BY <1>1, OverlapAssumption DEF OverlapTypes
<1>3. /\ first \in Seq(OvReqs) /\ Range(first) = IF ovInflight = OvNone THEN {} ELSE {ovInflight}
  BY <1>2 DEF Range
<1>4. cut \subseteq OvReqs /\ IsFiniteSet(cut) /\ Range(first) \subseteq OvReqs
  BY <1>2, <1>3, FS_Subset
<1>5. \A r, t \in cut : r = t
  <2>1. Cardinality(cut) \in Nat /\ Cardinality(cut) <= 1
    BY <1>1, <1>4, FS_CardinalityType
  <2>2. CASE Cardinality(cut) = 0
    BY <1>4, <2>2, FS_EmptySet
  <2>3. CASE Cardinality(cut) = 1
    BY <1>4, <2>3, FS_Singleton
  <2> QED
    BY <2>1, <2>2, <2>3
<1>6. /\ next # OvNone => next \in cut
      /\ \A r \in cut : r = next
  BY <1>4, <1>5, OverlapAssumption
<1>7. whole \in Seq(OvReqs) /\ last \in Seq(OvReqs) /\ Range(whole) \subseteq S /\ Range(last) \subseteq S
  <2>1. IsFiniteSet(S \ cut) /\ IsFiniteSet(S \cap cut)
    BY <1>2, FS_Subset
  <2>2. whole \in Seq(S \ cut) /\ last \in Seq(S \cap cut)
    BY <2>1, InSeqs
  <2>3. \A T : T \subseteq S => \A s \in Seq(T) : s \in Seq(OvReqs) /\ Range(s) \subseteq S
    <3>1. ASSUME NEW T, T \subseteq S, NEW s \in Seq(T)  PROVE s \in Seq(OvReqs) /\ Range(s) \subseteq S
      <4>1. T \subseteq OvReqs /\ s \in [1 .. Len(s) -> T] /\ DOMAIN s = 1 .. Len(s)
        BY <1>2, <3>1, LenProperties
      <4>2. Range(s) \subseteq T
        BY <4>1 DEF Range
      <4>3. s \in Seq(OvReqs)
        BY <4>1, SeqMonotonic
      <4> QED
        BY <3>1, <4>2, <4>3
    <3> QED
      BY <3>1
  <2> QED
    BY <2>2, <2>3
<1> DEFINE reqs == first \o whole \o last
<1>8. reqs \in Seq(OvReqs) /\ Range(reqs) = Range(first) \cup Range(whole) \cup Range(last)
  <2> HIDE DEF first, cut
  <2>1. first \o whole \in Seq(OvReqs) /\ Range(first \o whole) = Range(first) \cup Range(whole)
    BY <1>3, <1>7, Joined, JoinedRange
  <2> DEFINE front == first \o whole
  <2> HIDE DEF front
  <2>2. front \in Seq(OvReqs) /\ Range(front) = Range(first) \cup Range(whole)
    BY <2>1 DEF front
  <2>3. front \o last \in Seq(OvReqs) /\ Range(front \o last) = Range(front) \cup Range(last)
    BY <1>7, <2>2, Joined, JoinedRange
  <2> QED
    BY <2>2, <2>3 DEF front
<1>9. Range(reqs) \subseteq S \cup {ovInflight} /\ (ovInflight # OvNone => ovInflight \in Range(reqs))
  <2> HIDE DEF first, cut, reqs
  <2> QED
    BY <1>3, <1>7, <1>8
<1>10. \A r \in Range(reqs) : r # next => ~(ovReq[r].rounds + 1 < OvRounds[r])
  <2>1. Range(reqs) \subseteq S \cup Range(first)
    <3> HIDE DEF first, cut, reqs
    <3> QED
      BY <1>7, <1>8
  <2> HIDE DEF reqs, next
  <2> QED
    BY <1>6, <2>1
<1>11. next # OvNone => next \in OvReqs /\ next \in S \cup {ovInflight} /\ ovReq[next].rounds + 1 < OvRounds[next]
  <2> HIDE DEF next
  <2> QED
    BY <1>3, <1>4, <1>6
<1>12. next # OvNone => next \in Range(reqs)
  <2>1. ASSUME next # OvNone, next \in S  PROVE next \in Range(last)
    <3>1. S \cap cut = {next}
      BY <1>6, <2>1
    <3>2. last \in SetToSeqs({next})
      BY <3>1
    <3>3. Cardinality({next}) = 1
      BY FS_Singleton
    <3>4. \A x, y \in Nat : x .. y = {z \in Int : x <= z /\ z <= y}
      OBVIOUS
    <3> HIDE DEF next, cut, first
    <3>5. last \in [1 .. 1 -> {next}]
      BY <3>2, <3>3 DEF SetToSeqs
    <3>6. 1 \in DOMAIN last /\ last[1] = next
      BY <3>5
    <3> QED
      BY <3>6 DEF Range
  <2> HIDE DEF next, reqs, first, cut
  <2>2. ASSUME next # OvNone, next \notin S  PROVE next \in Range(first)
    BY <1>3, <1>11, <2>2
  <2> QED
    BY <1>8, <2>1, <2>2
<1>13. next # OvNone => OnceIn(next, reqs)
  <2> SUFFICES ASSUME next # OvNone  PROVE OnceIn(next, reqs)
    OBVIOUS
  <2>1. /\ first \in Seq(OvReqs) /\ whole \in Seq(OvReqs) /\ last \in Seq(OvReqs)
        /\ Len(first) \in Nat /\ Len(whole) \in Nat /\ Len(last) \in Nat
        /\ DOMAIN first = 1 .. Len(first) /\ DOMAIN whole = 1 .. Len(whole) /\ DOMAIN last = 1 .. Len(last)
    <3> HIDE DEF first
    <3> QED
      BY <1>3, <1>7, LenProperties
  <2>2. Len(first) <= 1 /\ \A i \in DOMAIN first : first[i] = ovInflight
    OBVIOUS
  <2>3. Len(last) <= 1 /\ (S = {} => Len(last) = 0)
    <3>1. IsFiniteSet(S \cap cut) /\ Cardinality(S \cap cut) \in Nat /\ Cardinality(S \cap cut) <= Cardinality(cut)
      BY <1>4, FS_Subset, FS_CardinalityType
    <3>2. Cardinality(cut) \in Nat /\ Cardinality(cut) <= 1
      BY <1>1, <1>4, FS_CardinalityType
    <3>3. S = {} => Cardinality(S \cap cut) = 0
      BY FS_EmptySet
    <3> HIDE DEF cut
    <3>4. last \in [1 .. Cardinality(S \cap cut) -> S \cap cut]
      BY DEF SetToSeqs
    <3>5. 1 .. Len(last) = 1 .. Cardinality(S \cap cut)
      BY <2>1, <3>4
    <3>6. Len(last) = 0 \/ Len(last) \in 1 .. Len(last)
      BY <2>1
    <3> QED
      BY <2>1, <3>1, <3>2, <3>3, <3>5, <3>6
  <2>4. \A i \in DOMAIN whole : whole[i] # next
    <3>1. IsFiniteSet(S \ cut)
      BY <1>2, FS_Subset
    <3>2. whole \in [1 .. Cardinality(S \ cut) -> S \ cut]
      BY DEF SetToSeqs
    <3>3. next \in cut
      BY <1>6
    <3> QED
      BY <3>2, <3>3
  <2>5. next = ovInflight => S = {}
    BY <1>1, <1>6
  <2> HIDE DEF first, cut, next
  <2> DEFINE front == first \o whole
  <2>6. /\ front \in Seq(OvReqs) /\ Len(front) = Len(first) + Len(whole)
        /\ \A i \in 1 .. (Len(first) + Len(whole)) : front[i] = IF i <= Len(first) THEN first[i] ELSE whole[i - Len(first)]
    BY <2>1, Joined
  <2> HIDE DEF front
  <2>7. /\ DOMAIN (front \o last) = 1 .. (Len(front) + Len(last))
        /\ \A i \in 1 .. (Len(front) + Len(last)) : (front \o last)[i] = IF i <= Len(front) THEN front[i] ELSE last[i - Len(front)]
    <3>1. front \in Seq(OvReqs) /\ last \in Seq(OvReqs)
      BY <2>1, <2>6
    <3> QED
      BY <3>1, Joined
  <2>8. \A i \in DOMAIN (front \o last) : (front \o last)[i] = next =>
          \/ i = 1 /\ Len(last) = 0
          \/ i = Len(front) + 1 /\ next # ovInflight
    <3> SUFFICES ASSUME NEW i \in DOMAIN (front \o last), (front \o last)[i] = next
                 PROVE  (i = 1 /\ Len(last) = 0) \/ (i = Len(front) + 1 /\ next # ovInflight)
      OBVIOUS
    <3>1. CASE i <= Len(front)
      <4>1. i \in 1 .. (Len(first) + Len(whole)) /\ front[i] = next
        BY <2>1, <2>6, <2>7, <3>1
      <4>2. i <= Len(first)
        <5>1. ASSUME ~(i <= Len(first))  PROVE FALSE
          <6>1. i - Len(first) \in DOMAIN whole /\ whole[i - Len(first)] = next
            BY <2>1, <2>6, <4>1, <5>1
          <6> QED
            BY <2>4, <6>1
        <5> QED
          BY <5>1
      <4>3. i \in DOMAIN first /\ first[i] = next /\ i = 1
        BY <2>1, <2>2, <2>6, <4>1, <4>2
      <4> QED
        BY <2>2, <2>3, <2>5, <4>3
    <3>2. CASE ~(i <= Len(front))
      <4>1. i = Len(front) + 1 /\ Len(last) = 1
        <5>1. i \in 1 .. (Len(front) + Len(last))
          BY <2>7
        <5>2. Len(front) \in Nat /\ Len(last) \in Nat /\ Len(last) <= 1
          BY <2>1, <2>3, <2>6
        <5>3. \A f, l \in Nat : l <= 1 => \A k \in 1 .. (f + l) : ~(k <= f) => k = f + 1 /\ l = 1
          OBVIOUS
        <5> QED
          BY <3>2, <5>1, <5>2, <5>3
      <4> QED
        BY <2>3, <2>5, <4>1
    <3> QED
      BY <3>1, <3>2
  <2>9. OnceIn(next, front \o last)
    <3> SUFFICES ASSUME NEW i \in DOMAIN (front \o last), NEW j \in DOMAIN (front \o last),
                        (front \o last)[i] = next, (front \o last)[j] = next
                 PROVE  i = j
      BY DEF OnceIn
    <3>1. Len(last) = 0 => i <= Len(front) /\ j <= Len(front)
      BY <2>1, <2>6, <2>7
    <3> QED
      BY <2>1, <2>6, <2>7, <2>8, <3>1
  <2> QED
    BY <2>9 DEF front
<1>14. Prefills(S, reqs, next, running)
  <2> HIDE DEF first, cut, next
  <2> QED
    BY <1>1, <1>8, <1>9, <1>10, <1>11, <1>12, <1>13 DEF Prefills, batch
<1> QED
  BY <1>14

\* Requests that join have run in no batch before; the one that goes on was chunks only.
LEMMA PrefillSlots ==
  ASSUME SlotsInv, NEW S, Prefill(S)
  PROVE  SlotsInv'
<1>0. OverlapTypes /\ ResultsFollow /\ \A r \in OvReqs : Stages(r)
  BY DEF SlotsInv
<1>1. PICK reqs, next, running : Prefills(S, reqs, next, running)
  BY <1>0, PrefillBatch
<1> DEFINE b == [mode |-> "extend", reqs |-> reqs, ids |-> [i \in DOMAIN reqs |-> 0]]
           going(r) == r \in Range(reqs)
<1>2. /\ ovPc = "schedule" /\ running \in Merged /\ S \subseteq ovWaiting
      /\ reqs \in Seq(OvReqs) /\ reqs # <<>> /\ Range(reqs) \subseteq S \cup {ovInflight}
      /\ ovInflight # OvNone => ovInflight \in Range(reqs)
      /\ next # OvNone => next \in OvReqs /\ next \in S \cup {ovInflight}
      /\ Run(b, running) /\ ovInflight' = next /\ ovWaiting' = ovWaiting \ S
      /\ UNCHANGED <<ovToCome, ovFinished>>
  BY <1>1 DEF Prefills
<1>3. IsRunning(running)
  BY <1>0, <1>2, MergedIs
<1>4. IsBatch(b) /\ b.mode = "extend" /\ b.reqs = reqs
  <2>1. DOMAIN reqs = 1 .. Len(reqs) /\ Len(reqs) \in Nat
    BY <1>2, LenProperties
  <2>2. \A m \in Nat : \A s \in [1 .. m -> Int] : s \in Seq(Int) /\ Len(s) = m
    OBVIOUS
  <2>3. b.ids \in [1 .. Len(reqs) -> Int]
    BY <2>1
  <2>4. b.ids \in Seq(Int) /\ Len(b.ids) = Len(reqs)
    BY <2>1, <2>2, <2>3
  <2> QED
    BY <1>2, <2>4 DEF IsBatch, OvBatches
<1> HIDE DEF b
<1>5. Launches(b, running) /\ \A r \in OvReqs : Awaiting(r, b)
  BY <1>0, <1>2, <1>3, <1>4, Launching
<1>6. ASSUME NEW r \in OvReqs
      PROVE  /\ IsState(ovReq'[r])
             /\ ~going(r) => ovReq'[r] = ovReq[r]
             /\ going(r) => /\ ovReq'[r].out = ovReq[r].out /\ ovReq'[r].rounds = ovReq[r].rounds + 1
                            /\ ovReq'[r].slots = ovReq[r].slots + 1
                            /\ ovReq'[r].inflight = IF r = next THEN ovReq[r].inflight + 1 ELSE ovReq[r].inflight
  <2>1. IsState(ovReq[r])
    BY <1>0 DEF OverlapTypes
  <2>2. ovReq'[r] = IF going(r) THEN [ovReq[r] EXCEPT !.rounds = @ + 1, !.slots = @ + 1,
                                                      !.inflight = IF r = next THEN @ + 1 ELSE @]
                    ELSE ovReq[r]
    BY <1>1 DEF Prefills
  <2> HIDE DEF going
  <2>3. CASE going(r)
    <3>1. ovReq'[r] = [out |-> ovReq[r].out, inflight |-> IF r = next THEN ovReq[r].inflight + 1 ELSE ovReq[r].inflight,
                       rounds |-> ovReq[r].rounds + 1, slots |-> ovReq[r].slots + 1]
      BY <2>1, <2>2, <2>3 DEF IsState
    <3> QED
      BY <2>1, <2>3, <3>1 DEF IsState
  <2> QED
    BY <2>1, <2>2, <2>3
<1>7. OverlapTypes'
  <2>1. ovReq' = [r \in OvReqs |-> ovReq'[r]]
    BY <1>1 DEF Prefills
  <2>2. /\ ovToCome' \subseteq OvReqs /\ ovWaiting' \subseteq OvReqs /\ ovFinished' \subseteq OvReqs
        /\ ovToCome' \cap ovWaiting' = {} /\ ovInflight' \in OvReqs \cup {OvNone}
    BY <1>0, <1>2 DEF OverlapTypes
  <2> QED
    BY <1>5, <1>6, <2>1, <2>2 DEF OverlapTypes, Launches
<1>8. ASSUME NEW r \in OvReqs
      PROVE  Stages(r)'
  <2>1. /\ Unlaunched(r) /\ Chunking(r) /\ Prefilling(r) /\ InRunning(r) /\ SlotsCount(r)
        /\ ovReq[r].inflight \in Nat /\ ovReq[r].rounds \in Nat /\ ovReq[r].slots \in Int
    BY <1>0 DEF Stages, OverlapTypes, IsState
  <2>2. /\ ~going(r) => ovReq'[r] = ovReq[r]
        /\ going(r) => /\ ovReq'[r].out = ovReq[r].out /\ ovReq'[r].rounds = ovReq[r].rounds + 1
                       /\ ovReq'[r].slots = ovReq[r].slots + 1
                       /\ ovReq'[r].inflight = IF r = next THEN ovReq[r].inflight + 1 ELSE ovReq[r].inflight
    BY <1>6
  <2>3. /\ ovRunning'.reqs = running.reqs /\ ovPc' \in {"schedule", "result"}
        /\ (ovPc' = "schedule" <=> ovLast = NoOvBatch) /\ ovPc = "schedule"
        /\ ovToCome' = ovToCome /\ ovWaiting' = ovWaiting \ S /\ ovFinished' = ovFinished /\ ovInflight' = next
    BY <1>2, <1>4, <1>5 DEF Launches
  <2>4. /\ going(r) => r \in S \/ r = ovInflight
        /\ r \in S => r \in ovWaiting
        /\ r = ovInflight => going(r)
        /\ r = next => r \in S \/ r = ovInflight
    BY <1>2, OverlapAssumption
  <2>5. r \in Range(running.reqs) => \/ r \in Range(ovRunning.reqs)
                                     \/ Joins(r, ovLast, "extend") /\ ovLast # NoOvBatch /\ r # ovInflight
    BY <1>0, <1>2, MergedRange DEF Joins, NoOvBatch
  <2>6. Counts(r, b) /\ ~Joins(r, b, "decode") /\ (Joins(r, b, "extend") <=> going(r))
    BY <1>4, <1>5, LaunchedCount DEF Joins
  <2> HIDE DEF going
  <2>7. /\ Decoding(r)' = Decoding(r) /\ Extending(r)' = Extending(r) + One(going(r))
        /\ Decoding(r) \in 0 .. 1 /\ Extending(r) \in 0 .. 1
        /\ ~Awaited(r, 2, "extend")
        /\ (Awaited(r, 1, "extend") <=> Extending(r) = 1)
        /\ ovLast # NoOvBatch => (Awaited(r, 1, "extend")' <=> Awaited(r, 1, "extend"))
        /\ ovLast # NoOvBatch => (Awaited(r, 2, "extend")' <=> going(r))
        /\ ovLast = NoOvBatch => ~Awaited(r, 2, "extend")'
        /\ Joins(r, ovLast, "extend") /\ ovLast # NoOvBatch => Extending(r) = 1
        /\ ovLast = NoOvBatch => Extending(r) = 0 /\ Decoding(r) = 0
    BY <2>6 DEF Counts, One
  <2>8. CASE going(r)
    <3>0. ovReq[r].out = <<>> /\ r \notin ovFinished /\ Decoding(r) = 0 /\ r \notin Range(running.reqs)
          /\ r \notin ovToCome /\ ovReq[r].inflight = Extending(r)
      BY <1>0, <2>1, <2>4, <2>5, <2>7, <2>8 DEF Unlaunched, Chunking, OverlapTypes
    <3>1. Unlaunched(r)'
      BY <2>1, <2>3, <2>4, <2>8, <3>0 DEF Unlaunched
    <3>2. Chunking(r)'
      BY <2>2, <2>3, <2>7, <2>8, <3>0 DEF Chunking, One
    <3>3. Prefilling(r)'
      BY <2>1, <2>2, <2>3, <2>7, <2>8, <3>0 DEF Prefilling, One
    <3>4. InRunning(r)'
      <4>1. r \notin Range(ovRunning'.reqs) /\ ~(Decoding(r)' > 0)
        BY <2>3, <2>7, <3>0
      <4> QED
        BY <4>1 DEF InRunning
    <3>5. SlotsCount(r)'
      BY <2>1, <2>2, <2>3, <2>7, <2>8, <3>0 DEF SlotsCount
    <3> QED
      BY <3>1, <3>2, <3>3, <3>4, <3>5 DEF Stages
  <2>9. CASE ~going(r)
    <3>0. /\ Extending(r)' = Extending(r) /\ Decoding(r)' = Decoding(r) /\ ovReq'[r] = ovReq[r]
          /\ r # ovInflight
          /\ r = next => r \in ovWaiting
          /\ ~Awaited(r, 2, "extend")'
      BY <2>2, <2>4, <2>7, <2>9 DEF One
    <3>1. Unlaunched(r)'
      <4>1. r \in ovToCome' \cup ovWaiting' => r \in ovToCome \cup ovWaiting /\ r # next
        BY <1>0, <2>3, <2>4, <3>0 DEF OverlapTypes
      <4> QED
        BY <2>1, <2>3, <2>5, <2>7, <3>0, <4>1 DEF Unlaunched
    <3>2. Chunking(r)'
      BY <2>1, <2>3, <2>4, <2>5, <2>7, <3>0 DEF Unlaunched, Chunking
    <3>3. Prefilling(r)'
      BY <2>1, <2>3, <2>4, <3>0 DEF Prefilling
    <3>4. InRunning(r)'
      BY <2>1, <2>3, <2>4, <2>5, <2>7, <3>0 DEF InRunning, FirstRead, Prefilling
    <3>5. SlotsCount(r)'
      BY <2>1, <2>3, <3>0 DEF SlotsCount
    <3> QED
      BY <3>1, <3>2, <3>3, <3>4, <3>5 DEF Stages
  <2> QED
    BY <2>8, <2>9
<1> QED
  BY <1>5, <1>7, <1>8 DEF SlotsInv, Launches

\* The running batch is let go when all of it is finished.
LEMMA NothingSlots ==
  ASSUME SlotsInv, NothingToRun
  PROVE  SlotsInv'
<1>1. /\ ovPc = "schedule" /\ ovRunning' = NoOvBatch /\ ovLast' = NoOvBatch /\ ovPc' = ThenRead
      /\ UNCHANGED <<ovToCome, ovWaiting, ovInflight, ovResults, ovCt, ovReq, ovFinished>>
  BY DEF NothingToRun
<1>2. OverlapTypes /\ ResultsFollow /\ \A r \in OvReqs : Stages(r)
  BY DEF SlotsInv
<1>3. /\ NoOvBatch.reqs = <<>> /\ NoOvBatch.mode = "none" /\ Range(NoOvBatch.reqs) = {}
      /\ IsRunning(NoOvBatch)
  <2>1. \A S : <<>> \in Seq(S) /\ Len(<<>>) = 0
    BY EmptySeq
  <2> QED
    BY <2>1 DEF NoOvBatch, Range, IsRunning, IsBatch, OvBatches
<1>4. OverlapTypes'
  BY <1>1, <1>2, <1>3 DEF OverlapTypes, ThenRead, IsRunning
<1>5. ResultsFollow'
  <2>1. <<>> \in Seq(OvBatches) /\ Len(<<>>) = 0
    BY EmptySeq
  <2> QED
    BY <1>1, <1>2, <2>1 DEF ResultsFollow, ThenRead
<1>6. ASSUME NEW r \in OvReqs  PROVE Stages(r)'
  <2>1. Unlaunched(r) /\ Chunking(r) /\ Prefilling(r) /\ InRunning(r) /\ SlotsCount(r)
    BY <1>2 DEF Stages
  <2>2. /\ \A i, mode : Awaited(r, i, mode)' <=> Awaited(r, i, mode)
        /\ Decoding(r)' = Decoding(r) /\ Extending(r)' = Extending(r)
    BY <1>1 DEF Decoding, Extending, Awaited
  <2>3. r \notin Range(ovRunning'.reqs)
    BY <1>1, <1>3
  <2>4. Unlaunched(r)' /\ Chunking(r)' /\ Prefilling(r)' /\ SlotsCount(r)'
    BY <1>1, <2>1, <2>2, <2>3 DEF Unlaunched, Chunking, Prefilling, SlotsCount
  <2>5. InRunning(r)'
    BY <1>1, <2>1, <2>2, <2>3 DEF InRunning, FirstRead
  <2> QED
    BY <2>4, <2>5 DEF Stages
<1> QED
  BY <1>4, <1>5, <1>6 DEF SlotsInv

\* A request that arrives has run in no batch.
LEMMA ReceiveSlots ==
  ASSUME SlotsInv, NEW t \in OvReqs, OvReceive(t)
  PROVE  SlotsInv'
<1>1. /\ ovPc = "schedule" /\ t \in ovToCome /\ ovToCome' = ovToCome \ {t} /\ ovWaiting' = ovWaiting \cup {t}
      /\ UNCHANGED <<ovRunning, ovLast, ovInflight, ovResults, ovCt, ovReq, ovFinished, ovPc>>
  BY DEF OvReceive
<1>2. OverlapTypes /\ ResultsFollow /\ \A r \in OvReqs : Stages(r)
  BY DEF SlotsInv
<1>3. OverlapTypes' /\ ResultsFollow'
  BY <1>1, <1>2 DEF OverlapTypes, ResultsFollow
<1>4. ASSUME NEW r \in OvReqs  PROVE Stages(r)'
  <2>1. Unlaunched(r) /\ Chunking(r) /\ Prefilling(r) /\ InRunning(r) /\ SlotsCount(r)
    BY <1>2 DEF Stages
  <2>2. /\ \A i, mode : Awaited(r, i, mode)' <=> Awaited(r, i, mode)
        /\ Decoding(r)' = Decoding(r) /\ Extending(r)' = Extending(r)
    BY <1>1 DEF Decoding, Extending, Awaited
  <2>3. r \in ovToCome' \cup ovWaiting' => r \in ovToCome \cup ovWaiting
    BY <1>1
  <2>4. Unlaunched(r)' /\ Chunking(r)' /\ Prefilling(r)' /\ SlotsCount(r)'
    BY <1>1, <2>1, <2>2, <2>3 DEF Unlaunched, Chunking, Prefilling, SlotsCount
  <2>5. InRunning(r)'
    BY <1>1, <2>1, <2>2 DEF InRunning, FirstRead
  <2> QED
    BY <2>4, <2>5 DEF Stages
<1> QED
  BY <1>3, <1>4 DEF SlotsInv

\* An aborted request gives its slots back: it waited and has none, or runs.
LEMMA AbortSlots ==
  ASSUME SlotsInv, NEW t \in OvReqs, OvAbort(t)
  PROVE  SlotsInv'
<1>1. /\ ovPc = "schedule" /\ t \in (ovWaiting \cup Range(ovRunning.reqs)) \ ovFinished
      /\ ovWaiting' = ovWaiting \ {t} /\ ovFinished' = ovFinished \cup {t}
      /\ ovReq' = IF t \in ovWaiting THEN ovReq ELSE [ovReq EXCEPT ![t].slots = GiveBack(t, ovReq[t].out)]
      /\ UNCHANGED <<ovToCome, ovRunning, ovLast, ovInflight, ovResults, ovCt, ovPc>>
  BY DEF OvAbort
<1>2. OverlapTypes /\ ResultsFollow /\ \A r \in OvReqs : Stages(r)
  BY DEF SlotsInv
<1>3. ResultsFollow'
  BY <1>1, <1>2 DEF ResultsFollow
<1>4. ASSUME NEW r \in OvReqs
      PROVE  /\ ovReq'[r].out = ovReq[r].out /\ ovReq'[r].rounds = ovReq[r].rounds
             /\ ovReq'[r].inflight = ovReq[r].inflight
             /\ ovReq'[r].slots = IF r = t /\ t \notin ovWaiting
                                  THEN ovReq[r].slots - (ovReq[r].rounds + Len(ovReq[r].out) - 1) ELSE ovReq[r].slots
             /\ IsState(ovReq'[r])
  <2>1. IsState(ovReq[r]) /\ ovReq = [s \in OvReqs |-> ovReq[s]]
    BY <1>2 DEF OverlapTypes
  <2>2. Len(ovReq[r].out) \in Nat
    BY <2>1, LenProperties DEF IsState
  <2>3. CASE r = t /\ t \notin ovWaiting
    <3>1. ovReq'[r] = [ovReq[r] EXCEPT !.slots = ovReq[r].slots - (ovReq[r].rounds + Len(ovReq[r].out) - 1)]
      BY <1>1, <2>1, <2>3 DEF GiveBack
    <3>2. ovReq'[r] = [out |-> ovReq[r].out, inflight |-> ovReq[r].inflight, rounds |-> ovReq[r].rounds,
                       slots |-> ovReq[r].slots - (ovReq[r].rounds + Len(ovReq[r].out) - 1)]
      BY <2>1, <3>1 DEF IsState
    <3> QED
      BY <2>1, <2>2, <2>3, <3>2 DEF IsState
  <2>4. CASE ~(r = t /\ t \notin ovWaiting)
    <3>1. ovReq'[r] = ovReq[r]
      BY <1>1, <2>1, <2>4
    <3> QED
      BY <2>1, <2>4, <3>1
  <2> QED
    BY <2>3, <2>4
<1>5. OverlapTypes'
  <2>1. ovReq' = [r \in OvReqs |-> ovReq'[r]]
    BY <1>1, <1>2 DEF OverlapTypes
  <2> QED
    BY <1>1, <1>2, <1>4, <2>1 DEF OverlapTypes
<1>6. ASSUME NEW r \in OvReqs  PROVE Stages(r)'
  <2>1. /\ Unlaunched(r) /\ Chunking(r) /\ Prefilling(r) /\ InRunning(r) /\ SlotsCount(r)
        /\ Unlaunched(t) /\ Chunking(t) /\ InRunning(t)
        /\ ovReq[r].rounds \in Nat /\ Len(ovReq[r].out) \in Nat
    BY <1>2, LenProperties DEF Stages, OverlapTypes, IsState
  <2>2. /\ \A i, mode : Awaited(r, i, mode)' <=> Awaited(r, i, mode)
        /\ Decoding(r)' = Decoding(r) /\ Extending(r)' = Extending(r)
        /\ Decoding(r) \in Nat /\ Extending(r) \in Nat
    BY <1>1 DEF Decoding, Extending, Awaited, One
  <2>3. r = t => /\ Extending(r) = 0 /\ r # ovInflight
                 /\ r \notin ovToCome' /\ r \notin ovWaiting'
    BY <1>1, <1>2, <2>1 DEF Unlaunched, Chunking, InRunning, OverlapTypes
  <2>4. Unlaunched(r)'
    BY <1>1, <1>4, <2>1, <2>2, <2>3 DEF Unlaunched
  <2>5. Chunking(r)'
    BY <1>1, <1>4, <2>1, <2>2, <2>3 DEF Chunking
  <2>6. Prefilling(r)'
    BY <1>1, <1>4, <2>1, <2>2, <2>3 DEF Prefilling
  <2>7. InRunning(r)'
    BY <1>1, <1>4, <2>1, <2>2 DEF InRunning, FirstRead
  <2>8. SlotsCount(r)'
    <3>1. CASE r # t
      BY <1>1, <1>4, <2>1, <2>2, <3>1 DEF SlotsCount
    <3>2. CASE r = t /\ t \in ovWaiting
      <4>1. ovReq[r].out = <<>> /\ ovReq[r].rounds = 0 /\ r \notin ovFinished /\ Decoding(r) = 0
        BY <1>1, <2>1, <3>2 DEF Unlaunched
      <4>2. ovReq[r].slots = 0
        BY <2>1, <4>1 DEF SlotsCount
      <4>3. ovReq'[r].slots = 0 /\ r \in ovFinished' /\ Decoding(r)' = 0
        BY <1>1, <1>4, <2>2, <3>2, <4>1, <4>2
      <4> QED
        BY <4>3 DEF SlotsCount
    <3>3. CASE r = t /\ t \notin ovWaiting
      <4>1. ovReq[r].out # <<>> /\ r \notin ovFinished
        BY <1>1, <2>1, <3>3 DEF InRunning, FirstRead
      <4> QED
        BY <1>1, <1>4, <2>1, <2>2, <3>3, <4>1 DEF SlotsCount
    <3> QED
      BY <3>1, <3>2, <3>3
  <2> QED
    BY <2>4, <2>5, <2>6, <2>7, <2>8 DEF Stages
<1> QED
  BY <1>3, <1>5, <1>6 DEF SlotsInv

\* What reading one result changes of the results to come.
LEMMA ResultsShift ==
  ASSUME OverlapTypes, ResultsFollow, ovPc = "result", ovResults' = Tail(ovResults), ovPc' = "schedule",
         ovLast' = ovLast
  PROVE  /\ ResultsFollow' /\ ovResults' \in Seq(OvBatches)
         /\ \A i \in DOMAIN ovResults' : ovResults'[i].mode # "none"
         /\ Head(ovResults) = ovResults[1] /\ ovResults[1] \in OvBatches /\ ovResults[1].mode \in {"extend", "decode"}
         /\ \A r, mode : /\ Awaited(r, 1, mode)' <=> Awaited(r, 2, mode)
                         /\ ~Awaited(r, 2, mode)'
                         /\ Awaited(r, 1, mode) <=> Joins(r, ovResults[1], mode)
<1> DEFINE s == ovResults
           n == Len(s)
           u == Tail(s)
<1>1. s \in Seq(OvBatches) /\ \A i \in DOMAIN s : s[i].mode # "none"
  BY DEF OverlapTypes
<1>2. /\ n \in {1, 2} /\ (n = 1 <=> ovLast = NoOvBatch)
      /\ n = 2 => SameBatch(s[2], ovLast)
  BY DEF ResultsFollow
<1> HIDE DEF s
<1>3. s # <<>>
  <2>1. Len(<<>>) = 0
    OBVIOUS
  <2>2. n # 0
    BY <1>2
  <2> QED
    BY <2>1, <2>2
<1> HIDE DEF n
<1>4. /\ u \in Seq(OvBatches) /\ Len(u) = n - 1
      /\ \A i \in 1 .. (n - 1) : u[i] = s[i + 1]
      /\ DOMAIN s = 1 .. n /\ DOMAIN u = 1 .. (n - 1)
      /\ Head(s) = s[1]
  BY <1>1, <1>3, HeadTailProperties, LenProperties DEF n
<1> HIDE DEF u
<1>5. ovResults' = u /\ ovResults = s
  BY DEF s, u
<1>6. \A i \in DOMAIN u : i + 1 \in DOMAIN s /\ u[i] = s[i + 1]
  BY <1>2, <1>4
<1>7. 1 \in DOMAIN s /\ (2 \in DOMAIN s <=> 1 \in DOMAIN u) /\ 2 \notin DOMAIN u
  BY <1>2, <1>4
<1>8. 1 \in DOMAIN u => u[1] = s[2]
  BY <1>6
<1>9. \A r, mode : /\ Awaited(r, 1, mode)' <=> Awaited(r, 2, mode)
                   /\ ~Awaited(r, 2, mode)'
                   /\ Awaited(r, 1, mode) <=> Joins(r, ovResults[1], mode)
  BY <1>5, <1>7, <1>8 DEF Awaited, Joins
<1>10. ResultsFollow'
  <2>1. CASE n = 1
    <3>1. u = <<>>
      BY <1>4, <2>1, EmptySeq
    <3> QED
      BY <1>2, <1>5, <2>1, <3>1 DEF ResultsFollow
  <2>2. CASE n = 2
    <3>1. Len(u) = 1 /\ SameBatch(u[1], ovLast)
      BY <1>2, <1>4, <1>7, <1>8, <2>2
    <3> QED
      BY <1>2, <1>5, <2>2, <3>1 DEF ResultsFollow
  <2> QED
    BY <1>2, <2>1, <2>2
<1>11. s[1] \in OvBatches /\ s[1].mode \in {"extend", "decode"}
  <2>1. s[1] \in OvBatches
    BY <1>1, <1>4, <1>7, ElementOfSeq DEF n
  <2>2. s[1].mode \in {"none", "extend", "decode"}
    BY <2>1 DEF OvBatches
  <2> QED
    BY <1>1, <1>7, <2>1, <2>2
<1> QED
  BY <1>1, <1>4, <1>5, <1>6, <1>9, <1>10, <1>11

\* What the result of a batch makes of a request, written out field by field.
Read(q, mode, r, token, stop) ==
  IF mode = "decode" /\ r \in ovFinished
    THEN [out |-> q.out, inflight |-> q.inflight, rounds |-> q.rounds, slots |-> q.slots - 1]
  ELSE IF mode = "extend" /\ q.inflight > 0
    THEN [out |-> q.out, inflight |-> q.inflight - 1, rounds |-> q.rounds, slots |-> q.slots]
  ELSE [out |-> Append(q.out, token), inflight |-> q.inflight, rounds |-> q.rounds,
        slots |-> IF stop \/ Len(q.out) + 1 >= OvMaxNew \/ r \in ovFinished
                  THEN q.slots - (q.rounds + Len(q.out)) ELSE q.slots]

\* That is what it is, and it is a state again.
LEMMA ReadState ==
  ASSUME OverlapTypes, NEW r \in OvReqs, NEW mode, NEW token, NEW stop
  PROVE  /\ ResultOf(mode, r, token, stop) = Read(ovReq[r], mode, r, token, stop)
         /\ IsState(Read(ovReq[r], mode, r, token, stop))
<1> DEFINE q == ovReq[r]
           out == Append(q.out, token)
           slots == IF stop \/ Len(q.out) + 1 >= OvMaxNew \/ r \in ovFinished
                    THEN q.slots - (q.rounds + Len(q.out)) ELSE q.slots
<1>1. /\ q = [out |-> q.out, inflight |-> q.inflight, rounds |-> q.rounds, slots |-> q.slots]
      /\ q.out \in Seq(Range(q.out)) /\ q.inflight \in Nat /\ q.rounds \in Nat /\ q.slots \in Int
  BY DEF OverlapTypes, IsState
<1>2. /\ Len(q.out) \in Nat /\ Len(out) = Len(q.out) + 1 /\ out \in Seq(Range(out))
  <2> HIDE DEF q
  <2> QED
    BY <1>1, Appended
<1> HIDE DEF out
<1>3. CASE mode = "decode" /\ r \in ovFinished
  <2>1. ResultOf(mode, r, token, stop) = [q EXCEPT !.slots = @ - 1]
    BY <1>3 DEF ResultOf, FinishedBefore
  <2> HIDE DEF q
  <2>2. Read(q, mode, r, token, stop) = [out |-> q.out, inflight |-> q.inflight, rounds |-> q.rounds, slots |-> q.slots - 1]
    BY <1>3 DEF Read
  <2>3. ResultOf(mode, r, token, stop) = Read(q, mode, r, token, stop)
    BY <1>1, <2>1, <2>2
  <2>4. IsState(Read(q, mode, r, token, stop))
    BY <1>1, <2>2, NewState
  <2> QED
    BY <2>3, <2>4 DEF q
<1>4. CASE ~(mode = "decode" /\ r \in ovFinished) /\ mode = "extend" /\ q.inflight > 0
  <2>1. ResultOf(mode, r, token, stop) = [q EXCEPT !.inflight = @ - 1]
    BY <1>4 DEF ResultOf, FinishedBefore
  <2> HIDE DEF q
  <2>2. Read(q, mode, r, token, stop) = [out |-> q.out, inflight |-> q.inflight - 1, rounds |-> q.rounds, slots |-> q.slots]
    BY <1>4 DEF Read
  <2>3. ResultOf(mode, r, token, stop) = Read(q, mode, r, token, stop)
    BY <1>1, <2>1, <2>2
  <2>4. IsState(Read(q, mode, r, token, stop))
    <3>1. q.inflight - 1 \in Nat
      BY <1>1, <1>4
    <3> QED
      BY <1>1, <2>2, <3>1, NewState
  <2> QED
    BY <2>3, <2>4 DEF q
<1>5. CASE ~(mode = "decode" /\ r \in ovFinished) /\ ~(mode = "extend" /\ q.inflight > 0)
  <2>1. ResultOf(mode, r, token, stop) =
          IF stop \/ Len(out) >= OvMaxNew \/ r \in ovFinished
            THEN [q EXCEPT !.out = out, !.slots = GiveBack(r, out)] ELSE [q EXCEPT !.out = out]
    BY <1>5 DEF ResultOf, FinishedBefore, out
  <2>2. GiveBack(r, out) = q.slots - (q.rounds + Len(q.out))
    BY <1>1, <1>2 DEF GiveBack
  <2> HIDE DEF q
  <2>3. ResultOf(mode, r, token, stop) = [out |-> out, inflight |-> q.inflight, rounds |-> q.rounds, slots |-> slots]
    BY <1>1, <1>2, <2>1, <2>2
  <2>4. Read(q, mode, r, token, stop) = [out |-> out, inflight |-> q.inflight, rounds |-> q.rounds, slots |-> slots]
    BY <1>5 DEF Read, out
  <2>5. slots \in Int
    BY <1>1, <1>2
  <2> HIDE DEF slots
  <2>6. IsState(Read(q, mode, r, token, stop))
    BY <1>1, <1>2, <2>4, <2>5, NewState
  <2> QED
    BY <2>3, <2>4, <2>6 DEF q
<1> QED
  BY <1>3, <1>4, <1>5

\* The results read are those of the batch launched first.
LEMMA ResultSlots ==
  ASSUME SlotsInv, NEW Stops, ProcessResult(Stops)
  PROVE  SlotsInv'
<1> DEFINE b == Head(ovResults)
           tokens == Head(ovOutput)
           at(r) == CHOOSE i \in DOMAIN b.reqs : b.reqs[i] = r
           read(r) == r \in Range(b.reqs)
<1>0. OverlapTypes /\ ResultsFollow /\ \A r \in OvReqs : Stages(r)
  BY DEF SlotsInv
<1>1. /\ ovPc = "result" /\ ovResults' = Tail(ovResults) /\ ovPc' = "schedule"
      /\ UNCHANGED <<ovToCome, ovWaiting, ovRunning, ovLast, ovInflight, ovCt>>
  BY DEF ProcessResult
<1>2. /\ ResultsFollow' /\ ovResults' \in Seq(OvBatches)
      /\ \A i \in DOMAIN ovResults' : ovResults'[i].mode # "none"
      /\ b \in OvBatches /\ b.mode \in {"extend", "decode"}
      /\ \A r, mode : /\ Awaited(r, 1, mode)' <=> Awaited(r, 2, mode)
                      /\ ~Awaited(r, 2, mode)'
                      /\ Awaited(r, 1, mode) <=> Joins(r, b, mode)
  BY <1>0, <1>1, ResultsShift
<1>3. /\ ovReq' = [r \in OvReqs |-> IF read(r) THEN ResultOf(b.mode, r, tokens[at(r)], r \in Stops) ELSE ovReq[r]]
      /\ ovFinished' = ovFinished \cup {r \in Range(b.reqs) : Finishes(b.mode, r, r \in Stops)}
  BY DEF ProcessResult
<1>4. Range(b.reqs) \subseteq OvReqs
  <2>1. b.reqs \in Seq(OvReqs)
    BY <1>2 DEF OvBatches
  <2> QED
    BY <2>1, LenProperties DEF Range
<1> HIDE DEF b, tokens, at
<1>5. ASSUME NEW r \in OvReqs
      PROVE  /\ IsState(ovReq'[r])
             /\ read(r) => ovReq'[r] = Read(ovReq[r], b.mode, r, tokens[at(r)], r \in Stops)
             /\ ~read(r) => ovReq'[r] = ovReq[r]
  <2>1. IsState(ovReq[r])
    BY <1>0 DEF OverlapTypes
  <2>2. CASE read(r)
    <3>1. ovReq'[r] = ResultOf(b.mode, r, tokens[at(r)], r \in Stops)
      BY <1>3, <2>2
    <3> QED
      BY <1>0, <2>2, <3>1, ReadState
  <2>3. CASE ~read(r)
    BY <1>3, <2>1, <2>3
  <2> QED
    BY <2>2, <2>3
<1>6. OverlapTypes'
  <2>1. ovReq' = [r \in OvReqs |-> ovReq'[r]]
    BY <1>3
  <2>2. ovFinished' \subseteq OvReqs
    BY <1>0, <1>3, <1>4 DEF OverlapTypes
  <2> QED
    BY <1>0, <1>1, <1>2, <1>5, <2>1, <2>2 DEF OverlapTypes
<1>7. ASSUME NEW r \in OvReqs  PROVE Stages(r)'
  <2> DEFINE q == ovReq[r]
             p == ovReq'[r]
             t == tokens[at(r)]
             ends == r \in Stops \/ Len(q.out) + 1 >= OvMaxNew
  <2>1. /\ Unlaunched(r) /\ Chunking(r) /\ Prefilling(r) /\ InRunning(r) /\ SlotsCount(r)
        /\ q.inflight \in Nat /\ q.rounds \in Nat /\ q.slots \in Int /\ q.out \in Seq(Range(q.out))
    BY <1>0 DEF Stages, OverlapTypes, IsState
  <2>2. /\ Awaited(r, 1, "extend")' <=> Awaited(r, 2, "extend")
        /\ Awaited(r, 1, "decode")' <=> Awaited(r, 2, "decode")
        /\ ~Awaited(r, 2, "extend")' /\ ~Awaited(r, 2, "decode")'
        /\ Awaited(r, 1, "extend") <=> b.mode = "extend" /\ read(r)
        /\ Awaited(r, 1, "decode") <=> b.mode = "decode" /\ read(r)
    BY <1>2 DEF Joins
  <2>3. /\ Decoding(r)' = Decoding(r) - One(b.mode = "decode" /\ read(r))
        /\ Extending(r)' = Extending(r) - One(b.mode = "extend" /\ read(r))
        /\ Decoding(r) = One(Awaited(r, 1, "decode")) + One(Awaited(r, 2, "decode"))
        /\ Extending(r) = One(Awaited(r, 1, "extend")) + One(Awaited(r, 2, "extend"))
    <3>1. /\ Decoding(r)' = One(Awaited(r, 2, "decode")) + 0
          /\ Extending(r)' = One(Awaited(r, 2, "extend")) + 0
      BY <2>2 DEF Decoding, Extending, One
    <3> QED
      BY <2>2, <3>1 DEF Decoding, Extending, One
  <2>4. read(r) => p = Read(q, b.mode, r, t, r \in Stops)
    BY <1>5
  <2>5. /\ ovToCome' = ovToCome /\ ovWaiting' = ovWaiting /\ ovRunning' = ovRunning /\ ovInflight' = ovInflight
        /\ ovPc = "result" /\ ovPc' = "schedule"
        /\ r \in ovFinished' <=> r \in ovFinished \/ (read(r) /\ Finishes(b.mode, r, r \in Stops))
    BY <1>1, <1>3
  <2>6. /\ Append(q.out, t) # <<>> /\ Len(Append(q.out, t)) = Len(q.out) + 1 /\ Len(q.out) \in Nat
        /\ q.out = <<>> <=> Len(q.out) = 0
    <3> HIDE DEF q, t
    <3> QED
      BY <2>1, Appended
  <2> HIDE DEF read, t
  <2>7. CASE ~read(r)
    <3>1. p = q /\ (r \in ovFinished' <=> r \in ovFinished)
      BY <1>5, <2>5, <2>7
    <3>2. Decoding(r)' = Decoding(r) /\ Extending(r)' = Extending(r)
      BY <2>3, <2>7 DEF One
    <3>3. Unlaunched(r)' /\ Chunking(r)' /\ Prefilling(r)' /\ SlotsCount(r)'
      BY <2>1, <2>5, <3>1, <3>2 DEF Unlaunched, Chunking, Prefilling, SlotsCount
    <3>4. InRunning(r)'
      BY <2>1, <2>2, <2>3, <2>5, <2>7, <3>1, <3>2 DEF InRunning, FirstRead, One
    <3> QED
      BY <3>3, <3>4 DEF Stages
  <2>8. CASE read(r) /\ b.mode = "decode"
    <3>1. /\ Decoding(r) > 0 /\ Decoding(r)' = Decoding(r) - 1 /\ Awaited(r, 1, "decode") /\ ~Awaited(r, 1, "extend")
          /\ Extending(r)' = Extending(r)
      BY <2>2, <2>3, <2>8 DEF One
    <3>2. FirstRead(r) /\ ~Awaited(r, 2, "extend") /\ (q.out # <<>> \/ r \in ovFinished)
      BY <2>1, <3>1 DEF InRunning, FirstRead
    <3>3. Extending(r) = 0
      BY <2>3, <3>1, <3>2 DEF One
    <3>4. r # ovInflight /\ r \notin ovToCome \cup ovWaiting
      BY <2>1, <3>1 DEF Unlaunched, Chunking
    <3>5. Unlaunched(r)' /\ Chunking(r)'
      BY <2>5, <3>4 DEF Unlaunched, Chunking
    <3>6. CASE r \in ovFinished
      <4>1. p = [out |-> q.out, inflight |-> q.inflight, rounds |-> q.rounds, slots |-> q.slots - 1]
        BY <2>4, <2>8, <3>6 DEF Read
      <4>2. r \in ovFinished'
        BY <2>5, <3>6
      <4>3. Prefilling(r)' /\ InRunning(r)'
        BY <2>2, <3>1, <3>2, <3>3, <4>2 DEF Prefilling, InRunning, FirstRead
      <4>4. SlotsCount(r)'
        BY <2>1, <2>3, <3>1, <3>6, <4>1, <4>2 DEF SlotsCount, One
      <4> QED
        BY <3>5, <4>3, <4>4 DEF Stages
    <3>7. CASE r \notin ovFinished
      <4>1. p = [out |-> Append(q.out, t), inflight |-> q.inflight, rounds |-> q.rounds,
                 slots |-> IF ends THEN q.slots - (q.rounds + Len(q.out)) ELSE q.slots]
        BY <2>4, <2>8, <3>7 DEF Read
      <4>2. r \in ovFinished' <=> ends
        BY <2>5, <2>8, <3>7 DEF Finishes, FinishedBefore
      <4>3. q.inflight = 0 /\ q.out # <<>>
        BY <2>1, <3>2, <3>3, <3>4, <3>7 DEF Prefilling
      <4>4. p.out # <<>> /\ Len(p.out) = Len(q.out) + 1 /\ p.inflight = 0 /\ p.rounds = q.rounds
            /\ p.slots = IF ends THEN q.slots - (q.rounds + Len(q.out)) ELSE q.slots
        BY <2>6, <4>1, <4>3
      <4>5. q.slots = Decoding(r) + (q.rounds + (Len(q.out) - 1))
        BY <2>1, <3>7, <4>3 DEF SlotsCount
      <4> HIDE DEF ends
      <4>6. Prefilling(r)' /\ InRunning(r)'
        BY <2>2, <3>1, <3>2, <3>3, <4>4 DEF Prefilling, InRunning, FirstRead
      <4>7. SlotsCount(r)'
        <5>1. Decoding(r) \in Nat /\ Decoding(r)' = Decoding(r) - 1
          BY <2>3, <3>1 DEF One
        <5>2. CASE ends
          <6>1. r \in ovFinished'
            BY <4>2, <5>2
          <6>2. p.slots = q.slots - (q.rounds + Len(q.out))
            BY <4>4, <5>2
          <6>3. \A d, n, m \in Nat : (d + (n + (m - 1))) - (n + m) = d - 1
            OBVIOUS
          <6>4. q.rounds \in Nat /\ Len(q.out) \in Nat
            BY <2>1, <2>6
          <6>5. p.slots = Decoding(r) - 1
            BY <4>5, <5>1, <6>2, <6>3, <6>4
          <6> QED
            BY <5>1, <6>1, <6>5 DEF SlotsCount
        <5>3. CASE ~ends
          <6>1. r \notin ovFinished' /\ p.slots = (Decoding(r) - 1) + (p.rounds + (Len(p.out) - 1))
            <7>1. \A d, k, n \in Nat : d + (k + (n - 1)) = (d - 1) + (k + ((n + 1) - 1))
              OBVIOUS
            <7>2. q.slots = (Decoding(r) - 1) + (q.rounds + ((Len(q.out) + 1) - 1))
              BY <2>1, <2>6, <4>5, <5>1, <7>1
            <7> QED
              BY <4>2, <4>4, <5>3, <7>2
          <6> QED
            BY <4>4, <5>1, <6>1 DEF SlotsCount
        <5> QED
          BY <5>2, <5>3
      <4> QED
        BY <3>5, <4>6, <4>7 DEF Stages
    <3> QED
      BY <3>6, <3>7
  <2>9. CASE read(r) /\ b.mode = "extend"
    <3>1. /\ Extending(r) > 0 /\ Extending(r)' = Extending(r) - 1 /\ Awaited(r, 1, "extend") /\ ~Awaited(r, 1, "decode")
          /\ Decoding(r)' = Decoding(r) /\ Extending(r) <= 2
      BY <2>2, <2>3, <2>9 DEF One
    <3>2. q.out = <<>> /\ r \notin ovFinished /\ r \notin ovToCome \cup ovWaiting
      BY <2>1, <3>1 DEF Prefilling, Unlaunched
    <3>3. Unlaunched(r)'
      BY <2>5, <3>2 DEF Unlaunched
    <3>4. CASE q.inflight > 0
      <4>1. p = [out |-> q.out, inflight |-> q.inflight - 1, rounds |-> q.rounds, slots |-> q.slots]
        BY <2>4, <2>9, <3>2, <3>4 DEF Read
      <4>2. r \notin ovFinished'
        BY <2>5, <2>9, <3>2, <3>4 DEF Finishes
      <4>3. ~FirstRead(r)
        BY <2>1, <3>2, <3>4 DEF FirstRead
      <4>4. r \notin Range(ovRunning.reqs) /\ ~(Decoding(r) > 0)
        BY <2>1, <4>3 DEF InRunning
      <4>5. Chunking(r)'
        BY <2>1, <2>5, <3>1, <4>1, <4>2 DEF Chunking
      <4>6. Prefilling(r)'
        BY <2>1, <2>5, <3>1, <3>2, <3>4, <4>1, <4>2 DEF Prefilling
      <4>7. InRunning(r)'
        BY <2>5, <3>1, <4>4 DEF InRunning
      <4>8. SlotsCount(r)'
        BY <2>1, <3>1, <3>2, <4>1, <4>2 DEF SlotsCount
      <4> QED
        BY <3>3, <4>5, <4>6, <4>7, <4>8 DEF Stages
    <3>5. CASE q.inflight = 0
      <4>1. p = [out |-> Append(q.out, t), inflight |-> q.inflight, rounds |-> q.rounds,
                 slots |-> IF ends THEN q.slots - (q.rounds + Len(q.out)) ELSE q.slots]
        BY <2>4, <2>9, <3>2, <3>5 DEF Read
      <4>2. r \in ovFinished' <=> ends
        BY <2>5, <2>9, <3>2, <3>5 DEF Finishes, FinishedBefore
      <4>3. r # ovInflight /\ Extending(r) = 1
        BY <2>1, <2>3, <3>1, <3>2, <3>5 DEF Prefilling, Chunking, One
      <4>4. p.out # <<>> /\ Len(p.out) = 1 /\ p.inflight = 0 /\ p.rounds = q.rounds
            /\ p.slots = IF ends THEN q.slots - q.rounds ELSE q.slots
        BY <2>1, <2>6, <3>2, <3>5, <4>1
      <4>5. q.slots = Decoding(r) + q.rounds
        BY <2>1, <3>2 DEF SlotsCount
      <4>6. Extending(r)' = 0 /\ ~Awaited(r, 2, "extend")
        BY <2>3, <3>1, <4>3 DEF One
      <4> HIDE DEF ends
      <4>7. Chunking(r)' /\ Prefilling(r)' /\ InRunning(r)'
        BY <2>2, <2>5, <4>3, <4>4, <4>6 DEF Chunking, Prefilling, InRunning, FirstRead
      <4>8. SlotsCount(r)'
        BY <2>1, <2>3, <3>1, <4>2, <4>4, <4>5 DEF SlotsCount, One
      <4> QED
        BY <3>3, <4>7, <4>8 DEF Stages
    <3> QED
      BY <2>1, <3>4, <3>5
  <2> QED
    BY <1>2, <2>7, <2>8, <2>9
<1> QED
  BY <1>2, <1>6, <1>7 DEF SlotsInv

\* At the start nothing runs and no slot is held.
LEMMA SlotsInit ==
  ASSUME OverlapInit
  PROVE  SlotsInv
<1>1. \A S : <<>> \in Seq(S) /\ Len(<<>>) = 0
  BY EmptySeq
<1>2. /\ NoOvBatch.reqs = <<>> /\ NoOvBatch.mode = "none" /\ Range(NoOvBatch.reqs) = {}
      /\ IsRunning(NoOvBatch) /\ IsBatch(NoOvBatch)
  BY <1>1 DEF NoOvBatch, Range, IsRunning, IsBatch, OvBatches
<1>3. \A r \in OvReqs : IsState(ovReq[r]) /\ ovReq[r] = [out |-> <<>>, inflight |-> 0, rounds |-> 0, slots |-> 0]
  <2>1. \A r \in OvReqs : ovReq[r] = [out |-> <<>>, inflight |-> 0, rounds |-> 0, slots |-> 0]
    BY DEF OverlapInit
  <2>2. <<>> \in Seq(Range(<<>>))
    BY <1>1
  <2>3. IsState([out |-> <<>>, inflight |-> 0, rounds |-> 0, slots |-> 0])
    <3> DEFINE o == <<>>
               q == [out |-> o, inflight |-> 0, rounds |-> 0, slots |-> 0]
    <3>1. o \in Seq(Range(o))
      BY <2>2
    <3> HIDE DEF o
    <3>2. q.out = o /\ q.inflight = 0 /\ q.rounds = 0 /\ q.slots = 0
          /\ q = [out |-> q.out, inflight |-> q.inflight, rounds |-> q.rounds, slots |-> q.slots]
      OBVIOUS
    <3> HIDE DEF q
    <3>3. IsState(q)
      BY <3>1, <3>2 DEF IsState
    <3> QED
      BY <3>3 DEF q, o
  <2> QED
    BY <2>1, <2>3
<1>4. OverlapTypes
  <2>1. 0 \in 0 .. FutureLimit - 1
    BY OverlapAssumption DEF FutureLimit
  <2>2. ovResults \in Seq(OvBatches) /\ DOMAIN ovResults = {}
    BY <1>1 DEF OverlapInit
  <2> QED
    BY <1>2, <1>3, <2>1, <2>2 DEF OverlapInit, OverlapTypes
<1>5. ASSUME NEW r \in OvReqs  PROVE Stages(r)
  <2>1. \A i, mode : ~Awaited(r, i, mode)
    BY DEF OverlapInit, Awaited
  <2>2. Decoding(r) = 0 /\ Extending(r) = 0
    BY <2>1 DEF Decoding, Extending, One
  <2>3. r # ovInflight /\ r \notin Range(ovRunning.reqs) /\ r \notin ovFinished
    BY <1>2, OverlapAssumption DEF OverlapInit
  <2> QED
    BY <1>3, <2>1, <2>2, <2>3 DEF Stages, Unlaunched, Chunking, Prefilling, InRunning, SlotsCount
<1> QED
  BY <1>4, <1>5 DEF SlotsInv, ResultsFollow, OverlapInit

\* What the worker does and stuttering leave all that alone.
SlotsVars == <<ovToCome, ovWaiting, ovRunning, ovLast, ovInflight, ovResults, ovCt, ovReq, ovFinished, ovPc>>
LEMMA SlotsUnchanged ==
  ASSUME SlotsInv, UNCHANGED SlotsVars
  PROVE  SlotsInv'
<1>1. UNCHANGED <<ovToCome, ovWaiting, ovRunning, ovLast, ovInflight, ovResults, ovCt, ovReq, ovFinished, ovPc>>
  BY DEF SlotsVars
<1>2. OverlapTypes' /\ ResultsFollow'
  BY <1>1 DEF SlotsInv, OverlapTypes, ResultsFollow
<1>3. ASSUME NEW r \in OvReqs  PROVE Stages(r)'
  <2>1. Stages(r)
    BY DEF SlotsInv
  <2>2. \A i, mode : Awaited(r, i, mode)' <=> Awaited(r, i, mode)
    BY <1>1 DEF Awaited
  <2>3. Decoding(r)' = Decoding(r) /\ Extending(r)' = Extending(r)
    BY <1>1 DEF Decoding, Extending, Awaited
  <2> QED
    BY <1>1, <2>1, <2>2, <2>3 DEF Stages, Unlaunched, Chunking, Prefilling, InRunning, FirstRead, SlotsCount
<1> QED
  BY <1>2, <1>3 DEF SlotsInv

\* Every step of the loop and of the worker keeps the count of the slots.
LEMMA SlotsStep ==
  ASSUME SlotsInv, [OverlapNext]_overlapVars
  PROVE  SlotsInv'
<1>1. CASE UNCHANGED overlapVars
  BY <1>1, SlotsUnchanged DEF overlapVars, SlotsVars
<1>2. CASE OverlapWorker
  <2>1. CASE TakeBatch
    BY <2>1, SlotsUnchanged DEF TakeBatch, SlotsVars
  <2>2. CASE Launched
    BY <2>2, SlotsUnchanged DEF Launched, SlotsVars
  <2>3. CASE CopyResult
    BY <2>3, SlotsUnchanged DEF CopyResult, SlotsVars
  <2> QED
    BY <1>2, <2>1, <2>2, <2>3 DEF OverlapWorker
<1>3. CASE OverlapScheduler
  <2>1. ASSUME NEW S \in SUBSET OvReqs, Prefill(S)  PROVE SlotsInv'
    BY <2>1, PrefillSlots
  <2>2. ASSUME NEW S \in SUBSET OvReqs, ProcessResult(S)  PROVE SlotsInv'
    BY <2>2, ResultSlots
  <2>3. CASE Decode
    BY <2>3, DecodeSlots
  <2>4. CASE NothingToRun
    BY <2>4, NothingSlots
  <2> QED
    BY <1>3, <2>1, <2>2, <2>3, <2>4 DEF OverlapScheduler
<1>4. ASSUME NEW r \in OvReqs, OvReceive(r)  PROVE SlotsInv'
  BY <1>4, ReceiveSlots
<1>5. ASSUME NEW r \in OvReqs, OvAbort(r)  PROVE SlotsInv'
  BY <1>5, AbortSlots
<1> QED
  BY <1>1, <1>2, <1>3, <1>4, <1>5 DEF OverlapNext

\* The batches whose results are awaited are counted one by one: there are two at most.
LEMMA AwaitedCount ==
  ASSUME SlotsInv, NEW r \in OvReqs
  PROVE  Cardinality({i \in DOMAIN ovResults : r \in Range(ovResults[i].reqs)}) = Decoding(r) + Extending(r)
<1> DEFINE A == {i \in DOMAIN ovResults : r \in Range(ovResults[i].reqs)}
           in(i) == Awaited(r, i, "decode") \/ Awaited(r, i, "extend")
<1>1. OverlapTypes /\ ResultsFollow
  BY DEF SlotsInv
<1>2. ovResults \in Seq(OvBatches) /\ DOMAIN ovResults \subseteq {1, 2}
  <2>1. ovResults \in Seq(OvBatches) /\ Len(<<>>) = 0
    BY <1>1, EmptySeq DEF OverlapTypes
  <2>2. Len(ovResults) \in {0, 1, 2} /\ DOMAIN ovResults = 1 .. Len(ovResults)
    BY <1>1, <2>1, LenProperties DEF ResultsFollow
  <2> QED
    BY <2>1, <2>2
<1>3. \A i \in DOMAIN ovResults : ovResults[i].mode \in {"extend", "decode"}
  <2>1. ASSUME NEW i \in DOMAIN ovResults  PROVE ovResults[i].mode \in {"extend", "decode"}
    <3>1. ovResults[i] \in OvBatches /\ ovResults[i].mode # "none"
      BY <1>1, <1>2, <2>1, LenProperties, ElementOfSeq DEF OverlapTypes
    <3> QED
      BY <3>1 DEF OvBatches
  <2> QED
    BY <2>1
<1>4. \A i : i \in A <=> in(i)
  BY <1>3 DEF Awaited
<1>5. /\ A \subseteq {1, 2}
      /\ 1 \in A <=> in(1)
      /\ 2 \in A <=> in(2)
      /\ \A i : ~(Awaited(r, i, "decode") /\ Awaited(r, i, "extend"))
  <2>1. \A i : ~(Awaited(r, i, "decode") /\ Awaited(r, i, "extend"))
    BY DEF Awaited
  <2>2. A \subseteq {1, 2}
    BY <1>2
  <2> QED
    BY <1>4, <2>1, <2>2
<1>6. Decoding(r) + Extending(r) = One(in(1)) + One(in(2))
  BY <1>5 DEF Decoding, Extending, One
<1>7. /\ Cardinality({}) = 0 /\ Cardinality({1}) = 1 /\ Cardinality({2}) = 1
      /\ Cardinality({1, 2}) = 2
  <2>1. IsFiniteSet({1}) /\ Cardinality({1}) = 1 /\ Cardinality({2}) = 1
    BY FS_Singleton
  <2>2. Cardinality({}) = 0
    BY FS_EmptySet
  <2>3. 2 \notin {1}
    OBVIOUS
  <2>4. Cardinality({1} \cup {2}) = Cardinality({1}) + 1
    BY <2>1, <2>3, FS_AddElement
  <2>5. {1} \cup {2} = {1, 2}
    OBVIOUS
  <2> QED
    BY <2>1, <2>2, <2>4, <2>5
<1> HIDE DEF A, in
<1>8. A = {} \/ A = {1} \/ A = {2} \/ A = {1, 2}
  BY <1>5
<1>9. Cardinality(A) = One(1 \in A) + One(2 \in A)
  BY <1>7, <1>8 DEF One
<1>10. One(1 \in A) = One(in(1)) /\ One(2 \in A) = One(in(2))
  BY <1>5 DEF One
<1>11. Cardinality(A) = Decoding(r) + Extending(r)
  BY <1>6, <1>9, <1>10
<1> QED
  BY <1>11 DEF A

\* The count of the slots is what is awaited, once a request is finished.
LEMMA SlotsGiven ==
  ASSUME SlotsInv
  PROVE  SlotsGivenBack
<1>1. ASSUME NEW r \in OvReqs
      PROVE  /\ ovReq[r].slots >= 0
             /\ r \in ovFinished => ovReq[r].slots = Cardinality({i \in DOMAIN ovResults : r \in Range(ovResults[i].reqs)})
  <2>1. /\ Prefilling(r) /\ SlotsCount(r) /\ ovReq[r].rounds \in Nat
        /\ ovReq[r].out \in Seq(Range(ovReq[r].out))
    BY DEF SlotsInv, Stages, OverlapTypes, IsState
  <2>2. Decoding(r) \in Nat /\ Extending(r) \in Nat
    BY DEF Decoding, Extending, One
  <2>3. CASE r \in ovFinished
    <3>1. Extending(r) = 0 /\ ovReq[r].slots = Decoding(r) + 0
      BY <2>1, <2>2, <2>3 DEF Prefilling, SlotsCount
    <3> QED
      BY <2>2, <3>1, AwaitedCount
  <2>4. CASE r \notin ovFinished
    <3>1. ovReq[r].out # <<>> => Len(ovReq[r].out) \in Nat \ {0}
      BY <2>1, EmptySeq
    <3> QED
      BY <2>1, <2>2, <2>4, <3>1 DEF SlotsCount
  <2> QED
    BY <2>3, <2>4
<1> QED
  BY <1>1 DEF SlotsGivenBack

\* A request's slots are given back once, and the slot of a decode that was launched
\* before the request was known to be finished with the result of that decode.
THEOREM RequestSlotsGivenBack == OverlapSpec => []SlotsGivenBack
<1>1. OverlapInit => SlotsInv
  BY SlotsInit
<1>2. SlotsInv /\ [OverlapNext]_overlapVars => SlotsInv'
  BY SlotsStep
<1>3. SlotsInv => SlotsGivenBack
  BY SlotsGiven
<1> QED
  BY <1>1, <1>2, <1>3, PTL DEF OverlapSpec

-------------------------------------------------------------------------------
(***************************************************************************)
(* The tokens.  A job is a batch in the forward thread or waiting for it;  *)
(* the results that are done are on their way back.  What a place of the   *)
(* future map will hold when the first n results are computed is known     *)
(* from the jobs, and it is from there that a future is looked up.         *)
(***************************************************************************)
OvJobs == [mode: {"extend", "decode"}, reqs: Seq(OvReqs), ids: Seq(Int), ct: 0 .. FutureLimit - 1]
OvTokens == Seq(OvReqs \X Nat)
Places == 1 .. (OvMaxRunning * 5 - 1)

Done == Len(ovOutput) + Len(ovCopy)
JobCount == Len(ovForward) + Len(ovInput)
Job(k) == IF k <= Len(ovForward) THEN ovForward[k] ELSE ovInput[k - Len(ovForward)]

\* The token of r that the j-th result has, and the one r has next when all are read.
Due(j, r) ==
  IF ovResults[j].mode = "extend" THEN 1
  ELSE Len(ovReq[r].out) + 1 + One(j = 2 /\ r \in Range(ovResults[1].reqs))
NextToken(r) == Len(ovReq[r].out) + Decoding(r) + One(Extending(r) > 0)
Token(j, i) == <<ovResults[j].reqs[i], Due(j, ovResults[j].reqs[i])>>
Tokens(j) == [i \in DOMAIN ovResults[j].reqs |-> Token(j, i)]

\* What place p holds when n results are computed.
Wrote(p, k, before) ==
  IF p - Job(k).ct \in DOMAIN ovResults[Done + k].reqs THEN Token(Done + k, p - Job(k).ct) ELSE before
Holds(p, n) ==
  IF n = Done THEN ovMap[p]
  ELSE IF n = Done + 1 THEN Wrote(p, 1, ovMap[p])
  ELSE Wrote(p, 2, Wrote(p, 1, ovMap[p]))
FutureOf(id, n, token) == id < 0 /\ -id \in Places /\ Holds(-id, n) = token

PipelineTypes ==
  /\ ovInput \in Seq(OvJobs) /\ ovCopy \in Seq(OvTokens) /\ ovOutput \in Seq(OvTokens)
  /\ ovForward = <<>> \/ ovForward = <<ovForward[1]>>
  /\ ovMap = [p \in Places |-> ovMap[p]]
JobOf(b, j) ==
  b.mode = ovResults[j].mode /\ b.reqs = ovResults[j].reqs /\ b.ct \in 0 .. FutureLimit - 1
PipelineFollows ==
  /\ Done + JobCount = Len(ovResults)
  /\ \A k \in 1 .. JobCount : JobOf(Job(k), Done + k)
  /\ \A k \in 1 .. Len(ovInput) : Len(ovInput[k].ids) = Len(ovInput[k].reqs)
TokensRight ==
  /\ \A j \in 1 .. Len(ovOutput) : ovOutput[j] = Tokens(j)
  /\ \A j \in 1 .. Len(ovCopy) : ovCopy[j] = Tokens(Len(ovOutput) + j)
ForwardRight ==
  ovForward # <<>> /\ ovForward[1].mode = "decode" =>
    \A i \in DOMAIN ovForward[1].reqs :
      ovForward[1].ids[i] = <<ovForward[1].reqs[i], Due(Done + 1, ovForward[1].reqs[i]) - 1>>
InputOf(b, j) ==
  b.mode = "decode" => \A i \in DOMAIN b.reqs : FutureOf(b.ids[i], j - 1, <<b.reqs[i], Due(j, b.reqs[i]) - 1>>)
InputRight == \A k \in 1 .. Len(ovInput) : InputOf(ovInput[k], Done + Len(ovForward) + k)
FuturesHeld(b) ==
  \A i \in DOMAIN b.reqs :
    b.reqs[i] \notin ovFinished \cup {ovInflight} =>
      FutureOf(b.ids[i], Len(ovResults), <<b.reqs[i], NextToken(b.reqs[i])>>)
SchedulerRight == FuturesHeld(ovRunning) /\ (ovLast.mode = "extend" => FuturesHeld(ovLast))
SecondLive == \A r \in OvReqs : Awaited(r, 2, "decode") => r \notin ovFinished
OutputInv ==
  /\ PipelineTypes /\ PipelineFollows /\ TokensRight /\ ForwardRight /\ InputRight /\ SchedulerRight
  /\ Held <= OvMaxRunning /\ SecondLive /\ OutputIsOwn

\* How long the queues are.
Sizes ==
  /\ Len(ovResults) \in {0, 1, 2} /\ DOMAIN ovResults = 1 .. Len(ovResults)
  /\ Len(ovForward) \in {0, 1} /\ (ovForward = <<>> <=> Len(ovForward) = 0)
  /\ Len(ovInput) \in Nat /\ Len(ovCopy) \in Nat /\ Len(ovOutput) \in Nat
  /\ DOMAIN ovInput = 1 .. Len(ovInput)
  /\ Done \in 0 .. 2 /\ JobCount \in 0 .. 2 /\ Done + JobCount = Len(ovResults)
  /\ \A j \in 1 .. Len(ovResults) :
       /\ ovResults[j] \in OvBatches /\ ovResults[j].mode \in {"extend", "decode"}
       /\ ovResults[j].reqs \in Seq(OvReqs) /\ DOMAIN ovResults[j].reqs = 1 .. Len(ovResults[j].reqs)
       /\ \A i \in DOMAIN ovResults[j].reqs : ovResults[j].reqs[i] \in OvReqs
\* The queues are as long as the results they carry are many.
LEMMA PipelineSizes ==
  ASSUME SlotsInv, PipelineTypes, Done + JobCount = Len(ovResults)
  PROVE  Sizes
<1>1. /\ OverlapTypes /\ ResultsFollow /\ ovResults \in Seq(OvBatches)
      /\ \A i \in DOMAIN ovResults : ovResults[i].mode # "none"
  BY DEF SlotsInv, OverlapTypes
<1>2. /\ Len(ovResults) \in {0, 1, 2} /\ DOMAIN ovResults = 1 .. Len(ovResults)
  <2>1. Len(<<>>) = 0 /\ DOMAIN ovResults = 1 .. Len(ovResults)
    BY <1>1, EmptySeq, LenProperties
  <2> QED
    BY <1>1, <2>1 DEF ResultsFollow
<1>3. /\ Len(ovInput) \in Nat /\ Len(ovCopy) \in Nat /\ Len(ovOutput) \in Nat
      /\ DOMAIN ovInput = 1 .. Len(ovInput)
  BY LenProperties DEF PipelineTypes
<1>4. Len(ovForward) \in {0, 1} /\ (ovForward = <<>> <=> Len(ovForward) = 0)
  <2>1. Len(<<>>) = 0 /\ \A x : Len(<<x>>) = 1 /\ <<x>> # <<>>
    OBVIOUS
  <2> QED
    BY <2>1 DEF PipelineTypes
<1>5. Done \in 0 .. 2 /\ JobCount \in 0 .. 2
  <2>1. Done \in Nat /\ JobCount \in Nat
    BY <1>3, <1>4 DEF Done, JobCount
  <2> QED
    BY <1>2, <2>1
<1>6. ASSUME NEW j \in 1 .. Len(ovResults)
      PROVE  /\ ovResults[j] \in OvBatches /\ ovResults[j].mode \in {"extend", "decode"}
             /\ ovResults[j].reqs \in Seq(OvReqs) /\ DOMAIN ovResults[j].reqs = 1 .. Len(ovResults[j].reqs)
             /\ \A i \in DOMAIN ovResults[j].reqs : ovResults[j].reqs[i] \in OvReqs
  <2>1. ovResults[j] \in OvBatches
    BY <1>1, <1>6, ElementOfSeq
  <2>2. ovResults[j].mode \in {"none", "extend", "decode"} /\ ovResults[j].reqs \in Seq(OvReqs)
    BY <2>1 DEF OvBatches
  <2>3. /\ DOMAIN ovResults[j].reqs = 1 .. Len(ovResults[j].reqs)
        /\ \A i \in DOMAIN ovResults[j].reqs : ovResults[j].reqs[i] \in OvReqs
    BY <2>2, LenProperties, ElementOfSeq
  <2> QED
    BY <1>1, <1>2, <2>1, <2>2, <2>3
<1> QED
  BY <1>2, <1>3, <1>4, <1>5, <1>6 DEF Sizes

\* Each token due has its number.
LEMMA TokenNumbers ==
  ASSUME SlotsInv, Sizes, NEW j \in 1 .. Len(ovResults)
  PROVE  /\ \A r \in OvReqs : Due(j, r) \in Nat \ {0}
         /\ DOMAIN Tokens(j) = DOMAIN ovResults[j].reqs
         /\ \A i \in DOMAIN ovResults[j].reqs : Tokens(j)[i] = Token(j, i)
         /\ Tokens(j) \in OvTokens
<1>1. ASSUME NEW r \in OvReqs  PROVE Due(j, r) \in Nat \ {0}
  <2>1. Len(ovReq[r].out) \in Nat
    BY LenProperties DEF SlotsInv, OverlapTypes, IsState
  <2>2. One(j = 2 /\ r \in Range(ovResults[1].reqs)) \in {0, 1}
    BY DEF One
  <2>3. \A n \in Nat, m \in {0, 1} : n + 1 + m \in Nat \ {0}
    OBVIOUS
  <2> QED
    BY <2>1, <2>2, <2>3 DEF Due
<1>2. /\ DOMAIN ovResults[j].reqs = 1 .. Len(ovResults[j].reqs) /\ Len(ovResults[j].reqs) \in Nat
      /\ \A i \in DOMAIN ovResults[j].reqs : ovResults[j].reqs[i] \in OvReqs
  BY LenProperties DEF Sizes
<1>3. \A i \in DOMAIN ovResults[j].reqs : Token(j, i) \in OvReqs \X Nat
  BY <1>1, <1>2 DEF Token
<1>4. Tokens(j) \in [1 .. Len(ovResults[j].reqs) -> OvReqs \X Nat]
  BY <1>2, <1>3 DEF Tokens
<1>5. \A S : \A m \in Nat : \A s \in [1 .. m -> S] : s \in Seq(S)
  OBVIOUS
<1> QED
  BY <1>1, <1>2, <1>4, <1>5 DEF Tokens, OvTokens

\* The forward thread looks the futures of a batch up when all before it are computed.
LEMMA TakeOutput ==
  ASSUME SlotsInv, OutputInv, TakeBatch
  PROVE  OutputInv'
<1> DEFINE h == Head(ovInput)
           D == Done
           n == Len(ovInput)
           f == [h EXCEPT !.ids = Resolve(@)]
<1>0. /\ PipelineTypes /\ PipelineFollows /\ TokensRight /\ InputRight /\ SchedulerRight
      /\ Held <= OvMaxRunning /\ SecondLive /\ OutputIsOwn
  BY DEF OutputInv
<1>1. /\ ovForward = <<>> /\ ovInput # <<>> /\ ovForward' = <<f>> /\ ovInput' = Tail(ovInput)
      /\ UNCHANGED <<ovToCome, ovWaiting, ovRunning, ovLast, ovInflight, ovResults, ovCt, ovMap, ovCopy, ovOutput,
                     ovReq, ovFinished, ovPc>>
  BY DEF TakeBatch
<1>2. Sizes
  BY <1>0, PipelineSizes DEF PipelineFollows
<1> HIDE DEF h, f
<1>3. /\ ovInput \in Seq(OvJobs) /\ n \in Nat /\ n >= 1 /\ Len(ovInput') = n - 1
      /\ ovInput' \in Seq(OvJobs) /\ h = ovInput[1] /\ h \in OvJobs
      /\ \A k \in 1 .. (n - 1) : ovInput'[k] = ovInput[k + 1]
      /\ Len(h.ids) = Len(h.reqs)
  <2>1. ovInput \in Seq(OvJobs) /\ n \in Nat /\ n >= 1
    BY <1>0, <1>1, EmptySeq DEF PipelineTypes
  <2>2. /\ ovInput' \in Seq(OvJobs) /\ Len(ovInput') = n - 1
        /\ \A k \in 1 .. (n - 1) : ovInput'[k] = ovInput[k + 1]
    BY <1>1, <2>1, HeadTailProperties
  <2>3. h = ovInput[1] /\ h \in OvJobs
    BY <2>1, ElementOfSeq DEF h
  <2>4. Len(h.ids) = Len(h.reqs)
    BY <1>0, <2>1, <2>3 DEF PipelineFollows
  <2> QED
    BY <2>1, <2>2, <2>3, <2>4
<1>4. /\ f.mode = h.mode /\ f.reqs = h.reqs /\ f.ct = h.ct /\ f.ids = Resolve(h.ids)
      /\ DOMAIN h.ids = DOMAIN h.reqs /\ \A i \in DOMAIN h.ids : h.ids[i] \in Int
  <2>1. h.reqs \in Seq(OvReqs) /\ h.ids \in Seq(Int)
    BY <1>3 DEF OvJobs
  <2>2. DOMAIN h.ids = DOMAIN h.reqs
    BY <1>3, <2>1, LenProperties
  <2>3. \A i \in DOMAIN h.ids : h.ids[i] \in Int
    BY <2>1, LenProperties, ElementOfSeq
  <2>4. h = [mode |-> h.mode, reqs |-> h.reqs, ids |-> h.ids, ct |-> h.ct]
    BY <1>3 DEF OvJobs
  <2>5. f = [mode |-> h.mode, reqs |-> h.reqs, ids |-> Resolve(h.ids), ct |-> h.ct]
    BY <2>4 DEF f
  <2> QED
    BY <2>2, <2>3, <2>5
<1>5. /\ Len(ovForward) = 0 /\ Len(ovForward') = 1 /\ ovForward'[1] = f /\ ovForward' # <<>>
      /\ JobCount = n /\ JobCount' = n /\ D' = D /\ D \in 0 .. 2 /\ n \in 1 .. 2 /\ D + n = Len(ovResults)
      /\ Len(ovResults) \in 0 .. 2
  <2>1. Len(ovForward) = 0 /\ Len(ovForward') = 1 /\ ovForward'[1] = f /\ ovForward' # <<>>
    BY <1>1
  <2>2. JobCount = n /\ JobCount' = n
    BY <1>3, <2>1 DEF JobCount
  <2>3. D' = D
    BY <1>1 DEF Done
  <2>4. D \in 0 .. 2 /\ JobCount \in 0 .. 2 /\ D + JobCount = Len(ovResults) /\ Len(ovResults) \in {0, 1, 2}
    BY <1>2 DEF Sizes
  <2> QED
    BY <1>3, <2>1, <2>2, <2>3, <2>4
<1>6. /\ Job(1) = h /\ Job(1)' = f
      /\ \A k \in 2 .. n : Job(k) = ovInput[k] /\ Job(k)' = ovInput[k]
  BY <1>3, <1>5 DEF Job
<1>7. \A j, i, r : Due(j, r)' = Due(j, r) /\ Token(j, i)' = Token(j, i)
  BY <1>1 DEF Due, Token
<1>8. \A k \in 1 .. n : Job(k)'.mode = Job(k).mode /\ Job(k)'.reqs = Job(k).reqs /\ Job(k)'.ct = Job(k).ct
  BY <1>4, <1>5, <1>6
<1>9. ASSUME NEW p, NEW m \in D .. Len(ovResults)
      PROVE  Holds(p, m)' = Holds(p, m)
  <2>1. CASE m = D
    BY <1>1, <1>5, <2>1 DEF Holds
  <2>2. CASE m = D + 1
    <3>1. Job(1)'.ct = Job(1).ct
      BY <1>5, <1>8
    <3> QED
      BY <1>1, <1>5, <1>7, <2>2, <3>1 DEF Holds, Wrote
  <2>3. CASE m = D + 2
    <3>1. Job(1)'.ct = Job(1).ct /\ Job(2)'.ct = Job(2).ct
      BY <1>5, <1>8, <2>3
    <3> QED
      BY <1>1, <1>5, <1>7, <2>3, <3>1 DEF Holds, Wrote
  <2> QED
    BY <1>5, <2>1, <2>2, <2>3
<1>10. ASSUME NEW id, NEW m \in D .. Len(ovResults), NEW token, FutureOf(id, m, token)
       PROVE  FutureOf(id, m, token)'
  BY <1>9, <1>10 DEF FutureOf
<1>11. PipelineTypes'
  BY <1>0, <1>1, <1>3, <1>5 DEF PipelineTypes
<1>12. PipelineFollows'
  <2>1. \A k \in 1 .. n : JobOf(Job(k), D + k)'
    BY <1>0, <1>1, <1>5, <1>8 DEF PipelineFollows, JobOf
  <2>2. \A k \in 1 .. (n - 1) : Len(ovInput'[k].ids) = Len(ovInput'[k].reqs)
    BY <1>0, <1>3 DEF PipelineFollows
  <2> QED
    BY <1>1, <1>3, <1>5, <2>1, <2>2 DEF PipelineFollows
<1>13. TokensRight'
  <2>1. \A j : Tokens(j)' = Tokens(j)
    BY <1>1, <1>7 DEF Tokens
  <2> QED
    BY <1>0, <1>1, <2>1 DEF TokensRight
<1>14. ForwardRight'
  <2>1. InputOf(h, D + 1)
    BY <1>0, <1>3, <1>5 DEF InputRight
  <2>2. ASSUME h.mode = "decode", NEW i \in DOMAIN h.reqs
        PROVE  f.ids[i] = <<h.reqs[i], Due(D + 1, h.reqs[i]) - 1>>
    <3>1. FutureOf(h.ids[i], D, <<h.reqs[i], Due(D + 1, h.reqs[i]) - 1>>)
      BY <1>5, <2>1, <2>2 DEF InputOf
    <3>2. /\ h.ids[i] < 0 /\ i \in DOMAIN h.ids
          /\ ovMap[-h.ids[i]] = <<h.reqs[i], Due(D + 1, h.reqs[i]) - 1>>
      BY <1>4, <2>2, <3>1 DEF FutureOf, Holds
    <3> QED
      BY <1>4, <3>2 DEF Resolve
  <2> QED
    BY <1>4, <1>5, <1>7, <2>2 DEF ForwardRight
<1>15. InputRight'
  <2>1. ASSUME NEW b, NEW j, j - 1 \in D .. Len(ovResults), InputOf(b, j)
        PROVE  InputOf(b, j)'
    BY <1>7, <1>10, <2>1 DEF InputOf
  <2>2. ASSUME NEW k \in 1 .. (n - 1)
        PROVE  InputOf(ovInput[k], Done + Len(ovForward) + k)'
    <3>1. InputOf(ovInput[k + 1], D + (k + 1)) /\ ovInput'[k] = ovInput[k + 1]
      BY <1>0, <1>3, <1>5 DEF InputRight
    <3>2. Done' + Len(ovForward') + k = D + (k + 1) /\ (D + (k + 1)) - 1 \in D .. Len(ovResults)
      BY <1>5
    <3>3. \A b, j : b = ovInput[k + 1] /\ j = D + (k + 1) => InputOf(b, j)'
      BY <2>1, <3>1, <3>2
    <3> QED
      BY <3>1, <3>2, <3>3
  <2> QED
    BY <1>3, <2>2 DEF InputRight
<1>16. SchedulerRight'
  <2>1. \A r : NextToken(r)' = NextToken(r)
    BY <1>1 DEF NextToken, Decoding, Extending, Awaited
  <2>2. \A id, m, token : m = Len(ovResults) /\ FutureOf(id, m, token) => FutureOf(id, m, token)'
    BY <1>5, <1>10
  <2> QED
    BY <1>0, <1>1, <2>1, <2>2 DEF SchedulerRight, FuturesHeld
<1>17. (Held <= OvMaxRunning)' /\ SecondLive' /\ OutputIsOwn'
  BY <1>0, <1>1 DEF Held, SecondLive, OutputIsOwn, Awaited
<1> QED
  BY <1>11, <1>12, <1>13, <1>14, <1>15, <1>16, <1>17 DEF OutputInv

\* A batch computed leaves its tokens in the map, where its futures stand for them.
LEMMA LaunchOutput ==
  ASSUME SlotsInv, OutputInv, Launched
  PROVE  OutputInv'
<1> DEFINE b == ovForward[1]
           D == Done
           N == Len(ovResults)
           next == [i \in DOMAIN b.reqs |->
                     IF b.mode = "extend" THEN <<b.reqs[i], 1>> ELSE <<b.ids[i][1], b.ids[i][2] + 1>>]
<1>0. /\ PipelineTypes /\ PipelineFollows /\ TokensRight /\ ForwardRight /\ InputRight /\ SchedulerRight
      /\ Held <= OvMaxRunning /\ SecondLive /\ OutputIsOwn
  BY DEF OutputInv
<1>1. /\ ovForward # <<>> /\ ovForward' = <<>> /\ ovCopy' = Append(ovCopy, next)
      /\ ovMap' = [i \in DOMAIN ovMap |-> IF i - b.ct \in DOMAIN next THEN next[i - b.ct] ELSE ovMap[i]]
      /\ UNCHANGED <<ovToCome, ovWaiting, ovRunning, ovLast, ovInflight, ovResults, ovCt, ovInput, ovOutput,
                     ovReq, ovFinished, ovPc>>
  BY DEF Launched
<1>2. Sizes
  BY <1>0, PipelineSizes DEF PipelineFollows
<1> HIDE DEF b, next
<1>3. /\ Len(ovForward) = 1 /\ Len(ovForward') = 0
      /\ JobCount = 1 + Len(ovInput) /\ JobCount' = Len(ovInput)
      /\ D \in 0 .. 2 /\ JobCount \in 1 .. 2 /\ D + JobCount = N /\ N \in 0 .. 2
      /\ D + 1 \in 1 .. N /\ Len(ovInput) \in Nat
  <2>1. Len(ovForward) = 1 /\ Len(ovForward') = 0
    BY <1>1, <1>2 DEF Sizes
  <2>2. Len(ovInput) \in Nat
    BY <1>2 DEF Sizes
  <2>3. JobCount = 1 + Len(ovInput) /\ JobCount' = Len(ovInput)
    BY <1>1, <2>1, <2>2 DEF JobCount
  <2>4. D \in 0 .. 2 /\ JobCount \in 0 .. 2 /\ D + JobCount = N /\ N \in {0, 1, 2}
    BY <1>2 DEF Sizes
  <2> QED
    BY <2>1, <2>2, <2>3, <2>4
<1>4. Job(1) = b /\ JobOf(b, D + 1)
  BY <1>0, <1>3 DEF Job, b, PipelineFollows
<1>5. \A k \in 1 .. Len(ovInput) : Job(k)' = ovInput[k] /\ Job(k + 1) = ovInput[k]
  BY <1>1, <1>3 DEF Job
<1>6. \A j, i, r : Due(j, r)' = Due(j, r) /\ Token(j, i)' = Token(j, i)
  BY <1>1 DEF Due, Token
<1>7. next = Tokens(D + 1) /\ Tokens(D + 1) \in OvTokens
  <2>1. /\ \A r \in OvReqs : Due(D + 1, r) \in Nat \ {0}
        /\ DOMAIN Tokens(D + 1) = DOMAIN b.reqs
        /\ Tokens(D + 1) \in OvTokens
    BY <1>2, <1>3, <1>4, TokenNumbers DEF JobOf
  <2>2. /\ b.reqs = ovResults[D + 1].reqs /\ b.mode = ovResults[D + 1].mode /\ b.mode \in {"extend", "decode"}
        /\ \A i \in DOMAIN b.reqs : b.reqs[i] \in OvReqs
    BY <1>2, <1>3, <1>4 DEF JobOf, Sizes
  <2>3. ASSUME NEW i \in DOMAIN b.reqs  PROVE next[i] = Token(D + 1, i)
    <3>1. CASE b.mode = "extend"
      BY <2>2, <3>1 DEF next, Token, Due
    <3>2. CASE b.mode = "decode"
      <4>1. b.ids[i] = <<b.reqs[i], Due(D + 1, b.reqs[i]) - 1>>
        BY <1>0, <1>1, <3>2 DEF ForwardRight, b
      <4>2. next[i] = <<b.reqs[i], (Due(D + 1, b.reqs[i]) - 1) + 1>>
        BY <3>2, <4>1 DEF next
      <4>3. (Due(D + 1, b.reqs[i]) - 1) + 1 = Due(D + 1, b.reqs[i])
        BY <2>1, <2>2
      <4> QED
        BY <2>2, <4>2, <4>3 DEF Token
    <3> QED
      BY <2>2, <3>1, <3>2
  <2>4. next = [i \in DOMAIN b.reqs |-> Token(D + 1, i)]
    BY <2>3 DEF next
  <2> QED
    BY <2>1, <2>2, <2>4 DEF Tokens
<1>8. /\ Len(ovCopy') = Len(ovCopy) + 1 /\ ovCopy' \in Seq(OvTokens) /\ Len(ovCopy) \in Nat /\ Len(ovOutput) \in Nat
      /\ \A j \in 1 .. Len(ovCopy) : ovCopy'[j] = ovCopy[j]
      /\ ovCopy'[Len(ovCopy) + 1] = next
      /\ D = Len(ovOutput) + Len(ovCopy) /\ Done' = D + 1
  <2>1. ovCopy \in Seq(OvTokens) /\ Len(ovCopy) \in Nat /\ Len(ovOutput) \in Nat
    BY <1>0, <1>2 DEF PipelineTypes, Sizes
  <2>2. /\ Len(ovCopy') = Len(ovCopy) + 1 /\ ovCopy' \in Seq(OvTokens)
        /\ \A j \in 1 .. Len(ovCopy) : ovCopy'[j] = ovCopy[j]
        /\ ovCopy'[Len(ovCopy) + 1] = next
    BY <1>1, <1>7, <2>1, AppendProperties
  <2> QED
    BY <1>1, <2>1, <2>2 DEF Done
<1>9. \A p \in Places : ovMap'[p] = Wrote(p, 1, ovMap[p])
  <2>1. \A i \in DOMAIN next : next[i] = Token(D + 1, i)
    BY <1>7 DEF Tokens
  <2>2. DOMAIN next = DOMAIN ovResults[D + 1].reqs
    BY <1>7 DEF Tokens
  <2>3. DOMAIN ovMap = Places
    BY <1>0 DEF PipelineTypes
  <2> QED
    BY <1>1, <1>4, <2>1, <2>2, <2>3 DEF Wrote
<1>10. ASSUME NEW p \in Places, NEW m \in (D + 1) .. N
       PROVE  Holds(p, m)' = Holds(p, m)
  <2>1. CASE m = D + 1
    BY <1>3, <1>8, <1>9, <2>1 DEF Holds
  <2>2. CASE m = D + 2
    <3>1. Job(1)' = Job(2)
      BY <1>3, <1>5, <2>2
    <3>2. Holds(p, m) = Wrote(p, 2, ovMap'[p])
      BY <1>3, <1>9, <2>2 DEF Holds
    <3>3. Holds(p, m)' = Wrote(p, 1, ovMap[p])'
      BY <1>3, <1>8, <2>2 DEF Holds
    <3>4. D + 2 = Done' + 1
      BY <1>3, <1>8
    <3> QED
      BY <1>1, <1>6, <3>1, <3>2, <3>3, <3>4 DEF Wrote
  <2> QED
    BY <1>3, <2>1, <2>2
<1>11. ASSUME NEW id, NEW m \in (D + 1) .. N, NEW token, FutureOf(id, m, token)
       PROVE  FutureOf(id, m, token)'
  BY <1>10, <1>11 DEF FutureOf
<1>12. PipelineTypes'
  <2>1. ovMap' = [p \in Places |-> ovMap'[p]]
    BY <1>0, <1>1 DEF PipelineTypes
  <2> QED
    BY <1>0, <1>1, <1>8, <2>1 DEF PipelineTypes
<1>13. PipelineFollows'
  <2>1. ASSUME NEW k \in 1 .. Len(ovInput)  PROVE JobOf(Job(k), Done + k)'
    <3>1. JobOf(Job(k + 1), D + (k + 1)) /\ Job(k)' = Job(k + 1) /\ D + (k + 1) = Done' + k
      BY <1>0, <1>3, <1>5, <1>8 DEF PipelineFollows
    <3> QED
      BY <1>1, <3>1 DEF JobOf
  <2>2. (Done + JobCount = Len(ovResults))'
    BY <1>1, <1>3, <1>8
  <2> QED
    BY <1>0, <1>1, <1>3, <2>1, <2>2 DEF PipelineFollows
<1>14. TokensRight'
  <2>1. \A j : Tokens(j)' = Tokens(j)
    BY <1>1, <1>6 DEF Tokens
  <2>2. ASSUME NEW j \in 1 .. Len(ovCopy')  PROVE ovCopy'[j] = Tokens(Len(ovOutput) + j)
    <3>1. CASE j \in 1 .. Len(ovCopy)
      BY <1>0, <1>8, <3>1 DEF TokensRight
    <3>2. CASE j = Len(ovCopy) + 1
      <4>1. Len(ovOutput) + j = D + 1
        BY <1>8, <3>2
      <4> QED
        BY <1>7, <1>8, <3>2, <4>1
    <3> QED
      BY <1>8, <3>1, <3>2
  <2>3. \A j \in 1 .. Len(ovCopy') : ovCopy'[j] = Tokens(Len(ovOutput) + j)'
    BY <1>1, <2>1, <2>2
  <2> QED
    BY <1>0, <1>1, <2>1, <2>3 DEF TokensRight
<1>15. ForwardRight'
  BY <1>1 DEF ForwardRight
<1>16. InputRight'
  <2>1. ASSUME NEW c, NEW j, j - 1 \in (D + 1) .. N, InputOf(c, j)
        PROVE  InputOf(c, j)'
    BY <1>6, <1>11, <2>1 DEF InputOf
  <2>2. ASSUME NEW k \in 1 .. Len(ovInput)
        PROVE  InputOf(ovInput[k], Done + Len(ovForward) + k)'
    <3>1. InputOf(ovInput[k], D + 1 + k) /\ ovInput'[k] = ovInput[k]
      BY <1>0, <1>1, <1>3 DEF InputRight
    <3>2. Done' + Len(ovForward') + k = D + 1 + k /\ (D + 1 + k) - 1 \in (D + 1) .. N
      BY <1>3, <1>8
    <3>3. \A c, j : c = ovInput[k] /\ j = D + 1 + k => InputOf(c, j)'
      BY <2>1, <3>1, <3>2
    <3> QED
      BY <3>1, <3>2, <3>3
  <2> QED
    BY <1>1, <2>2 DEF InputRight
<1>17. SchedulerRight'
  <2>1. \A r : NextToken(r)' = NextToken(r)
    BY <1>1 DEF NextToken, Decoding, Extending, Awaited
  <2>2. \A id, m, token : m = Len(ovResults) /\ FutureOf(id, m, token) => FutureOf(id, m, token)'
    BY <1>3, <1>11
  <2> QED
    BY <1>0, <1>1, <2>1, <2>2 DEF SchedulerRight, FuturesHeld
<1>18. (Held <= OvMaxRunning)' /\ SecondLive' /\ OutputIsOwn'
  BY <1>0, <1>1 DEF Held, SecondLive, OutputIsOwn, Awaited
<1> QED
  BY <1>12, <1>13, <1>14, <1>15, <1>16, <1>17, <1>18 DEF OutputInv

\* The tokens copied are the next to be read.
LEMMA CopyOutput ==
  ASSUME SlotsInv, OutputInv, CopyResult
  PROVE  OutputInv'
<1> DEFINE t == Head(ovCopy)
           n == Len(ovCopy)
<1>0. /\ PipelineTypes /\ PipelineFollows /\ TokensRight /\ ForwardRight /\ InputRight /\ SchedulerRight
      /\ Held <= OvMaxRunning /\ SecondLive /\ OutputIsOwn
  BY DEF OutputInv
<1>1. /\ ovCopy # <<>> /\ ovOutput' = Append(ovOutput, t) /\ ovCopy' = Tail(ovCopy)
      /\ UNCHANGED <<ovToCome, ovWaiting, ovRunning, ovLast, ovInflight, ovResults, ovCt, ovMap, ovInput, ovForward,
                     ovReq, ovFinished, ovPc>>
  BY DEF CopyResult
<1> HIDE DEF t
<1>2. /\ ovCopy \in Seq(OvTokens) /\ ovOutput \in Seq(OvTokens) /\ n \in Nat /\ n >= 1 /\ Len(ovOutput) \in Nat
      /\ ovCopy' \in Seq(OvTokens) /\ Len(ovCopy') = n - 1 /\ t = ovCopy[1] /\ t \in OvTokens
      /\ \A j \in 1 .. (n - 1) : ovCopy'[j] = ovCopy[j + 1]
  <2>1. ovCopy \in Seq(OvTokens) /\ ovOutput \in Seq(OvTokens) /\ n \in Nat /\ n >= 1 /\ Len(ovOutput) \in Nat
    BY <1>0, <1>1, EmptySeq, LenProperties DEF PipelineTypes
  <2>2. /\ ovCopy' \in Seq(OvTokens) /\ Len(ovCopy') = n - 1
        /\ \A j \in 1 .. (n - 1) : ovCopy'[j] = ovCopy[j + 1]
    BY <1>1, <2>1, HeadTailProperties
  <2>3. t = ovCopy[1] /\ t \in OvTokens
    BY <2>1, ElementOfSeq DEF t
  <2> QED
    BY <2>1, <2>2, <2>3
<1>3. /\ ovOutput' \in Seq(OvTokens) /\ Len(ovOutput') = Len(ovOutput) + 1
      /\ \A j \in 1 .. Len(ovOutput) : ovOutput'[j] = ovOutput[j]
      /\ ovOutput'[Len(ovOutput) + 1] = t
  BY <1>1, <1>2, AppendProperties
<1>4. Done' = Done /\ JobCount' = JobCount /\ \A k : Job(k)' = Job(k)
  BY <1>1, <1>2, <1>3 DEF Done, JobCount, Job
<1>5. \A j, i, r : Due(j, r)' = Due(j, r) /\ Token(j, i)' = Token(j, i)
  BY <1>1 DEF Due, Token
<1>6. \A p, m : Holds(p, m)' = Holds(p, m)
  <2>1. \A p, k, before : Wrote(p, k, before)' = Wrote(p, k, before)
    BY <1>1, <1>4, <1>5 DEF Wrote
  <2> QED
    BY <1>1, <1>4, <1>5 DEF Holds, Wrote
<1>7. \A id, m, token : FutureOf(id, m, token)' <=> FutureOf(id, m, token)
  BY <1>6 DEF FutureOf
<1>8. PipelineTypes'
  BY <1>0, <1>1, <1>2, <1>3 DEF PipelineTypes
<1>9. PipelineFollows'
  BY <1>0, <1>1, <1>4 DEF PipelineFollows, JobOf
<1>10. TokensRight'
  <2>1. \A j : Tokens(j)' = Tokens(j)
    BY <1>1, <1>5 DEF Tokens
  <2>2. ASSUME NEW j \in 1 .. Len(ovOutput')  PROVE ovOutput'[j] = Tokens(j)
    <3>1. CASE j \in 1 .. Len(ovOutput)
      BY <1>0, <1>3, <3>1 DEF TokensRight
    <3>2. CASE j = Len(ovOutput) + 1
      BY <1>0, <1>2, <1>3, <3>2 DEF TokensRight
    <3> QED
      BY <1>2, <1>3, <3>1, <3>2
  <2>3. ASSUME NEW j \in 1 .. Len(ovCopy')  PROVE ovCopy'[j] = Tokens(Len(ovOutput') + j)
    <3>1. j + 1 \in 1 .. n /\ j \in 1 .. (n - 1) /\ Len(ovOutput') + j = Len(ovOutput) + (j + 1)
      BY <1>2, <1>3
    <3> QED
      BY <1>0, <1>2, <3>1 DEF TokensRight
  <2>4. \A j \in 1 .. Len(ovCopy') : ovCopy'[j] = Tokens(Len(ovOutput) + j)'
    <3>1. \A j, m : m = Len(ovOutput') + j /\ j \in 1 .. Len(ovCopy') => ovCopy'[j] = Tokens(m)'
      BY <2>1, <2>3
    <3> QED
      BY <3>1
  <2> QED
    BY <2>1, <2>2, <2>4 DEF TokensRight
<1>11. ForwardRight'
  BY <1>0, <1>1, <1>4, <1>5 DEF ForwardRight
<1>12. InputRight'
  <2>1. \A c, j : InputOf(c, j)' <=> InputOf(c, j)
    BY <1>5, <1>7 DEF InputOf
  <2> QED
    BY <1>0, <1>1, <1>4, <2>1 DEF InputRight
<1>13. SchedulerRight'
  <2>1. \A r : NextToken(r)' = NextToken(r)
    BY <1>1 DEF NextToken, Decoding, Extending, Awaited
  <2> QED
    BY <1>0, <1>1, <1>7, <2>1 DEF SchedulerRight, FuturesHeld
<1>14. (Held <= OvMaxRunning)' /\ SecondLive' /\ OutputIsOwn'
  BY <1>0, <1>1 DEF Held, SecondLive, OutputIsOwn, Awaited
<1> QED
  BY <1>8, <1>9, <1>10, <1>11, <1>12, <1>13, <1>14 DEF OutputInv

\* The token a batch launched now gives to r, and what the map will hold with it.
NewToken(b, r) == IF b.mode = "extend" THEN 1 ELSE NextToken(r) + 1
Grown(b) ==
  /\ Len(ovResults) \in {0, 1} /\ Len(ovResults') = Len(ovResults) + 1
  /\ Done \in 0 .. Len(ovResults)
  /\ \A p, n : n = Len(ovResults) + 1 =>
       Holds(p, n)' = IF p - ovCt \in DOMAIN b.reqs THEN <<b.reqs[p - ovCt], NewToken(b, b.reqs[p - ovCt])>>
                      ELSE Holds(p, n - 1)
Inputs(b) ==
  b.mode = "decode" => \A i \in DOMAIN b.reqs :
    FutureOf(b.ids[i], Len(ovResults), <<b.reqs[i], NextToken(b.reqs[i])>>)

\* A batch launched is the last job; its futures are of the tokens after those it is given.
LEMMA RunPipeline ==
  ASSUME SlotsInv, OutputInv, ovPc = "schedule",
         NEW b, IsBatch(b), b.mode \in {"extend", "decode"}, Inputs(b),
         NEW running, IsRunning(running), Run(b, running), UNCHANGED workerVars, ovFinished' = ovFinished,
         \A r \in OvReqs : ovReq'[r].out = ovReq[r].out
  PROVE  Grown(b) /\ PipelineTypes' /\ PipelineFollows' /\ TokensRight' /\ ForwardRight' /\ InputRight' /\ OutputIsOwn'
<1> DEFINE job == [mode |-> b.mode, reqs |-> b.reqs, ids |-> b.ids, ct |-> ovCt]
           D == Done
           N == Len(ovResults)
           n == Len(ovInput)
           J == JobCount
<1>0. /\ PipelineTypes /\ PipelineFollows /\ TokensRight /\ ForwardRight /\ InputRight /\ OutputIsOwn
      /\ OverlapTypes /\ ResultsFollow
  BY DEF OutputInv, SlotsInv
<1>1. /\ ovInput' = Append(ovInput, job) /\ ovResults' = Append(ovResults, b)
      /\ UNCHANGED <<ovMap, ovForward, ovCopy, ovOutput>>
  BY DEF Run, workerVars
<1>2. Sizes
  BY <1>0, PipelineSizes DEF PipelineFollows
<1>3. /\ b.reqs \in Seq(OvReqs) /\ b.ids \in Seq(Int) /\ Len(b.ids) = Len(b.reqs) /\ DOMAIN b.reqs = 1 .. Len(b.reqs)
      /\ b \in OvBatches /\ \A i \in DOMAIN b.reqs : b.reqs[i] \in OvReqs
  BY BatchParts DEF IsBatch
<1>4. job \in OvJobs
  BY <1>0, <1>3 DEF OvJobs, OverlapTypes
<1> HIDE DEF job
<1>5. /\ job.mode = b.mode /\ job.reqs = b.reqs /\ job.ids = b.ids /\ job.ct = ovCt
  BY DEF job
<1>6. N \in {0, 1} /\ D \in 0 .. N /\ J = N - D /\ J \in {0, 1} /\ n \in Nat
  <2>1. N \in {0, 1}
    <3>1. Len(<<>>) = 0
      OBVIOUS
    <3> QED
      BY <1>0, <3>1 DEF ResultsFollow
  <2>2. D \in 0 .. 2 /\ J \in 0 .. 2 /\ D + J = N /\ n \in Nat
    BY <1>2 DEF Sizes
  <2> QED
    BY <2>1, <2>2
<1>7. /\ ovInput' \in Seq(OvJobs) /\ Len(ovInput') = n + 1 /\ ovInput'[n + 1] = job
      /\ \A k \in 1 .. n : ovInput'[k] = ovInput[k]
  <2>1. ovInput \in Seq(OvJobs)
    BY <1>0 DEF PipelineTypes
  <2> QED
    BY <1>1, <1>4, <2>1, AppendProperties
<1>8. /\ Len(ovResults') = N + 1 /\ ovResults'[N + 1] = b
      /\ \A j \in 1 .. N : ovResults'[j] = ovResults[j]
  <2>1. ovResults \in Seq(OvBatches)
    BY <1>0 DEF OverlapTypes
  <2> QED
    BY <1>1, <1>3, <2>1, AppendProperties
<1>9. Done' = D /\ JobCount' = J + 1 /\ Len(ovForward') = Len(ovForward) /\ Len(ovForward) \in {0, 1}
      /\ J = Len(ovForward) + n
  <2>1. Len(ovForward) \in {0, 1}
    BY <1>2 DEF Sizes
  <2> QED
    BY <1>1, <1>6, <1>7, <2>1 DEF Done, JobCount
<1>10. (\A m : m = J + 1 => Job(m)' = job) /\ \A k \in 1 .. J : Job(k)' = Job(k)
  <2>1. ~(J + 1 <= Len(ovForward)) /\ (J + 1) - Len(ovForward) = n + 1
    BY <1>6, <1>9
  <2>2. \A m : m = J + 1 => Job(m)' = job
    BY <1>7, <1>9, <2>1 DEF Job
  <2>3. ASSUME NEW k \in 1 .. J  PROVE Job(k)' = Job(k)
    <3>1. CASE k <= Len(ovForward)
      BY <1>1, <1>9, <3>1 DEF Job
    <3>2. CASE ~(k <= Len(ovForward))
      <4>1. k - Len(ovForward) \in 1 .. n
        BY <1>6, <1>9, <3>2
      <4> QED
        BY <1>1, <1>7, <1>9, <3>2, <4>1 DEF Job
    <3> QED
      BY <3>1, <3>2
  <2> QED
    BY <2>2, <2>3
<1>11. \A j \in 1 .. N : \A r \in OvReqs : Due(j, r)' = Due(j, r)
  <2>1. ASSUME NEW j \in 1 .. N, NEW r \in OvReqs  PROVE Due(j, r)' = Due(j, r)
    <3>1. j = 1 /\ ovResults'[j] = ovResults[j]
      BY <1>6, <1>8, <2>1
    <3>2. Len(ovReq'[r].out) = Len(ovReq[r].out)
      OBVIOUS
    <3> QED
      BY <3>1, <3>2 DEF Due, One
  <2> QED
    BY <2>1
<1>12. ASSUME NEW j \in 1 .. N
       PROVE  /\ \A i \in DOMAIN ovResults[j].reqs : Token(j, i)' = Token(j, i)
              /\ Tokens(j)' = Tokens(j)
  <2>1. ovResults'[j] = ovResults[j] /\ \A i \in DOMAIN ovResults[j].reqs : ovResults[j].reqs[i] \in OvReqs
    BY <1>2, <1>8 DEF Sizes
  <2>2. \A i \in DOMAIN ovResults[j].reqs : Token(j, i)' = Token(j, i)
    BY <1>11, <2>1 DEF Token
  <2> QED
    BY <2>1, <2>2 DEF Tokens
\* What the batch is given is what the results to be read leave it.
<1>13. ASSUME NEW r \in OvReqs
       PROVE  \A j : j = N + 1 => /\ Due(j, r)' = NewToken(b, r)
                                  /\ b.mode = "decode" => Due(j, r)' - 1 = NextToken(r)
  <2>1. Len(ovReq[r].out) \in Nat /\ ovReq'[r].out = ovReq[r].out
    BY <1>0, LenProperties DEF OverlapTypes, IsState
  <2>2. CASE b.mode = "extend"
    BY <1>8, <2>2 DEF Due, NewToken
  <2>3. CASE b.mode = "decode"
    <3>1. \A j : j = N + 1 => Due(j, r)' = Len(ovReq[r].out) + 1 + One(N = 1 /\ r \in Range(ovResults[1].reqs))
      <4>1. \A j : j = N + 1 => (j = 2 /\ r \in Range(ovResults'[1].reqs) <=> N = 1 /\ r \in Range(ovResults[1].reqs))
        BY <1>6, <1>8
      <4>2. \A j : j = N + 1 => Due(j, r)' = Len(ovReq'[r].out) + 1 + One(j = 2 /\ r \in Range(ovResults'[1].reqs))
        BY <1>8, <2>3 DEF Due, One
      <4> QED
        BY <2>1, <4>1, <4>2 DEF One
    <3>2. Decoding(r) + One(Extending(r) > 0) = One(N = 1 /\ r \in Range(ovResults[1].reqs))
      <4>1. \A mode : ~Awaited(r, 2, mode)
        BY <1>2, <1>6 DEF Sizes, Awaited
      <4>2. CASE N = 1
        <5>1. ovResults[1].mode \in {"extend", "decode"} /\ DOMAIN ovResults = 1 .. N
          BY <1>2, <4>2 DEF Sizes
        <5> QED
          BY <4>1, <4>2, <5>1 DEF Decoding, Extending, Awaited, One
      <4>3. CASE N = 0
        <5>1. \A mode : ~Awaited(r, 1, mode)
          BY <1>2, <4>3 DEF Sizes, Awaited
        <5> QED
          BY <4>1, <4>3, <5>1 DEF Decoding, Extending, One
      <4> QED
        BY <1>6, <4>2, <4>3
    <3>3. Decoding(r) \in Nat /\ One(Extending(r) > 0) \in Nat /\ One(N = 1 /\ r \in Range(ovResults[1].reqs)) \in Nat
      BY DEF Decoding, One
    <3>4. NextToken(r) = Len(ovReq[r].out) + One(N = 1 /\ r \in Range(ovResults[1].reqs))
      <4>1. \A x, y, z, w \in Nat : y + z = w => x + y + z = x + w
        OBVIOUS
      <4> QED
        BY <2>1, <3>2, <3>3, <4>1 DEF NextToken
    <3>5. \A x, y \in Nat : x + 1 + y = (x + y) + 1 /\ (x + 1 + y) - 1 = x + y
      OBVIOUS
    <3> QED
      BY <2>1, <2>3, <3>1, <3>3, <3>4, <3>5 DEF NewToken
  <2> QED
    BY <2>2, <2>3
<1>14. ASSUME NEW p, NEW before, NEW k \in 1 .. J
       PROVE  \A after : after = before => Wrote(p, k, after)' = Wrote(p, k, before)
  <2>1. D + k \in 1 .. N /\ ovResults'[D + k] = ovResults[D + k]
    BY <1>6, <1>8
  <2>2. Job(k)' = Job(k) /\ Done' = D
    BY <1>9, <1>10
  <2>3. \A j, i : j = D + k /\ i \in DOMAIN ovResults[j].reqs => Token(j, i)' = Token(j, i)
    BY <1>12, <2>1
  <2> QED
    BY <2>1, <2>2, <2>3 DEF Wrote
<1>15. ASSUME NEW p, NEW m \in D .. N  PROVE Holds(p, m)' = Holds(p, m)
  <2>1. ovMap' = ovMap /\ Done' = D
    BY <1>1, <1>9
  <2>2. CASE m = D
    BY <2>1, <2>2 DEF Holds
  <2>3. CASE m = D + 1
    <3>1. 1 \in 1 .. J /\ m # D
      BY <1>6, <2>3
    <3>2. Wrote(p, 1, ovMap[p])' = Wrote(p, 1, ovMap[p])
      BY <1>14, <2>1, <3>1
    <3> QED
      BY <2>1, <2>3, <3>1, <3>2 DEF Holds
  <2> QED
    BY <1>6, <2>2, <2>3
<1>16. \A p, m : m = N + 1 =>
         Holds(p, m)' = IF p - ovCt \in DOMAIN b.reqs THEN <<b.reqs[p - ovCt], NewToken(b, b.reqs[p - ovCt])>>
                        ELSE Holds(p, m - 1)
  <2> SUFFICES ASSUME NEW p, NEW m, m = N + 1
               PROVE  Holds(p, m)' = IF p - ovCt \in DOMAIN b.reqs
                                     THEN <<b.reqs[p - ovCt], NewToken(b, b.reqs[p - ovCt])>> ELSE Holds(p, m - 1)
    OBVIOUS
  <2>1. ovMap' = ovMap /\ Done' = D /\ m - 1 = N /\ N \in D .. N
    BY <1>1, <1>6, <1>9
  <2>2. ASSUME NEW k, k = J + 1, NEW before
        PROVE  Wrote(p, k, before)' = IF p - ovCt \in DOMAIN b.reqs
                                     THEN <<b.reqs[p - ovCt], NewToken(b, b.reqs[p - ovCt])>> ELSE before'
    <3>1. Job(k)' = job /\ Done' + k = m /\ ovResults'[m] = b
      BY <1>6, <1>8, <1>9, <1>10, <2>2
    <3>2. \A i \in DOMAIN b.reqs : Token(m, i)' = <<b.reqs[i], NewToken(b, b.reqs[i])>>
      BY <1>3, <1>13, <3>1 DEF Token
    <3> QED
      BY <1>5, <3>1, <3>2 DEF Wrote
  <2>3. CASE J = 0
    <3>1. m = D + 1 /\ m # D /\ N = D
      BY <1>6, <2>3
    <3>2. Holds(p, m)' = Wrote(p, 1, ovMap[p])'
      BY <2>1, <3>1 DEF Holds
    <3>3. Holds(p, m - 1) = ovMap[p]
      BY <2>1, <3>1 DEF Holds
    <3> QED
      BY <2>1, <2>2, <2>3, <3>2, <3>3
  <2>4. CASE J = 1
    <3>1. m = D + 2 /\ m # D /\ m # D + 1 /\ N = D + 1 /\ N # D
      BY <1>6, <2>4
    <3>2. Holds(p, m)' = Wrote(p, 2, Wrote(p, 1, ovMap[p]))'
      BY <2>1, <3>1 DEF Holds
    <3>3. Holds(p, m - 1) = Wrote(p, 1, ovMap[p])
      BY <2>1, <3>1 DEF Holds
    <3>4. Wrote(p, 1, ovMap[p])' = Wrote(p, 1, ovMap[p])
      BY <1>14, <2>1, <2>4
    <3> QED
      BY <2>2, <2>4, <3>2, <3>3, <3>4
  <2> QED
    BY <1>6, <2>3, <2>4
<1>17. Grown(b)
  BY <1>6, <1>8, <1>16 DEF Grown
<1>18. PipelineTypes'
  BY <1>0, <1>1, <1>7 DEF PipelineTypes
<1>19. PipelineFollows'
  <2>1. Done' + JobCount' = Len(ovResults')
    BY <1>6, <1>8, <1>9
  <2>2. ASSUME NEW k \in 1 .. (J + 1)  PROVE JobOf(Job(k), Done + k)'
    <3>1. CASE k \in 1 .. J
      <4>1. /\ Job(k)' = Job(k) /\ D + k \in 1 .. N /\ ovResults'[D + k] = ovResults[D + k]
        BY <1>6, <1>8, <1>10, <3>1
      <4> QED
        BY <1>0, <1>9, <3>1, <4>1 DEF PipelineFollows, JobOf
    <3>2. CASE k = J + 1
      <4>1. Job(k)' = job /\ D + k = N + 1 /\ ovResults'[D + k] = b /\ ovCt \in 0 .. FutureLimit - 1
        BY <1>0, <1>6, <1>8, <1>10, <3>2 DEF OverlapTypes
      <4> QED
        BY <1>5, <1>9, <4>1 DEF JobOf, FutureLimit
    <3> QED
      BY <1>6, <3>1, <3>2
  <2>3. ASSUME NEW k \in 1 .. (n + 1)  PROVE Len(ovInput'[k].ids) = Len(ovInput'[k].reqs)
    <3>1. CASE k \in 1 .. n
      BY <1>0, <1>7, <3>1 DEF PipelineFollows
    <3>2. CASE k = n + 1
      BY <1>3, <1>5, <1>7, <3>2
    <3> QED
      BY <1>6, <3>1, <3>2
  <2> QED
    BY <1>7, <1>9, <2>1, <2>2, <2>3 DEF PipelineFollows
<1>20. TokensRight'
  <2>1. Len(ovOutput) \in Nat /\ Len(ovCopy) \in Nat /\ Len(ovOutput) + Len(ovCopy) = D
    BY <1>2 DEF Sizes, Done
  <2>2. ASSUME NEW j \in 1 .. Len(ovOutput)  PROVE ovOutput[j] = Tokens(j)'
    <3>1. j \in 1 .. N
      BY <1>6, <2>1
    <3> QED
      BY <1>0, <1>12, <3>1 DEF TokensRight
  <2>3. ASSUME NEW j \in 1 .. Len(ovCopy)  PROVE \A m : m = Len(ovOutput) + j => ovCopy[j] = Tokens(m)'
    <3>1. Len(ovOutput) + j \in 1 .. N
      BY <1>6, <2>1
    <3> QED
      BY <1>0, <1>12, <3>1 DEF TokensRight
  <2> QED
    BY <1>1, <2>2, <2>3 DEF TokensRight
<1>21. ForwardRight'
  <2>1. CASE ovForward = <<>>
    BY <1>1, <2>1 DEF ForwardRight
  <2>2. CASE ovForward # <<>>
    <3>0. Len(ovForward) = 1
      BY <1>2, <2>2 DEF Sizes
    <3>1. J = 1 /\ D = 0 /\ N = 1 /\ Len(ovForward) = 1 /\ Job(1) = ovForward[1]
      <4>0. \A x, y \in {0, 1} : \A z \in 0 .. y, m \in Nat : x = 1 + m /\ x = y - z => x = 1 /\ z = 0 /\ y = 1
        OBVIOUS
      <4>1. J = 1 /\ D = 0 /\ N = 1
        <5>1. J = 1 + n
          BY <1>9, <3>0
        <5> QED
          BY <1>6, <4>0, <5>1
      <4> QED
        BY <3>0, <4>1 DEF Job
    <3>2. ovForward[1].reqs = ovResults[1].reqs
      BY <1>0, <3>1 DEF PipelineFollows, JobOf
    <3>3. \A i \in DOMAIN ovForward[1].reqs : ovForward[1].reqs[i] \in OvReqs
      BY <1>2, <3>1, <3>2 DEF Sizes
    <3>4. \A j, r : j = D + 1 /\ r \in OvReqs => Due(j, r)' = Due(j, r)
      BY <1>11, <3>1
    <3> QED
      BY <1>0, <1>1, <1>9, <3>3, <3>4 DEF ForwardRight
  <2> QED
    BY <2>1, <2>2
<1>22. InputRight'
  <2>1. \A id, m, token : m \in D .. N /\ FutureOf(id, m, token) => FutureOf(id, m, token)'
    BY <1>15 DEF FutureOf
  <2>2. ASSUME NEW c, NEW j, j \in 1 .. N, j - 1 \in D .. N, c.reqs = ovResults[j].reqs, InputOf(c, j)
        PROVE  InputOf(c, j)'
    <3>1. \A i \in DOMAIN c.reqs : c.reqs[i] \in OvReqs /\ Due(j, c.reqs[i])' = Due(j, c.reqs[i])
      BY <1>2, <1>11, <2>2 DEF Sizes
    <3> QED
      BY <2>1, <2>2, <3>1 DEF InputOf
  <2>3. ASSUME NEW k \in 1 .. n
        PROVE  \A c, j : c = ovInput[k] /\ j = D + Len(ovForward) + k => InputOf(c, j)'
    <3>1. /\ Len(ovForward) + k \in 1 .. J /\ ~(Len(ovForward) + k <= Len(ovForward))
          /\ (Len(ovForward) + k) - Len(ovForward) = k
          /\ D + Len(ovForward) + k = D + (Len(ovForward) + k)
          /\ D + Len(ovForward) + k \in 1 .. N /\ (D + Len(ovForward) + k) - 1 \in D .. N
      BY <1>6, <1>9
    <3>2. Job(Len(ovForward) + k) = ovInput[k]
      BY <3>1 DEF Job
    <3>3. ovInput[k].reqs = ovResults[D + Len(ovForward) + k].reqs
      BY <1>0, <3>1, <3>2 DEF PipelineFollows, JobOf
    <3>4. InputOf(ovInput[k], D + Len(ovForward) + k)
      BY <1>0 DEF InputRight
    <3> QED
      BY <2>2, <3>1, <3>3, <3>4
  <2>4. \A c, j : c = job /\ j = N + 1 => InputOf(c, j)'
    <3> SUFFICES ASSUME NEW j, j = N + 1, b.mode = "decode", NEW i \in DOMAIN b.reqs
                 PROVE  \A id, m, token :
                          id = b.ids[i] /\ m = j - 1 /\ token = <<b.reqs[i], Due(j, b.reqs[i])' - 1>>
                            => FutureOf(id, m, token)'
      BY <1>5 DEF InputOf
    <3>1. j - 1 = N /\ N \in D .. N /\ Due(j, b.reqs[i])' - 1 = NextToken(b.reqs[i])
      BY <1>3, <1>6, <1>13
    <3>2. FutureOf(b.ids[i], N, <<b.reqs[i], NextToken(b.reqs[i])>>)
      BY DEF Inputs
    <3> QED
      BY <2>1, <3>1, <3>2
  <2>5. ASSUME NEW k \in 1 .. (n + 1)  PROVE InputOf(ovInput[k], Done + Len(ovForward) + k)'
    <3>1. CASE k \in 1 .. n
      BY <1>7, <1>9, <2>3, <3>1
    <3>2. CASE k = n + 1
      <4>1. D + Len(ovForward) + k = N + 1
        BY <1>6, <1>9, <3>2
      <4> QED
        BY <1>7, <1>9, <2>4, <3>2, <4>1
    <3> QED
      BY <1>6, <3>1, <3>2
  <2> QED
    BY <1>7, <2>5 DEF InputRight
<1>23. OutputIsOwn'
  BY <1>0 DEF OutputIsOwn
<1> QED
  BY <1>17, <1>18, <1>19, <1>20, <1>21, <1>22, <1>23

\* The requests a merged batch goes on with have their last tokens in the map, when it is read.
LEMMA MergedFutures ==
  ASSUME SlotsInv, SchedulerRight, NEW m \in Merged, NEW i \in DOMAIN m.reqs
  PROVE  /\ m.reqs[i] \in OvReqs /\ m.reqs[i] # ovInflight
         /\ m.reqs[i] \notin ovFinished =>
              FutureOf(m.ids[i], Len(ovResults), <<m.reqs[i], NextToken(m.reqs[i])>>)
<1>1. OverlapTypes /\ \A r \in OvReqs : Stages(r)
  BY DEF SlotsInv
<1>2. m.reqs[i] \in OvReqs
  <2>1. IsBatch(m)
    BY <1>1, MergedIs DEF IsRunning
  <2> QED
    BY <2>1, BatchParts
<1>3. CASE \E j \in DOMAIN ovRunning.reqs : m.reqs[i] = ovRunning.reqs[j] /\ m.ids[i] = ovRunning.ids[j]
  <2>1. PICK j \in DOMAIN ovRunning.reqs : m.reqs[i] = ovRunning.reqs[j] /\ m.ids[i] = ovRunning.ids[j]
    BY <1>3
  <2>2. m.reqs[i] # ovInflight
    <3>1. m.reqs[i] \in Range(ovRunning.reqs) /\ Chunking(m.reqs[i])
      BY <1>1, <1>2, <2>1 DEF Range, Stages
    <3> QED
      BY <3>1 DEF Chunking
  <2> QED
    BY <1>2, <2>1, <2>2 DEF SchedulerRight, FuturesHeld
<1>4. CASE /\ ovLast.mode = "extend" /\ m.reqs[i] # ovInflight
           /\ \E j \in DOMAIN ovLast.reqs : m.reqs[i] = ovLast.reqs[j] /\ m.ids[i] = ovLast.ids[j]
  BY <1>2, <1>4 DEF SchedulerRight, FuturesHeld
<1> QED
  BY <1>1, <1>3, <1>4, MergedIs

\* The futures of a batch launched are places of the map, for its tokens.
LEMMA NewFutures ==
  ASSUME OverlapTypes, NEW b, IsBatch(b), Len(b.reqs) <= OvMaxRunning, Grown(b), NEW running, Run(b, running)
  PROVE  \A i \in DOMAIN b.reqs : \A id, n, token :
           id = ovLast'.ids[i] /\ n = Len(ovResults') /\ token = <<b.reqs[i], NewToken(b, b.reqs[i])>>
             => FutureOf(id, n, token)'
<1> SUFFICES ASSUME NEW i \in DOMAIN b.reqs, NEW id, NEW n, NEW token, id = ovLast'.ids[i], n = Len(ovResults'),
                    token = <<b.reqs[i], NewToken(b, b.reqs[i])>>
             PROVE  id < 0 /\ -id \in Places /\ Holds(-id, n)' = token
  BY DEF FutureOf, Places
<1>1. /\ DOMAIN b.reqs = 1 .. Len(b.reqs) /\ Len(b.reqs) \in Nat
      /\ b = [mode |-> b.mode, reqs |-> b.reqs, ids |-> b.ids]
  BY BatchParts
<1>2. ovLast' = [mode |-> b.mode, reqs |-> b.reqs, ids |-> [k \in DOMAIN b.reqs |-> -(ovCt + k)]]
  BY <1>1 DEF Run
<1>3. id = -(ovCt + i)
  BY <1>2
<1>4. ovCt \in 0 .. (3 * OvMaxRunning - 1) /\ i \in 1 .. OvMaxRunning /\ OvMaxRunning \in Nat \ {0}
  BY <1>1, OverlapAssumption DEF OverlapTypes, FutureLimit
<1>5. id < 0 /\ -id = ovCt + i /\ -id \in Places /\ -id - ovCt = i
  BY <1>3, <1>4 DEF Places
<1>6. Len(ovResults') = Len(ovResults) + 1
  BY DEF Grown
<1>7. Holds(-id, n)' = <<b.reqs[i], NewToken(b, b.reqs[i])>>
  <2>1. \A p, m : p - ovCt = i /\ m = Len(ovResults) + 1 => Holds(p, m)' = <<b.reqs[i], NewToken(b, b.reqs[i])>>
    BY DEF Grown
  <2>2. \A p : p = -id => Holds(p, n)' = <<b.reqs[i], NewToken(b, b.reqs[i])>>
    BY <1>5, <1>6, <2>1
  <2> QED
    BY <2>2
<1> QED
  BY <1>5, <1>7

\* A decode step looks up the last token of each of its requests, and gives it one more.
LEMMA DecodeOutput ==
  ASSUME SlotsInv, OutputInv, Decode
  PROVE  OutputInv'
<1>0. /\ OverlapTypes /\ ResultsFollow /\ \A r \in OvReqs : Stages(r)
      /\ SchedulerRight /\ Held <= OvMaxRunning
  BY DEF SlotsInv, OutputInv
<1>1. PICK b, running : Decodes(b, running)
  BY <1>0, DecodeBatch
<1>2. /\ ovPc = "schedule" /\ running \in Merged /\ IsRunning(b) /\ IsBatch(b) /\ b.mode = "decode"
      /\ Len(b.reqs) <= Len(running.reqs)
      /\ \A i \in DOMAIN b.reqs : \E j \in DOMAIN running.reqs :
           b.reqs[i] = running.reqs[j] /\ b.ids[i] = running.ids[j] /\ running.reqs[j] \notin ovFinished
      /\ Run(b, b) /\ UNCHANGED <<ovInflight, ovFinished>> /\ UNCHANGED workerVars
  BY <1>1 DEF Decodes
<1>3. ASSUME NEW i \in DOMAIN b.reqs
      PROVE  /\ b.reqs[i] \in OvReqs /\ b.reqs[i] # ovInflight /\ b.reqs[i] \notin ovFinished
             /\ FutureOf(b.ids[i], Len(ovResults), <<b.reqs[i], NextToken(b.reqs[i])>>)
  <2>1. PICK j \in DOMAIN running.reqs :
             b.reqs[i] = running.reqs[j] /\ b.ids[i] = running.ids[j] /\ running.reqs[j] \notin ovFinished
    BY <1>2
  <2> QED
    BY <1>0, <1>2, <2>1, MergedFutures
<1>4. Inputs(b)
  BY <1>3 DEF Inputs
<1>5. \A r \in OvReqs : ovReq'[r].out = ovReq[r].out
  <2>1. ASSUME NEW r \in OvReqs  PROVE ovReq'[r].out = ovReq[r].out
    <3>1. IsState(ovReq[r])
      BY <1>0 DEF OverlapTypes
    <3>2. ovReq'[r] = IF r \in Range(b.reqs) THEN [ovReq[r] EXCEPT !.slots = @ + 1] ELSE ovReq[r]
      BY <1>1 DEF Decodes
    <3> QED
      BY <3>1, <3>2 DEF IsState
  <2> QED
    BY <2>1
<1>6. Grown(b) /\ PipelineTypes' /\ PipelineFollows' /\ TokensRight' /\ ForwardRight' /\ InputRight' /\ OutputIsOwn'
  BY <1>2, <1>4, <1>5, RunPipeline
<1>7. Launches(b, b) /\ \A r \in OvReqs : Awaiting(r, b)
  BY <1>0, <1>2, Launching
<1>8. /\ Len(b.reqs) \in Nat /\ Len(b.reqs) <= OvMaxRunning /\ OvMaxRunning \in Nat
      /\ b = [mode |-> b.mode, reqs |-> b.reqs, ids |-> b.ids]
  <2>1. Len(running.reqs) <= Held /\ IsBatch(running)
    BY <1>0, <1>2, MergedIs DEF IsRunning
  <2>2. Held \in Nat
    <3>1. Len(ovRunning.reqs) \in Nat /\ Len(ovLast.reqs) \in Nat
      BY <1>0, BatchParts DEF OverlapTypes, IsRunning
    <3>2. Held = Len(ovRunning.reqs) + Len(ovLast.reqs) \/ Held = Len(ovRunning.reqs) + 0
      BY DEF Held
    <3>3. \A x, y \in Nat : x + y \in Nat /\ x + 0 \in Nat
      OBVIOUS
    <3> QED
      BY <3>1, <3>2, <3>3
  <2>3. Len(b.reqs) \in Nat /\ Len(running.reqs) \in Nat /\ OvMaxRunning \in Nat
    BY <1>2, <2>1, BatchParts, OverlapAssumption
  <2>4. b = [mode |-> b.mode, reqs |-> b.reqs, ids |-> b.ids]
    BY <1>2, BatchParts
  <2> QED
    BY <1>0, <1>2, <2>1, <2>2, <2>3, <2>4
<1>9. /\ ovRunning' = ovLast' /\ ovLast'.mode = "decode" /\ ovLast'.reqs = b.reqs
  <2>1. ovRunning' = ovLast'
    BY <1>2 DEF Run
  <2> QED
    BY <1>2, <1>7, <2>1 DEF Launches
<1>10. ASSUME NEW i \in DOMAIN b.reqs  PROVE NextToken(b.reqs[i])' = NewToken(b, b.reqs[i])
  <2>1. b.reqs[i] \in OvReqs /\ b.reqs[i] \in Range(b.reqs) /\ Counts(b.reqs[i], b)
    BY <1>3, <1>7, LaunchedCount DEF Range
  <2>2. /\ Decoding(b.reqs[i])' = Decoding(b.reqs[i]) + 1 /\ Extending(b.reqs[i])' = Extending(b.reqs[i])
        /\ Decoding(b.reqs[i]) \in 0 .. 1 /\ Extending(b.reqs[i]) \in 0 .. 1
    BY <1>2, <2>1 DEF Counts, Joins, One
  <2>3. Len(ovReq[b.reqs[i]].out) \in Nat /\ ovReq'[b.reqs[i]].out = ovReq[b.reqs[i]].out
    BY <1>0, <1>5, <2>1, LenProperties DEF OverlapTypes, IsState
  <2>4. \A x, y, z \in Nat : x + (y + 1) + z = (x + y + z) + 1
    OBVIOUS
  <2>5. One(Extending(b.reqs[i]) > 0) \in Nat
    BY DEF One
  <2>6. NextToken(b.reqs[i])' = Len(ovReq[b.reqs[i]].out) + (Decoding(b.reqs[i]) + 1) + One(Extending(b.reqs[i]) > 0)
    BY <1>7, <2>2, <2>3 DEF NextToken, One
  <2>7. NewToken(b, b.reqs[i]) = (Len(ovReq[b.reqs[i]].out) + Decoding(b.reqs[i]) + One(Extending(b.reqs[i]) > 0)) + 1
    BY <1>2 DEF NewToken, NextToken
  <2> QED
    BY <2>2, <2>3, <2>4, <2>5, <2>6, <2>7
<1>11. SchedulerRight'
  <2>1. \A i \in DOMAIN b.reqs : \A id, n, token :
           id = ovLast'.ids[i] /\ n = Len(ovResults') /\ token = <<b.reqs[i], NewToken(b, b.reqs[i])>>
             => FutureOf(id, n, token)'
    BY <1>0, <1>2, <1>6, <1>8, NewFutures
  <2>2. ASSUME NEW i \in DOMAIN b.reqs
        PROVE  \A id, n, r : id = ovLast'.ids[i] /\ n = Len(ovResults') /\ r = b.reqs[i]
                  => FutureOf(id, n, <<r, NextToken(r)>>)'
    <3>1. \A r, token : r = b.reqs[i] /\ token = <<b.reqs[i], NewToken(b, b.reqs[i])>> => token = <<r, NextToken(r)'>>
      BY <1>10
    <3>2. \A id, n, r, token : id = ovLast'.ids[i] /\ n = Len(ovResults') /\ r = b.reqs[i] /\ token = <<r, NextToken(r)'>>
                  => FutureOf(id, n, token)'
      BY <2>1, <3>1
    <3> QED
      BY <3>2 DEF FutureOf
  <2>3. FuturesHeld(ovRunning)'
    BY <1>9, <2>2 DEF FuturesHeld
  <2> QED
    BY <1>9, <2>3 DEF SchedulerRight
<1>12. (Held <= OvMaxRunning)'
  BY <1>8, <1>9 DEF Held
<1>13. SecondLive'
  <2>1. ASSUME NEW r \in OvReqs, Awaited(r, 2, "decode")'  PROVE r \notin ovFinished
    <3>1. Awaiting(r, b)
      BY <1>7
    <3>2. Joins(r, b, "decode")
      BY <2>1, <3>1 DEF Awaiting
    <3> QED
      BY <1>3, <3>2 DEF Joins, Range
  <2> QED
    BY <1>2, <2>1 DEF SecondLive
<1> QED
  BY <1>6, <1>11, <1>12, <1>13 DEF OutputInv

-------------------------------------------------------------------------------
\* The futures of the running batch are not among the places the next batch may take: the ring
\* of places has gone round no further than that since they were given.
RingRoom ==
  ovPc = "schedule" =>
    \A running \in Merged : \A i \in DOMAIN running.ids,
       place \in (ovCt + 1) .. (ovCt + OvMaxRunning - Len(running.reqs)) : running.ids[i] # -place

\* A prefill takes its places in the map from nobody.
LEMMA PrefillOutput ==
  ASSUME SlotsInv, OutputInv, RingRoom, NEW S, Prefill(S)
  PROVE  OutputInv'
<1>0. /\ OverlapTypes /\ ResultsFollow /\ \A r \in OvReqs : Stages(r)
      /\ SchedulerRight /\ Held <= OvMaxRunning
  BY DEF SlotsInv, OutputInv
<1>1. PICK reqs, next, running : Prefills(S, reqs, next, running)
  BY <1>0, PrefillBatch
<1> DEFINE b == [mode |-> "extend", reqs |-> reqs, ids |-> [i \in DOMAIN reqs |-> 0]]
<1>2. /\ ovPc = "schedule" /\ running \in Merged /\ S \subseteq ovWaiting
      /\ reqs \in Seq(OvReqs) /\ Range(reqs) \subseteq S \cup {ovInflight}
      /\ Len(running.reqs) + Len(reqs) <= OvMaxRunning
      /\ Run(b, running) /\ ovInflight' = next /\ ovFinished' = ovFinished /\ UNCHANGED workerVars
  BY <1>1 DEF Prefills
<1>3. IsRunning(running) /\ IsBatch(running)
  BY <1>0, <1>2, MergedIs DEF IsRunning
<1>4. IsBatch(b) /\ b.mode = "extend" /\ b.reqs = reqs
  <2>1. DOMAIN reqs = 1 .. Len(reqs) /\ Len(reqs) \in Nat
    BY <1>2, LenProperties
  <2>2. \A m \in Nat : \A s \in [1 .. m -> Int] : s \in Seq(Int) /\ Len(s) = m
    OBVIOUS
  <2>3. b.ids \in [1 .. Len(reqs) -> Int]
    BY <2>1
  <2>4. b.ids \in Seq(Int) /\ Len(b.ids) = Len(reqs)
    BY <2>1, <2>2, <2>3
  <2> QED
    BY <1>2, <2>4 DEF IsBatch, OvBatches
<1> HIDE DEF b
<1>5. \A r \in OvReqs : ovReq'[r].out = ovReq[r].out
  <2>1. ASSUME NEW r \in OvReqs  PROVE ovReq'[r].out = ovReq[r].out
    <3>1. IsState(ovReq[r])
      BY <1>0 DEF OverlapTypes
    <3>2. ovReq'[r] = IF r \in Range(reqs)
                      THEN [ovReq[r] EXCEPT !.rounds = @ + 1, !.slots = @ + 1, !.inflight = IF r = next THEN @ + 1 ELSE @]
                      ELSE ovReq[r]
      BY <1>1 DEF Prefills
    <3> QED
      BY <3>1, <3>2 DEF IsState
  <2> QED
    BY <2>1
<1>6. Grown(b) /\ PipelineTypes' /\ PipelineFollows' /\ TokensRight' /\ ForwardRight' /\ InputRight' /\ OutputIsOwn'
  <2>1. Inputs(b) /\ b.mode \in {"extend", "decode"}
    BY <1>4 DEF Inputs
  <2> QED
    BY <1>2, <1>3, <1>4, <1>5, <2>1, RunPipeline
<1>7. Launches(b, running) /\ \A r \in OvReqs : Awaiting(r, b)
  BY <1>0, <1>2, <1>3, <1>4, Launching
<1>8. /\ ovRunning' = running /\ ovLast'.mode = "extend" /\ ovLast'.reqs = reqs
      /\ Len(ovResults') = Len(ovResults) + 1 /\ Done \in 0 .. Len(ovResults) /\ Len(ovResults) \in {0, 1}
  <2>1. ovRunning' = running
    BY <1>2, <1>4 DEF Run
  <2> QED
    BY <1>4, <1>6, <1>7, <2>1 DEF Launches, Grown
<1>9. /\ Len(reqs) \in Nat /\ DOMAIN reqs = 1 .. Len(reqs) /\ Len(running.reqs) \in Nat
      /\ OvMaxRunning \in Nat /\ ovCt \in Nat /\ DOMAIN running.ids = DOMAIN running.reqs
      /\ Len(reqs) <= OvMaxRunning - Len(running.reqs) /\ Len(reqs) <= OvMaxRunning
  <2>1. /\ Len(reqs) \in Nat /\ DOMAIN reqs = 1 .. Len(reqs) /\ Len(running.reqs) \in Nat
        /\ OvMaxRunning \in Nat /\ DOMAIN running.ids = DOMAIN running.reqs
    BY <1>2, <1>3, BatchParts, LenProperties, OverlapAssumption
  <2>2. ovCt \in Nat
    BY <1>0, OverlapAssumption DEF OverlapTypes, FutureLimit
  <2> QED
    BY <1>2, <2>1, <2>2
\* The batch that runs goes on with its futures: no place of them is overwritten.
<1>10. ASSUME NEW i \in DOMAIN running.reqs, running.reqs[i] \notin ovFinished
       PROVE  \A r, id, n : r = running.reqs[i] /\ id = running.ids[i] /\ n = Len(ovResults) + 1
                 => FutureOf(id, n, <<r, NextToken(r)>>)'
  <2> SUFFICES ASSUME NEW r, NEW id, NEW n, r = running.reqs[i], id = running.ids[i], n = Len(ovResults) + 1
               PROVE  id < 0 /\ -id \in Places /\ Holds(-id, n)' = <<r, NextToken(r)'>>
    BY DEF FutureOf, Places
  <2>1. r \in OvReqs /\ r # ovInflight /\ FutureOf(id, Len(ovResults), <<r, NextToken(r)>>)
    BY <1>0, <1>2, <1>10, MergedFutures
  <2>2. r \notin Range(reqs)
    <3>1. Unlaunched(r) /\ Counts(r, b)
      BY <1>0, <1>7, <2>1, LaunchedCount DEF Stages
    <3>2. r \in Range(running.reqs)
      BY DEF Range
    <3>3. r \in Range(ovRunning.reqs) \/ (Joins(r, ovLast, "extend") /\ ovLast # NoOvBatch)
      BY <1>0, <1>2, <3>2, MergedRange DEF Joins, NoOvBatch
    <3>4. r \notin ovWaiting
      BY <3>1, <3>3 DEF Unlaunched, Counts
    <3> QED
      BY <1>2, <2>1, <3>4
  <2>3. NextToken(r)' = NextToken(r)
    <3>1. Counts(r, b) /\ ~Joins(r, b, "extend") /\ ~Joins(r, b, "decode")
      BY <1>4, <1>7, <2>1, <2>2, LaunchedCount DEF Joins
    <3>2. Decoding(r)' = Decoding(r) /\ Extending(r)' = Extending(r)
      BY <3>1 DEF Counts, One
    <3> QED
      BY <1>5, <2>1, <3>2 DEF NextToken, One
  <2>4. -id - ovCt \notin DOMAIN b.reqs
    <3>1. DOMAIN b.reqs = 1 .. Len(reqs) /\ id \in Int
      BY <1>3, <1>4, <1>9, BatchParts
    <3>2. ASSUME -id - ovCt \in 1 .. Len(reqs)  PROVE FALSE
      <4>1. -id \in (ovCt + 1) .. (ovCt + OvMaxRunning - Len(running.reqs)) /\ id = -(-id)
        <5>1. \A x \in Int, c, k, m, l \in Nat :
                 -x - c \in 1 .. k /\ k <= m - l => -x \in (c + 1) .. (c + m - l) /\ x = -(-x)
          OBVIOUS
        <5> QED
          BY <1>9, <3>1, <3>2, <5>1
      <4> QED
        BY <1>2, <1>9, <4>1 DEF RingRoom
    <3> QED
      BY <3>1, <3>2
  <2>5. id < 0 /\ -id \in Places /\ Holds(-id, Len(ovResults)) = <<r, NextToken(r)>>
    BY <2>1 DEF FutureOf
  <2>6. n - 1 = Len(ovResults)
    BY <1>8
  <2>7. \A p : p = -id => Holds(p, n)' = Holds(p, n - 1)
    BY <1>6, <2>4 DEF Grown
  <2> QED
    BY <2>3, <2>5, <2>6, <2>7
\* What is launched has its first token in its places; a chunk's is never looked up.
<1>11. ASSUME NEW i \in DOMAIN reqs
       PROVE  \A r, id, n : r = reqs[i] /\ id = ovLast'.ids[i] /\ n = Len(ovResults')
                 => FutureOf(id, n, <<r, NextToken(r)>>)'
  <2>1. reqs[i] \in OvReqs /\ reqs[i] \in Range(reqs)
    BY <1>2, <1>9, ElementOfSeq DEF Range
  <2>2. ovReq[reqs[i]].out = <<>> /\ Decoding(reqs[i]) = 0
    <3>1. Unlaunched(reqs[i]) /\ Chunking(reqs[i]) /\ (reqs[i] \in ovWaiting \/ reqs[i] = ovInflight)
      BY <1>0, <1>2, <2>1 DEF Stages
    <3> QED
      BY <3>1 DEF Unlaunched, Chunking
  <2>3. NextToken(reqs[i])' = 1
    <3>1. Counts(reqs[i], b) /\ Joins(reqs[i], b, "extend") /\ ~Joins(reqs[i], b, "decode")
      BY <1>4, <1>7, <2>1, LaunchedCount DEF Joins
    <3>2. Decoding(reqs[i])' = 0 /\ Extending(reqs[i])' > 0
      BY <2>2, <3>1 DEF Counts, One
    <3>3. ovReq'[reqs[i]].out = <<>> /\ Len(<<>>) = 0
      BY <1>5, <2>1, <2>2
    <3>4. \A r : r = reqs[i] => NextToken(r)' = Len(ovReq'[r].out) + Decoding(r)' + One(Extending(r)' > 0)
      BY DEF NextToken, One
    <3> QED
      BY <1>8, <3>2, <3>3, <3>4 DEF One
  <2>4. NewToken(b, reqs[i]) = 1
    BY <1>4 DEF NewToken
  <2>5. \A id, n, token : id = ovLast'.ids[i] /\ n = Len(ovResults') /\ token = <<reqs[i], 1>> => FutureOf(id, n, token)'
    BY <1>0, <1>2, <1>4, <1>6, <1>9, <2>4, NewFutures
  <2>6. \A r, token : r = reqs[i] /\ token = <<r, NextToken(r)'>> => token = <<reqs[i], 1>>
    BY <2>3
  <2>7. \A r, id, n, token : r = reqs[i] /\ id = ovLast'.ids[i] /\ n = Len(ovResults') /\ token = <<r, NextToken(r)'>>
           => FutureOf(id, n, token)'
    BY <2>5, <2>6
  <2> QED
    BY <2>7 DEF FutureOf
<1>12. SchedulerRight'
  <2>1. FuturesHeld(ovRunning)'
    BY <1>2, <1>8, <1>10 DEF FuturesHeld
  <2>2. FuturesHeld(ovLast)'
    BY <1>8, <1>11 DEF FuturesHeld
  <2> QED
    BY <2>1, <2>2 DEF SchedulerRight
<1>13. (Held <= OvMaxRunning)'
  BY <1>2, <1>8 DEF Held
<1>14. SecondLive'
  <2>1. ASSUME NEW r \in OvReqs, Awaited(r, 2, "decode")'  PROVE FALSE
    <3>1. Awaiting(r, b) /\ ~Joins(r, b, "decode")
      BY <1>4, <1>7 DEF Joins
    <3> QED
      BY <2>1, <3>1 DEF Awaiting
  <2> QED
    BY <2>1 DEF SecondLive
<1> QED
  BY <1>6, <1>12, <1>13, <1>14 DEF OutputInv

\* Steps that give no token, take none and launch nothing leave every token where it is.
LEMMA PipelineKept ==
  ASSUME SlotsInv, OutputInv, UNCHANGED <<ovResults, ovCt, ovInput>>, UNCHANGED workerVars,
         \A r \in OvReqs : ovReq'[r].out = ovReq[r].out
  PROVE  /\ PipelineTypes' /\ PipelineFollows' /\ TokensRight' /\ ForwardRight' /\ InputRight' /\ OutputIsOwn'
         /\ \A r \in OvReqs : NextToken(r)' = NextToken(r)
         /\ \A id, token : FutureOf(id, Len(ovResults), token)' <=> FutureOf(id, Len(ovResults), token)
<1> DEFINE D == Done
           N == Len(ovResults)
<1>0. /\ PipelineTypes /\ PipelineFollows /\ TokensRight /\ ForwardRight /\ InputRight /\ OutputIsOwn
      /\ OverlapTypes
  BY DEF OutputInv, SlotsInv
<1>1. UNCHANGED <<ovResults, ovCt, ovInput, ovMap, ovForward, ovCopy, ovOutput>>
  BY DEF workerVars
<1>2. Sizes
  BY <1>0, PipelineSizes DEF PipelineFollows
<1>3. /\ Done' = D /\ JobCount' = JobCount /\ \A k : Job(k)' = Job(k)
      /\ D \in 0 .. 2 /\ JobCount \in 0 .. 2 /\ D + JobCount = N /\ N \in {0, 1, 2} /\ Len(ovInput) \in Nat
      /\ Len(ovForward) \in {0, 1} /\ Len(ovOutput) \in Nat /\ Len(ovCopy) \in Nat
      /\ JobCount = Len(ovForward) + Len(ovInput) /\ D = Len(ovOutput) + Len(ovCopy)
  BY <1>1, <1>2 DEF Done, JobCount, Job, Sizes
<1>4. \A j : \A r \in OvReqs : Due(j, r)' = Due(j, r)
  BY <1>1 DEF Due
<1>5. ASSUME NEW j \in 1 .. N
      PROVE  /\ \A i \in DOMAIN ovResults[j].reqs : ovResults[j].reqs[i] \in OvReqs /\ Token(j, i)' = Token(j, i)
             /\ Tokens(j)' = Tokens(j)
  <2>1. \A i \in DOMAIN ovResults[j].reqs : ovResults[j].reqs[i] \in OvReqs
    BY <1>2 DEF Sizes
  <2>2. \A i \in DOMAIN ovResults[j].reqs : Token(j, i)' = Token(j, i)
    BY <1>1, <1>4, <2>1 DEF Token
  <2> QED
    BY <1>1, <2>1, <2>2 DEF Tokens
<1>6. ASSUME NEW p, NEW before, NEW k \in 1 .. (N - D)
      PROVE  \A after : after = before => Wrote(p, k, after)' = Wrote(p, k, before)
  <2>1. D + k \in 1 .. N
    BY <1>3
  <2> QED
    BY <1>1, <1>3, <1>5, <2>1 DEF Wrote
<1>7. ASSUME NEW p, NEW m \in D .. N  PROVE Holds(p, m)' = Holds(p, m)
  <2>1. CASE m = D
    BY <1>1, <1>3, <2>1 DEF Holds
  <2>2. CASE m = D + 1
    <3>1. 1 \in 1 .. (N - D) /\ m # D
      BY <1>3, <2>2
    <3>2. Wrote(p, 1, ovMap[p])' = Wrote(p, 1, ovMap[p])
      BY <1>1, <1>6, <3>1
    <3> QED
      BY <1>1, <1>3, <2>2, <3>1, <3>2 DEF Holds
  <2>3. CASE m = D + 2
    <3>1. 1 \in 1 .. (N - D) /\ 2 \in 1 .. (N - D) /\ m # D /\ m # D + 1
      BY <1>3, <2>3
    <3>2. Wrote(p, 1, ovMap[p])' = Wrote(p, 1, ovMap[p])
      BY <1>1, <1>6, <3>1
    <3>3. Wrote(p, 2, Wrote(p, 1, ovMap[p]))' = Wrote(p, 2, Wrote(p, 1, ovMap[p]))
      BY <1>6, <3>1, <3>2
    <3> QED
      BY <1>3, <3>1, <3>3 DEF Holds
  <2> QED
    BY <1>3, <2>1, <2>2, <2>3
<1>8. \A id, token : \A m \in D .. N : FutureOf(id, m, token)' <=> FutureOf(id, m, token)
  BY <1>7 DEF FutureOf
<1>9. PipelineTypes' /\ PipelineFollows'
  BY <1>0, <1>1, <1>3 DEF PipelineTypes, PipelineFollows, JobOf
<1>10. TokensRight'
  <2>1. \A j \in 1 .. Len(ovOutput) : ovOutput[j] = Tokens(j) /\ j \in 1 .. N
    BY <1>0, <1>3 DEF TokensRight
  <2>2. \A j \in 1 .. Len(ovCopy) : ovCopy[j] = Tokens(Len(ovOutput) + j) /\ Len(ovOutput) + j \in 1 .. N
    BY <1>0, <1>3 DEF TokensRight
  <2>3. \A j \in 1 .. Len(ovCopy) : \A m : m = Len(ovOutput) + j => ovCopy[j] = Tokens(m)'
    BY <1>5, <2>2
  <2> QED
    BY <1>1, <1>5, <2>1, <2>3 DEF TokensRight
<1>11. ForwardRight'
  <2>1. CASE ovForward = <<>>
    BY <1>1, <2>1 DEF ForwardRight
  <2>2. CASE ovForward # <<>>
    <3>0. Len(ovForward) = 1
      BY <1>2, <2>2 DEF Sizes
    <3>1. 1 \in 1 .. JobCount /\ D + 1 \in 1 .. N /\ Job(1) = ovForward[1]
      <4>1. 1 \in 1 .. JobCount /\ D + 1 \in 1 .. N
        BY <1>3, <3>0
      <4> QED
        BY <3>0, <4>1 DEF Job
    <3>2. ovForward[1].reqs = ovResults[D + 1].reqs
      BY <1>0, <3>1 DEF PipelineFollows, JobOf
    <3>3. \A i \in DOMAIN ovForward[1].reqs : ovForward[1].reqs[i] \in OvReqs
      BY <1>2, <3>1, <3>2 DEF Sizes
    <3>4. \A j, r : j = D + 1 /\ r \in OvReqs => Due(j, r)' = Due(j, r)
      BY <1>4
    <3> QED
      BY <1>0, <1>1, <1>3, <3>3, <3>4 DEF ForwardRight
  <2> QED
    BY <2>1, <2>2
<1>12. InputRight'
  <2>1. ASSUME NEW c, NEW j, j \in 1 .. N, j - 1 \in D .. N, c.reqs = ovResults[j].reqs, InputOf(c, j)
        PROVE  InputOf(c, j)'
    <3>1. \A i \in DOMAIN c.reqs : c.reqs[i] \in OvReqs /\ Due(j, c.reqs[i])' = Due(j, c.reqs[i])
      BY <1>4, <1>5, <2>1
    <3> QED
      BY <1>8, <2>1, <3>1 DEF InputOf
  <2>2. ASSUME NEW k \in 1 .. Len(ovInput)
        PROVE  \A c, j : c = ovInput[k] /\ j = D + Len(ovForward) + k => InputOf(c, j)'
    <3>1. /\ Len(ovForward) + k \in 1 .. JobCount /\ ~(Len(ovForward) + k <= Len(ovForward))
          /\ (Len(ovForward) + k) - Len(ovForward) = k
          /\ D + Len(ovForward) + k = D + (Len(ovForward) + k)
          /\ D + Len(ovForward) + k \in 1 .. N /\ (D + Len(ovForward) + k) - 1 \in D .. N
      BY <1>3
    <3>2. Job(Len(ovForward) + k) = ovInput[k]
      BY <3>1 DEF Job
    <3>3. ovInput[k].reqs = ovResults[D + Len(ovForward) + k].reqs
      BY <1>0, <3>1, <3>2 DEF PipelineFollows, JobOf
    <3>4. InputOf(ovInput[k], D + Len(ovForward) + k)
      BY <1>0 DEF InputRight
    <3> QED
      BY <2>1, <3>1, <3>3, <3>4
  <2> QED
    BY <1>1, <1>3, <2>2 DEF InputRight
<1>13. OutputIsOwn'
  BY <1>0 DEF OutputIsOwn
<1>14. \A r \in OvReqs : NextToken(r)' = NextToken(r)
  BY <1>1 DEF NextToken, Decoding, Extending, Awaited
<1>15. \A id, token : FutureOf(id, Len(ovResults), token)' <=> FutureOf(id, Len(ovResults), token)
  <2>1. N \in D .. N
    BY <1>3
  <2>2. \A id, token, m : m = N => (FutureOf(id, m, token)' <=> FutureOf(id, m, token))
    BY <1>8, <2>1
  <2> QED
    BY <1>1, <2>2
<1> QED
  BY <1>9, <1>10, <1>11, <1>12, <1>13, <1>14, <1>15

\* Between two rounds at most one result is to be read.
LEMMA OneResult ==
  ASSUME SlotsInv, ovPc = "schedule", NEW r, NEW mode
  PROVE  ~Awaited(r, 2, mode)
<1>1. ResultsFollow /\ ovResults \in Seq(OvBatches)
  BY DEF SlotsInv, OverlapTypes
<1>2. Len(ovResults) \in {0, 1} /\ DOMAIN ovResults = 1 .. Len(ovResults)
  <2>1. Len(<<>>) = 0
    OBVIOUS
  <2> QED
    BY <1>1, <2>1, LenProperties DEF ResultsFollow
<1> QED
  BY <1>2 DEF Awaited

\* With nothing to run no future is held.
LEMMA NothingOutput ==
  ASSUME SlotsInv, OutputInv, NothingToRun
  PROVE  OutputInv'
<1>1. /\ ovPc = "schedule" /\ ovRunning' = NoOvBatch /\ ovLast' = NoOvBatch
      /\ UNCHANGED <<ovResults, ovCt, ovInput, ovReq, ovFinished>> /\ UNCHANGED workerVars
  BY DEF NothingToRun
<1>2. /\ PipelineTypes' /\ PipelineFollows' /\ TokensRight' /\ ForwardRight' /\ InputRight' /\ OutputIsOwn'
  BY <1>1, PipelineKept
<1>3. NoOvBatch.mode = "none" /\ NoOvBatch.reqs = <<>> /\ DOMAIN NoOvBatch.reqs = {} /\ Len(NoOvBatch.reqs) = 0
  BY EmptySeq DEF NoOvBatch
<1>4. SchedulerRight'
  BY <1>1, <1>3 DEF SchedulerRight, FuturesHeld
<1>5. (Held <= OvMaxRunning)'
  BY <1>1, <1>3, OverlapAssumption DEF Held
<1>6. SecondLive'
  BY <1>1, OneResult DEF SecondLive, Awaited
<1> QED
  BY <1>2, <1>4, <1>5, <1>6 DEF OutputInv

\* A request received has no token.
LEMMA ReceiveOutput ==
  ASSUME SlotsInv, OutputInv, NEW t \in OvReqs, OvReceive(t)
  PROVE  OutputInv'
<1>0. OverlapTypes /\ SchedulerRight /\ Held <= OvMaxRunning /\ SecondLive
  BY DEF SlotsInv, OutputInv
<1>1. UNCHANGED <<ovRunning, ovLast, ovInflight, ovResults, ovCt, ovInput, ovReq, ovFinished>> /\ UNCHANGED workerVars
  BY DEF OvReceive
<1>2. /\ PipelineTypes' /\ PipelineFollows' /\ TokensRight' /\ ForwardRight' /\ InputRight' /\ OutputIsOwn'
      /\ \A r \in OvReqs : NextToken(r)' = NextToken(r)
      /\ \A id, token : FutureOf(id, Len(ovResults), token)' <=> FutureOf(id, Len(ovResults), token)
  BY <1>1, PipelineKept
<1>3. IsBatch(ovRunning) /\ IsBatch(ovLast)
  BY <1>0 DEF OverlapTypes, IsRunning
<1>4. \A b : IsBatch(b) => \A i \in DOMAIN b.reqs : b.reqs[i] \in OvReqs
  BY BatchParts
<1>5. SchedulerRight'
  BY <1>0, <1>1, <1>2, <1>3, <1>4 DEF SchedulerRight, FuturesHeld
<1>6. (Held <= OvMaxRunning)' /\ SecondLive'
  BY <1>0, <1>1 DEF Held, SecondLive, Awaited
<1> QED
  BY <1>2, <1>5, <1>6 DEF OutputInv

\* A request aborted keeps its tokens; what is awaited of it will not be taken.
LEMMA AbortOutput ==
  ASSUME SlotsInv, OutputInv, NEW t \in OvReqs, OvAbort(t)
  PROVE  OutputInv'
<1>0. OverlapTypes /\ SchedulerRight /\ Held <= OvMaxRunning
  BY DEF SlotsInv, OutputInv
<1>1. /\ ovPc = "schedule" /\ ovFinished' = ovFinished \cup {t}
      /\ ovReq' = IF t \in ovWaiting THEN ovReq ELSE [ovReq EXCEPT ![t].slots = GiveBack(t, ovReq[t].out)]
      /\ UNCHANGED <<ovRunning, ovLast, ovInflight, ovResults, ovCt, ovInput>> /\ UNCHANGED workerVars
  BY DEF OvAbort
<1>2. \A r \in OvReqs : ovReq'[r].out = ovReq[r].out
  <2>1. ASSUME NEW r \in OvReqs  PROVE ovReq'[r].out = ovReq[r].out
    <3>1. IsState(ovReq[r]) /\ ovReq = [s \in OvReqs |-> ovReq[s]]
      BY <1>0 DEF OverlapTypes
    <3> QED
      BY <1>1, <3>1 DEF IsState
  <2> QED
    BY <2>1
<1>3. /\ PipelineTypes' /\ PipelineFollows' /\ TokensRight' /\ ForwardRight' /\ InputRight' /\ OutputIsOwn'
      /\ \A r \in OvReqs : NextToken(r)' = NextToken(r)
      /\ \A id, token : FutureOf(id, Len(ovResults), token)' <=> FutureOf(id, Len(ovResults), token)
  BY <1>1, <1>2, PipelineKept
<1>4. IsBatch(ovRunning) /\ IsBatch(ovLast)
  BY <1>0 DEF OverlapTypes, IsRunning
<1>5. \A b : IsBatch(b) => \A i \in DOMAIN b.reqs : b.reqs[i] \in OvReqs
  BY BatchParts
<1>6. SchedulerRight'
  BY <1>0, <1>1, <1>3, <1>4, <1>5 DEF SchedulerRight, FuturesHeld
<1>7. (Held <= OvMaxRunning)' /\ SecondLive'
  BY <1>0, <1>1, OneResult DEF Held, SecondLive, Awaited
<1> QED
  BY <1>3, <1>6, <1>7 DEF OutputInv

\* The token a request takes from the first result, if it takes it, is its own next one.
Taken(r) ==
  /\ r \in Range(ovResults[1].reqs)
  /\ ~(ovResults[1].mode = "decode" /\ r \in ovFinished)
  /\ ~(ovResults[1].mode = "extend" /\ ovReq[r].inflight > 0)
\* What a result read changes of a request: the token, if it is taken, is its next one.
LEMMA ResultTaken ==
  ASSUME SlotsInv, OutputInv, NEW Stops, ProcessResult(Stops), NEW r \in OvReqs
  PROVE  /\ ovReq'[r].out = IF Taken(r) THEN Append(ovReq[r].out, <<r, Len(ovReq[r].out) + 1>>) ELSE ovReq[r].out
         /\ r \in ovFinished => r \in ovFinished'
<1> DEFINE b == ovResults[1]
           at == CHOOSE i \in DOMAIN b.reqs : b.reqs[i] = r
           token == ovOutput[1][at]
<1>0. /\ OverlapTypes /\ ResultsFollow /\ Stages(r) /\ PipelineTypes /\ PipelineFollows /\ TokensRight
  BY DEF SlotsInv, OutputInv
<1>1. Sizes
  BY <1>0, PipelineSizes DEF PipelineFollows
<1>2. /\ ovPc = "result" /\ ovOutput # <<>> /\ ovResults' = Tail(ovResults) /\ ovPc' = "schedule" /\ ovLast' = ovLast
      /\ r \in ovFinished => r \in ovFinished'
  BY DEF ProcessResult
<1>3. Head(ovResults) = ovResults[1]
  BY <1>0, <1>2, ResultsShift
<1>4. /\ Len(ovOutput) >= 1 /\ ovOutput[1] = Tokens(1) /\ Head(ovOutput) = ovOutput[1] /\ 1 \in 1 .. Len(ovResults)
  <2>1. ovOutput \in Seq(OvTokens) /\ Len(ovOutput) \in Nat /\ Len(ovOutput) >= 1 /\ Head(ovOutput) = ovOutput[1]
    BY <1>0, <1>2, EmptySeq, LenProperties DEF PipelineTypes
  <2>2. 1 \in 1 .. Len(ovResults)
    <3>1. Done + JobCount = Len(ovResults) /\ Len(ovCopy) \in Nat /\ JobCount \in 0 .. 2 /\ Len(ovResults) \in {0, 1, 2}
      BY <1>1 DEF Sizes
    <3>2. Done = Len(ovOutput) + Len(ovCopy)
      BY DEF Done
    <3> QED
      BY <2>1, <3>1, <3>2
  <2> QED
    BY <1>0, <2>1, <2>2 DEF TokensRight
<1>5. ovReq'[r] = IF r \in Range(b.reqs) THEN ResultOf(b.mode, r, token, r \in Stops) ELSE ovReq[r]
  <2> DEFINE first == Head(ovResults)
             tokens == Head(ovOutput)
             place(q) == CHOOSE i \in DOMAIN first.reqs : first.reqs[i] = q
  <2>1. ovReq' = [q \in OvReqs |-> IF q \in Range(first.reqs) THEN ResultOf(first.mode, q, tokens[place(q)], q \in Stops)
                                   ELSE ovReq[q]]
    BY DEF ProcessResult
  <2>2. first = b /\ tokens = ovOutput[1]
    BY <1>3, <1>4
  <2>3. place(r) = at
    BY <2>2
  <2> HIDE DEF first, tokens, place, at
  <2>4. ovReq'[r] = IF r \in Range(first.reqs) THEN ResultOf(first.mode, r, tokens[place(r)], r \in Stops) ELSE ovReq[r]
    BY <2>1
  <2> QED
    BY <2>2, <2>3, <2>4
<1>6. CASE r \notin Range(b.reqs)
  BY <1>2, <1>5, <1>6 DEF Taken
<1>7. CASE r \in Range(b.reqs)
  <2>1. at \in DOMAIN b.reqs /\ b.reqs[at] = r
    BY <1>7 DEF Range
  <2> HIDE DEF at
  <2>2. token = <<r, Due(1, r)>>
    BY <1>1, <1>4, <2>1, TokenNumbers DEF Token
  <2> HIDE DEF token
  <2>3. ovReq'[r] = Read(ovReq[r], b.mode, r, token, r \in Stops)
    BY <1>0, <1>5, <1>7, ReadState
  <2>4. b.mode \in {"extend", "decode"}
    BY <1>1, <1>4 DEF Sizes
  <2>5. ovReq'[r].out = IF Taken(r) THEN Append(ovReq[r].out, token) ELSE ovReq[r].out
    BY <1>7, <2>3, <2>4 DEF Taken, Read
  <2>6. Taken(r) => Due(1, r) = Len(ovReq[r].out) + 1
    <3>1. Len(ovReq[r].out) \in Nat
      BY <1>0, LenProperties DEF OverlapTypes, IsState
    <3>2. CASE b.mode = "extend"
      <4>1. Awaited(r, 1, "extend")
        BY <1>1, <1>4, <1>7, <3>2 DEF Awaited, Sizes
      <4>2. Extending(r) > 0
        BY <4>1 DEF Extending, One
      <4>3. ovReq[r].out = <<>> /\ Len(<<>>) = 0
        BY <1>0, <4>2 DEF Stages, Prefilling
      <4> QED
        BY <3>2, <4>3 DEF Due
    <3>3. CASE b.mode = "decode"
      BY <3>1, <3>3 DEF Due, One
    <3> QED
      BY <2>4, <3>2, <3>3
  <2> QED
    BY <1>2, <2>2, <2>5, <2>6
<1> QED
  BY <1>6, <1>7

\* Reading a result leaves what is due of the others, and the next token, as they were.
LEMMA ResultDue ==
  ASSUME SlotsInv, OutputInv, NEW Stops, ProcessResult(Stops), NEW r \in OvReqs
  PROVE  /\ Len(ovResults) = 2 /\ r \in Range(ovResults[2].reqs) => Due(1, r)' = Due(2, r)
         /\ r \notin ovFinished' \cup {ovInflight} => NextToken(r)' = NextToken(r)
<1> DEFINE b == ovResults[1]
           c == ovResults[2]
<1>0. /\ OverlapTypes /\ ResultsFollow /\ Stages(r) /\ PipelineTypes /\ PipelineFollows /\ SecondLive
  BY DEF SlotsInv, OutputInv
<1>1. Sizes
  BY <1>0, PipelineSizes DEF PipelineFollows
<1>2. /\ ovPc = "result" /\ ovResults' = Tail(ovResults) /\ ovPc' = "schedule" /\ ovLast' = ovLast
  BY DEF ProcessResult
<1>3. /\ b.mode \in {"extend", "decode"}
      /\ \A mode : /\ Awaited(r, 1, mode)' <=> Awaited(r, 2, mode)
                   /\ ~Awaited(r, 2, mode)'
                   /\ Awaited(r, 1, mode) <=> Joins(r, b, mode)
  BY <1>0, <1>2, ResultsShift
<1>4. /\ ovReq'[r].out = IF Taken(r) THEN Append(ovReq[r].out, <<r, Len(ovReq[r].out) + 1>>) ELSE ovReq[r].out
      /\ r \in ovFinished => r \in ovFinished'
  BY ResultTaken
<1>5. /\ Len(ovReq[r].out) \in Nat /\ ovReq[r].inflight \in Nat
      /\ Len(Append(ovReq[r].out, <<r, Len(ovReq[r].out) + 1>>)) = Len(ovReq[r].out) + 1
  BY <1>0, Appended DEF OverlapTypes, IsState
<1>6. Len(ovReq'[r].out) = Len(ovReq[r].out) + One(Taken(r)) /\ One(Taken(r)) \in {0, 1}
  <2>1. CASE Taken(r)
    BY <1>4, <1>5, <2>1 DEF One
  <2>2. CASE ~Taken(r)
    BY <1>4, <1>5, <2>2 DEF One
  <2> QED
    BY <2>1, <2>2
<1>7. ASSUME Len(ovResults) = 2, r \in Range(c.reqs)  PROVE Due(1, r)' = Due(2, r)
  <2>1. ovResults'[1] = c /\ c.mode \in {"extend", "decode"} /\ DOMAIN ovResults = 1 .. 2
    <3>1. ovResults \in Seq(OvBatches) /\ ovResults # <<>> /\ DOMAIN ovResults = 1 .. 2
      <4>1. Len(<<>>) = 0
        OBVIOUS
      <4>2. ovResults \in Seq(OvBatches)
        BY <1>0 DEF OverlapTypes
      <4> QED
        BY <1>7, <4>1, <4>2, LenProperties
    <3>2. \A i \in 1 .. (Len(ovResults) - 1) : Tail(ovResults)[i] = ovResults[i + 1]
      BY <3>1, HeadTailProperties
    <3>3. 1 \in 1 .. (Len(ovResults) - 1) /\ 1 + 1 = 2 /\ 2 \in 1 .. Len(ovResults)
      BY <1>7
    <3>4. ovResults'[1] = c
      BY <1>2, <3>2, <3>3
    <3>5. c.mode \in {"extend", "decode"}
      BY <1>1, <3>3 DEF Sizes
    <3> QED
      BY <3>1, <3>4, <3>5
  <2>2. CASE c.mode = "extend"
    BY <2>1, <2>2 DEF Due
  <2>3. CASE c.mode = "decode"
    <3>1. Awaited(r, 2, "decode")
      BY <1>7, <2>1, <2>3 DEF Awaited
    <3>2. r \notin ovFinished /\ Decoding(r) > 0
      BY <1>0, <3>1 DEF SecondLive, Decoding, One
    <3>3. r \in Range(b.reqs) /\ b.mode = "extend" => ovReq[r].inflight = 0
      <4>1. ASSUME r \in Range(b.reqs), b.mode = "extend"  PROVE ovReq[r].inflight = 0
        <5>1. Awaited(r, 1, "extend")
          BY <1>3, <4>1 DEF Joins
        <5>2. ovReq[r].out = <<>>
          BY <1>0, <5>1 DEF Stages, Prefilling, Extending, One
        <5> QED
          BY <1>0, <3>2, <5>2 DEF Stages, InRunning, FirstRead
      <4> QED
        BY <4>1
    <3>4. Taken(r) <=> r \in Range(b.reqs)
      BY <3>2, <3>3 DEF Taken
    <3>5. Due(2, r) = Len(ovReq[r].out) + 1 + One(r \in Range(b.reqs))
      BY <2>3 DEF Due, One
    <3>6. Due(1, r)' = Len(ovReq'[r].out) + 1 + 0
      BY <2>1, <2>3 DEF Due, One
    <3>7. \A x \in Nat, y \in {0, 1} : (x + y) + 1 + 0 = x + 1 + y
      OBVIOUS
    <3>8. One(Taken(r)) = One(r \in Range(b.reqs))
      BY <3>4 DEF One
    <3> QED
      BY <1>5, <1>6, <3>5, <3>6, <3>7, <3>8
  <2> QED
    BY <2>1, <2>2, <2>3
<1>8. ASSUME r \notin ovFinished', r # ovInflight  PROVE NextToken(r)' = NextToken(r)
  <2>0. r \notin ovFinished
    BY <1>4, <1>8
  <2>1. /\ Decoding(r)' = One(Awaited(r, 2, "decode")) /\ Extending(r)' = One(Awaited(r, 2, "extend"))
        /\ Decoding(r) = One(Joins(r, b, "decode")) + One(Awaited(r, 2, "decode"))
        /\ Extending(r) = One(Joins(r, b, "extend")) + One(Awaited(r, 2, "extend"))
    <3>1. /\ Decoding(r)' = One(Awaited(r, 2, "decode")) + 0
          /\ Extending(r)' = One(Awaited(r, 2, "extend")) + 0
      BY <1>3 DEF Decoding, Extending, One
    <3> QED
      BY <1>3, <3>1 DEF Decoding, Extending, One
  <2>2. /\ NextToken(r)' = Len(ovReq[r].out) + One(Taken(r)) + Decoding(r)' + One(Extending(r)' > 0)
        /\ NextToken(r) = Len(ovReq[r].out) + Decoding(r) + One(Extending(r) > 0)
    BY <1>6 DEF NextToken, One
  <2>3. CASE ~(r \in Range(b.reqs))
    <3>1. ~Taken(r) /\ ~Joins(r, b, "decode") /\ ~Joins(r, b, "extend")
      BY <2>3 DEF Taken, Joins
    <3> QED
      BY <1>5, <2>1, <2>2, <3>1 DEF One
  <2>4. CASE r \in Range(b.reqs) /\ b.mode = "decode"
    <3>1. Taken(r) /\ Joins(r, b, "decode") /\ ~Joins(r, b, "extend")
      BY <2>0, <2>4 DEF Taken, Joins
    <3>2. Extending(r)' = Extending(r) /\ Decoding(r) = 1 + Decoding(r)'
      BY <2>1, <3>1 DEF One
    <3>3. One(Taken(r)) = 1 /\ Decoding(r)' \in Nat /\ One(Extending(r) > 0) \in Nat
      BY <2>1, <3>1 DEF One
    <3>4. \A x, y, z \in Nat : x + 1 + y + z = x + (1 + y) + z
      OBVIOUS
    <3>5. One(Extending(r)' > 0) = One(Extending(r) > 0)
      BY <3>2
    <3> QED
      BY <1>5, <2>2, <3>2, <3>3, <3>4, <3>5
  <2>5. CASE r \in Range(b.reqs) /\ b.mode = "extend"
    <3>1. Joins(r, b, "extend") /\ ~Joins(r, b, "decode")
      BY <2>5 DEF Joins
    <3>2. Decoding(r)' = Decoding(r) /\ Extending(r) = 1 + Extending(r)' /\ Extending(r)' \in {0, 1} /\ Decoding(r) \in Nat
      BY <2>1, <3>1 DEF One
    <3>3. ovReq[r].inflight = Extending(r)'
      <4>1. Prefilling(r)
        BY <1>0 DEF Stages
      <4> QED
        BY <1>8, <2>0, <3>2, <4>1 DEF Prefilling
    <3>4. Taken(r) <=> Extending(r)' = 0
      BY <2>5, <3>2, <3>3 DEF Taken
    <3>5. CASE Extending(r)' = 0
      <4>1. One(Taken(r)) = 1 /\ One(Extending(r)' > 0) = 0 /\ One(Extending(r) > 0) = 1
        BY <3>2, <3>4, <3>5 DEF One
      <4>2. \A x, y \in Nat : x + 1 + y + 0 = x + y + 1
        OBVIOUS
      <4> QED
        BY <1>5, <2>2, <3>2, <4>1, <4>2
    <3>6. CASE Extending(r)' = 1
      <4>1. One(Taken(r)) = 0 /\ One(Extending(r)' > 0) = 1 /\ One(Extending(r) > 0) = 1
        BY <3>2, <3>4, <3>6 DEF One
      <4>2. \A x, y \in Nat : x + 0 + y + 1 = x + y + 1
        OBVIOUS
      <4> QED
        BY <1>5, <2>2, <3>2, <4>1, <4>2
    <3> QED
      BY <3>2, <3>5, <3>6
  <2> QED
    BY <1>3, <2>3, <2>4, <2>5
<1> QED
  BY <1>7, <1>8

\* The results move up by one, and what the map holds with them.
LEMMA ResultOutput ==
  ASSUME SlotsInv, OutputInv, NEW Stops, ProcessResult(Stops)
  PROVE  OutputInv'
<1> DEFINE D == Done
           N == Len(ovResults)
<1>0. /\ PipelineTypes /\ PipelineFollows /\ TokensRight /\ InputRight /\ SchedulerRight
      /\ Held <= OvMaxRunning /\ SecondLive /\ OutputIsOwn /\ OverlapTypes /\ ResultsFollow
  BY DEF OutputInv, SlotsInv
<1>1. /\ ovPc = "result" /\ ovForward = <<>> /\ ovOutput # <<>> /\ ovResults' = Tail(ovResults)
      /\ ovOutput' = Tail(ovOutput) /\ ovPc' = "schedule"
      /\ UNCHANGED <<ovToCome, ovWaiting, ovRunning, ovLast, ovInflight, ovCt, ovInput, ovMap, ovForward, ovCopy>>
  BY DEF ProcessResult
<1>2. Sizes
  BY <1>0, PipelineSizes DEF PipelineFollows
<1>3. /\ ovOutput \in Seq(OvTokens) /\ Len(ovOutput) \in Nat /\ Len(ovOutput) >= 1
      /\ ovOutput' \in Seq(OvTokens) /\ Len(ovOutput') = Len(ovOutput) - 1
      /\ \A j \in 1 .. (Len(ovOutput) - 1) : ovOutput'[j] = ovOutput[j + 1]
  <2>1. ovOutput \in Seq(OvTokens) /\ Len(ovOutput) \in Nat /\ Len(ovOutput) >= 1
    BY <1>0, <1>1, EmptySeq, LenProperties DEF PipelineTypes
  <2> QED
    BY <1>1, <2>1, HeadTailProperties
<1>4. /\ Len(ovForward) = 0 /\ Len(ovInput) \in Nat /\ Len(ovCopy) \in Nat /\ JobCount = Len(ovInput)
      /\ JobCount' = JobCount /\ \A k : Job(k)' = Job(k)
      /\ D = Len(ovOutput) + Len(ovCopy) /\ Done' = Len(ovOutput') + Len(ovCopy)
  BY <1>1, <1>2 DEF Done, JobCount, Job, Sizes
<1>5. /\ D \in 1 .. 2 /\ N \in 1 .. 2 /\ D + JobCount = N /\ Done' = D - 1 /\ Len(ovResults) \in Nat
      /\ JobCount \in 0 .. 1
  <2>1. D \in 0 .. 2 /\ N \in {0, 1, 2} /\ D + JobCount = N /\ JobCount \in 0 .. 2
    BY <1>2 DEF Sizes
  <2>2. D >= 1 /\ Done' = D - 1
    BY <1>3, <1>4
  <2> QED
    BY <2>1, <2>2
<1>6. /\ Len(ovResults') = N - 1
      /\ \A j \in 1 .. (N - 1) : ovResults'[j] = ovResults[j + 1]
  <2>1. ovResults \in Seq(OvBatches) /\ ovResults # <<>>
    <3>1. Len(<<>>) = 0
      OBVIOUS
    <3> QED
      BY <1>0, <1>5, <3>1 DEF OverlapTypes
  <2> QED
    BY <1>1, <2>1, HeadTailProperties
\* Only the second result is left.
<1>7. ASSUME NEW j \in 2 .. N
      PROVE  /\ \A k : k = j - 1 => /\ ovResults'[k] = ovResults[j]
                                    /\ \A i \in DOMAIN ovResults[j].reqs :
                                         /\ ovResults[j].reqs[i] \in OvReqs
                                         /\ \A r : r = ovResults[j].reqs[i] => Due(k, r)' = Due(j, r)
                                         /\ Token(k, i)' = Token(j, i)
                                    /\ Tokens(k)' = Tokens(j)
  <2>1. j = 2 /\ N = 2
    BY <1>5
  <2>2. ovResults'[1] = ovResults[2]
    BY <1>6, <2>1
  <2>3. ASSUME NEW i \in DOMAIN ovResults[2].reqs
        PROVE  /\ ovResults[2].reqs[i] \in OvReqs
               /\ \A r : r = ovResults[2].reqs[i] => Due(1, r)' = Due(2, r)
    <3>1. ovResults[2].reqs[i] \in OvReqs /\ ovResults[2].reqs[i] \in Range(ovResults[2].reqs)
      BY <1>2, <2>1 DEF Sizes, Range
    <3>2. \A r \in OvReqs : r \in Range(ovResults[2].reqs) => Due(1, r)' = Due(2, r)
      BY <2>1, ResultDue
    <3> QED
      BY <3>1, <3>2
  <2>4. \A i \in DOMAIN ovResults[2].reqs : Token(1, i)' = Token(2, i)
    BY <2>2, <2>3 DEF Token
  <2>5. Tokens(1)' = Tokens(2)
    BY <2>2, <2>4 DEF Tokens
  <2>6. \A k : k = j - 1 => k = 1
    BY <2>1
  <2> QED
    BY <2>1, <2>2, <2>3, <2>4, <2>5, <2>6
<1>8. ASSUME NEW p, NEW m \in D .. N
      PROVE  \A l : l = m - 1 => Holds(p, l)' = Holds(p, m)
  <2>1. CASE m = D
    <3>1. \A l : l = m - 1 => l = Done'
      BY <1>5, <2>1
    <3> QED
      BY <1>1, <2>1, <3>1 DEF Holds
  <2>2. CASE m = D + 1
    <3>1. D = 1 /\ N = 2 /\ m = 2 /\ Done' = 0 /\ m # D
      BY <1>5, <2>2
    <3>2. ovResults'[1] = ovResults[2] /\ \A i \in DOMAIN ovResults[2].reqs : Token(1, i)' = Token(2, i)
      <4>1. \A k : k = 1 => /\ ovResults'[k] = ovResults[2]
                            /\ \A i \in DOMAIN ovResults[2].reqs : Token(k, i)' = Token(2, i)
        BY <1>7, <3>1
      <4> QED
        BY <4>1
    <3>3. Wrote(p, 1, ovMap[p])' = Wrote(p, 1, ovMap[p])
      <4> DEFINE x == p - Job(1).ct
      <4>1. Done' + 1 = 1 /\ Done + 1 = 2 /\ Job(1)' = Job(1) /\ ovMap' = ovMap
        BY <1>1, <1>4, <3>1
      <4>2. Wrote(p, 1, ovMap[p]) = IF x \in DOMAIN ovResults[2].reqs THEN Token(2, x) ELSE ovMap[p]
        BY <4>1 DEF Wrote
      <4>3. \A k, y : k = 1 /\ y = x =>
               Wrote(p, 1, ovMap[p])' = IF y \in DOMAIN ovResults[2].reqs THEN Token(k, y)' ELSE ovMap[p]
        BY <3>2, <4>1 DEF Wrote, Token, Due
      <4> QED
        BY <3>2, <4>2, <4>3
    <3>4. Holds(p, m) = Wrote(p, 1, ovMap[p])
      BY <2>2, <3>1 DEF Holds
    <3>5. \A l : l = m - 1 => l # Done' /\ l = Done' + 1
      BY <3>1
    <3>6. \A l : l = m - 1 => Holds(p, l)' = Wrote(p, 1, ovMap[p])'
      BY <3>5 DEF Holds
    <3> QED
      BY <3>3, <3>4, <3>6
  <2> QED
    BY <1>5, <2>1, <2>2
<1>9. ASSUME NEW m \in D .. N
      PROVE  \A l, id, token : l = m - 1 /\ FutureOf(id, m, token) => FutureOf(id, l, token)'
  BY <1>8 DEF FutureOf
<1>10. PipelineTypes'
  BY <1>0, <1>1, <1>3 DEF PipelineTypes
<1>11. PipelineFollows'
  <2>1. Done' + JobCount' = Len(ovResults')
    BY <1>4, <1>5, <1>6
  <2>2. ASSUME NEW k \in 1 .. JobCount  PROVE JobOf(Job(k), Done + k)'
    <3>1. D + k \in 2 .. N /\ Done' + k = (D + k) - 1 /\ (D + k) - 1 \in 1 .. (N - 1) /\ ((D + k) - 1) + 1 = D + k
      BY <1>5
    <3>2. ovResults'[Done' + k] = ovResults[D + k] /\ JobOf(Job(k), D + k)
      BY <1>0, <1>6, <3>1 DEF PipelineFollows
    <3> QED
      BY <1>4, <3>2 DEF JobOf
  <2> QED
    BY <1>0, <1>1, <1>4, <2>1, <2>2 DEF PipelineFollows
<1>12. TokensRight'
  <2>1. ASSUME NEW j \in 1 .. Len(ovOutput')  PROVE ovOutput'[j] = Tokens(j)'
    <3>1. j \in 1 .. (Len(ovOutput) - 1) /\ j + 1 \in 1 .. Len(ovOutput) /\ j + 1 \in 2 .. N /\ j = (j + 1) - 1
      BY <1>3, <1>4, <1>5
    <3>2. ovOutput[j + 1] = Tokens(j + 1)
      BY <1>0, <3>1 DEF TokensRight
    <3>3. Tokens(j)' = Tokens(j + 1)
      BY <1>7, <3>1
    <3> QED
      BY <1>3, <3>1, <3>2, <3>3
  <2>2. ASSUME NEW j \in 1 .. Len(ovCopy)  PROVE \A m : m = Len(ovOutput') + j => ovCopy[j] = Tokens(m)'
    <3>1. Len(ovOutput) + j \in 2 .. N /\ Len(ovOutput') + j = (Len(ovOutput) + j) - 1
      BY <1>3, <1>4, <1>5
    <3>2. ovCopy[j] = Tokens(Len(ovOutput) + j)
      BY <1>0 DEF TokensRight
    <3> QED
      BY <1>7, <3>1, <3>2
  <2> QED
    BY <1>1, <2>1, <2>2 DEF TokensRight
<1>13. ForwardRight'
  BY <1>1 DEF ForwardRight
<1>14. InputRight'
  <2>1. ASSUME NEW c, NEW j, j \in 2 .. N, j - 1 \in D .. N, c.reqs = ovResults[j].reqs, InputOf(c, j)
        PROVE  \A k : k = j - 1 => InputOf(c, k)'
    <3> SUFFICES ASSUME NEW k, k = j - 1  PROVE InputOf(c, k)'
      OBVIOUS
    <3>1. \A i \in DOMAIN c.reqs : \A r : r = c.reqs[i] => Due(k, r)' = Due(j, r)
      BY <1>7, <2>1
    <3>2. \A id, token, l : l = k - 1 /\ FutureOf(id, j - 1, token) => FutureOf(id, l, token)'
      BY <1>9, <2>1
    <3> QED
      BY <2>1, <3>1, <3>2 DEF InputOf
  <2>2. ASSUME NEW k \in 1 .. Len(ovInput)
        PROVE  \A c, j : c = ovInput[k] /\ j = Done' + Len(ovForward') + k => InputOf(c, j)'
    <3>1. /\ ~(k <= Len(ovForward)) /\ k - Len(ovForward) = k /\ k \in 1 .. JobCount
          /\ D + Len(ovForward) + k = D + k /\ D + k \in 2 .. N /\ (D + k) - 1 \in D .. N
          /\ Done' + Len(ovForward') + k = (D + k) - 1
      BY <1>1, <1>4, <1>5
    <3>2. Job(k) = ovInput[k]
      BY <3>1 DEF Job
    <3>3. ovInput[k].reqs = ovResults[D + k].reqs
      BY <1>0, <3>1, <3>2 DEF PipelineFollows, JobOf
    <3>4. InputOf(ovInput[k], D + k)
      BY <1>0, <3>1 DEF InputRight
    <3> QED
      BY <2>1, <3>1, <3>3, <3>4
  <2> QED
    BY <1>1, <2>2 DEF InputRight
<1>15. SchedulerRight'
  <2>1. \A l, id, token : l = Len(ovResults') /\ FutureOf(id, N, token) => FutureOf(id, l, token)'
    <3>1. N \in D .. N
      BY <1>5
    <3> QED
      BY <1>6, <1>9, <3>1
  <2>2. ASSUME NEW c, IsBatch(c), FuturesHeld(c)  PROVE FuturesHeld(c)'
    <3> SUFFICES ASSUME NEW i \in DOMAIN c.reqs, c.reqs[i] \notin ovFinished' \cup {ovInflight}
                 PROVE  \A l, token : l = Len(ovResults') /\ token = <<c.reqs[i], NextToken(c.reqs[i])'>>
                           => FutureOf(c.ids[i], l, token)'
      BY <1>1 DEF FuturesHeld
    <3>1. c.reqs[i] \in OvReqs
      BY <2>2, BatchParts
    <3>2. c.reqs[i] \notin ovFinished \cup {ovInflight}
      BY <3>1, ResultTaken
    <3>3. FutureOf(c.ids[i], N, <<c.reqs[i], NextToken(c.reqs[i])>>)
      BY <2>2, <3>2 DEF FuturesHeld
    <3>4. \A r : r = c.reqs[i] => NextToken(r)' = NextToken(r)
      BY <3>1, ResultDue
    <3> QED
      BY <2>1, <3>3, <3>4
  <2>3. IsBatch(ovRunning) /\ IsBatch(ovLast)
    BY <1>0 DEF OverlapTypes, IsRunning
  <2>4. \A c : c = ovRunning => FuturesHeld(c)'
    BY <1>0, <2>2, <2>3 DEF SchedulerRight
  <2>5. ovLast.mode = "extend" => \A c : c = ovLast => FuturesHeld(c)'
    BY <1>0, <2>2, <2>3 DEF SchedulerRight
  <2> QED
    BY <1>1, <2>4, <2>5 DEF SchedulerRight, FuturesHeld
<1>16. (Held <= OvMaxRunning)'
  BY <1>0, <1>1 DEF Held
<1>17. SecondLive'
  <2>1. \A r : ~Awaited(r, 2, "decode")'
    BY <1>0, <1>1, ResultsShift
  <2> QED
    BY <2>1 DEF SecondLive
<1>18. OutputIsOwn'
  <2> SUFFICES ASSUME NEW r \in OvReqs, NEW n \in DOMAIN ovReq'[r].out  PROVE ovReq'[r].out[n] = <<r, n>>
    BY DEF OutputIsOwn
  <2> DEFINE o == ovReq[r].out
             t == <<r, Len(o) + 1>>
  <2>1. o \in Seq(Range(o)) /\ \A m \in DOMAIN o : o[m] = <<r, m>>
    BY <1>0 DEF OverlapTypes, IsState, OutputIsOwn
  <2>2. ovReq'[r].out = IF Taken(r) THEN Append(o, t) ELSE o
    BY ResultTaken
  <2> HIDE DEF o
  <2>3. /\ Append(o, t) \in Seq(Range(Append(o, t))) /\ Len(o) \in Nat /\ Len(Append(o, t)) = Len(o) + 1
        /\ Append(o, t)[Len(o) + 1] = t
        /\ \A i \in 1 .. Len(o) : Append(o, t)[i] = o[i]
    BY <2>1, Appended
  <2>4. CASE ~Taken(r)
    BY <2>1, <2>2, <2>4
  <2>5. CASE Taken(r)
    <3>1. DOMAIN o = 1 .. Len(o) /\ DOMAIN Append(o, t) = 1 .. (Len(o) + 1)
      BY <2>1, <2>3, LenProperties
    <3>2. n \in 1 .. Len(o) \/ n = Len(o) + 1
      BY <2>2, <2>3, <2>5, <3>1
    <3> QED
      BY <2>1, <2>2, <2>3, <2>5, <3>1, <3>2
  <2> QED
    BY <2>4, <2>5
<1> QED
  BY <1>10, <1>11, <1>12, <1>13, <1>14, <1>15, <1>16, <1>17, <1>18 DEF OutputInv

\* At the start there is no token.
LEMMA OutputInit ==
  ASSUME OverlapInit
  PROVE  OutputInv
<1>1. \A S : <<>> \in Seq(S) /\ Len(<<>>) = 0 /\ DOMAIN <<>> = {}
  BY EmptySeq
<1>2. /\ ovResults = <<>> /\ ovInput = <<>> /\ ovForward = <<>> /\ ovCopy = <<>> /\ ovOutput = <<>>
      /\ ovRunning = NoOvBatch /\ ovLast = NoOvBatch
      /\ ovMap = [i \in 1 .. (OvMaxRunning * 5 - 1) |-> OvNone]
      /\ ovReq = [r \in OvReqs |-> [out |-> <<>>, inflight |-> 0, rounds |-> 0, slots |-> 0]]
  BY DEF OverlapInit
<1>3. Done = 0 /\ JobCount = 0
  BY <1>1, <1>2 DEF Done, JobCount
<1>4. PipelineTypes /\ PipelineFollows /\ TokensRight /\ ForwardRight /\ InputRight
  <2>1. PipelineTypes
    BY <1>1, <1>2 DEF PipelineTypes, Places
  <2>2. 1 .. 0 = {}
    OBVIOUS
  <2>3. PipelineFollows /\ TokensRight /\ InputRight
    BY <1>1, <1>2, <1>3, <2>2 DEF PipelineFollows, TokensRight, InputRight
  <2> QED
    BY <1>2, <2>1, <2>3 DEF ForwardRight
<1>5. NoOvBatch.mode = "none" /\ NoOvBatch.reqs = <<>> /\ DOMAIN NoOvBatch.reqs = {} /\ Len(NoOvBatch.reqs) = 0
  BY <1>1 DEF NoOvBatch
<1>6. SchedulerRight
  BY <1>2, <1>5 DEF SchedulerRight, FuturesHeld
<1>7. Held <= OvMaxRunning
  BY <1>2, <1>5, OverlapAssumption DEF Held
<1>8. SecondLive
  BY <1>1, <1>2 DEF SecondLive, Awaited
<1>9. OutputIsOwn
  BY <1>1, <1>2 DEF OutputIsOwn
<1> QED
  BY <1>4, <1>6, <1>7, <1>8, <1>9 DEF OutputInv

\* A stuttering step changes no token.
LEMMA OutputUnchanged ==
  ASSUME SlotsInv, OutputInv, UNCHANGED overlapVars
  PROVE  OutputInv'
<1>0. OverlapTypes /\ SchedulerRight /\ Held <= OvMaxRunning /\ SecondLive
  BY DEF SlotsInv, OutputInv
<1>1. UNCHANGED <<ovRunning, ovLast, ovInflight, ovResults, ovCt, ovInput, ovReq, ovFinished>> /\ UNCHANGED workerVars
  BY DEF overlapVars, workerVars
<1>2. /\ PipelineTypes' /\ PipelineFollows' /\ TokensRight' /\ ForwardRight' /\ InputRight' /\ OutputIsOwn'
      /\ \A r \in OvReqs : NextToken(r)' = NextToken(r)
      /\ \A id, token : FutureOf(id, Len(ovResults), token)' <=> FutureOf(id, Len(ovResults), token)
  BY <1>1, PipelineKept
<1>3. IsBatch(ovRunning) /\ IsBatch(ovLast)
  BY <1>0 DEF OverlapTypes, IsRunning
<1>4. \A b : IsBatch(b) => \A i \in DOMAIN b.reqs : b.reqs[i] \in OvReqs
  BY BatchParts
<1>5. SchedulerRight'
  BY <1>0, <1>1, <1>2, <1>3, <1>4 DEF SchedulerRight, FuturesHeld
<1>6. (Held <= OvMaxRunning)' /\ SecondLive'
  BY <1>0, <1>1 DEF Held, SecondLive, Awaited
<1> QED
  BY <1>2, <1>5, <1>6 DEF OutputInv

\* Every step keeps the tokens where they are looked for, if the ring has room.
LEMMA OutputStep ==
  ASSUME SlotsInv, OutputInv, RingRoom, [OverlapNext]_overlapVars
  PROVE  OutputInv'
<1>1. CASE UNCHANGED overlapVars
  BY <1>1, OutputUnchanged
<1>2. CASE OverlapWorker
  BY <1>2, TakeOutput, LaunchOutput, CopyOutput DEF OverlapWorker
<1>3. CASE \E S \in SUBSET OvReqs : Prefill(S) \/ ProcessResult(S)
  BY <1>3, PrefillOutput, ResultOutput
<1>4. CASE Decode
  BY <1>4, DecodeOutput
<1>5. CASE NothingToRun
  BY <1>5, NothingOutput
<1>6. CASE \E r \in OvReqs : OvReceive(r) \/ OvAbort(r)
  BY <1>6, ReceiveOutput, AbortOutput
<1> QED
  BY <1>1, <1>2, <1>3, <1>4, <1>5, <1>6 DEF OverlapNext, OverlapScheduler

-------------------------------------------------------------------------------
(***************************************************************************)
(* The ring of places.  A place given is used again when the counter has   *)
(* gone round; a future in a batch waits to be looked up while requests    *)
(* join that batch, at most OvMaxRunning of them, and while the chunks of  *)
(* a prompt are prefilled, each of which takes one place for nothing.      *)
(***************************************************************************)
FewChunks ==
  \E c \in OvReqs \cup {OvNone} : \A r \in OvReqs : OvRounds[r] <= IF r = c THEN OvMaxRunning + OvMaxRunning + 1 ELSE 1
LongPrompt ==
  CHOOSE c \in OvReqs \cup {OvNone} : \A r \in OvReqs : OvRounds[r] <= IF r = c THEN OvMaxRunning + OvMaxRunning + 1 ELSE 1

\* The chunks so far that were not the last of their prompt, and those before the batch prefilled last.
Cuts ==
  IF LongPrompt = OvNone THEN 0
  ELSE IF ovReq[LongPrompt].rounds < OvRounds[LongPrompt] THEN ovReq[LongPrompt].rounds ELSE OvRounds[LongPrompt] - 1
CutsBefore == IF ovInflight # OvNone /\ ovLast.mode = "extend" THEN Cuts - 1 ELSE Cuts
Oldest == Held + CutsBefore

\* A place is one of the last age places given, the counter being at ct.
Recent(p, ct, age) ==
  \/ ct - p \in 0 .. (age - 1)
  \/ ct + FutureLimit - p \in 0 .. (age - 1)
  \/ ct + FutureLimit + FutureLimit - p \in 0 .. (age - 1)
RecentFutures(b) ==
  \A i \in DOMAIN b.reqs : b.ids[i] < 0 /\ -b.ids[i] \in Places /\ Recent(-b.ids[i], ovCt, Oldest)
LongOnly == ovInflight # OvNone => ovInflight = LongPrompt /\ ovReq[LongPrompt].rounds \in 1 .. (OvRounds[LongPrompt] - 1)
RingInv ==
  /\ LongOnly /\ Held <= OvMaxRunning
  /\ RecentFutures(ovRunning) /\ (ovLast.mode = "extend" => RecentFutures(ovLast))
  /\ ovLast.mode = "extend" /\ ovInflight # OvNone => OnceIn(ovInflight, ovLast.reqs)

\* The counter moves on and the places given before are older by as much.
LEMMA RingTurns ==
  ASSUME NEW ct \in 0 .. (FutureLimit - 1), NEW n \in 0 .. OvMaxRunning
  PROVE  /\ \A p \in Places, age \in 0 .. FutureLimit, older \in Nat :
              Recent(p, ct, age) /\ age + n <= older => Recent(p, (ct + n) % FutureLimit, older)
         /\ \A i \in 1 .. n, older \in Nat : n <= older => Recent(ct + i, (ct + n) % FutureLimit, older)
<1> DEFINE M == OvMaxRunning
           L == FutureLimit
           new == (ct + n) % FutureLimit
<1>1. M \in Nat \ {0} /\ L = M + M + M /\ L \in Nat /\ Places = 1 .. (M + M + M + M + M - 1)
  BY OverlapAssumption DEF FutureLimit, Places
<1>2. \A x, y \in Nat : x < y => x % y = x
  OBVIOUS
<1>3. \A x, y \in Nat : y <= x /\ x < y + y => x % y = x - y
  OBVIOUS
<1> HIDE DEF M, L
<1>4. CASE ct + n < L
  <2>1. new = ct + n
    BY <1>1, <1>2, <1>4 DEF L, M
  <2> HIDE DEF new
  <2>2. ASSUME NEW p \in Places, NEW age \in 0 .. L, NEW older \in Nat, Recent(p, ct, age), age + n <= older
        PROVE  Recent(p, new, older)
    BY <1>1, <2>1, <2>2 DEF Recent, L, M
  <2>3. ASSUME NEW i \in 1 .. n, NEW older \in Nat, n <= older
        PROVE  Recent(ct + i, new, older)
    BY <1>1, <2>1, <2>3 DEF Recent, L, M
  <2> QED
    BY <2>2, <2>3 DEF new, L
<1>5. CASE ~(ct + n < L)
  <2>1. new = (ct + n) - L
    <3>1. L <= ct + n /\ ct + n < L + L /\ ct + n \in Nat
      BY <1>1, <1>5 DEF L, M
    <3>2. \A x \in Nat : x = ct + n => x % L = x - L
      BY <1>1, <1>3, <3>1
    <3>3. (ct + n) % L = (ct + n) - L
      BY <3>1, <3>2
    <3> QED
      BY <3>3 DEF L
  <2> HIDE DEF new
  <2>2. ASSUME NEW p \in Places, NEW age \in 0 .. L, NEW older \in Nat, Recent(p, ct, age), age + n <= older
        PROVE  Recent(p, new, older)
    BY <1>1, <1>5, <2>1, <2>2 DEF Recent, L, M
  <2>3. ASSUME NEW i \in 1 .. n, NEW older \in Nat, n <= older
        PROVE  Recent(ct + i, new, older)
    BY <1>1, <1>5, <2>1, <2>3 DEF Recent, L, M
  <2> QED
    BY <2>2, <2>3 DEF new, L
<1> QED
  BY <1>4, <1>5

\* The one prompt that may be cut.
LEMMA LongPromptIs ==
  ASSUME FewChunks
  PROVE  /\ LongPrompt \in OvReqs \cup {OvNone}
         /\ \A r \in OvReqs : OvRounds[r] <= IF r = LongPrompt THEN OvMaxRunning + OvMaxRunning + 1 ELSE 1
  BY DEF FewChunks, LongPrompt

\* The age of a future stays below what the ring has room for.
LEMMA Ages ==
  ASSUME FewChunks, OverlapTypes, Held <= OvMaxRunning, LongOnly
  PROVE  /\ Cuts \in 0 .. (OvMaxRunning + OvMaxRunning) /\ CutsBefore \in Nat
         /\ CutsBefore = IF ovInflight # OvNone /\ ovLast.mode = "extend" THEN Cuts - 1 ELSE Cuts
         /\ Held \in Nat /\ OvMaxRunning \in Nat \ {0} /\ Oldest \in 0 .. FutureLimit
<1>0. /\ LongPrompt \in OvReqs \cup {OvNone} /\ OvRounds \in [OvReqs -> Nat \ {0}] /\ OvNone \notin OvReqs
      /\ LongPrompt \in OvReqs =>
           /\ OvRounds[LongPrompt] \in 1 .. (OvMaxRunning + OvMaxRunning + 1)
           /\ ovReq[LongPrompt].rounds \in Nat
      /\ OvMaxRunning \in Nat \ {0} /\ FutureLimit = OvMaxRunning + OvMaxRunning + OvMaxRunning
  <2>1. OvMaxRunning \in Nat \ {0} /\ OvRounds \in [OvReqs -> Nat \ {0}] /\ OvNone \notin OvReqs
    BY OverlapAssumption
  <2>2. FutureLimit = OvMaxRunning + OvMaxRunning + OvMaxRunning
    BY <2>1 DEF FutureLimit
  <2>3. LongPrompt \in OvReqs => ovReq[LongPrompt].rounds \in Nat
    BY DEF OverlapTypes, IsState
  <2>4. LongPrompt \in OvReqs => OvRounds[LongPrompt] \in 1 .. (OvMaxRunning + OvMaxRunning + 1)
    <3>1. LongPrompt \in OvReqs =>
            OvRounds[LongPrompt] <= OvMaxRunning + OvMaxRunning + 1 /\ OvRounds[LongPrompt] \in Nat \ {0}
      BY <2>1, LongPromptIs
    <3> QED
      BY <2>1, <3>1
  <2> QED
    BY <2>1, <2>2, <2>3, <2>4, LongPromptIs
<1>1. Cuts \in 0 .. (OvMaxRunning + OvMaxRunning)
  BY <1>0 DEF Cuts
<1>2. /\ CutsBefore \in 0 .. (OvMaxRunning + OvMaxRunning)
      /\ CutsBefore = IF ovInflight # OvNone /\ ovLast.mode = "extend" THEN Cuts - 1 ELSE Cuts
  <2>1. ovInflight # OvNone => Cuts >= 1
    <3>1. ASSUME ovInflight # OvNone  PROVE Cuts >= 1
      <4>1. LongPrompt \in OvReqs /\ LongPrompt # OvNone
        BY <1>0, <3>1 DEF OverlapTypes, LongOnly
      <4> QED
        BY <1>0, <3>1, <4>1 DEF Cuts, LongOnly
    <3> QED
      BY <3>1
  <2> QED
    BY <1>0, <1>1, <2>1 DEF CutsBefore
<1>3. Held \in Nat
  <2>1. Len(ovRunning.reqs) \in Nat /\ Len(ovLast.reqs) \in Nat
    BY BatchParts DEF OverlapTypes, IsRunning
  <2>2. Held = Len(ovRunning.reqs) + Len(ovLast.reqs) \/ Held = Len(ovRunning.reqs) + 0
    BY DEF Held
  <2>3. \A x, y \in Nat : x + y \in Nat /\ x + 0 \in Nat
    OBVIOUS
  <2> QED
    BY <2>1, <2>2, <2>3
<1>4. Oldest \in 0 .. FutureLimit
  BY <1>0, <1>2, <1>3 DEF Oldest
<1> QED
  BY <1>0, <1>1, <1>2, <1>3, <1>4

\* Filtering takes one request away if one is gone.
LEMMA FilteredOne ==
  ASSUME NEW b, IsBatch(b), NEW gone, NEW c \in FilterBatch(b, gone),
         \A i, j \in DOMAIN b.reqs : b.reqs[i] \in gone /\ b.reqs[j] \in gone => i = j
  PROVE  Len(c.reqs) \in Nat /\ Len(c.reqs) >= Len(b.reqs) - 1
<1> DEFINE n == Len(b.reqs)
           I == {i \in 1 .. n : b.reqs[i] \notin gone}
           k == Cardinality(I)
<1> HIDE DEF n, I, k
<1>1. n \in Nat /\ DOMAIN b.reqs = 1 .. n /\ b = [mode |-> b.mode, reqs |-> b.reqs, ids |-> b.ids]
  BY BatchParts DEF n
<1>2. IsFiniteSet(1 .. n) /\ Cardinality(1 .. n) = n
  <2>1. 1 \in Int /\ n \in Int
    BY <1>1
  <2>2. IsFiniteSet(1 .. n) /\ Cardinality(1 .. n) = IF 1 > n THEN 0 ELSE n - 1 + 1
    BY <2>1, FS_Interval
  <2> QED
    BY <1>1, <2>2
<1>3. k \in Nat /\ k >= n - 1
  <2>1. CASE \E i \in 1 .. n : b.reqs[i] \in gone
    <3>1. PICK i \in 1 .. n : b.reqs[i] \in gone
      BY <2>1
    <3>2. I = (1 .. n) \ {i}
      BY <1>1, <3>1 DEF I
    <3>3. IsFiniteSet((1 .. n) \ {i}) /\ Cardinality((1 .. n) \ {i}) = Cardinality(1 .. n) - 1
      BY <1>2, <3>1, FS_RemoveElement
    <3>4. Cardinality((1 .. n) \ {i}) \in Nat
      BY <3>3, FS_CardinalityType
    <3> QED
      BY <1>1, <1>2, <3>2, <3>3, <3>4 DEF k
  <2>2. CASE ~(\E i \in 1 .. n : b.reqs[i] \in gone)
    <3>1. I = 1 .. n
      BY <2>2 DEF I
    <3> QED
      BY <1>1, <1>2, <3>1 DEF k
  <2> QED
    BY <2>1, <2>2
<1>4. PICK keep \in KeepIndices(b, gone) : c = [b EXCEPT !.reqs = AtIndices(@, keep), !.ids = AtIndices(@, keep)]
  BY DEF FilterBatch
<1>5. keep \in [1 .. k -> I]
  BY <1>1 DEF KeepIndices, SetToSeqs, I, k
<1>6. c.reqs = [i \in 1 .. k |-> b.reqs[keep[i]]]
  BY <1>1, <1>4, <1>5 DEF AtIndices
<1>7. IsBatch(c)
  BY Filtered
<1>8. DOMAIN c.reqs = 1 .. Len(c.reqs) /\ Len(c.reqs) \in Nat
  BY <1>7, BatchParts
<1>9. Len(c.reqs) = k
  <2>1. 1 .. Len(c.reqs) = 1 .. k
    BY <1>6, <1>8
  <2>2. \A x, y \in Nat : 1 .. x = 1 .. y => x = y
    <3>1. ASSUME NEW x \in Nat, NEW y \in Nat, 1 .. x = 1 .. y  PROVE x = y
      <4>1. x <= y
        <5>1. x = 0 \/ x \in 1 .. x
          OBVIOUS
        <5> QED
          BY <3>1, <5>1
      <4>2. y <= x
        <5>1. y = 0 \/ y \in 1 .. y
          OBVIOUS
        <5> QED
          BY <3>1, <5>1
      <4> QED
        BY <4>1, <4>2
    <3> QED
      BY <3>1
  <2> QED
    BY <1>3, <1>8, <2>1, <2>2
<1> QED
  BY <1>3, <1>9 DEF n

\* All of the last batch joins the running one but the request that has chunks to come.
LEMMA MergedButOne ==
  ASSUME SlotsInv, ovPc = "schedule", ovInflight # OvNone, ovLast.mode = "extend", OnceIn(ovInflight, ovLast.reqs),
         NEW m \in Merged
  PROVE  Len(m.reqs) >= Held - 1
<1>1. /\ OverlapTypes /\ ResultsFollow /\ IsBatch(ovRunning) /\ IsBatch(ovLast)
      /\ \A r \in OvReqs : Prefilling(r)
  BY DEF SlotsInv, OverlapTypes, IsRunning, Stages
<1>2. PICK last \in FilterBatch(ovLast, ovFinished \cup {ovInflight}) : m = MergeBatch(ovRunning, last)
  BY DEF Merged
<1>3. ASSUME NEW i \in DOMAIN ovLast.reqs  PROVE ovLast.reqs[i] \notin ovFinished
  <2>1. ovLast # NoOvBatch
    BY DEF NoOvBatch
  <2>2. Len(ovResults) = 1 /\ SameBatch(ovResults[1], ovLast)
    BY <1>1, <2>1 DEF ResultsFollow
  <2>3. 1 \in DOMAIN ovResults
    <3>1. DOMAIN ovResults = 1 .. Len(ovResults)
      BY <1>1, LenProperties DEF OverlapTypes
    <3> QED
      BY <2>2, <3>1
  <2>4. ovLast.reqs[i] \in OvReqs /\ ovLast.reqs[i] \in Range(ovLast.reqs)
    BY <1>1, BatchParts DEF Range
  <2>5. Awaited(ovLast.reqs[i], 1, "extend")
    BY <2>2, <2>3, <2>4 DEF Awaited, SameBatch
  <2>6. Extending(ovLast.reqs[i]) > 0
    BY <2>5 DEF Extending, One
  <2> QED
    BY <1>1, <2>4, <2>6 DEF Prefilling
<1>4. \A i, j \in DOMAIN ovLast.reqs :
         ovLast.reqs[i] \in ovFinished \cup {ovInflight} /\ ovLast.reqs[j] \in ovFinished \cup {ovInflight} => i = j
  BY <1>3 DEF OnceIn
<1>5. Len(last.reqs) \in Nat /\ Len(last.reqs) >= Len(ovLast.reqs) - 1 /\ IsBatch(last)
  BY <1>1, <1>4, Filtered, FilteredOne
<1>6. Len(m.reqs) = Len(ovRunning.reqs) + Len(last.reqs)
  BY <1>1, <1>2, <1>5, MergedBatches DEF JoinedFrom
<1>7. Held = Len(ovRunning.reqs) + Len(ovLast.reqs) /\ Len(ovRunning.reqs) \in Nat /\ Len(ovLast.reqs) \in Nat
  BY <1>1, BatchParts DEF Held
<1>8. \A r, l, k \in Nat : k >= l - 1 => r + k >= (r + l) - 1
  OBVIOUS
<1> QED
  BY <1>5, <1>6, <1>7, <1>8

\* So a prefill has room.
LEMMA RingHasRoom ==
  ASSUME FewChunks, SlotsInv, RingInv
  PROVE  RingRoom
<1>0. OverlapTypes /\ Held <= OvMaxRunning /\ OvMaxRunning \in Nat \ {0}
  BY OverlapAssumption DEF SlotsInv, RingInv
<1> SUFFICES ASSUME ovPc = "schedule", NEW m \in Merged, NEW i \in DOMAIN m.ids,
                    NEW place \in (ovCt + 1) .. (ovCt + OvMaxRunning - Len(m.reqs)), m.ids[i] = -place
             PROVE  FALSE
  BY DEF RingRoom
<1>1. /\ Cuts \in 0 .. (OvMaxRunning + OvMaxRunning) /\ CutsBefore \in Nat
      /\ CutsBefore = IF ovInflight # OvNone /\ ovLast.mode = "extend" THEN Cuts - 1 ELSE Cuts
      /\ Held \in Nat /\ Oldest \in 0 .. FutureLimit
  BY <1>0, Ages DEF RingInv
<1>2. /\ IsBatch(m) /\ Len(m.reqs) \in Nat /\ DOMAIN m.ids = DOMAIN m.reqs /\ Len(m.reqs) <= Held
      /\ ovInflight = OvNone \/ ovLast.mode # "extend" => Len(m.reqs) = Held
  <2>1. /\ IsRunning(m) /\ Len(m.reqs) <= Held
        /\ ovInflight = OvNone \/ ovLast.mode # "extend" => Len(m.reqs) = Held
    BY <1>0, MergedIs
  <2> QED
    BY <2>1, BatchParts DEF IsRunning
<1>3. /\ ovCt \in 0 .. (FutureLimit - 1) /\ FutureLimit = OvMaxRunning + OvMaxRunning + OvMaxRunning
      /\ Places = 1 .. (OvMaxRunning * 5 - 1)
  BY <1>0 DEF OverlapTypes, FutureLimit, Places
<1>4. -m.ids[i] = place
  BY <1>2, <1>3, <1>0
<1>5. Recent(place, ovCt, Oldest)
  <2>1. \/ \E j \in DOMAIN ovRunning.reqs : m.ids[i] = ovRunning.ids[j]
        \/ ovLast.mode = "extend" /\ \E j \in DOMAIN ovLast.reqs : m.ids[i] = ovLast.ids[j]
    BY <1>0, <1>2, MergedIs
  <2> QED
    BY <1>4, <2>1 DEF RingInv, RecentFutures
<1>6. Oldest + (OvMaxRunning - Len(m.reqs)) <= FutureLimit
  <2>1. CASE ovInflight = OvNone \/ ovLast.mode # "extend"
    <3>1. Len(m.reqs) = Held /\ CutsBefore = Cuts
      BY <1>1, <1>2, <2>1
    <3> QED
      BY <1>0, <1>1, <1>3, <3>1 DEF Oldest
  <2>2. CASE ovInflight # OvNone /\ ovLast.mode = "extend"
    <3>1. CutsBefore = Cuts - 1 /\ Len(m.reqs) >= Held - 1
      BY <1>1, <2>2, MergedButOne DEF RingInv
    <3>2. \A held, cuts, before, m1, l \in Nat :
             before = cuts - 1 /\ cuts <= m1 + m1 /\ l >= held - 1 => (held + before) + (m1 - l) <= m1 + m1 + m1
      OBVIOUS
    <3>3. Cuts \in Nat /\ Cuts <= OvMaxRunning + OvMaxRunning
      BY <1>0, <1>1
    <3> QED
      BY <1>0, <1>1, <1>2, <1>3, <3>1, <3>2, <3>3 DEF Oldest
  <2> QED
    BY <2>1, <2>2
<1> HIDE DEF Oldest
<1>7. place - ovCt \in 1 .. (OvMaxRunning - Len(m.reqs)) /\ place \in Int
  BY <1>0, <1>2, <1>3
<1>8. ASSUME NEW p \in Int, NEW c \in Int, NEW a \in Int, NEW k \in Int, NEW l \in Int,
             p - c \in 1 .. k, a + k <= l, 0 <= l
      PROVE  c - p \notin 0 .. (a - 1) /\ c + l - p \notin 0 .. (a - 1) /\ c + l + l - p \notin 0 .. (a - 1)
  BY <1>8
<1>9. /\ ovCt \in Int /\ Oldest \in Int /\ OvMaxRunning - Len(m.reqs) \in Int /\ FutureLimit \in Int /\ 0 <= FutureLimit
  BY <1>0, <1>1, <1>2, <1>3
<1>10. /\ ovCt - place \notin 0 .. (Oldest - 1) /\ ovCt + FutureLimit - place \notin 0 .. (Oldest - 1)
       /\ ovCt + FutureLimit + FutureLimit - place \notin 0 .. (Oldest - 1)
  BY <1>6, <1>7, <1>8, <1>9
<1> QED
  BY <1>5, <1>10 DEF Recent

\* A batch launched has places just given, and those given before are older by as many.
LEMMA RunTurns ==
  ASSUME FewChunks, OverlapTypes, RingInv, NEW b, IsBatch(b), Len(b.reqs) <= OvMaxRunning,
         NEW running, Run(b, running), Oldest' \in Nat, Len(b.reqs) <= Oldest'
  PROVE  /\ RecentFutures(ovLast)'
         /\ \A id : id < 0 /\ -id \in Places /\ Recent(-id, ovCt, Oldest) /\ Oldest + Len(b.reqs) <= Oldest'
              => Recent(-id, ovCt, Oldest)'
<1>1. /\ DOMAIN b.reqs = 1 .. Len(b.reqs) /\ Len(b.reqs) \in Nat
      /\ b = [mode |-> b.mode, reqs |-> b.reqs, ids |-> b.ids]
  BY BatchParts
<1>2. /\ ovLast' = [mode |-> b.mode, reqs |-> b.reqs, ids |-> [k \in DOMAIN b.reqs |-> -(ovCt + k)]]
      /\ ovCt' = (ovCt + Len(b.reqs)) % FutureLimit
  BY <1>1 DEF Run
<1>3. ovCt \in 0 .. (FutureLimit - 1) /\ Len(b.reqs) \in 0 .. OvMaxRunning /\ OvMaxRunning \in Nat \ {0}
      /\ Oldest \in 0 .. FutureLimit
  <2>1. ovCt \in 0 .. (FutureLimit - 1) /\ OvMaxRunning \in Nat \ {0} /\ Oldest \in 0 .. FutureLimit
    BY OverlapAssumption, Ages DEF OverlapTypes, RingInv
  <2> QED
    BY <1>1, <2>1
<1>4. /\ \A p \in Places, age \in 0 .. FutureLimit, older \in Nat :
           Recent(p, ovCt, age) /\ age + Len(b.reqs) <= older => Recent(p, (ovCt + Len(b.reqs)) % FutureLimit, older)
      /\ \A i \in 1 .. Len(b.reqs), older \in Nat : Len(b.reqs) <= older =>
           Recent(ovCt + i, (ovCt + Len(b.reqs)) % FutureLimit, older)
  BY <1>3, RingTurns
<1>5. RecentFutures(ovLast)'
  <2>1. ASSUME NEW i \in DOMAIN b.reqs
        PROVE  LET id == ovLast'.ids[i] IN id < 0 /\ -id \in Places /\ Recent(-id, ovCt', Oldest')
    <3>1. ovLast'.ids[i] = -(ovCt + i)
      BY <1>2
    <3>2. ovCt \in 0 .. (3 * OvMaxRunning - 1) /\ i \in 1 .. OvMaxRunning
      BY <1>1, <1>3 DEF FutureLimit
    <3>3. -(ovCt + i) < 0 /\ -(-(ovCt + i)) = ovCt + i /\ ovCt + i \in Places
      BY <1>3, <3>2 DEF Places
    <3>4. Recent(ovCt + i, ovCt', Oldest')
      BY <1>1, <1>2, <1>4
    <3> QED
      BY <3>1, <3>3, <3>4
  <2>2. ovLast'.reqs = b.reqs
    BY <1>2
  <2> QED
    BY <2>1, <2>2 DEF RecentFutures, Recent, Places, FutureLimit
<1>6. ASSUME NEW id, id < 0, -id \in Places, Recent(-id, ovCt, Oldest), Oldest + Len(b.reqs) <= Oldest'
      PROVE  Recent(-id, ovCt, Oldest)'
  <2>1. Recent(-id, ovCt', Oldest')
    BY <1>2, <1>3, <1>4, <1>6
  <2> QED
    BY <2>1 DEF Recent, FutureLimit
<1> QED
  BY <1>5, <1>6

\* A step that leaves the batches, the places given and the rounds prefilled alone.
LEMMA RingKept ==
  ASSUME FewChunks, OverlapTypes, RingInv, UNCHANGED <<ovRunning, ovLast, ovCt, ovInflight>>,
         \A r \in OvReqs : ovReq'[r].rounds = ovReq[r].rounds
  PROVE  RingInv'
<1>1. LongPrompt \in OvReqs \cup {OvNone} /\ OvNone \notin OvReqs
  BY LongPromptIs, OverlapAssumption
<1>2. Cuts' = Cuts
  BY <1>1 DEF Cuts
<1>3. Held' = Held /\ CutsBefore' = CutsBefore
  BY <1>2 DEF Held, CutsBefore
<1>4. Oldest' = Oldest
  BY <1>3 DEF Oldest
<1>5. RecentFutures(ovRunning)' <=> RecentFutures(ovRunning)
  BY <1>4 DEF RecentFutures, Recent, Places, FutureLimit
<1>6. RecentFutures(ovLast)' <=> RecentFutures(ovLast)
  BY <1>4 DEF RecentFutures, Recent, Places, FutureLimit
<1>7. (Held <= OvMaxRunning)'
  BY <1>3 DEF RingInv
<1>8. LongOnly'
  BY <1>1 DEF RingInv, OverlapTypes, LongOnly
<1> QED
  BY <1>5, <1>6, <1>7, <1>8 DEF RingInv, OnceIn

\* A prefill counts one chunk more that is not the last if it cuts a prompt; that is the long one.
LEMMA PrefillCuts ==
  ASSUME FewChunks, OverlapTypes, RingInv, NEW S, NEW reqs, NEW next, NEW running, Prefills(S, reqs, next, running)
  PROVE  /\ next # OvNone => next = LongPrompt /\ ovReq'[next].rounds \in 1 .. (OvRounds[next] - 1)
         /\ Cuts' = IF next = OvNone THEN Cuts ELSE Cuts + 1
<1> DEFINE c == LongPrompt
<1>1. /\ c \in OvReqs \cup {OvNone} /\ OvNone \notin OvReqs /\ OvRounds \in [OvReqs -> Nat \ {0}]
      /\ \A r \in OvReqs : OvRounds[r] <= IF r = c THEN OvMaxRunning + OvMaxRunning + 1 ELSE 1
  BY LongPromptIs, OverlapAssumption
<1>2. /\ next # OvNone => next \in OvReqs /\ next \in Range(reqs) /\ ovReq[next].rounds + 1 < OvRounds[next]
      /\ \A r \in Range(reqs) : r # next => ~(ovReq[r].rounds + 1 < OvRounds[r])
  BY DEF Prefills
<1> HIDE DEF c
<1>3. ASSUME NEW r \in OvReqs
      PROVE  /\ ovReq[r].rounds \in Nat /\ OvRounds[r] \in Nat \ {0}
             /\ ovReq'[r].rounds = IF r \in Range(reqs) THEN ovReq[r].rounds + 1 ELSE ovReq[r].rounds
  <2>1. IsState(ovReq[r])
    BY DEF OverlapTypes
  <2>2. ovReq'[r] = IF r \in Range(reqs)
                    THEN [ovReq[r] EXCEPT !.rounds = @ + 1, !.slots = @ + 1, !.inflight = IF r = next THEN @ + 1 ELSE @]
                    ELSE ovReq[r]
    BY DEF Prefills
  <2> QED
    BY <1>1, <2>1, <2>2 DEF IsState
<1>4. ASSUME next # OvNone
      PROVE  /\ next = c /\ c \in OvReqs /\ ovReq'[c].rounds = ovReq[c].rounds + 1
             /\ ovReq[c].rounds + 1 < OvRounds[c] /\ ovReq[c].rounds \in Nat /\ OvRounds[c] \in Nat
  <2>1. next \in OvReqs /\ next \in Range(reqs) /\ ovReq[next].rounds + 1 < OvRounds[next]
    BY <1>2, <1>4
  <2>2. ovReq[next].rounds \in Nat /\ OvRounds[next] \in Nat /\ ovReq'[next].rounds = ovReq[next].rounds + 1
    BY <1>3, <2>1
  <2>3. next = c
    <3>1. ASSUME next # c  PROVE FALSE
      <4>1. OvRounds[next] <= 1
        BY <1>1, <2>1, <3>1
      <4> QED
        BY <2>1, <2>2, <4>1
    <3> QED
      BY <3>1
  <2> QED
    BY <2>1, <2>2, <2>3
<1>5. CASE next # OvNone
  <2>1. /\ next = c /\ c \in OvReqs /\ c # OvNone /\ ovReq'[c].rounds = ovReq[c].rounds + 1
        /\ ovReq[c].rounds + 1 < OvRounds[c] /\ ovReq[c].rounds \in Nat /\ OvRounds[c] \in Nat
    BY <1>1, <1>4, <1>5
  <2>2. Cuts = ovReq[c].rounds /\ Cuts' = ovReq[c].rounds + 1
    BY <2>1 DEF Cuts, c
  <2> QED
    BY <1>5, <2>1, <2>2 DEF c
<1>6. CASE next = OvNone
  <2>1. CASE c = OvNone
    BY <1>6, <2>1 DEF Cuts, c
  <2>2. CASE c # OvNone /\ c \notin Range(reqs)
    BY <1>1, <1>3, <1>6, <2>2 DEF Cuts, c
  <2>3. CASE c # OvNone /\ c \in Range(reqs)
    <3>1. /\ c \in OvReqs /\ ovReq'[c].rounds = ovReq[c].rounds + 1 /\ ~(ovReq[c].rounds + 1 < OvRounds[c])
          /\ ovReq[c].rounds \in Nat /\ OvRounds[c] \in Nat
      BY <1>1, <1>2, <1>3, <1>6, <2>3
    <3>2. Cuts = OvRounds[c] - 1 /\ Cuts' = OvRounds[c] - 1
      BY <2>3, <3>1 DEF Cuts, c
    <3> QED
      BY <1>6, <3>2
  <2> QED
    BY <1>6, <2>1, <2>2, <2>3
<1> QED
  BY <1>5, <1>6 DEF c

\* The batch prefilled last joins the running one or waits for the chunk after the one just cut.
LEMMA PrefillRing ==
  ASSUME FewChunks, SlotsInv, RingInv, NEW S, Prefill(S)
  PROVE  RingInv'
<1>0. OverlapTypes /\ Held <= OvMaxRunning
  BY DEF SlotsInv, RingInv
<1>1. PICK reqs, next, running : Prefills(S, reqs, next, running)
  BY <1>0, PrefillBatch
<1> DEFINE b == [mode |-> "extend", reqs |-> reqs, ids |-> [i \in DOMAIN reqs |-> 0]]
<1>2. /\ running \in Merged /\ reqs \in Seq(OvReqs) /\ Len(running.reqs) + Len(reqs) <= OvMaxRunning
      /\ Run(b, running) /\ ovInflight' = next /\ ovPc = "schedule" /\ (next # OvNone => OnceIn(next, reqs))
  BY <1>1 DEF Prefills
<1>3. IsRunning(running) /\ IsBatch(running) /\ Len(running.reqs) \in Nat /\ DOMAIN running.ids = DOMAIN running.reqs
  <2>1. IsRunning(running) /\ IsBatch(running)
    BY <1>0, <1>2, MergedIs DEF IsRunning
  <2> QED
    BY <2>1, BatchParts
<1>4. /\ IsBatch(b) /\ b.mode = "extend" /\ b.reqs = reqs
      /\ Len(reqs) \in Nat /\ DOMAIN reqs = 1 .. Len(reqs)
  <2>1. DOMAIN reqs = 1 .. Len(reqs) /\ Len(reqs) \in Nat
    BY <1>2, LenProperties
  <2>2. \A m \in Nat : \A s \in [1 .. m -> Int] : s \in Seq(Int) /\ Len(s) = m
    OBVIOUS
  <2>3. b.ids \in [1 .. Len(reqs) -> Int]
    BY <2>1
  <2>4. b.ids \in Seq(Int) /\ Len(b.ids) = Len(reqs)
    BY <2>1, <2>2, <2>3
  <2> QED
    BY <1>2, <2>1, <2>4 DEF IsBatch, OvBatches
<1>5. ovRunning' = running /\ ovLast'.mode = "extend" /\ ovLast'.reqs = reqs
  BY <1>2 DEF Run
<1> HIDE DEF b
<1>6. /\ next # OvNone => next = LongPrompt /\ ovReq'[next].rounds \in 1 .. (OvRounds[next] - 1)
      /\ Cuts' = IF next = OvNone THEN Cuts ELSE Cuts + 1
  BY <1>0, <1>1, PrefillCuts
<1>7. /\ Cuts \in 0 .. (OvMaxRunning + OvMaxRunning) /\ CutsBefore \in Nat
      /\ CutsBefore = IF ovInflight # OvNone /\ ovLast.mode = "extend" THEN Cuts - 1 ELSE Cuts
      /\ Held \in Nat /\ OvMaxRunning \in Nat /\ Oldest \in 0 .. FutureLimit
  BY <1>0, Ages DEF RingInv
<1>8. CutsBefore' = Cuts
  <2>1. CutsBefore' = IF next # OvNone THEN Cuts' - 1 ELSE Cuts'
    BY <1>2, <1>5 DEF CutsBefore
  <2> QED
    BY <1>6, <1>7, <2>1
<1>9. Held' = Len(running.reqs) + Len(reqs)
  BY <1>5 DEF Held
<1>10. Oldest' = (Len(running.reqs) + Len(reqs)) + Cuts
  BY <1>8, <1>9 DEF Oldest
<1>11. /\ Oldest' \in Nat /\ Len(reqs) <= Oldest' /\ Oldest + Len(reqs) <= Oldest'
  <2>1. Oldest' \in Nat /\ Len(reqs) <= Oldest'
    BY <1>3, <1>4, <1>7, <1>10
  <2>2. CASE ovInflight = OvNone \/ ovLast.mode # "extend"
    <3>1. Len(running.reqs) = Held /\ CutsBefore = Cuts
      BY <1>0, <1>2, <1>7, <2>2, MergedIs
    <3>2. Oldest = Held + Cuts
      BY <3>1 DEF Oldest
    <3> QED
      BY <1>3, <1>4, <1>7, <1>10, <2>1, <3>1, <3>2
  <2>3. CASE ovInflight # OvNone /\ ovLast.mode = "extend"
    <3>1. Len(running.reqs) >= Held - 1 /\ CutsBefore = Cuts - 1
      BY <1>2, <1>7, <2>3, MergedButOne DEF RingInv
    <3>2. Oldest = Held + (Cuts - 1)
      BY <3>1 DEF Oldest
    <3> QED
      BY <1>3, <1>4, <1>7, <1>10, <2>1, <3>1, <3>2
  <2> QED
    BY <2>2, <2>3
<1>12. /\ RecentFutures(ovLast)'
       /\ \A id : id < 0 /\ -id \in Places /\ Recent(-id, ovCt, Oldest) /\ Oldest + Len(b.reqs) <= Oldest'
              => Recent(-id, ovCt, Oldest)'
  <2>1. Len(b.reqs) <= OvMaxRunning /\ Len(b.reqs) <= Oldest'
    BY <1>2, <1>3, <1>4, <1>7, <1>11
  <2> QED
    BY <1>0, <1>2, <1>4, <1>11, <2>1, RunTurns
<1>13. RecentFutures(ovRunning)'
  <2>1. ASSUME NEW i \in DOMAIN running.reqs
        PROVE  \A id : id = running.ids[i] => id < 0 /\ -id \in Places /\ Recent(-id, ovCt, Oldest)'
    <3>1. \/ \E j \in DOMAIN ovRunning.reqs : running.ids[i] = ovRunning.ids[j]
          \/ ovLast.mode = "extend" /\ \E j \in DOMAIN ovLast.reqs : running.ids[i] = ovLast.ids[j]
      BY <1>0, <1>2, MergedIs
    <3>2. running.ids[i] < 0 /\ -running.ids[i] \in Places /\ Recent(-running.ids[i], ovCt, Oldest)
      BY <3>1 DEF RingInv, RecentFutures
    <3> QED
      BY <1>4, <1>11, <1>12, <3>2
  <2> QED
    BY <1>5, <2>1 DEF RecentFutures, Recent, Places, FutureLimit
<1>14. (Held <= OvMaxRunning)'
  BY <1>2, <1>9
<1>15. LongOnly'
  BY <1>2, <1>6 DEF LongOnly
<1>16. ovInflight' # OvNone => OnceIn(ovInflight', ovLast'.reqs)
  BY <1>2, <1>5
<1> QED
  BY <1>12, <1>13, <1>14, <1>15, <1>16 DEF RingInv, OnceIn

\* A decode step gives every request that runs a new place.
LEMMA DecodeRing ==
  ASSUME FewChunks, SlotsInv, RingInv, Decode
  PROVE  RingInv'
<1>0. OverlapTypes /\ Held <= OvMaxRunning
  BY DEF SlotsInv, RingInv
<1>1. PICK b, running : Decodes(b, running)
  BY <1>0, DecodeBatch
<1>2. /\ running \in Merged /\ IsBatch(b) /\ b.mode = "decode" /\ Len(b.reqs) <= Len(running.reqs)
      /\ Run(b, b) /\ ovInflight' = ovInflight
      /\ ovReq' = [r \in OvReqs |-> IF r \in Range(b.reqs) THEN [ovReq[r] EXCEPT !.slots = @ + 1] ELSE ovReq[r]]
  BY <1>1 DEF Decodes
<1>3. /\ Len(b.reqs) \in Nat /\ Len(b.reqs) <= OvMaxRunning
      /\ b = [mode |-> b.mode, reqs |-> b.reqs, ids |-> b.ids]
  <2>1. IsBatch(running) /\ Len(running.reqs) <= Held
    BY <1>0, <1>2, MergedIs DEF IsRunning
  <2>2. Held \in Nat /\ OvMaxRunning \in Nat
    BY <1>0, Ages DEF RingInv
  <2>3. Len(b.reqs) \in Nat /\ Len(running.reqs) \in Nat /\ b = [mode |-> b.mode, reqs |-> b.reqs, ids |-> b.ids]
    BY <1>2, <2>1, BatchParts
  <2> QED
    BY <1>0, <1>2, <2>1, <2>2, <2>3
<1>4. ovRunning' = ovLast' /\ ovLast'.mode = "decode" /\ ovLast'.reqs = b.reqs
  BY <1>2, <1>3 DEF Run
<1>5. \A r \in OvReqs : ovReq'[r].rounds = ovReq[r].rounds
  <2>1. ASSUME NEW r \in OvReqs  PROVE ovReq'[r].rounds = ovReq[r].rounds
    <3>1. IsState(ovReq[r])
      BY <1>0 DEF OverlapTypes
    <3>2. ovReq'[r] = IF r \in Range(b.reqs) THEN [ovReq[r] EXCEPT !.slots = @ + 1] ELSE ovReq[r]
      BY <1>2
    <3> QED
      BY <3>1, <3>2 DEF IsState
  <2> QED
    BY <2>1
<1>6. LongPrompt \in OvReqs \cup {OvNone} /\ OvNone \notin OvReqs
  BY LongPromptIs, OverlapAssumption
<1>7. Cuts' = Cuts /\ Cuts \in Nat
  <2>1. Cuts' = Cuts
    BY <1>5, <1>6 DEF Cuts
  <2>2. Cuts \in 0 .. (OvMaxRunning + OvMaxRunning)
    BY <1>0, Ages DEF RingInv
  <2> QED
    BY <2>1, <2>2
<1>8. Held' = Len(b.reqs) /\ CutsBefore' = Cuts
  <2>1. Held' = Len(b.reqs) + 0 /\ CutsBefore' = Cuts'
    BY <1>4 DEF Held, CutsBefore
  <2> QED
    BY <1>3, <1>7, <2>1
<1>9. Oldest' \in Nat /\ Len(b.reqs) <= Oldest'
  <2>1. Oldest' = Len(b.reqs) + Cuts
    BY <1>8 DEF Oldest
  <2> QED
    BY <1>3, <1>7, <2>1
<1>10. RecentFutures(ovLast)'
  BY <1>0, <1>2, <1>3, <1>9, RunTurns
<1>11. RecentFutures(ovRunning)'
  BY <1>4, <1>10 DEF RecentFutures, Recent, Places, FutureLimit
<1>12. (Held <= OvMaxRunning)'
  BY <1>3, <1>8
<1>13. LongOnly'
  BY <1>0, <1>2, <1>5, <1>6 DEF RingInv, LongOnly, OverlapTypes
<1> QED
  BY <1>4, <1>10, <1>11, <1>12, <1>13 DEF RingInv

\* Empty batches hold no future.
LEMMA NothingRing ==
  ASSUME FewChunks, SlotsInv, RingInv, NothingToRun
  PROVE  RingInv'
<1>1. /\ ovRunning' = NoOvBatch /\ ovLast' = NoOvBatch /\ ovInflight' = ovInflight /\ ovReq' = ovReq
  BY DEF NothingToRun
<1>2. NoOvBatch.mode = "none" /\ NoOvBatch.reqs = <<>> /\ DOMAIN NoOvBatch.reqs = {} /\ Len(NoOvBatch.reqs) = 0
  BY EmptySeq DEF NoOvBatch
<1>3. (Held <= OvMaxRunning)'
  BY <1>1, <1>2, OverlapAssumption DEF Held
<1>4. RecentFutures(ovRunning)'
  BY <1>1, <1>2 DEF RecentFutures
<1>5. ovLast'.mode # "extend"
  BY <1>1, <1>2
<1> QED
  BY <1>1, <1>3, <1>4, <1>5 DEF RingInv, LongOnly

\* The prefill rounds of a request are counted when it is prefilled, and at no other time.
LEMMA RoundsKept ==
  ASSUME OverlapTypes, NEW r \in OvReqs,
         \/ \E S \in SUBSET OvReqs : ProcessResult(S)
         \/ \E q \in OvReqs : OvAbort(q)
  PROVE  ovReq'[r].rounds = ovReq[r].rounds
<1>1. IsState(ovReq[r]) /\ ovReq = [x \in OvReqs |-> ovReq[x]]
  BY DEF OverlapTypes
<1>2. ASSUME NEW S, ProcessResult(S)  PROVE ovReq'[r].rounds = ovReq[r].rounds
  <2>1. \/ ovReq'[r] = ovReq[r]
        \/ \E mode, token, stop : ovReq'[r] = ResultOf(mode, r, token, stop)
    BY <1>2 DEF ProcessResult
  <2>2. ASSUME NEW mode, NEW token, NEW stop  PROVE ResultOf(mode, r, token, stop).rounds = ovReq[r].rounds
    <3>1. Read(ovReq[r], mode, r, token, stop).rounds = ovReq[r].rounds
      BY DEF Read
    <3> QED
      BY <3>1, ReadState
  <2> QED
    BY <2>1, <2>2
<1>3. ASSUME NEW q \in OvReqs, OvAbort(q)  PROVE ovReq'[r].rounds = ovReq[r].rounds
  <2>1. ovReq' = ovReq \/ ovReq' = [ovReq EXCEPT ![q].slots = GiveBack(q, ovReq[q].out)]
    BY <1>3 DEF OvAbort
  <2>2. CASE ovReq' = ovReq
    BY <2>2
  <2>3. CASE ovReq' = [ovReq EXCEPT ![q].slots = GiveBack(q, ovReq[q].out)]
    <3>1. ovReq'[r] = ovReq[r] \/ ovReq'[r] = [ovReq[r] EXCEPT !.slots = GiveBack(q, ovReq[q].out)]
      BY <1>1, <2>3
    <3> QED
      BY <1>1, <3>1 DEF IsState
  <2> QED
    BY <2>1, <2>2, <2>3
<1> QED
  BY <1>2, <1>3

\* No step lets a future grow older than the ring has room for.
LEMMA RingStep ==
  ASSUME FewChunks, SlotsInv, RingInv, [OverlapNext]_overlapVars
  PROVE  RingInv'
<1>0. OverlapTypes
  BY DEF SlotsInv
<1>1. CASE UNCHANGED overlapVars \/ OverlapWorker \/ \E r \in OvReqs : OvReceive(r)
  <2>1. UNCHANGED <<ovRunning, ovLast, ovCt, ovInflight, ovReq>>
    BY <1>1 DEF overlapVars, OverlapWorker, TakeBatch, Launched, CopyResult, OvReceive
  <2> QED
    BY <1>0, <2>1, RingKept
<1>2. CASE (\E S \in SUBSET OvReqs : ProcessResult(S)) \/ (\E r \in OvReqs : OvAbort(r))
  <2>1. UNCHANGED <<ovRunning, ovLast, ovCt, ovInflight>>
    BY <1>2 DEF ProcessResult, OvAbort
  <2>2. \A r \in OvReqs : ovReq'[r].rounds = ovReq[r].rounds
    BY <1>0, <1>2, RoundsKept
  <2> QED
    BY <1>0, <2>1, <2>2, RingKept
<1>3. CASE \E S \in SUBSET OvReqs : Prefill(S)
  BY <1>3, PrefillRing
<1>4. CASE Decode \/ NothingToRun
  BY <1>4, DecodeRing, NothingRing
<1> QED
  BY <1>1, <1>2, <1>3, <1>4 DEF OverlapNext, OverlapScheduler

\* At the start no place has been given.
LEMMA RingInit ==
  ASSUME OverlapInit
  PROVE  RingInv
<1>1. ovRunning = NoOvBatch /\ ovLast = NoOvBatch /\ ovInflight = OvNone
  BY DEF OverlapInit
<1>2. NoOvBatch.mode = "none" /\ NoOvBatch.reqs = <<>> /\ DOMAIN NoOvBatch.reqs = {} /\ Len(NoOvBatch.reqs) = 0
  BY EmptySeq DEF NoOvBatch
<1> QED
  BY <1>1, <1>2, OverlapAssumption DEF RingInv, LongOnly, RecentFutures, Held

\* Wherever the ring of places has room for the next batch, every token a request is given is its
\* own next one (process_batch_result_prefill and _decode), though the batch was launched with futures.
THEOREM OutputIsOwnWithRoom == OverlapSpec /\ []RingRoom => []OutputIsOwn
<1>1. OverlapInit => SlotsInv /\ OutputInv
  BY SlotsInit, OutputInit
<1>2. SlotsInv /\ OutputInv /\ RingRoom /\ [OverlapNext]_overlapVars => (SlotsInv /\ OutputInv)'
  BY SlotsStep, SlotsUnchanged, OutputStep
<1>3. OutputInv => OutputIsOwn
  BY DEF OutputInv
<1> QED
  BY <1>1, <1>2, <1>3, PTL DEF OverlapSpec

\* And it has, if one prompt at most is cut into chunks, one more at the most than two for every
\* request that may run: then no place given to a batch (future_token_ids_ct) is one whose token is
\* still to be looked up.  TLC refutes it for one chunk more.
THEOREM TokensAreOwn == FewChunks /\ OverlapSpec => []OutputIsOwn
<1>1. FewChunks /\ OverlapInit => SlotsInv /\ OutputInv /\ RingInv
  BY SlotsInit, OutputInit, RingInit
<1>2. FewChunks /\ SlotsInv /\ OutputInv /\ RingInv /\ [OverlapNext]_overlapVars => (SlotsInv /\ OutputInv /\ RingInv)'
  BY SlotsStep, SlotsUnchanged, RingHasRoom, OutputStep, RingStep
<1>3. FewChunks => FewChunks'
  BY DEF FewChunks
<1>4. OutputInv => OutputIsOwn
  BY DEF OutputInv
<1> QED
  BY <1>1, <1>2, <1>3, <1>4, PTL DEF OverlapSpec
===============================================================================
