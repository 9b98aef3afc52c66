---------------------------- MODULE Backend_proofs -----------------------------
(***************************************************************************)
(* Proofs about the components behind the engines, which share no state:   *)
(* the loading of weights, the placement loop of the controller, and the   *)
(* rows of the sampling penalties.                                         *)
(***************************************************************************)
EXTENDS WeightLoading, PlacementController, SamplingInfo, SequenceTheorems, FiniteSetTheorems, TLAPS

-------------------------------------------------------------------------------
(***************************************************************************)
(* Proofs about WeightLoading, for any number of engines, models, rows and *)
(* threads, and however often the service fails.  The protocol between an  *)
(* engine and the service has no message ids: that an answer is read by    *)
(* the load it belongs to rests on an engine having, at any time, either   *)
(* one request in the input queue, or the service's attention, or an       *)
(* answer to read.                                                         *)
(***************************************************************************)
Words == {"success", "time", "id", "none", "error"}
Loads == WlModels \X WlEngines
Tensors == [1..WlRows -> WlModels \cup {WlNone}]

\* An answer, and what is left of it at each place where it is read.
Nothing == <<>>
Accepted == <<"success">>
Complete == <<"success", "time", "id">>
Incomplete == <<"success", "none", "error">>
Finished == <<"time", "id">>
Failure == <<"none", "error">>
LastId == <<"id">>
LastError == <<"error">>

Jobs == [engine: WlEngines, model: WlModels, pieces: SUBSET Pieces]

\* Functions of the engines; the rest of their types is needed for the service only.
LoadingTypes ==
  /\ wlWay \in {"service", "async", "sync"}
  /\ wlPc \in [WlEngines -> {"off", "active", "dict", "build", "answer", "time", "id", "failed"}]
  /\ wlAsked \in [WlEngines -> WlModels \cup {WlNone}]
  /\ wlModel = [e \in WlEngines |-> wlModel[e]]
  /\ wlThread = [e \in WlEngines |-> wlThread[e]]
  /\ wlInput \in Seq(Loads)
  /\ wlJob \in Jobs \cup {WlNone}
  /\ wlOutput \in [WlEngines -> Seq(Words)]
  /\ wlTime \in [WlEngines -> Words]

\* Without the service nothing is asked of it.
NoService ==
  /\ wlInput = <<>> /\ wlJob = WlNone
  /\ \A e \in WlEngines : wlOutput[e] = Nothing /\ wlPc[e] \in {"off", "active", "dict", "build"}
NoThreads ==
  \A e \in WlEngines : wlThread[e] = <<>> /\ wlPc[e] \notin {"dict", "build"}

\* Where the load of engine e is: nowhere, in the input queue, or with the service.
NotAsked(e) == \A i \in DOMAIN wlInput : wlInput[i][2] # e
AskedOnce(e) ==
  \E i \in DOMAIN wlInput : /\ wlInput[i] = <<wlAsked[e], e>>
                            /\ \A j \in DOMAIN wlInput : wlInput[j][2] = e => j = i
Served(e) == wlJob # WlNone /\ wlJob.engine = e
Loaded(e) == wlModel[e] = Rows(wlAsked[e])

AtRest(e) == NotAsked(e) /\ ~Served(e) /\ wlOutput[e] = Nothing
Queued(e) == AskedOnce(e) /\ ~Served(e) /\ wlOutput[e] = Nothing
BeingServed(e) == NotAsked(e) /\ Served(e)
Answered(e) == NotAsked(e) /\ ~Served(e)

\* What is left of an answer at each place where load_gpu_model reads it.
InStep(e) ==
  /\ wlPc[e] \in {"off", "active"} => AtRest(e)
  /\ wlPc[e] = "active" => Loaded(e)
  /\ wlPc[e] \in {"answer", "time", "id"} => wlAsked[e] \in WlModels /\ wlModel[e] \in Tensors
  /\ wlPc[e] = "answer" =>
       \/ Queued(e)
       \/ BeingServed(e) /\ wlOutput[e] = Accepted
       \/ Answered(e) /\ wlOutput[e] = Complete /\ Loaded(e)
       \/ Answered(e) /\ wlOutput[e] = Incomplete
       \/ Answered(e) /\ wlOutput[e] = Failure
  /\ wlPc[e] = "time" =>
       \/ BeingServed(e) /\ wlOutput[e] = Nothing
       \/ Answered(e) /\ wlOutput[e] = Finished /\ Loaded(e)
       \/ Answered(e) /\ wlOutput[e] = Failure
  /\ wlPc[e] = "id" =>
       \/ Answered(e) /\ wlOutput[e] = LastId /\ wlTime[e] = "time" /\ Loaded(e)
       \/ Answered(e) /\ wlOutput[e] = LastError /\ wlTime[e] = "none"
  /\ wlPc[e] # "failed" /\ Served(e) => wlJob.model = wlAsked[e]

\* The rows that the service has no piece left for are those of the model.
Covered(i) == \E p \in wlJob.pieces : p[1] < i /\ i <= p[2]
CopiedSoFar ==
  wlJob # WlNone /\ wlPc[wlJob.engine] # "failed" =>
    \A i \in 1..WlRows : Covered(i) \/ wlModel[wlJob.engine][i] = wlJob.model

LoadingInv ==
  /\ LoadingTypes
  /\ wlWay # "service" => NoService
  /\ wlWay # "async" => NoThreads
  /\ wlWay = "sync" => \A e \in WlEngines : wlPc[e] = "active" => Loaded(e)
  /\ wlWay = "service" => CopiedSoFar /\ \A e \in WlEngines : InStep(e)
-------------------------------------------------------------------------------
(* The pieces of a tensor *)

\* Every row is in a piece (multi_thread_copy_model_to_gpu asserts that the
\* threads divide the rows).
LEMMA PiecesCover ==
  ASSUME NEW i \in 1..WlRows
  PROVE  \E p \in Pieces : p[1] < i /\ i <= p[2]
<1> DEFINE k == WlRows \div WlThreads
           t == (i - 1) \div k
<1>1. /\ WlRows \in Nat \ {0} /\ WlThreads \in Nat \ {0} /\ WlRows % WlThreads = 0
  BY LoadingAssumption
<1>2. k \in Nat \ {0} /\ WlRows = WlThreads * k
  BY <1>1, SMTT(30)
<1>3. t \in Nat /\ t * k <= i - 1 /\ i - 1 < (t + 1) * k
  BY <1>1, <1>2, SMTT(30)
<1>4. t < WlThreads
  BY <1>1, <1>2, <1>3, SMTT(30)
<1>5. ASSUME NEW n \in Nat PROVE (n * WlRows) \div WlThreads = n * k
  <2>1. n * WlRows = (n * k) * WlThreads /\ n * k \in Nat
    BY <1>1, <1>2, SMTT(30)
  <2>2. \A a \in Nat : (a * WlThreads) \div WlThreads = a
    BY <1>1, SMTT(30)
  <2> QED
    BY <2>1, <2>2
<1> DEFINE p == <<(t * WlRows) \div WlThreads, ((t + 1) * WlRows) \div WlThreads>>
<1>6. p[1] = t * k /\ p[2] = (t + 1) * k
  BY <1>3, <1>5
<1> HIDE DEF k, t
<1>7. p \in Pieces
  BY <1>1, <1>3, <1>4 DEF Pieces
<1>8. t * k \in Nat /\ (t + 1) * k \in Nat
  BY <1>2, <1>3
<1>9. p[1] < i /\ i <= p[2]
  BY <1>3, <1>6, <1>8
<1> QED
  BY <1>7, <1>9

\* A job's fields have their types.
LEMMA PiecesAreJob == Jobs \subseteq [engine: WlEngines, model: WlModels, pieces: SUBSET (Nat \X Nat)]
<1>1. \A t \in 0..(WlThreads - 1) : /\ (t * WlRows) \div WlThreads \in Nat
                                    /\ ((t + 1) * WlRows) \div WlThreads \in Nat
  BY LoadingAssumption, SMTT(30)
<1>2. Pieces \subseteq Nat \X Nat
  BY <1>1 DEF Pieces
<1> QED
  BY <1>2 DEF Jobs
-------------------------------------------------------------------------------
(* The input queue and the answers *)

\* The words of an answer, read one after the other.
LEMMA Answers ==
  /\ Append(Nothing, "success") = Accepted
  /\ Nothing \o <<"none", "error">> = Failure /\ Nothing \o <<"time", "id">> = Finished
  /\ Accepted \o <<"none", "error">> = Incomplete /\ Accepted \o <<"time", "id">> = Complete
  /\ Head(Complete) = "success" /\ Tail(Complete) = Finished
  /\ Head(Incomplete) = "success" /\ Tail(Incomplete) = Failure
  /\ Head(Accepted) = "success" /\ Tail(Accepted) = Nothing
  /\ Head(Failure) = "none" /\ Tail(Failure) = LastError /\ Tail(LastError) = Nothing
  /\ Head(Finished) = "time" /\ Tail(Finished) = LastId /\ Tail(LastId) = Nothing
<1>1. \A x, y : <<x, y>> \in Seq({x, y}) /\ <<>> \o <<x, y>> = <<x, y>>
  BY ConcatEmptySeq
<1>2. ASSUME NEW x, NEW y, NEW z PROVE <<x>> \o <<y, z>> = <<x, y, z>>
  <2> DEFINE s == <<x>> \o <<y, z>>
  <2>1. <<x>> \in Seq({x, y, z}) /\ <<y, z>> \in Seq({x, y, z}) /\ Len(<<x>>) = 1 /\ Len(<<y, z>>) = 2
    OBVIOUS
  <2>2. s \in Seq({x, y, z}) /\ Len(s) = 3 /\ s[1] = x /\ s[2] = y /\ s[3] = z
    BY <2>1, ConcatProperties
  <2>3. <<x, y, z>> \in Seq({x, y, z}) /\ Len(<<x, y, z>>) = 3
    OBVIOUS
  <2> HIDE DEF s
  <2>4. \A i \in 1 .. 3 : s[i] = <<x, y, z>>[i]
    BY <2>2
  <2>5. s = <<x, y, z>>
    BY <2>2, <2>3, <2>4, SeqEqual
  <2> QED
    BY <2>5 DEF s
<1>3. \A x : Append(<<>>, x) = <<x>>
  OBVIOUS
<1>4. \A x : Head(<<x>>) = x /\ Tail(<<x>>) = <<>>
  OBVIOUS
<1>5. \A x, y : Head(<<x, y>>) = x /\ Tail(<<x, y>>) = <<y>>
  OBVIOUS
<1>6. \A x, y, z : Head(<<x, y, z>>) = x /\ Tail(<<x, y, z>>) = <<y, z>>
  OBVIOUS
<1> QED
  BY <1>1, <1>2, <1>3, <1>4, <1>5, <1>6
  DEF Nothing, Accepted, Complete, Incomplete, Finished, Failure, LastId, LastError

\* The service takes the first load.
LEMMA InputTaken ==
  ASSUME LoadingTypes, wlInput # <<>>, wlInput' = Tail(wlInput), UNCHANGED wlAsked, NEW e \in WlEngines
  PROVE  /\ NotAsked(e) => NotAsked(e)' /\ Head(wlInput)[2] # e
         /\ AskedOnce(e) /\ Head(wlInput)[2] # e => AskedOnce(e)'
         /\ AskedOnce(e) /\ Head(wlInput)[2] = e => NotAsked(e)' /\ Head(wlInput) = <<wlAsked[e], e>>
         /\ Head(wlInput) \in Loads
<1>1. wlInput \in Seq(Loads)
  BY DEF LoadingTypes
<1>2. /\ Len(wlInput) \in Nat \ {0} /\ DOMAIN wlInput = 1 .. Len(wlInput)
      /\ Head(wlInput) = wlInput[1] /\ Head(wlInput) \in Loads
      /\ DOMAIN wlInput' = 1 .. Len(wlInput) - 1
      /\ \A i \in 1 .. Len(wlInput) - 1 : wlInput'[i] = wlInput[i + 1]
  BY <1>1, HeadTailProperties
<1>3. NotAsked(e) => NotAsked(e)' /\ Head(wlInput)[2] # e
  BY <1>2 DEF NotAsked
<1>4. ASSUME NEW i \in DOMAIN wlInput, wlInput[i] = <<wlAsked[e], e>>,
             \A j \in DOMAIN wlInput : wlInput[j][2] = e => j = i
      PROVE  IF Head(wlInput)[2] = e THEN NotAsked(e)' /\ Head(wlInput) = <<wlAsked[e], e>> ELSE AskedOnce(e)'
  <2>1. CASE i = 1
    <3>1. \A j \in DOMAIN wlInput' : wlInput'[j][2] # e
      BY <1>2, <1>4, <2>1
    <3>2. Head(wlInput) = <<wlAsked[e], e>>
      BY <1>2, <1>4, <2>1
    <3> QED
      BY <3>1, <3>2 DEF NotAsked
  <2>2. CASE i # 1
    <3>1. Head(wlInput)[2] # e
      BY <1>2, <1>4, <2>2
    <3>2. i - 1 \in DOMAIN wlInput' /\ wlInput'[i - 1] = wlInput[i]
      BY <1>2, <2>2
    <3>3. ASSUME NEW j \in DOMAIN wlInput', wlInput'[j][2] = e PROVE j = i - 1
      <4>1. j + 1 \in DOMAIN wlInput /\ wlInput[j + 1][2] = e
        BY <1>2, <3>3
      <4>2. j + 1 = i
        BY <1>4, <4>1
      <4> QED
        BY <1>2, <4>2
    <3>4. AskedOnce(e)'
      BY <1>4, <3>2, <3>3 DEF AskedOnce
    <3> QED
      BY <3>1, <3>4
  <2> QED
    BY <2>1, <2>2
<1> QED
  BY <1>2, <1>3, <1>4 DEF AskedOnce

\* Engine f puts a load.
LEMMA InputPut ==
  ASSUME LoadingTypes, NEW f \in WlEngines, NEW m \in WlModels, wlInput' = Append(wlInput, <<m, f>>),
         NEW e \in WlEngines, wlAsked'[e] = IF e = f THEN m ELSE wlAsked[e]
  PROVE  /\ wlInput' \in Seq(Loads)
         /\ e # f /\ NotAsked(e) => NotAsked(e)'
         /\ e # f /\ AskedOnce(e) => AskedOnce(e)'
         /\ e = f /\ NotAsked(e) => AskedOnce(e)'
<1>1. wlInput \in Seq(Loads) /\ <<m, f>> \in Loads
  BY DEF LoadingTypes, Loads
<1>2. /\ Len(wlInput) \in Nat /\ DOMAIN wlInput = 1 .. Len(wlInput)
      /\ wlInput' \in Seq(Loads) /\ DOMAIN wlInput' = 1 .. Len(wlInput) + 1
      /\ \A i \in 1 .. Len(wlInput) : wlInput'[i] = wlInput[i]
      /\ wlInput'[Len(wlInput) + 1] = <<m, f>>
  BY <1>1, AppendProperties
<1>3. e # f /\ NotAsked(e) => NotAsked(e)'
  BY <1>2 DEF NotAsked
<1>4. ASSUME e # f, AskedOnce(e) PROVE AskedOnce(e)'
  <2>1. PICK i \in DOMAIN wlInput : /\ wlInput[i] = <<wlAsked[e], e>>
                                    /\ \A j \in DOMAIN wlInput : wlInput[j][2] = e => j = i
    BY <1>4 DEF AskedOnce
  <2>2. i \in DOMAIN wlInput' /\ wlInput'[i] = <<wlAsked'[e], e>>
    BY <1>2, <1>4, <2>1
  <2>3. \A j \in DOMAIN wlInput' : wlInput'[j][2] = e => j = i
    BY <1>2, <1>4, <2>1
  <2> QED
    BY <2>2, <2>3 DEF AskedOnce
<1>5. ASSUME e = f, NotAsked(e) PROVE AskedOnce(e)'
  <2>1. Len(wlInput) + 1 \in DOMAIN wlInput' /\ wlInput'[Len(wlInput) + 1] = <<wlAsked'[e], e>>
    BY <1>2, <1>5
  <2>2. \A j \in DOMAIN wlInput' : wlInput'[j][2] = e => j = Len(wlInput) + 1
    BY <1>2, <1>5 DEF NotAsked
  <2> QED
    BY <2>1, <2>2 DEF AskedOnce
<1> QED
  BY <1>2, <1>3, <1>4, <1>5

\* An engine that a step leaves alone stays in step.
LEMMA StaysInStep ==
  ASSUME NEW e \in WlEngines, InStep(e),
         wlPc'[e] = wlPc[e], wlAsked'[e] = wlAsked[e], wlModel'[e] = wlModel[e], wlOutput'[e] = wlOutput[e],
         wlTime'[e] = wlTime[e],
         NotAsked(e) => NotAsked(e)', AskedOnce(e) => AskedOnce(e)',
         Served(e)' <=> Served(e), Served(e) => wlJob'.model = wlJob.model
  PROVE  InStep(e)'
<1>1. Loaded(e)' <=> Loaded(e)
  BY DEF Loaded, Rows
<1>2. /\ (AtRest(e) => AtRest(e)') /\ (Queued(e) => Queued(e)')
      /\ (BeingServed(e) => BeingServed(e)') /\ (Answered(e) => Answered(e)')
  BY DEF AtRest, Queued, BeingServed, Answered
<1>3. wlAsked'[e] \in WlModels /\ wlModel'[e] \in Tensors <=> wlAsked[e] \in WlModels /\ wlModel[e] \in Tensors
  BY DEF Tensors
<1>4. Served(e)' => Served(e) /\ wlJob'.model = wlJob.model
  OBVIOUS
<1> QED
  BY <1>1, <1>2, <1>3, <1>4 DEF InStep

\* The input queue is the same, and so is the rest for engine e.
LEMMA InputSame ==
  ASSUME UNCHANGED wlInput, NEW e, wlAsked'[e] = wlAsked[e]
  PROVE  (NotAsked(e)' <=> NotAsked(e)) /\ (AskedOnce(e)' <=> AskedOnce(e))
BY DEF NotAsked, AskedOnce
-------------------------------------------------------------------------------
(* The invariant holds at the start and is kept. *)

\* Nothing is neither a job nor a tensor.
LEMMA NoneIsNoJob == WlNone \notin Jobs /\ WlNone \notin Tensors
BY PiecesAreJob, NoneAssumption DEF Tensors

\* With every engine off and the service idle the invariant holds.
LEMMA LoadingStarts == LoadingInit => LoadingInv
<1> SUFFICES ASSUME LoadingInit PROVE LoadingInv
  OBVIOUS
<1>1. /\ wlWay \in {"service", "async", "sync"} /\ wlInput = <<>> /\ wlJob = WlNone
      /\ \A e \in WlEngines : /\ wlPc[e] = "off" /\ wlAsked[e] = WlNone /\ wlThread[e] = <<>>
                              /\ wlOutput[e] = Nothing /\ wlTime[e] = "none"
  BY LoadingAssumption DEF LoadingInit, Nothing
<1>2. wlPc \in [WlEngines -> {"off", "active", "dict", "build", "answer", "time", "id", "failed"}]
  BY DEF LoadingInit
<1>3. wlAsked \in [WlEngines -> WlModels \cup {WlNone}]
  BY DEF LoadingInit
<1>4. wlModel = [e \in WlEngines |-> wlModel[e]] /\ wlThread = [e \in WlEngines |-> wlThread[e]]
  BY DEF LoadingInit
<1>5. wlOutput \in [WlEngines -> Seq(Words)] /\ wlInput \in Seq(Loads)
  BY DEF LoadingInit
<1>6. wlTime \in [WlEngines -> Words]
  BY DEF LoadingInit, Words
<1>7. LoadingTypes
  BY <1>1, <1>2, <1>3, <1>4, <1>5, <1>6 DEF LoadingTypes
<1>8. NoService /\ NoThreads /\ \A e \in WlEngines : wlPc[e] # "active"
  BY <1>1 DEF NoService, NoThreads
<1>9. ASSUME NEW e \in WlEngines PROVE InStep(e)
  <2>1. AtRest(e) /\ ~Served(e)
    BY <1>1 DEF AtRest, NotAsked, Served
  <2> QED
    BY <1>1, <2>1 DEF InStep
<1>10. CopiedSoFar
  BY <1>1 DEF CopiedSoFar
<1> QED
  BY <1>7, <1>8, <1>9, <1>10 DEF LoadingInv

\* What is read of an answer is a word, and what is left is an answer.
LEMMA AnswerRead ==
  ASSUME LoadingTypes, NEW e \in WlEngines, wlOutput[e] # <<>>
  PROVE  /\ Head(wlOutput[e]) \in Words /\ Tail(wlOutput[e]) \in Seq(Words)
         /\ Len(wlOutput[e]) >= 2 => Tail(Tail(wlOutput[e])) \in Seq(Words)
<1>1. wlOutput[e] \in Seq(Words)
  BY DEF LoadingTypes
<1>2. /\ Head(wlOutput[e]) \in Words /\ Tail(wlOutput[e]) \in Seq(Words)
      /\ Len(Tail(wlOutput[e])) = Len(wlOutput[e]) - 1
  BY <1>1, HeadTailProperties
<1>3. ASSUME Len(wlOutput[e]) >= 2 PROVE Tail(Tail(wlOutput[e])) \in Seq(Words)
  <2> DEFINE t == Tail(wlOutput[e])
  <2>1. t \in Seq(Words) /\ Len(t) >= 1
    BY <1>1, <1>2, <1>3
  <2> HIDE DEF t
  <2>2. t # <<>>
    BY <2>1
  <2>3. Tail(t) \in Seq(Words)
    BY <2>1, <2>2, HeadTailProperties
  <2> QED
    BY <2>3 DEF t
<1> QED
  BY <1>2, <1>3

\* The types of what the engines share with the service.
LEMMA OutputTyped ==
  ASSUME LoadingTypes, NEW f \in WlEngines, NEW s \in Seq(Words), wlOutput' = [wlOutput EXCEPT ![f] = s]
  PROVE  /\ wlOutput' \in [WlEngines -> Seq(Words)] /\ wlOutput'[f] = s
         /\ \A e \in WlEngines : e # f => wlOutput'[e] = wlOutput[e]
BY DEF LoadingTypes

\* Every step of an engine, a thread or the service keeps the types.
LEMMA TypesKept ==
  ASSUME LoadingInv, LoadingNext
  PROVE  LoadingTypes'
<1> DEFINE Pcs == {"off", "active", "dict", "build", "answer", "time", "id", "failed"}
<1>1. LoadingTypes
  BY DEF LoadingInv
<1>2. wlPc \in [WlEngines -> Pcs] /\ wlAsked \in [WlEngines -> WlModels \cup {WlNone}]
  BY <1>1 DEF LoadingTypes
<1>3. /\ wlModel = [e \in WlEngines |-> wlModel[e]] /\ wlThread = [e \in WlEngines |-> wlThread[e]]
  BY <1>1 DEF LoadingTypes
<1>4. ASSUME NEW f \in WlEngines, NEW m \in WlModels, ActivateRunner(f, m) PROVE LoadingTypes'
  <2>1. wlPc' \in [WlEngines -> Pcs] /\ wlAsked' \in [WlEngines -> WlModels \cup {WlNone}]
    BY <1>2, <1>4 DEF ActivateRunner
  <2>2. wlModel' = [e \in WlEngines |-> wlModel'[e]]
    BY <1>3, <1>4 DEF ActivateRunner
  <2>3. wlThread' = [e \in WlEngines |-> wlThread'[e]]
    BY <1>3, <1>4 DEF ActivateRunner
  <2>4. wlInput' \in Seq(Loads)
    <3>1. wlInput' = wlInput \/ wlInput' = Append(wlInput, <<m, f>>)
      BY <1>4 DEF ActivateRunner
    <3>2. wlInput \in Seq(Loads) /\ <<m, f>> \in Loads
      BY <1>1 DEF LoadingTypes, Loads
    <3> QED
      BY <3>1, <3>2, AppendProperties
  <2>5. UNCHANGED <<wlWay, wlJob, wlOutput, wlTime>>
    BY <1>4 DEF ActivateRunner
  <2>6. /\ wlWay' \in {"service", "async", "sync"} /\ wlJob' \in Jobs \cup {WlNone}
        /\ wlOutput' \in [WlEngines -> Seq(Words)] /\ wlTime' \in [WlEngines -> Words]
    BY <1>1, <2>5 DEF LoadingTypes
  <2> QED
    BY <2>1, <2>2, <2>3, <2>4, <2>6 DEF LoadingTypes
<1>5. ASSUME NEW f \in WlEngines, InitDict(f) PROVE LoadingTypes'
  BY <1>1, <1>5 DEF InitDict, LoadingTypes
<1>6. ASSUME NEW f \in WlEngines, InitModel(f) PROVE LoadingTypes'
  BY <1>1, <1>6 DEF InitModel, LoadingTypes
<1>7. ASSUME NEW f \in WlEngines, NEW i \in DOMAIN wlThread[f], Transfer(f, i) PROVE LoadingTypes'
  <2>1. wlThread' = [e \in WlEngines |-> wlThread'[e]]
    BY <1>3, <1>7 DEF Transfer
  <2> QED
    BY <1>1, <1>7, <2>1 DEF Transfer, LoadingTypes
<1>8. ASSUME NEW f \in WlEngines, NEW i \in DOMAIN wlThread[f], LoadStateDict(f, i) PROVE LoadingTypes'
  <2>1. wlThread' = [e \in WlEngines |-> wlThread'[e]]
    BY <1>3, <1>8 DEF LoadStateDict
  <2>2. wlModel' = [e \in WlEngines |-> wlModel'[e]]
    BY <1>3, <1>8 DEF LoadStateDict
  <2> QED
    BY <1>1, <1>8, <2>1, <2>2 DEF LoadStateDict, LoadingTypes
<1>9. ASSUME NEW f \in WlEngines, ReadAnswer(f) PROVE LoadingTypes'
  <2>1. wlOutput[f] # <<>> /\ wlPc[f] = "answer"
    BY <1>9 DEF ReadAnswer
  <2>2. wlPc' \in [WlEngines -> Pcs]
    BY <1>2, <1>9 DEF ReadAnswer
  <2>3. CASE Head(wlOutput[f]) = "none"
    <3>1. /\ Len(wlOutput[f]) >= 2 /\ wlOutput' = [wlOutput EXCEPT ![f] = Tail(Tail(wlOutput[f]))]
          /\ wlInput' = Append(wlInput, <<wlAsked[f], f>>)
      BY <1>9, <2>3 DEF ReadAnswer, Retry
    <3>2. wlOutput' \in [WlEngines -> Seq(Words)]
      BY <1>1, <2>1, <3>1, AnswerRead, OutputTyped
    <3>3. wlAsked[f] \in WlModels
      BY <2>1 DEF LoadingInv, NoService, InStep
    <3>4. wlInput' \in Seq(Loads)
      BY <1>1, <3>1, <3>3, AppendProperties DEF LoadingTypes, Loads
    <3> QED
      BY <1>1, <1>9, <2>2, <3>2, <3>4 DEF ReadAnswer, LoadingTypes
  <2>4. CASE Head(wlOutput[f]) # "none"
    <3>1. wlOutput' = [wlOutput EXCEPT ![f] = Tail(wlOutput[f])] /\ UNCHANGED wlInput
      BY <1>9, <2>4 DEF ReadAnswer
    <3>2. wlOutput' \in [WlEngines -> Seq(Words)]
      BY <1>1, <2>1, <3>1, AnswerRead, OutputTyped
    <3> QED
      BY <1>1, <1>9, <2>2, <3>1, <3>2 DEF ReadAnswer, LoadingTypes
  <2> QED
    BY <2>3, <2>4
<1>10. ASSUME NEW f \in WlEngines, ReadTime(f) PROVE LoadingTypes'
  <2>1. wlOutput' \in [WlEngines -> Seq(Words)]
    BY <1>1, <1>10, AnswerRead, OutputTyped DEF ReadTime
  <2>2. wlTime' \in [WlEngines -> Words] /\ wlPc' \in [WlEngines -> Pcs]
    BY <1>1, <1>2, <1>10, AnswerRead DEF ReadTime, LoadingTypes
  <2> QED
    BY <1>1, <1>10, <2>1, <2>2 DEF ReadTime, LoadingTypes
<1>11. ASSUME NEW f \in WlEngines, ReadServiceId(f) PROVE LoadingTypes'
  <2>1. wlOutput' \in [WlEngines -> Seq(Words)]
    BY <1>1, <1>11, AnswerRead, OutputTyped DEF ReadServiceId
  <2>2. wlTime' \in [WlEngines -> Words] /\ wlPc' \in [WlEngines -> Pcs]
    BY <1>1, <1>2, <1>11 DEF ReadServiceId, LoadingTypes, Words
  <2> QED
    BY <1>1, <1>11, <2>1, <2>2 DEF ReadServiceId, LoadingTypes
<1>12. ASSUME NEW f \in WlEngines, Timeout(f) PROVE LoadingTypes'
  BY <1>1, <1>12 DEF Timeout, LoadingTypes
<1>13. ASSUME NEW f \in WlEngines, DeactivateRunner(f) PROVE LoadingTypes'
  <2>1. wlModel' = [e \in WlEngines |-> wlModel'[e]] /\ wlPc' \in [WlEngines -> Pcs]
    BY <1>2, <1>3, <1>13 DEF DeactivateRunner
  <2> QED
    BY <1>1, <1>13, <2>1 DEF DeactivateRunner, LoadingTypes
<1>14. ASSUME TakeJob PROVE LoadingTypes'
  <2> DEFINE h == Head(wlInput)
  <2>1. /\ wlInput # <<>> /\ wlInput' = Tail(wlInput) /\ wlJob' = [engine |-> h[2], model |-> h[1], pieces |-> Pieces]
        /\ wlOutput' = [wlOutput EXCEPT ![h[2]] = Append(@, "success")]
    BY <1>14 DEF TakeJob
  <2>2. h[1] \in WlModels /\ h[2] \in WlEngines /\ wlInput' \in Seq(Loads)
    BY <1>1, <2>1, HeadTailProperties DEF LoadingTypes, Loads
  <2> HIDE DEF h
  <2>3. wlJob' \in Jobs
    BY <2>1, <2>2 DEF Jobs
  <2>4. Append(wlOutput[h[2]], "success") \in Seq(Words)
    BY <1>1, <2>2, AppendProperties DEF LoadingTypes, Words
  <2>5. wlOutput' \in [WlEngines -> Seq(Words)]
    BY <1>1, <2>1, <2>2, <2>4, OutputTyped
  <2> QED
    BY <1>1, <1>14, <2>2, <2>3, <2>5 DEF TakeJob, LoadingTypes
<1>15. ASSUME NEW f \in WlEngines, NEW x \in Words, NEW y \in Words,
              wlOutput' = [wlOutput EXCEPT ![f] = @ \o <<x, y>>]
       PROVE  wlOutput' \in [WlEngines -> Seq(Words)]
  <2>1. wlOutput[f] \in Seq(Words) /\ <<x, y>> \in Seq(Words)
    BY <1>1 DEF LoadingTypes
  <2>2. wlOutput[f] \o <<x, y>> \in Seq(Words)
    BY <2>1, ConcatProperties
  <2> QED
    BY <1>1, <1>15, <2>2, OutputTyped
<1>16. ASSUME RefuseJob PROVE LoadingTypes'
  <2>1. Head(wlInput)[2] \in WlEngines /\ Tail(wlInput) \in Seq(Loads)
    BY <1>1, <1>16, HeadTailProperties DEF LoadingTypes, RefuseJob, Loads
  <2>2. wlOutput' \in [WlEngines -> Seq(Words)]
    BY <1>15, <1>16, <2>1 DEF RefuseJob, Words
  <2> QED
    BY <1>1, <1>16, <2>1, <2>2 DEF RefuseJob, LoadingTypes
<1>17. wlJob # WlNone => wlJob \in Jobs /\ wlJob.engine \in WlEngines
  BY <1>1 DEF LoadingTypes, Jobs
<1>18. ASSUME NEW p \in Pieces, GpuTransfer(p) PROVE LoadingTypes'
  <2>1. wlJob' = [wlJob EXCEPT !.pieces = @ \ {p}] /\ wlJob \in Jobs
    BY <1>17, <1>18 DEF GpuTransfer
  <2>2. wlJob' \in Jobs
    BY <2>1 DEF Jobs
  <2>3. wlModel' = [e \in WlEngines |-> wlModel'[e]]
    BY <1>3, <1>18 DEF GpuTransfer
  <2> QED
    BY <1>1, <1>18, <2>2, <2>3 DEF GpuTransfer, LoadingTypes
<1>19. ASSUME JobDone PROVE LoadingTypes'
  <2>1. wlOutput' \in [WlEngines -> Seq(Words)]
    BY <1>15, <1>17, <1>19 DEF JobDone, Copied, Words
  <2> QED
    BY <1>1, <1>19, <2>1 DEF JobDone, LoadingTypes
<1>20. ASSUME JobFails PROVE LoadingTypes'
  <2>1. wlOutput' \in [WlEngines -> Seq(Words)]
    BY <1>15, <1>17, <1>20 DEF JobFails, Words
  <2> QED
    BY <1>1, <1>20, <2>1 DEF JobFails, LoadingTypes
<1> QED
  BY <1>4, <1>5, <1>6, <1>7, <1>8, <1>9, <1>10, <1>11, <1>12, <1>13, <1>14, <1>16, <1>18, <1>19, <1>20
  DEF LoadingNext, ServiceStep, RunnerStep

\* Loading without the service leaves the service alone.
LEMMA WithoutService ==
  ASSUME LoadingInv, LoadingNext, wlWay # "service"
  PROVE  /\ NoService'
         /\ wlWay = "sync" => NoThreads' /\ \A e \in WlEngines : wlPc'[e] = "active" => Loaded(e)'
<1>1. NoService /\ LoadingTypes
  BY DEF LoadingInv
<1>2. /\ wlInput = <<>> /\ wlJob = WlNone
      /\ \A e \in WlEngines : wlOutput[e] = <<>> /\ wlPc[e] \in {"off", "active", "dict", "build"}
  BY <1>1 DEF NoService, Nothing
<1>3. wlPc = [e \in WlEngines |-> wlPc[e]]
  BY <1>1 DEF LoadingTypes
<1>4. wlWay = "sync" => /\ \A e \in WlEngines : wlThread[e] = <<>> /\ wlPc[e] \in {"off", "active"}
                        /\ \A e \in WlEngines : wlPc[e] = "active" => wlModel[e] = Rows(wlAsked[e])
  BY <1>2 DEF LoadingInv, NoThreads, Loaded
<1>5. \A e \in WlEngines : \A i \in DOMAIN wlThread[e] : wlWay # "sync"
  BY <1>4
<1> DEFINE Rest == UNCHANGED <<wlInput, wlJob, wlOutput>>
           Places == \A e \in WlEngines : wlPc'[e] \in {"off", "active", "dict", "build"}
           Sync == wlWay = "sync" => \A e \in WlEngines :
                     /\ wlThread'[e] = <<>> /\ wlPc'[e] \in {"off", "active"}
                     /\ wlPc'[e] = "active" => wlModel'[e] = Rows(wlAsked'[e])
<1>6. ASSUME NEW f \in WlEngines, NEW m \in WlModels, ActivateRunner(f, m) PROVE Rest /\ Places /\ Sync
  <2>1. Rest
    BY <1>6, <1>1 DEF ActivateRunner
  <2>2. Places
    BY <1>2, <1>3, <1>6 DEF ActivateRunner
  <2>3. ASSUME wlWay = "sync" PROVE UNCHANGED wlThread /\ wlPc' = [wlPc EXCEPT ![f] = "active"]
    BY <1>6, <2>3 DEF ActivateRunner
  <2>4. ASSUME wlWay = "sync", NEW e \in WlEngines, wlPc'[e] = "active" PROVE wlModel'[e] = Rows(wlAsked'[e])
    <3>1. /\ wlModel' = [wlModel EXCEPT ![f] = Rows(m)] /\ wlAsked' = [wlAsked EXCEPT ![f] = m]
          /\ wlModel = [d \in WlEngines |-> wlModel[d]] /\ wlAsked = [d \in WlEngines |-> wlAsked[d]]
      BY <1>1, <1>6, <2>4 DEF ActivateRunner, LoadingTypes
    <3>2. CASE e = f
      BY <3>1, <3>2
    <3>3. CASE e # f
      <4>1. wlModel'[e] = wlModel[e] /\ wlAsked'[e] = wlAsked[e]
        BY <3>1, <3>3
      <4>2. wlPc[e] = "active"
        BY <1>3, <2>3, <2>4, <3>3
      <4> QED
        BY <1>4, <2>4, <4>1, <4>2
    <3> QED
      BY <3>2, <3>3
  <2>5. wlWay = "sync" => \A e \in WlEngines : wlThread'[e] = <<>> /\ wlPc'[e] \in {"off", "active"}
    BY <1>3, <1>4, <2>3
  <2> QED
    BY <2>1, <2>2, <2>4, <2>5
<1>7. ASSUME NEW f \in WlEngines, InitDict(f) \/ InitModel(f) PROVE Rest /\ Places /\ Sync
  BY <1>2, <1>3, <1>4, <1>7 DEF InitDict, InitModel
<1>8. ASSUME NEW f \in WlEngines, NEW i \in DOMAIN wlThread[f], Transfer(f, i) \/ LoadStateDict(f, i)
      PROVE  Rest /\ Places /\ Sync
  BY <1>2, <1>5, <1>8 DEF Transfer, LoadStateDict
<1>9. ASSUME NEW f \in WlEngines PROVE ~(ReadAnswer(f) \/ ReadTime(f) \/ ReadServiceId(f) \/ Timeout(f))
  BY <1>2 DEF ReadAnswer, ReadTime, ReadServiceId, Timeout
<1>10. ASSUME NEW f \in WlEngines, DeactivateRunner(f) PROVE Rest /\ Places /\ Sync
  <2>1. wlPc' = [wlPc EXCEPT ![f] = "off"] /\ UNCHANGED <<wlThread, wlAsked>> /\ Rest
    BY <1>10 DEF DeactivateRunner
  <2>2. \A e \in WlEngines : e # f => wlModel'[e] = wlModel[e]
    BY <1>1, <1>10 DEF DeactivateRunner, LoadingTypes
  <2>3. Places
    BY <1>2, <1>3, <2>1
  <2>4. Sync
    BY <1>3, <1>4, <2>1, <2>2
  <2> QED
    BY <2>1, <2>3, <2>4
<1>11. ~(ServiceStep \/ RefuseJob \/ JobFails)
  BY <1>2 DEF ServiceStep, TakeJob, GpuTransfer, JobDone, Copied, RefuseJob, JobFails
<1>12. Rest /\ Places /\ Sync
  <2> HIDE DEF Rest, Places, Sync
  <2> QED
    BY <1>6, <1>7, <1>8, <1>9, <1>10, <1>11 DEF LoadingNext, RunnerStep
<1>13. NoService'
  BY <1>2, <1>12 DEF NoService, Nothing
<1>14. wlWay = "sync" => NoThreads' /\ \A e \in WlEngines : wlPc'[e] = "active" => Loaded(e)'
  BY <1>12 DEF NoThreads, Loaded
<1> QED
  BY <1>13, <1>14

\* With the service there are no transfer threads.
LEMMA NoThreadsKept ==
  ASSUME LoadingInv, LoadingNext, wlWay = "service"
  PROVE  NoThreads'
<1>1. /\ \A e \in WlEngines : wlThread[e] = <<>> /\ wlPc[e] \notin {"dict", "build"}
      /\ wlPc = [e \in WlEngines |-> wlPc[e]]
  BY DEF LoadingInv, NoThreads, LoadingTypes
<1> DEFINE Goal == UNCHANGED wlThread /\ \A e \in WlEngines : wlPc'[e] \notin {"dict", "build"}
<1>2. ASSUME NEW f \in WlEngines, NEW m \in WlModels, ActivateRunner(f, m) PROVE Goal
  BY <1>1, <1>2 DEF ActivateRunner
<1>3. ASSUME NEW f \in WlEngines, ReadAnswer(f) PROVE Goal
  BY <1>1, <1>3 DEF ReadAnswer
<1>4. ASSUME NEW f \in WlEngines, ReadTime(f) \/ ReadServiceId(f) \/ Timeout(f) \/ DeactivateRunner(f) PROVE Goal
  BY <1>1, <1>4 DEF ReadTime, ReadServiceId, Timeout, DeactivateRunner
<1>5. ASSUME NEW f \in WlEngines
      PROVE  /\ ~(InitDict(f) \/ InitModel(f))
             /\ \A i \in DOMAIN wlThread[f] : ~(Transfer(f, i) \/ LoadStateDict(f, i))
  BY <1>1 DEF InitDict, InitModel, Transfer, LoadStateDict
<1>6. ASSUME ServiceStep \/ RefuseJob \/ JobFails PROVE Goal
  <2>1. UNCHANGED <<wlThread, wlPc>>
    BY <1>6 DEF ServiceStep, TakeJob, GpuTransfer, JobDone, RefuseJob, JobFails
  <2> QED
    BY <1>1, <2>1
<1>7. Goal
  <2> HIDE DEF Goal
  <2> QED
    BY <1>2, <1>3, <1>4, <1>5, <1>6 DEF LoadingNext, RunnerStep
<1> QED
  BY <1>1, <1>7 DEF NoThreads

\* The step of an engine that talks with the service leaves the others in step.
LEMMA OthersInStep ==
  ASSUME LoadingInv, wlWay = "service", NEW f \in WlEngines, UNCHANGED wlJob,
         \A e \in WlEngines : e # f =>
           /\ wlPc'[e] = wlPc[e] /\ wlAsked'[e] = wlAsked[e] /\ wlModel'[e] = wlModel[e]
           /\ wlOutput'[e] = wlOutput[e] /\ wlTime'[e] = wlTime[e]
           /\ (NotAsked(e) => NotAsked(e)') /\ (AskedOnce(e) => AskedOnce(e)'),
         \/ wlPc'[f] = "failed"
         \/ ~Served(f)
         \/ wlPc[f] # "failed" /\ wlModel'[f] = wlModel[f]
  PROVE  CopiedSoFar' /\ \A e \in WlEngines : e # f => InStep(e)'
<1>1. CopiedSoFar /\ \A e \in WlEngines : InStep(e)
  BY DEF LoadingInv
<1>2. ASSUME NEW e \in WlEngines, e # f PROVE InStep(e)'
  <2>1. Served(e)' <=> Served(e)
    BY DEF Served
  <2> QED
    BY <1>1, <1>2, <2>1, StaysInStep
<1>3. CopiedSoFar'
  <2>1. SUFFICES ASSUME wlJob # WlNone, wlPc'[wlJob.engine] # "failed"
                 PROVE  \A i \in 1..WlRows : Covered(i)' \/ wlModel'[wlJob.engine][i] = wlJob.model
    BY DEF CopiedSoFar
  <2>2. wlJob.engine \in WlEngines
    BY <2>1 DEF LoadingInv, LoadingTypes, Jobs
  <2>3. wlModel'[wlJob.engine] = wlModel[wlJob.engine] /\ wlPc[wlJob.engine] # "failed"
    BY <2>1, <2>2 DEF Served
  <2> QED
    BY <1>1, <2>1, <2>3 DEF CopiedSoFar, Covered
<1> QED
  BY <1>2, <1>3

\* An engine that reads its answer, or gives up, or deactivates stays in step.
LEMMA EngineKeepsStep ==
  ASSUME LoadingInv, LoadingTypes', wlWay = "service", NEW f \in WlEngines,
         \/ \E m \in WlModels : ActivateRunner(f, m)
         \/ ReadAnswer(f) \/ ReadTime(f) \/ ReadServiceId(f) \/ Timeout(f) \/ DeactivateRunner(f)
  PROVE  CopiedSoFar' /\ \A e \in WlEngines : InStep(e)'
<1> DEFINE Same(e) == /\ wlPc'[e] = wlPc[e] /\ wlAsked'[e] = wlAsked[e] /\ wlModel'[e] = wlModel[e]
                      /\ wlOutput'[e] = wlOutput[e] /\ wlTime'[e] = wlTime[e]
<1>1. LoadingTypes /\ InStep(f)
  BY DEF LoadingInv
<1>2. /\ wlPc = [e \in WlEngines |-> wlPc[e]] /\ wlAsked = [e \in WlEngines |-> wlAsked[e]]
      /\ wlModel = [e \in WlEngines |-> wlModel[e]] /\ wlOutput = [e \in WlEngines |-> wlOutput[e]]
      /\ wlTime = [e \in WlEngines |-> wlTime[e]]
  BY <1>1 DEF LoadingTypes
<1>3. ASSUME UNCHANGED <<wlInput, wlAsked>>, NEW e \in WlEngines
      PROVE  (NotAsked(e)' <=> NotAsked(e)) /\ (AskedOnce(e)' <=> AskedOnce(e))
  BY <1>3, InputSame
<1>4. ASSUME UNCHANGED wlJob, NEW e \in WlEngines PROVE Served(e)' <=> Served(e)
  BY <1>4 DEF Served
<1>5. Nothing = <<>>
  BY DEF Nothing
<1>6. ASSUME NEW m \in WlModels, ActivateRunner(f, m) PROVE CopiedSoFar' /\ \A e \in WlEngines : InStep(e)'
  <2>1. /\ wlPc[f] = "off" /\ wlPc' = [wlPc EXCEPT ![f] = "answer"] /\ wlAsked' = [wlAsked EXCEPT ![f] = m]
        /\ wlModel' = [wlModel EXCEPT ![f] = Rows(WlNone)] /\ wlInput' = Append(wlInput, <<m, f>>)
        /\ UNCHANGED <<wlJob, wlOutput, wlTime>>
    BY <1>6 DEF ActivateRunner
  <2>2. AtRest(f)
    BY <1>1, <2>1 DEF InStep
  <2>3. /\ wlPc'[f] = "answer" /\ wlAsked'[f] = m /\ wlModel'[f] = Rows(WlNone) /\ wlOutput'[f] = Nothing
        /\ \A e \in WlEngines : e # f => Same(e)
    BY <1>2, <2>1, <2>2 DEF AtRest
  <2>4. \A e \in WlEngines : wlAsked'[e] = IF e = f THEN m ELSE wlAsked[e]
    BY <2>3
  <2>5. \A e \in WlEngines : e # f => (NotAsked(e) => NotAsked(e)') /\ (AskedOnce(e) => AskedOnce(e)')
    BY <1>1, <2>1, <2>4, InputPut
  <2>6. AskedOnce(f)'
    BY <1>1, <2>1, <2>2, <2>4, InputPut DEF AtRest
  <2>7. ~Served(f) /\ ~Served(f)'
    BY <1>4, <2>1, <2>2 DEF AtRest
  <2>8. Rows(WlNone) \in Tensors
    BY DEF Rows, Tensors
  <2>9. Queued(f)'
    BY <2>3, <2>6, <2>7 DEF Queued
  <2>10. InStep(f)'
    BY <2>3, <2>7, <2>8, <2>9 DEF InStep
  <2>11. CopiedSoFar' /\ \A e \in WlEngines : e # f => InStep(e)'
    BY <2>1, <2>3, <2>5, <2>7, OthersInStep
  <2> QED
    BY <2>10, <2>11
<1>7. ASSUME ReadAnswer(f) PROVE CopiedSoFar' /\ \A e \in WlEngines : InStep(e)'
  <2>1. /\ wlPc[f] = "answer" /\ wlOutput[f] # Nothing
        /\ UNCHANGED <<wlAsked, wlModel, wlJob, wlTime>>
    BY <1>5, <1>7 DEF ReadAnswer
  <2>2. /\ wlAsked[f] \in WlModels /\ wlModel[f] \in Tensors
        /\ Served(f) => wlJob.model = wlAsked[f]
        /\ \/ BeingServed(f) /\ wlOutput[f] = Accepted
           \/ Answered(f) /\ wlOutput[f] = Complete /\ Loaded(f)
           \/ Answered(f) /\ wlOutput[f] = Incomplete
           \/ Answered(f) /\ wlOutput[f] = Failure
    BY <1>1, <2>1 DEF InStep, Queued
  <2>3. Loaded(f)' <=> Loaded(f)
    BY <2>1 DEF Loaded, Rows
  <2>4. CASE Head(wlOutput[f]) = "none"
    <3>1. Answered(f) /\ wlOutput[f] = Failure
      BY <2>2, <2>4, Answers
    <3>2. /\ wlOutput' = [wlOutput EXCEPT ![f] = Tail(Tail(wlOutput[f]))]
          /\ wlInput' = Append(wlInput, <<wlAsked[f], f>>) /\ UNCHANGED wlPc
      BY <1>7, <2>4 DEF ReadAnswer, Retry
    <3>3. wlOutput'[f] = Nothing /\ \A e \in WlEngines : e # f => Same(e)
      BY <1>2, <2>1, <3>1, <3>2, Answers
    <3>4. \A e \in WlEngines : wlAsked'[e] = IF e = f THEN wlAsked[f] ELSE wlAsked[e]
      BY <2>1
    <3>5. \A e \in WlEngines : e # f => (NotAsked(e) => NotAsked(e)') /\ (AskedOnce(e) => AskedOnce(e)')
      BY <1>1, <2>2, <3>2, <3>4, InputPut
    <3>6. AskedOnce(f)' /\ ~Served(f) /\ ~Served(f)'
      BY <1>1, <1>4, <2>1, <2>2, <3>1, <3>2, <3>4, InputPut DEF Answered
    <3>7. Queued(f)'
      BY <3>3, <3>6 DEF Queued
    <3>8. InStep(f)'
      BY <2>1, <2>2, <3>2, <3>6, <3>7 DEF InStep
    <3>9. CopiedSoFar' /\ \A e \in WlEngines : e # f => InStep(e)'
      BY <2>1, <3>3, <3>5, <3>6, OthersInStep
    <3> QED
      BY <3>8, <3>9
  <2>5. CASE Head(wlOutput[f]) # "none"
    <3>1. /\ wlOutput' = [wlOutput EXCEPT ![f] = Tail(wlOutput[f])]
          /\ wlPc' = [wlPc EXCEPT ![f] = "time"] /\ UNCHANGED wlInput
      BY <1>7, <2>5 DEF ReadAnswer
    <3>2. wlPc'[f] = "time" /\ wlOutput'[f] = Tail(wlOutput[f]) /\ \A e \in WlEngines : e # f => Same(e)
      BY <1>2, <2>1, <3>1
    <3>3. /\ BeingServed(f)' <=> BeingServed(f)
          /\ Answered(f)' <=> Answered(f)
      BY <1>3, <1>4, <2>1, <3>1 DEF BeingServed, Answered
    <3>4. \/ BeingServed(f)' /\ wlOutput'[f] = Nothing
          \/ Answered(f)' /\ wlOutput'[f] = Finished /\ Loaded(f)'
          \/ Answered(f)' /\ wlOutput'[f] = Failure
      BY <2>2, <2>3, <2>5, <3>2, <3>3, Answers
    <3>5. InStep(f)'
      BY <1>4, <2>1, <2>2, <3>2, <3>4 DEF InStep
    <3>6. CopiedSoFar' /\ \A e \in WlEngines : e # f => InStep(e)'
      BY <1>3, <2>1, <3>1, <3>2, OthersInStep
    <3> QED
      BY <3>5, <3>6
  <2> QED
    BY <2>4, <2>5
<1>8. ASSUME ReadTime(f) PROVE CopiedSoFar' /\ \A e \in WlEngines : InStep(e)'
  <2>1. /\ wlPc[f] = "time" /\ wlOutput[f] # Nothing /\ wlTime' = [wlTime EXCEPT ![f] = Head(wlOutput[f])]
        /\ wlOutput' = [wlOutput EXCEPT ![f] = Tail(wlOutput[f])] /\ wlPc' = [wlPc EXCEPT ![f] = "id"]
        /\ UNCHANGED <<wlAsked, wlModel, wlJob, wlInput>>
    BY <1>5, <1>8 DEF ReadTime
  <2>2. /\ wlAsked[f] \in WlModels /\ wlModel[f] \in Tensors
        /\ Served(f) => wlJob.model = wlAsked[f]
        /\ \/ Answered(f) /\ wlOutput[f] = Finished /\ Loaded(f)
           \/ Answered(f) /\ wlOutput[f] = Failure
    BY <1>1, <2>1 DEF InStep
  <2>3. /\ wlPc'[f] = "id" /\ wlOutput'[f] = Tail(wlOutput[f]) /\ wlTime'[f] = Head(wlOutput[f])
        /\ \A e \in WlEngines : e # f => Same(e)
    BY <1>2, <2>1
  <2>4. (Loaded(f)' <=> Loaded(f)) /\ Answered(f)'
    BY <1>3, <1>4, <2>1, <2>2 DEF Loaded, Rows, Answered
  <2>5. \/ Answered(f)' /\ wlOutput'[f] = LastId /\ wlTime'[f] = "time" /\ Loaded(f)'
        \/ Answered(f)' /\ wlOutput'[f] = LastError /\ wlTime'[f] = "none"
    BY <2>2, <2>3, <2>4, Answers
  <2>6. InStep(f)'
    BY <1>4, <2>1, <2>2, <2>3, <2>5 DEF InStep
  <2>7. CopiedSoFar' /\ \A e \in WlEngines : e # f => InStep(e)'
    BY <1>3, <2>1, <2>3, OthersInStep
  <2> QED
    BY <2>6, <2>7
<1>9. ASSUME ReadServiceId(f) PROVE CopiedSoFar' /\ \A e \in WlEngines : InStep(e)'
  <2>1. /\ wlPc[f] = "id" /\ wlTime' = [wlTime EXCEPT ![f] = "none"]
        /\ wlPc' = [wlPc EXCEPT ![f] = IF wlTime[f] # "none" THEN "active" ELSE "failed"]
        /\ wlOutput' = [wlOutput EXCEPT ![f] = Tail(wlOutput[f])]
        /\ UNCHANGED <<wlAsked, wlModel, wlJob, wlInput>>
    BY <1>9 DEF ReadServiceId
  <2>2. \/ Answered(f) /\ wlOutput[f] = LastId /\ wlTime[f] = "time" /\ Loaded(f)
        \/ Answered(f) /\ wlOutput[f] = LastError /\ wlTime[f] = "none"
    BY <1>1, <2>1 DEF InStep
  <2>3. /\ wlPc'[f] = IF wlTime[f] # "none" THEN "active" ELSE "failed"
        /\ wlOutput'[f] = Tail(wlOutput[f])
        /\ \A e \in WlEngines : e # f => Same(e)
    BY <1>2, <2>1
  <2>4. (Loaded(f)' <=> Loaded(f)) /\ Answered(f)' /\ wlOutput'[f] = Nothing
    BY <1>3, <1>4, <2>1, <2>2, <2>3, Answers DEF Loaded, Rows, Answered
  <2>5. AtRest(f)' /\ ~Served(f)'
    BY <2>4 DEF AtRest, Answered
  <2>6. (wlPc'[f] = "active" /\ Loaded(f)') \/ wlPc'[f] = "failed"
    BY <2>2, <2>3, <2>4
  <2>7. InStep(f)'
    BY <2>5, <2>6 DEF InStep
  <2>8. ~Served(f)
    BY <2>2 DEF Answered
  <2>9. CopiedSoFar' /\ \A e \in WlEngines : e # f => InStep(e)'
    BY <1>3, <2>1, <2>3, <2>8, OthersInStep
  <2> QED
    BY <2>7, <2>9
<1>10. ASSUME Timeout(f) PROVE CopiedSoFar' /\ \A e \in WlEngines : InStep(e)'
  <2>1. wlPc' = [wlPc EXCEPT ![f] = "failed"] /\ UNCHANGED <<wlAsked, wlModel, wlOutput, wlTime, wlJob, wlInput>>
    BY <1>10 DEF Timeout
  <2>2. wlPc'[f] = "failed" /\ \A e \in WlEngines : e # f => Same(e)
    BY <1>2, <2>1
  <2>3. InStep(f)'
    BY <2>2 DEF InStep
  <2>4. CopiedSoFar' /\ \A e \in WlEngines : e # f => InStep(e)'
    BY <1>3, <2>1, <2>2, OthersInStep
  <2> QED
    BY <2>3, <2>4
<1>11. ASSUME DeactivateRunner(f) PROVE CopiedSoFar' /\ \A e \in WlEngines : InStep(e)'
  <2>1. /\ wlPc[f] = "active" /\ wlPc' = [wlPc EXCEPT ![f] = "off"] /\ wlModel' = [wlModel EXCEPT ![f] = WlNone]
        /\ UNCHANGED <<wlAsked, wlOutput, wlTime, wlJob, wlInput>>
    BY <1>11 DEF DeactivateRunner
  <2>2. wlPc'[f] = "off" /\ \A e \in WlEngines : e # f => Same(e)
    BY <1>2, <2>1
  <2>3. AtRest(f)
    BY <1>1, <2>1 DEF InStep
  <2>4. AtRest(f)' /\ ~Served(f)' /\ ~Served(f)
    BY <1>3, <1>4, <2>1, <2>3 DEF AtRest
  <2>5. InStep(f)'
    BY <2>2, <2>4 DEF InStep
  <2>6. CopiedSoFar' /\ \A e \in WlEngines : e # f => InStep(e)'
    BY <1>3, <2>1, <2>2, <2>4, OthersInStep
  <2> QED
    BY <2>5, <2>6
<1> QED
  BY <1>6, <1>7, <1>8, <1>9, <1>10, <1>11

\* The engine that the service has answered, or is at, is loading or has failed.
LEMMA ServiceKeepsStep ==
  ASSUME LoadingInv, LoadingTypes', wlWay = "service",
         TakeJob \/ RefuseJob \/ (\E p \in Pieces : GpuTransfer(p)) \/ JobDone \/ JobFails
  PROVE  CopiedSoFar' /\ \A e \in WlEngines : InStep(e)'
<1>1. LoadingTypes /\ CopiedSoFar /\ \A e \in WlEngines : InStep(e) /\ wlPc[e] \notin {"dict", "build"}
  BY DEF LoadingInv, NoThreads
<1>2. UNCHANGED <<wlPc, wlAsked, wlTime>>
  BY DEF TakeJob, RefuseJob, GpuTransfer, JobDone, JobFails
<1>3. /\ wlOutput = [e \in WlEngines |-> wlOutput[e]] /\ wlModel = [e \in WlEngines |-> wlModel[e]]
      /\ \A e \in WlEngines : wlPc[e] \in {"off", "active", "answer", "time", "id", "failed"}
  BY <1>1 DEF LoadingTypes
<1>4. wlJob # WlNone => /\ wlJob.engine \in WlEngines /\ wlJob.model \in WlModels /\ wlJob.pieces \in SUBSET Pieces
                        /\ wlJob = [engine |-> wlJob.engine, model |-> wlJob.model, pieces |-> wlJob.pieces]
  BY <1>1 DEF LoadingTypes, Jobs
<1>5. ASSUME NEW e \in WlEngines, UNCHANGED wlInput
      PROVE  (NotAsked(e)' <=> NotAsked(e)) /\ (AskedOnce(e)' <=> AskedOnce(e))
  BY <1>2, <1>5, InputSame
\* What the other engines see.
<1>6. ASSUME NEW e \in WlEngines, wlModel'[e] = wlModel[e], wlOutput'[e] = wlOutput[e],
             NotAsked(e) => NotAsked(e)', AskedOnce(e) => AskedOnce(e)', ~Served(e), ~Served(e)'
      PROVE  InStep(e)'
  BY <1>1, <1>2, <1>6, StaysInStep
<1>7. ASSUME TakeJob PROVE CopiedSoFar' /\ \A e \in WlEngines : InStep(e)'
  <2>20. PICK h \in Loads : h = Head(wlInput)
    <3>1. wlInput \in Seq(Loads) /\ wlInput # <<>>
      BY <1>1, <1>7 DEF LoadingTypes, TakeJob
    <3> QED
      BY <3>1, HeadTailProperties
  <2>21. PICK f \in WlEngines : f = h[2]
    BY DEF Loads
  <2>1. /\ wlJob = WlNone /\ wlInput # <<>> /\ wlInput' = Tail(wlInput) /\ UNCHANGED wlModel
        /\ wlJob' = [engine |-> f, model |-> h[1], pieces |-> Pieces]
        /\ wlOutput' = [wlOutput EXCEPT ![f] = Append(@, "success")]
    BY <1>7, <2>20, <2>21 DEF TakeJob
  <2>2. \A e \in WlEngines :
          /\ (NotAsked(e) => NotAsked(e)' /\ f # e)
          /\ (AskedOnce(e) /\ f # e => AskedOnce(e)')
          /\ (AskedOnce(e) /\ f = e => NotAsked(e)' /\ h = <<wlAsked[e], e>>)
          /\ h \in Loads
    BY <1>1, <1>2, <2>1, <2>20, <2>21, InputTaken
  <2>5. f \in WlEngines /\ h[1] \in WlModels
    BY DEF Loads
  <2>6. wlJob' \in Jobs
    BY <2>1, <2>5 DEF Jobs
  <2>7. wlJob' # WlNone
    BY <2>6, NoneIsNoJob
  <2>8. wlJob'.engine = f /\ wlJob'.model = h[1] /\ wlJob'.pieces = Pieces
    BY <2>1
  <2>9. \A e \in WlEngines : ~Served(e) /\ (Served(e)' <=> e = f)
    BY <2>1, <2>7, <2>8 DEF Served
  <2>10. wlOutput'[f] = Append(wlOutput[f], "success") /\ \A e \in WlEngines : e # f => wlOutput'[e] = wlOutput[e]
    BY <1>3, <2>1, <2>5
  <2>11. ASSUME NEW e \in WlEngines, e # f PROVE InStep(e)'
    BY <1>6, <2>1, <2>2, <2>9, <2>10, <2>11
  <2>12. ~NotAsked(f) /\ ~AtRest(f) /\ ~BeingServed(f) /\ ~Answered(f)
    BY <2>2, <2>5 DEF AtRest, BeingServed, Answered
  <2>13. wlPc[f] \in {"answer", "failed"} /\ (wlPc[f] = "answer" => Queued(f))
    BY <1>1, <1>3, <2>5, <2>12 DEF InStep
  <2>14. InStep(f)'
    <3>1. CASE wlPc[f] = "failed"
      BY <1>2, <3>1 DEF InStep
    <3>2. CASE wlPc[f] = "answer"
      <4>1. AskedOnce(f) /\ wlOutput[f] = Nothing
        BY <2>13, <3>2 DEF Queued
      <4>2. NotAsked(f)' /\ h = <<wlAsked[f], f>> /\ wlOutput'[f] = Accepted
        BY <2>2, <2>5, <2>10, <4>1, Answers
      <4>3. BeingServed(f)' /\ wlJob'.model = wlAsked'[f]
        BY <1>2, <2>5, <2>8, <2>9, <4>2 DEF BeingServed
      <4>4. wlAsked'[f] \in WlModels /\ wlModel'[f] \in Tensors
        BY <1>1, <1>2, <2>1, <2>5, <3>2 DEF InStep
      <4> QED
        BY <1>2, <3>2, <4>2, <4>3, <4>4 DEF InStep
    <3> QED
      BY <2>13, <3>1, <3>2
  <2>15. CopiedSoFar'
    BY <2>8, PiecesCover DEF CopiedSoFar, Covered
  <2> QED
    BY <2>11, <2>14, <2>15
<1>8. ASSUME RefuseJob PROVE CopiedSoFar' /\ \A e \in WlEngines : InStep(e)'
  <2>20. PICK h \in Loads : h = Head(wlInput)
    <3>1. wlInput \in Seq(Loads) /\ wlInput # <<>>
      BY <1>1, <1>8 DEF LoadingTypes, RefuseJob
    <3> QED
      BY <3>1, HeadTailProperties
  <2>21. PICK f \in WlEngines : f = h[2]
    BY DEF Loads
  <2>1. /\ wlJob = WlNone /\ wlInput # <<>> /\ wlInput' = Tail(wlInput) /\ UNCHANGED <<wlModel, wlJob>>
        /\ wlOutput' = [wlOutput EXCEPT ![f] = @ \o <<"none", "error">>]
    BY <1>8, <2>20, <2>21 DEF RefuseJob
  <2>2. \A e \in WlEngines :
          /\ (NotAsked(e) => NotAsked(e)' /\ f # e)
          /\ (AskedOnce(e) /\ f # e => AskedOnce(e)')
          /\ (AskedOnce(e) /\ f = e => NotAsked(e)' /\ h = <<wlAsked[e], e>>)
    BY <1>1, <1>2, <2>1, <2>20, <2>21, InputTaken
  <2>5. f \in WlEngines
    OBVIOUS
  <2>6. \A e \in WlEngines : ~Served(e) /\ ~Served(e)'
    BY <2>1 DEF Served
  <2>7. wlOutput'[f] = wlOutput[f] \o <<"none", "error">> /\ \A e \in WlEngines : e # f => wlOutput'[e] = wlOutput[e]
    BY <1>3, <2>1, <2>5
  <2>8. ASSUME NEW e \in WlEngines, e # f PROVE InStep(e)'
    BY <1>6, <2>1, <2>2, <2>6, <2>7, <2>8
  <2>9. ~NotAsked(f) /\ ~AtRest(f) /\ ~BeingServed(f) /\ ~Answered(f)
    BY <2>2, <2>5 DEF AtRest, BeingServed, Answered
  <2>10. wlPc[f] \in {"answer", "failed"} /\ (wlPc[f] = "answer" => Queued(f))
    BY <1>1, <1>3, <2>5, <2>9 DEF InStep
  <2>11. InStep(f)'
    <3>1. CASE wlPc[f] = "failed"
      BY <1>2, <3>1 DEF InStep
    <3>2. CASE wlPc[f] = "answer"
      <4>1. AskedOnce(f) /\ wlOutput[f] = Nothing
        BY <2>10, <3>2 DEF Queued
      <4>2. NotAsked(f)' /\ wlOutput'[f] = Failure
        <5>1. NotAsked(f)' /\ wlOutput'[f] = Nothing \o <<"none", "error">>
          BY <2>2, <2>5, <2>7, <4>1
        <5> QED
          BY <5>1, Answers
      <4>3. Answered(f)' /\ ~Served(f)'
        BY <2>5, <2>6, <4>2 DEF Answered
      <4>4. wlAsked'[f] \in WlModels /\ wlModel'[f] \in Tensors
        BY <1>1, <1>2, <2>1, <2>5, <3>2 DEF InStep
      <4> QED
        BY <1>2, <3>2, <4>2, <4>3, <4>4 DEF InStep
    <3> QED
      BY <2>10, <3>1, <3>2
  <2>12. CopiedSoFar'
    BY <2>1 DEF CopiedSoFar
  <2> QED
    BY <2>8, <2>11, <2>12
\* An engine that the service is at.
<1>9. ASSUME wlJob # WlNone
      PROVE  /\ \A e \in WlEngines : Served(e) <=> e = wlJob.engine
             /\ wlPc[wlJob.engine] \in {"answer", "time", "failed"}
             /\ wlPc[wlJob.engine] # "failed" =>
                  /\ NotAsked(wlJob.engine) /\ wlJob.model = wlAsked[wlJob.engine]
                  /\ wlAsked[wlJob.engine] \in WlModels /\ wlModel[wlJob.engine] \in Tensors
                  /\ wlPc[wlJob.engine] = "answer" => wlOutput[wlJob.engine] = Accepted
                  /\ wlPc[wlJob.engine] = "time" => wlOutput[wlJob.engine] = Nothing
  <2> DEFINE f == wlJob.engine
  <2>1. f \in WlEngines /\ \A e \in WlEngines : Served(e) <=> e = f
    BY <1>4, <1>9 DEF Served
  <2>2. ~AtRest(f) /\ ~Queued(f) /\ ~Answered(f)
    BY <2>1 DEF AtRest, Queued, Answered
  <2> HIDE DEF f
  <2>3. wlPc[f] \in {"answer", "time", "failed"}
    BY <1>1, <1>3, <2>1, <2>2 DEF InStep
  <2>4. wlPc[f] # "failed" => /\ wlJob.model = wlAsked[f] /\ wlAsked[f] \in WlModels /\ wlModel[f] \in Tensors
                              /\ BeingServed(f)
                              /\ (wlPc[f] = "answer" => wlOutput[f] = Accepted)
                              /\ (wlPc[f] = "time" => wlOutput[f] = Nothing)
    BY <1>1, <2>1, <2>2, <2>3 DEF InStep
  <2> QED
    BY <2>1, <2>3, <2>4 DEF f, BeingServed
<1>10. ASSUME NEW p \in Pieces, GpuTransfer(p) PROVE CopiedSoFar' /\ \A e \in WlEngines : InStep(e)'
  <2>21. PICK f \in WlEngines : f = wlJob.engine
    BY <1>4, <1>10 DEF GpuTransfer
  <2>1. /\ wlJob # WlNone /\ p \in wlJob.pieces /\ wlJob' = [wlJob EXCEPT !.pieces = @ \ {p}]
        /\ UNCHANGED <<wlInput, wlOutput>>
        /\ wlModel' = IF wlModel[f] = WlNone THEN wlModel
                      ELSE [wlModel EXCEPT ![f] =
                             [i \in 1..WlRows |-> IF p[1] < i /\ i <= p[2] THEN wlJob.model ELSE @[i]]]
    BY <1>10, <2>21 DEF GpuTransfer
  <2>2. f \in WlEngines /\ wlJob \in Jobs
    BY <1>1, <2>1 DEF LoadingTypes
  <2>3. wlJob' \in Jobs /\ wlJob'.engine = f /\ wlJob'.model = wlJob.model /\ wlJob'.pieces = wlJob.pieces \ {p}
    BY <2>1, <2>2, <2>21 DEF Jobs
  <2>4. wlJob' # WlNone
    BY <2>3, NoneIsNoJob
  <2>5. \A e \in WlEngines : Served(e)' <=> e = f
    BY <2>3, <2>4 DEF Served
  <2>6. \A e \in WlEngines : e # f => wlModel'[e] = wlModel[e]
    BY <1>3, <2>1
  <2>7. ASSUME NEW e \in WlEngines, e # f PROVE InStep(e)'
    <3>1. ~Served(e) /\ ~Served(e)'
      BY <1>9, <2>1, <2>5, <2>7, <2>21
    <3> QED
      BY <1>5, <1>6, <2>1, <2>6, <2>7, <3>1
  <2>8. CASE wlPc[f] = "failed"
    <3>1. InStep(f)'
      BY <1>2, <2>8 DEF InStep
    <3>2. CopiedSoFar'
      BY <1>2, <2>3, <2>8 DEF CopiedSoFar
    <3> QED
      BY <2>7, <3>1, <3>2
  <2>9. CASE wlPc[f] # "failed"
    <3>1. /\ wlModel[f] \in [1..WlRows -> WlModels \cup {WlNone}] /\ wlModel[f] # WlNone
          /\ wlJob.model \in WlModels
      BY <1>4, <1>9, <2>1, <2>9, <2>21, NoneIsNoJob DEF Tensors
    <3>2. wlModel'[f] = [i \in 1..WlRows |-> IF p[1] < i /\ i <= p[2] THEN wlJob.model ELSE wlModel[f][i]]
      BY <1>3, <2>1, <2>2, <3>1
    <3>3. wlModel'[f] \in Tensors
      BY <3>1, <3>2 DEF Tensors
    <3>4. BeingServed(f)' /\ wlJob'.model = wlAsked'[f] /\ wlAsked'[f] \in WlModels
      BY <1>2, <1>5, <1>9, <2>1, <2>2, <2>3, <2>5, <2>9, <2>21 DEF BeingServed
    <3>5. InStep(f)'
      BY <1>2, <1>9, <2>1, <2>9, <2>21, <3>3, <3>4 DEF InStep
    <3>6. ASSUME NEW i \in 1..WlRows PROVE Covered(i)' \/ wlModel'[f][i] = wlJob'.model
      <4>1. CASE p[1] < i /\ i <= p[2]
        BY <2>3, <3>2, <4>1
      <4>2. CASE ~(p[1] < i /\ i <= p[2])
        <5>1. wlModel'[f][i] = wlModel[f][i]
          BY <3>2, <4>2
        <5>2. Covered(i) \/ wlModel[f][i] = wlJob.model
          BY <1>1, <2>1, <2>9, <2>21 DEF CopiedSoFar
        <5>3. Covered(i) => Covered(i)'
          BY <2>3, <4>2 DEF Covered
        <5> QED
          BY <2>3, <5>1, <5>2, <5>3
      <4> QED
        BY <4>1, <4>2
    <3>7. CopiedSoFar'
      BY <2>3, <3>6 DEF CopiedSoFar
    <3> QED
      BY <2>7, <3>5, <3>7
  <2> QED
    BY <2>8, <2>9
<1>11. ASSUME JobDone \/ JobFails PROVE CopiedSoFar' /\ \A e \in WlEngines : InStep(e)'
  <2>21. PICK f \in WlEngines : f = wlJob.engine
    BY <1>4, <1>11 DEF JobDone, Copied, JobFails
  <2>1. wlJob # WlNone /\ wlJob' = WlNone /\ UNCHANGED <<wlInput, wlModel>> /\ f \in WlEngines
    BY <1>4, <1>11 DEF JobDone, Copied, JobFails
  <2>2. /\ \/ wlJob.pieces = {} /\ wlOutput'[f] = wlOutput[f] \o <<"time", "id">>
           \/ wlOutput'[f] = wlOutput[f] \o <<"none", "error">>
        /\ \A e \in WlEngines : e # f => wlOutput'[e] = wlOutput[e]
    BY <1>3, <1>11, <2>1, <2>21 DEF JobDone, Copied, JobFails
  <2>3. \A e \in WlEngines : ~Served(e)'
    BY <2>1 DEF Served
  <2>4. ASSUME NEW e \in WlEngines, e # f PROVE InStep(e)'
    <3>1. ~Served(e)
      BY <1>9, <2>21, <2>1, <2>4, <2>21
    <3> QED
      BY <1>5, <1>6, <2>1, <2>2, <2>3, <2>4, <3>1
  <2>5. InStep(f)'
    <3>1. CASE wlPc[f] = "failed"
      BY <1>2, <2>1, <3>1 DEF InStep
    <3>2. CASE wlPc[f] # "failed"
      <4>1. Answered(f)' /\ wlAsked'[f] \in WlModels /\ wlModel'[f] \in Tensors
        BY <1>2, <1>5, <1>9, <2>21, <2>1, <2>3, <3>2 DEF Answered
      <4>2. ASSUME wlJob.pieces = {} PROVE Loaded(f)'
        <5>1. \A i \in 1..WlRows : wlModel[f][i] = wlAsked[f]
          BY <1>1, <1>9, <2>21, <2>1, <3>2, <4>2 DEF CopiedSoFar, Covered
        <5>2. wlModel'[f] = [i \in 1..WlRows |-> wlAsked'[f]]
          BY <1>2, <2>1, <4>1, <5>1 DEF Tensors
        <5> QED
          BY <5>2 DEF Loaded, Rows
      <4>3. CASE wlPc[f] = "answer"
        <5>1. \/ wlOutput'[f] = Complete /\ Loaded(f)'
              \/ wlOutput'[f] = Incomplete
          BY <1>9, <2>21, <2>1, <2>2, <4>2, <4>3, Answers
        <5> QED
          BY <1>2, <2>1, <2>3, <4>1, <4>3, <5>1 DEF InStep
      <4>4. CASE wlPc[f] = "time"
        <5>1. \/ wlOutput'[f] = Finished /\ Loaded(f)'
              \/ wlOutput'[f] = Failure
          BY <1>9, <2>21, <2>1, <2>2, <4>2, <4>4, Answers
        <5> QED
          BY <1>2, <2>1, <2>3, <4>1, <4>4, <5>1 DEF InStep
      <4> QED
        BY <1>9, <2>21, <2>1, <3>2, <4>3, <4>4
    <3> QED
      BY <3>1, <3>2
  <2>6. CopiedSoFar'
    BY <2>1 DEF CopiedSoFar
  <2> QED
    BY <2>4, <2>5, <2>6
<1> QED
  BY <1>7, <1>8, <1>10, <1>11
-------------------------------------------------------------------------------
\* The invariant is inductive.
LEMMA LoadingKept == LoadingInv /\ [LoadingNext]_loadingVars => LoadingInv'
<1> SUFFICES ASSUME LoadingInv, [LoadingNext]_loadingVars PROVE LoadingInv'
  OBVIOUS
<1>1. CASE LoadingNext
  <2>1. LoadingTypes' /\ UNCHANGED wlWay
    <3>1. LoadingTypes'
      BY <1>1, TypesKept
    <3>2. UNCHANGED wlWay
      BY <1>1 DEF LoadingNext, ServiceStep, RunnerStep, TakeJob, GpuTransfer, JobDone, RefuseJob, JobFails, InitDict,
           InitModel, ReadAnswer, ReadTime, ReadServiceId, Timeout, DeactivateRunner, ActivateRunner, Transfer,
           LoadStateDict
    <3> QED
      BY <3>1, <3>2
  <2>2. CASE wlWay # "service"
    <3>1. /\ NoService'
          /\ wlWay = "sync" => NoThreads' /\ \A e \in WlEngines : wlPc'[e] = "active" => Loaded(e)'
      BY <1>1, <2>2, WithoutService
    <3>2. wlWay' \in {"sync", "async"}
      BY <2>1, <2>2 DEF LoadingTypes
    <3> QED
      BY <2>1, <2>2, <3>1, <3>2 DEF LoadingInv
  <2>3. CASE wlWay = "service"
    <3>1. NoThreads'
      BY <1>1, <2>3, NoThreadsKept
    <3>2. ASSUME NEW f \in WlEngines
          PROVE  /\ ~(InitDict(f) \/ InitModel(f))
                 /\ \A i \in DOMAIN wlThread[f] : ~(Transfer(f, i) \/ LoadStateDict(f, i))
      <4>1. wlThread[f] = <<>> /\ wlPc[f] \notin {"dict", "build"}
        BY <2>3 DEF LoadingInv, NoThreads
      <4> QED
        BY <4>1 DEF InitDict, InitModel, Transfer, LoadStateDict
    <3>3. CopiedSoFar' /\ \A e \in WlEngines : InStep(e)'
      <4>1. ASSUME NEW f \in WlEngines,
                   \/ \E m \in WlModels : ActivateRunner(f, m)
                   \/ ReadAnswer(f) \/ ReadTime(f) \/ ReadServiceId(f) \/ Timeout(f) \/ DeactivateRunner(f)
            PROVE  CopiedSoFar' /\ \A e \in WlEngines : InStep(e)'
        BY <2>1, <2>3, <4>1, EngineKeepsStep
      <4>2. ASSUME TakeJob \/ RefuseJob \/ (\E p \in Pieces : GpuTransfer(p)) \/ JobDone \/ JobFails
            PROVE  CopiedSoFar' /\ \A e \in WlEngines : InStep(e)'
        BY <2>1, <2>3, <4>2, ServiceKeepsStep
      <4> QED
        BY <1>1, <3>2, <4>1, <4>2 DEF LoadingNext, ServiceStep, RunnerStep
    <3> QED
      BY <2>1, <2>3, <3>1, <3>3 DEF LoadingInv
  <2> QED
    BY <2>2, <2>3
<1>2. CASE UNCHANGED loadingVars
  <2>1. UNCHANGED <<wlWay, wlPc, wlAsked, wlModel, wlThread, wlInput, wlJob, wlOutput, wlTime>>
    BY <1>2 DEF loadingVars
  <2>2. (LoadingTypes' <=> LoadingTypes) /\ (NoService' <=> NoService) /\ (NoThreads' <=> NoThreads)
    BY <2>1 DEF LoadingTypes, NoService, NoThreads
  <2>3. CopiedSoFar' <=> CopiedSoFar
    BY <2>1 DEF CopiedSoFar, Covered
  <2>4. ASSUME NEW e \in WlEngines PROVE (Loaded(e)' <=> Loaded(e)) /\ (InStep(e) => InStep(e)')
    <3>1. (NotAsked(e)' <=> NotAsked(e)) /\ (AskedOnce(e)' <=> AskedOnce(e))
      BY <2>1, InputSame
    <3>2. (Served(e)' <=> Served(e)) /\ (Loaded(e)' <=> Loaded(e))
      BY <2>1 DEF Served, Loaded, Rows
    <3> QED
      BY <2>1, <3>1, <3>2, StaysInStep
  <2> QED
    BY <2>1, <2>2, <2>3, <2>4 DEF LoadingInv
<1> QED
  BY <1>1, <1>2

\* It holds in every state.
LEMMA LoadingInvariant == LoadingSpec => []LoadingInv
<1> QED
  BY LoadingStarts, LoadingKept, PTL DEF LoadingSpec

\* The three messages of an answer are read by the load they belong to: an
\* engine that is off or active has no request with the service and no answer
\* left over, however many engines share the service and whichever copies fail.
THEOREM AnswersRead == LoadingSpec => []AnswersInStep
<1>1. ASSUME LoadingInv PROVE AnswersInStep
  <2> SUFFICES ASSUME NEW e \in WlEngines, wlPc[e] \in {"off", "active"}
               PROVE  /\ wlOutput[e] = <<>> /\ ~(wlJob # WlNone /\ wlJob.engine = e)
                      /\ \A i \in DOMAIN wlInput : wlInput[i][2] # e
    BY DEF AnswersInStep
  <2>1. CASE wlWay = "service"
    BY <1>1, <2>1 DEF LoadingInv, InStep, AtRest, NotAsked, Served, Nothing
  <2>2. CASE wlWay # "service"
    BY <1>1, <2>2 DEF LoadingInv, NoService, Nothing
  <2> QED
    BY <2>1, <2>2
<1> QED
  BY <1>1, LoadingInvariant, PTL

\* Without async_loading an active engine runs on the whole weights of the
\* model it was activated for: no row is left from before, or of another model.
THEOREM WeightsAreOwn == LoadingSpec => []OwnWeightsUnlessAsync
<1>1. ASSUME LoadingInv PROVE OwnWeightsUnlessAsync
  <2> SUFFICES ASSUME wlWay # "async", NEW e \in WlEngines, wlPc[e] = "active" PROVE Loaded(e)
    BY DEF OwnWeightsUnlessAsync, OwnWeights, Loaded
  <2>1. CASE wlWay = "service"
    BY <1>1, <2>1 DEF LoadingInv, InStep
  <2>2. CASE wlWay = "sync"
    BY <1>1, <2>2 DEF LoadingInv
  <2> QED
    BY <1>1, <2>1, <2>2 DEF LoadingInv, LoadingTypes
<1> QED
  BY <1>1, LoadingInvariant, PTL
-------------------------------------------------------------------------------
(***************************************************************************)
(* What the policy asserts at every round, "at most one active instance of *)
(* a model", for any number of models and GPUs and any loads: it holds of  *)
(* a model as long as no deactivation of it has failed, although the two   *)
(* calls of a migration are made in parallel.  The reason is what a round  *)
(* may ask for one model, whichever GPU it chooses: where the model would  *)
(* be ACTIVE when all calls had returned is, at any time, one GPU.         *)
(***************************************************************************)
Calls == {Activation(m, g) : m \in CtModels, g \in CtGPUs} \cup {Deactivation(m, g) : m \in CtModels, g \in CtGPUs}

ControllerTypes ==
  /\ ctView \in [CtModels -> SUBSET CtGPUs]
  /\ ctCalls \subseteq Calls
  /\ ctPc # "execute" => ctCalls = {}

\* The GPUs that a model is to be activated on, or deactivated from, by calls
\* that have not returned, and those where it is ACTIVE once they have.
ToCome(m) == {g \in CtGPUs : Activation(m, g) \in ctCalls}
ToGo(m) == {g \in CtGPUs : Deactivation(m, g) \in ctCalls}
Final(m) == (ctView[m] \ ToGo(m)) \cup ToCome(m)

AtMostOne(S) == \A g, h \in S : g = h

OnePlaceEach ==
  \A m \in CtModels :
    <<"deactivate", m>> \notin ctFailures => AtMostOne(Final(m)) /\ ToCome(m) \cap ToGo(m) = {}

PlacementInv == ControllerTypes /\ OnePlaceEach
-------------------------------------------------------------------------------
\* Being at most one is having a cardinality of at most one.
LEMMA AtMostOneCounts ==
  ASSUME NEW S \in SUBSET CtGPUs
  PROVE  AtMostOne(S) <=> Cardinality(S) <= 1
<1>1. IsFiniteSet(S)
  BY ControllerAssumption, FS_Subset
<1>2. CASE S = {}
  BY <1>2, FS_EmptySet DEF AtMostOne
<1>3. CASE S # {}
  <2>1. PICK g \in S : TRUE
    BY <1>3
  <2>2. IsFiniteSet(S \ {g}) /\ Cardinality(S \ {g}) = Cardinality(S) - 1 /\ Cardinality(S) \in Nat
    BY <1>1, <2>1, FS_RemoveElement, FS_CardinalityType
  <2>3. Cardinality(S \ {g}) \in Nat /\ (Cardinality(S \ {g}) = 0 <=> S \ {g} = {})
    BY <2>2, FS_EmptySet, FS_CardinalityType
  <2>4. S \ {g} = {} <=> AtMostOne(S)
    BY <2>1 DEF AtMostOne
  <2> QED
    BY <2>2, <2>3, <2>4
<1> QED
  BY <1>2, <1>3

\* What a call is, by its fields.
LEMMA CallFields ==
  ASSUME NEW m, NEW g
  PROVE  /\ Activation(m, g).type = "activate" /\ Activation(m, g).model = m /\ Activation(m, g).gpu = g
         /\ Deactivation(m, g).type = "deactivate" /\ Deactivation(m, g).model = m /\ Deactivation(m, g).gpu = g
BY DEF Activation, Deactivation

\* The placements the models start from are one GPU each.
LEMMA PlacementStarts == ControllerInit => PlacementInv
<1> SUFFICES ASSUME ControllerInit PROVE PlacementInv
  OBVIOUS
<1>1. ControllerTypes
  BY ControllerAssumption DEF ControllerInit, ControllerTypes
<1>2. ASSUME NEW m \in CtModels PROVE AtMostOne(Final(m)) /\ ToCome(m) \cap ToGo(m) = {}
  <2>1. ToCome(m) = {} /\ ToGo(m) = {} /\ Final(m) = CtPlacement[m]
    BY DEF ControllerInit, ToCome, ToGo, Final
  <2>2. CtPlacement[m] \in SUBSET CtGPUs /\ Cardinality(CtPlacement[m]) <= 1
    BY ControllerAssumption
  <2> QED
    BY <2>1, <2>2, AtMostOneCounts
<1> QED
  BY <1>1, <1>2 DEF PlacementInv, OnePlaceEach
-------------------------------------------------------------------------------
(* The calls of a round *)

\* What a round asks for a model: its deactivation where it is, or one migration,
\* or its activation somewhere if it is nowhere.
LEMMA PlanForModel ==
  ASSUME ControllerTypes, NEW Idle \in SUBSET CtModels, Plan(Idle), NEW m \in CtModels
  PROVE  /\ ctCalls' \subseteq Calls
         /\ \/ ToCome(m)' = {} /\ ToGo(m)' = {}
            \/ ToCome(m)' = {} /\ ToGo(m)' = ctView[m]
            \/ \E g, h \in CtGPUs : g # h /\ g \in ctView[m] /\ ToGo(m)' = {g} /\ ToCome(m)' = {h}
            \/ ctView[m] = {} /\ ToGo(m)' = {} /\ \E g \in CtGPUs : ToCome(m)' = {g}
<1> DEFINE Evicted == UNION {{Deactivation(n, g) : g \in ctView[n]} : n \in Idle}
           Migrated(moves) == UNION {{Deactivation(c[1], c[2]), Activation(c[1], c[3])} : c \in {c \in moves : c[1] \notin Idle}}
           Started(placed) == UNION {{Activation(n, g) : g \in placed[n]} : n \in Pending}
<1>1. PICK smooth \in Averages :
        \E moves \in IF Migrations(smooth) = {} THEN {{}} ELSE {WithWorker({c}) : c \in Migrations(smooth)} :
        \E placed \in Placements(moves) : ctCalls' = Evicted \cup Migrated(moves) \cup Started(placed)
  BY DEF Plan
<1>2. PICK moves \in IF Migrations(smooth) = {} THEN {{}} ELSE {WithWorker({c}) : c \in Migrations(smooth)} :
        \E placed \in Placements(moves) : ctCalls' = Evicted \cup Migrated(moves) \cup Started(placed)
  BY <1>1
<1>3. PICK placed \in Placements(moves) : ctCalls' = Evicted \cup Migrated(moves) \cup Started(placed)
  BY <1>2
<1>4. placed \in [Pending -> {{}} \cup {{g} : g \in CtGPUs}]
  BY DEF Placements
<1>5. /\ Idle \subseteq {n \in CtModels : ctLoad[n] = 0}
      /\ \A n \in CtModels : ctView[n] \subseteq CtGPUs
  BY DEF Plan, ControllerTypes
<1>6. Pending \subseteq CtModels /\ \A n \in Pending : n \notin Idle /\ ctView[n] = {}
  BY <1>5 DEF Pending
<1>7. /\ \A c \in moves : /\ c[1] \in CtModels /\ c[2] \in CtGPUs /\ c[3] \in CtGPUs
                          /\ c[2] # c[3] /\ c[2] \in ctView[c[1]]
      /\ \A c, d \in moves : c = d
  <2>1. CASE Migrations(smooth) = {}
    BY <1>2, <2>1
  <2>2. CASE Migrations(smooth) # {}
    <3>1. PICK c \in Migrations(smooth) : moves = WithWorker({c})
      BY <1>2, <2>2
    <3>2. moves \subseteq {c}
      BY <3>1 DEF WithWorker
    <3>3. /\ c[1] \in CtModels /\ c[2] \in CtGPUs /\ c[3] \in CtGPUs
          /\ c[2] # c[3] /\ c[2] \in ctView[c[1]]
      BY <3>1 DEF Migrations
    <3> QED
      BY <3>2, <3>3
  <2> QED
    BY <2>1, <2>2
\* Who is called.
<1>8. ASSUME NEW n \in CtModels, NEW g \in CtGPUs
      PROVE  /\ Deactivation(n, g) \in ctCalls' <=>
                  \/ n \in Idle /\ g \in ctView[n]
                  \/ n \notin Idle /\ \E c \in moves : c[1] = n /\ c[2] = g
             /\ Activation(n, g) \in ctCalls' <=>
                  \/ n \notin Idle /\ \E c \in moves : c[1] = n /\ c[3] = g
                  \/ n \in Pending /\ g \in placed[n]
  <2>1. \A a, b : /\ (Deactivation(a, b) = Deactivation(n, g) <=> a = n /\ b = g)
                  /\ (Activation(a, b) = Activation(n, g) <=> a = n /\ b = g)
                  /\ Activation(a, b) # Deactivation(n, g) /\ Deactivation(a, b) # Activation(n, g)
    BY CallFields
  <2>2. /\ (Deactivation(n, g) \in Evicted <=> n \in Idle /\ g \in ctView[n])
        /\ Activation(n, g) \notin Evicted
    BY <2>1
  <2>3. \A x : x \in Migrated(moves) <=>
          \E c \in moves : c[1] \notin Idle /\ (x = Deactivation(c[1], c[2]) \/ x = Activation(c[1], c[3]))
    OBVIOUS
  <2>4. /\ Deactivation(n, g) \in Migrated(moves) <=> n \notin Idle /\ \E c \in moves : c[1] = n /\ c[2] = g
        /\ Activation(n, g) \in Migrated(moves) <=> n \notin Idle /\ \E c \in moves : c[1] = n /\ c[3] = g
    <3> HIDE DEF Migrated
    <3> QED
      BY <2>1, <2>3
  <2>5. /\ (Activation(n, g) \in Started(placed) <=> n \in Pending /\ g \in placed[n])
        /\ Deactivation(n, g) \notin Started(placed)
    BY <2>1
  <2> HIDE DEF Evicted, Migrated, Started
  <2> QED
    BY <1>3, <2>2, <2>4, <2>5
<1>9. ctCalls' \subseteq Calls
  <2>1. Evicted \subseteq Calls
    BY <1>5 DEF Calls
  <2>2. Migrated(moves) \subseteq Calls
    BY <1>7 DEF Calls
  <2>3. Started(placed) \subseteq Calls
    BY <1>4, <1>6 DEF Calls
  <2> QED
    BY <1>3, <2>1, <2>2, <2>3
<1> HIDE DEF Evicted, Migrated, Started
<1>10. /\ ToGo(m)' = {g \in CtGPUs : \/ m \in Idle /\ g \in ctView[m]
                                     \/ m \notin Idle /\ \E c \in moves : c[1] = m /\ c[2] = g}
       /\ ToCome(m)' = {g \in CtGPUs : \/ m \notin Idle /\ \E c \in moves : c[1] = m /\ c[3] = g
                                       \/ m \in Pending /\ g \in placed[m]}
  BY <1>8 DEF ToGo, ToCome
<1>11. CASE m \in Idle
  <2>1. ToCome(m)' = {} /\ ToGo(m)' = ctView[m]
    BY <1>5, <1>6, <1>10, <1>11
  <2> QED
    BY <1>9, <2>1
<1>12. CASE m \notin Idle /\ \E c \in moves : c[1] = m
  <2>1. PICK c \in moves : c[1] = m
    BY <1>12
  <2>2. \A d \in moves : d = c
    BY <1>7, <2>1
  <2>3. c[2] \in CtGPUs /\ c[3] \in CtGPUs /\ c[2] # c[3] /\ c[2] \in ctView[m] /\ m \notin Pending
    BY <1>6, <1>7, <2>1
  <2>4. ToGo(m)' = {c[2]} /\ ToCome(m)' = {c[3]}
    BY <1>10, <1>12, <2>1, <2>2, <2>3
  <2> QED
    BY <1>9, <2>3, <2>4
<1>13. CASE m \notin Idle /\ \A c \in moves : c[1] # m
  <2>1. ToGo(m)' = {} /\ ToCome(m)' = {g \in CtGPUs : m \in Pending /\ g \in placed[m]}
    BY <1>10, <1>13
  <2>2. CASE m \in Pending
    <3>1. placed[m] = {} \/ \E g \in CtGPUs : placed[m] = {g}
      BY <1>4, <2>2
    <3> QED
      BY <1>6, <1>9, <2>1, <2>2, <3>1
  <2>3. CASE m \notin Pending
    BY <1>9, <2>1, <2>3
  <2> QED
    BY <2>2, <2>3
<1> QED
  BY <1>11, <1>12, <1>13

\* A round begins with the model on one GPU at most, and asks for one at most.
LEMMA PlanKeeps ==
  ASSUME PlacementInv, NEW Idle \in SUBSET CtModels, Plan(Idle)
  PROVE  PlacementInv'
<1>1. /\ ControllerTypes /\ UNCHANGED <<ctView, ctFailures>> /\ ctPc' = "execute"
      /\ \A m \in CtModels : Cardinality(ctView[m]) <= 1
  BY DEF Plan, PlacementInv
<1>2. ASSUME NEW m \in CtModels PROVE AtMostOne(Final(m))' /\ (ToCome(m) \cap ToGo(m) = {})' /\ ctCalls' \subseteq Calls
  <2>1. ctView[m] \in SUBSET CtGPUs /\ ctView'[m] = ctView[m]
    BY <1>1 DEF ControllerTypes
  <2>2. AtMostOne(ctView[m])
    BY <1>1, <2>1, AtMostOneCounts
  <2>3. Final(m)' = (ctView[m] \ ToGo(m)') \cup ToCome(m)'
    BY <2>1 DEF Final
  <2>4. /\ ctCalls' \subseteq Calls
        /\ \/ ToCome(m)' = {} /\ ToGo(m)' = {}
           \/ ToCome(m)' = {} /\ ToGo(m)' = ctView[m]
           \/ \E g, h \in CtGPUs : g # h /\ g \in ctView[m] /\ ToGo(m)' = {g} /\ ToCome(m)' = {h}
           \/ ctView[m] = {} /\ ToGo(m)' = {} /\ \E g \in CtGPUs : ToCome(m)' = {g}
    BY <1>1, PlanForModel
  <2>5. AtMostOne(Final(m)') /\ ToCome(m)' \cap ToGo(m)' = {}
    BY <2>2, <2>3, <2>4 DEF AtMostOne
  <2> QED
    BY <2>4, <2>5 DEF AtMostOne
<1>3. ctCalls' \subseteq Calls
  <2>1. CASE CtModels = {}
    <3>1. ctCalls' = {}
      BY <2>1 DEF Plan, Migrations, WithWorker, Pending
    <3> QED
      BY <3>1
  <2>2. CASE CtModels # {}
    BY <1>2, <2>2
  <2> QED
    BY <2>1, <2>2
<1>4. ControllerTypes'
  BY <1>1, <1>3 DEF ControllerTypes
<1> QED
  BY <1>2, <1>4 DEF PlacementInv, OnePlaceEach
-------------------------------------------------------------------------------
(* A call returns, or fails. *)

\* A call that returns moves its GPU from what is to come to what is there, or takes it out.
LEMMA ExecutesKeeps ==
  ASSUME PlacementInv, NEW c \in ctCalls, Executes(c)
  PROVE  PlacementInv'
<1>1. /\ ctView \in [CtModels -> SUBSET CtGPUs] /\ ctCalls \subseteq Calls
      /\ ctCalls' = ctCalls \ {c} /\ ctView' = [ctView EXCEPT ![c.model] = Noted(c)]
      /\ UNCHANGED <<ctFailures, ctPc>> /\ (ctPc # "execute" => ctCalls = {})
  BY DEF PlacementInv, ControllerTypes, Executes
<1>2. PICK n \in CtModels, k \in CtGPUs : c = Activation(n, k) \/ c = Deactivation(n, k)
  BY <1>1 DEF Calls
<1>3. c.model = n /\ c.gpu = k
  BY <1>2, CallFields
<1>4. /\ \A m \in CtModels, g \in CtGPUs : Activation(m, g) = Activation(n, k) => m = n /\ g = k
      /\ \A m \in CtModels, g \in CtGPUs : Deactivation(m, g) = Deactivation(n, k) => m = n /\ g = k
      /\ \A m \in CtModels, g \in CtGPUs : Activation(m, g) # Deactivation(n, k) /\ Deactivation(m, g) # Activation(n, k)
  BY CallFields
<1>5. Noted(c) \subseteq CtGPUs
  BY <1>1, <1>3 DEF Noted
<1>6. ControllerTypes'
  BY <1>1, <1>3, <1>5 DEF ControllerTypes
<1>7. ASSUME NEW m \in CtModels, m # n PROVE ToCome(m)' = ToCome(m) /\ ToGo(m)' = ToGo(m) /\ Final(m)' = Final(m)
  <2>1. ctView'[m] = ctView[m]
    BY <1>1, <1>3, <1>7
  <2>2. ToCome(m)' = ToCome(m) /\ ToGo(m)' = ToGo(m)
    BY <1>1, <1>2, <1>4, <1>7 DEF ToCome, ToGo
  <2> QED
    BY <2>1, <2>2 DEF Final
<1>8. ctView'[n] = Noted(c)
  BY <1>1, <1>3
<1>9. CASE c = Activation(n, k)
  <2>1. ctView'[n] = ctView[n] \cup {k}
    BY <1>3, <1>8, <1>9, CallFields DEF Noted
  <2>2. ToCome(n)' = ToCome(n) \ {k} /\ ToGo(n)' = ToGo(n) /\ k \in ToCome(n)
    BY <1>1, <1>4, <1>9 DEF ToCome, ToGo
  <2>3. ToCome(n) \cap ToGo(n) = {} => Final(n)' = Final(n) /\ ToCome(n)' \cap ToGo(n)' = {}
    BY <2>1, <2>2 DEF Final
  <2> QED
    BY <1>1, <1>6, <1>7, <2>3 DEF PlacementInv, OnePlaceEach
<1>10. CASE c = Deactivation(n, k)
  <2>1. ctView'[n] = ctView[n] \ {k}
    BY <1>3, <1>8, <1>10, CallFields DEF Noted
  <2>2. ToCome(n)' = ToCome(n) /\ ToGo(n)' = ToGo(n) \ {k} /\ k \in ToGo(n)
    BY <1>1, <1>4, <1>10 DEF ToCome, ToGo
  <2>3. Final(n)' = Final(n) /\ (ToCome(n) \cap ToGo(n) = {} => ToCome(n)' \cap ToGo(n)' = {})
    BY <2>1, <2>2 DEF Final
  <2> QED
    BY <1>1, <1>6, <1>7, <2>3 DEF PlacementInv, OnePlaceEach
<1> QED
  BY <1>2, <1>9, <1>10

\* A call that fails is excepted by the failures noted.
LEMMA FailsKeeps ==
  ASSUME PlacementInv, NEW c \in ctCalls, Fails(c)
  PROVE  PlacementInv'
<1>1. /\ ctView \in [CtModels -> SUBSET CtGPUs] /\ ctCalls \subseteq Calls
      /\ ctCalls' = ctCalls \ {c} /\ ctFailures' = ctFailures \cup {<<c.type, c.model>>}
      /\ UNCHANGED <<ctView, ctPc>> /\ (ctPc # "execute" => ctCalls = {})
  BY DEF PlacementInv, ControllerTypes, Fails
<1>2. PICK n \in CtModels, k \in CtGPUs : c = Activation(n, k) \/ c = Deactivation(n, k)
  BY <1>1 DEF Calls
<1>3. ControllerTypes'
  BY <1>1 DEF ControllerTypes
<1>4. ASSUME NEW m \in CtModels, <<"deactivate", m>> \notin ctFailures'
      PROVE  AtMostOne(Final(m))' /\ (ToCome(m) \cap ToGo(m) = {})'
  <2>1. AtMostOne(Final(m)) /\ ToCome(m) \cap ToGo(m) = {}
    BY <1>1, <1>4 DEF PlacementInv, OnePlaceEach
  <2>2. ToGo(m)' = ToGo(m)
    <3>1. ASSUME NEW g \in CtGPUs PROVE Deactivation(m, g) # c
      BY <1>1, <1>4, CallFields
    <3> QED
      BY <1>1, <3>1 DEF ToGo
  <2>3. ToCome(m)' \subseteq ToCome(m)
    BY <1>1 DEF ToCome
  <2>4. Final(m)' \subseteq Final(m)
    BY <1>1, <2>2, <2>3 DEF Final
  <2> QED
    BY <2>1, <2>2, <2>3, <2>4 DEF AtMostOne
<1> QED
  BY <1>3, <1>4 DEF PlacementInv, OnePlaceEach
-------------------------------------------------------------------------------
\* The invariant is inductive.
LEMMA PlacementKept == PlacementInv /\ [ControllerNext]_controllerVars => PlacementInv'
<1> SUFFICES ASSUME PlacementInv, [ControllerNext]_controllerVars PROVE PlacementInv'
  OBVIOUS
<1>1. ASSUME UNCHANGED <<ctView, ctCalls, ctFailures>>, ctPc' # "execute" => ctCalls = {} PROVE PlacementInv'
  BY <1>1 DEF PlacementInv, ControllerTypes, OnePlaceEach, Final, ToCome, ToGo, AtMostOne
<1>2. ASSUME NEW Idle \in SUBSET CtModels, Plan(Idle) PROVE PlacementInv'
  BY <1>2, PlanKeeps
<1>3. ASSUME AssertionFails PROVE PlacementInv'
  BY <1>1, <1>3 DEF AssertionFails, PlacementInv, ControllerTypes
<1>4. ASSUME RoundEnds PROVE PlacementInv'
  BY <1>1, <1>4 DEF RoundEnds
<1>5. ASSUME NEW c \in ctCalls, Executes(c) \/ Fails(c) PROVE PlacementInv'
  BY <1>5, ExecutesKeeps, FailsKeeps
<1>6. ASSUME NEW g \in CtGPUs, Obeys(g) PROVE PlacementInv'
  BY <1>1, <1>6 DEF Obeys, PlacementInv, ControllerTypes
<1>7. ASSUME NEW m \in CtModels, Arrives(m) \/ Ends(m) PROVE PlacementInv'
  BY <1>1, <1>7 DEF Arrives, Ends, PlacementInv, ControllerTypes
<1>8. ASSUME UNCHANGED controllerVars PROVE PlacementInv'
  BY <1>1, <1>8 DEF controllerVars, PlacementInv, ControllerTypes
<1> QED
  BY <1>2, <1>3, <1>4, <1>5, <1>6, <1>7, <1>8 DEF ControllerNext, ControllerLoop

\* It holds in every state.
LEMMA PlacementInvariant == ControllerSpec => []PlacementInv
<1> QED
  BY PlacementStarts, PlacementKept, PTL DEF ControllerSpec

\* When a round begins, a model of which no deactivation has failed is ACTIVE on
\* one GPU at most: the assertion of the policy cannot end the controller before
\* a call has failed, whatever the policy plans and however the calls overlap.
THEOREM OneActive == ControllerSpec => []OneActiveUnlessFailed
<1>1. ASSUME PlacementInv PROVE OneActiveUnlessFailed
  <2> SUFFICES ASSUME ctPc = "plan", NEW m \in CtModels, <<"deactivate", m>> \notin ctFailures
               PROVE  Cardinality(ctView[m]) <= 1
    BY DEF OneActiveUnlessFailed
  <2>1. ctCalls = {} /\ ctView[m] \in SUBSET CtGPUs /\ AtMostOne(Final(m))
    BY <1>1 DEF PlacementInv, ControllerTypes, OnePlaceEach
  <2>2. Final(m) = ctView[m]
    BY <2>1 DEF Final, ToCome, ToGo
  <2> QED
    BY <2>1, <2>2, AtMostOneCounts
<1> QED
  BY <1>1, PlacementInvariant, PTL
-------------------------------------------------------------------------------
(***************************************************************************)
(* Proofs about SamplingInfo, for any number of requests and penalizers,   *)
(* any weights and any retractions.  A batch is filtered, merged and       *)
(* prepared in steps that each keep the rows of every penalizer that is    *)
(* prepared in step with the batch's requests, and a penalizer is prepared *)
(* as soon as one request of the batch needs it; a request in no batch has *)
(* no row that counts its tokens on.                                       *)
(***************************************************************************)
(* The rows of the penalties *)

PenaltyRows == [weight: Nat, fed: Int]
Penalizers == [prepared: BOOLEAN, rows: Seq(PenaltyRows)]
SiBatches == [reqs: Seq(SiReqs), required: BOOLEAN, pen: [SiKinds -> Penalizers]]

\* Every request that asked for a penalty has its row, with all tokens but the last.
RightRows(rows, k, reqs, out) ==
  \A i \in DOMAIN reqs :
    SiWeight[reqs[i]][k] # 0 => rows[i] = [weight |-> SiWeight[reqs[i]][k], fed |-> out[reqs[i]] - 1]

\* A penalizer that is prepared has a row for every request, and the right one
\* for those that asked for it; one that is not has none to serve.
RowsOf(p, k, reqs, out) ==
  IF p.prepared
    THEN Len(p.rows) = Len(reqs) /\ RightRows(p.rows, k, reqs, out)
    ELSE p = Unprepared /\ \A i \in DOMAIN reqs : SiWeight[reqs[i]][k] = 0

\* The penalizers of a batch are in step with its requests; only a batch that
\* requires penalties has prepared any.
PenaltiesInStep(b, out) ==
  /\ b \in SiBatches
  /\ \A k \in SiKinds : RowsOf(b.pen[k], k, b.reqs, out) /\ (b.pen[k].prepared => b.required)

\* A request that waits is in no batch: its tokens are counted from zero when
\* it is prefilled, and no row may count them on.
SamplingInv ==
  /\ siWaiting \subseteq SiReqs /\ siOut \in [SiReqs -> Nat]
  /\ PenaltiesInStep(siLast, siOut) /\ PenaltiesInStep(siRunning, siOut)
  /\ siWaiting \cap (Range(siLast.reqs) \cup Range(siRunning.reqs)) = {}

\* The empty batch is in step.
LEMMA NoBatchInStep ==
  ASSUME NEW out
  PROVE  PenaltiesInStep(NoSiBatch, out) /\ Range(NoSiBatch.reqs) = {}
<1>1. <<>> \in Seq(SiReqs) /\ Unprepared \in Penalizers
  BY DEF Unprepared, Penalizers
<1>2. NoSiBatch \in SiBatches
  BY <1>1 DEF NoSiBatch, SiBatches
<1> QED
  BY <1>2 DEF NoSiBatch, PenaltiesInStep, RowsOf, RightRows, Unprepared, Range

\* Only the counts of a batch's own requests matter to it.
LEMMA SameCounts ==
  ASSUME NEW b, NEW out, NEW new, PenaltiesInStep(b, out), \A r \in Range(b.reqs) : new[r] = out[r]
  PROVE  PenaltiesInStep(b, new)
<1>1. \A i \in DOMAIN b.reqs : new[b.reqs[i]] = out[b.reqs[i]]
  BY DEF Range
<1> QED
  BY <1>1 DEF PenaltiesInStep, RowsOf, RightRows

\* Preparing gives every request its row, with nothing fed.
LEMMA PrepareRows ==
  ASSUME NEW k \in SiKinds, NEW reqs \in Seq(SiReqs)
  PROVE  LET p == [prepared |-> TRUE, rows |-> [i \in DOMAIN reqs |-> [weight |-> SiWeight[reqs[i]][k], fed |-> 0]]]
         IN  /\ p \in Penalizers
             /\ Prepare(Unprepared, k, reqs) = p
<1> DEFINE rows == [i \in DOMAIN reqs |-> [weight |-> SiWeight[reqs[i]][k], fed |-> 0]]
<1>1. \A i \in DOMAIN reqs : SiWeight[reqs[i]][k] \in Nat
  BY SamplingAssumption
<1>2. rows \in Seq(PenaltyRows)
  <2>1. \A i \in DOMAIN reqs : rows[i] \in PenaltyRows
    BY <1>1 DEF PenaltyRows
  <2>2. DOMAIN reqs = 1..Len(reqs) /\ Len(reqs) \in Nat
    OBVIOUS
  <2>3. rows \in [1..Len(reqs) -> PenaltyRows]
    BY <2>1, <2>2
  <2> QED
    BY <2>2, <2>3
<1>3. Prepare(Unprepared, k, reqs) = [prepared |-> TRUE, rows |-> rows]
  BY DEF Prepare, Unprepared
<1> QED
  BY <1>2, <1>3 DEF Penalizers

\* A batch that is made for prefill is in step with requests that have one token.
LEMMA OrchestrateInStep ==
  ASSUME NEW reqs \in Seq(SiReqs), NEW out, \A r \in Range(reqs) : out[r] = 1
  PROVE  PenaltiesInStep(Orchestrate(reqs), out) /\ Orchestrate(reqs).reqs = reqs
<1>1. ASSUME NEW k \in SiKinds
      PROVE  LET p == PrepareIfRequired(k, reqs) IN
             /\ p \in Penalizers /\ RowsOf(p, k, reqs, out)
             /\ p.prepared => IsRequired(k, reqs)
  <2>1. CASE IsRequired(k, reqs)
    <3> DEFINE rows == [i \in DOMAIN reqs |-> [weight |-> SiWeight[reqs[i]][k], fed |-> 0]]
               p == [prepared |-> TRUE, rows |-> rows]
    <3>1. PrepareIfRequired(k, reqs) = p /\ p \in Penalizers
      BY <2>1, PrepareRows DEF PrepareIfRequired
    <3>2. Len(rows) = Len(reqs)
      OBVIOUS
    <3>3. \A i \in DOMAIN reqs : rows[i] = [weight |-> SiWeight[reqs[i]][k], fed |-> out[reqs[i]] - 1]
      BY DEF Range
    <3> QED
      BY <2>1, <3>1, <3>2, <3>3 DEF RowsOf, RightRows
  <2>2. CASE ~IsRequired(k, reqs)
    BY <2>2 DEF PrepareIfRequired, IsRequired, RowsOf, RightRows, Unprepared, Penalizers
  <2> QED
    BY <2>1, <2>2
<1>2. Orchestrate(reqs) \in SiBatches
  BY <1>1 DEF Orchestrate, SiBatches
<1> QED
  BY <1>1, <1>2 DEF PenaltiesInStep, Orchestrate


\* Keeping the same places of the requests and of the rows keeps them in step.
LEMMA KeptRows ==
  ASSUME NEW k \in SiKinds, NEW reqs \in Seq(SiReqs), NEW out, NEW p \in Penalizers, RowsOf(p, k, reqs, out),
         NEW keep \in Seq(DOMAIN reqs)
  PROVE  LET q == FilterPenalizer(p, k, Kept(reqs, keep), keep) IN
         /\ q \in Penalizers /\ RowsOf(q, k, Kept(reqs, keep), out)
         /\ q.prepared => IsRequired(k, Kept(reqs, keep))
<1> DEFINE kept == Kept(reqs, keep)
           q == FilterPenalizer(p, k, kept, keep)
<1>1. \A i \in DOMAIN keep : keep[i] \in DOMAIN reqs
  OBVIOUS
<1>2. DOMAIN kept = DOMAIN keep /\ \A i \in DOMAIN keep : kept[i] = reqs[keep[i]]
  BY DEF Kept
<1>3. CASE ~IsRequired(k, kept)
  BY <1>3 DEF FilterPenalizer, IsRequired, RowsOf, RightRows, Unprepared, Penalizers
<1>4. CASE IsRequired(k, kept) /\ ~p.prepared
  BY <1>1, <1>2, <1>4 DEF FilterPenalizer, IsRequired, RowsOf, RightRows
<1>5. CASE IsRequired(k, kept) /\ p.prepared
  <2> DEFINE rows == Kept(p.rows, keep)
  <2>1. p.rows \in Seq(PenaltyRows) /\ Len(p.rows) = Len(reqs)
    BY <1>5 DEF Penalizers, RowsOf
  <2>2. DOMAIN p.rows = DOMAIN reqs
    BY <2>1
  <2>3. \A i \in DOMAIN keep : rows[i] = p.rows[keep[i]] /\ rows[i] \in PenaltyRows
    BY <1>1, <2>1, <2>2 DEF Kept
  <2>4. rows \in Seq(PenaltyRows) /\ Len(rows) = Len(keep) /\ Len(kept) = Len(keep)
    <3>1. DOMAIN keep = 1..Len(keep) /\ Len(keep) \in Nat /\ DOMAIN rows = DOMAIN keep
      BY DEF Kept
    <3>2. rows \in [1..Len(keep) -> PenaltyRows] /\ kept \in [1..Len(keep) -> SiReqs]
      BY <1>1, <2>3, <3>1 DEF Kept
    <3> DEFINE n == Len(keep)
    <3> HIDE DEF rows, kept, q
    <3>3. n \in Nat /\ rows \in [1..n -> PenaltyRows] /\ kept \in [1..n -> SiReqs]
      BY <3>1, <3>2
    <3> HIDE DEF n
    <3>4. rows \in Seq(PenaltyRows) /\ Len(rows) = n /\ Len(kept) = n
      BY <3>3
    <3> QED
      BY <3>4 DEF n
  <2>5. q = [prepared |-> TRUE, rows |-> rows]
    BY <1>5 DEF FilterPenalizer, Penalizers
  <2>6. \A i \in DOMAIN kept : SiWeight[kept[i]][k] # 0 =>
          rows[i] = [weight |-> SiWeight[kept[i]][k], fed |-> out[kept[i]] - 1]
    BY <1>1, <1>2, <1>5, <2>3 DEF RowsOf, RightRows
  <2>7. kept = Kept(reqs, keep) /\ q = FilterPenalizer(p, k, Kept(reqs, keep), keep)
    OBVIOUS
  <2> HIDE DEF rows, kept, q
  <2>8. q \in Penalizers /\ RowsOf(q, k, kept, out)
    BY <2>4, <2>5, <2>6 DEF RowsOf, RightRows, Penalizers
  <2> QED
    BY <1>5, <2>7, <2>8
<1> QED
  BY <1>3, <1>4, <1>5

\* Filtering a batch keeps it in step, with some of its requests.
LEMMA FilterInStep ==
  ASSUME NEW b, NEW out, PenaltiesInStep(b, out), NEW keep \in Seq(DOMAIN b.reqs)
  PROVE  /\ PenaltiesInStep(Filter(b, keep), out)
         /\ Range(Filter(b, keep).reqs) \subseteq Range(b.reqs)
         /\ Len(keep) # Len(b.reqs) => Range(Filter(b, keep).reqs) \subseteq {b.reqs[i] : i \in Range(keep)}
<1> DEFINE reqs == Kept(b.reqs, keep)
<1>0. b \in SiBatches /\ b.reqs \in Seq(SiReqs)
  BY DEF PenaltiesInStep, SiBatches
<1>1. \A i \in DOMAIN keep : keep[i] \in DOMAIN b.reqs /\ b.reqs[keep[i]] \in SiReqs
  BY <1>0
<1>2. reqs \in Seq(SiReqs)
  <2>1. DOMAIN keep = 1..Len(keep) /\ Len(keep) \in Nat
    OBVIOUS
  <2>2. reqs \in [1..Len(keep) -> SiReqs]
    BY <1>1, <2>1 DEF Kept
  <2> QED
    BY <2>1, <2>2
<1>3. Range(reqs) \subseteq {b.reqs[i] : i \in Range(keep)} /\ Range(reqs) \subseteq Range(b.reqs)
  BY <1>1 DEF Kept, Range
<1>4. CASE keep = <<>>
  BY <1>4, NoBatchInStep DEF Filter
<1>5. CASE keep # <<>> /\ Len(keep) = Len(b.reqs)
  BY <1>5 DEF Filter
<1>6. CASE keep # <<>> /\ Len(keep) # Len(b.reqs) /\ b.required
  <2> DEFINE pen == [k \in SiKinds |-> FilterPenalizer(b.pen[k], k, reqs, keep)]
             f == [reqs |-> reqs, required |-> \E k \in SiKinds : IsRequired(k, reqs), pen |-> pen]
  <2>1. Filter(b, keep) = f
    BY <1>6 DEF Filter
  <2>2. ASSUME NEW k \in SiKinds
        PROVE  pen[k] \in Penalizers /\ RowsOf(pen[k], k, reqs, out) /\ (pen[k].prepared => IsRequired(k, reqs))
    <3>1. b.pen[k] \in Penalizers /\ RowsOf(b.pen[k], k, b.reqs, out)
      BY DEF PenaltiesInStep, SiBatches
    <3> QED
      BY <1>0, <3>1, KeptRows
  <2> HIDE DEF reqs
  <2>3. f \in SiBatches
    BY <1>2, <2>2 DEF SiBatches
  <2> QED
    BY <1>3, <2>1, <2>2, <2>3 DEF PenaltiesInStep
<1>7. CASE keep # <<>> /\ Len(keep) # Len(b.reqs) /\ ~b.required
  <2>1. Filter(b, keep) = [b EXCEPT !.reqs = reqs]
    BY <1>7 DEF Filter
  <2>2. [b EXCEPT !.reqs = reqs] \in SiBatches
    BY <1>0, <1>2 DEF SiBatches
  <2>3. ASSUME NEW k \in SiKinds PROVE RowsOf(b.pen[k], k, reqs, out) /\ ~b.pen[k].prepared
    <3>1. ~b.pen[k].prepared /\ b.pen[k] = Unprepared /\ \A i \in DOMAIN b.reqs : SiWeight[b.reqs[i]][k] = 0
      BY <1>7 DEF PenaltiesInStep, RowsOf, RightRows
    <3>2. \A i \in DOMAIN reqs : SiWeight[reqs[i]][k] = 0
      BY <1>1, <3>1 DEF Kept
    <3> QED
      BY <3>1, <3>2 DEF RowsOf, RightRows
  <2> HIDE DEF reqs
  <2>4. [b EXCEPT !.reqs = reqs].reqs = reqs /\ [b EXCEPT !.reqs = reqs].pen = b.pen
    BY <1>0 DEF SiBatches
  <2> QED
    BY <1>3, <2>1, <2>2, <2>3, <2>4 DEF PenaltiesInStep
<1> QED
  BY <1>4, <1>5, <1>6, <1>7

\* The places of the requests that are not gone; if those are all, none is.
LEMMA WithoutGone ==
  ASSUME NEW b, b.reqs \in Seq(SiReqs), NEW gone, NEW keep \in Without(b, gone)
  PROVE  /\ keep \in Seq(DOMAIN b.reqs)
         /\ \A i \in Range(keep) : b.reqs[i] \notin gone
         /\ Len(keep) = Len(b.reqs) => Range(b.reqs) \cap gone = {}
<1> DEFINE n == Len(b.reqs)
           I == {i \in 1..n : b.reqs[i] \notin gone}
<1>1. n \in Nat /\ DOMAIN b.reqs = 1..n
  OBVIOUS
<1>2. IsFiniteSet(1..n) /\ Cardinality(1..n) = n
  BY <1>1, FS_Interval
<1>3. IsFiniteSet(I) /\ Cardinality(I) \in Nat /\ (Cardinality(I) = n => I = 1..n)
  BY <1>2, FS_Subset, FS_CardinalityType
<1>4. keep \in [1..Cardinality(I) -> I]
  BY <1>1 DEF Without, InOrder, SetToSeqs
<1>5. Len(keep) = Cardinality(I)
  BY <1>3, <1>4
<1>6. keep \in Seq(1..n)
  <2>1. keep \in [1..Cardinality(I) -> 1..n]
    BY <1>4
  <2>2. \A m \in Nat : keep \in [1..m -> 1..n] => keep \in Seq(1..n)
    OBVIOUS
  <2> HIDE DEF I, n
  <2> QED
    BY <1>3, <2>1, <2>2
<1> QED
  BY <1>1, <1>3, <1>4, <1>5, <1>6 DEF Range

\* A batch that is filtered has none of those that are gone.
LEMMA FilteredInStep ==
  ASSUME NEW b, NEW out, PenaltiesInStep(b, out), NEW gone, NEW keep \in Without(b, gone)
  PROVE  /\ PenaltiesInStep(Filter(b, keep), out)
         /\ Range(Filter(b, keep).reqs) \subseteq Range(b.reqs) \ gone
<1>1. b.reqs \in Seq(SiReqs)
  BY DEF PenaltiesInStep, SiBatches
<1>2. /\ keep \in Seq(DOMAIN b.reqs)
      /\ \A i \in Range(keep) : b.reqs[i] \notin gone
      /\ Len(keep) = Len(b.reqs) => Range(b.reqs) \cap gone = {}
  BY <1>1, WithoutGone
<1>3. /\ PenaltiesInStep(Filter(b, keep), out)
      /\ Range(Filter(b, keep).reqs) \subseteq Range(b.reqs)
      /\ Len(keep) # Len(b.reqs) => Range(Filter(b, keep).reqs) \subseteq {b.reqs[i] : i \in Range(keep)}
  BY <1>2, FilterInStep
<1> QED
  BY <1>2, <1>3


\* A batch decoded has one more token of every request, and is fed the one before.
LEMMA CumulateInStep ==
  ASSUME NEW b, NEW out, NEW new, PenaltiesInStep(b, out),
         out \in [SiReqs -> Nat], \A r \in Range(b.reqs) : new[r] = out[r] + 1
  PROVE  PenaltiesInStep(Cumulate(b), new) /\ Cumulate(b).reqs = b.reqs
<1>1. b \in SiBatches /\ b.reqs \in Seq(SiReqs)
  BY DEF PenaltiesInStep, SiBatches
<1>2. \A i \in DOMAIN b.reqs : new[b.reqs[i]] - 1 = (out[b.reqs[i]] - 1) + 1
  BY <1>1 DEF Range
<1>3. ASSUME NEW k \in SiKinds
      PROVE  LET p == IF b.required THEN Fed(b.pen[k]) ELSE b.pen[k] IN
             p \in Penalizers /\ RowsOf(p, k, b.reqs, new) /\ (p.prepared <=> b.pen[k].prepared)
  <2> DEFINE p == b.pen[k]
             rows == [i \in DOMAIN p.rows |-> [p.rows[i] EXCEPT !.fed = @ + 1]]
  <2>1. p \in Penalizers /\ RowsOf(p, k, b.reqs, out) /\ p.rows \in Seq(PenaltyRows) /\ (p.prepared => b.required)
    BY <1>1 DEF PenaltiesInStep, SiBatches, Penalizers
  <2>2. Fed(p) = [p EXCEPT !.rows = rows]
    BY DEF Fed
  <2>3. ASSUME NEW i \in DOMAIN p.rows
        PROVE  rows[i] \in PenaltyRows /\ rows[i] = [weight |-> p.rows[i].weight, fed |-> p.rows[i].fed + 1]
    <3>1. p.rows[i] \in PenaltyRows
      BY <2>1
    <3>2. rows[i] = [p.rows[i] EXCEPT !.fed = @ + 1]
      OBVIOUS
    <3> HIDE DEF p, rows
    <3> QED
      BY <3>1, <3>2 DEF PenaltyRows
  <2>4. rows \in Seq(PenaltyRows) /\ Len(rows) = Len(p.rows)
    <3>1. DOMAIN p.rows = 1..Len(p.rows) /\ Len(p.rows) \in Nat
      BY <2>1
    <3>2. rows \in [1..Len(p.rows) -> PenaltyRows]
      BY <2>3, <3>1
    <3> QED
      BY <3>1, <3>2
  <2>5. CASE ~p.prepared
    <3>1. Fed(p) = Unprepared /\ p = Unprepared
      BY <2>1, <2>5 DEF RowsOf, RightRows, Unprepared, Fed
    <3> QED
      BY <2>1, <2>5, <3>1 DEF RowsOf, RightRows
  <2>6. CASE p.prepared
    <3>1. \A i \in DOMAIN b.reqs : SiWeight[b.reqs[i]][k] # 0 =>
            rows[i] = [weight |-> SiWeight[b.reqs[i]][k], fed |-> new[b.reqs[i]] - 1]
      <4>1. DOMAIN b.reqs = DOMAIN p.rows
        BY <1>1, <2>1, <2>6 DEF RowsOf, RightRows
      <4> SUFFICES ASSUME NEW i \in DOMAIN b.reqs, SiWeight[b.reqs[i]][k] # 0
                   PROVE  rows[i] = [weight |-> SiWeight[b.reqs[i]][k], fed |-> new[b.reqs[i]] - 1]
        OBVIOUS
      <4>2. p.rows[i] = [weight |-> SiWeight[b.reqs[i]][k], fed |-> out[b.reqs[i]] - 1]
        BY <2>1, <2>6 DEF RowsOf, RightRows
      <4>3. rows[i] = [weight |-> p.rows[i].weight, fed |-> p.rows[i].fed + 1]
        BY <2>3, <4>1
      <4> QED
        BY <1>2, <4>2, <4>3
    <3>2. Fed(p) = [prepared |-> TRUE, rows |-> rows]
      BY <2>1, <2>2, <2>6 DEF Penalizers
    <3>3. Len(rows) = Len(b.reqs)
      BY <2>1, <2>4, <2>6 DEF RowsOf, RightRows
    <3> HIDE DEF rows
    <3>4. Fed(p) \in Penalizers /\ RowsOf(Fed(p), k, b.reqs, new) /\ Fed(p).prepared
      BY <2>4, <3>1, <3>2, <3>3 DEF RowsOf, RightRows, Penalizers
    <3> QED
      BY <2>1, <2>6, <3>4
  <2> QED
    BY <2>5, <2>6
<1>4. CASE b.required
  <2> DEFINE pen == [k \in SiKinds |-> Fed(b.pen[k])]
  <2>1. Cumulate(b) = [reqs |-> b.reqs, required |-> b.required, pen |-> pen]
    BY <1>1, <1>4 DEF Cumulate, SiBatches
  <2>2. \A k \in SiKinds : pen[k] \in Penalizers /\ RowsOf(pen[k], k, b.reqs, new)
    BY <1>3, <1>4
  <2>3. Cumulate(b) \in SiBatches
    BY <1>1, <2>1, <2>2 DEF SiBatches
  <2> HIDE DEF pen
  <2> QED
    BY <1>4, <2>1, <2>2, <2>3 DEF PenaltiesInStep
<1>5. CASE ~b.required
  <2>1. Cumulate(b) = b
    BY <1>5 DEF Cumulate
  <2>2. \A k \in SiKinds : RowsOf(b.pen[k], k, b.reqs, new)
    BY <1>3, <1>5
  <2> QED
    BY <1>1, <2>1, <2>2 DEF PenaltiesInStep
<1> QED
  BY <1>4, <1>5

\* What a penalizer brings into a merge: its rows, or rows prepared for it then.
LEMMA Brought ==
  ASSUME NEW k \in SiKinds, NEW reqs \in Seq(SiReqs), NEW out, NEW p \in Penalizers, RowsOf(p, k, reqs, out)
  PROVE  LET q == Prepare(p, k, reqs) IN
         /\ q \in Penalizers /\ q.prepared /\ Len(q.rows) = Len(reqs) /\ RightRows(q.rows, k, reqs, out)
<1>1. CASE p.prepared
  BY <1>1 DEF Prepare, RowsOf
<1>2. CASE ~p.prepared
  <2>1. p = Unprepared /\ \A i \in DOMAIN reqs : SiWeight[reqs[i]][k] = 0
    BY <1>2 DEF RowsOf, RightRows
  <2> DEFINE rows == [i \in DOMAIN reqs |-> [weight |-> SiWeight[reqs[i]][k], fed |-> 0]]
  <2>2. Prepare(p, k, reqs) = [prepared |-> TRUE, rows |-> rows] /\ Prepare(p, k, reqs) \in Penalizers
    BY <2>1, PrepareRows
  <2>3. Len(rows) = Len(reqs)
    OBVIOUS
  <2> QED
    BY <2>1, <2>2, <2>3 DEF RightRows
<1> QED
  BY <1>1, <1>2

\* The length of a concatenation.
LEMMA ConcatLen ==
  ASSUME NEW S, NEW s \in Seq(S), NEW t \in Seq(S)
  PROVE  s \o t \in Seq(S) /\ Len(s \o t) = Len(s) + Len(t)
OBVIOUS

\* A place of a concatenation is a place of the one list or of the other.
LEMMA ConcatPlaces ==
  ASSUME NEW S, NEW s \in Seq(S), NEW t \in Seq(S)
  PROVE  /\ s \o t \in Seq(S) /\ Len(s \o t) = Len(s) + Len(t)
         /\ \A i \in DOMAIN s : i \in DOMAIN (s \o t) /\ (s \o t)[i] = s[i]
         /\ \A i \in DOMAIN t : \E k \in DOMAIN (s \o t) : k = i + Len(s) /\ (s \o t)[k] = t[i]
         /\ \A i \in DOMAIN (s \o t) : \/ i \in DOMAIN s
                                       \/ i - Len(s) \in DOMAIN t /\ (s \o t)[i] = t[i - Len(s)]
<1>1. /\ Len(s) \in Nat /\ Len(t) \in Nat /\ s \o t \in Seq(S) /\ Len(s \o t) = Len(s) + Len(t)
      /\ DOMAIN s = 1..Len(s) /\ DOMAIN t = 1..Len(t) /\ DOMAIN (s \o t) = 1..(Len(s) + Len(t))
  OBVIOUS
<1>2. \A i \in 1..(Len(s) + Len(t)) : (s \o t)[i] = IF i <= Len(s) THEN s[i] ELSE t[i - Len(s)]
  OBVIOUS
<1>3. ASSUME NEW i \in DOMAIN s PROVE i \in DOMAIN (s \o t) /\ (s \o t)[i] = s[i]
  BY <1>1, <1>2
<1>4. ASSUME NEW i \in DOMAIN t PROVE \E k \in DOMAIN (s \o t) : k = i + Len(s) /\ (s \o t)[k] = t[i]
  <2>1. i + Len(s) \in 1..(Len(s) + Len(t)) /\ ~(i + Len(s) <= Len(s)) /\ (i + Len(s)) - Len(s) = i
    BY <1>1
  <2> QED
    BY <1>1, <1>2, <2>1
<1>5. ASSUME NEW i \in DOMAIN (s \o t)
      PROVE  i \in DOMAIN s \/ (i - Len(s) \in DOMAIN t /\ (s \o t)[i] = t[i - Len(s)])
  BY <1>1, <1>2
<1> QED
  BY <1>1, <1>3, <1>4, <1>5

\* The elements of a concatenation are those of the two lists.
LEMMA ConcatRange ==
  ASSUME NEW S, NEW s \in Seq(S), NEW t \in Seq(S)
  PROVE  Range(s \o t) = Range(s) \cup Range(t)
<1> DEFINE u == s \o t
           n == Len(s)
<1>1. /\ \A i \in DOMAIN s : i \in DOMAIN u /\ u[i] = s[i]
      /\ \A i \in DOMAIN t : \E k \in DOMAIN u : k = i + n /\ u[k] = t[i]
      /\ \A i \in DOMAIN u : i \in DOMAIN s \/ (i - n \in DOMAIN t /\ u[i] = t[i - n])
  BY ConcatPlaces
<1> HIDE DEF u, n
<1>2. Range(u) \subseteq Range(s) \cup Range(t) /\ Range(s) \subseteq Range(u) /\ Range(t) \subseteq Range(u)
  BY <1>1 DEF Range
<1> QED
  BY <1>2 DEF u

\* The request at a place of two joined batches is one of theirs.
LEMMA JoinedPlaces ==
  ASSUME NEW s \in Seq(SiReqs), NEW t \in Seq(SiReqs), NEW i \in DOMAIN (s \o t)
  PROVE  \/ \E k \in DOMAIN s : (s \o t)[i] = s[k]
         \/ \E k \in DOMAIN t : (s \o t)[i] = t[k]
<1>1. i \in DOMAIN s \/ (i - Len(s) \in DOMAIN t /\ (s \o t)[i] = t[i - Len(s)])
  BY ConcatPlaces
<1>2. i \in DOMAIN s => (s \o t)[i] = s[i]
  BY ConcatPlaces
<1> QED
  BY <1>1, <1>2

\* The rows of two batches, joined, are right for the joined batches.
LEMMA JoinedRows ==
  ASSUME NEW k \in SiKinds, NEW out,
         NEW s \in Seq(SiReqs), NEW t \in Seq(SiReqs), NEW u \in Seq(PenaltyRows), NEW v \in Seq(PenaltyRows),
         Len(u) = Len(s), Len(v) = Len(t),
         RightRows(u, k, s, out), RightRows(v, k, t, out)
  PROVE  /\ u \o v \in Seq(PenaltyRows) /\ Len(u \o v) = Len(s \o t)
         /\ RightRows(u \o v, k, s \o t, out)
<1> DEFINE r == s \o t
           w == u \o v
<1>1. w \in Seq(PenaltyRows) /\ Len(w) = Len(u) + Len(v)
  BY ConcatLen
<1>5. r \in Seq(SiReqs) /\ Len(r) = Len(s) + Len(t)
  BY ConcatLen
<1>a. DOMAIN u = DOMAIN s /\ DOMAIN v = DOMAIN t /\ DOMAIN w = DOMAIN r
  <2> HIDE DEF r, w
  <2> QED
    BY <1>1, <1>5
<1>b. \A i \in DOMAIN r : i \in DOMAIN s \/ (i - Len(s) \in DOMAIN t /\ r[i] = t[i - Len(s)])
  BY ConcatPlaces
<1>c. \A i \in DOMAIN w : i \in DOMAIN u \/ (i - Len(u) \in DOMAIN v /\ w[i] = v[i - Len(u)])
  BY ConcatPlaces
<1>d. (\A i \in DOMAIN s : r[i] = s[i]) /\ (\A i \in DOMAIN u : w[i] = u[i])
  BY ConcatPlaces
<1> HIDE DEF r, w
<1>2. ASSUME NEW i \in DOMAIN r
      PROVE  \/ \E j \in DOMAIN s : r[i] = s[j] /\ w[i] = u[j]
             \/ \E j \in DOMAIN t : r[i] = t[j] /\ w[i] = v[j]
  <2>1. CASE i \in DOMAIN s
    BY <1>a, <1>d, <2>1
  <2>2. CASE i \notin DOMAIN s
    BY <1>a, <1>b, <1>c, <2>2
  <2> QED
    BY <2>1, <2>2
<1>3. RightRows(w, k, r, out)
  BY <1>2 DEF RightRows
<1>4. Len(w) = Len(r)
  BY <1>1, <1>5
<1> QED
  BY <1>1, <1>3, <1>4 DEF r, w

\* Merging two batches keeps them in step.
LEMMA MergeInStep ==
  ASSUME NEW a, NEW b, NEW out, PenaltiesInStep(a, out), PenaltiesInStep(b, out)
  PROVE  /\ PenaltiesInStep(Merge(a, b), out)
         /\ Range(Merge(a, b).reqs) = Range(a.reqs) \cup Range(b.reqs)
<1> DEFINE reqs == a.reqs \o b.reqs
           pen == [k \in SiKinds |->
                     IF a.required \/ b.required THEN MergePenalizer(a.pen[k], b.pen[k], k, a.reqs, b.reqs)
                     ELSE a.pen[k]]
<1>1. a \in SiBatches /\ b \in SiBatches /\ a.reqs \in Seq(SiReqs) /\ b.reqs \in Seq(SiReqs)
  BY DEF PenaltiesInStep, SiBatches
<1>2. reqs \in Seq(SiReqs) /\ Range(reqs) = Range(a.reqs) \cup Range(b.reqs)
  BY <1>1, ConcatPlaces, ConcatRange
<1>3. \A i \in DOMAIN reqs : \/ \E j \in DOMAIN a.reqs : reqs[i] = a.reqs[j]
                             \/ \E j \in DOMAIN b.reqs : reqs[i] = b.reqs[j]
  BY <1>1, JoinedPlaces
<1>4. ASSUME NEW k \in SiKinds
      PROVE  pen[k] \in Penalizers /\ RowsOf(pen[k], k, reqs, out) /\ (pen[k].prepared => a.required \/ b.required)
  <2> DEFINE mine == a.pen[k]
             theirs == b.pen[k]
  <2>1. /\ mine \in Penalizers /\ RowsOf(mine, k, a.reqs, out) /\ (mine.prepared => a.required)
        /\ theirs \in Penalizers /\ RowsOf(theirs, k, b.reqs, out) /\ (theirs.prepared => b.required)
    BY <1>1 DEF PenaltiesInStep, SiBatches
  <2>2. CASE ~mine.prepared /\ ~theirs.prepared
    <3>1. pen[k] = mine
      BY <2>2 DEF MergePenalizer
    <3>2. /\ \A i \in DOMAIN a.reqs : SiWeight[a.reqs[i]][k] = 0
          /\ \A i \in DOMAIN b.reqs : SiWeight[b.reqs[i]][k] = 0
          /\ mine = Unprepared
      BY <2>1, <2>2 DEF RowsOf, RightRows
    <3> HIDE DEF reqs, pen
    <3>3. \A i \in DOMAIN reqs : SiWeight[reqs[i]][k] = 0
      BY <1>3, <3>2
    <3> QED
      BY <2>1, <2>2, <3>1, <3>2, <3>3 DEF RowsOf, RightRows
  <2>3. CASE mine.prepared \/ theirs.prepared
    <3> DEFINE p == Prepare(mine, k, a.reqs)
               q == Prepare(theirs, k, b.reqs)
               rows == p.rows \o q.rows
    <3>1. pen[k] = [prepared |-> TRUE, rows |-> rows]
      BY <2>1, <2>3 DEF MergePenalizer
    <3>2. /\ p \in Penalizers /\ Len(p.rows) = Len(a.reqs) /\ RightRows(p.rows, k, a.reqs, out)
      BY <1>1, <2>1, Brought
    <3>3. /\ q \in Penalizers /\ Len(q.rows) = Len(b.reqs) /\ RightRows(q.rows, k, b.reqs, out)
      BY <1>1, <2>1, Brought
    <3>4. p.rows \in Seq(PenaltyRows) /\ q.rows \in Seq(PenaltyRows)
      BY <3>2, <3>3 DEF Penalizers
    <3> HIDE DEF p, q
    <3>5. /\ rows \in Seq(PenaltyRows) /\ Len(rows) = Len(reqs)
          /\ RightRows(rows, k, reqs, out)
      <4> DEFINE u == p.rows
                 v == q.rows
                 s == a.reqs
                 t == b.reqs
      <4>1. /\ s \in Seq(SiReqs) /\ t \in Seq(SiReqs) /\ u \in Seq(PenaltyRows) /\ v \in Seq(PenaltyRows)
            /\ Len(u) = Len(s) /\ Len(v) = Len(t)
        BY <1>1, <3>2, <3>3, <3>4
      <4>2. RightRows(u, k, s, out) /\ RightRows(v, k, t, out)
        BY <3>2, <3>3
      <4>3. rows = u \o v /\ reqs = s \o t
        OBVIOUS
      <4> HIDE DEF u, v, s, t, rows, reqs
      <4>4. u \o v \in Seq(PenaltyRows) /\ Len(u \o v) = Len(s \o t) /\ RightRows(u \o v, k, s \o t, out)
        BY <4>1, <4>2, JoinedRows, Zenon
      <4> QED
        BY <4>3, <4>4
    <3> HIDE DEF reqs, rows, pen
    <3> QED
      BY <2>1, <2>3, <3>1, <3>5 DEF RowsOf, Penalizers
  <2> QED
    BY <2>2, <2>3
<1>5. Merge(a, b) = [reqs |-> reqs, required |-> a.required \/ b.required, pen |-> pen]
  BY DEF Merge
<1> HIDE DEF reqs, pen
<1>6. (a.required \/ b.required) \in BOOLEAN
  BY <1>1 DEF SiBatches
<1>7. pen \in [SiKinds -> Penalizers]
  BY <1>4, <1>5 DEF pen
<1>8. Merge(a, b) \in SiBatches
  BY <1>2, <1>5, <1>6, <1>7 DEF SiBatches
<1>9. Merge(a, b).reqs = reqs /\ Merge(a, b).pen = pen /\ Merge(a, b).required = (a.required \/ b.required)
  BY <1>5
<1> QED
  BY <1>2, <1>4, <1>8, <1>9 DEF PenaltiesInStep

-------------------------------------------------------------------------------
(* The batches *)

\* The prefill batch of the last round joins the running batch, in step.
LEMMA JoinedInStep ==
  ASSUME SamplingInv
  PROVE  /\ PenaltiesInStep(Joined, siOut)
         /\ Range(Joined.reqs) = Range(siLast.reqs) \cup Range(siRunning.reqs)
<1>1. PenaltiesInStep(siLast, siOut) /\ PenaltiesInStep(siRunning, siOut)
  BY DEF SamplingInv
<1>2. CASE siLast.reqs = <<>>
  <2>1. Range(siLast.reqs) = {}
    BY <1>2 DEF Range
  <2> QED
    BY <1>1, <1>2, <2>1 DEF Joined
<1>3. CASE siLast.reqs # <<>> /\ siRunning.reqs = <<>>
  <2>1. Range(siRunning.reqs) = {}
    BY <1>3 DEF Range
  <2> QED
    BY <1>1, <1>3, <2>1 DEF Joined
<1>4. CASE siLast.reqs # <<>> /\ siRunning.reqs # <<>>
  <2>1. Joined = Merge(siRunning, siLast)
    BY <1>4 DEF Joined
  <2>2. /\ PenaltiesInStep(Merge(siRunning, siLast), siOut)
        /\ Range(Merge(siRunning, siLast).reqs) = Range(siRunning.reqs) \cup Range(siLast.reqs)
    BY <1>1, MergeInStep
  <2> QED
    BY <2>1, <2>2
<1> QED
  BY <1>2, <1>3, <1>4

\* A prefill takes requests that are in no batch, and starts their counts.
LEMMA PrefillInStep ==
  ASSUME SamplingInv, PrefillBatch
  PROVE  SamplingInv'
<1>0. PICK S \in SUBSET siWaiting : \E reqs \in SetToSeqs(S) :
        /\ siWaiting' = siWaiting \ S
        /\ siRunning' = Joined /\ siLast' = Orchestrate(reqs)
        /\ Sample(reqs, [r \in SiReqs |-> IF r \in S THEN 0 ELSE siOut[r]])
  BY DEF PrefillBatch
<1>1. PICK reqs \in SetToSeqs(S) :
        /\ siWaiting' = siWaiting \ S
        /\ siRunning' = Joined /\ siLast' = Orchestrate(reqs)
        /\ Sample(reqs, [r \in SiReqs |-> IF r \in S THEN 0 ELSE siOut[r]])
  BY <1>0
<1>2. siWaiting \subseteq SiReqs /\ siOut \in [SiReqs -> Nat]
  BY DEF SamplingInv
<1>3. reqs \in Seq(S) /\ reqs \in Seq(SiReqs) /\ Range(reqs) \subseteq S
  <2>1. Cardinality(S) \in Nat
    BY <1>2, FS_Subset, FS_CardinalityType, SamplingAssumption
  <2>2. reqs \in [1..Cardinality(S) -> S]
    BY DEF SetToSeqs
  <2>3. \A n \in Nat : reqs \in [1..n -> S] => reqs \in Seq(S)
    OBVIOUS
  <2>4. reqs \in Seq(S)
    BY <2>1, <2>2, <2>3
  <2> QED
    BY <1>2, <2>4 DEF Range
<1>4. siOut' = [r \in SiReqs |-> IF r \in Range(reqs) THEN 1 ELSE IF r \in S THEN 0 ELSE siOut[r]]
  <2> DEFINE old == [r \in SiReqs |-> IF r \in S THEN 0 ELSE siOut[r]]
  <2>1. siOut' = [r \in SiReqs |-> IF r \in Range(reqs) THEN old[r] + 1 ELSE old[r]]
    BY <1>1 DEF Sample
  <2>2. \A r \in Range(reqs) : r \in SiReqs => old[r] + 1 = 1
    BY <1>3
  <2>3. \A r \in SiReqs : old[r] = IF r \in S THEN 0 ELSE siOut[r]
    OBVIOUS
  <2> HIDE DEF old
  <2> QED
    BY <2>1, <2>2, <2>3
<1>5. siOut' \in [SiReqs -> Nat]
  BY <1>2, <1>4
<1>6. PenaltiesInStep(Joined, siOut) /\ siWaiting \cap Range(Joined.reqs) = {} /\ Range(Joined.reqs) \subseteq SiReqs
  <2>1. PenaltiesInStep(Joined, siOut) /\ siWaiting \cap Range(Joined.reqs) = {}
    BY JoinedInStep DEF SamplingInv
  <2>2. Joined.reqs \in Seq(SiReqs)
    BY <2>1 DEF PenaltiesInStep, SiBatches
  <2> QED
    BY <2>1, <2>2 DEF Range
<1>7. PenaltiesInStep(Joined, siOut')
  <2>1. \A r \in Range(Joined.reqs) : siOut'[r] = siOut[r]
    BY <1>3, <1>4, <1>6
  <2> QED
    BY <1>6, <2>1, SameCounts
<1>8. PenaltiesInStep(Orchestrate(reqs), siOut') /\ Orchestrate(reqs).reqs = reqs
  <2>1. \A r \in Range(reqs) : siOut'[r] = 1
    BY <1>2, <1>3, <1>4
  <2> QED
    BY <1>3, <2>1, OrchestrateInStep
<1> QED
  BY <1>1, <1>2, <1>3, <1>5, <1>6, <1>7, <1>8 DEF SamplingInv

\* A decode drops the requests that are done or retracted, and feeds the others.
LEMMA DecodeInStep ==
  ASSUME SamplingInv, DecodeBatch
  PROVE  SamplingInv'
<1>1. PICK keep \in Without(Joined, siDone) :
        /\ siLast' = NoSiBatch
        /\ \E R \in SUBSET Range(Filter(Joined, keep).reqs) : \E rest \in Without(Filter(Joined, keep), R) :
             /\ siWaiting' = siWaiting \cup R
             /\ siRunning' = Cumulate(Filter(Filter(Joined, keep), rest))
             /\ Sample(Filter(Filter(Joined, keep), rest).reqs, siOut)
  BY DEF DecodeBatch
<1> DEFINE left == Filter(Joined, keep)
<1>a. PICK R \in SUBSET Range(left.reqs) : \E rest \in Without(left, R) :
        /\ siWaiting' = siWaiting \cup R
        /\ siRunning' = Cumulate(Filter(left, rest))
        /\ Sample(Filter(left, rest).reqs, siOut)
  BY <1>1
<1>2. PICK rest \in Without(left, R) :
        /\ siWaiting' = siWaiting \cup R
        /\ siRunning' = Cumulate(Filter(left, rest))
        /\ Sample(Filter(left, rest).reqs, siOut)
  BY <1>a
<1> DEFINE b == Filter(left, rest)
<1>3. siWaiting \subseteq SiReqs /\ siOut \in [SiReqs -> Nat]
  BY DEF SamplingInv
<1>4. PenaltiesInStep(Joined, siOut) /\ siWaiting \cap Range(Joined.reqs) = {}
  BY JoinedInStep DEF SamplingInv
<1>5. PenaltiesInStep(left, siOut) /\ Range(left.reqs) \subseteq Range(Joined.reqs)
  BY <1>4, FilteredInStep
<1> HIDE DEF left
<1>6. PenaltiesInStep(b, siOut) /\ Range(b.reqs) \subseteq Range(left.reqs) \ R
  BY <1>5, FilteredInStep
<1>7. Range(left.reqs) \subseteq SiReqs
  <2>1. left.reqs \in Seq(SiReqs)
    BY <1>5 DEF PenaltiesInStep, SiBatches
  <2> QED
    BY <2>1 DEF Range
<1>8. siRunning' = Cumulate(b)
  BY <1>2
<1>9. siOut' = [r \in SiReqs |-> IF r \in Range(b.reqs) THEN siOut[r] + 1 ELSE siOut[r]]
  BY <1>2 DEF Sample
<1> HIDE DEF b
<1>10. siOut' \in [SiReqs -> Nat]
  BY <1>3, <1>9
<1>11. PenaltiesInStep(Cumulate(b), siOut') /\ Cumulate(b).reqs = b.reqs
  <2>1. \A r \in Range(b.reqs) : siOut'[r] = siOut[r] + 1
    BY <1>6, <1>7, <1>9
  <2> QED
    BY <1>3, <1>6, <2>1, CumulateInStep
<1>12. siLast' = NoSiBatch /\ PenaltiesInStep(NoSiBatch, siOut') /\ Range(NoSiBatch.reqs) = {}
  BY <1>1, NoBatchInStep
<1>13. siWaiting' = siWaiting \cup R
  BY <1>2
<1> QED
  BY <1>3, <1>4, <1>5, <1>6, <1>7, <1>8, <1>10, <1>11, <1>12, <1>13 DEF SamplingInv

\* In step, every request with a penalty has its row.
LEMMA InStepFollows ==
  ASSUME SamplingInv
  PROVE  RowsFollowRequests
<1> SUFFICES ASSUME NEW b \in {siLast, siRunning}, NEW k \in SiKinds, NEW i \in DOMAIN b.reqs,
                    SiWeight[b.reqs[i]][k] # 0
             PROVE  /\ b.required /\ b.pen[k].prepared /\ Len(b.pen[k].rows) = Len(b.reqs)
                    /\ b.pen[k].rows[i] = [weight |-> SiWeight[b.reqs[i]][k], fed |-> siOut[b.reqs[i]] - 1]
  BY DEF RowsFollowRequests
<1>1. PenaltiesInStep(b, siOut)
  BY DEF SamplingInv
<1> QED
  BY <1>1 DEF PenaltiesInStep, RowsOf, RightRows

\* Whatever batches are filtered, retracted from and merged, however often: a request is
\* sampled with its own penalties, every one it asked for, counted over its own tokens.
THEOREM PenaltiesFollow == SamplingSpec => []RowsFollowRequests
<1>1. SamplingInit => SamplingInv
  <2> SUFFICES ASSUME SamplingInit PROVE SamplingInv
    OBVIOUS
  <2> QED
    BY NoBatchInStep DEF SamplingInit, SamplingInv
<1>2. SamplingInv /\ [SamplingNext]_samplingVars => SamplingInv'
  <2>1. CASE UNCHANGED samplingVars
    BY <2>1 DEF samplingVars, SamplingInv, PenaltiesInStep, RowsOf, RightRows
  <2> QED
    BY <2>1, PrefillInStep, DecodeInStep DEF SamplingNext
<1> QED
  BY <1>1, <1>2, InStepFollows, PTL DEF SamplingSpec
===============================================================================
