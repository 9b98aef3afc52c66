SPECIFICATION FrontendSpec
CONSTANTS
  Parts = {"handler", "tracker", "stream"}
  r1 = r1  e1 = e1  e2 = e2  m1 = m1  g1 = g1  t1 = t1  t2 = t2
  Reqs = {r1}
  Engines = {e1, e2}
  Models = {m1}
  ModelOf <- MC_ModelOf
  GPUs = {g1}
  GPUOf <- MC_GPUOf
  MaxTokens = 3
  MaxEvictions = 1
  TrackedReqs = {t1, t2}
  Warmups = {t2}
  TrackedEngines = {e1, e2}
  MaxMoves = 4
  SePrograms <- MC_Programs
  SeExes = {"s", "c1", "c2"}
  SeRoot = "s"
  SeFailing = {"word"}
  SeStreams = {TRUE, FALSE}
  SeIters = {"text", "word"}
  SeNone = SeNone
INVARIANTS
  WokenFindsItsState
  AnswerIsWhole
  NeverRaises
  BusyWhileUnanswered
  ViewConverges
  JoinCountsItems
  TakenOverWhole
  StreamedInOrder
PROPERTIES
  AnswerDelivered
  NoStateLeaks
  RunReturns
CHECK_DEADLOCK FALSE
