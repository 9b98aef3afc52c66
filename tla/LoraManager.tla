------------------------------ MODULE LoraManager ------------------------------
(***************************************************************************)
(* prepare_lora_batch of srt/lora/lora_manager.py: before a batch runs,    *)
(* the adapters its requests ask for are loaded into the slots of the LoRA *)
(* memory pool, and weight_indices sends each request to a slot.           *)
(*                                                                         *)
(* active_uids and cur_uids are Python sets: the code iterates over them   *)
(* in an order it does not choose.  The adapter None, "no adapter", has a  *)
(* slot as well.  The scheduler bounds the adapters of the requests that   *)
(* may be in one batch by max_loras_per_batch.                             *)
(***************************************************************************)
EXTENDS SequencesExt

CONSTANTS LoUids, LoMax  \* adapters; max_loras_per_batch

ASSUME LoraAssumption == LoMax \in Nat \ {0} /\ IsFiniteSet(LoUids)

VARIABLES
  loActive,    \* active_uids
  loBufferId,  \* buffer_id
  loSlots,     \* what each slot of A_buffer and B_buffer holds
  loBatch,     \* the adapters of the batch that runs
  loFailed     \* an assertion of prepare_lora_batch has failed

loraVars == <<loActive, loBufferId, loSlots, loBatch, loFailed>>

Slots == 0..(LoMax - 1)

LoraInit ==
  /\ loActive = {} /\ loBufferId = <<>> /\ loBatch = {} /\ loFailed = FALSE
  /\ loSlots = [s \in Slots |-> {}]

\* The next adapter of "evictable" that the batch does not need, from the position p->i on.
Evictable(p, cur) == {k \in p.i..Len(p.evictable) : p.evictable[k] \notin cur}

\* load_lora(uid, index), and the books; positions count from 1 here, slots from 0.
LoadLora(p, uid, index) ==
  [p EXCEPT !.active = @ \cup {uid}, !.slots[index] = {uid},
            !.bufferId = [u \in DOMAIN @ \cup {uid} |-> IF u = uid THEN index ELSE @[u]]]
Evict(p, k) ==
  LET gone == p.evictable[k] IN
  [p EXCEPT !.active = @ \ {gone}, !.i = k + 1,
            !.bufferId = [u \in DOMAIN @ \ {gone} |-> @[u]]]

LoadOne(p, uid, cur) ==
  IF p.failed \/ uid \in p.active THEN p
  ELSE IF p.j < LoMax THEN LoadLora([p EXCEPT !.j = @ + 1], uid, p.j)
  ELSE IF Evictable(p, cur) = {} THEN [p EXCEPT !.failed = TRUE]
  ELSE LET k == Min(Evictable(p, cur)) IN LoadLora(Evict(p, k), uid, k - 1)

\* prepare_lora_batch for a batch whose requests ask for "cur".
PrepareLoraBatch(cur) ==
  \E order \in SetToSeqs(cur), evictable \in SetToSeqs(loActive) :
    LET start == [i |-> 1, j |-> Cardinality(loActive), active |-> loActive, bufferId |-> loBufferId,
                  slots |-> loSlots, evictable |-> evictable, failed |-> FALSE]
        end == FoldLeft(LAMBDA p, uid : LoadOne(p, uid, cur), start, order) IN
    /\ loActive' = end.active /\ loBufferId' = end.bufferId /\ loSlots' = end.slots
    /\ loBatch' = cur /\ loFailed' = end.failed

LoraNext == \E cur \in SUBSET LoUids : cur # {} /\ Cardinality(cur) <= LoMax /\ PrepareLoraBatch(cur)

LoraSpec == LoraInit /\ [][LoraNext]_loraVars
-------------------------------------------------------------------------------
\* "lora uid -> idx in memory pool": the slot of an adapter of the batch holds its weights.
LoraOwnSlot == \A u \in loBatch : loSlots[loBufferId[u]] = {u}
===============================================================================
