------------------------------ MODULE Detokenizer ------------------------------
(***************************************************************************)
(* srt/managers/detokenizer_manager.py: each worker engine has a           *)
(* detokenizer process that turns the tokens of a request into text,       *)
(* incrementally: it keeps what it has decoded so far and decodes only     *)
(* what the engine has generated since.  The tokens an engine sends are    *)
(* all it has generated for the request; a text is the sequence of tokens  *)
(* it shows.  Offsets count generated tokens: the prompt's are left out,   *)
(* and with them surr_offset, which only brings context to the tokenizer.  *)
(***************************************************************************)
EXTENDS Integers, Sequences

CONSTANTS
  Reqs,       \* generation requests
  Engines     \* worker engines, each with its detokenizer

VARIABLE decode_status   \* DetokenizerManager.decode_status of each engine: a dict

Texts == Seq(Nat)
Status == [vid: Nat, decoded_text: Texts, read_offset: Nat]

DetokenizerInit == decode_status = [e \in Engines |-> <<>>]
DetokenizerTypeOK ==
  /\ DOMAIN decode_status = Engines
  /\ \A e \in Engines : /\ DOMAIN decode_status[e] \subseteq Reqs
                        /\ \A r \in DOMAIN decode_status[e] : decode_status[e][r] \in Status

NewStatus(vid) == [vid |-> vid, decoded_text |-> <<>>, read_offset |-> 0]
StatusOf(e, r, vid) ==
  IF r \in DOMAIN decode_status[e] /\ decode_status[e][r].vid = vid
  THEN decode_status[e][r] ELSE NewStatus(vid)

\* What follows the text already decoded.
AllTokens(s, ids) == ids  \* fault: what is decoded already is decoded again
NewTokens(s, ids) == SubSeq(ids, s.read_offset + 1, Len(ids))

\* event_loop, one request of a BatchTokenIDOut: what it may put into
\* output_strs and the status it keeps.  A chunk that ends inside a character
\* shows its printable prefix and is decoded again with the next one.
Decodings(s, ids, finished) ==
  LET new == NewTokens(s, ids)
      whole == s.decoded_text \o new
      Chunk == [text |-> whole,
                status |-> [vid |-> s.vid, decoded_text |-> whole, read_offset |-> Len(ids)]]
      Shown(k) == [text |-> s.decoded_text \o SubSeq(new, 1, k), status |-> s]
  IN IF finished \/ new = <<>> THEN {Shown(Len(new))}
     ELSE {Chunk} \cup {Shown(k) : k \in 0 .. Len(new) - 1}

Keep(e, r, s) ==
  decode_status' = [decode_status EXCEPT
    ![e] = [q \in DOMAIN @ \cup {r} |-> IF q = r THEN s ELSE @[q]]]
===============================================================================
