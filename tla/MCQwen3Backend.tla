--------------------------- MODULE MCQwen3Backend ---------------------------
(* Qwen3Backend for TLC: a tokenizer that does not give back the tokens that
   were generated wherever their pieces make a longer one. *)
EXTENDS Qwen3Backend

CONSTANTS p, r, a, aa

MCPrompts == {p, r}
MCVocabulary == {a}
MCToken == {p, r, a, aa}
Merging(text) ==
    IF Len(text) >= 2 /\ text[1] = a /\ text[2] = a
    THEN <<aa>> \o SubSeq(text, 3, Len(text)) ELSE text
=============================================================================
