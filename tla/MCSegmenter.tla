---------------------------- MODULE MCSegmenter -----------------------------
(* Instances of Segmenter for TLC. *)
EXTENDS Segmenter

(* Pieces of one symbol, which can be cut anywhere, and a few longer ones: for
   characters and emoji, think blocks, sentences, and tags. *)
Singles(S) == {<<b>> : b \in S}

MCStreams == {
    Singles({"a", " ", "C3", "E2", "98", "80", "A6"}),
    Singles({"a", "<"}) \cup {ThinkStart, ThinkEnd, <<"t", ">">>, <<"/", "t", ">">>},
    Singles({"a", "A", "1", ".", "!", " ", "\n"}) \cup {<<"!", " ">>},
    Singles({"a", "{", "!", " ", "\n"}) \cup {<<"}", "}">>, <<"{", "{", "a", "}", "}">>} }

(* Every sentence is a segment; sentences have a least length and are joined. *)
MCConfigs == {
    [minSentence |-> 0, minSegment |-> 0],
    [minSentence |-> 1, minSegment |-> 4] }

MCAbbreviations == {<<"A", "A", ".">>}
=============================================================================
