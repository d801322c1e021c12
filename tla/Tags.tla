-------------------------------- MODULE Tags --------------------------------
(***************************************************************************)
(* segmenter/Tags.hpp: a tag is a name in double braces that the LLM emits *)
(* for whoever polls the text; it is never spoken.  A text is a sequence   *)
(* of bytes, each a symbol for the bytes the code treats alike.            *)
(***************************************************************************)
EXTENDS Integers, FiniteSets, SequencesExt

Whitespace == {" ", "\n"}
Letters == {"a", "A", "t"}
Digits == {"1"}
Closing == {".", "!"}
Punctuation == Closing \cup {"{", "}", "<", "/", ">"}

(* The tags of a text, by first and last position.  No two overlap: the name
   between the braces holds none. *)
TagsOf(text) ==
    {t \in (1 .. Len(text)) \X (1 .. Len(text)) :
        /\ t[1] + 4 <= t[2]
        /\ text[t[1]] = "{" /\ text[t[1] + 1] = "{"
        /\ text[t[2] - 1] = "}" /\ text[t[2]] = "}"
        /\ \A k \in t[1] + 2 .. t[2] - 2 : text[k] \in Letters \cup Digits}

Untagged(text) == DOMAIN text \ UNION {t[1] .. t[2] : t \in TagsOf(text)}
SolidOf(text) == {i \in Untagged(text) : text[i] \notin Whitespace}

(* The bytes of text at the positions in I. *)
Picked(text, I) ==
    FlattenSeq([i \in DOMAIN text |-> IF i \in I THEN <<text[i]>> ELSE <<>>])

(* withoutTrailingTags *)
WithoutTrailingTags(text) ==
    LET end == IF SolidOf(text) = {} THEN 0 ELSE Max(SolidOf(text))
    IN  IF \E t \in TagsOf(text) : t[1] > end THEN SubSeq(text, 1, end) ELSE text

(* stripTags drops the gap that a removed tag leaves behind: one character of
   what is left, appended to tidy.  Mutant: the gap before a sign that closes a
   text stays. *)
Tidied_GapStays(tidy, c) ==
    LET afterGap == tidy # <<>> /\ Last(tidy) \in Whitespace
    IN  IF c \in Whitespace /\ (afterGap \/ tidy = <<>>) THEN tidy ELSE Append(tidy, c)
Tidied(tidy, c) ==
    LET afterGap == tidy # <<>> /\ Last(tidy) \in Whitespace
    IN  IF c \in Whitespace
        THEN IF afterGap \/ tidy = <<>> THEN tidy ELSE Append(tidy, c)
        ELSE Append(IF afterGap /\ c \in Closing THEN Front(tidy) ELSE tidy, c)

StripTags(text) ==
    LET tidy == FoldLeft(Tidied, <<>>, Picked(text, Untagged(text)))
    IN  IF tidy # <<>> /\ Last(tidy) \in Whitespace THEN Front(tidy) ELSE tidy

HasSpeakableText(text) ==
    \E i \in DOMAIN text : text[i] \notin Whitespace \cup Punctuation

(* What the TTS worker of the pipeline has spoken of a segment, <<>> if it
   skips the segment. *)
Speech(segment) ==
    IF ~ \E i \in DOMAIN segment : IsPrefix(<<"{", "{">>, SubSeq(segment, i, Len(segment)))
    THEN segment
    ELSE IF HasSpeakableText(StripTags(segment)) THEN StripTags(segment) ELSE <<>>
=============================================================================
