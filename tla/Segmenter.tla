----------------------------- MODULE Segmenter ------------------------------
(***************************************************************************)
(* segmenter/Segmenter.hpp: pieces of LLM output, cut anywhere, go through *)
(* four buffers (bytes, characters, text, sentences) and come out as       *)
(* segments.  Each piece is followed by everything that can be decided     *)
(* now; the rest is held until more input comes, or until the end of it.   *)
(*                                                                         *)
(* Input is a sequence of bytes, each a symbol for the bytes the code      *)
(* treats alike.  The markers of a think block are shortened to "<t>" and  *)
(* "</t>".  A line break or a blank stands for all white space.            *)
(***************************************************************************)
EXTENDS Tags

CONSTANTS
    Streams,        \* sets of pieces; a stream is made of the pieces of one set
    Configs,        \* SegmenterConfigs: [minSentence, minSegment], in bytes
    Abbreviations,  \* in capitals, with the period
    MaxPieces       \* bound: pieces of one stream

Continuation == {"80", "98", "A6"}
Ellipsis == <<"E2", "80", "A6">>
Delimiters == {".", "!", "\n", "A6"}
ThinkStart == <<"<", "t", ">">>
ThinkEnd == <<"<", "/", "t", ">">>

ASSUME SegmenterAssumption ==
    /\ \A S \in Streams : \A p \in S : p \in Seq(STRING)
    /\ Configs \subseteq [minSentence : Nat, minSegment : Nat]
    /\ \A abbr \in Abbreviations : abbr \in Seq(STRING)
    /\ MaxPieces \in Nat

VARIABLES
    seg,        \* the members of a Segmenter, and the segments it pushed
    config,     \* the config of this call of segment
    stream,     \* the pieces that may come
    pieces,     \* how many came
    done,       \* the input queue is closed and empty; segment has returned
    input       \* history: all bytes that came

vars == <<seg, config, stream, pieces, done, input>>

Fresh == [bytes |-> <<>>, utf8 |-> <<>>, text |-> <<>>, pending |-> <<>>,
          inThink |-> FALSE, scanned |-> 0, out |-> <<>>]

From(s, i) == SubSeq(s, i, Len(s))
Occurrences(u, m) == {i \in 1 .. Len(u) - Len(m) + 1 : SubSeq(u, i, i + Len(m) - 1) = m}

-----------------------------------------------------------------------------
(* UTF-8 *)

(* 0: b cannot start a character. *)
LeadLength(b) ==
    CASE b = "C3" -> 2 [] b = "E2" -> 3 [] b \in Continuation -> 0 [] OTHER -> 1

IsEmoji(c) == Len(c) = 3 /\ c[2] = "98"

(* accumulateUtf8Pieces: whole characters move on, a byte that is no part of
   one is dropped, a character that is not complete yet stays. *)
AccumulateUtf8Pieces(s) ==
    LET b == s.bytes
        n(i) == LeadLength(b[i])
        complete(i) == \A k \in 1 .. n(i) - 1 : b[i + k] \in Continuation
        scan[i \in 1 .. Len(b) + 1] ==
            IF i > Len(b) \/ i + n(i) - 1 > Len(b)
            THEN [bytes |-> From(b, i), utf8 |-> <<>>]
            ELSE IF n(i) = 0 \/ ~complete(i)
            THEN scan[i + 1]
            ELSE LET c == SubSeq(b, i, i + n(i) - 1)
                     rest == scan[i + n(i)]
                 IN  IF IsEmoji(c) THEN rest ELSE [rest EXCEPT !.utf8 = c \o @]
    IN  [s EXCEPT !.bytes = scan[1].bytes, !.utf8 = @ \o scan[1].utf8]

-----------------------------------------------------------------------------
(* Think blocks *)

(* heldPrefixLength.  Mutant: nothing is held back. *)
HeldPrefixLength_None(text, marker) == 0
HeldPrefixLength(text, marker) ==
    Max({n \in 0 .. Len(marker) - 1 :
            n <= Len(text) /\ SubSeq(marker, 1, n) = From(text, Len(text) - n + 1)})

(* removeThinking, from one marker to the next. *)
RemoveThinking(s) ==
    LET u == s.utf8
        visible(t, from, to) == IF t THEN <<>> ELSE SubSeq(u, from, to)
        scan[i \in 1 .. Len(u) + 1] == [t \in BOOLEAN |->
            LET marker == IF t THEN ThinkEnd ELSE ThinkStart
                found  == {k \in Occurrences(u, marker) : k >= i}
                held   == HeldPrefixLength(From(u, i), marker)
                rest   == scan[Min(found) + Len(marker)][~t]
            IN  IF found = {}
                THEN [text |-> visible(t, i, Len(u) - held),
                      utf8 |-> From(u, Len(u) - held + 1), inThink |-> t]
                ELSE [rest EXCEPT !.text = visible(t, i, Min(found) - 1) \o @]]
        r == scan[1][s.inThink]
    IN  [s EXCEPT !.utf8 = r.utf8, !.text = @ \o r.text, !.inThink = r.inThink]

-----------------------------------------------------------------------------
(* Sentences *)

Upper(b) == IF b = "a" THEN "A" ELSE b

(* The text up to position i ends with an abbreviation that is not the end of a
   longer word. *)
IsAbbreviation(text, i) ==
    \E abbr \in Abbreviations :
        LET start == i - Len(abbr) + 1
        IN  /\ start >= 1
            /\ start > 1 => text[start - 1] \notin Letters \cup Digits
            /\ \A k \in 1 .. Len(abbr) : Upper(text[start + k - 1]) = abbr[k]

IsSingleLetterInitial(text, i) ==
    /\ i > 1 /\ text[i - 1] = "A"
    /\ i > 2 => text[i - 2] \notin Letters

(* The digits before position i begin a line, blanks aside. *)
IsListMarker(text, i) ==
    \E d, b \in 1 .. i :
        /\ b <= d /\ d < i
        /\ \A k \in d .. i - 1 : text[k] \in Digits
        /\ \A k \in b .. d - 1 : text[k] = " "
        /\ b = 1 \/ text[b - 1] = "\n"

(* A delimiter at position i that is not ruled out by what is before it. *)
IsCandidate(text, i) ==
    /\ text[i] \in Delimiters /\ i > config.minSentence
    /\ text[i] = "A6" => i > 2 /\ SubSeq(text, i - 2, i) = Ellipsis

(* The byte behind decides.  Mutant: the end of the text counts as such. *)
IsUndecided_Never(text, i) == FALSE
IsUndecided(text, i) == text[i] # "\n" /\ i = Len(text)

EndsSentence(text, i) ==
    \/ text[i] = "\n"
    \/ /\ i < Len(text) /\ text[i + 1] \in Whitespace
       /\ ~ /\ text[i] = "."
            /\ \/ IsSingleLetterInitial(text, i)
               \/ IsListMarker(text, i)
               \/ IsAbbreviation(text, i)

(* findSentenceEnd: the first place from scanned on where the text is cut, or
   where this cannot be decided (end = 0), and how far it is scanned then. *)
FindSentenceEnd(text, scanned) ==
    LET stops == {i \in scanned + 1 .. Len(text) :
                    IsCandidate(text, i) /\ (IsUndecided(text, i) \/ EndsSentence(text, i))}
    IN  IF stops = {}
        THEN [end |-> 0, scanned |-> Len(text)]
        ELSE [end |-> IF IsUndecided(text, Min(stops)) THEN 0 ELSE Min(stops),
              scanned |-> Min(stops) - 1]

Strip(text) ==
    LET solid == {i \in DOMAIN text : text[i] \notin Whitespace}
    IN  IF solid = {} THEN <<>> ELSE SubSeq(text, Min(solid), Max(solid))

EndsWithPunctuation(text) == text # <<>> /\ (Last(text) \in {".", "!"} \/ IsSuffix(Ellipsis, text))

(* needsPeriod.  Mutant: a tag closes a text. *)
NeedsPeriod_NoTags(text) == ~IsSuffix(<<"}", "}">>, text) /\ ~EndsWithPunctuation(text)
NeedsPeriod(text) ==
    IF IsSuffix(<<"}", "}">>, text)
    THEN LET spoken == WithoutTrailingTags(text)
         IN  spoken # <<>> /\ ~EndsWithPunctuation(spoken)
    ELSE ~EndsWithPunctuation(text)

(* Mutant: the period replaces the tags. *)
WithPeriod_TagsCut(text) ==
    IF text # <<>> /\ NeedsPeriod(text) THEN Append(WithoutTrailingTags(text), ".") ELSE text
WithPeriod(text) == IF text # <<>> /\ NeedsPeriod(text) THEN Append(text, ".") ELSE text

Joined(a, b) == IF a = <<>> THEN b ELSE Append(a, " ") \o b

(* pushCoalesced.  Mutants: a segment has to be longer than the minimum; a
   sentence of blanks is pushed. *)
PushCoalesced_Blank(s, sentence) ==
    LET text == Joined(s.pending, sentence)
    IN  IF Len(text) < config.minSegment
        THEN [s EXCEPT !.pending = text]
        ELSE [s EXCEPT !.pending = <<>>, !.out = Append(@, text)]
PushCoalesced_Longer(s, sentence) ==
    LET text == Joined(s.pending, sentence)
    IN  IF sentence = <<>> THEN s
        ELSE IF config.minSegment > 0 /\ Len(text) <= config.minSegment
        THEN [s EXCEPT !.pending = text]
        ELSE [s EXCEPT !.pending = <<>>, !.out = Append(@, text)]
PushCoalesced(s, sentence) ==
    LET text == Joined(s.pending, sentence)
    IN  IF sentence = <<>> THEN s
        ELSE IF Len(text) < config.minSegment
        THEN [s EXCEPT !.pending = text]
        ELSE [s EXCEPT !.pending = <<>>, !.out = Append(@, text)]

(* emitSentences: the scan starts again behind each sentence. *)
EmitSentences(s) ==
    LET cut[at \in 0 .. Len(s.text)] ==
            LET text  == From(s.text, at + 1)
                found == FindSentenceEnd(text, IF at = 0 THEN s.scanned ELSE 0)
                rest  == cut[at + found.end]
            IN  IF found.end = 0
                THEN [sentences |-> <<>>, text |-> text, scanned |-> found.scanned]
                ELSE [rest EXCEPT !.sentences =
                        <<WithPeriod(Strip(SubSeq(text, 1, found.end)))>> \o @]
        pushed == FoldLeft(PushCoalesced, s, cut[0].sentences)
    IN  [pushed EXCEPT !.text = cut[0].text, !.scanned = cut[0].scanned]

-----------------------------------------------------------------------------
(* One round of the loop of segment. *)
Fed(s, bytes) ==
    EmitSentences(RemoveThinking(AccumulateUtf8Pieces([s EXCEPT !.bytes = @ \o bytes])))

(* flush.  Mutant: a marker that did not become one is dropped. *)
Flushed_NoHeld(s) ==
    LET t == EmitSentences([s EXCEPT !.bytes = <<>>, !.utf8 = <<>>])
        tail == Strip(t.text)
        last == IF tail = <<>> THEN t.pending ELSE WithPeriod(Joined(t.pending, tail))
    IN  [t EXCEPT !.text = <<>>, !.pending = <<>>,
                  !.out = IF last = <<>> THEN @ ELSE Append(@, last)]
Flushed(s) ==
    LET t == EmitSentences([s EXCEPT !.bytes = <<>>, !.utf8 = <<>>,
                                     !.text = IF s.inThink THEN @ ELSE @ \o s.utf8])
        tail == Strip(t.text)
        last == IF tail = <<>> THEN t.pending ELSE WithPeriod(Joined(t.pending, tail))
    IN  [t EXCEPT !.text = <<>>, !.pending = <<>>,
                  !.out = IF last = <<>> THEN @ ELSE Append(@, last)]

Init ==
    /\ seg = Fresh /\ done = TRUE /\ pieces = 0 /\ input = <<>>
    /\ config \in Configs /\ stream \in Streams

(* A call of segment resets the segmenter. *)
Segment ==
    /\ done
    /\ done' = FALSE /\ seg' = Fresh /\ pieces' = 0 /\ input' = <<>>
    /\ config' \in Configs /\ stream' \in Streams

Piece(p) ==
    /\ ~done /\ pieces < MaxPieces
    /\ seg' = Fed(seg, p)
    /\ input' = input \o p
    /\ pieces' = pieces + 1
    /\ UNCHANGED <<config, stream, done>>

End ==
    /\ ~done
    /\ seg' = Flushed(seg)
    /\ done' = TRUE
    /\ UNCHANGED <<config, stream, pieces, input>>

Next == Segment \/ End \/ \E p \in stream : Piece(p)

Spec == Init /\ [][Next]_vars
-----------------------------------------------------------------------------
(* What comes out, stated without the buffers. *)

Bytes == UNION {Range(p) : p \in UNION Streams}

(* A character starts at position i of b: a lead and all its continuations. *)
IsCharacter(b, i) ==
    LET n == LeadLength(b[i])
    IN  /\ n > 0 /\ i + n - 1 <= Len(b)
        /\ \A k \in i + 1 .. i + n - 1 : b[k] \in Continuation

(* The characters of b that can be spoken. *)
Text(b) ==
    LET char(i) == SubSeq(b, i, i + LeadLength(b[i]) - 1)
    IN  FlattenSeq([i \in DOMAIN b |->
            IF IsCharacter(b, i) /\ ~IsEmoji(char(i)) THEN char(i) ELSE <<>>])

(* b without an unfinished character at its end, and all that is behind its
   lead. *)
Whole(b) ==
    LET unfinished == {i \in DOMAIN b : i + LeadLength(b[i]) - 1 > Len(b)}
    IN  IF unfinished = {} THEN b ELSE SubSeq(b, 1, Min(unfinished) - 1)

(* u without its think blocks, the last of which may be open. *)
Shown(u) ==
    LET hidden(j) ==
            \E s \in Occurrences(u, ThinkStart) :
                /\ s <= j
                /\ \A e \in Occurrences(u, ThinkEnd) : s < e => j < e + Len(ThinkEnd)
    IN  FlattenSeq([j \in DOMAIN u |-> IF hidden(j) THEN <<>> ELSE <<u[j]>>])

Words(u) ==
    LET blank(i) == i \in {0, Len(u) + 1} \/ u[i] \in Whitespace
        end(i) == Min({k \in i .. Len(u) : blank(k + 1)})
    IN  FlattenSeq([i \in DOMAIN u |->
            IF blank(i - 1) /\ ~blank(i) THEN <<SubSeq(u, i, end(i))>> ELSE <<>>])

(* The segments have the words of the input b, and periods behind some. *)
Speaks(out, b) ==
    LET words  == Words(Shown(Text(b)))
        spoken == FlattenSeq([k \in DOMAIN out |-> Words(out[k])])
    IN  /\ Len(spoken) = Len(words)
        /\ \A k \in DOMAIN words : spoken[k] \in {words[k], Append(words[k], ".")}

(* Type invariant; no segment is empty, and the scan stays within the text. *)
TypeOK ==
    /\ {seg.bytes, seg.utf8, seg.text} \subseteq Seq(Bytes)
    /\ seg.pending \in Seq(Bytes \cup {".", " "})
    /\ \A k \in DOMAIN seg.out : seg.out[k] \in Seq(Bytes \cup {".", " "}) \ {<<>>}
    /\ seg.inThink \in BOOLEAN /\ seg.scanned \in Nat
    /\ ~done => seg.scanned <= Len(seg.text)
    /\ config \in Configs /\ stream \in Streams /\ pieces \in 0 .. MaxPieces
    /\ done \in BOOLEAN /\ input \in Seq(Bytes)

(* However the model cuts its output into pieces, the buffers and the segments
   are those of one piece with all of it: characters, markers, tags and
   sentence ends split between pieces are not missed, and positions the scan
   of findSentenceEnd has rejected stay rejected. *)
ChunkIndependent ==
    input # <<>> =>
        seg = IF done THEN Flushed(Fed(Fresh, input)) ELSE Fed(Fresh, input)

(* At the end, the segments have all words that are shown, in order and with
   nothing between them lost: what accumulateUtf8Pieces, removeThinking and
   findSentenceEnd held back is released by flush, and only malformed bytes,
   emoji and think blocks are gone.  This is about Whole(input): the bytes behind
   a lead whose character the end cuts off are lost, as NoTextLost shows. *)
TextKept == done => Speaks(seg.out, Whole(input))

(* "drop the lead and resynchronise at the next byte": a lead without its
   continuations costs no other byte, the end of the input included. *)
NoTextLost == done => Speaks(seg.out, input)

(* What the TTS gets: every segment starts and ends with text, closes with
   punctuation, tags aside (it may be tags only), and none but the last of an
   input is shorter than minSegmentLength. *)
SegmentsSpeakable ==
    \A k \in DOMAIN seg.out :
        LET text   == seg.out[k]
            spoken == SolidOf(text)
        IN  /\ {text[1], Last(text)} \cap Whitespace = {}
            /\ spoken # {} => \/ text[Max(spoken)] \in {".", "!"}
                              \/ IsSuffix(Ellipsis, SubSeq(text, 1, Max(spoken)))
            /\ Len(text) >= config.minSegment \/ (done /\ k = Len(seg.out))

(* "The segmenter never splits a tag across segments": the tags of the segments
   are those of the shown text, whole and in its order. *)
TagsWhole ==
    LET names(text) == FlattenSeq([i \in DOMAIN text |->
            LET from == {t \in TagsOf(text) : t[1] = i}
            IN  IF from = {} THEN <<>> ELSE <<SubSeq(text, i, (CHOOSE t \in from : TRUE)[2])>>])
    IN  done => FlattenSeq([k \in DOMAIN seg.out |-> names(seg.out[k])])
                  = names(Shown(Text(Whole(input))))

(* Tags are never spoken and leave no gap: of a segment with tags, the TTS is
   given what is outside them, with one blank for each gap between two words, and
   none at an end or before a sign that closes a text; the segment is skipped only
   if there is nothing to speak outside its tags. *)
SpeechIsRest ==
    \A k \in DOMAIN seg.out :
        LET text  == seg.out[k]
            rest  == Picked(text, Untagged(text))
            solid == {i \in DOMAIN rest : rest[i] \notin Whitespace}
            next(i) == {j \in solid : j > i /\ (i .. j) \cap solid = {j}}
            gaps  == {i \in DOMAIN rest \ solid :
                        i - 1 \in solid /\ \E j \in next(i) : rest[j] \notin Closing}
        IN  TagsOf(text) # {} =>
                Speech(text) = IF HasSpeakableText(rest) THEN Picked(rest, solid \cup gaps)
                                                         ELSE <<>>

(* "yield as soon as the threshold is met": between two pieces, nothing is held
   that more input cannot change: a character that is cut off, the start of a
   marker, a text without a sure sentence end, and too short a segment. *)
NothingDecidedHeld ==
    /\ seg.bytes # <<>> => Len(seg.bytes) < LeadLength(Head(seg.bytes))
    /\ IsStrictPrefix(seg.utf8, IF seg.inThink THEN ThinkEnd ELSE ThinkStart)
    /\ seg.pending # <<>> => Len(seg.pending) < config.minSegment
    /\ \A i \in config.minSentence + 1 .. Len(seg.text) :
        /\ seg.text[i] # "\n"
        /\ seg.text[i] = "!" /\ i < Len(seg.text) => seg.text[i + 1] \notin Whitespace
=============================================================================
