-------------------------- MODULE SegmenterProofs --------------------------
(***************************************************************************)
(* Proofs about Segmenter, for every input and every cut of it into        *)
(* pieces.  Its loops are recursive functions over positions of a text,    *)
(* and a fold over sentences: induction goes over sets of positions.       *)
(***************************************************************************)
EXTENDS Segmenter, FiniteSetTheorems, WellFoundedInduction, SequenceTheorems, TLAPS

(***************************************************************************)
(* Numbers and sequences.                                                  *)
(***************************************************************************)

(* A nonempty set of numbers has a least one. *)
LEMMA LeastNumber ==
    ASSUME NEW S, S \subseteq Nat, S # {}
    PROVE  \E n \in S : \A m \in S : n <= m
PROOF
  <1> DEFINE T == {1 .. n : n \in S}
  <1>1. T \subseteq FiniteSubsetsOf(Nat)
    <2> SUFFICES ASSUME NEW n \in S PROVE 1 .. n \in FiniteSubsetsOf(Nat)
        OBVIOUS
    <2>1. IsFiniteSet(1 .. n)
          BY FS_Interval
    <2> QED
        BY <2>1 DEF FiniteSubsetsOf
  <1>2. IsWellFoundedOn(StrictSubsetOrdering(Nat), FiniteSubsetsOf(Nat))
        BY FS_StrictSubsetOrderingWellFounded
  <1>3. T # {}
        OBVIOUS
  <1> HIDE DEF T
  <1>4. PICK t \in T : \A u \in T : ~(<<u, t>> \in StrictSubsetOrdering(Nat))
        BY <1>1, <1>2, <1>3, WFMin
  <1>5. PICK n \in S : t = 1 .. n
        BY <1>4 DEF T
  <1>6. ASSUME NEW m \in S, m < n PROVE FALSE
    <2>1. 1 .. m \in T
          BY DEF T
    <2>2. 1 .. m \subseteq 1 .. n /\ 1 .. m # 1 .. n
      <3>1. n \in 1 .. n /\ n \notin 1 .. m
            BY <1>6
      <3> QED
            BY <1>6, <3>1
    <2>3. 1 .. m \in SUBSET Nat /\ 1 .. n \in SUBSET Nat
          OBVIOUS
    <2>4. <<1 .. m, 1 .. n>> \in StrictSubsetOrdering(Nat)
          BY <2>2, <2>3 DEF StrictSubsetOrdering
    <2> QED
        BY <1>4, <1>5, <2>1, <2>4
  <1> QED
      BY <1>6

(* The least number of a set of positions. *)
LEMMA MinIs ==
    ASSUME NEW S, S \subseteq Nat, S # {}
    PROVE  Min(S) \in S /\ \A m \in S : Min(S) <= m
PROOF
  <1>1. PICK n \in S : \A m \in S : n <= m
        BY LeastNumber
  <1> QED
      BY <1>1 DEF Min

(* The greatest number of a set of positions. *)
LEMMA MaxIs ==
    ASSUME NEW n \in Nat, NEW S, S \subseteq 0 .. n, S # {}
    PROVE  Max(S) \in S /\ \A m \in S : m <= Max(S)
PROOF
  <1> DEFINE T == {n - i : i \in S}
  <1>1. T \subseteq Nat /\ T # {}
    <2>1. ASSUME NEW i \in S PROVE n - i \in Nat
      <3>1. i \in 0 .. n
            OBVIOUS
      <3> QED
          BY <3>1
    <2> QED
        BY <2>1
  <1>2. PICK least \in T : \A m \in T : least <= m
        BY <1>1, LeastNumber
  <1>3. PICK i \in S : least = n - i
        BY <1>2
  <1>4. ASSUME NEW m \in S PROVE m <= i
    <2>1. n - i <= n - m
          BY <1>2, <1>3
    <2>2. m \in Nat /\ i \in Nat
          OBVIOUS
    <2> QED
        BY <2>1, <2>2
  <1>5. \A m \in S : i >= m
        BY <1>4
  <1> HIDE DEF T
  <1>6. Max(S) \in S /\ \A m \in S : Max(S) >= m
        BY <1>3, <1>5 DEF Max
  <1>7. ASSUME NEW m \in S PROVE m <= Max(S)
    <2>1. m \in 0 .. n /\ Max(S) \in 0 .. n
          BY <1>6
    <2>2. Max(S) >= m
          BY <1>6
    <2> QED
        BY <2>1, <2>2
  <1> QED
      BY <1>6, <1>7

(* Induction from the end of a text to its beginning. *)
LEMMA DownInduction ==
    ASSUME NEW m \in Nat, NEW n \in Nat, NEW S,
           \A i \in m .. n : (\A j \in i + 1 .. n : j \in S) => i \in S
    PROVE  m .. n \subseteq S
PROOF
  <1> DEFINE T == (m .. n) \ S
  <1> SUFFICES ASSUME T # {} PROVE FALSE
      OBVIOUS
  <1>1. T \subseteq 0 .. n
        OBVIOUS
  <1>2. PICK i \in T : \A j \in T : j <= i
    <2> HIDE DEF T
    <2> QED
        BY <1>1, MaxIs
  <1>3. ASSUME NEW j \in i + 1 .. n PROVE j \in S
    <2>1. j \in m .. n /\ ~(j <= i)
          OBVIOUS
    <2> QED
        BY <1>2, <2>1
  <1> QED
      BY <1>3

(* The rest of a sequence, behind its first k elements. *)
LEMMA FromIs ==
    ASSUME NEW S, NEW s \in Seq(S), NEW i \in Nat, i >= 1
    PROVE  /\ From(s, i) \in Seq(S)
           /\ Len(From(s, i)) = IF i <= Len(s) THEN Len(s) - i + 1 ELSE 0
           /\ \A k \in 1 .. Len(From(s, i)) : From(s, i)[k] = s[i + k - 1]
PROOF
  <1>1. PICK n \in Nat : n = Len(s)
        OBVIOUS
  <1>2. \A k \in i .. n : s[k] \in S
        BY <1>1
  <1>3. /\ SubSeq(s, i, n) \in Seq(S)
        /\ Len(SubSeq(s, i, n)) = IF i <= n THEN n - i + 1 ELSE 0
        /\ \A k \in 1 .. n - i + 1 : SubSeq(s, i, n)[k] = s[i + k - 1]
        BY <1>2, SubSeqProperties
  <1>4. From(s, i) = SubSeq(s, i, n)
        BY <1>1 DEF From
  <1>5. Len(From(s, i)) <= n - i + 1 \/ Len(From(s, i)) = 0
        BY <1>3, <1>4
  <1>6. ASSUME NEW k \in 1 .. Len(From(s, i)) PROVE k \in 1 .. n - i + 1
    <2>1. PICK l \in Nat : l = Len(From(s, i))
          BY <1>3, <1>4
    <2>2. l <= n - i + 1 \/ l = 0
          BY <1>5, <2>1
    <2> QED
        BY <2>1, <2>2
  <1> QED
      BY <1>1, <1>3, <1>4, <1>6

(* A part of a sequence. *)
LEMMA PartIs ==
    ASSUME NEW S, NEW s \in Seq(S), NEW i \in Nat, NEW j \in Nat, i >= 1, j <= Len(s)
    PROVE  /\ SubSeq(s, i, j) \in Seq(S)
           /\ Len(SubSeq(s, i, j)) = IF i <= j THEN j - i + 1 ELSE 0
           /\ \A k \in 1 .. j - i + 1 : SubSeq(s, i, j)[k] = s[i + k - 1]
PROOF
  <1>1. \A k \in i .. j : s[k] \in S
    <2>1. PICK n \in Nat : n = Len(s)
          OBVIOUS
    <2> QED
        BY <2>1
  <1> QED
      BY <1>1, SubSeqProperties

-----------------------------------------------------------------------------
(***************************************************************************)
(* UTF-8: what accumulateUtf8Pieces moves on, and what it leaves.          *)
(***************************************************************************)

(* A character has at most three bytes here. *)
LEMMA LeadLengthIs == \A b : LeadLength(b) \in 0 .. 3
PROOF
  BY DEF LeadLength

(* The scan at position i of the bytes b, given the scans behind it. *)
Utf8At(b, f, i) ==
    LET n == LeadLength(b[i])
        c == SubSeq(b, i, i + n - 1)
    IN  IF i > Len(b) \/ i + n - 1 > Len(b)
        THEN [bytes |-> From(b, i), utf8 |-> <<>>]
        ELSE IF n = 0 \/ ~ \A k \in 1 .. n - 1 : b[i + k] \in Continuation
        THEN f[i + 1]
        ELSE IF IsEmoji(c) THEN f[i + n] ELSE [f[i + n] EXCEPT !.utf8 = c \o @]

Utf8Scan(b, f) == f = [i \in 1 .. Len(b) + 1 |-> Utf8At(b, f, i)]

(* accumulateUtf8Pieces by the scan from the first byte on. *)
LEMMA AccumulateIs ==
    ASSUME NEW s
    PROVE  LET scan == CHOOSE f : Utf8Scan(s.bytes, f)
           IN  AccumulateUtf8Pieces(s) =
                   [s EXCEPT !.bytes = scan[1].bytes, !.utf8 = @ \o scan[1].utf8]
PROOF
  BY DEF AccumulateUtf8Pieces, Utf8Scan, Utf8At

(* It looks only at scans behind it. *)
LEMMA Utf8Local ==
    ASSUME NEW S, NEW b \in Seq(S), NEW f, NEW g, NEW i \in 1 .. Len(b) + 1,
           \A j \in i + 1 .. Len(b) + 1 : f[j] = g[j]
    PROVE  Utf8At(b, f, i) = Utf8At(b, g, i)
PROOF
  <1> DEFINE n == LeadLength(b[i])
  <1>1. n \in 0 .. 3
        BY LeadLengthIs
  <1> HIDE DEF n
  <1>2. PICK len \in Nat : len = Len(b)
        OBVIOUS
  <1>3. CASE i > len \/ i + n - 1 > len
        BY <1>2, <1>3 DEF Utf8At, n
  <1>4. CASE ~(i > len \/ i + n - 1 > len)
    <2>1. i + 1 \in i + 1 .. len + 1 /\ (n > 0 => i + n \in i + 1 .. len + 1)
          BY <1>1, <1>2, <1>4
    <2>2. f[i + 1] = g[i + 1] /\ (n > 0 => f[i + n] = g[i + n])
          BY <1>2, <2>1
    <2>3. n = 0 \/ n > 0
          BY <1>1
    <2> QED
        BY <2>2, <2>3 DEF Utf8At, n
  <1> QED
      BY <1>3, <1>4

(* There is such a scan of every text, from its end to its beginning. *)
LEMMA Utf8Exists ==
    ASSUME NEW S, NEW b \in Seq(S)
    PROVE  \E f : Utf8Scan(b, f)
PROOF
  <1>1. PICK n \in Nat : n = Len(b) + 1 /\ n >= 1
    <2>1. Len(b) + 1 \in Nat /\ Len(b) + 1 >= 1
          OBVIOUS
    <2> QED
        BY <2>1
  <1> DEFINE From_(i, g) == g = [j \in i .. n |-> Utf8At(b, g, j)]
             T == {i \in 1 .. n : \E g : From_(i, g)}
  <1>2. ASSUME NEW i \in 1 .. n, \A j \in i + 1 .. n : j \in T
        PROVE  i \in T
    <2>1. PICK g : i < n => From_(i + 1, g)
      <3>1. i < n => i + 1 \in i + 1 .. n
            OBVIOUS
      <3> QED
          BY <1>2, <3>1
    <2> DEFINE h == [j \in i .. n |-> IF j = i THEN Utf8At(b, g, i) ELSE g[j]]
    <2>2. \A j \in i + 1 .. n : h[j] = g[j]
          OBVIOUS
    <2>3. ASSUME NEW j \in i .. n PROVE h[j] = Utf8At(b, h, j)
      <3>1. \A k \in j + 1 .. n : g[k] = h[k]
        <4>1. \A k \in j + 1 .. n : k \in i + 1 .. n
              OBVIOUS
        <4> HIDE DEF h
        <4> QED
            BY <2>2, <4>1
      <3>2. Utf8At(b, g, j) = Utf8At(b, h, j)
        <4>1. j \in 1 .. Len(b) + 1
              BY <1>1
        <4> HIDE DEF h
        <4> QED
            BY <1>1, <3>1, <4>1, Utf8Local
      <3>3. CASE j = i
        <4>1. h[j] = Utf8At(b, g, j)
              BY <3>3
        <4> QED
            BY <3>2, <4>1
      <3>4. CASE j # i
        <4>1. i < n /\ j \in i + 1 .. n
              BY <3>4
        <4>2. h[j] = g[j]
              BY <2>2, <4>1
        <4>3. g[j] = Utf8At(b, g, j)
              BY <2>1, <4>1
        <4> QED
            BY <3>2, <4>2, <4>3
      <3> QED
          BY <3>3, <3>4
    <2>4. DOMAIN h = i .. n /\ h = [j \in i .. n |-> h[j]]
          OBVIOUS
    <2> HIDE DEF h
    <2>5. From_(i, h)
          BY <2>3, <2>4
    <2> QED
        BY <2>5
  <1>3. 1 \in 1 .. n
        BY <1>1
  <1> HIDE DEF T
  <1>4. 1 \in T
        BY <1>1, <1>2, <1>3, DownInduction
  <1> QED
      BY <1>1, <1>4 DEF T, Utf8Scan

(* A character that is cut off: its lead asks for more bytes. *)
CutOff(bytes) == bytes # <<>> => Len(bytes) < LeadLength(Head(bytes))

(* What a scan leaves is bytes of the text, and at most a character cut off. *)
LEMMA Utf8ScanTypes ==
    ASSUME NEW S, NEW b \in Seq(S), NEW f, Utf8Scan(b, f)
    PROVE  \A i \in 1 .. Len(b) + 1 :
               f[i] \in [bytes : Seq(S), utf8 : Seq(S)] /\ CutOff(f[i].bytes)
PROOF
  <1>1. PICK len \in Nat : len = Len(b)
        OBVIOUS
  <1> DEFINE Good(r) == r \in [bytes : Seq(S), utf8 : Seq(S)] /\ CutOff(r.bytes)
             T == {i \in 1 .. len + 1 : Good(f[i])}
  <1>2. ASSUME NEW i \in 1 .. len + 1, \A j \in i + 1 .. len + 1 : j \in T
        PROVE  i \in T
    <2> DEFINE n == LeadLength(b[i])
    <2>1. n \in 0 .. 3
          BY LeadLengthIs
    <2>2. f[i] = Utf8At(b, f, i)
          BY <1>1 DEF Utf8Scan
    <2>3. CASE i > len \/ i + n - 1 > len
      <3>1. f[i] = [bytes |-> From(b, i), utf8 |-> <<>>]
            BY <1>1, <2>2, <2>3 DEF Utf8At
      <3> HIDE DEF n
      <3>2. From(b, i) \in Seq(S) /\ <<>> \in Seq(S)
            BY <1>1, FromIs
      <3>3. CutOff(From(b, i))
        <4> SUFFICES ASSUME From(b, i) # <<>> PROVE Len(From(b, i)) < LeadLength(Head(From(b, i)))
            BY DEF CutOff
        <4>1. i <= len
          <5> SUFFICES ASSUME ~(i <= len) PROVE FALSE
              OBVIOUS
          <5>1. Len(From(b, i)) = 0
                BY <1>1, FromIs
          <5> QED
              BY <3>2, <5>1
        <4>2. Len(From(b, i)) = len - i + 1 /\ From(b, i)[1] = b[i]
          <5>1. Len(From(b, i)) = len - i + 1
                BY <1>1, <4>1, FromIs
          <5>2. 1 \in 1 .. Len(From(b, i))
                BY <4>1, <5>1
          <5>3. From(b, i)[1] = b[i + 1 - 1]
                BY <1>1, <5>2, FromIs
          <5> QED
              BY <5>1, <5>3
        <4>3. Head(From(b, i)) = b[i]
              BY <3>2, <4>2
        <4> QED
            BY <2>1, <2>3, <4>1, <4>2, <4>3 DEF n
      <3>4. [bytes |-> From(b, i), utf8 |-> <<>>] \in [bytes : Seq(S), utf8 : Seq(S)]
            BY <3>2
      <3>5. [bytes |-> From(b, i), utf8 |-> <<>>].bytes = From(b, i)
            OBVIOUS
      <3> QED
          BY <3>1, <3>3, <3>4, <3>5
    <2>4. CASE ~(i > len \/ i + n - 1 > len)
      <3> DEFINE c == SubSeq(b, i, i + n - 1)
      <3>1. f[i] = IF n = 0 \/ ~ \A k \in 1 .. n - 1 : b[i + k] \in Continuation
                   THEN f[i + 1]
                   ELSE IF IsEmoji(c) THEN f[i + n] ELSE [f[i + n] EXCEPT !.utf8 = c \o @]
            BY <1>1, <2>2, <2>4 DEF Utf8At
      <3> HIDE DEF n
      <3>2. i + 1 \in i + 1 .. len + 1 /\ (n # 0 => i + n \in i + 1 .. len + 1)
            BY <2>1, <2>4
      <3>3. Good(f[i + 1]) /\ (n # 0 => Good(f[i + n]))
            BY <1>2, <3>2
      <3>4. n # 0 => c \in Seq(S)
        <4>1. n # 0 => i + n - 1 \in Nat /\ i + n - 1 <= len /\ i \in Nat /\ i >= 1
              BY <2>1, <2>4
        <4> QED
            BY <1>1, <4>1, PartIs
      <3> HIDE DEF c
      <3>5. ASSUME n # 0 PROVE Good([f[i + n] EXCEPT !.utf8 = c \o @])
        <4> DEFINE r == f[i + n]
        <4>1. r \in [bytes : Seq(S), utf8 : Seq(S)] /\ CutOff(r.bytes) /\ c \in Seq(S)
              BY <3>3, <3>4, <3>5
        <4> HIDE DEF r
        <4>2. c \o r.utf8 \in Seq(S)
              BY <4>1, ConcatProperties
        <4>3. /\ [r EXCEPT !.utf8 = c \o @] \in [bytes : Seq(S), utf8 : Seq(S)]
              /\ [r EXCEPT !.utf8 = c \o @].bytes = r.bytes
              BY <4>1, <4>2
        <4>4. Good([r EXCEPT !.utf8 = c \o @])
              BY <4>1, <4>3
        <4> QED
            BY <4>4 DEF r
      <3> HIDE DEF Good
      <3>6. Good(f[i])
            BY <3>1, <3>3, <3>5
      <3> QED
          BY <3>6
    <2> QED
        BY <2>3, <2>4
  <1> HIDE DEF T
  <1>3. 1 .. len + 1 \subseteq T
    <2>1. PICK n \in Nat : n = len + 1
          OBVIOUS
    <2>2. \A i \in 1 .. n : (\A j \in i + 1 .. n : j \in T) => i \in T
          BY <1>2, <2>1
    <2> QED
        BY <2>1, <2>2, DownInduction
  <1> QED
      BY <1>1, <1>3 DEF T

(* The states of a Segmenter: its buffers, and segments that are not empty. *)
Chars == Bytes \cup {".", " "}
States == [bytes : Seq(Bytes), utf8 : Seq(Bytes), text : Seq(Bytes),
           pending : Seq(Chars), inThink : BOOLEAN, scanned : Nat,
           out : Seq(Seq(Chars) \ {<<>>})]

(* accumulateUtf8Pieces touches two buffers and leaves no whole character. *)
LEMMA AccumulateTypes ==
    ASSUME NEW s \in States
    PROVE  LET r == AccumulateUtf8Pieces(s)
           IN  /\ r \in States /\ CutOff(r.bytes)
               /\ r.text = s.text /\ r.pending = s.pending /\ r.inThink = s.inThink
               /\ r.scanned = s.scanned /\ r.out = s.out
PROOF
  <1> DEFINE f == CHOOSE g : Utf8Scan(s.bytes, g)
             r == AccumulateUtf8Pieces(s)
  <1>1. s.bytes \in Seq(Bytes) /\ s.utf8 \in Seq(Bytes)
        BY DEF States
  <1>2. Utf8Scan(s.bytes, f)
        BY <1>1, Utf8Exists
  <1>3. r = [s EXCEPT !.bytes = f[1].bytes, !.utf8 = @ \o f[1].utf8]
        BY AccumulateIs
  <1> HIDE DEF f, r
  <1>4. f[1] \in [bytes : Seq(Bytes), utf8 : Seq(Bytes)] /\ CutOff(f[1].bytes)
    <2>1. 1 \in 1 .. Len(s.bytes) + 1
          BY <1>1
    <2> QED
        BY <1>1, <1>2, <2>1, Utf8ScanTypes
  <1>5. f[1].bytes \in Seq(Bytes) /\ s.utf8 \o f[1].utf8 \in Seq(Bytes)
        BY <1>1, <1>4, ConcatProperties
  <1> DEFINE u == s.utf8 \o f[1].utf8
  <1>6. r = [s EXCEPT !.bytes = f[1].bytes, !.utf8 = u]
        BY <1>3 DEF States
  <1> HIDE DEF u
  <1>7. u \in Seq(Bytes)
        BY <1>5 DEF u
  <1>8. /\ r \in States /\ r.bytes = f[1].bytes
        /\ r.text = s.text /\ r.pending = s.pending /\ r.inThink = s.inThink
        /\ r.scanned = s.scanned /\ r.out = s.out
        BY <1>5, <1>6, <1>7 DEF States
  <1> QED
      BY <1>4, <1>8 DEF r

-----------------------------------------------------------------------------
(***************************************************************************)
(* Think blocks: what removeThinking shows, and what it holds back.        *)
(***************************************************************************)

MarkerOf(t) == IF t THEN ThinkEnd ELSE ThinkStart

(* The rest of the text u at position i, inside a think block or not, given the
   rests behind it. *)
ThinkIn(u, f, i, t) ==
    LET visible(from, to) == IF t THEN <<>> ELSE SubSeq(u, from, to)
        marker == MarkerOf(t)
        found  == {k \in Occurrences(u, marker) : k >= i}
        held   == HeldPrefixLength(From(u, i), marker)
        rest   == f[Min(found) + Len(marker)][~t]
    IN  IF found = {}
        THEN [text |-> visible(i, Len(u) - held),
              utf8 |-> From(u, Len(u) - held + 1), inThink |-> t]
        ELSE [rest EXCEPT !.text = visible(i, Min(found) - 1) \o @]

ThinkAt(u, f, i) == [t \in BOOLEAN |-> ThinkIn(u, f, i, t)]
ThinkScan(u, f) == f = [i \in 1 .. Len(u) + 1 |-> ThinkAt(u, f, i)]

(* removeThinking by the scan from the first byte on. *)
LEMMA ThinkIs ==
    ASSUME NEW s
    PROVE  LET r == (CHOOSE f : ThinkScan(s.utf8, f))[1][s.inThink]
           IN  RemoveThinking(s) =
                   [s EXCEPT !.utf8 = r.utf8, !.text = @ \o r.text, !.inThink = r.inThink]
PROOF
  BY DEF RemoveThinking, ThinkScan, ThinkAt, ThinkIn, MarkerOf

(* The markers of a think block. *)
LEMMA MarkerIs ==
    ASSUME NEW t \in BOOLEAN
    PROVE  /\ MarkerOf(t) \in Seq({"<", "/", "t", ">"}) /\ Len(MarkerOf(t)) \in 3 .. 4
           /\ MarkerOf(t) = IF t THEN ThinkEnd ELSE ThinkStart
PROOF
  <1> DEFINE S == {"<", "/", "t", ">"}
  <1>1. ThinkEnd \in Seq(S) /\ Len(ThinkEnd) = 4
        BY DEF ThinkEnd
  <1>2. ThinkStart \in Seq(S) /\ Len(ThinkStart) = 3
        BY DEF ThinkStart
  <1> QED
      BY <1>1, <1>2 DEF MarkerOf

(* A marker that is found ends within the text. *)
LEMMA FoundIs ==
    ASSUME NEW S, NEW u \in Seq(S), NEW t \in BOOLEAN, NEW i \in 1 .. Len(u) + 1,
           NEW found, found = {k \in Occurrences(u, MarkerOf(t)) : k >= i}, found # {}
    PROVE  /\ Min(found) \in i .. Len(u)
           /\ Min(found) + Len(MarkerOf(t)) \in i + 1 .. Len(u) + 1
PROOF
  <1>1. PICK len \in Nat : len = Len(u)
        OBVIOUS
  <1>2. PICK m \in 3 .. 4 : m = Len(MarkerOf(t))
        BY MarkerIs
  <1>3. ASSUME NEW k \in found PROVE k \in i .. len - m + 1
    <2>1. k \in 1 .. len - m + 1 /\ k >= i
          BY <1>1, <1>2 DEF Occurrences
    <2> QED
        BY <2>1
  <1>4. found \subseteq Nat
    <2>1. i .. len - m + 1 \subseteq Nat
          BY <1>1, <1>2
    <2> QED
        BY <1>3, <2>1
  <1>5. Min(found) \in found
        BY <1>4, MinIs
  <1>6. PICK k \in i .. len - m + 1 : k = Min(found)
        BY <1>3, <1>5
  <1>7. k \in i .. len /\ k + m \in i + 1 .. len + 1
    <2>1. i \in Nat /\ m \in Nat /\ k \in Nat /\ i <= k /\ k <= len - m + 1 /\ 3 <= m
          BY <1>1, <1>2, <1>6
    <2> QED
        BY <2>1
  <1> QED
      BY <1>1, <1>2, <1>6, <1>7

(* The scan looks only at scans behind it. *)
LEMMA ThinkLocal ==
    ASSUME NEW S, NEW u \in Seq(S), NEW f, NEW g, NEW i \in 1 .. Len(u) + 1,
           \A j \in i + 1 .. Len(u) + 1 : f[j] = g[j]
    PROVE  ThinkAt(u, f, i) = ThinkAt(u, g, i)
PROOF
  <1> SUFFICES ASSUME NEW t \in BOOLEAN PROVE ThinkIn(u, f, i, t) = ThinkIn(u, g, i, t)
      BY DEF ThinkAt
  <1> DEFINE found == {k \in Occurrences(u, MarkerOf(t)) : k >= i}
  <1>1. CASE found = {}
        BY <1>1 DEF ThinkIn
  <1>2. CASE found # {}
    <2> DEFINE j == Min(found) + Len(MarkerOf(t))
    <2>1. j \in i + 1 .. Len(u) + 1
      <3> HIDE DEF found
      <3>1. found = {k \in Occurrences(u, MarkerOf(t)) : k >= i}
            BY DEF found
      <3> QED
          BY <1>2, <3>1, FoundIs
    <2> HIDE DEF j
    <2>2. f[j] = g[j]
          BY <2>1
    <2>3. f[Min(found) + Len(MarkerOf(t))] = g[Min(found) + Len(MarkerOf(t))]
          BY <2>2 DEF j
    <2> QED
        BY <1>2, <2>3 DEF ThinkIn
  <1> QED
      BY <1>1, <1>2

(* There is such a scan of every text. *)
LEMMA ThinkExists ==
    ASSUME NEW S, NEW u \in Seq(S)
    PROVE  \E f : ThinkScan(u, f)
PROOF
  <1>1. PICK n \in Nat : n = Len(u) + 1 /\ n >= 1
    <2>1. Len(u) + 1 \in Nat /\ Len(u) + 1 >= 1
          OBVIOUS
    <2> QED
        BY <2>1
  <1> DEFINE From_(i, g) == g = [j \in i .. n |-> ThinkAt(u, g, j)]
             T == {i \in 1 .. n : \E g : From_(i, g)}
  <1>2. ASSUME NEW i \in 1 .. n, \A j \in i + 1 .. n : j \in T
        PROVE  i \in T
    <2>1. PICK g : i < n => From_(i + 1, g)
      <3>1. i < n => i + 1 \in i + 1 .. n
            OBVIOUS
      <3> QED
          BY <1>2, <3>1
    <2> DEFINE h == [j \in i .. n |-> IF j = i THEN ThinkAt(u, g, i) ELSE g[j]]
    <2>2. \A j \in i + 1 .. n : h[j] = g[j]
          OBVIOUS
    <2>3. ASSUME NEW j \in i .. n PROVE h[j] = ThinkAt(u, h, j)
      <3>1. \A k \in j + 1 .. n : g[k] = h[k]
        <4>1. \A k \in j + 1 .. n : k \in i + 1 .. n
              OBVIOUS
        <4> HIDE DEF h
        <4> QED
            BY <2>2, <4>1
      <3>2. ThinkAt(u, g, j) = ThinkAt(u, h, j)
        <4>1. j \in 1 .. Len(u) + 1
              BY <1>1
        <4> HIDE DEF h
        <4> QED
            BY <1>1, <3>1, <4>1, ThinkLocal
      <3>3. CASE j = i
        <4>1. h[j] = ThinkAt(u, g, j)
              BY <3>3
        <4> QED
            BY <3>2, <4>1
      <3>4. CASE j # i
        <4>1. i < n /\ j \in i + 1 .. n
              BY <3>4
        <4>2. h[j] = g[j]
              BY <2>2, <4>1
        <4>3. g[j] = ThinkAt(u, g, j)
              BY <2>1, <4>1
        <4> QED
            BY <3>2, <4>2, <4>3
      <3> QED
          BY <3>3, <3>4
    <2>4. DOMAIN h = i .. n /\ h = [j \in i .. n |-> h[j]]
          OBVIOUS
    <2> HIDE DEF h
    <2>5. From_(i, h)
          BY <2>3, <2>4
    <2> QED
        BY <2>5
  <1>3. 1 \in 1 .. n
        BY <1>1
  <1> HIDE DEF T
  <1>4. 1 \in T
        BY <1>1, <1>2, <1>3, DownInduction
  <1> QED
      BY <1>1, <1>4 DEF T, ThinkScan

(* What heldPrefixLength holds back is the start of a marker, and not all of it. *)
LEMMA HeldIs ==
    ASSUME NEW S, NEW text \in Seq(S), NEW t \in BOOLEAN,
           NEW held, held = HeldPrefixLength(text, MarkerOf(t))
    PROVE  /\ held \in 0 .. Len(text) /\ held < Len(MarkerOf(t))
           /\ SubSeq(MarkerOf(t), 1, held) = From(text, Len(text) - held + 1)
PROOF
  <1> DEFINE marker == MarkerOf(t)
             H == {n \in 0 .. Len(marker) - 1 :
                      n <= Len(text) /\ SubSeq(marker, 1, n) = From(text, Len(text) - n + 1)}
  <1>1. PICK len \in Nat : len = Len(text)
        OBVIOUS
  <1>2. PICK m \in 3 .. 4 : m = Len(marker)
        BY MarkerIs
  <1>3. marker \in Seq({"<", "/", "t", ">"})
        BY MarkerIs
  <1>4. held = Max(H)
        BY DEF HeldPrefixLength
  <1> HIDE DEF marker
  <1>5. 0 \in H
    <2>1. 0 \in 0 .. m - 1 /\ 0 <= len
          BY <1>1, <1>2
    <2>2. SubSeq(marker, 1, 0) = <<>>
      <3>1. /\ SubSeq(marker, 1, 0) \in Seq({"<", "/", "t", ">"})
            /\ Len(SubSeq(marker, 1, 0)) = 0
            BY <1>2, <1>3, PartIs
      <3> QED
          BY <3>1
    <2>3. From(text, len + 1) = <<>>
      <3>1. PICK n \in Nat : n = len + 1 /\ n >= 1 /\ ~(n <= len)
            OBVIOUS
      <3>2. From(text, n) \in Seq(S) /\ Len(From(text, n)) = 0
            BY <1>1, <3>1, FromIs
      <3> QED
          BY <3>1, <3>2
    <2>4. len - 0 + 1 = len + 1
          OBVIOUS
    <2> QED
        BY <1>1, <1>2, <2>1, <2>2, <2>3, <2>4
  <1>6. H \subseteq 0 .. m
    <2>1. 0 .. m - 1 \subseteq 0 .. m
          OBVIOUS
    <2> QED
        BY <1>2, <2>1
  <1>7. m \in Nat
        OBVIOUS
  <1>8. Max(H) \in H
    <2>1. H # {}
          BY <1>5
    <2> HIDE DEF H
    <2> QED
        BY <1>6, <1>7, <2>1, MaxIs
  <1>9. held \in 0 .. m - 1 /\ held <= len
        BY <1>1, <1>2, <1>4, <1>8
  <1>10. SubSeq(marker, 1, held) = From(text, Len(text) - held + 1)
        BY <1>4, <1>8
  <1>11. held \in 0 .. len /\ held < m
        BY <1>9
  <1> QED
      BY <1>1, <1>2, <1>10, <1>11 DEF marker

(* The first bytes of a marker, not all of them. *)
LEMMA StartOfMarker ==
    ASSUME NEW t \in BOOLEAN, NEW n \in Nat, n < Len(MarkerOf(t))
    PROVE  IsStrictPrefix(SubSeq(MarkerOf(t), 1, n), MarkerOf(t))
PROOF
  <1> DEFINE S == {"<", "/", "t", ">"}
             marker == MarkerOf(t)
             p == SubSeq(marker, 1, n)
  <1>1. PICK m \in 3 .. 4 : m = Len(marker)
        BY MarkerIs
  <1>2. marker \in Seq(S)
        BY MarkerIs
  <1> HIDE DEF marker, S
  <1>3. n <= m /\ n < m
        BY <1>1 DEF marker
  <1>4. /\ p \in Seq(S) /\ Len(p) = n
        /\ \A k \in 1 .. n : p[k] = marker[k]
    <2>1. 1 \in Nat /\ n <= Len(marker)
          BY <1>1, <1>3
    <2>2. /\ p \in Seq(S) /\ Len(p) = IF 1 <= n THEN n - 1 + 1 ELSE 0
          /\ \A k \in 1 .. n - 1 + 1 : p[k] = marker[1 + k - 1]
          BY <1>2, <2>1, PartIs
    <2>3. (IF 1 <= n THEN n - 1 + 1 ELSE 0) = n /\ n - 1 + 1 = n
          OBVIOUS
    <2> HIDE DEF p
    <2>4. ASSUME NEW k \in 1 .. n PROVE p[k] = marker[k]
      <3>1. 1 + k - 1 = k
            OBVIOUS
      <3>2. p[k] = marker[1 + k - 1]
            BY <2>2, <2>3
      <3> QED
          BY <3>1, <3>2
    <2> QED
        BY <2>2, <2>3, <2>4
  <1> HIDE DEF p
  <1>5. SubSeq(p, 1, n) = p
    <2>1. 1 \in Nat /\ n <= Len(p)
          BY <1>4
    <2> DEFINE q == SubSeq(p, 1, n)
    <2>2. /\ q \in Seq(S) /\ Len(q) = IF 1 <= n THEN n - 1 + 1 ELSE 0
          /\ \A k \in 1 .. n - 1 + 1 : q[k] = p[1 + k - 1]
          BY <1>4, <2>1, PartIs
    <2>3. (IF 1 <= n THEN n - 1 + 1 ELSE 0) = n /\ n - 1 + 1 = n
          OBVIOUS
    <2> HIDE DEF q
    <2>4. ASSUME NEW k \in 1 .. n PROVE q[k] = p[k]
      <3>1. 1 + k - 1 = k
            OBVIOUS
      <3>2. q[k] = p[1 + k - 1]
            BY <2>2, <2>3
      <3> QED
          BY <3>1, <3>2
    <2>5. q = p
          BY <1>4, <2>2, <2>3, <2>4
    <2> QED
        BY <2>5 DEF q
  <1>6. p # marker
        BY <1>1, <1>3, <1>4
  <1>7. IsPrefix(p, marker)
    <2>1. SubSeq(marker, 1, n) = p
          BY DEF p
    <2> QED
        BY <1>1, <1>3, <1>4, <1>5, <2>1 DEF IsPrefix
  <1>8. IsStrictPrefix(p, marker)
        BY <1>6, <1>7 DEF IsStrictPrefix
  <1> QED
      BY <1>8 DEF p, marker

(* What a scan leaves is bytes of the text, and a proper start of the marker that
   it looks for. *)
LEMMA ThinkScanTypes ==
    ASSUME NEW S, NEW u \in Seq(S), NEW f, ThinkScan(u, f)
    PROVE  \A i \in 1 .. Len(u) + 1 : \A t \in BOOLEAN :
               /\ f[i][t] \in [text : Seq(S), utf8 : Seq(S), inThink : BOOLEAN]
               /\ IsStrictPrefix(f[i][t].utf8, MarkerOf(f[i][t].inThink))
PROOF
  <1>1. PICK len \in Nat : len = Len(u)
        OBVIOUS
  <1> DEFINE Types == [text : Seq(S), utf8 : Seq(S), inThink : BOOLEAN]
             Good(r) == r \in Types /\ IsStrictPrefix(r.utf8, MarkerOf(r.inThink))
             T == {i \in 1 .. len + 1 : \A t \in BOOLEAN : Good(f[i][t])}
  <1>2. ASSUME NEW i \in 1 .. len + 1, \A j \in i + 1 .. len + 1 : j \in T, NEW t \in BOOLEAN
        PROVE  Good(f[i][t])
    <2> DEFINE marker == MarkerOf(t)
               found == {k \in Occurrences(u, marker) : k >= i}
               visible(from, to) == IF t THEN <<>> ELSE SubSeq(u, from, to)
    <2>1. f[i][t] = ThinkIn(u, f, i, t)
      <3>1. f[i] = ThinkAt(u, f, i)
            BY <1>1 DEF ThinkScan
      <3> QED
          BY <3>1 DEF ThinkAt
    <2>2. i \in Nat /\ i >= 1
          OBVIOUS
    <2>3. ASSUME NEW j \in Nat, j <= len PROVE visible(i, j) \in Seq(S)
      <3>1. SubSeq(u, i, j) \in Seq(S) /\ <<>> \in Seq(S)
            BY <1>1, <2>2, <2>3, PartIs
      <3> QED
          BY <3>1
    <2>4. CASE found = {}
      <3> DEFINE rest == From(u, i)
                 held == HeldPrefixLength(rest, marker)
      <3>1. f[i][t] = [text |-> visible(i, Len(u) - held),
                       utf8 |-> From(u, Len(u) - held + 1), inThink |-> t]
            BY <2>1, <2>4 DEF ThinkIn
      <3> HIDE DEF found, visible
      <3>2. /\ rest \in Seq(S) /\ Len(rest) = IF i <= len THEN len - i + 1 ELSE 0
            /\ \A k \in 1 .. Len(rest) : rest[k] = u[i + k - 1]
            BY <1>1, <2>2, FromIs
      <3>3. PICK l \in Nat : l = Len(rest) /\ l <= len /\ l = len + 1 - i
        <4>1. (IF i <= len THEN len - i + 1 ELSE 0) = len + 1 - i /\ len + 1 - i \in Nat /\ len + 1 - i <= len
              OBVIOUS
        <4> QED
            BY <3>2, <4>1
      <3> HIDE DEF rest
      <3>4. /\ held \in 0 .. Len(rest) /\ held < Len(marker)
            /\ SubSeq(marker, 1, held) = From(rest, Len(rest) - held + 1)
            BY <3>2, HeldIs
      <3> HIDE DEF held, marker
      <3>5. PICK h \in Nat : h = held /\ h <= l
            BY <3>3, <3>4
      <3>6. From(rest, l - h + 1) = From(u, len - h + 1)
        <4>1. PICK a \in Nat : a = l - h + 1 /\ a >= 1
              BY <3>5
        <4>2. PICK b \in Nat : b = len - h + 1 /\ b >= 1
              BY <3>3, <3>5
        <4>3. /\ From(rest, a) \in Seq(S)
              /\ Len(From(rest, a)) = IF a <= l THEN l - a + 1 ELSE 0
              /\ \A k \in 1 .. Len(From(rest, a)) : From(rest, a)[k] = rest[a + k - 1]
              BY <3>2, <3>3, <4>1, FromIs
        <4>4. /\ From(u, b) \in Seq(S)
              /\ Len(From(u, b)) = IF b <= len THEN len - b + 1 ELSE 0
              /\ \A k \in 1 .. Len(From(u, b)) : From(u, b)[k] = u[b + k - 1]
              BY <1>1, <4>2, FromIs
        <4>5. (IF a <= l THEN l - a + 1 ELSE 0) = h /\ (IF b <= len THEN len - b + 1 ELSE 0) = h
              BY <3>3, <3>5, <4>1, <4>2
        <4>6. ASSUME NEW k \in 1 .. h PROVE From(rest, a)[k] = From(u, b)[k]
          <5>1. From(rest, a)[k] = rest[a + k - 1] /\ From(u, b)[k] = u[b + k - 1]
                BY <4>3, <4>4, <4>5
          <5>2. PICK p \in 1 .. l : p = a + k - 1
                BY <3>5, <4>1
          <5>3. rest[p] = u[i + p - 1]
                BY <3>2, <3>3, <5>2
          <5>4. i + p - 1 = b + k - 1
                BY <3>3, <3>5, <4>1, <4>2, <5>2
          <5> QED
              BY <5>1, <5>2, <5>3, <5>4
        <4>7. From(rest, a) = From(u, b)
              BY <4>3, <4>4, <4>5, <4>6
        <4> QED
            BY <4>1, <4>2, <4>7
      <3>7. From(u, len - h + 1) = SubSeq(marker, 1, h)
            BY <3>3, <3>4, <3>5, <3>6
      <3>8. IsStrictPrefix(SubSeq(marker, 1, h), marker)
        <4>1. h < Len(MarkerOf(t))
              BY <3>4, <3>5 DEF marker
        <4> QED
            BY <4>1, StartOfMarker DEF marker
      <3>9. From(u, len - h + 1) \in Seq(S)
        <4>1. PICK b \in Nat : b = len - h + 1 /\ b >= 1
              BY <3>3, <3>5
        <4>2. From(u, b) \in Seq(S)
              BY <4>1, FromIs
        <4> QED
            BY <4>1, <4>2
      <3>10. visible(i, len - h) \in Seq(S)
        <4>1. PICK b \in Nat : b = len - h /\ b <= len
              BY <3>3, <3>5
        <4> QED
            BY <2>3, <4>1
      <3>11. f[i][t] = [text |-> visible(i, len - h),
                        utf8 |-> From(u, len - h + 1), inThink |-> t]
            BY <1>1, <3>1, <3>5
      <3>12. f[i][t] \in Types
            BY <3>9, <3>10, <3>11
      <3>13. f[i][t].utf8 = From(u, len - h + 1) /\ MarkerOf(f[i][t].inThink) = marker
            BY <3>11 DEF marker
      <3>14. IsStrictPrefix(f[i][t].utf8, MarkerOf(f[i][t].inThink))
            BY <3>7, <3>8, <3>13
      <3> QED
          BY <3>12, <3>14
    <2>5. CASE found # {}
      <3>1. found = {k \in Occurrences(u, MarkerOf(t)) : k >= i}
            OBVIOUS
      <3> DEFINE at == Min(found) + Len(marker)
                 rest == f[at][~t]
      <3>2. f[i][t] = [rest EXCEPT !.text = visible(i, Min(found) - 1) \o @]
            BY <2>1, <2>5 DEF ThinkIn
      <3> HIDE DEF found, visible
      <3>3. Min(found) \in i .. len /\ at \in i + 1 .. len + 1
            BY <1>1, <2>5, <3>1, FoundIs
      <3> HIDE DEF at
      <3>4. Good(rest)
            BY <1>2, <3>3
      <3>5. visible(i, Min(found) - 1) \in Seq(S)
        <4>1. PICK j \in Nat : j = Min(found) - 1 /\ j <= len
              BY <3>3
        <4> QED
            BY <2>3, <4>1
      <3> DEFINE v == visible(i, Min(found) - 1)
                 all == v \o rest.text
      <3> HIDE DEF rest
      <3>6. all \in Seq(S)
        <4>1. v \in Seq(S) /\ rest.text \in Seq(S)
              BY <3>4, <3>5
        <4> QED
            BY <4>1, ConcatProperties
      <3>7. f[i][t] = [rest EXCEPT !.text = all]
            BY <3>2, <3>4
      <3> HIDE DEF all
      <3>8. f[i][t] \in Types /\ f[i][t].utf8 = rest.utf8 /\ f[i][t].inThink = rest.inThink
            BY <3>4, <3>6, <3>7
      <3> QED
          BY <3>4, <3>8
    <2> QED
        BY <2>4, <2>5
  <1>3. ASSUME NEW i \in 1 .. len + 1, \A j \in i + 1 .. len + 1 : j \in T
        PROVE  i \in T
    <2> HIDE DEF Good
    <2> QED
        BY <1>2, <1>3
  <1> HIDE DEF T
  <1>4. 1 .. len + 1 \subseteq T
    <2>1. PICK n \in Nat : n = len + 1
          OBVIOUS
    <2>2. \A i \in 1 .. n : (\A j \in i + 1 .. n : j \in T) => i \in T
          BY <1>3, <2>1
    <2> QED
        BY <2>1, <2>2, DownInduction
  <1> QED
      BY <1>1, <1>4 DEF T

(* removeThinking moves on what is shown, and holds only the start of a marker. *)
LEMMA ThinkTypes ==
    ASSUME NEW s \in States
    PROVE  LET r == RemoveThinking(s)
           IN  /\ r \in States /\ IsStrictPrefix(r.utf8, MarkerOf(r.inThink))
               /\ r.bytes = s.bytes /\ r.pending = s.pending
               /\ r.scanned = s.scanned /\ r.out = s.out
               /\ \E more \in Seq(Bytes) : r.text = s.text \o more
PROOF
  <1> DEFINE f == CHOOSE g : ThinkScan(s.utf8, g)
             q == f[1][s.inThink]
             r == RemoveThinking(s)
  <1>1. s.utf8 \in Seq(Bytes) /\ s.text \in Seq(Bytes) /\ s.inThink \in BOOLEAN
        BY DEF States
  <1>2. ThinkScan(s.utf8, f)
        BY <1>1, ThinkExists
  <1>3. r = [s EXCEPT !.utf8 = q.utf8, !.text = @ \o q.text, !.inThink = q.inThink]
        BY ThinkIs
  <1> HIDE DEF f, r
  <1>4. /\ q \in [text : Seq(Bytes), utf8 : Seq(Bytes), inThink : BOOLEAN]
        /\ IsStrictPrefix(q.utf8, MarkerOf(q.inThink))
    <2>1. 1 \in 1 .. Len(s.utf8) + 1
          BY <1>1
    <2> QED
        BY <1>1, <1>2, <2>1, ThinkScanTypes
  <1> HIDE DEF q
  <1> DEFINE u == s.text \o q.text
  <1>5. u \in Seq(Bytes) /\ q.text \in Seq(Bytes)
        BY <1>1, <1>4, ConcatProperties
  <1>6. r = [s EXCEPT !.utf8 = q.utf8, !.text = u, !.inThink = q.inThink]
        BY <1>3 DEF States
  <1>7. r.text = u
        BY <1>6 DEF States
  <1>8. \E more \in Seq(Bytes) : r.text = s.text \o more
        BY <1>5, <1>7
  <1> HIDE DEF u
  <1>9. /\ r \in States /\ r.utf8 = q.utf8 /\ r.inThink = q.inThink
        /\ r.bytes = s.bytes /\ r.pending = s.pending
        /\ r.scanned = s.scanned /\ r.out = s.out
        BY <1>4, <1>5, <1>6 DEF States
  <1> QED
      BY <1>4, <1>8, <1>9 DEF r

-----------------------------------------------------------------------------
(***************************************************************************)
(* Sentences: where findSentenceEnd cuts, and what it has decided.         *)
(***************************************************************************)

(* Up to n, a sure sentence end has been ruled out; no more text changes that. *)
Checked(text, n) ==
    \A i \in config.minSentence + 1 .. n :
        /\ text[i] # "\n"
        /\ text[i] = "!" => i < Len(text) /\ text[i + 1] \notin Whitespace

(* There is no sure sentence end. *)
Settled(text) ==
    \A i \in config.minSentence + 1 .. Len(text) :
        /\ text[i] # "\n"
        /\ text[i] = "!" /\ i < Len(text) => text[i + 1] \notin Whitespace

(* A place that is not a stop of the scan is no sure sentence end. *)
LEMMA NoStop ==
    ASSUME NEW text, NEW i \in Nat, i <= Len(text), Len(text) \in Nat, i > config.minSentence,
           ~(IsCandidate(text, i) /\ (IsUndecided(text, i) \/ EndsSentence(text, i)))
    PROVE  /\ text[i] # "\n"
           /\ text[i] = "!" => i < Len(text) /\ text[i + 1] \notin Whitespace
PROOF
  <1>1. text[i] \in {"\n", "!"} => IsCandidate(text, i)
        BY DEF IsCandidate, Delimiters
  <1>2. text[i] # "\n"
        BY <1>1 DEF EndsSentence
  <1>3. ASSUME text[i] = "!" PROVE i < Len(text) /\ text[i + 1] \notin Whitespace
    <2>1. i # Len(text)
          BY <1>1, <1>3 DEF IsUndecided
    <2>2. i < Len(text)
          BY <2>1
    <2>3. ~(i < Len(text) /\ text[i + 1] \in Whitespace)
          BY <1>1, <1>3 DEF EndsSentence
    <2> QED
        BY <2>2, <2>3
  <1> QED
      BY <1>2, <1>3

(* A sentence end is within the text; without one, the scan may go on where it
   stopped, and the text is settled. *)
LEMMA FindIs ==
    ASSUME NEW S, NEW text \in Seq(S), NEW scanned \in Nat, scanned <= Len(text),
           config.minSentence \in Nat, Checked(text, scanned)
    PROVE  LET r == FindSentenceEnd(text, scanned)
           IN  /\ r.end \in 0 .. Len(text) /\ r.scanned \in 0 .. Len(text)
               /\ r.end = 0 => Checked(text, r.scanned) /\ Settled(text)
PROOF
  <1>1. PICK len \in Nat : len = Len(text)
        OBVIOUS
  <1>2. PICK min \in Nat : min = config.minSentence
        OBVIOUS
  <1> DEFINE Stop(i) == IsCandidate(text, i) /\ (IsUndecided(text, i) \/ EndsSentence(text, i))
             stops == {i \in scanned + 1 .. len : Stop(i)}
             r == FindSentenceEnd(text, scanned)
  <1>3. ASSUME NEW n \in Nat, n <= len, \A i \in stops : ~(i <= n)
        PROVE  Checked(text, n)
    <2> SUFFICES ASSUME NEW i \in min + 1 .. n
                 PROVE  /\ text[i] # "\n"
                        /\ text[i] = "!" => i < Len(text) /\ text[i + 1] \notin Whitespace
        BY <1>2 DEF Checked
    <2>1. CASE i <= scanned
      <3>1. i \in min + 1 .. scanned
            BY <2>1
      <3> QED
          BY <1>2, <3>1 DEF Checked
    <2>2. CASE ~(i <= scanned)
      <3>1. i \in scanned + 1 .. len /\ i <= n /\ i \in Nat /\ i <= len /\ i > min
            BY <1>3, <2>2
      <3>2. ~Stop(i)
            BY <1>3, <3>1
      <3> QED
          BY <1>1, <1>2, <3>1, <3>2, NoStop
    <2> QED
        BY <2>1, <2>2
  <1>4. r = IF stops = {}
            THEN [end |-> 0, scanned |-> len]
            ELSE [end |-> IF IsUndecided(text, Min(stops)) THEN 0 ELSE Min(stops),
                  scanned |-> Min(stops) - 1]
        BY <1>1 DEF FindSentenceEnd
  <1>5. CASE stops = {}
    <2>1. r = [end |-> 0, scanned |-> len]
          BY <1>4, <1>5
    <2>2. Checked(text, len)
      <3>1. len <= len
            OBVIOUS
      <3> QED
          BY <1>3, <1>5, <3>1
    <2>3. Settled(text)
          BY <1>1, <2>2 DEF Checked, Settled
    <2>4. r.end = 0 /\ r.scanned = len
          BY <2>1
    <2>5. 0 \in 0 .. len /\ len \in 0 .. len
          OBVIOUS
    <2> QED
        BY <1>1, <2>2, <2>3, <2>4, <2>5
  <1>6. CASE stops # {}
    <2>1. stops \subseteq Nat
      <3>1. scanned + 1 .. len \subseteq Nat
            OBVIOUS
      <3> QED
          BY <3>1
    <2>2. Min(stops) \in stops /\ \A m \in stops : Min(stops) <= m
      <3> HIDE DEF stops
      <3> QED
          BY <1>6, <2>1, MinIs
    <2>3. PICK m \in scanned + 1 .. len : m = Min(stops)
          BY <2>2
    <2>4. PICK n \in Nat : n = m - 1 /\ n <= len /\ n < m
      <3>1. m - 1 \in Nat /\ m - 1 <= len /\ m - 1 < m
            OBVIOUS
      <3> QED
          BY <3>1
    <2>5. \A i \in stops : ~(i <= n)
      <3> SUFFICES ASSUME NEW i \in stops PROVE ~(i <= n)
          OBVIOUS
      <3>1. m <= i
            BY <2>2, <2>3
      <3>2. i \in Nat /\ m \in Nat
            BY <2>1, <2>3
      <3> QED
          BY <2>4, <3>1, <3>2
    <2>6. Checked(text, n)
          BY <1>3, <2>4, <2>5
    <2>7. r.scanned = n /\ r.end = IF IsUndecided(text, m) THEN 0 ELSE m
          BY <1>4, <1>6, <2>3, <2>4
    <2>8. n \in 0 .. len /\ 0 \in 0 .. len /\ m \in 0 .. len /\ m # 0
          BY <2>3, <2>4
    <2>9. ASSUME r.end = 0 PROVE Settled(text)
      <3>1. text[m] # "\n" /\ m = len
            BY <1>1, <2>7, <2>8, <2>9 DEF IsUndecided
      <3> SUFFICES ASSUME NEW i \in min + 1 .. len
                   PROVE  /\ text[i] # "\n"
                          /\ text[i] = "!" /\ i < len => text[i + 1] \notin Whitespace
          BY <1>1, <1>2 DEF Settled
      <3>2. CASE i = len
            BY <3>1, <3>2
      <3>3. CASE i # len
        <4>1. i \in min + 1 .. n
              BY <2>4, <3>1, <3>3
        <4> QED
            BY <1>1, <1>2, <2>6, <4>1 DEF Checked
      <3> QED
          BY <3>2, <3>3
    <2> QED
        BY <1>1, <2>6, <2>7, <2>8, <2>9
  <1> QED
      BY <1>5, <1>6

-----------------------------------------------------------------------------
(***************************************************************************)
(* What a text closes with, tags aside.                                    *)
(***************************************************************************)

(* A greatest element is the maximum. *)
LEMMA MaxEquals ==
    ASSUME NEW n \in Nat, NEW S, S \subseteq 0 .. n, NEW p \in S, \A m \in S : m <= p
    PROVE  Max(S) = p
PROOF
  <1>1. Max(S) \in S /\ p <= Max(S)
        BY MaxIs
  <1>2. Max(S) \in 0 .. n /\ p \in 0 .. n /\ Max(S) <= p
        BY <1>1
  <1> QED
      BY <1>1, <1>2

(* A text backwards. *)
LEMMA ReverseIs ==
    ASSUME NEW S, NEW s \in Seq(S)
    PROVE  /\ Reverse(s) \in Seq(S) /\ Len(Reverse(s)) = Len(s)
           /\ \A k \in 1 .. Len(s) : Reverse(s)[k] = s[Len(s) - k + 1]
PROOF
  <1>1. PICK n \in Nat : n = Len(s)
        OBVIOUS
  <1>2. \A k \in 1 .. n : n - k + 1 \in 1 .. n
        OBVIOUS
  <1>3. \A k \in 1 .. n : s[k] \in S
        BY <1>1
  <1>4. \A k \in 1 .. n : s[n - k + 1] \in S
        BY <1>2, <1>3
  <1>5. Reverse(s) = [k \in 1 .. n |-> s[n - k + 1]]
        BY <1>1 DEF Reverse
  <1> QED
      BY <1>1, <1>4, <1>5

(* A suffix, byte by byte from the end. *)
EndsLike(s, t) ==
    /\ Len(s) <= Len(t)
    /\ \A k \in 0 .. Len(s) - 1 : s[Len(s) - k] = t[Len(t) - k]

(* IsSuffix compares byte by byte from the end. *)
LEMMA SuffixIs ==
    ASSUME NEW S, NEW R, NEW s \in Seq(S), NEW t \in Seq(R)
    PROVE  IsSuffix(s, t) <=> EndsLike(s, t)
PROOF
  <1>1. PICK m \in Nat : m = Len(s)
        OBVIOUS
  <1>2. PICK n \in Nat : n = Len(t)
        OBVIOUS
  <1> DEFINE s_ == Reverse(s)
             t_ == Reverse(t)
  <1>3. /\ s_ \in Seq(S) /\ Len(s_) = m /\ \A k \in 1 .. m : s_[k] = s[m - k + 1]
        /\ t_ \in Seq(R) /\ Len(t_) = n /\ \A k \in 1 .. n : t_[k] = t[n - k + 1]
        BY <1>1, <1>2, ReverseIs
  <1>4. IsSuffix(s, t) <=> m <= n /\ SubSeq(s_, 1, m) = SubSeq(t_, 1, m)
        BY <1>3 DEF IsSuffix, IsPrefix
  <1> HIDE DEF s_, t_
  <1>5. CASE m <= n
    <2> DEFINE p == SubSeq(s_, 1, m)
               q == SubSeq(t_, 1, m)
    <2>1. /\ p \in Seq(S) /\ Len(p) = IF 1 <= m THEN m - 1 + 1 ELSE 0
          /\ \A k \in 1 .. m - 1 + 1 : p[k] = s_[1 + k - 1]
      <3>1. 1 \in Nat /\ m <= Len(s_)
            BY <1>3
      <3> QED
          BY <1>3, <3>1, PartIs
    <2>2. /\ q \in Seq(R) /\ Len(q) = IF 1 <= m THEN m - 1 + 1 ELSE 0
          /\ \A k \in 1 .. m - 1 + 1 : q[k] = t_[1 + k - 1]
      <3>1. 1 \in Nat /\ m <= Len(t_)
            BY <1>3, <1>5
      <3> QED
          BY <1>3, <3>1, PartIs
    <2>3. (IF 1 <= m THEN m - 1 + 1 ELSE 0) = m /\ m - 1 + 1 = m
          OBVIOUS
    <2> HIDE DEF p, q
    <2>4. ASSUME NEW k \in 1 .. m
          PROVE  p[k] = s[m - k + 1] /\ q[k] = t[n - k + 1]
      <3>1. 1 + k - 1 = k /\ k \in 1 .. n
            BY <1>5
      <3>2. p[k] = s_[1 + k - 1] /\ q[k] = t_[1 + k - 1]
            BY <2>1, <2>2, <2>3
      <3> QED
          BY <1>3, <3>1, <3>2
    <2>5. p = q <=> \A k \in 1 .. m : s[m - k + 1] = t[n - k + 1]
      <3>1. p \in Seq(S \cup R) /\ q \in Seq(S \cup R) /\ Len(p) = m /\ Len(q) = m
            BY <2>1, <2>2, <2>3
      <3>2. ASSUME p = q, NEW k \in 1 .. m PROVE s[m - k + 1] = t[n - k + 1]
            BY <2>4, <3>2
      <3>3. ASSUME \A k \in 1 .. m : s[m - k + 1] = t[n - k + 1] PROVE p = q
        <4>1. \A k \in 1 .. m : p[k] = q[k]
              BY <2>4, <3>3
        <4> QED
            BY <3>1, <4>1
      <3> QED
          BY <3>2, <3>3
    <2>6. (\A k \in 1 .. m : s[m - k + 1] = t[n - k + 1]) <=> \A k \in 0 .. m - 1 : s[m - k] = t[n - k]
      <3>1. ASSUME \A k \in 1 .. m : s[m - k + 1] = t[n - k + 1], NEW k \in 0 .. m - 1
            PROVE  s[m - k] = t[n - k]
        <4>1. PICK j \in 1 .. m : j = k + 1 /\ m - j + 1 = m - k /\ n - j + 1 = n - k
              OBVIOUS
        <4> QED
            BY <3>1, <4>1
      <3>2. ASSUME \A k \in 0 .. m - 1 : s[m - k] = t[n - k], NEW k \in 1 .. m
            PROVE  s[m - k + 1] = t[n - k + 1]
        <4>1. PICK j \in 0 .. m - 1 : j = k - 1 /\ m - k + 1 = m - j /\ n - k + 1 = n - j
              OBVIOUS
        <4>2. s[m - j] = t[n - j]
              BY <3>2
        <4> QED
            BY <4>1, <4>2
      <3> QED
          BY <3>1, <3>2
    <2>7. IsSuffix(s, t) <=> p = q
          BY <1>4, <1>5 DEF p, q
    <2> QED
        BY <1>1, <1>2, <1>5, <2>5, <2>6, <2>7 DEF EndsLike
  <1>6. CASE ~(m <= n)
        BY <1>1, <1>2, <1>4, <1>6 DEF EndsLike
  <1> QED
      BY <1>5, <1>6

(* The braces of a tag, by name. *)
Open == "{"
Close == "}"

(* Neither a brace nor the name of a tag is white space or punctuation. *)
LEMMA BracesAre ==
    /\ {Open, Close} \cap (Whitespace \cup {".", "!", "E2", "80", "A6"}) = {}
    /\ (Letters \cup Digits) \cap (Whitespace \cup {".", "!", "E2", "80", "A6"}) = {}
PROOF
  <1>1. {Open, Close} \cap (Whitespace \cup {".", "!", "E2", "80", "A6"}) = {}
        BY Zenon DEF Open, Close, Whitespace
  <1>2. (Letters \cup Digits) \cap (Whitespace \cup {".", "!", "E2", "80", "A6"}) = {}
        BY Zenon DEF Letters, Digits, Whitespace
  <1> QED
      BY <1>1, <1>2

(* A text with a tag at its end. *)
Tagged(x) == IsSuffix(<<Close, Close>>, x)

(* A text that ends with a tag ends with its brace. *)
LEMMA TaggedIs ==
    ASSUME NEW S, NEW x \in Seq(S), Tagged(x)
    PROVE  x # <<>> /\ Last(x) = Close
PROOF
  <1> DEFINE b == <<Close, Close>>
             C == {Close}
  <1>1. b \in Seq(C) /\ Len(b) = 2 /\ b[2] = Close
        OBVIOUS
  <1>2. PICK n \in Nat : n = Len(x)
        OBVIOUS
  <1>3. IsSuffix(b, x)
        BY DEF Tagged
  <1> HIDE DEF b, C
  <1>4. EndsLike(b, x)
        BY <1>1, <1>3, SuffixIs
  <1>5. 0 \in 0 .. 2 - 1 /\ 2 - 0 = 2 /\ n - 0 = n
        OBVIOUS
  <1>6. b[2] = x[n] /\ 2 <= n
        BY <1>1, <1>2, <1>4, <1>5 DEF EndsLike
  <1> QED
      BY <1>1, <1>2, <1>6 DEF Last

(* The text closes at position p. *)
ClosedAt(x, p) ==
    \/ x[p] \in {".", "!"}
    \/ p >= 3 /\ x[p - 2] = "E2" /\ x[p - 1] = "80" /\ x[p] = "A6"

(* An ellipsis at the end of a text, by its bytes. *)
LEMMA EllipsisIs ==
    ASSUME NEW S, NEW x \in Seq(S)
    PROVE  IsSuffix(Ellipsis, x) <=>
               /\ Len(x) >= 3 /\ x[Len(x) - 2] = "E2"
               /\ x[Len(x) - 1] = "80" /\ x[Len(x)] = "A6"
PROOF
  <1> DEFINE C == {"E2", "80", "A6"}
  <1>1. /\ Ellipsis \in Seq(C) /\ Len(Ellipsis) = 3
        /\ Ellipsis[1] = "E2" /\ Ellipsis[2] = "80" /\ Ellipsis[3] = "A6"
        BY DEF Ellipsis
  <1> HIDE DEF C
  <1>2. PICK n \in Nat : n = Len(x)
        OBVIOUS
  <1>3. IsSuffix(Ellipsis, x) <=>
            3 <= n /\ \A k \in 0 .. 3 - 1 : Ellipsis[3 - k] = x[n - k]
    <2>1. IsSuffix(Ellipsis, x) <=> EndsLike(Ellipsis, x)
          BY <1>1, SuffixIs
    <2> QED
        BY <1>1, <1>2, <2>1 DEF EndsLike
  <1>4. 0 .. 3 - 1 = {0, 1, 2} /\ 3 - 0 = 3 /\ 3 - 1 = 2 /\ 3 - 2 = 1 /\ n - 0 = n
        OBVIOUS
  <1>5. (\A k \in 0 .. 3 - 1 : Ellipsis[3 - k] = x[n - k]) <=>
            Ellipsis[3] = x[n] /\ Ellipsis[2] = x[n - 1] /\ Ellipsis[1] = x[n - 2]
        BY <1>4
  <1>6. 3 <= n <=> n >= 3
        OBVIOUS
  <1> QED
      BY <1>1, <1>2, <1>3, <1>5, <1>6

(* The same of the first p bytes of a text. *)
LEMMA ClosedAtIs ==
    ASSUME NEW S, NEW x \in Seq(S), NEW p \in 1 .. Len(x)
    PROVE  /\ EndsWithPunctuation(SubSeq(x, 1, p)) <=> ClosedAt(x, p)
           /\ x[p] \in {".", "!"} \/ IsSuffix(Ellipsis, SubSeq(x, 1, p)) <=> ClosedAt(x, p)
PROOF
  <1> DEFINE y == SubSeq(x, 1, p)
  <1>1. p \in Nat /\ p >= 1 /\ p <= Len(x)
    <2>1. PICK len \in Nat : len = Len(x)
          OBVIOUS
    <2>2. p \in 1 .. len
          BY <2>1
    <2>3. p \in Nat /\ p >= 1 /\ p <= len
          BY <2>2
    <2> QED
        BY <2>1, <2>3
  <1>2. y \in Seq(S) /\ Len(y) = p /\ \A k \in 1 .. p : y[k] = x[k]
    <2>1. 1 \in Nat
          OBVIOUS
    <2>2. /\ y \in Seq(S) /\ Len(y) = IF 1 <= p THEN p - 1 + 1 ELSE 0
          /\ \A k \in 1 .. p - 1 + 1 : y[k] = x[1 + k - 1]
          BY <1>1, <2>1, PartIs
    <2> HIDE DEF y
    <2>3. p - 1 + 1 = p /\ 1 <= p
          BY <1>1
    <2>4. \A k \in 1 .. p : 1 + k - 1 = k
          OBVIOUS
    <2> QED
        BY <2>2, <2>3, <2>4
  <1> HIDE DEF y
  <1>3. p \in 1 .. p /\ (p >= 3 => p - 1 \in 1 .. p /\ p - 2 \in 1 .. p)
        BY <1>1
  <1>4. y[p] = x[p] /\ (p >= 3 => y[p - 1] = x[p - 1] /\ y[p - 2] = x[p - 2])
        BY <1>2, <1>3
  <1>5. y # <<>> /\ Last(y) = y[p]
        BY <1>1, <1>2 DEF Last
  <1>6. IsSuffix(Ellipsis, y) <=> p >= 3 /\ y[p - 2] = "E2" /\ y[p - 1] = "80" /\ y[p] = "A6"
        BY <1>2, EllipsisIs
  <1>7. x[p] \in {".", "!"} \/ IsSuffix(Ellipsis, y) <=> ClosedAt(x, p)
        BY <1>4, <1>6 DEF ClosedAt
  <1>8. EndsWithPunctuation(y) <=> ClosedAt(x, p)
        BY <1>4, <1>5, <1>7 DEF EndsWithPunctuation
  <1> QED
      BY <1>7, <1>8 DEF y

(* A tag of x, from its first position to its last. *)
TagAt(x, f, l) ==
    /\ f + 4 <= l
    /\ x[f] = Open /\ x[f + 1] = Open
    /\ x[l - 1] = Close /\ x[l] = Close
    /\ \A k \in f + 2 .. l - 2 : x[k] \in Letters \cup Digits

(* TagsOf by the positions of each tag. *)
LEMMA TagsAre ==
    ASSUME NEW x
    PROVE  TagsOf(x) = {t \in (1 .. Len(x)) \X (1 .. Len(x)) : TagAt(x, t[1], t[2])}
PROOF
  BY Zenon DEF TagsOf, TagAt, Open, Close

(* A tag has no blank and no punctuation. *)
LEMMA TagBytes ==
    ASSUME NEW x, NEW f \in Nat, NEW l \in Nat, TagAt(x, f, l), NEW k \in f .. l
    PROVE  x[k] \notin Whitespace \cup {".", "!", "E2", "80", "A6"}
PROOF
  <1>1. f + 4 <= l
        BY DEF TagAt
  <1>2. k = f \/ k = f + 1 \/ k = l - 1 \/ k = l \/ k \in f + 2 .. l - 2
        BY <1>1
  <1>3. x[k] \in {Open, Close} \cup (Letters \cup Digits)
        BY <1>2 DEF TagAt
  <1> QED
      BY <1>3, BracesAre

(* A position is untagged if no tag spans it. *)
LEMMA UntaggedIs ==
    ASSUME NEW S, NEW x \in Seq(S), NEW k
    PROVE  k \in Untagged(x) <=>
               k \in 1 .. Len(x) /\ \A f, l \in 1 .. Len(x) : TagAt(x, f, l) => k \notin f .. l
PROOF
  <1> DEFINE n == 1 .. Len(x)
             Tags_ == {t \in n \X n : TagAt(x, t[1], t[2])}
  <1>1. k \in Untagged(x) <=> k \in n /\ \A t \in Tags_ : k \notin t[1] .. t[2]
        BY TagsAre DEF Untagged
  <1> HIDE DEF n
  <1>2. ASSUME \A t \in Tags_ : k \notin t[1] .. t[2], NEW f \in n, NEW l \in n, TagAt(x, f, l)
        PROVE  k \notin f .. l
    <2> DEFINE t == <<f, l>>
    <2>1. t \in n \X n /\ t[1] = f /\ t[2] = l
          OBVIOUS
    <2> QED
        BY <1>2, <2>1
  <1>3. ASSUME \A f, l \in n : TagAt(x, f, l) => k \notin f .. l, NEW t \in Tags_
        PROVE  k \notin t[1] .. t[2]
        BY <1>3
  <1> QED
      BY <1>1, <1>2, <1>3 DEF n

(* The last position of the solid text outside the tags. *)
LEMMA SolidIs ==
    ASSUME NEW S, NEW x \in Seq(S)
    PROVE  /\ SolidOf(x) \subseteq 1 .. Len(x) /\ SolidOf(x) \subseteq 0 .. Len(x)
           /\ SolidOf(x) # {} => /\ Max(SolidOf(x)) \in SolidOf(x)
                                 /\ \A k \in SolidOf(x) : k <= Max(SolidOf(x))
PROOF
  <1>1. SolidOf(x) \subseteq 1 .. Len(x)
        BY UntaggedIs DEF SolidOf
  <1>2. Len(x) \in Nat
        OBVIOUS
  <1>3. SolidOf(x) \subseteq 0 .. Len(x)
    <2>1. PICK n \in Nat : n = Len(x)
          OBVIOUS
    <2>2. 1 .. n \subseteq 0 .. n
          OBVIOUS
    <2> QED
        BY <1>1, <2>1, <2>2
  <1> QED
      BY <1>1, <1>2, <1>3, MaxIs

(* The last byte of a text that closes is outside its tags. *)
LEMMA LastSolid ==
    ASSUME NEW S, NEW x \in Seq(S), NEW n \in Nat, n = Len(x), n >= 1,
           x[n] \in {".", "!", "A6"}
    PROVE  n \in SolidOf(x) /\ Max(SolidOf(x)) = n
PROOF
  <1>1. x[n] \notin Whitespace
        BY DEF Whitespace
  <1>2. ASSUME NEW f \in 1 .. n, NEW l \in 1 .. n, TagAt(x, f, l) PROVE n \notin f .. l
    <2> SUFFICES ASSUME n \in f .. l PROVE FALSE
        OBVIOUS
    <2>1. f \in Nat /\ l \in Nat
          OBVIOUS
    <2> QED
        BY <1>2, <2>1, TagBytes
  <1>3. n \in 1 .. n
        OBVIOUS
  <1>4. n \in Untagged(x)
        BY <1>2, <1>3, UntaggedIs
  <1>5. n \in SolidOf(x)
        BY <1>1, <1>4 DEF SolidOf
  <1>6. SolidOf(x) \subseteq 0 .. n /\ \A k \in SolidOf(x) : k <= n
    <2>1. SolidOf(x) \subseteq 0 .. n
          BY SolidIs
    <2>2. \A k \in 0 .. n : k <= n
          OBVIOUS
    <2> QED
        BY <2>1, <2>2
  <1> QED
      BY <1>5, <1>6, MaxEquals

(* Texts that start and end with text, and close with punctuation, tags aside. *)
SolidEnds(x) == x # <<>> /\ x[1] \notin Whitespace /\ x[Len(x)] \notin Whitespace
Closes(x) == SolidOf(x) # {} => ClosedAt(x, Max(SolidOf(x)))
Speakable == {x \in Seq(Chars) : SolidEnds(x) /\ Closes(x)}

(* needsPeriod and the period make any text of solid ends speakable. *)
LEMMA WithPeriodIs ==
    ASSUME NEW x \in Seq(Chars), SolidEnds(x)
    PROVE  WithPeriod(x) \in Speakable
PROOF
  <1>1. PICK n \in Nat : n = Len(x) /\ n >= 1
    <2>1. Len(x) \in Nat /\ Len(x) >= 1
          BY DEF SolidEnds
    <2> QED
        BY <2>1
  <1>2. CASE NeedsPeriod(x)
    <2> DEFINE y == Append(x, ".")
    <2>1. PICK m \in Nat : m = n + 1 /\ m >= 1
          OBVIOUS
    <2>2. y \in Seq(Chars) /\ Len(y) = m /\ y[m] = "." /\ y[1] = x[1]
      <3>1. "." \in Chars
            BY DEF Chars
      <3>2. y \in Seq(Chars) /\ Len(y) = n + 1 /\ y[n + 1] = "." /\ \A k \in 1 .. n : y[k] = x[k]
            BY <1>1, <3>1, AppendProperties
      <3>3. 1 \in 1 .. n
            BY <1>1
      <3> HIDE DEF y
      <3> QED
          BY <2>1, <3>2, <3>3
    <2>3. WithPeriod(x) = y
          BY <1>2 DEF WithPeriod, SolidEnds
    <2> HIDE DEF y
    <2>4. m \in SolidOf(y) /\ Max(SolidOf(y)) = m
          BY <2>1, <2>2, LastSolid
    <2>5. Closes(y)
          BY <2>2, <2>4 DEF Closes, ClosedAt
    <2>6. y # <<>>
          BY <2>1, <2>2
    <2>7. SolidEnds(y)
          BY <2>2, <2>6 DEF SolidEnds, Whitespace
    <2> QED
        BY <2>2, <2>3, <2>5, <2>7 DEF Speakable
  <1>3. CASE ~NeedsPeriod(x)
    <2>1. WithPeriod(x) = x
          BY <1>3 DEF WithPeriod
    <2>2. ASSUME EndsWithPunctuation(x) PROVE ClosedAt(x, n) /\ x[n] \in {".", "!", "A6"}
      <3>1. SubSeq(x, 1, n) = x
            BY <1>1
      <3>2. n \in 1 .. n
            BY <1>1
      <3>3. EndsWithPunctuation(SubSeq(x, 1, n)) <=> ClosedAt(x, n)
            BY <1>1, <3>2, ClosedAtIs
      <3>4. ClosedAt(x, n)
            BY <2>2, <3>1, <3>3
      <3> QED
          BY <3>4 DEF ClosedAt
    <2>3. ASSUME EndsWithPunctuation(x) PROVE Closes(x)
      <3>1. Max(SolidOf(x)) = n
            BY <1>1, <2>2, <2>3, LastSolid
      <3> QED
          BY <2>2, <2>3, <3>1 DEF Closes
    <2>4. CASE ~Tagged(x)
      <3>1. EndsWithPunctuation(x)
            BY Zenon, <1>3, <2>4 DEF NeedsPeriod, Tagged, Close
      <3> QED
          BY <2>1, <2>3, <3>1 DEF Speakable
    <2>5. CASE Tagged(x)
      <3> DEFINE spoken == WithoutTrailingTags(x)
                 end == IF SolidOf(x) = {} THEN 0 ELSE Max(SolidOf(x))
      <3>1. spoken = <<>> \/ EndsWithPunctuation(spoken)
            BY Zenon, <1>3, <2>5 DEF NeedsPeriod, Tagged, Close
      <3>2. spoken = IF \E t \in TagsOf(x) : t[1] > end THEN SubSeq(x, 1, end) ELSE x
            BY DEF WithoutTrailingTags
      <3>3. ~EndsWithPunctuation(x)
        <4> SUFFICES ASSUME EndsWithPunctuation(x) PROVE FALSE
            OBVIOUS
        <4>1. x[n] = Close
              BY <1>1, <2>5, TaggedIs DEF Last
        <4>2. x[n] \in {".", "!", "A6"}
              BY <2>2
        <4> QED
            BY <4>1, <4>2, BracesAre
      <3>4. spoken = <<>> \/ spoken = SubSeq(x, 1, end)
        <4> HIDE DEF spoken, end
        <4> QED
            BY <3>1, <3>2, <3>3
      <3>5. ASSUME SolidOf(x) # {} PROVE ClosedAt(x, Max(SolidOf(x)))
        <4>1. end \in SolidOf(x) /\ end = Max(SolidOf(x))
              BY <3>5, SolidIs
        <4> HIDE DEF end, spoken
        <4>2. end \in 1 .. Len(x)
              BY <4>1, SolidIs
        <4>3. SubSeq(x, 1, end) # <<>>
          <5>1. PICK e \in 1 .. n : e = end
                BY <1>1, <4>2
          <5>2. e \in Nat /\ 1 <= e /\ e <= n
                OBVIOUS
          <5>3. Len(SubSeq(x, 1, e)) = e - 1 + 1
            <6>1. 1 \in Nat
                  OBVIOUS
            <6>2. Len(SubSeq(x, 1, e)) = IF 1 <= e THEN e - 1 + 1 ELSE 0
                  BY <1>1, <5>2, <6>1, PartIs
            <6> QED
                BY <5>2, <6>2
          <5>4. Len(SubSeq(x, 1, e)) # 0
                BY <5>2, <5>3
          <5>5. SubSeq(x, 1, e) # <<>>
            <6>1. Len(<<>>) = 0
                  OBVIOUS
            <6> QED
                BY Zenon, <5>4, <6>1
          <5> QED
              BY <5>1, <5>5
        <4>4. x # <<>>
              BY DEF SolidEnds
        <4>5. EndsWithPunctuation(SubSeq(x, 1, end))
          <5>1. spoken # <<>>
                BY <3>2, <4>3, <4>4
          <5> QED
              BY <3>1, <3>4, <5>1
        <4>6. ClosedAt(x, end)
              BY <4>2, <4>5, ClosedAtIs
        <4> QED
            BY <4>1, <4>6
      <3> QED
          BY <2>1, <3>5 DEF Speakable, Closes
    <2> QED
        BY <2>4, <2>5
  <1> QED
      BY <1>2, <1>3

(* Two texts with a blank between them: positions, and the tags of each. *)
Blank == " "
Glued(a, b) == Append(a, Blank) \o b

(* The blank of a join is white space. *)
LEMMA BlankIs == Blank \in Chars /\ Blank \in Whitespace
PROOF
  BY Zenon DEF Blank, Chars, Whitespace

IsGlued(y, a, na, b, nb) ==
    /\ y \in Seq(Chars) /\ Len(y) = na + nb + 1
    /\ \A k \in 1 .. na : y[k] = a[k]
    /\ y[na + 1] = Blank
    /\ \A k \in 1 .. nb : y[k + na + 1] = b[k]

(* The positions of a join. *)
LEMMA JoinIs ==
    ASSUME NEW a \in Seq(Chars), NEW b \in Seq(Chars), NEW y, y = Glued(a, b),
           NEW na \in Nat, na = Len(a), NEW nb \in Nat, nb = Len(b)
    PROVE  IsGlued(y, a, na, b, nb)
PROOF
  <1> DEFINE s == Append(a, Blank)
  <1>1. PICK m \in Nat : m = na + 1
        OBVIOUS
  <1>2. Blank \in Chars
        BY BlankIs
  <1>3. s \in Seq(Chars) /\ Len(s) = m /\ s[m] = Blank /\ \A k \in 1 .. na : s[k] = a[k]
        BY <1>1, <1>2, AppendProperties
  <1>4. y = s \o b
        BY DEF Glued
  <1> HIDE DEF s
  <1>5. /\ y \in Seq(Chars) /\ Len(y) = m + nb
        /\ \A k \in 1 .. m + nb : y[k] = IF k <= m THEN s[k] ELSE b[k - m]
    <2>1. /\ s \o b \in Seq(Chars) /\ Len(s \o b) = Len(s) + Len(b)
          /\ \A k \in 1 .. Len(s) + Len(b) :
                 (s \o b)[k] = IF k <= Len(s) THEN s[k] ELSE b[k - Len(s)]
          BY <1>3, ConcatProperties
    <2> QED
        BY <1>3, <1>4, <2>1
  <1>6. ASSUME NEW k \in 1 .. na PROVE y[k] = a[k]
    <2>1. k \in 1 .. m + nb /\ k <= m
          BY <1>1
    <2> QED
        BY <1>3, <1>5, <2>1
  <1>7. y[m] = Blank
    <2>1. m \in 1 .. m + nb /\ m <= m
          BY <1>1
    <2> QED
        BY <1>3, <1>5, <2>1
  <1>8. ASSUME NEW k \in 1 .. nb PROVE y[k + na + 1] = b[k]
    <2>1. PICK j \in 1 .. m + nb : j = k + na + 1 /\ ~(j <= m) /\ j - m = k
          BY <1>1
    <2>2. y[j] = b[j - m]
          BY <1>5, <2>1
    <2> QED
        BY <2>1, <2>2
  <1>9. Len(y) = na + nb + 1
        BY <1>1, <1>5
  <1> QED
      BY <1>1, <1>5, <1>6, <1>7, <1>8, <1>9 DEF IsGlued

(* The tags before the blank are those of the left text. *)
LEMMA JoinTagLeft ==
    ASSUME NEW a \in Seq(Chars), NEW b \in Seq(Chars), NEW y, y = Glued(a, b),
           NEW na \in Nat, na = Len(a), NEW f \in 1 .. na, NEW l \in 1 .. na
    PROVE  TagAt(y, f, l) <=> TagAt(a, f, l)
PROOF
  <1>1. PICK nb \in Nat : nb = Len(b)
        OBVIOUS
  <1>2. \A k \in 1 .. na : y[k] = a[k]
        BY <1>1, JoinIs DEF IsGlued
  <1> SUFFICES ASSUME f + 4 <= l PROVE TagAt(y, f, l) <=> TagAt(a, f, l)
      BY DEF TagAt
  <1>3. /\ f \in 1 .. na /\ f + 1 \in 1 .. na /\ l - 1 \in 1 .. na /\ l \in 1 .. na
        /\ \A k \in f + 2 .. l - 2 : k \in 1 .. na
        OBVIOUS
  <1> QED
      BY <1>2, <1>3 DEF TagAt

(* The tags behind the blank are those of the right text. *)
LEMMA JoinTagRight ==
    ASSUME NEW a \in Seq(Chars), NEW b \in Seq(Chars), NEW y, y = Glued(a, b),
           NEW na \in Nat, na = Len(a), NEW nb \in Nat, nb = Len(b),
           NEW f \in 1 .. nb, NEW l \in 1 .. nb
    PROVE  TagAt(y, f + na + 1, l + na + 1) <=> TagAt(b, f, l)
PROOF
  <1>1. \A k \in 1 .. nb : y[k + na + 1] = b[k]
    <2>1. IsGlued(y, a, na, b, nb)
          BY JoinIs
    <2> QED
        BY <2>1 DEF IsGlued
  <1>2. f + na + 1 + 4 <= l + na + 1 <=> f + 4 <= l
        OBVIOUS
  <1> SUFFICES ASSUME f + 4 <= l
               PROVE  TagAt(y, f + na + 1, l + na + 1) <=> TagAt(b, f, l)
      BY <1>2 DEF TagAt
  <1>3. f \in 1 .. nb /\ f + 1 \in 1 .. nb /\ l - 1 \in 1 .. nb /\ l \in 1 .. nb
        OBVIOUS
  <1>4. /\ y[f + na + 1] = b[f] /\ y[f + na + 1 + 1] = b[f + 1]
        /\ y[l + na + 1 - 1] = b[l - 1] /\ y[l + na + 1] = b[l]
    <2>1. PICK g \in 1 .. nb : g = f + 1 /\ g + na + 1 = f + na + 1 + 1
          BY <1>3
    <2>2. PICK h \in 1 .. nb : h = l - 1 /\ h + na + 1 = l + na + 1 - 1
          BY <1>3
    <2>3. y[g + na + 1] = b[g] /\ y[h + na + 1] = b[h]
          BY <1>1
    <2> QED
        BY <1>1, <1>3, <2>1, <2>2, <2>3
  <1>5. (\A k \in f + na + 1 + 2 .. l + na + 1 - 2 : y[k] \in Letters \cup Digits) <=>
            \A k \in f + 2 .. l - 2 : b[k] \in Letters \cup Digits
    <2>1. ASSUME \A k \in f + na + 1 + 2 .. l + na + 1 - 2 : y[k] \in Letters \cup Digits,
                 NEW k \in f + 2 .. l - 2
          PROVE  b[k] \in Letters \cup Digits
      <3>1. PICK j \in f + na + 1 + 2 .. l + na + 1 - 2 : j = k + na + 1
            OBVIOUS
      <3>2. k \in 1 .. nb
            OBVIOUS
      <3>3. y[j] \in Letters \cup Digits
            BY <2>1
      <3> QED
          BY <1>1, <3>1, <3>2, <3>3
    <2>2. ASSUME \A k \in f + 2 .. l - 2 : b[k] \in Letters \cup Digits,
                 NEW k \in f + na + 1 + 2 .. l + na + 1 - 2
          PROVE  y[k] \in Letters \cup Digits
      <3>1. PICK j \in f + 2 .. l - 2 : k = j + na + 1
        <4>1. k - na - 1 \in f + 2 .. l - 2 /\ k = (k - na - 1) + na + 1
              OBVIOUS
        <4> QED
            BY <4>1
      <3>2. j \in 1 .. nb
            OBVIOUS
      <3>3. b[j] \in Letters \cup Digits
            BY <2>2
      <3> QED
          BY <1>1, <3>1, <3>2, <3>3
    <2> QED
        BY <2>1, <2>2
  <1> QED
      BY <1>2, <1>4, <1>5 DEF TagAt

(* No tag covers the blank, so the untagged positions of the whole are those
   of the parts. *)
LEMMA JoinUntagged ==
    ASSUME NEW a \in Seq(Chars), NEW b \in Seq(Chars), NEW y, y = Glued(a, b),
           NEW na \in Nat, na = Len(a), NEW nb \in Nat, nb = Len(b)
    PROVE  /\ \A k \in 1 .. na : k \in SolidOf(y) <=> k \in SolidOf(a)
           /\ \A k \in 1 .. nb : k + na + 1 \in SolidOf(y) <=> k \in SolidOf(b)
           /\ na + 1 \notin SolidOf(y)
PROOF
  <1> DEFINE n == na + nb + 1
  <1>1. /\ y \in Seq(Chars) /\ Len(y) = n /\ y[na + 1] = Blank
        /\ \A k \in 1 .. na : y[k] = a[k]
        /\ \A k \in 1 .. nb : y[k + na + 1] = b[k]
        BY JoinIs DEF IsGlued
  <1>2. n \in Nat
        OBVIOUS
  <1>3. ASSUME NEW f \in 1 .. n, NEW l \in 1 .. n, TagAt(y, f, l) PROVE na + 1 \notin f .. l
    <2>1. f \in Nat /\ l \in Nat
          BY <1>2
    <2>2. Blank \in Whitespace
          BY BlankIs
    <2> QED
        BY <1>1, <1>3, <2>1, <2>2, TagBytes
  <1>4. ASSUME NEW k \in 1 .. na PROVE k \in Untagged(y) <=> k \in Untagged(a)
    <2>1. ASSUME k \in Untagged(y) PROVE k \in Untagged(a)
      <3> SUFFICES ASSUME NEW f \in 1 .. na, NEW l \in 1 .. na, TagAt(a, f, l)
                   PROVE  k \notin f .. l
          BY UntaggedIs
      <3>1. TagAt(y, f, l)
            BY JoinTagLeft
      <3>2. f \in 1 .. n /\ l \in 1 .. n
            OBVIOUS
      <3> QED
          BY <1>1, <2>1, <3>1, <3>2, UntaggedIs
    <2>2. ASSUME k \in Untagged(a) PROVE k \in Untagged(y)
      <3>1. k \in 1 .. n
            OBVIOUS
      <3> SUFFICES ASSUME NEW f \in 1 .. n, NEW l \in 1 .. n, TagAt(y, f, l), k \in f .. l
                   PROVE  FALSE
          BY <1>1, <3>1, UntaggedIs
      <3>2. na + 1 \notin f .. l
            BY <1>3
      <3>3. f \in 1 .. na /\ l \in 1 .. na
            BY <3>2
      <3>4. TagAt(a, f, l)
            BY <3>3, JoinTagLeft
      <3> QED
          BY <2>2, <3>3, <3>4, UntaggedIs
    <2> QED
        BY <2>1, <2>2
  <1>5. ASSUME NEW k \in 1 .. nb PROVE k + na + 1 \in Untagged(y) <=> k \in Untagged(b)
    <2>1. ASSUME k + na + 1 \in Untagged(y) PROVE k \in Untagged(b)
      <3> SUFFICES ASSUME NEW f \in 1 .. nb, NEW l \in 1 .. nb, TagAt(b, f, l), k \in f .. l
                   PROVE  FALSE
          BY UntaggedIs
      <3>1. TagAt(y, f + na + 1, l + na + 1)
            BY JoinTagRight
      <3>2. /\ f + na + 1 \in 1 .. n /\ l + na + 1 \in 1 .. n
            /\ k + na + 1 \in f + na + 1 .. l + na + 1
            OBVIOUS
      <3> HIDE DEF n
      <3>3. PICK g \in 1 .. n, h \in 1 .. n : g = f + na + 1 /\ h = l + na + 1
            BY <3>2
      <3>4. k + na + 1 \notin g .. h
            BY <1>1, <2>1, <3>1, <3>3, UntaggedIs
      <3> QED
          BY <3>2, <3>3, <3>4
    <2>2. ASSUME k \in Untagged(b) PROVE k + na + 1 \in Untagged(y)
      <3>1. PICK j \in 1 .. n : j = k + na + 1
            OBVIOUS
      <3> SUFFICES ASSUME NEW f \in 1 .. n, NEW l \in 1 .. n, TagAt(y, f, l), j \in f .. l
                   PROVE  FALSE
          BY <1>1, <3>1, UntaggedIs
      <3>2. na + 1 \notin f .. l
            BY <1>3
      <3>3. PICK g \in 1 .. nb : f = g + na + 1
        <4>1. f - na - 1 \in 1 .. nb /\ f = (f - na - 1) + na + 1
              BY <3>1, <3>2
        <4> QED
            BY <4>1
      <3>4. PICK h \in 1 .. nb : l = h + na + 1
        <4>1. l - na - 1 \in 1 .. nb /\ l = (l - na - 1) + na + 1
              BY <3>1, <3>2
        <4> QED
            BY <4>1
      <3>5. TagAt(b, g, h)
            BY <3>3, <3>4, JoinTagRight
      <3>6. k \in g .. h
            BY <3>1, <3>3, <3>4
      <3> QED
          BY <2>2, <3>5, <3>6, UntaggedIs
    <2> QED
        BY <2>1, <2>2
  <1>6. na + 1 \notin SolidOf(y)
        BY <1>1, BlankIs DEF SolidOf
  <1> QED
      BY <1>1, <1>4, <1>5, <1>6 DEF SolidOf

(* pushCoalesced joins speakable texts to speakable ones. *)
LEMMA JoinedIs ==
    ASSUME NEW a \in Seq(Chars), NEW b \in Seq(Chars), SolidEnds(b), a # <<>> => a \in Speakable
    PROVE  /\ Joined(a, b) \in Seq(Chars) /\ SolidEnds(Joined(a, b))
           /\ b \in Speakable => Joined(a, b) \in Speakable
PROOF
  <1>1. CASE a = <<>>
    <2>1. Joined(a, b) = b
          BY Zenon, <1>1 DEF Joined
    <2> QED
        BY <2>1
  <1>2. CASE a # <<>>
    <2>0. PICK y : y = Glued(a, b)
          OBVIOUS
    <2>1. PICK na \in Nat : na = Len(a) /\ na >= 1
      <3>1. Len(a) \in Nat /\ Len(a) >= 1
            BY <1>2
      <3> QED
          BY <3>1
    <2>2. PICK nb \in Nat : nb = Len(b) /\ nb >= 1
      <3>1. Len(b) \in Nat /\ Len(b) >= 1
            BY DEF SolidEnds
      <3> QED
          BY <3>1
    <2>3. PICK n \in Nat : n = na + nb + 1 /\ n = nb + na + 1
          OBVIOUS
    <2>4. /\ y \in Seq(Chars) /\ Len(y) = n /\ y[na + 1] = Blank
          /\ \A k \in 1 .. na : y[k] = a[k]
          /\ \A k \in 1 .. nb : y[k + na + 1] = b[k]
      <3>1. IsGlued(y, a, na, b, nb)
            BY <2>0, <2>1, <2>2, JoinIs
      <3> QED
          BY <2>3, <3>1 DEF IsGlued
    <2>5. Joined(a, b) = y
          BY Zenon, <1>2, <2>0 DEF Joined, Glued, Blank
    <2>6. /\ \A k \in 1 .. na : k \in SolidOf(y) <=> k \in SolidOf(a)
          /\ \A k \in 1 .. nb : k + na + 1 \in SolidOf(y) <=> k \in SolidOf(b)
          /\ na + 1 \notin SolidOf(y)
          BY <2>0, <2>1, <2>2, JoinUntagged
    <2>7. SolidEnds(a) /\ Closes(a)
          BY <1>2 DEF Speakable
    <2>8. SolidEnds(y)
      <3>1. 1 \in 1 .. na /\ nb \in 1 .. nb
            BY <2>1, <2>2
      <3>2. y[1] = a[1] /\ y[n] = b[nb]
            BY <2>3, <2>4, <3>1
      <3>3. y # <<>>
            BY <2>1, <2>3, <2>4
      <3> QED
          BY <2>2, <2>4, <2>7, <3>2, <3>3 DEF SolidEnds
    <2>9. ASSUME Closes(b), SolidOf(y) # {} PROVE ClosedAt(y, Max(SolidOf(y)))
      <3>1. SolidOf(y) \subseteq 0 .. n /\ SolidOf(y) \subseteq 1 .. n
            BY <2>4, SolidIs
      <3>2. CASE SolidOf(b) # {}
        <4>1. PICK p \in 1 .. nb : p \in SolidOf(b) /\ p = Max(SolidOf(b)) /\ \A k \in SolidOf(b) : k <= p
          <5>1. Max(SolidOf(b)) \in SolidOf(b) /\ \A k \in SolidOf(b) : k <= Max(SolidOf(b))
                BY <3>2, SolidIs
          <5>2. SolidOf(b) \subseteq 1 .. nb
                BY <2>2, SolidIs
          <5> QED
              BY <5>1, <5>2
        <4>2. PICK q \in 1 .. n : q = p + na + 1
              BY <2>3
        <4>3. q \in SolidOf(y)
              BY <2>6, <4>1, <4>2
        <4>4. ASSUME NEW k \in SolidOf(y) PROVE k <= q
          <5>1. k \in 1 .. n
                BY <3>1
          <5>2. CASE k <= na + 1
                BY <4>2, <5>1, <5>2
          <5>3. CASE ~(k <= na + 1)
            <6>1. PICK j \in 1 .. nb : k = j + na + 1
              <7>1. k - na - 1 \in 1 .. nb /\ k = (k - na - 1) + na + 1
                    BY <2>3, <5>1, <5>3
              <7> QED
                  BY <7>1
            <6>2. j \in SolidOf(b)
                  BY <2>6, <6>1
            <6>3. j <= p
                  BY <4>1, <6>2
            <6> QED
                BY <4>2, <6>1, <6>3
          <5> QED
              BY <5>2, <5>3
        <4>5. Max(SolidOf(y)) = q
              BY <3>1, <4>3, <4>4, MaxEquals
        <4>6. ClosedAt(b, p)
              BY <2>9, <3>2, <4>1 DEF Closes
        <4>7. y[q] = b[p]
              BY <2>4, <4>2
        <4>8. ASSUME p >= 3 PROVE q >= 3 /\ y[q - 1] = b[p - 1] /\ y[q - 2] = b[p - 2]
          <5>1. PICK i \in 1 .. nb : i = p - 1 /\ i + na + 1 = q - 1
                BY <4>2, <4>8
          <5>2. PICK j \in 1 .. nb : j = p - 2 /\ j + na + 1 = q - 2
                BY <4>2, <4>8
          <5>3. y[i + na + 1] = b[i] /\ y[j + na + 1] = b[j]
                BY <2>4
          <5>4. q >= 3
                BY <4>2, <4>8
          <5> QED
              BY <5>1, <5>2, <5>3, <5>4
        <4>9. ClosedAt(y, q)
              BY <4>6, <4>7, <4>8 DEF ClosedAt
        <4> QED
            BY <4>5, <4>9
      <3>3. CASE SolidOf(b) = {}
        <4>1. ASSUME NEW k \in SolidOf(y) PROVE k \in 1 .. na
          <5>1. k \in 1 .. n /\ k # na + 1
                BY <2>6, <3>1
          <5>2. CASE k <= na
                BY <5>1, <5>2
          <5>3. CASE ~(k <= na)
            <6>1. PICK j \in 1 .. nb : k = j + na + 1
              <7>1. k - na - 1 \in 1 .. nb /\ k = (k - na - 1) + na + 1
                    BY <2>3, <5>1, <5>3
              <7> QED
                  BY <7>1
            <6>2. j \in SolidOf(b)
                  BY <2>6, <6>1
            <6> QED
                BY <3>3, <6>2
          <5> QED
              BY <5>2, <5>3
        <4>2. SolidOf(a) \subseteq 1 .. na
              BY <2>1, SolidIs
        <4>3. SolidOf(y) = SolidOf(a)
              BY <2>6, <4>1, <4>2
        <4>4. PICK p \in 1 .. na : p = Max(SolidOf(a))
          <5>1. Max(SolidOf(a)) \in SolidOf(a)
                BY <2>9, <4>3, SolidIs
          <5> QED
              BY <4>2, <5>1
        <4>5. ClosedAt(a, p)
              BY <2>7, <2>9, <4>3, <4>4 DEF Closes
        <4>6. y[p] = a[p] /\ (p >= 3 => y[p - 1] = a[p - 1] /\ y[p - 2] = a[p - 2])
          <5>1. p >= 3 => p - 1 \in 1 .. na /\ p - 2 \in 1 .. na
                OBVIOUS
          <5> QED
              BY <2>4, <5>1
        <4>7. ClosedAt(y, p)
              BY <4>5, <4>6 DEF ClosedAt
        <4> QED
            BY <4>3, <4>4, <4>7
      <3> QED
          BY <3>2, <3>3
    <2>10. b \in Speakable => y \in Speakable
      <3>1. b \in Speakable => Closes(b)
            BY DEF Speakable
      <3>2. Closes(b) => Closes(y)
            BY <2>9 DEF Closes
      <3> QED
          BY <2>4, <2>8, <3>1, <3>2 DEF Speakable
    <2> QED
        BY <2>4, <2>5, <2>8, <2>10
  <1> QED
      BY <1>1, <1>2

-----------------------------------------------------------------------------
(***************************************************************************)
(* emitSentences: cutting, and pushing one sentence after the other.       *)
(***************************************************************************)

(* Strip leaves nothing, or a text that starts and ends solid. *)
LEMMA StripIs ==
    ASSUME NEW x \in Seq(Bytes)
    PROVE  Strip(x) \in Seq(Bytes) /\ (Strip(x) # <<>> => SolidEnds(Strip(x)))
PROOF
  <1>1. PICK n \in Nat : n = Len(x) /\ DOMAIN x = 1 .. n
        OBVIOUS
  <1> DEFINE solid == {i \in DOMAIN x : x[i] \notin Whitespace}
  <1>2. Strip(x) = IF solid = {} THEN <<>> ELSE SubSeq(x, Min(solid), Max(solid))
        BY DEF Strip
  <1>3. CASE solid = {}
    <2>1. Strip(x) = <<>> /\ <<>> \in Seq(Bytes)
          BY <1>2, <1>3
    <2> QED
        BY <2>1
  <1>4. CASE solid # {}
    <2>1. solid \subseteq 1 .. n
          BY <1>1
    <2>2. solid \subseteq Nat /\ solid \subseteq 0 .. n
      <3>1. 1 .. n \subseteq Nat /\ 1 .. n \subseteq 0 .. n
            OBVIOUS
      <3> HIDE DEF solid
      <3> QED
          BY <2>1, <3>1
    <2>3. Min(solid) \in solid /\ Max(solid) \in solid /\ Min(solid) <= Max(solid)
      <3> HIDE DEF solid
      <3> QED
          BY <1>4, <2>2, MinIs, MaxIs
    <2>4. PICK i \in 1 .. n : i = Min(solid) /\ x[i] \notin Whitespace
          BY <1>1, <2>3
    <2>5. PICK j \in 1 .. n : j = Max(solid) /\ x[j] \notin Whitespace
          BY <1>1, <2>3
    <2>6. i <= j
          BY <2>3, <2>4, <2>5
    <2> DEFINE y == SubSeq(x, i, j)
    <2>7. Strip(x) = y
          BY <1>2, <1>4, <2>4, <2>5
    <2>8. /\ y \in Seq(Bytes) /\ Len(y) = IF i <= j THEN j - i + 1 ELSE 0
          /\ \A k \in 1 .. j - i + 1 : y[k] = x[i + k - 1]
      <3>1. i \in Nat /\ j \in Nat /\ i >= 1 /\ j <= Len(x)
            BY <1>1
      <3> QED
          BY <3>1, PartIs
    <2> HIDE DEF y
    <2>9. PICK m \in Nat : m = j - i + 1 /\ m >= 1 /\ i + m - 1 = j /\ i + 1 - 1 = i
      <3>1. /\ j - i + 1 \in Nat /\ j - i + 1 >= 1
            /\ i + (j - i + 1) - 1 = j /\ i + 1 - 1 = i
            BY <2>6
      <3> QED
          BY <3>1
    <2>10. Len(y) = m /\ y[1] = x[i] /\ y[m] = x[j]
      <3>1. 1 \in 1 .. m /\ m \in 1 .. m
            BY <2>9
      <3>2. y[1] = x[i + 1 - 1] /\ y[m] = x[i + m - 1]
            BY <2>8, <2>9, <3>1
      <3> QED
          BY <2>6, <2>8, <2>9, <3>2
    <2>11. SolidEnds(y)
      <3>1. y # <<>>
            BY <2>8, <2>9, <2>10
      <3> QED
          BY <2>4, <2>5, <2>10, <3>1 DEF SolidEnds
    <2> QED
        BY <2>7, <2>8, <2>11
  <1> QED
      BY <1>3, <1>4

(* What a sentence is after strip and needsPeriod: speakable, or empty. *)
Sentences == Speakable \cup {<<>>}

(* The period and the blank that the segmenter adds are all that is not input. *)
LEMMA BytesAreChars == Seq(Bytes) \subseteq Seq(Chars)
PROOF
  <1>1. Bytes \subseteq Chars
        BY Zenon DEF Chars
  <1> QED
      BY <1>1

(* A cut-off sentence is speakable, or empty. *)
LEMMA SentenceIs ==
    ASSUME NEW x \in Seq(Bytes)
    PROVE  WithPeriod(Strip(x)) \in Sentences
PROOF
  <1> DEFINE y == Strip(x)
  <1>1. y \in Seq(Bytes) /\ (y # <<>> => SolidEnds(y))
        BY StripIs
  <1> HIDE DEF y
  <1>2. y \in Seq(Chars)
        BY <1>1, BytesAreChars
  <1>3. CASE y = <<>>
        BY <1>3 DEF WithPeriod, Sentences, y
  <1>4. CASE y # <<>>
    <2>1. WithPeriod(y) \in Speakable
          BY <1>1, <1>2, <1>4, WithPeriodIs
    <2> QED
        BY <2>1 DEF Sentences, y
  <1> QED
      BY <1>3, <1>4

(* The cuts of the text of s from position at on, given the cuts behind them. *)
CutAt(s, f, at) ==
    LET text  == From(s.text, at + 1)
        found == FindSentenceEnd(text, IF at = 0 THEN s.scanned ELSE 0)
        rest  == f[at + found.end]
    IN  IF found.end = 0
        THEN [sentences |-> <<>>, text |-> text, scanned |-> found.scanned]
        ELSE [rest EXCEPT !.sentences =
                <<WithPeriod(Strip(SubSeq(text, 1, found.end)))>> \o @]

CutScan(s, f) == f = [at \in 0 .. Len(s.text) |-> CutAt(s, f, at)]

(* emitSentences by the cuts from the beginning of the text on. *)
LEMMA EmitIs ==
    ASSUME NEW s
    PROVE  LET cut == CHOOSE f : CutScan(s, f)
           IN  EmitSentences(s) =
                   [FoldLeft(PushCoalesced, s, cut[0].sentences)
                       EXCEPT !.text = cut[0].text, !.scanned = cut[0].scanned]
PROOF
  BY DEF EmitSentences, CutScan, CutAt

(* Induction over the numbers up to n. *)
LEMMA UpInduction ==
    ASSUME NEW n \in Nat, NEW S, 0 \in S, \A k \in 1 .. n : k - 1 \in S => k \in S
    PROVE  0 .. n \subseteq S
PROOF
  <1> DEFINE T == (0 .. n) \ S
  <1> SUFFICES ASSUME T # {} PROVE FALSE
      OBVIOUS
  <1>1. T \subseteq Nat
        OBVIOUS
  <1>2. PICK k \in T : \A j \in T : k <= j
    <2> HIDE DEF T
    <2> QED
        BY <1>1, LeastNumber
  <1>3. k \in 1 .. n /\ k \notin S
    <2>1. k \in 0 .. n /\ k # 0
          OBVIOUS
    <2> QED
        BY <2>1
  <1>4. k - 1 \in 0 .. n /\ ~(k <= k - 1)
        BY <1>3
  <1>5. k - 1 \in S
        BY <1>2, <1>4
  <1> QED
      BY <1>3, <1>5

(* The two folds: emitSentences pushes sentences, stripTags tidies a text. *)
Step(fold, r, x) == IF fold = "push" THEN PushCoalesced(r, x) ELSE Tidied(r, x)

(* A fold over the positions t of xs, given those over fewer positions. *)
FoldAt(fold, s, xs, f, t) == IF t = {} THEN s ELSE Step(fold, f[t \ {Max(t)}], xs[Max(t)])
FoldScan(fold, s, xs, f) == f = [t \in SUBSET DOMAIN xs |-> FoldAt(fold, s, xs, f, t)]

(* There are folds over all sets of positions. *)
LEMMA FoldExists ==
    ASSUME NEW fold, NEW s, NEW D, NEW xs \in Seq(D)
    PROVE  \E f : FoldScan(fold, s, xs, f)
PROOF
  <1>1. PICK n \in Nat : n = Len(xs) /\ DOMAIN xs = 1 .. n
        OBVIOUS
  <1> DEFINE Upto(k, g) == g = [t \in SUBSET (1 .. k) |-> FoldAt(fold, s, xs, g, t)]
             T == {k \in 0 .. n : \E g : Upto(k, g)}
  <1>2. 0 \in T
    <2> DEFINE g == [t \in SUBSET (1 .. 0) |-> s]
    <2>1. \A t \in SUBSET (1 .. 0) : t = {}
          OBVIOUS
    <2>2. \A t \in SUBSET (1 .. 0) : FoldAt(fold, s, xs, g, t) = s
          BY <2>1 DEF FoldAt
    <2>3. g = [t \in SUBSET (1 .. 0) |-> FoldAt(fold, s, xs, g, t)]
          BY <2>2
    <2> HIDE DEF g
    <2>4. Upto(0, g) /\ 0 \in 0 .. n
          BY <2>3
    <2> QED
        BY <2>4
  <1>3. ASSUME NEW k \in 1 .. n, k - 1 \in T PROVE k \in T
    <2>1. PICK m \in Nat : m = k - 1 /\ k = m + 1
          OBVIOUS
    <2>2. PICK g : Upto(m, g)
          BY <1>3, <2>1
    <2> DEFINE h == [t \in SUBSET (1 .. k) |-> IF k \in t THEN FoldAt(fold, s, xs, g, t) ELSE g[t]]
    <2>3. \A t \in SUBSET (1 .. m) : t \in SUBSET (1 .. k) /\ k \notin t
      <3>1. 1 .. m \subseteq 1 .. k /\ k \notin 1 .. m
            BY <2>1
      <3> QED
          BY <3>1
    <2>4. \A t \in SUBSET (1 .. m) : h[t] = g[t]
          BY <2>3
    <2>5. \A t \in SUBSET (1 .. k) : h[t] = IF k \in t THEN FoldAt(fold, s, xs, g, t) ELSE g[t]
          OBVIOUS
    <2>6. DOMAIN h = SUBSET (1 .. k) /\ h = [t \in SUBSET (1 .. k) |-> h[t]]
          OBVIOUS
    <2> HIDE DEF h
    <2>7. ASSUME NEW t \in SUBSET (1 .. k) PROVE h[t] = FoldAt(fold, s, xs, h, t)
      <3>1. CASE t = {}
        <4>1. h[t] = g[t] /\ t \in SUBSET (1 .. m)
              BY <2>5, <3>1
        <4>2. g[t] = FoldAt(fold, s, xs, g, t)
              BY <2>2, <4>1
        <4> QED
            BY <3>1, <4>1, <4>2 DEF FoldAt
      <3>2. CASE t # {}
        <4>1. t \subseteq 0 .. k /\ k \in Nat
          <5>1. 1 .. k \subseteq 0 .. k
                OBVIOUS
          <5> QED
              BY <5>1
        <4>2. Max(t) \in t /\ \A i \in t : i <= Max(t)
              BY <3>2, <4>1, MaxIs
        <4>3. t \ {Max(t)} \in SUBSET (1 .. m)
          <5> SUFFICES ASSUME NEW i \in t, i # Max(t) PROVE i \in 1 .. m
              OBVIOUS
          <5>1. i \in 1 .. k /\ Max(t) \in 1 .. k /\ i <= Max(t)
                BY <4>2
          <5> QED
              BY <2>1, <5>1
        <4>4. h[t \ {Max(t)}] = g[t \ {Max(t)}]
              BY <2>4, <4>3
        <4>5. FoldAt(fold, s, xs, h, t) = FoldAt(fold, s, xs, g, t)
              BY <4>4 DEF FoldAt
        <4>6. CASE k \in t
              BY <2>5, <4>5, <4>6
        <4>7. CASE k \notin t
          <5>1. t \in SUBSET (1 .. m)
            <6> SUFFICES ASSUME NEW i \in t PROVE i \in 1 .. m
                OBVIOUS
            <6>1. i \in 1 .. k /\ i # k
                  BY <4>7
            <6> QED
                BY <2>1, <6>1
          <5>2. g[t] = FoldAt(fold, s, xs, g, t)
                BY <2>2, <5>1
          <5> QED
              BY <2>4, <4>5, <5>1, <5>2
        <4> QED
            BY <4>6, <4>7
      <3> QED
          BY <3>1, <3>2
    <2>8. Upto(k, h)
          BY <2>6, <2>7
    <2>9. k \in 0 .. n
          OBVIOUS
    <2> QED
        BY <2>8, <2>9
  <1>4. n \in 0 .. n
        OBVIOUS
  <1> HIDE DEF T
  <1>5. n \in T
        BY <1>2, <1>3, <1>4, UpInduction
  <1> QED
      BY <1>1, <1>5 DEF T, FoldScan

(* The fold, sentence by sentence. *)
Folds(fold, g, s, xs) ==
    g[0] = s /\ \A k \in 1 .. Len(xs) : g[k] = Step(fold, g[k - 1], xs[k])

(* A fold over all sets of positions is one over the first positions. *)
LEMMA FoldSteps ==
    ASSUME NEW fold, NEW s, NEW D, NEW xs \in Seq(D), NEW f, FoldScan(fold, s, xs, f)
    PROVE  \E g : Folds(fold, g, s, xs) /\ f[DOMAIN xs] = g[Len(xs)]
PROOF
  <1>1. PICK n \in Nat : n = Len(xs) /\ DOMAIN xs = 1 .. n
        OBVIOUS
  <1>2. ASSUME NEW t \in SUBSET (1 .. n) PROVE f[t] = FoldAt(fold, s, xs, f, t)
        BY <1>1 DEF FoldScan
  <1> DEFINE g == [k \in 0 .. n |-> f[1 .. k]]
  <1>3. g[0] = s
    <2>1. 1 .. 0 = {} /\ 1 .. 0 \in SUBSET (1 .. n) /\ 0 \in 0 .. n
          OBVIOUS
    <2>2. f[1 .. 0] = s
          BY <1>2, <2>1 DEF FoldAt
    <2> QED
        BY <2>1, <2>2
  <1>4. ASSUME NEW k \in 1 .. n PROVE g[k] = Step(fold, g[k - 1], xs[k])
    <2>1. PICK m \in 0 .. n : m = k - 1 /\ k = m + 1 /\ k \in 0 .. n
          OBVIOUS
    <2>2. PICK t : t = 1 .. k
          OBVIOUS
    <2>3. t \subseteq 0 .. k /\ k \in t /\ k \in Nat /\ \A i \in t : i <= k
          BY <2>2
    <2>4. Max(t) = k
          BY <2>3, MaxEquals
    <2>5. t \ {k} = 1 .. m
          BY <2>1, <2>2
    <2>6. t \in SUBSET (1 .. n) /\ t # {}
      <3>1. 1 .. k \subseteq 1 .. n
            OBVIOUS
      <3> QED
          BY <2>2, <2>3, <3>1
    <2>7. f[t] = Step(fold, f[1 .. m], xs[k])
          BY <1>2, <2>4, <2>5, <2>6 DEF FoldAt
    <2>8. g[k] = f[t] /\ g[m] = f[1 .. m]
          BY <2>1, <2>2
    <2> HIDE DEF g
    <2> QED
        BY <2>1, <2>7, <2>8
  <1>5. f[1 .. n] = g[n]
    <2>1. n \in 0 .. n
          OBVIOUS
    <2> QED
        BY <2>1
  <1> HIDE DEF g
  <1>6. Folds(fold, g, s, xs)
        BY <1>1, <1>3, <1>4 DEF Folds
  <1> QED
      BY <1>1, <1>5, <1>6

(* The fold of emitSentences. *)
LEMMA PushFold ==
    ASSUME NEW s, NEW D, NEW xs \in Seq(D)
    PROVE  \E g : Folds("push", g, s, xs) /\ FoldLeft(PushCoalesced, s, xs) = g[Len(xs)]
PROOF
  <1> DEFINE At(f, t) == IF t = {} THEN s ELSE PushCoalesced(f[t \ {Max(t)}], xs[Max(t)])
             Scan(f) == f = [t \in SUBSET DOMAIN xs |-> At(f, t)]
             f == CHOOSE g : Scan(g)
  <1>1. FoldLeft(PushCoalesced, s, xs) = f[DOMAIN xs]
        BY DEF FoldLeft, MapThenFoldSet
  <1>2. \A g, t : At(g, t) = FoldAt("push", s, xs, g, t)
        BY DEF FoldAt, Step
  <1> HIDE DEF At
  <1>3. \A g : Scan(g) <=> FoldScan("push", s, xs, g)
        BY <1>2 DEF FoldScan
  <1>4. Scan(f)
    <2>1. \E g : Scan(g)
          BY <1>3, FoldExists
    <2> HIDE DEF Scan
    <2> QED
        BY <2>1
  <1> HIDE DEF f, Scan
  <1>5. FoldScan("push", s, xs, f)
        BY <1>3, <1>4
  <1> QED
      BY <1>1, <1>5, FoldSteps

(* The fold of stripTags. *)
LEMMA TidyFold ==
    ASSUME NEW s, NEW D, NEW xs \in Seq(D)
    PROVE  \E g : Folds("tidy", g, s, xs) /\ FoldLeft(Tidied, s, xs) = g[Len(xs)]
PROOF
  <1> DEFINE At(f, t) == IF t = {} THEN s ELSE Tidied(f[t \ {Max(t)}], xs[Max(t)])
             Scan(f) == f = [t \in SUBSET DOMAIN xs |-> At(f, t)]
             f == CHOOSE g : Scan(g)
  <1>1. FoldLeft(Tidied, s, xs) = f[DOMAIN xs]
        BY DEF FoldLeft, MapThenFoldSet
  <1>2. \A g, t : At(g, t) = FoldAt("tidy", s, xs, g, t)
        BY DEF FoldAt, Step
  <1> HIDE DEF At
  <1>3. \A g : Scan(g) <=> FoldScan("tidy", s, xs, g)
        BY <1>2 DEF FoldScan
  <1>4. Scan(f)
    <2>1. \E g : Scan(g)
          BY <1>3, FoldExists
    <2> HIDE DEF Scan
    <2> QED
        BY <2>1
  <1> HIDE DEF f, Scan
  <1>5. FoldScan("tidy", s, xs, f)
        BY <1>3, <1>4
  <1> QED
      BY <1>1, <1>5, FoldSteps

(* What every pushed sentence keeps, the fold keeps. *)
LEMMA FoldKeeps ==
    ASSUME NEW Q, NEW s \in Q, NEW D, NEW xs \in Seq(D),
           \A q \in Q, x \in D : PushCoalesced(q, x) \in Q
    PROVE  FoldLeft(PushCoalesced, s, xs) \in Q
PROOF
  <1>1. PICK n \in Nat : n = Len(xs) /\ DOMAIN xs = 1 .. n
        OBVIOUS
  <1>2. PICK g : Folds("push", g, s, xs) /\ FoldLeft(PushCoalesced, s, xs) = g[Len(xs)]
        BY PushFold
  <1> DEFINE T == {k \in 0 .. n : g[k] \in Q}
  <1>3. 0 \in T
        BY <1>2 DEF Folds
  <1>4. ASSUME NEW k \in 1 .. n, k - 1 \in T PROVE k \in T
    <2>1. g[k] = PushCoalesced(g[k - 1], xs[k])
          BY <1>1, <1>2 DEF Folds, Step
    <2>2. xs[k] \in D /\ g[k - 1] \in Q /\ k \in 0 .. n
          BY <1>1, <1>4
    <2> QED
        BY <2>1, <2>2
  <1>5. n \in 0 .. n
        OBVIOUS
  <1> HIDE DEF T
  <1>6. n \in T
        BY <1>3, <1>4, <1>5, UpInduction
  <1> QED
      BY <1>1, <1>2, <1>6 DEF T

(* From the first byte on is the whole text. *)
LEMMA WholeIs ==
    ASSUME NEW S, NEW s \in Seq(S)
    PROVE  From(s, 1) = s
PROOF
  BY DEF From

(* One cut is within the text; the last one leaves a text that is settled. *)
LEMMA CutEnd ==
    ASSUME NEW s \in States, NEW at \in 0 .. Len(s.text),
           s.scanned <= Len(s.text), Checked(s.text, s.scanned), config.minSentence \in Nat
    PROVE  LET text  == From(s.text, at + 1)
               found == FindSentenceEnd(text, IF at = 0 THEN s.scanned ELSE 0)
           IN  /\ text \in Seq(Bytes)
               /\ found.end \in 0 .. Len(text) /\ found.scanned \in 0 .. Len(text)
               /\ found.end = 0 => Checked(text, found.scanned) /\ Settled(text)
               /\ found.end = 0 \/ at + found.end \in at + 1 .. Len(s.text)
PROOF
  <1> DEFINE text == From(s.text, at + 1)
             from == IF at = 0 THEN s.scanned ELSE 0
             found == FindSentenceEnd(text, from)
  <1>1. s.text \in Seq(Bytes) /\ s.scanned \in Nat
        BY DEF States
  <1>2. PICK len \in Nat : len = Len(s.text)
        BY <1>1
  <1>3. PICK i \in Nat : i = at + 1 /\ i >= 1 /\ i <= len + 1
    <2>1. at + 1 \in Nat /\ at + 1 >= 1 /\ at + 1 <= len + 1
          BY <1>2
    <2> QED
        BY <2>1
  <1>4. From(s.text, i) \in Seq(Bytes) /\ Len(From(s.text, i)) = IF i <= len THEN len - i + 1 ELSE 0
        BY <1>1, <1>2, <1>3, FromIs
  <1>5. text \in Seq(Bytes) /\ Len(text) = len - at
    <2>1. (IF i <= len THEN len - i + 1 ELSE 0) = len - at
          BY <1>2, <1>3
    <2> QED
        BY <1>3, <1>4, <2>1
  <1>6. from \in Nat /\ from <= Len(text) /\ Checked(text, from)
    <2>1. CASE at = 0
      <3>1. text = s.text
        <4>1. at + 1 = 1
              BY <2>1
        <4> QED
            BY <1>1, <4>1, WholeIs
      <3> QED
          BY <1>1, <2>1, <3>1
    <2>2. CASE at # 0
      <3>1. from = 0
            BY <2>2
      <3>2. Checked(text, 0)
        <4>1. config.minSentence + 1 .. 0 = {}
              OBVIOUS
        <4> QED
            BY <4>1 DEF Checked
      <3>3. 0 <= len - at
            BY <1>2
      <3> HIDE DEF text, from
      <3> QED
          BY <1>5, <3>1, <3>2, <3>3
    <2> QED
        BY <2>1, <2>2
  <1> HIDE DEF text, from
  <1>7. /\ found.end \in 0 .. Len(text) /\ found.scanned \in 0 .. Len(text)
        /\ found.end = 0 => Checked(text, found.scanned) /\ Settled(text)
        BY <1>5, <1>6, FindIs
  <1>8. PICK e \in 0 .. len - at : e = found.end
        BY <1>5, <1>7
  <1>9. e = 0 \/ at + e \in at + 1 .. len
        BY <1>2
  <1> HIDE DEF found
  <1>10. found.end = 0 \/ at + found.end \in at + 1 .. Len(s.text)
        BY <1>2, <1>8, <1>9
  <1> QED
      BY <1>5, <1>7, <1>10 DEF text, from, found

(* A cut looks only at the cuts behind it. *)
LEMMA CutLocal ==
    ASSUME NEW s \in States, NEW f, NEW g, NEW at \in 0 .. Len(s.text),
           s.scanned <= Len(s.text), Checked(s.text, s.scanned), config.minSentence \in Nat,
           \A j \in at + 1 .. Len(s.text) : f[j] = g[j]
    PROVE  CutAt(s, f, at) = CutAt(s, g, at)
PROOF
  <1> DEFINE text == From(s.text, at + 1)
             from == IF at = 0 THEN s.scanned ELSE 0
             found == FindSentenceEnd(text, from)
  <1>1. found.end = 0 \/ at + found.end \in at + 1 .. Len(s.text)
        BY CutEnd
  <1> HIDE DEF text, from, found
  <1>2. CASE found.end = 0
        BY <1>2 DEF CutAt, text, from, found
  <1>3. CASE found.end # 0
    <2>1. f[at + found.end] = g[at + found.end]
          BY <1>1, <1>3
    <2> QED
        BY <2>1 DEF CutAt, text, from, found
  <1> QED
      BY <1>2, <1>3

(* There are such cuts of every text. *)
LEMMA CutExists ==
    ASSUME NEW s \in States, s.scanned <= Len(s.text), Checked(s.text, s.scanned),
           config.minSentence \in Nat
    PROVE  \E f : CutScan(s, f)
PROOF
  <1>1. PICK n \in Nat : n = Len(s.text)
    <2>1. s.text \in Seq(Bytes)
          BY DEF States
    <2> QED
        BY <2>1
  <1> DEFINE From_(i, g) == g = [j \in i .. n |-> CutAt(s, g, j)]
             T == {i \in 0 .. n : \E g : From_(i, g)}
  <1>2. ASSUME NEW i \in 0 .. n, \A j \in i + 1 .. n : j \in T
        PROVE  i \in T
    <2>1. PICK g : i < n => From_(i + 1, g)
      <3>1. i < n => i + 1 \in i + 1 .. n
            OBVIOUS
      <3> QED
          BY <1>2, <3>1
    <2> DEFINE h == [j \in i .. n |-> IF j = i THEN CutAt(s, g, i) ELSE g[j]]
    <2>2. \A j \in i + 1 .. n : h[j] = g[j]
          OBVIOUS
    <2>3. ASSUME NEW j \in i .. n PROVE h[j] = CutAt(s, h, j)
      <3>1. \A k \in j + 1 .. n : g[k] = h[k]
        <4>1. \A k \in j + 1 .. n : k \in i + 1 .. n
              OBVIOUS
        <4> HIDE DEF h
        <4> QED
            BY <2>2, <4>1
      <3>2. CutAt(s, g, j) = CutAt(s, h, j)
        <4>1. j \in 0 .. Len(s.text)
              BY <1>1
        <4> HIDE DEF h
        <4> QED
            BY <1>1, <3>1, <4>1, CutLocal
      <3>3. CASE j = i
        <4>1. h[j] = CutAt(s, g, j)
              BY <3>3
        <4> QED
            BY <3>2, <4>1
      <3>4. CASE j # i
        <4>1. i < n /\ j \in i + 1 .. n
              BY <3>4
        <4>2. h[j] = g[j]
              BY <2>2, <4>1
        <4>3. g[j] = CutAt(s, g, j)
              BY <2>1, <4>1
        <4> QED
            BY <3>2, <4>2, <4>3
      <3> QED
          BY <3>3, <3>4
    <2>4. DOMAIN h = i .. n /\ h = [j \in i .. n |-> h[j]]
          OBVIOUS
    <2> HIDE DEF h
    <2>5. From_(i, h)
          BY <2>3, <2>4
    <2> QED
        BY <2>5
  <1>3. 0 \in 0 .. n /\ 0 \in Nat
        OBVIOUS
  <1> HIDE DEF T
  <1>4. 0 \in T
        BY <1>2, <1>3, DownInduction
  <1> QED
      BY <1>1, <1>4 DEF T, CutScan

(* The cuts are sentences, and leave a settled text, scanned as far as it says. *)
LEMMA CutTypes ==
    ASSUME NEW s \in States, s.scanned <= Len(s.text), Checked(s.text, s.scanned),
           config.minSentence \in Nat, NEW f, CutScan(s, f)
    PROVE  /\ f[0] \in [sentences : Seq(Sentences), text : Seq(Bytes), scanned : Nat]
           /\ f[0].scanned <= Len(f[0].text)
           /\ Checked(f[0].text, f[0].scanned) /\ Settled(f[0].text)
PROOF
  <1>1. PICK n \in Nat : n = Len(s.text)
    <2>1. s.text \in Seq(Bytes)
          BY DEF States
    <2> QED
        BY <2>1
  <1> DEFINE Types == [sentences : Seq(Sentences), text : Seq(Bytes), scanned : Nat]
             Ends(text, scanned) == scanned <= Len(text) /\ Checked(text, scanned) /\ Settled(text)
             Good(r) == r \in Types /\ Ends(r.text, r.scanned)
             T == {i \in 0 .. n : Good(f[i])}
  <1>2. ASSUME NEW at \in 0 .. n, \A j \in at + 1 .. n : j \in T
        PROVE  at \in T
    <2> DEFINE text == From(s.text, at + 1)
               found == FindSentenceEnd(text, IF at = 0 THEN s.scanned ELSE 0)
               rest == f[at + found.end]
               first == WithPeriod(Strip(SubSeq(text, 1, found.end)))
    <2>1. /\ text \in Seq(Bytes)
          /\ found.end \in 0 .. Len(text) /\ found.scanned \in 0 .. Len(text)
          /\ found.end = 0 => Checked(text, found.scanned) /\ Settled(text)
          /\ found.end = 0 \/ at + found.end \in at + 1 .. n
          BY <1>1, CutEnd
    <2>2. f[at] = CutAt(s, f, at)
          BY <1>1 DEF CutScan
    <2>3. f[at] = IF found.end = 0
                  THEN [sentences |-> <<>>, text |-> text, scanned |-> found.scanned]
                  ELSE [rest EXCEPT !.sentences = <<first>> \o @]
          BY <2>2 DEF CutAt
    <2> HIDE DEF text, found, first
    <2>4. CASE found.end = 0
      <3>1. f[at] = [sentences |-> <<>>, text |-> text, scanned |-> found.scanned]
            BY <2>3, <2>4
      <3>2. PICK l \in Nat : l = Len(text)
            BY <2>1
      <3>3. PICK k \in 0 .. l : k = found.scanned
            BY <2>1, <3>2
      <3>4. k \in Nat /\ k <= l
            OBVIOUS
      <3>5. found.scanned \in Nat /\ Ends(text, found.scanned)
            BY <2>1, <2>4, <3>2, <3>3, <3>4
      <3>6. <<>> \in Seq(Sentences)
            OBVIOUS
      <3> HIDE DEF Ends
      <3>7. f[at] \in Types /\ f[at].text = text /\ f[at].scanned = found.scanned
            BY <2>1, <3>1, <3>5, <3>6
      <3> QED
          BY <3>5, <3>7
    <2>5. CASE found.end # 0
      <3>1. f[at] = [rest EXCEPT !.sentences = <<first>> \o @]
            BY <2>3, <2>5
      <3>2. Good(rest)
            BY <1>2, <2>1, <2>5
      <3>3. first \in Sentences
        <4>1. PICK l \in Nat : l = Len(text)
              BY <2>1
        <4>2. PICK e \in 0 .. l : e = found.end
              BY <2>1, <4>1
        <4>3. 1 \in Nat /\ e \in Nat /\ e <= l
              OBVIOUS
        <4>4. SubSeq(text, 1, e) \in Seq(Bytes)
              BY <2>1, <4>1, <4>3, PartIs
        <4> QED
            BY <4>2, <4>4, SentenceIs DEF first
      <3> HIDE DEF rest, Ends
      <3> DEFINE all == <<first>> \o rest.sentences
      <3>4. all \in Seq(Sentences)
        <4>1. <<first>> \in Seq(Sentences) /\ rest.sentences \in Seq(Sentences)
              BY <3>2, <3>3
        <4> QED
            BY <4>1, ConcatProperties
      <3>5. f[at] = [rest EXCEPT !.sentences = all]
            BY <3>1, <3>2
      <3> HIDE DEF all
      <3>6. f[at] \in Types /\ f[at].text = rest.text /\ f[at].scanned = rest.scanned
            BY <3>2, <3>4, <3>5
      <3> QED
          BY <3>2, <3>6
    <2> QED
        BY <2>4, <2>5
  <1> HIDE DEF T
  <1>3. 0 .. n \subseteq T
    <2>1. 0 \in Nat
          OBVIOUS
    <2> QED
        BY <1>2, <2>1, DownInduction
  <1>4. 0 \in 0 .. n
        OBVIOUS
  <1> QED
      BY <1>3, <1>4 DEF T

-----------------------------------------------------------------------------
(***************************************************************************)
(* One round of the loop of segment, and the flush at the end of it.       *)
(***************************************************************************)

(* Segments of full length, and what waits to become one. *)
Segments == {x \in Speakable : Len(x) >= config.minSegment}
Waiting == {x \in Speakable : Len(x) < config.minSegment} \cup {<<>>}
Spoken(s) == s.pending \in Waiting /\ s.out \in Seq(Segments)

(* Speakable texts and sentences are texts. *)
LEMMA SpeakableIs == Speakable \subseteq Seq(Chars) \ {<<>>} /\ Sentences \subseteq Seq(Chars)
PROOF
  <1>1. Speakable \subseteq Seq(Chars) \ {<<>>}
        BY DEF Speakable, SolidEnds
  <1>2. <<>> \in Seq(Chars)
        OBVIOUS
  <1> QED
      BY <1>1, <1>2 DEF Sentences

(* pushCoalesced: full segments go out, a shorter one waits. *)
LEMMA PushKeeps ==
    ASSUME NEW s \in States, Spoken(s), NEW x \in Sentences, config.minSegment \in Nat
    PROVE  LET r == PushCoalesced(s, x)
           IN  /\ r \in States /\ Spoken(r)
               /\ r.bytes = s.bytes /\ r.utf8 = s.utf8 /\ r.inThink = s.inThink
PROOF
  <1> DEFINE text == Joined(s.pending, x)
             r == PushCoalesced(s, x)
  <1>1. r = IF x = <<>> THEN s
            ELSE IF Len(text) < config.minSegment
            THEN [s EXCEPT !.pending = text]
            ELSE [s EXCEPT !.pending = <<>>, !.out = Append(@, text)]
        BY DEF PushCoalesced
  <1> HIDE DEF r, text
  <1>2. CASE x = <<>>
        BY <1>1, <1>2 DEF r
  <1>3. CASE x # <<>>
    <2>1. s.pending \in Seq(Chars) /\ (s.pending # <<>> => s.pending \in Speakable)
          BY DEF States, Spoken, Waiting
    <2>2. x \in Speakable /\ x \in Seq(Chars) /\ SolidEnds(x)
          BY <1>3 DEF Sentences, Speakable
    <2>3. text \in Speakable
          BY <2>1, <2>2, JoinedIs DEF text
    <2>4. text \in Seq(Chars) \ {<<>>}
          BY <2>3, SpeakableIs
    <2>5. CASE Len(text) < config.minSegment
      <3>1. r = [s EXCEPT !.pending = text]
            BY <1>1, <1>3, <2>5
      <3>2. text \in Waiting
            BY <2>3, <2>5 DEF Waiting
      <3>3. /\ r \in States /\ r.pending = text /\ r.out = s.out
            /\ r.bytes = s.bytes /\ r.utf8 = s.utf8 /\ r.inThink = s.inThink
            BY <2>4, <3>1 DEF States
      <3> QED
          BY <3>2, <3>3 DEF Spoken, r
    <2>6. CASE ~(Len(text) < config.minSegment)
      <3> DEFINE all == Append(s.out, text)
      <3>1. r = [s EXCEPT !.pending = <<>>, !.out = all]
            BY <1>1, <1>3, <2>6 DEF States
      <3>2. text \in Segments
        <4>1. PICK l \in Nat : l = Len(text)
              BY <2>4
        <4>2. l >= config.minSegment
              BY <2>6, <4>1
        <4> QED
            BY <2>3, <4>1, <4>2 DEF Segments
      <3>3. all \in Seq(Segments)
        <4>1. s.out \in Seq(Segments)
              BY DEF Spoken
        <4> QED
            BY <3>2, <4>1, AppendProperties
      <3>4. all \in Seq(Seq(Chars) \ {<<>>})
        <4>1. s.out \in Seq(Seq(Chars) \ {<<>>})
              BY DEF States
        <4> QED
            BY <2>4, <4>1, AppendProperties
      <3>5. <<>> \in Seq(Chars) /\ <<>> \in Waiting
            BY DEF Waiting
      <3> HIDE DEF all
      <3>6. /\ r \in States /\ r.pending = <<>> /\ r.out = all
            /\ r.bytes = s.bytes /\ r.utf8 = s.utf8 /\ r.inThink = s.inThink
            BY <3>1, <3>4, <3>5 DEF States
      <3> QED
          BY <3>3, <3>5, <3>6 DEF Spoken, r
    <2> QED
        BY <2>5, <2>6
  <1> QED
      BY <1>2, <1>3

(* What holds of a Segmenter while its input is open. *)
SegInv(s) ==
    /\ s \in States /\ Spoken(s)
    /\ s.scanned <= Len(s.text) /\ Checked(s.text, s.scanned)

(* emitSentences keeps the invariant and leaves a settled text. *)
LEMMA EmitKeeps ==
    ASSUME NEW s, SegInv(s), config.minSentence \in Nat, config.minSegment \in Nat
    PROVE  LET r == EmitSentences(s)
           IN  /\ SegInv(r) /\ Settled(r.text)
               /\ r.bytes = s.bytes /\ r.utf8 = s.utf8 /\ r.inThink = s.inThink
PROOF
  <1> DEFINE f == CHOOSE g : CutScan(s, g)
             q == FoldLeft(PushCoalesced, s, f[0].sentences)
             Q == {p \in States : /\ Spoken(p) /\ p.bytes = s.bytes
                                  /\ p.utf8 = s.utf8 /\ p.inThink = s.inThink}
             r == EmitSentences(s)
  <1>1. /\ s \in States /\ Spoken(s)
        /\ s.scanned <= Len(s.text) /\ Checked(s.text, s.scanned)
        BY DEF SegInv
  <1>2. CutScan(s, f)
        BY <1>1, CutExists
  <1>3. r = [q EXCEPT !.text = f[0].text, !.scanned = f[0].scanned]
        BY EmitIs
  <1> HIDE DEF f, r
  <1>4. /\ f[0] \in [sentences : Seq(Sentences), text : Seq(Bytes), scanned : Nat]
        /\ f[0].scanned <= Len(f[0].text)
        /\ Checked(f[0].text, f[0].scanned) /\ Settled(f[0].text)
        BY <1>1, <1>2, CutTypes
  <1>5. q \in Q
    <2>1. s \in Q /\ f[0].sentences \in Seq(Sentences)
          BY <1>1, <1>4
    <2>2. ASSUME NEW p \in Q, NEW x \in Sentences PROVE PushCoalesced(p, x) \in Q
      <3>1. p \in States /\ Spoken(p)
            OBVIOUS
      <3> DEFINE w == PushCoalesced(p, x)
      <3>2. /\ w \in States /\ Spoken(w)
            /\ w.bytes = p.bytes /\ w.utf8 = p.utf8 /\ w.inThink = p.inThink
            BY <3>1, PushKeeps
      <3> HIDE DEF w
      <3>3. w \in Q
            BY <3>2
      <3> QED
          BY <3>3 DEF w
    <2> HIDE DEF Q
    <2> QED
        BY <2>1, <2>2, FoldKeeps
  <1> HIDE DEF q
  <1>6. /\ r \in States /\ r.pending = q.pending /\ r.out = q.out
        /\ r.text = f[0].text /\ r.scanned = f[0].scanned
        /\ r.bytes = s.bytes /\ r.utf8 = s.utf8 /\ r.inThink = s.inThink
        BY <1>3, <1>4, <1>5 DEF States
  <1>7. Spoken(r)
        BY <1>5, <1>6 DEF Spoken
  <1> QED
      BY <1>4, <1>6, <1>7 DEF SegInv, r

(* More text changes nothing that is decided. *)
LEMMA CheckedMore ==
    ASSUME NEW text \in Seq(Bytes), NEW more \in Seq(Bytes), NEW n \in Nat, n <= Len(text),
           config.minSentence \in Nat, Checked(text, n)
    PROVE  n <= Len(text \o more) /\ Checked(text \o more, n)
PROOF
  <1> DEFINE all == text \o more
  <1>1. PICK l \in Nat : l = Len(text)
        OBVIOUS
  <1>2. PICK m \in Nat : m = Len(more)
        OBVIOUS
  <1>3. PICK min \in Nat : min = config.minSentence
        OBVIOUS
  <1>4. Len(all) = l + m /\ \A k \in 1 .. l : all[k] = text[k]
    <2>1. /\ Len(all) = Len(text) + Len(more)
          /\ \A k \in 1 .. Len(text) + Len(more) :
                 all[k] = IF k <= Len(text) THEN text[k] ELSE more[k - Len(text)]
          BY ConcatProperties
    <2> HIDE DEF all
    <2>2. \A k \in 1 .. l : k \in 1 .. l + m /\ k <= l
          BY <1>1, <1>2
    <2> QED
        BY <1>1, <1>2, <2>1, <2>2
  <1> HIDE DEF all
  <1>5. Checked(all, n)
    <2> SUFFICES ASSUME NEW i \in min + 1 .. n
                 PROVE  /\ all[i] # "\n"
                        /\ all[i] = "!" => i < Len(all) /\ all[i + 1] \notin Whitespace
        BY <1>3 DEF Checked
    <2>1. i \in 1 .. l
          BY <1>1, <1>3
    <2>2. /\ text[i] # "\n"
          /\ text[i] = "!" => i < l /\ text[i + 1] \notin Whitespace
          BY <1>1, <1>3 DEF Checked
    <2>3. i < l => i < l + m /\ i + 1 \in 1 .. l
          BY <2>1
    <2> QED
        BY <1>4, <2>1, <2>2, <2>3
  <1>6. n <= l + m
        BY <1>1
  <1> QED
      BY <1>4, <1>5, <1>6 DEF all

(* Nothing is held that more input cannot change. *)
Held(s) ==
    /\ CutOff(s.bytes) /\ IsStrictPrefix(s.utf8, MarkerOf(s.inThink))
    /\ Settled(s.text)

(* A round of the loop keeps the invariant and leaves only what is held. *)
LEMMA FedKeeps ==
    ASSUME NEW s, SegInv(s), NEW p \in Seq(Bytes),
           config.minSentence \in Nat, config.minSegment \in Nat
    PROVE  SegInv(Fed(s, p)) /\ Held(Fed(s, p))
PROOF
  <1> DEFINE all == s.bytes \o p
             s1 == [s EXCEPT !.bytes = @ \o p]
             s2 == AccumulateUtf8Pieces(s1)
             s3 == RemoveThinking(s2)
             s4 == EmitSentences(s3)
  <1>1. /\ s \in States /\ Spoken(s)
        /\ s.scanned <= Len(s.text) /\ Checked(s.text, s.scanned)
        BY DEF SegInv
  <1>2. /\ s1 \in States /\ s1.text = s.text /\ s1.pending = s.pending
        /\ s1.scanned = s.scanned /\ s1.out = s.out
    <2>1. all \in Seq(Bytes)
      <3>1. s.bytes \in Seq(Bytes)
            BY <1>1 DEF States
      <3> QED
          BY <3>1, ConcatProperties
    <2>2. s1 = [s EXCEPT !.bytes = all]
          BY <1>1 DEF States
    <2> HIDE DEF all, s1
    <2> QED
        BY <1>1, <2>1, <2>2 DEF States
  <1> HIDE DEF s1
  <1>3. /\ s2 \in States /\ CutOff(s2.bytes)
        /\ s2.text = s1.text /\ s2.pending = s1.pending
        /\ s2.scanned = s1.scanned /\ s2.out = s1.out
        BY <1>2, AccumulateTypes
  <1> HIDE DEF s2
  <1>4. /\ s3 \in States /\ IsStrictPrefix(s3.utf8, MarkerOf(s3.inThink))
        /\ s3.bytes = s2.bytes /\ s3.pending = s2.pending
        /\ s3.scanned = s2.scanned /\ s3.out = s2.out
        /\ \E more \in Seq(Bytes) : s3.text = s2.text \o more
        BY <1>3, ThinkTypes
  <1> HIDE DEF s3
  <1>5. SegInv(s3)
    <2>1. Spoken(s3)
          BY <1>1, <1>2, <1>3, <1>4 DEF Spoken
    <2>2. PICK more \in Seq(Bytes) : s3.text = s.text \o more
          BY <1>2, <1>3, <1>4
    <2>3. s.text \in Seq(Bytes) /\ s.scanned \in Nat
          BY <1>1 DEF States
    <2>4. s.scanned <= Len(s.text \o more) /\ Checked(s.text \o more, s.scanned)
          BY <1>1, <2>3, CheckedMore
    <2> QED
        BY <1>2, <1>3, <1>4, <2>1, <2>2, <2>4 DEF SegInv
  <1>6. /\ SegInv(s4) /\ Settled(s4.text)
        /\ s4.bytes = s3.bytes /\ s4.utf8 = s3.utf8 /\ s4.inThink = s3.inThink
        BY <1>5, EmitKeeps
  <1> HIDE DEF s4
  <1>7. SegInv(s4) /\ Held(s4)
        BY <1>3, <1>4, <1>6 DEF Held
  <1> QED
      BY <1>7 DEF Fed, s4, s3, s2, s1

(* What segment has pushed when it returns: only the last segment may be short. *)
Segmented(out) ==
    /\ out \in Seq(Speakable)
    /\ \A k \in 1 .. Len(out) : Len(out[k]) >= config.minSegment \/ k = Len(out)

(* One more segment may be short. *)
LEMMA AppendLast ==
    ASSUME NEW out \in Seq(Segments), NEW last \in Speakable
    PROVE  Segmented(Append(out, last))
PROOF
  <1> DEFINE all == Append(out, last)
  <1>1. Segments \subseteq Speakable
        BY DEF Segments
  <1>2. out \in Seq(Speakable)
        BY <1>1
  <1>3. PICK n \in Nat : n = Len(out)
        OBVIOUS
  <1>4. all \in Seq(Speakable) /\ Len(all) = n + 1 /\ \A k \in 1 .. n : all[k] = out[k]
        BY <1>2, <1>3, AppendProperties
  <1> HIDE DEF all
  <1>5. ASSUME NEW k \in 1 .. n + 1 PROVE Len(all[k]) >= config.minSegment \/ k = n + 1
    <2>1. CASE k \in 1 .. n
      <3>1. out[k] \in Segments
            BY <1>3, <2>1
      <3> QED
          BY <1>4, <2>1, <3>1 DEF Segments
    <2>2. CASE k \notin 1 .. n
          BY <2>2
    <2> QED
        BY <2>1, <2>2
  <1> QED
      BY <1>4, <1>5 DEF Segmented, all

(* flush leaves nothing behind, and only the last segment may be short. *)
LEMMA FlushedKeeps ==
    ASSUME NEW s, SegInv(s), config.minSentence \in Nat, config.minSegment \in Nat
    PROVE  LET r == Flushed(s)
           IN  /\ r \in States /\ Segmented(r.out)
               /\ r.bytes = <<>> /\ r.utf8 = <<>> /\ r.text = <<>> /\ r.pending = <<>>
PROOF
  <1> DEFINE shown == IF s.inThink THEN s.text ELSE s.text \o s.utf8
             s1 == [s EXCEPT !.bytes = <<>>, !.utf8 = <<>>,
                             !.text = IF s.inThink THEN @ ELSE @ \o s.utf8]
             t == EmitSentences(s1)
             tail == Strip(t.text)
             last == IF tail = <<>> THEN t.pending ELSE WithPeriod(Joined(t.pending, tail))
             all == IF last = <<>> THEN t.out ELSE Append(t.out, last)
             r == Flushed(s)
  <1>1. /\ s \in States /\ Spoken(s)
        /\ s.scanned <= Len(s.text) /\ Checked(s.text, s.scanned)
        BY DEF SegInv
  <1>2. s.text \in Seq(Bytes) /\ s.utf8 \in Seq(Bytes) /\ s.scanned \in Nat
        BY <1>1 DEF States
  <1>3. shown \in Seq(Bytes) /\ s.scanned <= Len(shown) /\ Checked(shown, s.scanned)
    <2>1. s.text \o s.utf8 \in Seq(Bytes)
          BY <1>2, ConcatProperties
    <2>2. s.scanned <= Len(s.text \o s.utf8) /\ Checked(s.text \o s.utf8, s.scanned)
          BY <1>1, <1>2, CheckedMore
    <2> QED
        BY <1>1, <1>2, <2>1, <2>2
  <1>4. s1 = [s EXCEPT !.bytes = <<>>, !.utf8 = <<>>, !.text = shown]
        BY <1>1 DEF States
  <1>5. <<>> \in Seq(Bytes) /\ <<>> \in Seq(Chars)
        OBVIOUS
  <1>6. r = [t EXCEPT !.text = <<>>, !.pending = <<>>,
                      !.out = IF last = <<>> THEN @ ELSE Append(@, last)]
        BY DEF Flushed
  <1> HIDE DEF shown, s1, r
  <1>7. SegInv(s1) /\ s1.bytes = <<>> /\ s1.utf8 = <<>>
    <2>1. /\ s1 \in States /\ s1.pending = s.pending /\ s1.out = s.out
          /\ s1.bytes = <<>> /\ s1.utf8 = <<>> /\ s1.text = shown /\ s1.scanned = s.scanned
          BY <1>1, <1>3, <1>4, <1>5 DEF States
    <2>2. Spoken(s1)
          BY <1>1, <2>1 DEF Spoken
    <2> QED
        BY <1>3, <2>1, <2>2 DEF SegInv
  <1>8. SegInv(t) /\ t.bytes = <<>> /\ t.utf8 = <<>>
        BY <1>7, EmitKeeps
  <1> HIDE DEF t
  <1>9. t \in States /\ t.pending \in Waiting /\ t.out \in Seq(Segments)
        BY <1>8 DEF SegInv, Spoken
  <1>10. last = <<>> \/ last \in Speakable
    <2>1. t.pending \in Seq(Chars) /\ (t.pending # <<>> => t.pending \in Speakable)
          BY <1>9 DEF States, Waiting
    <2>2. tail \in Seq(Bytes) /\ (tail # <<>> => SolidEnds(tail))
      <3>1. t.text \in Seq(Bytes)
            BY <1>9 DEF States
      <3> QED
          BY <3>1, StripIs
    <2> HIDE DEF tail
    <2>3. CASE tail = <<>>
          BY <2>1, <2>3
    <2>4. CASE tail # <<>>
      <3>1. tail \in Seq(Chars)
            BY <2>2, BytesAreChars
      <3>2. Joined(t.pending, tail) \in Seq(Chars) /\ SolidEnds(Joined(t.pending, tail))
            BY <2>1, <2>2, <2>4, <3>1, JoinedIs
      <3>3. WithPeriod(Joined(t.pending, tail)) \in Speakable
            BY <3>2, WithPeriodIs
      <3> QED
          BY <2>4, <3>3
    <2> QED
        BY <2>3, <2>4
  <1> HIDE DEF last
  <1>11. Segmented(all) /\ all \in Seq(Seq(Chars) \ {<<>>})
    <2>1. t.out \in Seq(Seq(Chars) \ {<<>>})
          BY <1>9 DEF States
    <2>2. CASE last = <<>>
      <3>1. PICK n \in Nat : n = Len(t.out)
            BY <1>9
      <3>2. Segments \subseteq Speakable
            BY DEF Segments
      <3>3. t.out \in Seq(Speakable)
            BY <1>9, <3>2
      <3>4. \A k \in 1 .. n : Len(t.out[k]) >= config.minSegment
            BY <1>9, <3>1 DEF Segments
      <3> QED
          BY <2>1, <2>2, <3>1, <3>3, <3>4 DEF Segmented
    <2>3. CASE last # <<>>
      <3>1. last \in Speakable
            BY <1>10, <2>3
      <3>2. Segmented(Append(t.out, last))
            BY <1>9, <3>1, AppendLast
      <3>3. last \in Seq(Chars) \ {<<>>}
            BY <3>1, SpeakableIs
      <3>4. Append(t.out, last) \in Seq(Seq(Chars) \ {<<>>})
            BY <2>1, <3>3, AppendProperties
      <3> QED
          BY <2>3, <3>2, <3>4
    <2> QED
        BY <2>2, <2>3
  <1>12. r = [t EXCEPT !.text = <<>>, !.pending = <<>>, !.out = all]
        BY <1>6, <1>9 DEF States
  <1> HIDE DEF all
  <1>13. /\ r \in States /\ r.out = all /\ r.bytes = <<>> /\ r.utf8 = <<>>
         /\ r.text = <<>> /\ r.pending = <<>>
        BY <1>5, <1>8, <1>9, <1>11, <1>12 DEF States
  <1> QED
      BY <1>11, <1>13 DEF r

-----------------------------------------------------------------------------
(***************************************************************************)
(* The invariant of a Segmenter, and what follows from it.                 *)
(***************************************************************************)

(* While input may come, the segments are full and a short one waits; when
   segment has returned, nothing waits, and only the last segment may be short. *)

SegmenterInv ==
    /\ seg \in States /\ Held(seg) /\ seg.pending \in Waiting
    /\ config \in Configs /\ stream \in Streams
    /\ pieces \in 0 .. MaxPieces /\ done \in BOOLEAN /\ input \in Seq(Bytes)
    /\ IF done THEN Segmented(seg.out) ELSE SegInv(seg)

(* The limits of a config are numbers. *)
LEMMA ConfigIs ==
    ASSUME NEW c \in Configs
    PROVE  c.minSentence \in Nat /\ c.minSegment \in Nat
PROOF
  BY SegmenterAssumption DEF SegmenterAssumption

(* The pieces of a stream are input. *)
LEMMA PieceIs ==
    ASSUME NEW S \in Streams, NEW p \in S
    PROVE  p \in Seq(Bytes)
PROOF
  <1>1. p \in Seq(STRING)
        BY SegmenterAssumption DEF SegmenterAssumption
  <1>2. PICK n \in Nat : n = Len(p) /\ DOMAIN p = 1 .. n /\ p = [i \in 1 .. n |-> p[i]]
        BY <1>1
  <1>3. p \in UNION Streams
        OBVIOUS
  <1>4. ASSUME NEW i \in 1 .. n PROVE p[i] \in Bytes
    <2>1. p[i] \in Range(p)
          BY <1>2 DEF Range
    <2>2. Range(p) \in {Range(q) : q \in UNION Streams}
          BY <1>3
    <2> QED
        BY Zenon, <2>1, <2>2 DEF Bytes
  <1> HIDE DEF Bytes
  <1>5. p \in [1 .. n -> Bytes]
        BY <1>2, <1>4
  <1> QED
      BY <1>5, SeqDef

(* Nothing at all is the start of a marker. *)
LEMMA NothingHeld == \A t \in BOOLEAN : IsStrictPrefix(<<>>, MarkerOf(t))
PROOF
  <1> SUFFICES ASSUME NEW t \in BOOLEAN PROVE IsStrictPrefix(<<>>, MarkerOf(t))
      OBVIOUS
  <1> DEFINE p == SubSeq(MarkerOf(t), 1, 0)
             S == {"<", "/", "t", ">"}
  <1>1. 0 \in Nat /\ 1 \in Nat /\ 0 < Len(MarkerOf(t)) /\ 0 <= Len(MarkerOf(t))
    <2>1. PICK m \in 3 .. 4 : m = Len(MarkerOf(t))
          BY MarkerIs
    <2> QED
        BY <2>1
  <1>2. MarkerOf(t) \in Seq(S)
        BY MarkerIs
  <1> HIDE DEF S
  <1>3. p \in Seq(S) /\ Len(p) = 0
    <2>1. Len(p) = IF 1 <= 0 THEN 0 - 1 + 1 ELSE 0
          BY <1>1, <1>2, PartIs
    <2>2. p \in Seq(S)
          BY <1>1, <1>2, PartIs
    <2> QED
        BY <2>1, <2>2
  <1>4. IsStrictPrefix(p, MarkerOf(t))
        BY <1>1, StartOfMarker
  <1> HIDE DEF p
  <1>5. p = <<>>
        BY <1>3
  <1> QED
      BY <1>4, <1>5

(* A reset Segmenter is empty. *)
LEMMA FreshIs ==
    /\ Fresh \in States /\ Fresh.bytes = <<>> /\ Fresh.utf8 = <<>> /\ Fresh.text = <<>>
    /\ Fresh.pending = <<>> /\ Fresh.inThink = FALSE /\ Fresh.scanned = 0 /\ Fresh.out = <<>>
PROOF
  <1>1. /\ <<>> \in Seq(Bytes) /\ <<>> \in Seq(Chars) /\ <<>> \in Seq(Seq(Chars) \ {<<>>})
        /\ FALSE \in BOOLEAN /\ 0 \in Nat
        OBVIOUS
  <1> QED
      BY <1>1 DEF Fresh, States

(* The invariant holds before the first call. *)
LEMMA InitInv == Init => SegmenterInv
PROOF
  <1> SUFFICES ASSUME Init PROVE SegmenterInv
      OBVIOUS
  <1>1. /\ seg = Fresh /\ done = TRUE /\ pieces = 0 /\ input = <<>>
        /\ config \in Configs /\ stream \in Streams
        BY DEF Init
  <1>2. config.minSentence \in Nat
        BY <1>1, ConfigIs
  <1>3. Settled(<<>>)
    <2>1. config.minSentence + 1 .. Len(<<>>) = {}
          BY <1>2
    <2> QED
        BY <2>1 DEF Settled
  <1>4. Held(Fresh)
        BY <1>3, FreshIs, NothingHeld DEF Held, CutOff
  <1>5. Segmented(<<>>)
    <2>1. <<>> \in Seq(Speakable) /\ 1 .. Len(<<>>) = {}
          OBVIOUS
    <2> QED
        BY <2>1 DEF Segmented
  <1>6. <<>> \in Waiting /\ <<>> \in Seq(Bytes)
        BY DEF Waiting
  <1>7. 0 \in 0 .. MaxPieces
        BY SegmenterAssumption DEF SegmenterAssumption
  <1> QED
      BY <1>1, <1>4, <1>5, <1>6, <1>7, FreshIs DEF SegmenterInv

(* A call of segment starts from an empty Segmenter. *)
LEMMA SegmentInv == SegmenterInv /\ Segment => SegmenterInv'
PROOF
  <1> SUFFICES ASSUME SegmenterInv, Segment PROVE SegmenterInv'
      OBVIOUS
  <1>1. /\ seg' = Fresh /\ done' = FALSE /\ pieces' = 0 /\ input' = <<>>
        /\ config' \in Configs /\ stream' \in Streams
        BY DEF Segment
  <1>2. config'.minSentence \in Nat
        BY <1>1, ConfigIs
  <1>3. (seg.text)' = <<>> /\ (seg.scanned)' = 0 /\ (seg.pending)' = <<>> /\ (seg.out)' = <<>>
        BY <1>1, FreshIs
  <1>4. Settled(seg.text)'
    <2>1. config'.minSentence + 1 .. Len(<<>>) = {}
          BY <1>2
    <2> QED
        BY <1>3, <2>1 DEF Settled
  <1>5. Held(seg)'
        BY <1>1, <1>4, FreshIs, NothingHeld DEF Held, CutOff
  <1>6. SegInv(seg)'
    <2>1. config'.minSentence + 1 .. 0 = {}
          BY <1>2
    <2>2. Checked(seg.text, seg.scanned)'
          BY <1>3, <2>1 DEF Checked
    <2>3. (seg.scanned <= Len(seg.text))'
          BY <1>3
    <2>4. Spoken(seg)'
      <3>1. <<>> \in Waiting' /\ <<>> \in Seq(Segments')
            BY DEF Waiting
      <3> QED
          BY <1>3, <3>1 DEF Spoken
    <2> QED
        BY <1>1, <2>2, <2>3, <2>4, FreshIs DEF SegInv
  <1>7. (seg.pending \in Waiting)'
        BY <1>3 DEF Waiting
  <1>8. 0 \in 0 .. MaxPieces /\ <<>> \in Seq(Bytes)
        BY SegmenterAssumption DEF SegmenterAssumption
  <1> QED
      BY <1>1, <1>5, <1>6, <1>7, <1>8, FreshIs DEF SegmenterInv

(* A piece leaves full segments, and only what more input can change. *)
LEMMA PieceInv ==
    ASSUME NEW p \in stream, SegmenterInv, Piece(p)
    PROVE  SegmenterInv'
PROOF
  <1>1. /\ ~done /\ pieces < MaxPieces /\ seg' = Fed(seg, p) /\ input' = input \o p
        /\ pieces' = pieces + 1 /\ config' = config /\ stream' = stream /\ done' = done
        BY DEF Piece
  <1>2. /\ SegInv(seg) /\ config \in Configs /\ stream \in Streams
        /\ pieces \in 0 .. MaxPieces /\ done \in BOOLEAN /\ input \in Seq(Bytes)
        BY <1>1 DEF SegmenterInv
  <1>3. config.minSentence \in Nat /\ config.minSegment \in Nat
        BY <1>2, ConfigIs
  <1>4. p \in Seq(Bytes)
        BY <1>2, PieceIs
  <1>5. SegInv(Fed(seg, p)) /\ Held(Fed(seg, p))
        BY <1>2, <1>3, <1>4, FedKeeps
  <1>6. SegInv(seg)' /\ Held(seg)' /\ (seg.pending \in Waiting)' /\ seg' \in States
    <2>1. PICK r : r = Fed(seg, p)
          OBVIOUS
    <2>2. SegInv(r) /\ Held(r) /\ seg' = r
          BY <1>1, <1>5, <2>1
    <2>3. r.pending \in Waiting /\ r \in States
          BY <2>2 DEF SegInv, Spoken
    <2> QED
        BY <1>1, <2>2, <2>3 DEF SegInv, Held, Spoken, Checked, Settled, Segments, Waiting
  <1>7. input' \in Seq(Bytes)
        BY <1>1, <1>2, <1>4, ConcatProperties
  <1>8. pieces' \in 0 .. MaxPieces
        BY <1>1, <1>2, SegmenterAssumption DEF SegmenterAssumption
  <1> QED
      BY <1>1, <1>2, <1>6, <1>7, <1>8 DEF SegmenterInv

(* The end of the input leaves nothing held; the last segment may be short. *)
LEMMA EndInv == SegmenterInv /\ End => SegmenterInv'
PROOF
  <1> SUFFICES ASSUME SegmenterInv, End PROVE SegmenterInv'
      OBVIOUS
  <1>1. /\ ~done /\ seg' = Flushed(seg) /\ done' = TRUE /\ config' = config
        /\ stream' = stream /\ pieces' = pieces /\ input' = input
        BY DEF End
  <1>2. /\ SegInv(seg) /\ config \in Configs /\ stream \in Streams
        /\ pieces \in 0 .. MaxPieces /\ input \in Seq(Bytes)
        BY <1>1 DEF SegmenterInv
  <1>3. config.minSentence \in Nat /\ config.minSegment \in Nat
        BY <1>2, ConfigIs
  <1>4. PICK r : r = Flushed(seg)
        OBVIOUS
  <1>5. /\ r \in States /\ Segmented(r.out)
        /\ r.bytes = <<>> /\ r.utf8 = <<>> /\ r.text = <<>> /\ r.pending = <<>>
        BY <1>2, <1>3, <1>4, FlushedKeeps
  <1>6. seg' = r
        BY <1>1, <1>4
  <1>7. Held(seg)'
    <2>1. config.minSentence + 1 .. Len(<<>>) = {}
          BY <1>3
    <2>2. Settled(seg.text)'
          BY <1>1, <1>5, <1>6, <2>1 DEF Settled
    <2>3. r.inThink \in BOOLEAN
          BY <1>5 DEF States
    <2> QED
        BY <1>5, <1>6, <2>2, <2>3, NothingHeld DEF Held, CutOff
  <1>8. Segmented(seg.out)'
        BY <1>1, <1>5, <1>6 DEF Segmented
  <1>9. (seg.pending \in Waiting)'
        BY <1>5, <1>6 DEF Waiting
  <1> QED
      BY <1>1, <1>2, <1>5, <1>6, <1>7, <1>8, <1>9 DEF SegmenterInv

(* No step between calls or on other variables disturbs the invariant. *)
LEMMA StutterInv == SegmenterInv /\ UNCHANGED vars => SegmenterInv'
PROOF
  <1> SUFFICES ASSUME SegmenterInv, UNCHANGED vars PROVE SegmenterInv'
      OBVIOUS
  <1>1. /\ seg' = seg /\ config' = config /\ stream' = stream /\ pieces' = pieces
        /\ done' = done /\ input' = input
        BY DEF vars
  <1>2. Held(seg)' /\ (seg.pending \in Waiting)'
        BY <1>1 DEF SegmenterInv, Held, Settled, Waiting
  <1>3. done => Segmented(seg.out)'
        BY <1>1 DEF SegmenterInv, Segmented
  <1>4. ~done => SegInv(seg)'
        BY <1>1 DEF SegmenterInv, SegInv, Spoken, Checked, Segments, Waiting
  <1> QED
      BY <1>1, <1>2, <1>3, <1>4 DEF SegmenterInv

(* The segmenter keeps its invariant. *)
THEOREM Invariant == Spec => []SegmenterInv
PROOF
  <1>1. SegmenterInv /\ [Next]_vars => SegmenterInv'
    <2> SUFFICES ASSUME SegmenterInv, [Next]_vars PROVE SegmenterInv'
        OBVIOUS
    <2>1. CASE Segment
          BY <2>1, SegmentInv
    <2>2. CASE End
          BY <2>2, EndInv
    <2>3. CASE \E p \in stream : Piece(p)
          BY <2>3, PieceInv
    <2>4. CASE UNCHANGED vars
          BY <2>4, StutterInv
    <2> QED
        BY <2>1, <2>2, <2>3, <2>4 DEF Next
  <1> QED
      BY <1>1, InitInv, PTL DEF Spec

(* The buffers and the segments are what their names say, no segment is empty,
   and findSentenceEnd never starts behind the end of the text. *)
THEOREM SegmenterTypes == Spec => []TypeOK
PROOF
  <1>1. SegmenterInv => TypeOK
    <2> SUFFICES ASSUME SegmenterInv PROVE TypeOK
        OBVIOUS
    <2>1. seg \in States
          BY DEF SegmenterInv
    <2>2. /\ {seg.bytes, seg.utf8, seg.text} \subseteq Seq(Bytes)
          /\ seg.pending \in Seq(Chars)
          /\ \A k \in DOMAIN seg.out : seg.out[k] \in Seq(Chars) \ {<<>>}
          /\ seg.inThink \in BOOLEAN /\ seg.scanned \in Nat
          BY <2>1 DEF States
    <2>3. ~done => seg.scanned <= Len(seg.text)
          BY DEF SegmenterInv, SegInv
    <2>4. /\ config \in Configs /\ stream \in Streams /\ pieces \in 0 .. MaxPieces
          /\ done \in BOOLEAN /\ input \in Seq(Bytes)
          BY DEF SegmenterInv
    <2> QED
        BY Zenon, <2>2, <2>3, <2>4 DEF TypeOK, Chars
  <1> QED
      BY <1>1, Invariant, PTL

(* Between two pieces, the segmenter holds only what more input can change. *)
THEOREM Prompt == Spec => []NothingDecidedHeld
PROOF
  <1>1. SegmenterInv => NothingDecidedHeld
    <2> SUFFICES ASSUME SegmenterInv PROVE NothingDecidedHeld
        OBVIOUS
    <2>1. seg.pending # <<>> => Len(seg.pending) < config.minSegment
          BY DEF SegmenterInv, Waiting
    <2> QED
        BY <2>1 DEF NothingDecidedHeld, SegmenterInv, Held, CutOff, Settled, MarkerOf
  <1> QED
      BY <1>1, Invariant, PTL

(* Every segment starts and ends with text and closes with punctuation, tags
   aside, and none but the last of an input is shorter than minSegmentLength. *)
THEOREM Speakables == Spec => []SegmentsSpeakable
PROOF
  <1>1. SegmenterInv => SegmentsSpeakable
    <2> SUFFICES ASSUME SegmenterInv, NEW k \in DOMAIN seg.out
                 PROVE  LET text   == seg.out[k]
                            spoken == SolidOf(text)
                        IN  /\ {text[1], Last(text)} \cap Whitespace = {}
                            /\ spoken # {} => \/ text[Max(spoken)] \in {".", "!"}
                                              \/ IsSuffix(Ellipsis, SubSeq(text, 1, Max(spoken)))
                            /\ Len(text) >= config.minSegment \/ (done /\ k = Len(seg.out))
        BY DEF SegmentsSpeakable
    <2> DEFINE text == seg.out[k]
               spoken == SolidOf(text)
    <2>1. seg \in States
          BY DEF SegmenterInv
    <2>2. k \in 1 .. Len(seg.out)
          BY <2>1 DEF States
    <2>3. text \in Speakable /\ (Len(text) >= config.minSegment \/ (done /\ k = Len(seg.out)))
      <3>1. CASE done
        <4>1. Segmented(seg.out)
              BY <3>1 DEF SegmenterInv
        <4> QED
            BY <2>2, <3>1, <4>1 DEF Segmented
      <3>2. CASE ~done
        <4>1. seg.out \in Seq(Segments)
              BY <3>2 DEF SegmenterInv, SegInv, Spoken
        <4>2. text \in Segments
              BY <2>2, <4>1
        <4> QED
            BY <4>2 DEF Segments
      <3> QED
          BY <3>1, <3>2
    <2> HIDE DEF text
    <2>4. text \in Seq(Chars) /\ SolidEnds(text) /\ Closes(text)
          BY <2>3 DEF Speakable
    <2>5. {text[1], Last(text)} \cap Whitespace = {}
          BY <2>4 DEF SolidEnds, Last
    <2>6. ASSUME spoken # {}
          PROVE  \/ text[Max(spoken)] \in {".", "!"}
                 \/ IsSuffix(Ellipsis, SubSeq(text, 1, Max(spoken)))
      <3>1. Max(spoken) \in spoken /\ spoken \subseteq 1 .. Len(text)
            BY <2>4, <2>6, SolidIs
      <3>2. PICK p \in 1 .. Len(text) : p = Max(spoken)
            BY <3>1
      <3>3. ClosedAt(text, p)
            BY <2>4, <2>6, <3>2 DEF Closes
      <3>4. text[p] \in {".", "!"} \/ IsSuffix(Ellipsis, SubSeq(text, 1, p))
            BY <2>4, <3>3, ClosedAtIs
      <3> QED
          BY <3>2, <3>4
    <2> QED
        BY <2>3, <2>5, <2>6 DEF text
  <1> QED
      BY <1>1, Invariant, PTL

(* The recursion of SequencesExt's FlattenSeq. *)
Flat(f, xs) == f = [i \in 1 .. Len(xs) |-> IF i = 1 THEN xs[i] ELSE f[i - 1] \o xs[i]]

(* There is such a function for every sequence of texts. *)
LEMMA FlatExists ==
    ASSUME NEW S, NEW xs \in Seq(S)
    PROVE  \E f : Flat(f, xs)
PROOF
  <1>1. PICK n \in Nat : n = Len(xs)
        OBVIOUS
  <1> DEFINE value(f, i) == IF i = 1 THEN xs[i] ELSE f[i - 1] \o xs[i]
             Upto(k, g) == g = [i \in 1 .. k |-> value(g, i)]
             T == {k \in 0 .. n : \E g : Upto(k, g)}
  <1>2. 0 \in T
    <2> DEFINE g == [i \in 1 .. 0 |-> <<>>]
    <2>1. g = [i \in 1 .. 0 |-> value(g, i)] /\ 0 \in 0 .. n
          OBVIOUS
    <2> HIDE DEF g, value
    <2>2. Upto(0, g)
          BY <2>1
    <2> QED
        BY <2>1, <2>2
  <1>3. ASSUME NEW k \in 1 .. n, k - 1 \in T PROVE k \in T
    <2>1. PICK m \in Nat : m = k - 1 /\ k = m + 1
          OBVIOUS
    <2>2. PICK g : Upto(m, g)
          BY <1>3, <2>1
    <2> DEFINE h == [i \in 1 .. k |-> value(g, i)]
    <2>3. DOMAIN h = 1 .. k /\ h = [i \in 1 .. k |-> h[i]] /\ \A i \in 1 .. k : h[i] = value(g, i)
          OBVIOUS
    <2>4. \A i \in 1 .. m : h[i] = g[i]
      <3>1. \A i \in 1 .. m : i \in 1 .. k
            BY <2>1
      <3> HIDE DEF h, value
      <3> QED
          BY <2>2, <2>3, <3>1
    <2> HIDE DEF h
    <2>5. \A i \in 1 .. k : value(g, i) = value(h, i)
      <3> SUFFICES ASSUME NEW i \in 1 .. k PROVE value(g, i) = value(h, i)
          OBVIOUS
      <3>1. i # 1 => i - 1 \in 1 .. m
            BY <2>1
      <3> QED
          BY <2>4, <3>1
    <2> HIDE DEF value
    <2>6. Upto(k, h)
          BY <2>3, <2>5
    <2>7. k \in 0 .. n
          OBVIOUS
    <2> QED
        BY <2>6, <2>7
  <1>4. n \in 0 .. n
        OBVIOUS
  <1> HIDE DEF T
  <1>5. n \in T
        BY <1>2, <1>3, <1>4, UpInduction
  <1> QED
      BY <1>1, <1>5 DEF T, Flat

-----------------------------------------------------------------------------
(***************************************************************************)
(* stripTags: what is left of a text, and its gaps.                        *)
(***************************************************************************)

(* The bytes of x at the positions in I, position by position. *)
Picks(q, x, I) ==
    q[0] = <<>> /\ \A i \in 1 .. Len(x) : q[i] = IF i \in I THEN Append(q[i - 1], x[i]) ELSE q[i - 1]

(* Picked takes the positions in their order. *)
LEMMA PickedIs ==
    ASSUME NEW S, NEW x \in Seq(S), NEW I
    PROVE  \E q : /\ Picks(q, x, I) /\ Picked(x, I) = q[Len(x)]
                  /\ \A i \in 0 .. Len(x) : q[i] \in Seq(S)
PROOF
  <1>1. PICK n \in Nat : n = Len(x) /\ DOMAIN x = 1 .. n
        OBVIOUS
  <1> DEFINE part(i) == IF i \in I THEN <<x[i]>> ELSE <<>>
             xs == [i \in DOMAIN x |-> part(i)]
             f == CHOOSE g : Flat(g, xs)
             q == [i \in 0 .. n |-> IF i = 0 THEN <<>> ELSE f[i]]
  <1>2. Picked(x, I) = FlattenSeq(xs)
        BY DEF Picked
  <1>3. \A i \in 1 .. n : part(i) \in Seq(S) /\ xs[i] = part(i)
        BY <1>1
  <1>4. xs \in Seq(Seq(S)) /\ Len(xs) = n /\ DOMAIN xs = 1 .. n
        BY <1>1, <1>3
  <1> HIDE DEF xs
  <1>5. n # 0 => FlattenSeq(xs) = f[n]
        BY <1>4 DEF FlattenSeq, Flat
  <1>6. Flat(f, xs)
        BY <1>4, FlatExists
  <1> HIDE DEF f
  <1>7. \A i \in 1 .. n : f[i] = IF i = 1 THEN part(i) ELSE f[i - 1] \o part(i)
        BY <1>3, <1>4, <1>6 DEF Flat
  <1>8. q[0] = <<>> /\ \A i \in 1 .. n : q[i] = f[i] /\ i \in 0 .. n
        OBVIOUS
  <1> HIDE DEF q
  <1> DEFINE T == {k \in 0 .. n : /\ q[k] \in Seq(S)
                                  /\ k # 0 => q[k] = IF k \in I THEN Append(q[k - 1], x[k]) ELSE q[k - 1]}
  <1>9. 0 \in T
    <2>1. 0 \in 0 .. n /\ <<>> \in Seq(S) /\ ~(0 # 0)
          OBVIOUS
    <2>2. q[0] \in Seq(S)
          BY <1>8, <2>1
    <2> QED
        BY <2>1, <2>2
  <1>10. ASSUME NEW k \in 1 .. n, k - 1 \in T PROVE k \in T
    <2>1. PICK m \in 0 .. n : m = k - 1 /\ (k # 1 => m \in 1 .. n) /\ (k = 1 => m = 0)
          OBVIOUS
    <2>2. q[m] \in Seq(S) /\ x[k] \in S
          BY <1>1, <1>10, <2>1
    <2>3. q[k] = q[m] \o part(k)
      <3>1. CASE k = 1
        <4>1. q[k] = part(k) /\ q[m] = <<>>
              BY <1>7, <1>8, <2>1, <3>1
        <4>2. <<>> \o part(k) = part(k)
              BY <1>3, ConcatEmptySeq
        <4> QED
            BY <4>1, <4>2
      <3>2. CASE k # 1
        <4>1. f[k] = f[k - 1] \o part(k)
              BY <1>7, <3>2
        <4>2. q[k] = f[k] /\ q[m] = f[m]
              BY <1>8, <2>1, <3>2
        <4> QED
            BY <2>1, <4>1, <4>2
      <3> QED
          BY <3>1, <3>2
    <2>4. k \in I => q[k] = Append(q[m], x[k])
          BY <2>2, <2>3, AppendIsConcat
    <2>5. k \notin I => q[k] = q[m]
          BY <2>2, <2>3, ConcatEmptySeq
    <2>6. q[k] \in Seq(S)
          BY <2>2, <2>4, <2>5, AppendProperties, ZenonT(30)
    <2>7. q[k] = IF k \in I THEN Append(q[k - 1], x[k]) ELSE q[k - 1]
          BY <2>1, <2>4, <2>5
    <2>8. k \in 0 .. n
          OBVIOUS
    <2> QED
        BY <2>6, <2>7, <2>8
  <1> HIDE DEF T
  <1>11. 0 .. n \subseteq T
        BY <1>9, <1>10, UpInduction
  <1>12. \A i \in 0 .. n : q[i] \in Seq(S)
        BY <1>11 DEF T
  <1>13. Picks(q, x, I)
    <2>1. \A i \in 1 .. n : i \in 0 .. n /\ i # 0
          OBVIOUS
    <2> QED
        BY <1>1, <1>8, <1>11, <2>1 DEF T, Picks
  <1>14. Picked(x, I) = q[n]
    <2>1. CASE n = 0
      <3>1. xs = <<>> /\ FlattenSeq(xs) = xs
            BY <1>4, <2>1 DEF FlattenSeq
      <3> QED
          BY <1>2, <1>8, <2>1, <3>1
    <2>2. CASE n # 0
      <3>1. n \in 1 .. n
            BY <2>2
      <3> QED
          BY <1>2, <1>5, <1>8, <2>2, <3>1
    <2> QED
        BY <2>1, <2>2
  <1> QED
      BY <1>1, <1>12, <1>13, <1>14

(* Positions that are not picked add nothing. *)
LEMMA PicksFlat ==
    ASSUME NEW n \in Nat, NEW x, n = Len(x), NEW I, NEW q, Picks(q, x, I),
           NEW a \in 0 .. n, NEW b \in a .. n, \A i \in a + 1 .. b : i \notin I
    PROVE  q[b] = q[a]
PROOF
  <1> DEFINE T == {k \in 0 .. n : a <= k /\ k <= b => q[k] = q[a]}
  <1>1. 0 \in T
    <2>1. 0 \in 0 .. n /\ (a <= 0 => a = 0)
          OBVIOUS
    <2> QED
        BY <2>1
  <1>2. ASSUME NEW k \in 1 .. n, k - 1 \in T PROVE k \in T
    <2>1. k \in 0 .. n
          OBVIOUS
    <2> SUFFICES ASSUME a <= k, k <= b PROVE q[k] = q[a]
        BY <2>1
    <2>2. CASE a = k
          BY <2>2
    <2>3. CASE a # k
      <3>1. k \in a + 1 .. b /\ a <= k - 1 /\ k - 1 <= b
            BY <2>3
      <3>2. q[k - 1] = q[a]
            BY <1>2, <3>1
      <3>3. q[k] = q[k - 1]
            BY <3>1 DEF Picks
      <3> QED
          BY <3>2, <3>3
    <2> QED
        BY <2>2, <2>3
  <1>3. b \in 0 .. n /\ a <= b
        OBVIOUS
  <1> HIDE DEF T
  <1>4. b \in T
        BY <1>1, <1>2, <1>3, UpInduction
  <1> QED
      BY <1>3, <1>4 DEF T

(* What is picked of a text are its bytes at the positions. *)
LEMMA PicksElements ==
    ASSUME NEW S, NEW x \in Seq(S), NEW I, NEW q, Picks(q, x, I),
           \A i \in 0 .. Len(x) : q[i] \in Seq(S), NEW Z
    PROVE  (\E k \in DOMAIN q[Len(x)] : q[Len(x)][k] \notin Z)
               <=> \E m \in DOMAIN x : m \in I /\ x[m] \notin Z
PROOF
  <1>1. PICK n \in Nat : n = Len(x) /\ DOMAIN x = 1 .. n
        OBVIOUS
  <1> DEFINE Has(y) == \E k \in DOMAIN y : y[k] \notin Z
             T == {k \in 0 .. n : Has(q[k]) <=> \E m \in 1 .. k : m \in I /\ x[m] \notin Z}
  <1>2. 0 \in T
    <2>1. 0 \in 0 .. n /\ q[0] = <<>> /\ 1 .. 0 = {}
          BY DEF Picks
    <2>2. DOMAIN q[0] = {}
          BY <2>1
    <2> QED
        BY <2>1, <2>2
  <1>3. ASSUME NEW k \in 1 .. n, k - 1 \in T PROVE k \in T
    <2>1. PICK j \in 0 .. n : j = k - 1 /\ k = j + 1
          OBVIOUS
    <2>2. q[k] = IF k \in I THEN Append(q[j], x[k]) ELSE q[j]
          BY <1>1, <2>1 DEF Picks
    <2>3. Has(q[j]) <=> \E m \in 1 .. j : m \in I /\ x[m] \notin Z
          BY <1>3, <2>1
    <2>4. \A m : m \in 1 .. k <=> m \in 1 .. j \/ m = k
          BY <2>1
    <2>5. q[j] \in Seq(S) /\ x[k] \in S
          BY <1>1, <2>1
    <2>6. CASE k \notin I
      <3>1. (\E m \in 1 .. k : m \in I /\ x[m] \notin Z) <=> \E m \in 1 .. j : m \in I /\ x[m] \notin Z
            BY <2>4, <2>6
      <3>2. q[k] = q[j] /\ k \in 0 .. n
            BY <2>2, <2>6
      <3> HIDE DEF Has
      <3> QED
          BY <2>3, <3>1, <3>2
    <2>7. CASE k \in I
      <3>1. (\E m \in 1 .. k : m \in I /\ x[m] \notin Z)
                <=> x[k] \notin Z \/ \E m \in 1 .. j : m \in I /\ x[m] \notin Z
            BY <2>4, <2>7
      <3>2. Has(Append(q[j], x[k])) <=> Has(q[j]) \/ x[k] \notin Z
        <4>1. PICK p \in Seq(S) : p = q[j]
              BY <2>5
        <4>2. PICK len \in Nat : len = Len(p) /\ DOMAIN p = 1 .. len
              OBVIOUS
        <4> DEFINE y == Append(p, x[k])
        <4>3. /\ DOMAIN y = 1 .. len + 1 /\ y[len + 1] = x[k]
              /\ \A i \in 1 .. len : y[i] = p[i]
              BY <2>5, <4>2
        <4>4. \A i : i \in 1 .. len + 1 <=> i \in 1 .. len \/ i = len + 1
              OBVIOUS
        <4> HIDE DEF y
        <4>5. (\E i \in DOMAIN y : y[i] \notin Z) <=> (\E i \in DOMAIN p : p[i] \notin Z) \/ x[k] \notin Z
              BY <4>2, <4>3, <4>4
        <4> QED
            BY <4>1, <4>5 DEF y
      <3>3. q[k] = Append(q[j], x[k]) /\ k \in 0 .. n
            BY <2>2, <2>7
      <3> HIDE DEF Has
      <3> QED
          BY <2>3, <3>1, <3>2, <3>3
    <2> QED
        BY <2>6, <2>7
  <1>4. n \in 0 .. n
        OBVIOUS
  <1> HIDE DEF T
  <1>5. n \in T
        BY <1>2, <1>3, <1>4, UpInduction
  <1> QED
      BY <1>1, <1>5 DEF T

(* The solid positions of a text, and its gaps: the first position behind a solid
   one, if the next solid one does not close the text. *)

SolidIn(x) == {i \in DOMAIN x : x[i] \notin Whitespace}
GapsIn(x) ==
    {i \in DOMAIN x \ SolidIn(x) :
        /\ i - 1 \in SolidIn(x)
        /\ \E j \in {j \in SolidIn(x) : j > i /\ (i .. j) \cap SolidIn(x) = {j}} : x[j] \notin Closing}

KeptIn(x) == SolidIn(x) \cup GapsIn(x)

(* The positions l + 1 to i are white space behind a solid position l. *)
GapAt(x, l, i) ==
    /\ l \in 0 .. i /\ (l = 0 \/ l \in SolidIn(x))
    /\ \A k \in l + 1 .. i : k \notin SolidIn(x)

(* Of the white space behind position l only the first position can be a gap. *)
LEMMA GapIs ==
    ASSUME NEW S, NEW x \in Seq(S), NEW n \in Nat, n = Len(x),
           NEW i \in 0 .. n, NEW l, GapAt(x, l, i)
    PROVE  /\ \A m \in l + 2 .. i : m \notin KeptIn(x)
           /\ l = 0 => \A m \in 1 .. i : m \notin KeptIn(x)
           /\ l > 0 /\ l < i /\ i < n /\ i + 1 \in SolidIn(x) =>
                  (l + 1 \in KeptIn(x) <=> x[i + 1] \notin Closing)
           /\ i = n => \A m \in l + 1 .. i : m \notin KeptIn(x)
PROOF
  <1>1. DOMAIN x = 1 .. n /\ l \in 0 .. i /\ l \in Nat /\ i \in Nat
        BY DEF GapAt
  <1>2. \A k \in l + 1 .. i : k \notin SolidIn(x)
        BY DEF GapAt
  <1>3. SolidIn(x) \subseteq 1 .. n
        BY <1>1 DEF SolidIn
  <1>4. ASSUME NEW m \in l + 2 .. i PROVE m \notin KeptIn(x)
    <2>1. m - 1 \in l + 1 .. i /\ m \in l + 1 .. i
          BY <1>1
    <2> QED
        BY <1>2, <2>1 DEF KeptIn, GapsIn
  <1>5. ASSUME l = 0, NEW m \in 1 .. i PROVE m \notin KeptIn(x)
    <2>1. CASE m = 1
      <3>1. m - 1 \notin SolidIn(x) /\ m \in l + 1 .. i
            BY <1>1, <1>3, <1>5, <2>1
      <3> QED
          BY <1>2, <3>1 DEF KeptIn, GapsIn
    <2>2. CASE m # 1
      <3>1. m \in l + 2 .. i
            BY <1>5, <2>2
      <3> QED
          BY <1>4, <3>1
    <2> QED
        BY <2>1, <2>2
  <1>6. ASSUME l > 0, l < i, i < n, i + 1 \in SolidIn(x)
        PROVE  l + 1 \in KeptIn(x) <=> x[i + 1] \notin Closing
    <2>1. PICK m \in 1 .. n : m = l + 1 /\ m - 1 = l /\ m <= i
          BY <1>1, <1>6
    <2>2. PICK j \in 1 .. n : j = i + 1 /\ m < j
          BY <1>1, <1>6, <2>1
    <2>3. m \notin SolidIn(x) /\ m \in DOMAIN x /\ m - 1 \in SolidIn(x) /\ j \in SolidIn(x)
      <3>1. m \in l + 1 .. i
            BY <1>1, <2>1
      <3> QED
          BY <1>1, <1>2, <1>6, <2>1, <2>2, <3>1 DEF GapAt
    <2>4. ASSUME NEW k \in SolidIn(x), k >= m PROVE k >= j
      <3>1. k \notin l + 1 .. i /\ k \in 1 .. n
            BY <1>2, <1>3
      <3> QED
          BY <1>1, <2>1, <2>2, <2>4, <3>1
    <2>5. (m .. j) \cap SolidIn(x) = {j}
      <3>1. \A k \in (m .. j) \cap SolidIn(x) : k = j
        <4> TAKE k \in (m .. j) \cap SolidIn(x)
        <4>1. k >= j /\ k <= j /\ k \in 1 .. n /\ j \in 1 .. n
              BY <1>3, <2>4
        <4> QED
            BY <4>1
      <3>2. j \in m .. j
            BY <2>2
      <3> QED
          BY <2>3, <3>1, <3>2
    <2>6. ASSUME NEW h \in SolidIn(x), h > m, (m .. h) \cap SolidIn(x) = {h} PROVE h = j
      <3>1. h \in 1 .. n /\ h >= m
            BY <1>3, <2>6
      <3>2. h >= j
            BY <2>4, <3>1
      <3>3. j \in m .. h
            BY <2>2, <3>1, <3>2
      <3> QED
          BY <2>3, <2>6, <3>3
    <2>7. m \in GapsIn(x) <=> x[j] \notin Closing
      <3>1. ASSUME m \in GapsIn(x) PROVE x[j] \notin Closing
        <4>1. PICK h \in SolidIn(x) : h > m /\ (m .. h) \cap SolidIn(x) = {h} /\ x[h] \notin Closing
              BY <3>1 DEF GapsIn
        <4> QED
            BY <2>6, <4>1
      <3>2. ASSUME x[j] \notin Closing PROVE m \in GapsIn(x)
        <4>1. j > m
              BY <2>2
        <4> QED
            BY <2>3, <2>5, <3>2, <4>1 DEF GapsIn
      <3> QED
          BY <3>1, <3>2
    <2> QED
        BY <2>1, <2>2, <2>3, <2>7 DEF KeptIn
  <1>7. ASSUME i = n, NEW m \in l + 1 .. i PROVE m \notin KeptIn(x)
    <2>1. m \notin SolidIn(x)
          BY <1>2
    <2>2. ASSUME NEW j \in SolidIn(x), j > m PROVE FALSE
      <3>1. j \in 1 .. n
            BY <1>3
      <3>2. j \in l + 1 .. i
            BY <1>1, <1>7, <2>2, <3>1
      <3> QED
          BY <1>2, <3>2
    <2>3. m \notin GapsIn(x)
          BY <2>2 DEF GapsIn
    <2> QED
        BY <2>1, <2>3 DEF KeptIn
  <1> QED
      BY <1>4, <1>5, <1>6, <1>7

(* One more element, and the sequence without it. *)
LEMMA GrownIs ==
    ASSUME NEW S, NEW s \in Seq(S), NEW e \in S
    PROVE  Append(s, e) # <<>> /\ Last(Append(s, e)) = e /\ Front(Append(s, e)) = s
PROOF
  <1>1. PICK n \in Nat : n = Len(s)
        OBVIOUS
  <1> DEFINE y == Append(s, e)
  <1>2. y \in Seq(S) /\ Len(y) = n + 1 /\ y[n + 1] = e /\ \A i \in 1 .. n : y[i] = s[i]
        BY <1>1
  <1> HIDE DEF y
  <1>3. y # <<>> /\ Last(y) = e
        BY <1>1, <1>2 DEF Last
  <1>4. Front(y) = s
    <2>1. PICK f : f = SubSeq(y, 1, n)
          OBVIOUS
    <2>2. Front(y) = f
      <3>1. Len(y) - 1 = n
            BY <1>1, <1>2
      <3> QED
          BY <2>1, <3>1 DEF Front
    <2>3. 1 \in Nat /\ n \in Nat /\ 1 <= n + 1
          OBVIOUS
    <2>4. f \in Seq(S) /\ Len(f) = n /\ \A i \in 1 .. n : f[i] = y[i]
          BY <1>2, <2>1
    <2>5. \A i \in 1 .. n : f[i] = s[i]
          BY <1>2, <2>4
    <2> QED
        BY <1>1, <2>2, <2>4, <2>5, SeqEqual
  <1> QED
      BY <1>3, <1>4 DEF y

(* A solid position is picked. *)
LEMMA SolidPicked ==
    ASSUME NEW S, NEW x \in Seq(S), NEW q, Picks(q, x, KeptIn(x)),
           \A i \in 0 .. Len(x) : q[i] \in Seq(S), NEW l \in SolidIn(x)
    PROVE  q[l] # <<>> /\ Last(q[l]) \notin Whitespace
PROOF
  <1>1. PICK n \in Nat : n = Len(x) /\ DOMAIN x = 1 .. n
        OBVIOUS
  <1>2. l \in 1 .. n /\ x[l] \notin Whitespace /\ l \in KeptIn(x)
        BY <1>1 DEF SolidIn, KeptIn
  <1>3. PICK j \in 0 .. n : j = l - 1
        BY <1>2
  <1>4. PICK p \in Seq(S) : p = q[j]
        BY <1>1, <1>3
  <1>5. q[l] = Append(p, x[l])
        BY <1>1, <1>2, <1>3, <1>4 DEF Picks
  <1>6. x[l] \in S
        BY <1>1, <1>2
  <1>7. Append(p, x[l]) # <<>> /\ Last(Append(p, x[l])) = x[l]
        BY <1>6, GrownIs
  <1> QED
      BY <1>2, <1>5, <1>7

(* What is tidied up to position i, with l the last solid position: what is kept up
   to l, and one byte of white space if there is some between the two. *)

TidyAt(x, q, l, i) == IF l = 0 \/ l = i THEN q[l] ELSE Append(q[l], x[l + 1])

(* The texts q are picked of x, and l is the last solid position up to i. *)
Tidying(S, x, q, l, i) ==
    /\ Picks(q, x, KeptIn(x)) /\ (\A j \in 0 .. Len(x) : q[j] \in Seq(S))
    /\ GapAt(x, l, i)

(* tidy is what is tidied up to position i. *)
TidyUpto(tidy, x, q, i) == \E l : GapAt(x, l, i) /\ tidy = TidyAt(x, q, l, i)

(* One more byte. *)
LEMMA TidyStep ==
    ASSUME NEW S, NEW x \in Seq(S), NEW n \in Nat, n = Len(x), NEW q,
           NEW i \in 0 .. n, NEW k \in 1 .. n, k = i + 1, NEW l, Tidying(S, x, q, l, i)
    PROVE  TidyUpto(Tidied(TidyAt(x, q, l, i), x[k]), x, q, k)
PROOF
  <1> USE DEF Tidying
  <1>1. k = i + 1 /\ k - 1 = i /\ k \in 0 .. n /\ i < n
        OBVIOUS
  <1>2. DOMAIN x = 1 .. n /\ l \in 0 .. i /\ l \in 0 .. n /\ x[k] \in S
        BY DEF GapAt
  <1>3. q[0] = <<>> /\ q[l] \in Seq(S)
        BY <1>2 DEF Picks
  <1>4. ASSUME l # 0 PROVE q[l] # <<>> /\ Last(q[l]) \notin Whitespace
    <2>1. l \in SolidIn(x)
          BY <1>4 DEF GapAt
    <2>2. \A j \in 0 .. Len(x) : q[j] \in Seq(S)
          OBVIOUS
    <2> QED
        BY <2>1, <2>2, SolidPicked
  <1>5. ASSUME l # 0, l # i
        PROVE  /\ x[l + 1] \in Whitespace /\ x[l + 1] \in S
               /\ Append(q[l], x[l + 1]) # <<>> /\ Last(Append(q[l], x[l + 1])) = x[l + 1]
               /\ Front(Append(q[l], x[l + 1])) = q[l]
    <2>1. l + 1 \in l + 1 .. i /\ l + 1 \in 1 .. n
          BY <1>2, <1>5
    <2>2. x[l + 1] \in Whitespace /\ x[l + 1] \in S
          BY <1>2, <2>1 DEF GapAt, SolidIn
    <2> QED
        BY <1>3, <2>2, GrownIs
  <1> DEFINE tidy == TidyAt(x, q, l, i)
  <1>6. CASE x[k] \in Whitespace
    <2>1. GapAt(x, l, k)
      <3>1. k \notin SolidIn(x)
            BY <1>6 DEF SolidIn
      <3>2. l \in 0 .. k /\ \A m \in l + 1 .. k : m \in l + 1 .. i \/ m = k
            BY <1>1, <1>2
      <3> QED
          BY <3>1, <3>2 DEF GapAt
    <2>2. Tidied(tidy, x[k]) = TidyAt(x, q, l, k)
      <3>1. CASE l = 0
        <4>1. tidy = <<>> /\ TidyAt(x, q, l, k) = <<>>
              BY <1>3, <3>1 DEF TidyAt
        <4> QED
            BY <1>6, <4>1 DEF Tidied
      <3>2. CASE l # 0 /\ l = i
        <4>1. tidy = q[l] /\ TidyAt(x, q, l, k) = Append(q[l], x[k])
          <5>1. l # k /\ l + 1 = k
                BY <1>1, <1>2, <3>2
          <5> QED
              BY <3>2, <5>1 DEF TidyAt
        <4> QED
            BY <1>4, <1>6, <3>2, <4>1 DEF Tidied
      <3>3. CASE l # 0 /\ l # i
        <4>1. tidy = Append(q[l], x[l + 1]) /\ TidyAt(x, q, l, k) = Append(q[l], x[l + 1])
          <5>1. l # k
                BY <1>1, <1>2
          <5> QED
              BY <3>3, <5>1 DEF TidyAt
        <4>2. tidy # <<>> /\ Last(tidy) \in Whitespace
              BY <1>5, <3>3, <4>1
        <4> HIDE DEF tidy
        <4>3. Tidied(tidy, x[k]) = tidy
              BY <1>6, <4>2 DEF Tidied
        <4> QED
            BY <4>1, <4>3
      <3> QED
          BY <3>1, <3>2, <3>3
    <2> QED
        BY <2>1, <2>2 DEF TidyUpto
  <1>7. CASE x[k] \notin Whitespace
    <2>1. k \in SolidIn(x)
          BY <1>2, <1>7 DEF SolidIn
    <2>2. GapAt(x, k, k)
      <3>1. k \in 0 .. k /\ k + 1 .. k = {}
            OBVIOUS
      <3> QED
          BY <2>1, <3>1 DEF GapAt
    <2>3. q[k] = Append(q[i], x[k]) /\ TidyAt(x, q, k, k) = q[k]
          BY <1>1, <2>1 DEF Picks, KeptIn, TidyAt
    <2>4. /\ \A m \in l + 2 .. i : m \notin KeptIn(x)
          /\ l = 0 => \A m \in 1 .. i : m \notin KeptIn(x)
          /\ l > 0 /\ l < i => (l + 1 \in KeptIn(x) <=> x[k] \notin Closing)
          BY <1>1, <2>1, GapIs
    <2>5. Tidied(tidy, x[k]) = q[k]
      <3>1. CASE l = 0
        <4>1. 0 \in 0 .. n /\ i \in 0 .. n /\ 0 + 1 = 1
              OBVIOUS
        <4>2. q[i] = q[0]
              BY <2>4, <3>1, <4>1, PicksFlat
        <4>3. tidy = <<>>
              BY <1>3, <3>1 DEF TidyAt
        <4> QED
            BY <1>3, <1>7, <2>3, <4>2, <4>3 DEF Tidied
      <3>2. CASE l # 0 /\ l = i
        <4>1. tidy = q[i]
              BY <3>2 DEF TidyAt
        <4> QED
            BY <1>4, <1>7, <2>3, <3>2, <4>1 DEF Tidied
      <3>3. CASE l # 0 /\ l # i
        <4>1. PICK m \in 1 .. n : m = l + 1 /\ m - 1 = l /\ i \in m .. n /\ m + 1 = l + 2
              BY <1>2, <3>3
        <4>2. m \in KeptIn(x) <=> x[k] \notin Closing
          <5>1. l > 0 /\ l < i
                BY <1>2, <3>3
          <5> QED
              BY <2>4, <4>1, <5>1
        <4>3. q[i] = q[m]
          <5>1. m \in 0 .. n /\ \A j \in m + 1 .. i : j \notin KeptIn(x)
                BY <2>4, <4>1
          <5> QED
              BY <4>1, <5>1, PicksFlat
        <4>4. q[m] = IF x[k] \in Closing THEN q[l] ELSE Append(q[l], x[m])
              BY <4>1, <4>2 DEF Picks
        <4>5. tidy = Append(q[l], x[m])
              BY <3>3, <4>1 DEF TidyAt
        <4>6. tidy # <<>> /\ Last(tidy) \in Whitespace /\ Front(tidy) = q[l]
              BY <1>5, <3>3, <4>1, <4>5
        <4> HIDE DEF tidy
        <4>7. Tidied(tidy, x[k]) = Append(IF x[k] \in Closing THEN q[l] ELSE tidy, x[k])
              BY <1>7, <4>6 DEF Tidied
        <4> QED
            BY <2>3, <4>3, <4>4, <4>5, <4>7
      <3> QED
          BY <3>1, <3>2, <3>3
    <2> QED
        BY <2>2, <2>3, <2>5 DEF TidyUpto
  <1> QED
      BY <1>6, <1>7

(* stripTags keeps the solid positions and the gaps of what is left of a text. *)
LEMMA TidyIs ==
    ASSUME NEW S, NEW x \in Seq(S)
    PROVE  LET tidy == FoldLeft(Tidied, <<>>, x)
           IN  (IF tidy # <<>> /\ Last(tidy) \in Whitespace THEN Front(tidy) ELSE tidy)
                   = Picked(x, KeptIn(x))
PROOF
  <1>1. PICK n \in Nat : n = Len(x) /\ DOMAIN x = 1 .. n
        OBVIOUS
  <1>2. PICK q : /\ Picks(q, x, KeptIn(x)) /\ Picked(x, KeptIn(x)) = q[n]
                 /\ \A i \in 0 .. n : q[i] \in Seq(S)
        BY <1>1, PickedIs
  <1>3. PICK g : Folds("tidy", g, <<>>, x) /\ FoldLeft(Tidied, <<>>, x) = g[n]
        BY <1>1, TidyFold
  <1> DEFINE T == {i \in 0 .. n : TidyUpto(g[i], x, q, i)}
  <1>4. 0 \in T
    <2>1. 0 \in 0 .. n /\ 0 \in 0 .. 0 /\ 0 + 1 .. 0 = {}
          OBVIOUS
    <2>2. GapAt(x, 0, 0)
          BY <2>1 DEF GapAt
    <2>3. g[0] = TidyAt(x, q, 0, 0)
          BY <1>2, <1>3 DEF Folds, Picks, TidyAt
    <2> QED
        BY <2>1, <2>2, <2>3 DEF TidyUpto
  <1>5. ASSUME NEW k \in 1 .. n, k - 1 \in T PROVE k \in T
    <2>1. PICK i \in 0 .. n : i = k - 1 /\ k = i + 1 /\ i < n
          OBVIOUS
    <2>2. PICK l : GapAt(x, l, i) /\ g[i] = TidyAt(x, q, l, i)
          BY <1>5, <2>1 DEF TidyUpto
    <2>3. TidyUpto(Tidied(TidyAt(x, q, l, i), x[k]), x, q, k)
      <3>1. Tidying(S, x, q, l, i)
            BY <1>1, <1>2, <2>2 DEF Tidying
      <3> HIDE DEF T
      <3> QED
          BY <1>1, <2>1, <3>1, TidyStep
    <2>4. g[k] = Tidied(g[i], x[k])
      <3>1. g[k] = Step("tidy", g[k - 1], x[k])
            BY <1>1, <1>3 DEF Folds
      <3> QED
          BY <2>1, <3>1 DEF Step
    <2>5. k \in 0 .. n
          OBVIOUS
    <2> QED
        BY <2>2, <2>3, <2>4, <2>5
  <1>6. n \in 0 .. n
        OBVIOUS
  <1> HIDE DEF T
  <1>7. n \in T
        BY <1>4, <1>5, <1>6, UpInduction
  <1>8. PICK l : GapAt(x, l, n) /\ g[n] = TidyAt(x, q, l, n)
        BY <1>7 DEF T, TidyUpto
  <1>9. l \in 0 .. n
        BY <1>8 DEF GapAt
  <1>10. q[n] = q[l]
    <2>1. \A m \in l + 1 .. n : m \notin KeptIn(x)
          BY <1>1, <1>6, <1>8, GapIs
    <2>2. n \in l .. n
          BY <1>9
    <2> QED
        BY <1>1, <1>2, <1>9, <2>1, <2>2, PicksFlat
  <1>11. q[l] \in Seq(S) /\ q[0] = <<>>
        BY <1>2, <1>9 DEF Picks
  <1> DEFINE tidy == g[n]
             trimmed == IF tidy # <<>> /\ Last(tidy) \in Whitespace THEN Front(tidy) ELSE tidy
  <1>12. trimmed = q[n]
    <2>1. CASE l = 0
      <3>1. tidy = <<>> /\ q[n] = <<>>
            BY <1>8, <1>10, <1>11, <2>1 DEF TidyAt
      <3> QED
          BY <3>1
    <2>2. CASE l # 0 /\ l = n
      <3>1. tidy = q[l]
            BY <1>8, <2>2 DEF TidyAt
      <3>2. l \in SolidIn(x)
            BY <1>8, <2>2 DEF GapAt
      <3>3. Last(q[l]) \notin Whitespace
            BY <1>1, <1>2, <3>2, SolidPicked
      <3> QED
          BY <1>10, <3>1, <3>3
    <2>3. CASE l # 0 /\ l # n
      <3>1. tidy = Append(q[l], x[l + 1])
            BY <1>8, <2>3 DEF TidyAt
      <3>2. l + 1 \in l + 1 .. n /\ l + 1 \in 1 .. n
            BY <1>9, <2>3
      <3>3. x[l + 1] \in Whitespace /\ x[l + 1] \in S
            BY <1>1, <1>8, <3>2 DEF GapAt, SolidIn
      <3>4. tidy # <<>> /\ Last(tidy) \in Whitespace /\ Front(tidy) = q[l]
            BY <1>11, <3>1, <3>3, GrownIs
      <3> HIDE DEF tidy
      <3> QED
          BY <1>10, <3>4
    <2> QED
        BY <2>1, <2>2, <2>3
  <1> QED
      BY <1>2, <1>3, <1>12

(* A tag starts at position i. *)
Starts(x, i) == IsPrefix(<<Open, Open>>, SubSeq(x, i, Len(x)))

(* Where a tag is, one starts. *)
LEMMA TagStarts ==
    ASSUME NEW S, NEW x \in Seq(S), TagsOf(x) # {}
    PROVE  \E i \in DOMAIN x : Starts(x, i)
PROOF
  <1>1. PICK n \in Nat : n = Len(x) /\ DOMAIN x = 1 .. n
        OBVIOUS
  <1>2. PICK t \in (1 .. n) \X (1 .. n) : TagAt(x, t[1], t[2])
        BY <1>1, TagsAre
  <1>3. PICK i \in 1 .. n : i = t[1] /\ i + 1 \in 1 .. n /\ x[i] = Open /\ x[i + 1] = Open
        BY <1>2 DEF TagAt
  <1> DEFINE y == SubSeq(x, i, n)
             o == <<Open, Open>>
  <1>4. Len(y) = n - i + 1 /\ y[1] = x[i] /\ y[2] = x[i + 1] /\ y \in Seq(S)
        BY <1>1, <1>3
  <1>5. Len(y) >= 2
        BY <1>3, <1>4
  <1>6. o \in Seq({Open}) /\ Len(o) = 2 /\ o[1] = Open /\ o[2] = Open
        OBVIOUS
  <1> HIDE DEF y, o
  <1> DEFINE a == SubSeq(o, 1, 2)
             b == SubSeq(y, 1, 2)
  <1>7. Len(a) = 2 /\ a[1] = o[1] /\ a[2] = o[2] /\ a \in Seq({Open})
        BY <1>6
  <1>8. Len(b) = 2 /\ b[1] = y[1] /\ b[2] = y[2] /\ b \in Seq(S)
        BY <1>4, <1>5
  <1> HIDE DEF a, b
  <1>9. a = b
    <2>1. \A k \in 1 .. 2 : a[k] = b[k]
      <3>1. \A k \in 1 .. 2 : k = 1 \/ k = 2
            OBVIOUS
      <3> QED
          BY <1>3, <1>4, <1>6, <1>7, <1>8, <3>1
    <2> QED
        BY <1>7, <1>8, <2>1, SeqEqual
  <1>10. IsPrefix(o, y)
        BY <1>5, <1>6, <1>9 DEF IsPrefix, a, b
  <1> QED
      BY <1>1, <1>10 DEF Starts, o, y

(* What is spoken of a text with tags. *)
LEMMA SpeechIs ==
    ASSUME NEW S, NEW x \in Seq(S), TagsOf(x) # {}
    PROVE  LET rest == Picked(x, Untagged(x))
           IN  Speech(x) = IF HasSpeakableText(rest) THEN Picked(rest, KeptIn(rest)) ELSE <<>>
PROOF
  <1> DEFINE rest == Picked(x, Untagged(x))
             kept == Picked(rest, KeptIn(rest))
  <1>1. rest \in Seq(S)
    <2>1. PICK q : rest = q[Len(x)] /\ \A i \in 0 .. Len(x) : q[i] \in Seq(S)
          BY PickedIs
    <2>2. Len(x) \in 0 .. Len(x)
          OBVIOUS
    <2> QED
        BY <2>1, <2>2
  <1>2. StripTags(x) = kept
    <2>1. StripTags(x) = LET tidy == FoldLeft(Tidied, <<>>, rest)
                         IN  IF tidy # <<>> /\ Last(tidy) \in Whitespace THEN Front(tidy) ELSE tidy
          BY DEF StripTags
    <2> HIDE DEF rest
    <2> QED
        BY <1>1, <2>1, TidyIs
  <1> HIDE DEF rest
  <1>3. HasSpeakableText(kept) <=> HasSpeakableText(rest)
    <2>1. PICK q : /\ Picks(q, rest, KeptIn(rest)) /\ kept = q[Len(rest)]
                   /\ \A i \in 0 .. Len(rest) : q[i] \in Seq(S)
          BY <1>1, PickedIs
    <2> DEFINE Z == Whitespace \cup Punctuation
    <2>2. (\E k \in DOMAIN q[Len(rest)] : q[Len(rest)][k] \notin Z)
              <=> \E m \in DOMAIN rest : m \in KeptIn(rest) /\ rest[m] \notin Z
          BY <1>1, <2>1, PicksElements
    <2>3. \A m \in DOMAIN rest : rest[m] \notin Z => m \in KeptIn(rest)
          BY DEF KeptIn, SolidIn
    <2> QED
        BY Zenon, <2>1, <2>2, <2>3 DEF HasSpeakableText
  <1> HIDE DEF kept
  <1>4. Speech(x) = IF ~ \E i \in DOMAIN x : Starts(x, i)
                    THEN x
                    ELSE IF HasSpeakableText(StripTags(x)) THEN StripTags(x) ELSE <<>>
        BY Zenon DEF Speech, Starts, Open
  <1>5. \E i \in DOMAIN x : Starts(x, i)
        BY TagStarts
  <1>6. Speech(x) = IF HasSpeakableText(rest) THEN kept ELSE <<>>
        BY <1>2, <1>3, <1>4, <1>5
  <1> QED
      BY <1>6 DEF rest, kept

(* Tags are never spoken, and leave no gap: what is spoken of a segment with tags is
   what is outside them, with one blank for each gap between two words. *)
THEOREM TagsSilent == Spec => []SpeechIsRest
PROOF
  <1>1. SegmenterInv => SpeechIsRest
    <2> SUFFICES ASSUME SegmenterInv PROVE SpeechIsRest
        OBVIOUS
    <2>1. \A k \in DOMAIN seg.out : seg.out[k] \in Seq(Chars)
          BY DEF SegmenterInv, States
    <2>2. ASSUME NEW k \in DOMAIN seg.out, TagsOf(seg.out[k]) # {}
          PROVE  LET rest == Picked(seg.out[k], Untagged(seg.out[k]))
                 IN  Speech(seg.out[k]) = IF HasSpeakableText(rest)
                                          THEN Picked(rest, KeptIn(rest)) ELSE <<>>
          BY <2>1, <2>2, SpeechIs
    <2> QED
        BY Zenon, <2>2 DEF SpeechIsRest, KeptIn, SolidIn, GapsIn
  <1> QED
      BY <1>1, Invariant, PTL

-----------------------------------------------------------------------------
(***************************************************************************)
(* Parts of a text with more behind it.                                    *)
(***************************************************************************)

(* y is the part of x from position i on, of length l. *)
PartAt(S, y, x, i, l) == y \in Seq(S) /\ Len(y) = l /\ \A k \in 1 .. l : y[k] = x[i + k - 1]

(* A part is determined by its place. *)
LEMMA PartSame ==
    ASSUME NEW S, NEW x, NEW i, NEW l \in Nat, NEW y, PartAt(S, y, x, i, l),
           NEW z, PartAt(S, z, x, i, l)
    PROVE  y = z
PROOF
  BY SeqEqual DEF PartAt

(* SubSeq gives a part. *)
LEMMA PartSub ==
    ASSUME NEW S, NEW x \in Seq(S), NEW i \in Nat, i >= 1, NEW l \in Nat,
           NEW j \in Nat, j <= Len(x), j = i + l - 1
    PROVE  PartAt(S, SubSeq(x, i, j), x, i, l)
PROOF
  <1>1. PICK y : y = SubSeq(x, i, j)
        OBVIOUS
  <1>2. y \in Seq(S) /\ Len(y) = (IF i <= j THEN j - i + 1 ELSE 0)
        BY <1>1, PartIs
  <1>3. \A k \in 1 .. j - i + 1 : y[k] = x[i + k - 1]
        BY <1>1, PartIs
  <1>4. j - i + 1 = l /\ (IF i <= j THEN j - i + 1 ELSE 0) = l
        OBVIOUS
  <1>5. \A k \in 1 .. l : y[k] = x[i + k - 1]
        BY <1>3, <1>4
  <1> QED
      BY <1>1, <1>2, <1>4, <1>5 DEF PartAt

(* So does the rest of a text. *)
LEMMA PartRest ==
    ASSUME NEW S, NEW x \in Seq(S), NEW i \in Nat, i >= 1, NEW l \in Nat, Len(x) = i + l - 1
    PROVE  PartAt(S, From(x, i), x, i, l)
PROOF
  <1>1. PICK j \in Nat : j = Len(x)
        OBVIOUS
  <1> QED
      BY <1>1, PartSub DEF From

(* A part of a part. *)
LEMMA PartOfPart ==
    ASSUME NEW S, NEW x, NEW i \in Nat, NEW l \in Nat, NEW y, PartAt(S, y, x, i, l),
           NEW j \in Nat, j >= 1, NEW h \in Nat, j + h - 1 <= l, NEW z, PartAt(S, z, y, j, h),
           NEW a \in Nat, a = i + j - 1
    PROVE  PartAt(S, z, x, a, h)
PROOF
  <1>1. ASSUME NEW k \in 1 .. h PROVE z[k] = x[a + k - 1]
    <2>1. PICK m \in 1 .. l : m = j + k - 1
          OBVIOUS
    <2>2. z[k] = y[m] /\ y[m] = x[i + m - 1]
          BY <2>1 DEF PartAt
    <2>3. i + m - 1 = a + k - 1
          BY <2>1
    <2> QED
        BY <2>2, <2>3
  <1> QED
      BY <1>1 DEF PartAt

(* From position a on, h elements are within the l from position i on, and start
   with the j-th of these. *)
Inside(a, h, i, l, j) ==
    /\ {a, h, i, l, j} \subseteq Nat
    /\ 1 <= j /\ j + h <= l + 1 /\ a = i + j - 1

(* Of two parts one may be within the other. *)
LEMMA PartWithin ==
    ASSUME NEW S, NEW x, NEW i \in Nat, NEW l \in Nat, NEW y, PartAt(S, y, x, i, l),
           NEW a \in Nat, NEW h \in Nat, NEW z, PartAt(S, z, x, a, h),
           NEW j \in Nat, Inside(a, h, i, l, j)
    PROVE  PartAt(S, z, y, j, h)
PROOF
  <1>0. /\ i \in Nat /\ l \in Nat /\ a \in Nat /\ h \in Nat /\ j \in Nat
        /\ 1 <= j /\ j + h <= l + 1 /\ a = i + j - 1
        BY DEF Inside
  <1>1. ASSUME NEW k \in 1 .. h PROVE z[k] = y[j + k - 1]
    <2>1. PICK m \in 1 .. l : m = j + k - 1
          BY <1>0
    <2>2. z[k] = x[a + k - 1] /\ y[m] = x[i + m - 1]
          BY <2>1 DEF PartAt
    <2>3. i + m - 1 = a + k - 1
          BY <1>0, <2>1
    <2> QED
        BY <2>1, <2>2, <2>3
  <1> QED
      BY <1>1 DEF PartAt

(* c is b with p behind it. *)
Both(S, c, b, n, p, m) ==
    /\ c \in Seq(S) /\ Len(c) = n + m
    /\ PartAt(S, b, c, 1, n) /\ PartAt(S, p, c, n + 1, m)

(* A text with more behind it has both as its parts. *)
LEMMA MoreIs ==
    ASSUME NEW S, NEW b \in Seq(S), NEW p \in Seq(S),
           NEW n \in Nat, n = Len(b), NEW m \in Nat, m = Len(p)
    PROVE  Both(S, b \o p, b, n, p, m)
PROOF
  <1>1. PICK c : c = b \o p
        OBVIOUS
  <1>2. c \in Seq(S) /\ Len(c) = n + m
        BY <1>1, ConcatProperties
  <1>3. \A i \in 1 .. n + m : c[i] = IF i <= n THEN b[i] ELSE p[i - n]
        BY <1>1, ConcatProperties
  <1>4. ASSUME NEW i \in 1 .. n PROVE b[i] = c[1 + i - 1]
    <2>1. i \in 1 .. n + m /\ i <= n /\ 1 + i - 1 = i
          OBVIOUS
    <2> QED
        BY <1>3, <2>1
  <1>5. ASSUME NEW i \in 1 .. m PROVE p[i] = c[n + 1 + i - 1]
    <2>1. PICK j \in 1 .. n + m : j = n + 1 + i - 1 /\ ~(j <= n) /\ j - n = i
          BY SMTT(30)
    <2> QED
        BY <1>3, <2>1
  <1> QED
      BY <1>1, <1>2, <1>4, <1>5 DEF Both, PartAt

(* Its parts make the whole. *)
LEMMA BothAre ==
    ASSUME NEW S, NEW n \in Nat, NEW m \in Nat, NEW b, NEW p, NEW c, Both(S, c, b, n, p, m)
    PROVE  c = b \o p
PROOF
  <1>1. /\ b \in Seq(S) /\ Len(b) = n /\ p \in Seq(S) /\ Len(p) = m
        /\ c \in Seq(S) /\ Len(c) = n + m
        BY DEF Both, PartAt
  <1>2. PICK d : d = b \o p
        OBVIOUS
  <1>3. d \in Seq(S) /\ Len(d) = n + m
        BY <1>1, <1>2, ConcatProperties
  <1>4. \A i \in 1 .. n + m : d[i] = IF i <= n THEN b[i] ELSE p[i - n]
        BY <1>1, <1>2, ConcatProperties
  <1>5. ASSUME NEW i \in 1 .. n + m PROVE c[i] = d[i]
    <2>1. CASE i <= n
      <3>1. i \in 1 .. n /\ 1 + i - 1 = i
            BY <2>1
      <3>2. b[i] = c[1 + i - 1]
            BY <3>1 DEF Both, PartAt
      <3> QED
          BY <1>4, <2>1, <3>1, <3>2
    <2>2. CASE ~(i <= n)
      <3>1. PICK j \in 1 .. m : j = i - n /\ n + 1 + j - 1 = i
            BY <2>2
      <3>2. p[j] = c[n + 1 + j - 1]
            BY DEF Both, PartAt
      <3> QED
          BY <1>4, <2>2, <3>1, <3>2
    <2> QED
        BY <2>1, <2>2
  <1>6. n + m \in Nat
        OBVIOUS
  <1>7. c = d
        BY <1>1, <1>3, <1>5, <1>6, SeqEqual
  <1> QED
      BY <1>2, <1>7

(* The rest of a text with more behind it. *)
LEMMA RestMore ==
    ASSUME NEW S, NEW b \in Seq(S), NEW p \in Seq(S), NEW i \in Nat, i >= 1, i <= Len(b) + 1
    PROVE  From(b \o p, i) = From(b, i) \o p
PROOF
  <1>1. PICK n \in Nat : n = Len(b)
        OBVIOUS
  <1>2. PICK m \in Nat : m = Len(p)
        OBVIOUS
  <1>3. PICK c : c = b \o p
        OBVIOUS
  <1>4. Both(S, c, b, n, p, m)
        BY <1>1, <1>2, <1>3, MoreIs
  <1>5. PICK l \in Nat : l = n - i + 1 /\ n = i + l - 1 /\ l + m \in Nat
    <2>1. i <= n + 1
          BY <1>1
    <2>2. PICK l \in Nat : l = n - i + 1
          BY <2>1
    <2>3. n = i + l - 1 /\ l + m \in Nat
          BY <2>2
    <2> QED
        BY <2>2, <2>3
  <1>6. PICK y : y = From(b, i)
        OBVIOUS
  <1>7. PICK z : z = From(c, i)
        OBVIOUS
  <1>8. PartAt(S, y, b, i, l)
        BY <1>1, <1>5, <1>6, PartRest
  <1>9. PICK lm \in Nat : lm = l + m
        OBVIOUS
  <1>10. PartAt(S, z, c, i, lm)
    <2>1. c \in Seq(S) /\ Len(c) = i + lm - 1
          BY <1>4, <1>5, <1>9 DEF Both
    <2> QED
        BY <1>7, <2>1, PartRest
  <1>11. PartAt(S, y, c, i, l)
    <2>1. PartAt(S, b, c, 1, n) /\ 1 \in Nat /\ i + l - 1 <= n /\ i = 1 + i - 1
          BY <1>4, <1>5 DEF Both
    <2> QED
        BY <1>8, <2>1, PartOfPart
  <1>12. PartAt(S, y, z, 1, l)
    <2>1. Inside(i, l, i, lm, 1)
          BY <1>9 DEF Inside
    <2> QED
        BY <1>10, <1>11, <2>1, PartWithin
  <1>13. PartAt(S, p, z, l + 1, m)
    <2>1. PICK a \in Nat : a = n + 1
          OBVIOUS
    <2>2. PartAt(S, p, c, a, m)
          BY <1>4, <2>1 DEF Both
    <2>3. PICK j \in Nat : j = l + 1
          OBVIOUS
    <2>4. Inside(a, m, i, lm, j)
          BY <1>5, <1>9, <2>1, <2>3 DEF Inside
    <2>5. PartAt(S, p, z, j, m)
          BY <1>10, <2>2, <2>4, PartWithin
    <2> QED
        BY <2>3, <2>5
  <1>14. Both(S, z, y, l, p, m)
        BY <1>9, <1>10, <1>12, <1>13 DEF Both, PartAt
  <1>15. z = y \o p
        BY <1>14, BothAre
  <1> QED
      BY <1>3, <1>6, <1>7, <1>15

(* A part of a text is not changed by more behind it. *)
LEMMA SubMore ==
    ASSUME NEW S, NEW b \in Seq(S), NEW p \in Seq(S), NEW i \in Nat, i >= 1,
           NEW l \in Nat, NEW j \in Nat, j = i + l - 1, j <= Len(b)
    PROVE  SubSeq(b \o p, i, j) = SubSeq(b, i, j)
PROOF
  <1>1. PICK n \in Nat : n = Len(b)
        OBVIOUS
  <1>2. PICK m \in Nat : m = Len(p)
        OBVIOUS
  <1>3. PICK c : c = b \o p
        OBVIOUS
  <1>4. Both(S, c, b, n, p, m)
        BY <1>1, <1>2, <1>3, MoreIs
  <1>5. PartAt(S, SubSeq(b, i, j), b, i, l)
        BY PartSub
  <1>6. PartAt(S, SubSeq(b, i, j), c, i, l)
    <2>1. PartAt(S, b, c, 1, n) /\ 1 \in Nat /\ i + l - 1 <= n /\ i = 1 + i - 1
          BY <1>1, <1>4 DEF Both
    <2> QED
        BY <1>5, <2>1, PartOfPart
  <1>7. PartAt(S, SubSeq(c, i, j), c, i, l)
    <2>1. c \in Seq(S) /\ j <= Len(c)
          BY <1>1, <1>4 DEF Both
    <2> QED
        BY <2>1, PartSub
  <1> QED
      BY <1>3, <1>6, <1>7, PartSame

(* A part of a rest. *)
LEMMA SubRest ==
    ASSUME NEW S, NEW x \in Seq(S), NEW i \in Nat, i >= 1, NEW l \in Nat, Len(x) = i + l - 1,
           NEW a \in Nat, NEW h \in Nat, NEW j \in Nat, Inside(a, h, i, l, j),
           NEW k \in Nat, k = j + h - 1, NEW e \in Nat, e = i + k - 1
    PROVE  SubSeq(From(x, i), j, k) = SubSeq(x, a, e)
PROOF
  <1>0. /\ l \in Nat /\ a \in Nat /\ h \in Nat /\ j \in Nat
        /\ 1 <= j /\ j + h <= l + 1 /\ a = i + j - 1
        BY DEF Inside
  <1>1. PICK y : y = From(x, i)
        OBVIOUS
  <1>2. PartAt(S, y, x, i, l)
        BY <1>0, <1>1, PartRest
  <1>3. PartAt(S, SubSeq(y, j, k), y, j, h)
    <2>0. k <= l
          BY <1>0
    <2>1. y \in Seq(S) /\ k <= Len(y)
          BY <1>0, <1>2, <2>0 DEF PartAt
    <2> QED
        BY <1>0, <2>1, PartSub
  <1>4. PartAt(S, SubSeq(y, j, k), x, a, h)
    <2>1. j + h - 1 <= l
          BY <1>0
    <2> QED
        BY <1>0, <1>2, <1>3, <2>1, PartOfPart
  <1>5. PartAt(S, SubSeq(x, a, e), x, a, h)
    <2>1. a >= 1 /\ e <= Len(x) /\ e = a + h - 1
          BY <1>0
    <2> QED
        BY <1>0, <2>1, PartSub
  <1> QED
      BY <1>0, <1>1, <1>4, <1>5, PartSame

(* The rest of a rest. *)
LEMMA RestRest ==
    ASSUME NEW S, NEW x \in Seq(S), NEW i \in Nat, i >= 1, NEW l \in Nat, Len(x) = i + l - 1,
           NEW j \in Nat, j >= 1, j <= l + 1, NEW a \in Nat, a = i + j - 1
    PROVE  From(From(x, i), j) = From(x, a)
PROOF
  <1>1. PICK y : y = From(x, i)
        OBVIOUS
  <1>2. PartAt(S, y, x, i, l)
        BY <1>1, PartRest
  <1>3. PICK h \in Nat : h = l - j + 1 /\ l = j + h - 1
        OBVIOUS
  <1>4. PICK e \in Nat : e = i + l - 1
    <2>1. i + l - 1 \in Nat
          OBVIOUS
    <2> QED
        BY <2>1
  <1>5. SubSeq(From(x, i), j, l) = SubSeq(x, a, e)
    <2>1. Inside(a, h, i, l, j)
          BY <1>3 DEF Inside
    <2>2. PICK k \in Nat : k = l
          OBVIOUS
    <2>3. k = j + h - 1 /\ e = i + k - 1
          BY <1>3, <1>4, <2>2
    <2>4. SubSeq(From(x, i), j, k) = SubSeq(x, a, e)
          BY <2>1, <2>3, SubRest
    <2> QED
        BY <2>2, <2>4
  <1>6. Len(y) = l /\ Len(x) = e
        BY <1>2, <1>4 DEF PartAt
  <1> QED
      BY <1>1, <1>5, <1>6 DEF From

-----------------------------------------------------------------------------
(***************************************************************************)
(* Bytes in two pieces.                                                    *)
(***************************************************************************)

(* What is at position i of the bytes b: a character that is cut off, or the end;
   no character; a character of n bytes, up to e. *)
Ends(b, i) == i > Len(b) \/ i + LeadLength(b[i]) - 1 > Len(b)
Continued(b, i) == \A k \in 1 .. LeadLength(b[i]) - 1 : b[i + k] \in Continuation
Skips(b, i) == ~Ends(b, i) /\ (LeadLength(b[i]) = 0 \/ ~Continued(b, i))
Takes(b, i, n, e) ==
    /\ ~Ends(b, i) /\ n = LeadLength(b[i]) /\ n > 0 /\ e = i + n - 1 /\ Continued(b, i)

(* What the character x makes of the scan at position k behind it. *)
Taken(f, x, k) == IF IsEmoji(x) THEN f[k] ELSE [f[k] EXCEPT !.utf8 = x \o @]

(* The scan at position i. *)
LEMMA Utf8Cases ==
    ASSUME NEW b, NEW f, NEW i
    PROVE  /\ Ends(b, i) => Utf8At(b, f, i) = [bytes |-> From(b, i), utf8 |-> <<>>]
           /\ Skips(b, i) => Utf8At(b, f, i) = f[i + 1]
           /\ \A n, e : Takes(b, i, n, e) => Utf8At(b, f, i) = Taken(f, SubSeq(b, i, e), i + n)
           /\ Ends(b, i) \/ Skips(b, i) \/ \E n, e : Takes(b, i, n, e)
PROOF
  <1>1. LeadLength(b[i]) \in 0 .. 3
        BY LeadLengthIs
  <1>2. PICK n \in 0 .. 3 : n = LeadLength(b[i])
        BY <1>1
  <1>3. Utf8At(b, f, i) =
            IF Ends(b, i) THEN [bytes |-> From(b, i), utf8 |-> <<>>]
            ELSE IF LeadLength(b[i]) = 0 \/ ~Continued(b, i) THEN f[i + 1]
            ELSE Taken(f, SubSeq(b, i, i + LeadLength(b[i]) - 1), i + LeadLength(b[i]))
        BY DEF Utf8At, Ends, Continued, Taken
  <1>4. ASSUME NEW m, NEW e, Takes(b, i, m, e)
        PROVE  /\ ~Ends(b, i) /\ ~(LeadLength(b[i]) = 0 \/ ~Continued(b, i))
               /\ LeadLength(b[i]) = m /\ i + LeadLength(b[i]) - 1 = e
    <2>1. ~(LeadLength(b[i]) = 0)
          BY <1>4 DEF Takes
    <2> QED
        BY <1>4, <2>1 DEF Takes
  <1>5. Ends(b, i) => Utf8At(b, f, i) = [bytes |-> From(b, i), utf8 |-> <<>>]
        BY <1>3
  <1>6. Skips(b, i) => Utf8At(b, f, i) = f[i + 1]
        BY <1>3 DEF Skips
  <1>7. ASSUME NEW m, NEW e, Takes(b, i, m, e)
        PROVE  Utf8At(b, f, i) = Taken(f, SubSeq(b, i, e), i + m)
    <2>1. /\ ~Ends(b, i) /\ ~(LeadLength(b[i]) = 0 \/ ~Continued(b, i))
          /\ LeadLength(b[i]) = m /\ i + LeadLength(b[i]) - 1 = e
          BY <1>4, <1>7
    <2>2. Utf8At(b, f, i) =
              Taken(f, SubSeq(b, i, i + LeadLength(b[i]) - 1), i + LeadLength(b[i]))
          BY <1>3, <2>1
    <2> QED
        BY <2>1, <2>2, Zenon
  <1>8. ASSUME ~Ends(b, i), ~Skips(b, i) PROVE Takes(b, i, n, i + n - 1)
    <2>1. n > 0 /\ Continued(b, i)
          BY <1>2, <1>8 DEF Skips
    <2> QED
        BY <1>2, <1>8, <2>1 DEF Takes
  <1> QED
      BY <1>5, <1>6, <1>7, <1>8

(* b is the part of c from position i on, of length l; its position j is a in c. *)
Located(S, b, c, i, l, j, a) ==
    /\ c \in Seq(S) /\ {i, l, j, a} \subseteq Nat /\ 1 <= i /\ i + l - 1 <= Len(c)
    /\ PartAt(S, b, c, i, l) /\ j \in 1 .. l + 1 /\ a = i + j - 1

(* What is at position j of b is at position a of c. *)
Placed(S, b, c, i, l, j, a) ==
    /\ Skips(b, j) => Skips(c, a) /\ j + 1 \in 1 .. l + 1
    /\ \A n, e : Takes(b, j, n, e) =>
           /\ n \in 1 .. 3 /\ j + n \in 1 .. l + 1
           /\ SubSeq(b, j, e) \in Seq(S)
           /\ \E z : Takes(c, a, n, z) /\ SubSeq(b, j, e) = SubSeq(c, a, z)
    /\ Ends(b, j) /\ Len(c) = i + l - 1 => Ends(c, a) /\ From(b, j) = From(c, a)

(* What is at a position that is not cut off is there in any text of which b is a
   part. *)
LEMMA Utf8Place ==
    ASSUME NEW S, NEW c, NEW i \in Nat, NEW l \in Nat, NEW b, NEW j \in Nat, NEW a \in Nat,
           Located(S, b, c, i, l, j, a)
    PROVE  Placed(S, b, c, i, l, j, a)
PROOF
  <1>0. /\ c \in Seq(S) /\ i >= 1 /\ i + l - 1 <= Len(c)
        /\ PartAt(S, b, c, i, l) /\ j \in 1 .. l + 1 /\ a = i + j - 1
        BY DEF Located
  <1> USE <1>0
  <1>1. b \in Seq(S) /\ Len(b) = l /\ \A k \in 1 .. l : b[k] = c[i + k - 1]
        BY DEF PartAt
  <1>2. PICK d \in Nat : d = Len(c)
        OBVIOUS
  <1>3. PICK n \in 0 .. 3 : n = LeadLength(c[a])
        BY LeadLengthIs
  <1>4. j <= l => b[j] = c[a]
        BY <1>1
  <1>5. ASSUME ~Ends(b, j)
        PROVE  /\ j <= l /\ a <= d /\ n = LeadLength(b[j]) /\ j + n - 1 <= l /\ ~Ends(c, a)
               /\ Continued(b, j) <=> Continued(c, a)
    <2>1. j <= l /\ b[j] = c[a] /\ n = LeadLength(b[j])
          BY <1>1, <1>3, <1>4, <1>5 DEF Ends
    <2>2. j + n - 1 <= l /\ a <= d /\ a + n - 1 <= d
          BY <1>1, <1>2, <1>5, <2>1 DEF Ends
    <2>3. ~Ends(c, a)
          BY <1>2, <1>3, <2>2 DEF Ends
    <2>4. ASSUME NEW k \in 1 .. n - 1 PROVE b[j + k] = c[a + k]
      <3>1. PICK m \in 1 .. l : m = j + k /\ i + m - 1 = a + k
            BY <2>2
      <3> QED
          BY <1>1, <3>1
    <2>5. Continued(b, j) <=> Continued(c, a)
          BY <1>3, <2>1, <2>4 DEF Continued
    <2> QED
        BY <2>1, <2>2, <2>3, <2>5
  <1>6. ASSUME Skips(b, j) PROVE Skips(c, a) /\ j + 1 \in 1 .. l + 1
    <2>1. ~Ends(b, j) /\ (LeadLength(b[j]) = 0 \/ ~Continued(b, j))
          BY <1>6 DEF Skips
    <2>2. j <= l /\ n = LeadLength(b[j]) /\ ~Ends(c, a) /\ (Continued(b, j) <=> Continued(c, a))
          BY <1>5, <2>1
    <2> QED
        BY <1>3, <2>1, <2>2 DEF Skips
  <1>7. ASSUME NEW m, NEW e, Takes(b, j, m, e)
        PROVE  /\ m \in 1 .. 3 /\ j + m \in 1 .. l + 1
               /\ SubSeq(b, j, e) \in Seq(S)
               /\ \E z : Takes(c, a, m, z) /\ SubSeq(b, j, e) = SubSeq(c, a, z)
    <2>1. ~Ends(b, j) /\ m = LeadLength(b[j]) /\ m > 0 /\ e = j + m - 1 /\ Continued(b, j)
          BY <1>7 DEF Takes
    <2>2. /\ j <= l /\ a <= d /\ n = LeadLength(b[j]) /\ j + n - 1 <= l /\ ~Ends(c, a)
          /\ Continued(c, a)
          BY <1>5, <2>1
    <2>3. m = n /\ n \in 1 .. 3
          BY <2>1, <2>2
    <2>4. PICK z \in Nat : z = a + n - 1
          BY <2>3
    <2>5. PICK k \in Nat : k = j + n - 1
          BY <2>3
    <2>6. Takes(c, a, m, z)
          BY <1>3, <2>2, <2>3, <2>4 DEF Takes
    <2>7. PartAt(S, SubSeq(b, j, k), b, j, n)
      <3>1. j \in Nat /\ j >= 1 /\ k <= Len(b)
            BY <1>1, <2>2, <2>5
      <3> QED
          BY <1>1, <2>3, <2>5, <3>1, PartSub
    <2>8. PartAt(S, SubSeq(b, j, k), c, a, n)
      <3>1. j \in Nat /\ j >= 1 /\ n \in Nat /\ j + n - 1 <= l
            BY <2>2, <2>3
      <3> QED
          BY <2>7, <3>1, PartOfPart
    <2>9. PartAt(S, SubSeq(c, a, z), c, a, n)
      <3>1. j + n - 1 <= l /\ n \in Nat
            BY <2>2
      <3>2. i + j - 1 + n - 1 <= i + l - 1
            BY <3>1
      <3>3. z <= Len(c) /\ a >= 1
            BY <2>4, <3>1, <3>2
      <3> QED
          BY <2>4, <3>1, <3>3, PartSub
    <2>10. SubSeq(b, j, k) = SubSeq(c, a, z)
      <3>1. PICK h \in Nat : h = n
            OBVIOUS
      <3>2. PICK v : v = SubSeq(b, j, k)
            OBVIOUS
      <3>3. PICK w : w = SubSeq(c, a, z)
            OBVIOUS
      <3>4. PartAt(S, v, c, a, h) /\ PartAt(S, w, c, a, h)
            BY <2>8, <2>9, <3>1, <3>2, <3>3
      <3>5. v = w
            BY <3>4, PartSame
      <3> QED
          BY <3>2, <3>3, <3>5
    <2>11. e = k /\ j + n \in 1 .. l + 1
          BY <2>1, <2>2, <2>3, <2>5
    <2>12. SubSeq(b, j, k) \in Seq(S)
          BY <2>7 DEF PartAt
    <2> QED
        BY <2>3, <2>6, <2>10, <2>11, <2>12
  <1>8. ASSUME Ends(b, j), Len(c) = i + l - 1 PROVE Ends(c, a) /\ From(b, j) = From(c, a)
    <2>1. Ends(c, a)
      <3>1. CASE j > l
        <4>1. a > Len(c)
              BY <1>8, <3>1
        <4> QED
            BY <4>1 DEF Ends
      <3>2. CASE j <= l
        <4>1. n = LeadLength(b[j])
              BY <1>3, <1>4, <3>2
        <4>2. j + n - 1 > l
              BY <1>1, <1>8, <3>2, <4>1 DEF Ends
        <4>3. a + n - 1 > Len(c)
              BY <1>8, <4>2
        <4> QED
            BY <1>3, <4>3 DEF Ends
      <3> QED
          BY <3>1, <3>2
    <2>2. PICK h \in Nat : h = l - j + 1
          OBVIOUS
    <2>3. PartAt(S, From(b, j), b, j, h)
      <3>1. j \in Nat /\ j >= 1 /\ Len(b) = j + h - 1
            BY <1>1, <2>2
      <3> QED
          BY <1>1, <3>1, PartRest
    <2>4. PartAt(S, From(b, j), c, a, h)
      <3>1. j \in Nat /\ j >= 1 /\ j + h - 1 <= l
            BY <2>2
      <3> QED
          BY <2>3, <3>1, PartOfPart
    <2>5. PartAt(S, From(c, a), c, a, h)
      <3>1. a >= 1 /\ Len(c) = a + h - 1
            BY <1>8, <2>2
      <3> QED
          BY <3>1, PartRest
    <2> QED
        BY <2>1, <2>4, <2>5, PartSame
  <1> QED
      BY <1>6, <1>7, <1>8 DEF Placed

(* Induction from the end, by numbers. *)
LEMMA Downwards ==
    ASSUME NEW n \in Nat, NEW S,
           \A i \in Nat : 1 <= i /\ i <= n /\ (\A j \in Nat : i < j /\ j <= n => j \in S) => i \in S
    PROVE  \A i \in Nat : 1 <= i /\ i <= n => i \in S
PROOF
  <1>1. ASSUME NEW i \in 1 .. n, \A j \in i + 1 .. n : j \in S PROVE i \in S
    <2>1. \A j \in Nat : i < j /\ j <= n => j \in i + 1 .. n
          OBVIOUS
    <2> QED
        BY <1>1, <2>1
  <1>2. 1 .. n \subseteq S
        BY <1>1, DownInduction, ZenonT(30)
  <1> QED
      BY <1>2

(* The rest of c from position i on has length l. *)
RestOf(S, c, i, l) == c \in Seq(S) /\ i \in Nat /\ l \in Nat /\ i >= 1 /\ Len(c) = i + l - 1

(* The scan g starts at position i of the scan h. *)
Shifted(g, h, i, l) == \A j, a \in Nat : 1 <= j /\ j <= l + 1 /\ a = i + j - 1 => g[j] = h[a]

(* The scan of a rest is the rest of the scan. *)
LEMMA Utf8Shift ==
    ASSUME NEW S, NEW c, NEW i \in Nat, NEW l \in Nat, RestOf(S, c, i, l),
           NEW h, Utf8Scan(c, h), NEW g, Utf8Scan(From(c, i), g)
    PROVE  Shifted(g, h, i, l)
PROOF
  <1>0. c \in Seq(S) /\ i >= 1 /\ Len(c) = i + l - 1
        BY DEF RestOf
  <1> DEFINE T == {j \in Nat : \A a \in Nat : a = i + j - 1 => g[j] = h[a]}
  <1>1. PICK y : y = From(c, i)
        OBVIOUS
  <1>2. PartAt(S, y, c, i, l)
        BY <1>0, <1>1, PartRest
  <1>3. y \in Seq(S) /\ Len(y) = l
        BY <1>2 DEF PartAt
  <1>4. PICK n \in Nat : n = l + 1
        OBVIOUS
  <1>5. ASSUME NEW j \in Nat, 1 <= j, j <= n, \A m \in Nat : j < m /\ m <= n => m \in T
        PROVE  j \in T
    <2> SUFFICES ASSUME NEW a \in Nat, a = i + j - 1 PROVE g[j] = h[a]
        OBVIOUS
    <2>1. g[j] = Utf8At(y, g, j)
      <3>1. j \in 1 .. Len(y) + 1
            BY <1>3, <1>4, <1>5
      <3> QED
          BY <1>1, <3>1 DEF Utf8Scan
    <2>2. h[a] = Utf8At(c, h, a)
      <3>1. a \in 1 .. Len(c) + 1
            BY <1>0, <1>4, <1>5
      <3> QED
          BY <3>1 DEF Utf8Scan
    <2>3. Located(S, y, c, i, l, j, a) /\ Len(c) = i + l - 1
      <3>1. j \in 1 .. l + 1 /\ i + l - 1 <= Len(c)
            BY <1>0, <1>4, <1>5
      <3> QED
          BY <1>0, <1>2, <3>1 DEF Located
    <2>4. /\ Skips(y, j) => Skips(c, a) /\ j + 1 \in 1 .. l + 1
          /\ \A m, e : Takes(y, j, m, e) =>
                 /\ m \in 1 .. 3 /\ j + m \in 1 .. l + 1
                 /\ SubSeq(y, j, e) \in Seq(S)
                 /\ \E z : Takes(c, a, m, z) /\ SubSeq(y, j, e) = SubSeq(c, a, z)
          /\ Ends(y, j) /\ Len(c) = i + l - 1 => Ends(c, a) /\ From(y, j) = From(c, a)
      <3>1. Placed(S, y, c, i, l, j, a)
            BY <2>3, Utf8Place
      <3> QED
          BY <3>1 DEF Placed
    <2>5. CASE Ends(y, j)
      <3>1. Utf8At(y, g, j) = [bytes |-> From(y, j), utf8 |-> <<>>]
            BY <2>5, Utf8Cases
      <3>2. Utf8At(c, h, a) = [bytes |-> From(c, a), utf8 |-> <<>>]
            BY <2>3, <2>4, <2>5, Utf8Cases
      <3> QED
          BY <2>1, <2>2, <2>3, <2>4, <2>5, <3>1, <3>2
    <2>6. CASE Skips(y, j)
      <3>1. Utf8At(y, g, j) = g[j + 1] /\ Utf8At(c, h, a) = h[a + 1]
            BY <2>4, <2>6, Utf8Cases
      <3>2. PICK k \in Nat : k = j + 1
            OBVIOUS
      <3>3. PICK d \in Nat : d = a + 1
            OBVIOUS
      <3>4. k \in T /\ d = i + k - 1
            BY <1>4, <1>5, <2>4, <2>6, <3>2, <3>3
      <3> QED
          BY <2>1, <2>2, <3>1, <3>2, <3>3, <3>4
    <2>7. ASSUME NEW m, NEW e, Takes(y, j, m, e) PROVE g[j] = h[a]
      <3>1. PICK z : Takes(c, a, m, z) /\ SubSeq(y, j, e) = SubSeq(c, a, z)
            BY <2>4, <2>7
      <3>2. m \in 1 .. 3 /\ j + m \in 1 .. l + 1
            BY <2>4, <2>7
      <3>3. Utf8At(y, g, j) = Taken(g, SubSeq(y, j, e), j + m)
            BY <2>7, Utf8Cases
      <3>4. Utf8At(c, h, a) = Taken(h, SubSeq(c, a, z), a + m)
            BY <3>1, Utf8Cases
      <3>5. PICK k \in Nat : k = j + m /\ j < k /\ k <= n
            BY <1>4, <3>2
      <3>6. PICK d \in Nat : d = a + m /\ d = i + k - 1
            BY <3>2, <3>5
      <3>7. g[k] = h[d]
            BY <1>5, <3>5, <3>6
      <3>8. g[j] = Taken(g, SubSeq(y, j, e), k) /\ h[a] = Taken(h, SubSeq(y, j, e), d)
            BY <2>1, <2>2, <3>1, <3>3, <3>4, <3>5, <3>6
      <3> QED
          BY <3>7, <3>8 DEF Taken
    <2> QED
        BY <2>5, <2>6, <2>7, Utf8Cases
  <1> HIDE DEF T
  <1>6. \A j \in Nat : 1 <= j /\ j <= n => j \in T
        BY <1>5, Downwards
  <1> QED
      BY <1>4, <1>6 DEF T, Shifted

(* Two texts, one behind the other: what is moved on, and what is left. *)
Adds(r, x, y) == r.bytes = y.bytes /\ r.utf8 = x.utf8 \o y.utf8

(* More bytes are scanned with what was left before them. *)
LEMMA Utf8More ==
    ASSUME NEW S, NEW b \in Seq(S), NEW p \in Seq(S), NEW f, Utf8Scan(b, f),
           NEW h, Utf8Scan(b \o p, h)
    PROVE  \A g : Utf8Scan(f[1].bytes \o p, g) => Adds(h[1], f[1], g[1])
PROOF
  <1> DEFINE T == {i \in Nat : \A g : Utf8Scan(f[i].bytes \o p, g) => Adds(h[i], f[i], g[1])}
  <1>1. PICK l \in Nat : l = Len(b)
        OBVIOUS
  <1>2. PICK k \in Nat : k = Len(p)
        OBVIOUS
  <1>3. PICK c : c = b \o p
        OBVIOUS
  <1>4. Both(S, c, b, l, p, k)
        BY <1>1, <1>2, <1>3, MoreIs
  <1>5. c \in Seq(S) /\ Len(c) = l + k /\ PartAt(S, b, c, 1, l)
        BY <1>4 DEF Both
  <1>6. \A i \in 1 .. l + 1 : f[i] \in [bytes : Seq(S), utf8 : Seq(S)]
        BY <1>1, Utf8ScanTypes
  <1>7. \A i \in 1 .. Len(c) + 1 : h[i] \in [bytes : Seq(S), utf8 : Seq(S)]
        BY <1>3, <1>5, Utf8ScanTypes
  <1>8. \A i \in 1 .. l + 1 : h[i] = Utf8At(c, h, i) /\ h[i] \in [bytes : Seq(S), utf8 : Seq(S)]
    <2>1. \A i \in 1 .. l + 1 : i \in 1 .. Len(c) + 1
          BY <1>5
    <2> QED
        BY <1>3, <1>7, <2>1 DEF Utf8Scan
  <1>9. PICK n \in Nat : n = l + 1
        OBVIOUS
  <1>10. ASSUME NEW i \in Nat, 1 <= i, i <= n, \A m \in Nat : i < m /\ m <= n => m \in T
         PROVE  i \in T
    <2> SUFFICES ASSUME NEW g, Utf8Scan(f[i].bytes \o p, g) PROVE Adds(h[i], f[i], g[1])
        OBVIOUS
    <2>1. f[i] = Utf8At(b, f, i)
      <3>1. i \in 1 .. Len(b) + 1
            BY <1>1, <1>9, <1>10
      <3> QED
          BY <3>1 DEF Utf8Scan
    <2>2. h[i] = Utf8At(c, h, i) /\ h[i] \in [bytes : Seq(S), utf8 : Seq(S)]
          BY <1>8, <1>9, <1>10
    <2>3. Located(S, b, c, 1, l, i, i)
      <3>1. i \in 1 .. l + 1 /\ i = 1 + i - 1 /\ 1 + l - 1 <= Len(c)
            BY <1>5, <1>9, <1>10
      <3> QED
          BY <1>5, <3>1 DEF Located
    <2>4. /\ Skips(b, i) => Skips(c, i) /\ i + 1 \in 1 .. l + 1
          /\ \A m, e : Takes(b, i, m, e) =>
                 /\ m \in 1 .. 3 /\ i + m \in 1 .. l + 1
                 /\ SubSeq(b, i, e) \in Seq(S)
                 /\ \E z : Takes(c, i, m, z) /\ SubSeq(b, i, e) = SubSeq(c, i, z)
      <3>1. Placed(S, b, c, 1, l, i, i)
            BY <2>3, Utf8Place
      <3> QED
          BY <3>1 DEF Placed
    <2>5. CASE Ends(b, i)
      <3>1. f[i] = [bytes |-> From(b, i), utf8 |-> <<>>]
            BY <2>1, <2>5, Utf8Cases
      <3>2. f[i].bytes \o p = From(c, i)
        <4>1. i >= 1 /\ i <= Len(b) + 1
              BY <1>1, <1>9, <1>10
        <4>2. From(b \o p, i) = From(b, i) \o p
              BY <4>1, RestMore
        <4> QED
            BY <1>3, <3>1, <4>2
      <3>3. PICK d \in Nat : d = l + k - i + 1 /\ Len(c) = i + d - 1
            BY <1>5, <1>9, <1>10
      <3>4. g[1] = h[i]
        <4>1. RestOf(S, c, i, d)
              BY <1>5, <1>10, <3>3 DEF RestOf
        <4>2. Utf8Scan(From(c, i), g) /\ Utf8Scan(c, h)
              BY <1>3, <3>2
        <4>3. Shifted(g, h, i, d)
              BY <4>1, <4>2, Utf8Shift
        <4>4. 1 \in Nat /\ 1 <= 1 /\ 1 <= d + 1 /\ i = i + 1 - 1
              OBVIOUS
        <4> QED
            BY <4>3, <4>4 DEF Shifted
      <3>5. <<>> \o h[i].utf8 = h[i].utf8
            BY <2>2, ConcatEmptySeq
      <3>6. f[i].utf8 = <<>>
            BY <3>1
      <3> QED
          BY <3>4, <3>5, <3>6 DEF Adds
    <2>6. CASE Skips(b, i)
      <3>1. f[i] = f[i + 1] /\ h[i] = h[i + 1]
            BY <2>1, <2>2, <2>4, <2>6, Utf8Cases
      <3>2. i + 1 \in T
            BY <1>9, <1>10, <2>4, <2>6
      <3> QED
          BY <3>1, <3>2
    <2>7. ASSUME NEW m, NEW e, Takes(b, i, m, e) PROVE Adds(h[i], f[i], g[1])
      <3>1. PICK z : Takes(c, i, m, z) /\ SubSeq(b, i, e) = SubSeq(c, i, z)
            BY <2>4, <2>7
      <3>2. PICK x : x = SubSeq(b, i, e)
            OBVIOUS
      <3>3. m \in 1 .. 3 /\ i + m \in 1 .. l + 1 /\ x \in Seq(S)
            BY <2>4, <2>7, <3>2
      <3>4. PICK j \in Nat : j = i + m /\ i < j /\ j <= n /\ j \in 1 .. l + 1
            BY <1>9, <3>3
      <3>5. f[i] = Taken(f, x, j)
            BY <2>1, <2>7, <3>2, <3>4, Utf8Cases
      <3>6. h[i] = Taken(h, x, j)
            BY <2>2, <3>1, <3>2, <3>4, Utf8Cases
      <3>7. j \in T
            BY <1>10, <3>4
      <3>8. /\ f[j] \in [bytes : Seq(S), utf8 : Seq(S)]
            /\ h[j] \in [bytes : Seq(S), utf8 : Seq(S)]
            BY <1>6, <1>8, <3>4
      <3>9. CASE IsEmoji(x)
            BY <3>5, <3>6, <3>7, <3>9 DEF Taken
      <3>10. CASE ~IsEmoji(x)
        <4>1. /\ f[i].bytes = f[j].bytes /\ f[i].utf8 = x \o f[j].utf8
              /\ h[i].bytes = h[j].bytes /\ h[i].utf8 = x \o h[j].utf8
              BY <3>5, <3>6, <3>8, <3>10 DEF Taken
        <4>2. h[j].bytes = g[1].bytes /\ h[j].utf8 = f[j].utf8 \o g[1].utf8
              BY <3>7, <4>1 DEF Adds
        <4>3. PICK v \in Seq(S) : v = g[1].utf8
          <5>1. PICK w \in Seq(S) : w = f[i].bytes \o p
                BY <3>8, <4>1, ConcatProperties
          <5>2. 1 \in 1 .. Len(w) + 1
                BY <5>1
          <5>3. g[1] \in [bytes : Seq(S), utf8 : Seq(S)]
                BY <5>1, <5>2, Utf8ScanTypes
          <5> QED
              BY <5>3
        <4>4. PICK u \in Seq(S) : u = f[j].utf8
              BY <3>8
        <4>5. (x \o u) \o v = x \o (u \o v)
              BY <3>3, ConcatAssociative, SMTT(30)
        <4> QED
            BY <4>1, <4>2, <4>3, <4>4, <4>5 DEF Adds
      <3> QED
          BY <3>9, <3>10
    <2> QED
        BY <2>5, <2>6, <2>7, Utf8Cases
  <1> HIDE DEF T
  <1>11. \A i \in Nat : 1 <= i /\ i <= n => i \in T
         BY <1>10, Downwards
  <1>12. 1 \in T
         BY <1>9, <1>11
  <1> QED
      BY <1>12 DEF T

-----------------------------------------------------------------------------
(***************************************************************************)
(* Think blocks in two pieces.                                             *)
(***************************************************************************)

(* x goes on with the marker m from position k on, as far as it goes. *)
Matches(x, k, m) == \A j \in 1 .. Len(m) : k + j - 1 <= Len(x) => x[k + j - 1] = m[j]

(* The first such position from i on; it may be the one behind the text. *)
First(x, i, m, q) ==
    /\ q \in Nat /\ i <= q /\ q <= Len(x) + 1 /\ Matches(x, q, m)
    /\ \A k \in Nat : i <= k /\ k < q => ~Matches(x, k, m)

(* Texts of the same length and bytes are the same. *)
LEMMA SameText ==
    ASSUME NEW S, NEW R, NEW x \in Seq(S), NEW y \in Seq(R), NEW n \in Nat,
           Len(x) = n, Len(y) = n, \A k \in 1 .. n : x[k] = y[k]
    PROVE  x = y
PROOF
  <1>1. x \in Seq(S \cup R) /\ y \in Seq(S \cup R)
        BY SeqMonotonic
  <1> QED
      BY <1>1, SeqEqual

(* A marker occurs where the text goes on with it and does not end within it. *)
LEMMA OccursIs ==
    ASSUME NEW S, NEW x \in Seq(S), NEW R, NEW m \in Seq(R), NEW lx \in Nat, lx = Len(x),
           NEW lm \in Nat, lm = Len(m), NEW k \in Nat, k >= 1
    PROVE  k \in Occurrences(x, m) <=> k + lm - 1 <= lx /\ Matches(x, k, m)
PROOF
  <1>1. k \in Occurrences(x, m) <=>
            k \in 1 .. lx - lm + 1 /\ SubSeq(x, k, k + lm - 1) = m
        BY DEF Occurrences
  <1>2. k \in 1 .. lx - lm + 1 <=> k + lm - 1 <= lx
        OBVIOUS
  <1>3. ASSUME k + lm - 1 <= lx PROVE SubSeq(x, k, k + lm - 1) = m <=> Matches(x, k, m)
    <2>1. PICK e \in Nat : e = k + lm - 1
          BY SMTT(30)
    <2>2. PICK y : y = SubSeq(x, k, e)
          OBVIOUS
    <2>3. PartAt(S, y, x, k, lm)
          BY <1>3, <2>1, <2>2, PartSub
    <2>4. y \in Seq(S) /\ Len(y) = lm /\ \A j \in 1 .. lm : y[j] = x[k + j - 1]
          BY <2>3 DEF PartAt
    <2>5. y = m <=> \A j \in 1 .. lm : y[j] = m[j]
          BY <2>4, SameText, SMTT(30)
    <2>6. ASSUME NEW j \in 1 .. lm PROVE k + j - 1 <= lx /\ y[j] = x[k + j - 1]
          BY <1>3, <2>4
    <2>7. Matches(x, k, m) <=> \A j \in 1 .. lm : x[k + j - 1] = m[j]
          BY <2>6 DEF Matches
    <2> QED
        BY <2>1, <2>2, <2>5, <2>6, <2>7
  <1> QED
      BY <1>1, <1>2, <1>3

(* The last n bytes of a text are the first of a marker if the text goes on with it
   from there. *)
LEMMA HeldMatches ==
    ASSUME NEW S, NEW x \in Seq(S), NEW R, NEW m \in Seq(R), NEW lx \in Nat, lx = Len(x),
           NEW lm \in Nat, lm = Len(m), NEW n \in Nat, n <= lx, n < lm,
           NEW k \in Nat, k = lx - n + 1
    PROVE  SubSeq(m, 1, n) = From(x, k) <=> Matches(x, k, m)
PROOF
  <1>1. PICK y : y = From(x, k)
        OBVIOUS
  <1>2. PICK z : z = SubSeq(m, 1, n)
        OBVIOUS
  <1>3. PartAt(S, y, x, k, n)
    <2>1. k >= 1 /\ Len(x) = k + n - 1
          OBVIOUS
    <2> QED
        BY <1>1, <2>1, PartRest
  <1>4. PartAt(R, z, m, 1, n)
    <2>1. 1 \in Nat /\ 1 >= 1 /\ n <= Len(m) /\ n = 1 + n - 1
          OBVIOUS
    <2> QED
        BY <1>2, <2>1, PartSub
  <1>5. y \in Seq(S) /\ Len(y) = n /\ \A j \in 1 .. n : y[j] = x[k + j - 1]
        BY <1>3 DEF PartAt
  <1>6. z \in Seq(R) /\ Len(z) = n /\ \A j \in 1 .. n : z[j] = m[j]
    <2>1. \A j \in 1 .. n : 1 + j - 1 = j
          OBVIOUS
    <2> QED
        BY <1>4, <2>1 DEF PartAt
  <1>7. y = z <=> \A j \in 1 .. n : y[j] = z[j]
        BY <1>5, <1>6, SameText
  <1>8. \A j \in 1 .. lm : k + j - 1 <= lx <=> j \in 1 .. n
        OBVIOUS
  <1>9. \A j \in 1 .. n : j \in 1 .. lm
        OBVIOUS
  <1>10. Matches(x, k, m) <=> \A j \in 1 .. n : x[k + j - 1] = m[j]
        BY <1>8, <1>9 DEF Matches
  <1> QED
      BY <1>1, <1>2, <1>5, <1>6, <1>7, <1>10

(* There is a first one. *)
LEMMA FirstExists ==
    ASSUME NEW S, NEW x \in Seq(S), NEW m, NEW i \in Nat, i <= Len(x) + 1, Len(m) \in Nat
    PROVE  \E q \in Nat : First(x, i, m, q)
PROOF
  <1> DEFINE T == {k \in Nat : i <= k /\ k <= Len(x) + 1 /\ Matches(x, k, m)}
  <1>1. PICK l \in Nat : l = Len(x)
        OBVIOUS
  <1>2. PICK z \in Nat : z = l + 1
        OBVIOUS
  <1>3. \A j \in 1 .. Len(m) : ~(z + j - 1 <= Len(x))
        BY <1>1, <1>2
  <1>4. z \in T
        BY <1>1, <1>2, <1>3 DEF Matches
  <1>5. PICK q \in T : \A k \in T : q <= k
    <2>1. T \subseteq Nat /\ T # {}
          BY <1>4
    <2> HIDE DEF T
    <2> QED
        BY <2>1, LeastNumber
  <1>6. ASSUME NEW k \in Nat, i <= k, k < q PROVE ~Matches(x, k, m)
    <2>1. k <= Len(x) + 1 /\ ~(q <= k)
          BY <1>1, <1>5, <1>6
    <2> QED
        BY <1>5, <1>6, <2>1
  <1> QED
      BY <1>5, <1>6 DEF First

(* What the scan finds, and what it holds back, by the first position. *)
Visible(u, t, i, q) == IF t THEN <<>> ELSE SubSeq(u, i, q - 1)
Prefixed(r, v) == [r EXCEPT !.text = v \o @]
Through(u, f, i, t, q, k) == Prefixed(f[k][~t], Visible(u, t, i, q))
Stopped(u, i, t, q) ==
    [text |-> Visible(u, t, i, q), utf8 |-> From(u, q), inThink |-> t]

(* Where the marker m is found from position i on. *)
Found(u, i, m) == {k \in Occurrences(u, m) : k >= i}

(* A marker that is found whole is the first position, and none is found else. *)
LEMMA FoundFirst ==
    ASSUME NEW S, NEW u \in Seq(S), NEW R, NEW m \in Seq(R), NEW l \in Nat, l = Len(u),
           NEW n \in Nat, n = Len(m), NEW i \in Nat, i >= 1, NEW q \in Nat, First(u, i, m, q)
    PROVE  /\ q + n - 1 <= l => Found(u, i, m) # {} /\ Min(Found(u, i, m)) = q
           /\ ~(q + n - 1 <= l) => Found(u, i, m) = {}
PROOF
  <1>0. PICK found : found = Found(u, i, m)
        OBVIOUS
  <1>1. /\ i <= q /\ q <= l + 1 /\ Matches(u, q, m)
        /\ \A k \in Nat : i <= k /\ k < q => ~Matches(u, k, m)
        BY DEF First
  <1>2. Occurrences(u, m) \subseteq Nat
    <2>1. 1 .. l - n + 1 \subseteq Nat
          OBVIOUS
    <2> QED
        BY <2>1 DEF Occurrences
  <1>3. ASSUME NEW k \in found
        PROVE  k \in Nat /\ k + n - 1 <= l /\ q <= k
    <2>1. k \in Occurrences(u, m) /\ k \in Nat /\ k >= 1 /\ k >= i
          BY <1>0, <1>2 DEF Found
    <2>2. k + n - 1 <= l /\ Matches(u, k, m)
          BY <2>1, OccursIs
    <2> QED
        BY <1>1, <2>1, <2>2
  <1>4. CASE q + n - 1 <= l
    <2>1. q >= 1
          BY <1>1
    <2>2. q \in Occurrences(u, m)
          BY <1>1, <1>4, <2>1, OccursIs
    <2>3. found \subseteq Nat /\ found # {} /\ q \in found
          BY <1>0, <1>1, <1>2, <2>2 DEF Found
    <2>4. Min(found) \in found /\ Min(found) <= q
          BY <2>3, MinIs
    <2>5. PICK k \in found : k = Min(found)
          BY <2>4
    <2>6. k \in Nat /\ q <= k /\ k <= q
          BY <1>3, <2>4, <2>5
    <2> QED
        BY <1>0, <1>4, <2>3, <2>5, <2>6
  <1>5. CASE ~(q + n - 1 <= l)
    <2>1. ASSUME NEW k \in found PROVE FALSE
          BY <1>1, <1>3, <1>5
    <2> QED
        BY <1>0, <1>5, <2>1
  <1> QED
      BY <1>4, <1>5

(* A rest goes on with a marker where the whole text does. *)
LEMMA MatchesShift ==
    ASSUME NEW S, NEW u, NEW i \in Nat, NEW l \in Nat, RestOf(S, u, i, l),
           NEW y, y = From(u, i), NEW m, NEW n \in Nat, n = Len(m),
           NEW k \in Nat, 1 <= k, NEW a \in Nat, a = i + k - 1
    PROVE  Matches(y, k, m) <=> Matches(u, a, m)
PROOF
  <1>1. u \in Seq(S) /\ i >= 1 /\ Len(u) = i + l - 1
        BY DEF RestOf
  <1>2. PartAt(S, y, u, i, l)
        BY <1>1, PartRest
  <1>3. Len(y) = l /\ \A j \in 1 .. l : y[j] = u[i + j - 1]
        BY <1>2 DEF PartAt
  <1>4. PICK d \in Nat : d = Len(u)
        BY <1>1
  <1>5. ASSUME NEW j \in 1 .. n
        PROVE  (k + j - 1 <= l => y[k + j - 1] = m[j]) <=> (a + j - 1 <= d => u[a + j - 1] = m[j])
    <2>1. k + j - 1 <= l <=> a + j - 1 <= d
          BY <1>1, <1>4
    <2>2. ASSUME k + j - 1 <= l PROVE y[k + j - 1] = u[a + j - 1]
      <3>1. PICK h \in 1 .. l : h = k + j - 1 /\ i + h - 1 = a + j - 1
            BY <2>2
      <3> QED
          BY <1>3, <3>1
    <2> QED
        BY <2>1, <2>2
  <1> QED
      BY <1>3, <1>4, <1>5 DEF Matches

(* What heldPrefixLength holds back starts at the first position, if the marker is
   not found whole. *)
LEMMA HeldFirst ==
    ASSUME NEW S, NEW u \in Seq(S), NEW R, NEW m \in Seq(R), NEW l \in Nat, l = Len(u),
           NEW n \in Nat, n = Len(m), NEW i \in Nat, i >= 1, NEW q \in Nat, First(u, i, m, q),
           ~(q + n - 1 <= l)
    PROVE  HeldPrefixLength(From(u, i), m) = l - q + 1
PROOF
  <1>1. /\ i <= q /\ q <= l + 1 /\ Matches(u, q, m)
        /\ \A k \in Nat : i <= k /\ k < q => ~Matches(u, k, m)
        BY DEF First
  <1>2. PICK ly \in Nat : ly = l - i + 1
        BY <1>1
  <1>3. PICK y : y = From(u, i)
        OBVIOUS
  <1>4. RestOf(S, u, i, ly) /\ y \in Seq(S) /\ Len(y) = ly
    <2>1. Len(u) = i + ly - 1
          BY <1>2
    <2>2. PartAt(S, y, u, i, ly)
          BY <1>3, <2>1, PartRest
    <2> QED
        BY <2>1, <2>2 DEF PartAt, RestOf
  <1> DEFINE H == {h \in 0 .. Len(m) - 1 : h <= Len(y) /\ SubSeq(m, 1, h) = From(y, Len(y) - h + 1)}
  <1>5. HeldPrefixLength(y, m) = Max(H)
        BY DEF HeldPrefixLength
  <1>6. ASSUME NEW h \in Nat, h < n, h <= ly, NEW a \in Nat, a = l - h + 1
        PROVE  SubSeq(m, 1, h) = From(y, Len(y) - h + 1) <=> Matches(u, a, m)
    <2>0. PICK k \in Nat : k = ly - h + 1
          BY <1>6
    <2>1. k = ly - h + 1 /\ 1 <= k /\ a = i + k - 1
          BY <1>2, <1>6, <2>0
    <2>2. SubSeq(m, 1, h) = From(y, k) <=> Matches(y, k, m)
          BY <1>4, <1>6, <2>1, HeldMatches
    <2>3. Matches(y, k, m) <=> Matches(u, a, m)
          BY <1>3, <1>4, <2>1, MatchesShift
    <2>4. Len(y) - h + 1 = k
          BY <1>4, <2>1
    <2> QED
        BY <2>2, <2>3, <2>4
  <1>7. PICK p \in Nat : p = l - q + 1
        BY <1>1
  <1>8. p < n /\ p <= ly /\ q = l - p + 1
        BY <1>1, <1>2, <1>7
  <1>9. p \in H
    <2>1. SubSeq(m, 1, p) = From(y, Len(y) - p + 1)
          BY <1>1, <1>6, <1>8
    <2>2. p \in 0 .. Len(m) - 1 /\ p <= Len(y)
          BY <1>4, <1>8
    <2> QED
        BY <2>1, <2>2
  <1>10. ASSUME NEW h \in Nat, h \in H PROVE h <= p
    <2>1. h < n /\ h <= ly /\ SubSeq(m, 1, h) = From(y, Len(y) - h + 1)
          BY <1>4, <1>10
    <2>0. i <= l - h + 1 /\ h <= l
          BY <1>2, <2>1
    <2>2. PICK a \in Nat : a = l - h + 1 /\ i <= a
      <3>1. l - h + 1 \in Nat
            BY <2>0
      <3>2. PICK a \in Nat : a = l - h + 1
            BY <3>1
      <3> QED
          BY <2>0, <3>2
    <2>3. Matches(u, a, m)
          BY <1>6, <2>1, <2>2
    <2>4. q <= a
          BY <1>1, <2>2, <2>3
    <2> QED
        BY <1>7, <2>1, <2>2, <2>4
  <1>11. H \subseteq 0 .. n
         OBVIOUS
  <1> HIDE DEF H
  <1>12. \A h \in H : h <= p
    <2>1. \A h \in H : h \in Nat
          BY <1>11
    <2> QED
        BY <1>10, <2>1
  <1>13. Max(H) = p
         BY <1>9, <1>11, <1>12, MaxEquals
  <1> QED
      BY <1>3, <1>5, <1>7, <1>13

(* The scan at position i, by the first position of the marker. *)
LEMMA ThinkCases ==
    ASSUME NEW S, NEW u \in Seq(S), NEW t \in BOOLEAN, NEW l \in Nat, l = Len(u),
           NEW n \in Nat, n = Len(MarkerOf(t)), NEW i \in Nat, i >= 1,
           NEW q \in Nat, First(u, i, MarkerOf(t), q), NEW f, NEW k \in Nat, k = q + n
    PROVE  ThinkIn(u, f, i, t) = IF k <= l + 1 THEN Through(u, f, i, t, q, k) ELSE Stopped(u, i, t, q)
PROOF
  <1> DEFINE m == MarkerOf(t)
             found == Found(u, i, m)
             held == HeldPrefixLength(From(u, i), m)
             shown(to) == IF t THEN <<>> ELSE SubSeq(u, i, to)
  <1>1. PICK R : m \in Seq(R)
        BY MarkerIs
  <1>2. ThinkIn(u, f, i, t) =
            IF found = {}
            THEN [text |-> shown(Len(u) - held), utf8 |-> From(u, Len(u) - held + 1),
                  inThink |-> t]
            ELSE [f[Min(found) + Len(m)][~t] EXCEPT !.text = shown(Min(found) - 1) \o @]
        BY DEF ThinkIn, Found
  <1>3. n = Len(m) /\ First(u, i, m, q)
        OBVIOUS
  <1> HIDE DEF m
  <1>4. IF q + n - 1 <= l THEN found # {} /\ Min(found) = q ELSE found = {}
        BY <1>1, <1>3, FoundFirst
  <1>5. CASE k <= l + 1
    <2>1. q + n - 1 <= l
          BY <1>5
    <2>2. found # {} /\ Min(found) = q
          BY <1>4, <2>1
    <2>3. ThinkIn(u, f, i, t) = [f[Min(found) + Len(m)][~t] EXCEPT !.text = shown(Min(found) - 1) \o @]
          BY <1>2, <2>2
    <2>4. Min(found) + Len(m) = k
          BY <1>3, <2>2
    <2> HIDE DEF found
    <2>5. ThinkIn(u, f, i, t) = [f[k][~t] EXCEPT !.text = shown(q - 1) \o @]
          BY <2>2, <2>3, <2>4
    <2> QED
        BY <1>5, <2>5 DEF Through, Prefixed, Visible
  <1>6. CASE ~(k <= l + 1)
    <2>1. ~(q + n - 1 <= l)
          BY <1>6
    <2>2. found = {}
          BY <1>4, <2>1
    <2>3. held = l - q + 1
          BY <1>1, <1>3, <2>1, HeldFirst
    <2>4. q <= l + 1
          BY <1>3 DEF First
    <2>5. Len(u) - held = q - 1 /\ Len(u) - held + 1 = q
          BY <2>3, <2>4
    <2> HIDE DEF found, held
    <2>6. ThinkIn(u, f, i, t) = [text |-> shown(q - 1), utf8 |-> From(u, q), inThink |-> t]
          BY <1>2, <2>2, <2>5
    <2> QED
        BY <1>6, <2>6 DEF Stopped, Visible
  <1> QED
      BY <1>5, <1>6

(* A scan at one position. *)
LEMMA ThinkStep ==
    ASSUME NEW u, NEW f, ThinkScan(u, f), NEW i \in 1 .. Len(u) + 1, NEW t \in BOOLEAN
    PROVE  f[i][t] = ThinkIn(u, f, i, t)
PROOF
  <1>1. f = [k \in 1 .. Len(u) + 1 |-> ThinkAt(u, f, k)]
        BY Zenon DEF ThinkScan
  <1>2. f[i] = ThinkAt(u, f, i)
        BY <1>1, Zenon
  <1> QED
      BY <1>2, Zenon DEF ThinkAt

(* The first position in a rest is that in the whole text. *)
LEMMA FirstShift ==
    ASSUME NEW S, NEW u, NEW i \in Nat, NEW l \in Nat, RestOf(S, u, i, l),
           NEW y, y = From(u, i), NEW m, NEW n \in Nat, n = Len(m),
           NEW j \in Nat, 1 <= j, NEW a \in Nat, a = i + j - 1,
           NEW q \in Nat, First(y, j, m, q), NEW z \in Nat, z = i + q - 1
    PROVE  First(u, a, m, z)
PROOF
  <1>1. u \in Seq(S) /\ i >= 1 /\ Len(u) = i + l - 1
        BY DEF RestOf
  <1>2. PartAt(S, y, u, i, l)
        BY <1>1, PartRest
  <1>3. Len(y) = l
        BY <1>2 DEF PartAt
  <1>4. /\ j <= q /\ q <= l + 1 /\ Matches(y, q, m)
        /\ \A k \in Nat : j <= k /\ k < q => ~Matches(y, k, m)
        BY <1>3 DEF First
  <1>5. a <= z /\ z <= Len(u) + 1
        BY <1>1, <1>4
  <1>6. Matches(u, z, m)
    <2>1. 1 <= q
          BY <1>4
    <2> QED
        BY <1>4, <2>1, MatchesShift
  <1>7. ASSUME NEW k \in Nat, a <= k, k < z PROVE ~Matches(u, k, m)
    <2>0. k - i + 1 \in Nat
          BY <1>7
    <2>1. PICK h \in Nat : h = k - i + 1
          BY <2>0
    <2>2. 1 <= h /\ k = i + h - 1 /\ j <= h /\ h < q
          BY <1>7, <2>1
    <2>3. ~Matches(y, h, m)
          BY <1>4, <2>2
    <2> QED
        BY <2>2, <2>3, MatchesShift
  <1> QED
      BY <1>5, <1>6, <1>7 DEF First

(* The scan of a rest is the rest of the scan. *)
LEMMA ThinkShift ==
    ASSUME NEW S, NEW u, NEW i \in Nat, NEW l \in Nat, RestOf(S, u, i, l),
           NEW h, ThinkScan(u, h), NEW g, ThinkScan(From(u, i), g)
    PROVE  \A t \in BOOLEAN : g[1][t] = h[i][t]
PROOF
  <1> DEFINE T == {j \in Nat : \A a \in Nat : a = i + j - 1 => \A t \in BOOLEAN : g[j][t] = h[a][t]}
  <1>1. u \in Seq(S) /\ i >= 1 /\ Len(u) = i + l - 1
        BY DEF RestOf
  <1>2. PICK y : y = From(u, i)
        OBVIOUS
  <1>3. PartAt(S, y, u, i, l)
        BY <1>1, <1>2, PartRest
  <1>4. y \in Seq(S) /\ Len(y) = l
        BY <1>3 DEF PartAt
  <1>5. PICK d \in Nat : d = Len(u)
        BY <1>1
  <1>6. PICK n \in Nat : n = l + 1
        OBVIOUS
  <1>7. ASSUME NEW j \in Nat, 1 <= j, j <= n, \A k \in Nat : j < k /\ k <= n => k \in T
        PROVE  j \in T
    <2> SUFFICES ASSUME NEW a \in Nat, a = i + j - 1, NEW t \in BOOLEAN PROVE g[j][t] = h[a][t]
        OBVIOUS
    <2>1. g[j][t] = ThinkIn(y, g, j, t)
      <3>1. j \in 1 .. Len(y) + 1
            BY <1>4, <1>6, <1>7
      <3> QED
          BY <1>2, <3>1, ThinkStep
    <2>2. h[a][t] = ThinkIn(u, h, a, t)
      <3>1. a \in 1 .. Len(u) + 1
            BY <1>1, <1>6, <1>7
      <3> QED
          BY <3>1, ThinkStep
    <2>3. PICK m \in Nat : m = Len(MarkerOf(t)) /\ m >= 3
          BY MarkerIs
    <2>4. PICK q \in Nat : First(y, j, MarkerOf(t), q)
      <3>1. j <= Len(y) + 1 /\ Len(MarkerOf(t)) \in Nat
            BY <1>4, <1>6, <1>7, <2>3
      <3> QED
          BY <1>4, <3>1, FirstExists
    <2>5. j <= q /\ q <= l + 1
          BY <1>4, <2>4 DEF First
    <2>6. PICK z \in Nat : z = i + q - 1
          BY <1>7, <2>5
    <2>7. First(u, a, MarkerOf(t), z)
          BY <1>2, <1>7, <2>3, <2>4, <2>6, FirstShift
    <2>8. PICK k \in Nat : k = q + m
          OBVIOUS
    <2>9. PICK e \in Nat : e = z + m
          OBVIOUS
    <2>10. ThinkIn(y, g, j, t) = IF k <= l + 1 THEN Through(y, g, j, t, q, k) ELSE Stopped(y, j, t, q)
      <3>1. j >= 1 /\ l = Len(y)
            BY <1>4, <1>7
      <3> QED
          BY <1>4, <2>3, <2>4, <2>8, <3>1, ThinkCases
    <2>11. ThinkIn(u, h, a, t) = IF e <= d + 1 THEN Through(u, h, a, t, z, e) ELSE Stopped(u, a, t, z)
      <3>1. a >= 1
            BY <1>1, <1>7
      <3> QED
          BY <1>1, <1>5, <2>3, <2>7, <2>9, <3>1, ThinkCases, SMTT(30)
    <2>12. k <= l + 1 <=> e <= d + 1
          BY <1>1, <1>5, <2>6, <2>8, <2>9
    <2>13. Visible(y, t, j, q) = Visible(u, t, a, z)
      <3>1. q - 1 \in Nat /\ z - 1 \in Nat /\ q - j \in Nat
            BY <1>1, <1>7, <2>5, <2>6
      <3>2. PICK b \in Nat : b = q - 1
            BY <3>1
      <3>3. PICK c \in Nat : c = z - 1
            BY <3>1
      <3>4. PICK w \in Nat : w = q - j
            BY <3>1
      <3>5. Inside(a, w, i, l, j) /\ b = j + w - 1 /\ c = i + b - 1
            BY <1>7, <2>5, <2>6, <3>2, <3>3, <3>4 DEF Inside
      <3>6. SubSeq(From(u, i), j, b) = SubSeq(u, a, c)
            BY <1>1, <3>5, SubRest
      <3> QED
          BY <1>2, <3>2, <3>3, <3>6 DEF Visible
    <2>14. CASE k <= l + 1
      <3>0. j < k /\ k <= n /\ e = i + k - 1
            BY <1>6, <2>3, <2>5, <2>6, <2>8, <2>9, <2>14
      <3>1. k \in T /\ e = i + k - 1
            BY <1>7, <3>0
      <3>2. g[k][~t] = h[e][~t]
            BY <3>1
      <3>3. g[j][t] = Through(y, g, j, t, q, k) /\ h[a][t] = Through(u, h, a, t, z, e)
            BY <2>1, <2>2, <2>10, <2>11, <2>12, <2>14
      <3> QED
          BY <2>13, <3>2, <3>3 DEF Through
    <2>15. CASE ~(k <= l + 1)
      <3>1. g[j][t] = Stopped(y, j, t, q) /\ h[a][t] = Stopped(u, a, t, z)
            BY <2>1, <2>2, <2>10, <2>11, <2>12, <2>15
      <3>2. From(From(u, i), q) = From(u, z)
        <4>1. q >= 1 /\ q <= l + 1
              BY <1>7, <2>5
        <4> QED
            BY <1>1, <2>6, <4>1, RestRest
      <3> QED
          BY <1>2, <2>13, <3>1, <3>2 DEF Stopped
    <2> QED
        BY <2>14, <2>15
  <1> HIDE DEF T
  <1>8. \A j \in Nat : 1 <= j /\ j <= n => j \in T
        BY <1>7, Downwards
  <1>9. 1 \in T /\ i = i + 1 - 1
        BY <1>6, <1>8
  <1> QED
      BY <1>9 DEF T

(* More text does not disturb the first position of a marker that is whole, and
   brings no earlier one. *)
LEMMA FirstMore ==
    ASSUME NEW S, NEW u, NEW w, NEW c, NEW l \in Nat, NEW k \in Nat, Both(S, c, u, l, w, k),
           NEW m, NEW n \in Nat, n = Len(m), NEW i \in Nat, i >= 1,
           NEW q \in Nat, First(u, i, m, q)
    PROVE  /\ q + n - 1 <= l => First(c, i, m, q)
           /\ \A z : First(c, i, m, z) => q <= z /\ First(c, q, m, z)
PROOF
  <1>1. Len(u) = l /\ Len(c) = l + k /\ \A j \in 1 .. l : u[j] = c[j]
    <2>1. \A j \in 1 .. l : 1 + j - 1 = j
          OBVIOUS
    <2> QED
        BY <2>1 DEF Both, PartAt
  <1>2. /\ i <= q /\ q <= l + 1 /\ Matches(u, q, m)
        /\ \A j \in Nat : i <= j /\ j < q => ~Matches(u, j, m)
        BY <1>1 DEF First
  <1>3. ASSUME NEW j \in Nat, 1 <= j, Matches(c, j, m) PROVE Matches(u, j, m)
    <2>1. ASSUME NEW h \in 1 .. n, j + h - 1 <= l PROVE u[j + h - 1] = m[h]
      <3>1. PICK d \in 1 .. l : d = j + h - 1 /\ d <= l + k
            BY <1>3, <2>1
      <3>2. c[d] = m[h]
            BY <1>1, <1>3, <3>1 DEF Matches
      <3> QED
          BY <1>1, <3>1, <3>2
    <2> QED
        BY <1>1, <2>1 DEF Matches
  <1>4. \A j \in Nat : i <= j /\ j < q => ~Matches(c, j, m)
    <2>1. \A j \in Nat : i <= j => 1 <= j
          OBVIOUS
    <2> QED
        BY <1>2, <1>3, <2>1
  <1>5. ASSUME q + n - 1 <= l PROVE First(c, i, m, q)
    <2>1. ASSUME NEW h \in 1 .. n PROVE c[q + h - 1] = m[h]
      <3>1. PICK d \in 1 .. l : d = q + h - 1
            BY <1>2, <1>5
      <3>2. u[d] = m[h]
            BY <1>1, <1>2, <3>1 DEF Matches
      <3> QED
          BY <1>1, <3>1, <3>2
    <2>2. Matches(c, q, m)
          BY <2>1 DEF Matches
    <2>3. q <= Len(c) + 1
          BY <1>1, <1>2
    <2> QED
        BY <1>2, <1>4, <2>2, <2>3 DEF First
  <1>6. ASSUME NEW z, First(c, i, m, z) PROVE q <= z /\ First(c, q, m, z)
    <2>1. /\ z \in Nat /\ i <= z /\ z <= Len(c) + 1 /\ Matches(c, z, m)
          /\ \A j \in Nat : i <= j /\ j < z => ~Matches(c, j, m)
          BY <1>6 DEF First
    <2>2. q <= z
          BY <1>4, <2>1
    <2>3. \A j \in Nat : q <= j => i <= j
          BY <1>2
    <2> QED
        BY <2>1, <2>2, <2>3 DEF First
  <1> QED
      BY <1>5, <1>6

(* What is shown up to a position, and from there on. *)
LEMMA VisibleJoin ==
    ASSUME NEW S, NEW c \in Seq(S), NEW t \in BOOLEAN, NEW i \in Nat, i >= 1,
           NEW q \in Nat, i <= q, NEW z \in Nat, q <= z, z <= Len(c) + 1
    PROVE  Visible(c, t, i, z) = Visible(c, t, i, q) \o Visible(c, t, q, z)
PROOF
  <1>1. CASE t
    <2>1. <<>> \o <<>> = <<>>
          BY ConcatEmptySeq
    <2> QED
        BY <1>1, <2>1 DEF Visible
  <1>2. CASE ~t
    <2>1. PICK l \in Nat : l = Len(c)
          OBVIOUS
    <2>2. q - 1 \in Nat /\ z - 1 \in Nat
          OBVIOUS
    <2>3. PICK a \in Nat : a = q - 1
          BY <2>2
    <2>4. PICK e \in Nat : e = z - 1
          BY <2>2
    <2>5. i \in 1 .. Len(c) + 1 /\ a \in i - 1 .. Len(c) /\ e \in a .. Len(c)
          BY <2>1, <2>3, <2>4
    <2>6. SubSeq(c, i, a) \o SubSeq(c, a + 1, e) = SubSeq(c, i, e)
          BY <2>5, ConcatAdjacentSubSeq
    <2>7. a + 1 = q
          BY <2>3
    <2> QED
        BY <1>2, <2>3, <2>4, <2>6, <2>7 DEF Visible
  <1> QED
      BY <1>1, <1>2

(* What is visible is a text. *)
LEMMA VisibleIs ==
    ASSUME NEW S, NEW c \in Seq(S), NEW t \in BOOLEAN, NEW i \in Nat, i >= 1,
           NEW z \in Nat, i <= z, z <= Len(c) + 1
    PROVE  Visible(c, t, i, z) \in Seq(S)
PROOF
  <1>1. z - 1 \in Nat /\ z - 1 <= Len(c)
        OBVIOUS
  <1>2. PICK e \in Nat : e = z - 1 /\ e <= Len(c)
        BY <1>1
  <1>3. SubSeq(c, i, e) \in Seq(S)
        BY <1>2, PartIs
  <1> QED
      BY <1>2, <1>3 DEF Visible

(* r shows the text v and what y shows, and holds back what y holds. *)
Shows(r, v, y) == r.text = v \o y.text /\ r.utf8 = y.utf8 /\ r.inThink = y.inThink
Thoughts(S) == [text : Seq(S), utf8 : Seq(S), inThink : BOOLEAN]

(* A text in two parts before what a scan shows. *)
LEMMA ShowsJoin ==
    ASSUME NEW S, NEW a \in Seq(S), NEW b \in Seq(S), NEW r \in Thoughts(S)
    PROVE  Shows(Prefixed(r, a \o b), a, Prefixed(r, b))
PROOF
  <1>1. PICK y \in Seq(S) : y = r.text
        BY DEF Thoughts
  <1>2. (a \o b) \o y = a \o (b \o y)
        BY ConcatAssociative
  <1>3. Prefixed(r, a \o b).text = (a \o b) \o y /\ Prefixed(r, b).text = b \o y
        BY <1>1 DEF Prefixed, Thoughts
  <1> QED
      BY <1>2, <1>3 DEF Shows, Prefixed, Thoughts

(* Where no marker starts, the scan only shows what is there. *)
LEMMA ThinkSkip ==
    ASSUME NEW S, NEW c \in Seq(S), NEW h, ThinkScan(c, h), NEW t \in BOOLEAN,
           NEW i \in Nat, i >= 1, NEW q \in Nat, i <= q,
           NEW z \in Nat, First(c, i, MarkerOf(t), z), First(c, q, MarkerOf(t), z)
    PROVE  Shows(h[i][t], Visible(c, t, i, q), h[q][t])
PROOF
  <1>1. PICK n \in Nat : n = Len(MarkerOf(t)) /\ n >= 3
    <2>1. PICK d \in 3 .. 4 : d = Len(MarkerOf(t))
          BY MarkerIs
    <2>2. PICK n \in Nat : n = d
          OBVIOUS
    <2>3. n >= 3
          BY <2>2
    <2> QED
        BY <2>1, <2>2, <2>3
  <1>2. PICK l \in Nat : l = Len(c)
        OBVIOUS
  <1>3. q <= z /\ z <= l + 1
        BY <1>2 DEF First
  <1>4. i \in 1 .. Len(c) + 1 /\ q \in 1 .. Len(c) + 1 /\ q >= 1
        BY <1>2, <1>3
  <1>5. h[i][t] = ThinkIn(c, h, i, t) /\ h[q][t] = ThinkIn(c, h, q, t)
        BY <1>4, ThinkStep
  <1>6. PICK k \in Nat : k = z + n
        OBVIOUS
  <1>7. h[i][t] = IF k <= l + 1 THEN Through(c, h, i, t, z, k) ELSE Stopped(c, i, t, z)
        BY <1>1, <1>2, <1>5, <1>6, ThinkCases
  <1>8. h[q][t] = IF k <= l + 1 THEN Through(c, h, q, t, z, k) ELSE Stopped(c, q, t, z)
        BY <1>1, <1>2, <1>4, <1>5, <1>6, ThinkCases
  <1>9. \A j \in 1 .. Len(c) + 1 : \A b \in BOOLEAN : h[j][b] \in Thoughts(S)
        BY ThinkScanTypes DEF Thoughts
  <1>10. PICK v : v = Visible(c, t, i, z)
        OBVIOUS
  <1>11. PICK a \in Seq(S) : a = Visible(c, t, i, q)
    <2>1. q <= Len(c) + 1
          BY <1>4
    <2> QED
        BY <2>1, VisibleIs
  <1>12. PICK b \in Seq(S) : b = Visible(c, t, q, z)
    <2>1. z <= Len(c) + 1
          BY <1>2, <1>3
    <2> QED
        BY <1>3, <1>4, <2>1, VisibleIs
  <1>13. v = a \o b
    <2>1. z <= Len(c) + 1
          BY <1>2, <1>3
    <2>2. Visible(c, t, i, z) = Visible(c, t, i, q) \o Visible(c, t, q, z)
          BY <1>3, <2>1, VisibleJoin
    <2> QED
        BY <1>10, <1>11, <1>12, <2>2
  <1>14. CASE k <= l + 1
    <2>1. k \in 1 .. Len(c) + 1 /\ (~t) \in BOOLEAN
      <3>1. k \in 1 .. l + 1
            BY <1>1, <1>3, <1>4, <1>6, <1>14
      <3>2. (~t) \in BOOLEAN
            OBVIOUS
      <3> QED
          BY <1>2, <3>1, <3>2
    <2>2. PICK r : r = h[k][~t]
          OBVIOUS
    <2>3. r \in Thoughts(S)
          BY <1>9, <2>1, <2>2
    <2>4. h[i][t] = Prefixed(r, v) /\ h[q][t] = Prefixed(r, b)
          BY <1>7, <1>8, <1>10, <1>12, <1>14, <2>2 DEF Through
    <2>5. Shows(Prefixed(r, a \o b), a, Prefixed(r, b))
          BY <2>3, ShowsJoin
    <2> QED
        BY <1>11, <1>13, <2>4, <2>5
  <1>15. CASE ~(k <= l + 1)
    <2>1. h[i][t] = Stopped(c, i, t, z) /\ h[q][t] = Stopped(c, q, t, z)
          BY <1>7, <1>8, <1>15
    <2> QED
      <3>1. h[i][t].text = v /\ h[i][t].utf8 = From(c, z) /\ h[i][t].inThink = t
            BY <1>10, <2>1 DEF Stopped
      <3>2. h[q][t].text = b /\ h[q][t].utf8 = From(c, z) /\ h[q][t].inThink = t
            BY <1>12, <2>1 DEF Stopped
      <3> QED
          BY <1>11, <1>13, <3>1, <3>2, Zenon DEF Shows
  <1> QED
      BY <1>14, <1>15

(* The same text before two scans, of which one goes on where the other stops. *)
LEMMA ShowsMore ==
    ASSUME NEW S, NEW v \in Seq(S), NEW r \in Thoughts(S), NEW x \in Thoughts(S),
           NEW y \in Thoughts(S), Shows(r, x.text, y)
    PROVE  Shows(Prefixed(r, v), Prefixed(x, v).text, y)
PROOF
  <1>1. PICK b \in Seq(S) : b = x.text
        BY DEF Thoughts
  <1>2. PICK d \in Seq(S) : d = y.text
        BY DEF Thoughts
  <1>3. r.text = b \o d /\ r.utf8 = y.utf8 /\ r.inThink = y.inThink
        BY <1>1, <1>2 DEF Shows
  <1>4. (v \o b) \o d = v \o (b \o d)
        BY ConcatAssociative
  <1>5. Prefixed(x, v).text = v \o b
        BY <1>1 DEF Prefixed, Thoughts
  <1>6. Prefixed(r, v).text = v \o (b \o d)
        BY <1>3 DEF Prefixed, Thoughts
  <1>7. Prefixed(r, v).utf8 = y.utf8 /\ Prefixed(r, v).inThink = y.inThink
        BY <1>3 DEF Prefixed, Thoughts
  <1> QED
      BY <1>2, <1>4, <1>5, <1>6, <1>7 DEF Shows

(* What is before a text says nothing of what is held back. *)
LEMMA PrefixedHolds ==
    ASSUME NEW S, NEW v \in Seq(S), NEW x \in Thoughts(S)
    PROVE  Prefixed(x, v).utf8 = x.utf8 /\ Prefixed(x, v).inThink = x.inThink
PROOF
  BY DEF Prefixed, Thoughts

(* More text does not change what is visible before it. *)
LEMMA VisibleMore ==
    ASSUME NEW S, NEW u \in Seq(S), NEW w \in Seq(S), NEW t \in BOOLEAN,
           NEW i \in Nat, i >= 1, NEW q \in Nat, i <= q, q <= Len(u) + 1
    PROVE  Visible(u \o w, t, i, q) = Visible(u, t, i, q)
PROOF
  <1>1. q - 1 \in Nat /\ q - i \in Nat
        OBVIOUS
  <1>2. PICK e \in Nat : e = q - 1
        BY <1>1
  <1>3. PICK d \in Nat : d = q - i
        BY <1>1
  <1>4. e = i + d - 1 /\ e <= Len(u)
        BY <1>2, <1>3
  <1>5. SubSeq(u \o w, i, e) = SubSeq(u, i, e)
        BY <1>4, SubMore
  <1> QED
      BY <1>2, <1>5 DEF Visible

(* The scan at position i of u, by the first position of the marker. *)
Meets(u, t, i, q, k) == i >= 1 /\ First(u, i, MarkerOf(t), q) /\ k = q + Len(MarkerOf(t))

(* One step of the scan for thoughts, where the marker is first at q. *)
LEMMA ThinkMeets ==
    ASSUME NEW S, NEW u \in Seq(S), NEW t \in BOOLEAN, NEW l \in Nat, l = Len(u),
           NEW i \in Nat, NEW q \in Nat, NEW k \in Nat, Meets(u, t, i, q, k), NEW f
    PROVE  ThinkIn(u, f, i, t) = IF k <= l + 1 THEN Through(u, f, i, t, q, k) ELSE Stopped(u, i, t, q)
PROOF
  <1>1. PICK b \in 3 .. 4 : b = Len(MarkerOf(t))
        BY MarkerIs
  <1>2. PICK m \in Nat : m = b
        OBVIOUS
  <1>3. m = Len(MarkerOf(t))
        BY <1>1, <1>2
  <1>4. i >= 1 /\ First(u, i, MarkerOf(t), q) /\ k = q + m
        BY <1>3 DEF Meets
  <1> QED
      BY <1>3, <1>4, ThinkCases

(* More text is scanned with what was held back before it. *)
LEMMA ThinkMore ==
    ASSUME NEW S, NEW u \in Seq(S), NEW w \in Seq(S), NEW f, ThinkScan(u, f),
           NEW h, ThinkScan(u \o w, h)
    PROVE  \A t \in BOOLEAN : \A g : ThinkScan(f[1][t].utf8 \o w, g) =>
               Shows(h[1][t], f[1][t].text, g[1][f[1][t].inThink])
PROOF
  <1> DEFINE Goes(i, t) == \A g : ThinkScan(f[i][t].utf8 \o w, g) =>
                               Shows(h[i][t], f[i][t].text, g[1][f[i][t].inThink])
             T == {i \in Nat : \A t \in BOOLEAN : Goes(i, t)}
  <1>1. PICK l \in Nat : l = Len(u)
        OBVIOUS
  <1>2. PICK d \in Nat : d = Len(w)
        OBVIOUS
  <1>3. PICK c : c = u \o w
        OBVIOUS
  <1>4. Both(S, c, u, l, w, d)
        BY <1>1, <1>2, <1>3, MoreIs
  <1>5. c \in Seq(S) /\ Len(c) = l + d
        BY <1>4 DEF Both
  <1>6. PICK n \in Nat : n = l + 1
        OBVIOUS
  <1>7. \A i \in 1 .. l + 1 : \A t \in BOOLEAN : f[i][t] \in Thoughts(S)
        BY <1>1, ThinkScanTypes DEF Thoughts
  <1>8. \A i \in 1 .. l + 1 : \A t \in BOOLEAN : h[i][t] \in Thoughts(S)
    <2>1. \A i \in 1 .. Len(c) + 1 : \A t \in BOOLEAN : h[i][t] \in Thoughts(S)
          BY <1>3, <1>5, ThinkScanTypes DEF Thoughts
    <2>2. \A i \in 1 .. l + 1 : i \in 1 .. Len(c) + 1
          BY <1>5
    <2> QED
        BY <2>1, <2>2
  <1>9. ASSUME NEW i \in Nat, 1 <= i, i <= n, \A j \in Nat : i < j /\ j <= n => j \in T
        PROVE  i \in T
    <2> SUFFICES ASSUME NEW t \in BOOLEAN, NEW g, ThinkScan(f[i][t].utf8 \o w, g)
                 PROVE  Shows(h[i][t], f[i][t].text, g[1][f[i][t].inThink])
        OBVIOUS
    <2>1. f[i][t] = ThinkIn(u, f, i, t)
      <3>1. i \in 1 .. Len(u) + 1
            BY <1>1, <1>6, <1>9
      <3> QED
          BY <3>1, ThinkStep
    <2>2. h[i][t] = ThinkIn(c, h, i, t)
      <3>1. i \in 1 .. Len(c) + 1
            BY <1>5, <1>6, <1>9
      <3> QED
          BY <1>3, <3>1, ThinkStep
    <2>3. PICK m \in Nat : m = Len(MarkerOf(t)) /\ m >= 3
      <3>1. PICK b \in 3 .. 4 : b = Len(MarkerOf(t))
            BY MarkerIs
      <3>2. PICK m \in Nat : m = b
            OBVIOUS
      <3>3. m >= 3
            BY <3>2
      <3> QED
          BY <3>1, <3>2, <3>3
    <2>4. PICK q \in Nat : First(u, i, MarkerOf(t), q)
      <3>1. i <= Len(u) + 1 /\ Len(MarkerOf(t)) \in Nat
            BY <1>1, <1>6, <1>9, <2>3
      <3> QED
          BY <3>1, FirstExists
    <2>5. i <= q /\ q <= l + 1
          BY <1>1, <2>4 DEF First
    <2>6. i >= 1 /\ q <= Len(u) + 1 /\ i <= q
          BY <1>1, <1>9, <2>5
    <2>7. PICK k \in Nat : k = q + m
          OBVIOUS
    <2>8. ThinkIn(u, f, i, t) = IF k <= l + 1 THEN Through(u, f, i, t, q, k) ELSE Stopped(u, i, t, q)
      <3>1. l = Len(u)
            BY <1>1
      <3>2. Meets(u, t, i, q, k)
            BY <2>3, <2>4, <2>6, <2>7 DEF Meets
      <3> QED
          BY <3>1, <3>2, ThinkMeets
    <2>9. PICK v \in Seq(S) : v = Visible(u, t, i, q)
          BY <2>6, VisibleIs
    <2>10. Visible(c, t, i, q) = v
          BY <1>3, <2>6, <2>9, VisibleMore
    <2>11. CASE k <= l + 1
      <3>1. First(c, i, MarkerOf(t), q)
        <4>1. q + m - 1 <= l
              BY <2>7, <2>11
        <4> QED
            BY <1>4, <2>3, <2>4, <2>6, <4>1, FirstMore
      <3>2. PICK e \in Nat : e = Len(c)
            BY <1>5
      <3>3. ThinkIn(c, h, i, t) = Through(c, h, i, t, q, k)
        <4>1. k <= e + 1
              BY <1>5, <2>11, <3>2
        <4>2. ThinkIn(c, h, i, t) = IF k <= e + 1 THEN Through(c, h, i, t, q, k) ELSE Stopped(c, i, t, q)
          <5>1. c \in Seq(S)
                BY <1>5
          <5>2. Meets(c, t, i, q, k)
                BY <2>3, <2>6, <2>7, <3>1 DEF Meets
          <5> QED
              BY <3>2, <5>1, <5>2, ThinkMeets
        <4> QED
            BY <4>1, <4>2
      <3>4. PICK b \in BOOLEAN : b = ~t
            OBVIOUS
      <3>5. f[i][t] = Prefixed(f[k][b], v) /\ h[i][t] = Prefixed(h[k][b], v)
            BY <2>1, <2>2, <2>8, <2>9, <2>10, <2>11, <3>3, <3>4 DEF Through
      <3>6. i < k /\ k <= n /\ k \in 1 .. l + 1
            BY <1>6, <1>9, <2>3, <2>5, <2>7, <2>11
      <3>7. k \in T
            BY <1>9, <3>6
      <3>8. f[k][b] \in Thoughts(S) /\ h[k][b] \in Thoughts(S)
            BY <1>7, <1>8, <3>6
      <3>9. f[i][t].utf8 = f[k][b].utf8 /\ f[i][t].inThink = f[k][b].inThink
            BY <3>5, <3>8, PrefixedHolds
      <3>10. Shows(h[k][b], f[k][b].text, g[1][f[k][b].inThink])
        <4>1. ThinkScan(f[k][b].utf8 \o w, g)
              BY <3>9
        <4> QED
            BY <3>7, <4>1
      <3>11. g[1][f[k][b].inThink] \in Thoughts(S)
        <4>1. PICK y \in Seq(S) : y = f[i][t].utf8 \o w
          <5>1. f[i][t].utf8 \in Seq(S)
                BY <3>8, <3>9 DEF Thoughts
          <5> QED
              BY <5>1, ConcatProperties
        <4>2. 1 \in 1 .. Len(y) + 1 /\ f[k][b].inThink \in BOOLEAN
              BY <3>8 DEF Thoughts
        <4>3. ThinkScan(y, g)
              BY <4>1
        <4> QED
            BY <4>2, <4>3, ThinkScanTypes DEF Thoughts
      <3> QED
          BY <3>5, <3>8, <3>9, <3>10, <3>11, ShowsMore
    <2>12. CASE ~(k <= l + 1)
      <3>1. f[i][t] = Stopped(u, i, t, q)
            BY <2>1, <2>8, <2>12
      <3>2. f[i][t].text = v /\ f[i][t].utf8 = From(u, q) /\ f[i][t].inThink = t
            BY <2>9, <3>1 DEF Stopped
      <3>3. q >= 1
            BY <2>6
      <3>4. From(u, q) \o w = From(c, q)
            BY <1>3, <2>6, <3>3, RestMore
      <3>5. PICK e \in Nat : e = l + d - q + 1
        <4>1. l + d - q + 1 \in Nat
              BY <2>5
        <4> QED
            BY <4>1
      <3>6. RestOf(S, c, q, e)
        <4>1. Len(c) = q + e - 1
              BY <1>5, <3>5
        <4> QED
            BY <1>5, <3>3, <4>1 DEF RestOf
      <3>7. g[1][t] = h[q][t]
        <4>1. ThinkScan(c, h) /\ ThinkScan(From(c, q), g)
              BY <1>3, <3>2, <3>4
        <4> QED
            BY <3>6, <4>1, ThinkShift
      <3>8. PICK z \in Nat : First(c, i, MarkerOf(t), z)
        <4>1. i <= Len(c) + 1 /\ Len(MarkerOf(t)) \in Nat
              BY <1>5, <1>6, <1>9, <2>3
        <4> QED
            BY <1>5, <4>1, FirstExists
      <3>9. First(c, q, MarkerOf(t), z)
            BY <1>4, <2>3, <2>4, <2>6, <3>8, FirstMore
      <3>10. Shows(h[i][t], Visible(c, t, i, q), h[q][t])
        <4>1. ThinkScan(c, h)
              BY <1>3
        <4> QED
            BY <1>5, <2>6, <3>8, <3>9, <4>1, ThinkSkip
      <3> QED
          BY <2>10, <3>2, <3>7, <3>10
    <2> QED
        BY <2>11, <2>12
  <1> HIDE DEF T
  <1>10. \A i \in Nat : 1 <= i /\ i <= n => i \in T
         BY <1>9, Downwards
  <1>11. 1 \in T
         BY <1>6, <1>10
  <1> QED
      BY <1>11 DEF T

-----------------------------------------------------------------------------
(***************************************************************************)
(* A text in two pieces: where it is cut.                                  *)
(***************************************************************************)

(* Two texts are the same up to i. *)
Alike(x, y, i) == \A k \in 1 .. i : x[k] = y[k]

(* A text and the same with more behind it are the same up to its end. *)
LEMMA AlikeMore ==
    ASSUME NEW S, NEW x \in Seq(S), NEW w \in Seq(S), NEW i \in Nat, i <= Len(x)
    PROVE  Alike(x \o w, x, i)
PROOF
  <1>1. PICK n \in Nat : n = Len(x)
        OBVIOUS
  <1>2. PICK m \in Nat : m = Len(w)
        OBVIOUS
  <1>3. Both(S, x \o w, x, n, w, m)
        BY <1>1, <1>2, MoreIs
  <1>4. \A k \in 1 .. n : x[k] = (x \o w)[1 + k - 1]
        BY <1>3 DEF Both, PartAt
  <1>5. \A k \in 1 .. i : k \in 1 .. n /\ 1 + k - 1 = k
        BY <1>1
  <1> QED
      BY <1>4, <1>5 DEF Alike

(* Whether there may be a delimiter depends on the text up to it. *)
LEMMA CandidateMore ==
    ASSUME NEW S, NEW x \in Seq(S), NEW w \in Seq(S), NEW i \in Nat, i >= 1, i <= Len(x)
    PROVE  IsCandidate(x \o w, i) <=> IsCandidate(x, i)
PROOF
  <1>1. PICK y : y = x \o w
        OBVIOUS
  <1>2. y[i] = x[i]
        BY <1>1, AlikeMore DEF Alike
  <1>3. ASSUME i > 2 PROVE SubSeq(y, i - 2, i) = SubSeq(x, i - 2, i)
    <2>1. i - 2 \in Nat
          BY <1>3
    <2>2. PICK j \in Nat : j = i - 2
          BY <2>1
    <2>3. PICK d \in Nat : d = 3
          OBVIOUS
    <2>4. j >= 1 /\ i = j + d - 1
          BY <1>3, <2>2, <2>3
    <2>5. SubSeq(x \o w, j, i) = SubSeq(x, j, i)
          BY <2>4, SubMore
    <2> QED
        BY <1>1, <2>2, <2>5
  <1> QED
      BY <1>1, <1>2, <1>3 DEF IsCandidate

(* So does whether a period there is behind an initial. *)
LEMMA InitialAlike ==
    ASSUME NEW x, NEW y, NEW i \in Nat, i >= 1, Alike(y, x, i)
    PROVE  IsSingleLetterInitial(y, i) <=> IsSingleLetterInitial(x, i)
PROOF
  <1>1. i > 1 => y[i - 1] = x[i - 1]
        BY DEF Alike
  <1>2. i > 2 => y[i - 2] = x[i - 2]
        BY DEF Alike
  <1> QED
      BY <1>1, <1>2 DEF IsSingleLetterInitial

(* All elements of a part are in a set. *)
AllIn(x, a, b, T) == \A k \in a .. b : x[k] \in T

(* Texts that are alike have the same parts in a set. *)
LEMMA AllAlike ==
    ASSUME NEW x, NEW y, NEW i \in Nat, Alike(y, x, i),
           NEW a \in 1 .. i, NEW d \in 1 .. i
    PROVE  \A T : AllIn(y, a, d - 1, T) <=> AllIn(x, a, d - 1, T)
PROOF
  <1>1. \A k \in a .. d - 1 : k \in 1 .. i
        OBVIOUS
  <1>2. \A k \in a .. d - 1 : y[k] = x[k]
        BY <1>1 DEF Alike
  <1> QED
      BY <1>2 DEF AllIn

(* The digits of d and the blanks of b begin a line. *)
Lists(x, i, d, b) ==
    /\ b <= d /\ d < i /\ AllIn(x, d, i - 1, Digits) /\ AllIn(x, b, d - 1, {Blank})
    /\ b = 1 \/ x[b - 1] = "\n"

(* A list marker, in these words. *)
LEMMA ListMarkerIs ==
    ASSUME NEW x, NEW i
    PROVE  IsListMarker(x, i) <=> \E d, b \in 1 .. i : Lists(x, i, d, b)
PROOF
  <1>1. \A d, b : AllIn(x, b, d - 1, {Blank}) <=> \A k \in b .. d - 1 : x[k] = Blank
        BY DEF AllIn
  <1>2. \A d : AllIn(x, d, i - 1, Digits) <=> \A k \in d .. i - 1 : x[k] \in Digits
        BY DEF AllIn
  <1>3. ASSUME NEW d \in 1 .. i, NEW b \in 1 .. i
        PROVE  Lists(x, i, d, b) <=>
                   /\ b <= d /\ d < i
                   /\ \A k \in d .. i - 1 : x[k] \in Digits
                   /\ \A k \in b .. d - 1 : x[k] = Blank
                   /\ b = 1 \/ x[b - 1] = "\n"
        BY <1>1, <1>2 DEF Lists
  <1> QED
      BY Zenon, <1>3 DEF IsListMarker, Blank

(* So does whether it is behind the number of a list. *)
LEMMA ListAlike ==
    ASSUME NEW x, NEW y, NEW i \in Nat, Alike(y, x, i)
    PROVE  IsListMarker(y, i) <=> IsListMarker(x, i)
PROOF
  <1>1. ASSUME NEW d \in 1 .. i, NEW b \in 1 .. i PROVE Lists(y, i, d, b) <=> Lists(x, i, d, b)
    <2>1. i \in 1 .. i
          OBVIOUS
    <2>2. AllIn(y, d, i - 1, Digits) <=> AllIn(x, d, i - 1, Digits)
          BY <2>1, AllAlike
    <2>3. AllIn(y, b, d - 1, {Blank}) <=> AllIn(x, b, d - 1, {Blank})
          BY AllAlike
    <2>4. b = 1 \/ y[b - 1] = x[b - 1]
      <3>1. b = 1 \/ b - 1 \in 1 .. i
            OBVIOUS
      <3> QED
          BY <3>1 DEF Alike
    <2> QED
        BY <2>2, <2>3, <2>4 DEF Lists
  <1> QED
      BY <1>1, ListMarkerIs, Zenon

(* So does whether it is the one of an abbreviation. *)
LEMMA AbbreviationAlike ==
    ASSUME NEW x, NEW y, NEW i \in Nat, Alike(y, x, i)
    PROVE  IsAbbreviation(y, i) <=> IsAbbreviation(x, i)
PROOF
  <1> DEFINE Is(z, abbr) ==
                 LET start == i - Len(abbr) + 1
                 IN  /\ start >= 1
                     /\ start > 1 => z[start - 1] \notin Letters \cup Digits
                     /\ \A k \in 1 .. Len(abbr) : Upper(z[start + k - 1]) = abbr[k]
  <1>1. ASSUME NEW abbr \in Abbreviations PROVE Is(y, abbr) <=> Is(x, abbr)
    <2>1. abbr \in Seq(STRING)
          BY SegmenterAssumption DEF SegmenterAssumption
    <2>2. PICK l \in Nat : l = Len(abbr)
          BY <2>1
    <2>3. CASE i - l + 1 >= 1
      <3>1. PICK start \in Nat : start = i - l + 1 /\ start >= 1
            BY <2>3
      <3>2. start > 1 => y[start - 1] = x[start - 1]
        <4>1. start > 1 => start - 1 \in 1 .. i
              BY <3>1
        <4> QED
            BY <4>1 DEF Alike
      <3>3. \A k \in 1 .. l : y[start + k - 1] = x[start + k - 1]
        <4>1. \A k \in 1 .. l : start + k - 1 \in 1 .. i
              BY <3>1
        <4> QED
            BY <4>1 DEF Alike
      <3> QED
          BY <2>2, <3>1, <3>2, <3>3
    <2>4. CASE ~(i - l + 1 >= 1)
          BY <2>2, <2>4
    <2> QED
        BY <2>3, <2>4
  <1>2. IsAbbreviation(x, i) <=> \E abbr \in Abbreviations : Is(x, abbr)
        BY DEF IsAbbreviation
  <1>3. IsAbbreviation(y, i) <=> \E abbr \in Abbreviations : Is(y, abbr)
        BY DEF IsAbbreviation
  <1> HIDE DEF Is
  <1> QED
      BY <1>1, <1>2, <1>3

(* The scan stops at position i of the text. *)
Stop(text, i) == IsCandidate(text, i) /\ (IsUndecided(text, i) \/ EndsSentence(text, i))

(* Whether it does is decided by the byte behind; a line break decides itself. *)
Decided(text, i) == i < Len(text) \/ text[i] = "\n"

(* More text behind changes no stop that is decided, and an undecided one is at the end. *)
LEMMA StopMore ==
    ASSUME NEW S, NEW x \in Seq(S), NEW w \in Seq(S), NEW i \in Nat, i >= 1, i <= Len(x)
    PROVE  /\ Decided(x, i) => /\ Stop(x \o w, i) <=> Stop(x, i)
                               /\ ~IsUndecided(x \o w, i) /\ ~IsUndecided(x, i)
           /\ ~Decided(x, i) => /\ i = Len(x) /\ IsUndecided(x, i)
                                /\ Stop(x \o w, i) => Stop(x, i)
PROOF
  <1>1. PICK y : y = x \o w
        OBVIOUS
  <1>2. PICK n \in Nat : n = Len(x)
        OBVIOUS
  <1>3. PICK m \in Nat : m = Len(w)
        OBVIOUS
  <1>4. Len(y) = n + m
        BY <1>1, <1>2, <1>3, ConcatProperties
  <1>5. Alike(y, x, i)
        BY <1>1, AlikeMore
  <1>6. y[i] = x[i]
        BY <1>5 DEF Alike
  <1>7. IsCandidate(y, i) <=> IsCandidate(x, i)
        BY <1>1, CandidateMore
  <1>8. ~IsUndecided(x, i) <=> Decided(x, i)
        BY <1>2 DEF IsUndecided, Decided
  <1>9. ASSUME Decided(x, i) PROVE ~IsUndecided(y, i)
        BY <1>2, <1>4, <1>6, <1>9 DEF IsUndecided, Decided
  <1>10. ASSUME i < n PROVE EndsSentence(y, i) <=> EndsSentence(x, i)
    <2>1. i + 1 \in Nat /\ i + 1 <= n /\ i < n + m
          BY <1>10
    <2>2. Alike(y, x, i + 1)
          BY <1>1, <1>2, <2>1, AlikeMore
    <2>3. y[i + 1] = x[i + 1]
          BY <2>1, <2>2 DEF Alike
    <2>4. /\ IsSingleLetterInitial(y, i) <=> IsSingleLetterInitial(x, i)
          /\ IsListMarker(y, i) <=> IsListMarker(x, i)
          /\ IsAbbreviation(y, i) <=> IsAbbreviation(x, i)
          BY <1>5, InitialAlike, ListAlike, AbbreviationAlike
    <2> QED
        BY <1>2, <1>4, <1>6, <1>10, <2>1, <2>3, <2>4 DEF EndsSentence
  <1>11. ASSUME x[i] = "\n" PROVE EndsSentence(y, i) /\ EndsSentence(x, i)
        BY <1>6, <1>11 DEF EndsSentence
  <1>12. ASSUME Decided(x, i) PROVE Stop(y, i) <=> Stop(x, i)
        BY <1>2, <1>7, <1>8, <1>9, <1>10, <1>11, <1>12 DEF Decided, Stop
  <1>13. ASSUME ~Decided(x, i) PROVE i = n /\ IsUndecided(x, i) /\ (Stop(y, i) => Stop(x, i))
    <2>1. i = n
          BY <1>2, <1>13 DEF Decided
    <2> QED
        BY <1>7, <1>8, <1>13, <2>1 DEF Stop
  <1> QED
      BY <1>1, <1>2, <1>8, <1>9, <1>12, <1>13

(* m is the first position behind k where the scan stops, or behind the text. *)
Halts(x, k, m) ==
    /\ k < m /\ m <= Len(x) + 1
    /\ \A i \in Nat : k < i /\ i < m => ~Stop(x, i)
    /\ m <= Len(x) => Stop(x, m)

(* What findSentenceEnd returns then. *)
FindAt(x, m) == [end |-> IF m <= Len(x) /\ ~IsUndecided(x, m) THEN m ELSE 0, scanned |-> m - 1]

(* There is such a position. *)
LEMMA HaltExists ==
    ASSUME NEW S, NEW x \in Seq(S), NEW k \in Nat, k <= Len(x)
    PROVE  \E m \in Nat : Halts(x, k, m)
PROOF
  <1>1. PICK n \in Nat : n = Len(x) + 1
        OBVIOUS
  <1> DEFINE T == {i \in Nat : k < i /\ i <= n /\ (i < n => Stop(x, i))}
  <1>2. T \subseteq Nat /\ T # {}
    <2>1. n \in T
          BY <1>1
    <2> QED
        BY <2>1
  <1>3. PICK m \in T : \A j \in T : m <= j
    <2> HIDE DEF T
    <2> QED
        BY <1>2, LeastNumber
  <1>4. m \in Nat /\ k < m /\ m <= n /\ (m < n => Stop(x, m))
        OBVIOUS
  <1>5. ASSUME NEW i \in Nat, k < i, i < m PROVE ~Stop(x, i)
    <2>1. i \notin T
          BY <1>3, <1>4, <1>5
    <2> QED
        BY <1>4, <1>5, <2>1
  <1> HIDE DEF T
  <1>6. m <= Len(x) => m < n
        BY <1>1, <1>4
  <1> QED
      BY <1>1, <1>4, <1>5, <1>6 DEF Halts

(* It decides what findSentenceEnd returns. *)
LEMMA FindHalts ==
    ASSUME NEW S, NEW x \in Seq(S), NEW k \in Nat, NEW m \in Nat, Halts(x, k, m)
    PROVE  FindSentenceEnd(x, k) = FindAt(x, m)
PROOF
  <1>1. PICK n \in Nat : n = Len(x)
        OBVIOUS
  <1> DEFINE stops == {i \in k + 1 .. n : IsCandidate(x, i) /\ (IsUndecided(x, i) \/ EndsSentence(x, i))}
  <1>2. stops = {i \in k + 1 .. n : Stop(x, i)}
        BY DEF Stop
  <1>3. FindSentenceEnd(x, k) =
            IF stops = {}
            THEN [end |-> 0, scanned |-> n]
            ELSE [end |-> IF IsUndecided(x, Min(stops)) THEN 0 ELSE Min(stops),
                  scanned |-> Min(stops) - 1]
        BY <1>1 DEF FindSentenceEnd
  <1> HIDE DEF stops
  <1>4. /\ k < m /\ m <= n + 1
        /\ m <= n => Stop(x, m)
        /\ \A i \in Nat : k < i /\ i < m => ~Stop(x, i)
        BY <1>1 DEF Halts
  <1>5. stops \subseteq Nat
    <2>1. k + 1 .. n \subseteq Nat
          OBVIOUS
    <2> QED
        BY <1>2, <2>1
  <1>6. \A i \in stops : m <= i
    <2> SUFFICES ASSUME NEW i \in stops, ~(m <= i) PROVE FALSE
        OBVIOUS
    <2>1. i \in k + 1 .. n /\ Stop(x, i)
          BY <1>2
    <2>2. i \in Nat /\ k < i /\ i < m
          BY <2>1
    <2> QED
        BY <1>4, <2>1, <2>2
  <1>7. CASE m <= n
    <2>1. m \in stops
      <3>1. m \in k + 1 .. n
            BY <1>4, <1>7
      <3> QED
          BY <1>2, <1>4, <1>7, <3>1
    <2>2. Min(stops) \in stops /\ \A i \in stops : Min(stops) <= i
          BY <1>5, <2>1, MinIs
    <2>3. Min(stops) \in Nat /\ Min(stops) <= m /\ m <= Min(stops)
          BY <1>5, <1>6, <2>1, <2>2
    <2>4. PICK z \in Nat : z = Min(stops)
          BY <2>3
    <2>5. z = m
          BY <2>3, <2>4
    <2>6. stops # {} /\ Min(stops) = m
          BY <2>1, <2>4, <2>5
    <2>7. FindSentenceEnd(x, k) = [end |-> IF IsUndecided(x, m) THEN 0 ELSE m, scanned |-> m - 1]
          BY <1>3, <2>6
    <2>8. (IF IsUndecided(x, m) THEN 0 ELSE m) = IF m <= Len(x) /\ ~IsUndecided(x, m) THEN m ELSE 0
          BY <1>1, <1>7
    <2> QED
        BY <2>7, <2>8 DEF FindAt
  <1>8. CASE ~(m <= n)
    <2>1. m = n + 1 /\ m - 1 = n
          BY <1>4, <1>8
    <2>2. stops = {}
      <3> SUFFICES ASSUME NEW i \in stops PROVE FALSE
          OBVIOUS
      <3>1. i \in k + 1 .. n /\ m <= i
            BY <1>2, <1>6
      <3> QED
          BY <2>1, <3>1
    <2>3. FindSentenceEnd(x, k) = [end |-> 0, scanned |-> n]
          BY <1>3, <2>2
    <2>4. FindAt(x, m) = [end |-> 0, scanned |-> n]
          BY <1>1, <1>8, <2>1 DEF FindAt
    <2> QED
        BY <2>3, <2>4
  <1> QED
      BY <1>7, <1>8

(* Where a text is cut, it is cut with more behind it; where it is not, the scan
   of both goes on where that of the text stopped. *)
LEMMA FindMore ==
    ASSUME NEW S, NEW x \in Seq(S), NEW w \in Seq(S), NEW k \in Nat, k <= Len(x)
    PROVE  LET r == FindSentenceEnd(x, k)
               q == FindSentenceEnd(x \o w, k)
           IN  /\ r.end \in Nat /\ r.end <= Len(x) /\ r.scanned \in Nat /\ r.scanned <= Len(x)
               /\ r.end # 0 => q.end = r.end
               /\ r.end = 0 => q = FindSentenceEnd(x \o w, r.scanned)
PROOF
  <1>1. PICK y : y = x \o w
        OBVIOUS
  <1>2. PICK n \in Nat : n = Len(x)
        OBVIOUS
  <1>3. PICK l \in Nat : l = Len(w)
        OBVIOUS
  <1>4. y \in Seq(S) /\ Len(y) = n + l
        BY <1>1, <1>2, <1>3, ConcatProperties
  <1>5. PICK m \in Nat : Halts(x, k, m)
        BY HaltExists
  <1>6. PICK r : r = FindSentenceEnd(x, k)
        OBVIOUS
  <1>7. r = FindAt(x, m)
        BY <1>5, <1>6, FindHalts
  <1>8. k < m /\ m <= n + 1 /\ (m <= n => Stop(x, m)) /\ \A i \in Nat : k < i /\ i < m => ~Stop(x, i)
        BY <1>2, <1>5 DEF Halts
  <1>9. /\ r.end = IF m <= n /\ ~IsUndecided(x, m) THEN m ELSE 0
        /\ r.scanned = m - 1
        BY <1>2, <1>7 DEF FindAt
  <1>10. m - 1 \in Nat /\ m - 1 <= n
         BY <1>8
  <1>11. r.end \in Nat /\ r.end <= n /\ r.scanned \in Nat /\ r.scanned <= n
         BY <1>8, <1>9, <1>10
  <1>12. \A i \in Nat : k < i /\ i < m => ~Stop(y, i)
    <2> SUFFICES ASSUME NEW i \in Nat, k < i, i < m PROVE ~Stop(y, i)
        OBVIOUS
    <2>1. i >= 1 /\ i <= Len(x)
          BY <1>2, <1>8
    <2>2. ~Stop(x, i)
          BY <1>8
    <2> QED
        BY <1>1, <2>1, <2>2, StopMore
  <1>13. ASSUME r.end # 0 PROVE FindSentenceEnd(y, k).end = r.end
    <2>1. m <= n /\ ~IsUndecided(x, m) /\ r.end = m
          BY <1>9, <1>13
    <2>2. m >= 1 /\ m <= Len(x)
          BY <1>2, <1>8, <2>1
    <2>3. Stop(y, m) /\ ~IsUndecided(y, m)
          BY <1>1, <1>8, <2>1, <2>2, StopMore
    <2>4. Halts(y, k, m)
          BY <1>4, <1>8, <1>12, <2>1, <2>3 DEF Halts
    <2>5. FindSentenceEnd(y, k) = FindAt(y, m)
          BY <1>4, <2>4, FindHalts
    <2>6. m <= Len(y)
          BY <1>4, <2>1
    <2> QED
        BY <2>1, <2>3, <2>5, <2>6 DEF FindAt
  <1>14. ASSUME r.end = 0 PROVE FindSentenceEnd(y, k) = FindSentenceEnd(y, r.scanned)
    <2>1. PICK c \in Nat : c = m - 1
          BY <1>10
    <2>2. k <= Len(y)
          BY <1>2, <1>4
    <2>3. PICK z \in Nat : Halts(y, k, z)
          BY <1>4, <2>2, HaltExists
    <2>4. /\ k < z /\ z <= n + l + 1 /\ (z <= n + l => Stop(y, z))
          /\ \A i \in Nat : k < i /\ i < z => ~Stop(y, i)
          BY <1>4, <2>3 DEF Halts
    <2>5. m <= z
      <3> SUFFICES ASSUME ~(m <= z) PROVE FALSE
          OBVIOUS
      <3>1. z < m /\ z <= n + l
            BY <1>8
      <3>2. Stop(y, z) /\ ~Stop(y, z)
            BY <1>12, <2>4, <3>1
      <3> QED
          BY <3>2
    <2>6. c < z /\ \A i \in Nat : c < i => k < i
          BY <1>8, <2>1, <2>5
    <2>7. \A i \in Nat : c < i /\ i < z => ~Stop(y, i)
          BY <2>4, <2>6
    <2>8. Halts(y, c, z)
          BY <1>4, <2>4, <2>6, <2>7 DEF Halts
    <2>9. FindSentenceEnd(y, k) = FindAt(y, z) /\ FindSentenceEnd(y, c) = FindAt(y, z)
          BY <1>4, <2>3, <2>8, FindHalts
    <2> QED
        BY <1>9, <2>1, <2>9
  <1> QED
      BY <1>1, <1>2, <1>6, <1>11, <1>13, <1>14

(* Induction from the end, down to nothing. *)
LEMMA DownToZero ==
    ASSUME NEW n \in Nat, NEW S,
           \A i \in Nat : i <= n /\ (\A j \in Nat : i < j /\ j <= n => j \in S) => i \in S
    PROVE  \A i \in Nat : i <= n => i \in S
PROOF
  <1>1. ASSUME NEW i \in 0 .. n, \A j \in i + 1 .. n : j \in S PROVE i \in S
    <2>1. \A j \in Nat : i < j /\ j <= n => j \in i + 1 .. n
          OBVIOUS
    <2> QED
        BY <1>1, <2>1
  <1>2. 0 \in Nat
        OBVIOUS
  <1>3. 0 .. n \subseteq S
        BY <1>1, <1>2, DownInduction
  <1> QED
      BY <1>3

(* A text that can be scanned from s.scanned on. *)
Scannable(s) == s.text \in Seq(Bytes) /\ s.scanned \in Nat /\ s.scanned <= Len(s.text)

(* The text behind a position, where its scan starts, and its first sentence. *)
Behind(s, at) == From(s.text, at + 1)
Start(s, at) == IF at = 0 THEN s.scanned ELSE 0
Sentence(text, e) == WithPeriod(Strip(SubSeq(text, 1, e)))

(* The sentences cut off a text, and what is left to be scanned. *)
Cuts == [sentences : Seq(Sentences), text : Seq(Bytes), scanned : Nat]

(* One more sentence in front. *)
Fronted(r, x) == [r EXCEPT !.sentences = <<x>> \o @]

(* One step of the cuts: what is left, or one more sentence. *)
LEMMA CutCases ==
    ASSUME NEW s, NEW f, NEW at, NEW r, r = FindSentenceEnd(Behind(s, at), Start(s, at))
    PROVE  CutAt(s, f, at) =
               IF r.end = 0
               THEN [sentences |-> <<>>, text |-> Behind(s, at), scanned |-> r.scanned]
               ELSE Fronted(f[at + r.end], Sentence(Behind(s, at), r.end))
PROOF
  BY DEF CutAt, Behind, Start, Sentence, Fronted

(* What is behind a position can be scanned from where its scan starts. *)
LEMMA BehindIs ==
    ASSUME NEW s, Scannable(s), NEW at \in Nat, at <= Len(s.text)
    PROVE  /\ Behind(s, at) \in Seq(Bytes) /\ Len(Behind(s, at)) = Len(s.text) - at
           /\ Start(s, at) \in Nat /\ Start(s, at) <= Len(Behind(s, at))
PROOF
  <1>1. s.text \in Seq(Bytes) /\ s.scanned \in Nat /\ s.scanned <= Len(s.text)
        BY DEF Scannable
  <1>2. PICK x \in Seq(Bytes) : x = s.text
        BY <1>1
  <1>3. PICK n \in Nat : n = Len(x)
        OBVIOUS
  <1>4. PICK i \in Nat : i = at + 1
        OBVIOUS
  <1>5. i >= 1
        BY <1>4
  <1>6. From(x, i) \in Seq(Bytes) /\ Len(From(x, i)) = IF i <= Len(x) THEN Len(x) - i + 1 ELSE 0
        BY <1>5, FromIs
  <1>7. Len(From(x, i)) = n - at
        BY <1>2, <1>3, <1>4, <1>6
  <1>8. Behind(s, at) = From(x, i)
        BY <1>2, <1>4 DEF Behind
  <1> QED
      BY <1>1, <1>2, <1>3, <1>6, <1>7, <1>8 DEF Start

(* Where a scan cuts is behind where it started, and within the text. *)
LEMMA FindWithin ==
    ASSUME NEW S, NEW x \in Seq(S), NEW k \in Nat, k <= Len(x)
    PROVE  /\ FindSentenceEnd(x, k).end \in Nat /\ FindSentenceEnd(x, k).end <= Len(x)
           /\ FindSentenceEnd(x, k).scanned \in Nat /\ FindSentenceEnd(x, k).scanned <= Len(x)
PROOF
  <1>1. <<>> \in Seq(S)
        OBVIOUS
  <1> QED
      BY <1>1, FindMore

(* The scan at a position. *)
LEMMA CutStep ==
    ASSUME NEW s, Scannable(s), NEW f, CutScan(s, f), NEW at \in Nat, at <= Len(s.text)
    PROVE  f[at] = CutAt(s, f, at)
PROOF
  <1>1. s.text \in Seq(Bytes)
        BY DEF Scannable
  <1>2. PICK n \in Nat : n = Len(s.text)
        BY <1>1
  <1>3. at \in 0 .. n
        BY <1>2
  <1> QED
      BY <1>2, <1>3 DEF CutScan

(* A sentence that is cut off. *)
LEMMA CutSentence ==
    ASSUME NEW x \in Seq(Bytes), NEW e \in Nat, e <= Len(x)
    PROVE  Sentence(x, e) \in Sentences
PROOF
  <1>1. PICK n \in Nat : n = Len(x)
        OBVIOUS
  <1>2. 1 \in Nat /\ 1 >= 1
        OBVIOUS
  <1>3. SubSeq(x, 1, e) \in Seq(Bytes)
        BY <1>2, PartIs
  <1> QED
      BY <1>3, SentenceIs DEF Sentence

(* What one more sentence in front changes. *)
LEMMA FrontedIs ==
    ASSUME NEW r \in Cuts, NEW x \in Sentences
    PROVE  /\ Fronted(r, x) \in Cuts /\ Fronted(r, x).sentences = <<x>> \o r.sentences
           /\ Fronted(r, x).text = r.text /\ Fronted(r, x).scanned = r.scanned
PROOF
  <1>1. r.sentences \in Seq(Sentences) /\ r.text \in Seq(Bytes) /\ r.scanned \in Nat
        BY DEF Cuts
  <1>2. <<x>> \in Seq(Sentences)
        OBVIOUS
  <1>3. <<x>> \o r.sentences \in Seq(Sentences)
        BY <1>1, <1>2, ConcatProperties
  <1> QED
      BY <1>1, <1>3 DEF Fronted, Cuts

(* The kinds of what is cut; the scan goes on within the text that is left. *)
LEMMA CutKinds ==
    ASSUME NEW s, Scannable(s), NEW f, CutScan(s, f)
    PROVE  \A at \in Nat : at <= Len(s.text) => f[at] \in Cuts /\ f[at].scanned <= Len(f[at].text)
PROOF
  <1>1. s.text \in Seq(Bytes)
        BY DEF Scannable
  <1>2. PICK n \in Nat : n = Len(s.text)
        BY <1>1
  <1> DEFINE T == {at \in Nat : f[at] \in Cuts /\ f[at].scanned <= Len(f[at].text)}
  <1>3. ASSUME NEW at \in Nat, at <= n, \A j \in Nat : at < j /\ j <= n => j \in T
        PROVE  at \in T
    <2>1. PICK y \in Seq(Bytes) : y = Behind(s, at)
          BY <1>2, <1>3, BehindIs
    <2>2. PICK k \in Nat : k = Start(s, at) /\ k <= Len(y)
          BY <1>2, <1>3, <2>1, BehindIs
    <2>3. PICK r : r = FindSentenceEnd(y, k)
          OBVIOUS
    <2>4. r.end \in Nat /\ r.end <= Len(y) /\ r.scanned \in Nat /\ r.scanned <= Len(y)
          BY <2>2, <2>3, FindWithin
    <2>5. PICK e \in Nat : e = r.end
          BY <2>4
    <2>6. Len(y) = n - at
          BY <1>2, <1>3, <2>1, BehindIs
    <2>7. f[at] = IF e = 0 THEN [sentences |-> <<>>, text |-> y, scanned |-> r.scanned]
                  ELSE Fronted(f[at + e], Sentence(y, e))
      <3>1. r = FindSentenceEnd(Behind(s, at), Start(s, at))
            BY <2>1, <2>2, <2>3
      <3>2. f[at] = CutAt(s, f, at)
            BY <1>2, <1>3, CutStep
      <3> QED
          BY <2>1, <2>5, <3>1, <3>2, CutCases
    <2>8. CASE e = 0
      <3>1. f[at] = [sentences |-> <<>>, text |-> y, scanned |-> r.scanned]
            BY <2>7, <2>8
      <3>2. <<>> \in Seq(Sentences)
            OBVIOUS
      <3>3. f[at] \in Cuts /\ f[at].scanned <= Len(f[at].text)
            BY <2>4, <3>1, <3>2 DEF Cuts
      <3> QED
          BY <3>3
    <2>9. CASE e # 0
      <3>1. PICK j \in Nat : j = at + e
            OBVIOUS
      <3>2. at < j /\ j <= n
            BY <2>4, <2>5, <2>6, <2>9, <3>1
      <3>3. f[j] \in Cuts /\ f[j].scanned <= Len(f[j].text)
            BY <1>3, <3>2
      <3>4. Sentence(y, e) \in Sentences
            BY <2>4, <2>5, CutSentence
      <3>5. f[at] = Fronted(f[j], Sentence(y, e))
            BY <2>7, <2>9, <3>1
      <3>6. f[at] \in Cuts /\ f[at].scanned = f[j].scanned /\ f[at].text = f[j].text
            BY <3>3, <3>4, <3>5, FrontedIs, ZenonT(30)
      <3>7. f[at].scanned <= Len(f[at].text)
            BY <3>3, <3>6
      <3> QED
          BY <3>6, <3>7
    <2> QED
        BY <2>8, <2>9
  <1> HIDE DEF T
  <1>4. \A at \in Nat : at <= n => at \in T
        BY <1>3, DownToZero
  <1> QED
      BY <1>2, <1>4 DEF T

(* The cuts of the rest of a text are those of the text, but for the first. *)
LEMMA CutShift ==
    ASSUME NEW s, Scannable(s), NEW f, CutScan(s, f), NEW a \in Nat, a <= Len(s.text),
           NEW q, Scannable(q), q.text = Behind(s, a), NEW g, CutScan(q, g)
    PROVE  \A j \in Nat : 1 <= j /\ j <= Len(q.text) => g[j] = f[a + j]
PROOF
  <1>1. PICK x \in Seq(Bytes) : x = s.text
        BY DEF Scannable
  <1>2. PICK n \in Nat : n = Len(x)
        OBVIOUS
  <1>3. PICK l \in Nat : l = Len(q.text)
    <2>1. q.text \in Seq(Bytes)
          BY DEF Scannable
    <2> QED
        BY <2>1
  <1>4. n = a + l
    <2>1. l = n - a
          BY <1>1, <1>2, <1>3, BehindIs
    <2> QED
        BY <2>1
  <1> DEFINE T == {j \in Nat : g[j] = f[a + j]}
  <1>5. ASSUME NEW j \in Nat, 1 <= j, j <= l, \A i \in Nat : j < i /\ i <= l => i \in T
        PROVE  j \in T
    <2>1. PICK b \in Nat : b = a + j
          OBVIOUS
    <2>2. b <= n /\ b # 0 /\ j # 0
          BY <1>4, <1>5, <2>1
    <2>3. Behind(q, j) = Behind(s, b)
      <3>1. PICK i \in Nat : i = a + 1
            OBVIOUS
      <3>2. PICK c \in Nat : c = j + 1
            OBVIOUS
      <3>3. PICK d \in Nat : d = b + 1
            OBVIOUS
      <3>4. i >= 1 /\ Len(x) = i + l - 1 /\ c >= 1 /\ c <= l + 1 /\ d = i + c - 1
            BY <1>2, <1>4, <1>5, <2>1, <3>1, <3>2, <3>3
      <3>5. From(From(x, i), c) = From(x, d)
            BY <3>4, RestRest
      <3>6. q.text = From(x, i)
            BY <1>1, <3>1 DEF Behind
      <3>7. Behind(q, j) = From(From(x, i), c)
            BY <3>2, <3>6 DEF Behind
      <3>8. Behind(s, b) = From(x, d)
            BY <1>1, <3>3 DEF Behind
      <3> QED
          BY <3>5, <3>7, <3>8
    <2>4. Start(q, j) = 0 /\ Start(s, b) = 0
          BY <2>2 DEF Start
    <2>5. PICK y \in Seq(Bytes) : y = Behind(s, b)
          BY <1>1, <1>2, <2>2, BehindIs
    <2>6. Len(y) = n - b
          BY <1>1, <1>2, <2>2, <2>5, BehindIs
    <2>7. PICK r : r = FindSentenceEnd(y, 0)
          OBVIOUS
    <2>8. PICK e \in Nat : e = r.end /\ e <= Len(y)
      <3>1. 0 \in Nat /\ 0 <= Len(y)
            OBVIOUS
      <3> QED
          BY <2>7, <3>1, FindWithin
    <2>9. g[j] = IF e = 0 THEN [sentences |-> <<>>, text |-> y, scanned |-> r.scanned]
                 ELSE Fronted(g[j + e], Sentence(y, e))
      <3>1. r = FindSentenceEnd(Behind(q, j), Start(q, j))
            BY <2>3, <2>4, <2>5, <2>7
      <3>2. g[j] = CutAt(q, g, j)
            BY <1>3, <1>5, CutStep
      <3> QED
          BY <2>3, <2>5, <2>8, <3>1, <3>2, CutCases
    <2>10. f[b] = IF e = 0 THEN [sentences |-> <<>>, text |-> y, scanned |-> r.scanned]
                  ELSE Fronted(f[b + e], Sentence(y, e))
      <3>1. r = FindSentenceEnd(Behind(s, b), Start(s, b))
            BY <2>4, <2>5, <2>7
      <3>2. f[b] = CutAt(s, f, b)
            BY <1>1, <1>2, <2>2, CutStep
      <3> QED
          BY <2>5, <2>8, <3>1, <3>2, CutCases
    <2>11. CASE e = 0
          BY <2>1, <2>9, <2>10, <2>11
    <2>12. CASE e # 0
      <3>1. PICK i \in Nat : i = j + e
            OBVIOUS
      <3>2. j < i /\ i <= l
            BY <1>4, <2>1, <2>6, <2>8, <2>12, <3>1
      <3>3. g[i] = f[a + i]
            BY <1>5, <3>2
      <3>4. a + i = b + e
            BY <2>1, <3>1
      <3> QED
          BY <2>1, <2>9, <2>10, <2>12, <3>1, <3>3, <3>4
    <2> QED
        BY <2>11, <2>12
  <1> HIDE DEF T
  <1>6. \A j \in Nat : 1 <= j /\ j <= l => j \in T
        BY <1>5, Downwards
  <1> QED
      BY <1>3, <1>6 DEF T

(* The cuts r are the cuts x, and the cuts y of what they leave. *)
Continues(r, x, y) ==
    r.sentences = x.sentences \o y.sentences /\ r.text = y.text /\ r.scanned = y.scanned

(* The text of s with w behind it, scanned as far as that of s. *)
Grown(t, r, w) == Scannable(t) /\ t.text = r.text \o w /\ t.scanned = r.scanned

(* Cuts that continue others still do with one more sentence in front. *)
LEMMA ContinuesFronted ==
    ASSUME NEW r \in Cuts, NEW x \in Cuts, NEW y \in Cuts, Continues(r, x, y),
           NEW z \in Sentences
    PROVE  Continues(Fronted(r, z), Fronted(x, z), y)
PROOF
  <1>1. PICK a \in Seq(Sentences) : a = x.sentences
        BY DEF Cuts
  <1>2. PICK b \in Seq(Sentences) : b = y.sentences
        BY DEF Cuts
  <1>3. PICK c \in Seq(Sentences) : c = <<z>>
    <2>1. <<z>> \in Seq(Sentences)
          OBVIOUS
    <2> QED
        BY <2>1
  <1>4. r.sentences = a \o b /\ r.text = y.text /\ r.scanned = y.scanned
        BY <1>1, <1>2 DEF Continues
  <1>5. (c \o a) \o b = c \o (a \o b)
        BY ConcatAssociative
  <1>6. Fronted(x, z).sentences = c \o a
        BY <1>1, <1>3, FrontedIs
  <1>7. /\ Fronted(r, z).sentences = c \o (a \o b)
        /\ Fronted(r, z).text = y.text /\ Fronted(r, z).scanned = y.scanned
        BY <1>3, <1>4, FrontedIs
  <1> QED
      BY <1>2, <1>5, <1>6, <1>7 DEF Continues

(* What is behind a position of a text goes on with what is behind the text. *)
LEMMA BehindMore ==
    ASSUME NEW s, Scannable(s), NEW w \in Seq(Bytes), NEW t, Grown(t, s, w),
           NEW at \in Nat, at <= Len(s.text)
    PROVE  Behind(t, at) = Behind(s, at) \o w /\ Start(t, at) = Start(s, at)
PROOF
  <1>1. PICK x \in Seq(Bytes) : x = s.text
        BY DEF Scannable
  <1>2. PICK i \in Nat : i = at + 1
        OBVIOUS
  <1>3. i >= 1 /\ i <= Len(x) + 1
        BY <1>1, <1>2
  <1>4. From(x \o w, i) = From(x, i) \o w
        BY <1>3, RestMore
  <1>5. t.text = x \o w /\ t.scanned = s.scanned
        BY <1>1 DEF Grown
  <1> QED
      BY <1>1, <1>2, <1>4, <1>5 DEF Behind, Start

(* The first sentence of a text is that of the text with more behind it. *)
LEMMA SentenceMore ==
    ASSUME NEW x \in Seq(Bytes), NEW w \in Seq(Bytes), NEW e \in Nat, e <= Len(x)
    PROVE  Sentence(x \o w, e) = Sentence(x, e)
PROOF
  <1>1. PICK i \in Nat : i = 1
        OBVIOUS
  <1>2. i >= 1 /\ e = i + e - 1
        BY <1>1
  <1>3. SubSeq(x \o w, i, e) = SubSeq(x, i, e)
        BY <1>2, SubMore
  <1> QED
      BY <1>1, <1>3 DEF Sentence

(* A text that goes on where a scan found no end is cut like both from the start. *)
LEMMA CutResumed ==
    ASSUME NEW t, Scannable(t), NEW h, CutScan(t, h), NEW at \in Nat, at <= Len(t.text),
           NEW q, Scannable(q), q.text = Behind(t, at), NEW g, CutScan(q, g),
           FindSentenceEnd(q.text, Start(t, at)) = FindSentenceEnd(q.text, q.scanned)
    PROVE  g[0] = h[at]
PROOF
  <1>1. PICK y \in Seq(Bytes) : y = q.text
        BY DEF Scannable
  <1>2. PICK k \in Nat : k = Start(t, at) /\ k <= Len(y)
        BY <1>1, BehindIs
  <1>3. PICK p : p = FindSentenceEnd(y, k)
        OBVIOUS
  <1>4. PICK e \in Nat : e = p.end /\ e <= Len(y)
        BY <1>2, <1>3, FindWithin
  <1>5. h[at] = IF e = 0 THEN [sentences |-> <<>>, text |-> y, scanned |-> p.scanned]
                ELSE Fronted(h[at + e], Sentence(y, e))
    <2>1. p = FindSentenceEnd(Behind(t, at), Start(t, at))
          BY <1>1, <1>2, <1>3
    <2>2. h[at] = CutAt(t, h, at)
          BY CutStep
    <2> QED
        BY <1>1, <1>4, <2>1, <2>2, CutCases
  <1>6. Behind(q, 0) = y /\ Start(q, 0) = q.scanned
    <2>1. From(y, 1) = y
          BY WholeIs
    <2>2. 0 + 1 = 1
          OBVIOUS
    <2> QED
        BY <1>1, <2>1, <2>2 DEF Behind, Start
  <1>7. g[0] = IF e = 0 THEN [sentences |-> <<>>, text |-> y, scanned |-> p.scanned]
               ELSE Fronted(g[0 + e], Sentence(y, e))
    <2>1. p = FindSentenceEnd(Behind(q, 0), Start(q, 0))
          BY <1>1, <1>2, <1>3, <1>6
    <2>2. 0 \in Nat /\ 0 <= Len(q.text)
          BY <1>1
    <2>3. g[0] = CutAt(q, g, 0)
          BY <2>2, CutStep
    <2> QED
        BY <1>4, <1>6, <2>1, <2>3, CutCases
  <1>8. CASE e = 0
        BY <1>5, <1>7, <1>8
  <1>9. CASE e # 0
    <2>1. 1 <= e /\ e <= Len(q.text) /\ 0 + e = e
          BY <1>1, <1>4, <1>9
    <2>2. g[e] = h[at + e]
          BY <2>1, CutShift
    <2> QED
        BY <1>5, <1>7, <1>9, <2>1, <2>2
  <1> QED
      BY <1>8, <1>9

(* More text is cut with what was left before it. *)
LEMMA CutMore ==
    ASSUME NEW s, Scannable(s), NEW f, CutScan(s, f), NEW w \in Seq(Bytes),
           NEW t, Grown(t, s, w), NEW h, CutScan(t, h)
    PROVE  \A q, g : Grown(q, f[0], w) /\ CutScan(q, g) => Continues(h[0], f[0], g[0])
PROOF
  <1>1. PICK x \in Seq(Bytes) : x = s.text
        BY DEF Scannable
  <1>2. PICK n \in Nat : n = Len(x)
        OBVIOUS
  <1>3. PICK d \in Nat : d = Len(w)
        OBVIOUS
  <1>4. Scannable(t) /\ Len(t.text) = n + d
        BY <1>1, <1>2, <1>3, ConcatProperties DEF Grown
  <1> DEFINE Goes(at) == \A q, g : Grown(q, f[at], w) /\ CutScan(q, g) => Continues(h[at], f[at], g[0])
             T == {at \in Nat : Goes(at)}
  <1>5. ASSUME NEW at \in Nat, at <= n, \A j \in Nat : at < j /\ j <= n => j \in T
        PROVE  at \in T
    <2> SUFFICES ASSUME NEW q, NEW g, Grown(q, f[at], w), CutScan(q, g)
                 PROVE  Continues(h[at], f[at], g[0])
        OBVIOUS
    <2>1. PICK y \in Seq(Bytes) : y = Behind(s, at)
          BY <1>1, <1>2, <1>5, BehindIs
    <2>2. PICK k \in Nat : k = Start(s, at) /\ k <= Len(y)
          BY <1>1, <1>2, <1>5, <2>1, BehindIs
    <2>3. Len(y) = n - at
          BY <1>1, <1>2, <1>5, <2>1, BehindIs
    <2>4. Behind(t, at) = y \o w /\ Start(t, at) = k
      <3>1. at <= Len(s.text)
            BY <1>1, <1>2, <1>5
      <3>2. Behind(t, at) = Behind(s, at) \o w /\ Start(t, at) = Start(s, at)
            BY <3>1, BehindMore
      <3> QED
          BY <2>1, <2>2, <3>2
    <2>5. PICK r : r = FindSentenceEnd(y, k)
          OBVIOUS
    <2>6. PICK p : p = FindSentenceEnd(y \o w, k)
          OBVIOUS
    <2>7. /\ r.end \in Nat /\ r.end <= Len(y)
          /\ r.end # 0 => p.end = r.end
          /\ r.end = 0 => p = FindSentenceEnd(y \o w, r.scanned)
          BY <2>2, <2>5, <2>6, FindMore
    <2>8. PICK e \in Nat : e = r.end
          BY <2>7
    <2>9. at <= Len(t.text)
          BY <1>4, <1>5
    <2>10. f[at] = IF e = 0 THEN [sentences |-> <<>>, text |-> y, scanned |-> r.scanned]
                   ELSE Fronted(f[at + e], Sentence(y, e))
      <3>1. r = FindSentenceEnd(Behind(s, at), Start(s, at))
            BY <2>1, <2>2, <2>5
      <3>2. f[at] = CutAt(s, f, at)
            BY <1>1, <1>2, <1>5, CutStep
      <3> QED
          BY <2>1, <2>8, <3>1, <3>2, CutCases
    <2>11. CASE e = 0
      <3>1. f[at] = [sentences |-> <<>>, text |-> y, scanned |-> r.scanned]
            BY <2>10, <2>11
      <3>2. Scannable(q) /\ q.text = y \o w /\ q.scanned = r.scanned
            BY <3>1 DEF Grown
      <3>3. FindSentenceEnd(q.text, Start(t, at)) = FindSentenceEnd(q.text, q.scanned)
            BY <2>4, <2>6, <2>7, <2>8, <2>11, <3>2
      <3>4. q.text = Behind(t, at)
            BY <2>4, <3>2
      <3>5. g[0] = h[at]
            BY <1>4, <2>9, <3>2, <3>3, <3>4, CutResumed
      <3>6. g[0] \in Cuts
        <4>1. q.text \in Seq(Bytes)
              BY <3>2 DEF Scannable
        <4>2. 0 \in Nat /\ 0 <= Len(q.text)
              BY <4>1
        <4> QED
            BY <3>2, <4>2, CutKinds
      <3>7. PICK z \in Seq(Sentences) : z = g[0].sentences
            BY <3>6 DEF Cuts
      <3>8. <<>> \o z = z
            OBVIOUS
      <3>9. f[at].sentences = <<>>
            BY <3>1
      <3> QED
          BY <3>5, <3>7, <3>8, <3>9 DEF Continues
    <2>12. CASE e # 0
      <3>1. PICK j \in Nat : j = at + e
            OBVIOUS
      <3>2. at < j /\ j <= n /\ j <= Len(t.text)
            BY <1>4, <2>3, <2>7, <2>8, <2>12, <3>1, SMTT(30)
      <3>3. PICK c \in Sentences : c = Sentence(y, e)
            BY <2>7, <2>8, CutSentence
      <3>4. Sentence(y \o w, e) = c
            BY <2>7, <2>8, <3>3, SentenceMore
      <3>5. f[at] = Fronted(f[j], c)
            BY <2>10, <2>12, <3>1, <3>3
      <3>6. h[at] = Fronted(h[j], c)
        <4>1. p = FindSentenceEnd(Behind(t, at), Start(t, at))
              BY <2>4, <2>6
        <4>2. h[at] = CutAt(t, h, at)
              BY <1>4, <2>9, CutStep
        <4>3. p.end = e
              BY <2>7, <2>8, <2>12
        <4> QED
            BY <2>4, <2>12, <3>1, <3>4, <4>1, <4>2, <4>3, CutCases
      <3>7. f[j] \in Cuts
            BY <1>1, <1>2, <3>2, CutKinds
      <3>8. h[j] \in Cuts
            BY <1>4, <3>2, CutKinds
      <3>9. f[at].text = f[j].text /\ f[at].scanned = f[j].scanned
            BY <3>5, <3>7, FrontedIs, ZenonT(30)
      <3>10. Grown(q, f[j], w)
            BY <3>9 DEF Grown
      <3>11. Continues(h[j], f[j], g[0])
            BY <1>5, <3>2, <3>10
      <3>12. g[0] \in Cuts
        <4>1. Scannable(q)
              BY DEF Grown
        <4>2. q.text \in Seq(Bytes)
              BY <4>1 DEF Scannable
        <4>3. 0 \in Nat /\ 0 <= Len(q.text)
              BY <4>2
        <4> QED
            BY <4>1, <4>3, CutKinds
      <3> QED
          BY <3>5, <3>6, <3>7, <3>8, <3>11, <3>12, ContinuesFronted
    <2> QED
        BY <2>11, <2>12
  <1> HIDE DEF T
  <1>6. \A at \in Nat : at <= n => at \in T
        BY <1>5, DownToZero
  <1>7. 0 \in T
    <2>1. 0 \in Nat /\ 0 <= n
          OBVIOUS
    <2> QED
        BY <1>6, <2>1
  <1> QED
      BY <1>7 DEF T

-----------------------------------------------------------------------------
(***************************************************************************)
(* Sentences in two pieces: what is pushed.                                *)
(***************************************************************************)

Pushes(s, xs) == FoldLeft(PushCoalesced, s, xs)

(* A fold over sentences is the one of emitSentences. *)
LEMMA FoldUnique ==
    ASSUME NEW s, NEW D, NEW xs \in Seq(D), NEW g, Folds("push", g, s, xs)
    PROVE  g[Len(xs)] = Pushes(s, xs)
PROOF
  <1>1. PICK n \in Nat : n = Len(xs)
        OBVIOUS
  <1>2. PICK h : Folds("push", h, s, xs) /\ Pushes(s, xs) = h[Len(xs)]
        BY PushFold DEF Pushes
  <1> DEFINE T == {k \in 0 .. n : g[k] = h[k]}
  <1>3. 0 \in T
        BY <1>2 DEF Folds
  <1>4. ASSUME NEW k \in 1 .. n, k - 1 \in T PROVE k \in T
    <2>1. g[k] = Step("push", g[k - 1], xs[k]) /\ h[k] = Step("push", h[k - 1], xs[k])
          BY <1>1, <1>2 DEF Folds
    <2>2. k \in 0 .. n
          OBVIOUS
    <2> QED
        BY <1>4, <2>1, <2>2
  <1>5. n \in 0 .. n
        OBVIOUS
  <1> HIDE DEF T
  <1>6. n \in T
        BY <1>3, <1>4, <1>5, UpInduction
  <1> QED
      BY <1>1, <1>2, <1>6 DEF T

(* The sentences of two pieces are pushed one after the other. *)
LEMMA PushesBoth ==
    ASSUME NEW s, NEW D, NEW a \in Seq(D), NEW b \in Seq(D)
    PROVE  Pushes(s, a \o b) = Pushes(Pushes(s, a), b)
PROOF
  <1>1. PICK n \in Nat : n = Len(a)
        OBVIOUS
  <1>2. PICK m \in Nat : m = Len(b)
        OBVIOUS
  <1>3. PICK c : c = a \o b
        OBVIOUS
  <1>4. Both(D, c, a, n, b, m)
        BY <1>1, <1>2, <1>3, MoreIs
  <1>5. /\ c \in Seq(D) /\ Len(c) = n + m
        /\ \A k \in 1 .. n : a[k] = c[k]
        /\ \A k \in 1 .. m : b[k] = c[n + k]
    <2>1. /\ \A k \in 1 .. n : a[k] = c[1 + k - 1]
          /\ \A k \in 1 .. m : b[k] = c[n + 1 + k - 1]
          BY <1>4 DEF Both, PartAt
    <2>2. \A k \in 1 .. n : 1 + k - 1 = k
          OBVIOUS
    <2>3. \A k \in 1 .. m : n + 1 + k - 1 = n + k
          OBVIOUS
    <2> QED
        BY <1>4, <2>1, <2>2, <2>3 DEF Both
  <1>6. PICK f : Folds("push", f, s, a) /\ Pushes(s, a) = f[n]
        BY <1>1, PushFold DEF Pushes
  <1>7. PICK g : Folds("push", g, f[n], b) /\ Pushes(f[n], b) = g[m]
        BY <1>2, PushFold DEF Pushes
  <1> DEFINE h == [k \in 0 .. n + m |-> IF k <= n THEN f[k] ELSE g[k - n]]
  <1>8. \A k \in 0 .. n + m : h[k] = IF k <= n THEN f[k] ELSE g[k - n]
        OBVIOUS
  <1> HIDE DEF h
  <1>9. h[0] = s
    <2>1. 0 \in 0 .. n + m /\ 0 <= n
          OBVIOUS
    <2> QED
        BY <1>6, <1>8, <2>1 DEF Folds
  <1>10. ASSUME NEW k \in 1 .. n + m PROVE h[k] = Step("push", h[k - 1], c[k])
    <2>1. PICK j \in 0 .. n + m : j = k - 1 /\ k \in 0 .. n + m
          OBVIOUS
    <2>2. CASE k <= n
      <3>1. k \in 1 .. n /\ j <= n
            BY <2>1, <2>2
      <3>2. f[k] = Step("push", f[j], a[k])
            BY <1>1, <1>6, <2>1, <3>1 DEF Folds
      <3>3. h[k] = f[k] /\ h[j] = f[j]
            BY <1>8, <2>1, <2>2, <3>1
      <3> QED
          BY <1>5, <2>1, <3>1, <3>2, <3>3
    <2>3. CASE ~(k <= n)
      <3>1. PICK i \in 1 .. m : i = k - n
            BY <2>3
      <3>2. n + i = k /\ j - n = i - 1
            BY <2>1, <3>1
      <3>3. g[i] = Step("push", g[i - 1], b[i])
            BY <1>2, <1>7, <3>1 DEF Folds
      <3>4. h[k] = g[i]
            BY <1>8, <2>1, <2>3, <3>1
      <3>5. h[j] = g[i - 1]
        <4>1. CASE j <= n
          <5>1. j = n /\ i - 1 = 0
                BY <2>1, <2>3, <3>1, <4>1
          <5>2. h[j] = f[n]
                BY <1>8, <2>1, <5>1
          <5> QED
              BY <1>7, <5>1, <5>2 DEF Folds
        <4>2. CASE ~(j <= n)
              BY <1>8, <2>1, <3>2, <4>2
        <4> QED
            BY <4>1, <4>2
      <3> QED
          BY <1>5, <2>1, <3>1, <3>2, <3>3, <3>4, <3>5
    <2> QED
        BY <2>2, <2>3
  <1>11. Folds("push", h, s, c)
        BY <1>5, <1>9, <1>10 DEF Folds
  <1>12. h[n + m] = g[m]
    <2>1. n + m \in 0 .. n + m
          OBVIOUS
    <2>2. CASE m = 0
      <3>1. h[n + m] = f[n]
            BY <1>8, <2>1, <2>2
      <3> QED
          BY <1>7, <2>2, <3>1 DEF Folds
    <2>3. CASE m # 0
      <3>1. ~(n + m <= n) /\ n + m - n = m
            BY <2>3
      <3> QED
          BY <1>8, <2>1, <3>1
    <2> QED
        BY <2>2, <2>3
  <1>13. h[Len(c)] = Pushes(s, c)
        BY <1>5, <1>11, FoldUnique
  <1> QED
      BY <1>3, <1>5, <1>6, <1>7, <1>12, <1>13

(* Two states in which the same waits, and the same was pushed. *)
SameOut(q, r) == q.pending = r.pending /\ q.out = r.out

(* What is pushed does not depend on the text. *)
LEMMA PushSameOut ==
    ASSUME NEW q \in States, NEW r \in States, SameOut(q, r), NEW x
    PROVE  SameOut(PushCoalesced(q, x), PushCoalesced(r, x))
PROOF
  <1>1. q.pending = r.pending /\ q.out = r.out
        BY DEF SameOut
  <1>2. PICK text : text = Joined(q.pending, x)
        OBVIOUS
  <1>3. PushCoalesced(q, x) =
            IF x = <<>> THEN q
            ELSE IF Len(text) < config.minSegment THEN [q EXCEPT !.pending = text]
            ELSE [q EXCEPT !.pending = <<>>, !.out = Append(@, text)]
        BY <1>2 DEF PushCoalesced
  <1>4. PushCoalesced(r, x) =
            IF x = <<>> THEN r
            ELSE IF Len(text) < config.minSegment THEN [r EXCEPT !.pending = text]
            ELSE [r EXCEPT !.pending = <<>>, !.out = Append(@, text)]
        BY <1>1, <1>2 DEF PushCoalesced
  <1>5. PICK all : all = Append(q.out, text)
        OBVIOUS
  <1>6. /\ [q EXCEPT !.pending = <<>>, !.out = Append(@, text)] = [q EXCEPT !.pending = <<>>, !.out = all]
        /\ [r EXCEPT !.pending = <<>>, !.out = Append(@, text)] = [r EXCEPT !.pending = <<>>, !.out = all]
        BY <1>1, <1>5 DEF States
  <1>7. CASE x = <<>>
        BY <1>1, <1>3, <1>4, <1>7 DEF SameOut
  <1>8. CASE x # <<>> /\ Len(text) < config.minSegment
        BY <1>1, <1>3, <1>4, <1>8 DEF SameOut, States
  <1>9. CASE x # <<>> /\ ~(Len(text) < config.minSegment)
        BY <1>3, <1>4, <1>6, <1>9 DEF SameOut, States
  <1> QED
      BY <1>7, <1>8, <1>9

(* A sentence behind what waits is a text. *)
LEMMA JoinedText ==
    ASSUME NEW a \in Seq(Chars), NEW b \in Seq(Chars), b # <<>>
    PROVE  Joined(a, b) \in Seq(Chars) \ {<<>>}
PROOF
  <1>1. CASE a = <<>>
        BY <1>1 DEF Joined
  <1>2. CASE a # <<>>
    <2>1. Joined(a, b) = Glued(a, b)
          BY Zenon, <1>2 DEF Joined, Glued, Blank
    <2>2. PICK na \in Nat : na = Len(a)
          OBVIOUS
    <2>3. PICK nb \in Nat : nb = Len(b)
          OBVIOUS
    <2>4. PICK y : y = Glued(a, b)
          OBVIOUS
    <2>5. y \in Seq(Chars) /\ Len(y) = na + nb + 1
          BY <2>2, <2>3, <2>4, JoinIs DEF IsGlued
    <2> QED
        BY <2>1, <2>4, <2>5
  <1> QED
      BY <1>1, <1>2

(* A push touches only what waits and what was pushed. *)
SameRest(q, r) ==
    /\ q.bytes = r.bytes /\ q.utf8 = r.utf8 /\ q.text = r.text
    /\ q.inThink = r.inThink /\ q.scanned = r.scanned

(* A push leaves the buffers alone. *)
LEMMA PushSameRest ==
    ASSUME NEW q \in States, NEW x \in Sentences
    PROVE  PushCoalesced(q, x) \in States /\ SameRest(PushCoalesced(q, x), q)
PROOF
  <1>1. PICK text : text = Joined(q.pending, x)
        OBVIOUS
  <1>2. PICK all : all = Append(q.out, text)
        OBVIOUS
  <1>3. PushCoalesced(q, x) =
            IF x = <<>> THEN q
            ELSE IF Len(text) < config.minSegment THEN [q EXCEPT !.pending = text]
            ELSE [q EXCEPT !.pending = <<>>, !.out = all]
        BY <1>1, <1>2 DEF PushCoalesced, States
  <1>4. CASE x = <<>>
        BY <1>3, <1>4 DEF SameRest
  <1>5. CASE x # <<>>
    <2>1. q.pending \in Seq(Chars) /\ q.out \in Seq(Seq(Chars) \ {<<>>})
          BY DEF States
    <2>2. x \in Seq(Chars) /\ text \in Seq(Chars) \ {<<>>}
          BY <1>1, <1>5, <2>1, SpeakableIs, JoinedText
    <2>3. all \in Seq(Seq(Chars) \ {<<>>})
          BY <1>2, <2>1, <2>2, AppendProperties
    <2>4. <<>> \in Seq(Chars) /\ text \in Seq(Chars)
          BY <2>2
    <2> QED
        BY <1>3, <1>5, <2>3, <2>4 DEF States, SameRest
  <1> QED
      BY <1>4, <1>5

(* So does a fold. *)
LEMMA PushesSame ==
    ASSUME NEW q \in States, NEW r \in States, SameOut(q, r), NEW xs \in Seq(Sentences)
    PROVE  /\ SameOut(Pushes(q, xs), Pushes(r, xs))
           /\ Pushes(q, xs) \in States /\ SameRest(Pushes(q, xs), q)
PROOF
  <1>1. PICK n \in Nat : n = Len(xs)
        OBVIOUS
  <1>2. PICK f : Folds("push", f, q, xs) /\ Pushes(q, xs) = f[n]
        BY <1>1, PushFold DEF Pushes
  <1>3. PICK g : Folds("push", g, r, xs) /\ Pushes(r, xs) = g[n]
        BY <1>1, PushFold DEF Pushes
  <1> DEFINE T == {k \in 0 .. n : /\ f[k] \in States /\ g[k] \in States
                                  /\ SameOut(f[k], g[k]) /\ SameRest(f[k], q)}
  <1>4. 0 \in T
        BY <1>2, <1>3 DEF Folds, SameRest
  <1>5. ASSUME NEW k \in 1 .. n, k - 1 \in T PROVE k \in T
    <2>1. PICK y : y = f[k - 1]
          OBVIOUS
    <2>2. PICK z : z = g[k - 1]
          OBVIOUS
    <2>3. y \in States /\ z \in States /\ SameOut(y, z) /\ SameRest(y, q)
          BY <1>5, <2>1, <2>2
    <2>4. f[k] = PushCoalesced(y, xs[k]) /\ g[k] = PushCoalesced(z, xs[k])
          BY <1>1, <1>2, <1>3, <2>1, <2>2 DEF Folds, Step
    <2>5. xs[k] \in Sentences
          BY <1>1
    <2>6. SameOut(f[k], g[k])
          BY <2>3, <2>4, PushSameOut
    <2>7. f[k] \in States /\ SameRest(f[k], y) /\ g[k] \in States
          BY <2>3, <2>4, <2>5, PushSameRest
    <2>8. SameRest(f[k], q)
          BY <2>3, <2>7 DEF SameRest
    <2>9. k \in 0 .. n
          OBVIOUS
    <2> QED
        BY <2>6, <2>7, <2>8, <2>9
  <1>6. n \in 0 .. n
        OBVIOUS
  <1> HIDE DEF T
  <1>7. n \in T
        BY <1>4, <1>5, <1>6, UpInduction
  <1> QED
      BY <1>2, <1>3, <1>7 DEF T

-----------------------------------------------------------------------------
(***************************************************************************)
(* A round of the loop with two pieces.                                    *)
(***************************************************************************)

(* accumulateUtf8Pieces, by its scan. *)
LEMMA AccumulateGives ==
    ASSUME NEW s \in States
    PROVE  LET r == AccumulateUtf8Pieces(s)
           IN  \E f : /\ Utf8Scan(s.bytes, f) /\ r.bytes = f[1].bytes
                      /\ r.utf8 = s.utf8 \o f[1].utf8
PROOF
  <1> DEFINE f == CHOOSE g : Utf8Scan(s.bytes, g)
             r == AccumulateUtf8Pieces(s)
  <1>1. s.bytes \in Seq(Bytes)
        BY DEF States
  <1>2. Utf8Scan(s.bytes, f)
        BY <1>1, Utf8Exists
  <1>3. r = [s EXCEPT !.bytes = f[1].bytes, !.utf8 = @ \o f[1].utf8]
        BY AccumulateIs
  <1> HIDE DEF f, r
  <1>4. PICK u : u = s.utf8 \o f[1].utf8
        OBVIOUS
  <1>5. r = [s EXCEPT !.bytes = f[1].bytes, !.utf8 = u]
        BY <1>3, <1>4 DEF States
  <1>6. r.bytes = f[1].bytes /\ r.utf8 = u
        BY <1>5 DEF States
  <1> QED
      BY <1>2, <1>4, <1>6 DEF r

(* removeThinking, by its scan. *)
LEMMA ThinkGives ==
    ASSUME NEW s \in States
    PROVE  LET r == RemoveThinking(s)
           IN  \E f : /\ ThinkScan(s.utf8, f) /\ r.utf8 = f[1][s.inThink].utf8
                      /\ r.inThink = f[1][s.inThink].inThink
                      /\ r.text = s.text \o f[1][s.inThink].text
PROOF
  <1> DEFINE f == CHOOSE g : ThinkScan(s.utf8, g)
             r == RemoveThinking(s)
  <1>1. s.utf8 \in Seq(Bytes)
        BY DEF States
  <1>2. ThinkScan(s.utf8, f)
        BY <1>1, ThinkExists
  <1>3. PICK q : q = f[1][s.inThink]
        OBVIOUS
  <1>4. r = [s EXCEPT !.utf8 = q.utf8, !.text = @ \o q.text, !.inThink = q.inThink]
        BY <1>3, ThinkIs
  <1> HIDE DEF f, r
  <1>5. PICK u : u = s.text \o q.text
        OBVIOUS
  <1>6. r = [s EXCEPT !.utf8 = q.utf8, !.text = u, !.inThink = q.inThink]
        BY <1>4, <1>5 DEF States
  <1>7. r.utf8 = q.utf8 /\ r.text = u /\ r.inThink = q.inThink
        BY <1>6 DEF States
  <1> QED
      BY <1>2, <1>3, <1>5, <1>7 DEF r

(* A Segmenter whose text was scanned as far as it says. *)
Cuttable(s) ==
    /\ s \in States /\ s.scanned <= Len(s.text) /\ Checked(s.text, s.scanned)
    /\ config.minSentence \in Nat

(* emitSentences, by its cuts. *)
LEMMA EmitGives ==
    ASSUME NEW s, Cuttable(s)
    PROVE  LET r == EmitSentences(s)
           IN  \E f : /\ CutScan(s, f) /\ r.text = f[0].text /\ r.scanned = f[0].scanned
                      /\ SameOut(r, Pushes(s, f[0].sentences))
                      /\ r.bytes = s.bytes /\ r.utf8 = s.utf8 /\ r.inThink = s.inThink
                      /\ r = [Pushes(s, f[0].sentences)
                                EXCEPT !.text = f[0].text, !.scanned = f[0].scanned]
                      /\ r \in States
PROOF
  <1> DEFINE f == CHOOSE g : CutScan(s, g)
             q == Pushes(s, f[0].sentences)
             r == EmitSentences(s)
  <1>1. /\ s \in States /\ s.scanned <= Len(s.text) /\ Checked(s.text, s.scanned)
        /\ config.minSentence \in Nat
        BY DEF Cuttable
  <1>2. CutScan(s, f)
        BY <1>1, CutExists
  <1>3. r = [q EXCEPT !.text = f[0].text, !.scanned = f[0].scanned]
        BY EmitIs DEF Pushes
  <1> HIDE DEF f, r
  <1>4. f[0] \in [sentences : Seq(Sentences), text : Seq(Bytes), scanned : Nat]
        BY <1>1, <1>2, CutTypes
  <1>5. f[0].sentences \in Seq(Sentences) /\ f[0].text \in Seq(Bytes) /\ f[0].scanned \in Nat
        BY <1>4
  <1>6. q \in States /\ SameRest(q, s)
        BY <1>1, <1>5, PushesSame DEF SameOut
  <1> HIDE DEF q
  <1>7. /\ r \in States /\ r.pending = q.pending /\ r.out = q.out /\ r.text = f[0].text
        /\ r.scanned = f[0].scanned /\ r.bytes = q.bytes /\ r.utf8 = q.utf8
        /\ r.inThink = q.inThink
        BY <1>3, <1>5, <1>6 DEF States
  <1>8. r.bytes = s.bytes /\ r.utf8 = s.utf8 /\ r.inThink = s.inThink
        BY <1>6, <1>7 DEF SameRest
  <1> QED
      BY <1>2, <1>3, <1>7, <1>8 DEF SameOut, q, r

(* r is s with a piece p, by the scans z of the four buffers. *)
Feeds(r, s, p, z) ==
    /\ Utf8Scan(s.bytes \o p, z.utf8) /\ r.bytes = z.utf8[1].bytes
    /\ ThinkScan(s.utf8 \o z.utf8[1].utf8, z.think)
    /\ r.utf8 = z.think[1][s.inThink].utf8 /\ r.inThink = z.think[1][s.inThink].inThink
    /\ z.shown \in States /\ Grown(z.shown, s, z.think[1][s.inThink].text) /\ SameOut(z.shown, s)
    /\ CutScan(z.shown, z.cuts) /\ r.text = z.cuts[0].text /\ r.scanned = z.cuts[0].scanned
    /\ SameOut(r, Pushes(z.shown, z.cuts[0].sentences)) /\ r \in States

(* A piece goes through the scans of the four buffers. *)
LEMMA FedIs ==
    ASSUME NEW s, SegInv(s), NEW p \in Seq(Bytes), config.minSentence \in Nat
    PROVE  \E z : Feeds(Fed(s, p), s, p, z)
PROOF
  <1> DEFINE all == s.bytes \o p
             s1 == [s EXCEPT !.bytes = @ \o p]
             s2 == AccumulateUtf8Pieces(s1)
             s3 == RemoveThinking(s2)
             s4 == EmitSentences(s3)
  <1>1. /\ s \in States /\ Spoken(s)
        /\ s.scanned <= Len(s.text) /\ Checked(s.text, s.scanned)
        BY DEF SegInv
  <1>2. /\ s1 \in States /\ s1.text = s.text /\ s1.pending = s.pending /\ s1.utf8 = s.utf8
        /\ s1.scanned = s.scanned /\ s1.out = s.out /\ s1.bytes = all /\ s1.inThink = s.inThink
    <2>1. all \in Seq(Bytes)
      <3>1. s.bytes \in Seq(Bytes)
            BY <1>1 DEF States
      <3> QED
          BY <3>1, ConcatProperties
    <2>2. s1 = [s EXCEPT !.bytes = all]
          BY <1>1 DEF States
    <2> HIDE DEF all, s1
    <2> QED
        BY <1>1, <2>1, <2>2 DEF States
  <1> HIDE DEF s1
  <1>3. /\ s2 \in States /\ s2.text = s.text /\ s2.pending = s.pending
        /\ s2.scanned = s.scanned /\ s2.out = s.out /\ s2.inThink = s.inThink
        BY <1>2, AccumulateTypes
  <1>4. PICK f : /\ Utf8Scan(s1.bytes, f) /\ s2.bytes = f[1].bytes
                 /\ s2.utf8 = s1.utf8 \o f[1].utf8
        BY <1>2, AccumulateGives
  <1> HIDE DEF s2
  <1>5. /\ s3 \in States /\ s3.bytes = s2.bytes /\ s3.pending = s.pending
        /\ s3.scanned = s.scanned /\ s3.out = s.out
        /\ \E more \in Seq(Bytes) : s3.text = s.text \o more
        BY <1>3, ThinkTypes
  <1>6. PICK h : /\ ThinkScan(s2.utf8, h) /\ s3.utf8 = h[1][s2.inThink].utf8
                 /\ s3.inThink = h[1][s2.inThink].inThink
                 /\ s3.text = s2.text \o h[1][s2.inThink].text
        BY <1>3, ThinkGives
  <1> HIDE DEF s3
  <1>7. Cuttable(s3)
    <2>1. PICK more \in Seq(Bytes) : s3.text = s.text \o more
          BY <1>5
    <2>2. s.text \in Seq(Bytes) /\ s.scanned \in Nat
          BY <1>1 DEF States
    <2>3. s.scanned <= Len(s.text \o more) /\ Checked(s.text \o more, s.scanned)
          BY <1>1, <2>2, CheckedMore
    <2> QED
        BY <1>5, <2>1, <2>3 DEF Cuttable
  <1>8. PICK c : /\ CutScan(s3, c) /\ s4.text = c[0].text /\ s4.scanned = c[0].scanned
                 /\ SameOut(s4, Pushes(s3, c[0].sentences))
                 /\ s4.bytes = s3.bytes /\ s4.utf8 = s3.utf8 /\ s4.inThink = s3.inThink
                 /\ s4 \in States
        BY <1>7, EmitGives
  <1> HIDE DEF s4
  <1>9. Utf8Scan(s.bytes \o p, f) /\ s4.bytes = f[1].bytes
        BY <1>2, <1>4, <1>5, <1>8
  <1>10. /\ ThinkScan(s.utf8 \o f[1].utf8, h)
         /\ s4.utf8 = h[1][s.inThink].utf8 /\ s4.inThink = h[1][s.inThink].inThink
         BY <1>2, <1>3, <1>4, <1>6, <1>8
  <1>11. Grown(s3, s, h[1][s.inThink].text)
    <2>1. s3.text \in Seq(Bytes) /\ s3.scanned \in Nat /\ s3.scanned <= Len(s3.text)
          BY <1>7 DEF Cuttable, States
    <2> QED
        BY <1>3, <1>5, <1>6, <2>1 DEF Grown, Scannable
  <1>12. SameOut(s3, s)
         BY <1>5 DEF SameOut
  <1>13. PICK z : z = [utf8 |-> f, think |-> h, shown |-> s3, cuts |-> c]
         OBVIOUS
  <1>14. z.utf8 = f /\ z.think = h /\ z.shown = s3 /\ z.cuts = c
         BY <1>13
  <1>15. Feeds(s4, s, p, z)
         BY <1>5, <1>8, <1>9, <1>10, <1>11, <1>12, <1>14 DEF Feeds
  <1> QED
      BY <1>15 DEF Fed, s4, s3, s2, s1

(* The kinds of what the scans of a round leave. *)
LEMMA FeedsKinds ==
    ASSUME NEW s \in States, NEW p \in Seq(Bytes), NEW r, NEW z, Feeds(r, s, p, z)
    PROVE  /\ z.utf8[1] \in [bytes : Seq(Bytes), utf8 : Seq(Bytes)]
           /\ z.think[1][s.inThink] \in Thoughts(Bytes) /\ z.cuts[0] \in Cuts
PROOF
  <1>1. s.bytes \in Seq(Bytes) /\ s.utf8 \in Seq(Bytes) /\ s.inThink \in BOOLEAN
        BY DEF States
  <1>2. z.utf8[1] \in [bytes : Seq(Bytes), utf8 : Seq(Bytes)]
    <2>1. PICK b \in Seq(Bytes) : b = s.bytes \o p
          BY <1>1, ConcatProperties
    <2>2. Utf8Scan(b, z.utf8)
          BY <2>1 DEF Feeds
    <2>3. 1 \in 1 .. Len(b) + 1
          OBVIOUS
    <2> QED
        BY <2>2, <2>3, Utf8ScanTypes
  <1>3. z.think[1][s.inThink] \in Thoughts(Bytes)
    <2>1. PICK u \in Seq(Bytes) : u = s.utf8 \o z.utf8[1].utf8
      <3>1. z.utf8[1].utf8 \in Seq(Bytes)
            BY <1>2
      <3> QED
          BY <1>1, <3>1, ConcatProperties
    <2>2. ThinkScan(u, z.think)
          BY <2>1 DEF Feeds
    <2>3. 1 \in 1 .. Len(u) + 1
          OBVIOUS
    <2> QED
        BY <1>1, <2>2, <2>3, ThinkScanTypes DEF Thoughts
  <1>4. z.cuts[0] \in Cuts
    <2>1. Scannable(z.shown) /\ CutScan(z.shown, z.cuts)
          BY DEF Feeds, Grown
    <2>2. z.shown.text \in Seq(Bytes)
          BY <2>1 DEF Scannable
    <2>3. 0 \in Nat /\ 0 <= Len(z.shown.text)
          BY <2>2
    <2> QED
        BY <2>1, <2>3, CutKinds
  <1> QED
      BY <1>2, <1>3, <1>4

(* r is s with a piece u, x is r with a piece p, and y is s with both in one. *)
Twice(s, u, p, r, x, y, a, b, c) ==
    /\ s \in States /\ u \in Seq(Bytes) /\ p \in Seq(Bytes) /\ r \in States
    /\ Feeds(r, s, u, a) /\ Feeds(x, r, p, b) /\ Feeds(y, s, u \o p, c)

(* The scans of the three are of the kinds that they are for. *)
LEMMA TwiceKinds ==
    ASSUME NEW s, NEW u, NEW p, NEW r, NEW x, NEW y, NEW a, NEW b, NEW c,
           Twice(s, u, p, r, x, y, a, b, c)
    PROVE  /\ a.utf8[1] \in [bytes : Seq(Bytes), utf8 : Seq(Bytes)]
           /\ b.utf8[1] \in [bytes : Seq(Bytes), utf8 : Seq(Bytes)]
           /\ a.think[1][s.inThink] \in Thoughts(Bytes)
           /\ b.think[1][r.inThink] \in Thoughts(Bytes)
           /\ a.cuts[0] \in Cuts /\ b.cuts[0] \in Cuts
PROOF
  <1>1. s \in States /\ u \in Seq(Bytes) /\ Feeds(r, s, u, a)
        BY DEF Twice
  <1>2. r \in States /\ p \in Seq(Bytes) /\ Feeds(x, r, p, b)
        BY DEF Twice
  <1> QED
      BY <1>1, <1>2, FeedsKinds

(* The bytes that are left, and the characters that are complete. *)
BytesOf(x, y, a, b, c) ==
    y.bytes = x.bytes /\ c.utf8[1].utf8 = a.utf8[1].utf8 \o b.utf8[1].utf8

(* The bytes of the two pieces are those of the one. *)
LEMMA TwiceBytes ==
    ASSUME NEW s, NEW u, NEW p, NEW r, NEW x, NEW y, NEW a, NEW b, NEW c,
           Twice(s, u, p, r, x, y, a, b, c)
    PROVE  BytesOf(x, y, a, b, c)
PROOF
  <1>1. /\ s \in States /\ u \in Seq(Bytes) /\ p \in Seq(Bytes)
        /\ Feeds(r, s, u, a) /\ Feeds(x, r, p, b) /\ Feeds(y, s, u \o p, c)
        BY DEF Twice
  <1>2. PICK d \in Seq(Bytes) : d = s.bytes
        BY <1>1 DEF States
  <1>3. PICK e \in Seq(Bytes) : e = d \o u
        BY <1>1, ConcatProperties
  <1>4. Utf8Scan(e, a.utf8) /\ r.bytes = a.utf8[1].bytes
        BY <1>1, <1>2, <1>3 DEF Feeds
  <1>5. Utf8Scan(e \o p, c.utf8) /\ y.bytes = c.utf8[1].bytes
    <2>1. (d \o u) \o p = d \o (u \o p)
          BY <1>1, ConcatAssociative
    <2> QED
        BY <1>1, <1>2, <1>3, <2>1 DEF Feeds
  <1>6. Utf8Scan(a.utf8[1].bytes \o p, b.utf8) /\ x.bytes = b.utf8[1].bytes
        BY <1>1, <1>4 DEF Feeds
  <1>7. Adds(c.utf8[1], a.utf8[1], b.utf8[1])
        BY <1>1, <1>4, <1>5, <1>6, Utf8More
  <1> QED
      BY <1>5, <1>6, <1>7 DEF Adds, BytesOf

(* What is in or outside of thoughts after the pieces. *)
ShownOf(s, r, x, y, a, b, c) ==
    /\ y.utf8 = x.utf8 /\ y.inThink = x.inThink
    /\ c.think[1][s.inThink].text = a.think[1][s.inThink].text \o b.think[1][r.inThink].text

(* So are the characters outside thoughts. *)
LEMMA TwiceShown ==
    ASSUME NEW s, NEW u, NEW p, NEW r, NEW x, NEW y, NEW a, NEW b, NEW c,
           Twice(s, u, p, r, x, y, a, b, c)
    PROVE  ShownOf(s, r, x, y, a, b, c)
PROOF
  <1>1. s \in States /\ Feeds(r, s, u, a) /\ Feeds(x, r, p, b) /\ Feeds(y, s, u \o p, c)
        BY DEF Twice
  <1>2. PICK d \in Seq(Bytes) : d = s.utf8
        BY <1>1 DEF States
  <1>3. PICK t \in BOOLEAN : t = s.inThink
        BY <1>1 DEF States
  <1>4. PICK v \in Seq(Bytes) : v = a.utf8[1].utf8
        BY TwiceKinds
  <1>5. PICK w \in Seq(Bytes) : w = b.utf8[1].utf8
        BY TwiceKinds
  <1>6. PICK e \in Seq(Bytes) : e = d \o v
        BY ConcatProperties
  <1>7. c.utf8[1].utf8 = v \o w
    <2>1. BytesOf(x, y, a, b, c)
          BY TwiceBytes
    <2> QED
        BY <1>4, <1>5, <2>1 DEF BytesOf
  <1>8. e \o w = d \o (v \o w)
        BY <1>6, ConcatAssociative
  <1>9. /\ ThinkScan(e, a.think)
        /\ r.utf8 = a.think[1][t].utf8 /\ r.inThink = a.think[1][t].inThink
        BY <1>1, <1>2, <1>3, <1>4, <1>6 DEF Feeds
  <1>10. /\ ThinkScan(e \o w, c.think)
         /\ y.utf8 = c.think[1][t].utf8 /\ y.inThink = c.think[1][t].inThink
         BY <1>1, <1>2, <1>3, <1>7, <1>8 DEF Feeds
  <1>11. /\ ThinkScan(a.think[1][t].utf8 \o w, b.think)
         /\ x.utf8 = b.think[1][r.inThink].utf8 /\ x.inThink = b.think[1][r.inThink].inThink
         BY <1>1, <1>5, <1>9 DEF Feeds
  <1>12. Shows(c.think[1][t], a.think[1][t].text, b.think[1][a.think[1][t].inThink])
         BY <1>9, <1>10, <1>11, ThinkMore
  <1> QED
      BY <1>3, <1>9, <1>10, <1>11, <1>12 DEF Shows, ShownOf

(* The text and the sentences. *)
LEMMA TwiceCut ==
    ASSUME NEW s, NEW u, NEW p, NEW r, NEW x, NEW y, NEW a, NEW b, NEW c,
           Twice(s, u, p, r, x, y, a, b, c)
    PROVE  Continues(c.cuts[0], a.cuts[0], b.cuts[0])
PROOF
  <1>1. s \in States /\ Feeds(r, s, u, a) /\ Feeds(x, r, p, b) /\ Feeds(y, s, u \o p, c)
        BY DEF Twice
  <1>2. PICK d \in Seq(Bytes) : d = s.text
        BY <1>1 DEF States
  <1>3. PICK v \in Seq(Bytes) : v = a.think[1][s.inThink].text
        BY TwiceKinds DEF Thoughts
  <1>4. PICK w \in Seq(Bytes) : w = b.think[1][r.inThink].text
        BY TwiceKinds DEF Thoughts
  <1>5. c.think[1][s.inThink].text = v \o w
    <2>1. ShownOf(s, r, x, y, a, b, c)
          BY TwiceShown
    <2> QED
        BY <1>3, <1>4, <2>1 DEF ShownOf
  <1>6. PICK m : m = a.shown
        OBVIOUS
  <1>7. PICK n : n = c.shown
        OBVIOUS
  <1>8. Scannable(m) /\ m.text = d \o v /\ m.scanned = s.scanned /\ CutScan(m, a.cuts)
        BY <1>1, <1>2, <1>3, <1>6 DEF Feeds, Grown
  <1>9. Scannable(n) /\ n.text = d \o (v \o w) /\ n.scanned = s.scanned /\ CutScan(n, c.cuts)
        BY <1>1, <1>2, <1>5, <1>7 DEF Feeds, Grown
  <1>10. (d \o v) \o w = d \o (v \o w)
         BY ConcatAssociative
  <1>11. Grown(n, m, w)
         BY <1>8, <1>9, <1>10 DEF Grown
  <1>12. r.text = a.cuts[0].text /\ r.scanned = a.cuts[0].scanned
         BY <1>1 DEF Feeds
  <1>13. Grown(b.shown, a.cuts[0], w) /\ CutScan(b.shown, b.cuts)
         BY <1>1, <1>4, <1>12 DEF Feeds, Grown
  <1> QED
      BY <1>8, <1>9, <1>11, <1>13, CutMore

(* What is pushed, and what waits. *)
LEMMA TwicePushed ==
    ASSUME NEW s, NEW u, NEW p, NEW r, NEW x, NEW y, NEW a, NEW b, NEW c,
           Twice(s, u, p, r, x, y, a, b, c)
    PROVE  SameOut(y, x)
PROOF
  <1>1. Feeds(r, s, u, a) /\ Feeds(x, r, p, b) /\ Feeds(y, s, u \o p, c)
        BY DEF Twice
  <1>2. PICK d \in Seq(Sentences) : d = a.cuts[0].sentences
        BY TwiceKinds DEF Cuts
  <1>3. PICK e \in Seq(Sentences) : e = b.cuts[0].sentences
        BY TwiceKinds DEF Cuts
  <1>4. c.cuts[0].sentences = d \o e
    <2>1. Continues(c.cuts[0], a.cuts[0], b.cuts[0])
          BY TwiceCut
    <2> QED
        BY <1>2, <1>3, <2>1 DEF Continues
  <1>5. PICK m \in States : m = a.shown /\ SameOut(m, s) /\ SameOut(r, Pushes(m, d))
        BY <1>1, <1>2 DEF Feeds
  <1>6. PICK n \in States : n = b.shown /\ SameOut(n, r) /\ SameOut(x, Pushes(n, e))
        BY <1>1, <1>3 DEF Feeds
  <1>7. PICK o \in States : o = c.shown /\ SameOut(o, s) /\ SameOut(y, Pushes(o, d \o e))
        BY <1>1, <1>4 DEF Feeds
  <1>8. PICK z : z = Pushes(o, d)
        OBVIOUS
  <1>9. Pushes(o, d \o e) = Pushes(z, e)
        BY <1>8, PushesBoth
  <1>10. SameOut(o, m)
         BY <1>5, <1>7 DEF SameOut
  <1>11. z \in States /\ SameOut(z, Pushes(m, d))
         BY <1>8, <1>10, PushesSame
  <1>12. SameOut(z, n)
         BY <1>5, <1>6, <1>11 DEF SameOut
  <1>13. SameOut(Pushes(z, e), Pushes(n, e))
         BY <1>11, <1>12, PushesSame
  <1> QED
      BY <1>6, <1>7, <1>9, <1>13 DEF SameOut

(* Two equal Segmenters. *)
LEMMA SameState ==
    ASSUME NEW x \in States, NEW y \in States, SameOut(x, y), SameRest(x, y)
    PROVE  x = y
PROOF
  <1>1. x = [bytes |-> x.bytes, utf8 |-> x.utf8, text |-> x.text, pending |-> x.pending,
             inThink |-> x.inThink, scanned |-> x.scanned, out |-> x.out]
        BY DEF States
  <1>2. y = [bytes |-> y.bytes, utf8 |-> y.utf8, text |-> y.text, pending |-> y.pending,
             inThink |-> y.inThink, scanned |-> y.scanned, out |-> y.out]
        BY DEF States
  <1> QED
      BY <1>1, <1>2 DEF SameOut, SameRest

(* However a text is cut into two pieces, the buffers and the segments are those
   of one piece with both. *)
LEMMA FedTwice ==
    ASSUME NEW s, SegInv(s), NEW u \in Seq(Bytes), NEW p \in Seq(Bytes),
           config.minSentence \in Nat, config.minSegment \in Nat
    PROVE  Fed(Fed(s, u), p) = Fed(s, u \o p)
PROOF
  <1>1. PICK r : r = Fed(s, u)
        OBVIOUS
  <1>2. SegInv(r)
        BY <1>1, FedKeeps
  <1>3. PICK x : x = Fed(r, p)
        OBVIOUS
  <1>4. PICK q \in Seq(Bytes) : q = u \o p
        BY ConcatProperties
  <1>5. PICK y : y = Fed(s, q)
        OBVIOUS
  <1>6. s \in States /\ r \in States
        BY <1>2 DEF SegInv
  <1>7. PICK a : Feeds(r, s, u, a)
        BY <1>1, FedIs
  <1>8. PICK b : Feeds(x, r, p, b)
        BY <1>2, <1>3, FedIs
  <1>9. PICK c : Feeds(y, s, q, c)
        BY <1>5, FedIs
  <1>10. Twice(s, u, p, r, x, y, a, b, c)
         BY <1>4, <1>6, <1>7, <1>8, <1>9 DEF Twice
  <1>11. y.bytes = x.bytes
    <2>1. BytesOf(x, y, a, b, c)
          BY <1>10, TwiceBytes
    <2> QED
        BY <2>1 DEF BytesOf
  <1>12. y.utf8 = x.utf8 /\ y.inThink = x.inThink
    <2>1. ShownOf(s, r, x, y, a, b, c)
          BY <1>10, TwiceShown
    <2> QED
        BY <2>1 DEF ShownOf
  <1>13. y.text = x.text /\ y.scanned = x.scanned
    <2>1. Continues(c.cuts[0], a.cuts[0], b.cuts[0])
          BY <1>10, TwiceCut
    <2>2. /\ y.text = c.cuts[0].text /\ y.scanned = c.cuts[0].scanned
          /\ x.text = b.cuts[0].text /\ x.scanned = b.cuts[0].scanned
          BY <1>8, <1>9 DEF Feeds
    <2> QED
        BY <2>1, <2>2 DEF Continues
  <1>14. SameOut(y, x)
         BY <1>10, TwicePushed
  <1>15. x \in States /\ y \in States
         BY <1>8, <1>9 DEF Feeds
  <1>16. y = x
         BY <1>11, <1>12, <1>13, <1>14, <1>15, SameState DEF SameRest
  <1> QED
      BY <1>1, <1>3, <1>4, <1>5, <1>16

-----------------------------------------------------------------------------
(***************************************************************************)
(* The input in any number of pieces.                                      *)
(***************************************************************************)

(* emitSentences as a relation: r is s with the sentences of its cuts pushed. *)
Emits(s, r) ==
    \E f, g : /\ CutScan(s, f) /\ Folds("push", g, s, f[0].sentences)
              /\ r = [g[Len(f[0].sentences)] EXCEPT !.text = f[0].text, !.scanned = f[0].scanned]

(* It is all that emitSentences does. *)
EmitSure == \A s, r : Cuttable(s) => (Emits(s, r) <=> r = EmitSentences(s))

(* There is one way to cut and push. *)
LEMMA EmitUnique == EmitSure
PROOF
  <1> SUFFICES ASSUME NEW s, NEW r, Cuttable(s)
               PROVE  Emits(s, r) <=> r = EmitSentences(s)
      BY DEF EmitSure
  <1>1. PICK c : /\ CutScan(s, c)
                 /\ EmitSentences(s) = [Pushes(s, c[0].sentences)
                                          EXCEPT !.text = c[0].text, !.scanned = c[0].scanned]
        BY EmitGives
  <1>2. Scannable(s)
        BY DEF Cuttable, Scannable, States
  <1>3. s.text \in Seq(Bytes) /\ 0 \in Nat /\ 0 <= Len(s.text)
        BY <1>2 DEF Scannable
  <1>4. PICK xs \in Seq(Sentences) : xs = c[0].sentences
    <2>1. c[0] \in Cuts
          BY <1>1, <1>2, <1>3, CutKinds
    <2> QED
        BY <2>1 DEF Cuts
  <1>5. ASSUME Emits(s, r) PROVE r = EmitSentences(s)
    <2>1. PICK f, g : /\ CutScan(s, f) /\ Folds("push", g, s, f[0].sentences)
                      /\ r = [g[Len(f[0].sentences)]
                                EXCEPT !.text = f[0].text, !.scanned = f[0].scanned]
          BY <1>5 DEF Emits
    <2>2. f[0] = c[0]
      <3>1. s.text = Behind(s, 0) /\ Start(s, 0) = s.scanned
        <4>1. From(s.text, 1) = s.text
              BY <1>3, WholeIs
        <4>2. 0 + 1 = 1
              OBVIOUS
        <4> QED
            BY <4>1, <4>2 DEF Behind, Start
      <3>2. FindSentenceEnd(s.text, Start(s, 0)) = FindSentenceEnd(s.text, s.scanned)
            BY <3>1
      <3> QED
          BY <1>1, <1>2, <1>3, <2>1, <3>1, <3>2, CutResumed
    <2>3. g[Len(xs)] = Pushes(s, xs)
          BY <1>4, <2>1, <2>2, FoldUnique
    <2> QED
        BY <1>1, <1>4, <2>1, <2>2, <2>3
  <1>6. ASSUME r = EmitSentences(s) PROVE Emits(s, r)
    <2>1. PICK g : Folds("push", g, s, xs) /\ Pushes(s, xs) = g[Len(xs)]
          BY PushFold DEF Pushes
    <2> QED
        BY <1>1, <1>4, <1>6, <2>1 DEF Emits
  <1> QED
      BY <1>5, <1>6

(* What a config decides does not change with another one that is the same. *)
LEMMA EmitsSame ==
    ASSUME NEW s, NEW r, config' = config
    PROVE  Emits(s, r)' = Emits(s, r)
PROOF
  <1>1. \A text, k : FindSentenceEnd(text, k)' = FindSentenceEnd(text, k)
        BY DEF FindSentenceEnd, IsCandidate, IsUndecided, EndsSentence, IsSingleLetterInitial,
               IsListMarker, IsAbbreviation
  <1>2. \A f : CutScan(s, f)' = CutScan(s, f)
        BY <1>1 DEF CutScan, CutAt
  <1>3. \A q, x : PushCoalesced(q, x)' = PushCoalesced(q, x)
        BY DEF PushCoalesced
  <1> QED
      BY <1>2, <1>3 DEF Emits, Folds, Step

(* A step that keeps the settings keeps what is emitted. *)
LEMMA EmitSame ==
    ASSUME NEW s, Cuttable(s), config' = config
    PROVE  EmitSentences(s)' = EmitSentences(s)
PROOF
  <1>1. EmitSure
        BY EmitUnique
  <1>2. EmitSure'
        BY EmitUnique, PTL
  <1>3. PICK r : r = EmitSentences(s)
        OBVIOUS
  <1>4. Emits(s, r)
        BY <1>1, <1>3 DEF EmitSure
  <1>5. Emits(s, r)'
        BY <1>4, EmitsSame
  <1>6. Cuttable(s)'
        BY DEF Cuttable, Checked
  <1> QED
      BY <1>2, <1>3, <1>5, <1>6 DEF EmitSure

(* It keeps what a piece does. *)
LEMMA FedSame ==
    ASSUME NEW s, SegInv(s), NEW p \in Seq(Bytes), config.minSentence \in Nat, config' = config
    PROVE  Fed(s, p)' = Fed(s, p)
PROOF
  <1>1. PICK q : q = RemoveThinking(AccumulateUtf8Pieces([s EXCEPT !.bytes = @ \o p]))
        OBVIOUS
  <1>2. Cuttable(q)
    <2>1. /\ s \in States /\ s.scanned <= Len(s.text) /\ Checked(s.text, s.scanned)
          BY DEF SegInv
    <2>2. PICK all \in Seq(Bytes) : all = s.bytes \o p
          BY <2>1, ConcatProperties DEF States
    <2>3. PICK a : a = [s EXCEPT !.bytes = @ \o p]
          OBVIOUS
    <2>4. a = [s EXCEPT !.bytes = all]
          BY <2>1, <2>2, <2>3 DEF States
    <2>5. a \in States /\ a.text = s.text /\ a.scanned = s.scanned
          BY <2>1, <2>4 DEF States
    <2>6. PICK b : b = AccumulateUtf8Pieces(a)
          OBVIOUS
    <2>7. b \in States /\ b.text = s.text /\ b.scanned = s.scanned
          BY <2>5, <2>6, AccumulateTypes
    <2>8. q = RemoveThinking(b)
          BY <1>1, <2>3, <2>6
    <2>9. /\ q \in States /\ q.scanned = s.scanned
          /\ \E more \in Seq(Bytes) : q.text = s.text \o more
          BY <2>7, <2>8, ThinkTypes, ZenonT(30)
    <2>10. PICK more \in Seq(Bytes) : q.text = s.text \o more
          BY <2>9
    <2>11. s.text \in Seq(Bytes) /\ s.scanned \in Nat
          BY <2>1 DEF States
    <2>12. s.scanned <= Len(s.text \o more) /\ Checked(s.text \o more, s.scanned)
          BY <2>1, <2>11, CheckedMore
    <2> QED
        BY <2>9, <2>10, <2>12 DEF Cuttable
  <1>3. EmitSentences(q)' = EmitSentences(q)
        BY <1>2, EmitSame
  <1> QED
      BY <1>1, <1>3 DEF Fed

(* It keeps what the flush does. *)
LEMMA FlushedSame ==
    ASSUME NEW s, SegInv(s), config.minSentence \in Nat, config' = config
    PROVE  Flushed(s)' = Flushed(s)
PROOF
  <1>1. PICK q : q = [s EXCEPT !.bytes = <<>>, !.utf8 = <<>>,
                               !.text = IF s.inThink THEN @ ELSE @ \o s.utf8]
        OBVIOUS
  <1>2. Cuttable(q)
    <2>1. /\ s \in States /\ s.scanned <= Len(s.text) /\ Checked(s.text, s.scanned)
          BY DEF SegInv
    <2>2. s.text \in Seq(Bytes) /\ s.utf8 \in Seq(Bytes) /\ s.scanned \in Nat
          BY <2>1 DEF States
    <2>3. PICK shown : shown = IF s.inThink THEN s.text ELSE s.text \o s.utf8
          OBVIOUS
    <2>4. shown \in Seq(Bytes) /\ s.scanned <= Len(shown) /\ Checked(shown, s.scanned)
      <3>1. s.text \o s.utf8 \in Seq(Bytes)
            BY <2>2, ConcatProperties
      <3>2. s.scanned <= Len(s.text \o s.utf8) /\ Checked(s.text \o s.utf8, s.scanned)
            BY <2>1, <2>2, CheckedMore
      <3> QED
          BY <2>1, <2>2, <2>3, <3>1, <3>2
    <2>5. q = [s EXCEPT !.bytes = <<>>, !.utf8 = <<>>, !.text = shown]
          BY <1>1, <2>1, <2>3 DEF States
    <2>6. <<>> \in Seq(Bytes)
          OBVIOUS
    <2>7. q \in States /\ q.text = shown /\ q.scanned = s.scanned
          BY <2>1, <2>4, <2>5, <2>6 DEF States
    <2> QED
        BY <2>4, <2>7 DEF Cuttable
  <1>3. EmitSentences(q)' = EmitSentences(q)
        BY <1>2, EmitSame
  <1> DEFINE After(t) ==
                 LET tail == Strip(t.text)
                     last == IF tail = <<>> THEN t.pending ELSE WithPeriod(Joined(t.pending, tail))
                 IN  [t EXCEPT !.text = <<>>, !.pending = <<>>,
                               !.out = IF last = <<>> THEN @ ELSE Append(@, last)]
  <1>4. PICK t : t = EmitSentences(q)
        OBVIOUS
  <1>5. Flushed(s) = After(EmitSentences(q))
        BY <1>1 DEF Flushed
  <1>6. (Flushed(s) = After(EmitSentences(q)))'
        BY <1>1 DEF Flushed
  <1>7. After(EmitSentences(q))' = After(t)
        BY <1>3, <1>4
  <1> QED
      BY <1>4, <1>5, <1>6, <1>7

(* A reset Segmenter has scanned nothing. *)
LEMMA FreshInv ==
    ASSUME config.minSentence \in Nat
    PROVE  SegInv(Fresh)
PROOF
  <1>1. config.minSentence + 1 .. 0 = {}
        OBVIOUS
  <1>2. Checked(Fresh.text, Fresh.scanned)
        BY <1>1, FreshIs DEF Checked
  <1>3. <<>> \in Waiting /\ <<>> \in Seq(Segments)
        BY DEF Waiting
  <1>4. Spoken(Fresh)
        BY <1>3, FreshIs DEF Spoken
  <1>5. Fresh.scanned <= Len(Fresh.text)
        BY FreshIs
  <1> QED
      BY <1>2, <1>4, <1>5, FreshIs DEF SegInv

(* So far, the pieces are what one piece with all of them would be. *)
Chunks ==
    \A x, r : x = input /\ r = Fed(Fresh, x) =>
        IF done THEN x = <<>> \/ seg = Flushed(r) ELSE (x = <<>> /\ seg = Fresh) \/ seg = r

(* One more piece is one more of what was one piece. *)
LEMMA PieceChunks ==
    ASSUME NEW p \in stream, SegmenterInv, Chunks, Piece(p)
    PROVE  Chunks'
PROOF
  <1>1. /\ ~done /\ seg' = Fed(seg, p) /\ input' = input \o p /\ config' = config /\ ~done'
        BY DEF Piece
  <1>2. config \in Configs /\ stream \in Streams /\ input \in Seq(Bytes)
        BY DEF SegmenterInv
  <1>3. config.minSentence \in Nat /\ config.minSegment \in Nat
        BY <1>2, ConfigIs
  <1>4. PICK q \in Seq(Bytes) : q = p
        BY <1>2, PieceIs
  <1>5. SegInv(Fresh)
        BY <1>3, FreshInv
  <1> SUFFICES ASSUME NEW x, NEW r, x = input', r = Fed(Fresh, x)'
               PROVE  seg' = r
      BY <1>1 DEF Chunks
  <1>6. PICK w \in Seq(Bytes) : w = input
        BY <1>2
  <1>7. x = w \o q /\ x \in Seq(Bytes)
        BY <1>1, <1>4, <1>6, ConcatProperties
  <1>8. r = Fed(Fresh, x)
        BY <1>1, <1>3, <1>5, <1>7, FedSame
  <1>9. (w = <<>> /\ seg = Fresh) \/ seg = Fed(Fresh, w)
    <2>1. PICK z : z = Fed(Fresh, w)
          OBVIOUS
    <2> QED
        BY <1>1, <1>6, <2>1 DEF Chunks
  <1>10. CASE w = <<>> /\ seg = Fresh
    <2>1. x = q
          BY <1>7, <1>10
    <2> QED
        BY <1>1, <1>4, <1>8, <1>10, <2>1
  <1>11. CASE seg = Fed(Fresh, w)
    <2>1. Fed(Fed(Fresh, w), q) = Fed(Fresh, w \o q)
          BY <1>3, <1>5, FedTwice
    <2> QED
        BY <1>1, <1>4, <1>7, <1>8, <1>11, <2>1
  <1> QED
      BY <1>9, <1>10, <1>11

(* What is flushed at the end is what one piece would have left. *)
LEMMA EndChunks == SegmenterInv /\ Chunks /\ End => Chunks'
PROOF
  <1> SUFFICES ASSUME SegmenterInv, Chunks, End PROVE Chunks'
      OBVIOUS
  <1>1. ~done /\ seg' = Flushed(seg) /\ done' = TRUE /\ config' = config /\ input' = input
        BY DEF End
  <1>2. config \in Configs /\ input \in Seq(Bytes)
        BY DEF SegmenterInv
  <1>3. config.minSentence \in Nat /\ config.minSegment \in Nat
        BY <1>2, ConfigIs
  <1>4. SegInv(Fresh)
        BY <1>3, FreshInv
  <1> SUFFICES ASSUME NEW x, NEW r, x = input', r = Fed(Fresh, x)', x # <<>>
               PROVE  seg' = Flushed(r)'
      BY <1>1 DEF Chunks
  <1>5. x = input /\ x \in Seq(Bytes)
        BY <1>1, <1>2
  <1>6. r = Fed(Fresh, x)
        BY <1>1, <1>3, <1>4, <1>5, FedSame
  <1>7. seg = r
        BY <1>1, <1>5, <1>6 DEF Chunks
  <1>8. SegInv(r)
        BY <1>3, <1>4, <1>5, <1>6, FedKeeps
  <1>9. Flushed(r)' = Flushed(r)
        BY <1>1, <1>3, <1>8, FlushedSame
  <1> QED
      BY <1>1, <1>7, <1>9

(* A step that changes nothing leaves it so. *)
LEMMA StutterChunks == SegmenterInv /\ Chunks /\ UNCHANGED vars => Chunks'
PROOF
  <1> SUFFICES ASSUME SegmenterInv, Chunks, UNCHANGED vars PROVE Chunks'
      OBVIOUS
  <1>1. seg' = seg /\ done' = done /\ config' = config /\ input' = input
        BY DEF vars
  <1>2. config \in Configs /\ input \in Seq(Bytes)
        BY DEF SegmenterInv
  <1>3. config.minSentence \in Nat /\ config.minSegment \in Nat
        BY <1>2, ConfigIs
  <1>4. SegInv(Fresh)
        BY <1>3, FreshInv
  <1> SUFFICES ASSUME NEW x, NEW r, x = input', r = Fed(Fresh, x)'
               PROVE  (IF done THEN x = <<>> \/ seg = Flushed(r)
                       ELSE (x = <<>> /\ seg = Fresh) \/ seg = r)'
      BY DEF Chunks
  <1>5. x = input /\ x \in Seq(Bytes)
        BY <1>1, <1>2
  <1>6. r = Fed(Fresh, x)
        BY <1>1, <1>3, <1>4, <1>5, FedSame
  <1>7. SegInv(r)
        BY <1>3, <1>4, <1>5, <1>6, FedKeeps
  <1>8. Flushed(r)' = Flushed(r)
        BY <1>1, <1>3, <1>7, FlushedSame
  <1>9. IF done THEN x = <<>> \/ seg = Flushed(r) ELSE (x = <<>> /\ seg = Fresh) \/ seg = r
        BY <1>5, <1>6 DEF Chunks
  <1> QED
      BY <1>1, <1>8, <1>9

(* Every step keeps Chunks. *)
LEMMA ChunksAlways == Spec => []Chunks
PROOF
  <1>1. Init => Chunks
        BY DEF Init, Chunks
  <1>2. SegmenterInv /\ Chunks /\ [Next]_vars => Chunks'
    <2> SUFFICES ASSUME SegmenterInv, Chunks, [Next]_vars PROVE Chunks'
        OBVIOUS
    <2>1. CASE Segment
      <3>1. seg' = Fresh /\ ~done' /\ input' = <<>>
            BY <2>1 DEF Segment
      <3> QED
          BY <3>1 DEF Chunks
    <2>2. CASE End
          BY <2>2, EndChunks
    <2>3. CASE \E p \in stream : Piece(p)
          BY <2>3, PieceChunks
    <2>4. CASE UNCHANGED vars
          BY <2>4, StutterChunks
    <2> QED
        BY <2>1, <2>2, <2>3, <2>4 DEF Next
  <1> QED
      BY <1>1, <1>2, Invariant, PTL DEF Spec

(* However the model cuts its output into pieces, the buffers and the segments
   are those of one piece with all of it. *)
THEOREM ChunksAlike == Spec => []ChunkIndependent
PROOF
  <1>1. Chunks => ChunkIndependent
    <2> SUFFICES ASSUME Chunks, input # <<>>
                 PROVE  seg = IF done THEN Flushed(Fed(Fresh, input)) ELSE Fed(Fresh, input)
        BY DEF ChunkIndependent
    <2>1. PICK r : r = Fed(Fresh, input)
          OBVIOUS
    <2>2. IF done THEN seg = Flushed(r) ELSE seg = r
          BY <2>1 DEF Chunks
    <2> QED
        BY <2>1, <2>2
  <1> QED
      BY <1>1, ChunksAlways, PTL

-----------------------------------------------------------------------------
=============================================================================
