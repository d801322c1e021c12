------------------------- MODULE Qwen3BackendProofs -------------------------
(***************************************************************************)
(* Proofs about Qwen3Backend: whatever fails, the backend never takes the  *)
(* context for something it does not hold, the turns of the history stay   *)
(* paired, and each token is sampled after exactly the chat history.       *)
(*                                                                         *)
(* The library's induction theorems take a predicate as a parameter, which *)
(* no prover here can instantiate; NumberInduction below takes the set of  *)
(* the numbers that satisfy it.                                            *)
(***************************************************************************)
EXTENDS Qwen3Backend, FiniteSetTheorems, WellFoundedInduction, SequenceTheorems, TLAPS

(***************************************************************************)
(* Numbers and sequences.                                                  *)
(***************************************************************************)

(* A nonempty set of numbers has a least one. *)
LEMMA LeastNumber ==
    ASSUME NEW S, S \subseteq Nat, S # {}
    PROVE  \E n \in S : \A m \in S : n <= m
PROOF
  <1> DEFINE T == {1 .. n : n \in S}
  <1>1. T \subseteq FiniteSubsetsOf(Nat)
    <2> SUFFICES ASSUME NEW n \in S PROVE 1 .. n \in FiniteSubsetsOf(Nat)
        OBVIOUS
    <2>1. IsFiniteSet(1 .. n)
          BY FS_Interval
    <2> QED
        BY <2>1 DEF FiniteSubsetsOf
  <1>2. IsWellFoundedOn(StrictSubsetOrdering(Nat), FiniteSubsetsOf(Nat))
        BY FS_StrictSubsetOrderingWellFounded
  <1>3. T # {}
        OBVIOUS
  <1> HIDE DEF T
  <1>4. PICK t \in T : \A u \in T : ~(<<u, t>> \in StrictSubsetOrdering(Nat))
        BY <1>1, <1>2, <1>3, WFMin
  <1>5. PICK n \in S : t = 1 .. n
        BY <1>4 DEF T
  <1>6. ASSUME NEW m \in S, m < n PROVE FALSE
    <2>1. 1 .. m \in T
          BY DEF T
    <2>2. 1 .. m \subseteq 1 .. n /\ 1 .. m # 1 .. n
      <3>1. n \in 1 .. n /\ n \notin 1 .. m
            BY <1>6
      <3> QED
            BY <1>6, <3>1
    <2>3. 1 .. m \in SUBSET Nat /\ 1 .. n \in SUBSET Nat
          OBVIOUS
    <2>4. <<1 .. m, 1 .. n>> \in StrictSubsetOrdering(Nat)
          BY <2>2, <2>3 DEF StrictSubsetOrdering
    <2> QED
        BY <1>4, <1>5, <2>1, <2>4
  <1> QED
      BY <1>6

(* Induction: a set with 0 and with the successor of each of its numbers has
   them all. *)
LEMMA NumberInduction ==
    ASSUME NEW S, 0 \in S, \A n \in Nat : n \in S => n + 1 \in S
    PROVE  Nat \subseteq S
PROOF
  <1> SUFFICES ASSUME ~(Nat \subseteq S) PROVE FALSE
      OBVIOUS
  <1>1. PICK n \in Nat \ S : \A m \in Nat \ S : n <= m
        BY LeastNumber
  <1>2. n # 0 /\ n - 1 \in Nat
        BY <1>1
  <1>3. n - 1 \in S
        BY <1>1, <1>2
  <1> QED
      BY <1>1, <1>2, <1>3

(* SequencesExt's FlattenSeq recurses over a function; this is its equation for
   the first n sequences. *)
Flattens(f, seqs, n) ==
    f = [i \in 1 .. n |-> IF i = 1 THEN seqs[i] ELSE f[i - 1] \o seqs[i]]

(* There is such a function, for every n. *)
LEMMA FlattenExists ==
    ASSUME NEW seqs
    PROVE  \A n \in Nat : \E f : Flattens(f, seqs, n)
PROOF
  <1> DEFINE S == {n \in Nat : \E f : Flattens(f, seqs, n)}
  <1>1. 0 \in S
    <2>1. Flattens([i \in 1 .. 0 |-> 0], seqs, 0)
          BY DEF Flattens
    <2> QED
        BY <2>1
  <1>2. ASSUME NEW n \in Nat, n \in S PROVE n + 1 \in S
    <2>1. PICK f : Flattens(f, seqs, n)
          BY <1>2
    <2> DEFINE value(i) == IF i = 1 THEN seqs[i] ELSE f[i - 1] \o seqs[i]
               g == [i \in 1 .. n + 1 |-> value(i)]
    <2>2. \A i \in 1 .. n : f[i] = value(i)
          BY <2>1 DEF Flattens
    <2>3. \A i \in 2 .. n + 1 : g[i - 1] = f[i - 1]
      <3> SUFFICES ASSUME NEW i \in 2 .. n + 1 PROVE g[i - 1] = f[i - 1]
          OBVIOUS
      <3>1. i - 1 \in 1 .. n /\ i - 1 \in 1 .. n + 1
            OBVIOUS
      <3>2. g[i - 1] = value(i - 1)
            BY <3>1
      <3> HIDE DEF g, value
      <3> QED
          BY <2>2, <3>1, <3>2
    <2>4. \A i \in 1 .. n + 1 : value(i) = IF i = 1 THEN seqs[i] ELSE g[i - 1] \o seqs[i]
      <3> HIDE DEF g
      <3> QED
          BY <2>3
    <2>5. g = [i \in 1 .. n + 1 |-> IF i = 1 THEN seqs[i] ELSE g[i - 1] \o seqs[i]]
      <3>1. g = [i \in 1 .. n + 1 |-> value(i)]
            OBVIOUS
      <3> HIDE DEF g, value
      <3> QED
          BY <2>4, <3>1
    <2>6. Flattens(g, seqs, n + 1)
          BY <2>5 DEF Flattens
    <2> HIDE DEF g
    <2> QED
        BY <2>6
  <1> HIDE DEF S
  <1>3. Nat \subseteq S
        BY <1>1, <1>2, NumberInduction
  <1> QED
      BY <1>3 DEF S

(* Sequences of T, one after the other, are a sequence of T. *)
LEMMA FlattenIsSeq ==
    ASSUME NEW T, NEW seqs \in Seq(Seq(T))
    PROVE  FlattenSeq(seqs) \in Seq(T)
PROOF
  <1>1. CASE Len(seqs) = 0
    <2>1. seqs = <<>>
          BY <1>1, EmptySeq
    <2> QED
        BY <1>1, <2>1 DEF FlattenSeq
  <1>2. CASE Len(seqs) # 0
    <2> DEFINE f == CHOOSE g : Flattens(g, seqs, Len(seqs))
    <2>1. FlattenSeq(seqs) = f[Len(seqs)]
          BY <1>2 DEF FlattenSeq, Flattens
    <2>2. Len(seqs) \in Nat
          OBVIOUS
    <2>3. Flattens(f, seqs, Len(seqs))
          BY <2>2, FlattenExists
    <2> HIDE DEF f
    <2>4. \A i \in 1 .. Len(seqs) :
              f[i] = IF i = 1 THEN seqs[i] ELSE f[i - 1] \o seqs[i]
          BY <2>3 DEF Flattens
    <2> DEFINE S == {n \in Nat : n + 1 <= Len(seqs) => f[n + 1] \in Seq(T)}
    <2>5. \A i \in 1 .. Len(seqs) : seqs[i] \in Seq(T)
          OBVIOUS
    <2>6. 0 \in S
          BY <2>2, <2>4, <2>5
    <2>7. ASSUME NEW n \in Nat, n \in S PROVE n + 1 \in S
      <3> SUFFICES ASSUME n + 2 <= Len(seqs) PROVE f[n + 2] \in Seq(T)
          BY <2>2
      <3>1. n + 2 \in 1 .. Len(seqs)
            BY <2>2
      <3>2. f[n + 2] = f[n + 1] \o seqs[n + 2]
        <4>1. (n + 2) - 1 = n + 1 /\ n + 2 # 1
              OBVIOUS
        <4> QED
            BY <2>4, <3>1, <4>1
      <3>3. f[n + 1] \in Seq(T)
            BY <2>2, <2>7
      <3>4. seqs[n + 2] \in Seq(T)
            BY <2>5, <3>1
      <3> QED
          BY <3>2, <3>3, <3>4, ConcatProperties
    <2> HIDE DEF S
    <2>8. Nat \subseteq S
          BY <2>6, <2>7, NumberInduction
    <2>9. Len(seqs) - 1 \in S
          BY <1>2, <2>2, <2>8
    <2> QED
        BY <1>2, <2>1, <2>2, <2>9 DEF S
  <1> QED
      BY <1>1, <1>2

-----------------------------------------------------------------------------
(***************************************************************************)
(* What the backend knows about the context.                               *)
(***************************************************************************)

(* A context is a record, and the backend knows what it holds or knows that it
   does not. *)
Sound(c) ==
    /\ c = [kv |-> c.kv, logits |-> c.logits, committed |-> c.committed,
            unknown |-> c.unknown]
    /\ ~c.unknown => c.kv = c.committed

(* Cutting a context back makes it known again: an unknown one is cut to
   nothing. *)
LEMMA CutSound ==
    ASSUME NEW c, Sound(c), NEW tokens, NEW n \in Kept(c, tokens)
    PROVE  Sound(Cut(c, n))
PROOF
  <1> DEFINE d == Cut(c, n)
  <1>1. d = [kv |-> SubSeq(c.kv, 1, n), logits |-> c.logits,
             committed |-> SubSeq(c.committed, 1, n), unknown |-> FALSE]
        BY DEF Cut
  <1>2. SubSeq(c.kv, 1, n) = SubSeq(c.committed, 1, n)
    <2>1. CASE n = 0
          BY <2>1, SubSeqEmpty
    <2>2. CASE n # 0
      <3>1. c.kv = c.committed
            BY <2>2 DEF Kept, Sound
      <3> QED
            BY <3>1
    <2> QED
          BY <2>1, <2>2
  <1> HIDE DEF d
  <1>3. Sound(d)
        BY <1>1, <1>2 DEF Sound
  <1> QED
      BY <1>3 DEF d

(* A decode that succeeds extends both sides alike; one that fails is known to
   have failed. *)
LEMMA DecodeSound ==
    ASSUME NEW c, Sound(c), NEW ts, NEW n
    PROVE  Sound(Decoded(c, ts)) /\ Sound(DecodeFailed(c, ts, n))
PROOF
  <1>1. Sound(Decoded(c, ts))
        BY DEF Sound, Decoded
  <1>2. Sound(DecodeFailed(c, ts, n))
        BY DEF Sound, DecodeFailed
  <1> QED
      BY <1>1, <1>2

(* The three ends of decodeAllHistory: the context holds the tokens of what is
   kept of h, a text could not be tokenized, or the tokens not be decoded. *)
ToDo(tokens, n) == SubSeq(tokens, n + 1, Len(tokens))
Decodes(r, h, header, c) ==
    LET kept == Dropped(h, Drops(h, header))
        tokens == Tokens(kept, header)
    IN  /\ r.ok /\ r.history = kept
        /\ \E n \in Kept(c, tokens) : r.ctx = Decoded(Cut(c, n), ToDo(tokens, n))
FailsToTokenize(r, h, header, c) ==
    /\ ~r.ok /\ r.ctx = c
    /\ \E n \in 0 .. Drops(h, header) : r.history = Dropped(h, n)
FailsToDecode(r, h, header, c) ==
    LET kept == Dropped(h, Drops(h, header))
        tokens == Tokens(kept, header)
    IN  /\ ~r.ok /\ r.history = kept
        /\ \E n \in Kept(c, tokens) : \E k \in 0 .. Len(ToDo(tokens, n)) :
               r.ctx = DecodeFailed(Cut(c, n), ToDo(tokens, n), k)

LEMMA DecodeAllHistoryEnds ==
    ASSUME NEW h, NEW header, NEW c, NEW r \in DecodeAllHistory(h, header, c)
    PROVE  \/ Decodes(r, h, header, c)
           \/ FailsToTokenize(r, h, header, c)
           \/ FailsToDecode(r, h, header, c)
PROOF
  <1> DEFINE kept == Dropped(h, Drops(h, header))
             tokens == Tokens(kept, header)
             done(n) == Decoded(Cut(c, n), ToDo(tokens, n))
             undone(n, k) == DecodeFailed(Cut(c, n), ToDo(tokens, n), k)
             succeeded == {[ok |-> TRUE, history |-> kept, ctx |-> done(n)] :
                               n \in Kept(c, tokens)}
             untokenized == {[ok |-> FALSE, history |-> Dropped(h, n), ctx |-> c] :
                                 n \in 0 .. Drops(h, header)}
             failed(n) == {[ok |-> FALSE, history |-> kept, ctx |-> undone(n, k)] :
                               k \in 0 .. Len(ToDo(tokens, n))}
  <1>1. r \in succeeded \cup untokenized \cup UNION {failed(n) : n \in Kept(c, tokens)}
        BY DEF DecodeAllHistory, ToDo
  <1>2. CASE r \in succeeded
    <2>1. PICK n \in Kept(c, tokens) :
              r = [ok |-> TRUE, history |-> kept, ctx |-> done(n)]
          BY <1>2
    <2>2. r.ok /\ r.history = kept /\ r.ctx = done(n)
          BY <2>1
    <2> QED
        BY <2>2 DEF Decodes
  <1>3. CASE r \in untokenized
        BY <1>3 DEF FailsToTokenize
  <1>4. CASE r \in UNION {failed(n) : n \in Kept(c, tokens)}
    <2>1. PICK n \in Kept(c, tokens) : r \in failed(n)
          BY <1>4
    <2>2. PICK k \in 0 .. Len(ToDo(tokens, n)) :
              r = [ok |-> FALSE, history |-> kept, ctx |-> undone(n, k)]
          BY <2>1
    <2>3. ~r.ok /\ r.history = kept /\ r.ctx = undone(n, k)
          BY <2>2
    <2> QED
        BY <2>3 DEF FailsToDecode
  <1> QED
      BY <1>1, <1>2, <1>3, <1>4

(* However decodeAllHistory ends, it leaves a sound context sound. *)
LEMMA DecodeAllHistorySound ==
    ASSUME NEW h, NEW header, NEW c, Sound(c),
           NEW r \in DecodeAllHistory(h, header, c)
    PROVE  Sound(r.ctx)
PROOF
  <1>1. CASE Decodes(r, h, header, c)
        BY <1>1, CutSound, DecodeSound DEF Decodes
  <1>2. CASE FailsToTokenize(r, h, header, c)
        BY <1>2 DEF FailsToTokenize
  <1>3. CASE FailsToDecode(r, h, header, c)
        BY <1>3, CutSound, DecodeSound DEF FailsToDecode
  <1> QED
      BY <1>1, <1>2, <1>3, DecodeAllHistoryEnds

(* Unless _kvUnknown is up, _committed is what the context holds, after every
   sequence of calls, failures and cancels and for every tokenizer. *)
THEOREM KnownContext == Spec => []KvIsCommitted
PROOF
  <1>1. Init => Sound(ctx)
        BY DEF Init, NoContext, Sound
  <1>2. Sound(ctx) /\ [Next]_vars => Sound(ctx)'
    <2> SUFFICES ASSUME Sound(ctx), [Next]_vars PROVE Sound(ctx')
        BY DEF Sound
    <2>1. ASSUME NEW p \in Prompts, CreateFreshContext(p) PROVE Sound(ctx')
      <3>1. Sound(NoContext)
            BY DEF NoContext, Sound
      <3> QED
            BY <2>1, <3>1, DecodeAllHistorySound DEF CreateFreshContext
    <2>2. ASSUME NEW p \in Prompts, NEW nt \in BOOLEAN, Synthesize(p, nt)
          PROVE  Sound(ctx')
          BY <2>2, DecodeAllHistorySound DEF Synthesize
    <2>3. ASSUME NEW t \in Vocabulary, Generate(t) PROVE Sound(ctx')
          BY <2>3, DecodeSound DEF Generate
    <2>4. CASE Warmup
          BY <2>4 DEF Warmup, NoContext, Sound
    <2>5. CASE Finish \/ Cancel \/ ResetCancel \/ UNCHANGED vars
          BY <2>5 DEF Finish, Cancel, ResetCancel, vars
    <2> QED
        BY <2>1, <2>2, <2>3, <2>4, <2>5 DEF Next
  <1>3. Sound(ctx) => KvIsCommitted
        BY DEF Sound, KvIsCommitted
  <1> QED
      BY <1>1, <1>2, <1>3, PTL DEF Spec

-----------------------------------------------------------------------------
(***************************************************************************)
(* The history: what is dropped of it keeps its turns paired.              *)
(***************************************************************************)

(* A text is a prompt, or a reply no longer than the token limit. *)
Texts == {<<p>> : p \in Prompts} \cup {s \in Seq(Vocabulary) : Len(s) <= MaxTokens}
Messages == [role : Roles, text : Texts]

RoleAt(i) ==
    CASE i = 1               -> "system"
      [] i > 1 /\ i % 2 = 0  -> "user"
      [] i > 1 /\ i % 2 = 1  -> "assistant"

Paired(h) ==
    /\ h \in Seq(Messages)
    /\ \A i \in 1 .. Len(h) : h[i].role = RoleAt(i)

(* The history without its n oldest turns, message by message. *)
LEMMA DroppedIs ==
    ASSUME NEW S, NEW h \in Seq(S), h # <<>>, NEW n \in Nat
    PROVE  /\ Dropped(h, n) \in Seq(S)
           /\ Len(Dropped(h, n)) =
                  IF 2 + 2 * n <= Len(h) THEN Len(h) - 2 * n ELSE 1
           /\ Dropped(h, n)[1] = h[1]
           /\ \A i \in 2 .. Len(Dropped(h, n)) : Dropped(h, n)[i] = h[i + 2 * n]
PROOF
  <1> DEFINE first == <<h[1]>>
             rest == SubSeq(h, 2 + 2 * n, Len(h))
  <1>1. Len(h) \in Nat /\ Len(h) >= 1
        BY EmptySeq
  <1>2. h[1] \in S
        BY <1>1
  <1>3. first \in Seq(S) /\ Len(first) = 1 /\ first[1] = h[1]
        BY <1>2
  <1>4. 2 + 2 * n \in Int /\ Len(h) \in Int
        BY <1>1
  <1>5. \A i \in 2 + 2 * n .. Len(h) : h[i] \in S
        BY <1>1
  <1>6. /\ rest \in Seq(S)
        /\ Len(rest) = IF 2 + 2 * n <= Len(h) THEN Len(h) - (2 + 2 * n) + 1 ELSE 0
        /\ \A i \in 1 .. Len(h) - (2 + 2 * n) + 1 : rest[i] = h[(2 + 2 * n) + i - 1]
        BY <1>4, <1>5, SubSeqProperties
  <1>7. Dropped(h, n) = first \o rest
        BY DEF Dropped
  <1> HIDE DEF first, rest
  <1>8. /\ first \o rest \in Seq(S)
        /\ Len(first \o rest) = Len(first) + Len(rest)
        /\ \A i \in 1 .. Len(first) + Len(rest) :
               (first \o rest)[i] =
                   IF i <= Len(first) THEN first[i] ELSE rest[i - Len(first)]
        BY <1>3, <1>6, ConcatProperties
  <1>9. Len(Dropped(h, n)) = IF 2 + 2 * n <= Len(h) THEN Len(h) - 2 * n ELSE 1
        BY <1>1, <1>3, <1>6, <1>7, <1>8
  <1>10. Dropped(h, n)[1] = h[1]
        BY <1>1, <1>3, <1>6, <1>7, <1>8
  <1>11. ASSUME NEW i \in 2 .. Len(Dropped(h, n)) PROVE Dropped(h, n)[i] = h[i + 2 * n]
    <2>1. 2 + 2 * n <= Len(h) /\ i <= Len(h) - 2 * n
          BY <1>1, <1>9
    <2>2. Dropped(h, n)[i] = rest[i - 1]
          BY <1>1, <1>3, <1>6, <1>7, <1>8, <2>1
    <2>3. rest[i - 1] = h[(2 + 2 * n) + (i - 1) - 1]
          BY <1>1, <1>6, <2>1
    <2>4. (2 + 2 * n) + (i - 1) - 1 = i + 2 * n
          OBVIOUS
    <2> QED
        BY <2>2, <2>3, <2>4
  <1> QED
      BY <1>7, <1>8, <1>9, <1>10, <1>11

(* Dropping is over when the history fits, or only its last turn is left. *)
Enough(h, header, n) ==
    \/ Len(Tokens(Dropped(h, n), header)) <= Budget
    \/ Len(Dropped(h, n)) < 4

(* As many turns are dropped as must be, and no more. *)
LEMMA DropsIs ==
    ASSUME NEW S, NEW h \in Seq(S), h # <<>>, NEW header
    PROVE  /\ Drops(h, header) \in 0 .. Len(h)
           /\ Enough(h, header, Drops(h, header))
           /\ \A m \in 0 .. Drops(h, header) - 1 : ~Enough(h, header, m)
PROOF
  <1> DEFINE N == {n \in Nat : Enough(h, header, n)}
             IsLeast(n) == /\ Enough(h, header, n)
                           /\ \A m \in 0 .. n - 1 : ~Enough(h, header, m)
  <1>1. Len(h) \in Nat /\ Len(h) >= 1
        BY EmptySeq
  <1>2. Enough(h, header, Len(h))
    <2>1. Len(Dropped(h, Len(h))) = 1
          BY <1>1, DroppedIs
    <2> QED
        BY <2>1 DEF Enough
  <1>3. PICK n \in N : \A m \in N : n <= m
    <2>1. N # {}
          BY <1>1, <1>2
    <2>2. N \subseteq Nat
          OBVIOUS
    <2> QED
        BY <2>1, <2>2, LeastNumber
  <1>4. n \in 0 .. Len(h)
        BY <1>1, <1>2, <1>3
  <1>5. IsLeast(n)
    <2>1. ASSUME NEW m \in 0 .. n - 1 PROVE ~Enough(h, header, m)
      <3>1. m \in Nat /\ ~(n <= m)
            BY <1>4, <1>1
      <3> QED
          BY <1>3, <3>1
    <2> QED
        BY <1>3, <2>1
  <1>6. Drops(h, header) = CHOOSE k \in 0 .. Len(h) : IsLeast(k)
        BY DEF Drops, Enough
  <1> HIDE DEF IsLeast, N
  <1>7. Drops(h, header) \in 0 .. Len(h) /\ IsLeast(Drops(h, header))
        BY <1>4, <1>5, <1>6
  <1> QED
      BY <1>7 DEF IsLeast

(* Whatever turns are dropped on the way, at least the last turn stays, and the
   length keeps its parity. *)
LEMMA DroppedLength ==
    ASSUME NEW S, NEW h \in Seq(S), h # <<>>, NEW header,
           NEW n \in 0 .. Drops(h, header)
    PROVE  /\ n \in Nat
           /\ Len(Dropped(h, n)) = Len(h) - 2 * n
           /\ n > 0 => Len(Dropped(h, n)) >= 2
PROOF
  <1>1. Len(h) \in Nat /\ Len(h) >= 1
        BY EmptySeq
  <1>2. Drops(h, header) \in 0 .. Len(h)
        BY DropsIs
  <1>3. n \in Nat
        BY <1>1, <1>2
  <1>4. Len(Dropped(h, n)) = IF 2 + 2 * n <= Len(h) THEN Len(h) - 2 * n ELSE 1
        BY <1>3, DroppedIs
  <1>5. CASE n = 0
    <2>1. PICK len \in Nat : len = Len(h) /\ len >= 1
          BY <1>1
    <2>2. /\ len - 2 * n = len
          /\ ~(2 + 2 * n <= len) => len = 1
          BY <1>5, <2>1
    <2>3. Len(Dropped(h, n)) = IF 2 + 2 * n <= len THEN len - 2 * n ELSE 1
          BY <1>4, <2>1
    <2>4. Len(Dropped(h, n)) = len
          BY <2>2, <2>3
    <2>5. Len(h) - 2 * n = len
          BY <2>1, <2>2
    <2> QED
        BY <1>3, <1>5, <2>4, <2>5
  <1>6. CASE n > 0
    <2>1. PICK m \in Nat : n = m + 1
      <3>1. n - 1 \in Nat /\ n = (n - 1) + 1
            BY <1>3, <1>6
      <3> QED
          BY <3>1
    <2>2. m \in 0 .. Drops(h, header) - 1
          BY <1>1, <1>2, <2>1
    <2>3. ~(Len(Dropped(h, m)) < 4)
          BY <2>2, DropsIs DEF Enough
    <2>4. Len(Dropped(h, m)) = IF 2 + 2 * m <= Len(h) THEN Len(h) - 2 * m ELSE 1
          BY DroppedIs
    <2>5. Len(h) - 2 * m >= 4
          BY <1>1, <2>3, <2>4
    <2>6. 2 * n = 2 * m + 2
          BY <2>1
    <2>7. 2 + 2 * n <= Len(h) /\ Len(h) - 2 * n >= 2
          BY <1>1, <2>5, <2>6
    <2> QED
        BY <1>3, <1>4, <2>7
  <1> QED
      BY <1>3, <1>5, <1>6

(* What is left after dropping is a paired history of the same parity. *)
LEMMA DroppedPaired ==
    ASSUME NEW h, Paired(h), h # <<>>, NEW header, NEW n \in 0 .. Drops(h, header)
    PROVE  /\ Paired(Dropped(h, n)) /\ Dropped(h, n) # <<>>
           /\ Len(Dropped(h, n)) % 2 = Len(h) % 2
PROOF
  <1> DEFINE d == Dropped(h, n)
  <1>1. h \in Seq(Messages)
        BY DEF Paired
  <1>2. Len(h) \in Nat /\ Len(h) >= 1
        BY <1>1, EmptySeq
  <1>3. n \in Nat /\ Len(d) = Len(h) - 2 * n /\ (n > 0 => Len(d) >= 2)
        BY <1>1, DroppedLength
  <1>4. /\ d \in Seq(Messages)
        /\ d[1] = h[1]
        /\ \A i \in 2 .. Len(d) : d[i] = h[i + 2 * n]
        BY <1>1, <1>3, DroppedIs
  <1> HIDE DEF d
  <1>5. Len(d) \in Nat
        BY <1>4
  <1>6. PICK old \in Nat : old = Len(h) /\ old >= 1
        BY <1>2
  <1>7. PICK new \in Nat : new = Len(d)
        BY <1>5
  <1>8. new = old - 2 * n /\ (n > 0 => new >= 2)
        BY <1>3, <1>6, <1>7
  <1>9. new >= 1
        BY <1>3, <1>6, <1>8
  <1>10. new % 2 = old % 2
        BY <1>3, <1>8
  <1>11. d # <<>>
        BY <1>7, <1>9
  <1>12. ASSUME NEW i \in 1 .. Len(d) PROVE d[i].role = RoleAt(i)
    <2>1. CASE i = 1
      <3>1. h[1].role = RoleAt(1)
            BY <1>2 DEF Paired
      <3> QED
            BY <1>4, <2>1, <3>1
    <2>2. CASE i # 1
      <3>1. i \in 2 .. new /\ i + 2 * n \in 1 .. old
            BY <1>3, <1>7, <1>8, <2>2
      <3>2. h[i + 2 * n].role = RoleAt(i + 2 * n)
            BY <1>6, <3>1 DEF Paired
      <3>3. d[i] = h[i + 2 * n]
            BY <1>4, <1>7, <3>1
      <3>4. i + 2 * n > 1 /\ (i + 2 * n) % 2 = i % 2
            BY <1>3, <3>1
      <3>5. RoleAt(i + 2 * n) = RoleAt(i)
            BY <3>1, <3>4 DEF RoleAt
      <3> QED
            BY <3>2, <3>3, <3>5
    <2> QED
        BY <2>1, <2>2
  <1>13. Paired(d)
        BY <1>4, <1>12 DEF Paired
  <1> QED
      BY <1>6, <1>7, <1>10, <1>11, <1>13 DEF d

(* The next message in turn keeps the history paired. *)
LEMMA AppendPaired ==
    ASSUME NEW h, Paired(h), NEW m \in Messages, m.role = RoleAt(Len(h) + 1)
    PROVE  /\ Paired(Append(h, m)) /\ Append(h, m) # <<>>
           /\ Len(Append(h, m)) = Len(h) + 1 /\ Len(h) \in Nat
PROOF
  <1>1. h \in Seq(Messages)
        BY DEF Paired
  <1>2. /\ Append(h, m) \in Seq(Messages)
        /\ Append(h, m) # <<>>
        /\ Len(Append(h, m)) = Len(h) + 1
        /\ \A i \in 1 .. Len(h) : Append(h, m)[i] = h[i]
        /\ Append(h, m)[Len(h) + 1] = m
        BY <1>1, AppendProperties
  <1>3. PICK len \in Nat : len = Len(h)
        BY <1>1
  <1>4. ASSUME NEW i \in 1 .. len + 1 PROVE Append(h, m)[i].role = RoleAt(i)
    <2>1. CASE i = len + 1
          BY <1>2, <1>3, <2>1
    <2>2. CASE i # len + 1
      <3>1. i \in 1 .. len
            BY <2>2
      <3> QED
            BY <1>2, <1>3, <3>1 DEF Paired
    <2> QED
        BY <2>1, <2>2
  <1> QED
      BY <1>2, <1>3, <1>4 DEF Paired

(* A user message comes after an odd number of messages, a reply after an even
   one. *)
LEMMA NextRole ==
    ASSUME NEW n \in Nat, n > 0
    PROVE  /\ n % 2 = 1 => RoleAt(n + 1) = "user"
           /\ n % 2 = 0 => RoleAt(n + 1) = "assistant"
           /\ n % 2 = 0 <=> ~(n % 2 = 1)
           /\ (n + 1) % 2 = 0 <=> n % 2 = 1
PROOF
  <1>1. n % 2 = 0 <=> ~(n % 2 = 1)
        OBVIOUS
  <1>2. (n + 1) % 2 = 0 <=> n % 2 = 1
        OBVIOUS
  <1>3. (n + 1) % 2 = 1 <=> n % 2 = 0
        OBVIOUS
  <1>4. n + 1 > 1 /\ n + 1 # 1
        OBVIOUS
  <1> QED
      BY <1>1, <1>2, <1>3, <1>4 DEF RoleAt

(* A prompt after a complete turn, and a reply after a prompt. *)
LEMMA PromptPaired ==
    ASSUME NEW h, Paired(h), h # <<>>, Len(h) % 2 # 0, NEW p \in Prompts
    PROVE  LET a == Append(h, Message("user", <<p>>))
           IN  Paired(a) /\ a # <<>> /\ Len(a) % 2 = 0
PROOF
  <1> DEFINE m == Message("user", <<p>>)
  <1>1. m \in Messages /\ m.role = "user"
        BY DEF Message, Messages, Texts, Roles
  <1>2. Len(h) \in Nat /\ Len(h) > 0
        BY EmptySeq DEF Paired
  <1>3. RoleAt(Len(h) + 1) = "user" /\ (Len(h) + 1) % 2 = 0
        BY <1>2, NextRole
  <1> HIDE DEF m
  <1>4. Paired(Append(h, m)) /\ Append(h, m) # <<>> /\ Len(Append(h, m)) = Len(h) + 1
        BY <1>1, <1>3, AppendPaired
  <1> QED
      BY <1>3, <1>4 DEF m

LEMMA ReplyPaired ==
    ASSUME NEW h, Paired(h), h # <<>>, Len(h) % 2 = 0,
           NEW text \in Seq(Vocabulary), Len(text) <= MaxTokens
    PROVE  LET a == WithReply(h, text)
           IN  Paired(a) /\ a # <<>> /\ Len(a) % 2 # 0
PROOF
  <1> DEFINE m == Message("assistant", text)
  <1>1. m \in Messages /\ m.role = "assistant"
        BY DEF Message, Messages, Texts, Roles
  <1>2. Len(h) \in Nat /\ Len(h) > 0
        BY EmptySeq DEF Paired
  <1>3. RoleAt(Len(h) + 1) = "assistant" /\ (Len(h) + 1) % 2 # 0
        BY <1>2, NextRole
  <1> HIDE DEF m
  <1>4. Paired(Append(h, m)) /\ Append(h, m) # <<>> /\ Len(Append(h, m)) = Len(h) + 1
        BY <1>1, <1>3, AppendPaired
  <1> QED
      BY <1>3, <1>4 DEF m, WithReply

(* A new context has the system prompt alone. *)
LEMMA SystemPaired ==
    ASSUME NEW p \in Prompts
    PROVE  LET h == <<Message("system", <<p>>)>>
           IN  Paired(h) /\ h # <<>> /\ Len(h) % 2 # 0
PROOF
  <1> DEFINE m == Message("system", <<p>>)
  <1>1. m \in Messages /\ m.role = "system"
        BY DEF Message, Messages, Texts, Roles
  <1> HIDE DEF m
  <1>2. <<m>> \in Seq(Messages) /\ Len(<<m>>) = 1 /\ <<m>>[1] = m /\ <<m>> # <<>>
        BY <1>1
  <1>3. \A i \in 1 .. 1 : <<m>>[i].role = RoleAt(i)
        BY <1>1, <1>2 DEF RoleAt
  <1>4. 1 % 2 # 0
        OBVIOUS
  <1> QED
      BY <1>2, <1>3, <1>4 DEF Paired, m

(* However decodeAllHistory ends, the turns stay paired. *)
LEMMA DecodeAllHistoryPaired ==
    ASSUME NEW h, Paired(h), h # <<>>, NEW header, NEW c,
           NEW r \in DecodeAllHistory(h, header, c)
    PROVE  /\ Paired(r.history) /\ r.history # <<>>
           /\ Len(r.history) % 2 = Len(h) % 2
PROOF
  <1>1. PICK n \in 0 .. Drops(h, header) : r.history = Dropped(h, n)
    <2>1. Drops(h, header) \in 0 .. Drops(h, header)
      <3>1. Drops(h, header) \in 0 .. Len(h)
            BY DropsIs DEF Paired
      <3>2. Len(h) \in Nat
            BY DEF Paired
      <3> QED
          BY <3>1, <3>2
    <2> QED
        BY <2>1, DecodeAllHistoryEnds DEF Decodes, FailsToTokenize, FailsToDecode
  <1> QED
      BY <1>1, DroppedPaired

(* The chat between two steps: after an even number of messages, and only then,
   a call is in its loop; a reply is only there during a call. *)
ChatInv ==
    /\ Paired(history)
    /\ pc \in {"idle", "generate"}
    /\ cancelled \in BOOLEAN /\ noThink \in BOOLEAN
    /\ history = <<>> => pc = "idle"
    /\ history # <<>> => (Len(history) % 2 = 0 <=> pc = "generate")
    /\ reply \in Seq(Vocabulary) /\ Len(reply) <= MaxTokens
    /\ pc = "idle" => reply = <<>>

LEMMA ChatInit == Init => ChatInv
PROOF
  <1> SUFFICES ASSUME Init PROVE ChatInv
      OBVIOUS
  <1>1. <<>> \in Seq(Messages) /\ <<>> \in Seq(Vocabulary) /\ Len(<<>>) = 0
        OBVIOUS
  <1>2. Paired(<<>>)
        BY <1>1 DEF Paired
  <1>3. Len(<<>>) <= MaxTokens
        BY <1>1, BackendAssumption
  <1> QED
      BY <1>1, <1>2, <1>3 DEF Init, ChatInv

LEMMA ChatNext == ChatInv /\ [Next]_vars => ChatInv'
PROOF
  <1> SUFFICES ASSUME ChatInv, [Next]_vars PROVE ChatInv'
      OBVIOUS
  <1> MaxTokens \in Nat
      BY BackendAssumption
  <1>0. <<>> \in Seq(Vocabulary) /\ Len(<<>>) = 0 /\ Len(<<>>) <= MaxTokens
        OBVIOUS
  <1>1. ASSUME NEW p \in Prompts, CreateFreshContext(p) PROVE ChatInv'
    <2> DEFINE h == <<Message("system", <<p>>)>>
    <2>1. PICK r \in DecodeAllHistory(h, <<>>, NoContext) : history' = r.history
          BY <1>1 DEF CreateFreshContext
    <2>2. Paired(h) /\ h # <<>> /\ Len(h) % 2 # 0
          BY SystemPaired
    <2> HIDE DEF h
    <2>3. /\ Paired(history') /\ history' # <<>>
          /\ Len(history') % 2 = Len(h) % 2
          BY <2>1, <2>2, DecodeAllHistoryPaired
    <2>4. pc = "idle" /\ UNCHANGED <<cancelled, pc, noThink, reply>>
          BY <1>1 DEF CreateFreshContext
    <2> QED
        BY <2>2, <2>3, <2>4 DEF ChatInv
  <1>2. ASSUME NEW p \in Prompts, NEW nt \in BOOLEAN, Synthesize(p, nt)
        PROVE  ChatInv'
    <2> DEFINE h == Append(history, Message("user", <<p>>))
    <2>1. PICK r \in DecodeAllHistory(h, Header(nt), ctx) :
              IF r.ok
              THEN history' = r.history /\ pc' = "generate" /\ noThink' = nt
              ELSE history' = WithReply(r.history, <<>>) /\ UNCHANGED <<pc, noThink>>
          BY <1>2 DEF Synthesize
    <2>2. pc = "idle" /\ history # <<>> /\ UNCHANGED <<cancelled, reply>>
          BY <1>2 DEF Synthesize
    <2>3. Paired(h) /\ h # <<>> /\ Len(h) % 2 = 0
          BY <2>2, PromptPaired DEF ChatInv
    <2> HIDE DEF h
    <2>4. Paired(r.history) /\ r.history # <<>> /\ Len(r.history) % 2 = 0
          BY <2>3, DecodeAllHistoryPaired
    <2>5. CASE r.ok
          BY <2>1, <2>2, <2>4, <2>5 DEF ChatInv
    <2>6. CASE ~r.ok
      <3>1. /\ Paired(history') /\ history' # <<>> /\ Len(history') % 2 # 0
            BY <1>0, <2>1, <2>4, <2>6, ReplyPaired
      <3> QED
          BY <2>1, <2>2, <2>6, <3>1 DEF ChatInv
    <2> QED
        BY <2>5, <2>6
  <1>3. ASSUME NEW t \in Vocabulary, Generate(t) PROVE ChatInv'
    <2> DEFINE said == Append(reply, t)
    <2>1. /\ pc = "generate" /\ Len(reply) < MaxTokens
          /\ UNCHANGED <<cancelled, noThink>>
          BY <1>3 DEF Generate
    <2>2. said \in Seq(Vocabulary) /\ Len(said) <= MaxTokens
          BY <2>1, AppendProperties DEF ChatInv
    <2>3. \/ reply' = said /\ UNCHANGED <<history, pc>>
          \/ history' = WithReply(history, said) /\ reply' = <<>> /\ pc' = "idle"
          BY <1>3 DEF Generate
    <2> HIDE DEF said
    <2>4. CASE reply' = said /\ UNCHANGED <<history, pc>>
          BY <2>1, <2>2, <2>4 DEF ChatInv
    <2>5. CASE history' = WithReply(history, said) /\ reply' = <<>> /\ pc' = "idle"
      <3>1. history # <<>> /\ Len(history) % 2 = 0
            BY <2>1 DEF ChatInv
      <3>2. Paired(history') /\ history' # <<>> /\ Len(history') % 2 # 0
            BY <2>2, <2>5, <3>1, ReplyPaired DEF ChatInv
      <3> QED
          BY <1>0, <2>1, <2>5, <3>2 DEF ChatInv
    <2> QED
        BY <2>3, <2>4, <2>5
  <1>4. CASE Warmup
        BY <1>4 DEF Warmup, ChatInv
  <1>5. CASE Finish
    <2>1. /\ pc = "generate" /\ history' = WithReply(history, reply)
          /\ reply' = <<>> /\ pc' = "idle" /\ UNCHANGED <<cancelled, noThink>>
          BY <1>5 DEF Finish
    <2>2. Paired(history') /\ history' # <<>> /\ Len(history') % 2 # 0
          BY <2>1, ReplyPaired DEF ChatInv
    <2> QED
        BY <1>0, <2>1, <2>2 DEF ChatInv
  <1>6. CASE Cancel
        BY <1>6 DEF Cancel, ChatInv
  <1>7. CASE ResetCancel
        BY <1>7 DEF ResetCancel, ChatInv
  <1>8. CASE UNCHANGED vars
        BY <1>8 DEF vars, ChatInv
  <1> QED
      BY <1>1, <1>2, <1>3, <1>4, <1>5, <1>6, <1>7, <1>8 DEF Next

(* After every sequence of calls, failures, cancels and dropped turns, the
   history is the system prompt with user and assistant in turn. *)
THEOREM Turns == Spec => []TurnsPaired
PROOF
  <1>1. ChatInv => TurnsPaired
    <2> SUFFICES ASSUME ChatInv PROVE TurnsPaired
        OBVIOUS
    <2>1. DOMAIN history = 1 .. Len(history)
          BY DEF ChatInv, Paired
    <2> QED
        BY <2>1 DEF ChatInv, Paired, RoleAt, TurnsPaired
  <1> QED
      BY <1>1, ChatInit, ChatNext, PTL DEF Spec

-----------------------------------------------------------------------------
(***************************************************************************)
(* The context: while a reply is generated it holds the chat.              *)
(***************************************************************************)

AllTokens == Token \cup Vocabulary \cup Roles \cup {"end", "noThink"}

(* Every text of the history is tokenized to tokens. *)
LEMMA TextTokenized ==
    ASSUME NEW text \in Texts
    PROVE  Tokenize(text) \in Seq(Token)
PROOF
  <1>1. CASE text \in {<<p>> : p \in Prompts}
    <2>1. PICK p \in Prompts : text = <<p>>
          BY <1>1
    <2> QED
        BY <2>1, TokenizerAssumption
  <1>2. CASE text \in Seq(Vocabulary) /\ Len(text) <= MaxTokens
    <2>1. Len(text) \in 0 .. MaxTokens /\ text \in [1 .. Len(text) -> Vocabulary]
          BY <1>2, LenProperties, BackendAssumption
    <2> QED
        BY <2>1, TokenizerAssumption
  <1> QED
      BY <1>1, <1>2 DEF Texts

(* The tokens of a history are a sequence, to which the header is added. *)
LEMMA TokensAreSeq ==
    ASSUME NEW h, Paired(h), NEW header \in Seq(AllTokens)
    PROVE  /\ Tokens(h, header) \in Seq(AllTokens)
           /\ Len(Tokens(h, header)) >= Len(header)
PROOF
  <1> DEFINE turns == [i \in DOMAIN h |-> Encode(h[i])]
  <1>1. h \in Seq(Messages) /\ DOMAIN h = 1 .. Len(h) /\ Len(h) \in Nat
        BY DEF Paired
  <1>2. ASSUME NEW m \in Messages PROVE Encode(m) \in Seq(AllTokens)
    <2>1. m.role \in Roles /\ m.text \in Texts
          BY DEF Messages
    <2>2. Tokenize(m.text) \in Seq(AllTokens)
      <3>1. Tokenize(m.text) \in Seq(Token)
            BY <2>1, TextTokenized
      <3>2. Token \subseteq AllTokens
            BY DEF AllTokens
      <3> QED
          BY <3>1, <3>2, SeqMonotonic
    <2>3. m.role \in AllTokens /\ "end" \in AllTokens
          BY <2>1 DEF AllTokens
    <2>4. <<m.role>> \in Seq(AllTokens) /\ <<"end">> \in Seq(AllTokens)
          BY <2>3
    <2>5. <<m.role>> \o Tokenize(m.text) \in Seq(AllTokens)
          BY <2>2, <2>4, ConcatProperties
    <2>6. (<<m.role>> \o Tokenize(m.text)) \o <<"end">> \in Seq(AllTokens)
          BY <2>4, <2>5, ConcatProperties
    <2> QED
        BY <2>6 DEF Encode
  <1>3. turns \in Seq(Seq(AllTokens))
    <2>1. \A i \in 1 .. Len(h) : Encode(h[i]) \in Seq(AllTokens)
          BY <1>1, <1>2
    <2> DEFINE e(i) == Encode(h[i])
    <2>2. \A i \in 1 .. Len(h) : e(i) \in Seq(AllTokens)
          BY <2>1
    <2>3. turns = [i \in 1 .. Len(h) |-> e(i)]
          BY <1>1
    <2> HIDE DEF e, turns
    <2>4. [i \in 1 .. Len(h) |-> e(i)] \in Seq(Seq(AllTokens))
          BY <1>1, <2>2
    <2> QED
        BY <2>3, <2>4
  <1> HIDE DEF turns
  <1>4. FlattenSeq(turns) \in Seq(AllTokens)
        BY <1>3, FlattenIsSeq
  <1>5. Tokens(h, header) = FlattenSeq(turns) \o header
        BY DEF Tokens, turns
  <1> DEFINE flat == FlattenSeq(turns)
  <1>6. flat \in Seq(AllTokens) /\ Tokens(h, header) = flat \o header
        BY <1>4, <1>5
  <1> HIDE DEF flat
  <1>7. /\ flat \o header \in Seq(AllTokens)
        /\ Len(flat \o header) = Len(flat) + Len(header)
        /\ Len(flat) \in Nat /\ Len(header) \in Nat
        BY <1>6, ConcatProperties
  <1>8. Len(flat \o header) >= Len(header)
        BY <1>7
  <1> QED
      BY <1>6, <1>7, <1>8

(* The common prefix of two sequences is common. *)
LEMMA CommonPrefixIs ==
    ASSUME NEW S, NEW s \in Seq(S), NEW t \in Seq(S)
    PROVE  /\ CommonPrefix(s, t) \in 0 .. Least(Len(s), Len(t))
           /\ \A i \in 1 .. CommonPrefix(s, t) : s[i] = t[i]
PROOF
  <1> DEFINE len == Least(Len(s), Len(t))
             D == {n \in Nat : n < len /\ s[n + 1] # t[n + 1]}
             Agrees(n) == /\ \A i \in 1 .. n : s[i] = t[i]
                          /\ n < len => s[n + 1] # t[n + 1]
  <1>1. len \in Nat
        BY DEF Least
  <1>2. CommonPrefix(s, t) = CHOOSE n \in 0 .. len : Agrees(n)
        BY DEF CommonPrefix
  <1> HIDE DEF len
  <1>3. \E n \in 0 .. len : Agrees(n)
    <2>1. CASE D = {}
      <3>1. ASSUME NEW i \in 1 .. len PROVE s[i] = t[i]
        <4>1. PICK n \in Nat : n < len /\ i = n + 1
          <5>1. i - 1 \in Nat /\ i - 1 < len /\ i = (i - 1) + 1
                BY <1>1
          <5> QED
              BY <5>1
        <4> QED
            BY <2>1, <4>1
      <3>2. Agrees(len)
            BY <1>1, <3>1
      <3> HIDE DEF Agrees
      <3> QED
          BY <1>1, <3>2
    <2>2. CASE D # {}
      <3>1. D \subseteq Nat
            OBVIOUS
      <3>2. PICK n \in D : \A m \in D : n <= m
            BY <2>2, <3>1, LeastNumber
      <3>3. ASSUME NEW i \in 1 .. n PROVE s[i] = t[i]
        <4>1. PICK m \in Nat : m < n /\ i = m + 1
          <5>1. i - 1 \in Nat /\ i - 1 < n /\ i = (i - 1) + 1
                BY <3>2
          <5> QED
              BY <5>1
        <4>2. m \notin D /\ m < len
              BY <1>1, <3>2, <4>1
        <4> QED
            BY <4>1, <4>2
      <3>4. Agrees(n)
            BY <3>2, <3>3
      <3>5. n \in 0 .. len
            BY <1>1, <3>2
      <3> HIDE DEF Agrees
      <3> QED
          BY <3>4, <3>5
    <2> QED
        BY <2>1, <2>2
  <1> HIDE DEF Agrees
  <1>4. CommonPrefix(s, t) \in 0 .. len /\ Agrees(CommonPrefix(s, t))
        BY <1>2, <1>3
  <1> QED
      BY <1>4 DEF len, Agrees

(* A context whose contents are tokens, and known or known not to be known. *)
Known(c) ==
    /\ Sound(c) /\ c.unknown \in BOOLEAN
    /\ c.kv \in Seq(AllTokens) /\ c.committed \in Seq(AllTokens)

(* What is kept of a context is the beginning of the tokens to be held, and
   never all of them. *)
LEMMA KeptIs ==
    ASSUME NEW c, Known(c), NEW tokens \in Seq(AllTokens), NEW n \in Kept(c, tokens)
    PROVE  /\ n \in 0 .. Len(tokens) /\ n <= Len(c.committed)
           /\ tokens # <<>> => n < Len(tokens)
           /\ \A i \in 1 .. n : tokens[i] = c.committed[i]
PROOF
  <1> DEFINE same == CommonPrefix(tokens, c.committed)
  <1>1. PICK all \in Nat : all = Len(tokens)
        OBVIOUS
  <1>2. PICK held \in Nat : held = Len(c.committed)
        BY DEF Known
  <1>3. tokens # <<>> => all > 0
        BY <1>1, EmptySeq
  <1>4. /\ same \in 0 .. Least(all, held)
        /\ \A i \in 1 .. same : tokens[i] = c.committed[i]
        BY <1>1, <1>2, CommonPrefixIs DEF Known
  <1> HIDE DEF same
  <1>5. same \in Nat /\ same <= all /\ same <= held
        BY <1>4 DEF Least
  <1>6. CASE n = 0
        BY <1>1, <1>2, <1>3, <1>6
  <1>7. CASE n # 0
    <2>1. n = IF same = all /\ same > 0 THEN same - 1 ELSE same
          BY <1>1, <1>7 DEF Kept, SameCount, same
    <2>2. n \in Nat /\ n <= same /\ (all > 0 => n < all)
          BY <1>5, <2>1
    <2> QED
        BY <1>1, <1>2, <1>3, <1>4, <1>5, <2>2
  <1> QED
      BY <1>6, <1>7

(* A context cut back is known, and holds the beginning of the tokens. *)
LEMMA CutIs ==
    ASSUME NEW c, Known(c), NEW tokens \in Seq(AllTokens), NEW n \in Kept(c, tokens)
    PROVE  /\ Known(Cut(c, n)) /\ ~Cut(c, n).unknown
           /\ Cut(c, n).kv = SubSeq(tokens, 1, n)
PROOF
  <1> DEFINE d == Cut(c, n)
  <1>1. Sound(d)
        BY CutSound DEF Known
  <1>2. d.unknown = FALSE /\ d.committed = SubSeq(c.committed, 1, n)
        BY DEF Cut
  <1> HIDE DEF d
  <1>3. /\ n \in 0 .. Len(tokens) /\ n <= Len(c.committed) /\ n \in Int
        /\ \A i \in 1 .. n : tokens[i] = c.committed[i]
        BY KeptIs
  <1>4. c.committed \in Seq(AllTokens) /\ Len(c.committed) \in Nat
        BY DEF Known
  <1>5. \A i \in 1 .. n : c.committed[i] \in AllTokens /\ tokens[i] \in AllTokens
        BY <1>3, <1>4
  <1>6. /\ SubSeq(c.committed, 1, n) \in Seq(AllTokens)
        /\ Len(SubSeq(c.committed, 1, n)) = IF 1 <= n THEN n - 1 + 1 ELSE 0
        /\ \A i \in 1 .. n - 1 + 1 : SubSeq(c.committed, 1, n)[i] = c.committed[1 + i - 1]
        BY <1>3, <1>5, SubSeqProperties
  <1>7. /\ SubSeq(tokens, 1, n) \in Seq(AllTokens)
        /\ Len(SubSeq(tokens, 1, n)) = IF 1 <= n THEN n - 1 + 1 ELSE 0
        /\ \A i \in 1 .. n - 1 + 1 : SubSeq(tokens, 1, n)[i] = tokens[1 + i - 1]
        BY <1>3, <1>5, SubSeqProperties
  <1> DEFINE left == SubSeq(c.committed, 1, n)
             right == SubSeq(tokens, 1, n)
  <1> HIDE DEF left, right
  <1>8. /\ left \in Seq(AllTokens) /\ Len(left) = n
        /\ \A i \in 1 .. n : left[i] = c.committed[i]
        BY <1>3, <1>6 DEF left
  <1>9. /\ right \in Seq(AllTokens) /\ Len(right) = n
        /\ \A i \in 1 .. n : right[i] = tokens[i]
        BY <1>3, <1>7 DEF right
  <1>10. left = right
        BY <1>3, <1>8, <1>9, SeqEqual
  <1>11. d.committed = right /\ d.kv = right
        BY <1>1, <1>2, <1>10 DEF left, Sound
  <1>12. Known(d)
        BY <1>1, <1>2, <1>9, <1>11 DEF Known
  <1> QED
      BY <1>2, <1>11, <1>12 DEF d, right

(* Decoding keeps a context known, also if it fails after k tokens. *)
LEMMA DecodeKnown ==
    ASSUME NEW c, Known(c), NEW ts \in Seq(AllTokens), NEW k \in 0 .. Len(ts)
    PROVE  Known(Decoded(c, ts)) /\ Known(DecodeFailed(c, ts, k))
PROOF
  <1>1. c.kv \o ts \in Seq(AllTokens) /\ c.committed \o ts \in Seq(AllTokens)
        BY ConcatProperties DEF Known
  <1>2. SubSeq(ts, 1, k) \in Seq(AllTokens)
    <2>1. Len(ts) \in Nat /\ k \in Int
          OBVIOUS
    <2>2. \A i \in 1 .. k : ts[i] \in AllTokens
          BY <2>1
    <2> QED
        BY <2>1, <2>2, SubSeqProperties
  <1>3. c.kv \o SubSeq(ts, 1, k) \in Seq(AllTokens)
        BY <1>2, ConcatProperties DEF Known
  <1>4. Sound(Decoded(c, ts)) /\ Sound(DecodeFailed(c, ts, k))
        BY DecodeSound DEF Known
  <1>5. Known(Decoded(c, ts))
    <2>1. CASE ts = <<>>
          BY <2>1 DEF Decoded
    <2>2. CASE ts # <<>>
      <3>1. /\ Decoded(c, ts).kv = c.kv \o ts
            /\ Decoded(c, ts).committed = c.committed \o ts
            /\ Decoded(c, ts).unknown = c.unknown
            BY <2>2 DEF Decoded
      <3> QED
          BY <1>1, <1>4, <3>1 DEF Known
    <2> QED
        BY <2>1, <2>2
  <1>6. Known(DecodeFailed(c, ts, k))
    <2>1. /\ DecodeFailed(c, ts, k).kv = c.kv \o SubSeq(ts, 1, k)
          /\ DecodeFailed(c, ts, k).committed = c.committed
          /\ DecodeFailed(c, ts, k).unknown = TRUE
          BY DEF DecodeFailed
    <2> QED
        BY <1>3, <1>4, <2>1 DEF Known
  <1> QED
      BY <1>5, <1>6

(* What is to be decoded completes what is kept. *)
LEMMA ToDoIs ==
    ASSUME NEW tokens \in Seq(AllTokens), NEW n \in 0 .. Len(tokens)
    PROVE  /\ ToDo(tokens, n) \in Seq(AllTokens)
           /\ n < Len(tokens) => ToDo(tokens, n) # <<>>
           /\ SubSeq(tokens, 1, n) \o ToDo(tokens, n) = tokens
PROOF
  <1>1. PICK all \in Nat : all = Len(tokens)
        OBVIOUS
  <1>2. n \in Nat /\ n <= all /\ n + 1 \in Int /\ all \in Int
        BY <1>1
  <1>3. \A i \in n + 1 .. all : tokens[i] \in AllTokens
        BY <1>1, <1>2
  <1> DEFINE todo == SubSeq(tokens, n + 1, all)
  <1>4. /\ todo \in Seq(AllTokens)
        /\ Len(todo) = IF n + 1 <= all THEN all - (n + 1) + 1 ELSE 0
        BY <1>2, <1>3, SubSeqProperties
  <1>5. SubSeq(tokens, 1, n) \o todo = SubSeq(tokens, 1, all)
    <2>1. /\ 1 \in 1 .. Len(tokens) + 1
          /\ n \in 1 - 1 .. Len(tokens)
          /\ all \in n .. Len(tokens)
          BY <1>1, <1>2
    <2> QED
        BY <2>1, ConcatAdjacentSubSeq
  <1>6. SubSeq(tokens, 1, all) = tokens
        BY <1>1, SubSeqFull
  <1>7. ToDo(tokens, n) = todo
        BY <1>1 DEF ToDo
  <1> HIDE DEF todo
  <1>8. n < all => todo # <<>>
    <2> SUFFICES ASSUME n < all, todo = <<>> PROVE FALSE
        OBVIOUS
    <2>1. Len(todo) = all - n
          BY <1>2, <1>4
    <2> QED
        BY <1>2, <2>1
  <1> QED
      BY <1>1, <1>4, <1>5, <1>6, <1>7, <1>8

(* When decodeAllHistory succeeds, the context holds the tokens of the history
   it kept, and the scores come after the last of them. *)
Holds(c, tokens) == c.kv = tokens /\ c.logits = c.kv

LEMMA DecodeAllHistoryHolds ==
    ASSUME NEW h, Paired(h), h # <<>>, NEW header \in Seq(AllTokens),
           NEW c, Known(c), NEW r \in DecodeAllHistory(h, header, c)
    PROVE  /\ Known(r.ctx)
           /\ r.ok /\ header # <<>> => Holds(r.ctx, Tokens(r.history, header))
PROOF
  <1> DEFINE kept == Dropped(h, Drops(h, header))
             tokens == Tokens(kept, header)
  <1>1. Paired(kept)
    <2>1. Drops(h, header) \in 0 .. Len(h) /\ Len(h) \in Nat
          BY DropsIs DEF Paired
    <2>2. Drops(h, header) \in 0 .. Drops(h, header)
          BY <2>1
    <2> QED
        BY <2>2, DroppedPaired
  <1> HIDE DEF kept
  <1>2. tokens \in Seq(AllTokens) /\ Len(tokens) >= Len(header)
        BY <1>1, TokensAreSeq
  <1>3. header # <<>> => tokens # <<>>
    <2> SUFFICES ASSUME header # <<>> PROVE tokens # <<>>
        OBVIOUS
    <2>1. Len(header) \in Nat \ {0}
          BY EmptySeq
    <2>2. Len(tokens) # 0
          BY <1>2, <2>1
    <2> QED
        BY <2>2, EmptySeq
  <1> HIDE DEF tokens
  <1>4. ASSUME NEW n \in Kept(c, tokens)
        PROVE  /\ n \in 0 .. Len(tokens) /\ (tokens # <<>> => n < Len(tokens))
               /\ Known(Cut(c, n)) /\ Cut(c, n).kv = SubSeq(tokens, 1, n)
               /\ ToDo(tokens, n) \in Seq(AllTokens)
               /\ n < Len(tokens) => ToDo(tokens, n) # <<>>
               /\ SubSeq(tokens, 1, n) \o ToDo(tokens, n) = tokens
    <2>1. n \in 0 .. Len(tokens) /\ (tokens # <<>> => n < Len(tokens))
          BY <1>2, KeptIs
    <2>2. Known(Cut(c, n)) /\ Cut(c, n).kv = SubSeq(tokens, 1, n)
          BY <1>2, CutIs
    <2> QED
        BY <1>2, <2>1, <2>2, ToDoIs
  <1>5. CASE Decodes(r, h, header, c)
    <2>1. PICK n \in Kept(c, tokens) : r.ctx = Decoded(Cut(c, n), ToDo(tokens, n))
          BY <1>5 DEF Decodes, kept, tokens
    <2> DEFINE d == Cut(c, n)
               todo == ToDo(tokens, n)
    <2>2. /\ Known(d) /\ d.kv = SubSeq(tokens, 1, n) /\ todo \in Seq(AllTokens)
          /\ (tokens # <<>> => todo # <<>>) /\ SubSeq(tokens, 1, n) \o todo = tokens
          BY <1>4
    <2>3. r.ctx = Decoded(d, todo)
          BY <2>1
    <2> HIDE DEF d, todo
    <2>4. Known(r.ctx)
      <3>1. 0 \in 0 .. Len(todo)
            BY <2>2
      <3> QED
          BY <2>2, <2>3, <3>1, DecodeKnown
    <2>5. ASSUME tokens # <<>> PROVE Holds(r.ctx, tokens)
      <3>1. todo # <<>>
            BY <2>2, <2>5
      <3>2. Decoded(d, todo) = [kv |-> d.kv \o todo, logits |-> d.kv \o todo,
                                committed |-> d.committed \o todo, unknown |-> d.unknown]
            BY <3>1 DEF Decoded
      <3>3. Decoded(d, todo).kv = d.kv \o todo /\ Decoded(d, todo).logits = d.kv \o todo
            BY <3>2
      <3>4. r.ctx.kv = d.kv \o todo /\ r.ctx.logits = d.kv \o todo
            BY <2>3, <3>3
      <3> QED
          BY <2>2, <3>4 DEF Holds
    <2>6. r.history = kept
          BY <1>5 DEF Decodes, kept
    <2> QED
        BY <1>3, <2>4, <2>5, <2>6 DEF tokens
  <1>6. CASE FailsToTokenize(r, h, header, c)
        BY <1>6 DEF FailsToTokenize
  <1>7. CASE FailsToDecode(r, h, header, c)
    <2>1. PICK n \in Kept(c, tokens) : \E k \in 0 .. Len(ToDo(tokens, n)) :
              r.ctx = DecodeFailed(Cut(c, n), ToDo(tokens, n), k)
          BY <1>7 DEF FailsToDecode, kept, tokens
    <2>2. Known(r.ctx)
          BY <1>4, <2>1, DecodeKnown
    <2> QED
        BY <1>7, <2>2 DEF FailsToDecode
  <1> QED
      BY <1>5, <1>6, <1>7, DecodeAllHistoryEnds

(* The context between two steps: its contents are known or known not to be,
   and during a call they are the chat and the reply. *)
HeldInv == Known(ctx) /\ ModelSeesChat

LEMMA NoContextKnown == Known(NoContext)
PROOF
  <1>1. <<>> \in Seq(AllTokens)
        OBVIOUS
  <1> QED
      BY <1>1 DEF Known, Sound, NoContext

LEMMA HeaderIs ==
    ASSUME NEW nt \in BOOLEAN
    PROVE  Header(nt) \in Seq(AllTokens) /\ Header(nt) # <<>>
PROOF
  <1>1. "assistant" \in AllTokens /\ "noThink" \in AllTokens
        BY DEF AllTokens, Roles
  <1>2. /\ <<"assistant">> \in Seq(AllTokens) /\ <<"assistant">> # <<>>
        /\ <<"assistant", "noThink">> \in Seq(AllTokens)
        /\ <<"assistant", "noThink">> # <<>>
        BY <1>1
  <1> QED
      BY <1>2 DEF Header

LEMMA HeldNext == ChatInv /\ HeldInv /\ [Next]_vars => HeldInv'
PROOF
  <1> SUFFICES ASSUME ChatInv, HeldInv, [Next]_vars PROVE HeldInv'
      OBVIOUS
  <1>0. Known(ctx') /\ pc' = "idle" => HeldInv'
        BY DEF HeldInv, ModelSeesChat, Known, Sound
  <1>1. ASSUME NEW p \in Prompts, CreateFreshContext(p) PROVE HeldInv'
    <2> DEFINE h == <<Message("system", <<p>>)>>
    <2>1. PICK r \in DecodeAllHistory(h, <<>>, NoContext) : ctx' = r.ctx
          BY <1>1 DEF CreateFreshContext
    <2>2. Paired(h) /\ h # <<>>
          BY SystemPaired
    <2>3. <<>> \in Seq(AllTokens)
          OBVIOUS
    <2> HIDE DEF h
    <2>4. Known(ctx')
          BY <2>1, <2>2, <2>3, NoContextKnown, DecodeAllHistoryHolds
    <2>5. pc' = "idle"
          BY <1>1 DEF CreateFreshContext
    <2> QED
        BY <1>0, <2>4, <2>5
  <1>2. ASSUME NEW p \in Prompts, NEW nt \in BOOLEAN, Synthesize(p, nt)
        PROVE  HeldInv'
    <2> DEFINE h == Append(history, Message("user", <<p>>))
    <2>1. PICK r \in DecodeAllHistory(h, Header(nt), ctx) :
              /\ ctx' = r.ctx
              /\ IF r.ok
                 THEN history' = r.history /\ pc' = "generate" /\ noThink' = nt
                 ELSE history' = WithReply(r.history, <<>>) /\ UNCHANGED <<pc, noThink>>
          BY <1>2 DEF Synthesize
    <2>2. pc = "idle" /\ history # <<>> /\ UNCHANGED reply
          BY <1>2 DEF Synthesize
    <2>3. Paired(h) /\ h # <<>>
          BY <2>2, PromptPaired DEF ChatInv
    <2> HIDE DEF h
    <2>4. /\ Known(r.ctx)
          /\ r.ok => Holds(r.ctx, Tokens(r.history, Header(nt)))
          /\ Paired(r.history)
          BY <2>3, HeaderIs, DecodeAllHistoryHolds, DecodeAllHistoryPaired DEF HeldInv
    <2>5. CASE ~r.ok
          BY <1>0, <2>1, <2>2, <2>4, <2>5
    <2>6. CASE r.ok
      <3>1. /\ history' = r.history /\ noThink' = nt /\ reply' = <<>> /\ ctx' = r.ctx
            BY <2>1, <2>2, <2>6 DEF ChatInv
      <3>2. Tokens(history', Header(nt)) \o <<>> = Tokens(history', Header(nt))
        <4>1. Tokens(history', Header(nt)) \in Seq(AllTokens)
              BY <2>4, <3>1, HeaderIs, TokensAreSeq
        <4> QED
            BY <4>1, ConcatEmptySeq
      <3>3. ctx'.kv = Tokens(history', Header(noThink')) \o reply' /\ ctx'.logits = ctx'.kv
            BY <2>4, <2>6, <3>1, <3>2 DEF Holds
      <3> QED
          BY <2>4, <3>1, <3>3 DEF HeldInv, ModelSeesChat, Known, Sound, Tokens, Header, Encode
    <2> QED
        BY <2>5, <2>6
  <1>3. ASSUME NEW t \in Vocabulary, Generate(t) PROVE HeldInv'
    <2>1. pc = "generate" /\ UNCHANGED noThink
          BY <1>3 DEF Generate
    <2>2. <<t>> \in Seq(AllTokens) /\ Len(<<t>>) = 1 /\ <<t>> # <<>>
          BY DEF AllTokens
    <2>3. \/ ctx' = Decoded(ctx, <<t>>) /\ reply' = Append(reply, t) /\ UNCHANGED <<history, pc>>
          \/ (\E n \in 0 .. 1 : ctx' = DecodeFailed(ctx, <<t>>, n)) /\ pc' = "idle"
          BY <1>3 DEF Generate
    <2>4. ASSUME NEW n \in 0 .. 1
          PROVE  Known(Decoded(ctx, <<t>>)) /\ Known(DecodeFailed(ctx, <<t>>, n))
          BY <2>2, DecodeKnown DEF HeldInv
    <2>5. CASE (\E n \in 0 .. 1 : ctx' = DecodeFailed(ctx, <<t>>, n)) /\ pc' = "idle"
          BY <1>0, <2>4, <2>5
    <2>6. CASE ctx' = Decoded(ctx, <<t>>) /\ reply' = Append(reply, t) /\ UNCHANGED <<history, pc>>
      <3> DEFINE before == Tokens(history, Header(noThink))
      <3>1. 0 \in 0 .. 1
            OBVIOUS
      <3>2. Known(ctx')
            BY <2>4, <2>6, <3>1
      <3>3. before \in Seq(AllTokens)
            BY HeaderIs, TokensAreSeq DEF ChatInv
      <3>4. ctx'.kv = ctx.kv \o <<t>> /\ ctx'.logits = ctx.kv \o <<t>>
            BY <2>2, <2>6 DEF Decoded
      <3>5. ctx.kv = before \o reply
            BY <2>1 DEF HeldInv, ModelSeesChat
      <3> HIDE DEF before
      <3>6. reply \in Seq(AllTokens) /\ Append(reply, t) = reply \o <<t>>
        <4>1. reply \in Seq(Vocabulary)
              BY DEF ChatInv
        <4>2. Vocabulary \subseteq AllTokens
              BY DEF AllTokens
        <4> QED
            BY <4>1, <4>2, SeqMonotonic, AppendIsConcat
      <3>7. (before \o reply) \o <<t>> = before \o (reply \o <<t>>)
            BY <2>2, <3>3, <3>6, ConcatAssociative
      <3>8. ctx'.kv = before \o reply' /\ ctx'.logits = ctx'.kv
            BY <2>6, <3>4, <3>5, <3>6, <3>7
      <3> QED
          BY <2>1, <2>6, <3>2, <3>8
          DEF HeldInv, ModelSeesChat, Known, Sound, before, Tokens, Header, Encode
    <2> QED
        BY <2>3, <2>5, <2>6
  <1>4. CASE Warmup
    <2>1. /\ pc' = "idle"
          /\ ctx' = [kv |-> <<>>, logits |-> <<"filler">>, committed |-> <<>>,
                     unknown |-> TRUE]
          BY <1>4 DEF Warmup
    <2>2. <<>> \in Seq(AllTokens)
          OBVIOUS
    <2>3. Known(ctx')
          BY <2>1, <2>2 DEF Known, Sound
    <2> QED
        BY <1>0, <2>1, <2>3
  <1>5. CASE Finish
    <2>1. pc' = "idle" /\ ctx' = ctx
          BY <1>5 DEF Finish
    <2> QED
        BY <1>0, <2>1 DEF HeldInv
  <1>6. CASE Cancel \/ ResetCancel \/ UNCHANGED vars
    <2>1. UNCHANGED <<history, ctx, pc, noThink, reply>>
          BY <1>6 DEF Cancel, ResetCancel, vars
    <2> QED
        BY <2>1 DEF HeldInv, ModelSeesChat, Known, Sound, Tokens, Header, Encode
  <1> QED
      BY <1>1, <1>2, <1>3, <1>4, <1>5, <1>6 DEF Next

(* Whatever was decoded, cut back, dropped or failed before, each token of a
   reply is sampled after exactly the chat history and the reply so far. *)
THEOREM Faithful == Spec => []ModelSeesChat
PROOF
  <1>1. Init => HeldInv
        BY NoContextKnown DEF Init, HeldInv, ModelSeesChat
  <1>2. HeldInv => ModelSeesChat
        BY DEF HeldInv
  <1> QED
      BY <1>1, <1>2, ChatInit, ChatNext, HeldNext, PTL DEF Spec

(* The variables keep their types. *)
THEOREM BackendTypeOK == Spec => []TypeOK
PROOF
  <1>1. Init => HeldInv
        BY NoContextKnown DEF Init, HeldInv, ModelSeesChat
  <1>2. ChatInv /\ HeldInv => TypeOK
    <2> SUFFICES ASSUME ChatInv, HeldInv PROVE TypeOK
        OBVIOUS
    <2>1. ASSUME NEW i \in DOMAIN history
          PROVE  /\ history[i].role \in Roles
                 /\ history[i].text \in Seq(Prompts \cup Vocabulary)
      <3>1. history[i] \in Messages
            BY DEF ChatInv, Paired
      <3>2. history[i].role \in Roles /\ history[i].text \in Texts
            BY <3>1 DEF Messages
      <3>3. ASSUME NEW text \in Texts PROVE text \in Seq(Prompts \cup Vocabulary)
        <4>1. CASE text \in {<<p>> : p \in Prompts}
          <5>1. PICK p \in Prompts : text = <<p>>
                BY <4>1
          <5>2. p \in Prompts \cup Vocabulary
                OBVIOUS
          <5>3. <<p>> \in Seq(Prompts \cup Vocabulary)
                BY <5>2
          <5> QED
              BY <5>1, <5>3
        <4>2. CASE text \in Seq(Vocabulary)
              BY <4>2, SeqMonotonic
        <4> QED
            BY <4>1, <4>2 DEF Texts
      <3> QED
          BY <3>2, <3>3
    <2>2. ctx.unknown \in BOOLEAN
          BY DEF HeldInv, Known
    <2> QED
        BY <2>1, <2>2 DEF ChatInv, TypeOK
  <1> QED
      BY <1>1, <1>2, ChatInit, ChatNext, HeldNext, PTL DEF Spec
=============================================================================
