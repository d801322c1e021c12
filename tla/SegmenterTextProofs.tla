------------------------ MODULE SegmenterTextProofs ------------------------
(***************************************************************************)
(* More theorems about Segmenter, for every input and every cut of it into *)
(* pieces: the segments have all words and all tags of the text that is    *)
(* shown, in its order.                                                    *)
(***************************************************************************)
EXTENDS SegmenterProofs

(***************************************************************************)
(* Lists, put end to end.                                                  *)
(***************************************************************************)

(* The elements of xs, one after the other. *)
Flats(q, xs) == q[0] = <<>> /\ \A k \in 1 .. Len(xs) : q[k] = q[k - 1] \o xs[k]

(* FlattenSeq takes them in their order. *)
LEMMA FlattenIs ==
    ASSUME NEW S, NEW xs \in Seq(Seq(S))
    PROVE  \E q : /\ Flats(q, xs) /\ FlattenSeq(xs) = q[Len(xs)]
                  /\ \A k \in 0 .. Len(xs) : q[k] \in Seq(S)
PROOF
  <1>1. PICK n \in Nat : n = Len(xs) /\ DOMAIN xs = 1 .. n
        OBVIOUS
  <1> DEFINE f == CHOOSE g : Flat(g, xs)
             q == [i \in 0 .. n |-> IF i = 0 THEN <<>> ELSE f[i]]
  <1>2. n # 0 => FlattenSeq(xs) = f[n]
        BY <1>1 DEF FlattenSeq, Flat
  <1>3. Flat(f, xs)
        BY FlatExists
  <1> HIDE DEF f
  <1>4. \A i \in 1 .. n : f[i] = IF i = 1 THEN xs[i] ELSE f[i - 1] \o xs[i]
        BY <1>1, <1>3 DEF Flat
  <1>5. q[0] = <<>> /\ \A i \in 1 .. n : q[i] = f[i] /\ i \in 0 .. n
        OBVIOUS
  <1> HIDE DEF q
  <1> DEFINE T == {k \in 0 .. n : q[k] \in Seq(S) /\ (k # 0 => q[k] = q[k - 1] \o xs[k])}
  <1>6. 0 \in T
    <2>1. 0 \in 0 .. n /\ <<>> \in Seq(S) /\ ~(0 # 0)
          OBVIOUS
    <2>2. q[0] \in Seq(S)
          BY <1>5, <2>1
    <2> QED
        BY <2>1, <2>2
  <1>7. ASSUME NEW k \in 1 .. n, k - 1 \in T PROVE k \in T
    <2>1. PICK m \in 0 .. n : m = k - 1 /\ (k # 1 => m \in 1 .. n) /\ (k = 1 => m = 0)
          OBVIOUS
    <2>2. q[m] \in Seq(S) /\ xs[k] \in Seq(S)
          BY <1>1, <1>7, <2>1
    <2>3. q[k] = q[m] \o xs[k]
      <3>1. CASE k = 1
        <4>1. q[k] = xs[k] /\ q[m] = <<>>
              BY <1>4, <1>5, <2>1, <3>1
        <4>2. <<>> \o xs[k] = xs[k]
              BY <2>2, ConcatEmptySeq
        <4> QED
            BY <4>1, <4>2
      <3>2. CASE k # 1
        <4>1. f[k] = f[k - 1] \o xs[k]
              BY <1>4, <3>2
        <4>2. q[k] = f[k] /\ q[m] = f[m]
              BY <1>5, <2>1, <3>2
        <4> QED
            BY <2>1, <4>1, <4>2
      <3> QED
          BY <3>1, <3>2
    <2>4. q[k] \in Seq(S)
          BY <2>2, <2>3, ConcatProperties
    <2>5. k \in 0 .. n
          OBVIOUS
    <2> QED
        BY <2>1, <2>3, <2>4, <2>5
  <1> HIDE DEF T
  <1>8. 0 .. n \subseteq T
        BY <1>6, <1>7, UpInduction
  <1>9. \A i \in 0 .. n : q[i] \in Seq(S)
        BY <1>8 DEF T
  <1>10. Flats(q, xs)
    <2>1. \A i \in 1 .. n : i \in 0 .. n /\ i # 0
          OBVIOUS
    <2> QED
        BY <1>1, <1>5, <1>8, <2>1 DEF T, Flats
  <1>11. FlattenSeq(xs) = q[n]
    <2>1. CASE n = 0
      <3>1. xs = <<>> /\ FlattenSeq(xs) = xs
            BY <1>1, <2>1 DEF FlattenSeq
      <3> QED
          BY <1>5, <2>1, <3>1
    <2>2. CASE n # 0
      <3>1. n \in 1 .. n
            BY <2>2
      <3> QED
          BY <1>2, <1>5, <2>2, <3>1
    <2> QED
        BY <2>1, <2>2
  <1> QED
      BY <1>1, <1>9, <1>10, <1>11

(* There is one way to do it. *)
LEMMA FlattenUnique ==
    ASSUME NEW S, NEW xs \in Seq(Seq(S)), NEW q, Flats(q, xs)
    PROVE  q[Len(xs)] = FlattenSeq(xs) /\ \A k \in 0 .. Len(xs) : q[k] \in Seq(S)
PROOF
  <1>1. PICK n \in Nat : n = Len(xs)
        OBVIOUS
  <1>2. PICK h : /\ Flats(h, xs) /\ FlattenSeq(xs) = h[n]
                 /\ \A k \in 0 .. n : h[k] \in Seq(S)
        BY <1>1, FlattenIs
  <1> DEFINE T == {k \in 0 .. n : q[k] = h[k]}
  <1>3. 0 \in T
        BY <1>2 DEF Flats
  <1>4. ASSUME NEW k \in 1 .. n, k - 1 \in T PROVE k \in T
    <2>1. q[k] = q[k - 1] \o xs[k] /\ h[k] = h[k - 1] \o xs[k]
          BY <1>1, <1>2 DEF Flats
    <2>2. k \in 0 .. n
          OBVIOUS
    <2> QED
        BY <1>4, <2>1, <2>2
  <1>5. n \in 0 .. n
        OBVIOUS
  <1> HIDE DEF T
  <1>6. 0 .. n \subseteq T
        BY <1>3, <1>4, UpInduction
  <1> QED
      BY <1>1, <1>2, <1>5, <1>6 DEF T

(* c is u with v behind it, of the lengths n and m. *)
Border(S, c, u, n, v, m) ==
    /\ u \in Seq(S) /\ v \in Seq(S) /\ c \in Seq(S) /\ n = Len(u) /\ m = Len(v) /\ Len(c) = n + m
    /\ \A k \in 1 .. n : c[k] = u[k]
    /\ \A k \in 1 .. m : c[n + k] = v[k]

(* Two lists after each other. *)
LEMMA ListMore ==
    ASSUME NEW D, NEW a \in Seq(D), NEW b \in Seq(D), NEW n \in Nat, n = Len(a),
           NEW m \in Nat, m = Len(b)
    PROVE  Border(D, a \o b, a, n, b, m)
PROOF
  <1>1. PICK c : c = a \o b
        OBVIOUS
  <1>2. Both(D, c, a, n, b, m)
        BY <1>1, MoreIs
  <1>3. /\ \A k \in 1 .. n : a[k] = c[1 + k - 1]
        /\ \A k \in 1 .. m : b[k] = c[n + 1 + k - 1]
        BY <1>2 DEF Both, PartAt
  <1>4. \A k \in 1 .. n : 1 + k - 1 = k
        OBVIOUS
  <1>5. \A k \in 1 .. m : n + 1 + k - 1 = n + k
        OBVIOUS
  <1>6. /\ \A k \in 1 .. n : c[k] = a[k]
        /\ \A k \in 1 .. m : c[n + k] = b[k]
        BY <1>3, <1>4, <1>5
  <1> QED
      BY <1>1, <1>2, <1>6 DEF Both, Border

(* A list that has the elements of both. *)
LEMMA BorderIs ==
    ASSUME NEW S, NEW c, NEW u, NEW v, NEW n \in Nat, NEW m \in Nat, Border(S, c, u, n, v, m)
    PROVE  c = u \o v
PROOF
  <1>1. /\ u \in Seq(S) /\ v \in Seq(S) /\ c \in Seq(S)
        /\ Len(u) = n /\ Len(v) = m /\ Len(c) = n + m
        BY DEF Border
  <1>2. /\ \A k \in 1 .. n : u[k] = c[1 + k - 1]
        /\ \A k \in 1 .. m : v[k] = c[n + 1 + k - 1]
    <2>1. \A k \in 1 .. n : 1 + k - 1 = k
          OBVIOUS
    <2>2. \A k \in 1 .. m : n + 1 + k - 1 = n + k
          OBVIOUS
    <2> QED
        BY <2>1, <2>2 DEF Border
  <1>3. Both(S, c, u, n, v, m)
        BY <1>1, <1>2 DEF Both, PartAt
  <1> QED
      BY <1>3, BothAre

(* What is put end to end in two lists is that of both. *)
LEMMA FlattenBoth ==
    ASSUME NEW S, NEW a \in Seq(Seq(S)), NEW b \in Seq(Seq(S))
    PROVE  /\ FlattenSeq(a \o b) = FlattenSeq(a) \o FlattenSeq(b)
           /\ FlattenSeq(a) \in Seq(S) /\ FlattenSeq(b) \in Seq(S)
PROOF
  <1>1. PICK n \in Nat : n = Len(a)
        OBVIOUS
  <1>2. PICK m \in Nat : m = Len(b)
        OBVIOUS
  <1>3. PICK c : c = a \o b
        OBVIOUS
  <1>4. /\ c \in Seq(Seq(S)) /\ Len(c) = n + m
        /\ \A k \in 1 .. n : c[k] = a[k]
        /\ \A k \in 1 .. m : c[n + k] = b[k]
    <2>1. Border(Seq(S), c, a, n, b, m)
          BY <1>1, <1>2, <1>3, ListMore
    <2> QED
        BY <2>1 DEF Border
  <1>5. PICK f : Flats(f, a) /\ FlattenSeq(a) = f[n] /\ \A k \in 0 .. n : f[k] \in Seq(S)
        BY <1>1, FlattenIs
  <1>6. PICK g : Flats(g, b) /\ FlattenSeq(b) = g[m] /\ \A k \in 0 .. m : g[k] \in Seq(S)
        BY <1>2, FlattenIs
  <1>7. PICK v \in Seq(S) : v = f[n]
        BY <1>5
  <1>8. \A y, z \in Seq(S) : (v \o y) \o z = v \o (y \o z)
        BY ConcatAssociative
  <1> DEFINE h == [k \in 0 .. n + m |-> IF k <= n THEN f[k] ELSE v \o g[k - n]]
  <1>9. \A k \in 0 .. n + m : h[k] = IF k <= n THEN f[k] ELSE v \o g[k - n]
        OBVIOUS
  <1> HIDE DEF h
  <1>10. h[0] = <<>>
    <2>1. 0 \in 0 .. n + m /\ 0 <= n
          OBVIOUS
    <2> QED
        BY <1>5, <1>9, <2>1 DEF Flats
  <1>11. \A k \in 0 .. n + m : k >= n => h[k] = v \o g[k - n]
    <2> SUFFICES ASSUME NEW k \in 0 .. n + m, k >= n PROVE h[k] = v \o g[k - n]
        OBVIOUS
    <2>1. CASE k = n
      <3>1. k - n = 0 /\ k <= n
            BY <2>1
      <3>2. h[k] = v /\ g[0] = <<>>
            BY <1>6, <1>7, <1>9, <2>1, <3>1 DEF Flats
      <3>3. v \o <<>> = v
            BY ConcatEmptySeq
      <3> QED
          BY <3>1, <3>2, <3>3
    <2>2. CASE k # n
      <3>1. ~(k <= n)
            BY <2>2
      <3> QED
          BY <1>9, <3>1
    <2> QED
        BY <2>1, <2>2
  <1>12. ASSUME NEW k \in 1 .. n + m PROVE h[k] = h[k - 1] \o c[k]
    <2>1. PICK j \in 0 .. n + m : j = k - 1 /\ k \in 0 .. n + m
          OBVIOUS
    <2>2. CASE k <= n
      <3>1. k \in 1 .. n /\ j <= n
            BY <2>1, <2>2
      <3>2. f[k] = f[j] \o a[k]
            BY <1>1, <1>5, <2>1, <3>1 DEF Flats
      <3>3. h[k] = f[k] /\ h[j] = f[j]
            BY <1>9, <2>1, <2>2, <3>1
      <3> QED
          BY <1>4, <2>1, <3>1, <3>2, <3>3
    <2>3. CASE ~(k <= n)
      <3>1. PICK i \in 1 .. m : i = k - n
            BY <2>3
      <3>2. PICK d \in 0 .. m : d = i - 1
            OBVIOUS
      <3>3. n + i = k /\ j - n = d /\ j >= n /\ k >= n
            BY <2>1, <2>3, <3>1, <3>2
      <3>4. g[i] = g[d] \o b[i]
            BY <1>2, <1>6, <3>2 DEF Flats
      <3>5. h[k] = v \o g[i] /\ h[j] = v \o g[d]
            BY <1>11, <2>1, <3>1, <3>3
      <3>6. c[k] = b[i] /\ g[d] \in Seq(S)
            BY <1>4, <1>6, <3>3
      <3>7. b[i] \in Seq(S)
            BY <1>2
      <3>8. PICK y \in Seq(S) : y = g[d]
            BY <3>6
      <3>9. PICK z \in Seq(S) : z = b[i]
            BY <3>7
      <3>10. (v \o y) \o z = v \o (y \o z)
             BY <1>8
      <3> QED
          BY <2>1, <3>4, <3>5, <3>6, <3>8, <3>9, <3>10
    <2> QED
        BY <2>2, <2>3
  <1>13. Flats(h, c)
        BY <1>4, <1>10, <1>12 DEF Flats
  <1>14. h[n + m] = v \o g[m]
    <2>1. n + m \in 0 .. n + m /\ n + m >= n /\ n + m - n = m
          OBVIOUS
    <2> QED
        BY <1>11, <2>1
  <1>15. h[n + m] = FlattenSeq(c)
        BY <1>4, <1>13, FlattenUnique
  <1>16. g[m] \in Seq(S)
        BY <1>6
  <1> QED
      BY <1>3, <1>5, <1>6, <1>7, <1>14, <1>15, <1>16

(* Positions that hold nothing add nothing. *)
LEMMA FlatsSame ==
    ASSUME NEW S, NEW xs \in Seq(Seq(S)), NEW q, Flats(q, xs), NEW n \in Nat, n = Len(xs),
           NEW a \in 0 .. n, NEW b \in a .. n
    PROVE  (\A k \in a + 1 .. b : xs[k] = <<>>) => q[b] = q[a]
PROOF
  <1> SUFFICES ASSUME \A k \in a + 1 .. b : xs[k] = <<>> PROVE q[b] = q[a]
      OBVIOUS
  <1> DEFINE T == {k \in 0 .. n : a <= k /\ k <= b => q[k] = q[a]}
  <1>1. 0 \in T
    <2>1. 0 \in 0 .. n /\ (a <= 0 => a = 0)
          OBVIOUS
    <2> QED
        BY <2>1
  <1>2. ASSUME NEW k \in 1 .. n, k - 1 \in T PROVE k \in T
    <2>1. k \in 0 .. n /\ a \in 0 .. n
          OBVIOUS
    <2> SUFFICES ASSUME a <= k, k <= b PROVE q[k] = q[a]
        BY <2>1
    <2>2. CASE a = k
          BY <2>2
    <2>3. CASE a # k
      <3>1. k \in a + 1 .. b /\ a <= k - 1 /\ k - 1 <= b
            BY <2>3
      <3>2. q[k - 1] = q[a]
            BY <1>2, <3>1
      <3>3. q[k] = q[k - 1] \o <<>>
            BY <3>1 DEF Flats
      <3>4. q[a] \in Seq(S)
            BY <2>1, FlattenUnique
      <3>5. q[a] \o <<>> = q[a]
            BY <3>4, ConcatEmptySeq
      <3> QED
          BY <3>2, <3>3, <3>5
    <2> QED
        BY <2>2, <2>3
  <1>3. b \in 0 .. n /\ a <= b
        OBVIOUS
  <1> HIDE DEF T
  <1>4. b \in T
        BY <1>1, <1>2, <1>3, UpInduction
  <1> QED
      BY <1>3, <1>4 DEF T

(* One element, or none. *)
LEMMA FlattenOne ==
    ASSUME NEW S, NEW x \in Seq(S)
    PROVE  FlattenSeq(<<x>>) = x /\ FlattenSeq(<<>>) = <<>>
PROOF
  <1>1. PICK xs : xs = <<x>>
        OBVIOUS
  <1>2. PICK D : D = Seq(S)
        OBVIOUS
  <1>3. xs \in Seq(D) /\ Len(xs) = 1 /\ xs[1] = x
        BY <1>1, <1>2
  <1>4. PICK q : Flats(q, xs) /\ FlattenSeq(xs) = q[1]
        BY <1>2, <1>3, FlattenIs
  <1>5. q[0] = <<>> /\ q[1] = q[0] \o xs[1]
    <2>1. 1 \in 1 .. Len(xs) /\ 1 - 1 = 0
          BY <1>3
    <2> QED
        BY <1>4, <2>1 DEF Flats
  <1>6. <<>> \o x = x
        BY ConcatEmptySeq
  <1>7. q[1] = x
        BY <1>5, <1>6, <1>3
  <1>8. FlattenSeq(<<>>) = <<>>
        BY DEF FlattenSeq
  <1> QED
      BY <1>1, <1>4, <1>7, <1>8

-----------------------------------------------------------------------------
(***************************************************************************)
(* Words and tags of a text.                                               *)
(***************************************************************************)

(* White space, or an end of the text u. *)
BlankAt(u, i) == i \in {0, Len(u) + 1} \/ u[i] \in Whitespace

(* A word or a tag of u, from its first position to its last. *)
WordAt(u, i, e) ==
    /\ i <= e /\ BlankAt(u, i - 1) /\ BlankAt(u, e + 1)
    /\ \A k \in i .. e : ~BlankAt(u, k)
Spot(kind, u, i, e) == IF kind = "word" THEN WordAt(u, i, e) ELSE TagAt(u, i, e)

(* The word or tag that begins at i, in a list that is empty without one; and all
   of them. *)
ItemAt(kind, u, i) ==
    IF \E e \in 1 .. Len(u) : Spot(kind, u, i, e)
    THEN <<SubSeq(u, i, CHOOSE e \in 1 .. Len(u) : Spot(kind, u, i, e))>> ELSE <<>>
Items(kind, u) == FlattenSeq([i \in DOMAIN u |-> ItemAt(kind, u, i)])

(* Two texts without a word or a tag across their border. *)
Apart(u, v) == u = <<>> \/ v = <<>> \/ u[Len(u)] \in Whitespace \/ v[1] \in Whitespace

(* There is only one at a position. *)
LEMMA SpotOne ==
    ASSUME NEW u, NEW kind, NEW i \in Nat, NEW e \in Nat, NEW d \in Nat, i >= 1,
           Spot(kind, u, i, e), Spot(kind, u, i, d)
    PROVE  e = d
PROOF
  <1>1. ASSUME NEW x \in Nat, NEW y \in Nat, x < y, Spot(kind, u, i, x), Spot(kind, u, i, y)
        PROVE  FALSE
    <2>1. CASE kind = "word"
      <3>1. WordAt(u, i, x) /\ WordAt(u, i, y)
            BY <1>1, <2>1 DEF Spot
      <3>2. i <= x /\ BlankAt(u, x + 1) /\ \A k \in i .. y : ~BlankAt(u, k)
            BY <3>1 DEF WordAt
      <3>3. x + 1 \in i .. y
            BY <1>1, <3>2
      <3> QED
          BY <3>2, <3>3
    <2>2. CASE kind # "word"
      <3>1. TagAt(u, i, x) /\ TagAt(u, i, y)
            BY <1>1, <2>2 DEF Spot
      <3>2. i + 4 <= x /\ u[x - 1] = Close /\ \A k \in i + 2 .. y - 2 : u[k] \in Letters \cup Digits
            BY <3>1 DEF TagAt
      <3>3. x - 1 \in i + 2 .. y - 2
            BY <1>1, <3>2
      <3>4. Close \notin Letters \cup Digits
            BY Zenon DEF Close, Letters, Digits
      <3> QED
          BY <3>2, <3>3, <3>4
    <2> QED
        BY <2>1, <2>2
  <1> QED
      BY <1>1

(* What is at a position, by where it ends. *)
LEMMA ItemIs ==
    ASSUME NEW S, NEW u \in Seq(S), NEW kind, NEW i \in 1 .. Len(u)
    PROVE  /\ \A e \in 1 .. Len(u) : Spot(kind, u, i, e) => ItemAt(kind, u, i) = <<SubSeq(u, i, e)>>
           /\ (\A e \in 1 .. Len(u) : ~Spot(kind, u, i, e)) => ItemAt(kind, u, i) = <<>>
           /\ ItemAt(kind, u, i) \in Seq(Seq(S))
PROOF
  <1>1. PICK n \in Nat : n = Len(u)
        OBVIOUS
  <1>2. PICK D : D = Seq(S)
        OBVIOUS
  <1>3. ASSUME NEW e \in 1 .. n, Spot(kind, u, i, e)
        PROVE  ItemAt(kind, u, i) = <<SubSeq(u, i, e)>>
    <2> DEFINE d == CHOOSE d \in 1 .. n : Spot(kind, u, i, d)
    <2>1. d \in 1 .. n /\ Spot(kind, u, i, d)
          BY <1>3
    <2>2. ItemAt(kind, u, i) = <<SubSeq(u, i, d)>>
          BY <1>1, <1>3 DEF ItemAt
    <2> HIDE DEF d
    <2>3. d \in Nat /\ e \in Nat /\ i \in Nat /\ i >= 1
          BY <2>1
    <2>4. d = e
          BY <1>3, <2>1, <2>3, SpotOne
    <2> QED
        BY <2>2, <2>4
  <1>4. ASSUME \A e \in 1 .. n : ~Spot(kind, u, i, e) PROVE ItemAt(kind, u, i) = <<>>
        BY <1>1, <1>4 DEF ItemAt
  <1>5. ItemAt(kind, u, i) \in Seq(D)
    <2>1. CASE \A e \in 1 .. n : ~Spot(kind, u, i, e)
      <3>1. ItemAt(kind, u, i) = <<>>
            BY <1>4, <2>1
      <3> QED
          BY <3>1
    <2>2. CASE \E e \in 1 .. n : Spot(kind, u, i, e)
      <3>1. PICK e \in 1 .. n : Spot(kind, u, i, e)
            BY <2>2
      <3>2. SubSeq(u, i, e) \in D
            BY <1>1, <1>2, PartIs
      <3>3. PICK y \in D : y = SubSeq(u, i, e)
            BY <3>2
      <3>4. ItemAt(kind, u, i) = <<y>>
            BY <1>3, <3>1, <3>3
      <3> QED
          BY <3>4
    <2> QED
        BY <2>1, <2>2
  <1> QED
      BY <1>1, <1>2, <1>3, <1>4, <1>5

(* x lists what begins at the n positions of u. *)
Listing(kind, S, u, n, x) ==
    /\ x \in Seq(Seq(Seq(S))) /\ Len(x) = n /\ Items(kind, u) = FlattenSeq(x)
    /\ \A i \in 1 .. n : x[i] = ItemAt(kind, u, i)

(* There is such a list. *)
LEMMA ItemsIs ==
    ASSUME NEW S, NEW u \in Seq(S), NEW kind, NEW n \in Nat, n = Len(u)
    PROVE  Items(kind, u) \in Seq(Seq(S)) /\ \E x : Listing(kind, S, u, n, x)
PROOF
  <1>1. DOMAIN u = 1 .. n
        OBVIOUS
  <1>2. PICK D : D = Seq(S)
        OBVIOUS
  <1>3. PICK E : E = Seq(D)
        OBVIOUS
  <1>4. \A i \in 1 .. n : ItemAt(kind, u, i) \in E
        BY <1>2, <1>3, ItemIs
  <1>5. PICK x : x = [i \in 1 .. n |-> ItemAt(kind, u, i)]
        OBVIOUS
  <1>6. x \in Seq(E) /\ Len(x) = n /\ \A i \in 1 .. n : x[i] = ItemAt(kind, u, i)
        BY <1>4, <1>5
  <1>7. Items(kind, u) = FlattenSeq(x)
        BY <1>1, <1>5 DEF Items
  <1>8. FlattenSeq(x) \in Seq(D)
    <2>1. x \in Seq(Seq(D))
          BY <1>3, <1>6
    <2>2. FlattenSeq(x \o x) = FlattenSeq(x) \o FlattenSeq(x) /\ FlattenSeq(x) \in Seq(D)
          BY <2>1, FlattenBoth
    <2> QED
        BY <2>2
  <1>9. Listing(kind, S, u, n, x)
        BY <1>2, <1>3, <1>6, <1>7 DEF Listing
  <1> QED
      BY <1>2, <1>7, <1>8, <1>9

(* Blanks in two texts and in both. *)
LEMMA BlankMore ==
    ASSUME NEW S, NEW c, NEW u, NEW v, NEW n \in Nat, NEW m \in Nat, Border(S, c, u, n, v, m)
    PROVE  /\ \A k \in 0 .. n : BlankAt(c, k) <=> BlankAt(u, k)
           /\ \A k \in 1 .. m + 1 : BlankAt(c, n + k) <=> BlankAt(v, k)
           /\ BlankAt(u, n + 1) /\ BlankAt(v, 0)
           /\ Apart(u, v) => BlankAt(c, n) \/ BlankAt(c, n + 1)
PROOF
  <1>1. n = Len(u) /\ m = Len(v) /\ Len(c) = n + m
        BY DEF Border
  <1>2. ASSUME NEW k \in 0 .. n PROVE BlankAt(c, k) <=> BlankAt(u, k)
    <2>1. CASE k = 0
          BY <2>1 DEF BlankAt
    <2>2. CASE k # 0
      <3>1. k \in 1 .. n /\ k # n + m + 1 /\ k # n + 1
            BY <2>2
      <3>2. c[k] = u[k]
            BY <3>1 DEF Border
      <3> QED
          BY <1>1, <2>2, <3>1, <3>2 DEF BlankAt
    <2> QED
        BY <2>1, <2>2
  <1>3. ASSUME NEW k \in 1 .. m + 1 PROVE BlankAt(c, n + k) <=> BlankAt(v, k)
    <2>1. CASE k = m + 1
      <3>1. n + k = n + m + 1
            BY <2>1
      <3> QED
          BY <1>1, <2>1, <3>1 DEF BlankAt
    <2>2. CASE k # m + 1
      <3>1. k \in 1 .. m /\ n + k # n + m + 1 /\ n + k # 0 /\ k # 0
            BY <2>2
      <3>2. c[n + k] = v[k]
            BY <3>1 DEF Border
      <3> QED
          BY <1>1, <2>2, <3>1, <3>2 DEF BlankAt
    <2> QED
        BY <2>1, <2>2
  <1>4. BlankAt(u, n + 1) /\ BlankAt(v, 0)
        BY <1>1 DEF BlankAt
  <1>5. ASSUME Apart(u, v) PROVE BlankAt(c, n) \/ BlankAt(c, n + 1)
    <2>1. CASE n = 0
          BY <2>1 DEF BlankAt
    <2>2. CASE m = 0
      <3>1. n + 1 = n + m + 1
            BY <2>2
      <3> QED
          BY <1>1, <3>1 DEF BlankAt
    <2>3. CASE n # 0 /\ m # 0
      <3>1. n \in 1 .. n /\ 1 \in 1 .. m
            BY <2>3
      <3>2. c[n] = u[n] /\ c[n + 1] = v[1]
            BY <3>1 DEF Border
      <3>3. u # <<>> /\ v # <<>>
            BY <1>1, <2>3
      <3> QED
          BY <1>1, <1>5, <3>2, <3>3 DEF Apart, BlankAt
    <2> QED
        BY <2>1, <2>2, <2>3
  <1> QED
      BY <1>2, <1>3, <1>4, <1>5

(* No word and no tag crosses the border of two texts that are apart. *)
LEMMA SpotEnds ==
    ASSUME NEW S, NEW c, NEW u, NEW v, NEW n \in Nat, NEW m \in Nat, Border(S, c, u, n, v, m),
           Apart(u, v), NEW kind, NEW i \in 1 .. n, NEW e \in 1 .. n + m, Spot(kind, c, i, e)
    PROVE  e <= n
PROOF
  <1> SUFFICES ASSUME e > n PROVE FALSE
      OBVIOUS
  <1>1. n \in i .. e /\ n + 1 \in i .. e
        OBVIOUS
  <1>2. ASSUME NEW k \in i .. e PROVE ~BlankAt(c, k)
    <2>1. CASE kind = "word"
          BY <2>1 DEF Spot, WordAt
    <2>2. CASE kind # "word"
      <3>1. TagAt(c, i, e)
            BY <2>2 DEF Spot
      <3>2. i \in Nat /\ e \in Nat
            OBVIOUS
      <3>3. c[k] \notin Whitespace
            BY <3>1, <3>2, TagBytes
      <3>4. k # 0 /\ k # n + m + 1 /\ Len(c) = n + m
            BY DEF Border
      <3> QED
          BY <3>3, <3>4 DEF BlankAt
    <2> QED
        BY <2>1, <2>2
  <1>3. BlankAt(c, n) \/ BlankAt(c, n + 1)
        BY BlankMore
  <1> QED
      BY <1>1, <1>2, <1>3

(* Before the border are the words and tags of the first text. *)
LEMMA SpotLeft ==
    ASSUME NEW S, NEW c, NEW u, NEW v, NEW n \in Nat, NEW m \in Nat, Border(S, c, u, n, v, m),
           Apart(u, v), NEW kind, NEW i \in 1 .. n, NEW e \in 1 .. n
    PROVE  Spot(kind, c, i, e) <=> Spot(kind, u, i, e)
PROOF
  <1>1. CASE kind = "word"
    <2>1. ASSUME i <= e
          PROVE  /\ BlankAt(c, i - 1) <=> BlankAt(u, i - 1)
                 /\ \A k \in i .. e : BlankAt(c, k) <=> BlankAt(u, k)
      <3>1. i - 1 \in 0 .. n /\ \A k \in i .. e : k \in 0 .. n
            BY <2>1
      <3>2. \A k \in 0 .. n : BlankAt(c, k) <=> BlankAt(u, k)
            BY BlankMore
      <3> QED
          BY <3>1, <3>2
    <2>2. ASSUME i <= e, ~BlankAt(c, e) PROVE BlankAt(c, e + 1) <=> BlankAt(u, e + 1)
      <3>1. CASE e = n
        <4>1. BlankAt(c, n + 1)
              BY <2>2, <3>1, BlankMore
        <4>2. BlankAt(u, n + 1)
              BY BlankMore
        <4> QED
            BY <3>1, <4>1, <4>2
      <3>2. CASE e # n
        <4>1. e + 1 \in 0 .. n
              BY <3>2
        <4> QED
            BY <4>1, BlankMore
      <3> QED
          BY <3>1, <3>2
    <2>3. i <= e => e \in i .. e
          OBVIOUS
    <2>4. WordAt(c, i, e) <=> WordAt(u, i, e)
      <3>1. CASE i <= e
            BY <2>1, <2>2, <2>3, <3>1 DEF WordAt
      <3>2. CASE ~(i <= e)
            BY <3>2 DEF WordAt
      <3> QED
          BY <3>1, <3>2
    <2> QED
        BY <1>1, <2>4 DEF Spot
  <1>2. CASE kind # "word"
    <2>1. TagAt(c, i, e) <=> TagAt(u, i, e)
      <3> SUFFICES ASSUME i + 4 <= e PROVE TagAt(c, i, e) <=> TagAt(u, i, e)
          BY DEF TagAt
      <3>1. /\ i \in 1 .. n /\ i + 1 \in 1 .. n /\ e - 1 \in 1 .. n /\ e \in 1 .. n
            /\ \A k \in i + 2 .. e - 2 : k \in 1 .. n
            OBVIOUS
      <3>2. \A k \in 1 .. n : c[k] = u[k]
            BY DEF Border
      <3> QED
          BY <3>1, <3>2 DEF TagAt
    <2> QED
        BY <1>2, <2>1 DEF Spot
  <1> QED
      BY <1>1, <1>2

(* The n bytes of x, in y behind position d. *)
Copied(y, d, x, n) == \A k \in 1 .. n : y[d + k] = x[k]

(* A tag at another place. *)
LEMMA TagShift ==
    ASSUME NEW n \in Nat, NEW d \in Nat, NEW x, NEW y, Copied(y, d, x, n),
           NEW i \in 1 .. n, NEW e \in 1 .. n, NEW a \in Nat, a = d + i, NEW z \in Nat, z = d + e
    PROVE  TagAt(y, a, z) <=> TagAt(x, i, e)
PROOF
  <1>1. a + 4 <= z <=> i + 4 <= e
        OBVIOUS
  <1> SUFFICES ASSUME i + 4 <= e PROVE TagAt(y, a, z) <=> TagAt(x, i, e)
      BY <1>1 DEF TagAt
  <1>2. i + 1 \in 1 .. n /\ e - 1 \in 1 .. n
        OBVIOUS
  <1>3. y[a] = x[i] /\ y[a + 1] = x[i + 1] /\ y[z - 1] = x[e - 1] /\ y[z] = x[e]
    <2>1. PICK g \in 1 .. n : g = i + 1 /\ d + g = a + 1
          BY <1>2
    <2>2. PICK h \in 1 .. n : h = e - 1 /\ d + h = z - 1
          BY <1>2
    <2>3. y[d + g] = x[g] /\ y[d + h] = x[h] /\ y[d + i] = x[i] /\ y[d + e] = x[e]
          BY DEF Copied
    <2> QED
        BY <2>1, <2>2, <2>3
  <1>4. ASSUME \A k \in a + 2 .. z - 2 : y[k] \in Letters \cup Digits, NEW k \in i + 2 .. e - 2
        PROVE  x[k] \in Letters \cup Digits
    <2>1. PICK j \in a + 2 .. z - 2 : j = d + k
          OBVIOUS
    <2>2. k \in 1 .. n
          OBVIOUS
    <2>3. y[j] \in Letters \cup Digits
          BY <1>4
    <2> QED
        BY <2>1, <2>2, <2>3 DEF Copied
  <1>5. ASSUME \A k \in i + 2 .. e - 2 : x[k] \in Letters \cup Digits, NEW k \in a + 2 .. z - 2
        PROVE  y[k] \in Letters \cup Digits
    <2>1. PICK j \in i + 2 .. e - 2 : k = d + j
      <3>1. k - d \in i + 2 .. e - 2 /\ k = d + (k - d)
            OBVIOUS
      <3> QED
          BY <3>1
    <2>2. j \in 1 .. n
          OBVIOUS
    <2>3. x[j] \in Letters \cup Digits
          BY <1>5
    <2> QED
        BY <2>1, <2>2, <2>3 DEF Copied
  <1> QED
      BY <1>1, <1>3, <1>4, <1>5 DEF TagAt

(* Numbers that add up. *)
Sums(l, n, m) == {l, n, m} \subseteq Nat /\ l = n + m

(* Behind the border are those of the second. *)
LEMMA SpotRight ==
    ASSUME NEW S, NEW c, NEW u, NEW v, NEW n \in Nat, NEW m \in Nat, Border(S, c, u, n, v, m),
           Apart(u, v), NEW kind, NEW i \in 1 .. m, NEW e \in 1 .. m,
           NEW a, Sums(a, n, i), NEW z, Sums(z, n, e)
    PROVE  Spot(kind, c, a, z) <=> Spot(kind, v, i, e)
PROOF
  <1>1. a \in Nat /\ a = n + i /\ z \in Nat /\ z = n + e
        BY DEF Sums
  <1>2. CASE kind = "word"
    <2>1. \A k \in 1 .. m + 1 : BlankAt(c, n + k) <=> BlankAt(v, k)
          BY BlankMore
    <2>2. ASSUME i <= e, ~BlankAt(c, a) PROVE BlankAt(c, a - 1) <=> BlankAt(v, i - 1)
      <3>1. CASE i = 1
        <4>1. a = n + 1 /\ a - 1 = n /\ i - 1 = 0
              BY <1>1, <3>1
        <4>2. BlankAt(c, n) \/ BlankAt(c, n + 1)
              BY BlankMore
        <4>3. BlankAt(v, 0)
              BY BlankMore
        <4> QED
            BY <2>2, <4>1, <4>2, <4>3
      <3>2. CASE i # 1
        <4>1. PICK j \in 1 .. m + 1 : j = i - 1 /\ n + j = a - 1
              BY <1>1, <3>2
        <4> QED
            BY <2>1, <4>1
      <3> QED
          BY <3>1, <3>2
    <2>3. BlankAt(c, z + 1) <=> BlankAt(v, e + 1)
      <3>1. PICK j \in 1 .. m + 1 : j = e + 1 /\ n + j = z + 1
            BY <1>1
      <3> QED
          BY <2>1, <3>1
    <2>4. (\A k \in a .. z : ~BlankAt(c, k)) <=> \A k \in i .. e : ~BlankAt(v, k)
      <3>1. ASSUME \A k \in a .. z : ~BlankAt(c, k), NEW k \in i .. e PROVE ~BlankAt(v, k)
        <4>1. PICK j \in a .. z : j = n + k
              BY <1>1
        <4>2. k \in 1 .. m + 1
              OBVIOUS
        <4>3. ~BlankAt(c, j)
              BY <3>1
        <4> QED
            BY <2>1, <4>1, <4>2, <4>3
      <3>2. ASSUME \A k \in i .. e : ~BlankAt(v, k), NEW k \in a .. z PROVE ~BlankAt(c, k)
        <4>1. PICK j \in i .. e : k = n + j
          <5>1. k - n \in i .. e /\ k = n + (k - n)
                BY <1>1
          <5> QED
              BY <5>1
        <4>2. j \in 1 .. m + 1
              OBVIOUS
        <4>3. ~BlankAt(v, j)
              BY <3>2
        <4> QED
            BY <2>1, <4>1, <4>2, <4>3
      <3> QED
          BY <3>1, <3>2
    <2>5. (a <= z <=> i <= e) /\ (a <= z => a \in a .. z) /\ (i <= e => i \in i .. e)
          BY <1>1
    <2>6. WordAt(c, a, z) <=> WordAt(v, i, e)
      <3>1. CASE i <= e
        <4>1. BlankAt(c, a) <=> BlankAt(v, i)
          <5>1. i \in 1 .. m + 1
                OBVIOUS
          <5> QED
              BY <1>1, <2>1, <5>1
        <4> QED
            BY <2>2, <2>3, <2>4, <2>5, <3>1, <4>1 DEF WordAt
      <3>2. CASE ~(i <= e)
            BY <2>5, <3>2 DEF WordAt
      <3> QED
          BY <3>1, <3>2
    <2> QED
        BY <1>2, <2>6 DEF Spot
  <1>3. CASE kind # "word"
    <2>1. Copied(c, n, v, m)
          BY DEF Border, Copied
    <2>2. TagAt(c, a, z) <=> TagAt(v, i, e)
          BY <1>1, <2>1, TagShift
    <2> QED
        BY <1>3, <2>2 DEF Spot
  <1> QED
      BY <1>2, <1>3

(* A part of the second text is one of both. *)
LEMMA SubBehind ==
    ASSUME NEW S, NEW u \in Seq(S), NEW v \in Seq(S), NEW n \in Nat, n = Len(u),
           NEW i \in Nat, i >= 1, NEW l \in Nat, NEW e \in Nat, e = i + l - 1, e <= Len(v),
           NEW a, Sums(a, n, i), NEW z, Sums(z, n, e)
    PROVE  SubSeq(u \o v, a, z) = SubSeq(v, i, e)
PROOF
  <1>1. a \in Nat /\ a = n + i /\ z \in Nat /\ z = n + e
        BY DEF Sums
  <1>2. PICK c : c = u \o v
        OBVIOUS
  <1>3. PICK m \in Nat : m = Len(v)
        OBVIOUS
  <1>4. Both(S, c, u, n, v, m)
        BY <1>2, <1>3, MoreIs
  <1>5. c \in Seq(S) /\ Len(c) = n + m
        BY <1>4 DEF Both
  <1>6. PICK d \in Nat : d = n + 1
        OBVIOUS
  <1>7. PartAt(S, v, c, d, m)
        BY <1>4, <1>6 DEF Both
  <1>8. PartAt(S, SubSeq(v, i, e), v, i, l)
        BY PartSub
  <1>9. a = d + i - 1 /\ i + l - 1 <= m
        BY <1>3, <1>6, <1>1
  <1>10. PartAt(S, SubSeq(v, i, e), c, a, l)
         BY <1>7, <1>8, <1>9, <1>1, PartOfPart
  <1>11. z = a + l - 1 /\ z <= Len(c) /\ a >= 1
         BY <1>3, <1>5, <1>1
  <1>12. PartAt(S, SubSeq(c, a, z), c, a, l)
         BY <1>5, <1>11, <1>1, PartSub
  <1> QED
      BY <1>2, <1>10, <1>12, <1>1, PartSame

(* A word or a tag does not end before it begins. *)
LEMMA SpotSpan ==
    ASSUME NEW u, NEW kind, NEW i \in Nat, NEW e \in Nat, Spot(kind, u, i, e)
    PROVE  \E l \in Nat : e = i + l - 1
PROOF
  <1>1. i <= e
        BY DEF Spot, WordAt, TagAt
  <1>2. e - i + 1 \in Nat /\ e = i + (e - i + 1) - 1
        BY <1>1
  <1> QED
      BY <1>2

(* The words of two texts are the words of both, and so are their tags. *)
LEMMA ItemsMore ==
    ASSUME NEW S, NEW u \in Seq(S), NEW v \in Seq(S), Apart(u, v), NEW kind
    PROVE  Items(kind, u \o v) = Items(kind, u) \o Items(kind, v)
PROOF
  <1>1. PICK n \in Nat : n = Len(u)
        OBVIOUS
  <1>2. PICK m \in Nat : m = Len(v)
        OBVIOUS
  <1>3. PICK c : c = u \o v
        OBVIOUS
  <1>4. Border(S, c, u, n, v, m)
        BY <1>1, <1>2, <1>3, ListMore
  <1>5. c \in Seq(S) /\ Len(c) = n + m
        BY <1>4 DEF Border
  <1>6. PICK x : Listing(kind, S, u, n, x)
        BY <1>1, ItemsIs
  <1>7. PICK y : Listing(kind, S, v, m, y)
        BY <1>2, ItemsIs
  <1>8. PICK s : Sums(s, n, m)
    <2>1. Sums(n + m, n, m)
          BY DEF Sums
    <2> QED
        BY <2>1
  <1>9. s \in Nat /\ s = n + m
        BY <1>8 DEF Sums
  <1>10. PICK w : Listing(kind, S, c, s, w)
         BY <1>5, <1>9, ItemsIs
  <1>11. \A i \in 1 .. n : x[i] = ItemAt(kind, u, i)
         BY <1>6 DEF Listing
  <1>12. \A i \in 1 .. m : y[i] = ItemAt(kind, v, i)
         BY <1>7 DEF Listing
  <1>13. \A i \in 1 .. n + m : w[i] = ItemAt(kind, c, i)
         BY <1>9, <1>10 DEF Listing
  <1>14. ASSUME NEW i \in 1 .. n PROVE w[i] = x[i]
    <2>1. i \in 1 .. n + m /\ i \in Nat /\ i >= 1
          OBVIOUS
    <2>2. CASE \E e \in 1 .. n : Spot(kind, u, i, e)
      <3>1. PICK e \in 1 .. n : Spot(kind, u, i, e)
            BY <2>2
      <3>2. e \in 1 .. n + m /\ e \in Nat /\ e <= n
            OBVIOUS
      <3>3. Spot(kind, c, i, e)
            BY <1>4, <3>1, SpotLeft
      <3>4. PICK l \in Nat : e = i + l - 1
            BY <2>1, <3>1, <3>2, SpotSpan
      <3>5. SubSeq(c, i, e) = SubSeq(u, i, e)
            BY <1>1, <1>3, <2>1, <3>2, <3>4, SubMore
      <3>6. ItemAt(kind, c, i) = <<SubSeq(c, i, e)>>
            BY <1>5, <2>1, <3>2, <3>3, ItemIs
      <3>7. ItemAt(kind, u, i) = <<SubSeq(u, i, e)>>
            BY <1>1, <3>1, ItemIs
      <3> QED
          BY <1>11, <1>13, <2>1, <3>5, <3>6, <3>7
    <2>3. CASE \A e \in 1 .. n : ~Spot(kind, u, i, e)
      <3>1. ASSUME NEW e \in 1 .. n + m, Spot(kind, c, i, e) PROVE FALSE
        <4>1. e <= n
              BY <1>4, <3>1, SpotEnds
        <4>2. e \in 1 .. n
              BY <4>1
        <4>3. Spot(kind, u, i, e)
              BY <1>4, <3>1, <4>2, SpotLeft
        <4> QED
            BY <2>3, <4>2, <4>3
      <3>2. ItemAt(kind, c, i) = <<>>
            BY <1>5, <2>1, <3>1, ItemIs
      <3>3. ItemAt(kind, u, i) = <<>>
            BY <1>1, <2>3, ItemIs
      <3> QED
          BY <1>11, <1>13, <2>1, <3>2, <3>3
    <2> QED
        BY <2>2, <2>3
  <1>15. ASSUME NEW i \in 1 .. m PROVE w[n + i] = y[i]
    <2>1. PICK a \in 1 .. n + m : a = n + i /\ Sums(a, n, i)
          BY DEF Sums
    <2>2. a \in Nat /\ i \in Nat /\ i >= 1
          OBVIOUS
    <2>3. CASE \E e \in 1 .. m : Spot(kind, v, i, e)
      <3>1. PICK e \in 1 .. m : Spot(kind, v, i, e)
            BY <2>3
      <3>2. PICK z \in Nat : z = n + e /\ Sums(z, n, e)
            BY DEF Sums
      <3>3. z \in 1 .. n + m /\ e \in Nat /\ e <= m
            BY <3>2
      <3>4. Spot(kind, c, a, z) <=> Spot(kind, v, i, e)
            BY <1>4, <2>1, <2>2, <3>2, SpotRight
      <3>5. Spot(kind, c, a, z)
            BY <3>1, <3>4
      <3>6. PICK l \in Nat : e = i + l - 1
            BY <2>2, <3>1, <3>3, SpotSpan
      <3>7. SubSeq(c, a, z) = SubSeq(v, i, e)
            BY <1>1, <1>2, <1>3, <2>1, <2>2, <3>2, <3>3, <3>6, SubBehind
      <3>8. ItemAt(kind, c, a) = <<SubSeq(c, a, z)>>
            BY <1>5, <3>3, <3>5, ItemIs
      <3>9. ItemAt(kind, v, i) = <<SubSeq(v, i, e)>>
            BY <1>2, <3>1, ItemIs
      <3> QED
          BY <1>12, <1>13, <2>1, <3>7, <3>8, <3>9
    <2>4. CASE \A e \in 1 .. m : ~Spot(kind, v, i, e)
      <3>1. ASSUME NEW z \in 1 .. n + m, Spot(kind, c, a, z) PROVE FALSE
        <4>1. PICK l \in Nat : z = a + l - 1
              BY <2>2, <3>1, SpotSpan
        <4>2. z >= a \/ l = 0
              BY <4>1
        <4>3. z >= a
          <5>1. a <= z
                BY <3>1 DEF Spot, WordAt, TagAt
          <5> QED
              BY <5>1
        <4>4. PICK e \in 1 .. m : z = n + e
          <5>1. z - n \in 1 .. m /\ z = n + (z - n)
                BY <2>1, <4>3
          <5> QED
              BY <5>1
        <4>5. Sums(z, n, e)
              BY <4>4 DEF Sums
        <4>6. Spot(kind, v, i, e)
              BY <1>4, <2>1, <2>2, <3>1, <4>4, <4>5, SpotRight
        <4> QED
            BY <2>4, <4>6
      <3>2. ItemAt(kind, c, a) = <<>>
            BY <1>5, <3>1, ItemIs
      <3>3. ItemAt(kind, v, i) = <<>>
            BY <1>2, <2>4, ItemIs
      <3> QED
          BY <1>12, <1>13, <2>1, <3>2, <3>3
    <2> QED
        BY <2>3, <2>4
  <1>16. w = x \o y
    <2>1. PICK D : D = Seq(Seq(S))
          OBVIOUS
    <2>2. x \in Seq(D) /\ n = Len(x) /\ y \in Seq(D) /\ m = Len(y)
          BY <1>6, <1>7, <2>1 DEF Listing
    <2>3. w \in Seq(D) /\ Len(w) = n + m
          BY <1>10, <1>9, <2>1 DEF Listing
    <2>4. Border(D, w, x, n, y, m)
          BY <1>14, <1>15, <2>2, <2>3 DEF Border
    <2> QED
        BY <2>4, BorderIs
  <1>17. FlattenSeq(x \o y) = FlattenSeq(x) \o FlattenSeq(y)
         BY <1>6, <1>7, FlattenBoth DEF Listing
  <1> QED
      BY <1>3, <1>6, <1>7, <1>10, <1>16, <1>17 DEF Listing

-----------------------------------------------------------------------------
(***************************************************************************)
(* Lists of words or tags that differ in periods.                          *)
(***************************************************************************)

Texts == Seq(Chars)

(* x is y, or the word y with a period. *)
Form(kind, x, y) == x = y \/ (kind = "word" /\ x = Append(y, "."))
Like(kind, xs, ys) ==
    /\ xs \in Seq(Texts) /\ ys \in Seq(Texts) /\ Len(xs) = Len(ys)
    /\ \A k \in 1 .. Len(ys) : Form(kind, xs[k], ys[k])

(* The words or tags of the texts xs. *)
Of(kind, xs) == FlattenSeq([k \in DOMAIN xs |-> Items(kind, xs[k])])

(* A list is like itself. *)
LEMMA LikeSame ==
    ASSUME NEW kind, NEW xs \in Seq(Texts)
    PROVE  Like(kind, xs, xs)
PROOF
  <1> QED
      BY DEF Like, Form

(* Lists put behind lists that are like them. *)
LEMMA LikeBoth ==
    ASSUME NEW kind, NEW a, NEW b, NEW x, NEW y, Like(kind, a, x), Like(kind, b, y)
    PROVE  Like(kind, a \o b, x \o y)
PROOF
  <1>1. /\ a \in Seq(Texts) /\ b \in Seq(Texts) /\ x \in Seq(Texts) /\ y \in Seq(Texts)
        /\ Len(a) = Len(x) /\ Len(b) = Len(y)
        BY DEF Like
  <1>2. PICK n \in Nat : n = Len(a) /\ n = Len(x)
        BY <1>1
  <1>3. PICK m \in Nat : m = Len(b) /\ m = Len(y)
        BY <1>1
  <1>4. PICK c : c = a \o b
        OBVIOUS
  <1>5. PICK z : z = x \o y
        OBVIOUS
  <1>6. Border(Texts, c, a, n, b, m) /\ Border(Texts, z, x, n, y, m)
        BY <1>1, <1>2, <1>3, <1>4, <1>5, ListMore
  <1>7. c \in Seq(Texts) /\ z \in Seq(Texts) /\ Len(c) = n + m /\ Len(z) = n + m
        BY <1>6 DEF Border
  <1>8. ASSUME NEW k \in 1 .. n + m PROVE Form(kind, c[k], z[k])
    <2>1. CASE k <= n
      <3>1. k \in 1 .. n
            BY <2>1
      <3>2. c[k] = a[k] /\ z[k] = x[k]
            BY <1>6, <3>1 DEF Border
      <3>3. Form(kind, a[k], x[k])
            BY <1>2, <3>1 DEF Like
      <3> QED
          BY <3>2, <3>3
    <2>2. CASE ~(k <= n)
      <3>1. PICK i \in 1 .. m : k = n + i
        <4>1. k - n \in 1 .. m /\ k = n + (k - n)
              BY <2>2
        <4> QED
            BY <4>1
      <3>2. c[k] = b[i] /\ z[k] = y[i]
            BY <1>6, <3>1 DEF Border
      <3>3. Form(kind, b[i], y[i])
            BY <1>3 DEF Like
      <3> QED
          BY <3>2, <3>3
    <2> QED
        BY <2>1, <2>2
  <1>9. Like(kind, c, z)
        BY <1>7, <1>8 DEF Like
  <1> QED
      BY <1>4, <1>5, <1>9

(* Two lists that are alike in all they hold. *)
LEMMA LikeFlats ==
    ASSUME NEW kind, NEW n \in Nat, NEW xs, NEW ys, NEW p, NEW q, Flats(p, xs), Flats(q, ys),
           n <= Len(xs), n <= Len(ys), Len(xs) \in Nat, Len(ys) \in Nat,
           \A k \in 1 .. n : Like(kind, xs[k], ys[k])
    PROVE  Like(kind, p[n], q[n])
PROOF
  <1> DEFINE T == {k \in 0 .. n : Like(kind, p[k], q[k])}
  <1>1. 0 \in T
    <2>1. p[0] = <<>> /\ q[0] = <<>>
          BY DEF Flats
    <2>2. <<>> \in Seq(Texts)
          OBVIOUS
    <2>3. Like(kind, <<>>, <<>>)
          BY <2>2, LikeSame
    <2> QED
        BY <2>1, <2>3
  <1>2. ASSUME NEW k \in 1 .. n, k - 1 \in T PROVE k \in T
    <2>1. k \in 1 .. Len(xs) /\ k \in 1 .. Len(ys) /\ k \in 0 .. n
          OBVIOUS
    <2>2. p[k] = p[k - 1] \o xs[k] /\ q[k] = q[k - 1] \o ys[k]
          BY <2>1 DEF Flats
    <2>3. Like(kind, p[k - 1], q[k - 1]) /\ Like(kind, xs[k], ys[k])
          BY <1>2
    <2>4. Like(kind, p[k - 1] \o xs[k], q[k - 1] \o ys[k])
          BY <2>3, LikeBoth
    <2> QED
        BY <2>1, <2>2, <2>4
  <1> HIDE DEF T
  <1>3. n \in T
    <2>1. n \in 0 .. n
          OBVIOUS
    <2> QED
        BY <1>1, <1>2, <2>1, UpInduction
  <1> QED
      BY <1>3 DEF T

(* What is in a text is a list of texts. *)
LEMMA ItemsTexts ==
    ASSUME NEW kind, NEW u \in Texts
    PROVE  Items(kind, u) \in Seq(Texts)
PROOF
  <1>1. PICK n \in Nat : n = Len(u)
        BY DEF Texts
  <1> QED
      BY <1>1, ItemsIs DEF Texts

(* l lists what is in each of the n texts xs. *)
Spread(kind, xs, n, l) ==
    /\ l \in Seq(Seq(Texts)) /\ Len(l) = n /\ Of(kind, xs) = FlattenSeq(l)
    /\ \A k \in 1 .. n : l[k] = Items(kind, xs[k])

(* There is such a list. *)
LEMMA SpreadIs ==
    ASSUME NEW kind, NEW xs \in Seq(Texts), NEW n \in Nat, n = Len(xs)
    PROVE  \E l : Spread(kind, xs, n, l)
PROOF
  <1>1. PICK D : D = Seq(Texts)
        OBVIOUS
  <1>2. \A k \in 1 .. n : Items(kind, xs[k]) \in D
        BY <1>1, ItemsTexts
  <1>3. PICK l : l = [k \in 1 .. n |-> Items(kind, xs[k])]
        OBVIOUS
  <1>4. l \in Seq(D) /\ Len(l) = n /\ \A k \in 1 .. n : l[k] = Items(kind, xs[k])
        BY <1>2, <1>3
  <1>5. DOMAIN xs = 1 .. n
        OBVIOUS
  <1>6. Of(kind, xs) = FlattenSeq(l)
        BY <1>3, <1>5 DEF Of
  <1>7. Spread(kind, xs, n, l)
        BY <1>1, <1>4, <1>6 DEF Spread
  <1> QED
      BY <1>7

(* What is in two lists of texts. *)
LEMMA OfBoth ==
    ASSUME NEW kind, NEW xs \in Seq(Texts), NEW ys \in Seq(Texts)
    PROVE  /\ Of(kind, xs \o ys) = Of(kind, xs) \o Of(kind, ys)
           /\ Of(kind, xs) \in Seq(Texts) /\ Of(kind, ys) \in Seq(Texts)
PROOF
  <1>1. PICK n \in Nat : n = Len(xs)
        OBVIOUS
  <1>2. PICK m \in Nat : m = Len(ys)
        OBVIOUS
  <1>3. PICK zs : zs = xs \o ys
        OBVIOUS
  <1>4. Border(Texts, zs, xs, n, ys, m)
        BY <1>1, <1>2, <1>3, ListMore
  <1>5. PICK x : Spread(kind, xs, n, x)
        BY <1>1, SpreadIs
  <1>6. PICK y : Spread(kind, ys, m, y)
        BY <1>2, SpreadIs
  <1>7. PICK s \in Nat : s = n + m
        OBVIOUS
  <1>8. zs \in Seq(Texts) /\ s = Len(zs)
        BY <1>4, <1>7 DEF Border
  <1>9. PICK z : Spread(kind, zs, s, z)
        BY <1>8, SpreadIs
  <1>10. PICK D : D = Seq(Texts)
         OBVIOUS
  <1>11. /\ x \in Seq(D) /\ y \in Seq(D) /\ z \in Seq(D)
         /\ Len(x) = n /\ Len(y) = m /\ Len(z) = n + m
         BY <1>5, <1>6, <1>7, <1>9, <1>10 DEF Spread
  <1>12. ASSUME NEW k \in 1 .. n PROVE z[k] = x[k]
    <2>1. k \in 1 .. s
          BY <1>7
    <2>2. zs[k] = xs[k]
          BY <1>4 DEF Border
    <2> QED
        BY <1>5, <1>9, <2>1, <2>2 DEF Spread
  <1>13. ASSUME NEW k \in 1 .. m PROVE z[n + k] = y[k]
    <2>1. n + k \in 1 .. s
          BY <1>7
    <2>2. zs[n + k] = ys[k]
          BY <1>4 DEF Border
    <2> QED
        BY <1>6, <1>9, <2>1, <2>2 DEF Spread
  <1>14. Border(D, z, x, n, y, m)
         BY <1>11, <1>12, <1>13 DEF Border
  <1>15. z = x \o y
         BY <1>14, BorderIs
  <1>16. /\ FlattenSeq(x \o y) = FlattenSeq(x) \o FlattenSeq(y)
         /\ FlattenSeq(x) \in Seq(Texts) /\ FlattenSeq(y) \in Seq(Texts)
         BY <1>10, <1>11, FlattenBoth
  <1> QED
      BY <1>3, <1>5, <1>6, <1>9, <1>15, <1>16 DEF Spread

(* What is in one text, and in none. *)
LEMMA OfOne ==
    ASSUME NEW kind, NEW x \in Texts
    PROVE  Of(kind, <<x>>) = Items(kind, x) /\ Of(kind, <<>>) = <<>>
PROOF
  <1>1. PICK y \in Seq(Texts) : y = Items(kind, x)
        BY ItemsTexts
  <1>2. FlattenSeq(<<y>>) = y /\ FlattenSeq(<<>>) = <<>>
        BY FlattenOne
  <1>3. [k \in DOMAIN <<x>> |-> Items(kind, <<x>>[k])] = <<y>>
        BY <1>1
  <1>4. [k \in DOMAIN <<>> |-> Items(kind, <<>>[k])] = <<>>
        OBVIOUS
  <1> QED
      BY <1>1, <1>2, <1>3, <1>4 DEF Of

-----------------------------------------------------------------------------
(***************************************************************************)
(* Blanks and periods at the ends of a text.                               *)
(***************************************************************************)

(* No white space is in a word or a tag. *)
LEMMA SpotSolid ==
    ASSUME NEW u, NEW kind, NEW i \in Nat, NEW e \in Nat, Spot(kind, u, i, e)
    PROVE  i <= e /\ \A k \in i .. e : u[k] \notin Whitespace
PROOF
  <1>1. CASE kind = "word"
        BY <1>1 DEF Spot, WordAt, BlankAt
  <1>2. CASE kind # "word"
    <2>1. TagAt(u, i, e)
          BY <1>2 DEF Spot
    <2>2. i <= e
          BY <2>1 DEF TagAt
    <2>3. ASSUME NEW k \in i .. e PROVE u[k] \notin Whitespace
          BY <2>1, TagBytes
    <2> QED
        BY <2>2, <2>3
  <1> QED
      BY <1>1, <1>2

(* Nothing is in a text of blanks. *)
LEMMA BlankItems ==
    ASSUME NEW kind, NEW u \in Texts, NEW n \in Nat, n = Len(u),
           \A i \in 1 .. n : u[i] \in Whitespace
    PROVE  Items(kind, u) = <<>>
PROOF
  <1>1. PICK x : Listing(kind, Chars, u, n, x)
        BY ItemsIs DEF Texts
  <1>2. ASSUME NEW i \in 1 .. n PROVE x[i] = <<>>
    <2>1. ASSUME NEW e \in 1 .. Len(u), Spot(kind, u, i, e) PROVE FALSE
      <3>1. i \in Nat /\ e \in Nat
            OBVIOUS
      <3>2. i <= e /\ \A k \in i .. e : u[k] \notin Whitespace
            BY <2>1, <3>1, SpotSolid
      <3>3. i \in i .. e
            BY <3>2
      <3> QED
          BY <3>2, <3>3
    <2>2. i \in 1 .. Len(u) /\ u \in Seq(Chars)
          BY DEF Texts
    <2>3. ItemAt(kind, u, i) = <<>>
          BY <2>1, <2>2, ItemIs
    <2> QED
        BY <1>1, <2>3 DEF Listing
  <1>3. PICK D : D = Seq(Chars)
        OBVIOUS
  <1>4. x \in Seq(Seq(D)) /\ Len(x) = n /\ Items(kind, u) = FlattenSeq(x)
        BY <1>1, <1>3 DEF Listing
  <1>5. PICK q : Flats(q, x) /\ FlattenSeq(x) = q[n]
        BY <1>4, FlattenIs
  <1>6. q[n] = q[0]
    <2>1. 0 \in 0 .. n /\ n \in 0 .. n /\ \A k \in 0 + 1 .. n : x[k] = <<>>
          BY <1>2
    <2> QED
        BY <1>4, <1>5, <2>1, FlatsSame
  <1>7. q[0] = <<>>
        BY <1>5 DEF Flats
  <1> QED
      BY <1>4, <1>5, <1>6, <1>7

(* Nothing is in an empty text. *)
LEMMA EmptyItems == <<>> \in Texts /\ \A kind : Items(kind, <<>>) = <<>>
PROOF
  <1>1. <<>> \in Seq(Chars) /\ Len(<<>>) = 0
        OBVIOUS
  <1>2. PICK z \in Texts : z = <<>> /\ Len(z) = 0
        BY <1>1 DEF Texts
  <1>3. \A i \in 1 .. 0 : z[i] \in Whitespace
        OBVIOUS
  <1>4. \A kind : Items(kind, z) = <<>>
        BY <1>2, <1>3, BlankItems
  <1> QED
      BY <1>2, <1>4

(* A text in two parts. *)
LEMMA Divide ==
    ASSUME NEW S, NEW u \in Seq(S), NEW n \in Nat, NEW m \in Nat, Sums(Len(u), n, m)
    PROVE  /\ Border(S, u, SubSeq(u, 1, n), n, From(u, n + 1), m)
           /\ u = SubSeq(u, 1, n) \o From(u, n + 1)
PROOF
  <1>1. PICK a : a = SubSeq(u, 1, n)
        OBVIOUS
  <1>2. PICK b : b = From(u, n + 1)
        OBVIOUS
  <1>3. Len(u) = n + m
        BY DEF Sums
  <1>4. a \in Seq(S) /\ Len(a) = n /\ \A k \in 1 .. n : a[k] = u[k]
    <2>1. /\ SubSeq(u, 1, n) \in Seq(S)
          /\ Len(SubSeq(u, 1, n)) = IF 1 <= n THEN n - 1 + 1 ELSE 0
          /\ \A k \in 1 .. n - 1 + 1 : SubSeq(u, 1, n)[k] = u[1 + k - 1]
          BY <1>3, PartIs
    <2>2. n - 1 + 1 = n /\ \A k \in 1 .. n : 1 + k - 1 = k
          OBVIOUS
    <2> QED
        BY <1>1, <2>1, <2>2
  <1>5. b \in Seq(S) /\ Len(b) = m /\ \A k \in 1 .. m : b[k] = u[n + k]
    <2>1. PICK i \in Nat : i = n + 1 /\ i >= 1
          OBVIOUS
    <2>2. /\ From(u, i) \in Seq(S)
          /\ Len(From(u, i)) = IF i <= Len(u) THEN Len(u) - i + 1 ELSE 0
          /\ \A k \in 1 .. Len(From(u, i)) : From(u, i)[k] = u[i + k - 1]
          BY <2>1, FromIs
    <2>3. Len(From(u, i)) = m
          BY <1>3, <2>1, <2>2
    <2>4. \A k \in 1 .. m : i + k - 1 = n + k
          BY <2>1
    <2> QED
        BY <1>2, <2>1, <2>2, <2>3, <2>4
  <1>6. Border(S, u, a, n, b, m)
        BY <1>4, <1>5, <1>3 DEF Border
  <1>7. u = a \o b
        BY <1>6, BorderIs
  <1> QED
      BY <1>1, <1>2, <1>6, <1>7

(* Blanks behind a text, and before it. *)
LEMMA BlankEnds ==
    ASSUME NEW kind, NEW u \in Texts, NEW v \in Texts, NEW m \in Nat, m = Len(v),
           \A i \in 1 .. m : v[i] \in Whitespace
    PROVE  /\ Items(kind, u \o v) = Items(kind, u)
           /\ Items(kind, v \o u) = Items(kind, u)
PROOF
  <1>1. Items(kind, v) = <<>>
        BY BlankItems
  <1>2. Apart(u, v) /\ Apart(v, u)
    <2>1. CASE m = 0
      <3>1. v \in Seq(Chars)
            BY DEF Texts
      <3>2. Len(v) = 0
            BY <2>1
      <3>3. v = <<>>
            BY <3>1, <3>2, EmptySeq
      <3> QED
          BY <3>3 DEF Apart
    <2>2. CASE m # 0
      <3>1. v[1] \in Whitespace /\ v[Len(v)] \in Whitespace
            BY <2>2
      <3> QED
          BY <3>1 DEF Apart
    <2> QED
        BY <2>1, <2>2
  <1>3. Items(kind, u \o v) = Items(kind, u) \o Items(kind, v)
        BY <1>2, ItemsMore DEF Texts
  <1>4. Items(kind, v \o u) = Items(kind, v) \o Items(kind, u)
        BY <1>2, ItemsMore DEF Texts
  <1>5. Items(kind, u) \in Seq(Texts)
        BY ItemsTexts
  <1>6. Items(kind, u) \o <<>> = Items(kind, u) /\ <<>> \o Items(kind, u) = Items(kind, u)
        BY <1>5, ConcatEmptySeq
  <1> QED
      BY <1>1, <1>3, <1>4, <1>6

(* Strip takes nothing but blanks. *)
LEMMA StripItems ==
    ASSUME NEW kind, NEW u \in Texts
    PROVE  Strip(u) \in Texts /\ Items(kind, Strip(u)) = Items(kind, u)
PROOF
  <1>1. PICK n \in Nat : n = Len(u) /\ DOMAIN u = 1 .. n
        BY DEF Texts
  <1>2. PICK W : W = {i \in DOMAIN u : u[i] \notin Whitespace}
        OBVIOUS
  <1>3. Strip(u) = IF W = {} THEN <<>> ELSE SubSeq(u, Min(W), Max(W))
        BY <1>2 DEF Strip
  <1>4. CASE W = {}
    <2>1. \A i \in 1 .. n : u[i] \in Whitespace
          BY <1>1, <1>2, <1>4
    <2>2. Items(kind, u) = <<>>
          BY <1>1, <2>1, BlankItems
    <2> QED
        BY <1>3, <1>4, <2>2, EmptyItems
  <1>5. CASE W # {}
    <2>1. W \subseteq Nat /\ W \subseteq 0 .. n /\ W \subseteq 1 .. n
          BY <1>1, <1>2
    <2>2. PICK lo : lo = Min(W)
          OBVIOUS
    <2>3. PICK hi : hi = Max(W)
          OBVIOUS
    <2>4. lo \in W /\ \A m \in W : lo <= m
          BY <1>5, <2>1, <2>2, MinIs
    <2>5. hi \in W /\ \A m \in W : m <= hi
          BY <1>5, <2>1, <2>3, MaxIs
    <2>6. lo \in 1 .. n /\ hi \in 1 .. n /\ lo <= hi
          BY <2>1, <2>4, <2>5
    <2>7. PICK h \in Nat : n = hi + h
      <3>1. n - hi \in Nat /\ n = hi + (n - hi)
            BY <2>6
      <3> QED
          BY <3>1
    <2>8. PICK b : b = From(u, hi + 1)
          OBVIOUS
    <2>9. PICK a : a = SubSeq(u, 1, hi)
          OBVIOUS
    <2>10. Sums(Len(u), hi, h) /\ u \in Seq(Chars) /\ hi \in Nat
           BY <1>1, <2>6, <2>7 DEF Sums, Texts
    <2>11. Border(Chars, u, a, hi, b, h) /\ u = a \o b
           BY <2>8, <2>9, <2>10, Divide
    <2>12. /\ a \in Texts /\ b \in Texts /\ Len(a) = hi /\ Len(b) = h
           /\ \A k \in 1 .. hi : u[k] = a[k]
           /\ \A k \in 1 .. h : u[hi + k] = b[k]
           BY <2>11 DEF Border, Texts
    <2>13. ASSUME NEW k \in 1 .. h PROVE b[k] \in Whitespace
      <3>1. hi + k \in 1 .. n /\ ~(hi + k <= hi)
            BY <2>6, <2>7
      <3>2. hi + k \notin W
            BY <2>5, <3>1
      <3> QED
          BY <1>1, <1>2, <2>12, <3>1, <3>2
    <2>14. Items(kind, u) = Items(kind, a)
           BY <2>11, <2>12, <2>13, BlankEnds
    <2>15. PICK g \in Nat : lo = g + 1
      <3>1. lo - 1 \in Nat /\ lo = lo - 1 + 1
            BY <2>6
      <3> QED
          BY <3>1
    <2>16. PICK l \in Nat : hi = g + l
      <3>1. hi - g \in Nat /\ hi = g + (hi - g)
            BY <2>6, <2>15
      <3> QED
          BY <3>1
    <2>17. PICK c : c = SubSeq(a, 1, g)
           OBVIOUS
    <2>18. PICK d : d = From(a, g + 1)
           OBVIOUS
    <2>19. Sums(Len(a), g, l) /\ a \in Seq(Chars)
           BY <2>6, <2>12, <2>16 DEF Sums, Texts
    <2>20. Border(Chars, a, c, g, d, l) /\ a = c \o d
           BY <2>17, <2>18, <2>19, Divide
    <2>21. /\ c \in Texts /\ d \in Texts /\ Len(c) = g
           /\ \A k \in 1 .. g : a[k] = c[k]
           BY <2>20 DEF Border, Texts
    <2>22. ASSUME NEW k \in 1 .. g PROVE c[k] \in Whitespace
      <3>1. k \in 1 .. hi /\ k \in 1 .. n /\ ~(lo <= k)
            BY <2>6, <2>15
      <3>2. k \notin W
            BY <2>4, <3>1
      <3> QED
          BY <1>1, <1>2, <2>12, <2>21, <3>1, <3>2
    <2>23. Items(kind, a) = Items(kind, d)
           BY <2>20, <2>21, <2>22, BlankEnds
    <2>24. d = SubSeq(a, lo, hi)
           BY <2>12, <2>15, <2>18 DEF From
    <2>25. SubSeq(u, lo, hi) = SubSeq(a, lo, hi)
      <3>1. hi \in Nat /\ lo \in Nat /\ lo >= 1 /\ hi = lo + l - 1 /\ hi <= Len(a)
            BY <2>6, <2>12, <2>15, <2>16
      <3>2. SubSeq(a \o b, lo, hi) = SubSeq(a, lo, hi)
            BY <2>12, <3>1, SubMore DEF Texts
      <3> QED
          BY <2>11, <3>2
    <2>26. Strip(u) = SubSeq(u, lo, hi)
           BY <1>3, <1>5, <2>2, <2>3
    <2> QED
        BY <2>14, <2>21, <2>23, <2>24, <2>25, <2>26
  <1> QED
      BY <1>4, <1>5

-----------------------------------------------------------------------------
(***************************************************************************)
(* A period behind a text.                                                 *)
(***************************************************************************)

(* c is the text v with a period behind its last byte, that is no blank. *)
Dotted(c, v, n) ==
    /\ v \in Texts /\ n = Len(v) /\ n \in Nat /\ n >= 1 /\ v[n] \notin Whitespace
    /\ c = v \o <<".">> /\ c \in Texts /\ Len(c) = n + 1
    /\ (\A k \in 1 .. n : c[k] = v[k]) /\ c[n + 1] = "."

(* The period is no blank, and not in a tag. *)
LEMMA DotIs == "." \in Chars /\ "." \notin Whitespace /\ "." # Close
PROOF
  <1>1. "." \in Chars
        BY DEF Chars
  <1>2. "." \notin Whitespace
        BY Zenon DEF Whitespace
  <1>3. "." # Close
        BY Zenon DEF Close
  <1> QED
      BY <1>1, <1>2, <1>3

(* A text with a period. *)
LEMMA DottedIs ==
    ASSUME NEW v \in Texts, NEW n \in Nat, n = Len(v), n >= 1, v[n] \notin Whitespace
    PROVE  Dotted(Append(v, "."), v, n)
PROOF
  <1>1. PICK w : w = <<".">>
        OBVIOUS
  <1>2. w \in Seq(Chars) /\ 1 = Len(w) /\ w[1] = "."
        BY <1>1, DotIs
  <1>3. PICK c : c = v \o w
        OBVIOUS
  <1>4. v \in Seq(Chars)
        BY DEF Texts
  <1>5. Border(Chars, c, v, n, w, 1)
        BY <1>2, <1>3, <1>4, ListMore
  <1>6. /\ c \in Seq(Chars) /\ Len(c) = n + 1 /\ \A k \in 1 .. n : c[k] = v[k]
        /\ c[n + 1] = w[1]
        BY <1>5 DEF Border
  <1>7. Append(v, ".") = v \o <<".">>
        BY <1>4, DotIs
  <1> QED
      BY <1>1, <1>2, <1>3, <1>4, <1>6, <1>7 DEF Dotted, Texts

(* Blanks with and without the period. *)
LEMMA DottedBlanks ==
    ASSUME NEW c, NEW v, NEW n \in Nat, Dotted(c, v, n)
    PROVE  /\ \A k \in 0 .. n : BlankAt(c, k) <=> BlankAt(v, k)
           /\ ~BlankAt(c, n) /\ ~BlankAt(c, n + 1)
           /\ BlankAt(v, n + 1) /\ BlankAt(c, n + 2)
PROOF
  <1>1. /\ n = Len(v) /\ n >= 1 /\ v[n] \notin Whitespace /\ Len(c) = n + 1
        /\ (\A k \in 1 .. n : c[k] = v[k]) /\ c[n + 1] = "."
        BY DEF Dotted
  <1>2. ASSUME NEW k \in 0 .. n PROVE BlankAt(c, k) <=> BlankAt(v, k)
    <2>1. CASE k = 0
          BY <2>1 DEF BlankAt
    <2>2. CASE k # 0
      <3>1. k \in 1 .. n /\ k # n + 1 /\ k # n + 1 + 1
            BY <2>2
      <3>2. c[k] = v[k]
            BY <1>1, <3>1
      <3> QED
          BY <1>1, <2>2, <3>1, <3>2 DEF BlankAt
    <2> QED
        BY <2>1, <2>2
  <1>3. ~BlankAt(c, n)
    <2>1. n \in 1 .. n /\ n # 0 /\ n # n + 1 + 1
          BY <1>1
    <2>2. c[n] \notin Whitespace
          BY <1>1, <2>1
    <2> QED
        BY <1>1, <2>1, <2>2 DEF BlankAt
  <1>4. ~BlankAt(c, n + 1)
    <2>1. n + 1 # 0 /\ n + 1 # n + 1 + 1
          OBVIOUS
    <2> QED
        BY <1>1, <2>1, DotIs DEF BlankAt
  <1>5. BlankAt(v, n + 1) /\ BlankAt(c, n + 2)
    <2>1. n + 2 = n + 1 + 1
          OBVIOUS
    <2> QED
        BY <1>1, <2>1 DEF BlankAt
  <1> QED
      BY <1>2, <1>3, <1>4, <1>5

(* Where a word or a tag of v ends in c. *)
DotEnd(kind, n, e) == IF kind = "word" /\ e = n THEN n + 1 ELSE e

(* What is in v is in c. *)
LEMMA DottedHas ==
    ASSUME NEW c, NEW v, NEW n \in Nat, Dotted(c, v, n), NEW kind,
           NEW i \in 1 .. n, NEW e \in 1 .. n, Spot(kind, v, i, e)
    PROVE  Spot(kind, c, i, DotEnd(kind, n, e))
PROOF
  <1>1. CASE kind = "word"
    <2>1. PICK d \in Nat : d = DotEnd(kind, n, e) /\ d = IF e = n THEN n + 1 ELSE e
          BY <1>1 DEF DotEnd
    <2>2. i <= e /\ BlankAt(v, i - 1) /\ BlankAt(v, e + 1) /\ \A k \in i .. e : ~BlankAt(v, k)
          BY <1>1 DEF Spot, WordAt
    <2>3. \A k \in 0 .. n : BlankAt(c, k) <=> BlankAt(v, k)
          BY DottedBlanks
    <2>4. BlankAt(c, i - 1)
      <3>1. i - 1 \in 0 .. n
            OBVIOUS
      <3> QED
          BY <2>2, <2>3, <3>1
    <2>5. BlankAt(c, d + 1)
      <3>1. CASE e = n
        <4>1. d + 1 = n + 2
              BY <2>1, <3>1
        <4> QED
            BY <4>1, DottedBlanks
      <3>2. CASE e # n
        <4>1. e + 1 \in 0 .. n /\ d = e
              BY <2>1, <3>2
        <4> QED
            BY <2>2, <2>3, <4>1
      <3> QED
          BY <3>1, <3>2
    <2>6. ASSUME NEW k \in i .. d PROVE ~BlankAt(c, k)
      <3>1. CASE k <= e
        <4>1. k \in 0 .. n /\ k \in i .. e
              BY <3>1
        <4> QED
            BY <2>2, <2>3, <4>1
      <3>2. CASE ~(k <= e)
        <4>1. k = n + 1
              BY <2>1, <3>2
        <4> QED
            BY <4>1, DottedBlanks
      <3> QED
          BY <3>1, <3>2
    <2>7. i <= d
          BY <2>1, <2>2
    <2>8. WordAt(c, i, d)
          BY <2>4, <2>5, <2>6, <2>7 DEF WordAt
    <2> QED
        BY <1>1, <2>1, <2>8 DEF Spot
  <1>2. CASE kind # "word"
    <2>1. Copied(c, 0, v, n)
          BY DEF Copied, Dotted
    <2>2. TagAt(v, i, e)
          BY <1>2 DEF Spot
    <2>3. i = 0 + i /\ e = 0 + e /\ i \in Nat /\ e \in Nat
          OBVIOUS
    <2>4. TagAt(c, i, e)
          BY <2>1, <2>2, <2>3, TagShift
    <2>5. DotEnd(kind, n, e) = e
          BY <1>2 DEF DotEnd
    <2> QED
        BY <1>2, <2>4, <2>5 DEF Spot
  <1> QED
      BY <1>1, <1>2

(* What is in c is in v. *)
LEMMA DottedOnly ==
    ASSUME NEW c, NEW v, NEW n \in Nat, Dotted(c, v, n), NEW kind,
           NEW i \in 1 .. n + 1, NEW d \in 1 .. n + 1, Spot(kind, c, i, d)
    PROVE  i \in 1 .. n /\ \E e \in 1 .. n : Spot(kind, v, i, e)
PROOF
  <1>1. CASE kind = "word"
    <2>1. i <= d /\ BlankAt(c, i - 1) /\ BlankAt(c, d + 1) /\ \A k \in i .. d : ~BlankAt(c, k)
          BY <1>1 DEF Spot, WordAt
    <2>2. \A k \in 0 .. n : BlankAt(c, k) <=> BlankAt(v, k)
          BY DottedBlanks
    <2>3. i # n + 1
      <3>1. ASSUME i = n + 1 PROVE FALSE
        <4>1. i - 1 = n
              BY <3>1
        <4> QED
            BY <2>1, <4>1, DottedBlanks
      <3> QED
          BY <3>1
    <2>4. PICK e \in 1 .. n : e = IF d = n + 1 THEN n ELSE d
      <3>1. n >= 1
            BY DEF Dotted
      <3> QED
          BY <3>1
    <2>5. BlankAt(v, i - 1)
      <3>1. i - 1 \in 0 .. n
            OBVIOUS
      <3> QED
          BY <2>1, <2>2, <3>1
    <2>6. BlankAt(v, e + 1)
      <3>1. CASE e = n
            BY <3>1, DottedBlanks
      <3>2. CASE e # n
        <4>1. e + 1 \in 0 .. n /\ e = d
              BY <2>4, <3>2
        <4> QED
            BY <2>1, <2>2, <4>1
      <3> QED
          BY <3>1, <3>2
    <2>7. ASSUME NEW k \in i .. e PROVE ~BlankAt(v, k)
      <3>1. k \in 0 .. n /\ k \in i .. d
            BY <2>4
      <3> QED
          BY <2>1, <2>2, <3>1
    <2>8. i <= e /\ i \in 1 .. n
          BY <2>1, <2>3, <2>4
    <2>9. WordAt(v, i, e)
          BY <2>5, <2>6, <2>7, <2>8 DEF WordAt
    <2> QED
        BY <1>1, <2>8, <2>9 DEF Spot
  <1>2. CASE kind # "word"
    <2>1. TagAt(c, i, d)
          BY <1>2 DEF Spot
    <2>2. i + 4 <= d /\ c[d] = Close
          BY <2>1 DEF TagAt
    <2>3. d # n + 1
          BY <2>2, DotIs DEF Dotted
    <2>4. i \in 1 .. n /\ d \in 1 .. n /\ i = 0 + i /\ d = 0 + d /\ i \in Nat /\ d \in Nat
          BY <2>2, <2>3
    <2>5. Copied(c, 0, v, n)
          BY DEF Copied, Dotted
    <2>6. TagAt(v, i, d)
          BY <2>1, <2>4, <2>5, TagShift
    <2> QED
        BY <1>2, <2>4, <2>6 DEF Spot
  <1> QED
      BY <1>1, <1>2

(* One item, with or without a period. *)
LEMMA LikeOne ==
    ASSUME NEW kind, NEW x \in Texts, NEW y \in Texts, Form(kind, x, y)
    PROVE  Like(kind, <<x>>, <<y>>)
PROOF
  <1>1. PICK a : a = <<x>>
        OBVIOUS
  <1>2. PICK b : b = <<y>>
        OBVIOUS
  <1>3. a \in Seq(Texts) /\ b \in Seq(Texts) /\ Len(a) = 1 /\ Len(b) = 1 /\ a[1] = x /\ b[1] = y
        BY <1>1, <1>2
  <1>4. Like(kind, a, b)
        BY <1>3 DEF Like
  <1> QED
      BY <1>1, <1>2, <1>4

(* What begins at a position of v, with the period. *)
LEMMA DottedItem ==
    ASSUME NEW c, NEW v, NEW n \in Nat, Dotted(c, v, n), NEW kind, NEW i \in 1 .. n
    PROVE  Like(kind, ItemAt(kind, c, i), ItemAt(kind, v, i))
PROOF
  <1>1. v \in Seq(Chars) /\ c \in Seq(Chars) /\ n = Len(v) /\ Len(c) = n + 1
        BY DEF Dotted, Texts
  <1>2. i \in 1 .. n + 1 /\ i \in Nat /\ i >= 1
        OBVIOUS
  <1>3. CASE \E e \in 1 .. n : Spot(kind, v, i, e)
    <2>1. PICK e \in 1 .. n : Spot(kind, v, i, e)
          BY <1>3
    <2>2. PICK d \in 1 .. n + 1 : d = DotEnd(kind, n, e)
          BY DEF DotEnd
    <2>3. Spot(kind, c, i, d)
          BY <2>1, <2>2, DottedHas
    <2>4. ItemAt(kind, v, i) = <<SubSeq(v, i, e)>>
          BY <1>1, <2>1, ItemIs
    <2>5. ItemAt(kind, c, i) = <<SubSeq(c, i, d)>>
          BY <1>1, <1>2, <2>3, ItemIs
    <2>6. e \in Nat /\ d \in Nat /\ e <= n /\ d <= n + 1
          OBVIOUS
    <2>7. PICK y : y = SubSeq(v, i, e)
          OBVIOUS
    <2>8. PICK x : x = SubSeq(c, i, d)
          OBVIOUS
    <2>9. y \in Texts
          BY <1>1, <1>2, <2>6, <2>7, PartIs DEF Texts
    <2>10. x \in Texts
          BY <1>1, <1>2, <2>6, <2>8, PartIs DEF Texts
    <2>11. Form(kind, x, y)
      <3>1. CASE kind = "word" /\ e = n
        <4>1. d = n + 1
              BY <2>2, <3>1 DEF DotEnd
        <4>2. PICK w : w = <<".">>
              OBVIOUS
        <4>3. c = v \o w /\ w \in Seq(Chars)
              BY <4>2, DotIs DEF Dotted
        <4>4. From(v \o w, i) = From(v, i) \o w
              BY <1>1, <1>2, <4>3, RestMore
        <4>5. From(c, i) = x /\ From(v, i) = y
              BY <1>1, <2>7, <2>8, <3>1, <4>1 DEF From
        <4>6. x = y \o <<".">>
              BY <4>2, <4>3, <4>4, <4>5
        <4>7. y \in Seq(Chars)
              BY <2>9 DEF Texts
        <4>8. Append(y, ".") = y \o <<".">>
              BY <4>7, DotIs
        <4> QED
            BY <3>1, <4>6, <4>8 DEF Form
      <3>2. CASE ~(kind = "word" /\ e = n)
        <4>1. d = e
              BY <2>2, <3>2 DEF DotEnd
        <4>2. PICK l \in Nat : e = i + l - 1
              BY <1>2, <2>1, <2>6, SpotSpan
        <4>3. PICK w \in Seq(Chars) : c = v \o w
          <5>1. <<".">> \in Seq(Chars)
                BY DotIs
          <5> QED
              BY <5>1 DEF Dotted
        <4>4. SubSeq(v \o w, i, e) = SubSeq(v, i, e)
              BY <1>1, <1>2, <2>6, <4>2, SubMore
        <4> QED
            BY <2>7, <2>8, <4>1, <4>3, <4>4 DEF Form
      <3> QED
          BY <3>1, <3>2
    <2>12. Like(kind, <<x>>, <<y>>)
           BY <2>9, <2>10, <2>11, LikeOne
    <2> QED
        BY <2>4, <2>5, <2>7, <2>8, <2>12
  <1>4. CASE \A e \in 1 .. n : ~Spot(kind, v, i, e)
    <2>1. ItemAt(kind, v, i) = <<>>
          BY <1>1, <1>4, ItemIs
    <2>2. \A d \in 1 .. n + 1 : ~Spot(kind, c, i, d)
          BY <1>2, <1>4, DottedOnly
    <2>3. ItemAt(kind, c, i) = <<>>
          BY <1>1, <1>2, <2>2, ItemIs
    <2>4. <<>> \in Seq(Texts)
          OBVIOUS
    <2> QED
        BY <2>1, <2>3, <2>4, LikeSame
  <1> QED
      BY <1>3, <1>4

(* A text with a period has the items of the text, one perhaps with the period. *)
LEMMA DottedItems ==
    ASSUME NEW c, NEW v, NEW n \in Nat, Dotted(c, v, n), NEW kind
    PROVE  Like(kind, Items(kind, c), Items(kind, v))
PROOF
  <1>1. v \in Seq(Chars) /\ c \in Seq(Chars) /\ n = Len(v) /\ Len(c) = n + 1
        BY DEF Dotted, Texts
  <1>2. PICK h \in Nat : h = n + 1 /\ h = Len(c)
        BY <1>1
  <1>3. PICK x : Listing(kind, Chars, c, h, x)
        BY <1>1, <1>2, ItemsIs
  <1>4. PICK y : Listing(kind, Chars, v, n, y)
        BY <1>1, ItemsIs
  <1>5. ASSUME NEW i \in 1 .. n PROVE Like(kind, x[i], y[i])
    <2>1. i \in 1 .. h
          BY <1>2
    <2>2. x[i] = ItemAt(kind, c, i) /\ y[i] = ItemAt(kind, v, i)
          BY <1>3, <1>4, <2>1 DEF Listing
    <2> QED
        BY <2>2, DottedItem
  <1>6. x[h] = <<>>
    <2>1. h \in 1 .. n + 1 /\ h \in 1 .. Len(c) /\ h \notin 1 .. n /\ h \in 1 .. h
          BY <1>2
    <2>2. \A d \in 1 .. n + 1 : ~Spot(kind, c, h, d)
          BY <2>1, DottedOnly
    <2>3. ItemAt(kind, c, h) = <<>>
          BY <1>1, <2>1, <2>2, ItemIs
    <2> QED
        BY <1>3, <2>1, <2>3 DEF Listing
  <1>7. PICK D : D = Seq(Chars)
        OBVIOUS
  <1>8. /\ x \in Seq(Seq(D)) /\ Len(x) = h /\ Items(kind, c) = FlattenSeq(x)
        /\ y \in Seq(Seq(D)) /\ Len(y) = n /\ Items(kind, v) = FlattenSeq(y)
        BY <1>3, <1>4, <1>7 DEF Listing
  <1>9. PICK p : Flats(p, x) /\ FlattenSeq(x) = p[h]
        BY <1>8, FlattenIs
  <1>10. PICK q : Flats(q, y) /\ FlattenSeq(y) = q[n]
         BY <1>8, FlattenIs
  <1>11. Like(kind, p[n], q[n])
    <2>1. n <= Len(x) /\ n <= Len(y) /\ Len(x) \in Nat /\ Len(y) \in Nat
          BY <1>2, <1>8
    <2> QED
        BY <1>5, <1>9, <1>10, <2>1, LikeFlats
  <1>12. p[h] = p[n]
    <2>1. n \in 0 .. h /\ h \in n .. h
          BY <1>2
    <2>2. \A k \in n + 1 .. h : x[k] = <<>>
          BY <1>2, <1>6
    <2>3. (\A k \in n + 1 .. h : x[k] = <<>>) => p[h] = p[n]
          BY <1>8, <1>9, <2>1, FlatsSame
    <2> QED
        BY <2>2, <2>3
  <1> QED
      BY <1>8, <1>9, <1>10, <1>11, <1>12

(* withPeriod *)
LEMMA PeriodItems ==
    ASSUME NEW kind, NEW x \in Texts, x # <<>> => SolidEnds(x)
    PROVE  WithPeriod(x) \in Texts /\ Like(kind, Items(kind, WithPeriod(x)), Items(kind, x))
PROOF
  <1>1. CASE WithPeriod(x) = x
        BY <1>1, ItemsTexts, LikeSame
  <1>2. CASE WithPeriod(x) # x
    <2>1. x # <<>> /\ WithPeriod(x) = Append(x, ".")
          BY <1>2 DEF WithPeriod
    <2>2. x[Len(x)] \notin Whitespace
          BY <2>1 DEF SolidEnds
    <2>3. PICK n \in Nat : n = Len(x) /\ n >= 1
      <3>1. x \in Seq(Chars)
            BY DEF Texts
      <3>2. Len(x) \in Nat \ {0}
            BY <2>1, <3>1, EmptySeq
      <3> QED
          BY <3>2
    <2>4. Dotted(Append(x, "."), x, n)
          BY <2>2, <2>3, DottedIs
    <2> QED
        BY <2>1, <2>4, DottedItems DEF Dotted
  <1> QED
      BY <1>1, <1>2

(* A sentence has the items of the text that is cut off. *)
LEMMA SentenceItems ==
    ASSUME NEW kind, NEW x \in Seq(Bytes), NEW e \in Nat, e <= Len(x)
    PROVE  /\ Sentence(x, e) \in Texts /\ SubSeq(x, 1, e) \in Texts
           /\ Like(kind, Items(kind, Sentence(x, e)), Items(kind, SubSeq(x, 1, e)))
PROOF
  <1>1. PICK u : u = SubSeq(x, 1, e)
        OBVIOUS
  <1>2. u \in Seq(Bytes)
        BY <1>1, PartIs
  <1>3. u \in Texts
        BY <1>2, BytesAreChars DEF Texts
  <1>4. Strip(u) \in Texts /\ Items(kind, Strip(u)) = Items(kind, u)
        BY <1>3, StripItems
  <1>5. Strip(u) # <<>> => SolidEnds(Strip(u))
        BY <1>2, StripIs
  <1>6. WithPeriod(Strip(u)) \in Texts
        /\ Like(kind, Items(kind, WithPeriod(Strip(u))), Items(kind, Strip(u)))
        BY <1>4, <1>5, PeriodItems
  <1> QED
      BY <1>1, <1>3, <1>4, <1>6 DEF Sentence

-----------------------------------------------------------------------------
(***************************************************************************)
(* What is said by what pushCoalesced has.                                 *)
(***************************************************************************)

(* A join has the items of both texts. *)
LEMMA JoinedItems ==
    ASSUME NEW a \in Texts, NEW b \in Texts
    PROVE  /\ Joined(a, b) \in Texts
           /\ \A kind : Items(kind, Joined(a, b)) = Items(kind, a) \o Items(kind, b)
PROOF
  <1>1. Joined(a, b) = IF a = <<>> THEN b ELSE Glued(a, b)
        BY Zenon DEF Joined, Glued, Blank
  <1>2. a \in Seq(Chars) /\ b \in Seq(Chars)
        BY DEF Texts
  <1>3. CASE a = <<>>
    <2>1. ASSUME NEW kind PROVE Items(kind, b) = Items(kind, a) \o Items(kind, b)
      <3>1. Items(kind, b) \in Seq(Texts)
            BY ItemsTexts
      <3>2. <<>> \o Items(kind, b) = Items(kind, b)
            BY <3>1, ConcatEmptySeq
      <3> QED
          BY <1>3, <3>2, EmptyItems
    <2> QED
        BY <1>1, <1>3, <2>1
  <1>4. CASE a # <<>>
    <2>1. PICK w : w = <<Blank>>
          OBVIOUS
    <2>2. w \in Seq(Chars) /\ w \in Texts /\ 1 = Len(w) /\ w[1] = Blank
          BY <2>1, BlankIs DEF Texts
    <2>3. \A i \in 1 .. 1 : w[i] \in Whitespace
          BY <2>2, BlankIs
    <2>4. PICK s : s = a \o w
          OBVIOUS
    <2>5. PICK n \in Nat : n = Len(a)
          BY <1>2
    <2>6. Border(Chars, s, a, n, w, 1)
          BY <1>2, <2>2, <2>4, <2>5, ListMore
    <2>7. s \in Seq(Chars) /\ Len(s) = n + 1 /\ s[n + 1] = Blank
          BY <2>2, <2>6 DEF Border
    <2>8. s = Append(a, Blank)
          BY <1>2, <2>1, <2>4, BlankIs
    <2>9. Joined(a, b) = s \o b
          BY <1>1, <1>4, <2>8 DEF Glued
    <2>10. Apart(s, b)
           BY <2>7, BlankIs DEF Apart
    <2>11. ASSUME NEW kind PROVE Items(kind, s \o b) = Items(kind, a) \o Items(kind, b)
      <3>1. Items(kind, s \o b) = Items(kind, s) \o Items(kind, b)
            BY <1>2, <2>7, <2>10, ItemsMore
      <3>2. Items(kind, s) = Items(kind, a)
            BY <2>2, <2>3, <2>4, BlankEnds
      <3> QED
          BY <3>1, <3>2
    <2>12. s \o b \in Seq(Chars)
           BY <1>2, <2>7, ConcatProperties
    <2> QED
        BY <2>9, <2>11, <2>12 DEF Texts
  <1> QED
      BY <1>3, <1>4

(* The items of the segments of s, and of the text that waits for more. *)
Said(kind, s) == Of(kind, s.out) \o Items(kind, s.pending)

(* The segments and what waits are texts. *)
LEMMA OutTexts ==
    ASSUME NEW s \in States
    PROVE  s.out \in Seq(Texts) /\ s.pending \in Texts
PROOF
  <1>1. s.out \in Seq(Seq(Chars) \ {<<>>}) /\ s.pending \in Seq(Chars)
        BY DEF States
  <1>2. PICK D : D = Seq(Chars)
        OBVIOUS
  <1>3. s.out \in Seq(D \ {<<>>})
        BY <1>1, <1>2
  <1>4. s.out \in Seq(D)
        BY <1>3
  <1> QED
      BY <1>1, <1>2, <1>4 DEF Texts

(* Items in front of others. *)
LEMMA ItemsTriple ==
    ASSUME NEW a \in Seq(Texts), NEW b \in Seq(Texts), NEW c \in Seq(Texts)
    PROVE  (a \o b) \o c = a \o (b \o c) /\ a \o <<>> = a /\ <<>> \o a = a /\ a \o b \in Seq(Texts)
PROOF
  <1>1. (a \o b) \o c = a \o (b \o c)
        BY ConcatAssociative
  <1>2. a \o <<>> = a /\ <<>> \o a = a
        BY ConcatEmptySeq
  <1>3. a \o b \in Seq(Texts)
        BY ConcatProperties
  <1> QED
      BY <1>1, <1>2, <1>3

(* One more segment. *)
LEMMA OfMore ==
    ASSUME NEW kind, NEW out \in Seq(Texts), NEW x \in Texts
    PROVE  Of(kind, Append(out, x)) = Of(kind, out) \o Items(kind, x)
PROOF
  <1>1. <<x>> \in Seq(Texts)
        OBVIOUS
  <1>2. PICK w \in Seq(Texts) : w = <<x>>
        BY <1>1
  <1>3. Append(out, x) = out \o w
        BY <1>2
  <1>4. Of(kind, out \o w) = Of(kind, out) \o Of(kind, w)
        BY OfBoth
  <1> QED
      BY <1>2, <1>3, <1>4, OfOne

(* pushCoalesced adds the items of the sentence. *)
LEMMA PushSaid ==
    ASSUME NEW s \in States, NEW x \in Sentences, NEW kind
    PROVE  Said(kind, PushCoalesced(s, x)) = Said(kind, s) \o Items(kind, x)
PROOF
  <1>1. PICK r : r = PushCoalesced(s, x)
        OBVIOUS
  <1>2. PICK text : text = Joined(s.pending, x)
        OBVIOUS
  <1>3. r = IF x = <<>> THEN s
            ELSE IF Len(text) < config.minSegment
            THEN [s EXCEPT !.pending = text]
            ELSE [s EXCEPT !.pending = <<>>, !.out = Append(@, text)]
        BY <1>1, <1>2 DEF PushCoalesced
  <1>4. s.out \in Seq(Texts) /\ s.pending \in Texts
        BY OutTexts
  <1>5. x \in Texts
        BY SpeakableIs DEF Texts
  <1>6. PICK O : O = Of(kind, s.out)
        OBVIOUS
  <1>7. PICK P : P = Items(kind, s.pending)
        OBVIOUS
  <1>8. PICK X : X = Items(kind, x)
        OBVIOUS
  <1>9. O \in Seq(Texts) /\ P \in Seq(Texts) /\ X \in Seq(Texts)
        BY <1>4, <1>5, <1>6, <1>7, <1>8, OfBoth, ItemsTexts
  <1>10. text \in Texts /\ Items(kind, text) = P \o X
         BY <1>2, <1>4, <1>5, <1>7, <1>8, JoinedItems
  <1>11. Said(kind, s) = O \o P
         BY <1>6, <1>7 DEF Said
  <1>12. /\ (O \o P) \o X = O \o (P \o X) /\ (O \o P) \o <<>> = O \o P
         /\ (O \o (P \o X)) \o <<>> = O \o (P \o X)
    <2>1. P \o X \in Seq(Texts) /\ O \o P \in Seq(Texts)
          BY <1>9, ItemsTriple
    <2>2. O \o (P \o X) \in Seq(Texts)
          BY <1>9, <2>1, ItemsTriple
    <2>3. (O \o P) \o <<>> = O \o P
          BY <2>1, ItemsTriple
    <2>4. (O \o (P \o X)) \o <<>> = O \o (P \o X)
          BY <2>2, ItemsTriple
    <2>5. (O \o P) \o X = O \o (P \o X)
          BY <1>9, ItemsTriple
    <2> QED
        BY <2>3, <2>4, <2>5
  <1>13. CASE x = <<>>
    <2>1. X = <<>>
          BY <1>8, <1>13, EmptyItems
    <2> QED
        BY <1>1, <1>3, <1>8, <1>11, <1>12, <1>13, <2>1
  <1>14. CASE x # <<>> /\ Len(text) < config.minSegment
    <2>1. r = [s EXCEPT !.pending = text]
          BY <1>3, <1>14
    <2>2. r.out = s.out /\ r.pending = text
          BY <2>1 DEF States
    <2>3. Said(kind, r) = O \o (P \o X)
          BY <1>6, <1>10, <2>2 DEF Said
    <2> QED
        BY <1>1, <1>8, <1>11, <1>12, <2>3
  <1>15. CASE x # <<>> /\ ~(Len(text) < config.minSegment)
    <2>1. r = [s EXCEPT !.pending = <<>>, !.out = Append(@, text)]
          BY <1>3, <1>15
    <2>2. r.out = Append(s.out, text) /\ r.pending = <<>>
          BY <2>1 DEF States
    <2>3. Of(kind, Append(s.out, text)) = O \o (P \o X)
          BY <1>4, <1>6, <1>10, OfMore
    <2>4. Said(kind, r) = (O \o (P \o X)) \o <<>>
          BY <2>2, <2>3, EmptyItems DEF Said
    <2> QED
        BY <1>1, <1>8, <1>11, <1>12, <2>4
  <1> QED
      BY <1>13, <1>14, <1>15

(* All pushes add the items of all sentences. *)
LEMMA PushesSaid ==
    ASSUME NEW s \in States, NEW xs \in Seq(Sentences), NEW kind
    PROVE  Said(kind, Pushes(s, xs)) = Said(kind, s) \o Of(kind, xs)
PROOF
  <1>1. PICK n \in Nat : n = Len(xs)
        OBVIOUS
  <1>2. PICK g : Folds("push", g, s, xs) /\ Pushes(s, xs) = g[n]
        BY <1>1, PushFold DEF Pushes
  <1>3. Sentences \subseteq Texts
        BY SpeakableIs DEF Texts
  <1>4. xs \in Seq(Texts)
        BY <1>3
  <1>5. PICK l : Spread(kind, xs, n, l)
        BY <1>1, <1>4, SpreadIs
  <1>6. PICK D : D = Texts
        OBVIOUS
  <1>7. l \in Seq(Seq(D)) /\ Len(l) = n /\ Of(kind, xs) = FlattenSeq(l)
        BY <1>5, <1>6 DEF Spread
  <1>8. PICK q : Flats(q, l) /\ FlattenSeq(l) = q[n] /\ \A k \in 0 .. n : q[k] \in Seq(D)
        BY <1>7, FlattenIs
  <1>9. PICK a : a = Said(kind, s)
        OBVIOUS
  <1>10. a \in Seq(Texts)
    <2>1. s.out \in Seq(Texts) /\ s.pending \in Texts
          BY OutTexts
    <2>2. Of(kind, s.out) \in Seq(Texts) /\ Items(kind, s.pending) \in Seq(Texts)
          BY <2>1, OfBoth, ItemsTexts
    <2> QED
        BY <1>9, <2>2, ItemsTriple DEF Said
  <1> DEFINE T == {k \in 0 .. n : g[k] \in States /\ Said(kind, g[k]) = a \o q[k]}
  <1>11. 0 \in T
    <2>1. g[0] = s /\ q[0] = <<>>
          BY <1>2, <1>8 DEF Folds, Flats
    <2>2. a \o <<>> = a
          BY <1>10, ItemsTriple
    <2>3. 0 \in 0 .. n
          OBVIOUS
    <2>4. g[0] \in States /\ Said(kind, g[0]) = a \o q[0]
          BY <1>9, <2>1, <2>2
    <2> QED
        BY <2>3, <2>4
  <1>12. ASSUME NEW k \in 1 .. n, k - 1 \in T PROVE k \in T
    <2>1. PICK r : r = g[k - 1]
          OBVIOUS
    <2>2. PICK b : b = q[k - 1]
          OBVIOUS
    <2>3. r \in States /\ Said(kind, r) = a \o b
          BY <1>12, <2>1, <2>2
    <2>4. g[k] = PushCoalesced(r, xs[k])
          BY <1>1, <1>2, <2>1 DEF Folds, Step
    <2>5. xs[k] \in Sentences
          BY <1>1
    <2>6. g[k] \in States
          BY <2>3, <2>4, <2>5, PushSameRest
    <2>7. Said(kind, g[k]) = (a \o b) \o Items(kind, xs[k])
          BY <2>3, <2>4, <2>5, PushSaid
    <2>8. q[k] = b \o Items(kind, xs[k])
          BY <1>5, <1>7, <1>8, <2>2 DEF Flats, Spread
    <2>9. b \in Seq(Texts)
      <3>1. k - 1 \in 0 .. n
            OBVIOUS
      <3> QED
          BY <1>6, <1>8, <2>2, <3>1
    <2>10. Items(kind, xs[k]) \in Seq(Texts)
           BY <1>3, <2>5, ItemsTexts
    <2>11. (a \o b) \o Items(kind, xs[k]) = a \o (b \o Items(kind, xs[k]))
           BY <1>10, <2>9, <2>10, ItemsTriple
    <2>12. k \in 0 .. n
           OBVIOUS
    <2> QED
        BY <2>6, <2>7, <2>8, <2>11, <2>12
  <1>13. n \in 0 .. n
         OBVIOUS
  <1> HIDE DEF T
  <1>14. n \in T
         BY <1>11, <1>12, <1>13, UpInduction
  <1> QED
      BY <1>2, <1>7, <1>8, <1>9, <1>14 DEF T

-----------------------------------------------------------------------------
(***************************************************************************)
(* What is said by sentences, and by the end of the input.                 *)
(***************************************************************************)

(* No word and no tag of x goes on behind position e, whatever follows x; parts of
   x in front of such a position and behind it. *)
Sharp(x, e) == x[e] \in Whitespace \/ (e < Len(x) /\ x[e + 1] \in Whitespace)

SharpWithin(x, a, e, c, z) ==
    /\ {a, e, c, z} \subseteq Nat
    /\ 1 <= a /\ a <= c /\ c = e + 1 /\ e <= z /\ z <= Len(x)
    /\ a = c \/ Sharp(x, e)

(* x from its position a to e, and from there to z. *)
LEMMA SharpParts ==
    ASSUME NEW S, NEW x \in Seq(S), NEW a \in Nat, NEW e \in Nat, NEW c \in Nat, NEW z \in Nat,
           SharpWithin(x, a, e, c, z)
    PROVE  /\ SubSeq(x, a, z) = SubSeq(x, a, e) \o SubSeq(x, c, z)
           /\ Apart(SubSeq(x, a, e), SubSeq(x, c, z))
           /\ SubSeq(x, a, e) \in Seq(S) /\ SubSeq(x, c, z) \in Seq(S)
PROOF
  <1>1. /\ a \in Nat /\ e \in Nat /\ c \in Nat /\ z \in Nat /\ a >= 1 /\ e <= z /\ z <= Len(x)
        /\ c = e + 1 /\ a <= c /\ c >= 1 /\ c - 1 = e
        BY DEF SharpWithin
  <1>2. PICK d \in Nat : d = z + 1 /\ c <= d /\ d <= Len(x) + 1 /\ d - 1 = z
        BY <1>1
  <1>3. SubSeq(x, a, z) = SubSeq(x, a, e) \o SubSeq(x, c, z)
    <2>1. PICK t \in BOOLEAN : t = FALSE
          OBVIOUS
    <2>2. a >= 1 /\ a <= c /\ c <= d /\ d <= Len(x) + 1
          BY <1>1, <1>2
    <2>3. Visible(x, t, a, d) = Visible(x, t, a, c) \o Visible(x, t, c, d)
          BY <2>2, VisibleJoin
    <2> QED
        BY <1>1, <1>2, <2>1, <2>3 DEF Visible
  <1>4. PICK u : u = SubSeq(x, a, e)
        OBVIOUS
  <1>5. PICK v : v = SubSeq(x, c, z)
        OBVIOUS
  <1>6. /\ u \in Seq(S) /\ Len(u) = IF a <= e THEN e - a + 1 ELSE 0
        /\ \A k \in 1 .. e - a + 1 : u[k] = x[a + k - 1]
        BY <1>1, <1>4, PartIs
  <1>7. /\ v \in Seq(S) /\ Len(v) = IF c <= z THEN z - c + 1 ELSE 0
        /\ \A k \in 1 .. z - c + 1 : v[k] = x[c + k - 1]
        BY <1>1, <1>5, PartIs
  <1>8. Apart(u, v)
    <2>1. CASE a = c
      <3>1. Len(u) = 0
            BY <1>1, <1>6, <2>1
      <3>2. u = <<>>
            BY <1>6, <3>1, EmptySeq
      <3> QED
          BY <3>2 DEF Apart
    <2>2. CASE a <= e /\ x[e] \in Whitespace
      <3>1. PICK l \in 1 .. e - a + 1 : l = e - a + 1 /\ a + l - 1 = e
            BY <1>1, <2>2
      <3>2. Len(u) = l /\ u[l] = x[a + l - 1]
            BY <1>6, <2>2, <3>1
      <3>3. u[Len(u)] \in Whitespace
            BY <2>2, <3>1, <3>2
      <3> QED
          BY <3>3 DEF Apart
    <2>3. CASE e < Len(x) /\ x[e + 1] \in Whitespace
      <3>1. CASE e = z
        <4>1. Len(v) = 0
              BY <1>1, <1>7, <3>1
        <4>2. v = <<>>
              BY <1>7, <4>1, EmptySeq
        <4> QED
            BY <4>2 DEF Apart
      <3>2. CASE e # z
        <4>1. 1 \in 1 .. z - c + 1 /\ c + 1 - 1 = e + 1
              BY <1>1, <3>2
        <4>2. v[1] = x[c + 1 - 1]
              BY <1>7, <4>1
        <4> QED
            BY <2>3, <4>1, <4>2 DEF Apart
      <3> QED
          BY <3>1, <3>2
    <2> QED
        BY <1>1, <2>1, <2>2, <2>3 DEF Sharp, SharpWithin
  <1> QED
      BY <1>3, <1>4, <1>5, <1>6, <1>7, <1>8

(* findSentenceEnd cuts where a word ends. *)
LEMMA EndSharp ==
    ASSUME NEW S, NEW x \in Seq(S), NEW k \in Nat, k <= Len(x), NEW e,
           e = FindSentenceEnd(x, k).end, e # 0
    PROVE  e \in Nat /\ e >= 1 /\ e <= Len(x) /\ Sharp(x, e)
PROOF
  <1>1. PICK m \in Nat : Halts(x, k, m)
        BY HaltExists
  <1>2. FindSentenceEnd(x, k) = FindAt(x, m)
        BY <1>1, FindHalts
  <1>3. e = m /\ m <= Len(x) /\ ~IsUndecided(x, m)
        BY <1>2 DEF FindAt
  <1>4. Stop(x, m) /\ k < m
        BY <1>1, <1>3 DEF Halts
  <1>5. EndsSentence(x, m)
        BY <1>3, <1>4 DEF Stop
  <1>6. "\n" \in Whitespace
        BY Zenon DEF Whitespace
  <1>7. Sharp(x, m)
        BY <1>5, <1>6 DEF EndsSentence, Sharp
  <1> QED
      BY <1>3, <1>4, <1>7

(* The sentences of c are those of s from its position at to e; the text of c is
   the rest. *)
Reads(kind, s, c, at, e) ==
    /\ e \in Nat /\ at <= e /\ e <= Len(s.text) /\ c.text = From(s.text, e + 1)
    /\ e = at \/ Sharp(s.text, e)
    /\ Like(kind, Of(kind, c.sentences), Items(kind, SubSeq(s.text, at + 1, e)))

(* Nothing is cut off. *)
LEMMA ReadsNothing ==
    ASSUME NEW s, Scannable(s), NEW kind, NEW at \in Nat, at <= Len(s.text), NEW c,
           c.sentences = <<>>, c.text = Behind(s, at)
    PROVE  Reads(kind, s, c, at, at)
PROOF
  <1>1. s.text \in Seq(Bytes)
        BY DEF Scannable
  <1>2. PICK a \in Nat : a = at + 1 /\ a >= 1 /\ ~(a <= at)
        OBVIOUS
  <1>3. SubSeq(s.text, a, at) \in Seq(Bytes) /\ Len(SubSeq(s.text, a, at)) = 0
        BY <1>1, <1>2, PartIs
  <1>4. SubSeq(s.text, a, at) = <<>>
        BY <1>3, EmptySeq
  <1>5. Items(kind, SubSeq(s.text, a, at)) = <<>>
        BY <1>4, EmptyItems
  <1>6. Of(kind, <<>>) = <<>>
        BY EmptyItems, OfOne
  <1>7. <<>> \in Seq(Texts)
        OBVIOUS
  <1>8. Like(kind, <<>>, <<>>)
        BY <1>7, LikeSame
  <1>9. Like(kind, Of(kind, c.sentences), Items(kind, SubSeq(s.text, at + 1, at)))
        BY <1>2, <1>5, <1>6, <1>8
  <1> QED
      BY <1>9 DEF Reads, Behind

(* One more sentence is cut off. *)
LEMMA ReadsSentence ==
    ASSUME NEW s, Scannable(s), NEW kind, NEW at \in Nat, NEW b \in Nat, NEW d \in Nat,
           Sums(b, at, d), d >= 1, b <= Len(s.text), Sharp(s.text, b),
           NEW r \in Cuts, NEW e, Reads(kind, s, r, b, e), NEW c, c.text = r.text,
           c.sentences = <<Sentence(Behind(s, at), d)>> \o r.sentences
    PROVE  Reads(kind, s, c, at, e)
PROOF
  <1>1. PICK x \in Seq(Bytes) : x = s.text
        BY DEF Scannable
  <1>2. PICK n \in Nat : n = Len(x)
        OBVIOUS
  <1>3. b = at + d /\ at <= n /\ at < b
        BY <1>1, <1>2 DEF Sums
  <1>4. e \in Nat /\ b <= e /\ e <= n /\ c.text = From(x, e + 1) /\ (e = b \/ Sharp(x, e))
        BY <1>1, <1>2 DEF Reads
  <1>5. PICK y \in Seq(Bytes) : y = Behind(s, at) /\ Len(y) = n - at
        BY <1>1, <1>2, <1>3, BehindIs
  <1>6. d <= Len(y)
        BY <1>1, <1>2, <1>3, <1>5
  <1>7. PICK z : z = Sentence(y, d)
        OBVIOUS
  <1>8. z \in Texts /\ SubSeq(y, 1, d) \in Texts /\ Like(kind, Items(kind, z), Items(kind, SubSeq(y, 1, d)))
        BY <1>6, <1>7, SentenceItems
  <1>9. PICK a \in Nat : a = at + 1
        OBVIOUS
  <1>10. SubSeq(y, 1, d) = SubSeq(x, a, b)
    <2>1. y = From(x, a)
          BY <1>1, <1>5, <1>9 DEF Behind
    <2>2. PICK l \in Nat : l = n - at /\ Len(x) = a + l - 1
      <3>1. n - at \in Nat /\ n = a + (n - at) - 1
            BY <1>3, <1>9
      <3> QED
          BY <1>2, <3>1
    <2>3. PICK j \in Nat : j = 1
          OBVIOUS
    <2>4. Inside(a, d, a, l, j)
          BY <1>3, <1>5, <1>6, <2>2, <2>3 DEF Inside
    <2>5. d = j + d - 1 /\ b = a + d - 1 /\ a >= 1
          BY <1>3, <1>9, <2>3
    <2>6. Len(x) = a + l - 1
          BY <2>2
    <2>7. SubSeq(From(x, a), j, d) = SubSeq(x, a, b)
          BY <2>4, <2>5, <2>6, SubRest
    <2> QED
        BY <2>1, <2>7, <2>3
  <1>11. PICK u : u = SubSeq(x, a, b)
         OBVIOUS
  <1>12. PICK h \in Nat : h = b + 1
         OBVIOUS
  <1>13. PICK v : v = SubSeq(x, h, e)
         OBVIOUS
  <1>14. SharpWithin(x, a, b, h, e)
         BY <1>1, <1>2, <1>3, <1>4, <1>9, <1>12 DEF SharpWithin
  <1>15. SubSeq(x, a, e) = u \o v /\ Apart(u, v) /\ u \in Seq(Bytes) /\ v \in Seq(Bytes)
    <2>1. e \in Nat
          BY <1>4
    <2>2. /\ SubSeq(x, a, e) = SubSeq(x, a, b) \o SubSeq(x, h, e)
          /\ Apart(SubSeq(x, a, b), SubSeq(x, h, e))
          /\ SubSeq(x, a, b) \in Seq(Bytes) /\ SubSeq(x, h, e) \in Seq(Bytes)
          BY <1>14, <2>1, SharpParts
    <2> QED
        BY <1>11, <1>13, <2>2
  <1>16. u \in Seq(Chars) /\ v \in Seq(Chars)
         BY <1>15, BytesAreChars
  <1>17. Items(kind, u \o v) = Items(kind, u) \o Items(kind, v)
         BY <1>15, <1>16, ItemsMore
  <1>18. Of(kind, c.sentences) = Items(kind, z) \o Of(kind, r.sentences)
    <2>1. <<z>> \in Seq(Texts)
          BY <1>8
    <2>2. r.sentences \in Seq(Texts)
      <3>1. r.sentences \in Seq(Sentences) /\ Sentences \subseteq Texts
            BY SpeakableIs DEF Cuts, Texts
      <3> QED
          BY <3>1
    <2>3. PICK w \in Seq(Texts) : w = <<z>>
          BY <2>1
    <2>4. Of(kind, w \o r.sentences) = Of(kind, w) \o Of(kind, r.sentences)
          BY <2>2, OfBoth
    <2>5. Of(kind, w) = Items(kind, z)
          BY <1>8, <2>3, OfOne
    <2> QED
        BY <1>5, <1>7, <2>3, <2>4, <2>5
  <1>19. Like(kind, Of(kind, r.sentences), Items(kind, v))
         BY <1>1, <1>13, <1>12 DEF Reads
  <1>20. Like(kind, Items(kind, z) \o Of(kind, r.sentences), Items(kind, u) \o Items(kind, v))
         BY <1>8, <1>10, <1>11, <1>19, LikeBoth
  <1>21. Like(kind, Of(kind, c.sentences), Items(kind, SubSeq(x, a, e)))
         BY <1>15, <1>17, <1>18, <1>20
  <1>22. e = at \/ Sharp(x, e)
         BY <1>1, <1>4
  <1> QED
      BY <1>1, <1>2, <1>3, <1>4, <1>9, <1>21, <1>22 DEF Reads

(* The cuts from a position on. *)
LEMMA CutReads ==
    ASSUME NEW s, Scannable(s), NEW f, CutScan(s, f), NEW kind
    PROVE  \E e : Reads(kind, s, f[0], 0, e)
PROOF
  <1>1. s.text \in Seq(Bytes)
        BY DEF Scannable
  <1>2. PICK n \in Nat : n = Len(s.text)
        BY <1>1
  <1> DEFINE T == {at \in Nat : \E e : Reads(kind, s, f[at], at, e)}
  <1>3. ASSUME NEW at \in Nat, at <= n, \A j \in Nat : at < j /\ j <= n => j \in T
        PROVE  at \in T
    <2>1. PICK y \in Seq(Bytes) : y = Behind(s, at)
          BY <1>2, <1>3, BehindIs
    <2>2. PICK k \in Nat : k = Start(s, at) /\ k <= Len(y)
          BY <1>2, <1>3, <2>1, BehindIs
    <2>3. PICK d : d = FindSentenceEnd(y, k).end
          OBVIOUS
    <2>4. d \in Nat /\ d <= Len(y)
          BY <2>2, <2>3, FindWithin
    <2>5. PICK r : r = FindSentenceEnd(Behind(s, at), Start(s, at))
          OBVIOUS
    <2>6. f[at] = CutAt(s, f, at)
          BY <1>2, <1>3, CutStep
    <2>7. f[at] = IF d = 0 THEN [sentences |-> <<>>, text |-> y, scanned |-> r.scanned]
                  ELSE Fronted(f[at + d], Sentence(y, d))
          BY <2>1, <2>2, <2>3, <2>5, <2>6, CutCases
    <2>8. CASE d = 0
      <3>1. f[at].sentences = <<>> /\ f[at].text = Behind(s, at)
            BY <2>1, <2>7, <2>8
      <3>2. Reads(kind, s, f[at], at, at)
            BY <1>2, <1>3, <3>1, ReadsNothing
      <3> QED
          BY <3>2
    <2>9. CASE d # 0
      <3>1. d >= 1 /\ Sharp(y, d)
            BY <2>2, <2>3, <2>9, EndSharp
      <3>2. Len(y) = n - at
            BY <1>2, <1>3, <2>1, BehindIs
      <3>3. PICK b \in Nat : b = at + d /\ Sums(b, at, d)
            BY <2>4 DEF Sums
      <3>4. at < b /\ b <= n
            BY <1>3, <2>4, <3>1, <3>2, <3>3
      <3>5. PICK e : Reads(kind, s, f[b], b, e)
            BY <1>3, <3>4
      <3>6. f[b] \in Cuts
            BY <1>2, <3>4, CutKinds
      <3>7. Sentence(y, d) \in Sentences
            BY <2>4, CutSentence
      <3>8. f[at] = Fronted(f[b], Sentence(y, d))
            BY <2>7, <2>9, <3>3
      <3>9. f[at].sentences = <<Sentence(Behind(s, at), d)>> \o f[b].sentences
            /\ f[at].text = f[b].text
            BY <2>1, <3>6, <3>7, <3>8, FrontedIs, SMTT(30)
      <3>10. Sharp(s.text, b)
        <4>1. PICK a \in Nat : a = at + 1 /\ a >= 1
              OBVIOUS
        <4>2. y = From(s.text, a)
              BY <2>1, <4>1 DEF Behind
        <4>3. \A j \in 1 .. Len(y) : y[j] = s.text[a + j - 1]
              BY <1>1, <4>1, <4>2, FromIs
        <4>4. d \in 1 .. Len(y) /\ a + d - 1 = b
              BY <2>4, <3>1, <3>3, <4>1
        <4>5. y[d] = s.text[b]
              BY <4>3, <4>4
        <4>6. CASE y[d] \in Whitespace
              BY <4>5, <4>6 DEF Sharp
        <4>7. CASE d < Len(y) /\ y[d + 1] \in Whitespace
          <5>1. PICK g \in 1 .. Len(y) : g = d + 1 /\ a + g - 1 = b + 1
                BY <2>4, <3>2, <3>3, <4>1, <4>7
          <5>2. y[g] = s.text[b + 1]
                BY <4>3, <5>1
          <5>3. b < Len(s.text)
                BY <1>2, <1>3, <2>4, <3>2, <3>3, <4>7
          <5> QED
              BY <4>7, <5>1, <5>2, <5>3 DEF Sharp
        <4> QED
            BY <3>1, <4>6, <4>7 DEF Sharp
      <3>11. b <= Len(s.text)
             BY <1>2, <3>4
      <3>12. Reads(kind, s, f[at], at, e)
             BY <2>4, <3>1, <3>3, <3>5, <3>6, <3>9, <3>10, <3>11, ReadsSentence
      <3> QED
          BY <3>12
    <2> QED
        BY <2>8, <2>9
  <1> HIDE DEF T
  <1>4. \A at \in Nat : at <= n => at \in T
        BY <1>3, DownToZero
  <1>5. 0 \in T
        BY <1>4
  <1> QED
      BY <1>5 DEF T

-----------------------------------------------------------------------------
(***************************************************************************)
(* What is said at the end of the input.                                   *)
(***************************************************************************)

(* A period behind a join is one behind its second text. *)
LEMMA JoinedDot ==
    ASSUME NEW p \in Texts, NEW y \in Texts
    PROVE  Append(Joined(p, y), ".") = Joined(p, Append(y, "."))
PROOF
  <1>1. Joined(p, y) = IF p = <<>> THEN y ELSE Glued(p, y)
        BY Zenon DEF Joined, Glued, Blank
  <1>2. PICK z : z = Append(y, ".")
        OBVIOUS
  <1>3. Joined(p, z) = IF p = <<>> THEN z ELSE Glued(p, z)
        BY Zenon DEF Joined, Glued, Blank
  <1>4. CASE p = <<>>
        BY <1>1, <1>2, <1>3, <1>4
  <1>5. CASE p # <<>>
    <2>1. PICK a : a = Append(p, Blank)
          OBVIOUS
    <2>2. a \in Seq(Chars) /\ y \in Seq(Chars)
          BY <2>1, BlankIs, AppendProperties DEF Texts
    <2>3. <<".">> \in Seq(Chars)
          BY DotIs
    <2>4. PICK w \in Seq(Chars) : w = <<".">>
          BY <2>3
    <2>5. (a \o y) \o w = a \o (y \o w)
          BY <2>2, ConcatAssociative
    <2>6. z = y \o w
          BY <1>2, <2>2, <2>4, DotIs
    <2>7. a \o y \in Seq(Chars)
          BY <2>2, ConcatProperties
    <2>8. Append(a \o y, ".") = (a \o y) \o w
          BY <2>4, <2>7, DotIs
    <2>9. Joined(p, y) = a \o y /\ Joined(p, z) = a \o z
          BY <1>1, <1>3, <1>5, <2>1 DEF Glued
    <2> QED
        BY <1>2, <2>5, <2>6, <2>8, <2>9
  <1> QED
      BY <1>4, <1>5

(* The last segment, of what waits and the rest of the text, has the items of both. *)
LEMMA LastItems ==
    ASSUME NEW kind, NEW p \in Texts, NEW y \in Texts, SolidEnds(y)
    PROVE  /\ WithPeriod(Joined(p, y)) \in Texts \ {<<>>}
           /\ \E z \in Seq(Texts) : /\ Items(kind, WithPeriod(Joined(p, y))) = Items(kind, p) \o z
                                    /\ Like(kind, z, Items(kind, y))
PROOF
  <1>1. PICK x : x = Joined(p, y)
        OBVIOUS
  <1>2. x \in Seq(Chars) \ {<<>>}
        BY <1>1, JoinedText DEF SolidEnds, Texts
  <1>3. CASE WithPeriod(x) = x
    <2>1. Items(kind, x) = Items(kind, p) \o Items(kind, y)
          BY <1>1, JoinedItems
    <2>2. Items(kind, y) \in Seq(Texts)
          BY ItemsTexts
    <2>3. Like(kind, Items(kind, y), Items(kind, y))
          BY <2>2, LikeSame
    <2> QED
        BY <1>1, <1>2, <1>3, <2>1, <2>2, <2>3 DEF Texts
  <1>4. CASE WithPeriod(x) # x
    <2>1. WithPeriod(x) = Append(x, ".")
          BY <1>4 DEF WithPeriod
    <2>2. y \in Seq(Chars) /\ y # <<>> /\ y[Len(y)] \notin Whitespace
          BY DEF SolidEnds, Texts
    <2>3. PICK n \in Nat : n = Len(y) /\ n >= 1
      <3>1. Len(y) \in Nat \ {0}
            BY <2>2, EmptySeq
      <3> QED
          BY <3>1
    <2>4. Dotted(Append(y, "."), y, n)
          BY <2>2, <2>3, DottedIs
    <2>5. PICK z : z = Append(y, ".")
          OBVIOUS
    <2>6. z \in Texts /\ Like(kind, Items(kind, z), Items(kind, y))
          BY <2>4, <2>5, DottedItems DEF Dotted
    <2>7. Items(kind, Joined(p, z)) = Items(kind, p) \o Items(kind, z)
          BY <2>6, JoinedItems
    <2>8. WithPeriod(x) = Joined(p, z)
          BY <1>1, <2>1, <2>5, JoinedDot
    <2>9. Items(kind, z) \in Seq(Texts)
          BY <2>6, ItemsTexts
    <2>10. Append(x, ".") \in Seq(Chars) /\ Append(x, ".") # <<>>
           BY <1>2, DotIs, GrownIs, AppendProperties
    <2> QED
        BY <1>1, <2>1, <2>6, <2>7, <2>8, <2>9, <2>10 DEF Texts
  <1> QED
      BY <1>3, <1>4

(* The text x with w behind it, divided where the last sentence of c ends. *)
Divided(kind, x, w, c) ==
    \E u, v \in Seq(Bytes) :
        /\ c.text = v /\ Items(kind, x \o w) = Items(kind, u) \o Items(kind, v \o w)
        /\ Like(kind, Of(kind, c.sentences), Items(kind, u))

(* No word and no tag goes on behind the last sentence, whatever follows the text. *)
LEMMA ReadsMore ==
    ASSUME NEW s, Scannable(s), NEW kind, NEW c, NEW e, Reads(kind, s, c, 0, e),
           NEW w \in Seq(Bytes)
    PROVE  Divided(kind, s.text, w, c)
PROOF
  <1>1. PICK x \in Seq(Bytes) : x = s.text
        BY DEF Scannable
  <1>2. PICK n \in Nat : n = Len(x)
        OBVIOUS
  <1>3. e \in Nat /\ e <= n /\ c.text = From(x, e + 1) /\ (e = 0 \/ Sharp(x, e))
        BY <1>1, <1>2 DEF Reads
  <1>4. PICK h \in Nat : h = e + 1 /\ h >= 1 /\ h <= Len(x) + 1
        BY <1>2, <1>3
  <1>5. PICK a \in Nat : a = 1
        OBVIOUS
  <1>6. PICK y : y = x \o w
        OBVIOUS
  <1>7. PICK m \in Nat : m = Len(w)
        OBVIOUS
  <1>8. Border(Bytes, y, x, n, w, m)
        BY <1>2, <1>6, <1>7, ListMore
  <1>9. y \in Seq(Bytes) /\ Len(y) = n + m /\ \A k \in 1 .. n : y[k] = x[k]
        BY <1>8 DEF Border
  <1>10. PICK l \in Nat : l = n + m
         OBVIOUS
  <1>11. SharpWithin(y, a, e, h, l)
    <2>1. e = 0 \/ Sharp(y, e)
      <3>1. CASE x[e] \in Whitespace /\ e # 0
        <4>1. e \in 1 .. n
              BY <1>3, <3>1
        <4> QED
            BY <1>9, <3>1, <4>1 DEF Sharp
      <3>2. CASE e < Len(x) /\ x[e + 1] \in Whitespace
        <4>1. e + 1 \in 1 .. n /\ e < Len(y)
              BY <1>2, <1>3, <1>9, <3>2
        <4> QED
            BY <1>9, <3>2, <4>1 DEF Sharp
      <3> QED
          BY <1>3, <3>1, <3>2 DEF Sharp
    <2> QED
        BY <1>3, <1>4, <1>5, <1>9, <1>10, <2>1 DEF SharpWithin
  <1>12. PICK u : u = SubSeq(y, a, e)
         OBVIOUS
  <1>13. PICK b : b = SubSeq(y, h, l)
         OBVIOUS
  <1>14. SubSeq(y, a, l) = u \o b /\ Apart(u, b) /\ u \in Seq(Bytes) /\ b \in Seq(Bytes)
    <2>1. e \in Nat
          BY <1>3
    <2>2. /\ SubSeq(y, a, l) = SubSeq(y, a, e) \o SubSeq(y, h, l)
          /\ Apart(SubSeq(y, a, e), SubSeq(y, h, l))
          /\ SubSeq(y, a, e) \in Seq(Bytes) /\ SubSeq(y, h, l) \in Seq(Bytes)
          BY <1>9, <1>11, <2>1, SharpParts
    <2> QED
        BY <1>12, <1>13, <2>2
  <1>15. y = u \o b
    <2>1. From(y, a) = y
          BY <1>5, <1>9, WholeIs
    <2> QED
        BY <1>9, <1>10, <1>14, <2>1 DEF From
  <1>16. PICK v : v = From(x, h)
         OBVIOUS
  <1>17. v \in Seq(Bytes) /\ c.text = v
         BY <1>3, <1>4, <1>16, FromIs
  <1>18. b = v \o w
    <2>1. From(x \o w, h) = From(x, h) \o w
          BY <1>4, RestMore
    <2> QED
        BY <1>6, <1>9, <1>10, <1>13, <1>16, <2>1 DEF From
  <1>19. u = SubSeq(x, a, e)
    <2>1. e \in Nat /\ e = a + e - 1 /\ e <= Len(x) /\ a >= 1
          BY <1>2, <1>3, <1>5
    <2>2. SubSeq(x \o w, a, e) = SubSeq(x, a, e)
          BY <2>1, SubMore
    <2> QED
        BY <1>6, <1>12, <2>2
  <1>20. Items(kind, u \o b) = Items(kind, u) \o Items(kind, b)
    <2>1. u \in Seq(Chars) /\ b \in Seq(Chars)
          BY <1>14, BytesAreChars
    <2> QED
        BY <1>14, <2>1, ItemsMore
  <1>21. Like(kind, Of(kind, c.sentences), Items(kind, u))
         BY <1>1, <1>5, <1>19 DEF Reads
  <1> QED
      BY <1>1, <1>6, <1>14, <1>15, <1>17, <1>18, <1>20, <1>21 DEF Divided

(* flush, in steps: the text, what is cut off it, and what the rest is. *)
Flushes(r, s, w, q, t, f) ==
    /\ q \in States /\ Cuttable(q) /\ SameOut(q, s) /\ q.text = s.text \o w
    /\ CutScan(q, f) /\ t \in States /\ t.text = f[0].text /\ SameOut(t, Pushes(q, f[0].sentences))
    /\ IF Strip(t.text) = <<>>
       THEN r.out = IF t.pending = <<>> THEN t.out ELSE Append(t.out, t.pending)
       ELSE LET last == WithPeriod(Joined(t.pending, Strip(t.text)))
            IN  last # <<>> => r.out = Append(t.out, last)

(* These are its steps. *)
LEMMA FlushedIs ==
    ASSUME NEW s, SegInv(s), config.minSentence \in Nat,
           NEW w, w = IF s.inThink THEN <<>> ELSE s.utf8
    PROVE  w \in Seq(Bytes) /\ \E q, t, f : Flushes(Flushed(s), s, w, q, t, f)
PROOF
  <1>1. s \in States /\ s.scanned <= Len(s.text) /\ Checked(s.text, s.scanned)
        BY DEF SegInv
  <1>2. s.text \in Seq(Bytes) /\ s.utf8 \in Seq(Bytes) /\ s.scanned \in Nat
        BY <1>1 DEF States
  <1>3. w \in Seq(Bytes)
        BY <1>2
  <1>4. PICK c : c = s.text \o w
        OBVIOUS
  <1>5. c \in Seq(Bytes) /\ s.scanned <= Len(c) /\ Checked(c, s.scanned)
    <2>1. s.text \o w \in Seq(Bytes)
          BY <1>2, <1>3, ConcatProperties
    <2>2. s.scanned <= Len(s.text \o w) /\ Checked(s.text \o w, s.scanned)
          BY <1>1, <1>2, <1>3, CheckedMore
    <2> QED
        BY <1>4, <2>1, <2>2
  <1>6. c = IF s.inThink THEN s.text ELSE s.text \o s.utf8
    <2>1. s.text \o <<>> = s.text
          BY <1>2, ConcatEmptySeq
    <2> QED
        BY <1>4, <2>1
  <1>7. PICK q : q = [s EXCEPT !.bytes = <<>>, !.utf8 = <<>>,
                              !.text = IF s.inThink THEN @ ELSE @ \o s.utf8]
        OBVIOUS
  <1>8. q = [s EXCEPT !.bytes = <<>>, !.utf8 = <<>>, !.text = c]
        BY <1>1, <1>6, <1>7 DEF States
  <1>9. <<>> \in Seq(Bytes)
        OBVIOUS
  <1>10. /\ q \in States /\ q.pending = s.pending /\ q.out = s.out
         /\ q.text = c /\ q.scanned = s.scanned
        BY <1>1, <1>5, <1>8, <1>9 DEF States
  <1>11. Cuttable(q)
         BY <1>5, <1>10 DEF Cuttable
  <1>12. PICK t : t = EmitSentences(q)
         OBVIOUS
  <1>13. PICK f : /\ CutScan(q, f) /\ t.text = f[0].text
                  /\ SameOut(t, Pushes(q, f[0].sentences)) /\ t \in States
         BY <1>11, <1>12, EmitGives
  <1>14. PICK last : last = IF Strip(t.text) = <<>> THEN t.pending
                            ELSE WithPeriod(Joined(t.pending, Strip(t.text)))
         OBVIOUS
  <1>15. Flushed(s) = [t EXCEPT !.text = <<>>, !.pending = <<>>,
                                !.out = IF last = <<>> THEN @ ELSE Append(@, last)]
         BY <1>7, <1>12, <1>14 DEF Flushed
  <1>16. Flushed(s).out = IF last = <<>> THEN t.out ELSE Append(t.out, last)
         BY <1>13, <1>15 DEF States
  <1>17. SameOut(q, s)
         BY <1>10 DEF SameOut
  <1> QED
      BY <1>3, <1>4, <1>10, <1>11, <1>13, <1>14, <1>16, <1>17 DEF Flushes

(* What flush adds to what was said before is in the text that was held. *)
LEMMA FlushedSaid ==
    ASSUME NEW s, SegInv(s), config.minSentence \in Nat, NEW kind,
           NEW w, w = IF s.inThink THEN <<>> ELSE s.utf8
    PROVE  \E z \in Seq(Texts) : /\ Of(kind, Flushed(s).out) = Said(kind, s) \o z
                                 /\ Like(kind, z, Items(kind, s.text \o w))
PROOF
  <1>1. PICK r : r = Flushed(s)
        OBVIOUS
  <1>2. PICK q, t, f : Flushes(r, s, w, q, t, f)
        BY <1>1, FlushedIs
  <1>3. Cuttable(q) /\ q \in States /\ t \in States /\ CutScan(q, f)
        BY <1>2 DEF Flushes
  <1>4. Scannable(q)
        BY <1>3 DEF Cuttable, Scannable, States
  <1>5. f[0] \in Cuts
    <2>1. PICK o \in Nat : o = 0 /\ o <= Len(q.text)
          BY <1>4 DEF Scannable
    <2> QED
        BY <1>3, <1>4, <2>1, CutKinds
  <1>6. PICK xs \in Seq(Sentences) : xs = f[0].sentences
        BY <1>5 DEF Cuts
  <1>7. PICK e : Reads(kind, q, f[0], 0, e)
        BY <1>3, <1>4, CutReads
  <1>8. PICK u, v \in Seq(Bytes) :
            /\ t.text = v /\ Items(kind, q.text) = Items(kind, u) \o Items(kind, v)
            /\ Like(kind, Of(kind, xs), Items(kind, u))
    <2>1. <<>> \in Seq(Bytes)
          OBVIOUS
    <2>2. PICK d \in Seq(Bytes) : d = <<>>
          BY <2>1
    <2>3. Divided(kind, q.text, d, f[0])
          BY <1>4, <1>7, ReadsMore
    <2>4. q.text \o d = q.text
          BY <1>4, <2>2, ConcatEmptySeq DEF Scannable
    <2>5. \A v \in Seq(Bytes) : v \o d = v
          BY <2>2, ConcatEmptySeq
    <2>6. t.text = f[0].text
          BY <1>2 DEF Flushes
    <2> QED
        BY <1>6, <2>4, <2>5, <2>6, <2>3 DEF Divided
  <1>9. PICK y : y = Strip(v)
        OBVIOUS
  <1>10. v \in Texts
         BY BytesAreChars DEF Texts
  <1>11. y \in Texts /\ Items(kind, y) = Items(kind, v)
         BY <1>9, <1>10, StripItems
  <1>12. Said(kind, t) = Said(kind, s) \o Of(kind, xs)
    <2>1. Said(kind, Pushes(q, xs)) = Said(kind, q) \o Of(kind, xs)
          BY <1>3, PushesSaid
    <2> QED
        BY <1>2, <1>6, <2>1 DEF Said, SameOut, Flushes
  <1>13. t.out \in Seq(Texts) /\ t.pending \in Texts /\ s.out \in Seq(Texts) /\ s.pending \in Texts
         BY <1>3, OutTexts DEF SegInv
  <1>14. \E m \in Seq(Texts) : /\ Of(kind, r.out) = Said(kind, t) \o m
                               /\ Like(kind, m, Items(kind, v))
    <2>1. PICK O : O = Of(kind, t.out)
          OBVIOUS
    <2>2. PICK P : P = Items(kind, t.pending)
          OBVIOUS
    <2>3. O \in Seq(Texts) /\ P \in Seq(Texts) /\ Said(kind, t) = O \o P
          BY <1>13, <2>1, <2>2, OfBoth, ItemsTexts DEF Said
    <2>4. CASE y = <<>>
      <3>1. Items(kind, v) = <<>>
            BY <1>11, <2>4, EmptyItems
      <3>2. r.out = IF t.pending = <<>> THEN t.out ELSE Append(t.out, t.pending)
            BY <1>2, <1>8, <1>9, <2>4 DEF Flushes
      <3>3. Of(kind, r.out) = O \o P
        <4>1. CASE t.pending = <<>>
          <5>1. P = <<>>
                BY <2>2, <4>1, EmptyItems
          <5>2. O \o <<>> = O
                BY <2>3, ConcatEmptySeq
          <5> QED
              BY <2>1, <3>2, <4>1, <5>1, <5>2
        <4>2. CASE t.pending # <<>>
              BY <1>13, <2>1, <2>2, <3>2, <4>2, OfMore
        <4> QED
            BY <4>1, <4>2
      <3>4. (O \o P) \o <<>> = O \o P
        <4>1. O \o P \in Seq(Texts)
              BY <2>3, ItemsTriple
        <4> QED
            BY <4>1, ConcatEmptySeq
      <3>5. <<>> \in Seq(Texts)
            OBVIOUS
      <3>6. Like(kind, <<>>, <<>>)
            BY <3>5, LikeSame
      <3> QED
          BY <2>3, <3>1, <3>3, <3>4, <3>5, <3>6
    <2>5. CASE y # <<>>
      <3>1. SolidEnds(y)
            BY <1>9, <2>5, StripIs
      <3>2. PICK last : last = WithPeriod(Joined(t.pending, y))
            OBVIOUS
      <3>3. /\ last \in Texts \ {<<>>}
            /\ \E z \in Seq(Texts) : Items(kind, last) = P \o z /\ Like(kind, z, Items(kind, y))
            BY <1>11, <1>13, <2>2, <3>1, <3>2, LastItems
      <3>4. PICK z \in Seq(Texts) : Items(kind, last) = P \o z /\ Like(kind, z, Items(kind, y))
            BY <3>3
      <3>5. r.out = Append(t.out, last)
            BY <1>2, <1>8, <1>9, <2>5, <3>2, <3>3 DEF Flushes
      <3>6. Of(kind, r.out) = O \o (P \o z)
            BY <1>13, <2>1, <3>3, <3>4, <3>5, OfMore, ZenonT(30)
      <3>7. (O \o P) \o z = O \o (P \o z)
        <4>1. O \in Seq(Texts) /\ P \in Seq(Texts) /\ z \in Seq(Texts)
              BY <2>3
        <4> QED
            BY <4>1, ConcatAssociative, SMTT(30)
      <3> QED
          BY <1>11, <2>3, <3>4, <3>6, <3>7
    <2> QED
        BY <2>4, <2>5
  <1>15. PICK m \in Seq(Texts) : Of(kind, r.out) = Said(kind, t) \o m /\ Like(kind, m, Items(kind, v))
         BY <1>14
  <1>16. PICK D : D = Said(kind, s)
         OBVIOUS
  <1>17. PICK X : X = Of(kind, xs)
         OBVIOUS
  <1>18. D \in Seq(Texts) /\ X \in Seq(Texts)
    <2>1. Sentences \subseteq Texts
          BY SpeakableIs DEF Texts
    <2>2. xs \in Seq(Texts)
          BY <2>1
    <2>3. X \in Seq(Texts)
          BY <1>17, <2>2, OfBoth
    <2>4. Of(kind, s.out) \in Seq(Texts) /\ Items(kind, s.pending) \in Seq(Texts)
          BY <1>13, OfBoth, ItemsTexts
    <2>5. D \in Seq(Texts)
          BY <1>16, <2>4, ItemsTriple DEF Said
    <2> QED
        BY <2>3, <2>5
  <1>19. (D \o X) \o m = D \o (X \o m) /\ X \o m \in Seq(Texts)
    <2>1. D \in Seq(Texts) /\ X \in Seq(Texts) /\ m \in Seq(Texts)
          BY <1>18
    <2>2. (D \o X) \o m = D \o (X \o m)
          BY <2>1, ConcatAssociative, SMTT(30)
    <2>3. X \o m \in Seq(Texts)
          BY <1>18, ConcatProperties
    <2> QED
        BY <2>2, <2>3
  <1>20. Like(kind, X \o m, Items(kind, u) \o Items(kind, v))
         BY <1>8, <1>15, <1>17, LikeBoth
  <1>21. q.text = s.text \o w
         BY <1>2 DEF Flushes
  <1> QED
      BY <1>1, <1>8, <1>12, <1>15, <1>16, <1>17, <1>19, <1>20, <1>21

-----------------------------------------------------------------------------
(***************************************************************************)
(* accumulateUtf8Pieces lets all characters through that can be spoken.    *)
(***************************************************************************)

(* The character that begins at i, if there is one and it can be spoken. *)
Letter(y, i) ==
    IF IsCharacter(y, i) /\ ~IsEmoji(SubSeq(y, i, i + LeadLength(y[i]) - 1))
    THEN SubSeq(y, i, i + LeadLength(y[i]) - 1) ELSE <<>>

(* y has the l bytes of x up to where x ends, perhaps within a character. *)
Cropped(S, x, y, l) ==
    /\ x \in Seq(S) /\ y \in Seq(S) /\ l \in Nat /\ Len(y) = l /\ l <= Len(x)
    /\ \A k \in 1 .. l : y[k] = x[k] /\ k + LeadLength(x[k]) - 1 <= Len(x)
    /\ Ends(x, l + 1)

(* Whole does that. *)
LEMMA WholeCrops ==
    ASSUME NEW S, NEW x \in Seq(S)
    PROVE  \E l \in Nat : Cropped(S, x, Whole(x), l)
PROOF
  <1>1. PICK n \in Nat : n = Len(x)
        OBVIOUS
  <1>2. PICK U : U = {i \in 1 .. n : i + LeadLength(x[i]) - 1 > n}
        OBVIOUS
  <1>3. Whole(x) = IF U = {} THEN x ELSE SubSeq(x, 1, Min(U) - 1)
    <2>1. DOMAIN x = 1 .. n
          BY <1>1
    <2>2. U = {i \in DOMAIN x : i + LeadLength(x[i]) - 1 > Len(x)}
          BY <1>1, <1>2, <2>1
    <2> QED
        BY <2>2 DEF Whole
  <1>4. \A i \in 1 .. n : LeadLength(x[i]) \in 0 .. 3
        BY LeadLengthIs
  <1>5. CASE U = {}
    <2>1. \A k \in 1 .. n : k + LeadLength(x[k]) - 1 <= n
          BY <1>2, <1>4, <1>5
    <2>2. Ends(x, n + 1)
          BY <1>1 DEF Ends
    <2> QED
        BY <1>1, <1>3, <1>5, <2>1, <2>2 DEF Cropped
  <1>6. CASE U # {}
    <2>1. U \subseteq Nat
          BY <1>2
    <2>2. PICK m \in Nat : m = Min(U) /\ m \in U /\ \A k \in U : m <= k
          BY <1>6, <2>1, MinIs
    <2>3. m \in 1 .. n /\ m + LeadLength(x[m]) - 1 > n
          BY <1>2, <2>2
    <2>4. PICK l \in Nat : l = m - 1 /\ l + 1 = m /\ l <= n
          BY <2>3
    <2>5. PICK a \in Nat : a = 1
          OBVIOUS
    <2>6. PICK y : y = SubSeq(x, a, l)
          OBVIOUS
    <2>7. /\ y \in Seq(S) /\ Len(y) = IF a <= l THEN l - a + 1 ELSE 0
          /\ \A k \in 1 .. l - a + 1 : y[k] = x[a + k - 1]
          BY <1>1, <2>4, <2>5, <2>6, PartIs
    <2>8. Len(y) = l /\ \A k \in 1 .. l : y[k] = x[k]
          BY <2>5, <2>7
    <2>9. ASSUME NEW k \in 1 .. l PROVE k + LeadLength(x[k]) - 1 <= n
      <3>1. k \in 1 .. n /\ k \notin U
            BY <2>2, <2>4
      <3> QED
          BY <1>2, <1>4, <3>1
    <2>10. Ends(x, l + 1)
           BY <1>1, <2>3, <2>4 DEF Ends
    <2>11. Whole(x) = y
           BY <1>3, <1>6, <2>2, <2>4, <2>5, <2>6
    <2> QED
        BY <1>1, <2>4, <2>7, <2>8, <2>9, <2>10, <2>11 DEF Cropped
  <1> QED
      BY <1>5, <1>6

(* A continuation byte starts no character. *)
LEMMA ContinuationIs == \A b \in Continuation : LeadLength(b) = 0
PROOF
  BY DEF Continuation, LeadLength

(* What the scan does at i is what is at i and in the character behind it. *)
Stepped(x, y, i, l) ==
    /\ Skips(x, i) => Letter(y, i) = <<>>
    /\ \A n, e : Takes(x, i, n, e) =>
           /\ n \in 1 .. 3 /\ e \in i .. l /\ i + n = e + 1
           /\ Letter(y, i) = IF IsEmoji(SubSeq(x, i, e)) THEN <<>> ELSE SubSeq(x, i, e)
           /\ \A k \in i + 1 .. e : Letter(y, k) = <<>>

(* Characters that are taken, and bytes that are skipped. *)
LEMMA LetterIs ==
    ASSUME NEW S, NEW x, NEW y, NEW l \in Nat, Cropped(S, x, y, l), NEW i \in 1 .. l
    PROVE  Stepped(x, y, i, l)
PROOF
  <1>1. /\ x \in Seq(S) /\ y \in Seq(S) /\ Len(y) = l /\ l <= Len(x)
        /\ \A k \in 1 .. l : y[k] = x[k]
        /\ Ends(x, l + 1)
        BY DEF Cropped
  <1>2. PICK h \in Nat : h = Len(x)
        BY <1>1
  <1>3. PICK m \in Nat : m = LeadLength(x[i]) /\ m = LeadLength(y[i]) /\ m \in 0 .. 3
        BY <1>1, LeadLengthIs
  <1>4. ASSUME Skips(x, i) PROVE Letter(y, i) = <<>>
    <2>1. ~IsCharacter(y, i)
      <3>1. CASE m = 0
            BY <1>3, <3>1 DEF IsCharacter
      <3>2. CASE ~Continued(x, i)
        <4>1. PICK k \in 1 .. m - 1 : x[i + k] \notin Continuation
              BY <1>3, <3>2 DEF Continued
        <4>2. CASE i + m - 1 <= l
          <5>1. i + k \in i + 1 .. i + m - 1 /\ i + k \in 1 .. l
                BY <4>2
          <5>2. y[i + k] \notin Continuation
                BY <1>1, <4>1, <5>1
          <5> QED
              BY <1>3, <5>1, <5>2 DEF IsCharacter
        <4>3. CASE ~(i + m - 1 <= l)
              BY <1>1, <1>3, <4>3 DEF IsCharacter
        <4> QED
            BY <4>2, <4>3
      <3> QED
          BY <1>3, <1>4, <3>1, <3>2 DEF Skips
    <2> QED
        BY <2>1 DEF Letter
  <1>5. ASSUME NEW n, NEW e, Takes(x, i, n, e)
        PROVE  /\ n \in 1 .. 3 /\ e \in i .. l /\ i + n = e + 1
               /\ Letter(y, i) = IF IsEmoji(SubSeq(x, i, e)) THEN <<>> ELSE SubSeq(x, i, e)
               /\ \A k \in i + 1 .. e : Letter(y, k) = <<>>
    <2>1. n = m /\ m > 0 /\ e = i + m - 1 /\ e <= h
      <3>1. n = m /\ m > 0 /\ e = i + m - 1
            BY <1>3, <1>5 DEF Takes
      <3>2. ~(i + m - 1 > h)
            BY <1>2, <1>3, <1>5 DEF Takes, Ends
      <3> QED
          BY <3>1, <3>2
    <2>2. \A k \in i + 1 .. e : x[k] \in Continuation
      <3>1. ASSUME NEW k \in i + 1 .. e PROVE x[k] \in Continuation
        <4>1. k - i \in 1 .. m - 1 /\ i + (k - i) = k
              BY <2>1
        <4> QED
            BY <1>3, <1>5, <4>1 DEF Takes, Continued
      <3> QED
          BY <3>1
    <2>3. e <= l
      <3>1. SUFFICES ASSUME ~(e <= l) PROVE FALSE
            OBVIOUS
      <3>2. l + 1 \in i + 1 .. e
            BY <2>1, <3>1
      <3>3. LeadLength(x[l + 1]) = 0
            BY <2>2, <3>2, ContinuationIs
      <3> QED
          BY <1>1, <1>2, <2>1, <3>2, <3>3 DEF Ends
    <2>4. PICK c : c = SubSeq(x, i, e)
          OBVIOUS
    <2>5. SubSeq(y, i, e) = c
      <3>1. i \in Nat /\ e \in Nat /\ i >= 1 /\ i <= e /\ e <= Len(x) /\ e <= Len(y)
            BY <1>1, <1>2, <2>1, <2>3
      <3>2. /\ c \in Seq(S) /\ Len(c) = e - i + 1
            /\ \A k \in 1 .. e - i + 1 : c[k] = x[i + k - 1]
            BY <1>1, <2>4, <3>1, PartIs
      <3>3. PICK d : d = SubSeq(y, i, e)
            OBVIOUS
      <3>4. /\ d \in Seq(S) /\ Len(d) = e - i + 1
            /\ \A k \in 1 .. e - i + 1 : d[k] = y[i + k - 1]
            BY <1>1, <3>1, <3>3, PartIs
      <3>5. ASSUME NEW k \in 1 .. e - i + 1 PROVE d[k] = c[k]
        <4>1. i + k - 1 \in 1 .. l
              BY <2>1, <2>3
        <4> QED
            BY <1>1, <3>2, <3>4, <4>1
      <3>6. PICK w \in Nat : w = e - i + 1
            BY <3>1
      <3>7. d = c
            BY <3>2, <3>4, <3>5, <3>6, SameText
      <3> QED
          BY <3>3, <3>7
    <2>6. IsCharacter(y, i)
      <3>1. \A k \in i + 1 .. e : y[k] \in Continuation
            BY <1>1, <2>1, <2>2, <2>3
      <3> QED
          BY <1>1, <1>3, <2>1, <2>3, <3>1 DEF IsCharacter
    <2>7. Letter(y, i) = IF IsEmoji(c) THEN <<>> ELSE c
          BY <1>3, <2>1, <2>5, <2>6 DEF Letter
    <2>8. ASSUME NEW k \in i + 1 .. e PROVE Letter(y, k) = <<>>
      <3>1. k \in 1 .. l
            BY <2>1, <2>3
      <3>2. LeadLength(y[k]) = 0
            BY <1>1, <2>2, <3>1, ContinuationIs
      <3> QED
          BY <3>2 DEF Letter, IsCharacter
    <2> QED
        BY <1>3, <2>1, <2>3, <2>4, <2>7, <2>8
  <1> QED
      BY <1>4, <1>5 DEF Stepped

(* The scan gives the characters of the whole input. *)
LEMMA Utf8Text ==
    ASSUME NEW S, NEW x \in Seq(S), NEW f, Utf8Scan(x, f)
    PROVE  Text(Whole(x)) \in Seq(S) /\ f[1].utf8 = Text(Whole(x))
PROOF
  <1>1. PICK y : y = Whole(x)
        OBVIOUS
  <1>2. PICK l \in Nat : Cropped(S, x, y, l)
        BY <1>1, WholeCrops
  <1>3. y \in Seq(S) /\ Len(y) = l /\ l <= Len(x) /\ Ends(x, l + 1) /\ DOMAIN y = 1 .. l
        BY <1>2 DEF Cropped
  <1>4. PICK D : D = Seq(S)
        OBVIOUS
  <1>5. \A i \in 1 .. l : Letter(y, i) \in D
    <2>1. ASSUME NEW i \in 1 .. l PROVE Letter(y, i) \in D
      <3>1. PICK m \in Nat : m = LeadLength(y[i]) /\ m \in 0 .. 3
            BY LeadLengthIs
      <3>2. CASE IsCharacter(y, i)
        <4>1. i \in Nat /\ i >= 1 /\ i + m - 1 \in Nat /\ i + m - 1 <= Len(y)
              BY <3>1, <3>2 DEF IsCharacter
        <4>2. PICK e \in Nat : e = i + m - 1
              BY <4>1
        <4>3. SubSeq(y, i, e) \in Seq(S)
              BY <1>3, <4>1, <4>2, PartIs
        <4>4. <<>> \in Seq(S)
              OBVIOUS
        <4> QED
            BY <1>4, <3>1, <4>2, <4>3, <4>4 DEF Letter
      <3>3. CASE ~IsCharacter(y, i)
        <4>1. <<>> \in Seq(S)
              OBVIOUS
        <4> QED
            BY <1>4, <3>3, <4>1 DEF Letter
      <3> QED
          BY <3>2, <3>3
    <2> QED
        BY <2>1
  <1>6. PICK xs : xs = [i \in 1 .. l |-> Letter(y, i)]
        OBVIOUS
  <1>7. xs \in Seq(D) /\ Len(xs) = l /\ \A i \in 1 .. l : xs[i] = Letter(y, i)
        BY <1>5, <1>6
  <1>8. Text(y) = FlattenSeq(xs)
        BY <1>3, <1>6 DEF Text, Letter
  <1>9. xs \in Seq(Seq(S))
        BY <1>4, <1>7
  <1>10. PICK q : Flats(q, xs) /\ FlattenSeq(xs) = q[l] /\ \A k \in 0 .. l : q[k] \in Seq(S)
         BY <1>7, <1>9, FlattenIs
  <1>11. \A i \in 1 .. Len(x) + 1 : f[i] = Utf8At(x, f, i) /\ f[i].utf8 \in Seq(S) /\ f[i] \in [bytes : Seq(S), utf8 : Seq(S)]
    <2>1. \A i \in 1 .. Len(x) + 1 : f[i] \in [bytes : Seq(S), utf8 : Seq(S)]
          BY Utf8ScanTypes
    <2>2. \A i \in 1 .. Len(x) + 1 : f[i] = Utf8At(x, f, i)
          BY DEF Utf8Scan
    <2> QED
        BY <2>1, <2>2
  <1> DEFINE T == {i \in Nat : q[i - 1] \o f[i].utf8 = q[l]}
  <1>12. PICK z \in Nat : z = l + 1
         OBVIOUS
  <1>13. ASSUME NEW i \in Nat, 1 <= i, i <= z, \A j \in Nat : i < j /\ j <= z => j \in T
         PROVE  i \in T
    <2>1. i \in 1 .. Len(x) + 1 /\ i - 1 \in 0 .. l
          BY <1>3, <1>12, <1>13
    <2>2. PICK a : a = q[i - 1]
          OBVIOUS
    <2>3. a \in Seq(S)
          BY <1>10, <2>1, <2>2
    <2>4. f[i] = Utf8At(x, f, i)
          BY <1>11, <2>1
    <2>5. CASE Ends(x, i)
      <3>1. f[i].utf8 = <<>>
            BY <2>4, <2>5, Utf8Cases
      <3>2. i = z
        <4>1. SUFFICES ASSUME i # z PROVE FALSE
              OBVIOUS
        <4>2. i \in 1 .. l
              BY <1>12, <1>13, <4>1
        <4>3. i + LeadLength(x[i]) - 1 <= Len(x) /\ i <= Len(x)
              BY <1>2, <4>2 DEF Cropped
        <4>4. LeadLength(x[i]) \in 0 .. 3
              BY LeadLengthIs
        <4>5. Len(x) \in Nat
              OBVIOUS
        <4> QED
            BY <2>5, <4>3, <4>4, <4>5 DEF Ends
      <3>3. a \o <<>> = a
            BY <2>3, ConcatEmptySeq
      <3>4. i - 1 = l
            BY <1>12, <3>2
      <3> QED
          BY <2>2, <3>1, <3>3, <3>4
    <2>6. CASE ~Ends(x, i)
      <3>1. i \in 1 .. l
            BY <1>3, <1>12, <1>13, <2>6
      <3>2. Stepped(x, y, i, l)
            BY <1>2, <3>1, LetterIs
      <3>3. q[i] = a \o Letter(y, i)
            BY <1>7, <1>10, <2>2, <3>1 DEF Flats
      <3>4. a \o <<>> = a
            BY <2>3, ConcatEmptySeq
      <3>5. CASE Skips(x, i)
        <4>1. f[i] = f[i + 1]
              BY <2>4, <3>5, Utf8Cases
        <4>2. Letter(y, i) = <<>>
              BY <3>2, <3>5 DEF Stepped
        <4>3. PICK j \in Nat : j = i + 1 /\ i < j /\ j <= z /\ j - 1 = i
              BY <1>12, <3>1
        <4>4. q[i] \o f[j].utf8 = q[l]
              BY <1>13, <4>3
        <4> QED
            BY <2>2, <3>3, <3>4, <4>1, <4>2, <4>3, <4>4
      <3>6. ASSUME NEW n, NEW e, Takes(x, i, n, e) PROVE i \in T
        <4>1. PICK c : c = SubSeq(x, i, e)
              OBVIOUS
        <4>2. /\ n \in 1 .. 3 /\ e \in i .. l /\ i + n = e + 1
              /\ Letter(y, i) = IF IsEmoji(c) THEN <<>> ELSE c
              /\ \A k \in i + 1 .. e : Letter(y, k) = <<>>
              BY <3>2, <3>6, <4>1 DEF Stepped
        <4>3. PICK j \in Nat : j = i + n /\ i < j /\ j <= z /\ j - 1 = e /\ j \in 1 .. Len(x) + 1
              BY <1>3, <1>12, <2>1, <4>2
        <4>4. q[e] \o f[j].utf8 = q[l]
              BY <1>13, <4>3
        <4>5. q[e] = q[i]
          <5>1. \A k \in i + 1 .. e : xs[k] = <<>>
                BY <1>7, <3>1, <4>2
          <5>2. i \in 0 .. l
                BY <3>1
          <5> QED
              BY <1>7, <1>9, <1>10, <4>2, <5>1, <5>2, FlatsSame
        <4>6. f[i] = Taken(f, c, j)
              BY <2>4, <3>6, <4>1, <4>3, Utf8Cases
        <4>7. f[j] \in [bytes : Seq(S), utf8 : Seq(S)]
              BY <1>11, <4>3
        <4>8. c \in Seq(S)
          <5>1. i \in Nat /\ e \in Nat /\ i >= 1 /\ e <= Len(x)
                BY <1>3, <3>1, <4>2
          <5> QED
              BY <4>1, <5>1, PartIs
        <4>9. CASE IsEmoji(c)
          <5>1. f[i] = f[j]
                BY <4>6, <4>9 DEF Taken
          <5> QED
              BY <2>2, <3>3, <3>4, <4>2, <4>4, <4>5, <4>9, <5>1
        <4>10. CASE ~IsEmoji(c)
          <5>1. f[i].utf8 = c \o f[j].utf8
                BY <4>6, <4>7, <4>10 DEF Taken
          <5>2. f[j].utf8 \in Seq(S)
                BY <4>7
          <5>3. PICK v : v = f[j].utf8
                OBVIOUS
          <5>4. v \in Seq(S)
                BY <5>2, <5>3
          <5>5. (a \o c) \o v = a \o (c \o v)
                BY <2>3, <4>8, <5>4, ConcatAssociative
          <5> QED
              BY <2>2, <3>3, <4>2, <4>4, <4>5, <4>10, <5>1, <5>3, <5>5
        <4> QED
            BY <4>9, <4>10
      <3>7. Skips(x, i) \/ \E n, e : Takes(x, i, n, e)
            BY <2>6, Utf8Cases
      <3> QED
          BY <3>5, <3>6, <3>7
    <2> QED
        BY <2>5, <2>6
  <1> HIDE DEF T
  <1>14. \A i \in Nat : 1 <= i /\ i <= z => i \in T
         BY <1>13, Downwards
  <1>15. 1 \in T
         BY <1>12, <1>14
  <1>16. q[0] \o f[1].utf8 = q[l] /\ q[0] = <<>>
    <2>1. 1 - 1 = 0
          OBVIOUS
    <2> QED
        BY <1>10, <1>15, <2>1 DEF T, Flats
  <1>17. f[1].utf8 \in Seq(S)
    <2>1. 1 \in 1 .. Len(x) + 1
          OBVIOUS
    <2> QED
        BY <1>11, <2>1
  <1>18. <<>> \o f[1].utf8 = f[1].utf8
         BY <1>17, ConcatEmptySeq
  <1> QED
      BY <1>1, <1>8, <1>10, <1>16, <1>17, <1>18

-----------------------------------------------------------------------------
(***************************************************************************)
(* removeThinking lets all through that is outside of think blocks.        *)
(***************************************************************************)

(* A marker is at position k of u. *)
Occurs(u, t, k) == k \in Occurrences(u, MarkerOf(t))

(* Then it is within u, byte for byte. *)
LEMMA OccursAt ==
    ASSUME NEW S, NEW u \in Seq(S), NEW t \in BOOLEAN, NEW k, Occurs(u, t, k),
           NEW n \in Nat, n = Len(MarkerOf(t))
    PROVE  /\ k \in Nat /\ k >= 1 /\ k + n - 1 <= Len(u) /\ Matches(u, k, MarkerOf(t))
           /\ \A j \in 1 .. n : u[k + j - 1] = MarkerOf(t)[j]
PROOF
  <1>1. PICK l \in Nat : l = Len(u)
        OBVIOUS
  <1>2. PICK m : m = MarkerOf(t)
        OBVIOUS
  <1>3. PICK R : m \in Seq(R)
        BY <1>2, MarkerIs
  <1>4. k \in 1 .. l - n + 1
        BY <1>1 DEF Occurs, Occurrences
  <1>5. k \in Nat /\ k >= 1
        BY <1>1, <1>4
  <1>6. k \in Occurrences(u, m)
        BY <1>2 DEF Occurs
  <1>7. k + n - 1 <= l /\ Matches(u, k, m)
    <2>1. n = Len(m)
          BY <1>2
    <2> QED
        BY <1>1, <1>3, <1>5, <1>6, <2>1, OccursIs
  <1>8. \A j \in 1 .. n : u[k + j - 1] = m[j]
    <2>1. ASSUME NEW j \in 1 .. n PROVE u[k + j - 1] = m[j]
      <3>1. k + j - 1 <= Len(u)
            BY <1>1, <1>5, <1>7
      <3> QED
          BY <1>2, <1>7, <3>1 DEF Matches
    <2> QED
        BY <2>1
  <1> QED
      BY <1>1, <1>2, <1>5, <1>7, <1>8

(* The bytes of the markers. *)
LEMMA MarkerBytes ==
    /\ Len(MarkerOf(FALSE)) = 3 /\ Len(MarkerOf(TRUE)) = 4
    /\ MarkerOf(FALSE)[1] = "<" /\ MarkerOf(FALSE)[2] = "t" /\ MarkerOf(FALSE)[3] = ">"
    /\ MarkerOf(TRUE)[1] = "<" /\ MarkerOf(TRUE)[2] = "/" /\ MarkerOf(TRUE)[3] = "t"
    /\ MarkerOf(TRUE)[4] = ">"
PROOF
  BY DEF MarkerOf, ThinkStart, ThinkEnd

(* Markers do not overlap. *)
LEMMA MarkersApart ==
    ASSUME NEW S, NEW u \in Seq(S), NEW a, Occurs(u, FALSE, a), NEW e, Occurs(u, TRUE, e)
    PROVE  a \in Nat /\ e \in Nat /\ (a + 3 <= e \/ e + 4 <= a)
PROOF
  <1>1. /\ a \in Nat /\ u[a] = "<" /\ u[a + 1] = "t" /\ u[a + 2] = ">"
    <2>1. PICK t \in BOOLEAN : t = FALSE
          OBVIOUS
    <2>2. PICK n \in Nat : n = Len(MarkerOf(t)) /\ n = 3
          BY <2>1, MarkerBytes
    <2>3. Occurs(u, t, a) /\ n = Len(MarkerOf(t))
          BY <2>1, <2>2
    <2>4. a \in Nat /\ \A j \in 1 .. n : u[a + j - 1] = MarkerOf(t)[j]
          BY <2>3, OccursAt
    <2>5. ASSUME NEW j \in 1 .. 3, NEW d \in Nat, d = a + j - 1 PROVE u[d] = MarkerOf(FALSE)[j]
          BY <2>1, <2>2, <2>4, <2>5
    <2>6. u[a] = "<"
      <3>1. 1 \in 1 .. 3 /\ a \in Nat /\ a = a + 1 - 1
            BY <2>4
      <3> QED
          BY <2>5, <3>1, MarkerBytes
    <2>7. u[a + 1] = "t"
      <3>1. 2 \in 1 .. 3 /\ a + 1 \in Nat /\ a + 1 = a + 2 - 1
            BY <2>4
      <3> QED
          BY <2>5, <3>1, MarkerBytes
    <2>8. u[a + 2] = ">"
      <3>1. 3 \in 1 .. 3 /\ a + 2 \in Nat /\ a + 2 = a + 3 - 1
            BY <2>4
      <3> QED
          BY <2>5, <3>1, MarkerBytes
    <2> QED
        BY <2>4, <2>6, <2>7, <2>8
  <1>2. /\ e \in Nat /\ u[e] = "<" /\ u[e + 1] = "/" /\ u[e + 2] = "t" /\ u[e + 3] = ">"
    <2>1. PICK t \in BOOLEAN : t = TRUE
          OBVIOUS
    <2>2. PICK n \in Nat : n = Len(MarkerOf(t)) /\ n = 4
          BY <2>1, MarkerBytes
    <2>3. Occurs(u, t, e) /\ n = Len(MarkerOf(t))
          BY <2>1, <2>2
    <2>4. e \in Nat /\ \A j \in 1 .. n : u[e + j - 1] = MarkerOf(t)[j]
          BY <2>3, OccursAt
    <2>5. ASSUME NEW j \in 1 .. 4, NEW d \in Nat, d = e + j - 1 PROVE u[d] = MarkerOf(TRUE)[j]
          BY <2>1, <2>2, <2>4, <2>5
    <2>6. u[e] = "<"
      <3>1. 1 \in 1 .. 4 /\ e \in Nat /\ e = e + 1 - 1
            BY <2>4
      <3> QED
          BY <2>5, <3>1, MarkerBytes
    <2>7. u[e + 1] = "/"
      <3>1. 2 \in 1 .. 4 /\ e + 1 \in Nat /\ e + 1 = e + 2 - 1
            BY <2>4
      <3> QED
          BY <2>5, <3>1, MarkerBytes
    <2>8. u[e + 2] = "t"
      <3>1. 3 \in 1 .. 4 /\ e + 2 \in Nat /\ e + 2 = e + 3 - 1
            BY <2>4
      <3> QED
          BY <2>5, <3>1, MarkerBytes
    <2>9. u[e + 3] = ">"
      <3>1. 4 \in 1 .. 4 /\ e + 3 \in Nat /\ e + 3 = e + 4 - 1
            BY <2>4
      <3> QED
          BY <2>5, <3>1, MarkerBytes
    <2> QED
        BY <2>4, <2>6, <2>7, <2>8, <2>9
  <1>3. e # a /\ e # a + 1 /\ e # a + 2 /\ a # e + 1 /\ a # e + 2 /\ a # e + 3
        BY <1>1, <1>2
  <1> QED
      BY <1>1, <1>2, <1>3

(* Position j of u is in a think block. *)
HiddenAt(u, j) ==
    \E s : Occurs(u, FALSE, s) /\ s <= j /\ \A e : Occurs(u, TRUE, e) /\ s < e => j < e + 4

(* At position i, a think block is open (t), or none. *)
Steady(u, t, i) ==
    IF t THEN \E s : /\ Occurs(u, FALSE, s) /\ s < i
                     /\ \A e : Occurs(u, TRUE, e) /\ s < e => i <= e
         ELSE \A s : Occurs(u, FALSE, s) /\ s < i => \E e : Occurs(u, TRUE, e) /\ s < e /\ e + 4 <= i

(* From i on, the next marker is at q, and k behind it; or there is none. *)
LEMMA MeetsFirst ==
    ASSUME NEW S, NEW u \in Seq(S), NEW t \in BOOLEAN, NEW l \in Nat, l = Len(u),
           NEW i \in Nat, NEW q \in Nat, NEW k \in Nat, Meets(u, t, i, q, k)
    PROVE  /\ i >= 1 /\ i <= q /\ q <= l + 1
           /\ k = q + (IF t THEN 4 ELSE 3)
           /\ k <= l + 1 => Occurs(u, t, q)
           /\ \A m : Occurs(u, t, m) /\ i <= m => q <= m /\ k <= l + 1
PROOF
  <1>1. PICK m : m = MarkerOf(t)
        OBVIOUS
  <1>2. PICK R : m \in Seq(R)
        BY <1>1, MarkerIs
  <1>3. PICK n \in Nat : n = Len(m) /\ n = IF t THEN 4 ELSE 3
        BY <1>1, MarkerBytes
  <1>4. i >= 1 /\ First(u, i, m, q) /\ k = q + n
        BY <1>1, <1>3 DEF Meets
  <1>5. /\ i <= q /\ q <= l + 1 /\ Matches(u, q, m)
        /\ \A j \in Nat : i <= j /\ j < q => ~Matches(u, j, m)
        BY <1>4 DEF First
  <1>6. ASSUME k <= l + 1 PROVE Occurs(u, t, q)
    <2>1. q >= 1 /\ q + n - 1 <= l
          BY <1>4, <1>5, <1>6
    <2>2. q \in Occurrences(u, m)
          BY <1>2, <1>3, <1>5, <2>1, OccursIs
    <2> QED
        BY <1>1, <2>2 DEF Occurs
  <1>7. ASSUME NEW a, Occurs(u, t, a), i <= a PROVE q <= a /\ k <= l + 1
    <2>1. a \in Nat /\ a + n - 1 <= l /\ Matches(u, a, m)
          BY <1>1, <1>3, <1>7, OccursAt, ZenonT(30)
    <2>2. q <= a
          BY <1>5, <1>7, <2>1
    <2> QED
        BY <1>4, <2>1, <2>2
  <1> QED
      BY <1>3, <1>4, <1>5, <1>6, <1>7

(* Up to the next marker, and within it. *)
LEMMA SteadyOn ==
    ASSUME NEW S, NEW u \in Seq(S), NEW t \in BOOLEAN, NEW l \in Nat, l = Len(u),
           NEW i \in Nat, NEW q \in Nat, NEW k \in Nat, Meets(u, t, i, q, k), Steady(u, t, i)
    PROVE  /\ k <= l + 1 => Steady(u, ~t, k)
           /\ t => \A j \in i .. l : j < k => HiddenAt(u, j)
           /\ ~t => /\ \A j \in i .. l : j < q \/ k > l + 1 => ~HiddenAt(u, j)
                    /\ k <= l + 1 => \A j \in q .. k - 1 : HiddenAt(u, j)
PROOF
  <1>1. /\ i >= 1 /\ i <= q /\ q <= l + 1
        /\ k = q + (IF t THEN 4 ELSE 3)
        /\ k <= l + 1 => Occurs(u, t, q)
        /\ \A m : Occurs(u, t, m) /\ i <= m => q <= m /\ k <= l + 1
        BY MeetsFirst
  <1>2. \A a, e : Occurs(u, FALSE, a) /\ Occurs(u, TRUE, e) =>
                      a \in Nat /\ e \in Nat /\ (a + 3 <= e \/ e + 4 <= a)
        BY MarkersApart
  <1>3. \A b \in BOOLEAN : \A a : Occurs(u, b, a) => a \in Nat
    <2>1. ASSUME NEW b \in BOOLEAN, NEW a, Occurs(u, b, a) PROVE a \in Nat
      <3>1. PICK n \in Nat : n = Len(MarkerOf(b))
            BY MarkerBytes
      <3> QED
          BY <2>1, <3>1, OccursAt
    <2> QED
        BY <2>1
  <1>4. CASE t = TRUE
    <2>1. PICK s : /\ Occurs(u, FALSE, s) /\ s < i
                   /\ \A e : Occurs(u, TRUE, e) /\ s < e => i <= e
          BY <1>4 DEF Steady
    <2>2. s \in Nat /\ k = q + 4
          BY <1>1, <1>3, <1>4, <2>1
    <2>3. ASSUME NEW j \in i .. l, j < k PROVE HiddenAt(u, j)
      <3>1. ASSUME NEW e, Occurs(u, TRUE, e), s < e PROVE j < e + 4
        <4>1. i <= e /\ e \in Nat
              BY <1>3, <2>1, <3>1
        <4>2. q <= e
              BY <1>1, <1>4, <3>1, <4>1
        <4> QED
            BY <2>2, <2>3, <4>1, <4>2
      <3>2. s <= j
            BY <2>1, <2>2
      <3> QED
          BY <2>1, <3>1, <3>2 DEF HiddenAt
    <2>4. ASSUME k <= l + 1, NEW a, Occurs(u, FALSE, a), a < k
          PROVE  \E e : Occurs(u, TRUE, e) /\ a < e /\ e + 4 <= k
      <3>1. Occurs(u, TRUE, q)
            BY <1>1, <1>4, <2>4
      <3>2. a \in Nat /\ (a + 3 <= q \/ q + 4 <= a)
            BY <1>2, <2>4, <3>1
      <3>3. a < q /\ q + 4 <= k
            BY <2>2, <2>4, <3>2
      <3> QED
          BY <3>1, <3>3
    <2> QED
        BY <1>4, <2>3, <2>4 DEF Steady
  <1>5. CASE t = FALSE
    <2>1. \A s : Occurs(u, FALSE, s) /\ s < i => \E e : Occurs(u, TRUE, e) /\ s < e /\ e + 4 <= i
          BY <1>5 DEF Steady
    <2>2. k = q + 3
          BY <1>1, <1>5
    <2>3. ASSUME NEW j \in i .. l, j < q \/ k > l + 1 PROVE ~HiddenAt(u, j)
      <3>1. SUFFICES ASSUME NEW s, Occurs(u, FALSE, s), s <= j,
                            \A e : Occurs(u, TRUE, e) /\ s < e => j < e + 4
                     PROVE  FALSE
            BY DEF HiddenAt
      <3>2. s \in Nat
            BY <1>3, <3>1
      <3>3. CASE s < i
        <4>1. PICK e : Occurs(u, TRUE, e) /\ s < e /\ e + 4 <= i
              BY <2>1, <3>1, <3>3
        <4>2. e \in Nat /\ j < e + 4
              BY <1>3, <3>1, <4>1
        <4> QED
            BY <4>1, <4>2
      <3>4. CASE ~(s < i)
        <4>1. i <= s
              BY <3>2, <3>4
        <4>2. q <= s /\ k <= l + 1
              BY <1>1, <1>5, <3>1, <4>1
        <4> QED
            BY <2>3, <3>1, <3>2, <4>2
      <3> QED
          BY <3>3, <3>4
    <2>4. ASSUME k <= l + 1, NEW e, Occurs(u, TRUE, e), q < e PROVE k <= e
      <3>1. Occurs(u, FALSE, q)
            BY <1>1, <1>5, <2>4
      <3>2. e \in Nat /\ (q + 3 <= e \/ e + 4 <= q)
            BY <1>2, <2>4, <3>1
      <3> QED
          BY <2>2, <2>4, <3>2
    <2>5. ASSUME k <= l + 1, NEW j \in q .. k - 1 PROVE HiddenAt(u, j)
      <3>1. Occurs(u, FALSE, q)
            BY <1>1, <1>5, <2>5
      <3>2. ASSUME NEW e, Occurs(u, TRUE, e), q < e PROVE j < e + 4
        <4>1. k <= e /\ e \in Nat
              BY <1>3, <2>4, <2>5, <3>2
        <4> QED
            BY <2>5, <4>1
      <3>3. q <= j
            BY <2>5
      <3> QED
          BY <3>1, <3>2, <3>3 DEF HiddenAt
    <2>6. ASSUME k <= l + 1 PROVE Steady(u, TRUE, k)
      <3>1. Occurs(u, FALSE, q)
            BY <1>1, <1>5, <2>6
      <3>2. q < k
            BY <2>2
      <3>3. \A e : Occurs(u, TRUE, e) /\ q < e => k <= e
            BY <2>4, <2>6
      <3> QED
          BY <3>1, <3>3, <3>2 DEF Steady
    <2> QED
        BY <1>5, <2>3, <2>5, <2>6
  <1> QED
      BY <1>4, <1>5

(* The positions of u from i to before b hold one byte each in xs; and these bytes
   are what q has more at b than at i. *)
Plain(u, xs, i, b) == \A j \in i .. b - 1 : xs[j] = <<u[j]>>
Adjoins(q, u, t, i, b) == q[b - 1] = q[i - 1] \o Visible(u, t, i, b)

(* Positions that hold one byte each add these bytes. *)
LEMMA FlatsPlain ==
    ASSUME NEW S, NEW u \in Seq(S), NEW xs \in Seq(Seq(S)), Len(xs) = Len(u), NEW q, Flats(q, xs),
           NEW i \in Nat, i >= 1, NEW b \in Nat, i <= b, b <= Len(u) + 1,
           NEW t \in BOOLEAN, t = FALSE, Plain(u, xs, i, b)
    PROVE  Adjoins(q, u, t, i, b)
PROOF
  <1>1. \A j \in i .. b - 1 : xs[j] = <<u[j]>>
        BY DEF Plain
  <1>2. PICK l \in Nat : l = Len(u) /\ l = Len(xs)
        OBVIOUS
  <1>3. \A j \in 1 .. l : q[j] = q[j - 1] \o xs[j]
        BY <1>2 DEF Flats
  <1>4. \A j \in 0 .. l : q[j] \in Seq(S)
        BY <1>2, FlattenUnique
  <1>5. PICK a : a = q[i - 1]
        OBVIOUS
  <1>6. a \in Seq(S)
    <2>1. i - 1 \in 0 .. l
          BY <1>2
    <2> QED
        BY <1>4, <1>5, <2>1
  <1> DEFINE T == {k \in Nat : k < i \/ q[k - 1] = a \o Visible(u, t, i, k)}
  <1>7. 0 \in T
        OBVIOUS
  <1>8. ASSUME NEW k \in 1 .. b, k - 1 \in T PROVE k \in T
    <2>1. CASE k < i
          BY <2>1
    <2>2. CASE k = i
      <3>1. k \in Nat /\ k - 1 \in Nat /\ k >= 1 /\ k - 1 <= Len(u) /\ ~(k <= k - 1)
            BY <2>2
      <3>2. PICK c \in Nat : c = k - 1
            BY <3>1
      <3>3. SubSeq(u, k, c) \in Seq(S) /\ Len(SubSeq(u, k, c)) = 0
            BY <3>1, <3>2, PartIs
      <3>4. SubSeq(u, k, c) = <<>>
            BY <3>3, EmptySeq
      <3>5. Visible(u, t, i, k) = <<>>
            BY <2>2, <3>2, <3>4 DEF Visible
      <3>6. a \o <<>> = a
            BY <1>6, ConcatEmptySeq
      <3> QED
          BY <1>5, <2>2, <3>1, <3>5, <3>6
    <2>3. CASE i < k
      <3>1. PICK c \in Nat : c = k - 1 /\ i <= c /\ c >= 1 /\ c <= b /\ c <= l /\ k = c + 1
            BY <1>2, <2>3
      <3>2. q[c - 1] = a \o Visible(u, t, i, c)
            BY <1>8, <3>1
      <3>3. q[c] = q[c - 1] \o <<u[c]>>
        <4>1. xs[c] = <<u[c]>>
          <5>1. c \in i .. b - 1
                BY <3>1
          <5> QED
              BY <1>1, <5>1
        <4>2. c \in 1 .. l
              BY <3>1
        <4> QED
            BY <1>3, <4>1, <4>2
      <3>4. k \in Nat /\ k <= Len(u) + 1 /\ c <= k
            BY <1>2, <3>1
      <3>5. Visible(u, t, i, k) = Visible(u, t, i, c) \o Visible(u, t, c, k)
        <4>1. c \in Nat /\ k \in Nat /\ i <= c /\ c <= k /\ k <= Len(u) + 1
              BY <3>1, <3>4
        <4> QED
            BY <4>1, VisibleJoin
      <3>6. Visible(u, t, c, k) = <<u[c]>>
        <4>1. /\ SubSeq(u, c, c) \in Seq(S) /\ Len(SubSeq(u, c, c)) = c - c + 1
              /\ \A m \in 1 .. c - c + 1 : SubSeq(u, c, c)[m] = u[c + m - 1]
              BY <1>2, <3>1, PartIs
        <4>2. PICK y : y = SubSeq(u, c, c)
              OBVIOUS
        <4>3. 1 \in 1 .. c - c + 1 /\ c + 1 - 1 = c /\ c - c + 1 = 1
              OBVIOUS
        <4>4. y \in Seq(S) /\ Len(y) = 1 /\ y[1] = u[c]
              BY <4>1, <4>2, <4>3
        <4>5. y = <<u[c]>>
              BY <4>4
        <4>6. k - 1 = c
              BY <3>1
        <4> QED
            BY <4>2, <4>5, <4>6 DEF Visible
      <3>7. PICK v : v = Visible(u, t, i, c)
            OBVIOUS
      <3>8. PICK w : w = Visible(u, t, c, k)
            OBVIOUS
      <3>9. v \in Seq(S) /\ w \in Seq(S)
        <4>1. c <= Len(u) + 1
              BY <3>1, <3>4
        <4>2. v \in Seq(S)
              BY <3>1, <3>7, <4>1, VisibleIs
        <4>3. w \in Seq(S)
              BY <3>1, <3>4, <3>8, VisibleIs
        <4> QED
            BY <4>2, <4>3
      <3>10. (a \o v) \o w = a \o (v \o w)
        <4>1. a \in Seq(S) /\ v \in Seq(S) /\ w \in Seq(S)
              BY <1>6, <3>9
        <4> QED
            BY ONLY <4>1, ConcatAssociative, SMTT(30)
      <3>11. q[k - 1] = a \o Visible(u, t, i, k)
             BY <3>1, <3>2, <3>3, <3>5, <3>6, <3>7, <3>8, <3>10
      <3> QED
          BY <3>11
    <2> QED
        BY <2>1, <2>2, <2>3
  <1> HIDE DEF T
  <1>9. \A k \in 1 .. b : k - 1 \in T => k \in T
        BY <1>8
  <1>10. b \in 0 .. b
         OBVIOUS
  <1>11. b \in T
         BY <1>7, <1>9, <1>10, UpInduction
  <1>12. ~(b < i)
         OBVIOUS
  <1>13. q[b - 1] = a \o Visible(u, t, i, b)
         BY <1>11, <1>12 DEF T
  <1> QED
      BY <1>5, <1>13 DEF Adjoins

(* What comes out of a scan of removeThinking, with what flush releases. *)
Released(r) == r.text \o IF r.inThink THEN <<>> ELSE r.utf8

(* The list of what is shown at the l positions of u. *)
Showing(S, u, l, xs) ==
    /\ xs \in Seq(Seq(S)) /\ Len(xs) = l /\ l = Len(u) /\ Shown(u) = FlattenSeq(xs)
    /\ \A j \in 1 .. l : xs[j] = IF HiddenAt(u, j) THEN <<>> ELSE <<u[j]>>

(* There is one. *)
LEMMA ShownIs ==
    ASSUME NEW S, NEW u \in Seq(S), NEW l \in Nat, l = Len(u)
    PROVE  \E xs : Showing(S, u, l, xs)
PROOF
  <1>1. PICK xs : xs = [j \in 1 .. l |-> IF HiddenAt(u, j) THEN <<>> ELSE <<u[j]>>]
        OBVIOUS
  <1>2. PICK D : D = Seq(S)
        OBVIOUS
  <1>3. ASSUME NEW j \in 1 .. l PROVE (IF HiddenAt(u, j) THEN <<>> ELSE <<u[j]>>) \in D
    <2>1. u[j] \in S
          OBVIOUS
    <2>2. <<>> \in Seq(S) /\ <<u[j]>> \in Seq(S)
          BY <2>1
    <2> QED
        BY <1>2, <2>2
  <1>4. xs \in Seq(D) /\ Len(xs) = l
        BY <1>1, <1>3
  <1>5. ASSUME NEW j
        PROVE  HiddenAt(u, j) <=>
                   \E s \in Occurrences(u, ThinkStart) :
                       /\ s <= j
                       /\ \A e \in Occurrences(u, ThinkEnd) : s < e => j < e + Len(ThinkEnd)
    <2>1. Len(ThinkEnd) = 4
          BY DEF ThinkEnd
    <2>2. MarkerOf(TRUE) = ThinkEnd /\ MarkerOf(FALSE) = ThinkStart
          BY DEF MarkerOf
    <2> QED
        BY <2>1, <2>2 DEF HiddenAt, Occurs
  <1>6. DOMAIN u = 1 .. l
        OBVIOUS
  <1>7. Shown(u) = FlattenSeq(xs)
        BY <1>1, <1>5, <1>6 DEF Shown
  <1>8. \A j \in 1 .. l : xs[j] = IF HiddenAt(u, j) THEN <<>> ELSE <<u[j]>>
        BY <1>1
  <1>9. xs \in Seq(Seq(S))
        BY <1>2, <1>4
  <1>10. Showing(S, u, l, xs)
         BY <1>4, <1>7, <1>8, <1>9 DEF Showing
  <1> QED
      BY <1>10

(* Each step of the scan shows what is outside of think blocks. *)
LEMMA ThinkReleases ==
    ASSUME NEW S, NEW u \in Seq(S), NEW l \in Nat, NEW xs, Showing(S, u, l, xs),
           NEW q, Flats(q, xs), NEW t \in BOOLEAN, NEW i \in Nat, i <= l + 1, Steady(u, t, i),
           NEW p \in Nat, NEW k \in Nat, Meets(u, t, i, p, k)
    PROVE  IF k <= l + 1
           THEN Steady(u, ~t, k) /\ q[k - 1] = q[i - 1] \o Visible(u, t, i, p)
           ELSE q[l] = q[i - 1] \o Released(Stopped(u, i, t, p))
PROOF
  <1>1. /\ xs \in Seq(Seq(S)) /\ Len(xs) = l /\ l = Len(u)
        /\ \A j \in 1 .. l : xs[j] = IF HiddenAt(u, j) THEN <<>> ELSE <<u[j]>>
        BY DEF Showing
  <1>2. /\ i >= 1 /\ i <= p /\ p <= l + 1 /\ k = p + (IF t THEN 4 ELSE 3)
        BY <1>1, MeetsFirst
  <1>3. /\ k <= l + 1 => Steady(u, ~t, k)
        /\ t => \A j \in i .. l : j < k => HiddenAt(u, j)
        /\ ~t => /\ \A j \in i .. l : j < p \/ k > l + 1 => ~HiddenAt(u, j)
                 /\ k <= l + 1 => \A j \in p .. k - 1 : HiddenAt(u, j)
        BY <1>1, SteadyOn
  <1>4. PICK a : a = q[i - 1]
        OBVIOUS
  <1>5. PICK b \in 0 .. l : b = i - 1
        BY <1>2
  <1>6. a \in Seq(S)
        BY <1>1, <1>4, <1>5, FlattenUnique
  <1>7. a \o <<>> = a
        BY <1>6, ConcatEmptySeq
  <1>8. CASE t = TRUE
    <2>1. ASSUME NEW z \in b .. l, z < k PROVE q[z] = a
      <3>1. \A j \in b + 1 .. z : xs[j] = <<>>
        <4>1. ASSUME NEW j \in b + 1 .. z PROVE xs[j] = <<>>
          <5>1. j \in i .. l /\ j < k /\ j \in 1 .. l
                BY <1>2, <1>5, <2>1
          <5> QED
              BY <1>1, <1>3, <1>8, <5>1
        <4> QED
            BY <4>1
      <3>2. q[z] = q[b]
            BY <1>1, <3>1, FlatsSame
      <3> QED
          BY <1>4, <1>5, <3>2
    <2>2. CASE k <= l + 1
      <3>1. k - 1 \in b .. l /\ k - 1 < k
            BY <1>2, <1>5, <2>2
      <3>2. PICK z \in b .. l : z = k - 1 /\ z < k
            BY <3>1
      <3>3. q[k - 1] = a
            BY <2>1, <3>2
      <3>4. Visible(u, t, i, p) = <<>>
            BY <1>8 DEF Visible
      <3> QED
          BY <1>3, <1>4, <1>7, <2>2, <3>3, <3>4
    <2>3. CASE ~(k <= l + 1)
      <3>1. l \in b .. l /\ l < k
            BY <1>5, <2>3
      <3>2. q[l] = a
            BY <2>1, <3>1
      <3>3. Released(Stopped(u, i, t, p)) = <<>> \o <<>>
            BY <1>8 DEF Released, Stopped, Visible
      <3>4. <<>> \in Seq(S)
            OBVIOUS
      <3>5. <<>> \o <<>> = <<>>
            BY <3>4, ConcatEmptySeq
      <3> QED
          BY <1>4, <1>7, <2>3, <3>2, <3>3, <3>5
    <2> QED
        BY <2>2, <2>3
  <1>9. CASE t = FALSE
    <2>1. CASE k <= l + 1
      <3>1. ASSUME NEW j \in i .. p - 1 PROVE xs[j] = <<u[j]>>
        <4>1. j \in i .. l /\ j < p /\ j \in 1 .. l
              BY <1>2
        <4> QED
            BY <1>1, <1>3, <1>9, <4>1
      <3>2. q[p - 1] = q[i - 1] \o Visible(u, t, i, p)
        <4>1. Len(xs) = Len(u) /\ i >= 1 /\ i <= p /\ p <= Len(u) + 1
              BY <1>1, <1>2
        <4>2. xs \in Seq(Seq(S))
              BY <1>1
        <4>3. Plain(u, xs, i, p)
              BY <3>1 DEF Plain
        <4>4. Adjoins(q, u, t, i, p)
              BY <1>9, <4>1, <4>2, <4>3, FlatsPlain
        <4> QED
            BY <4>4 DEF Adjoins
      <3>3. PICK c \in 0 .. l : c = p - 1
            BY <1>2
      <3>4. PICK z \in c .. l : z = k - 1
        <4>1. k - 1 \in c .. l
              BY <1>2, <2>1, <3>3
        <4> QED
            BY <4>1
      <3>5. ASSUME NEW j \in c + 1 .. z PROVE xs[j] = <<>>
        <4>1. j \in p .. k - 1 /\ j \in 1 .. l
              BY <1>2, <3>3, <3>4
        <4> QED
            BY <1>1, <1>3, <1>9, <2>1, <4>1
      <3>6. q[z] = q[c]
            BY <1>1, <3>5, FlatsSame
      <3> QED
          BY <1>3, <1>9, <2>1, <3>2, <3>3, <3>4, <3>6
    <2>2. CASE ~(k <= l + 1)
      <3>1. PICK e \in Nat : e = l + 1
            OBVIOUS
      <3>2. ASSUME NEW j \in i .. e - 1 PROVE xs[j] = <<u[j]>>
        <4>1. j \in i .. l /\ k > l + 1 /\ j \in 1 .. l
              BY <1>2, <2>2, <3>1
        <4> QED
            BY <1>1, <1>3, <1>9, <4>1
      <3>3. i <= e /\ e <= Len(u) + 1 /\ e - 1 = l
            BY <1>1, <3>1
      <3>4. q[e - 1] = q[i - 1] \o Visible(u, t, i, e)
        <4>1. Len(xs) = Len(u) /\ i >= 1 /\ i <= e /\ e <= Len(u) + 1
              BY <1>1, <1>2, <3>3
        <4>2. xs \in Seq(Seq(S))
              BY <1>1
        <4>3. Plain(u, xs, i, e)
              BY <3>2 DEF Plain
        <4>4. Adjoins(q, u, t, i, e)
              BY <1>9, <4>1, <4>2, <4>3, FlatsPlain
        <4> QED
            BY <4>4 DEF Adjoins
      <3>5. p <= e /\ i >= 1 /\ i <= p
            BY <1>2, <3>1
      <3>6. Visible(u, t, i, e) = Visible(u, t, i, p) \o Visible(u, t, p, e)
        <4>1. i >= 1 /\ i <= p /\ p <= e /\ e <= Len(u) + 1
              BY <3>3, <3>5
        <4> QED
            BY <4>1, VisibleJoin
      <3>7. Visible(u, t, p, e) = From(u, p)
            BY <1>1, <1>9, <3>3 DEF Visible, From
      <3>8. Released(Stopped(u, i, t, p)) = Visible(u, t, i, p) \o From(u, p)
            BY <1>9 DEF Released, Stopped
      <3> QED
          BY <1>9, <2>2, <3>3, <3>4, <3>6, <3>7, <3>8
    <2> QED
        BY <2>1, <2>2
  <1> QED
      BY <1>8, <1>9

(* The whole scan does. *)
LEMMA ThinkText ==
    ASSUME NEW S, NEW u \in Seq(S), NEW f, ThinkScan(u, f)
    PROVE  Shown(u) \in Seq(S) /\ Released(f[1][FALSE]) = Shown(u)
PROOF
  <1>1. PICK l \in Nat : l = Len(u)
        OBVIOUS
  <1>2. PICK xs : Showing(S, u, l, xs)
        BY <1>1, ShownIs
  <1>3. xs \in Seq(Seq(S)) /\ Len(xs) = l /\ Shown(u) = FlattenSeq(xs)
        BY <1>2 DEF Showing
  <1>4. PICK q : Flats(q, xs) /\ FlattenSeq(xs) = q[l] /\ \A k \in 0 .. l : q[k] \in Seq(S)
        BY <1>3, FlattenIs
  <1>5. PICK n \in Nat : n = l + 1
        OBVIOUS
  <1> DEFINE Gives(i, t) == Steady(u, t, i) => q[i - 1] \o Released(f[i][t]) = q[l]
             T == {i \in Nat : \A t \in BOOLEAN : Gives(i, t)}
  <1>6. \A i \in 1 .. Len(u) + 1 : \A t \in BOOLEAN : f[i][t] \in Thoughts(S)
        BY ThinkScanTypes DEF Thoughts
  <1>7. ASSUME NEW i \in Nat, 1 <= i, i <= n, \A j \in Nat : i < j /\ j <= n => j \in T
        PROVE  i \in T
    <2> SUFFICES ASSUME NEW t \in BOOLEAN, Steady(u, t, i)
                 PROVE  q[i - 1] \o Released(f[i][t]) = q[l]
        OBVIOUS
    <2>1. i \in 1 .. Len(u) + 1 /\ i <= l + 1 /\ i <= Len(u) + 1 /\ i >= 1
          BY <1>1, <1>5, <1>7
    <2>2. f[i][t] = ThinkIn(u, f, i, t)
          BY <2>1, ThinkStep
    <2>3. PICK m \in Nat : m = Len(MarkerOf(t)) /\ m >= 3
      <3>1. PICK b \in 3 .. 4 : b = Len(MarkerOf(t))
            BY MarkerIs
      <3>2. b \in Nat /\ b >= 3
            OBVIOUS
      <3> QED
          BY <3>1, <3>2
    <2>4. PICK p \in Nat : First(u, i, MarkerOf(t), p)
          BY <2>1, <2>3, FirstExists
    <2>5. PICK k \in Nat : k = p + m /\ Meets(u, t, i, p, k)
          BY <2>1, <2>3, <2>4 DEF Meets
    <2>6. ThinkIn(u, f, i, t) = IF k <= l + 1 THEN Through(u, f, i, t, p, k) ELSE Stopped(u, i, t, p)
          BY <1>1, <2>5, ThinkMeets
    <2>7. IF k <= l + 1
          THEN Steady(u, ~t, k) /\ q[k - 1] = q[i - 1] \o Visible(u, t, i, p)
          ELSE q[l] = q[i - 1] \o Released(Stopped(u, i, t, p))
          BY <1>2, <1>4, <2>1, <2>5, ThinkReleases, SMTT(30)
    <2>8. CASE k <= l + 1
      <3>1. PICK a : a = q[i - 1]
            OBVIOUS
      <3>2. PICK v : v = Visible(u, t, i, p)
            OBVIOUS
      <3>3. i <= p /\ p <= Len(u) + 1
            BY <2>4 DEF First
      <3>4. v \in Seq(S)
            BY <2>1, <3>2, <3>3, VisibleIs
      <3>5. a \in Seq(S)
        <4>1. i - 1 \in 0 .. l
              BY <2>1
        <4> QED
            BY <1>4, <3>1, <4>1
      <3>6. i < k /\ k <= n /\ k \in 1 .. Len(u) + 1
            BY <1>1, <1>5, <2>1, <2>3, <2>5, <2>8, <3>3
      <3>7. PICK o \in BOOLEAN : o = ~t
            OBVIOUS
      <3>8. q[k - 1] \o Released(f[k][o]) = q[l]
            BY <1>7, <2>7, <2>8, <3>6, <3>7
      <3>9. PICK r \in Thoughts(S) : r = f[k][o]
            BY <1>6, <3>6
      <3>10. f[i][t] = Prefixed(r, v)
             BY <2>2, <2>6, <2>8, <3>2, <3>7, <3>9 DEF Through
      <3>11. /\ f[i][t].text = v \o r.text /\ f[i][t].utf8 = r.utf8 /\ f[i][t].inThink = r.inThink
        <4>1. Prefixed(r, v).text = v \o r.text
              BY DEF Prefixed, Thoughts
        <4>2. Prefixed(r, v).utf8 = r.utf8 /\ Prefixed(r, v).inThink = r.inThink
              BY <3>4, PrefixedHolds
        <4> QED
            BY <3>10, <4>1, <4>2
      <3>12. PICK w : w = IF r.inThink THEN <<>> ELSE r.utf8
             OBVIOUS
      <3>13. w \in Seq(S) /\ r.text \in Seq(S)
        <4>1. <<>> \in Seq(S)
              OBVIOUS
        <4> QED
            BY <3>12, <4>1 DEF Thoughts
      <3>14. PICK x : x = r.text
             OBVIOUS
      <3>15. PICK y : y = x \o w
             OBVIOUS
      <3>16. x \in Seq(S) /\ y \in Seq(S)
             BY <3>13, <3>14, <3>15, ConcatProperties
      <3>17. (v \o x) \o w = v \o y
             BY <3>4, <3>13, <3>15, <3>16, ConcatAssociative, SMTT(30)
      <3>18. (a \o v) \o y = a \o (v \o y)
             BY <3>4, <3>5, <3>16, ConcatAssociative, SMTT(30)
      <3>19. Released(f[i][t]) = (v \o x) \o w
             BY <3>11, <3>12, <3>14 DEF Released
      <3>20. Released(r) = y
             BY <3>12, <3>14, <3>15 DEF Released
      <3>21. q[k - 1] = a \o v
             BY <2>7, <2>8, <3>1, <3>2
      <3> QED
          BY <3>1, <3>8, <3>9, <3>17, <3>18, <3>19, <3>20, <3>21
    <2>9. CASE ~(k <= l + 1)
          BY <2>2, <2>6, <2>7, <2>9
    <2> QED
        BY <2>8, <2>9
  <1> HIDE DEF T
  <1>8. \A i \in Nat : 1 <= i /\ i <= n => i \in T
        BY <1>7, Downwards
  <1>9. 1 \in T
        BY <1>5, <1>8
  <1>10. PICK t \in BOOLEAN : t = FALSE
         OBVIOUS
  <1>11. Steady(u, t, 1)
    <2>1. ASSUME NEW s, Occurs(u, t, s), s < 1 PROVE FALSE
      <3>1. PICK m \in Nat : m = Len(MarkerOf(t))
            BY MarkerBytes
      <3>2. s \in Nat /\ s >= 1
            BY <2>1, <3>1, OccursAt
      <3> QED
          BY <2>1, <3>2
    <2> QED
        BY <1>10, <2>1 DEF Steady
  <1>12. q[1 - 1] \o Released(f[1][t]) = q[l]
         BY <1>9, <1>11 DEF T
  <1>13. Released(f[1][t]) \in Seq(S)
    <2>1. PICK r \in Thoughts(S) : r = f[1][t]
      <3>1. 1 \in 1 .. Len(u) + 1
            OBVIOUS
      <3> QED
          BY <1>6, <3>1
    <2>2. PICK w : w = IF r.inThink THEN <<>> ELSE r.utf8
          OBVIOUS
    <2>3. w \in Seq(S) /\ r.text \in Seq(S)
      <3>1. <<>> \in Seq(S)
            OBVIOUS
      <3> QED
          BY <2>2, <3>1 DEF Thoughts
    <2>4. r.text \o w \in Seq(S)
          BY <2>3, ConcatProperties
    <2> QED
        BY <2>1, <2>2, <2>4 DEF Released
  <1>14. q[0] = <<>> /\ 1 - 1 = 0
         BY <1>4 DEF Flats
  <1>15. <<>> \o Released(f[1][t]) = Released(f[1][t])
         BY <1>13, ConcatEmptySeq
  <1> QED
      BY <1>3, <1>4, <1>10, <1>12, <1>13, <1>14, <1>15

-----------------------------------------------------------------------------
(***************************************************************************)
(* The words and the tags that the properties speak of.                    *)
(***************************************************************************)

(* Words lists the words. *)
LEMMA WordsAre ==
    ASSUME NEW S, NEW u \in Seq(S)
    PROVE  Words(u) = Items("word", u)
PROOF
  <1>1. PICK n \in Nat : n = Len(u)
        OBVIOUS
  <1>2. DOMAIN u = 1 .. n
        BY <1>1
  <1>3. PICK kind : kind = "word"
        OBVIOUS
  <1> DEFINE blank(i) == i \in {0, Len(u) + 1} \/ u[i] \in Whitespace
             end(i) == Min({k \in i .. Len(u) : blank(k + 1)})
             word(i) == IF blank(i - 1) /\ ~blank(i) THEN <<SubSeq(u, i, end(i))>> ELSE <<>>
  <1>4. ASSUME NEW i \in 1 .. n PROVE word(i) = ItemAt(kind, u, i)
    <2>1. \A k : blank(k) <=> BlankAt(u, k)
          BY DEF BlankAt
    <2>2. \A e : Spot(kind, u, i, e) <=> WordAt(u, i, e)
          BY <1>3 DEF Spot
    <2>3. CASE BlankAt(u, i - 1) /\ ~BlankAt(u, i)
      <3>1. PICK K : K = {k \in i .. n : BlankAt(u, k + 1)}
            OBVIOUS
      <3>2. n \in K
            BY <1>1, <3>1 DEF BlankAt
      <3>3. K \subseteq Nat /\ K # {}
        <4>1. \A k \in i .. n : k \in Nat
              OBVIOUS
        <4> QED
            BY <3>1, <3>2, <4>1
      <3>4. PICK e : e = Min(K) /\ e \in K /\ \A k \in K : e <= k
            BY <3>3, MinIs
      <3>5. e \in i .. n /\ BlankAt(u, e + 1)
            BY <3>1, <3>4
      <3>6. ASSUME NEW k \in i .. e PROVE ~BlankAt(u, k)
        <4>1. CASE k = i
              BY <2>3, <4>1
        <4>2. CASE k # i
          <5>1. PICK j \in i .. n : j = k - 1 /\ j + 1 = k /\ j < e
                BY <3>5, <4>2
          <5>2. j \notin K
                BY <3>4, <3>5, <5>1
          <5> QED
              BY <3>1, <5>1, <5>2
        <4> QED
            BY <4>1, <4>2
      <3>7. WordAt(u, i, e)
            BY <2>3, <3>5, <3>6 DEF WordAt
      <3>8. ItemAt(kind, u, i) = <<SubSeq(u, i, e)>>
        <4>1. e \in 1 .. Len(u) /\ i \in 1 .. Len(u) /\ Spot(kind, u, i, e)
              BY <1>1, <2>2, <3>5, <3>7
        <4> QED
            BY <4>1, ItemIs
      <3>9. K = {k \in i .. Len(u) : blank(k + 1)}
            BY <1>1, <2>1, <3>1
      <3> QED
          BY <2>1, <2>3, <3>4, <3>8, <3>9
    <2>4. CASE ~(BlankAt(u, i - 1) /\ ~BlankAt(u, i))
      <3>1. ASSUME NEW e \in 1 .. Len(u), Spot(kind, u, i, e) PROVE FALSE
        <4>1. /\ i <= e /\ BlankAt(u, i - 1) /\ \A k \in i .. e : ~BlankAt(u, k)
              BY <2>2, <3>1 DEF WordAt
        <4>2. i \in i .. e
              BY <1>1, <4>1
        <4> QED
            BY <2>4, <4>1, <4>2
      <3>2. i \in 1 .. Len(u)
            BY <1>1
      <3>3. ItemAt(kind, u, i) = <<>>
            BY <3>1, <3>2, ItemIs
      <3> QED
          BY <2>1, <2>4, <3>3
    <2> QED
        BY <2>3, <2>4
  <1>5. Words(u) = FlattenSeq([i \in DOMAIN u |-> word(i)])
        BY DEF Words
  <1> HIDE DEF word
  <1>6. [i \in DOMAIN u |-> word(i)] = [i \in DOMAIN u |-> ItemAt(kind, u, i)]
        BY <1>2, <1>4
  <1> QED
      BY <1>3, <1>5, <1>6 DEF Items

(* The names of the tags of a text, with their braces. *)
Names(text) ==
    FlattenSeq([i \in DOMAIN text |->
        LET from == {t \in TagsOf(text) : t[1] = i}
        IN  IF from = {} THEN <<>> ELSE <<SubSeq(text, i, (CHOOSE t \in from : TRUE)[2])>>])

(* They are the tags. *)
LEMMA NamesAre ==
    ASSUME NEW S, NEW u \in Seq(S)
    PROVE  Names(u) = Items("tag", u)
PROOF
  <1>1. PICK n \in Nat : n = Len(u)
        OBVIOUS
  <1>2. DOMAIN u = 1 .. n
        BY <1>1
  <1>3. PICK kind : kind = "tag"
        OBVIOUS
  <1> DEFINE from(i) == {t \in TagsOf(u) : t[1] = i}
             name(i) == IF from(i) = {} THEN <<>> ELSE <<SubSeq(u, i, (CHOOSE t \in from(i) : TRUE)[2])>>
  <1>4. ASSUME NEW i \in 1 .. n PROVE name(i) = ItemAt(kind, u, i)
    <2>1. TagsOf(u) = {t \in (1 .. n) \X (1 .. n) : TagAt(u, t[1], t[2])}
          BY <1>1, TagsAre
    <2>2. \A e : Spot(kind, u, i, e) <=> TagAt(u, i, e)
          BY <1>3 DEF Spot
    <2>3. i \in 1 .. Len(u)
          BY <1>1
    <2>4. CASE from(i) # {}
      <3>1. PICK t : t = CHOOSE a \in from(i) : TRUE
            OBVIOUS
      <3>2. t \in from(i)
            BY <2>4, <3>1
      <3>3. t \in TagsOf(u) /\ t[1] = i
            BY <3>2
      <3>4. PICK e : e = t[2]
            OBVIOUS
      <3>5. e \in 1 .. n /\ TagAt(u, i, e)
            BY <2>1, <3>3, <3>4
      <3>6. e \in 1 .. Len(u) /\ Spot(kind, u, i, e)
            BY <1>1, <2>2, <3>5
      <3>7. ItemAt(kind, u, i) = <<SubSeq(u, i, e)>>
            BY <2>3, <3>6, ItemIs
      <3> QED
          BY <2>4, <3>1, <3>4, <3>7
    <2>5. CASE from(i) = {}
      <3>1. ASSUME NEW e \in 1 .. Len(u), Spot(kind, u, i, e) PROVE FALSE
        <4>1. TagAt(u, i, e) /\ e \in 1 .. n
              BY <1>1, <2>2, <3>1
        <4>2. PICK t : t = <<i, e>>
              OBVIOUS
        <4>3. t \in (1 .. n) \X (1 .. n) /\ t[1] = i /\ t[2] = e
              BY <4>1, <4>2
        <4>4. t \in TagsOf(u)
              BY <2>1, <4>1, <4>3
        <4> QED
            BY <2>5, <4>3, <4>4
      <3>2. ItemAt(kind, u, i) = <<>>
            BY <2>3, <3>1, ItemIs
      <3> QED
          BY <2>5, <3>2
    <2> QED
        BY <2>4, <2>5
  <1>5. Names(u) = FlattenSeq([i \in DOMAIN u |-> name(i)])
        BY DEF Names
  <1> HIDE DEF name
  <1>6. [i \in DOMAIN u |-> name(i)] = [i \in DOMAIN u |-> ItemAt(kind, u, i)]
        BY <1>2, <1>4
  <1> QED
      BY <1>3, <1>5, <1>6 DEF Items

(* Segments with the words of a text speak it. *)
LEMMA SpeaksIs ==
    ASSUME NEW out \in Seq(Texts), NEW b, Shown(Text(b)) \in Texts,
           Like("word", Of("word", out), Items("word", Shown(Text(b))))
    PROVE  Speaks(out, b)
PROOF
  <1>1. PICK v : v = Shown(Text(b))
        OBVIOUS
  <1>2. Words(v) = Items("word", v)
        BY <1>1, WordsAre DEF Texts
  <1>3. PICK n \in Nat : n = Len(out) /\ DOMAIN out = 1 .. n
        OBVIOUS
  <1>4. ASSUME NEW k \in 1 .. n PROVE Words(out[k]) = Items("word", out[k])
    <2>1. out[k] \in Seq(Chars)
          BY <1>3 DEF Texts
    <2> QED
        BY <2>1, WordsAre
  <1>5. [k \in DOMAIN out |-> Words(out[k])] = [k \in DOMAIN out |-> Items("word", out[k])]
        BY <1>3, <1>4
  <1>6. PICK x : x = FlattenSeq([k \in DOMAIN out |-> Words(out[k])])
        OBVIOUS
  <1>7. x = Of("word", out)
        BY <1>5, <1>6 DEF Of
  <1>8. PICK y : y = Words(v)
        OBVIOUS
  <1>9. Like("word", x, y)
        BY <1>1, <1>2, <1>7, <1>8
  <1>10. Len(x) = Len(y) /\ DOMAIN y = 1 .. Len(y)
         BY <1>9 DEF Like
  <1>11. \A k \in DOMAIN y : x[k] \in {y[k], Append(y[k], ".")}
         BY <1>9, <1>10 DEF Like, Form
  <1> QED
      BY <1>1, <1>6, <1>8, <1>10, <1>11 DEF Speaks

(* Segments with the tags of a text have these, and no others. *)
LEMMA TagsAlike ==
    ASSUME NEW out \in Seq(Texts), NEW v \in Texts, Like("tag", Of("tag", out), Items("tag", v))
    PROVE  FlattenSeq([k \in DOMAIN out |-> Names(out[k])]) = Names(v)
PROOF
  <1>1. Names(v) = Items("tag", v)
        BY NamesAre DEF Texts
  <1>2. PICK n \in Nat : n = Len(out) /\ DOMAIN out = 1 .. n
        OBVIOUS
  <1>3. ASSUME NEW k \in 1 .. n PROVE Names(out[k]) = Items("tag", out[k])
    <2>1. out[k] \in Seq(Chars)
          BY <1>2 DEF Texts
    <2> QED
        BY <2>1, NamesAre
  <1>4. [k \in DOMAIN out |-> Names(out[k])] = [k \in DOMAIN out |-> Items("tag", out[k])]
        BY <1>2, <1>3
  <1>5. PICK x : x = Of("tag", out)
        OBVIOUS
  <1>6. PICK y : y = Items("tag", v)
        OBVIOUS
  <1>7. /\ x \in Seq(Texts) /\ y \in Seq(Texts) /\ Len(x) = Len(y)
        /\ \A k \in 1 .. Len(y) : x[k] = y[k]
        BY <1>5, <1>6 DEF Like, Form
  <1>8. PICK m \in Nat : m = Len(y)
        BY <1>7
  <1>9. x = y
        BY <1>7, <1>8, SameText
  <1> QED
      BY <1>1, <1>4, <1>5, <1>6, <1>9 DEF Of

-----------------------------------------------------------------------------
(***************************************************************************)
(* At the end, all that is shown was said.                                 *)
(***************************************************************************)

(* The segments have the words and the tags of what is shown of the input. *)
KeptFrom(x, out) ==
    /\ Shown(Text(Whole(x))) \in Texts
    /\ \A kind : Like(kind, Of(kind, out), Items(kind, Shown(Text(Whole(x)))))
Kept == \A x, out : x = input /\ out = seg.out /\ done => KeptFrom(x, out)

(* Nothing is shown of no input, and nothing is said. *)
LEMMA NothingShown ==
    /\ Shown(Text(Whole(<<>>))) = <<>> /\ KeptFrom(<<>>, <<>>)
PROOF
  <1>1. <<>> \in Seq(Bytes)
        OBVIOUS
  <1>2. PICK x \in Seq(Bytes) : x = <<>>
        BY <1>1
  <1>3. PICK f : Utf8Scan(x, f)
        BY Utf8Exists
  <1>4. Ends(x, 1)
        BY <1>2 DEF Ends
  <1>5. f[1] = Utf8At(x, f, 1)
        BY <1>2, <1>3 DEF Utf8Scan
  <1>6. f[1].utf8 = <<>>
        BY <1>4, <1>5, Utf8Cases
  <1>7. Text(Whole(x)) = <<>>
        BY <1>3, <1>6, Utf8Text
  <1>8. PICK l \in Nat : l = 0
        OBVIOUS
  <1>9. l = Len(x)
        BY <1>2, <1>8
  <1>10. PICK xs : Showing(Bytes, x, l, xs)
         BY <1>9, ShownIs
  <1>11. xs \in Seq(Seq(Bytes)) /\ Len(xs) = 0 /\ Shown(x) = FlattenSeq(xs)
         BY <1>8, <1>10 DEF Showing
  <1>12. xs = <<>>
    <2>1. PICK D : D = Seq(Bytes)
          OBVIOUS
    <2>2. xs \in Seq(D)
          BY <1>11, <2>1
    <2> QED
        BY <1>11, <2>2, EmptySeq
  <1>13. Shown(x) = <<>>
         BY <1>1, <1>11, <1>12, FlattenOne
  <1>14. Shown(Text(Whole(<<>>))) = <<>>
         BY <1>2, <1>7, <1>13
  <1>15. ASSUME NEW kind PROVE Like(kind, Of(kind, <<>>), Items(kind, <<>>))
    <2>1. Of(kind, <<>>) = <<>> /\ Items(kind, <<>>) = <<>>
          BY EmptyItems, OfOne
    <2>2. <<>> \in Seq(Texts)
          OBVIOUS
    <2>3. Like(kind, <<>>, <<>>)
          BY <2>2, LikeSame
    <2> QED
        BY <2>1, <2>3
  <1> QED
      BY <1>14, <1>15, EmptyItems DEF KeptFrom

(* At the end, the items of all segments are in the text that removeThinking let
   through, and in what flush added to it. *)
LEMMA FinalItems ==
    ASSUME config.minSentence \in Nat, config.minSegment \in Nat, NEW x \in Seq(Bytes),
           NEW r, r = Fed(Fresh, x), NEW z, Feeds(r, Fresh, x, z), NEW kind,
           NEW t, t = z.think[1][FALSE]
    PROVE  Like(kind, Of(kind, Flushed(r).out), Items(kind, Released(t)))
PROOF
  <1>1. Fresh.inThink = FALSE /\ Fresh.text = <<>> /\ Fresh.out = <<>> /\ Fresh.pending = <<>>
        BY FreshIs
  <1>2. SegInv(Fresh) /\ Fresh \in States
        BY FreshInv DEF SegInv
  <1>3. PICK a : a = t.text
        OBVIOUS
  <1>4. a \in Seq(Bytes) /\ z.cuts[0] \in Cuts
    <2>1. z.think[1][Fresh.inThink] \in Thoughts(Bytes) /\ z.cuts[0] \in Cuts
          BY <1>2, FeedsKinds
    <2> QED
        BY <1>1, <1>3, <2>1 DEF Thoughts
  <1>5. r.inThink = t.inThink /\ r.utf8 = t.utf8
        BY <1>1 DEF Feeds
  <1>6. PICK q : q = z.shown
        OBVIOUS
  <1>7. /\ q \in States /\ Scannable(q) /\ q.text = <<>> \o a /\ SameOut(q, Fresh)
        /\ CutScan(q, z.cuts) /\ r.text = z.cuts[0].text
        /\ SameOut(r, Pushes(q, z.cuts[0].sentences))
        BY <1>1, <1>3, <1>6 DEF Feeds, Grown
  <1>8. q.text = a
    <2>1. <<>> \o a = a
          BY <1>4, ConcatEmptySeq
    <2> QED
        BY <1>7, <2>1
  <1>9. PICK xs \in Seq(Sentences) : xs = z.cuts[0].sentences
        BY <1>4 DEF Cuts
  <1>10. PICK X : X = Of(kind, xs)
         OBVIOUS
  <1>11. X \in Seq(Texts)
    <2>1. Sentences \subseteq Texts
          BY SpeakableIs DEF Texts
    <2>2. xs \in Seq(Texts)
          BY <2>1
    <2> QED
        BY <1>10, <2>2, OfBoth
  <1>12. Said(kind, r) = X
    <2>1. Said(kind, Pushes(q, xs)) = Said(kind, q) \o Of(kind, xs)
          BY <1>7, PushesSaid
    <2>2. Said(kind, r) = Said(kind, Pushes(q, xs))
          BY <1>7, <1>9 DEF Said, SameOut
    <2>3. Said(kind, q) = <<>> \o <<>>
          BY <1>1, <1>7, EmptyItems, OfOne DEF Said, SameOut
    <2>4. <<>> \in Seq(Texts)
          OBVIOUS
    <2>5. <<>> \o <<>> = <<>>
          BY <2>4, ConcatEmptySeq
    <2>6. <<>> \o X = X
          BY <1>11, ConcatEmptySeq
    <2> QED
        BY <1>10, <2>1, <2>2, <2>3, <2>5, <2>6
  <1>13. PICK e : Reads(kind, q, z.cuts[0], 0, e)
         BY <1>7, CutReads
  <1>14. <<>> \in Seq(Bytes)
         OBVIOUS
  <1>15. SegInv(r)
         BY <1>2, FedKeeps
  <1>16. r.utf8 \in Seq(Bytes)
         BY <1>15 DEF SegInv, States
  <1>17. PICK w \in Seq(Bytes) : w = IF r.inThink THEN <<>> ELSE r.utf8
         BY <1>14, <1>16
  <1>18. Divided(kind, q.text, w, z.cuts[0])
         BY <1>7, <1>13, ReadsMore
  <1>19. PICK u, v \in Seq(Bytes) :
             /\ z.cuts[0].text = v
             /\ Items(kind, q.text \o w) = Items(kind, u) \o Items(kind, v \o w)
             /\ Like(kind, Of(kind, z.cuts[0].sentences), Items(kind, u))
         BY <1>18 DEF Divided
  <1>20. PICK m \in Seq(Texts) : /\ Of(kind, Flushed(r).out) = Said(kind, r) \o m
                                 /\ Like(kind, m, Items(kind, r.text \o w))
         BY <1>15, <1>17, FlushedSaid
  <1>21. Like(kind, X \o m, Items(kind, u) \o Items(kind, v \o w))
         BY <1>7, <1>9, <1>10, <1>19, <1>20, LikeBoth
  <1>22. Like(kind, Of(kind, Flushed(r).out), Items(kind, a \o w))
         BY <1>8, <1>12, <1>19, <1>20, <1>21
  <1>23. Released(t) = a \o w
         BY <1>3, <1>5, <1>17 DEF Released
  <1> QED
      BY <1>22, <1>23

(* A piece with all of the input, and the end of it, keep all that is shown. *)
LEMMA FedKept ==
    ASSUME config.minSentence \in Nat, config.minSegment \in Nat, NEW x \in Seq(Bytes)
    PROVE  KeptFrom(x, Flushed(Fed(Fresh, x)).out)
PROOF
  <1>1. Fresh.inThink = FALSE /\ Fresh.bytes = <<>> /\ Fresh.utf8 = <<>>
        BY FreshIs
  <1>2. SegInv(Fresh) /\ Fresh \in States
        BY FreshInv DEF SegInv
  <1>3. PICK r : r = Fed(Fresh, x)
        OBVIOUS
  <1>4. PICK z : Feeds(r, Fresh, x, z)
        BY <1>2, <1>3, FedIs
  <1>5. PICK u : u = z.utf8[1].utf8
        OBVIOUS
  <1>6. u \in Seq(Bytes)
    <2>1. z.utf8[1] \in [bytes : Seq(Bytes), utf8 : Seq(Bytes)]
          BY <1>2, <1>4, FeedsKinds
    <2> QED
        BY <1>5, <2>1
  <1>7. Utf8Scan(x, z.utf8)
    <2>1. <<>> \o x = x
          BY ConcatEmptySeq
    <2>2. Utf8Scan(Fresh.bytes \o x, z.utf8)
          BY <1>4 DEF Feeds
    <2> QED
        BY <1>1, <2>1, <2>2
  <1>8. u = Text(Whole(x))
        BY <1>5, <1>7, Utf8Text
  <1>9. ThinkScan(u, z.think)
    <2>1. <<>> \o u = u
          BY <1>6, ConcatEmptySeq
    <2>2. ThinkScan(Fresh.utf8 \o z.utf8[1].utf8, z.think)
          BY <1>4 DEF Feeds
    <2> QED
        BY <1>1, <1>5, <2>1, <2>2
  <1>10. Shown(u) \in Seq(Bytes) /\ Released(z.think[1][FALSE]) = Shown(u)
         BY <1>6, <1>9, ThinkText
  <1>11. Shown(u) \in Texts
         BY <1>10, BytesAreChars DEF Texts
  <1>12. PICK t : t = z.think[1][FALSE]
         OBVIOUS
  <1>13. ASSUME NEW kind PROVE Like(kind, Of(kind, Flushed(r).out), Items(kind, Shown(u)))
    <2>1. Like(kind, Of(kind, Flushed(r).out), Items(kind, Released(t)))
          BY <1>3, <1>4, <1>12, FinalItems
    <2>2. Released(t) = Shown(u)
          BY <1>10, <1>12
    <2> QED
        BY <2>1, <2>2
  <1> QED
      BY <1>3, <1>8, <1>11, <1>13 DEF KeptFrom

(* So does the end of an input without a piece. *)
LEMMA FreshKept ==
    ASSUME config.minSentence \in Nat
    PROVE  KeptFrom(<<>>, Flushed(Fresh).out)
PROOF
  <1>1. SegInv(Fresh) /\ Fresh.inThink = FALSE /\ Fresh.utf8 = <<>> /\ Fresh.text = <<>>
        /\ Fresh.out = <<>> /\ Fresh.pending = <<>>
        BY FreshInv, FreshIs
  <1>2. PICK w : w = IF Fresh.inThink THEN <<>> ELSE Fresh.utf8
        OBVIOUS
  <1>3. ASSUME NEW kind PROVE Like(kind, Of(kind, Flushed(Fresh).out), Items(kind, <<>>))
    <2>1. PICK z \in Seq(Texts) : /\ Of(kind, Flushed(Fresh).out) = Said(kind, Fresh) \o z
                                  /\ Like(kind, z, Items(kind, Fresh.text \o w))
          BY <1>1, <1>2, FlushedSaid
    <2>2. PICK e \in Seq(Texts) : e = <<>>
      <3>1. <<>> \in Seq(Texts)
            OBVIOUS
      <3> QED
          BY <3>1
    <2>3. Said(kind, Fresh) = e \o e
          BY <1>1, <2>2, EmptyItems, OfOne DEF Said
    <2>4. e \o e = e /\ e \o z = z
          BY <2>2, ConcatEmptySeq
    <2>5. Fresh.text \o w = e \o e
          BY <1>1, <1>2, <2>2
    <2>6. Of(kind, Flushed(Fresh).out) = z /\ Fresh.text \o w = <<>>
          BY <2>1, <2>2, <2>3, <2>4, <2>5
    <2> QED
        BY <2>1, <2>6
  <1> QED
      BY <1>3, NothingShown, EmptyItems DEF KeptFrom

(* The end of the input. *)
LEMMA EndKept == SegmenterInv /\ Chunks /\ End => Kept'
PROOF
  <1> SUFFICES ASSUME SegmenterInv, Chunks, End, NEW x, NEW out, x = input', out = seg'.out
               PROVE  KeptFrom(x, out)
      BY DEF Kept
  <1>1. ~done /\ seg' = Flushed(seg) /\ input' = input
        BY DEF End
  <1>2. config \in Configs /\ x \in Seq(Bytes) /\ x = input
        BY <1>1 DEF SegmenterInv
  <1>3. config.minSentence \in Nat /\ config.minSegment \in Nat
        BY <1>2, ConfigIs
  <1>4. PICK r : r = Fed(Fresh, x)
        OBVIOUS
  <1>5. (x = <<>> /\ seg = Fresh) \/ seg = r
        BY <1>1, <1>2, <1>4 DEF Chunks
  <1>6. CASE x = <<>> /\ seg = Fresh
        BY <1>1, <1>3, <1>6, FreshKept
  <1>7. CASE seg = r
        BY <1>1, <1>2, <1>3, <1>4, <1>7, FedKept
  <1> QED
      BY <1>5, <1>6, <1>7

(* At the end of every input, its words and tags are in the segments. *)
LEMMA KeptAlways == Spec => []Kept
PROOF
  <1>1. Init => Kept
    <2> SUFFICES ASSUME Init, NEW x, NEW out, x = input, out = seg.out PROVE KeptFrom(x, out)
        BY DEF Kept
    <2>1. x = <<>> /\ out = <<>>
          BY FreshIs DEF Init
    <2> QED
        BY <2>1, NothingShown
  <1>2. SegmenterInv /\ Chunks /\ Kept /\ [Next]_vars => Kept'
    <2> SUFFICES ASSUME SegmenterInv, Chunks, Kept, [Next]_vars PROVE Kept'
        OBVIOUS
    <2>1. CASE Segment
      <3>1. ~done'
            BY <2>1 DEF Segment
      <3> QED
          BY <3>1 DEF Kept
    <2>2. CASE End
          BY <2>2, EndKept
    <2>3. CASE \E p \in stream : Piece(p)
      <3>1. ~done'
            BY <2>3 DEF Piece
      <3> QED
          BY <3>1 DEF Kept
    <2>4. CASE UNCHANGED vars
      <3>1. seg' = seg /\ done' = done /\ input' = input
            BY <2>4 DEF vars
      <3> QED
          BY <3>1 DEF Kept
    <2> QED
        BY <2>1, <2>2, <2>3, <2>4 DEF Next
  <1> QED
      BY <1>1, <1>2, Invariant, ChunksAlways, PTL DEF Spec

(* At the end, the segments have all words that are shown, in order and with nothing
   between them lost, for all pieces and every way to cut them: what
   accumulateUtf8Pieces, removeThinking and findSentenceEnd held back is released
   by flush.  This is about Whole(input), the input without an unfinished character
   at its end and what is behind its lead: flush drops these bytes. *)
THEOREM TextComplete == Spec => []TextKept
PROOF
  <1>1. SegmenterInv /\ Kept => TextKept
    <2> SUFFICES ASSUME SegmenterInv, Kept, done PROVE Speaks(seg.out, Whole(input))
        BY DEF TextKept
    <2>1. PICK out : out = seg.out
          OBVIOUS
    <2>2. PICK x : x = input
          OBVIOUS
    <2>3. KeptFrom(x, out)
          BY <2>1, <2>2 DEF Kept
    <2>4. out \in Seq(Texts)
          BY <2>1, OutTexts DEF SegmenterInv
    <2>5. Speaks(out, Whole(x))
          BY <2>3, <2>4, SpeaksIs DEF KeptFrom
    <2> QED
        BY <2>1, <2>2, <2>5
  <1> QED
      BY <1>1, Invariant, KeptAlways, PTL

(* "The segmenter never splits a tag across segments": for all pieces and every way
   to cut them, the tags of the segments are those of the text that is shown, whole
   and in its order. *)
THEOREM TagsComplete == Spec => []TagsWhole
PROOF
  <1>1. SegmenterInv /\ Kept => TagsWhole
    <2> SUFFICES ASSUME SegmenterInv, Kept, done
                 PROVE  FlattenSeq([k \in DOMAIN seg.out |-> Names(seg.out[k])])
                            = Names(Shown(Text(Whole(input))))
        BY DEF TagsWhole, Names
    <2>1. PICK out : out = seg.out
          OBVIOUS
    <2>2. PICK x : x = input
          OBVIOUS
    <2>3. KeptFrom(x, out)
          BY <2>1, <2>2 DEF Kept
    <2>4. out \in Seq(Texts)
          BY <2>1, OutTexts DEF SegmenterInv
    <2>5. FlattenSeq([k \in DOMAIN out |-> Names(out[k])]) = Names(Shown(Text(Whole(x))))
          BY <2>3, <2>4, TagsAlike DEF KeptFrom
    <2> QED
        BY <2>1, <2>2, <2>5
  <1> QED
      BY <1>1, Invariant, KeptAlways, PTL
=============================================================================
