------------------------ MODULE SpscRingBufferProofs ------------------------
(***************************************************************************)
(* Theorems about SpscRingBuffer, for any word, any number of slots that a *)
(* word is a multiple of, and blocks of any length.                        *)
(***************************************************************************)
EXTENDS SpscRingBuffer, TLAPS

(* What rounding the capacity up to a power of two is good for: the slot of a
   position can be found from its value in a word, and a full buffer differs
   from an empty one. *)
Rounded ==
    /\ Word \in Nat /\ Size \in Nat \ {0}
    /\ Size < Word
    /\ Word % Size = 0

-----------------------------------------------------------------------------
(* Quotient and remainder are unique. *)
LEMMA Remainder ==
    ASSUME NEW a \in Int, NEW b \in Nat \ {0}
    PROVE  /\ a % b \in 0 .. b - 1
           /\ \E k \in Int : a = b * k + (a % b)
           /\ \A k \in Int : \A r \in 0 .. b - 1 : a = b * k + r => a % b = r
PROOF
  <1>1. a % b \in 0 .. b - 1
        OBVIOUS
  <1>2. \E k \in Int : a = b * k + (a % b)
    <2>1. a = b * (a \div b) + (a % b) /\ a \div b \in Int
          OBVIOUS
    <2> QED
          BY <2>1
  <1>3. ASSUME NEW k \in Int, NEW r \in 0 .. b - 1, a = b * k + r
        PROVE  a % b = r
    <2>1. PICK j \in Int : a = b * j + (a % b)
          BY <1>2
    <2>2. CASE j = k
          BY <1>1, <1>3, <2>1, <2>2
    <2>3. CASE j > k
      <3>1. b * (j - k) >= b
            BY <2>3
      <3>2. b * (j - k) = b * j - b * k
            OBVIOUS
      <3>3. b * j \in Int /\ b * k \in Int
            OBVIOUS
      <3> QED
            BY <1>1, <1>3, <2>1, <3>1, <3>2, <3>3
    <2>4. CASE j < k
      <3>1. b * (k - j) >= b
            BY <2>4
      <3>2. b * (k - j) = b * k - b * j
            OBVIOUS
      <3>3. b * j \in Int /\ b * k \in Int
            OBVIOUS
      <3> QED
            BY <1>1, <1>3, <2>1, <3>1, <3>2, <3>3
    <2> QED
          BY <2>2, <2>3, <2>4
  <1> QED
      BY <1>1, <1>2, <1>3

(* A position and its value in a word lead to the same slot. *)
LEMMA ModMod ==
    ASSUME Rounded, NEW p \in Nat
    PROVE  (p % Word) % Size = p % Size /\ p % Size \in 0 .. Size - 1
PROOF
  <1>1. /\ Word \in Nat \ {0} /\ Size \in Nat \ {0} /\ p \in Int
        /\ Word \in Int /\ Word % Size = 0
        BY DEF Rounded
  <1>2. PICK k \in Int : p = Word * k + (p % Word)
        BY <1>1, Remainder
  <1>3. p % Word \in Int
        BY <1>1, Remainder
  <1>4. PICK j \in Int : p % Word = Size * j + ((p % Word) % Size)
        BY <1>1, <1>3, Remainder
  <1>5. PICK q \in Int : Word = Size * q + (Word % Size)
        BY <1>1, Remainder
  <1>6. (p % Word) % Size \in 0 .. Size - 1 /\ p % Size \in 0 .. Size - 1
        BY <1>1, <1>3, Remainder
  <1>7. q * k + j \in Int
        OBVIOUS
  <1>8. p = Size * (q * k + j) + ((p % Word) % Size)
    <2>1. ASSUME NEW s \in Int PROVE Size * (q * k + j) + s = (Size * q) * k + (Size * j + s)
          BY <1>1
    <2>2. Word = Size * q
          BY <1>1, <1>5
    <2>3. (p % Word) % Size \in Int
          BY <1>6
    <2> QED
          BY <1>2, <1>4, <2>1, <2>2, <2>3
  <1>9. ASSUME NEW m \in Int, NEW s \in 0 .. Size - 1, p = Size * m + s
        PROVE  p % Size = s
        BY <1>1, <1>9, Remainder
  <1>10. p % Size = (p % Word) % Size
        BY <1>6, <1>7, <1>8, <1>9
  <1> QED
      BY <1>6, <1>10

(* The difference of two positions that are at most a buffer apart can be
   found from their values in a word. *)
LEMMA FilledIs ==
    ASSUME Rounded, NEW w \in Nat, NEW r \in Nat, r <= w, w <= r + Size
    PROVE  Filled(w, r) = w - r
PROOF
  <1>1. /\ Word \in Nat \ {0} /\ Size \in Nat /\ Size < Word
        /\ w \in Int /\ r \in Int /\ w - r \in 0 .. Word - 1
        BY DEF Rounded
  <1>2. PICK k \in Int : w = Word * k + (w % Word)
        BY <1>1, Remainder
  <1>3. PICK j \in Int : r = Word * j + (r % Word)
        BY <1>1, Remainder
  <1>4. w % Word \in Int /\ r % Word \in Int
        BY <1>1, Remainder
  <1>5. j - k \in Int /\ (w % Word) - (r % Word) \in Int
        BY <1>4
  <1>6. (w % Word) - (r % Word) = Word * (j - k) + (w - r)
    <2>1. Word * (j - k) = Word * j - Word * k /\ Word * j \in Int /\ Word * k \in Int
          BY <1>1
    <2> QED
          BY <1>1, <1>2, <1>3, <1>4, <2>1
  <1>7. ((w % Word) - (r % Word)) % Word = w - r
        BY <1>1, <1>5, <1>6, Remainder
  <1> QED
      BY <1>7 DEF Filled

(* Copied in two runs, item i of a block lands i slots after the first one,
   around the end of the buffer. *)
LEMMA SlotIs ==
    ASSUME Rounded, NEW pos \in Nat, NEW n \in 0 .. Size, NEW i \in 0 .. n - 1
    PROVE  Slot(pos, n, i) = (pos + i) % Size /\ Slot(pos, n, i) \in 0 .. Size - 1
PROOF
  <1>1. Size \in Nat \ {0} /\ pos \in Int /\ pos + i \in Int
        BY DEF Rounded
  <1> DEFINE start == pos % Size
             first == Least(n, Size - start)
  <1>2. (pos % Word) % Size = start /\ start \in 0 .. Size - 1
        BY ModMod
  <1>3. Slot(pos, n, i) = IF i < first THEN start + i ELSE i - first
        BY <1>2 DEF Slot
  <1>4. PICK k \in Int : pos = Size * k + start
        BY <1>1, Remainder
  <1> HIDE DEF start
  <1>5. ASSUME NEW m \in Int, NEW s \in 0 .. Size - 1, pos + i = Size * m + s
        PROVE  (pos + i) % Size = s
        BY <1>1, <1>5, Remainder
  <1>6. CASE i < first
    <2>1. start + i \in 0 .. Size - 1
          BY <1>1, <1>2, <1>6 DEF Least
    <2>2. pos + i = Size * k + (start + i)
      <3>1. Size * k \in Int
            BY <1>1
      <3> QED
            BY <1>2, <1>4, <3>1
    <2> QED
          BY <1>3, <1>4, <1>6, <1>5, <2>1, <2>2
  <1>7. CASE ~(i < first)
    <2>1. first = Size - start
          BY <1>1, <1>2, <1>7 DEF Least
    <2>2. i - first \in 0 .. Size - 1
          BY <1>1, <1>2, <1>7, <2>1
    <2>3. pos + i = Size * (k + 1) + (i - first) /\ k + 1 \in Int
      <3>1. Size * (k + 1) = Size * k + Size /\ Size * k \in Int
            BY <1>1
      <3> QED
            BY <1>1, <1>2, <1>4, <2>1, <3>1
    <2> QED
          BY <1>3, <1>7, <1>5, <2>2, <2>3
  <1> QED
      BY <1>6, <1>7

(* Positions less than a buffer apart have different slots. *)
LEMMA Apart ==
    ASSUME Rounded, NEW x \in Nat, NEW y \in Nat, x < y, y < x + Size
    PROVE  x % Size # y % Size
PROOF
  <1>1. Size \in Nat \ {0} /\ x \in Int /\ y \in Int
        BY DEF Rounded
  <1>2. PICK k \in Int : x = Size * k + (x % Size)
        BY <1>1, Remainder
  <1>3. PICK j \in Int : y = Size * j + (y % Size)
        BY <1>1, Remainder
  <1>4. SUFFICES ASSUME x % Size = y % Size PROVE FALSE
        OBVIOUS
  <1>5. x % Size \in Int /\ Size * j \in Int /\ Size * k \in Int
        BY <1>1, Remainder
  <1>6. y - x = Size * (j - k)
    <2>1. Size * (j - k) = Size * j - Size * k
          BY <1>1
    <2> QED
          BY <1>2, <1>3, <1>4, <1>5, <2>1
  <1>7. j > k
    <2>1. j <= k => Size * (j - k) <= 0
          BY <1>1
    <2> QED
          BY <1>6, <2>1
  <1>8. Size * (j - k) >= Size
    <2>1. j - k \in Nat \ {0}
          BY <1>7
    <2>2. ASSUME NEW d \in Nat \ {0} PROVE Size * d >= Size
          BY <1>1
    <2> QED
          BY <2>1, <2>2
  <1> QED
      BY <1>1, <1>6, <1>8
-----------------------------------------------------------------------------
(* A side may only see values the other one has passed, and even for the
   oldest of them the slots it claims do not reach into those of the other
   side. *)
Claims ==
    /\ readPos \in readSeen /\ writePos \in writeSeen
    /\ \A x \in readSeen :
           x <= readPos /\ writePos <= x + Size /\ writePos + put.n <= x + Size
    /\ \A x \in writeSeen :
           x <= writePos /\ readPos <= x /\ readPos + take.n <= x

(* An item that has been copied in stays in its slot until the consumer gives
   the slot back; the items copied out are the oldest ones. *)
Contents ==
    /\ \A x \in Nat : readPos <= x /\ x < writePos + put.done
                          => buffer[x % Size] = x + 1
    /\ \A j \in 1 .. Len(take.block) : take.block[j] = readPos + j

Progress ==
    /\ put = Idle \/ (put.n >= 0 /\ put.done <= put.n)
    /\ take = IdleTake \/ Len(take.block) <= take.n

RingInv == TypeOK /\ Claims /\ Progress /\ Contents

LEMMA RingInvInit == Rounded /\ Init => RingInv
PROOF
  <1> SUFFICES ASSUME Rounded, Init PROVE RingInv
      OBVIOUS
  <1>1. Size \in Nat \ {0}
        BY DEF Rounded
  <1>2. /\ put.n = -1 /\ put.done = 0 /\ take.n = -1 /\ take.block = <<>>
        /\ writePos = 0 /\ readPos = 0 /\ readSeen = {0} /\ writeSeen = {0}
        /\ put = Idle /\ take = IdleTake /\ last = <<>>
        BY DEF Init, Idle, IdleTake
  <1>3. TypeOK
    <2>1. buffer \in [0 .. Size - 1 -> Nat]
          BY DEF Init
    <2>2. put \in [n : -1 .. Size, done : 0 .. Size]
          BY <1>1, <1>2 DEF Idle
    <2>3. take \in [n : -1 .. Size, block : Seq(Nat)]
          BY <1>1, <1>2 DEF IdleTake
    <2> QED
          BY <1>2, <2>1, <2>2, <2>3 DEF TypeOK
  <1>4. Claims
        BY <1>1, <1>2 DEF Claims
  <1>5. Contents /\ Progress
        BY <1>2 DEF Contents, Progress
  <1> QED
      BY <1>3, <1>4, <1>5 DEF RingInv

(* What the conjuncts of RingInv say of the numbers, in one place. *)
LEMMA Numbers ==
    ASSUME Rounded, RingInv
    PROVE  /\ Size \in Nat \ {0}
           /\ writePos \in Nat /\ readPos \in Nat
           /\ readPos <= writePos /\ writePos <= readPos + Size
           /\ put.n \in -1 .. Size /\ put.done \in 0 .. Size
           /\ take.n \in -1 .. Size /\ take.block \in Seq(Nat) /\ Len(take.block) \in Nat
           /\ writePos + put.n <= readPos + Size
           /\ readPos + take.n <= writePos
PROOF
  <1>1. Size \in Nat \ {0}
        BY DEF Rounded
  <1>2. /\ writePos \in Nat /\ readPos \in Nat
        /\ put.n \in -1 .. Size /\ put.done \in 0 .. Size
        /\ take.n \in -1 .. Size /\ take.block \in Seq(Nat)
        BY DEF RingInv, TypeOK
  <1>3. Len(take.block) \in Nat
        BY <1>2
  <1> QED
      BY <1>1, <1>2, <1>3 DEF RingInv, Claims

(* A load of readPos leaves room for what the producer then copies. *)
LEMMA BeginWriteKeeps ==
    ASSUME Rounded, RingInv, NEW c \in Nat, BeginWrite(c)
    PROVE  RingInv'
PROOF
  <1>1. /\ Size \in Nat \ {0} /\ writePos \in Nat /\ readPos \in Nat
        /\ readPos <= writePos /\ writePos <= readPos + Size
        BY Numbers
  <1>2. PICK r \in readSeen :
            /\ readSeen' = {x \in readSeen : x >= r}
            /\ put' = [n |-> Least(c, Free(writePos, r)), done |-> 0]
        BY DEF BeginWrite
  <1>3. /\ UNCHANGED <<buffer, writePos, writeSeen, readPos, take, last>>
        /\ put = Idle
        BY DEF BeginWrite
  <1>4. r \in Nat /\ r <= readPos /\ writePos <= r + Size
        BY DEF RingInv, TypeOK, Claims
  <1>5. Filled(writePos, r) = writePos - r
        BY <1>1, <1>4, FilledIs
  <1>6. /\ put'.n \in 0 .. Size /\ put'.done = 0
        /\ writePos + put'.n <= r + Size
        /\ put' \in [n : -1 .. Size, done : 0 .. Size]
    <2>1. Least(c, Free(writePos, r)) \in 0 .. Size
          BY <1>1, <1>4, <1>5 DEF Free, Least
    <2>2. writePos + Least(c, Free(writePos, r)) <= r + Size
          BY <1>1, <1>4, <1>5 DEF Free, Least
    <2> QED
          BY <1>1, <1>2, <2>1, <2>2
  <1>7. TypeOK'
        BY <1>2, <1>3, <1>6 DEF RingInv, TypeOK
  <1>8. Claims'
    <2>1. readPos \in readSeen'
          BY <1>1, <1>2, <1>4 DEF RingInv, Claims
    <2>2. ASSUME NEW x \in readSeen'
          PROVE  x <= readPos /\ writePos <= x + Size /\ writePos + put'.n <= x + Size
      <3>1. x \in readSeen /\ x >= r /\ x \in Nat
            BY <1>2 DEF RingInv, TypeOK
      <3>2. x <= readPos /\ writePos <= x + Size
            BY <3>1 DEF RingInv, Claims
      <3> QED
            BY <1>1, <1>4, <1>6, <3>1, <3>2
    <2> QED
          BY <1>3, <2>1, <2>2 DEF RingInv, Claims
  <1>9. Progress'
        BY <1>3, <1>6 DEF RingInv, Progress
  <1>10. Contents'
        BY <1>3, <1>6 DEF RingInv, Contents, Idle
  <1> QED
      BY <1>7, <1>8, <1>9, <1>10 DEF RingInv

(* The slot that the producer fills holds no item that is still buffered. *)
LEMMA CopyInKeeps ==
    ASSUME Rounded, RingInv, CopyIn
    PROVE  RingInv'
PROOF
  <1>1. /\ Size \in Nat \ {0} /\ writePos \in Nat /\ readPos \in Nat
        /\ readPos <= writePos /\ put.n \in -1 .. Size /\ put.done \in 0 .. Size
        /\ writePos + put.n <= readPos + Size
        BY Numbers
  <1> DEFINE p == writePos + put.done
  <1>2. /\ put.done < put.n
        /\ buffer' = [buffer EXCEPT ![Slot(writePos, put.n, put.done)] = p + 1]
        /\ put' = [put EXCEPT !.done = @ + 1]
        /\ UNCHANGED <<writePos, writeSeen, readPos, readSeen, take, last>>
        BY DEF CopyIn, consumer
  <1>3. Slot(writePos, put.n, put.done) = p % Size /\ p % Size \in 0 .. Size - 1
    <2>1. put.n \in 0 .. Size /\ put.done \in 0 .. put.n - 1
          BY <1>1, <1>2
    <2> QED
          BY <1>1, <2>1, SlotIs
  <1>4. /\ put'.n = put.n /\ put'.done = put.done + 1
        /\ put' \in [n : -1 .. Size, done : 0 .. Size]
    <2>1. put \in [n : -1 .. Size, done : 0 .. Size]
          BY DEF RingInv, TypeOK
    <2> QED
          BY <1>1, <1>2, <2>1
  <1>5. /\ buffer' \in [0 .. Size - 1 -> Nat]
        /\ buffer'[p % Size] = p + 1
        /\ \A s \in 0 .. Size - 1 : s # p % Size => buffer'[s] = buffer[s]
    <2>1. buffer \in [0 .. Size - 1 -> Nat] /\ p + 1 \in Nat
          BY <1>1 DEF RingInv, TypeOK
    <2> QED
          BY <1>2, <1>3, <2>1
  <1>6. TypeOK'
        BY <1>2, <1>4, <1>5 DEF RingInv, TypeOK
  <1>7. Claims'
        BY <1>2, <1>4 DEF RingInv, Claims
  <1>8. Progress'
        BY <1>1, <1>2, <1>4 DEF RingInv, Progress, Idle
  <1>9. Contents'
    <2>1. ASSUME NEW x \in Nat, readPos <= x, x < p + 1
          PROVE  buffer'[x % Size] = x + 1
      <3>1. CASE x = p
            BY <1>5, <3>1
      <3>2. CASE x # p
        <4>1. x < p /\ p < x + Size /\ p \in Nat
              BY <1>1, <1>2, <2>1, <3>2
        <4>2. x % Size # p % Size
              BY <4>1, Apart
        <4>3. x % Size \in 0 .. Size - 1
              BY ModMod
        <4>4. buffer[x % Size] = x + 1
              BY <2>1, <4>1 DEF RingInv, Contents
        <4> QED
              BY <1>5, <4>2, <4>3, <4>4
      <3> QED
            BY <3>1, <3>2
    <2>2. writePos' + put'.done = p + 1
          BY <1>1, <1>2, <1>4
    <2>3. \A j \in 1 .. Len(take'.block) : take'.block[j] = readPos' + j
          BY <1>2 DEF RingInv, Contents
    <2> QED
          BY <1>2, <2>1, <2>2, <2>3 DEF Contents
  <1> QED
      BY <1>6, <1>7, <1>8, <1>9 DEF RingInv

LEMMA EndWriteKeeps ==
    ASSUME Rounded, RingInv, EndWrite
    PROVE  RingInv'
PROOF
  <1>1. /\ Size \in Nat \ {0} /\ writePos \in Nat /\ readPos \in Nat
        /\ readPos <= writePos /\ put.n \in -1 .. Size /\ put.done \in 0 .. Size
        BY Numbers
  <1>2. /\ put.done = put.n
        /\ writePos' = writePos + put.n
        /\ writeSeen' = writeSeen \cup {writePos'}
        /\ put' = Idle
        /\ UNCHANGED <<buffer, readPos, readSeen, take, last>>
        BY DEF EndWrite, consumer
  <1>3. put'.n = -1 /\ put'.done = 0 /\ put' \in [n : -1 .. Size, done : 0 .. Size]
        BY <1>1, <1>2 DEF Idle
  <1>4. writePos' \in Nat /\ writePos' >= writePos
        BY <1>1, <1>2
  <1>5. TypeOK'
        BY <1>2, <1>3, <1>4 DEF RingInv, TypeOK
  <1>6. Claims'
    <2>1. ASSUME NEW x \in readSeen
          PROVE  x <= readPos /\ writePos' <= x + Size /\ writePos' + put'.n <= x + Size
      <3>1. x \in Nat /\ x <= readPos /\ writePos + put.n <= x + Size
            BY DEF RingInv, TypeOK, Claims
      <3> QED
            BY <1>1, <1>2, <1>3, <3>1
    <2>2. ASSUME NEW x \in writeSeen'
          PROVE  x <= writePos' /\ readPos <= x /\ readPos + take.n <= x
      <3>1. CASE x \in writeSeen
        <4>1. x \in Nat /\ x <= writePos /\ readPos <= x /\ readPos + take.n <= x
              BY <3>1 DEF RingInv, TypeOK, Claims
        <4> QED
              BY <1>1, <1>4, <4>1
      <3>2. CASE x = writePos'
        <4>1. readPos + take.n <= writePos /\ take.n \in -1 .. Size
              BY Numbers
        <4> QED
              BY <1>1, <1>4, <3>2, <4>1
      <3> QED
            BY <1>2, <3>1, <3>2
    <2> QED
          BY <1>2, <2>1, <2>2 DEF RingInv, Claims
  <1>7. Progress'
        BY <1>2 DEF RingInv, Progress
  <1>8. Contents'
    <2>1. writePos' + put'.done = writePos + put.done
          BY <1>1, <1>2, <1>3
    <2> QED
          BY <1>2, <2>1 DEF RingInv, Contents
  <1> QED
      BY <1>5, <1>6, <1>7, <1>8 DEF RingInv

(* A load of writePos finds items for what the consumer then copies. *)
LEMMA BeginReadKeeps ==
    ASSUME Rounded, RingInv, NEW c \in Nat, BeginRead(c)
    PROVE  RingInv'
PROOF
  <1>1. /\ Size \in Nat \ {0} /\ writePos \in Nat /\ readPos \in Nat
        /\ readPos <= writePos /\ writePos <= readPos + Size
        BY Numbers
  <1>2. PICK w \in writeSeen :
            /\ writeSeen' = {x \in writeSeen : x >= w}
            /\ take' = [n |-> Least(c, Filled(w, readPos)), block |-> <<>>]
        BY DEF BeginRead
  <1>3. UNCHANGED <<buffer, writePos, put, readPos, readSeen, last>>
        BY DEF BeginRead
  <1>4. w \in Nat /\ w <= writePos /\ readPos <= w
        BY DEF RingInv, TypeOK, Claims
  <1>5. Filled(w, readPos) = w - readPos
        BY <1>1, <1>4, FilledIs
  <1>6. /\ take'.n \in 0 .. Size /\ take'.block = <<>>
        /\ readPos + take'.n <= w
        /\ take' \in [n : -1 .. Size, block : Seq(Nat)]
    <2>1. Least(c, Filled(w, readPos)) \in 0 .. Size
          BY <1>1, <1>4, <1>5 DEF Least
    <2>2. readPos + Least(c, Filled(w, readPos)) <= w
          BY <1>1, <1>4, <1>5 DEF Least
    <2> QED
          BY <1>1, <1>2, <2>1, <2>2
  <1>7. TypeOK'
        BY <1>2, <1>3, <1>6 DEF RingInv, TypeOK
  <1>8. Claims'
    <2>1. writePos \in writeSeen'
          BY <1>1, <1>2, <1>4 DEF RingInv, Claims
    <2>2. ASSUME NEW x \in writeSeen'
          PROVE  x <= writePos /\ readPos <= x /\ readPos + take'.n <= x
      <3>1. x \in writeSeen /\ x >= w /\ x \in Nat
            BY <1>2 DEF RingInv, TypeOK
      <3>2. x <= writePos /\ readPos <= x
            BY <3>1 DEF RingInv, Claims
      <3> QED
            BY <1>1, <1>4, <1>6, <3>1, <3>2
    <2> QED
          BY <1>3, <2>1, <2>2 DEF RingInv, Claims
  <1>9. Progress'
        BY <1>3, <1>6 DEF RingInv, Progress
  <1>10. Contents'
        BY <1>3, <1>6 DEF RingInv, Contents
  <1> QED
      BY <1>7, <1>8, <1>9, <1>10 DEF RingInv

(* The slot that the consumer copies holds the oldest item not yet copied. *)
LEMMA CopyOutKeeps ==
    ASSUME Rounded, RingInv, CopyOut
    PROVE  RingInv'
PROOF
  <1> DEFINE k == Len(take.block)
             item == buffer[Slot(readPos, take.n, k)]
  <1>1. /\ Size \in Nat \ {0} /\ writePos \in Nat /\ readPos \in Nat
        /\ take.n \in -1 .. Size /\ take.block \in Seq(Nat) /\ k \in Nat
        /\ readPos + take.n <= writePos /\ put.done \in 0 .. Size
        BY Numbers
  <1>2. /\ k < take.n
        /\ take' = [take EXCEPT !.block = Append(@, item)]
        /\ UNCHANGED <<buffer, writePos, writeSeen, put, readPos, readSeen, last>>
        BY DEF CopyOut, producer
  <1>3. /\ Slot(readPos, take.n, k) = (readPos + k) % Size
        /\ (readPos + k) % Size \in 0 .. Size - 1
    <2>1. take.n \in 0 .. Size /\ k \in 0 .. take.n - 1
          BY <1>1, <1>2
    <2> QED
          BY <1>1, <2>1, SlotIs
  <1>4. item = readPos + k + 1
    <2>1. readPos + k \in Nat /\ readPos <= readPos + k
          BY <1>1
    <2>2. readPos + k < writePos + put.done
          BY <1>1, <1>2
    <2> QED
          BY <1>3, <2>1, <2>2 DEF RingInv, Contents
  <1> HIDE DEF item
  <1>5. /\ take'.n = take.n /\ take'.block = Append(take.block, item)
        /\ take' \in [n : -1 .. Size, block : Seq(Nat)]
    <2>1. take \in [n : -1 .. Size, block : Seq(Nat)]
          BY DEF RingInv, TypeOK
    <2>2. item \in Nat
          BY <1>1, <1>4
    <2>3. Append(take.block, item) \in Seq(Nat)
          BY <1>1, <2>2
    <2> QED
          BY <1>2, <2>1, <2>3
  <1>6. /\ Len(take'.block) = k + 1
        /\ take'.block[k + 1] = item
        /\ \A j \in 1 .. k : take'.block[j] = take.block[j]
        BY <1>1, <1>5
  <1>7. TypeOK'
        BY <1>2, <1>5 DEF RingInv, TypeOK
  <1>8. Claims'
        BY <1>2, <1>5 DEF RingInv, Claims
  <1>9. Progress'
        BY <1>1, <1>2, <1>5, <1>6 DEF RingInv, Progress
  <1>10. Contents'
    <2>1. ASSUME NEW j \in 1 .. k + 1 PROVE take'.block[j] = readPos + j
      <3>1. CASE j = k + 1
            BY <1>1, <1>4, <1>6, <3>1
      <3>2. CASE j # k + 1
        <4>1. j \in 1 .. k
              BY <1>1, <3>2
        <4>2. take.block[j] = readPos + j
              BY <4>1 DEF RingInv, Contents
        <4> QED
              BY <1>6, <4>1, <4>2
      <3> QED
            BY <3>1, <3>2
    <2> QED
          BY <1>2, <1>6, <2>1 DEF RingInv, Contents
  <1> QED
      BY <1>7, <1>8, <1>9, <1>10 DEF RingInv

(* Giving slots back claims nothing, and takes only items that were seen. *)
LEMMA GiveBackKeeps ==
    ASSUME Rounded, RingInv, EndRead \/ Clear
    PROVE  RingInv'
PROOF
  <1>1. /\ Size \in Nat \ {0} /\ writePos \in Nat /\ readPos \in Nat
        /\ take.n \in -1 .. Size /\ Len(take.block) \in Nat
        /\ put.n \in -1 .. Size /\ put.done \in 0 .. Size
        /\ writePos <= readPos + Size /\ writePos + put.n <= readPos + Size
        BY Numbers
  <1>2. /\ readSeen' = readSeen \cup {readPos'}
        /\ UNCHANGED <<buffer, writePos, put>>
        /\ take' = IdleTake /\ last' \in Seq(Nat)
        /\ writeSeen' \subseteq writeSeen /\ writePos \in writeSeen'
        /\ readPos' \in Nat /\ readPos' >= readPos
        /\ \A x \in writeSeen' : readPos' <= x
    <2>1. CASE EndRead
      <3>1. /\ readSeen' = readSeen \cup {readPos'}
            /\ UNCHANGED <<buffer, writePos, put, writeSeen>>
            /\ take' = IdleTake /\ last' = take.block
            /\ readPos' = readPos + take.n /\ Len(take.block) = take.n
            BY <2>1 DEF EndRead, producer
      <3>2. take.block \in Seq(Nat) /\ writePos \in writeSeen
            BY DEF RingInv, TypeOK, Claims
      <3>3. \A x \in writeSeen : readPos + take.n <= x
            BY DEF RingInv, Claims
      <3> QED
            BY <1>1, <3>1, <3>2, <3>3
    <2>2. CASE Clear
      <3>1. PICK w \in writeSeen :
                /\ writeSeen' = {x \in writeSeen : x >= w}
                /\ readPos' = w
                /\ readSeen' = readSeen \cup {w}
            BY <2>2 DEF Clear
      <3>2. take = IdleTake /\ UNCHANGED <<buffer, writePos, put, take, last>>
            BY <2>2 DEF Clear
      <3>3. /\ w \in Nat /\ readPos <= w /\ w <= writePos /\ last \in Seq(Nat)
            /\ writePos \in writeSeen
            BY DEF RingInv, TypeOK, Claims
      <3> QED
            BY <1>1, <3>1, <3>2, <3>3
    <2> QED
          BY <2>1, <2>2
  <1>3. take'.n = -1 /\ take'.block = <<>> /\ take' \in [n : -1 .. Size, block : Seq(Nat)]
        BY <1>1, <1>2 DEF IdleTake
  <1>4. TypeOK'
        BY <1>2, <1>3 DEF RingInv, TypeOK
  <1>5. Claims'
    <2>1. ASSUME NEW x \in readSeen'
          PROVE  x <= readPos' /\ writePos <= x + Size /\ writePos + put.n <= x + Size
      <3>1. CASE x \in readSeen
        <4>1. /\ x \in Nat /\ x <= readPos
              /\ writePos <= x + Size /\ writePos + put.n <= x + Size
              BY <3>1 DEF RingInv, TypeOK, Claims
        <4> QED
              BY <1>1, <1>2, <4>1
      <3>2. CASE x = readPos'
        <4>1. ASSUME NEW q \in Nat, q >= readPos
              PROVE  q <= q /\ writePos <= q + Size /\ writePos + put.n <= q + Size
              BY <1>1, <4>1
        <4>2. readPos' \in Nat /\ readPos' >= readPos
              BY <1>2
        <4> QED
              BY <3>2, <4>1, <4>2
      <3> QED
            BY <1>2, <3>1, <3>2
    <2>2. ASSUME NEW x \in writeSeen'
          PROVE  x <= writePos /\ readPos' <= x /\ readPos' + take'.n <= x
      <3>1. x \in Nat /\ x <= writePos
            BY <1>2 DEF RingInv, TypeOK, Claims
      <3>2. readPos' \in Nat /\ readPos' <= x
            BY <1>2
      <3>3. ASSUME NEW q \in Nat, q <= x PROVE q + (-1) <= x
            BY <3>1, <3>3
      <3>4. readPos' + (-1) <= x
            BY <3>2, <3>3
      <3> QED
            BY <1>3, <3>1, <3>2, <3>4
    <2> QED
          BY <1>2, <2>1, <2>2 DEF Claims
  <1>6. Progress'
        BY <1>2 DEF RingInv, Progress
  <1>7. Contents'
    <2>1. ASSUME NEW x \in Nat, readPos' <= x, x < writePos + put.done
          PROVE  buffer[x % Size] = x + 1
      <3>1. readPos <= x
            BY <1>1, <1>2, <2>1
      <3> QED
            BY <2>1, <3>1 DEF RingInv, Contents
    <2> QED
          BY <1>2, <1>3, <2>1 DEF Contents
  <1> QED
      BY <1>4, <1>5, <1>6, <1>7 DEF RingInv

LEMMA RingInvStep == Rounded /\ RingInv /\ [Next]_vars => RingInv'
PROOF
  <1> SUFFICES ASSUME Rounded, RingInv, [Next]_vars PROVE RingInv'
      OBVIOUS
  <1>1. CASE UNCHANGED vars
    <2>1. UNCHANGED <<buffer, writePos, readPos, readSeen, writeSeen, put, take, last>>
          BY <1>1 DEF vars, producer, consumer
    <2> QED
          BY <2>1 DEF RingInv, TypeOK, Claims, Progress, Contents
  <1>2. ASSUME NEW c \in Int, c >= 0, BeginWrite(c) \/ BeginRead(c) PROVE RingInv'
        BY <1>2, BeginWriteKeeps, BeginReadKeeps
  <1>3. CASE \/ \E c \in 0 .. Least(MaxCount, MaxItems - writePos) : BeginWrite(c)
             \/ \E c \in 0 .. MaxCount : BeginRead(c)
        BY <1>2, <1>3
  <1>4. CASE CopyIn \/ EndWrite \/ CopyOut \/ EndRead \/ Clear
        BY <1>4, CopyInKeeps, EndWriteKeeps, CopyOutKeeps, GiveBackKeeps
  <1> QED
      BY <1>1, <1>3, <1>4 DEF Next

LEMMA RingSafe == ASSUME Rounded PROVE Spec => []RingInv
PROOF
  <1>1. Init => RingInv
        BY RingInvInit
  <1>2. RingInv /\ [Next]_vars => RingInv'
        BY RingInvStep
  <1> QED
      BY <1>1, <1>2, PTL DEF Spec

-----------------------------------------------------------------------------
(* For every capacity that was rounded up, the positions, blocks and copies
   keep their types: no count is negative or more than the buffer holds. *)
THEOREM RingTypeCorrect == ASSUME Rounded PROVE Spec => []TypeOK
PROOF
  <1>1. RingInv => TypeOK
        BY DEF RingInv
  <1> QED
      BY <1>1, RingSafe, PTL

(* However old the position is that a side has loaded, write and read never
   copy to and from the same slot at a time. *)
THEOREM Disjoint == ASSUME Rounded PROVE Spec => []NoRace
PROOF
  <1>1. RingInv => NoRace
    <2> SUFFICES ASSUME RingInv PROVE NoRace
        OBVIOUS
    <2>1. /\ Size \in Nat \ {0} /\ writePos \in Nat /\ readPos \in Nat
          /\ put.n \in -1 .. Size /\ take.n \in -1 .. Size
          /\ writePos + put.n <= readPos + Size
          /\ readPos + take.n <= writePos
          BY Numbers
    <2>2. ASSUME NEW i \in 0 .. put.n - 1, NEW j \in 0 .. take.n - 1
          PROVE  Slot(writePos, put.n, i) # Slot(readPos, take.n, j)
      <3>1. put.n \in 0 .. Size /\ take.n \in 0 .. Size
            BY <2>1, <2>2
      <3>2. /\ Slot(writePos, put.n, i) = (writePos + i) % Size
            /\ Slot(readPos, take.n, j) = (readPos + j) % Size
            BY <2>1, <3>1, SlotIs
      <3>3. /\ readPos + j \in Nat /\ writePos + i \in Nat
            /\ readPos + j < writePos + i
            /\ writePos + i < (readPos + j) + Size
            BY <2>1, <2>2
      <3>4. (readPos + j) % Size # (writePos + i) % Size
            BY <3>3, Apart
      <3> QED
            BY <3>2, <3>4
    <2> QED
        BY <2>2 DEF NoRace, Slots
  <1> QED
      BY <1>1, RingSafe, PTL

-----------------------------------------------------------------------------
(* The items from a + 1 to a + n, in order. *)
Numbered(a, n) == [i \in 1 .. n |-> a + i]

LEMMA NumberedIs ==
    ASSUME NEW a \in Nat, NEW n \in Nat
    PROVE  Numbered(a, n) \in Seq(Nat) /\ Len(Numbered(a, n)) = n
PROOF
  BY DEF Numbered

LEMMA NumberedBlock ==
    ASSUME NEW a \in Nat, NEW s \in Seq(Nat), \A j \in 1 .. Len(s) : s[j] = a + j
    PROVE  s = Numbered(a, Len(s))
PROOF
  <1>1. s = [j \in 1 .. Len(s) |-> s[j]]
        OBVIOUS
  <1> QED
      BY <1>1 DEF Numbered

LEMMA NumberedTake ==
    ASSUME NEW a \in Nat, NEW n \in Nat, NEW m \in 0 .. n
    PROVE  /\ Numbered(a, m) = SubSeq(Numbered(a, n), 1, m)
           /\ Numbered(a + m, n - m) =
                  SubSeq(Numbered(a, n), m + 1, Len(Numbered(a, n)))
PROOF
  <1>1. Len(Numbered(a, n)) = n
        BY NumberedIs
  <1> QED
      BY <1>1 DEF Numbered

(* The slots from r on hold the items of Contents, in order. *)
LEMMA ItemsAre ==
    ASSUME Rounded, NEW b, NEW w \in Nat, NEW r \in Nat, r <= w, w <= r + Size,
           \A x \in Nat : r <= x /\ x < w => b[x % Size] = x + 1
    PROVE  [i \in 1 .. w - r |-> b[Slot(r, w - r, i - 1)]] = Numbered(r, w - r)
PROOF
  <1>1. Size \in Nat
        BY DEF Rounded
  <1>2. ASSUME NEW i \in 1 .. w - r
        PROVE  b[Slot(r, w - r, i - 1)] = r + i
    <2>1. w - r \in 0 .. Size /\ i - 1 \in 0 .. (w - r) - 1
          BY <1>1
    <2>2. Slot(r, w - r, i - 1) = (r + (i - 1)) % Size
          BY <2>1, SlotIs
    <2>3. r + (i - 1) \in Nat /\ r <= r + (i - 1) /\ r + (i - 1) < w
          OBVIOUS
    <2>4. b[(r + (i - 1)) % Size] = (r + (i - 1)) + 1
          BY <2>3
    <2>5. (r + (i - 1)) + 1 = r + i
          OBVIOUS
    <2> QED
          BY <2>2, <2>4, <2>5
  <1> QED
      BY <1>2 DEF Numbered

Items == [i \in 1 .. writePos - readPos |->
              buffer[Slot(readPos, writePos - readPos, i - 1)]]

LEMMA ItemsNow ==
    /\ Rounded /\ RingInv => Items = Numbered(readPos, writePos - readPos)
    /\ Rounded /\ RingInv' => Items' = Numbered(readPos', writePos' - readPos')
PROOF
  <1>1. ASSUME Rounded, RingInv PROVE Items = Numbered(readPos, writePos - readPos)
    <2>1. /\ writePos \in Nat /\ readPos \in Nat /\ readPos <= writePos
          /\ writePos <= readPos + Size
          BY <1>1, Numbers
    <2>2. \A x \in Nat : readPos <= x /\ x < writePos => buffer[x % Size] = x + 1
      <3>1. put.done \in Nat
            BY <1>1 DEF RingInv, TypeOK
      <3> QED
            BY <1>1, <2>1, <3>1 DEF RingInv, Contents
    <2> QED
          BY <1>1, <2>1, <2>2, ItemsAre DEF Items
  <1>2. ASSUME Rounded, RingInv' PROVE Items' = Numbered(readPos', writePos' - readPos')
    <2>1. /\ writePos' \in Nat /\ readPos' \in Nat /\ readPos' <= writePos'
          /\ writePos' <= readPos' + Size
          BY <1>2 DEF RingInv, TypeOK, Claims
    <2>2. \A x \in Nat : readPos' <= x /\ x < writePos' => buffer'[x % Size] = x + 1
      <3>1. put'.done \in Nat
            BY <1>2 DEF RingInv, TypeOK
      <3> QED
            BY <1>2, <2>1, <3>1 DEF RingInv, Contents
    <2> QED
          BY <1>2, <2>1, <2>2, ItemsAre DEF Items
  <1> QED
      BY <1>1, <1>2

LEMMA StepIsStream ==
    Rounded /\ RingInv /\ [Next]_vars /\ RingInv' => [Stream!SNext]_(Stream!svars)
PROOF
  <1> SUFFICES ASSUME Rounded, RingInv, [Next]_vars, RingInv'
               PROVE  [Stream!SNext]_(Stream!svars)
      OBVIOUS
  <1>1. /\ Size \in Nat \ {0} /\ writePos \in Nat /\ readPos \in Nat
        /\ readPos <= writePos /\ writePos <= readPos + Size
        /\ put.n \in -1 .. Size /\ take.n \in -1 .. Size
        /\ writePos + put.n <= readPos + Size
        /\ readPos + take.n <= writePos
        /\ take.block \in Seq(Nat)
        BY Numbers
  <1> DEFINE stored == writePos - readPos
  <1>2. /\ Items = Numbered(readPos, stored)
        /\ Items' = Numbered(readPos', writePos' - readPos')
        /\ stored \in Nat /\ Len(Items) = stored
    <2>1. stored \in Nat
          BY <1>1
    <2>2. Len(Numbered(readPos, stored)) = stored
          BY <1>1, <2>1, NumberedIs
    <2>3. Items = Numbered(readPos, stored)
          BY ItemsNow
    <2>4. Items' = Numbered(readPos', writePos' - readPos')
          BY ItemsNow
    <2> QED
          BY <2>1, <2>2, <2>3, <2>4
  <1>3. CASE UNCHANGED <<writePos, readPos, last>>
    <2>1. Items' = Items
          BY <1>2, <1>3
    <2> QED
          BY <1>3, <2>1 DEF Stream!svars, Items
  <1>4. CASE EndWrite
    <2>1. /\ put.n \in 0 .. Size /\ writePos' = writePos + put.n
          /\ readPos' = readPos /\ last' = last
          BY <1>1, <1>4 DEF EndWrite, consumer, RingInv, Progress
    <2>2. writePos' - readPos' = stored + put.n /\ readPos + stored = writePos
          BY <1>1, <2>1
    <2>3. Items' = Items \o [i \in 1 .. put.n |-> writePos + i]
      <3>1. /\ put.n \in Nat /\ writePos = readPos + stored
            /\ Items' = Numbered(readPos, stored + put.n)
            BY <1>1, <1>2, <2>1, <2>2
      <3>2. Numbered(readPos, stored + put.n) =
                Numbered(readPos, stored) \o Numbered(writePos, put.n)
        <4>1. /\ readPos \in Nat /\ stored \in Nat /\ put.n \in Nat /\ writePos \in Nat
              /\ writePos = readPos + stored /\ stored + put.n \in Nat
              BY <1>1, <1>2, <3>1
        <4> HIDE DEF stored
        <4>2. PICK a \in Nat, n \in Nat, m \in Nat, w \in Nat, k \in Nat :
                  /\ a = readPos /\ n = stored /\ m = put.n /\ w = writePos
                  /\ k = stored + put.n
              BY <4>1
        <4>3. w = a + n /\ k = n + m
              BY <4>1, <4>2
        <4>4. Numbered(a, k) = Numbered(a, n) \o Numbered(w, m)
              BY <4>3 DEF Numbered
        <4> QED
            BY <4>2, <4>4
      <3> QED
            BY <1>2, <3>1, <3>2 DEF Numbered
    <2>4. Len(Items) + put.n <= Size
          BY <1>1, <1>2, <2>1
    <2>5. Stream!Put(put.n)
          BY <2>1, <2>3, <2>4 DEF Stream!Put, Items
    <2> QED
          BY <2>1, <2>5 DEF Stream!SNext
  <1>5. CASE EndRead
    <2>1. /\ take.n \in 0 .. stored /\ Len(take.block) = take.n
          /\ readPos' = readPos + take.n /\ writePos' = writePos
          /\ last' = take.block
          BY <1>1, <1>5 DEF EndRead, producer, RingInv, Progress
    <2>2. take.block = Numbered(readPos, take.n)
      <3>1. \A j \in 1 .. Len(take.block) : take.block[j] = readPos + j
            BY DEF RingInv, Contents
      <3>2. take.block = Numbered(readPos, Len(take.block))
            BY <1>1, <3>1, NumberedBlock
      <3> QED
            BY <2>1, <3>2
    <2>3. writePos' - readPos' = stored - take.n
          BY <1>1, <2>1
    <2>4. /\ last' = SubSeq(Items, 1, take.n)
          /\ Items' = SubSeq(Items, take.n + 1, Len(Items))
      <3>1. /\ Numbered(readPos, take.n) = SubSeq(Items, 1, take.n)
            /\ Numbered(readPos + take.n, stored - take.n) =
                   SubSeq(Items, take.n + 1, Len(Items))
            BY <1>1, <1>2, <2>1, NumberedTake
      <3>2. Items' = Numbered(readPos + take.n, stored - take.n)
            BY <1>2, <2>1, <2>3
      <3> QED
            BY <2>1, <2>2, <3>1, <3>2
    <2>5. Stream!Take(take.n)
          BY <2>1, <2>4 DEF Stream!Take, Items
    <2> QED
          BY <1>2, <2>1, <2>5 DEF Stream!SNext, Items
  <1>6. CASE Clear
    <2>1. PICK w \in writeSeen : readPos' = w
          BY <1>6 DEF Clear
    <2>2. w \in Nat /\ readPos <= w /\ w <= writePos
          BY <1>1 DEF RingInv, TypeOK, Claims
    <2>3. writePos' = writePos /\ last' = last
          BY <1>6 DEF Clear
    <2> DEFINE n == w - readPos
    <2>4. n \in 0 .. stored /\ readPos' = readPos + n /\ writePos' - readPos' = stored - n
          BY <1>1, <2>1, <2>2, <2>3
    <2>5. Items' = SubSeq(Items, n + 1, Len(Items))
      <3>1. Numbered(readPos + n, stored - n) = SubSeq(Items, n + 1, Len(Items))
            BY <1>1, <1>2, <2>4, NumberedTake
      <3>2. Items' = Numbered(readPos + n, stored - n)
            BY <1>2, <2>4
      <3> QED
            BY <3>1, <3>2
    <2>6. Stream!Discard(n)
          BY <2>3, <2>5 DEF Stream!Discard, Items
    <2> QED
          BY <1>2, <2>4, <2>6 DEF Stream!SNext, Items
  <1>7. ASSUME NEW c, BeginWrite(c) \/ BeginRead(c) \/ CopyIn \/ CopyOut \/ UNCHANGED vars
        PROVE  UNCHANGED <<writePos, readPos, last>>
        BY <1>7 DEF BeginWrite, BeginRead, CopyIn, CopyOut, vars, producer, consumer
  <1> QED
      BY <1>3, <1>4, <1>5, <1>6, <1>7 DEF Next

(* For every capacity that was rounded up, the ring is the stream that
   AudioStream promises: no item is lost, repeated or reordered, however the
   copies of the two sides interleave and however late a position is seen. *)
THEOREM RingIsStream == ASSUME Rounded PROVE Spec => Implements
PROOF
  <1>1. Init => Stream!SInit
    <2> SUFFICES ASSUME Init PROVE Stream!SInit
        OBVIOUS
    <2>1. RingInv /\ writePos = 0 /\ readPos = 0 /\ last = <<>>
          BY RingInvInit DEF Init
    <2>2. Items = Numbered(0, 0)
          BY <2>1, ItemsNow
    <2>3. Numbered(0, 0) = <<>>
          BY DEF Numbered
    <2> QED
          BY <2>1, <2>2, <2>3 DEF Stream!SInit, Items
  <1>2. RingInv /\ [Next]_vars /\ RingInv' => [Stream!SNext]_(Stream!svars)
        BY StepIsStream
  <1> QED
      BY <1>1, <1>2, RingSafe, PTL DEF Spec, Implements, Stream!SSpec
=============================================================================
