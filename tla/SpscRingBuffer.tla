--------------------------- MODULE SpscRingBuffer ---------------------------
(***************************************************************************)
(* threading/SpscRingBuffer.hpp: one producer and one consumer thread copy *)
(* items into and out of a buffer, and tell each other by two atomic       *)
(* positions.  A step is one load, the copy of one item or one store, so   *)
(* that the copies of both sides interleave.                               *)
(*                                                                         *)
(* A thread need not see the newest position of the other one at once: a   *)
(* load yields any value stored since the one that the thread loaded last. *)
(* With a value, acquire and release show it the items copied before.      *)
(*                                                                         *)
(* writePos and readPos count all items; what the code stores and loads is *)
(* their value in a word of WordBits bits.                                 *)
(***************************************************************************)
EXTENDS Integers, Sequences

CONSTANTS
    Capacity,   \* the argument of the constructor
    WordBits,   \* bits of size_t
    MaxCount,   \* bound: count argument of a call
    MaxItems    \* bound: items written altogether

ASSUME RingAssumption ==
    /\ WordBits \in Nat \ {0}
    /\ Capacity \in 1 .. 2^(WordBits - 1)
    /\ MaxCount \in Nat /\ MaxItems \in Nat

Word == 2^WordBits

(* std::bit_ceil.  Mutant: the capacity is taken as it is. *)
Size_NotRounded == Capacity
Size == CHOOSE s \in {2^k : k \in 0 .. WordBits - 1} :
            s >= Capacity /\ s < 2 * Capacity

VARIABLES
    buffer,
    writePos, readPos,
    readSeen,   \* values of readPos that the producer's next load may yield
    writeSeen,  \* values of writePos that the consumer's next load may yield
    put,        \* write in progress: n items, done of them copied; or Idle
    take,       \* read in progress: likewise, with the items copied
    last        \* the items that the last read returned

producer == <<buffer, writePos, writeSeen, put>>
consumer == <<readPos, readSeen, take, last>>
vars == <<producer, consumer>>

Idle == [n |-> -1, done |-> 0]
IdleTake == [n |-> -1, block |-> <<>>]

Least(a, b) == IF a < b THEN a ELSE b

(* w - r, in a word.  Mutant: the difference is taken in a wider type. *)
Filled_Wide(w, r) == (w % Word) - (r % Word)
Filled(w, r) == ((w % Word) - (r % Word)) % Word

Free(w, r) == Size - Filled(w, r)

(* The slot of item i (from 0) of the n items at position pos: copied in two
   runs, the second from the begin of the buffer. *)
Slot(pos, n, i) ==
    LET start == (pos % Word) % Size
        first == Least(n, Size - start)
    IN  IF i < first THEN start + i ELSE i - first

Init ==
    /\ buffer = [s \in 0 .. Size - 1 |-> 0]
    /\ writePos = 0 /\ readPos = 0
    /\ readSeen = {0} /\ writeSeen = {0}
    /\ put = Idle /\ take = IdleTake
    /\ last = <<>>

-----------------------------------------------------------------------------
(* write(src, count) of the producer. *)
BeginWrite(count) ==
    /\ put = Idle
    /\ \E r \in readSeen :
           /\ readSeen' = {x \in readSeen : x >= r}
           /\ put' = [n |-> Least(count, Free(writePos, r)), done |-> 0]
    /\ UNCHANGED <<buffer, writePos, writeSeen, readPos, take, last>>

CopyIn ==
    /\ put.done < put.n
    /\ buffer' = [buffer EXCEPT ![Slot(writePos, put.n, put.done)] =
                                    writePos + put.done + 1]
    /\ put' = [put EXCEPT !.done = @ + 1]
    /\ UNCHANGED <<writePos, writeSeen, consumer>>

EndWrite ==
    /\ put # Idle /\ put.done = put.n
    /\ writePos' = writePos + put.n
    /\ writeSeen' = writeSeen \cup {writePos'}
    /\ put' = Idle
    /\ UNCHANGED <<buffer, consumer>>

(* read(dst, count) of the consumer. *)
BeginRead(count) ==
    /\ take = IdleTake
    /\ \E w \in writeSeen :
           /\ writeSeen' = {x \in writeSeen : x >= w}
           /\ take' = [n |-> Least(count, Filled(w, readPos)), block |-> <<>>]
    /\ UNCHANGED <<buffer, writePos, put, readPos, readSeen, last>>

(* Mutant: the slots are given back before their items are copied. *)
CopyOut_GivesBack ==
    /\ Len(take.block) < take.n
    /\ take' = [take EXCEPT !.block =
                    Append(@, buffer[Slot(readPos, take.n, Len(@))])]
    /\ readSeen' = readSeen \cup {readPos + take.n}
    /\ UNCHANGED <<producer, readPos, last>>
CopyOut ==
    /\ Len(take.block) < take.n
    /\ take' = [take EXCEPT !.block =
                    Append(@, buffer[Slot(readPos, take.n, Len(@))])]
    /\ UNCHANGED <<producer, readPos, readSeen, last>>

EndRead ==
    /\ take # IdleTake /\ Len(take.block) = take.n
    /\ readPos' = readPos + take.n
    /\ readSeen' = readSeen \cup {readPos'}
    /\ last' = take.block
    /\ take' = IdleTake
    /\ UNCHANGED producer

(* clear of the consumer *)
Clear ==
    /\ take = IdleTake
    /\ \E w \in writeSeen :
           /\ writeSeen' = {x \in writeSeen : x >= w}
           /\ readPos' = w
           /\ readSeen' = readSeen \cup {w}
    /\ UNCHANGED <<buffer, writePos, put, take, last>>

Next ==
    \/ \E c \in 0 .. Least(MaxCount, MaxItems - writePos) : BeginWrite(c)
    \/ CopyIn \/ EndWrite
    \/ \E c \in 0 .. MaxCount : BeginRead(c)
    \/ CopyOut \/ EndRead \/ Clear

Spec == Init /\ [][Next]_vars

-----------------------------------------------------------------------------
TypeOK ==
    /\ buffer \in [0 .. Size - 1 -> Nat]
    /\ writePos \in Nat /\ readPos \in Nat
    /\ readSeen \subseteq Nat /\ writeSeen \subseteq Nat
    /\ put \in [n : -1 .. Size, done : 0 .. Size]
    /\ take \in [n : -1 .. Size, block : Seq(Nat)]
    /\ last \in Seq(Nat)

Slots(pos, n) == {Slot(pos, n, i) : i \in 0 .. n - 1}

(* While one side copies, the other one never copies the same slot: between
   their loads and stores the two claim disjoint parts of the buffer. *)
NoRace == Slots(writePos, put.n) \cap Slots(readPos, take.n) = {}

(* The ring is the stream of AudioStream, whose buffered items are found from
   readPos on; a write takes effect with its store, and so does a read. *)
Stream == INSTANCE AudioStream
          WITH Room <- Size, sent <- writePos,
               items <- [i \in 1 .. writePos - readPos |->
                            buffer[Slot(readPos, writePos - readPos, i - 1)]]
Implements == Stream!SSpec
=============================================================================
