----------------------------- MODULE AudioStream ----------------------------
(***************************************************************************)
(* What threading/SpscRingBuffer.hpp promises: a write puts items behind   *)
(* those that are buffered, a read takes the oldest, each in one step; and *)
(* no more than Room items are buffered.  The items are numbered.          *)
(***************************************************************************)
EXTENDS Integers, Sequences

CONSTANT Room

VARIABLES
    sent,       \* the number of the last item put in
    items,      \* the items buffered, oldest first
    last        \* the block that the last read returned

svars == <<sent, items, last>>

SInit == sent = 0 /\ items = <<>> /\ last = <<>>

Put(n) ==
    /\ Len(items) + n <= Room
    /\ items' = items \o [i \in 1..n |-> sent + i]
    /\ sent' = sent + n
    /\ UNCHANGED last

Take(n) ==
    /\ last' = SubSeq(items, 1, n)
    /\ items' = SubSeq(items, n + 1, Len(items))
    /\ UNCHANGED sent

Discard(n) ==
    /\ items' = SubSeq(items, n + 1, Len(items))
    /\ UNCHANGED <<sent, last>>

SNext ==
    \/ \E n \in 0..Room : Put(n)
    \/ \E n \in 0..Len(items) : Take(n) \/ Discard(n)

SSpec == SInit /\ [][SNext]_svars
=============================================================================
