---------------------------- MODULE BoundedQueue ----------------------------
(***************************************************************************)
(* What threading/BlockingQueue.hpp promises: a call of push, pop, tryPop  *)
(* or close takes effect in one step, at some moment between its begin and *)
(* its return; push and pop wait until they can, and are not left waiting  *)
(* while they can.                                                         *)
(***************************************************************************)
EXTENDS QueueOps

CONSTANTS
    Producers,  \* threads that call push
    Consumers,  \* threads that call pop
    Pollers,    \* threads that call tryPop
    Closers     \* threads that call close; they may be producers, too

Threads == Producers \cup Consumers \cup Pollers \cup Closers

VARIABLES
    queue,      \* the items, each the producer that pushed it, and closed
    calling,    \* the threads in a push or a pop that has not taken effect
    got         \* what the last pop or tryPop of each thread returned

qvars == <<queue, calling, got>>

Nothing == "nothing"

QInit ==
    /\ queue = EmptyQueue
    /\ calling = {}
    /\ got = [t \in Consumers \cup Pollers |-> Nothing]

Call(t) ==
    /\ t \in Producers \cup Consumers /\ t \notin calling
    /\ calling' = calling \cup {t}
    /\ UNCHANGED <<queue, got>>

Push(p) ==
    /\ p \in Producers \cap calling /\ CanPush(queue)
    /\ queue' = Pushed(queue, p)
    /\ calling' = calling \ {p}
    /\ UNCHANGED got

Take(t) ==
    IF IsEmpty(queue)
    THEN got' = [got EXCEPT ![t] = Nothing] /\ UNCHANGED queue
    ELSE got' = [got EXCEPT ![t] = Head(queue.items)] /\ queue' = Popped(queue)

Pop(c) ==
    /\ c \in Consumers \cap calling /\ CanPop(queue)
    /\ Take(c)
    /\ calling' = calling \ {c}

TryPop(t) ==
    /\ t \in Pollers
    /\ Take(t)
    /\ UNCHANGED calling

Close(t) ==
    /\ t \in Closers
    /\ queue' = Closed(queue)
    /\ UNCHANGED <<calling, got>>

QNext == \E t \in Threads : Call(t) \/ Push(t) \/ Pop(t) \/ TryPop(t) \/ Close(t)

QSpec ==
    /\ QInit /\ [][QNext]_qvars
    /\ \A t \in Threads : WF_qvars(Push(t)) /\ WF_qvars(Pop(t))
=============================================================================
