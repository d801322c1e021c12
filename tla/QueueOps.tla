------------------------------ MODULE QueueOps ------------------------------
(***************************************************************************)
(* threading/BlockingQueue.hpp as seen by its callers: each operation is   *)
(* one atomic step, enabled when the operation would not block.  That the  *)
(* mutex and the condition variables of the class provide exactly this is  *)
(* the subject of module BlockingQueue.                                    *)
(***************************************************************************)
EXTENDS Naturals, Sequences

CONSTANT QueueCapa      \* the capacity given to the constructor

ASSUME QueueCapaAssumption == QueueCapa \in Nat \ {0}

\* A queue is its items, oldest first, and the closed flag.
Queues(T) == [items : Seq(T), closed : BOOLEAN]

EmptyQueue == [items |-> <<>>, closed |-> FALSE]

IsEmpty(queue) == queue.items = <<>>

\* push waits on notFull until there is room or the queue is closed; on a
\* closed queue it returns false and drops its item.  Mutant: one place too many.
CanPush_OneMore(queue) == Len(queue.items) <= QueueCapa \/ queue.closed
CanPush(queue) == Len(queue.items) < QueueCapa \/ queue.closed

Pushed(queue, item) ==
    IF queue.closed THEN queue
    ELSE [queue EXCEPT !.items = Append(@, item)]

\* pop waits on notEmpty until there is an item or the queue is closed; it
\* returns nullopt only once the queue is closed and empty.
CanPop(queue) == ~IsEmpty(queue) \/ queue.closed

Popped(queue) == [queue EXCEPT !.items = Tail(@)]

Closed(queue) == [queue EXCEPT !.closed = TRUE]
=============================================================================
