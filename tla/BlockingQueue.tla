---------------------------- MODULE BlockingQueue ---------------------------
(***************************************************************************)
(* threading/BlockingQueue.hpp: a deque, a mutex and two condition         *)
(* variables.  A critical section is one step, for nothing else touches    *)
(* the queue meanwhile; what happens before and after it (waiting, waking  *)
(* up, notifying after the unlock) are steps of their own.  A wait may     *)
(* end without a notification, and notify_one may wake any waiter.         *)
(***************************************************************************)
EXTENDS QueueOps, FiniteSets, Integers

CONSTANTS Producers, Consumers, Pollers, Closers

ASSUME ThreadsAssumption ==
    /\ IsFiniteSet(Producers) /\ IsFiniteSet(Consumers)
    /\ Producers \cap Consumers = {}
    /\ Pollers \cap (Producers \cup Consumers \cup Closers) = {}
    /\ Closers \cap Consumers = {}

Threads == Producers \cup Consumers \cup Pollers \cup Closers

VARIABLES
    queue,      \* _items and _closed
    at,         \* where each thread is; "waiting": in the wait of its call
    got         \* what the last pop or tryPop of each thread returned

vars == <<queue, at, got>>

Nothing == "nothing"

(* The threads that wait on _notFull, and those on _notEmpty. *)
NotFull == {p \in Producers : at[p] = "waiting"}
NotEmpty == {c \in Consumers : at[c] = "waiting"}

Init ==
    /\ queue = EmptyQueue
    /\ at = [t \in Threads |-> "idle"]
    /\ got = [t \in Consumers \cup Pollers |-> Nothing]

-----------------------------------------------------------------------------
(* A thread that is notified, or that wakes up without, has to lock the mutex
   again before it tests its predicate again. *)
Woken(f, who) == [t \in Threads |-> IF t \in who THEN "lock" ELSE f[t]]

(* notify_one in thread t on a condition variable with these waiters; then t
   goes to next. *)
NotifyOne(waiters, t, next) ==
    \E who \in SUBSET waiters :
        /\ Cardinality(who) = IF waiters = {} THEN 0 ELSE 1
        /\ at' = Woken([at EXCEPT ![t] = next], who)

Spurious(t) ==
    /\ at[t] = "waiting"
    /\ at' = Woken(at, {t})
    /\ UNCHANGED <<queue, got>>

Call(t) ==
    /\ t \in Producers \cup Consumers /\ at[t] = "idle"
    /\ at' = [at EXCEPT ![t] = "lock"]
    /\ UNCHANGED <<queue, got>>

(* push, from the lock to the wait or to the unlock. *)
PushLocked(p) ==
    /\ p \in Producers /\ at[p] = "lock"
    /\ \/ /\ ~CanPush(queue)
          /\ at' = [at EXCEPT ![p] = "waiting"]
          /\ UNCHANGED queue
       \/ /\ CanPush(queue)
          /\ queue' = Pushed(queue, p)
          /\ at' = [at EXCEPT ![p] = IF queue.closed THEN "idle" ELSE "notify"]
    /\ UNCHANGED got

(* pop, from the lock to the wait or to the unlock. *)
PopLocked(c) ==
    /\ c \in Consumers /\ at[c] = "lock"
    /\ \/ /\ ~CanPop(queue)
          /\ at' = [at EXCEPT ![c] = "waiting"]
          /\ UNCHANGED <<queue, got>>
       \/ /\ ~IsEmpty(queue)
          /\ got' = [got EXCEPT ![c] = Head(queue.items)]
          /\ queue' = Popped(queue)
          /\ at' = [at EXCEPT ![c] = "notify"]
       \/ /\ CanPop(queue) /\ IsEmpty(queue)
          /\ got' = [got EXCEPT ![c] = Nothing]
          /\ at' = [at EXCEPT ![c] = "idle"]
          /\ UNCHANGED queue

(* push and pop notify after the unlock.  Mutant: not after a pop. *)
Notify_NotAfterPop(t) ==
    /\ at[t] = "notify"
    /\ IF t \in Producers THEN NotifyOne(NotEmpty, t, "idle")
                          ELSE at' = [at EXCEPT ![t] = "idle"]
    /\ UNCHANGED <<queue, got>>
Notify(t) ==
    /\ at[t] = "notify"
    /\ NotifyOne(IF t \in Producers THEN NotEmpty ELSE NotFull, t, "idle")
    /\ UNCHANGED <<queue, got>>

(* tryPop notifies before the unlock. *)
TryPop(t) ==
    /\ t \in Pollers
    /\ IF IsEmpty(queue)
       THEN got' = [got EXCEPT ![t] = Nothing] /\ UNCHANGED <<queue, at>>
       ELSE /\ got' = [got EXCEPT ![t] = Head(queue.items)]
            /\ queue' = Popped(queue)
            /\ NotifyOne(NotFull, t, "idle")

(* close: the critical section, then one notify_all after the other. *)
CloseLocked(t) ==
    /\ t \in Closers /\ at[t] = "idle"
    /\ queue' = Closed(queue)
    /\ at' = [at EXCEPT ![t] = "notifyEmpty"]
    /\ UNCHANGED got

NotifyAllEmpty(t) ==
    /\ at[t] = "notifyEmpty"
    /\ at' = Woken([at EXCEPT ![t] = "notifyFull"], NotEmpty)
    /\ UNCHANGED <<queue, got>>

(* Mutant: close forgets the producers. *)
NotifyAllFull_Not(t) ==
    /\ at[t] = "notifyFull"
    /\ at' = [at EXCEPT ![t] = "idle"]
    /\ UNCHANGED <<queue, got>>
NotifyAllFull(t) ==
    /\ at[t] = "notifyFull"
    /\ at' = Woken([at EXCEPT ![t] = "idle"], NotFull)
    /\ UNCHANGED <<queue, got>>

(* The steps of a call in progress. *)
InCall(t) == PushLocked(t) \/ PopLocked(t) \/ Notify(t)
             \/ NotifyAllEmpty(t) \/ NotifyAllFull(t)

Next == \E t \in Threads :
            Call(t) \/ InCall(t) \/ TryPop(t) \/ CloseLocked(t) \/ Spurious(t)

(* A thread that is not waiting is scheduled and gets the mutex.  Nobody has
   to make a call, and nothing has to wake up by itself. *)
Spec == Init /\ [][Next]_vars /\ \A t \in Threads : WF_vars(InCall(t))

-----------------------------------------------------------------------------
TypeOK ==
    /\ queue \in Queues(Producers)
    /\ Len(queue.items) <= QueueCapa
    /\ at \in [Threads -> {"idle", "lock", "waiting", "notify", "notifyEmpty",
                           "notifyFull"}]
    /\ got \in [Consumers \cup Pollers -> Producers \cup {Nothing}]

(* Threads on their way to wake a waiter, or to look for themselves. *)
Coming(from, own) ==
    {t \in from : at[t] = "notify"} \cup {t \in own : at[t] = "lock"}

(* No wakeup is lost.  While a consumer waits, every item in the queue has a
   thread of its own coming to it: the producer that has still to notify, or a
   consumer about to look.  Likewise every free place while a producer waits.
   And nobody waits on a closed queue unless close is still to notify. *)
NoLostWakeup ==
    /\ NotEmpty # {} =>
           Len(queue.items) <= Cardinality(Coming(Producers, Consumers))
    /\ NotFull # {} /\ ~queue.closed =>
           QueueCapa - Len(queue.items) <= Cardinality(Coming(Consumers, Producers))
    /\ queue.closed /\ NotEmpty # {} =>
           \E t \in Closers : at[t] = "notifyEmpty"
    /\ queue.closed /\ NotFull # {} =>
           \E t \in Closers : at[t] \in {"notifyEmpty", "notifyFull"}

(* The class is the queue of BoundedQueue: a critical section is the moment a
   call takes effect, and whoever can push or pop does. *)
Promise == INSTANCE BoundedQueue
           WITH calling <- {t \in Producers \cup Consumers : at[t] \in {"lock", "waiting"}}
Implements == Promise!QSpec
=============================================================================
