------------------------ MODULE BlockingQueueProofs -------------------------
(***************************************************************************)
(* Theorems about BlockingQueue, for any capacity and any threads: no      *)
(* wakeup is lost, and each step of the class is one of the queue that     *)
(* BoundedQueue promises, or none.                                         *)
(***************************************************************************)
EXTENDS BlockingQueue, TLAPS, FiniteSetTheorems

-----------------------------------------------------------------------------
(* What push makes of a queue with room for it. *)
LEMMA PushMakes ==
    ASSUME NEW bq \in Queues(Producers), Len(bq.items) <= QueueCapa, CanPush(bq),
           NEW p \in Producers
    PROVE  /\ Pushed(bq, p) \in Queues(Producers)
           /\ Len(Pushed(bq, p).items) <= QueueCapa
           /\ Pushed(bq, p).closed = bq.closed
           /\ Len(Pushed(bq, p).items) = IF bq.closed THEN Len(bq.items) ELSE Len(bq.items) + 1
PROOF
  <1>1. bq.items \in Seq(Producers) /\ bq.closed \in BOOLEAN
        BY DEF Queues
  <1>2. /\ Append(bq.items, p) \in Seq(Producers)
        /\ Len(Append(bq.items, p)) = Len(bq.items) + 1
        /\ Len(bq.items) \in Nat
        BY <1>1
  <1>3. CASE bq.closed
    <2>1. Pushed(bq, p) = bq
          BY <1>3 DEF Pushed
    <2> QED
          BY <1>2, <1>3, <2>1
  <1>4. CASE ~bq.closed
    <2>1. Len(bq.items) < QueueCapa
          BY <1>4 DEF CanPush
    <2>2. Pushed(bq, p) = [bq EXCEPT !.items = Append(@, p)]
          BY <1>4 DEF Pushed
    <2>3. /\ Pushed(bq, p) \in Queues(Producers)
          /\ Pushed(bq, p).items = Append(bq.items, p)
          /\ Pushed(bq, p).closed = bq.closed
          BY <1>1, <1>2, <2>2 DEF Queues
    <2> QED
          BY <1>2, <1>4, <2>1, <2>3, QueueCapaAssumption
  <1> QED
      BY <1>3, <1>4

(* What pop and tryPop make of a queue with items. *)
LEMMA PopMakes ==
    ASSUME NEW bq \in Queues(Producers), ~IsEmpty(bq)
    PROVE  /\ Head(bq.items) \in Producers
           /\ Popped(bq) \in Queues(Producers)
           /\ Len(Popped(bq).items) = Len(bq.items) - 1
           /\ Popped(bq).closed = bq.closed
PROOF
  <1>1. bq.items \in Seq(Producers) /\ bq.closed \in BOOLEAN
        BY DEF Queues
  <1>2. /\ Head(bq.items) \in Producers
        /\ Tail(bq.items) \in Seq(Producers)
        /\ Len(Tail(bq.items)) = Len(bq.items) - 1
        BY <1>1 DEF IsEmpty
  <1> QED
      BY <1>1, <1>2 DEF Popped, Queues

(* What close makes of a queue. *)
LEMMA CloseMakes ==
    ASSUME NEW bq \in Queues(Producers)
    PROVE  /\ Closed(bq) \in Queues(Producers)
           /\ Closed(bq).items = bq.items /\ Closed(bq).closed
PROOF
  BY DEF Closed, Queues

-----------------------------------------------------------------------------
(* A queue that nobody uses yet. *)
LEMMA TypeInit == Init => TypeOK
PROOF
  BY QueueCapaAssumption DEF Init, TypeOK, EmptyQueue, Queues, Nothing

(* Every step keeps the types, and the queue within its capacity. *)
LEMMA TypeStep == TypeOK /\ [Next]_vars => TypeOK'
PROOF
  <1> SUFFICES ASSUME TypeOK, [Next]_vars PROVE TypeOK'
      OBVIOUS
  <1> DEFINE Places == {"idle", "lock", "waiting", "notify", "notifyEmpty", "notifyFull"}
  <1>1. /\ queue \in Queues(Producers) /\ Len(queue.items) <= QueueCapa
        /\ at \in [Threads -> Places]
        /\ got \in [Consumers \cup Pollers -> Producers \cup {Nothing}]
        BY DEF TypeOK
  <1>2. ASSUME NEW f \in [Threads -> Places], NEW who PROVE Woken(f, who) \in [Threads -> Places]
        BY DEF Woken
  <1>3. ASSUME NEW t \in Threads, NEW waiters, NEW next \in Places,
               NotifyOne(waiters, t, next)
        PROVE  at' \in [Threads -> Places]
    <2>1. PICK who : at' = Woken([at EXCEPT ![t] = next], who)
          BY <1>3 DEF NotifyOne
    <2>2. [at EXCEPT ![t] = next] \in [Threads -> Places]
          BY <1>1
    <2> QED
          BY <1>2, <2>1, <2>2
  <1>4. CASE UNCHANGED vars
        BY <1>1, <1>4 DEF vars, TypeOK
  <1>5. ASSUME NEW t \in Threads,
               Call(t) \/ InCall(t) \/ TryPop(t) \/ CloseLocked(t) \/ Spurious(t)
        PROVE  TypeOK'
    <2>1. CASE Call(t)
          BY <1>1, <2>1 DEF Call, TypeOK
    <2>2. CASE PushLocked(t)
      <3>1. at' \in [Threads -> Places] /\ got' = got /\ t \in Producers
            BY <1>1, <2>2 DEF PushLocked
      <3>2. queue' = queue \/ (CanPush(queue) /\ queue' = Pushed(queue, t))
            BY <2>2 DEF PushLocked
      <3> QED
            BY <1>1, <3>1, <3>2, PushMakes DEF TypeOK
    <2>3. CASE PopLocked(t)
      <3>1. at' \in [Threads -> Places] /\ t \in Consumers
            BY <1>1, <2>3 DEF PopLocked
      <3>2. \/ queue' = queue /\ (got' = got \/ got' = [got EXCEPT ![t] = Nothing])
            \/ /\ ~IsEmpty(queue) /\ queue' = Popped(queue)
               /\ got' = [got EXCEPT ![t] = Head(queue.items)]
            BY <2>3 DEF PopLocked
      <3>3. /\ queue' \in Queues(Producers) /\ Len(queue'.items) <= QueueCapa
            /\ got' \in [Consumers \cup Pollers -> Producers \cup {Nothing}]
        <4>1. Len(queue.items) \in Nat
              BY <1>1 DEF Queues
        <4> QED
              BY <1>1, <3>1, <3>2, <4>1, PopMakes, QueueCapaAssumption
      <3> QED
            BY <3>1, <3>3 DEF TypeOK
    <2>4. CASE Notify(t)
      <3>1. at' \in [Threads -> Places]
            BY <1>3, <2>4 DEF Notify
      <3> QED
            BY <1>1, <2>4, <3>1 DEF Notify, TypeOK
    <2>5. CASE NotifyAllEmpty(t) \/ NotifyAllFull(t)
      <3>1. /\ [at EXCEPT ![t] = "notifyFull"] \in [Threads -> Places]
            /\ [at EXCEPT ![t] = "idle"] \in [Threads -> Places]
            BY <1>1
      <3>2. PICK f \in [Threads -> Places] : \E who : at' = Woken(f, who)
            BY <2>5, <3>1 DEF NotifyAllEmpty, NotifyAllFull
      <3>3. at' \in [Threads -> Places]
            BY <1>2, <3>2
      <3> QED
            BY <1>1, <2>5, <3>3 DEF NotifyAllEmpty, NotifyAllFull, TypeOK
    <2>6. CASE TryPop(t)
      <3>1. at' \in [Threads -> Places] /\ t \in Pollers
            BY <1>1, <1>3, <2>6 DEF TryPop
      <3>2. \/ queue' = queue /\ got' = [got EXCEPT ![t] = Nothing]
            \/ /\ ~IsEmpty(queue) /\ queue' = Popped(queue)
               /\ got' = [got EXCEPT ![t] = Head(queue.items)]
            BY <2>6 DEF TryPop
      <3>3. Len(queue.items) \in Nat
            BY <1>1 DEF Queues
      <3> QED
            BY <1>1, <3>1, <3>2, <3>3, PopMakes, QueueCapaAssumption DEF TypeOK
    <2>7. CASE CloseLocked(t)
      <3>1. at' \in [Threads -> Places]
            BY <1>1, <2>7 DEF CloseLocked
      <3> QED
            BY <1>1, <2>7, <3>1, CloseMakes DEF CloseLocked, TypeOK
    <2>8. CASE Spurious(t)
      <3>1. at' \in [Threads -> Places]
            BY <1>1, <1>2, <2>8 DEF Spurious
      <3> QED
            BY <1>1, <2>8, <3>1 DEF Spurious, TypeOK
    <2> QED
          BY <1>5, <2>1, <2>2, <2>3, <2>4, <2>5, <2>6, <2>7, <2>8 DEF InCall
  <1> QED
      BY <1>4, <1>5 DEF Next

(* The types of the queue and its threads; it never holds more than fits. *)
THEOREM QueueTypeCorrect == Spec => []TypeOK
PROOF
  BY TypeInit, TypeStep, PTL DEF Spec

-----------------------------------------------------------------------------
(* The calls of push and pop that have not taken effect yet. *)
Calling == {t \in Producers \cup Consumers : at[t] \in {"lock", "waiting"}}

(* A notification is no step of the promised queue. *)
LEMMA WakingIsSilent ==
    ASSUME TypeOK, NEW t \in Threads, at[t] \notin {"lock", "waiting"},
           NEW next, next \notin {"lock", "waiting"},
           NEW who \in SUBSET (NotFull \cup NotEmpty),
           at' = Woken([at EXCEPT ![t] = next], who)
    PROVE  Calling' = Calling
PROOF
  <1>1. DOMAIN at = Threads /\ Producers \cup Consumers \subseteq Threads
        BY DEF TypeOK, Threads
  <1>2. \A u \in who : at[u] = "waiting"
        BY DEF NotFull, NotEmpty
  <1>3. \A u \in Threads : at'[u] = IF u \in who THEN "lock"
                                    ELSE IF u = t THEN next ELSE at[u]
        BY <1>1 DEF Woken
  <1> QED
      BY <1>1, <1>2, <1>3 DEF Calling

(* Every step of the class is a step of the promised queue, or none. *)
LEMMA PromiseStep ==
    TypeOK /\ [Next]_vars => [Promise!QNext]_(<<queue, Calling, got>>)
PROOF
  <1> SUFFICES ASSUME TypeOK, [Next]_vars
               PROVE  Promise!QNext \/ UNCHANGED <<queue, Calling, got>>
      OBVIOUS
  <1>1. DOMAIN at = Threads /\ Producers \cup Consumers \subseteq Threads
        BY DEF TypeOK, Threads
  <1>2. CASE UNCHANGED vars
        BY <1>2 DEF vars, Calling
  <1>3. ASSUME NEW t \in Threads,
               Call(t) \/ InCall(t) \/ TryPop(t) \/ CloseLocked(t) \/ Spurious(t)
        PROVE  Promise!QNext \/ UNCHANGED <<queue, Calling, got>>
    <2>t. t \in Promise!Threads
          BY DEF Threads, Promise!Threads
    <2>1. CASE Call(t)
      <3>1. Calling' = Calling \cup {t} /\ t \notin Calling
            BY <1>1, <2>1 DEF Call, Calling
      <3> QED
            BY <2>1, <2>t, <3>1 DEF Call, Promise!QNext, Promise!Call, Calling
    <2>2. CASE PushLocked(t)
      <3>1. CASE CanPush(queue)
        <4>1. /\ Calling' = Calling \ {t} /\ t \in Producers \cap Calling
              /\ queue' = Pushed(queue, t) /\ got' = got
              BY <1>1, <2>2, <3>1 DEF PushLocked, Calling
        <4> QED
              BY <2>t, <3>1, <4>1 DEF Promise!QNext, Promise!Push, Calling,
                 CanPush, Promise!CanPush, Pushed, Promise!Pushed
      <3>2. CASE ~CanPush(queue)
            BY <1>1, <2>2, <3>2 DEF PushLocked, Calling
      <3> QED
            BY <3>1, <3>2
    <2>3. CASE PopLocked(t)
      <3>1. CASE CanPop(queue)
        <4>1. /\ Calling' = Calling \ {t} /\ t \in Consumers \cap Calling
              /\ IF IsEmpty(queue)
                 THEN got' = [got EXCEPT ![t] = Nothing] /\ UNCHANGED queue
                 ELSE /\ got' = [got EXCEPT ![t] = Head(queue.items)]
                      /\ queue' = Popped(queue)
              BY <1>1, <2>3, <3>1 DEF PopLocked, Calling, CanPop
        <4> QED
              BY <2>t, <3>1, <4>1 DEF Promise!QNext, Promise!Pop, Promise!Take, Calling,
                 CanPop, Promise!CanPop, IsEmpty, Promise!IsEmpty, Popped,
                 Promise!Popped, Nothing, Promise!Nothing
      <3>2. CASE ~CanPop(queue)
            BY <1>1, <2>3, <3>2 DEF PopLocked, Calling, CanPop
      <3> QED
            BY <3>1, <3>2
    <2>4. CASE Notify(t) \/ NotifyAllEmpty(t) \/ NotifyAllFull(t)
      <3>1. /\ at[t] \notin {"lock", "waiting"} /\ UNCHANGED <<queue, got>>
            /\ \E who \in SUBSET (NotFull \cup NotEmpty), next \in {"idle", "notifyFull"} :
                   at' = Woken([at EXCEPT ![t] = next], who)
            BY <2>4 DEF Notify, NotifyOne, NotifyAllEmpty, NotifyAllFull
      <3> QED
            BY <3>1, WakingIsSilent
    <2>5. CASE TryPop(t)
      <3>1. /\ t \in Pollers
            /\ IF IsEmpty(queue)
               THEN got' = [got EXCEPT ![t] = Nothing] /\ UNCHANGED queue
               ELSE /\ got' = [got EXCEPT ![t] = Head(queue.items)]
                    /\ queue' = Popped(queue)
            BY <2>5 DEF TryPop
      <3>2. Calling' = Calling
        <4>1. CASE UNCHANGED at
              BY <4>1 DEF Calling
        <4>2. CASE NotifyOne(NotFull, t, "idle")
          <5>1. \A u \in NotFull : at[u] = "waiting"
                BY DEF NotFull
          <5>2. PICK who \in SUBSET NotFull : at' = Woken([at EXCEPT ![t] = "idle"], who)
                BY <4>2 DEF NotifyOne
          <5>3. t \notin Producers \cup Consumers
                BY <3>1, ThreadsAssumption
          <5>4. \A u \in Producers \cup Consumers :
                    at'[u] = IF u \in who THEN "lock" ELSE at[u]
                BY <1>1, <5>2, <5>3 DEF Woken
          <5> QED
                BY <5>1, <5>2, <5>4 DEF Calling
        <4> QED
              BY <2>5, <4>1, <4>2 DEF TryPop
      <3> QED
            BY <2>t, <3>1, <3>2 DEF Promise!QNext, Promise!TryPop, Promise!Take, Calling,
               IsEmpty, Promise!IsEmpty, Popped, Promise!Popped, Nothing, Promise!Nothing
    <2>6. CASE CloseLocked(t)
      <3>1. Calling' = Calling
            BY <1>1, <2>6 DEF CloseLocked, Calling
      <3> QED
            BY <2>6, <2>t, <3>1 DEF CloseLocked, Promise!QNext, Promise!Close, Calling,
               Closed, Promise!Closed
    <2>7. CASE Spurious(t)
      <3>1. at' = Woken(at, {t}) /\ at[t] = "waiting" /\ UNCHANGED <<queue, got>>
            BY <2>7 DEF Spurious
      <3> QED
            BY <1>1, <3>1 DEF Woken, Calling
    <2> QED
          BY <1>3, <2>1, <2>2, <2>3, <2>4, <2>5, <2>6, <2>7 DEF InCall
  <1> QED
      BY <1>2, <1>3 DEF Next

(* What the users of a queue may rely on, waiting apart. *)
THEOREM PromiseKept == Spec => Promise!QInit /\ [][Promise!QNext]_(<<queue, Calling, got>>)
PROOF
  <1>1. Init => Promise!QInit
        BY DEF Init, Promise!QInit, Threads, EmptyQueue, Promise!EmptyQueue, Nothing,
           Promise!Nothing
  <1> QED
      BY <1>1, TypeInit, TypeStep, PromiseStep, PTL DEF Spec

-----------------------------------------------------------------------------
(* A set of threads that gains one, loses one, or has one replaced. *)
LEMMA Counting ==
    ASSUME NEW S, NEW T, IsFiniteSet(S), IsFiniteSet(T)
    PROVE  /\ Cardinality(S) \in Nat /\ Cardinality(T) \in Nat
           /\ S \subseteq T => Cardinality(S) <= Cardinality(T)
           /\ \A x : S \ {x} \subseteq T => Cardinality(S) <= Cardinality(T) + 1
           /\ \A y \in T : y \notin S /\ S \subseteq T => Cardinality(S) + 1 <= Cardinality(T)
           /\ \A x : \A y \in T : y \notin S /\ S \ {x} \subseteq T =>
                                      Cardinality(S) <= Cardinality(T)
PROOF
  <1>1. ASSUME NEW A, NEW B, IsFiniteSet(A), IsFiniteSet(B), A \subseteq B
        PROVE  Cardinality(A) <= Cardinality(B)
        BY <1>1, FS_Subset
  <1>2. ASSUME NEW A, NEW x, IsFiniteSet(A)
        PROVE  /\ IsFiniteSet(A \ {x}) /\ IsFiniteSet(A \cup {x})
               /\ Cardinality(A) \in Nat
               /\ Cardinality(A \ {x}) \in Nat /\ Cardinality(A \cup {x}) \in Nat
               /\ Cardinality(A) <= Cardinality(A \ {x}) + 1
               /\ x \notin A => Cardinality(A \cup {x}) = Cardinality(A) + 1
    <2>1. /\ Cardinality(A) \in Nat /\ IsFiniteSet(A \ {x}) /\ IsFiniteSet(A \cup {x})
          /\ Cardinality(A \ {x}) = IF x \in A THEN Cardinality(A) - 1 ELSE Cardinality(A)
          /\ Cardinality(A \cup {x}) =
                 IF x \in A THEN Cardinality(A) ELSE Cardinality(A) + 1
          BY <1>2, FS_CardinalityType, FS_AddElement, FS_RemoveElement
    <2> QED
          BY <1>2, <2>1, FS_CardinalityType
  <1>3. Cardinality(S) \in Nat /\ Cardinality(T) \in Nat
        BY FS_CardinalityType
  <1>4. ASSUME NEW x, S \ {x} \subseteq T PROVE Cardinality(S) <= Cardinality(T) + 1
    <2>1. /\ IsFiniteSet(S \ {x}) /\ Cardinality(S \ {x}) \in Nat
          /\ Cardinality(S) <= Cardinality(S \ {x}) + 1
          BY <1>2
    <2>2. Cardinality(S \ {x}) <= Cardinality(T)
          BY <1>1, <1>4, <2>1
    <2> QED
          BY <1>3, <2>1, <2>2
  <1>5. ASSUME NEW y \in T, y \notin S, S \subseteq T
        PROVE  Cardinality(S) + 1 <= Cardinality(T)
    <2>1. IsFiniteSet(S \cup {y}) /\ Cardinality(S \cup {y}) = Cardinality(S) + 1
          BY <1>2, <1>5
    <2>2. Cardinality(S \cup {y}) <= Cardinality(T)
          BY <1>1, <1>5, <2>1
    <2> QED
          BY <1>3, <2>1, <2>2
  <1>6. ASSUME NEW x, NEW y \in T, y \notin S, S \ {x} \subseteq T
        PROVE  Cardinality(S) <= Cardinality(T)
    <2> DEFINE R == S \ {x}
    <2>1. /\ IsFiniteSet(R) /\ Cardinality(R) \in Nat
          /\ Cardinality(S) <= Cardinality(R) + 1
          BY <1>2
    <2>2. y \notin R /\ R \subseteq T
          BY <1>6
    <2> HIDE DEF R
    <2>3. IsFiniteSet(R \cup {y}) /\ Cardinality(R \cup {y}) = Cardinality(R) + 1
          BY <1>2, <2>1, <2>2
    <2>4. Cardinality(R \cup {y}) <= Cardinality(T)
          BY <1>1, <2>2, <2>3
    <2> QED
          BY <1>3, <2>1, <2>3, <2>4
  <1> QED
      BY <1>1, <1>3, <1>4, <1>5, <1>6

(* notify_one wakes one waiter if there is any, and nobody else. *)
LEMMA WakesOne ==
    ASSUME TypeOK, NEW waiters, NEW t \in Threads, NEW next, NotifyOne(waiters, t, next),
           IsFiniteSet(waiters), t \notin waiters
    PROVE  \/ waiters = {} /\ \A u \in Threads : at'[u] = IF u = t THEN next ELSE at[u]
           \/ \E w \in waiters :
                 \A u \in Threads : at'[u] = IF u = t THEN next
                                             ELSE IF u = w THEN "lock" ELSE at[u]
PROOF
  <1>1. PICK who \in SUBSET waiters :
           /\ Cardinality(who) = IF waiters = {} THEN 0 ELSE 1
           /\ at' = Woken([at EXCEPT ![t] = next], who)
        BY DEF NotifyOne
  <1>2. DOMAIN at = Threads
        BY DEF TypeOK
  <1>3. \A u \in Threads : at'[u] = IF u \in who THEN "lock"
                                    ELSE IF u = t THEN next ELSE at[u]
        BY <1>1, <1>2 DEF Woken
  <1>4. CASE waiters = {}
        BY <1>1, <1>3, <1>4
  <1>5. CASE waiters # {}
    <2>1. Cardinality(who) = 1
          BY <1>1, <1>5
    <2>2. IsFiniteSet(who)
          BY <1>1, FS_Subset
    <2>3. PICK w : who = {w}
          BY <2>1, <2>2, FS_Singleton
    <2> QED
          BY <1>1, <1>3, <2>3
  <1> QED
      BY <1>4, <1>5

-----------------------------------------------------------------------------
(* Those on their way to an item, and those on their way to a free place. *)
ToItems == Coming(Producers, Consumers)
ToPlaces == Coming(Consumers, Producers)

(* n are no more than the members of T, given that m were no more than those
   of S: one more only if a member has joined, one fewer if one has left, and
   one that leaves may send another. *)
Covers(n, m, S, T) ==
    \/ n = m /\ S \subseteq T
    \/ n = m /\ \E x : S \ {x} \subseteq T /\ \E y \in T : y \notin S
    \/ n = m + 1 /\ S \subseteq T /\ \E y \in T : y \notin S
    \/ n = m - 1 /\ \E x : S \ {x} \subseteq T

(* Then n are still enough. *)
LEMMA StillEnough ==
    ASSUME NEW S, NEW T, IsFiniteSet(S), IsFiniteSet(T), NEW m \in Int, NEW n \in Int,
           m <= Cardinality(S), Covers(n, m, S, T)
    PROVE  n <= Cardinality(T)
PROOF
  <1>1. /\ Cardinality(S) \in Nat /\ Cardinality(T) \in Nat
        /\ S \subseteq T => Cardinality(S) <= Cardinality(T)
        /\ \A x : S \ {x} \subseteq T => Cardinality(S) <= Cardinality(T) + 1
        /\ \A y \in T : y \notin S /\ S \subseteq T => Cardinality(S) + 1 <= Cardinality(T)
        /\ \A x : \A y \in T : y \notin S /\ S \ {x} \subseteq T =>
                                   Cardinality(S) <= Cardinality(T)
        BY Counting
  <1>2. CASE n = m /\ S \subseteq T
        BY <1>1, <1>2
  <1>3. CASE n = m /\ \E x : S \ {x} \subseteq T /\ \E y \in T : y \notin S
        BY <1>1, <1>3
  <1>4. CASE n = m + 1 /\ S \subseteq T /\ \E y \in T : y \notin S
        BY <1>1, <1>4
  <1>5. CASE n = m - 1 /\ \E x : S \ {x} \subseteq T
        BY <1>1, <1>5
  <1> QED
      BY <1>2, <1>3, <1>4, <1>5 DEF Covers

(* Who is on the way can be counted, and so can the items. *)
LEMMA Countable ==
    ASSUME TypeOK, TypeOK'
    PROVE  /\ IsFiniteSet(ToItems) /\ IsFiniteSet(ToPlaces)
           /\ IsFiniteSet(ToItems') /\ IsFiniteSet(ToPlaces')
           /\ Cardinality(ToItems') \in Nat /\ Cardinality(ToPlaces') \in Nat
           /\ Len(queue.items) \in 0..QueueCapa /\ Len(queue'.items) \in 0..QueueCapa
PROOF
  <1>1. IsFiniteSet(Producers \cup Consumers)
        BY ThreadsAssumption, FS_Union
  <1>2. /\ ToItems \subseteq Producers \cup Consumers
        /\ ToPlaces \subseteq Producers \cup Consumers
        /\ ToItems' \subseteq Producers \cup Consumers
        /\ ToPlaces' \subseteq Producers \cup Consumers
        BY DEF ToItems, ToPlaces, Coming
  <1>3. Len(queue.items) \in 0..QueueCapa /\ Len(queue'.items) \in 0..QueueCapa
        BY QueueCapaAssumption DEF TypeOK, Queues
  <1> QED
      BY <1>1, <1>2, <1>3, FS_Subset, FS_CardinalityType

(* What a step has to do to lose no wakeup. *)
LEMMA WakeupsKept ==
    ASSUME TypeOK, TypeOK', NoLostWakeup,
           NotEmpty' # {} =>
               \/ Len(queue'.items) = 0
               \/ /\ NotEmpty # {}
                  /\ Covers(Len(queue'.items), Len(queue.items), ToItems, ToItems'),
           NotFull' # {} /\ ~queue'.closed =>
               \/ Len(queue'.items) = QueueCapa
               \/ /\ NotFull # {} /\ ~queue.closed
                  /\ Covers(QueueCapa - Len(queue'.items), QueueCapa - Len(queue.items),
                            ToPlaces, ToPlaces'),
           queue'.closed /\ NotEmpty' # {} => \E t \in Closers : at'[t] = "notifyEmpty",
           queue'.closed /\ NotFull' # {} =>
               \E t \in Closers : at'[t] \in {"notifyEmpty", "notifyFull"}
    PROVE  NoLostWakeup'
PROOF
  <1>1. /\ IsFiniteSet(ToItems) /\ IsFiniteSet(ToPlaces)
        /\ IsFiniteSet(ToItems') /\ IsFiniteSet(ToPlaces')
        /\ Cardinality(ToItems') \in Nat /\ Cardinality(ToPlaces') \in Nat
        /\ Len(queue.items) \in Int /\ Len(queue'.items) \in Int /\ QueueCapa \in Int
        BY Countable, QueueCapaAssumption
  <1>2. /\ NotEmpty # {} => Len(queue.items) <= Cardinality(ToItems)
        /\ NotFull # {} /\ ~queue.closed =>
               QueueCapa - Len(queue.items) <= Cardinality(ToPlaces)
        BY DEF NoLostWakeup, ToItems, ToPlaces
  <1>3. NotEmpty' # {} => Len(queue'.items) <= Cardinality(ToItems')
    <2> SUFFICES ASSUME NotEmpty' # {} PROVE Len(queue'.items) <= Cardinality(ToItems')
        OBVIOUS
    <2>1. CASE Len(queue'.items) = 0
          BY <1>1, <2>1
    <2>2. CASE Len(queue'.items) # 0
          BY <1>1, <1>2, <2>2, StillEnough
    <2> QED
          BY <2>1, <2>2
  <1>4. NotFull' # {} /\ ~queue'.closed =>
            QueueCapa - Len(queue'.items) <= Cardinality(ToPlaces')
    <2> SUFFICES ASSUME NotFull' # {}, ~queue'.closed
                 PROVE  QueueCapa - Len(queue'.items) <= Cardinality(ToPlaces')
        OBVIOUS
    <2>1. CASE Len(queue'.items) = QueueCapa
          BY <1>1, <2>1
    <2>2. CASE Len(queue'.items) # QueueCapa
      <3>1. QueueCapa - Len(queue.items) \in Int /\ QueueCapa - Len(queue'.items) \in Int
            BY <1>1
      <3> QED
            BY <1>1, <1>2, <2>2, <3>1, StillEnough
    <2> QED
          BY <2>1, <2>2
  <1> QED
      BY <1>3, <1>4 DEF NoLostWakeup, ToItems, ToPlaces

(* Beginning a call, or waking up without a notification. *)
LEMMA CallWakeups ==
    ASSUME TypeOK, TypeOK', NoLostWakeup, NEW t \in Threads, Call(t) \/ Spurious(t)
    PROVE  NoLostWakeup'
PROOF
  <1>1. /\ queue' = queue /\ at[t] \in {"idle", "waiting"}
        /\ \A u \in Threads : at'[u] = IF u = t THEN "lock" ELSE at[u]
        BY DEF Call, Spurious, Woken, TypeOK
  <1>2. NotEmpty' \subseteq NotEmpty /\ NotFull' \subseteq NotFull
        BY <1>1 DEF NotEmpty, NotFull, Threads
  <1>3. ToItems \subseteq ToItems' /\ ToPlaces \subseteq ToPlaces'
        BY <1>1 DEF ToItems, ToPlaces, Coming, Threads
  <1>4. \A u \in Closers : at[u] \in {"notifyEmpty", "notifyFull"} => at'[u] = at[u]
        BY <1>1 DEF Threads
  <1>5. /\ queue'.closed /\ NotEmpty' # {} => \E u \in Closers : at'[u] = "notifyEmpty"
        /\ queue'.closed /\ NotFull' # {} =>
               \E u \in Closers : at'[u] \in {"notifyEmpty", "notifyFull"}
        BY <1>1, <1>2, <1>4 DEF NoLostWakeup
  <1> QED
      BY <1>1, <1>2, <1>3, <1>5, WakeupsKept DEF Covers

(* A critical section of push. *)
LEMMA PushWakeups ==
    ASSUME TypeOK, TypeOK', NoLostWakeup, NEW p \in Threads, PushLocked(p)
    PROVE  NoLostWakeup'
PROOF
  <1>1. /\ p \in Producers /\ p \notin Consumers /\ at[p] = "lock"
        /\ \A u \in Threads \ {p} : at'[u] = at[u]
        /\ at'[p] \in {"waiting", "idle", "notify"}
        BY ThreadsAssumption DEF PushLocked, TypeOK
  <1>2. \A u \in Closers : at[u] \in {"notifyEmpty", "notifyFull"} => at'[u] = at[u]
        BY <1>1 DEF Threads
  <1>3. NotEmpty' = NotEmpty /\ ToItems \subseteq ToItems' /\ ToPlaces \ {p} \subseteq ToPlaces'
        BY <1>1 DEF NotEmpty, ToItems, ToPlaces, Coming, Threads
  <1>4. queue \in Queues(Producers) /\ Len(queue.items) \in 0..QueueCapa
        BY Countable DEF TypeOK
  <1>5. CASE ~CanPush(queue)
    <2>1. queue' = queue /\ Len(queue.items) = QueueCapa /\ ~queue.closed
          BY <1>4, <1>5, QueueCapaAssumption DEF PushLocked, CanPush
    <2> QED
          BY <1>3, <2>1, WakeupsKept DEF Covers
  <1>6. CASE CanPush(queue)
    <2>1. /\ queue' = Pushed(queue, p)
          /\ at'[p] = IF queue.closed THEN "idle" ELSE "notify"
          BY <1>6 DEF PushLocked, TypeOK
    <2>2. /\ queue'.closed = queue.closed
          /\ Len(queue'.items) = IF queue.closed THEN Len(queue.items)
                                                 ELSE Len(queue.items) + 1
          BY <1>1, <1>4, <1>6, <2>1, PushMakes
    <2>3. NotFull' = NotFull
          BY <1>1, <2>1 DEF NotFull, Threads
    <2>4. /\ queue'.closed /\ NotEmpty' # {} => \E u \in Closers : at'[u] = "notifyEmpty"
          /\ queue'.closed /\ NotFull' # {} =>
                 \E u \in Closers : at'[u] \in {"notifyEmpty", "notifyFull"}
          BY <1>2, <1>3, <2>2, <2>3 DEF NoLostWakeup
    <2>5. CASE queue.closed
          BY <1>3, <2>2, <2>4, <2>5, WakeupsKept DEF Covers
    <2>6. CASE ~queue.closed
      <3>1. p \in ToItems' /\ p \notin ToItems
            BY <1>1, <2>1, <2>6 DEF ToItems, Coming
      <3>2. Covers(Len(queue'.items), Len(queue.items), ToItems, ToItems')
            BY <1>3, <2>2, <2>6, <3>1 DEF Covers
      <3>3. QueueCapa - Len(queue'.items) = QueueCapa - Len(queue.items) - 1
            BY <1>4, <2>2, <2>6, QueueCapaAssumption
      <3>4. Covers(QueueCapa - Len(queue'.items), QueueCapa - Len(queue.items),
                   ToPlaces, ToPlaces')
            BY <1>3, <3>3 DEF Covers
      <3> QED
            BY <1>3, <2>2, <2>3, <2>4, <2>6, <3>2, <3>4, WakeupsKept
    <2> QED
          BY <2>5, <2>6
  <1> QED
      BY <1>5, <1>6

(* A critical section of pop. *)
LEMMA PopWakeups ==
    ASSUME TypeOK, TypeOK', NoLostWakeup, NEW c \in Threads, PopLocked(c)
    PROVE  NoLostWakeup'
PROOF
  <1>1. /\ c \in Consumers /\ c \notin Producers /\ at[c] = "lock"
        /\ \A u \in Threads \ {c} : at'[u] = at[u]
        /\ at'[c] \in {"waiting", "idle", "notify"}
        BY ThreadsAssumption DEF PopLocked, TypeOK
  <1>2. \A u \in Closers : at[u] \in {"notifyEmpty", "notifyFull"} => at'[u] = at[u]
        BY <1>1 DEF Threads
  <1>3. NotFull' = NotFull /\ ToPlaces \subseteq ToPlaces' /\ ToItems \ {c} \subseteq ToItems'
        BY <1>1 DEF NotFull, ToItems, ToPlaces, Coming, Threads
  <1>4. queue \in Queues(Producers) /\ Len(queue.items) \in 0..QueueCapa
        BY Countable DEF TypeOK
  <1>5. CASE IsEmpty(queue)
    <2>1. queue' = queue /\ Len(queue.items) = 0
          BY <1>4, <1>5 DEF PopLocked, CanPop, IsEmpty, Queues
    <2>2. queue.closed => NotEmpty' = NotEmpty
      <3>1. queue.closed => at'[c] = "idle"
            BY <1>5 DEF PopLocked, CanPop, TypeOK
      <3> QED
            BY <1>1, <3>1 DEF NotEmpty, Threads
    <2>3. /\ queue'.closed /\ NotEmpty' # {} => \E u \in Closers : at'[u] = "notifyEmpty"
          /\ queue'.closed /\ NotFull' # {} =>
                 \E u \in Closers : at'[u] \in {"notifyEmpty", "notifyFull"}
          BY <1>2, <1>3, <2>1, <2>2 DEF NoLostWakeup
    <2> QED
          BY <1>3, <2>1, <2>3, WakeupsKept DEF Covers
  <1>6. CASE ~IsEmpty(queue)
    <2>1. queue' = Popped(queue) /\ at'[c] = "notify"
          BY <1>6 DEF PopLocked, CanPop, TypeOK
    <2>2. queue'.closed = queue.closed /\ Len(queue'.items) = Len(queue.items) - 1
          BY <1>4, <1>6, <2>1, PopMakes
    <2>3. NotEmpty' = NotEmpty
          BY <1>1, <2>1 DEF NotEmpty, Threads
    <2>4. c \in ToPlaces' /\ c \notin ToPlaces
          BY <1>1, <2>1 DEF ToPlaces, Coming
    <2>5. Covers(Len(queue'.items), Len(queue.items), ToItems, ToItems')
          BY <1>3, <2>2 DEF Covers
    <2>6. QueueCapa - Len(queue'.items) = QueueCapa - Len(queue.items) + 1
          BY <1>4, <2>2, QueueCapaAssumption
    <2>7. Covers(QueueCapa - Len(queue'.items), QueueCapa - Len(queue.items),
                 ToPlaces, ToPlaces')
          BY <1>3, <2>4, <2>6 DEF Covers
    <2>8. /\ queue'.closed /\ NotEmpty' # {} => \E u \in Closers : at'[u] = "notifyEmpty"
          /\ queue'.closed /\ NotFull' # {} =>
                 \E u \in Closers : at'[u] \in {"notifyEmpty", "notifyFull"}
          BY <1>2, <1>3, <2>2, <2>3 DEF NoLostWakeup
    <2> QED
          BY <1>3, <2>2, <2>3, <2>5, <2>7, <2>8, WakeupsKept
  <1> QED
      BY <1>5, <1>6

(* close, in its critical section and in each of its notifications. *)
LEMMA CloseWakeups ==
    ASSUME TypeOK, TypeOK', NoLostWakeup, NEW t \in Threads,
           CloseLocked(t) \/ NotifyAllEmpty(t) \/ NotifyAllFull(t)
    PROVE  NoLostWakeup'
PROOF
  <1>0. DOMAIN at = Threads
        BY DEF TypeOK
  <1>1. CASE CloseLocked(t)
    <2>1. /\ t \in Closers /\ at[t] = "idle" /\ queue' = Closed(queue)
          /\ \A u \in Threads : at'[u] = IF u = t THEN "notifyEmpty" ELSE at[u]
          BY <1>0, <1>1 DEF CloseLocked
    <2>2. Len(queue'.items) = Len(queue.items) /\ queue'.closed
          BY <2>1, CloseMakes DEF TypeOK
    <2>3. NotEmpty' = NotEmpty /\ ToItems \subseteq ToItems'
          BY <2>1 DEF NotEmpty, ToItems, Coming, Threads
    <2>4. at'[t] = "notifyEmpty"
          BY <2>1
    <2> QED
          BY <2>1, <2>2, <2>3, <2>4, WakeupsKept DEF Covers
  <1>2. CASE NotifyAllEmpty(t)
    <2>1. /\ at[t] = "notifyEmpty" /\ queue' = queue
          /\ \A u \in Threads : at'[u] = IF u \in NotEmpty THEN "lock"
                                         ELSE IF u = t THEN "notifyFull" ELSE at[u]
          BY <1>0, <1>2 DEF NotifyAllEmpty, Woken
    <2>2. NotEmpty' = {} /\ NotFull' = NotFull
          BY <2>1, ThreadsAssumption DEF NotEmpty, NotFull, Threads
    <2>3. ToPlaces \subseteq ToPlaces'
          BY <2>1 DEF NotEmpty, ToPlaces, Coming, Threads
    <2>4. queue'.closed /\ NotFull' # {} =>
              \E u \in Closers : at'[u] \in {"notifyEmpty", "notifyFull"}
      <3> SUFFICES ASSUME queue'.closed, NotFull' # {}
                   PROVE  \E u \in Closers : at'[u] \in {"notifyEmpty", "notifyFull"}
          OBVIOUS
      <3>1. PICK u \in Closers : at[u] \in {"notifyEmpty", "notifyFull"}
            BY <2>1, <2>2 DEF NoLostWakeup
      <3>2. at'[u] \in {"notifyEmpty", "notifyFull"}
            BY <2>1, <3>1 DEF NotEmpty, Threads
      <3> QED
            BY <3>2
    <2> QED
          BY <2>1, <2>2, <2>3, <2>4, WakeupsKept DEF Covers
  <1>3. CASE NotifyAllFull(t)
    <2>1. /\ at[t] = "notifyFull" /\ queue' = queue
          /\ \A u \in Threads : at'[u] = IF u \in NotFull THEN "lock"
                                         ELSE IF u = t THEN "idle" ELSE at[u]
          BY <1>0, <1>3 DEF NotifyAllFull, Woken
    <2>2. NotFull' = {} /\ NotEmpty' = NotEmpty
          BY <2>1, ThreadsAssumption DEF NotEmpty, NotFull, Threads
    <2>3. ToItems \subseteq ToItems'
          BY <2>1 DEF NotFull, ToItems, Coming, Threads
    <2>4. queue'.closed /\ NotEmpty' # {} => \E u \in Closers : at'[u] = "notifyEmpty"
      <3> SUFFICES ASSUME queue'.closed, NotEmpty' # {}
                   PROVE  \E u \in Closers : at'[u] = "notifyEmpty"
          OBVIOUS
      <3>1. PICK u \in Closers : at[u] = "notifyEmpty"
            BY <2>1, <2>2 DEF NoLostWakeup
      <3>2. at'[u] = "notifyEmpty"
            BY <2>1, <3>1 DEF NotFull, Threads
      <3> QED
            BY <3>2
    <2> QED
          BY <2>1, <2>2, <2>3, <2>4, WakeupsKept DEF Covers
  <1> QED
      BY <1>1, <1>2, <1>3

(* notify_one at the end of push or pop: whoever was on the way itself sends
   another thread, if one waits. *)
LEMMA NotifyWakeups ==
    ASSUME TypeOK, TypeOK', NoLostWakeup, NEW t \in Threads, Notify(t)
    PROVE  NoLostWakeup'
PROOF
  <1>1. at[t] = "notify" /\ queue' = queue
        BY DEF Notify
  <1>2. IsFiniteSet(NotEmpty) /\ IsFiniteSet(NotFull)
    <2>1. NotEmpty \subseteq Consumers /\ NotFull \subseteq Producers
          BY DEF NotEmpty, NotFull
    <2> QED
          BY <2>1, ThreadsAssumption, FS_Subset
  <1>3. CASE t \in Producers
    <2>1. NotifyOne(NotEmpty, t, "idle") /\ t \notin NotEmpty
          BY <1>1, <1>3 DEF Notify, NotEmpty
    <2>2. CASE NotEmpty = {} /\ \A u \in Threads : at'[u] = IF u = t THEN "idle" ELSE at[u]
      <3>1. NotEmpty' = {} /\ NotFull' = NotFull /\ ToPlaces \subseteq ToPlaces'
            BY <1>1, <1>3, <2>2, ThreadsAssumption
            DEF NotEmpty, NotFull, ToPlaces, Coming, Threads
      <3>2. \A u \in Closers : at[u] \in {"notifyEmpty", "notifyFull"} => at'[u] = at[u]
            BY <1>1, <2>2 DEF Threads
      <3>3. queue'.closed /\ NotFull' # {} =>
                \E u \in Closers : at'[u] \in {"notifyEmpty", "notifyFull"}
            BY <1>1, <3>1, <3>2 DEF NoLostWakeup
      <3> QED
            BY <1>1, <3>1, <3>3, WakeupsKept DEF Covers
    <2>3. ASSUME NEW w \in NotEmpty,
                 \A u \in Threads : at'[u] = IF u = t THEN "idle"
                                             ELSE IF u = w THEN "lock" ELSE at[u]
          PROVE  NoLostWakeup'
      <3>1. w \in Consumers /\ w \in Threads /\ at[w] = "waiting" /\ w # t
            BY <1>1 DEF NotEmpty, Threads
      <3>2. /\ NotEmpty' \subseteq NotEmpty /\ NotFull' = NotFull
            /\ ToPlaces \subseteq ToPlaces'
            BY <1>1, <1>3, <2>3, <3>1, ThreadsAssumption
            DEF NotEmpty, NotFull, ToPlaces, Coming, Threads
      <3>3. ToItems \ {t} \subseteq ToItems' /\ w \in ToItems' /\ w \notin ToItems
            BY <2>3, <3>1, ThreadsAssumption DEF ToItems, Coming, Threads
      <3>4. \A u \in Closers : at[u] \in {"notifyEmpty", "notifyFull"} => at'[u] = at[u]
            BY <1>1, <2>3, <3>1 DEF Threads
      <3>5. /\ queue'.closed /\ NotEmpty' # {} => \E u \in Closers : at'[u] = "notifyEmpty"
            /\ queue'.closed /\ NotFull' # {} =>
                   \E u \in Closers : at'[u] \in {"notifyEmpty", "notifyFull"}
            BY <1>1, <3>2, <3>4 DEF NoLostWakeup
      <3> QED
            BY <1>1, <3>2, <3>3, <3>5, WakeupsKept DEF Covers
    <2> QED
          BY <1>2, <2>1, <2>2, <2>3, WakesOne
  <1>4. CASE t \notin Producers
    <2>1. NotifyOne(NotFull, t, "idle") /\ t \notin NotFull
          BY <1>1, <1>4 DEF Notify, NotFull
    <2>2. CASE NotFull = {} /\ \A u \in Threads : at'[u] = IF u = t THEN "idle" ELSE at[u]
      <3>1. NotFull' = {} /\ NotEmpty' = NotEmpty /\ ToItems \subseteq ToItems'
            BY <1>1, <1>4, <2>2 DEF NotEmpty, NotFull, ToItems, Coming, Threads
      <3>2. \A u \in Closers : at[u] \in {"notifyEmpty", "notifyFull"} => at'[u] = at[u]
            BY <1>1, <2>2 DEF Threads
      <3>3. queue'.closed /\ NotEmpty' # {} => \E u \in Closers : at'[u] = "notifyEmpty"
            BY <1>1, <3>1, <3>2 DEF NoLostWakeup
      <3> QED
            BY <1>1, <3>1, <3>3, WakeupsKept DEF Covers
    <2>3. ASSUME NEW w \in NotFull,
                 \A u \in Threads : at'[u] = IF u = t THEN "idle"
                                             ELSE IF u = w THEN "lock" ELSE at[u]
          PROVE  NoLostWakeup'
      <3>1. w \in Producers /\ w \in Threads /\ at[w] = "waiting" /\ w # t
            BY <1>1 DEF NotFull, Threads
      <3>2. /\ NotFull' \subseteq NotFull /\ NotEmpty' = NotEmpty
            /\ ToItems \subseteq ToItems'
            BY <1>1, <1>4, <2>3, <3>1, ThreadsAssumption
            DEF NotEmpty, NotFull, ToItems, Coming, Threads
      <3>3. ToPlaces \ {t} \subseteq ToPlaces' /\ w \in ToPlaces' /\ w \notin ToPlaces
            BY <2>3, <3>1, ThreadsAssumption DEF ToPlaces, Coming, Threads
      <3>4. \A u \in Closers : at[u] \in {"notifyEmpty", "notifyFull"} => at'[u] = at[u]
            BY <1>1, <2>3, <3>1 DEF Threads
      <3>5. /\ queue'.closed /\ NotEmpty' # {} => \E u \in Closers : at'[u] = "notifyEmpty"
            /\ queue'.closed /\ NotFull' # {} =>
                   \E u \in Closers : at'[u] \in {"notifyEmpty", "notifyFull"}
            BY <1>1, <3>2, <3>4 DEF NoLostWakeup
      <3> QED
            BY <1>1, <3>2, <3>3, <3>5, WakeupsKept DEF Covers
    <2> QED
          BY <1>2, <2>1, <2>2, <2>3, WakesOne
  <1> QED
      BY <1>3, <1>4

(* tryPop makes a place and sends a producer to it, if one waits. *)
LEMMA TryPopWakeups ==
    ASSUME TypeOK, TypeOK', NoLostWakeup, NEW t \in Threads, TryPop(t)
    PROVE  NoLostWakeup'
PROOF
  <1>1. t \in Pollers /\ t \notin Producers \cup Consumers \cup Closers
        BY ThreadsAssumption DEF TryPop
  <1>2. CASE IsEmpty(queue)
    <2>1. UNCHANGED <<queue, at>>
          BY <1>2 DEF TryPop
    <2> QED
          BY <2>1 DEF NoLostWakeup, NotEmpty, NotFull, Coming
  <1>3. CASE ~IsEmpty(queue)
    <2>1. queue' = Popped(queue) /\ NotifyOne(NotFull, t, "idle")
          BY <1>3 DEF TryPop
    <2>2. queue'.closed = queue.closed /\ Len(queue'.items) = Len(queue.items) - 1
          BY <1>3, <2>1, PopMakes DEF TypeOK
    <2>3. IsFiniteSet(NotFull) /\ t \notin NotFull
      <3>1. NotFull \subseteq Producers
            BY DEF NotFull
      <3> QED
            BY <1>1, <3>1, ThreadsAssumption, FS_Subset
    <2>4. QueueCapa - Len(queue'.items) = QueueCapa - Len(queue.items) + 1
          BY <2>2, Countable, QueueCapaAssumption
    <2>5. CASE NotFull = {} /\ \A u \in Threads : at'[u] = IF u = t THEN "idle" ELSE at[u]
      <3>1. NotFull' = {} /\ NotEmpty' = NotEmpty /\ ToItems \subseteq ToItems'
            BY <1>1, <2>5 DEF NotEmpty, NotFull, ToItems, Coming, Threads
      <3>2. \A u \in Closers : at'[u] = at[u]
            BY <1>1, <2>5 DEF Threads
      <3>3. queue'.closed /\ NotEmpty' # {} => \E u \in Closers : at'[u] = "notifyEmpty"
            BY <2>2, <3>1, <3>2 DEF NoLostWakeup
      <3>4. Covers(Len(queue'.items), Len(queue.items), ToItems, ToItems')
            BY <2>2, <3>1 DEF Covers
      <3> QED
            BY <3>1, <3>3, <3>4, WakeupsKept
    <2>6. ASSUME NEW w \in NotFull,
                 \A u \in Threads : at'[u] = IF u = t THEN "idle"
                                             ELSE IF u = w THEN "lock" ELSE at[u]
          PROVE  NoLostWakeup'
      <3>1. w \in Producers /\ w \in Threads /\ at[w] = "waiting" /\ w # t
            BY <2>3 DEF NotFull, Threads
      <3>2. /\ NotFull' \subseteq NotFull /\ NotEmpty' = NotEmpty
            /\ ToItems \subseteq ToItems'
            BY <1>1, <2>6, <3>1, ThreadsAssumption
            DEF NotEmpty, NotFull, ToItems, Coming, Threads
      <3>3. ToPlaces \subseteq ToPlaces' /\ w \in ToPlaces' /\ w \notin ToPlaces
            BY <1>1, <2>6, <3>1, ThreadsAssumption DEF ToPlaces, Coming, Threads
      <3>4. \A u \in Closers : at[u] \in {"notifyEmpty", "notifyFull"} => at'[u] = at[u]
            BY <1>1, <2>6, <3>1 DEF Threads
      <3>5. /\ queue'.closed /\ NotEmpty' # {} => \E u \in Closers : at'[u] = "notifyEmpty"
            /\ queue'.closed /\ NotFull' # {} =>
                   \E u \in Closers : at'[u] \in {"notifyEmpty", "notifyFull"}
            BY <2>2, <3>2, <3>4 DEF NoLostWakeup
      <3>6. /\ Covers(Len(queue'.items), Len(queue.items), ToItems, ToItems')
            /\ Covers(QueueCapa - Len(queue'.items), QueueCapa - Len(queue.items),
                      ToPlaces, ToPlaces')
            BY <2>2, <2>4, <3>2, <3>3 DEF Covers
      <3> QED
            BY <2>2, <3>2, <3>5, <3>6, WakeupsKept
    <2> QED
          BY <2>1, <2>3, <2>5, <2>6, WakesOne
  <1> QED
      BY <1>2, <1>3

(* Every step keeps all wakeups. *)
LEMMA WakeupsStep == TypeOK /\ NoLostWakeup /\ [Next]_vars => NoLostWakeup'
PROOF
  <1> SUFFICES ASSUME TypeOK, NoLostWakeup, [Next]_vars PROVE NoLostWakeup'
      OBVIOUS
  <1>1. TypeOK'
        BY TypeStep
  <1>2. CASE UNCHANGED vars
        BY <1>2 DEF vars, NoLostWakeup, NotEmpty, NotFull, Coming
  <1>3. ASSUME NEW t \in Threads,
               Call(t) \/ InCall(t) \/ TryPop(t) \/ CloseLocked(t) \/ Spurious(t)
        PROVE  NoLostWakeup'
        BY <1>1, <1>3, CallWakeups, PushWakeups, PopWakeups, NotifyWakeups,
           CloseWakeups, TryPopWakeups DEF InCall
  <1> QED
      BY <1>2, <1>3 DEF Next

(* No thread waits while there is something for it that nobody is on the way
   to, or on a closed queue that has notified. *)
THEOREM Wakeups == Spec => []NoLostWakeup
PROOF
  <1>1. Init => NoLostWakeup
        BY DEF Init, NoLostWakeup, NotEmpty, NotFull, EmptyQueue, Threads
  <1> QED
      BY <1>1, TypeInit, TypeStep, WakeupsStep, PTL DEF Spec
=============================================================================
