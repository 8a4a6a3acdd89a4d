-------------------------- MODULE TaskQueueProofs ---------------------------
(***************************************************************************)
(* TaskQueue for every number of threads, tasks and slots: the ring is     *)
(* well formed, no wake-up is lost, a popped task stays where it is until  *)
(* the ring comes back to its slot, and the ring implements BoundedFifo.   *)
(***************************************************************************)
EXTENDS TaskQueue, FiniteSetTheorems, SequenceTheorems, TLAPS

\* The slot of an index that is less than twice round the ring.
Around(a) == IF a < Cap THEN a ELSE a - Cap

LEMMA OnceRound ==
  ASSUME NEW a \in Nat, a < 2 * Cap
  PROVE  a % Cap = Around(a)
<1> USE QueueAssumption
<1>1. CASE a < Cap BY <1>1 DEF Around
<1>2. CASE a >= Cap BY <1>2 DEF Around
<1> QED BY <1>1, <1>2

\* The tail is `count' slots after the head, and a popped slot whose task is
\* still there is `room' - 1 slots after the tail.
RingInv ==
    /\ tail = (head + count) % Cap
    /\ \A c \in Consumers : room[c] > 0 =>
          /\ room[c] <= Cap - count
          /\ ptr[c] = (tail + room[c] - 1) % Cap
          /\ tasks[ptr[c]] = got[c]

-----------------------------------------------------------------------------
\* A wait or a wake-up changes nothing but the program counters.
LEMMA TypeInit == Init => TypeOK
<1> USE QueueAssumption
<1> QED BY DEF Init, TypeOK, Slots, Threads, NoSlot

\* Signalling keeps the type of the program counters.
LEMMA SignalType ==
  ASSUME pc \in [Threads -> {"call", "wait", "woken", "use"}],
         NEW t \in Threads, NEW next \in {"call", "use"}, NEW S \in SUBSET Threads,
         GoOnAndSignal(t, next, S)
  PROVE  pc' \in [Threads -> {"call", "wait", "woken", "use"}]
BY DEF GoOnAndSignal, Waiting

LEMMA TypeStep == TypeOK /\ [Next]_vars => TypeOK'
<1> SUFFICES ASSUME TypeOK, [Next]_vars PROVE TypeOK' OBVIOUS
<1> USE DEF TypeOK
<1>1. ASSUME NEW p \in Producers, PushWait(p) PROVE TypeOK'
  BY <1>1 DEF PushWait, Threads
<1>2. ASSUME NEW p \in Producers, Push(p) PROVE TypeOK'
  <2>1. pc' \in [Threads -> {"call", "wait", "woken", "use"}]
    BY <1>2, SignalType DEF Push, SignalTaskAvailable, Threads
  <2>2. tail' \in Slots
    <3>1. tail + 1 \in Nat /\ tail + 1 < 2 * Cap BY QueueAssumption DEF Slots
    <3> QED BY <1>2, <3>1, OnceRound, QueueAssumption DEF Push, Slots, Around
  <2>3. count' \in 0 .. Cap BY <1>2, QueueAssumption DEF Push, Full
  <2>4. room' \in [Consumers -> 0 .. Cap]
    <3>1. \A c \in Consumers : (IF room[c] > 0 THEN room[c] - 1 ELSE 0) \in 0 .. Cap
      BY QueueAssumption
    <3> QED BY <1>2, <3>1 DEF Push
  <2>5. tasks' \in [Slots -> Tasks \cup {NoTask}]
    <3>1. PICK x \in Tasks : tasks' = [tasks EXCEPT ![tail] = x] BY <1>2 DEF Push
    <3> QED BY <3>1
  <2> QED BY <1>2, <2>1, <2>2, <2>3, <2>4, <2>5 DEF Push
<1>3. ASSUME NEW c \in Consumers, PopWait(c) PROVE TypeOK'
  BY <1>3 DEF PopWait, Threads
<1>4. ASSUME NEW c \in Consumers, Pop(c) PROVE TypeOK'
  <2>1. pc' \in [Threads -> {"call", "wait", "woken", "use"}]
    BY <1>4, SignalType DEF Pop, SignalNotFull, Threads
  <2>2. head' \in Slots
    <3>1. head + 1 \in Nat /\ head + 1 < 2 * Cap BY QueueAssumption DEF Slots
    <3> QED BY <1>4, <3>1, OnceRound, QueueAssumption DEF Pop, Slots, Around
  <2>3. count' \in 0 .. Cap /\ Cap - (count - 1) \in 0 .. Cap
    BY <1>4, QueueAssumption DEF Pop
  <2>4. /\ ptr' \in [Consumers -> Slots \cup {NoSlot}]
        /\ got' \in [Consumers -> Tasks \cup {NoTask}]
    <3>1. ptr' = [ptr EXCEPT ![c] = head] /\ got' = [got EXCEPT ![c] = tasks[head]]
      BY <1>4 DEF Pop
    <3>2. tasks[head] \in Tasks \cup {NoTask} OBVIOUS
    <3> QED BY <3>1, <3>2
  <2>5. room' \in [Consumers -> 0 .. Cap] BY <1>4, <2>3 DEF Pop
  <2> QED BY <1>4, <2>1, <2>2, <2>3, <2>4, <2>5 DEF Pop
<1>5. ASSUME NEW c \in Consumers, Use(c) PROVE TypeOK' BY <1>5 DEF Use
<1>6. ASSUME NEW t \in Threads, SpuriousWakeup(t) PROVE TypeOK'
  BY <1>6 DEF SpuriousWakeup
<1>7. CASE UNCHANGED vars BY <1>7 DEF vars
<1> QED BY <1>1, <1>2, <1>3, <1>4, <1>5, <1>6, <1>7
        DEF Next, ProducerStep, ConsumerStep

-----------------------------------------------------------------------------
\* The geometry of the ring.
LEMMA RingStep == TypeOK /\ RingInv /\ [Next]_vars => RingInv'
<1> SUFFICES ASSUME TypeOK, RingInv, [Next]_vars PROVE RingInv' OBVIOUS
<1>1. ASSUME UNCHANGED <<tasks, head, tail, count, ptr, got, room>> PROVE RingInv'
  BY <1>1 DEF RingInv
<1>2. ASSUME NEW p \in Producers, Push(p) PROVE RingInv'
  <2>1. /\ head' = head /\ ptr' = ptr /\ got' = got /\ count' = count + 1
        /\ count < Cap /\ tail' = (tail + 1) % Cap
        /\ \A s \in Slots : s # tail => tasks'[s] = tasks[s]
        /\ \A c \in Consumers : room'[c] = IF room[c] > 0 THEN room[c] - 1 ELSE 0
        /\ count \in Nat /\ head \in 0 .. Cap - 1 /\ tail \in 0 .. Cap - 1
    BY <1>2, QueueAssumption DEF Push, Full, TypeOK, Slots
  <2>2. tail' = (head + count + 1) % Cap
    <3>1. tail = Around(head + count)
      <4>1. head + count \in Nat /\ head + count < 2 * Cap BY <2>1, QueueAssumption
      <4> QED BY <4>1, OnceRound, Zenon DEF RingInv
    <3>2. (tail + 1) % Cap = Around(tail + 1)
      <4>1. tail + 1 \in Nat /\ tail + 1 < 2 * Cap BY <2>1, QueueAssumption
      <4> QED BY <4>1, OnceRound, Zenon
    <3>3. (head + count + 1) % Cap = Around(head + count + 1)
      <4>1. head + count + 1 \in Nat /\ head + count + 1 < 2 * Cap
        BY <2>1, QueueAssumption
      <4> QED BY <4>1, OnceRound, Zenon
    <3> QED BY <2>1, <3>1, <3>2, <3>3, QueueAssumption DEF Around
  <2>3. ASSUME NEW c \in Consumers, room'[c] > 0
        PROVE  /\ room'[c] <= Cap - count'
               /\ ptr'[c] = (tail' + room'[c] - 1) % Cap
               /\ tasks'[ptr'[c]] = got'[c]
    <3>1. room[c] \in 0 .. Cap /\ room[c] > 1 /\ room'[c] = room[c] - 1
      BY <2>1, <2>3, QueueAssumption DEF TypeOK
    <3>2. /\ room[c] <= Cap - count
          /\ ptr[c] = (tail + room[c] - 1) % Cap
          /\ tasks[ptr[c]] = got[c]
      BY <3>1 DEF RingInv
    <3>3. tail \in 0 .. Cap - 1 /\ tail' = IF tail + 1 < Cap THEN tail + 1 ELSE 0
      <4>1. tail + 1 \in Nat /\ tail + 1 < 2 * Cap BY <2>1, QueueAssumption
      <4>2. (tail + 1) % Cap = Around(tail + 1)
        BY <4>1, OnceRound, Zenon
      <4> QED BY <2>1, <4>2, QueueAssumption DEF Around
    <3>4. ptr[c] = Around(tail + room[c] - 1)
      <4>1. tail + room[c] - 1 \in Nat /\ tail + room[c] - 1 < 2 * Cap
        BY <3>1, <3>3, QueueAssumption
      <4>2. (tail + room[c] - 1) % Cap = Around(tail + room[c] - 1)
        BY <4>1, OnceRound, Zenon
      <4> QED BY <3>2, <4>2
    <3>5. ptr[c] # tail /\ ptr[c] \in Slots
      BY <3>1, <3>3, <3>4, QueueAssumption DEF Slots, Around
    <3>6. (tail' + room'[c] - 1) % Cap = Around(tail' + room'[c] - 1)
      <4>1. tail' + room'[c] - 1 \in Nat /\ tail' + room'[c] - 1 < 2 * Cap
        BY <3>1, <3>3, QueueAssumption
      <4> QED BY <4>1, OnceRound, Zenon
    <3>7. ptr'[c] = (tail' + room'[c] - 1) % Cap
      BY <2>1, <3>1, <3>3, <3>4, <3>6, QueueAssumption DEF Around
    <3>8. room'[c] <= Cap - count'
      BY <2>1, <3>1, <3>2, QueueAssumption DEF TypeOK
    <3> QED BY <2>1, <3>2, <3>5, <3>7, <3>8
  <2>4. tail' = (head' + count') % Cap
    <3>1. head' + count' = head + count + 1 BY <2>1
    <3> QED BY <2>2, <3>1
  <2> QED BY <2>3, <2>4 DEF RingInv
<1>3. ASSUME NEW d \in Consumers, Pop(d) PROVE RingInv'
  <2>1. /\ tail' = tail /\ tasks' = tasks /\ count' = count - 1 /\ count > 0
        /\ head' = (head + 1) % Cap /\ count \in 0 .. Cap
        /\ head \in 0 .. Cap - 1 /\ tail \in 0 .. Cap - 1
        /\ ptr'[d] = head /\ got'[d] = tasks[head] /\ room'[d] = Cap - (count - 1)
        /\ \A c \in Consumers : c # d => /\ ptr'[c] = ptr[c] /\ got'[c] = got[c]
                                         /\ room'[c] = room[c]
    BY <1>3, QueueAssumption DEF Pop, TypeOK, Slots
  <2>2. tail = Around(head + count)
    <3>1. head + count \in Nat /\ head + count < 2 * Cap BY <2>1, QueueAssumption
    <3> QED BY <3>1, OnceRound, Zenon DEF RingInv
  <2>3. head' = IF head + 1 < Cap THEN head + 1 ELSE 0
    <3>1. head + 1 \in Nat /\ head + 1 < 2 * Cap BY <2>1, QueueAssumption
    <3>2. (head + 1) % Cap = Around(head + 1)
      BY <3>1, OnceRound, Zenon
    <3> QED BY <2>1, <3>2, QueueAssumption DEF Around
  <2>4. tail' = (head' + count') % Cap
    <3>1. (head' + count') % Cap = Around(head' + count')
      <4>1. head' + count' \in Nat /\ head' + count' < 2 * Cap
        BY <2>1, <2>3, QueueAssumption
      <4> QED BY <4>1, OnceRound, Zenon
    <3> QED BY <2>1, <2>2, <2>3, <3>1, QueueAssumption DEF Around
  <2>5. head = (tail + room'[d] - 1) % Cap
    <3>1. (tail + (Cap - (count - 1)) - 1) % Cap = Around(tail + Cap - count)
      <4>1. /\ tail + (Cap - (count - 1)) - 1 \in Nat
            /\ tail + (Cap - (count - 1)) - 1 < 2 * Cap
            /\ tail + (Cap - (count - 1)) - 1 = tail + Cap - count
        BY <2>1, QueueAssumption
      <4>2. (tail + Cap - count) % Cap = Around(tail + Cap - count)
        BY <4>1, OnceRound, Zenon
      <4> QED BY <4>1, <4>2
    <3> QED BY <2>1, <2>2, <3>1, QueueAssumption DEF Around
  <2>6. ASSUME NEW c \in Consumers, room'[c] > 0
        PROVE  /\ room'[c] <= Cap - count'
               /\ ptr'[c] = (tail' + room'[c] - 1) % Cap
               /\ tasks'[ptr'[c]] = got'[c]
    <3>1. CASE c = d
      <4>1. room'[d] <= Cap - count' BY <2>1, QueueAssumption
      <4>2. ptr'[d] = (tail' + room'[d] - 1) % Cap /\ tasks'[ptr'[d]] = got'[d]
        BY <2>1, <2>5, Zenon
      <4> QED BY <3>1, <4>1, <4>2, Zenon
    <3>2. CASE c # d
      <4>1. /\ room[c] <= Cap - count /\ ptr[c] = (tail + room[c] - 1) % Cap
            /\ tasks[ptr[c]] = got[c]
        BY <2>1, <2>6, <3>2 DEF RingInv
      <4>2. room'[c] <= Cap - count'
        BY <2>1, <3>2, <4>1, QueueAssumption DEF TypeOK
      <4> QED BY <2>1, <3>2, <4>1, <4>2
    <3> QED BY <3>1, <3>2
  <2> QED BY <2>4, <2>6 DEF RingInv
<1> QED BY <1>1, <1>2, <1>3
        DEF Next, ProducerStep, ConsumerStep, PushWait, PopWait, Use, SpuriousWakeup, vars

-----------------------------------------------------------------------------
\* Threads on their way back to the lock can be counted.
LEMMA WokenFinite ==
  /\ IsFiniteSet(Woken(Producers)) /\ Cardinality(Woken(Producers)) \in Nat
  /\ IsFiniteSet(Woken(Consumers)) /\ Cardinality(Woken(Consumers)) \in Nat
<1>1. /\ IsFiniteSet(Woken(Producers)) /\ IsFiniteSet(Woken(Consumers))
  <2>1. Woken(Producers) \in SUBSET Producers /\ Woken(Consumers) \in SUBSET Consumers
    BY DEF Woken
  <2> QED BY <2>1, FS_Subset, QueueAssumption
<1> QED BY <1>1, FS_CardinalityType

\* After t of one side signalled the other side S, which it does not belong to.
LEMMA SignalCount ==
  ASSUME TypeOK, NEW S, S = Consumers \/ S = Producers,
         NEW t \in Threads, t \notin S, NEW next \in {"call", "use"},
         GoOnAndSignal(t, next, S)
  PROVE  Waiting(S)' # {} => Cardinality(Woken(S)') = Cardinality(Woken(S)) + 1
<1>1. CASE Waiting(S) = {}
  <2>1. pc' = [pc EXCEPT ![t] = next] BY <1>1 DEF GoOnAndSignal
  <2>2. Waiting(S)' = {} BY <1>1, <2>1 DEF Waiting, Threads, TypeOK
  <2> QED BY <2>2
<1>2. CASE Waiting(S) # {}
  <2>1. PICK w \in Waiting(S) : pc' = [pc EXCEPT ![t] = next, ![w] = "woken"]
    BY <1>2 DEF GoOnAndSignal
  <2>2. w \in S /\ pc[w] = "wait" /\ w \in Threads /\ w # t
    BY <2>1 DEF Waiting, Threads
  <2>3. Woken(S)' = Woken(S) \cup {w}
    <3>1. pc'[w] = "woken" /\ \A u \in S : u # w => pc'[u] = pc[u]
      BY <2>1, <2>2 DEF TypeOK, Threads
    <3> QED BY <2>2, <3>1 DEF Woken
  <2>4. w \notin Woken(S) BY <2>2 DEF Woken
  <2>5. IsFiniteSet(Woken(S)) BY WokenFinite
  <2> QED BY <2>3, <2>4, <2>5, FS_AddElement
<1> QED BY <1>1, <1>2

\* And the side R that t belongs to: t is not on its way back any more.
LEMMA SignallerCount ==
  ASSUME TypeOK, NEW R, NEW S,
         (R = Producers /\ S = Consumers) \/ (R = Consumers /\ S = Producers),
         NEW t \in R, NEW next \in {"call", "use"}, WantsLock(t),
         GoOnAndSignal(t, next, S)
  PROVE  /\ Waiting(R)' = Waiting(R)
         /\ Cardinality(Woken(R)') >= Cardinality(Woken(R)) - 1
<1>1. R \subseteq Threads /\ S \subseteq Threads /\ R \cap S = {}
  BY QueueAssumption DEF Threads
<1>2. pc'[t] = next /\ \A u \in R : u # t => pc'[u] = pc[u]
  <2>1. CASE Waiting(S) = {} BY <1>1, <2>1 DEF GoOnAndSignal, TypeOK
  <2>2. CASE Waiting(S) # {}
    <3>1. PICK w \in Waiting(S) : pc' = [pc EXCEPT ![t] = next, ![w] = "woken"]
      BY <2>2 DEF GoOnAndSignal
    <3>2. w \notin R BY <1>1, <3>1 DEF Waiting
    <3> QED BY <1>1, <3>1, <3>2 DEF TypeOK
  <2> QED BY <2>1, <2>2
<1>3. Waiting(R)' = Waiting(R) BY <1>2 DEF Waiting, WantsLock
<1>4. Woken(R)' = Woken(R) \ {t} BY <1>2 DEF Woken
<1>5. IsFiniteSet(Woken(R)) /\ Cardinality(Woken(R)) \in Nat BY WokenFinite
<1>6. \/ Cardinality(Woken(R)') = Cardinality(Woken(R))
      \/ Cardinality(Woken(R)') = Cardinality(Woken(R)) - 1
  BY <1>4, <1>5, FS_RemoveElement
<1> QED BY <1>3, <1>5, <1>6

\* A step that only moves one thread out of waiting wakes nobody else.
LEMMA WakeupStep == TypeOK /\ NoLostWakeup /\ [Next]_vars => NoLostWakeup'
<1> SUFFICES ASSUME TypeOK, NoLostWakeup, [Next]_vars PROVE NoLostWakeup' OBVIOUS
<1> USE WokenFinite
<1>0. /\ count \in 0 .. Cap /\ Cap \in Nat
      /\ Producers \subseteq Threads /\ Consumers \subseteq Threads
      /\ Producers \cap Consumers = {}
      /\ pc \in [Threads -> {"call", "wait", "woken", "use"}]
  BY QueueAssumption DEF TypeOK, Threads
<1>1. ASSUME NEW p \in Producers, PushWait(p) PROVE NoLostWakeup'
  <2>1. count' = count /\ count = Cap BY <1>0, <1>1 DEF PushWait, Full
  <2>2. \A c \in Consumers : pc'[c] = pc[c] BY <1>0, <1>1 DEF PushWait
  <2>3. Waiting(Consumers)' = Waiting(Consumers) /\ Woken(Consumers)' = Woken(Consumers)
    BY <2>2 DEF Waiting, Woken
  <2>4. Cardinality(Woken(Producers)') \in Nat
    <3>1. Woken(Producers)' \in SUBSET Producers BY DEF Woken
    <3> QED BY <3>1, FS_Subset, FS_CardinalityType, QueueAssumption
  <2>5. Cap - count' <= Cardinality(Woken(Producers)')
    BY <1>0, <2>1, <2>4
  <2> QED BY <2>1, <2>3, <2>5 DEF NoLostWakeup
<1>2. ASSUME NEW p \in Producers, Push(p) PROVE NoLostWakeup'
  <2>1. /\ count' = count + 1 /\ WantsLock(p)
        /\ GoOnAndSignal(p, "call", Consumers)
    BY <1>2 DEF Push, SignalTaskAvailable
  <2>2. Waiting(Consumers)' # {} =>
           Cardinality(Woken(Consumers)') = Cardinality(Woken(Consumers)) + 1
    BY <1>0, <2>1, SignalCount
  <2>3. Waiting(Consumers)' # {} => Waiting(Consumers) # {}
    <3>1. CASE Waiting(Consumers) = {}
      <4>1. pc' = [pc EXCEPT ![p] = "call"] BY <2>1, <3>1 DEF GoOnAndSignal
      <4> QED BY <1>0, <3>1, <4>1 DEF Waiting
    <3> QED BY <3>1
  <2>4. /\ Waiting(Producers)' = Waiting(Producers)
        /\ Cardinality(Woken(Producers)') >= Cardinality(Woken(Producers)) - 1
    BY <2>1, SignallerCount
  <2>5. Cardinality(Woken(Producers)') \in Nat
    <3>1. Woken(Producers)' \in SUBSET Producers BY DEF Woken
    <3> QED BY <3>1, FS_Subset, FS_CardinalityType, QueueAssumption
  <2>6. Waiting(Consumers)' # {} => count' <= Cardinality(Woken(Consumers)')
    BY <1>0, <2>1, <2>2, <2>3 DEF NoLostWakeup
  <2>7. Waiting(Producers)' # {} => Cap - count' <= Cardinality(Woken(Producers)')
    BY <1>0, <2>1, <2>4, <2>5 DEF NoLostWakeup
  <2> QED BY <2>6, <2>7 DEF NoLostWakeup
<1>3. ASSUME NEW c \in Consumers, PopWait(c) PROVE NoLostWakeup'
  <2>1. count' = count /\ count = 0 BY <1>0, <1>3 DEF PopWait
  <2>2. \A p \in Producers : pc'[p] = pc[p] BY <1>0, <1>3 DEF PopWait
  <2>3. Waiting(Producers)' = Waiting(Producers) /\ Woken(Producers)' = Woken(Producers)
    BY <2>2 DEF Waiting, Woken
  <2>4. Cardinality(Woken(Consumers)') \in Nat
    <3>1. Woken(Consumers)' \in SUBSET Consumers BY DEF Woken
    <3> QED BY <3>1, FS_Subset, FS_CardinalityType, QueueAssumption
  <2>5. count' <= Cardinality(Woken(Consumers)') BY <2>1, <2>4
  <2> QED BY <2>1, <2>3, <2>5 DEF NoLostWakeup
<1>4. ASSUME NEW c \in Consumers, Pop(c) PROVE NoLostWakeup'
  <2>1. /\ count' = count - 1 /\ WantsLock(c)
        /\ GoOnAndSignal(c, "use", Producers)
    BY <1>4 DEF Pop, SignalNotFull
  <2>2. Waiting(Producers)' # {} =>
           Cardinality(Woken(Producers)') = Cardinality(Woken(Producers)) + 1
    BY <1>0, <2>1, SignalCount
  <2>3. Waiting(Producers)' # {} => Waiting(Producers) # {}
    <3>1. CASE Waiting(Producers) = {}
      <4>1. pc' = [pc EXCEPT ![c] = "use"] BY <2>1, <3>1 DEF GoOnAndSignal
      <4> QED BY <1>0, <3>1, <4>1 DEF Waiting
    <3> QED BY <3>1
  <2>4. /\ Waiting(Consumers)' = Waiting(Consumers)
        /\ Cardinality(Woken(Consumers)') >= Cardinality(Woken(Consumers)) - 1
    BY <2>1, SignallerCount
  <2>5. Cardinality(Woken(Consumers)') \in Nat
    <3>1. Woken(Consumers)' \in SUBSET Consumers BY DEF Woken
    <3> QED BY <3>1, FS_Subset, FS_CardinalityType, QueueAssumption
  <2>6. Waiting(Consumers)' # {} => count' <= Cardinality(Woken(Consumers)')
    BY <1>0, <2>1, <2>4, <2>5 DEF NoLostWakeup
  <2>7. Waiting(Producers)' # {} => Cap - count' <= Cardinality(Woken(Producers)')
    BY <1>0, <2>1, <2>2, <2>3 DEF NoLostWakeup
  <2> QED BY <2>6, <2>7 DEF NoLostWakeup
<1>5. ASSUME NEW c \in Consumers, Use(c) PROVE NoLostWakeup'
  <2>1. pc[c] = "use" /\ pc' = [pc EXCEPT ![c] = "call"] /\ count' = count
    BY <1>5 DEF Use
  <2>2. /\ Waiting(Consumers)' = Waiting(Consumers) /\ Woken(Consumers)' = Woken(Consumers)
        /\ Waiting(Producers)' = Waiting(Producers) /\ Woken(Producers)' = Woken(Producers)
    BY <1>0, <2>1 DEF Waiting, Woken
  <2> QED BY <2>1, <2>2 DEF NoLostWakeup
<1>6. ASSUME NEW t \in Threads, SpuriousWakeup(t) PROVE NoLostWakeup'
  <2>1. pc[t] = "wait" /\ pc' = [pc EXCEPT ![t] = "woken"] /\ count' = count
    BY <1>6 DEF SpuriousWakeup
  <2>2. ASSUME NEW S, S = Producers \/ S = Consumers
        PROVE  /\ Waiting(S)' # {} => Waiting(S) # {}
               /\ Cardinality(Woken(S)') >= Cardinality(Woken(S))
               /\ Cardinality(Woken(S)') \in Nat
    <3>1. \A u \in S : pc'[u] = IF u = t THEN "woken" ELSE pc[u] BY <1>0, <2>1, <2>2
    <3>2. Waiting(S)' \subseteq Waiting(S) BY <3>1 DEF Waiting
    <3>3. Woken(S) \in SUBSET (Woken(S)') BY <2>1, <3>1 DEF Woken
    <3>4. IsFiniteSet(Woken(S)')
      <4>1. Woken(S)' \in SUBSET S BY DEF Woken
      <4> QED BY <2>2, <4>1, FS_Subset, QueueAssumption
    <3>5. Cardinality(Woken(S)) <= Cardinality(Woken(S)') BY <3>3, <3>4, FS_Subset
    <3>6. Cardinality(Woken(S)') \in Nat BY <3>4, FS_CardinalityType
    <3> QED BY <2>2, <3>2, <3>5, <3>6
  <2>3. Waiting(Consumers)' # {} => count' <= Cardinality(Woken(Consumers)')
    BY <1>0, <2>1, <2>2 DEF NoLostWakeup
  <2>4. Waiting(Producers)' # {} => Cap - count' <= Cardinality(Woken(Producers)')
    BY <1>0, <2>1, <2>2 DEF NoLostWakeup
  <2> QED BY <2>3, <2>4 DEF NoLostWakeup
<1>7. CASE UNCHANGED vars BY <1>7 DEF vars, NoLostWakeup, Waiting, Woken
<1> QED BY <1>1, <1>2, <1>3, <1>4, <1>5, <1>6, <1>7
        DEF Next, ProducerStep, ConsumerStep
-----------------------------------------------------------------------------
\* Counting on from a slot, never more than once round, ends at a slot.
LEMMA RingSlot ==
  ASSUME NEW h \in Slots, NEW i \in 1 .. Cap
  PROVE  (h + i - 1) % Cap \in Slots
<1>1. h \in 0 .. Cap - 1 BY DEF Slots
<1>2. h + i - 1 \in Nat /\ h + i - 1 < 2 * Cap BY <1>1, QueueAssumption
<1> QED BY <1>1, <1>2, OnceRound, QueueAssumption DEF Slots, Around

\* A stretch of n slots from h on, as a sequence.
LEMMA Stretch ==
  ASSUME NEW T, NEW ts \in [Slots -> T], NEW h \in Slots, NEW n \in 0 .. Cap,
         NEW q, q = [i \in 1 .. n |-> q[i]],
         \A i \in 1 .. n : q[i] = ts[(h + i - 1) % Cap]
  PROVE  q \in Seq(T) /\ Len(q) = n
<1>1. n \in Nat /\ n <= Cap BY QueueAssumption
<1>2. ASSUME NEW i \in 1 .. n PROVE (h + i - 1) % Cap \in Slots
  <2>1. i \in 1 .. Cap BY <1>1, QueueAssumption
  <2> QED BY <2>1, RingSlot
<1>3. \A i \in 1 .. n : ts[(h + i - 1) % Cap] \in T BY <1>2
<1> QED BY <1>1, <1>3

\* Pushing appends to the contents, popping takes their head, and nothing else
\* touches them.
LEMMA FifoStep ==
  TypeOK /\ TypeOK' /\ RingInv /\ [Next]_vars => [Fifo!Next]_<<Contents, got>>
<1> SUFFICES ASSUME TypeOK, TypeOK', RingInv, [Next]_vars
             PROVE  Fifo!Next \/ UNCHANGED <<Contents, got>>
  OBVIOUS
<1> DEFINE T == Tasks \cup {NoTask}
<1>a. /\ count \in Nat /\ count <= Cap /\ head \in 0 .. Cap - 1
      /\ Cap \in Nat /\ Cap >= 1
  BY QueueAssumption DEF TypeOK, Slots
<1>0. /\ count \in Nat /\ count <= Cap /\ head \in 0 .. Cap - 1
      /\ Cap \in Nat /\ Cap >= 1
      /\ Contents \in Seq(T) /\ Len(Contents) = count
      /\ \A i \in 1 .. count : Contents[i] = tasks[(head + i - 1) % Cap]
      /\ Contents' \in Seq(T) /\ Len(Contents') = count'
      /\ \A i \in 1 .. count' : Contents'[i] = tasks'[(head' + i - 1) % Cap]
  <2>1. tasks \in [Slots -> T] /\ head \in Slots /\ count \in 0 .. Cap
    BY DEF TypeOK
  <2> HIDE DEF T
  <2>2. /\ Contents \in Seq(T) /\ Len(Contents) = count
        /\ \A i \in 1 .. count : Contents[i] = tasks[(head + i - 1) % Cap]
    <3>1. /\ Contents = [i \in 1 .. count |-> Contents[i]]
          /\ \A i \in 1 .. count : Contents[i] = tasks[(head + i - 1) % Cap]
      BY DEF Contents
    <3> QED BY <2>1, <3>1, Stretch
  <2>4. tasks' \in [Slots -> T] /\ head' \in Slots /\ count' \in 0 .. Cap
    BY DEF TypeOK, T
  <2>3. /\ Contents' \in Seq(T) /\ Len(Contents') = count'
        /\ \A i \in 1 .. count' : Contents'[i] = tasks'[(head' + i - 1) % Cap]
    <3>1. /\ Contents' = [i \in 1 .. count' |-> Contents'[i]]
          /\ \A i \in 1 .. count' : Contents'[i] = tasks'[(head' + i - 1) % Cap]
      BY DEF Contents
    <3> QED BY <2>4, <3>1, Stretch
  <2> QED BY <1>a, <2>2, <2>3
<1> HIDE DEF T
<1>1. ASSUME UNCHANGED <<tasks, head, tail, count, ptr, got, room>>
      PROVE  UNCHANGED <<Contents, got>>
  BY <1>1 DEF Contents
<1>2. ASSUME NEW p \in Producers, Push(p) PROVE Fifo!Next
  <2>1. PICK x \in Tasks : tasks' = [tasks EXCEPT ![tail] = x] BY <1>2 DEF Push
  <2>2. /\ head' = head /\ count' = count + 1 /\ count < Cap /\ got' = got
        /\ tail \in Slots /\ tail = (head + count) % Cap
    BY <1>0, <1>2 DEF Push, Full, TypeOK, RingInv
  <2>3. /\ Append(Contents, x) \in Seq(T) /\ Len(Append(Contents, x)) = count + 1
        /\ \A i \in 1 .. count : Append(Contents, x)[i] = Contents[i]
        /\ Append(Contents, x)[count + 1] = x
    <3>1. x \in T BY DEF T
    <3> QED BY <1>0, <3>1, AppendProperties
  <2>4. ASSUME NEW i \in 1 .. count + 1 PROVE Contents'[i] = Append(Contents, x)[i]
    <3>1. Contents'[i] = tasks'[(head + i - 1) % Cap] BY <1>0, <2>2, <2>4
    <3>2. CASE i = count + 1
      <4>1. head + i - 1 = head + count BY <1>0, <3>2
      <4> QED BY <2>1, <2>2, <2>3, <3>1, <3>2, <4>1 DEF TypeOK
    <3>3. CASE i # count + 1
      <4>1. i \in 1 .. count BY <1>0, <2>4, <3>3
      <4>2. /\ head + i - 1 \in Nat /\ head + i - 1 < 2 * Cap
            /\ head + count \in Nat /\ head + count < 2 * Cap
        BY <1>0, <2>2, <4>1
      <4>3. /\ (head + i - 1) % Cap = Around(head + i - 1)
            /\ (head + count) % Cap = Around(head + count)
        BY <4>2, OnceRound, Zenon
      <4>4. (head + i - 1) % Cap # tail /\ (head + i - 1) % Cap \in Slots
        <5>1. i - 1 < count /\ i - 1 >= 0 /\ i - 1 \in Int BY <1>0, <4>1
        <5> QED BY <1>a, <2>2, <4>3, <5>1 DEF Slots, Around
      <4>5. tasks'[(head + i - 1) % Cap] = tasks[(head + i - 1) % Cap]
        BY <2>1, <4>4 DEF TypeOK
      <4> QED BY <1>0, <2>3, <3>1, <4>1, <4>5
    <3> QED BY <3>2, <3>3
  <2>5. Contents' = Append(Contents, x)
    BY <1>0, <2>2, <2>3, <2>4, SeqEqual
  <2>6. Fifo!Put BY <1>0, <2>2, <2>5 DEF Fifo!Put
  <2> QED BY <2>6 DEF Fifo!Next
<1>3. ASSUME NEW c \in Consumers, Pop(c) PROVE Fifo!Next
  <2>1. /\ tasks' = tasks /\ count' = count - 1 /\ count > 0
        /\ head' = (head + 1) % Cap /\ got' = [got EXCEPT ![c] = tasks[head]]
    BY <1>0, <1>3 DEF Pop
  <2>2. Contents # <<>> BY <1>0, <2>1
  <2>3. Head(Contents) = tasks[head]
    <3>1. Head(Contents) = Contents[1] BY <1>0, <2>2
    <3>2. (head + 1 - 1) % Cap = head
      <4>1. head + 1 - 1 = head /\ head \in Nat /\ head < 2 * Cap /\ head < Cap BY <1>0
      <4> QED BY <1>0, <4>1, OnceRound DEF Around
    <3> QED BY <1>0, <2>1, <3>1, <3>2
  <2>4. /\ Tail(Contents) \in Seq(T) /\ Len(Tail(Contents)) = count - 1
        /\ \A i \in 1 .. count - 1 : Tail(Contents)[i] = Contents[i + 1]
    BY <1>0, <2>2, HeadTailProperties
  <2>5. ASSUME NEW i \in 1 .. count - 1 PROVE Contents'[i] = Tail(Contents)[i]
    <3>1. Contents'[i] = tasks[(head' + i - 1) % Cap] BY <1>0, <2>1, <2>5
    <3>2. Tail(Contents)[i] = tasks[(head + (i + 1) - 1) % Cap]
      BY <1>0, <2>1, <2>4, <2>5
    <3>3. head' = IF head + 1 < Cap THEN head + 1 ELSE 0
      <4>1. head + 1 \in Nat /\ head + 1 < 2 * Cap BY <1>0
      <4>2. (head + 1) % Cap = Around(head + 1)
        BY <4>1, OnceRound, Zenon
      <4> QED BY <1>0, <2>1, <4>2 DEF Around
    <3>4. head' + i - 1 \in Nat /\ head' + i - 1 < 2 * Cap
      BY <1>0, <2>5, <3>3
    <3>5. head + (i + 1) - 1 \in Nat /\ head + (i + 1) - 1 < 2 * Cap
      BY <1>0, <2>5
    <3>6. (head' + i - 1) % Cap = Around(head' + i - 1)
      BY <3>4, OnceRound, Zenon
    <3>7. (head + (i + 1) - 1) % Cap = Around(head + (i + 1) - 1)
      BY <3>5, OnceRound, Zenon
    <3>8. (head' + i - 1) % Cap = (head + (i + 1) - 1) % Cap
      BY <1>0, <2>5, <3>3, <3>6, <3>7 DEF Around
    <3> QED BY <3>1, <3>2, <3>8
  <2>6. Contents' = Tail(Contents)
    BY <1>0, <2>1, <2>4, <2>5, SeqEqual
  <2>7. Fifo!Get(c) BY <2>1, <2>2, <2>3, <2>6 DEF Fifo!Get
  <2> QED BY <2>7 DEF Fifo!Next
<1> QED BY <1>1, <1>2, <1>3
        DEF Next, ProducerStep, ConsumerStep, PushWait, PopWait, Use, SpuriousWakeup, vars

LEMMA FifoInit == Init => Fifo!Init
<1> SUFFICES ASSUME Init PROVE Fifo!Init OBVIOUS
<1>1. Contents \in Seq(Tasks \cup {NoTask}) /\ Len(Contents) = 0
  BY QueueAssumption DEF Contents, Init
<1>2. Contents = <<>> BY <1>1, EmptySeq
<1> QED BY <1>2 DEF Init, Fifo!Init

LEMMA InvHolds == Spec => [](TypeOK /\ RingInv /\ NoLostWakeup)
<1>1. Init => TypeOK /\ RingInv /\ NoLostWakeup
  <2> SUFFICES ASSUME Init PROVE RingInv /\ NoLostWakeup BY TypeInit
  <2>1. RingInv
    <3>1. 0 % Cap = 0 BY OnceRound, QueueAssumption
    <3> QED BY <3>1 DEF Init, RingInv
  <2>2. Waiting(Consumers) = {} /\ Waiting(Producers) = {}
    BY DEF Init, Waiting, Threads
  <2> QED BY <2>1, <2>2 DEF NoLostWakeup
<1>2. TypeOK /\ RingInv /\ NoLostWakeup /\ [Next]_vars
         => (TypeOK /\ RingInv /\ NoLostWakeup)'
  BY TypeStep, RingStep, WakeupStep
<1> QED BY <1>1, <1>2, PTL DEF Spec

-----------------------------------------------------------------------------
\* The indexes stay in the ring and the count within its size: memcpy never
\* writes beyond tasks[MAX_PENDING_TASKS].
THEOREM QueueTypeCorrect == Spec => []TypeOK
BY InvHolds, PTL

\* No wake-up is lost, however many threads wait on either condition variable
\* and whatever wakes up by itself: signalling one thread per operation is
\* enough.
THEOREM NoWakeupIsLost == Spec => []NoLostWakeup
BY InvHolds, PTL

\* A popped task stays in its slot until as many tasks were pushed as the ring
\* had free slots when pop returned.
THEOREM PoppedTaskSurvives == Spec => []PoppedTaskIsKept
<1>1. RingInv => PoppedTaskIsKept BY DEF RingInv, PoppedTaskIsKept
<1> QED BY <1>1, InvHolds, PTL

\* task_queue_push and task_queue_pop implement a bounded first-in first-out
\* queue: tasks come out in the order they went in, each of them once.
THEOREM QueueIsFifo == Spec => ImplementsFifo
<1>1. Init => Fifo!Init BY FifoInit
<1>2. TypeOK /\ TypeOK' /\ RingInv /\ [Next]_vars => [Fifo!Next]_<<Contents, got>>
  BY FifoStep
<1> QED BY <1>1, <1>2, InvHolds, PTL DEF Spec, ImplementsFifo, Fifo!Spec
=============================================================================
