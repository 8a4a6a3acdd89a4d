----------------------------- MODULE TaskQueue ------------------------------
(***************************************************************************)
(* The blocking ring of tasks of c0_master/c0_controller.c: task_queue_push*)
(* and task_queue_pop with one lock and two condition variables.  The      *)
(* repository initialises and destroys the queue and calls neither push    *)
(* nor pop, so its clients are any threads that call one of them again and *)
(* again.  One step is what a thread does while it holds queue_lock.       *)
(***************************************************************************)
EXTENDS Integers, FiniteSets

CONSTANTS
    Producers, Consumers,   \* threads that push, threads that pop
    Tasks,                  \* what a task_t can hold
    NoTask,                 \* a slot of the cleared array
    Cap                     \* MAX_PENDING_TASKS (64)

ASSUME QueueAssumption ==
    /\ Cap \in Nat /\ Cap >= 1
    /\ IsFiniteSet(Producers) /\ IsFiniteSet(Consumers)
    /\ Producers \cap Consumers = {}
    /\ NoTask \notin Tasks

Threads == Producers \cup Consumers
Slots == 0 .. Cap - 1
NoSlot == -1            \* a NULL task_t*

VARIABLES
    tasks, head, tail, count,   \* task_queue_t
    pc,     \* "call": wants queue_lock; "wait": in pthread_cond_wait;
            \* "woken": back from it, wants queue_lock; "use": has its task_t*
    ptr,    \* the task_t* pop returned
    got,    \* history: the task that was in that slot then
    room    \* history: pushes until the ring comes back to that slot

vars == <<tasks, head, tail, count, pc, ptr, got, room>>

\* task_queue_init
Init ==
    /\ tasks = [s \in Slots |-> NoTask]
    /\ head = 0 /\ tail = 0 /\ count = 0
    /\ pc = [t \in Threads |-> "call"]
    /\ ptr = [c \in Consumers |-> NoSlot]
    /\ got = [c \in Consumers |-> NoTask]
    /\ room = [c \in Consumers |-> 0]

Waiting(S) == {t \in S : pc[t] = "wait"}
Woken(S) == {t \in S : pc[t] = "woken"}

\* pthread_cond_signal for the threads of S, by t, which goes on: one thread
\* that waits, if there is one.
GoOnAndSignal(t, next, S) ==
    IF Waiting(S) = {}
    THEN pc' = [pc EXCEPT ![t] = next]
    ELSE \E w \in Waiting(S) : pc' = [pc EXCEPT ![t] = next, ![w] = "woken"]

WantsLock(t) == pc[t] \in {"call", "woken"}

\* Mutant: one task too many.
FullLate == count > Cap
Full == count >= Cap

\* Mutant: the signal is sent only to a queue that was empty.
SignalIfWasEmpty(p) ==
    IF count = 0 THEN GoOnAndSignal(p, "call", Consumers)
                 ELSE pc' = [pc EXCEPT ![p] = "call"]
SignalTaskAvailable(p) == GoOnAndSignal(p, "call", Consumers)

\* Mutant: pop does not say that a slot is free.
SignalNobody(c) == pc' = [pc EXCEPT ![c] = "use"]
SignalNotFull(c) == GoOnAndSignal(c, "use", Producers)

\* task_queue_push finds the queue full.
PushWait(p) ==
    /\ WantsLock(p) /\ Full
    /\ pc' = [pc EXCEPT ![p] = "wait"]
    /\ UNCHANGED <<tasks, head, tail, count, ptr, got, room>>

\* Mutant: the tail advances before the task is copied.
PushAhead(p) ==
    /\ WantsLock(p) /\ ~Full
    /\ \E x \in Tasks : tasks' = [tasks EXCEPT ![(tail + 1) % Cap] = x]
    /\ tail' = (tail + 1) % Cap
    /\ count' = count + 1
    /\ SignalTaskAvailable(p)
    /\ room' = [c \in Consumers |-> IF room[c] > 0 THEN room[c] - 1 ELSE 0]
    /\ UNCHANGED <<head, ptr, got>>

\* task_queue_push copies its task to the tail.
Push(p) ==
    /\ WantsLock(p) /\ ~Full
    /\ \E x \in Tasks : tasks' = [tasks EXCEPT ![tail] = x]
    /\ tail' = (tail + 1) % Cap
    /\ count' = count + 1
    /\ SignalTaskAvailable(p)
    /\ room' = [c \in Consumers |-> IF room[c] > 0 THEN room[c] - 1 ELSE 0]
    /\ UNCHANGED <<head, ptr, got>>

\* task_queue_pop finds the queue empty.
PopWait(c) ==
    /\ WantsLock(c) /\ count = 0
    /\ pc' = [pc EXCEPT ![c] = "wait"]
    /\ UNCHANGED <<tasks, head, tail, count, ptr, got, room>>

\* Mutant: the head stays where it is.
PopInPlace(c) ==
    /\ WantsLock(c) /\ count # 0
    /\ ptr' = [ptr EXCEPT ![c] = head]
    /\ got' = [got EXCEPT ![c] = tasks[head]]
    /\ room' = [room EXCEPT ![c] = Cap - (count - 1)]
    /\ count' = count - 1
    /\ SignalNotFull(c)
    /\ UNCHANGED <<tasks, head, tail>>

\* task_queue_pop returns the address of the slot at the head.
Pop(c) ==
    /\ WantsLock(c) /\ count # 0
    /\ ptr' = [ptr EXCEPT ![c] = head]
    /\ got' = [got EXCEPT ![c] = tasks[head]]
    /\ room' = [room EXCEPT ![c] = Cap - (count - 1)]
    /\ head' = (head + 1) % Cap
    /\ count' = count - 1
    /\ SignalNotFull(c)
    /\ UNCHANGED <<tasks, tail>>

\* The caller of pop is through with the task and calls again.
Use(c) ==
    /\ pc[c] = "use"
    /\ pc' = [pc EXCEPT ![c] = "call"]
    /\ UNCHANGED <<tasks, head, tail, count, ptr, got, room>>

\* pthread_cond_wait may return without a signal.
SpuriousWakeup(t) ==
    /\ pc[t] = "wait"
    /\ pc' = [pc EXCEPT ![t] = "woken"]
    /\ UNCHANGED <<tasks, head, tail, count, ptr, got, room>>

ProducerStep(p) == PushWait(p) \/ Push(p)
ConsumerStep(c) == PopWait(c) \/ Pop(c) \/ Use(c)

Next ==
    \/ \E p \in Producers : ProducerStep(p)
    \/ \E c \in Consumers : ConsumerStep(c)
    \/ \E t \in Threads : SpuriousWakeup(t)

Spec == Init /\ [][Next]_vars

\* A thread that can take the lock is scheduled.  Nothing is assumed of
\* wake-ups without a signal.
Fairness ==
    /\ \A p \in Producers : WF_vars(ProducerStep(p))
    /\ \A c \in Consumers : WF_vars(ConsumerStep(c))

FairSpec == Spec /\ Fairness

-----------------------------------------------------------------------------
TypeOK ==
    /\ tasks \in [Slots -> Tasks \cup {NoTask}]
    /\ head \in Slots /\ tail \in Slots /\ count \in 0 .. Cap
    /\ pc \in [Threads -> {"call", "wait", "woken", "use"}]
    /\ ptr \in [Consumers -> Slots \cup {NoSlot}]
    /\ got \in [Consumers -> Tasks \cup {NoTask}]
    /\ room \in [Consumers -> 0 .. Cap]

\* No wake-up is lost: while a consumer waits there are at most as many tasks
\* as consumers on their way back to the lock, and while a producer waits at
\* most as many free slots as producers on theirs.
NoLostWakeup ==
    /\ Waiting(Consumers) # {} => count <= Cardinality(Woken(Consumers))
    /\ Waiting(Producers) # {} => Cap - count <= Cardinality(Woken(Producers))

\* The task_t* that pop returns points into the ring.  The task stays there
\* until as many tasks were pushed as the ring had free slots.
PoppedTaskIsKept ==
    \A c \in Consumers : room[c] > 0 => tasks[ptr[c]] = got[c]

\* The tasks in the ring, oldest first.
Contents == [i \in 1 .. count |-> tasks[(head + i - 1) % Cap]]

Fifo == INSTANCE BoundedFifo WITH
            Items <- Tasks, Capacity <- Cap, None <- NoTask, queue <- Contents

\* The ring is a bounded first-in first-out queue.
ImplementsFifo == Fifo!Spec

\* Threads that keep calling never block each other for good: tasks go on
\* being popped.
TasksKeepFlowing == []<><<\E c \in Consumers : Pop(c)>>_vars

=============================================================================
