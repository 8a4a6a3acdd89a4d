-------------------------- MODULE TileDispatchInv ---------------------------
(***************************************************************************)
(* Why a task is executed once and why the wait can be trusted after a     *)
(* clean reset: the inductive invariant of TileDispatch.  TLC checks it    *)
(* (MCTileDispatch) and TileDispatchProofs proves it.                      *)
(***************************************************************************)
EXTENDS TileDispatch

\* C0 works on a test of which it holds a slot.
C0Ptr ==
    /\ mpc \in {"reserve", "memset", "fill", "assign", "account", "copy"}
          => mi \in Tests
    /\ mpc = "nocreate" => mi \in HalTests
    /\ mpc \in {"memset", "fill", "assign", "account", "copy"}
          => ptr[mi] \in Slots
    /\ mpc \in {"reserve", "memset", "fill"} /\ mi \in ParTests
          => \A k \in ParTests : k < mi => ptr[k] \in Slots
    /\ mpc \in {"assign", "account", "copy"} /\ mi \in ParTests
          => \A k \in ParTests : ptr[k] \in Slots

\* A tile that works on a task holds a slot.
TilePtr ==
    \A t \in Tiles : tpc[t] \in HoldsTask => task[t] \in Slots

TypeInv == TypeOK /\ C0Ptr /\ TilePtr

\* A tile in the session owns its lock.
SessionInv == \A t \in Tiles : tpc[t] \in InSession => session = t

-----------------------------------------------------------------------------
\* What follows holds while stale = {}.

Holding(t) == tpc[t] \in HoldsTask
TestOf(t) == slots[task[t]].test

\* A task that was filled in and that nobody took yet.
Available(s) == slots[s].test # NoTest /\ ~slots[s].taken

\* C0 creates or queues the test mi.
Handling == {"reserve", "memset", "fill", "assign", "account", "copy"}

\* The table was reset and holds HAL tests.
HalPhase ==
    \/ mpc \in {"halprint", "nocreate", "waitprint", "wait", "report", "stop",
                "join"}
    \/ mpc \in Handling /\ mi \in HalTests

\* C0 has not created test k yet.
Future(k) ==
    \/ mpc \in {"create", "waitinit", "fallback", "supervise", "c0tests"}
    \/ /\ k \in HalTests
       /\ \/ mpc \in {"parwait", "reset", "resetctr", "halprint"}
          \/ mpc \in Handling /\ mi \in ParTests
    \/ /\ mpc \in {"reserve", "memset", "fill", "nocreate"}
       /\ k >= mi /\ (k \in ParTests <=> mi \in ParTests)
    \/ /\ mpc \in {"assign", "account", "copy"} /\ mi \in HalTests
       /\ k \in HalTests /\ k > mi

\* C0 has created test k and has not assigned it to a tile yet.
Queueable(k) ==
    \/ mpc = "assign" /\ k = mi
    \/ mpc \in {"assign", "account", "copy"} /\ {k, mi} \subseteq ParTests /\ k > mi
    \/ mpc \in {"reserve", "memset", "fill"} /\ {k, mi} \subseteq ParTests /\ k < mi

\* Slots beyond the count are zero, and so is the slot C0 is about to fill.
TableInv ==
    /\ \A s \in Slots : s >= count => slots[s] = ZeroTask
    /\ mpc \in {"memset", "fill"} =>
          ptr[mi] < count /\ slots[ptr[mi]] = ZeroTask
    /\ \A s \in Slots :
          /\ slots[s].id > 0 => slots[s].test # NoTest
          /\ slots[s].test # NoTest => slots[s].kind = "HAL_TEST"
    /\ mpc = "resetctr" =>
          (\A s \in Slots : slots[s] = ZeroTask) /\ \A t \in Tiles : ~Holding(t)
    /\ HalPhase => \A s \in Slots : slots[s].test \in HalTests \cup {NoTest}

\* Tiles hold different tests, each of them taken, and have called the
\* function of their test once or not at all, as far as they have come.
HolderInv ==
    \A t \in Tiles : Holding(t) =>
      /\ slots[task[t]].taken /\ TestOf(t) \in Tests
      /\ \A u \in Tiles : Holding(u) /\ TestOf(u) = TestOf(t) => u = t
      /\ tpc[t] \in {"type", "stats", "lock", "call"} => execs[TestOf(t)] = 0
      /\ tpc[t] \notin {"type", "stats", "lock", "call"} => func[t] = TestOf(t)
      /\ tpc[t] \in {"unlock", "irq", "complete", "state", "count"}
            => TestOf(t) \in stored
      /\ TestOf(t) \notin finished

\* A test is available in one slot at most, and then nobody holds it, has
\* called it or has counted it.
AvailableInv ==
    \A s \in Slots : Available(s) =>
      /\ \A r \in Slots : Available(r) /\ slots[r].test = slots[s].test => r = s
      /\ \A t \in Tiles : Holding(t) => TestOf(t) # slots[s].test
      /\ execs[slots[s].test] = 0 /\ slots[s].test \notin finished

\* Nothing is known of a test that was not created.
FutureInv ==
    \A k \in Tests : Future(k) =>
      /\ \A s \in Slots : slots[s].test # k
      /\ execs[k] = 0 /\ k \notin finished

\* C0's task_t* still points to the task it filled in.
QueueInv ==
    /\ \A k \in Tests : Queueable(k) =>
          /\ ptr[k] \in Slots /\ ptr[k] < count
          /\ slots[ptr[k]].test = k /\ slots[ptr[k]].assigned = Unassigned
          /\ ~slots[ptr[k]].taken
    /\ mpc \in {"account", "copy"} =>
          ptr[mi] < count /\ slots[ptr[mi]].test = mi

\* completed_tasks counts the tests that finished since the reset.
CountInv ==
    /\ finished \subseteq stored
    /\ IsFiniteSet(finished) /\ completed = Cardinality(finished)
    /\ HalPhase => finished \subseteq HalTests
    /\ mpc \in AfterWait => HalTests \subseteq finished

\* No test function was called twice.
OnceInv == \A k \in Tests : execs[k] <= 1

Clean ==
    /\ TableInv /\ HolderInv /\ AvailableInv /\ FutureInv /\ QueueInv
    /\ CountInv /\ OnceInv

\* C0 resets the table once, so `stale' is empty until it has.
BeforeReset ==
    \/ mpc \in {"create", "waitinit", "fallback", "supervise", "c0tests",
                "parwait", "reset"}
    \/ mpc \in Handling /\ mi \in ParTests

CleanInv ==
    /\ BeforeReset => stale = {}
    /\ stale = {} => Clean

-----------------------------------------------------------------------------
\* The account of active_tasks: what it needs beyond Clean while stale = {}.

\* Test k was filled in after the reset: its slot keeps it.
Created(k) == \E s \in Slots : slots[s].test = k

\* The tests C0 added to active_tasks.  A tile can have finished the one C0
\* has assigned and not accounted for yet: active_tasks is then one too low.
Accounted ==
    {k \in HalTests : Created(k) /\ ~(mpc \in {"assign", "account"} /\ k = mi)}

\* In the HAL phase active_tasks is the number of tests accounted for less
\* the number of tests that finished.
AccountInv ==
    stale = {} /\ HalPhase =>
        /\ \A k \in finished : Created(k)
        /\ active = Cardinality(Accounted) - Cardinality(finished)

-----------------------------------------------------------------------------
(***************************************************************************)
(* How the tile threads start, work and stop, after any reset.             *)
(***************************************************************************)

\* Before C0 creates its first task.
Early == {"create", "waitinit", "fallback", "supervise", "c0tests"}

\* C0 stops the tiles, or has.
Stopping == mpc \in {"stop", "join", "done"} /\ ~startFailed

\* C0 goes on only when every thread it created is past its initialization.
StartInv ==
    /\ startFailed => mpc \in {"fallback", "done"}
    /\ mpc = "fallback" => startFailed
    /\ mpc \in {"create", "waitinit", "stop", "join"} => mi >= 1
    /\ mpc = "create" => \A t \in Tiles : t >= mi => tpc[t] = "new"
    /\ mpc = "waitinit" => \A t \in Tiles : t < mi => initialized[t]
    /\ mpc \notin {"create", "waitinit", "fallback"} /\ ~startFailed
          => \A t \in Tiles : initialized[t]
    /\ \A t \in Tiles : initialized[t] => tpc[t] \notin {"new", "init"}

\* A tile runs from its initialization until C0 stops it, at a time when the
\* interrupts are disabled; C0 goes on only when it has ended.
StopInv ==
    /\ \A t \in Tiles : tpc[t] \notin {"new", "init"} /\ ~Stopping => running[t]
    /\ mpc = "stop" => \A t \in Tiles : t < mi => ~running[t]
    /\ mpc \in {"join", "done"} /\ ~startFailed => \A t \in Tiles : ~running[t]
    /\ \A t \in Tiles : tpc[t] \in {"bye", "exit"} => ~running[t]
    /\ Stopping => ~plicEnabled
    /\ mpc = "join" => \A t \in Tiles : t < mi => tpc[t] = "exit"
    /\ mpc = "done" /\ ~startFailed => \A t \in Tiles : tpc[t] = "exit"

\* A tile raises its interrupt before it counts its task, and not before C0's
\* last claim.
WorkInv ==
    /\ mpc \in Early =>
          \A t \in Tiles : tasksCompleted[t] = 0 /\ tpc[t] \notin HoldsTask \cup {"post"}
    /\ \A t \in Tiles :
          /\ tpc[t] \in {"new", "init"} => tasksCompleted[t] = 0
          /\ tpc[t] \in {"complete", "state", "count", "post"} => t \in pending
          /\ tpc[t] \notin {"complete", "state"}
                => (t \in pending <=> tasksCompleted[t] > 0)

LifeInv == StartInv /\ StopInv /\ WorkInv
=============================================================================
