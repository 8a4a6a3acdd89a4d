---------------------------- MODULE TileDispatch ----------------------------
(***************************************************************************)
(* How C0 hands HAL tests to the tile processors (c0_master/c0_controller  *)
(* .c with hal_tests/parallel_noc_tests.c).  C0 is the main thread; every  *)
(* other tile of the mesh is a POSIX thread that polls a shared table of   *)
(* tasks.  One step is one critical section, or one access to the table    *)
(* made outside of its lock.                                               *)
(*                                                                         *)
(* C0's calls:   start threads, its own tests, parallel phase (two tasks,  *)
(*               a timed wait), reset, HAL phase (create and queue each    *)
(*               test, wait), report, stop and join; when a thread does    *)
(*               not start, every test in its own thread.                  *)
(* A tile's:     take, execute inside the print session, raise an          *)
(*               interrupt, complete, look at `running'.                   *)
(***************************************************************************)
EXTENDS Integers, FiniteSets

CONSTANTS
    NodeCount,      \* mesh_platform_t.node_count (8): tile 0 is C0
    NTests,         \* entries of hal_tests[] (16)
    NPar,           \* tasks of test_parallel_c0_access (2)
    Cap,            \* MAX_PENDING_TASKS (64)
    MaxWaitCycles   \* max_wait_cycles (300)

ASSUME ConstantsAssumption ==
    /\ NodeCount \in Nat /\ NodeCount >= 2
    /\ NTests \in Nat /\ NTests >= 1
    /\ NPar \in Nat
    /\ Cap \in Nat /\ Cap >= 1
    /\ MaxWaitCycles \in Nat

Tiles == 1 .. NodeCount - 1
Slots == 0 .. Cap - 1
HalTests == 1 .. NTests
ParTests == NTests + 1 .. NTests + NPar
Tests == HalTests \cup ParTests

NoTest == 0         \* a NULL test_func or result_ptr
NoSlot == -1        \* a NULL task_t*
Free == -1          \* nobody owns print_session_lock
Invalid == -999     \* assigned_tile of a task that was taken
Unassigned == -1    \* assigned_tile of a task not queued yet

\* A task_t.  `test' stands for params.hal_test: the test, its name and the
\* variable its result goes to.
Task == [id : Nat, assigned : Tiles \cup {0, Unassigned, Invalid},
         completed : BOOLEAN, taken : BOOLEAN,
         kind : {"MEMORY_COPY", "HAL_TEST"}, test : Tests \cup {NoTest}]

\* What memset(.., 0, ..) leaves: task type 0 is TASK_TYPE_MEMORY_COPY.
ZeroTask == [id |-> 0, assigned |-> 0, completed |-> FALSE, taken |-> FALSE,
             kind |-> "MEMORY_COPY", test |-> NoTest]

VARIABLES
    \* C0, the main thread
    mpc,            \* where C0 is
    mi,             \* its loop index: a tile or a test
    ptr,            \* test -> the task_t* create_hal_test_task returned
    nextTile,       \* static next_tile of queue_task_to_available_tile
    nextId,         \* platform next_task_id
    waitCycles,     \* wait_cycles of test_parallel_c0_access
    startFailed,    \* pthread_create failed
    \* shared
    slots,          \* hal_task_storage
    count,          \* hal_task_storage_count
    active,         \* platform active_tasks
    completed,      \* platform completed_tasks
    plicEnabled,    \* platform plic_enabled
    session,        \* owner of print_session_lock
    result,         \* test -> whether its result variable is non-zero
    pending,        \* tiles whose interrupt to C0 is pending in the PLIC
    \* the tile threads
    tpc,            \* where each tile is
    task,           \* the task_t* it works on
    func,           \* the test_func it called
    running, initialized, tasksCompleted,
    \* history
    execs,          \* test -> how many times its function was called
    stored,         \* tests whose result was stored
    finished,       \* tests counted in completed_tasks since the last reset
    stale           \* tiles that held a task_t* when the table was reset

c0Vars == <<mpc, mi, ptr, nextTile, nextId, waitCycles, startFailed>>
tableVars == <<slots, count>>
counterVars == <<active, completed>>
tileVars == <<tpc, task, func, running, initialized, tasksCompleted>>
outVars == <<session, result, pending, plicEnabled>>
history == <<execs, stored, finished, stale>>
vars == <<c0Vars, tableVars, counterVars, tileVars, outVars, history>>

C0States == {"create", "waitinit", "fallback", "supervise", "c0tests",
             "reserve", "memset", "fill", "assign", "account", "copy",
             "parwait", "reset", "resetctr", "halprint", "nocreate",
             "waitprint", "wait", "report", "stop", "join", "done"}

TileStates == {"new", "init", "poll", "type", "stats", "lock",
               "call", "body", "unlock", "irq", "complete", "state", "count",
               "post", "check", "bye", "exit", "crash"}

Init ==
    /\ mpc = "create" /\ mi = 1
    /\ ptr = [k \in Tests |-> NoSlot]
    /\ nextTile = 1 /\ nextId = 1 /\ waitCycles = 0 /\ startFailed = FALSE
    /\ slots = [s \in Slots |-> ZeroTask] /\ count = 0
    /\ active = 0 /\ completed = 0
    /\ plicEnabled = FALSE /\ session = Free
    /\ result = [k \in Tests |-> 0] /\ pending = {}
    /\ tpc = [t \in Tiles |-> "new"]
    /\ task = [t \in Tiles |-> NoSlot]
    /\ func = [t \in Tiles |-> NoTest]
    /\ running = [t \in Tiles |-> FALSE]
    /\ initialized = [t \in Tiles |-> FALSE]
    /\ tasksCompleted = [t \in Tiles |-> 0]
    /\ execs = [k \in Tests |-> 0]
    /\ stored = {} /\ finished = {} /\ stale = {}

(***************************************************************************)
(* C0: platform_start_tile_threads and the supervision                     *)
(***************************************************************************)

\* running = initialized = false, then pthread_create of tile mi.
StartTile ==
    /\ mpc = "create" /\ mi \in Tiles
    /\ running' = [running EXCEPT ![mi] = FALSE]
    /\ initialized' = [initialized EXCEPT ![mi] = FALSE]
    /\ tpc' = [tpc EXCEPT ![mi] = "init"]
    /\ mi' = mi + 1
    /\ UNCHANGED <<mpc, ptr, nextTile, nextId, waitCycles, startFailed,
                   tableVars, counterVars, task, func, tasksCompleted,
                   outVars, history>>

\* pthread_create fails: c0_run_test_suite runs single-threaded, and the
\* threads already created are left polling.
StartFails ==
    /\ mpc = "create" /\ mi \in Tiles
    /\ running' = [running EXCEPT ![mi] = FALSE]
    /\ initialized' = [initialized EXCEPT ![mi] = FALSE]
    /\ startFailed' = TRUE
    /\ mpc' = "fallback"
    /\ UNCHANGED <<mi, ptr, nextTile, nextId, waitCycles, tableVars,
                   counterVars, tpc, task, func, tasksCompleted, outVars,
                   history>>

\* run_all_tests: C0 calls the tests itself, under no lock and with no task.
RunAllTests ==
    /\ mpc = "fallback"
    /\ mpc' = "done"
    /\ UNCHANGED <<mi, ptr, nextTile, nextId, waitCycles, startFailed,
                   tableVars, counterVars, tileVars, outVars, history>>

StartWait ==
    /\ mpc = "create" /\ mi \notin Tiles
    /\ mpc' = "waitinit" /\ mi' = 1
    /\ UNCHANGED <<ptr, nextTile, nextId, waitCycles, startFailed, tableVars,
                   counterVars, tileVars, outVars, history>>

\* Mutant: C0 does not wait for the threads it created.
AwaitNothing ==
    /\ mpc = "waitinit"
    /\ mpc' = "supervise"
    /\ UNCHANGED <<mi, ptr, nextTile, nextId, waitCycles, startFailed,
                   tableVars, counterVars, tileVars, outVars, history>>

\* while (!initialized) usleep: the guard is the loop's exit.
AwaitInitialized ==
    /\ mpc = "waitinit"
    /\ IF mi \in Tiles
       THEN initialized[mi] /\ mi' = mi + 1 /\ UNCHANGED mpc
       ELSE mpc' = "supervise" /\ UNCHANGED mi
    /\ UNCHANGED <<ptr, nextTile, nextId, waitCycles, startFailed, tableVars,
                   counterVars, tileVars, outVars, history>>

\* plic_enabled = true; the supervision cycles claim what is pending for C0.
Supervise ==
    /\ mpc = "supervise"
    /\ plicEnabled' = TRUE /\ pending' = {}
    /\ mpc' = "c0tests"
    /\ UNCHANGED <<mi, ptr, nextTile, nextId, waitCycles, startFailed,
                   tableVars, counterVars, tileVars, session, result, history>>

\* C0's own tests, outside of the print session: gather, distribute, and the
\* first lines of the parallel test, which clear what its tasks will write.
\* With no task to its name the parallel test goes straight to the reset.
RunC0Tests ==
    /\ mpc = "c0tests"
    /\ mi' = NTests + 1
    /\ mpc' = IF ParTests = {} THEN "reset" ELSE "reserve"
    /\ UNCHANGED <<ptr, nextTile, nextId, waitCycles, startFailed, tableVars,
                   counterVars, tileVars, outVars, history>>

(***************************************************************************)
(* C0: create_hal_test_task                                                *)
(***************************************************************************)

\* What C0 does after a creation that failed: the parallel test returns, the
\* HAL phase prints an error and sets that test's result to 0.
AfterFailedCreate(k) == IF k \in ParTests THEN "reset" ELSE "nocreate"

\* Takes an id and, under hal_task_storage_lock, the next slot of the table.
Reserve ==
    /\ mpc = "reserve"
    /\ nextId' = nextId + 1
    /\ IF count >= Cap
       THEN /\ mpc' = AfterFailedCreate(mi)
            /\ UNCHANGED <<ptr, count>>
       ELSE /\ ptr' = [ptr EXCEPT ![mi] = count]
            /\ count' = count + 1
            /\ mpc' = "memset"
    /\ UNCHANGED <<mi, nextTile, waitCycles, startFailed, slots, counterVars,
                   tileVars, outVars, history>>

\* The slot is cleared after the lock was released.
ClearTask ==
    /\ mpc = "memset"
    /\ slots' = [slots EXCEPT ![ptr[mi]] = ZeroTask]
    /\ mpc' = "fill"
    /\ UNCHANGED <<mi, ptr, nextTile, nextId, waitCycles, startFailed, count,
                   counterVars, tileVars, outVars, history>>

\* The parallel test creates all its tasks before it queues the first.
FillTask ==
    /\ mpc = "fill"
    /\ slots' = [slots EXCEPT ![ptr[mi]] =
                    [id |-> nextId - 1, assigned |-> Unassigned,
                     completed |-> FALSE, taken |-> FALSE,
                     kind |-> "HAL_TEST", test |-> mi]]
    /\ IF mi \in ParTests /\ mi + 1 \in ParTests
       THEN mpc' = "reserve" /\ mi' = mi + 1
       ELSE /\ mpc' = "assign"
            /\ mi' = IF mi \in ParTests THEN NTests + 1 ELSE mi
    /\ UNCHANGED <<ptr, nextTile, nextId, waitCycles, startFailed, count,
                   counterVars, tileVars, outVars, history>>

(***************************************************************************)
(* C0: queue_task_to_available_tile                                        *)
(***************************************************************************)

\* Round robin over the tiles; the task can be taken from here on, although
\* hal_task_storage_lock is not held.
Assign ==
    /\ mpc = "assign"
    /\ slots' = [slots EXCEPT ![ptr[mi]].assigned = nextTile]
    /\ nextTile' = IF nextTile + 1 >= NodeCount THEN 1 ELSE nextTile + 1
    /\ mpc' = "account"
    /\ UNCHANGED <<mi, ptr, nextId, waitCycles, startFailed, count,
                   counterVars, tileVars, outVars, history>>

Account ==
    /\ mpc = "account"
    /\ active' = active + 1
    /\ mpc' = "copy"
    /\ UNCHANGED <<mi, ptr, nextTile, nextId, waitCycles, startFailed,
                   tableVars, completed, tileVars, outVars, history>>

\* Where C0 goes once task k is queued.
AfterQueue(k) ==
    IF k + 1 \in (IF k \in ParTests THEN ParTests ELSE HalTests)
    THEN IF k \in ParTests THEN "assign" ELSE "reserve"
    ELSE IF k \in ParTests THEN "parwait" ELSE "waitprint"

\* Mutant: the capacity is not looked at.
CopyAnyway ==
    /\ mpc = "copy"
    /\ slots' = [slots EXCEPT ![count] = slots[ptr[mi]],
                              ![ptr[mi]].taken = TRUE,
                              ![ptr[mi]].assigned = Invalid]
    /\ count' = count + 1
    /\ mpc' = AfterQueue(mi) /\ mi' = mi + 1
    /\ UNCHANGED <<ptr, nextTile, nextId, waitCycles, startFailed,
                   counterVars, tileVars, outVars, history>>

\* Mutant: the original is not invalidated.
CopyAndKeep ==
    /\ mpc = "copy"
    /\ IF count < Cap
       THEN /\ slots' = [slots EXCEPT ![count] = slots[ptr[mi]]]
            /\ count' = count + 1
       ELSE UNCHANGED tableVars
    /\ mpc' = AfterQueue(mi) /\ mi' = mi + 1
    /\ UNCHANGED <<ptr, nextTile, nextId, waitCycles, startFailed,
                   counterVars, tileVars, outVars, history>>

\* Mutant: the original is invalidated even when its copy does not fit.
CopyOrDrop ==
    /\ mpc = "copy"
    /\ slots' = [s \in Slots |->
                   IF s = ptr[mi]
                   THEN [slots[s] EXCEPT !.taken = TRUE, !.assigned = Invalid]
                   ELSE IF s = count THEN slots[ptr[mi]] ELSE slots[s]]
    /\ count' = IF count < Cap THEN count + 1 ELSE count
    /\ mpc' = AfterQueue(mi) /\ mi' = mi + 1
    /\ UNCHANGED <<ptr, nextTile, nextId, waitCycles, startFailed,
                   counterVars, tileVars, outVars, history>>

\* Under hal_task_storage_lock: a copy of the task goes to the next slot and
\* the original is invalidated; with a full table the original stays.
CopyTask ==
    /\ mpc = "copy"
    /\ IF count < Cap
       THEN /\ slots' = [slots EXCEPT ![count] = slots[ptr[mi]],
                                      ![ptr[mi]].taken = TRUE,
                                      ![ptr[mi]].assigned = Invalid]
            /\ count' = count + 1
       ELSE UNCHANGED tableVars
    /\ mpc' = AfterQueue(mi)
    /\ mi' = mi + 1
    /\ UNCHANGED <<ptr, nextTile, nextId, waitCycles, startFailed,
                   counterVars, tileVars, outVars, history>>

(***************************************************************************)
(* C0: the timed wait of test_parallel_c0_access and the reset             *)
(***************************************************************************)

\* One 10 ms round of the wait; it ends when every result is non-zero or the
\* cycles are used up, and in both cases the test goes on.
ParWait ==
    /\ mpc = "parwait"
    /\ IF (\E k \in ParTests : result[k] = 0) /\ waitCycles < MaxWaitCycles
       THEN waitCycles' = waitCycles + 1 /\ UNCHANGED mpc
       ELSE mpc' = "reset" /\ UNCHANGED waitCycles
    /\ UNCHANGED <<mi, ptr, nextTile, nextId, startFailed, tableVars,
                   counterVars, tileVars, outVars, history>>

\* A tile holds a task from tile_get_next_task until it was counted.
HoldsTask == {"type", "stats", "lock", "call", "body", "unlock",
              "irq", "complete", "state", "count"}

\* Under hal_task_storage_lock: the table is emptied and zeroed, whoever
\* still works on one of its slots.
ResetTable ==
    /\ mpc = "reset"
    /\ slots' = [s \in Slots |-> ZeroTask] /\ count' = 0
    /\ stale' = {t \in Tiles : tpc[t] \in HoldsTask}
    /\ mpc' = "resetctr"
    /\ UNCHANGED <<mi, ptr, nextTile, nextId, waitCycles, startFailed,
                   counterVars, tileVars, outVars, execs, stored, finished>>

\* Mutant: completed_tasks is not reset.
ResetActiveOnly ==
    /\ mpc = "resetctr"
    /\ active' = 0 /\ finished' = {}
    /\ mpc' = "halprint"
    /\ UNCHANGED <<mi, ptr, nextTile, nextId, waitCycles, startFailed,
                   tableVars, completed, tileVars, outVars, execs, stored,
                   stale>>

\* Mutant: active_tasks is not reset.
ResetCompletedOnly ==
    /\ mpc = "resetctr"
    /\ completed' = 0 /\ finished' = {}
    /\ mpc' = "halprint"
    /\ UNCHANGED <<mi, ptr, nextTile, nextId, waitCycles, startFailed,
                   tableVars, active, tileVars, outVars, execs, stored,
                   stale>>

\* Under platform_lock.
ResetCounters ==
    /\ mpc = "resetctr"
    /\ active' = 0 /\ completed' = 0 /\ finished' = {}
    /\ mpc' = "halprint"
    /\ UNCHANGED <<mi, ptr, nextTile, nextId, waitCycles, startFailed,
                   tableVars, tileVars, outVars, execs, stored, stale>>

(***************************************************************************)
(* C0: the HAL phase.  main_thread_print waits for the print session.      *)
(***************************************************************************)

HalStart ==
    /\ mpc = "halprint" /\ session = Free
    /\ mpc' = "reserve" /\ mi' = 1
    /\ UNCHANGED <<ptr, nextTile, nextId, waitCycles, startFailed, tableVars,
                   counterVars, tileVars, outVars, history>>

\* "ERROR: Failed to create task": the test counts as failed.
CreateFailed ==
    /\ mpc = "nocreate" /\ session = Free
    /\ result' = [result EXCEPT ![mi] = 0]
    /\ mpc' = IF mi + 1 \in HalTests THEN "reserve" ELSE "waitprint"
    /\ mi' = mi + 1
    /\ UNCHANGED <<ptr, nextTile, nextId, waitCycles, startFailed, tableVars,
                   counterVars, tileVars, session, pending, plicEnabled,
                   history>>

WaitStart ==
    /\ mpc = "waitprint" /\ session = Free
    /\ mpc' = "wait"
    /\ UNCHANGED <<mi, ptr, nextTile, nextId, waitCycles, startFailed,
                   tableVars, counterVars, tileVars, outVars, history>>

\* wait_for_all_tasks_completion: the guard is the exit of its loop, which
\* looks at nothing but the counter.
WaitReturns ==
    /\ mpc = "wait" /\ completed >= NTests
    /\ mpc' = "report"
    /\ UNCHANGED <<mi, ptr, nextTile, nextId, waitCycles, startFailed,
                   tableVars, counterVars, tileVars, outVars, history>>

\* Mutant: the interrupts stay enabled.
ReportOnly ==
    /\ mpc = "report" /\ session = Free
    /\ mpc' = "stop" /\ mi' = 1
    /\ UNCHANGED <<ptr, nextTile, nextId, waitCycles, startFailed, tableVars,
                   counterVars, tileVars, outVars, history>>

\* The results are summed and printed, c0_run_hal_tests_distributed returns
\* (hal_tests[] is gone) and the interrupts are disabled.
Report ==
    /\ mpc = "report" /\ session = Free
    /\ plicEnabled' = FALSE
    /\ mpc' = "stop" /\ mi' = 1
    /\ UNCHANGED <<ptr, nextTile, nextId, waitCycles, startFailed, tableVars,
                   counterVars, tileVars, session, result, pending, history>>

(***************************************************************************)
(* C0: platform_stop_tile_threads                                          *)
(***************************************************************************)

StopTile ==
    /\ mpc = "stop"
    /\ IF mi \in Tiles
       THEN /\ running' = [running EXCEPT ![mi] = FALSE]
            /\ mi' = mi + 1 /\ UNCHANGED mpc
       ELSE mpc' = "join" /\ mi' = 1 /\ UNCHANGED running
    /\ UNCHANGED <<ptr, nextTile, nextId, waitCycles, startFailed, tableVars,
                   counterVars, tpc, task, func, initialized, tasksCompleted,
                   outVars, history>>

JoinTile ==
    /\ mpc = "join"
    /\ IF mi \in Tiles
       THEN tpc[mi] = "exit" /\ mi' = mi + 1 /\ UNCHANGED mpc
       ELSE mpc' = "done" /\ UNCHANGED mi
    /\ UNCHANGED <<ptr, nextTile, nextId, waitCycles, startFailed, tableVars,
                   counterVars, tileVars, outVars, history>>

C0Step ==
    \/ StartTile \/ StartFails \/ RunAllTests \/ StartWait
    \/ AwaitInitialized \/ Supervise \/ RunC0Tests
    \/ Reserve \/ ClearTask \/ FillTask \/ Assign \/ Account \/ CopyTask
    \/ ParWait \/ ResetTable \/ ResetCounters
    \/ HalStart \/ CreateFailed \/ WaitStart \/ WaitReturns \/ Report
    \/ StopTile \/ JoinTile

(***************************************************************************)
(* The tile threads: tile_processor_main                                   *)
(***************************************************************************)

Goto(t, from, to) == tpc[t] = from /\ tpc' = [tpc EXCEPT ![t] = to]

TileInit(t) ==
    /\ Goto(t, "init", "poll")
    /\ running' = [running EXCEPT ![t] = TRUE]
    /\ initialized' = [initialized EXCEPT ![t] = TRUE]
    /\ tasksCompleted' = [tasksCompleted EXCEPT ![t] = 0]
    /\ UNCHANGED <<c0Vars, tableVars, counterVars, task, func, outVars,
                   history>>

\* Mutant: neither the assignment nor `taken' is looked at.
TakeableUnlessCompleted(s, t) ==
    ~slots[s].completed /\ slots[s].id > 0

\* The test of tile_get_next_task.
Takeable(s, t) ==
    /\ slots[s].assigned = t
    /\ ~slots[s].completed /\ ~slots[s].taken
    /\ slots[s].id > 0

\* The scan returns the first slot that passes.
FirstTakeable(s, t) ==
    /\ s < count /\ Takeable(s, t)
    /\ \A r \in Slots : r < s => ~Takeable(r, t)

\* tile_get_next_task finds one: taken and invalidated under the lock.
TileTake(t) ==
    /\ Goto(t, "poll", "type")
    /\ \E s \in Slots :
          /\ FirstTakeable(s, t)
          /\ slots' = [slots EXCEPT ![s].taken = TRUE,
                                    ![s].assigned = Invalid]
          /\ task' = [task EXCEPT ![t] = s]
    /\ UNCHANGED <<c0Vars, count, counterVars, func, running, initialized,
                   tasksCompleted, outVars, history>>

\* It finds none: idle, and a millisecond of sleep.
TileIdle(t) ==
    /\ Goto(t, "poll", "check")
    /\ \A s \in Slots : s < count => ~Takeable(s, t)
    /\ UNCHANGED <<c0Vars, tableVars, counterVars, task, func, running,
                   initialized, tasksCompleted, outVars, history>>

(***************************************************************************)
(* tile_execute_task reads the task_t in the table without a lock.         *)
(***************************************************************************)

\* switch (task->type): a HAL test, or the placeholder of a zeroed slot.  The
\* current_task, task_pending and idle set before it are only printed.
TileType(t) ==
    /\ Goto(t, "type",
            IF slots[task[t]].kind = "HAL_TEST" THEN "stats" ELSE "irq")
    /\ UNCHANGED <<c0Vars, tableVars, counterVars, task, func, running,
                   initialized, tasksCompleted, outVars, history>>

\* update_tile_execution_stats copies test_name: strncpy of NULL is a crash.
TileStats(t) ==
    /\ Goto(t, "stats", IF slots[task[t]].test = NoTest THEN "crash" ELSE "lock")
    /\ UNCHANGED <<c0Vars, tableVars, counterVars, task, func, running,
                   initialized, tasksCompleted, outVars, history>>

\* Mutant: the session starts without its lock.
TileLockNothing(t) ==
    /\ Goto(t, "lock", "call")
    /\ session' = t
    /\ UNCHANGED <<c0Vars, tableVars, counterVars, task, func, running,
                   initialized, tasksCompleted, result, pending, plicEnabled,
                   history>>

\* begin_print_session.
TileLock(t) ==
    /\ Goto(t, "lock", "call")
    /\ session = Free /\ session' = t
    /\ UNCHANGED <<c0Vars, tableVars, counterVars, task, func, running,
                   initialized, tasksCompleted, result, pending, plicEnabled,
                   history>>

\* test_func and platform are tested and test_func is called.
TileCall(t) ==
    LET k == slots[task[t]].test IN
    /\ Goto(t, "call", IF k = NoTest THEN "unlock" ELSE "body")
    /\ func' = [func EXCEPT ![t] = k]
    /\ execs' = IF k = NoTest THEN execs
                              ELSE [execs EXCEPT ![k] = execs[k] + 1]
    /\ UNCHANGED <<c0Vars, tableVars, counterVars, task, running, initialized,
                   tasksCompleted, outVars, stored, finished, stale>>

\* The test returns, 0 when it failed, and its result goes to where the
\* result_ptr now in the slot points.
TileStore(t) ==
    LET k == slots[task[t]].test IN
    /\ Goto(t, "body", "unlock")
    /\ IF k = NoTest
       THEN UNCHANGED <<result, stored>>
       ELSE /\ \E r \in {0, 1} : result' = [result EXCEPT ![k] = r]
            /\ stored' = stored \cup {k}
    /\ UNCHANGED <<c0Vars, tableVars, counterVars, task, func, running,
                   initialized, tasksCompleted, session, pending, plicEnabled,
                   execs, finished, stale>>

\* end_print_session.
TileUnlock(t) ==
    /\ Goto(t, "unlock", "irq")
    /\ session' = Free
    /\ UNCHANGED <<c0Vars, tableVars, counterVars, task, func, running,
                   initialized, tasksCompleted, result, pending, plicEnabled,
                   history>>

\* PLIC_trigger_interrupt(tile->id, 0).
TileInterrupt(t) ==
    /\ Goto(t, "irq", "complete")
    /\ pending' = pending \cup {t}
    /\ UNCHANGED <<c0Vars, tableVars, counterVars, task, func, running,
                   initialized, tasksCompleted, session, result, plicEnabled,
                   history>>

(***************************************************************************)
(* tile_complete_task and the rest of the loop                             *)
(***************************************************************************)

\* Under the task's own lock.
TileComplete(t) ==
    /\ Goto(t, "complete", "state")
    /\ slots' = [slots EXCEPT ![task[t]].completed = TRUE]
    /\ UNCHANGED <<c0Vars, count, counterVars, task, func, running,
                   initialized, tasksCompleted, outVars, history>>

\* Under state_lock.
TileState(t) ==
    /\ Goto(t, "state", "count")
    /\ tasksCompleted' = [tasksCompleted EXCEPT ![t] = tasksCompleted[t] + 1]
    /\ UNCHANGED <<c0Vars, tableVars, counterVars, task, func, running,
                   initialized, outVars, history>>

\* Under platform_lock.
TileCount(t) ==
    /\ Goto(t, "count", "post")
    /\ completed' = completed + 1 /\ active' = active - 1
    /\ finished' = finished \cup {func[t]}
    /\ UNCHANGED <<c0Vars, tableVars, task, func, running, initialized,
                   tasksCompleted, outVars, execs, stored, stale>>

\* tile_processor_main updates the tile's state once more.
TilePost(t) ==
    /\ Goto(t, "post", "check")
    /\ tasksCompleted' = [tasksCompleted EXCEPT ![t] = tasksCompleted[t] + 1]
    /\ task' = [task EXCEPT ![t] = NoSlot]
    /\ func' = [func EXCEPT ![t] = NoTest]
    /\ UNCHANGED <<c0Vars, tableVars, counterVars, running, initialized,
                   outVars, history>>

TileCheck(t) ==
    /\ Goto(t, "check", IF running[t] THEN "poll" ELSE "bye")
    /\ UNCHANGED <<c0Vars, tableVars, counterVars, task, func, running,
                   initialized, tasksCompleted, outVars, history>>

\* The shutdown notification, if the interrupts are still enabled.
TileExit(t) ==
    /\ Goto(t, "bye", "exit")
    /\ IF plicEnabled
       THEN pending' = pending \cup {t}
       ELSE UNCHANGED pending
    /\ UNCHANGED <<c0Vars, tableVars, counterVars, task, func, running,
                   initialized, tasksCompleted, session, result, plicEnabled,
                   execs, stored, finished, stale>>

TileStep(t) ==
    \/ TileInit(t) \/ TileTake(t) \/ TileIdle(t)
    \/ TileType(t) \/ TileStats(t) \/ TileLock(t)
    \/ TileCall(t) \/ TileStore(t) \/ TileUnlock(t) \/ TileInterrupt(t)
    \/ TileComplete(t) \/ TileState(t) \/ TileCount(t) \/ TilePost(t)
    \/ TileCheck(t) \/ TileExit(t)

\* A crash ends the process.
Crashed == \E t \in Tiles : tpc[t] = "crash"

\* The program has ended: nothing is left to run.
Terminated == (mpc = "done" \/ Crashed) /\ UNCHANGED vars

Next ==
    \/ ~Crashed /\ C0Step
    \/ ~Crashed /\ \E t \in Tiles : TileStep(t)
    \/ Terminated

Spec == Init /\ [][Next]_vars

\* The operating system schedules every thread that can run.
Fairness ==
    /\ WF_vars(~Crashed /\ C0Step)
    /\ \A t \in Tiles : WF_vars(~Crashed /\ TileStep(t))

FairSpec == Spec /\ Fairness

-----------------------------------------------------------------------------
(***************************************************************************)
(* What is true of the dispatch.  A reset is clean when no tile is between *)
(* taking a task and counting it; `stale' is empty until a reset is not.   *)
(***************************************************************************)

TypeOK ==
    /\ mpc \in C0States /\ mi \in Nat
    /\ ptr \in [Tests -> Slots \cup {NoSlot}]
    /\ nextTile \in Tiles /\ nextId \in Nat \ {0} /\ waitCycles \in Nat
    /\ startFailed \in BOOLEAN
    /\ slots \in [Slots -> Task] /\ count \in 0 .. Cap
    /\ active \in Int /\ completed \in Nat
    /\ plicEnabled \in BOOLEAN
    /\ session \in Tiles \cup {Free}
    /\ result \in [Tests -> {0, 1}] /\ pending \subseteq Tiles
    /\ tpc \in [Tiles -> TileStates]
    /\ task \in [Tiles -> Slots \cup {NoSlot}]
    /\ func \in [Tiles -> Tests \cup {NoTest}]
    /\ running \in [Tiles -> BOOLEAN] /\ initialized \in [Tiles -> BOOLEAN]
    /\ tasksCompleted \in [Tiles -> Nat]
    /\ execs \in [Tests -> Nat]
    /\ stored \subseteq Tests /\ finished \subseteq Tests \cup {NoTest}
    /\ stale \subseteq Tiles

\* Tiles between begin_print_session and end_print_session.
InSession == {"call", "body", "unlock"}

\* C0 is past wait_for_all_tasks_completion.
AfterWait == {"report", "stop", "join"}

\* C0 runs tests itself.
C0RunsTests == mpc \in {"fallback", "c0tests"}

\* The bodies of the tests never overlap: they all move data through the same
\* DMEM0 and DMEM1 regions, and only the print session keeps the tiles' apart
\* (c0_controller.c, tile_execute_task).  C0 runs its tests without it, also
\* after a thread that did not start, when the others are still polling; what
\* keeps these apart is that no tile has a task then.
OneTestAtATime ==
    /\ \A t, u \in Tiles : tpc[t] \in InSession /\ tpc[u] \in InSession => t = u
    /\ C0RunsTests => \A t \in Tiles : tpc[t] \notin InSession

\* `taken' prevents double execution (c0_controller.h): as long as the reset
\* was clean no test function is called twice, although the original and the
\* copy of every task are both in the table.
ExecutedAtMostOnce ==
    stale = {} => \A k \in Tests : execs[k] <= 1

\* As long as the reset was clean a tile works on a slot that no other tile
\* works on and that C0 is not about to clear or to fill.
SlotIsPrivate ==
    stale = {} =>
      \A t \in Tiles : tpc[t] \in HoldsTask =>
         /\ \A u \in Tiles : tpc[u] \in HoldsTask /\ task[u] = task[t] => u = t
         /\ mpc \in {"memset", "fill"} => ptr[mi] # task[t]

\* After a clean reset wait_for_all_tasks_completion returns only when every
\* HAL test has left its result in hal_tests[], so none is read too early and
\* none is written after the function that owns the array has returned.
WaitMeansDone ==
    mpc \in AfterWait /\ stale = {} => HalTests \subseteq stored

\* After a clean reset the platform counters come out even: when the wait
\* returns every test was counted once and no task is active.
CountersSettle ==
    mpc \in AfterWait /\ stale = {} => completed = NTests /\ active = 0

\* C0 never stops a tile that is not started yet: `running = false' is never
\* overwritten by the `running = true' of a thread that starts late.
StopIsNotLost ==
    mpc = "join" => \A t \in Tiles : ~running[t]

\* When the suite is over, an interrupt is pending for each tile that did some
\* work and for no other: nobody claims after the supervision, which comes
\* before the first task, and no tile sends its shutdown notification, since C0
\* disables the interrupts before it stops the first tile.
PendingTellsWhoWorked ==
    mpc = "done" /\ ~startFailed =>
        pending = {t \in Tiles : tasksCompleted[t] > 0}

\* With a table large enough for the tests, C0 comes to its end: the wait
\* returns, even after a reset that was not clean, and every tile it stops
\* is joined.  (A crash ends the process too.)
C0Finishes == <>(mpc = "done" \/ Crashed)

-----------------------------------------------------------------------------
(***************************************************************************)
(* What the repository says of the dispatch and the code does not do.      *)
(***************************************************************************)

\* c0_run_hal_tests_distributed: "All parallel HAL test tasks completed!", here
\* of the runs in which the parallel test did not even time out.
AllCompletedMeansAllCompleted ==
    mpc \in AfterWait /\ waitCycles < MaxWaitCycles => HalTests \subseteq stored

\* c0_controller.h, task_t.taken: "Flag to prevent double execution".
NeverExecutedTwice ==
    \A k \in Tests : execs[k] <= 1
=============================================================================
