# Formal model of the 4x4 NoC mesh platform

The program under `src/` simulates a mesh of eight tiles and eight DMEM modules
on POSIX threads. Tile 0 (C0) is the main thread: it starts tiles 1 to 7 as
threads, hands them HAL tests as tasks, waits for their completion and stops
them. The HAL moves data between the regions of one address map, inside a tile
with a DMA engine and between tiles and DMEMs as packets over the mesh. A
simulated PLIC carries interrupts from the tiles to C0.

This directory holds TLA+ modules of those parts, the TLC configurations that
check them on small instances, and proofs that TLAPS checks for every value of
the constants. Paths below are relative to `src/`.

## 1. The system

| component | state it keeps | operations | what is hard about it |
| --- | --- | --- | --- |
| C0 task dispatch (`c0_master/c0_controller.c`, `hal_tests/parallel_noc_tests.c`) | task table `hal_task_storage`, its count, `active_tasks`, `completed_tasks`, `print_session_lock`, per-tile `running` and `initialized` | start, supervise, C0's own tests, create a task, queue it, reset, wait, report, stop, join; on a tile: take, execute, complete | eight threads on one table that is partly accessed outside its lock; a reset under working tiles; a timed wait that goes on regardless |
| task queue (`task_queue_*` of `c0_master/c0_controller.c`) | ring of 64 `task_t`, one mutex, two condition variables | init, push, pop | blocking at both ends, one signal per operation, wrap-around, a pointer into a slot that is free again |
| PLIC and C0's interrupt loops (`interrupt/plic.c`, `c0_master/c0_controller.c`) | pending, enable, priority and claim registers of two instances | setup for every pair of harts, trigger, claim, complete, the legacy and the enhanced loop | no lock at all: the claim is a scan and a read-modify-write while the harts write; eight targets share two sets of registers that are only or-ed at setup |
| address map (`platform_init/address_manager.c`, `generated/mem_map.h`) | none | `addr_to_ptr`, `get_address_region`, `validate_address`, tile and DMEM ids | two independent answers about one address; ranges judged by their ends |
| HAL (`hal_tests/hal_reference.c`) | `hal_mutex` | the calls of `hal_interface_t` | many error paths under one mutex |
| DMA engines (`tile/tile_dma.c`, `hal/dma512/`) | one handle per tile, registers in the memory map | configure, start, finish | a handle shared by all threads |
| mesh router (`mesh_noc/mesh_router.c`) | a lock per destination, lazily made | send a packet | set-up checked without a lock, arbitration below the HAL's mutex |
| DMEM controller (`dmem/dmem_controller.c`) | none | copy, status | |
| platform setup (`platform_init/system_setup.c`) | the buffers | allocates and initialises everything | |
| HAL tests (`hal_tests/*_tests.c`, C0's own tests in `c0_master/c0_controller.c`) | none but the memories | sequences of HAL calls: fill, move, compare | they share the DMEM0 and DMEM1 regions and find there what others left; some never look at what they moved |
| sequential test run (`run_all_tests`) | none | eight of the tests, one after the other | it runs when a thread did not start, beside the tiles that did |

How they interact. C0 and the tiles share the task table and the platform's
counters; a tile calls a test, the test calls the HAL, the HAL calls a driver
under `hal_mutex`, and the driver asks the address manager for pointers and for
the kind of a region. Around each task a tile raises an interrupt in the PLIC,
which C0 claims during its supervision. The queue of `task_queue_t` is
initialised and destroyed, but nobody pushes or pops.

What makes each component correct:

* dispatch: every test is executed exactly once, one at a time, C0's wait means
  that all of them are done, and C0 always comes to its end;
* queue: first in first out, no lost wake-up, no thread blocked for good;
* PLIC: the setup connects every two harts, an interrupt is claimed only if it
  was raised, the best one first, and no hart loses another hart's interrupt;
* HAL, drivers, address map: a call is one atomic step on a flat memory, or is
  refused and changes nothing;
* HAL tests: a test fails only if one of its own calls went wrong, and it does
  fail if that was a move or a query it looks at, whatever the memories hold when
  it starts.

## 2. The modules

| module | models | kind |
| --- | --- | --- |
| `TileDispatch` | C0 and the tile threads | component |
| `TileDispatchInv` | the inductive invariants of `TileDispatch` | invariants |
| `TileDispatchProofs` | theorems about the table and the tests in it | proofs |
| `TileLifeProofs` | theorems about the life of the tile threads and the counters | proofs |
| `MCTileDispatch` | instance for TLC | MC |
| `BoundedFifo` | what a task queue promises | abstract specification |
| `TaskQueue` | push and pop with mutex and condition variables | component |
| `TaskQueueProofs` | theorems about `TaskQueue`, refinement included | proofs |
| `Plic` | interrupt registers, harts, C0's two loops | component |
| `PlicInv` | the inductive invariants of `Plic` | invariants |
| `PlicProofs` | theorems about `Plic` | proofs |
| `MCPlic` | instance for TLC | MC |
| `AddressMap` | the address manager, as operators | pure operators |
| `AddressMapProofs` | theorems about those operators | proofs |
| `FlatMemory` | what the HAL promises | abstract specification |
| `HalTransfer` | HAL, DMA engines, router, DMEM controller on `AddressMap` | composition |
| `HalTransferInv` | the inductive invariants of `HalTransfer` | invariants |
| `HalRefinementProofs` | theorems about who is in a driver and about the memory, refinement included | proofs |
| `MCHalTransfer` | instance for TLC | MC |
| `HalTests` | the tests, call by call, and a HAL call that goes wrong | component |
| `HalTestsInv` | the inductive invariants of `HalTests`; checked with `NodeCount = 3` as it stands | invariants |
| `HalTestsProofs` | what the tests leave alone: types, one caller at a time, and the step of `TestsInv` | proofs |
| `HalFaultsProofs` | why a test fails for a fault of its own, and only for that | proofs |

Operators whose comment starts with "Mutant:" are no part of the model. Each is
a plausible bug in the definition that follows it; with that definition
replaced by the mutant, the property it is listed with fails. They document what
each property is sensitive to.

### TileDispatch

One step is one critical section of the code, or one access to the table made
outside its lock. `mpc` is where C0 is, `tpc[t]` where tile `t` is.

| action | code |
| --- | --- |
| `StartTile`, `StartFails`, `StartWait`, `AwaitInitialized` | `platform_start_tile_threads`, one `pthread_create` at a time; a failure sends C0 to the fallback |
| `RunAllTests` | `c0_run_test_suite`: `run_all_tests` by C0 alone when a thread did not start |
| `Supervise` | `c0_master_supervise_tiles`: the interrupts are enabled and what is pending is claimed |
| `RunC0Tests` | gather and distribute, which C0 runs itself before it gives any work to a tile |
| `Reserve`, `ClearTask`, `FillTask` | `create_hal_test_task`: slot under the lock, `memset` and fields outside it |
| `Assign`, `Account`, `CopyTask` | `queue_task_to_available_tile`: assignment outside the lock, then the copy to the next slot and the invalidation of the original under it |
| `ParWait` | the timed wait of `test_parallel_c0_access` |
| `ResetTable`, `ResetCounters` | the two resets of `c0_run_hal_tests_distributed`, under different locks |
| `HalStart`, `CreateFailed`, `WaitStart`, `WaitReturns`, `Report` | the rest of that function; where it prints it waits for the print session |
| `StopTile`, `JoinTile` | `platform_stop_tile_threads` |
| `TileInit`, `TileTake`, `TileIdle`, `TileCheck`, `TilePost`, `TileExit` | `tile_processor_main`, `tile_get_next_task` |
| `TileType` to `TileUnlock` | `tile_execute_task`, which reads the `task_t` without a lock |
| `TileInterrupt`, `TileComplete`, `TileState`, `TileCount` | the completion interrupt and `tile_complete_task` under its three locks |

Abstractions. A `task_t` keeps the fields a decision depends on; `test` stands
for the test's function, its name and the variable its result goes to. Its
fields are read in one step where the code reads several of them in a row
without anything in between. `idle`, `current_task`, `task_pending` and the
statistics are printed only and left out. `strncpy` of a NULL name, which a tile
reaches when the table is zeroed under it, ends the process (`crash`). A test
passes or fails by choice. The `task_lock` and the condition variable in a
`task_t` are not modelled: nobody waits on the condition, and the lock guards
only the `completed = true` of the tile that holds the task. A `task_t` is
copied (740) and zeroed (937) together with its lock, so a tile whose slot is
overwritten in the middle of that assignment would meet a lock in a strange
state; that takes a reset or a copy at a tile's slot, which happens after a
reset that is not clean only. Likewise the check of `test_func` (1050) and the
call (1057) are one step: the table zeroed between the two would make the call
one of NULL, on the same occasion, and no property depends on how that run ends.
When a `pthread_create` fails C0 runs `run_all_tests` itself and ends, while the
tiles it created before go on polling: nobody stops or joins them, which the
process ending does. The 300 polls of `ParWait` are a constant.

`stale` is a history variable: the tiles that held a task when the table was
reset. A reset with `stale = {}` is called clean. Most properties are about
clean resets, because after the others the code does not keep them: that is what
the runs `MCDispatchEarlyReturn` and `MCDispatchDoubleExecution` show.

### TaskQueue and BoundedFifo

One step is what a thread does while it holds `queue_lock`. A thread in
`pthread_cond_wait` is in `"wait"`; a signal or a spurious return moves it to
`"woken"`, from where it competes for the lock with everybody else. `Push` and
`Pop` include their signal. The clients are hypothetical threads that call again
and again, since the repository has none. `ptr`, `got` and `room` record what
`pop` returned: it is the address of a slot that is free again, and `room` says
how many pushes it takes until that slot is written. A consumer slower than that
works on another task than the one it popped; `PoppedTaskIsKept` is what a
caller may rely on.

`BoundedFifo` has a sequence, what each consumer last got, and two actions (put and get). The
refinement mapping takes `Contents`, the `count` slots from `head` on.

### Plic

`platform_setup` writes the registers before there is a second thread:
`InitHart` maps the instance of a hart (`plic_init_for_this_hart`),
`SetThreshold`, `EnableSources` and `NextTarget` are the loops of
`PLIC_setup_bidirectional_interrupts`. A priority is a set of bits, because
`PLIC_N_priority_set` only ever ors, into a register that all targets of an
instance share. Source ids are those of `PLIC_calculate_source_id`, 32 per hart,
so that a hart's types share one 32-bit pending register.

From then on one step is one access to a pending register, or work nobody else
sees. `RaiseTyped` is `PLIC_trigger_typed_interrupt` by any hart, C0 included;
its write of the pending register assigns the whole register. `Look` is one turn
of the claim's scan, `Load` and `Store` are the two halves of its `&= ~mask`, and
the handlers of both loops follow. Source 33, which only commented-out code would
raise, and the `interrupts_sent` counters, which are printed only, are left out.
`raised` counts the interrupts per instance, because that is where the pending
register of the harts it serves is.
In the running program the tiles raise `IRQ_MESH_NODE` only and the supervision
runs the legacy loop only; the module covers the other types and the enhanced
loop, which `c0_controller.c` offers and a demonstration function uses.

### AddressMap, FlatMemory and HalTransfer

`AddressMap` holds the layout as constants, whose assumption states the order of
`mem_map.h`, and both answers of the address manager: `AddrToPtr` searches the
buffers in the order of the code, `GetAddressRegion` decides by constants. An
address counts cells of 4 KiB, which divide every base and size of `mem_map.h`.

`HalTransfer` is the HAL with its drivers. A thread makes a `Call`, takes
`hal_mutex` (`Acquire`), is refused (`Reject`, which stands for every error path
and leaves through the same unlocking) or runs the driver: in one step where the
driver has no state (`CopyDirectly`, `MemoryRead`, `MemoryWrite`, `Query`), as
`DmacConfigure`, `DmacCopy`, `DmacFinish` for the DMA engine, and as `NocSend`,
`NocInitArbitration`, `NocDrop` or `NocArrive`, `NocArbitrate`, `NocTransfer` for
a packet. Then it `Release`s the mutex. Nothing in the drivers' actions looks at
`hal`: that the drivers are safe has to come out of the model.

Abstractions. A `memcpy` is one step, because every access is made under
`hal_mutex` (`test_random_dma_remote` writes platform memory directly, beside
the HAL; it runs inside the print session). The registers of a DMA engine are
one cell, which is what 4 KiB are. The length of a packet is taken modulo
`LENGTH_LIMIT`, 16 cells in the code. The 24-bit limit of the DMA engine exceeds
every buffer and never refuses. `g_platform` is always set, source and
destination addresses are never 0 in a packet that was accepted, and its
destination always has a lock, so the branch without arbitration is not
reachable. `memory_write`, `memory_fill` and `memory_set` are one action. The
memory starts with distinct values, as callers fill it. Requests are bounded by
`RequestAssumption`: ranges of one `memcpy` do not overlap, and no request is
larger than the gap between two buffers of one kind (`validate_address` looks at
the two ends of a range only and would accept a range across two such buffers;
no buffer is large enough to ask for that). `Hops` divides by 4 as the HAL does,
although `platform_setup` puts the nodes on rows 0 and 2.

`FlatMemory` is one memory indexed by address. A pending call returns in one
step that has its whole effect, or is refused. `HalTransfer` refines it with the
memory as of the last `Acquire` while a call is on its way, so that the effect
appears when the mutex is released.

### HalTests

The tests are data: a sequence of steps, each a set of calls made in any order
(one call, except where `test_dmem_concurrent_access` starts two threads). A
worker (C0 or a tile) begins a test, makes its calls and returns the result.

| action | code |
| --- | --- |
| `Begin`, `Return` | entry and return of a test; on a tile `begin_print_session` and `end_print_session` around it |
| `DoStore`, `DoMove`, `DoCompare` | `memory_fill` and `memory_set`, a transfer, `memcmp` or the loop over the bytes |
| `DoQuery` | a call made for its result: `get_dmem_status` in `test_dmem_address_validation`, and those of `test_dmem_error_handling`, which the HAL has to refuse |
| `LoseMove`, `LoseStore`, `LoseRead`, `MissQuery` | the one call that goes wrong (`GoWrong`) |
| `QueueTransfers`, `AwaitTransfers` | `test_parallel_c0_access`: two transfers for the tiles, then a wait that may give up at any time, and the table that is wiped and refilled after it |

Initially either the threads were started, so that C0 runs its own tests and then
the tiles share those of `c0_run_hal_tests_distributed`, or C0 runs
`run_all_tests` alone.

Abstractions. The memories are those of `FlatMemory`, addressed by buffer and
offset. A slice is 256 bytes, the size most tests use and the period of their
patterns; its contents are the pattern it was filled with. Where a test accesses
part of a slice, the model accesses the whole slice. Large sizes keep their order
but not their value: 64 KiB are 8 slices, `DLM1_512` 16, `DMEM_512` 17, and the
destination of the parallel transfers, at 8192, is slice 4, beyond what other
tests compare. A tile gets its share of the tests when C0 has queued them, in
turn; how a task finds its tile is in `TileDispatch`. The direct writes of
`test_random_dma_remote` are made inside the session. The registers of the DMA
engine, which a move inside a tile writes into `DLM1_512`, land in slices no
test compares.

When C0 gives up waiting it wipes the table and fills it again, and a tile may
still hold a `task_t*` into it. `AwaitTransfers` has the consequences, for any slot
the task may have had (`Refilled`): a tile that took its transfer and has not
called it calls the test that is in the slot now, once more than it should be
called (`again`), or finds NULL and calls nothing; a tile that has not reported its
transfer yet marks the test in the slot as completed, and nobody takes that one
(`lost`), which can also happen when both results were there in time; and `Return`
stores the result of a transfer where `result_ptr` points by then, to the
transfer's own, to that of the test in the slot, or nowhere. In which order the
tile's reads and C0's writes lead to these outcomes is the subject of
`TileDispatch`.

The fault model is what tests are for: at most one call of the HAL goes wrong in
a run, any call of the tests in `Faulty`.

| fault | kind | what happens |
| --- | --- | --- |
| a move is lost | `data` | it reports success and moved nothing, or all but its last slice, which is what `MCHalLength` finds for a packet of 64 KiB |
| a move fails | `result` | it reports an error and moved nothing |
| a query is answered wrongly | `result` | an illegal call is accepted, a status is an error |
| a store is lost | `basis` | `memory_fill`, `memory_set` or `memory_write` stored nothing, or all but the last slice |
| a read is lost | `basis` | `memory_read` left its buffer as it was, and `memcmp` finds any answer |

A fault of kind `basis` is one the tests are blind to, because they ignore what
these calls return: when the fill of a source is lost, what was there before is
moved and compared equal. `Noticeable` therefore says nothing of it, while
`NoFalseAlarm` (no other test may fail for it) covers it. The accesses
`test_random_dma_remote` makes itself cannot go wrong (`OwnAccess`).

## 3. The runs

| run | question | instance |
| --- | --- | --- |
| `MCDispatch` | Is the dispatch correct after a clean reset, does C0 always finish, and are the invariants of the proofs ones (`LifeInv`, `AccountInv`)? | 2 tiles, 1 parallel task, 2 tests, 3 slots, 1 wait round |
| `MCDispatchParallel` | The same with both parallel tasks in flight and a table that is too small; is the invariant of the proof one? | 2 tiles, 2 parallel tasks, 3 tests, 3 slots, no wait |
| `MCDispatchEarlyReturn` | Does "All parallel HAL test tasks completed!" mean it? No. | 2 tiles, 1 parallel task, 2 tests |
| `MCDispatchDoubleExecution` | Does `taken` prevent double execution? No. | 2 tiles, 2 parallel tasks, 2 tests, 4 slots |
| `MCQueue` | Is the ring a FIFO without lost wake-ups, and do tasks keep flowing? | 3 producers, 2 consumers, 2 tasks, 2 slots |
| `MCPlicClaim` | Does the setup connect all harts, what do claims without a lock still guarantee, and is the invariant of the proof one (`LoopInv`)? | 4 harts, 7 kinds of interrupt, harts 0 and 1 raise two, the others one |
| `MCPlicLost` | Does an interrupt stay pending until it is claimed? No. | the same |
| `MCPlicLegacy` | Does the loop that runs know who sent an interrupt? No. | the same |
| `MCHal` | Is every call one step on a flat memory, without contention, does it return, and is the invariant of the proof one (`CallInv`)? | 2 threads, 3 calls out of 18 requests, 2 tiles, 2 DMEMs |
| `MCHalLength` | Does a transfer that returns its size move that much? No. | the same |
| `MCHalRegisters` | Does a move change its destination only? No. | the same |
| `MCHalTests` | Does one caller at a time make calls (`AloneInv`), do the tests fail only for their own faults, and, unless C0 gave up on the transfers, is no test done twice (`OnceInv`) and do the tests notice what they look at? | C0 and 2 tiles, 19 tests, 2 transfers, the fallback, one fault in any call of three tests |

Why the bounds are enough.

* Dispatch. Two tiles are needed for a slot to be contested and for a stale tile
  to race another; every tile runs the same code and none addresses another.
  Two tests put one in flight while the next is created, a third makes both a
  copy and a creation fail when there are three slots. What the wait does with
  300 rounds it does with one or none: it either ends early or gives up. The
  real figures (36 of 64 slots used) never fill the table, so the small tables
  check more than the program meets. `C0Finishes` needs a table that holds every
  test, which is why `MCDispatch` has three slots.
* Queue. Three producers and two consumers are more than the two slots, so each
  side can be waiting entirely, with signals competing with late arrivals. Lost
  wake-ups with one signal per operation need at least two waiters on a side.
* PLIC. Two harts on each instance: C0 and hart 1 share the one C0 claims from,
  harts 2 and 3 the other. Hart 1 raises twice, so it can hit the scan and the
  claim of its own earlier interrupt; hart 2 raises for C0 and for hart 1, into the
  same pending register; C0 raises two for harts that share an instance. Seven
  kinds give three priorities and an equal pair across harts. The setup of a pair
  of harts does not depend on how many others there are.
* HAL. Every contended step needs two threads; three calls let one thread go
  twice (stale handles, arbitration set up already). The requests are, for each
  call, a legal and an illegal one at an edge of a buffer. Lengths go up to three
  with a limit of two: below, at and above it.

* HAL tests. All tests are there, in the two distributions that matter: on a
  single tile they would follow each other in the order of the table, with two the
  orders of any two tests on different tiles occur. A third tile would only mix
  more of the same, since the session keeps them apart and every test fills what
  it compares. A single fault is the assumption. `Faulty` names one test of each
  sort: a transfer (run by a tile, its result stored late or elsewhere), the test
  that compares without clearing its destinations, and the one that consists of
  queries. Every kind of fault happens in each call of these that can have it. With
  every test in `Faulty` the states are too many for a run of minutes; the theorems
  hold for every set.

What `NoFalseAlarm` and `FaultsAreNoticed` exclude is named: the tests that
never compare are listed in `NotComparing`, and of these the two that ignore even
the result code of their transfer in `Indifferent`. With these two
(`test_noc_bandwidth`, `test_noc_latency`) a broken mesh passes. Lost stores and
reads are not noticeable. After C0 gave up on the transfers `OnceInv` and
`FaultsAreNoticed` are not claimed, because the code does not keep them: a test may
be done twice (the finding of `MCDispatchDoubleExecution`), and its second run
replaces the result of the first. `NoFalseAlarm` and `AloneInv` hold then as well;
what `NoFalseAlarm` concedes is that a failed transfer may leave its result with a
test that got its slot.

Two known oddities have no property: `addr_to_ptr` computes the base of PLIC 1
wrongly, and only the registers of PLIC 0 are ever mapped; `hal_reference.c`
takes the rows of the mesh to be tile / 4, `platform_setup` places the nodes
on rows 0 and 2; only the number of hops that is printed depends on it.

### What the repository says and the code does not do

* A task that is still being completed when C0 resets its counters is counted as
  a HAL test, so that C0 goes on before all tests are done (`c0_controller.c`,
  942).
* After the parallel test gave up, a stale `task_t*` of a tile leads to a HAL
  test being called twice (937).
* A hart's second interrupt wipes out its first (`plic.c`, 119).
* The loop that is in use attributes ids 32 to 39, and no tile has one of them
  (`c0_controller.c`, 1479); in the program as it runs nothing is pending yet when
  the supervision calls it.
* A transfer of 64 KiB over the mesh moves nothing and returns 65536
  (`hal_reference.c`, 130).
* The registers of the DMA engines lie in `DLM1_512` (`hal_dmac512.c`, 178).

`PROJECT.json` quotes the lines concerned under `findings`. The last two are part
of the promise in `FlatMemory` as it stands, so that `MCHal` can check the rest.

Two more facts hold in every run and are stated as the property
`PendingTellsWhoWorked`: nobody claims the interrupts of the tasks, which come
after the supervision, and no tile sends its shutdown notification, because C0
disables the interrupts before it stops the tiles. At the end exactly the tiles
that worked have an interrupt pending.

## 4. Fairness

* `TileDispatch!FairSpec`: weak fairness of C0 and of each tile thread, as the
  operating system schedules threads that can run. The print session is a
  mutex, and pthread mutexes are not fair; weak fairness is enough because
  between two sessions of one tile C0 or the tile runs out of tasks, so nobody is
  passed over for ever.
* `TaskQueue!FairSpec`: weak fairness of each client, for pushing, popping and
  using; none for spurious wake-ups, so progress never depends on them.
  `TasksKeepFlowing` says that the system as a whole proceeds, not each thread:
  the mutex does not promise that.
* `Plic!FairSpec`: weak fairness of C0's steps inside a loop. Nothing says that
  C0 enters a loop again.
* `HalTransfer!FairSpec`: weak fairness of each thread inside a call. The number
  of calls is finite (`MaxCalls`), because with an unfair mutex and callers that
  never stop, one of them could be passed over for ever.

## 5. What is proved

TLAPS checks the following for all values of the constants that satisfy the
assumptions named in the modules (`ConstantsAssumption`, `QueueAssumption`,
`PlicAssumption`, `AddressMapAssumption`, `RequestAssumption`, `NodeCountAssumption`,
`FaultyAssumption`). TLC evaluates
these assumptions for its instances.

| property | run | theorem |
| --- | --- | --- |
| types of `TileDispatch` | `MCDispatch` | `TypeCorrect` |
| `OneTestAtATime` | `MCDispatch` | `TestsAreSerialised` |
| `CleanInv` | `MCDispatchParallel` | `CleanAgreement` |
| `ExecutedAtMostOnce`, `SlotIsPrivate`, `WaitMeansDone` | `MCDispatch` | `DispatchedOnce`, `PrivateSlots`, `WaitIsSound` |
| `LifeInv`, `StopIsNotLost`, `PendingTellsWhoWorked` | `MCDispatch` | `ThreadLife`, `StopReachesAll`, `PendingIsWork` |
| `AccountInv`, `CountersSettle` | `MCDispatch` | `ActiveIsAccounted`, `CountersComeOut` |
| `TypeOK`, `NoLostWakeup`, `PoppedTaskIsKept`, `ImplementsFifo` of `TaskQueue` | `MCQueue` | `QueueTypeCorrect`, `NoWakeupIsLost`, `PoppedTaskSurvives`, `QueueIsFifo` |
| `TypeOK`, `LoopInv` of `Plic` | `MCPlicClaim` | `PlicTypes`, `InterruptLoop` |
| `SetupConnectsHarts`, `ClaimsWereRaised`, `HighestFirst`, `OnlyOwnTypesInterfere` | `MCPlicClaim` | `SetupConnects`, `ClaimsPaid`, `BestClaimed`, `HartsApart` |
| `UncontendedArbitration`, `EngineRunsItsRequest` | `MCHal` | `PacketsNeverContend`, `EngineIsNotShared` |
| `TypeOK`, `CallInv` of `HalTransfer` | `MCHal` | `HalTypes`, `CallProgress` |
| `ImplementsFlatMemory` | `MCHal` | `ImplementsFlat` |
| `TypeOK`, `AloneInv`, `OnceInv` of `HalTests` | `MCHalTests` | `TestTypes`, `OneCallerAtATime`, `EachTestOnce` |
| `NoFalseAlarm`, `FaultsAreNoticed` | `MCHalTests` | `OwnFaultsOnly`, `FaultsNoticed` |
| operators of `AddressMap` | | `ValidMeansOneBuffer`, `PointersAndRegionsAgree`, `AcceptedIsLegal` |

**TileDispatchProofs.** `TypeCorrect`: types hold, and the `task_t*` a working
tile holds is never NULL; `C0Ptr` and `TilePtr` make `TypeOK` inductive.
`TestsAreSerialised`: a tile between the begin and the end of the session owns
its lock (`SessionInv`), so two cannot be there, whatever the resets do; and while
C0 runs tests itself the table is still empty and no tile has a task, in the
fallback too (`C0TestsAlone`).

With a clean reset no test is called twice, no two tiles share a slot, and the
wait means that all results are stored. None of these is inductive by itself. The
invariant `CleanInv` says, while `stale = {}`: slots beyond the count are zero
(`TableInv`); a test is available in at most one slot and then neither held nor
called (`AvailableInv`), which covers both the original and the copy of a task;
tiles hold different tests and have called them once or not at all, according to
where they are (`HolderInv`); nothing is known of tests not created yet
(`FutureInv`); C0's pointer still denotes the task it filled in, as long as nobody
took it (`QueueInv`); `completed_tasks` is the number of different tests that
finished since the reset (`CountInv`), so that reaching the number of tests means
all of them. The proof has one lemma per action and conjunct the action can
disturb.

**TileLifeProofs.** `LifeInv` needs no clean reset. `StartInv`: C0 goes on only
when every thread it created is past its initialization, so that the `running`
which a tile sets there cannot overwrite the one C0 clears at the end; `StopInv`
draws that conclusion for every tile and for the ones joined; `WorkInv`: a tile
has raised its interrupt before it counts its task, and after the last claim.
`AccountInv` is the account of `active_tasks` after a clean reset: the tests C0
has accounted for, which are not yet all it has assigned, less those that
finished. The number may be one too low for a moment, because a tile can finish
a task between its assignment and its accounting; with no task left to create the
two sets are equal, hence `CountersSettle`.

**TaskQueueProofs.** `TypeOK`, `RingInv` (the tail is `count` after the head,
a popped slot is `room - 1` after the tail) and `NoLostWakeup` itself, which is
inductive: a push adds a task and wakes a consumer or finds none waiting, and a
woken thread that returns to waiting found the ring empty or full. `QueueIsFifo`
is the refinement: each step maps to a step of `BoundedFifo` or to a stutter.

**PlicProofs.** Up to eight harts, as the registers allow, any interrupts between
them and any number of each. `LoopInv` has five parts. `UsedInv`: what is pending, looked at or claimed is a
source a hart can raise and C0 has enabled. `SetupInv`: which pairs of harts the
setup has connected at each point of its two loops; since registers are shared by
the harts of an instance and only ever or-ed, it also says that a priority is
either unset or the one of its type, whichever hart was set up first. `ClaimInv`
gives each claim, each source in a handler and each source C0 can still find an
interrupt of its own: a source counts as one it can find while it is in the word
C0 loaded, so that storing the word back, which can raise the dead, still comes
out even. `ScanInv`: the best source beats what the scan has passed and what was
pending all along. `ApartInv`: an interrupt that was raised, was not claimed and
is not pending has another source of the same register that was raised, and a
register holds one hart's types, hence `OnlyOwnTypesInterfere`.

**AddressMapProofs.** `PointersAndRegionsAgree`: the search of `addr_to_ptr` and
the comparisons of `get_address_region` give the same answer about every address
outside the interrupt controller, and there is a pointer exactly where there is a
region. `ValidMeansOneBuffer`: with the gaps between buffers of one kind longer
than the range (`Gaps`) the check of a range's two ends means that all of it lies
in one buffer.

**HalRefinementProofs**, who is in a driver. `PacketsNeverContend` and
`EngineIsNotShared`, from `HalInv`: a thread past the lock owns `hal_mutex`, the call it carries out was accepted, and
a held destination lock belongs to the one thread in its transfer. `Alone` draws
the conclusion that everybody else is outside, `OwnerStep` that a step of the
owner need only care for the owner's state. The constants say that there are at
most eight tiles and eight DMEMs, which is what makes 16 locks enough
(`LockIndexType`).

**HalRefinementProofs**, the refinement of `FlatMemory`. `AcceptedIsLegal`: the
checks, spread over the HAL and the drivers and made on pointers, regions and
ids, accept exactly the calls that are legal on the flat memory. On the ranges of
an accepted call `addr_to_ptr` is linear (`RangeCells`), so `memcpy`, `memset` and
the registers of an engine do on the buffers what `Move`, `Store` and
`WithRegisters` do on addresses (`SeenCopied`, `SeenStored`, `SeenRegisters`). The
inductive invariant `EffectInv` then says for each point of each driver how much
of the effect is there relative to the memory at the last `Acquire`; at the end it
is all of it, with the right answer, or nothing (`CopyDone` to `MeshDone`,
`RejectDone`). `Call` maps to an invocation, `Release` to a return, everything
else to a stutter. `HalTypes` comes from the same facts: a driver that stays in
the range it was given reads and writes cells of the buffers only.

Two assumptions carry this and are worth knowing: the ranges of one `memcpy` do
not overlap, and no request is larger than the gap between two buffers of one
kind (see `RequestAssumption`).

**HalTestsProofs.** Any number of tiles and any order of the tests on them; the
contents of the memories are arbitrary when a test begins. The argument goes in
two halves. About the scripts alone (`ScriptsSound`, one case per test): every
comparison is preceded by a move of the same bytes in the same test, and no call
between the two, in the two threads of `test_dmem_concurrent_access` included,
writes the source or the destination (`Settles`). About the run: what is left of
a test is the end of its script (`RestInv`), one worker at a time makes calls
(`AloneInv`, with `OthersIdle` as its use), so what the moves already made have
brought is still equal when it is compared (`MovedInv`), and a test that has not
met the fault has nothing but passed comparisons behind it (`VerdictInv`). The
fault may be of any kind; a lost store or read in one test does not reach another,
because that test brings what it compares itself.
`test_dmem_data_integrity` compares with a pattern instead of the source and has
an invariant of its own, `IntegrityInv`. `TestsInv` is their conjunction. Its step
(`AllStep`) needs one fact more, `LateInv`: while C0 has not given up no tile is
busy with a transfer once the table is refilled, so that only a late transfer can
store its result elsewhere. `LateInv` in turn needs that each test is given out
once, which is why `OwnFaultsOnly` is proved in `HalFaultsProofs`.

**HalFaultsProofs.** `OwnFaultsInv` is `TestsInv`, `LateInv` and, until C0 gives
up on the transfers, `GivenOnce` and `OrderInv`; `EachTestOnce` and `OwnFaultsOnly`
follow from it. The condition costs nothing in the step: a state in which C0 has
not given up comes from one in which it had not (`OnTime`).

The other direction needs the whole history of a run: of the tests that compare,
`c0_gather`, `c0_distribute` and `test_dmem_cross_module_transfers` do not clear
their destinations. What they rely on is that no earlier test has left the pattern
there that the move is to bring. The invariant `FaultsInv` has five parts that hold
until C0 gives up (`InTimeInv`).

* `GivenOnce`, which is `OnceInv` without its condition: each test runs once. The
  share of a tile is an arithmetic progression of the table, and two of them do not
  meet (`StridesApart`, `FirstsApart`, `QueuedOnce`). When C0 has both results no
  tile still has to call a transfer, so that none calls another test instead
  (`AwaitStep`).
* `OrderInv`: C0 runs its own tests in the order of its list, and the tiles begin
  after that. Between the tiles any order is possible.
* `AbsentInv`: `Alien(x)` names, for each of the three tests, slices and the
  patterns that must not be in them when `x` begins; as long as no fault has
  happened they are not. A test that was called before `x` leaves none of them
  behind, whatever it does on the way (`RunSpares`, from `SparedTuples` for the
  tests in general and `SpareGather`, `SpareDistribute`, `SpareCross` for the
  three); `OrderInv` says which tests can come before `x`.
* `TellingInv`: about the end of a move's source and of its destination. `Due` is
  what such a slice is going to hold when the move is made: what it holds now, if
  no call in between changes it, or what a store in between brings. The two are
  different. At the beginning of a test that follows from its script and
  `AbsentInv` (`Telling`, with one lemma per kind of script), and each call
  preserves it (`DueStays`).
* `NoticeInv`: once a call went wrong its test has failed, or is `Doomed`: a
  comparison is left that finds a difference which no call before it removes. A
  move that was lost or truncated leaves the two ends as they were, different by
  `TellingInv` (`EndsDiffer`, `LostDooms`, `TruncatedEnds`); each further call
  keeps the difference or meets it (`DoomedCall`); and when no call is left, none
  can be doomed (`NoneLeft`). A refused move counts as a lost one where the test
  only prints the result.

It is enough to look at the last slice of each move: a truncated move is wrong
there, and a lost one is wrong there as well. `parallel_c0_access` only stores in
the part C0 makes itself (`ParallelSafe`); the transfers are tests of their own.

The run `MCHalTests` checks what the theorems state and not `FaultsInv` as a whole,
which takes too long for a run kept with the others.

Model-checked only: the liveness properties `C0Finishes`, `TasksKeepFlowing`,
`LoopReturns` and `CallsReturn`, because proofs under fairness are out of the
prover's reach. What the six runs with expected violations refute is false for the
instances they run on; that is all a counterexample says.

## 6. What is not modelled

* Functions without callers: of the PLIC the features, trigger types, disabling,
  the clearing of a priority, `PLIC_init` and `PLIC_clear`; `dmem_read`,
  `dmem_write`, `dmem_init` and the DMEM registers; `ptr_to_addr`;
  `task_queue_is_empty`; `test_concurrent_dma`, which only prints.
  `task_queue_destroy` ends a queue nobody uses.
* The bit fields of the DMA registers. They are written, but the copy goes by the
  fields of the engine's handle, and `HAL_DMAC512IsBusy`, which would read the busy
  bit (with the mask of the mode, bit 8, and not the documented bit 0), has no
  caller: no behaviour depends on a bit.
* The interrupt queue and the interrupt packets, which are commented out.
* Output, timing and statistics.
* `main`, which calls the setup and the suite, and the empty stubs.

## 7. Plan

Done, in this order because the dispatch is what the program is about and the
HAL what it is for: dispatch with its proof, queue with its refinement, PLIC, HAL
with its refinement, first proofs about the HAL; then C0's own tests and the
fallback in the dispatch, the setup of the PLIC and C0's own interrupts, and the
HAL tests with a fault model.

The dispatch and the PLIC stay separate modules. Where they meet, a tile raises
`IRQ_MESH_NODE` for C0, once per task, and nobody claims after the first task was
created: a set of tiles, `pending` in `TileDispatch`, is all of the registers that
shows there.

Then the proofs: the dispatch after a clean reset, the life of its threads and
its counters; the queue; the PLIC; the address map and, on it, the HAL's
refinement of `FlatMemory`; the HAL tests, of which one at a time makes calls, so
that none fails for what another one did, and each notices the moves and queries
that went wrong in it.
Every safety property the runs check is now a theorem.

Left: composing `HalTests` with `FlatMemory` formally. Both describe the same
memory, one by offset in a buffer and in slices of 256 bytes, the other by
address in cells; `AddressMapProofs` has what connects them, but no module states
the mapping.
