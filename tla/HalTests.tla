------------------------------ MODULE HalTests ------------------------------
(***************************************************************************)
(* The tests of hal_tests/ as clients of the memory FlatMemory describes:  *)
(* every call of g_hal is one step.  C0 runs its own tests, two tiles run  *)
(* the transfers of test_parallel_c0_access, then the tiles run the table  *)
(* of c0_run_hal_tests_distributed, each test inside a print session.      *)
(* When the threads could not be started C0 runs run_all_tests alone.      *)
(* How a task gets to its tile is the subject of TileDispatch.             *)
(*                                                                         *)
(* Memory is cut into slices of 256 bytes, the size most tests use and the *)
(* period of the patterns; an access to part of a slice counts as one to   *)
(* the slice.  Large sizes keep their order and not their value.           *)
(*                                                                         *)
(* The fault model: at most one call of the HAL goes wrong, any call of    *)
(* the tests in Faulty: a move, a store, a read or a call that is made for *)
(* its result.  The tests are there to notice that, and nothing else.      *)
(***************************************************************************)
EXTENDS Integers, Sequences, SequencesExt

CONSTANTS
    NodeCount,      \* C0 is node 0, the tiles 1 .. NodeCount - 1 run tasks
    Faulty          \* the tests in whose calls the fault may happen

ASSUME NodeCountAssumption == NodeCount \in Nat /\ NodeCount > 2

C0 == 0
Tiles == 1 .. NodeCount - 1
Workers == {C0} \cup Tiles
Nobody == NodeCount

-----------------------------------------------------------------------------
(***************************************************************************)
(* The memories and what a slice of them can hold                          *)
(***************************************************************************)

KiB64 == 8          \* slices a transfer of 64 KiB stands for
DLM1_512_SIZE == 2 * KiB64
DMEM_512_SIZE == DLM1_512_SIZE + 1
PARALLEL == 4       \* the slice at + 8192, beyond what the other tests compare

\* The tiles whose DLM1_512 a test names, and those that run the transfers.
UsedTiles == {0, 1, 2, 4} \cup Tiles

Memories == ({"dmem"} \X (0 .. 7)) \cup ({"dlm1"} \X UsedTiles)
Slices(m) == 0 .. (IF m[1] = "dmem" THEN DMEM_512_SIZE ELSE DLM1_512_SIZE) - 1

\* Slice i of a memory.
Dmem(d, i) == [of |-> <<"dmem", d>>, at |-> i]
Dlm1(t, i) == [of |-> <<"dlm1", t>>, at |-> i]

\* memory_fill stores value + i, a test's own fill seed ^ i, in byte i.
Ramp(value) == <<"ramp", value % 256>>
Xor(seed) == <<"xor", seed>>
Zero == <<"set", 0>>

-----------------------------------------------------------------------------
(***************************************************************************)
(* The tests.  A test is a sequence of steps, a step the set of calls its  *)
(* threads make in any order: one, except in test_dmem_concurrent_access.  *)
(***************************************************************************)

Store(to, n, x) == {[op |-> "store", to |-> to, n |-> n, data |-> x]}
Compare(a, b, n) == {[op |-> "compare", a |-> a, b |-> b, n |-> n]}
CompareWith(a, n, x) == {[op |-> "expect", a |-> a, n |-> n, data |-> x]}

\* A move whose result is only printed, and one whose result is tested.
Move(from, to, n) ==
    {[op |-> "move", from |-> from, to |-> to, n |-> n, checked |-> FALSE]}
CheckedMove(from, to, n) ==
    {[op |-> "move", from |-> from, to |-> to, n |-> n, checked |-> TRUE]}

\* A call that is only there for its result: get_dmem_status, and the calls
\* the HAL has to refuse.
Query(what) == {[op |-> "query", what |-> what]}

MoveCase(from, to, n, x, move) ==
    <<Store(from, n, x), Store(to, n, Zero), move, Compare(from, to, n)>>

CopyCase(from, to, n, x) == MoveCase(from, to, n, x, Move(from, to, n))
CheckedCase(from, to, n, x) == MoveCase(from, to, n, x, CheckedMove(from, to, n))

\* Eight transfers, each with its comparison: the k-th step of the two loops.
MoveOrCompare(k, from, to) ==
    IF k % 2 = 1 THEN Move(from, to, 1) ELSE Compare(from, to, 1)

c0_gather ==
    [d \in 1 .. 8 |-> Store(Dmem(d - 1, 0), 1, Ramp(\h10 + d - 1))]
    \o [k \in 1 .. 16 |->
            LET d == (k - 1) \div 2 IN MoveOrCompare(k, Dmem(d, 0), Dlm1(0, d))]

\* The slice that is broadcast is always the first one.
c0_distribute ==
    [d \in 1 .. 8 |-> Store(Dlm1(0, d - 1), 1, Ramp(\hE0 + d - 1))]
    \o [k \in 1 .. 16 |->
            LET d == (k - 1) \div 2 IN MoveOrCompare(k, Dlm1(0, 0), Dmem(d, 0))]

dmem_data_integrity ==
    <<Store(Dmem(0, 0), 4, Ramp(0)), Store(Dmem(1, 0), 4, Zero),
      CheckedMove(Dmem(0, 0), Dmem(1, 0), 4), CompareWith(Dmem(1, 0), 4, Ramp(0))>>

dmem_concurrent_access ==
    <<Store(Dmem(0, 0), 4, Ramp(\hCC)), Store(Dmem(2, 0), 4, Ramp(\h33)),
      Store(Dmem(1, 0), 4, Zero), Store(Dmem(3, 0), 4, Zero),
      CheckedMove(Dmem(0, 0), Dmem(1, 0), 4) \cup CheckedMove(Dmem(2, 0), Dmem(3, 0), 4),
      Compare(Dmem(0, 0), Dmem(1, 0), 4), Compare(Dmem(2, 0), Dmem(3, 0), 4)>>

dmem_cross_module_transfers ==
    <<Store(Dmem(0, 0), 1, Ramp(\h11)), Store(Dmem(1, 0), 2, Ramp(\h22)),
      Store(Dmem(2, 0), 4, Ramp(\h33)),
      CheckedMove(Dmem(0, 0), Dmem(3, 0), 1), CheckedMove(Dmem(1, 0), Dmem(6, 0), 2),
      CheckedMove(Dmem(2, 0), Dmem(7, 0), 4),
      Compare(Dmem(0, 0), Dmem(3, 0), 1), Compare(Dmem(1, 0), Dmem(6, 0), 2),
      Compare(Dmem(2, 0), Dmem(7, 0), 4)>>

\* The ramp starts k bytes into the slice.
AlignmentCase(k) == CheckedCase(Dmem(0, 0), Dmem(1, 0), 1, Ramp(\h5A + 256 - k))

cpu_local_move == CopyCase(Dlm1(0, 0), Dlm1(0, 1), 1, Ramp(\h55))
dma_local_transfer == CopyCase(Dlm1(1, 0), Dlm1(1, 1), 1, Ramp(\hAA))
dma_remote_transfer == CopyCase(Dlm1(2, 0), Dmem(5, 0), 1, Ramp(\h5A))

noc_bandwidth == <<Move(Dlm1(0, 0), Dlm1(0, KiB64), KiB64)>>
noc_latency == <<Move(Dlm1(0, 0), Dmem(0, 0), 1)>>

random_dma_remote ==
    CopyCase(Dlm1(0, 0), Dmem(5, 0), 1, Xor(\hA5))
    \o CopyCase(Dlm1(4, 0), Dmem(7, 0), 1, Xor(\h5A))

dmem_basic_functionality == CheckedCase(Dmem(0, 0), Dmem(1, 0), 1, Ramp(\hAA))

dmem_large_transfers ==
    CheckedCase(Dmem(0, 0), Dmem(1, 0), DMEM_512_SIZE, Ramp(\h55))

dmem_address_validation ==
    <<CheckedMove(Dmem(0, 0), Dmem(1, 0), 4), CheckedMove(Dmem(0, 0), Dmem(7, 0), 4),
      Query("dmem0_status"), Query("dmem1_status"), Query("dmem7_status")>>

dmem_boundary_conditions ==
    <<CheckedMove(Dmem(0, 0), Dmem(1, 0), 1),
      CheckedMove(Dmem(0, DMEM_512_SIZE - 1), Dmem(1, 0), 1)>>

dmem_error_handling == <<Query("zero_size"), Query("null_read")>>
dmem_performance_basic == <<CheckedMove(Dmem(0, 0), Dmem(1, 0), KiB64)>>

dmem_alignment_testing == AlignmentCase(1) \o AlignmentCase(3) \o AlignmentCase(7)

\* tile_to_c0_transfer_task moves from the tile it finds itself on.
tile_to_c0_transfer_task(w) ==
    <<Store(Dlm1(w, 0), 2, Ramp(\h10 + w)),
      CheckedMove(Dlm1(w, 0), Dmem(0, PARALLEL), 2)>>

\* What C0 does in test_parallel_c0_access before it queues the two tasks.
parallel_c0_access == <<Store(Dmem(0, PARALLEL), 4, Zero)>>

Transfers == {"transfer_A", "transfer_B"}

Script(test, w) ==
    IF test \in Transfers THEN tile_to_c0_transfer_task(w) ELSE
    [cpu_local_move |-> cpu_local_move,
     dma_local_transfer |-> dma_local_transfer,
     dma_remote_transfer |-> dma_remote_transfer,
     noc_bandwidth |-> noc_bandwidth,
     noc_latency |-> noc_latency,
     random_dma_remote |-> random_dma_remote,
     c0_gather |-> c0_gather,
     c0_distribute |-> c0_distribute,
     parallel_c0_access |-> parallel_c0_access,
     dmem_basic_functionality |-> dmem_basic_functionality,
     dmem_large_transfers |-> dmem_large_transfers,
     dmem_address_validation |-> dmem_address_validation,
     dmem_data_integrity |-> dmem_data_integrity,
     dmem_concurrent_access |-> dmem_concurrent_access,
     dmem_boundary_conditions |-> dmem_boundary_conditions,
     dmem_error_handling |-> dmem_error_handling,
     dmem_performance_basic |-> dmem_performance_basic,
     dmem_cross_module_transfers |-> dmem_cross_module_transfers,
     dmem_alignment_testing |-> dmem_alignment_testing][test]

\* hal_tests[] of c0_run_hal_tests_distributed.
hal_tests ==
    <<"cpu_local_move", "dma_local_transfer", "dma_remote_transfer", "noc_bandwidth",
      "noc_latency", "random_dma_remote", "dmem_basic_functionality",
      "dmem_large_transfers", "dmem_address_validation", "dmem_data_integrity",
      "dmem_concurrent_access", "dmem_boundary_conditions", "dmem_error_handling",
      "dmem_performance_basic", "dmem_cross_module_transfers", "dmem_alignment_testing">>

c0_tests == <<"c0_gather", "c0_distribute", "parallel_c0_access">>

\* run_all_tests
all_tests ==
    <<"cpu_local_move", "dma_local_transfer", "dma_remote_transfer", "c0_gather",
      "c0_distribute", "noc_bandwidth", "noc_latency", "random_dma_remote">>

\* The tests that get the slots the transfers had in the table: each test
\* takes two, one of them for its copy.
Refilled == {hal_tests[1], hal_tests[2]}

Tests == ToSet(hal_tests) \cup ToSet(c0_tests) \cup Transfers
NoTest == "none"

ASSUME FaultyAssumption == Faulty \subseteq Tests

-----------------------------------------------------------------------------
VARIABLES
    mem,            \* memory -> slice -> contents
    phase,          \* how far C0 is
    todo,           \* worker -> the tests it still has to run
    test,           \* worker -> the test it runs
    rest,           \* worker -> the steps of that test that are left
    ok,             \* worker -> no comparison or result of that test was wrong
    session,        \* owner of print_session_lock
    result,         \* test -> what it returned
    timedOut,       \* history: C0 gave up waiting for the transfers
    fault           \* history: the call that went wrong, with its test

vars == <<mem, phase, todo, test, rest, ok, session, result, timedOut, fault>>
runVars == <<phase, todo, timedOut>>

NoFault == [test |-> NoTest, kind |-> "none"]

\* What is wrong with a call: its result, what it moved, or what the test goes
\* by (a source that was not filled, a buffer that was not read).
FaultKinds == {"result", "data", "basis"}

\* platform_setup allocates the memories with calloc.  The threads were
\* started, or C0 runs everything itself.
Init ==
    /\ mem = [m \in Memories |-> [i \in Slices(m) |-> Zero]]
    /\ \/ phase = "c0" /\ todo = [w \in Workers |-> IF w = C0 THEN c0_tests ELSE << >>]
       \/ phase = "fallback" /\ todo = [w \in Workers |-> IF w = C0 THEN all_tests ELSE << >>]
    /\ test = [w \in Workers |-> NoTest]
    /\ rest = [w \in Workers |-> << >>]
    /\ ok = [w \in Workers |-> TRUE]
    /\ session = Nobody
    /\ result = [x \in Tests |-> "none"]
    /\ timedOut = FALSE
    /\ fault = NoFault

-----------------------------------------------------------------------------
(***************************************************************************)
(* A worker starts a test, makes its calls, returns the result             *)
(***************************************************************************)

Enter(w) ==
    /\ test[w] = NoTest /\ todo[w] # << >>
    /\ test' = [test EXCEPT ![w] = Head(todo[w])]
    /\ rest' = [rest EXCEPT ![w] = Script(Head(todo[w]), w)]
    /\ todo' = [todo EXCEPT ![w] = Tail(@)]
    /\ ok' = [ok EXCEPT ![w] = TRUE]
    /\ UNCHANGED <<mem, phase, result, timedOut, fault>>

\* begin_print_session; C0 calls its tests outside any session.
BeginSession(w) == session = Nobody /\ session' = w

\* Mutant: the tests of the tiles are not kept apart.
BeginAtOnce(w) == Enter(w) /\ UNCHANGED session

Begin(w) == Enter(w) /\ (IF w = C0 THEN UNCHANGED session ELSE BeginSession(w))

\* The calls the threads of w's test can make now.
Open(w) == IF rest[w] = << >> THEN {} ELSE Head(rest[w])

\* The step ends with the last of its calls.
Call(w, c) ==
    /\ rest' = [rest EXCEPT ![w] =
            IF Head(@) = {c} THEN Tail(@) ELSE <<Head(@) \ {c}>> \o Tail(@)]
    /\ UNCHANGED <<runVars, test, session, result>>

Passes(w, good) == ok' = [ok EXCEPT ![w] = @ /\ good]

\* The i-th slice from s on, and mem with the contents new from slice to on.
At(s, i) == mem[s.of][s.at + i]

Replaced(to, new) ==
    [mem EXCEPT ![to.of] = [i \in DOMAIN @ |->
        IF i - to.at \in DOMAIN new THEN new[i - to.at] ELSE @[i]]]

Copied(c, n) == Replaced(c.to, [i \in 0 .. n - 1 |-> At(c.from, i)])

DoStore(w) == \E c \in Open(w) :
    /\ c.op = "store" /\ Call(w, c)
    /\ mem' = Replaced(c.to, [i \in 0 .. c.n - 1 |-> c.data])
    /\ UNCHANGED <<ok, fault>>

DoMove(w) == \E c \in Open(w) :
    /\ c.op = "move" /\ Call(w, c)
    /\ mem' = Copied(c, c.n)
    /\ UNCHANGED <<ok, fault>>

\* Mutant: only what dump32 shows of the data is compared.
MatchesHead(c) ==
    At(c.a, 0) = IF c.op = "expect" THEN c.data ELSE At(c.b, 0)

\* memcmp over all the bytes that were moved.
Matches(c) == \A i \in 0 .. c.n - 1 :
    At(c.a, i) = IF c.op = "expect" THEN c.data ELSE At(c.b, i)

DoCompare(w) == \E c \in Open(w) :
    /\ c.op \in {"compare", "expect"} /\ Call(w, c)
    /\ Passes(w, Matches(c))
    /\ UNCHANGED <<mem, fault>>

DoQuery(w) == \E c \in Open(w) :
    /\ c.op = "query" /\ Call(w, c)
    /\ UNCHANGED <<mem, ok, fault>>

\* test_random_dma_remote fills and compares the memories itself.
OwnAccess == {"random_dma_remote"}

\* The one call that goes wrong.
Fail(w, kind) ==
    /\ test[w] \in Faulty /\ fault = NoFault
    /\ fault' = [test |-> test[w], kind |-> kind]

\* A move reports success and moved nothing, or all but its last slice; or it
\* reports an error and moved nothing.
LoseMove(w) == \E c \in Open(w) :
    /\ c.op = "move" /\ Call(w, c)
    /\ \/ Fail(w, "data") /\ UNCHANGED <<mem, ok>>
       \/ Fail(w, "data") /\ c.n > 1 /\ mem' = Copied(c, c.n - 1) /\ UNCHANGED ok
       \/ Fail(w, "result") /\ UNCHANGED mem /\ Passes(w, ~c.checked)

\* memory_fill, memory_set or memory_write stores nothing, or all but the last
\* slice; no test looks at their results.
LoseStore(w) == \E c \in Open(w), n \in {0, 1} :
    /\ c.op = "store" /\ test[w] \notin OwnAccess /\ Call(w, c)
    /\ Fail(w, "basis")
    /\ mem' = Replaced(c.to, [i \in 0 .. n * (c.n - 1) - 1 |-> c.data])
    /\ UNCHANGED ok

\* memory_read leaves its buffer as it was, and memcmp finds what it finds.
LoseRead(w) == \E c \in Open(w), good \in BOOLEAN :
    /\ c.op \in {"compare", "expect"} /\ test[w] \notin OwnAccess /\ Call(w, c)
    /\ Fail(w, "basis") /\ Passes(w, good)
    /\ UNCHANGED mem

\* A call that is made for its result gives the wrong one.
MissQuery(w) == \E c \in Open(w) :
    /\ c.op = "query" /\ Call(w, c)
    /\ Fail(w, "result") /\ Passes(w, FALSE)
    /\ UNCHANGED mem

GoWrong(w) == LoseMove(w) \/ LoseStore(w) \/ LoseRead(w) \/ MissQuery(w)

Verdict(b) == IF b THEN "pass" ELSE "fail"

Leave(w) ==
    /\ test[w] \notin {NoTest, "parallel_c0_access"} /\ rest[w] = << >>
    /\ test' = [test EXCEPT ![w] = NoTest]
    /\ UNCHANGED <<mem, runVars, rest, ok, fault>>

\* Mutant: the print session is not ended.
ReturnInSession(w) ==
    /\ Leave(w)
    /\ result' = [result EXCEPT ![test[w]] = Verdict(ok[w])]
    /\ UNCHANGED session

\* The result is stored through the task's result_ptr, then
\* end_print_session.  A transfer that runs on after the table was reset finds
\* NULL there, or the pointer of the test that got its slot.
Return(w) ==
    /\ Leave(w)
    /\ LET at(x) == [result EXCEPT ![x] = Verdict(ok[w])]
       IN  \/ result' = at(test[w])
          \/ /\ phase = "hal" /\ test[w] \in Transfers
             /\ result' = result \/ \E x \in Refilled : result' = at(x)
    /\ session' = IF w = C0 THEN session ELSE Nobody

-----------------------------------------------------------------------------
(***************************************************************************)
(* C0 between the tests                                                    *)
(***************************************************************************)

\* The tasks go to the tiles in turn.  With `first' tasks queued already this
\* is the first of the next ones that w gets.
FirstOf(w, first) == ((w - 1 - first) % (NodeCount - 1)) + 1

\* Mutant: the original of a queued task is not taken out of the table, and
\* the next tile finds it as well.
QueuedAgain(tests, first) == [w \in Workers |-> IF w = C0 THEN << >> ELSE tests]

\* It gets every (NodeCount - 1)-th from there on.
Queued(tests, first) ==
    [w \in Workers |->
        LET k == FirstOf(w, first)
            n == IF w = C0 \/ k > Len(tests) THEN 0
                 ELSE (Len(tests) - k) \div (NodeCount - 1) + 1
        IN  [i \in 1 .. n |-> tests[k + (i - 1) * (NodeCount - 1)]]]

\* test_parallel_c0_access queues its two tasks once it has cleared the
\* destination; its result is only known when C0 has waited for them.
QueueTransfers ==
    /\ phase = "c0" /\ test[C0] = "parallel_c0_access" /\ rest[C0] = << >>
    /\ todo' = Queued(<<"transfer_A", "transfer_B">>, 0)
    /\ phase' = "transfers"
    /\ UNCHANGED <<mem, test, rest, ok, session, result, timedOut, fault>>

Answered == \A x \in Transfers : result[x] # "none"

\* The tiles the transfers were queued to.
Carriers == {w \in Tiles : Queued(<<"transfer_A", "transfer_B">>, 0)[w] # << >>}

\* C0 stops waiting, with or without both results, wipes the table and fills
\* it again.  Each transfer's task_t now is another test's: a tile that took
\* the transfer and has still to call it calls that test, or finds NULL and
\* calls nothing (again), and a tile that has still to report its transfer
\* sets completed for that test, which then nobody may take (lost).
AwaitTransfers ==
    /\ phase = "transfers"
    /\ timedOut' = ~Answered
    /\ result' = [result EXCEPT !["parallel_c0_access"] =
            Verdict(\A x \in Transfers : result[x] = "pass")]
    /\ test' = [test EXCEPT ![C0] = NoTest]
    /\ \E slot \in [Carriers -> Refilled],
          again \in SUBSET {w \in Carriers : todo[w] # << >>} :
       \E lost \in SUBSET {slot[w] : w \in Carriers} :
          todo' = [w \in Workers |->
              (IF w \in again THEN <<slot[w]>> ELSE << >>)
              \o LET share == Queued(hal_tests, 2)[w]
                 IN  IF share # << >> /\ Head(share) \in lost THEN Tail(share) ELSE share]
    /\ phase' = "hal"
    /\ UNCHANGED <<mem, rest, ok, session, fault>>

Work(w) ==
    \/ Begin(w)
    \/ DoStore(w) \/ DoMove(w) \/ DoCompare(w) \/ DoQuery(w)
    \/ GoWrong(w)
    \/ Return(w)

AllDone == \A w \in Workers : todo[w] = << >> /\ test[w] = NoTest

Terminated == phase \in {"hal", "fallback"} /\ AllDone /\ UNCHANGED vars

Next ==
    \/ QueueTransfers \/ AwaitTransfers
    \/ \E w \in Workers : Work(w)
    \/ Terminated

Spec == Init /\ [][Next]_vars

-----------------------------------------------------------------------------
(***************************************************************************)
(* Properties                                                              *)
(***************************************************************************)

\* Every variable has its type, the print session belongs to a tile that is
\* in a test, and a test that is over leaves neither a session nor a call
\* behind (begin_print_session and end_print_session around test_func).
TypeOK ==
    /\ DOMAIN mem = Memories /\ \A m \in Memories : DOMAIN mem[m] = Slices(m)
    /\ phase \in {"c0", "transfers", "hal", "fallback"}
    /\ todo \in [Workers -> Seq(Tests)]
    /\ test \in [Workers -> Tests \cup {NoTest}]
    /\ DOMAIN rest = Workers
    /\ ok \in [Workers -> BOOLEAN]
    /\ result \in [Tests -> {"none", "pass", "fail"}]
    /\ fault = NoFault \/ fault \in [test : Tests, kind : FaultKinds]
    /\ timedOut \in BOOLEAN
    /\ session \in Tiles \cup {Nobody}
    /\ \A w \in Tiles : session = w => test[w] # NoTest
    /\ \A w \in Workers : test[w] = NoTest => rest[w] = << >>

\* A test fails only when one of its own calls went wrong: not because of what
\* earlier tests left in the memories they share (half of them write DMEM0 and
\* DMEM1), of the order the tiles run them in, of a fault another test ran
\* into, or of a tile that is still busy with its transfer.  C0's parallel
\* test also fails when C0 gave up waiting, or for the fault of one of its
\* transfers; and when C0 gave up, so may one of the tests that got their
\* slots, because a transfer stores its result through its old task_t.
NoFalseAlarm ==
    \A x \in Tests : result[x] = "fail" =>
        \/ fault.test = x
        \/ x = "parallel_c0_access" /\ (timedOut \/ fault.test \in Transfers)
        \/ x \in Refilled /\ timedOut /\ fault.test \in Transfers

\* The tests that never look at what was moved, and of these the two that do
\* not even look at the result code.
NotComparing ==
    Transfers \cup {"noc_bandwidth", "noc_latency", "dmem_address_validation",
                    "dmem_boundary_conditions", "dmem_performance_basic"}
Indifferent == {"noc_bandwidth", "noc_latency"}

Noticeable(f) ==
    CASE f.kind = "data" -> f.test \notin NotComparing
      [] f.kind = "result" -> f.test \notin Indifferent
      [] f.kind = "basis" -> FALSE

\* Unless C0 gave up waiting, a test that has finished has noticed the call of
\* its own that moved too little or answered wrongly, if it looks at that at
\* all: the data it expected was nowhere in the destination by accident,
\* neither from an earlier test nor from an earlier case of the same test.
\* After C0 gave up a test may be run a second time and overwrite its result
\* (see NeverExecutedTwice in TileDispatch).  A store or a read that was lost
\* is no such call: the test moves and compares what was there before.
FaultsAreNoticed == ~timedOut =>
    \A x \in Tests :
        fault.test = x /\ result[x] # "none" /\ Noticeable(fault) => result[x] = "fail"
=============================================================================
