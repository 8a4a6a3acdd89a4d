----------------------------- MODULE HalTestsInv ------------------------------
(***************************************************************************)
(* Why a test of hal_tests/ only fails for a fault of its own: the         *)
(* inductive invariant of HalTests.  At any time one worker makes calls,   *)
(* so that what a move of its test has brought to the destination is there *)
(* when the test compares it.                                              *)
(***************************************************************************)
EXTENDS HalTests

\* The steps of w's test, and the one it is at.
Steps(w) == Script(test[w], w)
Pos(w) == Len(Steps(w)) - Len(rest[w]) + 1

\* w has still to make call c of step q.
Left(w, q, c) == q \in Pos(w) .. Len(Steps(w)) /\ c \in rest[w][q - Pos(w) + 1]

-----------------------------------------------------------------------------
\* r is what is left of S after k steps and some of the calls of the next one.
EndOf(S, k, r) ==
    /\ k + Len(r) = Len(S)
    /\ \A i \in 1 .. Len(r) :
          r[i] # {} /\ r[i] \subseteq S[k + i] /\ (i > 1 => r[i] = S[k + i])

\* What is left of a test is the end of its script.
RestInv ==
    \A w \in Workers :
        test[w] # NoTest =>
            /\ Len(rest[w]) \in 0 .. Len(Steps(w))
            /\ rest[w] = [i \in 1 .. Len(rest[w]) |-> rest[w][i]]
            /\ EndOf(Steps(w), Pos(w) - 1, rest[w])

\* A tile in a test is in the print session; C0 makes calls only before the
\* tiles have tasks.
AloneInv ==
    /\ \A w \in Tiles : session = w <=> test[w] # NoTest
    /\ phase \in {"c0", "fallback"} =>
          \A w \in Tiles : test[w] = NoTest /\ todo[w] = << >>
    /\ phase \in {"transfers", "hal"} => todo[C0] = << >> /\ rest[C0] = << >>
    /\ phase = "hal" => test[C0] = NoTest

-----------------------------------------------------------------------------
\* A store or a move of e leaves the n slices from s alone.
Clear(e, s, n) ==
    \/ e.to.of # s.of
    \/ e.to.at + e.n <= s.at
    \/ s.at + n <= e.to.at

Writes(e) == e.op \in {"store", "move"}

\* The move d of step j brings what step q compares with c, and no other call
\* up to there touches it.
Settles(S, j, d, q, c) ==
    /\ j < q
    /\ c.op = "compare" /\ d.op = "move" /\ d.from = c.a /\ d.to = c.b /\ d.n = c.n
    /\ Clear(d, c.a, c.n)
    /\ \A i \in j .. q : \A e \in S[i] :
          Writes(e) => (i = j /\ e = d) \/ (Clear(e, c.a, c.n) /\ Clear(e, c.b, c.n))

\* The worker's test has not met the fault.
Sane(w) == test[w] # NoTest /\ fault.test # test[w]

\* What was moved and has still to be compared is equal.
MovedInv ==
    \A w \in Workers : Sane(w) =>
        \A q \in 1 .. Len(Steps(w)) : \A c \in Steps(w)[q] :
            c.op = "compare" /\ Left(w, q, c) =>
                \A j \in 1 .. q - 1 : \A d \in Steps(w)[j] :
                    Settles(Steps(w), j, d, q, c) /\ ~Left(w, j, d) => Matches(c)

\* test_dmem_data_integrity compares with what it wrote and not with what it
\* moved.
IntegrityInv ==
    \A w \in Workers : Sane(w) /\ test[w] = "dmem_data_integrity" =>
        /\ Pos(w) \in {2, 3} => \A i \in 0 .. 3 : At(Dmem(0, 0), i) = Ramp(0)
        /\ Pos(w) = 4 => \A i \in 0 .. 3 : At(Dmem(1, 0), i) = Ramp(0)

\* A test that did not meet the fault is going to pass.
VerdictInv ==
    /\ \A w \in Workers : Sane(w) => ok[w]
    /\ NoFalseAlarm

TestsInv ==
    TypeOK /\ RestInv /\ AloneInv /\ MovedInv /\ IntegrityInv /\ VerdictInv
-----------------------------------------------------------------------------
(***************************************************************************)
(* Why a test notices a call that went wrong: every test runs once, what a *)
(* move brings is nowhere in its destination by accident, and a difference *)
(* stays there until it is compared.                                       *)
(***************************************************************************)

Begun(x) == result[x] # "none" \/ \E w \in Workers : test[w] = x

\* No test is given to two workers or twice to one, and none is given out that
\* has begun or has met a fault.
GivenOnce ==
    /\ \A v, w \in Workers :
          \A i \in 1 .. Len(todo[v]), j \in 1 .. Len(todo[w]) :
             todo[v][i] = todo[w][j] => v = w /\ i = j
    /\ \A w \in Workers : \A i \in 1 .. Len(todo[w]) : ~Begun(todo[w][i])
    /\ \A w \in Workers : test[w] # NoTest =>
          result[test[w]] = "none" /\ \A v \in Workers : test[v] = test[w] => v = w
    /\ fault.test # NoTest => Begun(fault.test)

\* As long as C0 has not given up on the transfers no test is done twice:
\* test_parallel_c0_access and c0_run_hal_tests_distributed get their tables
\* to the tiles one to one.  When C0 gives up, a tile that took a transfer and
\* has not called it yet calls the test that got its slot, which another tile
\* may be given as well.
OnceInv == ~timedOut => GivenOnce

\* The tests C0 makes itself, in their order.
List == IF phase = "fallback" THEN all_tests ELSE c0_tests

\* C0 is at test n of its list.
OwnInv ==
    phase \in {"c0", "fallback"} => \E n \in 0 .. Len(List) :
        /\ todo[C0] = [i \in 1 .. Len(List) - n |-> List[n + i]]
        /\ test[C0] # NoTest => n > 0 /\ test[C0] = List[n]
        /\ \A k \in 1 .. n : Begun(List[k])

\* The tiles get their tests after that.
TilesInv ==
    /\ phase \in {"transfers", "hal"} =>
          result["c0_gather"] # "none" /\ result["c0_distribute"] # "none"
    /\ phase \in {"c0", "transfers"} => \A x \in ToSet(hal_tests) : ~Begun(x)
    /\ phase = "c0" => \A x \in Transfers : ~Begun(x)
    /\ phase = "transfers" => test[C0] = "parallel_c0_access"
    /\ phase \in {"transfers", "hal"} => \A w \in Tiles :
          /\ test[w] \in Transfers \cup ToSet(hal_tests) \cup {NoTest}
          /\ \A i \in 1 .. Len(todo[w]) :
                todo[w][i] \in IF phase = "hal" THEN ToSet(hal_tests) ELSE Transfers

OrderInv == OwnInv /\ TilesInv

\* C0 has given up only when it goes on to the table, and no tile is busy with
\* a transfer then unless it has.
LateInv ==
    /\ timedOut => phase = "hal"
    /\ phase = "hal" /\ ~timedOut => \A w \in Tiles : test[w] \notin Transfers

-----------------------------------------------------------------------------
\* The last slice of the n from s.
EndSlice(s, n) == [of |-> s.of, at |-> s.at + n - 1]

\* What must not be in some slices when test x begins: the tests that do not
\* clear their destinations rely on it, and so do the slices these are copied
\* from.
Alien(x) ==
    CASE x = "c0_gather" ->
            {Dlm1(0, d) : d \in 0 .. 7} \X {Ramp(\h10 + d) : d \in 0 .. 7}
      [] x = "c0_distribute" ->
            ({Dmem(d, 0) : d \in 0 .. 7} \cup {Dlm1(2, 0)}) \X {Ramp(\hE0)}
      [] x = "dmem_cross_module_transfers" ->
            ({Dmem(0, 0), Dmem(2, 0), Dmem(3, 0), Dlm1(0, 0)} \X {Ramp(\h11)})
            \cup {<<Dmem(6, 1), Ramp(\h22)>>}
            \cup {<<Dmem(0, 3), Ramp(\h33)>>, <<Dmem(7, 3), Ramp(\h33)>>}
      [] OTHER -> {}

\* Until the fault happens no test leaves there what a later one relies on.
AbsentInv ==
    fault = NoFault =>
        \A x \in Tests : ~Begun(x) => \A p \in Alien(x) : At(p[1], 0) # p[2]

\* Store e of step k fills slice s, and then only d of step q may change it.
Brings(S, k, e, q, d, s) ==
    /\ e.op = "store" /\ s.of = e.to.of /\ s.at \in e.to.at .. e.to.at + e.n - 1
    /\ \A i \in k .. q : \A f \in S[i] :
          Writes(f) => (i = k /\ f = e) \/ (i = q /\ f = d) \/ Clear(f, s, 1)

\* What slice s is going to hold when w makes call d of step q: what it holds
\* now, when no call up to there changes it, or what a store is to bring.
Due(w, q, d, s) ==
    {x \in {At(s, 0)} : \A i \in 1 .. q : \A f \in Steps(w)[i] :
        Left(w, i, f) /\ Writes(f) => (i = q /\ f = d) \/ Clear(f, s, 1)}
    \cup {e.data : e \in {e \in UNION {Steps(w)[k] : k \in 1 .. q - 1} :
        \E k \in 1 .. q - 1 : e \in Steps(w)[k] /\ Left(w, k, e)
                                 /\ Brings(Steps(w), k, e, q, d, s)}}

\* Each move is going to bring to the end of its destination what is not
\* there.
TellingInv ==
    \A w \in Workers :
        fault = NoFault /\ test[w] \notin NotComparing \cup {NoTest} =>
            \A q \in 1 .. Len(Steps(w)) : \A d \in Steps(w)[q] :
                d.op = "move" /\ Left(w, q, d) =>
                    \E x \in Due(w, q, d, EndSlice(d.from, d.n)),
                       y \in Due(w, q, d, EndSlice(d.to, d.n)) : x # y

\* A comparison is left that finds a difference, whatever w does before it.
Doomed(w) ==
    \E q \in 1 .. Len(Steps(w)) : \E c \in Steps(w)[q] :
        /\ Left(w, q, c) /\ c.op \in {"compare", "expect"}
        /\ At(EndSlice(c.a, c.n), 0)
              # IF c.op = "expect" THEN c.data ELSE At(EndSlice(c.b, c.n), 0)
        /\ \A i \in 1 .. q : \A f \in Steps(w)[i] : Left(w, i, f) /\ Writes(f) =>
              /\ Clear(f, EndSlice(c.a, c.n), 1)
              /\ c.op = "compare" => Clear(f, EndSlice(c.b, c.n), 1)

\* A test that has met a fault it can notice has noticed it or is going to;
\* the part of test_parallel_c0_access that C0 runs itself cannot meet such a
\* fault.
NoticeInv ==
    /\ fault.test = "parallel_c0_access" => ~Noticeable(fault)
    /\ \A w \in Workers :
          test[w] # NoTest /\ fault.test = test[w] /\ Noticeable(fault) =>
             ~ok[w] \/ Doomed(w)
    /\ FaultsAreNoticed

\* What holds as long as C0 has not given up.
InTimeInv == GivenOnce /\ OrderInv /\ AbsentInv /\ TellingInv /\ NoticeInv

FaultsInv == TestsInv /\ LateInv /\ (~timedOut => InTimeInv)
=============================================================================
