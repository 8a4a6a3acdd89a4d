--------------------------- MODULE HalFaultsProofs ----------------------------
(***************************************************************************)
(* Theorems about what the tests of hal_tests/ notice, for every number of *)
(* tiles.  A test fails only for a fault of its own; and until C0 gives up *)
(* on the transfers each test runs once, and one that looks at what it     *)
(* moved fails when a move or a query of its own went wrong.               *)
(***************************************************************************)
EXTENDS HalTestsProofs

-----------------------------------------------------------------------------
(***************************************************************************)
(* Each test once.                                                         *)
(***************************************************************************)

Once(S) == \A i, j \in 1 .. Len(S) : S[i] = S[j] => i = j

\* No table names a test twice, and what the tiles run C0 does not.
LEMMA ListsOnce ==
  /\ Once(c0_tests) /\ Once(all_tests) /\ Once(hal_tests)
  /\ Once(<<"transfer_A", "transfer_B">>)
BY DEF Once, c0_tests, all_tests, hal_tests

LEMMA ListSets ==
  /\ \A x \in ToSet(hal_tests) : x \notin Transfers /\ x # NoTest /\ x \in Tests
  /\ \A x \in Transfers : x # NoTest /\ x \in Tests
  /\ \A i \in 1 .. Len(c0_tests) :
        c0_tests[i] \notin ToSet(hal_tests) \cup Transfers
  /\ ToSet(<<"transfer_A", "transfer_B">>) = Transfers
<1>1. \A x \in ToSet(hal_tests) : x \notin Transfers /\ x # NoTest
  BY DEF ToSet, hal_tests, Transfers, NoTest
<1>2. \A i \in 1 .. Len(c0_tests) : c0_tests[i] \notin ToSet(hal_tests) \cup Transfers
  BY DEF ToSet, hal_tests, Transfers, c0_tests
<1>3. ToSet(<<"transfer_A", "transfer_B">>) = Transfers BY DEF ToSet, Transfers
<1>4. \A x \in Transfers : x # NoTest BY DEF Transfers, NoTest
<1> QED BY <1>1, <1>2, <1>3, <1>4 DEF Tests

\* Steps of m from two places among the first m never meet.
LEMMA StridesApart ==
  ASSUME NEW m \in Nat \ {0}, NEW k \in 1 .. m, NEW l \in 1 .. m,
         NEW i \in Nat \ {0}, NEW j \in Nat \ {0},
         k + (i - 1) * m = l + (j - 1) * m
  PROVE  k = l /\ i = j
<1>1. ASSUME NEW a \in Nat, NEW b \in Nat, a < b PROVE a * m + m <= b * m
  <2>1. PICK z \in Nat : b = a + 1 + z
    <3>1. b - a - 1 \in Nat /\ b = a + 1 + (b - a - 1) BY <1>1
    <3> QED BY <3>1
  <2>2. b * m = a * m + m + z * m /\ z * m \in Nat BY <2>1
  <2>3. a * m \in Nat /\ b * m \in Nat OBVIOUS
  <2> QED BY <2>2, <2>3
<1> DEFINE a == i - 1
           b == j - 1
<1>2. a \in Nat /\ b \in Nat /\ k + a * m = l + b * m /\ (a = b => i = j) OBVIOUS
<1> HIDE DEF a, b
<1>3. a * m \in Nat /\ b * m \in Nat BY <1>2
<1>4. ~(a < b)
  <2>1. SUFFICES ASSUME a < b PROVE FALSE OBVIOUS
  <2>2. a * m + m <= b * m BY <1>1, <1>2, <2>1
  <2> QED BY <1>2, <1>3, <2>2
<1>5. ~(b < a)
  <2>1. SUFFICES ASSUME b < a PROVE FALSE OBVIOUS
  <2>2. b * m + m <= a * m BY <1>1, <1>2, <2>1
  <2> QED BY <1>2, <1>3, <2>2
<1>6. a = b BY <1>2, <1>4, <1>5
<1>7. a * m = b * m BY <1>6
<1> QED BY <1>2, <1>3, <1>6, <1>7

\* The next tests go to tiles that are all different.
LEMMA FirstsApart ==
  ASSUME NEW first \in Nat, NEW v \in Tiles, NEW w \in Tiles,
         FirstOf(v, first) = FirstOf(w, first)
  PROVE  v = w
<1> DEFINE m == NodeCount - 1
           a == v - 1 - first
           b == w - 1 - first
<1>1. m \in Nat \ {0} /\ a \in Int /\ b \in Int /\ v \in 1 .. m /\ w \in 1 .. m
      /\ a - b = v - w
  BY NodeCountAssumption DEF Tiles
<1>2. a % m = b % m
  <2>1. a % m \in Int /\ b % m \in Int BY <1>1, Division
  <2>2. (a % m) + 1 = (b % m) + 1 BY DEF FirstOf
  <2> HIDE DEF a, b, m
  <2> QED BY <2>1, <2>2
<1> HIDE DEF a, b, m
<1>3. \A c \in Int : c \div m \in Int /\ c = m * (c \div m) + (c % m) BY <1>1
<1>4. PICK x \in Int, y \in Int : a = m * x + (a % m) /\ b = m * y + (b % m)
  BY <1>1, <1>3
<1>5. a % m \in Int /\ b % m \in Int BY <1>1, Division
<1>6. m * x \in Int /\ m * y \in Int BY <1>1
<1>7. v - w = m * x - m * y
  <2>1. \A r, s, t \in Int : a = s + r /\ b = t + r => a - b = s - t BY <1>1
  <2> QED BY <1>1, <1>2, <1>4, <1>5, <1>6, <2>1
<1>8. \A s, t \in Int : s < t => m * s + m <= m * t
  <2>1. ASSUME NEW s \in Int, NEW t \in Int, s < t PROVE m * s + m <= m * t
    <3>1. PICK z \in Nat : t = s + 1 + z
      <4>1. t - s - 1 \in Nat /\ t = s + 1 + (t - s - 1) BY <2>1
      <4> QED BY <4>1
    <3>2. m * t = m * s + m + m * z /\ m * z \in Nat /\ m * s \in Int BY <1>1, <3>1
    <3> QED BY <1>1, <3>2
  <2> QED BY <2>1
<1>9. ~(x < y) BY <1>1, <1>6, <1>7, <1>8
<1>10. ~(y < x) BY <1>1, <1>6, <1>7, <1>8
<1>11. x = y BY <1>9, <1>10
<1> QED BY <1>1, <1>6, <1>7, <1>11

\* The tests of a table are dealt out one to one.
LEMMA QueuedOnce ==
  ASSUME NEW tests \in Seq(Tests), NEW first \in Nat, Once(tests)
  PROVE  /\ \A w \in Workers : \A i \in 1 .. Len(Queued(tests, first)[w]) :
               Queued(tests, first)[w][i] \in ToSet(tests)
         /\ \A v, w \in Workers :
               \A i \in 1 .. Len(Queued(tests, first)[v]),
                  j \in 1 .. Len(Queued(tests, first)[w]) :
                  Queued(tests, first)[v][i] = Queued(tests, first)[w][j]
                     => v = w /\ i = j
<1> DEFINE Q == Queued(tests, first)
           m == NodeCount - 1
           At0(w, i) == FirstOf(w, first) + (i - 1) * m
<1>1. ASSUME NEW w \in Workers
      PROVE  /\ FirstOf(w, first) \in 1 .. m /\ m \in Nat \ {0}
             /\ \A i \in 1 .. Len(Q[w]) :
                  /\ Q[w][i] = tests[At0(w, i)] /\ At0(w, i) \in 1 .. Len(tests)
                  /\ w \in Tiles
  <2> DEFINE k == FirstOf(w, first)
  <2>1. Len(tests) \in Nat OBVIOUS
  <2> HIDE DEF m, k
  <2>2. /\ m \in Nat \ {0} /\ k \in 1 .. m
        /\ \E n \in Nat :
             /\ Q[w] = [i \in 1 .. n |-> tests[k + (i - 1) * m]]
             /\ \A i \in 1 .. n : k + (i - 1) * m \in 1 .. Len(tests)
             /\ w = C0 => n = 0
    BY <2>1, QueuedAt DEF m, k
  <2> HIDE DEF Q
  <2>3. PICK n \in Nat :
             /\ Q[w] = [i \in 1 .. n |-> tests[k + (i - 1) * m]]
             /\ \A i \in 1 .. n : k + (i - 1) * m \in 1 .. Len(tests)
             /\ w = C0 => n = 0
    BY <2>2
  <2>4. Len(Q[w]) = n BY <2>3
  <2>5. \A i \in 1 .. n : Q[w][i] = tests[k + (i - 1) * m] BY <2>3
  <2>6. \A i \in 1 .. n : w # C0 BY <2>3
  <2>7. w # C0 => w \in Tiles BY DEF Workers
  <2>8. \A i \in 1 .. n : At0(w, i) = k + (i - 1) * m BY DEF k
  <2> HIDE DEF At0
  <2> QED BY <2>2, <2>3, <2>4, <2>5, <2>6, <2>7, <2>8 DEF k
<1> HIDE DEF Q, m, At0
<1>2. \A w \in Workers : \A i \in 1 .. Len(Q[w]) : Q[w][i] \in ToSet(tests)
  <2>1. \A i \in 1 .. Len(tests) : tests[i] \in ToSet(tests) BY DEF ToSet
  <2> QED BY <1>1, <2>1
<1>3. ASSUME NEW v \in Workers, NEW w \in Workers,
             NEW i \in 1 .. Len(Q[v]), NEW j \in 1 .. Len(Q[w]), Q[v][i] = Q[w][j]
      PROVE  v = w /\ i = j
  <2>1. At0(v, i) = At0(w, j)
    <3>1. /\ Q[v][i] = tests[At0(v, i)] /\ At0(v, i) \in 1 .. Len(tests)
          /\ Q[w][j] = tests[At0(w, j)] /\ At0(w, j) \in 1 .. Len(tests)
      BY <1>1
    <3> QED BY <1>3, <3>1 DEF Once
  <2>2. /\ m \in Nat \ {0} /\ FirstOf(v, first) \in 1 .. m /\ FirstOf(w, first) \in 1 .. m
        /\ i \in Nat \ {0} /\ j \in Nat \ {0} /\ v \in Tiles /\ w \in Tiles
    BY <1>1
  <2>3. FirstOf(v, first) + (i - 1) * m = FirstOf(w, first) + (j - 1) * m
    BY <2>1 DEF At0
  <2>4. FirstOf(v, first) = FirstOf(w, first) /\ i = j
    <3> DEFINE k == FirstOf(v, first)
               l == FirstOf(w, first)
    <3>1. k \in 1 .. m /\ l \in 1 .. m /\ k + (i - 1) * m = l + (j - 1) * m
      BY <2>2, <2>3
    <3> HIDE DEF k, l
    <3>2. k = l /\ i = j BY <2>2, <3>1, StridesApart
    <3> QED BY <3>2 DEF k, l
  <2> QED BY <2>2, <2>4, FirstsApart
<1> QED BY <1>2, <1>3 DEF Q

\* The tests a worker has left are tests, and no test is called NoTest.
LEMMA TodoTypes ==
  ASSUME TypeOK
  PROVE  /\ \A w \in Workers : \A i \in 1 .. Len(todo[w]) :
               todo[w][i] \in Tests /\ todo[w][i] # NoTest
         /\ \A w \in Workers : test[w] # NoTest => test[w] \in Tests
         /\ fault.test # NoTest => fault.test \in Tests
<1>1. todo \in [Workers -> Seq(Tests)] /\ test \in [Workers -> Tests \cup {NoTest}]
  BY DEF TypeOK
<1>2. fault.test # NoTest => fault.test \in Tests BY DEF TypeOK, NoFault
<1>3. ASSUME NEW w \in Workers, NEW i \in 1 .. Len(todo[w])
      PROVE  todo[w][i] \in Tests /\ todo[w][i] # NoTest
  <2>1. todo[w] \in Seq(Tests) BY <1>1
  <2>2. todo[w][i] \in Tests BY <2>1
  <2> QED BY <2>2, NoTestIsNone
<1> QED BY <1>1, <1>2, <1>3

\* Beginning a test: it is the first of those that are left.
LEMMA FirstTaken ==
  ASSUME TypeOK, NEW w \in Workers, Begin(w)
  PROVE  /\ test[w] = NoTest /\ 1 \in 1 .. Len(todo[w]) /\ test'[w] = todo[w][1]
         /\ \A v \in Workers : \A i \in 1 .. Len(todo'[v]) :
              LET k == IF v = w THEN i + 1 ELSE i
              IN  k \in 1 .. Len(todo[v]) /\ todo'[v][i] = todo[v][k]
         /\ \A v \in Workers \ {w} : test'[v] = test[v] /\ todo'[v] = todo[v]
         /\ todo'[w] = Tail(todo[w])
         /\ UNCHANGED <<phase, result, fault, mem>>
         /\ \A y \in Tests : Begun(y)' <=> Begun(y) \/ y = todo[w][1]
<1>1. /\ test[w] = NoTest /\ todo[w] # << >>
      /\ test' = [test EXCEPT ![w] = Head(todo[w])]
      /\ todo' = [todo EXCEPT ![w] = Tail(@)]
      /\ UNCHANGED <<phase, result, fault, mem>>
  BY DEF Begin, Enter
<1>2. todo \in [Workers -> Seq(Tests)] /\ test \in [Workers -> Tests \cup {NoTest}]
  BY DEF TypeOK
<1>3. todo[w] \in Seq(Tests) BY <1>2
<1>4. /\ 1 \in 1 .. Len(todo[w]) /\ Head(todo[w]) = todo[w][1]
      /\ \A i \in 1 .. Len(Tail(todo[w])) :
            i + 1 \in 1 .. Len(todo[w]) /\ Tail(todo[w])[i] = todo[w][i + 1]
  BY <1>1, <1>3
<1>5. test'[w] = todo[w][1] /\ todo'[w] = Tail(todo[w])
      /\ \A v \in Workers \ {w} : test'[v] = test[v] /\ todo'[v] = todo[v]
  BY <1>1, <1>2, <1>4
<1>6. ASSUME NEW v \in Workers, NEW i \in 1 .. Len(todo'[v])
      PROVE  LET k == IF v = w THEN i + 1 ELSE i
             IN  k \in 1 .. Len(todo[v]) /\ todo'[v][i] = todo[v][k]
  BY <1>4, <1>5
<1>7. ASSUME NEW y \in Tests PROVE Begun(y)' <=> Begun(y) \/ y = todo[w][1]
  <2>1. y # test[w] BY <1>1, NoTestIsNone
  <2> QED BY <1>1, <1>5, <2>1 DEF Begun
<1> QED BY <1>1, <1>4, <1>5, <1>6, <1>7

\* Ending a test leaves it begun.
LEMMA EndedBegun ==
  ASSUME TypeOK, NEW w \in Workers, test[w] # NoTest, NEW r, r # "none",
         test' = [test EXCEPT ![w] = NoTest], result' = [result EXCEPT ![test[w]] = r]
  PROVE  /\ \A y \in Tests : Begun(y)' <=> Begun(y)
         /\ test'[w] = NoTest /\ \A v \in Workers \ {w} : test'[v] = test[v]
         /\ result'[test[w]] = r
         /\ \A y \in Tests \ {test[w]} : result'[y] = result[y]
<1>1. /\ test \in [Workers -> Tests \cup {NoTest}] /\ DOMAIN result = Tests
      /\ test[w] \in Tests
  BY DEF TypeOK
<1>2. /\ test'[w] = NoTest /\ \A v \in Workers \ {w} : test'[v] = test[v]
      /\ result'[test[w]] = r /\ \A y \in Tests \ {test[w]} : result'[y] = result[y]
  BY <1>1
<1>3. ASSUME NEW y \in Tests PROVE Begun(y)' <=> Begun(y)
  <2>1. CASE y = test[w] BY <1>2, <2>1 DEF Begun
  <2>2. CASE y # test[w] BY <1>2, <2>2, NoTestIsNone DEF Begun
  <2> QED BY <2>1, <2>2
<1> QED BY <1>2, <1>3

\* No worker is busy with a transfer that C0 no longer waits for.
InTime == phase = "hal" => \A w \in Workers : test[w] \notin Transfers

\* As long as C0 has not given up.
LEMMA OnTime ==
  ASSUME TypeOK, AloneInv, LateInv, [Next]_vars, ~timedOut'
  PROVE  ~timedOut /\ InTime
<1>1. timedOut' = timedOut \/ phase = "transfers"
  <2>1. ASSUME NEW w \in Workers, Calling(w) PROVE timedOut' = timedOut
    BY <2>1, CallingTypes
  <2>2. ASSUME NEW w \in Workers, Begin(w) \/ Return(w) PROVE timedOut' = timedOut
    BY <2>2 DEF Begin, Enter, Return, Leave, runVars
  <2>3. QueueTransfers => timedOut' = timedOut BY DEF QueueTransfers
  <2>4. AwaitTransfers => phase = "transfers" BY DEF AwaitTransfers
  <2>5. UNCHANGED vars => timedOut' = timedOut BY DEF vars
  <2> QED BY <2>1, <2>2, <2>3, <2>4, <2>5, StepKinds
<1>2. ~timedOut BY <1>1 DEF LateInv
<1>3. ASSUME phase = "hal", NEW w \in Workers PROVE test[w] \notin Transfers
  <2>1. test[C0] = NoTest BY <1>3 DEF AloneInv
  <2>2. NoTest \notin Transfers BY VerdictParts
  <2> QED BY <1>2, <1>3, <2>1, <2>2 DEF LateInv, Workers
<1> QED BY <1>2, <1>3 DEF InTime

\* A result is stored.
LEMMA ReturnStep ==
  ASSUME TypeOK, InTime, NEW w \in Workers, Return(w)
  PROVE  /\ test[w] # NoTest /\ rest[w] = << >> /\ test[w] # "parallel_c0_access"
         /\ \A y \in Tests : Begun(y)' <=> Begun(y)
         /\ test'[w] = NoTest /\ \A v \in Workers \ {w} : test'[v] = test[v]
         /\ result'[test[w]] = Verdict(ok[w])
         /\ \A y \in Tests \ {test[w]} : result'[y] = result[y]
         /\ UNCHANGED <<mem, phase, todo, rest, ok, fault>>
<1>1. /\ test[w] # NoTest /\ rest[w] = << >> /\ test[w] # "parallel_c0_access"
      /\ test' = [test EXCEPT ![w] = NoTest]
      /\ result' = [result EXCEPT ![test[w]] = Verdict(ok[w])]
      /\ UNCHANGED <<mem, phase, todo, rest, ok, fault>>
  BY DEF Return, Leave, runVars, InTime
<1>2. Verdict(ok[w]) # "none" BY DEF Verdict
<1> QED BY <1>1, <1>2, EndedBegun

\* C0 has both results: the transfers are over, and the tiles get tests of the
\* list, each of them once.
LEMMA AwaitStep ==
  ASSUME TypeOK, GivenOnce, TilesInv, AwaitTransfers, ~timedOut'
  PROVE  /\ test[C0] = "parallel_c0_access" /\ phase = "transfers" /\ phase' = "hal"
         /\ \A v \in Workers : \A i \in 1 .. Len(todo'[v]) :
               todo'[v][i] \in ToSet(hal_tests)
         /\ \A v, u \in Workers :
               \A i \in 1 .. Len(todo'[v]), j \in 1 .. Len(todo'[u]) :
                  todo'[v][i] = todo'[u][j] => v = u /\ i = j
         /\ \A v \in Tiles : test[v] \notin Transfers
         /\ \A y \in Tests : Begun(y)' <=> Begun(y)
         /\ test'[C0] = NoTest /\ \A v \in Workers \ {C0} : test'[v] = test[v]
         /\ \A y \in Tests \ {"parallel_c0_access"} : result'[y] = result[y]
         /\ UNCHANGED <<mem, rest, ok, fault>>
<1> DEFINE r == Verdict(\A x \in Transfers : result[x] = "pass")
           Q == Queued(hal_tests, 2)
<1>1. /\ phase = "transfers" /\ phase' = "hal"
      /\ test' = [test EXCEPT ![C0] = NoTest]
      /\ result' = [result EXCEPT !["parallel_c0_access"] = r]
      /\ UNCHANGED <<mem, rest, ok, fault>>
  BY DEF AwaitTransfers
<1>2. r # "none" BY DEF Verdict
<1>5. \A x \in Transfers : result[x] # "none" BY DEF AwaitTransfers, Answered
<1> HIDE DEF r, Q
<1>3. test[C0] = "parallel_c0_access" /\ C0 \in Workers
  BY <1>1 DEF TilesInv, Workers
<1>4. test[C0] # NoTest BY <1>3 DEF NoTest
<1>6. ASSUME NEW v \in Tiles PROVE test[v] \notin Transfers
  <2>1. SUFFICES ASSUME test[v] \in Transfers PROVE FALSE OBVIOUS
  <2>2. v \in Workers /\ test[v] # NoTest BY <2>1, VerdictParts DEF Workers
  <2>3. result[test[v]] = "none" BY <2>2 DEF GivenOnce
  <2> QED BY <1>5, <2>1, <2>3
<1>7. ASSUME NEW v \in Tiles PROVE todo[v] = << >>
  <2>1. SUFFICES ASSUME todo[v] # << >> PROVE FALSE OBVIOUS
  <2>2. v \in Workers /\ todo[v] \in Seq(Tests) BY DEF Workers, TypeOK
  <2>3. 1 \in 1 .. Len(todo[v]) BY <2>1, <2>2
  <2>4. todo[v][1] \in Transfers BY <1>1, <2>3 DEF TilesInv
  <2>5. ~Begun(todo[v][1]) BY <2>2, <2>3 DEF GivenOnce
  <2> QED BY <1>5, <2>4, <2>5 DEF Begun
<1>8. /\ Q \in [Workers -> Seq(Tests)]
      /\ \A v \in Workers : \A i \in 1 .. Len(Q[v]) : Q[v][i] \in ToSet(hal_tests)
      /\ \A v, u \in Workers : \A i \in 1 .. Len(Q[v]), j \in 1 .. Len(Q[u]) :
            Q[v][i] = Q[u][j] => v = u /\ i = j
  BY ListTypes, ListsOnce, QueuedTypes, QueuedOnce DEF Q
<1>9. ASSUME NEW v \in Workers
      PROVE  \E d \in {0, 1} : \A i \in 1 .. Len(todo'[v]) :
                i + d \in 1 .. Len(Q[v]) /\ todo'[v][i] = Q[v][i + d]
  <2>1. PICK again, share :
           /\ todo'[v] = again \o share
           /\ \/ again = << >>
              \/ v \in Tiles /\ todo[v] # << >> /\ \E x \in Refilled : again = <<x>>
           /\ share = Q[v] \/ (Q[v] # << >> /\ share = Tail(Q[v]))
    BY AwaitTodo DEF Q
  <2>2. again = << >> BY <1>7, <2>1
  <2>3. Q[v] \in Seq(Tests) BY <1>8
  <2>4. CASE share = Q[v]
    <3>1. todo'[v] = Q[v] BY <2>1, <2>2, <2>3, <2>4
    <3>2. \A i \in 1 .. Len(Q[v]) : i + 0 = i OBVIOUS
    <3> QED BY <3>1, <3>2
  <2>5. CASE Q[v] # << >> /\ share = Tail(Q[v])
    <3>1. todo'[v] = Tail(Q[v]) BY <2>1, <2>2, <2>3, <2>5
    <3>2. \A i \in 1 .. Len(Tail(Q[v])) :
             i + 1 \in 1 .. Len(Q[v]) /\ Tail(Q[v])[i] = Q[v][i + 1]
      BY <2>3, <2>5
    <3> QED BY <3>1, <3>2
  <2> QED BY <2>1, <2>4, <2>5
<1>10. ASSUME NEW v \in Workers, NEW i \in 1 .. Len(todo'[v])
       PROVE  todo'[v][i] \in ToSet(hal_tests)
  BY <1>8, <1>9
<1>11. ASSUME NEW v \in Workers, NEW u \in Workers,
              NEW i \in 1 .. Len(todo'[v]), NEW j \in 1 .. Len(todo'[u]),
              todo'[v][i] = todo'[u][j]
       PROVE  v = u /\ i = j
  <2>1. PICK d \in {0, 1} : \A k \in 1 .. Len(todo'[v]) :
                k + d \in 1 .. Len(Q[v]) /\ todo'[v][k] = Q[v][k + d]
    BY <1>9
  <2>2. PICK e \in {0, 1} : \A k \in 1 .. Len(todo'[u]) :
                k + e \in 1 .. Len(Q[u]) /\ todo'[u][k] = Q[u][k + e]
    BY <1>9
  <2>3. v = u /\ i + d = j + e BY <1>8, <1>11, <2>1, <2>2
  <2>4. todo'[v] \in Seq(Tests) /\ Q[v] \in Seq(Tests) BY <1>8, AwaitTypes
  <2>5. i \in Nat /\ j \in Nat OBVIOUS
  <2>6. d = e
    <3>1. SUFFICES ASSUME d # e PROVE FALSE OBVIOUS
    <3>2. 1 \in 1 .. Len(todo'[v]) BY <2>4
    <3>3. 1 + d \in 1 .. Len(Q[v]) /\ 1 + e \in 1 .. Len(Q[v])
          /\ Q[v][1 + d] = Q[v][1 + e]
      BY <2>1, <2>2, <2>3, <3>2
    <3>4. 1 + d = 1 + e BY <1>8, <3>3
    <3> QED BY <3>1, <3>4
  <2> QED BY <2>3, <2>5, <2>6
<1>12. /\ \A y \in Tests : Begun(y)' <=> Begun(y)
       /\ test'[C0] = NoTest /\ \A v \in Workers \ {C0} : test'[v] = test[v]
       /\ \A y \in Tests \ {"parallel_c0_access"} : result'[y] = result[y]
  BY <1>1, <1>2, <1>3, <1>4, EndedBegun
<1> QED BY <1>1, <1>3, <1>6, <1>10, <1>11, <1>12

\* GivenOnce in the next state, for a test at a time.
LEMMA OncePrime ==
  ASSUME TypeOK',
         \A v, u \in Workers : \A i \in 1 .. Len(todo'[v]), j \in 1 .. Len(todo'[u]) :
            todo'[v][i] = todo'[u][j] => v = u /\ i = j,
         \A v \in Workers : \A i \in 1 .. Len(todo'[v]) : \A y \in Tests :
            y = todo'[v][i] => ~Begun(y)',
         \A v \in Workers : test'[v] # NoTest =>
            result'[test'[v]] = "none" /\ \A u \in Workers : test'[u] = test'[v] => u = v,
         \A y \in Tests : y = fault'.test => Begun(y)'
  PROVE  GivenOnce'
<1>1. ASSUME NEW v \in Workers, NEW i \in 1 .. Len(todo'[v]) PROVE todo'[v][i] \in Tests
  <2>1. todo' \in [Workers -> Seq(Tests)] BY DEF TypeOK
  <2>2. todo'[v] \in Seq(Tests) BY <2>1
  <2> QED BY <2>2
<1>2. fault'.test # NoTest => fault'.test \in Tests BY DEF TypeOK, NoFault
<1> QED BY <1>1, <1>2 DEF GivenOnce, Begun

LEMMA OnceStep ==
  ASSUME TypeOK, InTime, AloneInv, GivenOnce, OrderInv, [Next]_vars, ~timedOut'
  PROVE  GivenOnce'
<1>7. TypeOK' BY TestsStep
<1>8. \A y \in Tests : y = fault.test => Begun(y) BY NoTestIsNone DEF GivenOnce
<1>1. ASSUME NEW w \in Workers, Calling(w) PROVE GivenOnce'
  <2>1. /\ test[w] \in Tests /\ UNCHANGED <<todo, test, result>>
        /\ fault' = fault \/ fault'.test = test[w]
    BY <1>1, CallingTypes
  <2>2. \A y : Begun(y)' <=> Begun(y) BY <2>1 DEF Begun
  <2>3. \A y \in Tests : y = fault'.test => Begun(y) BY <1>8, <2>1 DEF Begun
  <2>4. \A v \in Workers : \A i \in 1 .. Len(todo[v]) : \A y \in Tests :
           y = todo[v][i] => ~Begun(y)
    BY DEF GivenOnce
  <2> QED BY <1>7, <2>1, <2>2, <2>3, <2>4, OncePrime DEF GivenOnce
<1>2. ASSUME NEW w \in Workers, Begin(w) PROVE GivenOnce'
  <2> DEFINE K(v, i) == IF v = w THEN i + 1 ELSE i
  <2>1. /\ test[w] = NoTest /\ 1 \in 1 .. Len(todo[w]) /\ test'[w] = todo[w][1]
        /\ \A v \in Workers : \A i \in 1 .. Len(todo'[v]) :
              K(v, i) \in 1 .. Len(todo[v]) /\ todo'[v][i] = todo[v][K(v, i)]
        /\ \A v \in Workers \ {w} : test'[v] = test[v]
        /\ UNCHANGED <<result, fault>>
        /\ \A y \in Tests : Begun(y)' <=> Begun(y) \/ y = todo[w][1]
    BY <1>2, FirstTaken
  <2>2. \A v \in Workers, i \in Nat \ {0} : v = w => K(v, i) # 1 OBVIOUS
  <2>3. \A v, i, j : i \in Nat /\ j \in Nat /\ K(v, i) = K(v, j) => i = j OBVIOUS
  <2> HIDE DEF K
  <2>4. ASSUME NEW v \in Workers, NEW u \in Workers,
               NEW i \in 1 .. Len(todo'[v]), NEW j \in 1 .. Len(todo'[u]),
               todo'[v][i] = todo'[u][j]
        PROVE  v = u /\ i = j
    <3>1. PICK k \in 1 .. Len(todo[v]) : k = K(v, i) /\ todo'[v][i] = todo[v][k] BY <2>1
    <3>2. PICK l \in 1 .. Len(todo[u]) : l = K(u, j) /\ todo'[u][j] = todo[u][l] BY <2>1
    <3>3. todo[v][k] = todo[u][l] BY <2>4, <3>1, <3>2
    <3>4. v = u /\ k = l BY <3>3 DEF GivenOnce
    <3>5. i \in Nat /\ j \in Nat OBVIOUS
    <3> QED BY <2>3, <3>1, <3>2, <3>4, <3>5
  <2>5. ASSUME NEW v \in Workers, NEW i \in 1 .. Len(todo'[v]),
               NEW y \in Tests, y = todo'[v][i]
        PROVE  ~Begun(y)'
    <3>1. ~Begun(y)
      <4>1. PICK k \in 1 .. Len(todo[v]) : todo'[v][i] = todo[v][k] BY <2>1
      <4>2. ~Begun(todo[v][k]) BY DEF GivenOnce
      <4> QED BY <2>5, <4>1, <4>2
    <3>2. todo'[v][i] # todo[w][1]
      <4>1. SUFFICES ASSUME todo'[v][i] = todo[w][1] PROVE FALSE OBVIOUS
      <4>2. v = w /\ K(v, i) = 1 BY <2>1, <4>1 DEF GivenOnce
      <4> QED BY <2>2, <4>2
    <3> QED BY <2>1, <2>5, <3>1, <3>2
  <2>6. todo[w][1] \in Tests /\ ~Begun(todo[w][1]) BY <2>1, TodoTypes DEF GivenOnce
  <2>7. ASSUME NEW v \in Workers, test'[v] # NoTest
        PROVE  result'[test'[v]] = "none" /\ \A u \in Workers : test'[u] = test'[v] => u = v
    <3>1. CASE v = w BY <2>1, <2>6, <3>1 DEF Begun
    <3>2. CASE v # w
      <4>1. test'[v] = test[v] /\ Begun(test[v]) BY <2>1, <3>2 DEF Begun
      <4>2. test'[w] # test[v] BY <2>1, <2>6, <4>1
      <4> QED BY <2>1, <2>7, <4>1, <4>2 DEF GivenOnce
    <3> QED BY <3>1, <3>2
  <2>8. \A y \in Tests : y = fault'.test => Begun(y)' BY <1>8, <2>1
  <2> QED BY <1>7, <2>4, <2>5, <2>7, <2>8, OncePrime
<1>3. ASSUME NEW w \in Workers, Return(w) PROVE GivenOnce'
  <2>1. /\ test[w] # NoTest
        /\ \A y \in Tests : Begun(y)' <=> Begun(y)
        /\ test'[w] = NoTest /\ \A v \in Workers \ {w} : test'[v] = test[v]
        /\ \A y \in Tests \ {test[w]} : result'[y] = result[y]
        /\ UNCHANGED <<todo, fault>>
    BY <1>3, ReturnStep
  <2>2. \A v \in Workers : \A i \in 1 .. Len(todo'[v]) : \A y \in Tests :
           y = todo'[v][i] => ~Begun(y)'
    BY <2>1 DEF GivenOnce
  <2>3. ASSUME NEW v \in Workers, test'[v] # NoTest
        PROVE  result'[test'[v]] = "none" /\ \A u \in Workers : test'[u] = test'[v] => u = v
    <3>1. v # w /\ test'[v] = test[v] /\ test[v] # test[w] /\ test[v] \in Tests
      BY <2>1, <2>3, TodoTypes DEF GivenOnce
    <3> QED BY <2>1, <2>3, <3>1 DEF GivenOnce
  <2>4. \A y \in Tests : y = fault'.test => Begun(y)' BY <1>8, <2>1
  <2>5. \A v, u \in Workers : \A i \in 1 .. Len(todo'[v]), j \in 1 .. Len(todo'[u]) :
           todo'[v][i] = todo'[u][j] => v = u /\ i = j
    BY <2>1 DEF GivenOnce
  <2> QED BY <1>7, <2>2, <2>3, <2>4, <2>5, OncePrime
<1>4. ASSUME QueueTransfers PROVE GivenOnce'
  <2> DEFINE AB == <<"transfer_A", "transfer_B">>
  <2>1. /\ phase = "c0" /\ todo' = Queued(AB, 0) /\ UNCHANGED <<test, result, fault>>
    BY <1>4 DEF QueueTransfers
  <2>2. AB \in Seq(Tests) /\ Once(AB) /\ ToSet(AB) = Transfers
    BY ListTypes, ListsOnce, ListSets
  <2> HIDE DEF AB
  <2>3. /\ \A v \in Workers : \A i \in 1 .. Len(todo'[v]) : todo'[v][i] \in Transfers
        /\ \A v, u \in Workers :
              \A i \in 1 .. Len(todo'[v]), j \in 1 .. Len(todo'[u]) :
                 todo'[v][i] = todo'[u][j] => v = u /\ i = j
    BY <2>1, <2>2, QueuedOnce
  <2>4. \A y : Begun(y)' <=> Begun(y) BY <2>1 DEF Begun
  <2>5. \A x \in Transfers : ~Begun(x) BY <2>1 DEF OrderInv, TilesInv
  <2>6. \A v \in Workers : \A i \in 1 .. Len(todo'[v]) : \A y \in Tests :
           y = todo'[v][i] => ~Begun(y)'
    BY <2>3, <2>4, <2>5
  <2>7. \A y \in Tests : y = fault'.test => Begun(y)' BY <1>8, <2>1, <2>4
  <2>8. \A v \in Workers : test'[v] # NoTest =>
           result'[test'[v]] = "none" /\ \A u \in Workers : test'[u] = test'[v] => u = v
    BY <2>1 DEF GivenOnce
  <2> QED BY <1>7, <2>3, <2>6, <2>7, <2>8, OncePrime
<1>5. ASSUME AwaitTransfers PROVE GivenOnce'
  <2>1. /\ test[C0] = "parallel_c0_access" /\ phase = "transfers"
        /\ \A y \in Tests : Begun(y)' <=> Begun(y)
        /\ test'[C0] = NoTest /\ \A v \in Workers \ {C0} : test'[v] = test[v]
        /\ \A y \in Tests \ {"parallel_c0_access"} : result'[y] = result[y]
        /\ fault' = fault
    BY <1>5, AwaitStep DEF OrderInv
  <2>3. /\ \A v \in Workers : \A i \in 1 .. Len(todo'[v]) :
              todo'[v][i] \in ToSet(hal_tests)
        /\ \A v, u \in Workers :
              \A i \in 1 .. Len(todo'[v]), j \in 1 .. Len(todo'[u]) :
                 todo'[v][i] = todo'[u][j] => v = u /\ i = j
    BY <1>5, AwaitStep DEF OrderInv
  <2>4. \A x \in ToSet(hal_tests) : x \in Tests /\ ~Begun(x)'
    BY <2>1, ListSets DEF OrderInv, TilesInv
  <2>5. ASSUME NEW v \in Workers, test'[v] # NoTest
        PROVE  result'[test'[v]] = "none" /\ \A u \in Workers : test'[u] = test'[v] => u = v
    <3>1. /\ v # C0 /\ test'[v] = test[v] /\ test[v] # NoTest /\ test[v] \in Tests
          /\ C0 \in Workers
      BY <2>1, <2>5, TodoTypes DEF Workers
    <3>2. test[v] # "parallel_c0_access" BY <2>1, <3>1 DEF GivenOnce
    <3> QED BY <2>1, <2>5, <3>1, <3>2 DEF GivenOnce
  <2>6. \A y \in Tests : y = fault'.test => Begun(y)' BY <1>8, <2>1
  <2>7. \A v \in Workers : \A i \in 1 .. Len(todo'[v]) : \A y \in Tests :
           y = todo'[v][i] => ~Begun(y)'
    BY <2>3, <2>4
  <2> QED BY <1>7, <2>3, <2>5, <2>6, <2>7, OncePrime
<1>6. ASSUME UNCHANGED vars PROVE GivenOnce'
  BY <1>6 DEF vars, GivenOnce, Begun
<1> QED BY <1>1, <1>2, <1>3, <1>4, <1>5, <1>6, StepKinds

\* C0's list, and what is on it.
LEMMA Lists ==
  ASSUME TypeOK, phase \in {"c0", "fallback"}
  PROVE  /\ List \in Seq(Tests) /\ Len(List) \in Nat
         /\ phase = "c0" => List = c0_tests
         /\ phase = "fallback" => List = all_tests
         /\ \A n \in 1 .. Len(List) : List[n] \in Tests
<1>1. List \in Seq(Tests) BY ListTypes DEF List
<1>2. phase = "c0" => List = c0_tests BY DEF List
<1>3. phase = "fallback" => List = all_tests BY DEF List
<1> QED BY <1>1, <1>2, <1>3

LEMMA OwnStep ==
  ASSUME TypeOK, InTime, AloneInv, OwnInv, [Next]_vars PROVE OwnInv'
<1> SUFFICES ASSUME phase' \in {"c0", "fallback"}
             PROVE  \E n \in 0 .. Len(List') :
                      /\ todo'[C0] = [i \in 1 .. Len(List') - n |-> List'[n + i]]
                      /\ test'[C0] # NoTest => n > 0 /\ test'[C0] = List'[n]
                      /\ \A k \in 1 .. n : \A y \in Tests : y = List'[k] => Begun(y)'
  <2>1. TypeOK' BY TestsStep
  <2>2. phase' \in {"c0", "fallback"} => \A k \in 1 .. Len(List') : List'[k] \in Tests
    BY ListTypes DEF List
  <2>3. ASSUME phase' \in {"c0", "fallback"},
               NEW n \in 0 .. Len(List'),
               \A k \in 1 .. n : \A y \in Tests : y = List'[k] => Begun(y)'
        PROVE  \A k \in 1 .. n : (result'[List'[k]] # "none"
                                    \/ \E w \in Workers : test'[w] = List'[k])
    <3>1. ASSUME NEW k \in 1 .. n
          PROVE  result'[List'[k]] # "none" \/ \E w \in Workers : test'[w] = List'[k]
      <4>1. List'[k] \in Tests
        <5>1. Len(List') \in Nat BY <2>3, ListTypes DEF List
        <5>2. k \in 1 .. Len(List') BY <5>1
        <5> QED BY <2>2, <2>3, <5>2
      <4>2. PICK y \in Tests : y = List'[k] BY <4>1
      <4>3. Begun(y)' BY <2>3, <4>2
      <4> QED BY <4>2, <4>3 DEF Begun
    <3> QED BY <3>1
  <2> QED BY <2>3 DEF OwnInv, Begun
<1>1. phase' = phase
      \/ ((QueueTransfers \/ AwaitTransfers) /\ phase' \in {"transfers", "hal"})
  <2>1. ASSUME NEW w \in Workers, Calling(w) PROVE phase' = phase BY <2>1, CallingTypes
  <2>2. ASSUME NEW w \in Workers, Begin(w) PROVE phase' = phase BY <2>2, FirstTaken
  <2>3. ASSUME NEW w \in Workers, Return(w) PROVE phase' = phase BY <2>3, ReturnStep
  <2>4. UNCHANGED vars => phase' = phase BY DEF vars
  <2>5. QueueTransfers \/ AwaitTransfers => phase' \in {"transfers", "hal"}
    BY DEF QueueTransfers, AwaitTransfers
  <2> QED BY <2>1, <2>2, <2>3, <2>4, <2>5, StepKinds
<1>2. phase' = phase /\ List' = List /\ ~QueueTransfers /\ ~AwaitTransfers
  BY <1>1 DEF List, QueueTransfers, AwaitTransfers
<1>3. PICK n \in 0 .. Len(List) :
        /\ todo[C0] = [i \in 1 .. Len(List) - n |-> List[n + i]]
        /\ test[C0] # NoTest => n > 0 /\ test[C0] = List[n]
        /\ \A k \in 1 .. n : Begun(List[k])
  BY <1>2 DEF OwnInv
<1>4. Len(List) \in Nat /\ \A k \in 1 .. Len(List) : List[k] \in Tests BY <1>2, Lists
<1>5. C0 \in Workers BY DEF Workers
<1>6. ASSUME todo'[C0] = todo[C0], test'[C0] = test[C0] \/ test'[C0] = NoTest,
             \A y \in Tests : Begun(y) => Begun(y)'
      PROVE  \E k \in 0 .. Len(List') :
                /\ todo'[C0] = [i \in 1 .. Len(List') - k |-> List'[k + i]]
                /\ test'[C0] # NoTest => k > 0 /\ test'[C0] = List'[k]
                /\ \A l \in 1 .. k : \A y \in Tests : y = List'[l] => Begun(y)'
  BY <1>2, <1>3, <1>6
<1>7. ASSUME NEW w \in Workers, Calling(w)
      PROVE  /\ todo'[C0] = todo[C0] /\ (test'[C0] = test[C0] \/ test'[C0] = NoTest)
             /\ \A y \in Tests : Begun(y) => Begun(y)'
  BY <1>7, CallingTypes DEF Begun
<1>8. ASSUME NEW w \in Workers, Return(w)
      PROVE  /\ todo'[C0] = todo[C0] /\ (test'[C0] = test[C0] \/ test'[C0] = NoTest)
             /\ \A y \in Tests : Begun(y) => Begun(y)'
  BY <1>5, <1>8, ReturnStep
<1>9. ASSUME UNCHANGED vars
      PROVE  /\ todo'[C0] = todo[C0] /\ (test'[C0] = test[C0] \/ test'[C0] = NoTest)
             /\ \A y \in Tests : Begun(y) => Begun(y)'
  BY <1>9 DEF vars, Begun
<1>10. ASSUME NEW w \in Workers, Begin(w)
       PROVE  \E k \in 0 .. Len(List') :
                /\ todo'[C0] = [i \in 1 .. Len(List') - k |-> List'[k + i]]
                /\ test'[C0] # NoTest => k > 0 /\ test'[C0] = List'[k]
                /\ \A l \in 1 .. k : \A y \in Tests : y = List'[l] => Begun(y)'
  <2>1. /\ 1 \in 1 .. Len(todo[w]) /\ test'[w] = todo[w][1]
        /\ todo'[w] = Tail(todo[w])
        /\ \A y \in Tests : Begun(y)' <=> Begun(y) \/ y = todo[w][1]
    BY <1>10, FirstTaken
  <2>2. w = C0
    <3>1. w \in Tiles => todo[w] = << >> BY <1>2 DEF AloneInv
    <3> QED BY <2>1, <3>1 DEF Workers
  <2> DEFINE L == List
             m == Len(L) - n
  <2>3. m \in Nat /\ Len(todo[C0]) = m /\ m >= 1 /\ n + 1 \in 1 .. Len(L)
        /\ Len(L) - (n + 1) = m - 1
    BY <1>3, <1>4, <2>1, <2>2
  <2>4. todo[C0] = [i \in 1 .. m |-> L[n + i]] BY <1>3
  <2>5. \A i \in 1 .. m : L[n + i] \in Tests
    <3>1. \A i \in 1 .. m : n + i \in 1 .. Len(L) BY <1>4
    <3> QED BY <1>4, <3>1
  <2> HIDE DEF L, m
  <2>6. todo[C0][1] = L[n + 1] BY <2>3, <2>4
  <2>7. Tail(todo[C0]) = [i \in 1 .. m - 1 |-> L[(n + 1) + i]]
    <3>1. todo[C0] \in Seq(Tests) BY <2>3, <2>4, <2>5
    <3>2. Tail(todo[C0]) = [i \in 1 .. m - 1 |-> todo[C0][i + 1]]
      BY <2>3, <3>1
    <3>3. \A i \in 1 .. m - 1 : todo[C0][i + 1] = L[(n + 1) + i]
      <4>1. ASSUME NEW i \in 1 .. m - 1 PROVE todo[C0][i + 1] = L[(n + 1) + i]
        <5>1. i + 1 \in 1 .. m /\ n + (i + 1) = (n + 1) + i BY <2>3
        <5>2. todo[C0][i + 1] = L[n + (i + 1)] BY <2>4, <5>1
        <5> QED BY <5>1, <5>2
      <4> QED BY <4>1
    <3> QED BY <3>2, <3>3
  <2>8. \A l \in 1 .. n + 1 : \A y \in Tests : y = L[l] => Begun(y)'
    <3>1. \A l \in 1 .. n + 1 : l \in 1 .. n \/ l = n + 1 OBVIOUS
    <3> QED BY <1>3, <2>1, <2>2, <2>6, <3>1 DEF L
  <2>9. n + 1 \in 0 .. Len(L) /\ n + 1 > 0 BY <2>3
  <2> QED BY <1>2, <2>1, <2>2, <2>3, <2>6, <2>7, <2>8, <2>9 DEF L
<1> QED BY <1>2, <1>6, <1>7, <1>8, <1>9, <1>10, StepKinds

\* The next of C0's own tests is none of those the tiles run.
LEMMA OwnNext ==
  ASSUME TypeOK, OwnInv, phase = "c0", 1 \in 1 .. Len(todo[C0])
  PROVE  todo[C0][1] \notin ToSet(hal_tests) \cup Transfers
<1>1. List = c0_tests /\ Len(List) \in Nat BY Lists
<1>2. PICK n \in 0 .. Len(List) : todo[C0] = [i \in 1 .. Len(List) - n |-> List[n + i]]
  BY DEF OwnInv
<1>3. Len(List) - n \in Nat BY <1>1, <1>2
<1>4. Len(todo[C0]) = Len(List) - n BY <1>2, <1>3
<1>5. 1 \in 1 .. Len(List) - n /\ n + 1 \in 1 .. Len(List) BY <1>1, <1>4
<1>6. todo[C0][1] = List[n + 1] BY <1>2, <1>5
<1> QED BY <1>1, <1>5, <1>6, ListSets

\* When C0 gets to test_parallel_c0_access its other two tests are over.
LEMMA OwnLast ==
  ASSUME TypeOK, AloneInv, OwnInv, phase = "c0", test[C0] = "parallel_c0_access"
  PROVE  result["c0_gather"] # "none" /\ result["c0_distribute"] # "none"
<1>1. List = c0_tests BY Lists
<1>2. /\ Len(c0_tests) = 3 /\ c0_tests[1] = "c0_gather" /\ c0_tests[2] = "c0_distribute"
      /\ "parallel_c0_access" # NoTest
      /\ \A n \in 1 .. 3 : c0_tests[n] = "parallel_c0_access" => n = 3
  BY DEF c0_tests, NoTest
<1>3. PICK n \in 0 .. 3 : n > 0 /\ test[C0] = c0_tests[n] /\ \A k \in 1 .. n : Begun(c0_tests[k])
  BY <1>1, <1>2 DEF OwnInv
<1>4. n = 3 BY <1>2, <1>3
<1>5. Begun("c0_gather") /\ Begun("c0_distribute") BY <1>2, <1>3, <1>4
<1>6. ASSUME NEW w \in Workers PROVE test[w] \notin {"c0_gather", "c0_distribute"}
  <2>1. CASE w = C0 BY <2>1
  <2>2. CASE w \in Tiles BY <2>2 DEF AloneInv, NoTest
  <2> QED BY <2>1, <2>2 DEF Workers
<1> QED BY <1>5, <1>6 DEF Begun

LEMMA TilesStep ==
  ASSUME TypeOK, InTime, AloneInv, GivenOnce, OwnInv, TilesInv, [Next]_vars, ~timedOut'
  PROVE  TilesInv'
<1>1. C0 \in Workers /\ C0 \notin Tiles /\ Tiles \subseteq Workers
      /\ "c0_gather" \in Tests /\ "c0_distribute" \in Tests
  BY NodeCountAssumption DEF C0, Workers, Tiles, Tests, ToSet, c0_tests
<1>2. \A x \in ToSet(hal_tests) \cup Transfers : x \in Tests BY ListSets
<1>3. ASSUME NEW w \in Workers, Calling(w) PROVE TilesInv'
  <2>1. UNCHANGED <<phase, todo, test, result>> BY <1>3, CallingTypes
  <2> QED BY <2>1 DEF TilesInv, Begun
<1>4. ASSUME NEW w \in Workers, Begin(w) PROVE TilesInv'
  <2>1. /\ 1 \in 1 .. Len(todo[w]) /\ test'[w] = todo[w][1]
        /\ \A v \in Workers \ {w} : test'[v] = test[v] /\ todo'[v] = todo[v]
        /\ UNCHANGED <<phase, result>>
        /\ \A y \in Tests : Begun(y)' <=> Begun(y) \/ y = todo[w][1]
        /\ \A v \in Workers : \A i \in 1 .. Len(todo'[v]) :
             \E k \in 1 .. Len(todo[v]) : todo'[v][i] = todo[v][k]
    <3> DEFINE K(v, i) == IF v = w THEN i + 1 ELSE i
    <3>1. \A v \in Workers : \A i \in 1 .. Len(todo'[v]) :
             K(v, i) \in 1 .. Len(todo[v]) /\ todo'[v][i] = todo[v][K(v, i)]
      BY <1>4, FirstTaken
    <3> HIDE DEF K
    <3>2. \A v \in Workers : \A i \in 1 .. Len(todo'[v]) :
             \E k \in 1 .. Len(todo[v]) : todo'[v][i] = todo[v][k]
      BY <3>1
    <3> QED BY <1>4, <3>2, FirstTaken
  <2>2. phase \in {"c0", "fallback"} => w = C0
    BY <2>1 DEF AloneInv, Workers
  <2>3. phase \in {"transfers", "hal"} => w \in Tiles
    BY <2>1 DEF AloneInv, Workers
  <2>4. phase = "c0" => todo[w][1] \notin ToSet(hal_tests) \cup Transfers
    BY <2>1, <2>2, OwnNext
  <2>5. phase = "transfers" => todo[w][1] \notin ToSet(hal_tests)
    <3>1. phase = "transfers" => todo[w][1] \in Transfers BY <2>1, <2>3 DEF TilesInv
    <3> QED BY <3>1, ListSets
  <2>6. phase \in {"c0", "transfers"} => \A x \in ToSet(hal_tests) : ~Begun(x)'
    BY <1>2, <2>1, <2>4, <2>5 DEF TilesInv
  <2>7. phase = "c0" => \A x \in Transfers : ~Begun(x)'
    BY <1>2, <2>1, <2>4 DEF TilesInv
  <2>8. phase = "transfers" => test'[C0] = "parallel_c0_access"
    BY <1>1, <2>1, <2>3 DEF TilesInv
  <2>9. ASSUME phase \in {"transfers", "hal"}, NEW v \in Tiles
        PROVE  /\ test'[v] \in Transfers \cup ToSet(hal_tests) \cup {NoTest}
               /\ \A i \in 1 .. Len(todo'[v]) :
                    todo'[v][i] \in IF phase = "hal" THEN ToSet(hal_tests) ELSE Transfers
    <3>1. \A u \in Tiles : \A k \in 1 .. Len(todo[u]) :
             todo[u][k] \in IF phase = "hal" THEN ToSet(hal_tests) ELSE Transfers
      BY <2>9 DEF TilesInv
    <3>2. \A i \in 1 .. Len(todo'[v]) :
             todo'[v][i] \in IF phase = "hal" THEN ToSet(hal_tests) ELSE Transfers
      BY <1>1, <2>1, <3>1
    <3>3. CASE v = w BY <2>1, <3>1, <3>2, <3>3
    <3>4. CASE v # w BY <1>1, <2>1, <2>9, <3>2, <3>4 DEF TilesInv
    <3> QED BY <3>3, <3>4
  <2> QED BY <2>1, <2>6, <2>7, <2>8, <2>9 DEF TilesInv
<1>5. ASSUME NEW w \in Workers, Return(w) PROVE TilesInv'
  <2>1. /\ test[w] # NoTest /\ test[w] # "parallel_c0_access"
        /\ \A y \in Tests : Begun(y)' <=> Begun(y)
        /\ test'[w] = NoTest /\ \A v \in Workers \ {w} : test'[v] = test[v]
        /\ result'[test[w]] = Verdict(ok[w])
        /\ \A y \in Tests \ {test[w]} : result'[y] = result[y]
        /\ UNCHANGED <<phase, todo>>
    BY <1>5, ReturnStep
  <2>2. Verdict(ok[w]) # "none" BY DEF Verdict
  <2>3. phase \in {"transfers", "hal"} =>
           result'["c0_gather"] # "none" /\ result'["c0_distribute"] # "none"
    BY <1>1, <2>1, <2>2 DEF TilesInv
  <2>4. phase = "transfers" => test'[C0] = "parallel_c0_access"
    BY <1>1, <2>1 DEF TilesInv
  <2>5. \A v \in Tiles : test'[v] = test[v] \/ test'[v] = NoTest BY <1>1, <2>1
  <2> QED BY <1>2, <2>1, <2>3, <2>4, <2>5 DEF TilesInv
<1>6. ASSUME QueueTransfers PROVE TilesInv'
  <2> DEFINE AB == <<"transfer_A", "transfer_B">>
  <2>1. /\ phase = "c0" /\ phase' = "transfers" /\ test[C0] = "parallel_c0_access"
        /\ todo' = Queued(AB, 0) /\ UNCHANGED <<test, result>>
    BY <1>6 DEF QueueTransfers
  <2>2. AB \in Seq(Tests) /\ Once(AB) /\ ToSet(AB) = Transfers
    BY ListTypes, ListsOnce, ListSets
  <2> HIDE DEF AB
  <2>3. \A v \in Workers : \A i \in 1 .. Len(todo'[v]) : todo'[v][i] \in Transfers
    BY <2>1, <2>2, QueuedOnce
  <2>4. result["c0_gather"] # "none" /\ result["c0_distribute"] # "none"
    BY <2>1, OwnLast
  <2>5. \A v \in Tiles : test[v] = NoTest BY <2>1 DEF AloneInv
  <2>6. \A y : Begun(y)' <=> Begun(y) BY <2>1 DEF Begun
  <2>7. \A x \in ToSet(hal_tests) : ~Begun(x) BY <2>1 DEF TilesInv
  <2> QED BY <1>1, <2>1, <2>3, <2>4, <2>5, <2>6, <2>7 DEF TilesInv
<1>7. ASSUME AwaitTransfers PROVE TilesInv'
  <2>1. /\ phase = "transfers" /\ phase' = "hal"
        /\ \A v \in Workers \ {C0} : test'[v] = test[v]
        /\ \A y \in Tests \ {"parallel_c0_access"} : result'[y] = result[y]
    BY <1>7, AwaitStep
  <2>3. \A v \in Workers : \A i \in 1 .. Len(todo'[v]) : todo'[v][i] \in ToSet(hal_tests)
    BY <1>7, AwaitStep
  <2>4. result'["c0_gather"] # "none" /\ result'["c0_distribute"] # "none"
    BY <1>1, <2>1 DEF TilesInv
  <2>5. \A v \in Tiles : test'[v] \in Transfers \cup ToSet(hal_tests) \cup {NoTest}
    BY <1>1, <2>1 DEF TilesInv
  <2> QED BY <1>1, <2>1, <2>3, <2>4, <2>5 DEF TilesInv
<1>8. ASSUME UNCHANGED vars PROVE TilesInv'
  BY <1>8 DEF vars, TilesInv, Begun
<1> QED BY <1>3, <1>4, <1>5, <1>6, <1>7, <1>8, StepKinds

LEMMA OnceInit == Init => GivenOnce /\ OrderInv
<1> SUFFICES ASSUME Init PROVE GivenOnce /\ OrderInv OBVIOUS
<1>1. /\ \A w \in Workers : test[w] = NoTest
      /\ \A x \in Tests : result[x] = "none"
      /\ fault.test = NoTest /\ phase \in {"c0", "fallback"} /\ TypeOK
      /\ \A w \in Tiles : todo[w] = << >>
  BY TestsInit DEF Init, NoFault, AloneInv
<1>2. C0 \in Workers /\ C0 \notin Tiles
  BY NodeCountAssumption DEF Workers, Tiles, C0
<1>3. todo[C0] = List
  <2>1. CASE phase = "c0" /\ todo = [w \in Workers |-> IF w = C0 THEN c0_tests ELSE << >>]
    BY <1>2, <2>1 DEF List
  <2>2. CASE /\ phase = "fallback"
             /\ todo = [w \in Workers |-> IF w = C0 THEN all_tests ELSE << >>]
    BY <1>2, <2>2 DEF List
  <2> QED BY <2>1, <2>2 DEF Init
<1>4. \A y \in Tests : ~Begun(y) BY <1>1, NoTestIsNone DEF Begun
<1>5. \A w \in Workers : \A i \in 1 .. Len(todo[w]) : w = C0
  BY <1>1 DEF Workers
<1>6. \A i, j \in 1 .. Len(List) : List[i] = List[j] => i = j
  BY ListsOnce DEF Once, List
<1>7. GivenOnce
  BY <1>1, <1>3, <1>4, <1>5, <1>6, TodoTypes DEF GivenOnce
<1>8. List \in Seq(Tests) /\ Len(List) \in Nat BY <1>1, Lists
<1>9. OwnInv
  <2>1. List = [i \in 1 .. Len(List) - 0 |-> List[0 + i]]
    <3>1. Len(List) - 0 = Len(List) /\ \A i \in 1 .. Len(List) : 0 + i = i BY <1>8
    <3>2. List = [i \in 1 .. Len(List) |-> List[i]] BY <1>8
    <3> QED BY <3>1, <3>2
  <2>2. 0 \in 0 .. Len(List) BY <1>8
  <2>3. \A k \in 1 .. 0 : FALSE OBVIOUS
  <2> QED BY <1>1, <1>2, <1>3, <2>1, <2>2, <2>3 DEF OwnInv
<1>10. TilesInv BY <1>1, <1>4, ListSets DEF TilesInv
<1> QED BY <1>7, <1>9, <1>10 DEF OrderInv

LEMMA LateInit == Init => LateInv
<1> SUFFICES ASSUME Init PROVE LateInv OBVIOUS
<1>1. timedOut = FALSE /\ phase # "hal" BY DEF Init
<1> QED BY <1>1 DEF LateInv

LEMMA LateStep ==
  ASSUME TypeOK, AloneInv, LateInv, ~timedOut => GivenOnce /\ OrderInv, [Next]_vars
  PROVE  LateInv'
<1>1. Tiles \subseteq Workers /\ \A x \in ToSet(hal_tests) : x \notin Transfers
  BY ListSets DEF Workers
<1>2. NoTest \notin Transfers BY VerdictParts
<1>3. ASSUME NEW w \in Workers, Calling(w) PROVE LateInv'
  <2>1. UNCHANGED <<phase, timedOut, test>> BY <1>3, CallingTypes
  <2> QED BY <2>1 DEF LateInv
<1>4. ASSUME NEW w \in Workers, Begin(w) PROVE LateInv'
  <2>1. /\ 1 \in 1 .. Len(todo[w]) /\ test'[w] = todo[w][1] /\ phase' = phase
        /\ \A v \in Workers \ {w} : test'[v] = test[v]
    BY <1>4, FirstTaken
  <2>2. timedOut' = timedOut BY <1>4 DEF Begin, Enter
  <2>3. ASSUME phase = "hal", ~timedOut, w \in Tiles PROVE test'[w] \notin Transfers
    <3>1. todo[w][1] \in ToSet(hal_tests) BY <2>1, <2>3 DEF OrderInv, TilesInv
    <3> QED BY <1>1, <2>1, <3>1
  <2> QED BY <1>1, <2>1, <2>2, <2>3 DEF LateInv
<1>5. ASSUME NEW w \in Workers, Return(w) PROVE LateInv'
  <2>1. /\ UNCHANGED <<phase, timedOut>>
        /\ \A v \in Workers : test'[v] = test[v] \/ test'[v] = NoTest
    BY <1>5 DEF Return, Leave, runVars, TypeOK
  <2> QED BY <1>1, <1>2, <2>1 DEF LateInv
<1>6. ASSUME QueueTransfers PROVE LateInv'
  BY <1>6 DEF QueueTransfers, LateInv
<1>7. ASSUME AwaitTransfers PROVE LateInv'
  <2>1. phase = "transfers" /\ phase' = "hal" BY <1>7 DEF AwaitTransfers
  <2>2. ~timedOut BY <2>1 DEF LateInv
  <2>3. ASSUME ~timedOut', NEW v \in Tiles PROVE test'[v] \notin Transfers
    <3>1. /\ \A u \in Tiles : test[u] \notin Transfers
          /\ \A u \in Workers \ {C0} : test'[u] = test[u]
      BY <1>7, <2>2, <2>3, AwaitStep DEF OrderInv
    <3>2. v \in Workers \ {C0} BY <1>1, NodeCountAssumption DEF C0, Tiles
    <3> QED BY <3>1, <3>2
  <2> QED BY <2>1, <2>3 DEF LateInv
<1>8. ASSUME UNCHANGED vars PROVE LateInv'
  BY <1>8 DEF vars, LateInv
<1> QED BY <1>3, <1>4, <1>5, <1>6, <1>7, <1>8, StepKinds

\* The invariant without what the tests notice.
OwnFaultsInv == TestsInv /\ LateInv /\ (~timedOut => GivenOnce /\ OrderInv)

LEMMA OwnFaultsSteps ==
  /\ Init => OwnFaultsInv
  /\ OwnFaultsInv /\ [Next]_vars => OwnFaultsInv'
<1>1. Init => OwnFaultsInv BY AllInit, LateInit, OnceInit DEF OwnFaultsInv
<1>2. ASSUME OwnFaultsInv, [Next]_vars PROVE OwnFaultsInv'
  <2>1. TypeOK /\ AloneInv /\ LateInv /\ TestsInv BY <1>2 DEF OwnFaultsInv, TestsInv
  <2>2. TestsInv' BY <1>2, <2>1, AllStep
  <2>3. LateInv' BY <1>2, <2>1, LateStep DEF OwnFaultsInv
  <2>4. ASSUME ~timedOut' PROVE GivenOnce' /\ OrderInv'
    <3>1. ~timedOut /\ InTime BY <1>2, <2>1, <2>4, OnTime
    <3>2. GivenOnce /\ OrderInv /\ OwnInv /\ TilesInv
      BY <1>2, <3>1 DEF OwnFaultsInv, OrderInv
    <3>3. GivenOnce' BY <1>2, <2>1, <2>4, <3>1, <3>2, OnceStep
    <3>4. OwnInv' /\ TilesInv' BY <1>2, <2>1, <2>4, <3>1, <3>2, OwnStep, TilesStep
    <3> QED BY <3>3, <3>4 DEF OrderInv
  <2> QED BY <2>2, <2>3, <2>4 DEF OwnFaultsInv
<1> QED BY <1>1, <1>2

\* For every number of tiles: as long as C0 has not given up on the transfers,
\* the tables of test_parallel_c0_access and of hal_tests[] are dealt out so
\* that no test goes to two tiles or twice to one, and no test is given out
\* that has already begun.  Two tiles in the same test would move and compare
\* each other's data.
THEOREM EachTestOnce == Spec => []OnceInv
<1>1. OwnFaultsInv => OnceInv BY DEF OwnFaultsInv, OnceInv
<1> QED BY <1>1, OwnFaultsSteps, PTL DEF Spec

\* For every number of tiles, every order they run the tests in and every call
\* that may go wrong: a test returns failure only when one of its own calls
\* went wrong.  What other tests left in the memories, a transfer that is
\* still going on and a fault another test ran into never show up in its
\* result.  C0's parallel test also fails when its wait for the transfers
\* ended early or one of them failed; and after that wait ended early a
\* transfer that failed may leave its result with a test that got its slot.
THEOREM OwnFaultsOnly == Spec => []NoFalseAlarm
<1>1. OwnFaultsInv => NoFalseAlarm BY DEF OwnFaultsInv, TestsInv, VerdictInv
<1> QED BY <1>1, OwnFaultsSteps, PTL DEF Spec

-----------------------------------------------------------------------------
(***************************************************************************)
(* What the moves of a test bring, and where it is compared.               *)
(***************************************************************************)

LEMMA EndPlaces ==
  ASSUME NEW s, NEW n, InMemory(s, n)
  PROVE  /\ EndSlice(s, n) \in Places /\ InMemory(EndSlice(s, n), 1)
         /\ EndSlice(s, n).of = s.of /\ EndSlice(s, n).at = s.at + n - 1
         /\ s.at \in Nat /\ n \in Nat /\ n >= 1 /\ n - 1 \in 0 .. n - 1
         /\ At(EndSlice(s, n), 0) = At(s, n - 1)
<1>1. s \in Places /\ n \in Nat \ {0} /\ s.at + n <= Room(s.of) BY DEF InMemory
<1>2. s.of \in Memories /\ s.at \in Nat BY <1>1 DEF Places
<1>3. s.at + n - 1 \in Nat BY <1>1, <1>2
<1>4. EndSlice(s, n) \in Places BY <1>2, <1>3 DEF EndSlice, Places
<1>5. EndSlice(s, n).of = s.of /\ EndSlice(s, n).at = s.at + n - 1 BY DEF EndSlice
<1>6. EndSlice(s, n).at + 1 <= Room(s.of)
  <2>1. EndSlice(s, n).at + 1 = s.at + n BY <1>1, <1>2, <1>5
  <2> QED BY <1>1, <2>1
<1>7. InMemory(EndSlice(s, n), 1) BY <1>4, <1>5, <1>6 DEF InMemory
<1>8. s.at + n - 1 + 0 = s.at + (n - 1) BY <1>1, <1>2
<1>9. At(EndSlice(s, n), 0) = At(s, n - 1) BY <1>5, <1>8 DEF At
<1> QED BY <1>1, <1>2, <1>4, <1>5, <1>7, <1>9

\* A call that leaves n slices alone leaves the last of them alone.
LEMMA ClearEnd ==
  ASSUME NEW e, NEW s, NEW n, InMemory(s, n), e.to \in Places, e.n \in Nat, Clear(e, s, n)
  PROVE  Clear(e, EndSlice(s, n), 1)
<1>1. /\ EndSlice(s, n).of = s.of /\ EndSlice(s, n).at = s.at + n - 1
      /\ s.at \in Nat /\ n \in Nat /\ n >= 1
  BY EndPlaces
<1>2. e.to.at \in Nat BY DEF Places
<1>3. CASE e.to.of # s.of BY <1>1, <1>3 DEF Clear
<1>4. CASE e.to.at + e.n <= s.at
  <2>1. e.to.at + e.n <= s.at + n - 1 BY <1>1, <1>2, <1>4
  <2> QED BY <1>1, <2>1 DEF Clear
<1>5. CASE s.at + n <= e.to.at
  <2>1. (s.at + n - 1) + 1 <= e.to.at BY <1>1, <1>2, <1>5
  <2> QED BY <1>1, <2>1 DEF Clear
<1> QED BY <1>3, <1>4, <1>5 DEF Clear

\* Move d of step q is to bring to the end of its destination what a store has
\* put at the end of its source, and what is there then is something else: what
\* another store has put there, or what was there and X says is not the same.
Arrives(S, X, q, d) ==
    \E k \in 1 .. q - 1 : \E e \in S[k] :
        /\ Brings(S, k, e, q, d, EndSlice(d.from, d.n))
        /\ \/ \E l \in 1 .. q - 1 : \E f \in S[l] :
                 Brings(S, l, f, q, d, EndSlice(d.to, d.n)) /\ f.data # e.data
           \/ /\ <<EndSlice(d.to, d.n), e.data>> \in X
              /\ \A i \in 1 .. q : \A f \in S[i] :
                    Writes(f) => (i = q /\ f = d) \/ Clear(f, EndSlice(d.to, d.n), 1)

Compared(S, q, d) == \E j \in q + 1 .. Len(S) : \E c \in S[j] : Settles(S, q, d, j, c)

Told(S, X, q, d) ==
    InMemory(d.from, d.n) /\ InMemory(d.to, d.n) /\ Arrives(S, X, q, d) /\ Compared(S, q, d)

\* Every move of the test is told from one that did nothing.
Telling(S, X) ==
    /\ S \in Seq(SUBSET Calls)
    /\ \A q \in 1 .. Len(S) : \A d \in S[q] : d.op = "move" => Told(S, X, q, d)

\* A test that moves nothing.
LEMMA NothingMoved ==
  ASSUME NEW S \in Seq(SUBSET Calls), NEW X,
         \A q \in 1 .. Len(S) : \A d \in S[q] : d.op # "move"
  PROVE  Telling(S, X)
BY DEF Telling

LEMMA BringsShift ==
  ASSUME NEW s, NEW S, NEW n \in Nat, NEW q \in Nat, NEW k \in 1 .. q, NEW e, NEW d, NEW x,
         \A i \in 1 .. q : S[n + i] = s[i], Brings(s, k, e, q, d, x)
  PROVE  Brings(S, n + k, e, n + q, d, x)
<1>1. ASSUME NEW i \in n + k .. n + q, NEW f \in S[i], Writes(f)
      PROVE  (i = n + k /\ f = e) \/ (i = n + q /\ f = d) \/ Clear(f, x, 1)
  <2>1. i - n \in k .. q /\ i - n \in 1 .. q /\ i = n + (i - n) OBVIOUS
  <2>2. f \in s[i - n] BY <1>1, <2>1
  <2>3. (i - n = k /\ f = e) \/ (i - n = q /\ f = d) \/ Clear(f, x, 1)
    BY <1>1, <2>1, <2>2 DEF Brings
  <2> QED BY <2>1, <2>3
<1> QED BY <1>1 DEF Brings

LEMMA SettlesShift ==
  ASSUME NEW s, NEW S, NEW n \in Nat, NEW q \in Nat \ {0}, NEW m \in Nat, NEW j \in q .. m,
         NEW d, NEW c, \A i \in 1 .. m : S[n + i] = s[i], Settles(s, q, d, j, c)
  PROVE  Settles(S, n + q, d, n + j, c)
<1>1. ASSUME NEW i \in n + q .. n + j, NEW e \in S[i], Writes(e)
      PROVE  (i = n + q /\ e = d) \/ (Clear(e, c.a, c.n) /\ Clear(e, c.b, c.n))
  <2>1. i - n \in q .. j /\ i - n \in 1 .. m /\ i = n + (i - n) OBVIOUS
  <2>2. e \in s[i - n] BY <1>1, <2>1
  <2>3. (i - n = q /\ e = d) \/ (Clear(e, c.a, c.n) /\ Clear(e, c.b, c.n))
    BY <1>1, <2>1, <2>2 DEF Settles
  <2> QED BY <2>1, <2>3
<1>2. n + q < n + j BY DEF Settles
<1> QED BY <1>1, <1>2 DEF Settles

\* Two tests one after the other.
LEMMA TellingConcat ==
  ASSUME NEW s, NEW t, Telling(s, {}), Telling(t, {}) PROVE Telling(s \o t, {})
<1> DEFINE S == s \o t
           n == Len(s)
<1>1. s \in Seq(SUBSET Calls) /\ t \in Seq(SUBSET Calls) BY DEF Telling
<1>2. /\ S \in Seq(SUBSET Calls) /\ Len(S) = n + Len(t)
      /\ n \in Nat /\ Len(t) \in Nat
      /\ \A i \in 1 .. n : S[i] = s[i]
      /\ \A i \in 1 .. Len(t) : S[n + i] = t[i]
  BY <1>1
<1> HIDE DEF S, n
<1>3. ASSUME NEW r, NEW p \in {0, n}, Telling(r, {}), p + Len(r) <= Len(S),
             Len(r) \in Nat, \A i \in 1 .. Len(r) : S[p + i] = r[i],
             NEW q \in 1 .. Len(r), NEW d \in r[q], d.op = "move"
      PROVE  Told(S, {}, p + q, d)
  <2>1. InMemory(d.from, d.n) /\ InMemory(d.to, d.n) /\ Arrives(r, {}, q, d) /\ Compared(r, q, d)
    BY <1>3 DEF Telling, Told
  <2>2. p \in Nat /\ q \in Nat \ {0} BY <1>2
  <2>3. \A i \in 1 .. q : S[p + i] = r[i] BY <1>3
  <2>4. PICK k \in 1 .. q - 1, l \in 1 .. q - 1 : \E e \in r[k], f \in r[l] :
          /\ Brings(r, k, e, q, d, EndSlice(d.from, d.n))
          /\ Brings(r, l, f, q, d, EndSlice(d.to, d.n)) /\ f.data # e.data
    BY <2>1 DEF Arrives
  <2>5. PICK e \in r[k], f \in r[l] :
          /\ Brings(r, k, e, q, d, EndSlice(d.from, d.n))
          /\ Brings(r, l, f, q, d, EndSlice(d.to, d.n)) /\ f.data # e.data
    BY <2>4
  <2>6. k \in 1 .. q /\ l \in 1 .. q BY <2>2
  <2>7. /\ Brings(S, p + k, e, p + q, d, EndSlice(d.from, d.n))
        /\ Brings(S, p + l, f, p + q, d, EndSlice(d.to, d.n))
    BY <2>2, <2>3, <2>5, <2>6, BringsShift
  <2>8. /\ p + k \in 1 .. (p + q) - 1 /\ p + l \in 1 .. (p + q) - 1
        /\ e \in S[p + k] /\ f \in S[p + l]
    BY <2>2, <2>3, <2>6
  <2>9. Arrives(S, {}, p + q, d) BY <2>5, <2>7, <2>8 DEF Arrives
  <2>10. PICK j \in q + 1 .. Len(r) : \E c \in r[j] : Settles(r, q, d, j, c)
    BY <2>1 DEF Compared
  <2>11. PICK c \in r[j] : Settles(r, q, d, j, c) BY <2>10
  <2>12. j \in q .. Len(r) BY <2>2
  <2>13. Settles(S, p + q, d, p + j, c) BY <1>3, <2>2, <2>11, <2>12, SettlesShift
  <2>14. p + j \in (p + q) + 1 .. Len(S) /\ c \in S[p + j]
    <3>1. j \in 1 .. Len(r) BY <2>2
    <3>2. c \in S[p + j] BY <1>3, <2>11, <3>1
    <3>3. Len(S) \in Nat BY <1>2
    <3>4. p + j <= Len(S) BY <1>3, <2>2, <3>1, <3>3
    <3>5. p + j >= p + q + 1 BY <2>2
    <3> QED BY <2>2, <3>2, <3>3, <3>4, <3>5
  <2>15. Compared(S, p + q, d) BY <2>13, <2>14 DEF Compared
  <2> QED BY <2>1, <2>9, <2>15 DEF Told
<1>4. ASSUME NEW q \in 1 .. n, NEW d \in S[q], d.op = "move" PROVE Told(S, {}, q, d)
  <2>1. 0 + Len(s) <= Len(S) /\ \A i \in 1 .. Len(s) : 0 + i = i /\ S[i] = s[i]
    BY <1>2 DEF n
  <2>2. Told(S, {}, 0 + q, d) BY <1>2, <1>3, <1>4, <2>1 DEF n
  <2>3. 0 + q = q OBVIOUS
  <2> QED BY <2>2, <2>3
<1>5. ASSUME NEW q \in 1 .. Len(t), NEW d \in S[n + q], d.op = "move"
      PROVE  Told(S, {}, n + q, d)
  BY <1>2, <1>3, <1>5
<1>6. ASSUME NEW q \in 1 .. Len(S), NEW d \in S[q], d.op = "move" PROVE Told(S, {}, q, d)
  <2>1. CASE q \in 1 .. n BY <1>4, <1>6, <2>1
  <2>2. CASE q \notin 1 .. n
    <3>1. q - n \in 1 .. Len(t) /\ q = n + (q - n) BY <1>2, <2>2
    <3>2. Told(S, {}, n + (q - n), d) BY <1>5, <1>6, <3>1
    <3> QED BY <3>1, <3>2
  <2> QED BY <2>1, <2>2
<1>7. Telling(S, {}) BY <1>2, <1>6 DEF Telling
<1> QED BY <1>7 DEF S

\* A store to the n slices from s, and nothing but d to them from there to d.
LEMMA BringsBy ==
  ASSUME NEW S \in Seq(SUBSET Calls), NEW q \in 1 .. Len(S), NEW k \in 1 .. q - 1,
         NEW e, NEW d, NEW s, NEW n, InMemory(s, n), e.op = "store", e.to = s, e.n = n,
         \A i \in k .. q : \A f \in S[i] :
            Writes(f) => (i = k /\ f = e) \/ (i = q /\ f = d) \/ Clear(f, s, n)
  PROVE  Brings(S, k, e, q, d, EndSlice(s, n))
<1>1. /\ EndSlice(s, n).of = s.of /\ EndSlice(s, n).at = s.at + n - 1
      /\ s.at \in Nat /\ n \in Nat /\ n >= 1
  BY EndPlaces
<1>2. ASSUME NEW i \in k .. q, NEW f \in S[i], Writes(f)
      PROVE  (i = k /\ f = e) \/ (i = q /\ f = d) \/ Clear(f, EndSlice(s, n), 1)
  <2>1. f \in Calls
    <3>1. i \in 1 .. Len(S) OBVIOUS
    <3> QED BY <3>1
  <2>2. f.to \in Places /\ f.n \in Nat BY <1>2, <2>1, CallKinds
  <2> QED BY <1>2, <2>2, ClearEnd
<1> QED BY <1>1, <1>2 DEF Brings

LEMMA ComparedBy ==
  ASSUME NEW S, NEW q \in Nat, NEW d, d.op = "move", Clear(d, d.from, d.n),
         NEW j \in q + 1 .. Len(S), NEW c \in S[j],
         c.op = "compare", c.a = d.from, c.b = d.to, c.n = d.n,
         \A i \in q .. j : \A f \in S[i] :
            Writes(f) => (i = q /\ f = d) \/ (Clear(f, d.from, d.n) /\ Clear(f, d.to, d.n))
  PROVE  Compared(S, q, d)
<1>1. q < j OBVIOUS
<1>2. Settles(S, q, d, j, c) BY <1>1 DEF Settles
<1> QED BY <1>2 DEF Compared

\* Call e of step k fills the source of move d of step q.
Fills(S, q, d, k, e) ==
    /\ S \in Seq(SUBSET Calls) /\ q \in 1 .. Len(S)
    /\ InMemory(d.from, d.n) /\ InMemory(d.to, d.n)
    /\ k \in 1 .. q - 1 /\ e \in S[k] /\ e.op = "store"
    /\ e.to = d.from /\ e.n = d.n /\ Clear(e, d.to, d.n)

\* Call z of step l clears the destination with something else before the move.
Clears(S, q, d, k, e, l, z) ==
    /\ l \in 1 .. q - 1 /\ z \in S[l] /\ z.op = "store" /\ z.to = d.to /\ z.n = d.n
    /\ Clear(z, d.from, d.n) /\ z.data # e.data
    /\ \A i \in 1 .. q : \A f \in S[i] : Writes(f) =>
          \/ (i = k /\ f = e) \/ (i = l /\ f = z) \/ (i = q /\ f = d)
          \/ Clear(f, d.from, d.n) /\ Clear(f, d.to, d.n)

LEMMA ArrivesCleared ==
  ASSUME NEW S, NEW X, NEW q, NEW d, NEW k, NEW e, NEW l, NEW z,
         Fills(S, q, d, k, e), Clears(S, q, d, k, e, l, z)
  PROVE  Arrives(S, X, q, d)
<1>0. /\ S \in Seq(SUBSET Calls) /\ q \in 1 .. Len(S)
      /\ InMemory(d.from, d.n) /\ InMemory(d.to, d.n)
      /\ k \in 1 .. q - 1 /\ e \in S[k] /\ e.op = "store" /\ e.to = d.from /\ e.n = d.n
      /\ l \in 1 .. q - 1 /\ z \in S[l] /\ z.op = "store" /\ z.to = d.to /\ z.n = d.n
      /\ Clear(z, d.from, d.n) /\ z.data # e.data /\ Clear(e, d.to, d.n)
      /\ \A i \in 1 .. q : \A f \in S[i] : Writes(f) =>
            \/ (i = k /\ f = e) \/ (i = l /\ f = z) \/ (i = q /\ f = d)
            \/ Clear(f, d.from, d.n) /\ Clear(f, d.to, d.n)
  BY DEF Fills, Clears
<1>1. Brings(S, k, e, q, d, EndSlice(d.from, d.n))
  <2>1. \A i \in k .. q : \A f \in S[i] :
           Writes(f) => (i = k /\ f = e) \/ (i = q /\ f = d) \/ Clear(f, d.from, d.n)
    <3>1. \A i \in k .. q : i \in 1 .. q BY <1>0
    <3> QED BY <1>0, <3>1
  <2> QED BY <1>0, <2>1, BringsBy
<1>2. Brings(S, l, z, q, d, EndSlice(d.to, d.n))
  <2>1. \A i \in l .. q : \A f \in S[i] :
           Writes(f) => (i = l /\ f = z) \/ (i = q /\ f = d) \/ Clear(f, d.to, d.n)
    <3>1. \A i \in l .. q : i \in 1 .. q BY <1>0
    <3> QED BY <1>0, <3>1
  <2> QED BY <1>0, <2>1, BringsBy
<1> QED BY <1>0, <1>1, <1>2 DEF Arrives

\* The destination does not hold it when the test begins.
Finds(S, X, q, d, k, e) ==
    /\ <<EndSlice(d.to, d.n), e.data>> \in X
    /\ \A i \in 1 .. q : \A f \in S[i] : Writes(f) =>
          \/ (i = k /\ f = e) \/ (i = q /\ f = d)
          \/ Clear(f, d.from, d.n) /\ Clear(f, d.to, d.n)

LEMMA ArrivesFresh ==
  ASSUME NEW S, NEW X, NEW q, NEW d, NEW k, NEW e,
         Fills(S, q, d, k, e), Finds(S, X, q, d, k, e)
  PROVE  Arrives(S, X, q, d)
<1>0. /\ S \in Seq(SUBSET Calls) /\ q \in 1 .. Len(S)
      /\ InMemory(d.from, d.n) /\ InMemory(d.to, d.n)
      /\ k \in 1 .. q - 1 /\ e \in S[k] /\ e.op = "store" /\ e.to = d.from /\ e.n = d.n
      /\ Clear(e, d.to, d.n) /\ <<EndSlice(d.to, d.n), e.data>> \in X
      /\ \A i \in 1 .. q : \A f \in S[i] : Writes(f) =>
            \/ (i = k /\ f = e) \/ (i = q /\ f = d)
            \/ Clear(f, d.from, d.n) /\ Clear(f, d.to, d.n)
  BY DEF Fills, Finds
<1>1. Brings(S, k, e, q, d, EndSlice(d.from, d.n))
  <2>1. \A i \in k .. q : \A f \in S[i] :
           Writes(f) => (i = k /\ f = e) \/ (i = q /\ f = d) \/ Clear(f, d.from, d.n)
    <3>1. \A i \in k .. q : i \in 1 .. q BY <1>0
    <3> QED BY <1>0, <3>1
  <2> QED BY <1>0, <2>1, BringsBy
<1>2. ASSUME NEW i \in 1 .. q, NEW f \in S[i], Writes(f)
      PROVE  (i = q /\ f = d) \/ Clear(f, EndSlice(d.to, d.n), 1)
  <2>1. f \in Calls
    <3>1. i \in 1 .. Len(S) BY <1>0
    <3> QED BY <1>0, <3>1
  <2>2. f.to \in Places /\ f.n \in Nat BY <1>2, <2>1, CallKinds
  <2>3. (i = q /\ f = d) \/ Clear(f, d.to, d.n) BY <1>0, <1>2
  <2> QED BY <1>0, <2>2, <2>3, ClearEnd
<1> QED BY <1>0, <1>1, <1>2 DEF Arrives

\* A case: fill, clear, move, compare.
LEMMA TellingCase ==
  ASSUME NEW from \in Places, NEW to \in Places, NEW n \in Nat, NEW x \in Patterns,
         InMemory(from, n), InMemory(to, n), from.of # to.of \/ from.at + n <= to.at,
         NEW move, move \in {Move(from, to, n), CheckedMove(from, to, n)}, x # Zero
  PROVE  Telling(MoveCase(from, to, n, x, move), {})
<1> DEFINE S == MoveCase(from, to, n, x, move)
<1>1. /\ Store(from, n, x) \in SUBSET Calls /\ Store(to, n, Zero) \in SUBSET Calls
      /\ move \in SUBSET Calls /\ Compare(from, to, n) \in SUBSET Calls
  BY StepTypes, PatternsOf
<1>2. /\ S \in Seq(SUBSET Calls) /\ Len(S) = 4
      /\ S[1] = Store(from, n, x) /\ S[2] = Store(to, n, Zero)
      /\ S[3] = move /\ S[4] = Compare(from, to, n)
  BY <1>1 DEF MoveCase
<1> HIDE DEF S
<1>3. \A q \in 1 .. 4 : q = 1 \/ q = 2 \/ q = 3 \/ q = 4 OBVIOUS
<1>4. PICK e : S[1] = {e} /\ e.op = "store" /\ e.to = from /\ e.n = n /\ e.data = x
  BY <1>2, OneCall
<1>5. PICK z : S[2] = {z} /\ z.op = "store" /\ z.to = to /\ z.n = n /\ z.data = Zero
  BY <1>2, OneCall
<1>6. PICK d : S[3] = {d} /\ d.op = "move" /\ d.from = from /\ d.to = to /\ d.n = n
  BY <1>2, OneCall
<1>7. PICK c : S[4] = {c} /\ c.op = "compare" /\ c.a = from /\ c.b = to /\ c.n = n
  BY <1>2, OneCall
<1>8. ~Writes(c) BY <1>7 DEF Writes
<1>9. from.at \in Nat /\ to.at \in Nat BY DEF Places
<1>10. Clear(e, to, n) /\ Clear(z, from, n) /\ Clear(d, from, n)
  BY <1>4, <1>5, <1>6, <1>9 DEF Clear
<1>11. Arrives(S, {}, 3, d)
  <2>1. \A i \in 1 .. 3 : \A f \in S[i] :
           (i = 1 /\ f = e) \/ (i = 2 /\ f = z) \/ (i = 3 /\ f = d)
    BY <1>3, <1>4, <1>5, <1>6
  <2>2. 1 \in 1 .. 3 - 1 /\ 2 \in 1 .. 3 - 1 /\ 3 \in 1 .. 4 OBVIOUS
  <2>3. Fills(S, 3, d, 1, e) BY <1>2, <1>4, <1>6, <1>10, <2>2 DEF Fills
  <2>4. Clears(S, 3, d, 1, e, 2, z)
    BY <1>4, <1>5, <1>6, <1>10, <2>1, <2>2 DEF Clears
  <2> QED BY <2>3, <2>4, ArrivesCleared
<1>12. Compared(S, 3, d)
  <2>1. \A i \in 3 .. 4 : \A f \in S[i] : Writes(f) => i = 3 /\ f = d
    <3>1. \A i \in 3 .. 4 : i = 3 \/ i = 4 OBVIOUS
    <3> QED BY <1>6, <1>7, <1>8, <3>1
  <2>2. 4 \in 3 + 1 .. 4 /\ c \in S[4] BY <1>7
  <2> QED BY <1>2, <1>6, <1>7, <1>10, <2>1, <2>2, ComparedBy
<1>13. ASSUME NEW q \in 1 .. 4, NEW f \in S[q], f.op = "move" PROVE q = 3 /\ f = d
  BY <1>3, <1>4, <1>5, <1>6, <1>7, <1>13
<1>14. Told(S, {}, 3, d) BY <1>6, <1>11, <1>12 DEF Told
<1>15. Telling(S, {}) BY <1>2, <1>13, <1>14 DEF Telling
<1> QED BY <1>15 DEF S

LEMMA TellingCases ==
  ASSUME NEW n \in Nat \ {0}, NEW x \in Patterns, x # Zero,
         NEW from \in Places, NEW to \in Places,
         from.at + n <= Room(from.of), to.at + n <= Room(to.of),
         from.of # to.of \/ from.at + n <= to.at
  PROVE  Telling(CopyCase(from, to, n, x), {}) /\ Telling(CheckedCase(from, to, n, x), {})
<1>1. InMemory(from, n) /\ InMemory(to, n) BY DEF InMemory
<1> QED BY <1>1, TellingCase DEF CopyCase, CheckedCase

LEMMA TellingSimple ==
  /\ Telling(cpu_local_move, {}) /\ Telling(dma_local_transfer, {})
  /\ Telling(dma_remote_transfer, {}) /\ Telling(dmem_basic_functionality, {})
  /\ Telling(dmem_large_transfers, {}) /\ Telling(random_dma_remote, {})
  /\ Telling(dmem_alignment_testing, {})
<1>1. /\ \A d \in 0 .. 7 : Dmem(d, 0) \in Places /\ Dmem(d, 0).of = <<"dmem", d>>
                           /\ Dmem(d, 0).at = 0 /\ Room(Dmem(d, 0).of) = 17
      /\ \A t \in {0, 1, 2, 4}, i \in {0, 1} :
            Dlm1(t, i) \in Places /\ Dlm1(t, i).of = <<"dlm1", t>>
            /\ Dlm1(t, i).at = i /\ Room(Dlm1(t, i).of) = 16
  <2>1. ASSUME NEW d \in 0 .. 7
        PROVE  Dmem(d, 0) \in Places /\ Dmem(d, 0).of = <<"dmem", d>> /\ Dmem(d, 0).at = 0
    BY PlacesOf
  <2>2. ASSUME NEW t \in {0, 1, 2, 4}, NEW i \in {0, 1}
        PROVE  /\ Dlm1(t, i) \in Places /\ Dlm1(t, i).of = <<"dlm1", t>>
               /\ Dlm1(t, i).at = i
    <3>1. i \in Nat OBVIOUS
    <3> QED BY <3>1, PlacesOf
  <2> QED BY <2>1, <2>2, RoomOf
<1>2. \A d, t : <<"dmem", d>> # <<"dlm1", t>> OBVIOUS
<1>3. /\ Ramp(\h55) \in Patterns /\ Ramp(\hAA) \in Patterns /\ Ramp(\h5A) \in Patterns
      /\ Xor(\hA5) \in Patterns /\ Xor(\h5A) \in Patterns
      /\ \A k \in {1, 3, 7} : Ramp(\h5A + 256 - k) \in Patterns
  BY PatternsOf
<1>20. (\A v : Ramp(v) # Zero) /\ (\A v : Xor(v) # Zero) BY DEF Ramp, Xor, Zero
<1>4. Telling(cpu_local_move, {})
  <2>1. Dlm1(0, 0).at + 1 <= Room(Dlm1(0, 0).of) /\ Dlm1(0, 1).at + 1 <= Room(Dlm1(0, 1).of)
        /\ Dlm1(0, 0).at + 1 <= Dlm1(0, 1).at
    BY <1>1
  <2> QED BY <1>1, <1>3, <1>20, <2>1, TellingCases DEF cpu_local_move
<1>5. Telling(dma_local_transfer, {})
  <2>1. Dlm1(1, 0).at + 1 <= Room(Dlm1(1, 0).of) /\ Dlm1(1, 1).at + 1 <= Room(Dlm1(1, 1).of)
        /\ Dlm1(1, 0).at + 1 <= Dlm1(1, 1).at
    BY <1>1
  <2> QED BY <1>1, <1>3, <1>20, <2>1, TellingCases DEF dma_local_transfer
<1>6. ASSUME NEW t \in {0, 1, 2, 4}, NEW d \in 0 .. 7, NEW x \in Patterns, x # Zero
      PROVE  Telling(CopyCase(Dlm1(t, 0), Dmem(d, 0), 1, x), {})
  <2>1. Dlm1(t, 0).at + 1 <= Room(Dlm1(t, 0).of) /\ Dmem(d, 0).at + 1 <= Room(Dmem(d, 0).of)
        /\ Dlm1(t, 0).of # Dmem(d, 0).of
    BY <1>1, <1>2
  <2> QED BY <1>1, <1>6, <2>1, TellingCases
<1>7. Telling(dma_remote_transfer, {}) BY <1>3, <1>6, <1>20 DEF dma_remote_transfer
<1>8. Telling(random_dma_remote, {})
  BY <1>3, <1>6, <1>20, TellingConcat DEF random_dma_remote
<1>9. ASSUME NEW n \in 1 .. 17, NEW x \in Patterns, x # Zero
      PROVE  Telling(CheckedCase(Dmem(0, 0), Dmem(1, 0), n, x), {})
  <2>1. Dmem(0, 0).at + n <= Room(Dmem(0, 0).of) /\ Dmem(1, 0).at + n <= Room(Dmem(1, 0).of)
        /\ Dmem(0, 0).of # Dmem(1, 0).of
    BY <1>1
  <2> QED BY <1>1, <1>9, <2>1, TellingCases
<1>10. Telling(dmem_basic_functionality, {})
  BY <1>3, <1>9, <1>20 DEF dmem_basic_functionality
<1>11. Telling(dmem_large_transfers, {})
  BY <1>3, <1>9, <1>20 DEF dmem_large_transfers, DMEM_512_SIZE, DLM1_512_SIZE, KiB64
<1>12. \A k \in {1, 3, 7} : Telling(AlignmentCase(k), {})
  BY <1>3, <1>9, <1>20 DEF AlignmentCase
<1>13. Telling(dmem_alignment_testing, {})
  BY <1>12, TellingConcat DEF dmem_alignment_testing
<1> QED BY <1>4, <1>5, <1>7, <1>8, <1>10, <1>11, <1>13

\* Different slices.
LEMMA OtherSlice ==
  ASSUME NEW e, NEW s, s \in Places, e.to \in Places, e.n = 1, e.to # s
  PROVE  Clear(e, s, 1)
<1>1. e.to.at \in Nat /\ s.at \in Nat BY DEF Places
<1>2. e.to.of # s.of \/ e.to.at # s.at BY DEF Places
<1> QED BY <1>1, <1>2 DEF Clear

\* Eight fills of different slices, then eight transfers out of one of these
\* each, each with its comparison.
Loop(S, X, t, g, k, x) ==
    /\ S \in Seq(SUBSET Calls) /\ Len(S) = 24
    /\ \A h \in 0 .. 7 :
          /\ InMemory(t[h], 1) /\ InMemory(g[h], 1) /\ k[h] \in 0 .. 7
          /\ S[h + 1] = Store(t[h], 1, x[h])
          /\ S[9 + 2 * h] = Move(t[k[h]], g[h], 1)
          /\ S[10 + 2 * h] = Compare(t[k[h]], g[h], 1)
          /\ <<g[h], x[k[h]]>> \in X
    /\ \A h, i \in 0 .. 7 :
          t[h] # g[i] /\ (t[h] = t[i] => h = i) /\ (g[h] = g[i] => h = i)

\* The calls of two loops, by what they do.
LEMMA LoopAt ==
  \A i \in 1 .. 24 : \E h \in 0 .. 7 : i = h + 1 \/ i = 9 + 2 * h \/ i = 10 + 2 * h
<1> SUFFICES ASSUME NEW i \in 1 .. 24
             PROVE  \E h \in 0 .. 7 : i = h + 1 \/ i = 9 + 2 * h \/ i = 10 + 2 * h
  OBVIOUS
<1>1. CASE i <= 8
  <2>1. i - 1 \in 0 .. 7 /\ i = (i - 1) + 1 BY <1>1
  <2> QED BY <2>1
<1>2. CASE i > 8 /\ i % 2 = 1
  <2>1. (i - 9) \div 2 \in 0 .. 7 /\ i = 9 + 2 * ((i - 9) \div 2) BY <1>2
  <2> QED BY <2>1
<1>3. CASE i > 8 /\ i % 2 = 0
  <2>1. (i - 10) \div 2 \in 0 .. 7 /\ i = 10 + 2 * ((i - 10) \div 2) BY <1>3
  <2> QED BY <2>1
<1> QED BY <1>1, <1>2, <1>3

LEMMA TellingLoop ==
  ASSUME NEW S, NEW X, NEW t, NEW g, NEW k, NEW x, Loop(S, X, t, g, k, x)
  PROVE  Telling(S, X)
<1>1. \A i \in 1 .. 24 :
         \E h \in 0 .. 7 : i = h + 1 \/ i = 9 + 2 * h \/ i = 10 + 2 * h
  BY LoopAt
<1>2. ASSUME NEW h \in 0 .. 7
      PROVE  \E e : S[h + 1] = {e} /\ e.op = "store" /\ e.to = t[h]
                      /\ e.n = 1 /\ e.data = x[h]
  <2>1. S[h + 1] = Store(t[h], 1, x[h]) BY DEF Loop
  <2> QED BY <2>1, OneCall
<1>3. ASSUME NEW h \in 0 .. 7
      PROVE  \E d : S[9 + 2 * h] = {d} /\ d.op = "move" /\ d.from = t[k[h]]
                      /\ d.to = g[h] /\ d.n = 1
  <2>1. S[9 + 2 * h] = Move(t[k[h]], g[h], 1) BY DEF Loop
  <2> QED BY <2>1, OneCall
<1>4. ASSUME NEW h \in 0 .. 7
      PROVE  \E c : S[10 + 2 * h] = {c} /\ c.op = "compare" /\ c.a = t[k[h]]
                      /\ c.b = g[h] /\ c.n = 1
  <2>1. S[10 + 2 * h] = Compare(t[k[h]], g[h], 1) BY DEF Loop
  <2> QED BY <2>1, OneCall
<1>5. ASSUME NEW h \in 0 .. 7, NEW d \in S[9 + 2 * h]
      PROVE  Told(S, X, 9 + 2 * h, d)
  <2> DEFINE q == 9 + 2 * h
             b == k[h] + 1
             from == t[k[h]]
             to == g[h]
  <2>1. S[q] = {d} /\ d.op = "move" /\ d.from = from /\ d.to = to /\ d.n = 1
    BY <1>3, <1>5
  <2>2. k[h] \in 0 .. 7 /\ q \in 1 .. 24 /\ b \in 1 .. q - 1 /\ b <= 8 /\ q + 1 = 10 + 2 * h
        /\ q >= 9 /\ q + 1 \in q + 1 .. 24 /\ q \in Nat
    <3>1. k[h] \in 0 .. 7 BY DEF Loop
    <3>2. \A y \in 0 .. 7 : LET z == 9 + 2 * h IN
             z \in 1 .. 24 /\ y + 1 \in 1 .. z - 1 /\ y + 1 <= 8 /\ z + 1 = 10 + 2 * h
             /\ z >= 9 /\ z + 1 \in z + 1 .. 24 /\ z \in Nat
      OBVIOUS
    <3> QED BY <3>1, <3>2
  <2>3. PICK e : S[b] = {e} /\ e.op = "store" /\ e.to = from /\ e.n = 1 /\ e.data = x[k[h]]
    BY <1>2, <2>2
  <2>4. PICK c : S[q + 1] = {c} /\ c.op = "compare" /\ c.a = from /\ c.b = to /\ c.n = 1
    BY <1>4, <2>2
  <2>5. /\ InMemory(from, 1) /\ InMemory(to, 1) /\ from \in Places /\ to \in Places
        /\ from # to /\ <<to, x[k[h]]>> \in X
    BY <2>2 DEF InMemory, Loop
  <2>6. Clear(d, from, 1) /\ Clear(e, to, 1) BY <2>1, <2>3, <2>5, OtherSlice
  <2>7. EndSlice(to, 1) = to
    <3>1. to.at + 1 - 1 = to.at BY <2>5 DEF Places
    <3> QED BY <2>5, <3>1 DEF EndSlice, Places
  <2>8. b = k[h] + 1 OBVIOUS
  <2> HIDE DEF from, to, b
  <2>9. ASSUME NEW i \in 1 .. q, NEW f \in S[i], Writes(f)
        PROVE  \/ (i = b /\ f = e) \/ (i = q /\ f = d)
               \/ Clear(f, from, 1) /\ Clear(f, to, 1)
    <3>1. i \in 1 .. 24 BY <2>2
    <3>2. PICK j \in 0 .. 7 : i = j + 1 \/ i = 9 + 2 * j \/ i = 10 + 2 * j BY <1>1, <3>1
    <3>3. CASE i = j + 1
      <4>1. f.op = "store" /\ f.to = t[j] /\ f.n = 1 BY <1>2, <3>3
      <4>2. t[j] \in Places /\ t[j] # to BY DEF to, InMemory, Loop
      <4>3. CASE j = k[h] BY <2>3, <2>8, <3>3, <4>3
      <4>4. CASE j # k[h]
        <5>1. t[j] # from BY <2>2, <4>4 DEF from, Loop
        <5> QED BY <2>5, <4>1, <4>2, <5>1, OtherSlice
      <4> QED BY <4>3, <4>4
    <3>4. CASE i = 9 + 2 * j
      <4>1. f.op = "move" /\ f.to = g[j] /\ f.n = 1 BY <1>3, <3>4
      <4>2. g[j] \in Places /\ g[j] # from BY <2>2 DEF from, InMemory, Loop
      <4>3. CASE j = h BY <2>1, <3>4, <4>3
      <4>4. CASE j # h
        <5>1. g[j] # to BY <4>4 DEF to, Loop
        <5> QED BY <2>5, <4>1, <4>2, <5>1, OtherSlice
      <4> QED BY <4>3, <4>4
    <3>5. CASE i = 10 + 2 * j
      <4>1. f.op = "compare" BY <1>4, <3>5
      <4> QED BY <2>9, <4>1 DEF Writes
    <3> QED BY <3>2, <3>3, <3>4, <3>5
  <2> HIDE DEF q
  <2>10. Arrives(S, X, q, d)
    <3>1. Fills(S, q, d, b, e) BY <2>1, <2>2, <2>3, <2>5, <2>6 DEF Fills, Loop
    <3>2. Finds(S, X, q, d, b, e) BY <2>1, <2>3, <2>5, <2>7, <2>9 DEF Finds
    <3> QED BY <3>1, <3>2, ArrivesFresh
  <2>11. Compared(S, q, d)
    <3>1. \A i \in q .. q + 1 : \A f \in S[i] : Writes(f) => i = q /\ f = d
      <4>1. \A i \in q .. q + 1 : i = q \/ i = q + 1 BY <2>2
      <4>2. ~Writes(c) BY <2>4 DEF Writes
      <4> QED BY <2>1, <2>4, <4>1, <4>2
    <3>2. Settles(S, q, d, q + 1, c)
      <4>1. q < q + 1 BY <2>2
      <4> QED BY <2>1, <2>4, <2>6, <3>1, <4>1 DEF Settles
    <3>3. q + 1 \in q + 1 .. Len(S) /\ c \in S[q + 1] BY <2>2, <2>4 DEF Loop
    <3> QED BY <3>2, <3>3 DEF Compared
  <2>12. Told(S, X, q, d) BY <2>1, <2>5, <2>10, <2>11 DEF Told
  <2> QED BY <2>12 DEF q
<1>6. ASSUME NEW i \in 1 .. Len(S), NEW d \in S[i], d.op = "move" PROVE Told(S, X, i, d)
  <2>0. i \in 1 .. 24 BY DEF Loop
  <2>1. PICK h \in 0 .. 7 : i = h + 1 \/ i = 9 + 2 * h \/ i = 10 + 2 * h BY <1>1, <2>0
  <2>2. i # h + 1 BY <1>2, <1>6
  <2>3. i # 10 + 2 * h BY <1>4, <1>6
  <2>4. i = 9 + 2 * h BY <2>1, <2>2, <2>3
  <2> QED BY <1>5, <1>6, <2>4
<1> QED BY <1>6 DEF Telling, Loop

\* The steps of two loops one after the other.
Loops(S, t, f, g, x) ==
    /\ t \in [0 .. 7 -> Places] /\ f \in [0 .. 7 -> Places] /\ g \in [0 .. 7 -> Places]
    /\ x \in [0 .. 7 -> Patterns]
    /\ S = [d \in 1 .. 8 |-> Store(t[d - 1], 1, x[d - 1])]
           \o [k \in 1 .. 16 |-> LET d == (k - 1) \div 2 IN MoveOrCompare(k, f[d], g[d])]

Unrolled(S, t, f, g, x) ==
    /\ S \in Seq(SUBSET Calls) /\ Len(S) = 24
    /\ \A h \in 0 .. 7 :
          /\ S[h + 1] = Store(t[h], 1, x[h])
          /\ S[9 + 2 * h] = Move(f[h], g[h], 1)
          /\ S[10 + 2 * h] = Compare(f[h], g[h], 1)

LEMMA LoopSteps ==
  ASSUME NEW S, NEW t, NEW f, NEW g, NEW x, Loops(S, t, f, g, x)
  PROVE  Unrolled(S, t, f, g, x)
<1> DEFINE a == [d \in 1 .. 8 |-> Store(t[d - 1], 1, x[d - 1])]
           b == [k \in 1 .. 16 |->
                   LET d == (k - 1) \div 2 IN MoveOrCompare(k, f[d], g[d])]
<1>0. /\ S = a \o b
      /\ t \in [0 .. 7 -> Places] /\ f \in [0 .. 7 -> Places] /\ g \in [0 .. 7 -> Places]
      /\ x \in [0 .. 7 -> Patterns]
      /\ a = [d \in 1 .. 8 |-> a[d]] /\ b = [k \in 1 .. 16 |-> b[k]]
  BY DEF Loops
<1>1. 1 \in Nat OBVIOUS
<1>2. ASSUME NEW d \in 1 .. 8 PROVE a[d] \in SUBSET Calls
  <2>1. d - 1 \in 0 .. 7 OBVIOUS
  <2>2. t[d - 1] \in Places /\ x[d - 1] \in Patterns BY <1>0, <2>1
  <2>3. a[d] = Store(t[d - 1], 1, x[d - 1]) OBVIOUS
  <2> QED BY <1>1, <2>2, <2>3, StepTypes
<1>3. ASSUME NEW k \in 1 .. 16 PROVE b[k] \in SUBSET Calls
  <2>1. (k - 1) \div 2 \in 0 .. 7 OBVIOUS
  <2>2. PICK h \in 0 .. 7 : h = (k - 1) \div 2 BY <2>1
  <2>3. b[k] = MoveOrCompare(k, f[h], g[h]) BY <2>2
  <2>4. f[h] \in Places /\ g[h] \in Places BY <1>0
  <2>5. /\ Move(f[h], g[h], 1) \in SUBSET Calls /\ Compare(f[h], g[h], 1) \in SUBSET Calls
    BY <1>1, <2>4, StepTypes
  <2> QED BY <2>3, <2>5 DEF MoveOrCompare
<1>4. a \in [1 .. 8 -> SUBSET Calls] /\ b \in [1 .. 16 -> SUBSET Calls]
  BY <1>0, <1>2, <1>3
<1>5. a \in Seq(SUBSET Calls) /\ Len(a) = 8 /\ b \in Seq(SUBSET Calls) /\ Len(b) = 16
  <2>1. \A m \in Nat : \A u \in [1 .. m -> SUBSET Calls] :
           u \in Seq(SUBSET Calls) /\ Len(u) = m
    OBVIOUS
  <2> QED BY <1>4, <2>1
<1>6. ASSUME NEW h \in 0 .. 7 PROVE a[h + 1] = Store(t[h], 1, x[h])
  <2>1. h + 1 \in 1 .. 8 /\ (h + 1) - 1 = h OBVIOUS
  <2> QED BY <2>1
<1>7. ASSUME NEW h \in 0 .. 7
      PROVE  b[2 * h + 1] = Move(f[h], g[h], 1) /\ b[2 * h + 2] = Compare(f[h], g[h], 1)
  <2>1. /\ 2 * h + 1 \in 1 .. 16 /\ 2 * h + 2 \in 1 .. 16
        /\ ((2 * h + 1) - 1) \div 2 = h /\ ((2 * h + 2) - 1) \div 2 = h
        /\ (2 * h + 1) % 2 = 1 /\ (2 * h + 2) % 2 = 0
    OBVIOUS
  <2>2. b[2 * h + 1] = MoveOrCompare(2 * h + 1, f[h], g[h]) BY <2>1
  <2>3. b[2 * h + 2] = MoveOrCompare(2 * h + 2, f[h], g[h]) BY <2>1
  <2>4. (2 * h + 2) % 2 # 1 BY <2>1
  <2> QED BY <2>1, <2>2, <2>3, <2>4 DEF MoveOrCompare
<1> HIDE DEF a, b
<1>8. /\ S \in Seq(SUBSET Calls) /\ Len(S) = 24
      /\ \A i \in 1 .. 8 : S[i] = a[i]
      /\ \A i \in 1 .. 16 : S[8 + i] = b[i]
  <2>1. /\ S \in Seq(SUBSET Calls) /\ Len(S) = Len(a) + Len(b)
        /\ \A i \in 1 .. Len(a) : S[i] = a[i]
        /\ \A i \in 1 .. Len(b) : S[Len(a) + i] = b[i]
    BY <1>0, <1>5
  <2> QED BY <1>5, <2>1
<1>9. ASSUME NEW h \in 0 .. 7
      PROVE  /\ S[h + 1] = a[h + 1] /\ S[9 + 2 * h] = b[2 * h + 1]
             /\ S[10 + 2 * h] = b[2 * h + 2]
  <2>1. /\ h + 1 \in 1 .. 8 /\ 2 * h + 1 \in 1 .. 16 /\ 2 * h + 2 \in 1 .. 16
        /\ 8 + (2 * h + 1) = 9 + 2 * h /\ 8 + (2 * h + 2) = 10 + 2 * h
    OBVIOUS
  <2>2. S[8 + (2 * h + 1)] = b[2 * h + 1] /\ S[8 + (2 * h + 2)] = b[2 * h + 2]
    BY <1>8, <2>1
  <2> QED BY <1>8, <2>1, <2>2
<1> QED BY <1>6, <1>7, <1>8, <1>9 DEF Unrolled

\* The steps of c0_gather and c0_distribute.
LEMMA LoopScripts ==
  /\ c0_gather \in Seq(SUBSET Calls) /\ Len(c0_gather) = 24
  /\ c0_distribute \in Seq(SUBSET Calls) /\ Len(c0_distribute) = 24
  /\ \A h \in 0 .. 7 :
        /\ c0_gather[h + 1] = Store(Dmem(h, 0), 1, Ramp(\h10 + h))
        /\ c0_gather[9 + 2 * h] = Move(Dmem(h, 0), Dlm1(0, h), 1)
        /\ c0_gather[10 + 2 * h] = Compare(Dmem(h, 0), Dlm1(0, h), 1)
        /\ c0_distribute[h + 1] = Store(Dlm1(0, h), 1, Ramp(\hE0 + h))
        /\ c0_distribute[9 + 2 * h] = Move(Dlm1(0, 0), Dmem(h, 0), 1)
        /\ c0_distribute[10 + 2 * h] = Compare(Dlm1(0, 0), Dmem(h, 0), 1)
<1> DEFINE p == [d \in 0 .. 7 |-> Dmem(d, 0)]
           r == [d \in 0 .. 7 |-> Dlm1(0, d)]
           r0 == [d \in 0 .. 7 |-> Dlm1(0, 0)]
           y == [d \in 0 .. 7 |-> Ramp(\h10 + d)]
           z == [d \in 0 .. 7 |-> Ramp(\hE0 + d)]
<1>1. ASSUME NEW d \in 0 .. 7
      PROVE  /\ Dmem(d, 0) \in Places /\ Dlm1(0, d) \in Places
             /\ Ramp(\h10 + d) \in Patterns /\ Ramp(\hE0 + d) \in Patterns
  <2>1. d \in Nat /\ 0 \in Nat /\ 0 \in {0, 1, 2, 4} \cup Workers OBVIOUS
  <2>2. Dmem(d, 0) \in Places /\ Dlm1(0, d) \in Places BY <2>1, PlacesOf
  <2>3. \h10 + d \in Int /\ \hE0 + d \in Int OBVIOUS
  <2> QED BY <2>2, <2>3, PatternsOf
<1>2. /\ p \in [0 .. 7 -> Places] /\ r \in [0 .. 7 -> Places] /\ r0 \in [0 .. 7 -> Places]
      /\ y \in [0 .. 7 -> Patterns] /\ z \in [0 .. 7 -> Patterns]
  <2>1. 0 \in 0 .. 7 OBVIOUS
  <2> QED BY <1>1, <2>1
<1>3. \A d \in 0 .. 7 : /\ p[d] = Dmem(d, 0) /\ r[d] = Dlm1(0, d) /\ r0[d] = Dlm1(0, 0)
                        /\ y[d] = Ramp(\h10 + d) /\ z[d] = Ramp(\hE0 + d)
  OBVIOUS
<1>4. \A i \in 1 .. 8 : i - 1 \in 0 .. 7 /\ \h10 + i - 1 = \h10 + (i - 1)
                        /\ \hE0 + i - 1 = \hE0 + (i - 1)
  OBVIOUS
<1>5. \A i \in 1 .. 16 : (i - 1) \div 2 \in 0 .. 7 OBVIOUS
<1> HIDE DEF p, r, r0, y, z
<1>6. Unrolled(c0_gather, p, p, r, y)
  <2> DEFINE a == [d \in 1 .. 8 |-> Store(p[d - 1], 1, y[d - 1])]
             b == [i \in 1 .. 16 |->
                     LET d == (i - 1) \div 2 IN MoveOrCompare(i, p[d], r[d])]
  <2>1. a = [d \in 1 .. 8 |-> Store(Dmem(d - 1, 0), 1, Ramp(\h10 + d - 1))]
    <3>1. \A d \in 1 .. 8 : /\ p[d - 1] = Dmem(d - 1, 0)
                            /\ y[d - 1] = Ramp(\h10 + d - 1)
      BY <1>3, <1>4
    <3>2. \A d \in 1 .. 8 : Store(p[d - 1], 1, y[d - 1])
                               = Store(Dmem(d - 1, 0), 1, Ramp(\h10 + d - 1))
      BY <3>1
    <3> QED BY <3>2
  <2>2. b = [i \in 1 .. 16 |->
               LET d == (i - 1) \div 2 IN MoveOrCompare(i, Dmem(d, 0), Dlm1(0, d))]
    <3>1. \A i \in 1 .. 16 : /\ p[(i - 1) \div 2] = Dmem((i - 1) \div 2, 0)
                             /\ r[(i - 1) \div 2] = Dlm1(0, (i - 1) \div 2)
      BY <1>3, <1>5
    <3>2. \A i \in 1 .. 16 :
             MoveOrCompare(i, p[(i - 1) \div 2], r[(i - 1) \div 2])
                = MoveOrCompare(i, Dmem((i - 1) \div 2, 0), Dlm1(0, (i - 1) \div 2))
      BY <3>1
    <3> QED BY <3>2
  <2>3. c0_gather = a \o b BY <2>1, <2>2 DEF c0_gather
  <2>4. Loops(c0_gather, p, p, r, y) BY <1>2, <2>3 DEF Loops
  <2> HIDE DEF a, b
  <2> QED BY <2>4, LoopSteps
<1>7. Unrolled(c0_distribute, r, r0, p, z)
  <2> DEFINE a == [d \in 1 .. 8 |-> Store(r[d - 1], 1, z[d - 1])]
             b == [i \in 1 .. 16 |->
                     LET d == (i - 1) \div 2 IN MoveOrCompare(i, r0[d], p[d])]
  <2>1. a = [d \in 1 .. 8 |-> Store(Dlm1(0, d - 1), 1, Ramp(\hE0 + d - 1))]
    <3>1. \A d \in 1 .. 8 : /\ r[d - 1] = Dlm1(0, d - 1)
                            /\ z[d - 1] = Ramp(\hE0 + d - 1)
      BY <1>3, <1>4
    <3>2. \A d \in 1 .. 8 : Store(r[d - 1], 1, z[d - 1])
                               = Store(Dlm1(0, d - 1), 1, Ramp(\hE0 + d - 1))
      BY <3>1
    <3> QED BY <3>2
  <2>2. b = [i \in 1 .. 16 |->
               LET d == (i - 1) \div 2 IN MoveOrCompare(i, Dlm1(0, 0), Dmem(d, 0))]
    <3>1. \A i \in 1 .. 16 : /\ p[(i - 1) \div 2] = Dmem((i - 1) \div 2, 0)
                             /\ r0[(i - 1) \div 2] = Dlm1(0, 0)
      BY <1>3, <1>5
    <3>2. \A i \in 1 .. 16 :
             MoveOrCompare(i, r0[(i - 1) \div 2], p[(i - 1) \div 2])
                = MoveOrCompare(i, Dlm1(0, 0), Dmem((i - 1) \div 2, 0))
      BY <3>1
    <3> QED BY <3>2
  <2>3. c0_distribute = a \o b BY <2>1, <2>2 DEF c0_distribute
  <2>4. Loops(c0_distribute, r, r0, p, z) BY <1>2, <2>3 DEF Loops
  <2> HIDE DEF a, b
  <2> QED BY <2>4, LoopSteps
<1>8. /\ c0_gather \in Seq(SUBSET Calls) /\ Len(c0_gather) = 24
      /\ c0_distribute \in Seq(SUBSET Calls) /\ Len(c0_distribute) = 24
  BY <1>6, <1>7 DEF Unrolled
<1>9. ASSUME NEW h \in 0 .. 7
       PROVE  /\ c0_gather[h + 1] = Store(p[h], 1, y[h])
              /\ c0_gather[9 + 2 * h] = Move(p[h], r[h], 1)
              /\ c0_gather[10 + 2 * h] = Compare(p[h], r[h], 1)
  BY <1>6 DEF Unrolled
<1>10. ASSUME NEW h \in 0 .. 7
       PROVE  /\ c0_distribute[h + 1] = Store(r[h], 1, z[h])
              /\ c0_distribute[9 + 2 * h] = Move(r0[h], p[h], 1)
              /\ c0_distribute[10 + 2 * h] = Compare(r0[h], p[h], 1)
  BY <1>7 DEF Unrolled
<1>11. ASSUME NEW h \in 0 .. 7
       PROVE  /\ p[h] = Dmem(h, 0) /\ r[h] = Dlm1(0, h) /\ r0[h] = Dlm1(0, 0)
              /\ y[h] = Ramp(\h10 + h) /\ z[h] = Ramp(\hE0 + h)
  BY <1>3
<1>12. ASSUME NEW h \in 0 .. 7
       PROVE  /\ c0_gather[h + 1] = Store(Dmem(h, 0), 1, Ramp(\h10 + h))
              /\ c0_gather[9 + 2 * h] = Move(Dmem(h, 0), Dlm1(0, h), 1)
              /\ c0_gather[10 + 2 * h] = Compare(Dmem(h, 0), Dlm1(0, h), 1)
  BY <1>9, <1>11
<1>13. ASSUME NEW h \in 0 .. 7
       PROVE  /\ c0_distribute[h + 1] = Store(Dlm1(0, h), 1, Ramp(\hE0 + h))
              /\ c0_distribute[9 + 2 * h] = Move(Dlm1(0, 0), Dmem(h, 0), 1)
              /\ c0_distribute[10 + 2 * h] = Compare(Dlm1(0, 0), Dmem(h, 0), 1)
  BY <1>10, <1>11
<1> QED BY <1>8, <1>12, <1>13

LEMMA TellingLoops ==
  /\ Telling(c0_gather, Alien("c0_gather"))
  /\ Telling(c0_distribute, Alien("c0_distribute"))
<1> DEFINE p == [d \in 0 .. 7 |-> Dmem(d, 0)]
           r == [d \in 0 .. 7 |-> Dlm1(0, d)]
           r0 == [d \in 0 .. 7 |-> Dlm1(0, 0)]
           y == [d \in 0 .. 7 |-> Ramp(\h10 + d)]
           z == [d \in 0 .. 7 |-> Ramp(\hE0 + d)]
           k == [d \in 0 .. 7 |-> d]
           k0 == [d \in 0 .. 7 |-> 0]
<1>1. ASSUME NEW d \in 0 .. 7
      PROVE  /\ Dmem(d, 0) \in Places /\ InMemory(Dmem(d, 0), 1)
             /\ Dlm1(0, d) \in Places /\ InMemory(Dlm1(0, d), 1)
             /\ Dmem(d, 0).of = <<"dmem", d>> /\ Dlm1(0, d).of = <<"dlm1", 0>>
             /\ Dlm1(0, d).at = d
  <2>1. d \in Nat /\ 0 \in Nat /\ 0 \in {0, 1, 2, 4} \cup Workers OBVIOUS
  <2>2. /\ Dmem(d, 0) \in Places /\ Dlm1(0, d) \in Places
        /\ Dmem(d, 0).of = <<"dmem", d>> /\ Dlm1(0, d).of = <<"dlm1", 0>>
        /\ Dmem(d, 0).at = 0 /\ Dlm1(0, d).at = d
    BY <2>1, PlacesOf
  <2>3. Room(<<"dmem", d>>) = 17 /\ Room(<<"dlm1", 0>>) = 16 BY RoomOf
  <2> QED BY <2>2, <2>3 DEF InMemory
<1>2. \A d, e : <<"dmem", d>> # <<"dlm1", e>> /\ (<<"dmem", d>> = <<"dmem", e>> => d = e)
  OBVIOUS
<1>3. \A d \in 0 .. 7 : /\ p[d] = Dmem(d, 0) /\ r[d] = Dlm1(0, d) /\ r0[d] = Dlm1(0, 0)
                        /\ y[d] = Ramp(\h10 + d) /\ z[d] = Ramp(\hE0 + d)
                        /\ k[d] = d /\ k0[d] = 0
  OBVIOUS
<1> HIDE DEF p, r, r0, y, z, k, k0
<1>4. \A h, i \in 0 .. 7 :
         /\ p[h] # r[i] /\ (p[h] = p[i] => h = i) /\ (r[h] = r[i] => h = i)
  BY <1>1, <1>2, <1>3
<1>5. \A h \in 0 .. 7 : InMemory(p[h], 1) /\ InMemory(r[h], 1) BY <1>1, <1>3
<1>6. Telling(c0_gather, Alien("c0_gather"))
  <2>1. ASSUME NEW h \in 0 .. 7
        PROVE  /\ c0_gather[h + 1] = Store(p[h], 1, y[h])
               /\ c0_gather[9 + 2 * h] = Move(p[h], r[h], 1)
               /\ c0_gather[10 + 2 * h] = Compare(p[h], r[h], 1)
    <3>1. /\ p[h] = Dmem(h, 0) /\ r[h] = Dlm1(0, h)
          /\ p[h] = Dmem(h, 0) /\ y[h] = Ramp(\h10 + h)
      BY <1>3
    <3>2. /\ c0_gather[h + 1] = Store(Dmem(h, 0), 1, Ramp(\h10 + h))
          /\ c0_gather[9 + 2 * h] = Move(Dmem(h, 0), Dlm1(0, h), 1)
          /\ c0_gather[10 + 2 * h] = Compare(Dmem(h, 0), Dlm1(0, h), 1)
      BY LoopScripts
    <3> QED BY <3>1, <3>2
  <2>2. \A h \in 0 .. 7 : <<r[h], y[h]>> \in Alien("c0_gather")
    BY <1>3 DEF Alien
  <2>3. \A h \in 0 .. 7 : k[h] = h /\ k[h] \in 0 .. 7 BY <1>3
  <2>4. Loop(c0_gather, Alien("c0_gather"), p, r, k, y)
    BY <1>4, <1>5, <2>1, <2>2, <2>3, LoopScripts DEF Loop
  <2> QED BY <2>4, TellingLoop
<1>7. Telling(c0_distribute, Alien("c0_distribute"))
  <2>1. ASSUME NEW h \in 0 .. 7
        PROVE  /\ c0_distribute[h + 1] = Store(r[h], 1, z[h])
               /\ c0_distribute[9 + 2 * h] = Move(r0[h], p[h], 1)
               /\ c0_distribute[10 + 2 * h] = Compare(r0[h], p[h], 1)
    <3>1. /\ r[h] = Dlm1(0, h) /\ r0[h] = Dlm1(0, 0)
          /\ p[h] = Dmem(h, 0) /\ z[h] = Ramp(\hE0 + h)
      BY <1>3
    <3>2. /\ c0_distribute[h + 1] = Store(Dlm1(0, h), 1, Ramp(\hE0 + h))
          /\ c0_distribute[9 + 2 * h] = Move(Dlm1(0, 0), Dmem(h, 0), 1)
          /\ c0_distribute[10 + 2 * h] = Compare(Dlm1(0, 0), Dmem(h, 0), 1)
      BY LoopScripts
    <3> QED BY <3>1, <3>2
  <2>2. 0 \in 0 .. 7 /\ \hE0 + 0 = \hE0 OBVIOUS
  <2>3. \A h \in 0 .. 7 : <<p[h], z[0]>> \in Alien("c0_distribute")
    BY <1>3, <2>2 DEF Alien
  <2>4. \A h \in 0 .. 7 : r0[h] = r[k0[h]] /\ k0[h] \in 0 .. 7 /\ k0[h] = 0
    BY <1>3, <2>2
  <2>5. c0_distribute \in Seq(SUBSET Calls) /\ Len(c0_distribute) = 24 BY LoopScripts
  <2>6. ASSUME NEW h \in 0 .. 7
        PROVE  /\ k0[h] \in 0 .. 7 /\ InMemory(r[h], 1) /\ InMemory(p[h], 1)
               /\ c0_distribute[h + 1] = Store(r[h], 1, z[h])
               /\ c0_distribute[9 + 2 * h] = Move(r[k0[h]], p[h], 1)
               /\ c0_distribute[10 + 2 * h] = Compare(r[k0[h]], p[h], 1)
               /\ <<p[h], z[k0[h]]>> \in Alien("c0_distribute")
    BY <1>5, <2>1, <2>3, <2>4
  <2>7. Loop(c0_distribute, Alien("c0_distribute"), r, p, k0, z)
    BY <1>4, <2>5, <2>6 DEF Loop
  <2> QED BY <2>7, TellingLoop
<1> QED BY <1>6, <1>7

\* Calls that write to different memories, among them the two of a move.
LEMMA OtherMemory ==
  ASSUME NEW d, NEW f, f.to.of # d.from.of, f.to.of # d.to.of
  PROVE  Clear(f, d.from, d.n) /\ Clear(f, d.to, d.n)
BY DEF Clear

LEMMA TellingConcurrent == Telling(dmem_concurrent_access, {})
<1> DEFINE S == dmem_concurrent_access
<1>1. \A e \in 0 .. 7 : /\ Dmem(e, 0) \in Places /\ InMemory(Dmem(e, 0), 4)
                         /\ Dmem(e, 0).of = <<"dmem", e>>
  BY FirstSlices
<1>2. 4 \in Nat /\ 0 \in 0 .. 7 /\ 1 \in 0 .. 7 /\ 2 \in 0 .. 7 /\ 3 \in 0 .. 7 OBVIOUS
<1>3. PICK e : /\ Store(Dmem(0, 0), 4, Ramp(\hCC)) = {e} /\ e.op = "store"
               /\ e.to = Dmem(0, 0) /\ e.n = 4 /\ e.data = Ramp(\hCC)
  BY OneCall
<1>4. PICK f : /\ Store(Dmem(2, 0), 4, Ramp(\h33)) = {f} /\ f.op = "store"
               /\ f.to = Dmem(2, 0) /\ f.n = 4 /\ f.data = Ramp(\h33)
  BY OneCall
<1>5. PICK y : /\ Store(Dmem(1, 0), 4, Zero) = {y} /\ y.op = "store"
               /\ y.to = Dmem(1, 0) /\ y.n = 4 /\ y.data = Zero
  BY OneCall
<1>6. PICK z : /\ Store(Dmem(3, 0), 4, Zero) = {z} /\ z.op = "store"
               /\ z.to = Dmem(3, 0) /\ z.n = 4 /\ z.data = Zero
  BY OneCall
<1>7. PICK a : /\ CheckedMove(Dmem(0, 0), Dmem(1, 0), 4) = {a} /\ a.op = "move"
               /\ a.from = Dmem(0, 0) /\ a.to = Dmem(1, 0) /\ a.n = 4
  BY OneCall
<1>8. PICK b : /\ CheckedMove(Dmem(2, 0), Dmem(3, 0), 4) = {b} /\ b.op = "move"
               /\ b.from = Dmem(2, 0) /\ b.to = Dmem(3, 0) /\ b.n = 4
  BY OneCall
<1>9. PICK c : /\ Compare(Dmem(0, 0), Dmem(1, 0), 4) = {c} /\ c.op = "compare"
               /\ c.a = Dmem(0, 0) /\ c.b = Dmem(1, 0) /\ c.n = 4
  BY OneCall
<1>10. PICK d : /\ Compare(Dmem(2, 0), Dmem(3, 0), 4) = {d} /\ d.op = "compare"
                /\ d.a = Dmem(2, 0) /\ d.b = Dmem(3, 0) /\ d.n = 4
  BY OneCall
<1>11. S \in Seq(SUBSET Calls)
  BY ConcurrentTest DEF Sound
<1>12. /\ Len(S) = 7 /\ S[1] = {e} /\ S[2] = {f} /\ S[3] = {y} /\ S[4] = {z}
       /\ S[5] = {a, b} /\ S[6] = {c} /\ S[7] = {d}
  BY <1>3, <1>4, <1>5, <1>6, <1>7, <1>8, <1>9, <1>10 DEF dmem_concurrent_access
<1> HIDE DEF S
<1>13. ~Writes(c) /\ ~Writes(d) BY <1>9, <1>10 DEF Writes
<1>14. e.data # y.data /\ f.data # z.data BY <1>3, <1>4, <1>5, <1>6 DEF Ramp, Zero
<1>15. /\ Clear(e, a.to, a.n) /\ Clear(y, a.from, a.n) /\ Clear(a, a.from, a.n)
       /\ Clear(f, b.to, b.n) /\ Clear(z, b.from, b.n) /\ Clear(b, b.from, b.n)
  BY <1>1, <1>2, <1>3, <1>4, <1>5, <1>6, <1>7, <1>8 DEF Clear
<1>16. /\ \A x \in {f, z, b} : Clear(x, a.from, a.n) /\ Clear(x, a.to, a.n)
       /\ \A x \in {e, y, a} : Clear(x, b.from, b.n) /\ Clear(x, b.to, b.n)
  <2>1. /\ \A x \in {f, z, b} : x.to.of # a.from.of /\ x.to.of # a.to.of
        /\ \A x \in {e, y, a} : x.to.of # b.from.of /\ x.to.of # b.to.of
    BY <1>1, <1>2, <1>3, <1>4, <1>5, <1>6, <1>7, <1>8
  <2> QED BY <2>1, OtherMemory
<1>17. \A i \in 1 .. 5 : i = 1 \/ i = 2 \/ i = 3 \/ i = 4 \/ i = 5 OBVIOUS
<1>18. 5 \in 1 .. 7 /\ \A i \in {1, 2, 3, 4} : i \in 1 .. 5 - 1 OBVIOUS
<1>19. Arrives(S, {}, 5, a)
  <2>1. Fills(S, 5, a, 1, e)
    BY <1>1, <1>2, <1>3, <1>7, <1>11, <1>12, <1>15, <1>18 DEF Fills
  <2>2. \A i \in 1 .. 5 : \A x \in S[i] :
           \/ (i = 1 /\ x = e) \/ (i = 3 /\ x = y) \/ (i = 5 /\ x = a)
           \/ Clear(x, a.from, a.n) /\ Clear(x, a.to, a.n)
    BY <1>12, <1>16, <1>17
  <2>3. Clears(S, 5, a, 1, e, 3, y)
    BY <1>5, <1>7, <1>12, <1>14, <1>15, <1>18, <2>2 DEF Clears
  <2> QED BY <2>1, <2>3, ArrivesCleared
<1>20. Arrives(S, {}, 5, b)
  <2>1. Fills(S, 5, b, 2, f)
    BY <1>1, <1>2, <1>4, <1>8, <1>11, <1>12, <1>15, <1>18 DEF Fills
  <2>2. \A i \in 1 .. 5 : \A x \in S[i] :
           \/ (i = 2 /\ x = f) \/ (i = 4 /\ x = z) \/ (i = 5 /\ x = b)
           \/ Clear(x, b.from, b.n) /\ Clear(x, b.to, b.n)
    BY <1>12, <1>16, <1>17
  <2>3. Clears(S, 5, b, 2, f, 4, z)
    BY <1>6, <1>8, <1>12, <1>14, <1>15, <1>18, <2>2 DEF Clears
  <2> QED BY <2>1, <2>3, ArrivesCleared
<1>21. Compared(S, 5, a)
  <2>1. \A i \in 5 .. 6 : i = 5 \/ i = 6 OBVIOUS
  <2>2. \A i \in 5 .. 6 : \A x \in S[i] : Writes(x) =>
           (i = 5 /\ x = a) \/ (Clear(x, a.from, a.n) /\ Clear(x, a.to, a.n))
    BY <1>12, <1>13, <1>16, <2>1
  <2>3. 6 \in 5 + 1 .. Len(S) /\ c \in S[6] /\ 5 \in Nat BY <1>12
  <2> QED BY <1>7, <1>9, <1>15, <2>2, <2>3, ComparedBy
<1>22. Compared(S, 5, b)
  <2>1. \A i \in 5 .. 7 : i = 5 \/ i = 6 \/ i = 7 OBVIOUS
  <2>2. \A i \in 5 .. 7 : \A x \in S[i] : Writes(x) =>
           (i = 5 /\ x = b) \/ (Clear(x, b.from, b.n) /\ Clear(x, b.to, b.n))
    BY <1>12, <1>13, <1>16, <2>1
  <2>3. 7 \in 5 + 1 .. Len(S) /\ d \in S[7] /\ 5 \in Nat BY <1>12
  <2> QED BY <1>8, <1>10, <1>15, <2>2, <2>3, ComparedBy
<1>23. Told(S, {}, 5, a) /\ Told(S, {}, 5, b)
  BY <1>1, <1>2, <1>7, <1>8, <1>19, <1>20, <1>21, <1>22 DEF Told
<1>24. ASSUME NEW q \in 1 .. 7, NEW x \in S[q], x.op = "move"
       PROVE  q = 5 /\ (x = a \/ x = b)
  <2>1. \A i \in 1 .. 7 : i = 1 \/ i = 2 \/ i = 3 \/ i = 4 \/ i = 5 \/ i = 6 \/ i = 7
    OBVIOUS
  <2> QED BY <1>3, <1>4, <1>5, <1>6, <1>9, <1>10, <1>12, <1>24, <2>1
<1>25. Telling(S, {}) BY <1>11, <1>12, <1>23, <1>24 DEF Telling
<1> QED BY <1>25 DEF S

LEMMA TellingCross ==
  Telling(dmem_cross_module_transfers, Alien("dmem_cross_module_transfers"))
<1> DEFINE S == dmem_cross_module_transfers
           X == Alien("dmem_cross_module_transfers")
<1>1. \A h \in 0 .. 7, n \in {1, 2, 4} :
         /\ Dmem(h, 0) \in Places /\ InMemory(Dmem(h, 0), n)
         /\ Dmem(h, 0).of = <<"dmem", h>>
  BY FirstSlices
<1>2. /\ 1 \in Nat /\ 2 \in Nat /\ 4 \in Nat
      /\ 0 \in 0 .. 7 /\ 1 \in 0 .. 7 /\ 2 \in 0 .. 7 /\ 3 \in 0 .. 7 /\ 6 \in 0 .. 7
      /\ 7 \in 0 .. 7
  OBVIOUS
<1>3. PICK e : /\ Store(Dmem(0, 0), 1, Ramp(\h11)) = {e} /\ e.op = "store"
               /\ e.to = Dmem(0, 0) /\ e.n = 1 /\ e.data = Ramp(\h11)
  BY OneCall
<1>4. PICK f : /\ Store(Dmem(1, 0), 2, Ramp(\h22)) = {f} /\ f.op = "store"
               /\ f.to = Dmem(1, 0) /\ f.n = 2 /\ f.data = Ramp(\h22)
  BY OneCall
<1>5. PICK g : /\ Store(Dmem(2, 0), 4, Ramp(\h33)) = {g} /\ g.op = "store"
               /\ g.to = Dmem(2, 0) /\ g.n = 4 /\ g.data = Ramp(\h33)
  BY OneCall
<1>6. PICK a : /\ CheckedMove(Dmem(0, 0), Dmem(3, 0), 1) = {a} /\ a.op = "move"
               /\ a.from = Dmem(0, 0) /\ a.to = Dmem(3, 0) /\ a.n = 1
  BY OneCall
<1>7. PICK b : /\ CheckedMove(Dmem(1, 0), Dmem(6, 0), 2) = {b} /\ b.op = "move"
               /\ b.from = Dmem(1, 0) /\ b.to = Dmem(6, 0) /\ b.n = 2
  BY OneCall
<1>8. PICK c : /\ CheckedMove(Dmem(2, 0), Dmem(7, 0), 4) = {c} /\ c.op = "move"
               /\ c.from = Dmem(2, 0) /\ c.to = Dmem(7, 0) /\ c.n = 4
  BY OneCall
<1>9. PICK x : /\ Compare(Dmem(0, 0), Dmem(3, 0), 1) = {x} /\ x.op = "compare"
               /\ x.a = Dmem(0, 0) /\ x.b = Dmem(3, 0) /\ x.n = 1
  BY OneCall
<1>10. PICK y : /\ Compare(Dmem(1, 0), Dmem(6, 0), 2) = {y} /\ y.op = "compare"
                /\ y.a = Dmem(1, 0) /\ y.b = Dmem(6, 0) /\ y.n = 2
  BY OneCall
<1>11. PICK z : /\ Compare(Dmem(2, 0), Dmem(7, 0), 4) = {z} /\ z.op = "compare"
                /\ z.a = Dmem(2, 0) /\ z.b = Dmem(7, 0) /\ z.n = 4
  BY OneCall
<1>12. S \in Seq(SUBSET Calls) BY CrossTest DEF Sound
<1>13. /\ Len(S) = 9 /\ S[1] = {e} /\ S[2] = {f} /\ S[3] = {g}
       /\ S[4] = {a} /\ S[5] = {b} /\ S[6] = {c}
       /\ S[7] = {x} /\ S[8] = {y} /\ S[9] = {z}
  BY <1>3, <1>4, <1>5, <1>6, <1>7, <1>8, <1>9, <1>10, <1>11
     DEF dmem_cross_module_transfers
<1>14. /\ <<EndSlice(Dmem(3, 0), 1), Ramp(\h11)>> \in X
       /\ <<EndSlice(Dmem(6, 0), 2), Ramp(\h22)>> \in X
       /\ <<EndSlice(Dmem(7, 0), 4), Ramp(\h33)>> \in X
  <2>1. /\ EndSlice(Dmem(3, 0), 1) = Dmem(3, 0) /\ EndSlice(Dmem(6, 0), 2) = Dmem(6, 1)
        /\ EndSlice(Dmem(7, 0), 4) = Dmem(7, 3)
    BY DEF EndSlice, Dmem
  <2>2. X = ({Dmem(0, 0), Dmem(2, 0), Dmem(3, 0), Dlm1(0, 0)} \X {Ramp(\h11)})
              \cup {<<Dmem(6, 1), Ramp(\h22)>>}
              \cup {<<Dmem(0, 3), Ramp(\h33)>>, <<Dmem(7, 3), Ramp(\h33)>>}
    BY DEF Alien
  <2> HIDE DEF X
  <2> QED BY <2>1, <2>2
<1> HIDE DEF S, X
<1>15. ~Writes(x) /\ ~Writes(y) /\ ~Writes(z) BY <1>9, <1>10, <1>11 DEF Writes
<1>16. /\ Clear(e, a.to, a.n) /\ Clear(a, a.from, a.n)
       /\ Clear(f, b.to, b.n) /\ Clear(b, b.from, b.n)
       /\ Clear(g, c.to, c.n) /\ Clear(c, c.from, c.n)
  BY <1>1, <1>2, <1>3, <1>4, <1>5, <1>6, <1>7, <1>8 DEF Clear
<1>17. /\ \A v \in {f, g, b, c} : Clear(v, a.from, a.n) /\ Clear(v, a.to, a.n)
       /\ \A v \in {e, g, a, c} : Clear(v, b.from, b.n) /\ Clear(v, b.to, b.n)
       /\ \A v \in {e, f, a, b} : Clear(v, c.from, c.n) /\ Clear(v, c.to, c.n)
  <2>1. /\ e.to.of = <<"dmem", 0>> /\ f.to.of = <<"dmem", 1>> /\ g.to.of = <<"dmem", 2>>
        /\ a.from.of = <<"dmem", 0>> /\ a.to.of = <<"dmem", 3>>
        /\ b.from.of = <<"dmem", 1>> /\ b.to.of = <<"dmem", 6>>
        /\ c.from.of = <<"dmem", 2>> /\ c.to.of = <<"dmem", 7>>
    BY <1>1, <1>2, <1>3, <1>4, <1>5, <1>6, <1>7, <1>8
  <2>2. \A h, i : <<"dmem", h>> = <<"dmem", i>> => h = i OBVIOUS
  <2>3. /\ \A v \in {f, g, b, c} : v.to.of # a.from.of /\ v.to.of # a.to.of
        /\ \A v \in {e, g, a, c} : v.to.of # b.from.of /\ v.to.of # b.to.of
        /\ \A v \in {e, f, a, b} : v.to.of # c.from.of /\ v.to.of # c.to.of
    BY <2>1, <2>2
  <2> QED BY <2>3, OtherMemory
<1>18. \A i \in 1 .. 9 : i = 1 \/ i = 2 \/ i = 3 \/ i = 4 \/ i = 5 \/ i = 6
                         \/ i = 7 \/ i = 8 \/ i = 9
  OBVIOUS
<1>19. \A i \in 1 .. 9 : \A v \in S[i] : Writes(v) =>
          \/ (i = 1 /\ v = e) \/ (i = 2 /\ v = f) \/ (i = 3 /\ v = g)
          \/ (i = 4 /\ v = a) \/ (i = 5 /\ v = b) \/ (i = 6 /\ v = c)
  BY <1>13, <1>15, <1>18
<1>20. Told(S, X, 4, a)
  <2>1. 4 \in 1 .. 9 /\ 1 \in 1 .. 4 - 1 OBVIOUS
  <2>2. Fills(S, 4, a, 1, e)
    BY <1>1, <1>2, <1>3, <1>6, <1>12, <1>13, <1>16, <2>1 DEF Fills
  <2>3. \A i \in 1 .. 9 : \A v \in S[i] : Writes(v) =>
           (i = 1 /\ v = e) \/ (i = 4 /\ v = a)
             \/ (Clear(v, a.from, a.n) /\ Clear(v, a.to, a.n))
    BY <1>17, <1>19
  <2>4. Finds(S, X, 4, a, 1, e)
    <3>1. \A i \in 1 .. 4 : i \in 1 .. 9 OBVIOUS
    <3> QED BY <1>3, <1>6, <1>14, <2>3, <3>1 DEF Finds
  <2>5. Compared(S, 4, a)
    <3>1. \A i \in 4 .. 7 : i \in 1 .. 9 /\ i # 1 OBVIOUS
    <3>2. \A i \in 4 .. 7 : \A v \in S[i] : Writes(v) =>
             (i = 4 /\ v = a) \/ (Clear(v, a.from, a.n) /\ Clear(v, a.to, a.n))
      BY <2>3, <3>1
    <3>3. 7 \in 4 + 1 .. Len(S) /\ x \in S[7] /\ 4 \in Nat BY <1>13
    <3> QED BY <1>6, <1>9, <1>16, <3>2, <3>3, ComparedBy
  <2>6. Arrives(S, X, 4, a) BY <2>2, <2>4, ArrivesFresh
  <2> QED BY <1>1, <1>2, <1>6, <2>5, <2>6 DEF Told
<1>21. Told(S, X, 5, b)
  <2>1. 5 \in 1 .. 9 /\ 2 \in 1 .. 5 - 1 OBVIOUS
  <2>2. Fills(S, 5, b, 2, f)
    BY <1>1, <1>2, <1>4, <1>7, <1>12, <1>13, <1>16, <2>1 DEF Fills
  <2>3. \A i \in 1 .. 9 : \A v \in S[i] : Writes(v) =>
           (i = 2 /\ v = f) \/ (i = 5 /\ v = b)
             \/ (Clear(v, b.from, b.n) /\ Clear(v, b.to, b.n))
    BY <1>17, <1>19
  <2>4. Finds(S, X, 5, b, 2, f)
    <3>1. \A i \in 1 .. 5 : i \in 1 .. 9 OBVIOUS
    <3> QED BY <1>4, <1>7, <1>14, <2>3, <3>1 DEF Finds
  <2>5. Compared(S, 5, b)
    <3>1. \A i \in 5 .. 8 : i \in 1 .. 9 /\ i # 2 OBVIOUS
    <3>2. \A i \in 5 .. 8 : \A v \in S[i] : Writes(v) =>
             (i = 5 /\ v = b) \/ (Clear(v, b.from, b.n) /\ Clear(v, b.to, b.n))
      BY <2>3, <3>1
    <3>3. 8 \in 5 + 1 .. Len(S) /\ y \in S[8] /\ 5 \in Nat BY <1>13
    <3> QED BY <1>7, <1>10, <1>16, <3>2, <3>3, ComparedBy
  <2>6. Arrives(S, X, 5, b) BY <2>2, <2>4, ArrivesFresh
  <2> QED BY <1>1, <1>2, <1>7, <2>5, <2>6 DEF Told
<1>22. Told(S, X, 6, c)
  <2>1. 6 \in 1 .. 9 /\ 3 \in 1 .. 6 - 1 OBVIOUS
  <2>2. Fills(S, 6, c, 3, g)
    BY <1>1, <1>2, <1>5, <1>8, <1>12, <1>13, <1>16, <2>1 DEF Fills
  <2>3. \A i \in 1 .. 9 : \A v \in S[i] : Writes(v) =>
           (i = 3 /\ v = g) \/ (i = 6 /\ v = c)
             \/ (Clear(v, c.from, c.n) /\ Clear(v, c.to, c.n))
    BY <1>17, <1>19
  <2>4. Finds(S, X, 6, c, 3, g)
    <3>1. \A i \in 1 .. 6 : i \in 1 .. 9 OBVIOUS
    <3> QED BY <1>5, <1>8, <1>14, <2>3, <3>1 DEF Finds
  <2>5. Compared(S, 6, c)
    <3>1. \A i \in 6 .. 9 : i \in 1 .. 9 /\ i # 3 OBVIOUS
    <3>2. \A i \in 6 .. 9 : \A v \in S[i] : Writes(v) =>
             (i = 6 /\ v = c) \/ (Clear(v, c.from, c.n) /\ Clear(v, c.to, c.n))
      BY <2>3, <3>1
    <3>3. 9 \in 6 + 1 .. Len(S) /\ z \in S[9] /\ 6 \in Nat BY <1>13
    <3> QED BY <1>8, <1>11, <1>16, <3>2, <3>3, ComparedBy
  <2>6. Arrives(S, X, 6, c) BY <2>2, <2>4, ArrivesFresh
  <2> QED BY <1>1, <1>2, <1>8, <2>5, <2>6 DEF Told
<1>23. ASSUME NEW q \in 1 .. 9, NEW v \in S[q], v.op = "move"
       PROVE  (q = 4 /\ v = a) \/ (q = 5 /\ v = b) \/ (q = 6 /\ v = c)
  <2>1. Writes(v) BY <1>23 DEF Writes
  <2> QED BY <1>3, <1>4, <1>5, <1>19, <1>23, <2>1
<1>24. Telling(S, X) BY <1>12, <1>13, <1>20, <1>21, <1>22, <1>23 DEF Telling
<1> QED BY <1>24 DEF S, X

LEMMA TellingMore == ASSUME NEW S, NEW X, Telling(S, {}) PROVE Telling(S, X)
<1>1. ASSUME NEW q, NEW d, Told(S, {}, q, d) PROVE Told(S, X, q, d)
  <2>1. Arrives(S, {}, q, d) BY <1>1 DEF Told
  <2>2. Arrives(S, X, q, d) BY <2>1 DEF Arrives
  <2> QED BY <1>1, <2>2 DEF Told
<1> QED BY <1>1 DEF Telling

\* What is told from a move that did nothing: every test that compares.
LEMMA TellingOf ==
  ASSUME NEW w \in Workers,
         NEW x \in Tests, x \notin NotComparing, x # "dmem_data_integrity"
  PROVE  Telling(Script(x, w), Alien(x))
<1>1. x \in {"cpu_local_move", "dma_local_transfer", "dma_remote_transfer",
             "random_dma_remote", "dmem_basic_functionality", "dmem_large_transfers",
             "dmem_concurrent_access", "dmem_error_handling",
             "dmem_cross_module_transfers", "dmem_alignment_testing",
             "c0_gather", "c0_distribute", "parallel_c0_access"}
  BY DEF Tests, ToSet, hal_tests, c0_tests, NotComparing
<1>2. Telling(dmem_error_handling, {})
  <2> DEFINE S == dmem_error_handling
  <2>1. /\ Len(S) = 2 /\ S[1] = Query("zero_size") /\ S[2] = Query("null_read")
    BY DEF dmem_error_handling
  <2>2. S \in Seq(SUBSET Calls) BY QuietTests DEF Sound
  <2>3. \A what : \A d \in Query(what) : d.op # "move" BY DEF Query
  <2> HIDE DEF S
  <2>4. \A q \in 1 .. 2 : q = 1 \/ q = 2 OBVIOUS
  <2>5. \A q \in 1 .. Len(S) : \A d \in S[q] : d.op # "move" BY <2>1, <2>3, <2>4
  <2>6. Telling(S, {}) BY <2>2, <2>5, NothingMoved
  <2> QED BY <2>6 DEF S
<1>3. Telling(parallel_c0_access, {})
  <2> DEFINE S == parallel_c0_access
  <2>1. Len(S) = 1 /\ S[1] = Store(Dmem(0, PARALLEL), 4, Zero)
    BY DEF parallel_c0_access
  <2>2. S \in Seq(SUBSET Calls) BY QuietTests DEF Sound
  <2>3. PICK e : Store(Dmem(0, PARALLEL), 4, Zero) = {e} /\ e.op = "store" BY OneCall
  <2> HIDE DEF S
  <2>4. \A q \in 1 .. Len(S) : \A d \in S[q] : d.op # "move" BY <2>1, <2>3
  <2>5. Telling(S, {}) BY <2>2, <2>4, NothingMoved
  <2> QED BY <2>5 DEF S
<1>4. CASE x \notin {"dmem_cross_module_transfers", "c0_gather", "c0_distribute"}
  <2>1. Telling(Script(x, w), {})
    BY <1>1, <1>2, <1>3, <1>4, TellingSimple, TellingConcurrent, ScriptOf
  <2> QED BY <2>1, TellingMore
<1>5. CASE x = "dmem_cross_module_transfers" BY <1>5, TellingCross, ScriptOf
<1>6. CASE x = "c0_gather" BY <1>6, TellingLoops, ScriptOf
<1>7. CASE x = "c0_distribute" BY <1>7, TellingLoops, ScriptOf
<1> QED BY <1>4, <1>5, <1>6, <1>7

\* Every move brings what is not there.
Bringing(S, X) ==
    /\ S \in Seq(SUBSET Calls)
    /\ \A q \in 1 .. Len(S) : \A d \in S[q] : d.op = "move" =>
          InMemory(d.from, d.n) /\ InMemory(d.to, d.n) /\ Arrives(S, X, q, d)

LEMMA BringingOf ==
  ASSUME NEW w \in Workers, NEW x \in Tests, x \notin NotComparing
  PROVE  Bringing(Script(x, w), Alien(x))
<1>1. CASE x # "dmem_data_integrity"
  <2>1. Telling(Script(x, w), Alien(x)) BY <1>1, TellingOf
  <2> QED BY <2>1 DEF Telling, Told, Bringing
<1>2. CASE x = "dmem_data_integrity"
  <2> DEFINE S == dmem_data_integrity
             X == Alien(x)
  <2>1. S \in Seq(SUBSET Calls) /\ Len(S) = 4 BY IntegrityTest
  <2>2. PICK e : /\ S[1] = {e} /\ e.op = "store" /\ e.to = Dmem(0, 0) /\ e.n = 4
                 /\ e.data = Ramp(0)
    BY IntegrityTest
  <2>3. PICK z : /\ S[2] = {z} /\ z.op = "store" /\ z.to = Dmem(1, 0) /\ z.n = 4
                 /\ z.data = Zero
    BY IntegrityTest
  <2>4. PICK d : /\ S[3] = {d} /\ d.op = "move"
                 /\ d.from = Dmem(0, 0) /\ d.to = Dmem(1, 0) /\ d.n = 4
    BY IntegrityTest
  <2>5. PICK c : S[4] = {c} /\ c.op = "expect" BY IntegrityTest
  <2> HIDE DEF S, X
  <2>6. /\ InMemory(Dmem(0, 0), 4) /\ InMemory(Dmem(1, 0), 4)
        /\ Dmem(0, 0).of # Dmem(1, 0).of
    <3>1. /\ 0 \in 0 .. 7 /\ 1 \in 0 .. 7 /\ 4 \in 1 .. 17
          /\ <<"dmem", 0>> # <<"dmem", 1>>
      OBVIOUS
    <3> QED BY <3>1, FirstSlices
  <2>7. Clear(e, d.to, d.n) /\ Clear(z, d.from, d.n)
    BY <2>2, <2>3, <2>4, <2>6 DEF Clear
  <2>8. e.data # z.data BY <2>2, <2>3 DEF Ramp, Zero
  <2>9. Fills(S, 3, d, 1, e)
    <3>1. 3 \in 1 .. 4 /\ 1 \in 1 .. 3 - 1 OBVIOUS
    <3> QED BY <2>1, <2>2, <2>4, <2>6, <2>7, <3>1 DEF Fills
  <2>10. Clears(S, 3, d, 1, e, 2, z)
    <3>1. 2 \in 1 .. 3 - 1 /\ \A i \in 1 .. 3 : i = 1 \/ i = 2 \/ i = 3 OBVIOUS
    <3> QED BY <2>2, <2>3, <2>4, <2>7, <2>8, <3>1 DEF Clears
  <2>11. Arrives(S, X, 3, d) BY <2>9, <2>10, ArrivesCleared
  <2>12. ASSUME NEW q \in 1 .. 4, NEW f \in S[q], f.op = "move" PROVE q = 3 /\ f = d
    <3>1. q = 1 \/ q = 2 \/ q = 3 \/ q = 4 OBVIOUS
    <3> QED BY <2>2, <2>3, <2>4, <2>5, <2>12, <3>1
  <2>13. Bringing(S, X) BY <2>1, <2>4, <2>6, <2>11, <2>12 DEF Bringing
  <2> QED BY <1>2, <2>13, ScriptOf DEF S, X
<1> QED BY <1>1, <1>2

-----------------------------------------------------------------------------
(***************************************************************************)
(* What the tests leave alone: the slices a later test relies on.          *)
(***************************************************************************)

\* A move to what X is about is from what X is about.
Harmless(from, to, n, X) ==
    \A p \in X :
        \/ to.of # p[1].of
        \/ p[1].at \notin to.at .. to.at + n - 1
        \/ <<[of |-> from.of, at |-> from.at + (p[1].at - to.at)], p[2]>> \in X

\* The calls of a step put nothing where X says it is not.
Spared(step, X) ==
    \A c \in step :
        /\ c.op = "store" => \A p \in X : c.to.of # p[1].of \/ c.data # p[2]
        /\ c.op = "move" => Harmless(c.from, c.to, c.n, X)

Sparing(S, X) == \A q \in 1 .. Len(S) : Spared(S[q], X)

LEMMA SparedSteps ==
  ASSUME NEW X
  PROVE  /\ \A to, n, v : (\A p \in X : to.of # p[1].of \/ v # p[2]) => Spared(Store(to, n, v), X)
         /\ \A from, to, n : Harmless(from, to, n, X) =>
               Spared(Move(from, to, n), X) /\ Spared(CheckedMove(from, to, n), X)
         /\ \A a, b, n : Spared(Compare(a, b, n), X)
         /\ \A a, n, v : Spared(CompareWith(a, n, v), X)
         /\ \A what : Spared(Query(what), X)
<1>1. ASSUME NEW to, NEW n, NEW v, \A p \in X : to.of # p[1].of \/ v # p[2]
      PROVE  Spared(Store(to, n, v), X)
  <2>1. PICK e : /\ Store(to, n, v) = {e} /\ e.op = "store" /\ e.to = to /\ e.n = n
                 /\ e.data = v
    BY OneCall
  <2> QED BY <1>1, <2>1 DEF Spared
<1>2. ASSUME NEW from, NEW to, NEW n, Harmless(from, to, n, X)
      PROVE  Spared(Move(from, to, n), X) /\ Spared(CheckedMove(from, to, n), X)
  <2>1. PICK d : /\ Move(from, to, n) = {d} /\ d.op = "move" /\ d.from = from
                 /\ d.to = to /\ d.n = n
    BY OneCall
  <2>2. PICK e : /\ CheckedMove(from, to, n) = {e} /\ e.op = "move" /\ e.from = from
                 /\ e.to = to /\ e.n = n
    BY OneCall
  <2> QED BY <1>2, <2>1, <2>2 DEF Spared
<1>3. ASSUME NEW a, NEW b, NEW n PROVE Spared(Compare(a, b, n), X)
  <2>1. PICK e : Compare(a, b, n) = {e} /\ e.op = "compare" BY OneCall
  <2> QED BY <2>1 DEF Spared
<1>4. ASSUME NEW a, NEW n, NEW v PROVE Spared(CompareWith(a, n, v), X)
  <2>1. PICK e : CompareWith(a, n, v) = {e} /\ e.op = "expect" BY OneCall
  <2> QED BY <2>1 DEF Spared
<1>5. ASSUME NEW what PROVE Spared(Query(what), X)
  <2>1. PICK e : Query(what) = {e} /\ e.op = "query" BY OneCall
  <2> QED BY <2>1 DEF Spared
<1> QED BY <1>1, <1>2, <1>3, <1>4, <1>5

\* A pattern X is not about.
Strange(v, X) == \A p \in X : v # p[2]

\* The tests by their length.
LEMMA SparedTuples ==
  ASSUME NEW X, NEW s, NEW t, Spared(s, X), Spared(t, X)
  PROVE  /\ Spared(s \cup t, X) /\ Sparing(<<s>>, X) /\ Sparing(<<s, t>>, X)
<1>1. \A q \in 1 .. 2 : q = 1 \/ q = 2 OBVIOUS
<1>2. Len(<<s>>) = 1 /\ <<s>>[1] = s OBVIOUS
<1>3. Len(<<s, t>>) = 2 /\ <<s, t>>[1] = s /\ <<s, t>>[2] = t OBVIOUS
<1>4. \A q \in 1 .. 1 : q = 1 OBVIOUS
<1>5. Sparing(<<s>>, X) BY <1>2, <1>4 DEF Sparing
<1>6. Sparing(<<s, t>>, X) BY <1>1, <1>3 DEF Sparing
<1>7. Spared(s \cup t, X) BY DEF Spared
<1> QED BY <1>5, <1>6, <1>7

LEMMA SparedFive ==
  ASSUME NEW X, NEW r, NEW s, NEW t, NEW u, NEW v,
         Spared(r, X), Spared(s, X), Spared(t, X), Spared(u, X), Spared(v, X)
  PROVE  Sparing(<<r, s, t, u, v>>, X)
<1> DEFINE S == <<r, s, t, u, v>>
<1>1. Len(S) = 5 /\ S[1] = r /\ S[2] = s /\ S[3] = t /\ S[4] = u /\ S[5] = v OBVIOUS
<1> HIDE DEF S
<1>2. \A q \in 1 .. 5 : q = 1 \/ q = 2 \/ q = 3 \/ q = 4 \/ q = 5 OBVIOUS
<1>3. Sparing(S, X) BY <1>1, <1>2 DEF Sparing
<1> QED BY <1>3 DEF S

LEMMA SparingCase ==
  ASSUME NEW X, NEW from, NEW to, NEW n, NEW x,
         Strange(x, X), Strange(Zero, X), Harmless(from, to, n, X)
  PROVE  Sparing(CopyCase(from, to, n, x), X) /\ Sparing(CheckedCase(from, to, n, x), X)
<1>1. ASSUME NEW move, Spared(move, X) PROVE Sparing(MoveCase(from, to, n, x, move), X)
  <2> DEFINE S == MoveCase(from, to, n, x, move)
  <2>1. /\ Len(S) = 4
        /\ S[1] = Store(from, n, x) /\ S[2] = Store(to, n, Zero)
        /\ S[3] = move /\ S[4] = Compare(from, to, n)
    BY DEF MoveCase
  <2> HIDE DEF S
  <2>2. Spared(S[1], X) /\ Spared(S[2], X) BY <2>1, SparedSteps DEF Strange
  <2>3. Spared(S[3], X) /\ Spared(S[4], X) BY <1>1, <2>1, SparedSteps
  <2>4. \A q \in 1 .. 4 : q = 1 \/ q = 2 \/ q = 3 \/ q = 4 OBVIOUS
  <2>5. Sparing(S, X) BY <2>1, <2>2, <2>3, <2>4 DEF Sparing
  <2> QED BY <2>5 DEF S
<1>2. Spared(Move(from, to, n), X) /\ Spared(CheckedMove(from, to, n), X) BY SparedSteps
<1> QED BY <1>1, <1>2 DEF CopyCase, CheckedCase

LEMMA SparingConcat ==
  ASSUME NEW X, NEW s \in Seq(SUBSET Calls), NEW t \in Seq(SUBSET Calls),
         Sparing(s, X), Sparing(t, X)
  PROVE  Sparing(s \o t, X)
<1> DEFINE S == s \o t
           n == Len(s)
<1>1. /\ Len(S) = n + Len(t) /\ n \in Nat /\ Len(t) \in Nat
      /\ \A i \in 1 .. n : S[i] = s[i]
      /\ \A i \in 1 .. Len(t) : S[n + i] = t[i]
  OBVIOUS
<1>2. \A i \in 1 .. n : Spared(s[i], X) BY DEF Sparing
<1>3. \A i \in 1 .. Len(t) : Spared(t[i], X) BY DEF Sparing
<1> HIDE DEF S, n
<1>4. ASSUME NEW q \in 1 .. Len(S) PROVE Spared(S[q], X)
  <2>1. CASE q \in 1 .. n BY <1>1, <1>2, <2>1
  <2>2. CASE q \notin 1 .. n
    <3>1. q - n \in 1 .. Len(t) /\ q = n + (q - n) BY <1>1, <2>2
    <3>2. S[n + (q - n)] = t[q - n] BY <1>1, <3>1
    <3> QED BY <1>3, <3>1, <3>2
  <2> QED BY <2>1, <2>2
<1>5. Sparing(S, X) BY <1>4 DEF Sparing
<1> QED BY <1>5 DEF S

\* The names of the slices.
LEMMA SliceNames ==
  /\ \A d, i : Dmem(d, i).of = <<"dmem", d>> /\ Dmem(d, i).at = i
  /\ \A t, i : Dlm1(t, i).of = <<"dlm1", t>> /\ Dlm1(t, i).at = i
  /\ \A d, i, k : [of |-> Dmem(d, i).of, at |-> k] = Dmem(d, k)
  /\ \A t, i, k : [of |-> Dlm1(t, i).of, at |-> k] = Dlm1(t, k)
  /\ \A d, t : <<"dmem", d>> # <<"dlm1", t>>
  /\ \A d, e : <<"dmem", d>> = <<"dmem", e>> => d = e
  /\ \A d, e : <<"dlm1", d>> = <<"dlm1", e>> => d = e
BY DEF Dmem, Dlm1

LEMMA RampNames ==
  /\ \A u, v : Ramp(u) = Ramp(v) <=> u % 256 = v % 256
  /\ \A v, s : Ramp(v) # Zero /\ Xor(s) # Zero /\ Ramp(v) # Xor(s)
BY DEF Ramp, Zero, Xor

LEMMA GatherAlien ==
  ASSUME NEW p \in Alien("c0_gather")
  PROVE  \E d, e \in 0 .. 7 : p[1] = Dlm1(0, d) /\ p[2] = Ramp(\h10 + e)
BY DEF Alien

LEMMA SpareGather ==
  LET X == Alien("c0_gather")
  IN  /\ Sparing(cpu_local_move, X) /\ Sparing(dma_local_transfer, X)
      /\ Sparing(dma_remote_transfer, X)
<1> DEFINE X == Alien("c0_gather")
<1>1. ASSUME NEW p \in X
      PROVE  /\ p[1].of = <<"dlm1", 0>> /\ p[1].at \in 0 .. 7
             /\ p[2] \notin {Ramp(\h55), Ramp(\hAA), Ramp(\h5A), Zero}
  <2>1. PICK d \in 0 .. 7, e \in 0 .. 7 : p[1] = Dlm1(0, d) /\ p[2] = Ramp(\h10 + e)
    BY GatherAlien
  <2>2. /\ (\h10 + e) % 256 = \h10 + e /\ \h55 % 256 = \h55 /\ \hAA % 256 = \hAA
        /\ \h5A % 256 = \h5A
    OBVIOUS
  <2> QED BY <2>1, <2>2, SliceNames, RampNames
<1>2. Strange(Ramp(\h55), X) /\ Strange(Ramp(\hAA), X) /\ Strange(Ramp(\h5A), X)
      /\ Strange(Zero, X)
  BY <1>1 DEF Strange
<1>3. \A d \in 0 .. 7 : <<Dlm1(0, 0), Ramp(\h10 + d)>> \in X BY DEF Alien
<1>4. Harmless(Dlm1(0, 0), Dlm1(0, 1), 1, X)
  <2>1. ASSUME NEW p \in X, p[1].at \in 1 .. 1 + 1 - 1
        PROVE  <<[of |-> Dlm1(0, 0).of, at |-> 0 + (p[1].at - 1)], p[2]>> \in X
    <3>1. 0 + (p[1].at - 1) = 0 BY <2>1
    <3>2. PICK e \in 0 .. 7 : p[2] = Ramp(\h10 + e) BY GatherAlien
    <3> QED BY <1>3, <3>1, <3>2, SliceNames
  <2>2. Dlm1(0, 0).at = 0 /\ Dlm1(0, 1).at = 1 BY SliceNames
  <2> QED BY <2>1, <2>2 DEF Harmless
<1>5. \A from, n : Harmless(from, Dlm1(1, 1), n, X) /\ Harmless(from, Dmem(5, 0), n, X)
  BY <1>1, SliceNames DEF Harmless
<1> HIDE DEF X
<1>6. Sparing(cpu_local_move, X) BY <1>2, <1>4, SparingCase DEF cpu_local_move
<1>7. Sparing(dma_local_transfer, X) BY <1>2, <1>5, SparingCase DEF dma_local_transfer
<1>8. Sparing(dma_remote_transfer, X) BY <1>2, <1>5, SparingCase DEF dma_remote_transfer
<1> QED BY <1>6, <1>7, <1>8 DEF X

\* The steps of c0_gather and of c0_distribute leave alone what their fills and
\* their transfers do.
LEMMA SparingLoops ==
  ASSUME NEW X
  PROVE  /\ (\A h \in 0 .. 7 : /\ Spared(Store(Dmem(h, 0), 1, Ramp(\h10 + h)), X)
                               /\ Harmless(Dmem(h, 0), Dlm1(0, h), 1, X))
            => Sparing(c0_gather, X)
         /\ (\A h \in 0 .. 7 : /\ Spared(Store(Dlm1(0, h), 1, Ramp(\hE0 + h)), X)
                               /\ Harmless(Dlm1(0, 0), Dmem(h, 0), 1, X))
            => Sparing(c0_distribute, X)
<1>1. ASSUME \A h \in 0 .. 7 : /\ Spared(Store(Dmem(h, 0), 1, Ramp(\h10 + h)), X)
                               /\ Harmless(Dmem(h, 0), Dlm1(0, h), 1, X)
      PROVE  Sparing(c0_gather, X)
  <2>1. ASSUME NEW h \in 0 .. 7
        PROVE  /\ Spared(c0_gather[h + 1], X) /\ Spared(c0_gather[9 + 2 * h], X)
               /\ Spared(c0_gather[10 + 2 * h], X)
    <3>1. /\ c0_gather[h + 1] = Store(Dmem(h, 0), 1, Ramp(\h10 + h))
          /\ c0_gather[9 + 2 * h] = Move(Dmem(h, 0), Dlm1(0, h), 1)
          /\ c0_gather[10 + 2 * h] = Compare(Dmem(h, 0), Dlm1(0, h), 1)
      BY LoopScripts
    <3>2. Spared(Store(Dmem(h, 0), 1, Ramp(\h10 + h)), X) BY <1>1
    <3>3. Spared(Move(Dmem(h, 0), Dlm1(0, h), 1), X) BY <1>1, SparedSteps
    <3>4. Spared(Compare(Dmem(h, 0), Dlm1(0, h), 1), X) BY SparedSteps
    <3> QED BY <3>1, <3>2, <3>3, <3>4
  <2>2. ASSUME NEW i \in 1 .. 24 PROVE Spared(c0_gather[i], X)
    <3>1. PICK h \in 0 .. 7 : i = h + 1 \/ i = 9 + 2 * h \/ i = 10 + 2 * h BY LoopAt
    <3> QED BY <2>1, <3>1
  <2>3. Len(c0_gather) = 24 BY LoopScripts
  <2> QED BY <2>2, <2>3 DEF Sparing
<1>2. ASSUME \A h \in 0 .. 7 : /\ Spared(Store(Dlm1(0, h), 1, Ramp(\hE0 + h)), X)
                               /\ Harmless(Dlm1(0, 0), Dmem(h, 0), 1, X)
      PROVE  Sparing(c0_distribute, X)
  <2>1. ASSUME NEW h \in 0 .. 7
        PROVE  /\ Spared(c0_distribute[h + 1], X) /\ Spared(c0_distribute[9 + 2 * h], X)
               /\ Spared(c0_distribute[10 + 2 * h], X)
    <3>1. /\ c0_distribute[h + 1] = Store(Dlm1(0, h), 1, Ramp(\hE0 + h))
          /\ c0_distribute[9 + 2 * h] = Move(Dlm1(0, 0), Dmem(h, 0), 1)
          /\ c0_distribute[10 + 2 * h] = Compare(Dlm1(0, 0), Dmem(h, 0), 1)
      BY LoopScripts
    <3>2. Spared(Store(Dlm1(0, h), 1, Ramp(\hE0 + h)), X) BY <1>2
    <3>3. Spared(Move(Dlm1(0, 0), Dmem(h, 0), 1), X) BY <1>2, SparedSteps
    <3>4. Spared(Compare(Dlm1(0, 0), Dmem(h, 0), 1), X) BY SparedSteps
    <3> QED BY <3>1, <3>2, <3>3, <3>4
  <2>2. ASSUME NEW i \in 1 .. 24 PROVE Spared(c0_distribute[i], X)
    <3>1. PICK h \in 0 .. 7 : i = h + 1 \/ i = 9 + 2 * h \/ i = 10 + 2 * h BY LoopAt
    <3> QED BY <2>1, <3>1
  <2>3. Len(c0_distribute) = 24 BY LoopScripts
  <2> QED BY <2>2, <2>3 DEF Sparing
<1> QED BY <1>1, <1>2

LEMMA SpareDistribute ==
  LET X == Alien("c0_distribute")
  IN  /\ Sparing(cpu_local_move, X) /\ Sparing(dma_local_transfer, X)
      /\ Sparing(dma_remote_transfer, X) /\ Sparing(c0_gather, X)
<1> DEFINE X == Alien("c0_distribute")
<1>1. ASSUME NEW p \in X
      PROVE  /\ p[1] = Dlm1(2, 0) \/ \E d \in 0 .. 7 : p[1] = Dmem(d, 0)
             /\ p[2] = Ramp(\hE0)
  BY DEF Alien
<1>2. ASSUME NEW p \in X
      PROVE  /\ p[1].of = <<"dlm1", 2>> \/ \E d \in 0 .. 7 : p[1].of = <<"dmem", d>>
             /\ p[1].at = 0
  <2>1. p[1] = Dlm1(2, 0) \/ \E d \in 0 .. 7 : p[1] = Dmem(d, 0) BY <1>1
  <2> QED BY <2>1, SliceNames
<1>3. <<Dlm1(2, 0), Ramp(\hE0)>> \in X /\ \A d \in 0 .. 7 : <<Dmem(d, 0), Ramp(\hE0)>> \in X
  BY DEF Alien
<1>4. ASSUME NEW v \in 0 .. 255, v # \hE0 PROVE Strange(Ramp(v), X)
  <2>1. v % 256 = v /\ \hE0 % 256 = \hE0 OBVIOUS
  <2> QED BY <1>1, <1>4, <2>1, RampNames DEF Strange
<1>5. Strange(Zero, X) BY <1>1, RampNames DEF Strange
<1> HIDE DEF X
<1>6. Harmless(Dlm1(2, 0), Dmem(5, 0), 1, X)
  <2>1. ASSUME NEW p \in X, p[1].at \in 0 .. 0 + 1 - 1
        PROVE  <<[of |-> Dlm1(2, 0).of, at |-> 0 + (p[1].at - 0)], p[2]>> \in X
    <3>1. 0 + (p[1].at - 0) = 0 BY <2>1
    <3> QED BY <1>1, <1>3, <3>1, SliceNames
  <2>2. Dlm1(2, 0).at = 0 /\ Dmem(5, 0).at = 0 BY SliceNames
  <2> QED BY <2>1, <2>2 DEF Harmless
<1>7. \A from, n, t, i : t \in {0, 1} => Harmless(from, Dlm1(t, i), n, X)
  BY <1>2, SliceNames DEF Harmless
<1>8. Sparing(cpu_local_move, X) BY <1>4, <1>5, <1>7, SparingCase DEF cpu_local_move
<1>9. Sparing(dma_local_transfer, X) BY <1>4, <1>5, <1>7, SparingCase DEF dma_local_transfer
<1>10. Sparing(dma_remote_transfer, X) BY <1>4, <1>5, <1>6, SparingCase DEF dma_remote_transfer
<1>11. ASSUME NEW h \in 0 .. 7 PROVE Spared(Store(Dmem(h, 0), 1, Ramp(\h10 + h)), X)
  <2>1. \h10 + h \in 0 .. 255 /\ \h10 + h # \hE0 OBVIOUS
  <2>2. Strange(Ramp(\h10 + h), X) BY <1>4, <2>1
  <2> QED BY <2>2, SparedSteps DEF Strange
<1>12. Sparing(c0_gather, X) BY <1>7, <1>11, SparingLoops
<1> QED BY <1>8, <1>9, <1>10, <1>12 DEF X

\* What dmem_cross_module_transfers relies on.
LEMMA CrossAlien ==
  LET X == Alien("dmem_cross_module_transfers")
  IN  /\ <<Dmem(0, 0), Ramp(\h11)>> \in X /\ <<Dmem(2, 0), Ramp(\h11)>> \in X
      /\ <<Dmem(3, 0), Ramp(\h11)>> \in X /\ <<Dlm1(0, 0), Ramp(\h11)>> \in X
      /\ <<Dmem(6, 1), Ramp(\h22)>> \in X
      /\ <<Dmem(0, 3), Ramp(\h33)>> \in X /\ <<Dmem(7, 3), Ramp(\h33)>> \in X
      /\ \A p \in X :
           \/ p[1] \in {Dmem(0, 0), Dmem(2, 0), Dmem(3, 0), Dlm1(0, 0)} /\ p[2] = Ramp(\h11)
           \/ p[1] = Dmem(6, 1) /\ p[2] = Ramp(\h22)
           \/ p[1] \in {Dmem(0, 3), Dmem(7, 3)} /\ p[2] = Ramp(\h33)
BY DEF Alien

LEMMA CrossStores ==
  LET X == Alien("dmem_cross_module_transfers")
  IN  /\ \A v \in 0 .. 255 \ {\h11, \h22, \h33} : Strange(Ramp(v), X)
      /\ Strange(Zero, X) /\ \A s : Strange(Xor(s), X)
      /\ \A h \in 0 .. 7 : Spared(Store(Dmem(h, 0), 1, Ramp(\h10 + h)), X)
      /\ Spared(Store(Dmem(2, 0), 4, Ramp(\h33)), X)
      /\ \A w \in Tiles : Spared(Store(Dlm1(w, 0), 2, Ramp(\h10 + w)), X)
<1> DEFINE X == Alien("dmem_cross_module_transfers")
<1>1. ASSUME NEW p \in X
      PROVE  \/ p[1] \in {Dmem(0, 0), Dmem(2, 0), Dmem(3, 0), Dlm1(0, 0)} /\ p[2] = Ramp(\h11)
             \/ p[1] = Dmem(6, 1) /\ p[2] = Ramp(\h22)
             \/ p[1] \in {Dmem(0, 3), Dmem(7, 3)} /\ p[2] = Ramp(\h33)
  BY CrossAlien
<1> HIDE DEF X
<1>2. ASSUME NEW p \in X PROVE p[2] \in {Ramp(\h11), Ramp(\h22), Ramp(\h33)}
  BY <1>1
<1>3. \h11 % 256 = \h11 /\ \h22 % 256 = \h22 /\ \h33 % 256 = \h33 OBVIOUS
<1>4. ASSUME NEW v \in 0 .. 255 \ {\h11, \h22, \h33} PROVE Strange(Ramp(v), X)
  <2>1. v % 256 = v OBVIOUS
  <2>2. Ramp(v) \notin {Ramp(\h11), Ramp(\h22), Ramp(\h33)} BY <1>3, <2>1, RampNames
  <2> QED BY <1>2, <2>2 DEF Strange
<1>5. Strange(Zero, X) /\ \A s : Strange(Xor(s), X) BY <1>2, RampNames DEF Strange
<1>6. ASSUME NEW h \in 0 .. 7 PROVE Spared(Store(Dmem(h, 0), 1, Ramp(\h10 + h)), X)
  <2>1. CASE h = 1
    <3>1. \A p \in X : Dmem(h, 0).of # p[1].of BY <1>1, <2>1, SliceNames
    <3> QED BY <3>1, SparedSteps
  <2>2. CASE h # 1
    <3>1. \h10 + h \in 0 .. 255 \ {\h11, \h22, \h33} BY <2>2
    <3>2. Strange(Ramp(\h10 + h), X) BY <1>4, <3>1
    <3> QED BY <3>2, SparedSteps DEF Strange
  <2> QED BY <2>1, <2>2
<1>7. Spared(Store(Dmem(2, 0), 4, Ramp(\h33)), X)
  <2>1. Ramp(\h33) # Ramp(\h11) /\ Ramp(\h33) # Ramp(\h22) BY <1>3, RampNames
  <2>2. \A p \in X : Dmem(2, 0).of # p[1].of \/ Ramp(\h33) # p[2]
    BY <1>1, <2>1, SliceNames
  <2> QED BY <2>2, SparedSteps
<1>8. ASSUME NEW w \in Tiles PROVE Spared(Store(Dlm1(w, 0), 2, Ramp(\h10 + w)), X)
  <2>1. w # 0 BY NodeCountAssumption DEF Tiles
  <2>2. \A p \in X : Dlm1(w, 0).of # p[1].of BY <1>1, <2>1, SliceNames
  <2> QED BY <2>2, SparedSteps
<1> QED BY <1>4, <1>5, <1>6, <1>7, <1>8 DEF X

LEMMA CrossMoves ==
  LET X == Alien("dmem_cross_module_transfers")
  IN  /\ \A from, d, i, n : d \in {1, 5} => Harmless(from, Dmem(d, i), n, X)
      /\ \A from, t, i, n : t # 0 => Harmless(from, Dlm1(t, i), n, X)
      /\ \A from : \A i, n \in Nat : i > 0 => Harmless(from, Dlm1(0, i), n, X)
      /\ \A from : Harmless(from, Dmem(7, 0), 1, X)
      /\ \A from : Harmless(from, Dmem(0, PARALLEL), 2, X)
      /\ Harmless(Dmem(2, 0), Dmem(3, 0), 4, X) /\ Harmless(Dmem(0, 0), Dmem(7, 0), 4, X)
      /\ \A h \in 0 .. 7 : /\ Harmless(Dmem(h, 0), Dlm1(0, h), 1, X)
                           /\ Harmless(Dlm1(0, 0), Dmem(h, 0), 1, X)
<1> DEFINE X == Alien("dmem_cross_module_transfers")
           R == Ramp(\h11)
<1>1. ASSUME NEW p \in X
      PROVE  /\ p[1].of \in {<<"dmem", 0>>, <<"dmem", 2>>, <<"dmem", 3>>, <<"dmem", 6>>,
                             <<"dmem", 7>>, <<"dlm1", 0>>}
             /\ p[1].of \in {<<"dmem", 2>>, <<"dmem", 3>>, <<"dlm1", 0>>} => p[1].at = 0
             /\ p[1].of = <<"dmem", 0>> => p[1].at \in {0, 3}
             /\ p[1].of = <<"dmem", 6>> => p[1].at = 1
             /\ p[1].of = <<"dmem", 7>> => p[1].at = 3 /\ p[2] = Ramp(\h33)
             /\ p[1].at = 0 => p[2] = R
  <2>1. \/ p[1] \in {Dmem(0, 0), Dmem(2, 0), Dmem(3, 0), Dlm1(0, 0)} /\ p[2] = R
        \/ p[1] = Dmem(6, 1) /\ p[2] = Ramp(\h22)
        \/ p[1] \in {Dmem(0, 3), Dmem(7, 3)} /\ p[2] = Ramp(\h33)
    BY CrossAlien
  <2>2. \/ p[1].of \in {<<"dmem", 0>>, <<"dmem", 2>>, <<"dmem", 3>>, <<"dlm1", 0>>}
           /\ p[1].at = 0 /\ p[2] = R
        \/ p[1].of = <<"dmem", 6>> /\ p[1].at = 1
        \/ p[1].of = <<"dmem", 0>> /\ p[1].at = 3
        \/ p[1].of = <<"dmem", 7>> /\ p[1].at = 3 /\ p[2] = Ramp(\h33)
    BY <2>1, SliceNames
  <2> HIDE DEF X, R
  <2> QED BY <2>2
<1>2. /\ <<Dmem(0, 0), R>> \in X /\ <<Dmem(2, 0), R>> \in X
      /\ <<Dmem(3, 0), R>> \in X /\ <<Dlm1(0, 0), R>> \in X
      /\ <<Dmem(0, 3), Ramp(\h33)>> \in X
  BY CrossAlien
<1> HIDE DEF X, R
<1>3. ASSUME NEW from, NEW d \in {1, 5}, NEW i, NEW n PROVE Harmless(from, Dmem(d, i), n, X)
  BY <1>1, SliceNames DEF Harmless
<1>4. ASSUME NEW from, NEW t, t # 0, NEW i, NEW n PROVE Harmless(from, Dlm1(t, i), n, X)
  BY <1>1, <1>4, SliceNames DEF Harmless
<1>5. ASSUME NEW from, NEW i \in Nat, NEW n \in Nat, i > 0
      PROVE  Harmless(from, Dlm1(0, i), n, X)
  <2>1. ASSUME NEW p \in X, p[1].of = <<"dlm1", 0>> PROVE p[1].at \notin i .. i + n - 1
    BY <1>1, <1>5, <2>1
  <2> QED BY <2>1, SliceNames DEF Harmless
<1>6. ASSUME NEW from PROVE Harmless(from, Dmem(7, 0), 1, X)
  <2>1. ASSUME NEW p \in X, p[1].of = <<"dmem", 7>> PROVE p[1].at \notin 0 .. 0 + 1 - 1
    BY <1>1, <2>1
  <2> QED BY <2>1, SliceNames DEF Harmless
<1>7. ASSUME NEW from PROVE Harmless(from, Dmem(0, PARALLEL), 2, X)
  <2>1. ASSUME NEW p \in X, p[1].of = <<"dmem", 0>>
        PROVE  p[1].at \notin PARALLEL .. PARALLEL + 2 - 1
    BY <1>1, <2>1 DEF PARALLEL
  <2> QED BY <2>1, SliceNames DEF Harmless
<1>8. Harmless(Dmem(2, 0), Dmem(3, 0), 4, X)
  <2>1. ASSUME NEW p \in X, p[1].of = <<"dmem", 3>>
        PROVE  <<Dmem(2, 0 + (p[1].at - 0)), p[2]>> \in X
    <3>1. 0 + (p[1].at - 0) = 0 /\ p[2] = R BY <1>1, <2>1
    <3> QED BY <1>2, <3>1
  <2>2. ASSUME NEW p \in X, p[1].of = <<"dmem", 3>>
        PROVE  <<[of |-> Dmem(2, 0).of, at |-> Dmem(2, 0).at + (p[1].at - Dmem(3, 0).at)],
                 p[2]>> \in X
    BY <2>1, <2>2, SliceNames
  <2> QED BY <2>2, SliceNames DEF Harmless
<1>9. Harmless(Dmem(0, 0), Dmem(7, 0), 4, X)
  <2>1. ASSUME NEW p \in X, p[1].of = <<"dmem", 7>>
        PROVE  <<Dmem(0, 0 + (p[1].at - 0)), p[2]>> \in X
    <3>1. 0 + (p[1].at - 0) = 3 /\ p[2] = Ramp(\h33) BY <1>1, <2>1
    <3> QED BY <1>2, <3>1
  <2>2. ASSUME NEW p \in X, p[1].of = <<"dmem", 7>>
        PROVE  <<[of |-> Dmem(0, 0).of, at |-> Dmem(0, 0).at + (p[1].at - Dmem(7, 0).at)],
                 p[2]>> \in X
    BY <2>1, <2>2, SliceNames
  <2> QED BY <2>2, SliceNames DEF Harmless
<1>10. ASSUME NEW h \in 0 .. 7 PROVE Harmless(Dmem(h, 0), Dlm1(0, h), 1, X)
  <2>1. ASSUME NEW p \in X, p[1].of = <<"dlm1", 0>>, p[1].at \in h .. h + 1 - 1
        PROVE  <<Dmem(h, 0 + (p[1].at - h)), p[2]>> \in X
    <3>1. h = 0 /\ 0 + (p[1].at - h) = 0 /\ p[2] = R BY <1>1, <2>1
    <3> QED BY <1>2, <3>1
  <2>2. ASSUME NEW p \in X, p[1].of = <<"dlm1", 0>>, p[1].at \in h .. h + 1 - 1
        PROVE  <<[of |-> Dmem(h, 0).of, at |-> Dmem(h, 0).at + (p[1].at - Dlm1(0, h).at)],
                 p[2]>> \in X
    BY <2>1, <2>2, SliceNames
  <2> QED BY <2>2, SliceNames DEF Harmless
<1>11. ASSUME NEW h \in 0 .. 7 PROVE Harmless(Dlm1(0, 0), Dmem(h, 0), 1, X)
  <2>1. ASSUME NEW p \in X, p[1].of = <<"dmem", h>>, p[1].at \in 0 .. 0 + 1 - 1
        PROVE  <<Dlm1(0, 0 + (p[1].at - 0)), p[2]>> \in X
    <3>1. 0 + (p[1].at - 0) = 0 /\ p[2] = R BY <1>1, <2>1
    <3> QED BY <1>2, <3>1
  <2>2. ASSUME NEW p \in X, p[1].of = <<"dmem", h>>, p[1].at \in 0 .. 0 + 1 - 1
        PROVE  <<[of |-> Dlm1(0, 0).of, at |-> Dlm1(0, 0).at + (p[1].at - Dmem(h, 0).at)],
                 p[2]>> \in X
    BY <2>1, <2>2, SliceNames
  <2> QED BY <2>2, SliceNames DEF Harmless
<1> QED BY <1>3, <1>4, <1>5, <1>6, <1>7, <1>8, <1>9, <1>10, <1>11 DEF X

\* No other test puts there what dmem_cross_module_transfers tells its moves by.
LEMMA SpareCross ==
  ASSUME NEW w \in Workers, NEW y \in Tests, y # "dmem_cross_module_transfers",
         y \in Transfers => w \in Tiles
  PROVE  Sparing(Script(y, w), Alien("dmem_cross_module_transfers"))
<1> DEFINE X == Alien("dmem_cross_module_transfers")
<1>1. /\ \A v \in 0 .. 255 \ {\h11, \h22, \h33} : Strange(Ramp(v), X)
      /\ Strange(Zero, X) /\ \A s : Strange(Xor(s), X)
  BY CrossStores
<1>2. /\ \A h \in 0 .. 7 : Spared(Store(Dmem(h, 0), 1, Ramp(\h10 + h)), X)
      /\ Spared(Store(Dmem(2, 0), 4, Ramp(\h33)), X)
      /\ \A t \in Tiles : Spared(Store(Dlm1(t, 0), 2, Ramp(\h10 + t)), X)
  BY CrossStores
<1>3. /\ \A from, d, i, n : d \in {1, 5} => Harmless(from, Dmem(d, i), n, X)
      /\ \A from, t, i, n : t # 0 => Harmless(from, Dlm1(t, i), n, X)
      /\ \A from : \A i, n \in Nat : i > 0 => Harmless(from, Dlm1(0, i), n, X)
  BY CrossMoves
<1>4. /\ \A from : Harmless(from, Dmem(7, 0), 1, X)
      /\ \A from : Harmless(from, Dmem(0, PARALLEL), 2, X)
      /\ Harmless(Dmem(2, 0), Dmem(3, 0), 4, X) /\ Harmless(Dmem(0, 0), Dmem(7, 0), 4, X)
      /\ \A h \in 0 .. 7 : /\ Harmless(Dmem(h, 0), Dlm1(0, h), 1, X)
                           /\ Harmless(Dlm1(0, 0), Dmem(h, 0), 1, X)
  BY CrossMoves
<1> HIDE DEF X
<1>5. Strange(Ramp(\h55), X) /\ Strange(Ramp(\hAA), X) /\ Strange(Ramp(\h5A), X)
      /\ Strange(Ramp(0), X) /\ Strange(Ramp(\hCC), X)
  BY <1>1
<1>6. Sparing(cpu_local_move, X) BY <1>1, <1>3, <1>5, SparingCase DEF cpu_local_move
<1>7. Sparing(dma_local_transfer, X)
  BY <1>1, <1>3, <1>5, SparingCase DEF dma_local_transfer
<1>8. Sparing(dma_remote_transfer, X)
  BY <1>1, <1>3, <1>5, SparingCase DEF dma_remote_transfer
<1>9. Sparing(noc_bandwidth, X) /\ Sparing(noc_latency, X)
  <2>1. Harmless(Dlm1(0, 0), Dlm1(0, KiB64), KiB64, X) BY <1>3 DEF KiB64
  <2>2. Spared(Move(Dlm1(0, 0), Dlm1(0, KiB64), KiB64), X)
        /\ Spared(Move(Dlm1(0, 0), Dmem(0, 0), 1), X)
    BY <1>4, <2>1, SparedSteps
  <2> QED BY <2>2, SparedTuples DEF noc_bandwidth, noc_latency
<1>10. Sparing(random_dma_remote, X)
  <2>1. Sparing(CopyCase(Dlm1(0, 0), Dmem(5, 0), 1, Xor(\hA5)), X)
        /\ Sparing(CopyCase(Dlm1(4, 0), Dmem(7, 0), 1, Xor(\h5A)), X)
    BY <1>1, <1>3, <1>4, SparingCase
  <2>2. /\ CopyCase(Dlm1(0, 0), Dmem(5, 0), 1, Xor(\hA5)) \in Seq(SUBSET Calls)
        /\ CopyCase(Dlm1(4, 0), Dmem(7, 0), 1, Xor(\h5A)) \in Seq(SUBSET Calls)
    <3>1. /\ Dlm1(0, 0) \in Places /\ Dlm1(4, 0) \in Places /\ Dmem(5, 0) \in Places
          /\ Dmem(7, 0) \in Places
      BY PlacesOf
    <3>2. Xor(\hA5) \in Patterns /\ Xor(\h5A) \in Patterns /\ Zero \in Patterns BY PatternsOf
    <3> QED BY <3>1, <3>2, StepTypes DEF CopyCase, MoveCase
  <2> QED BY <2>1, <2>2, SparingConcat DEF random_dma_remote
<1>11. Sparing(c0_gather, X) /\ Sparing(c0_distribute, X)
  <2>1. ASSUME NEW h \in 0 .. 7 PROVE Spared(Store(Dlm1(0, h), 1, Ramp(\hE0 + h)), X)
    <3>1. \hE0 + h \in 0 .. 255 \ {\h11, \h22, \h33} OBVIOUS
    <3>2. Strange(Ramp(\hE0 + h), X) BY <1>1, <3>1
    <3> QED BY <3>2, SparedSteps DEF Strange
  <2> QED BY <1>2, <1>4, <2>1, SparingLoops
<1>12. \A to, n : Spared(Store(to, n, Zero), X) BY <1>1, SparedSteps DEF Strange
<1>13. Sparing(parallel_c0_access, X) BY <1>12, SparedTuples DEF parallel_c0_access
<1>14. Sparing(dmem_basic_functionality, X) /\ Sparing(dmem_large_transfers, X)
  BY <1>1, <1>3, <1>5, SparingCase DEF dmem_basic_functionality, dmem_large_transfers
<1>15. ASSUME NEW from, NEW n PROVE Spared(CheckedMove(from, Dmem(1, 0), n), X)
  <2>1. Harmless(from, Dmem(1, 0), n, X) BY <1>3
  <2> QED BY <2>1, SparedSteps
<1>16. Spared(CheckedMove(Dmem(0, 0), Dmem(7, 0), 4), X)
       /\ Spared(CheckedMove(Dmem(2, 0), Dmem(3, 0), 4), X)
  BY <1>4, SparedSteps
<1>17. Sparing(dmem_boundary_conditions, X) /\ Sparing(dmem_performance_basic, X)
  BY <1>15, SparedTuples DEF dmem_boundary_conditions, dmem_performance_basic
<1>18. Sparing(dmem_error_handling, X) /\ Sparing(dmem_address_validation, X)
  <2>1. \A what : Spared(Query(what), X) BY SparedSteps
  <2>2. Sparing(dmem_error_handling, X) BY <2>1, SparedTuples DEF dmem_error_handling
  <2>3. Sparing(dmem_address_validation, X)
    BY <1>15, <1>16, <2>1, SparedFive DEF dmem_address_validation
  <2> QED BY <2>2, <2>3
<1>19. Sparing(dmem_data_integrity, X)
  <2> DEFINE S == dmem_data_integrity
  <2>1. /\ Len(S) = 4
        /\ S[1] = Store(Dmem(0, 0), 4, Ramp(0)) /\ S[2] = Store(Dmem(1, 0), 4, Zero)
        /\ S[3] = CheckedMove(Dmem(0, 0), Dmem(1, 0), 4)
        /\ S[4] = CompareWith(Dmem(1, 0), 4, Ramp(0))
    BY DEF dmem_data_integrity
  <2> HIDE DEF S
  <2>2. Spared(Store(Dmem(0, 0), 4, Ramp(0)), X) BY <1>5, SparedSteps DEF Strange
  <2>3. Spared(CompareWith(Dmem(1, 0), 4, Ramp(0)), X) BY SparedSteps
  <2>4. \A q \in 1 .. 4 : q = 1 \/ q = 2 \/ q = 3 \/ q = 4 OBVIOUS
  <2>5. Sparing(S, X) BY <1>12, <1>15, <2>1, <2>2, <2>3, <2>4 DEF Sparing
  <2> QED BY <2>5 DEF S
<1>20. Sparing(dmem_concurrent_access, X)
  <2> DEFINE S == dmem_concurrent_access
  <2>1. /\ Len(S) = 7
        /\ S[1] = Store(Dmem(0, 0), 4, Ramp(\hCC)) /\ S[2] = Store(Dmem(2, 0), 4, Ramp(\h33))
        /\ S[3] = Store(Dmem(1, 0), 4, Zero) /\ S[4] = Store(Dmem(3, 0), 4, Zero)
        /\ S[5] = CheckedMove(Dmem(0, 0), Dmem(1, 0), 4)
                     \cup CheckedMove(Dmem(2, 0), Dmem(3, 0), 4)
        /\ S[6] = Compare(Dmem(0, 0), Dmem(1, 0), 4)
        /\ S[7] = Compare(Dmem(2, 0), Dmem(3, 0), 4)
    BY DEF dmem_concurrent_access
  <2> HIDE DEF S
  <2>2. Spared(S[1], X)
    <3>1. Spared(Store(Dmem(0, 0), 4, Ramp(\hCC)), X) BY <1>5, SparedSteps DEF Strange
    <3> QED BY <2>1, <3>1
  <2>3. Spared(S[2], X) /\ Spared(S[3], X) /\ Spared(S[4], X) BY <1>2, <1>12, <2>1
  <2>4. Spared(S[5], X)
    <3> DEFINE g == CheckedMove(Dmem(0, 0), Dmem(1, 0), 4)
               h == CheckedMove(Dmem(2, 0), Dmem(3, 0), 4)
    <3>1. Spared(g, X) /\ Spared(h, X) BY <1>15, <1>16
    <3>2. S[5] = g \cup h BY <2>1
    <3> HIDE DEF g, h
    <3>3. Spared(g \cup h, X) BY <3>1, SparedTuples
    <3> QED BY <3>2, <3>3
  <2>5. Spared(S[6], X) /\ Spared(S[7], X) BY <2>1, SparedSteps
  <2>6. \A q \in 1 .. 7 : q = 1 \/ q = 2 \/ q = 3 \/ q = 4 \/ q = 5 \/ q = 6 \/ q = 7 OBVIOUS
  <2>7. Sparing(S, X) BY <2>1, <2>2, <2>3, <2>4, <2>5, <2>6 DEF Sparing
  <2> QED BY <2>7 DEF S
<1>21. Sparing(dmem_alignment_testing, X)
  <2>1. ASSUME NEW k \in {1, 3, 7}
        PROVE  Sparing(AlignmentCase(k), X) /\ AlignmentCase(k) \in Seq(SUBSET Calls)
    <3>1. /\ (\h5A + 256 - k) % 256 = \h5A - k
          /\ (\h5A - k) % 256 = \h5A - k
          /\ \h5A - k \in 0 .. 255 \ {\h11, \h22, \h33}
          /\ \h5A + 256 - k \in Int
      OBVIOUS
    <3>2. Ramp(\h5A + 256 - k) = Ramp(\h5A - k) BY <3>1, RampNames
    <3>3. Strange(Ramp(\h5A + 256 - k), X) BY <1>1, <3>1, <3>2
    <3>4. Sparing(AlignmentCase(k), X) BY <1>1, <1>3, <3>3, SparingCase DEF AlignmentCase
    <3>5. /\ Dmem(0, 0) \in Places /\ Dmem(1, 0) \in Places /\ Zero \in Patterns
          /\ Ramp(\h5A + 256 - k) \in Patterns
      BY <3>1, PlacesOf, PatternsOf
    <3> QED BY <3>4, <3>5, StepTypes DEF AlignmentCase, CheckedCase, MoveCase
  <2>2. /\ Sparing(AlignmentCase(1) \o AlignmentCase(3), X)
        /\ AlignmentCase(1) \o AlignmentCase(3) \in Seq(SUBSET Calls)
    BY <2>1, SparingConcat
  <2> QED BY <2>1, <2>2, SparingConcat DEF dmem_alignment_testing
<1>22. ASSUME y \in Transfers PROVE Sparing(tile_to_c0_transfer_task(w), X)
  <2>1. Spared(Store(Dlm1(w, 0), 2, Ramp(\h10 + w)), X) BY <1>2, <1>22
  <2>2. Spared(CheckedMove(Dlm1(w, 0), Dmem(0, PARALLEL), 2), X) BY <1>4, SparedSteps
  <2> QED BY <2>1, <2>2, SparedTuples DEF tile_to_c0_transfer_task
<1>23. y \in Transfers \/
       y \in {"cpu_local_move", "dma_local_transfer", "dma_remote_transfer", "noc_bandwidth",
              "noc_latency", "random_dma_remote", "dmem_basic_functionality",
              "dmem_large_transfers", "dmem_address_validation", "dmem_data_integrity",
              "dmem_concurrent_access", "dmem_boundary_conditions", "dmem_error_handling",
              "dmem_performance_basic",
              "dmem_alignment_testing", "c0_gather", "c0_distribute", "parallel_c0_access"}
  BY DEF Tests, ToSet, hal_tests, c0_tests
<1>24. CASE y \in Transfers BY <1>22, <1>24, ScriptOf DEF X
<1>25. CASE y \notin Transfers
  <2>1. Sparing(Script(y, w), X)
    BY <1>6, <1>7, <1>8, <1>9, <1>10, <1>11, <1>13, <1>14, <1>17, <1>18, <1>19, <1>20,
       <1>21, <1>23, <1>25, ScriptOf
  <2> QED BY <2>1 DEF X
<1> QED BY <1>24, <1>25

-----------------------------------------------------------------------------
(***************************************************************************)
(* What is not there when a test begins.                                   *)
(***************************************************************************)

LEMMA AlienPlaces ==
  \A x : \A p \in Alien(x) : InMemory(p[1], 1)
<1>1. \A d \in 0 .. 7, i \in 0 .. 7 : InMemory(Dmem(d, i), 1)
  <2>1. ASSUME NEW d \in 0 .. 7, NEW i \in 0 .. 7 PROVE InMemory(Dmem(d, i), 1)
    <3>1. i \in Nat /\ i + 1 <= 17 OBVIOUS
    <3>2. Dmem(d, i) \in Places /\ Dmem(d, i).of = <<"dmem", d>> /\ Dmem(d, i).at = i
      BY <3>1, PlacesOf
    <3> QED BY <3>1, <3>2, RoomOf DEF InMemory
  <2> QED BY <2>1
<1>2. \A t \in {0, 2}, i \in 0 .. 7 : InMemory(Dlm1(t, i), 1)
  <2>1. ASSUME NEW t \in {0, 2}, NEW i \in 0 .. 7 PROVE InMemory(Dlm1(t, i), 1)
    <3>1. i \in Nat /\ i + 1 <= 16 OBVIOUS
    <3>2. Dlm1(t, i) \in Places /\ Dlm1(t, i).of = <<"dlm1", t>> /\ Dlm1(t, i).at = i
      BY <3>1, PlacesOf
    <3> QED BY <3>1, <3>2, RoomOf DEF InMemory
  <2> QED BY <2>1
<1>3. \A p \in Alien("c0_gather") : InMemory(p[1], 1) BY <1>2, GatherAlien
<1>4. \A p \in Alien("c0_distribute") : InMemory(p[1], 1)
  <2>1. \A p \in Alien("c0_distribute") :
           p[1] = Dlm1(2, 0) \/ \E d \in 0 .. 7 : p[1] = Dmem(d, 0)
    BY DEF Alien
  <2> QED BY <1>1, <1>2, <2>1
<1>5. \A p \in Alien("dmem_cross_module_transfers") : InMemory(p[1], 1)
  <2>1. \A p \in Alien("dmem_cross_module_transfers") :
           p[1] \in {Dmem(0, 0), Dmem(2, 0), Dmem(3, 0), Dlm1(0, 0), Dmem(6, 1),
                     Dmem(0, 3), Dmem(7, 3)}
    BY CrossAlien
  <2> QED BY <1>1, <1>2, <2>1
<1>6. \A x : x \notin {"c0_gather", "c0_distribute", "dmem_cross_module_transfers"} =>
                Alien(x) = {}
  BY DEF Alien
<1> QED BY <1>3, <1>4, <1>5, <1>6

\* A write that X is spared.
LEMMA SparedWrite ==
  ASSUME TypeOK, NEW X, \A p \in X : InMemory(p[1], 1) /\ At(p[1], 0) # p[2],
         NEW c \in Calls, Writes(c), Spared({c}, X),
         NEW new, DOMAIN new = 0 .. c.n - 1, mem' = Replaced(c.to, new),
         c.op = "move" => \A i \in 0 .. c.n - 1 : new[i] = At(c.from, i),
         c.op = "store" => \A i \in 0 .. c.n - 1 : new[i] = c.data
  PROVE  \A p \in X : At(p[1], 0)' # p[2]
<1> SUFFICES ASSUME NEW p \in X PROVE At(p[1], 0)' # p[2] OBVIOUS
<1>1. c.to \in Places /\ c.n \in Nat BY CallKinds
<1> DEFINE s == p[1]
           j == s.at - c.to.at
<1>2. InMemory(s, 1) /\ At(s, 0) # p[2] OBVIOUS
<1>3. s.at \in Nat /\ c.to.at \in Nat /\ j \in Int BY <1>1, <1>2 DEF InMemory, Places
<1>4. (s.at + 0) - c.to.at = j BY <1>3
<1>5. At(s, 0)' = IF s.of = c.to.of /\ j \in 0 .. c.n - 1 THEN new[j] ELSE At(s, 0)
  <2>1. 0 \in 0 .. 1 - 1 /\ 1 \in Nat OBVIOUS
  <2>2. At(s, 0)' = IF s.of = c.to.of /\ (s.at + 0) - c.to.at \in 0 .. c.n - 1
                    THEN new[(s.at + 0) - c.to.at] ELSE At(s, 0)
    BY <1>1, <1>2, <2>1, ReplacedAt
  <2> QED BY <1>4, <2>2
<1>6. CASE ~(s.of = c.to.of /\ j \in 0 .. c.n - 1) BY <1>2, <1>5, <1>6
<1>7. CASE s.of = c.to.of /\ j \in 0 .. c.n - 1 /\ c.op = "store"
  <2>1. c.data # p[2] BY <1>7 DEF Spared
  <2>2. new[j] = c.data BY <1>7
  <2> QED BY <1>5, <1>7, <2>1, <2>2
<1>8. CASE s.of = c.to.of /\ j \in 0 .. c.n - 1 /\ c.op = "move"
  <2> DEFINE f == [of |-> c.from.of, at |-> c.from.at + j]
  <2>1. s.at \in c.to.at .. c.to.at + c.n - 1 BY <1>1, <1>3, <1>8
  <2>2. Harmless(c.from, c.to, c.n, X) BY <1>8 DEF Spared
  <2>3. <<f, p[2]>> \in X BY <1>8, <2>1, <2>2 DEF Harmless
  <2>4. At(f, 0) # p[2]
    <3>1. <<f, p[2]>>[1] = f /\ <<f, p[2]>>[2] = p[2] OBVIOUS
    <3> QED BY <2>3, <3>1
  <2>5. At(f, 0) = At(c.from, j)
    <3>1. c.from \in Places BY <1>8, CallKinds DEF Moves
    <3>2. c.from.at + j + 0 = c.from.at + j BY <1>3, <3>1 DEF Places
    <3> HIDE DEF j
    <3> QED BY <3>2 DEF At
  <2>6. new[j] = At(c.from, j) BY <1>8
  <2> QED BY <1>5, <1>8, <2>4, <2>5, <2>6
<1> QED BY <1>6, <1>7, <1>8 DEF Writes

LEMMA BegunStays ==
  ASSUME TypeOK, InTime, GivenOnce, TilesInv, [Next]_vars, ~timedOut'
  PROVE  \A y \in Tests : Begun(y) => Begun(y)'
<1>1. ASSUME NEW w \in Workers, Calling(w) PROVE \A y \in Tests : Begun(y) => Begun(y)'
  BY <1>1, CallingTypes DEF Begun
<1>2. ASSUME NEW w \in Workers, Begin(w) PROVE \A y \in Tests : Begun(y) => Begun(y)'
  BY <1>2, FirstTaken
<1>3. ASSUME NEW w \in Workers, Return(w) PROVE \A y \in Tests : Begun(y) => Begun(y)'
  BY <1>3, ReturnStep
<1>4. QueueTransfers => \A y \in Tests : Begun(y) => Begun(y)'
  BY DEF QueueTransfers, Begun
<1>5. AwaitTransfers => \A y \in Tests : Begun(y) => Begun(y)' BY AwaitStep
<1>6. UNCHANGED vars => \A y \in Tests : Begun(y) => Begun(y)' BY DEF vars, Begun
<1> QED BY <1>1, <1>2, <1>3, <1>4, <1>5, <1>6, StepKinds

\* What C0 runs before its own two tests.
LEMMA OwnRun ==
  ASSUME TypeOK, OwnInv, phase \in {"c0", "fallback"}, test[C0] # NoTest
  PROVE  /\ test[C0] \notin Transfers
         /\ ~Begun("c0_gather") =>
               test[C0] \in {"cpu_local_move", "dma_local_transfer", "dma_remote_transfer"}
         /\ ~Begun("c0_distribute") =>
               test[C0] \in {"cpu_local_move", "dma_local_transfer", "dma_remote_transfer",
                             "c0_gather"}
<1>1. PICK n \in 0 .. Len(List) :
        n > 0 /\ test[C0] = List[n] /\ \A k \in 1 .. n : Begun(List[k])
  BY DEF OwnInv
<1>2. n \in 1 .. Len(List) BY <1>1, Lists
<1>3. CASE phase = "c0"
  <2>1. /\ List = c0_tests /\ Len(c0_tests) = 3
        /\ c0_tests[1] = "c0_gather" /\ c0_tests[2] = "c0_distribute"
        /\ c0_tests[3] = "parallel_c0_access"
    BY <1>3, Lists DEF c0_tests
  <2>2. n = 1 \/ n = 2 \/ n = 3 BY <1>2, <2>1
  <2>3. 1 \in 1 .. n /\ (n > 1 => 2 \in 1 .. n) BY <1>1, <1>2
  <2>4. Begun("c0_gather") /\ (n > 1 => Begun("c0_distribute")) BY <1>1, <2>1, <2>3
  <2>5. n = 1 => test[C0] = "c0_gather" BY <1>1, <2>1
  <2>6. test[C0] \notin Transfers BY <1>1, <2>1, <2>2 DEF Transfers
  <2> QED BY <2>2, <2>4, <2>5, <2>6
<1>4. CASE phase = "fallback"
  <2>1. /\ List = all_tests /\ Len(all_tests) = 8
        /\ all_tests[1] = "cpu_local_move" /\ all_tests[2] = "dma_local_transfer"
        /\ all_tests[3] = "dma_remote_transfer" /\ all_tests[4] = "c0_gather"
        /\ all_tests[5] = "c0_distribute" /\ all_tests[6] = "noc_bandwidth"
        /\ all_tests[7] = "noc_latency" /\ all_tests[8] = "random_dma_remote"
    BY <1>4, Lists DEF all_tests
  <2>2. n = 1 \/ n = 2 \/ n = 3 \/ n = 4 \/ n = 5 \/ n = 6 \/ n = 7 \/ n = 8
    BY <1>2, <2>1
  <2>3. (n > 3 => 4 \in 1 .. n) /\ (n > 4 => 5 \in 1 .. n) BY <1>2
  <2>4. (n > 3 => Begun("c0_gather")) /\ (n > 4 => Begun("c0_distribute"))
    BY <1>1, <2>1, <2>3
  <2>5. /\ n < 4 => test[C0] \in {"cpu_local_move", "dma_local_transfer",
                                  "dma_remote_transfer"}
        /\ n = 4 => test[C0] = "c0_gather"
    BY <1>1, <2>1, <2>2
  <2>6. test[C0] \notin Transfers BY <1>1, <2>1, <2>2 DEF Transfers
  <2> QED BY <2>2, <2>4, <2>5, <2>6
<1> QED BY <1>3, <1>4

\* The test a worker is in spares what one that has not begun relies on.
LEMMA RunSpares ==
  ASSUME TypeOK, AloneInv, OwnInv, TilesInv,
         NEW w \in Workers, test[w] # NoTest, NEW x \in Tests, ~Begun(x)
  PROVE  Sparing(Steps(w), Alien(x))
<1>1. test[w] \in Tests /\ test[w] # x
  <2>1. Begun(test[w]) BY DEF Begun
  <2> QED BY <2>1, TodoTypes
<1>2. w \in Tiles \/ (w = C0 /\ test[C0] \notin Transfers)
  <2>1. CASE w \in Tiles BY <2>1
  <2>2. CASE w = C0
    <3>1. CASE phase \in {"c0", "fallback"} BY <2>2, <3>1, OwnRun
    <3>2. CASE phase = "transfers" BY <2>2, <3>2 DEF TilesInv, Transfers
    <3>3. CASE phase = "hal" BY <2>2, <3>3 DEF AloneInv
    <3> QED BY <2>2, <3>1, <3>2, <3>3 DEF TypeOK
  <2> QED BY <2>1, <2>2 DEF Workers
<1>3. CASE x = "dmem_cross_module_transfers"
  <2>1. Sparing(Script(test[w], w), Alien(x)) BY <1>1, <1>2, <1>3, SpareCross
  <2> QED BY <2>1 DEF Steps
<1>4. CASE x \in {"c0_gather", "c0_distribute"}
  <2>1. phase \notin {"transfers", "hal"} BY <1>4 DEF TilesInv, Begun
  <2>2. phase \in {"c0", "fallback"} BY <2>1 DEF TypeOK
  <2>3. w = C0 BY <2>2 DEF AloneInv, Workers
  <2>4. CASE x = "c0_gather"
    <3>1. test[w] \in {"cpu_local_move", "dma_local_transfer", "dma_remote_transfer"}
      BY <2>2, <2>3, <2>4, OwnRun
    <3> QED BY <2>4, <3>1, SpareGather, ScriptOf DEF Steps
  <2>5. CASE x = "c0_distribute"
    <3>1. test[w] \in {"cpu_local_move", "dma_local_transfer", "dma_remote_transfer",
                       "c0_gather"}
      BY <2>2, <2>3, <2>5, OwnRun
    <3> QED BY <2>5, <3>1, SpareDistribute, ScriptOf DEF Steps
  <2> QED BY <1>4, <2>4, <2>5
<1>5. CASE x \notin {"dmem_cross_module_transfers", "c0_gather", "c0_distribute"}
  <2>1. Alien(x) = {} BY <1>5 DEF Alien
  <2> QED BY <2>1 DEF Sparing, Spared, Harmless
<1> QED BY <1>3, <1>4, <1>5

LEMMA AbsentStep ==
  ASSUME TypeOK, AloneInv, RestInv, InTime, GivenOnce, OwnInv, TilesInv, AbsentInv,
         [Next]_vars, ~timedOut'
  PROVE  AbsentInv'
<1> SUFFICES ASSUME fault' = NoFault, NEW x \in Tests, ~Begun(x)'
             PROVE  \A p \in Alien(x) : At(p[1], 0)' # p[2]
  BY DEF AbsentInv
<1>1. ~Begun(x) BY BegunStays
<1>2. ASSUME fault = NoFault PROVE \A p \in Alien(x) : At(p[1], 0) # p[2]
  BY <1>1, <1>2 DEF AbsentInv
<1>3. ASSUME UNCHANGED <<mem, fault>> PROVE \A p \in Alien(x) : At(p[1], 0)' # p[2]
  BY <1>2, <1>3 DEF At
<1>4. ASSUME NEW w \in Workers, Calling(w) PROVE \A p \in Alien(x) : At(p[1], 0)' # p[2]
  <2>1. CASE DoStore(w) \/ DoMove(w)
    <3>1. PICK c \in Open(w) : \E new :
             /\ Call(w, c) /\ Writes(c) /\ UNCHANGED <<ok, fault>>
             /\ DOMAIN new = 0 .. c.n - 1 /\ mem' = Replaced(c.to, new)
             /\ c.op = "move" => \A i \in 0 .. c.n - 1 : new[i] = At(c.from, i)
             /\ c.op = "store" => \A i \in 0 .. c.n - 1 : new[i] = c.data
      BY <2>1, WriteStep
    <3>2. PICK new :
             /\ Call(w, c) /\ Writes(c) /\ UNCHANGED <<ok, fault>>
             /\ DOMAIN new = 0 .. c.n - 1 /\ mem' = Replaced(c.to, new)
             /\ c.op = "move" => \A i \in 0 .. c.n - 1 : new[i] = At(c.from, i)
             /\ c.op = "store" => \A i \in 0 .. c.n - 1 : new[i] = c.data
      BY <3>1
    <3>3. /\ test[w] # NoTest /\ Steps(w) \in Seq(SUBSET Calls)
          /\ Pos(w) \in 1 .. Len(Steps(w)) /\ c \in Steps(w)[Pos(w)]
      BY <3>2, CallStep
    <3>4. c \in Calls BY <3>3
    <3>5. Sparing(Steps(w), Alien(x)) BY <1>1, <3>3, RunSpares
    <3>6. Spared({c}, Alien(x)) BY <3>3, <3>5 DEF Sparing, Spared
    <3>7. \A p \in Alien(x) : InMemory(p[1], 1) /\ At(p[1], 0) # p[2]
      BY <1>2, <3>2, AlienPlaces
    <3> QED BY <3>2, <3>4, <3>6, <3>7, SparedWrite
  <2>2. CASE DoCompare(w) \/ DoQuery(w) BY <1>3, <2>2 DEF DoCompare, DoQuery
  <2>3. CASE GoWrong(w)
    <3>1. fault' # NoFault
      <4>1. \E kind \in FaultKinds : Fail(w, kind)
        BY <2>3 DEF GoWrong, LoseMove, LoseStore, LoseRead, MissQuery, FaultKinds
      <4>2. fault'.kind # "none" BY <4>1 DEF Fail, FaultKinds
      <4> QED BY <4>2 DEF NoFault
    <3> QED BY <3>1
  <2> QED BY <1>4, <2>1, <2>2, <2>3 DEF Calling
<1>5. ASSUME NEW w \in Workers, Begin(w) PROVE UNCHANGED <<mem, fault>>
  BY <1>5, BeginStep
<1>6. ASSUME (\E w \in Workers : Return(w)) \/ QueueTransfers \/ AwaitTransfers
               \/ UNCHANGED vars
      PROVE  UNCHANGED <<mem, fault>>
  BY <1>6, BetweenStep
<1> QED BY <1>3, <1>4, <1>5, <1>6, StepKinds

LEMMA AbsentInit == Init => AbsentInv
<1> SUFFICES ASSUME Init, NEW x, NEW p \in Alien(x) PROVE At(p[1], 0) # p[2]
  BY DEF AbsentInv
<1>1. At(p[1], 0) = Zero
  <2>1. InMemory(p[1], 1) BY AlienPlaces
  <2>2. p[1].of \in Memories /\ p[1].at \in Nat /\ p[1].at + 1 <= Room(p[1].of)
    BY <2>1 DEF InMemory, Places
  <2>3. p[1].at + 0 \in Slices(p[1].of) BY <2>2, RoomOf
  <2>4. mem = [m \in Memories |-> [i \in Slices(m) |-> Zero]] BY DEF Init
  <2> QED BY <2>2, <2>3, <2>4 DEF At
<1>2. \E v : p[2] = Ramp(v) BY DEF Alien
<1> QED BY <1>1, <1>2, RampNames

-----------------------------------------------------------------------------
(***************************************************************************)
(* What a slice is going to hold.                                          *)
(***************************************************************************)

\* What a call that goes right does to the memories.
Effect(c) ==
    \/ ~Writes(c) /\ UNCHANGED mem
    \/ Writes(c) /\ \E new :
          /\ DOMAIN new = 0 .. c.n - 1 /\ mem' = Replaced(c.to, new)
          /\ c.op = "store" => \A i \in 0 .. c.n - 1 : new[i] = c.data

LEMMA GoodCall ==
  ASSUME TypeOK, NEW w \in Workers,
         DoStore(w) \/ DoMove(w) \/ DoCompare(w) \/ DoQuery(w)
  PROVE  \E c \in Open(w) :
           /\ Call(w, c) /\ Effect(c) /\ fault' = fault
           /\ c.op \in {"compare", "expect"} => Passes(w, Matches(c))
<1>1. CASE DoStore(w) \/ DoMove(w)
  <2>1. PICK c \in Open(w) : \E new :
           /\ Call(w, c) /\ Writes(c) /\ UNCHANGED <<ok, fault>>
           /\ DOMAIN new = 0 .. c.n - 1 /\ mem' = Replaced(c.to, new)
           /\ c.op = "store" => \A i \in 0 .. c.n - 1 : new[i] = c.data
    BY <1>1, WriteStep
  <2>2. Call(w, c) /\ Writes(c) /\ fault' = fault /\ Effect(c) BY <2>1 DEF Effect
  <2>3. c.op \notin {"compare", "expect"} BY <2>2 DEF Writes
  <2> QED BY <2>2, <2>3
<1>2. CASE DoCompare(w)
  BY <1>2 DEF DoCompare, Effect, Writes
<1>3. CASE DoQuery(w)
  BY <1>3 DEF DoQuery, Effect, Writes
<1> QED BY <1>1, <1>2, <1>3

\* A slice after a call that goes right: as it was, or what was stored.
LEMMA EffectAt ==
  ASSUME TypeOK, NEW c \in Calls, Effect(c), NEW s, InMemory(s, 1)
  PROVE  /\ ~Writes(c) \/ Clear(c, s, 1) => At(s, 0)' = At(s, 0)
         /\ c.op = "store" /\ s.of = c.to.of /\ s.at \in c.to.at .. c.to.at + c.n - 1 =>
               At(s, 0)' = c.data
<1>1. 0 \in 0 .. 1 - 1 /\ 1 \in Nat OBVIOUS
<1>2. CASE ~Writes(c)
  <2>1. UNCHANGED mem /\ c.op # "store" BY <1>2 DEF Effect, Writes
  <2> QED BY <2>1 DEF At
<1>3. CASE Writes(c)
  <2>1. c.to \in Places /\ c.n \in Nat BY <1>3, CallKinds
  <2>2. PICK new :
           /\ DOMAIN new = 0 .. c.n - 1 /\ mem' = Replaced(c.to, new)
           /\ c.op = "store" => \A i \in 0 .. c.n - 1 : new[i] = c.data
    BY <1>3 DEF Effect
  <2>3. Clear(c, s, 1) => At(s, 0)' = At(s, 0) BY <1>1, <2>1, <2>2, ClearAt
  <2>4. ASSUME c.op = "store", s.of = c.to.of, s.at \in c.to.at .. c.to.at + c.n - 1
        PROVE  At(s, 0)' = c.data
    <3>1. s.at \in Nat /\ c.to.at \in Nat BY <2>1 DEF InMemory, Places
    <3>2. (s.at + 0) - c.to.at \in 0 .. c.n - 1 BY <2>1, <2>4, <3>1
    <3>3. At(s, 0)' = new[(s.at + 0) - c.to.at] BY <1>1, <2>1, <2>2, <2>4, <3>2, ReplacedAt
    <3> QED BY <2>2, <2>4, <3>2, <3>3
  <2> QED BY <1>3, <2>3, <2>4
<1> QED BY <1>2, <1>3

\* Due, its two kinds apart.
Settled(w, q, d, s) ==
    \A i \in 1 .. q : \A f \in Steps(w)[i] :
        Left(w, i, f) /\ Writes(f) => (i = q /\ f = d) \/ Clear(f, s, 1)

ToCome(w, q, d, s, x) ==
    \E k \in 1 .. q - 1 : \E e \in Steps(w)[k] :
        Left(w, k, e) /\ Brings(Steps(w), k, e, q, d, s) /\ x = e.data

LEMMA DueParts ==
  ASSUME NEW w, NEW q, NEW d, NEW s, NEW x
  PROVE  /\ x \in Due(w, q, d, s) <=>
               (x = At(s, 0) /\ Settled(w, q, d, s)) \/ ToCome(w, q, d, s, x)
         /\ x \in Due(w, q, d, s)' <=>
               (x = At(s, 0)' /\ Settled(w, q, d, s)') \/ ToCome(w, q, d, s, x)'
BY DEF Due, Settled, ToCome

\* What a slice is due to hold it is still due to hold after a call before that.
LEMMA DueStays ==
  ASSUME TypeOK, RestInv, NEW w \in Workers, NEW c \in Open(w), Call(w, c), Effect(c),
         NEW q \in 1 .. Len(Steps(w)), NEW d \in Steps(w)[q], Left(w, q, d)',
         NEW s, InMemory(s, 1), NEW x \in Due(w, q, d, s)
  PROVE  x \in Due(w, q, d, s)'
<1> DEFINE S == Steps(w)
           p == Pos(w)
<1>1. /\ Steps(w)' = S /\ S \in Seq(SUBSET Calls)
      /\ p \in 1 .. Len(S) /\ c \in S[p] /\ Left(w, p, c)
      /\ \A i \in 1 .. Len(S) : \A e :
           Left(w, i, e)' <=> (Left(w, i, e) /\ ~(i = p /\ e = c))
      /\ \A i \in 1 .. Len(S) : \A e \in S[i] :
           (i > p => Left(w, i, e)) /\ (i < p => ~Left(w, i, e))
  BY CallStep
<1>2. q \in 1 .. Len(S) /\ d \in S[q] OBVIOUS
<1> HIDE DEF S, p
<1>3. c \in Calls BY <1>1
<1>4. Left(w, q, d) /\ ~(q = p /\ d = c) BY <1>1, <1>2
<1>5. Len(S) \in Nat /\ q \in 1 .. Len(S) /\ p \in 1 .. Len(S) /\ ~(q < p)
  BY <1>1, <1>2, <1>4
<1>6. p \in 1 .. q /\ \A i \in 1 .. q : i \in 1 .. Len(S) BY <1>5
<1>7. CASE x = At(s, 0) /\ Settled(w, q, d, s)
  <2>1. \A i \in 1 .. q : \A f \in S[i] :
           Left(w, i, f) /\ Writes(f) => (i = q /\ f = d) \/ Clear(f, s, 1)
    BY <1>7 DEF Settled, S
  <2>2. ~Writes(c) \/ Clear(c, s, 1) BY <1>1, <1>4, <1>6, <2>1
  <2>3. At(s, 0)' = At(s, 0) BY <1>3, <2>2, EffectAt
  <2>4. \A i \in 1 .. q : \A f \in S[i] :
           Left(w, i, f)' /\ Writes(f) => (i = q /\ f = d) \/ Clear(f, s, 1)
    BY <1>1, <1>6, <2>1
  <2>5. Settled(w, q, d, s)' BY <1>1, <2>4 DEF Settled
  <2> QED BY <1>7, <2>3, <2>5, DueParts
<1>8. CASE ToCome(w, q, d, s, x)
  <2>1. PICK k \in 1 .. q - 1 : \E e \in S[k] :
           Left(w, k, e) /\ Brings(S, k, e, q, d, s) /\ x = e.data
    BY <1>8 DEF ToCome, S
  <2>2. PICK e \in S[k] : Left(w, k, e) /\ Brings(S, k, e, q, d, s) /\ x = e.data BY <2>1
  <2>3. k \in 1 .. Len(S) /\ k \in 1 .. q BY <1>5
  <2>4. CASE k = p /\ e = c
    <3>1. /\ e.op = "store" /\ s.of = e.to.of /\ s.at \in e.to.at .. e.to.at + e.n - 1
          /\ \A i \in k .. q : \A f \in S[i] :
                Writes(f) => (i = k /\ f = e) \/ (i = q /\ f = d) \/ Clear(f, s, 1)
      BY <2>2 DEF Brings
    <3>2. At(s, 0)' = x BY <1>3, <2>2, <2>4, <3>1, EffectAt
    <3>3. ASSUME NEW i \in 1 .. q, NEW f \in S[i], Left(w, i, f)', Writes(f)
          PROVE  (i = q /\ f = d) \/ Clear(f, s, 1)
      <4>1. i \in 1 .. Len(S) BY <1>6
      <4>2. Left(w, i, f) /\ ~(i = p /\ f = c) BY <1>1, <3>3, <4>1
      <4>3. ~(i < p) BY <1>1, <4>1, <4>2
      <4>4. i \in k .. q BY <1>5, <2>4, <4>3
      <4> QED BY <2>4, <3>1, <3>3, <4>2, <4>4
    <3>4. Settled(w, q, d, s)' BY <1>1, <3>3 DEF Settled
    <3> QED BY <3>2, <3>4, DueParts
  <2>5. CASE ~(k = p /\ e = c)
    <3>1. Left(w, k, e)' BY <1>1, <2>2, <2>3, <2>5
    <3>2. ToCome(w, q, d, s, x)' BY <1>1, <2>2, <3>1 DEF ToCome
    <3> QED BY <3>2, DueParts
  <2> QED BY <2>4, <2>5
<1> QED BY <1>7, <1>8, DueParts

\* A worker without calls has none left.
LEMMA NoneLeft ==
  ASSUME TypeOK, RestInv, NEW v \in Workers, rest[v] = << >>, test[v] # NoTest
  PROVE  \A q \in 1 .. Len(Steps(v)) : \A c : ~Left(v, q, c)
<1>1. Steps(v) \in Seq(SUBSET Calls) BY RestTypes
<1>2. Pos(v) = Len(Steps(v)) - 0 + 1 BY DEF Pos
<1> QED BY <1>1, <1>2 DEF Left

\* TellingInv for one worker.
Tells(w) ==
    fault = NoFault /\ test[w] \notin NotComparing \cup {NoTest} =>
        \A q \in 1 .. Len(Steps(w)) : \A d \in Steps(w)[q] :
            d.op = "move" /\ Left(w, q, d) =>
                \E x \in Due(w, q, d, EndSlice(d.from, d.n)),
                   y \in Due(w, q, d, EndSlice(d.to, d.n)) : x # y

LEMMA TellsParts == TellingInv <=> \A w \in Workers : Tells(w)
BY DEF TellingInv, Tells

\* The two ends of a move of a test that compares.
LEMMA MoveEnds ==
  ASSUME TypeOK, NEW w \in Workers, test[w] \notin NotComparing \cup {NoTest},
         NEW q \in 1 .. Len(Steps(w)), NEW d \in Steps(w)[q], d.op = "move"
  PROVE  /\ InMemory(d.from, d.n) /\ InMemory(d.to, d.n)
         /\ Arrives(Steps(w), Alien(test[w]), q, d)
<1>1. test[w] \in Tests /\ test[w] \notin NotComparing BY TodoTypes
<1>2. Bringing(Script(test[w], w), Alien(test[w])) BY <1>1, BringingOf
<1> QED BY <1>2 DEF Bringing, Steps

\* Neither the memories nor the test have changed, or the test is over.
LEMMA SameTold ==
  ASSUME NEW v \in Workers, Tells(v), UNCHANGED <<mem, fault>>, rest'[v] = rest[v],
         test'[v] = test[v] \/ test'[v] = NoTest
  PROVE  Tells(v)'
<1>1. CASE test'[v] = NoTest BY <1>1 DEF Tells
<1>2. CASE test'[v] = test[v]
  <2>1. Steps(v)' = Steps(v) /\ Pos(v)' = Pos(v) /\ \A s : At(s, 0)' = At(s, 0)
    BY <1>2 DEF Steps, Pos, At
  <2>2. \A q, c : Left(v, q, c)' = Left(v, q, c) BY <2>1 DEF Left
  <2>3. \A q, d, s : Due(v, q, d, s)' = Due(v, q, d, s) BY <2>1, <2>2 DEF Due
  <2> QED BY <1>2, <2>1, <2>2, <2>3 DEF Tells
<1> QED BY <1>1, <1>2

LEMMA IdleTold ==
  ASSUME TypeOK, RestInv, NEW v \in Workers, rest[v] = << >>, rest'[v] = << >>,
         test'[v] = test[v]
  PROVE  Tells(v)'
<1>1. Steps(v)' = Steps(v) /\ \A q, c : Left(v, q, c)' = Left(v, q, c)
  BY DEF Steps, Left, Pos
<1>2. test[v] # NoTest => \A q \in 1 .. Len(Steps(v)) : \A c : ~Left(v, q, c) BY NoneLeft
<1> QED BY <1>1, <1>2 DEF Tells

\* A call of w's test that goes right.
LEMMA CallTold ==
  ASSUME TypeOK, RestInv, NEW w \in Workers, Tells(w),
         NEW c \in Open(w), Call(w, c), Effect(c), fault' = fault
  PROVE  Tells(w)'
<1>1. /\ Steps(w)' = Steps(w)
      /\ \A q \in 1 .. Len(Steps(w)) : \A e : Left(w, q, e)' => Left(w, q, e)
  BY CallStep
<1>2. test' = test BY DEF Call
<1> SUFFICES ASSUME fault = NoFault, test[w] \notin NotComparing \cup {NoTest},
                    NEW q \in 1 .. Len(Steps(w)), NEW d \in Steps(w)[q],
                    d.op = "move", Left(w, q, d)'
             PROVE  \E x \in Due(w, q, d, EndSlice(d.from, d.n))',
                       y \in Due(w, q, d, EndSlice(d.to, d.n))' : x # y
  BY <1>1, <1>2 DEF Tells
<1>3. Left(w, q, d) BY <1>1
<1>4. PICK x \in Due(w, q, d, EndSlice(d.from, d.n)),
           y \in Due(w, q, d, EndSlice(d.to, d.n)) : x # y
  BY <1>3 DEF Tells
<1>5. InMemory(d.from, d.n) /\ InMemory(d.to, d.n) BY MoveEnds
<1>6. InMemory(EndSlice(d.from, d.n), 1) /\ InMemory(EndSlice(d.to, d.n), 1)
  BY <1>5, EndPlaces
<1>7. x \in Due(w, q, d, EndSlice(d.from, d.n))' BY <1>4, <1>6, DueStays
<1>8. y \in Due(w, q, d, EndSlice(d.to, d.n))' BY <1>4, <1>6, DueStays
<1> QED BY <1>4, <1>7, <1>8

\* A test that begins.
LEMMA BeginTold ==
  ASSUME TypeOK, GivenOnce, AbsentInv, NEW w \in Workers, Begin(w)
  PROVE  Tells(w)'
<1> DEFINE S == Steps(w)'
           y == test'[w]
           X == Alien(y)
<1>1. /\ y \in Tests /\ S \in Seq(SUBSET Calls)
      /\ \A q \in 1 .. Len(S) : \A e \in S[q] : Left(w, q, e)'
      /\ UNCHANGED <<mem, fault>>
  BY BeginStep
<1>2. ~Begun(y)
  <2>1. 1 \in 1 .. Len(todo[w]) /\ y = todo[w][1] BY FirstTaken
  <2> QED BY <2>1 DEF GivenOnce
<1>3. S = Script(y, w) BY DEF Steps
<1> SUFFICES ASSUME fault = NoFault, y \notin NotComparing \cup {NoTest},
                    NEW q \in 1 .. Len(S), NEW d \in S[q], d.op = "move"
             PROVE  \E x \in Due(w, q, d, EndSlice(d.from, d.n))',
                       z \in Due(w, q, d, EndSlice(d.to, d.n))' : x # z
  BY <1>1 DEF Tells
<1>4. \A p \in X : At(p[1], 0)' # p[2]
  <2>1. \A p \in X : At(p[1], 0) # p[2] BY <1>1, <1>2 DEF AbsentInv
  <2>2. \A s : At(s, 0)' = At(s, 0) BY <1>1 DEF At
  <2> QED BY <2>1, <2>2
<1>5. Arrives(S, X, q, d)
  <2>1. Bringing(Script(y, w), X) BY <1>1, BringingOf
  <2> QED BY <1>3, <2>1 DEF Bringing
<1> HIDE DEF S, X, y
<1>6. Len(S) \in Nat /\ \A k \in 1 .. q - 1 : k \in 1 .. Len(S) BY <1>1
<1>7. ASSUME NEW s, NEW k \in 1 .. q - 1, NEW e \in S[k], Brings(S, k, e, q, d, s)
      PROVE  e.data \in Due(w, q, d, s)'
  <2>1. Left(w, k, e)' BY <1>1, <1>6
  <2>2. ToCome(w, q, d, s, e.data)' BY <1>7, <2>1 DEF ToCome, S
  <2> QED BY <2>2, DueParts
<1>8. PICK k \in 1 .. q - 1 : \E e \in S[k] :
        /\ Brings(S, k, e, q, d, EndSlice(d.from, d.n))
        /\ \/ \E l \in 1 .. q - 1 : \E f \in S[l] :
                 Brings(S, l, f, q, d, EndSlice(d.to, d.n)) /\ f.data # e.data
           \/ /\ <<EndSlice(d.to, d.n), e.data>> \in X
              /\ \A i \in 1 .. q : \A f \in S[i] :
                    Writes(f) => (i = q /\ f = d) \/ Clear(f, EndSlice(d.to, d.n), 1)
  BY <1>5 DEF Arrives
<1>9. PICK e \in S[k] :
        /\ Brings(S, k, e, q, d, EndSlice(d.from, d.n))
        /\ \/ \E l \in 1 .. q - 1 : \E f \in S[l] :
                 Brings(S, l, f, q, d, EndSlice(d.to, d.n)) /\ f.data # e.data
           \/ /\ <<EndSlice(d.to, d.n), e.data>> \in X
              /\ \A i \in 1 .. q : \A f \in S[i] :
                    Writes(f) => (i = q /\ f = d) \/ Clear(f, EndSlice(d.to, d.n), 1)
  BY <1>8
<1>10. e.data \in Due(w, q, d, EndSlice(d.from, d.n))' BY <1>7, <1>9
<1>11. CASE \E l \in 1 .. q - 1 : \E f \in S[l] :
              Brings(S, l, f, q, d, EndSlice(d.to, d.n)) /\ f.data # e.data
  BY <1>7, <1>10, <1>11
<1>12. CASE /\ <<EndSlice(d.to, d.n), e.data>> \in X
            /\ \A i \in 1 .. q : \A f \in S[i] :
                  Writes(f) => (i = q /\ f = d) \/ Clear(f, EndSlice(d.to, d.n), 1)
  <2> DEFINE s == EndSlice(d.to, d.n)
  <2>1. Settled(w, q, d, s)' BY <1>12 DEF Settled, S
  <2>2. At(s, 0)' \in Due(w, q, d, s)' BY <2>1, DueParts
  <2>3. At(s, 0)' # e.data
    <3>1. <<s, e.data>> \in X /\ <<s, e.data>>[1] = s /\ <<s, e.data>>[2] = e.data
      BY <1>12
    <3> HIDE DEF s
    <3> QED BY <1>4, <3>1
  <2> QED BY <1>10, <2>2, <2>3
<1> QED BY <1>9, <1>11, <1>12

LEMMA TellingStep ==
  ASSUME TypeOK, AloneInv, RestInv, GivenOnce, AbsentInv, TellingInv, [Next]_vars
  PROVE  TellingInv'
<1>1. \A w \in Workers : Tells(w) BY TellsParts
<1>2. ASSUME NEW w \in Workers, Calling(w) PROVE \A v \in Workers : Tells(v)'
  <2>1. rest[w] # << >> /\ test' = test /\ \A v \in Workers \ {w} : rest'[v] = rest[v]
    BY <1>2, CallingTypes
  <2>2. ASSUME NEW v \in Workers \ {w} PROVE Tells(v)'
    <3>1. rest[v] = << >> BY <2>1, OthersIdle
    <3> QED BY <2>1, <3>1, IdleTold
  <2>3. Tells(w)'
    <3>1. CASE DoStore(w) \/ DoMove(w) \/ DoCompare(w) \/ DoQuery(w)
      <4>1. PICK c \in Open(w) : Call(w, c) /\ Effect(c) /\ fault' = fault
        BY <3>1, GoodCall
      <4> QED BY <1>1, <4>1, CallTold
    <3>2. CASE GoWrong(w)
      <4>1. \E kind \in FaultKinds : Fail(w, kind)
        BY <3>2 DEF GoWrong, LoseMove, LoseStore, LoseRead, MissQuery, FaultKinds
      <4>2. fault' # NoFault BY <4>1 DEF Fail, FaultKinds, NoFault
      <4> QED BY <4>2 DEF Tells, NoFault
    <3> QED BY <1>2, <3>1, <3>2 DEF Calling
  <2> QED BY <2>2, <2>3
<1>3. ASSUME NEW w \in Workers, Begin(w) PROVE \A v \in Workers : Tells(v)'
  <2>1. /\ UNCHANGED <<mem, fault>>
        /\ \A v \in Workers \ {w} : test'[v] = test[v] /\ rest'[v] = rest[v]
    BY <1>3, BeginStep
  <2>2. ASSUME NEW v \in Workers \ {w} PROVE Tells(v)' BY <1>1, <2>1, SameTold
  <2>3. Tells(w)' BY <1>3, BeginTold
  <2> QED BY <2>2, <2>3
<1>4. ASSUME (\E w \in Workers : Return(w)) \/ QueueTransfers \/ AwaitTransfers
               \/ UNCHANGED vars
      PROVE  \A v \in Workers : Tells(v)'
  <2>1. UNCHANGED <<mem, rest, fault>>
        /\ \A v \in Workers : test'[v] = test[v] \/ test'[v] = NoTest
    BY <1>4, BetweenStep
  <2> QED BY <1>1, <2>1, SameTold
<1>5. \A v \in Workers : Tells(v)' BY <1>2, <1>3, <1>4, StepKinds
<1> QED BY <1>5 DEF TellingInv, Tells

-----------------------------------------------------------------------------
(***************************************************************************)
(* A fault is noticed.                                                     *)
(***************************************************************************)

\* The tests that do not compare, except two, look at the result of each move.
LEMMA CheckedTests ==
  ASSUME NEW w, NEW y \in NotComparing, y \notin Indifferent,
         NEW q \in 1 .. Len(Script(y, w)), NEW c \in Script(y, w)[q], c.op = "move"
  PROVE  c.checked
<1>1. \A from, to, n : \A e \in CheckedMove(from, to, n) : e.checked BY DEF CheckedMove
<1>2. \A to, n, x : \A e \in Store(to, n, x) : e.op # "move" BY DEF Store
<1>3. \A i \in 1 .. 2 : i = 1 \/ i = 2 OBVIOUS
<1>4. ASSUME NEW s, NEW t, \A e \in s \cup t : e.op = "move" => e.checked,
             NEW i \in 1 .. Len(<<s, t>>), NEW e \in <<s, t>>[i], e.op = "move"
      PROVE  e.checked
  BY <1>3, <1>4
<1>5. ASSUME NEW s, \A e \in s : e.op = "move" => e.checked,
             NEW i \in 1 .. Len(<<s>>), NEW e \in <<s>>[i], e.op = "move"
      PROVE  e.checked
  BY <1>5
<1>6. y \in Transfers \cup {"dmem_address_validation", "dmem_boundary_conditions",
                            "dmem_performance_basic"}
  BY DEF NotComparing, Indifferent
<1>7. CASE y \in Transfers
  <2>1. Script(y, w) = tile_to_c0_transfer_task(w) BY <1>7, ScriptOf
  <2> QED BY <1>1, <1>2, <1>4, <2>1 DEF tile_to_c0_transfer_task
<1>8. CASE y = "dmem_address_validation"
  <2> DEFINE S == dmem_address_validation
  <2>1. Script(y, w) = S BY <1>8, ScriptOf
  <2>2. /\ Len(S) = 5
        /\ S[1] = CheckedMove(Dmem(0, 0), Dmem(1, 0), 4)
        /\ S[2] = CheckedMove(Dmem(0, 0), Dmem(7, 0), 4)
        /\ S[3] = Query("dmem0_status") /\ S[4] = Query("dmem1_status")
        /\ S[5] = Query("dmem7_status")
    BY DEF dmem_address_validation
  <2> HIDE DEF S
  <2>3. \A i \in 1 .. 5 : i = 1 \/ i = 2 \/ i = 3 \/ i = 4 \/ i = 5 OBVIOUS
  <2>4. \A what : \A e \in Query(what) : e.op # "move" BY DEF Query
  <2> QED BY <1>1, <2>1, <2>2, <2>3, <2>4
<1>9. CASE y = "dmem_boundary_conditions"
  <2>1. Script(y, w) = dmem_boundary_conditions BY <1>9, ScriptOf
  <2> QED BY <1>1, <1>4, <2>1 DEF dmem_boundary_conditions
<1>10. CASE y = "dmem_performance_basic"
  <2>1. Script(y, w) = dmem_performance_basic BY <1>10, ScriptOf
  <2> QED BY <1>1, <1>5, <2>1 DEF dmem_performance_basic
<1> QED BY <1>6, <1>7, <1>8, <1>9, <1>10

\* What C0 does itself in test_parallel_c0_access.
LEMMA ParallelTest ==
  ASSUME NEW w, NEW q \in 1 .. Len(Script("parallel_c0_access", w)),
         NEW c \in Script("parallel_c0_access", w)[q]
  PROVE  c.op = "store"
<1>1. Script("parallel_c0_access", w) = <<Store(Dmem(0, PARALLEL), 4, Zero)>>
  BY ScriptOf DEF parallel_c0_access
<1>2. \A to, n, x : \A e \in Store(to, n, x) : e.op = "store" BY DEF Store
<1>3. c \in Store(Dmem(0, PARALLEL), 4, Zero) BY <1>1
<1> QED BY <1>2, <1>3

\* Comparison c of step q of w's test is going to find a difference.
Dooms(w, q, c) ==
    /\ Left(w, q, c) /\ c.op \in {"compare", "expect"}
    /\ At(EndSlice(c.a, c.n), 0)
          # IF c.op = "expect" THEN c.data ELSE At(EndSlice(c.b, c.n), 0)
    /\ \A i \in 1 .. q : \A f \in Steps(w)[i] : Left(w, i, f) /\ Writes(f) =>
          /\ Clear(f, EndSlice(c.a, c.n), 1)
          /\ c.op = "compare" => Clear(f, EndSlice(c.b, c.n), 1)

LEMMA DoomedParts ==
  ASSUME NEW w
  PROVE  /\ Doomed(w) <=> \E q \in 1 .. Len(Steps(w)) : \E c \in Steps(w)[q] : Dooms(w, q, c)
         /\ Doomed(w)' <=>
               \E q \in 1 .. Len(Steps(w)') : \E c \in Steps(w)'[q] : Dooms(w, q, c)'
BY DEF Doomed, Dooms

\* What is compared is in the memories.
LEMMA ComparedSlices ==
  ASSUME TypeOK, NEW w \in Workers, test[w] \in Tests,
         NEW q \in 1 .. Len(Steps(w)), NEW c \in Steps(w)[q], c.op \in {"compare", "expect"}
  PROVE  InMemory(c.a, c.n) /\ (c.op = "compare" => InMemory(c.b, c.n))
<1>1. CASE c.op = "compare" BY <1>1, ComparesSound
<1>2. CASE c.op = "expect"
  <2>1. test[w] = "dmem_data_integrity" BY <1>2, ComparesSound
  <2>2. Steps(w) = dmem_data_integrity BY <2>1, ScriptOf DEF Steps
  <2>3. q = 1 \/ q = 2 \/ q = 3 \/ q = 4 BY <2>2, IntegrityTest
  <2>4. c.a = Dmem(1, 0) /\ c.n = 4 BY <1>2, <2>2, <2>3, IntegrityTest
  <2>5. 1 \in 0 .. 7 /\ 4 \in 1 .. 17 OBVIOUS
  <2> QED BY <1>2, <2>4, <2>5, FirstSlices
<1> QED BY <1>1, <1>2

\* The comparison is made, or it is still going to find the difference.
LEMMA DoomedCall ==
  ASSUME TypeOK, RestInv, NEW w \in Workers,
         NEW e \in Open(w), Call(w, e), Effect(e),
         e.op \in {"compare", "expect"} => Passes(w, Matches(e)), Doomed(w)
  PROVE  ~ok'[w] \/ Doomed(w)'
<1> DEFINE S == Steps(w)
           p == Pos(w)
<1>1. /\ test[w] # NoTest /\ Steps(w)' = S /\ S \in Seq(SUBSET Calls)
      /\ p \in 1 .. Len(S) /\ e \in S[p] /\ Left(w, p, e)
      /\ \A i \in 1 .. Len(S) : \A f :
           Left(w, i, f)' <=> (Left(w, i, f) /\ ~(i = p /\ f = e))
      /\ \A i \in 1 .. Len(S) : \A f \in S[i] :
           (i > p => Left(w, i, f)) /\ (i < p => ~Left(w, i, f))
  BY CallStep
<1>2. e \in Calls /\ test[w] \in Tests BY <1>1, TodoTypes
<1>3. PICK q \in 1 .. Len(S) : \E c \in S[q] : Dooms(w, q, c) BY DoomedParts
<1>4. PICK c \in S[q] : Dooms(w, q, c) BY <1>3
<1>5. /\ Left(w, q, c) /\ c.op \in {"compare", "expect"}
      /\ At(EndSlice(c.a, c.n), 0)
            # IF c.op = "expect" THEN c.data ELSE At(EndSlice(c.b, c.n), 0)
      /\ \A i \in 1 .. q : \A f \in S[i] : Left(w, i, f) /\ Writes(f) =>
            /\ Clear(f, EndSlice(c.a, c.n), 1)
            /\ c.op = "compare" => Clear(f, EndSlice(c.b, c.n), 1)
  BY <1>4 DEF Dooms
<1>6. InMemory(c.a, c.n) /\ (c.op = "compare" => InMemory(c.b, c.n))
  BY <1>2, <1>4, <1>5, ComparedSlices
<1>7. /\ At(EndSlice(c.a, c.n), 0) = At(c.a, c.n - 1) /\ c.n - 1 \in 0 .. c.n - 1
      /\ InMemory(EndSlice(c.a, c.n), 1)
      /\ c.op = "compare" => /\ At(EndSlice(c.b, c.n), 0) = At(c.b, c.n - 1)
                             /\ InMemory(EndSlice(c.b, c.n), 1)
  BY <1>6, EndPlaces
<1> HIDE DEF S, p
<1>8. CASE q = p /\ c = e
  <2>1. ~Matches(e) BY <1>5, <1>7, <1>8 DEF Matches
  <2>2. Passes(w, Matches(e)) BY <1>5, <1>8
  <2>3. ok \in [Workers -> BOOLEAN] BY DEF TypeOK
  <2>4. ~ok'[w] BY <2>1, <2>2, <2>3 DEF Passes
  <2> QED BY <2>4
<1>9. CASE ~(q = p /\ c = e)
  <2>1. Left(w, q, c)' BY <1>1, <1>3, <1>5, <1>9
  <2>2. p \in 1 .. q
    <3>1. ~(q < p) BY <1>1, <1>3, <1>4, <1>5
    <3>2. Len(S) \in Nat BY <1>1
    <3> QED BY <1>1, <3>1, <3>2
  <2>3. \A i \in 1 .. q : i \in 1 .. Len(S)
    <3>1. Len(S) \in Nat BY <1>1
    <3> QED BY <3>1
  <2>4. Writes(e) => /\ Clear(e, EndSlice(c.a, c.n), 1)
                     /\ c.op = "compare" => Clear(e, EndSlice(c.b, c.n), 1)
    BY <1>1, <1>5, <2>2
  <2>5. At(EndSlice(c.a, c.n), 0)' = At(EndSlice(c.a, c.n), 0)
    BY <1>2, <1>7, <2>4, EffectAt
  <2>6. c.op = "compare" => At(EndSlice(c.b, c.n), 0)' = At(EndSlice(c.b, c.n), 0)
    BY <1>2, <1>7, <2>4, EffectAt
  <2>7. \A i \in 1 .. q : \A f \in S[i] : Left(w, i, f)' /\ Writes(f) =>
            /\ Clear(f, EndSlice(c.a, c.n), 1)
            /\ c.op = "compare" => Clear(f, EndSlice(c.b, c.n), 1)
    BY <1>1, <1>5, <2>3
  <2>8. Dooms(w, q, c)' BY <1>1, <1>5, <2>1, <2>5, <2>6, <2>7 DEF Dooms
  <2>9. Doomed(w)' BY <1>1, <1>3, <1>4, <2>8, DoomedParts
  <2> QED BY <2>9
<1> QED BY <1>8, <1>9

\* A move of a test that compares does not overlap its source, and what it
\* moved is compared.
LEMMA MoveCompared ==
  ASSUME TypeOK, NEW w \in Workers, test[w] \notin NotComparing \cup {NoTest},
         NEW q \in 1 .. Len(Steps(w)), NEW d \in Steps(w)[q], d.op = "move"
  PROVE  /\ Clear(d, d.from, d.n)
         /\ test[w] # "dmem_data_integrity" => Compared(Steps(w), q, d)
         /\ test[w] = "dmem_data_integrity" =>
               /\ Steps(w) = dmem_data_integrity /\ q = 3 /\ Steps(w)[3] = {d}
               /\ d.from = Dmem(0, 0) /\ d.to = Dmem(1, 0) /\ d.n = 4
<1>1. test[w] \in Tests /\ test[w] \notin NotComparing BY TodoTypes
<1>2. CASE test[w] # "dmem_data_integrity"
  <2>1. Telling(Script(test[w], w), Alien(test[w])) BY <1>1, <1>2, TellingOf
  <2>2. Compared(Steps(w), q, d) BY <2>1 DEF Telling, Told, Steps
  <2>3. Clear(d, d.from, d.n) BY <2>2 DEF Compared, Settles
  <2> QED BY <1>2, <2>2, <2>3
<1>3. CASE test[w] = "dmem_data_integrity"
  <2>1. Steps(w) = dmem_data_integrity BY <1>3, ScriptOf DEF Steps
  <2>2. q = 1 \/ q = 2 \/ q = 3 \/ q = 4 BY <2>1, IntegrityTest
  <2>3. /\ q = 3 /\ Steps(w)[3] = {d}
        /\ d.from = Dmem(0, 0) /\ d.to = Dmem(1, 0) /\ d.n = 4
    BY <2>1, <2>2, IntegrityTest
  <2>4. Clear(d, d.from, d.n) BY <2>3, SliceNames DEF Clear
  <2> QED BY <1>3, <2>1, <2>3, <2>4
<1> QED BY <1>2, <1>3

\* When a move is made, what it brings to the end is not there.
LEMMA EndsDiffer ==
  ASSUME TypeOK, RestInv, TellingInv, fault = NoFault, NEW w \in Workers,
         test[w] \notin NotComparing, NEW c \in Open(w), Call(w, c), c.op = "move"
  PROVE  At(EndSlice(c.from, c.n), 0) # At(EndSlice(c.to, c.n), 0)
<1> DEFINE S == Steps(w)
           p == Pos(w)
<1>1. /\ test[w] # NoTest /\ S \in Seq(SUBSET Calls)
      /\ p \in 1 .. Len(S) /\ c \in S[p] /\ Left(w, p, c)
      /\ \A i \in 1 .. Len(S) : \A f \in S[i] : i < p => ~Left(w, i, f)
  BY CallStep
<1> HIDE DEF S, p
<1>2. PICK x \in Due(w, p, c, EndSlice(c.from, c.n)),
           y \in Due(w, p, c, EndSlice(c.to, c.n)) : x # y
  BY <1>1 DEF TellingInv, S
<1>3. ASSUME NEW s, NEW v, ToCome(w, p, c, s, v) PROVE FALSE
  <2>1. PICK k \in 1 .. p - 1 : \E e \in S[k] : Left(w, k, e) BY <1>3 DEF ToCome, S
  <2>2. k \in 1 .. Len(S) /\ k < p BY <1>1
  <2> QED BY <1>1, <2>1, <2>2
<1>4. x = At(EndSlice(c.from, c.n), 0) BY <1>2, <1>3, DueParts
<1>5. y = At(EndSlice(c.to, c.n), 0) BY <1>2, <1>3, DueParts
<1> QED BY <1>2, <1>4, <1>5

\* A move that has left the two ends alone, different as they were.
LEMMA LostDooms ==
  ASSUME TypeOK, RestInv, IntegrityInv, TellingInv, fault = NoFault, NEW w \in Workers,
         test[w] \notin NotComparing, NEW d \in Open(w), Call(w, d), d.op = "move",
         At(EndSlice(d.from, d.n), 0)' = At(EndSlice(d.from, d.n), 0),
         At(EndSlice(d.to, d.n), 0)' = At(EndSlice(d.to, d.n), 0)
  PROVE  Doomed(w)'
<1> DEFINE S == Steps(w)
           p == Pos(w)
<1>1. /\ test[w] # NoTest /\ Steps(w)' = S /\ S \in Seq(SUBSET Calls)
      /\ p \in 1 .. Len(S) /\ d \in S[p]
      /\ \A i \in 1 .. Len(S) : \A f :
           Left(w, i, f)' <=> (Left(w, i, f) /\ ~(i = p /\ f = d))
      /\ \A i \in 1 .. Len(S) : \A f \in S[i] :
           (i > p => Left(w, i, f)) /\ (i < p => ~Left(w, i, f))
  BY CallStep
<1>2. At(EndSlice(d.from, d.n), 0)' # At(EndSlice(d.to, d.n), 0)' BY EndsDiffer
<1>3. InMemory(d.from, d.n) /\ InMemory(d.to, d.n) BY <1>1, MoveEnds
<1>4. /\ test[w] # "dmem_data_integrity" => Compared(S, p, d)
      /\ test[w] = "dmem_data_integrity" =>
            /\ S = dmem_data_integrity /\ p = 3 /\ S[3] = {d}
            /\ d.from = Dmem(0, 0) /\ d.to = Dmem(1, 0) /\ d.n = 4
  BY <1>1, MoveCompared
<1>5. /\ test[w] = "dmem_data_integrity" /\ p = 3 =>
            \A i \in 0 .. 3 : At(Dmem(0, 0), i) = Ramp(0)
  BY <1>1 DEF IntegrityInv, Sane, NoFault, p
<1> HIDE DEF S, p
<1>6. Len(S) \in Nat BY <1>1
<1>7. CASE test[w] # "dmem_data_integrity"
  <2>1. PICK q \in p + 1 .. Len(S) : \E c \in S[q] : Settles(S, p, d, q, c)
    BY <1>4, <1>7 DEF Compared
  <2>2. PICK c \in S[q] : Settles(S, p, d, q, c) BY <2>1
  <2>3. /\ c.op = "compare" /\ c.a = d.from /\ c.b = d.to /\ c.n = d.n
        /\ \A i \in p .. q : \A e \in S[i] :
              Writes(e) => (i = p /\ e = d) \/ (Clear(e, c.a, c.n) /\ Clear(e, c.b, c.n))
    BY <2>2 DEF Settles
  <2>4. q \in 1 .. Len(S) /\ q > p BY <1>1, <1>6
  <2>5. Left(w, q, c)' BY <1>1, <2>4
  <2>6. ASSUME NEW i \in 1 .. q, NEW f \in S[i], Left(w, i, f)', Writes(f)
        PROVE  /\ Clear(f, EndSlice(c.a, c.n), 1)
               /\ c.op = "compare" => Clear(f, EndSlice(c.b, c.n), 1)
    <3>1. i \in 1 .. Len(S) BY <1>6, <2>4
    <3>2. ~(i < p) /\ ~(i = p /\ f = d) BY <1>1, <2>6, <3>1
    <3>3. i \in p .. q BY <1>1, <3>1, <3>2
    <3>4. Clear(f, c.a, c.n) /\ Clear(f, c.b, c.n) BY <2>3, <2>6, <3>2, <3>3
    <3>5. f \in Calls BY <1>1, <3>1
    <3>6. f.to \in Places /\ f.n \in Nat BY <2>6, <3>5, CallKinds
    <3> QED BY <1>3, <2>3, <3>4, <3>6, ClearEnd
  <2>7. Dooms(w, q, c)' BY <1>1, <1>2, <2>3, <2>5, <2>6 DEF Dooms
  <2> QED BY <1>1, <2>4, <2>7, DoomedParts
<1>8. CASE test[w] = "dmem_data_integrity"
  <2>1. PICK z : S[4] = {z} /\ z.op = "expect" /\ z.a = Dmem(1, 0) /\ z.n = 4 /\ z.data = Ramp(0)
    BY <1>4, <1>8, IntegrityTest
  <2>2. p = 3 /\ Len(S) = 4 /\ S[3] = {d} BY <1>4, <1>8, IntegrityTest
  <2>3. Left(w, 4, z)' BY <1>1, <2>1, <2>2
  <2>4. At(EndSlice(d.from, d.n), 0) = Ramp(0)
    <3>1. At(EndSlice(d.from, d.n), 0) = At(d.from, d.n - 1) BY <1>3, EndPlaces
    <3>2. d.from = Dmem(0, 0) /\ d.n - 1 = 3 /\ 3 \in 0 .. 3 BY <1>4, <1>8
    <3> QED BY <1>5, <1>8, <2>2, <3>1, <3>2
  <2>5. At(EndSlice(z.a, z.n), 0)' # z.data
    BY <1>2, <1>4, <1>8, <2>1, <2>4
  <2>6. ASSUME NEW i \in 1 .. 4, NEW f \in S[i], Left(w, i, f)', Writes(f) PROVE FALSE
    <3>1. ~(i < 3) /\ ~(i = 3 /\ f = d) BY <1>1, <2>2, <2>6
    <3>2. i = 4 BY <2>2, <2>6, <3>1
    <3> QED BY <2>1, <2>6, <3>2 DEF Writes
  <2>7. Dooms(w, 4, z)' BY <1>1, <2>1, <2>3, <2>5, <2>6 DEF Dooms
  <2>8. z \in S[4] /\ 4 \in 1 .. Len(S) BY <2>1, <2>2
  <2>9. \E q \in 1 .. Len(Steps(w)') : \E f \in Steps(w)'[q] : Dooms(w, q, f)'
    BY <1>1, <2>7, <2>8
  <2> QED BY <2>9, DoomedParts
<1> QED BY <1>7, <1>8

\* All but the last slice moved.
LEMMA TruncatedEnds ==
  ASSUME TypeOK, NEW c, c.n > 1, InMemory(c.from, c.n), InMemory(c.to, c.n),
         Clear(c, c.from, c.n), mem' = Copied(c, c.n - 1)
  PROVE  /\ At(EndSlice(c.from, c.n), 0)' = At(EndSlice(c.from, c.n), 0)
         /\ At(EndSlice(c.to, c.n), 0)' = At(EndSlice(c.to, c.n), 0)
<1> DEFINE n == c.n - 1
           new == [i \in 0 .. n - 1 |-> At(c.from, i)]
<1>1. /\ c.to \in Places /\ c.to.at \in Nat /\ c.from.at \in Nat /\ c.n \in Nat
      /\ InMemory(EndSlice(c.from, c.n), 1) /\ InMemory(EndSlice(c.to, c.n), 1)
      /\ EndSlice(c.from, c.n).of = c.from.of /\ EndSlice(c.from, c.n).at = c.from.at + c.n - 1
      /\ EndSlice(c.to, c.n).of = c.to.of /\ EndSlice(c.to, c.n).at = c.to.at + c.n - 1
  BY EndPlaces DEF InMemory
<1>2. n \in Nat /\ DOMAIN new = 0 .. n - 1 /\ mem' = Replaced(c.to, new) BY <1>1 DEF Copied
<1> HIDE DEF new
<1>3. 0 \in 0 .. 1 - 1 /\ 1 \in Nat OBVIOUS
<1>4. ASSUME NEW s, InMemory(s, 1),
             ~(s.of = c.to.of /\ (s.at + 0) - c.to.at \in 0 .. n - 1)
      PROVE  At(s, 0)' = At(s, 0)
  BY <1>1, <1>2, <1>3, <1>4, ReplacedAt
<1>5. ~(((c.to.at + c.n - 1) + 0) - c.to.at \in 0 .. n - 1) BY <1>1
<1>6. ~(c.from.of = c.to.of /\ ((c.from.at + c.n - 1) + 0) - c.to.at \in 0 .. n - 1)
  <2>1. CASE c.to.of # c.from.of BY <2>1
  <2>2. CASE c.to.at + c.n <= c.from.at BY <1>1, <2>2
  <2>3. CASE c.from.at + c.n <= c.to.at BY <1>1, <2>3
  <2> QED BY <2>1, <2>2, <2>3 DEF Clear
<1>7. At(EndSlice(c.to, c.n), 0)' = At(EndSlice(c.to, c.n), 0) BY <1>1, <1>4, <1>5
<1>8. At(EndSlice(c.from, c.n), 0)' = At(EndSlice(c.from, c.n), 0) BY <1>1, <1>4, <1>6
<1> QED BY <1>7, <1>8

LEMMA NoticeableParts ==
  ASSUME NEW f, Noticeable(f)
  PROVE  /\ f.kind = "data" => f.test \notin NotComparing
         /\ f.kind = "result" => f.test \notin Indifferent
         /\ f.kind # "basis"
BY DEF Noticeable

\* A call that goes wrong is noticed at once, or dooms the test.
LEMMA FaultTells ==
  ASSUME TypeOK, RestInv, IntegrityInv, TellingInv, NEW w \in Workers,
         GoWrong(w), Noticeable(fault)'
  PROVE  ~ok'[w] \/ Doomed(w)'
<1>1. ok \in [Workers -> BOOLEAN] BY DEF TypeOK
<1>2. CASE MissQuery(w)
  <2>1. Passes(w, FALSE) BY <1>2 DEF MissQuery
  <2> QED BY <1>1, <2>1 DEF Passes
<1>3. CASE LoseStore(w) \/ LoseRead(w)
  <2>1. Fail(w, "basis") BY <1>3 DEF LoseStore, LoseRead
  <2>2. fault'.kind = "basis" BY <2>1 DEF Fail
  <2> QED BY <2>2, NoticeableParts
<1>4. CASE LoseMove(w)
  <2>1. PICK d \in Open(w) :
          /\ d.op = "move" /\ Call(w, d)
          /\ \/ Fail(w, "data") /\ UNCHANGED <<mem, ok>>
             \/ Fail(w, "data") /\ d.n > 1 /\ mem' = Copied(d, d.n - 1) /\ UNCHANGED ok
             \/ Fail(w, "result") /\ UNCHANGED mem /\ Passes(w, ~d.checked)
    BY <1>4 DEF LoseMove
  <2>2. fault = NoFault /\ \A kind : Fail(w, kind) => fault'.test = test[w] /\ fault'.kind = kind
    BY <2>1 DEF Fail
  <2>3. /\ test[w] # NoTest /\ Pos(w) \in 1 .. Len(Steps(w)) /\ d \in Steps(w)[Pos(w)]
    BY <2>1, CallStep
  <2>4. ASSUME mem' = mem, test[w] \notin NotComparing PROVE Doomed(w)'
    <3>1. \A s : At(s, 0)' = At(s, 0) BY <2>4 DEF At
    <3> QED BY <2>1, <2>2, <2>4, <3>1, LostDooms
  <2>5. CASE Fail(w, "data") /\ UNCHANGED <<mem, ok>>
    <3>1. test[w] \notin NotComparing BY <2>2, <2>5, NoticeableParts
    <3> QED BY <2>4, <2>5, <3>1
  <2>6. CASE Fail(w, "data") /\ d.n > 1 /\ mem' = Copied(d, d.n - 1)
    <3>1. test[w] \notin NotComparing BY <2>2, <2>6, NoticeableParts
    <3>2. InMemory(d.from, d.n) /\ InMemory(d.to, d.n) BY <2>1, <2>3, <3>1, MoveEnds
    <3>3. Clear(d, d.from, d.n) BY <2>1, <2>3, <3>1, MoveCompared
    <3>4. /\ At(EndSlice(d.from, d.n), 0)' = At(EndSlice(d.from, d.n), 0)
          /\ At(EndSlice(d.to, d.n), 0)' = At(EndSlice(d.to, d.n), 0)
      BY <2>6, <3>2, <3>3, TruncatedEnds
    <3> QED BY <2>1, <2>2, <3>1, <3>4, LostDooms
  <2>7. CASE Fail(w, "result") /\ UNCHANGED mem /\ Passes(w, ~d.checked)
    <3>1. test[w] \notin Indifferent BY <2>2, <2>7, NoticeableParts
    <3>2. CASE d.checked BY <1>1, <2>7, <3>2 DEF Passes
    <3>3. CASE ~d.checked
      <4>1. test[w] \notin NotComparing
        BY <2>1, <2>3, <3>1, <3>3, CheckedTests DEF Steps
      <4> QED BY <2>4, <2>7, <4>1
    <3> QED BY <3>2, <3>3
  <2> QED BY <2>1, <2>5, <2>6, <2>7
<1> QED BY <1>2, <1>3, <1>4 DEF GoWrong

\* NoticeInv for one worker.
Notices(w) ==
    test[w] # NoTest /\ fault.test = test[w] /\ Noticeable(fault) => ~ok[w] \/ Doomed(w)

\* w's test is as it was, or over.
LEMMA SameNotices ==
  ASSUME NEW v \in Workers, Notices(v), UNCHANGED <<mem, fault>>,
         rest'[v] = rest[v], ok'[v] = ok[v], test'[v] = test[v] \/ test'[v] = NoTest
  PROVE  Notices(v)'
<1>1. CASE test'[v] = NoTest BY <1>1 DEF Notices
<1>2. CASE test'[v] = test[v]
  <2>1. Steps(v)' = Steps(v) /\ Pos(v)' = Pos(v) /\ \A s : At(s, 0)' = At(s, 0)
    BY <1>2 DEF Steps, Pos, At
  <2>2. \A q, c : Left(v, q, c)' = Left(v, q, c) BY <2>1 DEF Left
  <2>3. \A q, c : Dooms(v, q, c)' <=> Dooms(v, q, c) BY <2>1, <2>2 DEF Dooms
  <2>4. Doomed(v)' <=> Doomed(v) BY <2>1, <2>3, DoomedParts
  <2> QED BY <1>2, <2>4 DEF Notices, Noticeable
<1> QED BY <1>1, <1>2

\* A test that has made all its calls is not going to notice anything more.
LEMMA IdleNotices ==
  ASSUME TypeOK, RestInv, NEW v \in Workers, Notices(v), rest[v] = << >>,
         test[v] # NoTest, fault.test = test[v], Noticeable(fault)
  PROVE  ~ok[v]
<1>1. ~Doomed(v) BY NoneLeft, DoomedParts DEF Dooms
<1> QED BY <1>1 DEF Notices

LEMMA CallNotices ==
  ASSUME TypeOK, AloneInv, RestInv, GivenOnce, IntegrityInv, TellingInv,
         \A v \in Workers : Notices(v), NEW w \in Workers, Calling(w)
  PROVE  \A v \in Workers : Notices(v)'
<1>1. /\ rest[w] # << >> /\ test[w] \in Tests /\ test' = test
      /\ \A v \in Workers \ {w} : rest'[v] = rest[v] /\ ok'[v] = ok[v]
      /\ fault' = fault \/ (fault = NoFault /\ fault'.test = test[w])
  BY CallingTypes
<1>2. test[w] # NoTest BY <1>1, NoTestIsNone
<1>3. ASSUME NEW v \in Workers \ {w} PROVE Notices(v)'
  <2>1. CASE fault' = fault
    <3>1. rest[v] = << >> BY <1>1, OthersIdle
    <3>2. Noticeable(fault)' <=> Noticeable(fault) BY <2>1 DEF Noticeable
    <3>3. test[v] # NoTest /\ fault.test = test[v] /\ Noticeable(fault) => ~ok[v]
      BY <3>1, IdleNotices
    <3> QED BY <1>1, <2>1, <3>2, <3>3 DEF Notices
  <2>2. CASE fault'.test = test[w]
    <3>1. test[v] # test[w] BY <1>2 DEF GivenOnce
    <3> QED BY <1>1, <2>2, <3>1 DEF Notices
  <2> QED BY <1>1, <2>1, <2>2
<1>4. CASE DoStore(w) \/ DoMove(w) \/ DoCompare(w) \/ DoQuery(w)
  <2>1. PICK c \in Open(w) :
          /\ Call(w, c) /\ Effect(c) /\ fault' = fault
          /\ c.op \in {"compare", "expect"} => Passes(w, Matches(c))
    BY <1>4, GoodCall
  <2>2. ok'[w] => ok[w]
    <3>1. ok \in [Workers -> BOOLEAN] BY DEF TypeOK
    <3>2. CASE DoStore(w) \/ DoMove(w) \/ DoQuery(w)
      BY <3>2 DEF DoStore, DoMove, DoQuery
    <3>3. CASE DoCompare(w) BY <3>1, <3>3 DEF DoCompare, Passes
    <3> QED BY <1>4, <3>2, <3>3
  <2>3. Doomed(w) => ~ok'[w] \/ Doomed(w)' BY <2>1, DoomedCall
  <2>4. Noticeable(fault)' <=> Noticeable(fault) BY <2>1 DEF Noticeable
  <2>5. Notices(w)' BY <1>1, <2>1, <2>2, <2>3, <2>4 DEF Notices
  <2> QED BY <1>3, <2>5
<1>5. CASE GoWrong(w)
  <2>1. Notices(w)' BY <1>5, FaultTells DEF Notices
  <2> QED BY <1>3, <2>1
<1> QED BY <1>4, <1>5 DEF Calling

\* C0 makes no call itself in test_parallel_c0_access whose fault could be
\* noticed.
LEMMA ParallelSafe ==
  ASSUME TypeOK, RestInv, NEW w \in Workers, GoWrong(w), Noticeable(fault)'
  PROVE  test[w] # "parallel_c0_access"
<1>1. CASE LoseStore(w) \/ LoseRead(w)
  <2>1. Fail(w, "basis") BY <1>1 DEF LoseStore, LoseRead
  <2>2. fault'.kind = "basis" BY <2>1 DEF Fail
  <2> QED BY <2>2, NoticeableParts
<1>2. CASE LoseMove(w) \/ MissQuery(w)
  <2>1. PICK c \in Open(w) : c.op \in {"move", "query"} /\ Call(w, c)
    BY <1>2 DEF LoseMove, MissQuery
  <2>2. Pos(w) \in 1 .. Len(Steps(w)) /\ c \in Steps(w)[Pos(w)] BY <2>1, CallStep
  <2> QED BY <2>1, <2>2, ParallelTest DEF Steps
<1> QED BY <1>1, <1>2 DEF GoWrong

LEMMA NoticeStep ==
  ASSUME TypeOK, AloneInv, RestInv, InTime, GivenOnce, TilesInv, IntegrityInv,
         TellingInv, NoticeInv, [Next]_vars, ~timedOut, ~timedOut'
  PROVE  NoticeInv'
<1>1. /\ fault.test = "parallel_c0_access" => ~Noticeable(fault)
      /\ FaultsAreNoticed /\ \A w \in Workers : Notices(w)
  BY DEF NoticeInv, Notices
<1>2. fault' = fault => (Noticeable(fault)' <=> Noticeable(fault)) BY DEF Noticeable
<1>3. ASSUME NEW w \in Workers, Calling(w) PROVE NoticeInv'
  <2>1. /\ test[w] \in Tests /\ result' = result
        /\ fault' = fault \/ (fault = NoFault /\ fault'.test = test[w])
    BY <1>3, CallingTypes
  <2>2. \A v \in Workers : Notices(v)' BY <1>1, <1>3, CallNotices
  <2>3. CASE fault' = fault
    BY <1>1, <1>2, <2>1, <2>2, <2>3 DEF NoticeInv, Notices, FaultsAreNoticed
  <2>4. CASE fault' # fault
    <3>1. GoWrong(w) BY <1>3, <2>4, GoodCall DEF Calling
    <3>2. fault'.test = "parallel_c0_access" => ~Noticeable(fault)'
      BY <2>1, <2>4, <3>1, ParallelSafe
    <3>3. result'[fault'.test] = "none" BY <2>1, <2>4, NoTestIsNone DEF GivenOnce
    <3> QED BY <2>2, <3>2, <3>3 DEF NoticeInv, Notices, FaultsAreNoticed
  <2> QED BY <2>3, <2>4
<1>4. ASSUME NEW w \in Workers, Begin(w) PROVE NoticeInv'
  <2>1. /\ UNCHANGED <<mem, fault, result>>
        /\ \A v \in Workers \ {w} :
              test'[v] = test[v] /\ rest'[v] = rest[v] /\ ok'[v] = ok[v]
    BY <1>4, BeginStep
  <2>2. ASSUME NEW v \in Workers \ {w} PROVE Notices(v)'
    BY <1>1, <2>1, SameNotices
  <2>3. Notices(w)'
    <3>1. 1 \in 1 .. Len(todo[w]) /\ test'[w] = todo[w][1] BY <1>4, FirstTaken
    <3>2. fault.test # NoTest => \A y \in Tests : y = fault.test => Begun(y)
      BY DEF GivenOnce
    <3>3. ~Begun(todo[w][1]) BY <3>1 DEF GivenOnce
    <3>4. test'[w] \in Tests BY <1>4, BeginStep
    <3>5. fault.test # test'[w] BY <3>1, <3>2, <3>3, <3>4, NoTestIsNone
    <3> QED BY <2>1, <3>5 DEF Notices
  <2> QED BY <1>1, <1>2, <2>1, <2>2, <2>3 DEF NoticeInv, Notices, FaultsAreNoticed
<1>5. ASSUME (\E w \in Workers : Return(w)) \/ QueueTransfers \/ AwaitTransfers
               \/ UNCHANGED vars
      PROVE  NoticeInv'
  <2>1. /\ UNCHANGED <<mem, rest, ok, fault>>
        /\ \A v \in Workers : test'[v] = test[v] \/ test'[v] = NoTest
    BY <1>5, BetweenStep
  <2>2. \A v \in Workers : Notices(v)' BY <1>1, <2>1, SameNotices
  <2>3. ASSUME NEW x \in Tests, fault.test = x, result'[x] # "none", Noticeable(fault)
        PROVE  result'[x] = "fail"
    <3>1. ASSUME NEW w \in Workers, Return(w) PROVE result'[x] = "fail"
      <4>1. /\ test[w] # NoTest /\ rest[w] = << >>
            /\ result'[test[w]] = Verdict(ok[w])
            /\ \A y \in Tests \ {test[w]} : result'[y] = result[y]
        BY <3>1, ReturnStep
      <4>2. CASE x = test[w]
        <5>1. ~ok[w] BY <1>1, <2>3, <4>1, <4>2, IdleNotices
        <5> QED BY <4>1, <4>2, <5>1 DEF Verdict
      <4>3. CASE x # test[w] BY <1>1, <2>3, <4>1, <4>3 DEF FaultsAreNoticed
      <4> QED BY <4>2, <4>3
    <3>2. CASE AwaitTransfers
      BY <1>1, <2>3, <3>2, AwaitStep DEF FaultsAreNoticed
    <3>3. CASE QueueTransfers \/ UNCHANGED vars
      <4>1. result' = result BY <3>3 DEF QueueTransfers, vars
      <4> QED BY <1>1, <2>3, <4>1 DEF FaultsAreNoticed
    <3> QED BY <1>5, <3>1, <3>2, <3>3
  <2>4. FaultsAreNoticed' BY <1>2, <2>1, <2>3 DEF FaultsAreNoticed
  <2> QED BY <1>1, <2>1, <2>2, <2>4 DEF NoticeInv, Notices
<1> QED BY <1>3, <1>4, <1>5, StepKinds

LEMMA FaultsInit == Init => FaultsInv
<1> SUFFICES ASSUME Init PROVE FaultsInv OBVIOUS
<1>1. TestsInv /\ LateInv /\ GivenOnce /\ OrderInv /\ AbsentInv
  BY AllInit, LateInit, OnceInit, AbsentInit
<1>2. (\A w \in Workers : test[w] = NoTest) /\ fault.test = NoTest BY DEF Init, NoFault
<1>3. TellingInv BY <1>2 DEF TellingInv
<1>4. fault.test # "parallel_c0_access" /\ \A x \in Tests : fault.test # x
  BY <1>2, NoTestIsNone
<1>5. NoticeInv BY <1>2, <1>4 DEF NoticeInv, FaultsAreNoticed
<1> QED BY <1>1, <1>3, <1>5 DEF FaultsInv, InTimeInv

\* For every number of tiles, every order they run the tests in and every set
\* of tests the fault may happen in: unless C0 gave up on the transfers, a
\* test in which a move reported success and moved nothing or all but its last
\* slice, a move reported an error, or a query was answered wrongly, has
\* returned failure when it is over, if it is one of those that look.  No test
\* is deceived by data that was in the destination before, left by itself or
\* by another test.  A store or a read that is lost is not promised to be
\* noticed (Noticeable).
THEOREM FaultsNoticed == Spec => []FaultsAreNoticed
<1>1. Init => FaultsInv BY FaultsInit
<1>2. ASSUME FaultsInv, [Next]_vars PROVE FaultsInv'
  <2>1. TestsInv /\ LateInv /\ OwnFaultsInv
    BY <1>2 DEF FaultsInv, InTimeInv, OwnFaultsInv
  <2>2. TypeOK /\ RestInv /\ AloneInv /\ IntegrityInv BY <2>1 DEF TestsInv
  <2>3. OwnFaultsInv' BY <1>2, <2>1, OwnFaultsSteps
  <2>4. ASSUME ~timedOut' PROVE InTimeInv'
    <3>1. ~timedOut /\ InTime BY <1>2, <2>1, <2>2, <2>4, OnTime
    <3>2. GivenOnce /\ OwnInv /\ TilesInv /\ AbsentInv /\ TellingInv /\ NoticeInv
      BY <1>2, <3>1 DEF FaultsInv, InTimeInv, OrderInv
    <3>3. GivenOnce' /\ OrderInv' BY <2>3, <2>4 DEF OwnFaultsInv
    <3>4. AbsentInv' BY <1>2, <2>2, <2>4, <3>1, <3>2, AbsentStep
    <3>5. TellingInv' BY <1>2, <2>2, <3>2, TellingStep
    <3>6. NoticeInv' BY <1>2, <2>2, <2>4, <3>1, <3>2, NoticeStep
    <3> QED BY <3>3, <3>4, <3>5, <3>6 DEF InTimeInv
  <2> QED BY <2>3, <2>4 DEF FaultsInv, OwnFaultsInv
<1>3. FaultsInv => FaultsAreNoticed
  BY DEF FaultsInv, InTimeInv, NoticeInv, FaultsAreNoticed
<1> QED BY <1>1, <1>2, <1>3, PTL DEF Spec
=============================================================================
