---------------------------- MODULE HalTestsProofs -----------------------------
(***************************************************************************)
(* Theorems about the tests of hal_tests/, for every number of tiles: the  *)
(* types, and that one worker makes calls at a time.  The lemma AllStep is *)
(* the step of TestsInv, on which HalFaultsProofs builds.                  *)
(***************************************************************************)
EXTENDS HalTestsInv, SequenceTheorems, TLAPS

-----------------------------------------------------------------------------
(***************************************************************************)
(* The scripts of the tests.                                               *)
(***************************************************************************)

Places == [of : Memories, at : Nat]
Patterns == {"ramp", "xor", "set"} \X Nat

Room(m) == IF m[1] = "dmem" THEN DMEM_512_SIZE ELSE DLM1_512_SIZE

\* The n slices from s are in a memory.
InMemory(s, n) == s \in Places /\ n \in Nat \ {0} /\ s.at + n <= Room(s.of)

Asked == {"zero_size", "null_read", "dmem0_status", "dmem1_status", "dmem7_status"}

Stores == [op : {"store"}, to : Places, n : Nat, data : Patterns]
Moves == [op : {"move"}, from : Places, to : Places, n : Nat, checked : BOOLEAN]
Compares == [op : {"compare"}, a : Places, b : Places, n : Nat]
Expects == [op : {"expect"}, a : Places, n : Nat, data : Patterns]
Queries == [op : {"query"}, what : Asked]

Calls == Stores \cup Moves \cup Compares \cup Expects \cup Queries

\* Every comparison has a move before it that makes the two sides equal.
Sound(S) ==
    /\ S \in Seq(SUBSET Calls)
    /\ \A q \in 1 .. Len(S) : S[q] # {} /\ \A c \in S[q] :
          /\ c.op # "expect"
          /\ c.op = "compare" =>
                /\ InMemory(c.a, c.n) /\ InMemory(c.b, c.n)
                /\ \E j \in 1 .. q - 1 : \E d \in S[j] : Settles(S, j, d, q, c)

LEMMA CallKinds ==
  \A c \in Calls :
    /\ c.op \in {"store", "move", "compare", "expect", "query"}
    /\ c.op = "store" => c \in Stores
    /\ c.op = "move" => c \in Moves
    /\ c.op = "compare" => c \in Compares
    /\ c.op = "expect" => c \in Expects
    /\ Writes(c) => c.to \in Places /\ c.n \in Nat
BY DEF Calls, Stores, Moves, Compares, Expects, Queries, Writes

LEMMA PlacesOf ==
  /\ \A d \in 0 .. 7, i \in Nat : Dmem(d, i) \in Places
  /\ \A t \in {0, 1, 2, 4} \cup Workers, i \in Nat : Dlm1(t, i) \in Places
  /\ \A d, t, i : /\ Dmem(d, i).of = <<"dmem", d>> /\ Dmem(d, i).at = i
                  /\ Dlm1(t, i).of = <<"dlm1", t>> /\ Dlm1(t, i).at = i
BY DEF Dmem, Dlm1, Places, Memories, UsedTiles, Workers, C0

LEMMA RoomOf ==
  /\ \A d : Room(<<"dmem", d>>) = 17
  /\ \A t : Room(<<"dlm1", t>>) = 16
  /\ \A m \in Memories : Room(m) \in Nat /\ Slices(m) = 0 .. Room(m) - 1
BY DEF Room, Slices, DMEM_512_SIZE, DLM1_512_SIZE, KiB64, Memories

LEMMA PatternsOf ==
  /\ \A v \in Int : Ramp(v) \in Patterns
  /\ \A v \in Nat : Xor(v) \in Patterns
  /\ Zero \in Patterns
BY DEF Ramp, Xor, Zero, Patterns

\* A step of one call.
LEMMA StepTypes ==
  ASSUME NEW n \in Nat
  PROVE  /\ \A to \in Places, x \in Patterns :
              Store(to, n, x) \in SUBSET Calls /\ Store(to, n, x) # {}
         /\ \A from, to \in Places :
              /\ Move(from, to, n) \in SUBSET Calls /\ Move(from, to, n) # {}
              /\ CheckedMove(from, to, n) \in SUBSET Calls
              /\ CheckedMove(from, to, n) # {}
         /\ \A a, b \in Places :
              Compare(a, b, n) \in SUBSET Calls /\ Compare(a, b, n) # {}
         /\ \A a \in Places, x \in Patterns :
              CompareWith(a, n, x) \in SUBSET Calls /\ CompareWith(a, n, x) # {}
<1>1. ASSUME NEW to \in Places, NEW x \in Patterns
      PROVE  Store(to, n, x) \in SUBSET Calls /\ Store(to, n, x) # {}
  BY DEF Store, Calls, Stores
<1>2. ASSUME NEW from \in Places, NEW to \in Places
      PROVE  /\ Move(from, to, n) \in SUBSET Calls /\ Move(from, to, n) # {}
             /\ CheckedMove(from, to, n) \in SUBSET Calls /\ CheckedMove(from, to, n) # {}
  BY DEF Move, CheckedMove, Calls, Moves
<1>3. ASSUME NEW a \in Places, NEW b \in Places
      PROVE  Compare(a, b, n) \in SUBSET Calls /\ Compare(a, b, n) # {}
  BY DEF Compare, Calls, Compares
<1>4. ASSUME NEW a \in Places, NEW x \in Patterns
      PROVE  CompareWith(a, n, x) \in SUBSET Calls /\ CompareWith(a, n, x) # {}
  BY DEF CompareWith, Calls, Expects
<1> QED BY <1>1, <1>2, <1>3, <1>4

LEMMA OneCall ==
  /\ \A to, n, x : \E e : /\ Store(to, n, x) = {e}
                          /\ e.op = "store" /\ e.to = to /\ e.n = n /\ e.data = x
  /\ \A from, to, n : \E e : /\ Move(from, to, n) = {e}
                             /\ e.op = "move" /\ e.from = from /\ e.to = to /\ e.n = n
  /\ \A from, to, n : \E e : /\ CheckedMove(from, to, n) = {e}
                             /\ e.op = "move" /\ e.from = from /\ e.to = to /\ e.n = n
  /\ \A a, b, n : \E e : /\ Compare(a, b, n) = {e}
                         /\ e.op = "compare" /\ e.a = a /\ e.b = b /\ e.n = n
  /\ \A a, n, x : \E e : /\ CompareWith(a, n, x) = {e}
                         /\ e.op = "expect" /\ e.a = a /\ e.n = n /\ e.data = x
  /\ \A what : \E e : Query(what) = {e} /\ e.op = "query"
<1>1. ASSUME NEW to, NEW n, NEW x
      PROVE  \E e : /\ Store(to, n, x) = {e}
                    /\ e.op = "store" /\ e.to = to /\ e.n = n /\ e.data = x
  <2> WITNESS [op |-> "store", to |-> to, n |-> n, data |-> x]
  <2> QED BY DEF Store
<1>2. ASSUME NEW from, NEW to, NEW n
      PROVE  \E e : /\ Move(from, to, n) = {e}
                    /\ e.op = "move" /\ e.from = from /\ e.to = to /\ e.n = n
  <2> WITNESS [op |-> "move", from |-> from, to |-> to, n |-> n, checked |-> FALSE]
  <2> QED BY DEF Move
<1>3. ASSUME NEW from, NEW to, NEW n
      PROVE  \E e : /\ CheckedMove(from, to, n) = {e}
                    /\ e.op = "move" /\ e.from = from /\ e.to = to /\ e.n = n
  <2> WITNESS [op |-> "move", from |-> from, to |-> to, n |-> n, checked |-> TRUE]
  <2> QED BY DEF CheckedMove
<1>4. ASSUME NEW a, NEW b, NEW n
      PROVE  \E e : /\ Compare(a, b, n) = {e}
                    /\ e.op = "compare" /\ e.a = a /\ e.b = b /\ e.n = n
  <2> WITNESS [op |-> "compare", a |-> a, b |-> b, n |-> n]
  <2> QED BY DEF Compare
<1>5. ASSUME NEW a, NEW n, NEW x
      PROVE  \E e : /\ CompareWith(a, n, x) = {e}
                    /\ e.op = "expect" /\ e.a = a /\ e.n = n /\ e.data = x
  <2> WITNESS [op |-> "expect", a |-> a, n |-> n, data |-> x]
  <2> QED BY DEF CompareWith
<1>6. ASSUME NEW what PROVE \E e : Query(what) = {e} /\ e.op = "query"
  <2> WITNESS [op |-> "query", what |-> what]
  <2> QED BY DEF Query
<1> QED BY <1>1, <1>2, <1>3, <1>4, <1>5, <1>6

\* A test that compares nothing.
LEMMA NothingCompared ==
  ASSUME NEW S \in Seq(SUBSET Calls),
         \A q \in 1 .. Len(S) : S[q] # {} /\ \A c \in S[q] : c.op \notin {"compare", "expect"}
  PROVE  Sound(S)
BY DEF Sound

\* Two tests one after the other.
LEMMA SoundConcat ==
  ASSUME NEW s, NEW t, Sound(s), Sound(t) PROVE Sound(s \o t)
<1> DEFINE S == s \o t
<1>1. s \in Seq(SUBSET Calls) /\ t \in Seq(SUBSET Calls) BY DEF Sound
<1>2. /\ S \in Seq(SUBSET Calls) /\ Len(S) = Len(s) + Len(t)
      /\ Len(s) \in Nat /\ Len(t) \in Nat
      /\ \A i \in 1 .. Len(s) : S[i] = s[i]
      /\ \A i \in 1 .. Len(t) : S[Len(s) + i] = t[i]
  BY <1>1
<1> HIDE DEF S
<1>3. ASSUME NEW q \in 1 .. Len(s)
      PROVE  S[q] # {} /\ \A c \in S[q] :
                /\ c.op # "expect"
                /\ c.op = "compare" =>
                      /\ InMemory(c.a, c.n) /\ InMemory(c.b, c.n)
                      /\ \E j \in 1 .. q - 1 : \E d \in S[j] : Settles(S, j, d, q, c)
  <2>1. S[q] = s[q] /\ s[q] # {} BY <1>2 DEF Sound
  <2>2. ASSUME NEW c \in s[q], c.op = "compare"
        PROVE  \E j \in 1 .. q - 1 : \E d \in S[j] : Settles(S, j, d, q, c)
    <3>1. PICK j \in 1 .. q - 1 : \E d \in s[j] : Settles(s, j, d, q, c)
      BY <2>2 DEF Sound
    <3>2. PICK d \in s[j] : Settles(s, j, d, q, c) BY <3>1
    <3>3. \A i \in j .. q : S[i] = s[i] BY <1>2
    <3>4. d \in S[j] BY <1>2
    <3>5. Settles(S, j, d, q, c) BY <3>2, <3>3 DEF Settles
    <3> QED BY <3>4, <3>5
  <2> QED BY <2>1, <2>2 DEF Sound
<1>4. ASSUME NEW p \in 1 .. Len(t)
      PROVE  S[Len(s) + p] # {} /\ \A c \in S[Len(s) + p] :
                /\ c.op # "expect"
                /\ c.op = "compare" =>
                      /\ InMemory(c.a, c.n) /\ InMemory(c.b, c.n)
                      /\ \E j \in 1 .. Len(s) + p - 1 : \E d \in S[j] :
                            Settles(S, j, d, Len(s) + p, c)
  <2>1. S[Len(s) + p] = t[p] /\ t[p] # {} BY <1>2 DEF Sound
  <2>2. ASSUME NEW c \in t[p], c.op = "compare"
        PROVE  \E j \in 1 .. Len(s) + p - 1 : \E d \in S[j] :
                  Settles(S, j, d, Len(s) + p, c)
    <3>1. PICK j \in 1 .. p - 1 : \E d \in t[j] : Settles(t, j, d, p, c)
      BY <2>2 DEF Sound
    <3>2. PICK d \in t[j] : Settles(t, j, d, p, c) BY <3>1
    <3>3. \A i \in Len(s) + j .. Len(s) + p :
              i - Len(s) \in j .. p /\ S[i] = t[i - Len(s)]
      <4>1. ASSUME NEW i \in Len(s) + j .. Len(s) + p
            PROVE  i - Len(s) \in j .. p /\ S[i] = t[i - Len(s)]
        <5>1. i - Len(s) \in j .. p /\ i - Len(s) \in 1 .. Len(t)
              /\ i = Len(s) + (i - Len(s))
          BY <1>2
        <5> QED BY <1>2, <5>1
      <4> QED BY <4>1
    <3>4. d \in S[Len(s) + j] /\ Len(s) + j \in 1 .. Len(s) + p - 1 BY <1>2
    <3>5. \A i \in Len(s) + j .. Len(s) + p : \A e \in S[i] :
             Writes(e) => (i = Len(s) + j /\ e = d)
                            \/ (Clear(e, c.a, c.n) /\ Clear(e, c.b, c.n))
      <4>1. ASSUME NEW i \in Len(s) + j .. Len(s) + p, NEW e \in S[i], Writes(e)
            PROVE  (i = Len(s) + j /\ e = d)
                      \/ (Clear(e, c.a, c.n) /\ Clear(e, c.b, c.n))
        <5>1. i - Len(s) \in j .. p /\ e \in t[i - Len(s)] BY <3>3
        <5>2. (i - Len(s) = j /\ e = d) \/ (Clear(e, c.a, c.n) /\ Clear(e, c.b, c.n))
          BY <3>2, <4>1, <5>1 DEF Settles
        <5> QED BY <1>2, <5>2
      <4> QED BY <4>1
    <3>6. Len(s) + j < Len(s) + p BY <1>2
    <3>7. /\ c.op = "compare" /\ d.op = "move" /\ d.from = c.a /\ d.to = c.b /\ d.n = c.n
          /\ Clear(d, c.a, c.n)
      BY <3>2 DEF Settles
    <3>8. Settles(S, Len(s) + j, d, Len(s) + p, c) BY <3>5, <3>6, <3>7 DEF Settles
    <3> QED BY <3>4, <3>8
  <2> QED BY <2>1, <2>2 DEF Sound
<1>5. \A q \in 1 .. Len(S) : q \in 1 .. Len(s) \/ \E p \in 1 .. Len(t) : q = Len(s) + p
  <2>1. ASSUME NEW q \in 1 .. Len(S), q \notin 1 .. Len(s)
        PROVE  q - Len(s) \in 1 .. Len(t) /\ q = Len(s) + (q - Len(s))
    BY <1>2, <2>1
  <2> QED BY <2>1
<1>6. ASSUME NEW q \in 1 .. Len(S)
      PROVE  S[q] # {} /\ \A c \in S[q] :
                /\ c.op # "expect"
                /\ c.op = "compare" =>
                      /\ InMemory(c.a, c.n) /\ InMemory(c.b, c.n)
                      /\ \E j \in 1 .. q - 1 : \E d \in S[j] : Settles(S, j, d, q, c)
  <2>1. CASE q \in 1 .. Len(s) BY <1>3, <2>1
  <2>2. CASE \E p \in 1 .. Len(t) : q = Len(s) + p
    <3>1. PICK p \in 1 .. Len(t) : q = Len(s) + p BY <2>2
    <3> QED BY <1>4, <3>1
  <2> QED BY <1>5, <2>1, <2>2
<1>7. Sound(S) BY <1>2, <1>6 DEF Sound
<1> QED BY <1>7 DEF S

\* The common form of a test: fill, clear, move, compare.
LEMMA SoundCase ==
  ASSUME NEW from \in Places, NEW to \in Places, NEW n \in Nat, NEW x \in Patterns,
         InMemory(from, n), InMemory(to, n), from.of # to.of \/ from.at + n <= to.at,
         NEW move, move \in {Move(from, to, n), CheckedMove(from, to, n)}
  PROVE  Sound(MoveCase(from, to, n, x, move))
<1> DEFINE S == MoveCase(from, to, n, x, move)
<1>1. /\ Store(from, n, x) \in SUBSET Calls /\ Store(to, n, Zero) \in SUBSET Calls
      /\ move \in SUBSET Calls /\ Compare(from, to, n) \in SUBSET Calls
  BY StepTypes, PatternsOf
<1>2. /\ S \in Seq(SUBSET Calls) /\ Len(S) = 4
      /\ S[1] = Store(from, n, x) /\ S[2] = Store(to, n, Zero)
      /\ S[3] = move /\ S[4] = Compare(from, to, n)
  BY <1>1 DEF MoveCase
<1> HIDE DEF S
<1>3. \A q \in 1 .. 4 : q = 1 \/ q = 2 \/ q = 3 \/ q = 4 OBVIOUS
<1>5. PICK d \in move : /\ move = {d} /\ d.op = "move"
                        /\ d.from = from /\ d.to = to /\ d.n = n
  BY OneCall
<1>4. ASSUME NEW q \in 1 .. 3
      PROVE  S[q] # {} /\ \A c \in S[q] : c.op \notin {"compare", "expect"}
  <2>1. CASE q = 1
    <3>1. PICK e : Store(from, n, x) = {e} /\ e.op = "store" BY OneCall
    <3> QED BY <1>2, <2>1, <3>1
  <2>2. CASE q = 2
    <3>1. PICK e : Store(to, n, Zero) = {e} /\ e.op = "store" BY OneCall
    <3> QED BY <1>2, <2>2, <3>1
  <2>3. CASE q = 3 BY <1>2, <1>5, <2>3
  <2> QED BY <2>1, <2>2, <2>3
<1>6. PICK c \in S[4] : /\ S[4] = {c} /\ c.op = "compare"
                        /\ c.a = from /\ c.b = to /\ c.n = n
  <2>1. \E c : /\ Compare(from, to, n) = {c} /\ c.op = "compare"
               /\ c.a = from /\ c.b = to /\ c.n = n
    BY OneCall
  <2> QED BY <1>2, <2>1
<1>7. Settles(S, 3, d, 4, c)
  <2>1. Clear(d, c.a, c.n) BY <1>5, <1>6 DEF Clear, Places
  <2>2. \A i \in 3 .. 4 : \A e \in S[i] : Writes(e) => i = 3 /\ e = d
    <3>1. \A i \in 3 .. 4 : i = 3 \/ i = 4 OBVIOUS
    <3>2. ~Writes(c) BY <1>6 DEF Writes
    <3> QED BY <1>2, <1>5, <1>6, <3>1, <3>2
  <2> QED BY <1>5, <1>6, <2>1, <2>2 DEF Settles
<1>8. \E j \in 1 .. 4 - 1 : \E e \in S[j] : Settles(S, j, e, 4, c)
  BY <1>2, <1>5, <1>7
<1>9. Sound(S)
  <2>1. ASSUME NEW q \in 1 .. Len(S)
        PROVE  S[q] # {} /\ \A e \in S[q] :
                 /\ e.op # "expect"
                 /\ e.op = "compare" =>
                       /\ InMemory(e.a, e.n) /\ InMemory(e.b, e.n)
                       /\ \E j \in 1 .. q - 1 : \E f \in S[j] : Settles(S, j, f, q, e)
    <3>1. CASE q \in 1 .. 3 BY <1>4, <3>1
    <3>2. CASE q = 4 BY <1>6, <1>8, <3>2
    <3> QED BY <1>2, <1>3, <3>1, <3>2
  <2> QED BY <1>2, <2>1 DEF Sound
<1> QED BY <1>9 DEF S

\* The cases the tests are made of.
LEMMA Cases ==
  ASSUME NEW n \in Nat \ {0}, NEW x \in Patterns,
         NEW from \in Places, NEW to \in Places,
         from.at + n <= Room(from.of), to.at + n <= Room(to.of),
         from.of # to.of \/ from.at + n <= to.at
  PROVE  Sound(CopyCase(from, to, n, x)) /\ Sound(CheckedCase(from, to, n, x))
<1>1. InMemory(from, n) /\ InMemory(to, n) BY DEF InMemory
<1> QED BY <1>1, SoundCase DEF CopyCase, CheckedCase

LEMMA SimpleTests ==
  /\ Sound(cpu_local_move) /\ Sound(dma_local_transfer) /\ Sound(dma_remote_transfer)
  /\ Sound(dmem_basic_functionality) /\ Sound(dmem_large_transfers)
  /\ Sound(random_dma_remote) /\ Sound(dmem_alignment_testing)
<1>1. /\ \A d \in 0 .. 7 : Dmem(d, 0) \in Places /\ Dmem(d, 0).of = <<"dmem", d>>
                           /\ Dmem(d, 0).at = 0 /\ Room(Dmem(d, 0).of) = 17
      /\ \A t \in {0, 1, 2, 4}, i \in {0, 1} :
            Dlm1(t, i) \in Places /\ Dlm1(t, i).of = <<"dlm1", t>>
            /\ Dlm1(t, i).at = i /\ Room(Dlm1(t, i).of) = 16
  <2>1. ASSUME NEW d \in 0 .. 7
        PROVE  Dmem(d, 0) \in Places /\ Dmem(d, 0).of = <<"dmem", d>> /\ Dmem(d, 0).at = 0
    BY PlacesOf
  <2>2. ASSUME NEW t \in {0, 1, 2, 4}, NEW i \in {0, 1}
        PROVE  /\ Dlm1(t, i) \in Places /\ Dlm1(t, i).of = <<"dlm1", t>>
               /\ Dlm1(t, i).at = i
    <3>1. i \in Nat OBVIOUS
    <3> QED BY <3>1, PlacesOf
  <2> QED BY <2>1, <2>2, RoomOf
<1>2. \A d, t : <<"dmem", d>> # <<"dlm1", t>> OBVIOUS
<1>3. /\ Ramp(\h55) \in Patterns /\ Ramp(\hAA) \in Patterns /\ Ramp(\h5A) \in Patterns
      /\ Xor(\hA5) \in Patterns /\ Xor(\h5A) \in Patterns
      /\ \A k \in {1, 3, 7} : Ramp(\h5A + 256 - k) \in Patterns
  BY PatternsOf
<1>4. Sound(cpu_local_move)
  <2>1. Dlm1(0, 0).at + 1 <= Room(Dlm1(0, 0).of) /\ Dlm1(0, 1).at + 1 <= Room(Dlm1(0, 1).of)
        /\ Dlm1(0, 0).at + 1 <= Dlm1(0, 1).at
    BY <1>1
  <2> QED BY <1>1, <1>3, <2>1, Cases DEF cpu_local_move
<1>5. Sound(dma_local_transfer)
  <2>1. Dlm1(1, 0).at + 1 <= Room(Dlm1(1, 0).of) /\ Dlm1(1, 1).at + 1 <= Room(Dlm1(1, 1).of)
        /\ Dlm1(1, 0).at + 1 <= Dlm1(1, 1).at
    BY <1>1
  <2> QED BY <1>1, <1>3, <2>1, Cases DEF dma_local_transfer
<1>6. ASSUME NEW t \in {0, 1, 2, 4}, NEW d \in 0 .. 7, NEW x \in Patterns
      PROVE  Sound(CopyCase(Dlm1(t, 0), Dmem(d, 0), 1, x))
  <2>1. Dlm1(t, 0).at + 1 <= Room(Dlm1(t, 0).of) /\ Dmem(d, 0).at + 1 <= Room(Dmem(d, 0).of)
        /\ Dlm1(t, 0).of # Dmem(d, 0).of
    BY <1>1, <1>2
  <2> QED BY <1>1, <2>1, Cases
<1>7. Sound(dma_remote_transfer) BY <1>3, <1>6 DEF dma_remote_transfer
<1>8. Sound(random_dma_remote) BY <1>3, <1>6, SoundConcat DEF random_dma_remote
<1>9. ASSUME NEW n \in 1 .. 17, NEW x \in Patterns
      PROVE  Sound(CheckedCase(Dmem(0, 0), Dmem(1, 0), n, x))
  <2>1. Dmem(0, 0).at + n <= Room(Dmem(0, 0).of) /\ Dmem(1, 0).at + n <= Room(Dmem(1, 0).of)
        /\ Dmem(0, 0).of # Dmem(1, 0).of
    BY <1>1
  <2> QED BY <1>1, <2>1, Cases
<1>10. Sound(dmem_basic_functionality) BY <1>3, <1>9 DEF dmem_basic_functionality
<1>11. Sound(dmem_large_transfers)
  BY <1>3, <1>9 DEF dmem_large_transfers, DMEM_512_SIZE, DLM1_512_SIZE, KiB64
<1>12. \A k \in {1, 3, 7} : Sound(AlignmentCase(k)) BY <1>3, <1>9 DEF AlignmentCase
<1>13. Sound(dmem_alignment_testing)
  BY <1>12, SoundConcat DEF dmem_alignment_testing
<1> QED BY <1>4, <1>5, <1>7, <1>8, <1>10, <1>11, <1>13

\* A loop of transfers, each with its comparison.
LEMMA SoundLoop ==
  ASSUME NEW f \in [0 .. 7 -> Places], NEW g \in [0 .. 7 -> Places],
         \A d \in 0 .. 7 : InMemory(f[d], 1) /\ InMemory(g[d], 1) /\ f[d].of # g[d].of
  PROVE  Sound([k \in 1 .. 16 |->
                  LET d == (k - 1) \div 2 IN MoveOrCompare(k, f[d], g[d])])
<1> DEFINE S == [k \in 1 .. 16 |->
                    LET d == (k - 1) \div 2 IN MoveOrCompare(k, f[d], g[d])]
<1>1. \A k \in 1 .. 16 : (k - 1) \div 2 \in 0 .. 7 OBVIOUS
<1>2. ASSUME NEW k \in 1 .. 16
      PROVE  S[k] = IF k % 2 = 1 THEN Move(f[(k - 1) \div 2], g[(k - 1) \div 2], 1)
                                 ELSE Compare(f[(k - 1) \div 2], g[(k - 1) \div 2], 1)
  BY DEF MoveOrCompare
<1>3. ASSUME NEW k \in 1 .. 16 PROVE S[k] \in SUBSET Calls /\ S[k] # {}
  <2>1. f[(k - 1) \div 2] \in Places /\ g[(k - 1) \div 2] \in Places BY <1>1
  <2>2. 1 \in Nat OBVIOUS
  <2> HIDE DEF S
  <2>3. \A a, b \in Places :
           /\ Move(a, b, 1) \in SUBSET Calls /\ Move(a, b, 1) # {}
           /\ Compare(a, b, 1) \in SUBSET Calls /\ Compare(a, b, 1) # {}
    BY <2>2, StepTypes
  <2> QED BY <1>2, <2>1, <2>3
<1>4. S \in Seq(SUBSET Calls) /\ Len(S) = 16
  <2>1. S \in [1 .. 16 -> SUBSET Calls] BY <1>3
  <2> QED BY <2>1
<1> HIDE DEF S
<1>5. ASSUME NEW q \in 1 .. 16, NEW c \in S[q]
      PROVE  /\ c.op # "expect"
             /\ c.op = "compare" =>
                   /\ InMemory(c.a, c.n) /\ InMemory(c.b, c.n)
                   /\ \E j \in 1 .. q - 1 : \E d \in S[j] : Settles(S, j, d, q, c)
  <2> DEFINE h == (q - 1) \div 2
  <2>1. h \in 0 .. 7 BY <1>1
  <2>2. CASE q % 2 = 1
    <3>1. S[q] = Move(f[h], g[h], 1) BY <1>2, <2>2
    <3>2. PICK e : Move(f[h], g[h], 1) = {e} /\ e.op = "move" BY OneCall
    <3> QED BY <3>1, <3>2
  <2>3. CASE q % 2 # 1
    <3>1. S[q] = Compare(f[h], g[h], 1) BY <1>2, <2>3
    <3>2. \E e : /\ Compare(f[h], g[h], 1) = {e} /\ e.op = "compare"
                 /\ e.a = f[h] /\ e.b = g[h] /\ e.n = 1
      BY OneCall
    <3>3. S[q] = {c} /\ c.op = "compare" /\ c.a = f[h] /\ c.b = g[h] /\ c.n = 1
      BY <3>1, <3>2
    <3>4. q - 1 \in 1 .. 16 /\ (q - 1) % 2 = 1 /\ ((q - 1) - 1) \div 2 = h BY <2>3
    <3>5. S[q - 1] = Move(f[h], g[h], 1) BY <1>2, <3>4
    <3>6. PICK d : /\ Move(f[h], g[h], 1) = {d} /\ d.op = "move"
                   /\ d.from = f[h] /\ d.to = g[h] /\ d.n = 1
      BY OneCall
    <3>7. InMemory(f[h], 1) /\ InMemory(g[h], 1) /\ f[h].of # g[h].of BY <2>1
    <3> HIDE DEF h
    <3>8. Clear(d, c.a, c.n) BY <3>3, <3>6, <3>7 DEF Clear
    <3>9. \A i \in q - 1 .. q : \A e \in S[i] : Writes(e) => i = q - 1 /\ e = d
      <4>1. \A i \in q - 1 .. q : i = q - 1 \/ i = q OBVIOUS
      <4>2. ~Writes(c) BY <3>3 DEF Writes
      <4> QED BY <3>3, <3>5, <3>6, <4>1, <4>2
    <3>10. Settles(S, q - 1, d, q, c) BY <3>3, <3>6, <3>8, <3>9 DEF Settles
    <3>11. q - 1 \in 1 .. q - 1 /\ d \in S[q - 1] BY <3>4, <3>5, <3>6
    <3> QED BY <3>3, <3>7, <3>10, <3>11
  <2> QED BY <2>2, <2>3
<1>6. Sound(S) BY <1>3, <1>4, <1>5 DEF Sound
<1> QED BY <1>6 DEF S

\* Eight fills.
LEMMA SoundFills ==
  ASSUME NEW S, DOMAIN S = 1 .. 8, S = [d \in 1 .. 8 |-> S[d]],
         \A d \in 1 .. 8 : \E to \in Places, x \in Patterns : S[d] = Store(to, 1, x)
  PROVE  Sound(S)
<1>1. ASSUME NEW d \in 1 .. 8
      PROVE  /\ S[d] \in SUBSET Calls /\ S[d] # {}
             /\ \A c \in S[d] : c.op \notin {"compare", "expect"}
  <2>1. PICK to \in Places, x \in Patterns : S[d] = Store(to, 1, x) OBVIOUS
  <2>2. PICK e : Store(to, 1, x) = {e} /\ e.op = "store" BY OneCall
  <2>3. 1 \in Nat OBVIOUS
  <2>4. S[d] \in SUBSET Calls BY <2>1, <2>3, StepTypes
  <2> QED BY <2>1, <2>2, <2>4
<1>2. S \in [1 .. 8 -> SUBSET Calls] BY <1>1
<1>3. S \in Seq(SUBSET Calls) /\ Len(S) = 8 BY <1>2
<1> QED BY <1>1, <1>3, NothingCompared

\* c0_gather and c0_distribute fill eight buffers and then move each of them.
LEMMA LoopTests == Sound(c0_gather) /\ Sound(c0_distribute)
<1>1. ASSUME NEW d \in 0 .. 7
      PROVE  /\ Dmem(d, 0) \in Places /\ InMemory(Dmem(d, 0), 1)
             /\ Dlm1(0, d) \in Places /\ InMemory(Dlm1(0, d), 1)
             /\ Dmem(d, 0).of = <<"dmem", d>> /\ Dlm1(0, d).of = <<"dlm1", 0>>
  <2>1. d \in Nat /\ 0 \in Nat /\ 0 \in {0, 1, 2, 4} \cup Workers OBVIOUS
  <2>2. /\ Dmem(d, 0) \in Places /\ Dlm1(0, d) \in Places
        /\ Dmem(d, 0).of = <<"dmem", d>> /\ Dlm1(0, d).of = <<"dlm1", 0>>
        /\ Dmem(d, 0).at = 0 /\ Dlm1(0, d).at = d
    BY <2>1, PlacesOf
  <2>3. Room(<<"dmem", d>>) = 17 /\ Room(<<"dlm1", 0>>) = 16 BY RoomOf
  <2> QED BY <2>2, <2>3 DEF InMemory
<1>2. \A d, t : <<"dmem", d>> # <<"dlm1", t>> OBVIOUS
<1>3. Sound(c0_gather)
  <2> DEFINE s == [d \in 1 .. 8 |-> Store(Dmem(d - 1, 0), 1, Ramp(\h10 + d - 1))]
             f == [d \in 0 .. 7 |-> Dmem(d, 0)]
             g == [d \in 0 .. 7 |-> Dlm1(0, d)]
             t == [k \in 1 .. 16 |->
                     LET d == (k - 1) \div 2 IN MoveOrCompare(k, f[d], g[d])]
  <2>1. ASSUME NEW d \in 1 .. 8
        PROVE  \E to \in Places, x \in Patterns : s[d] = Store(to, 1, x)
    <3>1. d - 1 \in 0 .. 7 /\ \h10 + d - 1 \in Int OBVIOUS
    <3>2. Dmem(d - 1, 0) \in Places /\ Ramp(\h10 + d - 1) \in Patterns
      BY <1>1, <3>1, PatternsOf
    <3> QED BY <3>2
  <2>2. Sound(s)
    <3>1. DOMAIN s = 1 .. 8 /\ s = [d \in 1 .. 8 |-> s[d]] OBVIOUS
    <3> HIDE DEF s
    <3> QED BY <2>1, <3>1, SoundFills
  <2>3. Sound(t)
    <3>1. f \in [0 .. 7 -> Places] /\ g \in [0 .. 7 -> Places] BY <1>1
    <3>2. ASSUME NEW d \in 0 .. 7
          PROVE  InMemory(f[d], 1) /\ InMemory(g[d], 1) /\ f[d].of # g[d].of
      BY <1>1, <1>2
    <3> HIDE DEF f, g
    <3> QED BY <3>1, <3>2, SoundLoop
  <2>4. t = [k \in 1 .. 16 |->
               LET d == (k - 1) \div 2 IN MoveOrCompare(k, Dmem(d, 0), Dlm1(0, d))]
    <3>1. ASSUME NEW k \in 1 .. 16
          PROVE  /\ f[(k - 1) \div 2] = Dmem((k - 1) \div 2, 0)
                 /\ g[(k - 1) \div 2] = Dlm1(0, (k - 1) \div 2)
      <4>1. (k - 1) \div 2 \in 0 .. 7 OBVIOUS
      <4> QED BY <4>1
    <3> HIDE DEF f, g
    <3> QED BY <3>1
  <2>5. c0_gather = s \o t BY <2>4 DEF c0_gather
  <2> HIDE DEF s, t
  <2> QED BY <2>2, <2>3, <2>5, SoundConcat
<1>4. Sound(c0_distribute)
  <2> DEFINE s == [d \in 1 .. 8 |-> Store(Dlm1(0, d - 1), 1, Ramp(\hE0 + d - 1))]
             f == [d \in 0 .. 7 |-> Dlm1(0, 0)]
             g == [d \in 0 .. 7 |-> Dmem(d, 0)]
             t == [k \in 1 .. 16 |->
                     LET d == (k - 1) \div 2 IN MoveOrCompare(k, f[d], g[d])]
  <2>1. ASSUME NEW d \in 1 .. 8
        PROVE  \E to \in Places, x \in Patterns : s[d] = Store(to, 1, x)
    <3>1. d - 1 \in 0 .. 7 /\ \hE0 + d - 1 \in Int OBVIOUS
    <3>2. Dlm1(0, d - 1) \in Places /\ Ramp(\hE0 + d - 1) \in Patterns
      BY <1>1, <3>1, PatternsOf
    <3> QED BY <3>2
  <2>2. Sound(s)
    <3>1. DOMAIN s = 1 .. 8 /\ s = [d \in 1 .. 8 |-> s[d]] OBVIOUS
    <3> HIDE DEF s
    <3> QED BY <2>1, <3>1, SoundFills
  <2>3. Sound(t)
    <3>1. f \in [0 .. 7 -> Places] /\ g \in [0 .. 7 -> Places] BY <1>1
    <3>2. ASSUME NEW d \in 0 .. 7
          PROVE  InMemory(f[d], 1) /\ InMemory(g[d], 1) /\ f[d].of # g[d].of
      BY <1>1, <1>2
    <3> HIDE DEF f, g
    <3> QED BY <3>1, <3>2, SoundLoop
  <2>4. t = [k \in 1 .. 16 |->
               LET d == (k - 1) \div 2 IN MoveOrCompare(k, Dlm1(0, 0), Dmem(d, 0))]
    <3>1. ASSUME NEW k \in 1 .. 16
          PROVE  /\ f[(k - 1) \div 2] = Dlm1(0, 0)
                 /\ g[(k - 1) \div 2] = Dmem((k - 1) \div 2, 0)
      <4>1. (k - 1) \div 2 \in 0 .. 7 OBVIOUS
      <4> QED BY <4>1
    <3> HIDE DEF f, g
    <3> QED BY <3>1
  <2>5. c0_distribute = s \o t BY <2>4 DEF c0_distribute
  <2> HIDE DEF s, t
  <2> QED BY <2>2, <2>3, <2>5, SoundConcat
<1> QED BY <1>3, <1>4

\* A step without a comparison.
Quiet(step) ==
    step \in SUBSET Calls /\ step # {} /\ \A c \in step : c.op \notin {"compare", "expect"}

LEMMA QuietSteps ==
  ASSUME NEW n \in Nat
  PROVE  /\ \A to \in Places, x \in Patterns : Quiet(Store(to, n, x))
         /\ \A from, to \in Places :
               Quiet(Move(from, to, n)) /\ Quiet(CheckedMove(from, to, n))
         /\ \A what \in Asked : Quiet(Query(what))
<1>1. ASSUME NEW to \in Places, NEW x \in Patterns PROVE Quiet(Store(to, n, x))
  <2>1. PICK e : Store(to, n, x) = {e} /\ e.op = "store" BY OneCall
  <2> QED BY <2>1, StepTypes DEF Quiet
<1>2. ASSUME NEW from \in Places, NEW to \in Places
      PROVE  Quiet(Move(from, to, n)) /\ Quiet(CheckedMove(from, to, n))
  <2>1. PICK d : Move(from, to, n) = {d} /\ d.op = "move" BY OneCall
  <2>2. PICK e : CheckedMove(from, to, n) = {e} /\ e.op = "move" BY OneCall
  <2> QED BY <2>1, <2>2, StepTypes DEF Quiet
<1>3. ASSUME NEW what \in Asked PROVE Quiet(Query(what))
  BY DEF Quiet, Query, Calls, Queries
<1> QED BY <1>1, <1>2, <1>3

LEMMA QuietTests ==
  /\ Sound(noc_bandwidth) /\ Sound(noc_latency) /\ Sound(dmem_address_validation)
  /\ Sound(dmem_boundary_conditions) /\ Sound(dmem_error_handling)
  /\ Sound(dmem_performance_basic) /\ Sound(parallel_c0_access)
  /\ \A w \in Workers : Sound(tile_to_c0_transfer_task(w))
<1>1. \A q \in 1 .. 1 : q = 1 OBVIOUS
<1>2. \A q \in 1 .. 2 : q = 1 \/ q = 2 OBVIOUS
<1>3. ASSUME NEW s, Quiet(s) PROVE Sound(<<s>>)
  <2>1. <<s>> \in Seq(SUBSET Calls) /\ Len(<<s>>) = 1 /\ <<s>>[1] = s BY <1>3 DEF Quiet
  <2> QED BY <1>1, <1>3, <2>1, NothingCompared DEF Quiet
<1>4. ASSUME NEW s, NEW t, Quiet(s), Quiet(t) PROVE Sound(<<s, t>>)
  <2>1. /\ <<s, t>> \in Seq(SUBSET Calls) /\ Len(<<s, t>>) = 2
        /\ <<s, t>>[1] = s /\ <<s, t>>[2] = t
    BY <1>4 DEF Quiet
  <2> QED BY <1>2, <1>4, <2>1, NothingCompared DEF Quiet
<1>12. ASSUME NEW S \in Seq(SUBSET Calls), Len(S) = 5,
              Quiet(S[1]), Quiet(S[2]), Quiet(S[3]), Quiet(S[4]), Quiet(S[5])
       PROVE  Sound(S)
  <2>1. \A q \in 1 .. 5 : q = 1 \/ q = 2 \/ q = 3 \/ q = 4 \/ q = 5 OBVIOUS
  <2>2. \A q \in 1 .. Len(S) : Quiet(S[q]) BY <1>12, <2>1
  <2> QED BY <2>2, NothingCompared DEF Quiet
<1>5. 1 \in Nat /\ 2 \in Nat /\ 4 \in Nat /\ KiB64 \in Nat BY DEF KiB64
<1>6. /\ Dlm1(0, 0) \in Places /\ Dlm1(0, KiB64) \in Places /\ Dmem(0, 0) \in Places
      /\ Dmem(1, 0) \in Places /\ Dmem(7, 0) \in Places
      /\ Dmem(0, DMEM_512_SIZE - 1) \in Places /\ Dmem(0, PARALLEL) \in Places
  <2>1. /\ 0 \in 0 .. 7 /\ 1 \in 0 .. 7 /\ 7 \in 0 .. 7 /\ 0 \in {0, 1, 2, 4} \cup Workers
        /\ KiB64 \in Nat /\ DMEM_512_SIZE - 1 \in Nat /\ PARALLEL \in Nat /\ 0 \in Nat
    BY DEF KiB64, DMEM_512_SIZE, DLM1_512_SIZE, PARALLEL
  <2> QED BY <2>1, PlacesOf
<1>7. Sound(noc_bandwidth) /\ Sound(noc_latency) /\ Sound(dmem_performance_basic)
  BY <1>3, <1>5, <1>6, QuietSteps
     DEF noc_bandwidth, noc_latency, dmem_performance_basic
<1>8. Sound(dmem_address_validation) /\ Sound(dmem_boundary_conditions)
  <2>1. Sound(dmem_boundary_conditions)
    BY <1>4, <1>5, <1>6, QuietSteps DEF dmem_boundary_conditions
  <2> DEFINE s == CheckedMove(Dmem(0, 0), Dmem(1, 0), 4)
             t == CheckedMove(Dmem(0, 0), Dmem(7, 0), 4)
             p == Query("dmem0_status")
             q == Query("dmem1_status")
             r == Query("dmem7_status")
  <2>2. Quiet(s) /\ Quiet(t) /\ Quiet(p) /\ Quiet(q) /\ Quiet(r)
    BY <1>5, <1>6, QuietSteps DEF Asked
  <2>3. dmem_address_validation = <<s, t, p, q, r>> BY DEF dmem_address_validation
  <2> HIDE DEF s, t, p, q, r
  <2>4. /\ <<s, t, p, q, r>> \in Seq(SUBSET Calls) /\ Len(<<s, t, p, q, r>>) = 5
        /\ <<s, t, p, q, r>>[1] = s /\ <<s, t, p, q, r>>[2] = t
        /\ <<s, t, p, q, r>>[3] = p /\ <<s, t, p, q, r>>[4] = q
        /\ <<s, t, p, q, r>>[5] = r
    BY <2>2 DEF Quiet
  <2> QED BY <1>12, <2>1, <2>2, <2>3, <2>4
<1>9. Sound(dmem_error_handling)
  BY <1>4, <1>5, QuietSteps DEF dmem_error_handling, Asked
<1>10. Sound(parallel_c0_access)
  BY <1>3, <1>5, <1>6, QuietSteps, PatternsOf DEF parallel_c0_access
<1>11. ASSUME NEW w \in Workers PROVE Sound(tile_to_c0_transfer_task(w))
  <2>1. w \in Int BY NodeCountAssumption DEF Workers, C0, Tiles
  <2>2. \h10 + w \in Int BY <2>1
  <2>3. Dlm1(w, 0) \in Places /\ Ramp(\h10 + w) \in Patterns BY <2>2, PlacesOf, PatternsOf
  <2> QED BY <1>4, <1>5, <1>6, <2>3, QuietSteps DEF tile_to_c0_transfer_task
<1> QED BY <1>7, <1>8, <1>9, <1>10, <1>11

LEMMA FirstSlices ==
  \A d \in 0 .. 7, n \in 1 .. 17 :
    Dmem(d, 0) \in Places /\ Dmem(d, 0).of = <<"dmem", d>> /\ InMemory(Dmem(d, 0), n)
<1> SUFFICES ASSUME NEW d \in 0 .. 7, NEW n \in 1 .. 17
             PROVE  /\ Dmem(d, 0) \in Places /\ Dmem(d, 0).of = <<"dmem", d>>
                    /\ InMemory(Dmem(d, 0), n)
  OBVIOUS
<1>1. d \in Nat /\ 0 \in Nat OBVIOUS
<1>2. Dmem(d, 0) \in Places /\ Dmem(d, 0).of = <<"dmem", d>> /\ Dmem(d, 0).at = 0
  BY <1>1, PlacesOf
<1>3. Room(<<"dmem", d>>) = 17 BY RoomOf
<1>4. n \in Nat \ {0} /\ 0 + n <= 17 OBVIOUS
<1> QED BY <1>2, <1>3, <1>4 DEF InMemory

\* dmem_concurrent_access: two moves at once, each compared afterwards.
LEMMA ConcurrentTest == Sound(dmem_concurrent_access)
<1> DEFINE S == dmem_concurrent_access
<1>1. \A e \in 0 .. 7 : /\ Dmem(e, 0) \in Places /\ InMemory(Dmem(e, 0), 4)
                         /\ Dmem(e, 0).of = <<"dmem", e>>
  BY FirstSlices
<1>2. 4 \in Nat /\ 0 \in 0 .. 7 /\ 1 \in 0 .. 7 /\ 2 \in 0 .. 7 /\ 3 \in 0 .. 7 OBVIOUS
<1>3. Ramp(\hCC) \in Patterns /\ Ramp(\h33) \in Patterns /\ Zero \in Patterns BY PatternsOf
<1>4. /\ Quiet(Store(Dmem(0, 0), 4, Ramp(\hCC))) /\ Quiet(Store(Dmem(2, 0), 4, Ramp(\h33)))
      /\ Quiet(Store(Dmem(1, 0), 4, Zero)) /\ Quiet(Store(Dmem(3, 0), 4, Zero))
      /\ Quiet(CheckedMove(Dmem(0, 0), Dmem(1, 0), 4))
      /\ Quiet(CheckedMove(Dmem(2, 0), Dmem(3, 0), 4))
  BY <1>1, <1>2, <1>3, QuietSteps
<1>5. /\ Compare(Dmem(0, 0), Dmem(1, 0), 4) \in SUBSET Calls
      /\ Compare(Dmem(2, 0), Dmem(3, 0), 4) \in SUBSET Calls
  BY <1>1, <1>2, StepTypes
<1>6. PICK a : /\ CheckedMove(Dmem(0, 0), Dmem(1, 0), 4) = {a} /\ a.op = "move"
               /\ a.from = Dmem(0, 0) /\ a.to = Dmem(1, 0) /\ a.n = 4
  BY OneCall
<1>7. PICK b : /\ CheckedMove(Dmem(2, 0), Dmem(3, 0), 4) = {b} /\ b.op = "move"
               /\ b.from = Dmem(2, 0) /\ b.to = Dmem(3, 0) /\ b.n = 4
  BY OneCall
<1>8. PICK c : /\ Compare(Dmem(0, 0), Dmem(1, 0), 4) = {c} /\ c.op = "compare"
               /\ c.a = Dmem(0, 0) /\ c.b = Dmem(1, 0) /\ c.n = 4
  BY OneCall
<1>9. PICK d : /\ Compare(Dmem(2, 0), Dmem(3, 0), 4) = {d} /\ d.op = "compare"
               /\ d.a = Dmem(2, 0) /\ d.b = Dmem(3, 0) /\ d.n = 4
  BY OneCall
<1>10. S \in Seq(SUBSET Calls) /\ Len(S) = 7
  BY <1>4, <1>5 DEF dmem_concurrent_access, Quiet
<1>11. /\ Quiet(S[1]) /\ Quiet(S[2]) /\ Quiet(S[3]) /\ Quiet(S[4])
       /\ S[5] = {a, b} /\ S[6] = {c} /\ S[7] = {d}
  BY <1>4, <1>6, <1>7, <1>8, <1>9 DEF dmem_concurrent_access
<1> HIDE DEF S
<1>12. /\ Clear(a, Dmem(0, 0), 4) /\ Clear(a, Dmem(2, 0), 4) /\ Clear(a, Dmem(3, 0), 4)
       /\ Clear(b, Dmem(0, 0), 4) /\ Clear(b, Dmem(1, 0), 4) /\ Clear(b, Dmem(2, 0), 4)
  BY <1>1, <1>2, <1>6, <1>7 DEF Clear
<1>13. ~Writes(c) /\ ~Writes(d) BY <1>8, <1>9 DEF Writes
<1>14. Settles(S, 5, a, 6, c)
  <2>1. \A i \in 5 .. 6 : i = 5 \/ i = 6 OBVIOUS
  <2>2. 5 < 6 OBVIOUS
  <2> QED BY <1>6, <1>8, <1>11, <1>12, <1>13, <2>1, <2>2 DEF Settles
<1>15. Settles(S, 5, b, 7, d)
  <2>1. \A i \in 5 .. 7 : i = 5 \/ i = 6 \/ i = 7 OBVIOUS
  <2>2. 5 < 7 OBVIOUS
  <2> QED BY <1>7, <1>9, <1>11, <1>12, <1>13, <2>1, <2>2 DEF Settles
<1>16. Quiet(S[5])
  BY <1>4, <1>6, <1>7, <1>11 DEF Quiet
<1>17. /\ InMemory(c.a, c.n) /\ InMemory(c.b, c.n)
       /\ \E j \in 1 .. 6 - 1 : \E e \in S[j] : Settles(S, j, e, 6, c)
  BY <1>1, <1>2, <1>8, <1>11, <1>14
<1>18. /\ InMemory(d.a, d.n) /\ InMemory(d.b, d.n)
       /\ \E j \in 1 .. 7 - 1 : \E e \in S[j] : Settles(S, j, e, 7, d)
  BY <1>1, <1>2, <1>9, <1>11, <1>15
<1>19. ASSUME NEW q \in 1 .. 7
       PROVE  S[q] # {} /\ \A x \in S[q] :
                /\ x.op # "expect"
                /\ x.op = "compare" =>
                      /\ InMemory(x.a, x.n) /\ InMemory(x.b, x.n)
                      /\ \E j \in 1 .. q - 1 : \E e \in S[j] : Settles(S, j, e, q, x)
  <2>1. CASE Quiet(S[q]) BY <2>1 DEF Quiet
  <2>2. CASE q = 6 BY <1>8, <1>11, <1>17, <2>2
  <2>3. CASE q = 7 BY <1>9, <1>11, <1>18, <2>3
  <2> QED BY <1>11, <1>16, <2>1, <2>2, <2>3
<1>20. Sound(S) BY <1>10, <1>19 DEF Sound
<1> QED BY <1>20 DEF S

\* dmem_cross_module_transfers: three moves, then three comparisons.
LEMMA CrossTest == Sound(dmem_cross_module_transfers)
<1> DEFINE S == dmem_cross_module_transfers
<1>1. \A d \in 0 .. 7, n \in {1, 2, 4} :
         Dmem(d, 0) \in Places /\ InMemory(Dmem(d, 0), n) /\ Dmem(d, 0).of = <<"dmem", d>>
  BY FirstSlices
<1>2. /\ 1 \in Nat /\ 2 \in Nat /\ 4 \in Nat
      /\ 0 \in 0 .. 7 /\ 1 \in 0 .. 7 /\ 2 \in 0 .. 7 /\ 3 \in 0 .. 7 /\ 6 \in 0 .. 7
      /\ 7 \in 0 .. 7
  OBVIOUS
<1>3. Ramp(\h11) \in Patterns /\ Ramp(\h22) \in Patterns /\ Ramp(\h33) \in Patterns
  BY PatternsOf
<1>4. /\ Quiet(Store(Dmem(0, 0), 1, Ramp(\h11))) /\ Quiet(Store(Dmem(1, 0), 2, Ramp(\h22)))
      /\ Quiet(Store(Dmem(2, 0), 4, Ramp(\h33)))
      /\ Quiet(CheckedMove(Dmem(0, 0), Dmem(3, 0), 1))
      /\ Quiet(CheckedMove(Dmem(1, 0), Dmem(6, 0), 2))
      /\ Quiet(CheckedMove(Dmem(2, 0), Dmem(7, 0), 4))
  BY <1>1, <1>2, <1>3, QuietSteps
<1>5. /\ Compare(Dmem(0, 0), Dmem(3, 0), 1) \in SUBSET Calls
      /\ Compare(Dmem(1, 0), Dmem(6, 0), 2) \in SUBSET Calls
      /\ Compare(Dmem(2, 0), Dmem(7, 0), 4) \in SUBSET Calls
  BY <1>1, <1>2, StepTypes
<1>6. PICK a : /\ CheckedMove(Dmem(0, 0), Dmem(3, 0), 1) = {a} /\ a.op = "move"
               /\ a.from = Dmem(0, 0) /\ a.to = Dmem(3, 0) /\ a.n = 1
  BY OneCall
<1>7. PICK b : /\ CheckedMove(Dmem(1, 0), Dmem(6, 0), 2) = {b} /\ b.op = "move"
               /\ b.from = Dmem(1, 0) /\ b.to = Dmem(6, 0) /\ b.n = 2
  BY OneCall
<1>8. PICK c : /\ CheckedMove(Dmem(2, 0), Dmem(7, 0), 4) = {c} /\ c.op = "move"
               /\ c.from = Dmem(2, 0) /\ c.to = Dmem(7, 0) /\ c.n = 4
  BY OneCall
<1>9. PICK x : /\ Compare(Dmem(0, 0), Dmem(3, 0), 1) = {x} /\ x.op = "compare"
               /\ x.a = Dmem(0, 0) /\ x.b = Dmem(3, 0) /\ x.n = 1
  BY OneCall
<1>10. PICK y : /\ Compare(Dmem(1, 0), Dmem(6, 0), 2) = {y} /\ y.op = "compare"
                /\ y.a = Dmem(1, 0) /\ y.b = Dmem(6, 0) /\ y.n = 2
  BY OneCall
<1>11. PICK z : /\ Compare(Dmem(2, 0), Dmem(7, 0), 4) = {z} /\ z.op = "compare"
                /\ z.a = Dmem(2, 0) /\ z.b = Dmem(7, 0) /\ z.n = 4
  BY OneCall
<1>12. S \in Seq(SUBSET Calls) /\ Len(S) = 9
  BY <1>4, <1>5 DEF dmem_cross_module_transfers, Quiet
<1>13. /\ Quiet(S[1]) /\ Quiet(S[2]) /\ Quiet(S[3])
       /\ Quiet(S[4]) /\ Quiet(S[5]) /\ Quiet(S[6])
       /\ S[4] = {a} /\ S[5] = {b} /\ S[6] = {c}
       /\ S[7] = {x} /\ S[8] = {y} /\ S[9] = {z}
  BY <1>4, <1>6, <1>7, <1>8, <1>9, <1>10, <1>11 DEF dmem_cross_module_transfers
<1> HIDE DEF S
<1>14. /\ Clear(a, Dmem(0, 0), 1)
       /\ Clear(b, Dmem(0, 0), 1) /\ Clear(b, Dmem(3, 0), 1) /\ Clear(b, Dmem(1, 0), 2)
       /\ Clear(c, Dmem(0, 0), 1) /\ Clear(c, Dmem(3, 0), 1) /\ Clear(c, Dmem(1, 0), 2)
       /\ Clear(c, Dmem(6, 0), 2) /\ Clear(c, Dmem(2, 0), 4)
  BY <1>1, <1>2, <1>6, <1>7, <1>8 DEF Clear
<1>15. ~Writes(x) /\ ~Writes(y) /\ ~Writes(z) BY <1>9, <1>10, <1>11 DEF Writes
<1>16. Settles(S, 4, a, 7, x)
  <2>1. \A i \in 4 .. 7 : i = 4 \/ i = 5 \/ i = 6 \/ i = 7 OBVIOUS
  <2>2. 4 < 7 OBVIOUS
  <2> QED BY <1>6, <1>9, <1>13, <1>14, <1>15, <2>1, <2>2 DEF Settles
<1>17. Settles(S, 5, b, 8, y)
  <2>1. \A i \in 5 .. 8 : i = 5 \/ i = 6 \/ i = 7 \/ i = 8 OBVIOUS
  <2>2. 5 < 8 OBVIOUS
  <2> QED BY <1>7, <1>10, <1>13, <1>14, <1>15, <2>1, <2>2 DEF Settles
<1>18. Settles(S, 6, c, 9, z)
  <2>1. \A i \in 6 .. 9 : i = 6 \/ i = 7 \/ i = 8 \/ i = 9 OBVIOUS
  <2>2. 6 < 9 OBVIOUS
  <2> QED BY <1>8, <1>11, <1>13, <1>14, <1>15, <2>1, <2>2 DEF Settles
<1>19. /\ InMemory(x.a, x.n) /\ InMemory(x.b, x.n)
       /\ \E j \in 1 .. 7 - 1 : \E e \in S[j] : Settles(S, j, e, 7, x)
  BY <1>1, <1>2, <1>9, <1>13, <1>16
<1>20. /\ InMemory(y.a, y.n) /\ InMemory(y.b, y.n)
       /\ \E j \in 1 .. 8 - 1 : \E e \in S[j] : Settles(S, j, e, 8, y)
  BY <1>1, <1>2, <1>10, <1>13, <1>17
<1>21. /\ InMemory(z.a, z.n) /\ InMemory(z.b, z.n)
       /\ \E j \in 1 .. 9 - 1 : \E e \in S[j] : Settles(S, j, e, 9, z)
  BY <1>1, <1>2, <1>11, <1>13, <1>18
<1>22. ASSUME NEW q \in 1 .. 9
       PROVE  S[q] # {} /\ \A v \in S[q] :
                /\ v.op # "expect"
                /\ v.op = "compare" =>
                      /\ InMemory(v.a, v.n) /\ InMemory(v.b, v.n)
                      /\ \E j \in 1 .. q - 1 : \E e \in S[j] : Settles(S, j, e, q, v)
  <2>1. CASE Quiet(S[q]) BY <2>1 DEF Quiet
  <2>2. CASE q = 7 BY <1>9, <1>13, <1>19, <2>2
  <2>3. CASE q = 8 BY <1>10, <1>13, <1>20, <2>3
  <2>4. CASE q = 9 BY <1>11, <1>13, <1>21, <2>4
  <2>5. q \in 1 .. 6 \/ q = 7 \/ q = 8 \/ q = 9 OBVIOUS
  <2>6. \A i \in 1 .. 6 : i = 1 \/ i = 2 \/ i = 3 \/ i = 4 \/ i = 5 \/ i = 6 OBVIOUS
  <2>7. q \in 1 .. 6 => Quiet(S[q]) BY <1>13, <2>6
  <2> QED BY <2>1, <2>2, <2>3, <2>4, <2>5, <2>7
<1>23. Sound(S) BY <1>12, <1>22 DEF Sound
<1> QED BY <1>23 DEF S

\* dmem_data_integrity compares with what it stored.
LEMMA IntegrityTest ==
  /\ dmem_data_integrity \in Seq(SUBSET Calls) /\ Len(dmem_data_integrity) = 4
  /\ \E c : /\ dmem_data_integrity[1] = {c} /\ c.op = "store"
            /\ c.to = Dmem(0, 0) /\ c.n = 4 /\ c.data = Ramp(0)
  /\ \E c : /\ dmem_data_integrity[2] = {c} /\ c.op = "store"
            /\ c.to = Dmem(1, 0) /\ c.n = 4 /\ c.data = Zero
  /\ \E c : /\ dmem_data_integrity[3] = {c} /\ c.op = "move"
            /\ c.from = Dmem(0, 0) /\ c.to = Dmem(1, 0) /\ c.n = 4
  /\ \E c : /\ dmem_data_integrity[4] = {c} /\ c.op = "expect"
            /\ c.a = Dmem(1, 0) /\ c.n = 4 /\ c.data = Ramp(0)
<1>1. 4 \in Nat /\ Dmem(0, 0) \in Places /\ Dmem(1, 0) \in Places BY FirstSlices
<1>2. Ramp(0) \in Patterns /\ Zero \in Patterns BY PatternsOf
<1>3. /\ dmem_data_integrity \in Seq(SUBSET Calls) /\ Len(dmem_data_integrity) = 4
      /\ dmem_data_integrity[1] = Store(Dmem(0, 0), 4, Ramp(0))
      /\ dmem_data_integrity[2] = Store(Dmem(1, 0), 4, Zero)
      /\ dmem_data_integrity[3] = CheckedMove(Dmem(0, 0), Dmem(1, 0), 4)
      /\ dmem_data_integrity[4] = CompareWith(Dmem(1, 0), 4, Ramp(0))
  BY <1>1, <1>2, StepTypes DEF dmem_data_integrity
<1>4. \E c : /\ Store(Dmem(0, 0), 4, Ramp(0)) = {c} /\ c.op = "store"
             /\ c.to = Dmem(0, 0) /\ c.n = 4 /\ c.data = Ramp(0)
  BY OneCall
<1>5. \E c : /\ Store(Dmem(1, 0), 4, Zero) = {c} /\ c.op = "store"
             /\ c.to = Dmem(1, 0) /\ c.n = 4 /\ c.data = Zero
  BY OneCall
<1>6. \E c : /\ CheckedMove(Dmem(0, 0), Dmem(1, 0), 4) = {c} /\ c.op = "move"
             /\ c.from = Dmem(0, 0) /\ c.to = Dmem(1, 0) /\ c.n = 4
  BY OneCall
<1>7. \E c : /\ CompareWith(Dmem(1, 0), 4, Ramp(0)) = {c} /\ c.op = "expect"
             /\ c.a = Dmem(1, 0) /\ c.n = 4 /\ c.data = Ramp(0)
  BY OneCall
<1> QED BY <1>3, <1>4, <1>5, <1>6, <1>7

\* The script of every test.
LEMMA ScriptOf ==
  ASSUME NEW w
  PROVE  /\ \A x \in Transfers : Script(x, w) = tile_to_c0_transfer_task(w)
         /\ Script("cpu_local_move", w) = cpu_local_move
         /\ Script("dma_local_transfer", w) = dma_local_transfer
         /\ Script("dma_remote_transfer", w) = dma_remote_transfer
         /\ Script("noc_bandwidth", w) = noc_bandwidth
         /\ Script("noc_latency", w) = noc_latency
         /\ Script("random_dma_remote", w) = random_dma_remote
         /\ Script("c0_gather", w) = c0_gather
         /\ Script("c0_distribute", w) = c0_distribute
         /\ Script("parallel_c0_access", w) = parallel_c0_access
         /\ Script("dmem_basic_functionality", w) = dmem_basic_functionality
         /\ Script("dmem_large_transfers", w) = dmem_large_transfers
         /\ Script("dmem_address_validation", w) = dmem_address_validation
         /\ Script("dmem_data_integrity", w) = dmem_data_integrity
         /\ Script("dmem_concurrent_access", w) = dmem_concurrent_access
         /\ Script("dmem_boundary_conditions", w) = dmem_boundary_conditions
         /\ Script("dmem_error_handling", w) = dmem_error_handling
         /\ Script("dmem_performance_basic", w) = dmem_performance_basic
         /\ Script("dmem_cross_module_transfers", w) = dmem_cross_module_transfers
         /\ Script("dmem_alignment_testing", w) = dmem_alignment_testing
BY DEF Script, Transfers

LEMMA ScriptsSound ==
  ASSUME NEW w \in Workers, NEW x \in Tests \ {"dmem_data_integrity"}
  PROVE  Sound(Script(x, w))
<1>1. x \in Transfers \/
      x \in {"cpu_local_move", "dma_local_transfer", "dma_remote_transfer", "noc_bandwidth",
             "noc_latency", "random_dma_remote", "dmem_basic_functionality",
             "dmem_large_transfers", "dmem_address_validation",
             "dmem_concurrent_access", "dmem_boundary_conditions", "dmem_error_handling",
             "dmem_performance_basic", "dmem_cross_module_transfers",
             "dmem_alignment_testing", "c0_gather", "c0_distribute", "parallel_c0_access"}
  BY DEF Tests, ToSet, hal_tests, c0_tests
<1>2. /\ Sound(tile_to_c0_transfer_task(w))
      /\ Sound(noc_bandwidth) /\ Sound(noc_latency) /\ Sound(dmem_address_validation)
      /\ Sound(dmem_boundary_conditions) /\ Sound(dmem_error_handling)
      /\ Sound(dmem_performance_basic) /\ Sound(parallel_c0_access)
  BY QuietTests
<1> QED BY <1>1, <1>2, ScriptOf, SimpleTests, LoopTests, ConcurrentTest, CrossTest

LEMMA ScriptTypes ==
  ASSUME NEW w \in Workers, NEW x \in Tests
  PROVE  /\ Script(x, w) \in Seq(SUBSET Calls)
         /\ \A q \in 1 .. Len(Script(x, w)) : Script(x, w)[q] # {}
<1>1. CASE x = "dmem_data_integrity"
  <2>1. Script(x, w) = dmem_data_integrity BY <1>1, ScriptOf
  <2>2. \A q \in 1 .. 4 : q = 1 \/ q = 2 \/ q = 3 \/ q = 4 OBVIOUS
  <2> QED BY <2>1, <2>2, IntegrityTest
<1>2. CASE x # "dmem_data_integrity"
  <2>1. Sound(Script(x, w)) BY <1>2, ScriptsSound
  <2> QED BY <2>1 DEF Sound
<1> QED BY <1>1, <1>2

-----------------------------------------------------------------------------
(***************************************************************************)
(* The tests the workers get.                                              *)
(***************************************************************************)

LEMMA NoTestIsNone == NoTest \notin Tests /\ "parallel_c0_access" \in Tests
BY DEF NoTest, Tests, ToSet, hal_tests, c0_tests, Transfers

LEMMA ListTypes ==
  /\ c0_tests \in Seq(Tests) /\ all_tests \in Seq(Tests) /\ hal_tests \in Seq(Tests)
  /\ <<"transfer_A", "transfer_B">> \in Seq(Tests)
<1>1. Transfers \subseteq Tests BY DEF Tests
<1>2. {"cpu_local_move", "dma_local_transfer", "dma_remote_transfer", "noc_bandwidth",
       "noc_latency", "random_dma_remote", "dmem_basic_functionality",
       "dmem_large_transfers", "dmem_address_validation", "dmem_data_integrity",
       "dmem_concurrent_access", "dmem_boundary_conditions", "dmem_error_handling",
       "dmem_performance_basic", "dmem_cross_module_transfers",
       "dmem_alignment_testing", "c0_gather", "c0_distribute", "parallel_c0_access"}
      \subseteq Tests
  BY DEF Tests, ToSet, hal_tests, c0_tests
<1>3. c0_tests \in Seq(Tests) BY <1>2 DEF c0_tests
<1>4. all_tests \in Seq(Tests) BY <1>2 DEF all_tests
<1>5. hal_tests \in Seq(Tests) BY <1>2 DEF hal_tests
<1>6. <<"transfer_A", "transfer_B">> \in Seq(Tests) BY <1>1 DEF Transfers
<1> QED BY <1>3, <1>4, <1>5, <1>6

LEMMA Division ==
  ASSUME NEW m \in Nat \ {0}
  PROVE  /\ \A a \in Int : a % m \in 0 .. m - 1
         /\ \A r \in Nat : r \div m \in Nat /\ (r \div m) * m <= r
OBVIOUS

\* Worker w gets the tests at k, k + m, k + 2m, ... of the list.
LEMMA QueuedAt ==
  ASSUME NEW tests, Len(tests) \in Nat, NEW first \in Nat, NEW w \in Workers,
         NEW m, m = NodeCount - 1, NEW k, k = FirstOf(w, first)
  PROVE  /\ m \in Nat \ {0} /\ k \in 1 .. m
         /\ \E n \in Nat :
              /\ Queued(tests, first)[w] = [i \in 1 .. n |-> tests[k + (i - 1) * m]]
              /\ \A i \in 1 .. n : k + (i - 1) * m \in 1 .. Len(tests)
              /\ w = C0 => n = 0
<1>1. m \in Nat \ {0} BY NodeCountAssumption
<1> DEFINE n == IF w = C0 \/ k > Len(tests) THEN 0 ELSE (Len(tests) - k) \div m + 1
<1>2. Queued(tests, first)[w] = [i \in 1 .. n |-> tests[k + (i - 1) * m]] BY DEF Queued
<1>3. w \in Int BY NodeCountAssumption DEF Workers, Tiles, C0
<1> HIDE DEF n
<1>4. k \in 1 .. m
  <2>1. (w - 1 - first) \in Int BY <1>3
  <2>2. \A a \in Int : a % m \in 0 .. m - 1 BY <1>1, Division
  <2>3. (w - 1 - first) % m \in 0 .. m - 1 BY <2>1, <2>2
  <2>4. k = ((w - 1 - first) % m) + 1 BY DEF FirstOf
  <2> QED BY <1>1, <2>3, <2>4
<1>5. CASE w = C0 \/ k > Len(tests)
  <2>1. n = 0 BY <1>5 DEF n
  <2>2. 0 \in Nat /\ \A i \in 1 .. 0 : k + (i - 1) * m \in 1 .. Len(tests) OBVIOUS
  <2> QED BY <1>1, <1>2, <1>4, <2>1, <2>2
<1>6. CASE ~(w = C0 \/ k > Len(tests))
  <2> DEFINE r == Len(tests) - k
  <2>1. r \in Nat /\ Len(tests) = k + r BY <1>1, <1>4, <1>6
  <2>2. n = r \div m + 1 BY <1>6 DEF n
  <2> HIDE DEF r
  <2>3. r \div m \in Nat /\ (r \div m) * m <= r BY <1>1, <2>1, Division
  <2>4. ASSUME NEW i \in 1 .. n PROVE k + (i - 1) * m \in 1 .. Len(tests)
    <3>1. i - 1 \in Nat /\ i - 1 <= r \div m BY <2>2, <2>3
    <3>2. \A x, y \in Nat : x <= y => x * m <= y * m /\ x * m \in Nat
      <4>1. ASSUME NEW x \in Nat, NEW y \in Nat, x <= y
            PROVE  x * m <= y * m /\ x * m \in Nat
        <5>1. PICK z \in Nat : y = x + z
          <6>1. y - x \in Nat /\ y = x + (y - x) BY <4>1
          <6> QED BY <6>1
        <5>2. z * m \in Nat /\ x * m \in Nat /\ y * m = x * m + z * m BY <1>1, <5>1
        <5> QED BY <5>2
      <4> QED BY <4>1
    <3>3. (i - 1) * m \in Nat /\ (i - 1) * m <= (r \div m) * m BY <2>3, <3>1, <3>2
    <3>4. (r \div m) * m \in Nat BY <2>3, <3>2
    <3>5. k \in Nat /\ k >= 1 BY <1>1, <1>4
    <3>6. \A a, b \in Nat : a <= b /\ b <= r => k + a \in 1 .. Len(tests) BY <2>1, <3>5
    <3> QED BY <2>3, <3>3, <3>4, <3>6
  <2>5. n \in Nat BY <2>2, <2>3
  <2> QED BY <1>1, <1>2, <1>4, <1>6, <2>4, <2>5
<1> QED BY <1>5, <1>6

\* A tile only gets tests of the list; C0 gets none.
LEMMA QueuedTypes ==
  ASSUME NEW tests \in Seq(Tests), NEW first \in Nat
  PROVE  /\ Queued(tests, first) \in [Workers -> Seq(Tests)]
         /\ Queued(tests, first)[C0] = << >>
<1>1. ASSUME NEW w \in Workers PROVE Queued(tests, first)[w] \in Seq(Tests)
  <2> DEFINE m == NodeCount - 1
             k == FirstOf(w, first)
  <2>1. Len(tests) \in Nat OBVIOUS
  <2> HIDE DEF m, k
  <2>2. PICK n \in Nat :
          /\ Queued(tests, first)[w] = [i \in 1 .. n |-> tests[k + (i - 1) * m]]
          /\ \A i \in 1 .. n : k + (i - 1) * m \in 1 .. Len(tests)
    BY <2>1, QueuedAt DEF m, k
  <2>3. [i \in 1 .. n |-> tests[k + (i - 1) * m]] \in [1 .. n -> Tests] BY <2>2
  <2> QED BY <2>2, <2>3
<1>2. C0 \in Workers BY DEF Workers
<1>3. Queued(tests, first)[C0] = << >> BY <1>2 DEF Queued
<1>4. Queued(tests, first) = [w \in Workers |-> Queued(tests, first)[w]] BY DEF Queued
<1> QED BY <1>1, <1>3, <1>4

LEMMA RefilledTests ==
  /\ Refilled \subseteq Tests
  /\ \A x \in Refilled : x \in ToSet(hal_tests)
<1>1. 1 \in DOMAIN hal_tests /\ 2 \in DOMAIN hal_tests BY DEF hal_tests
<1>2. hal_tests[1] \in ToSet(hal_tests) /\ hal_tests[2] \in ToSet(hal_tests)
  BY <1>1 DEF ToSet
<1> QED BY <1>2 DEF Refilled, Tests

\* What w gets when C0 stops waiting: the tests of its share, perhaps without
\* the first, and before them the one that got the slot of its transfer.
LEMMA AwaitTodo ==
  ASSUME TypeOK, AwaitTransfers, NEW w \in Workers
  PROVE  \E again, share :
           /\ todo'[w] = again \o share
           /\ \/ again = << >>
              \/ w \in Tiles /\ todo[w] # << >> /\ \E x \in Refilled : again = <<x>>
           /\ \/ share = Queued(hal_tests, 2)[w]
              \/ Queued(hal_tests, 2)[w] # << >> /\ share = Tail(Queued(hal_tests, 2)[w])
<1>1. PICK slot \in [Carriers -> Refilled],
           again \in SUBSET {v \in Carriers : todo[v] # << >>} :
        \E lost \in SUBSET {slot[v] : v \in Carriers} : todo' = [v \in Workers |->
              (IF v \in again THEN <<slot[v]>> ELSE << >>)
              \o LET share == Queued(hal_tests, 2)[v]
                 IN  IF share # << >> /\ Head(share) \in lost THEN Tail(share) ELSE share]
  BY DEF AwaitTransfers
<1>5. PICK lost : todo' = [v \in Workers |->
              (IF v \in again THEN <<slot[v]>> ELSE << >>)
              \o LET share == Queued(hal_tests, 2)[v]
                 IN  IF share # << >> /\ Head(share) \in lost THEN Tail(share) ELSE share]
  BY <1>1
<1> DEFINE own == Queued(hal_tests, 2)[w]
           a == IF w \in again THEN <<slot[w]>> ELSE << >>
           b == IF own # << >> /\ Head(own) \in lost THEN Tail(own) ELSE own
<1>2. todo'[w] = a \o b BY <1>5
<1>3. \/ a = << >>
      \/ w \in Tiles /\ todo[w] # << >> /\ \E x \in Refilled : a = <<x>>
  <2>1. CASE w \in again
    <3>1. a = <<slot[w]>> BY <2>1
    <3>2. w \in Carriers /\ todo[w] # << >> BY <2>1
    <3>3. slot[w] \in Refilled BY <3>2
    <3> QED BY <3>1, <3>2, <3>3 DEF Carriers
  <2>2. CASE w \notin again BY <2>2
  <2> QED BY <2>1, <2>2
<1>4. b = own \/ (own # << >> /\ b = Tail(own))
  <2>1. CASE own # << >> /\ Head(own) \in lost BY <2>1
  <2>2. CASE ~(own # << >> /\ Head(own) \in lost) BY <2>2
  <2> QED BY <2>1, <2>2
<1> HIDE DEF a, b
<1> QED BY <1>2, <1>3, <1>4

LEMMA AwaitTypes ==
  ASSUME TypeOK, AwaitTransfers
  PROVE  todo' \in [Workers -> Seq(Tests)] /\ todo'[C0] = << >>
<1>1. /\ Queued(hal_tests, 2) \in [Workers -> Seq(Tests)]
      /\ Queued(hal_tests, 2)[C0] = << >>
  BY ListTypes, QueuedTypes
<1>2. C0 \in Workers /\ C0 \notin Tiles
  BY NodeCountAssumption DEF C0, Workers, Tiles
<1>3. ASSUME NEW w \in Workers
      PROVE  todo'[w] \in Seq(Tests) /\ (w = C0 => todo'[w] = << >>)
  <2>1. PICK again, share :
           /\ todo'[w] = again \o share
           /\ \/ again = << >>
              \/ w \in Tiles /\ todo[w] # << >> /\ \E x \in Refilled : again = <<x>>
           /\ \/ share = Queued(hal_tests, 2)[w]
              \/ Queued(hal_tests, 2)[w] # << >> /\ share = Tail(Queued(hal_tests, 2)[w])
    BY AwaitTodo
  <2>2. again \in Seq(Tests)
    <3>1. << >> \in Seq(Tests) /\ \A x \in Tests : <<x>> \in Seq(Tests) OBVIOUS
    <3> QED BY <2>1, <3>1, RefilledTests
  <2>3. share \in Seq(Tests)
    <3>1. Queued(hal_tests, 2)[w] \in Seq(Tests) BY <1>1
    <3>2. \A q \in Seq(Tests) : q # << >> => Tail(q) \in Seq(Tests) OBVIOUS
    <3> QED BY <2>1, <3>1, <3>2
  <2>4. w = C0 => again = << >> /\ share = << >> BY <1>1, <1>2, <2>1
  <2> QED BY <2>1, <2>2, <2>3, <2>4
<1>4. todo' = [w \in Workers |-> todo'[w]] BY DEF AwaitTransfers
<1> QED BY <1>2, <1>3, <1>4

-----------------------------------------------------------------------------
(***************************************************************************)
(* Types, and one caller at a time.                                        *)
(***************************************************************************)

\* A call of w's test, good or bad.
Calling(w) ==
    \/ DoStore(w) \/ DoMove(w) \/ DoCompare(w) \/ DoQuery(w)
    \/ GoWrong(w)

LEMMA ReplacedTypes ==
  ASSUME TypeOK, NEW to, NEW new
  PROVE  /\ DOMAIN Replaced(to, new) = Memories
         /\ \A m \in Memories : DOMAIN Replaced(to, new)[m] = Slices(m)
BY DEF Replaced, TypeOK

LEMMA CallingTypes ==
  ASSUME TypeOK, NEW w \in Workers, Calling(w)
  PROVE  /\ rest[w] # << >> /\ test[w] \in Tests
         /\ UNCHANGED <<phase, todo, timedOut, test, session, result>>
         /\ DOMAIN rest' = Workers /\ \A v \in Workers \ {w} : rest'[v] = rest[v]
         /\ ok' \in [Workers -> BOOLEAN] /\ \A v \in Workers \ {w} : ok'[v] = ok[v]
         /\ DOMAIN mem' = Memories /\ \A m \in Memories : DOMAIN mem'[m] = Slices(m)
         /\ fault' = fault \/
               (fault = NoFault /\ fault'.test = test[w]
                  /\ fault' \in [test : Tests, kind : FaultKinds])
<1>1. \E c \in Open(w) : Call(w, c)
  BY DEF Calling, DoStore, DoMove, DoCompare, DoQuery, GoWrong,
             LoseMove, LoseStore, LoseRead, MissQuery
<1>2. rest[w] # << >> BY <1>1 DEF Open
<1>3. test[w] \in Tests BY <1>2 DEF TypeOK
<1>4. /\ UNCHANGED <<phase, todo, timedOut, test, session, result>>
      /\ DOMAIN rest' = Workers /\ \A v \in Workers \ {w} : rest'[v] = rest[v]
  <2>1. PICK c : Call(w, c) BY <1>1
  <2>2. DOMAIN rest = Workers BY DEF TypeOK
  <2> QED BY <2>1, <2>2 DEF Call, runVars
<1>5. ok' = ok \/ \E good : ok' = [ok EXCEPT ![w] = @ /\ good]
  BY DEF Calling, DoStore, DoMove, DoCompare, DoQuery, GoWrong,
             LoseMove, LoseStore, LoseRead, MissQuery, Passes
<1>6. ok' \in [Workers -> BOOLEAN] /\ \A v \in Workers \ {w} : ok'[v] = ok[v]
  <2>1. CASE ok' = ok BY <2>1 DEF TypeOK
  <2>2. CASE \E good : ok' = [ok EXCEPT ![w] = @ /\ good]
    <3>1. PICK good : ok' = [ok EXCEPT ![w] = @ /\ good] BY <2>2
    <3>2. (ok[w] /\ good) \in BOOLEAN OBVIOUS
    <3>3. ok \in [Workers -> BOOLEAN] BY DEF TypeOK
    <3> QED BY <3>1, <3>2, <3>3
  <2> QED BY <1>5, <2>1, <2>2
<1>7. mem' = mem \/ \E to, new : mem' = Replaced(to, new)
  BY DEF Calling, DoStore, DoMove, DoCompare, DoQuery, GoWrong,
             LoseMove, LoseStore, LoseRead, MissQuery, Copied
<1>8. DOMAIN mem' = Memories /\ \A m \in Memories : DOMAIN mem'[m] = Slices(m)
  <2>1. CASE mem' = mem BY <2>1 DEF TypeOK
  <2>2. CASE \E to, new : mem' = Replaced(to, new)
    <3>1. PICK to, new : mem' = Replaced(to, new) BY <2>2
    <3> QED BY <3>1, ReplacedTypes
  <2> QED BY <1>7, <2>1, <2>2
<1>9. fault' = fault \/ \E kind \in FaultKinds : Fail(w, kind)
  BY DEF Calling, DoStore, DoMove, DoCompare, DoQuery, GoWrong,
             LoseMove, LoseStore, LoseRead, MissQuery, FaultKinds
<1>10. fault' = fault \/ (fault = NoFault /\ fault'.test = test[w]
                            /\ fault' \in [test : Tests, kind : FaultKinds])
  BY <1>3, <1>9 DEF Fail
<1> QED BY <1>2, <1>3, <1>4, <1>6, <1>8, <1>10

LEMMA TestsInit == Init => TypeOK /\ AloneInv
<1> SUFFICES ASSUME Init PROVE TypeOK /\ AloneInv OBVIOUS
<1>1. C0 \in Workers /\ C0 \notin Tiles /\ Nobody \notin Tiles
  BY NodeCountAssumption DEF C0, Workers, Tiles, Nobody
<1>2. /\ todo \in [Workers -> Seq(Tests)] /\ phase \in {"c0", "fallback"}
      /\ \A w \in Tiles : todo[w] = << >>
  <2>1. << >> \in Seq(Tests) OBVIOUS
  <2>2. \A w \in Tiles : w \in Workers /\ w # C0 BY <1>1 DEF Workers
  <2>3. CASE phase = "c0" /\ todo = [w \in Workers |-> IF w = C0 THEN c0_tests ELSE << >>]
    BY <2>1, <2>2, <2>3, ListTypes
  <2>4. CASE /\ phase = "fallback"
             /\ todo = [w \in Workers |-> IF w = C0 THEN all_tests ELSE << >>]
    BY <2>1, <2>2, <2>4, ListTypes
  <2> QED BY <2>3, <2>4 DEF Init
<1>3. DOMAIN mem = Memories /\ \A m \in Memories : DOMAIN mem[m] = Slices(m)
  BY DEF Init
<1>4. \A w \in Workers : test[w] = NoTest /\ rest[w] = << >> BY DEF Init
<1>5. /\ test \in [Workers -> Tests \cup {NoTest}] /\ DOMAIN rest = Workers
      /\ ok \in [Workers -> BOOLEAN]
      /\ fault = NoFault /\ timedOut \in BOOLEAN /\ session = Nobody
  BY DEF Init
<1>6. result \in [Tests -> {"none", "pass", "fail"}] BY DEF Init
<1>7. \A w \in Tiles : w \in Workers BY DEF Workers
<1>8. TypeOK BY <1>1, <1>2, <1>3, <1>4, <1>5, <1>6, <1>7 DEF TypeOK
<1>9. AloneInv BY <1>1, <1>2, <1>4, <1>5, <1>7 DEF AloneInv
<1> QED BY <1>8, <1>9

\* The steps of a run.
LEMMA StepKinds ==
  ASSUME [Next]_vars
  PROVE  \/ \E w \in Workers : Calling(w) \/ Begin(w) \/ Return(w)
         \/ QueueTransfers \/ AwaitTransfers
         \/ UNCHANGED vars
BY DEF Next, Work, Calling, Terminated

\* A test stores its result in its own place, except that a transfer that C0
\* no longer waits for may store it nowhere or in a place that was refilled.
LEMMA ReturnStores ==
  ASSUME TypeOK, NEW w \in Workers, Return(w)
  PROVE  /\ test[w] \in Tests
         /\ \/ result' = [result EXCEPT ![test[w]] = Verdict(ok[w])]
            \/ /\ phase = "hal" /\ test[w] \in Transfers
               /\ \/ result' = result
                  \/ \E x \in Refilled : result' = [result EXCEPT ![x] = Verdict(ok[w])]
         /\ \/ result' = result
            \/ \E x \in Tests : result' = [result EXCEPT ![x] = Verdict(ok[w])]
<1>1. test[w] \in Tests BY DEF Return, Leave, TypeOK
<1>2. Refilled \subseteq Tests BY RefilledTests
<1>3. \/ result' = [result EXCEPT ![test[w]] = Verdict(ok[w])]
      \/ /\ phase = "hal" /\ test[w] \in Transfers
         /\ \/ result' = result
            \/ \E x \in Refilled : result' = [result EXCEPT ![x] = Verdict(ok[w])]
  BY DEF Return
<1> QED BY <1>1, <1>2, <1>3

LEMMA TestsStep ==
  ASSUME TypeOK, AloneInv, [Next]_vars PROVE TypeOK' /\ AloneInv'
<1>1. C0 \in Workers /\ C0 \notin Tiles /\ Nobody \notin Tiles /\ Tiles \subseteq Workers
  BY NodeCountAssumption DEF C0, Workers, Tiles, Nobody
<1>2. ASSUME NEW w \in Workers, Calling(w) PROVE TypeOK' /\ AloneInv'
  <2>1. /\ rest[w] # << >> /\ test[w] \in Tests
        /\ UNCHANGED <<phase, todo, timedOut, test, session, result>>
        /\ DOMAIN rest' = Workers /\ \A v \in Workers \ {w} : rest'[v] = rest[v]
        /\ ok' \in [Workers -> BOOLEAN]
        /\ DOMAIN mem' = Memories /\ \A m \in Memories : DOMAIN mem'[m] = Slices(m)
        /\ fault' = fault \/ fault' \in [test : Tests, kind : FaultKinds]
    BY <1>2, CallingTypes
  <2>2. TypeOK' BY <2>1, NoTestIsNone DEF TypeOK
  <2>3. w = C0 => phase \notin {"transfers", "hal"} BY <2>1 DEF AloneInv
  <2>4. rest'[C0] # << >> => rest[C0] # << >>
    BY <1>1, <2>1
  <2>5. AloneInv' BY <2>1, <2>4 DEF AloneInv
  <2> QED BY <2>2, <2>5
<1>3. ASSUME NEW w \in Workers, Begin(w) PROVE TypeOK' /\ AloneInv'
  <2>1. /\ test[w] = NoTest /\ todo[w] # << >>
        /\ test' = [test EXCEPT ![w] = Head(todo[w])]
        /\ rest' = [rest EXCEPT ![w] = Script(Head(todo[w]), w)]
        /\ todo' = [todo EXCEPT ![w] = Tail(@)]
        /\ ok' = [ok EXCEPT ![w] = TRUE]
        /\ UNCHANGED <<mem, phase, result, timedOut, fault>>
    BY <1>3 DEF Begin, Enter
  <2>2. IF w = C0 THEN session' = session ELSE session = Nobody /\ session' = w
    BY <1>3 DEF Begin, BeginSession
  <2>3. todo \in [Workers -> Seq(Tests)] /\ test \in [Workers -> Tests \cup {NoTest}]
        /\ DOMAIN rest = Workers /\ ok \in [Workers -> BOOLEAN]
        /\ session \in Tiles \cup {Nobody}
    BY DEF TypeOK
  <2>4. Head(todo[w]) \in Tests /\ Tail(todo[w]) \in Seq(Tests) BY <2>1, <2>3
  <2>5. test'[w] # NoTest /\ \A v \in Workers \ {w} :
            test'[v] = test[v] /\ rest'[v] = rest[v] /\ todo'[v] = todo[v]
    BY <2>1, <2>3, <2>4, NoTestIsNone
  <2>6. todo' \in [Workers -> Seq(Tests)] /\ test' \in [Workers -> Tests \cup {NoTest}]
        /\ DOMAIN rest' = Workers /\ ok' \in [Workers -> BOOLEAN]
    BY <2>1, <2>3, <2>4
  <2>7. w # C0 => w \in Tiles BY DEF Workers
  <2>8. session' \in Tiles \cup {Nobody} BY <2>2, <2>3, <2>7
  <2>9. \A v \in Tiles : session' = v <=> test'[v] # NoTest
    <3> SUFFICES ASSUME NEW v \in Tiles PROVE session' = v <=> test'[v] # NoTest OBVIOUS
    <3>1. session = v <=> test[v] # NoTest BY DEF AloneInv
    <3>2. CASE v = w BY <1>1, <2>2, <2>5, <3>2
    <3>3. CASE v # w
      <4>1. test'[v] = test[v] BY <1>1, <2>5, <3>3
      <4>2. session = v => session' = v BY <1>1, <2>2
      <4>3. session' = v => session = v BY <2>2, <3>3
      <4> QED BY <3>1, <4>1, <4>2, <4>3
    <3> QED BY <3>2, <3>3
  <2>10. \A v \in Workers : test'[v] = NoTest => rest'[v] = << >>
    BY <2>5 DEF TypeOK
  <2>11. TypeOK'
    BY <2>1, <2>6, <2>8, <2>9, <2>10 DEF TypeOK
  <2>12. phase \in {"c0", "fallback"} => w = C0 BY <2>1, <2>7 DEF AloneInv
  <2>13. phase \in {"transfers", "hal"} => w # C0 BY <2>1 DEF AloneInv
  <2>14. AloneInv'
    <3>1. ASSUME phase' \in {"c0", "fallback"}, NEW v \in Tiles
          PROVE  test'[v] = NoTest /\ todo'[v] = << >>
      BY <1>1, <2>1, <2>5, <2>12, <3>1 DEF AloneInv
    <3>2. ASSUME phase' \in {"transfers", "hal"}
          PROVE  /\ todo'[C0] = << >> /\ rest'[C0] = << >>
                 /\ test'[C0] = test[C0]
      BY <1>1, <2>1, <2>5, <2>13, <3>2 DEF AloneInv
    <3> QED BY <2>1, <2>9, <3>1, <3>2 DEF AloneInv
  <2> QED BY <2>11, <2>14
<1>4. ASSUME NEW w \in Workers, Return(w) PROVE TypeOK' /\ AloneInv'
  <2>1. /\ test[w] # NoTest /\ rest[w] = << >>
        /\ test' = [test EXCEPT ![w] = NoTest]
        /\ UNCHANGED <<mem, phase, todo, timedOut, rest, ok, fault>>
        /\ result' = result \/ \E x \in Tests : result' = [result EXCEPT ![x] = Verdict(ok[w])]
        /\ session' = IF w = C0 THEN session ELSE Nobody
    BY <1>4, ReturnStores DEF Return, Leave, runVars
  <2>2. test' \in [Workers -> Tests \cup {NoTest}] BY <2>1 DEF TypeOK
  <2>3. result' \in [Tests -> {"none", "pass", "fail"}]
    <3>1. Verdict(ok[w]) \in {"none", "pass", "fail"} BY DEF Verdict
    <3> QED BY <2>1, <3>1 DEF TypeOK
  <2>4. /\ test'[w] = NoTest
        /\ \A v \in Workers \ {w} : test'[v] = test[v]
    BY <2>1 DEF TypeOK
  <2>5. \A v \in Tiles : session' = v <=> test'[v] # NoTest
    <3> SUFFICES ASSUME NEW v \in Tiles PROVE session' = v <=> test'[v] # NoTest OBVIOUS
    <3>1. session = v <=> test[v] # NoTest BY DEF AloneInv
    <3>2. w # C0 => w \in Tiles /\ session = w BY <2>1 DEF AloneInv, Workers
    <3>3. CASE v = w BY <1>1, <2>1, <2>4, <3>3
    <3>4. CASE v # w BY <1>1, <2>1, <2>4, <3>1, <3>2, <3>4
    <3> QED BY <3>3, <3>4
  <2>6. session' \in Tiles \cup {Nobody} BY <2>1 DEF TypeOK
  <2>7. \A v \in Workers : test'[v] = NoTest => rest'[v] = << >>
    BY <2>1, <2>4 DEF TypeOK
  <2>8. TypeOK' BY <2>1, <2>2, <2>3, <2>5, <2>6, <2>7 DEF TypeOK
  <2>9. \A v \in Workers : test[v] = NoTest => test'[v] = NoTest BY <2>4
  <2>10. AloneInv' BY <1>1, <2>1, <2>5, <2>9 DEF AloneInv
  <2> QED BY <2>8, <2>10
<1>5. ASSUME QueueTransfers PROVE TypeOK' /\ AloneInv'
  <2>1. /\ phase = "c0" /\ rest[C0] = << >> /\ phase' = "transfers"
        /\ todo' = Queued(<<"transfer_A", "transfer_B">>, 0)
        /\ UNCHANGED <<mem, test, rest, ok, session, result, timedOut, fault>>
    BY <1>5 DEF QueueTransfers
  <2>2. todo' \in [Workers -> Seq(Tests)] /\ todo'[C0] = << >>
    BY <2>1, ListTypes, QueuedTypes
  <2>3. TypeOK' BY <2>1, <2>2 DEF TypeOK
  <2>4. AloneInv' BY <2>1, <2>2 DEF AloneInv
  <2> QED BY <2>3, <2>4
<1>6. ASSUME AwaitTransfers PROVE TypeOK' /\ AloneInv'
  <2>1. /\ phase = "transfers" /\ phase' = "hal" /\ timedOut' = ~Answered
        /\ result' = [result EXCEPT !["parallel_c0_access"] =
              Verdict(\A x \in Transfers : result[x] = "pass")]
        /\ test' = [test EXCEPT ![C0] = NoTest]
        /\ UNCHANGED <<mem, rest, ok, session, fault>>
    BY <1>6 DEF AwaitTransfers
  <2>2. todo' \in [Workers -> Seq(Tests)] /\ todo'[C0] = << >>
    BY <1>6, AwaitTypes
  <2>3. rest[C0] = << >> BY <2>1 DEF AloneInv
  <2>4. test' \in [Workers -> Tests \cup {NoTest}] /\ test'[C0] = NoTest
        /\ \A v \in Workers \ {C0} : test'[v] = test[v]
    BY <1>1, <2>1 DEF TypeOK
  <2>5. timedOut' \in BOOLEAN BY <2>1 DEF Answered
  <2>6. result' \in [Tests -> {"none", "pass", "fail"}]
    <3>1. \A b : Verdict(b) \in {"none", "pass", "fail"} BY DEF Verdict
    <3> QED BY <2>1, <3>1 DEF TypeOK
  <2>7. \A v \in Tiles : test'[v] = test[v] BY <1>1, <2>4
  <2>8. TypeOK' BY <1>1, <2>1, <2>2, <2>3, <2>4, <2>5, <2>6, <2>7 DEF TypeOK
  <2>9. AloneInv' BY <2>1, <2>2, <2>3, <2>4, <2>7 DEF AloneInv
  <2> QED BY <2>8, <2>9
<1>7. ASSUME UNCHANGED vars PROVE TypeOK' /\ AloneInv'
  <2>1. TypeOK' BY <1>7 DEF vars, TypeOK
  <2>2. AloneInv' BY <1>7 DEF vars, AloneInv
  <2> QED BY <2>1, <2>2
<1> QED BY <1>2, <1>3, <1>4, <1>5, <1>6, <1>7, StepKinds

\* Every variable keeps its type, the scripts included: what c0_run_hal_tests_
\* distributed queues are tests, and no test leaves calls behind.
THEOREM TestTypes == Spec => []TypeOK
<1>1. Init => TypeOK /\ AloneInv BY TestsInit
<1>2. TypeOK /\ AloneInv /\ [Next]_vars => (TypeOK /\ AloneInv)' BY TestsStep
<1>3. TypeOK /\ AloneInv => TypeOK OBVIOUS
<1> QED BY <1>1, <1>2, <1>3, PTL DEF Spec

\* However many tiles there are, one of them at a time is inside a test (the
\* print session around test_func), and C0 makes calls only before the tiles
\* have tasks: the tests need no other lock for the memories they share.
THEOREM OneCallerAtATime == Spec => []AloneInv
<1>1. Init => TypeOK /\ AloneInv BY TestsInit
<1>2. TypeOK /\ AloneInv /\ [Next]_vars => (TypeOK /\ AloneInv)' BY TestsStep
<1>3. TypeOK /\ AloneInv => AloneInv OBVIOUS
<1> QED BY <1>1, <1>2, <1>3, PTL DEF Spec

-----------------------------------------------------------------------------
(***************************************************************************)
(* What a test has left to do.                                             *)
(***************************************************************************)

\* The calls that are left and the script, as sequences.
LEMMA RestTypes ==
  ASSUME TypeOK, RestInv, NEW w \in Workers, test[w] # NoTest
  PROVE  /\ Steps(w) \in Seq(SUBSET Calls) /\ rest[w] \in Seq(SUBSET Calls)
         /\ \A q \in 1 .. Len(Steps(w)) : Steps(w)[q] # {}
         /\ Len(rest[w]) <= Len(Steps(w))
         /\ Pos(w) \in 1 .. Len(Steps(w)) + 1
         /\ Len(rest[w]) = Len(Steps(w)) - Pos(w) + 1
<1>1. test[w] \in Tests BY DEF TypeOK
<1>2. /\ Steps(w) \in Seq(SUBSET Calls)
      /\ \A q \in 1 .. Len(Steps(w)) : Steps(w)[q] # {}
  BY <1>1, ScriptTypes DEF Steps
<1>3. Len(Steps(w)) \in Nat BY <1>2
<1>4. /\ Len(rest[w]) \in 0 .. Len(Steps(w))
      /\ rest[w] = [i \in 1 .. Len(rest[w]) |-> rest[w][i]]
      /\ EndOf(Steps(w), Pos(w) - 1, rest[w])
  BY DEF RestInv
<1>5. /\ Pos(w) \in 1 .. Len(Steps(w)) + 1 /\ Len(rest[w]) = Len(Steps(w)) - Pos(w) + 1
      /\ Len(rest[w]) \in Nat /\ Len(rest[w]) <= Len(Steps(w))
  <2>1. \A a \in Nat : \A b \in 0 .. a :
           a - b + 1 \in 1 .. a + 1 /\ b = a - (a - b + 1) + 1 /\ b \in Nat /\ b <= a
    OBVIOUS
  <2>2. Len(rest[w]) \in 0 .. Len(Steps(w)) BY <1>4
  <2> QED BY <1>3, <2>1, <2>2 DEF Pos
<1>6. ASSUME NEW i \in 1 .. Len(rest[w]) PROVE rest[w][i] \in SUBSET Calls
  <2>1. (Pos(w) - 1) + i \in 1 .. Len(Steps(w)) BY <1>3, <1>5
  <2>2. Steps(w)[(Pos(w) - 1) + i] \in SUBSET Calls BY <1>2, <2>1
  <2> QED BY <1>4, <2>2 DEF EndOf
<1>7. rest[w] \in [1 .. Len(rest[w]) -> SUBSET Calls] BY <1>4, <1>6
<1>8. rest[w] \in Seq(SUBSET Calls) BY <1>5, <1>7
<1> QED BY <1>2, <1>5, <1>8

LEMMA NewHead ==
  ASSUME NEW r \in Seq(SUBSET Calls), r # << >>, NEW x \in SUBSET Calls
  PROVE  /\ <<x>> \o Tail(r) \in Seq(SUBSET Calls)
         /\ Len(<<x>> \o Tail(r)) = Len(r)
         /\ (<<x>> \o Tail(r))[1] = x
         /\ \A i \in 2 .. Len(r) : (<<x>> \o Tail(r))[i] = r[i]
<1> DEFINE h == <<x>>
           g == Tail(r)
           n == Len(r)
<1>1. h \in Seq(SUBSET Calls) /\ Len(h) = 1 /\ h[1] = x OBVIOUS
<1>2. /\ n \in Nat /\ n >= 1 /\ g \in Seq(SUBSET Calls) /\ Len(g) = n - 1
      /\ \A i \in 1 .. n - 1 : g[i] = r[i + 1]
  OBVIOUS
<1> HIDE DEF h, g, n
<1>3. /\ h \o g \in Seq(SUBSET Calls) /\ Len(h \o g) = Len(h) + Len(g)
      /\ \A i \in 1 .. Len(h) + Len(g) :
            (h \o g)[i] = IF i <= Len(h) THEN h[i] ELSE g[i - Len(h)]
  BY <1>1, <1>2, ConcatProperties
<1>4. Len(h) + Len(g) = n BY <1>1, <1>2
<1>5. (h \o g)[1] = x
  <2>1. 1 \in 1 .. n /\ 1 <= Len(h) BY <1>1, <1>2
  <2> QED BY <1>1, <1>3, <1>4, <2>1
<1>6. ASSUME NEW i \in 2 .. n PROVE (h \o g)[i] = r[i]
  <2>1. i \in 1 .. n /\ ~(i <= Len(h)) /\ i - Len(h) = i - 1 BY <1>1, <1>2
  <2>2. (h \o g)[i] = g[i - 1] BY <1>3, <1>4, <2>1
  <2>3. i - 1 \in 1 .. n - 1 /\ (i - 1) + 1 = i BY <1>2
  <2>4. g[i - 1] = r[(i - 1) + 1] BY <1>2, <2>3
  <2> QED BY <2>2, <2>3, <2>4
<1> QED BY <1>3, <1>4, <1>5, <1>6 DEF h, g, n

\* What is left of r after call c.
Taken(r, c) == IF Head(r) = {c} THEN Tail(r) ELSE <<Head(r) \ {c}>> \o Tail(r)

\* t is r without the call c of its first step.
Without(S, k, r, c, h, t) ==
    /\ (h = k + 1) <=> (Head(r) = {c})
    /\ t \in Seq(SUBSET Calls) /\ EndOf(S, h, t)
    /\ \A q \in k + 1 .. Len(S) : \A e :
         (q > h /\ e \in t[q - h]) <=> (e \in r[q - k] /\ ~(q = k + 1 /\ e = c))

\* Taking a call off the first step of what is left, after k steps.
LEMMA OneLess ==
  ASSUME NEW S \in Seq(SUBSET Calls), NEW r \in Seq(SUBSET Calls),
         NEW k \in Nat, EndOf(S, k, r), r # << >>, NEW c, c \in Head(r)
  PROVE  \E h \in {k, k + 1} : Without(S, k, r, c, h, Taken(r, c))
<1> DEFINE t == Taken(r, c)
<1>1. /\ Len(S) \in Nat /\ Len(r) \in Nat /\ Len(r) >= 1 /\ Head(r) = r[1]
      /\ Tail(r) \in Seq(SUBSET Calls) /\ Len(Tail(r)) = Len(r) - 1
      /\ \A i \in 1 .. Len(r) - 1 : Tail(r)[i] = r[i + 1]
  OBVIOUS
<1> DEFINE n == Len(r)
<1>6. t = IF Head(r) = {c} THEN Tail(r) ELSE <<Head(r) \ {c}>> \o Tail(r) BY DEF Taken
<1> HIDE DEF t
<1>2. n \in Nat /\ n >= 1 /\ Len(S) = k + n BY <1>1 DEF EndOf
<1>5. \A i \in 1 .. n :
         r[i] # {} /\ r[i] \subseteq S[k + i] /\ (i > 1 => r[i] = S[k + i])
  BY DEF EndOf
<1>3. CASE Head(r) = {c}
  <2>1. /\ t \in Seq(SUBSET Calls) /\ Len(t) = n - 1
        /\ \A i \in 1 .. n - 1 : t[i] = r[i + 1]
    BY <1>1, <1>3, <1>6
  <2> HIDE DEF n
  <2>2. ASSUME NEW i \in 1 .. n - 1
        PROVE  t[i] # {} /\ t[i] = S[k + 1 + i]
    <3>1. i + 1 \in 1 .. n /\ i + 1 > 1 /\ k + (i + 1) = k + 1 + i BY <1>2
    <3>2. r[i + 1] # {} /\ r[i + 1] = S[k + (i + 1)] BY <1>5, <3>1
    <3> QED BY <2>1, <3>1, <3>2
  <2>3. ASSUME NEW q \in k + 1 .. k + n, NEW e
        PROVE  (q > k + 1 /\ e \in t[q - (k + 1)])
                  <=> (e \in r[q - k] /\ ~(q = k + 1 /\ e = c))
    <3>1. CASE q = k + 1
      <4>1. ~(q > k + 1) /\ q - k = 1 BY <1>2, <3>1
      <4>2. r[1] = {c} BY <1>1, <1>3
      <4> QED BY <3>1, <4>1, <4>2
    <3>2. CASE q # k + 1
      <4>1. q > k + 1 /\ q - (k + 1) \in 1 .. n - 1 /\ (q - (k + 1)) + 1 = q - k
        BY <1>2, <3>2
      <4>2. t[q - (k + 1)] = r[(q - (k + 1)) + 1] BY <2>1, <4>1
      <4> QED BY <3>2, <4>1, <4>2
    <3> QED BY <3>1, <3>2
  <2>4. k + 1 + (n - 1) = k + n BY <1>2
  <2>5. k + 1 \in {k, k + 1} OBVIOUS
  <2>6. EndOf(S, k + 1, t) BY <1>2, <2>1, <2>2, <2>4 DEF EndOf
  <2>7. Without(S, k, r, c, k + 1, t) BY <1>2, <1>3, <2>1, <2>3, <2>6 DEF Without
  <2> QED BY <2>5, <2>7 DEF t
<1>4. CASE Head(r) # {c}
  <2>1. /\ t \in Seq(SUBSET Calls) /\ Len(t) = n /\ t[1] = r[1] \ {c}
        /\ \A i \in 2 .. n : t[i] = r[i]
    <3>1. r[1] \ {c} \in SUBSET Calls BY <1>1
    <3> QED BY <1>1, <1>4, <1>6, <3>1, NewHead
  <2> HIDE DEF n
  <2>2. ASSUME NEW i \in 1 .. n
        PROVE  t[i] # {} /\ t[i] \subseteq S[k + i] /\ (i > 1 => t[i] = S[k + i])
    <3>1. r[i] # {} /\ r[i] \subseteq S[k + i] /\ (i > 1 => r[i] = S[k + i]) BY <1>5
    <3>2. CASE i = 1
      <4>1. t[1] # {} /\ t[1] \subseteq r[1] BY <1>1, <1>4, <2>1
      <4>2. ~(i > 1) BY <3>2
      <4> QED BY <3>1, <3>2, <4>1, <4>2
    <3>3. CASE i # 1
      <4>1. i \in 2 .. n BY <1>2, <3>3
      <4> QED BY <2>1, <3>1, <4>1
    <3> QED BY <3>2, <3>3
  <2>3. ASSUME NEW q \in k + 1 .. k + n, NEW e
        PROVE  (q > k /\ e \in t[q - k]) <=> (e \in r[q - k] /\ ~(q = k + 1 /\ e = c))
    <3>1. q > k BY <1>2
    <3>2. CASE q = k + 1
      <4>1. q - k = 1 BY <1>2, <3>2
      <4> QED BY <2>1, <3>1, <3>2, <4>1
    <3>3. CASE q # k + 1
      <4>1. q - k \in 2 .. n BY <1>2, <3>3
      <4>2. t[q - k] = r[q - k] BY <2>1, <4>1
      <4> QED BY <3>1, <3>3, <4>2
    <3> QED BY <3>2, <3>3
  <2>4. k \in {k, k + 1} /\ k # k + 1 OBVIOUS
  <2>5. EndOf(S, k, t) BY <1>2, <2>1, <2>2 DEF EndOf
  <2>6. Without(S, k, r, c, k, t) BY <1>2, <1>4, <2>1, <2>3, <2>4, <2>5 DEF Without
  <2> QED BY <2>4, <2>6 DEF t
<1> QED BY <1>3, <1>4

\* A call of w's test: it was left, it is of the first step that is, and it is
\* the only one that is no longer left.
LEMMA CallStep ==
  ASSUME TypeOK, RestInv, NEW w \in Workers, NEW c \in Open(w), Call(w, c)
  PROVE  /\ test[w] # NoTest /\ Steps(w)' = Steps(w)
         /\ Steps(w) \in Seq(SUBSET Calls)
         /\ Pos(w) \in 1 .. Len(Steps(w)) /\ c \in Steps(w)[Pos(w)]
         /\ Left(w, Pos(w), c)
         /\ Pos(w)' \in {Pos(w), Pos(w) + 1}
         /\ Steps(w)[Pos(w)] = {c} => Pos(w)' = Pos(w) + 1
         /\ \A q \in 1 .. Len(Steps(w)) : \A e :
              Left(w, q, e)' <=> (Left(w, q, e) /\ ~(q = Pos(w) /\ e = c))
         /\ \A q \in 1 .. Len(Steps(w)) : \A e \in Steps(w)[q] :
              (q > Pos(w) => Left(w, q, e)) /\ (q < Pos(w) => ~Left(w, q, e))
         /\ Len(rest'[w]) \in 0 .. Len(Steps(w))
         /\ rest'[w] = [i \in 1 .. Len(rest'[w]) |-> rest'[w][i]]
         /\ EndOf(Steps(w), Pos(w)' - 1, rest'[w])
<1> DEFINE S == Steps(w)
           r == rest[w]
           t == rest'[w]
           k == Pos(w) - 1
<1>1. r # << >> /\ c \in Head(r) BY DEF Open
<1>2. test[w] # NoTest BY <1>1 DEF TypeOK
<1>3. test' = test BY DEF Call
<1>4. Steps(w)' = S BY <1>3 DEF Steps
<1>5. /\ S \in Seq(SUBSET Calls) /\ r \in Seq(SUBSET Calls)
      /\ Len(r) = Len(S) - Pos(w) + 1 /\ Pos(w) \in 1 .. Len(S) + 1
  BY <1>2, RestTypes
<1>6. Len(S) \in Nat /\ Len(r) \in Nat /\ Len(r) >= 1 /\ Head(r) = r[1] BY <1>1, <1>5
<1>7. k \in Nat /\ Pos(w) = k + 1 /\ Pos(w) \in 1 .. Len(S) /\ k + Len(r) = Len(S)
  <2>1. \A a, b \in Nat : \A p \in 1 .. a + 1 : b >= 1 /\ b = a - p + 1 =>
           p - 1 \in Nat /\ p = (p - 1) + 1 /\ p \in 1 .. a /\ (p - 1) + b = a
    OBVIOUS
  <2> QED BY <1>5, <1>6, <2>1
<1>8. EndOf(S, k, r) BY <1>2 DEF RestInv
<1>9. t = Taken(r, c) BY DEF Call, TypeOK, Taken
<1>10. Pos(w)' = Len(S) - Len(t) + 1 BY <1>4 DEF Pos
<1>11. \A q, e : Left(w, q, e) <=> (q \in Pos(w) .. Len(S) /\ e \in r[q - Pos(w) + 1])
  BY DEF Left
<1>12. \A q, e : Left(w, q, e)' <=> (q \in Pos(w)' .. Len(S) /\ e \in t[q - Pos(w)' + 1])
  BY <1>4 DEF Left
<1> HIDE DEF S, r, t, k
<1>13. PICK h \in {k, k + 1} :
          /\ (h = k + 1) <=> (Head(r) = {c})
          /\ t \in Seq(SUBSET Calls) /\ EndOf(S, h, t)
          /\ \A q \in k + 1 .. Len(S) : \A e :
               (q > h /\ e \in t[q - h]) <=> (e \in r[q - k] /\ ~(q = k + 1 /\ e = c))
  <2>1. \E h \in {k, k + 1} : Without(S, k, r, c, h, t)
    BY <1>1, <1>5, <1>7, <1>8, <1>9, OneLess
  <2> QED BY <2>1 DEF Without
<1>14. Len(t) \in Nat /\ h + Len(t) = Len(S) BY <1>13 DEF EndOf
<1>15. h \in Nat /\ Pos(w)' = h + 1 BY <1>6, <1>7, <1>10, <1>13, <1>14
<1>16. c \in S[Pos(w)] /\ Left(w, Pos(w), c)
  <2>1. 1 \in 1 .. Len(r) /\ Pos(w) - Pos(w) + 1 = 1 BY <1>6, <1>7
  <2>2. c \in r[1] BY <1>1, <1>6
  <2>3. r[1] \subseteq S[k + 1] BY <1>8, <2>1 DEF EndOf
  <2>4. Pos(w) \in Pos(w) .. Len(S) BY <1>7
  <2> QED BY <1>7, <1>11, <2>1, <2>2, <2>3, <2>4
<1>17. S[Pos(w)] = {c} => h = k + 1
  <2>1. 1 \in 1 .. Len(r) BY <1>6
  <2>2. r[1] # {} /\ r[1] \subseteq S[k + 1] BY <1>8, <2>1 DEF EndOf
  <2> QED BY <1>6, <1>7, <1>13, <2>2
<1>18. ASSUME NEW q \in 1 .. Len(S), NEW e
       PROVE  Left(w, q, e)' <=> (Left(w, q, e) /\ ~(q = Pos(w) /\ e = c))
  <2>1. CASE q \in k + 1 .. Len(S)
    <3>1. (q > h /\ e \in t[q - h]) <=> (e \in r[q - k] /\ ~(q = k + 1 /\ e = c))
      BY <1>13, <2>1
    <3>2. q - Pos(w) + 1 = q - k /\ q \in Pos(w) .. Len(S) BY <1>7, <2>1
    <3>3. q - (h + 1) + 1 = q - h /\ (q \in h + 1 .. Len(S) <=> q > h) BY <1>6, <1>15
    <3>4. Left(w, q, e) <=> e \in r[q - k] BY <1>11, <3>2
    <3>5. Left(w, q, e)' <=> (q > h /\ e \in t[q - h]) BY <1>12, <1>15, <3>3
    <3> QED BY <1>7, <3>1, <3>4, <3>5
  <2>2. CASE q \notin k + 1 .. Len(S)
    <3>1. q \notin Pos(w) .. Len(S) /\ q \notin h + 1 .. Len(S)
      BY <1>6, <1>7, <1>13, <1>15, <2>2
    <3> QED BY <1>11, <1>12, <1>15, <3>1
  <2> QED BY <2>1, <2>2
<1>19. ASSUME NEW q \in 1 .. Len(S), NEW e \in S[q]
       PROVE  (q > Pos(w) => Left(w, q, e)) /\ (q < Pos(w) => ~Left(w, q, e))
  <2>1. ASSUME q > Pos(w) PROVE Left(w, q, e)
    <3>1. /\ q - Pos(w) + 1 \in 1 .. Len(r) /\ q - Pos(w) + 1 > 1
          /\ k + (q - Pos(w) + 1) = q /\ q \in Pos(w) .. Len(S)
      BY <1>6, <1>7, <2>1
    <3>2. r[q - Pos(w) + 1] = S[k + (q - Pos(w) + 1)] BY <1>8, <3>1 DEF EndOf
    <3> QED BY <1>11, <3>1, <3>2
  <2>2. ASSUME q < Pos(w) PROVE ~Left(w, q, e)
    <3>1. q \notin Pos(w) .. Len(S) BY <1>6, <1>7, <2>2
    <3> QED BY <1>11, <3>1
  <2> QED BY <2>1, <2>2
<1>20. Len(t) \in 0 .. Len(S) /\ t = [i \in 1 .. Len(t) |-> t[i]]
  BY <1>6, <1>13, <1>14, <1>15
<1>21. Pos(w)' - 1 = h /\ Pos(w)' \in {Pos(w), Pos(w) + 1}
       /\ (h = k + 1 => Pos(w)' = Pos(w) + 1)
  BY <1>7, <1>13, <1>15
<1>22. EndOf(S, Pos(w)' - 1, t) BY <1>13, <1>21
<1> QED BY <1>2, <1>4, <1>5, <1>7, <1>16, <1>17, <1>18, <1>19, <1>20, <1>21, <1>22
        DEF S, t

\* A worker that has just begun its test has all of it left.
LEMMA BeginStep ==
  ASSUME TypeOK, NEW w \in Workers, Begin(w)
  PROVE  /\ test[w] = NoTest /\ test'[w] \in Tests /\ Pos(w)' = 1
         /\ Steps(w)' \in Seq(SUBSET Calls)
         /\ rest'[w] = Steps(w)' /\ EndOf(Steps(w)', 0, rest'[w])
         /\ \A q \in 1 .. Len(Steps(w)') : \A e \in Steps(w)'[q] : Left(w, q, e)'
         /\ ok'[w] = TRUE /\ UNCHANGED <<mem, fault, result, timedOut>>
         /\ \A v \in Workers \ {w} :
              test'[v] = test[v] /\ rest'[v] = rest[v] /\ ok'[v] = ok[v]
<1>1. /\ test[w] = NoTest /\ todo[w] # << >>
      /\ test' = [test EXCEPT ![w] = Head(todo[w])]
      /\ rest' = [rest EXCEPT ![w] = Script(Head(todo[w]), w)]
      /\ ok' = [ok EXCEPT ![w] = TRUE] /\ UNCHANGED <<mem, fault, result, timedOut>>
  BY DEF Begin, Enter
<1>2. /\ todo[w] \in Seq(Tests) /\ test \in [Workers -> Tests \cup {NoTest}]
      /\ DOMAIN rest = Workers /\ ok \in [Workers -> BOOLEAN]
  BY DEF TypeOK
<1>3. Head(todo[w]) \in Tests BY <1>1, <1>2
<1>4. test'[w] = Head(todo[w]) /\ rest'[w] = Script(Head(todo[w]), w) BY <1>1, <1>2
<1>5. Steps(w)' = Script(Head(todo[w]), w) BY <1>4 DEF Steps
<1> DEFINE S == Script(Head(todo[w]), w)
<1>6. S \in Seq(SUBSET Calls) /\ \A q \in 1 .. Len(S) : S[q] # {} BY <1>3, ScriptTypes
<1>7. rest'[w] = S /\ Steps(w)' = S BY <1>4, <1>5
<1> HIDE DEF S
<1>8. Len(S) \in Nat BY <1>6
<1>9. Pos(w)' = 1
  <2>1. Len(S) - Len(S) + 1 = 1 BY <1>8
  <2> QED BY <1>7, <2>1 DEF Pos
<1>10. EndOf(S, 0, S)
  <2>1. 0 + Len(S) = Len(S) /\ \A i \in 1 .. Len(S) : 0 + i = i BY <1>8
  <2> QED BY <1>6, <2>1 DEF EndOf
<1>11. ASSUME NEW q \in 1 .. Len(S), NEW e \in S[q] PROVE Left(w, q, e)'
  <2>1. q - 1 + 1 = q OBVIOUS
  <2> QED BY <1>7, <1>9, <2>1 DEF Left
<1>12. \A v \in Workers \ {w} :
          test'[v] = test[v] /\ rest'[v] = rest[v] /\ ok'[v] = ok[v]
  BY <1>1, <1>2
<1>13. ok'[w] = TRUE BY <1>1, <1>2
<1> QED BY <1>1, <1>3, <1>4, <1>6, <1>7, <1>9, <1>10, <1>11, <1>12, <1>13

\* A call leaves the other workers' tests alone.
LEMMA OthersStep ==
  ASSUME TypeOK, NEW w \in Workers, NEW c, Call(w, c)
  PROVE  test' = test /\ \A v \in Workers \ {w} : rest'[v] = rest[v]
BY DEF Call, TypeOK

\* A step that begins no test and makes no call.
LEMMA BetweenStep ==
  ASSUME TypeOK,
         (\E w \in Workers : Return(w)) \/ QueueTransfers \/ AwaitTransfers
            \/ UNCHANGED vars
  PROVE  /\ UNCHANGED <<mem, rest, ok, fault>>
         /\ \A v \in Workers : test'[v] = test[v] \/ test'[v] = NoTest
<1>1. ASSUME NEW w \in Workers, Return(w)
      PROVE  /\ UNCHANGED <<mem, rest, ok, fault>>
             /\ \A v \in Workers : test'[v] = test[v] \/ test'[v] = NoTest
  BY <1>1 DEF Return, Leave, TypeOK
<1>2. ASSUME QueueTransfers
      PROVE  UNCHANGED <<mem, rest, ok, fault>> /\ UNCHANGED test
  BY <1>2 DEF QueueTransfers
<1>3. ASSUME AwaitTransfers
      PROVE  /\ UNCHANGED <<mem, rest, ok, fault>>
             /\ \A v \in Workers : test'[v] = test[v] \/ test'[v] = NoTest
  BY <1>3 DEF AwaitTransfers, TypeOK
<1>4. ASSUME UNCHANGED vars PROVE UNCHANGED <<mem, rest, ok, fault, test>>
  BY <1>4 DEF vars
<1> QED BY <1>1, <1>2, <1>3, <1>4

LEMMA RestStep ==
  ASSUME TypeOK, RestInv, [Next]_vars PROVE RestInv'
<1> DEFINE Good(w) == /\ Len(rest[w]) \in 0 .. Len(Steps(w))
                      /\ rest[w] = [i \in 1 .. Len(rest[w]) |-> rest[w][i]]
                      /\ EndOf(Steps(w), Pos(w) - 1, rest[w])
<1>1. ASSUME NEW v \in Workers, test[v] # NoTest, test'[v] = test[v], rest'[v] = rest[v]
      PROVE  Good(v)'
  <2>1. Good(v) BY <1>1 DEF RestInv
  <2> QED BY <1>1, <2>1 DEF Steps, Pos
<1>2. ASSUME NEW w \in Workers, Calling(w) PROVE RestInv'
  <2>1. PICK c \in Open(w) : Call(w, c)
    BY <1>2 DEF Calling, DoStore, DoMove, DoCompare, DoQuery, GoWrong,
             LoseMove, LoseStore, LoseRead, MissQuery
  <2>2. Good(w)' BY <2>1, CallStep
  <2>3. test' = test /\ \A v \in Workers \ {w} : rest'[v] = rest[v] BY <2>1, OthersStep
  <2> HIDE DEF Good
  <2>4. ASSUME NEW v \in Workers, test'[v] # NoTest PROVE Good(v)'
    BY <1>1, <2>2, <2>3, <2>4
  <2> QED BY <2>4 DEF RestInv, Good
<1>3. ASSUME NEW w \in Workers, Begin(w) PROVE RestInv'
  <2>1. Good(w)'
    <3>1. /\ Steps(w)' \in Seq(SUBSET Calls) /\ rest'[w] = Steps(w)' /\ Pos(w)' = 1
          /\ EndOf(Steps(w)', 0, rest'[w])
      BY <1>3, BeginStep
    <3>2. 1 - 1 = 0 OBVIOUS
    <3> QED BY <3>1, <3>2
  <2>2. \A v \in Workers \ {w} : test'[v] = test[v] /\ rest'[v] = rest[v]
    BY <1>3, BeginStep
  <2> HIDE DEF Good
  <2>3. ASSUME NEW v \in Workers, test'[v] # NoTest PROVE Good(v)'
    BY <1>1, <2>1, <2>2, <2>3
  <2> QED BY <2>3 DEF RestInv, Good
<1>4. ASSUME (\E w \in Workers : Return(w)) \/ QueueTransfers \/ AwaitTransfers
               \/ UNCHANGED vars
      PROVE  RestInv'
  <2>1. rest' = rest /\ \A v \in Workers : test'[v] = test[v] \/ test'[v] = NoTest
    BY <1>4, BetweenStep
  <2> HIDE DEF Good
  <2>2. ASSUME NEW v \in Workers, test'[v] # NoTest PROVE Good(v)'
    BY <1>1, <2>1, <2>2
  <2> QED BY <2>2 DEF RestInv, Good
<1> QED BY <1>2, <1>3, <1>4, StepKinds

-----------------------------------------------------------------------------
(***************************************************************************)
(* What a comparison finds.                                                *)
(***************************************************************************)

\* Where the new contents are, and where the old ones still are.
LEMMA ReplacedAt ==
  ASSUME TypeOK, NEW to \in Places, NEW n \in Nat, NEW new, DOMAIN new = 0 .. n - 1,
         mem' = Replaced(to, new), NEW s, NEW m, InMemory(s, m), NEW i \in 0 .. m - 1
  PROVE  At(s, i)' = IF s.of = to.of /\ (s.at + i) - to.at \in 0 .. n - 1
                     THEN new[(s.at + i) - to.at] ELSE At(s, i)
<1>1. s.of \in Memories /\ to.of \in Memories /\ s.at \in Nat /\ s.at + m <= Room(s.of)
      /\ m \in Nat
  BY DEF InMemory, Places
<1>2. s.at + i \in DOMAIN mem[s.of]
  <2>1. DOMAIN mem[s.of] = 0 .. Room(s.of) - 1 /\ Room(s.of) \in Nat
    BY <1>1, RoomOf DEF TypeOK
  <2> QED BY <1>1, <2>1
<1>3. mem' = [mem EXCEPT ![to.of] = [k \in DOMAIN @ |->
                 IF k - to.at \in 0 .. n - 1 THEN new[k - to.at] ELSE @[k]]]
  BY DEF Replaced
<1>4. DOMAIN mem = Memories BY DEF TypeOK
<1>5. CASE s.of = to.of
  <2>1. mem'[s.of] = [k \in DOMAIN mem[s.of] |->
                        IF k - to.at \in 0 .. n - 1 THEN new[k - to.at] ELSE mem[s.of][k]]
    BY <1>1, <1>3, <1>4, <1>5
  <2> DEFINE x == s.at + i
  <2>2. x \in DOMAIN mem[s.of] BY <1>2
  <2> HIDE DEF x
  <2>3. mem'[s.of][x] = IF x - to.at \in 0 .. n - 1 THEN new[x - to.at] ELSE mem[s.of][x]
    BY <2>1, <2>2
  <2>4. At(s, i)' = mem'[s.of][x] /\ At(s, i) = mem[s.of][x] BY DEF At, x
  <2>5. s.at + i = x BY DEF x
  <2> QED BY <1>5, <2>3, <2>4, <2>5
<1>6. CASE s.of # to.of
  <2>1. mem'[s.of] = mem[s.of] BY <1>1, <1>3, <1>4, <1>6
  <2> QED BY <1>6, <2>1 DEF At
<1> QED BY <1>5, <1>6

\* A write that leaves s alone.
LEMMA ClearAt ==
  ASSUME TypeOK, NEW c, c.to \in Places, c.n \in Nat, NEW new, DOMAIN new = 0 .. c.n - 1,
         mem' = Replaced(c.to, new), NEW s, NEW m, InMemory(s, m), Clear(c, s, m),
         NEW i \in 0 .. m - 1
  PROVE  At(s, i)' = At(s, i)
<1>1. s.at \in Nat /\ c.to.at \in Nat /\ m \in Nat BY DEF InMemory, Places
<1>2. ~(s.of = c.to.of /\ (s.at + i) - c.to.at \in 0 .. c.n - 1)
  <2>1. CASE c.to.of # s.of BY <2>1
  <2>2. CASE c.to.at + c.n <= s.at BY <1>1, <2>2
  <2>3. CASE s.at + m <= c.to.at BY <1>1, <2>3
  <2> QED BY <2>1, <2>2, <2>3 DEF Clear
<1> QED BY <1>2, ReplacedAt

\* A write that goes there.
LEMMA WrittenAt ==
  ASSUME TypeOK, NEW c, c.to \in Places, c.n \in Nat, NEW new, DOMAIN new = 0 .. c.n - 1,
         mem' = Replaced(c.to, new), InMemory(c.to, c.n), NEW i \in 0 .. c.n - 1
  PROVE  At(c.to, i)' = new[i]
<1>1. c.to.at \in Nat /\ (c.to.at + i) - c.to.at = i BY DEF InMemory, Places
<1>2. At(c.to, i)' = IF c.to.of = c.to.of /\ (c.to.at + i) - c.to.at \in 0 .. c.n - 1
                     THEN new[(c.to.at + i) - c.to.at] ELSE At(c.to, i)
  BY ReplacedAt
<1> QED BY <1>1, <1>2

\* What the comparisons of a test rest on.
LEMMA ComparesSound ==
  ASSUME TypeOK, NEW w \in Workers, test[w] \in Tests,
         NEW q \in 1 .. Len(Steps(w)), NEW c \in Steps(w)[q]
  PROVE  /\ c.op = "expect" => test[w] = "dmem_data_integrity"
         /\ c.op = "compare" =>
              /\ InMemory(c.a, c.n) /\ InMemory(c.b, c.n)
              /\ \E j \in 1 .. q - 1 : \E d \in Steps(w)[j] : Settles(Steps(w), j, d, q, c)
<1>1. CASE test[w] = "dmem_data_integrity"
  <2>1. Steps(w) = dmem_data_integrity BY <1>1, ScriptOf DEF Steps
  <2>2. \A k \in 1 .. 4 : k = 1 \/ k = 2 \/ k = 3 \/ k = 4 OBVIOUS
  <2>3. c.op # "compare" BY <2>1, <2>2, IntegrityTest
  <2> QED BY <1>1, <2>3
<1>2. CASE test[w] # "dmem_data_integrity"
  <2>1. Sound(Steps(w)) BY <1>2, ScriptsSound DEF Steps
  <2> QED BY <2>1 DEF Sound
<1> QED BY <1>1, <1>2

\* A store or a move, as a change of the memory.
LEMMA WriteStep ==
  ASSUME TypeOK, NEW w \in Workers, DoStore(w) \/ DoMove(w)
  PROVE  \E c \in Open(w) : \E new :
           /\ Call(w, c) /\ Writes(c) /\ UNCHANGED <<ok, fault>>
           /\ DOMAIN new = 0 .. c.n - 1 /\ mem' = Replaced(c.to, new)
           /\ c.op = "move" => \A i \in 0 .. c.n - 1 : new[i] = At(c.from, i)
           /\ c.op = "store" => \A i \in 0 .. c.n - 1 : new[i] = c.data
<1>1. CASE DoStore(w)
  <2>1. PICK c \in Open(w) : /\ c.op = "store" /\ Call(w, c) /\ UNCHANGED <<ok, fault>>
                             /\ mem' = Replaced(c.to, [i \in 0 .. c.n - 1 |-> c.data])
    BY <1>1 DEF DoStore
  <2> DEFINE new == [i \in 0 .. c.n - 1 |-> c.data]
  <2>2. DOMAIN new = 0 .. c.n - 1 /\ \A i \in 0 .. c.n - 1 : new[i] = c.data OBVIOUS
  <2>3. mem' = Replaced(c.to, new) BY <2>1
  <2> HIDE DEF new
  <2>4. Writes(c) /\ c.op # "move" BY <2>1 DEF Writes
  <2> QED BY <2>1, <2>2, <2>3, <2>4
<1>2. CASE DoMove(w)
  <2>1. PICK c \in Open(w) : /\ c.op = "move" /\ Call(w, c) /\ UNCHANGED <<ok, fault>>
                             /\ mem' = Copied(c, c.n)
    BY <1>2 DEF DoMove
  <2> DEFINE new == [i \in 0 .. c.n - 1 |-> At(c.from, i)]
  <2>2. DOMAIN new = 0 .. c.n - 1 /\ \A i \in 0 .. c.n - 1 : new[i] = At(c.from, i)
    OBVIOUS
  <2>3. mem' = Replaced(c.to, new) BY <2>1 DEF Copied
  <2> HIDE DEF new
  <2>4. Writes(c) /\ c.op # "store" BY <2>1 DEF Writes
  <2> QED BY <2>1, <2>2, <2>3, <2>4
<1> QED BY <1>1, <1>2

-----------------------------------------------------------------------------
(***************************************************************************)
(* What was moved is there when it is compared.                            *)
(***************************************************************************)

\* MovedInv for one worker.
Moved(w) ==
    Sane(w) =>
        \A q \in 1 .. Len(Steps(w)) : \A c \in Steps(w)[q] :
            c.op = "compare" /\ Left(w, q, c) =>
                \A j \in 1 .. q - 1 : \A d \in Steps(w)[j] :
                    Settles(Steps(w), j, d, q, c) /\ ~Left(w, j, d) => Matches(c)

LEMMA MovedParts == MovedInv <=> \A w \in Workers : Moved(w)
BY DEF MovedInv, Moved

\* While a worker makes calls no other has any left.
LEMMA OthersIdle ==
  ASSUME TypeOK, AloneInv, NEW w \in Workers, rest[w] # << >>, NEW v \in Workers \ {w}
  PROVE  rest[v] = << >>
<1>1. test[w] # NoTest BY DEF TypeOK
<1>2. w \in Tiles \/ w = C0 BY DEF Workers
<1>3. v \in Tiles \/ v = C0 BY DEF Workers
<1>4. CASE w = C0
  <2>1. phase \in {"c0", "fallback"} BY <1>4 DEF AloneInv, TypeOK
  <2>2. test[v] = NoTest BY <1>3, <1>4, <2>1 DEF AloneInv
  <2> QED BY <2>2 DEF TypeOK
<1>5. CASE w \in Tiles /\ v \in Tiles
  <2>1. session = w BY <1>1, <1>5 DEF AloneInv
  <2>2. test[v] = NoTest BY <1>5, <2>1 DEF AloneInv
  <2> QED BY <2>2 DEF TypeOK
<1>6. CASE w \in Tiles /\ v = C0
  <2>1. phase \notin {"c0", "fallback"} BY <1>1, <1>6 DEF AloneInv
  <2>2. phase \in {"transfers", "hal"} BY <2>1 DEF TypeOK
  <2> QED BY <1>6, <2>2 DEF AloneInv
<1> QED BY <1>2, <1>3, <1>4, <1>5, <1>6

\* A worker without calls has nothing to compare.
LEMMA IdleMoved ==
  ASSUME TypeOK, RestInv, NEW v \in Workers, rest[v] = << >>, rest'[v] = << >>,
         test'[v] = test[v]
  PROVE  Moved(v)'
<1>1. ASSUME test[v] # NoTest, NEW q \in 1 .. Len(Steps(v)), NEW c PROVE ~Left(v, q, c)'
  <2>1. Steps(v) \in Seq(SUBSET Calls) BY <1>1, RestTypes
  <2>2. Steps(v)' = Steps(v) /\ Pos(v)' = Len(Steps(v)) - 0 + 1 BY DEF Steps, Pos
  <2>3. q \notin Pos(v)' .. Len(Steps(v)) BY <2>1, <2>2
  <2> QED BY <2>2, <2>3 DEF Left
<1>2. Steps(v)' = Steps(v) /\ (Sane(v)' => test[v] # NoTest) BY DEF Steps, Sane
<1> QED BY <1>1, <1>2 DEF Moved

\* Neither the memories nor the test have changed, or the test is over.
LEMMA SameMoved ==
  ASSUME NEW v \in Workers, Moved(v), UNCHANGED <<mem, fault>>, rest'[v] = rest[v],
         test'[v] = test[v] \/ test'[v] = NoTest
  PROVE  Moved(v)'
<1>1. CASE test'[v] = NoTest BY <1>1 DEF Moved, Sane
<1>2. CASE test'[v] = test[v]
  <2>1. /\ Steps(v)' = Steps(v) /\ Pos(v)' = Pos(v) /\ Sane(v)' = Sane(v)
        /\ \A c : Matches(c)' = Matches(c)
    BY <1>2 DEF Steps, Pos, Sane, Matches, At
  <2>2. \A q, c : Left(v, q, c)' = Left(v, q, c) BY <2>1 DEF Left
  <2> QED BY <2>1, <2>2 DEF Moved
<1> QED BY <1>1, <1>2

\* A store or a move of w's test.
LEMMA WriteMoved ==
  ASSUME TypeOK, RestInv, NEW w \in Workers, Moved(w), DoStore(w) \/ DoMove(w)
  PROVE  Moved(w)'
<1>1. PICK m \in Open(w) : \E new :
           /\ Call(w, m) /\ Writes(m) /\ UNCHANGED <<ok, fault>>
           /\ DOMAIN new = 0 .. m.n - 1 /\ mem' = Replaced(m.to, new)
           /\ m.op = "move" => \A i \in 0 .. m.n - 1 : new[i] = At(m.from, i)
  BY WriteStep
<1>2. PICK new :
           /\ Call(w, m) /\ Writes(m) /\ UNCHANGED <<ok, fault>>
           /\ DOMAIN new = 0 .. m.n - 1 /\ mem' = Replaced(m.to, new)
           /\ m.op = "move" => \A i \in 0 .. m.n - 1 : new[i] = At(m.from, i)
  BY <1>1
<1> DEFINE S == Steps(w)
           p == Pos(w)
<1>3. /\ test[w] # NoTest /\ Steps(w)' = S /\ S \in Seq(SUBSET Calls)
      /\ p \in 1 .. Len(S) /\ m \in S[p] /\ Left(w, p, m)
      /\ \A q \in 1 .. Len(S) : \A e :
           Left(w, q, e)' <=> (Left(w, q, e) /\ ~(q = p /\ e = m))
      /\ \A q \in 1 .. Len(S) : \A e \in S[q] :
           (q > p => Left(w, q, e)) /\ (q < p => ~Left(w, q, e))
  BY <1>2, CallStep
<1>4. test' = test /\ test[w] \in Tests BY <1>2, <1>3 DEF Call, TypeOK
<1>5. m.to \in Places /\ m.n \in Nat
  <2>1. m \in Calls BY <1>3
  <2> QED BY <1>2, <2>1, CallKinds
<1> HIDE DEF S, p
<1>6. SUFFICES ASSUME Sane(w)',
                      NEW q \in 1 .. Len(S), NEW c \in S[q], c.op = "compare",
                      Left(w, q, c)', NEW j \in 1 .. q - 1, NEW d \in S[j],
                      Settles(S, j, d, q, c), ~Left(w, j, d)'
               PROVE  Matches(c)'
  BY <1>3 DEF Moved
<1>7. Sane(w) BY <1>2, <1>4, <1>6 DEF Sane
<1>8. Len(S) \in Nat /\ j \in 1 .. Len(S) BY <1>3
<1>9. Left(w, q, c) BY <1>3, <1>6
<1>10. InMemory(c.a, c.n) /\ InMemory(c.b, c.n)
  BY <1>4, <1>6, ComparesSound DEF S
<1>11. j <= p /\ p <= q
  <2>1. ~(j > p)
    <3>1. SUFFICES ASSUME j > p PROVE FALSE OBVIOUS
    <3>2. Left(w, j, d) BY <1>3, <1>8, <3>1
    <3>3. ~(j = p) BY <1>3, <1>8, <3>1
    <3> QED BY <1>3, <1>6, <1>8, <3>2, <3>3
  <2>2. ~(q < p) BY <1>3, <1>9
  <2> QED BY <1>3, <1>8, <2>1, <2>2
<1>12. /\ d.from = c.a /\ d.to = c.b /\ d.n = c.n /\ d.op = "move" /\ Clear(d, c.a, c.n)
       /\ c.n \in Nat
       /\ (p = j /\ m = d) \/ (Clear(m, c.a, c.n) /\ Clear(m, c.b, c.n))
  <2>1. p \in j .. q BY <1>3, <1>8, <1>11
  <2> QED BY <1>2, <1>3, <1>6, <1>10, <2>1 DEF Settles, InMemory
<1>13. CASE p = j /\ m = d
  <2>1. ASSUME NEW i \in 0 .. c.n - 1 PROVE At(c.a, i)' = At(c.b, i)'
    <3>1. At(c.a, i)' = At(c.a, i)
      BY <1>2, <1>5, <1>10, <1>12, <1>13, ClearAt
    <3>2. At(m.to, i)' = new[i]
      <4>1. InMemory(m.to, m.n) /\ i \in 0 .. m.n - 1 BY <1>10, <1>12, <1>13
      <4> QED BY <1>2, <1>5, <4>1, WrittenAt
    <3>3. new[i] = At(c.a, i) BY <1>2, <1>12, <1>13
    <3>4. At(c.b, i)' = At(m.to, i)' BY <1>12, <1>13
    <3> QED BY <3>1, <3>2, <3>3, <3>4
  <2> QED BY <1>6, <2>1 DEF Matches
<1>14. CASE ~(p = j /\ m = d)
  <2>1. ~Left(w, j, d) BY <1>3, <1>6, <1>8, <1>14
  <2>2. Matches(c) BY <1>6, <1>7, <1>9, <2>1 DEF Moved, S
  <2>3. ASSUME NEW i \in 0 .. c.n - 1 PROVE At(c.a, i)' = At(c.b, i)'
    <3>1. At(c.a, i)' = At(c.a, i) BY <1>2, <1>5, <1>10, <1>12, <1>14, ClearAt
    <3>2. At(c.b, i)' = At(c.b, i) BY <1>2, <1>5, <1>10, <1>12, <1>14, ClearAt
    <3>3. At(c.a, i) = At(c.b, i) BY <1>6, <2>2 DEF Matches
    <3> QED BY <3>1, <3>2, <3>3
  <2> QED BY <1>6, <2>3 DEF Matches
<1> QED BY <1>13, <1>14

\* A comparison or a refused call of w's test.
LEMMA ReadMoved ==
  ASSUME TypeOK, RestInv, NEW w \in Workers, Moved(w), DoCompare(w) \/ DoQuery(w)
  PROVE  Moved(w)'
<1>1. PICK m \in Open(w) : Call(w, m) /\ m.op # "move" /\ UNCHANGED <<mem, fault>>
  BY DEF DoCompare, DoQuery
<1> DEFINE S == Steps(w)
           p == Pos(w)
<1>2. /\ Steps(w)' = S /\ S \in Seq(SUBSET Calls)
      /\ \A q \in 1 .. Len(S) : \A e :
           Left(w, q, e)' <=> (Left(w, q, e) /\ ~(q = p /\ e = m))
  BY <1>1, CallStep
<1>3. test' = test BY <1>1 DEF Call
<1> HIDE DEF S, p
<1>4. SUFFICES ASSUME Sane(w)',
                      NEW q \in 1 .. Len(S), NEW c \in S[q], c.op = "compare",
                      Left(w, q, c)', NEW j \in 1 .. q - 1, NEW d \in S[j],
                      Settles(S, j, d, q, c), ~Left(w, j, d)'
               PROVE  Matches(c)'
  BY <1>2 DEF Moved
<1>5. Sane(w) BY <1>1, <1>3, <1>4 DEF Sane
<1>6. j \in 1 .. Len(S) BY <1>2
<1>7. Left(w, q, c) /\ ~Left(w, j, d)
  <2>1. d # m BY <1>1, <1>4 DEF Settles
  <2> QED BY <1>2, <1>4, <1>6, <2>1
<1>8. Matches(c) BY <1>4, <1>5, <1>7 DEF Moved, S
<1>9. Matches(c)' = Matches(c) BY <1>1 DEF Matches, At
<1> QED BY <1>8, <1>9

\* The test that meets the fault.
LEMMA FaultyStep ==
  ASSUME NEW w \in Workers, GoWrong(w)
  PROVE  /\ fault = NoFault /\ fault'.test = test[w] /\ test' = test
         /\ ~Sane(w)'
<1>1. test' = test BY DEF GoWrong,
             LoseMove, LoseStore, LoseRead, MissQuery, Call
<1>2. fault = NoFault /\ fault'.test = test[w]
  <2>1. \E kind : Fail(w, kind) BY DEF GoWrong,
             LoseMove, LoseStore, LoseRead, MissQuery
  <2> QED BY <2>1 DEF Fail
<1> QED BY <1>1, <1>2 DEF Sane

LEMMA MovedStep ==
  ASSUME TypeOK, AloneInv, RestInv, MovedInv, [Next]_vars PROVE MovedInv'
<1>1. \A w \in Workers : Moved(w) BY MovedParts
<1>2. ASSUME NEW w \in Workers, Calling(w) PROVE \A v \in Workers : Moved(v)'
  <2>1. rest[w] # << >> /\ test' = test /\ \A v \in Workers \ {w} : rest'[v] = rest[v]
    BY <1>2, CallingTypes
  <2>2. ASSUME NEW v \in Workers \ {w} PROVE Moved(v)'
    <3>1. rest[v] = << >> BY <2>1, OthersIdle
    <3> QED BY <2>1, <3>1, IdleMoved
  <2>3. Moved(w)'
    <3>1. CASE DoStore(w) \/ DoMove(w) BY <1>1, <3>1, WriteMoved
    <3>2. CASE DoCompare(w) \/ DoQuery(w) BY <1>1, <3>2, ReadMoved
    <3>3. CASE GoWrong(w) BY <3>3, FaultyStep DEF Moved
    <3> QED BY <1>2, <3>1, <3>2, <3>3 DEF Calling
  <2> QED BY <2>2, <2>3
<1>3. ASSUME NEW w \in Workers, Begin(w) PROVE \A v \in Workers : Moved(v)'
  <2>1. /\ Steps(w)' \in Seq(SUBSET Calls) /\ UNCHANGED <<mem, fault>>
        /\ \A q \in 1 .. Len(Steps(w)') : \A e \in Steps(w)'[q] : Left(w, q, e)'
        /\ \A v \in Workers \ {w} : test'[v] = test[v] /\ rest'[v] = rest[v]
    BY <1>3, BeginStep
  <2>2. ASSUME NEW v \in Workers \ {w} PROVE Moved(v)' BY <1>1, <2>1, SameMoved
  <2>3. Moved(w)'
    <3>1. \A q \in 1 .. Len(Steps(w)') : \A j \in 1 .. q - 1 :
              \A d \in Steps(w)'[j] : Left(w, j, d)'
      <4>1. Len(Steps(w)') \in Nat BY <2>1
      <4> QED BY <2>1, <4>1
    <3> QED BY <3>1 DEF Moved
  <2> QED BY <2>2, <2>3
<1>4. ASSUME (\E w \in Workers : Return(w)) \/ QueueTransfers \/ AwaitTransfers
               \/ UNCHANGED vars
      PROVE  \A v \in Workers : Moved(v)'
  <2>1. UNCHANGED <<mem, rest, fault>>
        /\ \A v \in Workers : test'[v] = test[v] \/ test'[v] = NoTest
    BY <1>4, BetweenStep
  <2> QED BY <1>1, <2>1, SameMoved
<1>5. \A v \in Workers : Moved(v)' BY <1>2, <1>3, <1>4, StepKinds
<1> QED BY <1>5 DEF MovedInv, Moved

\* IntegrityInv for one worker.
Intact(w) ==
    Sane(w) /\ test[w] = "dmem_data_integrity" =>
        /\ Pos(w) \in {2, 3} => \A i \in 0 .. 3 : At(Dmem(0, 0), i) = Ramp(0)
        /\ Pos(w) = 4 => \A i \in 0 .. 3 : At(Dmem(1, 0), i) = Ramp(0)

LEMMA IntegrityParts == IntegrityInv <=> \A w \in Workers : Intact(w)
BY DEF IntegrityInv, Intact

LEMMA SameIntact ==
  ASSUME NEW v \in Workers, Intact(v), UNCHANGED <<mem, fault>>, rest'[v] = rest[v],
         test'[v] = test[v] \/ test'[v] = NoTest
  PROVE  Intact(v)'
<1>1. CASE test'[v] = NoTest BY <1>1 DEF Intact, Sane
<1>2. CASE test'[v] = test[v]
  BY <1>2 DEF Steps, Pos, Sane, Intact, At
<1> QED BY <1>1, <1>2

LEMMA IdleIntact ==
  ASSUME NEW v \in Workers, rest'[v] = << >> PROVE Intact(v)'
<1>1. SUFFICES ASSUME test'[v] = "dmem_data_integrity" PROVE Pos(v)' = 5
  BY DEF Intact
<1>2. Steps(v)' = dmem_data_integrity BY <1>1, ScriptOf DEF Steps
<1>3. Len(Steps(v)') = 4 /\ Len(rest'[v]) = 0 BY <1>2, IntegrityTest
<1>4. 4 - 0 + 1 = 5 OBVIOUS
<1> QED BY <1>3, <1>4 DEF Pos

\* A call of test_dmem_data_integrity.
LEMMA IntegrityCall ==
  ASSUME TypeOK, RestInv, NEW w \in Workers, test[w] = "dmem_data_integrity",
         NEW m \in Open(w), Call(w, m)
  PROVE  /\ Pos(w) \in 1 .. 4 /\ Pos(w)' = Pos(w) + 1
         /\ Pos(w) = 1 => /\ m.op = "store" /\ m.to = Dmem(0, 0) /\ m.n = 4
                          /\ m.data = Ramp(0)
         /\ Pos(w) = 2 => m.op = "store" /\ m.to = Dmem(1, 0) /\ m.n = 4
         /\ Pos(w) = 3 => /\ m.op = "move" /\ m.n = 4
                          /\ m.from = Dmem(0, 0) /\ m.to = Dmem(1, 0)
         /\ Pos(w) = 4 => /\ m.op = "expect" /\ m.n = 4
                          /\ m.a = Dmem(1, 0) /\ m.data = Ramp(0)
<1>1. Steps(w) = dmem_data_integrity BY ScriptOf DEF Steps
<1>2. /\ Pos(w) \in 1 .. Len(Steps(w)) /\ m \in Steps(w)[Pos(w)]
      /\ Steps(w)[Pos(w)] = {m} => Pos(w)' = Pos(w) + 1
  BY CallStep
<1>3. Pos(w) \in 1 .. 4 BY <1>1, <1>2, IntegrityTest
<1>4. Pos(w) = 1 \/ Pos(w) = 2 \/ Pos(w) = 3 \/ Pos(w) = 4 BY <1>3
<1>5. CASE Pos(w) = 1 BY <1>1, <1>2, <1>3, <1>5, IntegrityTest
<1>6. CASE Pos(w) = 2 BY <1>1, <1>2, <1>3, <1>6, IntegrityTest
<1>7. CASE Pos(w) = 3 BY <1>1, <1>2, <1>3, <1>7, IntegrityTest
<1>8. CASE Pos(w) = 4 BY <1>1, <1>2, <1>3, <1>8, IntegrityTest
<1> QED BY <1>4, <1>5, <1>6, <1>7, <1>8

LEMMA WriteIntact ==
  ASSUME TypeOK, RestInv, NEW w \in Workers, Intact(w), DoStore(w) \/ DoMove(w)
  PROVE  Intact(w)'
<1>1. PICK m \in Open(w) : \E new :
           /\ Call(w, m) /\ Writes(m) /\ UNCHANGED <<ok, fault>>
           /\ DOMAIN new = 0 .. m.n - 1 /\ mem' = Replaced(m.to, new)
           /\ m.op = "move" => \A i \in 0 .. m.n - 1 : new[i] = At(m.from, i)
           /\ m.op = "store" => \A i \in 0 .. m.n - 1 : new[i] = m.data
  BY WriteStep
<1>2. PICK new :
           /\ Call(w, m) /\ Writes(m) /\ UNCHANGED <<ok, fault>>
           /\ DOMAIN new = 0 .. m.n - 1 /\ mem' = Replaced(m.to, new)
           /\ m.op = "move" => \A i \in 0 .. m.n - 1 : new[i] = At(m.from, i)
           /\ m.op = "store" => \A i \in 0 .. m.n - 1 : new[i] = m.data
  BY <1>1
<1>3. test' = test BY <1>2 DEF Call
<1>4. SUFFICES ASSUME Sane(w)', test[w] = "dmem_data_integrity"
               PROVE  /\ Pos(w)' \in {2, 3} => \A i \in 0 .. 3 : At(Dmem(0, 0), i)' = Ramp(0)
                      /\ Pos(w)' = 4 => \A i \in 0 .. 3 : At(Dmem(1, 0), i)' = Ramp(0)
  <2>1. Ramp(0)' = Ramp(0) /\ Dmem(0, 0)' = Dmem(0, 0) /\ Dmem(1, 0)' = Dmem(1, 0)
    OBVIOUS
  <2> QED BY <1>3, <2>1 DEF Intact
<1>5. /\ Pos(w) \in 1 .. 4 /\ Pos(w)' = Pos(w) + 1
      /\ Pos(w) = 1 => /\ m.op = "store" /\ m.to = Dmem(0, 0) /\ m.n = 4
                       /\ m.data = Ramp(0)
      /\ Pos(w) = 2 => m.op = "store" /\ m.to = Dmem(1, 0) /\ m.n = 4
      /\ Pos(w) = 3 => /\ m.op = "move" /\ m.n = 4
                       /\ m.from = Dmem(0, 0) /\ m.to = Dmem(1, 0)
      /\ Pos(w) = 4 => m.op = "expect"
  BY <1>2, <1>4, IntegrityCall
<1>6. /\ Dmem(0, 0) \in Places /\ Dmem(1, 0) \in Places
      /\ InMemory(Dmem(0, 0), 4) /\ InMemory(Dmem(1, 0), 4)
      /\ Dmem(0, 0).of # Dmem(1, 0).of
  <2>1. /\ 0 \in 0 .. 7 /\ 1 \in 0 .. 7 /\ 4 \in 1 .. 17
        /\ <<"dmem", 0>> # <<"dmem", 1>>
    OBVIOUS
  <2> QED BY <2>1, FirstSlices
<1>7. Sane(w) BY <1>2, <1>3, <1>4 DEF Sane
<1>8. \A i \in 0 .. 3 : i \in 0 .. 4 - 1 OBVIOUS
<1>9. 4 \in Nat OBVIOUS
<1>10. CASE Pos(w) = 1
  <2>1. ASSUME NEW i \in 0 .. 3 PROVE At(Dmem(0, 0), i)' = Ramp(0)
    <3>1. At(m.to, i)' = new[i] BY <1>2, <1>5, <1>6, <1>8, <1>9, <1>10, WrittenAt
    <3>2. At(m.to, i)' = At(Dmem(0, 0), i)' BY <1>5, <1>10
    <3> QED BY <1>2, <1>5, <1>8, <1>10, <3>1, <3>2
  <2>2. Pos(w)' = 2 BY <1>5, <1>10
  <2> QED BY <2>1, <2>2
<1>11. CASE Pos(w) = 2
  <2>1. Clear(m, Dmem(0, 0), 4) BY <1>5, <1>6, <1>11 DEF Clear
  <2>2. ASSUME NEW i \in 0 .. 3 PROVE At(Dmem(0, 0), i)' = Ramp(0)
    <3>1. At(Dmem(0, 0), i)' = At(Dmem(0, 0), i)
      BY <1>2, <1>5, <1>6, <1>8, <1>9, <1>11, <2>1, ClearAt
    <3> QED BY <1>4, <1>7, <1>11, <3>1 DEF Intact
  <2>3. Pos(w)' = 3 BY <1>5, <1>11
  <2> QED BY <2>2, <2>3
<1>12. CASE Pos(w) = 3
  <2>1. ASSUME NEW i \in 0 .. 3 PROVE At(Dmem(1, 0), i)' = Ramp(0)
    <3>1. At(m.to, i)' = new[i] BY <1>2, <1>5, <1>6, <1>8, <1>9, <1>12, WrittenAt
    <3>2. At(m.to, i)' = At(Dmem(1, 0), i)' BY <1>5, <1>12
    <3>3. new[i] = At(Dmem(0, 0), i) BY <1>2, <1>5, <1>8, <1>12
    <3>4. At(Dmem(0, 0), i) = Ramp(0) BY <1>4, <1>7, <1>12 DEF Intact
    <3> QED BY <3>1, <3>2, <3>3, <3>4
  <2>2. Pos(w)' = 4 BY <1>5, <1>12
  <2> QED BY <2>1, <2>2
<1>13. Pos(w) # 4 BY <1>2, <1>5 DEF Writes
<1>14. Pos(w) = 1 \/ Pos(w) = 2 \/ Pos(w) = 3 \/ Pos(w) = 4 BY <1>5
<1> QED BY <1>10, <1>11, <1>12, <1>13, <1>14

LEMMA ReadIntact ==
  ASSUME TypeOK, RestInv, NEW w \in Workers, DoCompare(w) \/ DoQuery(w)
  PROVE  Intact(w)'
<1>1. PICK m \in Open(w) : Call(w, m) /\ m.op \notin {"store", "move"}
  BY DEF DoCompare, DoQuery
<1>2. test' = test BY <1>1 DEF Call
<1>3. SUFFICES ASSUME test[w] = "dmem_data_integrity" PROVE Pos(w)' = 5
  BY <1>2 DEF Intact
<1>4. Pos(w) \in 1 .. 4 /\ Pos(w)' = Pos(w) + 1 /\ Pos(w) \notin {1, 2, 3}
  BY <1>1, <1>3, IntegrityCall
<1> QED BY <1>4

LEMMA IntegrityStep ==
  ASSUME TypeOK, AloneInv, RestInv, IntegrityInv, [Next]_vars PROVE IntegrityInv'
<1>1. \A w \in Workers : Intact(w) BY IntegrityParts
<1>2. ASSUME NEW w \in Workers, Calling(w) PROVE \A v \in Workers : Intact(v)'
  <2>1. rest[w] # << >> /\ \A v \in Workers \ {w} : rest'[v] = rest[v]
    BY <1>2, CallingTypes
  <2>2. ASSUME NEW v \in Workers \ {w} PROVE Intact(v)'
    <3>1. rest[v] = << >> BY <2>1, OthersIdle
    <3> QED BY <2>1, <3>1, IdleIntact
  <2>3. Intact(w)'
    <3>1. CASE DoStore(w) \/ DoMove(w) BY <1>1, <3>1, WriteIntact
    <3>2. CASE DoCompare(w) \/ DoQuery(w) BY <3>2, ReadIntact
    <3>3. CASE GoWrong(w) BY <3>3, FaultyStep DEF Intact
    <3> QED BY <1>2, <3>1, <3>2, <3>3 DEF Calling
  <2> QED BY <2>2, <2>3
<1>3. ASSUME NEW w \in Workers, Begin(w) PROVE \A v \in Workers : Intact(v)'
  <2>1. /\ Pos(w)' = 1 /\ UNCHANGED <<mem, fault>>
        /\ \A v \in Workers \ {w} : test'[v] = test[v] /\ rest'[v] = rest[v]
    BY <1>3, BeginStep
  <2>2. ASSUME NEW v \in Workers \ {w} PROVE Intact(v)' BY <1>1, <2>1, SameIntact
  <2>3. Intact(w)' BY <2>1 DEF Intact
  <2> QED BY <2>2, <2>3
<1>4. ASSUME (\E w \in Workers : Return(w)) \/ QueueTransfers \/ AwaitTransfers
               \/ UNCHANGED vars
      PROVE  \A v \in Workers : Intact(v)'
  <2>1. UNCHANGED <<mem, rest, fault>>
        /\ \A v \in Workers : test'[v] = test[v] \/ test'[v] = NoTest
    BY <1>4, BetweenStep
  <2> QED BY <1>1, <2>1, SameIntact
<1>5. \A v \in Workers : Intact(v)' BY <1>2, <1>3, <1>4, StepKinds
<1> QED BY <1>5 DEF IntegrityInv, Intact

-----------------------------------------------------------------------------
(***************************************************************************)
(* A test fails for a fault of its own.                                    *)
(***************************************************************************)

\* A comparison of a test that has not met the fault finds no difference.
LEMMA CompareMatches ==
  ASSUME TypeOK, RestInv, MovedInv, IntegrityInv, NEW w \in Workers, Sane(w),
         NEW c \in Open(w), Call(w, c), c.op \in {"compare", "expect"}
  PROVE  Matches(c)
<1> DEFINE S == Steps(w)
           p == Pos(w)
<1>1. /\ S \in Seq(SUBSET Calls) /\ p \in 1 .. Len(S) /\ c \in S[p] /\ Left(w, p, c)
      /\ \A q \in 1 .. Len(S) : \A e \in S[q] : q < p => ~Left(w, q, e)
  BY CallStep
<1>2. test[w] \in Tests BY DEF Sane, TypeOK
<1>3. CASE c.op = "compare"
  <2>1. \E j \in 1 .. p - 1 : \E d \in S[j] : Settles(S, j, d, p, c)
    BY <1>1, <1>2, <1>3, ComparesSound
  <2> HIDE DEF S, p
  <2>2. PICK j \in 1 .. p - 1 : \E d \in S[j] : Settles(S, j, d, p, c) BY <2>1
  <2>3. PICK d \in S[j] : Settles(S, j, d, p, c) BY <2>2
  <2>4. j \in 1 .. Len(S) /\ j < p BY <1>1
  <2>5. ~Left(w, j, d) BY <1>1, <2>4
  <2> QED BY <1>1, <1>3, <2>3, <2>5 DEF MovedInv, S
<1>4. CASE c.op = "expect"
  <2>1. test[w] = "dmem_data_integrity" BY <1>1, <1>2, <1>4, ComparesSound
  <2>2. /\ Pos(w) \in 1 .. 4
        /\ Pos(w) \in {1, 2} => c.op = "store"
        /\ Pos(w) = 3 => c.op = "move"
        /\ Pos(w) = 4 => c.n = 4 /\ c.a = Dmem(1, 0) /\ c.data = Ramp(0)
    BY <2>1, IntegrityCall
  <2>3. Pos(w) = 4 BY <1>4, <2>2
  <2>4. \A i \in 0 .. 3 : At(Dmem(1, 0), i) = Ramp(0)
    BY <2>1, <2>3 DEF IntegrityInv
  <2>5. 4 - 1 = 3 OBVIOUS
  <2> QED BY <1>4, <2>2, <2>3, <2>4, <2>5 DEF Matches
<1> QED BY <1>3, <1>4

\* What a verdict is based on.
LEMMA VerdictParts ==
  /\ \A b : Verdict(b) = "fail" => ~b
  /\ NoFault.test = NoTest /\ NoTest \notin Transfers
  /\ Transfers \subseteq Tests /\ "parallel_c0_access" \notin Transfers
BY DEF Verdict, NoFault, NoTest, Transfers, Tests

LEMMA VerdictStep ==
  ASSUME TypeOK, AloneInv, RestInv, MovedInv, IntegrityInv, VerdictInv, LateInv,
         [Next]_vars
  PROVE  VerdictInv'
<1>1. ASSUME NEW w \in Workers, Calling(w) PROVE VerdictInv'
  <2>1. /\ test[w] \in Tests /\ UNCHANGED <<timedOut, test, result>>
        /\ \A v \in Workers \ {w} : ok'[v] = ok[v]
        /\ fault' = fault \/ (fault = NoFault /\ fault'.test = test[w])
    BY <1>1, CallingTypes
  <2>2. ASSUME NEW v \in Workers, Sane(v)' PROVE Sane(v)
    BY <2>1, <2>2, VerdictParts DEF Sane
  <2>3. ASSUME Sane(w)' PROVE ok'[w]
    <3>1. Sane(w) /\ ok[w] BY <2>2, <2>3 DEF VerdictInv
    <3>2. CASE DoStore(w) \/ DoMove(w) \/ DoQuery(w)
      <4>1. ok' = ok BY <3>2 DEF DoStore, DoMove, DoQuery
      <4> QED BY <3>1, <4>1
    <3>3. CASE DoCompare(w)
      <4>1. PICK c \in Open(w) : /\ c.op \in {"compare", "expect"} /\ Call(w, c)
                                 /\ Passes(w, Matches(c))
        BY <3>3 DEF DoCompare
      <4>2. Matches(c) BY <3>1, <4>1, CompareMatches
      <4>3. ok' = [ok EXCEPT ![w] = @ /\ Matches(c)] /\ ok \in [Workers -> BOOLEAN]
        BY <4>1 DEF Passes, TypeOK
      <4>4. ok'[w] = (ok[w] /\ Matches(c)) BY <4>3
      <4> QED BY <3>1, <4>2, <4>4
    <3>4. CASE GoWrong(w) BY <2>3, <3>4, FaultyStep
    <3> QED BY <1>1, <3>2, <3>3, <3>4 DEF Calling
  <2>4. \A v \in Workers : Sane(v)' => ok'[v] BY <2>1, <2>2, <2>3 DEF VerdictInv
  <2>5. NoFalseAlarm'
    <3>1. SUFFICES ASSUME NEW x \in Tests, result[x] = "fail"
                   PROVE  \/ fault'.test = x
                          \/ /\ x = "parallel_c0_access"
                             /\ timedOut \/ fault'.test \in Transfers
                          \/ x \in Refilled /\ timedOut /\ fault'.test \in Transfers
      BY <2>1 DEF NoFalseAlarm
    <3>2. \/ fault.test = x
          \/ x = "parallel_c0_access" /\ (timedOut \/ fault.test \in Transfers)
          \/ x \in Refilled /\ timedOut /\ fault.test \in Transfers
      BY <3>1 DEF VerdictInv, NoFalseAlarm
    <3>3. CASE fault' = fault BY <3>2, <3>3
    <3>4. CASE fault = NoFault BY <3>2, <3>4, VerdictParts, NoTestIsNone
    <3> QED BY <2>1, <3>3, <3>4
  <2> QED BY <2>4, <2>5 DEF VerdictInv
<1>2. ASSUME NEW w \in Workers, Begin(w) PROVE VerdictInv'
  <2>1. /\ ok'[w] = TRUE /\ UNCHANGED <<fault, result, timedOut>>
        /\ \A v \in Workers \ {w} : test'[v] = test[v] /\ ok'[v] = ok[v]
    BY <1>2, BeginStep
  <2>2. \A v \in Workers : Sane(v)' => ok'[v] BY <2>1 DEF Sane, VerdictInv
  <2>3. NoFalseAlarm' BY <2>1 DEF VerdictInv, NoFalseAlarm
  <2> QED BY <2>2, <2>3 DEF VerdictInv
<1>3. ASSUME (\E w \in Workers : Return(w)) \/ QueueTransfers \/ AwaitTransfers
               \/ UNCHANGED vars
      PROVE  \A v \in Workers : Sane(v)' => ok'[v]
  <2>1. UNCHANGED <<ok, fault>>
        /\ \A v \in Workers : test'[v] = test[v] \/ test'[v] = NoTest
    BY <1>3, BetweenStep
  <2> QED BY <2>1 DEF Sane, VerdictInv
<1>4. ASSUME NEW w \in Workers, Return(w) PROVE NoFalseAlarm'
  <2>1. /\ test[w] # NoTest /\ UNCHANGED <<fault, timedOut>>
        /\ \/ result' = result
           \/ \E x \in Tests : result' = [result EXCEPT ![x] = Verdict(ok[w])]
    BY <1>4, ReturnStores DEF Return, Leave, runVars
  <2>2. DOMAIN result = Tests BY DEF TypeOK
  <2>3. ASSUME NEW x \in Tests, result'[x] = "fail", result'[x] # result[x]
        PROVE  fault.test = test[w] /\ result' = [result EXCEPT ![x] = Verdict(ok[w])]
    <3>1. PICK y \in Tests : result' = [result EXCEPT ![y] = Verdict(ok[w])] BY <2>1, <2>3
    <3>2. y = x BY <2>2, <2>3, <3>1
    <3>3. result'[x] = Verdict(ok[w]) BY <2>2, <3>1, <3>2
    <3>4. ~ok[w] BY <2>3, <3>3, VerdictParts
    <3> QED BY <2>1, <3>1, <3>2, <3>4 DEF VerdictInv, Sane
  <2>4. ASSUME NEW x \in Tests, result'[x] = "fail", result'[x] # result[x]
        PROVE  \/ fault.test = x
               \/ x \in Refilled /\ timedOut /\ fault.test \in Transfers
    <3>1. fault.test = test[w] BY <2>3, <2>4
    <3>2. CASE result' = [result EXCEPT ![test[w]] = Verdict(ok[w])]
      <4>1. x = test[w] BY <2>2, <2>4, <3>2
      <4> QED BY <3>1, <4>1
    <3>3. CASE /\ phase = "hal" /\ test[w] \in Transfers
               /\ \E y \in Refilled : result' = [result EXCEPT ![y] = Verdict(ok[w])]
      <4>1. PICK y \in Refilled : result' = [result EXCEPT ![y] = Verdict(ok[w])]
        BY <3>3
      <4>2. x = y BY <2>2, <2>4, <4>1
      <4>3. w # C0 BY <2>1, <3>3 DEF AloneInv
      <4>4. timedOut BY <3>3, <4>3 DEF LateInv, Workers
      <4> QED BY <3>1, <3>3, <4>1, <4>2, <4>4
    <3> QED BY <1>4, <2>4, <3>2, <3>3, ReturnStores
  <2>5. SUFFICES ASSUME NEW x \in Tests, result'[x] = "fail"
                 PROVE  \/ fault.test = x
                        \/ /\ x = "parallel_c0_access"
                           /\ timedOut \/ fault.test \in Transfers
                        \/ x \in Refilled /\ timedOut /\ fault.test \in Transfers
    BY <2>1 DEF NoFalseAlarm
  <2>6. CASE result'[x] = result[x] BY <2>5, <2>6 DEF VerdictInv, NoFalseAlarm
  <2>7. CASE result'[x] # result[x] BY <2>4, <2>5, <2>7
  <2> QED BY <2>6, <2>7
<1>5. ASSUME QueueTransfers PROVE NoFalseAlarm'
  BY <1>5 DEF QueueTransfers, VerdictInv, NoFalseAlarm
<1>6. ASSUME AwaitTransfers PROVE NoFalseAlarm'
  <2>1. /\ timedOut' = ~Answered /\ fault' = fault
        /\ result' = [result EXCEPT !["parallel_c0_access"] =
              Verdict(\A x \in Transfers : result[x] = "pass")]
    BY <1>6 DEF AwaitTransfers
  <2>2. result \in [Tests -> {"none", "pass", "fail"}] BY DEF TypeOK
  <2>3. \A x \in Tests \ {"parallel_c0_access"} : result'[x] = result[x] BY <2>1, <2>2
  <2>4. ASSUME result'["parallel_c0_access"] = "fail"
        PROVE  timedOut' \/ fault'.test \in Transfers
    <3>1. ~\A x \in Transfers : result[x] = "pass"
      BY <2>1, <2>2, <2>4, NoTestIsNone, VerdictParts
    <3>2. PICK x \in Transfers : result[x] # "pass" BY <3>1
    <3>3. x \in Tests /\ x # "parallel_c0_access" BY VerdictParts
    <3>4. CASE result[x] = "none" BY <2>1, <3>4 DEF Answered
    <3>5. CASE result[x] = "fail"
      <4>1. fault.test \in Transfers BY <3>3, <3>5 DEF VerdictInv, NoFalseAlarm
      <4> QED BY <2>1, <4>1
    <3> QED BY <2>2, <3>2, <3>3, <3>4, <3>5
  <2>6. ~timedOut BY <1>6 DEF AwaitTransfers, LateInv
  <2>5. ASSUME NEW x \in Tests, result'[x] = "fail"
        PROVE  \/ fault'.test = x
               \/ x = "parallel_c0_access" /\ (timedOut' \/ fault'.test \in Transfers)
    <3>1. CASE x = "parallel_c0_access" BY <2>4, <2>5, <3>1
    <3>2. CASE x # "parallel_c0_access"
      BY <2>1, <2>3, <2>5, <2>6, <3>2 DEF VerdictInv, NoFalseAlarm
    <3> QED BY <3>1, <3>2
  <2> QED BY <2>5 DEF NoFalseAlarm
<1>7. ASSUME UNCHANGED vars PROVE NoFalseAlarm'
  BY <1>7 DEF vars, VerdictInv, NoFalseAlarm
<1> QED BY <1>1, <1>2, <1>3, <1>4, <1>5, <1>6, <1>7, StepKinds DEF VerdictInv

LEMMA AllInit == Init => TestsInv
<1> SUFFICES ASSUME Init PROVE TestsInv OBVIOUS
<1>1. TypeOK /\ AloneInv BY TestsInit
<1>2. \A w \in Workers : test[w] = NoTest BY DEF Init
<1>3. RestInv BY <1>2 DEF RestInv
<1>4. MovedInv BY <1>2 DEF MovedInv, Sane
<1>5. IntegrityInv BY <1>2 DEF IntegrityInv, Sane
<1>6. \A x \in Tests : result[x] # "fail" BY DEF Init
<1>7. VerdictInv BY <1>2, <1>6 DEF VerdictInv, Sane, NoFalseAlarm
<1> QED BY <1>1, <1>3, <1>4, <1>5, <1>7 DEF TestsInv

LEMMA AllStep == TestsInv /\ LateInv /\ [Next]_vars => TestsInv'
<1> SUFFICES ASSUME TestsInv, LateInv, [Next]_vars PROVE TestsInv' OBVIOUS
<1>1. TypeOK /\ RestInv /\ AloneInv /\ MovedInv /\ IntegrityInv /\ VerdictInv
  BY DEF TestsInv
<1>2. TypeOK' /\ AloneInv' BY <1>1, TestsStep
<1>3. RestInv' BY <1>1, RestStep
<1>4. MovedInv' BY <1>1, MovedStep
<1>5. IntegrityInv' BY <1>1, IntegrityStep
<1>6. VerdictInv' BY <1>1, VerdictStep
<1> QED BY <1>2, <1>3, <1>4, <1>5, <1>6 DEF TestsInv
=============================================================================
