------------------------- MODULE TileDispatchProofs -------------------------
(***************************************************************************)
(* Theorems about TileDispatch, for every number of tiles, tests, slots    *)
(* and wait cycles.                                                        *)
(***************************************************************************)
EXTENDS TileDispatchInv, FiniteSetTheorems, TLAPS

\* The index sets: naturals, starting where Init and the loops start.
LEMMA IndexSets ==
  /\ Tiles \subseteq Nat \ {0} /\ 1 \in Tiles /\ IsFiniteSet(HalTests)
  /\ Slots \subseteq Nat /\ 0 \in Slots /\ NoSlot \notin Slots
  /\ Tests \subseteq Nat \ {0} /\ NoTest \notin Tests
  /\ HalTests \subseteq Tests /\ ParTests \subseteq Tests
  /\ HalTests \cap ParTests = {} /\ Tests = HalTests \cup ParTests
  /\ 1 \in HalTests /\ (ParTests # {} => NTests + 1 \in ParTests)
  /\ Free \notin Tiles
<1> IsFiniteSet(HalTests) BY ConstantsAssumption, FS_Interval DEF HalTests
<1> QED BY ConstantsAssumption DEF Tiles, Slots, Tests, HalTests, ParTests, NoSlot, NoTest, Free

LEMMA Indexes ==
  /\ \A n \in Nat : n < Cap <=> n \in Slots
  /\ \A n \in Nat : n >= 1 /\ n < NodeCount <=> n \in Tiles
  /\ \A k \in Tests : k + 1 \in Nat
  /\ \A s \in Slots, n \in Nat : s < n => s < n + 1
  /\ \A k \in ParTests, j \in Tests : k < j => j \in ParTests
  BY ConstantsAssumption DEF Tiles, Slots, Tests, HalTests, ParTests

\* What is stored in a slot is a task.
LEMMA TaskRecords ==
  /\ ZeroTask \in Task
  /\ \A r \in Task :
       /\ [r EXCEPT !.completed = TRUE] \in Task
       /\ [r EXCEPT !.taken = TRUE, !.assigned = Invalid] \in Task
       /\ \A t \in Tiles : [r EXCEPT !.assigned = t] \in Task
       /\ r.test \in Tests \cup {NoTest}
  /\ \A k \in Tests, n \in Nat :
       [id |-> n, assigned |-> Unassigned, completed |-> FALSE,
        taken |-> FALSE, kind |-> "HAL_TEST", test |-> k] \in Task
  BY DEF Task, ZeroTask

LEMMA TypeInvInit == Init => TypeInv
<1> SUFFICES ASSUME Init PROVE TypeInv OBVIOUS
<1> USE DEF Init
<1>1. TypeOK
  <2>1. slots \in [Slots -> Task] /\ count \in 0 .. Cap
    <3>1. slots = [s \in Slots |-> ZeroTask] /\ count = 0 OBVIOUS
    <3>2. ZeroTask \in Task BY TaskRecords
    <3>3. 0 \in 0 .. Cap BY ConstantsAssumption
    <3> QED BY <3>1, <3>2, <3>3
  <2>2. /\ tpc \in [Tiles -> TileStates] /\ task \in [Tiles -> Slots \cup {NoSlot}]
        /\ func \in [Tiles -> Tests \cup {NoTest}]
        /\ running \in [Tiles -> BOOLEAN] /\ initialized \in [Tiles -> BOOLEAN]
        /\ tasksCompleted \in [Tiles -> Nat]
    BY DEF TileStates
  <2>3. /\ ptr \in [Tests -> Slots \cup {NoSlot}]
        /\ result \in [Tests -> {0, 1}] /\ execs \in [Tests -> Nat]
    OBVIOUS
  <2>4. /\ mpc \in C0States /\ mi \in Nat /\ nextTile \in Tiles
        /\ nextId \in Nat \ {0} /\ waitCycles \in Nat /\ startFailed \in BOOLEAN
        /\ active \in Int /\ completed \in Nat /\ plicEnabled \in BOOLEAN
    <3>1. mpc \in C0States BY DEF C0States
    <3>2. nextTile \in Tiles BY IndexSets
    <3>3. mi = 1 /\ nextId = 1 /\ waitCycles = 0 /\ active = 0 /\ completed = 0
      OBVIOUS
    <3>4. startFailed = FALSE /\ plicEnabled = FALSE OBVIOUS
    <3>5. startFailed \in BOOLEAN /\ plicEnabled \in BOOLEAN BY <3>4, Zenon
    <3>6. /\ mi \in Nat /\ nextId \in Nat \ {0} /\ waitCycles \in Nat
          /\ active \in Int /\ completed \in Nat
      BY <3>3
    <3> QED BY <3>1, <3>2, <3>5, <3>6, Zenon
  <2>5. /\ session \in Tiles \cup {Free} /\ pending \subseteq Tiles
        /\ stored \subseteq Tests /\ finished \subseteq Tests \cup {NoTest}
        /\ stale \subseteq Tiles
    OBVIOUS
  <2> QED BY <2>1, <2>2, <2>3, <2>4, <2>5 DEF TypeOK
<1>2. C0Ptr /\ TilePtr BY IndexSets DEF C0Ptr, TilePtr, HoldsTask
<1> QED BY <1>1, <1>2 DEF TypeInv

LEMMA TypeInvC0 ==
  ASSUME TypeInv, C0Step PROVE TypeInv'
<1> USE ConstantsAssumption DEF TypeInv, TypeOK, C0Ptr, TilePtr, C0States, c0Vars, tableVars, counterVars, tileVars, outVars, history
<1>1. CASE StartTile 
  <2>1. tpc' \in [Tiles -> TileStates] BY <1>1 DEF StartTile, TileStates
  <2>2. \A t \in Tiles : tpc'[t] \in HoldsTask => tpc[t] \in HoldsTask
    BY <1>1 DEF StartTile, HoldsTask
  <2> QED BY <1>1, <2>1, <2>2 DEF StartTile
<1>2. CASE StartFails BY <1>2 DEF StartFails
<1>3. CASE StartWait BY <1>3 DEF StartWait
<1>4. CASE AwaitInitialized BY <1>4 DEF AwaitInitialized
<1>5. CASE RunC0Tests
  <2>1. \A k \in ParTests : ~(k < NTests + 1) BY DEF ParTests
  <2>2. NTests + 1 \in Nat BY ConstantsAssumption
  <2> QED BY <1>5, <2>1, <2>2, IndexSets DEF RunC0Tests
<1>6. CASE Reserve BY <1>6, IndexSets, Indexes DEF Reserve, AfterFailedCreate
<1>7. CASE ClearTask BY <1>7, IndexSets, Indexes, TaskRecords DEF ClearTask
<1>8. CASE FillTask 
  <2>1. mi \in Tests /\ ptr[mi] \in Slots /\ nextId - 1 \in Nat BY <1>8 DEF FillTask
  <2>2. slots' \in [Slots -> Task] BY <1>8, <2>1, TaskRecords DEF FillTask
  <2>3. CASE mi \in ParTests /\ mi + 1 \in ParTests
    <3>1. \A k \in ParTests : k < mi + 1 => k < mi \/ k = mi BY IndexSets
    <3> QED BY <1>8, <2>1, <2>2, <2>3, <3>1, IndexSets DEF FillTask
  <2>4. CASE mi \in ParTests /\ mi + 1 \notin ParTests
    <3>1. \A k \in ParTests : k < mi \/ k = mi
      BY <2>4, ConstantsAssumption DEF ParTests
    <3> QED BY <1>8, <2>1, <2>2, <2>4, <3>1, IndexSets DEF FillTask
  <2>5. CASE mi \notin ParTests BY <1>8, <2>1, <2>2, <2>5, IndexSets DEF FillTask
  <2> QED BY <2>3, <2>4, <2>5
<1>9. CASE Assign 
  <2>1. slots' \in [Slots -> Task]
    BY <1>9, TaskRecords DEF Assign
  <2>2. nextTile' \in Tiles
    <3>1. nextTile' = IF nextTile + 1 >= NodeCount THEN 1 ELSE nextTile + 1
      BY <1>9 DEF Assign
    <3>2. nextTile \in Nat \ {0} /\ 1 \in Tiles BY IndexSets
    <3> QED BY <3>1, <3>2, Indexes, ConstantsAssumption
  <2> QED BY <1>9, <2>1, <2>2 DEF Assign
<1>10. CASE Account BY <1>10 DEF Account
<1>11. CASE CopyTask 
  <2>1. mi \in Tests /\ ptr[mi] \in Slots BY <1>11 DEF CopyTask
  <2>2. slots' \in [Slots -> Task] /\ count' \in 0 .. Cap
    <3>1. CASE count < Cap
      <4>1. slots[ptr[mi]] \in Task BY <2>1
      <4>2. DEFINE s1 == [slots EXCEPT ![count] = slots[ptr[mi]]]
                   s2 == [s1 EXCEPT ![ptr[mi]].taken = TRUE]
      <4>3. s1 \in [Slots -> Task] BY <4>1
      <4>4. [s1[ptr[mi]] EXCEPT !.taken = TRUE, !.assigned = Invalid] \in Task
        BY <4>3, <2>1, TaskRecords
      <4>5. slots' = [s1 EXCEPT ![ptr[mi]] =
                        [s1[ptr[mi]] EXCEPT !.taken = TRUE, !.assigned = Invalid]]
        BY <1>11, <3>1, <2>1, <4>3 DEF CopyTask
      <4> HIDE DEF s1
      <4> QED BY <1>11, <3>1, <4>3, <4>4, <4>5, ConstantsAssumption DEF CopyTask
    <3>2. CASE ~(count < Cap) BY <1>11, <3>2 DEF CopyTask
    <3> QED BY <3>1, <3>2
  <2>3. mi' \in Nat /\ mpc' \in C0States BY <1>11, <2>1, IndexSets DEF CopyTask, AfterQueue
  <2>4. /\ mpc' \in {"reserve", "assign"} => mi' \in Tests
        /\ mpc' = "reserve" => mi' \notin ParTests
        /\ mpc' = "assign" => mi' \in ParTests /\ mi \in ParTests
        /\ mpc' \in {"reserve", "assign", "parwait", "waitprint"}
    BY <1>11, <2>1, IndexSets DEF CopyTask, AfterQueue
  <2> QED BY <1>11, <2>1, <2>2, <2>3, <2>4 DEF CopyTask
<1>12. CASE ParWait BY <1>12 DEF ParWait
<1>13. CASE ResetTable 
  <2>1. slots' \in [Slots -> Task] /\ count' \in 0 .. Cap
    <3>1. slots' = [s \in Slots |-> ZeroTask] /\ count' = 0 BY <1>13 DEF ResetTable
    <3>2. ZeroTask \in Task BY TaskRecords
    <3>3. 0 \in 0 .. Cap BY ConstantsAssumption
    <3> QED BY <3>1, <3>2, <3>3
  <2>2. stale' \subseteq Tiles BY <1>13 DEF ResetTable
  <2> QED BY <1>13, <2>1, <2>2 DEF ResetTable
<1>14. CASE ResetCounters BY <1>14 DEF ResetCounters
<1>15. CASE HalStart BY <1>15, IndexSets, Indexes, TaskRecords DEF HalStart
<1>16. CASE CreateFailed BY <1>16, IndexSets, Indexes, TaskRecords DEF CreateFailed
<1>17. CASE WaitStart BY <1>17 DEF WaitStart
<1>18. CASE WaitReturns BY <1>18 DEF WaitReturns
<1>19. CASE Report BY <1>19 DEF Report
<1>20. CASE StopTile 
  <2>1. CASE mi \in Tiles
    <3>1. running' \in [Tiles -> BOOLEAN]
      <4>1. running' = [running EXCEPT ![mi] = FALSE] BY <1>20, <2>1 DEF StopTile
      <4> QED BY <4>1
    <3>2. mi' = mi + 1 /\ mi' \in Nat BY <1>20, <2>1 DEF StopTile
    <3> QED BY <1>20, <2>1, <3>1, <3>2 DEF StopTile
  <2>2. CASE mi \notin Tiles BY <1>20, <2>2 DEF StopTile
  <2> QED BY <2>1, <2>2
<1>21. CASE JoinTile BY <1>21 DEF JoinTile
<1>22. CASE RunAllTests BY <1>22 DEF RunAllTests
<1>23. CASE Supervise BY <1>23 DEF Supervise
<1> QED BY <1>1, <1>2, <1>3, <1>4, <1>5, <1>6, <1>7, <1>8, <1>9, <1>10, <1>11, <1>12, <1>13, <1>14, <1>15, <1>16, <1>17, <1>18, <1>19, <1>20, <1>21, <1>22, <1>23 DEF C0Step

LEMMA TypeInvTile ==
  ASSUME TypeInv, NEW t \in Tiles, TileStep(t) PROVE TypeInv'
<1> USE DEF TypeInv, TypeOK, C0Ptr, TilePtr, TileStates, HoldsTask, c0Vars, tableVars, counterVars, tileVars, outVars, history, Goto
<1>1. CASE TileInit(t) BY <1>1 DEF TileInit
<1>2. CASE TileTake(t) 
  <2>1. PICK s \in Slots :
          /\ slots' = [slots EXCEPT ![s].taken = TRUE, ![s].assigned = Invalid]
          /\ task' = [task EXCEPT ![t] = s]
    BY <1>2 DEF TileTake
  <2>2. slots' \in [Slots -> Task]
    <3>1. [slots[s] EXCEPT !.taken = TRUE, !.assigned = Invalid] \in Task
      BY TaskRecords
    <3>2. slots' = [slots EXCEPT ![s] = [slots[s] EXCEPT !.taken = TRUE, !.assigned = Invalid]]
      BY <2>1
    <3> QED BY <3>1, <3>2
  <2> QED BY <1>2, <2>1, <2>2 DEF TileTake
<1>3. CASE TileIdle(t) BY <1>3 DEF TileIdle
<1>4. CASE TileType(t) BY <1>4 DEF TileType
<1>5. CASE TileStats(t) BY <1>5 DEF TileStats
<1>6. CASE TileLock(t) BY <1>6 DEF TileLock
<1>7. CASE TileCall(t) 
  <2>1. slots[task[t]].test \in Tests \cup {NoTest}
    BY <1>7, TaskRecords DEF TileCall
  <2>2. func' \in [Tiles -> Tests \cup {NoTest}]
    <3>1. func' = [func EXCEPT ![t] = slots[task[t]].test] BY <1>7 DEF TileCall
    <3> QED BY <3>1, <2>1
  <2>3. execs' \in [Tests -> Nat]
    <3>1. CASE slots[task[t]].test = NoTest BY <1>7, <3>1 DEF TileCall
    <3>2. CASE slots[task[t]].test # NoTest BY <1>7, <2>1, <3>2 DEF TileCall
    <3> QED BY <3>1, <3>2
  <2>4. tpc' \in [Tiles -> TileStates] /\ (tpc'[t] \in HoldsTask => tpc[t] \in HoldsTask)
    BY <1>7 DEF TileCall
  <2> QED BY <1>7, <2>2, <2>3, <2>4 DEF TileCall
<1>8. CASE TileStore(t) 
  <2>1. slots[task[t]].test \in Tests \cup {NoTest}
    BY <1>8, TaskRecords DEF TileStore
  <2>2. CASE slots[task[t]].test = NoTest BY <1>8, <2>2 DEF TileStore
  <2>3. CASE slots[task[t]].test \in Tests
    <3>1. result' \in [Tests -> {0, 1}]
      BY <1>8, <2>3, IndexSets DEF TileStore
    <3>2. stored' \subseteq Tests
      <4>1. stored' = stored \cup {slots[task[t]].test}
        BY <1>8, <2>3, IndexSets DEF TileStore
      <4> QED BY <4>1, <2>3
    <3> QED BY <1>8, <3>1, <3>2 DEF TileStore
  <2> QED BY <2>1, <2>2, <2>3
<1>9. CASE TileUnlock(t) BY <1>9 DEF TileUnlock
<1>10. CASE TileInterrupt(t) BY <1>10 DEF TileInterrupt
<1>11. CASE TileComplete(t)
  <2>1. task[t] \in Slots BY <1>11 DEF TileComplete
  <2>2. slots' \in [Slots -> Task]
    <3>1. [slots[task[t]] EXCEPT !.completed = TRUE] \in Task
      BY <2>1, TaskRecords
    <3>2. slots' = [slots EXCEPT ![task[t]] = [slots[task[t]] EXCEPT !.completed = TRUE]]
      BY <1>11 DEF TileComplete
    <3> QED BY <3>1, <3>2
  <2>3. tpc' \in [Tiles -> TileStates] /\ \A u \in Tiles : tpc'[u] \in HoldsTask => tpc[u] \in HoldsTask
    BY <1>11 DEF TileComplete
  <2> QED BY <1>11, <2>2, <2>3 DEF TileComplete
<1>12. CASE TileState(t) BY <1>12 DEF TileState
<1>13. CASE TileCount(t) BY <1>13 DEF TileCount
<1>14. CASE TilePost(t) BY <1>14 DEF TilePost
<1>15. CASE TileCheck(t) BY <1>15 DEF TileCheck
<1>16. CASE TileExit(t) BY <1>16 DEF TileExit
<1> QED BY <1>1, <1>2, <1>3, <1>4, <1>5, <1>6, <1>7, <1>8, <1>9, <1>10, <1>11, <1>12, <1>13, <1>14, <1>15, <1>16 DEF TileStep

LEMMA TypeInvStep == TypeInv /\ [Next]_vars => TypeInv'
<1> SUFFICES ASSUME TypeInv, [Next]_vars PROVE TypeInv' OBVIOUS
<1>1. CASE C0Step BY <1>1, TypeInvC0
<1>2. CASE \E t \in Tiles : TileStep(t) BY <1>2, TypeInvTile
<1>3. CASE UNCHANGED vars
  BY <1>3 DEF TypeInv, TypeOK, C0Ptr, TilePtr, vars, c0Vars, tableVars,
              counterVars, tileVars, outVars, history
<1> QED BY <1>1, <1>2, <1>3 DEF Next, Terminated

\* Every variable keeps its type, and every task_t* that C0 or a tile uses
\* points into the table: the dispatch never works on a NULL task.
THEOREM TypeCorrect == Spec => [](TypeOK /\ TilePtr)
<1>1. Init => TypeInv BY TypeInvInit
<1>2. TypeInv /\ [Next]_vars => TypeInv' BY TypeInvStep
<1>3. TypeInv => TypeOK /\ TilePtr BY DEF TypeInv
<1> QED BY <1>1, <1>2, <1>3, PTL DEF Spec

-----------------------------------------------------------------------------
(***************************************************************************)
(* The print session keeps the tests apart.                                *)
(***************************************************************************)

LEMMA SessionInvStep ==
  ASSUME TypeInv, SessionInv, [Next]_vars PROVE SessionInv'
<1> USE DEF SessionInv, InSession, c0Vars, tableVars, counterVars, tileVars,
            outVars, history
<1>0. tpc \in [Tiles -> TileStates] BY DEF TypeInv, TypeOK
<1>1. CASE C0Step
  <2>1. session' = session
    BY <1>1 DEF C0Step, StartTile, StartFails, RunAllTests, StartWait,
        AwaitInitialized, Supervise, RunC0Tests, Reserve, ClearTask, FillTask,
        Assign, Account, CopyTask, ParWait, ResetTable, ResetCounters,
        HalStart, CreateFailed, WaitStart, WaitReturns, Report, StopTile,
        JoinTile
  <2>2. tpc' = tpc \/ \E t \in Tiles : tpc' = [tpc EXCEPT ![t] = "init"]
    BY <1>1 DEF C0Step, StartTile, StartFails, RunAllTests, StartWait,
        AwaitInitialized, Supervise, RunC0Tests, Reserve, ClearTask, FillTask,
        Assign, Account, CopyTask, ParWait, ResetTable, ResetCounters,
        HalStart, CreateFailed, WaitStart, WaitReturns, Report, StopTile,
        JoinTile
  <2> QED BY <1>0, <2>1, <2>2
<1>2. ASSUME NEW t \in Tiles, TileStep(t) PROVE SessionInv'
  <2> USE <1>0, IndexSets DEF Goto
  <2>1. CASE TileLock(t) BY <2>1 DEF TileLock
  <2>2. CASE TileUnlock(t) BY <2>2 DEF TileUnlock
  <2>3. CASE TileCall(t) BY <2>3 DEF TileCall
  <2>4. CASE TileStore(t) BY <2>4 DEF TileStore
  <2>5. CASE \/ TileInit(t) \/ TileTake(t) \/ TileIdle(t) \/ TileType(t)
             \/ TileStats(t) \/ TileInterrupt(t) \/ TileComplete(t)
             \/ TileState(t) \/ TileCount(t) \/ TilePost(t)
             \/ TileCheck(t) \/ TileExit(t)
    BY <2>5 DEF TileInit, TileTake, TileIdle, TileType, TileStats,
        TileInterrupt, TileComplete, TileState, TileCount, TilePost,
        TileCheck, TileExit
  <2> QED BY <1>2, <2>1, <2>2, <2>3, <2>4, <2>5 DEF TileStep
<1>3. CASE UNCHANGED vars BY <1>3 DEF vars
<1> QED BY <1>1, <1>2, <1>3 DEF Next, Terminated

-----------------------------------------------------------------------------
(***************************************************************************)
(* After a clean reset.                                                    *)
(***************************************************************************)

\* A step of C0 that leaves the table, the tiles' tasks and the counters.
LEMMA CleanControl ==
  ASSUME TypeInv, Clean,
         UNCHANGED <<slots, count, ptr, execs, stored, finished, completed,
                     task, func>>,
         \A t \in Tiles : Holding(t)' => tpc'[t] = tpc[t],
         \A k \in Tests : Future(k)' => Future(k),
         \A k \in Tests : Queueable(k)' => Queueable(k),
         mpc' \notin {"memset", "fill", "resetctr"},
         mpc' \in {"account", "copy"} => mpc \in {"account", "copy"} /\ mi' = mi,
         HalPhase' => HalPhase,
         mpc' \in AfterWait => HalTests \subseteq finished
  PROVE  Clean'
<1>1. TableInv' BY DEF Clean, TableInv
<1>2. HolderInv' BY DEF Clean, HolderInv, Holding, TestOf
<1>3. AvailableInv' BY DEF Clean, AvailableInv, Available, Holding, TestOf
<1>4. FutureInv' BY DEF Clean, FutureInv
<1>5. QueueInv' BY DEF Clean, QueueInv
<1>6. CountInv' BY DEF Clean, CountInv
<1>7. OnceInv' BY DEF Clean, OnceInv
<1> QED BY <1>1, <1>2, <1>3, <1>4, <1>5, <1>6, <1>7 DEF Clean

\* When the counter has reached the number of tests, every test is finished.
LEMMA AllFinished ==
  ASSUME CountInv, finished \subseteq HalTests, completed >= NTests
  PROVE  HalTests \subseteq finished
<1>1. IsFiniteSet(HalTests) /\ Cardinality(HalTests) = NTests
  BY ConstantsAssumption, FS_Interval DEF HalTests
<1>2. Cardinality(finished) <= Cardinality(HalTests)
      /\ (Cardinality(finished) = Cardinality(HalTests) => finished = HalTests)
  BY <1>1, FS_Subset
<1>3. Cardinality(finished) \in Nat BY FS_CardinalityType DEF CountInv
<1> QED BY <1>1, <1>2, <1>3, ConstantsAssumption DEF CountInv

LEMMA CleanPhases ==
  ASSUME TypeInv, Clean,
         \/ StartTile \/ StartFails \/ RunAllTests \/ StartWait
         \/ AwaitInitialized \/ Supervise \/ RunC0Tests \/ Account \/ ParWait \/ HalStart \/ CreateFailed
         \/ WaitStart \/ WaitReturns \/ Report \/ StopTile \/ JoinTile
  PROVE  Clean'
<1> USE DEF c0Vars, tableVars, counterVars, tileVars, outVars, history
<1>a. tpc \in [Tiles -> TileStates] /\ mi \in Nat BY DEF TypeInv, TypeOK
<1>b. mpc \in AfterWait => HalTests \subseteq finished BY DEF Clean, CountInv
<1>1. CASE StartTile
  BY <1>1, <1>a, <1>b, CleanControl DEF StartTile, Holding, HoldsTask, Future, Queueable, HalPhase, Handling, AfterWait
<1>2. CASE StartFails
  BY <1>2, <1>a, <1>b, CleanControl DEF StartFails, Holding, HoldsTask, Future, Queueable, HalPhase, Handling, AfterWait
<1>3. CASE StartWait
  BY <1>3, <1>a, <1>b, CleanControl DEF StartWait, Holding, HoldsTask, Future, Queueable, HalPhase, Handling, AfterWait
<1>4. CASE AwaitInitialized
  BY <1>4, <1>a, <1>b, CleanControl DEF AwaitInitialized, Holding, HoldsTask, Future, Queueable, HalPhase, Handling, AfterWait
<1>5. CASE RunC0Tests
  BY <1>5, <1>a, <1>b, IndexSets, CleanControl DEF RunC0Tests, Holding, HoldsTask, Future, Queueable, HalPhase, Handling, AfterWait, ParTests, HalTests
<1>6. CASE Account
  BY <1>6, <1>a, <1>b, CleanControl DEF Account, Holding, HoldsTask, Future, Queueable, HalPhase, Handling, AfterWait
<1>7. CASE ParWait
  BY <1>7, <1>a, <1>b, CleanControl DEF ParWait, Holding, HoldsTask, Future, Queueable, HalPhase, Handling, AfterWait
<1>8. CASE HalStart
  BY <1>8, <1>a, <1>b, IndexSets, CleanControl DEF HalStart, Holding, HoldsTask, Future, Queueable, HalPhase, Handling, AfterWait
<1>9. CASE CreateFailed
  BY <1>9, <1>a, <1>b, IndexSets, CleanControl DEF CreateFailed, Holding, HoldsTask, Future, Queueable, HalPhase, Handling, AfterWait, TypeInv, C0Ptr
<1>10. CASE WaitStart
  BY <1>10, <1>a, <1>b, CleanControl DEF WaitStart, Holding, HoldsTask, Future, Queueable, HalPhase, Handling, AfterWait
<1>11. CASE WaitReturns
  <2>1. HalTests \subseteq finished
    BY <1>11, AllFinished DEF WaitReturns, Clean, CountInv, HalPhase
  <2> QED BY <1>11, <2>1, <1>a, CleanControl DEF WaitReturns, Holding, HoldsTask, Future, Queueable, HalPhase, Handling, AfterWait
<1>12. CASE Report
  BY <1>12, <1>a, <1>b, CleanControl DEF Report, Holding, HoldsTask, Future, Queueable, HalPhase, Handling, AfterWait
<1>13. CASE StopTile
  BY <1>13, <1>a, <1>b, CleanControl DEF StopTile, Holding, HoldsTask, Future, Queueable, HalPhase, Handling, AfterWait
<1>14. CASE JoinTile
  BY <1>14, <1>a, <1>b, CleanControl DEF JoinTile, Holding, HoldsTask, Future, Queueable, HalPhase, Handling, AfterWait
<1>15. CASE RunAllTests
  BY <1>15, <1>a, <1>b, CleanControl DEF RunAllTests, Holding, HoldsTask, Future, Queueable, HalPhase, Handling, AfterWait
<1>16. CASE Supervise
  BY <1>16, <1>a, <1>b, CleanControl DEF Supervise, Holding, HoldsTask, Future, Queueable, HalPhase, Handling, AfterWait
<1> QED BY <1>1, <1>2, <1>3, <1>4, <1>5, <1>6, <1>7, <1>8, <1>9, <1>10, <1>11, <1>12, <1>13, <1>14, <1>15, <1>16

LEMMA CleanReserve ==
  ASSUME TypeInv, Clean, Reserve PROVE Clean'
<1> USE DEF c0Vars, tableVars, counterVars, tileVars, outVars, history
<1>a. mi \in Tests /\ count \in Nat /\ ptr \in [Tests -> Slots \cup {NoSlot}]
  BY ConstantsAssumption DEF TypeInv, TypeOK, C0Ptr, Reserve
<1>1. CASE count >= Cap
  BY <1>1, <1>a, IndexSets, CleanControl
     DEF Reserve, AfterFailedCreate, Holding, HoldsTask, Future, Queueable,
         HalPhase, Handling, AfterWait
<1>2. CASE ~(count >= Cap)
  <2> USE <1>2, <1>a DEF Reserve
  <2>1. count \in Slots /\ slots[count] = ZeroTask /\ ptr'[mi] = count
    BY Indexes, ConstantsAssumption DEF Clean, TableInv
  <2>2. \A k \in Tests : Future(k)' => Future(k) BY DEF Future, Handling
  <2>3. HalPhase' => HalPhase BY DEF HalPhase, Handling
  <2>4. \A k \in Tests : Queueable(k)' => Queueable(k) /\ k # mi
    BY IndexSets DEF Queueable
  <2>5. TableInv' BY <2>1, <2>3 DEF Clean, TableInv, Holding
  <2>6. HolderInv' BY DEF Clean, HolderInv, Holding, TestOf
  <2>7. AvailableInv' BY DEF Clean, AvailableInv, Available, Holding, TestOf
  <2>8. FutureInv' BY <2>2 DEF Clean, FutureInv
  <2>9. QueueInv'
    <3>1. ASSUME NEW k \in Tests, Queueable(k)'
          PROVE  /\ ptr'[k] \in Slots /\ ptr'[k] < count'
                 /\ slots'[ptr'[k]].test = k
                 /\ slots'[ptr'[k]].assigned = Unassigned
                 /\ ~slots'[ptr'[k]].taken
      <4>1. Queueable(k) /\ ptr'[k] = ptr[k] BY <2>4, <3>1
      <4>2. /\ ptr[k] \in Slots /\ ptr[k] < count
            /\ slots[ptr[k]].test = k /\ slots[ptr[k]].assigned = Unassigned
            /\ ~slots[ptr[k]].taken
        BY <4>1 DEF Clean, QueueInv
      <4>3. count' = count + 1 /\ slots' = slots OBVIOUS
      <4>4. ptr[k] < count + 1 BY <4>2, Indexes
      <4> QED BY <4>1, <4>2, <4>3, <4>4
    <3> QED BY <3>1 DEF QueueInv
  <2>10. CountInv' BY <2>3 DEF Clean, CountInv, AfterWait
  <2>11. OnceInv' BY DEF Clean, OnceInv
  <2> QED BY <2>5, <2>6, <2>7, <2>8, <2>9, <2>10, <2>11 DEF Clean
<1> QED BY <1>1, <1>2

\* The slot was zero already: clearing it changes nothing.
LEMMA CleanClear ==
  ASSUME TypeInv, Clean, ClearTask PROVE Clean'
<1> USE DEF ClearTask, c0Vars, tableVars, counterVars, tileVars, outVars, history
<1>1. slots' = slots
  BY DEF Clean, TableInv, TypeInv, TypeOK, C0Ptr
<1>2. \A k \in Tests : (Future(k)' => Future(k)) /\ (Queueable(k)' => Queueable(k))
  BY DEF Future, Queueable, Handling
<1>3. HalPhase' => HalPhase BY DEF HalPhase, Handling
<1>5. TableInv' BY <1>1, <1>3 DEF Clean, TableInv, Holding
<1>6. HolderInv' BY <1>1 DEF Clean, HolderInv, Holding, TestOf
<1>7. AvailableInv' BY <1>1 DEF Clean, AvailableInv, Available, Holding, TestOf
<1>8. FutureInv' BY <1>1, <1>2 DEF Clean, FutureInv
<1>9. QueueInv' BY <1>1, <1>2 DEF Clean, QueueInv
<1>10. CountInv' BY <1>3 DEF Clean, CountInv, AfterWait
<1>11. OnceInv' BY DEF Clean, OnceInv
<1> QED BY <1>5, <1>6, <1>7, <1>8, <1>9, <1>10, <1>11 DEF Clean

LEMMA CleanFill ==
  ASSUME TypeInv, Clean, FillTask PROVE Clean'
<1> USE DEF FillTask, c0Vars, tableVars, counterVars, tileVars, outVars, history
<1> DEFINE p == ptr[mi]
<1>1. /\ mi \in Tests /\ mi # NoTest /\ p \in Slots /\ p < count
      /\ slots[p].test = NoTest /\ nextId \in Nat
      /\ slots \in [Slots -> Task]
  BY IndexSets DEF Clean, TableInv, TypeInv, TypeOK, C0Ptr, ZeroTask
<1>2. /\ slots'[p].test = mi /\ slots'[p].kind = "HAL_TEST"
      /\ slots'[p].assigned = Unassigned /\ ~slots'[p].taken
      /\ \A s \in Slots : s # p => slots'[s] = slots[s]
  BY <1>1
<1>3. Future(mi) BY <1>1, IndexSets DEF Future, TypeInv, TypeOK
<1>4. /\ \A s \in Slots : slots[s].test # mi
      /\ execs[mi] = 0 /\ mi \notin finished
  BY <1>1, <1>3 DEF Clean, FutureInv
<1>5. \A t \in Tiles : Holding(t) =>
          task[t] \in Slots /\ task[t] # p /\ TestOf(t) # mi
  BY <1>1, <1>4, IndexSets DEF Clean, HolderInv, TypeInv, TilePtr, Holding, TestOf
<1>6. \A k \in Tests : Future(k)' => Future(k) /\ k # mi
  <2>1. CASE mi \in ParTests /\ mi + 1 \in ParTests
    BY <2>1, <1>1, IndexSets DEF Future, Handling
  <2>2. CASE mi \in ParTests /\ mi + 1 \notin ParTests
    BY <2>2, <1>1, IndexSets DEF Future, Handling
  <2>3. CASE mi \notin ParTests
    BY <2>3, <1>1, IndexSets DEF Future, Handling
  <2> QED BY <2>1, <2>2, <2>3
<1>7. \A k \in Tests : Queueable(k)' => Queueable(k) \/ k = mi
  <2>1. CASE mi \in ParTests /\ mi + 1 \in ParTests
    BY <2>1, <1>1, IndexSets DEF Queueable
  <2>2. CASE mi \in ParTests /\ mi + 1 \notin ParTests
    <3>1. \A k \in ParTests : k < mi \/ k = mi
      BY <2>2, ConstantsAssumption DEF ParTests
    <3> QED BY <2>2, <3>1, <1>1, IndexSets DEF Queueable
  <2>3. CASE mi \notin ParTests
    BY <2>3, <1>1, IndexSets DEF Queueable
  <2> QED BY <2>1, <2>2, <2>3
<1>8. HalPhase' => HalPhase /\ mi \in HalTests
  BY <1>1, IndexSets DEF HalPhase, Handling
<1> HIDE DEF p
<1>9. TableInv'
  <2>1. \A s \in Slots : s >= count' => slots'[s] = ZeroTask
    <3>1. count \in Nat /\ count' = count BY ConstantsAssumption DEF TypeInv, TypeOK
    <3>2. \A s \in Slots : s >= count => s # p BY <1>1, <3>1, IndexSets
    <3> QED BY <1>2, <3>1, <3>2 DEF Clean, TableInv
  <2>2. \A s \in Slots :
          /\ slots'[s].id > 0 => slots'[s].test # NoTest
          /\ slots'[s].test # NoTest => slots'[s].kind = "HAL_TEST"
    BY <1>1, <1>2 DEF Clean, TableInv
  <2>3. HalPhase' => \A s \in Slots : slots'[s].test \in HalTests \cup {NoTest}
    BY <1>1, <1>2, <1>8 DEF Clean, TableInv
  <2> QED BY <2>1, <2>2, <2>3 DEF TableInv
<1>10. HolderInv' BY <1>2, <1>5 DEF Clean, HolderInv, Holding, TestOf
<1>11. AvailableInv'
  <2>1. \A t \in Tiles : Holding(t)' => Holding(t) /\ TestOf(t)' = TestOf(t)
    BY <1>2, <1>5 DEF Holding, TestOf
  <2>2. \A s \in Slots : Available(s)' => s = p \/ Available(s)
    BY <1>2 DEF Available
  <2> QED BY <1>1, <1>2, <1>4, <1>5, <2>1, <2>2 DEF Clean, AvailableInv
<1>12. FutureInv' BY <1>2, <1>6 DEF Clean, FutureInv
<1>13. QueueInv'
  <2>1. ASSUME NEW k \in Tests, Queueable(k)'
        PROVE  /\ ptr[k] \in Slots /\ ptr[k] < count
               /\ slots'[ptr[k]].test = k /\ slots'[ptr[k]].assigned = Unassigned
               /\ ~slots'[ptr[k]].taken
    <3>1. CASE k = mi BY <3>1, <1>1, <1>2 DEF p
    <3>2. CASE k # mi /\ Queueable(k)
      <4>1. /\ ptr[k] \in Slots /\ ptr[k] < count /\ ptr[k] # p
            /\ slots[ptr[k]].test = k /\ slots[ptr[k]].assigned = Unassigned
            /\ ~slots[ptr[k]].taken
        BY <3>2, <1>1, IndexSets DEF Clean, QueueInv
      <4> QED BY <4>1, <1>2
    <3> QED BY <2>1, <3>1, <3>2, <1>7
  <2> QED BY <2>1 DEF QueueInv
<1>14. CountInv' BY <1>8 DEF Clean, CountInv, AfterWait
<1>15. OnceInv' BY DEF Clean, OnceInv
<1> QED BY <1>9, <1>10, <1>11, <1>12, <1>13, <1>14, <1>15 DEF Clean

\* The task becomes available to its tile; it was available to nobody.
LEMMA CleanAssign ==
  ASSUME TypeInv, Clean, Assign PROVE Clean'
<1> USE DEF Assign, c0Vars, tableVars, counterVars, tileVars, outVars, history
<1> DEFINE p == ptr[mi]
<1>1. /\ mi \in Tests /\ p \in Slots /\ p < count /\ slots[p].test = mi
      /\ ~slots[p].taken /\ slots \in [Slots -> Task] /\ mi # NoTest
  BY IndexSets DEF Clean, QueueInv, Queueable, TypeInv, TypeOK, C0Ptr
<1>2. /\ slots'[p].test = mi /\ slots'[p].kind = slots[p].kind
      /\ slots'[p].id = slots[p].id
      /\ ~slots'[p].taken /\ \A s \in Slots : s # p => slots'[s] = slots[s]
  BY <1>1 DEF Task
<1>3. \A s \in Slots : /\ slots'[s].test = slots[s].test
                       /\ slots'[s].taken = slots[s].taken
                       /\ slots'[s].kind = slots[s].kind
                       /\ slots'[s].id = slots[s].id
  BY <1>1, <1>2
<1>4. \A k \in Tests : Future(k)' => Future(k) BY DEF Future, Handling
<1>5. \A k \in Tests : Queueable(k)' => Queueable(k) /\ k # mi
  BY <1>1, IndexSets DEF Queueable
<1>6. HalPhase' => HalPhase BY DEF HalPhase, Handling
<1>7. count \in Nat BY ConstantsAssumption DEF TypeInv, TypeOK
<1> HIDE DEF p
<1>8. TableInv'
  <2>1. \A s \in Slots : s >= count => slots'[s] = ZeroTask
    BY <1>1, <1>2, <1>7, IndexSets DEF Clean, TableInv
  <2> QED BY <2>1, <1>3, <1>6 DEF Clean, TableInv
<1>9. \A t \in Tiles : Holding(t)' = Holding(t)
                       /\ (Holding(t) => task[t] \in Slots /\ TestOf(t)' = TestOf(t))
  BY <1>3 DEF Holding, TestOf, TypeInv, TilePtr
<1>10. HolderInv' BY <1>3, <1>9 DEF Clean, HolderInv
<1>11. AvailableInv' BY <1>3, <1>9 DEF Clean, AvailableInv, Available
<1>12. FutureInv' BY <1>3, <1>4 DEF Clean, FutureInv
<1>13. QueueInv'
  <2>1. ASSUME NEW k \in Tests, Queueable(k)'
        PROVE  /\ ptr[k] \in Slots /\ ptr[k] < count
               /\ slots'[ptr[k]].test = k /\ slots'[ptr[k]].assigned = Unassigned
               /\ ~slots'[ptr[k]].taken
    <3>1. /\ ptr[k] \in Slots /\ ptr[k] < count /\ ptr[k] # p
          /\ slots[ptr[k]].test = k /\ slots[ptr[k]].assigned = Unassigned
          /\ ~slots[ptr[k]].taken
      BY <2>1, <1>1, <1>5 DEF Clean, QueueInv
    <3> QED BY <3>1, <1>2
  <2> QED BY <2>1, <1>1, <1>2 DEF QueueInv, p
<1>14. CountInv' BY <1>6 DEF Clean, CountInv, AfterWait
<1>15. OnceInv' BY DEF Clean, OnceInv
<1> QED BY <1>8, <1>10, <1>11, <1>12, <1>13, <1>14, <1>15 DEF Clean

\* The copy is available only if the original still was, which then no longer
\* is: a test never becomes available in two slots.
LEMMA CleanCopy ==
  ASSUME TypeInv, Clean, CopyTask PROVE Clean'
<1> USE DEF c0Vars, tableVars, counterVars, tileVars, outVars, history
<1> DEFINE p == ptr[mi]
<1>1. /\ mi \in Tests /\ p \in Slots /\ p < count /\ slots[p].test = mi
      /\ slots \in [Slots -> Task] /\ mi # NoTest /\ count \in Nat /\ mi \in Nat
      /\ NoTest \notin Tests
  BY IndexSets, ConstantsAssumption DEF CopyTask, Clean, QueueInv, TypeInv, TypeOK, C0Ptr
<1>2. \A k \in Tests : Future(k)' => Future(k)
  <2>1. CASE mi \in ParTests
    BY <2>1, <1>1, IndexSets DEF CopyTask, AfterQueue, Future, Handling
  <2>2. CASE mi \in HalTests
    BY <2>2, <1>1, IndexSets DEF CopyTask, AfterQueue, Future, Handling
  <2> QED BY <1>1, <2>1, <2>2, IndexSets
<1>3. \A k \in Tests : Queueable(k)' => Queueable(k) /\ k # mi
  <2>1. CASE mi \in ParTests
    BY <2>1, <1>1, IndexSets DEF CopyTask, AfterQueue, Queueable
  <2>2. CASE mi \in HalTests
    BY <2>2, <1>1, IndexSets DEF CopyTask, AfterQueue, Queueable
  <2> QED BY <1>1, <2>1, <2>2, IndexSets
<1>4. HalPhase' => HalPhase
  BY <1>1, IndexSets DEF CopyTask, AfterQueue, HalPhase, Handling
<1>5. mpc' \in {"reserve", "assign", "parwait", "waitprint"}
  BY DEF CopyTask, AfterQueue
<1>6. /\ UNCHANGED <<ptr, completed, execs, stored, finished, tpc, task, func>>
      /\ \A t \in Tiles : Holding(t)' = Holding(t)
  BY DEF CopyTask, Holding
<1>7. CASE ~(count < Cap)
  <2>1. UNCHANGED <<slots, count>> BY <1>7 DEF CopyTask
  <2>2. TableInv' BY <1>4, <1>5, <1>6, <2>1 DEF Clean, TableInv
  <2>3. HolderInv' BY <1>6, <2>1 DEF Clean, HolderInv, TestOf
  <2>4. AvailableInv' BY <1>6, <2>1 DEF Clean, AvailableInv, Available, TestOf
  <2>5. FutureInv' BY <1>2, <1>6, <2>1 DEF Clean, FutureInv
  <2>6. QueueInv' BY <1>3, <1>5, <1>6, <2>1 DEF Clean, QueueInv
  <2>7. CountInv' BY <1>4, <1>5, <1>6 DEF Clean, CountInv, AfterWait
  <2>8. OnceInv' BY <1>6 DEF Clean, OnceInv
  <2> QED BY <2>2, <2>3, <2>4, <2>5, <2>6, <2>7, <2>8 DEF Clean
<1>8. CASE count < Cap
  <2>1. count \in Slots /\ count # p /\ count' = count + 1
    BY <1>1, <1>8, Indexes, IndexSets DEF CopyTask
  <2>2. /\ slots'[count] = slots[p]
        /\ slots'[p] = [slots[p] EXCEPT !.taken = TRUE, !.assigned = Invalid]
        /\ \A s \in Slots \ {p, count} : slots'[s] = slots[s]
    BY <1>1, <1>8, <2>1 DEF CopyTask
  <2>3. /\ slots'[p].taken /\ slots'[p].test = mi /\ slots'[p].id = slots[p].id
        /\ slots'[p].kind = slots[p].kind
    BY <2>2, <1>1 DEF Task
  <2>4. slots[count] = ZeroTask /\ slots[count].test = NoTest
    BY <2>1, <1>1 DEF Clean, TableInv, ZeroTask
  <2> HIDE DEF p
  <2>5. \A s \in Slots :
           /\ slots'[s].test = slots[s].test \/ slots'[s].test = mi
           /\ s # count => slots'[s].test = slots[s].test
    BY <2>2, <2>3, <1>1
  <2>6. \A t \in Tiles : Holding(t) =>
           /\ task[t] \in Slots /\ task[t] # count /\ TestOf(t)' = TestOf(t)
           /\ slots'[task[t]].taken = slots[task[t]].taken
    <3>1. ASSUME NEW t \in Tiles, Holding(t)
          PROVE  task[t] \in Slots /\ slots[task[t]].test # NoTest /\ slots[task[t]].taken
      BY <3>1, <1>1 DEF Clean, HolderInv, TestOf, TypeInv, TilePtr, Holding
    <3>2. ASSUME NEW t \in Tiles, Holding(t)
          PROVE  /\ task[t] # count
                 /\ slots'[task[t]].test = slots[task[t]].test
                 /\ slots'[task[t]].taken = slots[task[t]].taken
      <4>1. task[t] \in Slots /\ task[t] # count /\ slots[task[t]].taken
        BY <3>1, <3>2, <2>4
      <4>2. CASE task[t] = p BY <4>1, <4>2, <2>3, <1>1
      <4>3. CASE task[t] # p BY <4>1, <4>3, <2>2
      <4> QED BY <4>1, <4>2, <4>3
    <3> QED BY <3>1, <3>2, <1>6 DEF TestOf
  <2>7. TableInv'
    <3>1. \A s \in Slots : s >= count' => slots'[s] = ZeroTask
      BY <2>1, <2>2, <1>1, IndexSets DEF Clean, TableInv
    <3>2. ASSUME NEW s \in Slots
          PROVE  \E q \in Slots : /\ slots'[s].id = slots[q].id
                                  /\ slots'[s].test = slots[q].test
                                  /\ slots'[s].kind = slots[q].kind
      BY <2>2, <2>3, <1>1
    <3>3. ASSUME NEW s \in Slots
          PROVE  /\ slots'[s].id > 0 => slots'[s].test # NoTest
                 /\ slots'[s].test # NoTest => slots'[s].kind = "HAL_TEST"
                 /\ HalPhase' => slots'[s].test \in HalTests \cup {NoTest}
      <4>1. PICK q \in Slots : /\ slots'[s].id = slots[q].id
                               /\ slots'[s].test = slots[q].test
                               /\ slots'[s].kind = slots[q].kind
        BY <3>2
      <4>2. /\ slots[q].id > 0 => slots[q].test # NoTest
            /\ slots[q].test # NoTest => slots[q].kind = "HAL_TEST"
            /\ HalPhase => slots[q].test \in HalTests \cup {NoTest}
        BY DEF Clean, TableInv
      <4> QED BY <4>1, <4>2, <1>4
    <3> QED BY <3>1, <3>3, <1>5 DEF TableInv
  <2>8. HolderInv' BY <1>6, <2>6 DEF Clean, HolderInv
  <2>9. \A s \in Slots : Available(s)' =>
           \/ s # p /\ s # count /\ Available(s) /\ slots'[s] = slots[s]
           \/ s = count /\ Available(p) /\ slots'[s] = slots[p]
    BY <2>2, <2>3, <1>1 DEF Available
  <2>10. AvailableInv'
    <3>1. p \in Slots BY <1>1
    <3>2. ASSUME NEW s \in Slots, Available(s)'
          PROVE  /\ \A r \in Slots :
                      Available(r)' /\ slots'[r].test = slots'[s].test => r = s
                 /\ \A t \in Tiles : Holding(t)' => TestOf(t)' # slots'[s].test
                 /\ execs'[slots'[s].test] = 0 /\ slots'[s].test \notin finished'
      <4>1. PICK q \in Slots : /\ Available(q) /\ slots'[s] = slots[q]
                               /\ (s = count /\ q = p) \/ (s # p /\ s # count /\ q = s)
        BY <2>9, <3>1, <3>2
      <4>2. /\ \A r \in Slots : Available(r) /\ slots[r].test = slots[q].test => r = q
            /\ \A t \in Tiles : Holding(t) => TestOf(t) # slots[q].test
            /\ execs[slots[q].test] = 0 /\ slots[q].test \notin finished
        BY <4>1 DEF Clean, AvailableInv
      <4>3. \A r \in Slots :
                      Available(r)' /\ slots'[r].test = slots'[s].test => r = s
        BY <4>1, <4>2, <2>9, <3>1
      <4> QED BY <4>1, <4>2, <4>3, <2>6, <1>6
    <3> QED BY <3>2 DEF AvailableInv
  <2>11. FutureInv'
    <3>1. \A k \in Tests : Future(k)' => k # mi BY <1>1, <1>2 DEF Clean, FutureInv
    <3>2. ASSUME NEW k \in Tests, Future(k)'
          PROVE  /\ \A s \in Slots : slots'[s].test # k
                 /\ execs'[k] = 0 /\ k \notin finished'
      <4>1. /\ \A s \in Slots : slots[s].test # k
            /\ execs[k] = 0 /\ k \notin finished
        BY <3>2, <1>2 DEF Clean, FutureInv
      <4>2. k # mi BY <3>1, <3>2
      <4>3. \A s \in Slots : slots'[s].test # k
        <5> SUFFICES ASSUME NEW s \in Slots PROVE slots'[s].test # k OBVIOUS
        <5>1. slots'[s].test = slots[s].test \/ slots'[s].test = mi BY <2>5
        <5> QED BY <4>1, <4>2, <5>1
      <4>4. execs' = execs /\ finished' = finished BY <1>6
      <4> QED BY <4>1, <4>3, <4>4
    <3> QED BY <3>2 DEF FutureInv
  <2>12. QueueInv'
    <3>1. ASSUME NEW k \in Tests, Queueable(k)'
          PROVE  /\ ptr[k] \in Slots /\ ptr[k] < count'
                 /\ slots'[ptr[k]].test = k /\ slots'[ptr[k]].assigned = Unassigned
                 /\ ~slots'[ptr[k]].taken
      <4>1. /\ ptr[k] \in Slots /\ ptr[k] < count /\ ptr[k] # p /\ ptr[k] # count
            /\ slots[ptr[k]].test = k /\ slots[ptr[k]].assigned = Unassigned
            /\ ~slots[ptr[k]].taken
        BY <3>1, <1>1, <1>3, IndexSets DEF Clean, QueueInv
      <4> QED BY <4>1, <2>1, <2>2, <1>1, IndexSets
    <3> QED BY <3>1, <1>5, <1>6 DEF QueueInv
  <2>13. CountInv' BY <1>4, <1>5, <1>6 DEF Clean, CountInv, AfterWait
  <2>14. OnceInv' BY <1>6 DEF Clean, OnceInv
  <2> QED BY <2>7, <2>8, <2>10, <2>11, <2>12, <2>13, <2>14 DEF Clean
<1> QED BY <1>7, <1>8

\* A clean reset leaves an empty table and no tile at work.
LEMMA CleanResetTable ==
  ASSUME TypeInv, Clean, ResetTable, stale' = {} PROVE Clean'
<1> USE DEF ResetTable, c0Vars, counterVars, tileVars, outVars
<1>1. \A t \in Tiles : ~Holding(t) /\ ~Holding(t)' BY DEF Holding
<1>2. \A s \in Slots : slots'[s] = ZeroTask OBVIOUS
<1>3. ZeroTask.test = NoTest /\ ZeroTask.id = 0 BY DEF ZeroTask
<1>4. \A k \in Tests : Future(k)' => Future(k) BY DEF Future, Handling
<1>5. TableInv' BY <1>1, <1>2, <1>3 DEF TableInv, HalPhase, Handling
<1>6. HolderInv' BY <1>1 DEF HolderInv
<1>7. AvailableInv' BY <1>2, <1>3 DEF AvailableInv, Available
<1>8. FutureInv' BY <1>2, <1>3, <1>4, IndexSets DEF Clean, FutureInv
<1>9. QueueInv' BY DEF QueueInv, Queueable
<1>10. CountInv' BY DEF Clean, CountInv, HalPhase, Handling, AfterWait
<1>11. OnceInv' BY DEF Clean, OnceInv
<1> QED BY <1>5, <1>6, <1>7, <1>8, <1>9, <1>10, <1>11 DEF Clean

LEMMA CleanResetCounters ==
  ASSUME TypeInv, Clean, ResetCounters PROVE Clean'
<1> USE DEF ResetCounters, c0Vars, tableVars, tileVars, outVars
<1>1. /\ \A t \in Tiles : ~Holding(t) /\ ~Holding(t)'
      /\ \A s \in Slots : slots'[s] = ZeroTask
  BY DEF Clean, TableInv, Holding
<1>2. ZeroTask.test = NoTest /\ ZeroTask.id = 0 BY DEF ZeroTask
<1>3. \A k \in Tests : Future(k)' => Future(k) BY DEF Future, Handling
<1>4. TableInv' BY <1>1, <1>2 DEF TableInv
<1>5. HolderInv' BY <1>1 DEF HolderInv
<1>6. AvailableInv' BY <1>1, <1>2 DEF AvailableInv, Available
<1>7. FutureInv' BY <1>1, <1>2, <1>3, IndexSets DEF Clean, FutureInv
<1>8. QueueInv' BY DEF QueueInv, Queueable
<1>9. CountInv' BY FS_EmptySet DEF CountInv, AfterWait
<1>10. OnceInv' BY DEF Clean, OnceInv
<1> QED BY <1>4, <1>5, <1>6, <1>7, <1>8, <1>9, <1>10 DEF Clean

\* A step of a tile between two places where the same is known of its task.
LEMMA CleanMove ==
  ASSUME TypeInv, Clean, NEW t \in Tiles, NEW to,
         UNCHANGED <<mpc, mi, slots, count, ptr, execs, stored, finished,
                     completed>>,
         tpc' = [tpc EXCEPT ![t] = to],
         \A u \in Tiles \ {t} : task'[u] = task[u] /\ func'[u] = func[u],
         to \in HoldsTask =>
            /\ tpc[t] \in HoldsTask /\ task' = task /\ func' = func
            /\ to \in {"type", "stats", "lock", "call"} <=>
                  tpc[t] \in {"type", "stats", "lock", "call"}
            /\ to \in {"unlock", "irq", "complete", "state", "count"} =>
                  TestOf(t) \in stored
  PROVE  Clean'
<1>1. /\ \A u \in Tiles : Holding(u)' => Holding(u) /\ TestOf(u)' = TestOf(u)
      /\ tpc \in [Tiles -> TileStates]
  BY DEF Holding, TestOf, TypeInv, TypeOK
<1>2. TableInv' BY <1>1 DEF Clean, TableInv, HalPhase
<1>3. HolderInv'
  <2>1. ASSUME NEW u \in Tiles, Holding(u)'
        PROVE /\ slots'[task'[u]].taken /\ TestOf(u)' \in Tests
              /\ \A v \in Tiles : Holding(v)' /\ TestOf(v)' = TestOf(u)' => v = u
              /\ tpc'[u] \in {"type", "stats", "lock", "call"} => execs'[TestOf(u)'] = 0
              /\ tpc'[u] \notin {"type", "stats", "lock", "call"} => func'[u] = TestOf(u)'
              /\ tpc'[u] \in {"unlock", "irq", "complete", "state", "count"}
                    => TestOf(u)' \in stored'
              /\ TestOf(u)' \notin finished'
    <3>1. /\ Holding(u) /\ TestOf(u)' = TestOf(u) /\ task'[u] = task[u] /\ func'[u] = func[u]
      BY <1>1, <2>1 DEF Holding
    <3>2. /\ slots[task[u]].taken /\ TestOf(u) \in Tests
          /\ \A v \in Tiles : Holding(v) /\ TestOf(v) = TestOf(u) => v = u
          /\ tpc[u] \in {"type", "stats", "lock", "call"} => execs[TestOf(u)] = 0
          /\ tpc[u] \notin {"type", "stats", "lock", "call"} => func[u] = TestOf(u)
          /\ tpc[u] \in {"unlock", "irq", "complete", "state", "count"}
                => TestOf(u) \in stored
          /\ TestOf(u) \notin finished
      BY <3>1 DEF Clean, HolderInv
    <3>3. CASE u = t BY <3>1, <3>2, <3>3, <2>1, <1>1 DEF Holding
    <3>4. CASE u # t BY <3>1, <3>2, <3>4, <2>1, <1>1 DEF Holding
    <3> QED BY <3>3, <3>4
  <2> QED BY <2>1 DEF HolderInv
<1>4. AvailableInv' BY <1>1 DEF Clean, AvailableInv, Available
<1>5. FutureInv' BY DEF Clean, FutureInv, Future
<1>6. QueueInv' BY DEF Clean, QueueInv, Queueable
<1>7. CountInv' BY DEF Clean, CountInv, HalPhase
<1>8. OnceInv' BY DEF Clean, OnceInv
<1> QED BY <1>2, <1>3, <1>4, <1>5, <1>6, <1>7, <1>8 DEF Clean

LEMMA CleanMoves ==
  ASSUME TypeInv, Clean, NEW t \in Tiles,
         \/ TileInit(t) \/ TileIdle(t) \/ TileType(t) \/ TileStats(t)
         \/ TileLock(t) \/ TileUnlock(t) \/ TileInterrupt(t) \/ TileState(t)
         \/ TilePost(t) \/ TileCheck(t) \/ TileExit(t)
  PROVE  Clean'
<1> USE DEF Goto, HoldsTask, c0Vars, tableVars, counterVars, tileVars, outVars, history
<1>a. /\ task \in [Tiles -> Slots \cup {NoSlot}]
      /\ func \in [Tiles -> Tests \cup {NoTest}]
  BY DEF TypeInv, TypeOK
<1>b. Holding(t) /\ tpc[t] \in {"unlock", "irq", "complete", "state", "count"}
        => TestOf(t) \in stored
  BY DEF Clean, HolderInv
<1>c. Holding(t) => slots[task[t]].kind = "HAL_TEST"
  <2>1. Holding(t) => task[t] \in Slots /\ TestOf(t) \in Tests
    BY DEF Clean, HolderInv, TypeInv, TilePtr, Holding
  <2>2. \A s \in Slots : slots[s].test # NoTest => slots[s].kind = "HAL_TEST"
    BY DEF Clean, TableInv
  <2> QED BY <2>1, <2>2, IndexSets DEF TestOf
<1>1. CASE TileInit(t) BY <1>1, CleanMove DEF TileInit
<1>2. CASE TileIdle(t) BY <1>2, CleanMove DEF TileIdle
<1>3. CASE TileType(t)
  <2>1. tpc' = [tpc EXCEPT ![t] = "stats"] BY <1>3, <1>c DEF TileType, Holding
  <2> QED BY <1>3, <2>1, CleanMove DEF TileType
<1>4. CASE TileStats(t)
  <2>1. CASE slots[task[t]].test = NoTest BY <1>4, <2>1, CleanMove DEF TileStats
  <2>2. CASE slots[task[t]].test # NoTest BY <1>4, <2>2, CleanMove DEF TileStats
  <2> QED BY <2>1, <2>2
<1>5. CASE TileLock(t) BY <1>5, CleanMove DEF TileLock
<1>6. CASE TileUnlock(t) BY <1>6, <1>b, CleanMove DEF TileUnlock, Holding
<1>7. CASE TileInterrupt(t) BY <1>7, <1>b, CleanMove DEF TileInterrupt, Holding
<1>8. CASE TileState(t) BY <1>8, <1>b, CleanMove DEF TileState, Holding
<1>9. CASE TilePost(t) BY <1>9, <1>a, CleanMove DEF TilePost
<1>10. CASE TileCheck(t)
  <2>1. CASE running[t] BY <1>10, <2>1, CleanMove DEF TileCheck
  <2>2. CASE ~running[t] BY <1>10, <2>2, CleanMove DEF TileCheck
  <2> QED BY <2>1, <2>2
<1>11. CASE TileExit(t) BY <1>11, CleanMove DEF TileExit
<1> QED BY <1>1, <1>2, <1>3, <1>4, <1>5, <1>6, <1>7, <1>8, <1>9, <1>10, <1>11

\* The slot taken was available: nobody held its test.
LEMMA CleanTake ==
  ASSUME TypeInv, Clean, NEW t \in Tiles, TileTake(t) PROVE Clean'
<1> USE DEF Goto, c0Vars, counterVars, outVars, history
<1>1. PICK s \in Slots :
        /\ FirstTakeable(s, t)
        /\ slots' = [slots EXCEPT ![s].taken = TRUE, ![s].assigned = Invalid]
        /\ task' = [task EXCEPT ![t] = s]
  BY DEF TileTake
<1>2. /\ UNCHANGED <<mpc, mi, count, ptr, execs, stored, finished, completed, func, stale>>
      /\ tpc[t] = "poll" /\ tpc' = [tpc EXCEPT ![t] = "type"]
      /\ slots \in [Slots -> Task] /\ tpc \in [Tiles -> TileStates]
      /\ task \in [Tiles -> Slots \cup {NoSlot}]
  BY DEF TileTake, TypeInv, TypeOK
<1>3. /\ Available(s) /\ slots[s].assigned = t /\ s < count
      /\ slots[s].test \in Tests
  <2>1. slots[s].id > 0 /\ ~slots[s].taken /\ slots[s].assigned = t /\ s < count
    BY <1>1 DEF FirstTakeable, Takeable
  <2>2. slots[s].test # NoTest BY <2>1 DEF Clean, TableInv
  <2>3. slots[s].test \in Tests \cup {NoTest} BY <1>2 DEF Task
  <2> QED BY <2>1, <2>2, <2>3 DEF Available
<1>4. /\ slots'[s].taken /\ slots'[s].test = slots[s].test
      /\ slots'[s].id = slots[s].id /\ slots'[s].kind = slots[s].kind
      /\ \A r \in Slots : r # s => slots'[r] = slots[r]
  BY <1>1, <1>2 DEF Task
<1>5. /\ \A r \in Slots :
           /\ slots'[r].test = slots[r].test
           /\ slots'[r].id = slots[r].id
           /\ slots'[r].kind = slots[r].kind
           /\ slots[r].taken => slots'[r].taken
      /\ \A r \in Slots : Available(r)' => Available(r) /\ r # s
  BY <1>4 DEF Available
<1>6. /\ Holding(t)' /\ ~Holding(t) /\ TestOf(t)' = slots[s].test
      /\ \A u \in Tiles : u # t => Holding(u)' = Holding(u) /\ tpc'[u] = tpc[u]
                               /\ task'[u] = task[u]
                               /\ (Holding(u) => TestOf(u)' = TestOf(u))
  BY <1>1, <1>2, <1>5 DEF Holding, HoldsTask, TestOf, TypeInv, TilePtr
<1>7. /\ \A r \in Slots : Available(r) /\ slots[r].test = slots[s].test => r = s
      /\ \A u \in Tiles : Holding(u) => TestOf(u) # slots[s].test
      /\ execs[slots[s].test] = 0 /\ slots[s].test \notin finished
  BY <1>3 DEF Clean, AvailableInv
<1>8. TableInv'
  <2>1. \A r \in Slots : r >= count => r # s /\ slots'[r] = ZeroTask
    <3>1. \A r \in Slots : r >= count => slots[r] = ZeroTask
      BY DEF Clean, TableInv
    <3>2. \A r \in Slots : slots[r] = ZeroTask => r # s
      BY <1>3 DEF ZeroTask, Available
    <3>3. \A r \in Slots : r # s => slots'[r] = slots[r] BY <1>4
    <3> QED BY <3>1, <3>2, <3>3
  <2>2. mpc \in {"memset", "fill"} => ptr[mi] # s
    BY <1>3, IndexSets DEF Clean, TableInv, ZeroTask
  <2>3. mpc # "resetctr"
    <3>1. mpc = "resetctr" => slots[s] = ZeroTask BY DEF Clean, TableInv
    <3> QED BY <3>1, <1>3, IndexSets DEF ZeroTask
  <2>4. mpc \in {"memset", "fill"} => slots'[ptr[mi]] = ZeroTask /\ ptr[mi] < count
    BY <2>2, <1>4 DEF Clean, TableInv, TypeInv, C0Ptr
  <2>5. \A r \in Slots : /\ slots'[r].id > 0 => slots'[r].test # NoTest
                         /\ slots'[r].test # NoTest => slots'[r].kind = "HAL_TEST"
    <3>1. \A r \in Slots : /\ slots[r].id > 0 => slots[r].test # NoTest
                           /\ slots[r].test # NoTest => slots[r].kind = "HAL_TEST"
      BY DEF Clean, TableInv
    <3> QED BY <3>1, <1>5
  <2>6. HalPhase' => \A r \in Slots : slots'[r].test \in HalTests \cup {NoTest}
    <3>1. HalPhase => \A r \in Slots : slots[r].test \in HalTests \cup {NoTest}
      BY DEF Clean, TableInv
    <3>2. HalPhase' = HalPhase BY <1>2 DEF HalPhase
    <3> QED BY <3>1, <3>2, <1>5
  <2> QED BY <1>2, <2>1, <2>3, <2>4, <2>5, <2>6 DEF TableInv
<1>9. HolderInv'
  <2>1. ASSUME NEW u \in Tiles, u # t, Holding(u)
        PROVE /\ slots'[task[u]].taken /\ TestOf(u) \in Tests
              /\ \A v \in Tiles : Holding(v) /\ TestOf(v) = TestOf(u) => v = u
              /\ tpc[u] \in {"type", "stats", "lock", "call"} => execs[TestOf(u)] = 0
              /\ tpc[u] \notin {"type", "stats", "lock", "call"} => func[u] = TestOf(u)
              /\ tpc[u] \in {"unlock", "irq", "complete", "state", "count"}
                    => TestOf(u) \in stored
              /\ TestOf(u) \notin finished /\ TestOf(u) # slots[s].test
    <3>1. task[u] \in Slots /\ TestOf(u) # slots[s].test
      BY <2>1, <1>7 DEF TypeInv, TilePtr, Holding
    <3>2. slots[task[u]].taken BY <2>1 DEF Clean, HolderInv
    <3>3. slots'[task[u]].taken BY <3>1, <3>2, <1>5
    <3> QED BY <2>1, <3>1, <3>3 DEF Clean, HolderInv
  <2>2. tpc'[t] = "type" /\ task'[t] = s BY <1>1, <1>2
  <2>3. ASSUME NEW u \in Tiles, Holding(u)'
        PROVE /\ slots'[task'[u]].taken /\ TestOf(u)' \in Tests
              /\ \A v \in Tiles : Holding(v)' /\ TestOf(v)' = TestOf(u)' => v = u
              /\ tpc'[u] \in {"type", "stats", "lock", "call"} => execs'[TestOf(u)'] = 0
              /\ tpc'[u] \notin {"type", "stats", "lock", "call"} => func'[u] = TestOf(u)'
              /\ tpc'[u] \in {"unlock", "irq", "complete", "state", "count"}
                    => TestOf(u)' \in stored'
              /\ TestOf(u)' \notin finished'
    <3>1. CASE u = t BY <3>1, <2>1, <2>2, <1>2, <1>3, <1>4, <1>6, <1>7
    <3>2. CASE u # t BY <3>2, <2>1, <2>3, <1>2, <1>6
    <3> QED BY <3>1, <3>2
  <2> QED BY <2>3 DEF HolderInv
<1>10. AvailableInv'
  <2>1. ASSUME NEW r \in Slots, Available(r)'
        PROVE /\ \A q \in Slots : Available(q)' /\ slots'[q].test = slots'[r].test => q = r
              /\ \A u \in Tiles : Holding(u)' => TestOf(u)' # slots'[r].test
              /\ execs'[slots'[r].test] = 0 /\ slots'[r].test \notin finished'
    <3>1. /\ \A q \in Slots : Available(q) /\ slots[q].test = slots[r].test => q = r
          /\ \A u \in Tiles : Holding(u) => TestOf(u) # slots[r].test
          /\ execs[slots[r].test] = 0 /\ slots[r].test \notin finished
          /\ slots[r].test # slots[s].test
      <4>1. Available(r) /\ r # s BY <2>1, <1>5
      <4>2. /\ \A q \in Slots : Available(q) /\ slots[q].test = slots[r].test => q = r
            /\ \A u \in Tiles : Holding(u) => TestOf(u) # slots[r].test
            /\ execs[slots[r].test] = 0 /\ slots[r].test \notin finished
        BY <4>1 DEF Clean, AvailableInv
      <4> QED BY <4>1, <4>2, <1>7
    <3>2. slots'[r].test = slots[r].test BY <1>5
    <3>3. \A q \in Slots : Available(q)' /\ slots'[q].test = slots'[r].test => q = r
      <4>1. \A q \in Slots : slots'[q].test = slots[q].test BY <1>5
      <4>2. \A q \in Slots : Available(q)' => Available(q) BY <1>5
      <4> QED BY <4>1, <4>2, <3>1, <3>2
    <3>4. \A u \in Tiles : Holding(u)' => TestOf(u)' # slots'[r].test
      BY <3>1, <3>2, <1>6
    <3> QED BY <3>1, <3>2, <3>3, <3>4, <1>2
  <2> QED BY <2>1 DEF AvailableInv
<1>11. FutureInv'
  <2>1. \A r \in Slots : slots'[r].test = slots[r].test BY <1>5
  <2> QED BY <1>2, <2>1 DEF Clean, FutureInv, Future
<1>12. QueueInv'
  <2>1. ASSUME NEW k \in Tests, Queueable(k)
        PROVE  /\ ptr[k] \in Slots /\ ptr[k] < count
               /\ slots'[ptr[k]].test = k /\ slots'[ptr[k]].assigned = Unassigned
               /\ ~slots'[ptr[k]].taken
    <3>1. /\ ptr[k] \in Slots /\ ptr[k] < count
          /\ slots[ptr[k]].test = k /\ slots[ptr[k]].assigned = Unassigned
          /\ ~slots[ptr[k]].taken
      BY <2>1 DEF Clean, QueueInv
    <3>2. ptr[k] # s BY <3>1, <1>3, IndexSets DEF Unassigned
    <3> QED BY <3>1, <3>2, <1>4
  <2>2. mpc \in {"account", "copy"} => ptr[mi] < count /\ slots'[ptr[mi]].test = mi
    <3>1. \A r \in Slots : slots'[r].test = slots[r].test BY <1>5
    <3>2. mpc \in {"account", "copy"} => ptr[mi] \in Slots BY DEF TypeInv, C0Ptr
    <3> QED BY <3>1, <3>2 DEF Clean, QueueInv
  <2> QED BY <2>1, <2>2, <1>2 DEF QueueInv, Queueable
<1>13. CountInv' BY <1>2 DEF Clean, CountInv, HalPhase
<1>14. OnceInv' BY <1>2 DEF Clean, OnceInv
<1> QED BY <1>8, <1>9, <1>10, <1>11, <1>12, <1>13, <1>14 DEF Clean

\* What a tile at work has: a test of its own, which nothing else refers to.
LEMMA HolderHas ==
  ASSUME TypeInv, Clean, NEW t \in Tiles, Holding(t)
  PROVE  /\ task[t] \in Slots /\ slots[task[t]].taken
         /\ TestOf(t) \in Tests /\ TestOf(t) # NoTest
         /\ \A u \in Tiles : Holding(u) /\ u # t => TestOf(u) # TestOf(t)
         /\ \A s \in Slots : Available(s) => slots[s].test # TestOf(t)
         /\ \A k \in Tests : Future(k) => k # TestOf(t)
         /\ TestOf(t) \notin finished
         /\ HalPhase => TestOf(t) \in HalTests
<1>1. /\ task[t] \in Slots /\ slots[task[t]].taken
      /\ TestOf(t) \in Tests /\ TestOf(t) # NoTest
      /\ \A u \in Tiles : Holding(u) /\ u # t => TestOf(u) # TestOf(t)
      /\ TestOf(t) \notin finished
  BY IndexSets DEF Clean, HolderInv, TypeInv, TilePtr, Holding
<1>2. \A s \in Slots : Available(s) => slots[s].test # TestOf(t)
  BY DEF Clean, AvailableInv
<1>3. \A k \in Tests : Future(k) => k # TestOf(t)
  BY <1>1 DEF Clean, FutureInv, TestOf
<1>4. HalPhase => TestOf(t) \in HalTests
  <2>1. HalPhase => \A s \in Slots : slots[s].test \in HalTests \cup {NoTest}
    BY DEF Clean, TableInv
  <2> QED BY <2>1, <1>1 DEF TestOf
<1> QED BY <1>1, <1>2, <1>3, <1>4

LEMMA CleanCall ==
  ASSUME TypeInv, Clean, NEW t \in Tiles, TileCall(t) PROVE Clean'
<1> USE DEF Goto, c0Vars, tableVars, counterVars, outVars
<1> DEFINE k == TestOf(t)
<1>1. Holding(t) /\ tpc[t] = "call" BY DEF TileCall, Holding, HoldsTask
<1>2. /\ k \in Tests /\ k # NoTest
      /\ \A u \in Tiles : Holding(u) /\ u # t => TestOf(u) # k
      /\ \A s \in Slots : Available(s) => slots[s].test # k
      /\ \A j \in Tests : Future(j) => j # k
  BY <1>1, HolderHas
<1>3. execs[k] = 0 BY <1>1 DEF Clean, HolderInv
<1>4. /\ tpc' = [tpc EXCEPT ![t] = "body"] /\ func' = [func EXCEPT ![t] = k]
      /\ execs' = [execs EXCEPT ![k] = execs[k] + 1]
      /\ UNCHANGED <<mpc, mi, ptr, slots, count, completed, task, stored, finished>>
  BY <1>2 DEF TileCall, TestOf
<1>5. /\ tpc \in [Tiles -> TileStates] /\ execs \in [Tests -> Nat]
      /\ func \in [Tiles -> Tests \cup {NoTest}]
  BY DEF TypeInv, TypeOK
<1>6. \A u \in Tiles : Holding(u)' = Holding(u) /\ TestOf(u)' = TestOf(u)
  BY <1>1, <1>4, <1>5 DEF Holding, HoldsTask, TestOf
<1>7. /\ execs'[k] = 1 /\ \A j \in Tests : j # k => execs'[j] = execs[j]
  BY <1>2, <1>3, <1>4, <1>5
<1> HIDE DEF k
<1>8. TableInv' BY <1>4, <1>6 DEF Clean, TableInv, HalPhase
<1>9. HolderInv'
  <2>1. ASSUME NEW u \in Tiles, Holding(u)'
        PROVE /\ slots'[task'[u]].taken /\ TestOf(u)' \in Tests
              /\ \A v \in Tiles : Holding(v)' /\ TestOf(v)' = TestOf(u)' => v = u
              /\ tpc'[u] \in {"type", "stats", "lock", "call"} => execs'[TestOf(u)'] = 0
              /\ tpc'[u] \notin {"type", "stats", "lock", "call"} => func'[u] = TestOf(u)'
              /\ tpc'[u] \in {"unlock", "irq", "complete", "state", "count"}
                    => TestOf(u)' \in stored'
              /\ TestOf(u)' \notin finished'
    <3>1. /\ slots[task[u]].taken /\ TestOf(u) \in Tests
          /\ \A v \in Tiles : Holding(v) /\ TestOf(v) = TestOf(u) => v = u
          /\ tpc[u] \in {"type", "stats", "lock", "call"} => execs[TestOf(u)] = 0
          /\ tpc[u] \notin {"type", "stats", "lock", "call"} => func[u] = TestOf(u)
          /\ tpc[u] \in {"unlock", "irq", "complete", "state", "count"}
                => TestOf(u) \in stored
          /\ TestOf(u) \notin finished
      BY <2>1, <1>6 DEF Clean, HolderInv
    <3>2. CASE u = t BY <3>1, <3>2, <1>4, <1>5, <1>6 DEF k
    <3>3. CASE u # t
      <4>1. TestOf(u) # k BY <3>3, <2>1, <1>2, <1>6
      <4> QED BY <3>1, <3>3, <4>1, <1>4, <1>5, <1>6, <1>7
    <3> QED BY <3>2, <3>3
  <2> QED BY <2>1 DEF HolderInv
<1>10. AvailableInv'
  <2>1. \A s \in Slots : Available(s)' = Available(s) BY <1>4 DEF Available
  <2>2. \A s \in Slots : Available(s) => slots[s].test \in Tests
    BY DEF Available, TypeInv, TypeOK, Task
  <2> QED BY <2>1, <2>2, <1>2, <1>4, <1>6, <1>7 DEF Clean, AvailableInv
<1>11. FutureInv' BY <1>2, <1>4, <1>7 DEF Clean, FutureInv, Future
<1>12. QueueInv' BY <1>4 DEF Clean, QueueInv, Queueable
<1>13. CountInv' BY <1>4 DEF Clean, CountInv, HalPhase
<1>14. OnceInv' BY <1>7 DEF Clean, OnceInv
<1> QED BY <1>8, <1>9, <1>10, <1>11, <1>12, <1>13, <1>14 DEF Clean

LEMMA CleanStore ==
  ASSUME TypeInv, Clean, NEW t \in Tiles, TileStore(t) PROVE Clean'
<1> USE DEF Goto, c0Vars, tableVars, counterVars
<1>1. Holding(t) /\ tpc[t] = "body" BY DEF TileStore, Holding, HoldsTask
<1>2. TestOf(t) \in Tests /\ TestOf(t) # NoTest BY <1>1, HolderHas
<1>3. /\ tpc' = [tpc EXCEPT ![t] = "unlock"] /\ stored' = stored \cup {TestOf(t)}
      /\ UNCHANGED <<mpc, mi, ptr, slots, count, completed, task, func, execs, finished>>
  BY <1>2 DEF TileStore, TestOf
<1>4. tpc \in [Tiles -> TileStates] BY DEF TypeInv, TypeOK
<1>5. \A u \in Tiles : Holding(u)' = Holding(u) /\ TestOf(u)' = TestOf(u)
  BY <1>1, <1>3, <1>4 DEF Holding, HoldsTask, TestOf
<1>6. TableInv' BY <1>3, <1>5 DEF Clean, TableInv, HalPhase
<1>7. HolderInv'
  <2>1. ASSUME NEW u \in Tiles, Holding(u)'
        PROVE /\ slots'[task'[u]].taken /\ TestOf(u)' \in Tests
              /\ \A v \in Tiles : Holding(v)' /\ TestOf(v)' = TestOf(u)' => v = u
              /\ tpc'[u] \in {"type", "stats", "lock", "call"} => execs'[TestOf(u)'] = 0
              /\ tpc'[u] \notin {"type", "stats", "lock", "call"} => func'[u] = TestOf(u)'
              /\ tpc'[u] \in {"unlock", "irq", "complete", "state", "count"}
                    => TestOf(u)' \in stored'
              /\ TestOf(u)' \notin finished'
    <3>1. /\ slots[task[u]].taken /\ TestOf(u) \in Tests
          /\ \A v \in Tiles : Holding(v) /\ TestOf(v) = TestOf(u) => v = u
          /\ tpc[u] \in {"type", "stats", "lock", "call"} => execs[TestOf(u)] = 0
          /\ tpc[u] \notin {"type", "stats", "lock", "call"} => func[u] = TestOf(u)
          /\ tpc[u] \in {"unlock", "irq", "complete", "state", "count"}
                => TestOf(u) \in stored
          /\ TestOf(u) \notin finished
      BY <2>1, <1>5 DEF Clean, HolderInv
    <3>2. CASE u = t BY <3>1, <3>2, <1>1, <1>3, <1>4, <1>5
    <3>3. CASE u # t BY <3>1, <3>3, <1>3, <1>4, <1>5
    <3> QED BY <3>2, <3>3
  <2> QED BY <2>1 DEF HolderInv
<1>8. AvailableInv' BY <1>3, <1>5 DEF Clean, AvailableInv, Available
<1>9. FutureInv' BY <1>3 DEF Clean, FutureInv, Future
<1>10. QueueInv' BY <1>3 DEF Clean, QueueInv, Queueable
<1>11. CountInv' BY <1>3 DEF Clean, CountInv, HalPhase
<1>12. OnceInv' BY <1>3 DEF Clean, OnceInv
<1> QED BY <1>6, <1>7, <1>8, <1>9, <1>10, <1>11, <1>12 DEF Clean

LEMMA CleanComplete ==
  ASSUME TypeInv, Clean, NEW t \in Tiles, TileComplete(t) PROVE Clean'
<1> USE DEF Goto, c0Vars, counterVars, outVars, history
<1> DEFINE s == task[t]
<1>1. Holding(t) /\ tpc[t] = "complete" BY DEF TileComplete, Holding, HoldsTask
<1>2. s \in Slots /\ slots[s].test # NoTest /\ slots[s].taken
  BY <1>1, HolderHas DEF TestOf
<1>3. /\ tpc' = [tpc EXCEPT ![t] = "state"]
      /\ slots' = [slots EXCEPT ![s].completed = TRUE]
      /\ UNCHANGED <<mpc, mi, ptr, count, completed, task, func, execs, stored, finished>>
  BY DEF TileComplete
<1>4. tpc \in [Tiles -> TileStates] /\ slots \in [Slots -> Task]
  BY DEF TypeInv, TypeOK
<1> HIDE DEF s
<1>5. /\ slots'[s].test = slots[s].test /\ slots'[s].taken = slots[s].taken
      /\ slots'[s].id = slots[s].id /\ slots'[s].kind = slots[s].kind
      /\ slots'[s].assigned = slots[s].assigned
      /\ \A r \in Slots : r # s => slots'[r] = slots[r]
  BY <1>2, <1>3, <1>4 DEF Task
<1>6. \A r \in Slots :
         /\ slots'[r].test = slots[r].test /\ slots'[r].taken = slots[r].taken
         /\ slots'[r].id = slots[r].id /\ slots'[r].kind = slots[r].kind
         /\ slots'[r].assigned = slots[r].assigned
  BY <1>5
<1>7. /\ \A u \in Tiles : Holding(u)' = Holding(u)
      /\ \A u \in Tiles : Holding(u) => task[u] \in Slots /\ TestOf(u)' = TestOf(u)
  BY <1>1, <1>3, <1>4, <1>6 DEF Holding, HoldsTask, TestOf, TypeInv, TilePtr
<1>8. TableInv'
  <2>1. \A r \in Slots : slots[r] = ZeroTask => slots'[r] = ZeroTask
    BY <1>2, <1>5 DEF ZeroTask
  <2>2. mpc # "resetctr" BY <1>1 DEF Clean, TableInv
  <2>3. mpc \in {"memset", "fill"} => ptr[mi] \in Slots BY DEF TypeInv, C0Ptr
  <2> QED BY <1>3, <1>6, <2>1, <2>2, <2>3 DEF Clean, TableInv, HalPhase
<1>9. HolderInv'
  <2>1. ASSUME NEW u \in Tiles, Holding(u)'
        PROVE /\ slots'[task'[u]].taken /\ TestOf(u)' \in Tests
              /\ \A v \in Tiles : Holding(v)' /\ TestOf(v)' = TestOf(u)' => v = u
              /\ tpc'[u] \in {"type", "stats", "lock", "call"} => execs'[TestOf(u)'] = 0
              /\ tpc'[u] \notin {"type", "stats", "lock", "call"} => func'[u] = TestOf(u)'
              /\ tpc'[u] \in {"unlock", "irq", "complete", "state", "count"}
                    => TestOf(u)' \in stored'
              /\ TestOf(u)' \notin finished'
    <3>1. /\ slots[task[u]].taken /\ TestOf(u) \in Tests
          /\ \A v \in Tiles : Holding(v) /\ TestOf(v) = TestOf(u) => v = u
          /\ tpc[u] \in {"type", "stats", "lock", "call"} => execs[TestOf(u)] = 0
          /\ tpc[u] \notin {"type", "stats", "lock", "call"} => func[u] = TestOf(u)
          /\ tpc[u] \in {"unlock", "irq", "complete", "state", "count"}
                => TestOf(u) \in stored
          /\ TestOf(u) \notin finished
      BY <2>1, <1>7 DEF Clean, HolderInv
    <3>2. slots'[task[u]].taken BY <3>1, <2>1, <1>6, <1>7
    <3>3. \A v \in Tiles : Holding(v)' /\ TestOf(v)' = TestOf(u)' => v = u
      BY <3>1, <2>1, <1>7
    <3>4. CASE u = t BY <3>1, <3>2, <3>3, <3>4, <2>1, <1>1, <1>3, <1>4, <1>7
    <3>5. CASE u # t BY <3>1, <3>2, <3>3, <3>5, <2>1, <1>3, <1>4, <1>7
    <3> QED BY <3>4, <3>5
  <2> QED BY <2>1 DEF HolderInv
<1>10. AvailableInv' BY <1>3, <1>6, <1>7 DEF Clean, AvailableInv, Available
<1>11. FutureInv' BY <1>3, <1>6 DEF Clean, FutureInv, Future
<1>12. QueueInv'
  <2>1. mpc \in {"account", "copy"} => ptr[mi] \in Slots BY DEF TypeInv, C0Ptr
  <2> QED BY <1>3, <1>6, <2>1 DEF Clean, QueueInv, Queueable
<1>13. CountInv' BY <1>3 DEF Clean, CountInv, HalPhase
<1>14. OnceInv' BY <1>3 DEF Clean, OnceInv
<1> QED BY <1>8, <1>9, <1>10, <1>11, <1>12, <1>13, <1>14 DEF Clean

\* The test counted had not been counted: the counter stays the number of
\* tests that finished.
LEMMA CleanCount ==
  ASSUME TypeInv, Clean, NEW t \in Tiles, TileCount(t) PROVE Clean'
<1> USE DEF Goto, c0Vars, tableVars, outVars
<1>1. Holding(t) /\ tpc[t] = "count" BY DEF TileCount, Holding, HoldsTask
<1>2. /\ TestOf(t) \in Tests
      /\ \A u \in Tiles : Holding(u) /\ u # t => TestOf(u) # TestOf(t)
      /\ \A s \in Slots : Available(s) => slots[s].test # TestOf(t)
      /\ \A j \in Tests : Future(j) => j # TestOf(t)
      /\ TestOf(t) \notin finished
      /\ HalPhase => TestOf(t) \in HalTests
  BY <1>1, HolderHas
<1>3. func[t] = TestOf(t) /\ TestOf(t) \in stored
  BY <1>1 DEF Clean, HolderInv
<1>4. /\ tpc' = [tpc EXCEPT ![t] = "post"] /\ completed' = completed + 1
      /\ finished' = finished \cup {TestOf(t)}
      /\ UNCHANGED <<mpc, mi, ptr, slots, count, task, func, execs, stored>>
  BY <1>3 DEF TileCount
<1>5. tpc \in [Tiles -> TileStates] BY DEF TypeInv, TypeOK
<1>6. \A u \in Tiles : Holding(u)' =>
         u # t /\ Holding(u) /\ TestOf(u)' = TestOf(u) /\ tpc'[u] = tpc[u]
  BY <1>4, <1>5 DEF Holding, HoldsTask, TestOf
<1>7. TableInv' BY <1>4, <1>6 DEF Clean, TableInv, HalPhase
<1>8. HolderInv'
  <2>1. ASSUME NEW u \in Tiles, Holding(u)'
        PROVE /\ slots'[task'[u]].taken /\ TestOf(u)' \in Tests
              /\ \A v \in Tiles : Holding(v)' /\ TestOf(v)' = TestOf(u)' => v = u
              /\ tpc'[u] \in {"type", "stats", "lock", "call"} => execs'[TestOf(u)'] = 0
              /\ tpc'[u] \notin {"type", "stats", "lock", "call"} => func'[u] = TestOf(u)'
              /\ tpc'[u] \in {"unlock", "irq", "complete", "state", "count"}
                    => TestOf(u)' \in stored'
              /\ TestOf(u)' \notin finished'
    <3>1. /\ slots[task[u]].taken /\ TestOf(u) \in Tests
          /\ \A v \in Tiles : Holding(v) /\ TestOf(v) = TestOf(u) => v = u
          /\ tpc[u] \in {"type", "stats", "lock", "call"} => execs[TestOf(u)] = 0
          /\ tpc[u] \notin {"type", "stats", "lock", "call"} => func[u] = TestOf(u)
          /\ tpc[u] \in {"unlock", "irq", "complete", "state", "count"}
                => TestOf(u) \in stored
          /\ TestOf(u) \notin finished
      BY <2>1, <1>6 DEF Clean, HolderInv
    <3>2. TestOf(u) # TestOf(t) BY <2>1, <1>2, <1>6
    <3> QED BY <3>1, <3>2, <2>1, <1>4, <1>6
  <2> QED BY <2>1 DEF HolderInv
<1>9. AvailableInv' BY <1>2, <1>4, <1>6 DEF Clean, AvailableInv, Available
<1>10. FutureInv' BY <1>2, <1>4 DEF Clean, FutureInv, Future
<1>11. QueueInv' BY <1>4 DEF Clean, QueueInv, Queueable
<1>12. CountInv'
  <2>1. /\ IsFiniteSet(finished) /\ completed = Cardinality(finished)
        /\ finished \subseteq stored
    BY DEF Clean, CountInv
  <2>2. IsFiniteSet(finished') /\ Cardinality(finished') = Cardinality(finished) + 1
    BY <2>1, <1>2, <1>4, FS_AddElement
  <2>3. HalPhase' => finished' \subseteq HalTests
    BY <1>2, <1>4 DEF Clean, CountInv, HalPhase
  <2>4. mpc' \in AfterWait => HalTests \subseteq finished'
    BY <1>4 DEF Clean, CountInv
  <2> QED BY <2>1, <2>2, <2>3, <2>4, <1>3, <1>4 DEF CountInv
<1>13. OnceInv' BY <1>4 DEF Clean, OnceInv
<1> QED BY <1>7, <1>8, <1>9, <1>10, <1>11, <1>12, <1>13 DEF Clean

-----------------------------------------------------------------------------
LEMMA CleanInvInit == Init => CleanInv
<1> SUFFICES ASSUME Init PROVE Clean BY DEF CleanInv, Init
<1>1. \A s \in Slots : slots[s] = ZeroTask BY DEF Init
<1>2. ZeroTask.test = NoTest /\ ZeroTask.id = 0 BY DEF ZeroTask
<1>3. \A t \in Tiles : ~Holding(t) BY DEF Init, Holding, HoldsTask
<1>4. mpc = "create" /\ finished = {} /\ stored = {} /\ completed = 0
  BY DEF Init
<1>5. \A k \in Tests : execs[k] = 0 BY DEF Init
<1>6. TableInv BY <1>1, <1>2, <1>4 DEF TableInv, HalPhase, Handling
<1>7. HolderInv BY <1>3 DEF HolderInv
<1>8. AvailableInv BY <1>1, <1>2 DEF AvailableInv, Available
<1>9. FutureInv BY <1>1, <1>2, <1>4, <1>5, IndexSets DEF FutureInv
<1>10. QueueInv BY <1>4 DEF QueueInv, Queueable
<1>11. CountInv BY <1>4, FS_EmptySet DEF CountInv, HalPhase, Handling, AfterWait
<1>12. OnceInv BY <1>5 DEF OnceInv
<1> QED BY <1>6, <1>7, <1>8, <1>9, <1>10, <1>11, <1>12 DEF Clean

LEMMA StaleStep ==
  ASSUME TypeInv, BeforeReset => stale = {}, [Next]_vars
  PROVE  (BeforeReset => stale = {})'
<1> USE IndexSets DEF BeforeReset, Handling, c0Vars, tableVars, counterVars,
            tileVars, outVars, history
<1>a. \A k \in HalTests : k + 1 \notin ParTests \/ k + 1 \notin HalTests
  OBVIOUS
<1>1. CASE \/ StartTile \/ StartFails \/ RunAllTests \/ StartWait
           \/ AwaitInitialized \/ Supervise \/ RunC0Tests
  BY <1>1 DEF StartTile, StartFails, RunAllTests, StartWait, AwaitInitialized,
      Supervise, RunC0Tests
<1>2. CASE Reserve BY <1>2 DEF Reserve, AfterFailedCreate
<1>3. CASE ClearTask \/ Assign \/ Account BY <1>3 DEF ClearTask, Assign, Account
<1>4. CASE FillTask
  <2>1. mi \in Tests BY <1>4 DEF FillTask, TypeInv, C0Ptr
  <2> QED BY <1>4, <2>1 DEF FillTask
<1>5. CASE CopyTask
  <2>1. mi \in Tests BY <1>5 DEF CopyTask, TypeInv, C0Ptr
  <2> QED BY <1>5, <2>1 DEF CopyTask, AfterQueue
<1>6. CASE ParWait \/ ResetTable \/ ResetCounters \/ HalStart
  BY <1>6 DEF ParWait, ResetTable, ResetCounters, HalStart
<1>7. CASE CreateFailed BY <1>7 DEF CreateFailed, TypeInv, C0Ptr
<1>8. CASE WaitStart \/ WaitReturns \/ Report \/ StopTile \/ JoinTile
  BY <1>8 DEF WaitStart, WaitReturns, Report, StopTile, JoinTile
<1>9. ASSUME NEW t \in Tiles, TileStep(t) PROVE UNCHANGED <<mpc, mi, stale>>
  BY <1>9 DEF TileStep, TileInit, TileTake, TileIdle, TileType, TileStats,
      TileLock, TileCall, TileStore, TileUnlock, TileInterrupt, TileComplete,
      TileState, TileCount, TilePost, TileCheck, TileExit
<1>10. CASE UNCHANGED vars BY <1>10 DEF vars
<1> QED
  BY <1>1, <1>2, <1>3, <1>4, <1>5, <1>6, <1>7, <1>8, <1>9, <1>10
     DEF Next, C0Step, Terminated

LEMMA CleanInvStep == TypeInv /\ CleanInv /\ [Next]_vars => CleanInv'
<1> SUFFICES ASSUME TypeInv, CleanInv, [Next]_vars, stale' = {} PROVE Clean'
  BY StaleStep DEF CleanInv
<1>1. CASE ResetTable
  <2>1. stale = {} BY <1>1 DEF CleanInv, BeforeReset, ResetTable
  <2> QED BY <1>1, <2>1, CleanResetTable DEF CleanInv
<1>2. CASE C0Step /\ ~ResetTable
  <2>1. stale' = stale
    BY <1>2 DEF C0Step, StartTile, StartFails, RunAllTests, StartWait,
        AwaitInitialized, Supervise, RunC0Tests, Reserve, ClearTask, FillTask,
        Assign, Account, CopyTask, ParWait, ResetCounters, HalStart,
        CreateFailed, WaitStart, WaitReturns, Report, StopTile, JoinTile,
        history
  <2>2. Clean BY <2>1 DEF CleanInv
  <2> QED BY <1>2, <2>2, CleanPhases, CleanReserve, CleanClear, CleanFill,
             CleanAssign, CleanCopy, CleanResetCounters DEF C0Step
<1>3. ASSUME NEW t \in Tiles, TileStep(t) PROVE Clean'
  <2>1. stale' = stale
    BY <1>3 DEF TileStep, TileInit, TileTake, TileIdle, TileType, TileStats,
        TileLock, TileCall, TileStore, TileUnlock, TileInterrupt,
        TileComplete, TileState, TileCount, TilePost, TileCheck, TileExit,
        history
  <2>2. Clean BY <2>1 DEF CleanInv
  <2> QED BY <1>3, <2>2, CleanMoves, CleanTake, CleanCall, CleanStore,
             CleanComplete, CleanCount DEF TileStep
<1>4. CASE UNCHANGED vars
  <2> USE <1>4 DEF vars, c0Vars, tableVars, counterVars, tileVars, outVars, history
  <2>1. Clean BY DEF CleanInv
  <2>2. \A t \in Tiles : Holding(t)' = Holding(t) /\ TestOf(t)' = TestOf(t)
    BY DEF Holding, TestOf
  <2>3. TableInv' BY <2>1, <2>2 DEF Clean, TableInv, HalPhase
  <2>4. HolderInv' BY <2>1, <2>2 DEF Clean, HolderInv
  <2>5. AvailableInv' BY <2>1, <2>2 DEF Clean, AvailableInv, Available
  <2>6. FutureInv' /\ QueueInv' BY <2>1 DEF Clean, FutureInv, Future, QueueInv, Queueable
  <2>7. CountInv' /\ OnceInv' BY <2>1 DEF Clean, CountInv, HalPhase, OnceInv
  <2> QED BY <2>3, <2>4, <2>5, <2>6, <2>7 DEF Clean
<1> QED BY <1>1, <1>2, <1>3, <1>4 DEF Next, Terminated

LEMMA CleanImplies ==
  ASSUME TypeInv, CleanInv
  PROVE  ExecutedAtMostOnce /\ SlotIsPrivate /\ WaitMeansDone
<1> SUFFICES ASSUME stale = {} PROVE ExecutedAtMostOnce /\ SlotIsPrivate /\ WaitMeansDone
  BY DEF ExecutedAtMostOnce, SlotIsPrivate, WaitMeansDone
<1>0. Clean BY DEF CleanInv
<1>1. ExecutedAtMostOnce BY <1>0 DEF ExecutedAtMostOnce, Clean, OnceInv
<1>2. SlotIsPrivate
  <2>1. ASSUME NEW t \in Tiles, Holding(t)
        PROVE  /\ \A u \in Tiles : Holding(u) /\ task[u] = task[t] => u = t
               /\ mpc \in {"memset", "fill"} => ptr[mi] # task[t]
    <3>1. /\ TestOf(t) # NoTest
          /\ \A u \in Tiles : Holding(u) /\ u # t => TestOf(u) # TestOf(t)
      BY <1>0, <2>1, HolderHas
    <3>2. mpc \in {"memset", "fill"} => slots[ptr[mi]].test = NoTest
      BY <1>0 DEF Clean, TableInv, ZeroTask
    <3> QED BY <3>1, <3>2 DEF TestOf
  <2> QED BY <2>1 DEF SlotIsPrivate, Holding
<1>3. WaitMeansDone BY <1>0 DEF WaitMeansDone, Clean, CountInv
<1> QED BY <1>1, <1>2, <1>3

\* Before C0 creates its first task, and in particular while it runs tests
\* itself, no tile has one.
LEMMA EarlyIdle ==
  ASSUME TypeInv, CleanInv, mpc \in Early, NEW t \in Tiles
  PROVE  ~Holding(t)
<1>1. Clean BY DEF CleanInv, BeforeReset, Early
<1>2. \A k \in Tests : Future(k) BY DEF Early, Future
<1>3. SUFFICES ASSUME Holding(t) PROVE FALSE OBVIOUS
<1>4. TestOf(t) \in Tests BY <1>1, <1>3 DEF Clean, HolderInv
<1>5. task[t] \in Slots BY <1>3 DEF TypeInv, TilePtr, Holding
<1>6. slots[task[t]].test # TestOf(t) BY <1>1, <1>2, <1>4, <1>5 DEF Clean, FutureInv
<1> QED BY <1>6 DEF TestOf

\* No two tiles are ever inside a test at the same time, however many there
\* are, nor is one while C0 runs its own (OneTestAtATime, which the tests'
\* shared DMEM regions rely on).
THEOREM TestsAreSerialised == Spec => []OneTestAtATime
<1>1. Init => TypeInv /\ SessionInv /\ CleanInv
  BY TypeInvInit, CleanInvInit DEF Init, SessionInv, InSession
<1>2. TypeInv /\ SessionInv /\ CleanInv /\ [Next]_vars
        => (TypeInv /\ SessionInv /\ CleanInv)'
  BY TypeInvStep, SessionInvStep, CleanInvStep
<1>3. TypeInv /\ SessionInv /\ CleanInv => OneTestAtATime
  <2> SUFFICES ASSUME TypeInv, SessionInv, CleanInv PROVE OneTestAtATime
    OBVIOUS
  <2>1. \A t, u \in Tiles : tpc[t] \in InSession /\ tpc[u] \in InSession => t = u
    BY DEF SessionInv
  <2>2. C0RunsTests => \A t \in Tiles : tpc[t] \notin InSession
    BY EarlyIdle DEF C0RunsTests, Early, Holding, HoldsTask, InSession
  <2> QED BY <2>1, <2>2 DEF OneTestAtATime
<1> QED BY <1>1, <1>2, <1>3, PTL DEF Spec

LEMMA CleanInvariant == Spec => [](TypeInv /\ CleanInv)
<1>1. Init => TypeInv /\ CleanInv BY TypeInvInit, CleanInvInit
<1>2. TypeInv /\ CleanInv /\ [Next]_vars => (TypeInv /\ CleanInv)'
  BY TypeInvStep, CleanInvStep
<1> QED BY <1>1, <1>2, PTL DEF Spec

\* After a clean reset the table, the tiles and C0 agree on who has which
\* test, for every number of tiles, tests and slots.
THEOREM CleanAgreement == Spec => []CleanInv
BY CleanInvariant, PTL

\* After a clean reset no test function is called twice, however the tiles'
\* scans of the table interleave with C0's copies.
THEOREM DispatchedOnce == Spec => []ExecutedAtMostOnce
<1>1. TypeInv /\ CleanInv => ExecutedAtMostOnce BY CleanImplies
<1> QED BY <1>1, CleanInvariant, PTL

\* After a clean reset no two tiles share a slot, and C0 clears or fills none
\* that a tile works on.
THEOREM PrivateSlots == Spec => []SlotIsPrivate
<1>1. TypeInv /\ CleanInv => SlotIsPrivate BY CleanImplies
<1> QED BY <1>1, CleanInvariant, PTL

\* After a clean reset the wait returns only when every HAL test has stored
\* its result.
THEOREM WaitIsSound == Spec => []WaitMeansDone
<1>1. TypeInv /\ CleanInv => WaitMeansDone BY CleanImplies
<1> QED BY <1>1, CleanInvariant, PTL
=============================================================================
