---------------------------- MODULE TileLifeProofs -----------------------------
(***************************************************************************)
(* Theorems about the life of the tile threads and about the platform's    *)
(* counters in TileDispatch, for every number of tiles, tests and slots.   *)
(***************************************************************************)
EXTENDS TileDispatchProofs

\* Where C0 is between its supervision and the end of the wait.
Middle == {"c0tests", "reserve", "memset", "fill", "assign", "account", "copy",
           "parwait", "reset", "resetctr", "halprint", "nocreate",
           "waitprint", "wait", "report"}

\* A step of C0 that queues, waits, resets or prints leaves the tile threads.
LEMMA C0Middle ==
  ASSUME TypeInv,
         \/ RunC0Tests \/ Reserve \/ ClearTask \/ FillTask \/ Assign
         \/ Account \/ CopyTask \/ ParWait \/ ResetTable \/ ResetCounters
         \/ HalStart \/ CreateFailed \/ WaitStart \/ WaitReturns
  PROVE  /\ mpc \in Middle /\ mpc' \in Middle \ Early
         /\ UNCHANGED <<startFailed, tpc, running, initialized, tasksCompleted,
                        plicEnabled, pending>>
<1> USE DEF Middle, Early, c0Vars, tileVars, outVars
<1>1. CASE RunC0Tests BY <1>1 DEF RunC0Tests
<1>2. CASE Reserve BY <1>2 DEF Reserve, AfterFailedCreate
<1>3. CASE ClearTask \/ FillTask \/ Assign \/ Account
  BY <1>3 DEF ClearTask, FillTask, Assign, Account
<1>4. CASE CopyTask BY <1>4 DEF CopyTask, AfterQueue
<1>5. CASE ParWait BY <1>5 DEF ParWait
<1>6. CASE ResetTable \/ ResetCounters BY <1>6 DEF ResetTable, ResetCounters
<1>7. CASE HalStart \/ CreateFailed \/ WaitStart \/ WaitReturns
  BY <1>7 DEF HalStart, CreateFailed, WaitStart, WaitReturns
<1> QED BY <1>1, <1>2, <1>3, <1>4, <1>5, <1>6, <1>7

-----------------------------------------------------------------------------
(***************************************************************************)
(* The inductive invariant of the threads' life.                           *)
(***************************************************************************)

LEMMA LifeInvInit == Init => LifeInv
<1> SUFFICES ASSUME Init PROVE LifeInv OBVIOUS
<1> USE DEF Init
<1>1. StartInv BY IndexSets DEF StartInv
<1>2. StopInv BY DEF StopInv, Stopping
<1>3. WorkInv BY DEF WorkInv, HoldsTask
<1> QED BY <1>1, <1>2, <1>3 DEF LifeInv

LEMMA StartInvStep ==
  ASSUME TypeInv, LifeInv, [Next]_vars PROVE StartInv'
<1> USE DEF LifeInv, StartInv, c0Vars, tableVars, counterVars, tileVars,
            outVars, history
<1>0. /\ tpc \in [Tiles -> TileStates] /\ initialized \in [Tiles -> BOOLEAN]
      /\ mi \in Nat
  BY DEF TypeInv, TypeOK
<1>1. CASE StartTile
  <2>1. /\ mpc = "create" /\ mpc' = "create" /\ mi \in Tiles /\ mi' = mi + 1
        /\ tpc' = [tpc EXCEPT ![mi] = "init"]
        /\ initialized' = [initialized EXCEPT ![mi] = FALSE]
        /\ startFailed' = startFailed
    BY <1>1 DEF StartTile
  <2>2. \A t \in Tiles : t >= mi + 1 => t # mi /\ t >= mi BY <1>0, IndexSets
  <2>3. \A t \in Tiles : initialized'[t] => t # mi /\ initialized[t] BY <2>1, <1>0
  <2> QED BY <2>1, <2>2, <2>3, <1>0
<1>2. CASE StartFails
  <2>1. \A t \in Tiles : initialized'[t] => initialized[t]
    BY <1>2, <1>0 DEF StartFails
  <2> QED BY <1>2, <2>1 DEF StartFails
<1>3. CASE RunAllTests BY <1>3 DEF RunAllTests
<1>4. CASE StartWait BY <1>4, IndexSets DEF StartWait
<1>5. CASE AwaitInitialized
  <2>1. CASE mi \in Tiles
    <3>1. \A t \in Tiles : t < mi + 1 => t < mi \/ t = mi BY <1>0, IndexSets
    <3> QED BY <1>0, <1>5, <2>1, <3>1 DEF AwaitInitialized
  <2>2. CASE mi \notin Tiles
    <3>1. \A t \in Tiles : t < mi BY <1>0, <1>5, <2>2, ConstantsAssumption DEF Tiles, AwaitInitialized
    <3> QED BY <1>0, <1>5, <2>2, <3>1 DEF AwaitInitialized
  <2> QED BY <2>1, <2>2
<1>6. CASE Supervise BY <1>6 DEF Supervise
<1>7. CASE Report BY <1>7 DEF Report
<1>8. CASE StopTile
  <2>1. CASE mi \in Tiles BY <1>0, <1>8, <2>1 DEF StopTile
  <2>2. CASE mi \notin Tiles BY <1>0, <1>8, <2>2 DEF StopTile
  <2> QED BY <2>1, <2>2
<1>9. CASE JoinTile BY <1>0, <1>9 DEF JoinTile
<1>10. CASE \/ RunC0Tests \/ Reserve \/ ClearTask \/ FillTask \/ Assign
            \/ Account \/ CopyTask \/ ParWait \/ ResetTable \/ ResetCounters
            \/ HalStart \/ CreateFailed \/ WaitStart \/ WaitReturns
  BY <1>10, C0Middle DEF Middle
<1>11. ASSUME NEW t \in Tiles, TileStep(t) PROVE StartInv'
  <2>1. CASE TileInit(t)
    <3>1. /\ tpc[t] = "init" /\ tpc' = [tpc EXCEPT ![t] = "poll"]
          /\ initialized' = [initialized EXCEPT ![t] = TRUE]
          /\ UNCHANGED <<mpc, mi, startFailed>>
      BY <2>1 DEF TileInit, Goto
    <3>2. \A u \in Tiles : initialized[u] => initialized'[u] BY <3>1, <1>0
    <3> QED BY <3>1, <3>2, <1>0
  <2>2. CASE ~TileInit(t)
    <3>1. /\ tpc[t] \notin {"new", "init"} /\ tpc'[t] \notin {"new", "init"}
          /\ \A u \in Tiles \ {t} : tpc'[u] = tpc[u]
          /\ UNCHANGED <<mpc, mi, startFailed, initialized>>
      BY <1>0, <1>11, <2>2 DEF TileStep, Goto, TileTake, TileIdle, TileType,
          TileStats, TileLock, TileCall, TileStore, TileUnlock, TileInterrupt,
          TileComplete, TileState, TileCount, TilePost, TileCheck, TileExit
    <3> QED BY <3>1
  <2> QED BY <2>1, <2>2
<1>12. CASE UNCHANGED vars BY <1>12 DEF vars
<1> QED BY <1>1, <1>2, <1>3, <1>4, <1>5, <1>6, <1>7, <1>8, <1>9, <1>10, <1>11,
           <1>12 DEF Next, C0Step, Terminated

LEMMA StopInvStep ==
  ASSUME TypeInv, LifeInv, [Next]_vars PROVE StopInv'
<1> USE DEF LifeInv, StopInv, Stopping, c0Vars, tableVars, counterVars,
            tileVars, outVars, history
<1>0. /\ tpc \in [Tiles -> TileStates] /\ running \in [Tiles -> BOOLEAN]
      /\ mi \in Nat /\ plicEnabled \in BOOLEAN
  BY DEF TypeInv, TypeOK
<1>s. /\ startFailed => mpc \in {"fallback", "done"}
      /\ mpc = "fallback" => startFailed
      /\ mpc \in {"stop", "join"} => mi >= 1 /\ \A t \in Tiles : initialized[t]
      /\ mpc = "done" /\ ~startFailed => \A t \in Tiles : initialized[t]
      /\ mpc = "create" => \A t \in Tiles : t >= mi => tpc[t] = "new"
      /\ \A t \in Tiles : initialized[t] => tpc[t] \notin {"new", "init"}
  BY DEF StartInv
<1>1. CASE StartTile
  <2>1. /\ mpc = "create" /\ mpc' = "create" /\ mi \in Tiles
        /\ tpc' = [tpc EXCEPT ![mi] = "init"]
        /\ running' = [running EXCEPT ![mi] = FALSE]
        /\ UNCHANGED <<startFailed, plicEnabled>>
    BY <1>1 DEF StartTile
  <2> QED BY <2>1, <1>0
<1>2. CASE StartFails
  <2>1. /\ mpc = "create" /\ mpc' = "fallback" /\ mi \in Tiles /\ tpc' = tpc
        /\ running' = [running EXCEPT ![mi] = FALSE]
        /\ startFailed' = TRUE
    BY <1>2 DEF StartFails
  <2>2. tpc[mi] = "new" BY <2>1, <1>s, <1>0
  <2> QED BY <2>1, <2>2, <1>0
<1>3. CASE RunAllTests BY <1>3, <1>s DEF RunAllTests
<1>4. CASE StartWait BY <1>4 DEF StartWait
<1>5. CASE AwaitInitialized BY <1>5 DEF AwaitInitialized
<1>6. CASE Supervise BY <1>6 DEF Supervise
<1>7. CASE Report
  <2>1. \A t \in Tiles : ~(t < 1) BY IndexSets
  <2> QED BY <1>7, <2>1, <1>s DEF Report
<1>8. CASE StopTile
  <2>1. CASE mi \in Tiles
    <3>1. \A t \in Tiles : t < mi + 1 => t < mi \/ t = mi BY <1>0, IndexSets
    <3>2. /\ mpc = "stop" /\ mpc' = "stop" /\ mi' = mi + 1
          /\ running' = [running EXCEPT ![mi] = FALSE]
          /\ UNCHANGED <<tpc, startFailed, plicEnabled>>
      BY <1>8, <2>1 DEF StopTile
    <3>3. ~startFailed BY <3>2, <1>s
    <3>4. \A t \in Tiles : running'[t] => t # mi /\ running[t] BY <3>2, <2>1, <1>0
    <3> QED BY <3>1, <3>2, <3>3, <3>4
  <2>2. CASE mi \notin Tiles
    <3>1. \A t \in Tiles : t < mi
      BY <1>0, <1>s, <1>8, <2>2, ConstantsAssumption DEF Tiles, StopTile
    <3>2. \A t \in Tiles : ~(t < 1) BY IndexSets
    <3> QED BY <1>8, <1>s, <2>2, <3>1, <3>2 DEF StopTile
  <2> QED BY <2>1, <2>2
<1>9. CASE JoinTile
  <2>1. CASE mi \in Tiles
    <3>1. \A t \in Tiles : t < mi + 1 => t < mi \/ t = mi BY <1>0, IndexSets
    <3> QED BY <1>9, <2>1, <3>1 DEF JoinTile
  <2>2. CASE mi \notin Tiles
    <3>1. \A t \in Tiles : t < mi
      BY <1>0, <1>s, <1>9, <2>2, ConstantsAssumption DEF Tiles, JoinTile
    <3> QED BY <1>9, <2>2, <3>1 DEF JoinTile
  <2> QED BY <2>1, <2>2
<1>10. CASE \/ RunC0Tests \/ Reserve \/ ClearTask \/ FillTask \/ Assign
            \/ Account \/ CopyTask \/ ParWait \/ ResetTable \/ ResetCounters
            \/ HalStart \/ CreateFailed \/ WaitStart \/ WaitReturns
  BY <1>10, C0Middle DEF Middle
<1>11. ASSUME NEW t \in Tiles, TileStep(t) PROVE StopInv'
  <2> USE DEF Goto
  <2>1. CASE TileInit(t)
    <3>1. /\ tpc[t] = "init" /\ tpc' = [tpc EXCEPT ![t] = "poll"]
          /\ running' = [running EXCEPT ![t] = TRUE]
          /\ UNCHANGED <<mpc, mi, startFailed, plicEnabled>>
      BY <2>1 DEF TileInit
    <3>2. mpc \notin {"stop", "join"} /\ (mpc = "done" => startFailed)
      BY <3>1, <1>s
    <3>3. \A u \in Tiles : running[u] => running'[u] BY <3>1, <1>0
    <3>4. running'[t] /\ \A u \in Tiles \ {t} : running'[u] = running[u]
      BY <3>1, <1>0
    <3>5. tpc'[t] = "poll" /\ \A u \in Tiles \ {t} : tpc'[u] = tpc[u]
      BY <3>1, <1>0
    <3> HIDE DEF Goto
    <3>6. \A u \in Tiles : tpc'[u] \notin {"new", "init"} /\ ~Stopping' => running'[u]
      BY <3>1, <3>2, <3>4, <3>5
    <3>7. \A u \in Tiles : tpc'[u] \in {"bye", "exit"} => ~running'[u]
      BY <3>4, <3>5
    <3> QED BY <3>1, <3>2, <3>6, <3>7
  <2>2. CASE TileCheck(t)
    <3>1. CASE running[t] BY <2>2, <3>1, <1>0 DEF TileCheck
    <3>2. CASE ~running[t] BY <2>2, <3>2, <1>0 DEF TileCheck
    <3> QED BY <3>1, <3>2
  <2>3. CASE TileExit(t) BY <2>3, <1>0 DEF TileExit
  <2>4. CASE ~TileInit(t) /\ ~TileCheck(t) /\ ~TileExit(t)
    <3>1. /\ tpc[t] \notin {"new", "init", "bye", "exit"}
          /\ tpc'[t] \notin {"new", "init", "bye", "exit"}
          /\ \A u \in Tiles \ {t} : tpc'[u] = tpc[u]
          /\ UNCHANGED <<mpc, mi, startFailed, running, plicEnabled>>
      BY <1>0, <1>11, <2>4 DEF TileStep, TileTake, TileIdle, TileType,
          TileStats, TileLock, TileCall, TileStore, TileUnlock, TileInterrupt,
          TileComplete, TileState, TileCount, TilePost
    <3> QED BY <3>1
  <2> QED BY <2>1, <2>2, <2>3, <2>4
<1>12. CASE UNCHANGED vars BY <1>12 DEF vars
<1> QED BY <1>1, <1>2, <1>3, <1>4, <1>5, <1>6, <1>7, <1>8, <1>9, <1>10, <1>11,
           <1>12 DEF Next, C0Step, Terminated

\* Before C0 creates its first task there is none to take.
LEMMA EarlyEmpty ==
  ASSUME TypeInv, CleanInv, mpc \in Early, NEW t \in Tiles
  PROVE  ~TileTake(t)
<1>1. Clean BY DEF CleanInv, BeforeReset, Early
<1>2. \A k \in Tests : Future(k) BY DEF Early, Future
<1>3. ASSUME NEW s \in Slots PROVE slots[s].id = 0
  <2>1. slots[s].test \in Tests \cup {NoTest} /\ slots[s].id \in Nat
    BY DEF TypeInv, TypeOK, Task
  <2>2. slots[s].test \notin Tests BY <1>1, <1>2 DEF Clean, FutureInv
  <2> QED BY <1>1, <2>1, <2>2 DEF Clean, TableInv
<1>4. \A s \in Slots : ~FirstTakeable(s, t) BY <1>3 DEF FirstTakeable, Takeable
<1> QED BY <1>4, Zenon DEF TileTake

\* The interrupt of a task is pending before its tile counts the task, and the
\* supervision, which claims all interrupts, comes before the first task.
LEMMA WorkInvStep ==
  ASSUME TypeInv, CleanInv, LifeInv, [Next]_vars PROVE WorkInv'
<1> USE DEF LifeInv, WorkInv, c0Vars, tableVars, counterVars, tileVars,
            outVars, history
<1>0. /\ tpc \in [Tiles -> TileStates] /\ tasksCompleted \in [Tiles -> Nat]
      /\ pending \subseteq Tiles
  BY DEF TypeInv, TypeOK
<1>1. CASE StartTile BY <1>0, <1>1 DEF StartTile, HoldsTask, Early
<1>2. CASE StartFails \/ RunAllTests \/ StartWait
  BY <1>2 DEF StartFails, RunAllTests, StartWait, Early
<1>3. CASE AwaitInitialized BY <1>3 DEF AwaitInitialized, Early
<1>4. CASE Supervise BY <1>0, <1>4 DEF Supervise, Early, HoldsTask
<1>5. CASE Report BY <1>5 DEF Report, Early
<1>6. CASE StopTile \/ JoinTile BY <1>6 DEF StopTile, JoinTile, Early
<1>7. CASE \/ RunC0Tests \/ Reserve \/ ClearTask \/ FillTask \/ Assign
           \/ Account \/ CopyTask \/ ParWait \/ ResetTable \/ ResetCounters
           \/ HalStart \/ CreateFailed \/ WaitStart \/ WaitReturns
  <2>1. mpc' \notin Early /\ UNCHANGED <<tpc, tasksCompleted, pending>>
    BY <1>7, C0Middle
  <2> QED BY <2>1
<1>8. ASSUME NEW t \in Tiles, TileStep(t) PROVE WorkInv'
  <2> USE DEF Goto
  <2>1. CASE TileInit(t) BY <2>1, <1>0 DEF TileInit, HoldsTask
  <2>2. CASE TileTake(t)
    <3>1. mpc \notin Early BY <2>2, EarlyEmpty
    <3> QED BY <3>1, <2>2, <1>0 DEF TileTake
  <2>3. CASE TileInterrupt(t)
    <3>1. /\ tpc[t] = "irq" /\ tpc' = [tpc EXCEPT ![t] = "complete"]
          /\ pending' = pending \cup {t} /\ UNCHANGED <<mpc, tasksCompleted>>
      BY <2>3 DEF TileInterrupt
    <3> QED BY <3>1, <1>0 DEF HoldsTask
  <2>4. CASE TileState(t)
    <3>1. /\ tpc[t] = "state" /\ tpc' = [tpc EXCEPT ![t] = "count"]
          /\ tasksCompleted' = [tasksCompleted EXCEPT ![t] = tasksCompleted[t] + 1]
          /\ UNCHANGED <<mpc, pending>>
      BY <2>4 DEF TileState
    <3>2. tasksCompleted'[t] > 0 BY <3>1, <1>0
    <3> QED BY <3>1, <3>2, <1>0 DEF HoldsTask
  <2>5. CASE TilePost(t)
    <3>1. /\ tpc[t] = "post" /\ tpc' = [tpc EXCEPT ![t] = "check"]
          /\ tasksCompleted' = [tasksCompleted EXCEPT ![t] = tasksCompleted[t] + 1]
          /\ UNCHANGED <<mpc, pending>>
      BY <2>5 DEF TilePost
    <3>2. mpc \notin Early BY <3>1
    <3> QED BY <3>1, <3>2, <1>0
  <2>6. CASE TileExit(t)
    <3>1. pending' = pending
      BY <2>6 DEF TileExit, StopInv, Stopping, StartInv
    <3> QED BY <3>1, <2>6, <1>0 DEF TileExit, HoldsTask
  <2>7. CASE \/ TileIdle(t) \/ TileType(t) \/ TileStats(t) \/ TileLock(t)
             \/ TileCall(t) \/ TileStore(t) \/ TileUnlock(t)
             \/ TileComplete(t) \/ TileCount(t) \/ TileCheck(t)
    <3>1. /\ \A u \in Tiles \ {t} : tpc'[u] = tpc[u]
          /\ tpc[t] \notin {"new", "init"} /\ tpc'[t] \notin {"new", "init"}
          /\ tpc'[t] \in HoldsTask \cup {"post"} => tpc[t] \in HoldsTask
          /\ tpc[t] = "complete" <=> tpc'[t] = "state"
          /\ tpc[t] # "state" /\ tpc'[t] # "complete"
          /\ tpc'[t] \in {"count", "post"} => tpc[t] \in {"count", "post"}
          /\ UNCHANGED <<mpc, tasksCompleted, pending>>
      BY <2>7, <1>0 DEF TileIdle, TileType, TileStats, TileLock, TileCall,
         TileStore, TileUnlock, TileComplete, TileCount, TileCheck, HoldsTask
    <3> QED BY <3>1
  <2> QED BY <1>8, <2>1, <2>2, <2>3, <2>4, <2>5, <2>6, <2>7 DEF TileStep
<1>9. CASE UNCHANGED vars BY <1>9 DEF vars
<1> QED BY <1>1, <1>2, <1>3, <1>4, <1>5, <1>6, <1>7, <1>8, <1>9
        DEF Next, C0Step, Terminated

LEMMA LifeInvariant == Spec => [](TypeInv /\ CleanInv /\ LifeInv)
<1>1. Init => TypeInv /\ CleanInv /\ LifeInv
  BY TypeInvInit, CleanInvInit, LifeInvInit
<1>2. TypeInv /\ CleanInv /\ LifeInv /\ [Next]_vars
        => (TypeInv /\ CleanInv /\ LifeInv)'
  <2>1. TypeInv /\ CleanInv /\ [Next]_vars => (TypeInv /\ CleanInv)'
    BY TypeInvStep, CleanInvStep
  <2>2. TypeInv /\ CleanInv /\ LifeInv /\ [Next]_vars => LifeInv'
    BY StartInvStep, StopInvStep, WorkInvStep DEF LifeInv
  <2> QED BY <2>1, <2>2
<1> QED BY <1>1, <1>2, PTL DEF Spec

\* Threads start, work and stop in the order the code means them to, for every
\* number of tiles and whether or not the reset was clean.
THEOREM ThreadLife == Spec => []LifeInv
BY LifeInvariant, PTL

\* No tile starts after C0 told it to stop: when C0 joins the tiles, the
\* `running' of each is and stays false.
THEOREM StopReachesAll == Spec => []StopIsNotLost
<1>1. TypeInv /\ CleanInv /\ LifeInv => StopIsNotLost
  BY DEF LifeInv, StartInv, StopInv, StopIsNotLost
<1> QED BY <1>1, LifeInvariant, PTL

\* When the suite is over, the interrupts still pending for C0 are those of
\* the tiles that worked, whether or not the reset was clean.
THEOREM PendingIsWork == Spec => []PendingTellsWhoWorked
<1>1. TypeInv /\ CleanInv /\ LifeInv => PendingTellsWhoWorked
  <2> SUFFICES ASSUME TypeInv, LifeInv, mpc = "done", ~startFailed
               PROVE  pending = {t \in Tiles : tasksCompleted[t] > 0}
    BY DEF PendingTellsWhoWorked
  <2>1. \A t \in Tiles : tpc[t] = "exit" BY DEF LifeInv, StopInv
  <2>2. \A t \in Tiles : t \in pending <=> tasksCompleted[t] > 0
    BY <2>1 DEF LifeInv, WorkInv
  <2>3. pending \subseteq Tiles BY DEF TypeInv, TypeOK
  <2> QED BY <2>2, <2>3
<1> QED BY <1>1, LifeInvariant, PTL

-----------------------------------------------------------------------------
(***************************************************************************)
(* The platform's counters after a clean reset.                            *)
(***************************************************************************)

\* A step that creates, accounts for and finishes no test.
LEMMA AccountKept ==
  ASSUME Clean, AccountInv, stale = {}, HalPhase, mi' = mi \/ mpc' # "assign",
         \A k \in HalTests : Created(k)' <=> Created(k),
         UNCHANGED <<finished, active>>,
         \A k \in HalTests : Created(k) =>
            ((mpc' \in {"assign", "account"} /\ k = mi')
                <=> (mpc \in {"assign", "account"} /\ k = mi))
  PROVE  /\ \A k \in finished' : Created(k)'
         /\ active' = Cardinality(Accounted') - Cardinality(finished')
<1>1. finished \subseteq HalTests BY DEF Clean, CountInv
<1>2. Accounted' = Accounted BY DEF Accounted
<1> QED BY <1>1, <1>2 DEF AccountInv

\* The sets the account is about are finite.
LEMMA AccountFinite ==
  ASSUME Clean, HalPhase
  PROVE  /\ IsFiniteSet(Accounted) /\ Cardinality(Accounted) \in Nat
         /\ IsFiniteSet(finished) /\ Cardinality(finished) \in Nat
         /\ finished \subseteq HalTests
<1>1. finished \subseteq HalTests /\ Accounted \subseteq HalTests
  BY DEF Clean, CountInv, Accounted
<1> QED BY <1>1, IndexSets, FS_Subset, FS_CardinalityType

LEMMA AccountInvC0 ==
  ASSUME TypeInv, Clean, AccountInv, stale = {}, C0Step, ~ResetTable, HalPhase'
  PROVE  /\ \A k \in finished' : Created(k)'
         /\ active' = Cardinality(Accounted') - Cardinality(finished')
<1> USE DEF c0Vars, tableVars, counterVars, tileVars, outVars, history
<1>0. /\ mpc \in Handling => mi \in Tests
      /\ mpc \in {"memset", "fill", "assign", "account", "copy"} => ptr[mi] \in Slots
      /\ slots \in [Slots -> Task] /\ active \in Int /\ count \in 0 .. Cap
  BY DEF TypeInv, TypeOK, C0Ptr, Handling
<1>1. CASE ResetCounters
  <2>1. /\ \A s \in Slots : slots'[s] = ZeroTask
        /\ finished' = {} /\ active' = 0
    BY <1>1 DEF ResetCounters, Clean, TableInv
  <2>2. \A k \in HalTests : ~Created(k)'
    BY <2>1, IndexSets DEF Created, ZeroTask
  <2>3. Accounted' = {} BY <2>2 DEF Accounted
  <2> QED BY <2>1, <2>3, FS_EmptySet
<1>2. CASE \/ StartTile \/ StartFails \/ RunAllTests \/ StartWait
           \/ AwaitInitialized \/ Supervise \/ RunC0Tests \/ ParWait
  <2>1. NTests + 1 \notin HalTests BY ConstantsAssumption DEF HalTests
  <2> QED BY <1>2, <2>1
       DEF StartTile, StartFails, RunAllTests, StartWait, AwaitInitialized,
           Supervise, RunC0Tests, ParWait, HalPhase, Handling
<1>3. CASE \/ HalStart \/ CreateFailed \/ WaitStart \/ WaitReturns \/ Report
           \/ StopTile \/ JoinTile
  <2>1. /\ HalPhase /\ mpc \notin {"assign", "account"}
        /\ mpc' \notin {"assign", "account"}
        /\ UNCHANGED <<slots, finished, active>>
    BY <1>3 DEF HalStart, CreateFailed, WaitStart, WaitReturns, Report,
        StopTile, JoinTile, HalPhase, Handling
  <2>2. \A k \in HalTests : Created(k)' <=> Created(k) BY <2>1 DEF Created
  <2> QED BY <2>1, <2>2, AccountKept
<1>4. CASE Reserve
  <2>1. /\ HalPhase /\ mpc \notin {"assign", "account"}
        /\ mpc' \notin {"assign", "account"}
        /\ UNCHANGED <<slots, finished, active>>
    BY <1>4, <1>0, IndexSets DEF Reserve, AfterFailedCreate, HalPhase, Handling
  <2>2. \A k \in HalTests : Created(k)' <=> Created(k) BY <2>1 DEF Created
  <2> QED BY <2>1, <2>2, AccountKept
<1>5. CASE ClearTask
  <2>1. slots' = slots BY <1>0, <1>5 DEF ClearTask, Clean, TableInv
  <2>2. /\ HalPhase /\ mpc \notin {"assign", "account"}
        /\ mpc' \notin {"assign", "account"}
        /\ UNCHANGED <<finished, active>>
    BY <1>5 DEF ClearTask, HalPhase, Handling
  <2>3. \A k \in HalTests : Created(k)' <=> Created(k) BY <2>1 DEF Created
  <2> QED BY <2>2, <2>3, AccountKept
<1>6. CASE FillTask
  <2>1. /\ mi \in HalTests /\ mi' = mi /\ HalPhase /\ mpc = "fill"
        /\ mpc' = "assign" /\ UNCHANGED <<finished, active>>
    BY <1>0, <1>6, IndexSets DEF FillTask, HalPhase, Handling
  <2>2. ~Created(mi)
    <3>1. Future(mi) BY <2>1, IndexSets DEF Future
    <3> QED BY <2>1, <3>1, IndexSets DEF Clean, FutureInv, Created
  <2>3. \A k \in HalTests : Created(k)' <=> Created(k) \/ k = mi
    <3>1. /\ ptr[mi] \in Slots /\ slots[ptr[mi]].test = NoTest
          /\ slots'[ptr[mi]].test = mi
          /\ \A s \in Slots : s # ptr[mi] => slots'[s] = slots[s]
      BY <1>0, <1>6 DEF FillTask, Clean, TableInv, ZeroTask
    <3> QED BY <3>1, IndexSets DEF Created
  <2>4. Accounted' = Accounted BY <2>1, <2>2, <2>3 DEF Accounted
  <2>5. finished \subseteq HalTests BY <2>1, AccountFinite
  <2> QED BY <2>1, <2>3, <2>4, <2>5 DEF AccountInv
<1>7. CASE Assign
  <2>1. /\ HalPhase /\ mpc = "assign" /\ mpc' = "account" /\ mi' = mi
        /\ UNCHANGED <<finished, active>>
        /\ slots' = [slots EXCEPT ![ptr[mi]].assigned = nextTile]
    BY <1>7 DEF Assign, HalPhase, Handling
  <2>2. \A s \in Slots : slots'[s].test = slots[s].test BY <1>0, <2>1 DEF Task
  <2>3. \A k \in HalTests : Created(k)' <=> Created(k) BY <2>2 DEF Created
  <2> QED BY <2>1, <2>3, AccountKept
<1>8. CASE Account
  <2>1. /\ mi \in HalTests /\ HalPhase /\ mpc = "account" /\ mpc' = "copy"
        /\ active' = active + 1 /\ UNCHANGED <<slots, mi, finished>>
    BY <1>0, <1>8, IndexSets DEF Account, HalPhase, Handling
  <2>2. Created(mi) BY <1>0, <2>1 DEF Clean, QueueInv, Created
  <2>3. \A k \in HalTests : Created(k)' <=> Created(k) BY <2>1 DEF Created
  <2>4. Accounted' = Accounted \cup {mi} /\ mi \notin Accounted
    BY <2>1, <2>2, <2>3 DEF Accounted
  <2>5. Cardinality(Accounted') = Cardinality(Accounted) + 1
    BY <2>1, <2>4, AccountFinite, FS_AddElement
  <2> QED BY <1>0, <2>1, <2>3, <2>5, AccountFinite DEF AccountInv
<1>9. CASE CopyTask
  <2>1. /\ mi \in HalTests /\ HalPhase /\ mpc = "copy"
        /\ mpc' \notin {"assign", "account"} /\ UNCHANGED <<finished, active>>
    BY <1>0, <1>9, IndexSets DEF CopyTask, AfterQueue, HalPhase, Handling
  <2>2. \A k \in HalTests : Created(k)' <=> Created(k)
    <3> DEFINE p == ptr[mi]
    <3>1. p \in Slots /\ slots[p].test = mi BY <1>0, <2>1 DEF Clean, QueueInv
    <3>2. CASE ~(count < Cap) BY <1>9, <3>2 DEF CopyTask, Created
    <3>3. CASE count < Cap
      <4>1. count \in Slots /\ slots[count].test = NoTest /\ count # p
        BY <1>0, <2>1, <3>1, <3>3, Indexes, IndexSets DEF Clean, TableInv, ZeroTask
      <4>2. /\ slots'[count] = slots[p]
            /\ slots'[p] = [slots[p] EXCEPT !.taken = TRUE, !.assigned = Invalid]
            /\ \A s \in Slots \ {p, count} : slots'[s] = slots[s]
        BY <1>0, <1>9, <3>1, <3>3, <4>1, IndexSets DEF CopyTask
      <4>3. slots'[p].test = slots[p].test BY <1>0, <3>1, <4>2 DEF Task
      <4> HIDE DEF p
      <4> QED BY <3>1, <4>1, <4>2, <4>3, IndexSets DEF Created
    <3> QED BY <3>2, <3>3
  <2> QED BY <2>1, <2>2, AccountKept
<1> QED BY <1>1, <1>2, <1>3, <1>4, <1>5, <1>6, <1>7, <1>8, <1>9 DEF C0Step

LEMMA AccountInvTile ==
  ASSUME TypeInv, Clean, AccountInv, stale = {}, NEW t \in Tiles, TileStep(t),
         HalPhase'
  PROVE  /\ \A k \in finished' : Created(k)'
         /\ active' = Cardinality(Accounted') - Cardinality(finished')
<1> USE DEF c0Vars, tableVars, counterVars, tileVars, outVars, history
<1>0. slots \in [Slots -> Task] /\ active \in Int BY DEF TypeInv, TypeOK
<1>1. HalPhase /\ UNCHANGED <<mpc, mi>>
  BY DEF TileStep, TileInit, TileTake, TileIdle, TileType, TileStats,
      TileLock, TileCall, TileStore, TileUnlock, TileInterrupt, TileComplete,
      TileState, TileCount, TilePost, TileCheck, TileExit, HalPhase
<1>2. ASSUME \A s \in Slots : slots'[s].test = slots[s].test,
             UNCHANGED <<finished, active>>
      PROVE  /\ \A k \in finished' : Created(k)'
             /\ active' = Cardinality(Accounted') - Cardinality(finished')
  <2>1. \A k \in HalTests : Created(k)' <=> Created(k) BY <1>2 DEF Created
  <2> QED BY <1>1, <1>2, <2>1, AccountKept
<1>3. CASE TileTake(t)
  <2>1. PICK s \in Slots :
          slots' = [slots EXCEPT ![s].taken = TRUE, ![s].assigned = Invalid]
    BY <1>3 DEF TileTake
  <2>2. \A r \in Slots : slots'[r].test = slots[r].test BY <1>0, <2>1 DEF Task
  <2>3. UNCHANGED <<finished, active>> BY <1>3 DEF TileTake
  <2> QED BY <1>2, <2>2, <2>3
<1>4. CASE TileComplete(t)
  <2>1. \A r \in Slots : slots'[r].test = slots[r].test
    BY <1>0, <1>4 DEF TileComplete, Task
  <2>2. UNCHANGED <<finished, active>> BY <1>4 DEF TileComplete
  <2> QED BY <1>2, <2>1, <2>2
<1>5. CASE TileCount(t)
  <2>1. Holding(t) /\ tpc[t] = "count"
    BY <1>5 DEF TileCount, Goto, Holding, HoldsTask
  <2>2. task[t] \in Slots /\ TestOf(t) \notin finished BY <2>1, HolderHas
  <2>3. /\ finished' = finished \cup {TestOf(t)} /\ active' = active - 1
        /\ UNCHANGED slots
    BY <1>5, <2>1 DEF TileCount, Clean, HolderInv
  <2>4. \A k : Created(k)' <=> Created(k) BY <2>3 DEF Created
  <2>5. Accounted' = Accounted BY <1>1, <2>4 DEF Accounted
  <2>6. Cardinality(finished') = Cardinality(finished) + 1
    BY <1>1, <2>2, <2>3, AccountFinite, FS_AddElement
  <2>7. Created(TestOf(t)) BY <2>2 DEF Created, TestOf
  <2>8. \A k \in finished' : Created(k)'
    BY <1>1, <2>3, <2>4, <2>7 DEF AccountInv
  <2> QED BY <1>0, <1>1, <2>3, <2>5, <2>6, <2>8, AccountFinite DEF AccountInv
<1>6. CASE \/ TileInit(t) \/ TileIdle(t) \/ TileType(t) \/ TileStats(t)
           \/ TileLock(t) \/ TileCall(t) \/ TileStore(t) \/ TileUnlock(t)
           \/ TileInterrupt(t) \/ TileState(t) \/ TilePost(t)
           \/ TileCheck(t) \/ TileExit(t)
  <2>1. UNCHANGED <<slots, finished, active>>
    BY <1>6 DEF TileInit, TileIdle, TileType, TileStats, TileLock, TileCall,
        TileStore, TileUnlock, TileInterrupt, TileState, TilePost, TileCheck,
        TileExit
  <2> QED BY <1>2, <2>1
<1> QED BY <1>3, <1>4, <1>5, <1>6 DEF TileStep

LEMMA AccountInvStep ==
  ASSUME TypeInv, CleanInv, AccountInv, [Next]_vars PROVE AccountInv'
<1> SUFFICES ASSUME stale' = {}, HalPhase'
             PROVE  /\ \A k \in finished' : Created(k)'
                    /\ active' = Cardinality(Accounted') - Cardinality(finished')
  BY DEF AccountInv
<1>1. ~ResetTable BY DEF ResetTable, HalPhase, Handling
<1>2. CASE C0Step
  <2>1. stale' = stale
    BY <1>1, <1>2 DEF C0Step, StartTile, StartFails, RunAllTests, StartWait,
        AwaitInitialized, Supervise, RunC0Tests, Reserve, ClearTask, FillTask,
        Assign, Account, CopyTask, ParWait, ResetCounters, HalStart,
        CreateFailed, WaitStart, WaitReturns, Report, StopTile, JoinTile,
        history
  <2> QED BY <1>1, <1>2, <2>1, AccountInvC0 DEF CleanInv
<1>3. ASSUME NEW t \in Tiles, TileStep(t)
      PROVE  /\ \A k \in finished' : Created(k)'
             /\ active' = Cardinality(Accounted') - Cardinality(finished')
  <2>1. stale' = stale
    BY <1>3 DEF TileStep, TileInit, TileTake, TileIdle, TileType, TileStats,
        TileLock, TileCall, TileStore, TileUnlock, TileInterrupt,
        TileComplete, TileState, TileCount, TilePost, TileCheck, TileExit,
        history
  <2> QED BY <1>3, <2>1, AccountInvTile DEF CleanInv
<1>4. CASE UNCHANGED vars
  <2> USE <1>4 DEF vars, c0Vars, tableVars, counterVars, tileVars, outVars, history
  <2>1. HalPhase /\ \A k : Created(k)' <=> Created(k) BY DEF HalPhase, Created
  <2>2. Accounted' = Accounted BY <2>1 DEF Accounted
  <2> QED BY <2>1, <2>2 DEF AccountInv
<1> QED BY <1>2, <1>3, <1>4 DEF Next, Terminated

LEMMA AccountInvariant == Spec => [](TypeInv /\ CleanInv /\ AccountInv)
<1>1. Init => TypeInv /\ CleanInv /\ AccountInv
  <2>1. Init => AccountInv BY DEF Init, AccountInv, HalPhase, Handling
  <2> QED BY <2>1, TypeInvInit, CleanInvInit
<1>2. TypeInv /\ CleanInv /\ AccountInv /\ [Next]_vars
        => (TypeInv /\ CleanInv /\ AccountInv)'
  BY TypeInvStep, CleanInvStep, AccountInvStep
<1> QED BY <1>1, <1>2, PTL DEF Spec

\* After a clean reset active_tasks is what C0 accounted for less what the
\* tiles finished, also while a tile is faster than C0.
THEOREM ActiveIsAccounted == Spec => []AccountInv
BY AccountInvariant, PTL

\* After a clean reset the wait returns with every test counted once and no
\* task active.
THEOREM CountersComeOut == Spec => []CountersSettle
<1>1. TypeInv /\ CleanInv /\ AccountInv => CountersSettle
  <2> SUFFICES ASSUME TypeInv, CleanInv, AccountInv, mpc \in AfterWait, stale = {}
               PROVE  completed = NTests /\ active = 0
    BY DEF CountersSettle
  <2>1. Clean /\ HalPhase BY DEF CleanInv, HalPhase, AfterWait
  <2>2. finished = HalTests /\ completed = Cardinality(finished)
    BY <2>1 DEF Clean, CountInv
  <2>3. Cardinality(HalTests) = NTests
    BY ConstantsAssumption, FS_Interval DEF HalTests
  <2>4. Accounted = HalTests
    BY <2>1, <2>2 DEF Accounted, AccountInv, AfterWait
  <2> QED BY <2>1, <2>2, <2>3, <2>4, ConstantsAssumption DEF AccountInv
<1> QED BY <1>1, AccountInvariant, PTL
================================================================================
