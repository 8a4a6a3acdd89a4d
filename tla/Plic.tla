-------------------------------- MODULE Plic --------------------------------
(***************************************************************************)
(* The simulated PLIC (interrupt/plic.c): how platform_setup configures it *)
(* (plic_init_for_this_hart, PLIC_setup_bidirectional_interrupts), how the *)
(* harts raise interrupts, and C0's interrupt loops (c0_master/            *)
(* c0_controller.c).  The harts raise from their own threads while C0      *)
(* claims; nothing locks the registers.  One step is one access to a       *)
(* pending register, or work on data nobody else touches.                  *)
(***************************************************************************)
EXTENDS Integers, FiniteSets

CONSTANTS
    NR_HARTS,       \* 8; hart 0 is C0
    Raises,         \* who raises what for whom: <<hart, target, type>>
    MaxSends,       \* bound: hart -> interrupts it raises
    MaxActive       \* bound: active tasks when C0 starts to process

SOURCE_BASE_ID == 32
IRQ_MESH_NODE == 20
IRQ_TASK_COMPLETE == 22
IRQ_TASK_ASSIGN == 23
IRQ_ERROR_REPORT == 24
IRQ_DMA_COMPLETE == 25
IRQ_SYNC_REQUEST == 26
IRQ_SYNC_RESPONSE == 27
IRQ_SHUTDOWN_REQUEST == 28
supported_types == {IRQ_MESH_NODE, IRQ_TASK_COMPLETE, IRQ_TASK_ASSIGN,
                    IRQ_ERROR_REPORT, IRQ_DMA_COMPLETE, IRQ_SYNC_REQUEST,
                    IRQ_SYNC_RESPONSE, IRQ_SHUTDOWN_REQUEST}

Harts == 0 .. NR_HARTS - 1

ASSUME PlicAssumption ==
    /\ NR_HARTS \in 2 .. 8
    /\ Raises \subseteq {r \in Harts \X Harts \X supported_types : r[1] # r[2]}
    /\ MaxSends \in [Harts -> Nat] /\ MaxActive \in Nat

-----------------------------------------------------------------------------
(***************************************************************************)
(* Sources and instances.                                                  *)
(***************************************************************************)

\* Mutant: the formula of the comment, with the number of types as the stride.
SourceIdOfComment(h, k) == SOURCE_BASE_ID + 8 * h + k

\* PLIC_calculate_source_id: the target does not matter.
SourceId(h, k) ==
    LET id == SOURCE_BASE_ID + 32 * h + k IN IF id > 1023 THEN 0 ELSE id

Sources == {SourceId(h, k) : h \in Harts, k \in supported_types}
NoSource == 0

\* plic_select: the instance that serves a hart.
Instances == {0, 1}
Instance(h) == IF h < 2 THEN 0 ELSE 1

\* The pending register a source is in.
Word(s) == s \div 32

\* The decoding of c0_process_enhanced_plic_interrupts.
HartOf(s) == (s - SOURCE_BASE_ID) \div 32
TypeOf(s) == (s - SOURCE_BASE_ID) % 32

\* The answers C0 gives, and every interrupt there can be.
Responses == {0} \X (Harts \ {0}) \X {IRQ_SYNC_RESPONSE}
Interrupts == Raises \cup Responses
SourceOf(r) == SourceId(r[1], r[3])
Used == {SourceOf(r) : r \in Interrupts}

-----------------------------------------------------------------------------
VARIABLES
    \* registers that the setup writes
    PLIC_INST,      \* the instances that are mapped
    tar_prio_thres, \* hart, as a target of its instance -> threshold
    teregs,         \* hart, as a target of its instance -> enabled sources
    sprio_regs,     \* instance -> source -> the bits of its priority
    \* registers that change later
    pending,        \* instance -> sources whose pending bit is set
    claimComp,      \* tar_claim_comp of C0's target
    \* C0, in the setup or in one of its two loops
    cpc, mode,
    target, source, \* the loops of the setup
    scan,           \* the last source PLIC_M_TAR_claim_read looked at
    best,           \* best_source, and the claim_id after that
    word,           \* the pending register as loaded by `&= ~pend_mask'
    completed, active,  \* platform completed_tasks and active_tasks
    \* history and bounds
    left,           \* hart -> interrupts it may still raise
    steady,         \* C0's enabled sources pending since the scan began
    raised,         \* instance -> source -> how often it was raised there
    claims,         \* source -> how often C0 claimed it
    unknown         \* sources C0 claimed and could not attribute

regVars == <<PLIC_INST, tar_prio_thres, teregs, sprio_regs>>
setupVars == <<regVars, target, source>>
c0Vars == <<cpc, mode, scan, best, word, completed, active, claimComp>>
raisedVars == <<left, raised>>
vars == <<setupVars, pending, c0Vars, raisedVars, steady, claims, unknown>>

\* The memory of the instances is zero.
Init ==
    /\ PLIC_INST = {} /\ tar_prio_thres = [t \in Harts |-> 0]
    /\ teregs = [t \in Harts |-> {}]
    /\ sprio_regs = [i \in Instances |-> [s \in Sources |-> {}]]
    /\ pending = [i \in Instances |-> {}] /\ claimComp = NoSource
    /\ cpc = "inithart" /\ target = 0 /\ source = 0
    /\ mode = "enhanced" /\ scan = 0 /\ best = NoSource
    /\ word = {} /\ completed = 0 /\ active \in 0 .. MaxActive
    /\ left = MaxSends /\ raised = [i \in Instances |-> [s \in Used |-> 0]]
    /\ steady = {} /\ claims = [s \in Used |-> 0] /\ unknown = {}

-----------------------------------------------------------------------------
(***************************************************************************)
(* platform_setup, before there is any other thread                        *)
(***************************************************************************)

SetupKeeps == <<pending, mode, scan, best, word, completed, active, claimComp,
                raisedVars, steady, claims, unknown>>

\* plic_init_for_this_hart: the instance of the hart is mapped.
InitHart ==
    /\ cpc = "inithart"
    /\ PLIC_INST' = PLIC_INST \cup {Instance(target)}
    /\ IF target + 1 \in Harts
       THEN target' = target + 1 /\ UNCHANGED cpc
       ELSE target' = 0 /\ cpc' = "threshold"
    /\ UNCHANGED <<tar_prio_thres, teregs, sprio_regs, source, SetupKeeps>>

\* PLIC_set_threshold.
SetThreshold ==
    /\ cpc = "threshold"
    /\ tar_prio_thres' = [tar_prio_thres EXCEPT ![target] = 1]
    /\ source' = 0
    /\ cpc' = "enable"
    /\ UNCHANGED <<PLIC_INST, teregs, sprio_regs, target, SetupKeeps>>

\* The bits of the priority of a type: 7, 5, 3 and 2.
PriorityBits(k) ==
    CASE k \in {IRQ_ERROR_REPORT, IRQ_SHUTDOWN_REQUEST} -> {1, 2, 4}
      [] k \in {IRQ_TASK_ASSIGN, IRQ_SYNC_REQUEST} -> {1, 4}
      [] k \in {IRQ_TASK_COMPLETE, IRQ_DMA_COMPLETE} -> {1, 2}
      [] OTHER -> {2}

\* PLIC_M_TAR_enable: hart t takes every type of hart h.
Enabled(t, h) ==
    [teregs EXCEPT ![t] = @ \cup {SourceId(h, k) : k \in supported_types}]

\* PLIC_N_priority_set ors the priority of each type of hart h into a register
\* that all targets of the instance share.
Prioritised(i, h) ==
    [sprio_regs EXCEPT ![i] =
        [s \in Sources |->
            @[s] \cup UNION {PriorityBits(k) : k \in
                          {j \in supported_types : SourceId(h, j) = s}}]]

\* PLIC_enable_interrupt and PLIC_set_priority for each type of another hart.
EnableSources ==
    /\ cpc = "enable" /\ source \in Harts
    /\ IF source = target
       THEN UNCHANGED <<teregs, sprio_regs>>
       ELSE /\ teregs' = Enabled(target, source)
            /\ sprio_regs' = Prioritised(Instance(target), source)
    /\ source' = source + 1
    /\ UNCHANGED <<PLIC_INST, tar_prio_thres, cpc, target, SetupKeeps>>

NextTarget ==
    /\ cpc = "enable" /\ source \notin Harts
    /\ IF target + 1 \in Harts
       THEN target' = target + 1 /\ cpc' = "threshold"
       ELSE cpc' = "idle" /\ UNCHANGED target
    /\ UNCHANGED <<regVars, source, SetupKeeps>>

Setup == InitHart \/ SetThreshold \/ EnableSources \/ NextTarget

InSetup == cpc \in {"inithart", "threshold", "enable"}

\* The number a priority register holds, from its bits.
NumberOf(bits) == (IF 1 \in bits THEN 1 ELSE 0) + (IF 2 \in bits THEN 2 ELSE 0)
                     + (IF 4 \in bits THEN 4 ELSE 0)
PriorityIn(i, s) == NumberOf(sprio_regs[i][s])
Priority(s) == PriorityIn(Instance(0), s)

\* What C0 can claim when it is pending.
Claimable == {s \in teregs[0] : Priority(s) > tar_prio_thres[0]}

-----------------------------------------------------------------------------
(***************************************************************************)
(* The harts                                                               *)
(***************************************************************************)

\* PLIC_N_source_pending_write: the register is assigned, not or-ed, so the
\* other interrupts of that hart are dropped.
AfterPendingWrite(i, s) ==
    [pending EXCEPT ![i] = {r \in pending[i] : Word(r) # Word(s)} \cup {s}]

\* PLIC_trigger_typed_interrupt by hart h for hart t, between two harts whose
\* instance is mapped; any other call is refused.
Trigger(h, t, k) ==
    /\ h # t /\ Instance(t) \in PLIC_INST
    /\ pending' = AfterPendingWrite(Instance(t), SourceId(h, k))
    /\ steady' = steady \cap pending'[0]
    /\ raised' = [raised EXCEPT ![Instance(t)][SourceId(h, k)] = @ + 1]

\* Also PLIC_trigger_interrupt and tile_send_interrupt_to_c0: IRQ_MESH_NODE.
\* C0 raises its own outside of its loops (demo_bidirectional_plic_
\* communication).
RaiseTyped(h, t, k) ==
    /\ ~InSetup /\ (h = 0 => cpc = "idle")
    /\ <<h, t, k>> \in Raises /\ left[h] > 0
    /\ left' = [left EXCEPT ![h] = left[h] - 1]
    /\ Trigger(h, t, k)
    /\ UNCHANGED <<setupVars, c0Vars, claims, unknown>>

-----------------------------------------------------------------------------
(***************************************************************************)
(* C0: PLIC_M_TAR_claim_read                                               *)
(***************************************************************************)

\* C0 enters one of its loops, or its loop claims again.
StartScan ==
    /\ scan' = 0 /\ best' = NoSource
    /\ steady' = pending[0] \cap teregs[0]
    /\ cpc' = "scan"

Process ==
    /\ cpc = "idle"
    /\ mode' \in {"legacy", "enhanced"}
    /\ StartScan
    /\ UNCHANGED <<setupVars, pending, word, completed, active, claimComp, raisedVars,
                   claims, unknown>>

\* Mutant: a source of the same priority replaces the best one.
NotWorse(s) == best = NoSource \/ Priority(s) >= Priority(best)
Better(s) == best = NoSource \/ Priority(s) > Priority(best)

\* The sources are looked at in ascending order; those that are not enabled, or
\* that nobody raises, have no effect and are skipped.
Visible == teregs[0] \cap Used

Look ==
    /\ cpc = "scan"
    /\ \E s \in Visible :
          /\ s > scan /\ \A r \in Visible : r > scan => s <= r
          /\ scan' = s
          /\ best' = IF s \in pending[0] \cap Claimable /\ Better(s)
                     THEN s ELSE best
    /\ UNCHANGED <<setupVars, pending, cpc, mode, word, completed, active, claimComp,
                   steady, raisedVars, claims, unknown>>

\* Mutant: the loops test claim_id >= 0.
ScanAgain ==
    /\ cpc = "scan" /\ best = NoSource
    /\ \A s \in Visible : s <= scan
    /\ StartScan
    /\ UNCHANGED <<setupVars, pending, mode, word, completed, active, claimComp,
                   raisedVars, claims, unknown>>

\* No interrupt found: the loop ends.
ScanFails ==
    /\ cpc = "scan" /\ best = NoSource
    /\ \A s \in Visible : s <= scan
    /\ cpc' = "idle"
    /\ UNCHANGED <<setupVars, pending, mode, scan, best, word, completed, active,
                   claimComp, steady, raisedVars, claims, unknown>>

\* pending_regs[i] &= ~mask is a load ...
Load ==
    /\ cpc = "scan" /\ best # NoSource
    /\ \A s \in Visible : s <= scan
    /\ word' = {r \in pending[0] : Word(r) = Word(best)}
    /\ cpc' = "store"
    /\ UNCHANGED <<setupVars, pending, mode, scan, best, completed, active, claimComp,
                   steady, raisedVars, claims, unknown>>

\* Mutant: the pending bit is not cleared.
StoreAll ==
    /\ cpc = "store"
    /\ pending' = [pending EXCEPT ![0] =
                     {r \in pending[0] : Word(r) # Word(best)} \cup word]
    /\ steady' = steady \cap pending'[0]
    /\ claimComp' = best
    /\ cpc' = "handle"
    /\ UNCHANGED <<setupVars, mode, scan, best, word, completed, active, raisedVars,
                   claims, unknown>>

\* ... and a store, which overwrites what was raised in between.
Store ==
    /\ cpc = "store"
    /\ pending' = [pending EXCEPT ![0] =
                     {r \in pending[0] : Word(r) # Word(best)}
                        \cup (word \ {best})]
    /\ steady' = steady \cap pending'[0]
    /\ claimComp' = best
    /\ cpc' = "handle"
    /\ UNCHANGED <<setupVars, mode, scan, best, word, completed, active, raisedVars,
                   claims, unknown>>

-----------------------------------------------------------------------------
(***************************************************************************)
(* C0: the two loops                                                       *)
(***************************************************************************)

Claimed ==
    /\ cpc = "handle" /\ cpc' = "complete"
    /\ claims' = [claims EXCEPT ![best] = claims[best] + 1]

\* c0_process_plic_interrupts knows the ids 32 to 39 only.
HandleLegacy ==
    /\ Claimed /\ mode = "legacy"
    /\ IF best \in SOURCE_BASE_ID .. SOURCE_BASE_ID + NR_HARTS - 1
       THEN completed' = completed + 1 /\ UNCHANGED unknown
       ELSE unknown' = unknown \cup {best} /\ UNCHANGED completed
    /\ UNCHANGED <<setupVars, pending, mode, scan, best, word, active, claimComp,
                   steady, raisedVars>>

\* Mutant: active_tasks goes below zero.
CountCompletionAlways ==
    completed' = completed + 1 /\ active' = active - 1

\* A completed task, under platform_lock.
CountCompletion ==
    completed' = completed + 1 /\ active' = IF active > 0 THEN active - 1
                                                          ELSE active

\* handle_enhanced_plic_interrupt of anything but a sync request.
HandleEnhanced ==
    /\ Claimed /\ mode = "enhanced" /\ TypeOf(best) # IRQ_SYNC_REQUEST
    /\ CASE TypeOf(best) = IRQ_TASK_COMPLETE -> CountCompletion
         [] TypeOf(best) \in {IRQ_ERROR_REPORT, IRQ_SHUTDOWN_REQUEST,
                              IRQ_DMA_COMPLETE}
              -> UNCHANGED <<completed, active>>
         [] OTHER -> completed' = completed + 1 /\ UNCHANGED active
    /\ UNCHANGED <<setupVars, pending, mode, scan, best, word, claimComp, steady,
                   raisedVars, unknown>>

\* A sync request is answered with a sync response for its hart.
HandleSync ==
    /\ Claimed /\ mode = "enhanced" /\ TypeOf(best) = IRQ_SYNC_REQUEST
    /\ Trigger(0, HartOf(best), IRQ_SYNC_RESPONSE)
    /\ UNCHANGED <<setupVars, mode, scan, best, word, completed, active, claimComp,
                   left, unknown>>

\* PLIC_M_TAR_comp_write, and the loop claims again.
Complete ==
    /\ cpc = "complete"
    /\ claimComp' = best
    /\ StartScan
    /\ UNCHANGED <<setupVars, pending, mode, word, completed, active, raisedVars,
                   claims, unknown>>

LoopStep ==
    \/ Look \/ ScanFails \/ Load \/ Store
    \/ HandleLegacy \/ HandleEnhanced \/ HandleSync \/ Complete

HartStep ==
    \E r \in Raises : RaiseTyped(r[1], r[2], r[3])

Next == Setup \/ Process \/ LoopStep \/ HartStep

Spec == Init /\ [][Next]_vars

\* C0's thread goes through the setup, and goes on once it is in a loop; nothing
\* says it enters one again.
FairSpec == Spec /\ WF_vars(Setup) /\ WF_vars(LoopStep)

-----------------------------------------------------------------------------
TypeOK ==
    /\ PLIC_INST \subseteq Instances
    /\ tar_prio_thres \in [Harts -> {0, 1}]
    /\ teregs \in [Harts -> SUBSET Sources]
    /\ sprio_regs \in [Instances -> [Sources -> SUBSET {1, 2, 4}]]
    /\ pending \in [Instances -> SUBSET Sources]
    /\ claimComp \in Sources \cup {NoSource}
    /\ cpc \in {"inithart", "threshold", "enable", "idle", "scan", "store",
                "handle", "complete"}
    /\ mode \in {"legacy", "enhanced"}
    /\ target \in Harts /\ source \in 0 .. NR_HARTS
    /\ scan \in Sources \cup {0} /\ best \in Sources \cup {NoSource}
    /\ word \subseteq Sources
    /\ completed \in Nat /\ active \in Nat
    /\ left \in [Harts -> Nat] /\ raised \in [Instances -> [Used -> Nat]]
    /\ steady \subseteq Sources /\ claims \in [Used -> Nat]
    /\ unknown \subseteq Sources

\* The setup is over and nothing has happened yet.
SetupDone == cpc = "idle" /\ left = MaxSends

\* PLIC_setup_bidirectional_interrupts connects every two harts, although its
\* registers are only ever or-ed and each priority register is written on
\* behalf of every target of an instance: what a hart can raise for another is
\* enabled there, above the threshold and, whatever else went into its
\* register, ranked by its type alone; and no hart takes its own interrupts.
SetupConnectsHarts ==
    SetupDone =>
      \A t \in Harts :
        /\ \A h \in Harts \ {t} : \A k \in supported_types :
              LET i == Instance(t)
                  p == PriorityIn(i, SourceId(h, k)) IN
              /\ i \in PLIC_INST /\ SourceId(h, k) \in teregs[t]
              /\ p > tar_prio_thres[t] /\ p = NumberOf(PriorityBits(k))
        /\ \A k \in supported_types : SourceId(t, k) \notin teregs[t]

\* The source was claimed and C0 has not handled it yet.
InFlight(s) == cpc = "handle" /\ best = s

\* No interrupt out of nothing: C0 never claims a source more often than it was
\* raised for C0 or for hart 1, which shares its instance and so its pending
\* bits, although harts write a pending register between the load and the store
\* of C0's claim.
ClaimsWereRaised == \A s \in Used : claims[s] <= raised[Instance(0)][s]

\* PLIC_M_TAR_claim_read finds the highest priority, and among equals the
\* lowest source, of what was pending throughout its scan; it finds nothing
\* only when nothing was.
HighestFirst ==
    cpc \in {"store", "idle"} =>
        \A s \in steady :
            /\ best # NoSource
            /\ \/ Priority(best) > Priority(s)
               \/ Priority(best) = Priority(s) /\ best <= s

\* What a hart has raised for the harts that an instance serves.
TypesIn(i, h) ==
    {k \in supported_types : SourceId(h, k) \in Used /\ raised[i][SourceId(h, k)] > 0}

\* The interrupt is where it was raised, or C0 took it from there.
Delivered(i, s) ==
    \/ s \in pending[i]
    \/ i = Instance(0) /\ (claims[s] > 0 \/ InFlight(s))

\* Harts do not disturb each other, whatever they write while C0 claims: an
\* interrupt that was raised and never claimed is pending, unless the same hart
\* raised another type as well, be it for another hart of that instance.
OnlyOwnTypesInterfere ==
    \A i \in Instances, h \in Harts : \A k \in TypesIn(i, h) :
        ~Delivered(i, SourceId(h, k)) => TypesIn(i, h) # {k}

\* The loops end: C0 gets back to its supervision however the interrupts came.
LoopReturns == cpc # "idle" ~> cpc = "idle"

-----------------------------------------------------------------------------
(***************************************************************************)
(* What the repository says and the code does not do.                      *)
(***************************************************************************)

\* plic.h, PLIC_N_source_pending_write: "Set the interrupt pending register".
\* An interrupt that was raised stays pending until C0 claims it.
PendingUntilClaimed ==
    \A i \in Instances, s \in Used : raised[i][s] > 0 => Delivered(i, s)

\* c0_process_plic_interrupts: "Determine which tile sent this".
SenderIsDetermined == unknown = {}
=============================================================================
