------------------------------ MODULE PlicProofs ------------------------------
(***************************************************************************)
(* Theorems about Plic, for every number of harts the PLIC serves and all  *)
(* that they may raise.                                                    *)
(***************************************************************************)
EXTENDS PlicInv, TLAPS

\* A source id tells its hart and its type, and the pending register it is in
\* tells the hart.
LEMMA SourceIds ==
  /\ \A h \in Harts, k \in supported_types :
       /\ SourceId(h, k) = 32 + 32 * h + k
       /\ SourceId(h, k) \in Sources /\ SourceId(h, k) \in Nat \ {0}
       /\ Word(SourceId(h, k)) = h + 1
  /\ \A h, g \in Harts, j, k \in supported_types :
       SourceId(h, k) = SourceId(g, j) => h = g /\ k = j
<1> USE DEF supported_types, IRQ_MESH_NODE, IRQ_TASK_COMPLETE, IRQ_TASK_ASSIGN,
            IRQ_ERROR_REPORT, IRQ_DMA_COMPLETE, IRQ_SYNC_REQUEST,
            IRQ_SYNC_RESPONSE, IRQ_SHUTDOWN_REQUEST
<1>1. \A h \in Harts : h \in 0 .. 7 BY PlicAssumption DEF Harts
<1>2. \A k \in supported_types : k \in 20 .. 28 OBVIOUS
<1>3. ASSUME NEW h \in 0 .. 7, NEW k \in 20 .. 28
      PROVE  SourceId(h, k) = 32 + 32 * h + k
  BY DEF SourceId, SOURCE_BASE_ID
<1>4. ASSUME NEW h \in 0 .. 7, NEW k \in 20 .. 28
      PROVE  (32 + 32 * h + k) \div 32 = h + 1
  OBVIOUS
<1> HIDE DEF supported_types
<1>5. \A h \in Harts, k \in supported_types : SourceId(h, k) \in Sources
  BY DEF Sources
<1> QED BY <1>1, <1>2, <1>3, <1>4, <1>5 DEF Word

\* Every source has a hart and a type.
LEMMA SourcesHave ==
  /\ \A s \in Sources : \E h \in Harts, k \in supported_types : s = SourceId(h, k)
  /\ Sources \subseteq Nat \ {0} /\ NoSource \notin Sources
  /\ Used \subseteq Sources /\ 0 \in Harts
  /\ \A s, r \in Sources : Word(s) = Word(r) =>
       \E h \in Harts, k, j \in supported_types :
          s = SourceId(h, k) /\ r = SourceId(h, j)
<1>1. \A s \in Sources : \E h \in Harts, k \in supported_types : s = SourceId(h, k)
  BY DEF Sources
<1>2. Sources \subseteq Nat \ {0} BY <1>1, SourceIds
<1>3. 0 \in Harts /\ Harts \subseteq Nat BY PlicAssumption DEF Harts
<1>4. Used \subseteq Sources
  <2>1. ASSUME NEW r \in Interrupts PROVE r[1] \in Harts /\ r[3] \in supported_types
    <3>1. CASE r \in Raises BY <3>1, PlicAssumption
    <3>2. CASE r \in Responses BY <3>2, <1>3 DEF Responses, supported_types
    <3> QED BY <3>1, <3>2 DEF Interrupts
  <2> QED BY <2>1, SourceIds DEF Used, SourceOf
<1>5. ASSUME NEW s \in Sources, NEW r \in Sources, Word(s) = Word(r)
      PROVE  \E h \in Harts, k, j \in supported_types :
                s = SourceId(h, k) /\ r = SourceId(h, j)
  <2>1. PICK h \in Harts, k \in supported_types : s = SourceId(h, k) BY <1>1
  <2>2. PICK g \in Harts, j \in supported_types : r = SourceId(g, j) BY <1>1
  <2>3. h = g BY <1>3, <1>5, <2>1, <2>2, SourceIds
  <2> QED BY <2>1, <2>2, <2>3
<1> QED BY <1>1, <1>2, <1>3, <1>4, <1>5 DEF NoSource

\* What C0 answers can be raised.
LEMMA ResponsesUsed == SourceId(0, IRQ_SYNC_RESPONSE) \in Used
<1>1. 1 \in Harts \ {0} BY PlicAssumption DEF Harts
<1>2. <<0, 1, IRQ_SYNC_RESPONSE>> \in Interrupts BY <1>1 DEF Interrupts, Responses
<1>3. SourceOf(<<0, 1, IRQ_SYNC_RESPONSE>>) = SourceId(0, IRQ_SYNC_RESPONSE)
  BY DEF SourceOf
<1> QED BY <1>2, <1>3 DEF Used

\* Every type has a priority above the threshold of 1.
LEMMA Priorities ==
  /\ \A k \in supported_types : /\ PriorityBits(k) \subseteq {1, 2, 4}
                                /\ NumberOf(PriorityBits(k)) > 1
  /\ \A b : NumberOf(b) \in Nat
<1>1. \A b : NumberOf(b) \in Nat BY DEF NumberOf
<1>2. ASSUME NEW k \in supported_types
      PROVE  PriorityBits(k) \in {{1, 2, 4}, {1, 4}, {1, 2}, {2}}
  BY DEF PriorityBits
<1>3. ASSUME NEW b \in {{1, 2, 4}, {1, 4}, {1, 2}, {2}}
      PROVE  b \subseteq {1, 2, 4} /\ NumberOf(b) > 1
  <2>1. 2 \in b \/ 4 \in b OBVIOUS
  <2> QED BY <2>1 DEF NumberOf
<1> QED BY <1>1, <1>2, <1>3

\* EnableSources gives the sources of hart h their priority and no other.
LEMMA PriorityWrite ==
  ASSUME TypeOK, NEW i \in Instances, NEW h \in Harts
  PROVE  /\ Prioritised(i, h) \in [Instances -> [Sources -> SUBSET {1, 2, 4}]]
         /\ \A k \in supported_types :
              Prioritised(i, h)[i][SourceId(h, k)]
                = sprio_regs[i][SourceId(h, k)] \cup PriorityBits(k)
         /\ \A j \in Instances, g \in Harts : \A k \in supported_types :
              j # i \/ g # h => Prioritised(i, h)[j][SourceId(g, k)]
                                  = sprio_regs[j][SourceId(g, k)]
<1> DEFINE bits(s) == UNION {PriorityBits(k) : k \in
                          {j \in supported_types : SourceId(h, j) = s}}
           row == [s \in Sources |-> sprio_regs[i][s] \cup bits(s)]
<1>1. Prioritised(i, h) = [sprio_regs EXCEPT ![i] = row] BY DEF Prioritised, TypeOK
<1>2. sprio_regs \in [Instances -> [Sources -> SUBSET {1, 2, 4}]] BY DEF TypeOK
<1>3. \A s \in Sources : bits(s) \subseteq {1, 2, 4} BY Priorities
<1>4. ASSUME NEW k \in supported_types PROVE bits(SourceId(h, k)) = PriorityBits(k)
  <2>1. {j \in supported_types : SourceId(h, j) = SourceId(h, k)} = {k}
    BY SourceIds
  <2>2. {PriorityBits(j) : j \in {k}} = {PriorityBits(k)} OBVIOUS
  <2> QED BY <2>1, <2>2
<1>5. ASSUME NEW g \in Harts, NEW k \in supported_types, g # h
      PROVE  bits(SourceId(g, k)) = {}
  <2>1. {j \in supported_types : SourceId(h, j) = SourceId(g, k)} = {}
    BY <1>5, SourceIds
  <2> QED BY <2>1
<1> HIDE DEF bits
<1>6. row \in [Sources -> SUBSET {1, 2, 4}] BY <1>2, <1>3
<1>7. \A s \in Sources : row[s] = sprio_regs[i][s] \cup bits(s) OBVIOUS
<1> HIDE DEF row
<1>8. Prioritised(i, h) \in [Instances -> [Sources -> SUBSET {1, 2, 4}]]
  BY <1>1, <1>2, <1>6
<1>9. ASSUME NEW k \in supported_types
      PROVE  Prioritised(i, h)[i][SourceId(h, k)]
               = sprio_regs[i][SourceId(h, k)] \cup PriorityBits(k)
  BY <1>1, <1>2, <1>4, <1>7, SourceIds
<1>10. ASSUME NEW j \in Instances, NEW g \in Harts, NEW k \in supported_types,
              j # i \/ g # h
       PROVE  Prioritised(i, h)[j][SourceId(g, k)] = sprio_regs[j][SourceId(g, k)]
  <2>1. CASE j # i BY <2>1, <1>1, <1>2
  <2>2. CASE j = i /\ g # h
    <3>1. Prioritised(i, h)[j][SourceId(g, k)] = row[SourceId(g, k)]
      BY <1>1, <1>2, <2>2
    <3>2. bits(SourceId(g, k)) = {} BY <1>5, <2>2
    <3>3. SourceId(g, k) \in Sources BY SourceIds
    <3>4. row[SourceId(g, k)] = sprio_regs[i][SourceId(g, k)] \cup {}
      BY <3>2, <3>3, <1>7
    <3> QED BY <2>2, <3>1, <3>4
  <2> QED BY <1>10, <2>1, <2>2
<1> QED BY <1>8, <1>9, <1>10

-----------------------------------------------------------------------------
(***************************************************************************)
(* Types, and what can be pending at all.                                  *)
(***************************************************************************)

BaseInv == TypeOK /\ UsedInv

\* Source s is raised in instance i.
Raising(i, s) ==
    /\ pending' = AfterPendingWrite(i, s)
    /\ steady' = steady \cap pending'[0]
    /\ raised' = [raised EXCEPT ![i][s] = @ + 1]

\* A hart and C0's answer both raise an interrupt there can be.
LEMMA RaisingSteps ==
  /\ HartStep => \E i \in Instances, s \in Used : Raising(i, s)
  /\ HandleSync => \E i \in Instances, s \in Used : Raising(i, s)
<1>1. ASSUME NEW h, NEW t, NEW k, Trigger(h, t, k), SourceId(h, k) \in Used
      PROVE  \E i \in Instances, s \in Used : Raising(i, s)
  <2>1. Instance(t) \in Instances BY DEF Instance, Instances
  <2>2. Raising(Instance(t), SourceId(h, k)) BY <1>1 DEF Trigger, Raising
  <2> QED BY <1>1, <2>1, <2>2
<1>2. ASSUME NEW r \in Raises, RaiseTyped(r[1], r[2], r[3])
      PROVE  \E i \in Instances, s \in Used : Raising(i, s)
  <2>1. SourceOf(r) \in Used BY DEF Used, Interrupts
  <2> QED BY <1>1, <1>2, <2>1 DEF RaiseTyped, SourceOf
<1> QED BY <1>1, <1>2, ResponsesUsed DEF HartStep, HandleSync

\* What raising a source leaves behind.
LEMMA RaisingFacts ==
  ASSUME BaseInv, NEW i \in Instances, NEW s \in Used, Raising(i, s)
  PROVE  /\ pending' \in [Instances -> SUBSET Used]
         /\ raised' \in [Instances -> [Used -> Nat]]
         /\ raised'[i][s] = raised[i][s] + 1
         /\ \A j \in Instances, r \in Used :
              j # i \/ r # s => raised'[j][r] = raised[j][r]
         /\ pending'[i] = {r \in pending[i] : Word(r) # Word(s)} \cup {s}
         /\ \A j \in Instances \ {i} : pending'[j] = pending[j]
         /\ steady' \subseteq steady /\ steady' \subseteq pending'[0]
<1>1. /\ pending \in [Instances -> SUBSET Used]
      /\ raised \in [Instances -> [Used -> Nat]]
  BY DEF BaseInv, TypeOK, UsedInv
<1>2. pending' = [pending EXCEPT ![i] = {r \in pending[i] : Word(r) # Word(s)} \cup {s}]
  BY DEF Raising, AfterPendingWrite
<1>3. raised' = [raised EXCEPT ![i] = [raised[i] EXCEPT ![s] = raised[i][s] + 1]]
  BY <1>1 DEF Raising
<1>4. [raised[i] EXCEPT ![s] = raised[i][s] + 1] \in [Used -> Nat] BY <1>1
<1> QED BY <1>1, <1>2, <1>3, <1>4 DEF Raising

LEMMA BaseInvInit == Init => BaseInv
<1> SUFFICES ASSUME Init PROVE BaseInv OBVIOUS
<1> USE DEF Init
<1>1. 0 \in Harts /\ 0 \in Nat BY SourcesHave
<1>2. TypeOK BY <1>1, PlicAssumption DEF TypeOK
<1>3. UsedInv BY DEF UsedInv, Instances
<1> QED BY <1>2, <1>3 DEF BaseInv

LEMMA BaseInvStep ==
  ASSUME BaseInv, [Next]_vars PROVE BaseInv'
<1> USE DEF BaseInv, TypeOK, UsedInv, vars, setupVars, regVars, c0Vars,
            raisedVars, SetupKeeps
<1>0. Used \subseteq Sources /\ Sources \subseteq Nat \ {0} /\ NoSource \notin Sources
      /\ 0 \in Harts /\ 0 \in Instances
  BY SourcesHave DEF Instances
<1>1. CASE InitHart
  <2>1. Instance(target) \in Instances BY DEF Instance, Instances
  <2> QED BY <1>1, <1>0, <2>1 DEF InitHart
<1>2. CASE SetThreshold BY <1>2, <1>0, PlicAssumption DEF SetThreshold
<1>3. CASE EnableSources
  <2>1. source' \in 0 .. NR_HARTS BY <1>3, PlicAssumption DEF EnableSources, Harts
  <2>2. Instance(target) \in Instances BY DEF Instance, Instances
  <2>3. CASE source = target BY <1>3, <2>1, <2>3 DEF EnableSources
  <2>4. CASE source # target
    <3>1. teregs' = Enabled(target, source) /\ sprio_regs' = Prioritised(Instance(target), source)
      BY <1>3, <2>4 DEF EnableSources
    <3>2. sprio_regs' \in [Instances -> [Sources -> SUBSET {1, 2, 4}]]
      BY <1>3, <2>2, <3>1, PriorityWrite DEF EnableSources
    <3>3. {SourceId(source, k) : k \in supported_types} \subseteq Sources
      BY <1>3, SourceIds DEF EnableSources
    <3>4. teregs' \in [Harts -> SUBSET Sources] /\ \A t \in Harts : teregs[t] \subseteq teregs'[t]
      BY <3>1, <3>3 DEF Enabled
    <3>5. steady' = steady /\ pending' = pending BY <1>3 DEF EnableSources
    <3> QED BY <1>0, <1>3, <2>1, <3>2, <3>4, <3>5 DEF EnableSources
  <2> QED BY <2>3, <2>4
<1>4. CASE NextTarget BY <1>4 DEF NextTarget
<1>5. CASE Process BY <1>0, <1>5 DEF Process, StartScan
<1>6. CASE Look
  <2>1. PICK s \in Visible : /\ scan' = s
                            /\ best' = IF s \in pending[0] \cap Claimable /\ Better(s)
                                       THEN s ELSE best
    BY <1>6 DEF Look
  <2>2. s \in Used \cap teregs[0] BY <2>1 DEF Visible
  <2> QED BY <1>0, <1>6, <2>1, <2>2 DEF Look
<1>7. CASE ScanFails BY <1>7 DEF ScanFails
<1>8. CASE Load BY <1>0, <1>8 DEF Load
<1>9. CASE Store
  <2>1. pending' = [pending EXCEPT ![0] = {r \in pending[0] : Word(r) # Word(best)}
                                             \cup (word \ {best})]
    BY <1>9 DEF Store
  <2>2. pending' \in [Instances -> SUBSET Used] BY <1>0, <2>1
  <2> QED BY <1>0, <1>9, <2>2 DEF Store
<1>10. CASE HandleLegacy
  <2>1. claims' \in [Used -> Nat] /\ best \in Used BY <1>10 DEF HandleLegacy, Claimed
  <2>2. completed' \in Nat /\ unknown' \subseteq Sources
    <3>1. \/ completed' = completed + 1 /\ unknown' = unknown
          \/ completed' = completed /\ unknown' = unknown \cup {best}
      BY <1>10 DEF HandleLegacy
    <3>2. completed \in Nat /\ unknown \subseteq Sources /\ best \in Sources
      BY <1>0, <2>1
    <3>3. completed' \in Nat BY <3>1, <3>2
    <3>4. unknown' \subseteq Sources BY <3>1, <3>2
    <3> QED BY <3>3, <3>4
  <2>3. UNCHANGED <<setupVars, pending, mode, scan, best, word, active,
                    claimComp, steady, raisedVars>>
    BY <1>10 DEF HandleLegacy
  <2> QED BY <1>0, <1>10, <2>1, <2>2, <2>3 DEF HandleLegacy, Claimed
<1>11. CASE HandleEnhanced
  <2>1. claims' \in [Used -> Nat] /\ best \in Used BY <1>11 DEF HandleEnhanced, Claimed
  <2>2. completed' \in Nat /\ active' \in Nat
    <3>1. \/ CountCompletion
          \/ UNCHANGED <<completed, active>>
          \/ completed' = completed + 1 /\ UNCHANGED active
      BY <1>11 DEF HandleEnhanced
    <3> QED BY <3>1 DEF CountCompletion
  <2> QED BY <1>0, <1>11, <2>1, <2>2 DEF HandleEnhanced, Claimed
<1>12. CASE HandleSync
  <2>1. claims' \in [Used -> Nat] /\ best \in Used BY <1>12 DEF HandleSync, Claimed
  <2>2. /\ pending' \in [Instances -> SUBSET Used]
        /\ raised' \in [Instances -> [Used -> Nat]]
        /\ steady' \subseteq steady /\ steady' \subseteq pending'[0]
    BY <1>12, RaisingSteps, RaisingFacts
  <2>3. pending' \in [Instances -> SUBSET Sources] BY <1>0, <2>2
  <2> QED BY <1>12, <2>1, <2>2, <2>3 DEF HandleSync, Claimed
<1>13. CASE Complete BY <1>0, <1>13 DEF Complete, StartScan
<1>14. CASE HartStep
  <2>1. /\ pending' \in [Instances -> SUBSET Used]
        /\ raised' \in [Instances -> [Used -> Nat]]
        /\ steady' \subseteq steady /\ steady' \subseteq pending'[0]
    BY <1>14, RaisingSteps, RaisingFacts
  <2>2. pending' \in [Instances -> SUBSET Sources] BY <1>0, <2>1
  <2>3. /\ left' \in [Harts -> Nat]
        /\ UNCHANGED <<setupVars, c0Vars, claims, unknown>>
    <3>1. PICK r \in Raises : RaiseTyped(r[1], r[2], r[3]) BY <1>14 DEF HartStep
    <3>2. left[r[1]] > 0 /\ left' = [left EXCEPT ![r[1]] = left[r[1]] - 1]
      BY <3>1 DEF RaiseTyped
    <3>3. r[1] \in Harts BY PlicAssumption
    <3>4. left[r[1]] - 1 \in Nat BY <3>2, <3>3
    <3> QED BY <3>1, <3>2, <3>4 DEF RaiseTyped
  <2> QED BY <2>1, <2>2, <2>3
<1>15. CASE UNCHANGED vars BY <1>15
<1> QED BY <1>1, <1>2, <1>3, <1>4, <1>5, <1>6, <1>7, <1>8, <1>9, <1>10, <1>11,
           <1>12, <1>13, <1>14, <1>15 DEF Next, Setup, LoopStep

-----------------------------------------------------------------------------
(***************************************************************************)
(* The setup.                                                              *)
(***************************************************************************)

\* Nobody but the setup writes its registers, and nobody else runs before it
\* is over.
LEMMA AfterSetup ==
  ASSUME Process \/ LoopStep \/ HartStep
  PROVE  ~InSetup /\ ~InSetup' /\ UNCHANGED setupVars
<1> USE DEF InSetup
<1>1. CASE Process BY <1>1 DEF Process, StartScan
<1>2. CASE Look \/ ScanFails \/ Load \/ Store
  BY <1>2 DEF Look, ScanFails, Load, Store
<1>3. CASE HandleLegacy \/ HandleEnhanced \/ HandleSync
  BY <1>3 DEF HandleLegacy, HandleEnhanced, HandleSync, Claimed
<1>4. CASE Complete BY <1>4 DEF Complete, StartScan
<1>5. CASE HartStep BY <1>5 DEF HartStep, RaiseTyped, c0Vars
<1> QED BY <1>1, <1>2, <1>3, <1>4, <1>5 DEF LoopStep

LEMMA SetupInvInit == Init => SetupInv
<1> SUFFICES ASSUME Init PROVE SetupInv OBVIOUS
<1> USE DEF Init
<1>1. \A t \in Harts : ~(t < target) BY PlicAssumption DEF Harts
<1> QED BY <1>1, SourceIds DEF SetupInv, Connected, InSetup

LEMMA SetupInvStep ==
  ASSUME BaseInv, SetupInv, [Next]_vars PROVE SetupInv'
<1> USE DEF SetupInv, Connected, InSetup
<1>0. /\ target \in Harts /\ source \in 0 .. NR_HARTS /\ Harts \subseteq Nat
      /\ PLIC_INST \subseteq Instances /\ tar_prio_thres \in [Harts -> {0, 1}]
      /\ teregs \in [Harts -> SUBSET Sources]
      /\ \A t \in Harts : Instance(t) \in Instances
  BY PlicAssumption DEF BaseInv, TypeOK, Harts, Instance, Instances
<1>1. CASE InitHart
  <2>1. target + 1 \notin Harts => \A t \in Harts : t < target \/ t = target
    BY <1>0, PlicAssumption DEF Harts
  <2>2. \A t \in Harts : t < target + 1 <=> t < target \/ t = target BY <1>0
  <2>3. \A t \in Harts : ~(t < 0) BY <1>0
  <2>4. /\ cpc = "inithart" /\ PLIC_INST' = PLIC_INST \cup {Instance(target)}
        /\ \/ target' = target + 1 /\ cpc' = "inithart"
           \/ target + 1 \notin Harts /\ target' = 0 /\ cpc' = "threshold"
        /\ UNCHANGED <<tar_prio_thres, teregs, sprio_regs, source>>
    BY <1>1 DEF InitHart
  <2> QED BY <2>1, <2>2, <2>3, <2>4
<1>2. CASE SetThreshold
  <2>1. \A h \in Harts : ~(h < 0) BY <1>0
  <2>2. /\ cpc = "threshold" /\ cpc' = "enable" /\ source' = 0
        /\ tar_prio_thres' = [tar_prio_thres EXCEPT ![target] = 1]
        /\ UNCHANGED <<PLIC_INST, teregs, sprio_regs, target>>
    BY <1>2 DEF SetThreshold
  <2> QED BY <1>0, <2>1, <2>2
<1>3. CASE EnableSources
  <2>1. /\ cpc = "enable" /\ cpc' = "enable" /\ source \in Harts
        /\ source' = source + 1 /\ UNCHANGED <<PLIC_INST, tar_prio_thres, target>>
    BY <1>3 DEF EnableSources
  <2>2. \A h \in Harts : h < source + 1 <=> h < source \/ h = source
    BY <1>0, <2>1
  <2>3. CASE source = target
    <3>1. UNCHANGED <<teregs, sprio_regs>> BY <1>3, <2>3 DEF EnableSources
    <3> QED BY <2>1, <2>2, <2>3, <3>1
  <2>4. CASE source # target
    <3> DEFINE i == Instance(target)
    <3>1. teregs' = Enabled(target, source) /\ sprio_regs' = Prioritised(i, source)
      BY <1>3, <2>4 DEF EnableSources
    <3>2. i \in Instances BY <1>0
    <3>3. /\ teregs'[target] = teregs[target] \cup {SourceId(source, k) : k \in supported_types}
          /\ \A t \in Harts \ {target} : teregs'[t] = teregs[t]
      BY <1>0, <3>1 DEF Enabled
    <3>4. ASSUME NEW j \in Instances, NEW h \in Harts, NEW k \in supported_types
          PROVE  /\ sprio_regs'[j][SourceId(h, k)] \in {{}, PriorityBits(k)}
                 /\ (j = i /\ h = source) \/ sprio_regs[j][SourceId(h, k)] = PriorityBits(k)
                      => sprio_regs'[j][SourceId(h, k)] = PriorityBits(k)
      <4>0. sprio_regs[j][SourceId(h, k)] \in {{}, PriorityBits(k)} OBVIOUS
      <4>1. CASE j = i /\ h = source
        <5>1. sprio_regs'[j][SourceId(h, k)]
                 = sprio_regs[j][SourceId(h, k)] \cup PriorityBits(k)
          BY <4>1, <3>1, <3>2, <2>1, PriorityWrite DEF BaseInv
        <5> QED BY <4>0, <5>1
      <4>2. CASE ~(j = i /\ h = source)
        <5>1. sprio_regs'[j][SourceId(h, k)] = sprio_regs[j][SourceId(h, k)]
          BY <4>2, <3>1, <3>2, <2>1, PriorityWrite DEF BaseInv
        <5> QED BY <4>0, <4>2, <5>1
      <4> QED BY <4>1, <4>2
    <3> HIDE DEF i
    <3>5. ASSUME NEW t \in Harts, NEW h \in Harts, NEW k \in supported_types
          PROVE  /\ t # h /\ Connected(t, h)' =>
                       /\ SourceId(h, k) \in teregs'[t]
                       /\ sprio_regs'[Instance(t)][SourceId(h, k)] = PriorityBits(k)
                 /\ SourceId(t, k) \notin teregs'[t]
      <4>1. Connected(t, h)' => Connected(t, h) \/ (t = target /\ h = source)
        BY <2>1, <2>2
      <4>2. /\ t # h /\ Connected(t, h) =>
                  /\ SourceId(h, k) \in teregs[t]
                  /\ sprio_regs[Instance(t)][SourceId(h, k)] = PriorityBits(k)
            /\ SourceId(t, k) \notin teregs[t]
        OBVIOUS
      <4>3. Instance(t) \in Instances BY <1>0
      <4> HIDE DEF Connected, SetupInv
      <4>4. SourceId(t, k) \notin teregs'[t]
        <5>1. CASE t = target
          <6>1. SourceId(t, k) \notin {SourceId(source, j) : j \in supported_types}
            BY <2>1, <2>4, <5>1, SourceIds
          <6> QED BY <3>3, <4>2, <5>1, <6>1
        <5>2. CASE t # target BY <3>3, <4>2, <5>2
        <5> QED BY <5>1, <5>2
      <4>5. CASE t # h /\ Connected(t, h)
        <5>1. SourceId(h, k) \in teregs'[t] BY <3>3, <4>2, <4>5
        <5> QED BY <3>4, <4>2, <4>3, <4>4, <4>5, <5>1
      <4>6. CASE t = target /\ h = source
        <5>1. SourceId(h, k) \in teregs'[t] BY <3>3, <4>6
        <5>2. sprio_regs'[Instance(t)][SourceId(h, k)] = PriorityBits(k)
          BY <3>4, <4>3, <4>6 DEF i
        <5> QED BY <4>4, <5>1, <5>2
      <4> QED BY <4>1, <4>4, <4>5, <4>6
    <3>6. /\ \A t \in Harts : cpc' # "inithart" \/ t < target' => Instance(t) \in PLIC_INST'
          /\ \A t \in Harts : t < target' \/ t = target' => tar_prio_thres'[t] = 1
      BY <2>1
    <3> HIDE DEF Connected
    <3> QED BY <2>1, <3>4, <3>5, <3>6
  <2> QED BY <2>3, <2>4
<1>4. CASE NextTarget
  <2>1. /\ cpc = "enable" /\ source \notin Harts /\ UNCHANGED <<regVars, source>>
        /\ \/ target' = target + 1 /\ cpc' = "threshold"
           \/ target + 1 \notin Harts /\ cpc' = "idle" /\ UNCHANGED target
    BY <1>4 DEF NextTarget
  <2>2. \A h \in Harts : h < source BY <1>0, <2>1, PlicAssumption DEF Harts
  <2>3. target + 1 \notin Harts => \A t \in Harts : t < target \/ t = target
    BY <1>0, PlicAssumption DEF Harts
  <2>4. \A t \in Harts : t < target + 1 <=> t < target \/ t = target BY <1>0
  <2>5. \A t, h \in Harts : Connected(t, h)' => Connected(t, h)
    BY <2>1, <2>2, <2>3, <2>4
  <2>6. \A t \in Harts : tar_prio_thres'[t] = 1 \/ (InSetup' /\ ~(t < target'))
    BY <2>1, <2>2, <2>3, <2>4 DEF regVars
  <2> QED BY <2>1, <2>5, <2>6 DEF regVars
<1>5. CASE Process \/ LoopStep \/ HartStep
  BY <1>5, AfterSetup DEF setupVars, regVars
<1>6. CASE UNCHANGED vars
  BY <1>6 DEF vars, setupVars, regVars, c0Vars
<1> QED BY <1>1, <1>2, <1>3, <1>4, <1>5, <1>6 DEF Next, Setup

\* What C0 has enabled is above its threshold.
LEMMA EnabledIsClaimable ==
  ASSUME BaseInv, SetupInv, ~InSetup
  PROVE  \A s \in teregs[0] : s \in Claimable
<1>1. 0 \in Harts /\ Instance(0) = 0 /\ 0 \in Instances
  BY SourcesHave DEF Instance, Instances
<1>2. tar_prio_thres[0] = 1 BY <1>1 DEF SetupInv
<1>3. ASSUME NEW s \in teregs[0] PROVE Priority(s) > 1
  <2>1. teregs[0] \subseteq Sources BY <1>1 DEF BaseInv, TypeOK
  <2>2. PICK h \in Harts, k \in supported_types : s = SourceId(h, k)
    BY <2>1, SourcesHave
  <2>3. h # 0 BY <1>1, <2>2 DEF SetupInv
  <2>4. sprio_regs[0][s] = PriorityBits(k)
    BY <1>1, <2>2, <2>3 DEF SetupInv, Connected
  <2> QED BY <1>1, <2>2, <2>4, Priorities DEF Priority, PriorityIn
<1> QED BY <1>2, <1>3 DEF Claimable

-----------------------------------------------------------------------------
(***************************************************************************)
(* The claims.                                                             *)
(***************************************************************************)

\* A step that raises nothing keeps the account of a source, if it does not
\* add to what is claimed and can be.
LEMMA ClaimKept ==
  ASSUME BaseInv, ClaimInv, UNCHANGED <<raised, claims>>,
         \A s \in Used : /\ Expected(s)' => Expected(s) \/ InFlight(s)
                         /\ InFlight(s)' => Expected(s) \/ InFlight(s)
                         /\ Expected(s)' /\ InFlight(s)' => Expected(s) /\ InFlight(s)
  PROVE  ClaimInv'
<1> SUFFICES ASSUME NEW s \in Used
             PROVE  (claims[s] + (IF Expected(s) THEN 1 ELSE 0)
                       + (IF InFlight(s) THEN 1 ELSE 0) <= raised[Instance(0)][s])'
  BY DEF ClaimInv
<1>1. claims[s] + (IF Expected(s) THEN 1 ELSE 0) + (IF InFlight(s) THEN 1 ELSE 0)
        <= raised[Instance(0)][s]
  BY DEF ClaimInv
<1>2. /\ Expected(s)' => Expected(s) \/ InFlight(s)
      /\ InFlight(s)' => Expected(s) \/ InFlight(s)
      /\ Expected(s)' /\ InFlight(s)' => Expected(s) /\ InFlight(s)
  OBVIOUS
<1>3. claims[s] \in Nat /\ raised[Instance(0)][s] \in Nat
  BY DEF BaseInv, TypeOK, Instance, Instances
<1>4. claims'[s] = claims[s] /\ raised'[Instance(0)][s] = raised[Instance(0)][s]
  OBVIOUS
<1> QED BY <1>1, <1>2, <1>3, <1>4

\* An interrupt that is raised pays for the pending bit it sets.
LEMMA ClaimRaised ==
  ASSUME BaseInv, NEW i \in Instances, NEW q \in Used, Raising(i, q),
         NEW s \in Used, s \in pending'[0] => s \in pending[0] \/ (i = 0 /\ s = q)
  PROVE  /\ s \in pending'[0] /\ s \notin pending[0] =>
                raised'[Instance(0)][s] >= raised[Instance(0)][s] + 1
         /\ raised'[Instance(0)][s] >= raised[Instance(0)][s]
         /\ raised[Instance(0)][s] \in Nat /\ raised'[Instance(0)][s] \in Nat
<1>1. Instance(0) = 0 /\ 0 \in Instances BY DEF Instance, Instances
<1>2. raised \in [Instances -> [Used -> Nat]] BY DEF BaseInv, TypeOK
<1> QED BY <1>1, <1>2, RaisingFacts

\* What raising does to the pending bits of C0's instance.
LEMMA RaisedPending ==
  ASSUME BaseInv, NEW i \in Instances, NEW q \in Used, Raising(i, q)
  PROVE  \A s \in Used : s \in pending'[0] => s \in pending[0] \/ (i = 0 /\ s = q)
BY RaisingFacts DEF Instances

LEMMA ClaimInvInit == Init => ClaimInv
<1> SUFFICES ASSUME Init, NEW s \in Used
             PROVE claims[s] + (IF Expected(s) THEN 1 ELSE 0)
                     + (IF InFlight(s) THEN 1 ELSE 0) <= raised[Instance(0)][s]
  BY DEF ClaimInv
<1>1. ~Expected(s) /\ ~InFlight(s) BY DEF Init, Expected, InFlight, Instances
<1>2. claims[s] = 0 /\ raised[Instance(0)][s] = 0
  BY DEF Init, Instance, Instances
<1> QED BY <1>1, <1>2

LEMMA ClaimInvStep ==
  ASSUME BaseInv, ClaimInv, [Next]_vars PROVE ClaimInv'
<1> USE DEF Expected, InFlight, setupVars, raisedVars, SetupKeeps
<1>0. /\ best \in Used \cup {NoSource} /\ NoSource \notin Used
      /\ pending \in [Instances -> SUBSET Used] /\ 0 \in Instances
      /\ cpc \in {"store", "handle", "complete"} => best \in Used
  BY SourcesHave DEF BaseInv, UsedInv, Instances
<1>1. CASE InitHart BY <1>1, ClaimKept DEF InitHart
<1>2. CASE SetThreshold \/ EnableSources \/ NextTarget
  BY <1>2, ClaimKept DEF SetThreshold, EnableSources, NextTarget
<1>3. CASE Process BY <1>0, <1>3, ClaimKept DEF Process, StartScan
<1>4. CASE Look
  <2>1. \A s \in Used : s = best' => s \in pending[0] \/ s = best
    BY <1>4 DEF Look
  <2> QED BY <1>4, <2>1, ClaimKept DEF Look
<1>5. CASE ScanFails BY <1>5, ClaimKept DEF ScanFails
<1>6. CASE Load BY <1>6, ClaimKept DEF Load
<1>7. CASE Store
  <2>1. pending'[0] = {r \in pending[0] : Word(r) # Word(best)} \cup (word \ {best})
    BY <1>0, <1>7 DEF Store
  <2>2. cpc = "store" /\ cpc' = "handle" /\ UNCHANGED <<best, word, raised, claims>>
    BY <1>7 DEF Store
  <2>3. \A s \in Used : s \in pending'[0] => s # best /\ (s \in pending[0] \/ s \in word)
    BY <2>1
  <2> QED BY <2>2, <2>3, ClaimKept
<1>8. ASSUME Claimed, UNCHANGED best, NEW s \in Used,
             s \in pending'[0] /\ s \notin pending[0] =>
                raised'[Instance(0)][s] >= raised[Instance(0)][s] + 1,
             raised'[Instance(0)][s] >= raised[Instance(0)][s],
             raised[Instance(0)][s] \in Nat, raised'[Instance(0)][s] \in Nat
      PROVE  (claims[s] + (IF Expected(s) THEN 1 ELSE 0)
                + (IF InFlight(s) THEN 1 ELSE 0) <= raised[Instance(0)][s])'
  <2>1. /\ cpc = "handle" /\ cpc' = "complete"
        /\ claims' = [claims EXCEPT ![best] = claims[best] + 1] /\ best \in Used
    BY <1>0, <1>8 DEF Claimed
  <2>2. claims \in [Used -> Nat] BY DEF BaseInv, TypeOK
  <2>3. claims'[s] = claims[s] + (IF s = best THEN 1 ELSE 0) BY <2>1, <2>2
  <2>4. claims[s] + (IF s \in pending[0] THEN 1 ELSE 0) + (IF s = best THEN 1 ELSE 0)
          <= raised[Instance(0)][s]
    BY <2>1 DEF ClaimInv
  <2>5. (Expected(s) <=> s \in pending[0])' /\ ~InFlight(s)' BY <2>1
  <2>6. claims'[s] + (IF s \in pending'[0] THEN 1 ELSE 0) <= raised'[Instance(0)][s]
    BY <1>8, <2>2, <2>3, <2>4
  <2>7. (claims'[s] + (IF Expected(s)' THEN 1 ELSE 0)
                + (IF InFlight(s)' THEN 1 ELSE 0) <= raised'[Instance(0)][s])
    <3>1. claims'[s] + (IF s \in pending'[0] THEN 1 ELSE 0) + 0 <= raised'[Instance(0)][s]
      BY <2>2, <2>3, <2>6
    <3> HIDE DEF Expected, InFlight
    <3> QED BY <2>5, <3>1
  <2> QED BY <2>7
<1>9. CASE HandleLegacy \/ HandleEnhanced
  <2>1. Claimed /\ UNCHANGED <<best, pending, raised>>
    BY <1>9 DEF HandleLegacy, HandleEnhanced
  <2>2. \A s \in Used : raised[Instance(0)][s] \in Nat
    BY DEF BaseInv, TypeOK, Instance, Instances
  <2> QED BY <1>8, <2>1, <2>2 DEF ClaimInv
<1>10. CASE HandleSync
  <2>1. Claimed /\ UNCHANGED best BY <1>10 DEF HandleSync
  <2>2. PICK i \in Instances, q \in Used : Raising(i, q) BY <1>10, RaisingSteps
  <2> QED BY <1>8, <2>1, <2>2, RaisedPending, ClaimRaised DEF ClaimInv
<1>11. CASE Complete BY <1>0, <1>11, ClaimKept DEF Complete, StartScan
<1>12. CASE HartStep
  <2>1. PICK i \in Instances, q \in Used : Raising(i, q) BY <1>12, RaisingSteps
  <2>2. UNCHANGED <<cpc, best, word, claims>>
    BY <1>12 DEF HartStep, RaiseTyped, c0Vars
  <2>3. ASSUME NEW s \in Used
        PROVE  (claims[s] + (IF Expected(s) THEN 1 ELSE 0)
                  + (IF InFlight(s) THEN 1 ELSE 0) <= raised[Instance(0)][s])'
    <3>1. /\ s \in pending'[0] /\ s \notin pending[0] =>
                raised'[Instance(0)][s] >= raised[Instance(0)][s] + 1
          /\ raised'[Instance(0)][s] >= raised[Instance(0)][s]
          /\ raised[Instance(0)][s] \in Nat /\ raised'[Instance(0)][s] \in Nat
      BY <2>1, RaisedPending, ClaimRaised
    <3>2. claims[s] \in Nat BY DEF BaseInv, TypeOK
    <3>3. InFlight(s)' <=> InFlight(s) BY <2>2
    <3>4. Expected(s)' => Expected(s) \/ (s \in pending'[0] /\ s \notin pending[0])
      BY <2>2
    <3>5. claims[s] + (IF Expected(s) THEN 1 ELSE 0) + (IF InFlight(s) THEN 1 ELSE 0)
            <= raised[Instance(0)][s]
      BY DEF ClaimInv
    <3>6. claims'[s] = claims[s] BY <2>2
    <3> HIDE DEF Expected, InFlight
    <3>7. claims'[s] + (IF Expected(s)' THEN 1 ELSE 0) + (IF InFlight(s)' THEN 1 ELSE 0)
            <= raised'[Instance(0)][s]
      BY <3>1, <3>2, <3>3, <3>4, <3>5, <3>6
    <3> QED BY <3>7
  <2> QED BY <2>3 DEF ClaimInv
<1>13. CASE UNCHANGED vars
  BY <1>13, ClaimKept DEF vars, c0Vars
<1> QED BY <1>1, <1>2, <1>3, <1>4, <1>5, <1>6, <1>7, <1>9, <1>10, <1>11, <1>12,
           <1>13 DEF Next, Setup, LoopStep

-----------------------------------------------------------------------------
(***************************************************************************)
(* The scan.                                                               *)
(***************************************************************************)

\* The priorities are numbers and stay as the setup wrote them.
LEMMA PrioritiesStay ==
  ASSUME UNCHANGED sprio_regs
  PROVE  \A s : Priority(s)' = Priority(s) /\ Priority(s) \in Nat
BY Priorities DEF Priority, PriorityIn

LEMMA ScanInvInit == Init => ScanInv
BY DEF Init, ScanInv, InSetup

\* A source the scan passes is weighed against the best so far.
LEMMA LookStep ==
  ASSUME BaseInv, SetupInv, ScanInv, Look PROVE ScanInv'
<1>1. /\ cpc = "scan" /\ cpc' = "scan"
      /\ UNCHANGED <<pending, steady, sprio_regs, teregs, tar_prio_thres>>
  BY DEF Look, setupVars, regVars
<1>2. PICK q \in Visible :
        /\ q > scan /\ \A r \in Visible : r > scan => q <= r
        /\ scan' = q
        /\ best' = IF q \in pending[0] \cap Claimable /\ Better(q) THEN q ELSE best
  BY DEF Look
<1>3. /\ \A s : Priority(s)' = Priority(s) /\ Priority(s) \in Nat
      /\ scan \in Nat /\ q \in Nat /\ best \in Nat /\ Used \subseteq Nat
  BY <1>1, <1>2, PrioritiesStay, SourcesHave
     DEF BaseInv, TypeOK, Visible, NoSource
<1>4. best <= scan /\ \A s \in steady : s <= scan => Beats(s)
  BY <1>1 DEF ScanInv
<1>5. steady \subseteq Visible /\ steady \subseteq pending[0]
  BY DEF BaseInv, UsedInv, Visible, Instances
<1>6. best' <= scan' BY <1>2, <1>3, <1>4
<1>7. ASSUME NEW s \in steady, s <= q
      PROVE  Beats(s)'
  <2>0. s \in Nat /\ q # NoSource /\ (s <= scan \/ s = q)
    <3>1. s \in Nat /\ s \in Visible BY <1>3, <1>5 DEF Visible
    <3>2. s > scan => q <= s BY <1>2, <3>1
    <3>3. q # NoSource BY <1>2, SourcesHave DEF Visible
    <3> QED BY <1>3, <1>7, <3>1, <3>2, <3>3
  <2>1. CASE q \in pending[0] \cap Claimable /\ Better(q)
    <3>1. best' = q BY <1>2, <2>1
    <3>2. CASE s = q BY <3>1, <3>2, <2>0, <1>3 DEF Beats
    <3>3. CASE s # q
      <4>1. Beats(s) BY <1>4, <2>0, <3>3
      <4>2. Priority(q) > Priority(best) BY <2>1, <4>1 DEF Better, Beats
      <4>3. Priority(best) >= Priority(s) BY <1>3, <4>1 DEF Beats
      <4>4. Priority(q) > Priority(s) BY <1>3, <4>2, <4>3
      <4> QED BY <1>3, <2>0, <3>1, <4>4 DEF Beats
    <3> QED BY <3>2, <3>3
  <2>2. CASE ~(q \in pending[0] \cap Claimable /\ Better(q))
    <3>1. best' = best BY <1>2, <2>2
    <3>2. CASE s = q
      <4>1. q \in pending[0] /\ q \in Claimable
        BY <1>1, <1>2, <1>5, <3>2, EnabledIsClaimable DEF Visible, InSetup
      <4>2. best # NoSource /\ ~(Priority(q) > Priority(best))
        BY <2>2, <4>1 DEF Better
      <4>3. best <= q BY <1>2, <1>3, <1>4
      <4> QED BY <1>3, <3>1, <3>2, <4>2, <4>3 DEF Beats
    <3>3. CASE s # q
      <4>1. Beats(s) BY <1>4, <2>0, <3>3
      <4> QED BY <1>3, <3>1, <4>1 DEF Beats
    <3> QED BY <3>2, <3>3
  <2> QED BY <2>1, <2>2
<1> QED BY <1>1, <1>2, <1>6, <1>7 DEF ScanInv, InSetup

\* A scan that has passed every source has weighed all that were pending.
LEMMA ScanIsOver ==
  ASSUME BaseInv, ScanInv, cpc = "scan", \A s \in Visible : s <= scan
  PROVE  \A s \in steady : Beats(s)
BY DEF BaseInv, UsedInv, ScanInv, Visible, Instances

LEMMA ScanInvStep ==
  ASSUME BaseInv, SetupInv, ScanInv, [Next]_vars PROVE ScanInv'
<1> USE DEF InSetup, setupVars, regVars, c0Vars, SetupKeeps
<1>0. NoSource = 0 /\ 0 \in Instances BY DEF NoSource, Instances
\* Whoever raises or overwrites, what was pending throughout only gets less.
<1>1. ASSUME steady' \subseteq steady, UNCHANGED <<sprio_regs, best, scan>>,
             cpc' = cpc \/ cpc' \in {"handle", "complete"}
      PROVE  ScanInv'
  <2>1. \A s : Priority(s)' = Priority(s) BY <1>1, PrioritiesStay
  <2>2. \A s : Beats(s) => Beats(s)' BY <1>1, <2>1 DEF Beats
  <2> HIDE DEF Beats
  <2> QED BY <1>1, <2>2 DEF ScanInv
<1>2. CASE Setup
  BY <1>2 DEF Setup, InitHart, SetThreshold, EnableSources, NextTarget, ScanInv
<1>3. ASSUME StartScan, BaseInv' PROVE ScanInv'
  <2>1. cpc' = "scan" /\ scan' = 0 /\ best' = 0 BY <1>0, <1>3 DEF StartScan
  <2>2. \A s \in steady' : s \in Nat \ {0}
    BY <1>0, <1>3, SourcesHave DEF BaseInv, TypeOK
  <2> QED BY <2>1, <2>2 DEF ScanInv
<1>4. BaseInv' BY BaseInvStep
<1>5. CASE Process \/ Complete BY <1>3, <1>4, <1>5 DEF Process, Complete
<1>6. CASE Look BY <1>6, LookStep
<1>7. CASE ScanFails
  <2>1. \A s \in steady : Beats(s) BY <1>7, ScanIsOver DEF ScanFails
  <2>2. steady = {} BY <1>7, <2>1 DEF ScanFails, Beats
  <2> QED BY <1>7, <2>2 DEF ScanFails, ScanInv
<1>8. CASE Load
  <2>1. \A s \in steady : Beats(s) BY <1>8, ScanIsOver DEF Load
  <2>2. /\ cpc' = "store"
        /\ UNCHANGED <<sprio_regs, best, steady>>
    BY <1>8 DEF Load
  <2>3. \A s : Priority(s)' = Priority(s) BY <2>2, PrioritiesStay
  <2>4. \A s : Beats(s) => Beats(s)' BY <2>2, <2>3 DEF Beats
  <2> QED BY <2>1, <2>2, <2>4 DEF ScanInv
<1>9. CASE Store BY <1>1, <1>9 DEF Store
<1>10. CASE HandleLegacy \/ HandleEnhanced
  BY <1>1, <1>10 DEF HandleLegacy, HandleEnhanced, Claimed
<1>11. CASE HandleSync BY <1>1, <1>11 DEF HandleSync, Claimed, Trigger
<1>12. CASE HartStep BY <1>1, <1>12 DEF HartStep, RaiseTyped, Trigger
<1>13. CASE UNCHANGED vars BY <1>1, <1>13 DEF vars
<1> QED BY <1>2, <1>5, <1>6, <1>7, <1>8, <1>9, <1>10, <1>11, <1>12, <1>13
        DEF Next, LoopStep

-----------------------------------------------------------------------------
(***************************************************************************)
(* What the harts do to each other.                                        *)
(***************************************************************************)

LEMMA ApartInvInit == Init => ApartInv
BY DEF Init, ApartInv

\* What was raised stays raised, so a step has to be looked at only for what it
\* raises and for what it makes undelivered.
LEMMA ApartKept ==
  ASSUME BaseInv, ApartInv,
         \A i \in Instances, s \in Used :
            /\ raised'[i][s] \in Nat /\ raised'[i][s] >= raised[i][s]
            /\ raised'[i][s] > 0 /\ ~Delivered(i, s)' =>
                 \/ raised[i][s] > 0 /\ ~Delivered(i, s)
                 \/ \E r \in Used \ {s} : Word(r) = Word(s) /\ raised'[i][r] > 0
  PROVE  ApartInv'
<1> SUFFICES ASSUME NEW i \in Instances, NEW s \in Used,
                    raised'[i][s] > 0, ~Delivered(i, s)'
             PROVE  \E r \in Used \ {s} : Word(r) = Word(s) /\ raised'[i][r] > 0
  BY DEF ApartInv
<1>1. CASE \E r \in Used \ {s} : Word(r) = Word(s) /\ raised'[i][r] > 0 BY <1>1
<1>2. CASE raised[i][s] > 0 /\ ~Delivered(i, s)
  <2>1. PICK r \in Used \ {s} : Word(r) = Word(s) /\ raised[i][r] > 0
    BY <1>2 DEF ApartInv
  <2>2. raised[i][r] \in Nat /\ raised'[i][r] \in Nat /\ raised'[i][r] >= raised[i][r]
    BY <2>1 DEF BaseInv, TypeOK
  <2> QED BY <2>1, <2>2
<1> QED BY <1>1, <1>2

\* Steps that leave the pending bits alone and claim nothing.
LEMMA ApartSame ==
  ASSUME BaseInv, ApartInv, UNCHANGED <<raised, pending, claims>>,
         \A s \in Used : InFlight(s) => InFlight(s)'
  PROVE  ApartInv'
<1>1. \A i \in Instances, s \in Used : raised'[i][s] \in Nat /\ raised'[i][s] >= raised[i][s]
  BY DEF BaseInv, TypeOK
<1>2. \A i \in Instances, s \in Used : Delivered(i, s) => Delivered(i, s)'
  <2> HIDE DEF InFlight
  <2> QED BY DEF Delivered
<1> QED BY <1>1, <1>2, ApartKept

\* Whoever raises writes over sources of the same hart only.
LEMMA ApartRaised ==
  ASSUME BaseInv, ApartInv, NEW i \in Instances, NEW q \in Used, Raising(i, q),
         \A s \in Used : claims[s] > 0 \/ InFlight(s) => (claims[s] > 0 \/ InFlight(s))'
  PROVE  ApartInv'
<1>1. /\ raised' \in [Instances -> [Used -> Nat]]
      /\ raised \in [Instances -> [Used -> Nat]]
      /\ pending \in [Instances -> SUBSET Used]
  BY RaisingFacts DEF BaseInv, UsedInv, TypeOK
<1>2. raised'[i][q] = raised[i][q] + 1
      /\ \A j \in Instances, r \in Used : j # i \/ r # q => raised'[j][r] = raised[j][r]
  BY RaisingFacts
<1>3. pending'[i] = {r \in pending[i] : Word(r) # Word(q)} \cup {q}
      /\ \A j \in Instances \ {i} : pending'[j] = pending[j]
  BY RaisingFacts
<1>4. ASSUME NEW j \in Instances, NEW s \in Used
      PROVE  /\ raised'[j][s] \in Nat /\ raised'[j][s] >= raised[j][s]
             /\ raised'[j][s] > 0 /\ ~Delivered(j, s)' =>
                  \/ raised[j][s] > 0 /\ ~Delivered(j, s)
                  \/ \E r \in Used \ {s} : Word(r) = Word(s) /\ raised'[j][r] > 0
  <2>1. raised'[j][s] \in Nat /\ raised'[j][s] >= raised[j][s]
    BY <1>1, <1>2
  <2>2. ASSUME raised'[j][s] > 0, ~Delivered(j, s)'
        PROVE  \/ raised[j][s] > 0 /\ ~Delivered(j, s)
               \/ \E r \in Used \ {s} : Word(r) = Word(s) /\ raised'[j][r] > 0
    <3>1. s \notin pending'[j] BY <2>2 DEF Delivered
    <3>2. j # i \/ s # q BY <1>3, <3>1
    <3>3. raised[j][s] > 0 BY <1>2, <2>2, <3>2
    <3>4. CASE s \in pending[j]
      <4>1. j = i /\ Word(s) = Word(q) /\ q # s BY <1>3, <3>1, <3>4
      <4>2. raised'[j][q] > 0 BY <1>1, <1>2, <4>1
      <4> QED BY <4>1, <4>2
    <3>5. CASE s \notin pending[j]
      <4>1. ~(j = Instance(0) /\ (claims[s] > 0 \/ InFlight(s)))
        <5> HIDE DEF InFlight
        <5> QED BY <2>2 DEF Delivered
      <4> QED BY <3>3, <3>5, <4>1 DEF Delivered
    <3> QED BY <3>4, <3>5
  <2> QED BY <2>1, <2>2
<1> QED BY <1>4, ApartKept

LEMMA ApartInvStep ==
  ASSUME BaseInv, ClaimInv, ApartInv, [Next]_vars PROVE ApartInv'
<1> USE DEF setupVars, raisedVars, SetupKeeps
<1>0. \A i \in Instances, s \in Used : raised[i][s] \in Nat
  BY DEF BaseInv, TypeOK
<1>1. CASE Setup \/ Process
  BY <1>1, ApartSame DEF Setup, InitHart, SetThreshold, EnableSources, NextTarget,
                         Process, StartScan, InFlight
<1>2. CASE Look \/ ScanFails \/ Load \/ Complete
  BY <1>2, ApartSame DEF Look, ScanFails, Load, Complete, StartScan, InFlight
<1>3. CASE Store
  <2>1. /\ cpc = "store" /\ cpc' = "handle" /\ UNCHANGED <<best, raised, claims>>
        /\ best \in Used
    BY <1>3 DEF Store, BaseInv, UsedInv
  <2>2. /\ pending'[0] = {r \in pending[0] : Word(r) # Word(best)} \cup (word \ {best})
        /\ \A i \in Instances \ {0} : pending'[i] = pending[i]
    BY <1>3 DEF Store, BaseInv, TypeOK, Instances
  <2>3. raised[0][best] > 0
    <3>1. Expected(best) /\ ~InFlight(best) /\ Instance(0) = 0
      BY <2>1 DEF Expected, InFlight, Instance
    <3>2. claims[best] + 1 + 0 <= raised[0][best] BY <2>1, <3>1 DEF ClaimInv
    <3>3. claims[best] \in Nat /\ raised[0][best] \in Nat
      BY <1>0, <2>1 DEF BaseInv, TypeOK, Instances
    <3> QED BY <3>2, <3>3
  <2>4. ASSUME NEW i \in Instances, NEW s \in Used, ~Delivered(i, s)', Delivered(i, s)
        PROVE  s # best /\ i = 0 /\ Word(s) = Word(best)
    <3>1. s \notin pending'[i] /\ ~(i = Instance(0) /\ (claims[s] > 0 \/ best = s))
      BY <2>1, <2>4 DEF Delivered, InFlight
    <3>2. s \in pending[i] BY <2>1, <2>4, <3>1 DEF Delivered, InFlight
    <3> QED BY <2>2, <3>1, <3>2 DEF Instance
  <2> QED BY <1>0, <2>1, <2>3, <2>4, ApartKept
\* What C0 handles becomes a claim.
<1>4. ASSUME Claimed, UNCHANGED best, NEW s \in Used, claims[s] > 0 \/ InFlight(s)
      PROVE  claims'[s] > 0
  <2>1. claims \in [Used -> Nat] /\ best \in Used
    BY <1>4 DEF Claimed, BaseInv, TypeOK, UsedInv
  <2>2. claims' = [claims EXCEPT ![best] = claims[best] + 1] BY <1>4 DEF Claimed
  <2> QED BY <1>4, <2>1, <2>2 DEF InFlight
<1>5. CASE HandleLegacy \/ HandleEnhanced
  <2>1. Claimed /\ UNCHANGED <<best, pending, raised>>
    BY <1>5 DEF HandleLegacy, HandleEnhanced
  <2>2. \A s \in Used : claims[s] > 0 \/ InFlight(s) => claims'[s] > 0
    BY <1>4, <2>1
  <2>3. \A i \in Instances, s \in Used : Delivered(i, s) => Delivered(i, s)'
    <3> HIDE DEF InFlight
    <3> QED BY <2>1, <2>2 DEF Delivered
  <2> QED BY <1>0, <2>1, <2>3, ApartKept
<1>6. CASE HandleSync
  <2>1. Claimed /\ UNCHANGED best BY <1>6 DEF HandleSync
  <2> QED BY <1>4, <1>6, <2>1, RaisingSteps, ApartRaised
<1>7. CASE HartStep
  <2>1. UNCHANGED <<cpc, best, claims>>
    BY <1>7 DEF HartStep, RaiseTyped, c0Vars
  <2> QED BY <1>7, <2>1, RaisingSteps, ApartRaised DEF InFlight
<1>8. CASE UNCHANGED vars BY <1>8, ApartSame DEF vars, c0Vars, InFlight
<1> QED BY <1>1, <1>2, <1>3, <1>5, <1>6, <1>7, <1>8 DEF Next, LoopStep

\* One pending register holds the sources of one hart.
LEMMA ApartMeansOwn == BaseInv /\ ApartInv => OnlyOwnTypesInterfere
<1> SUFFICES ASSUME BaseInv, ApartInv, NEW i \in Instances, NEW h \in Harts,
                    NEW k \in TypesIn(i, h), ~Delivered(i, SourceId(h, k))
             PROVE  TypesIn(i, h) # {k}
  BY DEF OnlyOwnTypesInterfere
<1>1. /\ k \in supported_types /\ SourceId(h, k) \in Used
      /\ raised[i][SourceId(h, k)] > 0
  BY DEF TypesIn
<1>2. PICK r \in Used \ {SourceId(h, k)} :
         Word(r) = Word(SourceId(h, k)) /\ raised[i][r] > 0
  BY <1>1 DEF ApartInv
<1>3. PICK g \in Harts, j \in supported_types : r = SourceId(g, j)
  BY <1>2, SourcesHave
<1>4. Word(r) = g + 1 /\ Word(SourceId(h, k)) = h + 1
  BY <1>1, <1>3, SourceIds
<1>5. h \in Nat /\ g \in Nat BY PlicAssumption DEF Harts
<1>6. g = h
  <2>1. g + 1 = h + 1 BY <1>2, <1>4
  <2> QED BY <1>5, <2>1
<1>7. j \in TypesIn(i, h) /\ j # k BY <1>2, <1>3, <1>6 DEF TypesIn
<1> QED BY <1>7

-----------------------------------------------------------------------------
(***************************************************************************)
(* The theorems.                                                           *)
(***************************************************************************)

LEMMA LoopInvariant == Spec => [](BaseInv /\ LoopInv)
<1>1. Init => BaseInv /\ LoopInv
  BY BaseInvInit, SetupInvInit, ClaimInvInit, ScanInvInit, ApartInvInit
     DEF LoopInv, BaseInv
<1>2. BaseInv /\ LoopInv /\ [Next]_vars => (BaseInv /\ LoopInv)'
  <2> SUFFICES ASSUME BaseInv, LoopInv, [Next]_vars PROVE (BaseInv /\ LoopInv)'
    OBVIOUS
  <2>1. BaseInv' BY BaseInvStep
  <2>2. SetupInv' BY SetupInvStep DEF LoopInv
  <2>3. ClaimInv' BY ClaimInvStep DEF LoopInv
  <2>4. ScanInv' BY ScanInvStep DEF LoopInv
  <2>5. ApartInv' BY ApartInvStep DEF LoopInv
  <2> QED BY <2>1, <2>2, <2>3, <2>4, <2>5 DEF LoopInv, BaseInv
<1> QED BY <1>1, <1>2, PTL DEF Spec

\* Types: the registers hold sources and priorities, the counters never go
\* below zero, and C0 claims sources only.
THEOREM PlicTypes == Spec => []TypeOK
<1>1. BaseInv => TypeOK BY DEF BaseInv
<1> QED BY <1>1, LoopInvariant, PTL

\* The inductive invariant that the runs check as well: what the setup has
\* connected, what every claim is paid with, what a scan has found and what was
\* overwritten.
THEOREM InterruptLoop == Spec => []LoopInv
BY LoopInvariant, PTL

\* PLIC_setup_bidirectional_interrupts connects every two of the harts, whatever
\* their number: enabled, above the threshold, with the priority of the type.
THEOREM SetupConnects == Spec => []SetupConnectsHarts
<1>1. BaseInv /\ LoopInv => SetupConnectsHarts
  <2> SUFFICES ASSUME BaseInv, SetupInv, ~InSetup, NEW t \in Harts
               PROVE  /\ \A h \in Harts \ {t} : \A k \in supported_types :
                           LET i == Instance(t)
                               p == PriorityIn(i, SourceId(h, k)) IN
                           /\ i \in PLIC_INST /\ SourceId(h, k) \in teregs[t]
                           /\ p > tar_prio_thres[t] /\ p = NumberOf(PriorityBits(k))
                      /\ \A k \in supported_types : SourceId(t, k) \notin teregs[t]
    BY DEF LoopInv, SetupConnectsHarts, SetupDone, InSetup
  <2>1. tar_prio_thres[t] = 1 BY DEF SetupInv
  <2>2. Instance(t) \in PLIC_INST BY DEF SetupInv, InSetup
  <2>3. ASSUME NEW h \in Harts \ {t}, NEW k \in supported_types
        PROVE  /\ SourceId(h, k) \in teregs[t]
               /\ PriorityIn(Instance(t), SourceId(h, k)) = NumberOf(PriorityBits(k))
    BY DEF SetupInv, Connected, PriorityIn
  <2>4. \A k \in supported_types : SourceId(t, k) \notin teregs[t] BY DEF SetupInv
  <2> QED BY <2>1, <2>2, <2>3, <2>4, Priorities
<1> QED BY <1>1, LoopInvariant, PTL

\* No interrupt out of nothing: C0 never claims a source more often than it was
\* raised in its instance, whatever is written between its load and its store.
THEOREM ClaimsPaid == Spec => []ClaimsWereRaised
<1>1. BaseInv /\ LoopInv => ClaimsWereRaised
  <2> SUFFICES ASSUME BaseInv, ClaimInv, NEW s \in Used
               PROVE  claims[s] <= raised[Instance(0)][s]
    BY DEF LoopInv, ClaimsWereRaised
  <2>1. claims[s] \in Nat /\ raised[Instance(0)][s] \in Nat
    BY DEF BaseInv, TypeOK, Instance, Instances
  <2>2. claims[s] + (IF Expected(s) THEN 1 ELSE 0) + (IF InFlight(s) THEN 1 ELSE 0)
          <= raised[Instance(0)][s]
    BY DEF ClaimInv
  <2> QED BY <2>1, <2>2
<1> QED BY <1>1, LoopInvariant, PTL

\* PLIC_M_TAR_claim_read returns the highest priority and among equals the
\* lowest source of what was pending throughout its scan, and 0 only if nothing
\* was.
THEOREM BestClaimed == Spec => []HighestFirst
<1>1. BaseInv /\ LoopInv => HighestFirst
  BY DEF LoopInv, ScanInv, HighestFirst, Beats
<1> QED BY <1>1, LoopInvariant, PTL

\* Harts that write the pending registers at the same time, and C0 that clears
\* bits there, lose no interrupt of a hart that raised no other type.
THEOREM HartsApart == Spec => []OnlyOwnTypesInterfere
<1>1. BaseInv /\ LoopInv => OnlyOwnTypesInterfere
  BY ApartMeansOwn DEF LoopInv
<1> QED BY <1>1, LoopInvariant, PTL
==============================================================================
