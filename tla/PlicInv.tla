------------------------------- MODULE PlicInv --------------------------------
(***************************************************************************)
(* The inductive invariants of Plic: what the setup has connected so far,  *)
(* what a claim may still take, and what a scan has passed.  TLC checks    *)
(* them (MCPlic) and PlicProofs proves them.                               *)
(***************************************************************************)
EXTENDS Plic

\* Only interrupts there can be are pending, looked at and claimed.
UsedInv ==
    /\ pending \in [Instances -> SUBSET Used]
    /\ word \subseteq Used /\ best \in Used \cup {NoSource}
    /\ steady \subseteq pending[0] \cap teregs[0]
    /\ cpc \in {"inithart", "threshold", "enable", "idle"} => best = NoSource
    /\ cpc \in {"store", "handle", "complete"} => best \in Used \cap teregs[0]
    /\ cpc = "scan" => best \in teregs[0] \cup {NoSource}

\* The setup has connected hart h, as a source, to hart t.
Connected(t, h) ==
    \/ ~InSetup
    \/ /\ cpc \in {"threshold", "enable"}
       /\ t < target \/ (t = target /\ cpc = "enable" /\ h < source)

\* The registers as the setup has filled them in so far.
SetupInv ==
    /\ \A t \in Harts :
          cpc # "inithart" \/ t < target => Instance(t) \in PLIC_INST
    /\ \A t \in Harts :
          \/ ~InSetup
          \/ cpc \in {"threshold", "enable"} /\ t < target
          \/ cpc = "enable" /\ t = target
          => tar_prio_thres[t] = 1
    /\ \A i \in Instances, h \in Harts : \A k \in supported_types :
          sprio_regs[i][SourceId(h, k)] \in {{}, PriorityBits(k)}
    /\ \A t, h \in Harts : \A k \in supported_types :
          /\ t # h /\ Connected(t, h) =>
                /\ SourceId(h, k) \in teregs[t]
                /\ sprio_regs[Instance(t)][SourceId(h, k)] = PriorityBits(k)
          /\ SourceId(t, k) \notin teregs[t]

\* What C0 will claim, or can still find pending.
Expected(s) ==
    \/ s \in pending[0]
    \/ cpc = "store" /\ s \in word
    \/ cpc \in {"scan", "store"} /\ s = best

\* Every claim, every source C0 handles and every one it can still find
\* pending has an interrupt of its own that was raised.
ClaimInv ==
    \A s \in Used :
        claims[s] + (IF Expected(s) THEN 1 ELSE 0) + (IF InFlight(s) THEN 1 ELSE 0)
            <= raised[Instance(0)][s]

\* The best source is at least as good as s, by priority and then by number.
Beats(s) ==
    /\ best # NoSource
    /\ \/ Priority(best) > Priority(s)
       \/ Priority(best) = Priority(s) /\ best <= s

\* The scan has found the best of what it passed.
ScanInv ==
    /\ InSetup \/ cpc = "idle" => steady = {}
    /\ cpc = "scan" => /\ best <= scan
                       /\ \A s \in steady : s <= scan => Beats(s)
    /\ cpc = "store" => \A s \in steady : Beats(s)

\* What was raised, never claimed and is not pending was overwritten with
\* another source of the same pending register, or when that was claimed.
ApartInv ==
    \A i \in Instances, s \in Used :
        raised[i][s] > 0 /\ ~Delivered(i, s) =>
            \E r \in Used \ {s} : Word(r) = Word(s) /\ raised[i][r] > 0

LoopInv == UsedInv /\ SetupInv /\ ClaimInv /\ ScanInv /\ ApartInv
=============================================================================
