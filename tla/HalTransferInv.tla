--------------------------- MODULE HalTransferInv ---------------------------
(***************************************************************************)
(* The inductive invariants of HalTransfer: what holds while a thread owns *)
(* hal_mutex, and how far its call has come on the flat memory.  TLC       *)
(* checks them (MCHalTransfer), HalRefinementProofs proves them.           *)
(***************************************************************************)
EXTENDS HalTransfer

PCs == {"idle", "lock", "body", "start", "finish", "init", "send",
        "arbitrate", "transfer", "unlock"}

\* The part of TypeOK that is about the threads and not about the memory.
ControlTypeOK ==
    /\ hal \in Threads \cup {NoThread}
    /\ initialized \in BOOLEAN
    /\ dest \in [Locks -> Threads \cup {NoThread}]
    /\ handle \in [Tiles -> [src : Nat, dst : Nat, count : 0 .. MAX_SIZE]]
    /\ pc \in [Threads -> PCs]
    /\ req \in [Threads -> Requests \cup {NoRequest}]
    /\ calls \in 0 .. MaxCalls

\* A thread past the lock owns hal_mutex.
MutexInv == \A t \in Threads : pc[t] \notin {"idle", "lock"} => hal = t

\* A thread that is not idle is in a call; what it carries out was accepted.
RequestInv ==
    \A t \in Threads :
        /\ pc[t] # "idle" => req[t] \in Requests
        /\ pc[t] \in {"start", "finish"} => LocalAccepted(req[t])
        /\ pc[t] \in {"init", "send", "arbitrate", "transfer"}
                => RemoteAccepted(req[t])

\* A destination lock is held by the one thread that transfers to it.
DestInv ==
    \A l \in Locks : dest[l] # NoThread =>
        pc[dest[l]] = "transfer" /\ l = LockIndex(req[dest[l]].dst)

HalInv ==
    /\ ControlTypeOK /\ MutexInv /\ RequestInv /\ DestInv
    /\ UncontendedArbitration /\ EngineRunsItsRequest

\* What the owner of hal_mutex has done so far to the memory that everybody
\* saw when it took the mutex.
Progress(t) ==
    LET r == req[t]
        m == Seen(before) IN
    /\ pc[t] = "idle" => r = NoRequest
    /\ pc[t] \in {"body", "init", "send", "arbitrate", "transfer"} => mem = before
    /\ pc[t] \in {"init", "send", "arbitrate", "transfer"}
            => r.op = "dma_remote_transfer"
    /\ pc[t] \in {"start", "finish"} => r.op = "dma_local_transfer"
    /\ pc[t] = "start" => Seen(mem) = Flat!WithRegisters(m, r.tile)
    /\ pc[t] = "finish" =>
            Seen(mem) = Flat!Move(Flat!WithRegisters(m, r.tile), r.src, r.dst, r.size)
    /\ pc[t] = "unlock" =>
            IF Flat!Legal(r)
            THEN Seen(mem) = Flat!Effect(m, r) /\ ret[t] = Flat!Outcome(m, r)
            ELSE mem = before /\ ret[t] = Flat!Refused

EffectInv == \A t \in Threads : Progress(t)

\* A call is carried out alone and step by step.
CallInv == HalInv /\ EffectInv
=============================================================================
