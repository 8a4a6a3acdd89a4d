---------------------------- MODULE HalTransfer -----------------------------
(***************************************************************************)
(* The HAL the tests call from the threads of C0 and of the tiles          *)
(* (hal_tests/hal_reference.c) with the drivers under it: the DMA engines  *)
(* (tile/tile_dma.c, hal/dma512/hal_dmac512.c), the mesh                   *)
(* (mesh_noc/mesh_router.c), the DMEMs (dmem/dmem_controller.c) and the    *)
(* address manager.  A step is what a thread does between two points where *)
(* another could get in if hal_mutex were not there.                       *)
(***************************************************************************)
EXTENDS AddressMap, Sequences

CONSTANTS
    Threads,        \* the callers
    Requests,       \* the calls they make
    NoRequest, NoAnswer,
    Registers,      \* what the cell of a DMA engine's registers holds
    LENGTH_LIMIT,   \* values of pkt_header_t.length (2^16 bytes)
    NoThread,
    MaxCalls,       \* bound: calls made in all
    MAX_SIZE        \* bound: cells of a request

Operations == {"cpu_local_move", "dma_local_transfer", "dma_remote_transfer",
               "dmem_to_dmem_transfer", "memory_read", "memory_write",
               "get_dmem_status", "mesh_route_optimal", "node_sync"}

\* A move is never larger than the gap between two memories of one kind (the
\* largest memory is not), and nobody calls memcpy with ranges that overlap.
ASSUME RequestAssumption ==
    /\ LENGTH_LIMIT \in Nat \ {0} /\ MaxCalls \in Nat /\ MAX_SIZE \in Nat
    /\ NoThread \notin Threads /\ NoRequest \notin Requests
    /\ \A r \in Requests :
            /\ r.op \in Operations
            /\ r.src \in Nat /\ r.dst \in Nat /\ r.size \in 0 .. MAX_SIZE
            /\ r.op \in {"dma_local_transfer", "dmem_to_dmem_transfer"} =>
                    r.src + r.size <= r.dst \/ r.dst + r.size <= r.src
    /\ DLM_64_SIZE + MAX_SIZE <= TILE_STRIDE
    /\ DLM1_512_SIZE + MAX_SIZE <= TILE_STRIDE
    /\ \A d, e \in Dmems : d < e =>
            DMEM_512_BASE[d] + DMEM_512_SIZE + MAX_SIZE <= DMEM_512_BASE[e]

VARIABLES
    mem,            \* the buffers platform_setup allocated
    hal,            \* owner of hal_mutex
    initialized,    \* noc_arbitration_initialized
    dest,           \* owners of destination_arbitration_locks
    handle,         \* tile -> what g_dmac512_handles[tile].Init holds
    pc, req,        \* thread -> where it is, the call it is in
    ret,            \* thread -> what the call returned or is about to return
    calls,          \* calls made
    before          \* history: mem when hal_mutex was last taken

vars == <<mem, hal, initialized, dest, handle, pc, req, ret, calls, before>>

Buffer(m) == [mem : {m}, off : 0 .. Size(m[1]) - 1]
Buffers == UNION {Buffer(m) : m \in AllMemories}

Locks == 0 .. 15        \* MAX_DESTINATIONS

\* platform_setup: the buffers, a handle for every tile; then hal_mutex and
\* the arbitration as the linker leaves them.  The callers have filled the
\* memories, so that every cell holds something else.
Init ==
    /\ mem = [p \in Buffers |-> Base(p.mem) + p.off]
    /\ hal = NoThread
    /\ initialized = FALSE
    /\ dest = [l \in Locks |-> NoThread]
    /\ handle = [t \in Tiles |-> [src |-> 0, dst |-> 0, count |-> 0]]
    /\ pc = [t \in Threads |-> "idle"]
    /\ req = [t \in Threads |-> NoRequest]
    /\ ret = [t \in Threads |-> NoAnswer]
    /\ calls = 0
    /\ before = mem

-----------------------------------------------------------------------------
\* memcpy and memmove of n cells.  The ranges of a memcpy do not overlap.
Copied(src, dst, n) ==
    [p \in Buffers |->
        IF p.mem = dst.mem /\ Within(p.off, dst.off, n)
        THEN mem[[mem |-> src.mem, off |-> src.off + (p.off - dst.off)]]
        ELSE mem[p]]

Stored(dst, n, x) ==
    [p \in Buffers |->
        IF p.mem = dst.mem /\ Within(p.off, dst.off, n) THEN x ELSE mem[p]]

\* DMAC512_RegDef of a tile, where HAL_DMAC512InitTile found it.
Instance(t) == AddrToPtr(TileBase(t) + DMA_REG_OFFSET)

BothValid(r) == ValidateAddress(r.src, r.size) /\ ValidateAddress(r.dst, r.size)

\* dma_local_transfer, the driver of a tile's DMA engine.
LocalAccepted(r) ==
    /\ GetTileId(r.src) = r.tile /\ GetTileId(r.dst) = r.tile
    /\ BothValid(r)
    /\ r.tile \in Tiles

\* Only DLM1_512 and the DMEMs are joined by the mesh.
RemoteAccepted(r) ==
    /\ BothValid(r)
    /\ <<GetAddressRegion(r.src), GetAddressRegion(r.dst)>> \in
            {<<"dlm1", "dmem">>, <<"dmem", "dlm1">>}

\* ref_dmem_to_dmem_transfer and dmem_copy make the same checks.
DmemAccepted(r) ==
    /\ BothValid(r)
    /\ GetAddressRegion(r.src) = "dmem" /\ GetAddressRegion(r.dst) = "dmem"

\* The checks of each call, in hal_reference.c and in the drivers.
Accepted(r) ==
    CASE r.op = "cpu_local_move" ->
            AddrToPtr(r.src) # NULL /\ AddrToPtr(r.dst) # NULL /\ BothValid(r)
      [] r.op = "dma_local_transfer" -> LocalAccepted(r)
      [] r.op = "dma_remote_transfer" -> RemoteAccepted(r)
      [] r.op = "dmem_to_dmem_transfer" -> DmemAccepted(r)
      [] r.op = "memory_read" ->
            ValidateAddress(r.src, r.size) /\ AddrToPtr(r.src) # NULL
      [] r.op = "memory_write" ->
            ValidateAddress(r.dst, r.size) /\ AddrToPtr(r.dst) # NULL
      [] r.op = "get_dmem_status" ->
            GetAddressRegion(r.src) = "dmem" /\ GetDmemId(r.src) >= 0
      [] r.op = "mesh_route_optimal" ->
            GetTileId(r.src) >= 0 /\ GetTileId(r.dst) >= 0
      [] r.op = "node_sync" -> TRUE

\* get_destination_lock_index
LockIndex(a) == IF GetTileId(a) # -1 THEN GetTileId(a) ELSE 8 + GetDmemId(a)

Length(r) == r.size % LENGTH_LIMIT

-----------------------------------------------------------------------------
Goto(t, there) == pc' = [pc EXCEPT ![t] = there]

\* The call is through but for the unlocking of hal_mutex.
Done(t, code, data) ==
    /\ ret' = [ret EXCEPT ![t] = [code |-> code, data |-> data]]
    /\ Goto(t, "unlock")

Call(t) ==
    /\ pc[t] = "idle" /\ calls < MaxCalls
    /\ \E r \in Requests : req' = [req EXCEPT ![t] = r]
    /\ calls' = calls + 1
    /\ Goto(t, "lock")
    /\ UNCHANGED <<mem, hal, initialized, dest, handle, ret, before>>

\* Mutant: the call goes on without hal_mutex.
AcquireNothing(t) ==
    /\ pc[t] = "lock"
    /\ hal' = t
    /\ before' = mem
    /\ Goto(t, "body")
    /\ UNCHANGED <<mem, initialized, dest, handle, req, ret, calls>>

Acquire(t) ==
    /\ pc[t] = "lock" /\ hal = NoThread
    /\ hal' = t
    /\ before' = mem
    /\ Goto(t, "body")
    /\ UNCHANGED <<mem, initialized, dest, handle, req, ret, calls>>

InBody(t, ops) == pc[t] = "body" /\ req[t].op \in ops /\ Accepted(req[t])

\* Mutant: the error path returns and keeps the mutex.
RejectLocked(t) ==
    /\ pc[t] = "body" /\ ~Accepted(req[t])
    /\ ret' = [ret EXCEPT ![t] = [code |-> -1, data |-> << >>]]
    /\ req' = [req EXCEPT ![t] = NoRequest]
    /\ Goto(t, "idle")
    /\ UNCHANGED <<mem, hal, initialized, dest, handle, calls, before>>

Reject(t) ==
    /\ pc[t] = "body" /\ ~Accepted(req[t])
    /\ Done(t, -1, << >>)
    /\ UNCHANGED <<mem, hal, initialized, dest, handle, req, calls, before>>

\* ref_cpu_local_move, dmem_copy: 0 for success.
CopyDirectly(t) ==
    /\ InBody(t, {"cpu_local_move", "dmem_to_dmem_transfer"})
    /\ mem' = Copied(AddrToPtr(req[t].src), AddrToPtr(req[t].dst), req[t].size)
    /\ Done(t, 0, << >>)
    /\ UNCHANGED <<hal, initialized, dest, handle, req, calls, before>>

MemoryRead(t) ==
    /\ InBody(t, {"memory_read"})
    /\ LET src == AddrToPtr(req[t].src)
       IN  Done(t, req[t].size,
                [i \in 1 .. req[t].size |-> mem[[src EXCEPT !.off = @ + i - 1]]])
    /\ UNCHANGED <<mem, hal, initialized, dest, handle, req, calls, before>>

\* memory_write, memory_fill and memory_set differ in what they store.
MemoryWrite(t) ==
    /\ InBody(t, {"memory_write"})
    /\ mem' = Stored(AddrToPtr(req[t].dst), req[t].size, req[t].data)
    /\ Done(t, req[t].size, << >>)
    /\ UNCHANGED <<hal, initialized, dest, handle, req, calls, before>>

\* The calls that touch no memory: a status that is always 0, a number of
\* links, nothing.
Query(t) ==
    /\ InBody(t, {"get_dmem_status", "mesh_route_optimal", "node_sync"})
    /\ Done(t, IF req[t].op = "mesh_route_optimal"
               THEN Hops(GetTileId(req[t].src), GetTileId(req[t].dst)) ELSE 0,
            << >>)
    /\ UNCHANGED <<mem, hal, initialized, dest, handle, req, calls, before>>

\* Mutant: the engine counts from the start of the buffer.
ConfigureOffsets(t) ==
    /\ InBody(t, {"dma_local_transfer"})
    /\ handle' = [handle EXCEPT ![req[t].tile] =
                    [src |-> req[t].src - DLM1_512_OFFSET,
                     dst |-> req[t].dst - DLM1_512_OFFSET, count |-> req[t].size]]
    /\ mem' = Stored(Instance(req[t].tile), 1, Registers)
    /\ Goto(t, "start")
    /\ UNCHANGED <<hal, initialized, dest, req, ret, calls, before>>

\* Mutant: an engine that was configured is not configured again.
ConfigureOnce(t) ==
    /\ InBody(t, {"dma_local_transfer"})
    /\ handle' = IF handle[req[t].tile].count # 0 THEN handle
                 ELSE [handle EXCEPT ![req[t].tile] =
                    [src |-> req[t].src, dst |-> req[t].dst, count |-> req[t].size]]
    /\ mem' = Stored(Instance(req[t].tile), 1, Registers)
    /\ Goto(t, "start")
    /\ UNCHANGED <<hal, initialized, dest, req, ret, calls, before>>

\* HAL_DMAC512Transfer up to the start: the request goes to the handle and
\* to the registers.
DmacConfigure(t) ==
    /\ InBody(t, {"dma_local_transfer"})
    /\ handle' = [handle EXCEPT ![req[t].tile] =
                    [src |-> req[t].src, dst |-> req[t].dst, count |-> req[t].size]]
    /\ mem' = Stored(Instance(req[t].tile), 1, Registers)
    /\ Goto(t, "start")
    /\ UNCHANGED <<hal, initialized, dest, req, ret, calls, before>>

\* HAL_DMAC512StartTransfers copies what the handle says.
DmacCopy(t) ==
    /\ pc[t] = "start"
    /\ LET h == handle[req[t].tile]
       IN  mem' = IF ValidateAddress(h.src, h.count) /\ ValidateAddress(h.dst, h.count)
                  THEN Copied(AddrToPtr(h.src), AddrToPtr(h.dst), h.count)
                  ELSE mem
    /\ Goto(t, "finish")
    /\ UNCHANGED <<hal, initialized, dest, handle, req, ret, calls, before>>

\* It then writes the status and the interrupt register.
DmacFinish(t) ==
    /\ pc[t] = "finish"
    /\ mem' = Stored(Instance(req[t].tile), 1, Registers)
    /\ Done(t, req[t].size, << >>)
    /\ UNCHANGED <<hal, initialized, dest, handle, req, calls, before>>

\* noc_send_packet looks whether the arbitration is set up; the second look,
\* inside noc_init_arbitration, is part of this step.
NocSend(t) ==
    /\ InBody(t, {"dma_remote_transfer"})
    /\ Goto(t, IF initialized THEN "send" ELSE "init")
    /\ UNCHANGED <<mem, hal, initialized, dest, handle, req, ret, calls, before>>

\* noc_init_arbitration makes new locks.
NocInitArbitration(t) ==
    /\ pc[t] = "init"
    /\ dest' = [l \in Locks |-> NoThread]
    /\ initialized' = TRUE
    /\ Goto(t, "send")
    /\ UNCHANGED <<mem, hal, handle, req, ret, calls, before>>

\* A packet whose length came out as 0 is dropped; the HAL does not see it.
NocDrop(t) ==
    /\ pc[t] = "send" /\ Length(req[t]) = 0
    /\ Done(t, req[t].size, << >>)
    /\ UNCHANGED <<mem, hal, initialized, dest, handle, req, calls, before>>

NocArrive(t) ==
    /\ pc[t] = "send" /\ Length(req[t]) > 0
    /\ Goto(t, "arbitrate")
    /\ UNCHANGED <<mem, hal, initialized, dest, handle, req, ret, calls, before>>

NocArbitrate(t) ==
    /\ pc[t] = "arbitrate" /\ dest[LockIndex(req[t].dst)] = NoThread
    /\ dest' = [dest EXCEPT ![LockIndex(req[t].dst)] = t]
    /\ Goto(t, "transfer")
    /\ UNCHANGED <<mem, hal, initialized, handle, req, ret, calls, before>>

NocTransfer(t) ==
    /\ pc[t] = "transfer"
    /\ mem' = Copied(AddrToPtr(req[t].src), AddrToPtr(req[t].dst), Length(req[t]))
    /\ dest' = [dest EXCEPT ![LockIndex(req[t].dst)] = NoThread]
    /\ Done(t, req[t].size, << >>)
    /\ UNCHANGED <<hal, initialized, handle, req, calls, before>>

Release(t) ==
    /\ pc[t] = "unlock"
    /\ hal' = NoThread
    /\ req' = [req EXCEPT ![t] = NoRequest]
    /\ Goto(t, "idle")
    /\ UNCHANGED <<mem, initialized, dest, handle, ret, calls, before>>

Step(t) ==
    \/ Acquire(t) \/ Reject(t) \/ Release(t)
    \/ CopyDirectly(t) \/ MemoryRead(t) \/ MemoryWrite(t) \/ Query(t)
    \/ DmacConfigure(t) \/ DmacCopy(t) \/ DmacFinish(t)
    \/ NocSend(t) \/ NocInitArbitration(t) \/ NocDrop(t) \/ NocArrive(t)
    \/ NocArbitrate(t) \/ NocTransfer(t)

\* The callers have made their calls.
Finished ==
    /\ calls = MaxCalls
    /\ \A t \in Threads : pc[t] = "idle"
    /\ UNCHANGED vars

Next == (\E t \in Threads : Call(t) \/ Step(t)) \/ Finished

Spec == Init /\ [][Next]_vars

\* A thread that is in a call goes on whenever it can.
FairSpec == Spec /\ \A t \in Threads : WF_vars(Step(t))
-----------------------------------------------------------------------------
Values == Addresses \cup {Registers} \cup {r.data : r \in Requests}

TypeOK ==
    /\ mem \in [Buffers -> Values] /\ before \in [Buffers -> Values]
    /\ hal \in Threads \cup {NoThread}
    /\ initialized \in BOOLEAN
    /\ dest \in [Locks -> Threads \cup {NoThread}]
    /\ handle \in [Tiles -> [src : Nat, dst : Nat, count : 0 .. MAX_SIZE]]
    /\ pc \in [Threads -> {"idle", "lock", "body", "start", "finish", "init", "send",
                          "arbitrate", "transfer", "unlock"}]
    /\ req \in [Threads -> Requests \cup {NoRequest}]
    /\ ret \in [Threads -> {NoAnswer} \cup [code : Int, data : Seq(Values)]]
    /\ calls \in 0 .. MaxCalls

\* "Hardware arbitration - first to acquire lock wins" (noc_send_packet): a
\* packet that asks for its destination finds it free and keeps it until the
\* data is there.  No packet ever waits, and no lock is made anew while a
\* packet holds it, although the set-up of the arbitration takes no lock.
UncontendedArbitration ==
    \A t \in Threads :
        /\ pc[t] = "arbitrate" => dest[LockIndex(req[t].dst)] = NoThread
        /\ pc[t] = "transfer" => dest[LockIndex(req[t].dst)] = t

\* The one DMA engine of a tile is shared by all threads (g_dmac512_handles).
\* It is started with the request of the thread that configured it.
EngineRunsItsRequest ==
    \A t \in Threads : pc[t] = "start" =>
        handle[req[t].tile] =
            [src |-> req[t].src, dst |-> req[t].dst, count |-> req[t].size]

\* What a caller that respects hal_mutex can see of the memory, by address.
Pointers == [a \in Addresses |-> AddrToPtr(a)]

Seen(m) == [a \in Addresses |-> m[Pointers[a]]]
Visible == Seen(IF hal = NoThread THEN mem ELSE before)

\* A call has answered when it is over.
Answers == [t \in Threads |-> IF req[t] = NoRequest THEN ret[t] ELSE NoAnswer]

Flat == INSTANCE FlatMemory WITH
            memory <- Visible, pending <- req, answer <- Answers

\* Every call of the HAL takes effect at one moment on a flat memory, or not
\* at all.
ImplementsFlatMemory == Flat!FlatSpec

\* Every call of the HAL returns.
CallsReturn == \A t \in Threads : pc[t] # "idle" ~> pc[t] = "idle"

-----------------------------------------------------------------------------
\* The addresses r moves data to.
Target(r) == r.dst .. r.dst + r.size - 1

MovesData(r) == r.op \in {"cpu_local_move", "dma_local_transfer",
                         "dma_remote_transfer", "dmem_to_dmem_transfer"}

Completed(t) == pc[t] = "unlock" /\ ret[t].code # -1 /\ MovesData(req[t])

\* "NoC driver now does both routing AND data transfer" (hal_reference.c): a
\* transfer over the mesh that returns its size has moved that much.
ReturnedIsMoved ==
    \A t \in Threads : Completed(t) /\ req[t].op = "dma_remote_transfer" =>
        \A a \in Target(req[t]) :
            mem[AddrToPtr(a)] = before[AddrToPtr(req[t].src + (a - req[t].dst))]

\* "DMA Registers (4 KiB control block)" (system_setup.c), a block of its own
\* beside the buffers: a move changes nothing but its destination.
OnlyDestinationChanges ==
    \A t \in Threads : Completed(t) =>
        \A a \in Addresses \ Target(req[t]) :
            mem[AddrToPtr(a)] = before[AddrToPtr(a)]
=============================================================================
