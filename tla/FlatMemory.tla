----------------------------- MODULE FlatMemory -----------------------------
(***************************************************************************)
(* What the HAL (hal_tests/hal_interface.h) promises its callers: one flat *)
(* memory, indexed by address, on which every call takes effect at one     *)
(* moment between its invocation and its return, or is refused and has no  *)
(* effect.  Two things the caller has to know are part of the promise as   *)
(* it stands: a DMA transfer inside a tile leaves the registers of the     *)
(* tile's DMA engine behind at their address, and a transfer over the mesh *)
(* moves what is left of its length modulo LENGTH_LIMIT.                   *)
(***************************************************************************)
EXTENDS AddressMap, Sequences

CONSTANTS
    Threads,        \* the callers
    Requests,       \* the calls they make
    NoRequest, NoAnswer,
    Registers,      \* what the cell of a DMA engine's registers holds
    LENGTH_LIMIT    \* values of the 16-bit length of a packet, in cells

VARIABLES
    memory,     \* address -> contents
    pending,    \* thread -> the call it is in
    answer      \* thread -> what its last call returned

flatVars == <<memory, pending, answer>>

\* n cells from a lie in m.
LiesIn(m, a, n) == n >= 1 /\ {a, a + n - 1} \subseteq Span(m)

LiesInKind(kind, a, n) == \E m \in Memories(kind) : LiesIn(m, a, n)
LiesInSome(a, n) == \E m \in AllMemories : LiesIn(m, a, n)
LiesInTile(t, a, n) == \E kind \in {"dlm64", "dlm1"} : LiesIn(<<kind, t>>, a, n)

InTile(t, a) == Within(a, TileBase(t), TILE_STRIDE)

\* The calls that are carried out.
Legal(r) ==
    CASE r.op = "cpu_local_move" ->
            LiesInSome(r.src, r.size) /\ LiesInSome(r.dst, r.size)
      [] r.op = "dma_local_transfer" ->
            /\ r.tile \in Tiles
            /\ LiesInTile(r.tile, r.src, r.size) /\ LiesInTile(r.tile, r.dst, r.size)
      [] r.op = "dma_remote_transfer" ->
            \/ LiesInKind("dlm1", r.src, r.size) /\ LiesInKind("dmem", r.dst, r.size)
            \/ LiesInKind("dmem", r.src, r.size) /\ LiesInKind("dlm1", r.dst, r.size)
      [] r.op = "dmem_to_dmem_transfer" ->
            LiesInKind("dmem", r.src, r.size) /\ LiesInKind("dmem", r.dst, r.size)
      [] r.op = "memory_read" -> LiesInSome(r.src, r.size)
      [] r.op = "memory_write" -> LiesInSome(r.dst, r.size)
      [] r.op = "get_dmem_status" -> LiesInKind("dmem", r.src, 1)
      [] r.op = "mesh_route_optimal" ->
            /\ \E t \in Tiles : InTile(t, r.src)
            /\ \E t \in Tiles : InTile(t, r.dst)
      [] r.op = "node_sync" -> TRUE

\* m after the n cells from src were moved to dst.
Move(m, src, dst, n) ==
    [a \in DOMAIN m |-> IF Within(a, dst, n) THEN m[src + (a - dst)] ELSE m[a]]

Store(m, dst, n, x) == [a \in DOMAIN m |-> IF Within(a, dst, n) THEN x ELSE m[a]]

WithRegisters(m, t) == [m EXCEPT ![TileBase(t) + DMA_REG_OFFSET] = Registers]

Effect(m, r) ==
    CASE r.op \in {"cpu_local_move", "dmem_to_dmem_transfer"} ->
            Move(m, r.src, r.dst, r.size)
      [] r.op = "dma_remote_transfer" ->
            Move(m, r.src, r.dst, r.size % LENGTH_LIMIT)
      [] r.op = "dma_local_transfer" ->
            WithRegisters(Move(WithRegisters(m, r.tile), r.src, r.dst, r.size), r.tile)
      [] r.op = "memory_write" -> Store(m, r.dst, r.size, r.data)
      [] OTHER -> m

TileAt(a) == CHOOSE t \in Tiles : InTile(t, a)

Code(r) ==
    CASE r.op \in {"dma_local_transfer", "dma_remote_transfer", "memory_read",
                   "memory_write"} -> r.size
      [] r.op = "mesh_route_optimal" -> Hops(TileAt(r.src), TileAt(r.dst))
      [] OTHER -> 0

Outcome(m, r) ==
    [code |-> Code(r),
     data |-> IF r.op = "memory_read" THEN [i \in 1 .. r.size |-> m[r.src + i - 1]]
                                      ELSE << >>]

Refused == [code |-> -1, data |-> << >>]

-----------------------------------------------------------------------------
FlatInit ==
    /\ memory = [a \in Addresses |-> a]
    /\ pending = [t \in Threads |-> NoRequest]
    /\ answer = [t \in Threads |-> NoAnswer]

Invoke(t) ==
    /\ pending[t] = NoRequest
    /\ \E r \in Requests : pending' = [pending EXCEPT ![t] = r]
    /\ answer' = [answer EXCEPT ![t] = NoAnswer]
    /\ UNCHANGED memory

Return(t) ==
    /\ pending[t] # NoRequest
    /\ pending' = [pending EXCEPT ![t] = NoRequest]
    /\ IF Legal(pending[t])
       THEN /\ memory' = Effect(memory, pending[t])
            /\ answer' = [answer EXCEPT ![t] = Outcome(memory, pending[t])]
       ELSE /\ UNCHANGED memory
            /\ answer' = [answer EXCEPT ![t] = Refused]

FlatNext == \E t \in Threads : Invoke(t) \/ Return(t)

FlatSpec == FlatInit /\ [][FlatNext]_flatVars
=============================================================================
