----------------------------- MODULE AddressMap -----------------------------
(***************************************************************************)
(* The address space of the platform (generated/mem_map.h) and the two     *)
(* independent answers platform_init/address_manager.c gives about it:     *)
(* addr_to_ptr, which searches the buffers platform_setup allocated, and   *)
(* get_address_region, which decides by constants what lies at an address. *)
(* An address counts cells: 4 KiB pages, which divide every base and size  *)
(* of mem_map.h.                                                           *)
(***************************************************************************)
EXTENDS Integers

CONSTANTS
    NUM_TILES, NUM_DMEMS,
    TILE_STRIDE, DLM_64_SIZE,
    DLM1_512_OFFSET, DLM1_512_SIZE,
    DMA_REG_OFFSET, DMA_REG_SIZE,
    DMEM_512_BASE,              \* DMEM -> its base, dmem_bases[]
    DMEM_512_SIZE,
    C0_MASTER_BASE, C0_MASTER_SIZE,
    PLIC_0_C0C1_BASE, PLIC_SIZE

Tiles == 0 .. NUM_TILES - 1
Dmems == 0 .. NUM_DMEMS - 1
TileBase(t) == t * TILE_STRIDE

\* A memory is named by its kind and its number.
Kinds == {"dlm64", "dlm1", "dmem", "c0"}

Memories(kind) ==
    CASE kind \in {"dlm64", "dlm1", "regs"} -> {kind} \X Tiles
      [] kind = "dmem" -> {kind} \X Dmems
      [] kind = "plic" -> {kind} \X (0 .. 3)
      [] kind = "c0"   -> {kind} \X {0}

Base(m) ==
    CASE m[1] = "dlm64" -> TileBase(m[2])
      [] m[1] = "dlm1"  -> TileBase(m[2]) + DLM1_512_OFFSET
      [] m[1] = "regs"  -> TileBase(m[2]) + DMA_REG_OFFSET
      [] m[1] = "dmem"  -> DMEM_512_BASE[m[2]]
      [] m[1] = "plic"  -> PLIC_0_C0C1_BASE + m[2] * PLIC_SIZE
      [] m[1] = "c0"    -> C0_MASTER_BASE

Size(kind) ==
    CASE kind = "dlm64" -> DLM_64_SIZE
      [] kind = "dlm1"  -> DLM1_512_SIZE
      [] kind = "regs"  -> DMA_REG_SIZE
      [] kind = "dmem"  -> DMEM_512_SIZE
      [] kind = "plic"  -> PLIC_SIZE
      [] kind = "c0"    -> C0_MASTER_SIZE

AllMemories == UNION {Memories(kind) : kind \in Kinds}

Within(a, base, size) == base <= a /\ a < base + size

\* The addresses of a memory.
Span(m) == Base(m) .. Base(m) + Size(m[1]) - 1
Addresses == UNION {Span(m) : m \in AllMemories}

\* What mem_map.h says of the constants.
ASSUME AddressMapAssumption ==
    /\ NUM_TILES \in 0 .. 8 /\ NUM_DMEMS \in 0 .. 8 /\ TILE_STRIDE \in Nat
    /\ {DLM_64_SIZE, DLM1_512_SIZE, DMA_REG_SIZE, DMEM_512_SIZE, C0_MASTER_SIZE,
        PLIC_SIZE} \subseteq Nat \ {0}
    /\ {DLM1_512_OFFSET, DMA_REG_OFFSET, C0_MASTER_BASE, PLIC_0_C0C1_BASE}
            \subseteq Nat
    /\ DLM_64_SIZE <= DLM1_512_OFFSET
    /\ DLM1_512_OFFSET + DLM1_512_SIZE <= TILE_STRIDE
    /\ DLM1_512_OFFSET <= DMA_REG_OFFSET
    /\ DMA_REG_OFFSET + DMA_REG_SIZE <= DLM1_512_OFFSET + DLM1_512_SIZE
    /\ DMEM_512_BASE \in [Dmems -> Nat]
    /\ \A d \in Dmems :
            /\ NUM_TILES * TILE_STRIDE <= DMEM_512_BASE[d]
            /\ DMEM_512_BASE[d] + DMEM_512_SIZE <= C0_MASTER_BASE
    /\ \A d, e \in Dmems : d < e =>
            DMEM_512_BASE[d] + DMEM_512_SIZE <= DMEM_512_BASE[e]
    /\ NUM_TILES * TILE_STRIDE <= C0_MASTER_BASE
    /\ C0_MASTER_BASE + C0_MASTER_SIZE <= PLIC_0_C0C1_BASE

-----------------------------------------------------------------------------
\* A pointer is a place in a buffer.
NULL == [mem |-> <<"none", 0>>, off |-> 0]

Hits(kind, a) == {m \in Memories(kind) : Within(a, Base(m), Size(kind))}

PtrInto(kind, a) ==
    LET m == CHOOSE x \in Hits(kind, a) : TRUE
    IN  [mem |-> m, off |-> a - Base(m)]

\* The loops of addr_to_ptr, in their order.  The windows of "plic" are the
\* C0C1 half of PLIC 0 and then the NXY halves of the three PLICs: the code
\* puts PLIC k at k * PLIC_SIZE, so a C0C1 half lies under an NXY half that is
\* looked at first.
AddrToPtr(a) ==
    IF      Hits("dlm64", a) # {} THEN PtrInto("dlm64", a)
    ELSE IF Hits("dlm1", a) # {}  THEN PtrInto("dlm1", a)
    ELSE IF Hits("regs", a) # {}  THEN PtrInto("regs", a)
    ELSE IF Hits("dmem", a) # {}  THEN PtrInto("dmem", a)
    ELSE IF Hits("plic", a) # {}  THEN PtrInto("plic", a)
    ELSE IF Hits("c0", a) # {}    THEN PtrInto("c0", a)
    ELSE NULL

-----------------------------------------------------------------------------
\* -1, or the number of the tile whose address space a lies in.
GetTileId(a) ==
    LET S == {t \in Tiles : Within(a, TileBase(t), TILE_STRIDE)}
    IN  IF S = {} THEN -1 ELSE CHOOSE t \in S : TRUE

GetDmemId(a) ==
    LET S == {d \in Dmems : Within(a, DMEM_512_BASE[d], DMEM_512_SIZE)}
    IN  IF S = {} THEN -1 ELSE CHOOSE d \in S : TRUE

\* By its offset in the tile.  The DMA registers are looked for last.
TileRegion(off) ==
    IF      off < DLM_64_SIZE THEN "dlm64"
    ELSE IF Within(off, DLM1_512_OFFSET, DLM1_512_SIZE) THEN "dlm1"
    ELSE IF Within(off, DMA_REG_OFFSET, DMA_REG_SIZE) THEN "regs"
    ELSE "invalid"

\* There is no region for the PLICs.
GetAddressRegion(a) ==
    IF      GetTileId(a) # -1 THEN TileRegion(a - TileBase(GetTileId(a)))
    ELSE IF GetDmemId(a) # -1 THEN "dmem"
    ELSE IF Within(a, C0_MASTER_BASE, C0_MASTER_SIZE) THEN "c0"
    ELSE "invalid"

Abs(i) == IF i < 0 THEN -i ELSE i

\* Links between two tiles in rows of four, as ref_mesh_route_optimal counts
\* them.
Hops(s, d) == Abs((d % 4) - (s % 4)) + Abs((d \div 4) - (s \div 4))

\* Mutant: the end of the range is taken to be the address behind it.
ValidateAddressEnd(a, size) ==
    /\ size # 0
    /\ GetAddressRegion(a) # "invalid"
    /\ GetAddressRegion(a) = GetAddressRegion(a + size)

\* Only the kinds of the first and the last cell are compared.
ValidateAddress(a, size) ==
    /\ size # 0
    /\ GetAddressRegion(a) # "invalid"
    /\ GetAddressRegion(a) = GetAddressRegion(a + size - 1)
=============================================================================
