-------------------------- MODULE AddressMapProofs ---------------------------
(***************************************************************************)
(* The two answers of address_manager.c agree, on every address map of the *)
(* assumed shape: where addr_to_ptr finds a buffer, get_address_region     *)
(* names its kind, and there is no address in two buffers.                 *)
(***************************************************************************)
EXTENDS AddressMap, TLAPS

\* Tiles lie behind one another and before everything else.
LEMMA TilesInARow ==
  /\ \A t \in Tiles : /\ TileBase(t) \in Nat
                      /\ TileBase(t) + TILE_STRIDE <= NUM_TILES * TILE_STRIDE
  /\ \A t, u \in Tiles : t < u => TileBase(t) + TILE_STRIDE <= TileBase(u)
<1>1. TILE_STRIDE \in Nat /\ NUM_TILES \in Nat
  BY AddressMapAssumption DEF AddressMapAssumption
<1>2. ASSUME NEW i \in Nat, NEW j \in Nat, i < j
      PROVE  i * TILE_STRIDE \in Nat /\ i * TILE_STRIDE + TILE_STRIDE <= j * TILE_STRIDE
  <2> DEFINE k == j - i - 1
  <2>1. k \in Nat /\ j = i + 1 + k BY <1>2
  <2>2. k * TILE_STRIDE \in Nat /\ i * TILE_STRIDE \in Nat BY <1>1, <2>1
  <2>3. j * TILE_STRIDE = i * TILE_STRIDE + TILE_STRIDE + k * TILE_STRIDE
    BY <1>1, <2>1
  <2> QED BY <1>1, <2>2, <2>3
<1> QED BY <1>1, <1>2 DEF Tiles, TileBase

\* The memories, one kind after the other.
LEMMA MemoryKinds ==
  \A m : m \in AllMemories <=>
    \/ \E t \in Tiles : m = <<"dlm64", t>> \/ m = <<"dlm1", t>>
    \/ \E d \in Dmems : m = <<"dmem", d>>
    \/ m = <<"c0", 0>>
<1>1. AllMemories = Memories("dlm64") \cup Memories("dlm1") \cup Memories("dmem")
                      \cup Memories("c0")
  BY DEF AllMemories, Kinds
<1>2. /\ Memories("dlm64") = {"dlm64"} \X Tiles /\ Memories("dlm1") = {"dlm1"} \X Tiles
      /\ Memories("dmem") = {"dmem"} \X Dmems /\ Memories("c0") = {"c0"} \X {0}
  BY DEF Memories
<1> QED BY <1>1, <1>2

\* Where each memory is.
LEMMA Places ==
  /\ \A t : /\ Base(<<"dlm64", t>>) = TileBase(t)
            /\ Base(<<"dlm1", t>>) = TileBase(t) + DLM1_512_OFFSET
            /\ Base(<<"regs", t>>) = TileBase(t) + DMA_REG_OFFSET
            /\ Base(<<"dmem", t>>) = DMEM_512_BASE[t]
            /\ Base(<<"c0", t>>) = C0_MASTER_BASE
  /\ Size("dlm64") = DLM_64_SIZE /\ Size("dlm1") = DLM1_512_SIZE
  /\ Size("regs") = DMA_REG_SIZE /\ Size("dmem") = DMEM_512_SIZE
  /\ Size("c0") = C0_MASTER_SIZE
BY DEF Base, Size

\* What mem_map.h says of the constants, as the steps below use it.
LEMMA MapFacts ==
  /\ TILE_STRIDE \in Nat /\ NUM_TILES * TILE_STRIDE \in Nat
  /\ DLM_64_SIZE \in Nat \ {0} /\ DLM1_512_SIZE \in Nat \ {0} /\ DMA_REG_SIZE \in Nat \ {0}
  /\ DMEM_512_SIZE \in Nat \ {0} /\ C0_MASTER_SIZE \in Nat \ {0}
  /\ DLM1_512_OFFSET \in Nat /\ DMA_REG_OFFSET \in Nat /\ C0_MASTER_BASE \in Nat
  /\ PLIC_0_C0C1_BASE \in Nat /\ PLIC_SIZE \in Nat \ {0}
  /\ DLM_64_SIZE <= DLM1_512_OFFSET
  /\ DLM1_512_OFFSET + DLM1_512_SIZE <= TILE_STRIDE
  /\ DLM1_512_OFFSET <= DMA_REG_OFFSET
  /\ DMA_REG_OFFSET + DMA_REG_SIZE <= DLM1_512_OFFSET + DLM1_512_SIZE
  /\ \A d \in Dmems : /\ DMEM_512_BASE[d] \in Nat
                      /\ NUM_TILES * TILE_STRIDE <= DMEM_512_BASE[d]
                      /\ DMEM_512_BASE[d] + DMEM_512_SIZE <= C0_MASTER_BASE
  /\ \A d, e \in Dmems : d < e => DMEM_512_BASE[d] + DMEM_512_SIZE <= DMEM_512_BASE[e]
  /\ NUM_TILES * TILE_STRIDE <= C0_MASTER_BASE
  /\ C0_MASTER_BASE + C0_MASTER_SIZE <= PLIC_0_C0C1_BASE
  /\ Tiles \subseteq Nat /\ Dmems \subseteq Nat
<1>1. NUM_TILES \in Nat /\ TILE_STRIDE \in Nat /\ Tiles \subseteq Nat /\ Dmems \subseteq Nat
  BY AddressMapAssumption DEF AddressMapAssumption, Tiles, Dmems
<1>2. NUM_TILES * TILE_STRIDE \in Nat BY <1>1
<1> QED BY <1>1, <1>2, AddressMapAssumption DEF AddressMapAssumption

\* No address is in two tiles, nor in two DMEMs.
LEMMA OneTile ==
  ASSUME NEW a \in Int, NEW t \in Tiles, NEW u \in Tiles,
         Within(a, TileBase(t), TILE_STRIDE), Within(a, TileBase(u), TILE_STRIDE)
  PROVE  t = u
<1>1. t < u \/ t = u \/ u < t BY MapFacts
<1> QED BY <1>1, TilesInARow, MapFacts DEF Within

LEMMA OneDmem ==
  ASSUME NEW a \in Int, NEW d \in Dmems, NEW e \in Dmems,
         Within(a, DMEM_512_BASE[d], DMEM_512_SIZE),
         Within(a, DMEM_512_BASE[e], DMEM_512_SIZE)
  PROVE  d = e
<1>1. d < e \/ d = e \/ e < d BY MapFacts
<1> QED BY <1>1, MapFacts DEF Within

\* A memory is a range of natural numbers, and an address of it is within.
LEMMA Spans ==
  ASSUME NEW m \in AllMemories
  PROVE  /\ Base(m) \in Nat /\ Size(m[1]) \in Nat \ {0}
         /\ \A a : a \in Span(m) <=> a \in Int /\ Within(a, Base(m), Size(m[1]))
         /\ \A a \in Span(m) : a \in Nat
<1>1. Base(m) \in Nat /\ Size(m[1]) \in Nat \ {0}
  <2>1. CASE \E t \in Tiles : m = <<"dlm64", t>> \/ m = <<"dlm1", t>>
    BY <2>1, Places, MapFacts, TilesInARow
  <2>2. CASE \E d \in Dmems : m = <<"dmem", d>> BY <2>2, Places, MapFacts
  <2>3. CASE m = <<"c0", 0>> BY <2>3, Places, MapFacts
  <2> QED BY <2>1, <2>2, <2>3, MemoryKinds
<1> QED BY <1>1 DEF Span, Within

\* The address of a tile's memory is within the tile, and below everything else.
LEMMA TileMemory ==
  ASSUME NEW t \in Tiles, NEW a \in Int,
         \/ Within(a, Base(<<"dlm64", t>>), DLM_64_SIZE)
         \/ Within(a, Base(<<"dlm1", t>>), DLM1_512_SIZE)
         \/ Within(a, Base(<<"regs", t>>), DMA_REG_SIZE)
  PROVE  Within(a, TileBase(t), TILE_STRIDE) /\ a < NUM_TILES * TILE_STRIDE
<1>1. TileBase(t) \in Nat /\ TileBase(t) + TILE_STRIDE <= NUM_TILES * TILE_STRIDE
  BY TilesInARow
<1>2. Within(a, TileBase(t), TILE_STRIDE) BY <1>1, Places, MapFacts DEF Within
<1> QED BY <1>1, <1>2, MapFacts DEF Within

\* The searches of addr_to_ptr, each in its kind of memory.
LEMMA MemoriesOf ==
  /\ \A kind \in {"dlm64", "dlm1", "regs"} : Memories(kind) = {kind} \X Tiles
  /\ Memories("dmem") = {"dmem"} \X Dmems /\ Memories("c0") = {"c0"} \X {0}
  /\ Memories("plic") = {"plic"} \X (0 .. 3)
BY DEF Memories

LEMMA HitsOne ==
  ASSUME NEW kind, NEW N, Memories(kind) = {kind} \X N, NEW a, NEW n \in N,
         Within(a, Base(<<kind, n>>), Size(kind)),
         \A k \in N : Within(a, Base(<<kind, k>>), Size(kind)) => k = n
  PROVE  Hits(kind, a) = {<<kind, n>>}
BY DEF Hits

LEMMA HitsNone ==
  ASSUME NEW kind, NEW N, Memories(kind) = {kind} \X N, NEW a,
         \A k \in N : ~Within(a, Base(<<kind, k>>), Size(kind))
  PROVE  Hits(kind, a) = {}
BY DEF Hits

\* The windows of the PLICs are behind everything else.
LEMMA NoPlic ==
  ASSUME NEW a \in Int, a < PLIC_0_C0C1_BASE PROVE Hits("plic", a) = {}
<1>1. ASSUME NEW k \in 0 .. 3
      PROVE  ~Within(a, Base(<<"plic", k>>), Size("plic"))
  <2>1. k * PLIC_SIZE \in Nat BY MapFacts
  <2>2. Base(<<"plic", k>>) = PLIC_0_C0C1_BASE + k * PLIC_SIZE BY DEF Base
  <2> QED BY <2>1, <2>2, MapFacts DEF Within
<1> QED BY <1>1, HitsNone, MemoriesOf

\* addr_to_ptr finds the one memory an address lies in.
LEMMA PtrOf ==
  ASSUME NEW m \in AllMemories, NEW a \in Span(m)
  PROVE  AddrToPtr(a) = [mem |-> m, off |-> a - Base(m)]
<1>0. a \in Int /\ Within(a, Base(m), Size(m[1])) BY Spans
<1>1. ASSUME NEW kind, m[1] = kind, Hits(kind, a) = {m}
      PROVE  PtrInto(kind, a) = [mem |-> m, off |-> a - Base(m)]
  <2>1. (CHOOSE x \in Hits(kind, a) : TRUE) = m BY <1>1
  <2> QED BY <2>1 DEF PtrInto
<1>2. ASSUME NEW t \in Tiles, m = <<"dlm64", t>>
      PROVE  AddrToPtr(a) = [mem |-> m, off |-> a - Base(m)]
  <2>1. Within(a, Base(<<"dlm64", t>>), DLM_64_SIZE) BY <1>0, <1>2, Places
  <2>2. \A u \in Tiles : Within(a, Base(<<"dlm64", u>>), DLM_64_SIZE) => u = t
    BY <1>0, <2>1, TileMemory, OneTile
  <2>3. Hits("dlm64", a) = {m} BY <1>2, <2>1, <2>2, HitsOne, MemoriesOf, Places
  <2> QED BY <1>1, <1>2, <2>3 DEF AddrToPtr
<1>3. ASSUME NEW t \in Tiles, m = <<"dlm1", t>>
      PROVE  AddrToPtr(a) = [mem |-> m, off |-> a - Base(m)]
  <2>1. Within(a, Base(<<"dlm1", t>>), DLM1_512_SIZE) BY <1>0, <1>3, Places
  <2>2. \A u \in Tiles : Within(a, Base(<<"dlm1", u>>), DLM1_512_SIZE) => u = t
    BY <1>0, <2>1, TileMemory, OneTile
  <2>3. \A u \in Tiles : ~Within(a, Base(<<"dlm64", u>>), DLM_64_SIZE)
    <3>1. ASSUME NEW u \in Tiles, Within(a, Base(<<"dlm64", u>>), DLM_64_SIZE)
          PROVE  FALSE
      <4>1. u = t BY <1>0, <2>1, <3>1, TileMemory, OneTile
      <4> QED BY <1>0, <2>1, <3>1, <4>1, Places, MapFacts, TilesInARow DEF Within
    <3> QED BY <3>1
  <2>4. Hits("dlm64", a) = {} BY <2>3, HitsNone, MemoriesOf, Places
  <2>5. Hits("dlm1", a) = {m} BY <1>3, <2>1, <2>2, HitsOne, MemoriesOf, Places
  <2> QED BY <1>1, <1>3, <2>4, <2>5 DEF AddrToPtr
<1>4. ASSUME NUM_TILES * TILE_STRIDE <= a
      PROVE  Hits("dlm64", a) = {} /\ Hits("dlm1", a) = {} /\ Hits("regs", a) = {}
  <2>1. \A t \in Tiles : /\ ~Within(a, Base(<<"dlm64", t>>), DLM_64_SIZE)
                         /\ ~Within(a, Base(<<"dlm1", t>>), DLM1_512_SIZE)
                         /\ ~Within(a, Base(<<"regs", t>>), DMA_REG_SIZE)
    BY <1>0, <1>4, TileMemory, MapFacts
  <2> QED BY <2>1, HitsNone, MemoriesOf, Places
<1>5. ASSUME NEW d \in Dmems, m = <<"dmem", d>>
      PROVE  AddrToPtr(a) = [mem |-> m, off |-> a - Base(m)]
  <2>1. Within(a, Base(<<"dmem", d>>), DMEM_512_SIZE) BY <1>0, <1>5, Places
  <2>2. NUM_TILES * TILE_STRIDE <= a BY <1>0, <2>1, Places, MapFacts DEF Within
  <2>3. \A e \in Dmems : Within(a, Base(<<"dmem", e>>), DMEM_512_SIZE) => e = d
    BY <1>0, <2>1, OneDmem, Places
  <2>4. Hits("dmem", a) = {m} BY <1>5, <2>1, <2>3, HitsOne, MemoriesOf, Places
  <2> QED BY <1>1, <1>4, <1>5, <2>2, <2>4 DEF AddrToPtr
<1>6. ASSUME m = <<"c0", 0>>
      PROVE  AddrToPtr(a) = [mem |-> m, off |-> a - Base(m)]
  <2>1. Within(a, C0_MASTER_BASE, C0_MASTER_SIZE) BY <1>0, <1>6, Places
  <2>2. NUM_TILES * TILE_STRIDE <= a /\ a < PLIC_0_C0C1_BASE
    BY <1>0, <2>1, MapFacts DEF Within
  <2>3. \A d \in Dmems : ~Within(a, Base(<<"dmem", d>>), DMEM_512_SIZE)
    <3>1. ASSUME NEW d \in Dmems PROVE ~Within(a, DMEM_512_BASE[d], DMEM_512_SIZE)
      BY <1>0, <2>1, MapFacts DEF Within
    <3> QED BY <3>1, Places
  <2>4. Hits("dmem", a) = {} /\ Hits("plic", a) = {}
    BY <1>0, <2>2, <2>3, HitsNone, NoPlic, MemoriesOf, Places
  <2>5. Within(a, Base(<<"c0", 0>>), Size("c0")) BY <2>1, Places
  <2>6. Hits("c0", a) = {<<"c0", 0>>}
    <3> DEFINE N == {0}
    <3>1. /\ 0 \in N /\ Memories("c0") = {"c0"} \X N
          /\ \A k \in N : Within(a, Base(<<"c0", k>>), Size("c0")) => k = 0
      BY MemoriesOf
    <3> HIDE DEF N
    <3> QED BY <2>5, <3>1, HitsOne
  <2> QED BY <1>1, <1>4, <1>6, <2>2, <2>4, <2>6 DEF AddrToPtr
<1> QED BY <1>2, <1>3, <1>5, <1>6, MemoryKinds

-----------------------------------------------------------------------------
(***************************************************************************)
(* The regions.                                                            *)
(***************************************************************************)

LEMMA TileIdOf ==
  ASSUME NEW a \in Int
  PROVE  /\ \A t \in Tiles : Within(a, TileBase(t), TILE_STRIDE) => GetTileId(a) = t
         /\ \/ GetTileId(a) = -1
            \/ GetTileId(a) \in Tiles /\ Within(a, TileBase(GetTileId(a)), TILE_STRIDE)
<1> DEFINE S == {t \in Tiles : Within(a, TileBase(t), TILE_STRIDE)}
<1>1. CASE S = {} BY <1>1 DEF GetTileId
<1>2. CASE S # {}
  <2>1. PICK t \in Tiles : Within(a, TileBase(t), TILE_STRIDE) BY <1>2
  <2>2. (CHOOSE u \in S : TRUE) \in S BY <1>2
  <2>3. GetTileId(a) \in S BY <1>2, <2>2 DEF GetTileId
  <2> QED BY <2>3, OneTile
<1> QED BY <1>1, <1>2

LEMMA DmemIdOf ==
  ASSUME NEW a \in Int
  PROVE  /\ \A d \in Dmems : Within(a, DMEM_512_BASE[d], DMEM_512_SIZE) => GetDmemId(a) = d
         /\ \/ GetDmemId(a) = -1
            \/ /\ GetDmemId(a) \in Dmems
               /\ Within(a, DMEM_512_BASE[GetDmemId(a)], DMEM_512_SIZE)
<1> DEFINE S == {d \in Dmems : Within(a, DMEM_512_BASE[d], DMEM_512_SIZE)}
<1>1. CASE S = {} BY <1>1 DEF GetDmemId
<1>2. CASE S # {}
  <2>1. (CHOOSE e \in S : TRUE) \in S BY <1>2
  <2>2. GetDmemId(a) \in S BY <1>2, <2>1 DEF GetDmemId
  <2> QED BY <2>2, OneDmem
<1> QED BY <1>1, <1>2

\* get_address_region, get_tile_id and get_dmem_id of an address of a memory.
LEMMA RegionOf ==
  ASSUME NEW m \in AllMemories, NEW a \in Span(m)
  PROVE  /\ GetAddressRegion(a) = m[1]
         /\ m[1] \in {"dlm64", "dlm1"} => m[2] \in Tiles /\ GetTileId(a) = m[2]
         /\ m[1] \in {"dmem", "c0"} => GetTileId(a) = -1
         /\ m[1] = "dmem" => m[2] \in Dmems /\ GetDmemId(a) = m[2]
<1>0. a \in Int /\ Within(a, Base(m), Size(m[1])) BY Spans
<1>1. ASSUME NEW t \in Tiles, m = <<"dlm64", t>> \/ m = <<"dlm1", t>>
      PROVE  GetTileId(a) = t /\ GetAddressRegion(a) = m[1]
  <2>1. \/ m[1] = "dlm64" /\ Within(a, Base(<<"dlm64", t>>), DLM_64_SIZE)
        \/ m[1] = "dlm1" /\ Within(a, Base(<<"dlm1", t>>), DLM1_512_SIZE)
    BY <1>0, <1>1, Places
  <2>2. GetTileId(a) = t BY <1>0, <2>1, TileMemory, TileIdOf
  <2>3. t # -1 BY MapFacts
  <2>4. TileRegion(a - TileBase(t)) = m[1]
    <3>1. TileBase(t) \in Nat BY TilesInARow
    <3>2. CASE m[1] = "dlm64" /\ Within(a, TileBase(t), DLM_64_SIZE)
      BY <1>0, <3>1, <3>2, MapFacts DEF TileRegion, Within
    <3>3. CASE m[1] = "dlm1" /\ Within(a, TileBase(t) + DLM1_512_OFFSET, DLM1_512_SIZE)
      BY <1>0, <3>1, <3>3, MapFacts DEF TileRegion, Within
    <3> QED BY <2>1, <3>2, <3>3, Places
  <2> QED BY <2>2, <2>3, <2>4 DEF GetAddressRegion
<1>2. ASSUME NUM_TILES * TILE_STRIDE <= a PROVE GetTileId(a) = -1
  <2>1. \A t \in Tiles : ~Within(a, TileBase(t), TILE_STRIDE)
    BY <1>0, <1>2, TilesInARow, MapFacts DEF Within
  <2> QED BY <1>0, <2>1, TileIdOf
<1>3. ASSUME NEW d \in Dmems, m = <<"dmem", d>>
      PROVE  GetTileId(a) = -1 /\ GetDmemId(a) = d /\ GetAddressRegion(a) = "dmem"
  <2>1. Within(a, DMEM_512_BASE[d], DMEM_512_SIZE) BY <1>0, <1>3, Places
  <2>2. NUM_TILES * TILE_STRIDE <= a BY <1>0, <2>1, MapFacts DEF Within
  <2>3. GetDmemId(a) = d /\ d # -1 BY <1>0, <2>1, DmemIdOf, MapFacts
  <2> QED BY <1>2, <2>2, <2>3 DEF GetAddressRegion
<1>4. ASSUME m = <<"c0", 0>>
      PROVE  GetTileId(a) = -1 /\ GetAddressRegion(a) = "c0"
  <2>1. Within(a, C0_MASTER_BASE, C0_MASTER_SIZE) BY <1>0, <1>4, Places
  <2>2. NUM_TILES * TILE_STRIDE <= a BY <1>0, <2>1, MapFacts DEF Within
  <2>3. \A d \in Dmems : ~Within(a, DMEM_512_BASE[d], DMEM_512_SIZE)
    BY <1>0, <2>1, MapFacts DEF Within
  <2>4. GetDmemId(a) = -1 BY <1>0, <2>3, DmemIdOf
  <2> QED BY <1>2, <2>1, <2>2, <2>4 DEF GetAddressRegion
<1> QED BY <1>1, <1>3, <1>4, MemoryKinds

\* Where get_address_region names a region there is a memory of that kind; the
\* registers of the DMA engines are never named.
LEMMA RegionHas ==
  ASSUME NEW a \in Int, GetAddressRegion(a) # "invalid"
  PROVE  \E m \in AllMemories : a \in Span(m)
<1>1. CASE GetTileId(a) # -1
  <2> DEFINE t == GetTileId(a)
             off == a - TileBase(t)
  <2>1. t \in Tiles /\ Within(a, TileBase(t), TILE_STRIDE) BY <1>1, TileIdOf
  <2>2. TileRegion(off) # "invalid" BY <1>1 DEF GetAddressRegion
  <2>3. TileBase(t) \in Nat BY <2>1, TilesInARow
  <2>4. <<"dlm64", t>> \in AllMemories /\ <<"dlm1", t>> \in AllMemories
    BY <2>1, MemoryKinds
  <2> HIDE DEF t
  <2>5. CASE off < DLM_64_SIZE
    <3>1. Within(a, TileBase(t), DLM_64_SIZE) BY <2>1, <2>3, <2>5, MapFacts DEF Within
    <3>2. a \in Span(<<"dlm64", t>>) BY <2>4, <3>1, Spans, Places
    <3> QED BY <2>4, <3>2
  <2>6. CASE ~(off < DLM_64_SIZE)
    <3>1. \/ Within(off, DLM1_512_OFFSET, DLM1_512_SIZE)
          \/ Within(off, DMA_REG_OFFSET, DMA_REG_SIZE)
      BY <2>2, <2>6 DEF TileRegion
    <3>2. Within(a, TileBase(t) + DLM1_512_OFFSET, DLM1_512_SIZE)
      BY <2>3, <3>1, MapFacts DEF Within
    <3>3. a \in Span(<<"dlm1", t>>) BY <2>4, <3>2, Spans, Places
    <3> QED BY <2>4, <3>3
  <2> QED BY <2>5, <2>6
<1>2. CASE GetTileId(a) = -1 /\ GetDmemId(a) # -1
  <2> DEFINE d == GetDmemId(a)
  <2>1. d \in Dmems /\ Within(a, DMEM_512_BASE[d], DMEM_512_SIZE) BY <1>2, DmemIdOf
  <2>2. <<"dmem", d>> \in AllMemories BY <2>1, MemoryKinds
  <2> HIDE DEF d
  <2>3. a \in Span(<<"dmem", d>>) BY <2>1, <2>2, Spans, Places
  <2> QED BY <2>2, <2>3
<1>3. CASE GetTileId(a) = -1 /\ GetDmemId(a) = -1
  <2>1. Within(a, C0_MASTER_BASE, C0_MASTER_SIZE) BY <1>3 DEF GetAddressRegion
  <2>2. <<"c0", 0>> \in AllMemories BY MemoryKinds
  <2>3. a \in Span(<<"c0", 0>>) BY <2>1, <2>2, Spans, Places
  <2> QED BY <2>2, <2>3
<1> QED BY <1>1, <1>2, <1>3

\* Two memories of one kind are further apart than n cells.
Gaps(n) ==
    /\ DLM_64_SIZE + n <= TILE_STRIDE /\ DLM1_512_SIZE + n <= TILE_STRIDE
    /\ \A d, e \in Dmems : d < e =>
            DMEM_512_BASE[d] + DMEM_512_SIZE + n <= DMEM_512_BASE[e]

LEMMA FarApart ==
  ASSUME NEW n \in Nat \ {0}, Gaps(n), NEW m \in AllMemories, NEW w \in AllMemories,
         m[1] = w[1], NEW a \in Span(m), a + n - 1 \in Span(w)
  PROVE  m = w
<1>0. /\ a \in Nat /\ Within(a, Base(m), Size(m[1]))
      /\ Within(a + n - 1, Base(w), Size(w[1]))
  BY Spans
<1>1. ASSUME NEW kind \in {"dlm64", "dlm1"}, NEW t \in Tiles, NEW u \in Tiles,
             m = <<kind, t>>, w = <<kind, u>>
      PROVE  t = u
  <2> DEFINE o == IF kind = "dlm64" THEN 0 ELSE DLM1_512_OFFSET
             z == IF kind = "dlm64" THEN DLM_64_SIZE ELSE DLM1_512_SIZE
  <2>2. /\ Within(a, TileBase(t) + o, z) /\ Within(a + n - 1, TileBase(u) + o, z)
        /\ o \in Nat /\ z \in Nat /\ z + n <= TILE_STRIDE /\ o + z <= TILE_STRIDE
        /\ TileBase(t) \in Nat /\ TileBase(u) \in Nat
    BY <1>0, <1>1, Places, MapFacts, TilesInARow DEF Gaps
  <2> HIDE DEF o, z
  <2>3. t < u => TileBase(t) + TILE_STRIDE <= TileBase(u) BY TilesInARow
  <2>4. u < t => TileBase(u) + TILE_STRIDE <= TileBase(t) BY TilesInARow
  <2>5. ~(t < u) BY <1>0, <2>2, <2>3, MapFacts DEF Within
  <2>6. ~(u < t) BY <1>0, <2>2, <2>4, MapFacts DEF Within
  <2> QED BY <2>5, <2>6, MapFacts
<1>2. ASSUME NEW d \in Dmems, NEW e \in Dmems, m = <<"dmem", d>>, w = <<"dmem", e>>
      PROVE  d = e
  <2>1. /\ Within(a, DMEM_512_BASE[d], DMEM_512_SIZE)
        /\ Within(a + n - 1, DMEM_512_BASE[e], DMEM_512_SIZE)
    BY <1>0, <1>2, Places
  <2>2. ~(d < e) BY <1>0, <2>1, MapFacts DEF Within, Gaps
  <2>3. ~(e < d) BY <1>0, <2>1, MapFacts DEF Within, Gaps
  <2> QED BY <2>2, <2>3, MapFacts
<1>3. \/ \E kind \in {"dlm64", "dlm1"}, t, u \in Tiles : m = <<kind, t>> /\ w = <<kind, u>>
      \/ \E d, e \in Dmems : m = <<"dmem", d>> /\ w = <<"dmem", e>>
      \/ m = <<"c0", 0>> /\ w = <<"c0", 0>>
  <2>1. \/ \E kind \in {"dlm64", "dlm1"}, t \in Tiles : m = <<kind, t>>
        \/ \E d \in Dmems : m = <<"dmem", d>>
        \/ m = <<"c0", 0>>
    BY MemoryKinds
  <2>2. \/ \E kind \in {"dlm64", "dlm1"}, t \in Tiles : w = <<kind, t>>
        \/ \E d \in Dmems : w = <<"dmem", d>>
        \/ w = <<"c0", 0>>
    BY MemoryKinds
  <2> QED BY <2>1, <2>2
<1> QED BY <1>1, <1>2, <1>3

\* validate_address looks at the two ends of a range only; with the gaps of the
\* address map this means that the range lies in one buffer, and all of it.
THEOREM ValidMeansOneBuffer ==
  ASSUME NEW a \in Nat, NEW n \in Nat, Gaps(n)
  PROVE  ValidateAddress(a, n) <=>
            \E m \in AllMemories : n >= 1 /\ {a, a + n - 1} \subseteq Span(m)
<1>1. ASSUME ValidateAddress(a, n)
      PROVE  \E m \in AllMemories : n >= 1 /\ {a, a + n - 1} \subseteq Span(m)
  <2>1. /\ n # 0 /\ GetAddressRegion(a) # "invalid"
        /\ GetAddressRegion(a) = GetAddressRegion(a + n - 1)
    BY <1>1 DEF ValidateAddress
  <2>2. a + n - 1 \in Int OBVIOUS
  <2>3. PICK m \in AllMemories : a \in Span(m) BY <2>1, RegionHas
  <2>4. PICK w \in AllMemories : a + n - 1 \in Span(w) BY <2>1, <2>2, RegionHas
  <2>5. m[1] = w[1] BY <2>1, <2>3, <2>4, RegionOf
  <2>6. m = w BY <2>1, <2>3, <2>4, <2>5, FarApart
  <2> QED BY <2>1, <2>3, <2>4, <2>6
<1>2. ASSUME NEW m \in AllMemories, n >= 1, {a, a + n - 1} \subseteq Span(m)
      PROVE  ValidateAddress(a, n)
  <2>1. GetAddressRegion(a) = m[1] /\ GetAddressRegion(a + n - 1) = m[1]
    BY <1>2, RegionOf
  <2>2. m[1] # "invalid" BY MemoryKinds
  <2> QED BY <1>2, <2>1, <2>2 DEF ValidateAddress
<1> QED BY <1>1, <1>2

\* addr_to_ptr and get_address_region agree: an address has a region if and only
\* if it lies in a buffer; it lies in one buffer only, of the kind of the region,
\* and addr_to_ptr points to its place there.
THEOREM PointersAndRegionsAgree ==
  ASSUME NEW a \in Nat
  PROVE  /\ GetAddressRegion(a) # "invalid" <=> a \in Addresses
         /\ \A m \in AllMemories : a \in Span(m) =>
              /\ GetAddressRegion(a) = m[1]
              /\ AddrToPtr(a) = [mem |-> m, off |-> a - Base(m)]
<1>1. ASSUME NEW m \in AllMemories, a \in Span(m)
      PROVE  /\ GetAddressRegion(a) = m[1] /\ m[1] # "invalid"
             /\ AddrToPtr(a) = [mem |-> m, off |-> a - Base(m)]
  BY <1>1, RegionOf, PtrOf, MemoryKinds
<1>2. a \in Addresses <=> \E m \in AllMemories : a \in Span(m) BY DEF Addresses
<1> QED BY <1>1, <1>2, RegionHas
=============================================================================
