SPECIFICATION Spec
CONSTANTS
    NUM_TILES = 2
    NUM_DMEMS = 2
    TILE_STRIDE = 8
    DLM_64_SIZE = 1
    DLM1_512_OFFSET = 1
    DLM1_512_SIZE = 3
    DMA_REG_OFFSET = 2
    DMA_REG_SIZE = 1
    DMEM_512_BASE <- MCDmemBase
    DMEM_512_SIZE = 3
    C0_MASTER_BASE = 32
    C0_MASTER_SIZE = 1
    PLIC_0_C0C1_BASE = 40
    PLIC_SIZE = 2
    Threads = {t1, t2}
    Requests <- MCRequests
    NoRequest = NoRequest
    NoAnswer = NoAnswer
    Registers = Registers
    LENGTH_LIMIT = 2
    NoThread = NoThread
    MaxCalls = 3
    MAX_SIZE = 3
    d1 = d1
    d2 = d2
INVARIANTS
    OnlyDestinationChanges
