--------------------------- MODULE MCHalTransfer ----------------------------
(***************************************************************************)
(* HalTransfer for TLC: two tiles and two DMEMs in an address space with   *)
(* the order and the overlap of mem_map.h, and a length of a packet that   *)
(* is smaller than the buffers.                                            *)
(*      0..7, 8..15   a tile: 0 DLM_64, 1..3 DLM1_512, 2 DMA registers     *)
(*      16..18, 24..26   the DMEMs,   32  C0,   40..47  the PLICs          *)
(***************************************************************************)
EXTENDS HalTransferInv, TLC

CONSTANTS d1, d2

MCDmemBase == 0 :> 16 @@ 1 :> 24

Request(op, tile, src, dst, size, data) ==
    [op |-> op, tile |-> tile, src |-> src, dst |-> dst, size |-> size, data |-> data]

\* Two calls of every kind: the edges of a buffer, one cell too many, the
\* wrong memory, the length at and above the limit, the same destination.
MCRequests ==
    {   Request("cpu_local_move", 0, 2, 1, 2, d1),
        Request("cpu_local_move", 0, 2, 3, 2, d1),
        Request("dma_local_transfer", 0, 0, 3, 1, d1),
        Request("dma_local_transfer", 0, 1, 2, 1, d1),
        Request("dma_local_transfer", 1, 0, 3, 1, d1),
        Request("dma_remote_transfer", 0, 1, 16, 1, d1),
        Request("dma_remote_transfer", 0, 24, 9, 3, d1),
        Request("dma_remote_transfer", 0, 9, 16, 2, d1),
        Request("dma_remote_transfer", 0, 0, 16, 1, d1),
        Request("dmem_to_dmem_transfer", 0, 16, 24, 3, d1),
        Request("dmem_to_dmem_transfer", 0, 16, 24, 0, d1),
        Request("memory_read", 0, 2, 0, 2, d1),
        Request("memory_read", 0, 32, 0, 2, d1),
        Request("memory_write", 0, 0, 1, 3, d1),
        Request("memory_write", 0, 0, 40, 1, d2),
        Request("mesh_route_optimal", 0, 5, 9, 0, d1),
        Request("get_dmem_status", 0, 18, 0, 0, d1),
        Request("node_sync", 0, 0, 0, 0, d1) }
=============================================================================
