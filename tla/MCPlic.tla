------------------------------- MODULE MCPlic -------------------------------
(***************************************************************************)
(* Plic for TLC: which harts raise interrupts, for whom and of which type. *)
(***************************************************************************)
EXTENDS PlicInv

\* Harts 1 and 2 raise interrupts of three priorities for C0, hart 2 one for
\* hart 1, whose instance C0 claims from, and C0 the two of its demo for harts
\* that share the other instance.
FewRaises ==
    {<<1, 0, IRQ_TASK_COMPLETE>>, <<1, 0, IRQ_SYNC_REQUEST>>,
     <<2, 0, IRQ_MESH_NODE>>, <<2, 0, IRQ_SYNC_REQUEST>>,
     <<2, 1, IRQ_TASK_COMPLETE>>,
     <<0, 2, IRQ_TASK_ASSIGN>>, <<0, 3, IRQ_SHUTDOWN_REQUEST>>}

\* Hart 1 can hit C0 in the middle of a claim of what it raised before.
FewSends == [h \in Harts |-> IF h < 2 THEN 2 ELSE 1]
=============================================================================
