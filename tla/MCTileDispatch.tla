--------------------------- MODULE MCTileDispatch ---------------------------
(***************************************************************************)
(* TileDispatch for TLC.  The configurations give the constants:           *)
(*   MCDispatch            two tiles, one parallel task, two HAL tests, a  *)
(*                         table the last copy does not fit in             *)
(*   MCDispatchParallel    two tiles, the two parallel tasks of the code   *)
(*                         and a table too small for the three HAL tests   *)
(* and one configuration for each thing the repository says and the code   *)
(* does not do.                                                            *)
(***************************************************************************)
EXTENDS TileDispatchInv

\* The bounds of the runs: at most one creation and one copy per test are
\* beyond the table, and C0 waits for the parallel tasks at most this often.
ASSUME BoundsAssumption ==
    NodeCount <= 3 /\ NTests <= 3 /\ NPar <= 2 /\ Cap <= 4 /\ MaxWaitCycles <= 1
=============================================================================
