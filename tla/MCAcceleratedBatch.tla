------------------------- MODULE MCAcceleratedBatch -------------------------
(***************************************************************************)
(* A small instance of AcceleratedBatch: two batches of the same day, of   *)
(* two partitions.                                                         *)
(***************************************************************************)
EXTENDS AcceleratedBatch

CONSTANTS r1, r2, d1, p1, p2

Requests == [r \in Runs |-> Days]
=============================================================================
