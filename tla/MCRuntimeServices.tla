------------------------- MODULE MCRuntimeServices --------------------------
(* A 4-bit microsecond timer, so that esc_time wraps past zero within a   *)
(* call; escape times 2 and 5 keep both below half the wrap, as 10 and     *)
(* 5000 are on the chip.  A heap of three bytes between &end and the stack *)
(* limit, so that growth reaches the limit exactly and past it.            *)
EXTENDS RuntimeServices, TLC

MCIncrs == {-1, 1, 2}
=============================================================================
