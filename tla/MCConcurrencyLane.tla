--------------------------- MODULE MCConcurrencyLane ---------------------------
(* The instance of ConcurrencyLane for TLC.  Its run checks liveness, so the   *)
(* delegates are not declared symmetric.                                       *)
EXTENDS ConcurrencyLane
=============================================================================
