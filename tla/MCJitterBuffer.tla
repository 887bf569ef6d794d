--------------------------- MODULE MCJitterBuffer ---------------------------
(***************************************************************************)
(* JitterBuffer on a sequence space of 32, for TLC.  The stream wraps      *)
(* around, leaves a gap of three positions, and restarts at a position     *)
(* that looks too old from everywhere before it.                           *)
(***************************************************************************)
EXTENDS JitterBuffer

MCStream == <<31, 3, 21, 22, 23, 24, 25>>
MCRestart == 3
MCCopies == [id \in 1 .. 7 |-> IF id = 2 THEN 2 ELSE 1]
=============================================================================
