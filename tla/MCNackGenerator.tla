--------------------------- MODULE MCNackGenerator ---------------------------
(***************************************************************************)
(* NackGenerator on a stream of a few packets, for TLC.                    *)
(***************************************************************************)
EXTENDS NackGenerator
=============================================================================
