--------------------------- MODULE MCSrtpReceiver ---------------------------
(***************************************************************************)
(* SrtpReceiver on a small sequence space, for TLC.                        *)
(***************************************************************************)
EXTENDS SrtpReceiver
=============================================================================
