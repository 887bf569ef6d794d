--------------------------- MODULE MCSrtpStream ---------------------------
(***************************************************************************)
(* SrtpStream on a sequence space of 16 that the stream wraps once, for    *)
(* TLC.                                                                    *)
(***************************************************************************)
EXTENDS SrtpStream
=============================================================================
