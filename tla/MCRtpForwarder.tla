---------------------------- MODULE MCRtpForwarder ----------------------------
(* A small instance: four sources, the output wraps around, and so does    *)
(* the input of the second.                                                *)
EXTENDS RtpForwarder
MCStretches == <<[seq |-> 3, ts |-> 10], [seq |-> 7, ts |-> 30],
                 [seq |-> 0, ts |-> 0], [seq |-> 5, ts |-> 17]>>
=============================================================================
