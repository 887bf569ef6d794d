----------------------------- MODULE ReplayFilter -----------------------------
(***************************************************************************)
(* What a receiver with replay protection promises (RFC 3711, 3.3.2, as    *)
(* the header of src/src/srtp.js states it): an index is handed to the     *)
(* application at most once, and never when it lies Window or more behind  *)
(* the highest index handed over so far.                                   *)
(***************************************************************************)
EXTENDS Integers

CONSTANTS Indices,      \* the packet indices, a set of naturals
          WindowSize    \* how far behind the highest index is still tracked

VARIABLES delivered,    \* how often each index was handed over
          top           \* the highest index handed over, or -1

filterVars == <<delivered, top>>

Init == delivered = [i \in Indices |-> 0] /\ top = -1

Deliver(i) ==
    /\ delivered[i] = 0
    /\ i > top - WindowSize \/ top = -1
    /\ delivered' = [delivered EXCEPT ![i] = 1]
    /\ top' = IF i > top THEN i ELSE top

Next == \E i \in Indices : Deliver(i)

Spec == Init /\ [][Next]_filterVars
=============================================================================
