------------------------------- MODULE OneStream -------------------------------
(***************************************************************************)
(* What a consumer of an RtpForwarder is promised (src/src/forward.js:4-18)*)
(* : ONE stream, on an unbounded sequence and an unbounded timeline,       *)
(* whatever happens upstream.  The packets of a source keep the distances  *)
(* they had, so that a loss stays visible as a gap; a switch of sources    *)
(* continues right after the furthest packet, and later by the jump the    *)
(* application announced.                                                  *)
(***************************************************************************)
EXTENDS Integers

CONSTANTS FirstSeq, FirstTime,      \* where the stream begins
          TsStep,                   \* the media time of one packet
          Numbers,                  \* the packets of a source: 0, 1, ...
          Jumps                     \* the jumps that may be announced

VARIABLES stretch,      \* which source the packets come from
          jump,         \* the jump announced last
          placed        \* the packets of the stream

IsFurthest(p) == \A q \in placed : q.pos <= p.pos

OfSource == {p \in placed : p.source = stretch}

At(n, pos, time) == [source |-> stretch, n |-> n, pos |-> pos, time |-> time]

Init == stretch = 1 /\ jump = 0 /\ placed = {}

(* The next packets come from another source; until the stream has begun   *)
(* there is nothing to continue.                                           *)
Switch(j) ==
    /\ stretch' = stretch + 1
    /\ jump' = IF placed = {} THEN jump ELSE j
    /\ UNCHANGED placed

Begin(n) ==
    /\ placed = {}
    /\ placed' = {At(n, FirstSeq, FirstTime)}
    /\ UNCHANGED <<stretch, jump>>

Continue(n) ==
    /\ OfSource = {}
    /\ \E p \in placed :
          /\ IsFurthest(p)
          /\ placed' = placed \cup {At(n, p.pos + 1, p.time + jump)}
    /\ UNCHANGED <<stretch, jump>>

Keep(n) ==
    /\ \E p \in OfSource :
          placed' = placed \cup {At(n, p.pos + n - p.n, p.time + (n - p.n) * TsStep)}
    /\ UNCHANGED <<stretch, jump>>

Next == \/ \E j \in Jumps : Switch(j)
        \/ \E n \in Numbers : Begin(n) \/ Continue(n) \/ Keep(n)

Spec == Init /\ [][Next]_<<stretch, jump, placed>>
=============================================================================
