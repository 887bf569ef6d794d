----------------------------- MODULE RtpForwarder -----------------------------
(***************************************************************************)
(* RtpForwarder (src/src/forward.js): packets of one source after another, *)
(* each with its own sequence numbers and timestamps, leave as one stream. *)
(*                                                                         *)
(* A source is a stretch of packets 0, 1, ..., from any sequence number    *)
(* and timestamp on; switching back to an earlier producer is a stretch    *)
(* more.  The network loses, repeats and reorders packets.  The consumer   *)
(* extends what it receives, as every RTP receiver does: relative to the   *)
(* furthest packet it has.                                                 *)
(***************************************************************************)
EXTENDS Integers, Sequences

CONSTANTS
    SeqMod,             \* 2^16
    TsMod,              \* 2^32
    StartSeq, StartTs,  \* opts.startSeq, opts.startTs
    Stretches,          \* the sources: first sequence number and timestamp
    Length,             \* bound: the packets of a source
    TsStep,             \* the media time of one packet
    Jumps,              \* the arguments of switchSource
    ReorderAtSwitch     \* whether the first packets after a switch are reordered

ASSUME ForwarderAssumption ==
    /\ SeqMod \in Nat \ {0} /\ SeqMod % 2 = 0
    /\ TsMod \in Nat \ {0} /\ TsMod % 2 = 0
    /\ StartSeq \in 0 .. SeqMod - 1 /\ StartTs \in 0 .. TsMod - 1
    /\ Stretches \in Seq([seq : 0 .. SeqMod - 1, ts : 0 .. TsMod - 1])
    /\ Len(Stretches) > 0
    /\ TsStep \in Nat /\ Jumps \subseteq Nat
    /\ Length \in Nat /\ Length < SeqMod \div 2 /\ Length * TsStep < TsMod \div 2
    /\ \A j \in Jumps : j < TsMod \div 2
    /\ ReorderAtSwitch \in BOOLEAN

VARIABLES
    seqOffset, tsOffset,            \* _seqOffset, _tsOffset
    lastOutSeq, lastOutTs,          \* _lastOutSeq, _lastOutTs
    pendingSwitch, pendingTsJump,   \* _pendingSwitch, _pendingTsJump
    stretch,            \* which source the application forwards
    anchor,             \* the packet of this source forwarded first
    heard               \* what the consumer received, extended

state == <<seqOffset, tsOffset, lastOutSeq, lastOutTs, pendingSwitch, pendingTsJump>>
forwarderVars == <<state, stretch, anchor, heard>>

None    == -1       \* null: no packet was forwarded yet
Numbers == 0 .. Length - 1

Signed(d, mod) == IF d >= mod \div 2 THEN d - mod ELSE d

SeqDeltaUnsigned(a, b) == (a - b) % SeqMod      \* slip: the sign is forgotten
SeqDelta(a, b) == Signed((a - b) % SeqMod, SeqMod)
TsDelta(a, b)  == Signed((a - b) % TsMod, TsMod)

InSeq(n) == (Stretches[stretch].seq + n) % SeqMod
InTs(n)  == (Stretches[stretch].ts + n * TsStep) % TsMod

ForwarderInit ==
    /\ seqOffset = 0 /\ tsOffset = 0
    /\ lastOutSeq = None /\ lastOutTs = None
    /\ pendingSwitch = FALSE /\ pendingTsJump = 0
    /\ stretch = 1 /\ anchor = None /\ heard = {}

-----------------------------------------------------------------------------
(* The packet the consumer has furthest in its sequence, and how it places *)
(* the next one.                                                           *)
Furthest == CHOOSE p \in heard : \A q \in heard : q.pos <= p.pos

Heard(n, seq, ts) ==
    LET at(pos, time) == [source |-> stretch, n |-> n, pos |-> pos, time |-> time]
    IN  IF heard = {} THEN at(seq, ts)
        ELSE at(Furthest.pos + SeqDelta(seq, Furthest.pos % SeqMod),
                Furthest.time + TsDelta(ts, Furthest.time % TsMod))

(* Which packets may arrive now: without ReorderAtSwitch, none from before *)
(* the first one of a new source.                                          *)
MayArrive(n) ==
    (\A p \in heard : p.source = stretch) \/ n >= anchor \/ ReorderAtSwitch

WantSeqSame == lastOutSeq                       \* slip: the last number again
WantSeq == (lastOutSeq + 1) % SeqMod
WantTs  == (lastOutTs + pendingTsJump) % TsMod

IsLatestAlways(seq) == TRUE     \* slip: a late packet counts as the last one
IsLatest(seq) == lastOutSeq = None \/ SeqDelta(seq, lastOutSeq) > 0

(* The packet leaves with these numbers; switches continue from the latest *)
(* packet, not from a late one.                                            *)
EmitStaleTs(n, seq, ts) ==      \* slip: any packet's timestamp is kept
    /\ lastOutSeq' = IF IsLatest(seq) THEN seq ELSE lastOutSeq
    /\ lastOutTs' = ts
    /\ heard' = heard \cup {Heard(n, seq, ts)}
Emit(n, seq, ts) ==
    /\ IF IsLatest(seq) THEN lastOutSeq' = seq /\ lastOutTs' = ts
                        ELSE UNCHANGED <<lastOutSeq, lastOutTs>>
    /\ heard' = heard \cup {Heard(n, seq, ts)}

(* The input must land exactly at these numbers.                           *)
Rebase(n, seq, ts) ==
    /\ seqOffset' = SeqDelta(InSeq(n), seq)
    /\ tsOffset' = TsDelta(InTs(n), ts)
    /\ anchor' = IF anchor = None THEN n ELSE anchor
    /\ Emit(n, (InSeq(n) - seqOffset') % SeqMod, (InTs(n) - tsOffset') % TsMod)

ForwardFirst(n) ==
    /\ lastOutSeq = None
    /\ Rebase(n, StartSeq, StartTs)
    /\ UNCHANGED <<pendingSwitch, pendingTsJump, stretch>>

ForwardSwitched(n) ==
    /\ lastOutSeq # None /\ pendingSwitch
    /\ pendingSwitch' = FALSE
    /\ Rebase(n, WantSeq, WantTs)
    /\ UNCHANGED <<pendingTsJump, stretch>>

ForwardNext(n) ==
    /\ lastOutSeq # None /\ ~ pendingSwitch
    /\ MayArrive(n)
    /\ Emit(n, (InSeq(n) - seqOffset) % SeqMod, (InTs(n) - tsOffset) % TsMod)
    /\ UNCHANGED <<seqOffset, tsOffset, pendingSwitch, pendingTsJump, stretch, anchor>>

SwitchSource(tsJump) ==
    /\ stretch < Len(Stretches)
    /\ stretch' = stretch + 1
    /\ anchor' = None
    /\ IF lastOutSeq = None THEN UNCHANGED <<pendingSwitch, pendingTsJump>>
                            ELSE pendingSwitch' = TRUE /\ pendingTsJump' = tsJump
    /\ UNCHANGED <<seqOffset, tsOffset, lastOutSeq, lastOutTs, heard>>

ForwarderNext ==
    \/ \E n \in Numbers : ForwardFirst(n) \/ ForwardSwitched(n) \/ ForwardNext(n)
    \/ \E tsJump \in Jumps : SwitchSource(tsJump)

ForwarderSpec == ForwarderInit /\ [][ForwarderNext]_forwarderVars

-----------------------------------------------------------------------------
ForwarderTypeOK ==
    /\ seqOffset \in -(SeqMod \div 2) .. (SeqMod \div 2) - 1
    /\ tsOffset \in -(TsMod \div 2) .. (TsMod \div 2) - 1
    /\ lastOutSeq \in 0 .. SeqMod - 1 \cup {None}
    /\ lastOutTs \in 0 .. TsMod - 1 \cup {None}
    /\ pendingSwitch \in BOOLEAN /\ pendingTsJump \in Jumps \cup {0}
    /\ stretch \in DOMAIN Stretches /\ anchor \in Numbers \cup {None}
    /\ heard \subseteq [source : DOMAIN Stretches, n : Numbers, pos : Int, time : Int]

(* What the consumer receives through all wraparounds, late packets and    *)
(* switches is the one stream it was promised.                             *)
Promised == INSTANCE OneStream
    WITH FirstSeq <- StartSeq, FirstTime <- StartTs, jump <- pendingTsJump, placed <- heard
OneStreamSpec == Promised!Spec

(* "Switches continue from the LATEST packet" (128-129): no two packets    *)
(* get the same number, which the consumer would drop one of as a          *)
(* duplicate.                                                              *)
NoReuse ==
    \A p, q \in heard : p.pos = q.pos => p.source = q.source /\ p.n = q.n

(* The output is "monotonic in ts" (15-16): later in the sequence is not   *)
(* earlier in time, also when the packet forwarded last before a switch    *)
(* was a late one.                                                         *)
TimeAdvances == \A p, q \in heard : p.pos <= q.pos => p.time <= q.time
=============================================================================
