-------------------------------- MODULE FlexFec --------------------------------
(***************************************************************************)
(* FlexFecEncoder and FlexFecDecoder (src/src/flexfec.js).                 *)
(*                                                                         *)
(* The octets of a media packet are abstracted to the set of its bits that *)
(* are set: ids stands for its headers and payload (one bit of its own per *)
(* packet), len for the length field in binary.  The exclusive or of       *)
(* packets is then the set of the bits that are set in an odd number.      *)
(***************************************************************************)
EXTENDS RtpPayload, FiniteSets

CONSTANTS
    GroupSize,          \* opts.groupSize
    MaxMask,            \* 109: packets one mask can name
    WindowSize,         \* opts.windowSize
    MaxFec              \* 64

Sets == INSTANCE FiniteSetsExt
Seqs == INSTANCE SequencesExt

Xor(S, T) == (S \ T) \cup (T \ S)
XorAll(F) == {b \in UNION {F[j] : j \in DOMAIN F} : Cardinality({j \in DOMAIN F : b \in F[j]}) % 2 = 1}
Octets(len) == Sets!SumSet({2 ^ b : b \in len})
SeqDiff(a, b) == (a - b) % SeqSpace

-----------------------------------------------------------------------------
(* The encoder: the group so far and the sequence number of its stream.    *)
Encoder(seq) == [seq |-> seq, fecSeq |-> SeqSpace - 1, group |-> <<>>]

(* _buildFec: the exclusive or of the group, and the mask of its members,  *)
(* which has no bit for one too far from the first.                        *)
MaskFromOne(group) ==                        \* slip: the bits count from one
    {d \in 1 .. MaxMask : \E j \in DOMAIN group : SeqDiff(group[j].seq, group[1].seq) = d - 1}
Mask(group) ==
    {d \in 0 .. MaxMask - 1 : \E j \in DOMAIN group : SeqDiff(group[j].seq, group[1].seq) = d}
Repair(group) ==
    [fec |-> TRUE, base |-> group[1].seq, mask |-> Mask(group),
     ids |-> XorAll([j \in DOMAIN group |-> group[j].ids]),
     len |-> XorAll([j \in DOMAIN group |-> group[j].len]),
     room |-> Sets!Max({Octets(group[j].len) : j \in DOMAIN group})]
BuildFec(s) ==
    [st   |-> [s EXCEPT !.group = <<>>, !.fecSeq = NextSeq(s.fecSeq)],
     pkts |-> <<MakePacket(s.fecSeq, Repair(s.group), s.group[Len(s.group)].ts, FALSE)>>]

(* The packetizer sends the frame, the encoder protects the packet; at the *)
(* end of a burst the application flushes what is left of the group.       *)
Protect(s, m) ==
    LET full == [s EXCEPT !.group = Append(s.group, m)]
    IN  IF Len(full.group) >= GroupSize THEN BuildFec(full) ELSE [st |-> full, pkts |-> <<>>]
Flush(s) == IF s.group = <<>> THEN [st |-> s, pkts |-> <<>>] ELSE BuildFec(s)
Packetize(s, chunk) ==
    LET ts == UsToRtp(chunk.us)
        m  == [fec |-> FALSE, seq |-> s.seq, ts |-> ts, ids |-> chunk.ids, len |-> chunk.len]
        after == Protect([s EXCEPT !.seq = NextSeq(s.seq)], m)
        rest  == IF chunk.last THEN Flush(after.st) ELSE [st |-> after.st, pkts |-> <<>>]
    IN  [st   |-> rest.st,
         pkts |-> <<MakePacket(s.seq, m, ts, FALSE)>> \o after.pkts \o rest.pkts]

-----------------------------------------------------------------------------
(* The decoder: _media in insertion order, and the repair packets waiting. *)
Decoder == [media |-> <<>>, fec |-> <<>>]

At(media, seq) == {j \in DOMAIN media : media[j].seq = seq}
Put(media, m) ==
    IF At(media, m.seq) = {} THEN Append(media, m)
    ELSE [j \in DOMAIN media |-> IF media[j].seq = m.seq THEN m ELSE media[j]]
Latest(s, n) == SubSeq(s, IF Len(s) > n THEN Len(s) - n + 1 ELSE 1, Len(s))

Covered(f) == {(f.base + d) % SeqSpace : d \in f.mask}
Missing(d, f) == {q \in Covered(f) : At(d.media, q) = {}}
OneOrTwoMissing(d, f) == Cardinality(Missing(d, f)) \in 1 .. 2   \* slip: two are not told from one
OneMissing(d, f) == Cardinality(Missing(d, f)) = 1

(* _tryRecover, when one packet of the group is missing: take every other  *)
(* one out of the repair.  A length the repair has no room for is corrupt. *)
Recovered(d, f) ==
    LET have == {j \in DOMAIN d.media : d.media[j].seq \in Covered(f)}
    IN  [fec |-> FALSE, seq |-> CHOOSE q \in Missing(d, f) : TRUE,
         ids |-> Xor(f.ids, XorAll([j \in have |-> d.media[j].ids])),
         len |-> Xor(f.len, XorAll([j \in have |-> d.media[j].len]))]
Recovers(d, f) == OneMissing(d, f) /\ Octets(Recovered(d, f).len) <= f.room

(* _tryRecoverAll, from the newest repair to the oldest: one that has      *)
(* nothing left to repair is retired, and a recovered packet starts the    *)
(* search again.  One turn of the loop on [d, i, out], idle at i = 0.      *)
Turn(x) ==
    LET f == x.d.fec[x.i]
        retired == [x.d EXCEPT !.fec = Seqs!RemoveAt(x.d.fec, x.i)]
    IN  CASE x.i = 0 -> x
          [] x.i > 0 /\ Missing(x.d, f) = {} -> [d |-> retired, i |-> x.i - 1, out |-> x.out]
          [] x.i > 0 /\ Recovers(x.d, f) ->
                LET rec == Recovered(x.d, f)
                IN  [d   |-> [retired EXCEPT !.media = Put(x.d.media, rec)],
                     i   |-> Len(retired.fec),
                     out |-> Append(x.out, rec)]
          [] OTHER -> [x EXCEPT !.i = x.i - 1]
TryRecoverAll(d) ==
    LET turns[k \in Nat] ==
            IF k = 0 THEN [d |-> d, i |-> Len(d.fec), out |-> <<>>] ELSE Turn(turns[k - 1])
        end == turns[(Len(d.fec) + 1) * (Len(d.fec) + 1)]
    IN  Emit(end.d, end.out)

AddMediaPacket(d, m) == TryRecoverAll([d EXCEPT !.media = Latest(Put(d.media, m), WindowSize)])
AddFecPacket(d, f) ==
    IF f.mask = {} THEN Keep(d)
    ELSE TryRecoverAll([d EXCEPT !.fec = Latest(Append(d.fec, f), MaxFec)])
(* close() is reset(): a packet that comes after it is taken as the first. *)
Depacketize(d, pkt, open) ==
    IF pkt.payload.fec THEN AddFecPacket(d, pkt.payload)
    ELSE AddMediaPacket(d, [fec |-> FALSE, seq |-> pkt.payload.seq, ids |-> pkt.payload.ids,
                            len |-> pkt.payload.len])
=============================================================================
