-------------------------- MODULE TCPReceiverProofs -------------------------
(***************************************************************************)
(* The acknowledgments of the TCPReceiver, for every stream, capacity,     *)
(* modulus and initial sequence number, and the sequence numbers it reads, *)
(* for every width.                                                        *)
(***************************************************************************)
EXTENDS TCPReceiver, OperatorLemmas

\* The reassembler holds whole segments of an aligned peer that cuts at C: behind
\* a stored byte comes another one, or a cut, or the end of the stream.
Whole(r, C) ==
  \A k \in DOMAIN r.buffer : \/ k + 1 \in DOMAIN r.buffer
                             \/ k + 2 \in C
                             \/ k + 1 = Total /\ r.eofed

\* What holds with an aligned peer: the first missing byte begins a segment, and a
\* FIN that is a segment of its own came last.
Alignment(rc, C) ==
  LET r == rc.reassembler
  IN  /\ Whole(r, C)
      /\ Total + 1 \in C /\ r.eofed => r.first_unassembled = Total
      /\ r.first_unassembled + 1 \in C \/ r.output.ended
      /\ rc.is_set => rc.checkpoint = left(r) + 1 + One(r.output.ended)

\* What holds with any peer whose initial sequence number is n and that respects
\* the window
Honest(rc, n) ==
  LET r == rc.reassembler
  IN  /\ DOMAIN rc = DOMAIN FreshReceiver
      /\ DOMAIN r = DOMAIN EmptyReassembler
      /\ Assembling(r, Total, Capacity) /\ EndIsKnown(r, Total)
      /\ rc.ended = r.eofed
      /\ rc.is_set \in BOOLEAN
      /\ rc.is_set => rc.isn = n
      /\ rc.checkpoint \in 0 .. End
      /\ rc.is_set => rc.checkpoint <= left(r) + 1 + One(r.output.ended)

\* The inductive invariant
IInv == /\ isn \in WrappingInt32
        /\ {0, 1, End} \subseteq cuts
        /\ Honest(receiver, isn)
        /\ aligned /\ Total > 0 => Alignment(receiver, cuts)

\* What a step leaves or lets grow
Grows(rc, new) ==
  /\ bytes_read(rc.reassembler.output) <= bytes_read(new.reassembler.output)
  /\ rc.reassembler.output.ended => new.reassembler.output.ended
  /\ rc.is_set => new.is_set

-----------------------------------------------------------------------------
\* The stream fits into the first half of the first block.
LEMMA StreamFits == /\ Total \in Nat /\ Capacity \in Nat /\ End \in Nat /\ End = Total + 2
                    /\ End <= Half /\ Half \in Nat /\ Half < Mod /\ Mod \in Nat
BY ReceiverAssumption, HalfBelowMod DEF End

LEMMA SquareFits == Total + 1 < Mod * Mod /\ Total < Mod * Mod /\ Mod * Mod \in Nat /\ Mod * Mod > 0
<1>1. Mod * Mod \in Nat /\ Mod <= Mod * Mod
  BY ModAssumption
<1> DEFINE M == Mod * Mod
<1> HIDE DEF M
<1>2. Total + 1 < M /\ Total < M /\ M > 0
  BY <1>1, StreamFits DEF M
<1> QED BY <1>1, <1>2 DEF M

LEMMA StreamFits64 == Fits64(Total)
BY SquareFits DEF Fits64

\* The index in the stream of a segment that begins at from
LEMMA StreamIndex ==
  ASSUME NEW from \in 0 .. End, NEW syn \in BOOLEAN, syn => from = 0
  PROVE  /\ stream_index(from, syn) \in Nat
         /\ from > 0 => stream_index(from, syn) = from - 1
         /\ syn => stream_index(from, syn) = 0
<1> DEFINE M == Mod * Mod
<1>1. M \in Nat /\ M > 0 /\ Total + 1 < M
  BY SquareFits
<1>2. stream_index(from, syn) = (from - 1 + One(syn)) % M
  BY Zenon DEF stream_index
<1> HIDE DEF M
<1>3. One(syn) \in 0 .. 1 /\ (syn => One(syn) = 1) /\ (~ syn => One(syn) = 0)
  BY DEF One
<1>4. (from - 1 + One(syn)) % M \in Nat
  BY <1>1, <1>3, StreamFits, ModRange
<1>5. ASSUME from > 0 PROVE (from - 1 + One(syn)) % M = from - 1
  <2>1. from - 1 + One(syn) = from - 1 /\ from - 1 \in 0 .. M - 1
    BY <1>1, <1>3, <1>5, StreamFits
  <2>2. (from - 1) % M = from - 1
    BY <1>1, <2>1, ModSmall
  <2> QED BY <2>1, <2>2
<1>6. ASSUME syn PROVE (from - 1 + One(syn)) % M = 0
  <2>1. from - 1 + One(syn) = 0 /\ 0 \in 0 .. M - 1
    <3>1. from = 0 /\ One(syn) = 1
      BY <1>3, <1>6
    <3> QED BY <1>1, <3>1
  <2>2. 0 % M = 0
    BY <1>1, <2>1, ModSmall
  <2> QED BY <2>1, <2>2
<1> QED BY <1>2, <1>4, <1>5, <1>6

\* The payload of a segment of the peer is a substring of the stream, and the
\* segment is as long as the numbers it covers.
LEMMA SegmentIs ==
  ASSUME NEW from \in 0 .. End, NEW to \in 0 .. End, from <= to, from = 0 => to <= 1,
         NEW seg, seg = Segment(from, to),
         NEW i, i = stream_index(from, seg.syn)
  PROVE  /\ seg.seqno = wrap(from, isn)
         /\ seg.syn \in BOOLEAN /\ (seg.syn <=> from = 0 /\ to > 0)
         /\ seg.fin \in BOOLEAN /\ (seg.fin <=> from < to /\ to = End)
         /\ IsSubstring(seg.payload, i, Total)
         /\ length_in_sequence_space(seg) = to - from
         /\ Len(seg.payload) > 0 <=> 1 <= from /\ from < to /\ from <= Total
         /\ Len(seg.payload) > 0 => /\ i = from - 1
                                    /\ i + Len(seg.payload) = min(to, Total + 1) - 1
<1> DEFINE a == max(from, 1)
           m == min(to, Total + 1) - a
           d == [k \in 1 .. m |-> a + k - 2]
<1>1. /\ seg.seqno = wrap(from, isn) /\ seg.payload = d
      /\ seg.syn \in BOOLEAN /\ (seg.syn <=> from = 0 /\ to > 0)
      /\ seg.fin \in BOOLEAN /\ (seg.fin <=> from < to /\ to = End)
  BY DEF Segment
<1>2. a \in Nat /\ m \in Int
  BY StreamFits DEF max, min
<1>3. /\ m > 0 <=> 1 <= from /\ from < to /\ from <= Total
      /\ m > 0 => a = from /\ m = min(to, Total + 1) - from /\ m + from <= Total + 1
  BY StreamFits DEF max, min
<1>4. CASE m > 0
  <2>1. seg.syn \in BOOLEAN /\ (seg.syn => from = 0) /\ from > 0 /\ a = from
    BY <1>1, <1>3, <1>4
  <2>2. i = from - 1 /\ i \in Nat
    BY <2>1, StreamIndex
  <2> HIDE DEF a, m
  <2>3. \A k \in 1 .. m : a + k - 2 = i + k - 1 /\ a + k - 2 \in Nat
    BY <1>2, <1>4, <2>1, <2>2
  <2>4. d \in Seq(Nat) /\ Len(d) = m
    BY <1>2, <1>4, <2>3
  <2>5. IsSubstring(d, i, Total)
    <3>1. \A k \in 1 .. Len(d) : d[k] = i + k - 1
      BY <2>3, <2>4
    <3> HIDE DEF d
    <3>2. i + Len(d) <= Total
      BY <1>2, <1>3, <1>4, <2>2, <2>4, StreamFits
    <3> QED BY <2>2, <2>4, <3>1, <3>2 DEF IsSubstring
  <2> HIDE DEF d
  <2>6. i + Len(d) = min(to, Total + 1) - 1
    BY <1>2, <1>3, <1>4, <2>2, <2>4, StreamFits DEF min
  <2>7. One(seg.syn) + m + One(seg.fin) = to - from
    <3>1. One(seg.syn) = 0
      BY <1>1, <2>1 DEF One
    <3>2. One(seg.fin) = IF to = End THEN 1 ELSE 0
      BY <1>1, <1>3, <1>4, Zenon DEF One
    <3>3. m = min(to, Total + 1) - from
      BY <1>3, <1>4
    <3> QED BY <3>1, <3>2, <3>3, StreamFits DEF min
  <2> QED BY <1>1, <1>3, <1>4, <2>2, <2>4, <2>5, <2>6, <2>7 DEF length_in_sequence_space
<1>5. CASE ~ (m > 0)
  <2>1. seg.syn \in BOOLEAN /\ (seg.syn => from = 0)
    BY <1>1
  <2>2. i \in Nat
    BY <2>1, StreamIndex
  <2>3. d = << >>
    BY <1>2, <1>5
  <2> HIDE DEF d
  <2>4. d \in Seq(Nat) /\ Len(d) = 0
    <3>1. << >> \in Seq(Nat) /\ Len(<< >>) = 0
      OBVIOUS
    <3> QED BY <2>3, <3>1, Zenon
  <2>5. IsSubstring(d, i, Total)
    BY <2>2, <2>4 DEF IsSubstring
  <2>6. One(seg.syn) + One(seg.fin) = to - from
    <3>1. from = to \/ (from = 0 /\ to = 1) \/ (from = Total + 1 /\ to = End)
      BY <1>3, <1>5, StreamFits
    <3> QED BY <1>1, <3>1, StreamFits DEF One
  <2> QED BY <1>1, <1>3, <1>5, <2>4, <2>5, <2>6, StreamFits DEF length_in_sequence_space, One
<1> QED BY <1>4, <1>5

-----------------------------------------------------------------------------
\* The first segment of the peer is the SYN alone.
LEMMA SynAlone ==
  ASSUME {0, 1, End} \subseteq cuts, NEW from \in 0 .. End, NEW to \in 0 .. End,
         from <= to, Sent(from, to)
  PROVE  from = 0 => to <= 1
<1>1. ASSUME from = 0, from # to PROVE to <= 1
  <2>1. CASE \A c \in cuts : ~ (from < c /\ c < to)
    <3>1. ~ (from < 1 /\ 1 < to)
      BY <2>1
    <3> QED BY <1>1, <3>1, StreamFits
  <2>2. CASE to = 1
    BY <2>2
  <2> QED BY <1>1, <2>1, <2>2 DEF Sent
<1> QED BY <1>1

-----------------------------------------------------------------------------
\* The reassembler after the segment [from, to) has been pushed
Pushed(from, to) ==
  LET seg == Segment(from, to)
  IN  push_substring(re, Capacity, seg.payload, stream_index(from, seg.syn), seg.fin)

\* The checkpoint before the segment is looked at
Old(from, to) == IF from = 0 /\ to > 0 THEN 0 ELSE receiver.checkpoint

\* The sequence number leads to the place of the segment, so segment_received() does
\* nothing before the SYN and else pushes the payload where it belongs.
LEMMA DeliverIs ==
  ASSUME IInv, NEW from \in 0 .. End, NEW to \in 0 .. End, Deliver(from, to)
  PROVE  LET p      == Pushed(from, to)
             ended_ == receiver.ended \/ (from < to /\ to = End)
         IN  \/ receiver' = receiver
             \/ /\ receiver.is_set \/ from = 0
                /\ receiver' = [reassembler |-> p, isn |-> isn, is_set |-> TRUE, ended |-> ended_,
                                checkpoint  |-> acked(to - from, from, Old(from, to), p, ended_)]
<1> DEFINE seg == Segment(from, to)
           i   == stream_index(from, seg.syn)
           n   == isn_of(receiver, seg)
           old == IF seg.syn THEN 0 ELSE receiver.checkpoint
           ix  == unwrap(seg.seqno, n, old)
           q   == push_substring(receiver.reassembler, Capacity, seg.payload,
                                 stream_index(ix, seg.syn), seg.fin)
           e   == receiver.ended \/ seg.fin
           new == [reassembler |-> q, isn |-> n, is_set |-> TRUE, ended |-> e,
                   checkpoint  |-> acked(length_in_sequence_space(seg), ix, old, q, e)]
<1>1. from <= to /\ Sent(from, to) /\ receiver' = segment_received(receiver, Capacity, seg)
  BY DEF Deliver
<1>2. from = 0 => to <= 1
  BY <1>1, SynAlone DEF IInv
<1>3. /\ seg.seqno = wrap(from, isn)
      /\ seg.syn \in BOOLEAN /\ (seg.syn <=> from = 0 /\ to > 0)
      /\ seg.fin \in BOOLEAN /\ (seg.fin <=> from < to /\ to = End)
      /\ length_in_sequence_space(seg) = to - from
  BY <1>1, <1>2, SegmentIs
<1>4. receiver' = IF ~ receiver.is_set /\ ~ seg.syn THEN receiver ELSE new
  BY <1>1, Zenon DEF segment_received
<1> HIDE DEF seg
<1>5. CASE ~ receiver.is_set /\ ~ seg.syn
  BY <1>4, <1>5, Zenon
<1>6. CASE receiver.is_set \/ seg.syn
  <2>1. isn \in WrappingInt32 /\ receiver.checkpoint \in 0 .. End /\ (receiver.is_set => receiver.isn = isn)
    BY DEF IInv, Honest
  <2>2. n = isn
    <3>1. CASE seg.syn
      <4>1. n = wrap(0, isn)
        BY <1>3, <3>1 DEF isn_of
      <4>2. wrap(0, isn) = isn
        BY <2>1, StreamFits, ModSmall DEF wrap, WrappingInt32
      <4> QED BY <4>1, <4>2
    <3>2. CASE ~ seg.syn
      BY <1>6, <2>1, <3>2 DEF isn_of
    <3> QED BY <3>1, <3>2
  <2>3. old \in 0 .. Half /\ from \in 0 .. Half
    BY <2>1, StreamFits
  <2>4. old = Old(from, to)
    BY <1>3 DEF Old
  <2> HIDE DEF n, old
  <2>5. ix = from
    BY <1>3, <2>1, <2>2, <2>3, UnwrapWrap
  <2> HIDE DEF ix
  <2>6. q = Pushed(from, to)
    BY <2>5, Zenon DEF Pushed, re, seg
  <2>7. e = (receiver.ended \/ (from < to /\ to = End))
    BY <1>3
  <2> HIDE DEF q, e
  <2>8. receiver' = new
    BY <1>4, <1>6, Zenon
  <2>9. receiver.is_set \/ from = 0
    BY <1>3, <1>6
  <2> QED BY <1>3, <2>2, <2>4, <2>5, <2>6, <2>7, <2>8, <2>9, Zenon
<1> QED BY <1>5, <1>6

\* What the push does to the reassembler
LEMMA PushedIs ==
  ASSUME ~ Probe, IInv, NEW from \in 0 .. End, NEW to \in 0 .. End, Deliver(from, to),
         NEW p, p = Pushed(from, to)
  PROVE  /\ DOMAIN p = DOMAIN EmptyReassembler
         /\ Assembling(p, Total, Capacity) /\ EndIsKnown(p, Total)
         /\ p.eofed = (receiver.ended \/ (from < to /\ to = End))
         /\ bytes_read(p.output) = bytes_read(re.output)
         /\ re.first_unassembled <= p.first_unassembled
         /\ re.output.ended => p.output.ended
         /\ 1 <= from /\ from < to /\ from <= re.first_unassembled + 1
              => IF to = End THEN p.output.ended /\ p.first_unassembled = Total
                 ELSE to <= p.first_unassembled + 1
         /\ DOMAIN p.buffer = DOMAIN re.buffer \cup
              (IF 1 <= from /\ from < to THEN from - 1 .. min(to, Total + 1) - 2 ELSE {})
         /\ \A k \in re.first_unassembled .. p.first_unassembled - 1 : k \in DOMAIN p.buffer
<1> DEFINE seg == Segment(from, to)
           i   == stream_index(from, seg.syn)
           d   == seg.payload
           fin == seg.fin
           r   == receiver.reassembler
<1>1. /\ from <= to /\ Sent(from, to) /\ Allowed(from, to)
      /\ (from = Total + 1 /\ from < to) => r.first_unassembled = Total
  BY DEF Deliver, left, re
<1>2. from = 0 => to <= 1
  BY <1>1, SynAlone DEF IInv
<1>3. /\ fin \in BOOLEAN /\ (fin <=> from < to /\ to = End)
      /\ IsSubstring(d, i, Total)
      /\ Len(d) > 0 <=> 1 <= from /\ from < to /\ from <= Total
      /\ Len(d) > 0 => i = from - 1 /\ i + Len(d) = min(to, Total + 1) - 1
  BY <1>1, <1>2, SegmentIs
<1>4. p = push_substring(r, Capacity, d, i, fin)
  BY Zenon DEF Pushed, re
<1> HIDE DEF d, i, fin
<1>5. /\ Assembling(r, Total, Capacity) /\ EndIsKnown(r, Total)
      /\ receiver.ended = r.eofed
  BY DEF IInv, Honest
<1>6. bytes_read(r.output) \in Nat /\ r.first_unassembled \in Nat /\ r.first_unassembled <= Total
  BY <1>5, StreamFits DEF Assembling, IsOutput, bytes_read
<1>7. Len(d) \in Nat /\ i \in Nat
  BY <1>3 DEF IsSubstring
<1>8. 1 <= from /\ from < to => to <= bytes_read(r.output) + 1 + Capacity
  BY <1>1, StreamFits DEF Allowed, Edge
<1>9. Len(d) > 0 => i + Len(d) <= bytes_read(r.output) + Capacity
  BY <1>3, <1>6, <1>7, <1>8, StreamFits DEF min
<1>10. fin => OrderlyEof(r, Total, Capacity, d, i)
  <2>1. SUFFICES ASSUME fin PROVE OrderlyEof(r, Total, Capacity, d, i)
    OBVIOUS
  <2>2. from < to /\ to = End /\ 1 <= from
    BY <1>2, <1>3, <2>1, StreamFits
  <2>3. CASE from <= Total
    <3>1. Len(d) > 0 /\ i + Len(d) = Total
      BY <1>3, <2>2, <2>3, StreamFits DEF min
    <3>2. i + Len(d) <= bytes_read(r.output) + Capacity + 1
      BY <1>6, <1>7, <1>9, <3>1, StreamFits
    <3> QED BY <3>1, <3>2 DEF OrderlyEof
  <2>4. CASE from > Total
    <3>1. from = Total + 1
      BY <2>2, <2>4, StreamFits
    <3>2. Len(d) = 0
      BY <1>3, <1>7, <2>4, StreamFits
    <3> QED BY <1>1, <2>2, <3>1, <3>2 DEF OrderlyEof
  <2> QED BY <2>3, <2>4, StreamFits
<1>11. EndIsKnown(p, Total)
  BY <1>3, <1>4, <1>5, <1>10, StreamFits, StreamFits64, EndStaysKnown
<1>12. /\ DOMAIN p = DOMAIN EmptyReassembler /\ Assembling(p, Total, Capacity)
       /\ p.eofed = (r.eofed \/ fin)
       /\ bytes_read(p.output) = bytes_read(r.output)
       /\ r.first_unassembled <= p.first_unassembled
       /\ r.output.ended => p.output.ended
       /\ Len(d) > 0 /\ i + Len(d) <= bytes_read(r.output) + Capacity /\ i <= r.first_unassembled
            => i + Len(d) <= p.first_unassembled
  <2>1. PushOutcome(p, r, Total, Capacity, d, i, fin)
    BY <1>3, <1>4, <1>5, StreamFits, StreamFits64, PushKeeps
  <2> QED BY ONLY <2>1, Zenon DEF PushOutcome
<1>13. /\ DOMAIN p.buffer = DOMAIN r.buffer \cup (i .. i + Len(d) - 1)
       /\ \A k \in r.first_unassembled .. p.first_unassembled - 1 : k \in DOMAIN p.buffer
  BY <1>3, <1>4, <1>5, <1>9, StreamFits, PushStores
<1>14. i .. i + Len(d) - 1 = IF 1 <= from /\ from < to THEN from - 1 .. min(to, Total + 1) - 2 ELSE {}
  <2>1. CASE Len(d) > 0
    BY <1>3, <1>7, <2>1, StreamFits DEF min
  <2>2. CASE Len(d) = 0 /\ ~ (1 <= from /\ from < to)
    BY <1>7, <2>2
  <2>3. CASE Len(d) = 0 /\ 1 <= from /\ from < to
    <3>1. from > Total
      BY <1>3, <2>3, StreamFits
    <3>2. i .. i + Len(d) - 1 = {} /\ from - 1 .. min(to, Total + 1) - 2 = {}
      BY <1>7, <2>3, <3>1, StreamFits DEF min
    <3> QED BY <2>3, <3>2
  <2> QED BY <1>7, <2>1, <2>2, <2>3
<1>15. p.eofed = (receiver.ended \/ (from < to /\ to = End))
  BY <1>3, <1>5, <1>12
<1>16. ASSUME 1 <= from, from < to, from <= r.first_unassembled + 1
       PROVE  IF to = End THEN p.output.ended /\ p.first_unassembled = Total
              ELSE to <= p.first_unassembled + 1
  <2>1. p.first_unassembled \in Nat /\ p.first_unassembled <= Total
    BY <1>12, StreamFits DEF Assembling
  <2>2. min(to, Total + 1) - 1 <= p.first_unassembled
    <3>1. CASE from <= Total
      <4>1. Len(d) > 0 /\ i <= r.first_unassembled
        BY <1>3, <1>6, <1>16, <3>1, StreamFits
      <4> QED BY <1>3, <1>9, <1>12, <4>1
    <3>2. CASE from > Total
      <4>1. from = Total + 1
        BY <1>16, <3>2, StreamFits
      <4> QED BY <1>1, <1>12, <1>16, <2>1, <4>1, StreamFits DEF min
    <3> QED BY <3>1, <3>2, StreamFits
  <2>3. CASE to = End
    <3>1. p.first_unassembled = Total
      BY <2>1, <2>2, <2>3, StreamFits DEF min
    <3>2. p.eofed
      BY <1>15, <1>16, <2>3
    <3> QED BY <1>11, <2>3, <3>1, <3>2 DEF EndIsKnown
  <2>4. CASE to # End
    BY <2>1, <2>2, <2>4, StreamFits DEF min
  <2> QED BY <2>3, <2>4
<1> QED BY <1>11, <1>12, <1>13, <1>14, <1>15, <1>16 DEF re

\* The ranges of what a reassembler counts
LEMMA ReassemblerRange ==
  ASSUME NEW r, Assembling(r, Total, Capacity), EndIsKnown(r, Total)
  PROVE  /\ r.first_unassembled \in 0 .. Total
         /\ r.output.ended \in BOOLEAN /\ r.eofed \in BOOLEAN
         /\ r.output.ended => r.first_unassembled = Total
         /\ bytes_read(r.output) \in Nat
BY StreamFits DEF Assembling, IsOutput, EndIsKnown, bytes_read

\* acked() in terms of the number behind the segment and of the end of the output
LEMMA AckedIs ==
  ASSUME NEW p, Assembling(p, Total, Capacity), EndIsKnown(p, Total),
         NEW from \in Nat, NEW to \in Nat, from <= to, NEW old
  PROVE  acked(to - from, from, old, p, p.eofed) =
           IF from = 0 \/ from = old
           THEN IF to < p.first_unassembled + 1
                THEN p.first_unassembled + 1 + One(p.output.ended) ELSE to
           ELSE old
<1>1. /\ p.first_unassembled \in Nat /\ p.first_unacceptable \in Nat
      /\ p.first_unassembled <= p.first_unacceptable /\ p.first_unacceptable <= Total
  BY DEF Assembling
<1>2. p.eofed /\ distance(p) = 0 <=> p.output.ended
  BY <1>1, StreamFits DEF EndIsKnown, distance
<1>3. One(p.eofed /\ distance(p) = 0) = One(p.output.ended)
  BY <1>2 DEF One
<1>4. from + (to - from) = to
  OBVIOUS
<1> QED BY <1>3, <1>4, Zenon DEF acked, left

\* A delivery keeps what holds with any peer.
LEMMA DeliverHonest ==
  ASSUME ~ Probe, IInv, NEW from \in 0 .. End, NEW to \in 0 .. End, Deliver(from, to)
  PROVE  Honest(receiver', isn) /\ Grows(receiver, receiver')
<1> DEFINE p      == Pushed(from, to)
           ended_ == receiver.ended \/ (from < to /\ to = End)
           cp     == acked(to - from, from, Old(from, to), p, ended_)
           new    == [reassembler |-> p, isn |-> isn, is_set |-> TRUE, ended |-> ended_,
                      checkpoint  |-> cp]
           F      == re.first_unassembled
           G      == p.first_unassembled
           e      == re.output.ended
           e2     == p.output.ended
           old    == Old(from, to)
<1>1. CASE receiver' = receiver
  <2>1. bytes_read(re.output) \in Nat
    BY DEF IInv, Honest, Assembling, IsOutput, bytes_read, re
  <2> QED BY <1>1, <2>1 DEF IInv, Grows, re
<1>2. CASE (receiver.is_set \/ from = 0) /\ receiver' = new
  <2>1. /\ DOMAIN p = DOMAIN EmptyReassembler
        /\ Assembling(p, Total, Capacity) /\ EndIsKnown(p, Total)
        /\ p.eofed = ended_
        /\ bytes_read(p.output) = bytes_read(re.output)
        /\ F <= G /\ (e => e2)
        /\ 1 <= from /\ from < to /\ from <= F + 1
             => IF to = End THEN e2 /\ G = Total ELSE to <= G + 1
    BY PushedIs
  <2> HIDE DEF p
  <2>2. from <= to /\ (from = 0 => to <= 1)
    BY SynAlone DEF Deliver, IInv
  <2>3. /\ F \in 0 .. Total /\ G \in 0 .. Total /\ e \in BOOLEAN /\ e2 \in BOOLEAN
        /\ e => F = Total
        /\ bytes_read(re.output) \in Nat
    <3>1. Assembling(re, Total, Capacity) /\ EndIsKnown(re, Total)
      BY DEF IInv, Honest, re
    <3> QED BY <2>1, <3>1, ReassemblerRange
  <2>4. old \in 0 .. Total + 2 /\ (from > 0 => old <= F + 1 + One(e))
    <3>1. receiver.checkpoint \in 0 .. Total + 2
      BY StreamFits DEF IInv, Honest
    <3>2. from > 0 => old = receiver.checkpoint /\ receiver.is_set
      BY <1>2 DEF Old
    <3>3. receiver.is_set => receiver.checkpoint <= F + 1 + One(e)
      BY DEF IInv, Honest, left, re
    <3> QED BY <3>1, <3>2, <3>3, StreamFits DEF Old
  <2> HIDE DEF old, F, e
  <2>5. cp = IF from = 0 \/ from = old THEN IF to < G + 1 THEN G + 1 + One(e2) ELSE to ELSE old
    <3>1. cp = acked(to - from, from, old, p, p.eofed)
      BY <2>1, Zenon DEF old
    <3>2. from \in Nat /\ to \in Nat
      BY StreamFits
    <3> QED BY <2>1, <2>2, <3>1, <3>2, AckedIs
  <2> HIDE DEF cp, G, e2
  <2>6. cp \in 0 .. Total + 2 /\ cp <= G + 1 + One(e2)
    <3>1. /\ One(e) \in 0 .. 1 /\ One(e2) \in 0 .. 1 /\ One(e) <= One(e2)
          /\ One(e) = 1 => F = Total
          /\ One(e2) = 0 => ~ e2
          /\ Total \in Nat /\ End = Total + 2
      BY <2>1, <2>3, StreamFits DEF One
    <3>2. /\ F \in 0 .. Total /\ G \in 0 .. Total /\ F <= G
          /\ old \in 0 .. Total + 2 /\ (from > 0 => old <= F + 1 + One(e))
      BY <2>1, <2>3, <2>4
    <3>3. CASE from = 0
      BY <2>2, <2>5, <3>1, <3>2, <3>3
    <3>4. CASE from > 0 /\ from = old /\ ~ (to < G + 1)
      <4>1. cp = to
        BY <2>5, <3>4
      <4>2. CASE from = to
        BY <3>1, <3>2, <3>4, <4>1, <4>2
      <4>3. CASE from < to
        <5>1. from <= F + 1
          BY <3>1, <3>2, <3>4, <4>3
        <5>2. IF to = End THEN e2 /\ G = Total ELSE to <= G + 1
          BY <2>1, <3>4, <4>3, <5>1
        <5> QED BY <3>1, <3>2, <4>1, <5>2
      <4> QED BY <2>2, <4>2, <4>3
    <3>5. CASE from > 0 /\ from = old /\ to < G + 1
      BY <2>5, <3>1, <3>2, <3>5
    <3>6. CASE from > 0 /\ from # old
      BY <2>5, <3>1, <3>2, <3>6
    <3> QED BY <3>3, <3>4, <3>5, <3>6
  <2>7. /\ receiver'.reassembler = p /\ receiver'.isn = isn /\ receiver'.is_set = TRUE
        /\ receiver'.ended = ended_ /\ receiver'.checkpoint = cp
        /\ DOMAIN receiver' = DOMAIN FreshReceiver
    BY <1>2 DEF FreshReceiver
  <2> HIDE DEF ended_
  <2>8. Honest(receiver', isn)
    <3>1. receiver'.checkpoint \in 0 .. End
      BY <2>6, <2>7, StreamFits
    <3>2. receiver'.checkpoint <= left(p) + 1 + One(p.output.ended)
      BY <2>6, <2>7 DEF left, G, e2
    <3> QED BY <2>1, <2>7, <3>1, <3>2 DEF Honest
  <2>9. Grows(receiver, receiver')
    BY <2>1, <2>3, <2>7 DEF Grows, re, e, e2
  <2> QED BY <2>8, <2>9
<1> QED BY <1>1, <1>2, DeliverIs

\* A delivery keeps what holds with an aligned peer: a segment that begins at the
\* ackno moves it to the next gap, any other leaves the gap.
LEMMA DeliverAligned ==
  ASSUME ~ Probe, IInv, aligned, Total > 0,
         NEW from \in 0 .. End, NEW to \in 0 .. End, Deliver(from, to)
  PROVE  Alignment(receiver', cuts)
<1> DEFINE p      == Pushed(from, to)
           ended_ == receiver.ended \/ (from < to /\ to = End)
           old    == Old(from, to)
           cp     == acked(to - from, from, old, p, ended_)
           new    == [reassembler |-> p, isn |-> isn, is_set |-> TRUE, ended |-> ended_,
                      checkpoint  |-> cp]
           F      == re.first_unassembled
           G      == p.first_unassembled
           e      == re.output.ended
           e2     == p.output.ended
           D      == DOMAIN re.buffer
           D2     == DOMAIN p.buffer
<1>1. Alignment(receiver, cuts)
  BY DEF IInv
<1>2. CASE receiver' = receiver
  BY <1>1, <1>2
<1>3. CASE (receiver.is_set \/ from = 0) /\ receiver' = new
  <2>1. /\ Assembling(p, Total, Capacity) /\ EndIsKnown(p, Total)
        /\ p.eofed = ended_
        /\ F <= G /\ (e => e2)
        /\ 1 <= from /\ from < to /\ from <= F + 1
             => IF to = End THEN e2 /\ G = Total ELSE to <= G + 1
        /\ D2 = D \cup (IF 1 <= from /\ from < to THEN from - 1 .. min(to, Total + 1) - 2 ELSE {})
        /\ \A k \in F .. G - 1 : k \in D2
    BY PushedIs
  <2>2. /\ Assembling(re, Total, Capacity) /\ EndIsKnown(re, Total) /\ receiver.ended = re.eofed
    BY DEF IInv, Honest, re
  <2> HIDE DEF p
  <2>3. from <= to /\ (from = 0 => to <= 1)
    BY SynAlone DEF Deliver, IInv
  <2>4. from < to => /\ to \in cuts /\ \A c \in cuts : ~ (from < c /\ c < to)
                     /\ from = Total + 1 => F = Total
    BY DEF Deliver, Sent, left, re
  <2>5. /\ F \in 0 .. Total /\ G \in 0 .. Total /\ e \in BOOLEAN /\ e2 \in BOOLEAN
        /\ re.eofed \in BOOLEAN /\ p.eofed \in BOOLEAN
        /\ Total \in Nat /\ End = Total + 2 /\ from \in Nat /\ to \in Nat
    BY <2>1, <2>2, ReassemblerRange, StreamFits
  <2>6. /\ e <=> re.eofed /\ F = Total
        /\ e2 <=> p.eofed /\ G = Total
        /\ p.eofed <=> re.eofed \/ (from < to /\ to = End)
    BY <2>1, <2>2 DEF EndIsKnown
  <2>7. F \notin D /\ G \notin D2 /\ \A k \in D : k \in Nat
    BY <2>1, <2>2 DEF Assembling, IsStored
  <2>8. /\ \A k \in D : k + 1 \in D \/ k + 2 \in cuts \/ (k + 1 = Total /\ re.eofed)
        /\ Total + 1 \in cuts /\ re.eofed => F = Total
        /\ F + 1 \in cuts \/ e
    BY <1>1 DEF Alignment, Whole, re
  <2>9. from > 0 => old = F + 1 + One(e)
    <3>1. from > 0 => old = receiver.checkpoint /\ receiver.is_set
      BY <1>3, StreamFits DEF Old
    <3> QED BY <1>1, <3>1 DEF Alignment, left, re
  <2>10. cp = IF from = 0 \/ from = old THEN IF to < G + 1 THEN G + 1 + One(e2) ELSE to ELSE old
    <3>1. cp = acked(to - from, from, old, p, p.eofed)
      BY <2>1, Zenon
    <3> QED BY <2>1, <2>3, <2>5, <3>1, AckedIs
  <2>11. cp <= G + 1 + One(e2)
    <3>1. Honest(receiver', isn) /\ receiver'.reassembler = p /\ receiver'.is_set
          /\ receiver'.checkpoint = cp
      BY <1>3, DeliverHonest
    <3> QED BY <3>1 DEF Honest, left
  <2>12. /\ receiver'.reassembler = p /\ receiver'.checkpoint = cp
    BY <1>3
  <2> HIDE DEF cp, old, F, G, e, e2, D, D2, ended_
  <2>13. /\ One(e) = IF e THEN 1 ELSE 0
         /\ One(e2) = IF e2 THEN 1 ELSE 0
    BY DEF One
  <2>14. \A k \in D2 : k + 1 \in D2 \/ k + 2 \in cuts \/ (k + 1 = Total /\ p.eofed)
    <3>1. SUFFICES ASSUME NEW k \in D2
                   PROVE  k + 1 \in D2 \/ k + 2 \in cuts \/ (k + 1 = Total /\ p.eofed)
      OBVIOUS
    <3>2. CASE k \in D
      BY <2>1, <2>6, <2>8, <3>2
    <3>3. CASE 1 <= from /\ from < to /\ k \in from - 1 .. min(to, Total + 1) - 2
      <4>1. CASE k + 1 <= min(to, Total + 1) - 2
        BY <2>1, <2>5, <3>3, <4>1 DEF min
      <4>2. CASE k = min(to, Total + 1) - 2
        <5>1. CASE to = End
          BY <2>5, <2>6, <3>3, <4>2, <5>1 DEF min
        <5>2. CASE to # End
          BY <2>4, <2>5, <3>3, <4>2, <5>2 DEF min
        <5> QED BY <5>1, <5>2
      <4> QED BY <2>5, <3>3, <4>1, <4>2 DEF min
    <3> QED BY <2>1, <3>2, <3>3
  <2>15. Total + 1 \in cuts /\ p.eofed => G = Total
    <3>1. SUFFICES ASSUME Total + 1 \in cuts, p.eofed PROVE G = Total
      OBVIOUS
    <3>2. CASE re.eofed
      BY <2>1, <2>5, <2>8, <3>1, <3>2
    <3>3. CASE from < to /\ to = End
      <4>1. from = Total + 1
        BY <2>4, <2>5, <3>1, <3>3
      <4> QED BY <2>1, <2>4, <2>5, <3>3, <4>1
    <3> QED BY <2>6, <3>1, <3>2, <3>3
  <2>16. G + 1 \in cuts \/ e2
    <3>1. CASE G = F
      BY <2>1, <2>8, <3>1
    <3>2. CASE G > F
      <4>1. G - 1 \in F .. G - 1 /\ (G - 1) + 1 = G /\ (G - 1) + 2 = G + 1
        BY <2>5, <3>2
      <4>2. G - 1 \in D2
        BY <2>1, <4>1
      <4>3. G \in D2 \/ G + 1 \in cuts \/ (G = Total /\ p.eofed)
        BY <2>14, <4>1, <4>2
      <4> QED BY <2>6, <2>7, <4>3
    <3> QED BY <2>1, <2>5, <3>1, <3>2
  <2>17. cp = G + 1 + One(e2)
    <3>1. CASE (from = 0 \/ from = old) /\ to < G + 1
      BY <2>10, <3>1
    <3>2. CASE (from = 0 \/ from = old) /\ ~ (to < G + 1)
      <4>1. cp = to
        BY <2>10, <3>2
      <4>2. CASE ~ e2
        BY <2>5, <2>11, <2>13, <3>2, <4>1, <4>2
      <4>3. CASE e2
        <5>1. G = Total /\ p.eofed /\ to <= Total + 2 /\ to >= Total + 1
          BY <2>5, <2>6, <2>11, <2>13, <3>2, <4>1, <4>3
        <5>2. ASSUME to = Total + 1 PROVE FALSE
          <6>1. from > 0 /\ from = old
            BY <2>3, <2>5, <3>2, <5>2
          <6>2. re.eofed
            BY <2>5, <2>6, <5>1, <5>2
          <6>3. old = F + 1 + One(e)
            BY <2>9, <6>1
          <6>4. CASE from < to
            <7>1. F = Total
              BY <2>4, <2>8, <5>2, <6>2, <6>4
            <7> QED BY <2>5, <2>6, <2>13, <5>2, <6>1, <6>2, <6>3, <6>4, <7>1
          <6>5. CASE from = to
            BY <2>5, <2>6, <2>13, <5>2, <6>1, <6>2, <6>3, <6>5
          <6> QED BY <2>3, <2>5, <6>4, <6>5
        <5> QED BY <2>5, <2>13, <4>1, <4>3, <5>1, <5>2
      <4> QED BY <2>5, <4>2, <4>3
    <3>3. CASE from # 0 /\ from # old
      <4>1. cp = F + 1 + One(e) /\ old = F + 1 + One(e) /\ from > 0
        BY <2>5, <2>9, <2>10, <3>3
      <4>2. F \notin D2
        <5>1. SUFFICES ASSUME F \in D2 PROVE FALSE
          OBVIOUS
        <5>2. from < to /\ from - 1 <= F /\ F <= min(to, Total + 1) - 2
          BY <2>1, <2>5, <2>7, <5>1 DEF min
        <5>3. F < Total /\ F + 1 < to
          BY <2>5, <5>2 DEF min
        <5>4. ~ e /\ F + 1 \in cuts
          BY <2>5, <2>6, <2>8, <5>3
        <5>5. from < F + 1
          BY <2>5, <2>13, <3>3, <4>1, <5>2, <5>4
        <5> QED BY <2>4, <5>2, <5>3, <5>4, <5>5
      <4>3. G = F
        <5>1. SUFFICES ASSUME G > F PROVE FALSE
          BY <2>1, <2>5
        <5>2. F \in F .. G - 1
          BY <2>5, <5>1
        <5> QED BY <2>1, <4>2, <5>2
      <4>4. e2 = e
        <5>1. SUFFICES ASSUME e2, ~ e PROVE FALSE
          BY <2>1, <2>5
        <5>2. F = Total /\ from < to /\ to = End
          BY <2>6, <4>3, <5>1
        <5>3. Total + 1 \in cuts /\ old = Total + 1
          BY <2>8, <2>13, <2>5, <4>1, <5>1, <5>2
        <5>4. from < Total + 1
          BY <2>5, <3>3, <5>2, <5>3
        <5> QED BY <2>4, <2>5, <5>2, <5>3, <5>4
      <4> QED BY <4>1, <4>3, <4>4
    <3> QED BY <3>1, <3>2, <3>3
  <2>18. Whole(p, cuts)
    BY <2>14 DEF Whole, D2
  <2> QED BY <2>12, <2>15, <2>16, <2>17, <2>18 DEF Alignment, left, G, e2
<1> QED BY <1>2, <1>3, DeliverIs

\* Reading moves neither the ackno nor what is stored.
LEMMA PopIInv ==
  ASSUME IInv, NEW len \in 1 .. Capacity, Pop(len)
  PROVE  IInv' /\ Grows(receiver, receiver')
<1> DEFINE p == ReadOut(re, len)
<1>1. /\ isn' = isn /\ aligned' = aligned /\ cuts' = cuts
      /\ receiver' = [receiver EXCEPT !.reassembler = ReadOut(receiver.reassembler, len)]
  BY DEF Pop, ReadOut
<1>2. Honest(receiver, isn) /\ len \in Nat
  BY StreamFits DEF IInv
<1>3. /\ DOMAIN receiver' = DOMAIN FreshReceiver
      /\ receiver'.reassembler = p
      /\ receiver'.ended = receiver.ended /\ receiver'.is_set = receiver.is_set
      /\ receiver'.isn = receiver.isn /\ receiver'.checkpoint = receiver.checkpoint
  BY <1>1, <1>2 DEF Honest, FreshReceiver, re
<1>4. /\ DOMAIN p = DOMAIN EmptyReassembler /\ Assembling(p, Total, Capacity)
      /\ p.eofed = re.eofed /\ p.output.ended = re.output.ended
      /\ p.first_unassembled = re.first_unassembled
      /\ p.first_unacceptable = re.first_unacceptable
      /\ bytes_written(p.output) = bytes_written(re.output)
      /\ bytes_read(re.output) <= bytes_read(p.output)
  <2>1. DOMAIN re = DOMAIN EmptyReassembler /\ Assembling(re, Total, Capacity)
    BY <1>2 DEF Honest, re
  <2> HIDE DEF re
  <2> QED BY ONLY <1>2, <2>1, StreamFits, PopKeeps, Zenon DEF p
<1>5. p.buffer = re.buffer
  BY <1>2 DEF ReadOut, Honest, EmptyReassembler, re
<1> HIDE DEF p
<1>6. Honest(receiver', isn')
  BY <1>1, <1>2, <1>3, <1>4 DEF Honest, EndIsKnown, left, re
<1>7. Alignment(receiver, cuts) => Alignment(receiver', cuts')
  BY <1>1, <1>3, <1>4, <1>5 DEF Alignment, Whole, left, re
<1>8. Grows(receiver, receiver')
  BY <1>3, <1>4 DEF Grows, re
<1> QED BY <1>1, <1>6, <1>7, <1>8 DEF IInv

LEMMA InitIInv == Init => IInv
<1> SUFFICES ASSUME Init PROVE IInv
  OBVIOUS
<1> DEFINE r == EmptyReassembler
<1>1. /\ receiver = FreshReceiver /\ receiver.reassembler = r
      /\ receiver.ended = FALSE /\ receiver.is_set = FALSE /\ receiver.checkpoint = 0
  BY DEF Init, FreshReceiver
<1>2. /\ r.eofed = FALSE /\ r.first_unassembled = 0 /\ DOMAIN r.buffer = {}
  BY DEF EmptyReassembler
<1>3. Assembling(r, Total, Capacity) /\ EndIsKnown(r, Total)
  BY StreamFits, EmptyAssembles
<1>4. isn \in WrappingInt32
  BY ReceiverAssumption DEF Init
<1>5. {0, 1, End} \subseteq cuts
  BY DEF Init, Cuts
<1> HIDE DEF r
<1>6. Honest(receiver, isn)
  <2>1. DOMAIN receiver.reassembler = DOMAIN EmptyReassembler
    BY <1>1 DEF r
  <2>2. /\ receiver.is_set \in BOOLEAN /\ ~ receiver.is_set
        /\ receiver.ended = receiver.reassembler.eofed
    BY <1>1, <1>2, Zenon
  <2>3. receiver.checkpoint \in 0 .. End
    BY <1>1, StreamFits
  <2> QED BY <1>1, <1>3, <2>1, <2>2, <2>3 DEF Honest
<1>7. Alignment(receiver, cuts)
  BY <1>1, <1>2, <1>5 DEF Alignment, Whole
<1> QED BY <1>4, <1>5, <1>6, <1>7 DEF IInv

LEMMA StepKeeps ==
  ASSUME ~ Probe
  PROVE  IInv /\ [Next]_vars => IInv' /\ Grows(receiver, receiver')
<1> SUFFICES ASSUME IInv, [Next]_vars PROVE IInv' /\ Grows(receiver, receiver')
  OBVIOUS
<1>1. ASSUME NEW from \in 0 .. End, NEW to \in 0 .. End, Deliver(from, to)
      PROVE  IInv' /\ Grows(receiver, receiver')
  <2>1. isn' = isn /\ aligned' = aligned /\ cuts' = cuts
    BY <1>1 DEF Deliver
  <2>2. Honest(receiver', isn) /\ Grows(receiver, receiver')
    BY <1>1, DeliverHonest
  <2>3. aligned /\ Total > 0 => Alignment(receiver', cuts)
    BY <1>1, DeliverAligned
  <2> QED BY <2>1, <2>2, <2>3 DEF IInv
<1>2. ASSUME NEW len \in 1 .. Capacity, Pop(len) PROVE IInv' /\ Grows(receiver, receiver')
  BY <1>2, PopIInv
<1>3. CASE UNCHANGED vars
  <2>1. bytes_read(re.output) \in Nat
    BY ReassemblerRange DEF IInv, Honest, re
  <2> QED BY <1>3, <2>1 DEF vars, IInv, Grows, re
<1> QED BY <1>1, <1>2, <1>3 DEF Next

\* The right edge of the window in terms of what has been read
LEMMA EdgeIs ==
  IInv /\ aligned /\ Total > 0 /\ receiver.is_set =>
    /\ receiver.checkpoint + window_size(receiver, Capacity)
         = bytes_read(re.output) + 1 + One(re.output.ended) + Capacity
    /\ bytes_read(re.output) \in Nat
<1> SUFFICES ASSUME IInv, aligned, Total > 0, receiver.is_set
             PROVE  /\ receiver.checkpoint + window_size(receiver, Capacity)
                         = bytes_read(re.output) + 1 + One(re.output.ended) + Capacity
                    /\ bytes_read(re.output) \in Nat
  OBVIOUS
<1> DEFINE n == Len(re.output.buffer)
           o == One(re.output.ended)
<1>1. receiver.checkpoint = re.first_unassembled + 1 + o
  BY DEF IInv, Alignment, left, re
<1>2. Assembling(re, Total, Capacity) /\ EndIsKnown(re, Total)
  BY DEF IInv, Honest, re
<1>3. re.output.buffer \in Seq(Nat) /\ re.output.popped \in Nat
  BY <1>2 DEF Assembling, IsOutput
<1>4. n \in Nat
  BY <1>3
<1>5. bytes_written(re.output) = re.first_unassembled /\ re.first_unassembled \in Nat
  BY <1>2 DEF Assembling, EndIsKnown
<1>6. bytes_written(re.output) = re.output.popped + n
  BY DEF bytes_written
<1>7. window_size(receiver, Capacity) = Capacity - n /\ bytes_read(re.output) = re.output.popped
  BY DEF window_size, buffer_size, bytes_read, re
<1>8. o \in Nat
  BY DEF One
<1> HIDE DEF n, o
<1>9. receiver.checkpoint + window_size(receiver, Capacity) = re.output.popped + 1 + o + Capacity
  <2>1. re.output.popped \in Nat
    BY <1>3
  <2> QED BY <1>1, <1>4, <1>5, <1>6, <1>7, <1>8, <2>1, StreamFits
<1> QED BY <1>3, <1>7, <1>9 DEF o

\* A peer that respects the window never sees an acknowledgment of a byte that is
\* not stored, however it cuts and repeats its segments: for every stream,
\* capacity, modulus and initial sequence number.
THEOREM HonestAcks == ASSUME ~ Probe PROVE Spec => []AckIsHonest
<1>1. IInv => AckIsHonest
  BY DEF IInv, Honest, AckIsHonest, FirstMissing, re
<1>2. IInv /\ [Next]_vars => IInv'
  BY StepKeeps
<1> QED BY <1>1, <1>2, InitIInv, PTL DEF Spec

\* With a peer that repeats its segments as it first cut them the ackno always is
\* the first number that has not arrived, whatever the order of arrival.
THEOREM AlignedAcks == ASSUME ~ Probe PROVE Spec => []AlignedAckIsFirstMissing
<1>1. IInv => AlignedAckIsFirstMissing
  BY DEF IInv, Alignment, AlignedAckIsFirstMissing, AckIsFirstMissing, FirstMissing, re
<1>2. IInv /\ [Next]_vars => IInv'
  BY StepKeeps
<1> QED BY <1>1, <1>2, InitIInv, PTL DEF Spec

\* The window advertised to such a peer never takes back what it once allowed.
THEOREM WindowKept == ASSUME ~ Probe PROVE Spec => WindowNeverShrinks
<1> DEFINE Kept == aligned /\ Total > 0 /\ receiver.is_set =>
                     receiver'.checkpoint + window_size(receiver', Capacity)
                       >= receiver.checkpoint + window_size(receiver, Capacity)
<1>1. IInv /\ [Next]_vars => IInv'
  BY StepKeeps
<1>2. ASSUME IInv, [Next]_vars PROVE Kept
  <2>1. SUFFICES ASSUME aligned, Total > 0, receiver.is_set
                 PROVE  receiver'.checkpoint + window_size(receiver', Capacity)
                          >= receiver.checkpoint + window_size(receiver, Capacity)
    OBVIOUS
  <2>2. IInv' /\ Grows(receiver, receiver')
    BY <1>2, StepKeeps
  <2>3. aligned' = aligned
    BY <1>2 DEF Next, Deliver, Pop, vars
  <2>4. /\ receiver.checkpoint + window_size(receiver, Capacity)
             = bytes_read(re.output) + 1 + One(re.output.ended) + Capacity
        /\ bytes_read(re.output) \in Nat
    BY <1>2, <2>1, EdgeIs
  <2>5. receiver'.is_set /\ aligned'
    BY <2>1, <2>2, <2>3 DEF Grows
  <2>6. /\ receiver'.checkpoint + window_size(receiver', Capacity)
             = bytes_read(re'.output) + 1 + One(re'.output.ended) + Capacity
        /\ bytes_read(re'.output) \in Nat
    <3>1. (IInv /\ aligned /\ Total > 0 /\ receiver.is_set =>
             /\ receiver.checkpoint + window_size(receiver, Capacity)
                  = bytes_read(re.output) + 1 + One(re.output.ended) + Capacity
             /\ bytes_read(re.output) \in Nat)'
      BY EdgeIs, PTL
    <3> QED BY <2>1, <2>2, <2>5, <3>1 DEF window_size, bytes_read, buffer_size, One
  <2>7. /\ bytes_read(re.output) <= bytes_read(re'.output)
        /\ re.output.ended => re'.output.ended
    BY <2>2 DEF Grows, re
  <2>8. One(re.output.ended) \in Nat /\ One(re'.output.ended) \in Nat
        /\ One(re.output.ended) <= One(re'.output.ended)
    BY <2>7 DEF One
  <2> QED BY <2>4, <2>6, <2>7, <2>8, StreamFits
<1>3. IInv /\ [Next]_vars => [Kept]_vars
  BY <1>2
<1> QED BY <1>1, <1>3, InitIInv, PTL DEF Spec, WindowNeverShrinks
-----------------------------------------------------------------------------
\* A product is at least as large as its factor, or zero.
LEMMA Multiple ==
  ASSUME NEW N \in Nat, N > 0, NEW k \in Int
  PROVE  /\ k * N \in Int
         /\ k >= 1 => k * N >= N
         /\ k <= -1 => k * N <= -N
         /\ k >= 2 => k * N >= 2 * N
         /\ k <= -2 => k * N <= -(2 * N)
<1>1. k * N \in Int
  OBVIOUS
<1>2. ASSUME NEW j \in Int, k >= j PROVE k * N >= j * N
  <2>1. (k - j) * N >= 0
    BY <1>2
  <2> QED BY <2>1
<1>3. ASSUME NEW j \in Int, k <= j PROVE k * N <= j * N
  <2>1. (j - k) * N >= 0
    BY <1>3
  <2> QED BY <2>1
<1>4. k >= 1 => k * N >= 1 * N
  BY <1>2
<1>5. k >= 2 => k * N >= 2 * N
  BY <1>2
<1>6. k <= -1 => k * N <= (-1) * N
  BY <1>3
<1>7. k <= -2 => k * N <= (-2) * N
  BY <1>3
<1> QED BY <1>1, <1>4, <1>5, <1>6, <1>7

\* A number is its quotient times the divisor and the remainder.
LEMMA Quotient ==
  ASSUME NEW N \in Nat, N > 0, NEW a \in Int
  PROVE  a \div N \in Int /\ a = (a \div N) * N + (a % N)
OBVIOUS

\* Quotient and remainder are unique.
LEMMA ModUnique ==
  ASSUME NEW N \in Nat, N > 0, NEW k \in Int, NEW r \in 0 .. N - 1
  PROVE  (r + k * N) % N = r
<1> DEFINE a == r + k * N
           q == a \div N
           s == a % N
<1>1. a \in Int /\ q \in Int /\ s \in 0 .. N - 1 /\ a = q * N + s
  OBVIOUS
<1> HIDE DEF q, s
<1>2. (q - k) * N = r - s /\ q - k \in Int
  BY <1>1
<1> DEFINE j == q - k
<1> HIDE DEF j
<1>3. j \in Int /\ j * N = r - s
  BY <1>2 DEF j
<1>4. j = 0
  BY <1>1, <1>3, Multiple
<1>5. r = s
  BY <1>1, <1>3, <1>4
<1> QED BY <1>5 DEF s

\* The numbers that wrap to n are those that lie whole blocks from the distance of
\* n from the ISN.
LEMMA WrapsTo ==
  ASSUME NEW n \in WrappingInt32, NEW zero \in WrappingInt32, NEW x \in Int
  PROVE  wrap(x, zero) = n <=> \E j \in Int : x = ((n - zero) % Mod) + j * Mod
<1> DEFINE d == (n - zero) % Mod
<1>1. d \in 0 .. Mod - 1 /\ (d + zero = n \/ d + zero = n + Mod)
  <2>1. CASE n >= zero
    BY <2>1, HalfBelowMod, ModSmall DEF WrappingInt32
  <2>2. CASE n < zero
    BY <2>2, HalfBelowMod, ModBelow DEF WrappingInt32
  <2> QED BY <2>1, <2>2 DEF WrappingInt32
<1> HIDE DEF d
<1>2. ASSUME NEW j \in Int, x = d + j * Mod PROVE wrap(x, zero) = n
  <2>1. PICK i \in Int : x + zero = n + i * Mod
    <3>1. CASE d + zero = n
      BY <1>1, <1>2, <3>1, HalfBelowMod DEF WrappingInt32
    <3>2. CASE d + zero = n + Mod
      <4>1. x + zero = n + (j + 1) * Mod
        BY <1>1, <1>2, <3>2, HalfBelowMod DEF WrappingInt32
      <4> QED BY <4>1
    <3> QED BY <1>1, <3>1, <3>2
  <2>2. (n + i * Mod) % Mod = n
    BY HalfBelowMod, ModUnique DEF WrappingInt32
  <2> QED BY <2>1, <2>2 DEF wrap
<1>3. ASSUME wrap(x, zero) = n PROVE \E j \in Int : x = d + j * Mod
  <2> DEFINE w == x + zero
             q == w \div Mod
  <2>1. q \in Int /\ x + zero = n + q * Mod
    <3>1. w \in Int
      BY DEF WrappingInt32
    <3>2. w % Mod = n
      BY <1>3 DEF wrap
    <3> HIDE DEF w
    <3>3. q \in Int /\ w = q * Mod + (w % Mod)
      BY <3>1, HalfBelowMod, Quotient
    <3> HIDE DEF q
    <3>4. w = n + q * Mod
      BY <3>1, <3>2, <3>3, HalfBelowMod DEF WrappingInt32
    <3> QED BY <3>3, <3>4 DEF w
  <2> HIDE DEF q
  <2>2. CASE d + zero = n
    BY <1>1, <2>1, <2>2, HalfBelowMod DEF WrappingInt32
  <2>3. CASE d + zero = n + Mod
    <3>1. x = d + (q - 1) * Mod
      BY <1>1, <2>1, <2>3, HalfBelowMod DEF WrappingInt32
    <3> QED BY <2>1, <3>1
  <2> QED BY <1>1, <2>2, <2>3
<1> QED BY <1>2, <1>3 DEF d

\* The properties of wrap(), unwrap() and operator-, of any number, initial number
\* and checkpoint
Numbers(n, zero, checkpoint) == INSTANCE MCWrappingIntegers WITH isn <- zero

\* For every modulus, pair of numbers and direction: operator- gives the shorter
\* way from one number to the other, and adding it leads there.
THEOREM ShortestDifference ==
  ASSUME NEW n \in WrappingInt32, NEW zero \in WrappingInt32, NEW checkpoint \in UInt64
  PROVE  Numbers(n, zero, checkpoint)!DifferenceIsShortest
<1> DEFINE u == (n - zero) % Mod
           v == (zero - n) % Mod
           d == IF u >= Half THEN u - Mod ELSE u
<1>1. Mod = 2 * Half /\ Half \in Nat /\ Half > 0 /\ n \in 0 .. Mod - 1 /\ zero \in 0 .. Mod - 1
  BY ModAssumption DEF Half, WrappingInt32
<1>2. /\ n >= zero => u = n - zero /\ (v = zero - n + Mod \/ (n = zero /\ v = 0))
      /\ n < zero => u = n - zero + Mod /\ v = zero - n
  BY <1>1, ModSmall, ModBelow
<1> HIDE DEF u, v
<1>3. (zero + d) % Mod = n
  <2>1. zero + d = n \/ zero + d = n - Mod \/ zero + d = n + Mod
    BY <1>1, <1>2
  <2>2. n % Mod = n /\ (n - Mod) % Mod = n /\ (n + Mod) % Mod = n
    BY <1>1, ModSmall, ModBelow, ModTurn
  <2> HIDE DEF d
  <2> QED BY <2>1, <2>2
<1>4. (IF d >= 0 THEN d - 0 ELSE 0 - d) <= Half
  BY <1>1, <1>2
<1>5. d < 0 <=> u >= v /\ n # zero
  BY <1>1, <1>2
<1>6. Numbers(n, zero, checkpoint)!DifferenceIsShortest <=>
        /\ (zero + d) % Mod = n
        /\ (IF d >= 0 THEN d - 0 ELSE 0 - d) <= Half
        /\ d < 0 <=> u >= v /\ n # zero
  BY Zenon DEF Numbers!DifferenceIsShortest, Numbers!difference, Numbers!plus, Numbers!Apart,
         Numbers!Half, Half, u, v
<1> QED BY ONLY <1>3, <1>4, <1>5, <1>6, Zenon

\* Of the numbers whole blocks apart, unwrap() takes the one closest to the
\* checkpoint, as far as the range of 64 bits and the second block allow.
NoFarther(x, y, z) == (IF x >= z THEN x - z ELSE z - x) <= (IF y >= z THEN y - z ELSE z - y)

LEMMA ClosestBlock ==
  ASSUME NEW d \in 0 .. Mod - 1, NEW low \in 0 .. Mod - 1, NEW high \in 0 .. Mod - 1, high # 1,
         NEW P \in Int, P = high * Mod, NEW r \in Int,
         r = IF d < low /\ low - d > Half /\ high < Mod - 1 THEN d + P + Mod
             ELSE IF d >= low /\ d - low > Half /\ high > 1 THEN d + P - Mod ELSE d + P,
         NEW cp, cp = P + low,
         NEW j \in Int, NEW y \in UInt64, y = d + j * Mod
  PROVE  NoFarther(r, y, cp)
<1>1. Mod = 2 * Half /\ Half \in Nat /\ Half > 0 /\ Mod \in Nat
  BY ModAssumption DEF Half
<1> DEFINE t == j - high
           T == t * Mod
<1>2. t \in Int /\ y = d + P + T /\ T \in Int
  BY <1>1
<1>3. /\ t = 0 => T = 0
      /\ t = 1 => T = Mod
      /\ t = -1 => T = -Mod
      /\ t >= 2 => T >= 2 * Mod
      /\ t <= -2 => T <= -(2 * Mod)
  BY <1>1, <1>2, Multiple
<1>4. j * Mod >= 0 /\ j <= Mod - 1
  <2>1. d + j * Mod >= 0 /\ d + j * Mod < Mod * Mod
    BY <1>1 DEF UInt64
  <2>2. j >= 0
    BY <1>1, <2>1, Multiple
  <2>3. (j - Mod) * Mod < 0
    BY <1>1, <2>1
  <2>4. j - Mod <= -1
    BY <1>1, <2>3, Multiple
  <2> QED BY <1>1, <2>2, <2>4
<1>5. j >= 0
  BY <1>1, <1>4, Multiple
<1>6. high = 0 => t >= 0
  BY <1>5
<1>7. high = Mod - 1 => t <= 0
  BY <1>1, <1>4
<1> HIDE DEF T, t
<1> QED BY <1>1, <1>2, <1>3, <1>6, <1>7 DEF NoFarther

\* For every modulus, number, initial number and checkpoint: unwrap() finds a number
\* that wraps back to the one it was given, less than a block from the checkpoint,
\* and unless the checkpoint is in the second block it is the closest of all.
THEOREM ClosestUnwrap ==
  ASSUME NEW n \in WrappingInt32, NEW zero \in WrappingInt32, NEW checkpoint \in UInt64
  PROVE  Numbers(n, zero, checkpoint)!UnwrapIsClosest
<1> DEFINE d    == (n - zero) % Mod
           high == checkpoint \div Mod
           low  == checkpoint % Mod
           P    == high * Mod
           out  == d + P
           r    == IF out < checkpoint /\ checkpoint - out > Half /\ high < Mod - 1 THEN out + Mod
                   ELSE IF out >= checkpoint /\ out - checkpoint > Half /\ high > 1 THEN out - Mod
                   ELSE out
           apart(x, y) == IF x >= y THEN x - y ELSE y - x
<1>1. Mod = 2 * Half /\ Half \in Nat /\ Half > 0 /\ Mod \in Nat /\ Mod > 1
  BY ModAssumption DEF Half
<1>2. d \in 0 .. Mod - 1
  BY <1>1, ModRange DEF WrappingInt32
<1>3. /\ high \in 0 .. Mod - 1 /\ low \in 0 .. Mod - 1
      /\ P \in Int /\ P = high * Mod /\ checkpoint = P + low
  <2>1. checkpoint \in Int /\ 0 <= checkpoint /\ checkpoint < Mod * Mod
    BY <1>1 DEF UInt64
  <2>2. high \in Int /\ checkpoint = high * Mod + low
    BY <1>1, <2>1, Quotient
  <2>3. low \in 0 .. Mod - 1
    BY <1>1, <2>1, ModRange
  <2> HIDE DEF high, low
  <2>4. high * Mod > 0 - Mod /\ (high - Mod) * Mod < 0 /\ high - Mod \in Int
    BY <1>1, <2>1, <2>2, <2>3
  <2>5. high >= 0
    BY <1>1, <2>2, <2>4, Multiple
  <2>6. high - Mod <= -1
    BY <1>1, <2>4, Multiple
  <2> QED BY <1>1, <2>2, <2>3, <2>5, <2>6
<1>4. unwrap(n, zero, checkpoint) = r
  BY Zenon DEF unwrap
<1> HIDE DEF d, high, low, P
<1>5. /\ r \in Int
      /\ r = IF d < low /\ low - d > Half /\ high < Mod - 1 THEN d + P + Mod
             ELSE IF d >= low /\ d - low > Half /\ high > 1 THEN d + P - Mod ELSE d + P
  BY <1>1, <1>2, <1>3
<1> HIDE DEF r
<1>6. wrap(r, zero) = n
  <2>1. \E j \in Int : r = d + j * Mod
    <3>1. d + P + Mod = d + (high + 1) * Mod /\ d + P - Mod = d + (high - 1) * Mod
      BY <1>1, <1>2, <1>3
    <3>2. high \in Int /\ high + 1 \in Int /\ high - 1 \in Int
      BY <1>1, <1>3
    <3> QED BY <1>3, <1>5, <3>1, <3>2
  <2> QED BY <1>5, <2>1, WrapsTo DEF d
<1>7. apart(r, checkpoint) < Mod
  BY <1>1, <1>2, <1>3, <1>5
<1>8. r \in UInt64
  <2>1. /\ high < Mod - 1 => P + Mod <= (Mod - 1) * Mod
        /\ P <= (Mod - 1) * Mod
        /\ P >= 0
        /\ high > 1 => P >= Mod
    <3>1. (Mod - 1 - high) * Mod >= 0 /\ (high < Mod - 1 => (Mod - 1 - high) * Mod >= Mod)
      BY <1>1, <1>3, Multiple
    <3>2. (Mod - 1 - high) * Mod = (Mod - 1) * Mod - P
      BY <1>1, <1>3
    <3>3. P >= 0 /\ (high > 1 => P >= Mod)
      BY <1>1, <1>3, Multiple
    <3> QED BY <1>1, <1>3, <3>1, <3>2, <3>3
  <2>2. (Mod - 1) * Mod = Mod * Mod - Mod
    BY <1>1
  <2> QED BY <1>1, <1>2, <1>3, <1>5, <2>1, <2>2 DEF UInt64
<1>9. ASSUME high # 1, NEW y \in UInt64, wrap(y, zero) = n
      PROVE  apart(r, checkpoint) <= apart(y, checkpoint)
  <2>1. y \in Int
    BY <1>1 DEF UInt64
  <2>2. PICK j \in Int : y = d + j * Mod
    BY <1>9, <2>1, WrapsTo DEF d
  <2>3. NoFarther(r, y, checkpoint)
    BY ONLY <1>2, <1>3, <1>5, <1>9, <2>2, ClosestBlock, Zenon
  <2> QED BY <2>3, Zenon DEF NoFarther
<1>10. Numbers(n, zero, checkpoint)!UnwrapIsClosest <=>
         /\ wrap(r, zero) = n
         /\ apart(r, checkpoint) < Mod
         /\ high # 1 => /\ r \in UInt64 /\ wrap(r, zero) = n
                        /\ \A y \in UInt64 : wrap(y, zero) = n =>
                             apart(r, checkpoint) <= apart(y, checkpoint)
  <2>1. Numbers(n, zero, checkpoint)!Result = r
    BY <1>4, Zenon DEF Numbers!Result, Numbers!unwrap, unwrap, Numbers!Half, Half
  <2> QED BY <2>1, Zenon DEF Numbers!UnwrapIsClosest, Numbers!Closest, Numbers!Apart, Numbers!wrap,
             Numbers!UInt64, wrap, UInt64, high
<1> HIDE DEF apart
<1> QED BY ONLY <1>6, <1>7, <1>8, <1>9, <1>10, Zenon
=============================================================================
