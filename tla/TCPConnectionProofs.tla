------------------------- MODULE TCPConnectionProofs ------------------------
(***************************************************************************)
(* Two TCPConnections over a network that loses, repeats and reorders: for *)
(* every modulus, capacity, payload size, timeout and pair of streams, an  *)
(* application reads a prefix of what the other wrote.                     *)
(***************************************************************************)
EXTENDS TCPConnection, OperatorLemmas

\* What the sender made of a segment on the wire
Data(seg) == [seqno |-> seg.seqno, syn |-> seg.syn, fin |-> seg.fin, payload |-> seg.payload]

WireSegments ==
  [seqno : WrappingInt32, syn : BOOLEAN, fin : BOOLEAN, payload : Seq(Nat),
   ack : BOOLEAN, ackno : WrappingInt32, win : Nat, rst : BOOLEAN]

\* An acknowledgment of nothing does not open the window.
Grants(number, win, isn2) ==
  number \in WrappingInt32 /\ win \in Nat /\ ((number - isn2) % Mod # 0 \/ win <= 1)

\* A segment of the stream q, from the end whose numbers begin at isn to the one
\* whose numbers begin at isn2
Wired(seg, isn, q, isn2) ==
  /\ seg \in WireSegments
  /\ HonestSegment(Data(seg), isn, q)
  /\ Grants(seg.ackno, seg.win, isn2)

Posted(out, isn, q, isn2) ==
  out \in Seq(WireSegments) /\ \A i \in 1 .. Len(out) : Wired(out[i], isn, q, isn2)

\* A receiver of a stream of T bytes whose numbers begin at isn.  The ackno is
\* never the SYN's own number.
Receiving(rc, isn, T) ==
  /\ DOMAIN rc = DOMAIN FreshReceiver
  /\ rc.is_set \in BOOLEAN /\ rc.checkpoint \in 0 .. T + 2
  /\ DOMAIN rc.reassembler = DOMAIN EmptyReassembler
  /\ Assembling(rc.reassembler, T, RecvCapacity)
  /\ rc.is_set => rc.isn = isn /\ rc.checkpoint > 0

\* A connection whose application writes M bytes at most, of a peer that has
\* written T so far
Endpoint(c, e, M, T) ==
  /\ DOMAIN c = DOMAIN FreshConnection(0)
  /\ Sending(c.sender, ISN[e], M)
  /\ Receiving(c.receiver, ISN[Peer(e)], T)
  /\ Posted(c.segments_out, ISN[e], c.sender.stream, ISN[Peer(e)])

-----------------------------------------------------------------------------
\* A peer that goes on writing leaves what has been received as it is.
LEMMA ReceivingGrows ==
  ASSUME NEW rc, NEW isn, NEW T \in Nat, NEW U \in Nat, T <= U, Receiving(rc, isn, T)
  PROVE  Receiving(rc, isn, U)
<1>1. rc.checkpoint \in 0 .. U + 2
  BY DEF Receiving
<1>2. Assembling(rc.reassembler, U, RecvCapacity)
  BY DEF Receiving, Assembling
<1> QED BY <1>1, <1>2 DEF Receiving

\* Numbers that are equal to the modulus are equal.
LEMMA SameNumber ==
  ASSUME NEW x \in WrappingInt32, NEW y \in WrappingInt32, (x - y) % Mod = 0
  PROVE  x = y
<1>1. Mod \in Nat /\ Mod > 0 /\ x \in 0 .. Mod - 1 /\ y \in 0 .. Mod - 1
  BY HalfBelowMod DEF WrappingInt32
<1>2. CASE x >= y
  <2>1. (x - y) \in 0 .. Mod - 1
    BY <1>1, <1>2
  <2>2. (x - y) % Mod = x - y
    BY <1>1, <2>1, ModSmall
  <2> QED BY <1>1, <2>2
<1>3. CASE x < y
  <2>1. (x - y) \in (0 - Mod) .. (0 - 1)
    BY <1>1, <1>3
  <2>2. (x - y) % Mod = x - y + Mod
    BY <1>1, <2>1, ModBelow
  <2> QED BY <1>1, <2>2
<1> QED BY <1>1, <1>2, <1>3

\* What an honest segment says of the stream: its payload is a substring of it at
\* the index that the receiver computes.
LEMMA PayloadFits ==
  ASSUME NEW isn \in WrappingInt32, NEW T \in Nat, T + 2 <= Half,
         NEW seg, NEW q, bytes_written(q) = T, HonestSegment(Data(seg), isn, q)
  PROVE  LET from == (seg.seqno - isn) % Mod
             len  == length_in_sequence_space(seg)
         IN  /\ seg.seqno \in WrappingInt32 /\ seg.syn \in BOOLEAN /\ seg.fin \in BOOLEAN
             /\ from \in Nat /\ len \in Nat
             /\ IsSubstring(seg.payload, stream_index(from, seg.syn), T)
             /\ seg.syn => seg.seqno = isn /\ from = 0 /\ len > 0
             /\ len > 0 => from + len <= T + 2
<1> DEFINE from == (seg.seqno - isn) % Mod
           len == length_in_sequence_space(seg)
           n == Len(seg.payload)
           i == stream_index(from, seg.syn)
<1>1. /\ seg.seqno \in WrappingInt32 /\ seg.syn \in BOOLEAN /\ seg.fin \in BOOLEAN
      /\ seg.payload \in Seq(Nat)
  BY DEF HonestSegment, Data, Segments
<1>2. length_in_sequence_space(Data(seg)) = len
  BY DEF Data, length_in_sequence_space
<1>3. /\ seg.syn <=> from = 0 /\ len > 0
      /\ seg.syn => seg.payload = << >>
      /\ \A k \in 1 .. n : seg.payload[k] = from + k - 2
      /\ n > 0 => from + n <= T + 1
      /\ seg.fin => from + n = T + 1
  BY <1>2 DEF HonestSegment, Data
<1>4. n \in Nat /\ from \in 0 .. Mod - 1
  <2>1. Mod \in Nat /\ Mod > 0 /\ seg.seqno - isn \in Int
    BY <1>1, HalfBelowMod DEF WrappingInt32
  <2> QED BY <1>1, <2>1, LenProperties, ModRange
<1>5. One(seg.syn) \in 0 .. 1 /\ One(seg.fin) \in 0 .. 1 /\ len = One(seg.syn) + n + One(seg.fin)
  BY <1>1, OneRange DEF length_in_sequence_space
<1>6. /\ seg.syn => One(seg.syn) = 1
      /\ ~ seg.syn => One(seg.syn) = 0
      /\ ~ seg.fin => One(seg.fin) = 0
  BY DEF One
<1>7. Mod * Mod \in Nat /\ Mod * Mod > 0 /\ Mod <= Mod * Mod
  BY SquarePositive, HalfBelowMod
<1>8. i = (from - 1 + One(seg.syn)) % (Mod * Mod)
  BY DEF stream_index
<1>9. seg.syn => n = 0 /\ from = 0 /\ len > 0 /\ seg.seqno = isn
  <2>1. seg.syn => n = 0 /\ from = 0 /\ len > 0
    BY <1>3
  <2> QED BY <2>1, <1>1, SameNumber
<1> HIDE DEF from, len, n, i
<1>10. len \in Nat /\ (len > 0 => from + len <= T + 2)
  BY <1>1, <1>3, <1>4, <1>5, <1>6, <1>9
<1>11. i \in Nat
  <2>1. from - 1 + One(seg.syn) \in Int
    BY <1>4, <1>5
  <2> QED BY <2>1, <1>7, <1>8, ModRange
<1>12. n > 0 => i = from - 1
  <2> SUFFICES ASSUME n > 0 PROVE i = from - 1
    OBVIOUS
  <2>1. ~ seg.syn /\ from # 0
    BY <1>3, <1>4, <1>5, <1>9
  <2>2. from - 1 + One(seg.syn) = from - 1 /\ from - 1 \in 0 .. Mod * Mod - 1
    BY <2>1, <1>4, <1>6, <1>7, HalfBelowMod
  <2> QED BY <2>2, <1>7, <1>8, ModSmall
<1>13. IsSubstring(seg.payload, i, T)
  <2>1. n > 0 => i + n <= T
    BY <1>3, <1>4, <1>11, <1>12
  <2>2. ASSUME NEW k \in 1 .. n PROVE seg.payload[k] = i + k - 1
    BY <1>3, <1>4, <1>11, <1>12
  <2> QED BY <1>1, <1>11, <2>1, <2>2 DEF IsSubstring, n
<1> QED BY <1>1, <1>4, <1>9, <1>10, <1>13 DEF from, len, i

\* segment_received() of the receiver, for any segment of the peer: delayed,
\* repeated, out of order or without data
LEMMA ReceiveKeeps ==
  ASSUME NEW isn \in WrappingInt32, NEW T \in Nat, T + 2 <= Half,
         NEW rc, Receiving(rc, isn, T),
         NEW seg, NEW q, bytes_written(q) = T, HonestSegment(Data(seg), isn, q)
  PROVE  LET new == segment_received(rc, RecvCapacity, seg)
         IN  /\ Receiving(new, isn, T)
             /\ rc.is_set \/ seg.syn => new.is_set
<1> DEFINE from == (seg.seqno - isn) % Mod
           len == length_in_sequence_space(seg)
           isn_ == isn_of(rc, seg)
           old == IF seg.syn THEN 0 ELSE rc.checkpoint
           index == unwrap(seg.seqno, isn_, old)
           i == stream_index(index, seg.syn)
           re == push_substring(rc.reassembler, RecvCapacity, seg.payload, i, seg.fin)
           ended_ == rc.ended \/ seg.fin
           cp == acked(len, index, old, re, ended_)
           new == segment_received(rc, RecvCapacity, seg)
<1>1. /\ seg.seqno \in WrappingInt32 /\ seg.syn \in BOOLEAN /\ seg.fin \in BOOLEAN
      /\ from \in Nat /\ len \in Nat
      /\ IsSubstring(seg.payload, stream_index(from, seg.syn), T)
      /\ seg.syn => seg.seqno = isn /\ from = 0 /\ len > 0
      /\ len > 0 => from + len <= T + 2
  BY PayloadFits
<1>2. /\ rc.is_set \in BOOLEAN /\ rc.checkpoint \in 0 .. T + 2
      /\ Assembling(rc.reassembler, T, RecvCapacity)
      /\ rc.is_set => rc.isn = isn /\ rc.checkpoint > 0
  BY DEF Receiving
<1>3. new = IF ~ rc.is_set /\ ~ seg.syn THEN rc
            ELSE [reassembler |-> re, isn |-> isn_, is_set |-> TRUE, ended |-> ended_,
                  checkpoint |-> cp]
  BY Zenon DEF segment_received
<1>4. CASE ~ rc.is_set /\ ~ seg.syn
  BY <1>3, <1>4
<1>5. CASE rc.is_set \/ seg.syn
  <2>1. isn_ = isn
    BY <1>1, <1>2, <1>5 DEF isn_of
  <2>2. old \in 0 .. T + 2 /\ old \in 0 .. Half /\ (~ seg.syn => old > 0)
    BY <1>2, <1>5, HalfBelowMod
  <2>3. index = from
    BY <2>1, <2>2, <1>1, UnwrapFirstBlock
  <2>4. i = stream_index(from, seg.syn)
    BY <2>3
  <2>5. Fits64(T) /\ RecvCapacity \in Nat
    BY SquarePositive, HalfBelowMod, ConfigAssumption DEF Fits64
  <2>6. DOMAIN re = DOMAIN EmptyReassembler /\ Assembling(re, T, RecvCapacity)
    <3>1. re = push_substring(rc.reassembler, RecvCapacity, seg.payload, i, seg.fin)
      OBVIOUS
    <3>2. IsSubstring(seg.payload, i, T)
      BY <2>4, <1>1
    <3> HIDE DEF i, re
    <3>3. PushOutcome(re, rc.reassembler, T, RecvCapacity, seg.payload, i, seg.fin)
      BY <3>1, <3>2, <2>5, <1>1, <1>2, PushKeeps
    <3> QED BY ONLY <3>3, Zenon DEF PushOutcome
  <2> HIDE DEF re, index, isn_, from, len
  <2>7. left(re) \in 0 .. T
    <3>1. /\ re.first_unassembled \in Nat /\ re.first_unacceptable \in Nat
          /\ re.first_unassembled <= re.first_unacceptable /\ re.first_unacceptable <= T
      BY ONLY <2>6 DEF Assembling
    <3>2. re.first_unassembled \in 0 .. T
      BY ONLY <3>1, T \in Nat
    <3> QED BY ONLY <3>2 DEF left
  <2>8. One(ended_ /\ distance(re) = 0) \in 0 .. 1
    BY OneRange, Zenon
  <2>9. cp = IF from = 0 \/ from = old
             THEN IF from + len < left(re) + 1
                  THEN left(re) + 1 + One(ended_ /\ distance(re) = 0)
                  ELSE from + len
             ELSE old
    BY <2>3, Zenon DEF acked
  <2> HIDE DEF cp, old, ended_
  <2>10. cp \in 0 .. T + 2 /\ cp > 0
    BY <1>1, <2>2, <2>7, <2>8, <2>9
  <2>11. new = [reassembler |-> re, isn |-> isn_, is_set |-> TRUE, ended |-> ended_,
                checkpoint |-> cp]
    BY <1>3, <1>5
  <2> HIDE DEF new
  <2> QED BY <2>1, <2>6, <2>10, <2>11 DEF Receiving, FreshReceiver, new
<1> QED BY <1>2, <1>4, <1>5

\* What _add_ack_info() puts into a segment
LEMMA AckInfo ==
  ASSUME NEW isn \in WrappingInt32, NEW T \in Nat, T + 2 <= Half,
         NEW rc, Receiving(rc, isn, T), rc.is_set
  PROVE  Grants(ackno(rc), window_size(rc, RecvCapacity), isn)
<1>1. rc.checkpoint \in 1 .. T + 2 /\ rc.isn = isn
  BY DEF Receiving
<1>2. rc.checkpoint \in 0 .. Mod - 1
  BY <1>1, HalfBelowMod
<1>3. ackno(rc) = wrap(rc.checkpoint, isn)
  BY <1>1 DEF ackno
<1>4. ackno(rc) \in WrappingInt32 /\ (ackno(rc) - isn) % Mod = rc.checkpoint
  BY <1>2, <1>3, WrapBack
<1>5. window_size(rc, RecvCapacity) \in Nat
  <2>1. /\ rc.reassembler.output.buffer \in Seq(Nat)
        /\ Len(rc.reassembler.output.buffer) <= RecvCapacity
    BY DEF Receiving, Assembling, IsOutput
  <2>2. Len(rc.reassembler.output.buffer) \in Nat
    BY <2>1, LenProperties
  <2> QED BY <2>1, <2>2, ConfigAssumption DEF window_size, buffer_size
<1> QED BY <1>1, <1>4, <1>5 DEF Grants

\* The reader of a connection
LEMMA ReadKeeps ==
  ASSUME NEW isn, NEW T \in Nat, NEW rc, Receiving(rc, isn, T), NEW n \in Nat
  PROVE  LET out == pop_output(rc.reassembler.output, n)
             new == [rc EXCEPT !.reassembler.output = out]
         IN  Receiving(new, isn, T)
<1> DEFINE out == pop_output(rc.reassembler.output, n)
           re == [rc.reassembler EXCEPT !.output = out]
           new == [rc EXCEPT !.reassembler.output = out]
<1>1. re = ReadOut(rc.reassembler, n)
  BY DEF ReadOut
<1>2. DOMAIN rc.reassembler = DOMAIN EmptyReassembler /\ Assembling(rc.reassembler, T, RecvCapacity)
  BY DEF Receiving
<1> HIDE DEF re, out
<1>3. DOMAIN re = DOMAIN EmptyReassembler /\ Assembling(re, T, RecvCapacity)
  BY <1>1, <1>2, ConfigAssumption, PopKeeps
<1>4. /\ DOMAIN new = DOMAIN rc /\ new.reassembler = re /\ new.is_set = rc.is_set
      /\ new.checkpoint = rc.checkpoint /\ new.isn = rc.isn
  BY DEF Receiving, FreshReceiver, re
<1> HIDE DEF new
<1>5. Receiving(new, isn, T)
  BY <1>3, <1>4 DEF Receiving
<1> QED BY <1>5 DEF new, out

-----------------------------------------------------------------------------
\* A segment of the sender becomes one on the wire, with an acknowledgment or
\* without.
LEMMA WireKeeps ==
  ASSUME NEW isn, NEW isn2, NEW q, NEW g, HonestSegment(g, isn, q),
         NEW ack \in BOOLEAN, NEW number, NEW win, Grants(number, win, isn2), NEW rst \in BOOLEAN
  PROVE  Wired(WireSegment(g, ack, number, win, rst), isn, q, isn2)
<1> DEFINE w == WireSegment(g, ack, number, win, rst)
<1>1. g \in Segments
  BY DEF HonestSegment
<1>2. w \in WireSegments /\ w.ackno = number /\ w.win = win
  BY <1>1 DEF WireSegment, WireSegments, Segments, Grants
<1>3. Data(w) = g
  BY <1>1 DEF WireSegment, Data, Segments
<1> QED BY <1>2, <1>3 DEF Wired

\* A segment that carries nothing stands for nothing.
LEMMA EmptyIsHonest == ASSUME NEW isn, NEW q PROVE HonestSegment(EmptySegment, isn, q)
<1>1. EmptySegment \in Segments
  BY HalfBelowMod DEF EmptySegment, Segments, WrappingInt32
<1>2. /\ EmptySegment.syn = FALSE /\ EmptySegment.fin = FALSE /\ EmptySegment.payload = << >>
      /\ Len(EmptySegment.payload) = 0
  BY DEF EmptySegment
<1>3. length_in_sequence_space(EmptySegment) = 0
  BY <1>2 DEF length_in_sequence_space, One
<1> QED BY <1>1, <1>2, <1>3 DEF HonestSegment

\* Two streams with the same bytes written and the same end
Same(q, r) == bytes_written(r) = bytes_written(q) /\ r.ended = q.ended

\* What is on its way stays honest while the stream grows.
LEMMA WiredStays ==
  ASSUME NEW isn \in WrappingInt32, NEW isn2, NEW q, NEW r, NEW seg, Wired(seg, isn, q, isn2),
         bytes_written(q) \in Nat, bytes_written(r) \in Nat, bytes_written(q) <= bytes_written(r),
         q.ended => r.ended /\ bytes_written(r) = bytes_written(q)
  PROVE  Wired(seg, isn, r, isn2)
<1>1. HonestSegment(Data(seg), isn, q)
  BY DEF Wired
<1>2. HonestSegment(Data(seg), isn, r)
  BY <1>1, StaysHonest
<1> QED BY <1>2 DEF Wired

\* A queue of such segments, with more of them behind
LEMMA PostedMore ==
  ASSUME NEW isn, NEW isn2, NEW q, NEW out, Posted(out, isn, q, isn2), NEW n \in Nat, NEW f,
         f = [i \in 1 .. n |-> f[i]], \A i \in 1 .. n : Wired(f[i], isn, q, isn2)
  PROVE  Posted(out \o f, isn, q, isn2)
<1>1. f \in Seq(WireSegments) /\ Len(f) = n
  BY DEF Wired
<1>2. out \in Seq(WireSegments) /\ Len(out) \in Nat
  BY LenProperties DEF Posted
<1>3. /\ out \o f \in Seq(WireSegments) /\ Len(out \o f) = Len(out) + n
      /\ \A i \in 1 .. Len(out) + n : (out \o f)[i] = IF i <= Len(out) THEN out[i] ELSE f[i - Len(out)]
  BY <1>1, <1>2, ConcatProperties
<1>4. ASSUME NEW i \in 1 .. Len(out) + n PROVE Wired((out \o f)[i], isn, q, isn2)
  <2>1. CASE i <= Len(out)
    BY <2>1, <1>2, <1>3 DEF Posted
  <2>2. CASE i > Len(out)
    <3>1. i - Len(out) \in 1 .. n
      BY <2>2, <1>2
    <3> QED BY <3>1, <2>2, <1>2, <1>3
  <2> QED BY <2>1, <2>2, <1>2
<1> QED BY <1>3, <1>4 DEF Posted

\* A queue of wired segments stays one when a wired segment is added.
LEMMA PostedOne ==
  ASSUME NEW isn, NEW isn2, NEW q, NEW out, Posted(out, isn, q, isn2),
         NEW seg, Wired(seg, isn, q, isn2)
  PROVE  Posted(Append(out, seg), isn, q, isn2)
<1>1. out \in Seq(WireSegments) /\ Len(out) \in Nat /\ seg \in WireSegments
  BY LenProperties DEF Posted, Wired
<1>2. /\ Append(out, seg) \in Seq(WireSegments) /\ Len(Append(out, seg)) = Len(out) + 1
      /\ \A i \in 1 .. Len(out) : Append(out, seg)[i] = out[i]
      /\ Append(out, seg)[Len(out) + 1] = seg
  BY <1>1, AppendProperties
<1>3. ASSUME NEW i \in 1 .. Len(out) + 1 PROVE Wired(Append(out, seg)[i], isn, q, isn2)
  <2>1. CASE i = Len(out) + 1
    BY <2>1, <1>2
  <2>2. CASE i \in 1 .. Len(out)
    BY <2>2, <1>2 DEF Posted
  <2> QED BY <2>1, <2>2, <1>1
<1> QED BY <1>2, <1>3 DEF Posted

\* A queue stays wired for a stream with the same bytes and the same end.
LEMMA PostedStays ==
  ASSUME NEW isn \in WrappingInt32, NEW isn2, NEW q, NEW r, NEW out, Posted(out, isn, q, isn2),
         Same(q, r), bytes_written(q) \in Nat
  PROVE  Posted(out, isn, r, isn2)
<1>1. ASSUME NEW i \in 1 .. Len(out) PROVE Wired(out[i], isn, r, isn2)
  <2>1. Wired(out[i], isn, q, isn2)
    BY DEF Posted
  <2>2. /\ bytes_written(r) \in Nat /\ bytes_written(q) <= bytes_written(r)
        /\ q.ended => r.ended /\ bytes_written(r) = bytes_written(q)
    BY DEF Same
  <2> QED BY <2>1, <2>2, WiredStays
<1> QED BY <1>1 DEF Posted
-----------------------------------------------------------------------------
\* A connection at work, and what one operation after the other may do to it: the
\* stream keeps its bytes and its end, and the receiver its initial number.
Live(c, e, M, T) == Endpoint(c, e, M, T) /\ ~ c.sender.stream.error

Kept(c, d, e, M, T) ==
  /\ Live(d, e, M, T)
  /\ Same(c.sender.stream, d.sender.stream)
  /\ c.receiver.is_set => d.receiver.is_set

\* The sizes of the streams, as ConnectionAssumption has them
Sizes(e, M, T) == e \in Ends /\ M \in Nat /\ M + 2 <= Half /\ T \in Nat /\ T + 2 <= Half

\* A connection that nothing is done to keeps what it has.
LEMMA KeptSelf == ASSUME NEW c, NEW e, NEW M, NEW T, Live(c, e, M, T) PROVE Kept(c, c, e, M, T)
BY DEF Kept, Same

\* What two calls keep, one after the other keeps.
LEMMA KeptTwice ==
  ASSUME NEW c, NEW d, NEW f, NEW e, NEW M, NEW T, Kept(c, d, e, M, T), Kept(d, f, e, M, T)
  PROVE  Kept(c, f, e, M, T)
BY DEF Kept, Same

\* The numbers of the two ends
LEMMA EndsType ==
  ASSUME NEW e \in Ends
  PROVE  ISN[e] \in WrappingInt32 /\ ISN[Peer(e)] \in WrappingInt32 /\ Peer(e) \in Ends
BY ConnectionAssumption DEF Ends, Peer

\* Another sender over the same stream
LEMMA SenderKept ==
  ASSUME NEW c, NEW e, NEW M, NEW T, Sizes(e, M, T), Live(c, e, M, T),
         NEW s, Sending(s, ISN[e], M), Same(c.sender.stream, s.stream), ~ s.stream.error
  PROVE  Kept(c, [c EXCEPT !.sender = s], e, M, T)
<1> DEFINE d == [c EXCEPT !.sender = s]
<1>1. ISN[e] \in WrappingInt32 /\ ISN[Peer(e)] \in WrappingInt32
  BY EndsType DEF Sizes
<1>2. bytes_written(c.sender.stream) \in Nat
  BY <1>1, SendingType DEF Sizes, Live, Endpoint
<1>3. Posted(c.segments_out, ISN[e], s.stream, ISN[Peer(e)])
  BY <1>1, <1>2, PostedStays DEF Live, Endpoint
<1>4. /\ DOMAIN d = DOMAIN c /\ d.sender = s /\ d.receiver = c.receiver
      /\ d.segments_out = c.segments_out
  BY DEF Live, Endpoint, FreshConnection
<1> HIDE DEF d
<1>5. Endpoint(d, e, M, T)
  BY <1>3, <1>4 DEF Live, Endpoint
<1>6. Kept(c, d, e, M, T)
  BY <1>4, <1>5 DEF Kept, Live
<1> QED BY <1>6 DEF d

\* Another receiver of the same stream
LEMMA ReceiverKept ==
  ASSUME NEW c, NEW e, NEW M, NEW T, Live(c, e, M, T),
         NEW rc, Receiving(rc, ISN[Peer(e)], T), c.receiver.is_set => rc.is_set
  PROVE  Kept(c, [c EXCEPT !.receiver = rc], e, M, T)
<1> DEFINE d == [c EXCEPT !.receiver = rc]
<1>1. /\ DOMAIN d = DOMAIN c /\ d.sender = c.sender /\ d.receiver = rc
      /\ d.segments_out = c.segments_out
  BY DEF Live, Endpoint, FreshConnection
<1> HIDE DEF d
<1>2. Endpoint(d, e, M, T)
  BY <1>1 DEF Live, Endpoint
<1>3. Kept(c, d, e, M, T)
  BY <1>1, <1>2 DEF Kept, Live, Same
<1> QED BY <1>3 DEF d

\* Another queue of honest segments
LEMMA QueueKept ==
  ASSUME NEW c, NEW e, NEW M, NEW T, Live(c, e, M, T),
         NEW out, Posted(out, ISN[e], c.sender.stream, ISN[Peer(e)])
  PROVE  Kept(c, [c EXCEPT !.segments_out = out], e, M, T)
<1> DEFINE d == [c EXCEPT !.segments_out = out]
<1>1. DOMAIN d = DOMAIN c /\ d.sender = c.sender /\ d.receiver = c.receiver /\ d.segments_out = out
  BY DEF Live, Endpoint, FreshConnection
<1> HIDE DEF d
<1>2. Endpoint(d, e, M, T)
  BY <1>1 DEF Live, Endpoint
<1>3. Kept(c, d, e, M, T)
  BY <1>1, <1>2 DEF Kept, Live, Same
<1> QED BY <1>3 DEF d

\* The bits that say whether the connection is active and lingers, and its clock
LEMMA FlagsKept ==
  ASSUME NEW c, NEW e, NEW M, NEW T, Live(c, e, M, T),
         NEW d, DOMAIN d = DOMAIN c, d.sender = c.sender, d.receiver = c.receiver,
         d.segments_out = c.segments_out
  PROVE  Kept(c, d, e, M, T)
BY DEF Kept, Live, Endpoint, Same

\* _collect_sender_segments_out()
LEMMA CollectKept ==
  ASSUME NEW c, NEW e, NEW M, NEW T, Sizes(e, M, T), Live(c, e, M, T)
  PROVE  Kept(c, collect(c), e, M, T)
<1> DEFINE isn == ISN[e]
           isn2 == ISN[Peer(e)]
           s == fill_window(c.sender, MaxPayload)
           t == [s EXCEPT !.segments_out = << >>]
           g == s.segments_out
           n == Len(g)
           f == [i \in 1 .. n |->
                   IF c.receiver.is_set THEN add_ack_info(c, g[i])
                   ELSE WireSegment(g[i], FALSE, 0, 0, FALSE)]
           out == c.segments_out \o f
           d == [c EXCEPT !.sender = t]
<1>1. /\ isn \in WrappingInt32 /\ isn2 \in WrappingInt32 /\ M \in Nat /\ M + 2 <= Half
      /\ T \in Nat /\ T + 2 <= Half
      /\ Sending(c.sender, isn, M) /\ Receiving(c.receiver, isn2, T)
      /\ ~ c.sender.stream.error /\ MaxPayload \in Nat \ {0}
  BY EndsType, ConfigAssumption DEF Sizes, Live, Endpoint
<1>2. Fills(c.sender, s, isn, M)
  <2> HIDE DEF isn
  <2> QED BY <1>1, FillKeeps
<1> HIDE DEF s, isn, isn2
<1>3. /\ Sending(s, isn, M) /\ Same(c.sender.stream, s.stream) /\ ~ s.stream.error
  BY <1>1, <1>2 DEF Fills, Same
<1>4. Sending(t, isn, M) /\ t.stream = s.stream
  BY <1>1, <1>3, DrainKeeps
<1>5. Kept(c, d, e, M, T)
  <2> HIDE DEF t
  <2> QED BY <1>3, <1>4, SenderKept DEF isn
<1>6. n \in Nat /\ \A i \in 1 .. n : HonestSegment(g[i], isn, s.stream)
  <2>1. s.segments_out \in Seq(Segments)
    BY <1>1, <1>3, SendingType
  <2> QED BY <2>1, <1>3, LenProperties DEF Sending, QueuedSegments
<1>7. d.sender.stream = s.stream /\ d.segments_out = c.segments_out
  <2> HIDE DEF t
  <2> QED BY <1>4 DEF Live, Endpoint, FreshConnection
<1> HIDE DEF g, n
<1>8. ASSUME NEW i \in 1 .. n PROVE Wired(f[i], isn, s.stream, isn2)
  <2>1. HonestSegment(g[i], isn, s.stream)
    BY <1>6
  <2>2. CASE c.receiver.is_set
    <3>1. Grants(ackno(c.receiver), window_size(c.receiver, RecvCapacity), isn2)
      BY <1>1, <2>2, AckInfo
    <3>2. f[i] = WireSegment(g[i], TRUE, ackno(c.receiver), window_size(c.receiver, RecvCapacity), FALSE)
      BY <2>2 DEF add_ack_info
    <3> HIDE DEF f
    <3> QED BY <2>1, <3>1, <3>2, WireKeeps, Zenon
  <2>3. CASE ~ c.receiver.is_set
    <3>1. f[i] = WireSegment(g[i], FALSE, 0, 0, FALSE)
      BY <2>3
    <3>2. Grants(0, 0, isn2)
      BY HalfBelowMod DEF WrappingInt32, Grants
    <3> HIDE DEF f
    <3> QED BY <2>1, <3>1, <3>2, WireKeeps, Zenon
  <2> HIDE DEF f
  <2> QED BY <2>2, <2>3
<1>9. f = [i \in 1 .. n |-> f[i]]
  OBVIOUS
<1> HIDE DEF f
<1>10. Posted(c.segments_out, isn, s.stream, isn2)
  BY <1>5, <1>7 DEF Kept, Live, Endpoint, isn, isn2
<1>11. Posted(out, isn, d.sender.stream, isn2)
  BY <1>6, <1>7, <1>8, <1>9, <1>10, PostedMore
<1>12. Kept(d, [d EXCEPT !.segments_out = out], e, M, T)
  <2> HIDE DEF d, out
  <2> QED BY <1>5, <1>11, QueueKept DEF Kept, isn, isn2
<1>13. collect(c) = [d EXCEPT !.segments_out = out]
  BY DEF collect, s, f, n, g, Live, Endpoint, FreshConnection
<1> HIDE DEF d, out
<1> QED BY <1>5, <1>12, <1>13, KeptTwice

\* _sender.ack_received(), for any segment of the peer
LEMMA AckKept ==
  ASSUME NEW c, NEW e, NEW M, NEW T, Sizes(e, M, T), Live(c, e, M, T),
         NEW seg, NEW q, Wired(seg, ISN[Peer(e)], q, ISN[e])
  PROVE  Kept(c, acknowledged(c, seg), e, M, T)
<1> DEFINE isn == ISN[e]
           s == sender_ack_received(c.sender, Timeout, seg.ackno, seg.win, MaxPayload)
<1>1. /\ isn \in WrappingInt32 /\ M \in Nat /\ M + 2 <= Half
      /\ Sending(c.sender, isn, M) /\ ~ c.sender.stream.error
      /\ MaxPayload \in Nat \ {0} /\ Timeout \in Nat \ {0}
  BY EndsType, ConfigAssumption DEF Sizes, Live, Endpoint
<1>2. /\ seg.ackno \in WrappingInt32 /\ seg.win \in Nat
      /\ (seg.ackno - isn) % Mod # 0 \/ seg.win <= 1
  BY DEF Wired, Grants
<1> HIDE DEF isn
<1>3. Acknowledged(c.sender, s, isn, M, (seg.ackno - isn) % Mod, usable(seg.win))
  BY <1>1, <1>2, AckReceivedKeeps
<1>4. acknowledged(c, seg) = [c EXCEPT !.sender = s]
  BY DEF acknowledged
<1> HIDE DEF s
<1>5. Sending(s, isn, M) /\ Same(c.sender.stream, s.stream) /\ ~ s.stream.error
  BY <1>1, <1>3 DEF Acknowledged, Same
<1> QED BY <1>4, <1>5, SenderKept DEF isn

\* _receiver.segment_received(), for any segment of the peer
LEMMA TakenInKept ==
  ASSUME NEW c, NEW e, NEW M, NEW T, Sizes(e, M, T), Live(c, e, M, T),
         NEW seg, NEW q, Wired(seg, ISN[Peer(e)], q, ISN[e]), bytes_written(q) = T
  PROVE  /\ Kept(c, taken_in(c, seg), e, M, T)
         /\ seg.syn => taken_in(c, seg).receiver.is_set
<1> DEFINE isn == ISN[Peer(e)]
           rc == segment_received(c.receiver, RecvCapacity, seg)
<1>1. /\ isn \in WrappingInt32 /\ T \in Nat /\ T + 2 <= Half
      /\ Receiving(c.receiver, isn, T) /\ HonestSegment(Data(seg), isn, q)
  BY EndsType DEF Sizes, Live, Endpoint, Wired
<1> HIDE DEF isn
<1>2. Receiving(rc, isn, T) /\ (c.receiver.is_set \/ seg.syn => rc.is_set)
  BY <1>1, ReceiveKeeps
<1>3. taken_in(c, seg) = [c EXCEPT !.receiver = rc]
  BY DEF taken_in
<1> HIDE DEF rc
<1>4. Kept(c, taken_in(c, seg), e, M, T)
  BY <1>2, <1>3, ReceiverKept DEF isn
<1>5. taken_in(c, seg).receiver = rc
  BY <1>3 DEF Live, Endpoint, FreshConnection
<1> QED BY <1>2, <1>4, <1>5

\* An acknowledgment straight into the connection's queue
LEMMA SendAckKept ==
  ASSUME NEW c, NEW e, NEW M, NEW T, Sizes(e, M, T), Live(c, e, M, T), c.receiver.is_set
  PROVE  Kept(c, send_ack(c), e, M, T)
<1> DEFINE isn == ISN[e]
           isn2 == ISN[Peer(e)]
           ack == add_ack_info(c, EmptySegment)
           out == Append(c.segments_out, ack)
<1>1. /\ isn2 \in WrappingInt32 /\ T \in Nat /\ T + 2 <= Half /\ Receiving(c.receiver, isn2, T)
      /\ Posted(c.segments_out, isn, c.sender.stream, isn2)
  BY EndsType DEF Sizes, Live, Endpoint
<1>2. Grants(ackno(c.receiver), window_size(c.receiver, RecvCapacity), isn2)
  BY <1>1, AckInfo
<1>3. ack = WireSegment(EmptySegment, TRUE, ackno(c.receiver), window_size(c.receiver, RecvCapacity), FALSE)
  BY DEF add_ack_info
<1>4. HonestSegment(EmptySegment, isn, c.sender.stream)
  BY EmptyIsHonest
<1> HIDE DEF ack, isn, isn2
<1>5. Wired(ack, isn, c.sender.stream, isn2)
  BY <1>2, <1>3, <1>4, WireKeeps, Zenon
<1>6. Posted(out, isn, c.sender.stream, isn2)
  BY <1>1, <1>5, PostedOne
<1>7. send_ack(c) = [c EXCEPT !.segments_out = out]
  BY DEF send_ack, ack
<1> HIDE DEF out
<1> QED BY <1>6, <1>7, QueueKept DEF isn, isn2

\* An empty segment in the sender's queue, as on_established() and keep_alive() put
\* it there
LEMMA AnswerKept ==
  ASSUME NEW c, NEW e, NEW M, NEW T, Sizes(e, M, T), Live(c, e, M, T)
  PROVE  /\ Kept(c, [c EXCEPT !.sender = send_empty_segment(@)], e, M, T)
         /\ Kept(c, [c EXCEPT !.sender.segments_out = Append(@, EmptySegment)], e, M, T)
<1> DEFINE isn == ISN[e]
           s == send_empty_segment(c.sender)
           out == Append(c.sender.segments_out, EmptySegment)
           t == [c.sender EXCEPT !.segments_out = out]
<1>1. /\ isn \in WrappingInt32 /\ M \in Nat /\ Sending(c.sender, isn, M) /\ ~ c.sender.stream.error
  BY EndsType DEF Sizes, Live, Endpoint
<1>2. Sending(s, isn, M) /\ s.stream = c.sender.stream
  <2> HIDE DEF isn
  <2> QED BY <1>1, EmptyKeeps
<1>3. Kept(c, [c EXCEPT !.sender = s], e, M, T)
  <2> HIDE DEF s
  <2> QED BY <1>1, <1>2, SenderKept DEF Same
<1>4. /\ c.sender.segments_out \in Seq(Segments) /\ EmptySegment \in Segments
      /\ HonestSegment(EmptySegment, isn, c.sender.stream)
  <2>1. c.sender.segments_out \in Seq(Segments)
    BY <1>1 DEF Sending, Senders
  <2>2. HonestSegment(EmptySegment, isn, c.sender.stream)
    BY EmptyIsHonest
  <2>3. EmptySegment \in Segments
    BY <2>2 DEF HonestSegment
  <2> QED BY <2>1, <2>2, <2>3
<1>5. HonestQueue(out, isn, c.sender.stream)
  <2>1. /\ out \in Seq(Segments) /\ Len(c.sender.segments_out) \in Nat
        /\ Len(out) = Len(c.sender.segments_out) + 1
        /\ \A i \in 1 .. Len(c.sender.segments_out) : out[i] = c.sender.segments_out[i]
        /\ out[Len(c.sender.segments_out) + 1] = EmptySegment
    BY <1>4, LenProperties, AppendProperties
  <2> HIDE DEF out
  <2>2. ASSUME NEW i \in 1 .. Len(out) PROVE HonestSegment(out[i], isn, c.sender.stream)
    <3>1. CASE i = Len(c.sender.segments_out) + 1
      BY <2>1, <3>1, <1>4
    <3>2. CASE i \in 1 .. Len(c.sender.segments_out)
      BY <2>1, <3>2, <1>1 DEF Sending, QueuedSegments
    <3> QED BY <2>1, <3>1, <3>2
  <2> QED BY <2>1, <2>2 DEF HonestQueue
<1>6. /\ t \in Senders(isn) /\ t.stream = c.sender.stream /\ t.window = c.sender.window
      /\ t.segments_out = out
  <2>1. c.sender \in Senders(isn) /\ out \in Seq(Segments)
    BY <1>1, <1>5 DEF Sending, HonestQueue
  <2> HIDE DEF out
  <2> QED BY <2>1 DEF Senders
<1>7. [c EXCEPT !.sender.segments_out = Append(@, EmptySegment)] = [c EXCEPT !.sender = t]
  OBVIOUS
<1> HIDE DEF t, out
<1>8. Sending(t, isn, M)
  <2> HIDE DEF isn
  <2> QED BY <1>1, <1>5, <1>6, QueueKeeps
<1>9. Kept(c, [c EXCEPT !.sender = t], e, M, T)
  BY <1>1, <1>6, <1>8, SenderKept DEF Same
<1> QED BY <1>3, <1>7, <1>9

-----------------------------------------------------------------------------
\* A segment of the peer, which has written T bytes
FromPeer(seg, e, T) ==
  \E q : Wired(seg, ISN[Peer(e)], q, ISN[e]) /\ bytes_written(q) = T

\* The operations the branches of segment_received() are made of, one after the
\* other
LEMMA ThenKept ==
  ASSUME NEW c, NEW d, NEW e, NEW M, NEW T, Sizes(e, M, T), Kept(c, d, e, M, T),
         NEW seg, FromPeer(seg, e, T)
  PROVE  /\ Kept(c, collect(d), e, M, T)
         /\ Kept(c, acknowledged(d, seg), e, M, T)
         /\ Kept(c, taken_in(d, seg), e, M, T)
         /\ seg.syn => taken_in(d, seg).receiver.is_set
         /\ d.receiver.is_set => Kept(c, send_ack(d), e, M, T)
         /\ Kept(c, [d EXCEPT !.sender = send_empty_segment(@)], e, M, T)
         /\ Kept(c, [d EXCEPT !.sender.segments_out = Append(@, EmptySegment)], e, M, T)
<1>1. Live(d, e, M, T)
  BY DEF Kept
<1>2. PICK q : Wired(seg, ISN[Peer(e)], q, ISN[e]) /\ bytes_written(q) = T
  BY DEF FromPeer
<1>3. Kept(c, collect(d), e, M, T)
  BY <1>1, CollectKept, KeptTwice
<1>4. Kept(c, acknowledged(d, seg), e, M, T)
  BY <1>1, <1>2, AckKept, KeptTwice
<1>5. /\ Kept(c, taken_in(d, seg), e, M, T)
      /\ seg.syn => taken_in(d, seg).receiver.is_set
  BY <1>1, <1>2, TakenInKept, KeptTwice
<1>6. d.receiver.is_set => Kept(c, send_ack(d), e, M, T)
  BY <1>1, SendAckKept, KeptTwice
<1>7. /\ Kept(d, [d EXCEPT !.sender = send_empty_segment(@)], e, M, T)
      /\ Kept(d, [d EXCEPT !.sender.segments_out = Append(@, EmptySegment)], e, M, T)
  BY <1>1, AnswerKept, Zenon
<1>8. /\ Kept(c, [d EXCEPT !.sender = send_empty_segment(@)], e, M, T)
      /\ Kept(c, [d EXCEPT !.sender.segments_out = Append(@, EmptySegment)], e, M, T)
  BY <1>7, KeptTwice
<1> QED BY <1>3, <1>4, <1>5, <1>6, <1>8

\* Every connection has an official name or none, and some names tell that the
\* receiver has an ackno.
LEMMA NameIs ==
  ASSUME NEW c
  PROVE  /\ state_name(c) \in {"LISTEN", "SYN_RCVD", "SYN_SENT", "ESTABLISHED", "CLOSE_WAIT",
               "LAST_ACK", "CLOSING", "FIN_WAIT_1", "FIN_WAIT_2", "TIME_WAIT", "RESET", "CLOSED",
               "unofficial"}
         /\ state_name(c) \in {"CLOSE_WAIT", "FIN_WAIT_2", "TIME_WAIT"} => c.receiver.is_set
         /\ state_name(c) = "LISTEN" => c.active
<1> DEFINE is == Summary(sender_summary(c.sender), receiver_summary(c.receiver),
                         c.active, c.active /\ c.linger)
           names == {n \in DOMAIN Official : Official[n] = is}
           nm == state_name(c)
<1>1. nm = IF names = {} THEN "unofficial" ELSE CHOOSE n \in names : TRUE
  BY Zenon DEF state_name
<1>2. nm = "unofficial" \/ nm \in names
  BY <1>1, Zenon
<1>3. DOMAIN Official = {"LISTEN", "SYN_RCVD", "SYN_SENT", "ESTABLISHED", "CLOSE_WAIT",
               "LAST_ACK", "CLOSING", "FIN_WAIT_1", "FIN_WAIT_2", "TIME_WAIT", "RESET", "CLOSED"}
  BY DEF Official
<1> HIDE DEF nm
<1>4. ASSUME nm \in {"CLOSE_WAIT", "FIN_WAIT_2", "TIME_WAIT"} PROVE c.receiver.is_set
  <2>1. Official[nm] = is
    BY <1>2, <1>4
  <2>2. Official[nm].receiver \in {"FIN_RECV", "SYN_RECV"}
    BY <1>4 DEF Official, Summary
  <2>3. receiver_summary(c.receiver) \in {"FIN_RECV", "SYN_RECV"}
    BY <2>1, <2>2 DEF Summary
  <2> QED BY <2>3 DEF receiver_summary
<1>5. ASSUME nm = "LISTEN" PROVE c.active
  <2>1. Official[nm] = is
    BY <1>2, <1>5
  <2>2. Official[nm].active = TRUE
    BY <1>5 DEF Official, Summary
  <2>3. is.active = c.active
    BY DEF Summary
  <2> QED BY <2>1, <2>2, <2>3
<1> QED BY <1>2, <1>3, <1>4, <1>5 DEF nm

\* The handlers of a segment in ESTABLISHED, LAST_ACK and the states before and after
LEMMA EstablishedKept ==
  ASSUME NEW c, NEW e, NEW M, NEW T, Sizes(e, M, T), Live(c, e, M, T),
         NEW seg, FromPeer(seg, e, T), NEW nm
  PROVE  Kept(c, on_established(c, seg, nm), e, M, T)
<1> DEFINE a == IF seg.fin /\ nm # "FIN_WAIT_1" THEN [c EXCEPT !.linger = FALSE] ELSE c
           x == taken_in(a, seg)
           y == [x EXCEPT !.sender.segments_out = Append(@, EmptySegment)]
           b == IF length_in_sequence_space(seg) # 0 \/ ~ seg.ack THEN collect(y) ELSE a
<1>1. Kept(c, c, e, M, T)
  BY KeptSelf
<1>2. Kept(c, [c EXCEPT !.linger = FALSE], e, M, T)
  <2>1. LET d == [c EXCEPT !.linger = FALSE]
        IN  /\ DOMAIN d = DOMAIN c /\ d.sender = c.sender /\ d.receiver = c.receiver
            /\ d.segments_out = c.segments_out
    BY DEF Live, Endpoint, FreshConnection
  <2> QED BY <2>1, FlagsKept, Zenon
<1>3. Kept(c, a, e, M, T)
  BY <1>1, <1>2
<1> HIDE DEF a
<1>4. Kept(c, x, e, M, T)
  BY <1>3, ThenKept, Zenon
<1> HIDE DEF x
<1>5. Kept(c, y, e, M, T)
  BY <1>4, ThenKept, Zenon
<1> HIDE DEF y
<1>6. Kept(c, collect(y), e, M, T)
  BY <1>5, ThenKept, Zenon
<1>7. Kept(c, b, e, M, T)
  BY <1>3, <1>6
<1>8. on_established(c, seg, nm) = IF seg.ack THEN collect(acknowledged(b, seg)) ELSE b
  BY DEF on_established, y, x, a
<1> HIDE DEF b
<1>9. Kept(c, acknowledged(b, seg), e, M, T)
  BY <1>7, ThenKept, Zenon
<1>10. Kept(c, collect(acknowledged(b, seg)), e, M, T)
  BY <1>9, ThenKept, Zenon
<1> QED BY <1>7, <1>8, <1>10

\* The branch of segment_received() for LAST_ACK
LEMMA LastAckKept ==
  ASSUME NEW c, NEW e, NEW M, NEW T, Sizes(e, M, T), Live(c, e, M, T),
         NEW seg, FromPeer(seg, e, T)
  PROVE  Kept(c, on_last_ack(c, seg), e, M, T)
<1> DEFINE a == acknowledged(c, seg)
           b == [a EXCEPT !.linger = FALSE, !.active = FALSE]
<1>1. Kept(c, c, e, M, T)
  BY KeptSelf
<1>2. Kept(c, a, e, M, T)
  BY <1>1, ThenKept, Zenon
<1>3. on_last_ack(c, seg) \in {c, a, b}
  BY DEF on_last_ack
<1> HIDE DEF a
<1>4. /\ DOMAIN b = DOMAIN a /\ b.sender = a.sender /\ b.receiver = a.receiver
      /\ b.segments_out = a.segments_out
  BY <1>2 DEF Kept, Live, Endpoint, FreshConnection
<1> HIDE DEF b
<1>5. Kept(a, b, e, M, T)
  BY <1>2, <1>4, FlagsKept DEF Kept
<1>6. Kept(c, b, e, M, T)
  BY <1>2, <1>5, KeptTwice
<1> QED BY <1>1, <1>2, <1>3, <1>6

\* The branches of segment_received()
LEMMA HandledKept ==
  ASSUME NEW c, NEW e, NEW M, NEW T, Sizes(e, M, T), Live(c, e, M, T),
         NEW seg, FromPeer(seg, e, T)
  PROVE  Kept(c, handled(c, seg), e, M, T)
<1> DEFINE nm == state_name(c)
           x == taken_in(c, seg)
           y == acknowledged(x, seg)
           z == acknowledged(c, seg)
<1>1. seg.syn \in BOOLEAN /\ seg.ack \in BOOLEAN
  BY DEF FromPeer, Wired, WireSegments
<1>2. Kept(c, c, e, M, T)
  BY KeptSelf
<1>3. Kept(c, x, e, M, T) /\ Kept(c, z, e, M, T) /\ (seg.syn => x.receiver.is_set)
  BY <1>2, ThenKept, Zenon
<1> HIDE DEF x
<1>4. Kept(c, collect(x), e, M, T) /\ Kept(c, y, e, M, T)
      /\ (x.receiver.is_set => Kept(c, send_ack(x), e, M, T))
  BY <1>3, ThenKept, Zenon
<1>5. x.receiver.is_set => y.receiver.is_set
  <2>1. Live(x, e, M, T) /\ Kept(x, x, e, M, T)
    BY <1>3, KeptSelf DEF Kept
  <2>2. Kept(x, y, e, M, T)
    BY <2>1, ThenKept, Zenon
  <2> QED BY <2>2 DEF Kept
<1> HIDE DEF y, z
<1>6. Kept(c, collect(y), e, M, T) /\ (y.receiver.is_set => Kept(c, send_ack(y), e, M, T))
  BY <1>4, ThenKept, Zenon
<1>7. z.receiver.is_set => Kept(c, send_ack(z), e, M, T)
  BY <1>3, ThenKept, Zenon
<1>8. c.receiver.is_set => x.receiver.is_set /\ z.receiver.is_set
  BY <1>3 DEF Kept
<1>9. /\ nm \in {"LISTEN", "SYN_RCVD", "SYN_SENT", "ESTABLISHED", "CLOSE_WAIT",
               "LAST_ACK", "CLOSING", "FIN_WAIT_1", "FIN_WAIT_2", "TIME_WAIT", "RESET", "CLOSED",
               "unofficial"}
      /\ nm \in {"CLOSE_WAIT", "FIN_WAIT_2", "TIME_WAIT"} => c.receiver.is_set
  BY NameIs
<1>10. Kept(c, on_established(c, seg, nm), e, M, T) /\ Kept(c, on_last_ack(c, seg), e, M, T)
  BY EstablishedKept, LastAckKept
<1>11. Kept(c, on_listen(c, seg), e, M, T)
  BY <1>2, <1>4 DEF on_listen, x
<1>12. Kept(c, on_syn_sent(c, seg), e, M, T)
  BY <1>1, <1>2, <1>3, <1>4, <1>5, <1>6 DEF on_syn_sent, x, y
<1>13. Kept(c, on_syn_rcvd(c, seg), e, M, T) /\ Kept(c, on_closing(c, seg), e, M, T)
  BY <1>2, <1>4, <1>6 DEF on_syn_rcvd, on_closing, x, y
<1>14. c.receiver.is_set => Kept(c, on_fin_wait_2(c, seg), e, M, T)
  BY <1>2, <1>5, <1>6, <1>8 DEF on_fin_wait_2, x, y
<1>15. c.receiver.is_set => /\ Kept(c, on_close_wait(c, seg), e, M, T)
                            /\ Kept(c, on_time_wait(c, seg), e, M, T)
  BY <1>2, <1>7, <1>8 DEF on_close_wait, on_time_wait, z
<1>16. handled(c, seg) =
         CASE nm = "LISTEN"     -> on_listen(c, seg)
           [] nm = "SYN_SENT"   -> on_syn_sent(c, seg)
           [] nm = "SYN_RCVD"   -> on_syn_rcvd(c, seg)
           [] nm \in {"ESTABLISHED", "FIN_WAIT_1"} -> on_established(c, seg, nm)
           [] nm = "FIN_WAIT_2" -> on_fin_wait_2(c, seg)
           [] nm = "LAST_ACK"   -> on_last_ack(c, seg)
           [] nm = "CLOSING"    -> on_closing(c, seg)
           [] nm = "CLOSE_WAIT" -> on_close_wait(c, seg)
           [] nm = "TIME_WAIT"  -> on_time_wait(c, seg)
           [] nm \in {"RESET", "CLOSED", "unofficial"} -> c
  BY DEF handled
<1> HIDE DEF nm
<1> QED BY <1>2, <1>9, <1>10, <1>11, <1>12, <1>13, <1>14, <1>15, <1>16

-----------------------------------------------------------------------------
\* What a call may make of a connection: its stream may grow, and a stream in
\* error belongs to a connection that is no longer active.
Result(c, d, e, M, T) ==
  /\ Endpoint(d, e, M, T)
  /\ bytes_written(c.sender.stream) <= bytes_written(d.sender.stream)
  /\ c.sender.stream.ended => d.sender.stream.ended /\ Same(c.sender.stream, d.sender.stream)
  /\ d.sender.stream.error => ~ d.active

\* What keeps the stream is a result of the step.
LEMMA KeptResult ==
  ASSUME NEW c, NEW d, NEW e, NEW M, NEW T, Sizes(e, M, T), Kept(c, d, e, M, T)
  PROVE  Result(c, d, e, M, T)
<1>1. Live(d, e, M, T) /\ Same(c.sender.stream, d.sender.stream)
  BY DEF Kept
<1>2. bytes_written(d.sender.stream) \in Nat
  <2>1. e \in Ends /\ M \in Nat /\ Sending(d.sender, ISN[e], M)
    BY <1>1 DEF Sizes, Live, Endpoint
  <2>2. ISN[e] \in WrappingInt32
    BY ONLY <2>1, EndsType
  <2> QED BY ONLY <2>1, <2>2, SendingType
<1> QED BY ONLY <1>1, <1>2 DEF Result, Live, Same

\* An end that is no longer active, and has the stream it had but for the error
LEMMA ErrorResult ==
  ASSUME NEW c, NEW d, NEW e, NEW M, NEW T, NEW s, NEW rc, NEW q, NEW out,
         DOMAIN c = DOMAIN FreshConnection(0), DOMAIN d = DOMAIN c,
         d.sender = s, d.receiver = rc, d.segments_out = out, d.active = FALSE, s.stream = q,
         Sending(s, ISN[e], M), Receiving(rc, ISN[Peer(e)], T),
         Posted(out, ISN[e], q, ISN[Peer(e)]),
         Same(c.sender.stream, q), bytes_written(q) \in Nat
  PROVE  Result(c, d, e, M, T)
<1>1. d.sender.stream = q
  OBVIOUS
<1>2. Endpoint(d, e, M, T)
  BY <1>1, Zenon DEF Endpoint
<1>3. bytes_written(c.sender.stream) = bytes_written(q) /\ q.ended = c.sender.stream.ended
  BY DEF Same
<1>4. bytes_written(c.sender.stream) <= bytes_written(q)
  BY ONLY <1>3, bytes_written(q) \in Nat
<1>5. c.sender.stream.ended => q.ended
  BY ONLY <1>3, Zenon
<1> QED BY <1>1, <1>2, <1>4, <1>5, Zenon DEF Result

\* A connection after one that was kept
LEMMA ResultThen ==
  ASSUME NEW c, NEW d, NEW f, NEW e, NEW M, NEW T, Kept(c, d, e, M, T), Result(d, f, e, M, T)
  PROVE  Result(c, f, e, M, T)
BY DEF Kept, Result, Same

\* _reset_received() and _unclean_shutdown()
LEMMA ResetResult ==
  ASSUME NEW c, NEW e, NEW M, NEW T, Sizes(e, M, T), Live(c, e, M, T)
  PROVE  /\ Result(c, reset_received(c), e, M, T)
         /\ Result(c, unclean_shutdown(c), e, M, T)
         /\ Result(c, [unclean_shutdown(c) EXCEPT !.segments_out = << >>], e, M, T)
<1> DEFINE isn == ISN[e]
           isn2 == ISN[Peer(e)]
           q == set_error(c.sender.stream)
           s == [c.sender EXCEPT !.stream = q]
           o == set_error(c.receiver.reassembler.output)
           re == [c.receiver.reassembler EXCEPT !.output = o]
           rc == [c.receiver EXCEPT !.reassembler.output = o]
           d == reset_received(c)
           rst == WireSegment(EmptySegment, FALSE, 0, 0, TRUE)
           f == unclean_shutdown(c)
           g == [f EXCEPT !.segments_out = << >>]
<1>1. /\ isn \in WrappingInt32 /\ isn2 \in WrappingInt32 /\ M \in Nat /\ T \in Nat
      /\ DOMAIN c = DOMAIN FreshConnection(0)
      /\ Sending(c.sender, isn, M) /\ InOrder(c.sender.stream, M)
      /\ Receiving(c.receiver, isn2, T)
      /\ Posted(c.segments_out, isn, c.sender.stream, isn2)
  BY EndsType DEF Sizes, Live, Endpoint, Sending
<1>2. /\ Sending(s, isn, M) /\ s.stream = q
      /\ q.ended = c.sender.stream.ended /\ bytes_written(q) = bytes_written(c.sender.stream)
      /\ bytes_written(q) \in Nat
  <2>1. Grown(c.sender.stream, q, M)
    BY <1>1, FlagGrows
  <2>2. c.sender.stream \in Queues
    BY <1>1 DEF InOrder
  <2>3. q.ended = c.sender.stream.ended /\ bytes_written(q) = bytes_written(c.sender.stream)
    BY <2>2 DEF set_error, Queues, bytes_written
  <2> HIDE DEF isn, q
  <2>4. Sending(s, isn, M) /\ s.stream = q
    BY <1>1, <2>1, StreamKeeps
  <2> HIDE DEF s
  <2>5. bytes_written(c.sender.stream) \in Nat
    BY ONLY <1>1, SendingType
  <2>6. bytes_written(q) \in Nat
    BY ONLY <2>3, <2>5
  <2> QED BY ONLY <2>3, <2>4, <2>6
<1>3. Receiving(rc, isn2, T)
  <2>1. DOMAIN re = DOMAIN EmptyReassembler /\ Assembling(re, T, RecvCapacity)
    <3>1. /\ DOMAIN o = DOMAIN c.receiver.reassembler.output
          /\ o.buffer = c.receiver.reassembler.output.buffer
          /\ o.popped = c.receiver.reassembler.output.popped
          /\ o.ended = c.receiver.reassembler.output.ended
      BY <1>1 DEF Receiving, Assembling, IsOutput, set_error
    <3> HIDE DEF o
    <3>2. /\ DOMAIN re = DOMAIN EmptyReassembler /\ re.output = o
          /\ re.eofed = c.receiver.reassembler.eofed
          /\ re.first_unassembled = c.receiver.reassembler.first_unassembled
          /\ re.first_unacceptable = c.receiver.reassembler.first_unacceptable
          /\ re.buffer = c.receiver.reassembler.buffer
      BY <1>1 DEF Receiving, EmptyReassembler
    <3> HIDE DEF re
    <3>3. /\ bytes_read(re.output) = bytes_read(c.receiver.reassembler.output)
          /\ bytes_written(re.output) = bytes_written(c.receiver.reassembler.output)
          /\ IsOutput(re.output, RecvCapacity)
      BY <1>1, <3>1, <3>2 DEF Receiving, Assembling, IsOutput, bytes_read, bytes_written
    <3> QED BY <1>1, <3>1, <3>2, <3>3 DEF Receiving, Assembling
  <2>2. /\ DOMAIN rc = DOMAIN c.receiver /\ rc.reassembler = re
        /\ rc.is_set = c.receiver.is_set /\ rc.checkpoint = c.receiver.checkpoint
        /\ rc.isn = c.receiver.isn
    BY <1>1 DEF Receiving, FreshReceiver
  <2> HIDE DEF re, rc
  <2> QED BY <1>1, <2>1, <2>2 DEF Receiving
<1>4. /\ DOMAIN d = DOMAIN c /\ d.sender = s /\ d.receiver = rc /\ d.segments_out = c.segments_out
      /\ d.active = FALSE
  <2> HIDE DEF q, o
  <2> QED BY <1>1 DEF reset_received, FreshConnection, q, o
<1>5. f = [d EXCEPT !.segments_out = Append(c.segments_out, rst)]
  BY <1>4 DEF unclean_shutdown
<1> HIDE DEF s, rc, q, d, isn, isn2
<1>6. Same(c.sender.stream, q)
  BY <1>2 DEF Same
<1>7. Posted(c.segments_out, isn, q, isn2)
  <2>1. bytes_written(c.sender.stream) \in Nat
    BY <1>2
  <2> QED BY <2>1, <1>1, <1>6, PostedStays
<1>8. Result(c, d, e, M, T)
  BY ONLY <1>1, <1>2, <1>3, <1>4, <1>6, <1>7, ErrorResult DEF isn, isn2
<1>9. Posted(Append(c.segments_out, rst), isn, q, isn2)
  <2>1. Wired(rst, isn, q, isn2)
    <3>1. Grants(0, 0, isn2)
      BY HalfBelowMod DEF WrappingInt32, Grants
    <3>2. HonestSegment(EmptySegment, isn, q)
      BY EmptyIsHonest
    <3> QED BY <3>1, <3>2, WireKeeps, Zenon
  <2> HIDE DEF rst
  <2> QED BY <2>1, <1>7, PostedOne
<1>10. /\ DOMAIN f = DOMAIN c /\ f.sender = s /\ f.receiver = rc /\ f.active = FALSE
       /\ f.segments_out = Append(c.segments_out, rst)
  BY <1>1, <1>4, <1>5 DEF FreshConnection
<1>11. /\ DOMAIN g = DOMAIN c /\ g.sender = s /\ g.receiver = rc /\ g.active = FALSE
       /\ g.segments_out = << >>
  BY <1>1, <1>10 DEF FreshConnection
<1>12. Posted(<< >>, isn, q, isn2)
  BY DEF Posted
<1> HIDE DEF f, g, rst
<1>13. Result(c, f, e, M, T)
  BY ONLY <1>1, <1>2, <1>3, <1>6, <1>9, <1>10, ErrorResult DEF isn, isn2
<1>14. Result(c, g, e, M, T)
  BY ONLY <1>1, <1>2, <1>3, <1>6, <1>11, <1>12, ErrorResult DEF isn, isn2
<1> QED BY <1>8, <1>13, <1>14 DEF d, f, g

\* segment_received() of the connection, for any segment of the peer
LEMMA ReceivedResult ==
  ASSUME NEW c, NEW e, NEW M, NEW T, Sizes(e, M, T), Live(c, e, M, T),
         NEW seg, FromPeer(seg, e, T)
  PROVE  Result(c, connection_received(c, seg), e, M, T)
<1> DEFINE d == [c EXCEPT !.since = 0]
           h == handled(d, seg)
           k == [h EXCEPT !.sender = send_empty_segment(@)]
<1>1. connection_received(c, seg) = IF seg.rst THEN reset_received(d) ELSE keep_alive(h, seg)
  BY DEF connection_received
<1>2. keep_alive(h, seg) \in {collect(k), h}
  BY Zenon DEF keep_alive
<1>3. Kept(c, d, e, M, T)
  <2>1. /\ DOMAIN d = DOMAIN c /\ d.sender = c.sender /\ d.receiver = c.receiver
        /\ d.segments_out = c.segments_out
    BY DEF Live, Endpoint, FreshConnection
  <2> HIDE DEF d
  <2> QED BY <2>1, FlagsKept
<1>4. Live(d, e, M, T)
  BY <1>3 DEF Kept
<1> HIDE DEF d
<1>5. Result(c, reset_received(d), e, M, T)
  BY <1>3, <1>4, ResetResult, ResultThen, Zenon
<1>6. Kept(c, h, e, M, T)
  BY <1>3, <1>4, HandledKept, KeptTwice
<1> HIDE DEF h
<1>7. Kept(c, k, e, M, T)
  BY <1>6, ThenKept, Zenon
<1> HIDE DEF k
<1>8. Kept(c, collect(k), e, M, T)
  BY <1>7, ThenKept, Zenon
<1>9. Result(c, h, e, M, T) /\ Result(c, collect(k), e, M, T)
  BY <1>6, <1>8, KeptResult
<1> QED BY <1>1, <1>2, <1>5, <1>9

\* ~TCPConnection()
LEMMA DestroyedResult ==
  ASSUME NEW c, NEW e, NEW M, NEW T, Sizes(e, M, T), Live(c, e, M, T)
  PROVE  Result(c, destroyed(c), e, M, T)
<1> DEFINE d == [c EXCEPT !.sender = send_empty_segment(@)]
<1>1. Kept(c, d, e, M, T)
  BY AnswerKept, Zenon
<1>2. destroyed(c) = [unclean_shutdown(d) EXCEPT !.segments_out = << >>]
  BY DEF destroyed
<1> HIDE DEF d
<1>3. Live(d, e, M, T)
  BY <1>1 DEF Kept
<1> QED BY <1>1, <1>2, <1>3, ResetResult, ResultThen

\* tick()
LEMMA TickResult ==
  ASSUME NEW c, NEW e, NEW M, NEW T, Sizes(e, M, T), Live(c, e, M, T), NEW ms \in Nat
  PROVE  Result(c, connection_tick(c, ms), e, M, T)
<1> DEFINE nm == state_name(c)
           b == [c EXCEPT !.since = IF nm = "TIME_WAIT" THEN min(@ + ms, Linger) ELSE @]
           done == lingered(nm, b.since)
           s == sender_tick(c.sender, ms)
           a == [c EXCEPT !.sender = s]
           d == [b EXCEPT !.sender = sender_tick(@, ms),
                          !.active = @ /\ ~ done, !.linger = @ /\ ~ done]
<1>1. /\ ISN[e] \in WrappingInt32 /\ M \in Nat /\ Sending(c.sender, ISN[e], M)
      /\ ~ c.sender.stream.error
  BY EndsType DEF Sizes, Live, Endpoint
<1>2. Sending(s, ISN[e], M) /\ s.stream = c.sender.stream
  BY <1>1, TickKeeps
<1>3. /\ DOMAIN a = DOMAIN c /\ a.sender = s /\ a.receiver = c.receiver
      /\ a.segments_out = c.segments_out
      /\ DOMAIN d = DOMAIN c /\ d.sender = s /\ d.receiver = c.receiver
      /\ d.segments_out = c.segments_out
  <2> HIDE DEF done
  <2> QED BY DEF Live, Endpoint, FreshConnection
<1>4. connection_tick(c, ms) =
        CASE gives_up(d.sender) -> unclean_shutdown(d)
          [] ~ gives_up(d.sender) /\ nm \in {"ESTABLISHED", "SYN_SENT", "SYN_RCVD",
                                   "FIN_WAIT_1", "CLOSE_WAIT", "LAST_ACK", "CLOSING"} -> collect(d)
          [] ~ gives_up(d.sender) /\ nm \in {"LISTEN", "FIN_WAIT_2", "TIME_WAIT",
                                   "RESET", "CLOSED", "unofficial"} -> d
  BY Zenon DEF connection_tick
<1> HIDE DEF s
<1>5. Kept(c, a, e, M, T)
  BY <1>1, <1>2, SenderKept DEF Same
<1> HIDE DEF a, d
<1>6. Kept(a, d, e, M, T)
  BY <1>3, <1>5, FlagsKept DEF Kept
<1>7. Kept(c, d, e, M, T)
  BY <1>5, <1>6, KeptTwice
<1>8. Live(d, e, M, T)
  BY <1>7 DEF Kept
<1>9. Result(c, unclean_shutdown(d), e, M, T)
  BY <1>7, <1>8, ResetResult, ResultThen, Zenon
<1>10. Result(c, d, e, M, T) /\ Result(c, collect(d), e, M, T)
  BY <1>7, <1>8, CollectKept, KeptTwice, KeptResult
<1>11. nm \in {"LISTEN", "SYN_RCVD", "SYN_SENT", "ESTABLISHED", "CLOSE_WAIT",
               "LAST_ACK", "CLOSING", "FIN_WAIT_1", "FIN_WAIT_2", "TIME_WAIT", "RESET", "CLOSED",
               "unofficial"}
  BY NameIs
<1> HIDE DEF nm
<1> QED BY <1>4, <1>9, <1>10, <1>11

\* write() and end_input_stream(): the stream grows, or ends.
LEMMA GrownResult ==
  ASSUME NEW c, NEW e, NEW M, NEW T, Sizes(e, M, T), Live(c, e, M, T), c.segments_out = << >>,
         NEW r, Grown(c.sender.stream, r, M), ~ r.error
  PROVE  Result(c, collect([c EXCEPT !.sender.stream = r]), e, M, T)
<1> DEFINE s == [c.sender EXCEPT !.stream = r]
           d == [c EXCEPT !.sender.stream = r]
<1>1. ISN[e] \in WrappingInt32 /\ M \in Nat /\ Sending(c.sender, ISN[e], M)
  BY EndsType DEF Sizes, Live, Endpoint
<1>2. Sending(s, ISN[e], M) /\ s.stream = r
  <2> DEFINE t == c.sender
  <2>1. Sending(t, ISN[e], M) /\ Grown(t.stream, r, M) /\ s = [t EXCEPT !.stream = r]
    BY <1>1
  <2> HIDE DEF t, s
  <2>2. LET u == [t EXCEPT !.stream = r] IN Sending(u, ISN[e], M) /\ u.stream = r
    BY ONLY <1>1, <2>1, StreamKeeps
  <2> QED BY ONLY <2>1, <2>2
<1>3. /\ DOMAIN d = DOMAIN c /\ d.sender = s /\ d.receiver = c.receiver
      /\ d.segments_out = << >>
  BY DEF Live, Endpoint, FreshConnection
<1> HIDE DEF s, d
<1>4. Posted(<< >>, ISN[e], r, ISN[Peer(e)])
  BY DEF Posted
<1>5. Live(d, e, M, T)
  BY <1>2, <1>3, <1>4 DEF Live, Endpoint
<1>6. Kept(d, collect(d), e, M, T)
  BY <1>5, CollectKept
<1>7. Result(d, collect(d), e, M, T)
  BY <1>6, KeptResult
<1>8. /\ bytes_written(c.sender.stream) <= bytes_written(r)
      /\ c.sender.stream.ended => r.ended /\ bytes_written(r) = bytes_written(c.sender.stream)
  BY DEF Grown, bytes_written
<1>9. Same(r, collect(d).sender.stream)
  BY <1>2, <1>3, <1>6 DEF Kept
<1>10. bytes_written(collect(d).sender.stream) = bytes_written(r)
       /\ collect(d).sender.stream.ended = r.ended
  BY <1>9 DEF Same
<1>11. Endpoint(collect(d), e, M, T) /\ (collect(d).sender.stream.error => ~ collect(d).active)
  BY <1>7 DEF Result
<1>12. c.sender.stream.ended \in BOOLEAN /\ r.ended \in BOOLEAN
  BY <1>1, <1>2, SendingType DEF Sending, InOrder, Queues
<1>13. c.sender.stream.ended => collect(d).sender.stream.ended /\ Same(c.sender.stream, collect(d).sender.stream)
  BY <1>8, <1>10, <1>12 DEF Same
<1> QED BY <1>8, <1>10, <1>11, <1>13 DEF Result, d

-----------------------------------------------------------------------------
\* The bytes that end e has written
Written(e) == bytes_written(conn[e].sender.stream)

\* The inductive invariant: at each end a sender and a receiver in order, and on
\* the way to it only segments of the other end's stream.
AtEnd(e) ==
  /\ Endpoint(conn[e], e, total[e], Written(Peer(e)))
  /\ conn[e].segments_out = << >>
  /\ conn[e].sender.stream.error => ~ conn[e].active
  /\ \A seg \in net[e] : Wired(seg, ISN[Peer(e)], conn[Peer(e)].sender.stream, ISN[e])

IInv == /\ total \in [Ends -> 0 .. Half - 2]
        /\ DOMAIN conn = Ends /\ DOMAIN net = Ends
        /\ \A e \in Ends : AtEnd(e)

\* Two connections that have just been made
LEMMA InitIInv == Init => IInv
<1> SUFFICES ASSUME Init PROVE IInv
  OBVIOUS
<1>1. total \in [Ends -> 0 .. Half - 2]
  <2>1. PICK sc \in Scenarios : total = sc[2]
    BY DEF Init
  <2>2. sc \in (SUBSET Ends) \X [Ends -> 0 .. Half - 2] \X Nat
    BY <2>1, ConnectionAssumption
  <2> QED BY <2>1, <2>2
<1>2. /\ DOMAIN conn = Ends /\ DOMAIN net = Ends
      /\ \A e \in Ends : conn[e] = FreshConnection(ISN[e]) /\ net[e] = {}
  BY DEF Init
<1>3. ASSUME NEW e \in Ends PROVE AtEnd(e)
  <2> DEFINE M == total[e]
             c == FreshConnection(ISN[e])
             s == FreshSender(ISN[e], Timeout)
  <2>1. /\ ISN[e] \in WrappingInt32 /\ Peer(e) \in Ends /\ M \in Nat
        /\ Timeout \in Nat \ {0} /\ RecvCapacity \in Nat
    BY <1>1, EndsType, ConfigAssumption
  <2>2. /\ DOMAIN c = DOMAIN FreshConnection(0) /\ c.sender = s /\ c.receiver = FreshReceiver
        /\ c.segments_out = << >>
    BY DEF FreshConnection
  <2>3. Sending(s, ISN[e], M) /\ s.stream.error = FALSE
    BY ONLY <2>1, FreshSends
  <2>4. conn[Peer(e)].sender.stream = EmptyQueue
    <3>1. conn[Peer(e)].sender = FreshSender(ISN[Peer(e)], Timeout)
      BY ONLY <1>2, <2>1 DEF FreshConnection
    <3> QED BY ONLY <3>1 DEF FreshSender
  <2>5. Written(Peer(e)) = 0
    <3>1. EmptyQueue.buffer = << >> /\ EmptyQueue.popped = 0 /\ Len(<< >>) = 0
      BY ONLY TRUE DEF EmptyQueue
    <3>2. bytes_written(EmptyQueue) = 0
      BY ONLY <3>1 DEF bytes_written
    <3> QED BY ONLY <2>4, <3>2, Zenon DEF Written
  <2>6. Receiving(FreshReceiver, ISN[Peer(e)], 0)
    <3>1. Assembling(EmptyReassembler, 0, RecvCapacity)
      BY <2>1, EmptyAssembles
    <3> QED BY <3>1 DEF Receiving, FreshReceiver
  <2>7. Posted(<< >>, ISN[e], s.stream, ISN[Peer(e)])
    BY DEF Posted
  <2> HIDE DEF c, s
  <2>8. conn[e] = c /\ net[e] = {}
    BY <1>2 DEF c
  <2> QED BY <2>2, <2>3, <2>5, <2>6, <2>7, <2>8 DEF AtEnd, Endpoint
<1> QED BY <1>1, <1>2, <1>3 DEF IInv

\* The sizes and the types that every step starts from
LEMMA AtWork ==
  ASSUME IInv, NEW e \in Ends
  PROVE  /\ Sizes(e, total[e], Written(Peer(e)))
         /\ Peer(e) \in Ends /\ Peer(e) # e /\ Peer(Peer(e)) = e /\ Ends = {e, Peer(e)}
         /\ Written(e) \in Nat /\ Written(e) <= total[e]
         /\ Endpoint(conn[e], e, total[e], Written(Peer(e)))
         /\ conn[e].active => Live(conn[e], e, total[e], Written(Peer(e)))
<1>1. Peer(e) \in Ends /\ Peer(e) # e /\ Peer(Peer(e)) = e /\ Ends = {e, Peer(e)}
  BY DEF Peer, Ends
<1>2. ASSUME NEW d \in Ends
      PROVE  /\ total[d] \in Nat /\ total[d] + 2 <= Half
             /\ Written(d) \in Nat /\ Written(d) <= total[d]
  <2>1. total[d] \in Nat /\ total[d] + 2 <= Half
    BY HalfBelowMod DEF IInv
  <2>2. Sending(conn[d].sender, ISN[d], total[d]) /\ ISN[d] \in WrappingInt32
    BY EndsType DEF IInv, AtEnd, Endpoint
  <2> QED BY <2>1, <2>2, SendingType DEF Written
<1>3. Sizes(e, total[e], Written(Peer(e)))
  BY <1>1, <1>2, HalfBelowMod DEF Sizes
<1> QED BY <1>1, <1>2, <1>3 DEF IInv, AtEnd, Live

\* Whatever a call makes of a connection, its step keeps the invariant.
LEMMA StepIInv ==
  ASSUME IInv, NEW e \in Ends, NEW c, Result(conn[e], c, e, total[e], Written(Peer(e))),
         NEW waiting, waiting \subseteq net[e], Step(e, c, waiting), total' = total
  PROVE  IInv'
<1> DEFINE p == Peer(e)
           n == [c EXCEPT !.segments_out = << >>]
<1>1. /\ p \in Ends /\ p # e /\ Peer(p) = e /\ Ends = {e, p}
      /\ Written(e) \in Nat /\ Written(p) \in Nat
      /\ ISN[e] \in WrappingInt32 /\ ISN[p] \in WrappingInt32
  BY AtWork, EndsType
<1>2. /\ conn' = [conn EXCEPT ![e] = n]
      /\ net' = [d \in Ends |-> IF ~ conn'[d].active THEN {}
                                ELSE IF d = e THEN waiting ELSE net[d] \cup Sent(c)]
  BY DEF Step
<1>3. /\ DOMAIN conn' = Ends /\ conn'[e] = n /\ conn'[p] = conn[p]
      /\ DOMAIN net' = Ends /\ net'[e] \subseteq net[e] /\ net'[p] \subseteq net[p] \cup Sent(c)
  BY <1>1, <1>2 DEF IInv
<1>4. /\ DOMAIN c = DOMAIN FreshConnection(0)
      /\ Sending(c.sender, ISN[e], total[e]) /\ Receiving(c.receiver, ISN[p], Written(p))
      /\ Posted(c.segments_out, ISN[e], c.sender.stream, ISN[p])
      /\ Written(e) <= bytes_written(c.sender.stream)
      /\ conn[e].sender.stream.ended =>
           c.sender.stream.ended /\ bytes_written(c.sender.stream) = Written(e)
      /\ c.sender.stream.error => ~ c.active
  BY DEF Result, Endpoint, Written, Same
<1>5. /\ DOMAIN n = DOMAIN c /\ n.sender = c.sender /\ n.receiver = c.receiver
      /\ n.active = c.active /\ n.segments_out = << >>
  BY <1>4 DEF FreshConnection
<1> HIDE DEF n, p
<1>6. bytes_written(c.sender.stream) \in Nat
  BY <1>1, <1>4, SendingType, AtWork DEF Sizes
<1>7. Written(p)' = Written(p) /\ Written(e)' = bytes_written(c.sender.stream)
  BY <1>3, <1>5 DEF Written
<1>8. /\ Endpoint(conn[p], p, total[p], Written(e)) /\ conn[p].segments_out = << >>
      /\ conn[p].sender.stream.error => ~ conn[p].active
      /\ \A seg \in net[p] : Wired(seg, ISN[e], conn[e].sender.stream, ISN[p])
      /\ \A seg \in net[e] : Wired(seg, ISN[p], conn[p].sender.stream, ISN[e])
  BY <1>1 DEF IInv, AtEnd, p
<1>9. AtEnd(e)'
  <2>1. Posted(<< >>, ISN[e], n.sender.stream, ISN[p])
    BY DEF Posted
  <2>2. Endpoint(n, e, total[e], Written(p))
    BY <2>1, <1>4, <1>5 DEF Endpoint, p
  <2>3. \A seg \in net'[e] : Wired(seg, ISN[p], conn'[p].sender.stream, ISN[e])
    BY <1>3, <1>8
  <2> QED BY <2>2, <2>3, <1>3, <1>4, <1>5, <1>7 DEF AtEnd, p
<1>10. AtEnd(p)'
  <2>1. Receiving(conn[p].receiver, ISN[e], bytes_written(c.sender.stream))
    BY <1>1, <1>4, <1>6, <1>8, ReceivingGrows DEF Endpoint
  <2>2. Endpoint(conn[p], p, total[p], bytes_written(c.sender.stream))
    BY <2>1, <1>1, <1>8 DEF Endpoint
  <2>3. ASSUME NEW seg \in net'[p] PROVE Wired(seg, ISN[e], n.sender.stream, ISN[p])
    <3>1. CASE seg \in net[p]
      <4>1. Wired(seg, ISN[e], conn[e].sender.stream, ISN[p])
        BY <3>1, <1>8
      <4> QED BY <4>1, <1>1, <1>4, <1>5, <1>6, WiredStays DEF Written
    <3>2. CASE seg \in Sent(c)
      BY <3>2, <1>4, <1>5 DEF Sent, Posted
    <3> QED BY <3>1, <3>2, <1>3
  <2> QED BY <2>2, <2>3, <1>1, <1>3, <1>7, <1>8 DEF AtEnd
<1> QED BY <1>1, <1>3, <1>9, <1>10 DEF IInv

\* The calls of the owner that make a connection go on
LEMMA OwnerIInv ==
  ASSUME IInv, NEW e \in Ends,
         Connect(e) \/ Write(e) \/ EndInput(e) \/ Destroy(e) \/ Tick(e)
  PROVE  IInv'
<1> DEFINE c == conn[e]
           M == total[e]
           T == Written(Peer(e))
           r == write(c.sender.stream, SendCapacity, <<bytes_written(c.sender.stream)>>)
           q == end_input(c.sender.stream)
<1>1. /\ Sizes(e, M, T) /\ (c.active => Live(c, e, M, T)) /\ c.segments_out = << >>
      /\ InOrder(c.sender.stream, M) /\ bytes_written(c.sender.stream) \in Nat
  <2>1. /\ Sizes(e, M, T) /\ (c.active => Live(c, e, M, T)) /\ bytes_written(c.sender.stream) \in Nat
    BY AtWork DEF Written
  <2>2. c.segments_out = << >> /\ Sending(c.sender, ISN[e], M)
    BY DEF IInv, AtEnd, Endpoint
  <2> QED BY <2>1, <2>2 DEF Sending
<1>2. net[e] \subseteq net[e]
  OBVIOUS
<1> HIDE DEF M, T
<1>3. CASE Connect(e)
  <2>1. name(e) = "LISTEN" /\ Step(e, collect(c), net[e]) /\ total' = total
    BY <1>3 DEF Connect, CanConnect, connect
  <2>2. Live(c, e, M, T)
    BY <2>1, <1>1, NameIs DEF name
  <2>3. Result(c, collect(c), e, M, T)
    BY <2>2, <1>1, CollectKept, KeptResult
  <2> QED BY <2>1, <2>3, <1>2, StepIInv DEF M, T
<1>4. CASE Write(e)
  <2>1. /\ c.active /\ bytes_written(c.sender.stream) < M
        /\ Step(e, connection_write(c, <<bytes_written(c.sender.stream)>>), net[e]) /\ total' = total
    BY <1>4 DEF Write, CanWrite, M
  <2>2. Live(c, e, M, T) /\ M \in Nat /\ SendCapacity \in Nat /\ ~ c.sender.stream.error
    BY <2>1, <1>1, ConfigAssumption DEF Sizes, Live
  <2>3. Grown(c.sender.stream, r, M) /\ ~ r.error
    <3> DEFINE b == bytes_written(c.sender.stream)
               data == <<b>>
    <3>1. b \in Nat
      BY <1>1
    <3>2. r = write(c.sender.stream, SendCapacity, data)
      OBVIOUS
    <3>3. b = bytes_written(c.sender.stream) /\ b < M
      BY <2>1
    <3> HIDE DEF b
    <3>4. data \in Seq(Nat) /\ Len(data) = 1 /\ data[1] = b
      BY ONLY <3>1
    <3> HIDE DEF data, r
    <3>5. b + Len(data) <= M /\ \A k \in 1 .. Len(data) : data[k] = b + k - 1
      BY ONLY <3>1, <3>4, <3>3, <2>2
    <3>6. /\ bytes_written(c.sender.stream) + Len(data) <= M
          /\ \A k \in 1 .. Len(data) : data[k] = bytes_written(c.sender.stream) + k - 1
      BY ONLY <3>5, <3>3, Zenon
    <3>7. /\ Grown(c.sender.stream, write(c.sender.stream, SendCapacity, data), M)
          /\ write(c.sender.stream, SendCapacity, data).error = c.sender.stream.error
      <4> DEFINE t == c.sender.stream
      <4>1. /\ InOrder(t, M) /\ bytes_written(t) + Len(data) <= M
            /\ \A k \in 1 .. Len(data) : data[k] = bytes_written(t) + k - 1
            /\ M \in Nat /\ SendCapacity \in Nat /\ data \in Seq(Nat)
        BY ONLY <3>4, <3>6, <2>2, <1>1
      <4> HIDE DEF t
      <4>2. /\ Grown(t, write(t, SendCapacity, data), M)
            /\ write(t, SendCapacity, data).error = t.error
        BY ONLY <4>1, WriteGrows, Zenon
      <4> QED BY ONLY <4>2 DEF t
    <3> QED BY ONLY <3>2, <3>7, <2>2, Zenon
  <2>4. connection_write(c, <<bytes_written(c.sender.stream)>>) = collect([c EXCEPT !.sender.stream = r])
    BY DEF connection_write
  <2> HIDE DEF r
  <2>5. Result(c, connection_write(c, <<bytes_written(c.sender.stream)>>), e, M, T)
    BY <2>2, <2>3, <2>4, <1>1, GrownResult
  <2> QED BY <2>1, <2>5, <1>2, StepIInv DEF M, T
<1>5. CASE EndInput(e)
  <2>1. c.active /\ Step(e, end_input_stream(c), net[e]) /\ total' = total
    BY <1>5 DEF EndInput, CanWrite
  <2>2. Live(c, e, M, T) /\ M \in Nat /\ ~ c.sender.stream.error
    BY <2>1, <1>1 DEF Sizes, Live
  <2>3. Grown(c.sender.stream, q, M) /\ ~ q.error
    BY <2>2, <1>1, FlagGrows, Zenon
  <2>4. end_input_stream(c) = collect([c EXCEPT !.sender.stream = q])
    BY DEF end_input_stream
  <2> HIDE DEF q
  <2>5. Result(c, end_input_stream(c), e, M, T)
    BY <2>2, <2>3, <2>4, <1>1, GrownResult
  <2> QED BY <2>1, <2>5, <1>2, StepIInv DEF M, T
<1>6. CASE Destroy(e)
  <2>1. c.active /\ Step(e, destroyed(c), net[e]) /\ total' = total
    BY <1>6 DEF Destroy
  <2>2. Result(c, destroyed(c), e, M, T)
    BY <2>1, <1>1, DestroyedResult
  <2> QED BY <2>1, <2>2, <1>2, StepIInv DEF M, T
<1>7. CASE Tick(e)
  <2> DEFINE ms == Linger \div 2
  <2>1. c.active /\ Step(e, connection_tick(c, ms), net[e]) /\ total' = total
    BY <1>7 DEF Tick, CanTick
  <2>2. ms \in Nat
    BY ConfigAssumption DEF Linger
  <2> HIDE DEF ms
  <2>3. Result(c, connection_tick(c, ms), e, M, T)
    BY <2>1, <2>2, <1>1, TickResult
  <2> QED BY <2>1, <2>3, <1>2, StepIInv DEF M, T
<1> QED BY <1>3, <1>4, <1>5, <1>6, <1>7

\* A segment arrives, or is lost.
LEMMA NetworkIInv ==
  ASSUME IInv, NEW e \in Ends, NEW seg \in net[e],
         (\E again \in BOOLEAN : Deliver(e, seg, again)) \/ Lose(e, seg)
  PROVE  IInv'
<1>1. /\ Sizes(e, total[e], Written(Peer(e)))
      /\ Peer(e) \in Ends /\ Peer(e) # e /\ Peer(Peer(e)) = e /\ Ends = {e, Peer(e)}
      /\ conn[e].active => Live(conn[e], e, total[e], Written(Peer(e)))
  BY AtWork
<1>2. CASE \E again \in BOOLEAN : Deliver(e, seg, again)
  <2>1. PICK again \in BOOLEAN : Deliver(e, seg, again)
    BY <1>2
  <2> DEFINE waiting == IF again THEN net[e] ELSE net[e] \ {seg}
             c == connection_received(conn[e], seg)
  <2>2. conn[e].active /\ Step(e, c, waiting) /\ total' = total /\ waiting \subseteq net[e]
    BY <2>1 DEF Deliver
  <2>3. FromPeer(seg, e, Written(Peer(e)))
    BY DEF FromPeer, IInv, AtEnd, Written
  <2>4. Result(conn[e], c, e, total[e], Written(Peer(e)))
    BY <1>1, <2>2, <2>3, ReceivedResult
  <2> HIDE DEF waiting, c
  <2> QED BY <2>2, <2>4, StepIInv
<1>3. CASE Lose(e, seg)
  <2>1. conn' = conn /\ total' = total /\ net' = [net EXCEPT ![e] = @ \ {seg}]
    BY <1>3 DEF Lose
  <2>2. DOMAIN net' = Ends /\ \A d \in Ends : net'[d] \subseteq net[d]
    BY <2>1 DEF IInv
  <2>3. ASSUME NEW d \in Ends PROVE AtEnd(d)'
    BY <2>1, <2>2 DEF IInv, AtEnd, Written
  <2> QED BY <2>1, <2>2, <2>3 DEF IInv
<1> QED BY <1>2, <1>3

\* The application reads.
LEMMA ReadIInv == ASSUME IInv, NEW e \in Ends, Read(e) PROVE IInv'
<1> DEFINE c == conn[e]
           n == Len(c.receiver.reassembler.output.buffer)
           out == pop_output(c.receiver.reassembler.output, n)
           rc == [c.receiver EXCEPT !.reassembler.output = out]
           d == [c EXCEPT !.receiver = rc]
           p == Peer(e)
<1>1. /\ conn' = [conn EXCEPT ![e].receiver.reassembler.output = pop_output(@, Len(@.buffer))]
      /\ net' = net /\ total' = total
  BY DEF Read
<1>2. p \in Ends /\ p # e /\ Peer(p) = e /\ Ends = {e, p}
  BY AtWork
<1>3. conn' = [conn EXCEPT ![e] = d]
  BY <1>1
<1>4. /\ DOMAIN c = DOMAIN FreshConnection(0) /\ Receiving(c.receiver, ISN[p], Written(p))
      /\ Written(p) \in Nat
  BY <1>2, AtWork DEF Endpoint
<1>5. n \in Nat
  <2>1. c.receiver.reassembler.output.buffer \in Seq(Nat)
    BY <1>4 DEF Receiving, Assembling, IsOutput
  <2> QED BY <2>1, LenProperties
<1>6. Receiving(rc, ISN[p], Written(p))
  <2> HIDE DEF n, c, p
  <2> QED BY <1>4, <1>5, ReadKeeps
<1>7. /\ DOMAIN d = DOMAIN c /\ d.sender = c.sender /\ d.receiver = rc
      /\ d.segments_out = c.segments_out /\ d.active = c.active
  <2> HIDE DEF rc
  <2> QED BY <1>4 DEF FreshConnection
<1> HIDE DEF d, rc
<1>8. DOMAIN conn' = Ends /\ conn'[e] = d /\ conn'[p] = conn[p]
  BY <1>2, <1>3 DEF IInv
<1>9. Written(e)' = Written(e) /\ Written(p)' = Written(p)
  BY <1>7, <1>8 DEF Written
<1>10. AtEnd(e) /\ AtEnd(p)
  BY <1>2 DEF IInv
<1>11. AtEnd(e)'
  <2>1. Endpoint(d, e, total[e], Written(p))
    BY <1>6, <1>7, <1>10 DEF AtEnd, Endpoint
  <2> HIDE DEF c
  <2> QED BY <2>1, <1>1, <1>7, <1>8, <1>9, <1>10 DEF AtEnd, c
<1>12. AtEnd(p)'
  BY <1>1, <1>2, <1>7, <1>8, <1>9, <1>10 DEF AtEnd
<1> QED BY <1>1, <1>2, <1>8, <1>11, <1>12 DEF IInv

\* Every step keeps the invariant.
LEMMA NextIInv == IInv /\ [Next]_vars => IInv'
<1> SUFFICES ASSUME IInv, [Next]_vars PROVE IInv'
  OBVIOUS
<1>1. CASE UNCHANGED vars
  BY <1>1 DEF vars, IInv, AtEnd, Written
<1>2. CASE Next
  <2>1. PICK e \in Ends :
          \/ Connect(e) \/ Write(e) \/ EndInput(e) \/ Destroy(e) \/ Tick(e)
          \/ Read(e)
          \/ \E seg \in net[e] : (\E again \in BOOLEAN : Deliver(e, seg, again)) \/ Lose(e, seg)
    BY <1>2, Zenon DEF Next
  <2> QED BY <2>1, OwnerIInv, ReadIInv, NetworkIInv
<1> QED BY <1>1, <1>2

\* Whatever is lost, repeated and reordered on the way, whenever timers expire and
\* connections are reset or destroyed, each application reads a prefix of what the
\* other wrote: for every modulus, capacity, payload size, timeout and number of
\* retransmissions, and for streams shorter than half the range of the numbers.
THEOREM Delivery == Spec => []OutputIsPrefix
<1>1. IInv => OutputIsPrefix
  <2> SUFFICES ASSUME IInv, NEW e \in Ends
               PROVE  /\ bytes_written(output(e)) <= Written(Peer(e))
                      /\ \A k \in 1 .. buffer_size(output(e)) :
                           output(e).buffer[k] = bytes_read(output(e)) + k - 1
    BY DEF OutputIsPrefix, Written
  <2>1. /\ Assembling(conn[e].receiver.reassembler, Written(Peer(e)), RecvCapacity)
        /\ Written(Peer(e)) \in Nat
    BY AtWork DEF Endpoint, Receiving
  <2>2. /\ IsOutput(output(e), RecvCapacity)
        /\ bytes_written(output(e)) <= conn[e].receiver.reassembler.first_unassembled
        /\ conn[e].receiver.reassembler.first_unassembled \in Nat
        /\ conn[e].receiver.reassembler.first_unacceptable \in Nat
        /\ conn[e].receiver.reassembler.first_unassembled
             <= conn[e].receiver.reassembler.first_unacceptable
        /\ conn[e].receiver.reassembler.first_unacceptable <= Written(Peer(e))
    BY <2>1 DEF Assembling, output
  <2>3. bytes_written(output(e)) \in Nat
    <3>1. output(e).buffer \in Seq(Nat) /\ output(e).popped \in Nat
      BY <2>2 DEF IsOutput
    <3>2. Len(output(e).buffer) \in Nat
      BY <3>1, LenProperties
    <3> QED BY <3>1, <3>2 DEF bytes_written
  <2>4. bytes_written(output(e)) <= Written(Peer(e))
    BY ONLY <2>1, <2>2, <2>3
  <2>5. \A k \in 1 .. Len(output(e).buffer) : output(e).buffer[k] = output(e).popped + k - 1
    BY ONLY <2>2 DEF IsOutput
  <2> QED BY ONLY <2>4, <2>5, Zenon DEF buffer_size, bytes_read
<1> QED BY <1>1, InitIInv, NextIInv, PTL DEF Spec
=============================================================================
