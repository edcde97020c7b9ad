-------------------------- MODULE TCPSenderProofs ---------------------------
(***************************************************************************)
(* The TCPSender sends only segments that carry what their sequence        *)
(* numbers stand for, respects the window advertised as long as            *)
(* acknowledgments arrive in order, fills it, and never moves back to an   *)
(* earlier state.  Spec takes every step inside the invariant IInv: the    *)
(* invariant Sending of the operators, and how the window relates to what  *)
(* the peer has acknowledged and advertised.                               *)
(***************************************************************************)
EXTENDS TCPSender, OperatorLemmas

\* The peer acknowledges what was sent, and the right edge of its window lies
\* behind that, by at most its capacity.
Peer ==
  /\ ack \in 0 .. sender.window.next_seqno
  /\ edge \in 0 .. ack + PeerCapacity
  /\ ack > 0 => ack <= edge
  /\ ack = 0 => edge = 0 /\ acks = {}
  /\ acks \subseteq (1 .. ack) \X (0 .. PeerCapacity)
  /\ sender.window.first_seqno <= ack
  /\ sender.window.window_size <= max(PeerCapacity, 1)

\* While acknowledgments arrive in order only the last one is on its way, and
\* the sender's window ends at the peer's right edge or one octet behind it.
Ordered ==
  LET first == sender.window.first_seqno
      size  == sender.window.window_size
  IN  /\ acks \subseteq {<<ack, edge - ack>>}
      /\ sender.window.next_seqno <= first + size
      /\ \/ first = 0
         \/ first + size <= edge
         \/ ack = edge /\ first = edge /\ size = 1

IInv ==
  /\ Sending(sender, ISN, Total)
  /\ ~ sender.stream.error
  /\ orderly \in BOOLEAN
  /\ Peer
  /\ orderly => Ordered

\* A step that does not take the sender back
Forward(s, t) ==
  /\ Sending(t, ISN, Total)
  /\ ~ t.stream.error
  /\ s.window.first_seqno <= t.window.first_seqno
  /\ s.window.next_seqno <= t.window.next_seqno
  /\ s.stream.ended => t.stream.ended /\ bytes_written(t.stream) = bytes_written(s.stream)

\* A step that leaves the window where it is
Still(s, t) ==
  /\ t.window.first_seqno = s.window.first_seqno
  /\ t.window.next_seqno = s.window.next_seqno
  /\ t.window.window_size = s.window.window_size
-----------------------------------------------------------------------------
\* The sender with its queue taken out
LEMMA DrainedKeeps ==
  ASSUME IInv
  PROVE  /\ Sending(Drained, ISN, Total) /\ Drained.stream = sender.stream
         /\ Drained.window = sender.window /\ ~ Drained.stream.error
<1>1. /\ Sending(Drained, ISN, Total) /\ Drained.stream = sender.stream
      /\ Drained.window = sender.window
  BY SenderAssumption, DrainKeeps DEF IInv, Drained
<1> QED BY <1>1 DEF IInv

\* The initial state
LEMMA InitIInv == Init => IInv
<1> SUFFICES ASSUME Init PROVE IInv
  OBVIOUS
<1>1. sender = FreshSender(ISN, Timeout) /\ ack = 0 /\ edge = 0 /\ acks = {} /\ orderly \in BOOLEAN
  BY DEF Init
<1>2. /\ Sending(sender, ISN, Total) /\ ~ sender.stream.error
      /\ sender.window.first_seqno = 0 /\ sender.window.next_seqno = 0
      /\ sender.window.window_size = 1
  BY <1>1, SenderAssumption, FreshSends
<1>3. Peer
  BY <1>1, <1>2, SenderAssumption DEF Peer, max
<1>4. Ordered
  BY <1>1, <1>2 DEF Ordered
<1> QED BY <1>1, <1>2, <1>3, <1>4 DEF IInv

\* A step that does not move the window keeps what relates it to the peer.
LEMMA StillKeeps ==
  ASSUME IInv, Forward(sender, sender'), Still(sender, sender'),
         UNCHANGED <<ack, edge, acks, orderly>>
  PROVE  IInv'
<1>1. Peer'
  BY DEF IInv, Peer, Still
<1>2. orderly => Ordered'
  BY DEF IInv, Ordered, Still
<1> QED BY <1>1, <1>2 DEF IInv, Forward

\* stream_in().write()
LEMMA WriteForward ==
  ASSUME IInv, NEW len \in 1 .. Total, Write(len)
  PROVE  Forward(sender, sender') /\ Still(sender, sender')
<1> DEFINE q == sender.stream
           data == [k \in 1 .. len |-> bytes_written(q) + k - 1]
           r == write(q, Capacity, data)
<1>1. /\ Sending(Drained, ISN, Total) /\ Drained.stream = q
      /\ Drained.window = sender.window /\ ~ q.error
  BY DrainedKeeps
<1>2. InOrder(q, Total) /\ bytes_written(q) \in Nat /\ bytes_written(q) + len <= Total
  BY <1>1, SendingType, SenderAssumption DEF Sending, Write
<1>3. data \in Seq(Nat) /\ Len(data) = len /\ \A k \in 1 .. Len(data) : data[k] = bytes_written(q) + k - 1
  <2>1. len \in Nat /\ \A k \in 1 .. len : bytes_written(q) + k - 1 \in Nat
    BY <1>2, SenderAssumption
  <2> HIDE DEF q
  <2> QED BY <2>1
<1>4. sender' = [Drained EXCEPT !.stream = r]
  BY <1>1 DEF Write
<1> HIDE DEF data
<1>5. Grown(q, r, Total) /\ r.ended = q.ended /\ r.error = q.error
  BY <1>2, <1>3, SenderAssumption, WriteGrows
<1> HIDE DEF r
<1>6. Sending(sender', ISN, Total) /\ sender'.stream = r /\ sender'.window = sender.window
  BY <1>1, <1>4, <1>5, SenderAssumption, StreamKeeps
<1>7. q.ended => bytes_written(r) = bytes_written(q)
  BY <1>5, Zenon DEF Grown, bytes_written
<1>8. sender.window.first_seqno \in Nat /\ sender.window.next_seqno \in Nat
  BY SendingType, SenderAssumption DEF IInv
<1> QED BY <1>1, <1>5, <1>6, <1>7, <1>8 DEF Forward, Still

\* stream_in().end_input()
LEMMA EndInputForward ==
  ASSUME IInv, EndInput
  PROVE  Forward(sender, sender') /\ Still(sender, sender')
<1> DEFINE q == sender.stream
           r == end_input(q)
<1>1. /\ Sending(Drained, ISN, Total) /\ Drained.stream = q
      /\ Drained.window = sender.window /\ ~ q.error
  BY DrainedKeeps
<1>2. InOrder(q, Total)
  BY <1>1 DEF Sending
<1>3. sender' = [Drained EXCEPT !.stream = r]
  BY <1>1 DEF EndInput
<1>4. Grown(q, r, Total) /\ r.error = q.error
  BY <1>2, SenderAssumption, FlagGrows
<1> HIDE DEF r
<1>5. Sending(sender', ISN, Total) /\ sender'.stream = r /\ sender'.window = sender.window
  BY <1>1, <1>3, <1>4, SenderAssumption, StreamKeeps
<1>6. q.ended => r.ended /\ bytes_written(r) = bytes_written(q)
  BY <1>4, Zenon DEF Grown, bytes_written
<1>7. sender.window.first_seqno \in Nat /\ sender.window.next_seqno \in Nat
  BY SendingType, SenderAssumption DEF IInv
<1> QED BY <1>1, <1>4, <1>5, <1>6, <1>7 DEF Forward, Still

\* tick()
LEMMA TickForward ==
  ASSUME IInv, NEW ms \in 1 .. Timeout, Tick(ms)
  PROVE  Forward(sender, sender') /\ Still(sender, sender')
<1>1. /\ Sending(Drained, ISN, Total) /\ Drained.stream = sender.stream
      /\ Drained.window = sender.window /\ ~ sender.stream.error
  BY DrainedKeeps
<1>2. sender' = sender_tick(Drained, ms) /\ ms \in Nat
  BY SenderAssumption DEF Tick
<1>3. /\ Sending(sender', ISN, Total) /\ sender'.stream = sender.stream
      /\ Still(sender, sender')
  <2> DEFINE t == sender_tick(Drained, ms)
  <2>1. /\ Sending(t, ISN, Total) /\ t.stream = Drained.stream
        /\ t.window.first_seqno = Drained.window.first_seqno
        /\ t.window.next_seqno = Drained.window.next_seqno
        /\ t.window.window_size = Drained.window.window_size
    BY <1>1, <1>2, SenderAssumption, TickKeeps
  <2> QED BY <2>1, <1>1, <1>2, Zenon DEF Still
<1>4. sender.window.first_seqno \in Nat /\ sender.window.next_seqno \in Nat
  BY SendingType, SenderAssumption DEF IInv
<1> QED BY <1>1, <1>3, <1>4 DEF Forward, Still

\* send_empty_segment()
LEMMA SendEmptyForward ==
  ASSUME IInv, SendEmptySegment
  PROVE  Forward(sender, sender') /\ Still(sender, sender')
<1>1. /\ Sending(Drained, ISN, Total) /\ Drained.stream = sender.stream
      /\ Drained.window = sender.window /\ ~ sender.stream.error
  BY DrainedKeeps
<1>2. /\ Sending(sender', ISN, Total) /\ sender'.stream = sender.stream
      /\ sender'.window = sender.window
  BY <1>1, SenderAssumption, EmptyKeeps DEF SendEmptySegment
<1>3. sender.window.first_seqno \in Nat /\ sender.window.next_seqno \in Nat
  BY SendingType, SenderAssumption DEF IInv
<1> QED BY <1>1, <1>2, <1>3 DEF Forward, Still

\* fill_window(): the window stays where it is, what is sent fits it.
LEMMA FillForward ==
  ASSUME IInv, FillWindow
  PROVE  Fills(sender, sender', ISN, Total) /\ Forward(sender, sender') /\ IInv'
<1>1. /\ Sending(Drained, ISN, Total) /\ Drained.stream = sender.stream
      /\ Drained.window = sender.window /\ ~ Drained.stream.error
  BY DrainedKeeps
<1>2. Fills(Drained, sender', ISN, Total)
  BY <1>1, SenderAssumption, FillKeeps DEF FillWindow
<1>3. Fills(sender, sender', ISN, Total)
  BY <1>1, <1>2, Zenon DEF Fills
<1>4. /\ Sending(sender', ISN, Total) /\ ~ sender'.stream.error
      /\ sender'.stream.ended = sender.stream.ended
      /\ bytes_written(sender'.stream) = bytes_written(sender.stream)
      /\ sender'.window.first_seqno = sender.window.first_seqno
      /\ sender'.window.window_size = sender.window.window_size
      /\ sender.window.next_seqno <= sender'.window.next_seqno
      /\ sender.window.next_seqno <= sender.window.first_seqno + sender.window.window_size
           => sender'.window.next_seqno <= sender.window.first_seqno + sender.window.window_size
  BY <1>3 DEF Fills, IInv
<1>5. /\ sender.window.first_seqno \in Nat /\ sender.window.next_seqno \in Nat
      /\ sender'.window.next_seqno \in Nat
  BY <1>4, SendingType, SenderAssumption DEF IInv
<1>6. Forward(sender, sender')
  BY <1>4, <1>5 DEF Forward
<1>7. Peer' /\ (orderly => Ordered')
  BY <1>4, <1>5 DEF FillWindow, IInv, Peer, Ordered
<1> QED BY <1>3, <1>4, <1>6, <1>7 DEF FillWindow, IInv

\* ack_received(): the window begins at the number acknowledged and has the size
\* advertised with it.
LEMMA AckForward ==
  ASSUME IInv, NEW a \in acks, AckReceived(a)
  PROVE  Forward(sender, sender') /\ IInv'
<1> DEFINE w == sender.window
           v == sender'.window
           n == a[1]
           size == usable(a[2])
<1>1. /\ Sending(Drained, ISN, Total) /\ Drained.stream = sender.stream
      /\ Drained.window = sender.window /\ ~ Drained.stream.error
  BY DrainedKeeps
<1>2. /\ w.first_seqno \in Nat /\ w.next_seqno \in Nat /\ w.next_seqno <= Half
      /\ w.window_size \in Nat \ {0} /\ w.first_seqno <= w.next_seqno
      /\ w.first_seqno = 0 => w.next_seqno <= 1
  BY SendingType, SenderAssumption DEF IInv, Sending, Counted
<1>3. /\ n \in 1 .. ack /\ a[2] \in 0 .. PeerCapacity /\ ack \in 0 .. w.next_seqno
      /\ edge \in 0 .. ack + PeerCapacity
  BY DEF IInv, Peer
<1>4. n \in Nat /\ n > 0 /\ n <= w.next_seqno /\ a[2] \in Nat
  BY <1>2, <1>3, SenderAssumption
<1>5. wrap(n, ISN) \in WrappingInt32 /\ (wrap(n, ISN) - ISN) % Mod = n
  BY <1>2, <1>4, HalfBelowMod, WrapBack, SenderAssumption
<1>6. Acknowledged(Drained, sender', ISN, Total, (wrap(n, ISN) - ISN) % Mod, size)
  <2> HIDE DEF n
  <2>1. sender' = sender_ack_received(Drained, Timeout, wrap(n, ISN), a[2], MaxPayload)
    BY DEF AckReceived, n
  <2>2. (wrap(n, ISN) - ISN) % Mod # 0
    BY <1>4, <1>5
  <2> QED BY <1>1, <1>4, <1>5, <2>1, <2>2, SenderAssumption, AckReceivedKeeps
<1>7. /\ Sending(sender', ISN, Total) /\ ~ sender'.stream.error
      /\ sender'.stream.ended = sender.stream.ended
      /\ bytes_written(sender'.stream) = bytes_written(sender.stream)
      /\ w.next_seqno <= v.next_seqno
      /\ n \in w.first_seqno .. w.next_seqno => v.first_seqno = n /\ v.window_size = size
      /\ n \notin w.first_seqno .. w.next_seqno
           => v.first_seqno = w.first_seqno /\ v.window_size = w.window_size
      /\ w.next_seqno <= v.first_seqno + v.window_size
           => v.next_seqno <= v.first_seqno + v.window_size
  <2> HIDE DEF n, size
  <2> QED BY <1>1, <1>5, <1>6, Zenon DEF Acknowledged
<1>8. v.next_seqno \in Nat
  BY <1>7, SendingType, SenderAssumption
<1>9. /\ size \in Nat \ {0} /\ size <= max(PeerCapacity, 1)
      /\ a[2] > 0 => size = a[2]
      /\ a[2] = 0 => size = 1
  BY <1>3, <1>4, SenderAssumption DEF usable, max
<1>10. UNCHANGED <<ack, edge, acks, orderly>>
  BY DEF AckReceived
<1> HIDE DEF size
<1>11. Forward(sender, sender')
  BY <1>2, <1>4, <1>7 DEF Forward
<1>12. Peer'
  <2>1. v.first_seqno <= ack /\ v.window_size <= max(PeerCapacity, 1)
    BY <1>2, <1>3, <1>4, <1>7, <1>9 DEF IInv, Peer
  <2>2. ack \in 0 .. v.next_seqno
    BY <1>2, <1>3, <1>7, <1>8
  <2> QED BY <2>1, <2>2, <1>10 DEF IInv, Peer
<1>13. orderly => Ordered'
  <2> SUFFICES ASSUME orderly PROVE Ordered'
    OBVIOUS
  <2>1. Ordered
    BY DEF IInv
  <2>2. n = ack /\ a[2] = edge - ack
    BY <2>1 DEF Ordered
  <2>3. n \in w.first_seqno .. w.next_seqno /\ ack <= edge
    BY <2>2, <1>2, <1>3, <1>4 DEF IInv, Peer
  <2>4. v.first_seqno = ack /\ v.window_size = size
    BY <2>2, <2>3, <1>7
  <2>5. edge \in Nat /\ ack \in Nat
    BY <1>2, <1>3, SenderAssumption
  <2>6. w.next_seqno <= ack + size
    BY <2>1, <2>2, <2>3, <2>5, <1>2, <1>4, <1>9 DEF Ordered
  <2>7. v.next_seqno <= v.first_seqno + v.window_size
    BY <2>4, <2>6, <1>7
  <2>8. \/ v.first_seqno + v.window_size <= edge
        \/ ack = edge /\ v.first_seqno = edge /\ v.window_size = 1
    BY <2>2, <2>3, <2>4, <2>5, <1>9
  <2> QED BY <2>1, <2>7, <2>8, <1>10 DEF Ordered
<1> QED BY <1>7, <1>10, <1>11, <1>12, <1>13 DEF IInv

\* The peer acknowledges more, or opens its window.
LEMMA PeerIInv ==
  ASSUME IInv, NEW a, NEW e, Advertise(a, e),
         a \in 1 .. sender.window.next_seqno, ack <= a, e \in a .. a + PeerCapacity, edge <= e,
         (edge = e /\ ack < a) \/ edge < e
  PROVE  IInv'
<1> DEFINE w == sender.window
<1>1. /\ w.first_seqno \in Nat /\ w.next_seqno \in Nat /\ w.window_size \in Nat \ {0}
      /\ w.first_seqno <= w.next_seqno
  BY SendingType, SenderAssumption DEF IInv, Sending
<1>2. ack' = a /\ edge' = e /\ sender' = sender /\ orderly' = orderly
  BY DEF Advertise
<1>3. PICK late \in SUBSET acks : /\ orderly => late = {}
                                  /\ acks' = late \cup {<<a, e - a>>}
  BY DEF Advertise
<1>4. ack \in Nat /\ edge \in Nat /\ a \in Nat /\ e \in Nat /\ e - a \in 0 .. PeerCapacity
  BY <1>1, SenderAssumption DEF IInv, Peer
<1>5. acks' \subseteq (1 .. a) \X (0 .. PeerCapacity)
  <2>1. 1 .. ack \subseteq 1 .. a
    BY <1>4
  <2>2. acks \subseteq (1 .. a) \X (0 .. PeerCapacity)
    BY <2>1 DEF IInv, Peer
  <2>3. <<a, e - a>> \in (1 .. a) \X (0 .. PeerCapacity)
    BY <1>4
  <2> QED BY <2>2, <2>3, <1>3
<1>6. Peer'
  <2>1. a \in 0 .. w.next_seqno /\ e \in 0 .. a + PeerCapacity /\ a <= e /\ a # 0
    BY <1>1, <1>4
  <2>2. w.first_seqno <= a /\ w.window_size <= max(PeerCapacity, 1)
    BY <1>1, <1>4 DEF IInv, Peer
  <2> QED BY <2>1, <2>2, <1>2, <1>5 DEF Peer
<1>7. orderly => Ordered'
  <2> SUFFICES ASSUME orderly PROVE Ordered'
    OBVIOUS
  <2>1. Ordered
    BY DEF IInv
  <2>2. acks' \subseteq {<<a, e - a>>}
    BY <1>3
  <2>3. \/ w.first_seqno = 0
        \/ w.first_seqno + w.window_size <= e
    BY <2>1, <1>1, <1>4 DEF Ordered
  <2> QED BY <2>1, <2>2, <2>3, <1>2 DEF Ordered
<1> QED BY <1>2, <1>6, <1>7 DEF IInv
-----------------------------------------------------------------------------
\* Every step keeps the invariant and takes the sender forward.
LEMMA NextIInv ==
  ASSUME IInv, [Next]_vars
  PROVE  IInv' /\ Forward(sender, sender')
<1>0. /\ sender.window.first_seqno \in Nat /\ sender.window.next_seqno \in Nat
      /\ sender.window.window_size \in Nat
  BY SendingType, SenderAssumption DEF IInv
<1>1. sender' = sender => Forward(sender, sender')
  BY <1>0 DEF Forward, IInv
<1>2. CASE UNCHANGED vars
  BY <1>1, <1>2 DEF vars, IInv, Peer, Ordered
<1>3. ASSUME NEW len \in 1 .. Total, Write(len) PROVE IInv' /\ Forward(sender, sender')
  BY <1>3, WriteForward, StillKeeps DEF Write
<1>4. CASE EndInput
  BY <1>4, EndInputForward, StillKeeps DEF EndInput
<1>5. CASE FillWindow
  BY <1>5, FillForward
<1>6. ASSUME NEW a \in acks, AckReceived(a) PROVE IInv' /\ Forward(sender, sender')
  BY <1>6, AckForward
<1>7. ASSUME NEW ms \in 1 .. Timeout, Tick(ms) PROVE IInv' /\ Forward(sender, sender')
  BY <1>7, TickForward, StillKeeps DEF Tick
<1>8. CASE SendEmptySegment
  BY <1>8, SendEmptyForward, StillKeeps DEF SendEmptySegment
<1>9. ASSUME NEW a \in 1 .. Total + 2, PeerReceives(a) PROVE IInv' /\ Forward(sender, sender')
  <2> DEFINE e == IF ack = 0 THEN 1 + PeerCapacity ELSE edge
  <2>1. Advertise(a, e) /\ ack < a /\ a <= sender.window.next_seqno
    BY <1>9 DEF PeerReceives, next_seqno_absolute
  <2>2. /\ ack \in Nat /\ edge \in 0 .. ack + PeerCapacity /\ (ack = 0 => edge = 0)
        /\ PeerCapacity \in Nat /\ a \in Nat
    BY <1>0, SenderAssumption DEF IInv, Peer
  <2>3. /\ a \in 1 .. sender.window.next_seqno /\ ack <= a /\ e \in a .. a + PeerCapacity
        /\ edge <= e /\ ((edge = e /\ ack < a) \/ edge < e)
    BY <2>1, <2>2, <1>0, <1>9 DEF PeerReceives
  <2> HIDE DEF e
  <2>4. IInv'
    BY <2>1, <2>3, PeerIInv
  <2> QED BY <2>1, <2>4, <1>1 DEF Advertise
<1>10. ASSUME NEW e \in 1 .. Total + 2 + PeerCapacity, PeerReads(e)
       PROVE  IInv' /\ Forward(sender, sender')
  <2>1. Advertise(ack, e) /\ ack > 0 /\ edge < e /\ e <= ack + PeerCapacity
    BY <1>10 DEF PeerReads
  <2>2. /\ ack \in Nat /\ ack \in 1 .. sender.window.next_seqno /\ e \in ack .. ack + PeerCapacity
        /\ ack <= ack /\ edge <= e
    BY <2>1, <1>0, SenderAssumption DEF IInv, Peer
  <2>3. IInv'
    BY <2>1, <2>2, PeerIInv
  <2> QED BY <2>1, <2>3, <1>1 DEF Advertise
<1> QED BY <1>2, <1>3, <1>4, <1>5, <1>6, <1>7, <1>8, <1>9, <1>10 DEF Next

\* The invariant holds in every behaviour.
THEOREM SenderInvariant == Spec => []IInv
<1>1. IInv /\ [Next]_vars => IInv'
  BY NextIInv
<1> QED BY InitIInv, <1>1, PTL DEF Spec

\* Every segment the sender queues, new or sent again, carries the bytes its
\* sequence number stands for.
THEOREM HonestSegments == Spec => []SegmentsAreHonest
<1>1. IInv => SegmentsAreHonest
  <2> SUFFICES ASSUME IInv, NEW i \in 1 .. Len(sender.segments_out)
               PROVE  LET seg  == sender.segments_out[i]
                          from == Sequel(seg)
                      IN  /\ seg.syn <=> from = 0 /\ length_in_sequence_space(seg) > 0
                          /\ \A k \in 1 .. Len(seg.payload) : seg.payload[k] = from + k - 2
                          /\ seg.fin => /\ sender.stream.ended
                                        /\ from + Len(seg.payload) = bytes_written(sender.stream) + 1
    BY DEF SegmentsAreHonest
  <2>1. HonestSegment(sender.segments_out[i], ISN, sender.stream)
    BY DEF IInv, Sending, QueuedSegments
  <2> QED BY <2>1, Zenon DEF HonestSegment, Sequel
<1> QED BY <1>1, SenderInvariant, PTL

\* While acknowledgments arrive in order, nothing is sent beyond the window the
\* peer advertised, except one octet into a closed one.
THEOREM RespectsWindow == Spec => []OrderlyWindowRespected
<1>1. IInv => OrderlyWindowRespected
  <2> SUFFICES ASSUME IInv, orderly PROVE WindowRespected
    BY DEF OrderlyWindowRespected
  <2>1. /\ sender.window.first_seqno \in Nat /\ sender.window.next_seqno \in Nat
        /\ sender.window.window_size \in Nat
        /\ sender.window.first_seqno = 0 => sender.window.next_seqno <= 1
    BY SendingType, SenderAssumption DEF IInv, Sending, Counted
  <2>2. ack \in Nat /\ edge \in Nat /\ (ack > 0 => ack <= edge)
    BY <2>1, SenderAssumption DEF IInv, Peer
  <2>3. Ordered
    BY DEF IInv
  <2> QED BY <2>1, <2>2, <2>3 DEF Ordered, WindowRespected
<1> QED BY <1>1, SenderInvariant, PTL

\* After fill_window() what is left in the stream does not fit the window.
THEOREM FillsWindow == Spec => WindowFilled
<1> DEFINE Filled ==
      LET w == sender'.window
      IN  \/ sender'.stream.buffer = << >> /\ (sender'.stream.ended => state(sender') # "SYN_ACKED")
          \/ bytes_in_flight(w) >= w.window_size
<1>1. IInv /\ [Next]_vars => [FillWindow => Filled]_vars
  <2> SUFFICES ASSUME IInv, FillWindow PROVE Filled
    OBVIOUS
  <2>1. /\ Sending(Drained, ISN, Total) /\ ~ Drained.stream.error
    BY DrainedKeeps
  <2>2. /\ sender'.window.next_seqno > 0 /\ ~ more_to_send(sender', MaxPayload)
    BY <2>1, SenderAssumption, FillKeeps DEF FillWindow
  <2>3. IInv'
    BY FillForward
  <2>4. Sending(sender', ISN, Total) /\ ~ sender'.stream.error
    BY <2>3 DEF IInv
  <2>5. sender'.window.window_size \in Nat /\ sender'.window.window_size <= max(PeerCapacity, 1)
    BY <2>3, <2>4, SendingType, SenderAssumption DEF IInv, Peer
  <2>6. Fits64(sender'.window.window_size)
    <3> DEFINE N == Mod * Mod
    <3>1. N \in Nat /\ N > 1 /\ PeerCapacity < N
      <4>1. \A m \in Nat : m > 1 => m * m \in Nat /\ m * m > 1
        OBVIOUS
      <4> QED BY <4>1, HalfBelowMod, SenderAssumption
    <3> HIDE DEF N
    <3>2. sender'.window.window_size < N
      BY <3>1, <2>5, SenderAssumption DEF max
    <3> QED BY <3>1, <3>2 DEF N, Fits64
  <2> DEFINE t == sender'
  <2> HIDE DEF Filled
  <2>7. \/ /\ t.stream.buffer = << >>
           /\ t.stream.ended => state(t) # "SYN_ACKED"
        \/ bytes_in_flight(t.window) >= t.window.window_size
    BY <2>2, <2>4, <2>6, SenderAssumption, Stopped
  <2> QED BY <2>7, Zenon DEF Filled
<1> QED BY <1>1, SenderInvariant, PTL DEF Spec, WindowFilled

\* What state() reads off a sender has the rank its counters say.
LEMMA RankIs ==
  ASSUME NEW s, Sending(s, ISN, Total), ~ s.stream.error
  PROVE  Rank(state(s)) = IF s.window.next_seqno = 0 THEN 0
                          ELSE IF s.window.first_seqno = 0 THEN 1
                          ELSE IF s.window.next_seqno = s.stream.popped + 1 THEN 2
                          ELSE IF s.window.first_seqno < s.window.next_seqno THEN 3
                          ELSE 4
<1> DEFINE first == s.window.first_seqno
           next == s.window.next_seqno
<1>1. /\ first \in Nat /\ next \in Nat /\ first <= next /\ s.stream.popped \in Nat
      /\ next > 0 => next = s.stream.popped + 1 \/ next = s.stream.popped + 2
  BY SendingType, SenderAssumption DEF Sending, Counted
<1>2. /\ next = 0 => state(s) = "CLOSED"
      /\ next > 0 /\ first = 0 => state(s) = "SYN_SENT"
      /\ first > 0 /\ next = s.stream.popped + 1 => state(s) = "SYN_ACKED"
      /\ first > 0 /\ next = s.stream.popped + 2 =>
           state(s) = IF first < next THEN "FIN_SENT" ELSE "FIN_ACKED"
  BY SenderAssumption, StateIs
<1>3. /\ Rank("CLOSED") = 0 /\ Rank("SYN_SENT") = 1 /\ Rank("SYN_ACKED") = 2
      /\ Rank("FIN_SENT") = 3 /\ Rank("FIN_ACKED") = 4
  BY DEF Rank
<1> HIDE DEF first, next
<1>4. next # s.stream.popped + 1 /\ next > 0 => next = s.stream.popped + 2
  BY <1>1
<1>5. CASE next = 0
  BY <1>2, <1>3, <1>5, Zenon DEF next
<1>6. CASE next > 0 /\ first = 0
  <2>1. next # 0
    BY <1>6, <1>1
  <2> QED BY <2>1, <1>2, <1>3, <1>6, Zenon DEF first, next
<1>7. CASE next > 0 /\ first > 0
  <2>1. next # 0 /\ first # 0
    BY <1>7, <1>1
  <2> QED BY <2>1, <1>2, <1>3, <1>4, <1>7, Zenon DEF first, next
<1> QED BY <1>1, <1>5, <1>6, <1>7

\* The state only moves forward, whatever acknowledgments arrive.
THEOREM MovesForward == Spec => StateMovesForward
<1>1. IInv /\ [Next]_vars => [Rank(state(sender')) >= Rank(state(sender))]_vars
  <2> SUFFICES ASSUME IInv, [Next]_vars PROVE Rank(state(sender')) >= Rank(state(sender))
    OBVIOUS
  <2>1. Forward(sender, sender')
    BY NextIInv
  <2> DEFINE s == sender
             t == sender'
             n == bytes_written(s.stream)
             m == bytes_written(t.stream)
  <2>2. /\ Sending(s, ISN, Total) /\ ~ s.stream.error
        /\ Sending(t, ISN, Total) /\ ~ t.stream.error
    BY <2>1 DEF IInv, Forward
  <2>3. /\ s.window.first_seqno \in Nat /\ s.window.next_seqno \in Nat /\ s.stream.popped \in Nat
        /\ n \in Nat /\ n = s.stream.popped + Len(s.stream.buffer) /\ Len(s.stream.buffer) \in Nat
    BY <2>2, SendingType, SenderAssumption
  <2>4. /\ t.window.first_seqno \in Nat /\ t.window.next_seqno \in Nat /\ t.stream.popped \in Nat
        /\ m \in Nat /\ m = t.stream.popped + Len(t.stream.buffer) /\ Len(t.stream.buffer) \in Nat
    BY <2>2, SendingType, SenderAssumption
  <2>5. /\ s.window.first_seqno <= s.window.next_seqno /\ t.window.first_seqno <= t.window.next_seqno
        /\ s.window.next_seqno > 0 => \/ s.window.next_seqno = s.stream.popped + 1
                                      \/ s.window.next_seqno = s.stream.popped + 2 /\ eof(s.stream)
        /\ t.window.next_seqno > 0 => \/ t.window.next_seqno = t.stream.popped + 1
                                      \/ t.window.next_seqno = t.stream.popped + 2
    BY <2>2 DEF Sending, Counted
  <2>6. eof(s.stream) => m = n /\ n = s.stream.popped
    <3>1. eof(s.stream) => s.stream.ended /\ Len(s.stream.buffer) = 0
      BY EmptySeq DEF eof
    <3> QED BY <3>1, <2>1, <2>3 DEF Forward
  <2>7. /\ s.window.first_seqno <= t.window.first_seqno
        /\ s.window.next_seqno <= t.window.next_seqno
    BY <2>1 DEF Forward
  <2>8. ASSUME NEW f \in Nat, NEW x \in Nat, NEW p \in Nat, f <= x,
               x > 0 => x = p + 1 \/ (x = p + 2 /\ m = p),
               NEW g \in Nat, NEW y \in Nat, NEW o \in Nat, g <= y, o <= m,
               y > 0 => y = o + 1 \/ y = o + 2,
               f <= g, x <= y
        PROVE  (IF y = 0 THEN 0 ELSE IF g = 0 THEN 1 ELSE IF y = o + 1 THEN 2 ELSE IF g < y THEN 3 ELSE 4)
                 >= (IF x = 0 THEN 0 ELSE IF f = 0 THEN 1 ELSE IF x = p + 1 THEN 2 ELSE IF f < x THEN 3 ELSE 4)
    <3> HIDE DEF m
    <3>1. m \in Nat
      BY <2>4
    <3>2. CASE x = p + 1
      BY <3>1, <3>2, <2>8
    <3>3. CASE x = p + 2 /\ m = p
      <4>1. y = o + 2 /\ y = x
        BY <3>1, <3>3, <2>8
      <4> QED BY <3>1, <3>3, <4>1, <2>8
    <3>4. CASE x = 0
      BY <3>1, <3>4, <2>8
    <3> QED BY <3>2, <3>3, <3>4, <2>8
  <2>8a. /\ s.window.next_seqno > 0 => \/ s.window.next_seqno = s.stream.popped + 1
                                       \/ (s.window.next_seqno = s.stream.popped + 2 /\ m = s.stream.popped)
         /\ t.stream.popped <= m
    BY <2>4, <2>5, <2>6
  <2>9. /\ Rank(state(s)) = IF s.window.next_seqno = 0 THEN 0
                            ELSE IF s.window.first_seqno = 0 THEN 1
                            ELSE IF s.window.next_seqno = s.stream.popped + 1 THEN 2
                            ELSE IF s.window.first_seqno < s.window.next_seqno THEN 3
                            ELSE 4
        /\ Rank(state(t)) = IF t.window.next_seqno = 0 THEN 0
                            ELSE IF t.window.first_seqno = 0 THEN 1
                            ELSE IF t.window.next_seqno = t.stream.popped + 1 THEN 2
                            ELSE IF t.window.first_seqno < t.window.next_seqno THEN 3
                            ELSE 4
    BY <2>2, RankIs
  <2> DEFINE f == s.window.first_seqno
             x == s.window.next_seqno
             p == s.stream.popped
             g == t.window.first_seqno
             y == t.window.next_seqno
             o == t.stream.popped
             before == Rank(state(s))
             after == Rank(state(t))
  <2>10. /\ f \in Nat /\ x \in Nat /\ p \in Nat /\ f <= x
         /\ x > 0 => x = p + 1 \/ (x = p + 2 /\ m = p)
         /\ g \in Nat /\ y \in Nat /\ o \in Nat /\ g <= y /\ o <= m
         /\ y > 0 => y = o + 1 \/ y = o + 2
         /\ f <= g /\ x <= y
    BY <2>3, <2>4, <2>5, <2>7, <2>8a
  <2>11. /\ before = IF x = 0 THEN 0 ELSE IF f = 0 THEN 1 ELSE IF x = p + 1 THEN 2
                     ELSE IF f < x THEN 3 ELSE 4
         /\ after = IF y = 0 THEN 0 ELSE IF g = 0 THEN 1 ELSE IF y = o + 1 THEN 2
                    ELSE IF g < y THEN 3 ELSE 4
    BY <2>9
  <2> HIDE DEF s, t, f, x, p, g, y, o, before, after, m, n
  <2>12. after >= before
    BY <2>8, <2>10, <2>11
  <2> QED BY <2>12 DEF after, before, s, t
<1> QED BY <1>1, SenderInvariant, PTL DEF Spec, StateMovesForward
=============================================================================
