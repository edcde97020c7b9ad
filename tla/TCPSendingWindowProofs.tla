----------------------- MODULE TCPSendingWindowProofs -----------------------
(***************************************************************************)
(* Proofs about the sending window, for every modulus, timeout and bound:  *)
(* the outstanding segments tile what is in flight, the search of          *)
(* ack_received() succeeds, and a timeout retransmits the oldest segment.  *)
(***************************************************************************)
EXTENDS TCPSendingWindow, OperatorLemmas

\* The inductive invariant: the tiling and the order of the timers
IInv == /\ window \in Windows(ISN)
        /\ window.window_size \in 1 .. MaxWindow \cup {1}
        /\ window.next_seqno \in 0 .. MaxSeqno
        /\ window.first_seqno <= window.next_seqno
        /\ rto \in Nat \ {0}
        /\ Tiled(window.buffer, ISN, window.first_seqno, window.next_seqno)
        /\ Timed(window.buffer, rto)

\* The window of the constructor is empty.
LEMMA InitIInv == Init => IInv
<1> SUFFICES ASSUME Init PROVE IInv
  OBVIOUS
<1>1. /\ window = [buffer |-> << >>, isn |-> ISN, first_seqno |-> 0, window_size |-> 1, next_seqno |-> 0]
      /\ rto = RTO
  BY DEF Init, NewWindow
<1>2. window \in Windows(ISN) /\ 0 \in 0 .. MaxSeqno
  BY <1>1, WindowAssumption, HalfBelowMod DEF Windows
<1>3. Tiled(<< >>, ISN, 0, 0) /\ Timed(<< >>, RTO)
  BY DEF Tiled, Timed
<1> QED BY <1>1, <1>2, <1>3, WindowAssumption DEF IInv

\* The segment added is as long as it should be.
LEMMA NextSegmentIs ==
  ASSUME window.next_seqno \in Nat, window.isn = ISN, NEW len \in Nat \ {0},
         window.next_seqno < Mod
  PROVE  /\ NextSegment(len) \in Segments
         /\ NextSegment(len).seqno = wrap(window.next_seqno, window.isn)
         /\ length_in_sequence_space(NextSegment(len)) = len
<1> DEFINE syn == window.next_seqno = 0
           seg == NextSegment(len)
           m == len - One(syn)
           zeros == [k \in 1 .. m |-> 0]
<1>1. /\ syn \in BOOLEAN
      /\ seg = [seqno |-> wrap(window.next_seqno, window.isn), syn |-> syn, fin |-> FALSE,
                payload |-> zeros]
  BY Zenon DEF NextSegment
<1>2. wrap(window.next_seqno, window.isn) \in WrappingInt32
  BY WrapBack, WindowAssumption, HalfBelowMod
<1> HIDE DEF syn
<1>3. One(syn) \in 0 .. 1
  BY OneRange, Zenon
<1>4. m \in Nat
  BY <1>3
<1>5. zeros \in Seq(Nat) /\ Len(zeros) = m
  <2> HIDE DEF m
  <2> QED BY <1>4
<1> HIDE DEF seg, zeros
<1>6. seg \in Segments /\ seg.seqno = wrap(window.next_seqno, window.isn)
  BY <1>1, <1>2, <1>5 DEF Segments
<1>7. seg.syn = syn /\ seg.fin = FALSE /\ seg.payload = zeros
  BY <1>1
<1>8. One(FALSE) = 0
  BY DEF One
<1>9. length_in_sequence_space(seg) = One(syn) + m + 0
  BY <1>5, <1>7, <1>8, Zenon DEF length_in_sequence_space
<1>10. length_in_sequence_space(seg) = len
  BY <1>3, <1>9
<1> QED BY <1>6, <1>10, Zenon DEF seg

\* One turn of the loop of fill_window()
LEMMA AddSegmentIInv ==
  ASSUME IInv, NEW len \in 1 .. MaxLen, AddSegment(len)
  PROVE  IInv'
<1> DEFINE seg == NextSegment(len)
           e == entry(seg, rto)
<1>1. /\ window \in Windows(ISN) /\ rto \in Nat \ {0} /\ len \in Nat \ {0}
      /\ window.first_seqno \in Nat /\ window.next_seqno \in Nat /\ window.isn = ISN
      /\ window.first_seqno <= window.next_seqno /\ window.next_seqno < Mod
      /\ Tiled(window.buffer, ISN, window.first_seqno, window.next_seqno)
      /\ Timed(window.buffer, rto)
  BY WindowAssumption, HalfBelowMod DEF IInv, Windows
<1>2. /\ window' = add_segment(window, seg, rto) /\ rto' = rto
      /\ window.next_seqno + len <= MaxSeqno
  BY DEF AddSegment
<1>3. /\ seg \in Segments /\ seg.seqno = wrap(window.next_seqno, window.isn)
      /\ length_in_sequence_space(seg) = len
  BY <1>1, NextSegmentIs
<1> HIDE DEF seg
<1>4. window.next_seqno + len <= Half /\ len > 0
  BY <1>1, <1>2, WindowAssumption, HalfBelowMod
<1>5. /\ window' \in Windows(ISN)
      /\ window'.first_seqno = window.first_seqno /\ window'.window_size = window.window_size
      /\ window'.next_seqno = window.next_seqno + len
      /\ window'.buffer = Append(window.buffer, e) /\ e \in Entries
      /\ Tiled(window'.buffer, ISN, window'.first_seqno, window'.next_seqno)
  BY <1>1, <1>2, <1>3, <1>4, AddKeeps, WindowAssumption
<1>6. e.remaining_rto = rto
  BY DEF entry
<1> HIDE DEF e
<1>7. Timed(window'.buffer, rto')
  BY <1>1, <1>2, <1>5, <1>6, AppendTimed DEF Tiled
<1>8. /\ window'.next_seqno \in 0 .. MaxSeqno /\ window'.first_seqno <= window'.next_seqno
      /\ window'.window_size \in 1 .. MaxWindow \cup {1}
  BY <1>1, <1>2, <1>5, WindowAssumption DEF IInv
<1> QED BY <1>1, <1>2, <1>5, <1>7, <1>8 DEF IInv

\* An acknowledgment: outside the window, repeated or new
LEMMA AckReceivedIInv ==
  ASSUME IInv, NEW ackno_ \in WrappingInt32, NEW size \in 1 .. MaxWindow, AckReceived(ackno_, size)
  PROVE  IInv'
<1> DEFINE ack == (ackno_ - ISN) % Mod
           w == ack_received(window, ackno_, size)
<1>1. /\ window \in Windows(ISN) /\ rto \in Nat \ {0}
      /\ window.first_seqno \in Nat /\ window.next_seqno \in Nat
      /\ window.first_seqno <= window.next_seqno
      /\ Tiled(window.buffer, ISN, window.first_seqno, window.next_seqno)
      /\ Timed(window.buffer, rto) /\ size \in Nat \ {0}
  BY WindowAssumption, HalfBelowMod DEF IInv, Windows
<1>2. Moves(window, w, ISN, ackno_, ack, size)
  BY <1>1, AckKeeps, WindowAssumption
<1>3. IF acks_new(window, ackno_) THEN rto' = RTO /\ window' = reset_timer(w, RTO)
      ELSE rto' = rto /\ window' = w
  BY Zenon DEF AckReceived
<1> HIDE DEF ack, w
<1>4. /\ ack \in Nat /\ w \in Windows(ISN) /\ w.next_seqno = window.next_seqno
      /\ Tiled(w.buffer, ISN, w.first_seqno, window.next_seqno)
      /\ acks_new(window, ackno_) <=> ack \in window.first_seqno + 1 .. window.next_seqno
      /\ ack \in window.first_seqno .. window.next_seqno
           => w.first_seqno = ack /\ w.window_size = size
      /\ ack \notin window.first_seqno .. window.next_seqno => w = window
      /\ ack \notin window.first_seqno + 1 .. window.next_seqno => w.buffer = window.buffer
  BY <1>2, HalfBelowMod DEF Moves
<1>5. /\ w.first_seqno <= w.next_seqno /\ w.window_size \in 1 .. MaxWindow \cup {1}
      /\ w.next_seqno \in 0 .. MaxSeqno
  BY <1>1, <1>4 DEF IInv
<1>6. CASE ~ acks_new(window, ackno_)
  <2>1. window' = w /\ rto' = rto /\ w.buffer = window.buffer
    BY <1>3, <1>4, <1>6, Zenon
  <2> QED BY <2>1, <1>1, <1>4, <1>5 DEF IInv
<1>7. CASE acks_new(window, ackno_)
  <2>1. window' = reset_timer(w, RTO) /\ rto' = RTO /\ RTO \in Nat \ {0}
    BY <1>3, <1>7, Zenon, WindowAssumption
  <2>2. /\ window' \in Windows(ISN) /\ window'.first_seqno = w.first_seqno
        /\ window'.next_seqno = w.next_seqno /\ window'.window_size = w.window_size
        /\ Timed(window'.buffer, RTO)
        /\ Tiled(window'.buffer, ISN, w.first_seqno, window.next_seqno)
    BY <2>1, <1>4, ResetTiled, WindowAssumption
  <2> QED BY <2>1, <2>2, <1>4, <1>5 DEF IInv
<1> QED BY <1>6, <1>7

\* A tick of the clock
LEMMA TickIInv ==
  ASSUME IInv, NEW ms \in 1 .. MaxTick, Tick(ms)
  PROVE  IInv'
<1> DEFINE w == elapsed(window, ms)
<1>1. /\ window \in Windows(ISN) /\ rto \in Nat \ {0} /\ ms \in Nat
      /\ window.first_seqno <= window.next_seqno
      /\ Tiled(window.buffer, ISN, window.first_seqno, window.next_seqno)
      /\ Timed(window.buffer, rto)
  BY WindowAssumption DEF IInv
<1>2. /\ w \in Windows(ISN) /\ w.first_seqno = window.first_seqno /\ w.next_seqno = window.next_seqno
      /\ w.window_size = window.window_size
      /\ Tiled(w.buffer, ISN, window.first_seqno, window.next_seqno)
      /\ Expired(window, ms) = {} => Timed(w.buffer, rto)
  <2>1. ISN \in WrappingInt32
    BY WindowAssumption
  <2> QED BY ONLY <1>1, <2>1, ElapsedTiled
<1>3. CASE Expired(window, ms) = {}
  <2>1. window' = w /\ rto' = rto
    BY <1>3, Zenon DEF Tick
  <2> QED BY <2>1, <1>1, <1>2, <1>3 DEF IInv
<1>4. CASE Expired(window, ms) # {}
  <2>1. window' = reset_timer(w, rto') /\ rto' \in {rto, 2 * rto}
    BY <1>4, Zenon DEF Tick
  <2>2. rto' \in Nat \ {0}
    BY <2>1, <1>1
  <2> HIDE DEF w
  <2>3. /\ window' \in Windows(ISN) /\ window'.first_seqno = window.first_seqno
        /\ window'.next_seqno = window.next_seqno /\ window'.window_size = window.window_size
        /\ Timed(window'.buffer, rto')
        /\ Tiled(window'.buffer, ISN, window.first_seqno, window.next_seqno)
    BY <2>1, <2>2, <1>2, ResetTiled, WindowAssumption
  <2> QED BY <2>2, <2>3, <1>1 DEF IInv
<1> QED BY <1>3, <1>4

\* Every step of the sender preserves the inductive invariant.
LEMMA NextIInv == IInv /\ [Next]_vars => IInv'
<1> SUFFICES ASSUME IInv, [Next]_vars PROVE IInv'
  OBVIOUS
<1>1. CASE \E len \in 1 .. MaxLen : AddSegment(len)
  BY <1>1, AddSegmentIInv
<1>2. CASE \E ackno_ \in WrappingInt32, size \in 1 .. MaxWindow : AckReceived(ackno_, size)
  BY <1>2, AckReceivedIInv
<1>3. CASE \E ms \in 1 .. MaxTick : Tick(ms)
  BY <1>3, TickIInv
<1>4. CASE UNCHANGED vars
  BY <1>4, Zenon DEF vars, IInv, Windows
<1> QED BY <1>1, <1>2, <1>3, <1>4, Zenon DEF Next

\* The invariant holds in every behaviour.
LEMMA Invariance == Spec => []IInv
BY InitIInv, NextIInv, PTL DEF Spec
-----------------------------------------------------------------------------
\* The outstanding segments cover exactly what is in flight, for every modulus,
\* ISN, timeout, segment length, window and sequence of calls of the sender.
THEOREM WindowIsTiled == Spec => [](TypeOK /\ OutstandingIsInFlight)
<1>1. IInv => TypeOK
  BY WindowAssumption DEF IInv, Windows, Timed, TypeOK
<1>2. IInv => OutstandingIsInFlight
  <2> SUFFICES ASSUME IInv PROVE OutstandingIsInFlight
    OBVIOUS
  <2>1. \A k : Begin(k) = BeginOf(window.buffer[k], ISN) /\ End(k) = EndOf(window.buffer[k], ISN)
    BY Zenon DEF Begin, End, BeginOf, EndOf
  <2>2. Len(window.buffer) \in Nat
    BY LenProperties DEF IInv, Tiled
  <2> QED BY <2>1, <2>2 DEF IInv, Tiled, OutstandingIsInFlight
<1> QED BY <1>1, <1>2, Invariance, PTL

\* The search of ack_received() for the last segment begun never runs past the
\* front of _buffer, whatever was added and acknowledged before.
THEOREM SearchSucceeds == Spec => []SearchFindsSegment
<1>1. IInv => SearchFindsSegment
  BY OutstandingIsSuffix, WindowAssumption DEF IInv, SearchFindsSegment
<1> QED BY <1>1, Invariance, PTL

\* A timeout retransmits the oldest outstanding segment, for every tick length
\* and timeout: older timers never exceed newer ones.
THEOREM TimeoutResendsOldest == Spec => ResendsOldest
<1>1. IInv /\ [Next]_vars =>
        [\A ms \in 1 .. MaxTick : Tick(ms) /\ Expired(window, ms) # {} =>
           resent' = <<window.buffer[1].segment>>]_vars
  <2> SUFFICES ASSUME IInv, NEW ms \in 1 .. MaxTick, Tick(ms), Expired(window, ms) # {}
               PROVE  resent' = <<window.buffer[1].segment>>
    BY Zenon
  <2>1. window \in Windows(ISN) /\ ms \in Nat /\ rto \in Nat /\ Timed(window.buffer, rto)
    BY WindowAssumption DEF IInv
  <2>2. (CHOOSE k \in Expired(window, ms) : \A j \in Expired(window, ms) : k <= j) = 1
    BY <2>1, OldestExpires, WindowAssumption
  <2>3. resent' = <<ToResend(ms)>>
    BY Zenon DEF Tick
  <2>4. ToResend(ms) = window.buffer[1].segment
    BY <2>2, Zenon DEF ToResend
  <2> QED BY <2>3, <2>4, Zenon
<1> QED BY <1>1, Invariance, PTL DEF Spec, ResendsOldest
=============================================================================
