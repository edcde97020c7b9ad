-------------------------- MODULE TCPSendingWindow --------------------------
(***************************************************************************)
(* The TCPSendingWindow as the TCPSender drives it: segments are added at  *)
(* next_seqno() while the window is not full, any ackno may arrive, and    *)
(* the clock ticks.  `rto' is TCPSender::_rto and `resent' the segment the *)
(* last tick() retransmitted.                                              *)
(***************************************************************************)
EXTENDS SendingWindowOps

CONSTANTS ISN,            \* initial sequence number
          RTO,            \* initial retransmission timeout
          MaxLen,         \* bound on the length of a segment
          MaxWindow,      \* bound on the advertised window
          MaxSeqno,       \* bound on next_seqno
          MaxRTO,         \* bound on the timeout, which doubles
          MaxTick         \* bound on the time between two ticks

ASSUME WindowAssumption == /\ ISN \in WrappingInt32
                           /\ RTO \in Nat \ {0}
                           /\ MaxLen \in Nat
                           /\ MaxWindow \in Nat
                           /\ MaxSeqno \in Nat
                           /\ MaxSeqno <= Half
                           /\ MaxRTO \in Nat
                           /\ MaxTick \in Nat

VARIABLES window, rto, resent

vars == <<window, rto, resent>>

\* A segment of `len' sequence numbers, the first of the stream being the SYN
NextSegment(len) ==
  LET syn == window.next_seqno = 0
  IN  [seqno |-> wrap(window.next_seqno, window.isn), syn |-> syn, fin |-> FALSE,
       payload |-> [k \in 1 .. len - One(syn) |-> 0]]

Init == /\ window = NewWindow(ISN, 1)
        /\ rto = RTO
        /\ resent = << >>

\* One turn of the loop of fill_window()
AddSegment(len) ==
  /\ ~ full(window)
  /\ len <= space(window)
  /\ window.next_seqno + len <= MaxSeqno
  /\ window' = add_segment(window, NextSegment(len), rto)
  /\ UNCHANGED <<rto, resent>>

\* TCPSender::ack_received() up to fill_window(): new data acknowledged resets
\* the timeout and all timers.
AckReceived(ackno, window_size) ==
  /\ LET w == ack_received(window, ackno, window_size)
     IN  IF acks_new(window, ackno)
         THEN rto' = RTO /\ window' = reset_timer(w, RTO)
         ELSE rto' = rto /\ window' = w
  /\ UNCHANGED resent

\* ret[0], the segment TCPSender::tick() sends again
ToResend(ms) ==
  window.buffer[CHOOSE k \in Expired(window, ms) : \A j \in Expired(window, ms) : k <= j].segment

\* TCPSender::tick(): when a timer has run out, the timeout doubles (unless the
\* peer's window is closed), all timers are reset and a segment is sent again.
Tick(ms) ==
  LET w == elapsed(window, ms)
  IN  IF Expired(window, ms) = {}
      THEN window' = w /\ resent' = << >> /\ UNCHANGED rto
      ELSE /\ rto' \in {rto, 2 * rto}
           /\ rto' <= MaxRTO
           /\ window' = reset_timer(w, rto')
           /\ resent' = <<ToResend(ms)>>

Next == \/ \E len \in 1 .. MaxLen : AddSegment(len)
        \/ \E ackno \in WrappingInt32, size \in 1 .. MaxWindow : AckReceived(ackno, size)
        \/ \E ms \in 1 .. MaxTick : Tick(ms)

Spec == Init /\ [][Next]_vars
-----------------------------------------------------------------------------
\* Every field stays in its type, and no timer exceeds the current timeout.
TypeOK ==
  /\ window.isn = ISN
  /\ window.first_seqno \in 0 .. window.next_seqno
  /\ window.next_seqno \in 0 .. MaxSeqno
  /\ window.window_size \in 1 .. MaxWindow \cup {1}
  /\ rto \in Nat \ {0}
  /\ \A k \in 1 .. Len(window.buffer) : window.buffer[k].remaining_rto \in 1 .. rto

Begin(k) == (window.buffer[k].segment.seqno - ISN) % Mod

End(k) == Begin(k) + length_in_sequence_space(window.buffer[k].segment)

\* The outstanding segments cover exactly what is in flight: each begins where
\* the one before it ends, the last ends at next_seqno, and first_seqno, which
\* an acknowledgment may have moved into the middle of a segment, lies in the
\* oldest.  Nothing is outstanding exactly when nothing is in flight.
OutstandingIsInFlight ==
  LET n == Len(window.buffer)
  IN  /\ n = 0 <=> window.first_seqno = window.next_seqno
      /\ n > 0 => /\ Begin(1) <= window.first_seqno /\ window.first_seqno < End(1)
                  /\ End(n) = window.next_seqno
      /\ \A k \in 1 .. n - 1 : End(k) = Begin(k + 1)

\* The search of ack_received() for the last segment begun always finds one
\* before it runs past the front of _buffer.
SearchFindsSegment ==
  \A ack \in window.first_seqno + 1 .. window.next_seqno : Begun(window, ack) # {}

\* tcp_sender.cc: a timeout retransmits "the oldest outstanding segment", though
\* every segment has a timer of its own.
ResendsOldest ==
  [][\A ms \in 1 .. MaxTick : Tick(ms) /\ Expired(window, ms) # {} =>
       resent' = <<window.buffer[1].segment>>]_vars
=============================================================================
