----------------------------- MODULE TCPSender ------------------------------
(***************************************************************************)
(* The TCPSender between an application that writes a stream of Total      *)
(* bytes (byte at offset i being i itself) and closes it, and a peer that  *)
(* receives a growing prefix of the sequence numbers sent and advertises a *)
(* window over a buffer of PeerCapacity bytes.  Acknowledgments get lost   *)
(* and repeated, and unless `orderly' is TRUE one may be overtaken by any  *)
(* number of later ones.                                                   *)
(***************************************************************************)
EXTENDS SenderOps, FiniteSets

CONSTANTS Total,          \* length of the stream
          Capacity,       \* capacity of the outgoing stream
          PeerCapacity,   \* capacity of the peer's receiver
          MaxPayload,     \* TCPConfig::MAX_PAYLOAD_SIZE
          Timeout,        \* initial retransmission timeout
          MaxRetx,        \* TCPConfig::MAX_RETX_ATTEMPTS
          ISN

ASSUME SenderAssumption == /\ Total \in Nat
                           /\ Total + 2 <= Half
                           /\ Capacity \in Nat
                           /\ PeerCapacity \in Nat
                           /\ PeerCapacity < Mod * Mod   \* a size_t
                           /\ MaxPayload \in Nat \ {0}
                           /\ Timeout \in Nat \ {0}
                           /\ MaxRetx \in Nat
                           /\ ISN \in WrappingInt32

VARIABLES sender,
          ack, edge,      \* the peer's absolute ackno, and the right edge of its window
          acks,           \* the acknowledgments on their way, as <<ackno, window>>
          orderly         \* do they arrive in order?

vars == <<sender, ack, edge, acks, orderly>>

\* The TCPConnection takes the segments out after every call.
Drained == [sender EXCEPT !.segments_out = << >>]

Init == /\ sender = FreshSender(ISN, Timeout)
        /\ ack = 0
        /\ edge = 0
        /\ acks = {}
        /\ orderly \in BOOLEAN

\* The application writes to stream_in(), or ends it.
Write(len) ==
  /\ bytes_written(sender.stream) + len <= Total
  /\ sender' = [Drained EXCEPT !.stream =
                  write(@, Capacity, [k \in 1 .. len |-> bytes_written(@) + k - 1])]
  /\ UNCHANGED <<ack, edge, acks, orderly>>

EndInput ==
  /\ sender' = [Drained EXCEPT !.stream = end_input(@)]
  /\ UNCHANGED <<ack, edge, acks, orderly>>

FillWindow ==
  /\ sender' = fill_window(Drained, MaxPayload)
  /\ UNCHANGED <<ack, edge, acks, orderly>>

AckReceived(a) ==
  /\ sender' = sender_ack_received(Drained, Timeout, wrap(a[1], ISN), a[2], MaxPayload)
  /\ UNCHANGED <<ack, edge, acks, orderly>>

\* The connection is given up after MaxRetx retransmissions.
Tick(ms) ==
  /\ sender.consecutive <= MaxRetx
  /\ sender' = sender_tick(Drained, ms)
  /\ UNCHANGED <<ack, edge, acks, orderly>>

SendEmptySegment ==
  /\ sender' = send_empty_segment(Drained)
  /\ UNCHANGED <<ack, edge, acks, orderly>>

\* The peer has received everything below a, inside its window, or its
\* application has read; either is acknowledged.
Advertise(a, e) ==
  /\ ack' = a
  /\ edge' = e
  /\ \E late \in SUBSET acks :
       /\ orderly => late = {}
       /\ Cardinality(late) <= 1
       /\ acks' = late \cup {<<a, e - a>>}
  /\ UNCHANGED <<sender, orderly>>

PeerReceives(a) ==
  /\ ack < a /\ a <= next_seqno_absolute(sender)
  /\ ack = 0 => a = 1
  /\ a <= edge \/ ack = 0
  /\ Advertise(a, IF ack = 0 THEN 1 + PeerCapacity ELSE edge)

PeerReads(e) ==
  /\ ack > 0
  /\ edge < e /\ e <= ack + PeerCapacity
  /\ Advertise(ack, e)

Next == \/ \E len \in 1 .. Total : Write(len)
        \/ EndInput
        \/ FillWindow
        \/ \E a \in acks : AckReceived(a)
        \/ \E ms \in 1 .. Timeout : Tick(ms)
        \/ SendEmptySegment
        \/ \E a \in 1 .. Total + 2 : PeerReceives(a)
        \/ \E e \in 1 .. Total + 2 + PeerCapacity : PeerReads(e)

Spec == Init /\ [][Next]_vars
-----------------------------------------------------------------------------
Sequel(seg) == (seg.seqno - ISN) % Mod

\* Every segment sent, new or again, carries the bytes of the stream its
\* sequence number stands for: SYN at 0, byte i at i + 1, and FIN right behind
\* the last byte of a stream that has ended.
SegmentsAreHonest ==
  \A i \in 1 .. Len(sender.segments_out) :
    LET seg  == sender.segments_out[i]
        from == Sequel(seg)
    IN  /\ seg.syn <=> from = 0 /\ length_in_sequence_space(seg) > 0
        /\ \A k \in 1 .. Len(seg.payload) : seg.payload[k] = from + k - 2
        /\ seg.fin => /\ sender.stream.ended
                      /\ from + Len(seg.payload) = bytes_written(sender.stream) + 1

\* send_extra.cc: "Unlike a zero-size window, a full window of nonzero size
\* should be respected": nothing is sent beyond the window the peer advertised,
\* except one octet into a closed one.
WindowRespected ==
  LET next == sender.window.next_seqno
  IN  \/ next <= edge
      \/ ack = 0 /\ next <= 1
      \/ ack = edge /\ next = edge + 1

\* The same while acknowledgments arrive in order.
OrderlyWindowRespected == orderly => WindowRespected

\* tcp_sender.hh: fill_window() sends "segments to fill as much of the window as
\* possible": after it, what is left in the stream does not fit the window.
WindowFilled ==
  [][FillWindow =>
       LET w == sender'.window
       IN  \/ sender'.stream.buffer = << >> /\ (sender'.stream.ended => state(sender') # "SYN_ACKED")
           \/ bytes_in_flight(w) >= w.window_size]_vars

Rank(st) == CASE st = "CLOSED"    -> 0
              [] st = "SYN_SENT"  -> 1
              [] st = "SYN_ACKED" -> 2
              [] st = "FIN_SENT"  -> 3
              [] st = "FIN_ACKED" -> 4

\* The state read off the counters only moves forward, a repeated or outdated
\* acknowledgment included.
StateMovesForward == [][Rank(state(sender')) >= Rank(state(sender))]_vars
=============================================================================
