---------------------------- MODULE TCPReceiver -----------------------------
(***************************************************************************)
(* The TCPReceiver between a network that delivers the segments of one     *)
(* stream, SYN and FIN included, in any order and repeatedly, and a reader *)
(* that pops the output.                                                   *)
(*                                                                         *)
(* The stream occupies the absolute sequence numbers 0 (SYN), 1 .. Total   *)
(* (its bytes, byte at offset i being i itself) and Total + 1 (FIN).  A    *)
(* segment covers [from, to).                                              *)
(***************************************************************************)
EXTENDS ReceiverOps

CONSTANTS Total,       \* length of the stream
          Capacity,    \* constructor argument
          ISNs,        \* initial sequence numbers the peer may choose
          Probe        \* does the peer probe a closed window with one octet?

ASSUME ReceiverAssumption == /\ Total \in Nat
                             /\ Total + 2 <= Half
                             /\ Capacity \in Nat
                             /\ ISNs \subseteq WrappingInt32
                             /\ Probe \in BOOLEAN

VARIABLES receiver,
          isn,         \* the initial sequence number of the peer
          aligned,     \* does the peer repeat segments as it first cut them?
          cuts         \* where the segments of an aligned peer begin and end

vars == <<receiver, isn, aligned, cuts>>

End == Total + 2

Segment(from, to) ==
  [seqno   |-> wrap(from, isn),
   syn     |-> from = 0 /\ to > 0,
   fin     |-> from < to /\ to = End,
   payload |-> [k \in 1 .. min(to, Total + 1) - max(from, 1) |-> max(from, 1) + k - 2]]

re == receiver.reassembler

\* [from, to) is one of the segments the peer sent, or carries nothing.  A SYN
\* comes without data.
Sent(from, to) ==
  \/ from = to
  \/ aligned /\ from \in cuts /\ to \in cuts /\ \A c \in cuts : ~ (from < c /\ c < to)
  \/ ~ aligned /\ (from = 0 => to = 1)

\* No segment is longer than the window can be.
Cuts == {C \in SUBSET (0 .. End) :
           /\ {0, 1, End} \subseteq C
           /\ \A c \in C \ {End} : \E d \in C : c < d /\ d <= c + max(Capacity, 1)}

Init == /\ receiver = FreshReceiver
        /\ isn \in ISNs
        /\ aligned \in BOOLEAN
        /\ cuts \in IF aligned THEN Cuts ELSE {{0, 1, End}}

\* The first absolute sequence number behind the window
Edge(rc) == bytes_read(rc.reassembler.output) + 1 + Capacity

\* What a peer that respects the window may have sent: segments inside it, a SYN,
\* and when the window is closed one octet behind it.
Allowed(from, to) ==
  \/ to <= Edge(receiver)
  \/ to = 1
  \/ Probe /\ window_size(receiver, Capacity) = 0 /\ from = Edge(receiver) /\ to = from + 1

\* segment_received() with a segment the peer sent.  A FIN without data does not
\* overtake the data before it.
Deliver(from, to) ==
  /\ from <= to
  /\ Sent(from, to)
  /\ Allowed(from, to)
  /\ (from = Total + 1 /\ from < to) => left(re) = Total
  /\ receiver' = segment_received(receiver, Capacity, Segment(from, to))
  /\ UNCHANGED <<isn, aligned, cuts>>

\* The application reads from stream_out().
Pop(len) ==
  /\ receiver' = [receiver EXCEPT !.reassembler.output = pop_output(@, len)]
  /\ UNCHANGED <<isn, aligned, cuts>>

Next == \/ \E from, to \in 0 .. End : Deliver(from, to)
        \/ \E len \in 1 .. Capacity : Pop(len)

Spec == Init /\ [][Next]_vars

\* The peer repeats its oldest unacknowledged segment until it arrives, and the
\* application keeps reading.
DeliverOldest == \E to \in 0 .. End : receiver.checkpoint < to /\ Deliver(receiver.checkpoint, to)

FairSpec == /\ Spec
            /\ WF_vars(DeliverOldest)
            /\ WF_vars(\E len \in 1 .. Capacity : Pop(len))
-----------------------------------------------------------------------------
FirstMissing == left(re) + 1 + One(re.output.ended)

\* Everything before the ackno has been stored: the peer may forget it.
AckIsHonest == receiver.is_set => receiver.checkpoint <= FirstMissing

\* tcp_receiver.hh: ackno() is "the sequence number of the first byte in the
\* stream that the receiver hasn't received".
AckIsFirstMissing == receiver.is_set => receiver.checkpoint = FirstMissing

\* The same for a peer that repeats its segments as it first cut them, as
\* TCPSender does; so the ackno jumps over all that had arrived ahead, and a
\* repeated SYN does not move it back.  In an empty stream it does, to the FIN.
AlignedAckIsFirstMissing == aligned /\ Total > 0 => AckIsFirstMissing

\* The right edge of the window advertised to an aligned peer never moves back:
\* what the peer was once allowed to send stays allowed.  Again the stream is not
\* empty.
WindowNeverShrinks ==
  [][aligned /\ Total > 0 /\ receiver.is_set =>
       receiver'.checkpoint + window_size(receiver', Capacity)
         >= receiver.checkpoint + window_size(receiver, Capacity)]_vars

\* When an aligned peer repeats its oldest unacknowledged segment and the
\* application reads, the whole stream is read and the FIN acknowledged.
EventuallyComplete == aligned ~> (/\ eof(re.output)
                                  /\ bytes_read(re.output) = Total
                                  /\ ackno(receiver) = wrap(End, isn))
=============================================================================
