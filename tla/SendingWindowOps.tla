-------------------------- MODULE SendingWindowOps --------------------------
(***************************************************************************)
(* TCPSendingWindow (libsponge/tcp_sending_window.{hh,cc}) as operators on *)
(* a record: the outstanding segments with what remains of their           *)
(* retransmission timeouts, oldest first, and the window over the absolute *)
(* sequence numbers [first_seqno, first_seqno + window_size), of which     *)
(* those below next_seqno have been sent.                                  *)
(***************************************************************************)
EXTENDS TCPSegment, WrappingIntegers

NewWindow(isn, window_size) ==
  [buffer |-> << >>, isn |-> isn, first_seqno |-> 0, window_size |-> window_size, next_seqno |-> 0]

bytes_in_flight(w) == w.next_seqno - w.first_seqno

\* space(): the difference is a size_t, so it wraps when more is in flight than
\* the window holds.
space(w) == (w.window_size - bytes_in_flight(w)) % (Mod * Mod)

full(w) == w.window_size = 0 \/ (w.buffer # << >> /\ space(w) <= 0)

\* The absolute sequence number of a segment, as ack_received() recovers it
seqno_of(w, seg) == unwrap(seg.seqno, w.isn, w.next_seqno)

entry(seg, rto) == [segment |-> seg, remaining_rto |-> rto]

\* add_segment(), called when the window is not full
add_segment(w, seg, rto) ==
  [buffer      |-> Append(w.buffer, entry(seg, rto)),
   isn         |-> w.isn,
   first_seqno |-> w.first_seqno,
   window_size |-> w.window_size,
   next_seqno  |-> seqno_of(w, seg) + length_in_sequence_space(seg)]

\* Mutant: a segment counts as begun one sequence number too late.
Begun_late(w, ack) == {k \in 1 .. Len(w.buffer) : ack > seqno_of(w, w.buffer[k].segment) + 1}

\* The outstanding segments that begin below the acknowledged number; the loop
\* of ack_received() searches for the last of them from the back.
Begun(w, ack) == {k \in 1 .. Len(w.buffer) : ack > seqno_of(w, w.buffer[k].segment)}

\* Mutant: without the second erase().
outstanding_keeps(w, ack) ==
  LET k == CHOOSE m \in Begun(w, ack) : \A j \in Begun(w, ack) : j <= m
  IN  SubSeq(w.buffer, k, Len(w.buffer))

\* The buffer after both erase() calls of ack_received(): the segments before
\* the last one begun go, and that one too when it is acknowledged in full.
outstanding(w, ack) ==
  LET k    == CHOOSE m \in Begun(w, ack) : \A j \in Begun(w, ack) : j <= m
      seg  == w.buffer[k].segment
      done == ack >= seqno_of(w, seg) + length_in_sequence_space(seg)
  IN  SubSeq(w.buffer, k + One(done), Len(w.buffer))

outside(w, ack) == ack > w.next_seqno \/ ack < w.first_seqno

\* Does ack_received() return true: is something newly acknowledged?
acks_new(w, ackno) ==
  LET ack == unwrap(ackno, w.isn, w.next_seqno)
  IN  ~ outside(w, ack) /\ ack # w.first_seqno

\* Mutant: an ackno below the window moves it back.
ack_received_below(w, ackno, window_size) ==
  LET ack == unwrap(ackno, w.isn, w.next_seqno)
  IN  IF ack > w.next_seqno THEN w
      ELSE [buffer      |-> IF acks_new(w, ackno) THEN outstanding(w, ack) ELSE w.buffer,
            isn         |-> w.isn,
            first_seqno |-> ack,
            window_size |-> window_size,
            next_seqno  |-> w.next_seqno]

\* ack_received(): an ackno outside the window is ignored, a repeated one sets
\* the window size, a new one also erases the acknowledged segments.
ack_received(w, ackno, window_size) ==
  LET ack == unwrap(ackno, w.isn, w.next_seqno)
  IN  IF outside(w, ack) THEN w
      ELSE [buffer      |-> IF acks_new(w, ackno) THEN outstanding(w, ack) ELSE w.buffer,
            isn         |-> w.isn,
            first_seqno |-> ack,
            window_size |-> window_size,
            next_seqno  |-> w.next_seqno]

\* The segments tick() returns, the ones whose timeout has run out
Expired(w, ms) == {k \in 1 .. Len(w.buffer) : w.buffer[k].remaining_rto <= ms}

\* tick(): every other timer runs down.
elapsed(w, ms) ==
  [w EXCEPT !.buffer = [k \in 1 .. Len(@) |->
     IF @[k].remaining_rto > ms
     THEN [segment |-> @[k].segment, remaining_rto |-> @[k].remaining_rto - ms] ELSE @[k]]]

\* Mutant: only the oldest segment's timer is set again.
reset_timer_oldest(w, rto) ==
  [w EXCEPT !.buffer = [k \in 1 .. Len(@) |->
     IF k = 1 THEN [segment |-> @[k].segment, remaining_rto |-> rto] ELSE @[k]]]

reset_timer(w, rto) ==
  [w EXCEPT !.buffer = [k \in 1 .. Len(@) |->
     [segment |-> @[k].segment, remaining_rto |-> rto]]]
=============================================================================
