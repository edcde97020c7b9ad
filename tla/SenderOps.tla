----------------------------- MODULE SenderOps ------------------------------
(***************************************************************************)
(* TCPSender (libsponge/tcp_sender.{hh,cc}) as operators on a record:      *)
(* `stream' is the outgoing ByteStream, `window' the TCPSendingWindow and  *)
(* `segments_out' the queue the TCPConnection empties.                     *)
(***************************************************************************)
EXTENDS ByteQueue, SendingWindowOps

FreshSender(isn, timeout) ==
  [stream |-> EmptyQueue, window |-> NewWindow(isn, 1), rto |-> timeout,
   consecutive |-> 0, window_size_is_zero |-> FALSE, segments_out |-> << >>]

next_seqno_absolute(s) == s.window.next_seqno

\* state(), read off the counters of the stream and of the window
state(s) ==
  LET next   == next_seqno_absolute(s)
      flight == bytes_in_flight(s.window)
  IN  IF s.stream.error THEN "ERROR"
      ELSE IF next = 0 THEN "CLOSED"
      ELSE IF next = flight THEN "SYN_SENT"
      ELSE IF ~ eof(s.stream) \/ next < bytes_written(s.stream) + 2 THEN "SYN_ACKED"
      ELSE IF next = bytes_written(s.stream) + 2 /\ flight > 0 THEN "FIN_SENT"
      ELSE "FIN_ACKED"

\* add_segment() and _send()
send_new(s, seg) ==
  [s EXCEPT !.window = add_segment(@, seg, s.rto), !.segments_out = Append(@, seg)]

SynSegment(s) ==
  [seqno |-> wrap(s.window.next_seqno, s.window.isn), syn |-> TRUE, fin |-> FALSE, payload |-> << >>]

\* Mutant: the payload is cut without looking at the window.
payload_len_whole(s, max_payload) == min(max_payload, buffer_size(s.stream))

payload_len(s, max_payload) == min(space(s.window), min(max_payload, buffer_size(s.stream)))

\* Mutant: the FIN does not wait for the bytes still in the stream.
fin_fits_ended(stream, len, room) == stream.ended /\ len < room

\* FIN goes with the last byte when the window has room for both.
fin_fits(stream, len, room) == eof(stream) /\ len < room

\* The segment one turn of the loop makes, and the stream it leaves
popped(s, max_payload) == pop_output(s.stream, payload_len(s, max_payload))

\* Mutant: the stream is read when its bytes are gone.
next_segment_late(s, max_payload) ==
  [seqno   |-> wrap(s.window.next_seqno, s.window.isn),
   syn     |-> FALSE,
   fin     |-> fin_fits(popped(s, max_payload), payload_len(s, max_payload), space(s.window)),
   payload |-> peek_output(popped(s, max_payload), payload_len(s, max_payload))]

next_segment(s, max_payload) ==
  LET len == payload_len(s, max_payload)
  IN  [seqno   |-> wrap(s.window.next_seqno, s.window.isn),
       syn     |-> FALSE,
       fin     |-> fin_fits(popped(s, max_payload), len, space(s.window)),
       payload |-> peek_output(s.stream, len)]

\* The condition of the loop of fill_window() and its two breaks
more_to_send(s, max_payload) ==
  /\ s.stream.buffer # << >> \/ eof(s.stream)
  /\ ~ full(s.window)
  /\ state(s) \notin {"FIN_SENT", "FIN_ACKED"}
  /\ length_in_sequence_space(next_segment(s, max_payload)) # 0

\* A turn of the loop of fill_window(), which changes nothing once it has stopped
one_turn(s, max_payload) ==
  IF more_to_send(s, max_payload)
  THEN send_new([s EXCEPT !.stream = popped(s, max_payload)], next_segment(s, max_payload))
  ELSE s

\* The loop of fill_window().  Every turn takes a byte out of the stream or sends
\* the FIN, so it stops after as many turns as there are bytes, and one.
send_all(s, max_payload) ==
  LET after[n \in Nat] == IF n = 0 THEN s ELSE one_turn(after[n - 1], max_payload)
  IN  after[buffer_size(s.stream) + 1]

\* Mutant: one segment at a time.
fill_window_once(s, max_payload) ==
  one_turn(IF state(s) = "CLOSED" THEN send_new(s, SynSegment(s)) ELSE s, max_payload)

\* fill_window(): a SYN first, then segments while there is something to send
\* and room for it.
fill_window(s, max_payload) ==
  send_all(IF state(s) = "CLOSED" THEN send_new(s, SynSegment(s)) ELSE s, max_payload)

\* A closed window counts as one octet.
usable(window_size) == max(window_size, 1)

\* ack_received(): a new ackno also restarts the timers and forgets the back-off.
sender_ack_received(s, timeout, ackno, window_size, max_payload) ==
  LET w   == ack_received(s.window, ackno, usable(window_size))
      new == acks_new(s.window, ackno)
      t   == [s EXCEPT !.window_size_is_zero = window_size = 0,
                       !.window = IF new THEN reset_timer(w, timeout) ELSE w,
                       !.rto = IF new THEN timeout ELSE @,
                       !.consecutive = IF new THEN 0 ELSE @]
  IN  fill_window(t, max_payload)

\* tick(): back off, restart all timers, send the first expired segment again.
sender_tick(s, ms) ==
  LET late == Expired(s.window, ms)
      oldest == CHOOSE k \in late : \A j \in late : k <= j
      rto  == IF s.window_size_is_zero THEN s.rto ELSE 2 * s.rto
  IN  IF late = {}
      THEN [s EXCEPT !.window = elapsed(@, ms)]
      ELSE [s EXCEPT !.window = reset_timer(elapsed(@, ms), rto),
                     !.rto = rto,
                     !.consecutive = @ + 1,
                     !.segments_out = Append(@, s.window.buffer[oldest].segment)]

send_empty_segment(s) ==
  [s EXCEPT !.segments_out = Append(@,
     [seqno |-> wrap(s.window.next_seqno, s.window.isn), syn |-> FALSE, fin |-> FALSE,
      payload |-> << >>])]
=============================================================================
