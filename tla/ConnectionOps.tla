--------------------------- MODULE ConnectionOps ----------------------------
(***************************************************************************)
(* TCPConnection (libsponge/tcp_connection.{hh,cc}) as operators on a      *)
(* record.  A segment on the wire has the fields of the sender's segments  *)
(* and ack, ackno, win and rst besides.                                    *)
(***************************************************************************)
EXTENDS TCPState

CONSTANTS SendCapacity, RecvCapacity, Timeout, MaxPayload, MaxRetx   \* TCPConfig

ASSUME ConfigAssumption == /\ SendCapacity \in Nat
                           /\ RecvCapacity \in Nat
                           /\ Timeout \in Nat \ {0}
                           /\ MaxPayload \in Nat \ {0}
                           /\ MaxRetx \in Nat

FreshConnection(isn) ==
  [sender |-> FreshSender(isn, Timeout), receiver |-> FreshReceiver, segments_out |-> << >>,
   linger |-> TRUE, active |-> TRUE, since |-> 0]

\* TCPSegment's and TCPHeader's defaults
EmptySegment == [seqno |-> 0, syn |-> FALSE, fin |-> FALSE, payload |-> << >>]

WireSegment(seg, ack, ackno_, win, rst) ==
  [seqno |-> seg.seqno, syn |-> seg.syn, fin |-> seg.fin, payload |-> seg.payload,
   ack |-> ack, ackno |-> ackno_, win |-> win, rst |-> rst]

\* _add_ack_info(), for a receiver that has an ackno
add_ack_info(c, seg) ==
  WireSegment(seg, TRUE, ackno(c.receiver), window_size(c.receiver, RecvCapacity), FALSE)

\* _collect_sender_segments_out(): fill the window, then move the sender's queue
\* to the connection's, with the newest acknowledgment on every segment.
collect(c) ==
  LET s == fill_window(c.sender, MaxPayload)
  IN  [c EXCEPT !.sender = [s EXCEPT !.segments_out = << >>],
                !.segments_out = @ \o [i \in 1 .. Len(s.segments_out) |->
                   IF c.receiver.is_set THEN add_ack_info(c, s.segments_out[i])
                   ELSE WireSegment(s.segments_out[i], FALSE, 0, 0, FALSE)]]

\* _sender.ack_received() and _receiver.segment_received()
acknowledged(c, seg) ==
  [c EXCEPT !.sender = sender_ack_received(@, Timeout, seg.ackno, seg.win, MaxPayload)]

taken_in(c, seg) == [c EXCEPT !.receiver = segment_received(@, RecvCapacity, seg)]

\* An acknowledgment straight into the connection's queue
send_ack(c) == [c EXCEPT !.segments_out = Append(@, add_ack_info(c, EmptySegment))]

\* _reset_received(), and what it shares with _unclean_shutdown()
reset_received(c) ==
  [c EXCEPT !.sender.stream = set_error(@), !.receiver.reassembler.output = set_error(@),
            !.active = FALSE, !.linger = FALSE]

unclean_shutdown(c) ==
  [reset_received(c) EXCEPT !.segments_out =
     Append(@, WireSegment(EmptySegment, FALSE, 0, 0, TRUE))]

-----------------------------------------------------------------------------
\* The branches of segment_received(), one per official state

on_listen(c, seg) == IF seg.syn THEN collect(taken_in(c, seg)) ELSE c

on_syn_sent(c, seg) ==
  CASE seg.syn /\ seg.ack   -> send_ack(acknowledged(taken_in(c, seg), seg))
    [] seg.syn /\ ~ seg.ack -> send_ack(taken_in(c, seg))
    [] ~ seg.syn            -> c

on_syn_rcvd(c, seg) == IF seg.ack THEN acknowledged(taken_in(c, seg), seg) ELSE c

\* Mutant: linger_after_streams_finish stays set when the peer ends first.
on_established_lingers(c, seg, name) ==
  LET b == IF length_in_sequence_space(seg) # 0 \/ ~ seg.ack
           THEN collect([taken_in(c, seg) EXCEPT
                           !.sender.segments_out = Append(@, EmptySegment)])
           ELSE c
  IN  IF seg.ack THEN collect(acknowledged(b, seg)) ELSE b

\* Mutant: in FIN_WAIT_1 only a FIN is taken in.
on_established_deaf(c, seg, name) ==
  LET a == IF seg.fin /\ name # "FIN_WAIT_1" THEN [c EXCEPT !.linger = FALSE] ELSE c
      b == IF name = "ESTABLISHED" \/ seg.fin
           THEN collect([taken_in(a, seg) EXCEPT
                           !.sender.segments_out = Append(@, EmptySegment)])
           ELSE a
  IN  IF seg.ack THEN collect(acknowledged(b, seg)) ELSE b

\* ESTABLISHED and FIN_WAIT_1.  The acknowledgment goes through the sender's
\* queue, ahead of what fill_window() adds.
on_established(c, seg, name) ==
  LET a == IF seg.fin /\ name # "FIN_WAIT_1" THEN [c EXCEPT !.linger = FALSE] ELSE c
      b == IF length_in_sequence_space(seg) # 0 \/ ~ seg.ack
           THEN collect([taken_in(a, seg) EXCEPT
                           !.sender.segments_out = Append(@, EmptySegment)])
           ELSE a
  IN  IF seg.ack THEN collect(acknowledged(b, seg)) ELSE b

on_fin_wait_2(c, seg) ==
  IF seg.fin /\ seg.ack THEN send_ack(acknowledged(taken_in(c, seg), seg)) ELSE c

on_last_ack(c, seg) ==
  LET a == acknowledged(c, seg)
  IN  CASE ~ seg.ack -> c
        [] seg.ack /\ state(a.sender) = "FIN_ACKED" ->
             [a EXCEPT !.linger = FALSE, !.active = FALSE]
        [] seg.ack /\ state(a.sender) # "FIN_ACKED" -> a

on_closing(c, seg) == IF seg.ack THEN collect(acknowledged(taken_in(c, seg), seg)) ELSE c

on_close_wait(c, seg) == IF seg.fin THEN send_ack(acknowledged(c, seg)) ELSE c

on_time_wait(c, seg) == IF seg.fin /\ seg.ack THEN send_ack(acknowledged(c, seg)) ELSE c

handled(c, seg) ==
  LET name == state_name(c)
  IN  CASE name = "LISTEN"     -> on_listen(c, seg)
        [] name = "SYN_SENT"   -> on_syn_sent(c, seg)
        [] name = "SYN_RCVD"   -> on_syn_rcvd(c, seg)
        [] name \in {"ESTABLISHED", "FIN_WAIT_1"} -> on_established(c, seg, name)
        [] name = "FIN_WAIT_2" -> on_fin_wait_2(c, seg)
        [] name = "LAST_ACK"   -> on_last_ack(c, seg)
        [] name = "CLOSING"    -> on_closing(c, seg)
        [] name = "CLOSE_WAIT" -> on_close_wait(c, seg)
        [] name = "TIME_WAIT"  -> on_time_wait(c, seg)
        [] name \in {"RESET", "CLOSED", "unofficial"} -> c

\* Mutant: every segment without data is answered.
keep_alive_any(c, seg) ==
  IF c.receiver.is_set /\ length_in_sequence_space(seg) = 0
  THEN collect([c EXCEPT !.sender = send_empty_segment(@)])
  ELSE c

\* The last part of segment_received() answers a keep-alive.
keep_alive(c, seg) ==
  IF /\ c.receiver.is_set
     /\ length_in_sequence_space(seg) = 0
     /\ seg.seqno = (ackno(c.receiver) - 1) % Mod
  THEN collect([c EXCEPT !.sender = send_empty_segment(@)])
  ELSE c

connection_received(c0, seg) ==
  LET c == [c0 EXCEPT !.since = 0]
  IN  IF seg.rst THEN reset_received(c) ELSE keep_alive(handled(c, seg), seg)
-----------------------------------------------------------------------------
\* ~TCPConnection() of an active connection.  Its queue goes with it, and the RST.
destroyed(c) ==
  [unclean_shutdown([c EXCEPT !.sender = send_empty_segment(@)]) EXCEPT !.segments_out = << >>]

connect(c) == collect(c)

connection_write(c, data) ==
  collect([c EXCEPT !.sender.stream = write(@, SendCapacity, data)])

end_input_stream(c) == collect([c EXCEPT !.sender.stream = end_input(@)])

Linger == 10 * Timeout

\* Mutant: the connection that is about to close keeps lingering.
lingered_on(name, since) == name = "LAST_ACK" /\ since >= Linger

lingered(name, since) == name = "TIME_WAIT" /\ since >= Linger

gives_up(s) == s.consecutive > MaxRetx

\* tick().  _time_since_last_segment_received is looked at in TIME_WAIT only, and
\* the segment that leads there sets it to zero: it is counted only there.
connection_tick(c0, ms) ==
  LET name == state_name(c0)
      c    == [c0 EXCEPT !.since = IF name = "TIME_WAIT" THEN min(@ + ms, Linger) ELSE @]
      done == lingered(name, c.since)
      d    == [c EXCEPT !.sender = sender_tick(@, ms),
                        !.active = @ /\ ~ done, !.linger = @ /\ ~ done]
  IN  CASE gives_up(d.sender) -> unclean_shutdown(d)
        [] ~ gives_up(d.sender) /\ name \in {"ESTABLISHED", "SYN_SENT", "SYN_RCVD",
                                   "FIN_WAIT_1", "CLOSE_WAIT", "LAST_ACK", "CLOSING"} -> collect(d)
        [] ~ gives_up(d.sender) /\ name \in {"LISTEN", "FIN_WAIT_2", "TIME_WAIT",
                                   "RESET", "CLOSED", "unofficial"} -> d
=============================================================================
