------------------------------ MODULE TCPState ------------------------------
(***************************************************************************)
(* The official state of a TCPConnection                                   *)
(* (libsponge/tcp_helpers/tcp_state.{hh,cc}): a summary of its sender and  *)
(* of its receiver, and the bits active and linger_after_streams_finish.   *)
(***************************************************************************)
EXTENDS SenderOps, ReceiverOps

Summary(sender, receiver, active, linger) ==
  [sender |-> sender, receiver |-> receiver, active |-> active, linger |-> linger]

\* TCPState(State): what each official name stands for
Official ==
  [LISTEN      |-> Summary("CLOSED",    "LISTEN",   TRUE,  TRUE),
   SYN_RCVD    |-> Summary("SYN_SENT",  "SYN_RECV", TRUE,  TRUE),
   SYN_SENT    |-> Summary("SYN_SENT",  "LISTEN",   TRUE,  TRUE),
   ESTABLISHED |-> Summary("SYN_ACKED", "SYN_RECV", TRUE,  TRUE),
   CLOSE_WAIT  |-> Summary("SYN_ACKED", "FIN_RECV", TRUE,  FALSE),
   LAST_ACK    |-> Summary("FIN_SENT",  "FIN_RECV", TRUE,  FALSE),
   CLOSING     |-> Summary("FIN_SENT",  "FIN_RECV", TRUE,  TRUE),
   FIN_WAIT_1  |-> Summary("FIN_SENT",  "SYN_RECV", TRUE,  TRUE),
   FIN_WAIT_2  |-> Summary("FIN_ACKED", "SYN_RECV", TRUE,  TRUE),
   TIME_WAIT   |-> Summary("FIN_ACKED", "FIN_RECV", TRUE,  TRUE),
   RESET       |-> Summary("ERROR",     "ERROR",    FALSE, FALSE),
   CLOSED      |-> Summary("FIN_ACKED", "FIN_RECV", FALSE, FALSE)]

\* state_summary(const TCPReceiver &)
receiver_summary(rc) ==
  LET out == rc.reassembler.output
  IN  CASE out.error                           -> "ERROR"
        [] ~ out.error /\ ~ rc.is_set          -> "LISTEN"
        [] ~ out.error /\ rc.is_set /\ out.ended   -> "FIN_RECV"
        [] ~ out.error /\ rc.is_set /\ ~ out.ended -> "SYN_RECV"

\* state_summary(const TCPSender &)
sender_summary(s) ==
  LET next   == next_seqno_absolute(s)
      flight == bytes_in_flight(s.window)
  IN  IF s.stream.error THEN "ERROR"
      ELSE IF next = 0 THEN "CLOSED"
      ELSE IF next = flight THEN "SYN_SENT"
      ELSE IF ~ eof(s.stream) \/ next < bytes_written(s.stream) + 2 THEN "SYN_ACKED"
      ELSE IF flight > 0 THEN "FIN_SENT"
      ELSE "FIN_ACKED"

\* TCPState(sender, receiver, active, linger) under its official name, if any:
\* operator== compares the four parts.
state_name(c) ==
  LET is    == Summary(sender_summary(c.sender), receiver_summary(c.receiver),
                       c.active, c.active /\ c.linger)
      names == {n \in DOMAIN Official : Official[n] = is}
  IN  IF names = {} THEN "unofficial" ELSE CHOOSE n \in names : TRUE
=============================================================================
