----------------------------- MODULE StreamCopy -----------------------------
(***************************************************************************)
(* bidirectional_stream_copy() (apps/bidirectional_stream_copy.cc): the    *)
(* main thread copies standard input to the socket and the socket to       *)
(* standard output, through two ByteStreams.                               *)
(***************************************************************************)
EXTENDS EventLoop

CONSTANT CopyBuffer   \* buffer_size

ASSUME CopyAssumption == CopyBuffer \in Nat \ {0}

FreshCopy == [outbound |-> EmptyQueue, inbound |-> EmptyQueue,
              outbound_shutdown |-> FALSE, inbound_shutdown |-> FALSE]

copy_table == <<add_rule("stdin", "In"), add_rule("socket", "Out"),
                add_rule("socket", "In"), add_rule("stdout", "Out")>>

\* Mutant: rule 4 waits for the end of the stream.
copy_interest_late(x) ==
  <<remaining_capacity(x.outbound, CopyBuffer) > 0,
    x.outbound.buffer # << >> \/ (eof(x.outbound) /\ ~ x.outbound_shutdown),
    remaining_capacity(x.inbound, CopyBuffer) > 0,
    x.inbound.ended /\ ~ x.inbound_shutdown>>

copy_interest(x) ==
  <<~ x.outbound.error /\ remaining_capacity(x.outbound, CopyBuffer) > 0 /\ ~ x.inbound.error,
    x.outbound.buffer # << >> \/ (eof(x.outbound) /\ ~ x.outbound_shutdown),
    ~ x.inbound.error /\ remaining_capacity(x.inbound, CopyBuffer) > 0 /\ ~ x.outbound.error,
    x.inbound.buffer # << >> \/ (eof(x.inbound) /\ ~ x.inbound_shutdown)>>

copy_cancel(x, cancelled) ==
  [x EXCEPT !.outbound.ended = @ \/ cancelled \cap {1, 2} # {},
            !.inbound.ended  = @ \/ cancelled \cap {3, 4} # {}]

ended_at(q, io, fd) == IF fd \in io.eof THEN end_input(q) ELSE q

\* rule 1: read from stdin into outbound byte stream
copy_rule_1(x, io) ==
  {LET io2 == eof_after([io EXCEPT !.stdin = @ + n], "stdin", [k \in 1 .. n |-> k], 1)
       out == write(x.outbound, CopyBuffer, [k \in 1 .. n |-> io.stdin + k])
   IN  Done([x EXCEPT !.outbound = ended_at(out, io2, "stdin")], io2) :
     n \in may_write(io.typed - io.stdin, remaining_capacity(x.outbound, CopyBuffer))}

\* rule 2: read from outbound byte stream into socket.  A write to a socket that
\* is shut down fails.
copy_rule_2(x, io) ==
  {LET out  == pop_output(x.outbound, n)
       sent == [io EXCEPT !.up.queue = @ \o peek_output(x.outbound, n)]
   IN  IF io.up.shut THEN Outcome(x, io, FALSE, FALSE)
       ELSE IF eof(out)
       THEN Done([x EXCEPT !.outbound = out, !.outbound_shutdown = TRUE],
                 [sent EXCEPT !.up = shut(@)])
       ELSE Done([x EXCEPT !.outbound = out], sent) :
     n \in may_write(buffer_size(x.outbound), PipeCapacity - Len(io.up.queue))}

\* rule 3: read from socket into inbound byte stream
copy_rule_3(x, io) ==
  LET limit == remaining_capacity(x.inbound, CopyBuffer)
      data  == read(io.down.queue, limit)
      io2   == eof_after([io EXCEPT !.down.queue = rest(@, limit)], "socket", data, limit)
      in    == write(x.inbound, CopyBuffer, data)
  IN  {Done([x EXCEPT !.inbound = ended_at(in, io2, "socket")], io2)}

\* rule 4: read from inbound byte stream into stdout, and close it at the end
copy_rule_4(x, io) ==
  {LET in      == pop_output(x.inbound, n)
       printed == [io EXCEPT !.stdout = @ \o peek_output(x.inbound, n),
                             !.closed = IF eof(in) THEN @ \cup {"stdout"} ELSE @]
   IN  Done([x EXCEPT !.inbound = in, !.inbound_shutdown = @ \/ eof(in)], printed) :
     n \in may_write(buffer_size(x.inbound), buffer_size(x.inbound))}

copy_callback(x, io, i) ==
  CASE i = 1 -> copy_rule_1(x, io)
    [] i = 2 -> copy_rule_2(x, io)
    [] i = 3 -> copy_rule_3(x, io)
    [] i = 4 -> copy_rule_4(x, io)
=============================================================================
