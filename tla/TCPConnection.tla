--------------------------- MODULE TCPConnection ----------------------------
(***************************************************************************)
(* Two TCPConnections, each with its application, over a network that      *)
(* delays and reorders segments and, up to a bound, loses and repeats      *)
(* them.  The owner of a connection passes segments and ticks to it only   *)
(* while it is active, and the application writes once connect() or        *)
(* listen_and_accept() has returned (tcp_sponge_socket.cc).  The queue     *)
(* segments_out is emptied into the network at the end of every step.      *)
(***************************************************************************)
EXTENDS ConnectionOps

CONSTANTS ISN,         \* initial sequence number of each end
          Scenarios    \* the values of openers, total and faults, below

Ends == {"a", "b"}

ASSUME ConnectionAssumption ==
  /\ ISN \in [Ends -> WrappingInt32]
  /\ Scenarios \subseteq (SUBSET Ends) \X [Ends -> 0 .. Half - 2] \X Nat

VARIABLES conn,       \* the two TCPConnections
          openers,    \* the ends that call connect(); the others listen
          net,        \* the segments on their way to each end
          total,      \* how many bytes each end writes at most
          faults,     \* how many segments may still be lost or repeated, or timeouts early
          overtaken,  \* has a FIN arrived ahead of data?
          discarded   \* has data arrived that there was no room for?

vars == <<conn, openers, net, total, faults, overtaken, discarded>>

Peer(e) == IF e = "a" THEN "b" ELSE "a"

name(e) == state_name(conn[e])

Init == /\ conn = [e \in Ends |-> FreshConnection(ISN[e])]
        /\ net = [e \in Ends |-> {}]
        /\ \E s \in Scenarios : openers = s[1] /\ total = s[2] /\ faults = s[3]
        /\ overtaken = FALSE
        /\ discarded = FALSE

Sent(c) == {c.segments_out[i] : i \in 1 .. Len(c.segments_out)}

\* End e becomes c, and `waiting' is what remains on its way to e.  Nobody reads
\* what arrives for a connection that is no longer active.
Step(e, next, waiting) ==
  \E c \in {next} :
  /\ conn' = [conn EXCEPT ![e] = [c EXCEPT !.segments_out = << >>]]
  /\ net'  = [d \in Ends |-> IF ~ conn'[d].active THEN {}
                             ELSE IF d = e THEN waiting ELSE net[d] \cup Sent(c)]

CanConnect(e) == e \in openers /\ name(e) = "LISTEN"

Connect(e) ==
  /\ CanConnect(e)
  /\ Step(e, connect(conn[e]), net[e])
  /\ UNCHANGED <<openers, total, faults, overtaken, discarded>>

CanWrite(e) ==
  /\ conn[e].active
  /\ ~ conn[e].sender.stream.ended
  /\ name(e) \notin {"LISTEN", "SYN_SENT"}
  /\ name(e) = "SYN_RCVD" => e \in openers

Write(e) ==
  LET s == conn[e].sender.stream
  IN  /\ CanWrite(e)
      /\ bytes_written(s) < total[e]
      /\ remaining_capacity(s, SendCapacity) > 0
      /\ Step(e, connection_write(conn[e], <<bytes_written(s)>>), net[e])
      /\ UNCHANGED <<openers, total, faults, overtaken, discarded>>

EndInput(e) ==
  /\ CanWrite(e)
  /\ Step(e, end_input_stream(conn[e]), net[e])
  /\ UNCHANGED <<openers, total, faults, overtaken, discarded>>

output(e) == conn[e].receiver.reassembler.output

\* The owner moves what it has received to the application.
Read(e) ==
  /\ output(e).buffer # << >>
  /\ conn' = [conn EXCEPT ![e].receiver.reassembler.output = pop_output(@, Len(@.buffer))]
  /\ UNCHANGED <<openers, net, total, faults, overtaken, discarded>>

Offset(e, seg) == (seg.seqno - ISN[Peer(e)]) % Mod

Overtakes(e, seg) == seg.fin /\ Offset(e, seg) > conn[e].receiver.checkpoint

\* Data reaches beyond the capacity, as a probe of a closed window does.  The
\* receiver discards it and acknowledges it.
Overflows(e, seg) ==
  /\ seg.payload # << >>
  /\ Offset(e, seg) - 1 + Len(seg.payload) > bytes_read(output(e)) + RecvCapacity

\* A segment arrives, once more if it stays on its way.
Deliver(e, seg, again) ==
  /\ conn[e].active /\ ~ CanConnect(e)
  /\ faults' = faults - One(again)
  /\ overtaken' = (overtaken \/ Overtakes(e, seg))
  /\ discarded' = (discarded \/ Overflows(e, seg))
  /\ Step(e, connection_received(conn[e], seg), IF again THEN net[e] ELSE net[e] \ {seg})
  /\ UNCHANGED <<openers, total>>

Lose(e, seg) ==
  /\ faults' = faults - 1
  /\ net' = [net EXCEPT ![e] = @ \ {seg}]
  /\ UNCHANGED <<conn, openers, total, overtaken, discarded>>

\* The owner destroys the connection, as TCPSpongeSocket does when it aborts.
Destroy(e) ==
  /\ conn[e].active
  /\ Step(e, destroyed(conn[e]), net[e])
  /\ faults' = faults - 1
  /\ UNCHANGED <<openers, total, overtaken, discarded>>

\* A tick of half the lingering time, which is premature while segments are on
\* their way.  Without outstanding segments it changes something in TIME_WAIT only.
Premature == \E d \in Ends : net[d] # {}

CanTick(e) == /\ conn[e].active
              /\ \/ conn[e].sender.window.buffer # << >>
                 \/ name(e) = "TIME_WAIT" /\ conn[e].since < Linger

Tick(e) ==
  /\ CanTick(e)
  /\ Step(e, connection_tick(conn[e], Linger \div 2), net[e])
  /\ faults' = faults - One(Premature)
  /\ UNCHANGED <<openers, total, overtaken, discarded>>

Next == \E e \in Ends :
          \/ Connect(e)
          \/ Write(e)
          \/ EndInput(e)
          \/ Read(e)
          \/ \E seg \in net[e] : \/ Deliver(e, seg, FALSE)
                                 \/ faults > 0 /\ Deliver(e, seg, TRUE)
                                 \/ faults > 0 /\ Lose(e, seg)
          \/ faults > 0 /\ Destroy(e)
          \/ (Premature => faults > 0) /\ Tick(e)

Spec == Init /\ [][Next]_vars

\* The event loops go on while there is something to deliver or a timer to wait
\* for, and the applications open the connection, read, and end their streams.
Busy(e) == \/ CanConnect(e)
           \/ CanWrite(e)
           \/ output(e).buffer # << >>
           \/ conn[e].active /\ net[e] # {}
           \/ CanTick(e)

FairSpec == Spec /\ ([]<>(\A e \in Ends : ~ Busy(e)) \/ []<><<TRUE>>_vars)
-----------------------------------------------------------------------------
\* Whatever is lost, repeated and reordered, each application reads a prefix of
\* what the other wrote.
OutputIsPrefix ==
  \A e \in Ends :
    /\ bytes_written(output(e)) <= bytes_written(conn[Peer(e)].sender.stream)
    /\ \A k \in 1 .. buffer_size(output(e)) : output(e).buffer[k] = bytes_read(output(e)) + k - 1

\* What the sender has forgotten its peer has stored, unless a FIN came ahead of
\* data or the receiver acknowledged data that it had no room for.
NothingForgotten ==
  overtaken \/ discarded \/ \A e \in Ends :
    LET first == conn[e].sender.window.first_seqno
    IN  first <= 1 + bytes_written(output(Peer(e))) + One(output(Peer(e)).ended)

\* The official states that may follow one another, as the diagrams in
\* tcp_connection.cc have it.  A FIN that arrives in SYN_RCVD leads to a state
\* without a name, which has no branch in segment_received().
Follows ==
  [LISTEN      |-> {"SYN_SENT", "SYN_RCVD"},
   SYN_SENT    |-> {"ESTABLISHED", "SYN_RCVD"},
   SYN_RCVD    |-> {"ESTABLISHED", "FIN_WAIT_1", "CLOSING", "unofficial"},
   unofficial  |-> {"CLOSING"},
   ESTABLISHED |-> {"FIN_WAIT_1", "CLOSE_WAIT", "LAST_ACK"},
   FIN_WAIT_1  |-> {"FIN_WAIT_2", "CLOSING", "TIME_WAIT"},
   FIN_WAIT_2  |-> {"TIME_WAIT"},
   CLOSING     |-> {"TIME_WAIT"},
   CLOSE_WAIT  |-> {"LAST_ACK"},
   LAST_ACK    |-> {"CLOSED"},
   TIME_WAIT   |-> {"CLOSED"},
   RESET       |-> {},
   CLOSED      |-> {}]

Transitions == UNION {{s} \X (Follows[s] \cup {s, "RESET"}) : s \in DOMAIN Follows}

\* Every step takes a connection to a state that may follow, whatever is lost,
\* repeated or reordered on the way, with the same two exceptions.
StateDiagram ==
  [][overtaken' \/ discarded' \/ \A e \in Ends :
       conn'[e] = conn[e] \/ <<name(e), name(e)'>> \in Transitions]_vars

\* A connection that has closed cleanly has had its whole stream stored by the
\* peer and has stored the peer's whole stream, with the same two exceptions.
CleanCloseIsComplete ==
  overtaken \/ discarded \/ \A e \in Ends :
    name(e) = "CLOSED" =>
      /\ bytes_written(output(Peer(e))) = bytes_written(conn[e].sender.stream)
      /\ output(Peer(e)).ended
      /\ conn[Peer(e)].sender.stream.ended
      /\ bytes_written(output(e)) = bytes_written(conn[Peer(e)].sender.stream)

\* A segment that begins with the next byte of the peer's stream is stored when
\* there is room for it.
NextByteIsStored(names) ==
  \A e \in Ends : \A seg \in net[e] :
    /\ seg.payload # << >>
    /\ seg \notin net'[e] /\ conn'[e].active /\ faults' = faults
    /\ name(e) \in names
    /\ Offset(e, seg) = conn[e].receiver.checkpoint
    /\ window_size(conn[e].receiver, RecvCapacity) > 0
    => bytes_written(output(e))' > bytes_written(output(e))

\* That much holds in ESTABLISHED and in FIN_WAIT_1.
StoredWhileOpen == [][NextByteIsStored({"ESTABLISHED", "FIN_WAIT_1"})]_vars

\* tcp_connection.hh: end_input_stream() "still allows reading incoming data".
StoredAfterShutdown == [][NextByteIsStored({"ESTABLISHED", "FIN_WAIT_1", "FIN_WAIT_2"})]_vars

\* Acknowledgments do not answer one another for ever: the network runs empty
\* again and again.
NetworkDrains == []<>(\A e \in Ends : net[e] = {})

\* Both connections end, by themselves or by a reset, unless data was discarded:
\* the peer may then wait for it for ever.
EventuallyOver == <>(discarded \/ \A e \in Ends : conn[e].active => name(Peer(e)) = "RESET")
=============================================================================
