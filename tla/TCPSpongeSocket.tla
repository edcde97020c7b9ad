-------------------------- MODULE TCPSpongeSocket ---------------------------
(***************************************************************************)
(* TCPSpongeSocket (libsponge/tcp_helpers/tcp_sponge_socket.{hh,cc}) as    *)
(* apps/tcp_ipv4.cc uses it: connect(), bidirectional_stream_copy() in the *)
(* main thread beside the TCP thread, then wait_until_closed() or the      *)
(* destructor.  One service of wait_next_event() is one step, and the      *)
(* threads interleave between poll(2) and the callbacks.                   *)
(*                                                                         *)
(* The TCPConnection is reduced to what its owner can tell: its two        *)
(* ByteStreams, whether it is open and active, how many segments wait in   *)
(* segments_out, how many bytes are in flight, and what became of its FIN. *)
(***************************************************************************)
EXTENDS StreamCopy

CONSTANTS SendCapacity, RecvCapacity,
          Window,       \* the bytes that may be in flight
          Scenarios     \* what the environment does, see `plan'

ASSUME SocketAssumption ==
  /\ SendCapacity \in Nat \ {0} /\ RecvCapacity \in Nat \ {0}
  /\ Window \in Nat \ {0}
  /\ Scenarios \subseteq [typed : Nat, peer : Nat, useless : Nat, resets : 0 .. 1]

Threads == {"app", "tcp"}

VARIABLES local,    \* the objects of each thread
          rules,    \* the rules left in each thread's EventLoop
          todo,     \* the rules that its last poll(2) leaves to serve
          io,       \* the descriptors
          pc,       \* what each thread does next
          abort,    \* _abort
          plan      \* the bytes typed, the bytes the peer sends, how many datagrams
                    \* may still be useless, and whether a reset may still occur

vars == <<local, rules, todo, io, pc, abort, plan>>

FreshTCP ==
  [out |-> EmptyQueue, in |-> EmptyQueue, open |-> FALSE, active |-> TRUE, segments_out |-> 1,
   flight |-> 0, fin |-> "no", outbound_shutdown |-> FALSE, inbound_shutdown |-> FALSE]

-----------------------------------------------------------------------------
\* The TCPConnection, as far as its owner can tell

\* _collect_sender_segments_out()
collect(c) ==
  LET n    == IF c.open THEN min(Window - c.flight, buffer_size(c.out)) ELSE 0
      out  == pop_output(c.out, n)
      ends == c.open /\ eof(out) /\ c.fin = "no"
  IN  [c EXCEPT !.out = out, !.flight = @ + n,
                !.fin = IF ends THEN "sent" ELSE @,
                !.segments_out = IF n > 0 \/ ends THEN min(@ + 1, 2) ELSE @]

write_tcp(c, data) == collect([c EXCEPT !.out = write(@, SendCapacity, data)])

end_input_stream(c) == collect([c EXCEPT !.out = end_input(@)])

reset(c) == [c EXCEPT !.out = set_error(@), !.in = set_error(@), !.active = FALSE]

Closing(c) == c.fin = "acked" /\ c.in.ended

\* segment_received(): what it may make of a datagram.  The connection is over
\* with the last acknowledgment, or it lingers.
segment_received(c, kind) ==
  CASE kind = "useless" -> {c}
    [] kind = "syn"     -> {collect([c EXCEPT !.open = TRUE, !.segments_out = min(@ + 1, 2)])}
    [] kind = "data"    -> {[c EXCEPT !.in = write(@, RecvCapacity, <<bytes_written(@) + 1>>),
                                      !.segments_out = min(@ + 1, 2)]}
    [] kind = "fin"     -> {[c EXCEPT !.in = end_input(@), !.segments_out = min(@ + 1, 2)]}
    [] kind = "rst"     -> {reset(c)}
    [] kind = "ack"     ->
         LET d == collect([c EXCEPT !.flight = 0, !.fin = IF @ = "sent" THEN "acked" ELSE @])
         IN  {d, [d EXCEPT !.active = ~ Closing(d)]}

\* tick(): the connection gives up and sends a reset, or has lingered long enough.
tick(c) ==
  {[c EXCEPT !.active = ~ Closing(c)]} \cup
  (IF plan.resets > 0 /\ (c.flight > 0 \/ c.fin = "sent" \/ ~ c.open)
   THEN {[reset(c) EXCEPT !.segments_out = min(@ + 1, 2)]} ELSE {})
-----------------------------------------------------------------------------
\* The rules of _initialize_TCP()

tcp_table == <<add_rule("adapter", "In"), add_rule("thread_data", "In"),
               add_rule("thread_data", "Out"), add_rule("adapter", "Out")>>

\* Mutant: rule 3 forgets that it has shut the pipe down.
tcp_interest_again(x) ==
  <<x.active,
    x.active /\ ~ x.outbound_shutdown /\ remaining_capacity(x.out, SendCapacity) > 0,
    x.in.buffer # << >> \/ eof(x.in) \/ x.in.error,
    x.segments_out > 0>>

\* Mutant: rule 4 is for active connections only.
tcp_interest_active(x) ==
  <<x.active,
    x.active /\ ~ x.outbound_shutdown /\ remaining_capacity(x.out, SendCapacity) > 0,
    x.in.buffer # << >> \/ ((eof(x.in) \/ x.in.error) /\ ~ x.inbound_shutdown),
    x.active /\ x.segments_out > 0>>

tcp_interest(x) ==
  <<x.active,
    x.active /\ ~ x.outbound_shutdown /\ remaining_capacity(x.out, SendCapacity) > 0,
    x.in.buffer # << >> \/ ((eof(x.in) \/ x.in.error) /\ ~ x.inbound_shutdown),
    x.segments_out > 0>>

outbound_ended(x) == [end_input_stream(x) EXCEPT !.outbound_shutdown = TRUE]

tcp_cancel(x, cancelled) == IF 2 \in cancelled THEN outbound_ended(x) ELSE x

\* rule 1: read from filtered packet stream and dump into TCPConnection
tcp_rule_1(x) ==
  {Done(y, [io EXCEPT !.datagram = "none"]) : y \in segment_received(x, io.datagram)}

\* rule 2: read from pipe into outbound buffer
tcp_rule_2(x) ==
  LET limit == remaining_capacity(x.out, SendCapacity)
      data  == read(io.up.queue, limit)
      io2   == eof_after([io EXCEPT !.up.queue = rest(@, limit)], "thread_data", data, limit)
      y     == write_tcp(x, data)
  IN  {Done(IF "thread_data" \in io2.eof THEN outbound_ended(y) ELSE y, io2)}

\* Mutant: everything that was offered is popped.
tcp_rule_3_whole(x) ==
  {LET in == pop_output(x.in, buffer_size(x.in))
   IN  Done([x EXCEPT !.in = in, !.inbound_shutdown = @ \/ eof(in) \/ in.error],
            [io EXCEPT !.down = [queue |-> @.queue \o peek_output(x.in, n),
                                 shut  |-> @.shut \/ eof(in) \/ in.error]]) :
     n \in may_write(buffer_size(x.in), PipeCapacity - Len(io.down.queue))}

\* rule 3: read from inbound buffer into pipe.  A write to a pipe that is shut
\* down fails.
tcp_rule_3(x) ==
  {LET in   == pop_output(x.in, n)
       sent == [io EXCEPT !.down.queue = @ \o peek_output(x.in, n)]
   IN  IF io.down.shut THEN Outcome(x, io, FALSE, FALSE)
       ELSE IF eof(in) \/ in.error
       THEN Done([x EXCEPT !.in = in, !.inbound_shutdown = TRUE], [sent EXCEPT !.down = shut(@)])
       ELSE Done([x EXCEPT !.in = in], sent) :
     n \in may_write(buffer_size(x.in), PipeCapacity - Len(io.down.queue))}

\* rule 4: read outbound segments from TCPConnection and send as datagrams, which
\* a LossyFdAdapter may drop unsent
tcp_rule_4(x) ==
  {Outcome([x EXCEPT !.segments_out = 0], io, served, TRUE) : served \in BOOLEAN}
-----------------------------------------------------------------------------
table(t) == IF t = "tcp" THEN tcp_table ELSE copy_table

interest(t, x) == IF t = "tcp" THEN tcp_interest(x) ELSE copy_interest(x)

cancel(t, x, cancelled) ==
  IF t = "tcp" THEN tcp_cancel(x, cancelled) ELSE copy_cancel(x, cancelled)

callback(t, x, i) ==
  CASE t = "app"           -> copy_callback(x, io, i)
    [] t = "tcp" /\ i = 1  -> tcp_rule_1(x)
    [] t = "tcp" /\ i = 2  -> tcp_rule_2(x)
    [] t = "tcp" /\ i = 3  -> tcp_rule_3(x)
    [] t = "tcp" /\ i = 4  -> tcp_rule_4(x)

Init == /\ local = [app |-> FreshCopy, tcp |-> FreshTCP]
        /\ rules = [t \in Threads |-> 1 .. 4]
        /\ todo = [t \in Threads |-> {}]
        /\ plan \in Scenarios
        /\ io = FreshIO(plan.typed)
        /\ pc = [app |-> "connect", tcp |-> "poll"]
        /\ abort = FALSE

\* connect() runs the TCP thread's loop until the connection is no longer opening.
Opening == local.tcp.active /\ ~ local.tcp.open

ConnectReturns ==
  /\ pc.app = "connect" /\ pc.tcp = "poll" /\ ~ Opening
  /\ pc' = [pc EXCEPT !.app = "poll"]
  /\ UNCHANGED <<local, rules, todo, io, abort, plan>>

\* The first half of wait_next_event(), up to poll(2).  A cancelled rule bears on
\* the interest of later rules only.
Polled(t) ==
  LET gone == defunct(table(t), rules[t], io)
      x    == cancel(t, local[t], gone)
  IN  [local |-> x, kept |-> rules[t] \ gone,
       asked |-> {i \in rules[t] \ gone : interest(t, x)[i]}]

AtPoll(t) == /\ pc[t] = "poll" \/ (t = "app" /\ pc[t] = "serve" /\ todo[t] = {})
             /\ t = "tcp" /\ pc.app = "connect" => Opening

WaitNextEvent(t) ==
  /\ AtPoll(t)
  /\ \E p \in {Polled(t)} :
       /\ local' = [local EXCEPT ![t] = p.local]
       /\ rules' = [rules EXCEPT ![t] = p.kept]
       /\ todo' = [todo EXCEPT ![t] = outcome(table(t), p.asked, io)]
       /\ \/ p.asked = {} /\ pc' = [pc EXCEPT ![t] = "exit"]
          \/ /\ p.asked # {}
             /\ t = "tcp" \/ returns_at_once(table(t), p.kept, p.asked, io)  \* the TCP thread may time out
             /\ pc' = [pc EXCEPT ![t] = "serve"]
  /\ UNCHANGED <<io, abort, plan>>

\* The second half: the next rule is served, or cancelled when its descriptor has
\* only hung up.
Serve(t) ==
  LET r == First(todo[t])
  IN  /\ pc[t] = "serve" /\ todo[t] # {}
      /\ todo' = [todo EXCEPT ![t] = @ \ {r}]
      /\ \/ /\ r.event = "hup"
            /\ local' = [local EXCEPT ![t] = cancel(t, @, {r.rule})]
            /\ rules' = [rules EXCEPT ![t] = @ \ {r.rule}]
            /\ UNCHANGED <<io, pc>>
         \/ /\ r.event = "ready"
            /\ \E o \in callback(t, local[t], r.rule) :
                 /\ local' = [local EXCEPT ![t] = o.local]
                 /\ io' = o.io
                 /\ pc' = [pc EXCEPT ![t] =
                      IF ~ o.returns \/ busy_wait(o, interest(t, o.local)[r.rule]) THEN "threw" ELSE @]
            /\ UNCHANGED rules
      /\ UNCHANGED <<abort, plan>>

\* The rest of a turn of _tcp_loop()
TcpLoop ==
  /\ pc.tcp = "serve" /\ todo.tcp = {}
  /\ \/ /\ abort
        /\ pc' = [pc EXCEPT !.tcp = "exit"]
        /\ UNCHANGED <<local, plan>>
     \/ /\ ~ abort
        /\ pc' = [pc EXCEPT !.tcp = "poll"]
        /\ \E c \in IF local.tcp.active THEN tick(local.tcp) ELSE {local.tcp} :
             /\ local' = [local EXCEPT !.tcp = c]
             /\ plan' = [plan EXCEPT !.resets = IF c.in.error /\ ~ local.tcp.in.error THEN 0 ELSE @]
  /\ UNCHANGED <<rules, todo, io, abort>>

\* The end of _tcp_main()
TcpMainEnds ==
  /\ pc.tcp = "exit"
  /\ io' = shut_both(io)
  /\ pc' = [pc EXCEPT !.tcp = "over"]
  /\ UNCHANGED <<local, rules, todo, abort, plan>>

\* After the copy: wait_until_closed(), or the destructor alone
WaitUntilClosed ==
  /\ pc.app = "exit"
  /\ io' = shut_both(io)
  /\ pc' = [pc EXCEPT !.app = "join"]
  /\ UNCHANGED <<local, rules, todo, abort, plan>>

Destruct ==
  /\ pc.app = "exit"
  /\ abort' = TRUE
  /\ pc' = [pc EXCEPT !.app = "join"]
  /\ UNCHANGED <<local, rules, todo, io, plan>>

Join ==
  /\ pc.app = "join" /\ pc.tcp = "over"
  /\ pc' = [pc EXCEPT !.app = "over"]
  /\ UNCHANGED <<local, rules, todo, io, abort, plan>>

\* The peer's next datagram.  It acknowledges what it has been sent, keeps to the
\* window, and may reset the connection.
Arrives(kind) ==
  LET c == local.tcp
  IN  CASE kind = "syn"     -> ~ c.open /\ c.segments_out = 0
        [] kind = "data"    -> c.open /\ bytes_written(c.in) < plan.peer /\ buffer_size(c.in) < RecvCapacity
        [] kind = "fin"     -> c.open /\ bytes_written(c.in) = plan.peer /\ ~ c.in.ended
        [] kind = "ack"     -> c.open /\ c.segments_out = 0 /\ (c.flight > 0 \/ c.fin = "sent")
        [] kind = "useless" -> plan.useless > 0
        [] kind = "rst"     -> plan.resets > 0

Kinds == {"syn", "data", "fin", "ack", "useless", "rst"}

CanArrive == /\ io.datagram = "none" /\ local.tcp.active /\ pc.tcp \in {"poll", "serve"}
             /\ \E kind \in Kinds : Arrives(kind)

Arrive ==
  /\ CanArrive
  /\ \E kind \in Kinds :
       /\ Arrives(kind)
       /\ io' = [io EXCEPT !.datagram = kind]
       /\ plan' = [plan EXCEPT !.useless = IF kind = "useless" THEN @ - 1 ELSE @,
                               !.resets  = IF kind = "rst" THEN 0 ELSE @]
  /\ UNCHANGED <<local, rules, todo, pc, abort>>

\* An exception that leaves a thread ends the process.
Running == \A t \in Threads : pc[t] # "threw"

AppStep == Running /\ (\/ ConnectReturns
                       \/ WaitNextEvent("app")
                       \/ Serve("app")
                       \/ WaitUntilClosed
                       \/ Destruct
                       \/ Join)

TcpStep == Running /\ (WaitNextEvent("tcp") \/ Serve("tcp") \/ TcpLoop \/ TcpMainEnds)

Next == AppStep \/ TcpStep \/ (Running /\ Arrive)

Spec == Init /\ [][Next]_vars

\* The two threads are scheduled, and the peer goes on: weak fairness of the three
\* actions.  A main thread that poll(2) wakes for a hangup alone does not get on.
AppCanGoOn ==
  \/ pc.app = "connect" /\ pc.tcp = "poll" /\ ~ Opening
  \/ pc.app = "serve" /\ todo.app # {}
  \/ pc.app = "exit"
  \/ pc.app = "join" /\ pc.tcp = "over"
  \/ AtPoll("app") /\ LET p == Polled("app")
                      IN  \/ p.asked = {}
                          \/ outcome(copy_table, p.asked, io) # {}
                          \/ /\ pc.app = "poll" \/ p.kept # rules.app
                             /\ returns_at_once(copy_table, p.kept, p.asked, io)

TcpCanGoOn == AtPoll("tcp") \/ pc.tcp \in {"serve", "exit"}

Of(t) == <<local[t], rules[t], todo[t], pc[t]>>

Arrived == io.datagram # "none"

Fairness ==
  /\ []<>~ (Running /\ AppCanGoOn) \/ []<><<Of("app")' # Of("app")>>_vars
  /\ []<>~ (Running /\ TcpCanGoOn) \/ []<><<Of("tcp")' # Of("tcp")>>_vars
  /\ []<>~ (Running /\ CanArrive) \/ []<><<Arrived' /\ ~ Arrived>>_vars

FairSpec == Spec /\ Fairness
-----------------------------------------------------------------------------
Follow(s, first) == \A k \in DOMAIN s : s[k] = first + k

\* Whatever the partial reads and writes, and wherever one thread overtakes the
\* other, the bytes that are on their way through the two loops and the pipe are
\* the next bytes of their stream: none is lost, repeated or reordered.  Only once
\* the TCP thread is over after a reset does the main thread, whose rule for
\* writing to the socket is cancelled, read standard input and throw it away.
RelayedInOrder ==
  LET c   == local.tcp
      out == c.out.buffer \o io.up.queue \o local.app.outbound.buffer
      in  == io.stdout \o local.app.inbound.buffer \o io.down.queue \o c.in.buffer
      given == bytes_read(c.out) + Len(out)
  IN  /\ Follow(out, bytes_read(c.out)) /\ given <= io.stdin
      /\ given = io.stdin \/ (pc.tcp = "over" /\ c.out.error)
      /\ Follow(in, 0) /\ Len(in) = bytes_written(c.in)

\* The connection is told that its input has ended only when it has been given
\* every byte of standard input, even if it was reset before.
EndsAfterLastByte ==
  local.tcp.out.ended =>
    "stdin" \in io.eof /\ bytes_written(local.tcp.out) = plan.typed

\* A copy that has returned without a reset has printed all that the peer sent.
CopyIsComplete ==
  pc.app \in {"exit", "join", "over"} /\ ~ local.tcp.in.error =>
    Len(io.stdout) = plan.peer

\* The TCP thread dies of an exception only when a reset met bytes that did not
\* fit in the pipe at once; the main thread only when the connection was reset.
ThrowsAfterResetOnly ==
  /\ pc.tcp = "threw" => local.tcp.in.error /\ local.tcp.in.buffer # << >>
  /\ pc.app = "threw" => local.tcp.out.error

\* Unless it is aborted, the TCP thread ends with all its segments handed to the
\* adapter, the reset or the last acknowledgment included.
LastSegmentsSent == pc.tcp = "over" /\ ~ abort => local.tcp.segments_out = 0

\* Both threads come to an end, by themselves or by an exception.
EventuallyOver == <>(pc.app = "over" \/ ~ Running)
=============================================================================
