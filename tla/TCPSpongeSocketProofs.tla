------------------------ MODULE TCPSpongeSocketProofs -----------------------
(***************************************************************************)
(* A TCPSpongeSocket, whatever the capacities, the window, the scenario    *)
(* and the interleaving of its two threads: the TCP thread leaves no       *)
(* segment behind; the bytes are relayed in order in both directions; the  *)
(* connection's input ends after the last byte; a copy that has returned   *)
(* is complete; and a thread throws after a reset only.                    *)
(*                                                                         *)
(* Two inductive invariants: IInv about the adapter's rules, and on top of *)
(* it RInv about the relay.                                                *)
(***************************************************************************)
EXTENDS TCPSpongeSocket, TLAPS

\* The connection counts its waiting segments.
IsTCP(c) == "segments_out" \in DOMAIN c /\ c.segments_out \in Nat

\* Nobody closes the adapter, and a datagram is one of those that may arrive.
IsIO(x) == /\ {"eof", "closed", "datagram"} \subseteq DOMAIN x
           /\ "adapter" \notin x.eof
           /\ "adapter" \notin x.closed
           /\ x.datagram \in Kinds \cup {"none"}

Event(i, e) == [rule |-> i, event |-> e]

\* What is left to serve are events of rules that exist.
IsEvents(events) ==
  \A r \in events : \E i \in 1 .. 4, e \in {"ready", "hup"} : r = Event(i, e)

\* The adapter does not hang up, and when rule 1 is about to be served there is a
\* datagram to read.
AdapterReady(events, x) ==
  /\ Event(1, "hup") \notin events /\ Event(4, "hup") \notin events
  /\ Event(1, "ready") \in events => x.datagram # "none"

\* The inductive invariant.  A TCP thread that has left its loop without an abort
\* left it because no rule was interested; rule 4 is still there, so no segment
\* was waiting.
IInv == /\ DOMAIN local = Threads /\ IsTCP(local["tcp"])
        /\ DOMAIN rules = Threads /\ 4 \in rules["tcp"]
        /\ \A t \in Threads : rules[t] \subseteq 1 .. 4 /\ IsEvents(todo[t])
        /\ DOMAIN todo = Threads /\ AdapterReady(todo["tcp"], io)
        /\ IsIO(io)
        /\ DOMAIN pc = Threads
        /\ pc["tcp"] \in {"exit", "over"} /\ ~ abort => local["tcp"].segments_out = 0

-----------------------------------------------------------------------------
\* One more segment waits, or as many as the model counts.
LEMMA OneMore == ASSUME NEW n \in Nat PROVE min(n + 1, 2) \in Nat
BY DEF min

\* Whatever the connection does, it counts its waiting segments.
LEMMA CollectKeeps == ASSUME NEW c, IsTCP(c) PROVE IsTCP(collect(c))
BY OneMore DEF IsTCP, collect

LEMMA ResetKeeps ==
  ASSUME NEW c, IsTCP(c)
  PROVE  IsTCP(reset(c)) /\ IsTCP([reset(c) EXCEPT !.segments_out = min(@ + 1, 2)])
BY OneMore DEF IsTCP, reset

LEMMA EndKeeps == ASSUME NEW c, IsTCP(c) PROVE IsTCP(outbound_ended(c))
<1>1. IsTCP([c EXCEPT !.out = end_input(@)])
  BY DEF IsTCP
<1>2. IsTCP(end_input_stream(c))
  BY <1>1, CollectKeeps DEF end_input_stream
<1> QED BY <1>2 DEF outbound_ended, IsTCP

LEMMA ReceivedKeeps ==
  ASSUME NEW c, IsTCP(c), NEW kind \in Kinds, NEW d \in segment_received(c, kind)
  PROVE  IsTCP(d)
<1>1. CASE kind = "useless"
  BY <1>1 DEF segment_received
<1>2. CASE kind = "syn"
  <2>1. IsTCP([c EXCEPT !.open = TRUE, !.segments_out = min(@ + 1, 2)])
    BY OneMore DEF IsTCP
  <2> QED BY <1>2, <2>1, CollectKeeps DEF segment_received
<1>3. CASE kind = "data"
  BY <1>3, OneMore, Zenon DEF segment_received, IsTCP
<1>4. CASE kind = "fin"
  BY <1>4, OneMore, Zenon DEF segment_received, IsTCP
<1>5. CASE kind = "rst"
  BY <1>5, ResetKeeps, Zenon DEF segment_received
<1>6. CASE kind = "ack"
  <2> DEFINE a == [c EXCEPT !.flight = 0, !.fin = IF @ = "sent" THEN "acked" ELSE @]
             b == collect(a)
  <2>1. IsTCP(a)
    BY DEF IsTCP
  <2>2. IsTCP(b)
    BY <2>1, CollectKeeps
  <2>3. d = b \/ d = [b EXCEPT !.active = ~ Closing(b)]
    BY <1>6 DEF segment_received
  <2> HIDE DEF a, b
  <2> QED BY <2>2, <2>3 DEF IsTCP
<1> QED BY <1>1, <1>2, <1>3, <1>4, <1>5, <1>6 DEF Kinds

LEMMA TickKeeps == ASSUME NEW c, IsTCP(c), NEW d \in tick(c) PROVE IsTCP(d)
<1>1. \/ d = [c EXCEPT !.active = ~ Closing(c)]
      \/ d = [reset(c) EXCEPT !.segments_out = min(@ + 1, 2)]
  BY DEF tick
<1> QED BY <1>1, ResetKeeps DEF IsTCP

LEMMA CancelKeeps ==
  ASSUME NEW c, IsTCP(c), NEW gone
  PROVE  IsTCP(cancel("tcp", c, gone))
BY EndKeeps DEF cancel, tcp_cancel

-----------------------------------------------------------------------------
\* A callback of the main thread leaves the adapter and its datagram alone.
LEMMA CopyCallbackKeeps ==
  ASSUME IsIO(io), NEW x, NEW i \in 1 .. 4, NEW o \in copy_callback(x, io, i)
  PROVE  IsIO(o.io) /\ o.io.datagram = io.datagram
<1>1. CASE i = 1
  <2>1. o \in copy_rule_1(x, io)
    BY <1>1 DEF copy_callback
  <2> DEFINE io2(n) == eof_after([io EXCEPT !.stdin = @ + n], "stdin", [k \in 1 .. n |-> k], 1)
             out(n) == write(x.outbound, CopyBuffer, [k \in 1 .. n |-> io.stdin + k])
             new(n) == [x EXCEPT !.outbound = ended_at(out(n), io2(n), "stdin")]
  <2>2. PICK n : o = Done(new(n), io2(n))
    BY <2>1, Zenon DEF copy_rule_1
  <2>3. IsIO(io2(n)) /\ io2(n).datagram = io.datagram
    BY DEF eof_after, IsIO
  <2> HIDE DEF io2, new
  <2> QED BY <2>2, <2>3 DEF Done, Outcome
<1>2. CASE i = 2
  <2>1. o \in copy_rule_2(x, io)
    BY <1>2 DEF copy_callback
  <2> DEFINE out(n)  == pop_output(x.outbound, n)
             sent(n) == [io EXCEPT !.up.queue = @ \o peek_output(x.outbound, n)]
             last(n) == [sent(n) EXCEPT !.up = shut(@)]
             new(n)  == [x EXCEPT !.outbound = out(n), !.outbound_shutdown = TRUE]
             more(n) == [x EXCEPT !.outbound = out(n)]
  <2>2. PICK n : o = IF io.up.shut THEN Outcome(x, io, FALSE, FALSE)
                     ELSE IF eof(out(n)) THEN Done(new(n), last(n)) ELSE Done(more(n), sent(n))
    BY <2>1, Zenon DEF copy_rule_2
  <2>3. IsIO(sent(n)) /\ sent(n).datagram = io.datagram
    BY DEF IsIO
  <2>4. IsIO(last(n)) /\ last(n).datagram = io.datagram
    BY DEF IsIO
  <2> HIDE DEF out, sent, last, new, more
  <2> QED BY <2>2, <2>3, <2>4 DEF Done, Outcome
<1>3. CASE i = 3
  <2> DEFINE limit == remaining_capacity(x.inbound, CopyBuffer)
             data  == read(io.down.queue, limit)
  <2>1. o \in copy_rule_3(x, io)
    BY <1>3 DEF copy_callback
  <2>2. o.io = eof_after([io EXCEPT !.down.queue = rest(@, limit)], "socket", data, limit)
    BY <2>1 DEF copy_rule_3, Done, Outcome
  <2> QED BY <2>2 DEF eof_after, IsIO
<1>4. CASE i = 4
  <2>1. o \in copy_rule_4(x, io)
    BY <1>4 DEF copy_callback
  <2> DEFINE in(n)      == pop_output(x.inbound, n)
             printed(n) == [io EXCEPT !.stdout = @ \o peek_output(x.inbound, n),
                                      !.closed = IF eof(in(n)) THEN @ \cup {"stdout"} ELSE @]
             new(n)     == [x EXCEPT !.inbound = in(n), !.inbound_shutdown = @ \/ eof(in(n))]
  <2>2. PICK n : o = Done(new(n), printed(n))
    BY <2>1, Zenon DEF copy_rule_4
  <2>3. IsIO(printed(n)) /\ printed(n).datagram = io.datagram
    BY DEF IsIO
  <2> HIDE DEF printed, new
  <2> QED BY <2>2, <2>3 DEF Done, Outcome
<1> QED BY <1>1, <1>2, <1>3, <1>4

\* A callback of the TCP thread keeps the count of segments and the adapter, and
\* only rule 1 takes the datagram.
LEMMA TcpCallbackKeeps ==
  ASSUME IsIO(io), NEW x, IsTCP(x), NEW i \in 1 .. 4, i = 1 => io.datagram # "none",
         NEW o \in callback("tcp", x, i)
  PROVE  IsTCP(o.local) /\ IsIO(o.io) /\ (i # 1 => o.io.datagram = io.datagram)
<1>1. CASE i = 1
  <2>1. o \in tcp_rule_1(x)
    BY <1>1 DEF callback
  <2>2. PICK y \in segment_received(x, io.datagram) : o = Done(y, [io EXCEPT !.datagram = "none"])
    BY <2>1 DEF tcp_rule_1
  <2>3. io.datagram \in Kinds
    BY <1>1 DEF IsIO
  <2>4. IsTCP(y)
    BY <2>2, <2>3, ReceivedKeeps
  <2>5. IsIO([io EXCEPT !.datagram = "none"])
    BY DEF IsIO
  <2> QED BY <1>1, <2>2, <2>4, <2>5 DEF Done, Outcome
<1>2. CASE i = 2
  <2>1. o \in tcp_rule_2(x)
    BY <1>2 DEF callback
  <2> DEFINE limit == remaining_capacity(x.out, SendCapacity)
             data  == read(io.up.queue, limit)
             io2   == eof_after([io EXCEPT !.up.queue = rest(@, limit)], "thread_data", data, limit)
             y     == write_tcp(x, data)
  <2>2. o = Done(IF "thread_data" \in io2.eof THEN outbound_ended(y) ELSE y, io2)
    BY <2>1 DEF tcp_rule_2
  <2>3. IsTCP([x EXCEPT !.out = write(@, SendCapacity, data)])
    BY DEF IsTCP
  <2>4. IsTCP(y)
    BY <2>3, CollectKeeps DEF write_tcp
  <2>5. IsTCP(outbound_ended(y))
    BY <2>4, EndKeeps
  <2>6. IsIO(io2) /\ io2.datagram = io.datagram
    BY DEF IsIO, eof_after
  <2> HIDE DEF io2, y
  <2> QED BY <1>2, <2>2, <2>4, <2>5, <2>6 DEF Done, Outcome
<1>3. CASE i = 3
  <2>1. o \in tcp_rule_3(x)
    BY <1>3 DEF callback
  <2> DEFINE in(n)   == pop_output(x.in, n)
             sent(n) == [io EXCEPT !.down.queue = @ \o peek_output(x.in, n)]
             last(n) == [sent(n) EXCEPT !.down = shut(@)]
             new(n)  == [x EXCEPT !.in = in(n), !.inbound_shutdown = TRUE]
             more(n) == [x EXCEPT !.in = in(n)]
  <2>2. PICK n : o = IF io.down.shut THEN Outcome(x, io, FALSE, FALSE)
                     ELSE IF eof(in(n)) \/ in(n).error THEN Done(new(n), last(n))
                     ELSE Done(more(n), sent(n))
    BY <2>1, Zenon DEF tcp_rule_3
  <2>3. IsTCP(new(n)) /\ IsTCP(more(n))
    BY DEF IsTCP
  <2>4. IsIO(sent(n)) /\ sent(n).datagram = io.datagram
    BY DEF IsIO
  <2>5. IsIO(last(n)) /\ last(n).datagram = io.datagram
    BY DEF IsIO
  <2> HIDE DEF in, sent, last, new, more
  <2> QED BY <1>3, <2>2, <2>3, <2>4, <2>5 DEF Done, Outcome
<1>4. CASE i = 4
  <2>1. o \in tcp_rule_4(x)
    BY <1>4 DEF callback
  <2>2. o.local = [x EXCEPT !.segments_out = 0] /\ o.io = io
    BY <2>1 DEF tcp_rule_4, Outcome
  <2> QED BY <1>4, <2>2 DEF IsTCP
<1> QED BY <1>1, <1>2, <1>3, <1>4

\* The rule to be served next is one of those left.
LEMMA FirstIsThere ==
  ASSUME NEW events, IsEvents(events), events # {}
  PROVE  First(events) \in events
<1> DEFINE T == {r.rule : r \in events}
<1>1. \A r \in events : r.rule \in 1 .. 4
  BY DEF IsEvents, Event
<1>2. T \subseteq 1 .. 4 /\ T # {}
  BY <1>1
<1>3. PICK n \in T : \A m \in T : n <= m
  <2> HIDE DEF T
  <2>0. PICK x : x \in T
    BY <1>2
  <2>1. 1 \in T \/ 2 \in T \/ 3 \in T \/ 4 \in T
    <3>1. x \in 1 .. 4
      BY <2>0, <1>2
    <3>2. x = 1 \/ x = 2 \/ x = 3 \/ x = 4
      BY <3>1
    <3> QED BY <2>0, <3>2, Zenon
  <2>2. \A m \in T : m \in 1 .. 4
    BY <1>2
  <2>3. CASE 1 \in T
    BY <2>2, <2>3
  <2>4. CASE 1 \notin T /\ 2 \in T
    BY <2>2, <2>4
  <2>5. CASE 1 \notin T /\ 2 \notin T /\ 3 \in T
    BY <2>2, <2>5
  <2>6. CASE 1 \notin T /\ 2 \notin T /\ 3 \notin T /\ 4 \in T
    BY <2>2, <2>6
  <2> QED BY <2>1, <2>3, <2>4, <2>5, <2>6
<1>4. PICK r \in events : r.rule = n
  BY <1>3
<1>5. \A s \in events : r.rule <= s.rule
  BY <1>3, <1>4
<1> QED BY <1>4, <1>5 DEF First

\* The outcome of poll(2) consists of events of the rules it was asked about.
LEMMA OutcomeIsEvents ==
  ASSUME NEW table_, NEW asked \in SUBSET (1 .. 4)
  PROVE  IsEvents(outcome(table_, asked, io))
BY DEF outcome, ready, IsEvents, Event

\* The adapter never hangs up, and is readable only with a datagram.
LEMMA OutcomeAdapterReady ==
  ASSUME NEW asked \in SUBSET (1 .. 4)
  PROVE  AdapterReady(outcome(tcp_table, asked, io), io)
<1>1. tcp_table[1] = add_rule("adapter", "In") /\ tcp_table[4] = add_rule("adapter", "Out")
  BY DEF tcp_table
<1>2. \A i, j : Event(i, "ready") # Event(j, "hup")
  BY DEF Event
<1>3. \A i, j, e : Event(i, e) = Event(j, e) => i = j
  BY DEF Event
<1>4. ~ HungUp(io, "adapter")
  BY DEF HungUp
<1>5. ASSUME NEW i \in {1, 4} PROVE Event(i, "hup") \notin outcome(tcp_table, asked, io)
  <2>1. ~ HungUp(io, tcp_table[i].fd)
    BY <1>1, <1>4 DEF add_rule
  <2> QED BY <1>2, <1>3, <2>1, Zenon DEF outcome, Event
<1>6. ASSUME Event(1, "ready") \in outcome(tcp_table, asked, io) PROVE io.datagram # "none"
  <2>1. 1 \in ready(tcp_table, asked, io)
    BY <1>2, <1>3, <1>6, Zenon DEF outcome, Event
  <2>2. tcp_table[1].fd = "adapter" /\ tcp_table[1].direction = "In"
    BY <1>1 DEF add_rule
  <2>3. Readable(io, "adapter")
    BY <2>1, <2>2 DEF ready
  <2> QED BY <2>3 DEF Readable
<1> QED BY <1>5, <1>6 DEF AdapterReady

-----------------------------------------------------------------------------
\* The invariant holds at first: one segment, the SYN, waits.
LEMMA InitIInv == Init => IInv
<1> SUFFICES ASSUME Init PROVE IInv
  OBVIOUS
<1>1. DOMAIN local = Threads /\ local["tcp"] = FreshTCP
  BY DEF Init, Threads
<1>2. IsTCP(FreshTCP)
  BY DEF IsTCP, FreshTCP
<1>3. IsIO(io)
  BY DEF Init, IsIO, FreshIO
<1>4. DOMAIN pc = Threads /\ pc["tcp"] = "poll"
  BY DEF Init, Threads
<1>5. DOMAIN rules = Threads /\ DOMAIN todo = Threads
  BY DEF Init
<1>6. \A t \in Threads : rules[t] = 1 .. 4 /\ todo[t] = {}
  BY DEF Init
<1>7. 4 \in rules["tcp"] /\ AdapterReady(todo["tcp"], io)
  BY <1>6 DEF Threads, AdapterReady
<1> QED BY <1>1, <1>2, <1>3, <1>4, <1>5, <1>6, <1>7 DEF IInv, IsEvents

\* The first half of wait_next_event() keeps rule 4, and finds nothing to poll only
\* when no segment waits.
LEMMA WaitKeeps ==
  ASSUME IInv, NEW t \in Threads, WaitNextEvent(t)
  PROVE  IInv'
<1> DEFINE p == Polled(t)
<1>1. /\ local' = [local EXCEPT ![t] = p.local]
      /\ rules' = [rules EXCEPT ![t] = p.kept]
      /\ todo' = [todo EXCEPT ![t] = outcome(table(t), p.asked, io)]
      /\ \/ p.asked = {} /\ pc' = [pc EXCEPT ![t] = "exit"]
         \/ pc' = [pc EXCEPT ![t] = "serve"]
      /\ io' = io /\ abort' = abort
  BY DEF WaitNextEvent
<1>2. p.kept \subseteq rules[t] /\ p.asked \subseteq p.kept
  BY DEF Polled
<1>3. IsEvents(outcome(table(t), p.asked, io))
  <2>1. p.asked \in SUBSET (1 .. 4)
    BY <1>2 DEF IInv
  <2> QED BY <2>1, OutcomeIsEvents
<1>4. CASE t = "app"
  <2>1. local'["tcp"] = local["tcp"] /\ rules'["tcp"] = rules["tcp"]
        /\ todo'["tcp"] = todo["tcp"] /\ pc'["tcp"] = pc["tcp"]
    BY <1>1, <1>4 DEF IInv, Threads
  <2>2. \A s \in Threads : rules'[s] \subseteq 1 .. 4 /\ IsEvents(todo'[s])
    BY <1>1, <1>2, <1>3 DEF IInv
  <2> HIDE DEF p
  <2> QED BY <1>1, <2>1, <2>2 DEF IInv
<1>5. CASE t = "tcp"
  <2> DEFINE gone == defunct(tcp_table, rules["tcp"], io)
             c    == cancel("tcp", local["tcp"], gone)
  <2>1. /\ p.local = c
        /\ p.kept = rules["tcp"] \ gone
        /\ p.asked = {i \in rules["tcp"] \ gone : tcp_interest(c)[i]}
    BY <1>5 DEF Polled, table, interest
  <2>2. IsTCP(c)
    BY CancelKeeps DEF IInv
  <2>3. 4 \notin gone
    <3>1. tcp_table[4] = add_rule("adapter", "Out")
      BY DEF tcp_table
    <3> QED BY <3>1 DEF defunct, add_rule, IInv, IsIO
  <2>4. 4 \in p.kept
    BY <2>1, <2>3 DEF IInv
  <2>5. p.asked = {} => c.segments_out = 0
    <3>1. tcp_interest(c)[4] = (c.segments_out > 0)
      BY DEF tcp_interest
    <3> HIDE DEF c, gone
    <3>2. p.asked = {} => ~ (c.segments_out > 0)
      BY <2>1, <2>4, <3>1, Zenon
    <3> QED BY <2>2, <3>2 DEF IsTCP
  <2>6. AdapterReady(outcome(tcp_table, p.asked, io), io)
    <3>1. p.asked \in SUBSET (1 .. 4)
      BY <1>2 DEF IInv
    <3> QED BY <3>1, OutcomeAdapterReady
  <2> HIDE DEF c, gone, p
  <2>7. /\ local'["tcp"] = c /\ rules'["tcp"] = p.kept
        /\ todo'["tcp"] = outcome(tcp_table, p.asked, io)
        /\ (p.asked = {} /\ pc'["tcp"] = "exit") \/ pc'["tcp"] = "serve"
    BY <1>1, <1>5, <2>1 DEF IInv, Threads, table
  <2>8. \A s \in Threads : rules'[s] \subseteq 1 .. 4 /\ IsEvents(todo'[s])
    BY <1>1, <1>2, <1>3 DEF IInv
  <2> QED BY <1>1, <2>2, <2>4, <2>5, <2>6, <2>7, <2>8 DEF IInv
<1> QED BY <1>4, <1>5 DEF Threads

\* The second half cancels no rule of the adapter.
LEMMA ServeKeeps ==
  ASSUME IInv, NEW t \in Threads, Serve(t)
  PROVE  IInv'
<1> DEFINE r == First(todo[t])
<1>1. pc[t] = "serve" /\ todo[t] # {} /\ IsEvents(todo[t])
  BY DEF Serve, IInv
<1>2. r \in todo[t]
  BY <1>1, FirstIsThere
<1>3. PICK i \in 1 .. 4, e \in {"ready", "hup"} : r = Event(i, e)
  BY <1>1, <1>2 DEF IsEvents
<1>4. r.rule = i /\ r.event = e
  BY <1>3 DEF Event
<1>5. todo' = [todo EXCEPT ![t] = @ \ {r}] /\ abort' = abort
  BY DEF Serve
<1>6. \A s \in Threads : IsEvents(todo'[s])
  BY <1>5 DEF IInv, IsEvents
<1>7. CASE r.event = "hup"
  <2>1. /\ local' = [local EXCEPT ![t] = cancel(t, @, {i})]
        /\ rules' = [rules EXCEPT ![t] = @ \ {i}]
        /\ io' = io /\ pc' = pc
    BY <1>4, <1>7 DEF Serve
  <2>2. t = "tcp" => i # 1 /\ i # 4
    BY <1>2, <1>3, <1>4, <1>7 DEF IInv, AdapterReady
  <2>3. IsTCP(local'["tcp"])
    BY <2>1, CancelKeeps DEF IInv, Threads
  <2>4. 4 \in rules'["tcp"] /\ \A s \in Threads : rules'[s] \subseteq 1 .. 4
    BY <2>1, <2>2 DEF IInv, Threads
  <2>5. AdapterReady(todo'["tcp"], io')
    BY <1>5, <2>1 DEF IInv, AdapterReady, Threads
  <2>6. pc'["tcp"] \in {"exit", "over"} => local'["tcp"] = local["tcp"]
    BY <1>1, <2>1 DEF IInv, Threads
  <2> QED BY <1>5, <1>6, <2>1, <2>3, <2>4, <2>5, <2>6 DEF IInv
<1>8. CASE r.event = "ready"
  <2>1. PICK o \in callback(t, local[t], i) :
          /\ local' = [local EXCEPT ![t] = o.local]
          /\ io' = o.io
          /\ pc' = [pc EXCEPT ![t] =
               IF ~ o.returns \/ busy_wait(o, interest(t, o.local)[i]) THEN "threw" ELSE @]
          /\ rules' = rules
    BY <1>4, <1>8 DEF Serve
  <2>2. pc'[t] \in {"serve", "threw"} /\ DOMAIN pc' = Threads
    BY <1>1, <2>1 DEF IInv
  <2>3. CASE t = "app"
    <3>1. o \in copy_callback(local[t], io, i)
      BY <2>1, <2>3 DEF callback
    <3>2. IsIO(io') /\ io'.datagram = io.datagram
      BY <2>1, <3>1, CopyCallbackKeeps DEF IInv
    <3>3. local'["tcp"] = local["tcp"] /\ todo'["tcp"] = todo["tcp"] /\ pc'["tcp"] = pc["tcp"]
      BY <1>5, <2>1, <2>3 DEF IInv, Threads
    <3>4. AdapterReady(todo'["tcp"], io')
      BY <3>2, <3>3 DEF IInv, AdapterReady
    <3>5. DOMAIN local' = Threads /\ DOMAIN todo' = Threads
      BY <1>5, <2>1 DEF IInv
    <3> QED BY <1>5, <1>6, <2>1, <2>2, <3>2, <3>3, <3>4, <3>5 DEF IInv
  <2>4. CASE t = "tcp"
    <3>1. i = 1 => io.datagram # "none"
      BY <1>2, <1>3, <1>4, <1>8, <2>4 DEF IInv, AdapterReady
    <3>2. IsTCP(o.local) /\ IsIO(o.io) /\ (i # 1 => o.io.datagram = io.datagram)
      BY <2>1, <2>4, <3>1, TcpCallbackKeeps DEF IInv
    <3>3. todo'["tcp"] = todo["tcp"] \ {Event(i, "ready")}
      BY <1>3, <1>4, <1>5, <1>8, <2>4 DEF IInv, Threads
    <3>4. AdapterReady(todo'["tcp"], io')
      BY <2>1, <3>2, <3>3 DEF IInv, AdapterReady
    <3>5. local'["tcp"] = o.local /\ pc'["tcp"] \in {"serve", "threw"}
      BY <2>1, <2>2, <2>4 DEF IInv, Threads
    <3>6. DOMAIN local' = Threads /\ DOMAIN todo' = Threads
      BY <1>5, <2>1 DEF IInv
    <3> QED BY <1>6, <2>1, <2>2, <3>2, <3>4, <3>5, <3>6 DEF IInv
  <2> QED BY <2>3, <2>4 DEF Threads
<1> QED BY <1>3, <1>4, <1>7, <1>8

\* The rest of a turn of _tcp_loop() leaves the loop only for an abort.
LEMMA TcpLoopKeeps == ASSUME IInv, TcpLoop PROVE IInv'
<1>1. UNCHANGED <<rules, todo, io, abort>>
  BY DEF TcpLoop
<1>2. CASE abort /\ pc' = [pc EXCEPT !["tcp"] = "exit"] /\ UNCHANGED local
  BY <1>1, <1>2 DEF IInv
<1>3. CASE /\ pc' = [pc EXCEPT !["tcp"] = "poll"]
           /\ \E c \in IF local["tcp"].active THEN tick(local["tcp"]) ELSE {local["tcp"]} :
                local' = [local EXCEPT !["tcp"] = c]
  <2>1. IsTCP(local'["tcp"]) /\ DOMAIN local' = Threads
    BY <1>3, TickKeeps DEF IInv, Threads
  <2>2. pc'["tcp"] = "poll" /\ DOMAIN pc' = Threads
    BY <1>3 DEF IInv, Threads
  <2> QED BY <1>1, <2>1, <2>2 DEF IInv
<1> QED BY <1>2, <1>3 DEF TcpLoop

\* Shutting the pipe down leaves the adapter alone.
LEMMA ShutKeeps ==
  ASSUME IsIO(io)
  PROVE  IsIO(shut_both(io)) /\ shut_both(io).datagram = io.datagram
BY DEF IsIO, shut_both

LEMMA StepKeeps == IInv /\ [Next]_vars => IInv'
<1> SUFFICES ASSUME IInv, [Next]_vars PROVE IInv'
  OBVIOUS
<1>1. ASSUME NEW t \in Threads, WaitNextEvent(t) \/ Serve(t) PROVE IInv'
  BY <1>1, WaitKeeps, ServeKeeps
<1>2. CASE TcpLoop
  BY <1>2, TcpLoopKeeps
<1>3. CASE TcpMainEnds
  BY <1>3, ShutKeeps DEF TcpMainEnds, IInv, AdapterReady, Threads
<1>4. CASE WaitUntilClosed
  BY <1>4, ShutKeeps DEF WaitUntilClosed, IInv, AdapterReady, Threads
<1>5. CASE ConnectReturns \/ Join
  BY <1>5 DEF ConnectReturns, Join, IInv, Threads
<1>6. CASE Destruct
  BY <1>6 DEF Destruct, IInv, Threads
<1>7. CASE Arrive
  <2>1. PICK kind \in Kinds : io' = [io EXCEPT !.datagram = kind]
    BY <1>7 DEF Arrive
  <2>2. IsIO(io') /\ io'.datagram # "none"
    BY <2>1 DEF IInv, IsIO, Kinds
  <2>3. UNCHANGED <<local, rules, todo, pc, abort>>
    BY <1>7 DEF Arrive
  <2> QED BY <2>2, <2>3 DEF IInv, AdapterReady
<1>8. CASE UNCHANGED vars
  BY <1>8 DEF vars, IInv
<1> QED BY <1>1, <1>2, <1>3, <1>4, <1>5, <1>6, <1>7, <1>8 DEF Next, AppStep, TcpStep, Threads

\* Unless it is aborted, the TCP thread ends with all its segments handed to the
\* adapter: for every capacity and window, whatever the peer sends, and however
\* the two threads interleave.
THEOREM NoSegmentLeftBehind == Spec => []LastSegmentsSent
<1>1. IInv => LastSegmentsSent
  BY DEF IInv, LastSegmentsSent
<1> QED BY <1>1, InitIInv, StepKeeps, PTL DEF Spec

-----------------------------------------------------------------------------
\* Consecutive bytes, joined and split

LEMMA FollowJoin ==
  ASSUME NEW s \in Seq(Nat), NEW d \in Seq(Nat), NEW f \in Nat,
         Follow(s, f), Follow(d, f + Len(s))
  PROVE  s \o d \in Seq(Nat) /\ Len(s \o d) = Len(s) + Len(d) /\ Follow(s \o d, f)
<1>1. s \o d \in Seq(Nat) /\ Len(s \o d) = Len(s) + Len(d) /\ Len(s) \in Nat /\ Len(d) \in Nat
  OBVIOUS
<1>2. ASSUME NEW k \in 1 .. Len(s) + Len(d) PROVE (s \o d)[k] = f + k
  <2>1. CASE k <= Len(s)
    BY <1>1, <2>1 DEF Follow
  <2>2. CASE k > Len(s)
    <3>1. (s \o d)[k] = d[k - Len(s)] /\ k - Len(s) \in 1 .. Len(d)
      BY <1>1, <2>2
    <3>2. d[k - Len(s)] = f + Len(s) + (k - Len(s))
      BY <3>1 DEF Follow
    <3> QED BY <1>1, <3>1, <3>2
  <2> QED BY <1>1, <2>1, <2>2
<1> QED BY <1>1, <1>2 DEF Follow

SplitsAt(s, f, n) ==
  LET front == SubSeq(s, 1, n)
      back  == SubSeq(s, n + 1, Len(s))
  IN  /\ front \in Seq(Nat) /\ Len(front) = n /\ Follow(front, f)
      /\ back \in Seq(Nat) /\ Len(back) = Len(s) - n /\ Follow(back, f + n)

LEMMA FollowSplit ==
  ASSUME NEW s \in Seq(Nat), NEW f \in Nat, Follow(s, f), NEW n \in 0 .. Len(s)
  PROVE  SplitsAt(s, f, n)
<1> DEFINE front == SubSeq(s, 1, n)
           back  == SubSeq(s, n + 1, Len(s))
<1>1. Len(s) \in Nat
  OBVIOUS
<1>2. front \in Seq(Nat) /\ Len(front) = n /\ \A k \in 1 .. n : front[k] = s[k]
  BY <1>1
<1>3. /\ back \in Seq(Nat) /\ Len(back) = Len(s) - n
      /\ \A k \in 1 .. Len(s) - n : back[k] = s[n + k]
  <2> DEFINE m == n + 1
             N == Len(s)
  <2>1. m \in Int /\ N \in Int /\ (\A i \in m .. N : s[i] \in Nat)
    BY <1>1
  <2>2. back = SubSeq(s, m, N)
    OBVIOUS
  <2> HIDE DEF m, N, back
  <2>3. /\ back \in Seq(Nat) /\ Len(back) = (IF m <= N THEN N - m + 1 ELSE 0)
        /\ \A k \in 1 .. N - m + 1 : back[k] = s[m + k - 1]
    BY ONLY <2>1, <2>2
  <2>4. m = n + 1 /\ N = Len(s) /\ n \in 0 .. N /\ N \in Nat
    BY <1>1 DEF m, N
  <2>5. Len(back) = N - n /\ N - m + 1 = N - n
    BY ONLY <2>3, <2>4
  <2>6. ASSUME NEW k \in 1 .. N - n PROVE back[k] = s[n + k]
    <3>1. m + k - 1 = n + k
      BY ONLY <2>4, k \in 1 .. N - n
    <3> QED BY <2>3, <2>5, <3>1
  <2> QED BY <2>3, <2>4, <2>5, <2>6
<1>4. \A k \in 1 .. n : s[k] = f + k
  BY <1>1 DEF Follow
<1>5. \A k \in 1 .. Len(s) - n : s[n + k] = f + n + k
  BY <1>1 DEF Follow
<1>6. DOMAIN front = 1 .. n /\ DOMAIN back = 1 .. Len(s) - n
  <2> HIDE DEF front, back
  <2> QED BY ONLY <1>2, <1>3
<1>7. /\ front \in Seq(Nat) /\ Len(front) = n /\ Follow(front, f)
      /\ back \in Seq(Nat) /\ Len(back) = Len(s) - n /\ Follow(back, f + n)
  <2> HIDE DEF front, back
  <2> QED BY ONLY <1>2, <1>3, <1>4, <1>5, <1>6, Zenon DEF Follow
<1> QED BY ONLY <1>7, Zenon DEF SplitsAt

LEMMA SumAssociates == \A i, j, n \in Nat : (i + j) + n = i + (j + n)
OBVIOUS

\* The empty sequence is one, and is the only one of length 0.
LEMMA EmptyRun ==
  /\ << >> \in Seq(Nat) /\ Len(<< >>) = 0
  /\ \A f : Follow(<< >>, f)
  /\ \A s \in Seq(Nat) : Len(s) \in Nat /\ (s = << >> <=> Len(s) = 0)
BY DEF Follow

-----------------------------------------------------------------------------
\* ByteStreams that hold consecutive bytes

\* A ByteStream that holds the bytes that follow those it has passed on
Streams(capacity) ==
  {q \in [buffer : Seq(Nat), popped : Nat, ended : BOOLEAN, error : BOOLEAN] :
     Len(q.buffer) <= capacity /\ Follow(q.buffer, q.popped)}

LEMMA StreamType ==
  ASSUME NEW C, NEW q \in Streams(C)
  PROVE  /\ q.buffer \in Seq(Nat) /\ q.popped \in Nat /\ q.ended \in BOOLEAN /\ q.error \in BOOLEAN
         /\ Len(q.buffer) \in Nat /\ Len(q.buffer) <= C /\ Follow(q.buffer, q.popped)
         /\ q = [buffer |-> q.buffer, popped |-> q.popped, ended |-> q.ended, error |-> q.error]
         /\ buffer_size(q) = Len(q.buffer) /\ bytes_written(q) = q.popped + Len(q.buffer)
         /\ bytes_written(q) \in Nat
         /\ eof(q) <=> q.ended /\ Len(q.buffer) = 0
BY EmptyRun DEF Streams, buffer_size, bytes_written, eof

LEMMA IsStream ==
  ASSUME NEW C, NEW b \in Seq(Nat), NEW n \in Nat, NEW ended_ \in BOOLEAN, NEW error_ \in BOOLEAN,
         Len(b) <= C, Follow(b, n)
  PROVE  [buffer |-> b, popped |-> n, ended |-> ended_, error |-> error_] \in Streams(C)
BY DEF Streams

\* pop_output() and peek_output(): the bytes popped are the first ones.
PopOutcome(C, q, n) ==
  LET p == pop_output(q, n)
      d == peek_output(q, n)
  IN  /\ p \in Streams(C) /\ p.popped = q.popped + n /\ Len(p.buffer) = Len(q.buffer) - n
      /\ p.ended = q.ended /\ p.error = q.error
      /\ bytes_written(p) = bytes_written(q)
      /\ d \in Seq(Nat) /\ Len(d) = n /\ Follow(d, q.popped)

LEMMA PopSplits ==
  ASSUME NEW C \in Nat, NEW q \in Streams(C), NEW n \in 0 .. Len(q.buffer)
  PROVE  PopOutcome(C, q, n)
<1> DEFINE p == pop_output(q, n)
           d == peek_output(q, n)
<1>1. /\ q.buffer \in Seq(Nat) /\ q.popped \in Nat /\ q.ended \in BOOLEAN /\ q.error \in BOOLEAN
      /\ Len(q.buffer) \in Nat /\ Len(q.buffer) <= C /\ Follow(q.buffer, q.popped)
  BY StreamType
<1>2. min(n, Len(q.buffer)) = n
  BY <1>1 DEF min
<1> DEFINE b == SubSeq(q.buffer, n + 1, Len(q.buffer))
<1>3. p = [buffer |-> b, popped |-> q.popped + n, ended |-> q.ended, error |-> q.error]
  BY <1>2, Zenon DEF pop_output
<1>4. d = SubSeq(q.buffer, 1, n)
  BY <1>2, Zenon DEF peek_output
<1>5. /\ d \in Seq(Nat) /\ Len(d) = n /\ Follow(d, q.popped)
      /\ b \in Seq(Nat) /\ Len(b) = Len(q.buffer) - n /\ Follow(b, q.popped + n)
  <2>1. SplitsAt(q.buffer, q.popped, n)
    BY ONLY <1>1, FollowSplit, n \in 0 .. Len(q.buffer), Zenon
  <2> QED BY ONLY <1>4, <2>1, Zenon DEF SplitsAt
<1> HIDE DEF b, p, d
<1>6. q.popped + n \in Nat /\ Len(b) <= C
  BY ONLY <1>1, <1>5, n \in 0 .. Len(q.buffer), C \in Nat
<1>7. p \in Streams(C)
  BY ONLY <1>1, <1>3, <1>5, <1>6, IsStream
<1>8. p.buffer = b /\ p.popped = q.popped + n /\ p.ended = q.ended /\ p.error = q.error
  BY ONLY <1>3
<1>9. bytes_written(p) = bytes_written(q)
  BY ONLY <1>1, <1>5, <1>8, n \in 0 .. Len(q.buffer) DEF bytes_written
<1>10. Len(p.buffer) = Len(q.buffer) - n
  BY ONLY <1>5, <1>8
<1> QED BY ONLY <1>5, <1>7, <1>8, <1>9, <1>10, Zenon DEF PopOutcome, p, d

\* write(): bytes that follow are taken, all of them when they fit and the input
\* has not ended.
WriteOutcome(C, q, d) ==
  LET p == write(q, C, d)
  IN  /\ p \in Streams(C) /\ p.popped = q.popped
      /\ p.ended = q.ended /\ p.error = q.error
      /\ q.ended => p = q
      /\ Len(q.buffer) <= Len(p.buffer)
      /\ ~ q.ended /\ Len(d) <= C - Len(q.buffer) =>
           bytes_written(p) = bytes_written(q) + Len(d)

LEMMA WriteJoins ==
  ASSUME NEW C \in Nat, NEW q \in Streams(C), NEW d \in Seq(Nat), Follow(d, bytes_written(q))
  PROVE  WriteOutcome(C, q, d)
<1> DEFINE p == write(q, C, d)
<1>1. /\ q.buffer \in Seq(Nat) /\ q.popped \in Nat /\ q.ended \in BOOLEAN /\ q.error \in BOOLEAN
      /\ Len(q.buffer) \in Nat /\ Len(q.buffer) <= C /\ Follow(q.buffer, q.popped)
      /\ q = [buffer |-> q.buffer, popped |-> q.popped, ended |-> q.ended, error |-> q.error]
      /\ bytes_written(q) = q.popped + Len(q.buffer) /\ bytes_written(q) \in Nat
  BY StreamType
<1>2. CASE q.ended
  <2>1. p = q
    BY <1>2, Zenon DEF write
  <2>2. Len(q.buffer) <= Len(q.buffer)
    BY ONLY <1>1
  <2> QED BY ONLY <1>2, <2>1, <2>2, q \in Streams(C), Zenon DEF WriteOutcome
<1>3. CASE ~ q.ended
  <2> DEFINE n == min(Len(d), remaining_capacity(q, C))
             e == SubSeq(d, 1, n)
             b == q.buffer \o e
  <2>0. Len(d) \in Nat
    BY EmptyRun
  <2>1. n \in 0 .. Len(d) /\ n <= C - Len(q.buffer) /\ (Len(d) <= C - Len(q.buffer) => n = Len(d))
    BY ONLY <1>1, <2>0, C \in Nat DEF min, remaining_capacity
  <2>2. p = [q EXCEPT !.buffer = b]
    BY <1>3, Zenon DEF write
  <2> HIDE DEF n
  <2>3. e \in Seq(Nat) /\ Len(e) = n /\ Follow(e, bytes_written(q))
    <3>1. SplitsAt(d, bytes_written(q), n)
      BY ONLY <1>1, <2>1, FollowSplit, d \in Seq(Nat), Follow(d, bytes_written(q)), Zenon
    <3> QED BY ONLY <3>1, Zenon DEF SplitsAt
  <2> HIDE DEF e, p
  <2>4. b \in Seq(Nat) /\ Len(b) = Len(q.buffer) + n /\ Follow(b, q.popped)
    BY ONLY <1>1, <2>3, FollowJoin, Zenon
  <2> HIDE DEF b
  <2>5. p = [buffer |-> b, popped |-> q.popped, ended |-> q.ended, error |-> q.error]
    BY ONLY <1>1, <2>2
  <2>6. Len(b) <= C /\ Len(q.buffer) <= Len(b)
    BY ONLY <1>1, <2>0, <2>1, <2>4, C \in Nat
  <2>7. p \in Streams(C)
    BY ONLY <1>1, <2>4, <2>5, <2>6, IsStream
  <2>8. p.buffer = b /\ p.popped = q.popped /\ p.ended = q.ended /\ p.error = q.error
    BY ONLY <2>5
  <2>9. Len(d) <= C - Len(q.buffer) => bytes_written(p) = bytes_written(q) + Len(d)
    BY ONLY <1>1, <2>0, <2>1, <2>4, <2>8 DEF bytes_written
  <2> QED BY ONLY <1>3, <2>6, <2>7, <2>8, <2>9, Zenon DEF WriteOutcome, p
<1> QED BY <1>1, <1>2, <1>3

\* end_input() and set_error() only raise their flags.
LEMMA FlagsOnly ==
  ASSUME NEW C, NEW q \in Streams(C)
  PROVE  /\ end_input(q) \in Streams(C) /\ set_error(q) \in Streams(C)
         /\ end_input(q).buffer = q.buffer /\ end_input(q).popped = q.popped
         /\ end_input(q).ended = TRUE /\ end_input(q).error = q.error
         /\ set_error(q).buffer = q.buffer /\ set_error(q).popped = q.popped
         /\ set_error(q).ended = q.ended /\ set_error(q).error = TRUE
<1>1. /\ q \in [buffer : Seq(Nat), popped : Nat, ended : BOOLEAN, error : BOOLEAN]
      /\ Len(q.buffer) <= C /\ Follow(q.buffer, q.popped)
  BY DEF Streams
<1>2. /\ end_input(q) \in [buffer : Seq(Nat), popped : Nat, ended : BOOLEAN, error : BOOLEAN]
      /\ end_input(q).buffer = q.buffer /\ end_input(q).popped = q.popped
      /\ end_input(q).ended = TRUE /\ end_input(q).error = q.error
  BY ONLY <1>1, Zenon DEF end_input
<1>3. /\ set_error(q) \in [buffer : Seq(Nat), popped : Nat, ended : BOOLEAN, error : BOOLEAN]
      /\ set_error(q).buffer = q.buffer /\ set_error(q).popped = q.popped
      /\ set_error(q).ended = q.ended /\ set_error(q).error = TRUE
  BY ONLY <1>1, Zenon DEF set_error
<1>4. end_input(q) \in Streams(C) /\ set_error(q) \in Streams(C)
  BY ONLY <1>1, <1>2, <1>3 DEF Streams
<1> QED BY ONLY <1>2, <1>3, <1>4

\* read() takes the first bytes of a pipe and leaves the others.
ReadOutcome(s, f, limit) ==
  LET d == read(s, limit)
      r == rest(s, limit)
  IN  /\ d \in Seq(Nat) /\ Len(d) <= limit /\ Follow(d, f)
      /\ r \in Seq(Nat) /\ Follow(r, f + Len(d)) /\ Len(r) = Len(s) - Len(d)
      /\ Len(d) \in 0 .. Len(s)
      /\ d = << >> /\ limit > 0 => s = << >>
      /\ s = << >> => d = << >> /\ r = << >>

LEMMA ReadSplits ==
  ASSUME NEW s \in Seq(Nat), NEW f \in Nat, Follow(s, f), NEW limit \in Nat
  PROVE  ReadOutcome(s, f, limit)
<1> DEFINE n == min(limit, Len(s))
           d == read(s, limit)
           r == rest(s, limit)
<1>1. Len(s) \in Nat
  BY EmptyRun
<1>2. n \in 0 .. Len(s) /\ n <= limit /\ (n = 0 /\ limit > 0 => Len(s) = 0)
  BY <1>1 DEF min
<1>3. d = SubSeq(s, 1, n) /\ r = SubSeq(s, n + 1, Len(s))
  BY DEF read, rest
<1> HIDE DEF n, d, r
<1>4. /\ d \in Seq(Nat) /\ Len(d) = n /\ Follow(d, f)
      /\ r \in Seq(Nat) /\ Len(r) = Len(s) - n /\ Follow(r, f + n)
  <2>1. SplitsAt(s, f, n)
    BY ONLY <1>2, FollowSplit, s \in Seq(Nat), f \in Nat, Follow(s, f), Zenon
  <2> QED BY ONLY <1>3, <2>1, Zenon DEF SplitsAt
<1>5. /\ d = << >> <=> n = 0
      /\ s = << >> <=> Len(s) = 0
      /\ r = << >> <=> Len(s) - n = 0
  BY <1>4, EmptyRun
<1>6. s = << >> => n = 0 /\ Len(s) - n = 0
  BY ONLY <1>1, <1>2, <1>5
<1>7. /\ d \in Seq(Nat) /\ Len(d) <= limit /\ Follow(d, f)
      /\ r \in Seq(Nat) /\ Follow(r, f + Len(d)) /\ Len(r) = Len(s) - Len(d)
      /\ Len(d) \in 0 .. Len(s)
      /\ d = << >> /\ limit > 0 => s = << >>
      /\ s = << >> => d = << >> /\ r = << >>
  BY <1>1, <1>2, <1>4, <1>5, <1>6
<1> QED BY ONLY <1>7, Zenon DEF ReadOutcome, d, r

-----------------------------------------------------------------------------
\* The connection

Connections ==
  [out : Streams(SendCapacity), in : Streams(RecvCapacity), open : BOOLEAN, active : BOOLEAN,
   segments_out : Nat, flight : 0 .. Window, fin : {"no", "sent", "acked"},
   outbound_shutdown : BOOLEAN, inbound_shutdown : BOOLEAN]

\* A connection that is over was reset, or both its streams have ended.
IsConnection(c) ==
  /\ c \in Connections
  /\ c.out.error = c.in.error
  /\ c.fin # "no" => c.out.ended
  /\ ~ c.active => c.out.error \/ (c.out.ended /\ c.in.ended)
  /\ c.inbound_shutdown => eof(c.in) \/ c.in.error

LEMMA ConnectionType ==
  ASSUME NEW c, IsConnection(c)
  PROVE  /\ c.out \in Streams(SendCapacity) /\ c.in \in Streams(RecvCapacity)
         /\ c.open \in BOOLEAN /\ c.active \in BOOLEAN
         /\ c.outbound_shutdown \in BOOLEAN /\ c.inbound_shutdown \in BOOLEAN
         /\ c.segments_out \in Nat /\ c.flight \in 0 .. Window /\ c.fin \in {"no", "sent", "acked"}
BY DEF IsConnection, Connections

\* What the connection does to its streams: it passes on bytes that it was given,
\* and takes bytes from the peer, none once the peer has sent its FIN.
Receives(c, d) ==
  /\ IsConnection(d)
  /\ bytes_written(d.out) = bytes_written(c.out) /\ d.out.ended = c.out.ended
  /\ d.in.popped = c.in.popped /\ d.inbound_shutdown = c.inbound_shutdown
  /\ Len(c.in.buffer) <= Len(d.in.buffer)
  /\ c.in.ended => d.in.ended /\ d.in.buffer = c.in.buffer
  /\ c.in.error => d.in.error

\* What it does without a segment from the peer
Sends(c, d) == Receives(c, d) /\ d.in = c.in /\ d.active = c.active

LEMMA CollectSends ==
  ASSUME NEW c, IsConnection(c), NEW d, d = collect(c)
  PROVE  Sends(c, d)
<1> DEFINE n    == IF c.open THEN min(Window - c.flight, buffer_size(c.out)) ELSE 0
           out  == pop_output(c.out, n)
           ends == c.open /\ eof(out) /\ c.fin = "no"
           f    == IF ends THEN "sent" ELSE c.fin
           s    == IF n > 0 \/ ends THEN min(c.segments_out + 1, 2) ELSE c.segments_out
           m    == c.flight + n
<1>0. /\ c.out \in Streams(SendCapacity) /\ c.in \in Streams(RecvCapacity)
      /\ c.open \in BOOLEAN /\ c.segments_out \in Nat /\ c.flight \in 0 .. Window
      /\ c.fin \in {"no", "sent", "acked"}
  BY ConnectionType
<1>1. Len(c.out.buffer) \in Nat /\ Len(c.in.buffer) \in Nat
  BY <1>0, StreamType
<1>2. n \in 0 .. Len(c.out.buffer) /\ m \in 0 .. Window
  <2>1. Window \in Nat
    BY SocketAssumption
  <2>2. n = IF c.open THEN min(Window - c.flight, Len(c.out.buffer)) ELSE 0
    BY DEF buffer_size
  <2>3. m = c.flight + n
    OBVIOUS
  <2> HIDE DEF n, m
  <2> QED BY ONLY <1>0, <1>1, <2>1, <2>2, <2>3 DEF min
<1>3. d = [c EXCEPT !.out = out, !.flight = m, !.fin = f, !.segments_out = s]
  BY Zenon DEF collect
<1> HIDE DEF n, m
<1>4. /\ out \in Streams(SendCapacity) /\ bytes_written(out) = bytes_written(c.out)
      /\ out.ended = c.out.ended /\ out.error = c.out.error
  <2>1. SendCapacity \in Nat
    BY SocketAssumption
  <2>2. out = pop_output(c.out, n) /\ peek_output(c.out, n) = peek_output(c.out, n)
    OBVIOUS
  <2> HIDE DEF out
  <2>o. PopOutcome(SendCapacity, c.out, n)
    BY ONLY <1>0, <1>2, <2>1, <2>2, PopSplits, Zenon
  <2> QED BY ONLY <2>2, <2>o, Zenon DEF PopOutcome
<1>5. s \in Nat
  BY <1>0, OneMore, Zenon
<1>6. f \in {"no", "sent", "acked"} /\ (f # "no" => c.fin # "no" \/ out.ended)
  BY ONLY <1>0 DEF eof
<1> HIDE DEF out, ends, f, s
<1>7. d \in Connections /\ d.out = out /\ d.fin = f /\ d.in = c.in /\ d.active = c.active
      /\ d.inbound_shutdown = c.inbound_shutdown
  BY ONLY <1>2, <1>3, <1>4, <1>5, <1>6, IsConnection(c), Zenon DEF IsConnection, Connections
<1>8. IsConnection(d)
  BY ONLY <1>4, <1>6, <1>7, IsConnection(c) DEF IsConnection
<1>9. Len(c.in.buffer) <= Len(c.in.buffer)
  BY ONLY <1>1
<1> QED BY ONLY <1>4, <1>7, <1>8, <1>9 DEF Sends, Receives

LEMMA ReceivesTwice ==
  ASSUME NEW c, IsConnection(c), NEW d, NEW e, Receives(c, d), Receives(d, e)
  PROVE  Receives(c, e)
<1>1. IsConnection(d) /\ IsConnection(e)
  BY DEF Receives
<1>2. Len(c.in.buffer) \in Nat /\ Len(d.in.buffer) \in Nat /\ Len(e.in.buffer) \in Nat
  BY <1>1, ConnectionType, StreamType
<1> DEFINE k == Len(c.in.buffer)
           m == Len(d.in.buffer)
           n == Len(e.in.buffer)
<1>3. k \in Nat /\ m \in Nat /\ n \in Nat /\ k <= m /\ m <= n
  BY ONLY <1>2, Receives(c, d), Receives(d, e), Zenon DEF Receives
<1> HIDE DEF k, m, n
<1>4. k <= n
  BY ONLY <1>3
<1> USE DEF k, n
<1> QED BY ONLY <1>1, <1>4, Receives(c, d), Receives(d, e), Zenon DEF Receives

\* write_tcp(): bytes that follow and fit, none once the input has ended
LEMMA WriteTcpSends ==
  ASSUME NEW c, IsConnection(c), NEW data \in Seq(Nat), Follow(data, bytes_written(c.out)),
         Len(data) <= SendCapacity - Len(c.out.buffer), c.out.ended => data = << >>,
         NEW d, d = write_tcp(c, data)
  PROVE  /\ IsConnection(d) /\ d.in = c.in /\ d.inbound_shutdown = c.inbound_shutdown
         /\ bytes_written(d.out) = bytes_written(c.out) + Len(data)
         /\ d.out.ended = c.out.ended
<1> DEFINE out == write(c.out, SendCapacity, data)
           e   == [c EXCEPT !.out = out]
<1>1. /\ c.out \in Streams(SendCapacity) /\ SendCapacity \in Nat
  BY ConnectionType, SocketAssumption
<1>2. /\ out \in Streams(SendCapacity) /\ out.ended = c.out.ended /\ out.error = c.out.error
      /\ c.out.ended => out = c.out
      /\ ~ c.out.ended => bytes_written(out) = bytes_written(c.out) + Len(data)
  <2>1. out = write(c.out, SendCapacity, data)
    OBVIOUS
  <2> HIDE DEF out
  <2>o. WriteOutcome(SendCapacity, c.out, data)
    BY <1>1, <2>1, WriteJoins, Zenon
  <2> QED BY ONLY <2>1, <2>o, Len(data) <= SendCapacity - Len(c.out.buffer), Zenon DEF WriteOutcome
<1>3. bytes_written(out) = bytes_written(c.out) + Len(data)
  <2>1. bytes_written(c.out) \in Nat /\ c.out.ended \in BOOLEAN
    BY <1>1, StreamType
  <2>2. CASE c.out.ended
    <3>1. Len(data) = 0 /\ out = c.out
      BY <1>2, <2>2, EmptyRun
    <3> HIDE DEF out
    <3> QED BY ONLY <2>1, <3>1
  <2>3. CASE ~ c.out.ended
    BY <1>2, <2>3, Zenon
  <2> QED BY <2>1, <2>2, <2>3
<1> HIDE DEF out
<1>4. e \in Connections /\ e.out = out /\ e.fin = c.fin /\ e.in = c.in /\ e.active = c.active
      /\ e.inbound_shutdown = c.inbound_shutdown
  BY ONLY <1>2, IsConnection(c), Zenon DEF IsConnection, Connections
<1> HIDE DEF e
<1>5. IsConnection(e)
  BY ONLY <1>2, <1>4, IsConnection(c) DEF IsConnection
<1>6. d = collect(e)
  BY Zenon DEF write_tcp, e, out
<1>7. Sends(e, d)
  BY ONLY <1>5, <1>6, CollectSends
<1> QED BY ONLY <1>2, <1>3, <1>4, <1>7 DEF Sends, Receives

LEMMA OutboundEndedSends ==
  ASSUME NEW c, IsConnection(c), NEW d, d = outbound_ended(c)
  PROVE  /\ IsConnection(d) /\ d.in = c.in /\ d.inbound_shutdown = c.inbound_shutdown
         /\ bytes_written(d.out) = bytes_written(c.out)
         /\ d.out.ended = TRUE
<1> DEFINE out == end_input(c.out)
           e   == [c EXCEPT !.out = out]
           g   == collect(e)
<1>1. c.out \in Streams(SendCapacity)
  BY ConnectionType
<1>2. /\ out \in Streams(SendCapacity) /\ out.ended = TRUE /\ out.error = c.out.error
      /\ bytes_written(out) = bytes_written(c.out)
  BY ONLY <1>1, FlagsOnly, Zenon DEF bytes_written
<1> HIDE DEF out
<1>3. e \in Connections /\ e.out = out /\ e.fin = c.fin /\ e.in = c.in /\ e.active = c.active
      /\ e.inbound_shutdown = c.inbound_shutdown
  BY ONLY <1>2, IsConnection(c) DEF IsConnection, Connections
<1>4. g = collect(e) /\ d = [g EXCEPT !.outbound_shutdown = TRUE]
  BY Zenon DEF outbound_ended, end_input_stream, out
<1> HIDE DEF e, g
<1>5. IsConnection(e)
  BY ONLY <1>2, <1>3, IsConnection(c) DEF IsConnection
<1>6. Sends(e, g)
  BY ONLY <1>4, <1>5, CollectSends
<1>7. IsConnection(g)
  BY ONLY <1>6 DEF Sends, Receives
<1>8. d \in Connections /\ d.out = g.out /\ d.fin = g.fin /\ d.in = g.in /\ d.active = g.active
      /\ d.inbound_shutdown = g.inbound_shutdown
  BY ONLY <1>4, <1>7, Zenon DEF IsConnection, Connections
<1>9. IsConnection(d)
  BY ONLY <1>7, <1>8 DEF IsConnection
<1> QED BY ONLY <1>2, <1>3, <1>6, <1>8, <1>9 DEF Sends, Receives

\* reset() leaves the bytes of both streams where they are.
LEMMA ResetReceives ==
  ASSUME NEW c, IsConnection(c), NEW d, d = reset(c)
  PROVE  /\ Receives(c, d) /\ d.in.error /\ d.in.ended = c.in.ended
         /\ bytes_written(d.in) = bytes_written(c.in)
<1> DEFINE out == set_error(c.out)
           in  == set_error(c.in)
<1>1. c.out \in Streams(SendCapacity) /\ c.in \in Streams(RecvCapacity)
  BY ConnectionType
<1>2. /\ out \in Streams(SendCapacity) /\ out.ended = c.out.ended /\ out.error = TRUE
      /\ bytes_written(out) = bytes_written(c.out)
      /\ in \in Streams(RecvCapacity) /\ in.ended = c.in.ended /\ in.error = TRUE
      /\ in.popped = c.in.popped /\ in.buffer = c.in.buffer
      /\ bytes_written(in) = bytes_written(c.in)
  BY ONLY <1>1, FlagsOnly, Zenon DEF bytes_written
<1>3. d = [c EXCEPT !.out = out, !.in = in, !.active = FALSE]
  BY Zenon DEF reset
<1> HIDE DEF out, in
<1>4. d \in Connections /\ d.out = out /\ d.fin = c.fin /\ d.in = in
      /\ d.inbound_shutdown = c.inbound_shutdown
  BY ONLY <1>2, <1>3, IsConnection(c), Zenon DEF IsConnection, Connections
<1>5. IsConnection(d)
  BY ONLY <1>2, <1>4, IsConnection(c), Zenon DEF IsConnection
<1>6. Len(c.in.buffer) <= Len(c.in.buffer)
  <2>1. Len(c.in.buffer) \in Nat
    BY <1>1, StreamType
  <2> QED BY ONLY <2>1
<1> QED BY ONLY <1>2, <1>4, <1>5, <1>6 DEF Receives

\* One more segment waits.
LEMMA CountReceives ==
  ASSUME NEW c, IsConnection(c), NEW n \in Nat, NEW d, d = [c EXCEPT !.segments_out = n]
  PROVE  Receives(c, d) /\ d.in = c.in
<1>1. d \in Connections /\ d.out = c.out /\ d.fin = c.fin /\ d.in = c.in /\ d.active = c.active
      /\ d.inbound_shutdown = c.inbound_shutdown
  BY DEF IsConnection, Connections
<1>2. IsConnection(d)
  BY ONLY <1>1, IsConnection(c) DEF IsConnection
<1>3. Len(c.in.buffer) <= Len(c.in.buffer)
  <2>1. Len(c.in.buffer) \in Nat
    BY ConnectionType, StreamType
  <2> QED BY ONLY <2>1
<1> QED BY ONLY <1>1, <1>2, <1>3 DEF Receives

\* The connection is over, or not, once both its FINs are acknowledged.
LEMMA CloseReceives ==
  ASSUME NEW c, IsConnection(c), NEW d, d = [c EXCEPT !.active = ~ Closing(c)]
  PROVE  Receives(c, d) /\ d.in = c.in
<1> DEFINE t == ~ Closing(c)
<1>1. t \in BOOLEAN /\ (~ t => c.fin # "no" /\ c.in.ended)
  BY DEF Closing
<1> HIDE DEF t
<1>2. d = [c EXCEPT !.active = t]
  BY Zenon DEF t
<1>3. d \in Connections /\ d.out = c.out /\ d.fin = c.fin /\ d.in = c.in /\ d.active = t
      /\ d.inbound_shutdown = c.inbound_shutdown
  BY ONLY <1>1, <1>2, IsConnection(c) DEF IsConnection, Connections
<1>4. IsConnection(d)
  BY ONLY <1>1, <1>3, IsConnection(c) DEF IsConnection
<1>5. Len(c.in.buffer) <= Len(c.in.buffer)
  <2>1. Len(c.in.buffer) \in Nat
    BY ConnectionType, StreamType
  <2> QED BY ONLY <2>1
<1> QED BY ONLY <1>3, <1>4, <1>5 DEF Receives

\* A segment of the peer that carries the next byte, or a FIN
Extended(q, p) ==
  /\ p \in Streams(RecvCapacity) /\ p.popped = q.popped /\ p.error = q.error
  /\ Len(q.buffer) <= Len(p.buffer)
  /\ q.ended => p.ended /\ p.buffer = q.buffer

WithInput(c, in, n) == [c EXCEPT !.in = in, !.segments_out = n]

LEMMA InputReceives ==
  ASSUME NEW c, IsConnection(c), NEW in, Extended(c.in, in), NEW n \in Nat,
         NEW d, d = WithInput(c, in, n)
  PROVE  Receives(c, d) /\ d.in = in
<1>0. /\ in \in Streams(RecvCapacity) /\ in.popped = c.in.popped /\ in.error = c.in.error
      /\ Len(c.in.buffer) <= Len(in.buffer)
      /\ c.in.ended => in.ended /\ in.buffer = c.in.buffer
  BY ONLY Extended(c.in, in), Zenon DEF Extended
<1>1. d \in Connections /\ d.out = c.out /\ d.fin = c.fin /\ d.in = in /\ d.active = c.active
      /\ d.inbound_shutdown = c.inbound_shutdown
  BY <1>0, Zenon DEF WithInput, IsConnection, Connections
<1>2. IsConnection(d)
  BY <1>0, <1>1 DEF IsConnection, eof
<1> QED BY <1>0, <1>1, <1>2 DEF Receives

\* segment_received(): the peer's stream ends with its FIN only.
LEMMA SegmentReceives ==
  ASSUME NEW c, IsConnection(c), NEW kind \in Kinds, NEW d \in segment_received(c, kind)
  PROVE  /\ Receives(c, d)
         /\ d.in.ended => c.in.ended \/ kind = "fin"
         /\ kind = "fin" => bytes_written(d.in) = bytes_written(c.in)
<1>0. /\ c.out \in Streams(SendCapacity) /\ c.in \in Streams(RecvCapacity) /\ RecvCapacity \in Nat
      /\ c.segments_out \in Nat /\ min(c.segments_out + 1, 2) \in Nat
  BY ConnectionType, SocketAssumption, OneMore
<1>n. Len(c.in.buffer) \in Nat /\ bytes_written(c.in) \in Nat
  BY <1>0, StreamType
<1>l. Len(c.in.buffer) <= Len(c.in.buffer)
  BY ONLY <1>n
<1>1. CASE kind = "useless"
  <2>1. d = c
    BY <1>1 DEF segment_received
  <2> QED BY ONLY <1>1, <1>l, <2>1, IsConnection(c) DEF Receives
<1>2. CASE kind = "syn"
  <2> DEFINE e == [c EXCEPT !.open = TRUE, !.segments_out = min(@ + 1, 2)]
  <2>1. d = collect(e)
    BY <1>2 DEF segment_received
  <2>2. e \in Connections /\ e.out = c.out /\ e.fin = c.fin /\ e.in = c.in /\ e.active = c.active
        /\ e.inbound_shutdown = c.inbound_shutdown
    BY <1>0, Zenon DEF IsConnection, Connections
  <2> HIDE DEF e
  <2>3. IsConnection(e)
    BY ONLY <2>2, IsConnection(c) DEF IsConnection
  <2>4. Sends(e, d)
    BY ONLY <2>1, <2>3, CollectSends
  <2> QED BY ONLY <1>2, <2>2, <2>4 DEF Sends, Receives
<1>3. CASE kind = "data"
  <2> DEFINE b  == <<bytes_written(c.in) + 1>>
             in == write(c.in, RecvCapacity, b)
             n  == min(c.segments_out + 1, 2)
  <2>1. d = WithInput(c, in, n)
    BY <1>3 DEF WithInput, segment_received
  <2>2. b \in Seq(Nat) /\ Follow(b, bytes_written(c.in))
    BY ONLY <1>n DEF Follow
  <2>3. /\ in \in Streams(RecvCapacity) /\ in.popped = c.in.popped /\ in.error = c.in.error
        /\ Len(c.in.buffer) <= Len(in.buffer) /\ in.ended = c.in.ended
        /\ c.in.ended => in = c.in
    <3>1. in = write(c.in, RecvCapacity, b)
      OBVIOUS
    <3> HIDE DEF in, b
    <3>o. WriteOutcome(RecvCapacity, c.in, b)
      BY ONLY <1>0, <2>2, <3>1, WriteJoins, Zenon
    <3> QED BY ONLY <3>1, <3>o, Zenon DEF WriteOutcome
  <2>4. n \in Nat
    BY <1>0
  <2> HIDE DEF in, n
  <2>5. Receives(c, d) /\ d.in = in
    <3>1. Extended(c.in, in)
      BY ONLY <2>3, Zenon DEF Extended
    <3> QED BY ONLY <2>1, <2>4, <3>1, InputReceives, IsConnection(c), Zenon
  <2> QED BY ONLY <1>3, <2>3, <2>5
<1>4. CASE kind = "fin"
  <2> DEFINE in == end_input(c.in)
             n  == min(c.segments_out + 1, 2)
  <2>1. d = WithInput(c, in, n)
    BY <1>4 DEF WithInput, segment_received
  <2>2. /\ in \in Streams(RecvCapacity) /\ in.popped = c.in.popped /\ in.error = c.in.error
        /\ in.buffer = c.in.buffer /\ in.ended = TRUE
    BY ONLY <1>0, FlagsOnly, Zenon
  <2>3. n \in Nat
    BY <1>0
  <2> HIDE DEF in, n
  <2>4. Receives(c, d) /\ d.in = in
    <3>1. Extended(c.in, in)
      BY ONLY <1>l, <2>2, Zenon DEF Extended
    <3> QED BY ONLY <2>1, <2>3, <3>1, InputReceives, IsConnection(c), Zenon
  <2> QED BY ONLY <1>4, <2>2, <2>4 DEF bytes_written
<1>5. CASE kind = "rst"
  <2>1. d = reset(c)
    BY <1>5 DEF segment_received
  <2> QED BY ONLY <1>5, <2>1, ResetReceives, IsConnection(c)
<1>6. CASE kind = "ack"
  <2> DEFINE f == IF c.fin = "sent" THEN "acked" ELSE c.fin
             e == [c EXCEPT !.flight = 0, !.fin = f]
             b == collect(e)
  <2>1. d = b \/ d = [b EXCEPT !.active = ~ Closing(b)]
    BY <1>6 DEF segment_received
  <2>2. 0 \in 0 .. Window /\ f \in {"no", "sent", "acked"} /\ (f # "no" => c.fin # "no")
    <3>1. Window \in Nat /\ c.fin \in {"no", "sent", "acked"}
      BY SocketAssumption, ConnectionType
    <3> QED BY ONLY <3>1
  <2> HIDE DEF f
  <2>3. e \in Connections /\ e.out = c.out /\ e.fin = f /\ e.in = c.in /\ e.active = c.active
        /\ e.inbound_shutdown = c.inbound_shutdown
    BY <2>2, Zenon DEF IsConnection, Connections
  <2> HIDE DEF e
  <2>4. IsConnection(e)
    BY ONLY <2>2, <2>3, IsConnection(c) DEF IsConnection
  <2>5. b = collect(e)
    OBVIOUS
  <2> HIDE DEF b
  <2>6. Sends(e, b)
    BY ONLY <2>4, <2>5, CollectSends
  <2>7. Receives(c, b) /\ b.in = c.in
    BY ONLY <2>3, <2>6 DEF Sends, Receives
  <2>8. IsConnection(b)
    BY ONLY <2>7 DEF Receives
  <2>9. CASE d = b
    BY ONLY <1>6, <2>7, <2>9
  <2>10. CASE d = [b EXCEPT !.active = ~ Closing(b)]
    <3>1. Receives(b, d) /\ d.in = b.in
      BY ONLY <2>8, <2>10, CloseReceives
    <3>2. Receives(c, d)
      BY ONLY <2>7, <3>1, ReceivesTwice, IsConnection(c)
    <3> QED BY ONLY <1>6, <2>7, <3>1, <3>2
  <2> QED BY ONLY <2>1, <2>9, <2>10
<1> QED BY <1>1, <1>2, <1>3, <1>4, <1>5, <1>6 DEF Kinds

\* tick() takes nothing from the peer.
LEMMA TickReceives ==
  ASSUME NEW c, IsConnection(c), NEW d \in tick(c)
  PROVE  Receives(c, d) /\ d.in.ended = c.in.ended /\ bytes_written(d.in) = bytes_written(c.in)
<1> DEFINE r == reset(c)
           n == min(r.segments_out + 1, 2)
<1>1. d = [c EXCEPT !.active = ~ Closing(c)] \/ d = [r EXCEPT !.segments_out = n]
  BY DEF tick
<1>2. CASE d = [c EXCEPT !.active = ~ Closing(c)]
  <2>1. Receives(c, d) /\ d.in = c.in
    BY ONLY <1>2, CloseReceives, IsConnection(c)
  <2> QED BY ONLY <2>1
<1>3. CASE d = [r EXCEPT !.segments_out = n]
  <2>1. r = reset(c)
    OBVIOUS
  <2> HIDE DEF r
  <2>2. Receives(c, r) /\ r.in.ended = c.in.ended /\ bytes_written(r.in) = bytes_written(c.in)
    BY ONLY <2>1, ResetReceives, IsConnection(c)
  <2>3. IsConnection(r)
    BY ONLY <2>2 DEF Receives
  <2>4. n \in Nat
    BY <2>3, ConnectionType, OneMore
  <2> HIDE DEF n
  <2>5. Receives(r, d) /\ d.in = r.in
    BY ONLY <1>3, <2>3, <2>4, CountReceives
  <2>6. Receives(c, d)
    BY ONLY <2>2, <2>5, ReceivesTwice, IsConnection(c)
  <2> QED BY ONLY <2>2, <2>5, <2>6
<1> QED BY <1>1, <1>2, <1>3

-----------------------------------------------------------------------------
\* The two directions

Copies == [outbound : Streams(CopyBuffer), inbound : Streams(CopyBuffer),
           outbound_shutdown : BOOLEAN, inbound_shutdown : BOOLEAN]

IsCopy(a) ==
  /\ a \in Copies
  /\ ~ a.outbound.error /\ ~ a.inbound.error
  /\ a.outbound_shutdown => eof(a.outbound)

Pipes == [queue : Seq(Nat), shut : BOOLEAN]

Kernels ==
  [up : Pipes, down : Pipes, typed : Nat, stdin : Nat, stdout : Seq(Nat),
   datagram : Kinds \cup {"none"}, eof : SUBSET {"stdin", "socket", "thread_data"},
   closed : SUBSET {"stdout"}]

IsKernel(x) == x \in Kernels /\ x.stdin <= x.typed

\* From standard input to the connection: what each has had follows on what the
\* next one has had.  The pipe is shut when the copy has shut it, after its last
\* byte, or when the TCP thread is over; then, and after a reset only, the copy's
\* stream may end early, and what is typed is thrown away.
Outward(a, c, x, over) ==
  /\ Follow(x.up.queue, bytes_written(c.out))
  /\ a.outbound.popped = bytes_written(c.out) + Len(x.up.queue)
  /\ bytes_written(a.outbound) <= x.stdin
  /\ bytes_written(a.outbound) = x.stdin \/ (over /\ c.out.error /\ a.outbound.ended)
  /\ x.up.shut => a.outbound_shutdown \/ over
  /\ a.outbound.ended => "stdin" \in x.eof \/ over
  /\ "stdin" \in x.eof => a.outbound.ended /\ x.stdin = x.typed
  /\ c.out.ended => /\ x.up.shut /\ x.up.queue = << >>
                    /\ a.outbound_shutdown /\ "stdin" \in x.eof
                    /\ bytes_written(c.out) = x.stdin
  /\ "thread_data" \in x.eof => c.out.ended

\* From the connection to standard output
Inward(a, c, x, over) ==
  /\ Follow(x.stdout, 0) /\ a.inbound.popped = Len(x.stdout)
  /\ Follow(x.down.queue, bytes_written(a.inbound))
  /\ c.in.popped = bytes_written(a.inbound) + Len(x.down.queue)
  /\ x.down.shut => c.inbound_shutdown \/ over
  /\ "socket" \in x.eof <=> a.inbound.ended
  /\ a.inbound.ended => x.down.shut /\ x.down.queue = << >>
  /\ "stdout" \in x.closed => eof(a.inbound)

Relay(a, c, x, over) ==
  /\ IsCopy(a) /\ IsConnection(c) /\ IsKernel(x)
  /\ Outward(a, c, x, over)
  /\ Inward(a, c, x, over)

\* Ends of streams are not taken back, and nobody but the TCP thread takes a
\* datagram.
Later(x, y) ==
  /\ x.eof \subseteq y.eof /\ x.closed \subseteq y.closed
  /\ x.up.shut => y.up.shut
  /\ x.down.shut => y.down.shut
  /\ y.typed = x.typed

\* What rule i of the copy makes of its objects and of the descriptors
Copied(a, c, x, over, i, o) ==
  /\ Relay(o.local, c, o.io, over)
  /\ Later(x, o.io) /\ o.io.datagram = x.datagram
  /\ x.up.queue # << >> => o.io.up.queue # << >>
  /\ i # 3 => o.io.down = x.down
  /\ i # 2 => (copy_interest(a)[2] => copy_interest(o.local)[2])
  /\ o.returns \/ c.out.error
  /\ o.returns => o.served

LEMMA CopyType ==
  ASSUME NEW a, IsCopy(a)
  PROVE  /\ a.outbound \in Streams(CopyBuffer) /\ a.inbound \in Streams(CopyBuffer)
         /\ a.outbound_shutdown \in BOOLEAN /\ a.inbound_shutdown \in BOOLEAN
         /\ CopyBuffer \in Nat
BY CopyAssumption DEF IsCopy, Copies

LEMMA KernelType ==
  ASSUME NEW x, IsKernel(x)
  PROVE  /\ x.up \in Pipes /\ x.down \in Pipes
         /\ x.up.queue \in Seq(Nat) /\ x.up.shut \in BOOLEAN
         /\ x.down.queue \in Seq(Nat) /\ x.down.shut \in BOOLEAN
         /\ x.typed \in Nat /\ x.stdin \in Nat /\ x.stdin <= x.typed
         /\ x.stdout \in Seq(Nat)
         /\ x.datagram \in Kinds \cup {"none"}
         /\ x.eof \subseteq {"stdin", "socket", "thread_data"} /\ x.closed \subseteq {"stdout"}
BY DEF IsKernel, Kernels, Pipes

LEMMA ShutPipe ==
  ASSUME NEW p \in Pipes, NEW q, q = shut(p)
  PROVE  q \in Pipes /\ q.queue = p.queue /\ q.shut = TRUE
BY Zenon DEF Pipes, shut

\* Rule 2 is interested in what has not been written, or in the end.
LEMMA WriteInterest ==
  ASSUME NEW a, IsCopy(a)
  PROVE  copy_interest(a)[2] <=>
           Len(a.outbound.buffer) > 0 \/ (a.outbound.ended /\ ~ a.outbound_shutdown)
<1>1. copy_interest(a)[2] <=> (a.outbound.buffer # << >> \/ (eof(a.outbound) /\ ~ a.outbound_shutdown))
  BY Zenon DEF copy_interest
<1>2. /\ a.outbound.buffer \in Seq(Nat) /\ Len(a.outbound.buffer) \in Nat
      /\ eof(a.outbound) <=> a.outbound.ended /\ Len(a.outbound.buffer) = 0
  BY CopyType, StreamType
<1>3. a.outbound.buffer = << >> <=> Len(a.outbound.buffer) = 0
  BY <1>2, EmptyRun
<1>4. /\ a.outbound.buffer # << >> <=> Len(a.outbound.buffer) > 0
      /\ eof(a.outbound) <=> a.outbound.ended /\ ~ (Len(a.outbound.buffer) > 0)
  BY ONLY <1>2, <1>3
<1> QED BY ONLY <1>1, <1>4

LEMMA MayWrite ==
  ASSUME NEW m \in Nat, NEW room \in Int, NEW n \in may_write(m, room)
  PROVE  n \in 0 .. m /\ (n <= room \/ n = 0) /\ (n = 0 => m = 0)
BY DEF may_write, min

EofOutcome(x, fd, data, limit) ==
  LET y == eof_after(x, fd, data, limit)
  IN  /\ IsKernel(y)
      /\ y.up = x.up /\ y.down = x.down /\ y.typed = x.typed /\ y.stdin = x.stdin
      /\ y.stdout = x.stdout /\ y.datagram = x.datagram /\ y.closed = x.closed
      /\ x.eof \subseteq y.eof
      /\ \A f : f \in y.eof => f \in x.eof \/ (f = fd /\ data = << >> /\ limit > 0)

LEMMA EofAfter ==
  ASSUME NEW x, IsKernel(x), NEW fd \in {"stdin", "socket", "thread_data"}, NEW data, NEW limit
  PROVE  EofOutcome(x, fd, data, limit)
<1> DEFINE y == eof_after(x, fd, data, limit)
           E == IF data = << >> /\ limit > 0 THEN x.eof \cup {fd} ELSE x.eof
<1>1. /\ E \subseteq {"stdin", "socket", "thread_data"} /\ x.eof \subseteq E
      /\ \A f : f \in E => f \in x.eof \/ (f = fd /\ data = << >> /\ limit > 0)
  BY KernelType
<1>2. y = [x EXCEPT !.eof = E]
  BY Zenon DEF eof_after
<1> HIDE DEF E, y
<1>3. /\ y \in Kernels
      /\ y.up = x.up /\ y.down = x.down /\ y.typed = x.typed /\ y.stdin = x.stdin
      /\ y.stdout = x.stdout /\ y.datagram = x.datagram /\ y.closed = x.closed /\ y.eof = E
  BY ONLY <1>1, <1>2, IsKernel(x) DEF IsKernel, Kernels
<1>4. IsKernel(y)
  BY ONLY <1>3, IsKernel(x) DEF IsKernel
<1> QED BY ONLY <1>1, <1>3, <1>4, Zenon DEF EofOutcome, y

-----------------------------------------------------------------------------
\* The rules of the copy

\* Rule 1: what standard input gives follows on what the stream was given, unless
\* the stream has ended.
LEMMA CopyRule1Relays ==
  ASSUME NEW a, NEW c, NEW x, NEW over \in BOOLEAN, Relay(a, c, x, over),
         over => c.out.error \/ c.out.ended, NEW o \in copy_rule_1(a, x)
  PROVE  Copied(a, c, x, over, 1, o)
<1>0. IsCopy(a) /\ IsConnection(c) /\ IsKernel(x) /\ Outward(a, c, x, over) /\ Inward(a, c, x, over)
  BY DEF Relay
<1> DEFINE q      == a.outbound
           d1(n)  == [k \in 1 .. n |-> k]
           d(n)   == [k \in 1 .. n |-> x.stdin + k]
           z(n)   == [x EXCEPT !.stdin = @ + n]
           io2(n) == eof_after(z(n), "stdin", d1(n), 1)
           out(n) == write(q, CopyBuffer, d(n))
           end(n) == ended_at(out(n), io2(n), "stdin")
           new(n) == [a EXCEPT !.outbound = end(n)]
<1>1. PICK n \in may_write(x.typed - x.stdin, remaining_capacity(q, CopyBuffer)) :
        o = Done(new(n), io2(n))
  BY Zenon DEF copy_rule_1
<1>2. /\ q \in Streams(CopyBuffer) /\ a.outbound_shutdown \in BOOLEAN /\ CopyBuffer \in Nat
      /\ q.buffer \in Seq(Nat) /\ Len(q.buffer) \in Nat /\ q.popped \in Nat
      /\ q.ended \in BOOLEAN /\ Len(q.buffer) <= CopyBuffer /\ bytes_written(q) \in Nat
      /\ eof(q) <=> q.ended /\ Len(q.buffer) = 0
  BY <1>0, CopyType, StreamType
<1>3. /\ x.typed \in Nat /\ x.stdin \in Nat /\ x.stdin <= x.typed
  BY <1>0, KernelType, Zenon
<1>4. /\ n \in Nat /\ n <= x.typed - x.stdin /\ n <= CopyBuffer - Len(q.buffer)
      /\ n = 0 => x.typed = x.stdin
  <2>1. remaining_capacity(q, CopyBuffer) = CopyBuffer - Len(q.buffer)
    BY DEF remaining_capacity
  <2> DEFINE k == Len(q.buffer)
  <2>a. k \in Nat /\ k <= CopyBuffer /\ CopyBuffer \in Nat
    BY ONLY <1>2, Zenon
  <2> HIDE DEF k
  <2>b. x.typed - x.stdin \in Nat /\ CopyBuffer - k \in Nat
    BY ONLY <1>3, <2>a
  <2>2. x.typed - x.stdin \in Nat /\ CopyBuffer - Len(q.buffer) \in Nat
    BY ONLY <2>b, Zenon DEF k
  <2>3. /\ n \in 0 .. x.typed - x.stdin /\ (n <= CopyBuffer - Len(q.buffer) \/ n = 0)
        /\ n = 0 => x.typed - x.stdin = 0
    BY <2>1, <2>2, MayWrite
  <2> QED BY ONLY <1>2, <1>3, <2>2, <2>3
<1>5. /\ d(n) \in Seq(Nat) /\ Len(d(n)) = n /\ Follow(d(n), x.stdin)
      /\ d1(n) = << >> => n = 0
  <2>1. d(n) \in Seq(Nat) /\ Len(d(n)) = n /\ DOMAIN d(n) = 1 .. n
    BY <1>3, <1>4
  <2>2. \A k \in 1 .. n : d(n)[k] = x.stdin + k
    OBVIOUS
  <2>3. d1(n) \in Seq(Nat) /\ Len(d1(n)) = n
    BY <1>4
  <2> HIDE DEF d, d1
  <2>4. d1(n) = << >> => n = 0
    BY ONLY <2>3, EmptyRun
  <2> QED BY ONLY <2>1, <2>2, <2>4 DEF Follow
<1>6. /\ IsKernel(z(n)) /\ z(n).stdin = x.stdin + n
      /\ z(n).up = x.up /\ z(n).down = x.down /\ z(n).typed = x.typed /\ z(n).stdout = x.stdout
      /\ z(n).datagram = x.datagram /\ z(n).eof = x.eof /\ z(n).closed = x.closed
  <2>1. x.stdin + n \in Nat /\ x.stdin + n <= x.typed
    BY ONLY <1>3, <1>4
  <2> QED BY ONLY <1>0, <2>1, Zenon DEF IsKernel, Kernels
<1> HIDE DEF d, d1, z
<1> DEFINE y == io2(n)
<1>7. /\ IsKernel(y) /\ y.stdin = x.stdin + n
      /\ y.up = x.up /\ y.down = x.down /\ y.typed = x.typed /\ y.stdout = x.stdout
      /\ y.datagram = x.datagram /\ x.eof \subseteq y.eof /\ y.closed = x.closed
      /\ \A f : f \in y.eof => f \in x.eof \/ (f = "stdin" /\ n = 0)
  <2>1. y = eof_after(z(n), "stdin", d1(n), 1) /\ "stdin" \in {"stdin", "socket", "thread_data"}
    OBVIOUS
  <2> HIDE DEF y
  <2>2. /\ IsKernel(y)
        /\ y.up = z(n).up /\ y.down = z(n).down /\ y.typed = z(n).typed /\ y.stdin = z(n).stdin
        /\ y.stdout = z(n).stdout /\ y.datagram = z(n).datagram /\ y.closed = z(n).closed
        /\ z(n).eof \subseteq y.eof
        /\ \A f : f \in y.eof => f \in z(n).eof \/ (f = "stdin" /\ d1(n) = << >> /\ 1 > 0)
    <3>1. EofOutcome(z(n), "stdin", d1(n), 1)
      BY ONLY <1>6, <2>1, EofAfter, Zenon
    <3> QED BY ONLY <2>1, <3>1, Zenon DEF EofOutcome
  <2> QED BY ONLY <1>5, <1>6, <2>2, Zenon
<1>8. q.ended => n = 0 \/ (over /\ c.out.error)
  BY ONLY <1>0, <1>3, <1>4, over => c.out.error \/ c.out.ended DEF Outward
<1> DEFINE p == out(n)
<1>9. /\ p \in Streams(CopyBuffer) /\ p.popped = q.popped /\ p.ended = q.ended /\ p.error = q.error
      /\ Len(q.buffer) <= Len(p.buffer)
      /\ q.ended => p = q
      /\ ~ q.ended => bytes_written(p) = bytes_written(q) + n
  <2>1. p = write(q, CopyBuffer, d(n))
    OBVIOUS
  <2> HIDE DEF p
  <2>2. CASE q.ended
    <3>1. p = q
      BY <2>1, <2>2, Zenon DEF write
    <3>2. Len(q.buffer) <= Len(q.buffer)
      BY ONLY <1>2
    <3> QED BY ONLY <1>2, <2>2, <3>1, <3>2, Zenon
  <2>3. CASE ~ q.ended
    <3>1. bytes_written(q) = x.stdin
      BY ONLY <1>0, <2>3, Zenon DEF Outward
    <3>2. Follow(d(n), bytes_written(q)) /\ Len(d(n)) <= CopyBuffer - Len(q.buffer)
      BY ONLY <1>4, <1>5, <3>1
    <3> HIDE DEF q
    <3>3. /\ p \in Streams(CopyBuffer) /\ p.popped = q.popped /\ p.ended = q.ended /\ p.error = q.error
          /\ Len(q.buffer) <= Len(p.buffer)
          /\ bytes_written(p) = bytes_written(q) + Len(d(n))
      <4>o. WriteOutcome(CopyBuffer, q, d(n))
        BY ONLY <1>2, <1>5, <2>1, <2>3, <3>2, WriteJoins, Zenon
      <4> QED BY ONLY <2>1, <2>3, <3>2, <4>o, Zenon DEF WriteOutcome
    <3> QED BY ONLY <1>5, <2>3, <3>3
  <2> QED BY <1>2, <2>2, <2>3, Zenon
<1> DEFINE e == end(n)
<1>10. e = IF "stdin" \in y.eof THEN end_input(p) ELSE p
  BY Zenon DEF ended_at
<1>11. o = [local |-> [a EXCEPT !.outbound = e], io |-> y, served |-> TRUE, returns |-> TRUE]
  BY <1>1, Zenon DEF Done, Outcome
<1> HIDE DEF y, p
<1>12. /\ e \in Streams(CopyBuffer) /\ e.popped = q.popped /\ e.error = q.error /\ e.buffer = p.buffer
       /\ e.ended = (q.ended \/ "stdin" \in y.eof)
  <2>1. /\ end_input(p) \in Streams(CopyBuffer) /\ end_input(p).buffer = p.buffer
        /\ end_input(p).popped = p.popped /\ end_input(p).ended = TRUE /\ end_input(p).error = p.error
    BY ONLY <1>9, FlagsOnly, Zenon
  <2> HIDE DEF e, q
  <2>2. CASE "stdin" \in y.eof
    BY ONLY <1>9, <1>10, <2>1, <2>2, Zenon
  <2>3. CASE "stdin" \notin y.eof
    BY ONLY <1>2, <1>9, <1>10, <2>3
  <2> QED BY ONLY <2>2, <2>3
<1> HIDE DEF e, end, out, io2, new
<1>13. bytes_written(e) = bytes_written(p) /\ Len(e.buffer) \in Nat
       /\ (eof(e) <=> e.ended /\ Len(e.buffer) = 0)
  BY ONLY <1>9, <1>12, StreamType DEF bytes_written
<1> DEFINE b == [a EXCEPT !.outbound = e]
<1>14. /\ b \in Copies /\ b.outbound = e /\ b.inbound = a.inbound
       /\ b.outbound_shutdown = a.outbound_shutdown
  BY ONLY <1>0, <1>12 DEF IsCopy, Copies
<1>15. o.local = b /\ o.io = y /\ o.served = TRUE /\ o.returns = TRUE
  BY ONLY <1>11
<1> HIDE DEF b
<1>16. a.outbound_shutdown => e.ended /\ Len(e.buffer) = 0
  BY ONLY <1>0, <1>2, <1>9, <1>12, <1>13, Zenon DEF IsCopy
<1>17. IsCopy(b)
  BY ONLY <1>0, <1>12, <1>13, <1>14, <1>16, Zenon DEF IsCopy
<1>18. Outward(b, c, y, over)
  <2>1. "stdin" \in y.eof => y.stdin = y.typed
    BY ONLY <1>0, <1>3, <1>4, <1>7 DEF Outward
  <2> HIDE DEF q
  <2>a. /\ bytes_written(q) <= x.stdin
        /\ bytes_written(q) = x.stdin \/ (over /\ c.out.error /\ q.ended)
        /\ c.out.ended => /\ bytes_written(c.out) = x.stdin /\ "stdin" \in x.eof
        /\ "stdin" \in x.eof => x.stdin = x.typed
    BY ONLY <1>0, Zenon DEF Outward, q
  <2>2. bytes_written(e) <= y.stdin /\ (bytes_written(e) = y.stdin \/ (over /\ c.out.error /\ e.ended))
    <3>1. bytes_written(e) = IF q.ended THEN bytes_written(q) ELSE bytes_written(q) + n
      BY ONLY <1>9, <1>13, Zenon
    <3>2. bytes_written(q) \in Nat /\ x.stdin \in Nat /\ n \in Nat /\ y.stdin = x.stdin + n
      BY ONLY <1>2, <1>3, <1>4, <1>7, Zenon
    <3>3. CASE q.ended
      BY ONLY <1>8, <1>12, <2>a, <3>1, <3>2, <3>3
    <3>4. CASE ~ q.ended
      BY ONLY <2>a, <3>1, <3>2, <3>4
    <3> QED BY ONLY <3>3, <3>4, Zenon
  <2>3. c.out.ended => n = 0
    BY ONLY <1>3, <1>4, <2>a
  <2>4. c.out.ended => bytes_written(c.out) = y.stdin
    BY ONLY <1>3, <1>7, <2>3, <2>a
  <2> USE DEF q
  <2>5. "thread_data" \in y.eof => c.out.ended
    BY ONLY <1>0, <1>7 DEF Outward
  <2> QED BY ONLY <1>0, <1>7, <1>12, <1>14, <2>1, <2>2, <2>4, <2>5, Zenon DEF Outward
<1>19. Inward(b, c, y, over)
  <2>1. "socket" \in y.eof <=> "socket" \in x.eof
    BY ONLY <1>7
  <2> QED BY ONLY <1>0, <1>7, <1>14, <2>1, Zenon DEF Inward
<1>20. copy_interest(a)[2] => copy_interest(b)[2]
  BY ONLY <1>0, <1>2, <1>9, <1>12, <1>13, <1>14, <1>17, WriteInterest
<1> QED BY ONLY <1>0, <1>7, <1>15, <1>17, <1>18, <1>19, <1>20, Zenon DEF Copied, Relay, Later

\* Rule 2: what the socket takes follows on what it took, and the pipe is shut
\* after the last byte.  It fails only when the TCP thread is over after a reset.
LEMMA CopyRule2Relays ==
  ASSUME NEW a, NEW c, NEW x, NEW over \in BOOLEAN, Relay(a, c, x, over),
         over => c.out.error \/ c.out.ended, copy_interest(a)[2], NEW o \in copy_rule_2(a, x)
  PROVE  Copied(a, c, x, over, 2, o)
<1>0. IsCopy(a) /\ IsConnection(c) /\ IsKernel(x) /\ Outward(a, c, x, over) /\ Inward(a, c, x, over)
  BY DEF Relay
<1> DEFINE q       == a.outbound
           out(n)  == pop_output(q, n)
           d(n)    == peek_output(q, n)
           sent(n) == [x EXCEPT !.up.queue = @ \o d(n)]
           last(n) == [sent(n) EXCEPT !.up = shut(@)]
           new(n)  == [a EXCEPT !.outbound = out(n), !.outbound_shutdown = TRUE]
           more(n) == [a EXCEPT !.outbound = out(n)]
<1>1. PICK n \in may_write(buffer_size(q), PipeCapacity - Len(x.up.queue)) :
        o = IF x.up.shut THEN Outcome(a, x, FALSE, FALSE)
            ELSE IF eof(out(n)) THEN Done(new(n), last(n)) ELSE Done(more(n), sent(n))
  BY Zenon DEF copy_rule_2
<1>2. /\ q \in Streams(CopyBuffer) /\ a.outbound_shutdown \in BOOLEAN /\ CopyBuffer \in Nat
      /\ q.buffer \in Seq(Nat) /\ Len(q.buffer) \in Nat /\ q.popped \in Nat
      /\ q.ended \in BOOLEAN
      /\ buffer_size(q) = Len(q.buffer)
      /\ eof(q) <=> q.ended /\ Len(q.buffer) = 0
  BY <1>0, CopyType, StreamType
<1>3. /\ x.up.queue \in Seq(Nat) /\ x.up.shut \in BOOLEAN /\ Len(x.up.queue) \in Nat
      /\ bytes_written(c.out) \in Nat
  BY <1>0, KernelType, EmptyRun, ConnectionType, StreamType
<1>4. ~ a.outbound_shutdown
  BY ONLY <1>0, <1>2, WriteInterest, copy_interest(a)[2] DEF IsCopy
<1>5. CASE x.up.shut
  <2>1. c.out.error
    BY ONLY <1>0, <1>4, <1>5, over => c.out.error \/ c.out.ended, Zenon DEF Outward
  <2>2. o = [local |-> a, io |-> x, served |-> FALSE, returns |-> FALSE]
    BY <1>1, <1>5, Zenon DEF Outcome
  <2>3. o.local = a /\ o.io = x /\ o.returns = FALSE
    BY ONLY <2>2
  <2> QED BY <2>1, <2>3 DEF Copied, Later
<1>6. CASE ~ x.up.shut
  <2>1. n \in 0 .. Len(q.buffer)
    <3>1. PipeCapacity - Len(x.up.queue) \in Int
      BY ONLY <1>3, DescriptorAssumption
    <3> QED BY ONLY <1>1, <1>2, <3>1, MayWrite
  <2> DEFINE p == out(n)
             e == d(n)
             u == x.up.queue \o e
  <2>2. /\ p \in Streams(CopyBuffer) /\ p.popped = q.popped + n /\ Len(p.buffer) = Len(q.buffer) - n
        /\ p.ended = q.ended /\ p.error = q.error
        /\ bytes_written(p) = bytes_written(q)
        /\ e \in Seq(Nat) /\ Len(e) = n /\ Follow(e, q.popped)
    <3>1. p = pop_output(q, n) /\ e = peek_output(q, n)
      OBVIOUS
    <3> HIDE DEF p, e, q
    <3>o. PopOutcome(CopyBuffer, q, n)
      BY ONLY <1>2, <2>1, <3>1, PopSplits, Zenon
    <3> QED BY ONLY <3>1, <3>o, Zenon DEF PopOutcome
  <2>3. o = IF eof(p) THEN Done(new(n), last(n)) ELSE Done(more(n), sent(n))
    BY <1>1, <1>6, Zenon
  <2>4. /\ new(n) = [a EXCEPT !.outbound = p, !.outbound_shutdown = TRUE]
        /\ more(n) = [a EXCEPT !.outbound = p]
        /\ sent(n) = [x EXCEPT !.up.queue = u]
    OBVIOUS
  <2> HIDE DEF p, e
  <2>5. u \in Seq(Nat) /\ Len(u) = Len(x.up.queue) + n /\ Follow(u, bytes_written(c.out))
    <3>1. Follow(x.up.queue, bytes_written(c.out)) /\ q.popped = bytes_written(c.out) + Len(x.up.queue)
      BY ONLY <1>0, Zenon DEF Outward
    <3> HIDE DEF q
    <3>2. Follow(e, bytes_written(c.out) + Len(x.up.queue))
      BY ONLY <2>2, <3>1
    <3> QED BY ONLY <1>3, <2>2, <3>1, <3>2, FollowJoin, Zenon
  <2>6. x.up.queue # << >> => u # << >>
    BY ONLY <1>3, <2>1, <2>5, EmptyRun
  <2> HIDE DEF u
  <2>7. /\ sent(n) \in Kernels
        /\ sent(n).up = [queue |-> u, shut |-> x.up.shut] /\ sent(n).down = x.down
        /\ sent(n).typed = x.typed /\ sent(n).stdin = x.stdin /\ sent(n).stdout = x.stdout
        /\ sent(n).datagram = x.datagram /\ sent(n).eof = x.eof /\ sent(n).closed = x.closed
    <3>1. x.up = [queue |-> x.up.queue, shut |-> x.up.shut] /\ x \in Kernels
      BY <1>0, Zenon DEF IsKernel, Kernels, Pipes
    <3> DEFINE v == [queue |-> u, shut |-> x.up.shut]
    <3>2. v \in Pipes
      BY ONLY <1>3, <2>5 DEF Pipes
    <3>3. sent(n) = [x EXCEPT !.up = v]
      <4> HIDE DEF sent
      <4> QED BY ONLY <2>4, <3>1
    <3> HIDE DEF sent, v
    <3>4. /\ sent(n) \in Kernels
          /\ sent(n).up = v /\ sent(n).down = x.down
          /\ sent(n).typed = x.typed /\ sent(n).stdin = x.stdin /\ sent(n).stdout = x.stdout
          /\ sent(n).datagram = x.datagram /\ sent(n).eof = x.eof /\ sent(n).closed = x.closed
      BY ONLY <3>1, <3>2, <3>3 DEF Kernels
    <3> QED BY ONLY <3>4, Zenon DEF v
  <2> HIDE DEF sent
  <2>8. /\ last(n) \in Kernels
        /\ last(n).up.queue = u /\ last(n).up.shut = TRUE /\ last(n).down = x.down
        /\ last(n).typed = x.typed /\ last(n).stdin = x.stdin /\ last(n).stdout = x.stdout
        /\ last(n).datagram = x.datagram /\ last(n).eof = x.eof /\ last(n).closed = x.closed
    <3> DEFINE v == shut(sent(n).up)
    <3>1. v = shut(sent(n).up) /\ last(n) = [sent(n) EXCEPT !.up = v]
      OBVIOUS
    <3> HIDE DEF last, v
    <3>2. sent(n).up \in Pipes /\ sent(n).up.queue = u
      BY ONLY <2>7 DEF Kernels
    <3>3. v \in Pipes /\ v.queue = u /\ v.shut = TRUE
      BY ONLY <3>1, <3>2, ShutPipe, Zenon
    <3>4. /\ last(n) \in Kernels
          /\ last(n).up = v /\ last(n).down = sent(n).down
          /\ last(n).typed = sent(n).typed /\ last(n).stdin = sent(n).stdin
          /\ last(n).stdout = sent(n).stdout /\ last(n).datagram = sent(n).datagram
          /\ last(n).eof = sent(n).eof /\ last(n).closed = sent(n).closed
      BY ONLY <2>7, <3>1, <3>3, Zenon DEF Kernels
    <3> QED BY ONLY <2>7, <3>3, <3>4, Zenon
  <2>9. /\ new(n) \in Copies /\ new(n).outbound = p /\ new(n).outbound_shutdown = TRUE
        /\ new(n).inbound = a.inbound
        /\ more(n) \in Copies /\ more(n).outbound = p /\ more(n).outbound_shutdown = FALSE
        /\ more(n).inbound = a.inbound
    <3> HIDE DEF new, more
    <3> QED BY ONLY <1>0, <1>2, <1>4, <2>2, <2>4, Zenon DEF IsCopy, Copies
  <2> HIDE DEF last, new, more, out, d
  <2>10. ~ c.out.ended
    BY ONLY <1>0, <1>6, Zenon DEF Outward
  <2> DEFINE b == o.local
             y == o.io
  <2>11. /\ o.served = TRUE /\ o.returns = TRUE
         /\ IF eof(p) THEN b = new(n) /\ y = last(n) ELSE b = more(n) /\ y = sent(n)
    BY ONLY <2>3 DEF Done, Outcome
  <2> HIDE DEF b, y
  <2>12. /\ b \in Copies /\ b.outbound = p /\ b.inbound = a.inbound
         /\ b.outbound_shutdown <=> eof(p)
         /\ y \in Kernels /\ y.up.queue = u /\ (y.up.shut <=> eof(p)) /\ y.down = x.down
         /\ y.typed = x.typed /\ y.stdin = x.stdin /\ y.stdout = x.stdout
         /\ y.datagram = x.datagram /\ y.eof = x.eof /\ y.closed = x.closed
    <3>1. CASE eof(p)
      BY ONLY <2>8, <2>9, <2>11, <3>1, Zenon
    <3>2. CASE ~ eof(p)
      <4>1. sent(n).up.queue = u /\ sent(n).up.shut = x.up.shut
        BY ONLY <2>7
      <4> QED BY ONLY <1>3, <1>6, <2>7, <2>9, <2>11, <3>2, <4>1, Zenon
    <3> QED BY ONLY <3>1, <3>2, Zenon
  <2>13. y.up.queue = u /\ (y.up.shut <=> eof(p))
    BY ONLY <2>12
  <2>14. IsCopy(b)
    BY ONLY <1>0, <2>2, <2>12, Zenon DEF IsCopy
  <2>15. IsKernel(y)
    BY ONLY <1>0, <2>12, Zenon DEF IsKernel
  <2>16. p.popped = bytes_written(c.out) + Len(u)
    <3>1. bytes_written(c.out) \in Nat /\ Len(x.up.queue) \in Nat
      BY ONLY <1>0, <1>3, ConnectionType, StreamType, EmptyRun, Zenon
    <3>2. n \in Nat
      BY ONLY <2>2, EmptyRun, Zenon
    <3>3. p.popped = (bytes_written(c.out) + Len(x.up.queue)) + n
      BY ONLY <1>0, <2>2, Zenon DEF Outward
    <3>4. (bytes_written(c.out) + Len(x.up.queue)) + n = bytes_written(c.out) + (Len(x.up.queue) + n)
      BY ONLY <3>1, <3>2, SumAssociates, Zenon
    <3>5. Len(u) = Len(x.up.queue) + n
      BY ONLY <2>5, Zenon
    <3> QED BY ONLY <3>3, <3>4, <3>5, Zenon
  <2>17. Outward(b, c, y, over)
    BY ONLY <1>0, <2>2, <2>5, <2>10, <2>12, <2>13, <2>16, Zenon DEF Outward
  <2>18. Inward(b, c, y, over)
    BY ONLY <1>0, <2>12, Zenon DEF Inward
  <2>19. Relay(b, c, y, over) /\ Later(x, y)
    BY ONLY <1>0, <1>6, <2>12, <2>14, <2>15, <2>17, <2>18, Zenon DEF Relay, Later
  <2> QED BY ONLY <2>6, <2>11, <2>12, <2>13, <2>19, Zenon DEF Copied, b, y
<1> QED BY ONLY <1>3, <1>5, <1>6, Zenon

\* Rule 3: what the socket gives follows on what it gave, and at its end nothing is
\* left in the pipe.
LEMMA CopyRule3Relays ==
  ASSUME NEW a, NEW c, NEW x, NEW over \in BOOLEAN, Relay(a, c, x, over),
         Readable(x, "socket"), NEW o \in copy_rule_3(a, x)
  PROVE  Copied(a, c, x, over, 3, o)
<1>0. IsCopy(a) /\ IsConnection(c) /\ IsKernel(x) /\ Outward(a, c, x, over) /\ Inward(a, c, x, over)
  BY DEF Relay
<1> DEFINE q     == a.inbound
           limit == remaining_capacity(q, CopyBuffer)
           d     == read(x.down.queue, limit)
           r     == rest(x.down.queue, limit)
           z     == [x EXCEPT !.down.queue = r]
           y     == eof_after(z, "socket", d, limit)
           p     == write(q, CopyBuffer, d)
           e     == ended_at(p, y, "socket")
           b     == [a EXCEPT !.inbound = e]
<1>1. o = [local |-> b, io |-> y, served |-> TRUE, returns |-> TRUE]
  BY Zenon DEF copy_rule_3, Done, Outcome
<1>2. o.local = b /\ o.io = y /\ o.served = TRUE /\ o.returns = TRUE
  <2> HIDE DEF b, y
  <2> QED BY ONLY <1>1
<1>3. /\ q \in Streams(CopyBuffer) /\ CopyBuffer \in Nat
      /\ q.buffer \in Seq(Nat) /\ Len(q.buffer) \in Nat /\ Len(q.buffer) <= CopyBuffer /\ q.popped \in Nat
      /\ q.ended \in BOOLEAN /\ bytes_written(q) \in Nat
      /\ eof(q) <=> q.ended /\ Len(q.buffer) = 0
  BY <1>0, CopyType, StreamType
<1>4. x.down.queue \in Seq(Nat) /\ x.down.shut \in BOOLEAN /\ (x.down.queue # << >> \/ x.down.shut)
  BY <1>0, KernelType DEF Readable
<1>5. limit \in Nat /\ limit = CopyBuffer - Len(q.buffer)
  <2>1. limit = CopyBuffer - Len(q.buffer)
    BY DEF remaining_capacity
  <2> QED BY ONLY <1>3, <2>1
<1> HIDE DEF limit
<1>6. /\ d \in Seq(Nat) /\ Len(d) <= limit /\ Follow(d, bytes_written(q))
      /\ r \in Seq(Nat) /\ Follow(r, bytes_written(q) + Len(d)) /\ Len(r) = Len(x.down.queue) - Len(d)
      /\ Len(d) \in 0 .. Len(x.down.queue)
      /\ d = << >> /\ limit > 0 => x.down.queue = << >>
      /\ x.down.queue = << >> => d = << >> /\ r = << >>
  <2>1. Follow(x.down.queue, bytes_written(q))
    BY ONLY <1>0 DEF Inward
  <2> HIDE DEF q
  <2>o. ReadOutcome(x.down.queue, bytes_written(q), limit)
    BY ONLY <1>3, <1>4, <1>5, <2>1, ReadSplits, Zenon
  <2> QED BY ONLY <2>o, Zenon DEF ReadOutcome
<1>7. /\ IsKernel(z) /\ z.down = [queue |-> r, shut |-> x.down.shut]
      /\ z.up = x.up /\ z.typed = x.typed /\ z.stdin = x.stdin /\ z.stdout = x.stdout
      /\ z.datagram = x.datagram /\ z.eof = x.eof /\ z.closed = x.closed
  <2>1. x.down = [queue |-> x.down.queue, shut |-> x.down.shut] /\ x \in Kernels /\ x.stdin <= x.typed
    BY <1>0, Zenon DEF IsKernel, Kernels, Pipes
  <2> HIDE DEF r
  <2> QED BY ONLY <1>4, <1>6, <2>1, Zenon DEF IsKernel, Kernels, Pipes
<1> HIDE DEF z
<1>8. /\ IsKernel(y) /\ y.down = [queue |-> r, shut |-> x.down.shut]
      /\ y.up = x.up /\ y.typed = x.typed /\ y.stdin = x.stdin /\ y.stdout = x.stdout
      /\ y.datagram = x.datagram /\ y.closed = x.closed /\ x.eof \subseteq y.eof
      /\ \A f : f \in y.eof => f \in x.eof \/ (f = "socket" /\ d = << >> /\ limit > 0)
  <2>1. y = eof_after(z, "socket", d, limit) /\ "socket" \in {"stdin", "socket", "thread_data"}
    OBVIOUS
  <2> HIDE DEF y, d, r
  <2>2. /\ IsKernel(y)
        /\ y.up = z.up /\ y.down = z.down /\ y.typed = z.typed /\ y.stdin = z.stdin
        /\ y.stdout = z.stdout /\ y.datagram = z.datagram /\ y.closed = z.closed
        /\ z.eof \subseteq y.eof
        /\ \A f : f \in y.eof => f \in z.eof \/ (f = "socket" /\ d = << >> /\ limit > 0)
    <3>1. EofOutcome(z, "socket", d, limit)
      BY ONLY <1>7, <2>1, EofAfter, Zenon
    <3> QED BY ONLY <2>1, <3>1, Zenon DEF EofOutcome
  <2> QED BY ONLY <1>7, <2>2, Zenon
<1>9. q.ended => d = << >>
  BY ONLY <1>0, <1>6, Zenon DEF Inward
<1>10. /\ p \in Streams(CopyBuffer) /\ p.popped = q.popped /\ p.ended = q.ended /\ p.error = q.error
       /\ q.ended => p = q
       /\ bytes_written(p) = bytes_written(q) + Len(d)
  <2>1. p = write(q, CopyBuffer, d) /\ Len(d) <= CopyBuffer - Len(q.buffer)
    BY ONLY <1>5, <1>6
  <2> HIDE DEF p, d, q
  <2>2. /\ p \in Streams(CopyBuffer) /\ p.popped = q.popped /\ p.ended = q.ended /\ p.error = q.error
        /\ q.ended => p = q
        /\ ~ q.ended => bytes_written(p) = bytes_written(q) + Len(d)
    <3>o. WriteOutcome(CopyBuffer, q, d)
      BY ONLY <1>3, <1>6, <2>1, WriteJoins, Zenon
    <3> QED BY ONLY <2>1, <3>o, Zenon DEF WriteOutcome
  <2>3. q.ended => Len(d) = 0
    BY ONLY <1>9, EmptyRun
  <2> QED BY ONLY <1>3, <2>2, <2>3
<1>11. e = IF "socket" \in y.eof THEN end_input(p) ELSE p
  BY Zenon DEF ended_at
<1> HIDE DEF y, p, d, r
<1>12. /\ e \in Streams(CopyBuffer) /\ e.popped = q.popped /\ e.error = q.error /\ e.buffer = p.buffer
       /\ e.ended = (q.ended \/ "socket" \in y.eof)
  <2>1. /\ end_input(p) \in Streams(CopyBuffer) /\ end_input(p).buffer = p.buffer
        /\ end_input(p).popped = p.popped /\ end_input(p).ended = TRUE /\ end_input(p).error = p.error
    BY ONLY <1>10, FlagsOnly, Zenon
  <2> HIDE DEF e, q
  <2>2. CASE "socket" \in y.eof
    BY ONLY <1>10, <1>11, <2>1, <2>2, Zenon
  <2>3. CASE "socket" \notin y.eof
    BY ONLY <1>3, <1>10, <1>11, <2>3
  <2> QED BY ONLY <2>2, <2>3
<1> HIDE DEF e
<1>13. bytes_written(e) = bytes_written(q) + Len(d) /\ (eof(e) <=> e.ended /\ Len(e.buffer) = 0)
  <2>1. bytes_written(e) = bytes_written(p)
    BY ONLY <1>10, <1>12 DEF bytes_written
  <2> QED BY ONLY <1>10, <1>12, <2>1, StreamType
<1>14. /\ b \in Copies /\ b.inbound = e /\ b.outbound = a.outbound
       /\ b.outbound_shutdown = a.outbound_shutdown
  BY ONLY <1>0, <1>12 DEF IsCopy, Copies
<1> HIDE DEF b
<1>15. IsCopy(b)
  BY ONLY <1>0, <1>12, <1>14 DEF IsCopy
<1>16. y.down.queue = r /\ y.down.shut = x.down.shut
  BY ONLY <1>8
<1>17. "socket" \in y.eof => e.ended /\ x.down.queue = << >> /\ x.down.shut
  BY ONLY <1>0, <1>4, <1>6, <1>8, <1>12, Zenon DEF Inward
<1>18. Inward(b, c, y, over)
  <2>1. e.ended <=> "socket" \in y.eof
    BY ONLY <1>0, <1>8, <1>12, <1>17, Zenon DEF Inward
  <2>2. e.ended => y.down.shut /\ y.down.queue = << >>
    BY ONLY <1>6, <1>16, <1>17, <2>1
  <2>3. "stdout" \in y.closed => eof(e)
    BY ONLY <1>0, <1>3, <1>8, <1>10, <1>12, <1>13, Zenon DEF Inward
  <2>4. c.in.popped = bytes_written(e) + Len(y.down.queue)
    <3>1. Len(x.down.queue) \in Nat
      BY ONLY <1>4, EmptyRun
    <3> QED BY ONLY <1>0, <1>3, <1>6, <1>13, <1>16, <3>1 DEF Inward
  <2> QED BY ONLY <1>0, <1>6, <1>8, <1>12, <1>13, <1>14, <1>16, <2>1, <2>2, <2>3, <2>4, Zenon DEF Inward
<1>19. Outward(b, c, y, over)
  <2>1. /\ "stdin" \in y.eof <=> "stdin" \in x.eof
        /\ "thread_data" \in y.eof <=> "thread_data" \in x.eof
    BY ONLY <1>8
  <2> QED BY ONLY <1>0, <1>8, <1>14, <2>1, Zenon DEF Outward
<1>20. copy_interest(a)[2] => copy_interest(b)[2]
  BY ONLY <1>0, <1>14, <1>15, WriteInterest
<1> QED BY ONLY <1>0, <1>2, <1>8, <1>15, <1>16, <1>18, <1>19, <1>20, Zenon DEF Copied, Relay, Later

\* Rule 4: what is printed follows on what was printed.
LEMMA CopyRule4Relays ==
  ASSUME NEW a, NEW c, NEW x, NEW over \in BOOLEAN, Relay(a, c, x, over), NEW o \in copy_rule_4(a, x)
  PROVE  Copied(a, c, x, over, 4, o)
<1>0. IsCopy(a) /\ IsConnection(c) /\ IsKernel(x) /\ Outward(a, c, x, over) /\ Inward(a, c, x, over)
  BY DEF Relay
<1> DEFINE q          == a.inbound
           in(n)      == pop_output(q, n)
           d(n)       == peek_output(q, n)
           printed(n) == [x EXCEPT !.stdout = @ \o d(n),
                                   !.closed = IF eof(in(n)) THEN @ \cup {"stdout"} ELSE @]
           new(n)     == [a EXCEPT !.inbound = in(n), !.inbound_shutdown = @ \/ eof(in(n))]
<1>1. PICK n \in may_write(buffer_size(q), buffer_size(q)) : o = Done(new(n), printed(n))
  BY Zenon DEF copy_rule_4
<1>2. /\ q \in Streams(CopyBuffer) /\ CopyBuffer \in Nat /\ a.inbound_shutdown \in BOOLEAN
      /\ q.buffer \in Seq(Nat) /\ Len(q.buffer) \in Nat /\ q.popped \in Nat
      /\ q.ended \in BOOLEAN /\ buffer_size(q) = Len(q.buffer)
      /\ eof(q) <=> q.ended /\ Len(q.buffer) = 0
  BY <1>0, CopyType, StreamType
<1>3. n \in 0 .. Len(q.buffer)
  BY ONLY <1>1, <1>2, MayWrite
<1> DEFINE p == in(n)
           e == d(n)
           w == x.stdout \o e
           S == IF eof(p) THEN x.closed \cup {"stdout"} ELSE x.closed
           y == printed(n)
           b == new(n)
           t == a.inbound_shutdown \/ eof(p)
<1>4. /\ p \in Streams(CopyBuffer) /\ p.popped = q.popped + n /\ Len(p.buffer) = Len(q.buffer) - n
      /\ p.ended = q.ended /\ p.error = q.error
      /\ bytes_written(p) = bytes_written(q)
      /\ e \in Seq(Nat) /\ Len(e) = n /\ Follow(e, q.popped)
  <2>1. p = pop_output(q, n) /\ e = peek_output(q, n)
    OBVIOUS
  <2> HIDE DEF p, e, q
  <2>o. PopOutcome(CopyBuffer, q, n)
    BY ONLY <1>2, <1>3, <2>1, PopSplits, Zenon
  <2> QED BY ONLY <2>1, <2>o, Zenon DEF PopOutcome
<1>5. o.local = b /\ o.io = y /\ o.served = TRUE /\ o.returns = TRUE
  <2> HIDE DEF printed, new
  <2> QED BY ONLY <1>1 DEF Done, Outcome
<1>6. y = [x EXCEPT !.stdout = w, !.closed = S] /\ b = [a EXCEPT !.inbound = p, !.inbound_shutdown = t]
  OBVIOUS
<1> HIDE DEF y, b, printed, new, in, d, p, e
<1>7. w \in Seq(Nat) /\ Len(w) = Len(x.stdout) + n /\ Follow(w, 0)
  <2>1. x.stdout \in Seq(Nat) /\ Len(x.stdout) \in Nat /\ Follow(x.stdout, 0) /\ q.popped = Len(x.stdout)
    BY <1>0, KernelType, EmptyRun, Zenon DEF Inward
  <2>2. Follow(e, 0 + Len(x.stdout)) /\ 0 \in Nat
    BY ONLY <1>4, <2>1
  <2> QED BY ONLY <1>4, <2>1, <2>2, FollowJoin, Zenon
<1> HIDE DEF w
<1>8. S \subseteq {"stdout"} /\ x.closed \subseteq S /\ ("stdout" \in S => eof(p) \/ "stdout" \in x.closed)
  BY <1>0, KernelType, Zenon
<1>9. t \in BOOLEAN
  BY <1>2 DEF eof
<1> HIDE DEF S, t
<1>10. /\ b \in Copies /\ b.inbound = p /\ b.outbound = a.outbound
       /\ b.outbound_shutdown = a.outbound_shutdown
  BY ONLY <1>0, <1>4, <1>6, <1>9, Zenon DEF IsCopy, Copies
<1>11. /\ IsKernel(y) /\ y.stdout = w /\ y.closed = S
       /\ y.up = x.up /\ y.down = x.down /\ y.typed = x.typed /\ y.stdin = x.stdin
       /\ y.datagram = x.datagram /\ y.eof = x.eof
  BY ONLY <1>0, <1>6, <1>7, <1>8, Zenon DEF IsKernel, Kernels
<1>12. IsCopy(b)
  BY ONLY <1>0, <1>4, <1>10, Zenon DEF IsCopy
<1>13. Outward(b, c, y, over)
  BY ONLY <1>0, <1>10, <1>11, Zenon DEF Outward
<1>14. "stdout" \in x.closed => eof(p)
  <2>1. p.buffer \in Seq(Nat) /\ (eof(p) <=> p.ended /\ Len(p.buffer) = 0)
    BY ONLY <1>4, StreamType
  <2> QED BY ONLY <1>0, <1>2, <1>3, <1>4, <2>1 DEF Inward
<1>15. p.popped = Len(w)
  BY ONLY <1>0, <1>4, <1>7, Zenon DEF Inward
<1>16. Inward(b, c, y, over)
  BY ONLY <1>0, <1>4, <1>7, <1>8, <1>10, <1>11, <1>14, <1>15, Zenon DEF Inward
<1>17. copy_interest(a)[2] => copy_interest(b)[2]
  BY ONLY <1>0, <1>10, <1>12, WriteInterest
<1> QED BY ONLY <1>0, <1>5, <1>8, <1>11, <1>12, <1>13, <1>16, <1>17, Zenon DEF Copied, Relay, Later

-----------------------------------------------------------------------------
\* The rules of the TCP thread

\* The peer's stream has ended, or is about to, with all its n bytes.
Delivered(c, x, n) == c.in.ended \/ x.datagram = "fin" => bytes_written(c.in) = n

\* A step of the TCP thread, which is not over
Moved(a, c, i, o) ==
  /\ Relay(a, o.local, o.io, FALSE)
  /\ Later(io, o.io)
  /\ io.down.queue # << >> => o.io.down.queue # << >>
  /\ i # 2 => o.io.up = io.up
  /\ i # 3 => (tcp_interest(c)[3] => tcp_interest(o.local)[3])
  /\ c.in.error => o.local.in.error
  /\ c.in.ended => o.local.in.ended
  /\ eof(c.in) => eof(o.local.in)
  /\ \A n : Delivered(c, io, n) => Delivered(o.local, o.io, n)
  /\ o.returns \/ (o.local.in.error /\ o.local.in.buffer # << >>)
  /\ o.returns => ~ busy_wait(o, tcp_interest(o.local)[i])

\* Rule 3 is interested in what has not been written, or in the end.
LEMMA PassInterest ==
  ASSUME NEW c, IsConnection(c)
  PROVE  tcp_interest(c)[3] <=>
           Len(c.in.buffer) > 0 \/ ((c.in.ended \/ c.in.error) /\ ~ c.inbound_shutdown)
<1>1. tcp_interest(c)[3] <=> (c.in.buffer # << >> \/ ((eof(c.in) \/ c.in.error) /\ ~ c.inbound_shutdown))
  BY Zenon DEF tcp_interest
<1>2. /\ c.in.buffer \in Seq(Nat) /\ Len(c.in.buffer) \in Nat
      /\ eof(c.in) <=> c.in.ended /\ Len(c.in.buffer) = 0
  BY ConnectionType, StreamType
<1>3. c.in.buffer = << >> <=> Len(c.in.buffer) = 0
  BY <1>2, EmptyRun
<1>4. /\ c.in.buffer # << >> <=> Len(c.in.buffer) > 0
      /\ eof(c.in) <=> c.in.ended /\ ~ (Len(c.in.buffer) > 0)
  BY ONLY <1>2, <1>3
<1> QED BY ONLY <1>1, <1>4

\* What the connection does by itself, or with a segment of the peer
LEMMA ReceivesRelays ==
  ASSUME NEW a, NEW c, NEW d, NEW x, NEW over \in BOOLEAN, Relay(a, c, x, over), Receives(c, d)
  PROVE  /\ Relay(a, d, x, over)
         /\ tcp_interest(c)[3] => tcp_interest(d)[3]
         /\ c.in.error => d.in.error
         /\ c.in.ended => d.in.ended /\ bytes_written(d.in) = bytes_written(c.in)
         /\ eof(c.in) => eof(d.in)
<1>1. IsCopy(a) /\ IsConnection(c) /\ IsKernel(x) /\ Outward(a, c, x, over) /\ Inward(a, c, x, over)
  BY DEF Relay
<1>2. IsConnection(d)
  BY DEF Receives
<1>3. Len(c.in.buffer) \in Nat /\ Len(d.in.buffer) \in Nat
  BY <1>1, <1>2, ConnectionType, StreamType
<1>4. c.out.error => d.out.error
  BY ONLY <1>1, <1>2, Receives(c, d), Zenon DEF Receives, IsConnection
<1>5. Outward(a, d, x, over)
  BY ONLY <1>1, <1>4, Receives(c, d), Zenon DEF Outward, Receives
<1>6. Inward(a, d, x, over)
  BY ONLY <1>1, Receives(c, d), Zenon DEF Inward, Receives
<1>7. tcp_interest(c)[3] => tcp_interest(d)[3]
  BY ONLY <1>1, <1>2, <1>3, PassInterest, Receives(c, d) DEF Receives
<1>8. c.in.ended => d.in.ended /\ bytes_written(d.in) = bytes_written(c.in)
  BY ONLY Receives(c, d) DEF Receives, bytes_written
<1>9. eof(c.in) => eof(d.in)
  BY ONLY Receives(c, d) DEF Receives, eof
<1> QED BY <1>1, <1>2, <1>5, <1>6, <1>7, <1>8, <1>9, Zenon DEF Relay, Receives

\* Only the datagram differs.
DatagramOutcome(a, c, x, over, g) ==
  LET y == [x EXCEPT !.datagram = g]
  IN  /\ Relay(a, c, y, over) /\ Later(x, y) /\ y.datagram = g
      /\ y.up = x.up /\ y.down = x.down /\ y.eof = x.eof

LEMMA DatagramRelays ==
  ASSUME NEW a, NEW c, NEW x, NEW over \in BOOLEAN, Relay(a, c, x, over), NEW g \in Kinds \cup {"none"}
  PROVE  DatagramOutcome(a, c, x, over, g)
<1> DEFINE y == [x EXCEPT !.datagram = g]
<1>1. IsCopy(a) /\ IsConnection(c) /\ IsKernel(x) /\ Outward(a, c, x, over) /\ Inward(a, c, x, over)
  BY DEF Relay
<1>2. /\ IsKernel(y) /\ y.datagram = g
      /\ y.up = x.up /\ y.down = x.down /\ y.typed = x.typed /\ y.stdin = x.stdin
      /\ y.stdout = x.stdout /\ y.closed = x.closed /\ y.eof = x.eof
  BY ONLY <1>1, g \in Kinds \cup {"none"}, Zenon DEF IsKernel, Kernels
<1> HIDE DEF y
<1>3. Outward(a, c, y, over)
  BY ONLY <1>1, <1>2, Zenon DEF Outward
<1>4. Inward(a, c, y, over)
  BY ONLY <1>1, <1>2, Zenon DEF Inward
<1>5. Relay(a, c, y, over) /\ Later(x, y)
  BY ONLY <1>1, <1>2, <1>3, <1>4 DEF Relay, Later
<1> QED BY ONLY <1>2, <1>5, Zenon DEF DatagramOutcome, y

LEMMA TcpRule1Relays ==
  ASSUME NEW a, NEW c, Relay(a, c, io, FALSE), io.datagram # "none", NEW o \in tcp_rule_1(c)
  PROVE  Moved(a, c, 1, o)
<1> DEFINE y == [io EXCEPT !.datagram = "none"]
<1>0. IsConnection(c) /\ IsKernel(io)
  BY DEF Relay
<1>1. PICK d \in segment_received(c, io.datagram) : o = Done(d, y)
  BY DEF tcp_rule_1
<1>2. o.local = d /\ o.io = y /\ o.served = TRUE /\ o.returns = TRUE
  <2> HIDE DEF y
  <2> QED BY ONLY <1>1 DEF Done, Outcome
<1>3. io.datagram \in Kinds
  BY <1>0, KernelType, Zenon
<1>4. /\ Receives(c, d)
      /\ d.in.ended => c.in.ended \/ io.datagram = "fin"
      /\ io.datagram = "fin" => bytes_written(d.in) = bytes_written(c.in)
  BY ONLY <1>0, <1>1, <1>3, SegmentReceives
<1>5. /\ Relay(a, d, io, FALSE)
      /\ tcp_interest(c)[3] => tcp_interest(d)[3]
      /\ c.in.error => d.in.error
      /\ c.in.ended => d.in.ended /\ bytes_written(d.in) = bytes_written(c.in)
      /\ eof(c.in) => eof(d.in)
  BY ONLY <1>4, ReceivesRelays, Relay(a, c, io, FALSE), Zenon
<1>6. /\ Relay(a, d, y, FALSE) /\ Later(io, y) /\ y.datagram = "none"
      /\ y.up = io.up /\ y.down = io.down
  <2>1. "none" \in Kinds \cup {"none"} /\ y = [io EXCEPT !.datagram = "none"]
    OBVIOUS
  <2>2. FALSE \in BOOLEAN
    OBVIOUS
  <2> HIDE DEF y
  <2>3. DatagramOutcome(a, d, io, FALSE, "none")
    BY ONLY <1>5, <2>1, <2>2, DatagramRelays, Zenon
  <2> QED BY ONLY <2>1, <2>3, Zenon DEF DatagramOutcome
<1> HIDE DEF y
<1>7. \A n : Delivered(c, io, n) => Delivered(d, y, n)
  BY ONLY <1>4, <1>5, <1>6 DEF Delivered
<1>8. ~ busy_wait(o, tcp_interest(o.local)[1])
  BY ONLY <1>2 DEF busy_wait
<1> QED BY ONLY <1>2, <1>5, <1>6, <1>7, <1>8, Zenon DEF Moved

\* Rule 2: what the pipe gives follows on what the connection was given.  The pipe
\* ends when the copy has shut it, after its last byte.
LEMMA TcpRule2Relays ==
  ASSUME NEW a, NEW c, Relay(a, c, io, FALSE), Readable(io, "thread_data"), NEW o \in tcp_rule_2(c)
  PROVE  Moved(a, c, 2, o)
<1>0. IsCopy(a) /\ IsConnection(c) /\ IsKernel(io) /\ Outward(a, c, io, FALSE) /\ Inward(a, c, io, FALSE)
  BY Zenon DEF Relay
<1> DEFINE q     == c.out
           limit == remaining_capacity(q, SendCapacity)
           d     == read(io.up.queue, limit)
           r     == rest(io.up.queue, limit)
           z     == [io EXCEPT !.up.queue = r]
           y     == eof_after(z, "thread_data", d, limit)
           e     == write_tcp(c, d)
           f     == IF "thread_data" \in y.eof THEN outbound_ended(e) ELSE e
<1>1. o = Done(f, y)
  BY Zenon DEF tcp_rule_2
<1>2. o.local = f /\ o.io = y /\ o.served = TRUE /\ o.returns = TRUE
  <2> HIDE DEF f, y
  <2> QED BY ONLY <1>1 DEF Done, Outcome
<1>3. /\ q \in Streams(SendCapacity) /\ SendCapacity \in Nat
      /\ q.buffer \in Seq(Nat) /\ Len(q.buffer) \in Nat /\ Len(q.buffer) <= SendCapacity
      /\ q.ended \in BOOLEAN /\ bytes_written(q) \in Nat
  BY <1>0, ConnectionType, StreamType, SocketAssumption
<1>4. io.up.queue \in Seq(Nat) /\ io.up.shut \in BOOLEAN /\ (io.up.queue # << >> \/ io.up.shut)
  BY <1>0, KernelType DEF Readable
<1>5. limit \in Nat /\ limit = SendCapacity - Len(q.buffer)
  <2>1. limit = SendCapacity - Len(q.buffer)
    BY DEF remaining_capacity
  <2> QED BY ONLY <1>3, <2>1
<1> HIDE DEF limit
<1>6. /\ d \in Seq(Nat) /\ Len(d) <= limit /\ Follow(d, bytes_written(q))
      /\ r \in Seq(Nat) /\ Follow(r, bytes_written(q) + Len(d)) /\ Len(r) = Len(io.up.queue) - Len(d)
      /\ Len(d) \in 0 .. Len(io.up.queue)
      /\ d = << >> /\ limit > 0 => io.up.queue = << >>
      /\ io.up.queue = << >> => d = << >> /\ r = << >>
  <2>1. Follow(io.up.queue, bytes_written(q))
    BY ONLY <1>0, Zenon DEF Outward
  <2> HIDE DEF q
  <2>o. ReadOutcome(io.up.queue, bytes_written(q), limit)
    BY ONLY <1>3, <1>4, <1>5, <2>1, ReadSplits, Zenon
  <2> QED BY ONLY <2>o, Zenon DEF ReadOutcome
<1>7. /\ IsKernel(z) /\ z.up = [queue |-> r, shut |-> io.up.shut]
      /\ z.down = io.down /\ z.typed = io.typed /\ z.stdin = io.stdin /\ z.stdout = io.stdout
      /\ z.datagram = io.datagram /\ z.eof = io.eof /\ z.closed = io.closed
  <2>1. io.up = [queue |-> io.up.queue, shut |-> io.up.shut] /\ io \in Kernels /\ io.stdin <= io.typed
    BY <1>0, Zenon DEF IsKernel, Kernels, Pipes
  <2> HIDE DEF r
  <2> QED BY ONLY <1>4, <1>6, <2>1, Zenon DEF IsKernel, Kernels, Pipes
<1> HIDE DEF z
<1>8. /\ IsKernel(y) /\ y.up = [queue |-> r, shut |-> io.up.shut]
      /\ y.down = io.down /\ y.typed = io.typed /\ y.stdin = io.stdin /\ y.stdout = io.stdout
      /\ y.datagram = io.datagram /\ y.closed = io.closed /\ io.eof \subseteq y.eof
      /\ \A g : g \in y.eof => g \in io.eof \/ (g = "thread_data" /\ d = << >> /\ limit > 0)
  <2>1. y = eof_after(z, "thread_data", d, limit) /\ "thread_data" \in {"stdin", "socket", "thread_data"}
    OBVIOUS
  <2> HIDE DEF y, d, r
  <2>2. /\ IsKernel(y)
        /\ y.up = z.up /\ y.down = z.down /\ y.typed = z.typed /\ y.stdin = z.stdin
        /\ y.stdout = z.stdout /\ y.datagram = z.datagram /\ y.closed = z.closed
        /\ z.eof \subseteq y.eof
        /\ \A g : g \in y.eof => g \in z.eof \/ (g = "thread_data" /\ d = << >> /\ limit > 0)
    <3>1. EofOutcome(z, "thread_data", d, limit)
      BY ONLY <1>7, <2>1, EofAfter, Zenon
    <3> QED BY ONLY <2>1, <3>1, Zenon DEF EofOutcome
  <2> QED BY ONLY <1>7, <2>2, Zenon
<1>9. q.ended => d = << >>
  BY ONLY <1>0, <1>6, Zenon DEF Outward
<1>10. /\ IsConnection(e) /\ e.in = c.in /\ e.inbound_shutdown = c.inbound_shutdown
       /\ bytes_written(e.out) = bytes_written(q) + Len(d)
       /\ e.out.ended = q.ended
  <2>1. e = write_tcp(c, d) /\ Len(d) <= SendCapacity - Len(q.buffer)
    BY ONLY <1>5, <1>6
  <2> HIDE DEF e, d
  <2> QED BY ONLY <1>0, <1>6, <1>9, <2>1, WriteTcpSends, Zenon
<1>11. f = IF "thread_data" \in y.eof THEN outbound_ended(e) ELSE e
  BY Zenon
<1> HIDE DEF f, y, e, d, r
<1>12. /\ IsConnection(f) /\ f.in = c.in /\ f.inbound_shutdown = c.inbound_shutdown
       /\ bytes_written(f.out) = bytes_written(q) + Len(d)
       /\ f.out.ended <=> q.ended \/ "thread_data" \in y.eof
  <2>1. CASE "thread_data" \in y.eof
    <3>1. f = outbound_ended(e)
      BY ONLY <1>11, <2>1
    <3>2. /\ IsConnection(f) /\ f.in = e.in /\ f.inbound_shutdown = e.inbound_shutdown
          /\ bytes_written(f.out) = bytes_written(e.out) /\ f.out.ended = TRUE
      BY ONLY <1>10, <3>1, OutboundEndedSends, Zenon
    <3> QED BY ONLY <1>10, <2>1, <3>2
  <2>2. CASE "thread_data" \notin y.eof
    BY ONLY <1>10, <1>11, <2>2
  <2> QED BY ONLY <2>1, <2>2
<1>13. y.up.queue = r /\ y.up.shut = io.up.shut
  BY ONLY <1>8
<1>14. c.out.error = f.out.error
  BY ONLY <1>0, <1>12, Zenon DEF IsConnection
<1>15. "thread_data" \in y.eof => io.up.shut /\ io.up.queue = << >>
  BY ONLY <1>0, <1>4, <1>6, <1>8, Zenon DEF Outward
<1>16. Outward(a, f, y, FALSE)
  <2>1. Len(io.up.queue) \in Nat /\ (io.up.queue = << >> => Len(io.up.queue) = 0)
    BY ONLY <1>4, EmptyRun
  <2>2. a.outbound.popped = bytes_written(f.out) + Len(y.up.queue)
    BY ONLY <1>0, <1>3, <1>6, <1>12, <1>13, <2>1 DEF Outward
  <2>3. /\ "stdin" \in y.eof <=> "stdin" \in io.eof
        /\ "thread_data" \in io.eof => "thread_data" \in y.eof
    BY ONLY <1>8
  <2>4. ASSUME "thread_data" \in y.eof
        PROVE  /\ y.up.shut /\ y.up.queue = << >>
               /\ a.outbound_shutdown /\ "stdin" \in y.eof
               /\ bytes_written(f.out) = y.stdin
    <3>1. y.up.shut /\ y.up.queue = << >> /\ Len(y.up.queue) = 0
      BY ONLY <1>6, <1>13, <1>15, <2>4, EmptyRun
    <3>2. a.outbound_shutdown
      BY ONLY <1>0, <1>15, <2>4 DEF Outward
    <3>3. a.outbound.ended /\ Len(a.outbound.buffer) = 0 /\ a.outbound.popped \in Nat
      BY ONLY <1>0, <3>2, CopyType, StreamType DEF IsCopy
    <3>4. "stdin" \in y.eof
      BY ONLY <1>0, <2>3, <3>3, Zenon DEF Outward
    <3>5. a.outbound.popped = io.stdin
      BY ONLY <1>0, <3>3 DEF Outward, bytes_written
    <3>6. bytes_written(f.out) \in Nat
      BY ONLY <1>12, ConnectionType, StreamType
    <3> QED BY ONLY <1>8, <2>2, <3>1, <3>2, <3>4, <3>5, <3>6
  <2>5. q.ended => y.up.shut /\ y.up.queue = << >> /\ a.outbound_shutdown /\ "stdin" \in y.eof
                   /\ bytes_written(f.out) = y.stdin
    <3>1. q.ended => Len(d) = 0
      BY ONLY <1>9, EmptyRun
    <3>2. q.ended => /\ io.up.shut /\ io.up.queue = << >> /\ a.outbound_shutdown
                     /\ "stdin" \in io.eof /\ bytes_written(q) = io.stdin
      BY ONLY <1>0, Zenon DEF Outward
    <3>3. q.ended => y.up.queue = << >>
      BY ONLY <1>6, <1>13, <3>2, Zenon
    <3> DEFINE m == bytes_written(q)
               k == Len(d)
    <3>4. m \in Nat /\ bytes_written(f.out) = m + k
      BY ONLY <1>3, <1>12, Zenon
    <3>5. q.ended => k = 0
      BY ONLY <3>1, Zenon
    <3> HIDE DEF m, k
    <3>6. k = 0 => m + k = m
      BY ONLY <3>4
    <3>7. q.ended => bytes_written(f.out) = bytes_written(q)
      BY ONLY <3>4, <3>5, <3>6, Zenon DEF m
    <3> QED BY ONLY <1>8, <1>13, <2>3, <3>2, <3>3, <3>7, Zenon
  <2>6. Follow(y.up.queue, bytes_written(f.out))
    BY ONLY <1>6, <1>12, <1>13
  <2> QED BY ONLY <1>0, <1>8, <1>12, <1>13, <1>14, <2>2, <2>3, <2>4, <2>5, <2>6, Zenon DEF Outward
<1>17. Inward(a, f, y, FALSE)
  <2>1. "socket" \in y.eof <=> "socket" \in io.eof
    BY ONLY <1>8
  <2> QED BY ONLY <1>0, <1>8, <1>12, <2>1, Zenon DEF Inward
<1>18. Relay(a, f, y, FALSE) /\ Later(io, y)
  BY ONLY <1>0, <1>8, <1>12, <1>13, <1>16, <1>17, Zenon DEF Relay, Later
<1>19. tcp_interest(c)[3] => tcp_interest(f)[3]
  BY ONLY <1>0, <1>12, PassInterest, Zenon
<1>20. \A n : Delivered(c, io, n) => Delivered(f, y, n)
  BY ONLY <1>8, <1>12, Zenon DEF Delivered
<1>21. ~ busy_wait(o, tcp_interest(o.local)[2])
  BY ONLY <1>2 DEF busy_wait
<1> QED BY ONLY <1>2, <1>8, <1>12, <1>18, <1>19, <1>20, <1>21, Zenon DEF Moved

\* Rule 3: what the pipe takes follows on what it took, and it is shut after the
\* last byte.  It fails only when a reset had shut it before.
LEMMA TcpRule3Relays ==
  ASSUME NEW a, NEW c, Relay(a, c, io, FALSE), tcp_interest(c)[3], NEW o \in tcp_rule_3(c)
  PROVE  Moved(a, c, 3, o)
<1>0. IsCopy(a) /\ IsConnection(c) /\ IsKernel(io) /\ Outward(a, c, io, FALSE) /\ Inward(a, c, io, FALSE)
  BY Zenon DEF Relay
<1> DEFINE q       == c.in
           out(n)  == pop_output(q, n)
           d(n)    == peek_output(q, n)
           sent(n) == [io EXCEPT !.down.queue = @ \o d(n)]
           last(n) == [sent(n) EXCEPT !.down = shut(@)]
           new(n)  == [c EXCEPT !.in = out(n), !.inbound_shutdown = TRUE]
           more(n) == [c EXCEPT !.in = out(n)]
<1>1. PICK n \in may_write(buffer_size(q), PipeCapacity - Len(io.down.queue)) :
        o = IF io.down.shut THEN Outcome(c, io, FALSE, FALSE)
            ELSE IF eof(out(n)) \/ out(n).error THEN Done(new(n), last(n)) ELSE Done(more(n), sent(n))
  BY Zenon DEF tcp_rule_3
<1>2. /\ q \in Streams(RecvCapacity) /\ c.inbound_shutdown \in BOOLEAN /\ RecvCapacity \in Nat
      /\ q.buffer \in Seq(Nat) /\ Len(q.buffer) \in Nat /\ q.popped \in Nat
      /\ q.ended \in BOOLEAN /\ q.error \in BOOLEAN
      /\ buffer_size(q) = Len(q.buffer)
      /\ eof(q) <=> q.ended /\ Len(q.buffer) = 0
  BY <1>0, ConnectionType, StreamType, SocketAssumption
<1>3. /\ io.down.queue \in Seq(Nat) /\ io.down.shut \in BOOLEAN /\ Len(io.down.queue) \in Nat
      /\ bytes_written(a.inbound) \in Nat
  BY <1>0, KernelType, EmptyRun, CopyType, StreamType
<1>5. CASE io.down.shut
  <2>1. c.inbound_shutdown
    BY ONLY <1>0, <1>5, Zenon DEF Inward
  <2>2. Len(q.buffer) > 0 /\ q.error
    BY ONLY <1>0, <1>2, <2>1, PassInterest, tcp_interest(c)[3] DEF IsConnection
  <2>3. q.buffer # << >>
    BY ONLY <1>2, <2>2, EmptyRun
  <2>4. o = [local |-> c, io |-> io, served |-> FALSE, returns |-> FALSE]
    BY <1>1, <1>5, Zenon DEF Outcome
  <2>5. o.local = c /\ o.io = io /\ o.returns = FALSE
    BY ONLY <2>4
  <2> QED BY <2>2, <2>3, <2>5, Zenon DEF Moved, Later
<1>6. CASE ~ io.down.shut
  <2>1. n \in 0 .. Len(q.buffer)
    <3>1. PipeCapacity - Len(io.down.queue) \in Int
      BY ONLY <1>3, DescriptorAssumption
    <3> QED BY ONLY <1>1, <1>2, <3>1, MayWrite, Zenon
  <2> DEFINE p == out(n)
             e == d(n)
             u == io.down.queue \o e
  <2>2. /\ p \in Streams(RecvCapacity) /\ p.popped = q.popped + n /\ Len(p.buffer) = Len(q.buffer) - n
        /\ p.ended = q.ended /\ p.error = q.error
        /\ bytes_written(p) = bytes_written(q)
        /\ e \in Seq(Nat) /\ Len(e) = n /\ Follow(e, q.popped)
    <3>1. p = pop_output(q, n) /\ e = peek_output(q, n)
      OBVIOUS
    <3> HIDE DEF p, e, q
    <3>o. PopOutcome(RecvCapacity, q, n)
      BY ONLY <1>2, <2>1, <3>1, PopSplits, Zenon
    <3> QED BY ONLY <3>1, <3>o, Zenon DEF PopOutcome
  <2> DEFINE t == eof(p) \/ p.error
  <2>3. o = IF t THEN Done(new(n), last(n)) ELSE Done(more(n), sent(n))
    BY <1>1, <1>6, Zenon
  <2>4. /\ new(n) = [c EXCEPT !.in = p, !.inbound_shutdown = TRUE]
        /\ more(n) = [c EXCEPT !.in = p]
        /\ sent(n) = [io EXCEPT !.down.queue = u]
    OBVIOUS
  <2> HIDE DEF p, e
  <2>e. eof(p) <=> p.ended /\ Len(p.buffer) = 0
    BY ONLY <2>2, StreamType
  <2>5. u \in Seq(Nat) /\ Len(u) = Len(io.down.queue) + n /\ Follow(u, bytes_written(a.inbound))
    <3>1. /\ Follow(io.down.queue, bytes_written(a.inbound))
          /\ q.popped = bytes_written(a.inbound) + Len(io.down.queue)
      BY ONLY <1>0, Zenon DEF Inward
    <3> HIDE DEF q
    <3>2. Follow(e, bytes_written(a.inbound) + Len(io.down.queue))
      BY ONLY <2>2, <3>1
    <3> QED BY ONLY <1>3, <2>2, <3>1, <3>2, FollowJoin, Zenon
  <2>6. io.down.queue # << >> => u # << >>
    BY ONLY <1>3, <2>1, <2>5, EmptyRun
  <2> HIDE DEF u
  <2>7. /\ sent(n) \in Kernels
        /\ sent(n).down = [queue |-> u, shut |-> io.down.shut] /\ sent(n).up = io.up
        /\ sent(n).typed = io.typed /\ sent(n).stdin = io.stdin /\ sent(n).stdout = io.stdout
        /\ sent(n).datagram = io.datagram /\ sent(n).eof = io.eof /\ sent(n).closed = io.closed
    <3>1. io.down = [queue |-> io.down.queue, shut |-> io.down.shut] /\ io \in Kernels
      BY <1>0, Zenon DEF IsKernel, Kernels, Pipes
    <3> DEFINE v == [queue |-> u, shut |-> io.down.shut]
    <3>2. v \in Pipes
      BY ONLY <1>3, <2>5 DEF Pipes
    <3>3. sent(n) = [io EXCEPT !.down = v]
      <4> HIDE DEF sent
      <4> QED BY ONLY <2>4, <3>1
    <3> HIDE DEF sent, v
    <3>4. /\ sent(n) \in Kernels
          /\ sent(n).down = v /\ sent(n).up = io.up
          /\ sent(n).typed = io.typed /\ sent(n).stdin = io.stdin /\ sent(n).stdout = io.stdout
          /\ sent(n).datagram = io.datagram /\ sent(n).eof = io.eof /\ sent(n).closed = io.closed
      BY ONLY <3>1, <3>2, <3>3 DEF Kernels
    <3> QED BY ONLY <3>4, Zenon DEF v
  <2> HIDE DEF sent
  <2>8. /\ last(n) \in Kernels
        /\ last(n).down.queue = u /\ last(n).down.shut = TRUE /\ last(n).up = io.up
        /\ last(n).typed = io.typed /\ last(n).stdin = io.stdin /\ last(n).stdout = io.stdout
        /\ last(n).datagram = io.datagram /\ last(n).eof = io.eof /\ last(n).closed = io.closed
    <3> DEFINE v == shut(sent(n).down)
    <3>1. v = shut(sent(n).down) /\ last(n) = [sent(n) EXCEPT !.down = v]
      OBVIOUS
    <3> HIDE DEF last, v
    <3>2. sent(n).down \in Pipes /\ sent(n).down.queue = u
      BY ONLY <2>7 DEF Kernels
    <3>3. v \in Pipes /\ v.queue = u /\ v.shut = TRUE
      BY ONLY <3>1, <3>2, ShutPipe, Zenon
    <3>4. /\ last(n) \in Kernels
          /\ last(n).down = v /\ last(n).up = sent(n).up
          /\ last(n).typed = sent(n).typed /\ last(n).stdin = sent(n).stdin
          /\ last(n).stdout = sent(n).stdout /\ last(n).datagram = sent(n).datagram
          /\ last(n).eof = sent(n).eof /\ last(n).closed = sent(n).closed
      BY ONLY <2>7, <3>1, <3>3 DEF Kernels
    <3> QED BY ONLY <2>7, <3>3, <3>4, Zenon
  <2>9. /\ new(n) \in Connections /\ new(n).in = p /\ new(n).inbound_shutdown = TRUE
        /\ new(n).out = c.out /\ new(n).fin = c.fin /\ new(n).active = c.active
        /\ more(n) \in Connections /\ more(n).in = p /\ more(n).inbound_shutdown = c.inbound_shutdown
        /\ more(n).out = c.out /\ more(n).fin = c.fin /\ more(n).active = c.active
    <3> HIDE DEF new, more
    <3> QED BY ONLY <1>0, <2>2, <2>4, Zenon DEF IsConnection, Connections
  <2> HIDE DEF last, new, more, out, d, t
  <2>10. ~ a.inbound.ended
    BY ONLY <1>0, <1>6, Zenon DEF Inward
  <2>11. IsConnection(new(n)) \/ ~ t
    BY ONLY <1>0, <2>2, <2>9, Zenon DEF IsConnection, t
  <2>f. eof(q) => eof(p)
    <3> DEFINE k == Len(q.buffer)
               m == Len(p.buffer)
    <3>1. k \in Nat /\ n \in 0 .. k /\ m = k - n
      BY ONLY <1>2, <2>1, <2>2, Zenon
    <3> HIDE DEF k, m
    <3>a. m <= k /\ m \in Nat
      BY ONLY <3>1
    <3>2. k = 0 => m = 0
      BY ONLY <3>a
    <3>3. eof(q) <=> q.ended /\ Len(q.buffer) = 0
      BY ONLY <1>2, StreamType
    <3> QED BY ONLY <2>2, <2>e, <3>2, <3>3, Zenon DEF k, m
  <2>12. IsConnection(more(n))
    BY ONLY <1>0, <2>2, <2>9, <2>f, Zenon DEF IsConnection
  <2> DEFINE b == o.local
             y == o.io
  <2>13. /\ o.served = TRUE /\ o.returns = TRUE
         /\ IF t THEN b = new(n) /\ y = last(n) ELSE b = more(n) /\ y = sent(n)
    BY ONLY <2>3 DEF Done, Outcome
  <2> HIDE DEF b, y
  <2>14. /\ IsConnection(b) /\ b.in = p /\ b.out = c.out
         /\ y \in Kernels /\ y.down.queue = u /\ (y.down.shut => b.inbound_shutdown) /\ y.up = io.up
         /\ y.typed = io.typed /\ y.stdin = io.stdin /\ y.stdout = io.stdout
         /\ y.datagram = io.datagram /\ y.eof = io.eof /\ y.closed = io.closed
    <3>1. CASE t
      BY ONLY <2>8, <2>9, <2>11, <2>13, <3>1, Zenon
    <3>2. CASE ~ t
      <4>1. sent(n).down.queue = u /\ sent(n).down.shut = io.down.shut
        BY ONLY <2>7
      <4> QED BY ONLY <1>6, <2>7, <2>9, <2>12, <2>13, <3>2, <4>1, Zenon
    <3> QED BY ONLY <3>1, <3>2
  <2>15. IsKernel(y)
    BY ONLY <1>0, <2>14 DEF IsKernel
  <2>16. p.popped = bytes_written(a.inbound) + Len(u)
    <3>1. bytes_written(a.inbound) \in Nat /\ Len(io.down.queue) \in Nat
      BY ONLY <1>0, <1>3, CopyType, StreamType, EmptyRun, Zenon
    <3>2. n \in Nat
      BY ONLY <2>2, EmptyRun, Zenon
    <3>3. p.popped = (bytes_written(a.inbound) + Len(io.down.queue)) + n
      BY ONLY <1>0, <2>2, Zenon DEF Inward
    <3>4. (bytes_written(a.inbound) + Len(io.down.queue)) + n = bytes_written(a.inbound) + (Len(io.down.queue) + n)
      BY ONLY <3>1, <3>2, SumAssociates, Zenon
    <3>5. Len(u) = Len(io.down.queue) + n
      BY ONLY <2>5, Zenon
    <3> QED BY ONLY <3>3, <3>4, <3>5, Zenon
  <2>17. Inward(a, b, y, FALSE)
    BY ONLY <1>0, <2>5, <2>10, <2>14, <2>16, Zenon DEF Inward
  <2>18. Outward(a, b, y, FALSE)
    BY ONLY <1>0, <2>14, Zenon DEF Outward
  <2>19. Relay(a, b, y, FALSE) /\ Later(io, y)
    BY ONLY <1>0, <1>6, <2>14, <2>15, <2>17, <2>18, Zenon DEF Relay, Later
  <2>20. eof(c.in) => eof(b.in)
    BY ONLY <2>14, <2>f, Zenon
  <2>21. \A k : Delivered(c, io, k) => Delivered(b, y, k)
    BY ONLY <2>2, <2>14, Zenon DEF Delivered
  <2>22. ~ busy_wait(o, tcp_interest(o.local)[3])
    BY ONLY <2>13 DEF busy_wait
  <2> QED BY ONLY <2>2, <2>6, <2>13, <2>14, <2>19, <2>20, <2>21, <2>22, Zenon DEF Moved, b, y
<1> QED BY ONLY <1>3, <1>5, <1>6

LEMMA TcpRule4Relays ==
  ASSUME NEW a, NEW c, Relay(a, c, io, FALSE), NEW o \in tcp_rule_4(c)
  PROVE  Moved(a, c, 4, o)
<1> DEFINE d == [c EXCEPT !.segments_out = 0]
<1>0. IsConnection(c)
  BY DEF Relay
<1>1. o.local = d /\ o.io = io /\ o.returns = TRUE
  BY DEF tcp_rule_4, Outcome
<1>2. d.segments_out = 0
  BY <1>0 DEF IsConnection, Connections
<1>3. Receives(c, d) /\ d.in = c.in
  <2>1. d = [c EXCEPT !.segments_out = 0] /\ 0 \in Nat
    OBVIOUS
  <2> HIDE DEF d
  <2> QED BY ONLY <1>0, <2>1, CountReceives
<1> HIDE DEF d
<1>4. Relay(a, d, io, FALSE) /\ (tcp_interest(c)[3] => tcp_interest(d)[3])
  BY ONLY <1>3, ReceivesRelays, Relay(a, c, io, FALSE), Zenon
<1>5. ~ tcp_interest(d)[4]
  <2>1. tcp_interest(d)[4] <=> (d.segments_out > 0)
    BY Zenon DEF tcp_interest
  <2> QED BY ONLY <1>2, <2>1
<1>6. ~ busy_wait(o, tcp_interest(o.local)[4])
  BY ONLY <1>1, <1>5 DEF busy_wait
<1>7. Later(io, io)
  BY DEF Later
<1>8. \A n : Delivered(c, io, n) => Delivered(d, io, n)
  BY ONLY <1>3 DEF Delivered
<1> QED BY ONLY <1>1, <1>3, <1>4, <1>6, <1>7, <1>8, Zenon DEF Moved

LEMMA TcpCallbackRelays ==
  ASSUME NEW a, NEW c, Relay(a, c, io, FALSE), NEW i \in 1 .. 4, NEW o \in callback("tcp", c, i),
         i = 1 => io.datagram # "none", i = 2 => Readable(io, "thread_data"),
         i = 3 => tcp_interest(c)[3]
  PROVE  Moved(a, c, i, o)
<1>1. CASE i = 1
  <2>1. o \in tcp_rule_1(c)
    BY <1>1 DEF callback
  <2> QED BY <1>1, <2>1, TcpRule1Relays, Zenon
<1>2. CASE i = 2
  <2>1. o \in tcp_rule_2(c)
    BY <1>2 DEF callback
  <2> QED BY <1>2, <2>1, TcpRule2Relays, Zenon
<1>3. CASE i = 3
  <2>1. o \in tcp_rule_3(c)
    BY <1>3 DEF callback
  <2> QED BY <1>3, <2>1, TcpRule3Relays, Zenon
<1>4. CASE i = 4
  <2>1. o \in tcp_rule_4(c)
    BY <1>4 DEF callback
  <2> QED BY <1>4, <2>1, TcpRule4Relays, Zenon
<1> QED BY <1>1, <1>2, <1>3, <1>4

LEMMA CopyCallbackRelays ==
  ASSUME NEW a, NEW c, NEW over \in BOOLEAN, Relay(a, c, io, over),
         over => c.out.error \/ c.out.ended, NEW i \in 1 .. 4, NEW o \in callback("app", a, i),
         i = 2 => copy_interest(a)[2], i = 3 => Readable(io, "socket")
  PROVE  Copied(a, c, io, over, i, o)
<1>0. o \in copy_callback(a, io, i)
  BY DEF callback
<1>1. CASE i = 1
  <2>1. o \in copy_rule_1(a, io)
    BY <1>0, <1>1 DEF copy_callback
  <2> QED BY <1>1, <2>1, CopyRule1Relays
<1>2. CASE i = 2
  <2>1. o \in copy_rule_2(a, io)
    BY <1>0, <1>2 DEF copy_callback
  <2> QED BY <1>2, <2>1, CopyRule2Relays
<1>3. CASE i = 3
  <2>1. o \in copy_rule_3(a, io)
    BY <1>0, <1>3 DEF copy_callback
  <2> QED BY <1>3, <2>1, CopyRule3Relays
<1>4. CASE i = 4
  <2>1. o \in copy_rule_4(a, io)
    BY <1>0, <1>4 DEF copy_callback
  <2> QED BY <1>4, <2>1, CopyRule4Relays
<1> QED BY <1>1, <1>2, <1>3, <1>4

-----------------------------------------------------------------------------
\* The loops

\* Why a rule is no longer there.  Rule 2 of the copy is cancelled by a hangup only,
\* once the TCP thread is over; rule 3 of the TCP thread after a reset only.
Cancelled(c, x, over, app, tcp) ==
  /\ 1 \notin app => "stdin" \in x.eof
  /\ 2 \notin app => over
  /\ 3 \notin app => "socket" \in x.eof
  /\ 4 \notin app => "stdout" \in x.closed
  /\ 1 \in tcp
  /\ 3 \notin tcp => c.in.error

\* What poll(2) found is still so when it is served, whatever the other thread and
\* the rules before it have done.
AppEvents(a, x, over, events) ==
  /\ Event(2, "ready") \in events => copy_interest(a)[2]
  /\ Event(3, "ready") \in events => Readable(x, "socket")
  /\ \A i \in 1 .. 4 : Event(i, "hup") \in events => i = 2 /\ over

TcpEvents(c, x, events) ==
  /\ Event(2, "ready") \in events => Readable(x, "thread_data")
  /\ Event(3, "ready") \in events => tcp_interest(c)[3]
  /\ \A i \in 1 .. 4 : Event(i, "hup") \in events => i = 3 /\ c.in.error

\* Why a thread has left its loop
Control(a, c, x, app, tcp, aborted) ==
  /\ aborted => app \in {"join", "over"}
  /\ tcp \in {"exit", "over"} => aborted \/ (~ c.active /\ (c.in.error \/ c.inbound_shutdown))
  /\ app \in {"exit", "join", "over"} =>
       /\ "socket" \in x.eof /\ a.inbound.buffer = << >>
       /\ a.outbound_shutdown \/ tcp = "over"
       /\ c.in.error \/ eof(c.in)

Threw(c, app, tcp) ==
  /\ tcp = "threw" => c.in.error /\ c.in.buffer # << >>
  /\ app = "threw" => c.out.error

IsPlan(p, x) == {"typed", "peer"} \subseteq DOMAIN p /\ x.typed = p.typed

Over == pc["tcp"] = "over"

\* The second inductive invariant
RInv == /\ Relay(local["app"], local["tcp"], io, Over)
        /\ Delivered(local["tcp"], io, plan.peer)
        /\ Cancelled(local["tcp"], io, Over, rules["app"], rules["tcp"])
        /\ AppEvents(local["app"], io, Over, todo["app"])
        /\ TcpEvents(local["tcp"], io, todo["tcp"])
        /\ Control(local["app"], local["tcp"], io, pc["app"], pc["tcp"], abort)
        /\ Threw(local["tcp"], pc["app"], pc["tcp"])
        /\ IsPlan(plan, io)

\* A rule cancelled in the copy ends a stream that has ended, or that the TCP
\* thread no longer reads.
LEMMA CopyCancelRelays ==
  ASSUME NEW a, NEW c, NEW x, NEW over \in BOOLEAN, Relay(a, c, x, over), NEW gone,
         gone \cap {1, 2} # {} => over \/ a.outbound.ended,
         gone \cap {3, 4} # {} => a.inbound.ended,
         NEW b, b = copy_cancel(a, gone)
  PROVE  /\ Relay(b, c, x, over)
         /\ copy_interest(a)[2] => copy_interest(b)[2]
<1>0. IsCopy(a) /\ IsConnection(c) /\ IsKernel(x) /\ Outward(a, c, x, over) /\ Inward(a, c, x, over)
  BY DEF Relay
<1> DEFINE u == a.outbound.ended \/ gone \cap {1, 2} # {}
           v == a.inbound.ended \/ gone \cap {3, 4} # {}
<1>1. b = [a EXCEPT !.outbound.ended = u, !.inbound.ended = v]
  BY Zenon DEF copy_cancel
<1>2. /\ a.outbound \in Streams(CopyBuffer) /\ a.inbound \in Streams(CopyBuffer)
      /\ a.outbound.ended \in BOOLEAN /\ a.inbound.ended \in BOOLEAN
      /\ Len(a.outbound.buffer) \in Nat
      /\ eof(a.outbound) <=> a.outbound.ended /\ Len(a.outbound.buffer) = 0
      /\ eof(a.inbound) <=> a.inbound.ended /\ Len(a.inbound.buffer) = 0
  BY <1>0, CopyType, StreamType, Zenon
<1>3. /\ u \in BOOLEAN /\ v \in BOOLEAN
      /\ a.outbound.ended => u
      /\ u => a.outbound.ended \/ over
      /\ v <=> a.inbound.ended
  BY <1>2, Zenon
<1> HIDE DEF u, v
<1> DEFINE p == [a.outbound EXCEPT !.ended = u]
           q == [a.inbound EXCEPT !.ended = v]
<1>4. /\ p \in Streams(CopyBuffer) /\ p.buffer = a.outbound.buffer /\ p.popped = a.outbound.popped
      /\ p.ended = u /\ p.error = a.outbound.error
  BY ONLY <1>2, <1>3, Zenon DEF Streams
<1>5. /\ q \in Streams(CopyBuffer) /\ q.buffer = a.inbound.buffer /\ q.popped = a.inbound.popped
      /\ q.ended = v /\ q.error = a.inbound.error
  BY ONLY <1>2, <1>3 DEF Streams
<1>6. b = [a EXCEPT !.outbound = p, !.inbound = q]
  BY ONLY <1>0, <1>1 DEF IsCopy, Copies
<1> HIDE DEF p, q
<1>7. b \in Copies /\ b.outbound = p /\ b.inbound = q /\ b.outbound_shutdown = a.outbound_shutdown
  BY ONLY <1>0, <1>4, <1>5, <1>6, Zenon DEF IsCopy, Copies
<1>8. /\ eof(p) <=> p.ended /\ Len(p.buffer) = 0
      /\ eof(q) <=> q.ended /\ Len(q.buffer) = 0
      /\ bytes_written(p) = bytes_written(a.outbound)
      /\ bytes_written(q) = bytes_written(a.inbound)
  BY ONLY <1>4, <1>5, StreamType DEF bytes_written
<1>9. IsCopy(b)
  BY ONLY <1>0, <1>2, <1>3, <1>4, <1>5, <1>7, <1>8, Zenon DEF IsCopy
<1>10. Outward(b, c, x, over)
  BY ONLY <1>0, <1>3, <1>4, <1>7, <1>8, Zenon DEF Outward
<1>11. Inward(b, c, x, over)
  BY ONLY <1>0, <1>2, <1>3, <1>5, <1>7, <1>8, Zenon DEF Inward
<1>12. copy_interest(a)[2] => copy_interest(b)[2]
  BY ONLY <1>0, <1>3, <1>4, <1>7, <1>9, WriteInterest, Zenon
<1> QED BY ONLY <1>0, <1>9, <1>10, <1>11, <1>12 DEF Relay

\* A copy that asks for nothing has read and printed all, and has shut its end of
\* the pipe unless the TCP thread is over.
LEMMA CopyExits ==
  ASSUME NEW a, NEW c, NEW x, NEW over \in BOOLEAN, Relay(a, c, x, over), NEW kept, NEW tcp,
         Cancelled(c, x, over, kept, tcp), \A i \in kept : ~ copy_interest(a)[i]
  PROVE  /\ "socket" \in x.eof /\ a.inbound.buffer = << >>
         /\ a.outbound_shutdown \/ over
<1>0. IsCopy(a) /\ Outward(a, c, x, over) /\ Inward(a, c, x, over)
  BY DEF Relay
<1>1. /\ copy_interest(a)[1] <=> (~ a.outbound.error /\ CopyBuffer - Len(a.outbound.buffer) > 0 /\ ~ a.inbound.error)
      /\ copy_interest(a)[3] <=> (~ a.inbound.error /\ CopyBuffer - Len(a.inbound.buffer) > 0 /\ ~ a.outbound.error)
      /\ copy_interest(a)[4] <=> (a.inbound.buffer # << >> \/ (eof(a.inbound) /\ ~ a.inbound_shutdown))
  BY Zenon DEF copy_interest, remaining_capacity
<1>2. /\ CopyBuffer \in Nat /\ CopyBuffer > 0 /\ Len(a.outbound.buffer) \in Nat /\ Len(a.inbound.buffer) \in Nat
      /\ a.inbound.buffer \in Seq(Nat)
      /\ eof(a.inbound) <=> a.inbound.ended /\ Len(a.inbound.buffer) = 0
  BY <1>0, CopyType, StreamType, CopyAssumption
<1>3. a.inbound.buffer = << >> <=> Len(a.inbound.buffer) = 0
  BY ONLY <1>2, EmptyRun
<1>4. a.inbound.buffer = << >>
  <2>1. CASE 4 \in kept
    BY ONLY <1>1, <2>1, \A i \in kept : ~ copy_interest(a)[i]
  <2>2. CASE 4 \notin kept
    BY ONLY <1>0, <1>2, <1>3, <2>2, Cancelled(c, x, over, kept, tcp) DEF Cancelled, Inward
  <2> QED BY ONLY <2>1, <2>2
<1>5. "socket" \in x.eof
  <2>1. 3 \notin kept
    BY ONLY <1>0, <1>1, <1>2, <1>3, <1>4, \A i \in kept : ~ copy_interest(a)[i] DEF IsCopy
  <2> QED BY ONLY <2>1, Cancelled(c, x, over, kept, tcp) DEF Cancelled
<1>6. a.outbound_shutdown \/ over
  <2> SUFFICES ASSUME ~ over PROVE a.outbound_shutdown
    OBVIOUS
  <2>1. 2 \in kept
    BY ONLY ~ over, Cancelled(c, x, over, kept, tcp) DEF Cancelled
  <2>2. ~ (Len(a.outbound.buffer) > 0 \/ (a.outbound.ended /\ ~ a.outbound_shutdown))
    BY ONLY <1>0, <2>1, WriteInterest, \A i \in kept : ~ copy_interest(a)[i]
  <2>3. Len(a.outbound.buffer) = 0
    BY ONLY <1>2, <2>2
  <2>4. 1 \notin kept
    BY ONLY <1>0, <1>1, <1>2, <2>3, \A i \in kept : ~ copy_interest(a)[i] DEF IsCopy
  <2>5. a.outbound.ended
    BY ONLY <1>0, <2>4, Cancelled(c, x, over, kept, tcp), Zenon DEF Cancelled, Outward
  <2> QED BY ONLY <2>2, <2>5
<1> QED BY ONLY <1>4, <1>5, <1>6

\* Unless it is aborted, a TCP thread that is over leaves a connection that was
\* reset, or that has been given all.
LEMMA OverIsClosed ==
  ASSUME RInv, ~ abort, Over
  PROVE  local["tcp"].out.error \/ local["tcp"].out.ended
<1>1. ~ local["tcp"].active
  BY Zenon DEF RInv, Control, Over
<1>2. IsConnection(local["tcp"])
  BY DEF RInv, Relay
<1> QED BY ONLY <1>1, <1>2 DEF IsConnection

\* The events of the other thread
LEMMA AppEventsStay ==
  ASSUME NEW a, NEW x, NEW y, NEW over \in BOOLEAN, NEW more \in BOOLEAN, over => more,
         NEW events, AppEvents(a, x, over, events),
         x.down.queue # << >> => y.down.queue # << >>, x.down.shut => y.down.shut
  PROVE  AppEvents(a, y, more, events)
<1>1. Readable(x, "socket") => Readable(y, "socket")
  BY DEF Readable
<1> QED BY <1>1 DEF AppEvents

LEMMA TcpEventsStay ==
  ASSUME NEW c, NEW x, NEW y, NEW events, TcpEvents(c, x, events),
         x.up.queue # << >> => y.up.queue # << >>, x.up.shut => y.up.shut
  PROVE  TcpEvents(c, y, events)
<1>1. Readable(x, "thread_data") => Readable(y, "thread_data")
  BY DEF Readable
<1> QED BY <1>1 DEF TcpEvents

-----------------------------------------------------------------------------
\* The main thread

LEMMA AppServeRelays == ASSUME IInv, RInv, Serve("app") PROVE RInv'
<1> DEFINE a == local["app"]
           c == local["tcp"]
           r == First(todo["app"])
<1>1. pc["app"] = "serve" /\ todo["app"] # {} /\ IsEvents(todo["app"])
  BY Zenon DEF Serve, IInv, Threads
<1>2. r \in todo["app"]
  BY <1>1, FirstIsThere
<1>3. PICK i \in 1 .. 4, e \in {"ready", "hup"} : r = Event(i, e)
  BY <1>1, <1>2 DEF IsEvents
<1>4. r.rule = i /\ r.event = e
  BY <1>3 DEF Event
<1>5. /\ todo'["app"] = todo["app"] \ {r} /\ todo'["tcp"] = todo["tcp"]
      /\ abort' = abort /\ plan' = plan
  BY Zenon DEF Serve, IInv, Threads
<1>6. ~ abort
  BY <1>1, Zenon DEF RInv, Control
<1>7. Over => c.out.error \/ c.out.ended
  BY <1>6, OverIsClosed
<1>8. Over \in BOOLEAN
  BY DEF Over
<1>9. \A k \in 1 .. 4 : /\ Event(k, "hup") \in todo'["app"] => k = 2 /\ Over
                        /\ k \in {2, 3} /\ Event(k, "ready") \in todo'["app"] =>
                             Event(k, "ready") \in todo["app"] /\ r # Event(k, "ready")
  BY <1>5, Zenon DEF RInv, AppEvents
<1>10. CASE r.event = "hup"
  <2>1. i = 2 /\ Over
    BY <1>2, <1>3, <1>4, <1>10, Zenon DEF RInv, AppEvents
  <2>2. /\ local'["app"] = copy_cancel(a, {2}) /\ local'["tcp"] = c
        /\ rules'["app"] = rules["app"] \ {2} /\ rules'["tcp"] = rules["tcp"]
        /\ io' = io /\ pc' = pc
    <3>1. /\ local' = [local EXCEPT !["app"] = cancel("app", @, {r.rule})]
          /\ rules' = [rules EXCEPT !["app"] = @ \ {r.rule}]
          /\ io' = io /\ pc' = pc
      BY <1>10, Zenon DEF Serve
    <3>2. cancel("app", a, {2}) = copy_cancel(a, {2})
      BY ONLY TRUE, Zenon DEF cancel
    <3>3. DOMAIN local = Threads /\ DOMAIN rules = Threads /\ r.rule = 2
      BY <1>4, <2>1, Zenon DEF IInv
    <3> QED BY ONLY <3>1, <3>2, <3>3, Zenon DEF Threads
  <2> DEFINE b == copy_cancel(a, {2})
  <2>3. Relay(b, c, io, Over) /\ (copy_interest(a)[2] => copy_interest(b)[2])
    <3>2. b = copy_cancel(a, {2}) /\ Relay(a, c, io, Over)
      BY Zenon DEF RInv
    <3> HIDE DEF b, a, c
    <3>0. {2} \cap {3, 4} = {}
      BY ONLY TRUE
    <3>1. /\ {2} \cap {1, 2} # {} => Over \/ a.outbound.ended
          /\ {2} \cap {3, 4} # {} => a.inbound.ended
      BY ONLY <2>1, <3>0, Zenon
    <3> QED BY ONLY <1>8, <3>1, <3>2, CopyCancelRelays
  <2> HIDE DEF b
  <2>4. Over' = Over
    BY ONLY <2>2, Zenon DEF Over
  <2>5. AppEvents(b, io, Over, todo'["app"])
    <3>1. AppEvents(a, io, Over, todo["app"])
      BY Zenon DEF RInv
    <3>2. 2 \in 1 .. 4 /\ 3 \in 1 .. 4
      BY ONLY TRUE
    <3> HIDE DEF a
    <3>3. /\ Event(2, "ready") \in todo'["app"] => Event(2, "ready") \in todo["app"]
          /\ Event(3, "ready") \in todo'["app"] => Event(3, "ready") \in todo["app"]
      BY ONLY <1>9, <3>2, Zenon
    <3> QED BY ONLY <1>9, <2>3, <3>1, <3>3, Zenon DEF AppEvents
  <2>6. Cancelled(c, io, Over, rules["app"] \ {2}, rules["tcp"])
    <3>1. Cancelled(c, io, Over, rules["app"], rules["tcp"])
      BY Zenon DEF RInv
    <3> HIDE DEF c
    <3>2. 1 # 2 /\ 3 # 2 /\ 4 # 2
      BY ONLY TRUE
    <3> QED BY ONLY <2>1, <3>1, <3>2, Zenon DEF Cancelled
  <2>7. Control(b, c, io, pc["app"], pc["tcp"], abort)
    BY <1>1, Zenon DEF RInv, Control
  <2>8. b = local'["app"]
    BY <2>2 DEF b
  <2> HIDE DEF a, c
  <2> QED BY <1>5, <2>2, <2>3, <2>4, <2>5, <2>6, <2>7, <2>8, Zenon DEF RInv, c
<1>11. CASE r.event = "ready"
  <2>1. PICK o \in callback("app", a, i) :
          /\ local' = [local EXCEPT !["app"] = o.local]
          /\ io' = o.io
          /\ pc' = [pc EXCEPT !["app"] =
               IF ~ o.returns \/ busy_wait(o, interest("app", o.local)[i]) THEN "threw" ELSE @]
          /\ rules' = rules
    BY <1>4, <1>11 DEF Serve
  <2>2. r = Event(i, "ready")
    BY <1>3, <1>4, <1>11
  <2>3. (i = 2 => copy_interest(a)[2]) /\ (i = 3 => Readable(io, "socket"))
    BY <1>2, <2>2, Zenon DEF RInv, AppEvents
  <2>4. Copied(a, c, io, Over, i, o)
    <3>1. Relay(a, c, io, Over)
      BY DEF RInv
    <3> HIDE DEF a, c
    <3> QED BY ONLY <1>7, <1>8, <2>1, <2>3, <3>1, CopyCallbackRelays
  <2>5. /\ Relay(o.local, c, o.io, Over)
        /\ Later(io, o.io) /\ o.io.datagram = io.datagram
        /\ io.up.queue # << >> => o.io.up.queue # << >>
        /\ i # 3 => o.io.down = io.down
        /\ i # 2 => (copy_interest(a)[2] => copy_interest(o.local)[2])
        /\ o.returns \/ c.out.error
        /\ o.returns => o.served
    BY ONLY <2>4, Zenon DEF Copied
  <2>6. /\ local'["app"] = o.local /\ local'["tcp"] = c
        /\ pc'["tcp"] = pc["tcp"] /\ pc'["app"] \in {"serve", "threw"}
        /\ pc'["app"] = "threw" => ~ o.returns \/ ~ o.served
    BY <1>1, <2>1 DEF IInv, Threads, busy_wait
  <2>7. Over' = Over
    BY <2>6 DEF Over
  <2>8. AppEvents(o.local, o.io, Over, todo'["app"])
    <3>a. AppEvents(a, io, Over, todo["app"]) /\ 2 \in 1 .. 4 /\ 3 \in 1 .. 4
      BY DEF RInv
    <3>1. Event(2, "ready") \in todo'["app"] => copy_interest(o.local)[2]
      <4> HIDE DEF a
      <4> SUFFICES ASSUME Event(2, "ready") \in todo'["app"] PROVE copy_interest(o.local)[2]
        OBVIOUS
      <4>1. Event(2, "ready") \in todo["app"] /\ r # Event(2, "ready")
        BY ONLY <1>9, <3>a, Event(2, "ready") \in todo'["app"], Zenon
      <4>2. i # 2
        BY ONLY <2>2, <4>1, Zenon
      <4> QED BY ONLY <2>5, <3>a, <4>1, <4>2, Zenon DEF AppEvents
    <3>2. Event(3, "ready") \in todo'["app"] => Readable(o.io, "socket")
      <4> SUFFICES ASSUME Event(3, "ready") \in todo'["app"] PROVE Readable(o.io, "socket")
        OBVIOUS
      <4>1. Event(3, "ready") \in todo["app"] /\ i # 3
        BY ONLY <1>9, <2>2, <3>a, Event(3, "ready") \in todo'["app"], Zenon
      <4>2. Readable(io, "socket") /\ o.io.down = io.down
        BY ONLY <2>5, <3>a, <4>1, Zenon DEF AppEvents
      <4> QED BY ONLY <4>2 DEF Readable
    <3> QED BY <1>9, <3>1, <3>2, Zenon DEF AppEvents
  <2>9. TcpEvents(c, o.io, todo["tcp"])
    <3>1. TcpEvents(c, io, todo["tcp"])
      BY DEF RInv
    <3>2. io.up.shut => o.io.up.shut
      BY ONLY <2>5 DEF Later
    <3> HIDE DEF c
    <3> QED BY ONLY <2>5, <3>1, <3>2, TcpEventsStay, Zenon
  <2>10. Cancelled(c, o.io, Over, rules["app"], rules["tcp"])
    BY <2>5, Zenon DEF RInv, Cancelled, Later
  <2>11. Control(o.local, c, o.io, pc'["app"], pc["tcp"], abort)
    BY <1>6, <2>6, Zenon DEF RInv, Control
  <2>12. Threw(c, pc'["app"], pc["tcp"])
    BY <2>5, <2>6, Zenon DEF RInv, Threw
  <2>13. Delivered(c, o.io, plan.peer) /\ IsPlan(plan, o.io)
    BY <2>5, Zenon DEF RInv, Delivered, IsPlan, Later
  <2> HIDE DEF a, c
  <2> QED BY ONLY <1>5, <2>1, <2>5, <2>6, <2>7, <2>8, <2>9, <2>10, <2>11, <2>12, <2>13, Zenon DEF RInv
<1> QED BY <1>3, <1>4, <1>10, <1>11

LEMMA AppWaitRelays == ASSUME IInv, RInv, WaitNextEvent("app") PROVE RInv'
<1> DEFINE a     == local["app"]
           c     == local["tcp"]
           gone  == defunct(copy_table, rules["app"], io)
           b     == copy_cancel(a, gone)
           kept  == rules["app"] \ gone
           asked == {i \in kept : copy_interest(b)[i]}
           found == outcome(copy_table, asked, io)
<1>0. /\ Relay(a, c, io, Over) /\ Cancelled(c, io, Over, rules["app"], rules["tcp"])
      /\ Over \in BOOLEAN /\ rules["app"] \subseteq 1 .. 4 /\ IsKernel(io)
  BY Zenon DEF RInv, Over, IInv, Threads, Relay
<1>1. pc["app"] \in {"poll", "serve"}
  BY Zenon DEF WaitNextEvent, AtPoll
<1>2. Polled("app") = [local |-> b, kept |-> kept, asked |-> asked]
  BY Zenon DEF Polled, table, cancel, interest
<1>3. /\ local'["app"] = b /\ local'["tcp"] = c
      /\ rules'["app"] = kept /\ rules'["tcp"] = rules["tcp"]
      /\ todo'["app"] = found /\ todo'["tcp"] = todo["tcp"]
      /\ pc'["tcp"] = pc["tcp"]
      /\ (asked = {} /\ pc'["app"] = "exit") \/ pc'["app"] = "serve"
      /\ io' = io /\ abort' = abort /\ plan' = plan
  <2>1. PICK p \in {Polled("app")} :
          /\ local' = [local EXCEPT !["app"] = p.local]
          /\ rules' = [rules EXCEPT !["app"] = p.kept]
          /\ todo' = [todo EXCEPT !["app"] = outcome(table("app"), p.asked, io)]
          /\ \/ p.asked = {} /\ pc' = [pc EXCEPT !["app"] = "exit"]
             \/ pc' = [pc EXCEPT !["app"] = "serve"]
          /\ io' = io /\ abort' = abort /\ plan' = plan
    BY Zenon DEF WaitNextEvent
  <2> HIDE DEF b, kept, asked
  <2>2. p.local = b /\ p.kept = kept /\ p.asked = asked
    BY <1>2, <2>1
  <2>3. table("app") = copy_table
    BY DEF table
  <2> QED BY <2>1, <2>2, <2>3, Zenon DEF IInv, Threads
<1>4. /\ copy_table[1] = add_rule("stdin", "In") /\ copy_table[2] = add_rule("socket", "Out")
      /\ copy_table[3] = add_rule("socket", "In") /\ copy_table[4] = add_rule("stdout", "Out")
  BY DEF copy_table
<1>5. io.eof \subseteq {"stdin", "socket", "thread_data"} /\ io.closed \subseteq {"stdout"}
  BY <1>0, KernelType
<1>6. /\ 1 \in gone => "stdin" \in io.eof
      /\ 2 \notin gone
      /\ 3 \in gone => "socket" \in io.eof
      /\ 4 \in gone => "stdout" \in io.closed
  BY <1>4, <1>5 DEF defunct, add_rule
<1>7. /\ gone \cap {1, 2} # {} => Over \/ a.outbound.ended
      /\ gone \cap {3, 4} # {} => a.inbound.ended
  <2>1. "stdin" \in io.eof => a.outbound.ended
    BY ONLY <1>0, Zenon DEF Relay, Outward
  <2>2. ("socket" \in io.eof => a.inbound.ended) /\ ("stdout" \in io.closed => a.inbound.ended)
    BY ONLY <1>0, Zenon DEF Relay, Inward, eof
  <2> HIDE DEF gone
  <2> QED BY ONLY <1>6, <2>1, <2>2
<1>8. Relay(b, c, io, Over)
  <2> HIDE DEF gone, a, c
  <2> QED BY ONLY <1>0, <1>7, CopyCancelRelays, Zenon
<1>9. Cancelled(c, io, Over, kept, rules["tcp"])
  <2> HIDE DEF gone
  <2> QED BY ONLY <1>0, <1>6, Zenon DEF Cancelled
<1>10. AppEvents(b, io, Over, found)
  <2>1. \A i, j : Event(i, "ready") # Event(j, "hup")
    BY DEF Event
  <2>2. \A i, j, e : Event(i, e) = Event(j, e) => i = j
    BY DEF Event
  <2>3. \A i : Event(i, "ready") \in found => i \in ready(copy_table, asked, io)
    <3> HIDE DEF asked
    <3> QED BY <2>1, <2>2, Zenon DEF outcome, Event
  <2>4. \A i : Event(i, "hup") \in found =>
          i \in asked /\ i \notin ready(copy_table, asked, io) /\ HungUp(io, copy_table[i].fd)
    <3> HIDE DEF asked
    <3> QED BY <2>1, <2>2, Zenon DEF outcome, Event
  <2>5. ready(copy_table, asked, io) \subseteq asked /\ \A i \in asked : i \in kept /\ copy_interest(b)[i]
    BY Zenon DEF ready
  <2>6. Event(2, "ready") \in found => copy_interest(b)[2]
    <3> HIDE DEF found, asked, b
    <3> QED BY ONLY <2>3, <2>5
  <2>7. 3 \in asked => (3 \in ready(copy_table, asked, io) <=> Readable(io, "socket"))
    <3> HIDE DEF asked
    <3> QED BY <1>4 DEF ready, add_rule
  <2>8. Event(3, "ready") \in found => Readable(io, "socket")
    <3> HIDE DEF found, asked
    <3> QED BY ONLY <2>3, <2>5, <2>7, Zenon
  <2>9. ASSUME NEW i \in 1 .. 4, Event(i, "hup") \in found PROVE i = 2 /\ Over
    <3>1. i \in asked /\ i \notin ready(copy_table, asked, io) /\ HungUp(io, copy_table[i].fd)
      BY <2>4, <2>9, Zenon
    <3>2. copy_table[i].fd \in {"thread_data", "socket"} /\ io.up.shut /\ io.down.shut
      BY ONLY <3>1 DEF HungUp
    <3>3. i = 2 \/ i = 3
      BY ONLY <1>4, <3>2, i \in 1 .. 4 DEF add_rule
    <3>4. Readable(io, "socket")
      BY ONLY <3>2 DEF Readable
    <3> HIDE DEF asked, found, kept
    <3>5. i = 2
      BY ONLY <2>7, <3>1, <3>3, <3>4
    <3>6. copy_interest(b)[2]
      BY ONLY <2>5, <3>1, <3>5
    <3> HIDE DEF b
    <3>7. IsCopy(b) /\ (b.outbound_shutdown \/ Over)
      BY ONLY <1>8, <3>2, Zenon DEF Relay, Outward
    <3>8. ~ b.outbound_shutdown
      <4>1. Len(b.outbound.buffer) \in Nat /\ (eof(b.outbound) <=> b.outbound.ended /\ Len(b.outbound.buffer) = 0)
        BY ONLY <3>7, CopyType, StreamType
      <4> QED BY ONLY <3>6, <3>7, <4>1, WriteInterest DEF IsCopy
    <3> QED BY ONLY <3>5, <3>7, <3>8
  <2> QED BY <2>6, <2>8, <2>9, Zenon DEF AppEvents
<1>11. Control(b, c, io, pc'["app"], pc["tcp"], abort)
  <2>1. ~ abort
    BY <1>1, Zenon DEF RInv, Control
  <2>2. pc["tcp"] \in {"exit", "over"} => ~ c.active /\ (c.in.error \/ c.inbound_shutdown)
    BY <2>1, Zenon DEF RInv, Control
  <2>3. CASE pc'["app"] = "serve"
    BY <2>1, <2>2, <2>3, Zenon DEF Control
  <2>4. CASE asked = {} /\ pc'["app"] = "exit"
    <3>1. \A i \in kept : ~ copy_interest(b)[i]
      BY <2>4
    <3> HIDE DEF b, kept
    <3>2. /\ "socket" \in io.eof /\ b.inbound.buffer = << >>
          /\ b.outbound_shutdown \/ Over
      BY ONLY <1>0, <1>8, <1>9, <3>1, CopyExits, Zenon
    <3>3. c.inbound_shutdown \/ Over
      BY ONLY <1>8, <3>2, Zenon DEF Relay, Inward
    <3>4. c.in.error \/ c.inbound_shutdown
      BY ONLY <2>2, <3>3 DEF Over
    <3>5. c.in.error \/ eof(c.in)
      BY ONLY <1>8, <3>4, Zenon DEF Relay, IsConnection
    <3> QED BY <2>1, <2>2, <2>4, <3>2, <3>5 DEF Control, Over
  <2> QED BY <1>3, <2>3, <2>4, Zenon
<1>12. Threw(c, pc'["app"], pc["tcp"])
  BY <1>3, Zenon DEF RInv, Threw
<1>13. Over' = Over /\ TcpEvents(c, io, todo["tcp"]) /\ Delivered(c, io, plan.peer) /\ IsPlan(plan, io)
  BY <1>3, Zenon DEF RInv, Over
<1> HIDE DEF a, b, c, kept, asked, found
<1> QED BY ONLY <1>3, <1>8, <1>9, <1>10, <1>11, <1>12, <1>13, Zenon DEF RInv

-----------------------------------------------------------------------------
\* The TCP thread

LEMMA TcpServeRelays == ASSUME IInv, RInv, Serve("tcp") PROVE RInv'
<1> DEFINE a == local["app"]
           c == local["tcp"]
           r == First(todo["tcp"])
<1>1. pc["tcp"] = "serve" /\ todo["tcp"] # {} /\ IsEvents(todo["tcp"])
  BY Zenon DEF Serve, IInv, Threads
<1>2. r \in todo["tcp"]
  BY <1>1, FirstIsThere
<1>3. PICK i \in 1 .. 4, e \in {"ready", "hup"} : r = Event(i, e)
  BY <1>1, <1>2, Zenon DEF IsEvents
<1>4. r.rule = i /\ r.event = e
  BY <1>3 DEF Event
<1>5. /\ todo'["tcp"] = todo["tcp"] \ {r} /\ todo'["app"] = todo["app"]
      /\ abort' = abort /\ plan' = plan
  BY Zenon DEF Serve, IInv, Threads
<1>6. Over = FALSE /\ Relay(a, c, io, FALSE)
  BY <1>1, Zenon DEF RInv, Over
<1>7. \A k \in 1 .. 4 : /\ Event(k, "hup") \in todo'["tcp"] => k = 3 /\ c.in.error
                        /\ k \in {2, 3} /\ Event(k, "ready") \in todo'["tcp"] =>
                             Event(k, "ready") \in todo["tcp"] /\ r # Event(k, "ready")
  BY <1>5, Zenon DEF RInv, TcpEvents
<1>8. CASE r.event = "hup"
  <2>1. i = 3 /\ c.in.error
    BY <1>2, <1>3, <1>4, <1>8, Zenon DEF RInv, TcpEvents
  <2>2. /\ local'["app"] = a /\ local'["tcp"] = c
        /\ rules'["tcp"] = rules["tcp"] \ {3} /\ rules'["app"] = rules["app"]
        /\ io' = io /\ pc' = pc
    <3>1. /\ local' = [local EXCEPT !["tcp"] = cancel("tcp", @, {r.rule})]
          /\ rules' = [rules EXCEPT !["tcp"] = @ \ {r.rule}]
          /\ io' = io /\ pc' = pc
      BY <1>8, Zenon DEF Serve
    <3>2. 2 \notin {3}
      BY ONLY TRUE
    <3>3. cancel("tcp", c, {3}) = c
      BY ONLY <3>2, Zenon DEF cancel, tcp_cancel
    <3>4. DOMAIN local = Threads /\ DOMAIN rules = Threads /\ r.rule = 3
      BY <1>4, <2>1, Zenon DEF IInv
    <3> QED BY ONLY <3>1, <3>3, <3>4, Zenon DEF Threads
  <2>3. Over' = Over
    BY ONLY <2>2, Zenon DEF Over
  <2>4. TcpEvents(c, io, todo'["tcp"])
    <3>1. TcpEvents(c, io, todo["tcp"])
      BY Zenon DEF RInv
    <3>2. 2 \in 1 .. 4 /\ 3 \in 1 .. 4
      BY ONLY TRUE
    <3> HIDE DEF c
    <3>3. /\ Event(2, "ready") \in todo'["tcp"] => Event(2, "ready") \in todo["tcp"]
          /\ Event(3, "ready") \in todo'["tcp"] => Event(3, "ready") \in todo["tcp"]
      BY ONLY <1>7, <3>2, Zenon
    <3> QED BY ONLY <1>7, <3>1, <3>3, Zenon DEF TcpEvents
  <2>5. Cancelled(c, io, Over, rules["app"], rules["tcp"] \ {3})
    <3>1. Cancelled(c, io, Over, rules["app"], rules["tcp"])
      BY Zenon DEF RInv
    <3> HIDE DEF c
    <3>2. 1 # 3
      BY ONLY TRUE
    <3> QED BY ONLY <2>1, <3>1, <3>2, Zenon DEF Cancelled
  <2> QED BY <1>5, <2>2, <2>3, <2>4, <2>5, Zenon DEF RInv
<1>9. CASE r.event = "ready"
  <2>1. PICK o \in callback("tcp", c, i) :
          /\ local' = [local EXCEPT !["tcp"] = o.local]
          /\ io' = o.io
          /\ pc' = [pc EXCEPT !["tcp"] =
               IF ~ o.returns \/ busy_wait(o, interest("tcp", o.local)[i]) THEN "threw" ELSE @]
          /\ rules' = rules
    BY <1>4, <1>9 DEF Serve
  <2>2. r = Event(i, "ready")
    BY <1>3, <1>4, <1>9
  <2>3. /\ i = 1 => io.datagram # "none"
        /\ i = 2 => Readable(io, "thread_data")
        /\ i = 3 => tcp_interest(c)[3]
    BY <1>2, <2>2, Zenon DEF RInv, TcpEvents, IInv, AdapterReady
  <2>4. Moved(a, c, i, o)
    <3> HIDE DEF a, c
    <3> QED BY ONLY <1>6, <2>1, <2>3, TcpCallbackRelays, Zenon
  <2> DEFINE d == o.local
             y == o.io
  <2>5. /\ Relay(a, d, y, FALSE) /\ Later(io, y)
        /\ io.down.queue # << >> => y.down.queue # << >>
        /\ i # 2 => y.up = io.up
        /\ i # 3 => (tcp_interest(c)[3] => tcp_interest(d)[3])
        /\ c.in.error => d.in.error
        /\ eof(c.in) => eof(d.in)
        /\ Delivered(c, io, plan.peer) => Delivered(d, y, plan.peer)
        /\ o.returns \/ (d.in.error /\ d.in.buffer # << >>)
        /\ o.returns => ~ busy_wait(o, tcp_interest(d)[i])
    BY ONLY <2>4, Zenon DEF Moved
  <2>6. /\ local'["app"] = a /\ local'["tcp"] = d
        /\ pc'["app"] = pc["app"] /\ pc'["tcp"] \in {"serve", "threw"}
        /\ pc'["tcp"] = "threw" => d.in.error /\ d.in.buffer # << >>
    <3>1. interest("tcp", o.local) = tcp_interest(o.local)
      BY DEF interest
    <3> QED BY <1>1, <2>1, <2>5, <3>1, Zenon DEF IInv, Threads
  <2> HIDE DEF d, y
  <2>7. Over' = FALSE /\ io' = y
    BY <2>1, <2>6 DEF Over, y
  <2>8. AppEvents(a, y, FALSE, todo["app"])
    <3>1. AppEvents(a, io, FALSE, todo["app"])
      BY <1>6, Zenon DEF RInv
    <3>2. io.down.shut => y.down.shut
      BY ONLY <2>5, Zenon DEF Later
    <3> HIDE DEF a
    <3> QED BY ONLY <2>5, <3>1, <3>2, AppEventsStay, Zenon
  <2>9. TcpEvents(d, y, todo'["tcp"])
    <3>a. TcpEvents(c, io, todo["tcp"]) /\ 2 \in 1 .. 4 /\ 3 \in 1 .. 4
      BY DEF RInv
    <3>1. Event(3, "ready") \in todo'["tcp"] => tcp_interest(d)[3]
      <4> HIDE DEF c
      <4> SUFFICES ASSUME Event(3, "ready") \in todo'["tcp"] PROVE tcp_interest(d)[3]
        OBVIOUS
      <4>1. Event(3, "ready") \in todo["tcp"] /\ r # Event(3, "ready")
        BY ONLY <1>7, <3>a, Event(3, "ready") \in todo'["tcp"], Zenon
      <4>2. i # 3
        BY ONLY <2>2, <4>1, Zenon
      <4> QED BY ONLY <2>5, <3>a, <4>1, <4>2, Zenon DEF TcpEvents
    <3>2. Event(2, "ready") \in todo'["tcp"] => Readable(y, "thread_data")
      <4> SUFFICES ASSUME Event(2, "ready") \in todo'["tcp"] PROVE Readable(y, "thread_data")
        OBVIOUS
      <4>1. Event(2, "ready") \in todo["tcp"] /\ i # 2
        BY ONLY <1>7, <2>2, <3>a, Event(2, "ready") \in todo'["tcp"], Zenon
      <4>2. Readable(io, "thread_data") /\ y.up = io.up
        BY ONLY <2>5, <3>a, <4>1, Zenon DEF TcpEvents
      <4> QED BY ONLY <4>2 DEF Readable
    <3> QED BY <1>7, <2>5, <3>1, <3>2, Zenon DEF TcpEvents
  <2>10. Cancelled(d, y, FALSE, rules["app"], rules["tcp"])
    BY <1>6, <2>5, Zenon DEF RInv, Cancelled, Later
  <2>11. Control(a, d, y, pc["app"], pc'["tcp"], abort)
    BY <1>1, <2>5, <2>6, Zenon DEF RInv, Control, Later
  <2>12. Threw(d, pc["app"], pc'["tcp"])
    <3>1. c.out.error => d.out.error
      BY <1>6, <2>5, Zenon DEF Relay, IsConnection
    <3> QED BY <2>6, <3>1, Zenon DEF RInv, Threw
  <2>13. Delivered(d, y, plan.peer) /\ IsPlan(plan, y)
    BY <2>5, Zenon DEF RInv, IsPlan, Later
  <2> HIDE DEF a, c
  <2> QED BY ONLY <1>5, <2>1, <2>5, <2>6, <2>7, <2>8, <2>9, <2>10, <2>11, <2>12, <2>13, Zenon DEF RInv
<1> QED BY <1>3, <1>4, <1>8, <1>9

\* A TCP thread that asks for nothing has a connection that is over, and has passed
\* on all that the peer sent unless it was reset.
LEMMA TcpExits ==
  ASSUME NEW c, IsConnection(c), NEW kept, 1 \in kept, 3 \notin kept => c.in.error,
         \A i \in kept : ~ tcp_interest(c)[i]
  PROVE  ~ c.active /\ (c.in.error \/ c.inbound_shutdown)
<1>1. tcp_interest(c)[1] = c.active
  BY Zenon DEF tcp_interest
<1>2. ~ c.active
  BY <1>1
<1>3. c.in.error \/ c.in.ended
  BY ONLY <1>2, IsConnection(c) DEF IsConnection
<1>4. c.in.error \/ c.inbound_shutdown
  BY ONLY <1>3, PassInterest, IsConnection(c), 3 \notin kept => c.in.error,
          \A i \in kept : ~ tcp_interest(c)[i]
<1> QED BY <1>2, <1>4

LEMMA TcpWaitRelays == ASSUME IInv, RInv, WaitNextEvent("tcp") PROVE RInv'
<1> DEFINE a     == local["app"]
           c     == local["tcp"]
           gone  == defunct(tcp_table, rules["tcp"], io)
           d     == tcp_cancel(c, gone)
           kept  == rules["tcp"] \ gone
           asked == {i \in kept : tcp_interest(d)[i]}
           found == outcome(tcp_table, asked, io)
<1>1. pc["tcp"] = "poll"
  BY Zenon DEF WaitNextEvent, AtPoll
<1>0. /\ Relay(a, c, io, FALSE) /\ Cancelled(c, io, FALSE, rules["app"], rules["tcp"])
      /\ Over = FALSE /\ rules["tcp"] \subseteq 1 .. 4 /\ IsKernel(io) /\ IsConnection(c)
  BY <1>1, Zenon DEF RInv, Over, IInv, Threads, Relay
<1>2. Polled("tcp") = [local |-> d, kept |-> kept, asked |-> asked]
  BY Zenon DEF Polled, table, cancel, interest
<1>3. /\ local'["tcp"] = d /\ local'["app"] = a
      /\ rules'["tcp"] = kept /\ rules'["app"] = rules["app"]
      /\ todo'["tcp"] = found /\ todo'["app"] = todo["app"]
      /\ pc'["app"] = pc["app"]
      /\ (asked = {} /\ pc'["tcp"] = "exit") \/ pc'["tcp"] = "serve"
      /\ io' = io /\ abort' = abort /\ plan' = plan
  <2>1. PICK p \in {Polled("tcp")} :
          /\ local' = [local EXCEPT !["tcp"] = p.local]
          /\ rules' = [rules EXCEPT !["tcp"] = p.kept]
          /\ todo' = [todo EXCEPT !["tcp"] = outcome(table("tcp"), p.asked, io)]
          /\ \/ p.asked = {} /\ pc' = [pc EXCEPT !["tcp"] = "exit"]
             \/ pc' = [pc EXCEPT !["tcp"] = "serve"]
          /\ io' = io /\ abort' = abort /\ plan' = plan
    BY Zenon DEF WaitNextEvent
  <2> HIDE DEF d, kept, asked
  <2>2. p.local = d /\ p.kept = kept /\ p.asked = asked
    BY <1>2, <2>1
  <2>3. table("tcp") = tcp_table
    BY DEF table
  <2> QED BY <2>1, <2>2, <2>3, Zenon DEF IInv, Threads
<1>4. /\ tcp_table[1] = add_rule("adapter", "In") /\ tcp_table[2] = add_rule("thread_data", "In")
      /\ tcp_table[3] = add_rule("thread_data", "Out") /\ tcp_table[4] = add_rule("adapter", "Out")
  BY DEF tcp_table
<1>5. io.eof \subseteq {"stdin", "socket", "thread_data"} /\ io.closed \subseteq {"stdout"}
  BY <1>0, KernelType, Zenon
<1>6. 1 \notin gone /\ 3 \notin gone /\ (2 \in gone => "thread_data" \in io.eof)
  BY <1>4, <1>5 DEF defunct, add_rule
<1>7. Receives(c, d) /\ d.in = c.in
  <2>0. d = IF 2 \in gone THEN outbound_ended(c) ELSE c
    BY DEF tcp_cancel
  <2> HIDE DEF d
  <2>l. Len(c.in.buffer) <= Len(c.in.buffer)
    <3>1. Len(c.in.buffer) \in Nat
      BY ONLY <1>0, ConnectionType, StreamType
    <3> QED BY ONLY <3>1
  <2>1. CASE 2 \in gone
    <3>1. c.out.ended
      BY ONLY <1>0, <1>6, <2>1, Zenon DEF Relay, Outward
    <3>2. c.out.ended \in BOOLEAN
      BY ONLY <1>0, ConnectionType, StreamType
    <3>3. d = outbound_ended(c)
      BY ONLY <2>0, <2>1
    <3>4. /\ IsConnection(d) /\ d.in = c.in /\ d.inbound_shutdown = c.inbound_shutdown
          /\ bytes_written(d.out) = bytes_written(c.out) /\ d.out.ended = TRUE
      BY ONLY <1>0, <3>3, OutboundEndedSends, Zenon
    <3> QED BY ONLY <2>l, <3>1, <3>2, <3>4, Zenon DEF Receives
  <2>2. CASE 2 \notin gone
    BY ONLY <1>0, <2>0, <2>2, <2>l, Zenon DEF Receives
  <2> QED BY ONLY <2>1, <2>2
<1>8. Relay(a, d, io, FALSE) /\ IsConnection(d)
  <2>1. FALSE \in BOOLEAN
    OBVIOUS
  <2> HIDE DEF a, c, d
  <2>2. Relay(a, d, io, FALSE)
    BY ONLY <1>0, <1>7, <2>1, ReceivesRelays, Zenon
  <2> QED BY ONLY <2>2, Zenon DEF Relay
<1>9. Cancelled(d, io, FALSE, rules["app"], kept)
  <2> HIDE DEF gone, d
  <2> QED BY ONLY <1>0, <1>6, <1>7, Zenon DEF Cancelled
<1>10. TcpEvents(d, io, found)
  <2>1. \A i, j : Event(i, "ready") # Event(j, "hup")
    BY DEF Event
  <2>2. \A i, j, e : Event(i, e) = Event(j, e) => i = j
    BY DEF Event
  <2>3. \A i : Event(i, "ready") \in found => i \in ready(tcp_table, asked, io)
    <3> HIDE DEF asked
    <3> QED BY <2>1, <2>2, Zenon DEF outcome, Event
  <2>4. \A i : Event(i, "hup") \in found =>
          i \in asked /\ i \notin ready(tcp_table, asked, io) /\ HungUp(io, tcp_table[i].fd)
    <3> HIDE DEF asked
    <3> QED BY <2>1, <2>2, Zenon DEF outcome, Event
  <2>5. ready(tcp_table, asked, io) \subseteq asked /\ \A i \in asked : i \in kept /\ tcp_interest(d)[i]
    BY Zenon DEF ready
  <2>6. Event(3, "ready") \in found => tcp_interest(d)[3]
    <3> HIDE DEF found, asked, d
    <3> QED BY ONLY <2>3, <2>5, Zenon
  <2>7. 2 \in asked => (2 \in ready(tcp_table, asked, io) <=> Readable(io, "thread_data"))
    <3> HIDE DEF asked
    <3> QED BY <1>4 DEF ready, add_rule
  <2>8. Event(2, "ready") \in found => Readable(io, "thread_data")
    <3> HIDE DEF found, asked
    <3> QED BY ONLY <2>3, <2>5, <2>7, Zenon
  <2>9. ASSUME NEW i \in 1 .. 4, Event(i, "hup") \in found PROVE i = 3 /\ d.in.error
    <3>1. i \in asked /\ i \notin ready(tcp_table, asked, io) /\ HungUp(io, tcp_table[i].fd)
      BY <2>4, <2>9, Zenon
    <3>2. tcp_table[i].fd \in {"thread_data", "socket"} /\ io.up.shut /\ io.down.shut
      BY ONLY <3>1, Zenon DEF HungUp
    <3>3. i = 2 \/ i = 3
      BY ONLY <1>4, <3>2, i \in 1 .. 4 DEF add_rule
    <3>4. Readable(io, "thread_data")
      BY ONLY <3>2 DEF Readable
    <3> HIDE DEF asked, found, kept
    <3>5. i = 3
      BY ONLY <2>7, <3>1, <3>3, <3>4
    <3>6. tcp_interest(d)[3]
      BY ONLY <2>5, <3>1, <3>5
    <3> HIDE DEF d
    <3>7. d.inbound_shutdown
      BY ONLY <1>8, <3>2, Zenon DEF Relay, Inward
    <3>8. Len(d.in.buffer) \in Nat /\ (eof(d.in) <=> d.in.ended /\ Len(d.in.buffer) = 0)
      BY ONLY <1>8, ConnectionType, StreamType
    <3>9. d.in.error
      BY ONLY <1>8, <3>6, <3>7, <3>8, PassInterest DEF IsConnection
    <3> QED BY ONLY <3>5, <3>9
  <2> QED BY <2>6, <2>8, <2>9, Zenon DEF TcpEvents
<1>11. Control(a, d, io, pc["app"], pc'["tcp"], abort)
  <2>1. pc'["tcp"] # "over"
    BY <1>3, Zenon
  <2>2. pc'["tcp"] = "exit" => ~ d.active /\ (d.in.error \/ d.inbound_shutdown)
    <3> SUFFICES ASSUME pc'["tcp"] = "exit" PROVE ~ d.active /\ (d.in.error \/ d.inbound_shutdown)
      OBVIOUS
    <3>1. \A i \in kept : ~ tcp_interest(d)[i]
      BY <1>3, Zenon
    <3>2. 1 \in kept /\ (3 \notin kept => d.in.error)
      BY <1>9, Zenon DEF Cancelled
    <3> HIDE DEF d, kept
    <3> QED BY ONLY <1>8, <3>1, <3>2, TcpExits
  <2>3. Control(a, c, io, pc["app"], pc["tcp"], abort)
    BY DEF RInv
  <2> HIDE DEF d, a, c
  <2> QED BY ONLY <1>1, <1>7, <2>1, <2>2, <2>3 DEF Control
<1>12. Threw(d, pc["app"], pc'["tcp"])
  <2>1. c.out.error => d.out.error
    BY ONLY <1>0, <1>7, <1>8, Zenon DEF IsConnection
  <2>2. Threw(c, pc["app"], pc["tcp"])
    BY DEF RInv
  <2> HIDE DEF c, d
  <2> QED BY <1>3, <2>1, <2>2, Zenon DEF Threw
<1>13. Delivered(d, io, plan.peer)
  <2>1. Delivered(c, io, plan.peer)
    BY DEF RInv
  <2> HIDE DEF c, d
  <2> QED BY ONLY <1>7, <2>1 DEF Delivered
<1>14. Over' = FALSE /\ AppEvents(a, io, FALSE, todo["app"]) /\ IsPlan(plan, io)
  BY <1>0, <1>3, Zenon DEF RInv, Over
<1> HIDE DEF a, c, d, kept, asked, found
<1> QED BY ONLY <1>3, <1>8, <1>9, <1>10, <1>11, <1>12, <1>13, <1>14, Zenon DEF RInv

LEMMA TcpLoopRelays == ASSUME IInv, RInv, TcpLoop PROVE RInv'
<1> DEFINE a == local["app"]
           c == local["tcp"]
<1>1. /\ UNCHANGED <<rules, todo, io, abort>> /\ pc["tcp"] = "serve" /\ todo["tcp"] = {}
  BY DEF TcpLoop
<1>2. Over = FALSE /\ Relay(a, c, io, FALSE) /\ IsConnection(c)
  BY <1>1, Zenon DEF RInv, Over, Relay
<1>3. CASE abort /\ pc' = [pc EXCEPT !["tcp"] = "exit"] /\ UNCHANGED <<local, plan>>
  <2>1. pc'["app"] = pc["app"] /\ pc'["tcp"] = "exit"
    BY <1>3, Zenon DEF IInv, Threads
  <2>2. Over' = FALSE
    BY <2>1 DEF Over
  <2>3. Control(a, c, io, pc["app"], "exit", abort)
    BY <1>1, <1>3, Zenon DEF RInv, Control
  <2>4. Threw(c, pc["app"], "exit")
    BY Zenon DEF RInv, Threw
  <2> QED BY <1>1, <1>2, <1>3, <2>1, <2>2, <2>3, <2>4, Zenon DEF RInv
<1>4. CASE /\ pc' = [pc EXCEPT !["tcp"] = "poll"]
           /\ \E d \in IF c.active THEN tick(c) ELSE {c} :
                /\ local' = [local EXCEPT !["tcp"] = d]
                /\ plan' = [plan EXCEPT !.resets = IF d.in.error /\ ~ c.in.error THEN 0 ELSE @]
  <2>1. PICK d \in IF c.active THEN tick(c) ELSE {c} :
                /\ local' = [local EXCEPT !["tcp"] = d]
                /\ plan' = [plan EXCEPT !.resets = IF d.in.error /\ ~ c.in.error THEN 0 ELSE @]
    BY <1>4, Zenon
  <2>2. /\ local'["app"] = a /\ local'["tcp"] = d
        /\ pc'["app"] = pc["app"] /\ pc'["tcp"] = "poll"
    BY <1>4, <2>1 DEF IInv, Threads
  <2>3. IsPlan(plan', io) /\ plan'.peer = plan.peer
    BY <2>1 DEF RInv, IsPlan
  <2>4. Receives(c, d) /\ d.in.ended = c.in.ended /\ bytes_written(d.in) = bytes_written(c.in)
    <3>1. CASE d = c
      <4>1. Len(c.in.buffer) \in Nat
        BY <1>2, ConnectionType, StreamType
      <4>2. Len(c.in.buffer) <= Len(c.in.buffer)
        BY ONLY <4>1
      <4> QED BY ONLY <1>2, <3>1, <4>2, Zenon DEF Receives
    <3>2. CASE d \in tick(c)
      BY ONLY <1>2, <3>2, TickReceives
    <3> QED BY <2>1, <3>1, <3>2
  <2>5. /\ Relay(a, d, io, FALSE)
        /\ c.in.error => d.in.error
        /\ eof(c.in) => eof(d.in)
    <3>1. FALSE \in BOOLEAN
      OBVIOUS
    <3> HIDE DEF a, c
    <3> QED BY ONLY <1>2, <2>4, <3>1, ReceivesRelays, Zenon
  <2>6. Over' = FALSE
    BY <2>2 DEF Over
  <2>7. Delivered(d, io, plan.peer)
    BY <2>4 DEF RInv, Delivered
  <2>8. Cancelled(d, io, FALSE, rules["app"], rules["tcp"])
    BY <1>2, <2>5, Zenon DEF RInv, Cancelled
  <2>9. TcpEvents(d, io, {})
    BY DEF TcpEvents
  <2>10. Control(a, d, io, pc["app"], "poll", abort)
    BY <1>1, <2>5, Zenon DEF RInv, Control
  <2>11. Threw(d, pc["app"], "poll")
    <3>1. c.out.error => d.out.error
      BY <1>2, <2>5, Zenon DEF Relay, IsConnection
    <3> QED BY <3>1, Zenon DEF RInv, Threw
  <2>12. AppEvents(a, io, FALSE, todo["app"])
    BY <1>2, Zenon DEF RInv
  <2> HIDE DEF a, c
  <2> QED BY ONLY <1>1, <2>2, <2>3, <2>5, <2>6, <2>7, <2>8, <2>9, <2>10, <2>11, <2>12, Zenon DEF RInv
<1> QED BY <1>3, <1>4 DEF TcpLoop

\* Shutting the pipe down for both directions
LEMMA ShutRelays ==
  ASSUME NEW a, NEW c, NEW x, NEW over \in BOOLEAN, NEW then \in BOOLEAN, over => then,
         Relay(a, c, x, over), a.outbound_shutdown \/ then, x.down.shut \/ then,
         NEW y, y = shut_both(x)
  PROVE  /\ Relay(a, c, y, then) /\ Later(x, y) /\ y.datagram = x.datagram
         /\ y.up.queue = x.up.queue /\ y.down.queue = x.down.queue
         /\ y.eof = x.eof /\ y.closed = x.closed
<1>1. IsCopy(a) /\ IsConnection(c) /\ IsKernel(x) /\ Outward(a, c, x, over) /\ Inward(a, c, x, over)
  BY DEF Relay
<1>2. y = [x EXCEPT !.up = [x.up EXCEPT !.shut = TRUE], !.down = [x.down EXCEPT !.shut = TRUE]]
  BY Zenon DEF shut_both, shut
<1> DEFINE u == [x.up EXCEPT !.shut = TRUE]
           v == [x.down EXCEPT !.shut = TRUE]
<1>3. u \in Pipes /\ u.queue = x.up.queue /\ u.shut = TRUE
  BY <1>1, KernelType, Zenon DEF Pipes
<1>4. v \in Pipes /\ v.queue = x.down.queue /\ v.shut = TRUE
  BY <1>1, KernelType, Zenon DEF Pipes
<1>5. y = [x EXCEPT !.up = u, !.down = v]
  BY <1>2
<1> HIDE DEF u, v
<1>6. /\ IsKernel(y) /\ y.up = u /\ y.down = v /\ y.typed = x.typed /\ y.stdin = x.stdin
      /\ y.stdout = x.stdout /\ y.datagram = x.datagram /\ y.closed = x.closed /\ y.eof = x.eof
  BY ONLY <1>1, <1>3, <1>4, <1>5, Zenon DEF IsKernel, Kernels
<1>7. Outward(a, c, y, then)
  BY ONLY <1>1, <1>3, <1>6, over => then, a.outbound_shutdown \/ then, Zenon DEF Outward
<1>8. Inward(a, c, y, then)
  BY ONLY <1>1, <1>4, <1>6, over => then, x.down.shut \/ then, Zenon DEF Inward
<1> QED BY ONLY <1>1, <1>3, <1>4, <1>6, <1>7, <1>8, Zenon DEF Relay, Later

LEMMA EndsRelay == ASSUME IInv, RInv, TcpMainEnds \/ WaitUntilClosed PROVE RInv'
<1> DEFINE a == local["app"]
           c == local["tcp"]
<1>1. /\ UNCHANGED <<local, rules, todo, abort, plan>> /\ io' = shut_both(io)
      /\ pc'["tcp"] = pc["tcp"] \/ (pc["tcp"] = "exit" /\ pc'["tcp"] = "over")
      /\ pc'["app"] = pc["app"] \/ (pc["app"] = "exit" /\ pc'["app"] = "join")
      /\ pc["app"] = "exit" \/ pc'["tcp"] = "over"
  BY DEF TcpMainEnds, WaitUntilClosed, IInv, Threads
<1>2. (Over => Over') /\ Over \in BOOLEAN /\ Over' \in BOOLEAN
  BY <1>1 DEF Over
<1>3. Relay(a, c, io, Over) /\ Control(a, c, io, pc["app"], pc["tcp"], abort)
  BY DEF RInv
<1>4. (a.outbound_shutdown \/ Over') /\ (io.down.shut \/ Over')
  <2>1. CASE pc["app"] = "exit"
    <3>1. "socket" \in io.eof /\ (a.outbound_shutdown \/ pc["tcp"] = "over")
      BY <1>3, <2>1 DEF Control
    <3>2. io.down.shut
      BY <1>3, <3>1, Zenon DEF Relay, Inward
    <3> QED BY <1>2, <3>1, <3>2 DEF Over
  <2>2. CASE pc'["tcp"] = "over"
    BY <2>2 DEF Over
  <2> QED BY <1>1, <2>1, <2>2
<1> DEFINE y == io'
           then == Over'
<1>5. /\ Relay(a, c, y, then) /\ Later(io, y) /\ y.datagram = io.datagram
      /\ y.up.queue = io.up.queue /\ y.down.queue = io.down.queue
      /\ y.eof = io.eof /\ y.closed = io.closed
  <2>1. y = shut_both(io)
    BY <1>1
  <2>2. (Over => then) /\ then \in BOOLEAN /\ (a.outbound_shutdown \/ then) /\ (io.down.shut \/ then)
    BY <1>2, <1>4
  <2> HIDE DEF a, c, y, then
  <2> QED BY ONLY <1>2, <1>3, <2>1, <2>2, ShutRelays
<1>6. AppEvents(a, y, then, todo["app"])
  <2>1. AppEvents(a, io, Over, todo["app"])
    BY DEF RInv
  <2>2. (Over => then) /\ then \in BOOLEAN /\ (io.down.shut => y.down.shut)
    BY <1>2, <1>5 DEF Later
  <2> HIDE DEF a, y, then
  <2> QED BY ONLY <1>2, <1>5, <2>1, <2>2, AppEventsStay
<1>7. TcpEvents(c, y, todo["tcp"])
  <2>1. TcpEvents(c, io, todo["tcp"])
    BY DEF RInv
  <2>2. io.up.shut => y.up.shut
    BY <1>5 DEF Later
  <2> HIDE DEF c, y
  <2> QED BY ONLY <1>5, <2>1, <2>2, TcpEventsStay
<1>8. Cancelled(c, y, then, rules["app"], rules["tcp"])
  BY <1>2, <1>5, Zenon DEF RInv, Cancelled
<1>9. Control(a, c, y, pc'["app"], pc'["tcp"], abort)
  BY <1>1, <1>3, <1>5, Zenon DEF Control
<1>10. Threw(c, pc'["app"], pc'["tcp"])
  BY <1>1, Zenon DEF RInv, Threw
<1>11. Delivered(c, y, plan.peer) /\ IsPlan(plan, y)
  BY <1>5, Zenon DEF RInv, Delivered, IsPlan, Later
<1> QED BY <1>1, <1>5, <1>6, <1>7, <1>8, <1>9, <1>10, <1>11, Zenon DEF RInv

LEMMA ArriveRelays == ASSUME IInv, RInv, Arrive PROVE RInv'
<1> DEFINE a == local["app"]
           c == local["tcp"]
<1>1. PICK kind \in Kinds :
        /\ Arrives(kind)
        /\ io' = [io EXCEPT !.datagram = kind]
        /\ plan' = [plan EXCEPT !.useless = IF kind = "useless" THEN @ - 1 ELSE @,
                                !.resets  = IF kind = "rst" THEN 0 ELSE @]
  BY Zenon DEF Arrive
<1>2. UNCHANGED <<local, rules, todo, pc, abort>>
  BY DEF Arrive
<1>3. Over' = Over
  BY <1>2 DEF Over
<1>4. /\ Relay(a, c, io', Over) /\ Later(io, io') /\ io'.datagram = kind
      /\ io'.up = io.up /\ io'.down = io.down /\ io'.eof = io.eof
  <2>1. Relay(a, c, io, Over) /\ Over \in BOOLEAN /\ kind \in Kinds \cup {"none"}
    BY DEF RInv, Over
  <2> HIDE DEF a, c
  <2>2. DatagramOutcome(a, c, io, Over, kind)
    BY ONLY <2>1, DatagramRelays, Zenon
  <2> QED BY ONLY <1>1, <2>2, Zenon DEF DatagramOutcome
<1>5. plan'.peer = plan.peer /\ IsPlan(plan', io')
  BY <1>1, <1>4 DEF RInv, IsPlan, Later
<1>6. Delivered(c, io', plan.peer)
  <2>1. kind = "fin" => bytes_written(c.in) = plan.peer
    BY <1>1 DEF Arrives
  <2> QED BY <1>4, <2>1 DEF RInv, Delivered
<1>7. AppEvents(a, io', Over, todo["app"])
  BY <1>4 DEF RInv, AppEvents, Readable
<1>8. TcpEvents(c, io', todo["tcp"])
  BY <1>4 DEF RInv, TcpEvents, Readable
<1>9. Cancelled(c, io', Over, rules["app"], rules["tcp"])
  BY <1>4, Zenon DEF RInv, Cancelled, Later
<1>10. Control(a, c, io', pc["app"], pc["tcp"], abort)
  BY <1>4, Zenon DEF RInv, Control
<1> QED BY <1>2, <1>3, <1>4, <1>5, <1>6, <1>7, <1>8, <1>9, <1>10 DEF RInv
-----------------------------------------------------------------------------
LEMMA InitRInv == Init => RInv
<1> SUFFICES ASSUME Init PROVE RInv
  OBVIOUS
<1>1. /\ local["app"] = FreshCopy /\ local["tcp"] = FreshTCP
      /\ rules["app"] = 1 .. 4 /\ rules["tcp"] = 1 .. 4
      /\ todo["app"] = {} /\ todo["tcp"] = {}
      /\ pc["app"] = "connect" /\ pc["tcp"] = "poll" /\ abort = FALSE
      /\ io = FreshIO(plan.typed)
  BY DEF Init, Threads
<1>2. plan.typed \in Nat /\ {"typed", "peer"} \subseteq DOMAIN plan
  BY SocketAssumption DEF Init
<1>a. /\ io.stdin = 0 /\ io.typed = plan.typed /\ io.stdout = << >>
      /\ io.up.queue = << >> /\ io.down.queue = << >> /\ io.up.shut = FALSE /\ io.down.shut = FALSE
      /\ io.eof = {} /\ io.closed = {} /\ io.datagram = "none"
  BY ONLY <1>1 DEF FreshIO, Pipe
<1>b. /\ EmptyQueue.buffer = << >> /\ EmptyQueue.popped = 0
      /\ EmptyQueue.ended = FALSE /\ EmptyQueue.error = FALSE
  BY ONLY TRUE DEF EmptyQueue
<1>c. /\ FreshCopy.outbound = EmptyQueue /\ FreshCopy.inbound = EmptyQueue
      /\ FreshTCP.out = EmptyQueue /\ FreshTCP.in = EmptyQueue
  BY ONLY TRUE DEF FreshCopy, FreshTCP
<1>d. bytes_written(EmptyQueue) = 0 /\ Len(<< >>) = 0 /\ 0 + 0 = 0 /\ 0 <= 0
  BY ONLY <1>b, EmptyRun DEF bytes_written
<1>3. \A C \in Nat : EmptyQueue \in Streams(C)
  BY EmptyRun DEF Streams, EmptyQueue
<1>4. IsConnection(FreshTCP)
  <2>1. SendCapacity \in Nat /\ RecvCapacity \in Nat /\ Window \in Nat
    BY SocketAssumption
  <2>2. FreshTCP \in Connections
    BY <1>3, <2>1 DEF FreshTCP, Connections
  <2> QED BY <2>2 DEF IsConnection, FreshTCP, EmptyQueue
<1>5. IsCopy(FreshCopy)
  <2>1. FreshCopy \in Copies
    BY <1>3, CopyAssumption DEF FreshCopy, Copies
  <2> QED BY <2>1 DEF IsCopy, FreshCopy, EmptyQueue
<1>6. IsKernel(io)
  BY <1>1, <1>2, EmptyRun DEF IsKernel, Kernels, Pipes, FreshIO, Pipe
<1>7. Outward(FreshCopy, FreshTCP, io, Over)
  BY ONLY <1>a, <1>b, <1>c, <1>d, EmptyRun, Zenon DEF Outward
<1>8. Inward(FreshCopy, FreshTCP, io, Over)
  BY ONLY <1>a, <1>b, <1>c, <1>d, EmptyRun, Zenon DEF Inward, eof
<1>9. Relay(local["app"], local["tcp"], io, Over)
  BY ONLY <1>1, <1>4, <1>5, <1>6, <1>7, <1>8, Zenon DEF Relay
<1>10. Delivered(local["tcp"], io, plan.peer) /\ IsPlan(plan, io)
  BY ONLY <1>1, <1>2, <1>a, <1>b, <1>c, Zenon DEF Delivered, IsPlan
<1>11. Cancelled(local["tcp"], io, Over, rules["app"], rules["tcp"])
  <2>1. 1 \in 1 .. 4 /\ 2 \in 1 .. 4 /\ 3 \in 1 .. 4 /\ 4 \in 1 .. 4
    BY ONLY TRUE
  <2> QED BY ONLY <1>1, <2>1, Zenon DEF Cancelled
<1>12. AppEvents(local["app"], io, Over, todo["app"]) /\ TcpEvents(local["tcp"], io, todo["tcp"])
  BY ONLY <1>1, Zenon DEF AppEvents, TcpEvents
<1>13. /\ Control(local["app"], local["tcp"], io, pc["app"], pc["tcp"], abort)
       /\ Threw(local["tcp"], pc["app"], pc["tcp"])
  BY ONLY <1>1, Zenon DEF Control, Threw
<1> QED BY ONLY <1>9, <1>10, <1>11, <1>12, <1>13, Zenon DEF RInv

LEMMA StepRelays == IInv /\ RInv /\ [Next]_vars => RInv'
<1> SUFFICES ASSUME IInv, RInv, [Next]_vars PROVE RInv'
  OBVIOUS
<1>1. CASE Serve("app") \/ WaitNextEvent("app")
  BY <1>1, AppServeRelays, AppWaitRelays
<1>2. CASE Serve("tcp") \/ WaitNextEvent("tcp")
  BY <1>2, TcpServeRelays, TcpWaitRelays
<1>3. CASE TcpLoop
  BY <1>3, TcpLoopRelays
<1>4. CASE TcpMainEnds \/ WaitUntilClosed
  BY <1>4, EndsRelay
<1>5. CASE Arrive
  BY <1>5, ArriveRelays
<1>6. CASE Destruct \/ Join \/ ConnectReturns
  <2>1. /\ UNCHANGED <<local, rules, todo, io, plan>> /\ pc'["tcp"] = pc["tcp"]
        /\ \/ pc["app"] \in {"exit", "join"} /\ pc'["app"] \in {"join", "over"}
           \/ pc["app"] = "connect" /\ pc'["app"] = "poll" /\ abort' = abort
    BY <1>6 DEF Destruct, Join, ConnectReturns, IInv, Threads
  <2>2. abort => abort'
    BY <1>6, Zenon DEF Destruct, Join, ConnectReturns
  <2>3. Over' = Over
    BY <2>1 DEF Over
  <2>4. Control(local["app"], local["tcp"], io, pc'["app"], pc'["tcp"], abort')
    <3>1. Control(local["app"], local["tcp"], io, pc["app"], pc["tcp"], abort)
      BY Zenon DEF RInv
    <3>2. CASE pc["app"] \in {"exit", "join"} /\ pc'["app"] \in {"join", "over"}
      BY ONLY <2>1, <2>2, <3>1, <3>2, Zenon DEF Control
    <3>3. CASE pc["app"] = "connect" /\ pc'["app"] = "poll" /\ abort' = abort
      <4>1. ~ abort
        BY ONLY <3>1, <3>3, Zenon DEF Control
      <4> QED BY ONLY <2>1, <3>1, <3>3, <4>1, Zenon DEF Control
    <3> QED BY ONLY <2>1, <3>2, <3>3, Zenon
  <2>5. Threw(local["tcp"], pc'["app"], pc'["tcp"])
    BY <2>1, Zenon DEF RInv, Threw
  <2> QED BY <2>1, <2>3, <2>4, <2>5, Zenon DEF RInv
<1>7. CASE UNCHANGED vars
  BY <1>7, Zenon DEF vars, RInv, Over
<1> QED BY <1>1, <1>2, <1>3, <1>4, <1>5, <1>6, <1>7 DEF Next, AppStep, TcpStep

\* Both invariants hold together.
LEMMA Relays == Spec => []RInv
BY InitIInv, StepKeeps, InitRInv, StepRelays, PTL DEF Spec

-----------------------------------------------------------------------------
\* For every capacity of the streams, the pipe and the window, and however the two
\* threads, partial reads and writes, resets and hangups interleave: the bytes on
\* their way in both directions are the next bytes of their stream, except for
\* those that are typed after a reset once the TCP thread is over.
THEOREM BytesRelayedInOrder == Spec => []RelayedInOrder
<1>1. RInv => RelayedInOrder
  <2> SUFFICES ASSUME RInv PROVE RelayedInOrder
    OBVIOUS
  <2> DEFINE a   == local["app"]
             c   == local["tcp"]
             up  == c.out.buffer \o io.up.queue
             out == up \o a.outbound.buffer
             dn  == io.stdout \o a.inbound.buffer
             mid == dn \o io.down.queue
             in  == mid \o c.in.buffer
  <2>0. IsCopy(a) /\ IsConnection(c) /\ IsKernel(io) /\ Outward(a, c, io, Over) /\ Inward(a, c, io, Over)
    BY DEF RInv, Relay
  <2>1. /\ a.outbound \in Streams(CopyBuffer) /\ a.inbound \in Streams(CopyBuffer)
        /\ c.out \in Streams(SendCapacity) /\ c.in \in Streams(RecvCapacity)
        /\ io.up.queue \in Seq(Nat) /\ io.down.queue \in Seq(Nat) /\ io.stdout \in Seq(Nat)
    BY <2>0, CopyType, ConnectionType, KernelType, Zenon
  <2>2. /\ a.outbound.buffer \in Seq(Nat) /\ a.outbound.popped \in Nat
        /\ Follow(a.outbound.buffer, a.outbound.popped)
        /\ bytes_written(a.outbound) = a.outbound.popped + Len(a.outbound.buffer)
        /\ a.inbound.buffer \in Seq(Nat) /\ a.inbound.popped \in Nat
        /\ Follow(a.inbound.buffer, a.inbound.popped)
        /\ bytes_written(a.inbound) = a.inbound.popped + Len(a.inbound.buffer)
        /\ c.out.buffer \in Seq(Nat) /\ c.out.popped \in Nat /\ Follow(c.out.buffer, c.out.popped)
        /\ bytes_written(c.out) = c.out.popped + Len(c.out.buffer)
        /\ c.in.buffer \in Seq(Nat) /\ c.in.popped \in Nat /\ Follow(c.in.buffer, c.in.popped)
        /\ bytes_written(c.in) = c.in.popped + Len(c.in.buffer)
    BY ONLY <2>1, StreamType, Zenon
  <2>3. /\ Len(io.up.queue) \in Nat /\ Len(io.down.queue) \in Nat /\ Len(io.stdout) \in Nat
        /\ Len(a.outbound.buffer) \in Nat /\ Len(a.inbound.buffer) \in Nat
        /\ Len(c.out.buffer) \in Nat /\ Len(c.in.buffer) \in Nat
    BY ONLY <2>1, <2>2, EmptyRun, Zenon
  <2>4. /\ Follow(io.up.queue, c.out.popped + Len(c.out.buffer))
        /\ a.outbound.popped = c.out.popped + Len(c.out.buffer) + Len(io.up.queue)
        /\ a.inbound.popped = Len(io.stdout) /\ Follow(io.stdout, 0)
        /\ Follow(io.down.queue, a.inbound.popped + Len(a.inbound.buffer))
        /\ c.in.popped = a.inbound.popped + Len(a.inbound.buffer) + Len(io.down.queue)
    BY ONLY <2>0, <2>2, Zenon DEF Outward, Inward
  <2> HIDE DEF a, c
  <2>a. /\ c.out.popped \in Nat /\ c.in.popped \in Nat
        /\ a.outbound.popped \in Nat /\ a.inbound.popped \in Nat
        /\ bytes_written(a.outbound) = a.outbound.popped + Len(a.outbound.buffer)
        /\ bytes_written(c.in) = c.in.popped + Len(c.in.buffer)
        /\ a.outbound.popped = c.out.popped + Len(c.out.buffer) + Len(io.up.queue)
        /\ a.inbound.popped = Len(io.stdout)
        /\ c.in.popped = a.inbound.popped + Len(a.inbound.buffer) + Len(io.down.queue)
    BY ONLY <2>2, <2>4, Zenon
  <2>5. up \in Seq(Nat) /\ Len(up) = Len(c.out.buffer) + Len(io.up.queue) /\ Follow(up, c.out.popped)
    BY ONLY <2>1, <2>2, <2>4, FollowJoin, Zenon
  <2>b. Len(up) = Len(c.out.buffer) + Len(io.up.queue)
    BY ONLY <2>5
  <2> HIDE DEF up
  <2>6. out \in Seq(Nat) /\ Len(out) = Len(up) + Len(a.outbound.buffer) /\ Follow(out, c.out.popped)
    <3>1. Follow(a.outbound.buffer, c.out.popped + Len(up))
      <4>1. a.outbound.popped = c.out.popped + Len(up)
        <5> DEFINE f == c.out.popped
                   m == Len(c.out.buffer)
                   n == Len(io.up.queue)
                   s == Len(up)
        <5>1. f \in Nat /\ m \in Nat /\ n \in Nat /\ s = m + n /\ a.outbound.popped = f + m + n
          BY ONLY <2>3, <2>a, <2>b, Zenon
        <5> HIDE DEF f, m, n, s
        <5>2. a.outbound.popped = f + s
          BY ONLY <5>1
        <5> QED BY ONLY <5>2, Zenon DEF f, s
      <4> QED BY ONLY <2>2, <4>1, Zenon
    <3> QED BY ONLY <2>2, <2>5, <3>1, FollowJoin, Zenon
  <2>7. dn \in Seq(Nat) /\ Len(dn) = Len(io.stdout) + Len(a.inbound.buffer) /\ Follow(dn, 0)
    <3>1. Follow(a.inbound.buffer, 0 + Len(io.stdout)) /\ 0 \in Nat
      BY ONLY <2>2, <2>3, <2>4
    <3> QED BY ONLY <2>1, <2>2, <2>4, <3>1, FollowJoin, Zenon
  <2> HIDE DEF dn
  <2>8. mid \in Seq(Nat) /\ Len(mid) = Len(dn) + Len(io.down.queue) /\ Follow(mid, 0)
    <3>1. 0 + Len(dn) = a.inbound.popped + Len(a.inbound.buffer) /\ 0 \in Nat
      BY ONLY <2>2, <2>3, <2>4, <2>7
    <3>2. Follow(io.down.queue, 0 + Len(dn))
      BY ONLY <2>4, <3>1, Zenon
    <3> QED BY ONLY <2>1, <2>7, <3>1, <3>2, FollowJoin, Zenon
  <2> HIDE DEF mid
  <2>9. in \in Seq(Nat) /\ Len(in) = Len(mid) + Len(c.in.buffer) /\ Follow(in, 0)
    <3>1. 0 + Len(mid) = c.in.popped /\ 0 \in Nat
      BY ONLY <2>2, <2>3, <2>4, <2>7, <2>8
    <3>2. Follow(c.in.buffer, 0 + Len(mid))
      BY ONLY <2>2, <3>1
    <3> QED BY ONLY <2>2, <2>8, <3>1, <3>2, FollowJoin, Zenon
  <2> HIDE DEF out, in
  <2>c. /\ Len(out) = Len(up) + Len(a.outbound.buffer)
        /\ Len(in) = Len(io.stdout) + Len(a.inbound.buffer) + Len(io.down.queue) + Len(c.in.buffer)
    BY ONLY <2>6, <2>7, <2>8, <2>9
  <2>10. c.out.popped + Len(out) = bytes_written(a.outbound)
    <3> DEFINE f == c.out.popped
               m == Len(c.out.buffer)
               n == Len(io.up.queue)
               k == Len(a.outbound.buffer)
    <3>1. f \in Nat /\ m \in Nat /\ n \in Nat /\ k \in Nat
      BY ONLY <2>3, <2>a, Zenon
    <3>2. Len(out) = m + n + k /\ bytes_written(a.outbound) = f + m + n + k
      BY ONLY <2>a, <2>b, <2>c, Zenon
    <3> HIDE DEF m, n, k, f
    <3>3. f + (m + n + k) = f + m + n + k
      BY ONLY <3>1
    <3> QED BY ONLY <3>2, <3>3, Zenon DEF f
  <2>11. Len(in) = bytes_written(c.in)
    BY ONLY <2>3, <2>a, <2>c
  <2>12. /\ bytes_written(a.outbound) <= io.stdin
         /\ bytes_written(a.outbound) = io.stdin \/ (pc["tcp"] = "over" /\ c.out.error)
    BY ONLY <2>0, Zenon DEF Outward, Over
  <2>13. /\ c.out.popped + Len(out) <= io.stdin
         /\ c.out.popped + Len(out) = io.stdin \/ (pc["tcp"] = "over" /\ c.out.error)
    BY ONLY <2>10, <2>12
  <2> QED BY ONLY <2>6, <2>9, <2>11, <2>13, Zenon DEF RelayedInOrder, bytes_read, out, up, in, mid, dn, a, c
<1> QED BY <1>1, Relays, PTL

\* For every value of the constants: the connection is told that its input has
\* ended only when it has been given every byte that was typed, even if it was
\* reset before.
THEOREM EndsAfterTheLastByte == Spec => []EndsAfterLastByte
<1>1. RInv => EndsAfterLastByte
  <2> SUFFICES ASSUME RInv, local["tcp"].out.ended
               PROVE  "stdin" \in io.eof /\ bytes_written(local["tcp"].out) = plan.typed
    BY DEF EndsAfterLastByte
  <2>1. "stdin" \in io.eof /\ bytes_written(local["tcp"].out) = io.stdin /\ io.stdin = io.typed
    BY Zenon DEF RInv, Relay, Outward
  <2>2. io.typed = plan.typed
    BY Zenon DEF RInv, IsPlan
  <2> QED BY <2>1, <2>2
<1> QED BY <1>1, Relays, PTL

\* For every value of the constants: a copy that has returned without a reset has
\* printed all that the peer sent.
THEOREM CopyPrintsAll == Spec => []CopyIsComplete
<1>1. RInv => CopyIsComplete
  <2> SUFFICES ASSUME RInv, pc["app"] \in {"exit", "join", "over"}, ~ local["tcp"].in.error
               PROVE  Len(io.stdout) = plan.peer
    BY DEF CopyIsComplete
  <2> DEFINE a == local["app"]
             c == local["tcp"]
  <2>1. "socket" \in io.eof /\ a.inbound.buffer = << >> /\ eof(c.in)
    BY Zenon DEF RInv, Control
  <2>2. IsCopy(a) /\ IsConnection(c) /\ IsKernel(io) /\ Inward(a, c, io, Over)
    BY DEF RInv, Relay
  <2>3. bytes_written(c.in) = plan.peer
    BY <2>1, Zenon DEF RInv, Delivered, eof
  <2>4. io.down.queue = << >>
    BY ONLY <2>1, <2>2, Zenon DEF Inward
  <2>5. /\ c.in.popped \in Nat /\ bytes_written(c.in) = c.in.popped + Len(c.in.buffer)
        /\ Len(c.in.buffer) = 0 /\ a.inbound.popped \in Nat
        /\ bytes_written(a.inbound) = a.inbound.popped + Len(a.inbound.buffer)
    BY ONLY <2>1, <2>2, ConnectionType, CopyType, StreamType
  <2>6. Len(a.inbound.buffer) = 0 /\ Len(io.down.queue) = 0
    BY ONLY <2>1, <2>4, EmptyRun
  <2>7. c.in.popped = bytes_written(a.inbound) + Len(io.down.queue) /\ a.inbound.popped = Len(io.stdout)
    BY ONLY <2>2 DEF Inward
  <2>8. bytes_written(c.in) = Len(io.stdout)
    <3> HIDE DEF a, c
    <3>1. \A n \in Nat : n + 0 = n
      OBVIOUS
    <3>2. bytes_written(a.inbound) = a.inbound.popped
      BY ONLY <2>5, <2>6, <3>1, Zenon
    <3>3. c.in.popped = a.inbound.popped
      BY ONLY <2>5, <2>6, <2>7, <3>1, <3>2, Zenon
    <3>4. bytes_written(c.in) = c.in.popped
      BY ONLY <2>5, <3>1, Zenon
    <3> QED BY ONLY <2>7, <3>3, <3>4, Zenon
  <2> QED BY ONLY <2>3, <2>8
<1> QED BY <1>1, Relays, PTL

\* For every value of the constants: the TCP thread dies of an exception only when
\* a reset met bytes that did not fit in the pipe at once; the main thread only when
\* the connection was reset.
THEOREM NoThrowWithoutReset == Spec => []ThrowsAfterResetOnly
<1>1. RInv => ThrowsAfterResetOnly
  BY Zenon DEF RInv, Threw, ThrowsAfterResetOnly
<1> QED BY <1>1, Relays, PTL
=============================================================================
