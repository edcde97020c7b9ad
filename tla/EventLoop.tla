----------------------------- MODULE EventLoop ------------------------------
(***************************************************************************)
(* EventLoop (libsponge/util/eventloop.{hh,cc}).  The rules of a loop are  *)
(* numbered in the order of add_rule(); `rules' is the set of those that   *)
(* have not been cancelled, `table' gives each its descriptor and          *)
(* direction.                                                              *)
(***************************************************************************)
EXTENDS FileDescriptor

add_rule(fd, direction) == [fd |-> fd, direction |-> direction]

\* Mutant: a rule for reading outlives the end of the stream.
defunct_closed(table, rules, io) == {i \in rules : table[i].fd \in io.closed}

\* Mutant: a hangup is taken for the end of the stream.
defunct_hung(table, rules, io) ==
  {i \in rules : table[i].fd \in io.closed \/ (table[i].direction = "In" /\ HungUp(io, table[i].fd))}

\* The rules that the first pass of wait_next_event() cancels
defunct(table, rules, io) ==
  {i \in rules : \/ table[i].direction = "In" /\ table[i].fd \in io.eof
                 \/ table[i].fd \in io.closed}

\* The outcome of poll(2) for the rules it was asked about.  A rule whose
\* descriptor has only hung up is there to be cancelled.
ready(table, asked, io) ==
  {i \in asked : IF table[i].direction = "In" THEN Readable(io, table[i].fd)
                                              ELSE Writable(io, table[i].fd)}

outcome(table, asked, io) ==
  {[rule |-> i, event |-> "ready"] : i \in ready(table, asked, io)} \cup
  {[rule |-> i, event |-> "hup"] :
     i \in {j \in asked \ ready(table, asked, io) : HungUp(io, table[j].fd)}}

\* poll(2) returns for a hangup of any rule, interested or not.
returns_at_once(table, rules, asked, io) ==
  ready(table, asked, io) # {} \/ \E i \in rules : HungUp(io, table[i].fd)

\* The second pass goes through the rules in order.
First(events) == CHOOSE r \in events : \A s \in events : r.rule <= s.rule

\* A callback that leaves its descriptor alone and is still interested
busy_wait(o, interested) == ~ o.served /\ interested
=============================================================================
