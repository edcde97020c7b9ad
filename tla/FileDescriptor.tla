--------------------------- MODULE FileDescriptor ---------------------------
(***************************************************************************)
(* The descriptors of one process: both ends of its AF_UNIX socketpair,    *)
(* "socket" at the application and "thread_data" at the TCP thread, the    *)
(* standard streams, and the datagram adapter.  `io' is what the kernel    *)
(* holds and the flags of FileDescriptor (libsponge/util/file_descriptor.  *)
(* {hh,cc}).  A byte is its index in its stream.                           *)
(***************************************************************************)
EXTENDS ByteQueue, FiniteSets

CONSTANT PipeCapacity   \* the bytes that fit between the ends of the socketpair

ASSUME DescriptorAssumption == PipeCapacity \in Nat \ {0}

Pipe == [queue |-> << >>, shut |-> FALSE]

\* `typed' bytes will come from standard input, of which `stdin' have been read.
FreshIO(typed) ==
  [up |-> Pipe, down |-> Pipe, typed |-> typed, stdin |-> 0, stdout |-> << >>,
   datagram |-> "none", eof |-> {}, closed |-> {}]

\* poll(2) on the two directions of a descriptor.  A stream socket that is shut
\* in both directions hangs up, and stays readable and writable.
Readable(io, fd) ==
  CASE fd = "adapter"     -> io.datagram # "none"
    [] fd = "thread_data" -> io.up.queue # << >> \/ io.up.shut
    [] fd = "socket"      -> io.down.queue # << >> \/ io.down.shut
    [] fd = "stdin"       -> TRUE

Writable(io, fd) ==
  CASE fd = "thread_data" -> Len(io.down.queue) < PipeCapacity
    [] fd = "socket"      -> Len(io.up.queue) < PipeCapacity
    [] fd \in {"adapter", "stdout"} -> TRUE

HungUp(io, fd) == fd \in {"thread_data", "socket"} /\ io.up.shut /\ io.down.shut

\* read(limit) of a descriptor that is readable, and the descriptors then at eof
read(queue, limit) == SubSeq(queue, 1, min(limit, Len(queue)))

rest(queue, limit) == SubSeq(queue, min(limit, Len(queue)) + 1, Len(queue))

eof_after(io, fd, data, limit) ==
  [io EXCEPT !.eof = IF data = << >> /\ limit > 0 THEN @ \cup {fd} ELSE @]

\* write(buffer, false): how many of n bytes the kernel may take
may_write(n, room) == IF n = 0 THEN {0} ELSE 1 .. min(n, room)

\* shutdown(SHUT_WR) at one end and shutdown(SHUT_RDWR) at either
shut(pipe) == [pipe EXCEPT !.shut = TRUE]

shut_both(io) == [io EXCEPT !.up = shut(@), !.down = shut(@)]

\* What a callback leaves: its thread's objects, the kernel's, whether it counts
\* as a read or a write of its descriptor, and whether it returned at all
Outcome(local, io, served, returns) ==
  [local |-> local, io |-> io, served |-> served, returns |-> returns]

Done(local, io) == Outcome(local, io, TRUE, TRUE)
=============================================================================
