----------------------------- MODULE ByteQueue ------------------------------
(***************************************************************************)
(* What a ByteStream (libsponge/byte_stream.{hh,cc}) promises to the rest  *)
(* of the library: a bounded FIFO queue of bytes with a count of the bytes *)
(* popped, an end-of-input flag and an error flag.  The other components   *)
(* use these operators; module ByteStream shows that the ring buffer of    *)
(* the code implements them.                                               *)
(***************************************************************************)
EXTENDS Integers, Sequences

min(a, b) == IF a <= b THEN a ELSE b

max(a, b) == IF a >= b THEN a ELSE b

EmptyQueue == [buffer |-> << >>, popped |-> 0, ended |-> FALSE, error |-> FALSE]

buffer_size(q) == Len(q.buffer)

bytes_read(q) == q.popped

bytes_written(q) == q.popped + Len(q.buffer)

remaining_capacity(q, capacity) == capacity - Len(q.buffer)

eof(q) == q.ended /\ q.buffer = << >>

\* As many bytes as fit; none once the input has ended.
write(q, capacity, data) ==
  IF q.ended
  THEN q
  ELSE [q EXCEPT !.buffer = @ \o
          SubSeq(data, 1, min(Len(data), remaining_capacity(q, capacity)))]

peek_output(q, len) == SubSeq(q.buffer, 1, min(len, Len(q.buffer)))

pop_output(q, len) ==
  LET n == min(len, Len(q.buffer))
  IN  [buffer |-> SubSeq(q.buffer, n + 1, Len(q.buffer)), popped |-> q.popped + n,
       ended  |-> q.ended, error |-> q.error]

end_input(q) == [q EXCEPT !.ended = TRUE]

set_error(q) == [q EXCEPT !.error = TRUE]
=============================================================================
