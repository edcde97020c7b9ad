--------------------------- MODULE ReassemblerOps ---------------------------
(***************************************************************************)
(* StreamReassembler (libsponge/stream_reassembler.{hh,cc}) as operators   *)
(* on a record, so that the TCPReceiver can call them inside one step.     *)
(*                                                                         *)
(* `buffer' is a function on the indices whose _count is not zero.  The    *)
(* vectors _buffer and _count only grow; their common size after a call of *)
(* _update_size() is bytes_read() + capacity.                              *)
(***************************************************************************)
EXTENDS ByteQueue, WrappingIntegers, FiniteSets

EmptyReassembler ==
  [output |-> EmptyQueue, eofed |-> FALSE, first_unread |-> 0, first_unassembled |-> 0,
   first_unacceptable |-> 0, buffer |-> << >>]

empty(r) == r.first_unacceptable = r.first_unassembled

\* The indices unassembled_bytes() counts.
unassembled(r) == {i \in DOMAIN r.buffer : r.first_unassembled <= i /\ i < r.first_unacceptable}

\* left() and distance(), which the receiver uses
left(r) == r.first_unassembled

distance(r) == r.first_unacceptable - r.first_unassembled

\* Mutant: the byte just behind the vectors is stored as well.
taken_one_more(size, len, index) == IF index > size THEN 0 ELSE min(len, size + 1 - index)

\* How many bytes the loop of push_substring() stores before it breaks.
taken(size, len, index) == IF index >= size THEN 0 ELSE min(len, size - index)

\* _first_unacceptable after the loop: the byte at which the loop breaks has
\* already moved it, and an index just below 2^64 wraps around.
unacceptable(old, size, len, index) ==
  IF len = 0 THEN old ELSE max(old, (index + min(len, taken(size, len, index) + 1)) % (Mod * Mod))

\* Mutant: skips the bytes that are stored already, but not in the data.
store_skipping(buffer, data, index, n) ==
  [i \in DOMAIN buffer \cup (index .. index + n - 1) |->
     IF i \in DOMAIN buffer THEN buffer[i]
     ELSE data[1 + Cardinality((index .. i - 1) \ DOMAIN buffer)]]

\* The loop of push_substring(): the first n bytes of data go to their index.
store(buffer, data, index, n) ==
  [i \in DOMAIN buffer \cup (index .. index + n - 1) |->
     IF i \in index .. index + n - 1 THEN data[i - index + 1] ELSE buffer[i]]

\* Mutant: the loop of _update_output() takes at most one byte.
assembled_one(buffer, first, size) ==
  IF first \in DOMAIN buffer THEN first + 1 ELSE first

\* Where the loop of _update_output() stops: the first gap or the vectors' end.
assembled(buffer, first, size) ==
  CHOOSE n \in first .. size :
    /\ n = size \/ n \notin DOMAIN buffer
    /\ \A k \in first .. n - 1 : k \in DOMAIN buffer

\* Mutant: the stream ends with the substring that carries eof.
ended_at_once(eofed, end, first) == eofed

\* Mutant: the end is looked for behind the last byte.
ended_behind(eofed, end, first) == eofed /\ end < first

\* The condition of _update_output() for end_input()
ended(eofed, end, first) == eofed /\ end = first

\* push_substring(): resize, store, assemble, write, and end the output.
push_substring(r, capacity, data, index, eof_) ==
  LET size  == bytes_read(r.output) + capacity
      last  == unacceptable(r.first_unacceptable, size, Len(data), index)
      buf   == store(r.buffer, data, index, taken(size, Len(data), index))
      first == assembled(buf, r.first_unassembled, size)
      s     == [k \in 1 .. first - r.first_unassembled |-> buf[r.first_unassembled + k - 1]]
      out   == write(r.output, capacity, s)
  IN  [output             |-> IF ended(r.eofed \/ eof_, last, first) THEN end_input(out) ELSE out,
       eofed              |-> r.eofed \/ eof_,
       first_unread       |-> bytes_read(r.output),
       first_unassembled  |-> first,
       first_unacceptable |-> last,
       buffer             |-> buf]
=============================================================================
