----------------------------- MODULE ByteStream -----------------------------
(***************************************************************************)
(* The ring buffer of libsponge/byte_stream.{hh,cc}.  One slot more than   *)
(* the capacity tells a full ring from an empty one.                       *)
(***************************************************************************)
EXTENDS Integers, Sequences

CONSTANTS Byte,        \* the byte values; 0 fills a fresh vector
          Capacity,    \* constructor argument
          MaxLen,      \* bound on the length of one write or read
          MaxBytes     \* bound on bytes_written

ASSUME StreamAssumption == /\ 0 \in Byte
                           /\ Capacity \in Nat
                           /\ MaxLen \in Nat
                           /\ MaxBytes \in Nat

VARIABLES channel, read_index, write_index, bytes_read, bytes_written,
          end_flag, error,
          output       \* the string the last peek_output() or read() returned

vars == <<channel, read_index, write_index, bytes_read, bytes_written,
          end_flag, error, output>>

Slots == Capacity + 1

Data == UNION {[1 .. n -> Byte] : n \in 0 .. MaxLen}

next_index_of(index, step) == (index + (step % Slots)) % Slots

buffer_size == (Slots + write_index - read_index) % Slots

\* Mutant: the ring counts as full one byte too early.
FullAt_early(w) == next_index_of(w, 1) = read_index \/ next_index_of(w, 2) = read_index

\* _buffer_full() once the write index has moved to w
FullAt(w) == next_index_of(w, 1) = read_index

\* How often the loop of write() runs: until the data or the room is used up.
Accepted(data) ==
  CHOOSE n \in 0 .. Len(data) :
    /\ n = Len(data) \/ FullAt(next_index_of(write_index, n))
    /\ \A k \in 0 .. n - 1 : ~ FullAt(next_index_of(write_index, k))

\* How often the loop of peek_output() runs: until `len' bytes or the write index.
Peeked(len) ==
  CHOOSE n \in 0 .. len :
    /\ n = len \/ next_index_of(read_index, n) = write_index
    /\ \A k \in 0 .. n - 1 : next_index_of(read_index, k) # write_index

peek_output(len) ==
  [k \in 1 .. Peeked(len) |-> channel[next_index_of(read_index, k - 1)]]

\* Mutant: pop_output() trusts the length it is given.
pop_len_unclamped(len) == len

pop_len(len) == IF len <= buffer_size THEN len ELSE buffer_size

Init == /\ channel = [i \in 0 .. Capacity |-> 0]
        /\ read_index = 0
        /\ write_index = 0
        /\ bytes_read = 0
        /\ bytes_written = 0
        /\ end_flag = FALSE
        /\ error = FALSE
        /\ output = << >>

\* Mutant: a write() after end_input() is not refused.
Write_after_end(data) ==
  /\ bytes_written + Len(data) <= MaxBytes
  /\ LET n == Accepted(data)
     IN  /\ channel' = [i \in 0 .. Capacity |->
              LET k == (i - write_index) % Slots
              IN  IF k < n THEN data[k + 1] ELSE channel[i]]
         /\ write_index' = next_index_of(write_index, n)
         /\ bytes_written' = bytes_written + n
  /\ UNCHANGED <<read_index, bytes_read, end_flag, error, output>>

\* write(): refused after end_input(), otherwise byte by byte into the ring.
Write(data) ==
  /\ bytes_written + Len(data) <= MaxBytes
  /\ LET n == IF end_flag THEN 0 ELSE Accepted(data)
     IN  /\ channel' = [i \in 0 .. Capacity |->
              LET k == (i - write_index) % Slots
              IN  IF k < n THEN data[k + 1] ELSE channel[i]]
         /\ write_index' = next_index_of(write_index, n)
         /\ bytes_written' = bytes_written + n
  /\ UNCHANGED <<read_index, bytes_read, end_flag, error, output>>

PeekOutput(len) ==
  /\ output' = peek_output(len)
  /\ UNCHANGED <<channel, read_index, write_index, bytes_read, bytes_written, end_flag, error>>

PopOutput(len) ==
  /\ read_index' = next_index_of(read_index, pop_len(len))
  /\ bytes_read' = bytes_read + pop_len(len)
  /\ UNCHANGED <<channel, write_index, bytes_written, end_flag, error, output>>

\* read(): peek, then pop the same number of bytes.
Read(len) ==
  /\ output' = peek_output(len)
  /\ read_index' = next_index_of(read_index, pop_len(len))
  /\ bytes_read' = bytes_read + pop_len(len)
  /\ UNCHANGED <<channel, write_index, bytes_written, end_flag, error>>

EndInput ==
  /\ end_flag' = TRUE
  /\ UNCHANGED <<channel, read_index, write_index, bytes_read, bytes_written, error, output>>

SetError ==
  /\ error' = TRUE
  /\ UNCHANGED <<channel, read_index, write_index, bytes_read, bytes_written, end_flag, output>>

Next == \/ \E data \in Data : Write(data)
        \/ \E len \in 0 .. MaxLen : PeekOutput(len)
        \/ \E len \in 0 .. MaxLen : PopOutput(len)
        \/ \E len \in 0 .. MaxLen : Read(len)
        \/ EndInput
        \/ SetError

Spec == Init /\ [][Next]_vars
-----------------------------------------------------------------------------
\* Every variable stays in its type: the indices inside the ring, and the
\* counters never below zero.
TypeOK ==
  /\ channel \in [0 .. Capacity -> Byte]
  /\ read_index \in 0 .. Capacity
  /\ write_index \in 0 .. Capacity
  /\ bytes_read \in Nat
  /\ bytes_written \in Nat
  /\ end_flag \in BOOLEAN
  /\ error \in BOOLEAN
  /\ output \in Seq(Byte)

\* The two byte counters, kept separately from the two ring indices by write()
\* and pop_output(), always agree with them: the difference of the counters is
\* the number of bytes buffer_size() computes from the indices.
CountersAgree == bytes_written - bytes_read = buffer_size

\* write() accepts every byte there is room for, and none once the input has
\* ended: the loop over the ring neither stops early nor overtakes the reader.
WriteFillsRoom ==
  [][\A data \in Data : Write(data) =>
       bytes_written' - bytes_written =
         IF end_flag THEN 0
         ELSE IF Len(data) <= Capacity - buffer_size THEN Len(data) ELSE Capacity - buffer_size]_vars

\* The queue the ring stands for.
Queue == [buffer |-> [k \in 1 .. buffer_size |-> channel[next_index_of(read_index, k - 1)]],
          popped |-> bytes_read,
          ended  |-> end_flag,
          error  |-> error]

Abstract == INSTANCE ByteQueueSpec WITH queue <- Queue

\* Every write, peek, pop and read of the ring buffer does what the bounded
\* FIFO queue of ByteQueueSpec does: no byte is lost, duplicated or reordered
\* when an index passes the end of the ring, and nothing is added after
\* end_input().
ImplementsQueue == Abstract!Spec
=============================================================================
