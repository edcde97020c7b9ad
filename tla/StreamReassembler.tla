------------------------- MODULE StreamReassembler --------------------------
(***************************************************************************)
(* The StreamReassembler between a network that delivers substrings of a   *)
(* stream of Total bytes, out of order, overlapping and repeatedly, and a  *)
(* reader that pops the output.  The byte at offset i of the stream is i   *)
(* itself, so a misplaced, lost or repeated byte shows.                    *)
(***************************************************************************)
EXTENDS ReassemblerOps

CONSTANTS Total,       \* length of the stream
          Capacity,    \* constructor argument
          Overrun      \* how far beyond the window a substring may reach

ASSUME ReassemblerAssumption == /\ Total \in Nat
                                /\ Capacity \in Nat
                                /\ Total + 1 < Mod * Mod
                                /\ Overrun \in Nat

VARIABLES reassembler,
          orderly      \* does the peer keep to the window, probes of one byte
                       \* aside, and an empty eof not overtake data?

vars == <<reassembler, orderly>>

Substring(index, len) == [k \in 1 .. len |-> index + k - 1]

Init == reassembler = EmptyReassembler /\ orderly \in BOOLEAN

\* push_substring() with a substring that really is one of the stream, eof
\* included.
Push(index, len, eof_) ==
  /\ index + len <= Total
  /\ len > 0 => index + len <= bytes_read(reassembler.output) + Capacity
                                 + (IF orderly THEN 1 ELSE Overrun)
  /\ eof_ => index + len = Total
  /\ orderly /\ eof_ /\ len = 0 => reassembler.first_unassembled = Total
  /\ reassembler' = push_substring(reassembler, Capacity, Substring(index, len), index, eof_)
  /\ UNCHANGED orderly

\* The reader pops from stream_out().
Pop(len) == /\ reassembler' = [reassembler EXCEPT !.output = pop_output(@, len)]
            /\ UNCHANGED orderly

Next == \/ \E index \in 0 .. Total, len \in 0 .. Total, eof_ \in BOOLEAN : Push(index, len, eof_)
        \/ \E len \in 1 .. Capacity : Pop(len)

\* The sender repeats the oldest unacknowledged bytes until they arrive.
PushOldest == \E len \in 0 .. Total, eof_ \in BOOLEAN :
                /\ len > 0 \/ eof_
                /\ Push(reassembler.first_unassembled, len, eof_)

Spec == Init /\ [][Next]_vars

FairSpec == Spec /\ WF_vars(PushOldest) /\ WF_vars(\E len \in 1 .. Capacity : Pop(len))
-----------------------------------------------------------------------------
\* The output is a prefix of the stream: whatever the order, the overlaps and
\* the repetitions, byte k of stream_out() is byte k of the stream.
OutputIsPrefix ==
  LET out == reassembler.output
  IN  /\ bytes_written(out) <= Total
      /\ \A k \in 1 .. buffer_size(out) : out.buffer[k] = bytes_read(out) + k - 1

\* stream_reassembler.hh: the capacity "limits both the bytes that have been
\* reassembled, and those that have not yet been reassembled".
WithinCapacity ==
  /\ buffer_size(reassembler.output) <= Capacity
  /\ \A i \in unassembled(reassembler) : i < bytes_read(reassembler.output) + Capacity

\* _update_output() leaves nothing behind that could be assembled: the byte at
\* _first_unassembled is never stored, and what has been assembled has been
\* written to the output unless the output had been closed.
NothingLeftBehind ==
  /\ reassembler.first_unassembled \notin DOMAIN reassembler.buffer
  /\ ~ reassembler.output.ended => bytes_written(reassembler.output) = reassembler.first_unassembled

Complete == bytes_written(reassembler.output) = Total

\* stream_reassembler.hh: "eof the last byte of `data` will be the last byte in
\* the entire stream": whatever arrives, the output ends only after that byte.
EndedMeansComplete == reassembler.output.ended => Complete

\* From an orderly peer, whatever the order of its substrings, the output ends
\* only after the last byte.
OrderlyEndIsComplete == orderly /\ reassembler.output.ended => Complete

\* When every substring of an orderly peer is eventually repeated and the reader
\* keeps reading, the reader reaches the end of the whole stream.
EventuallyComplete ==
  orderly ~> (eof(reassembler.output) /\ bytes_read(reassembler.output) = Total)
=============================================================================
