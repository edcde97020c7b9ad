---------------------------- MODULE ReceiverOps -----------------------------
(***************************************************************************)
(* TCPReceiver (libsponge/tcp_receiver.{hh,cc}) as operators on a record.  *)
(* _checkpoint is the absolute ackno.                                      *)
(***************************************************************************)
EXTENDS ReassemblerOps, TCPSegment

FreshReceiver == [reassembler |-> EmptyReassembler, isn |-> 0, is_set |-> FALSE,
                  ended |-> FALSE, checkpoint |-> 0]

\* The index of the payload in the stream; 64-bit arithmetic
stream_index(index, syn) == (index - 1 + One(syn)) % (Mod * Mod)

\* Mutant: the ackno does not skip bytes that arrived ahead.
acked_in_steps(length, index, old, re, ended_) ==
  IF index = 0 \/ index = old THEN index + length ELSE old

\* Mutant: a segment behind a gap moves the ackno as well.
acked_past_gap(length, index, old, re, ended_) == max(old, index + length)

\* _checkpoint after the segment at `index' has been pushed.
acked(length, index, old, re, ended_) ==
  IF index = 0 \/ index = old
  THEN IF index + length < left(re) + 1
       THEN left(re) + 1 + One(ended_ /\ distance(re) = 0)
       ELSE index + length
  ELSE old

isn_of(rc, seg) == IF seg.syn THEN seg.seqno ELSE rc.isn

\* segment_received(): a SYN sets the initial sequence number, every time.
segment_received(rc, capacity, seg) ==
  LET isn_   == isn_of(rc, seg)
      old    == IF seg.syn THEN 0 ELSE rc.checkpoint
      index  == unwrap(seg.seqno, isn_, old)
      re     == push_substring(rc.reassembler, capacity, seg.payload,
                               stream_index(index, seg.syn), seg.fin)
      ended_ == rc.ended \/ seg.fin
  IN  IF ~ rc.is_set /\ ~ seg.syn
      THEN rc
      ELSE [reassembler |-> re, isn |-> isn_, is_set |-> TRUE, ended |-> ended_,
            checkpoint  |-> acked(length_in_sequence_space(seg), index, old, re, ended_)]

\* Mutant: the absolute number goes into the header.
ackno_absolute(rc) == IF rc.is_set THEN rc.checkpoint ELSE -1

\* ackno(), -1 standing for nullopt
ackno(rc) == IF rc.is_set THEN wrap(rc.checkpoint, rc.isn) ELSE -1

\* Mutant: the bytes waiting to be assembled are taken off as well.
window_size_less(rc, capacity) ==
  capacity - buffer_size(rc.reassembler.output) - Cardinality(unassembled(rc.reassembler))

window_size(rc, capacity) == capacity - buffer_size(rc.reassembler.output)
=============================================================================
