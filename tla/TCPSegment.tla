---------------------------- MODULE TCPSegment ------------------------------
(***************************************************************************)
(* A segment (libsponge/tcp_helpers/tcp_segment.{hh,cc}) as the sender and *)
(* the receiver see it: a record of seqno, syn, fin and the payload, a     *)
(* sequence of bytes.                                                      *)
(***************************************************************************)
EXTENDS Integers, Sequences

One(b) == IF b THEN 1 ELSE 0

length_in_sequence_space(seg) == One(seg.syn) + Len(seg.payload) + One(seg.fin)
=============================================================================
