----------------------- MODULE StreamReassemblerProofs ----------------------
(***************************************************************************)
(* The StreamReassembler is correct for every stream, capacity and order   *)
(* of substrings.                                                          *)
(***************************************************************************)
EXTENDS StreamReassembler, OperatorLemmas

\* The inductive invariant
IInv == /\ DOMAIN reassembler = DOMAIN EmptyReassembler
        /\ Assembling(reassembler, Total, Capacity)
        /\ orderly => EndIsKnown(reassembler, Total)

\* The stream is shorter than the range of 64-bit indices.
LEMMA StreamFits == Total \in Nat /\ Capacity \in Nat /\ Fits64(Total)
<1>1. Mod * Mod \in Nat
  BY ModAssumption
<1>2. Total + 1 < Mod * Mod /\ Total \in Nat
  BY ReassemblerAssumption
<1> DEFINE M == Mod * Mod
<1> HIDE DEF M
<1>3. Total < M
  BY <1>1, <1>2 DEF M
<1> QED BY <1>1, <1>3, ReassemblerAssumption DEF M, Fits64

LEMMA InitIInv == Init => IInv
BY StreamFits, EmptyAssembles DEF Init, IInv

\* A substring of the stream of the model is one.
LEMMA SubstringIs ==
  ASSUME NEW index \in 0 .. Total, NEW len \in 0 .. Total, index + len <= Total
  PROVE  IsSubstring(Substring(index, len), index, Total) /\ Len(Substring(index, len)) = len
<1>1. Substring(index, len) \in Seq(Nat) /\ Len(Substring(index, len)) = len
  BY StreamFits DEF Substring
<1>2. \A k \in 1 .. len : Substring(index, len)[k] = index + k - 1
  BY DEF Substring
<1> QED BY <1>1, <1>2, StreamFits DEF IsSubstring

LEMMA PushIInv ==
  ASSUME IInv, NEW index \in 0 .. Total, NEW len \in 0 .. Total, NEW eof_ \in BOOLEAN,
         Push(index, len, eof_)
  PROVE  IInv'
<1> DEFINE data == Substring(index, len)
<1>1. /\ index + len <= Total
      /\ len > 0 => index + len <= bytes_read(reassembler.output) + Capacity
                                     + (IF orderly THEN 1 ELSE Overrun)
      /\ eof_ => index + len = Total
      /\ orderly /\ eof_ /\ len = 0 => reassembler.first_unassembled = Total
      /\ reassembler' = push_substring(reassembler, Capacity, data, index, eof_)
      /\ orderly' = orderly
  BY DEF Push
<1>2. IsSubstring(data, index, Total) /\ Len(data) = len
  BY <1>1, SubstringIs
<1> HIDE DEF data
<1>3. DOMAIN reassembler' = DOMAIN EmptyReassembler /\ Assembling(reassembler', Total, Capacity)
  <2>1. PushOutcome(reassembler', reassembler, Total, Capacity, data, index, eof_)
    BY <1>1, <1>2, StreamFits, PushKeeps DEF IInv
  <2> QED BY ONLY <2>1, Zenon DEF PushOutcome
<1>4. ASSUME orderly PROVE EndIsKnown(reassembler', Total)
  <2>1. eof_ => OrderlyEof(reassembler, Total, Capacity, data, index)
    BY <1>1, <1>2, <1>4, StreamFits DEF OrderlyEof
  <2> QED BY <1>1, <1>2, <1>4, <2>1, StreamFits, EndStaysKnown DEF IInv
<1> QED BY <1>1, <1>3, <1>4 DEF IInv

LEMMA PopIInv == ASSUME IInv, NEW len \in 1 .. Capacity, Pop(len) PROVE IInv'
<1>1. reassembler' = ReadOut(reassembler, len) /\ orderly' = orderly
  BY DEF Pop, ReadOut
<1>2. len \in Nat
  BY StreamFits
<1>3. /\ DOMAIN reassembler' = DOMAIN EmptyReassembler /\ Assembling(reassembler', Total, Capacity)
      /\ reassembler'.eofed = reassembler.eofed
      /\ reassembler'.output.ended = reassembler.output.ended
      /\ reassembler'.first_unassembled = reassembler.first_unassembled
      /\ reassembler'.first_unacceptable = reassembler.first_unacceptable
      /\ bytes_written(reassembler'.output) = bytes_written(reassembler.output)
  BY <1>1, <1>2, StreamFits, PopKeeps DEF IInv
<1> QED BY <1>1, <1>3 DEF IInv, EndIsKnown

LEMMA StepKeeps == IInv /\ [Next]_vars => IInv'
<1> SUFFICES ASSUME IInv, [Next]_vars PROVE IInv'
  OBVIOUS
<1>1. ASSUME NEW index \in 0 .. Total, NEW len \in 0 .. Total, NEW eof_ \in BOOLEAN,
             Push(index, len, eof_)
      PROVE  IInv'
  BY <1>1, PushIInv
<1>2. ASSUME NEW len \in 1 .. Capacity, Pop(len) PROVE IInv'
  BY <1>2, PopIInv
<1>3. CASE UNCHANGED vars
  BY <1>3 DEF vars, IInv
<1> QED BY <1>1, <1>2, <1>3 DEF Next

\* The invariant holds in every behaviour.
LEMMA Invariance == Spec => []IInv
BY InitIInv, StepKeeps, PTL DEF Spec
-----------------------------------------------------------------------------
\* Whatever the order, the overlaps and the repetitions of the substrings, the
\* output is a prefix of the stream.
THEOREM Reassembly == Spec => []OutputIsPrefix
<1>1. IInv => OutputIsPrefix
  <2> SUFFICES ASSUME IInv PROVE OutputIsPrefix
    OBVIOUS
  <2>1. Assembling(reassembler, Total, Capacity)
    BY DEF IInv
  <2>2. bytes_written(reassembler.output) <= Total
    BY <2>1, StreamFits DEF Assembling, IsOutput, bytes_written
  <2>3. \A k \in 1 .. buffer_size(reassembler.output) :
          reassembler.output.buffer[k] = bytes_read(reassembler.output) + k - 1
    BY <2>1 DEF Assembling, IsOutput, buffer_size, bytes_read
  <2> QED BY <2>2, <2>3 DEF OutputIsPrefix
<1> QED BY <1>1, Invariance, PTL

\* What is assembled and what waits fit the capacity together.
THEOREM KeepsCapacity == Spec => []WithinCapacity
<1>1. IInv => WithinCapacity
  BY DEF IInv, Assembling, IsOutput, IsStored, WithinCapacity, buffer_size, unassembled
<1> QED BY <1>1, Invariance, PTL

\* Nothing that could be assembled waits.
THEOREM LeavesNothing == Spec => []NothingLeftBehind
<1>1. IInv => NothingLeftBehind
  BY DEF IInv, Assembling, NothingLeftBehind
<1> QED BY <1>1, Invariance, PTL

\* The stream of an orderly peer ends behind its last byte.
THEOREM EndsComplete == Spec => []OrderlyEndIsComplete
<1>1. IInv => OrderlyEndIsComplete
  BY DEF IInv, EndIsKnown, OrderlyEndIsComplete, Complete
<1> QED BY <1>1, Invariance, PTL
=============================================================================
