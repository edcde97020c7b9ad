------------------------- MODULE MCWrappingIntegers -------------------------
(***************************************************************************)
(* wrap(), unwrap() and the difference of sequence numbers against the     *)
(* definitions their documentation gives, for every sequence number, every *)
(* initial sequence number and a checkpoint that walks through the whole   *)
(* range of absolute sequence numbers.                                     *)
(***************************************************************************)
EXTENDS WrappingIntegers

VARIABLES n, isn, checkpoint

vars == <<n, isn, checkpoint>>

Init == n \in WrappingInt32 /\ isn \in WrappingInt32 /\ checkpoint = 0

\* The stream has moved on by one sequence number.
Advance == /\ checkpoint + 1 \in UInt64
           /\ checkpoint' = checkpoint + 1
           /\ UNCHANGED <<n, isn>>

Spec == Init /\ [][Advance]_vars

Apart(x, y) == IF x >= y THEN x - y ELSE y - x

\* The documented result of unwrap(): "the 64-bit sequence number that wraps to
\* `n` and is closest to `checkpoint`" (either one of two equally close ones).
Closest(x) == /\ x \in UInt64
              /\ wrap(x, isn) = n
              /\ \A y \in UInt64 : wrap(y, isn) = n => Apart(x, checkpoint) <= Apart(y, checkpoint)

Result == unwrap(n, isn, checkpoint)

\* The absolute number unwrap() finds always wraps back to the number it was
\* given, and it is the closest to the checkpoint unless that is in the second
\* block of 2^32 numbers, from which the code never steps down; there it is less
\* than a block off.
UnwrapIsClosest ==
  /\ wrap(Result, isn) = n
  /\ Apart(Result, checkpoint) < Mod
  /\ checkpoint \div Mod # 1 => Closest(Result)

\* operator-: the number of steps from b to a, negative when going down is the
\* shorter way or as short, and adding it to b leads back to a.
DifferenceIsShortest ==
  LET d == difference(n, isn)
  IN  /\ plus(isn, d) = n
      /\ Apart(d, 0) <= Half
      /\ d < 0 <=> (n - isn) % Mod >= (isn - n) % Mod /\ n # isn
=============================================================================
