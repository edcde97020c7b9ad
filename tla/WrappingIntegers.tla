-------------------------- MODULE WrappingIntegers --------------------------
(***************************************************************************)
(* Sequence-number arithmetic of libsponge/wrapping_integers.{hh,cc}.      *)
(*                                                                         *)
(* Mod stands for 2^32.  A raw WrappingInt32 is a number below Mod, an     *)
(* absolute ("64-bit") sequence number a number below Mod * Mod.  The code *)
(* splits a checkpoint into its high and low 32-bit words; here they are   *)
(* its quotient and remainder by Mod.                                      *)
(***************************************************************************)
EXTENDS Integers

CONSTANT Mod

ASSUME ModAssumption == Mod \in Nat /\ Mod > 1 /\ Mod % 2 = 0

Half == Mod \div 2

WrappingInt32 == 0 .. Mod - 1

UInt64 == 0 .. Mod * Mod - 1

\* wrap(): the sum is truncated to 32 bits.
wrap(n, isn) == (n + isn) % Mod

\* Mutant: the result is not moved down when it lies too far above the checkpoint.
unwrap_never_down(n, isn, checkpoint) ==
  LET high == checkpoint \div Mod
      out  == ((n - isn) % Mod) + high * Mod
  IN  IF out < checkpoint /\ checkpoint - out > Half /\ high < Mod - 1 THEN out + Mod ELSE out

\* unwrap(): start in the checkpoint's own block of Mod numbers, then move one
\* block up or down when that brings the result within Half of the checkpoint.
\* The code moves down only when the checkpoint's block number exceeds ONE.
unwrap(n, isn, checkpoint) ==
  LET high == checkpoint \div Mod
      out  == ((n - isn) % Mod) + high * Mod
      up   == out < checkpoint /\ checkpoint - out > Half /\ high < Mod - 1
      down == out >= checkpoint /\ out - checkpoint > Half /\ high > 1
  IN  IF up THEN out + Mod ELSE IF down THEN out - Mod ELSE out

\* Mutant: the 32-bit difference is not reinterpreted as signed.
difference_unsigned(a, b) == (a - b) % Mod

\* operator-(WrappingInt32, WrappingInt32): the difference as an int32_t
difference(a, b) ==
  LET d == (a - b) % Mod IN IF d >= Half THEN d - Mod ELSE d

\* operator+(WrappingInt32, uint32_t)
plus(a, b) == (a + b) % Mod
=============================================================================
