-------------------------- MODULE InternetChecksum --------------------------
(***************************************************************************)
(* InternetChecksum (libsponge/util/util.{hh,cc}).  The 32-bit sum cannot  *)
(* overflow for the 2^16 bytes a datagram may have, so it is a number.     *)
(***************************************************************************)
EXTENDS NetParser

Checksum(initial_sum) == [sum |-> initial_sum, parity |-> FALSE]

\* Mutant: every piece is summed as if it began at an even offset.
add_from_even(c, data) ==
  LET sum[i \in 0 .. Len(data)] ==
        IF i = 0 THEN c.sum ELSE sum[i - 1] + (IF i % 2 = 1 THEN 256 * data[i] ELSE data[i])
  IN  [sum |-> sum[Len(data)], parity |-> FALSE]

\* add(): the bytes are the high and the low halves of words in turn
add(c, data) ==
  LET odd(i) == (i % 2 = 0) # c.parity
      sum[i \in 0 .. Len(data)] ==
        IF i = 0 THEN c.sum ELSE sum[i - 1] + (IF odd(i) THEN data[i] ELSE 256 * data[i])
  IN  [sum |-> sum[Len(data)], parity |-> (Len(data) % 2 = 1) # c.parity]

\* The loop of value(): the carries are added back until the sum fits in 16 bits.
RECURSIVE folded(_)
folded(n) == IF n > 65535 THEN folded((n \div 65536) + (n % 65536)) ELSE n

value(c) == 65535 - folded(c.sum)
=============================================================================
