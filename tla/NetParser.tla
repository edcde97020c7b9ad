----------------------------- MODULE NetParser ------------------------------
(***************************************************************************)
(* NetParser and NetUnparser (libsponge/util/parser.{hh,cc}): a cursor     *)
(* over a Buffer with an error that sticks, and big-endian integers.  A    *)
(* 32-bit integer is the pair of its 16-bit words.                         *)
(***************************************************************************)
EXTENDS Buffers

Parser(buffer) == [buffer |-> buffer, error |-> "NoError"]

error(p) == p.error # "NoError"

check_size(p, n) == [p EXCEPT !.error = IF n > Len(p.buffer) THEN "PacketTooShort" ELSE @]

\* remove_prefix(n) of the parser
skip(p, n) ==
  LET q == check_size(p, n) IN IF error(q) THEN q ELSE [q EXCEPT !.buffer = dropped(@, n)]

Word(buffer, i) == 256 * buffer[i] + buffer[i + 1]

Value(buffer, len) ==
  CASE len = 1 -> buffer[1]
    [] len = 2 -> Word(buffer, 1)
    [] len = 4 -> <<Word(buffer, 1), Word(buffer, 3)>>

Zero(len) == IF len = 4 THEN <<0, 0>> ELSE 0

\* _parse_int(): the value of the next `len' bytes, 0 after an error
parse_int(p, len) ==
  LET q == skip(p, len)
  IN  [value |-> IF error(q) THEN Zero(len) ELSE Value(p.buffer, len), p |-> q]

\* The values read so far and the parser behind them, with one more
with_field(read, int) == [values |-> Append(read.values, int.value), p |-> int.p]

RECURSIVE more_fields(_, _)
more_fields(read, widths) ==
  IF widths = << >> THEN read
  ELSE more_fields(with_field(read, parse_int(read.p, widths[1])), Tail(widths))

\* The values of consecutive fields of the given widths
fields(p, widths) == more_fields([values |-> << >>, p |-> p], widths)

unparse_word(w) == <<(w \div 256) % 256, w % 256>>

\* _unparse_int()
unparse_int(value, len) ==
  CASE len = 1 -> <<value % 256>>
    [] len = 2 -> unparse_word(value)
    [] len = 4 -> unparse_word(value[1]) \o unparse_word(value[2])

unparse(values, widths) == FlattenSeq([i \in DOMAIN widths |-> unparse_int(values[i], widths[i])])

\* string::resize(n)
resize(bytes, n) == [i \in 1 .. n |-> IF i <= Len(bytes) THEN bytes[i] ELSE 0]

Bit(n, k) == (n \div 2 ^ k) % 2 = 1

BitIf(b, k) == IF b THEN 2 ^ k ELSE 0
=============================================================================
