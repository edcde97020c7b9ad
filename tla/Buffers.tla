------------------------------ MODULE Buffers -------------------------------
(***************************************************************************)
(* Buffer, BufferList and BufferViewList (libsponge/util/buffer.{hh,cc}).  *)
(* A Buffer is the sequence of bytes that its storage and starting offset  *)
(* leave; a BufferList and the views taken of it are a sequence of those.  *)
(***************************************************************************)
EXTENDS Integers, Sequences, SequencesExt

\* Buffer::remove_prefix(n), for n up to its size: it throws beyond
dropped(buffer, n) == SubSeq(buffer, n + 1, Len(buffer))

append(list, other) == list \o other

\* The conversion of a BufferList to a Buffer, which throws for several buffers
as_buffer(list) == IF list = << >> THEN << >> ELSE list[1]

concatenate(list) == FlattenSeq(list)

size(list) == FoldLeft(LAMBDA n, buffer : n + Len(buffer), 0, list)

\* Mutant: a buffer is discarded whole when only a part of it is to go.
RECURSIVE remove_prefix_whole(_, _)
remove_prefix_whole(list, n) ==
  IF n = 0 THEN list
  ELSE remove_prefix_whole(Tail(list), IF n < Len(list[1]) THEN 0 ELSE n - Len(list[1]))

\* BufferList::remove_prefix(n), for n up to the size of the list
RECURSIVE remove_prefix(_, _)
remove_prefix(list, n) ==
  IF n = 0 THEN list
  ELSE IF n < Len(list[1]) THEN <<dropped(list[1], n)>> \o Tail(list)
  ELSE remove_prefix(Tail(list), n - Len(list[1]))

\* BufferViewList(list): a view of each buffer, as_iovecs() in turn an iovec of each view
views(list) == [i \in DOMAIN list |-> list[i]]

\* BufferViewList::remove_prefix(n): the loop of BufferList over the views
views_remove_prefix(list, n) == remove_prefix(list, n)

views_size(list) == size(list)

\* FileDescriptor::write(buffer) with write_all: what the device has got after the
\* last writev(2), when each takes at most `most' bytes
RECURSIVE write_all(_, _)
write_all(list, most) ==
  LET written == IF views_size(list) < most THEN views_size(list) ELSE most
      after   == views_remove_prefix(list, written)
  IN  SubSeq(concatenate(list), 1, written)
        \o (IF views_size(after) = 0 THEN << >> ELSE write_all(after, most))
=============================================================================
