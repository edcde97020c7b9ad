------------------------------ MODULE TCPWire -------------------------------
(***************************************************************************)
(* Parsing and serialising of a TCP segment (libsponge/tcp_helpers/        *)
(* tcp_header.{hh,cc} and tcp_segment.{hh,cc}).                            *)
(***************************************************************************)
EXTENDS InternetChecksum

TCPLength == 20   \* TCPHeader::LENGTH

TCPWidths == <<2, 2, 4, 4, 1, 1, 2, 2, 2>>

DefaultTCPHeader ==
  [sport |-> 0, dport |-> 0, seqno |-> <<0, 0>>, ackno |-> <<0, 0>>, doff |-> TCPLength \div 4,
   urg |-> FALSE, ack |-> FALSE, psh |-> FALSE, rst |-> FALSE, syn |-> FALSE, fin |-> FALSE,
   win |-> 0, cksum |-> 0, uptr |-> 0]

\* The header whose fields were read
tcp_header_of(v) ==
  [sport |-> v[1], dport |-> v[2], seqno |-> v[3], ackno |-> v[4], doff |-> v[5] \div 16,
   urg |-> Bit(v[6], 5), ack |-> Bit(v[6], 4), psh |-> Bit(v[6], 3),
   rst |-> Bit(v[6], 2), syn |-> Bit(v[6], 1), fin |-> Bit(v[6], 0),
   win |-> v[7], cksum |-> v[8], uptr |-> v[9]]

\* The options are skipped unless the header claims to be shorter than its fields.
skip_options(p, h) ==
  LET q == skip(p, h.doff * 4 - TCPLength)
  IN  IF h.doff < 5 THEN [header |-> h, p |-> p, result |-> "HeaderTooShort"]
      ELSE [header |-> h, p |-> q, result |-> q.error]

\* TCPHeader::parse(): the header, the parser behind it, and the result
tcp_header_parse(p) ==
  LET f == fields(p, TCPWidths) IN skip_options(f.p, tcp_header_of(f.values))

\* TCPHeader::serialize(), which throws for a doff below 5
tcp_header_serialize(h) ==
  LET flags == BitIf(h.urg, 5) + BitIf(h.ack, 4) + BitIf(h.psh, 3)
                 + BitIf(h.rst, 2) + BitIf(h.syn, 1) + BitIf(h.fin, 0)
  IN  resize(unparse(<<h.sport, h.dport, h.seqno, h.ackno, h.doff * 16, flags,
                       h.win, h.cksum, h.uptr>>, TCPWidths), 4 * h.doff)

\* Mutant: the checksum is not verified.
segment_parse_unchecked(buffer, datagram_layer_checksum) ==
  LET parsed == tcp_header_parse(Parser(buffer))
  IN  [header |-> parsed.header, payload |-> parsed.p.buffer, result |-> parsed.p.error]

\* TCPSegment::parse().  The result is the parser's error; what TCPHeader::parse()
\* returned is not looked at.
segment_parse(buffer, datagram_layer_checksum) ==
  LET parsed == tcp_header_parse(Parser(buffer))
  IN  IF value(add(Checksum(datagram_layer_checksum), buffer)) # 0
      THEN [header |-> DefaultTCPHeader, payload |-> << >>, result |-> "BadChecksum"]
      ELSE [header |-> parsed.header, payload |-> parsed.p.buffer, result |-> parsed.p.error]

\* TCPSegment::serialize()
segment_serialize(seg, datagram_layer_checksum) ==
  LET zeroed == [seg.header EXCEPT !.cksum = 0]
      summed == add(add(Checksum(datagram_layer_checksum), tcp_header_serialize(zeroed)), seg.payload)
  IN  append(<<tcp_header_serialize([zeroed EXCEPT !.cksum = value(summed)])>>, <<seg.payload>>)
=============================================================================
