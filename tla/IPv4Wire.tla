------------------------------ MODULE IPv4Wire ------------------------------
(***************************************************************************)
(* Parsing and serialising of an IPv4 datagram (libsponge/tcp_helpers/     *)
(* ipv4_header.{hh,cc} and ipv4_datagram.{hh,cc}).                         *)
(***************************************************************************)
EXTENDS InternetChecksum

IPv4Length == 20   \* IPv4Header::LENGTH
PROTO_TCP == 6

IPv4Widths == <<1, 1, 2, 2, 2, 1, 1, 2, 4, 4>>

DefaultIPv4Header ==
  [ver |-> 4, hlen |-> IPv4Length \div 4, tos |-> 0, len |-> 0, id |-> 0, df |-> TRUE, mf |-> FALSE,
   offset |-> 0, ttl |-> 128, proto |-> PROTO_TCP, cksum |-> 0, src |-> <<0, 0>>, dst |-> <<0, 0>>]

\* payload_length(), a uint16_t
payload_length(h) == (h.len - 4 * h.hlen) % 65536

\* pseudo_cksum(): the sum of the 16-bit words of the pseudo-header
pseudo_cksum(h) == h.src[1] + h.src[2] + h.dst[1] + h.dst[2] + h.proto + payload_length(h)

\* The header that a buffer of at least 20 bytes holds, as its fields were read
header_of(v) ==
  [ver |-> v[1] \div 16, hlen |-> v[1] % 16, tos |-> v[2], len |-> v[3], id |-> v[4],
   df |-> Bit(v[5], 14), mf |-> Bit(v[5], 13), offset |-> v[5] % 8192,
   ttl |-> v[6], proto |-> v[7], cksum |-> v[8], src |-> v[9], dst |-> v[10]]

\* Mutant: the checksum covers the fields up to the addresses.
header_checksum_partial(original, hlen) == value(add(Checksum(0), SubSeq(original, 1, 4 * hlen - 8)))

header_checksum(original, hlen) == value(add(Checksum(0), SubSeq(original, 1, 4 * hlen)))

\* The checks that follow the fields, which return without moving the parser p
\* beyond the first 20 bytes of the original, and those that follow the options
checked_header(original, p, h) ==
  LET n == Len(original)
      q == skip(p, h.hlen * 4 - IPv4Length)
      Return(parser, result) == [header |-> h, p |-> parser, result |-> result]
  IN  IF n < 4 * h.hlen THEN Return(p, "PacketTooShort")
      ELSE IF h.ver # 4 THEN Return(p, "WrongIPVersion")
      ELSE IF h.hlen < 5 THEN Return(p, "HeaderTooShort")
      ELSE IF n # h.len THEN Return(p, "TruncatedPacket")
      ELSE IF error(q) THEN Return(q, q.error)
      ELSE IF header_checksum(original, h.hlen) # 0 THEN Return(q, "BadChecksum")
      ELSE Return(q, "NoError")

\* IPv4Header::parse()
ipv4_header_parse(p) ==
  LET f == fields(p, IPv4Widths)
  IN  IF Len(p.buffer) < IPv4Length
      THEN [header |-> DefaultIPv4Header, p |-> p, result |-> "PacketTooShort"]
      ELSE checked_header(p.buffer, f.p, header_of(f.values))

\* IPv4Header::serialize(), which throws for another version or a short header
ipv4_header_serialize(h) ==
  resize(unparse(<<h.ver * 16 + (h.hlen % 16), h.tos, h.len, h.id,
                   BitIf(h.df, 14) + BitIf(h.mf, 13) + (h.offset % 8192),
                   h.ttl, h.proto, h.cksum, h.src, h.dst>>, IPv4Widths), 4 * h.hlen)

\* IPv4Datagram::parse().  Here too what the header's parse() returned is not looked at.
datagram_parse(buffer) ==
  LET parsed == ipv4_header_parse(Parser(buffer))
  IN  [header  |-> parsed.header,
       payload |-> <<parsed.p.buffer>>,
       result  |-> IF Len(parsed.p.buffer) # payload_length(parsed.header) THEN "PacketTooShort"
                   ELSE parsed.p.error]

\* IPv4Datagram::serialize(): nothing reaches the device when it throws
datagram_serialize(dgram) ==
  LET zeroed == [dgram.header EXCEPT !.cksum = 0]
      sum    == value(add(Checksum(0), ipv4_header_serialize(zeroed)))
  IN  IF size(dgram.payload) # payload_length(dgram.header) THEN << >>
      ELSE append(<<ipv4_header_serialize([zeroed EXCEPT !.cksum = sum])>>, dgram.payload)
=============================================================================
