----------------------------- MODULE AdapterOps -----------------------------
(***************************************************************************)
(* The adapters between a TCP connection and its datagrams: over UDP       *)
(* (libsponge/tcp_helpers/fd_adapter.{hh,cc}) and over IPv4 on a TUN       *)
(* device (tcp_over_ip.cc, tuntap_adapter.hh).  An adapter is its source   *)
(* and destination Address and the listening flag.                         *)
(***************************************************************************)
EXTENDS TCPWire, IPv4Wire

\* Address(dotted quad, port) and ipv4_numeric()
Address(quad, port) == [quad |-> quad, port |-> port]

ipv4_numeric(address) == <<Word(address.quad, 1), Word(address.quad, 3)>>

\* inet_ntoa() of a numeric address
dotted_quad(numeric) == unparse_word(numeric[1]) \o unparse_word(numeric[2])

INADDR_ANY == Address(<<0, 0, 0, 0>>, 0)

Adapter(source, destination, listening) ==
  [source |-> source, destination |-> destination, listening |-> listening]

\* What a read leaves: the adapter, and the segment or nothing
Refused == [none |-> TRUE]

Returns(adapter, seg) ==
  [adapter |-> adapter, seg |-> [header |-> seg.header, payload |-> seg.payload]]

Empty(adapter) == [adapter |-> adapter, seg |-> Refused]

\* Mutant: a RST that is also a SYN opens the connection.
opens_rst(seg) == seg.header.syn

\* A segment a listening adapter takes its peer from
opens(seg) == seg.header.syn /\ ~seg.header.rst

\* TCPOverUDPSocketAdapter::read() of a datagram
udp_read(a, datagram) ==
  LET seg == segment_parse(datagram.bytes, 0)
  IN  IF ~a.listening /\ datagram.from # a.destination THEN Empty(a)
      ELSE IF seg.result # "NoError" THEN Empty(a)
      ELSE IF ~a.listening THEN Returns(a, seg)
      ELSE IF opens(seg) THEN Returns(Adapter(a.source, datagram.from, FALSE), seg)
      ELSE Empty(a)

\* Both adapters set the ports of the segment they write.
with_ports(a, seg) ==
  [seg EXCEPT !.header.sport = a.source.port, !.header.dport = a.destination.port]

udp_write(a, seg) == segment_serialize(with_ports(a, seg), 0)

\* unwrap_tcp_in_ip()
unwrap_tcp_in_ip(a, ip) ==
  LET seg  == segment_parse(as_buffer(ip.payload), pseudo_cksum(ip.header))
      next == IF ~a.listening THEN a
              ELSE Adapter(Address(dotted_quad(ip.header.dst), a.source.port),
                           Address(dotted_quad(ip.header.src), seg.header.sport), FALSE)
  IN  IF ~a.listening /\ ip.header.dst # ipv4_numeric(a.source) THEN Empty(a)
      ELSE IF ~a.listening /\ ip.header.src # ipv4_numeric(a.destination) THEN Empty(a)
      ELSE IF ip.header.proto # PROTO_TCP THEN Empty(a)
      ELSE IF seg.result # "NoError" THEN Empty(a)
      ELSE IF seg.header.dport # a.source.port THEN Empty(a)
      ELSE IF a.listening /\ ~opens(seg) THEN Empty(a)
      ELSE IF seg.header.sport # next.destination.port THEN Empty(next)
      ELSE Returns(next, seg)

\* Mutant: the segment is summed before the datagram has its length.
wrap_tcp_in_ip_early(a, seg) ==
  LET s == with_ports(a, seg)
      h == [DefaultIPv4Header EXCEPT !.src = ipv4_numeric(a.source), !.dst = ipv4_numeric(a.destination)]
  IN  [header  |-> [h EXCEPT !.len = h.hlen * 4 + s.header.doff * 4 + Len(s.payload)],
       payload |-> segment_serialize(s, pseudo_cksum(h))]

\* wrap_tcp_in_ip()
wrap_tcp_in_ip(a, seg) ==
  LET s == with_ports(a, seg)
      h == [DefaultIPv4Header EXCEPT !.src = ipv4_numeric(a.source),
                                     !.dst = ipv4_numeric(a.destination),
                                     !.len = DefaultIPv4Header.hlen * 4 + s.header.doff * 4 + Len(s.payload)]
  IN  [header |-> h, payload |-> segment_serialize(s, pseudo_cksum(h))]

\* TCPOverIPv4OverTunFdAdapter::read() and write()
tun_read(a, datagram) ==
  LET ip == datagram_parse(datagram.bytes)
  IN  IF ip.result # "NoError" THEN Empty(a) ELSE unwrap_tcp_in_ip(a, ip)

tun_write(a, seg) == datagram_serialize(wrap_tcp_in_ip(a, seg))
=============================================================================
