------------------------------ MODULE FdAdapter -----------------------------
(***************************************************************************)
(* Hosts whose TCP connections exchange segments through adapters over UDP *)
(* or over IPv4 on TUN devices, each adapter inside a LossyFdAdapter       *)
(* (libsponge/tcp_helpers/lossy_fd_adapter.hh).  One host listens, the     *)
(* others are its clients.  One datagram at a time is on the wire, where a *)
(* bit of it may flip; one on a TUN device may be cut short, and be read   *)
(* by a host it is not meant for.                                          *)
(***************************************************************************)
EXTENDS AdapterOps

CONSTANTS Hosts, Server, AddressOf, Segments, Media

ASSUME AdapterAssumption ==
  /\ Server \in Hosts
  /\ \A h \in Hosts, k \in Hosts : AddressOf[h] = AddressOf[k] => h = k
  /\ Media \subseteq {"udp", "tun"}

VARIABLES medium, adapter, wire, got

vars == <<medium, adapter, wire, got>>

Nothing == [none |-> TRUE]

\* The server binds any address; a client knows the server's, and its own only
\* when there is no UDP socket to know it.
FreshAdapter(h, m) ==
  IF h = Server THEN Adapter(Address(INADDR_ANY.quad, AddressOf[h].port), INADDR_ANY, TRUE)
  ELSE Adapter(IF m = "udp" THEN INADDR_ANY ELSE AddressOf[h], AddressOf[Server], FALSE)

Init == /\ medium \in Media
        /\ adapter = [h \in Hosts |-> FreshAdapter(h, medium)]
        /\ wire = Nothing
        /\ got = Nothing

\* _should_drop(): with a loss rate the random number may decide either way.
should_drop == BOOLEAN

\* LossyFdAdapter::write(): the segment may be dropped before the adapter sees it.
Write(h) ==
  /\ wire = Nothing /\ ~adapter[h].listening
  /\ \E seg \in Segments, drop \in should_drop :
       LET list == IF medium = "udp" THEN udp_write(adapter[h], seg) ELSE tun_write(adapter[h], seg)
       IN  wire' = IF drop THEN Nothing
                   ELSE [writer |-> h, seg |-> with_ports(adapter[h], seg),
                         from |-> AddressOf[h], to |-> adapter[h].destination,
                         list |-> views(list), bytes |-> concatenate(list), intact |-> TRUE]
  /\ got' = Nothing
  /\ UNCHANGED <<medium, adapter>>

\* LossyFdAdapter::read(): a segment may be dropped after the adapter has read it.
Read(h) ==
  LET r == IF medium = "udp" THEN udp_read(adapter[h], wire) ELSE tun_read(adapter[h], wire)
  IN  /\ wire # Nothing /\ wire.writer # h
      /\ medium = "udp" => wire.to = AddressOf[h]
      /\ adapter' = [adapter EXCEPT ![h] = r.adapter]
      /\ \E drop \in should_drop :
           got' = [host |-> h, seg |-> IF drop THEN Refused ELSE r.seg,
                   dropped |-> drop, written |-> wire.seg, writer |-> wire.writer,
                   to |-> wire.to, intact |-> wire.intact]
      /\ wire' = Nothing
      /\ UNCHANGED medium

Damaged(bytes) ==
  /\ wire' = [wire EXCEPT !.bytes = bytes, !.intact = FALSE]
  /\ UNCHANGED <<medium, adapter, got>>

FlipBit == /\ wire # Nothing /\ wire.intact
           /\ \E i \in DOMAIN wire.bytes, k \in 0 .. 7 :
                Damaged([wire.bytes EXCEPT ![i] = IF Bit(@, k) THEN @ - 2 ^ k ELSE @ + 2 ^ k])

CutShort == /\ medium = "tun"
            /\ wire # Nothing /\ wire.intact
            /\ \E n \in 0 .. Len(wire.bytes) - 1 : Damaged(SubSeq(wire.bytes, 1, n))

Next == \/ \E h \in Hosts : Write(h) \/ Read(h)
        \/ FlipBit
        \/ CutShort

Spec == Init /\ [][Next]_vars

\* A segment that read() returns is, bit for bit, one that the adapter's own peer
\* wrote to this host: no damage of one bit or at the end gets past the checksums
\* and lengths, and no segment of another connection past the filters.
NothingForged ==
  got # Nothing /\ got.seg # Refused =>
    /\ [got.seg EXCEPT !.header.cksum = 0] = got.written
    /\ got.to = AddressOf[got.host]
    /\ adapter[got.host].destination = AddressOf[got.writer]

\* What the peer wrote to this host arrives when nothing damages or drops it, and
\* an intact SYN makes a listening adapter listen no longer, even one that is dropped.
PeerIsHeard ==
  got # Nothing /\ got.intact /\ got.to = AddressOf[got.host] =>
    /\ opens(got.written) => ~adapter[got.host].listening
    /\ ~got.dropped /\ AddressOf[got.writer] = adapter[got.host].destination => got.seg # Refused

\* The addresses of an adapter change once, when a listening one reads a SYN that
\* is no RST; from then on its peer is the writer and its own address the one
\* the SYN was sent to.
LatchesOnce ==
  [][\A h \in Hosts : adapter'[h] # adapter[h] =>
       /\ adapter[h].listening
       /\ wire.seg.header.syn /\ ~wire.seg.header.rst
       /\ LET quad == IF medium = "tun" THEN AddressOf[h].quad ELSE adapter[h].source.quad
          IN  adapter'[h] = Adapter(Address(quad, AddressOf[h].port), AddressOf[wire.writer], FALSE)]_vars

\* IPv4Header::parse() reports every single-bit damage of the header and every
\* datagram that was cut short.
HeaderDamageReported ==
  LET header == SubSeq(concatenate(wire.list), 1, IPv4Length)
  IN  medium = "tun" /\ wire # Nothing =>
        (ipv4_header_parse(Parser(wire.bytes)).result # "NoError"
          <=> Len(wire.bytes) # size(wire.list) \/ SubSeq(wire.bytes, 1, IPv4Length) # header)

\* The checksum by its definition: the complement of the ones' complement sum of
\* the 16-bit words, an odd last byte padded with zero.
OnesComplementSum(bytes) ==
  LET word(i) == Word(bytes \o <<0>>, i)
      sum == FoldLeft(LAMBDA n, i : n + word(i), 0, [j \in 1 .. (Len(bytes) + 1) \div 2 |-> 2 * j - 1])
  IN  IF sum = 0 THEN 0 ELSE 1 + ((sum - 1) % 65535)

\* Wherever a datagram is cut in two, at odd places too, adding the pieces one
\* after the other gives the checksum of the whole.
ChecksumInPieces ==
  wire # Nothing /\ wire.intact =>
    LET whole == 65535 - OnesComplementSum(wire.bytes)
    IN  \A n \in 0 .. Len(wire.bytes) :
          value(add(add(Checksum(0), SubSeq(wire.bytes, 1, n)), dropped(wire.bytes, n))) = whole

\* However few bytes each writev(2) takes, the device gets the bytes of the list of
\* buffers in order, each once.
WrittenWhole ==
  wire # Nothing /\ wire.intact =>
    \A most \in 1 .. Len(wire.bytes) : write_all(wire.list, most) = wire.bytes
=============================================================================
