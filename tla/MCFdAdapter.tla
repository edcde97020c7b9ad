----------------------------- MODULE MCFdAdapter ----------------------------
(***************************************************************************)
(* A server and three clients: `other' differs from `client' by the port   *)
(* only and `third' by the address only.                                   *)
(***************************************************************************)
EXTENDS FdAdapter

MCHosts == {"server", "client", "other", "third"}

MCAddressOf == [h \in MCHosts |->
  CASE h = "server" -> Address(<<169, 254, 144, 1>>, 80)
    [] h = "client" -> Address(<<169, 254, 144, 9>>, 40000)
    [] h = "other"  -> Address(<<169, 254, 144, 9>>, 40001)
    [] h = "third"  -> Address(<<169, 254, 144, 10>>, 40000)]

Seg(flags, seqno, doff, payload) ==
  [header  |-> [DefaultTCPHeader EXCEPT !.syn = "S" \in flags, !.ack = "A" \in flags, !.fin = "F" \in flags,
                                        !.rst = "R" \in flags, !.seqno = seqno, !.doff = doff,
                                        !.ackno = IF "A" \in flags THEN <<65535, 65534>> ELSE <<0, 0>>,
                                        !.win = 64000],
   payload |-> payload]

\* A SYN with options, a SYN that is also a RST, and data of odd and even length
MCSegments ==
  {Seg({"S"}, <<65535, 65535>>, 6, << >>), Seg({"S", "R"}, <<1, 2>>, 5, << >>),
   Seg({"A"}, <<32768, 255>>, 5, <<255, 0, 1>>), Seg({"A", "F"}, <<0, 0>>, 5, <<0, 0>>)}
=============================================================================
