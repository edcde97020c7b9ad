CONSTANTS
  Hosts <- MCHosts
  Server = "server"
  AddressOf <- MCAddressOf
  Segments <- MCSegments
  Media = {"udp", "tun"}
SPECIFICATION Spec
INVARIANTS NothingForged PeerIsHeard HeaderDamageReported ChecksumInPieces WrittenWhole
PROPERTIES LatchesOnce
