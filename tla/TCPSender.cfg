CONSTANTS Mod = 16
          Total = 4
          Capacity = 3
          PeerCapacity = 3
          MaxPayload = 2
          Timeout = 1
          MaxRetx = 1
          ISN = 14
SPECIFICATION Spec
INVARIANTS SegmentsAreHonest OrderlyWindowRespected
PROPERTIES WindowFilled StateMovesForward
