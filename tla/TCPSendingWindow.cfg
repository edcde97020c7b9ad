CONSTANTS Mod = 16
          ISN = 13
          RTO = 2
          MaxLen = 2
          MaxWindow = 4
          MaxSeqno = 6
          MaxRTO = 4
          MaxTick = 2
SPECIFICATION Spec
INVARIANTS SearchFindsSegment OutstandingIsInFlight
PROPERTY ResendsOldest
