CONSTANTS Mod = 16
          Total = 4
          Capacity = 3
          ISNs = {14}
          Probe = FALSE
SPECIFICATION FairSpec
INVARIANTS AckIsHonest AlignedAckIsFirstMissing
PROPERTIES WindowNeverShrinks EventuallyComplete
