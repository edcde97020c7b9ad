CONSTANTS Mod = 16
          Total = 4
          Capacity = 3
          ISNs = {14}
          Probe = TRUE
SPECIFICATION Spec
INVARIANT AckIsHonest
