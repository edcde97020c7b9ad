CONSTANTS Mod = 16
          Total = 7
          Capacity = 4
          Overrun = 2
SPECIFICATION FairSpec
INVARIANTS OutputIsPrefix WithinCapacity NothingLeftBehind OrderlyEndIsComplete
PROPERTY EventuallyComplete
