CONSTANTS Mod = 16
          Total = 3
          Capacity = 3
          Overrun = 0
SPECIFICATION Spec
INVARIANT EndedMeansComplete
