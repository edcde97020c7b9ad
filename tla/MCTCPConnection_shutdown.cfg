CONSTANTS Mod = 16
          SendCapacity = 2
          RecvCapacity = 2
          Timeout = 1
          MaxPayload = 1
          MaxRetx = 1
          ISN <- MCISN
          Scenarios <- MCScenarios
SPECIFICATION FairSpec

PROPERTY StoredAfterShutdown
CHECK_DEADLOCK FALSE
