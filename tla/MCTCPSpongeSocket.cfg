CONSTANTS PipeCapacity = 1
          CopyBuffer = 3
          SendCapacity = 1
          RecvCapacity = 2
          Window = 1
          Scenarios <- MCScenarios
SPECIFICATION FairSpec
INVARIANTS RelayedInOrder EndsAfterLastByte  ThrowsAfterResetOnly LastSegmentsSent
 
CHECK_DEADLOCK FALSE
