SPECIFICATION Spec
CONSTANTS
  Byte = {0, 1}
  Capacity = 3
  MaxLen = 3
  MaxBytes = 8
INVARIANTS
  CountersAgree
PROPERTIES ImplementsQueue WriteFillsRoom
