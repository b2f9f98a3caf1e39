SPECIFICATION Spec
CONSTANTS
  Byte <- ThreeBytes
  MaxLength = 15
  MaxRead = 3
  Limit = 5
  LocalLimit = 8
INVARIANT TypeOK
INVARIANT ContainerCutsExactly
INVARIANT LocalCutsExactly
INVARIANT ContainerResynchronises
INVARIANT NothingTwice
CHECK_DEADLOCK FALSE
