SPECIFICATION Spec
CONSTANTS
  MAXTOKENLEN = 6
  IADDR_SIZE = 52
  DADDR_SIZE = 5
  MAXINT = 120
  Input <- MCInput
INVARIANTS
  TypeOK
  TokensRecovered
  RejectsExactly
  StructureKept
  CodeHasNoHoles
  RunsFollowProgram
PROPERTIES
  OperandsStayApart
  RunsStop
CHECK_DEADLOCK FALSE
