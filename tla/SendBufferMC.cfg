\* The write lists under an engine that reports writability.
CONSTANTS
  Size <- SevenMessages
  WriteEvents = TRUE
SPECIFICATION Spec
INVARIANTS
  TypeOK
  SizeIsKept
  LowNeverBegun
PROPERTIES
  ImplementsStream
\* A broken connection, or one that has sent everything, stops.
CHECK_DEADLOCK FALSE
