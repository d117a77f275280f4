\* A direct write that takes a part of the message.
CONSTANTS
  Size <- TwoMessages
  WriteEvents = FALSE
SPECIFICATION Spec
INVARIANTS
  WithinBuffer
CHECK_DEADLOCK FALSE
