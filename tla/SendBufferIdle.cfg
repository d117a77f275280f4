\* The engine as engine_add leaves it: no write events.
CONSTANTS
  Size <- TwoMessages
  WriteEvents = FALSE
SPECIFICATION FairSpec
PROPERTIES
  BufferedIsSent
CHECK_DEADLOCK FALSE
