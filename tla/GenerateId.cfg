\* Two callers, three slots (one the pipe's), ids that wrap after six.
CONSTANTS
  MAX_SOCKET = 3
  IdSpace = 6
  Callers = {c1, c2}
SPECIFICATION Spec
INVARIANTS
  TypeOK
  OwnIdIntact
  FailsOnlyWhenFull
PROPERTIES
  ImplementsSlotTable
