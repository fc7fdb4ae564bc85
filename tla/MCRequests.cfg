SPECIFICATION Spec
CONSTANTS
  Names <- MCNames
  Loopback <- MCLoopback
  Ports <- MCPorts
INVARIANTS
  OnlyOwnClientsAct
  OnlyLocalNamesAreAnswered
  OwnClientsAreServed
  AnsweredOnce
CHECK_DEADLOCK FALSE
