SPECIFICATION Spec
CONSTANTS
  Priority <- MCPriority
  MaxCommands = 6
INVARIANTS TurnsAreGuarded
CHECK_DEADLOCK FALSE
