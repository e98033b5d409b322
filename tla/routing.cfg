SPECIFICATION RoutingSpec
CONSTANTS
  Priority <- MCPriority
  MaxCommands = 3
  Catalog <- MCCatalog
  Prompts <- MCPrompts
  RuleSets <- MCRuleSets
  Model <- MCModel
INVARIANTS TypeOK EarlyHostIsGuarded  PrefixDecides
PROPERTIES DecidedIsConnected 
CHECK_DEADLOCK FALSE
