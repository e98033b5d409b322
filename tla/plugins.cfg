SPECIFICATION FairSpec
CONSTANTS
  Plugin <- MCPlugin
  Core <- MCCore
  User = "user"
  Hooks = "hooks"
  Wasm = {"wasm"}
  Name <- MCName
  Base <- MCBase
  NoOwner = "nobody"
  CommandFile = {"clear", "deploy"}
  ShellFile = {"deploy"}
  WasmScripts <- MCScripts
  MaxDepth = 4
  MaxCommands = 5
INVARIANTS TypeOK SubscribersAreIsolated IndexIsCoherent RestartsAlike StashIsAskedFor
PROPERTIES CommandsEnd
CHECK_DEADLOCK FALSE
