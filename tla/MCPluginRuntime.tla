-------------------------- MODULE MCPluginRuntime --------------------------
EXTENDS PluginRuntime

MCPlugin == {"user", "hooks", "core", "clear", "wasm"}
MCCore == {"user", "hooks", "core"}
MCName == {"reload-commands", "trust.modal", "plugins", "plugins.manager",
           "save", "clear", "run", "deploy"}
MCBase == [p \in MCPlugin |->
  CASE p = "user" -> {"reload-commands", "trust.modal"}
    [] p = "core" -> {"plugins", "plugins.manager", "save"}
    [] p = "clear" -> {"clear"}
    [] p = "wasm" -> {"run"}
    [] OTHER -> {}]
MCScripts == {<<>>, <<Run("run"), Run("deploy")>>,
              <<Run("save"), Open(NoName)>>}
=============================================================================
