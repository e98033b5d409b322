----------------------------- MODULE MCRouting -----------------------------
(* The instance of Routing for TLC. *)
EXTENDS Routing, TLC

MCPriority == <<"anthropic", "gemini", "openai">>
M(id, tier, vision) == [id |-> id, tier |-> tier, vision |-> vision]
MCCatalog ==
  "anthropic" :> [models |-> <<M("opus", "premium", TRUE), M("haiku", "cheap", FALSE)>>,
                  standard |-> "opus",
                  aliases |-> {<<"fast", "haiku">>, <<"gemini", "opus">>}]
  @@ "gemini" :> [models |-> <<M("flash", "free", FALSE), M("pro", "standard", FALSE)>>,
                  standard |-> "flash", aliases |-> {<<"fast", "flash">>}]
  @@ "openai" :> [models |-> <<M("o3", "standard", FALSE), M("gpt", "cheap", TRUE)>>,
                  standard |-> "o3", aliases |-> {}]
MCModel == {"opus", "haiku", "o3"}

P(prefix, name, model, image, text) ==
  [prefix |-> prefix, name |-> name, model |-> model, image |-> image, text |-> text]
MCPrompts ==
  {P("pair", "gemini", "pro", TRUE, "other"), P("pair", "gemini", "opus", FALSE, "other"),
   P("word", "gemini", None, FALSE, "short"), P("word", "fast", None, TRUE, "coding"),
   P("none", None, None, TRUE, "coding"), P("none", None, None, FALSE, "short")}
MCRuleSets ==
  {<<>>,
   <<[images |-> {TRUE}, texts |-> {"coding", "short", "other"},
      use |-> Pick("gemini", "flash")],
     [images |-> {FALSE}, texts |-> {"coding"}, use |-> Pick("anthropic", "opus")]>>}
=============================================================================
