--------------------------- MODULE PluginIndexes ---------------------------
(***************************************************************************)
(* The dispatch indexes of the plugin runtime (otto/src/plugin/            *)
(* manifests.rs): which enabled plugin owns each exclusive name, that is,  *)
(* each slash command, screen, keybinding and canonical renderer.  A       *)
(* plugin's claims are fixed by its manifest, except those of the user     *)
(* slash commands plugin, which claims a name for every command file in    *)
(* its cache.  Slots, hooks and tool summaries are shared and not indexed  *)
(* here.                                                                   *)
(***************************************************************************)
CONSTANTS
  Plugin,    \* registered plugins
  Core,      \* those whose kind is Core: they cannot be disabled
  User,      \* internal:user-slash-commands
  Name,      \* what an index has at most one owner for
  Base,      \* Base[p]: the names plugin p's manifest always claims
  NoOwner    \* the absence of an index entry

ASSUME PluginsAssumption ==
  /\ User \in Core /\ Core \subseteq Plugin
  /\ Base \in [Plugin -> SUBSET Name]
  /\ NoOwner \notin Plugin

(***************************************************************************)
(* The manifest of p while the command cache holds the files `cache'.      *)
(***************************************************************************)
Manifest(p, cache) == IF p = User THEN Base[p] \cup cache ELSE Base[p]

(***************************************************************************)
(* Indexes::build fails when a name is inserted twice, also by the same    *)
(* plugin: a command file may repeat a name of its plugin's own manifest.  *)
(***************************************************************************)
Clash(enabled, cache) ==
  \/ \E p, q \in enabled :
        p # q /\ Manifest(p, cache) \cap Manifest(q, cache) # {}
  \/ User \in enabled /\ Base[User] \cap cache # {}

Build(enabled, cache) ==
  [n \in Name |-> IF \E p \in enabled : n \in Manifest(p, cache)
                  THEN CHOOSE p \in enabled : n \in Manifest(p, cache)
                  ELSE NoOwner]

(***************************************************************************)
(* Indexes::reindex_plugin: the entries of p are removed, and its fresh    *)
(* manifest claims every name that no other plugin owns.                   *)
(***************************************************************************)
ReindexOnlyAdding(index, p, cache) ==             \* mutant: stale entries stay
  [n \in Name |-> IF index[n] # NoOwner THEN index[n]
                  ELSE IF n \in Manifest(p, cache) THEN p ELSE NoOwner]
Reindex(index, p, cache) ==
  [n \in Name |-> IF index[n] \notin {p, NoOwner} THEN index[n]
                  ELSE IF n \in Manifest(p, cache) THEN p ELSE NoOwner]

(***************************************************************************)
(* The names reindex_plugin skipped with a warning.                        *)
(***************************************************************************)
Skipped(index, p, cache) ==
  {n \in Manifest(p, cache) : index[n] \notin {p, NoOwner}}
    \cup (IF p = User THEN Base[User] \cap cache ELSE {})
=============================================================================
