--------------------------- MODULE PluginRuntime ---------------------------
(***************************************************************************)
(* The plugin runtime of the TUI: the registry of enabled plugins, the     *)
(* dispatch indexes, and apply_effects (otto/src/plugin/effects.rs), which *)
(* runs the effects that slash commands, screens and hook subscribers      *)
(* return.  An effect may run a slash command or dispatch a host event, so *)
(* the calls of apply_effects nest; `stack' holds the ones under way, the  *)
(* innermost first.  The event loop starts one command at a time.          *)
(*                                                                         *)
(* A Stack effect runs its children where it stands and is written out in  *)
(* place.  Effects that only touch the display are left out.               *)
(***************************************************************************)
EXTENDS PluginIndexes, Integers, Sequences, FiniteSets, FiniteSetsExt,
        SequencesExt

CONSTANTS
  CommandFile,   \* names a command file can have
  ShellFile,     \* those whose template runs a shell command
  Hooks,         \* internal:user-hooks
  Wasm,          \* external plugins
  WasmScripts,   \* what a handler of an external plugin may return
  MaxDepth,      \* MAX_DISPATCH_DEPTH
  MaxCommands    \* bound: what the user does in a session

Optional == Plugin \ Core
NoName == "no name"

Effect(op, of) == [op |-> op, of |-> of, on |-> FALSE]
Run(n) == Effect("run", n)
Open(s) == Effect("open", s)

(***************************************************************************)
(* The effects a WIT component can return that do more than draw           *)
(* (effect_from_wit): of all others the interface has no case.             *)
(***************************************************************************)
WasmEffects == {Effect(op, n) : op \in {"run", "open", "save"},
                                n \in Name \cup {NoName}}

ASSUME RuntimeAssumption ==
  /\ IsFiniteSet(Plugin)
  /\ "reload-commands" \in Base[User] /\ "trust.modal" \in Base[User]
  /\ CommandFile \subseteq Name /\ ShellFile \subseteq CommandFile
  /\ Hooks \in Core /\ Wasm \subseteq Plugin \ Core
  /\ WasmScripts \subseteq Seq(WasmEffects)
  /\ MaxDepth \in Nat \ {0} /\ MaxCommands \in Nat

VARIABLES
  enabled,   \* PluginRegistry::enabled
  cache,     \* the user commands plugin's index of command files
  index,     \* Indexes: the owner of each exclusive name
  files,     \* the command files on disk
  disk,      \* plugins.toml: the Optional plugins saved as enabled
  screens,   \* App::screen_stack, the top last
  trust,     \* App::trust_levels[project_root]
  remembered,\* the trust file says "always"
  stash,     \* App::pending_slash_after_trust, or NoName
  stack,     \* the calls of apply_effects under way
  prompt,    \* what became of the last prompt: "none", "hooks" or "turn"
  prefix,    \* App::pending_prompt_prefix is set
  block,     \* App::pending_turn_cancellation: "no", or the hook that set it
  running,   \* the process is up: it panics when a start finds a clash
  skipped,   \* the last reindex skipped a name (history variable)
  unsaved,   \* the last write of plugins.toml failed (history variable)
  astray,    \* a refused toggle changed the registry (history variable)
  lost,      \* a subscriber's effects were dropped unseen (history variable)
  commands   \* commands given so far

flags == <<skipped, unsaved, astray>>
registry == <<enabled, cache, index, files, disk, flags>>
trusting == <<trust, remembered, stash>>
verdict == <<prefix, block>>
session == <<screens, trusting, verdict>>
loop == <<prompt, running, commands>>
vars == <<registry, session, stack, loop, lost>>

(***************************************************************************)
(* One call of apply_effects_with_depth.  An error stops it, and its       *)
(* caller too unless the caller contains it: the event loop does, and so   *)
(* do dispatch_host_event for each batch and SetTrustLevel.  `fresh' marks *)
(* a subscriber's batch of which nothing has been applied yet.             *)
(***************************************************************************)
Frame(effects, depth, contain) ==
  [effects |-> effects, depth |-> depth, contain |-> contain, fresh |-> FALSE]
BatchUncontained(effects, depth) ==               \* mutant: nobody catches errors
  [Frame(effects, depth, FALSE) EXCEPT !.fresh = effects # <<>>]
Batch(effects, depth) ==
  [Frame(effects, depth, TRUE) EXCEPT !.fresh = effects # <<>>]

Settle(s) ==
  LET live == {i \in DOMAIN s : s[i].effects # <<>>}
  IN  IF live = {} THEN <<>> ELSE SubSeq(s, Min(live), Len(s))

Top == Head(stack)
Effects == Top.effects
Doing(op) == stack # <<>> /\ Head(Effects).op = op
Subject == Head(Effects).of
Caller == <<[Top EXCEPT !.effects = Tail(@), !.fresh = FALSE]>> \o Tail(stack)

Return == stack' = Settle(Caller) /\ lost' = lost
Call(frames) == stack' = Settle(frames \o Caller) /\ lost' = lost
FailAndRetry == stack' = stack /\ lost' = lost   \* mutant: tried once more
Fail ==
  LET wall == Min({i \in DOMAIN Caller : Caller[i].contain \/ i = Len(Caller)})
  IN  /\ stack' = Settle(SubSeq(Caller, wall + 1, Len(Caller)))
      /\ lost' = (lost \/ \E i \in 1..wall : Caller[i].fresh)

Known(n) == n \in Name /\ index[n] # NoOwner

(***************************************************************************)
(* What a plugin's handlers return: handle_slash of the owner of n, and    *)
(* on_event of a subscriber.  An event handler that fails is skipped, as   *)
(* if it returned nothing.                                                 *)
(***************************************************************************)
UserCommand(n) ==
  IF n = "reload-commands" THEN <<Effect("reindex", User)>>
  ELSE IF n \in cache \cap ShellFile /\ trust = "unset"
       THEN <<Effect("stash", n), Open("trust.modal")>>
  ELSE <<>>          \* a note, or a PromptSend, which submit_prompt ignores

Answers(n) ==
  CASE index[n] = User -> {UserCommand(n)}
    [] index[n] \in Wasm -> WasmScripts
    [] n = "save" -> {<<Effect("save", n)>>}
    [] n = "plugins" -> {<<Open("plugins.manager")>>}
    [] OTHER -> {<<>>}

Reactions(p, event) ==
  IF p \in Wasm THEN WasmScripts
  ELSE CASE event = "prompt" -> {<<>>, <<Effect("prefix", p)>>,
                                 <<Effect("block", "prompt")>>,
                                 <<Effect("prefix", p),
                                   Effect("block", "prompt")>>}
         [] event = "end" -> {<<>>, <<Effect("block", "stop")>>}
         [] OTHER -> {<<>>}

Subscribers == enabled \cap (Wasm \cup {Hooks})
AllReactions(event) == UNION {Reactions(p, event) : p \in Subscribers}

(***************************************************************************)
(* dispatch_host_event: every subscriber's handler runs first, in an       *)
(* arbitrary order (the registry is a hash map), then their batches are    *)
(* applied, each one contained.                                            *)
(***************************************************************************)
Dispatches(event, depth) ==
  {[i \in DOMAIN order |-> Batch(reaction[order[i]], depth)] :
     order \in SetToSeqs(Subscribers),
     reaction \in {r \in [Subscribers -> AllReactions(event)] :
                     \A p \in Subscribers : r[p] \in Reactions(p, event)}}

Idle == stack = <<>> /\ running

Init ==
  /\ files \in SUBSET CommandFile /\ cache = files
  /\ disk \in SUBSET Optional
  /\ enabled = Core \cup disk
  /\ ~Clash(enabled, cache)
  /\ index = Build(enabled, cache)
  /\ screens = <<>> /\ stash = NoName
  /\ remembered \in BOOLEAN
  /\ trust = IF remembered THEN "always" ELSE "unset"
  /\ stack = <<>> /\ prompt = "none" /\ prefix = FALSE /\ block = "no"
  /\ running = TRUE
  /\ skipped = FALSE /\ unsaved = FALSE /\ astray = FALSE /\ lost = FALSE
  /\ commands = 0

(***************************************************************************)
(* The effects, one action each.                                           *)
(***************************************************************************)
RunSlashUnlimited ==                              \* mutant: no depth limit
  /\ Doing("run")
  /\ IF ~Known(Subject)
     THEN Fail /\ UNCHANGED cache
     ELSE /\ cache' = IF Subject = "reload-commands" THEN files ELSE cache
          /\ \E effects \in Answers(Subject) :
                Call(<<Frame(effects, Top.depth + 1, FALSE)>>)
  /\ UNCHANGED <<enabled, index, files, disk, flags, session, loop>>
RunSlash ==
  /\ Doing("run")
  /\ IF Top.depth >= MaxDepth \/ ~Known(Subject)
     THEN Fail /\ UNCHANGED cache
     ELSE /\ cache' = IF Subject = "reload-commands" THEN files ELSE cache
          /\ \E effects \in Answers(Subject) :
                Call(<<Frame(effects, Top.depth + 1, FALSE)>>)
  /\ UNCHANGED <<enabled, index, files, disk, flags, session, loop>>

OpenScreen ==
  /\ Doing("open")
  /\ IF Known(Subject)
     THEN /\ Return
          /\ screens' = Append(screens, [id |-> Subject, rows |-> enabled])
     ELSE Fail /\ UNCHANGED screens
  /\ UNCHANGED <<registry, trusting, verdict, loop>>

CloseScreen ==
  /\ Doing("close") /\ Return
  /\ screens' = IF screens = <<>> THEN screens ELSE Front(screens)
  /\ UNCHANGED <<registry, trusting, verdict, loop>>

(***************************************************************************)
(* The saved event is dispatched one level deeper; beyond the limit it is  *)
(* refused, and its failure is only logged.                                *)
(***************************************************************************)
SaveTranscript ==
  /\ Doing("save")
  /\ IF Top.depth + 1 >= MaxDepth
     THEN Return
     ELSE \E batches \in Dispatches("saved", Top.depth + 1) : Call(batches)
  /\ UNCHANGED <<registry, session, loop>>

ReindexPlugin ==
  /\ Doing("reindex") /\ Return
  /\ index' = Reindex(index, Subject, cache)
  /\ skipped' = (Skipped(index, Subject, cache) # {})
  /\ UNCHANGED <<enabled, cache, files, disk, unsaved, astray, session, loop>>

(***************************************************************************)
(* apply_toggle_plugin: the registry is changed first.  When the indexes   *)
(* cannot be rebuilt it is set to the opposite of what was asked for, and  *)
(* nothing is saved; otherwise the new indexes are installed and the       *)
(* enabled Optional plugins are saved, which may fail.  A Core plugin, or  *)
(* one that is not registered, is refused before that.                     *)
(***************************************************************************)
SetEnabled(p, on) == IF on THEN enabled \cup {p} ELSE enabled \ {p}

ToggleSavedFirst(p, on) ==                        \* mutant: saved, then refused
  LET asked == SetEnabled(p, on) IN
  /\ disk' = asked \ Core /\ unsaved' = FALSE
  /\ IF Clash(asked, cache)
     THEN /\ enabled' = SetEnabled(p, ~on) /\ astray' = (astray \/ enabled' # enabled)
          /\ UNCHANGED <<index, skipped>>
     ELSE /\ enabled' = asked /\ index' = Build(asked, cache)
          /\ skipped' = FALSE /\ astray' = FALSE
Toggle(p, on) ==
  LET asked == SetEnabled(p, on) IN
  IF Clash(asked, cache)
  THEN /\ enabled' = SetEnabled(p, ~on)
       /\ astray' = (astray \/ enabled' # enabled)
       /\ UNCHANGED <<index, disk, skipped, unsaved>>
  ELSE /\ enabled' = asked
       /\ index' = Build(asked, cache)
       /\ skipped' = FALSE /\ astray' = FALSE
       /\ \/ disk' = asked \ Core /\ unsaved' = FALSE
          \/ disk' = disk /\ unsaved' = TRUE

TogglePlugin ==
  /\ Doing("toggle") /\ Return
  /\ IF Subject \in Optional
     THEN Toggle(Subject, Head(Effects).on)
     ELSE UNCHANGED <<enabled, index, disk, flags>>
  /\ UNCHANGED <<cache, files, session, loop>>

StashPendingSlash ==
  /\ Doing("stash") /\ Return
  /\ stash' = Subject
  /\ UNCHANGED <<registry, screens, trust, remembered, verdict, loop>>

(***************************************************************************)
(* A decision takes the stashed command and runs it, unless that would be  *)
(* too deep; a cancelled one drops it and forgets the project.             *)
(***************************************************************************)
SetTrustLevelKeepingStash ==                      \* mutant: kept when cancelled
  /\ Doing("trust")
  /\ trust' = IF Subject = "cancelled" THEN "unset" ELSE Subject
  /\ remembered' \in {remembered} \cup {TRUE : s \in {Subject} \cap {"always"}}
  /\ stash' = IF Subject = "cancelled" THEN stash ELSE NoName
  /\ IF Subject # "cancelled" /\ stash # NoName /\ Top.depth + 1 < MaxDepth
     THEN Call(<<Frame(<<Run(stash)>>, Top.depth + 1, TRUE)>>)
     ELSE Return
  /\ UNCHANGED <<registry, screens, verdict, loop>>
SetTrustLevel ==
  /\ Doing("trust")
  /\ trust' = IF Subject = "cancelled" THEN "unset" ELSE Subject
  /\ remembered' \in {remembered} \cup {TRUE : s \in {Subject} \cap {"always"}}
  /\ stash' = NoName
  /\ IF Subject # "cancelled" /\ stash # NoName /\ Top.depth + 1 < MaxDepth
     THEN Call(<<Frame(<<Run(stash)>>, Top.depth + 1, TRUE)>>)
     ELSE Return
  /\ UNCHANGED <<registry, screens, prefix, block, loop>>

PrependToPendingPrompt ==
  /\ Doing("prefix") /\ Return
  /\ prefix' = TRUE
  /\ UNCHANGED <<registry, screens, trusting, block, loop>>

CancelPendingTurn ==
  /\ Doing("block") /\ Return
  /\ block' = Subject
  /\ UNCHANGED <<registry, screens, trusting, prefix, loop>>

ApplyEffect ==
  \/ RunSlash \/ OpenScreen \/ CloseScreen \/ SaveTranscript \/ ReindexPlugin
  \/ TogglePlugin \/ StashPendingSlash \/ SetTrustLevel
  \/ PrependToPendingPrompt \/ CancelPendingTurn

(***************************************************************************)
(* The event loop, which starts its next command when apply_effects has    *)
(* returned.                                                               *)
(***************************************************************************)
Command ==
  Idle /\ prompt # "hooks" /\ commands < MaxCommands /\ commands' = commands + 1
Start(effects) == stack' = Settle(<<Frame(effects, 0, TRUE)>>) /\ lost' = lost

TypeSlash(n) ==
  /\ Command /\ screens = <<>> /\ prompt = "none" /\ Known(n)
  /\ cache' = IF n = "reload-commands" THEN files ELSE cache
  /\ \E effects \in Answers(n) : Start(effects)
  /\ UNCHANGED <<enabled, index, files, disk, flags, session,
                 prompt, running>>

Shows(id) == screens # <<>> /\ Last(screens).id = id

DecideTrust(level) ==
  /\ Command /\ Shows("trust.modal")
  /\ Start(<<Effect("trust", level), Effect("close", "trust.modal")>>)
  /\ UNCHANGED <<registry, session, prompt, running>>

(***************************************************************************)
(* A key on the row of p in the plugins screen flips the row and asks for  *)
(* what it shows then; the rows are not refreshed when that fails.         *)
(***************************************************************************)
PressRow(p) ==
  LET row == p \notin Last(screens).rows IN
  /\ Command /\ Shows("plugins.manager")
  /\ screens' = [screens EXCEPT ![Len(screens)].rows =
                   IF row THEN @ \cup {p} ELSE @ \ {p}]
  /\ Start(<<[Effect("toggle", p) EXCEPT !.on = row]>>)
  /\ UNCHANGED <<registry, trusting, verdict, prompt, running>>

LeavePlugins ==
  /\ Command /\ Shows("plugins.manager")
  /\ Start(<<Effect("close", "plugins.manager")>>)
  /\ UNCHANGED <<registry, session, prompt, running>>

SubmitPrompt ==
  /\ Command /\ screens = <<>> /\ prompt = "none"
  /\ prompt' = "hooks"
  /\ \E batches \in Dispatches("prompt", 0) : stack' = Settle(batches)
  /\ UNCHANGED <<registry, session, running, lost>>

(***************************************************************************)
(* A cancellation takes precedence, and drops the prefix with the prompt.  *)
(***************************************************************************)
SendPrompt ==
  /\ Idle /\ prompt = "hooks"
  /\ prompt' = IF block = "no" THEN "turn" ELSE "none"
  /\ block' = "no" /\ prefix' = FALSE
  /\ UNCHANGED <<registry, screens, trusting, stack, running, lost, commands>>

TurnEnds ==
  /\ Idle /\ prompt = "turn"
  /\ prompt' = "none"
  /\ \E batches \in Dispatches("end", 0) : stack' = Settle(batches)
  /\ UNCHANGED <<registry, session, running, lost, commands>>

EditFiles ==
  /\ Command
  /\ \E f \in CommandFile : files' = SymDiff(files, {f})
  /\ UNCHANGED <<enabled, cache, index, disk, flags, session, stack,
                 prompt, running, lost>>

(***************************************************************************)
(* The user quits and starts otto again; "always" is the one decision that *)
(* was written to disk.  A start that finds a clash panics.                *)
(***************************************************************************)
Restart ==
  LET up == Core \cup disk IN
  /\ Command
  /\ enabled' = up /\ cache' = files
  /\ running' = ~Clash(up, files)
  /\ index' = IF Clash(up, files) THEN index ELSE Build(up, files)
  /\ trust' = IF remembered THEN "always" ELSE "unset"
  /\ screens' = <<>> /\ stash' = NoName /\ prefix' = FALSE /\ block' = "no"
  /\ prompt' = "none" /\ skipped' = FALSE /\ unsaved' = FALSE /\ astray' = FALSE
  /\ UNCHANGED <<files, disk, remembered, stack, lost>>

Next ==
  \/ ApplyEffect
  \/ \E n \in Name : TypeSlash(n)
  \/ \E level \in {"always", "session", "cancelled"} : DecideTrust(level)
  \/ \E p \in Optional : PressRow(p)
  \/ LeavePlugins \/ SubmitPrompt \/ SendPrompt \/ TurnEnds
  \/ EditFiles \/ Restart

Spec == Init /\ [][Next]_vars

(***************************************************************************)
(* apply_effects runs to its end before the event loop does anything else. *)
(***************************************************************************)
FairSpec == Spec /\ WF_vars(ApplyEffect)

-----------------------------------------------------------------------------
Ops == {"run", "open", "close", "save", "reindex", "toggle", "stash", "trust",
        "prefix", "block"}

(***************************************************************************)
(* The type invariant, with the bound on nesting: no effect is applied     *)
(* below MAX_DISPATCH_DEPTH, and the innermost call has an effect to apply.*)
(***************************************************************************)
TypeOK ==
  /\ enabled \subseteq Plugin /\ Core \subseteq enabled
  /\ cache \subseteq CommandFile /\ files \subseteq CommandFile
  /\ index \in [Name -> Plugin \cup {NoOwner}]
  /\ disk \subseteq Optional
  /\ \A i \in DOMAIN screens :
        screens[i].id \in Name /\ screens[i].rows \subseteq Plugin
  /\ trust \in {"unset", "always", "session"} /\ remembered \in BOOLEAN
  /\ stash \in ShellFile \cup {NoName}
  /\ \A i \in DOMAIN stack :
        /\ stack[i].depth \in 0..MaxDepth
        /\ \A j \in DOMAIN stack[i].effects : stack[i].effects[j].op \in Ops
  /\ stack # <<>> => Effects # <<>>
  /\ prompt \in {"none", "hooks", "turn"}
  /\ prefix \in BOOLEAN /\ block \in {"no", "prompt", "stop"}
  /\ {running, skipped, unsaved, astray, lost} \subseteq BOOLEAN
  /\ commands \in 0..MaxCommands

(***************************************************************************)
(* "preserving per-subscriber error isolation": an event's subscriber      *)
(* never loses its effects because those of another one failed, however    *)
(* deep the calls nest.                                                    *)
(***************************************************************************)
SubscribersAreIsolated == ~lost

(***************************************************************************)
(* Between two commands every index entry belongs to a plugin that claims  *)
(* the name, and the indexes are those a rebuild would give for the        *)
(* enabled plugins and the loaded command files, whichever toggles,        *)
(* refused toggles and reloads led here; except after a reload that        *)
(* skipped a taken name, or a refused toggle whose rollback, to the        *)
(* opposite of what was asked, was not the state before.                   *)
(***************************************************************************)
IndexIsCoherent ==
  Idle =>
    /\ ~skipped /\ ~astray => index = Build(enabled, cache)
    /\ \A n \in Name : index[n] # NoOwner => n \in Manifest(index[n], cache)

(***************************************************************************)
(* A session whose toggles were saved and whose command files are loaded   *)
(* starts again with the same plugins and without a clash: a refused       *)
(* toggle is never what plugins.toml holds.                                *)
(***************************************************************************)
RestartsAlike ==
  (Idle /\ ~unsaved /\ ~skipped /\ ~astray /\ cache = files) =>
    /\ enabled = Core \cup disk
    /\ ~Clash(Core \cup disk, files)

(***************************************************************************)
(* Between two commands, a command that waits for a trust decision has the *)
(* trust modal on the screen stack: no key, reload or hook leaves it       *)
(* stashed with nobody asked, to run at a later, unrelated decision.       *)
(***************************************************************************)
StashIsAskedFor ==
  (Idle /\ stash # NoName) =>
    \E i \in DOMAIN screens : screens[i].id = "trust.modal"

(***************************************************************************)
(* Every command ends, whatever the plugins return and however their slash *)
(* commands and subscriptions call each other: the event loop gets its     *)
(* turn again.                                                             *)
(***************************************************************************)
CommandsEnd == stack # <<>> ~> stack = <<>>
=============================================================================
