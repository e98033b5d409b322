----------------------------- MODULE ToolCalls -----------------------------
(***************************************************************************)
(* Tool calls and the questions they put to the user.                      *)
(*                                                                         *)
(* A task is one run_turn call of a turn worker, or one run_bash_command   *)
(* call made for /bash.  The calls of a task pass the permission gate,     *)
(* wait for the registry mutex, have their network access resolved and run *)
(* in the one lazy tool-bash server; the calls of a subagent skip the      *)
(* first two.  The TUI's event loop is a single actor: it shows the        *)
(* prompts that arrive on the tasks' event channels, forwards the user's   *)
(* answers to the host, and itself takes the registry mutex for some       *)
(* commands.                                                               *)
(***************************************************************************)
EXTENDS Naturals, Sequences, FiniteSets

CONSTANTS
  Tasks,       \* the turns and /bash commands of the session
  Tools,       \* what the model calls: a subset of {"run", "task"}
  MaxCalls,    \* bound: tool calls of one task
  MaxAborts,   \* bound: AbortedAfterGrace notices in the session
  Diversions,  \* what may take the keyboard: a subset of {"canvas", "screen"}
  None

Ids == Tasks \X (0..MaxCalls)      \* request ids: the n-th call of a task
Verdicts == {"allow", "deny"}      \* PermissionDecision
(* BashNetworkChoice; Cancelled is decided like DenyOnce.                  *)
Choices == {"once", "always", "denyOnce", "denyAlways"}
Overrides == {"inherit", "forceAllow", "forceDeny"}     \* NetOverride

ASSUME ToolCallsAssumption ==
  /\ Tools \subseteq {"run", "task"}
  /\ MaxCalls \in Nat
  /\ MaxAborts \in Nat
  /\ Diversions \subseteq {"canvas", "screen"}
  /\ None \notin Tasks \cup Ids \cup BOOLEAN \cup Verdicts \cup Choices \cup Overrides

VARIABLES
  slot,        \* Host::current_turn_events: whose channel is installed
  asked,       \* Host::pending: ids with an open oneshot
  askedNet,    \* Host::pending_bash_network
  rules,       \* what PermissionPolicy::evaluate answers for each tool
  cache,       \* PermissionPolicy::bash_network_decision
  toolsLock,   \* who holds Host::tools
  bashLock,    \* who holds LazyBash::active
  server,      \* the spawn key (allow_net) of the active server
  live,        \* the tool-bash processes that run, by their spawn key
  pc,          \* where each task stands
  kind,        \* "turn" or "bash"
  calls,       \* how many tool calls it has made
  tool,        \* the tool its turn called last
  sub,         \* the current call is made by its subagent
  over,        \* its NetOverride
  allow,       \* the network access resolved for its current call
  reply,       \* what its oneshot has received
  queue,       \* the events on its channel
  loop,        \* what the event loop does
  mode,        \* App::input_mode
  modal,       \* the id in InputMode::BashNetworkPrompt
  pending,     \* App::pending_permission
  screen,      \* a plugin screen is on top
  loading,     \* App::is_loading
  checking,    \* the override of the /bash the loop is about to start
  answers,     \* spawned resolve_bash_network_decision calls
  aborts,      \* notices sent so far
  pressed      \* history: the user's answers

hostVars == <<slot, asked, askedNet, rules, cache>>
lockVars == <<toolsLock, bashLock>>
bashVars == <<server, live>>
callVars == <<calls, tool, sub, over, allow, reply>>
taskVars == <<pc, kind, callVars, queue>>
modalVars == <<mode, modal, pending, screen, loading>>
tuiVars == <<loop, modalVars, checking, answers>>
history == <<aborts, pressed>>
vars == <<hostVars, lockVars, bashVars, taskVars, tuiVars, history>>

-----------------------------------------------------------------------------
(* Helpers *)

Id(t) == <<t, calls[t]>>
Goto(t, place) == pc' = [pc EXCEPT ![t] = place]

(* A channel is read until the event loop is left.  The forwarder of /bash  *)
(* then ends with the first event that nobody takes, and closes the        *)
(* channel; the worker of a turn keeps its receiver until the turn ends.   *)
Open == loop \notin {"quitting", "gone"}
MayBeClosed(t) == ~Open /\ kind[t] = "bash"
Send(t, event) ==
  queue' = IF Open THEN [queue EXCEPT ![t] = Append(@, event)] ELSE queue

Prompt(what, id) == [what |-> what, id |-> id]
Done == Prompt("done", None)
Aborted == Prompt("aborted", None)

Holds(t) == toolsLock = t

(* Where a task goes on when its current call has ended. *)
AfterCall(t) ==
  CASE kind[t] = "bash" -> "ending"
    [] kind[t] = "turn" /\ sub[t] -> "subagent"
    [] OTHER -> "calling"

Resolved(t, net) ==
  /\ allow' = [allow EXCEPT ![t] = net]
  /\ Goto(t, "waiting")

Init ==
  /\ slot = None
  /\ asked = {}
  /\ askedNet = {}
  /\ rules = [x \in Tools |-> "ask"]
  /\ cache = None
  /\ toolsLock = None
  /\ bashLock = None
  /\ server = None
  /\ live = {}
  /\ pc = [t \in Tasks |-> "idle"]
  /\ kind = [t \in Tasks |-> "turn"]
  /\ calls = [t \in Tasks |-> 0]
  /\ tool = [t \in Tasks |-> None]
  /\ sub = [t \in Tasks |-> FALSE]
  /\ over = [t \in Tasks |-> "inherit"]
  /\ allow = [t \in Tasks |-> FALSE]
  /\ reply = [t \in Tasks |-> None]
  /\ queue = [t \in Tasks |-> <<>>]
  /\ loop = "running"
  /\ mode = "editing"
  /\ modal = None
  /\ pending = None
  /\ screen = FALSE
  /\ loading = FALSE
  /\ checking = None
  /\ answers = {}
  /\ aborts = 0
  /\ pressed = {}

-----------------------------------------------------------------------------
(* The event loop *)

Keyboard == loop = "running" /\ ~screen
AtPrompt == Keyboard /\ mode = "editing"

(* One event of t's channel reaches App::apply_turn_event.                 *)
Receive(t) ==
  /\ loop = "running"
  /\ queue[t] # <<>>
  /\ queue' = [queue EXCEPT ![t] = Tail(@)]
  /\ LET e == Head(queue[t]) IN
       \/ /\ e.what = "permission"
          /\ pending' = e.id
          /\ mode' = "permission"
          /\ UNCHANGED <<modal, loading>>
       \/ /\ e.what = "network"
          /\ modal' = e.id
          /\ mode' = "network"
          /\ UNCHANGED <<pending, loading>>
       \/ /\ e.what \in {"done", "aborted"}
          /\ loading' = FALSE
          /\ UNCHANGED <<mode, modal, pending>>
  /\ UNCHANGED <<hostVars, lockVars, bashVars, pc, kind, callVars, loop, screen,
                 checking, answers, history>>

(* Mutation: a second turn may be started while one is loading. *)
SubmitWhileLoading(t) ==
  /\ AtPrompt
  /\ pc[t] = "idle"
  /\ loading' = TRUE
  /\ kind' = [kind EXCEPT ![t] = "turn"]
  /\ Goto(t, "spawned")
  /\ UNCHANGED <<hostVars, lockVars, bashVars, callVars, queue, loop, mode, modal,
                 pending, screen, checking, answers, history>>

(* Enter on a prompt: a worker is spawned for the turn. *)
SubmitTurn(t) ==
  /\ AtPrompt
  /\ ~loading
  /\ pc[t] = "idle"
  /\ loading' = TRUE
  /\ kind' = [kind EXCEPT ![t] = "turn"]
  /\ Goto(t, "spawned")
  /\ UNCHANGED <<hostVars, lockVars, bashVars, callVars, queue, loop, mode, modal,
                 pending, screen, checking, answers, history>>

(* Mutation: the --net flag is lost before the worker is spawned. *)
SubmitBashUnflagged(o) ==
  /\ AtPrompt
  /\ ~loading
  /\ \E t \in Tasks : pc[t] = "idle"
  /\ loop' = "checking"
  /\ UNCHANGED <<hostVars, lockVars, bashVars, taskVars, modalVars, checking,
                 answers, history>>

(* /bash: the loop first asks the host for its tools, behind the mutex. *)
SubmitBash(o) ==
  /\ AtPrompt
  /\ ~loading
  /\ \E t \in Tasks : pc[t] = "idle"
  /\ checking' = o
  /\ loop' = "checking"
  /\ UNCHANGED <<hostVars, lockVars, bashVars, taskVars, modalVars, answers,
                 history>>

BashReady(t) ==
  /\ loop = "checking"
  /\ toolsLock = None
  /\ pc[t] = "idle"
  /\ loop' = "running"
  /\ loading' = TRUE
  /\ kind' = [kind EXCEPT ![t] = "bash"]
  /\ over' = [over EXCEPT ![t] = checking]
  /\ checking' = None
  /\ Goto(t, "spawned")
  /\ UNCHANGED <<hostVars, lockVars, bashVars, calls, tool, sub, allow, reply,
                 queue, mode, modal, pending, screen, answers, history>>

(* /tools, or a screen that reads the servers' status (/mcp). *)
ReadTools ==
  /\ loop = "running"
  /\ screen \/ (mode = "editing" /\ ~loading)
  /\ loop' = "reading"
  /\ UNCHANGED <<hostVars, lockVars, bashVars, taskVars, modalVars, checking,
                 answers, history>>

ToolsRead ==
  /\ loop = "reading"
  /\ toolsLock = None
  /\ loop' = "running"
  /\ UNCHANGED <<hostVars, lockVars, bashVars, taskVars, modalVars, checking,
                 answers, history>>

(* Keys of the permission modal; a persisted answer becomes a rule before   *)
(* the call is released.                                                   *)
AnswerPermission(d, persist) ==
  /\ Keyboard
  /\ mode = "permission"
  /\ mode' = "editing"
  /\ pending' = None
  /\ IF pending = None
     THEN UNCHANGED <<asked, rules, reply, pressed>>
     ELSE LET t == pending[1] IN
          /\ pressed' = pressed \cup {<<pending, d>>}
          /\ rules' = IF persist THEN [rules EXCEPT ![tool[t]] = d] ELSE rules
          /\ asked' = asked \ {pending}
          /\ reply' = IF pending \in asked THEN [reply EXCEPT ![t] = d] ELSE reply
  /\ UNCHANGED <<slot, askedNet, cache, lockVars, bashVars, pc, kind, calls, tool,
                 sub, over, allow, queue, loop, modal, screen, loading, checking,
                 answers, aborts>>

(* Keys of the network modal: the answer is delivered by a spawned task. *)
AnswerNetwork(c) ==
  /\ Keyboard
  /\ mode = "network"
  /\ mode' = "editing"
  /\ answers' = answers \cup {<<modal, c>>}
  /\ pressed' = pressed \cup {<<modal, c>>}
  /\ UNCHANGED <<hostVars, lockVars, bashVars, taskVars, loop, modal, pending,
                 screen, loading, checking, aborts>>

(* Mutation: the entry is removed and its sender dropped unused. *)
ResolveSilently(id, c) ==
  /\ askedNet' = askedNet \ {id}
  /\ UNCHANGED reply

(* resolve_bash_network_decision *)
ResolveNetwork(id, c) ==
  /\ askedNet' = askedNet \ {id}
  /\ reply' = IF id \in askedNet THEN [reply EXCEPT ![id[1]] = c] ELSE reply

Deliver(a) ==
  /\ loop # "gone"
  /\ a \in answers
  /\ answers' = answers \ {a}
  /\ ResolveNetwork(a[1], a[2])
  /\ UNCHANGED <<slot, asked, rules, cache, lockVars, bashVars, pc, kind, calls,
                 tool, sub, over, allow, queue, loop, modalVars, checking,
                 history>>

OpenScreen ==
  /\ AtPrompt
  /\ "screen" \in Diversions
  /\ screen' = TRUE
  /\ UNCHANGED <<hostVars, lockVars, bashVars, taskVars, loop, mode, modal,
                 pending, loading, checking, answers, history>>

CloseScreen ==
  /\ loop = "running"
  /\ screen
  /\ screen' = FALSE
  /\ UNCHANGED <<hostVars, lockVars, bashVars, taskVars, loop, mode, modal,
                 pending, loading, checking, answers, history>>

(* A click on a canvas, or a screen's PromptApiKey effect, sets input_mode  *)
(* whatever it was.                                                        *)
Divert ==
  /\ loop = "running"
  /\ \/ "canvas" \in Diversions /\ ~screen /\ UNCHANGED screen
     \/ screen /\ screen' = FALSE
  /\ mode' = "other"
  /\ UNCHANGED <<hostVars, lockVars, bashVars, taskVars, loop, modal, pending,
                 loading, checking, answers, history>>

Undivert ==
  /\ Keyboard
  /\ mode = "other"
  /\ mode' = "editing"
  /\ UNCHANGED <<hostVars, lockVars, bashVars, taskVars, loop, modal, pending,
                 screen, loading, checking, answers, history>>

(* Ctrl-C: drain_pending_bash_net, then run_app returns to main.            *)
Quit ==
  /\ loop = "running"
  /\ loop' = "quitting"
  /\ IF mode = "network" THEN ResolveNetwork(modal, "denyOnce")
                         ELSE UNCHANGED <<askedNet, reply>>
  /\ UNCHANGED <<slot, asked, rules, cache, lockVars, bashVars, pc, kind, calls,
                 tool, sub, over, allow, queue, modalVars, checking, answers,
                 history>>

(* Host::shutdown takes the registry, and the process ends. *)
Exit ==
  /\ loop = "quitting"
  /\ toolsLock = None
  /\ loop' = "gone"
  /\ UNCHANGED <<hostVars, lockVars, bashVars, taskVars, modalVars, checking,
                 answers, history>>

-----------------------------------------------------------------------------
(* Turns and /bash commands: start and end *)

(* CurrentTurnEventsGuard::install *)
InstallEvents(t) ==
  /\ pc[t] = "spawned"
  /\ slot' = t
  /\ Goto(t, IF kind[t] = "turn" THEN "listing" ELSE "entering")
  /\ UNCHANGED <<asked, askedNet, rules, cache, lockVars, bashVars, kind, callVars,
                 queue, tuiVars, history>>

ListTools(t) ==
  /\ pc[t] = "listing"
  /\ toolsLock = None
  /\ Goto(t, "calling")
  /\ UNCHANGED <<hostVars, lockVars, bashVars, kind, callVars, queue, tuiVars,
                 history>>

(* The model's final answer, or a cancellation: the event is sent while the *)
(* guard is still alive.                                                   *)
Complete(t) ==
  /\ pc[t] = "calling"
  /\ Send(t, Done)
  /\ Goto(t, "ending")
  /\ UNCHANGED <<hostVars, lockVars, bashVars, kind, callVars, tuiVars, history>>

(* A provider error: the worker reports it after run_turn returned. *)
Fail(t) ==
  /\ pc[t] = "calling"
  /\ slot' = None
  /\ Send(t, Done)
  /\ Goto(t, "done")
  /\ UNCHANGED <<asked, askedNet, rules, cache, lockVars, bashVars, kind, callVars,
                 tuiVars, history>>

(* The guard clears the slot, whoever installed what is in it. *)
Return(t) ==
  /\ pc[t] = "ending"
  /\ slot' = None
  /\ IF kind[t] = "bash" THEN Send(t, Done) ELSE UNCHANGED queue
  /\ Goto(t, "done")
  /\ UNCHANGED <<asked, askedNet, rules, cache, lockVars, bashVars, kind, callVars,
                 tuiVars, history>>

(* remove_provider tells the installed channel that a turn was aborted. *)
NotifyAborted ==
  /\ aborts < MaxAborts
  /\ slot # None
  /\ aborts' = aborts + 1
  /\ Send(slot, Aborted)
  /\ UNCHANGED <<hostVars, lockVars, bashVars, pc, kind, callVars, tuiVars,
                 pressed>>

-----------------------------------------------------------------------------
(* The permission gate *)

(* The model calls tool x; gate_tool_call evaluates the policy. *)
Call(t, x) ==
  /\ pc[t] = "calling"
  /\ calls[t] < MaxCalls
  /\ calls' = [calls EXCEPT ![t] = @ + 1]
  /\ tool' = [tool EXCEPT ![t] = x]
  /\ sub' = [sub EXCEPT ![t] = FALSE]
  /\ UNCHANGED <<slot, askedNet, rules, cache, lockVars, bashVars, kind, over,
                 allow, reply, tuiVars, aborts, pressed>>

Allowed(t, x) ==
  /\ rules[x] = "allow"
  /\ Call(t, x)
  /\ Goto(t, "allowed")
  /\ UNCHANGED <<asked, queue>>

Denied(t, x) ==
  /\ rules[x] = "deny"
  /\ Call(t, x)
  /\ UNCHANGED <<pc, asked, queue>>

(* The sender is a turn's: its channel is never closed. *)
AskPermission(t, x) ==
  /\ rules[x] = "ask"
  /\ Call(t, x)
  /\ LET id == <<t, calls[t] + 1>> IN
       /\ asked' = asked \cup {id}
       /\ Send(t, Prompt("permission", id))
  /\ Goto(t, "asking")

(* Mutation: the rules are read again after the wait, as for the network. *)
VerdictRereads(t) ==
  /\ pc[t] = "asking"
  /\ reply[t] # None
  /\ reply' = [reply EXCEPT ![t] = None]
  /\ Goto(t, IF reply[t] = "allow" \/ rules[tool[t]] = "allow"
             THEN "allowed" ELSE "calling")
  /\ UNCHANGED <<hostVars, lockVars, bashVars, kind, calls, tool, sub, over, allow,
                 queue, tuiVars, history>>

Verdict(t) ==
  /\ pc[t] = "asking"
  /\ reply[t] # None
  /\ reply' = [reply EXCEPT ![t] = None]
  /\ Goto(t, IF reply[t] = "allow" THEN "allowed" ELSE "calling")
  /\ UNCHANGED <<hostVars, lockVars, bashVars, kind, calls, tool, sub, over, allow,
                 queue, tuiVars, history>>

-----------------------------------------------------------------------------
(* Dispatch *)

(* A PreToolUse hook blocks the call; /bash passes the hooks as well.       *)
HookBlocks(t) ==
  /\ pc[t] = "allowed" \/ (pc[t] = "entering" /\ kind[t] = "bash")
  /\ Goto(t, AfterCall(t))
  /\ UNCHANGED <<hostVars, lockVars, bashVars, kind, callVars, queue, tuiVars,
                 history>>

(* The registry is snapshotted; an in-process tool runs without its mutex.  *)
Dispatch(t) ==
  /\ pc[t] = "allowed"
  /\ toolsLock = None
  /\ Goto(t, IF tool[t] = "task" THEN "subagent" ELSE "entering")
  /\ UNCHANGED <<hostVars, lockVars, bashVars, kind, callVars, queue, tuiVars,
                 history>>

(* The registry mutex is held until the call returns. *)
EnterTools(t) ==
  /\ pc[t] = "entering"
  /\ toolsLock = None
  /\ toolsLock' = t
  /\ Goto(t, "resolving")
  /\ UNCHANGED <<hostVars, bashLock, bashVars, kind, callVars, queue, tuiVars,
                 history>>

(* A subagent's call that its allowlist and the hooks let through goes      *)
(* straight to the tool; one they stop changes nothing here.               *)
SubagentCall(t) ==
  /\ pc[t] = "subagent"
  /\ calls[t] < MaxCalls
  /\ calls' = [calls EXCEPT ![t] = @ + 1]
  /\ sub' = [sub EXCEPT ![t] = TRUE]
  /\ Goto(t, "resolving")
  /\ UNCHANGED <<hostVars, lockVars, bashVars, kind, tool, over, allow, reply,
                 queue, tuiVars, history>>

SubagentEnds(t) ==
  /\ pc[t] = "subagent"
  /\ Goto(t, "calling")
  /\ UNCHANGED <<hostVars, lockVars, bashVars, kind, callVars, queue, tuiVars,
                 history>>

-----------------------------------------------------------------------------
(* HostBashNetResolver *)

Override(t) ==
  /\ pc[t] = "resolving"
  /\ over[t] # "inherit"
  /\ Resolved(t, over[t] = "forceAllow")
  /\ UNCHANGED <<hostVars, lockVars, bashVars, kind, calls, tool, sub, over, reply,
                 queue, tuiVars, history>>

UseCached(t) ==
  /\ pc[t] = "resolving"
  /\ over[t] = "inherit"
  /\ cache # None
  /\ Resolved(t, cache)
  /\ UNCHANGED <<hostVars, lockVars, bashVars, kind, calls, tool, sub, over, reply,
                 queue, tuiVars, history>>

(* No channel is installed, or the one that is has been closed.            *)
Unasked(t) ==
  /\ pc[t] = "resolving"
  /\ over[t] = "inherit"
  /\ cache = None
  /\ slot # None => MayBeClosed(slot)
  /\ Resolved(t, FALSE)
  /\ UNCHANGED <<slot, asked, rules, cache, lockVars, bashVars, kind, calls, tool,
                 sub, over, reply, queue, tuiVars, history>>

(* Mutation: the send is refused and its entry stays in the map. *)
DenyUnaskedLeaking(t) ==
  /\ Unasked(t)
  /\ askedNet' = IF slot = None THEN askedNet ELSE askedNet \cup {Id(t)}

DenyUnasked(t) ==
  /\ Unasked(t)
  /\ UNCHANGED askedNet

AskNetwork(t) ==
  /\ pc[t] = "resolving"
  /\ over[t] = "inherit"
  /\ cache = None
  /\ slot # None
  /\ askedNet' = askedNet \cup {Id(t)}
  /\ Send(slot, Prompt("network", Id(t)))
  /\ Goto(t, "prompting")
  /\ UNCHANGED <<slot, asked, rules, cache, lockVars, bashVars, kind, callVars,
                 tuiVars, history>>

(* Mutation: everything but DenyAlways lets the command through. *)
ReadChoiceLeniently(t) ==
  /\ pc[t] = "prompting"
  /\ reply[t] # None
  /\ allow' = [allow EXCEPT ![t] = IF cache # None THEN cache
                                   ELSE reply[t] # "denyAlways"]
  /\ Goto(t, IF cache = None /\ reply[t] \in {"always", "denyAlways"}
             THEN "caching" ELSE "waiting")
  /\ reply' = [reply EXCEPT ![t] = None]
  /\ UNCHANGED <<hostVars, lockVars, bashVars, kind, calls, tool, sub, over, queue,
                 tuiVars, history>>

(* resolve_bash_network reads the cache again, then looks at the choice.   *)
ReadChoice(t) ==
  /\ pc[t] = "prompting"
  /\ reply[t] # None
  /\ LET net == IF cache # None THEN cache ELSE reply[t] \in {"once", "always"} IN
       allow' = [allow EXCEPT ![t] = net]
  /\ Goto(t, IF cache = None /\ reply[t] \in {"always", "denyAlways"}
             THEN "caching" ELSE "waiting")
  /\ reply' = [reply EXCEPT ![t] = None]
  /\ UNCHANGED <<hostVars, lockVars, bashVars, kind, calls, tool, sub, over, queue,
                 tuiVars, history>>

WriteCache(t) ==
  /\ pc[t] = "caching"
  /\ cache' = allow[t]
  /\ Goto(t, "waiting")
  /\ UNCHANGED <<slot, asked, askedNet, rules, lockVars, bashVars, kind, callVars,
                 queue, tuiVars, history>>

-----------------------------------------------------------------------------
(* LazyBash::dispatch *)

EnterBash(t) ==
  /\ pc[t] = "waiting"
  /\ bashLock = None
  /\ bashLock' = t
  /\ Goto(t, "holding")
  /\ UNCHANGED <<hostVars, toolsLock, bashVars, kind, callVars, queue, tuiVars,
                 history>>

Reuse(t) ==
  /\ pc[t] = "holding"
  /\ server = allow[t]
  /\ Goto(t, "running")
  /\ UNCHANGED <<hostVars, lockVars, bashVars, kind, callVars, queue, tuiVars,
                 history>>

(* Mutation: the old server is cancelled before the new one is started. *)
KillFirst(t) ==
  /\ pc[t] = "holding"
  /\ server # allow[t]
  /\ IF server = None
     THEN live' = {allow[t]} /\ Goto(t, "retiring") /\ UNCHANGED server
     ELSE live' = live \ {server} /\ server' = None /\ UNCHANGED pc
  /\ UNCHANGED <<hostVars, lockVars, kind, callVars, queue, tuiVars, history>>

(* A new server is started before the old one is given up. *)
Spawn(t) ==
  /\ pc[t] = "holding"
  /\ server # allow[t]
  /\ live' = live \cup {allow[t]}
  /\ Goto(t, "retiring")
  /\ UNCHANGED <<hostVars, lockVars, server, kind, callVars, queue, tuiVars,
                 history>>

(* Mutation: the old server is taken out of the slot and forgotten. *)
RetireUncancelled(t) ==
  /\ pc[t] = "retiring"
  /\ server' = None
  /\ Goto(t, "installing")
  /\ UNCHANGED <<hostVars, lockVars, live, kind, callVars, queue, tuiVars, history>>

(* The old server is taken out of the slot and cancelled. *)
Retire(t) ==
  /\ pc[t] = "retiring"
  /\ server' = None
  /\ live' = live \ {server}
  /\ Goto(t, "installing")
  /\ UNCHANGED <<hostVars, lockVars, kind, callVars, queue, tuiVars, history>>

(* Mutation: the lock is dropped before the command is sent. *)
InstallUnlocked(t) ==
  /\ pc[t] = "installing"
  /\ server' = allow[t]
  /\ bashLock' = None
  /\ Goto(t, "running")
  /\ UNCHANGED <<hostVars, toolsLock, live, kind, callVars, queue, tuiVars, history>>

Install(t) ==
  /\ pc[t] = "installing"
  /\ server' = allow[t]
  /\ Goto(t, "running")
  /\ UNCHANGED <<hostVars, lockVars, live, kind, callVars, queue, tuiVars, history>>

(* The dispatch returns: its guards and, of a main call, the registry's     *)
(* are dropped.                                                            *)
Leave(t) ==
  /\ bashLock' = None
  /\ toolsLock' = IF Holds(t) THEN None ELSE toolsLock
  /\ Goto(t, AfterCall(t))
  /\ UNCHANGED <<hostVars, bashVars, kind, callVars, queue, tuiVars, history>>

SpawnFails(t) ==
  /\ pc[t] = "holding"
  /\ server # allow[t]
  /\ Leave(t)

CommandEnds(t) ==
  /\ pc[t] = "running"
  /\ Leave(t)

-----------------------------------------------------------------------------
(* The specification *)

TaskStep(t) ==
  \/ InstallEvents(t) \/ ListTools(t)
  \/ Complete(t) \/ Fail(t) \/ Return(t)
  \/ \E x \in Tools : Allowed(t, x) \/ Denied(t, x) \/ AskPermission(t, x)
  \/ Verdict(t) \/ HookBlocks(t) \/ Dispatch(t) \/ EnterTools(t)
  \/ SubagentCall(t) \/ SubagentEnds(t)
  \/ Override(t) \/ UseCached(t) \/ DenyUnasked(t) \/ AskNetwork(t)
  \/ ReadChoice(t) \/ WriteCache(t)
  \/ EnterBash(t) \/ Reuse(t) \/ Spawn(t) \/ Retire(t) \/ Install(t)
  \/ SpawnFails(t) \/ CommandEnds(t)

UserAnswers ==
  \/ \E d \in Verdicts, persist \in BOOLEAN : AnswerPermission(d, persist)
  \/ \E c \in Choices : AnswerNetwork(c)

LoopStep ==
  \/ \E t \in Tasks : Receive(t) \/ SubmitTurn(t) \/ BashReady(t)
  \/ \E o \in Overrides : SubmitBash(o)
  \/ ReadTools \/ ToolsRead
  \/ UserAnswers
  \/ OpenScreen \/ CloseScreen \/ Divert \/ Undivert
  \/ Quit \/ Exit

Next ==
  \/ loop # "gone" /\ (NotifyAborted \/ \E t \in Tasks : TaskStep(t))
  \/ \E a \in answers : Deliver(a)
  \/ LoopStep

Spec == Init /\ [][Next]_vars

(* The steps at which a task waits for a mutex. *)
TakesLock(t) == ListTools(t) \/ Dispatch(t) \/ EnterTools(t) \/ EnterBash(t)

(* Tokio runs what is ready and its mutexes are first come, first served;   *)
(* tools return; the model stops calling tools (MaxCalls).                 *)
Scheduling ==
  /\ \A t \in Tasks : /\ WF_vars(loop # "gone" /\ TaskStep(t))
                      /\ SF_vars(loop # "gone" /\ TakesLock(t))
  /\ WF_vars(\E t \in Tasks : Receive(t))
  /\ WF_vars(\E a \in answers : Deliver(a))
  /\ SF_vars(ToolsRead \/ Exit \/ \E t \in Tasks : BashReady(t))

(* The user answers the modal he sees and closes what he opened. *)
User == WF_vars(UserAnswers) /\ WF_vars(CloseScreen) /\ WF_vars(Undivert)

FairSpec == Spec /\ Scheduling /\ User

-----------------------------------------------------------------------------
(* Properties *)

Places ==
  {"idle", "spawned", "listing", "calling", "asking", "allowed", "entering",
   "subagent", "resolving", "prompting", "caching", "waiting", "holding",
   "retiring", "installing", "running", "ending", "done"}
Events == [what : {"permission", "network"}, id : Ids] \cup {Done, Aborted}
InBash == {"holding", "retiring", "installing", "running"}

(* Types: in particular a prompt is always one of a call that was made.    *)
TypeOK ==
  /\ slot \in Tasks \cup {None}
  /\ asked \subseteq Ids
  /\ askedNet \subseteq Ids
  /\ rules \in [Tools -> Verdicts \cup {"ask"}]
  /\ cache \in BOOLEAN \cup {None}
  /\ toolsLock \in Tasks \cup {None}
  /\ bashLock \in Tasks \cup {None}
  /\ server \in BOOLEAN \cup {None}
  /\ live \subseteq BOOLEAN
  /\ pc \in [Tasks -> Places]
  /\ kind \in [Tasks -> {"turn", "bash"}]
  /\ calls \in [Tasks -> 0..MaxCalls]
  /\ tool \in [Tasks -> Tools \cup {None}]
  /\ sub \in [Tasks -> BOOLEAN]
  /\ over \in [Tasks -> Overrides]
  /\ allow \in [Tasks -> BOOLEAN]
  /\ reply \in [Tasks -> Verdicts \cup Choices \cup {None}]
  /\ queue \in [Tasks -> Seq(Events)]
  /\ loop \in {"running", "checking", "reading", "quitting", "gone"}
  /\ mode \in {"editing", "permission", "network", "other"}
  /\ modal \in Ids \cup {None}
  /\ pending \in Ids \cup {None}
  /\ screen \in BOOLEAN
  /\ loading \in BOOLEAN
  /\ checking \in Overrides \cup {None}
  /\ answers \subseteq Ids \X Choices
  /\ aborts \in 0..MaxAborts
  /\ pressed \subseteq Ids \X (Verdicts \cup Choices)

(* A call whose permission prompt the user refused never gets to its tool,  *)
(* whatever other prompts were answered around it: Host::pending hands each *)
(* answer to the call that asked.                                          *)
RefusedNeverRuns ==
  \A t \in Tasks :
    /\ <<Id(t), "deny">> \in pressed
    /\ ~sub[t]
    => pc[t] \in {"asking", "calling", "ending", "done"}

(* A command reaches the network only on an override of its own, on the    *)
(* user's answer to its own prompt, or on an answer for the session: the   *)
(* server it runs in was started with no more than that.                   *)
Granted(t) ==
  \/ over[t] = "forceAllow"
  \/ <<Id(t), "once">> \in pressed
  \/ \E id \in Ids : <<id, "always">> \in pressed
NetworkIsGranted ==
  \A t \in Tasks : pc[t] = "running" /\ server = TRUE => Granted(t)

(* A command runs in a server with exactly the access resolved for it, from *)
(* its start to its end: no other call respawns the server in between.     *)
ServerMatchesCommand ==
  \A t \in Tasks : pc[t] = "running" => server = allow[t]

(* Whenever nobody is inside LazyBash::dispatch, the process in the slot is *)
(* the only tool-bash process: a respawn, or one that failed, leaves no    *)
(* second one behind and no dead one in the slot.                          *)
OneServer ==
  bashLock = None => live = {server} \ {None}

(* Once tool-bash has been started there is always a server: a respawn that *)
(* fails keeps the old one.                                                *)
ServerIsKept == [][live # {} => live' # {}]_vars

(* A oneshot is in one of the two maps exactly while its call waits without *)
(* an answer: no answer is lost between map and call, and none is left over *)
(* for a call that went on.                                                *)
PromptsAreAwaited ==
  \A t \in Tasks :
    /\ \A n \in 0..MaxCalls :
         /\ <<t, n>> \in asked <=>
              n = calls[t] /\ pc[t] = "asking" /\ reply[t] = None
         /\ <<t, n>> \in askedNet <=>
              n = calls[t] /\ pc[t] = "prompting" /\ reply[t] = None

(* A call that waits for the user is before the user's eyes, or about to    *)
(* be, or has its answer under way: App::pending_permission and input_mode *)
(* are the only places that know the id.  The code keeps it as long as     *)
(* nothing else takes the keyboard and one task runs at a time.            *)
OnItsWay(id) ==
  \/ \E t \in Tasks : \E i \in DOMAIN queue[t] : queue[t][i].id = id
  \/ mode = "permission" /\ pending = id
  \/ mode = "network" /\ modal = id
  \/ \E c \in Choices : <<id, c>> \in answers
PromptIsReachable ==
  loop \notin {"quitting", "gone"} => \A id \in asked \cup askedNet : OnItsWay(id)

(* Every turn and every /bash ends when the user answers what he is asked:  *)
(* no prompt, mutex or server keeps it for ever.                           *)
Leaving == loop \in {"quitting", "gone"}
TasksEnd == \A t \in Tasks : pc[t] = "spawned" ~> (pc[t] = "done" \/ Leaving)

=============================================================================
