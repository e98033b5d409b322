----------------------------- MODULE TurnWorkers -----------------------------
(***************************************************************************)
(* The event loop of the TUI (run_app in otto/src/main.rs), the worker     *)
(* tasks it spawns for prompts and for /bash, and the state of the host    *)
(* they share: the conversation history, the active provider and the       *)
(* current model.  Workers are numbered in the order they are spawned.     *)
(*                                                                         *)
(* A worker's events go through a channel of its own and a forwarding loop *)
(* to the event loop; the two hops are one queue here, which keeps the     *)
(* order of each worker's messages and every interleaving of two workers.  *)
(***************************************************************************)
EXTENDS Integers, Sequences, FiniteSets

CONSTANTS
  MaxWorkers,     \* bound: workers spawned by the session
  MaxIterations,  \* HostConfig::max_iterations
  Provider,       \* connected providers
  Model,          \* model ids
  Owner,          \* Owner[m]: the provider that serves m
  InitialModel,   \* the model the session starts with
  Commands,       \* what happens besides prompts: a subset of CommandNames
  MaxCommands     \* bound: user commands, aborts and tool calls

CommandNames == {"model", "use", "override", "resume", "disconnect", "abort",
                 "tools"}

ASSUME ConstantsAssumption ==
  /\ MaxWorkers \in Nat
  /\ MaxIterations \in Nat \ {0}
  /\ Owner \in [Model -> Provider]
  /\ InitialModel \in Model
  /\ Commands \subseteq CommandNames
  /\ MaxCommands \in Nat

Worker == 1..MaxWorkers
Nobody == 0
None == 0                        \* no turn id, no tool call id
NoModel == "none"
Resumed == 0                     \* stands for a loaded transcript in a history

Pcs == {"idle", "apply", "snapshot", "provider", "model", "top", "racing",
        "tool", "replied", "answered", "returned", "restored", "bash", "done"}
Kinds == {"route", "first", "next", "delta", "toolStart", "toolEnd",
          "complete", "cancelled", "aborted", "error", "restored", "bashDone"}

VARIABLES
  loading,     \* App::is_loading
  nextTurn,    \* next_turn_id
  currentTurn, \* current_turn_id, or None
  pendingTurn, \* footer_pending_turn_id, or None
  seen,        \* turn_terminal_event_seen
  nextCall,    \* next_tool_call_id
  lastCall,    \* last_tool_call_id, or None
  shown,       \* App::model
  override,    \* App::next_turn_model_override, or NoModel
  live,        \* whose text is in App::live_text
  choosing,    \* the model a command is switching to, or NoModel
  quit,        \* run_app has returned
  inbox,       \* worker_rx
  activeProv,  \* Host::active_provider
  hostModel,   \* Host::current_model
  history,     \* the turns whose messages Host::state holds
  saved,       \* the turns in the last transcript written
  slot,        \* Host::current_turn_events: whose channel is installed
  kind,        \* kind[w]: a prompt or a /bash
  pc,          \* where worker w stands
  iter,        \* its turn's iteration counter
  taken,       \* the override it consumed
  original,    \* App::model when it was spawned
  snapshot,    \* its turn's local copy of the history
  decision,    \* the provider and model its turn uses
  call,        \* its provider call
  result,      \* what its turn returned
  opened,      \* the frame that TurnStart opened and TurnEnd has not closed
  closed,      \* the frames closed by TurnEnd, in order
  strays,      \* workers whose TurnEnd carried id 0
  calls,       \* tool call ids of ToolCallStart without their ToolCallEnd
  marks,       \* what happened while a worker was alive (history variable)
  commands     \* commands given so far

frameVars == <<nextTurn, currentTurn, pendingTurn, seen, opened, closed, strays>>
callVars == <<nextCall, lastCall, calls>>
uiVars == <<shown, override, live, choosing, saved>>
loopVars == <<loading, frameVars, callVars, uiVars, quit>>
hostVars == <<activeProv, hostModel, history, slot>>
taskVars == <<kind, pc, iter, taken, original, snapshot, decision, call, result>>
vars == <<loopVars, inbox, hostVars, taskVars, marks, commands>>

NoFrame == [id |-> None, by |-> Nobody]
NoRoute == [provider |-> NoModel, model |-> NoModel]

-----------------------------------------------------------------------------
(* Helpers *)

Message(w, k) == [from |-> w, kind |-> k]
Post(w, k) == inbox' = Append(inbox, Message(w, k))
Goto(w, label) == pc' = [pc EXCEPT ![w] = label]

(* What a provider call streams is one message, forwarded by               *)
(* forward_text_deltas at the latest when the call ends.                   *)
PostText(w, k) == inbox' = inbox \o <<Message(w, "delta"), Message(w, k)>>

(* A worker that is not idle and still has steps or messages ahead. *)
InInbox(w) == \E i \in DOMAIN inbox : inbox[i].from = w
Alive(w) == pc[w] \notin {"idle", "done"} \/ InInbox(w)
Mark(S) == marks' = marks \cup S

(* Something that a bound limits the number of. *)
Command(name) ==
  /\ name \in Commands
  /\ commands < MaxCommands
  /\ commands' = commands + 1

(* The event loop can take a message or a key. *)
LoopFree == ~quit /\ choosing = NoModel

Init ==
  /\ loading = FALSE
  /\ nextTurn = 0 /\ currentTurn = None /\ pendingTurn = None /\ seen = FALSE
  /\ nextCall = 0 /\ lastCall = None /\ calls = {}
  /\ hostModel = InitialModel /\ shown = InitialModel
  /\ override = NoModel /\ live = {} /\ choosing = NoModel /\ quit = FALSE
  /\ inbox = <<>>
  /\ activeProv = Owner[InitialModel]
  /\ history = <<>> /\ saved = <<>> /\ slot = Nobody
  /\ kind = [w \in Worker |-> "none"]
  /\ pc = [w \in Worker |-> "idle"]
  /\ iter = [w \in Worker |-> 0]
  /\ taken = [w \in Worker |-> NoModel]
  /\ original = [w \in Worker |-> NoModel]
  /\ snapshot = [w \in Worker |-> <<>>]
  /\ decision = [w \in Worker |-> NoRoute]
  /\ call = [w \in Worker |-> "none"]
  /\ result = [w \in Worker |-> "none"]
  /\ opened = NoFrame /\ closed = <<>> /\ strays = {}
  /\ marks = {} /\ commands = 0

-----------------------------------------------------------------------------
(* The worker of a prompt, and run_turn inside it *)

ApplyOverride(w) ==
  /\ pc[w] = "apply"
  /\ hostModel' = IF taken[w] = NoModel THEN hostModel ELSE taken[w]
  /\ Goto(w, "snapshot")
  /\ UNCHANGED <<loopVars, inbox, activeProv, history, slot, kind, iter, taken,
                 original, snapshot, decision, call, result, marks, commands>>

(* run_turn installs its channel and copies the history. *)
TakeSnapshot(w) ==
  /\ pc[w] = "snapshot"
  /\ slot' = w
  /\ snapshot' = [snapshot EXCEPT ![w] = history]
  /\ Goto(w, "provider")
  /\ UNCHANGED <<loopVars, inbox, activeProv, hostModel, history, kind, iter,
                 taken, original, decision, call, result, marks, commands>>

(* The active provider and the current model are two reads of two locks. *)
ReadProvider(w) ==
  /\ pc[w] = "provider"
  /\ decision' = [decision EXCEPT ![w].provider = activeProv]
  /\ Goto(w, "model")
  /\ UNCHANGED <<loopVars, inbox, hostVars, kind, iter, taken, original,
                 snapshot, call, result, marks, commands>>

ReadModel(w) ==
  /\ pc[w] = "model"
  /\ decision' = [decision EXCEPT ![w].model = hostModel]
  /\ Goto(w, "top")
  /\ Post(w, "route")
  /\ UNCHANGED <<loopVars, hostVars, kind, iter, taken, original, snapshot,
                 call, result, marks, commands>>

(* run_turn returns: its guard clears the slot, whoever installed it. *)
Return(w, r) ==
  /\ Goto(w, "returned")
  /\ result' = [result EXCEPT ![w] = r]
  /\ slot' = Nobody

LoopLimit(w) ==
  /\ pc[w] = "top"
  /\ iter[w] >= MaxIterations
  /\ Return(w, "err")
  /\ UNCHANGED <<loopVars, inbox, activeProv, hostModel, history, kind, iter,
                 taken, original, snapshot, decision, call, marks, commands>>

(* Mutation: the limit is off by one. *)
IterateOnceMore(w) ==
  /\ pc[w] = "top"
  /\ iter[w] <= MaxIterations
  /\ iter' = [iter EXCEPT ![w] = @ + 1]
  /\ call' = [call EXCEPT ![w] = "running"]
  /\ Post(w, IF iter[w] = 0 THEN "first" ELSE "next")
  /\ Goto(w, "racing")
  /\ UNCHANGED <<loopVars, hostVars, kind, taken, original, snapshot, decision,
                 result, marks, commands>>

Iterate(w) ==
  /\ pc[w] = "top"
  /\ iter[w] < MaxIterations
  /\ iter' = [iter EXCEPT ![w] = @ + 1]
  /\ call' = [call EXCEPT ![w] = "running"]
  /\ Post(w, IF iter[w] = 0 THEN "first" ELSE "next")
  /\ Goto(w, "racing")
  /\ UNCHANGED <<loopVars, hostVars, kind, taken, original, snapshot, decision,
                 result, marks, commands>>

ReplyError(w) ==
  /\ pc[w] = "racing" /\ call[w] = "running"
  /\ call' = [call EXCEPT ![w] = "gone"]
  /\ Post(w, "delta")
  /\ Return(w, "err")
  /\ UNCHANGED <<loopVars, activeProv, hostModel, history, kind, iter, taken,
                 original, snapshot, decision, marks, commands>>

ReplyTools(w) ==
  /\ pc[w] = "racing" /\ call[w] = "running"
  /\ Command("tools")
  /\ call' = [call EXCEPT ![w] = "gone"]
  /\ PostText(w, "toolStart")
  /\ Goto(w, "tool")
  /\ UNCHANGED <<loopVars, hostVars, kind, iter, taken, original, snapshot,
                 decision, result, marks>>

ToolEnds(w) ==
  /\ pc[w] = "tool"
  /\ Post(w, "toolEnd")
  /\ Goto(w, "top")
  /\ UNCHANGED <<loopVars, hostVars, kind, iter, taken, original, snapshot,
                 decision, call, result, marks, commands>>

(* The final answer: the working copy of the history is committed. *)
Commit(w) ==
  /\ pc[w] = "racing" /\ call[w] = "running"
  /\ call' = [call EXCEPT ![w] = "gone"]
  /\ history' = Append(snapshot[w], w)
  /\ Post(w, "delta")
  /\ Goto(w, "answered")
  /\ UNCHANGED <<loopVars, activeProv, hostModel, slot, kind, iter,
                 taken, original, snapshot, decision, result, marks, commands>>

SendComplete(w) ==
  /\ pc[w] = "answered"
  /\ Post(w, "complete")
  /\ Return(w, "ok")
  /\ UNCHANGED <<loopVars, activeProv, hostModel, history, kind, iter, taken,
                 original, snapshot, decision, call, marks, commands>>

(* The cancel branch: the call goes on without anyone waiting for it. *)
ObserveCancel(w) ==
  /\ pc[w] = "racing" /\ call[w] = "running"
  /\ "disconnect" \in Commands
  /\ call' = [call EXCEPT ![w] = "detached"]
  /\ Post(w, "cancelled")
  /\ Return(w, "err")
  /\ UNCHANGED <<loopVars, activeProv, hostModel, history, kind, iter, taken,
                 original, snapshot, decision, marks, commands>>

(* The join of an aborted call. *)
ObserveAbort(w) ==
  /\ pc[w] = "racing" /\ call[w] = "gone"
  /\ Return(w, "err")
  /\ UNCHANGED <<loopVars, inbox, activeProv, hostModel, history, kind, iter,
                 taken, original, snapshot, decision, call, marks, commands>>

DetachedEnds(w) ==
  /\ call[w] = "detached"
  /\ call' = [call EXCEPT ![w] = "gone"]
  /\ Post(w, "delta")
  /\ UNCHANGED <<loopVars, hostVars, kind, pc, iter, taken, original,
                 snapshot, decision, result, marks, commands>>

(* Mutation: the model is put back only after a turn that succeeded. *)
RestoreOnSuccess(w) ==
  /\ pc[w] = "returned"
  /\ call[w] # "detached"
  /\ IF taken[w] = NoModel \/ result[w] = "err"
     THEN UNCHANGED <<hostModel, inbox>>
     ELSE hostModel' = original[w] /\ Post(w, "restored")
  /\ Goto(w, "restored")
  /\ UNCHANGED <<loopVars, activeProv, history, slot, kind, iter, taken,
                 original, snapshot, decision, call, result, marks, commands>>

(* The worker goes on when every sender of the event channel is gone. *)
Restore(w) ==
  /\ pc[w] = "returned"
  /\ call[w] # "detached"
  /\ IF taken[w] = NoModel
     THEN UNCHANGED <<hostModel, inbox>>
     ELSE hostModel' = original[w] /\ Post(w, "restored")
  /\ Goto(w, "restored")
  /\ UNCHANGED <<loopVars, activeProv, history, slot, kind, iter, taken,
                 original, snapshot, decision, call, result, marks, commands>>

(* Mutation: a failed turn is reported nowhere. *)
ReportNothing(w) ==
  /\ pc[w] = "restored"
  /\ Goto(w, "done")
  /\ UNCHANGED <<loopVars, inbox, hostVars, kind, iter, taken, original,
                 snapshot, decision, call, result, marks, commands>>

Report(w) ==
  /\ pc[w] = "restored"
  /\ IF result[w] = "err" THEN Post(w, "error") ELSE UNCHANGED inbox
  /\ Goto(w, "done")
  /\ UNCHANGED <<loopVars, hostVars, kind, iter, taken, original, snapshot,
                 decision, call, result, marks, commands>>

(* The worker of a /bash. *)
BashEnds(w) ==
  /\ pc[w] = "bash"
  /\ \E k \in {"toolEnd", "error"} :
       inbox' = inbox \o <<Message(w, k), Message(w, "bashDone")>>
  /\ slot' = Nobody
  /\ Goto(w, "done")
  /\ UNCHANGED <<loopVars, activeProv, hostModel, history, kind, iter, taken,
                 original, snapshot, decision, call, result, marks, commands>>

-----------------------------------------------------------------------------
(* The event loop: messages *)

Take(w, k) ==
  /\ LoopFree
  /\ inbox # <<>>
  /\ Head(inbox) = Message(w, k)
  /\ inbox' = Tail(inbox)

(* TurnStart and TurnEnd as the plugins see them. *)
Close(frame, ok, w) == Append(closed, [id |-> frame.id, by |-> frame.by,
                                       ok |-> ok, ender |-> w])

(* Mutation: the text stays in the buffer. *)
HandleRouteUnflushed(w) ==
  /\ Take(w, "route")
  /\ UNCHANGED <<loopVars, hostVars, taskVars, marks, commands>>

(* RouteSelected: the text of an earlier turn is flushed into the log. *)
HandleRoute(w) ==
  /\ Take(w, "route")
  /\ live' = {}
  /\ UNCHANGED <<loading, frameVars, callVars, shown, override, choosing, saved,
                 quit, hostVars, taskVars, marks, commands>>

(* Mutation: a first iteration always opens a frame. *)
HandleFirstReopening(w) ==
  /\ Take(w, "first")
  /\ pendingTurn' = None
  /\ nextTurn' = nextTurn + 1
  /\ currentTurn' = nextTurn + 1
  /\ opened' = [id |-> nextTurn + 1, by |-> w]
  /\ UNCHANGED <<loading, seen, closed, strays, callVars, uiVars, quit,
                 hostVars, taskVars, marks, commands>>

(* IterationStarted { iteration: 1 } mints the turn's id. *)
HandleFirst(w) ==
  /\ Take(w, "first")
  /\ pendingTurn' = None
  /\ IF currentTurn = None
     THEN /\ nextTurn' = nextTurn + 1
          /\ currentTurn' = nextTurn + 1
          /\ opened' = [id |-> nextTurn + 1, by |-> w]
     ELSE UNCHANGED <<nextTurn, currentTurn, opened>>
  /\ UNCHANGED <<loading, seen, closed, strays, callVars, uiVars, quit,
                 hostVars, taskVars, marks, commands>>

HandleNext(w) ==
  /\ Take(w, "next")
  /\ UNCHANGED <<loopVars, hostVars, taskVars, marks, commands>>

HandleDelta(w) ==
  /\ Take(w, "delta")
  /\ live' = live \cup {w}
  /\ UNCHANGED <<loading, frameVars, callVars, shown, override, choosing, saved,
                 quit, hostVars, taskVars, marks, commands>>

HandleToolStart(w) ==
  /\ Take(w, "toolStart")
  /\ nextCall' = nextCall + 1
  /\ lastCall' = nextCall + 1
  /\ calls' = calls \cup {nextCall + 1}
  /\ live' = {}
  /\ UNCHANGED <<loading, frameVars, shown, override, choosing, saved, quit,
                 hostVars, taskVars, marks, commands>>

(* Without a started call (/bash) there is no ToolCallEnd. *)
HandleToolEnd(w) ==
  /\ Take(w, "toolEnd")
  /\ calls' = calls \ {lastCall}
  /\ lastCall' = None
  /\ UNCHANGED <<loading, frameVars, nextCall, uiVars, quit, hostVars, taskVars,
                 marks, commands>>

(* TurnComplete: the frame ends, the transcript is saved. *)
HandleComplete(w) ==
  /\ Take(w, "complete")
  /\ pendingTurn' = None
  /\ seen' = TRUE
  /\ currentTurn' = None
  /\ lastCall' = None
  /\ IF currentTurn = None
     THEN strays' = strays \cup {w} /\ UNCHANGED closed
     ELSE closed' = Close(opened, TRUE, w) /\ UNCHANGED strays
  /\ opened' = NoFrame
  /\ live' = {}
  /\ loading' = FALSE
  /\ saved' = history
  /\ UNCHANGED <<nextTurn, nextCall, calls, shown, override, choosing, quit,
                 hostVars, taskVars, marks, commands>>

(* Cancelled and AbortedAfterGrace.  A turn that was announced but never   *)
(* started gets its whole frame now.                                       *)
HandleStopped(w) ==
  /\ Take(w, "cancelled") \/ Take(w, "aborted")
  /\ pendingTurn' = None
  /\ seen' = TRUE
  /\ currentTurn' = None
  /\ lastCall' = None
  /\ opened' = NoFrame
  /\ IF currentTurn # None
     THEN closed' = Close(opened, FALSE, w) /\ UNCHANGED nextTurn
     ELSE IF pendingTurn # None
     THEN /\ nextTurn' = IF pendingTurn > nextTurn THEN pendingTurn ELSE nextTurn
          /\ closed' = Close([id |-> pendingTurn, by |-> w], FALSE, w)
     ELSE UNCHANGED <<nextTurn, closed>>
  /\ live' = {}
  /\ loading' = FALSE
  /\ UNCHANGED <<strays, nextCall, calls, shown, override, choosing, saved,
                 quit, hostVars, taskVars, marks, commands>>

(* Mutation: whether the turn has had its TurnEnd is not looked at. *)
HandleErrorTwice(w) ==
  /\ Take(w, "error")
  /\ loading' = FALSE
  /\ pendingTurn' = None
  /\ seen' = FALSE
  /\ LET announced == IF pendingTurn # None THEN pendingTurn ELSE nextTurn + 1 IN
          /\ lastCall' = None
          /\ currentTurn' = None
          /\ opened' = NoFrame
          /\ IF currentTurn # None
             THEN closed' = Close(opened, FALSE, w) /\ UNCHANGED nextTurn
             ELSE /\ nextTurn' = IF announced > nextTurn THEN announced
                                                         ELSE nextTurn
                  /\ closed' = Close([id |-> announced, by |-> w], FALSE, w)
  /\ UNCHANGED <<strays, nextCall, calls, uiVars, quit, hostVars, taskVars,
                 marks, commands>>

(* record_turn_error *)
HandleError(w) ==
  /\ Take(w, "error")
  /\ loading' = FALSE
  /\ pendingTurn' = None
  /\ seen' = FALSE
  /\ IF seen
     THEN UNCHANGED <<nextTurn, currentTurn, opened, closed, lastCall>>
     ELSE LET announced == IF pendingTurn # None THEN pendingTurn
                                                 ELSE nextTurn + 1 IN
          /\ lastCall' = None
          /\ currentTurn' = None
          /\ opened' = NoFrame
          /\ IF currentTurn # None
             THEN closed' = Close(opened, FALSE, w) /\ UNCHANGED nextTurn
             ELSE /\ nextTurn' = IF announced > nextTurn THEN announced
                                                         ELSE nextTurn
                  /\ closed' = Close([id |-> announced, by |-> w], FALSE, w)
  /\ UNCHANGED <<strays, nextCall, calls, uiVars, quit, hostVars, taskVars,
                 marks, commands>>

HandleRestored(w) ==
  /\ Take(w, "restored")
  /\ shown' = original[w]
  /\ UNCHANGED <<loading, frameVars, callVars, override, live, choosing, saved,
                 quit, hostVars, taskVars, marks, commands>>

HandleBashDone(w) ==
  /\ Take(w, "bashDone")
  /\ loading' = FALSE
  /\ UNCHANGED <<frameVars, callVars, uiVars, quit, hostVars, taskVars, marks,
                 commands>>

-----------------------------------------------------------------------------
(* The event loop: keys and commands *)

Spawn(w) ==
  /\ LoopFree
  /\ ~loading
  /\ pc[w] = "idle"
  /\ \A v \in Worker : v < w => pc[v] # "idle"
  /\ Mark(IF \E v \in Worker : Alive(v) THEN {"overlap"} ELSE {})

(* Mutation: Enter is not held back while a turn runs. *)
SubmitWhileLoading(w) ==
  /\ LoopFree
  /\ pc[w] = "idle"
  /\ \A v \in Worker : v < w => pc[v] # "idle"
  /\ loading' = TRUE
  /\ seen' = FALSE
  /\ pendingTurn' = nextTurn + 1
  /\ override' = NoModel
  /\ taken' = [taken EXCEPT ![w] = override]
  /\ original' = [original EXCEPT ![w] = shown]
  /\ kind' = [kind EXCEPT ![w] = "prompt"]
  /\ Goto(w, "apply")
  /\ UNCHANGED <<nextTurn, currentTurn, opened, closed, strays, callVars, shown,
                 live, choosing, saved, quit, inbox, hostVars, iter, snapshot,
                 decision, call, result, marks, commands>>

(* Enter on a prompt, whose PromptSubmitted hooks let it pass. *)
Submit(w) ==
  /\ Spawn(w)
  /\ loading' = TRUE
  /\ seen' = FALSE
  /\ pendingTurn' = nextTurn + 1
  /\ override' = NoModel
  /\ taken' = [taken EXCEPT ![w] = override]
  /\ original' = [original EXCEPT ![w] = shown]
  /\ kind' = [kind EXCEPT ![w] = "prompt"]
  /\ Goto(w, "apply")
  /\ UNCHANGED <<nextTurn, currentTurn, opened, closed, strays, callVars, shown,
                 live, choosing, saved, quit, inbox, hostVars, iter, snapshot,
                 decision, call, result, commands>>

(* A PromptSubmitted hook cancels the turn: no worker is spawned. *)
SubmitBlocked ==
  /\ LoopFree
  /\ ~loading
  /\ \E w \in Worker : pc[w] = "idle"
  /\ seen' = FALSE
  /\ Mark(IF \E w \in Worker : Alive(w) THEN {"overlap"} ELSE {})
  /\ UNCHANGED <<loading, nextTurn, currentTurn, pendingTurn, opened, closed,
                 strays, callVars, uiVars, quit, inbox, hostVars, taskVars,
                 commands>>

SubmitBash(w) ==
  /\ Spawn(w)
  /\ loading' = TRUE
  /\ kind' = [kind EXCEPT ![w] = "bash"]
  /\ slot' = w
  /\ Goto(w, "bash")
  /\ UNCHANGED <<frameVars, callVars, uiVars, quit, inbox, activeProv,
                 hostModel, history, iter, taken, original, snapshot, decision,
                 call, result, commands>>

(* /model and the model picker: first the provider, then the model.        *)
ChangeModel(m) ==
  /\ LoopFree
  /\ Command("model")
  /\ activeProv' = Owner[m]
  /\ choosing' = m
  /\ Mark({"change"})
  /\ UNCHANGED <<loading, frameVars, callVars, shown, override, live, saved,
                 quit, inbox, hostModel, history, slot, taskVars>>

SetModel ==
  /\ ~quit
  /\ choosing # NoModel
  /\ hostModel' = choosing
  /\ shown' = choosing
  /\ choosing' = NoModel
  /\ UNCHANGED <<loading, frameVars, callVars, override, live, saved, quit,
                 inbox, activeProv, history, slot, taskVars, marks, commands>>

(* /use: the shown model follows the provider, the host's does not. *)
Use(p) ==
  /\ LoopFree
  /\ Command("use")
  /\ activeProv' = p
  /\ \E m \in {n \in Model : Owner[n] = p} : shown' = m
  /\ Mark({"use"})
  /\ UNCHANGED <<loading, frameVars, callVars, override, live, choosing, saved,
                 quit, inbox, hostModel, history, slot, taskVars>>

(* Effect::SetNextTurnModelOverride *)
SetOverride(m) ==
  /\ LoopFree
  /\ Command("override")
  /\ override' = m
  /\ UNCHANGED <<loading, frameVars, callVars, shown, live, choosing, saved,
                 quit, inbox, hostVars, taskVars, marks>>

(* Mutation: the gate on is_loading is left out. *)
ResumeUngated ==
  /\ LoopFree
  /\ Command("resume")
  /\ history' = <<Resumed>>
  /\ live' = {}
  /\ UNCHANGED <<loading, frameVars, callVars, shown, override, choosing, saved,
                 quit, inbox, activeProv, hostModel, slot, taskVars, marks>>

(* /resume, from the prompt or from the picker. *)
Resume ==
  /\ LoopFree
  /\ ~loading
  /\ Command("resume")
  /\ history' = <<Resumed>>
  /\ live' = {}
  /\ Mark(IF \E v \in Worker : Alive(v) THEN {"overlap"} ELSE {})
  /\ UNCHANGED <<loading, frameVars, callVars, shown, override, choosing, saved,
                 quit, inbox, activeProv, hostModel, slot, taskVars>>

(* The end of a forced disconnect's grace period: the calls registered     *)
(* under the provider are aborted, and the turn whose channel is installed *)
(* is told, whichever turn the provider's lease belonged to.  The send is  *)
(* a try_send.                                                             *)
GraceExpires ==
  /\ ~quit
  /\ Command("abort")
  /\ \E w \in Worker \cup {Nobody}, sent \in BOOLEAN :
       /\ w # Nobody \/ sent
       /\ w # Nobody => call[w] = "running"
       /\ call' = IF w = Nobody THEN call ELSE [call EXCEPT ![w] = "gone"]
       /\ sent => slot # Nobody
       /\ IF sent THEN Post(slot, "aborted") ELSE UNCHANGED inbox
       /\ Mark(IF sent /\ w # slot THEN {"notice"} ELSE {})
  /\ UNCHANGED <<loopVars, hostVars, kind, pc, iter, taken, original, snapshot,
                 decision, result>>

(* Quitting closes the frame of the turn that runs or was announced. *)
Quit ==
  /\ LoopFree
  /\ quit' = TRUE
  /\ currentTurn' = None
  /\ opened' = NoFrame
  /\ IF currentTurn # None
     THEN closed' = Close(opened, FALSE, Nobody) /\ UNCHANGED pendingTurn
     ELSE /\ pendingTurn' = None
          /\ closed' = IF pendingTurn = None THEN closed
                       ELSE Close([id |-> pendingTurn, by |-> Nobody], FALSE,
                                  Nobody)
  /\ UNCHANGED <<loading, nextTurn, seen, strays, callVars, uiVars, inbox,
                 hostVars, taskVars, marks, commands>>

-----------------------------------------------------------------------------
Turn(w) ==
  \/ ApplyOverride(w) \/ TakeSnapshot(w) \/ ReadProvider(w) \/ ReadModel(w)
  \/ LoopLimit(w) \/ Iterate(w) \/ ReplyError(w) \/ ReplyTools(w) \/ ToolEnds(w)
  \/ Commit(w) \/ SendComplete(w) \/ ObserveCancel(w) \/ ObserveAbort(w)
  \/ DetachedEnds(w) \/ Restore(w) \/ Report(w) \/ BashEnds(w)

Handle(w) ==
  \/ HandleRoute(w) \/ HandleFirst(w) \/ HandleNext(w) \/ HandleDelta(w)
  \/ HandleToolStart(w) \/ HandleToolEnd(w) \/ HandleComplete(w)
  \/ HandleStopped(w) \/ HandleError(w) \/ HandleRestored(w)
  \/ HandleBashDone(w)

User ==
  \/ \E w \in Worker : Submit(w) \/ SubmitBash(w)
  \/ SubmitBlocked \/ SetModel \/ Resume \/ Quit
  \/ \E m \in Model : ChangeModel(m) \/ SetOverride(m)
  \/ \E p \in Provider : Use(p)

(* After run_app has returned nothing reads the messages any more. *)
Next ==
  \/ User
  \/ GraceExpires
  \/ \E w \in Worker : (~quit /\ Turn(w)) \/ Handle(w)

Spec == Init /\ [][Next]_vars

(* Tokio polls every task that is ready, the loop drains its channel and   *)
(* finishes the command it is in; a provider call ends.                    *)
FairSpec ==
  /\ Spec
  /\ WF_vars(SetModel)
  /\ \A w \in Worker : WF_vars(~quit /\ Turn(w)) /\ WF_vars(Handle(w))

-----------------------------------------------------------------------------
(* Properties *)

TypeOK ==
  /\ {loading, seen, quit} \subseteq BOOLEAN
  /\ {nextTurn, currentTurn, pendingTurn, nextCall, lastCall} \subseteq Nat
  /\ calls \subseteq 1..nextCall
  /\ {shown, hostModel} \subseteq Model
  /\ {override, choosing} \subseteq Model \cup {NoModel}
  /\ activeProv \in Provider
  /\ live \subseteq Worker /\ strays \subseteq Worker
  /\ slot \in Worker \cup {Nobody}
  /\ kind \in [Worker -> {"none", "prompt", "bash"}]
  /\ pc \in [Worker -> Pcs]
  /\ iter \in [Worker -> 0..MaxIterations]
  /\ call \in [Worker -> {"none", "running", "detached", "gone"}]
  /\ result \in [Worker -> {"none", "ok", "err"}]
  /\ \A i \in DOMAIN inbox : inbox[i].from \in Worker /\ inbox[i].kind \in Kinds
  /\ \A i \in DOMAIN history : history[i] \in Worker \cup {Resumed}
  /\ marks \subseteq {"overlap", "notice", "use", "change"}
  /\ commands \in 0..MaxCommands

(* What the plugins see of turns, in whatever order the messages of any    *)
(* workers arrive: TurnStart ids count 1, 2, 3, ..., a frame is closed     *)
(* before the next one opens, the loop's own counters agree with it, and   *)
(* quitting leaves no frame open.                                          *)
FramesNest ==
  /\ \A i \in DOMAIN closed : closed[i].id = i
  /\ opened.id = currentTurn
  /\ currentTurn # None => currentTurn = Len(closed) + 1
  /\ quit => opened = NoFrame /\ currentTurn = None

(* Unless turns overlap or a disconnect of another provider gave notice to *)
(* the running turn, each prompt gets one frame, opened and closed by its  *)
(* own messages and reporting its own result.                              *)
Undisturbed == marks \cap {"overlap", "notice"} = {}

FramesAreTruthful ==
  Undisturbed /\ ~quit =>
    /\ strays = {}
    /\ \A w \in Worker :
         LET mine == {i \in DOMAIN closed : w \in {closed[i].by, closed[i].ender}}
         IN kind[w] = "prompt" /\ ~Alive(w) =>
              \E i \in DOMAIN closed :
                /\ mine = {i}
                /\ closed[i].by = w /\ closed[i].ender = w
                /\ closed[i].ok = (result[w] = "ok")

(* is_loading guards what must not happen during a turn (/resume, /bash,   *)
(* the next prompt): when it is down, no turn is still going to commit.    *)
MayCommit(w) ==
  \/ pc[w] \in {"apply", "snapshot", "provider", "model", "top", "tool"}
  \/ pc[w] = "racing" /\ call[w] = "running"

IdleMeansNoTurn == Undisturbed /\ ~loading => \A w \in Worker : ~MayCommit(w)

(* Unless turns overlap, what a turn committed or /resume loaded is never  *)
(* dropped by a turn that started from an older history, and the           *)
(* transcript written when a turn completes contains that turn.            *)
Extends(old, new) == Len(old) <= Len(new) /\ SubSeq(new, 1, Len(old)) = old
HistoryIsKept ==
  [][ "overlap" \in marks'
      \/ /\ Extends(history, history') \/ history' = <<Resumed>>
         /\ \A w \in Worker :
              HandleComplete(w) => \E i \in DOMAIN saved' : saved'[i] = w ]_vars

(* A one-turn override is used by exactly the turn it was given for, and   *)
(* every other turn uses the model on the screen when it was submitted:    *)
(* when nothing is under way the host's model is the one on the screen.    *)
Quiet == choosing = NoModel /\ inbox = <<>> /\ \A w \in Worker : ~Alive(w)
OverrideIsForOneTurn ==
  marks \cap {"overlap", "use", "change"} = {} =>
    /\ \A w \in Worker :
         decision[w].model # NoModel =>
           decision[w].model = IF taken[w] = NoModel THEN original[w] ELSE taken[w]
    /\ Quiet => hostModel = shown

(* The text of two turns is never in the same assistant entry. *)
AnswersAreNotMixed == "overlap" \notin marks => Cardinality(live) <= 1

(* The user gets the prompt back, whatever the turn runs into. *)
LoadingEnds == loading ~> (~loading \/ quit)

=============================================================================
