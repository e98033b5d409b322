----------------------------- MODULE HostSetup -----------------------------
(***************************************************************************)
(* How the TUI gets a host (otto/src/main.rs): it starts one from the      *)
(* stored keys, tells the plugins that it is starting, drains what they    *)
(* queued (a provider for the pool, the gate of the user's hooks, the      *)
(* in-process tools) and runs its event loop, where /connect may build the *)
(* first host or add a provider to the pool, /use switches the active      *)
(* provider, and the task a /disconnect spawned removes a provider at any  *)
(* moment.  Drains and removals are the only ones to act on the host       *)
(* besides the event loop, so the awaits of a connection are steps.        *)
(***************************************************************************)
EXTENDS Integers, Sequences, SequencesExt, FiniteSetsExt

CONSTANTS
  Priority,     \* the provider plugins in the order they are tried
  MaxCommands   \* bound: commands the user gives

Provider == Range(Priority)
None == "none"

ASSUME SetupAssumption ==
  /\ Priority \in Seq(STRING) /\ IsInjective(Priority) /\ None \notin Provider
  /\ MaxCommands \in Nat

VARIABLES
  keys,      \* providers with a key in the keyring
  pc,        \* where the TUI stands
  subject,   \* the provider a connection or /use is about
  startup,   \* the first event loop iteration is still to come
  up,        \* host_slot holds a host
  pool,      \* Host::pool
  active,    \* Host::active_provider
  gate,      \* Host::pre_tool_gate is set
  tools,     \* the in-process tools are registered
  shown,     \* App::active_provider_id, or None
  queuedAdd, \* App::pending_pool_add, or None
  queued,    \* pending_gate and pending_in_process_tools hold something
  leaving,   \* providers a /disconnect task is about to remove
  bornEarly, \* the host was built before the event loop (history variable)
  strayed,   \* shown was set where the host did not follow (history variable)
  ungated,   \* a turn ran on a host without the gate (history variable)
  commands   \* commands given so far

host == <<up, pool, active, gate, tools>>
queue == <<queuedAdd, queued>>
history == <<bornEarly, strayed, ungated>>
vars == <<keys, host, queue, history, pc, subject, startup, shown,
          leaving, commands>>

First(set) == Priority[Min({i \in DOMAIN Priority : Priority[i] \in set})]

Init ==
  /\ keys \in SUBSET Provider
  /\ pc = "bootstrap" /\ subject = None /\ startup = TRUE
  /\ up = FALSE /\ pool = {} /\ active = None /\ gate = FALSE /\ tools = FALSE
  /\ shown = None /\ queuedAdd = None /\ queued = {}
  /\ leaving = {}
  /\ bornEarly = FALSE /\ strayed = FALSE /\ ungated = FALSE /\ commands = 0

(***************************************************************************)
(* bootstrap_pool_host and Host::start: of the providers whose registration*)
(* was built in time the host takes those that startup_connect allows, and *)
(* activates the first.  What the TUI shows is the provider that OTTO_MODEL*)
(* names, if it was built, whether or not the policy lets it in.           *)
(***************************************************************************)
Bootstrap ==
  /\ pc = "bootstrap" /\ pc' = "starting"
  /\ \E built \in SUBSET keys, allowed \in SUBSET Provider,
        named \in Provider \cup {None}, starts \in BOOLEAN :
       IF built \cap allowed = {} \/ ~starts
       THEN UNCHANGED <<host, shown, history>>
       ELSE /\ up' = TRUE /\ pool' = built \cap allowed
            /\ active' = First(pool')
            /\ shown' = IF named \in built THEN named ELSE active'
            /\ bornEarly' = TRUE /\ strayed' = (shown' # active')
            /\ UNCHANGED <<gate, tools, ungated>>
  /\ UNCHANGED <<keys, queue, subject, startup, leaving, commands>>

(***************************************************************************)
(* HostStarting: user-hooks queues its gate, user-skills and user-agents   *)
(* their tools, and every provider plugin with a stored key a pool add,    *)
(* for which there is one place: the last one to run keeps it.             *)
(***************************************************************************)
HostStartingGateFirst ==                          \* mutant: swapped drains
  /\ pc = "starting" /\ pc' = "drainAdd"
  /\ queued' = {"tools"} /\ gate' = up
  /\ queuedAdd' \in IF keys = {} THEN {None} ELSE keys
  /\ UNCHANGED <<keys, up, pool, active, tools, history, subject,
                 startup, shown, leaving, commands>>
HostStarting ==
  /\ pc = "starting" /\ pc' = "drainAdd"
  /\ queued' = {"gate", "tools"}
  /\ queuedAdd' \in IF keys = {} THEN {None} ELSE keys
  /\ UNCHANGED <<keys, host, history, subject, startup, shown, leaving,
                 commands>>

(***************************************************************************)
(* A provider whose key was accepted: the first one of a session gets a    *)
(* new host, which has neither gate nor tools; otherwise it joins the      *)
(* pool, unless it is there.  `done' is where the caller goes on then.     *)
(***************************************************************************)
AddProvider(p, done) ==
  IF up /\ p \in pool
  THEN pc' = done /\ UNCHANGED <<host, history>>
  ELSE /\ pc' = "check"
       /\ up' = TRUE /\ pool' = pool \cup {p}
       /\ active' = IF up THEN active ELSE p
       /\ bornEarly' = IF up THEN bornEarly ELSE startup
       /\ UNCHANGED <<gate, tools, strayed, ungated>>

(***************************************************************************)
(* apply_pending_pool_add at startup; the key is validated once more.      *)
(***************************************************************************)
DrainAdd ==
  /\ pc = "drainAdd" /\ queuedAdd' = None
  /\ subject' = queuedAdd
  /\ \/ pc' = "drainGate" /\ UNCHANGED <<host, history>>
     \/ queuedAdd # None /\ AddProvider(queuedAdd, "drainGate")
  /\ UNCHANGED <<keys, queued, startup, shown, leaving, commands>>

Continue == IF startup THEN "drainGate" ELSE "loop"

(***************************************************************************)
(* The added provider becomes the active one if the TUI has none, or if    *)
(* the host's is no longer in the pool: only then is set_active_provider   *)
(* called, which refuses a provider that has left in the meantime.         *)
(***************************************************************************)
CheckActive ==
  /\ pc = "check"
  /\ IF shown = None \/ active \notin pool
     THEN shown' = subject /\ pc' = "promote"
     ELSE shown' = shown /\ pc' = Continue
  /\ UNCHANGED <<keys, host, queue, history, subject, startup, leaving,
                 commands>>

PromoteShownOnly ==                               \* mutant: the host is not told
  /\ pc = "promote" /\ pc' = Continue
  /\ UNCHANGED <<keys, host, queue, history, subject, startup, shown,
                 leaving, commands>>
Promote ==
  /\ pc = "promote" /\ pc' = Continue
  /\ active' = IF subject \in pool THEN subject ELSE active
  /\ strayed' = (shown # active')
  /\ UNCHANGED <<keys, up, pool, gate, tools, queue, bornEarly, ungated,
                 subject, startup, shown, leaving, commands>>

(***************************************************************************)
(* apply_pending_gate and apply_pending_in_process_tools: what is queued   *)
(* is dropped when there is no host.                                       *)
(***************************************************************************)
DrainGateUnhosted ==                              \* mutant: no host needed
  /\ pc = "drainGate" /\ pc' = "drainTools"
  /\ queued' = queued \ {"gate"}
  /\ gate' = (gate \/ "gate" \in queued)
  /\ UNCHANGED <<keys, up, pool, active, tools, queuedAdd, history,
                 subject, startup, shown, leaving, commands>>
DrainGate ==
  /\ pc = "drainGate" /\ pc' = "drainTools"
  /\ queued' = queued \ {"gate"}
  /\ gate' = (gate \/ (up /\ "gate" \in queued))
  /\ UNCHANGED <<keys, up, pool, active, tools, queuedAdd, history,
                 subject, startup, shown, leaving, commands>>

DrainTools ==
  /\ pc = "drainTools" /\ pc' = "loop" /\ startup' = FALSE
  /\ queued' = queued \ {"tools"}
  /\ tools' = (tools \/ (up /\ "tools" \in queued))
  /\ UNCHANGED <<keys, up, pool, active, gate, queuedAdd, history,
                 subject, shown, leaving, commands>>

(***************************************************************************)
(* The event loop.                                                         *)
(***************************************************************************)
Command ==
  pc = "loop" /\ commands < MaxCommands /\ commands' = commands + 1

Connect(p) ==
  /\ Command
  /\ keys' = keys \cup {p} /\ subject' = p
  /\ \/ pc' = pc /\ UNCHANGED <<host, history>>       \* the key was refused
     \/ AddProvider(p, "loop")
  /\ UNCHANGED <<queue, startup, shown, leaving>>

Use(p) ==
  /\ Command /\ up /\ p \in pool
  /\ pc' = "use" /\ subject' = p
  /\ UNCHANGED <<keys, host, queue, history, startup, shown, leaving>>

(***************************************************************************)
(* set_active_provider writes the id after it gave up the pool lock under  *)
(* which it found the provider.                                            *)
(***************************************************************************)
UseWrites ==
  /\ pc = "use" /\ pc' = "loop"
  /\ active' = subject /\ shown' = subject /\ strayed' = FALSE
  /\ UNCHANGED <<keys, up, pool, gate, tools, queue, bornEarly, ungated,
                 subject, startup, leaving, commands>>

Disconnect(p) ==
  /\ Command /\ up /\ p \in pool
  /\ leaving' = leaving \cup {p}
  /\ UNCHANGED <<keys, host, queue, history, pc, subject, startup, shown>>

(***************************************************************************)
(* The spawned task: remove_provider, which a later /connect may have      *)
(* overtaken.                                                              *)
(***************************************************************************)
Removed(p) ==
  /\ p \in leaving /\ leaving' = leaving \ {p}
  /\ pool' = pool \ {p}
  /\ UNCHANGED <<keys, up, active, gate, tools, queue, history, pc,
                 subject, startup, shown, commands>>

(***************************************************************************)
(* A turn that its active provider serves; its tool calls ask the gate.    *)
(***************************************************************************)
RunTurn ==
  /\ Command /\ up /\ active \in pool
  /\ ungated' = (ungated \/ ~gate)
  /\ UNCHANGED <<keys, host, queue, bornEarly, strayed, pc, subject,
                 startup, shown, leaving>>

Next ==
  \/ Bootstrap \/ HostStarting \/ DrainAdd \/ CheckActive \/ Promote
  \/ DrainGate \/ DrainTools \/ UseWrites \/ RunTurn
  \/ \E p \in Provider : Connect(p) \/ Use(p) \/ Disconnect(p) \/ Removed(p)

Spec == Init /\ [][Next]_vars

-----------------------------------------------------------------------------
TypeOK ==
  /\ keys \subseteq Provider
  /\ pc \in {"bootstrap", "starting", "drainAdd", "check", "promote",
             "drainGate", "drainTools", "loop", "use"}
  /\ subject \in Provider \cup {None}
  /\ {startup, up, gate, tools, bornEarly, strayed, ungated} \subseteq BOOLEAN
  /\ pool \subseteq Provider /\ active \in Provider \cup {None}
  /\ shown \in Provider \cup {None} /\ queuedAdd \in Provider \cup {None}
  /\ queued \subseteq {"gate", "tools"}
  /\ leaving \subseteq Provider /\ commands \in 0..MaxCommands
  /\ ~up => pool = {} /\ active = None /\ ~gate /\ ~tools

(***************************************************************************)
(* A host that exists when the event loop starts, also one that the        *)
(* startup drain had to build, has the gate of the user's hooks and the    *)
(* in-process tools: no turn of such a session runs past the hooks.        *)
(***************************************************************************)
EarlyHostIsGuarded ==
  (~startup /\ up /\ bornEarly) => gate /\ tools

(***************************************************************************)
(* What the TUI shows as the active provider is the one the host routes    *)
(* to, across startup, first connections, repairs and switches, except     *)
(* after OTTO_MODEL named a provider the policy kept out, or the provider  *)
(* being promoted was removed on the way.                                  *)
(***************************************************************************)
ShownIsActive ==
  (pc = "loop" /\ up /\ ~strayed) => shown = active
=============================================================================
