---------------------------- MODULE ProviderPool ----------------------------
(***************************************************************************)
(* The provider pool of otto-host and the calls that race on it:           *)
(* run_turn (one lease, one cancel subscription and one spawned provider   *)
(* call per iteration), remove_provider in its two modes, add_provider and *)
(* set_active_provider.                                                    *)
(*                                                                         *)
(* A pool entry is identified by <<p, g>>: the g-th PoolEntry built for    *)
(* the provider id p, so that a provider that is disconnected and          *)
(* connected again is a new entry under the old id.  The broadcast sender  *)
(* kept in Host::cancel_signal is named by the generation whose            *)
(* add_provider call created it.                                           *)
(***************************************************************************)
EXTENDS Integers, FiniteSets

CONSTANTS
  Provider,       \* provider ids
  Turn,           \* the run_turn calls of the session
  Disconnect,     \* the remove_provider calls of the session
  Modes,          \* the DisconnectModes used: a subset of {"drain", "force"}
  MaxIterations,  \* HostConfig::max_iterations
  MaxGen          \* bound: PoolEntry values built for one provider id

ASSUME ConstantsAssumption ==
  /\ IsFiniteSet(Turn)
  /\ Modes \subseteq {"drain", "force"}
  /\ MaxIterations \in Nat \ {0}
  /\ MaxGen \in Nat \ {0}

Gen == 1..MaxGen
Absent == 0                       \* no entry, or no sender, under this id
Entry == Provider \X Gen
NoEntry == <<"none", Absent>>
NoTurn == <<"none">>              \* Host::current_turn_events holds None
Call == Turn \X (1..MaxIterations)

VARIABLES
  pool,          \* Host::pool: the connected generation of each id, or Absent
  built,         \* the number of PoolEntry values built for each id so far
  activeTurns,   \* PoolEntry::active_turns of each entry
  active,        \* Host::active_provider
  switching,     \* set_active_provider calls between their check and write
  cancelSignal,  \* Host::cancel_signal: the sender of each id, or Absent
  connecting,    \* add_provider calls between pool insert and sender insert
  handles,       \* Host::turn_handles: the calls registered under each id
  slot,          \* Host::current_turn_events: whose channel is installed
  pc,            \* where each run_turn call stands
  prov,          \* the provider its RoutingDecision pinned
  iter,          \* its iteration counter
  sub,           \* the sender its cancel receiver belongs to (Absent: dropped)
  signalled,     \* a cancellation is queued in its receiver
  holds,         \* the entry its ProviderLease is on, or NoEntry
  outcome,       \* what run_turn returned
  notices,       \* terminal TurnEvents sent on its event channel
  call,          \* the spawned provider calls
  rpc,           \* where each remove_provider call stands
  mode,          \* its DisconnectMode
  target         \* the entry it took out of the pool

hostVars == <<pool, built, active, switching, cancelSignal, connecting>>
turnVars == <<pc, prov, iter, sub, signalled, holds, outcome>>
removeVars == <<rpc, mode, target>>
vars == <<hostVars, activeTurns, handles, slot, turnVars, notices, call,
          removeVars>>

-----------------------------------------------------------------------------
(* Helpers *)

Connected(p) == pool[p] # Absent
Current(p) == <<p, pool[p]>>

(* A receiver whose sender is no longer owned by the map: recv() is Err.   *)
SenderGone(t) == sub[t] = Absent \/ cancelSignal[prov[t]] # sub[t]

(* The call spawned by t's current iteration. *)
CurrentCall(t) == <<t, iter[t]>>

(* Mutation: a busy flag, store(1), in place of the counter. *)
LeaseAsFlag(t, e) ==
  /\ activeTurns' = [activeTurns EXCEPT ![e] = 1]
  /\ holds' = [holds EXCEPT ![t] = e]

(* Mutation: an explicit decrement on top of the one in Drop. *)
DropLeaseTwice(t) ==
  /\ activeTurns' = [activeTurns EXCEPT ![holds[t]] = @ - 2]
  /\ holds' = [holds EXCEPT ![t] = NoEntry]

(* ProviderLease: the counter goes up on lease() and down on Drop. *)
Lease(t, e) ==
  /\ activeTurns' = [activeTurns EXCEPT ![e] = @ + 1]
  /\ holds' = [holds EXCEPT ![t] = e]

DropLease(t) ==
  /\ activeTurns' = [activeTurns EXCEPT ![holds[t]] = @ - 1]
  /\ holds' = [holds EXCEPT ![t] = NoEntry]

(* run_turn returns: the receiver is dropped with its frame, and           *)
(* CurrentTurnEventsGuard clears the shared slot, whoever installed it.    *)
Return(t, result) ==
  /\ pc' = [pc EXCEPT ![t] = "done"]
  /\ outcome' = [outcome EXCEPT ![t] = result]
  /\ slot' = NoTurn
  /\ sub' = [sub EXCEPT ![t] = Absent]
  /\ signalled' = [signalled EXCEPT ![t] = FALSE]

Init ==
  \E connected \in SUBSET Provider :
    /\ pool = [p \in Provider |-> IF p \in connected THEN 1 ELSE Absent]
    /\ built = pool
    /\ activeTurns = [e \in Entry |-> 0]
    /\ active \in connected
    /\ switching = {}
    /\ cancelSignal = pool
    /\ connecting = [p \in Provider |-> Absent]
    /\ handles = [p \in Provider |-> {}]
    /\ slot = NoTurn
    /\ pc = [t \in Turn |-> "idle"]
    /\ prov = [t \in Turn |-> active]
    /\ iter = [t \in Turn |-> 0]
    /\ sub = [t \in Turn |-> Absent]
    /\ signalled = [t \in Turn |-> FALSE]
    /\ holds = [t \in Turn |-> NoEntry]
    /\ outcome = [t \in Turn |-> "none"]
    /\ notices = [t \in Turn |-> {}]
    /\ call = [c \in Call |-> "unspawned"]
    /\ rpc = [d \in Disconnect |-> "idle"]
    /\ mode \in [Disconnect -> Modes]
    /\ target = [d \in Disconnect |-> NoEntry]

-----------------------------------------------------------------------------
(* run_turn *)

(* Install the events channel, route, pin the decision.  Every layer of    *)
(* the router but the last picks a connected provider; the last falls      *)
(* through to the active id, connected or not.                             *)
StartTurn(t) ==
  /\ pc[t] = "idle"
  /\ \E p \in {q \in Provider : Connected(q)} \cup {active} :
       prov' = [prov EXCEPT ![t] = p]
  /\ slot' = t
  /\ pc' = [pc EXCEPT ![t] = "top"]
  /\ UNCHANGED <<hostVars, activeTurns, handles, iter, sub, signalled, holds,
                 outcome, notices, call, removeVars>>

LoopLimit(t) ==
  /\ pc[t] = "top"
  /\ iter[t] >= MaxIterations
  /\ Return(t, "loopLimit")
  /\ UNCHANGED <<hostVars, activeTurns, handles, prov, iter, holds, notices,
                 call, removeVars>>

(* Top of the loop: subscribe to cancel_signal before leasing.  Without a  *)
(* sender in the map the receiver is one whose sender is already dropped.  *)
Subscribe(t) ==
  /\ pc[t] = "top"
  /\ iter[t] < MaxIterations
  /\ iter' = [iter EXCEPT ![t] = @ + 1]
  /\ sub' = [sub EXCEPT ![t] = cancelSignal[prov[t]]]
  /\ pc' = [pc EXCEPT ![t] = "subscribed"]
  /\ UNCHANGED <<hostVars, activeTurns, handles, slot, prov, signalled, holds,
                 outcome, notices, call, removeVars>>

(* Lease the entry under the pool's read lock and spawn the call. *)
AcquireLease(t) ==
  /\ pc[t] = "subscribed"
  /\ Connected(prov[t])
  /\ Lease(t, Current(prov[t]))
  /\ call' = [call EXCEPT ![CurrentCall(t)] = "running"]
  /\ pc' = [pc EXCEPT ![t] = "leased"]
  /\ UNCHANGED <<hostVars, handles, slot, prov, iter, sub, signalled, outcome,
                 notices, removeVars>>

NoActiveProvider(t) ==
  /\ pc[t] = "subscribed"
  /\ ~Connected(prov[t])
  /\ Return(t, "noProvider")
  /\ UNCHANGED <<hostVars, activeTurns, handles, prov, iter, holds, notices,
                 call, removeVars>>

(* Mutation: the turn subscribes only once its call is registered. *)
RegisterHandleThenSubscribe(t) ==
  /\ pc[t] = "leased"
  /\ handles' = [handles EXCEPT ![prov[t]] = @ \cup {CurrentCall(t)}]
  /\ pc' = [pc EXCEPT ![t] = "racing"]
  /\ sub' = [sub EXCEPT ![t] = cancelSignal[prov[t]]]
  /\ signalled' = [signalled EXCEPT ![t] = FALSE]
  /\ UNCHANGED <<hostVars, activeTurns, slot, prov, iter, holds, outcome,
                 notices, call, removeVars>>

RegisterHandle(t) ==
  /\ pc[t] = "leased"
  /\ handles' = [handles EXCEPT ![prov[t]] = @ \cup {CurrentCall(t)}]
  /\ pc' = [pc EXCEPT ![t] = "racing"]
  /\ UNCHANGED <<hostVars, activeTurns, slot, prov, iter, sub, signalled,
                 holds, outcome, notices, call, removeVars>>

(* The select! of the call against the cancel receiver.  Either ready      *)
(* branch may win.                                                         *)
Replied(t) ==
  /\ pc[t] = "racing"
  /\ call[CurrentCall(t)] = "finished"
  /\ DropLease(t)
  /\ sub' = [sub EXCEPT ![t] = Absent]
  /\ signalled' = [signalled EXCEPT ![t] = FALSE]
  /\ pc' = [pc EXCEPT ![t] = "replied"]
  /\ UNCHANGED <<hostVars, handles, slot, prov, iter, outcome, notices, call,
                 removeVars>>

(* The hard abort of remove_provider surfaces as a cancelled JoinError. *)
ObserveAbort(t) ==
  /\ pc[t] = "racing"
  /\ call[CurrentCall(t)] = "aborted"
  /\ DropLease(t)
  /\ Return(t, "cancelled")
  /\ UNCHANGED <<hostVars, handles, prov, iter, notices, call, removeVars>>

(* A panic of the call fails the turn; its handle is not pruned. *)
ObservePanic(t) ==
  /\ pc[t] = "racing"
  /\ call[CurrentCall(t)] = "panicked"
  /\ DropLease(t)
  /\ Return(t, "panicked")
  /\ UNCHANGED <<hostVars, handles, prov, iter, notices, call, removeVars>>

(* Cooperative cancel: the Cancelled event is sent, with the lease still   *)
(* held, and only then the lease is dropped.  The JoinHandle is dropped    *)
(* with the select!, which detaches the spawned call.                      *)
ObserveCancel(t) ==
  /\ pc[t] = "racing"
  /\ signalled[t] \/ SenderGone(t)
  /\ pc' = [pc EXCEPT ![t] = "cancelling"]
  /\ notices' = [notices EXCEPT ![t] = @ \cup {"Cancelled"}]
  /\ UNCHANGED <<hostVars, activeTurns, handles, slot, prov, iter, sub,
                 signalled, holds, outcome, call, removeVars>>

FinishCancel(t) ==
  /\ pc[t] = "cancelling"
  /\ DropLease(t)
  /\ Return(t, "cancelled")
  /\ UNCHANGED <<hostVars, handles, prov, iter, notices, call, removeVars>>

(* Prune the finished handles of the provider, then act on the response:   *)
(* a provider error, a final answer, or tool calls.                        *)
PruneHandles(t) ==
  handles' = [handles EXCEPT ![prov[t]] =
                {c \in @ : call[c] = "running"}]

ProviderError(t) ==
  /\ pc[t] = "replied"
  /\ PruneHandles(t)
  /\ Return(t, "providerError")
  /\ UNCHANGED <<hostVars, activeTurns, prov, iter, holds, notices, call,
                 removeVars>>

CompleteTurn(t) ==
  /\ pc[t] = "replied"
  /\ PruneHandles(t)
  /\ notices' = [notices EXCEPT ![t] = @ \cup {"TurnComplete"}]
  /\ Return(t, "ok")
  /\ UNCHANGED <<hostVars, activeTurns, prov, iter, holds, call, removeVars>>

ToolUses(t) ==
  /\ pc[t] = "replied"
  /\ PruneHandles(t)
  /\ pc' = [pc EXCEPT ![t] = "tools"]
  /\ UNCHANGED <<hostVars, activeTurns, slot, prov, iter, sub, signalled,
                 holds, outcome, notices, call, removeVars>>

(* A `task` tool call: the subagent loop leases the active provider once   *)
(* for its whole life and calls the client directly, outside turn_handles  *)
(* and without a cancel receiver.                                          *)
StartSubagent(t) ==
  /\ pc[t] = "tools"
  /\ Connected(active)
  /\ Lease(t, Current(active))
  /\ pc' = [pc EXCEPT ![t] = "subagent"]
  /\ UNCHANGED <<hostVars, handles, slot, prov, iter, sub, signalled, outcome,
                 notices, call, removeVars>>

(* Mutation: the subagent's lease outlives its loop. *)
EndSubagentKeepingLease(t) ==
  /\ pc[t] = "subagent"
  /\ pc' = [pc EXCEPT ![t] = "tools"]
  /\ UNCHANGED <<hostVars, activeTurns, handles, slot, prov, iter, sub,
                 signalled, holds, outcome, notices, call, removeVars>>

EndSubagent(t) ==
  /\ pc[t] = "subagent"
  /\ DropLease(t)
  /\ pc' = [pc EXCEPT ![t] = "tools"]
  /\ UNCHANGED <<hostVars, handles, slot, prov, iter, sub, signalled, outcome,
                 notices, call, removeVars>>

(* All tool results are in: the next iteration. *)
FinishTools(t) ==
  /\ pc[t] = "tools"
  /\ pc' = [pc EXCEPT ![t] = "top"]
  /\ UNCHANGED <<hostVars, activeTurns, handles, slot, prov, iter, sub,
                 signalled, holds, outcome, notices, call, removeVars>>

(* The provider answers a spawned call, or the call panics, whoever still  *)
(* waits for it.                                                           *)
CallFinishes(c) ==
  /\ call[c] = "running"
  /\ \E end \in {"finished", "panicked"} :
       call' = [call EXCEPT ![c] = end]
  /\ UNCHANGED <<hostVars, activeTurns, handles, slot, turnVars, notices,
                 removeVars>>

-----------------------------------------------------------------------------
(* add_provider *)

(* Under the pool's write lock.  One call at a time for a provider id. *)
InsertEntry(p) ==
  /\ ~Connected(p)
  /\ connecting[p] = Absent
  /\ built[p] < MaxGen
  /\ built' = [built EXCEPT ![p] = @ + 1]
  /\ pool' = [pool EXCEPT ![p] = built[p] + 1]
  /\ connecting' = [connecting EXCEPT ![p] = built[p] + 1]
  /\ UNCHANGED <<activeTurns, active, switching, cancelSignal, handles, slot,
                 turnVars, notices, call, removeVars>>

(* entry(id).or_insert_with(..): a sender already in the map stays. *)
EnsureSender(p) ==
  /\ connecting[p] # Absent
  /\ cancelSignal' = [cancelSignal EXCEPT
       ![p] = IF @ = Absent THEN connecting[p] ELSE @]
  /\ connecting' = [connecting EXCEPT ![p] = Absent]
  /\ UNCHANGED <<pool, built, activeTurns, active, switching, handles, slot,
                 turnVars, notices, call, removeVars>>

-----------------------------------------------------------------------------
(* set_active_provider: the check and the write are under different locks. *)

CheckActive(p) ==
  /\ Connected(p)
  /\ switching' = switching \cup {p}
  /\ UNCHANGED <<pool, built, active, cancelSignal, connecting, activeTurns,
                 handles, slot, turnVars, notices, call, removeVars>>

WriteActive(p) ==
  /\ p \in switching
  /\ active' = p
  /\ switching' = switching \ {p}
  /\ UNCHANGED <<pool, built, cancelSignal, connecting, activeTurns, handles,
                 slot, turnVars, notices, call, removeVars>>

-----------------------------------------------------------------------------
(* remove_provider *)

(* Mutation: the entry stays eligible while the call waits. *)
TakeEntryLate(d, p) ==
  /\ rpc[d] = "idle"
  /\ Connected(p)
  /\ target' = [target EXCEPT ![d] = Current(p)]
  /\ rpc' = [rpc EXCEPT ![d] =
               IF mode[d] = "drain" THEN "draining" ELSE "signalling"]
  /\ UNCHANGED <<hostVars, activeTurns, handles, slot, turnVars, notices,
                 call, mode>>

TakeEntry(d, p) ==
  /\ rpc[d] = "idle"
  /\ Connected(p)
  /\ target' = [target EXCEPT ![d] = Current(p)]
  /\ pool' = [pool EXCEPT ![p] = Absent]
  /\ rpc' = [rpc EXCEPT ![d] =
               IF mode[d] = "drain" THEN "draining" ELSE "signalling"]
  /\ UNCHANGED <<built, activeTurns, active, switching, cancelSignal,
                 connecting, handles, slot, turnVars, notices, call, mode>>

(* Mutation: the drain does not wait. *)
DrainedAtOnce(d) ==
  /\ rpc[d] = "draining"
  /\ rpc' = [rpc EXCEPT ![d] = "cleanup"]
  /\ UNCHANGED <<hostVars, activeTurns, handles, slot, turnVars, notices,
                 call, mode, target>>

(* Drain: the poll that reads a zero counter ends the wait. *)
Drained(d) ==
  /\ rpc[d] = "draining"
  /\ activeTurns[target[d]] = 0
  /\ rpc' = [rpc EXCEPT ![d] = "cleanup"]
  /\ UNCHANGED <<hostVars, activeTurns, handles, slot, turnVars, notices,
                 call, mode, target>>

(* Mutation: one broadcast channel for all providers. *)
SignalEveryone(d) ==
  /\ rpc[d] = "signalling"
  /\ signalled' = [t \in Turn |-> signalled[t] \/ sub[t] # Absent]
  /\ rpc' = [rpc EXCEPT ![d] = "grace"]
  /\ UNCHANGED <<hostVars, activeTurns, handles, slot, pc, prov, iter, sub,
                 holds, outcome, notices, call, mode, target>>

(* Force, stage 1: broadcast to every receiver of the id's sender. *)
Signal(d) ==
  /\ rpc[d] = "signalling"
  /\ LET p == target[d][1]
     IN  signalled' = [t \in Turn |->
           \/ signalled[t]
           \/ prov[t] = p /\ sub[t] # Absent /\ sub[t] = cancelSignal[p]]
  /\ rpc' = [rpc EXCEPT ![d] = "grace"]
  /\ UNCHANGED <<hostVars, activeTurns, handles, slot, pc, prov, iter, sub,
                 holds, outcome, notices, call, mode, target>>

(* Force, stage 2: the grace poll reads a zero counter. *)
GraceMet(d) ==
  /\ rpc[d] = "grace"
  /\ activeTurns[target[d]] = 0
  /\ rpc' = [rpc EXCEPT ![d] = "cleanup"]
  /\ UNCHANGED <<hostVars, activeTurns, handles, slot, turnVars, notices,
                 call, mode, target>>

(* Mutation: no deadline. *)
NoDeadline(d) ==
  /\ rpc[d] = "grace"
  /\ FALSE
  /\ UNCHANGED vars

(* Force, stage 3: a poll reads leases that are out and a deadline that    *)
(* passed...                                                               *)
GraceExpired(d) ==
  /\ rpc[d] = "grace"
  /\ activeTurns[target[d]] > 0
  /\ rpc' = [rpc EXCEPT ![d] = "aborting"]
  /\ UNCHANGED <<hostVars, activeTurns, handles, slot, turnVars, notices,
                 call, mode, target>>

(* ... every call registered under the id by then is aborted...            *)
HardAbort(d) ==
  /\ rpc[d] = "aborting"
  /\ LET p == target[d][1]
     IN  /\ call' = [c \in Call |->
              IF c \in handles[p] /\ call[c] = "running"
                THEN "aborted" ELSE call[c]]
         /\ handles' = [handles EXCEPT ![p] = {}]
  /\ rpc' = [rpc EXCEPT ![d] = "notifying"]
  /\ UNCHANGED <<hostVars, activeTurns, slot, turnVars, notices, mode, target>>

(* ... and AbortedAfterGrace goes to the turn whose channel is installed   *)
(* (try_send: lost when the channel is full).                              *)
NotifyAborted(d) ==
  /\ rpc[d] = "notifying"
  /\ \/ UNCHANGED notices
     \/ /\ slot # NoTurn
        /\ notices' = [notices EXCEPT ![slot] = @ \cup {"AbortedAfterGrace"}]
  /\ rpc' = [rpc EXCEPT ![d] = "cleanup"]
  /\ UNCHANGED <<hostVars, activeTurns, handles, slot, turnVars, call, mode,
                 target>>

(* Both modes: drop the id's sender from the map and return. *)
DropSender(d) ==
  /\ rpc[d] = "cleanup"
  /\ cancelSignal' = [cancelSignal EXCEPT ![target[d][1]] = Absent]
  /\ rpc' = [rpc EXCEPT ![d] = "done"]
  /\ UNCHANGED <<pool, built, activeTurns, active, switching, connecting,
                 handles, slot, turnVars, notices, call, mode, target>>

-----------------------------------------------------------------------------
TurnStep(t) ==
  \/ LoopLimit(t) \/ Subscribe(t) \/ AcquireLease(t) \/ NoActiveProvider(t)
  \/ RegisterHandle(t) \/ Replied(t) \/ ObserveAbort(t) \/ ObservePanic(t)
  \/ ObserveCancel(t) \/ FinishCancel(t)
  \/ ProviderError(t) \/ CompleteTurn(t) \/ ToolUses(t)

DisconnectStep(d) ==
  \/ Drained(d) \/ Signal(d) \/ GraceMet(d) \/ GraceExpired(d)
  \/ HardAbort(d) \/ NotifyAborted(d) \/ DropSender(d)

Next ==
  \/ \E t \in Turn :
       \/ StartTurn(t) \/ TurnStep(t)
       \/ StartSubagent(t) \/ EndSubagent(t) \/ FinishTools(t)
  \/ \E c \in Call : CallFinishes(c)
  \/ \E p \in Provider :
       \/ InsertEntry(p) \/ EnsureSender(p)
       \/ CheckActive(p) \/ WriteActive(p)
  \/ \E d \in Disconnect :
       (\E p \in Provider : TakeEntry(d, p)) \/ DisconnectStep(d)

Spec == Init /\ [][Next]_vars

(***************************************************************************)
(* Fairness.  Tokio polls every ready task, so each step a turn or a       *)
(* disconnect can take by itself is eventually taken.  A provider may      *)
(* never answer: only Answering adds that it does.                         *)
(***************************************************************************)
Scheduling ==
  /\ \A t \in Turn : WF_vars(TurnStep(t))
  /\ \A d \in Disconnect : WF_vars(DisconnectStep(d))
  /\ \A p \in Provider : WF_vars(EnsureSender(p)) /\ WF_vars(WriteActive(p))

Answering ==
  /\ \A c \in Call : WF_vars(CallFinishes(c))
  /\ \A t \in Turn : WF_vars(EndSubagent(t))

FairSpec == Spec /\ Scheduling

-----------------------------------------------------------------------------
(* Properties *)

TurnPC == {"idle", "top", "subscribed", "leased", "racing", "cancelling",
           "replied", "tools", "subagent", "done"}
Leasing == {"leased", "racing", "cancelling", "subagent"}
Outcome == {"none", "ok", "loopLimit", "noProvider", "providerError",
            "cancelled", "panicked"}
AfterBroadcast == {"grace", "aborting", "notifying", "cleanup", "done"}
RemovePC == {"idle", "draining", "signalling"} \cup AfterBroadcast

(* Every variable has its type; in particular the lease counter, an         *)
(* AtomicUsize, is never decremented below zero.                           *)
TypeOK ==
  /\ pool \in [Provider -> Gen \cup {Absent}]
  /\ built \in [Provider -> Gen \cup {Absent}]
  /\ activeTurns \in [Entry -> Nat]
  /\ active \in Provider
  /\ switching \subseteq Provider
  /\ cancelSignal \in [Provider -> Gen \cup {Absent}]
  /\ connecting \in [Provider -> Gen \cup {Absent}]
  /\ handles \in [Provider -> SUBSET Call]
  /\ slot \in Turn \cup {NoTurn}
  /\ pc \in [Turn -> TurnPC]
  /\ prov \in [Turn -> Provider]
  /\ iter \in [Turn -> 0..MaxIterations]
  /\ sub \in [Turn -> Gen \cup {Absent}]
  /\ signalled \in [Turn -> BOOLEAN]
  /\ holds \in [Turn -> Entry \cup {NoEntry}]
  /\ outcome \in [Turn -> Outcome]
  /\ notices \in [Turn -> SUBSET {"TurnComplete", "Cancelled",
                                  "AbortedAfterGrace"}]
  /\ call \in [Call -> {"unspawned", "running", "finished", "aborted",
                      "panicked"}]
  /\ rpc \in [Disconnect -> RemovePC]
  /\ mode \in [Disconnect -> Modes]
  /\ target \in [Disconnect -> Entry \cup {NoEntry}]

Holders(e) == {t \in Turn : holds[t] = e}

(* PoolEntry::active_turns counts exactly the leases that are out: no path *)
(* out of an iteration leaks a lease or drops one twice.                   *)
LeasesCounted ==
  \A e \in Entry : activeTurns[e] = Cardinality(Holders(e))

(* Once a drain has stopped waiting, nobody holds, and nobody will hold, a *)
(* lease on the entry it removed, whatever was connected meanwhile.        *)
DrainedIsUnused ==
  \A d \in Disconnect :
    mode[d] = "drain" /\ rpc[d] \in {"cleanup", "done"}
      => Holders(target[d]) = {}

(* The window that subscribing before leasing closes: once a forced        *)
(* disconnect has broadcast, every turn waiting for a provider call on the *)
(* removed entry has the cancellation in its receiver.                     *)
ForceReachesEveryCall ==
  \A d \in Disconnect, t \in Turn :
    (/\ mode[d] = "force" /\ rpc[d] \in AfterBroadcast
     /\ pc[t] \in {"leased", "racing"}
     /\ holds[t] = target[d])
    => signalled[t] \/ SenderGone(t)

(* The refinement mapping: an entry's stage read off the pool, the         *)
(* generation counter and the remove_provider call that took it.           *)
Remover(e) == CHOOSE d \in Disconnect : target[d] = e

StageOf(e) ==
  IF pool[e[1]] = e[2] THEN "connected"
  ELSE IF built[e[1]] < e[2] THEN "unbuilt"
  ELSE LET d == Remover(e)
           over == rpc[d] \in {"cleanup", "done"}
       IN  IF mode[d] = "drain"
             THEN IF over THEN "drained" ELSE "draining"
             ELSE IF over THEN "forced" ELSE "forcing"

Lifecycle == INSTANCE EntryLifecycle WITH
  User <- Turn,
  stage <- [e \in Entry |-> StageOf(e)],
  users <- [e \in Entry |-> Holders(e)]

(* The pool keeps the promise of EntryLifecycle through every interleaving *)
(* of turns, subagents, connects and disconnects.                          *)
ImplementsLifecycle == Lifecycle!Spec

(* A disconnect reaches no further than its provider: a turn is cancelled, *)
(* or its call aborted, only by a call that removed the provider it is     *)
(* routed to, unless its receiver never had a sender.                      *)
DisconnectsAreIsolated ==
  \A t \in Turn :
    (\/ pc[t] = "cancelling" /\ sub[t] # Absent
     \/ iter[t] > 0 /\ call[CurrentCall(t)] = "aborted")
    => \E d \in Disconnect :
         /\ target[d][1] = prov[t]
         /\ rpc[d] \in AfterBroadcast

(* A forced disconnect returns although a provider or a subagent never     *)
(* finishes, and frees every turn that waits for the removed entry.        *)
ForceEnds ==
  \A d \in Disconnect :
    /\ rpc[d] = "signalling" ~> rpc[d] = "done"
    /\ \A t \in Turn :
         rpc[d] = "grace" /\ pc[t] \in {"leased", "racing"} /\ holds[t] = target[d]
           ~> holds[t] # target[d]

(* A drain, which has no deadline, returns if the providers answer.        *)
DrainReturns ==
  Answering => \A d \in Disconnect : rpc[d] = "draining" ~> rpc[d] = "done"
=============================================================================
