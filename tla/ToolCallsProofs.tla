--------------------------- MODULE ToolCallsProofs ---------------------------
(***************************************************************************)
(* Theorems about ToolCalls, for any tasks, tools and diversions and any   *)
(* number of calls.  The first part is about the tool-bash server, the     *)
(* second about the prompts: every waiting call has its entry, a refused   *)
(* call never runs, a command only has the network that the user granted,  *)
(* and, while nothing else takes the keyboard, every prompt reaches him.   *)
(***************************************************************************)
EXTENDS ToolCalls, SequenceTheorems, TLAPS

(* What TypeOK says of the variables that LazyBash::dispatch works on.      *)
ServerTypes ==
  /\ bashLock \in Tasks \cup {None}
  /\ server \in BOOLEAN \cup {None}
  /\ cache \in BOOLEAN \cup {None}
  /\ allow \in [Tasks -> BOOLEAN]
  /\ pc \in [Tasks -> Places]

(* Exactly the holder of LazyBash::active is inside the dispatch.          *)
Locked == \A t \in Tasks : pc[t] \in InBash <=> bashLock = t

(* Which processes there are, by where the holder stands: two only between  *)
(* the start of a new server and the end of the old one.                   *)
InPlace == \A t \in Tasks : pc[t] \notin {"retiring", "installing"}
Processes ==
  /\ InPlace => live = {server} \ {None}
  /\ \A t \in Tasks :
       /\ pc[t] = "retiring" => /\ server # allow[t]
                                /\ live = ({server} \ {None}) \cup {allow[t]}
       /\ pc[t] = "installing" => server = None /\ live = {allow[t]}
       /\ pc[t] = "running" => server = allow[t]

ServerInv == ServerTypes /\ Locked /\ Processes

-----------------------------------------------------------------------------
(* Steps outside LazyBash::dispatch *)

(* A step of task t outside the dispatch, whatever it resolves for its call *)
(* or puts into the session's cache.                                       *)
LEMMA Outside ==
  ASSUME ServerInv,
         NEW t \in Tasks, NEW place \in Places \ InBash,
         pc[t] \notin InBash, Goto(t, place),
         NEW net \in BOOLEAN, allow' \in {allow, [allow EXCEPT ![t] = net]},
         cache' \in BOOLEAN \cup {None},
         UNCHANGED <<bashLock, server, live>>
  PROVE  ServerInv'
  <1>1. \A u \in Tasks : u # t => pc'[u] = pc[u] /\ allow'[u] = allow[u]
    BY DEF Goto, ServerInv, ServerTypes
  <1>2. pc'[t] = place
    BY DEF Goto, ServerInv, ServerTypes
  <1>3. ServerTypes'
    BY DEF Goto, ServerInv, ServerTypes
  <1>4. Locked'
    BY <1>1, <1>2 DEF ServerInv, Locked
  <1>5. Processes'
    BY <1>1, <1>2 DEF ServerInv, Processes, InPlace, InBash
  <1>6. QED
    BY <1>3, <1>4, <1>5 DEF ServerInv

(* A step that moves no task. *)
LEMMA Elsewhere ==
  ASSUME ServerInv, UNCHANGED <<pc, allow, cache, bashLock, server, live>>
  PROVE  ServerInv'
  BY DEF ServerInv, ServerTypes, Locked, Processes, InPlace

-----------------------------------------------------------------------------
(* Steps of the task that is inside LazyBash::dispatch *)

USE DEF hostVars, lockVars, bashVars, callVars, taskVars, modalVars, tuiVars,
        history

(* While one task is inside, the others are outside and stay there.         *)
LEMMA OthersOutside ==
  ASSUME ServerInv, NEW t \in Tasks, pc[t] \in InBash \/ bashLock = None,
         NEW place \in Places, Goto(t, place),
         UNCHANGED <<cache, allow>>,
         server' \in BOOLEAN \cup {None},
         bashLock' = IF place \in InBash THEN t ELSE None
  PROVE  /\ ServerTypes'
         /\ Locked'
         /\ pc'[t] = place
         /\ \A u \in Tasks : u # t => pc'[u] = pc[u] /\ pc[u] \notin InBash
  <1>1. ServerTypes'
    BY ToolCallsAssumption DEF Goto, ServerInv, ServerTypes
  <1>2. /\ pc'[t] = place
        /\ \A u \in Tasks : u # t => pc'[u] = pc[u]
    BY DEF Goto, ServerInv, ServerTypes
  <1>3. \A u \in Tasks : u # t => pc[u] \notin InBash
    BY ToolCallsAssumption DEF ServerInv, Locked
  <1>4. Locked'
    BY <1>2, <1>3, ToolCallsAssumption DEF ServerInv, Locked
  <1>5. QED
    BY <1>1, <1>2, <1>3, <1>4

LEMMA DispatchStep ==
  ASSUME ServerInv, NEW t \in Tasks,
         \/ EnterBash(t) \/ Reuse(t) \/ Spawn(t) \/ Retire(t) \/ Install(t)
         \/ SpawnFails(t) \/ CommandEnds(t)
  PROVE  ServerInv'
  <1>1. CASE EnterBash(t)
    <2>1. /\ ServerTypes' /\ Locked' /\ pc'[t] = "holding"
          /\ \A u \in Tasks : u # t => pc'[u] = pc[u] /\ pc[u] \notin InBash
      BY <1>1, OthersOutside DEF EnterBash, InBash, Places, ServerInv, ServerTypes
    <2>2. Processes'
      BY <1>1, <2>1 DEF EnterBash, ServerInv, Processes, InPlace, InBash
    <2>3. QED
      BY <2>1, <2>2 DEF ServerInv
  <1>2. CASE Reuse(t)
    <2>1. /\ ServerTypes' /\ Locked' /\ pc'[t] = "running"
          /\ \A u \in Tasks : u # t => pc'[u] = pc[u] /\ pc[u] \notin InBash
      BY <1>2, OthersOutside DEF Reuse, InBash, Places, ServerInv, ServerTypes, Locked
    <2>2. Processes'
      BY <1>2, <2>1 DEF Reuse, ServerInv, Processes, InPlace, InBash
    <2>3. QED
      BY <2>1, <2>2 DEF ServerInv
  <1>3. CASE Spawn(t)
    <2>1. /\ ServerTypes' /\ Locked' /\ pc'[t] = "retiring"
          /\ \A u \in Tasks : u # t => pc'[u] = pc[u] /\ pc[u] \notin InBash
      BY <1>3, OthersOutside DEF Spawn, InBash, Places, ServerInv, ServerTypes, Locked
    <2>2. Processes'
      BY <1>3, <2>1 DEF Spawn, ServerInv, Processes, InPlace, InBash
    <2>3. QED
      BY <2>1, <2>2 DEF ServerInv
  <1>4. CASE Retire(t)
    <2>1. /\ ServerTypes' /\ Locked' /\ pc'[t] = "installing"
          /\ \A u \in Tasks : u # t => pc'[u] = pc[u] /\ pc[u] \notin InBash
      BY <1>4, OthersOutside DEF Retire, InBash, Places, ServerInv, ServerTypes, Locked
    <2>2. Processes'
      BY <1>4, <2>1, ToolCallsAssumption
      DEF Retire, ServerInv, ServerTypes, Processes, InPlace, InBash
    <2>3. QED
      BY <2>1, <2>2 DEF ServerInv
  <1>5. CASE Install(t)
    <2>1. /\ ServerTypes' /\ Locked' /\ pc'[t] = "running"
          /\ \A u \in Tasks : u # t => pc'[u] = pc[u] /\ pc[u] \notin InBash
      BY <1>5, OthersOutside DEF Install, InBash, Places, ServerInv, ServerTypes, Locked
    <2>2. Processes'
      BY <1>5, <2>1, ToolCallsAssumption
      DEF Install, ServerInv, ServerTypes, Processes, InPlace, InBash
    <2>3. QED
      BY <2>1, <2>2 DEF ServerInv
  <1>6. CASE SpawnFails(t) \/ CommandEnds(t)
    <2>1. AfterCall(t) \in Places \ InBash
      BY DEF AfterCall, Places, InBash
    <2>2. /\ pc[t] \in {"holding", "running"}
          /\ bashLock' = None /\ Goto(t, AfterCall(t))
          /\ UNCHANGED <<cache, allow, server, live>>
      BY <1>6 DEF SpawnFails, CommandEnds, Leave
    <2>3. /\ ServerTypes' /\ Locked' /\ pc'[t] = AfterCall(t)
          /\ \A u \in Tasks : u # t => pc'[u] = pc[u] /\ pc[u] \notin InBash
      BY <2>1, <2>2, OthersOutside DEF InBash, ServerInv, ServerTypes
    <2>4. Processes'
      BY <2>1, <2>2, <2>3 DEF ServerInv, Processes, InPlace, InBash
    <2>5. QED
      BY <2>3, <2>4 DEF ServerInv
  <1>7. QED
    BY <1>1, <1>2, <1>3, <1>4, <1>5, <1>6

-----------------------------------------------------------------------------
(* The other steps of the tasks *)

LEMMA AfterCallOutside == ASSUME NEW t \in Tasks
                          PROVE  AfterCall(t) \in Places \ InBash
  BY DEF AfterCall, Places, InBash

(* Those that end or start something else than a call. *)
LEMMA TurnStep ==
  ASSUME ServerInv, NEW t \in Tasks,
         \/ InstallEvents(t) \/ ListTools(t)
         \/ Complete(t) \/ Fail(t) \/ Return(t)
         \/ SubmitTurn(t) \/ BashReady(t)
  PROVE  ServerInv'
  <1>1. PICK place \in {"listing", "entering", "calling", "ending", "done",
                        "spawned"} : Goto(t, place)
    BY DEF InstallEvents, ListTools, Complete, Fail, Return, SubmitTurn,
           BashReady
  <1>2. /\ pc[t] \in {"idle", "spawned", "listing", "calling", "ending"}
        /\ UNCHANGED <<allow, cache, bashLock, server, live>>
    BY DEF InstallEvents, ListTools, Complete, Fail, Return, SubmitTurn,
           BashReady
  <1>3. /\ place \in Places \ InBash
        /\ pc[t] \notin InBash
        /\ cache' \in BOOLEAN \cup {None}
    BY <1>1, <1>2 DEF Places, InBash, ServerInv, ServerTypes
  <1>4. QED
    BY <1>1, <1>2, <1>3, Outside

(* Those of the permission gate and the dispatch to a tool. *)
LEMMA GateStep ==
  ASSUME ServerInv, NEW t \in Tasks,
         \/ \E x \in Tools : Allowed(t, x) \/ AskPermission(t, x)
         \/ Verdict(t) \/ HookBlocks(t) \/ Dispatch(t) \/ EnterTools(t)
         \/ SubagentCall(t) \/ SubagentEnds(t)
  PROVE  ServerInv'
  <1>1. PICK place \in {"allowed", "asking", "calling", "subagent", "entering",
                        "resolving", AfterCall(t)} : Goto(t, place)
    BY DEF Allowed, AskPermission, Verdict, HookBlocks, Dispatch, EnterTools,
           SubagentCall, SubagentEnds
  <1>2. /\ pc[t] \in {"calling", "asking", "allowed", "entering", "subagent"}
        /\ UNCHANGED <<allow, cache, bashLock, server, live>>
    BY DEF Allowed, AskPermission, Call, Verdict, HookBlocks, Dispatch,
           EnterTools, SubagentCall, SubagentEnds
  <1>3. /\ place \in Places \ InBash
        /\ pc[t] \notin InBash
        /\ cache' \in BOOLEAN \cup {None}
    BY <1>1, <1>2, AfterCallOutside DEF Places, InBash, ServerInv, ServerTypes
  <1>4. QED
    BY <1>1, <1>2, <1>3, Outside

(* Those of HostBashNetResolver. *)
LEMMA ResolverStep ==
  ASSUME ServerInv, NEW t \in Tasks,
         \/ Override(t) \/ UseCached(t) \/ DenyUnasked(t) \/ AskNetwork(t)
         \/ ReadChoice(t) \/ WriteCache(t)
  PROVE  ServerInv'
  <1>1. PICK place \in {"prompting", "caching", "waiting"} : Goto(t, place)
    BY DEF Override, UseCached, DenyUnasked, Unasked, AskNetwork, ReadChoice,
           WriteCache, Resolved
  <1>2. /\ pc[t] \in {"resolving", "prompting", "caching"}
        /\ UNCHANGED <<bashLock, server, live>>
    BY DEF Override, UseCached, DenyUnasked, Unasked, AskNetwork, ReadChoice,
           WriteCache
  <1>3. cache' \in BOOLEAN \cup {None}
    BY DEF Override, UseCached, DenyUnasked, Unasked, AskNetwork, ReadChoice,
           WriteCache, ServerInv, ServerTypes
  <1>4. PICK net \in BOOLEAN : allow' \in {allow, [allow EXCEPT ![t] = net]}
    <2>1. CASE Override(t)
      BY <2>1 DEF Override, Resolved
    <2>2. CASE UseCached(t)
      BY <2>2 DEF UseCached, Resolved, ServerInv, ServerTypes
    <2>3. CASE DenyUnasked(t)
      BY <2>3 DEF DenyUnasked, Unasked, Resolved
    <2>4. CASE AskNetwork(t) \/ WriteCache(t)
      BY <2>4 DEF AskNetwork, WriteCache
    <2>5. CASE ReadChoice(t)
      <3> DEFINE net == IF cache # None THEN cache
                                        ELSE reply[t] \in {"once", "always"}
      <3>1. net \in BOOLEAN
        <4>1. CASE cache # None
          BY <4>1 DEF ServerInv, ServerTypes
        <4>2. CASE cache = None
          <5>1. (reply[t] \in {"once", "always"}) \in BOOLEAN
            OBVIOUS
          <5>2. QED
            BY <4>2, <5>1
        <4>3. QED
          BY <4>1, <4>2
      <3>2. allow' = [allow EXCEPT ![t] = net]
        BY <2>5 DEF ReadChoice
      <3>3. QED
        BY <3>1, <3>2
    <2>6. QED
      BY <2>1, <2>2, <2>3, <2>4, <2>5
  <1>5. place \in Places \ InBash /\ pc[t] \notin InBash
    BY <1>1, <1>2 DEF Places, InBash
  <1>6. QED
    BY <1>1, <1>2, <1>3, <1>4, <1>5, Outside

-----------------------------------------------------------------------------
(* The invariant *)

LEMMA ServerInit == Init => ServerInv
  <1> SUFFICES ASSUME Init PROVE ServerInv
    OBVIOUS
  <1>1. ServerTypes
    BY DEF Init, ServerTypes, Places
  <1>2. Locked
    BY ToolCallsAssumption DEF Init, Locked, InBash
  <1>3. Processes
    BY DEF Init, Processes, InPlace
  <1>4. QED
    BY <1>1, <1>2, <1>3 DEF ServerInv

LEMMA ServerStep == ASSUME ServerInv, [Next]_vars PROVE ServerInv'
  <1>1. ASSUME NEW t \in Tasks, TaskStep(t) PROVE ServerInv'
    <2>1. ASSUME NEW x \in Tools, Denied(t, x) PROVE ServerInv'
      BY <2>1, Elsewhere DEF Denied, Call
    <2>2. QED
      BY <1>1, <2>1, TurnStep, GateStep, ResolverStep, DispatchStep DEF TaskStep
  <1>2. CASE NotifyAborted
    BY <1>2, Elsewhere DEF NotifyAborted
  <1>3. ASSUME NEW a \in answers, Deliver(a) PROVE ServerInv'
    BY <1>3, Elsewhere DEF Deliver
  <1>4. CASE LoopStep
    <2>1. ASSUME NEW t \in Tasks, Receive(t) PROVE ServerInv'
      BY <2>1, Elsewhere DEF Receive
    <2>2. ASSUME NEW t \in Tasks, SubmitTurn(t) \/ BashReady(t)
          PROVE  ServerInv'
      BY <2>2, TurnStep
    <2>3. ASSUME NEW o \in Overrides, SubmitBash(o) PROVE ServerInv'
      BY <2>3, Elsewhere DEF SubmitBash
    <2>4. ASSUME NEW d \in Verdicts, NEW persist \in BOOLEAN,
                 AnswerPermission(d, persist)
          PROVE  ServerInv'
      BY <2>4, Elsewhere DEF AnswerPermission
    <2>5. ASSUME NEW c \in Choices, AnswerNetwork(c) PROVE ServerInv'
      BY <2>5, Elsewhere DEF AnswerNetwork
    <2>6. CASE ReadTools \/ ToolsRead \/ Exit \/ Quit
      BY <2>6, Elsewhere DEF ReadTools, ToolsRead, Exit, Quit
    <2>7. CASE OpenScreen \/ CloseScreen \/ Divert \/ Undivert
      BY <2>7, Elsewhere DEF OpenScreen, CloseScreen, Divert, Undivert
    <2>8. QED
      BY <1>4, <2>1, <2>2, <2>3, <2>4, <2>5, <2>6, <2>7 DEF LoopStep, UserAnswers
  <1>5. CASE UNCHANGED vars
    BY <1>5, Elsewhere DEF vars
  <1>6. QED
    BY <1>1, <1>2, <1>3, <1>4, <1>5 DEF Next

LEMMA ServerInvariance == Spec => []ServerInv
  BY ServerInit, ServerStep, PTL DEF Spec

(* A command runs from start to end in a server with the access that was   *)
(* resolved for it: LazyBash::dispatch keeps its mutex across the call.     *)
THEOREM CommandsGetTheirServer == Spec => []ServerMatchesCommand
<1>1. ServerInv => ServerMatchesCommand
  BY DEF ServerInv, Processes, ServerMatchesCommand
<1> QED
  BY <1>1, ServerInvariance, PTL

(* A respawn, finished or failed, leaves one process, and it is the one in  *)
(* the slot.                                                               *)
THEOREM ServersAreNotLeaked == Spec => []OneServer
<1>1. ServerInv => OneServer
  <2> SUFFICES ASSUME ServerInv, bashLock = None PROVE live = {server} \ {None}
    BY DEF OneServer
  <2>1. \A t \in Tasks : pc[t] \notin InBash
    BY ToolCallsAssumption DEF ServerInv, Locked
  <2>2. InPlace
    BY <2>1 DEF InPlace, InBash
  <2>3. QED
    BY <2>2 DEF ServerInv, Processes
<1> QED
  BY <1>1, ServerInvariance, PTL

(* The new server is started before the old one is cancelled, so that there *)
(* is one at every moment after the first.                                 *)
THEOREM ServersAreReplaced == Spec => ServerIsKept
<1>1. ASSUME ServerInv, [Next]_vars PROVE [live # {} => live' # {}]_vars
  <2>1. ASSUME NEW t \in Tasks, Retire(t) PROVE live' # {}
    <3>1. allow[t] \in live /\ server # allow[t]
      BY <1>1, <2>1 DEF Retire, ServerInv, Processes
    <3>2. allow[t] \in live'
      BY <2>1, <3>1 DEF Retire
    <3>3. QED
      BY <3>2
  <2>2. ASSUME NEW t \in Tasks, Spawn(t) PROVE live' # {}
    BY <2>2 DEF Spawn
  <2>3. ASSUME NEW t \in Tasks, TaskStep(t), ~Retire(t), ~Spawn(t)
        PROVE  UNCHANGED live
    BY <2>3 DEF TaskStep, InstallEvents, ListTools, Complete, Fail, Return,
                Allowed, Denied, AskPermission, Call, Verdict, HookBlocks,
                Dispatch, EnterTools, SubagentCall, SubagentEnds, Override,
                UseCached, DenyUnasked, Unasked, AskNetwork, ReadChoice,
                WriteCache, EnterBash, Reuse, Install, SpawnFails, CommandEnds,
                Leave
  <2>4. ASSUME NotifyAborted \/ \E a \in answers : Deliver(a)
        PROVE  UNCHANGED live
    BY <2>4 DEF NotifyAborted, Deliver
  <2>5. ASSUME LoopStep PROVE UNCHANGED live
    BY <2>5 DEF LoopStep, UserAnswers, Receive, SubmitTurn, BashReady,
                SubmitBash, ReadTools, ToolsRead, AnswerPermission,
                AnswerNetwork, OpenScreen, CloseScreen, Divert, Undivert, Quit,
                Exit
  <2>6. QED
    BY <1>1, <2>1, <2>2, <2>3, <2>4, <2>5 DEF Next, vars
<1> QED
  BY <1>1, ServerInvariance, PTL DEF Spec, ServerIsKept

-----------------------------------------------------------------------------
USE DEF hostVars, lockVars, bashVars, callVars, taskVars, modalVars, tuiVars,
        history

(* TypeOK in parts; the modal of a network prompt shows the id of a call.   *)
HostOK ==
  /\ slot \in Tasks \cup {None}
  /\ asked \subseteq Ids /\ askedNet \subseteq Ids
  /\ rules \in [Tools -> Verdicts \cup {"ask"}]
  /\ cache \in BOOLEAN \cup {None}
LocksOK ==
  /\ toolsLock \in Tasks \cup {None} /\ bashLock \in Tasks \cup {None}
  /\ server \in BOOLEAN \cup {None} /\ live \subseteq BOOLEAN
PlacesOK ==
  /\ pc \in [Tasks -> Places] /\ kind \in [Tasks -> {"turn", "bash"}]
CallsOK ==
  /\ calls \in [Tasks -> 0..MaxCalls] /\ tool \in [Tasks -> Tools \cup {None}]
  /\ sub \in [Tasks -> BOOLEAN] /\ over \in [Tasks -> Overrides]
  /\ allow \in [Tasks -> BOOLEAN]
  /\ reply \in [Tasks -> Verdicts \cup Choices \cup {None}]
QueueOK == queue \in [Tasks -> Seq(Events)]
LoopOK ==
  /\ loop \in {"running", "checking", "reading", "quitting", "gone"}
  /\ mode \in {"editing", "permission", "network", "other"}
  /\ modal \in Ids \cup {None} /\ pending \in Ids \cup {None}
  /\ screen \in BOOLEAN /\ loading \in BOOLEAN
  /\ checking \in Overrides \cup {None}
  /\ mode = "network" => modal \in Ids
  /\ loop = "checking" => checking \in Overrides
HistoryOK ==
  /\ answers \subseteq Ids \X Choices
  /\ aborts \in 0..MaxAborts
  /\ pressed \subseteq Ids \X (Verdicts \cup Choices)
Types ==
  HostOK /\ LocksOK /\ PlacesOK /\ CallsOK /\ QueueOK /\ LoopOK /\ HistoryOK

LEMMA TypesImply == Types => TypeOK
  BY DEF Types, TypeOK, HostOK, LocksOK, PlacesOK, CallsOK, QueueOK, LoopOK,
         HistoryOK

LEMMA EventIsTyped ==
  ASSUME NEW id \in Ids
  PROVE  /\ Prompt("permission", id) \in Events /\ Prompt("network", id) \in Events
         /\ Done \in Events /\ Aborted \in Events
  BY DEF Prompt, Events, Done, Aborted

LEMMA SendIsTyped ==
  ASSUME Types, NEW t \in Tasks, NEW e \in Events, Send(t, e)
  PROVE  queue' \in [Tasks -> Seq(Events)]
<1>1. queue \in [Tasks -> Seq(Events)]
  BY DEF Types, QueueOK
<1>2. Append(queue[t], e) \in Seq(Events)
  BY <1>1, AppendProperties
<1> QED
  BY <1>1, <1>2 DEF Send

LEMMA IdIsTyped ==
  ASSUME Types, NEW t \in Tasks
  PROVE  Id(t) \in Ids /\ (calls[t] < MaxCalls => <<t, calls[t] + 1>> \in Ids
                                                  /\ calls[t] + 1 \in 0..MaxCalls)
  BY ToolCallsAssumption DEF Id, Ids, Types, CallsOK

LEMMA InitIsTyped == Init => Types
<1> SUFFICES ASSUME Init PROVE Types
  OBVIOUS
<1>1. HostOK /\ LocksOK
  BY DEF Init, HostOK, LocksOK
<1>2. PlacesOK /\ CallsOK
  BY ToolCallsAssumption DEF Init, PlacesOK, CallsOK, Places, Overrides
<1>3. QueueOK
  BY EmptySeq DEF Init, QueueOK
<1>4. LoopOK
  BY DEF Init, LoopOK
<1>5. HistoryOK
  BY ToolCallsAssumption DEF Init, HistoryOK
<1> QED
  BY <1>1, <1>2, <1>3, <1>4, <1>5 DEF Types

(* Steps of the event loop. *)
LEMMA ReceiveIsTyped ==
  ASSUME Types, NEW t \in Tasks, Receive(t)
  PROVE  Types'
<1>1. queue[t] \in Seq(Events) /\ queue[t] # <<>>
  BY DEF Types, QueueOK, Receive
<1>2. Head(queue[t]) \in Events /\ Tail(queue[t]) \in Seq(Events)
  BY <1>1, HeadTailProperties
<1>3. QueueOK'
  BY <1>2 DEF Receive, Types, QueueOK
<1>4. Head(queue[t]).what \in {"permission", "network"}
      => Head(queue[t]).id \in Ids
  BY <1>2 DEF Events, Done, Aborted, Prompt
<1>5. LoopOK'
  BY <1>4 DEF Receive, Types, LoopOK
<1>6. UNCHANGED <<hostVars, lockVars, bashVars, pc, kind, callVars, answers,
                  history>>
  BY DEF Receive
<1>7. HostOK'
  BY <1>6 DEF Types, HostOK
<1>8. LocksOK' /\ PlacesOK'
  BY <1>6 DEF Types, LocksOK, PlacesOK
<1>9. CallsOK'
  BY <1>6 DEF Types, CallsOK
<1>10. HistoryOK'
  BY <1>6 DEF Types, HistoryOK
<1> QED
  BY <1>3, <1>5, <1>7, <1>8, <1>9, <1>10 DEF Types

LEMMA LoopIsTyped ==
  ASSUME Types, LoopStep
  PROVE  Types'
<1>1. ASSUME NEW t \in Tasks, SubmitTurn(t) \/ BashReady(t) PROVE Types'
  <2>1. PlacesOK'
    BY <1>1 DEF SubmitTurn, BashReady, Goto, Types, PlacesOK, Places
  <2>2. CallsOK'
    BY <1>1 DEF SubmitTurn, BashReady, Types, CallsOK, LoopOK
  <2>3. LoopOK'
    BY <1>1 DEF SubmitTurn, BashReady, Types, LoopOK
  <2>4. UNCHANGED <<hostVars, lockVars, bashVars, queue, answers, history>>
    BY <1>1 DEF SubmitTurn, BashReady
  <2> QED
    BY <2>1, <2>2, <2>3, <2>4 DEF Types, HostOK, LocksOK, QueueOK, HistoryOK
<1>2. ASSUME \/ \E o \in Overrides : SubmitBash(o)
             \/ ReadTools \/ ToolsRead \/ Exit
             \/ OpenScreen \/ CloseScreen \/ Divert \/ Undivert
      PROVE  Types'
  <2>1. LoopOK'
    BY <1>2
    DEF SubmitBash, ReadTools, ToolsRead, Exit, OpenScreen, CloseScreen,
        Divert, Undivert, Types, LoopOK
  <2>2. UNCHANGED <<hostVars, lockVars, bashVars, taskVars, answers, history>>
    BY <1>2
    DEF SubmitBash, ReadTools, ToolsRead, Exit, OpenScreen, CloseScreen,
        Divert, Undivert
  <2> QED
    BY <2>1, <2>2
    DEF Types, HostOK, LocksOK, PlacesOK, CallsOK, QueueOK, HistoryOK
<1>3. CASE Quit
  <2>1. CallsOK'
    BY <1>3 DEF Quit, ResolveNetwork, Choices, Types, CallsOK
  <2>2. HostOK' /\ LoopOK'
    BY <1>3 DEF Quit, ResolveNetwork, Types, HostOK, LoopOK
  <2>3. UNCHANGED <<lockVars, bashVars, pc, kind, queue, answers, history>>
    BY <1>3 DEF Quit
  <2> QED
    BY <2>1, <2>2, <2>3 DEF Types, LocksOK, PlacesOK, QueueOK, HistoryOK
<1>4. ASSUME NEW c \in Choices, AnswerNetwork(c) PROVE Types'
  <2>1. LoopOK' /\ HistoryOK'
    BY <1>4 DEF AnswerNetwork, Types, LoopOK, HistoryOK
  <2>2. UNCHANGED <<hostVars, lockVars, bashVars, taskVars>>
    BY <1>4 DEF AnswerNetwork
  <2> QED
    BY <2>1, <2>2 DEF Types, HostOK, LocksOK, PlacesOK, CallsOK, QueueOK
<1>5. ASSUME NEW d \in Verdicts, NEW persist \in BOOLEAN,
             AnswerPermission(d, persist)
      PROVE  Types'
  <2>1. HostOK'
    BY <1>5 DEF AnswerPermission, Types, HostOK
  <2>2. CallsOK'
    BY <1>5 DEF AnswerPermission, Types, CallsOK
  <2>3. LoopOK'
    BY <1>5 DEF AnswerPermission, Types, LoopOK
  <2>4. HistoryOK'
    BY <1>5 DEF AnswerPermission, Types, HistoryOK, LoopOK
  <2>5. UNCHANGED <<lockVars, bashVars, pc, kind, queue>>
    BY <1>5 DEF AnswerPermission
  <2> QED
    BY <2>1, <2>2, <2>3, <2>4, <2>5 DEF Types, LocksOK, PlacesOK, QueueOK
<1> QED
  BY <1>1, <1>2, <1>3, <1>4, <1>5, ReceiveIsTyped DEF LoopStep, UserAnswers

LEMMA TaskIsTyped ==
  ASSUME Types, NEW t \in Tasks, TaskStep(t)
  PROVE  Types'
<1>1. UNCHANGED <<kind, over, rules, tuiVars, history>>
  BY DEF TaskStep, InstallEvents, ListTools, Complete, Fail, Return,
         Allowed, Denied, AskPermission, Call, Verdict, HookBlocks,
         Dispatch, EnterTools, SubagentCall, SubagentEnds, Override,
         UseCached, DenyUnasked, Unasked, AskNetwork, ReadChoice,
         WriteCache, EnterBash, Reuse, Spawn, Retire, Install, SpawnFails,
         CommandEnds, Leave
<1>2. LoopOK' /\ HistoryOK'
  BY <1>1 DEF Types, LoopOK, HistoryOK
<1>3. PlacesOK'
  <2>1. UNCHANGED pc \/ \E place \in Places : Goto(t, place)
    BY AfterCallOutside
    DEF TaskStep, InstallEvents, ListTools, Complete, Fail, Return, Allowed,
        Denied, AskPermission, Verdict, HookBlocks, Dispatch, EnterTools,
        SubagentCall, SubagentEnds, Override, UseCached, Resolved,
        DenyUnasked, Unasked, AskNetwork, ReadChoice, WriteCache, EnterBash,
        Reuse, Spawn, Retire, Install, SpawnFails, CommandEnds, Leave,
        Places
  <2> QED
    BY <1>1, <2>1 DEF Types, PlacesOK, Goto
<1>4. QueueOK'
  <2>1. CASE AskNetwork(t)
    BY <2>1, IdIsTyped, EventIsTyped, SendIsTyped
    DEF AskNetwork, Types, HostOK, QueueOK
  <2>2. ASSUME NEW x \in Tools, AskPermission(t, x) PROVE QueueOK'
    <3>1. <<t, calls[t] + 1>> \in Ids
      BY <2>2, IdIsTyped DEF AskPermission, Call
    <3> QED
      BY <2>2, <3>1, EventIsTyped, SendIsTyped DEF AskPermission, QueueOK
  <2>3. CASE Complete(t) \/ Fail(t) \/ Return(t)
    <3>1. Done \in Events
      BY DEF Events
    <3>2. Send(t, Done) \/ UNCHANGED queue
      BY <2>3 DEF Complete, Fail, Return
    <3> QED
      BY <3>1, <3>2, SendIsTyped DEF Types, QueueOK
  <2>4. \/ AskNetwork(t) \/ \E x \in Tools : AskPermission(t, x)
        \/ Complete(t) \/ Fail(t) \/ Return(t) \/ UNCHANGED queue
    BY DEF TaskStep, InstallEvents, ListTools, Allowed, Denied, Verdict,
           HookBlocks, Dispatch, EnterTools, SubagentCall, SubagentEnds,
           Override, UseCached, DenyUnasked, Unasked, ReadChoice,
           WriteCache, EnterBash, Reuse, Spawn, Retire, Install, SpawnFails,
           CommandEnds, Leave
  <2> QED
    BY <2>1, <2>2, <2>3, <2>4 DEF Types, QueueOK
<1>5. LocksOK'
  <2>1. \/ UNCHANGED <<lockVars, bashVars>>
        \/ EnterTools(t) \/ EnterBash(t) \/ Spawn(t) \/ Retire(t) \/ Install(t)
        \/ Leave(t)
    BY DEF TaskStep, InstallEvents, ListTools, Complete, Fail, Return,
           Allowed, Denied, AskPermission, Call, Verdict, HookBlocks,
           Dispatch, SubagentCall, SubagentEnds, Override, UseCached,
           DenyUnasked, Unasked, AskNetwork, ReadChoice, WriteCache, Reuse,
           SpawnFails, CommandEnds
  <2> QED
    BY <2>1
    DEF EnterTools, EnterBash, Spawn, Retire, Install, Leave, Types,
        LocksOK, CallsOK
<1>6. HostOK'
  <2>1. ASSUME NEW x \in Tools, AskPermission(t, x) PROVE HostOK'
    BY <2>1, IdIsTyped DEF AskPermission, Call, Types, HostOK
  <2>2. CASE AskNetwork(t)
    BY <2>2, IdIsTyped DEF AskNetwork, Types, HostOK
  <2>3. CASE WriteCache(t)
    BY <2>3 DEF WriteCache, Types, HostOK, CallsOK
  <2>4. CASE InstallEvents(t) \/ Fail(t) \/ Return(t)
    BY <2>4 DEF InstallEvents, Fail, Return, Types, HostOK
  <2>5. \/ UNCHANGED hostVars \/ \E x \in Tools : AskPermission(t, x)
        \/ AskNetwork(t) \/ WriteCache(t)
        \/ InstallEvents(t) \/ Fail(t) \/ Return(t)
    BY DEF TaskStep, ListTools, Complete, Allowed, Denied, Call, Verdict,
           HookBlocks, Dispatch, EnterTools, SubagentCall, SubagentEnds,
           Override, UseCached, DenyUnasked, Unasked, ReadChoice, EnterBash,
           Reuse, Spawn, Retire, Install, SpawnFails, CommandEnds, Leave
  <2> QED
    BY <2>1, <2>2, <2>3, <2>4, <2>5 DEF Types, HostOK
<1>7. CallsOK'
  <2>1. ASSUME NEW x \in Tools, Call(t, x) PROVE CallsOK'
    BY <2>1, IdIsTyped DEF Call, Types, CallsOK
  <2>2. CASE SubagentCall(t)
    BY <2>2, IdIsTyped DEF SubagentCall, Types, CallsOK
  <2>3. CASE Verdict(t)
    BY <2>3 DEF Verdict, Types, CallsOK
  <2>4. ASSUME NEW net \in BOOLEAN, Resolved(t, net),
               UNCHANGED <<calls, tool, sub, over, reply>>
        PROVE CallsOK'
    BY <2>4 DEF Resolved, Types, CallsOK
  <2>5. CASE Override(t)
    BY <2>5, <2>4 DEF Override
  <2>6. CASE UseCached(t)
    BY <2>6, <2>4 DEF UseCached, Types, HostOK
  <2>7. CASE DenyUnasked(t)
    BY <2>7, <2>4 DEF DenyUnasked, Unasked
  <2>8. CASE ReadChoice(t)
    <3>1. PICK net : /\ allow' = [allow EXCEPT ![t] = net]
                     /\ net = IF cache # None THEN cache
                              ELSE reply[t] \in {"once", "always"}
      BY <2>8 DEF ReadChoice
    <3>2. (reply[t] \in {"once", "always"}) \in BOOLEAN
      OBVIOUS
    <3>3. cache # None => cache \in BOOLEAN
      BY DEF Types, HostOK
    <3>4. net \in BOOLEAN
      BY <3>1, <3>2, <3>3
    <3>5. /\ reply' = [reply EXCEPT ![t] = None]
          /\ UNCHANGED <<calls, tool, sub, over>>
      BY <2>8 DEF ReadChoice
    <3>6. allow' = [allow EXCEPT ![t] = net]
      BY <3>1
    <3>7. allow' \in [Tasks -> BOOLEAN]
      BY <3>4, <3>6 DEF Types, CallsOK
    <3> QED
      BY <3>5, <3>7 DEF Types, CallsOK
  <2>9. \/ UNCHANGED callVars \/ \E x \in Tools : Call(t, x)
        \/ SubagentCall(t) \/ Verdict(t) \/ Override(t) \/ UseCached(t)
        \/ DenyUnasked(t) \/ ReadChoice(t)
    BY DEF TaskStep, InstallEvents, ListTools, Complete, Fail, Return,
           Allowed, Denied, AskPermission, HookBlocks, Dispatch, EnterTools,
           SubagentEnds, AskNetwork, WriteCache, EnterBash, Reuse, Spawn,
           Retire, Install, SpawnFails, CommandEnds, Leave
  <2> QED
    BY <2>1, <2>2, <2>3, <2>5, <2>6, <2>7, <2>8, <2>9 DEF Types, CallsOK
<1> QED
  BY <1>2, <1>3, <1>4, <1>5, <1>6, <1>7 DEF Types

LEMMA TypesStep == ASSUME Types, [Next]_vars PROVE Types'
<1>1. CASE NotifyAborted
  <2>1. Aborted \in Events
    BY DEF Events
  <2>2. QueueOK'
    BY <1>1, <2>1, SendIsTyped DEF NotifyAborted, Types, HostOK, QueueOK
  <2>3. HistoryOK'
    BY <1>1, ToolCallsAssumption DEF NotifyAborted, Types, HistoryOK
  <2>4. UNCHANGED <<hostVars, lockVars, bashVars, pc, kind, callVars, tuiVars>>
    BY <1>1 DEF NotifyAborted
  <2> QED
    BY <2>2, <2>3, <2>4
    DEF Types, HostOK, LocksOK, PlacesOK, CallsOK, LoopOK, HistoryOK
<1>2. ASSUME NEW a \in answers, Deliver(a) PROVE Types'
  <2>1. a \in Ids \X Choices
    BY DEF Types, HistoryOK
  <2>2. CallsOK'
    BY <1>2, <2>1 DEF Deliver, ResolveNetwork, Types, CallsOK
  <2>3. HostOK' /\ HistoryOK'
    BY <1>2 DEF Deliver, ResolveNetwork, Types, HostOK, HistoryOK
  <2>4. UNCHANGED <<lockVars, bashVars, pc, kind, queue, loop, modalVars,
                    checking>>
    BY <1>2 DEF Deliver
  <2> QED
    BY <2>2, <2>3, <2>4 DEF Types, LocksOK, PlacesOK, QueueOK, LoopOK
<1>3. CASE UNCHANGED vars
  BY <1>3
  DEF vars, Types, HostOK, LocksOK, PlacesOK, CallsOK, QueueOK, LoopOK,
      HistoryOK
<1> QED
  BY <1>1, <1>2, <1>3, LoopIsTyped, TaskIsTyped DEF Next

(* An id in a map, in a modal or in an answer is one of a call that a task  *)
(* could make.                                                             *)
THEOREM PromptsAreTyped == Spec => []TypeOK
  BY InitIsTyped, TypesStep, TypesImply, PTL DEF Spec

-----------------------------------------------------------------------------
(* Prompts and their entries *)

(* Only a call that waits has received an answer. *)
OnlyWaitingIsAnswered ==
  \A t \in Tasks : reply[t] # None => pc[t] \in {"asking", "prompting"}

AwaitInv == Types /\ OnlyWaitingIsAnswered /\ PromptsAreAwaited

(* A step of a task concerns no other task's call. *)
LEMMA OthersStay ==
  ASSUME Types, NEW t \in Tasks, TaskStep(t)
  PROVE  /\ \A u \in Tasks : u # t =>
              /\ pc'[u] = pc[u] /\ calls'[u] = calls[u] /\ sub'[u] = sub[u]
              /\ reply'[u] = reply[u] /\ allow'[u] = allow[u]
         /\ UNCHANGED <<kind, over, rules, tuiVars, history>>
<1>1. UNCHANGED <<kind, over, rules, tuiVars, history>>
  BY DEF TaskStep, InstallEvents, ListTools, Complete, Fail, Return,
         Allowed, Denied, AskPermission, Call, Verdict, HookBlocks,
         Dispatch, EnterTools, SubagentCall, SubagentEnds, Override,
         UseCached, DenyUnasked, Unasked, AskNetwork, ReadChoice,
         WriteCache, EnterBash, Reuse, Spawn, Retire, Install, SpawnFails,
         CommandEnds, Leave
<1>2. /\ UNCHANGED pc \/ \E place : Goto(t, place)
      /\ UNCHANGED calls \/ calls' = [calls EXCEPT ![t] = @ + 1]
      /\ UNCHANGED sub \/ \E b : sub' = [sub EXCEPT ![t] = b]
      /\ UNCHANGED reply \/ reply' = [reply EXCEPT ![t] = None]
  BY DEF TaskStep, InstallEvents, ListTools, Complete, Fail, Return,
         Allowed, Denied, AskPermission, Call, Verdict, HookBlocks,
         Dispatch, EnterTools, SubagentCall, SubagentEnds, Override,
         UseCached, Resolved, DenyUnasked, Unasked, AskNetwork, ReadChoice,
         WriteCache, EnterBash, Reuse, Spawn, Retire, Install, SpawnFails,
         CommandEnds, Leave
<1>3. UNCHANGED allow \/ \E b : allow' = [allow EXCEPT ![t] = b]
  BY DEF TaskStep, InstallEvents, ListTools, Complete, Fail, Return,
         Allowed, Denied, AskPermission, Call, Verdict, HookBlocks,
         Dispatch, EnterTools, SubagentCall, SubagentEnds, Override,
         UseCached, Resolved, DenyUnasked, Unasked, AskNetwork, ReadChoice,
         WriteCache, EnterBash, Reuse, Spawn, Retire, Install, SpawnFails,
         CommandEnds, Leave
<1> QED
  BY <1>1, <1>2, <1>3 DEF Goto, Types, PlacesOK, CallsOK

(* Where a step of a task leaves its own call, unless it asks: a call that  *)
(* waits moves on only with its answer, which it takes.                    *)
LEMMA MovesOn ==
  ASSUME AwaitInv, NEW t \in Tasks, TaskStep(t),
         ~AskNetwork(t), \A x \in Tools : ~AskPermission(t, x)
  PROVE  /\ pc[t] \in {"asking", "prompting"} => reply[t] # None
         /\ pc'[t] \notin {"asking", "prompting"} /\ reply'[t] = None
         /\ UNCHANGED <<asked, askedNet>>
<1> USE DEF AwaitInv, OnlyWaitingIsAnswered, Types, PlacesOK, CallsOK
<1>1. CASE Verdict(t) \/ ReadChoice(t)
  BY <1>1 DEF Verdict, ReadChoice, Goto
<1>2. CASE SpawnFails(t) \/ CommandEnds(t) \/ HookBlocks(t)
  <2>1. /\ Goto(t, AfterCall(t)) /\ UNCHANGED <<asked, askedNet, reply>>
        /\ pc[t] \in {"holding", "running", "allowed", "entering"}
    BY <1>2 DEF SpawnFails, CommandEnds, HookBlocks, Leave
  <2>2. AfterCall(t) \notin {"asking", "prompting"}
    BY DEF AfterCall
  <2> QED
    BY <2>1, <2>2 DEF Goto
<1>3. ASSUME NEW x \in Tools, Allowed(t, x) \/ Denied(t, x)
      PROVE  /\ pc[t] = "calling" /\ UNCHANGED <<asked, askedNet, reply>>
             /\ pc'[t] \in {"calling", "allowed"}
  BY <1>3 DEF Allowed, Denied, Call, Goto
<1>4. CASE \/ InstallEvents(t) \/ ListTools(t)
           \/ Complete(t) \/ Fail(t) \/ Return(t)
  BY <1>4 DEF InstallEvents, ListTools, Complete, Fail, Return, Goto
<1>5. CASE \/ Dispatch(t) \/ EnterTools(t) \/ SubagentCall(t) \/ SubagentEnds(t)
           \/ WriteCache(t)
  BY <1>5
  DEF Dispatch, EnterTools, SubagentCall, SubagentEnds, WriteCache, Goto
<1>6. CASE Override(t) \/ UseCached(t) \/ DenyUnasked(t)
  BY <1>6 DEF Override, UseCached, DenyUnasked, Unasked, Resolved, Goto
<1>7. CASE \/ EnterBash(t) \/ Reuse(t) \/ Spawn(t) \/ Retire(t) \/ Install(t)
  BY <1>7 DEF EnterBash, Reuse, Spawn, Retire, Install, Goto
<1> QED
  BY <1>1, <1>2, <1>3, <1>4, <1>5, <1>6, <1>7 DEF TaskStep

LEMMA TaskAwaits ==
  ASSUME AwaitInv, NEW t \in Tasks, TaskStep(t)
  PROVE  OnlyWaitingIsAnswered' /\ PromptsAreAwaited'
<1>0. \A u \in Tasks : u # t =>
        pc'[u] = pc[u] /\ calls'[u] = calls[u] /\ reply'[u] = reply[u]
  BY OthersStay DEF AwaitInv
<1>1. ASSUME NEW x \in Tools, AskPermission(t, x)
      PROVE  OnlyWaitingIsAnswered' /\ PromptsAreAwaited'
  <2>1. /\ pc[t] = "calling" /\ pc'[t] = "asking"
        /\ reply[t] = None /\ reply'[t] = None
        /\ calls'[t] = calls[t] + 1 /\ calls'[t] \in 0..MaxCalls
        /\ asked' = asked \cup {<<t, calls'[t]>>} /\ askedNet' = askedNet
    BY <1>1, IdIsTyped
    DEF AskPermission, Call, Goto, AwaitInv, OnlyWaitingIsAnswered, Types,
        PlacesOK, CallsOK
  <2> QED
    BY <1>0, <2>1 DEF AwaitInv, OnlyWaitingIsAnswered, PromptsAreAwaited
<1>2. CASE AskNetwork(t)
  <2>1. /\ pc[t] = "resolving" /\ pc'[t] = "prompting"
        /\ reply[t] = None /\ reply'[t] = None
        /\ calls'[t] = calls[t]
        /\ askedNet' = askedNet \cup {<<t, calls[t]>>} /\ asked' = asked
    BY <1>2
    DEF AskNetwork, Goto, Id, AwaitInv, OnlyWaitingIsAnswered, Types,
        PlacesOK, CallsOK
  <2> QED
    BY <1>0, <2>1 DEF AwaitInv, OnlyWaitingIsAnswered, PromptsAreAwaited
<1>3. CASE ~AskNetwork(t) /\ \A x \in Tools : ~AskPermission(t, x)
  BY <1>0, <1>3, MovesOn
  DEF AwaitInv, OnlyWaitingIsAnswered, PromptsAreAwaited
<1> QED
  BY <1>1, <1>2, <1>3

(* An answer that finds its entry finds its call waiting. *)
LEMMA AnswerArrives ==
  ASSUME AwaitInv, NEW id \in Ids, NEW answer \in Verdicts \cup Choices,
         UNCHANGED <<pc, calls>>,
         reply' = [reply EXCEPT ![id[1]] = answer],
         \/ id \in asked /\ asked' = asked \ {id} /\ UNCHANGED askedNet
         \/ id \in askedNet /\ askedNet' = askedNet \ {id} /\ UNCHANGED asked
  PROVE  OnlyWaitingIsAnswered' /\ PromptsAreAwaited'
<1>1. PICK t \in Tasks, n \in 0..MaxCalls : id = <<t, n>>
  BY DEF Ids
<1>2. n = calls[t] /\ reply[t] = None /\ (id \in asked => pc[t] = "asking")
      /\ (id \in askedNet => pc[t] = "prompting")
  BY <1>1 DEF AwaitInv, PromptsAreAwaited
<1>3. reply'[t] # None /\ \A u \in Tasks : u # t => reply'[u] = reply[u]
  BY <1>1, ToolCallsAssumption DEF AwaitInv, Types, CallsOK
<1> QED
  BY <1>1, <1>2, <1>3 DEF AwaitInv, OnlyWaitingIsAnswered, PromptsAreAwaited

LEMMA ResolveAwaits ==
  ASSUME AwaitInv, NEW id \in Ids, NEW c \in Choices, ResolveNetwork(id, c),
         UNCHANGED <<asked, pc, calls>>
  PROVE  OnlyWaitingIsAnswered' /\ PromptsAreAwaited'
<1>1. CASE id \in askedNet
  BY <1>1, AnswerArrives DEF ResolveNetwork
<1>2. CASE id \notin askedNet
  BY <1>2
  DEF ResolveNetwork, AwaitInv, OnlyWaitingIsAnswered, PromptsAreAwaited
<1> QED
  BY <1>1, <1>2

LEMMA AwaitStep == ASSUME AwaitInv, [Next]_vars PROVE AwaitInv'
<1>0. Types'
  BY TypesStep DEF AwaitInv
<1> SUFFICES OnlyWaitingIsAnswered' /\ PromptsAreAwaited'
  BY <1>0 DEF AwaitInv
<1>1. ASSUME UNCHANGED <<asked, askedNet, reply, calls>>,
             \/ UNCHANGED pc
             \/ \E t \in Tasks : pc[t] = "idle" /\ Goto(t, "spawned")
      PROVE  OnlyWaitingIsAnswered' /\ PromptsAreAwaited'
  BY <1>1
  DEF Goto, AwaitInv, OnlyWaitingIsAnswered, PromptsAreAwaited, Types,
      PlacesOK
<1>2. ASSUME NEW a \in answers, Deliver(a)
      PROVE  OnlyWaitingIsAnswered' /\ PromptsAreAwaited'
  <2>1. a[1] \in Ids /\ a[2] \in Choices
    BY DEF AwaitInv, Types, HistoryOK
  <2> QED
    BY <1>2, <2>1, ResolveAwaits DEF Deliver
<1>3. CASE Quit
  <2>1. CASE mode = "network"
    <3>1. modal \in Ids /\ "denyOnce" \in Choices
      BY <2>1 DEF AwaitInv, Types, LoopOK, Choices
    <3> QED
      BY <1>3, <2>1, <3>1, ResolveAwaits DEF Quit
  <2>2. CASE mode # "network"
    BY <1>1, <1>3, <2>2 DEF Quit
  <2> QED
    BY <2>1, <2>2
<1>4. ASSUME NEW d \in Verdicts, NEW persist \in BOOLEAN,
             AnswerPermission(d, persist)
      PROVE  OnlyWaitingIsAnswered' /\ PromptsAreAwaited'
  <2>1. CASE pending # None /\ pending \in asked
    BY <1>4, <2>1, AnswerArrives
    DEF AnswerPermission, AwaitInv, Types, LoopOK
  <2>2. CASE pending = None \/ pending \notin asked
    BY <1>1, <1>4, <2>2 DEF AnswerPermission
  <2> QED
    BY <2>1, <2>2
<1>5. ASSUME NEW t \in Tasks, Receive(t) \/ SubmitTurn(t) \/ BashReady(t)
      PROVE  OnlyWaitingIsAnswered' /\ PromptsAreAwaited'
  BY <1>1, <1>5 DEF Receive, SubmitTurn, BashReady
<1>6. ASSUME \/ \E o \in Overrides : SubmitBash(o)
             \/ \E c \in Choices : AnswerNetwork(c)
             \/ ReadTools \/ ToolsRead \/ Exit
             \/ OpenScreen \/ CloseScreen \/ Divert \/ Undivert
             \/ NotifyAborted \/ UNCHANGED vars
      PROVE  OnlyWaitingIsAnswered' /\ PromptsAreAwaited'
  BY <1>1, <1>6
  DEF SubmitBash, AnswerNetwork, ReadTools, ToolsRead, Exit, OpenScreen,
      CloseScreen, Divert, Undivert, NotifyAborted, vars
<1>7. CASE LoopStep
  BY <1>1, <1>3, <1>4, <1>5, <1>6, <1>7 DEF LoopStep, UserAnswers
<1>8. CASE NotifyAborted \/ \E t \in Tasks : TaskStep(t)
  BY <1>6, <1>8, TaskAwaits
<1> QED
  BY <1>2, <1>6, <1>7, <1>8 DEF Next

LEMMA AwaitInit == Init => AwaitInv
  BY InitIsTyped
  DEF Init, AwaitInv, OnlyWaitingIsAnswered, PromptsAreAwaited

LEMMA AwaitInvariance == Spec => []AwaitInv
  BY AwaitInit, AwaitStep, PTL DEF Spec

(* Each waiting call has its oneshot in the map that resolves it, and no     *)
(* oneshot outlives the wait: Host::pending and pending_bash_network agree  *)
(* with the calls.                                                         *)
THEOREM PromptsKeepTheirEntries == Spec => []PromptsAreAwaited
<1>1. AwaitInv => PromptsAreAwaited
  BY DEF AwaitInv
<1> QED
  BY <1>1, AwaitInvariance, PTL

-----------------------------------------------------------------------------
(* Network access *)

(* The access a task carries from its resolver to its command, and what the *)
(* answers on their way and the cache stand for.                           *)
Bearing == {"caching", "waiting"} \cup InBash
ForSession == \E id \in Ids : <<id, "always">> \in pressed
BearersAreGranted ==
  \A t \in Tasks : pc[t] \in Bearing /\ allow[t] => Granted(t)
CachersAreGranted ==
  \A t \in Tasks : pc[t] = "caching" /\ allow[t] => ForSession
RepliesArePressed ==
  \A t \in Tasks : pc[t] = "prompting" /\ reply[t] \in {"once", "always"}
                    => <<Id(t), reply[t]>> \in pressed
CacheIsGranted == cache = TRUE => ForSession
GrantInv ==
  /\ BearersAreGranted /\ CachersAreGranted /\ RepliesArePressed
  /\ CacheIsGranted /\ answers \subseteq pressed

LEMMA GrantInit == Init => GrantInv
  BY ToolCallsAssumption
  DEF Init, GrantInv, BearersAreGranted, CachersAreGranted,
      RepliesArePressed, CacheIsGranted, Bearing, InBash

(* More answers, and tasks that start: nothing is taken back. *)
LEMMA PressesKeepGrants ==
  ASSUME AwaitInv, GrantInv,
         UNCHANGED <<cache, calls, allow>>,
         pressed \subseteq pressed', answers' \subseteq pressed',
         \/ UNCHANGED <<pc, over>>
         \/ \E t \in Tasks : \E o :
              /\ pc[t] = "idle" /\ Goto(t, "spawned")
              /\ over' \in {over, [over EXCEPT ![t] = o]},
         \A t \in Tasks :
           reply'[t] # reply[t] /\ reply'[t] \in {"once", "always"}
           => <<Id(t), reply'[t]>> \in pressed
  PROVE  GrantInv'
<1>1. ForSession => ForSession'
  BY DEF ForSession
<1>2. \A t \in Tasks : pc'[t] \in Bearing \cup {"prompting"}
                        => pc'[t] = pc[t] /\ over'[t] = over[t]
  BY DEF AwaitInv, Types, PlacesOK, CallsOK, Goto, Bearing, InBash
<1>3. \A t \in Tasks : pc'[t] \in Bearing /\ Granted(t) => Granted(t)'
  BY <1>2 DEF Granted, Id
<1>4. BearersAreGranted' /\ CachersAreGranted'
  BY <1>1, <1>2, <1>3
  DEF GrantInv, BearersAreGranted, CachersAreGranted, Bearing
<1>5. RepliesArePressed'
  BY <1>2 DEF GrantInv, RepliesArePressed, Id
<1> QED
  BY <1>1, <1>4, <1>5 DEF GrantInv, CacheIsGranted

LEMMA ResolveIsPressed ==
  ASSUME AwaitInv, NEW id \in Ids, NEW c \in Choices, ResolveNetwork(id, c),
         c \in {"once", "always"} => <<id, c>> \in pressed,
         NEW t \in Tasks, reply'[t] # reply[t], reply'[t] \in {"once", "always"}
  PROVE  <<Id(t), reply'[t]>> \in pressed
<1>1. id \in askedNet /\ reply' = [reply EXCEPT ![id[1]] = c]
  BY DEF ResolveNetwork
<1>2. PICK u \in Tasks, n \in 0..MaxCalls : id = <<u, n>>
  BY DEF Ids
<1>3. n = calls[u]
  BY <1>1, <1>2 DEF AwaitInv, PromptsAreAwaited
<1>4. t = u /\ reply'[t] = c
  BY <1>1, <1>2 DEF AwaitInv, Types, CallsOK
<1> QED
  BY <1>2, <1>3, <1>4 DEF Id

LEMMA TaskKeepsGrants ==
  ASSUME AwaitInv, GrantInv, NEW t \in Tasks, TaskStep(t)
  PROVE  GrantInv'
<1>0. /\ \A u \in Tasks : u # t =>
           /\ pc'[u] = pc[u] /\ calls'[u] = calls[u] /\ reply'[u] = reply[u]
           /\ allow'[u] = allow[u]
      /\ UNCHANGED <<over, answers, pressed>>
  BY OthersStay DEF AwaitInv
<1>1. \A u \in Tasks : calls'[u] = calls[u]
                        => (Granted(u)' <=> Granted(u)) /\ Id(u)' = Id(u)
  BY <1>0 DEF Granted, Id
<1>2. ForSession' <=> ForSession
  BY <1>0 DEF ForSession
<1>3. ASSUME cache' = TRUE => ForSession,
             pc'[t] \in Bearing /\ allow'[t] => Granted(t)',
             pc'[t] = "caching" /\ allow'[t] => ForSession,
             pc'[t] # "prompting" \/ reply'[t] = None
      PROVE  GrantInv'
  <2>1. BearersAreGranted'
    BY <1>0, <1>1, <1>3 DEF GrantInv, BearersAreGranted
  <2>2. CachersAreGranted' /\ CacheIsGranted'
    BY <1>0, <1>2, <1>3 DEF GrantInv, CachersAreGranted, CacheIsGranted
  <2>3. RepliesArePressed'
    BY <1>0, <1>1, <1>3, ToolCallsAssumption
    DEF GrantInv, RepliesArePressed, Choices
  <2> QED
    BY <1>0, <2>1, <2>2, <2>3 DEF GrantInv
<1>4. CASE Override(t) \/ UseCached(t) \/ DenyUnasked(t)
  <2>1. /\ pc'[t] = "waiting" /\ UNCHANGED <<calls, cache>>
        /\ \/ over[t] # "inherit" /\ allow'[t] = (over[t] = "forceAllow")
           \/ allow'[t] = cache /\ cache \in BOOLEAN
           \/ allow'[t] = FALSE
    BY <1>4
    DEF Override, UseCached, DenyUnasked, Unasked, Resolved, Goto, AwaitInv,
        Types, PlacesOK, CallsOK, HostOK
  <2>2. allow'[t] => Granted(t)
    BY <2>1 DEF Granted, GrantInv, CacheIsGranted, ForSession
  <2> QED
    BY <1>1, <1>3, <2>1, <2>2 DEF GrantInv, CacheIsGranted
<1>5. CASE ReadChoice(t)
  <2>1. /\ pc[t] = "prompting" /\ UNCHANGED <<calls, cache>>
        /\ pc'[t] = IF cache = None /\ reply[t] \in {"always", "denyAlways"}
                    THEN "caching" ELSE "waiting"
    BY <1>5 DEF ReadChoice, Goto, AwaitInv, Types, PlacesOK
  <2>2. allow'[t] = IF cache # None THEN cache
                                    ELSE reply[t] \in {"once", "always"}
    BY <1>5 DEF ReadChoice, AwaitInv, Types, CallsOK
  <2>3. CASE cache # None
    <3>1. pc'[t] = "waiting" /\ allow'[t] = cache /\ cache \in BOOLEAN
      BY <2>1, <2>2, <2>3 DEF AwaitInv, Types, HostOK
    <3>2. allow'[t] => Granted(t)
      BY <3>1 DEF Granted, GrantInv, CacheIsGranted, ForSession
    <3> QED
      BY <1>1, <1>3, <2>1, <3>1, <3>2 DEF GrantInv, CacheIsGranted
  <2>4. CASE cache = None
    <3>1. allow'[t] => reply[t] \in {"once", "always"}
      BY <2>2, <2>4
    <3>2. allow'[t] => <<Id(t), reply[t]>> \in pressed
      BY <2>1, <3>1 DEF GrantInv, RepliesArePressed
    <3>3. Id(t) \in Ids
      BY IdIsTyped DEF AwaitInv
    <3>4. allow'[t] => Granted(t)
      BY <3>1, <3>2, <3>3 DEF Granted
    <3>5. pc'[t] = "caching" /\ allow'[t] => ForSession
      BY <2>1, <3>1, <3>2, <3>3 DEF ForSession
    <3> QED
      BY <1>1, <1>3, <2>1, <2>4, <3>4, <3>5, ToolCallsAssumption
  <2> QED
    BY <2>3, <2>4
<1>6. CASE WriteCache(t)
  <2>1. /\ pc[t] = "caching" /\ pc'[t] = "waiting"
        /\ cache' = allow[t] /\ UNCHANGED <<calls, allow>>
    BY <1>6 DEF WriteCache, Goto, AwaitInv, Types, PlacesOK
  <2> QED
    BY <1>1, <1>3, <2>1
    DEF GrantInv, BearersAreGranted, CachersAreGranted, Bearing
<1>7. CASE EnterBash(t) \/ Reuse(t) \/ Spawn(t) \/ Retire(t) \/ Install(t)
  <2>1. /\ pc[t] \in Bearing /\ pc'[t] \in InBash
        /\ UNCHANGED <<calls, allow, cache>>
    BY <1>7
    DEF EnterBash, Reuse, Spawn, Retire, Install, Goto, AwaitInv, Types,
        PlacesOK, Bearing, InBash
  <2> QED
    BY <1>1, <1>3, <2>1
    DEF GrantInv, BearersAreGranted, CacheIsGranted, InBash
<1>8. CASE AskNetwork(t)
  <2>1. pc'[t] = "prompting" /\ reply'[t] = None /\ UNCHANGED cache
    BY <1>8
    DEF AskNetwork, Goto, AwaitInv, OnlyWaitingIsAnswered, Types, PlacesOK
  <2> QED
    BY <1>3, <2>1 DEF GrantInv, CacheIsGranted, Bearing, InBash
<1>9. ASSUME UNCHANGED cache,
             \/ pc[t] \notin Bearing \cup {"prompting"} /\ UNCHANGED pc
             \/ \E place \in Places \ (Bearing \cup {"prompting"}) : Goto(t, place)
      PROVE  GrantInv'
  <2>1. pc'[t] \notin Bearing \cup {"prompting"}
    BY <1>9 DEF Goto, AwaitInv, Types, PlacesOK
  <2> QED
    BY <1>3, <1>9, <2>1 DEF GrantInv, CacheIsGranted, Bearing
<1> QED
  <2> DEFINE Free == Places \ (Bearing \cup {"prompting"})
  <2>1. AfterCall(t) \in Free
    BY DEF AfterCall, Places, Bearing, InBash
  <2>2. CASE \/ InstallEvents(t) \/ ListTools(t)
             \/ Complete(t) \/ Fail(t) \/ Return(t)
    BY <1>9, <2>2
    DEF InstallEvents, ListTools, Complete, Fail, Return, Places, Bearing,
        InBash
  <2>3. ASSUME NEW x \in Tools,
               Allowed(t, x) \/ Denied(t, x) \/ AskPermission(t, x)
        PROVE GrantInv'
    BY <1>9, <2>3
    DEF Allowed, Denied, AskPermission, Call, Places, Bearing, InBash
  <2>4. CASE \/ Verdict(t) \/ Dispatch(t) \/ EnterTools(t)
             \/ SubagentCall(t) \/ SubagentEnds(t)
    BY <1>9, <2>4
    DEF Verdict, Dispatch, EnterTools, SubagentCall, SubagentEnds, Places,
        Bearing, InBash
  <2>5. CASE HookBlocks(t) \/ SpawnFails(t) \/ CommandEnds(t)
    BY <1>9, <2>1, <2>5 DEF HookBlocks, SpawnFails, CommandEnds, Leave
  <2> QED
    BY <1>4, <1>5, <1>6, <1>7, <1>8, <2>2, <2>3, <2>4, <2>5 DEF TaskStep

LEMMA GrantStep == ASSUME AwaitInv, GrantInv, [Next]_vars PROVE GrantInv'
<1>1. ASSUME NEW a \in answers, Deliver(a) PROVE GrantInv'
  <2>1. a[1] \in Ids /\ a[2] \in Choices /\ <<a[1], a[2]>> \in pressed
    BY DEF AwaitInv, Types, HistoryOK, GrantInv
  <2>2. \A t \in Tasks : reply'[t] # reply[t] /\ reply'[t] \in {"once", "always"}
                          => <<Id(t), reply'[t]>> \in pressed
    BY <1>1, <2>1, ResolveIsPressed DEF Deliver
  <2>3. /\ UNCHANGED <<cache, calls, allow, pc, over, pressed>>
        /\ answers' \subseteq pressed
    BY <1>1 DEF Deliver, GrantInv
  <2> QED
    BY <2>2, <2>3, PressesKeepGrants
<1>2. CASE Quit
  <2>1. \A t \in Tasks : reply'[t] # reply[t] /\ reply'[t] \in {"once", "always"}
                          => <<Id(t), reply'[t]>> \in pressed
    <3>1. mode = "network" => modal \in Ids /\ "denyOnce" \in Choices
      BY DEF AwaitInv, Types, LoopOK, Choices
    <3> QED
      BY <1>2, <3>1, ResolveIsPressed DEF Quit
  <2>2. UNCHANGED <<cache, calls, allow, pc, over, pressed, answers>>
    BY <1>2 DEF Quit
  <2> QED
    BY <2>1, <2>2, PressesKeepGrants DEF GrantInv
<1>3. ASSUME NEW d \in Verdicts, NEW persist \in BOOLEAN,
             AnswerPermission(d, persist)
      PROVE  GrantInv'
  <2>1. /\ UNCHANGED <<cache, calls, allow, pc, over, answers>>
        /\ pressed \subseteq pressed'
    BY <1>3 DEF AnswerPermission
  <2>2. \A t \in Tasks : reply'[t] # reply[t] => reply'[t] \in Verdicts
    BY <1>3 DEF AnswerPermission, AwaitInv, Types, CallsOK
  <2>3. \A t \in Tasks : reply'[t] # reply[t] => reply'[t] \notin {"once", "always"}
    BY <2>2 DEF Verdicts
  <2>4. answers' \subseteq pressed'
    BY <2>1 DEF GrantInv
  <2> QED
    BY <2>1, <2>3, <2>4, PressesKeepGrants
<1>4. ASSUME NEW c \in Choices, AnswerNetwork(c) PROVE GrantInv'
  <2>1. UNCHANGED <<cache, calls, allow, pc, over, reply>>
        /\ pressed \subseteq pressed' /\ answers' \subseteq pressed'
    BY <1>4 DEF AnswerNetwork, GrantInv
  <2> QED
    BY <2>1, PressesKeepGrants
<1>5. ASSUME NEW t \in Tasks, Receive(t) \/ SubmitTurn(t) \/ BashReady(t)
      PROVE  GrantInv'
  <2>1. /\ UNCHANGED <<cache, calls, allow, reply, pressed, answers>>
        /\ \/ UNCHANGED <<pc, over>>
           \/ \E o : /\ pc[t] = "idle" /\ Goto(t, "spawned")
                     /\ over' \in {over, [over EXCEPT ![t] = o]}
    BY <1>5 DEF Receive, SubmitTurn, BashReady
  <2> QED
    BY <2>1, PressesKeepGrants DEF GrantInv
<1>6. ASSUME \/ \E o \in Overrides : SubmitBash(o)
             \/ ReadTools \/ ToolsRead \/ Exit
             \/ OpenScreen \/ CloseScreen \/ Divert \/ Undivert
             \/ NotifyAborted \/ UNCHANGED vars
      PROVE  GrantInv'
  <2>1. UNCHANGED <<cache, calls, allow, reply, pc, over, pressed, answers>>
    BY <1>6
    DEF SubmitBash, ReadTools, ToolsRead, Exit, OpenScreen, CloseScreen,
        Divert, Undivert, NotifyAborted, vars
  <2> QED
    BY <2>1, PressesKeepGrants DEF GrantInv
<1>7. CASE LoopStep
  BY <1>2, <1>3, <1>4, <1>5, <1>6, <1>7 DEF LoopStep, UserAnswers
<1>8. CASE NotifyAborted \/ \E t \in Tasks : TaskStep(t)
  BY <1>6, <1>8, TaskKeepsGrants
<1> QED
  BY <1>1, <1>6, <1>7, <1>8 DEF Next

LEMMA GrantInvariance == Spec => []GrantInv
  BY AwaitInvariance, GrantInit, GrantStep, PTL DEF Spec

(* No command runs in a server with network access that its user did not    *)
(* grant, whatever calls and answers came in between.                      *)
THEOREM NetworkNeedsAGrant == Spec => []NetworkIsGranted
<1>1. GrantInv /\ ServerMatchesCommand => NetworkIsGranted
  BY DEF GrantInv, BearersAreGranted, Bearing, InBash, ServerMatchesCommand,
         NetworkIsGranted
<1> QED
  BY <1>1, GrantInvariance, CommandsGetTheirServer, PTL

-----------------------------------------------------------------------------
(* Refused calls *)

(* A refused call has its answer still to read, or has read it. *)
RefusalsHold ==
  \A t \in Tasks :
    <<Id(t), "deny">> \in pressed /\ ~sub[t]
    => \/ pc[t] = "asking" /\ reply[t] = "deny"
       \/ pc[t] \in {"calling", "ending", "done"}
(* No answer is older than its call. *)
PressedIsMade ==
  \A t \in Tasks, n \in 0..MaxCalls :
    <<<<t, n>>, "deny">> \in pressed => n <= calls[t]

(* A permission prompt the event loop holds, in its modal or in a channel,  *)
(* is one that waits, and it holds it once.                                *)
Asks(u, i, id) ==
  /\ i \in DOMAIN queue[u]
  /\ queue[u][i].what = "permission" /\ queue[u][i].id = id
ShownWaits ==
  /\ pending # None => pending \in asked
  /\ \A u \in Tasks, i \in Nat, id \in Ids :
       Asks(u, i, id) => id \in asked /\ id # pending
  /\ \A u \in Tasks, v \in Tasks, i \in Nat, j \in Nat, id \in Ids :
       Asks(u, i, id) /\ Asks(v, j, id) => u = v /\ i = j

RefusalInv == RefusalsHold /\ PressedIsMade /\ ShownWaits

LEMMA RefusalInit == Init => RefusalInv
  BY DEF Init, RefusalInv, RefusalsHold, PressedIsMade, ShownWaits, Asks

(* What a channel asks after an event was put at its end or taken from its  *)
(* front.                                                                  *)
LEMMA SendAsks ==
  ASSUME Types, NEW t \in Tasks, NEW e \in Events, Send(t, e),
         NEW u \in Tasks, NEW i \in Nat, NEW id \in Ids, Asks(u, i, id)'
  PROVE  \/ Asks(u, i, id)
         \/ u = t /\ i = Len(queue[t]) + 1 /\ e.what = "permission" /\ e.id = id
<1>1. CASE queue' = queue
  BY <1>1 DEF Asks
<1>2. CASE queue' = [queue EXCEPT ![t] = Append(@, e)]
  <2>1. queue[t] \in Seq(Events)
    BY DEF Types, QueueOK
  <2>2. u # t => queue'[u] = queue[u]
    BY <1>2 DEF Types, QueueOK
  <2>3. queue'[t] = Append(queue[t], e)
    BY <1>2 DEF Types, QueueOK
  <2>4. /\ Len(queue'[t]) = Len(queue[t]) + 1
        /\ \A k \in 1..Len(queue[t]) : queue'[t][k] = queue[t][k]
        /\ queue'[t][Len(queue[t]) + 1] = e
        /\ DOMAIN queue'[t] = 1..Len(queue'[t])
    BY <2>1, <2>3, AppendProperties
  <2> QED
    BY <2>1, <2>2, <2>4, LenProperties DEF Asks
<1> QED
  BY <1>1, <1>2 DEF Send

LEMMA ReceiveAsks ==
  ASSUME Types, NEW t \in Tasks, Receive(t),
         NEW u \in Tasks, NEW i \in Nat, NEW id \in Ids, Asks(u, i, id)'
  PROVE  IF u = t THEN Asks(t, i + 1, id) /\ i # 0 ELSE Asks(u, i, id)
<1>1. queue[t] \in Seq(Events) /\ queue[t] # <<>>
  BY DEF Types, QueueOK, Receive
<1>2. queue'[t] = Tail(queue[t]) /\ (u # t => queue'[u] = queue[u])
  BY DEF Receive, Types, QueueOK
<1>3. /\ Tail(queue[t]) \in Seq(Events) /\ Len(Tail(queue[t])) = Len(queue[t]) - 1
      /\ \A k \in 1..Len(Tail(queue[t])) : Tail(queue[t])[k] = queue[t][k + 1]
  BY <1>1, HeadTailProperties
<1>4. /\ DOMAIN queue[t] = 1..Len(queue[t]) /\ Len(queue[t]) \in Nat
      /\ DOMAIN Tail(queue[t]) = 1..Len(Tail(queue[t]))
  BY <1>1, <1>3, LenProperties
<1>5. CASE u = t
  <2>1. /\ i \in DOMAIN Tail(queue[t]) /\ Tail(queue[t])[i].what = "permission"
        /\ Tail(queue[t])[i].id = id
    BY <1>2, <1>5 DEF Asks
  <2>2. i \in 1..Len(Tail(queue[t])) /\ i + 1 \in DOMAIN queue[t] /\ i # 0
    BY <1>3, <1>4, <2>1
  <2>3. Tail(queue[t])[i] = queue[t][i + 1]
    BY <1>3, <2>2
  <2> QED
    BY <1>5, <2>1, <2>2, <2>3 DEF Asks
<1>6. CASE u # t
  BY <1>2, <1>6 DEF Asks
<1> QED
  BY <1>5, <1>6

(* Steps that show, ask and answer nothing. *)
LEMMA NothingAsked ==
  ASSUME Types, ShownWaits, UNCHANGED <<asked, pending>>,
         \/ UNCHANGED queue
         \/ \E t \in Tasks, e \in Events : e.what # "permission" /\ Send(t, e)
  PROVE  ShownWaits'
<1>1. ASSUME NEW u \in Tasks, NEW i \in Nat, NEW id \in Ids, Asks(u, i, id)'
      PROVE  Asks(u, i, id)
  <2>1. CASE UNCHANGED queue
    BY <1>1, <2>1 DEF Asks
  <2>2. ASSUME NEW t \in Tasks, NEW e \in Events, e.what # "permission", Send(t, e)
        PROVE  Asks(u, i, id)
    BY <1>1, <2>2, SendAsks
  <2> QED
    BY <2>1, <2>2
<1> QED
  BY <1>1 DEF ShownWaits

LEMMA ReceiveShows ==
  ASSUME Types, ShownWaits, NEW t \in Tasks, Receive(t)
  PROVE  ShownWaits'
<1>1. /\ asked' = asked
      /\ \/ pending' = pending
         \/ pending' = Head(queue[t]).id /\ Head(queue[t]).what = "permission"
  BY DEF Receive
<1>2. \A u \in Tasks, i \in Nat, id \in Ids :
        Asks(u, i, id)' => IF u = t THEN Asks(t, i + 1, id) /\ i # 0
                                    ELSE Asks(u, i, id)
  BY ReceiveAsks
<1>3. \A u \in Tasks, v \in Tasks, i \in Nat, j \in Nat, id \in Ids :
        Asks(u, i, id)' /\ Asks(v, j, id)' => u = v /\ i = j
  BY <1>2 DEF ShownWaits
<1>4. CASE pending' = pending
  <2>1. \A u \in Tasks, i \in Nat, id \in Ids :
          Asks(u, i, id)' => id \in asked /\ id # pending
    BY <1>2 DEF ShownWaits
  <2> QED
    BY <1>1, <1>3, <1>4, <2>1 DEF ShownWaits
<1>5. CASE pending' = Head(queue[t]).id /\ Head(queue[t]).what = "permission"
  <2>1. queue[t] \in Seq(Events) /\ queue[t] # <<>>
    BY DEF Types, QueueOK, Receive
  <2>2. /\ Head(queue[t]) = queue[t][1] /\ 1 \in DOMAIN queue[t]
        /\ Head(queue[t]) \in Events
    BY <2>1, HeadTailProperties, LenProperties, EmptySeq
  <2>3. pending' \in Ids
    BY <1>5, <2>2 DEF Events, Done, Aborted, Prompt
  <2>4. Asks(t, 1, pending')
    BY <1>5, <2>2 DEF Asks
  <2>5. pending' \in asked
    BY <2>3, <2>4 DEF ShownWaits
  <2>6. \A u \in Tasks, i \in Nat, id \in Ids :
          Asks(u, i, id)' => id \in asked /\ id # pending'
    BY <1>2, <2>3, <2>4 DEF ShownWaits
  <2> QED
    BY <1>1, <1>3, <2>5, <2>6 DEF ShownWaits
<1> QED
  BY <1>1, <1>4, <1>5

LEMMA AskShows ==
  ASSUME AwaitInv, ShownWaits,
         NEW t \in Tasks, NEW x \in Tools, AskPermission(t, x)
  PROVE  ShownWaits'
<1> DEFINE new == <<t, calls[t] + 1>>
           event == Prompt("permission", new)
<1>1. /\ asked' = asked \cup {new} /\ pending' = pending /\ Send(t, event)
      /\ new \in Ids
  BY IdIsTyped DEF AskPermission, Call, AwaitInv
<1>2. new \notin asked
  BY <1>1 DEF AwaitInv, PromptsAreAwaited, Types, CallsOK, Ids
<1>3. pending # new /\ (pending # None => pending \in asked')
  BY <1>1, <1>2, ToolCallsAssumption DEF ShownWaits
<1>4. event \in Events /\ event.id = new
  BY <1>1, EventIsTyped DEF Prompt
<1>5. ASSUME NEW u \in Tasks, NEW i \in Nat, NEW id \in Ids, Asks(u, i, id)'
      PROVE  \/ Asks(u, i, id) /\ id \in asked /\ id # pending /\ id # new
             \/ u = t /\ i = Len(queue[t]) + 1 /\ id = new
  <2>1. Asks(u, i, id) \/ (u = t /\ i = Len(queue[t]) + 1 /\ event.id = id)
    BY <1>1, <1>4, <1>5, SendAsks DEF AwaitInv
  <2> QED
    BY <1>2, <1>4, <2>1 DEF ShownWaits
<1> HIDE DEF new, event
<1>6. \A u \in Tasks, i \in Nat, id \in Ids :
        Asks(u, i, id)' => id \in asked' /\ id # pending'
  BY <1>1, <1>3, <1>5
<1>7. \A u \in Tasks, v \in Tasks, i \in Nat, j \in Nat, id \in Ids :
        Asks(u, i, id)' /\ Asks(v, j, id)' => u = v /\ i = j
  BY <1>5 DEF ShownWaits
<1> QED
  BY <1>1, <1>3, <1>6, <1>7 DEF ShownWaits

LEMMA TaskKeepsShown ==
  ASSUME AwaitInv, ShownWaits, NEW t \in Tasks, TaskStep(t)
  PROVE  ShownWaits'
<1>1. UNCHANGED pending
  BY OthersStay DEF AwaitInv
<1>2. CASE Complete(t) \/ Fail(t) \/ Return(t) \/ AskNetwork(t)
  <2>1. UNCHANGED asked
    BY <1>2 DEF Complete, Fail, Return, AskNetwork
  <2>2. Done \in Events /\ Done.what # "permission"
    BY DEF Events, Done, Prompt
  <2>3. AskNetwork(t) => /\ slot \in Tasks /\ Prompt("network", Id(t)) \in Events
                         /\ Prompt("network", Id(t)).what # "permission"
    BY IdIsTyped, EventIsTyped
    DEF AskNetwork, AwaitInv, Types, HostOK, Prompt
  <2>4. \/ UNCHANGED queue
        \/ \E u \in Tasks, e \in Events : e.what # "permission" /\ Send(u, e)
    BY <1>2, <2>2, <2>3 DEF Complete, Fail, Return, AskNetwork
  <2> QED
    BY <1>1, <2>1, <2>4, NothingAsked DEF AwaitInv
<1>3. CASE /\ ~(Complete(t) \/ Fail(t) \/ Return(t) \/ AskNetwork(t))
           /\ \A x \in Tools : ~AskPermission(t, x)
  <2>1. UNCHANGED asked
    BY <1>3, MovesOn
  <2>2. UNCHANGED queue
    BY <1>3
    DEF TaskStep, InstallEvents, ListTools, Allowed, Denied, Verdict,
        HookBlocks, Dispatch, EnterTools, SubagentCall, SubagentEnds,
        Override, UseCached, DenyUnasked, Unasked, ReadChoice, WriteCache,
        EnterBash, Reuse, Spawn, Retire, Install, SpawnFails, CommandEnds,
        Leave
  <2> QED
    BY <1>1, <2>1, <2>2, NothingAsked DEF AwaitInv
<1> QED
  BY <1>2, <1>3, AskShows

LEMMA TaskKeepsRefusals ==
  ASSUME AwaitInv, RefusalsHold, PressedIsMade, NEW t \in Tasks, TaskStep(t)
  PROVE  RefusalsHold' /\ PressedIsMade'
<1>0. /\ \A u \in Tasks : u # t =>
           /\ pc'[u] = pc[u] /\ calls'[u] = calls[u] /\ sub'[u] = sub[u]
           /\ reply'[u] = reply[u]
      /\ UNCHANGED pressed
  BY OthersStay DEF AwaitInv
<1>1. ASSUME calls'[t] \in {calls[t], calls[t] + 1},
             ( /\ calls'[t] = calls[t] /\ sub'[t] = sub[t] /\ ~sub[t]
               /\ <<Id(t), "deny">> \in pressed )
               => pc'[t] \in {"calling", "ending", "done"},
             calls'[t] = calls[t] + 1 \/ sub'[t] = sub[t]
      PROVE  RefusalsHold' /\ PressedIsMade'
  <2>1. PressedIsMade'
    BY <1>0, <1>1 DEF AwaitInv, Types, CallsOK, PressedIsMade
  <2>2. calls'[t] = calls[t] + 1 => <<<<t, calls'[t]>>, "deny">> \notin pressed
    BY TypesStep DEF AwaitInv, Types, CallsOK, PressedIsMade, HistoryOK, Ids
  <2>3. RefusalsHold'
    BY <1>0, <1>1, <2>2 DEF RefusalsHold, Id
  <2> QED
    BY <2>1, <2>3
<1> USE DEF AwaitInv, Types, PlacesOK, CallsOK
<1>2. ASSUME NEW x \in Tools,
             Allowed(t, x) \/ Denied(t, x) \/ AskPermission(t, x)
      PROVE  RefusalsHold' /\ PressedIsMade'
  <2>1. calls'[t] = calls[t] + 1
    BY <1>2 DEF Allowed, Denied, AskPermission, Call
  <2> QED
    BY <1>1, <2>1
<1>3. CASE SubagentCall(t)
  <2>1. calls'[t] = calls[t] + 1
    BY <1>3 DEF SubagentCall
  <2> QED
    BY <1>1, <2>1
<1>4. CASE Verdict(t)
  <2>1. /\ pc[t] = "asking" /\ UNCHANGED <<calls, sub>>
        /\ pc'[t] = IF reply[t] = "allow" THEN "allowed" ELSE "calling"
    BY <1>4 DEF Verdict, Goto
  <2>2. ~sub[t] /\ <<Id(t), "deny">> \in pressed => reply[t] = "deny"
    BY <2>1 DEF RefusalsHold
  <2> QED
    BY <1>1, <2>1, <2>2
<1>5. CASE Complete(t) \/ Fail(t) \/ Return(t) \/ SubagentEnds(t) \/ ListTools(t)
  <2>1. UNCHANGED <<calls, sub>> /\ pc'[t] \in {"calling", "ending", "done"}
    BY <1>5 DEF Complete, Fail, Return, SubagentEnds, ListTools, Goto
  <2> QED
    BY <1>1, <2>1
<1>6. ASSUME pc[t] \notin {"asking", "calling", "ending", "done"},
             UNCHANGED <<calls, sub>>
      PROVE  RefusalsHold' /\ PressedIsMade'
  BY <1>1, <1>6 DEF RefusalsHold
<1>7. CASE \/ InstallEvents(t) \/ HookBlocks(t) \/ Dispatch(t) \/ EnterTools(t)
  BY <1>6, <1>7 DEF InstallEvents, HookBlocks, Dispatch, EnterTools
<1>8. CASE \/ Override(t) \/ UseCached(t) \/ DenyUnasked(t) \/ AskNetwork(t)
           \/ ReadChoice(t) \/ WriteCache(t)
  BY <1>6, <1>8
  DEF Override, UseCached, DenyUnasked, Unasked, AskNetwork, ReadChoice,
      WriteCache
<1>9. CASE \/ EnterBash(t) \/ Reuse(t) \/ Spawn(t) \/ Retire(t) \/ Install(t)
           \/ SpawnFails(t) \/ CommandEnds(t)
  BY <1>6, <1>9
  DEF EnterBash, Reuse, Spawn, Retire, Install, SpawnFails, CommandEnds,
      Leave
<1> QED
  BY <1>2, <1>3, <1>4, <1>5, <1>7, <1>8, <1>9 DEF TaskStep

(* Steps that refuse no permission, and touch only answers for the network. *)
LEMMA NothingRefused ==
  ASSUME AwaitInv, RefusalsHold, PressedIsMade,
         UNCHANGED <<calls, sub>>,
         \A id \in Ids : <<id, "deny">> \in pressed' => <<id, "deny">> \in pressed,
         \/ UNCHANGED pc
         \/ \E t \in Tasks : pc[t] = "idle" /\ Goto(t, "spawned"),
         \A t \in Tasks : reply'[t] # reply[t] => pc[t] = "prompting"
  PROVE  RefusalsHold' /\ PressedIsMade'
<1>1. \A t \in Tasks : pc'[t] = pc[t] \/ pc[t] = "idle"
  BY DEF Goto, AwaitInv, Types, PlacesOK
<1>2. \A t \in Tasks : Id(t) \in Ids /\ Id(t)' = Id(t)
  BY IdIsTyped DEF AwaitInv, Id
<1>3. RefusalsHold'
  BY <1>1, <1>2 DEF RefusalsHold
<1>4. PressedIsMade'
  BY DEF PressedIsMade, Ids
<1> QED
  BY <1>3, <1>4

LEMMA ResolveIsForNetwork ==
  ASSUME AwaitInv, NEW id \in Ids, NEW c, ResolveNetwork(id, c),
         NEW t \in Tasks, reply'[t] # reply[t]
  PROVE  pc[t] = "prompting"
<1>1. PICK u \in Tasks, n \in 0..MaxCalls : id = <<u, n>>
  BY DEF Ids
<1>2. id \in askedNet /\ reply' = [reply EXCEPT ![u] = c]
  BY <1>1 DEF ResolveNetwork
<1>3. t = u
  BY <1>2 DEF AwaitInv, Types, CallsOK
<1> QED
  BY <1>1, <1>2, <1>3 DEF AwaitInv, PromptsAreAwaited

LEMMA AnswerKeepsRefusals ==
  ASSUME AwaitInv, RefusalInv, NEW d \in Verdicts, NEW persist \in BOOLEAN,
         AnswerPermission(d, persist)
  PROVE  RefusalInv'
<1>1. CASE pending = None
  <2>1. UNCHANGED <<asked, pending, queue, pressed, reply, pc, calls, sub>>
    BY <1>1 DEF AnswerPermission
  <2> QED
    BY <2>1, NothingAsked, NothingRefused DEF AwaitInv, RefusalInv
<1>2. CASE pending # None
  <2>1. PICK t \in Tasks, n \in 0..MaxCalls : pending = <<t, n>>
    BY <1>2 DEF AwaitInv, Types, LoopOK, Ids
  <2>2. pending \in asked
    BY <1>2 DEF RefusalInv, ShownWaits
  <2>3. n = calls[t] /\ pc[t] = "asking" /\ reply[t] = None
    BY <2>1, <2>2 DEF AwaitInv, PromptsAreAwaited
  <2>4. /\ pressed' = pressed \cup {<<<<t, n>>, d>>}
        /\ asked' = asked \ {<<t, n>>} /\ pending' = None
        /\ reply' = [reply EXCEPT ![t] = d]
        /\ UNCHANGED <<pc, calls, sub, queue>>
    BY <1>2, <2>1, <2>2 DEF AnswerPermission
  <2>5. reply'[t] = d /\ \A u \in Tasks : u # t => reply'[u] = reply[u]
    BY <2>4 DEF AwaitInv, Types, CallsOK
  <2>6. <<Id(t), "deny">> \in pressed /\ ~sub[t] => reply[t] = "deny"
    BY <2>3 DEF RefusalInv, RefusalsHold
  <2>7. None # "deny"
    BY ToolCallsAssumption DEF Verdicts
  <2>8. RefusalsHold'
    BY <2>3, <2>4, <2>5, <2>6, <2>7
    DEF RefusalInv, RefusalsHold, Id, Verdicts
  <2>9. PressedIsMade'
    BY <2>3, <2>4 DEF RefusalInv, PressedIsMade, AwaitInv, Types, CallsOK
  <2>10. ShownWaits'
    BY <2>1, <2>4, ToolCallsAssumption DEF RefusalInv, ShownWaits, Asks
  <2> QED
    BY <2>8, <2>9, <2>10 DEF RefusalInv
<1> QED
  BY <1>1, <1>2

LEMMA RefusalStep == ASSUME AwaitInv, RefusalInv, [Next]_vars PROVE RefusalInv'
<1>1. ASSUME NEW a \in answers, Deliver(a) PROVE RefusalInv'
  <2>1. a[1] \in Ids
    BY DEF AwaitInv, Types, HistoryOK
  <2>2. \A t \in Tasks : reply'[t] # reply[t] => pc[t] = "prompting"
    BY <1>1, <2>1, ResolveIsForNetwork DEF Deliver
  <2>3. UNCHANGED <<asked, pending, queue, pressed, pc, calls, sub>>
    BY <1>1 DEF Deliver
  <2> QED
    BY <2>2, <2>3, NothingAsked, NothingRefused DEF AwaitInv, RefusalInv
<1>2. CASE Quit
  <2>1. mode = "network" => modal \in Ids
    BY DEF AwaitInv, Types, LoopOK
  <2>2. \A t \in Tasks : reply'[t] # reply[t] => pc[t] = "prompting"
    BY <1>2, <2>1, ResolveIsForNetwork DEF Quit
  <2>3. UNCHANGED <<asked, pending, queue, pressed, pc, calls, sub>>
    BY <1>2 DEF Quit
  <2> QED
    BY <2>2, <2>3, NothingAsked, NothingRefused DEF AwaitInv, RefusalInv
<1>3. ASSUME NEW c \in Choices, AnswerNetwork(c) PROVE RefusalInv'
  <2>1. UNCHANGED <<asked, pending, queue, reply, pc, calls, sub>>
        /\ pressed' = pressed \cup {<<modal, c>>}
    BY <1>3 DEF AnswerNetwork
  <2>2. c # "deny"
    BY DEF Choices
  <2>3. \A id \in Ids : <<id, "deny">> \in pressed' => <<id, "deny">> \in pressed
    BY <2>1, <2>2
  <2> QED
    BY <2>1, <2>3, NothingAsked, NothingRefused DEF AwaitInv, RefusalInv
<1>4. ASSUME NEW t \in Tasks, Receive(t) PROVE RefusalInv'
  <2>1. UNCHANGED <<reply, pc, calls, sub, pressed>>
    BY <1>4 DEF Receive
  <2> QED
    BY <1>4, <2>1, ReceiveShows, NothingRefused DEF AwaitInv, RefusalInv
<1>5. ASSUME NEW t \in Tasks, SubmitTurn(t) \/ BashReady(t) PROVE RefusalInv'
  <2>1. UNCHANGED <<asked, pending, queue, reply, calls, sub, pressed>>
        /\ pc[t] = "idle" /\ Goto(t, "spawned")
    BY <1>5 DEF SubmitTurn, BashReady
  <2> QED
    BY <2>1, NothingAsked, NothingRefused DEF AwaitInv, RefusalInv
<1>6. CASE NotifyAborted
  <2>1. /\ Aborted \in Events /\ Aborted.what # "permission" /\ slot \in Tasks
        /\ Send(slot, Aborted)
        /\ UNCHANGED <<asked, pending, reply, pc, calls, sub, pressed>>
    BY <1>6
    DEF NotifyAborted, Events, Aborted, Prompt, AwaitInv, Types, HostOK
  <2> QED
    BY <2>1, NothingAsked, NothingRefused DEF AwaitInv, RefusalInv
<1>7. ASSUME \/ \E o \in Overrides : SubmitBash(o)
             \/ ReadTools \/ ToolsRead \/ Exit
             \/ OpenScreen \/ CloseScreen \/ Divert \/ Undivert
             \/ UNCHANGED vars
      PROVE  RefusalInv'
  <2>1. UNCHANGED <<asked, pending, queue, reply, pc, calls, sub, pressed>>
    BY <1>7
    DEF SubmitBash, ReadTools, ToolsRead, Exit, OpenScreen, CloseScreen,
        Divert, Undivert, vars
  <2> QED
    BY <2>1, NothingAsked, NothingRefused DEF AwaitInv, RefusalInv
<1>8. ASSUME NEW t \in Tasks, TaskStep(t) PROVE RefusalInv'
  BY <1>8, TaskKeepsRefusals, TaskKeepsShown DEF RefusalInv
<1>9. CASE LoopStep
  BY <1>2, <1>3, <1>4, <1>5, <1>7, <1>9, AnswerKeepsRefusals
  DEF LoopStep, UserAnswers
<1> QED
  BY <1>1, <1>6, <1>7, <1>8, <1>9 DEF Next

LEMMA RefusalInvariance == Spec => []RefusalInv
  BY AwaitInvariance, RefusalInit, RefusalStep, PTL DEF Spec

(* A call whose prompt was refused ends without its tool: the modal and the *)
(* channels only hold prompts that wait, each once, so that a key answers   *)
(* the call it was pressed for.                                            *)
THEOREM RefusedCallsNeverRun == Spec => []RefusedNeverRuns
<1>1. RefusalInv => RefusedNeverRuns
  BY DEF RefusalInv, RefusalsHold, RefusedNeverRuns
<1> QED
  BY <1>1, RefusalInvariance, PTL

-----------------------------------------------------------------------------
(* Reachable prompts                                                        *)

(* Nothing but the prompts takes the keyboard, and no provider is removed.  *)
Quiet == MaxAborts = 0 /\ Diversions = {}

(* t is a task at work: it has the notice that ends it still to send.      *)
Owes(t) ==
  /\ pc[t] \notin {"idle", "done"}
  /\ ~(pc[t] = "ending" /\ kind[t] = "turn")
OneAtWork ==
  /\ \A t, u \in Tasks : Owes(t) /\ Owes(u) => t = u
  /\ \A t \in Tasks : Owes(t) => loading
  /\ loop = "checking" => ~loading

(* The places of a turn that a /bash command never takes. *)
TurnPlaces == {"listing", "calling", "asking", "allowed", "subagent"}
BashHasItsPlaces ==
  \A t \in Tasks : kind[t] = "bash" => pc[t] \notin TurnPlaces

(* The channels hold no event, or this one on the channel of u. *)
Silent == queue = [v \in Tasks |-> <<>>]
Only(u, e) == queue = [v \in Tasks |-> IF v = u THEN <<e>> ELSE <<>>]

(* The life of a prompt: no call waits, or the one that does has its id on  *)
(* a channel, in the modal, or in an answer on its way.                    *)
Waits(what, id) ==
  /\ id \in Ids
  /\ asked = (IF what = "permission" THEN {id} ELSE {})
  /\ askedNet = (IF what = "network" THEN {id} ELSE {})
PromptKinds == {"permission", "network"}
Free ==
  /\ asked = {} /\ askedNet = {} /\ mode = "editing" /\ answers = {}
  /\ Silent \/ (loading /\ (\A t \in Tasks : ~Owes(t))
                        /\ \E u \in Tasks : Only(u, Done))
Sent ==
  /\ mode = "editing" /\ answers = {}
  /\ \E u \in Tasks, what \in PromptKinds, id \in Ids :
       Waits(what, id) /\ Only(u, Prompt(what, id))
Shown ==
  /\ Silent /\ answers = {} /\ mode \in PromptKinds
  /\ Waits(mode, IF mode = "permission" THEN pending ELSE modal)
Answered ==
  /\ Silent /\ mode = "editing"
  /\ \E id \in Ids, c \in Choices :
       Waits("network", id) /\ answers = {<<id, c>>}

InLife == OneAtWork /\ (Free \/ Sent \/ Shown \/ Answered)
ReachInv == ~screen /\ BashHasItsPlaces /\ (Open => InLife)

LEMMA ReachInit == Init => ReachInv
<1> SUFFICES ASSUME Init PROVE ReachInv
  OBVIOUS
<1>1. Silent
  BY DEF Init, Silent
<1>2. OneAtWork /\ BashHasItsPlaces
  BY DEF Init, OneAtWork, Owes, BashHasItsPlaces
<1> QED
  BY <1>1, <1>2 DEF Init, ReachInv, InLife, Free

LEMMA LifeIsReachable == ReachInv => PromptIsReachable
<1> SUFFICES ASSUME Open, InLife, NEW id \in asked \cup askedNet
             PROVE  OnItsWay(id)
  BY DEF ReachInv, PromptIsReachable, Open
<1>1. CASE Free
  BY <1>1 DEF Free
<1>2. CASE Sent
  <2>1. PICK u \in Tasks, what \in PromptKinds :
               id \in Ids /\ Only(u, Prompt(what, id))
    BY <1>2 DEF Sent, Waits
  <2>2. queue[u] = <<Prompt(what, id)>>
    BY <2>1 DEF Only
  <2>3. 1 \in DOMAIN queue[u] /\ queue[u][1].id = id
    BY <2>2 DEF Prompt
  <2> QED
    BY <2>3 DEF OnItsWay
<1>3. CASE Shown
  BY <1>3 DEF Shown, Waits, PromptKinds, OnItsWay
<1>4. CASE Answered
  BY <1>4 DEF Answered, Waits, OnItsWay
<1> QED
  BY <1>1, <1>2, <1>3, <1>4 DEF InLife

(* While a task is at work without waiting, no prompt is under way; nor is  *)
(* one while no task is at work.                                           *)
LEMMA WaitersOwe ==
  ASSUME AwaitInv, NEW id \in asked \cup askedNet
  PROVE  \E t \in Tasks : Owes(t) /\ pc[t] \in {"asking", "prompting"}
<1>1. id \in Ids
  BY DEF AwaitInv, Types, HostOK
<1>2. PICK t \in Tasks, n \in 0..MaxCalls : id = <<t, n>>
  BY <1>1 DEF Ids
<1>3. pc[t] \in {"asking", "prompting"}
  BY <1>2 DEF AwaitInv, PromptsAreAwaited
<1> QED
  BY <1>3 DEF Owes

LEMMA NobodyWaits ==
  ASSUME AwaitInv, InLife,
         \/ ~loading
         \/ \E t \in Tasks : Owes(t) /\ pc[t] \notin {"asking", "prompting"}
  PROVE  Silent /\ asked = {} /\ askedNet = {} /\ mode = "editing" /\ answers = {}
<1>1. asked = {} /\ askedNet = {}
  BY WaitersOwe DEF InLife, OneAtWork
<1>2. Free
  BY <1>1 DEF InLife, Sent, Shown, Answered, Waits, PromptKinds
<1>3. ~((\A t \in Tasks : ~Owes(t)) /\ loading)
  OBVIOUS
<1> QED
  BY <1>2, <1>3 DEF Free

(* An event put on the silent channels is the only one. *)
LEMMA SentAlone ==
  ASSUME Silent, Open, NEW t \in Tasks, NEW e, Send(t, e)
  PROVE  Only(t, e)'
<1>1. queue' = [queue EXCEPT ![t] = Append(@, e)]
  BY DEF Send
<1>2. Append(<<>>, e) = <<e>>
  OBVIOUS
<1> QED
  BY <1>1, <1>2 DEF Silent, Only

LEMMA OwesLess ==
  ASSUME AwaitInv, NEW t \in Tasks, TaskStep(t), NEW u \in Tasks, Owes(u)'
  PROVE  Owes(u)
<1>1. kind' = kind /\ (u # t => pc'[u] = pc[u])
  BY OthersStay DEF AwaitInv
<1>2. pc[t] \notin {"idle", "done"} /\ (pc[t] = "ending" => Return(t))
  BY DEF TaskStep, InstallEvents, ListTools, Complete, Fail, Return,
         Allowed, Denied, AskPermission, Call, Verdict, HookBlocks,
         Dispatch, EnterTools, SubagentCall, SubagentEnds, Override,
         UseCached, Resolved, DenyUnasked, Unasked, AskNetwork, ReadChoice,
         WriteCache, EnterBash, Reuse, Spawn, Retire, Install, SpawnFails,
         CommandEnds, Leave
<1>3. Return(t) => pc'[t] = "done"
  BY DEF Return, Goto, AwaitInv, Types, PlacesOK
<1> QED
  BY <1>1, <1>2, <1>3 DEF Owes

LEMMA BashKeepsItsPlaces ==
  ASSUME AwaitInv, BashHasItsPlaces, NEW t \in Tasks, TaskStep(t)
  PROVE  BashHasItsPlaces'
<1>1. kind' = kind /\ \A u \in Tasks : u # t => pc'[u] = pc[u]
  BY OthersStay DEF AwaitInv
<1> SUFFICES ASSUME kind[t] = "bash" PROVE pc'[t] \notin TurnPlaces
  BY <1>1 DEF BashHasItsPlaces
<1>2. pc[t] \notin TurnPlaces
  BY DEF BashHasItsPlaces
<1>3. pc \in [Tasks -> Places]
  BY DEF AwaitInv, Types, PlacesOK
<1>4. AfterCall(t) = "ending"
  BY DEF AfterCall
<1>5. CASE HookBlocks(t) \/ SpawnFails(t) \/ CommandEnds(t)
  BY <1>3, <1>4, <1>5 DEF HookBlocks, SpawnFails, CommandEnds, Leave, Goto, TurnPlaces
<1>6. CASE InstallEvents(t) \/ Return(t) \/ EnterTools(t) \/ Override(t)
           \/ UseCached(t) \/ DenyUnasked(t) \/ AskNetwork(t) \/ ReadChoice(t)
           \/ WriteCache(t) \/ EnterBash(t) \/ Reuse(t) \/ Spawn(t)
           \/ Retire(t) \/ Install(t)
  BY <1>3, <1>6
  DEF InstallEvents, Return, EnterTools, Override, UseCached, Resolved,
      DenyUnasked, Unasked, AskNetwork, ReadChoice, WriteCache, EnterBash,
      Reuse, Spawn, Retire, Install, Goto, TurnPlaces
<1>7. CASE \/ ListTools(t) \/ Complete(t) \/ Fail(t) \/ Verdict(t) \/ Dispatch(t)
           \/ SubagentCall(t) \/ SubagentEnds(t)
           \/ \E x \in Tools : Allowed(t, x) \/ Denied(t, x) \/ AskPermission(t, x)
  BY <1>2, <1>7
  DEF ListTools, Complete, Fail, Verdict, Dispatch, SubagentCall,
      SubagentEnds, Allowed, Denied, AskPermission, Call, TurnPlaces
<1> QED
  BY <1>5, <1>6, <1>7 DEF TaskStep

LEMMA TaskLives ==
  ASSUME AwaitInv, BashHasItsPlaces, Open, InLife, NEW t \in Tasks, TaskStep(t)
  PROVE  InLife'
<1>1. /\ UNCHANGED tuiVars /\ kind' = kind
      /\ \A u \in Tasks : Owes(u)' => Owes(u)
  BY OwesLess, OthersStay DEF AwaitInv
<1>2. OneAtWork'
  BY <1>1 DEF InLife, OneAtWork
<1>3. ASSUME NEW u \in Tasks, NEW what \in PromptKinds, NEW id \in Ids,
             Owes(t), pc[t] \notin {"asking", "prompting"},
             Send(u, Prompt(what, id)), Waits(what, id)'
      PROVE  InLife'
  <2>1. Silent /\ mode = "editing" /\ answers = {}
    BY <1>3, NobodyWaits
  <2>2. Only(u, Prompt(what, id))'
    BY <1>3, <2>1, SentAlone
  <2>3. Sent'
    BY <1>1, <1>3, <2>1, <2>2 DEF Sent
  <2> QED
    BY <1>2, <2>3 DEF InLife
<1>4. ASSUME NEW x \in Tools, AskPermission(t, x) PROVE InLife'
  <2>1. PICK id \in Ids :
          /\ asked' = asked \cup {id} /\ askedNet' = askedNet
          /\ Send(t, Prompt("permission", id)) /\ pc[t] = "calling"
    BY <1>4, IdIsTyped DEF AskPermission, Call, AwaitInv
  <2>2. Owes(t)
    BY <2>1 DEF Owes
  <2>3. asked = {} /\ askedNet = {}
    BY <2>1, <2>2, NobodyWaits
  <2>4. Waits("permission", id)'
    BY <2>1, <2>3 DEF Waits
  <2> QED
    BY <1>3, <2>1, <2>2, <2>4 DEF PromptKinds
<1>5. CASE AskNetwork(t)
  <2>1. PICK id \in Ids :
          /\ askedNet' = askedNet \cup {id} /\ asked' = asked
          /\ Send(slot, Prompt("network", id)) /\ pc[t] = "resolving"
          /\ slot \in Tasks
    BY <1>5, IdIsTyped DEF AskNetwork, AwaitInv, Types, HostOK
  <2>2. Owes(t)
    BY <2>1 DEF Owes
  <2>3. asked = {} /\ askedNet = {}
    BY <2>1, <2>2, NobodyWaits
  <2>4. Waits("network", id)'
    BY <2>1, <2>3 DEF Waits
  <2> QED
    BY <1>3, <2>1, <2>2, <2>4 DEF PromptKinds
<1>6. ASSUME Owes(t), pc[t] \notin {"asking", "prompting"}, ~Owes(t)',
             Send(t, Done), UNCHANGED <<asked, askedNet>>
      PROVE  InLife'
  <2>1. Silent /\ asked = {} /\ askedNet = {} /\ mode = "editing" /\ answers = {}
    BY <1>6, NobodyWaits
  <2>2. Only(t, Done)'
    BY <1>6, <2>1, SentAlone
  <2>3. loading /\ \A u \in Tasks : ~Owes(u)'
    BY <1>1, <1>6 DEF InLife, OneAtWork
  <2>4. Free'
    BY <1>1, <1>6, <2>1, <2>2, <2>3 DEF Free
  <2> QED
    BY <1>2, <2>4 DEF InLife
<1>7. CASE Complete(t) \/ Fail(t)
  <2>1. /\ pc[t] = "calling" /\ pc'[t] \in {"ending", "done"} /\ kind[t] = "turn"
        /\ Send(t, Done) /\ UNCHANGED <<asked, askedNet>>
    BY <1>7
    DEF Complete, Fail, Goto, AwaitInv, Types, PlacesOK, BashHasItsPlaces,
        TurnPlaces
  <2> QED
    BY <1>1, <1>6, <2>1 DEF Owes
<1>8. CASE Return(t) /\ kind[t] = "bash"
  <2>1. /\ pc[t] = "ending" /\ pc'[t] = "done"
        /\ Send(t, Done) /\ UNCHANGED <<asked, askedNet>>
    BY <1>8 DEF Return, Goto, AwaitInv, Types, PlacesOK
  <2> QED
    BY <1>1, <1>6, <1>8, <2>1 DEF Owes
<1>9. ASSUME UNCHANGED <<queue, asked, askedNet>> PROVE InLife'
  <2>1. /\ Silent' = Silent /\ \A u \in Tasks : \A e : Only(u, e)' = Only(u, e)
    BY <1>9 DEF Silent, Only
  <2>2. \A what, id : Waits(what, id)' = Waits(what, id)
    BY <1>9 DEF Waits
  <2>3. Free => Free'
    BY <1>1, <1>9, <2>1 DEF Free
  <2>4. Sent => Sent'
    BY <1>1, <2>1, <2>2 DEF Sent
  <2>5. Shown => Shown'
    BY <1>1, <2>1, <2>2 DEF Shown
  <2>6. Answered => Answered'
    BY <1>1, <2>1, <2>2 DEF Answered
  <2> QED
    BY <1>2, <2>3, <2>4, <2>5, <2>6 DEF InLife
<1>10. ASSUME ~AskNetwork(t), \A x \in Tools : ~AskPermission(t, x),
              ~Complete(t), ~Fail(t), ~(Return(t) /\ kind[t] = "bash")
       PROVE  UNCHANGED <<queue, asked, askedNet>>
  <2>1. UNCHANGED <<asked, askedNet>>
    BY <1>10, MovesOn
  <2>2. UNCHANGED queue
    BY <1>10
    DEF TaskStep, InstallEvents, ListTools, Return, Allowed, Denied, Verdict,
        HookBlocks, Dispatch, EnterTools, SubagentCall, SubagentEnds,
        Override, UseCached, DenyUnasked, Unasked, ReadChoice, WriteCache,
        EnterBash, Reuse, Spawn, Retire, Install, SpawnFails, CommandEnds,
        Leave
  <2> QED
    BY <2>1, <2>2
<1> QED
  BY <1>4, <1>5, <1>7, <1>8, <1>9, <1>10

(* The steps of the event loop. *)
LEMMA ReceiveLives ==
  ASSUME AwaitInv, InLife, NEW t \in Tasks, Receive(t)
  PROVE  InLife'
<1>1. /\ loop = "running" /\ queue[t] # <<>>
      /\ queue' = [queue EXCEPT ![t] = Tail(@)]
      /\ UNCHANGED <<asked, askedNet, pc, kind, loop, answers>>
  BY DEF Receive
<1>2. ~Silent
  BY <1>1 DEF Silent
<1>3. ASSUME NEW u \in Tasks, NEW e, Only(u, e)
      PROVE  Head(queue[t]) = e /\ Silent'
  <2>1. u = t /\ queue[t] = <<e>>
    BY <1>1, <1>3 DEF Only
  <2>2. Head(<<e>>) = e /\ Tail(<<e>>) = <<>>
    OBVIOUS
  <2> QED
    BY <1>1, <1>3, <2>1, <2>2 DEF Only, Silent
<1>4. CASE Free
  <2>1. PICK u \in Tasks : Only(u, Done)
    BY <1>2, <1>4 DEF Free
  <2>2. Head(queue[t]).what = "done" /\ Silent'
    BY <1>3, <2>1 DEF Done, Prompt
  <2>3. UNCHANGED mode
    BY <2>2 DEF Receive
  <2>4. Free'
    BY <1>1, <1>4, <2>2, <2>3 DEF Free
  <2>5. OneAtWork'
    BY <1>1, <1>2, <1>4 DEF Free, Owes, OneAtWork
  <2> QED
    BY <2>4, <2>5 DEF InLife
<1>5. CASE Sent
  <2>1. PICK u \in Tasks, what \in PromptKinds, id \in Ids :
               Waits(what, id) /\ Only(u, Prompt(what, id))
    BY <1>5 DEF Sent
  <2>2. Head(queue[t]) = Prompt(what, id) /\ Silent'
    BY <1>3, <2>1
  <2>3. Head(queue[t]).what = what /\ Head(queue[t]).id = id
    BY <2>2 DEF Prompt
  <2>4. /\ mode' = what /\ loading' = loading
        /\ what = "permission" => pending' = id
        /\ what = "network" => modal' = id
    BY <2>3 DEF Receive, PromptKinds
  <2>5. Waits(what, id)'
    BY <1>1, <2>1 DEF Waits
  <2>6. Shown'
    BY <1>1, <1>5, <2>2, <2>4, <2>5 DEF Shown, Sent, PromptKinds
  <2>7. OneAtWork'
    BY <1>1, <2>4 DEF InLife, OneAtWork, Owes
  <2> QED
    BY <2>6, <2>7 DEF InLife
<1> QED
  BY <1>2, <1>4, <1>5 DEF InLife, Shown, Answered

LEMMA LoopLives ==
  ASSUME Quiet, AwaitInv, ReachInv, Open, Open', LoopStep
  PROVE  InLife' /\ ~screen' /\ BashHasItsPlaces'
<1>0. InLife /\ ~screen /\ BashHasItsPlaces
  BY DEF ReachInv
<1>1. ASSUME NEW t \in Tasks, SubmitTurn(t) \/ BashReady(t)
      PROVE  InLife' /\ ~screen' /\ BashHasItsPlaces'
  <2>1. /\ ~loading /\ loading' /\ loop' = "running"
        /\ pc' = [pc EXCEPT ![t] = "spawned"]
        /\ \E k \in {"turn", "bash"} : kind' = [kind EXCEPT ![t] = k]
        /\ UNCHANGED <<asked, askedNet, queue, mode, answers, screen>>
    BY <1>0, <1>1
    DEF SubmitTurn, BashReady, Goto, AtPrompt, Keyboard, InLife, OneAtWork
  <2>2. Silent /\ asked = {} /\ askedNet = {} /\ mode = "editing" /\ answers = {}
    BY <1>0, <2>1, NobodyWaits
  <2>3. Free'
    BY <2>1, <2>2 DEF Free, Silent
  <2>4. \A u \in Tasks : ~Owes(u) /\ (u # t => pc'[u] = pc[u] /\ kind'[u] = kind[u])
    BY <1>0, <2>1 DEF InLife, OneAtWork, AwaitInv, Types, PlacesOK
  <2>5. \A u \in Tasks : Owes(u)' => u = t
    BY <2>4 DEF Owes
  <2>6. OneAtWork'
    BY <2>1, <2>5 DEF OneAtWork
  <2>7. pc'[t] = "spawned"
    BY <2>1 DEF AwaitInv, Types, PlacesOK
  <2>8. BashHasItsPlaces'
    BY <1>0, <2>4, <2>7 DEF BashHasItsPlaces, TurnPlaces
  <2> QED
    BY <1>0, <2>1, <2>3, <2>6, <2>8 DEF InLife
<1>2. ASSUME NEW t \in Tasks, Receive(t)
      PROVE  InLife' /\ ~screen' /\ BashHasItsPlaces'
  <2>1. UNCHANGED <<screen, pc, kind>>
    BY <1>2 DEF Receive
  <2> QED
    BY <1>0, <1>2, <2>1, ReceiveLives DEF BashHasItsPlaces
<1>3. ASSUME \/ \E o \in Overrides : SubmitBash(o)
             \/ ReadTools \/ ToolsRead \/ CloseScreen
      PROVE  InLife' /\ ~screen' /\ BashHasItsPlaces'
  <2>1. /\ UNCHANGED <<hostVars, taskVars, mode, modal, pending, loading, answers>>
        /\ ~screen' /\ (loop' = "checking" => ~loading)
    BY <1>0, <1>3 DEF SubmitBash, ReadTools, ToolsRead, CloseScreen
  <2>2. /\ Free' = Free /\ Sent' = Sent /\ Shown' = Shown /\ Answered' = Answered
    BY <2>1 DEF Free, Sent, Shown, Answered, Silent, Only, Waits, Owes
  <2>3. OneAtWork'
    BY <1>0, <2>1 DEF InLife, OneAtWork, Owes
  <2> QED
    BY <1>0, <2>1, <2>2, <2>3 DEF InLife, BashHasItsPlaces
<1>4. ~OpenScreen /\ ~Divert /\ ~Undivert
  BY <1>0
  DEF OpenScreen, Divert, Undivert, Quiet, InLife, Free, Sent, Shown,
      Answered, PromptKinds
<1>5. ASSUME NEW d \in Verdicts, NEW persist \in BOOLEAN,
             AnswerPermission(d, persist)
      PROVE  InLife' /\ ~screen' /\ BashHasItsPlaces'
  <2>1. Silent /\ answers = {} /\ Waits("permission", pending)
    BY <1>0, <1>5 DEF AnswerPermission, InLife, Free, Sent, Shown, Answered
  <2>2. pending # None /\ asked = {pending} /\ askedNet = {}
    BY <2>1, ToolCallsAssumption DEF Waits
  <2>3. /\ asked' = asked \ {pending} /\ mode' = "editing"
        /\ UNCHANGED <<askedNet, answers, queue, pc, kind, loop, loading, screen>>
    BY <1>5, <2>2 DEF AnswerPermission
  <2>4. Free'
    BY <2>1, <2>2, <2>3 DEF Free, Silent
  <2>5. OneAtWork'
    BY <1>0, <2>3 DEF InLife, OneAtWork, Owes
  <2> QED
    BY <1>0, <2>3, <2>4, <2>5 DEF InLife, BashHasItsPlaces
<1>6. ASSUME NEW c \in Choices, AnswerNetwork(c)
      PROVE  InLife' /\ ~screen' /\ BashHasItsPlaces'
  <2>1. Silent /\ answers = {} /\ Waits("network", modal)
    BY <1>0, <1>6 DEF AnswerNetwork, InLife, Free, Sent, Shown, Answered
  <2>2. /\ answers' = {<<modal, c>>} /\ mode' = "editing"
        /\ UNCHANGED <<asked, askedNet, queue, modal, pc, kind, loop, loading, screen>>
    BY <1>6, <2>1 DEF AnswerNetwork
  <2>3. modal \in Ids /\ Waits("network", modal)'
    BY <2>1, <2>2 DEF Waits
  <2>4. Answered'
    BY <2>1, <2>2, <2>3 DEF Answered, Silent
  <2>5. OneAtWork'
    BY <1>0, <2>2 DEF InLife, OneAtWork, Owes
  <2> QED
    BY <1>0, <2>2, <2>4, <2>5 DEF InLife, BashHasItsPlaces
<1>7. ~Quit /\ ~Exit
  BY DEF Quit, Exit, Open
<1> QED
  BY <1>1, <1>2, <1>3, <1>4, <1>5, <1>6, <1>7 DEF LoopStep, UserAnswers

LEMMA DeliverLives ==
  ASSUME InLife, NEW a \in answers, Deliver(a)
  PROVE  InLife'
<1>1. PICK id \in Ids, c \in Choices :
             Waits("network", id) /\ answers = {<<id, c>>}
  BY DEF InLife, Free, Sent, Shown, Answered
<1>2. Silent /\ mode = "editing"
  BY DEF InLife, Free, Sent, Shown, Answered
<1>3. a[1] = id
  BY <1>1
<1>4. /\ askedNet' = askedNet \ {id} /\ answers' = answers \ {a}
      /\ UNCHANGED <<asked, mode, queue, pc, kind, loop, loading>>
  BY <1>3 DEF Deliver, ResolveNetwork
<1>5. Free'
  BY <1>1, <1>2, <1>4 DEF Free, Silent, Waits
<1>6. OneAtWork'
  BY <1>4 DEF InLife, OneAtWork, Owes
<1> QED
  BY <1>5, <1>6 DEF InLife

LEMMA ReachStep ==
  ASSUME Quiet, AwaitInv, ReachInv, [Next]_vars
  PROVE  ReachInv'
<1>1. CASE UNCHANGED vars
  BY <1>1
  DEF vars, ReachInv, BashHasItsPlaces, Open, InLife, OneAtWork, Free, Sent,
      Shown, Answered, Silent, Only, Waits, Owes
<1>2. ~NotifyAborted
  BY DEF NotifyAborted, Quiet, AwaitInv, Types, HistoryOK
<1>3. ASSUME NEW t \in Tasks, TaskStep(t) PROVE ReachInv'
  <2>1. UNCHANGED <<screen, loop>>
    BY <1>3, OthersStay DEF AwaitInv
  <2> QED
    BY <1>3, <2>1, TaskLives, BashKeepsItsPlaces DEF ReachInv, Open
<1>4. ASSUME NEW a \in answers, Deliver(a) PROVE ReachInv'
  <2>1. UNCHANGED <<screen, loop, pc, kind>>
    BY <1>4 DEF Deliver
  <2> QED
    BY <1>4, <2>1, DeliverLives DEF ReachInv, Open, BashHasItsPlaces
<1>5. CASE LoopStep
  <2>1. CASE Open /\ Open'
    BY <1>5, <2>1, LoopLives DEF ReachInv
  <2>2. ASSUME ~Open PROVE ~Open' /\ UNCHANGED <<pc, kind>> /\ ~screen'
    BY <1>5, <2>2
    DEF Open, LoopStep, UserAnswers, Receive, SubmitTurn, BashReady,
        SubmitBash, ReadTools, ToolsRead, AnswerPermission, AnswerNetwork,
        OpenScreen, CloseScreen, Divert, Undivert, Quit, Exit, AtPrompt,
        Keyboard, ReachInv
  <2>3. ASSUME Open, ~Open' PROVE UNCHANGED <<pc, kind, screen>>
    <3>1. Quit \/ Exit
      BY <1>5, <2>3
      DEF Open, LoopStep, UserAnswers, Receive, SubmitTurn, BashReady,
          SubmitBash, ReadTools, ToolsRead, AnswerPermission, AnswerNetwork,
          OpenScreen, CloseScreen, Divert, Undivert
    <3> QED
      BY <3>1 DEF Quit, Exit
  <2> QED
    BY <2>1, <2>2, <2>3 DEF ReachInv, BashHasItsPlaces
<1> QED
  BY <1>1, <1>2, <1>3, <1>4, <1>5 DEF Next

(* As long as no canvas and no screen takes the keyboard and no provider is *)
(* removed, a call that waits for the user has its prompt on the way to    *)
(* him, before his eyes, or answered.                                      *)
THEOREM PromptsReachTheUser ==
  ASSUME Quiet
  PROVE  Spec => []PromptIsReachable
<1>1. Init => AwaitInv /\ ReachInv
  BY AwaitInit, ReachInit
<1>2. AwaitInv /\ ReachInv /\ [Next]_vars => (AwaitInv /\ ReachInv)'
  BY AwaitStep, ReachStep
<1> QED
  BY <1>1, <1>2, LifeIsReachable, PTL DEF Spec
=============================================================================
