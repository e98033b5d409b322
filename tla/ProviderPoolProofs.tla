------------------------- MODULE ProviderPoolProofs -------------------------
(***************************************************************************)
(* Theorems about ProviderPool, for any providers, turns, disconnects,     *)
(* iteration limit and number of entries built.                            *)
(***************************************************************************)
EXTENDS ProviderPool, FiniteSetTheorems, TLAPS

(* Inside an iteration, hence after the first increment of the counter. *)
Iterating == {"subscribed", "leased", "racing", "cancelling", "replied"}

(* TypeOK but for the sign of the lease counters, which is a consequence   *)
(* of LeasesCounted; and no call is named before the first iteration.      *)
Typed ==
  /\ pool \in [Provider -> Gen \cup {Absent}]
  /\ built \in [Provider -> Gen \cup {Absent}]
  /\ activeTurns \in [Entry -> Int]
  /\ active \in Provider
  /\ switching \subseteq Provider
  /\ cancelSignal \in [Provider -> Gen \cup {Absent}]
  /\ connecting \in [Provider -> Gen \cup {Absent}]
  /\ handles \in [Provider -> SUBSET Call]
  /\ slot \in Turn \cup {NoTurn}
  /\ pc \in [Turn -> TurnPC]
  /\ prov \in [Turn -> Provider]
  /\ iter \in [Turn -> 0..MaxIterations]
  /\ sub \in [Turn -> Gen \cup {Absent}]
  /\ signalled \in [Turn -> BOOLEAN]
  /\ holds \in [Turn -> Entry \cup {NoEntry}]
  /\ outcome \in [Turn -> Outcome]
  /\ notices \in [Turn -> SUBSET {"TurnComplete", "Cancelled",
                                  "AbortedAfterGrace"}]
  /\ call \in [Call -> {"unspawned", "running", "finished", "aborted",
                      "panicked"}]
  /\ rpc \in [Disconnect -> RemovePC]
  /\ mode \in [Disconnect -> Modes]
  /\ target \in [Disconnect -> Entry \cup {NoEntry}]
  /\ \A t \in Turn : pc[t] \in Iterating => iter[t] # 0

(* A turn holds a lease exactly while it waits for a provider call or runs *)
(* a subagent.                                                             *)
LeasedInPhase == \A t \in Turn : holds[t] # NoEntry <=> pc[t] \in Leasing

(* Generations only grow: what is in the pool, in the map of senders or in *)
(* a receiver was built before, and the sender that an unfinished          *)
(* add_provider call will insert is newer than any sender in use.          *)
Generations ==
  /\ \A p \in Provider :
       /\ pool[p] <= built[p]
       /\ cancelSignal[p] <= built[p]
       /\ connecting[p] <= built[p]
       /\ connecting[p] # Absent => cancelSignal[p] < connecting[p]
  /\ \A t \in Turn :
       /\ sub[t] <= built[prov[t]]
       /\ connecting[prov[t]] # Absent => sub[t] < connecting[prov[t]]
       /\ pc[t] = "idle" => sub[t] = Absent

(* The entry a remove_provider call took is built, out of the pool and its *)
(* own; the call stands where its mode leads.                              *)
Removed ==
  \A d \in Disconnect :
    /\ rpc[d] = "idle" <=> target[d] = NoEntry
    /\ target[d] # NoEntry =>
         /\ target[d][2] <= built[target[d][1]]
         /\ pool[target[d][1]] # target[d][2]
    /\ rpc[d] = "draining" => mode[d] = "drain"
    /\ rpc[d] \in {"signalling", "grace", "aborting",
                   "notifying"} => mode[d] = "force"

(* While a turn waits for its provider call, its lease is on the provider  *)
(* it was routed to.                                                       *)
LeasedAsRouted ==
  \A t \in Turn :
    pc[t] \in {"leased", "racing", "cancelling"} => holds[t][1] = prov[t]

(* The calls registered under an id were routed to it, by turns that have  *)
(* started.                                                                *)
HandlesAsRouted ==
  \A p \in Provider : \A c \in handles[p] :
    prov[c[1]] = p /\ pc[c[1]] # "idle"

(* Whoever lost its sender, was signalled or was aborted lost it to a      *)
(* disconnect of the provider it is routed to.                             *)
Disconnected(p) ==
  \E d \in Disconnect :
    target[d][1] = p /\ rpc[d] \in AfterBroadcast

(* Every cancellation a turn can observe has such a disconnect behind it.  *)
BlamedTurn(t) ==
  /\ pc[t] = "idle" => ~signalled[t]
  /\ signalled[t] => Disconnected(prov[t])
  /\ (sub[t] # Absent /\ sub[t] # cancelSignal[prov[t]])
       => Disconnected(prov[t])
  /\ (pc[t] = "cancelling" /\ sub[t] # Absent) => Disconnected(prov[t])

(* So has every aborted call; a turn that has not started spawned none.    *)
BlamedCall(c) ==
  /\ pc[c[1]] = "idle" => call[c] = "unspawned"
  /\ call[c] = "aborted" => Disconnected(prov[c[1]])

(* The two together, for the proof of isolation.                           *)
Blamed ==
  /\ \A t \in Turn : BlamedTurn(t)
  /\ \A c \in Call : BlamedCall(c)

(* The inductive invariant: the four checked invariants and what they need *)
(* of leases, generations, routing and disconnects.                        *)
IInv ==
  /\ Typed
  /\ LeasedInPhase
  /\ LeasesCounted
  /\ Generations
  /\ Removed
  /\ LeasedAsRouted
  /\ HandlesAsRouted
  /\ Blamed
  /\ DrainedIsUnused
  /\ ForceReachesEveryCall

-----------------------------------------------------------------------------
(* NoEntry is not an entry: no entry has generation 0. *)
LEMMA NoEntryIsNone == NoEntry \notin Entry
BY ConstantsAssumption DEF NoEntry, Entry, Gen, Absent

(* Init establishes the types. *)
LEMMA TypedInit == Init => Typed
<1> SUFFICES ASSUME Init PROVE Typed
  OBVIOUS
<1>1. PICK connected \in SUBSET Provider :
        /\ pool = [p \in Provider |-> IF p \in connected THEN 1 ELSE Absent]
        /\ active \in connected
  BY DEF Init
<1>2. pool \in [Provider -> Gen \cup {Absent}] /\ active \in Provider
  BY <1>1, ConstantsAssumption DEF Gen, Absent
<1> QED
  BY <1>2, ConstantsAssumption
     DEF Init, Typed, Iterating, TurnPC, Outcome, RemovePC, AfterBroadcast,
     Call, Absent

(* Taking and dropping a lease keep the counters and the leases typed. *)
LEMMA LeaseTyped ==
  ASSUME Typed, NEW t \in Turn, NEW e \in Entry, Lease(t, e)
  PROVE  /\ activeTurns' \in [Entry -> Int]
         /\ holds' \in [Turn -> Entry \cup {NoEntry}]
BY DEF Typed, Lease

(* ProviderLease::drop keeps the counters integers, of whatever sign.      *)
LEMMA DropLeaseTyped ==
  ASSUME Typed, NEW t \in Turn, DropLease(t)
  PROVE  /\ activeTurns' \in [Entry -> Int]
         /\ holds' \in [Turn -> Entry \cup {NoEntry}]
<1>1. activeTurns' = [e \in Entry |-> IF e = holds[t] THEN activeTurns[e] - 1
                                     ELSE activeTurns[e]]
  BY DEF Typed, DropLease
<1>2. /\ activeTurns \in [Entry -> Int]
      /\ holds \in [Turn -> Entry \cup {NoEntry}]
  BY DEF Typed
<1>3. activeTurns' \in [Entry -> Int]
  BY <1>1, <1>2
<1> QED
  BY <1>2, <1>3 DEF DropLease

(* The entry under a connected id, and the call of an iteration. *)
LEMMA CurrentTyped ==
  ASSUME Typed, NEW p \in Provider, Connected(p)
  PROVE  Current(p) \in Entry
BY DEF Typed, Connected, Current, Entry

(* A turn inside an iteration names a call that can exist.                 *)
LEMMA CurrentCallTyped ==
  ASSUME Typed, NEW t \in Turn, pc[t] \in Iterating
  PROVE  CurrentCall(t) \in Call
BY ConstantsAssumption DEF Typed, CurrentCall, Call

(* Every step keeps the types. *)
LEMMA TypedStep == ASSUME Typed, [Next]_vars PROVE Typed'
<1> USE ConstantsAssumption DEF Typed, Iterating, hostVars, turnVars,
removeVars
<1>1. ASSUME NEW t \in Turn, StartTurn(t) PROVE Typed'
  BY <1>1 DEF StartTurn, TurnPC, Absent
<1>2. ASSUME NEW t \in Turn, LoopLimit(t) PROVE Typed'
  BY <1>2 DEF LoopLimit, TurnPC, Absent, Return, Outcome
<1>3. ASSUME NEW t \in Turn, Subscribe(t) PROVE Typed'
  BY <1>3 DEF Subscribe, TurnPC, Absent
<1>4. ASSUME NEW t \in Turn, AcquireLease(t) PROVE Typed'
  <2>1. Current(prov[t]) \in Entry
    BY <1>4, CurrentTyped DEF AcquireLease
  <2>2. /\ activeTurns' \in [Entry -> Int]
        /\ holds' \in [Turn -> Entry \cup {NoEntry}]
    BY <1>4, <2>1, LeaseTyped DEF AcquireLease
  <2> QED
    BY <1>4, <2>2 DEF AcquireLease, TurnPC
<1>5. ASSUME NEW t \in Turn, NoActiveProvider(t) PROVE Typed'
  BY <1>5 DEF NoActiveProvider, TurnPC, Absent, Return, Outcome
<1>6. ASSUME NEW t \in Turn, RegisterHandle(t) PROVE Typed'
  <2>1. CurrentCall(t) \in Call
    BY <1>6, CurrentCallTyped DEF RegisterHandle
  <2> QED
    BY <1>6, <2>1 DEF RegisterHandle, TurnPC
<1>7. ASSUME NEW t \in Turn, Replied(t) PROVE Typed'
  <2>1. /\ activeTurns' \in [Entry -> Int]
        /\ holds' \in [Turn -> Entry \cup {NoEntry}]
    BY <1>7, DropLeaseTyped DEF Replied
  <2> QED
    BY <1>7, <2>1 DEF Replied, TurnPC, Absent
<1>8. ASSUME NEW t \in Turn, ObserveAbort(t) \/ ObservePanic(t) PROVE Typed'
  <2>1. /\ activeTurns' \in [Entry -> Int]
        /\ holds' \in [Turn -> Entry \cup {NoEntry}]
    BY <1>8, DropLeaseTyped DEF ObserveAbort, ObservePanic
  <2> QED
    BY <1>8, <2>1 DEF ObserveAbort, ObservePanic, TurnPC, Absent, Return,
         Outcome
<1>9. ASSUME NEW t \in Turn, ObserveCancel(t) PROVE Typed'
  BY <1>9 DEF ObserveCancel, TurnPC, Absent
<1>10. ASSUME NEW t \in Turn, FinishCancel(t) PROVE Typed'
  <2>1. /\ activeTurns' \in [Entry -> Int]
        /\ holds' \in [Turn -> Entry \cup {NoEntry}]
    BY <1>10, DropLeaseTyped DEF FinishCancel
  <2> QED
    BY <1>10, <2>1 DEF FinishCancel, TurnPC, Absent, Return, Outcome
<1>11. ASSUME NEW t \in Turn, ProviderError(t) PROVE Typed'
  BY <1>11 DEF ProviderError, TurnPC, Absent, PruneHandles, Return, Outcome
<1>12. ASSUME NEW t \in Turn, CompleteTurn(t) PROVE Typed'
  BY <1>12 DEF CompleteTurn, TurnPC, Absent, PruneHandles, Return, Outcome
<1>13. ASSUME NEW t \in Turn, ToolUses(t) PROVE Typed'
  BY <1>13 DEF ToolUses, TurnPC, Absent, PruneHandles
<1>14. ASSUME NEW t \in Turn, StartSubagent(t) PROVE Typed'
  <2>1. Current(active) \in Entry
    BY <1>14, CurrentTyped DEF StartSubagent
  <2>2. /\ activeTurns' \in [Entry -> Int]
        /\ holds' \in [Turn -> Entry \cup {NoEntry}]
    BY <1>14, <2>1, LeaseTyped DEF StartSubagent
  <2> QED
    BY <1>14, <2>2 DEF StartSubagent, TurnPC
<1>15. ASSUME NEW t \in Turn, EndSubagent(t) PROVE Typed'
  <2>1. /\ activeTurns' \in [Entry -> Int]
        /\ holds' \in [Turn -> Entry \cup {NoEntry}]
    BY <1>15, DropLeaseTyped DEF EndSubagent
  <2> QED
    BY <1>15, <2>1 DEF EndSubagent, TurnPC
<1>16. ASSUME NEW t \in Turn, FinishTools(t) PROVE Typed'
  BY <1>16 DEF FinishTools, TurnPC, Absent
<1>17. ASSUME NEW c \in Call, CallFinishes(c) PROVE Typed'
  BY <1>17 DEF CallFinishes
<1>18. ASSUME NEW p \in Provider, InsertEntry(p) PROVE Typed'
  BY <1>18 DEF InsertEntry, Gen, Absent
<1>19. ASSUME NEW p \in Provider, EnsureSender(p) PROVE Typed'
  BY <1>19 DEF EnsureSender, Gen, Absent
<1>20. ASSUME NEW p \in Provider, CheckActive(p) PROVE Typed'
  BY <1>20 DEF CheckActive, Gen
<1>21. ASSUME NEW p \in Provider, WriteActive(p) PROVE Typed'
  BY <1>21 DEF WriteActive, Gen
<1>22. ASSUME NEW d \in Disconnect, NEW p \in Provider, TakeEntry(d,
p) PROVE Typed'
  <2>1. Current(p) \in Entry
    BY <1>22, CurrentTyped DEF TakeEntry
  <2> QED
    BY <1>22, <2>1 DEF TakeEntry, RemovePC, AfterBroadcast
<1>23. ASSUME NEW d \in Disconnect, Drained(d) PROVE Typed'
  BY <1>23 DEF Drained, RemovePC, AfterBroadcast
<1>24. ASSUME NEW d \in Disconnect, Signal(d) PROVE Typed'
  BY <1>24 DEF Signal, RemovePC, AfterBroadcast
<1>25. ASSUME NEW d \in Disconnect, GraceMet(d) PROVE Typed'
  BY <1>25 DEF GraceMet, RemovePC, AfterBroadcast
<1>26. ASSUME NEW d \in Disconnect, GraceExpired(d) PROVE Typed'
  BY <1>26 DEF GraceExpired, RemovePC, AfterBroadcast
<1>27. ASSUME NEW d \in Disconnect, HardAbort(d) PROVE Typed'
  <2>1. call' \in [Call -> {"unspawned", "running", "finished", "aborted",
                            "panicked"}]
    BY <1>27 DEF HardAbort
  <2>2. handles' \in [Provider -> SUBSET Call]
    BY <1>27 DEF HardAbort
  <2>3. rpc' \in [Disconnect -> RemovePC]
    BY <1>27 DEF HardAbort, RemovePC, AfterBroadcast
  <2> QED
    BY <1>27, <2>1, <2>2, <2>3 DEF HardAbort
<1>28. ASSUME NEW d \in Disconnect, NotifyAborted(d) PROVE Typed'
  <2>1. notices' \in [Turn -> SUBSET {"TurnComplete", "Cancelled",
                                      "AbortedAfterGrace"}]
    <3>1. CASE UNCHANGED notices
      BY <3>1
    <3>2. CASE /\ slot # NoTurn
               /\ notices' = [notices EXCEPT
                    ![slot] = @ \cup {"AbortedAfterGrace"}]
      BY <3>2
    <3> QED
      BY <1>28, <3>1, <3>2 DEF NotifyAborted
  <2>2. rpc' \in [Disconnect -> RemovePC]
    BY <1>28 DEF NotifyAborted, RemovePC, AfterBroadcast
  <2> QED
    BY <1>28, <2>1, <2>2 DEF NotifyAborted
<1>29. ASSUME NEW d \in Disconnect, DropSender(d) PROVE Typed'
  BY <1>29 DEF DropSender, RemovePC, AfterBroadcast, Absent
<1>30. CASE UNCHANGED vars
  BY <1>30 DEF vars
<1> QED
  BY <1>1, <1>2, <1>3, <1>4, <1>5, <1>6, <1>7, <1>8, <1>9, <1>10, <1>11,
       <1>12, <1>13, <1>14, <1>15, <1>16, <1>17, <1>18, <1>19, <1>20, <1>21,
       <1>22, <1>23, <1>24, <1>25, <1>26,
     <1>27, <1>28, <1>29, <1>30
     DEF Next, TurnStep, DisconnectStep

-----------------------------------------------------------------------------
(* Leases *)

(* A turn's lease and its phase change together. *)
LEMMA LeasedInPhaseStep ==
  ASSUME Typed, LeasedInPhase, [Next]_vars
  PROVE  LeasedInPhase'
<1> USE NoEntryIsNone DEF Typed, LeasedInPhase, Leasing
<1>1. ASSUME NEW t \in Turn, \/ StartTurn(t) \/ Subscribe(t)
                             \/ RegisterHandle(t) \/ ObserveCancel(t)
                             \/ ToolUses(t) \/ FinishTools(t)
      PROVE  LeasedInPhase'
  BY <1>1 DEF StartTurn, Subscribe, RegisterHandle, ObserveCancel, ToolUses,
              FinishTools
<1>2. ASSUME NEW t \in Turn, \/ LoopLimit(t) \/ NoActiveProvider(t)
                             \/ ProviderError(t) \/ CompleteTurn(t)
      PROVE  LeasedInPhase'
  BY <1>2 DEF LoopLimit, NoActiveProvider, ProviderError, CompleteTurn, Return
<1>3. ASSUME NEW t \in Turn, AcquireLease(t) \/ StartSubagent(t)
      PROVE  LeasedInPhase'
  <2>1. Connected(prov[t]) => Current(prov[t]) \in Entry
    BY CurrentTyped
  <2>2. Connected(active) => Current(active) \in Entry
    BY CurrentTyped
  <2> QED
    BY <1>3, <2>1, <2>2 DEF AcquireLease, StartSubagent, Lease
<1>4. ASSUME NEW t \in Turn, \/ Replied(t) \/ ObserveAbort(t)
                             \/ ObservePanic(t)
                             \/ FinishCancel(t) \/ EndSubagent(t)
      PROVE  LeasedInPhase'
  BY <1>4 DEF Replied, ObserveAbort, ObservePanic, FinishCancel, EndSubagent,
       DropLease,
              Return
<1>5. CASE UNCHANGED <<pc, holds>>
  BY <1>5
<1>6. ASSUME NEW c \in Call, CallFinishes(c)
      PROVE  UNCHANGED <<pc, holds>>
  BY <1>6 DEF CallFinishes, turnVars
<1>7. ASSUME NEW p \in Provider, \/ InsertEntry(p) \/ EnsureSender(p)
                                 \/ CheckActive(p) \/ WriteActive(p)
      PROVE  UNCHANGED <<pc, holds>>
  BY <1>7 DEF InsertEntry, EnsureSender, CheckActive, WriteActive, turnVars
<1>8. ASSUME NEW d \in Disconnect, \/ \E p \in Provider : TakeEntry(d, p)
                                   \/ DisconnectStep(d)
      PROVE  UNCHANGED <<pc, holds>>
  BY <1>8 DEF TakeEntry, DisconnectStep, Drained, Signal, GraceMet,
              GraceExpired, HardAbort, NotifyAborted, DropSender, turnVars
<1>9. CASE UNCHANGED vars
  BY <1>5, <1>9 DEF vars, turnVars
<1> QED
  BY <1>1, <1>2, <1>3, <1>4, <1>5, <1>6, <1>7, <1>8, <1>9 DEF Next, TurnStep

(* The steps that touch a lease: a turn without one takes one, a turn with *)
(* one drops it, or no lease and no counter changes.                       *)
LEMMA LeaseSteps ==
  ASSUME Typed, LeasedInPhase, [Next]_vars
  PROVE  \/ \E t \in Turn, p \in Provider :
              /\ holds[t] = NoEntry /\ Connected(p)
              /\ Lease(t, Current(p)) /\ UNCHANGED <<pool, built, removeVars>>
         \/ \E t \in Turn :
              /\ holds[t] \in Entry
              /\ DropLease(t) /\ UNCHANGED <<pool, built, removeVars>>
         \/ UNCHANGED <<holds, activeTurns>>
<1> USE DEF hostVars, turnVars, removeVars
<1>1. ASSUME NEW t \in Turn, AcquireLease(t) \/ StartSubagent(t)
      PROVE  \E p \in Provider :
               /\ holds[t] = NoEntry /\ Connected(p)
               /\ Lease(t, Current(p)) /\ UNCHANGED <<pool, built, removeVars>>
  <2>1. holds[t] = NoEntry
    BY <1>1 DEF AcquireLease, StartSubagent, LeasedInPhase, Leasing
  <2>2. prov[t] \in Provider /\ active \in Provider
    BY DEF Typed
  <2> QED
    BY <1>1, <2>1, <2>2 DEF AcquireLease, StartSubagent
<1>2. ASSUME NEW t \in Turn, \/ Replied(t) \/ ObserveAbort(t)
                             \/ ObservePanic(t)
                             \/ FinishCancel(t) \/ EndSubagent(t)
      PROVE  /\ holds[t] \in Entry
             /\ DropLease(t) /\ UNCHANGED <<pool, built, removeVars>>
  BY <1>2 DEF Replied, ObserveAbort, ObservePanic, FinishCancel, EndSubagent,
       Typed,
              LeasedInPhase, Leasing
<1>3. ASSUME NEW t \in Turn,
             \/ StartTurn(t) \/ LoopLimit(t) \/ Subscribe(t)
             \/ NoActiveProvider(t) \/ RegisterHandle(t) \/ ObserveCancel(t)
             \/ ProviderError(t) \/ CompleteTurn(t) \/ ToolUses(t)
             \/ FinishTools(t)
      PROVE  UNCHANGED <<holds, activeTurns>>
  BY <1>3 DEF StartTurn, LoopLimit, Subscribe, NoActiveProvider,
              RegisterHandle, ObserveCancel, ProviderError, CompleteTurn,
              ToolUses, FinishTools
<1>4. ASSUME NEW c \in Call, CallFinishes(c)
      PROVE  UNCHANGED <<holds, activeTurns>>
  BY <1>4 DEF CallFinishes
<1>5. ASSUME NEW p \in Provider, \/ InsertEntry(p) \/ EnsureSender(p)
                                 \/ CheckActive(p) \/ WriteActive(p)
      PROVE  UNCHANGED <<holds, activeTurns>>
  BY <1>5 DEF InsertEntry, EnsureSender, CheckActive, WriteActive
<1>6. ASSUME NEW d \in Disconnect, \/ \E p \in Provider : TakeEntry(d, p)
                                   \/ DisconnectStep(d)
      PROVE  UNCHANGED <<holds, activeTurns>>
  BY <1>6 DEF TakeEntry, DisconnectStep, Drained, Signal, GraceMet,
              GraceExpired, HardAbort, NotifyAborted, DropSender
<1>7. CASE UNCHANGED vars
  BY <1>7 DEF vars
<1> QED
  BY <1>1, <1>2, <1>3, <1>4, <1>5, <1>6, <1>7 DEF Next, TurnStep

(* The holders of an entry are finitely many. *)
LEMMA HoldersFinite == ASSUME NEW e PROVE IsFiniteSet(Holders(e))
BY ConstantsAssumption, FS_Subset DEF Holders

(* The counters and the leases change together. *)
LEMMA LeasesCountedStep ==
  ASSUME Typed, LeasedInPhase, LeasesCounted, [Next]_vars
  PROVE  LeasesCounted'
<1> SUFFICES ASSUME NEW e \in Entry
             PROVE  activeTurns'[e] = Cardinality(Holders(e)')
  BY DEF LeasesCounted
<1>0. /\ activeTurns[e] = Cardinality(Holders(e))
      /\ Cardinality(Holders(e)) \in Nat
      /\ IsFiniteSet(Holders(e))
  BY HoldersFinite, FS_CardinalityType DEF LeasesCounted
<1>1. ASSUME NEW t \in Turn, NEW p \in Provider, holds[t] = NoEntry,
             Connected(p), Lease(t, Current(p))
      PROVE  activeTurns'[e] = Cardinality(Holders(e)')
  <2>1. Current(p) \in Entry
    BY <1>1, CurrentTyped
  <2>2. CASE e = Current(p)
    <3>1. Holders(e)' = Holders(e) \cup {t} /\ t \notin Holders(e)
      BY <1>1, <2>2, NoEntryIsNone DEF Holders, Lease, Typed
    <3>2. Cardinality(Holders(e)') = Cardinality(Holders(e)) + 1
      BY <1>0, <3>1, FS_AddElement
    <3>3. activeTurns'[e] = activeTurns[e] + 1
      BY <1>1, <2>2 DEF Lease, Typed
    <3> QED
      BY <1>0, <3>2, <3>3
  <2>3. CASE e # Current(p)
    <3>1. Holders(e)' = Holders(e)
      BY <1>1, <2>3, NoEntryIsNone DEF Holders, Lease, Typed
    <3>2. activeTurns'[e] = activeTurns[e]
      BY <1>1, <2>1, <2>3 DEF Lease, Typed
    <3> QED
      BY <1>0, <3>1, <3>2
  <2> QED
    BY <2>2, <2>3
<1>2. ASSUME NEW t \in Turn, holds[t] \in Entry, DropLease(t)
      PROVE  activeTurns'[e] = Cardinality(Holders(e)')
  <2>1. CASE e = holds[t]
    <3>1. Holders(e)' = Holders(e) \ {t} /\ t \in Holders(e)
      BY <1>2, <2>1, NoEntryIsNone DEF Holders, DropLease, Typed
    <3>2. Cardinality(Holders(e)') = Cardinality(Holders(e)) - 1
      BY <1>0, <3>1, FS_RemoveElement
    <3>3. activeTurns'[e] = activeTurns[e] - 1
      BY <1>2, <2>1 DEF DropLease, Typed
    <3> QED
      BY <1>0, <3>2, <3>3
  <2>2. CASE e # holds[t]
    <3>1. Holders(e)' = Holders(e)
      BY <1>2, <2>2, NoEntryIsNone DEF Holders, DropLease, Typed
    <3>2. activeTurns'[e] = activeTurns[e]
      BY <1>2, <2>2 DEF DropLease, Typed
    <3> QED
      BY <1>0, <3>1, <3>2
  <2> QED
    BY <2>1, <2>2
<1>3. CASE UNCHANGED <<holds, activeTurns>>
  BY <1>0, <1>3 DEF Holders
<1> QED
  BY <1>1, <1>2, <1>3, LeaseSteps

-----------------------------------------------------------------------------
(* Generations and disconnects *)

(* Only connecting and disconnecting touch entries and disconnects. *)
LEMMA HostSteps ==
  ASSUME [Next]_vars
  PROVE  \/ \E d \in Disconnect, p \in Provider : TakeEntry(d, p)
         \/ \E d \in Disconnect : DisconnectStep(d)
         \/ \E p \in Provider : InsertEntry(p)
         \/ UNCHANGED <<pool, built, removeVars>>
<1> USE DEF hostVars
<1>1. ASSUME NEW t \in Turn,
             \/ StartTurn(t) \/ TurnStep(t)
             \/ StartSubagent(t) \/ EndSubagent(t) \/ FinishTools(t)
      PROVE  UNCHANGED <<pool, built, removeVars>>
  BY <1>1 DEF StartTurn, TurnStep, LoopLimit, Subscribe, AcquireLease,
       NoActiveProvider, RegisterHandle, Replied, ObserveAbort, ObservePanic,
       ObserveCancel,
       FinishCancel, ProviderError, CompleteTurn, ToolUses, StartSubagent,
       EndSubagent, FinishTools
<1>2. ASSUME NEW p \in Provider,
             EnsureSender(p) \/ CheckActive(p) \/ WriteActive(p)
      PROVE  UNCHANGED <<pool, built, removeVars>>
  BY <1>2 DEF EnsureSender, CheckActive, WriteActive
<1>3. ASSUME NEW c \in Call, CallFinishes(c)
      PROVE  UNCHANGED <<pool, built, removeVars>>
  BY <1>3 DEF CallFinishes
<1>4. CASE UNCHANGED vars
  BY <1>4 DEF vars
<1> QED
  BY <1>1, <1>2, <1>3, <1>4 DEF Next

(* add_provider only ever builds a newer entry and inserts a newer sender. *)
LEMMA GenerationsStep ==
  ASSUME Typed, Generations, [Next]_vars
  PROVE  Generations'
<1> USE ConstantsAssumption
    DEF Typed, Generations, Gen, Absent, hostVars, turnVars, removeVars
<1>1. ASSUME NEW t \in Turn, StartTurn(t)
      PROVE  Generations'
  BY <1>1 DEF StartTurn
<1>2. ASSUME NEW t \in Turn, Subscribe(t)
      PROVE  Generations'
  BY <1>2 DEF Subscribe
<1>3. ASSUME NEW t \in Turn,
             \/ LoopLimit(t) \/ NoActiveProvider(t) \/ ObserveAbort(t)
             \/ ObservePanic(t)
             \/ FinishCancel(t) \/ ProviderError(t) \/ CompleteTurn(t)
      PROVE  Generations'
  BY <1>3 DEF LoopLimit, NoActiveProvider, ObserveAbort, ObservePanic,
       FinishCancel,
              ProviderError, CompleteTurn, Return
<1>4. ASSUME NEW t \in Turn, Replied(t)
      PROVE  Generations'
  BY <1>4 DEF Replied
<1>5. ASSUME NEW t \in Turn,
             \/ AcquireLease(t) \/ RegisterHandle(t) \/ ObserveCancel(t)
             \/ ToolUses(t) \/ StartSubagent(t) \/ EndSubagent(t)
             \/ FinishTools(t)
      PROVE  Generations'
  BY <1>5 DEF AcquireLease, RegisterHandle, ObserveCancel, ToolUses,
              StartSubagent, EndSubagent, FinishTools
<1>6. ASSUME NEW p \in Provider, InsertEntry(p)
      PROVE  Generations'
  BY <1>6 DEF InsertEntry
<1>7. ASSUME NEW p \in Provider, EnsureSender(p)
      PROVE  Generations'
  BY <1>7 DEF EnsureSender
<1>8. ASSUME NEW d \in Disconnect, NEW p \in Provider, TakeEntry(d, p)
      PROVE  Generations'
  BY <1>8 DEF TakeEntry
<1>9. ASSUME NEW d \in Disconnect, DropSender(d)
      PROVE  Generations'
  BY <1>9 DEF DropSender
<1>10. CASE UNCHANGED <<pool, built, cancelSignal, connecting, sub, prov, pc>>
  BY <1>10
<1>11. ASSUME NEW d \in Disconnect,
              Drained(d) \/ Signal(d) \/ GraceMet(d) \/ GraceExpired(d)
              \/ HardAbort(d) \/ NotifyAborted(d)
       PROVE  Generations'
  BY <1>10, <1>11 DEF Drained, Signal, GraceMet, GraceExpired, HardAbort,
       NotifyAborted
<1>12. ASSUME NEW p \in Provider, CheckActive(p) \/ WriteActive(p)
       PROVE  Generations'
  BY <1>10, <1>12 DEF CheckActive, WriteActive
<1>13. ASSUME NEW c \in Call, CallFinishes(c)
       PROVE  Generations'
  BY <1>10, <1>13 DEF CallFinishes
<1>14. CASE UNCHANGED vars
  BY <1>10, <1>14 DEF vars
<1> QED
  BY <1>1, <1>2, <1>3, <1>4, <1>5, <1>6, <1>7, <1>8, <1>9, <1>11, <1>12,
     <1>13, <1>14
     DEF Next, TurnStep, DisconnectStep

(* An entry that remove_provider took out of the pool never comes back.    *)
LEMMA RemovedStep ==
  ASSUME Typed, Generations, Removed, [Next]_vars
  PROVE  Removed'
<1> USE NoEntryIsNone, ConstantsAssumption
    DEF Typed, Removed, hostVars, turnVars, removeVars
<1>1. ASSUME NEW d \in Disconnect, NEW p \in Provider, TakeEntry(d, p)
      PROVE  Removed'
  <2>1. /\ Current(p) \in Entry
        /\ Current(p)[1] = p /\ Current(p)[2] = pool[p]
        /\ pool[p] <= built[p] /\ pool[p] # Absent
    BY <1>1, CurrentTyped DEF TakeEntry, Current, Connected, Generations
  <2>2. /\ target' = [target EXCEPT ![d] = Current(p)]
        /\ pool' = [pool EXCEPT ![p] = Absent]
        /\ built' = built /\ mode' = mode
        /\ rpc' = [rpc EXCEPT ![d] =
                     IF mode[d] = "drain" THEN "draining" ELSE "signalling"]
    BY <1>1 DEF TakeEntry
  <2>3. mode[d] \in {"drain", "force"}
    OBVIOUS
  <2> SUFFICES ASSUME NEW x \in Disconnect
               PROVE  /\ rpc'[x] = "idle" <=> target'[x] = NoEntry
                      /\ target'[x] # NoEntry =>
                           /\ target'[x][2] <= built'[target'[x][1]]
                           /\ pool'[target'[x][1]] # target'[x][2]
                      /\ rpc'[x] = "draining" => mode'[x] = "drain"
                      /\ rpc'[x] \in {"signalling", "grace", "aborting",
                                      "notifying"}
                           => mode'[x] = "force"
    OBVIOUS
  <2>4. CASE x = d
    BY <2>1, <2>2, <2>3, <2>4
  <2>5. CASE x # d
    <3>1. target'[x] = target[x] /\ rpc'[x] = rpc[x]
      BY <2>2, <2>5
    <3>2. target[x] # NoEntry
            => target[x][1] \in Provider /\ target[x][2] # Absent
      BY DEF Entry, Gen, Absent
    <3> QED
      BY <2>2, <3>1, <3>2
  <2> QED
    BY <2>4, <2>5
<1>2. ASSUME NEW p \in Provider, InsertEntry(p)
      PROVE  Removed'
  <2>1. \A d \in Disconnect : target[d] # NoEntry =>
          target[d][1] \in Provider /\ target[d][2] \in Gen
    BY DEF Entry
  <2> QED
    BY <1>2, <2>1 DEF InsertEntry, Gen, Absent
<1>3. ASSUME NEW d \in Disconnect, DisconnectStep(d)
      PROVE  Removed'
  BY <1>3 DEF DisconnectStep, Drained, Signal, GraceMet, GraceExpired,
       HardAbort, NotifyAborted,
              DropSender
<1>4. CASE UNCHANGED <<pool, built, removeVars>>
  BY <1>4
<1> QED
  BY <1>1, <1>2, <1>3, <1>4, HostSteps

(* A drain stops waiting only when its counter is zero, and the entry can  *)
(* no longer be leased.                                                    *)
LEMMA DrainedIsUnusedStep ==
  ASSUME Typed, LeasedInPhase, LeasesCounted, Removed, DrainedIsUnused,
         [Next]_vars
  PROVE  DrainedIsUnused'
<1> SUFFICES ASSUME NEW d \in Disconnect, mode'[d] = "drain",
                    rpc'[d] \in {"cleanup", "done"}
             PROVE  Holders(target[d])' = {}
  BY DEF DrainedIsUnused
<1> USE DEF removeVars
<1>1. /\ target' [d] = target[d] /\ mode'[d] = mode[d]
      /\ target[d] \in Entry /\ rpc[d] # "idle"
      /\ Holders(target[d]) = {}
  <2>1. CASE \E x \in Disconnect, p \in Provider : TakeEntry(x, p)
    BY <2>1, NoEntryIsNone DEF TakeEntry, Typed, Removed, DrainedIsUnused
  <2>2. CASE \E x \in Disconnect : DisconnectStep(x)
    <3>1. PICK x \in Disconnect : DisconnectStep(x)
      BY <2>2
    <3>2. target' = target /\ mode' = mode
      BY <3>1 DEF DisconnectStep, Drained, Signal, GraceMet, GraceExpired,
           HardAbort, NotifyAborted,
                  DropSender
    <3>3. rpc[d] # "idle"
      BY <3>1 DEF DisconnectStep, Drained, Signal, GraceMet, GraceExpired,
           HardAbort, NotifyAborted,
                  DropSender, Typed
    <3>4. target[d] \in Entry
      BY <3>3 DEF Typed, Removed
    <3>5. CASE rpc[d] \in {"cleanup", "done"}
      BY <3>2, <3>3, <3>4, <3>5 DEF DrainedIsUnused
    <3>6. CASE rpc[d] \notin {"cleanup", "done"}
      <4>1. activeTurns[target[d]] = 0
        BY <3>1, <3>2, <3>6 DEF DisconnectStep, Drained, Signal, GraceMet,
             GraceExpired, HardAbort, NotifyAborted, DropSender, Typed, Removed
      <4>2. Cardinality(Holders(target[d])) = 0
        BY <3>4, <4>1 DEF LeasesCounted
      <4>3. Holders(target[d]) = {}
        BY <4>2, HoldersFinite, FS_EmptySet
      <4> QED
        BY <3>2, <3>3, <3>4, <4>3
    <3> QED
      BY <3>5, <3>6
  <2>3. CASE UNCHANGED removeVars
    BY <2>3 DEF Typed, Removed, DrainedIsUnused
  <2>4. ASSUME NEW p \in Provider, InsertEntry(p)
        PROVE  UNCHANGED removeVars
    BY <2>4 DEF InsertEntry
  <2> QED
    BY <2>1, <2>2, <2>3, <2>4, HostSteps
<1>2. CASE \E t \in Turn, p \in Provider :
             /\ holds[t] = NoEntry /\ Connected(p)
             /\ Lease(t, Current(p)) /\ UNCHANGED <<pool, built, removeVars>>
  <2>1. PICK t \in Turn, p \in Provider :
               Connected(p) /\ Lease(t, Current(p))
    BY <1>2
  <2>2. Current(p) # target[d]
    BY <1>1, NoEntryIsNone DEF Removed, Current
  <2> QED
    BY <1>1, <2>1, <2>2 DEF Holders, Lease, Typed
<1>3. CASE \E t \in Turn : holds[t] \in Entry /\ DropLease(t)
  BY <1>1, <1>3, NoEntryIsNone DEF Holders, DropLease, Typed
<1>4. CASE UNCHANGED <<holds, activeTurns>>
  BY <1>1, <1>4 DEF Holders
<1> QED
  BY <1>2, <1>3, <1>4, LeaseSteps

-----------------------------------------------------------------------------
(* Cancellation *)

(* run_turn leases under the id its routing decision pinned, and only      *)
(* there.                                                                  *)
LEMMA LeasedAsRoutedStep ==
  ASSUME Typed, LeasedAsRouted, [Next]_vars
  PROVE  LeasedAsRouted'
<1> USE DEF Typed, LeasedAsRouted, hostVars, turnVars, removeVars
<1>1. ASSUME NEW t \in Turn, \/ StartTurn(t) \/ Subscribe(t) \/ ToolUses(t)
                             \/ RegisterHandle(t) \/ ObserveCancel(t)
                             \/ FinishTools(t)
      PROVE  LeasedAsRouted'
  BY <1>1 DEF StartTurn, Subscribe, ToolUses, RegisterHandle, ObserveCancel,
              FinishTools
<1>2. ASSUME NEW t \in Turn, AcquireLease(t) \/ StartSubagent(t)
      PROVE  LeasedAsRouted'
  BY <1>2 DEF AcquireLease, StartSubagent, Lease, Current
<1>3. ASSUME NEW t \in Turn, \/ Replied(t) \/ ObserveAbort(t)
                             \/ ObservePanic(t)
                             \/ FinishCancel(t) \/ EndSubagent(t)
      PROVE  LeasedAsRouted'
  BY <1>3 DEF Replied, ObserveAbort, ObservePanic, FinishCancel, EndSubagent,
       DropLease,
              Return
<1>4. ASSUME NEW t \in Turn, \/ LoopLimit(t) \/ NoActiveProvider(t)
                             \/ ProviderError(t) \/ CompleteTurn(t)
      PROVE  LeasedAsRouted'
  BY <1>4 DEF LoopLimit, NoActiveProvider, ProviderError, CompleteTurn, Return
<1>5. CASE UNCHANGED <<pc, holds, prov>>
  BY <1>5
<1>6. ASSUME NEW p \in Provider, \/ InsertEntry(p) \/ EnsureSender(p)
                                 \/ CheckActive(p) \/ WriteActive(p)
      PROVE  UNCHANGED <<pc, holds, prov>>
  BY <1>6 DEF InsertEntry, EnsureSender, CheckActive, WriteActive
<1>7. ASSUME NEW d \in Disconnect, \/ \E p \in Provider : TakeEntry(d, p)
                                   \/ DisconnectStep(d)
      PROVE  UNCHANGED <<pc, holds, prov>>
  BY <1>7 DEF TakeEntry, DisconnectStep, Drained, Signal, GraceMet,
              GraceExpired, HardAbort, NotifyAborted, DropSender
<1>8. ASSUME NEW c \in Call, CallFinishes(c)
      PROVE  UNCHANGED <<pc, holds, prov>>
  BY <1>8 DEF CallFinishes
<1>9. CASE UNCHANGED vars
  BY <1>5, <1>9 DEF vars
<1> QED
  BY <1>1, <1>2, <1>3, <1>4, <1>5, <1>6, <1>7, <1>8, <1>9 DEF Next, TurnStep

(* A receiver that lost its sender never gets one back: the sender that    *)
(* add_provider inserts into an empty slot is newer than every receiver.   *)
LEMMA SenderStaysGone ==
  ASSUME Typed, Generations, NEW t \in Turn, SenderGone(t),
         UNCHANGED <<sub, prov>>,
         \/ UNCHANGED cancelSignal
         \/ \E p \in Provider : EnsureSender(p)
         \/ \E d \in Disconnect : DropSender(d)
  PROVE  SenderGone(t)'
<1> USE ConstantsAssumption DEF Typed, SenderGone
<1>1. CASE UNCHANGED cancelSignal
  BY <1>1
<1>2. ASSUME NEW p \in Provider, EnsureSender(p)
      PROVE  SenderGone(t)'
  BY <1>2 DEF EnsureSender, Generations, Gen, Absent
<1>3. ASSUME NEW d \in Disconnect, DropSender(d)
      PROVE  SenderGone(t)'
  BY <1>3 DEF DropSender, Absent
<1> QED
  BY <1>1, <1>2, <1>3

(* Broadcast after the entry left the pool, subscribe before leasing it:   *)
(* whoever holds the removed entry subscribed before the broadcast.        *)
LEMMA ForceReachesEveryCallStep ==
  ASSUME Typed, Generations, Removed, LeasedAsRouted, ForceReachesEveryCall,
         [Next]_vars
  PROVE  ForceReachesEveryCall'
<1> SUFFICES ASSUME NEW d \in Disconnect, NEW t \in Turn,
                    mode'[d] = "force", rpc'[d] \in AfterBroadcast,
                    pc'[t] \in {"leased", "racing"}, holds'[t] = target'[d]
             PROVE  signalled'[t] \/ SenderGone(t)'
  BY DEF ForceReachesEveryCall
<1> USE DEF Typed, AfterBroadcast, hostVars, turnVars, removeVars
<1> DEFINE Reached == signalled[t] \/ SenderGone(t)
           Before == /\ mode[d] = "force"
                     /\ rpc[d] \in AfterBroadcast
                     /\ pc[t] \in {"leased", "racing"}
                     /\ holds[t] = target[d]
<1>0. Before => Reached
  BY DEF ForceReachesEveryCall
<1>1. ASSUME NEW u \in Turn, AcquireLease(u)
      PROVE  Reached'
  <2>1. CASE u = t
    <3>1. /\ holds'[t] = Current(prov[t]) /\ Current(prov[t]) \in Entry
          /\ target'[d] = target[d]
      BY <1>1, <2>1, CurrentTyped DEF AcquireLease, Lease
    <3>2. target[d] # NoEntry
      BY <3>1, NoEntryIsNone
    <3>3. pool[target[d][1]] # target[d][2]
      BY <3>2 DEF Removed
    <3>4. target[d] = <<prov[t], pool[prov[t]]>>
      BY <3>1 DEF Current
    <3>5. target[d][1] = prov[t] /\ target[d][2] = pool[prov[t]]
      BY <3>4
    <3> QED
      BY <3>3, <3>5
  <2>2. CASE u # t
    BY <1>0, <1>1, <2>2 DEF AcquireLease, Lease, SenderGone
  <2> QED
    BY <2>1, <2>2
<1>2. ASSUME NEW u \in Turn, \/ StartTurn(u) \/ Subscribe(u)
                             \/ RegisterHandle(u) \/ ObserveCancel(u)
                             \/ ToolUses(u) \/ FinishTools(u)
      PROVE  Reached'
  BY <1>0, <1>2 DEF StartTurn, Subscribe, RegisterHandle, ObserveCancel,
                    ToolUses, FinishTools, SenderGone
<1>3. ASSUME NEW u \in Turn, \/ LoopLimit(u) \/ NoActiveProvider(u)
                             \/ ProviderError(u) \/ CompleteTurn(u)
      PROVE  Reached'
  BY <1>0, <1>3 DEF LoopLimit, NoActiveProvider, ProviderError, CompleteTurn,
                    Return, SenderGone
<1>4. ASSUME NEW u \in Turn, \/ Replied(u) \/ ObserveAbort(u)
                             \/ ObservePanic(u)
                             \/ FinishCancel(u) \/ EndSubagent(u)
      PROVE  Reached'
  BY <1>0, <1>4 DEF Replied, ObserveAbort, ObservePanic, FinishCancel,
       EndSubagent,
                    DropLease, Return, SenderGone
<1>5. ASSUME NEW u \in Turn, StartSubagent(u)
      PROVE  Reached'
  BY <1>0, <1>5 DEF StartSubagent, Lease, SenderGone
<1>6. ASSUME NEW c \in Call, CallFinishes(c)
      PROVE  Reached'
  BY <1>0, <1>6 DEF CallFinishes, SenderGone
<1>7. ASSUME NEW p \in Provider, \/ InsertEntry(p) \/ CheckActive(p)
                                 \/ WriteActive(p)
      PROVE  Reached'
  BY <1>0, <1>7 DEF InsertEntry, CheckActive, WriteActive, SenderGone
<1>8. ASSUME NEW p \in Provider, EnsureSender(p)
      PROVE  Reached'
  <2>1. Before /\ UNCHANGED <<sub, prov, signalled>>
    BY <1>8 DEF EnsureSender
  <2> QED
    BY <1>0, <1>8, <2>1, SenderStaysGone
<1>9. ASSUME NEW x \in Disconnect, NEW p \in Provider, TakeEntry(x, p)
      PROVE  Reached'
  BY <1>0, <1>9 DEF TakeEntry, SenderGone
<1>10. ASSUME NEW x \in Disconnect, Signal(x)
       PROVE  Reached'
  <2>1. CASE x = d
    <3>1. holds[t] = target[d] /\ pc[t] \in {"leased", "racing"}
      BY <1>10 DEF Signal
    <3>2. prov[t] = target[d][1]
      BY <3>1 DEF LeasedAsRouted
    <3> QED
      BY <1>10, <2>1, <3>2 DEF Signal, SenderGone
  <2>2. CASE x # d
    BY <1>0, <1>10, <2>2 DEF Signal, SenderGone
  <2> QED
    BY <2>1, <2>2
<1>11. ASSUME NEW x \in Disconnect,
              Drained(x) \/ GraceMet(x) \/ GraceExpired(x)
              \/ HardAbort(x) \/ NotifyAborted(x)
       PROVE  Reached'
  BY <1>0, <1>11 DEF Drained, GraceMet, GraceExpired, HardAbort,
       NotifyAborted, SenderGone, Removed
<1>12. ASSUME NEW x \in Disconnect, DropSender(x)
       PROVE  Reached'
  <2>1. Before /\ UNCHANGED <<sub, prov, signalled>>
    BY <1>12 DEF DropSender
  <2> QED
    BY <1>0, <1>12, <2>1, SenderStaysGone
<1>13. CASE UNCHANGED vars
  BY <1>0, <1>13 DEF vars, SenderGone
<1> QED
  BY <1>1, <1>2, <1>3, <1>4, <1>5, <1>6, <1>7, <1>8, <1>9, <1>10, <1>11,
     <1>12, <1>13
     DEF Next, TurnStep, DisconnectStep

-----------------------------------------------------------------------------
(* Isolation *)

(* A disconnect that reached its grace period stays in the record. *)
LEMMA DisconnectedStays ==
  ASSUME Typed, Removed, [Next]_vars, NEW p \in Provider, Disconnected(p)
  PROVE  Disconnected(p)'
<1> USE DEF AfterBroadcast
<1>1. PICK d \in Disconnect :
        target[d][1] = p /\ rpc[d] \in AfterBroadcast
  BY DEF Disconnected
<1>2. target'[d] = target[d] /\ rpc'[d] \in AfterBroadcast
  <2>1. CASE \E x \in Disconnect, q \in Provider : TakeEntry(x, q)
    BY <1>1, <2>1 DEF TakeEntry, Typed
  <2>2. CASE \E x \in Disconnect : DisconnectStep(x)
    BY <1>1, <2>2 DEF DisconnectStep, Drained, Signal, GraceMet, GraceExpired,
         HardAbort, NotifyAborted,
                      DropSender, Typed
  <2>3. CASE UNCHANGED removeVars
    BY <1>1, <2>3 DEF removeVars
  <2>4. ASSUME NEW q \in Provider, InsertEntry(q)
        PROVE  UNCHANGED removeVars
    BY <2>4 DEF InsertEntry
  <2> QED
    BY <2>1, <2>2, <2>3, <2>4, HostSteps
<1> QED
  BY <1>1, <1>2 DEF Disconnected

(* run_turn registers a call under the id it is routed to; disconnects     *)
(* only remove handles.                                                    *)
LEMMA HandlesAsRoutedStep ==
  ASSUME Typed, HandlesAsRouted, [Next]_vars
  PROVE  HandlesAsRouted'
<1> USE DEF Typed, HandlesAsRouted, hostVars, turnVars, removeVars
<1>1. ASSUME NEW t \in Turn, StartTurn(t)
      PROVE  HandlesAsRouted'
  BY <1>1 DEF StartTurn, Call
<1>2. ASSUME NEW t \in Turn, RegisterHandle(t)
      PROVE  HandlesAsRouted'
  BY <1>2 DEF RegisterHandle, CurrentCall, Call
<1>3. ASSUME NEW t \in Turn, \/ ProviderError(t) \/ CompleteTurn(t)
                             \/ ToolUses(t)
      PROVE  HandlesAsRouted'
  BY <1>3 DEF ProviderError, CompleteTurn, ToolUses, PruneHandles, Return, Call
<1>4. ASSUME NEW t \in Turn,
             \/ LoopLimit(t) \/ NoActiveProvider(t) \/ ObserveAbort(t)
             \/ ObservePanic(t)
             \/ FinishCancel(t) \/ Subscribe(t) \/ AcquireLease(t)
             \/ Replied(t) \/ ObserveCancel(t) \/ StartSubagent(t)
             \/ EndSubagent(t) \/ FinishTools(t)
      PROVE  HandlesAsRouted'
  BY <1>4 DEF LoopLimit, NoActiveProvider, ObserveAbort, ObservePanic,
       FinishCancel,
       Subscribe, AcquireLease, Replied, ObserveCancel, StartSubagent,
       EndSubagent, FinishTools, Return, Call
<1>5. ASSUME NEW d \in Disconnect, HardAbort(d)
      PROVE  HandlesAsRouted'
  BY <1>5 DEF HardAbort
<1>6. CASE UNCHANGED <<handles, prov, pc>>
  BY <1>6
<1>7. ASSUME NEW d \in Disconnect,
             \/ \E p \in Provider : TakeEntry(d, p)
             \/ Drained(d) \/ Signal(d) \/ GraceMet(d) \/ GraceExpired(d)
             \/ NotifyAborted(d) \/ DropSender(d)
      PROVE  UNCHANGED <<handles, prov, pc>>
  BY <1>7 DEF TakeEntry, Drained, Signal, GraceMet, GraceExpired,
              NotifyAborted, DropSender
<1>8. ASSUME NEW p \in Provider, \/ InsertEntry(p) \/ EnsureSender(p)
                                 \/ CheckActive(p) \/ WriteActive(p)
      PROVE  UNCHANGED <<handles, prov, pc>>
  BY <1>8 DEF InsertEntry, EnsureSender, CheckActive, WriteActive
<1>9. ASSUME NEW c \in Call, CallFinishes(c)
      PROVE  UNCHANGED <<handles, prov, pc>>
  BY <1>9 DEF CallFinishes
<1>10. CASE UNCHANGED vars
  BY <1>6, <1>10 DEF vars
<1> QED
  BY <1>1, <1>2, <1>3, <1>4, <1>5, <1>6, <1>7, <1>8, <1>9, <1>10
     DEF Next, TurnStep, DisconnectStep

(* Only a disconnect of its own provider signals a turn or drops its       *)
(* sender.                                                                 *)
LEMMA BlamedTurnStep ==
  ASSUME Typed, Generations, Removed, Blamed, [Next]_vars, NEW t \in Turn
  PROVE  BlamedTurn(t)'
<1> USE DEF Typed, AfterBroadcast, hostVars, turnVars, removeVars
<1>0. /\ BlamedTurn(t)
      /\ pc[t] = "idle" => sub[t] = Absent
      /\ \A p \in Provider : Disconnected(p) => Disconnected(p)'
  BY DisconnectedStays DEF Blamed, Generations
<1>1. ASSUME NEW u \in Turn, StartTurn(u)
      PROVE  BlamedTurn(t)'
  BY <1>0, <1>1 DEF StartTurn, BlamedTurn
<1>2. ASSUME NEW u \in Turn, Subscribe(u)
      PROVE  BlamedTurn(t)'
  BY <1>0, <1>2 DEF Subscribe, BlamedTurn
<1>3. ASSUME NEW u \in Turn, ObserveCancel(u)
      PROVE  BlamedTurn(t)'
  BY <1>0, <1>3 DEF ObserveCancel, SenderGone, BlamedTurn
<1>4. ASSUME NEW u \in Turn,
             \/ LoopLimit(u) \/ NoActiveProvider(u) \/ ProviderError(u)
             \/ CompleteTurn(u) \/ ObserveAbort(u) \/ ObservePanic(u)
             \/ FinishCancel(u)
      PROVE  BlamedTurn(t)'
  BY <1>0, <1>4 DEF LoopLimit, NoActiveProvider, ProviderError, CompleteTurn,
                    ObserveAbort, ObservePanic, FinishCancel, Return,
                    BlamedTurn
<1>5. ASSUME NEW u \in Turn, Replied(u)
      PROVE  BlamedTurn(t)'
  BY <1>0, <1>5 DEF Replied, BlamedTurn
<1>6. ASSUME NEW u \in Turn,
             \/ AcquireLease(u) \/ RegisterHandle(u) \/ ToolUses(u)
             \/ StartSubagent(u) \/ EndSubagent(u) \/ FinishTools(u)
      PROVE  BlamedTurn(t)'
  BY <1>0, <1>6 DEF AcquireLease, RegisterHandle, ToolUses, StartSubagent,
                    EndSubagent, FinishTools, BlamedTurn
<1>7. ASSUME NEW p \in Provider, EnsureSender(p)
      PROVE  BlamedTurn(t)'
  BY <1>0, <1>7 DEF EnsureSender, BlamedTurn
<1>8. ASSUME NEW p \in Provider,
             InsertEntry(p) \/ CheckActive(p) \/ WriteActive(p)
      PROVE  BlamedTurn(t)'
  BY <1>0, <1>8 DEF InsertEntry, CheckActive, WriteActive, BlamedTurn
<1>9. ASSUME NEW d \in Disconnect, Signal(d)
      PROVE  BlamedTurn(t)'
  <2>1. Disconnected(target[d][1])'
    BY <1>9 DEF Signal, Disconnected
  <2> QED
    BY <1>0, <1>9, <2>1 DEF Signal, BlamedTurn
<1>10. ASSUME NEW d \in Disconnect, DropSender(d)
       PROVE  BlamedTurn(t)'
  <2>1. Disconnected(target[d][1])'
    BY <1>10 DEF DropSender, Disconnected
  <2> QED
    BY <1>0, <1>10, <2>1 DEF DropSender, BlamedTurn
<1>11. ASSUME NEW d \in Disconnect,
              \/ \E p \in Provider : TakeEntry(d, p)
              \/ Drained(d) \/ GraceMet(d) \/ GraceExpired(d)
              \/ HardAbort(d) \/ NotifyAborted(d)
       PROVE  BlamedTurn(t)'
  BY <1>0, <1>11 DEF TakeEntry, Drained, GraceMet, GraceExpired, HardAbort,
       NotifyAborted, BlamedTurn
<1>12. ASSUME NEW c \in Call, CallFinishes(c)
       PROVE  BlamedTurn(t)'
  BY <1>0, <1>12 DEF CallFinishes, BlamedTurn
<1>13. CASE UNCHANGED vars
  BY <1>0, <1>13 DEF vars, BlamedTurn
<1> QED
  BY <1>1, <1>2, <1>3, <1>4, <1>5, <1>6, <1>7, <1>8, <1>9, <1>10, <1>11,
     <1>12, <1>13
     DEF Next, TurnStep, DisconnectStep

(* Only a disconnect of its own provider aborts a call.                    *)
LEMMA BlamedCallStep ==
  ASSUME Typed, Removed, HandlesAsRouted, Blamed, [Next]_vars, NEW c \in Call
  PROVE  BlamedCall(c)'
<1> USE DEF Typed, AfterBroadcast, hostVars, turnVars, removeVars
<1>0. /\ BlamedCall(c) /\ c[1] \in Turn
      /\ \A p \in Provider : Disconnected(p) => Disconnected(p)'
  BY DisconnectedStays DEF Blamed, Call
<1>1. ASSUME NEW t \in Turn, StartTurn(t)
      PROVE  BlamedCall(c)'
  BY <1>0, <1>1 DEF StartTurn, BlamedCall
<1>2. ASSUME NEW t \in Turn, AcquireLease(t)
      PROVE  BlamedCall(c)'
  BY <1>0, <1>2 DEF AcquireLease, CurrentCall, BlamedCall
<1>3. ASSUME NEW x \in Call, CallFinishes(x)
      PROVE  BlamedCall(c)'
  <2>1. pc[x[1]] # "idle"
    BY <1>3 DEF CallFinishes, Blamed, BlamedCall
  <2> QED
    BY <1>0, <1>3, <2>1 DEF CallFinishes, BlamedCall
<1>4. ASSUME NEW d \in Disconnect, HardAbort(d)
      PROVE  BlamedCall(c)'
  <2>1. Disconnected(target[d][1])'
    BY <1>4 DEF HardAbort, Disconnected
  <2>2. target[d][1] \in Provider
    BY <1>4, NoEntryIsNone DEF HardAbort, Removed, Entry
  <2>3. c \in handles[target[d][1]] =>
          prov[c[1]] = target[d][1] /\ pc[c[1]] # "idle"
    BY <2>2 DEF HandlesAsRouted
  <2> QED
    BY <1>0, <1>4, <2>1, <2>3 DEF HardAbort, BlamedCall
<1>5. ASSUME NEW t \in Turn,
             \/ LoopLimit(t) \/ NoActiveProvider(t) \/ ProviderError(t)
             \/ CompleteTurn(t) \/ ObserveAbort(t) \/ ObservePanic(t)
             \/ FinishCancel(t)
      PROVE  BlamedCall(c)'
  BY <1>0, <1>5 DEF LoopLimit, NoActiveProvider, ProviderError, CompleteTurn,
                    ObserveAbort, ObservePanic, FinishCancel, Return,
                    BlamedCall
<1>6. ASSUME NEW t \in Turn,
             \/ Subscribe(t) \/ RegisterHandle(t) \/ Replied(t)
             \/ ObserveCancel(t) \/ ToolUses(t) \/ StartSubagent(t)
             \/ EndSubagent(t) \/ FinishTools(t)
      PROVE  BlamedCall(c)'
  BY <1>0, <1>6 DEF Subscribe, RegisterHandle, Replied, ObserveCancel,
       ToolUses, StartSubagent, EndSubagent, FinishTools, BlamedCall
<1>7. CASE UNCHANGED <<pc, prov, call>>
  BY <1>0, <1>7 DEF BlamedCall
<1>8. ASSUME NEW d \in Disconnect,
             \/ \E p \in Provider : TakeEntry(d, p)
             \/ Drained(d) \/ Signal(d) \/ GraceMet(d) \/ GraceExpired(d)
             \/ NotifyAborted(d) \/ DropSender(d)
      PROVE  UNCHANGED <<pc, prov, call>>
  BY <1>8 DEF TakeEntry, Drained, Signal, GraceMet, GraceExpired,
              NotifyAborted, DropSender
<1>9. ASSUME NEW p \in Provider, \/ InsertEntry(p) \/ EnsureSender(p)
                                 \/ CheckActive(p) \/ WriteActive(p)
      PROVE  UNCHANGED <<pc, prov, call>>
  BY <1>9 DEF InsertEntry, EnsureSender, CheckActive, WriteActive
<1>10. CASE UNCHANGED vars
  BY <1>7, <1>10 DEF vars
<1> QED
  BY <1>1, <1>2, <1>3, <1>4, <1>5, <1>6, <1>7, <1>8, <1>9, <1>10
     DEF Next, TurnStep, DisconnectStep

-----------------------------------------------------------------------------
(* Theorems *)

(* The inductive invariant holds at the start... *)
LEMMA IInvInit == Init => IInv
<1> SUFFICES ASSUME Init PROVE IInv
  OBVIOUS
<1>1. Typed
  BY TypedInit
<1>2. \A e \in Entry : Holders(e) = {}
  BY NoEntryIsNone DEF Init, Holders
<1>3. LeasesCounted
  BY <1>2, HoldersFinite, FS_EmptySet DEF Init, LeasesCounted
<1>4. LeasedInPhase /\ LeasedAsRouted /\ HandlesAsRouted
  BY DEF Init, LeasedInPhase, LeasedAsRouted, HandlesAsRouted, Leasing
<1>5. Generations
  BY <1>1, ConstantsAssumption DEF Init, Generations, Typed, Gen, Absent
<1>6. Removed /\ DrainedIsUnused /\ ForceReachesEveryCall
  <2>1. \A d \in Disconnect : rpc[d] = "idle" /\ target[d] = NoEntry
    BY DEF Init
  <2> QED
    BY <2>1 DEF Removed, DrainedIsUnused, ForceReachesEveryCall,
                AfterBroadcast
<1>7. Blamed
  BY DEF Init, Blamed, BlamedTurn, BlamedCall
<1> QED
  BY <1>1, <1>3, <1>4, <1>5, <1>6, <1>7 DEF IInv

(* ... and every step keeps it. *)
LEMMA IInvStep == IInv /\ [Next]_vars => IInv'
<1> SUFFICES ASSUME IInv, [Next]_vars PROVE IInv'
  OBVIOUS
<1>1. Typed'
  BY TypedStep DEF IInv
<1>2. LeasedInPhase' /\ LeasesCounted'
  BY LeasedInPhaseStep, LeasesCountedStep DEF IInv
<1>3. Generations' /\ Removed'
  BY GenerationsStep, RemovedStep DEF IInv
<1>4. LeasedAsRouted' /\ HandlesAsRouted'
  BY LeasedAsRoutedStep, HandlesAsRoutedStep DEF IInv
<1>5. Blamed'
  BY BlamedTurnStep, BlamedCallStep DEF IInv, Blamed
<1>6. DrainedIsUnused' /\ ForceReachesEveryCall'
  BY DrainedIsUnusedStep, ForceReachesEveryCallStep DEF IInv
<1> QED
  BY <1>1, <1>2, <1>3, <1>4, <1>5, <1>6 DEF IInv

(* Hence the inductive invariant always holds.                             *)
LEMMA Invariance == Spec => []IInv
BY IInvInit, IInvStep, PTL DEF Spec

(* Type correctness: in particular no path through run_turn drops more     *)
(* leases than it took, so the AtomicUsize never wraps.                    *)
THEOREM TypeCorrect == Spec => []TypeOK
<1>1. IInv => TypeOK
  <2> SUFFICES ASSUME IInv PROVE TypeOK
    OBVIOUS
  <2>1. \A e \in Entry : activeTurns[e] \in Nat
    BY HoldersFinite, FS_CardinalityType DEF IInv, LeasesCounted
  <2>2. activeTurns \in [Entry -> Nat]
    BY <2>1 DEF IInv, Typed
  <2> QED
    BY <2>2 DEF IInv, Typed, TypeOK
<1> QED
  BY <1>1, Invariance, PTL

(* The counter that a disconnect waits on is the number of leases that are *)
(* out.                                                                    *)
THEOREM LeasesAreCounted == Spec => []LeasesCounted
<1>1. IInv => LeasesCounted
  BY DEF IInv
<1> QED
  BY <1>1, Invariance, PTL

(* When a drain returns, nobody uses the entry it removed, and nobody ever *)
(* will.                                                                   *)
THEOREM DrainsAreComplete == Spec => []DrainedIsUnused
<1>1. IInv => DrainedIsUnused
  BY DEF IInv
<1> QED
  BY <1>1, Invariance, PTL

(* Subscribing before leasing closes the window in which a forced          *)
(* disconnect would miss a provider call.                                  *)
THEOREM ForceMissesNoCall == Spec => []ForceReachesEveryCall
<1>1. IInv => ForceReachesEveryCall
  BY DEF IInv
<1> QED
  BY <1>1, Invariance, PTL

(* Cancelling and aborting stay within the provider that is disconnected.  *)
THEOREM Isolation == Spec => []DisconnectsAreIsolated
<1>1. IInv => DisconnectsAreIsolated
  <2> SUFFICES ASSUME IInv, NEW t \in Turn,
                      \/ pc[t] = "cancelling" /\ sub[t] # Absent
                      \/ iter[t] > 0 /\ call[CurrentCall(t)] = "aborted"
               PROVE  Disconnected(prov[t])
    BY DEF DisconnectsAreIsolated, Disconnected
  <2>1. CASE pc[t] = "cancelling" /\ sub[t] # Absent
    BY <2>1 DEF IInv, Blamed, BlamedTurn
  <2>2. CASE iter[t] > 0 /\ call[CurrentCall(t)] = "aborted"
    <3>1. CurrentCall(t) \in Call /\ CurrentCall(t)[1] = t
      BY <2>2 DEF IInv, Typed, CurrentCall, Call
    <3> QED
      BY <2>2, <3>1 DEF IInv, Blamed, BlamedCall
  <2> QED
    BY <2>1, <2>2
<1> QED
  BY <1>1, Invariance, PTL
=============================================================================
