----------------------- MODULE ProviderPoolRefinement -----------------------
(***************************************************************************)
(* ProviderPool implements EntryLifecycle, for all values of the           *)
(* constants.                                                              *)
(***************************************************************************)
EXTENDS ProviderPoolProofs

(* Every entry that was built is in the pool or was taken out of it by     *)
(* exactly one remove_provider call.                                       *)
Accounted ==
  /\ \A e \in Entry :
       e[2] <= built[e[1]] /\ pool[e[1]] # e[2]
         => \E d \in Disconnect : target[d] = e
  /\ \A d, x \in Disconnect :
       target[d] = target[x] /\ target[d] # NoEntry => d = x

(* The stage of an entry that a call of mode m took, with the call at r. *)
StageOfRemoved(m, r) ==
  IF m = "drain"
    THEN IF r \in {"cleanup", "done"} THEN "drained" ELSE "draining"
    ELSE IF r \in {"cleanup", "done"} THEN "forced" ELSE "forcing"

(* What StageOf says, without its CHOOSE. *)
StageFacts ==
  \A e \in Entry :
    /\ pool[e[1]] = e[2] => StageOf(e) = "connected"
    /\ built[e[1]] < e[2] => StageOf(e) = "unbuilt"
    /\ \A d \in Disconnect :
         target[d] = e => StageOf(e) = StageOfRemoved(mode[d], rpc[d])
    /\ \/ pool[e[1]] = e[2]
       \/ built[e[1]] < e[2]
       \/ \E d \in Disconnect : target[d] = e

(* The two functions that the refinement mapping substitutes.              *)
StageMap == [e \in Entry |-> StageOf(e)]
UsersMap == [e \in Entry |-> Holders(e)]

-----------------------------------------------------------------------------
(* Every entry built at the start is connected.                            *)
LEMMA AccountedInit == Init => Accounted
<1> SUFFICES ASSUME Init PROVE Accounted
  OBVIOUS
<1>1. \A d \in Disconnect : target[d] = NoEntry
  BY DEF Init
<1>2. \A p \in Provider : built[p] = pool[p] /\ pool[p] \in {Absent, 1}
  BY DEF Init
<1>3. \A e \in Entry : e[1] \in Provider /\ e[2] \in Nat \ {0}
  BY ConstantsAssumption DEF Entry, Gen
<1> QED
  BY <1>1, <1>2, <1>3 DEF Accounted, Absent

(* Only remove_provider takes an entry out of the pool, and no two calls   *)
(* take the same one.                                                      *)
LEMMA AccountedStep ==
  ASSUME Typed, Generations, Removed, Accounted, [Next]_vars
  PROVE  Accounted'
<1> USE DEF hostVars, turnVars, removeVars
<1>0. \A e \in Entry : e[1] \in Provider /\ e[2] \in Nat \ {0}
  BY ConstantsAssumption DEF Entry, Gen
<1>1. ASSUME NEW d \in Disconnect, NEW p \in Provider, TakeEntry(d, p)
      PROVE  Accounted'
  <2>1. /\ Current(p) \in Entry /\ Current(p) # NoEntry
        /\ Current(p)[1] = p /\ Current(p)[2] = pool[p]
        /\ target[d] = NoEntry
    BY <1>1, CurrentTyped, NoEntryIsNone DEF TakeEntry, Current, Removed
  <2>2. \A x \in Disconnect : target[x] # Current(p)
    BY <2>1 DEF Removed
  <2>3. /\ target' = [target EXCEPT ![d] = Current(p)]
        /\ pool' = [pool EXCEPT ![p] = Absent] /\ built' = built
    BY <1>1 DEF TakeEntry
  <2>4. \A x \in Disconnect :
          target'[x] = IF x = d THEN Current(p) ELSE target[x]
    BY <2>3 DEF Typed
  <2>5. ASSUME NEW e \in Entry, e[2] <= built'[e[1]], pool'[e[1]] # e[2]
        PROVE  \E x \in Disconnect : target'[x] = e
    <3>1. CASE e = Current(p)
      BY <2>4, <3>1
    <3>2. CASE e # Current(p)
      <4>1. pool[e[1]] # e[2]
        <5>1. e[1] = p => e[2] # pool[p]
          BY <3>2 DEF Current, Entry
        <5> QED
          BY <2>3, <2>5, <5>1, <1>0 DEF Typed
      <4>2. PICK x \in Disconnect : target[x] = e
        BY <2>3, <2>5, <4>1 DEF Accounted
      <4>3. x # d
        BY <2>1, <4>2, NoEntryIsNone
      <4> QED
        BY <2>4, <4>2, <4>3
    <3> QED
      BY <3>1, <3>2
  <2>6. ASSUME NEW x \in Disconnect, NEW y \in Disconnect,
               target'[x] = target'[y], target'[x] # NoEntry
        PROVE  x = y
    BY <2>2, <2>4, <2>6 DEF Accounted
  <2> QED
    BY <2>5, <2>6 DEF Accounted
<1>2. ASSUME NEW p \in Provider, InsertEntry(p)
      PROVE  Accounted'
  <2>1. /\ built' = [built EXCEPT ![p] = @ + 1]
        /\ pool' = [pool EXCEPT ![p] = built[p] + 1]
        /\ target' = target /\ pool[p] = Absent
    BY <1>2 DEF InsertEntry, Connected
  <2>2. ASSUME NEW e \in Entry, e[2] <= built'[e[1]], pool'[e[1]] # e[2]
        PROVE  \E x \in Disconnect : target[x] = e
    <3>1. e[1] \in Provider /\ e[2] \in Nat \ {Absent}
      BY ConstantsAssumption DEF Entry, Gen, Absent
    <3>2. CASE e[1] = p
      <4>1. built'[p] = built[p] + 1 /\ pool'[p] = built[p] + 1
        BY <2>1 DEF Typed
      <4>2. built[p] \in Nat
        BY ConstantsAssumption DEF Typed, Gen, Absent
      <4>3. e[2] <= built[e[1]] /\ pool[e[1]] # e[2]
        BY <2>1, <2>2, <3>1, <3>2, <4>1, <4>2
      <4> QED
        BY <4>3 DEF Accounted
    <3>3. CASE e[1] # p
      <4>1. e[2] <= built[e[1]] /\ pool[e[1]] # e[2]
        BY <2>1, <2>2, <3>1, <3>3 DEF Typed
      <4> QED
        BY <4>1 DEF Accounted
    <3> QED
      BY <3>2, <3>3
  <2> QED
    BY <2>1, <2>2 DEF Accounted
<1>3. CASE UNCHANGED <<pool, built, target>>
  BY <1>3 DEF Accounted
<1>4. ASSUME NEW d \in Disconnect, DisconnectStep(d)
      PROVE  UNCHANGED <<pool, built, target>>
  BY <1>4 DEF DisconnectStep, Drained, Signal, GraceMet, GraceExpired,
              HardAbort, NotifyAborted, DropSender
<1> QED
  BY <1>1, <1>2, <1>3, <1>4, HostSteps

(* The call that took an entry is its remover. *)
LEMMA RemoverIsUnique ==
  ASSUME NEW tg, NEW e, NEW d \in Disconnect, tg[d] = e,
         \A x \in Disconnect : tg[x] = e => x = d
  PROVE  (CHOOSE x \in Disconnect : tg[x] = e) = d
OBVIOUS

(* The mapping of an entry, case by case, without the CHOOSE.              *)
LEMMA StageFactsHold == IInv /\ Accounted => StageFacts
<1> SUFFICES ASSUME IInv, Accounted, NEW e \in Entry
             PROVE  /\ pool[e[1]] = e[2] => StageOf(e) = "connected"
                    /\ built[e[1]] < e[2] => StageOf(e) = "unbuilt"
                    /\ \A d \in Disconnect :
                         target[d] = e
                           => StageOf(e) = StageOfRemoved(mode[d], rpc[d])
                    /\ \/ pool[e[1]] = e[2]
                       \/ built[e[1]] < e[2]
                       \/ \E d \in Disconnect : target[d] = e
  BY DEF StageFacts
<1>0. /\ e[1] \in Provider /\ e[2] \in Nat
      /\ pool[e[1]] \in Nat /\ built[e[1]] \in Nat
      /\ pool[e[1]] <= built[e[1]]
  BY ConstantsAssumption DEF IInv, Typed, Generations, Entry, Gen, Absent
<1>1. pool[e[1]] = e[2] => StageOf(e) = "connected"
  BY DEF StageOf
<1>2. built[e[1]] < e[2] => StageOf(e) = "unbuilt"
  BY <1>0 DEF StageOf
<1>3. ASSUME NEW d \in Disconnect, target[d] = e
      PROVE  StageOf(e) = StageOfRemoved(mode[d], rpc[d])
  <2>1. pool[e[1]] # e[2] /\ ~(built[e[1]] < e[2])
    BY <1>0, <1>3, NoEntryIsNone DEF IInv, Removed
  <2>2. \A x \in Disconnect : target[x] = e => x = d
    BY <1>3, NoEntryIsNone DEF Accounted
  <2>3. Remover(e) = d
    BY <1>3, <2>2, RemoverIsUnique DEF Remover
  <2> QED
    BY <2>1, <2>3 DEF StageOf, StageOfRemoved
<1>4. \/ pool[e[1]] = e[2]
      \/ built[e[1]] < e[2]
      \/ \E d \in Disconnect : target[d] = e
  BY <1>0 DEF Accounted
<1> QED
  BY <1>1, <1>2, <1>3, <1>4

(* The same facts after a step.                                            *)
LEMMA StageFactsHoldNext == IInv' /\ Accounted' => StageFacts'
BY StageFactsHold, PTL

-----------------------------------------------------------------------------
(* Steps *)

(* Initially, the connected entries and those never built, all unused. *)
LEMMA RefinesInit == Init => Lifecycle!Init
<1> SUFFICES ASSUME Init PROVE Lifecycle!Init
  OBVIOUS
<1>1. IInv /\ Accounted /\ StageFacts
  BY IInvInit, AccountedInit, StageFactsHold
<1>2. ASSUME NEW e \in Entry
      PROVE  StageOf(e) \in {"unbuilt", "connected"} /\ Holders(e) = {}
  <2>1. \A d \in Disconnect : target[d] # e
    BY NoEntryIsNone DEF Init
  <2>2. StageOf(e) \in {"unbuilt", "connected"}
    BY <1>1, <2>1 DEF StageFacts
  <2>3. Holders(e) = {}
    BY NoEntryIsNone DEF Init, Holders
  <2> QED
    BY <2>2, <2>3
<1> QED
  BY <1>2 DEF Lifecycle!Init

(* Entries, leases and disconnects unchanged: a stutter. *)
LEMMA StutterStep ==
  ASSUME UNCHANGED <<pool, built, removeVars, holds>>
  PROVE  UNCHANGED <<StageMap, UsersMap>>
BY DEF StageMap, UsersMap, StageOf, Remover, Holders, removeVars

(* What a disconnect does to an entry other than its own, and what leasing *)
(* does to any entry: nothing.                                             *)
LEMMA SameStage ==
  ASSUME IInv, StageFacts, StageFacts', NEW e \in Entry,
         pool'[e[1]] = e[2] <=> pool[e[1]] = e[2],
         built'[e[1]] < e[2] <=> built[e[1]] < e[2],
         \A d \in Disconnect :
           target[d] = e => /\ target'[d] = e
                            /\ mode'[d] = mode[d] /\ rpc'[d] = rpc[d]
  PROVE  StageOf(e)' = StageOf(e)
<1>1. CASE pool[e[1]] = e[2]
  BY <1>1 DEF StageFacts
<1>2. CASE built[e[1]] < e[2]
  BY <1>2 DEF StageFacts
<1>3. CASE \E d \in Disconnect : target[d] = e
  BY <1>3 DEF StageFacts
<1> QED
  BY <1>1, <1>2, <1>3 DEF StageFacts

(* A step that moves no lease keeps the abstract users.                    *)
LEMMA SameUsers ==
  ASSUME UNCHANGED holds
  PROVE  UsersMap' = UsersMap
BY DEF UsersMap, Holders

(* Taking a lease is an abstract Acquire.                                  *)
LEMMA LeaseRefines ==
  ASSUME IInv, NEW t \in Turn, NEW p \in Provider, holds[t] = NoEntry,
         Connected(p), Lease(t, Current(p)),
         UNCHANGED <<pool, built, removeVars>>
  PROVE  Lifecycle!Next
<1>1. Current(p) \in Entry /\ StageOf(Current(p)) = "connected"
  BY CurrentTyped DEF IInv, Current, StageOf
<1>2. StageMap' = StageMap
  BY DEF StageMap, StageOf, Remover, removeVars
<1>3. UsersMap' = [UsersMap EXCEPT ![Current(p)] = @ \cup {t}]
  <2>1. \A e \in Entry :
          Holders(e)' = IF e = Current(p) THEN Holders(e) \cup {t}
                                          ELSE Holders(e)
    BY <1>1, NoEntryIsNone DEF IInv, Typed, Lease, Holders
  <2> QED
    BY <1>1, <2>1 DEF UsersMap
<1>4. Lifecycle!Acquire(t, Current(p))
  BY <1>1, <1>2, <1>3 DEF Lifecycle!Acquire, StageMap, UsersMap
<1> QED
  BY <1>1, <1>4 DEF Lifecycle!Next

(* Dropping a lease is an abstract Release.                                *)
LEMMA DropLeaseRefines ==
  ASSUME IInv, NEW t \in Turn, holds[t] \in Entry, DropLease(t),
         UNCHANGED <<pool, built, removeVars>>
  PROVE  Lifecycle!Next
<1>1. t \in Holders(holds[t])
  BY DEF Holders
<1>2. StageMap' = StageMap
  BY DEF StageMap, StageOf, Remover, removeVars
<1>3. UsersMap' = [UsersMap EXCEPT ![holds[t]] = @ \ {t}]
  <2>1. \A e \in Entry :
          Holders(e)' = IF e = holds[t] THEN Holders(e) \ {t} ELSE Holders(e)
    BY NoEntryIsNone DEF IInv, Typed, DropLease, Holders
  <2> QED
    BY <2>1 DEF UsersMap
<1>4. Lifecycle!Release(t, holds[t])
  BY <1>1, <1>2, <1>3 DEF Lifecycle!Release, StageMap, UsersMap
<1> QED
  BY <1>4 DEF Lifecycle!Next

(* The pool insert of add_provider is an abstract Connect.                 *)
LEMMA InsertRefines ==
  ASSUME IInv, StageFacts, StageFacts', NEW p \in Provider, InsertEntry(p)
  PROVE  Lifecycle!Next
<1>0. PICK new \in Entry : new = <<p, built[p] + 1>>
  <2>1. built[p] \in Gen \cup {Absent} /\ built[p] < MaxGen
    BY DEF InsertEntry, IInv, Typed
  <2>2. built[p] + 1 \in Gen
    BY <2>1, ConstantsAssumption DEF Gen, Absent
  <2> QED
    BY <2>2 DEF Entry
<1>1. /\ new[1] = p /\ new[2] = built[p] + 1 /\ pool[p] = Absent
      /\ pool' = [pool EXCEPT ![p] = built[p] + 1]
      /\ built' = [built EXCEPT ![p] = @ + 1]
      /\ UNCHANGED removeVars /\ UNCHANGED holds
  BY <1>0 DEF InsertEntry, Connected, turnVars
<1>2. /\ pool \in [Provider -> Gen \cup {Absent}]
      /\ built \in [Provider -> Gen \cup {Absent}]
  BY DEF IInv, Typed
<1>3. StageOf(new) = "unbuilt" /\ StageOf(new)' = "connected"
  BY <1>1, <1>2, ConstantsAssumption DEF StageFacts, Gen, Absent
<1>4. ASSUME NEW e \in Entry, e # new
      PROVE  StageOf(e)' = StageOf(e)
  <2>1. e = <<e[1], e[2]>> /\ e[1] \in Provider /\ e[2] \in Gen
    BY DEF Entry
  <2>2. pool'[e[1]] = e[2] <=> pool[e[1]] = e[2]
    BY <1>0, <1>1, <1>2, <1>4, <2>1, ConstantsAssumption DEF Gen, Absent
  <2>3. built'[e[1]] < e[2] <=> built[e[1]] < e[2]
    BY <1>0, <1>1, <1>2, <1>4, <2>1, ConstantsAssumption DEF Gen, Absent
  <2> QED
    BY <1>1, <2>2, <2>3, SameStage DEF removeVars
<1>5. StageMap' = [StageMap EXCEPT ![new] = "connected"]
  BY <1>1, <1>3, <1>4 DEF StageMap
<1>6. Lifecycle!Connect(new)
  BY <1>1, <1>3, <1>5, SameUsers DEF Lifecycle!Connect, StageMap, UsersMap
<1> QED
  BY <1>1, <1>6 DEF Lifecycle!Next

(* Taking the entry out of the pool is an abstract BeginDisconnect.        *)
LEMMA TakeRefines ==
  ASSUME IInv, StageFacts, StageFacts',
         NEW d \in Disconnect, NEW p \in Provider, TakeEntry(d, p)
  PROVE  Lifecycle!Next
<1>0. PICK taken \in Entry : taken = Current(p)
  BY CurrentTyped DEF TakeEntry, IInv
<1>1. /\ taken[1] = p /\ taken[2] = pool[p]
      /\ target[d] = NoEntry
      /\ pool' = [pool EXCEPT ![p] = Absent] /\ built' = built
      /\ target' = [target EXCEPT ![d] = taken] /\ mode' = mode
      /\ rpc' = [rpc EXCEPT ![d] =
                   IF mode[d] = "drain" THEN "draining" ELSE "signalling"]
      /\ UNCHANGED holds
  BY <1>0 DEF TakeEntry, Current, IInv, Removed, turnVars
<1>2. /\ pool \in [Provider -> Gen \cup {Absent}]
      /\ target \in [Disconnect -> Entry \cup {NoEntry}]
      /\ rpc \in [Disconnect -> RemovePC]
  BY DEF IInv, Typed
<1>3. StageOf(taken) = "connected"
  BY <1>1 DEF StageFacts
<1>4. target'[d] = taken /\ rpc'[d] \in {"draining", "signalling"}
  BY <1>1, <1>2
<1>5. StageOf(taken)' \in {"draining", "forcing"}
  BY <1>1, <1>4 DEF StageFacts, StageOfRemoved
<1>6. ASSUME NEW e \in Entry, e # taken
      PROVE  StageOf(e)' = StageOf(e)
  <2>1. e = <<e[1], e[2]>> /\ e[1] \in Provider /\ e[2] \in Gen
    BY DEF Entry
  <2>2. pool'[e[1]] = e[2] <=> pool[e[1]] = e[2]
    BY <1>0, <1>1, <1>2, <1>6, <2>1, ConstantsAssumption
       DEF Gen, Absent, Current
  <2>3. \A x \in Disconnect :
          target[x] = e => /\ target'[x] = e
                           /\ mode'[x] = mode[x] /\ rpc'[x] = rpc[x]
    BY <1>1, <1>2, NoEntryIsNone
  <2> QED
    BY <1>1, <2>2, <2>3, SameStage
<1>7. StageMap' = [StageMap EXCEPT ![taken] = StageOf(taken)']
  BY <1>1, <1>6 DEF StageMap
<1>8. Lifecycle!BeginDisconnect(taken)
  BY <1>1, <1>3, <1>5, <1>7, SameUsers
     DEF Lifecycle!BeginDisconnect, StageMap, UsersMap
<1> QED
  BY <1>1, <1>8 DEF Lifecycle!Next

(* The end of the wait is an abstract FinishDrain or FinishForce; the      *)
(* other steps of remove_provider stutter.                                 *)
LEMMA DisconnectRefines ==
  ASSUME IInv, StageFacts, StageFacts', NEW d \in Disconnect, DisconnectStep(d)
  PROVE  Lifecycle!Next \/ UNCHANGED <<StageMap, UsersMap>>
<1>1. /\ UNCHANGED <<pool, built, target, mode, holds>>
      /\ rpc[d] # "idle"
      /\ rpc' = [rpc EXCEPT ![d] = rpc'[d]]
  BY DEF DisconnectStep, Drained, Signal, GraceMet, GraceExpired, HardAbort,
         NotifyAborted, DropSender, hostVars, turnVars, IInv, Typed
<1>2. PICK e \in Entry : target[d] = e
  BY <1>1 DEF IInv, Typed, Removed
<1>3. ASSUME NEW x \in Entry, x # e
      PROVE  StageOf(x)' = StageOf(x)
  <2>1. \A y \in Disconnect : target[y] = x => rpc'[y] = rpc[y]
    BY <1>1, <1>2, <1>3 DEF IInv, Typed
  <2> QED
    BY <1>1, <2>1, SameStage
<1>4. StageMap' = [StageMap EXCEPT ![e] = StageOf(e)']
  BY <1>2, <1>3 DEF StageMap
<1>5. /\ StageOf(e) = StageOfRemoved(mode[d], rpc[d])
      /\ StageOf(e)' = StageOfRemoved(mode[d], rpc'[d])
  BY <1>1, <1>2 DEF StageFacts
<1>6. CASE Drained(d)
  <2>1. StageOf(e) = "draining" /\ StageOf(e)' = "drained"
    BY <1>5, <1>6 DEF Drained, StageOfRemoved, IInv, Removed, Typed
  <2>2. Cardinality(Holders(e)) = 0
    BY <1>2, <1>6 DEF Drained, IInv, LeasesCounted
  <2>3. Holders(e) = {}
    BY <2>2, HoldersFinite, FS_EmptySet
  <2>4. Lifecycle!FinishDrain(e)
    BY <1>1, <1>2, <1>4, <2>1, <2>3, SameUsers
       DEF Lifecycle!FinishDrain, StageMap, UsersMap
  <2> QED
    BY <1>2, <2>4 DEF Lifecycle!Next
<1>7. CASE GraceMet(d) \/ NotifyAborted(d)
  <2>1. StageOf(e) = "forcing" /\ StageOf(e)' = "forced"
    BY <1>5, <1>7 DEF GraceMet, NotifyAborted, StageOfRemoved, IInv, Removed,
                      Typed
  <2>2. Lifecycle!FinishForce(e)
    BY <1>1, <1>2, <1>4, <2>1, SameUsers
       DEF Lifecycle!FinishForce, StageMap, UsersMap
  <2> QED
    BY <1>2, <2>2 DEF Lifecycle!Next
<1>8. CASE Signal(d) \/ GraceExpired(d) \/ HardAbort(d) \/ DropSender(d)
  <2>1. StageOf(e)' = StageOf(e)
    BY <1>5, <1>8 DEF Signal, GraceExpired, HardAbort, DropSender,
                      StageOfRemoved, IInv, Typed
  <2> QED
    BY <1>1, <1>2, <1>4, <2>1, SameUsers DEF StageMap
<1> QED
  BY <1>6, <1>7, <1>8 DEF DisconnectStep

(* Every step of the pool is a step of the abstract lifecycle or a stutter. *)
LEMMA RefinesStep ==
  ASSUME IInv, StageFacts, StageFacts', [Next]_vars
  PROVE  Lifecycle!Next \/ UNCHANGED <<StageMap, UsersMap>>
<1>1. CASE \E t \in Turn, p \in Provider :
             /\ holds[t] = NoEntry /\ Connected(p)
             /\ Lease(t, Current(p)) /\ UNCHANGED <<pool, built, removeVars>>
  BY <1>1, LeaseRefines
<1>2. CASE \E t \in Turn :
             /\ holds[t] \in Entry
             /\ DropLease(t) /\ UNCHANGED <<pool, built, removeVars>>
  BY <1>2, DropLeaseRefines
<1>3. CASE UNCHANGED <<holds, activeTurns>>
  <2>1. CASE UNCHANGED <<pool, built, removeVars>>
    BY <1>3, <2>1, StutterStep
  <2> QED
    BY <2>1, HostSteps, InsertRefines, TakeRefines, DisconnectRefines
<1> QED
  BY <1>1, <1>2, <1>3, LeaseSteps DEF IInv

-----------------------------------------------------------------------------
(* Theorem *)

(* The pool, with its turns, subagents, connects and disconnects, keeps    *)
(* the promise that EntryLifecycle states for each entry.                  *)
THEOREM PoolImplementsLifecycle == Spec => ImplementsLifecycle
<1>1. Init => IInv /\ Accounted
  BY IInvInit, AccountedInit
<1>2. IInv /\ Accounted /\ [Next]_vars => (IInv /\ Accounted)'
  BY IInvStep, AccountedStep DEF IInv
<1>3. IInv /\ Accounted /\ IInv' /\ Accounted' /\ [Next]_vars
        => [Lifecycle!Next]_(Lifecycle!lifecycleVars)
  <2> SUFFICES ASSUME IInv, Accounted, IInv', Accounted', [Next]_vars
               PROVE  Lifecycle!Next \/ UNCHANGED Lifecycle!lifecycleVars
    OBVIOUS
  <2>1. StageFacts /\ StageFacts'
    BY StageFactsHold, StageFactsHoldNext
  <2> QED
    BY <2>1, RefinesStep DEF Lifecycle!lifecycleVars, StageMap, UsersMap
<1> QED
  BY <1>1, <1>2, <1>3, RefinesInit, PTL
     DEF Spec, ImplementsLifecycle, Lifecycle!Spec
=============================================================================
