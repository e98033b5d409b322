-------------------------- MODULE HostSetupProofs --------------------------
(***************************************************************************)
(* Proofs about HostSetup for every list of providers and any number of    *)
(* commands.  The properties follow from one inductive invariant: what is  *)
(* queued at each step of the startup, and when the shown provider may     *)
(* differ from the active one.                                             *)
(***************************************************************************)
EXTENDS HostSetup, WellFoundedInduction, TLAPS

(***************************************************************************)
(* Nothing that was queued at startup is lost before its drain.            *)
(***************************************************************************)
QueueInv ==
  /\ pc \in {"bootstrap", "starting", "drainAdd", "drainGate"} => startup
  /\ (startup /\ pc \in {"drainAdd", "check", "promote", "drainGate"})
       => queued = {"gate", "tools"}
  /\ pc = "drainTools" => startup /\ "tools" \in queued /\ (up => gate)
  /\ pc \in {"loop", "use"} => ~startup
  /\ EarlyHostIsGuarded

HostInv ==
  /\ {startup, up, gate, tools, bornEarly, strayed} \subseteq BOOLEAN
  /\ keys \subseteq Provider
  /\ ~up => shown = None /\ ~gate /\ ~tools
  /\ pc \in {"check", "promote", "use"} => up
  /\ subject \in Provider \cup {None} /\ queuedAdd \in Provider \cup {None}
  /\ pc \in {"check", "promote", "use"} => subject \in Provider

(***************************************************************************)
(* Only inside a connection may the TUI show another provider.             *)
(***************************************************************************)
AgreeInv ==
  (up /\ ~strayed /\ pc # "promote" /\ (pc = "check" => shown # None))
    => shown = active

IInv == HostInv /\ QueueInv /\ AgreeInv

LEMMA InitInv == Init => IInv
  BY DEF Init, IInv, HostInv, QueueInv, AgreeInv, EarlyHostIsGuarded

(***************************************************************************)
(* The shared tail of the two connections: the provider is in the pool, or *)
(* it is added to it, in a host of its own if there was none.              *)
(***************************************************************************)
LEMMA AddInv ==
  ASSUME None \notin Provider, IInv, NEW p \in Provider, NEW done,
         startup' = startup, shown' = shown, queued' = queued,
         keys' \subseteq Provider, subject' = p,
         queuedAdd' \in Provider \cup {None},
         startup => pc = "drainAdd" /\ done = "drainGate",
         ~startup => pc = "loop" /\ done = "loop",
         AddProvider(p, done)
  PROVE  IInv'
<1> USE DEF IInv, host, history
<1>1. CASE up /\ p \in pool
  BY <1>1 DEF AddProvider, HostInv, QueueInv, AgreeInv, EarlyHostIsGuarded
<1>2. CASE ~(up /\ p \in pool)
  <2>1. /\ pc' = "check" /\ up' = TRUE
        /\ active' = IF up THEN active ELSE p
        /\ bornEarly' = IF up THEN bornEarly ELSE startup
        /\ gate' = gate /\ tools' = tools /\ strayed' = strayed
    BY <1>2 DEF AddProvider
  <2>2. {startup, up, gate, tools, bornEarly, strayed}' \subseteq BOOLEAN
    BY <2>1 DEF HostInv
  <2>3. HostInv'
    BY <2>1, <2>2 DEF HostInv
  <2>4. QueueInv'
    <3>1. (startup /\ pc \in {"drainAdd", "check", "promote", "drainGate"}
             => queued = {"gate", "tools"})'
      BY <2>1 DEF QueueInv
    <3>2. EarlyHostIsGuarded'
      <4>1. CASE up
        BY <4>1, <2>1 DEF QueueInv, EarlyHostIsGuarded
      <4>2. CASE ~up
        BY <4>2, <2>1 DEF EarlyHostIsGuarded
      <4> QED
        BY <4>1, <4>2
    <3> QED
      BY <3>1, <3>2, <2>1 DEF QueueInv
  <2>5. AgreeInv'
    BY <2>1 DEF HostInv, AgreeInv
  <2> QED
    BY <2>3, <2>4, <2>5
<1> QED
  BY <1>1, <1>2

LEMMA StepInv ==
  ASSUME SetupAssumption, IInv, [Next]_vars
  PROVE  IInv'
<1> USE DEF IInv, HostInv, QueueInv, AgreeInv, EarlyHostIsGuarded,
            host, queue, history
<1> None \notin Provider
  BY DEF SetupAssumption
<1> HIDE DEF Provider
<1>1. CASE Bootstrap
  BY <1>1 DEF Bootstrap
<1>2. CASE HostStarting
  BY <1>2 DEF HostStarting
<1>3. CASE DrainAdd
  <2>1. CASE pc' = "drainGate" /\ UNCHANGED <<host, history>>
    BY <1>3, <2>1 DEF DrainAdd
  <2>2. CASE queuedAdd # None /\ AddProvider(queuedAdd, "drainGate")
    BY <1>3, <2>2, AddInv DEF DrainAdd
  <2> QED
    BY <1>3, <2>1, <2>2 DEF DrainAdd
<1>4. CASE CheckActive
  BY <1>4 DEF CheckActive, Continue
<1>5. CASE Promote
  BY <1>5 DEF Promote, Continue
<1>6. CASE DrainGate
  BY <1>6 DEF DrainGate
<1>7. CASE DrainTools
  BY <1>7 DEF DrainTools
<1>8. CASE UseWrites
  BY <1>8 DEF UseWrites
<1>9. CASE RunTurn
  BY <1>9 DEF RunTurn, Command
<1>10. ASSUME NEW p \in Provider, Connect(p)
       PROVE  IInv'
  <2>1. CASE pc' = pc /\ UNCHANGED <<host, history>>
    BY <1>10, <2>1 DEF Connect, Command
  <2>2. CASE AddProvider(p, "loop")
    BY <1>10, <2>2, AddInv DEF Connect, Command
  <2> QED
    BY <1>10, <2>1, <2>2 DEF Connect
<1>11. ASSUME NEW p \in Provider, Use(p)
       PROVE  IInv'
  BY <1>11 DEF Use, Command
<1>12. ASSUME NEW p \in Provider, Disconnect(p)
       PROVE  IInv'
  BY <1>12 DEF Disconnect, Command
<1>13. ASSUME NEW p \in Provider, Removed(p)
       PROVE  IInv'
  BY <1>13 DEF Removed
<1>14. CASE UNCHANGED vars
  BY <1>14 DEF vars
<1> QED
  BY <1>1, <1>2, <1>3, <1>4, <1>5, <1>6, <1>7, <1>8, <1>9, <1>10, <1>11,
     <1>12, <1>13, <1>14 DEF Next

LEMMA Invariance == Spec => []IInv
<1>1. Init => IInv
  BY InitInv
<1>2. IInv /\ [Next]_vars => IInv'
  BY StepInv, SetupAssumption
<1> QED
  BY <1>1, <1>2, PTL DEF Spec

(***************************************************************************)
(* Whatever the keys, the policy and OTTO_MODEL: a host that exists when   *)
(* the event loop starts has the gate and the in-process tools.            *)
(***************************************************************************)
THEOREM EarlyHostsAreGuarded == Spec => []EarlyHostIsGuarded
<1>1. IInv => EarlyHostIsGuarded
  BY DEF IInv, QueueInv
<1> QED
  BY <1>1, Invariance, PTL

(***************************************************************************)
(* The TUI shows the provider the host routes to, but for the two cases    *)
(* that ShownIsActive names.                                               *)
(***************************************************************************)
THEOREM ShownStaysActive == Spec => []ShownIsActive
<1>1. IInv => ShownIsActive
  BY DEF IInv, AgreeInv, ShownIsActive
<1> QED
  BY <1>1, Invariance, PTL

-----------------------------------------------------------------------------
(***************************************************************************)
(* The first provider in the order of trying exists: an index below which  *)
(* there is no other.                                                      *)
(***************************************************************************)
LEMMA FirstIsMember ==
  ASSUME SetupAssumption, NEW set \in SUBSET Provider, set # {}
  PROVE  First(set) \in set
<1> DEFINE places == {i \in DOMAIN Priority : Priority[i] \in set}
           R == OpToRel(<, Nat)
<1>1. IsWellFoundedOn(R, Nat)
  BY NatLessThanWellFounded
<1>2. \A x, y \in Nat : <<y, x>> \in R <=> y < x
  BY Zenon DEF OpToRel
<1> HIDE DEF R
<1>3. DOMAIN Priority \subseteq Nat
  BY DEF SetupAssumption
<1>4. places \in SUBSET Nat /\ places # {}
  BY <1>3 DEF Provider, Range
<1>5. PICK x \in places : \A y \in places : ~ (<<y, x>> \in R)
  BY <1>1, <1>4, WFMin
<1>6. ASSUME NEW y \in places PROVE x <= y
  <2>1. x \in Nat /\ y \in Nat
    BY <1>4
  <2>2. ~(y < x)
    BY <1>2, <1>5, <2>1, Zenon
  <2> QED
    BY <2>1, <2>2
<1>7. Min(places) \in places
  BY <1>6 DEF Min
<1> QED
  BY <1>7 DEF First

LEMMA TypeInit == SetupAssumption /\ Init => TypeOK
<1> SUFFICES ASSUME SetupAssumption, Init PROVE TypeOK
  OBVIOUS
<1>1. {startup, up, gate, tools, bornEarly, strayed, ungated} \subseteq BOOLEAN
  BY DEF Init
<1>2. keys \subseteq Provider /\ commands \in 0..MaxCommands
  BY DEF Init, SetupAssumption
<1> QED
  BY <1>1, <1>2 DEF Init, TypeOK

(***************************************************************************)
(* A connection leaves a typed host.                                       *)
(***************************************************************************)
LEMMA AddTypes ==
  ASSUME TypeOK, NEW p \in Provider, NEW done \in {"drainGate", "loop"},
         AddProvider(p, done)
  PROVE  /\ pc' \in {"check", done} /\ pool' \subseteq Provider
         /\ active' \in Provider \cup {None}
         /\ up' \in BOOLEAN /\ gate' = gate /\ tools' = tools
         /\ bornEarly' \in BOOLEAN /\ strayed' = strayed /\ ungated' = ungated
         /\ ~up' => pool' = {} /\ active' = None /\ ~gate' /\ ~tools'
<1>0. {startup, up, gate, tools, bornEarly} \subseteq BOOLEAN
  BY DEF TypeOK
<1>1. CASE up /\ p \in pool
  BY <1>0, <1>1 DEF AddProvider, TypeOK, host, history
<1>2. CASE ~(up /\ p \in pool)
  BY <1>0, <1>2 DEF AddProvider, TypeOK
<1> QED
  BY <1>1, <1>2

LEMMA TypeStep ==
  ASSUME SetupAssumption, IInv, TypeOK, [Next]_vars
  PROVE  TypeOK'
<1> USE DEF host, queue, history
<1>0. /\ {startup, up, gate, tools, bornEarly, strayed, ungated} \subseteq BOOLEAN
      /\ commands \in 0..MaxCommands /\ MaxCommands \in Nat
      /\ Command => commands' \in 0..MaxCommands
  BY DEF TypeOK, SetupAssumption, Command
<1>1. CASE Bootstrap
  <2>1. PICK built \in SUBSET keys, allowed \in SUBSET Provider,
             named \in Provider \cup {None}, starts \in BOOLEAN :
          IF built \cap allowed = {} \/ ~starts
          THEN UNCHANGED <<host, shown, history>>
          ELSE /\ up' = TRUE /\ pool' = built \cap allowed
               /\ active' = First(pool')
               /\ shown' = IF named \in built THEN named ELSE active'
               /\ bornEarly' = TRUE /\ strayed' = (shown' # active')
               /\ UNCHANGED <<gate, tools, ungated>>
    BY <1>1 DEF Bootstrap
  <2>2. CASE built \cap allowed = {} \/ ~starts
    BY <1>1, <2>1, <2>2 DEF Bootstrap, TypeOK
  <2>3. CASE ~(built \cap allowed = {} \/ ~starts)
    <3>1. First(built \cap allowed) \in built \cap allowed
      BY <2>3, FirstIsMember
    <3>2. /\ pool' = built \cap allowed /\ active' = First(built \cap allowed)
          /\ shown' = IF named \in built THEN named ELSE active'
          /\ up' = TRUE /\ bornEarly' = TRUE /\ strayed' = (shown' # active')
          /\ UNCHANGED <<gate, tools, ungated>>
      BY <2>1, <2>3
    <3>3. /\ pool' \subseteq Provider /\ active' \in Provider
          /\ shown' \in Provider
      BY <3>1, <3>2 DEF TypeOK
    <3>4. strayed' \in BOOLEAN /\ up' \in BOOLEAN /\ bornEarly' \in BOOLEAN
      BY <3>2
    <3> QED
      BY <1>0, <1>1, <3>2, <3>3, <3>4 DEF Bootstrap, TypeOK
  <2> QED
    BY <2>2, <2>3
<1>2. CASE HostStarting
  BY <1>2 DEF HostStarting, TypeOK
<1>3. CASE DrainAdd
  <2>1. CASE pc' = "drainGate" /\ UNCHANGED <<host, history>>
    BY <1>3, <2>1 DEF DrainAdd, TypeOK
  <2>2. CASE queuedAdd # None /\ AddProvider(queuedAdd, "drainGate")
    <3>1. queuedAdd \in Provider
      BY <2>2 DEF TypeOK
    <3>2. /\ pc' \in {"check", "drainGate"} /\ pool' \subseteq Provider
          /\ active' \in Provider \cup {None}
          /\ up' \in BOOLEAN /\ gate' = gate /\ tools' = tools
          /\ bornEarly' \in BOOLEAN /\ strayed' = strayed /\ ungated' = ungated
          /\ ~up' => pool' = {} /\ active' = None /\ ~gate' /\ ~tools'
      BY <2>2, <3>1, AddTypes
    <3> QED
      BY <1>0, <1>3, <3>1, <3>2 DEF DrainAdd, TypeOK
  <2> QED
    BY <1>3, <2>1, <2>2 DEF DrainAdd
<1>4. CASE CheckActive
  BY <1>0, <1>4 DEF CheckActive, Continue, TypeOK
<1>5. CASE Promote
  <2>1. strayed' \in BOOLEAN /\ up
    BY <1>5 DEF Promote, IInv, HostInv
  <2> QED
    BY <1>0, <1>5, <2>1 DEF Promote, Continue, TypeOK
<1>6. CASE DrainGate
  <2>1. gate' \in BOOLEAN /\ (gate' => gate \/ up)
    BY <1>0, <1>6 DEF DrainGate
  <2> QED
    BY <1>0, <1>6, <2>1 DEF DrainGate, TypeOK
<1>7. CASE DrainTools
  <2>1. tools' \in BOOLEAN /\ (tools' => tools \/ up)
    BY <1>0, <1>7 DEF DrainTools
  <2> QED
    BY <1>0, <1>7, <2>1 DEF DrainTools, TypeOK
<1>8. CASE UseWrites
  <2>1. up /\ subject \in Provider
    BY <1>8 DEF UseWrites, IInv, HostInv
  <2> QED
    BY <1>0, <1>8, <2>1 DEF UseWrites, TypeOK
<1>9. CASE RunTurn
  <2>1. ungated' \in BOOLEAN
    BY <1>0, <1>9 DEF RunTurn
  <2> QED
    BY <1>0, <1>9, <2>1 DEF RunTurn, TypeOK
<1>10. ASSUME NEW p \in Provider, Connect(p)
       PROVE  TypeOK'
  <2>1. keys' \subseteq Provider /\ pc = "loop"
    BY <1>10 DEF Connect, Command, TypeOK
  <2>2. CASE pc' = pc /\ UNCHANGED <<host, history>>
    BY <1>0, <1>10, <2>1, <2>2 DEF Connect, TypeOK
  <2>3. CASE AddProvider(p, "loop")
    <3>1. /\ pc' \in {"check", "loop"} /\ pool' \subseteq Provider
          /\ active' \in Provider \cup {None}
          /\ up' \in BOOLEAN /\ gate' = gate /\ tools' = tools
          /\ bornEarly' \in BOOLEAN /\ strayed' = strayed /\ ungated' = ungated
          /\ ~up' => pool' = {} /\ active' = None /\ ~gate' /\ ~tools'
      BY <2>3, AddTypes
    <3> QED
      BY <1>0, <1>10, <2>1, <3>1 DEF Connect, TypeOK
  <2> QED
    BY <1>10, <2>2, <2>3 DEF Connect
<1>11. ASSUME NEW p \in Provider, Use(p)
       PROVE  TypeOK'
  BY <1>0, <1>11 DEF Use, TypeOK
<1>12. ASSUME NEW p \in Provider, Disconnect(p)
       PROVE  TypeOK'
  BY <1>0, <1>12 DEF Disconnect, TypeOK
<1>13. ASSUME NEW p \in Provider, Removed(p)
       PROVE  TypeOK'
  BY <1>0, <1>13 DEF Removed, TypeOK
<1>14. CASE UNCHANGED vars
  BY <1>14 DEF vars, TypeOK
<1> QED
  BY <1>1, <1>2, <1>3, <1>4, <1>5, <1>6, <1>7, <1>8, <1>9, <1>10, <1>11,
     <1>12, <1>13, <1>14 DEF Next

(***************************************************************************)
(* Every variable has its type, and there is nothing in a host that does   *)
(* not exist (bootstrap_pool_host, apply_pending_pool_add, the pickers).   *)
(***************************************************************************)
THEOREM SetupIsTyped == Spec => []TypeOK
<1>1. Init => TypeOK
  BY TypeInit, SetupAssumption
<1>2. IInv /\ TypeOK /\ [Next]_vars => TypeOK'
  BY TypeStep, SetupAssumption
<1> QED
  BY <1>1, <1>2, Invariance, PTL DEF Spec
=============================================================================
