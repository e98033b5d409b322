--------------------------- MODULE EntryLifecycle ---------------------------
(***************************************************************************)
(* What the provider pool promises about one pool entry after another, and *)
(* about nothing else: an entry is used only after it was connected, it    *)
(* gains no user once it is being disconnected, a drained entry is given   *)
(* up only when its last user is gone, and a disconnected entry never      *)
(* comes back (connecting the provider again builds another one).          *)
(***************************************************************************)
CONSTANTS Entry, User

VARIABLES
  stage,  \* where each entry is in its life
  users   \* who holds a lease on it

lifecycleVars == <<stage, users>>

Stage == {"unbuilt", "connected", "draining", "forcing", "drained", "forced"}

Init ==
  /\ stage \in [Entry -> {"unbuilt", "connected"}]
  /\ users = [e \in Entry |-> {}]

Connect(e) ==
  /\ stage[e] = "unbuilt"
  /\ stage' = [stage EXCEPT ![e] = "connected"]
  /\ UNCHANGED users

Acquire(u, e) ==
  /\ stage[e] = "connected"
  /\ users' = [users EXCEPT ![e] = @ \cup {u}]
  /\ UNCHANGED stage

Release(u, e) ==
  /\ u \in users[e]
  /\ users' = [users EXCEPT ![e] = @ \ {u}]
  /\ UNCHANGED stage

BeginDisconnect(e) ==
  /\ stage[e] = "connected"
  /\ \E s \in {"draining", "forcing"} : stage' = [stage EXCEPT ![e] = s]
  /\ UNCHANGED users

FinishDrain(e) ==
  /\ stage[e] = "draining"
  /\ users[e] = {}
  /\ stage' = [stage EXCEPT ![e] = "drained"]
  /\ UNCHANGED users

FinishForce(e) ==
  /\ stage[e] = "forcing"
  /\ stage' = [stage EXCEPT ![e] = "forced"]
  /\ UNCHANGED users

Next ==
  \E e \in Entry :
    \/ Connect(e) \/ BeginDisconnect(e) \/ FinishDrain(e) \/ FinishForce(e)
    \/ \E u \in User : Acquire(u, e) \/ Release(u, e)

Spec == Init /\ [][Next]_lifecycleVars
=============================================================================
