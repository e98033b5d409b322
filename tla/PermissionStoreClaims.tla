----------------------- MODULE PermissionStoreClaims -----------------------
(* What documents say of the permission rules and the code does not keep. *)
EXTENDS MCPermissionStore

(***************************************************************************)
(* PRD.md: "`add_rule` writes through to disk so Always/Never decisions    *)
(* persist across sessions".  After a complete write of the only session a *)
(* restart refuses whatever the session refuses.                           *)
(***************************************************************************)
NeverIsKept ==
  \A s \in Session : synced[s] /\ saving[s] = "no" =>
    \A c \in Calls : Verdict(s, c) = "deny" => Evaluate(Load(file), c) = "deny"
=============================================================================
