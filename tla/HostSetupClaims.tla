-------------------------- MODULE HostSetupClaims --------------------------
(***************************************************************************)
(* What the comments about the host's setup say and the code does not do.  *)
(***************************************************************************)
EXTENDS MCHostSetup

(***************************************************************************)
(* user-hooks: its effect makes "the runtime install the gate on the host  *)
(* before any tool call can happen".                                       *)
(***************************************************************************)
TurnsAreGuarded == ~ungated
=============================================================================
