---------------------------- MODULE MCTurnWorkers ----------------------------
(* TurnWorkers with two providers of one model each. *)
EXTENDS TurnWorkers

MCModel == {"a1", "b1"}
MCOwner == [m \in MCModel |-> IF m = "b1" THEN "b" ELSE "a"]

=============================================================================
