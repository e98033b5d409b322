--------------------------- MODULE MCProviderPool ---------------------------
(* Instances of ProviderPool for TLC. *)
EXTENDS ProviderPool, TLC

Symmetry == Permutations(Turn) \cup Permutations(Disconnect)
              \cup Permutations(Provider)
=============================================================================
