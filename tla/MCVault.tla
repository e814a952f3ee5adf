------------------------------ MODULE MCVault ------------------------------
(* Instances of Vault for TLC. *)
EXTENDS Vault

MCKind == [f \in Fact |-> IF f = 1 THEN "hypothesis" ELSE "fact"]
MCTierAge == <<0, 0, 0>>
============================================================================
