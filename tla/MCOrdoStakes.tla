---------------------------- MODULE MCOrdoStakes ----------------------------
(* A small instance of OrdoStakes: see stakes.cfg. *)
EXTENDS OrdoStakes, TLC

OneSide == {[weth |-> 4, token |-> 0], [weth |-> 0, token |-> 4]}
Symmetric == Permutations(Accounts)
=============================================================================
