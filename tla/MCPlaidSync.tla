---------------------------- MODULE MCPlaidSync ----------------------------
(* Instances of PlaidSync for TLC.                                          *)
EXTENDS PlaidSync, TLC

CONSTANTS a1, a2, t1, t2, v1, v2, w, q1, q2

Symmetry == Permutations(Vals) \union Permutations(Requests)

OneAccount == [t \in Txs |-> a1]
TwoAccounts == (t1 :> a1) @@ (t2 :> a2)
=============================================================================
