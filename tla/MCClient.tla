------------------------------- MODULE MCClient -------------------------------
(* Instances of Client for TLC: two entities, two accounts, a file of a row   *)
(* of each kind.                                                              *)
EXTENDS Client

CONSTANTS e1, e2, a1, a2, p1, p2, t1, t2

MCOwnerOf == (a1 :> e1) @@ (a2 :> e1)
\* One account has more transactions than a page holds.
MCTxCount == (a1 :> 1) @@ (a2 :> 3)

Row(kind, type) == [kind |-> kind, id |-> "row", type |-> type]
\* A file that this program wrote.
MCWrittenRows == <<Row("entity", "llc"), Row("account", "checking"), Row("budget", "none")>>
\* --migrate-from-local takes any file: one with the server's kinds in it.
MCForeignRows == <<Row("entity", "LLC"), Row("account", "checking"), Row("budget", "none")>>

\* Processes and tokens are interchangeable; the sequences of the model are chosen
\* from entities and accounts only.
MCSymmetry == Permutations({p1, p2}) \union Permutations({t1, t2})
=============================================================================
