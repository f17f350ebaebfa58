----------------------------- MODULE MCDataApi -----------------------------
(* Instances of DataApi for TLC.                                           *)
EXTENDS DataApi, TLC

CONSTANTS r1, r2, e1, a1, t1, b1, alice, bob, eve

MCUsers == {alice, bob, eve}
MCColumns == 1 .. 2
Unwritten == [c \in MCColumns |-> NoOne]

\* alice owns e1, bob is a member; e1 has a budget, and an account with
\* one transaction.
MCRows == (e1 :> [kind |-> "entity", parent |-> NoOne, val |-> Unwritten])
       @@ (a1 :> [kind |-> "account", parent |-> e1, val |-> Unwritten])
       @@ (t1 :> [kind |-> "tx", parent |-> a1, val |-> Unwritten])
       @@ (b1 :> [kind |-> "budget", parent |-> e1, val |-> Unwritten])
MCMembers == {[user |-> alice, entity |-> e1, role |-> "owner"],
              [user |-> bob, entity |-> e1, role |-> "member"]}

\* A name of a few words, a kind, and what could be a key.
Words == [size |-> 40, chars |-> "other"]
Word == [size |-> 8, chars |-> "base64"]
Keylike == [size |-> 32, chars |-> "base64"]

Post(u, k, p) == [op |-> "create", user |-> u, kind |-> k, parent |-> p,
                  name |-> Words, label |-> Word, printed |-> 70]
Put(u, k, x, c) == [op |-> "update", user |-> u, kind |-> k, id |-> x, cols |-> c]
Del(u, k, x) == [op |-> "delete", user |-> u, kind |-> k, id |-> x]
Get(o, u, k, x) == [op |-> o, user |-> u, kind |-> k, id |-> x]

\* Every operation and every kind of row, by members and others, on seeded rows
\* and on the row that the other request may have created: not every pair of
\* an operation and a kind.
MCInputs ==
  {[op |-> "browse", user |-> NoOne],
   Post(eve, "entity", NoOne), Post(bob, "tx", a1), Post(alice, "budget", e1),
   [Post(alice, "account", e1) EXCEPT !.name = Keylike],
   [Post(bob, "category", e1) EXCEPT !.label = Keylike],
   Put(bob, "account", a1, {1, 2}),
   Del(alice, "account", a1), Del(bob, "tx", t1),
   Del(alice, "entity", e1), Del(bob, "entity", e1),
   Get("get", bob, "account", a1), Get("list", eve, "entity", e1),
   Post(eve, "account", r1), Del(eve, "entity", r1),
   Del(alice, "account", r1), Del(bob, "category", r1)}

Alone     == [pool |-> 1, cli |-> FALSE, foreign |-> FALSE]
BesideCli == [pool |-> 1, cli |-> TRUE, foreign |-> FALSE]
PairCli   == [pool |-> 2, cli |-> TRUE, foreign |-> FALSE]
Pair      == [pool |-> 2, cli |-> FALSE, foreign |-> FALSE]
PairAuth  == [pool |-> 2, cli |-> FALSE, foreign |-> TRUE]

MCRegimes == {Alone, BesideCli, PairCli, PairAuth}
MCAlone == {Alone}
MCBesideCli == {BesideCli}
MCPair == {Pair}
============================================================================
