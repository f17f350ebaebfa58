---------------------------- MODULE MCPlaidLink ----------------------------
(* Instances of PlaidLink for TLC.                                         *)
EXTENDS PlaidLink, TLC

CONSTANTS r1, r2, r3, a1, a2, alice, eve

Alone     == [pool |-> 1, cli |-> FALSE, maxCalls |-> 3, maxCrashes |-> 1]
BesideCli == [pool |-> 1, cli |-> TRUE, maxCalls |-> 2, maxCrashes |-> 1]
Pair      == [pool |-> 2, cli |-> FALSE, maxCalls |-> 3, maxCrashes |-> 0]

MCRegimes == {Alone, BesideCli, Pair}
MCPair == {Pair}

\* alice owns both accounts, eve is a member of the entity of a2.
MCMay == {<<alice, a1>>, <<alice, a2>>, <<eve, a2>>}

Call(o, u, a) == [op |-> o, user |-> u, acct |-> a]

\* The owner, a stranger, a session that has ended, and no session at all.
MCInputs == {Call("init", alice, a1), Call("init", eve, a2), Call("init", eve, a1),
             Call("redeem", Stale, a1), Call("redeem", NoOne, a1),
             Call("redeem", eve, a2)}

=============================================================================
