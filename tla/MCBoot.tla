------------------------------- MODULE MCBoot -------------------------------
(* Instances of Boot for TLC.                                              *)
EXTENDS Boot, TLC

CONSTANTS k1

Run(a, k, p, c) == [args |-> a, key |-> k, port |-> p, plaid |-> TRUE, cert |-> c]

\* Tables, and a column of one of them.
MCVersions == {1, 6}

\* Servers with and without key, one of them by a flag that lacks its value, one
\* with a bad certificate; the CLI, well and badly called.
MCLaunches ==
  {Run(<<>>, k1, 8443, TRUE), Run(<<"--mint-enrollment-token">>, k1, 0, TRUE),
   Run(<<>>, k1, 8443, FALSE), Run(<<>>, NoKey, 70000, TRUE),
   Run(<<"--mint-enrollment-token", "email">>, k1, 0, TRUE),
   Run(<<"--mint-enrollment-token", "email", "--ttl", "soon">>, k1, 0, TRUE),
   Run(<<"--list-users">>, BadKey, 0, TRUE)}

Alike == Permutations(Procs)
=============================================================================
