---------------------------- MODULE MCAuthServer ----------------------------
(* Instances of AuthServer for TLC.                                         *)
EXTENDS AuthServer, TLC

CONSTANTS r1, r2, r3, alice, bob, tokA, tokB, sesA, sesX, bogus

Symmetry2 == Permutations({r1, r2})
Symmetry3 == Permutations({r1, r2, r3})

\* alice is enrolled and has two sessions, one of them about to expire; bob
\* holds a token; a second token names alice, who is registered already.
MCTokenFor == (tokA :> [email |-> alice, expires |-> 2])
           @@ (tokB :> [email |-> bob, expires |-> 1])
MCSessions == (sesA :> [user |-> alice, expires |-> 2, seen |-> 0])
           @@ (sesX :> [user |-> alice, expires |-> 0, seen |-> 0])

Enroll(t, e) == [kind |-> "enroll", token |-> t, email |-> e]
Login(e, g)  == [kind |-> "login", email |-> e, good |-> g]
Logout(s)    == [kind |-> "logout", session |-> s]
Whoami(s)    == [kind |-> "whoami", session |-> s]

AllInputs ==
  {Enroll(tokA, alice), Enroll(tokB, bob), Enroll(tokB, alice),
   Login(alice, TRUE), Login(alice, FALSE), Login(bob, TRUE)}
  \union {Logout(s) : s \in {sesA, bogus} \union Requests}
  \union {Whoami(s) : s \in {sesA, sesX} \union Requests}
=============================================================================
