------------------------------- MODULE TokenCell -------------------------------
(***************************************************************************)
(* What a put of the secret store promises (FileSecretStore.cpp:68: "Write *)
(* to a temp file then atomic-rename into place - avoids partial writes    *)
(* leaving a half-written secret on disk"): it happens in one instant,     *)
(* whole, or not at all.  That is promised to a put that meets no other;   *)
(* those that meet share a temporary file, and may leave anything but      *)
(* nothing.                                                                *)
(***************************************************************************)
CONSTANTS Writers, Tokens, Absent, Void, Nothing

VARIABLES
  secret,  \* the token that a get returns
  put,     \* w -> the token that w is putting, or Nothing
  alone    \* the writers whose put has met no other

cellVars == <<secret, put, alone>>

Init ==
  /\ secret = Absent
  /\ put = [w \in Writers |-> Nothing]
  /\ alone = {}

Begin(w, t) ==
  /\ put[w] = Nothing
  /\ put' = [put EXCEPT ![w] = t]
  /\ alone' = IF \A v \in Writers : put[v] = Nothing THEN {w} ELSE {}
  /\ UNCHANGED secret

End(w) ==
  /\ put[w] # Nothing
  /\ put' = [put EXCEPT ![w] = Nothing]
  /\ alone' = alone \ {w}

Succeed(w) == w \in alone /\ secret' = put[w] /\ End(w)

Fail(w) == UNCHANGED secret /\ End(w)

\* A put that met another, within it or at its end.
Clash(w) ==
  /\ put[w] # Nothing /\ w \notin alone
  /\ secret' \in Tokens \union {Void, secret}
  /\ End(w) \/ UNCHANGED <<put, alone>>

Remove == secret' = Absent /\ UNCHANGED <<put, alone>>

Next ==
  \/ Remove
  \/ \E w \in Writers : \/ \E t \in Tokens : Begin(w, t)
                        \/ Succeed(w) \/ Fail(w) \/ Clash(w)

Spec == Init /\ [][Next]_cellVars
=============================================================================
