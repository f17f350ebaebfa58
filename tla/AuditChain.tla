----------------------------- MODULE AuditChain -----------------------------
(***************************************************************************)
(* What the audit log promises (docs/ARCHITECTURE.md, "Audit log"): a      *)
(* sequence of events that only ever grows, one event at a time.  Nothing  *)
(* recorded is changed, dropped or moved.                                  *)
(***************************************************************************)
EXTENDS Naturals, Sequences

CONSTANT Events
VARIABLE log

Init == log = <<>>

Record(e) == log' = Append(log, e)

Next == \E e \in Events : Record(e)

Spec == Init /\ [][Next]_log
=============================================================================
