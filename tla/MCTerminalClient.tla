-------------------------- MODULE MCTerminalClient --------------------------
(* The terminal with one approval of the main Agent and one of a subagent. *)
EXTENDS TerminalClient
CONSTANTS s1, m, p, q, v1, v2

MCOwner == [a \in Approval |-> IF a = m THEN Main ELSE s1]
MCKind == [a \in Approval |-> IF a = q THEN "confirmation" ELSE "permission"]
=============================================================================
