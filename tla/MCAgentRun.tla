----------------------------- MODULE MCAgentRun -----------------------------
(* Small instances of AgentRun for TLC. *)
EXTENDS AgentRun

CONSTANTS t1, t2, work, report, i1

\* One tool that continues the turn and one that ends it on success.
MCToolOf == [c \in Call |-> IF c = work THEN "work" ELSE "report"]
MCBehavior == [c \in Call |-> IF c = work THEN "continue" ELSE "end_on_success"]
=============================================================================
