------------------------------ MODULE EventLog ------------------------------
(***************************************************************************)
(* What a stream of retained events promises: a log that only grows, and   *)
(* readers that each see it from the start, one event after the other,     *)
(* whatever happens to their connections.                                  *)
(***************************************************************************)
EXTENDS Naturals, Sequences

CONSTANT Reader

VARIABLES log, rendered

Init == log = <<>> /\ rendered = [r \in Reader |-> <<>>]

Grow ==
  /\ Len(log') = Len(log) + 1
  /\ SubSeq(log', 1, Len(log)) = log
  /\ UNCHANGED rendered

Render(r) ==
  /\ Len(rendered[r]) < Len(log)
  /\ rendered' = [rendered EXCEPT ![r] = Append(@, log[Len(@) + 1])]
  /\ UNCHANGED log

Next == Grow \/ (\E r \in Reader : Render(r))

Spec == Init /\ [][Next]_<<log, rendered>>
=============================================================================
