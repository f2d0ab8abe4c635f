---------------------------- MODULE MCCompaction ----------------------------
(* Small instances of Compaction for TLC; a size is <<ASCII bytes, others>>. *)
EXTENDS Compaction

MCPrompts == {[type |-> "user", size |-> <<600, 0>>],
              [type |-> "runtime_event", size |-> <<2400, 0>>]}
MCAnswers == {<<600, 0>>, <<0, 0>>}
MCOutputs == {<<4200, 0>>}
\* A short summary, and one as long as the budget allows in another script.
MCSummaries == {<<300, 0>>, <<0, 1800>>, <<0, 0>>}
=============================================================================
