--------------------------- MODULE MCResponseScope ---------------------------
(* Small instances of ResponseScope for TLC. *)
EXTENDS ResponseScope, TLC

CONSTANTS m1, m2, c1, c2, a1, a2, w1, w2, k1

MCMainTurn == {m1, m2}
MCContinuation == {c1, c2}
MCSubagent == {a1, a2}
MCWork == {w1, w2}

\* Two works of one subagent: they share one FIFO.
MCShared == w1 :> a1 @@ w2 :> a1

MCInterruptible == MCMainTurn \cup MCContinuation
MCAllFailures == {"start", "append", "store"}
=============================================================================
