--------------------------- MODULE AgentRunProofs ---------------------------
(***************************************************************************)
(* What holds of the turns of a session whatever the provider, the tools,  *)
(* storage, the guards and the callers do and in whatever order: requests  *)
(* whose calls are answered, turns that do not interleave, injected        *)
(* messages stored once and read before the turn completes.                *)
(*                                                                         *)
(* AgentInv is inductive.  Its first part is what the program counter of a *)
(* loop is: the list of effects it has still to interpret (WorkInv), which *)
(* the moves of a loop (Moved) keep.  On the types that follow rest the    *)
(* admission (StartInv), one live loop at a time (BlocksInv), the account  *)
(* of the injected messages (InputInv), what the model has seen of them    *)
(* (SeenAt) and, last, the tool round: how the transcript, the round of    *)
(* the event history and the effects still to come fit together (RoundAt). *)
(* Two facts keep the proofs apart: a step stores messages of one turn     *)
(* behind those already there (Stored), and concerns one turn (Concerns).  *)
(***************************************************************************)
EXTENDS AgentRun, SequenceTheorems, TLAPS

\* What a step leaves alone is always spelled out.
USE DEF runtimeVars, startVars, endVars, allowVars, stepVars, toolVars,
        requestVars, inputVars, runUntouched, loopUntouched,
        providerUntouched, finishUntouched, othersUntouched

-----------------------------------------------------------------------------
(* Sequences. *)

\* One element.
LEMMA Single ==
  ASSUME NEW S, NEW a \in S
  PROVE  /\ <<a>> \in Seq(S) /\ Len(<<a>>) = 1 /\ <<a>>[1] = a
         /\ Tail(<<a>>) = <<>> /\ <<a>> # <<>>
OBVIOUS

\* Two elements.
LEMMA Pair ==
  ASSUME NEW S, NEW a \in S, NEW b \in S
  PROVE  /\ <<a, b>> \in Seq(S) /\ Len(<<a, b>>) = 2
         /\ <<a, b>>[1] = a /\ <<a, b>>[2] = b /\ <<a, b>> # <<>>
OBVIOUS

\* The rest of a sequence.
LEMMA TailOf ==
  ASSUME NEW S, NEW q \in Seq(S), q # <<>>
  PROVE  /\ Tail(q) \in Seq(S) /\ Len(Tail(q)) = Len(q) - 1 /\ Len(q) \in Nat /\ Len(q) > 0
         /\ \A i \in 1..(Len(q) - 1) : Tail(q)[i] = q[i + 1]
OBVIOUS

\* A sequence with a length is not empty.
LEMMA NotEmpty == ASSUME NEW S, NEW q \in Seq(S), Len(q) > 0 PROVE q # <<>>
OBVIOUS

\* The rest ends with the same element.
LEMMA TailLast ==
  ASSUME NEW S, NEW q \in Seq(S), q # <<>>, Len(q) # 1
  PROVE  Tail(q) # <<>> /\ Tail(q)[Len(Tail(q))] = q[Len(q)]
<1>1. /\ Tail(q) \in Seq(S) /\ Len(Tail(q)) = Len(q) - 1 /\ Len(q) \in Nat /\ Len(q) > 0
      /\ \A i \in 1..(Len(q) - 1) : Tail(q)[i] = q[i + 1]
  BY TailOf
<1>2. PICK n \in Nat : n = Len(q) BY <1>1
<1>3. n > 1 /\ n - 1 \in 1..(n - 1) /\ (n - 1) + 1 = n BY <1>1, <1>2
<1>4. Tail(q)[n - 1] = q[n] BY <1>1, <1>2, <1>3
<1>5. Len(Tail(q)) > 0 BY <1>1, <1>2, <1>3
<1> QED BY <1>1, <1>2, <1>4, <1>5, NotEmpty, SMTT(30)

\* What a sequence holds at one of its positions.
LEMMA Element == ASSUME NEW S, NEW q \in Seq(S), NEW i \in 1..Len(q) PROVE q[i] \in S
OBVIOUS

\* Two sequences, one behind the other.
LEMMA Concat ==
  ASSUME NEW S, NEW a \in Seq(S), NEW b \in Seq(S)
  PROVE  /\ a \o b \in Seq(S) /\ Len(a \o b) = Len(a) + Len(b)
         /\ \A j \in 1..Len(a) : (a \o b)[j] = a[j]
         /\ \A j \in 1..Len(b) : (a \o b)[Len(a) + j] = b[j]
         /\ Len(a) \in Nat /\ Len(b) \in Nat
<1>1. a \o b \in Seq(S) OBVIOUS
<1>2. Len(a \o b) = Len(a) + Len(b) OBVIOUS
<1> QED BY <1>1, <1>2

\* An element behind a sequence.
LEMMA AppendParts ==
  ASSUME NEW S, NEW q \in Seq(S), NEW a \in S
  PROVE  /\ Append(q, a) = q \o <<a>> /\ Append(q, a) \in Seq(S) /\ Len(Append(q, a)) = Len(q) + 1
         /\ Append(q, a)[Len(q) + 1] = a /\ \A i \in 1..Len(q) : Append(q, a)[i] = q[i]
OBVIOUS

\* A function on 1..n is a sequence.
LEMMA FunctionIsSeq ==
  ASSUME NEW S, NEW n \in Nat, NEW f \in [1..n -> S]
  PROVE  f \in Seq(S) /\ Len(f) = n
OBVIOUS

\* Sequences with the same elements are the same.
LEMMA SameSeq ==
  ASSUME NEW S, NEW a \in Seq(S), NEW b \in Seq(S), Len(a) = Len(b),
         \A i \in 1..Len(a) : a[i] = b[i]
  PROVE  a = b
OBVIOUS

\* A sequence over a larger set.
LEMMA Wider == ASSUME NEW S, NEW T, S \subseteq T, NEW q \in Seq(S) PROVE q \in Seq(T)
OBVIOUS

\* The set of what a sequence holds.
LEMMA Members ==
  ASSUME NEW S, NEW q \in Seq(S)
  PROVE  /\ \A x : x \in Elements(q) <=> \E i \in 1..Len(q) : q[i] = x
         /\ Elements(q) \subseteq S
BY DEF Elements

-----------------------------------------------------------------------------
(* The work of a loop. *)

Steps == [op : Effects, arg : Arguments]

\* What the effects of a turn store; injected messages are stored by the
\* steps themselves.
Written(t) == {m \in Messages : m.turn = t /\ m.kind # "input"}
Work(t) == {e \in Steps : /\ e.op = "AppendMessages" => e.arg \in Seq(Written(t))
                          /\ e.op \in {"RequestTool", "DispatchTool"} => e.arg \in Call}

\* The effects of a terminal event.
CleanupOps == {"InterruptTools", "CancelProvider", "AppendMessages", "CloseRun"}
Cleanup(t) == {e \in Work(t) : e.op \in CleanupOps}
Close == {Effect("CloseRun")}

\* Whatever a loop closes with, CloseRun is last.
Cleanups(t) == {w \in Seq(Cleanup(t)) : w # <<>> /\ w[Len(w)] = Effect("CloseRun")}

\* A loop closes with the effects of its terminal event, and one that has
\* completed with nothing but CloseRun.
WorkInv ==
  \A t \in Turn :
    /\ todo[t] \in Seq(Work(t))
    /\ loop[t] = "closing" => todo[t] \in Cleanups(t)
    /\ terminal[t] = "completed" =>
         loop[t] \notin {"idle", "effect", "select"} /\ todo[t] \in Seq(Close)

\* The messages that the code writes.
LEMMA MessageTypes ==
  ASSUME NEW t \in Turn
  PROVE  /\ Message(t, "user", None) \in Written(t)
         /\ Message(t, "assistant", None) \in Written(t)
         /\ \A q \in Seq(Call) : Message(t, "calls", q) \in Written(t)
         /\ \A r \in Result : Message(t, "result", r) \in Written(t)
         /\ \A i \in Input : Message(t, "input", i) \in Messages
         /\ Written(t) \subseteq Messages
BY DEF Message, Written, Messages, MessagesOf

Kinds == {"user", "calls", "result", "input", "assistant"}

\* What every message has.
LEMMA MessageParts ==
  ASSUME NEW m \in Messages
  PROVE  /\ m.turn \in Turn /\ m.kind \in Kinds
         /\ m.kind = "calls" => m.what \in Seq(Call)
BY DEF Messages, MessagesOf, Kinds

\* The effects that the code writes are work, and some of them cleanup.
LEMMA EffectWork ==
  ASSUME NEW t \in Turn
  PROVE  /\ \A op \in Effects \ {"AppendMessages", "RequestTool", "DispatchTool"} :
              Effect(op) \in Work(t) /\ Effect(op).op = op
         /\ \A op \in {"InterruptTools", "CancelProvider", "CloseRun"} : Effect(op) \in Cleanup(t)
         /\ \A ms \in Seq(Written(t)) : AppendMessages(ms) \in Cleanup(t)
         /\ \A c \in Call : /\ RequestTool(c) \in Work(t)
                            /\ [op |-> "DispatchTool", arg |-> c] \in Work(t)
         /\ Cleanup(t) \subseteq Work(t) /\ Close \subseteq Cleanup(t) /\ Work(t) \subseteq Steps
<1>1. \A ms \in Seq(Written(t)) : ms \in Seq(Messages)
  BY MessageTypes, Wider
<1>2. \A op \in Effects \ {"AppendMessages", "RequestTool", "DispatchTool"} :
        Effect(op) \in Work(t) /\ Effect(op).op = op
  BY DEF Effect, Work, Steps, Arguments
<1>3. \A ms \in Seq(Written(t)) : AppendMessages(ms) \in Cleanup(t)
  BY <1>1 DEF AppendMessages, Cleanup, CleanupOps, Work, Steps, Arguments, Effects
<1>4. \A c \in Call : /\ RequestTool(c) \in Work(t)
                      /\ [op |-> "DispatchTool", arg |-> c] \in Work(t)
  BY DEF RequestTool, Work, Steps, Arguments, Effects
<1>5. \A op \in {"InterruptTools", "CancelProvider", "CloseRun"} : Effect(op) \in Cleanup(t)
  BY <1>2 DEF Effects, Cleanup, CleanupOps
<1>6. Cleanup(t) \subseteq Work(t) /\ Close \subseteq Cleanup(t) /\ Work(t) \subseteq Steps
  BY <1>5 DEF Cleanup, Close, Work
<1> QED BY <1>2, <1>3, <1>4, <1>5, <1>6

\* resultMessages: one message for each call of the round, in their order.
LEMMA ResultsWritten ==
  ASSUME NEW t \in Turn, round[t].order \in Seq(Call), NEW answer,
         \A c \in Elements(round[t].order) : answer[c] \in Status
  PROVE  LET ms == ResultMessages(t, answer) IN
         /\ ms \in Seq(Written(t)) /\ Len(ms) = Len(round[t].order)
         /\ \A i \in 1..Len(round[t].order) :
              ms[i].turn = t /\ ms[i].kind = "result" /\ ms[i].what.call = round[t].order[i]
<1> DEFINE order == round[t].order
           n == Len(order)
           f == [i \in 1..n |-> Message(t, "result", [call |-> order[i], status |-> answer[order[i]]])]
<1>1. n \in Nat /\ \A i \in 1..n : order[i] \in Call /\ order[i] \in Elements(order)
  BY DEF Elements
<1>2. \A i \in 1..n : [call |-> order[i], status |-> answer[order[i]]] \in Result
  BY <1>1 DEF Result
<1>3. f \in [1..n -> Written(t)]
  BY <1>2, MessageTypes
<1>4. f \in Seq(Written(t)) /\ Len(f) = n
  <2> HIDE DEF f, n
  <2> QED BY <1>1, <1>3, FunctionIsSeq
<1>5. \A i \in 1..n : f[i].turn = t /\ f[i].kind = "result" /\ f[i].what.call = order[i]
  BY DEF Message
<1>6. ResultMessages(t, answer) = f BY DEF ResultMessages
<1> HIDE DEF f, order, n
<1>7. n = Len(round[t].order) /\ order = round[t].order BY DEF n, order
<1> QED BY <1>4, <1>5, <1>6, <1>7

\* What a round holds.
LEMMA RoundParts ==
  ASSUME RoundTypes, NEW t \in Turn
  PROVE  /\ round[t].order \in Seq(Call) /\ Elements(round[t].order) \subseteq Call
         /\ Accepted(t) \subseteq Elements(round[t].order)
         /\ \A c \in Accepted(t) : round[t].accepted[c] \in Status
<1>1. round[t] \in [order : Seq(Call), accepted : UNION {[S -> Status] : S \in SUBSET Call}]
  BY DEF RoundTypes
<1>2. PICK S \in SUBSET Call : round[t].accepted \in [S -> Status] BY <1>1
<1>3. round[t].order \in Seq(Call) BY <1>1
<1> QED BY <1>2, <1>3, Members DEF RoundTypes, Accepted

\* The effects of an interruption are a cleanup.
LEMMA InterruptionWork ==
  ASSUME RoundTypes, NEW t \in Turn
  PROVE  InterruptionEffects(t) \in Cleanups(t)
<1> DEFINE a == Effect("InterruptTools")
           b == Effect("CancelProvider")
           c == AppendMessages(ResultMessages(t, Answer(t)))
           d == Effect("CloseRun")
<1>1. a \in Cleanup(t) /\ b \in Cleanup(t) /\ d \in Cleanup(t)
  BY EffectWork
<1>2. \A x \in Elements(round[t].order) : Answer(t)[x] \in Status
  BY RoundParts DEF Answer, Status
<1>3. c \in Cleanup(t)
  BY <1>2, RoundParts, ResultsWritten, EffectWork
<1> HIDE DEF a, b, c, d
<1>4. /\ <<b, c, d>> \in Seq(Cleanup(t)) /\ Len(<<b, c, d>>) = 3 /\ <<b, c, d>>[3] = d
      /\ <<a>> \in Seq(Cleanup(t)) /\ Len(<<a>>) = 1
  BY <1>1, <1>3
<1>6. /\ <<>> \o <<b, c, d>> \in Seq(Cleanup(t)) /\ Len(<<>> \o <<b, c, d>>) = 3
      /\ (<<>> \o <<b, c, d>>)[3] = d
      /\ <<a>> \o <<b, c, d>> \in Seq(Cleanup(t)) /\ Len(<<a>> \o <<b, c, d>>) = 4
      /\ (<<a>> \o <<b, c, d>>)[4] = d
  <2>1. <<>> \in Seq(Cleanup(t)) /\ Len(<<>>) = 0 OBVIOUS
  <2>2. \A q \in Seq(Cleanup(t)) :
          /\ q \o <<b, c, d>> \in Seq(Cleanup(t)) /\ Len(q \o <<b, c, d>>) = Len(q) + 3
          /\ (q \o <<b, c, d>>)[Len(q) + 3] = d
    <3> TAKE q \in Seq(Cleanup(t))
    <3>1. 3 \in 1..Len(<<b, c, d>>) BY <1>4
    <3> QED BY <1>4, <3>1, Concat
  <2> QED BY <1>4, <2>1, <2>2
<1>7. <<>> \o <<b, c, d>> # <<>> /\ <<a>> \o <<b, c, d>> # <<>>
  BY <1>6
<1>5. \/ InterruptionEffects(t) = <<b, d>>
      \/ InterruptionEffects(t) = <<>> \o <<b, c, d>>
      \/ InterruptionEffects(t) = <<a>> \o <<b, c, d>>
  BY DEF InterruptionEffects, a, b, c, d
<1>8. <<b, d>> \in Seq(Cleanup(t)) /\ <<b, d>> # <<>> /\ Len(<<b, d>>) = 2 /\ <<b, d>>[2] = d
  BY <1>1, Pair
<1> PICK e : e = InterruptionEffects(t) OBVIOUS
<1>9. e \in Seq(Cleanup(t)) /\ e # <<>> /\ e[Len(e)] = d
  BY <1>5, <1>6, <1>7, <1>8
<1> QED BY <1>9 DEF Cleanups, d

\* A cleanup goes on to a shorter one until CloseRun, its last effect.
LEMMA ClosingWork ==
  ASSUME NEW t \in Turn
  PROVE  /\ <<Effect("CloseRun")>> \in Cleanups(t) /\ <<Effect("CloseRun")>> \in Seq(Close)
         /\ Cleanups(t) \subseteq Seq(Cleanup(t)) /\ \A w \in Cleanups(t) : w # <<>>
         /\ \A w \in Cleanups(t) : w[1].op # "CloseRun" => Tail(w) \in Cleanups(t)
<1>1. Effect("CloseRun") \in Cleanup(t) /\ Effect("CloseRun") \in Close BY EffectWork DEF Close
<1>2. PICK e : e = Effect("CloseRun") OBVIOUS
<1>3. <<e>> \in Seq(Cleanup(t)) /\ <<e>> \in Seq(Close) /\ Len(<<e>>) = 1 /\ <<e>>[1] = e /\ <<e>> # <<>>
  BY <1>1, <1>2, Single
<1>4. ASSUME NEW w \in Cleanups(t), w[1].op # "CloseRun"
      PROVE  Tail(w) \in Cleanups(t)
  <2>1. w \in Seq(Cleanup(t)) /\ w # <<>> /\ w[Len(w)] = e BY <1>2, <1>4 DEF Cleanups
  <2>2. e.op = "CloseRun" BY <1>2 DEF Effect
  <2>3. Len(w) # 1 BY <1>4, <2>1, <2>2
  <2>4. Tail(w) \in Seq(Cleanup(t)) BY <2>1, TailOf
  <2>5. Tail(w) # <<>> /\ Tail(w)[Len(Tail(w))] = w[Len(w)] BY <2>1, <2>3, TailLast
  <2> QED BY <1>2, <2>1, <2>4, <2>5 DEF Cleanups
<1> QED BY <1>2, <1>3, <1>4 DEF Cleanups

-----------------------------------------------------------------------------
(* The moves of a loop. *)

\* The loop goes on with the work w.
Goes(t) ==
  \E w \in Seq(Work(t)) :
    /\ Goto(t, w) /\ terminal' = terminal /\ terminal[t] # "completed"
    /\ loop[t] \in {"idle", "effect", "select", "closing"}
    /\ loop[t] = "closing" => w \in Cleanups(t)

\* A terminal event, or the end of a loop whose run is done.
Ended(t, kind, effects) ==
  \/ /\ terminal[t] = "none" /\ terminal' = [terminal EXCEPT ![t] = kind]
     /\ todo' = [todo EXCEPT ![t] = effects]
     /\ loop' = [loop EXCEPT ![t] = "closing"]
  \/ /\ terminal' = terminal
     /\ todo' = [todo EXCEPT ![t] = <<>>]
     /\ \E p \in {"exited", "reject"} : loop' = [loop EXCEPT ![t] = p]
EndsRun(t) ==
  \E kind \in {"completed", "failed", "interrupted"}, effects \in Cleanups(t) :
    /\ (kind = "completed" => effects \in Seq(Close))
    /\ Ended(t, kind, effects)

\* The loop drops its work and goes to finish.
Drops(t) ==
  /\ loop' = [loop EXCEPT ![t] = "reject"] /\ todo' = [todo EXCEPT ![t] = <<>>]
  /\ terminal' = terminal \/ terminal' = [terminal EXCEPT ![t] = "completed"]

Finishes(t) ==
  /\ loop[t] \in {"reject", "mark", "unregister", "close"}
  /\ \E p \in {"mark", "unregister", "close", "exited"} : loop' = [loop EXCEPT ![t] = p]
  /\ UNCHANGED <<todo, terminal>>

\* The router fails the run it found active.
RouterFails ==
  /\ terminal[closedRun] = "none" /\ terminal' = [terminal EXCEPT ![closedRun] = "failed"]
  /\ UNCHANGED <<loop, todo>>

Moved ==
  \/ \E t \in Turn : Goes(t) \/ EndsRun(t) \/ Drops(t) \/ Finishes(t)
  \/ RouterFails
  \/ UNCHANGED <<loop, todo, terminal>>

\* A turn that has not started has an idle loop and no history.
StartInv ==
  /\ \A t \in Turn : starter[t] = "started" <=> loop[t] # "idle"
  /\ \A t \in Turn : loop[t] = "idle" => terminal[t] = "none" /\ round[t].order = <<>>
  /\ active # None => loop[active] # "idle"
  /\ closedRun # None => loop[closedRun] # "idle"
  /\ closer # "routing" => toolResultsClosed
  /\ closer \in {"publish", "mark", "unregister"} => closedRun \in Turn

\* What the invariant says of a loop that interprets an effect: a loop that closes
\* interprets nothing but cleanup, and a completed one nothing but CloseRun.
LEMMA AtWork ==
  ASSUME TodoTypes, WorkInv, NEW t \in Turn, NEW op, At(t, op)
  PROVE  /\ todo[t] \in Seq(Work(t)) /\ todo[t] # <<>> /\ loop[t] \in {"effect", "closing"}
         /\ todo[t][1] \in Work(t) /\ todo[t][1].op = op
         /\ Tail(todo[t]) \in Seq(Work(t))
         /\ loop[t] = "closing" => op \in CleanupOps /\ (op # "CloseRun" => Tail(todo[t]) \in Cleanups(t))
         /\ terminal[t] = "completed" => op = "CloseRun" /\ loop[t] = "closing"
<1>1. todo[t] \in Seq(Work(t)) /\ todo[t] # <<>> /\ todo[t][1].op = op /\ loop[t] \in {"effect", "closing"}
  BY DEF WorkInv, At
<1>2. Len(todo[t]) \in Nat /\ Len(todo[t]) > 0 /\ 1 \in 1..Len(todo[t])
  BY <1>1, TailOf
<1>3. todo[t][1] \in Work(t) BY <1>1, <1>2, Element
<1>4. Tail(todo[t]) \in Seq(Work(t)) BY <1>1, TailOf
<1>5. ASSUME loop[t] = "closing" PROVE op \in CleanupOps /\ (op # "CloseRun" => Tail(todo[t]) \in Cleanups(t))
  <2>0. todo[t] \in Cleanups(t) BY <1>5 DEF WorkInv
  <2>1. todo[t] \in Seq(Cleanup(t)) BY <2>0, ClosingWork
  <2>2. todo[t][1] \in Cleanup(t) BY <1>2, <2>1, Element
  <2>3. op \in CleanupOps BY <1>1, <2>2 DEF Cleanup
  <2> QED BY <1>1, <2>0, <2>3, ClosingWork
<1>6. ASSUME terminal[t] = "completed" PROVE op = "CloseRun" /\ loop[t] = "closing"
  <2>1. todo[t] \in Seq(Close) /\ loop[t] # "effect" BY <1>6 DEF WorkInv
  <2>2. todo[t][1] \in Close BY <1>2, <2>1, Element
  <2> QED BY <1>1, <2>1, <2>2 DEF Close, Effect
<1> QED BY <1>1, <1>3, <1>4, <1>5, <1>6

\* The next effect, or what an effect other than CloseRun leads to.
LEMMA ProceedGoes ==
  ASSUME TodoTypes, WorkInv, NEW t \in Turn, NEW op, At(t, op), op # "CloseRun",
         Proceed(t), UNCHANGED terminal
  PROVE  Goes(t)
BY AtWork DEF Goes, Proceed

\* An effect that is replaced by others.
LEMMA GotoGoes ==
  ASSUME TodoTypes, WorkInv, NEW t \in Turn, NEW op, At(t, op), op \notin CleanupOps,
         NEW w \in Seq(Work(t)), Goto(t, w), UNCHANGED terminal
  PROVE  Goes(t)
BY AtWork DEF Goes, CleanupOps

\* A terminal event ends the run.
LEMMA TerminateEnds ==
  ASSUME NEW t \in Turn, NEW kind \in {"failed", "interrupted"},
         NEW effects \in Cleanups(t), Terminate(t, kind, effects)
  PROVE  EndsRun(t)
<1>1. Ended(t, kind, effects) BY DEF Terminate, Leave, Ended
<1> QED BY <1>1 DEF EndsRun

\* Run.fail ends it.
LEMMA FailEnds ==
  ASSUME NEW t \in Turn, Fail(t)
  PROVE  EndsRun(t)
<1>1. Ended(t, "failed", <<Effect("CloseRun")>>) BY DEF Fail, Terminate, Leave, Ended
<1> QED BY <1>1, ClosingWork DEF EndsRun

\* A refused event ends its loop.
LEMMA LeaveEnds ==
  ASSUME NEW t \in Turn, Leave(t)
  PROVE  EndsRun(t)
<1>1. Ended(t, "failed", <<Effect("CloseRun")>>) BY DEF Leave, Ended
<1> QED BY <1>1, ClosingWork DEF EndsRun

\* An event of a live run, or one that comes too late.
LEMMA CommitMoves ==
  ASSUME NEW t \in Turn, NEW w \in Seq(Work(t)), CommitEvent(t, w), loop[t] = "select"
  PROVE  Goes(t) \/ EndsRun(t)
<1>1. CASE terminal[t] = "none" /\ Goto(t, w) /\ UNCHANGED terminal
  BY <1>1 DEF Goes
<1>2. CASE terminal[t] # "none" /\ Leave(t)
  BY <1>2, LeaveEnds
<1> QED BY <1>1, <1>2 DEF CommitEvent

\* Effects without an argument.
PlainOps == Effects \ {"AppendMessages", "RequestTool", "DispatchTool"}

\* The lists of work that the code writes down.
LEMMA Lists ==
  ASSUME NEW t \in Turn
  PROVE  /\ \A op \in PlainOps : <<Effect(op)>> \in Seq(Work(t))
         /\ \A op, next \in PlainOps : <<Effect(op), Effect(next)>> \in Seq(Work(t))
         /\ \A op \in PlainOps, w \in Seq(Work(t)) : <<Effect(op)>> \o w \in Seq(Work(t))
         /\ \A ms \in Seq(Written(t)), op \in PlainOps :
              <<AppendMessages(ms), Effect(op)>> \in Seq(Work(t))
         /\ {"StartProvider", "RunFailed", "StageAssistant", "AttemptComplete", "InterruptTools",
             "CancelProvider", "CloseRun"} \cup InnerOps \subseteq PlainOps
<1>1. \A op \in PlainOps : Effect(op) \in Work(t) BY EffectWork DEF PlainOps
<1>2. \A ms \in Seq(Written(t)) : AppendMessages(ms) \in Work(t) BY EffectWork
<1>3. \A op \in PlainOps : <<Effect(op)>> \in Seq(Work(t)) BY <1>1, Single
<1>4. \A op, next \in PlainOps : <<Effect(op), Effect(next)>> \in Seq(Work(t)) BY <1>1, Pair
<1>5. \A op \in PlainOps, w \in Seq(Work(t)) : <<Effect(op)>> \o w \in Seq(Work(t))
  BY <1>3, Concat
<1>6. \A ms \in Seq(Written(t)), op \in PlainOps :
              <<AppendMessages(ms), Effect(op)>> \in Seq(Work(t))
  BY <1>1, <1>2, Pair
<1>7. {"StartProvider", "RunFailed", "StageAssistant", "AttemptComplete", "InterruptTools",
             "CancelProvider", "CloseRun"} \cup InnerOps \subseteq PlainOps
  BY DEF PlainOps, Effects, InnerOps
<1> QED BY <1>3, <1>4, <1>5, <1>6, <1>7

\* The effects of RunStarted are work.
LEMMA StartedWork ==
  ASSUME NEW t \in Turn
  PROVE  RunStartedEffects(t) \in Seq(Work(t)) /\ RunStartedEffects(t) # <<>>
<1>1. <<Effect("Respond")>> \in Seq(Work(t)) /\ <<Effect("Respond")>> # <<>>
  BY Lists DEF InnerOps
<1>2. Message(t, "user", None) \in Written(t) BY MessageTypes
<1>3. <<Message(t, "user", None)>> \in Seq(Written(t)) BY <1>2, Single
<1>4. <<AppendMessages(<<Message(t, "user", None)>>), Effect("StartProvider")>> \in Seq(Work(t))
  BY <1>3, Lists
<1> QED BY <1>1, <1>4 DEF RunStartedEffects

\* So are those of the last result of a round,
LEMMA RoundWork ==
  ASSUME RoundTypes, NEW t \in Turn, NEW accepted,
         \A c \in Elements(round[t].order) : accepted[c] \in Status
  PROVE  RoundEffects(t, accepted) \in Seq(Work(t))
<1>1. ResultMessages(t, accepted) \in Seq(Written(t)) BY RoundParts, ResultsWritten
<1>2. \E op \in {"AttemptComplete", "StartProvider"} :
        RoundEffects(t, accepted) = <<AppendMessages(ResultMessages(t, accepted)), Effect(op)>>
  BY DEF RoundEffects
<1> QED BY <1>1, <1>2, Lists

\* A response names calls.
LEMMA CallListTypes ==
  ASSUME NEW calls \in CallLists \cup {<<>>}
  PROVE  calls \in Seq(Call)
<1>1. CASE calls \in CallLists
  <2>1. PICK n \in 1..Cardinality(Call) : calls \in [1..n -> Call] BY <1>1 DEF CallLists
  <2>2. n \in Nat BY <2>1
  <2> QED BY <2>1, <2>2, FunctionIsSeq
<1>2. CASE calls = <<>> BY <1>2
<1> QED BY <1>1, <1>2

\* and those of a response with calls: its message, then one request each.
LEMMA CallsWork ==
  ASSUME NEW t \in Turn, NEW kept \in Seq(Call)
  PROVE  LET requests == [i \in 1..Len(kept) |-> RequestTool(kept[i])]
             ask == <<AppendMessages(<<Message(t, "calls", kept)>>)>>
         IN /\ ask \o requests \in Seq(Work(t)) /\ Len(ask \o requests) = Len(kept) + 1
            /\ (ask \o requests)[1] = AppendMessages(<<Message(t, "calls", kept)>>)
            /\ \A i \in 1..Len(kept) : (ask \o requests)[i + 1] = RequestTool(kept[i])
<1> DEFINE n == Len(kept)
           requests == [i \in 1..n |-> RequestTool(kept[i])]
           append == AppendMessages(<<Message(t, "calls", kept)>>)
<1>1. n \in Nat /\ \A i \in 1..n : kept[i] \in Call OBVIOUS
<1>2. requests \in [1..n -> Work(t)] BY <1>1, EffectWork
<1>3. requests \in Seq(Work(t)) /\ Len(requests) = n
  <2> HIDE DEF requests, n
  <2> QED BY <1>1, <1>2, FunctionIsSeq
<1>4. \A i \in 1..n : requests[i] = RequestTool(kept[i]) OBVIOUS
<1>5. append \in Work(t)
  <2>1. Message(t, "calls", kept) \in Written(t) BY MessageTypes
  <2>2. <<Message(t, "calls", kept)>> \in Seq(Written(t)) BY <2>1, Single
  <2> QED BY <2>2, EffectWork
<1>6. n = Len(kept) OBVIOUS
<1> HIDE DEF requests, n, append
<1>7. <<append>> \in Seq(Work(t)) /\ Len(<<append>>) = 1 /\ <<append>>[1] = append
  BY <1>5, Single
<1>8. /\ <<append>> \o requests \in Seq(Work(t)) /\ Len(<<append>> \o requests) = n + 1
      /\ (<<append>> \o requests)[1] = append
      /\ \A i \in 1..n : (<<append>> \o requests)[i + 1] = requests[i]
  <2>1. /\ <<append>> \o requests \in Seq(Work(t)) /\ Len(<<append>> \o requests) = 1 + n
        /\ \A j \in 1..1 : (<<append>> \o requests)[j] = <<append>>[j]
        /\ \A j \in 1..n : (<<append>> \o requests)[1 + j] = requests[j]
    BY <1>3, <1>7, Concat
  <2>2. \A i \in 1..n : (<<append>> \o requests)[i + 1] = requests[i]
    BY <1>1, <2>1
  <2> QED BY <1>1, <1>7, <2>1, <2>2
<1>9. \A i \in 1..n : (<<append>> \o requests)[i + 1] = RequestTool(kept[i])
  BY <1>4, <1>8
<1> QED BY <1>6, <1>8, <1>9 DEF requests, n, append

\* A malformed response leads to another round or to the end.
LEMMA RecoveryMoves ==
  ASSUME NEW t \in Turn, BeginRecovery(t), loop[t] = "select"
  PROVE  Goes(t) \/ EndsRun(t)
<1> PICK op \in {"StartProvider", "RunFailed"} : CommitEvent(t, <<Effect(op)>>) BY DEF BeginRecovery
<1>1. <<Effect(op)>> \in Seq(Work(t)) BY Lists
<1> QED BY <1>1, CommitMoves

\* Every step moves a loop in one of these ways.
LEMMA Moves ==
  ASSUME TypeOK, WorkInv, StartInv, [Next]_vars
  PROVE  Moved
<1> USE DEF TypeOK, Moved
<1>1. ASSUME NEW t \in Turn, CheckDone(t) PROVE Moved
  <2>1. Drops(t) BY <1>1 DEF CheckDone, Drops
  <2> QED BY <2>1
<1>2. ASSUME NEW t \in Turn, SelectTerminal(t) PROVE Moved
  <2>1. todo[t] = <<>> BY <1>2 DEF SelectTerminal, Selecting, TodoTypes
  <2>2. todo' = todo /\ todo \in [Turn -> Seq(Steps)] BY <1>2 DEF SelectTerminal, Selecting,
     TodoTypes, Steps
  <2>3. todo' = [todo EXCEPT ![t] = <<>>] BY <2>1, <2>2
  <2>4. Drops(t) BY <1>2, <2>3 DEF SelectTerminal, Selecting, Drops
  <2> QED BY <2>4
<1>3. ASSUME NEW t \in Turn, SelectInterrupt(t) PROVE Moved
  <2>1. Terminate(t, "interrupted", InterruptionEffects(t)) BY <1>3 DEF SelectInterrupt, Selecting
  <2>2. EndsRun(t) BY <2>1, InterruptionWork, TerminateEnds
  <2> QED BY <2>2
<1>4. ASSUME NEW t \in Turn, SelectToolResults(t) PROVE Moved
  BY <1>4 DEF SelectToolResults, Selecting
<1>5. ASSUME NEW t \in Turn, HandleToolResult(t) PROVE Moved
  <2> PICK accepted : accepted = [c \in Accepted(t) \cup {Head(batch[t]).call} |->
                                IF c \in Accepted(t) THEN round[t].accepted[c] ELSE Head(batch[t]).status]
    OBVIOUS
  <2>1. loop[t] = "select" BY <1>5 DEF HandleToolResult
  <2>2. \/ terminal[t] # "none" /\ Leave(t)
        \/ terminal[t] = "none" /\ UNCHANGED terminal /\ Goto(t, <<Effect("RunFailed")>>)
        \/ terminal[t] = "none" /\ UNCHANGED <<terminal, loop, todo>>
        \/ /\ terminal[t] = "none" /\ UNCHANGED terminal /\ Elements(round[t].order) \subseteq DOMAIN accepted
           /\ Goto(t, RoundEffects(t, accepted))
    BY <1>5 DEF HandleToolResult
  <2>3. <<Effect("RunFailed")>> \in Seq(Work(t)) BY Lists
  <2>4. ASSUME Elements(round[t].order) \subseteq DOMAIN accepted
        PROVE  RoundEffects(t, accepted) \in Seq(Work(t))
    <3>1. Head(batch[t]).status \in Status
      <4>1. batch[t] \in Seq(Result) /\ batch[t] # <<>> BY <1>5 DEF HandleToolResult, RoundTypes
      <4>2. Head(batch[t]) \in Result BY <4>1
      <4> QED BY <4>2 DEF Result
    <3>2. \A c \in DOMAIN accepted : accepted[c] \in Status BY <3>1, RoundParts
    <3> QED BY <2>4, <3>2, RoundWork
  <2>5. CASE terminal[t] # "none" /\ Leave(t) BY <2>5, LeaveEnds
  <2>6. ASSUME NEW w \in Seq(Work(t)), terminal[t] = "none", UNCHANGED terminal, Goto(t, w) PROVE Moved
    <3>1. Goes(t) BY <2>1, <2>6 DEF Goes
    <3> QED BY <3>1
  <2> QED BY <2>2, <2>3, <2>4, <2>5, <2>6
<1>6. ASSUME NEW t \in Turn, InterpretAppend(t) PROVE Moved
  <2>1. At(t, "AppendMessages") /\ ((Proceed(t) /\ UNCHANGED terminal) \/ Fail(t)) BY <1>6
     DEF InterpretAppend, At
  <2> QED BY <2>1, ProceedGoes, FailEnds
<1>7. ASSUME NEW t \in Turn, InterpretRequestTool(t) PROVE Moved
  <2> PICK dispatch : dispatch = [op |-> "DispatchTool", arg |-> todo[t][1].arg] OBVIOUS
  <2>1. At(t, "RequestTool") BY <1>7 DEF InterpretRequestTool, At
  <2>2. \/ Goto(t, <<dispatch>> \o Tail(todo[t])) /\ UNCHANGED terminal
        \/ terminal[t] # "none" /\ Leave(t)
    BY <1>7 DEF InterpretRequestTool, At
  <2>3. dispatch \in Work(t)
    <3>1. todo[t][1] \in Work(t) /\ todo[t][1].op = "RequestTool" BY <2>1, AtWork
    <3>2. todo[t][1].arg \in Call BY <3>1 DEF Work
    <3> QED BY <3>2, EffectWork
  <2>4. <<dispatch>> \o Tail(todo[t]) \in Seq(Work(t)) BY <2>1, <2>3, AtWork, Single, Concat
  <2>5. "RequestTool" \notin CleanupOps BY DEF CleanupOps
  <2> QED BY <2>1, <2>2, <2>4, <2>5, GotoGoes, LeaveEnds
<1>8. ASSUME NEW t \in Turn, InterpretDispatch(t) PROVE Moved
  <2>1. At(t, "DispatchTool") BY <1>8 DEF InterpretDispatch, At
  <2>2. \/ Proceed(t) /\ UNCHANGED terminal
        \/ terminal[t] # "none" /\ Leave(t)
        \/ Terminate(t, "interrupted", InterruptionEffects(t))
    BY <1>8 DEF InterpretDispatch, At, Done
  <2> QED BY <2>1, <2>2, ProceedGoes, LeaveEnds, InterruptionWork, TerminateEnds
<1>9. ASSUME NEW t \in Turn, InterpretRunFailed(t) PROVE Moved
  <2>1. Terminate(t, "failed", <<Effect("CloseRun")>>) BY <1>9 DEF InterpretRunFailed, At
  <2> QED BY <2>1, ClosingWork, TerminateEnds
<1>10. ASSUME NEW t \in Turn, InterpretStage(t) PROVE Moved
  <2>1. At(t, "StageAssistant") /\ Proceed(t) /\ UNCHANGED terminal BY <1>10 DEF InterpretStage, At
  <2> QED BY <2>1, ProceedGoes
<1>11. ASSUME NEW t \in Turn, InterpretInterruptTools(t) PROVE Moved
  <2>1. /\ At(t, "InterruptTools")
        /\ (Proceed(t) /\ UNCHANGED terminal) \/ Leave(t)
    BY <1>11 DEF InterpretInterruptTools, At
  <2> QED BY <2>1, ProceedGoes, LeaveEnds
<1>12. ASSUME NEW t \in Turn, InterpretCancelProvider(t) PROVE Moved
  <2>1. At(t, "CancelProvider") /\ Proceed(t) /\ UNCHANGED terminal BY <1>12
     DEF InterpretCancelProvider, At
  <2> QED BY <2>1, ProceedGoes
<1>13. ASSUME NEW t \in Turn, InterpretCloseRun(t) PROVE Moved
  <2>1. Drops(t) BY <1>13 DEF InterpretCloseRun, At, Drops
  <2> QED BY <2>1
<1>14. ASSUME NEW t \in Turn, InterpretStartProvider(t) PROVE Moved
  <2> PICK op \in {"StartProvider", "RestartProvider"} : At(t, op) BY <1>14
     DEF InterpretStartProvider, AppendRuntimeInputs, Tell, At
  <2>1. (Goto(t, <<Effect("StartModel")>> \o Tail(todo[t])) /\ UNCHANGED terminal) \/ Fail(t)
    BY <1>14 DEF InterpretStartProvider, AppendRuntimeInputs, Tell, At
  <2>2. <<Effect("StartModel")>> \o Tail(todo[t]) \in Seq(Work(t)) BY AtWork, Lists DEF InnerOps
  <2>3. op \notin CleanupOps BY DEF CleanupOps
  <2> QED BY <2>1, <2>2, <2>3, GotoGoes, FailEnds
<1>15. ASSUME NEW t \in Turn, InterpretStartModel(t) PROVE Moved
  <2>1. At(t, "StartModel") /\ ((Proceed(t) /\ UNCHANGED terminal) \/ Fail(t)) BY <1>15
     DEF InterpretStartModel, At
  <2> QED BY <2>1, ProceedGoes, FailEnds
<1>16. ASSUME NEW t \in Turn, InterpretAttemptComplete(t) PROVE Moved
  <2> PICK w : w = <<Effect(IF runtimeInputs[t] = <<>> THEN "Inspect" ELSE "RestartProvider")>> OBVIOUS
  <2>1. /\ At(t, "AttemptComplete") /\ "AttemptComplete" \notin CleanupOps
        /\ (Goto(t, w) /\ UNCHANGED terminal) \/ Fail(t)
    BY <1>16 DEF InterpretAttemptComplete, AppendRuntimeInputs, Tell, At, CleanupOps
  <2>2. w \in Seq(Work(t)) BY Lists DEF InnerOps
  <2> QED BY <2>1, <2>2, GotoGoes, FailEnds
<1>17. ASSUME NEW t \in Turn, InterpretInspect(t) PROVE Moved
  <2>1. /\ At(t, "Inspect") /\ "Inspect" \notin CleanupOps
        /\ \/ Goto(t, <<Effect("RestartProvider")>>) /\ UNCHANGED terminal
           \/ Goto(t, <<Effect("CommitPending"), Effect("RunCompleted")>>) /\ UNCHANGED terminal
           \/ Fail(t)
    BY <1>17 DEF InterpretInspect, RetryCompletion, At, CleanupOps
  <2>2. /\ <<Effect("RestartProvider")>> \in Seq(Work(t))
        /\ <<Effect("CommitPending"), Effect("RunCompleted")>> \in Seq(Work(t))
    BY Lists DEF InnerOps
  <2> QED BY <2>1, <2>2, GotoGoes, FailEnds
<1>18. ASSUME NEW t \in Turn, InterpretCommitPending(t) PROVE Moved
  <2>1. At(t, "CommitPending") /\ ((Proceed(t) /\ UNCHANGED terminal) \/ Fail(t)) BY <1>18
     DEF InterpretCommitPending, At
  <2> QED BY <2>1, ProceedGoes, FailEnds
<1>19. ASSUME NEW t \in Turn, InterpretRunCompleted(t) PROVE Moved
  <2>1. Terminate(t, "completed", <<Effect("CloseRun")>>) BY <1>19 DEF InterpretRunCompleted, At
  <2>2. Ended(t, "completed", <<Effect("CloseRun")>>) BY <2>1 DEF Terminate, Leave, Ended
  <2>3. EndsRun(t) BY <2>2, ClosingWork DEF EndsRun
  <2> QED BY <2>3
<1>20. ASSUME NEW t \in Turn, InterpretRespond(t) PROVE Moved
  <2>1. /\ At(t, "Respond") /\ "Respond" \notin CleanupOps
        /\ \/ Goto(t, <<Effect("RespondCompleted")>>) /\ UNCHANGED terminal
           \/ Terminate(t, "interrupted", InterruptionEffects(t))
           \/ Fail(t)
    BY <1>20 DEF InterpretRespond, At, CleanupOps
  <2>2. <<Effect("RespondCompleted")>> \in Seq(Work(t)) BY Lists DEF InnerOps
  <2> QED BY <2>1, <2>2, GotoGoes, FailEnds, InterruptionWork, TerminateEnds
<1>21. ASSUME NEW t \in Turn, InterpretRespondCompleted(t) PROVE Moved
  <2>1. terminal \in [Turn -> {"none", "completed", "failed", "interrupted"}] BY DEF EndTypes
  <2>2. Drops(t)
    <3>1. CASE terminal[t] = "none" BY <1>21, <2>1, <3>1 DEF InterpretRespondCompleted, At, Drops
    <3>2. CASE terminal[t] # "none" BY <1>21, <2>1, <3>2 DEF InterpretRespondCompleted, At, Drops
    <3> QED BY <3>1, <3>2
  <2> QED BY <2>2
<1>22. ASSUME NEW t \in Turn, FinishReject(t) PROVE Moved
  <2>1. Finishes(t) BY <1>22 DEF FinishReject, Tell, Finishes
  <2> QED BY <2>1
<1>23. ASSUME NEW t \in Turn, FinishMark(t) PROVE Moved
  <2>1. Finishes(t) BY <1>23 DEF FinishMark, Finishes
  <2> QED BY <2>1
<1>24. ASSUME NEW t \in Turn, FinishUnregister(t) PROVE Moved
  <2>1. Finishes(t) BY <1>24 DEF FinishUnregister, Finishes
  <2> QED BY <2>1
<1>25. ASSUME NEW t \in Turn, FinishClose(t) PROVE Moved
  <2>1. Finishes(t) BY <1>25 DEF FinishClose, Finishes
  <2> QED BY <2>1
<1>26. ASSUME NEW t \in Turn, NEW calls \in CallLists \cup {<<>>}, ProviderCompletes(t, calls) PROVE Moved
  <2> PICK kept \in CallLists \cup {<<>>} :
        \/ BeginRecovery(t)
        \/ CommitEvent(t, <<Effect("StageAssistant"), Effect("AttemptComplete")>>)
        \/ CommitEvent(t, <<AppendMessages(<<Message(t, "calls", kept)>>)>>
                             \o [i \in 1..Len(kept) |-> RequestTool(kept[i])])
    BY <1>26 DEF ProviderCompletes
  <2>1. loop[t] = "select" BY <1>26 DEF ProviderCompletes, StreamEnds, Selecting
  <2>2. <<Effect("StageAssistant"), Effect("AttemptComplete")>> \in Seq(Work(t)) BY Lists
  <2>3. kept \in Seq(Call) BY CallListTypes
  <2>4. <<AppendMessages(<<Message(t, "calls", kept)>>)>>
           \o [i \in 1..Len(kept) |-> RequestTool(kept[i])] \in Seq(Work(t))
    BY <2>3, CallsWork
  <2> QED BY <2>1, <2>2, <2>4, CommitMoves, RecoveryMoves
<1>27. ASSUME NEW t \in Turn, ProviderMalformed(t) PROVE Moved
  <2>1. loop[t] = "select" /\ BeginRecovery(t) BY <1>27 DEF ProviderMalformed, StreamEnds, Selecting
  <2> QED BY <2>1, RecoveryMoves
<1>28. ASSUME NEW t \in Turn, ProviderFails(t) PROVE Moved
  <2>1. loop[t] = "select" /\ CommitEvent(t, <<Effect("RunFailed")>>)
    BY <1>28 DEF ProviderFails, StreamEnds, Selecting
  <2>2. <<Effect("RunFailed")>> \in Seq(Work(t)) BY Lists
  <2> QED BY <2>1, <2>2, CommitMoves
<1>29. ASSUME NEW t \in Turn, AdmitTurn(t) PROVE Moved
  <2>1. loop[t] = "idle" /\ terminal[t] = "none" BY <1>29 DEF AdmitTurn, StartInv
  <2>2. UNCHANGED <<loop, todo, terminal>> \/ (Goto(t, RunStartedEffects(t)) /\ UNCHANGED terminal)
    BY <1>29 DEF AdmitTurn
  <2>3. Goto(t, RunStartedEffects(t)) /\ UNCHANGED terminal => Goes(t) BY <2>1, StartedWork DEF Goes
  <2> QED BY <2>2, <2>3
<1>30. ASSUME NEW t \in Turn, WaitFinished(t) PROVE Moved
  BY <1>30 DEF WaitFinished
<1>31. ASSUME NEW t \in Turn, NEW c \in Call, NEW status \in {"succeeded", "failed"}, RouteToolResult(t, c, status) PROVE Moved
  BY <1>31 DEF RouteToolResult
<1>32. ASSUME CloseResults PROVE Moved
  BY <1>32 DEF CloseResults
<1>33. ASSUME PublishClosed PROVE Moved
  <2>1. RouterFails \/ UNCHANGED <<loop, todo, terminal>> BY <1>33 DEF PublishClosed, RouterFails
  <2> QED BY <2>1
<1>34. ASSUME MarkClosed PROVE Moved
  BY <1>34 DEF MarkClosed
<1>35. ASSUME UnregisterClosed PROVE Moved
  BY <1>35 DEF UnregisterClosed
<1>36. ASSUME NEW t \in Turn, Interrupt(t) PROVE Moved
  BY <1>36 DEF Interrupt
<1>37. ASSUME NEW t \in Turn, CancelTurn(t) PROVE Moved
  BY <1>37 DEF CancelTurn
<1>38. ASSUME CancelRuntime PROVE Moved
  BY <1>38 DEF CancelRuntime
<1>39. ASSUME NEW i \in Input, NEW t \in Turn, InjectRuntimeMessage(i, t) PROVE Moved
  BY <1>39 DEF InjectRuntimeMessage, callerUntouched
<1>40. ASSUME NEW i \in Input, EnqueueRuntimeInput(i) PROVE Moved
  BY <1>40 DEF EnqueueRuntimeInput, callerUntouched
<1>41. CASE UNCHANGED vars
  BY <1>41 DEF vars
<1> QED
  BY <1>1, <1>2, <1>3, <1>4, <1>5, <1>6, <1>7, <1>8, <1>9, <1>10, <1>11, <1>12, <1>13, <1>14,
     <1>15, <1>16, <1>17, <1>18, <1>19, <1>20, <1>21, <1>22, <1>23, <1>24, <1>25, <1>26, <1>27,
     <1>28, <1>29, <1>30, <1>31, <1>32, <1>33, <1>34, <1>35, <1>36, <1>37, <1>38, <1>39, <1>40,
     <1>41, Zenon
  DEF Next, LoopStep, ProviderStep, Start, Report, Router

\* After a move every loop has the work that its place says.
LEMMA MovedTypes ==
  ASSUME TypeOK, WorkInv, Moved
  PROVE  TodoTypes' /\ WorkInv'
<1> USE DEF TypeOK
<1>1. /\ terminal \in [Turn -> {"none", "completed", "failed", "interrupted"}]
      /\ loop \in [Turn -> LoopPlaces] /\ todo \in [Turn -> Seq(Steps)]
      /\ \A t \in Turn : loop[t] \in {"effect", "closing"} <=> todo[t] # <<>>
  BY DEF EndTypes, TodoTypes, Steps
<1>2. ASSUME loop' \in [Turn -> LoopPlaces], todo' \in [Turn -> Seq(Steps)],
             \A t \in Turn : loop'[t] \in {"effect", "closing"} <=> todo'[t] # <<>>
      PROVE  TodoTypes'
  BY <1>2 DEF TodoTypes, Steps
<1>3. \A t \in Turn : Seq(Work(t)) \subseteq Seq(Steps) /\ Seq(Cleanup(t)) \subseteq Seq(Work(t))
  <2> TAKE t \in Turn
  <2>1. Work(t) \subseteq Steps /\ Cleanup(t) \subseteq Work(t) BY EffectWork
  <2>2. \A q \in Seq(Work(t)) : q \in Seq(Steps) BY <2>1, Wider
  <2>3. \A q \in Seq(Cleanup(t)) : q \in Seq(Work(t)) BY <2>1, Wider
  <2> QED BY <2>2, <2>3
<1>4. \A t \in Turn : <<>> \in Seq(Work(t)) /\ <<>> \in Seq(Close) /\ <<>> \in Seq(Steps) OBVIOUS
<1>5. ASSUME NEW t \in Turn, Goes(t) PROVE TodoTypes' /\ WorkInv'
  <2> PICK w \in Seq(Work(t)) :
        /\ Goto(t, w) /\ terminal' = terminal /\ terminal[t] # "completed"
        /\ loop[t] = "closing" => w \in Cleanups(t)
    BY <1>5 DEF Goes
  <2> PICK p \in {"exited", "select", "closing", "effect"} :
        /\ loop' = [loop EXCEPT ![t] = p] /\ todo' = [todo EXCEPT ![t] = w]
        /\ (p \in {"closing", "effect"} <=> w # <<>>)
        /\ (p = "closing" => loop[t] = "closing")
    BY DEF Goto, After
  <2>1. TodoTypes'
    <3>1. p \in LoopPlaces BY DEF LoopPlaces
    <3>2. w \in Seq(Steps) BY <1>3
    <3> QED BY <1>1, <1>2, <3>1, <3>2
  <2>2. WorkInv' BY <1>1 DEF WorkInv
  <2> QED BY <2>1, <2>2
<1>6. ASSUME NEW t \in Turn, EndsRun(t) PROVE TodoTypes' /\ WorkInv'
  <2> PICK kind \in {"completed", "failed", "interrupted"}, effects \in Cleanups(t) :
        /\ kind = "completed" => effects \in Seq(Close)
        /\ Ended(t, kind, effects)
    BY <1>6 DEF EndsRun
  <2>1. effects \in Seq(Cleanup(t)) /\ effects # <<>> BY ClosingWork
  <2>2. effects \in Seq(Work(t)) /\ effects \in Seq(Steps) BY <1>3, <2>1
  <2>3. CASE /\ terminal[t] = "none" /\ terminal' = [terminal EXCEPT ![t] = kind]
             /\ todo' = [todo EXCEPT ![t] = effects]
             /\ loop' = [loop EXCEPT ![t] = "closing"]
    <3>1. TodoTypes' BY <1>1, <1>2, <2>1, <2>2, <2>3 DEF LoopPlaces
    <3>2. WorkInv' BY <1>1, <2>2, <2>3 DEF WorkInv
    <3> QED BY <3>1, <3>2
  <2>4. ASSUME terminal' = terminal, todo' = [todo EXCEPT ![t] = <<>>],
               NEW p \in {"exited", "reject"}, loop' = [loop EXCEPT ![t] = p]
        PROVE  TodoTypes' /\ WorkInv'
    <3>1. TodoTypes' BY <1>1, <1>2, <1>4, <2>4 DEF LoopPlaces
    <3>2. WorkInv' BY <1>1, <1>4, <2>4 DEF WorkInv
    <3> QED BY <3>1, <3>2
  <2> QED BY <2>3, <2>4 DEF Ended
<1>7. ASSUME NEW t \in Turn, Drops(t) PROVE TodoTypes' /\ WorkInv'
  <2>1. TodoTypes' BY <1>1, <1>2, <1>4, <1>7 DEF Drops, LoopPlaces
  <2>2. WorkInv' BY <1>1, <1>4, <1>7 DEF Drops, WorkInv
  <2> QED BY <2>1, <2>2
<1>8. ASSUME NEW t \in Turn, Finishes(t) PROVE TodoTypes' /\ WorkInv'
  <2> PICK p \in {"mark", "unregister", "close", "exited"} : loop' = [loop EXCEPT ![t] = p]
    BY <1>8 DEF Finishes
  <2>1. /\ loop[t] \in {"reject", "mark", "unregister", "close"}
        /\ todo' = todo /\ terminal' = terminal
    BY <1>8 DEF Finishes
  <2>2. TodoTypes' BY <1>1, <1>2, <2>1 DEF LoopPlaces
  <2>3. WorkInv' BY <1>1, <2>1 DEF WorkInv
  <2> QED BY <2>2, <2>3
<1>9. CASE RouterFails
  <2>1. TodoTypes' BY <1>9 DEF TodoTypes, RouterFails
  <2>2. WorkInv' BY <1>1, <1>9 DEF WorkInv, RouterFails
  <2> QED BY <2>1, <2>2
<1>10. CASE UNCHANGED <<loop, todo, terminal>>
  BY <1>10 DEF TodoTypes, WorkInv
<1> QED BY <1>5, <1>6, <1>7, <1>8, <1>9, <1>10 DEF Moved

-----------------------------------------------------------------------------
(* What is stored, and the queue of injected messages. *)

\* The messages of turn t.
Mine(t) == {m \in Messages : m.turn = t}

Writes(t) == /\ loop[t] \in {"effect", "closing"}
             /\ \E w \in Seq(Written(t)) : messages' = messages \o w
Reads(t) == loop[t] = "effect" /\ messages' = messages \o InputMessages(t)
Answers(t, answer) ==
  runtimeInputs' = [runtimeInputs EXCEPT ![t] = <<>>] /\ Tell(Queued(t), answer)

\* What a step of t's loop stores, and whom it answers.
StoresBy(t) ==
  \/ UNCHANGED inputVars /\ UNCHANGED messages
  \/ UNCHANGED inputVars /\ Writes(t)
  \/ Reads(t) /\ Answers(t, "accepted")
  \/ \E answer \in {"failed", "refused"} : UNCHANGED messages /\ Answers(t, answer)
Stored ==
  \/ UNCHANGED inputVars /\ UNCHANGED messages
  \/ UNCHANGED inputVars /\ \E t \in Turn : Writes(t)
  \/ \E t \in Turn : Reads(t) /\ Answers(t, "accepted")
  \/ \E t \in Turn, answer \in {"failed", "refused"} : UNCHANGED messages /\ Answers(t, answer)
  \/ UNCHANGED messages /\ \E i \in Input, t \in Turn : InjectRuntimeMessage(i, t)
  \/ UNCHANGED messages /\ \E i \in Input : EnqueueRuntimeInput(i)

\* The queue in the transcript's form.
LEMMA InputsRead ==
  ASSUME NEW t \in Turn, runtimeInputs[t] \in Seq(Input)
  PROVE  /\ InputMessages(t) \in Seq(Mine(t)) /\ Len(InputMessages(t)) = Len(runtimeInputs[t])
         /\ \A k \in 1..Len(runtimeInputs[t]) :
              InputMessages(t)[k] = Message(t, "input", runtimeInputs[t][k])
<1> DEFINE n == Len(runtimeInputs[t])
           f == [k \in 1..n |-> Message(t, "input", runtimeInputs[t][k])]
<1>1. n \in Nat /\ \A k \in 1..n : runtimeInputs[t][k] \in Input OBVIOUS
<1>2. \A i \in Input : Message(t, "input", i) \in Mine(t)
  <2> TAKE i \in Input
  <2>1. Message(t, "input", i) \in Messages BY MessageTypes
  <2> QED BY <2>1 DEF Mine, Message
<1>3. f \in [1..n -> Mine(t)] BY <1>1, <1>2
<1>4. \A k \in 1..n : f[k] = Message(t, "input", runtimeInputs[t][k]) OBVIOUS
<1>5. InputMessages(t) = f BY DEF InputMessages
<1>6. n = Len(runtimeInputs[t]) OBVIOUS
<1> HIDE DEF f, n
<1>7. f \in Seq(Mine(t)) /\ Len(f) = n BY <1>1, <1>3, FunctionIsSeq
<1> QED BY <1>4, <1>5, <1>6, <1>7

\* What effects store is of their own turn.
LEMMA WrittenIsMine ==
  ASSUME NEW t \in Turn, NEW w \in Seq(Written(t)) PROVE w \in Seq(Mine(t))
<1>1. Written(t) \subseteq Mine(t) BY DEF Written, Mine
<1> QED BY <1>1, Wider

\* What every step of a loop stores.
LEMMA StepStores ==
  ASSUME TypeOK, WorkInv, NEW t \in Turn, LoopStep(t) \/ ProviderStep(t)
  PROVE  StoresBy(t)
<1> USE DEF TypeOK, StoresBy
<1>1. ASSUME CheckDone(t) PROVE StoresBy(t)
  <2>1. UNCHANGED inputVars /\ UNCHANGED messages BY <1>1 DEF CheckDone
  <2> QED BY <2>1
<1>2. ASSUME SelectTerminal(t) PROVE StoresBy(t)
  <2>1. UNCHANGED inputVars /\ UNCHANGED messages BY <1>2 DEF SelectTerminal, Selecting
  <2> QED BY <2>1
<1>3. ASSUME SelectInterrupt(t) PROVE StoresBy(t)
  <2>1. UNCHANGED inputVars /\ UNCHANGED messages BY <1>3 DEF SelectInterrupt, Selecting
  <2> QED BY <2>1
<1>4. ASSUME SelectToolResults(t) PROVE StoresBy(t)
  <2>1. UNCHANGED inputVars /\ UNCHANGED messages BY <1>4 DEF SelectToolResults, Selecting
  <2> QED BY <2>1
<1>5. ASSUME HandleToolResult(t) PROVE StoresBy(t)
  <2>1. UNCHANGED inputVars /\ UNCHANGED messages BY <1>5 DEF HandleToolResult
  <2> QED BY <2>1
<1>6. ASSUME InterpretAppend(t) PROVE StoresBy(t)
  <2>1. At(t, "AppendMessages") /\ UNCHANGED inputVars
        /\ (messages' = messages \o todo[t][1].arg \/ UNCHANGED messages)
    BY <1>6 DEF InterpretAppend, At
  <2>2. todo[t][1] \in Work(t) /\ todo[t][1].op = "AppendMessages" /\ loop[t] \in {"effect", "closing"}
    BY <2>1, AtWork
  <2>3. todo[t][1].arg \in Seq(Written(t)) BY <2>2 DEF Work
  <2> QED BY <2>1, <2>2, <2>3 DEF Writes
<1>7. ASSUME InterpretRequestTool(t) PROVE StoresBy(t)
  <2>1. UNCHANGED inputVars /\ UNCHANGED messages BY <1>7 DEF InterpretRequestTool, At
  <2> QED BY <2>1
<1>8. ASSUME InterpretDispatch(t) PROVE StoresBy(t)
  <2>1. UNCHANGED inputVars /\ UNCHANGED messages BY <1>8 DEF InterpretDispatch, At
  <2> QED BY <2>1
<1>9. ASSUME InterpretRunFailed(t) PROVE StoresBy(t)
  <2>1. UNCHANGED inputVars /\ UNCHANGED messages BY <1>9 DEF InterpretRunFailed, At
  <2> QED BY <2>1
<1>10. ASSUME InterpretStage(t) PROVE StoresBy(t)
  <2>1. UNCHANGED inputVars /\ UNCHANGED messages BY <1>10 DEF InterpretStage, At
  <2> QED BY <2>1
<1>11. ASSUME InterpretInterruptTools(t) PROVE StoresBy(t)
  <2>1. UNCHANGED inputVars /\ UNCHANGED messages BY <1>11 DEF InterpretInterruptTools, At
  <2> QED BY <2>1
<1>12. ASSUME InterpretCancelProvider(t) PROVE StoresBy(t)
  <2>1. UNCHANGED inputVars /\ UNCHANGED messages BY <1>12 DEF InterpretCancelProvider, At
  <2> QED BY <2>1
<1>13. ASSUME InterpretCloseRun(t) PROVE StoresBy(t)
  <2>1. UNCHANGED inputVars /\ UNCHANGED messages BY <1>13 DEF InterpretCloseRun, At
  <2> QED BY <2>1
<1>14. ASSUME InterpretStartProvider(t) PROVE StoresBy(t)
  <2> PICK op \in {"StartProvider", "RestartProvider"} : At(t, op) BY <1>14 DEF InterpretStartProvider
  <2>1. \/ Answers(t, "accepted") /\ messages' = messages \o InputMessages(t)
        \/ Answers(t, "failed") /\ UNCHANGED messages
    BY <1>14 DEF InterpretStartProvider, AppendRuntimeInputs, Answers
  <2>2. loop[t] = "effect"
    <3>1. op \notin CleanupOps BY DEF CleanupOps
    <3> QED BY <3>1, AtWork
  <2> QED BY <2>1, <2>2 DEF Reads
<1>15. ASSUME InterpretStartModel(t) PROVE StoresBy(t)
  <2>1. UNCHANGED inputVars /\ UNCHANGED messages BY <1>15 DEF InterpretStartModel, At
  <2> QED BY <2>1
<1>16. ASSUME InterpretAttemptComplete(t) PROVE StoresBy(t)
  <2> PICK w : w = <<Effect(IF runtimeInputs[t] = <<>> THEN "Inspect" ELSE "RestartProvider")>> OBVIOUS
  <2>0. At(t, "AttemptComplete") /\ AppendRuntimeInputs(t, w) BY <1>16 DEF InterpretAttemptComplete
  <2>1. \/ Answers(t, "accepted") /\ messages' = messages \o InputMessages(t)
        \/ Answers(t, "failed") /\ UNCHANGED messages
    BY <2>0 DEF AppendRuntimeInputs, Answers
  <2>2. loop[t] = "effect"
    <3>1. "AttemptComplete" \notin CleanupOps BY DEF CleanupOps
    <3> QED BY <2>0, <3>1, AtWork
  <2> QED BY <2>1, <2>2 DEF Reads
<1>17. ASSUME InterpretInspect(t) PROVE StoresBy(t)
  <2>1. UNCHANGED inputVars /\ UNCHANGED messages BY <1>17 DEF InterpretInspect, RetryCompletion,
     At
  <2> QED BY <2>1
<1>18. ASSUME InterpretCommitPending(t) PROVE StoresBy(t)
  <2> PICK m : m = Message(t, "assistant", None) OBVIOUS
  <2>1. At(t, "CommitPending") /\ UNCHANGED inputVars
        /\ (messages' = Append(messages, m) \/ UNCHANGED messages)
    BY <1>18 DEF InterpretCommitPending, At
  <2>2. loop[t] \in {"effect", "closing"} BY <2>1, AtWork
  <2>3. m \in Written(t) BY MessageTypes
  <2>4. messages \in Seq(Messages) /\ m \in Messages BY <2>3 DEF RuntimeTypes, Written
  <2>5. <<m>> \in Seq(Written(t)) BY <2>3, Single
  <2>6. Append(messages, m) = messages \o <<m>> BY <2>4, AppendParts
  <2> QED BY <2>1, <2>2, <2>5, <2>6 DEF Writes
<1>19. ASSUME InterpretRunCompleted(t) PROVE StoresBy(t)
  <2>1. UNCHANGED inputVars /\ UNCHANGED messages BY <1>19 DEF InterpretRunCompleted, At
  <2> QED BY <2>1
<1>20. ASSUME InterpretRespond(t) PROVE StoresBy(t)
  <2> PICK m, n : m = Message(t, "user", None) /\ n = Message(t, "assistant", None) OBVIOUS
  <2>1. At(t, "Respond") /\ UNCHANGED inputVars
        /\ (messages' = messages \o <<m, n>> \/ UNCHANGED messages)
    BY <1>20 DEF InterpretRespond, At
  <2>2. loop[t] \in {"effect", "closing"} BY <2>1, AtWork
  <2>3. m \in Written(t) /\ n \in Written(t) BY MessageTypes
  <2>4. <<m, n>> \in Seq(Written(t)) BY <2>3, Pair
  <2> QED BY <2>1, <2>2, <2>4 DEF Writes
<1>21. ASSUME InterpretRespondCompleted(t) PROVE StoresBy(t)
  <2>1. UNCHANGED inputVars /\ UNCHANGED messages BY <1>21 DEF InterpretRespondCompleted, At
  <2> QED BY <2>1
<1>22. ASSUME FinishReject(t) PROVE StoresBy(t)
  <2>1. UNCHANGED messages /\ Answers(t, "refused") BY <1>22 DEF FinishReject, Tell, Answers
  <2> QED BY <2>1
<1>23. ASSUME FinishMark(t) PROVE StoresBy(t)
  <2>1. UNCHANGED inputVars /\ UNCHANGED messages BY <1>23 DEF FinishMark
  <2> QED BY <2>1
<1>24. ASSUME FinishUnregister(t) PROVE StoresBy(t)
  <2>1. UNCHANGED inputVars /\ UNCHANGED messages BY <1>24 DEF FinishUnregister
  <2> QED BY <2>1
<1>25. ASSUME FinishClose(t) PROVE StoresBy(t)
  <2>1. UNCHANGED inputVars /\ UNCHANGED messages BY <1>25 DEF FinishClose
  <2> QED BY <2>1
<1>26. ASSUME NEW calls \in CallLists \cup {<<>>}, ProviderCompletes(t, calls) PROVE StoresBy(t)
  <2>1. UNCHANGED inputVars /\ UNCHANGED messages BY <1>26 DEF ProviderCompletes, StreamEnds,
     BeginRecovery, FinishRecovery, Selecting
  <2> QED BY <2>1
<1>27. ASSUME ProviderMalformed(t) PROVE StoresBy(t)
  <2>1. UNCHANGED inputVars /\ UNCHANGED messages BY <1>27 DEF ProviderMalformed, StreamEnds,
     BeginRecovery, Selecting
  <2> QED BY <2>1
<1>28. ASSUME ProviderFails(t) PROVE StoresBy(t)
  <2>1. UNCHANGED inputVars /\ UNCHANGED messages BY <1>28 DEF ProviderFails, StreamEnds, Selecting
  <2> QED BY <2>1
<1> QED
  BY <1>1, <1>2, <1>3, <1>4, <1>5, <1>6, <1>7, <1>8, <1>9, <1>10, <1>11, <1>12, <1>13, <1>14,
     <1>15, <1>16, <1>17, <1>18, <1>19, <1>20, <1>21, <1>22, <1>23, <1>24, <1>25, <1>26, <1>27,
     <1>28, Zenon
  DEF LoopStep, ProviderStep

\* Every step stores messages and answers callers in one of these ways.
LEMMA StoredMoves ==
  ASSUME TypeOK, WorkInv, [Next]_vars
  PROVE  Stored
<1>1. ASSUME NEW t \in Turn, AdmitTurn(t) PROVE Stored
  <2>1. UNCHANGED inputVars /\ UNCHANGED messages BY <1>1 DEF AdmitTurn
  <2> QED BY <2>1 DEF Stored
<1>2. ASSUME NEW t \in Turn, WaitFinished(t) PROVE Stored
  <2>1. UNCHANGED inputVars /\ UNCHANGED messages BY <1>2 DEF WaitFinished
  <2> QED BY <2>1 DEF Stored
<1>3. ASSUME NEW t \in Turn, NEW c \in Call, NEW status \in {"succeeded", "failed"}, RouteToolResult(t, c, status) PROVE Stored
  <2>1. UNCHANGED inputVars /\ UNCHANGED messages BY <1>3 DEF RouteToolResult
  <2> QED BY <2>1 DEF Stored
<1>4. ASSUME CloseResults PROVE Stored
  <2>1. UNCHANGED inputVars /\ UNCHANGED messages BY <1>4 DEF CloseResults
  <2> QED BY <2>1 DEF Stored
<1>5. ASSUME PublishClosed PROVE Stored
  <2>1. UNCHANGED inputVars /\ UNCHANGED messages BY <1>5 DEF PublishClosed
  <2> QED BY <2>1 DEF Stored
<1>6. ASSUME MarkClosed PROVE Stored
  <2>1. UNCHANGED inputVars /\ UNCHANGED messages BY <1>6 DEF MarkClosed
  <2> QED BY <2>1 DEF Stored
<1>7. ASSUME UnregisterClosed PROVE Stored
  <2>1. UNCHANGED inputVars /\ UNCHANGED messages BY <1>7 DEF UnregisterClosed
  <2> QED BY <2>1 DEF Stored
<1>8. ASSUME NEW t \in Turn, Interrupt(t) PROVE Stored
  <2>1. UNCHANGED inputVars /\ UNCHANGED messages BY <1>8 DEF Interrupt
  <2> QED BY <2>1 DEF Stored
<1>9. ASSUME NEW t \in Turn, CancelTurn(t) PROVE Stored
  <2>1. UNCHANGED inputVars /\ UNCHANGED messages BY <1>9 DEF CancelTurn
  <2> QED BY <2>1 DEF Stored
<1>10. ASSUME CancelRuntime PROVE Stored
  <2>1. UNCHANGED inputVars /\ UNCHANGED messages BY <1>10 DEF CancelRuntime
  <2> QED BY <2>1 DEF Stored
<1>11. ASSUME NEW i \in Input, NEW t \in Turn, InjectRuntimeMessage(i, t) PROVE Stored
  <2>1. UNCHANGED messages BY <1>11 DEF InjectRuntimeMessage, callerUntouched
  <2> QED BY <1>11, <2>1 DEF Stored
<1>12. ASSUME NEW i \in Input, EnqueueRuntimeInput(i) PROVE Stored
  <2>1. UNCHANGED messages BY <1>12 DEF EnqueueRuntimeInput, callerUntouched
  <2> QED BY <1>12, <2>1 DEF Stored
<1>13. CASE UNCHANGED vars
  <2>1. UNCHANGED inputVars /\ UNCHANGED messages BY <1>13 DEF vars
  <2> QED BY <2>1 DEF Stored
<1>14. ASSUME NEW t \in Turn, LoopStep(t) \/ ProviderStep(t) PROVE Stored
  <2>1. StoresBy(t) BY <1>14, StepStores
  <2> QED BY <2>1 DEF StoresBy, Stored
<1> QED
  BY <1>1, <1>2, <1>3, <1>4, <1>5, <1>6, <1>7, <1>8, <1>9, <1>10, <1>11, <1>12, <1>13, <1>14, Zenon
  DEF Next, Start, Report, Router

-----------------------------------------------------------------------------
(* Types. *)

\* TypeOK less what Moved and Stored show.
RuntimeRest ==
  /\ active \in Turn \cup {None} /\ closedRun \in Turn \cup {None}
  /\ toolResultsClosed \in BOOLEAN /\ runtimeDone \in BOOLEAN
  /\ closer \in {"routing", "publish", "mark", "unregister", "over"}
  /\ starter \in [Turn -> {"idle", "waiting", "started", "refused"}]
  /\ waitsFor \in [Turn -> Turn \cup {None}]
  /\ effectsDone \in [Turn -> BOOLEAN] /\ finished \in [Turn -> BOOLEAN]
QueueRest ==
  /\ toolResults \in [Turn -> Seq(Result)]
  /\ outstanding \in [Turn -> SUBSET Call]
  /\ repeats \in 0..MaxRepeats
  /\ control \in [Turn -> {"none", "requested", "taken"}]
  /\ ctxDone \in [Turn -> BOOLEAN]

\* The transcript only grows.
LEMMA Grown ==
  ASSUME RuntimeTypes, QueueTypes, Stored
  PROVE  /\ messages' \in Seq(Messages) /\ Len(messages) \in Nat /\ Len(messages') \in Nat
         /\ Len(messages) <= Len(messages')
         /\ \A k \in 1..Len(messages) : messages'[k] = messages[k]
         /\ \A k \in 1..Len(messages') : messages'[k] \in Messages
<1>1. messages \in Seq(Messages) BY DEF RuntimeTypes
<1>2. ASSUME NEW t \in Turn, NEW w \in Seq(Mine(t)), messages' = messages \o w
      PROVE  /\ messages' \in Seq(Messages) /\ Len(messages') = Len(messages) + Len(w)
             /\ \A k \in 1..Len(messages) : messages'[k] = messages[k]
             /\ Len(w) \in Nat
  <2>1. w \in Seq(Messages)
    <3>1. Mine(t) \subseteq Messages BY DEF Mine
    <3> QED BY <3>1, Wider
  <2> QED BY <1>1, <1>2, <2>1, Concat
<1>3. \/ messages' = messages
      \/ \E t \in Turn : \E w \in Seq(Mine(t)) : messages' = messages \o w
  <2>1. ASSUME NEW t \in Turn, Writes(t) PROVE \E w \in Seq(Mine(t)) : messages' = messages \o w
    BY <2>1, WrittenIsMine DEF Writes
  <2>2. ASSUME NEW t \in Turn, Reads(t) PROVE \E w \in Seq(Mine(t)) : messages' = messages \o w
    <3>1. runtimeInputs[t] \in Seq(Input) BY DEF QueueTypes
    <3> QED BY <2>2, <3>1, InputsRead DEF Reads
  <2> QED BY <2>1, <2>2 DEF Stored
<1>4. /\ messages' \in Seq(Messages) /\ Len(messages) \in Nat
      /\ Len(messages) <= Len(messages')
      /\ \A k \in 1..Len(messages) : messages'[k] = messages[k]
  <2>1. CASE messages' = messages BY <1>1, <2>1
  <2>2. ASSUME NEW t \in Turn, NEW w \in Seq(Mine(t)), messages' = messages \o w
        PROVE  /\ messages' \in Seq(Messages) /\ Len(messages) \in Nat
               /\ Len(messages) <= Len(messages')
               /\ \A k \in 1..Len(messages) : messages'[k] = messages[k]
    <3>1. /\ messages' \in Seq(Messages) /\ Len(messages') = Len(messages) + Len(w)
          /\ \A k \in 1..Len(messages) : messages'[k] = messages[k]
          /\ Len(w) \in Nat
      BY <1>2, <2>2
    <3>2. Len(messages) \in Nat BY <1>1
    <3> QED BY <3>1, <3>2
  <2> QED BY <1>3, <2>1, <2>2
<1>5. Len(messages') \in Nat /\ \A k \in 1..Len(messages') : messages'[k] \in Messages
  BY <1>4
<1> QED BY <1>4, <1>5

InputTypes ==
  /\ runtimeInputs \in [Turn -> Seq(Input)]
  /\ inject \in [Input -> [at : {"idle", "found", "queued", "accepted", "failed", "refused"},
                           turn : Turn \cup {None}]]

\* The queues and the callers of InjectRuntimeMessage.
LEMMA InputTypesKept ==
  ASSUME InputTypes, Stored, \A i \in Input : inject[i].at # "idle" => inject[i].turn \in Turn
  PROVE  InputTypes'
<1> DEFINE Progress == [at : {"idle", "found", "queued", "accepted", "failed", "refused"},
                        turn : Turn \cup {None}]
<1>1. runtimeInputs \in [Turn -> Seq(Input)] /\ inject \in [Input -> Progress] BY DEF InputTypes
<1>2. ASSUME runtimeInputs' \in [Turn -> Seq(Input)], inject' \in [Input -> Progress]
      PROVE  InputTypes'
  BY <1>2 DEF InputTypes
<1>3. CASE UNCHANGED inputVars BY <1>3 DEF InputTypes
<1>4. ASSUME NEW t \in Turn, NEW answer \in {"accepted", "failed", "refused"}, Answers(t, answer)
      PROVE  InputTypes'
  <2>1. \A i \in Input : [inject[i] EXCEPT !.at = answer] \in Progress BY <1>1
  <2>2. <<>> \in Seq(Input) OBVIOUS
  <2> HIDE DEF Progress
  <2>3. inject' \in [Input -> Progress] BY <1>1, <1>4, <2>1 DEF Answers, Tell
  <2>4. runtimeInputs' \in [Turn -> Seq(Input)] BY <1>1, <1>4, <2>2 DEF Answers
  <2> QED BY <1>2, <2>3, <2>4
<1>5. ASSUME NEW i \in Input, NEW t \in Turn, InjectRuntimeMessage(i, t) PROVE InputTypes'
  <2>1. [at |-> "found", turn |-> t] \in Progress OBVIOUS
  <2>2. inject' = [inject EXCEPT ![i] = [at |-> "found", turn |-> t]] /\ runtimeInputs' = runtimeInputs
    BY <1>5 DEF InjectRuntimeMessage
  <2> HIDE DEF Progress
  <2> QED BY <1>1, <1>2, <2>1, <2>2
<1>6. ASSUME NEW i \in Input, EnqueueRuntimeInput(i) PROVE InputTypes'
  <2>1. inject[i].at = "found" /\ inject[i].turn \in Turn BY <1>6 DEF EnqueueRuntimeInput
  <2> PICK t \in Turn : t = inject[i].turn BY <2>1
  <2>2. \/ inject' = [inject EXCEPT ![i].at = "refused"] /\ runtimeInputs' = runtimeInputs
        \/ /\ inject' = [inject EXCEPT ![i].at = "queued"]
           /\ runtimeInputs' = [runtimeInputs EXCEPT ![t] = Append(runtimeInputs[t], i)]
    BY <1>6 DEF EnqueueRuntimeInput
  <2>3. \A at \in {"refused", "queued"} : [inject[i] EXCEPT !.at = at] \in Progress BY <1>1
  <2>4. Append(runtimeInputs[t], i) \in Seq(Input) BY <1>1
  <2> HIDE DEF Progress
  <2>5. inject' \in [Input -> Progress] BY <1>1, <2>2, <2>3
  <2>6. runtimeInputs' \in [Turn -> Seq(Input)] BY <1>1, <2>2, <2>4
  <2> QED BY <1>2, <2>5, <2>6
<1> QED BY <1>3, <1>4, <1>5, <1>6 DEF Stored

\* The runtime, the callers of Start and the flags of finish.
LEMMA RuntimeRestKept ==
  ASSUME RuntimeRest, [Next]_vars
  PROVE  RuntimeRest'
<1> USE DEF RuntimeRest
<1>1. ASSUME NEW t \in Turn, CheckDone(t) PROVE RuntimeRest'
  <2>1. UNCHANGED <<active, closedRun, toolResultsClosed, runtimeDone, closer, starter, waitsFor, effectsDone, finished>>
    BY <1>1 DEF CheckDone
  <2> QED BY <2>1
<1>2. ASSUME NEW t \in Turn, SelectTerminal(t) PROVE RuntimeRest'
  <2>1. UNCHANGED <<active, closedRun, toolResultsClosed, runtimeDone, closer, starter, waitsFor, effectsDone, finished>>
    BY <1>2 DEF SelectTerminal, Selecting
  <2> QED BY <2>1
<1>3. ASSUME NEW t \in Turn, SelectInterrupt(t) PROVE RuntimeRest'
  <2>1. UNCHANGED <<active, closedRun, toolResultsClosed, runtimeDone, closer, starter, waitsFor, effectsDone, finished>>
    BY <1>3 DEF SelectInterrupt, Selecting
  <2> QED BY <2>1
<1>4. ASSUME NEW t \in Turn, SelectToolResults(t) PROVE RuntimeRest'
  <2>1. UNCHANGED <<active, closedRun, toolResultsClosed, runtimeDone, closer, starter, waitsFor, effectsDone, finished>>
    BY <1>4 DEF SelectToolResults, Selecting
  <2> QED BY <2>1
<1>5. ASSUME NEW t \in Turn, HandleToolResult(t) PROVE RuntimeRest'
  <2>1. UNCHANGED <<active, closedRun, toolResultsClosed, runtimeDone, closer, starter, waitsFor, effectsDone, finished>>
    BY <1>5 DEF HandleToolResult
  <2> QED BY <2>1
<1>6. ASSUME NEW t \in Turn, InterpretAppend(t) PROVE RuntimeRest'
  <2>1. UNCHANGED <<active, closedRun, toolResultsClosed, runtimeDone, closer, starter, waitsFor, effectsDone, finished>>
    BY <1>6 DEF InterpretAppend, At
  <2> QED BY <2>1
<1>7. ASSUME NEW t \in Turn, InterpretRequestTool(t) PROVE RuntimeRest'
  <2>1. UNCHANGED <<active, closedRun, toolResultsClosed, runtimeDone, closer, starter, waitsFor, effectsDone, finished>>
    BY <1>7 DEF InterpretRequestTool, At
  <2> QED BY <2>1
<1>8. ASSUME NEW t \in Turn, InterpretDispatch(t) PROVE RuntimeRest'
  <2>1. UNCHANGED <<active, closedRun, toolResultsClosed, runtimeDone, closer, starter, waitsFor, effectsDone, finished>>
    BY <1>8 DEF InterpretDispatch, At
  <2> QED BY <2>1
<1>9. ASSUME NEW t \in Turn, InterpretRunFailed(t) PROVE RuntimeRest'
  <2>1. UNCHANGED <<active, closedRun, toolResultsClosed, runtimeDone, closer, starter, waitsFor, effectsDone, finished>>
    BY <1>9 DEF InterpretRunFailed, At
  <2> QED BY <2>1
<1>10. ASSUME NEW t \in Turn, InterpretStage(t) PROVE RuntimeRest'
  <2>1. UNCHANGED <<active, closedRun, toolResultsClosed, runtimeDone, closer, starter, waitsFor, effectsDone, finished>>
    BY <1>10 DEF InterpretStage, At
  <2> QED BY <2>1
<1>11. ASSUME NEW t \in Turn, InterpretInterruptTools(t) PROVE RuntimeRest'
  <2>1. UNCHANGED <<active, closedRun, toolResultsClosed, runtimeDone, closer, starter, waitsFor, effectsDone, finished>>
    BY <1>11 DEF InterpretInterruptTools, At
  <2> QED BY <2>1
<1>12. ASSUME NEW t \in Turn, InterpretCancelProvider(t) PROVE RuntimeRest'
  <2>1. UNCHANGED <<active, closedRun, toolResultsClosed, runtimeDone, closer, starter, waitsFor, effectsDone, finished>>
    BY <1>12 DEF InterpretCancelProvider, At
  <2> QED BY <2>1
<1>13. ASSUME NEW t \in Turn, InterpretCloseRun(t) PROVE RuntimeRest'
  <2>1. UNCHANGED <<active, closedRun, toolResultsClosed, runtimeDone, closer, starter, waitsFor, effectsDone, finished>>
    BY <1>13 DEF InterpretCloseRun, At
  <2> QED BY <2>1
<1>14. ASSUME NEW t \in Turn, InterpretStartProvider(t) PROVE RuntimeRest'
  <2>1. UNCHANGED <<active, closedRun, toolResultsClosed, runtimeDone, closer, starter, waitsFor, effectsDone, finished>>
    BY <1>14 DEF InterpretStartProvider, At
  <2> QED BY <2>1
<1>15. ASSUME NEW t \in Turn, InterpretStartModel(t) PROVE RuntimeRest'
  <2>1. UNCHANGED <<active, closedRun, toolResultsClosed, runtimeDone, closer, starter, waitsFor, effectsDone, finished>>
    BY <1>15 DEF InterpretStartModel, At
  <2> QED BY <2>1
<1>16. ASSUME NEW t \in Turn, InterpretAttemptComplete(t) PROVE RuntimeRest'
  <2>1. UNCHANGED <<active, closedRun, toolResultsClosed, runtimeDone, closer, starter, waitsFor, effectsDone, finished>>
    BY <1>16 DEF InterpretAttemptComplete, At
  <2> QED BY <2>1
<1>17. ASSUME NEW t \in Turn, InterpretInspect(t) PROVE RuntimeRest'
  <2>1. UNCHANGED <<active, closedRun, toolResultsClosed, runtimeDone, closer, starter, waitsFor, effectsDone, finished>>
    BY <1>17 DEF InterpretInspect, RetryCompletion, At
  <2> QED BY <2>1
<1>18. ASSUME NEW t \in Turn, InterpretCommitPending(t) PROVE RuntimeRest'
  <2>1. UNCHANGED <<active, closedRun, toolResultsClosed, runtimeDone, closer, starter, waitsFor, effectsDone, finished>>
    BY <1>18 DEF InterpretCommitPending, At
  <2> QED BY <2>1
<1>19. ASSUME NEW t \in Turn, InterpretRunCompleted(t) PROVE RuntimeRest'
  <2>1. UNCHANGED <<active, closedRun, toolResultsClosed, runtimeDone, closer, starter, waitsFor, effectsDone, finished>>
    BY <1>19 DEF InterpretRunCompleted, At
  <2> QED BY <2>1
<1>20. ASSUME NEW t \in Turn, InterpretRespond(t) PROVE RuntimeRest'
  <2>1. UNCHANGED <<active, closedRun, toolResultsClosed, runtimeDone, closer, starter, waitsFor, effectsDone, finished>>
    BY <1>20 DEF InterpretRespond, At
  <2> QED BY <2>1
<1>21. ASSUME NEW t \in Turn, InterpretRespondCompleted(t) PROVE RuntimeRest'
  <2>1. UNCHANGED <<active, closedRun, toolResultsClosed, runtimeDone, closer, starter, waitsFor, effectsDone, finished>>
    BY <1>21 DEF InterpretRespondCompleted, At
  <2> QED BY <2>1
<1>22. ASSUME NEW t \in Turn, FinishReject(t) PROVE RuntimeRest'
  <2>1. UNCHANGED <<active, closedRun, toolResultsClosed, runtimeDone, closer, starter, waitsFor, effectsDone, finished>>
    BY <1>22 DEF FinishReject
  <2> QED BY <2>1
<1>23. ASSUME NEW t \in Turn, FinishMark(t) PROVE RuntimeRest'
  <2>1. effectsDone' = [effectsDone EXCEPT ![t] = @ \/ terminal[t] # "none"] BY <1>23 DEF FinishMark
  <2>2. PICK b \in BOOLEAN : b = (effectsDone[t] \/ terminal[t] # "none") OBVIOUS
  <2>3. effectsDone' = [effectsDone EXCEPT ![t] = b] BY <2>1, <2>2
  <2>4. UNCHANGED <<active, closedRun, toolResultsClosed, runtimeDone, closer, starter, waitsFor, finished>>
    BY <1>23 DEF FinishMark
  <2> QED BY <2>3, <2>4
<1>24. ASSUME NEW t \in Turn, FinishUnregister(t) PROVE RuntimeRest'
  BY <1>24 DEF FinishUnregister
<1>25. ASSUME NEW t \in Turn, FinishClose(t) PROVE RuntimeRest'
  BY <1>25 DEF FinishClose
<1>26. ASSUME NEW t \in Turn, NEW calls \in CallLists \cup {<<>>}, ProviderCompletes(t, calls) PROVE RuntimeRest'
  <2>1. UNCHANGED <<active, closedRun, toolResultsClosed, runtimeDone, closer, starter, waitsFor, effectsDone, finished>>
    BY <1>26 DEF ProviderCompletes, StreamEnds, BeginRecovery, FinishRecovery, Selecting
  <2> QED BY <2>1
<1>27. ASSUME NEW t \in Turn, ProviderMalformed(t) PROVE RuntimeRest'
  <2>1. UNCHANGED <<active, closedRun, toolResultsClosed, runtimeDone, closer, starter, waitsFor, effectsDone, finished>>
    BY <1>27 DEF ProviderMalformed, StreamEnds, BeginRecovery, Selecting
  <2> QED BY <2>1
<1>28. ASSUME NEW t \in Turn, ProviderFails(t) PROVE RuntimeRest'
  <2>1. UNCHANGED <<active, closedRun, toolResultsClosed, runtimeDone, closer, starter, waitsFor, effectsDone, finished>>
    BY <1>28 DEF ProviderFails, StreamEnds, Selecting
  <2> QED BY <2>1
<1>29. ASSUME NEW t \in Turn, AdmitTurn(t) PROVE RuntimeRest'
  BY <1>29 DEF AdmitTurn
<1>30. ASSUME NEW t \in Turn, WaitFinished(t) PROVE RuntimeRest'
  BY <1>30 DEF WaitFinished
<1>31. ASSUME NEW t \in Turn, NEW c \in Call, NEW status \in {"succeeded", "failed"}, RouteToolResult(t, c, status) PROVE RuntimeRest'
  <2>1. UNCHANGED <<active, closedRun, toolResultsClosed, runtimeDone, closer, starter, waitsFor, effectsDone, finished>>
    BY <1>31 DEF RouteToolResult
  <2> QED BY <2>1
<1>32. ASSUME CloseResults PROVE RuntimeRest'
  BY <1>32 DEF CloseResults
<1>33. ASSUME PublishClosed PROVE RuntimeRest'
  BY <1>33 DEF PublishClosed
<1>34. ASSUME MarkClosed PROVE RuntimeRest'
  BY <1>34 DEF MarkClosed
<1>35. ASSUME UnregisterClosed PROVE RuntimeRest'
  BY <1>35 DEF UnregisterClosed
<1>36. ASSUME NEW t \in Turn, Interrupt(t) PROVE RuntimeRest'
  <2>1. UNCHANGED <<active, closedRun, toolResultsClosed, runtimeDone, closer, starter, waitsFor, effectsDone, finished>>
    BY <1>36 DEF Interrupt
  <2> QED BY <2>1
<1>37. ASSUME NEW t \in Turn, CancelTurn(t) PROVE RuntimeRest'
  <2>1. UNCHANGED <<active, closedRun, toolResultsClosed, runtimeDone, closer, starter, waitsFor, effectsDone, finished>>
    BY <1>37 DEF CancelTurn
  <2> QED BY <2>1
<1>38. ASSUME CancelRuntime PROVE RuntimeRest'
  BY <1>38 DEF CancelRuntime
<1>39. ASSUME NEW i \in Input, NEW t \in Turn, InjectRuntimeMessage(i, t) PROVE RuntimeRest'
  <2>1. UNCHANGED <<active, closedRun, toolResultsClosed, runtimeDone, closer, starter, waitsFor, effectsDone, finished>>
    BY <1>39 DEF InjectRuntimeMessage, callerUntouched
  <2> QED BY <2>1
<1>40. ASSUME NEW i \in Input, EnqueueRuntimeInput(i) PROVE RuntimeRest'
  <2>1. UNCHANGED <<active, closedRun, toolResultsClosed, runtimeDone, closer, starter, waitsFor, effectsDone, finished>>
    BY <1>40 DEF EnqueueRuntimeInput, callerUntouched
  <2> QED BY <2>1
<1>41. CASE UNCHANGED vars
  <2>1. UNCHANGED <<active, closedRun, toolResultsClosed, runtimeDone, closer, starter, waitsFor, effectsDone, finished>>
    BY <1>41 DEF vars
  <2> QED BY <2>1
<1> QED
  BY <1>1, <1>2, <1>3, <1>4, <1>5, <1>6, <1>7, <1>8, <1>9, <1>10, <1>11, <1>12, <1>13, <1>14,
     <1>15, <1>16, <1>17, <1>18, <1>19, <1>20, <1>21, <1>22, <1>23, <1>24, <1>25, <1>26, <1>27,
     <1>28, <1>29, <1>30, <1>31, <1>32, <1>33, <1>34, <1>35, <1>36, <1>37, <1>38, <1>39, <1>40,
     <1>41, Zenon
  DEF Next, LoopStep, ProviderStep, Start, Report, Router

\* A function with one value replaced.
LEMMA Update ==
  ASSUME NEW D, NEW S, NEW f \in [D -> S], NEW x \in D, NEW y \in S
  PROVE  [f EXCEPT ![x] = y] \in [D -> S]
OBVIOUS

\* A function to sequences with one of them emptied.
LEMMA UpdateSeq ==
  ASSUME NEW D, NEW S, NEW f, NEW g, NEW x \in D, f \in [D -> Seq(S)],
         g = f \/ g = [f EXCEPT ![x] = <<>>]
  PROVE  g \in [D -> Seq(S)]
<1>1. <<>> \in Seq(S) OBVIOUS
<1> QED BY <1>1

\* Steps that leave the rounds alone.
LEMMA BatchKept ==
  ASSUME RoundTypes, NEW t \in Turn, round' = round,
         batch' = batch \/ batch' = [batch EXCEPT ![t] = <<>>]
  PROVE  RoundTypes'
<1>1. batch \in [Turn -> Seq(Result)] BY DEF RoundTypes
<1>2. batch' \in [Turn -> Seq(Result)] BY <1>1, UpdateSeq
<1> QED BY <1>2 DEF RoundTypes, Accepted

\* Steps that set the round of one turn.
LEMMA RoundSet ==
  ASSUME RoundTypes, NEW t \in Turn, batch' \in [Turn -> Seq(Result)],
         NEW order \in Seq(Call), NEW S \in SUBSET Call, NEW accepted \in [S -> Status],
         S \subseteq Elements(order),
         round' = [round EXCEPT ![t] = [order |-> order, accepted |-> accepted]]
  PROVE  RoundTypes'
<1> DEFINE Rounds == [order : Seq(Call), accepted : UNION {[D -> Status] : D \in SUBSET Call}]
<1>1. round \in [Turn -> Rounds] BY DEF RoundTypes
<1>2. \A u \in Turn : DOMAIN round[u].accepted \subseteq Elements(round[u].order)
  BY DEF RoundTypes, Accepted
<1> PICK r : r = [order |-> order, accepted |-> accepted] OBVIOUS
<1>3. r \in Rounds OBVIOUS
<1>4. DOMAIN r.accepted \subseteq Elements(r.order) OBVIOUS
<1> HIDE DEF Rounds
<1>5. round' \in [Turn -> Rounds] BY <1>1, <1>3
<1>6. \A u \in Turn : DOMAIN round'[u].accepted \subseteq Elements(round'[u].order)
  BY <1>1, <1>2, <1>4
<1> QED BY <1>5, <1>6 DEF RoundTypes, Accepted, Rounds

\* Rounds and results.
LEMMA RoundTypesKept ==
  ASSUME TypeOK, WorkInv, [Next]_vars
  PROVE  RoundTypes'
<1> USE DEF TypeOK
<1>1. ASSUME NEW t \in Turn, CheckDone(t) PROVE RoundTypes'
  <2>1. UNCHANGED round /\ (batch' = batch \/ batch' = [batch EXCEPT ![t] = <<>>])
    BY <1>1 DEF CheckDone
  <2> QED BY <2>1, BatchKept
<1>2. ASSUME NEW t \in Turn, SelectTerminal(t) PROVE RoundTypes'
  <2>1. UNCHANGED round /\ (batch' = batch \/ batch' = [batch EXCEPT ![t] = <<>>])
    BY <1>2 DEF SelectTerminal, Selecting
  <2> QED BY <2>1, BatchKept
<1>3. ASSUME NEW t \in Turn, SelectInterrupt(t) PROVE RoundTypes'
  <2>1. UNCHANGED round /\ (batch' = batch \/ batch' = [batch EXCEPT ![t] = <<>>])
    BY <1>3 DEF SelectInterrupt, Leave, Terminate, Selecting
  <2> QED BY <2>1, BatchKept
<1>4. ASSUME NEW t \in Turn, SelectToolResults(t) PROVE RoundTypes'
  <2>1. batch' = [batch EXCEPT ![t] = toolResults[t]] /\ UNCHANGED round BY <1>4
     DEF SelectToolResults, Selecting
  <2>2. toolResults[t] \in Seq(Result) /\ batch \in [Turn -> Seq(Result)] BY DEF QueueTypes, RoundTypes
  <2>3. batch' \in [Turn -> Seq(Result)] BY <2>1, <2>2
  <2> QED BY <2>1, <2>3 DEF RoundTypes, Accepted
<1>5. ASSUME NEW t \in Turn, HandleToolResult(t) PROVE RoundTypes'
  <2> PICK c, status : c = Head(batch[t]).call /\ status = Head(batch[t]).status OBVIOUS
  <2> PICK accepted : accepted = [d \in Accepted(t) \cup {c} |->
                                    IF d \in Accepted(t) THEN round[t].accepted[d] ELSE status]
    OBVIOUS
  <2>1. batch[t] # <<>> BY <1>5 DEF HandleToolResult
  <2>2. \/ batch' = [batch EXCEPT ![t] = <<>>] /\ round' = round
        \/ batch' = [batch EXCEPT ![t] = Tail(batch[t])] /\ round' = round
        \/ /\ batch' = [batch EXCEPT ![t] = Tail(batch[t])]
           /\ c \in Elements(round[t].order)
           /\ round' = [round EXCEPT ![t] = [order |-> round[t].order, accepted |-> accepted]]
    BY <1>5 DEF HandleToolResult, Leave
  <2>3. batch \in [Turn -> Seq(Result)] /\ batch[t] \in Seq(Result) BY DEF RoundTypes
  <2>4. Head(batch[t]) \in Result /\ Tail(batch[t]) \in Seq(Result) BY <2>1, <2>3
  <2>5. status \in Status BY <2>4 DEF Result
  <2>6. batch' \in [Turn -> Seq(Result)]
    <3>1. CASE batch' = [batch EXCEPT ![t] = <<>>] BY <2>3, <3>1, UpdateSeq
    <3>2. CASE batch' = [batch EXCEPT ![t] = Tail(batch[t])] BY <2>3, <2>4, <3>2, Update
    <3> QED BY <2>2, <3>1, <3>2
  <2>7. CASE round' = round BY <2>6, <2>7 DEF RoundTypes, Accepted
  <2>8. CASE /\ c \in Elements(round[t].order)
             /\ round' = [round EXCEPT ![t] = [order |-> round[t].order, accepted |-> accepted]]
    <3> PICK S : S = Accepted(t) \cup {c} OBVIOUS
    <3>1. S \subseteq Elements(round[t].order) /\ S \in SUBSET Call /\ round[t].order \in Seq(Call)
      BY <2>8, RoundParts
    <3>2. accepted \in [S -> Status] BY <2>5, RoundParts
    <3> QED BY <2>6, <2>8, <3>1, <3>2, RoundSet
  <2> QED BY <2>2, <2>7, <2>8
<1>6. ASSUME NEW t \in Turn, InterpretAppend(t) PROVE RoundTypes'
  <2>1. UNCHANGED round /\ (batch' = batch \/ batch' = [batch EXCEPT ![t] = <<>>])
    BY <1>6 DEF InterpretAppend, Leave, Terminate, Fail, At
  <2> QED BY <2>1, BatchKept
<1>7. ASSUME NEW t \in Turn, InterpretRequestTool(t) PROVE RoundTypes'
  <2> PICK c : c = todo[t][1].arg OBVIOUS
  <2>1. At(t, "RequestTool") BY <1>7 DEF InterpretRequestTool
  <2>2. \/ round' = [round EXCEPT ![t].order = Append(round[t].order, c)] /\ batch' = batch
        \/ round' = round /\ batch' = [batch EXCEPT ![t] = <<>>]
    BY <1>7 DEF InterpretRequestTool, Leave
  <2>3. c \in Call
    <3>1. todo[t][1] \in Work(t) /\ todo[t][1].op = "RequestTool" BY <2>1, AtWork
    <3> QED BY <3>1 DEF Work
  <2>4. CASE round' = [round EXCEPT ![t].order = Append(round[t].order, c)] /\ batch' = batch
    <3> PICK order : order = Append(round[t].order, c) OBVIOUS
    <3>1. round[t].order \in Seq(Call) /\ Accepted(t) \subseteq Elements(round[t].order) BY RoundParts
    <3>2. order \in Seq(Call) /\ Elements(round[t].order) \subseteq Elements(order)
      <4>1. /\ order \in Seq(Call) /\ Len(order) = Len(round[t].order) + 1
            /\ \A i \in 1..Len(round[t].order) : order[i] = round[t].order[i]
        BY <2>3, <3>1, AppendParts
      <4>2. Len(round[t].order) \in Nat BY <3>1
      <4>3. \A i \in 1..Len(round[t].order) : i \in 1..Len(order) BY <4>1, <4>2
      <4> QED BY <4>1, <4>3 DEF Elements
    <3>3. round[t] \in [order : Seq(Call), accepted : UNION {[D -> Status] : D \in SUBSET Call}]
      BY DEF RoundTypes
    <3> PICK S \in SUBSET Call : round[t].accepted \in [S -> Status] BY <3>3
    <3>4. S \subseteq Elements(order) BY <3>1, <3>2 DEF Accepted
    <3>5. round' = [round EXCEPT ![t] = [order |-> order, accepted |-> round[t].accepted]]
      <4> DEFINE A == Seq(Call)
                 B == UNION {[D -> Status] : D \in SUBSET Call}
      <4>1. round \in [Turn -> [order : A, accepted : B]] /\ order \in A BY <3>2 DEF RoundTypes
      <4> HIDE DEF A, B
      <4>2. round' = [round EXCEPT ![t].order = order] BY <2>4
      <4> PICK r : r = [order |-> order, accepted |-> round[t].accepted] OBVIOUS
      <4>3. /\ round' \in [Turn -> [order : A, accepted : B]]
            /\ round'[t].order = order /\ round'[t].accepted = round[t].accepted
            /\ \A u \in Turn \ {t} : round'[u] = round[u]
        BY <4>1, <4>2
      <4>4. r \in [order : A, accepted : B] /\ round'[t] = r BY <4>1, <4>3
      <4>5. round' = [round EXCEPT ![t] = r] BY <4>1, <4>3, <4>4
      <4> QED BY <4>5
    <3>6. batch' \in [Turn -> Seq(Result)] BY <2>4 DEF RoundTypes
    <3> QED BY <3>2, <3>4, <3>5, <3>6, RoundSet
  <2> QED BY <2>2, <2>4, BatchKept
<1>8. ASSUME NEW t \in Turn, InterpretDispatch(t) PROVE RoundTypes'
  <2>1. UNCHANGED round /\ (batch' = batch \/ batch' = [batch EXCEPT ![t] = <<>>])
    BY <1>8 DEF InterpretDispatch, Leave, Terminate, At
  <2> QED BY <2>1, BatchKept
<1>9. ASSUME NEW t \in Turn, InterpretRunFailed(t) PROVE RoundTypes'
  <2>1. UNCHANGED round /\ (batch' = batch \/ batch' = [batch EXCEPT ![t] = <<>>])
    BY <1>9 DEF InterpretRunFailed, Leave, Terminate, At
  <2> QED BY <2>1, BatchKept
<1>10. ASSUME NEW t \in Turn, InterpretStage(t) PROVE RoundTypes'
  <2>1. UNCHANGED round /\ (batch' = batch \/ batch' = [batch EXCEPT ![t] = <<>>])
    BY <1>10 DEF InterpretStage, At
  <2> QED BY <2>1, BatchKept
<1>11. ASSUME NEW t \in Turn, InterpretInterruptTools(t) PROVE RoundTypes'
  <2>1. UNCHANGED round /\ (batch' = batch \/ batch' = [batch EXCEPT ![t] = <<>>])
    BY <1>11 DEF InterpretInterruptTools, Leave, At
  <2> QED BY <2>1, BatchKept
<1>12. ASSUME NEW t \in Turn, InterpretCancelProvider(t) PROVE RoundTypes'
  <2>1. UNCHANGED round /\ (batch' = batch \/ batch' = [batch EXCEPT ![t] = <<>>])
    BY <1>12 DEF InterpretCancelProvider, At
  <2> QED BY <2>1, BatchKept
<1>13. ASSUME NEW t \in Turn, InterpretCloseRun(t) PROVE RoundTypes'
  <2>1. UNCHANGED round /\ (batch' = batch \/ batch' = [batch EXCEPT ![t] = <<>>])
    BY <1>13 DEF InterpretCloseRun, At
  <2> QED BY <2>1, BatchKept
<1>14. ASSUME NEW t \in Turn, InterpretStartProvider(t) PROVE RoundTypes'
  <2>1. UNCHANGED round /\ (batch' = batch \/ batch' = [batch EXCEPT ![t] = <<>>])
    BY <1>14 DEF InterpretStartProvider, Leave, Terminate, Fail, AppendRuntimeInputs, At
  <2> QED BY <2>1, BatchKept
<1>15. ASSUME NEW t \in Turn, InterpretStartModel(t) PROVE RoundTypes'
  <2>1. UNCHANGED round /\ (batch' = batch \/ batch' = [batch EXCEPT ![t] = <<>>])
    BY <1>15 DEF InterpretStartModel, Leave, Terminate, Fail, At
  <2> QED BY <2>1, BatchKept
<1>16. ASSUME NEW t \in Turn, InterpretAttemptComplete(t) PROVE RoundTypes'
  <2>0. UNCHANGED round BY <1>16 DEF InterpretAttemptComplete
  <2>1. \E w : AppendRuntimeInputs(t, w) BY <1>16 DEF InterpretAttemptComplete
  <2>2. batch' = batch \/ batch' = [batch EXCEPT ![t] = <<>>]
    BY <2>1 DEF AppendRuntimeInputs, Fail, Terminate, Leave
  <2> QED BY <2>0, <2>2, BatchKept
<1>17. ASSUME NEW t \in Turn, InterpretInspect(t) PROVE RoundTypes'
  <2>1. UNCHANGED round /\ (batch' = batch \/ batch' = [batch EXCEPT ![t] = <<>>])
    BY <1>17 DEF InterpretInspect, Leave, Terminate, Fail, RetryCompletion, At
  <2> QED BY <2>1, BatchKept
<1>18. ASSUME NEW t \in Turn, InterpretCommitPending(t) PROVE RoundTypes'
  <2>1. UNCHANGED round /\ (batch' = batch \/ batch' = [batch EXCEPT ![t] = <<>>])
    BY <1>18 DEF InterpretCommitPending, Leave, Terminate, Fail, At
  <2> QED BY <2>1, BatchKept
<1>19. ASSUME NEW t \in Turn, InterpretRunCompleted(t) PROVE RoundTypes'
  <2>1. UNCHANGED round /\ (batch' = batch \/ batch' = [batch EXCEPT ![t] = <<>>])
    BY <1>19 DEF InterpretRunCompleted, Leave, Terminate, At
  <2> QED BY <2>1, BatchKept
<1>20. ASSUME NEW t \in Turn, InterpretRespond(t) PROVE RoundTypes'
  <2>1. UNCHANGED round /\ (batch' = batch \/ batch' = [batch EXCEPT ![t] = <<>>])
    BY <1>20 DEF InterpretRespond, Leave, Terminate, Fail, At
  <2> QED BY <2>1, BatchKept
<1>21. ASSUME NEW t \in Turn, InterpretRespondCompleted(t) PROVE RoundTypes'
  <2>1. UNCHANGED round /\ (batch' = batch \/ batch' = [batch EXCEPT ![t] = <<>>])
    BY <1>21 DEF InterpretRespondCompleted, At
  <2> QED BY <2>1, BatchKept
<1>22. ASSUME NEW t \in Turn, FinishReject(t) PROVE RoundTypes'
  <2>1. UNCHANGED round /\ (batch' = batch \/ batch' = [batch EXCEPT ![t] = <<>>])
    BY <1>22 DEF FinishReject
  <2> QED BY <2>1, BatchKept
<1>23. ASSUME NEW t \in Turn, FinishMark(t) PROVE RoundTypes'
  <2>1. UNCHANGED round /\ (batch' = batch \/ batch' = [batch EXCEPT ![t] = <<>>])
    BY <1>23 DEF FinishMark
  <2> QED BY <2>1, BatchKept
<1>24. ASSUME NEW t \in Turn, FinishUnregister(t) PROVE RoundTypes'
  <2>1. UNCHANGED round /\ (batch' = batch \/ batch' = [batch EXCEPT ![t] = <<>>])
    BY <1>24 DEF FinishUnregister
  <2> QED BY <2>1, BatchKept
<1>25. ASSUME NEW t \in Turn, FinishClose(t) PROVE RoundTypes'
  <2>1. UNCHANGED round /\ (batch' = batch \/ batch' = [batch EXCEPT ![t] = <<>>])
    BY <1>25 DEF FinishClose
  <2> QED BY <2>1, BatchKept
<1>26. ASSUME NEW t \in Turn, NEW calls \in CallLists \cup {<<>>}, ProviderCompletes(t, calls) PROVE RoundTypes'
  <2>1. batch' = batch \/ batch' = [batch EXCEPT ![t] = <<>>]
    BY <1>26 DEF ProviderCompletes, BeginRecovery, CommitEvent, Leave
  <2>2. round' = round \/ round' = [round EXCEPT ![t] = NoRound]
    <3>1. round' = round \/ round' = [round EXCEPT ![t] = IF terminal[t] = "none" THEN NoRound ELSE round[t]]
      BY <1>26 DEF ProviderCompletes, BeginRecovery
    <3>2. round' = round \/ round' = [round EXCEPT ![t] = NoRound] \/ round' = [round EXCEPT ![t] = round[t]]
      BY <3>1
    <3>3. \E R : round \in [Turn -> R] BY DEF RoundTypes
    <3>4. [round EXCEPT ![t] = round[t]] = round BY <3>3
    <3> QED BY <3>2, <3>4
  <2>3. batch' \in [Turn -> Seq(Result)]
    <3>1. batch \in [Turn -> Seq(Result)] BY DEF RoundTypes
    <3> QED BY <2>1, <3>1, UpdateSeq
  <2>4. CASE round' = [round EXCEPT ![t] = NoRound]
    <3> PICK order, accepted : order = <<>> /\ accepted = [c \in {} |-> "succeeded"] OBVIOUS
    <3>1. NoRound = [order |-> order, accepted |-> accepted] BY DEF NoRound
    <3>2. order \in Seq(Call) /\ accepted \in [{} -> Status] /\ {} \in SUBSET Call
      OBVIOUS
    <3>3. {} \subseteq Elements(order) OBVIOUS
    <3> QED BY <2>3, <2>4, <3>1, <3>2, <3>3, RoundSet
  <2> QED BY <2>1, <2>2, <2>4, BatchKept
<1>27. ASSUME NEW t \in Turn, ProviderMalformed(t) PROVE RoundTypes'
  <2>1. UNCHANGED round /\ (batch' = batch \/ batch' = [batch EXCEPT ![t] = <<>>])
    BY <1>27 DEF ProviderMalformed, Leave, CommitEvent, StreamEnds, BeginRecovery, Selecting
  <2> QED BY <2>1, BatchKept
<1>28. ASSUME NEW t \in Turn, ProviderFails(t) PROVE RoundTypes'
  <2>1. UNCHANGED round /\ (batch' = batch \/ batch' = [batch EXCEPT ![t] = <<>>])
    BY <1>28 DEF ProviderFails, Leave, CommitEvent, StreamEnds, Selecting
  <2> QED BY <2>1, BatchKept
<1>29. ASSUME NEW t \in Turn, AdmitTurn(t) PROVE RoundTypes'
  <2>1. UNCHANGED round /\ (batch' = batch \/ batch' = [batch EXCEPT ![t] = <<>>])
    BY <1>29 DEF AdmitTurn
  <2> QED BY <2>1, BatchKept
<1>30. ASSUME NEW t \in Turn, WaitFinished(t) PROVE RoundTypes'
  <2>1. UNCHANGED round /\ (batch' = batch \/ batch' = [batch EXCEPT ![t] = <<>>])
    BY <1>30 DEF WaitFinished
  <2> QED BY <2>1, BatchKept
<1>31. ASSUME NEW t \in Turn, NEW c \in Call, NEW status \in {"succeeded", "failed"}, RouteToolResult(t, c, status) PROVE RoundTypes'
  <2>1. UNCHANGED round /\ (batch' = batch \/ batch' = [batch EXCEPT ![t] = <<>>])
    BY <1>31 DEF RouteToolResult
  <2> QED BY <2>1, BatchKept
<1>32. ASSUME CloseResults PROVE RoundTypes'
  <2>1. UNCHANGED <<batch, round>> BY <1>32 DEF CloseResults
  <2> QED BY <2>1 DEF RoundTypes, Accepted
<1>33. ASSUME PublishClosed PROVE RoundTypes'
  <2>1. UNCHANGED <<batch, round>> BY <1>33 DEF PublishClosed
  <2> QED BY <2>1 DEF RoundTypes, Accepted
<1>34. ASSUME MarkClosed PROVE RoundTypes'
  <2>1. UNCHANGED <<batch, round>> BY <1>34 DEF MarkClosed
  <2> QED BY <2>1 DEF RoundTypes, Accepted
<1>35. ASSUME UnregisterClosed PROVE RoundTypes'
  <2>1. UNCHANGED <<batch, round>> BY <1>35 DEF UnregisterClosed
  <2> QED BY <2>1 DEF RoundTypes, Accepted
<1>36. ASSUME NEW t \in Turn, Interrupt(t) PROVE RoundTypes'
  <2>1. UNCHANGED round /\ (batch' = batch \/ batch' = [batch EXCEPT ![t] = <<>>])
    BY <1>36 DEF Interrupt
  <2> QED BY <2>1, BatchKept
<1>37. ASSUME NEW t \in Turn, CancelTurn(t) PROVE RoundTypes'
  <2>1. UNCHANGED round /\ (batch' = batch \/ batch' = [batch EXCEPT ![t] = <<>>])
    BY <1>37 DEF CancelTurn
  <2> QED BY <2>1, BatchKept
<1>38. ASSUME CancelRuntime PROVE RoundTypes'
  <2>1. UNCHANGED <<batch, round>> BY <1>38 DEF CancelRuntime
  <2> QED BY <2>1 DEF RoundTypes, Accepted
<1>39. ASSUME NEW i \in Input, NEW t \in Turn, InjectRuntimeMessage(i, t) PROVE RoundTypes'
  <2>1. UNCHANGED round /\ (batch' = batch \/ batch' = [batch EXCEPT ![t] = <<>>])
    BY <1>39 DEF InjectRuntimeMessage, callerUntouched
  <2> QED BY <2>1, BatchKept
<1>40. ASSUME NEW i \in Input, EnqueueRuntimeInput(i) PROVE RoundTypes'
  <2>1. UNCHANGED <<batch, round>> BY <1>40 DEF EnqueueRuntimeInput, callerUntouched
  <2> QED BY <2>1 DEF RoundTypes, Accepted
<1>41. CASE UNCHANGED vars
  <2>1. UNCHANGED <<batch, round>> BY <1>41 DEF vars
  <2> QED BY <2>1 DEF RoundTypes, Accepted
<1> QED
  BY <1>1, <1>2, <1>3, <1>4, <1>5, <1>6, <1>7, <1>8, <1>9, <1>10, <1>11, <1>12, <1>13, <1>14,
     <1>15, <1>16, <1>17, <1>18, <1>19, <1>20, <1>21, <1>22, <1>23, <1>24, <1>25, <1>26, <1>27,
     <1>28, <1>29, <1>30, <1>31, <1>32, <1>33, <1>34, <1>35, <1>36, <1>37, <1>38, <1>39, <1>40,
     <1>41, Zenon
  DEF Next, LoopStep, ProviderStep, Start, Report, Router

ProviderRest ==
  /\ provider \in [Turn -> BOOLEAN]
  /\ offered \in [Turn -> SUBSET Tools]
  /\ listed \in [Turn -> Nat]
  /\ steps \in [Turn -> Nat]
  /\ stepLimitFinalizing \in [Turn -> BOOLEAN]
  /\ recovery \in [Turn -> {"unused", "active", "used"}]
  /\ toolsRestricted \in [Turn -> BOOLEAN]
  /\ allowlist \in [Turn -> Allowlists \cup {{}}]
  /\ pendingAssistant \in [Turn -> BOOLEAN]

\* A request lists the whole transcript.
Relists == listed' = listed \/ \E t \in Turn : listed' = [listed EXCEPT ![t] = Len(messages)]

\* The offered tools are configured ones.
LEMMA OfferedIsTools ==
  ASSUME ProviderRest, NEW t \in Turn
  PROVE  OfferedTools(t) \subseteq Tools
<1>1. FinalTools \subseteq Tools BY ConstantsAssumption
<1> QED BY <1>1 DEF OfferedTools, Filter

\* The recovery of a malformed response.
LEMMA RecoveryTypes ==
  ASSUME ProviderRest, NEW t \in Turn, NEW a \in {"unused", "active", "used"},
         recovery' = [recovery EXCEPT ![t] = a], provider' = [provider EXCEPT ![t] = FALSE],
         UNCHANGED <<offered, listed, steps, stepLimitFinalizing, toolsRestricted, allowlist,
                     pendingAssistant>>
  PROVE  ProviderRest'
BY DEF ProviderRest

\* Provider rounds.
LEMMA ProviderRestKept ==
  ASSUME RuntimeTypes, ProviderRest, [Next]_vars
  PROVE  ProviderRest' /\ Relists
<1> USE DEF ProviderRest, Relists
<1>1. ASSUME NEW t \in Turn, CheckDone(t) PROVE ProviderRest' /\ Relists
  <2>1. UNCHANGED <<provider, offered, listed, steps, stepLimitFinalizing, recovery, toolsRestricted, allowlist,
                 pendingAssistant>>
    BY <1>1 DEF CheckDone
  <2> QED BY <2>1
<1>2. ASSUME NEW t \in Turn, SelectTerminal(t) PROVE ProviderRest' /\ Relists
  <2>1. UNCHANGED <<provider, offered, listed, steps, stepLimitFinalizing, recovery, toolsRestricted, allowlist,
                 pendingAssistant>>
    BY <1>2 DEF SelectTerminal, Selecting
  <2> QED BY <2>1
<1>3. ASSUME NEW t \in Turn, SelectInterrupt(t) PROVE ProviderRest' /\ Relists
  <2>1. UNCHANGED <<provider, offered, listed, steps, stepLimitFinalizing, recovery, toolsRestricted, allowlist,
                 pendingAssistant>>
    BY <1>3 DEF SelectInterrupt, Selecting
  <2> QED BY <2>1
<1>4. ASSUME NEW t \in Turn, SelectToolResults(t) PROVE ProviderRest' /\ Relists
  <2>1. UNCHANGED <<provider, offered, listed, steps, stepLimitFinalizing, recovery, toolsRestricted, allowlist,
                 pendingAssistant>>
    BY <1>4 DEF SelectToolResults, Selecting
  <2> QED BY <2>1
<1>5. ASSUME NEW t \in Turn, HandleToolResult(t) PROVE ProviderRest' /\ Relists
  <2>1. UNCHANGED <<provider, offered, listed, steps, stepLimitFinalizing, recovery, toolsRestricted, allowlist,
                 pendingAssistant>>
    BY <1>5 DEF HandleToolResult
  <2> QED BY <2>1
<1>6. ASSUME NEW t \in Turn, InterpretAppend(t) PROVE ProviderRest' /\ Relists
  <2>1. UNCHANGED <<provider, offered, listed, steps, stepLimitFinalizing, recovery, toolsRestricted, allowlist,
                 pendingAssistant>>
    BY <1>6 DEF InterpretAppend, At
  <2> QED BY <2>1
<1>7. ASSUME NEW t \in Turn, InterpretRequestTool(t) PROVE ProviderRest' /\ Relists
  <2>1. UNCHANGED <<provider, offered, listed, steps, stepLimitFinalizing, recovery, toolsRestricted, allowlist,
                 pendingAssistant>>
    BY <1>7 DEF InterpretRequestTool, At
  <2> QED BY <2>1
<1>8. ASSUME NEW t \in Turn, InterpretDispatch(t) PROVE ProviderRest' /\ Relists
  <2>1. UNCHANGED <<provider, offered, listed, steps, stepLimitFinalizing, recovery, toolsRestricted, allowlist,
                 pendingAssistant>>
    BY <1>8 DEF InterpretDispatch, At
  <2> QED BY <2>1
<1>9. ASSUME NEW t \in Turn, InterpretRunFailed(t) PROVE ProviderRest' /\ Relists
  <2>1. UNCHANGED <<provider, offered, listed, steps, stepLimitFinalizing, recovery, toolsRestricted, allowlist,
                 pendingAssistant>>
    BY <1>9 DEF InterpretRunFailed, At
  <2> QED BY <2>1
<1>10. ASSUME NEW t \in Turn, InterpretStage(t) PROVE ProviderRest' /\ Relists
  <2>1. pendingAssistant' = [pendingAssistant EXCEPT ![t] = TRUE] /\ UNCHANGED <<provider, offered, listed, steps, stepLimitFinalizing, recovery, toolsRestricted, allowlist>>
    BY <1>10 DEF InterpretStage, At
  <2> QED BY <2>1
<1>11. ASSUME NEW t \in Turn, InterpretInterruptTools(t) PROVE ProviderRest' /\ Relists
  <2>1. UNCHANGED <<provider, offered, listed, steps, stepLimitFinalizing, recovery, toolsRestricted, allowlist,
                 pendingAssistant>>
    BY <1>11 DEF InterpretInterruptTools, At
  <2> QED BY <2>1
<1>12. ASSUME NEW t \in Turn, InterpretCancelProvider(t) PROVE ProviderRest' /\ Relists
  <2>1. provider' = [provider EXCEPT ![t] = FALSE] /\ UNCHANGED <<offered, listed, steps, stepLimitFinalizing, recovery, toolsRestricted, allowlist, pendingAssistant>>
    BY <1>12 DEF InterpretCancelProvider, At
  <2> QED BY <2>1
<1>13. ASSUME NEW t \in Turn, InterpretCloseRun(t) PROVE ProviderRest' /\ Relists
  <2>1. UNCHANGED <<provider, offered, listed, steps, stepLimitFinalizing, recovery, toolsRestricted, allowlist,
                 pendingAssistant>>
    BY <1>13 DEF InterpretCloseRun, At
  <2> QED BY <2>1
<1>14. ASSUME NEW t \in Turn, InterpretStartProvider(t) PROVE ProviderRest' /\ Relists
  <2>1. UNCHANGED <<provider, offered, listed, steps, stepLimitFinalizing, recovery, toolsRestricted, allowlist,
                 pendingAssistant>>
    BY <1>14 DEF InterpretStartProvider, At
  <2> QED BY <2>1
<1>15. ASSUME NEW t \in Turn, InterpretStartModel(t) PROVE ProviderRest' /\ Relists
  <2>1. UNCHANGED <<recovery, toolsRestricted, allowlist, pendingAssistant>> BY <1>15
     DEF InterpretStartModel, At
  <2>2. stepLimitFinalizing' = [stepLimitFinalizing EXCEPT ![t] = stepLimitFinalizing[t] \/ AtStepLimit(t)]
    BY <1>15 DEF InterpretStartModel
  <2>3. stepLimitFinalizing' \in [Turn -> BOOLEAN]
    <3> PICK b \in BOOLEAN : b = AtStepLimit(t) BY DEF AtStepLimit
    <3>1. CASE b = TRUE BY <2>2, <3>1
    <3>2. CASE b = FALSE BY <2>2, <3>2
    <3> QED BY <3>1, <3>2
  <2>4. \/ UNCHANGED <<provider, offered, listed, steps>>
        \/ /\ provider' = [provider EXCEPT ![t] = TRUE]
           /\ offered' = [offered EXCEPT ![t] = OfferedTools(t)]
           /\ listed' = [listed EXCEPT ![t] = Len(messages)]
           /\ steps' = [steps EXCEPT ![t] = steps[t] + 1]
    BY <1>15 DEF InterpretStartModel
  <2>5. OfferedTools(t) \in SUBSET Tools BY OfferedIsTools
  <2>6. Len(messages) \in Nat BY DEF RuntimeTypes
  <2>7. provider' \in [Turn -> BOOLEAN] /\ listed' \in [Turn -> Nat] /\ steps' \in [Turn -> Nat]
    <3>1. steps[t] + 1 \in Nat OBVIOUS
    <3>2. listed' \in [Turn -> Nat] BY <2>4, <2>6, Update, ZenonT(40)
    <3>3. steps' \in [Turn -> Nat] BY <2>4, <3>1, Update, ZenonT(40)
    <3>4. provider' \in [Turn -> BOOLEAN] BY <2>4
    <3> QED BY <3>2, <3>3, <3>4
  <2>8. offered' \in [Turn -> SUBSET Tools] BY <2>4, <2>5, ZenonT(40)
  <2>9. Relists BY <2>4 DEF Relists
  <2> HIDE DEF Relists
  <2> QED BY <2>1, <2>3, <2>7, <2>8, <2>9
<1>16. ASSUME NEW t \in Turn, InterpretAttemptComplete(t) PROVE ProviderRest' /\ Relists
  <2> PICK b \in BOOLEAN : b = (messages' = messages) OBVIOUS
  <2>1. pendingAssistant' = [pendingAssistant EXCEPT ![t] = pendingAssistant[t] /\ b]
    BY <1>16 DEF InterpretAttemptComplete
  <2>2. UNCHANGED <<provider, offered, listed, steps, stepLimitFinalizing, recovery, toolsRestricted, allowlist>>
    BY <1>16 DEF InterpretAttemptComplete, At
  <2>3. pendingAssistant' \in [Turn -> BOOLEAN]
    <3>1. CASE b = TRUE BY <2>1, <3>1
    <3>2. CASE b = FALSE BY <2>1, <3>2
    <3> QED BY <3>1, <3>2
  <2> QED BY <2>2, <2>3
<1>17. ASSUME NEW t \in Turn, InterpretInspect(t) PROVE ProviderRest' /\ Relists
  <2>1. UNCHANGED <<provider, offered, listed, steps, stepLimitFinalizing, recovery>> BY <1>17
     DEF InterpretInspect, RetryCompletion, At
  <2>2. pendingAssistant' \in [Turn -> BOOLEAN]
    <3>1. \/ UNCHANGED pendingAssistant \/ pendingAssistant' = [pendingAssistant EXCEPT ![t] = FALSE]
          \/ \E keep \in BOOLEAN : pendingAssistant' = [pendingAssistant EXCEPT ![t] = pendingAssistant[t] /\ keep]
      BY <1>17 DEF InterpretInspect, RetryCompletion
    <3>2. ASSUME NEW keep \in BOOLEAN,
                 pendingAssistant' = [pendingAssistant EXCEPT ![t] = pendingAssistant[t] /\ keep]
          PROVE  pendingAssistant' \in [Turn -> BOOLEAN]
      <4>1. CASE keep = TRUE BY <3>2, <4>1
      <4>2. CASE keep = FALSE BY <3>2, <4>2
      <4> QED BY <4>1, <4>2
    <3> QED BY <3>1, <3>2
  <2>3. toolsRestricted' \in [Turn -> BOOLEAN] /\ allowlist' \in [Turn -> Allowlists \cup {{}}]
    <3>1. \/ UNCHANGED <<toolsRestricted, allowlist>>
          \/ /\ toolsRestricted' = [toolsRestricted EXCEPT ![t] = TRUE]
             /\ \E a \in Allowlists : allowlist' = [allowlist EXCEPT ![t] = a]
      BY <1>17 DEF InterpretInspect, RetryCompletion
    <3> QED BY <3>1
  <2> QED BY <2>1, <2>2, <2>3
<1>18. ASSUME NEW t \in Turn, InterpretCommitPending(t) PROVE ProviderRest' /\ Relists
  <2>1. /\ pendingAssistant' = [pendingAssistant EXCEPT ![t] = FALSE] \/ UNCHANGED pendingAssistant
        /\ UNCHANGED <<provider, offered, listed, steps, stepLimitFinalizing, recovery, toolsRestricted, allowlist>>
    BY <1>18 DEF InterpretCommitPending, At
  <2> QED BY <2>1
<1>19. ASSUME NEW t \in Turn, InterpretRunCompleted(t) PROVE ProviderRest' /\ Relists
  <2>1. UNCHANGED <<provider, offered, listed, steps, stepLimitFinalizing, recovery, toolsRestricted, allowlist,
                 pendingAssistant>>
    BY <1>19 DEF InterpretRunCompleted, At
  <2> QED BY <2>1
<1>20. ASSUME NEW t \in Turn, InterpretRespond(t) PROVE ProviderRest' /\ Relists
  <2>1. UNCHANGED <<provider, offered, listed, steps, stepLimitFinalizing, recovery, toolsRestricted, allowlist,
                 pendingAssistant>>
    BY <1>20 DEF InterpretRespond, At
  <2> QED BY <2>1
<1>21. ASSUME NEW t \in Turn, InterpretRespondCompleted(t) PROVE ProviderRest' /\ Relists
  <2>1. UNCHANGED <<provider, offered, listed, steps, stepLimitFinalizing, recovery, toolsRestricted, allowlist,
                 pendingAssistant>>
    BY <1>21 DEF InterpretRespondCompleted, At
  <2> QED BY <2>1
<1>22. ASSUME NEW t \in Turn, FinishReject(t) PROVE ProviderRest' /\ Relists
  <2>1. provider' = [provider EXCEPT ![t] = FALSE] /\ UNCHANGED <<offered, listed, steps, stepLimitFinalizing, recovery, toolsRestricted, allowlist, pendingAssistant>>
    BY <1>22 DEF FinishReject
  <2> QED BY <2>1
<1>23. ASSUME NEW t \in Turn, FinishMark(t) PROVE ProviderRest' /\ Relists
  <2>1. UNCHANGED <<provider, offered, listed, steps, stepLimitFinalizing, recovery, toolsRestricted, allowlist,
                 pendingAssistant>>
    BY <1>23 DEF FinishMark
  <2> QED BY <2>1
<1>24. ASSUME NEW t \in Turn, FinishUnregister(t) PROVE ProviderRest' /\ Relists
  <2>1. UNCHANGED <<provider, offered, listed, steps, stepLimitFinalizing, recovery, toolsRestricted, allowlist,
                 pendingAssistant>>
    BY <1>24 DEF FinishUnregister
  <2> QED BY <2>1
<1>25. ASSUME NEW t \in Turn, FinishClose(t) PROVE ProviderRest' /\ Relists
  <2>1. UNCHANGED <<provider, offered, listed, steps, stepLimitFinalizing, recovery, toolsRestricted, allowlist,
                 pendingAssistant>>
    BY <1>25 DEF FinishClose
  <2> QED BY <2>1
<1>26. ASSUME NEW t \in Turn, NEW calls \in CallLists \cup {<<>>}, ProviderCompletes(t, calls) PROVE ProviderRest' /\ Relists
  <2>1. provider' = [provider EXCEPT ![t] = FALSE] /\ UNCHANGED <<offered, listed, steps, stepLimitFinalizing, toolsRestricted, allowlist, pendingAssistant>>
    BY <1>26 DEF ProviderCompletes, StreamEnds, BeginRecovery, FinishRecovery, Selecting
  <2>2. \E a \in {"unused", "active", "used"} : recovery' = [recovery EXCEPT ![t] = a]
    <3>1. recovery[t] \in {"unused", "active", "used"} OBVIOUS
    <3> QED BY <1>26, <3>1 DEF ProviderCompletes, BeginRecovery, FinishRecovery
  <2> QED BY <2>1, <2>2, RecoveryTypes
<1>27. ASSUME NEW t \in Turn, ProviderMalformed(t) PROVE ProviderRest' /\ Relists
  <2>1. provider' = [provider EXCEPT ![t] = FALSE] /\ UNCHANGED <<offered, listed, steps, stepLimitFinalizing, toolsRestricted, allowlist, pendingAssistant>>
    BY <1>27 DEF ProviderMalformed, StreamEnds, BeginRecovery, Selecting
  <2>2. \E a \in {"unused", "active", "used"} : recovery' = [recovery EXCEPT ![t] = a]
    <3>1. recovery[t] \in {"unused", "active", "used"} OBVIOUS
    <3> QED BY <1>27, <3>1 DEF ProviderMalformed, BeginRecovery, FinishRecovery
  <2> QED BY <2>1, <2>2, RecoveryTypes
<1>28. ASSUME NEW t \in Turn, ProviderFails(t) PROVE ProviderRest' /\ Relists
  <2>1. provider' = [provider EXCEPT ![t] = FALSE] /\ UNCHANGED <<offered, listed, steps, stepLimitFinalizing, recovery, toolsRestricted, allowlist, pendingAssistant>>
    BY <1>28 DEF ProviderFails, StreamEnds, Selecting
  <2> QED BY <2>1
<1>29. ASSUME NEW t \in Turn, AdmitTurn(t) PROVE ProviderRest' /\ Relists
  <2>1. UNCHANGED <<provider, offered, listed, steps, stepLimitFinalizing, recovery, toolsRestricted, allowlist,
                 pendingAssistant>>
    BY <1>29 DEF AdmitTurn
  <2> QED BY <2>1
<1>30. ASSUME NEW t \in Turn, WaitFinished(t) PROVE ProviderRest' /\ Relists
  <2>1. UNCHANGED <<provider, offered, listed, steps, stepLimitFinalizing, recovery, toolsRestricted, allowlist,
                 pendingAssistant>>
    BY <1>30 DEF WaitFinished
  <2> QED BY <2>1
<1>31. ASSUME NEW t \in Turn, NEW c \in Call, NEW status \in {"succeeded", "failed"}, RouteToolResult(t, c, status) PROVE ProviderRest' /\ Relists
  <2>1. UNCHANGED <<provider, offered, listed, steps, stepLimitFinalizing, recovery, toolsRestricted, allowlist,
                 pendingAssistant>>
    BY <1>31 DEF RouteToolResult
  <2> QED BY <2>1
<1>32. ASSUME CloseResults PROVE ProviderRest' /\ Relists
  <2>1. UNCHANGED <<provider, offered, listed, steps, stepLimitFinalizing, recovery, toolsRestricted, allowlist,
                 pendingAssistant>>
    BY <1>32 DEF CloseResults
  <2> QED BY <2>1
<1>33. ASSUME PublishClosed PROVE ProviderRest' /\ Relists
  <2>1. UNCHANGED <<provider, offered, listed, steps, stepLimitFinalizing, recovery, toolsRestricted, allowlist,
                 pendingAssistant>>
    BY <1>33 DEF PublishClosed
  <2> QED BY <2>1
<1>34. ASSUME MarkClosed PROVE ProviderRest' /\ Relists
  <2>1. UNCHANGED <<provider, offered, listed, steps, stepLimitFinalizing, recovery, toolsRestricted, allowlist,
                 pendingAssistant>>
    BY <1>34 DEF MarkClosed
  <2> QED BY <2>1
<1>35. ASSUME UnregisterClosed PROVE ProviderRest' /\ Relists
  <2>1. UNCHANGED <<provider, offered, listed, steps, stepLimitFinalizing, recovery, toolsRestricted, allowlist,
                 pendingAssistant>>
    BY <1>35 DEF UnregisterClosed
  <2> QED BY <2>1
<1>36. ASSUME NEW t \in Turn, Interrupt(t) PROVE ProviderRest' /\ Relists
  <2>1. UNCHANGED <<provider, offered, listed, steps, stepLimitFinalizing, recovery, toolsRestricted, allowlist,
                 pendingAssistant>>
    BY <1>36 DEF Interrupt
  <2> QED BY <2>1
<1>37. ASSUME NEW t \in Turn, CancelTurn(t) PROVE ProviderRest' /\ Relists
  <2>1. UNCHANGED <<provider, offered, listed, steps, stepLimitFinalizing, recovery, toolsRestricted, allowlist,
                 pendingAssistant>>
    BY <1>37 DEF CancelTurn
  <2> QED BY <2>1
<1>38. ASSUME CancelRuntime PROVE ProviderRest' /\ Relists
  <2>1. UNCHANGED <<provider, offered, listed, steps, stepLimitFinalizing, recovery, toolsRestricted, allowlist,
                 pendingAssistant>>
    BY <1>38 DEF CancelRuntime
  <2> QED BY <2>1
<1>39. ASSUME NEW i \in Input, NEW t \in Turn, InjectRuntimeMessage(i, t) PROVE ProviderRest' /\ Relists
  <2>1. UNCHANGED <<provider, offered, listed, steps, stepLimitFinalizing, recovery, toolsRestricted, allowlist,
                 pendingAssistant>>
    BY <1>39 DEF InjectRuntimeMessage, callerUntouched
  <2> QED BY <2>1
<1>40. ASSUME NEW i \in Input, EnqueueRuntimeInput(i) PROVE ProviderRest' /\ Relists
  <2>1. UNCHANGED <<provider, offered, listed, steps, stepLimitFinalizing, recovery, toolsRestricted, allowlist,
                 pendingAssistant>>
    BY <1>40 DEF EnqueueRuntimeInput, callerUntouched
  <2> QED BY <2>1
<1>41. CASE UNCHANGED vars
  <2>1. UNCHANGED <<provider, offered, listed, steps, stepLimitFinalizing, recovery, toolsRestricted, allowlist,
                 pendingAssistant>>
    BY <1>41 DEF vars
  <2> QED BY <2>1
<1> QED
  BY <1>1, <1>2, <1>3, <1>4, <1>5, <1>6, <1>7, <1>8, <1>9, <1>10, <1>11, <1>12, <1>13, <1>14,
     <1>15, <1>16, <1>17, <1>18, <1>19, <1>20, <1>21, <1>22, <1>23, <1>24, <1>25, <1>26, <1>27,
     <1>28, <1>29, <1>30, <1>31, <1>32, <1>33, <1>34, <1>35, <1>36, <1>37, <1>38, <1>39, <1>40,
     <1>41, Zenon
  DEF Next, LoopStep, ProviderStep, Start, Report, Router

\* Results and requests.
LEMMA QueueRestKept ==
  ASSUME TodoTypes, WorkInv, QueueRest, [Next]_vars
  PROVE  QueueRest'
<1> USE DEF QueueRest
<1>1. ASSUME NEW t \in Turn, CheckDone(t) PROVE QueueRest'
  <2>1. UNCHANGED <<toolResults, outstanding, repeats, control, ctxDone>>
    BY <1>1 DEF CheckDone
  <2> QED BY <2>1
<1>2. ASSUME NEW t \in Turn, SelectTerminal(t) PROVE QueueRest'
  <2>1. UNCHANGED <<toolResults, outstanding, repeats, control, ctxDone>>
    BY <1>2 DEF SelectTerminal, Selecting
  <2> QED BY <2>1
<1>3. ASSUME NEW t \in Turn, SelectInterrupt(t) PROVE QueueRest'
  <2>1. /\ UNCHANGED <<toolResults, outstanding, repeats, ctxDone>>
        /\ control' = [control EXCEPT ![t] = "taken"] \/ UNCHANGED control
    BY <1>3 DEF SelectInterrupt, Selecting
  <2> QED BY <2>1
<1>4. ASSUME NEW t \in Turn, SelectToolResults(t) PROVE QueueRest'
  <2>1. toolResults' = [toolResults EXCEPT ![t] = <<>>] /\ UNCHANGED <<outstanding, repeats, control, ctxDone>>
    BY <1>4 DEF SelectToolResults, Selecting
  <2>2. toolResults' \in [Turn -> Seq(Result)] BY <2>1, UpdateSeq
  <2> QED BY <2>1, <2>2
<1>5. ASSUME NEW t \in Turn, HandleToolResult(t) PROVE QueueRest'
  <2>1. UNCHANGED <<toolResults, outstanding, repeats, control, ctxDone>>
    BY <1>5 DEF HandleToolResult
  <2> QED BY <2>1
<1>6. ASSUME NEW t \in Turn, InterpretAppend(t) PROVE QueueRest'
  <2>1. UNCHANGED <<toolResults, outstanding, repeats, control, ctxDone>>
    BY <1>6 DEF InterpretAppend, At
  <2> QED BY <2>1
<1>7. ASSUME NEW t \in Turn, InterpretRequestTool(t) PROVE QueueRest'
  <2>1. UNCHANGED <<toolResults, outstanding, repeats, control, ctxDone>>
    BY <1>7 DEF InterpretRequestTool, At
  <2> QED BY <2>1
<1>8. ASSUME NEW t \in Turn, InterpretDispatch(t) PROVE QueueRest'
  <2> PICK c : c = todo[t][1].arg OBVIOUS
  <2>1. /\ UNCHANGED <<toolResults, repeats, control, ctxDone>>
        /\ outstanding' = [outstanding EXCEPT ![t] = outstanding[t] \cup {c}] \/ UNCHANGED outstanding
    BY <1>8 DEF InterpretDispatch, At
  <2>2. At(t, "DispatchTool") BY <1>8 DEF InterpretDispatch
  <2>3. c \in Call
    <3>1. todo[t][1] \in Work(t) /\ todo[t][1].op = "DispatchTool" BY <2>2, AtWork
    <3> QED BY <3>1 DEF Work
  <2>4. outstanding' \in [Turn -> SUBSET Call]
    <3>1. outstanding[t] \cup {c} \in SUBSET Call BY <2>3
    <3> QED BY <2>1, <3>1
  <2> QED BY <2>1, <2>4
<1>9. ASSUME NEW t \in Turn, InterpretRunFailed(t) PROVE QueueRest'
  <2>1. UNCHANGED <<toolResults, outstanding, repeats, control, ctxDone>>
    BY <1>9 DEF InterpretRunFailed, At
  <2> QED BY <2>1
<1>10. ASSUME NEW t \in Turn, InterpretStage(t) PROVE QueueRest'
  <2>1. UNCHANGED <<toolResults, outstanding, repeats, control, ctxDone>>
    BY <1>10 DEF InterpretStage, At
  <2> QED BY <2>1
<1>11. ASSUME NEW t \in Turn, InterpretInterruptTools(t) PROVE QueueRest'
  <2>1. UNCHANGED <<toolResults, outstanding, repeats, control, ctxDone>>
    BY <1>11 DEF InterpretInterruptTools, At
  <2> QED BY <2>1
<1>12. ASSUME NEW t \in Turn, InterpretCancelProvider(t) PROVE QueueRest'
  <2>1. UNCHANGED <<toolResults, outstanding, repeats, control, ctxDone>>
    BY <1>12 DEF InterpretCancelProvider, At
  <2> QED BY <2>1
<1>13. ASSUME NEW t \in Turn, InterpretCloseRun(t) PROVE QueueRest'
  <2>1. UNCHANGED <<toolResults, outstanding, repeats, control, ctxDone>>
    BY <1>13 DEF InterpretCloseRun, At
  <2> QED BY <2>1
<1>14. ASSUME NEW t \in Turn, InterpretStartProvider(t) PROVE QueueRest'
  <2>1. UNCHANGED <<toolResults, outstanding, repeats, control, ctxDone>>
    BY <1>14 DEF InterpretStartProvider, At
  <2> QED BY <2>1
<1>15. ASSUME NEW t \in Turn, InterpretStartModel(t) PROVE QueueRest'
  <2>1. UNCHANGED <<toolResults, outstanding, repeats, control, ctxDone>>
    BY <1>15 DEF InterpretStartModel, At
  <2> QED BY <2>1
<1>16. ASSUME NEW t \in Turn, InterpretAttemptComplete(t) PROVE QueueRest'
  <2>1. UNCHANGED <<toolResults, outstanding, repeats, control, ctxDone>>
    BY <1>16 DEF InterpretAttemptComplete, At
  <2> QED BY <2>1
<1>17. ASSUME NEW t \in Turn, InterpretInspect(t) PROVE QueueRest'
  <2>1. UNCHANGED <<toolResults, outstanding, repeats, control, ctxDone>>
    BY <1>17 DEF InterpretInspect, RetryCompletion, At
  <2> QED BY <2>1
<1>18. ASSUME NEW t \in Turn, InterpretCommitPending(t) PROVE QueueRest'
  <2>1. UNCHANGED <<toolResults, outstanding, repeats, control, ctxDone>>
    BY <1>18 DEF InterpretCommitPending, At
  <2> QED BY <2>1
<1>19. ASSUME NEW t \in Turn, InterpretRunCompleted(t) PROVE QueueRest'
  <2>1. UNCHANGED <<toolResults, outstanding, repeats, control, ctxDone>>
    BY <1>19 DEF InterpretRunCompleted, At
  <2> QED BY <2>1
<1>20. ASSUME NEW t \in Turn, InterpretRespond(t) PROVE QueueRest'
  <2>1. UNCHANGED <<toolResults, outstanding, repeats, control, ctxDone>>
    BY <1>20 DEF InterpretRespond, At
  <2> QED BY <2>1
<1>21. ASSUME NEW t \in Turn, InterpretRespondCompleted(t) PROVE QueueRest'
  <2>1. UNCHANGED <<toolResults, outstanding, repeats, control, ctxDone>>
    BY <1>21 DEF InterpretRespondCompleted, At
  <2> QED BY <2>1
<1>22. ASSUME NEW t \in Turn, FinishReject(t) PROVE QueueRest'
  <2>1. UNCHANGED <<toolResults, outstanding, repeats, control, ctxDone>>
    BY <1>22 DEF FinishReject
  <2> QED BY <2>1
<1>23. ASSUME NEW t \in Turn, FinishMark(t) PROVE QueueRest'
  <2>1. UNCHANGED <<toolResults, outstanding, repeats, control, ctxDone>>
    BY <1>23 DEF FinishMark
  <2> QED BY <2>1
<1>24. ASSUME NEW t \in Turn, FinishUnregister(t) PROVE QueueRest'
  <2>1. UNCHANGED <<toolResults, outstanding, repeats, control, ctxDone>>
    BY <1>24 DEF FinishUnregister
  <2> QED BY <2>1
<1>25. ASSUME NEW t \in Turn, FinishClose(t) PROVE QueueRest'
  <2>1. UNCHANGED <<toolResults, outstanding, repeats, control, ctxDone>>
    BY <1>25 DEF FinishClose
  <2> QED BY <2>1
<1>26. ASSUME NEW t \in Turn, NEW calls \in CallLists \cup {<<>>}, ProviderCompletes(t, calls) PROVE QueueRest'
  <2>1. UNCHANGED <<toolResults, outstanding, repeats, control, ctxDone>>
    BY <1>26 DEF ProviderCompletes, StreamEnds, BeginRecovery, FinishRecovery, Selecting
  <2> QED BY <2>1
<1>27. ASSUME NEW t \in Turn, ProviderMalformed(t) PROVE QueueRest'
  <2>1. UNCHANGED <<toolResults, outstanding, repeats, control, ctxDone>>
    BY <1>27 DEF ProviderMalformed, StreamEnds, BeginRecovery, Selecting
  <2> QED BY <2>1
<1>28. ASSUME NEW t \in Turn, ProviderFails(t) PROVE QueueRest'
  <2>1. UNCHANGED <<toolResults, outstanding, repeats, control, ctxDone>>
    BY <1>28 DEF ProviderFails, StreamEnds, Selecting
  <2> QED BY <2>1
<1>29. ASSUME NEW t \in Turn, AdmitTurn(t) PROVE QueueRest'
  <2>1. UNCHANGED <<toolResults, outstanding, repeats, control, ctxDone>>
    BY <1>29 DEF AdmitTurn
  <2> QED BY <2>1
<1>30. ASSUME NEW t \in Turn, WaitFinished(t) PROVE QueueRest'
  <2>1. UNCHANGED <<toolResults, outstanding, repeats, control, ctxDone>>
    BY <1>30 DEF WaitFinished
  <2> QED BY <2>1
<1>31. ASSUME NEW t \in Turn, NEW c \in Call, NEW status \in {"succeeded", "failed"}, RouteToolResult(t, c, status) PROVE QueueRest'
  <2> PICK r : r = [call |-> c, status |-> status] OBVIOUS
  <2>1. /\ UNCHANGED <<control, ctxDone>>
        /\ outstanding' = [outstanding EXCEPT ![t] = outstanding[t] \ {c}] \/ UNCHANGED outstanding
        /\ (repeats < MaxRepeats /\ repeats' = repeats + 1) \/ UNCHANGED repeats
        /\ toolResults' = [toolResults EXCEPT ![t] = IF active = t /\ terminal[t] = "none"
                                                  THEN Append(toolResults[t], r) ELSE toolResults[t]]
    BY <1>31 DEF RouteToolResult
  <2>2. r \in Result BY DEF Result, Status
  <2>3. Append(toolResults[t], r) \in Seq(Result) /\ toolResults[t] \in Seq(Result) BY <2>2, AppendParts
  <2>4. toolResults' \in [Turn -> Seq(Result)]
    <3> PICK q : q = Append(toolResults[t], r) OBVIOUS
    <3>1. CASE active = t /\ terminal[t] = "none"
      <4>1. toolResults' = [toolResults EXCEPT ![t] = q] BY <2>1, <3>1
      <4> QED BY <2>3, <4>1, Update
    <3>2. CASE ~(active = t /\ terminal[t] = "none")
      <4>1. toolResults' = [toolResults EXCEPT ![t] = toolResults[t]] BY <2>1, <3>2
      <4> QED BY <2>3, <4>1, Update
    <3> QED BY <3>1, <3>2
  <2>5. repeats' \in 0..MaxRepeats
    <3>1. MaxRepeats \in Nat BY ConstantsAssumption
    <3> QED BY <2>1, <3>1
  <2>6. outstanding' \in [Turn -> SUBSET Call] BY <2>1
  <2> QED BY <2>1, <2>4, <2>5, <2>6
<1>32. ASSUME CloseResults PROVE QueueRest'
  <2>1. UNCHANGED <<toolResults, outstanding, repeats, control, ctxDone>>
    BY <1>32 DEF CloseResults
  <2> QED BY <2>1
<1>33. ASSUME PublishClosed PROVE QueueRest'
  <2>1. UNCHANGED <<toolResults, outstanding, repeats, control, ctxDone>>
    BY <1>33 DEF PublishClosed
  <2> QED BY <2>1
<1>34. ASSUME MarkClosed PROVE QueueRest'
  <2>1. UNCHANGED <<toolResults, outstanding, repeats, control, ctxDone>>
    BY <1>34 DEF MarkClosed
  <2> QED BY <2>1
<1>35. ASSUME UnregisterClosed PROVE QueueRest'
  <2>1. UNCHANGED <<toolResults, outstanding, repeats, control, ctxDone>>
    BY <1>35 DEF UnregisterClosed
  <2> QED BY <2>1
<1>36. ASSUME NEW t \in Turn, Interrupt(t) PROVE QueueRest'
  BY <1>36 DEF Interrupt
<1>37. ASSUME NEW t \in Turn, CancelTurn(t) PROVE QueueRest'
  BY <1>37 DEF CancelTurn
<1>38. ASSUME CancelRuntime PROVE QueueRest'
  <2>1. UNCHANGED <<toolResults, outstanding, repeats, control, ctxDone>>
    BY <1>38 DEF CancelRuntime
  <2> QED BY <2>1
<1>39. ASSUME NEW i \in Input, NEW t \in Turn, InjectRuntimeMessage(i, t) PROVE QueueRest'
  <2>1. UNCHANGED <<toolResults, outstanding, repeats, control, ctxDone>>
    BY <1>39 DEF InjectRuntimeMessage, callerUntouched
  <2> QED BY <2>1
<1>40. ASSUME NEW i \in Input, EnqueueRuntimeInput(i) PROVE QueueRest'
  <2>1. UNCHANGED <<toolResults, outstanding, repeats, control, ctxDone>>
    BY <1>40 DEF EnqueueRuntimeInput, callerUntouched
  <2> QED BY <2>1
<1>41. CASE UNCHANGED vars
  <2>1. UNCHANGED <<toolResults, outstanding, repeats, control, ctxDone>>
    BY <1>41 DEF vars
  <2> QED BY <2>1
<1> QED
  BY <1>1, <1>2, <1>3, <1>4, <1>5, <1>6, <1>7, <1>8, <1>9, <1>10, <1>11, <1>12, <1>13, <1>14,
     <1>15, <1>16, <1>17, <1>18, <1>19, <1>20, <1>21, <1>22, <1>23, <1>24, <1>25, <1>26, <1>27,
     <1>28, <1>29, <1>30, <1>31, <1>32, <1>33, <1>34, <1>35, <1>36, <1>37, <1>38, <1>39, <1>40,
     <1>41, Zenon
  DEF Next, LoopStep, ProviderStep, Start, Report, Router

-----------------------------------------------------------------------------
(* A step of a loop is about its own turn. *)

Same(u) ==
  /\ loop'[u] = loop[u] /\ todo'[u] = todo[u] /\ round'[u] = round[u]
  /\ provider'[u] = provider[u] /\ listed'[u] = listed[u] /\ terminal'[u] = terminal[u]
Local(t) ==
  /\ \A u \in Turn \ {t} : Same(u)
  /\ loop[t] \notin {"idle", "exited"} /\ loop'[t] # "idle"
  /\ loop[t] = "close" => loop'[t] = "exited"
  /\ loop[t] = "unregister" => loop'[t] = "close"

\* A loop's step and its provider's concern their own turn.
LEMMA StepIsLocal ==
  ASSUME TypeOK, NEW t \in Turn, LoopStep(t) \/ ProviderStep(t)
  PROVE  Local(t)
<1>0. /\ loop \in [Turn -> LoopPlaces] /\ terminal \in [Turn -> {"none", "completed", "failed", "interrupted"}]
      /\ provider \in [Turn -> BOOLEAN] /\ listed \in [Turn -> Nat]
      /\ \E A : todo \in [Turn -> A]
      /\ \E A : round \in [Turn -> A]
  BY DEF TypeOK, EndTypes, TodoTypes, RoundTypes, ProviderTypes
<1>1. ASSUME CheckDone(t) PROVE Local(t)
  <2>1. Local(t) BY <1>0, <1>1 DEF Local, Same, CheckDone
  <2> QED BY <2>1
<1>2. ASSUME SelectTerminal(t) PROVE Local(t)
  <2>1. Local(t) BY <1>0, <1>2 DEF Local, Same, SelectTerminal, Selecting
  <2> QED BY <2>1
<1>3. ASSUME SelectInterrupt(t) PROVE Local(t)
  <2>1. Local(t) BY <1>0, <1>3 DEF Local, Same, SelectInterrupt, Leave, Terminate, Selecting
  <2> QED BY <2>1
<1>4. ASSUME SelectToolResults(t) PROVE Local(t)
  <2>1. Local(t) BY <1>0, <1>4 DEF Local, Same, SelectToolResults, Selecting
  <2> QED BY <2>1
<1>5. ASSUME HandleToolResult(t) PROVE Local(t)
  <2>1. loop[t] = "select" /\ UNCHANGED <<provider, listed>> BY <1>5 DEF HandleToolResult
  <2>2. \/ UNCHANGED <<loop, todo, terminal>>
        \/ Leave(t)
        \/ \E w : Goto(t, w) /\ UNCHANGED terminal
    BY <1>5 DEF HandleToolResult
  <2>3. round' = round \/ \E r : round' = [round EXCEPT ![t] = r] BY <1>5 DEF HandleToolResult
  <2>4. Local(t) BY <1>0, <2>1, <2>2, <2>3 DEF Local, Same, Goto, After, Leave
  <2> QED BY <2>4
<1>6. ASSUME InterpretAppend(t) PROVE Local(t)
  <2>1. Local(t) BY <1>0, <1>6 DEF Local, Same, InterpretAppend, Goto, Proceed, Leave, Terminate,
     Fail, At, After
  <2> QED BY <2>1
<1>7. ASSUME InterpretRequestTool(t) PROVE Local(t)
  <2>1. loop[t] \in {"effect", "closing"} /\ UNCHANGED <<provider, listed>> BY <1>7
     DEF InterpretRequestTool, At
  <2>2. \/ Leave(t)
        \/ \E w : Goto(t, w) /\ UNCHANGED terminal
    BY <1>7 DEF InterpretRequestTool
  <2>3. round' = round \/ \E r : round' = [round EXCEPT ![t] = r] BY <1>7 DEF InterpretRequestTool
  <2>4. Local(t) BY <1>0, <2>1, <2>2, <2>3 DEF Local, Same, Goto, After, Leave
  <2> QED BY <2>4
<1>8. ASSUME InterpretDispatch(t) PROVE Local(t)
  <2>1. Local(t) BY <1>0, <1>8 DEF Local, Same, InterpretDispatch, Goto, Proceed, Leave, Terminate,
     At, After
  <2> QED BY <2>1
<1>9. ASSUME InterpretRunFailed(t) PROVE Local(t)
  <2>1. Local(t) BY <1>0, <1>9 DEF Local, Same, InterpretRunFailed, Leave, Terminate, At
  <2> QED BY <2>1
<1>10. ASSUME InterpretStage(t) PROVE Local(t)
  <2>1. Local(t) BY <1>0, <1>10 DEF Local, Same, InterpretStage, Goto, Proceed, At, After
  <2> QED BY <2>1
<1>11. ASSUME InterpretInterruptTools(t) PROVE Local(t)
  <2>1. Local(t) BY <1>0, <1>11 DEF Local, Same, InterpretInterruptTools, Goto, Proceed, Leave, At,
     After
  <2> QED BY <2>1
<1>12. ASSUME InterpretCancelProvider(t) PROVE Local(t)
  <2>1. Local(t) BY <1>0, <1>12 DEF Local, Same, InterpretCancelProvider, Goto, Proceed, At, After
  <2> QED BY <2>1
<1>13. ASSUME InterpretCloseRun(t) PROVE Local(t)
  <2>1. Local(t) BY <1>0, <1>13 DEF Local, Same, InterpretCloseRun, At
  <2> QED BY <2>1
<1>14. ASSUME InterpretStartProvider(t) PROVE Local(t)
  <2>1. Local(t) BY <1>0, <1>14 DEF Local, Same, InterpretStartProvider, Goto, Leave, Terminate,
     Fail, AppendRuntimeInputs, At, After
  <2> QED BY <2>1
<1>15. ASSUME InterpretStartModel(t) PROVE Local(t)
  <2>1. Local(t) BY <1>0, <1>15 DEF Local, Same, InterpretStartModel, Goto, Proceed, Leave,
     Terminate, Fail, At, After
  <2> QED BY <2>1
<1>16. ASSUME InterpretAttemptComplete(t) PROVE Local(t)
  <2> PICK w : w = <<Effect(IF runtimeInputs[t] = <<>> THEN "Inspect" ELSE "RestartProvider")>> OBVIOUS
  <2>0. AppendRuntimeInputs(t, w) BY <1>16 DEF InterpretAttemptComplete
  <2>1. (Goto(t, w) /\ UNCHANGED terminal) \/ Fail(t) BY <2>0 DEF AppendRuntimeInputs
  <2>2. loop[t] \in {"effect", "closing"} /\ UNCHANGED <<round, provider, listed>>
    BY <1>16 DEF InterpretAttemptComplete, At
  <2>3. Local(t) BY <1>0, <2>1, <2>2 DEF Local, Same, Goto, After, Fail, Terminate, Leave
  <2> QED BY <2>3
<1>17. ASSUME InterpretInspect(t) PROVE Local(t)
  <2>1. Local(t) BY <1>0, <1>17 DEF Local, Same, InterpretInspect, Goto, Leave, Terminate, Fail,
     RetryCompletion, At, After
  <2> QED BY <2>1
<1>18. ASSUME InterpretCommitPending(t) PROVE Local(t)
  <2>1. Local(t) BY <1>0, <1>18 DEF Local, Same, InterpretCommitPending, Goto, Proceed, Leave,
     Terminate, Fail, At, After
  <2> QED BY <2>1
<1>19. ASSUME InterpretRunCompleted(t) PROVE Local(t)
  <2>1. Local(t) BY <1>0, <1>19 DEF Local, Same, InterpretRunCompleted, Leave, Terminate, At
  <2> QED BY <2>1
<1>20. ASSUME InterpretRespond(t) PROVE Local(t)
  <2>1. Local(t) BY <1>0, <1>20 DEF Local, Same, InterpretRespond, Goto, Leave, Terminate, Fail,
     At, After
  <2> QED BY <2>1
<1>21. ASSUME InterpretRespondCompleted(t) PROVE Local(t)
  <2>1. Local(t) BY <1>0, <1>21 DEF Local, Same, InterpretRespondCompleted, At
  <2> QED BY <2>1
<1>22. ASSUME FinishReject(t) PROVE Local(t)
  <2>1. Local(t) BY <1>0, <1>22 DEF Local, Same, FinishReject
  <2> QED BY <2>1
<1>23. ASSUME FinishMark(t) PROVE Local(t)
  <2>1. Local(t) BY <1>0, <1>23 DEF Local, Same, FinishMark
  <2> QED BY <2>1
<1>24. ASSUME FinishUnregister(t) PROVE Local(t)
  <2>1. Local(t) BY <1>0, <1>24 DEF Local, Same, FinishUnregister
  <2> QED BY <2>1
<1>25. ASSUME FinishClose(t) PROVE Local(t)
  <2>1. Local(t) BY <1>0, <1>25 DEF Local, Same, FinishClose
  <2> QED BY <2>1
<1>26. ASSUME NEW calls \in CallLists \cup {<<>>}, ProviderCompletes(t, calls) PROVE Local(t)
  <2>1. loop[t] = "select" /\ UNCHANGED listed /\ provider' = [provider EXCEPT ![t] = FALSE]
    BY <1>26 DEF ProviderCompletes, StreamEnds, Selecting
  <2>2. \/ Leave(t)
        \/ \E w : Goto(t, w) /\ UNCHANGED terminal
    BY <1>26 DEF ProviderCompletes, BeginRecovery, CommitEvent
  <2>3. round' = round \/ \E r : round' = [round EXCEPT ![t] = r] BY <1>26 DEF ProviderCompletes
  <2>4. Local(t) BY <1>0, <2>1, <2>2, <2>3 DEF Local, Same, Goto, After, Leave
  <2> QED BY <2>4
<1>27. ASSUME ProviderMalformed(t) PROVE Local(t)
  <2>1. Local(t) BY <1>0, <1>27 DEF Local, Same, ProviderMalformed, Goto, Leave, CommitEvent,
     StreamEnds, BeginRecovery, Selecting, After
  <2> QED BY <2>1
<1>28. ASSUME ProviderFails(t) PROVE Local(t)
  <2>1. Local(t) BY <1>0, <1>28 DEF Local, Same, ProviderFails, Goto, Leave, CommitEvent,
     StreamEnds, Selecting, After
  <2> QED BY <2>1
<1> QED
  BY <1>1, <1>2, <1>3, <1>4, <1>5, <1>6, <1>7, <1>8, <1>9, <1>10, <1>11, <1>12, <1>13, <1>14,
     <1>15, <1>16, <1>17, <1>18, <1>19, <1>20, <1>21, <1>22, <1>23, <1>24, <1>25, <1>26, <1>27,
     <1>28, Zenon
  DEF LoopStep, ProviderStep

Concerns ==
  \/ \E t \in Turn : LoopStep(t) \/ ProviderStep(t) \/ AdmitTurn(t)
  \/ PublishClosed
  \/ messages' = messages /\ \A u \in Turn : Same(u)

\* A step concerns the run of one turn at most.
LEMMA Concerned ==
  ASSUME [Next]_vars
  PROVE  Concerns
<1>1. ASSUME NEW t \in Turn, AdmitTurn(t) PROVE Concerns
  BY <1>1 DEF Concerns
<1>2. ASSUME NEW t \in Turn, WaitFinished(t) PROVE Concerns
  <2>1. UNCHANGED <<messages, loop, todo, round, provider, listed, terminal>> BY <1>2
     DEF WaitFinished
  <2> QED BY <2>1 DEF Same, Concerns
<1>3. ASSUME NEW t \in Turn, NEW c \in Call, NEW status \in {"succeeded", "failed"}, RouteToolResult(t, c, status) PROVE Concerns
  <2>1. UNCHANGED <<messages, loop, todo, round, provider, listed, terminal>> BY <1>3
     DEF RouteToolResult
  <2> QED BY <2>1 DEF Same, Concerns
<1>4. ASSUME CloseResults PROVE Concerns
  <2>1. UNCHANGED <<messages, loop, todo, round, provider, listed, terminal>> BY <1>4
     DEF CloseResults
  <2> QED BY <2>1 DEF Same, Concerns
<1>5. ASSUME PublishClosed PROVE Concerns
  BY <1>5 DEF Concerns
<1>6. ASSUME MarkClosed PROVE Concerns
  <2>1. UNCHANGED <<messages, loop, todo, round, provider, listed, terminal>> BY <1>6
     DEF MarkClosed
  <2> QED BY <2>1 DEF Same, Concerns
<1>7. ASSUME UnregisterClosed PROVE Concerns
  <2>1. UNCHANGED <<messages, loop, todo, round, provider, listed, terminal>> BY <1>7
     DEF UnregisterClosed
  <2> QED BY <2>1 DEF Same, Concerns
<1>8. ASSUME NEW t \in Turn, Interrupt(t) PROVE Concerns
  <2>1. UNCHANGED <<messages, loop, todo, round, provider, listed, terminal>> BY <1>8
     DEF Interrupt
  <2> QED BY <2>1 DEF Same, Concerns
<1>9. ASSUME NEW t \in Turn, CancelTurn(t) PROVE Concerns
  <2>1. UNCHANGED <<messages, loop, todo, round, provider, listed, terminal>> BY <1>9
     DEF CancelTurn
  <2> QED BY <2>1 DEF Same, Concerns
<1>10. ASSUME CancelRuntime PROVE Concerns
  <2>1. UNCHANGED <<messages, loop, todo, round, provider, listed, terminal>> BY <1>10
     DEF CancelRuntime
  <2> QED BY <2>1 DEF Same, Concerns
<1>11. ASSUME NEW i \in Input, NEW t \in Turn, InjectRuntimeMessage(i, t) PROVE Concerns
  <2>1. UNCHANGED <<messages, loop, todo, round, provider, listed, terminal>> BY <1>11
     DEF InjectRuntimeMessage, callerUntouched
  <2> QED BY <2>1 DEF Same, Concerns
<1>12. ASSUME NEW i \in Input, EnqueueRuntimeInput(i) PROVE Concerns
  <2>1. UNCHANGED <<messages, loop, todo, round, provider, listed, terminal>> BY <1>12
     DEF EnqueueRuntimeInput, callerUntouched
  <2> QED BY <2>1 DEF Same, Concerns
<1>13. CASE UNCHANGED vars
  <2>1. UNCHANGED <<messages, loop, todo, round, provider, listed, terminal>> BY <1>13 DEF vars
  <2> QED BY <2>1 DEF Same, Concerns
<1>14. ASSUME NEW t \in Turn, LoopStep(t) \/ ProviderStep(t) PROVE Concerns
  BY <1>14 DEF Concerns
<1> QED
  BY <1>1, <1>2, <1>3, <1>4, <1>5, <1>6, <1>7, <1>8, <1>9, <1>10, <1>11, <1>12, <1>13, <1>14, Zenon
  DEF Next, Start, Report, Router

\* So every step is local, an admission, or one of the router.
LEMMA Locality ==
  ASSUME TypeOK, [Next]_vars
  PROVE  \/ \E t \in Turn : Local(t) \/ AdmitTurn(t)
         \/ PublishClosed \/ \A u \in Turn : Same(u)
BY Concerned, StepIsLocal DEF Concerns

\* What the runtime knows changes where a turn is admitted, where finish
\* unregisters a run, and where the router closes.
RuntimeMoves ==
  \/ UNCHANGED <<active, toolResultsClosed, closer, closedRun, starter, effectsDone>>
  \/ \E t \in Turn : AdmitTurn(t) \/ WaitFinished(t) \/ FinishMark(t) \/ FinishUnregister(t)
  \/ Router

\* Every other step leaves it alone.
LEMMA RuntimeMoved ==
  ASSUME TypeOK, [Next]_vars
  PROVE  RuntimeMoves
<1> USE DEF RuntimeMoves
<1>1. ASSUME NEW t \in Turn, CheckDone(t) PROVE RuntimeMoves
  <2>1. UNCHANGED <<active, toolResultsClosed, closer, closedRun, starter, effectsDone>> BY <1>1
     DEF CheckDone
  <2> QED BY <2>1
<1>2. ASSUME NEW t \in Turn, SelectTerminal(t) PROVE RuntimeMoves
  <2>1. UNCHANGED <<active, toolResultsClosed, closer, closedRun, starter, effectsDone>> BY <1>2
     DEF SelectTerminal, Selecting
  <2> QED BY <2>1
<1>3. ASSUME NEW t \in Turn, SelectInterrupt(t) PROVE RuntimeMoves
  <2>1. UNCHANGED <<active, toolResultsClosed, closer, closedRun, starter, effectsDone>> BY <1>3
     DEF SelectInterrupt, Selecting
  <2> QED BY <2>1
<1>4. ASSUME NEW t \in Turn, SelectToolResults(t) PROVE RuntimeMoves
  <2>1. UNCHANGED <<active, toolResultsClosed, closer, closedRun, starter, effectsDone>> BY <1>4
     DEF SelectToolResults, Selecting
  <2> QED BY <2>1
<1>5. ASSUME NEW t \in Turn, HandleToolResult(t) PROVE RuntimeMoves
  <2>1. UNCHANGED <<active, toolResultsClosed, closer, closedRun, starter, effectsDone>> BY <1>5
     DEF HandleToolResult
  <2> QED BY <2>1
<1>6. ASSUME NEW t \in Turn, InterpretAppend(t) PROVE RuntimeMoves
  <2>1. UNCHANGED <<active, toolResultsClosed, closer, closedRun, starter, effectsDone>> BY <1>6
     DEF InterpretAppend, At
  <2> QED BY <2>1
<1>7. ASSUME NEW t \in Turn, InterpretRequestTool(t) PROVE RuntimeMoves
  <2>1. UNCHANGED <<active, toolResultsClosed, closer, closedRun, starter, effectsDone>> BY <1>7
     DEF InterpretRequestTool, At
  <2> QED BY <2>1
<1>8. ASSUME NEW t \in Turn, InterpretDispatch(t) PROVE RuntimeMoves
  <2>1. UNCHANGED <<active, toolResultsClosed, closer, closedRun, starter, effectsDone>> BY <1>8
     DEF InterpretDispatch, At
  <2> QED BY <2>1
<1>9. ASSUME NEW t \in Turn, InterpretRunFailed(t) PROVE RuntimeMoves
  <2>1. UNCHANGED <<active, toolResultsClosed, closer, closedRun, starter, effectsDone>> BY <1>9
     DEF InterpretRunFailed, At
  <2> QED BY <2>1
<1>10. ASSUME NEW t \in Turn, InterpretStage(t) PROVE RuntimeMoves
  <2>1. UNCHANGED <<active, toolResultsClosed, closer, closedRun, starter, effectsDone>> BY <1>10
     DEF InterpretStage, At
  <2> QED BY <2>1
<1>11. ASSUME NEW t \in Turn, InterpretInterruptTools(t) PROVE RuntimeMoves
  <2>1. UNCHANGED <<active, toolResultsClosed, closer, closedRun, starter, effectsDone>> BY <1>11
     DEF InterpretInterruptTools, At
  <2> QED BY <2>1
<1>12. ASSUME NEW t \in Turn, InterpretCancelProvider(t) PROVE RuntimeMoves
  <2>1. UNCHANGED <<active, toolResultsClosed, closer, closedRun, starter, effectsDone>> BY <1>12
     DEF InterpretCancelProvider, At
  <2> QED BY <2>1
<1>13. ASSUME NEW t \in Turn, InterpretCloseRun(t) PROVE RuntimeMoves
  <2>1. UNCHANGED <<active, toolResultsClosed, closer, closedRun, starter, effectsDone>> BY <1>13
     DEF InterpretCloseRun, At
  <2> QED BY <2>1
<1>14. ASSUME NEW t \in Turn, InterpretStartProvider(t) PROVE RuntimeMoves
  <2>1. UNCHANGED <<active, toolResultsClosed, closer, closedRun, starter, effectsDone>> BY <1>14
     DEF InterpretStartProvider, At
  <2> QED BY <2>1
<1>15. ASSUME NEW t \in Turn, InterpretStartModel(t) PROVE RuntimeMoves
  <2>1. UNCHANGED <<active, toolResultsClosed, closer, closedRun, starter, effectsDone>> BY <1>15
     DEF InterpretStartModel, At
  <2> QED BY <2>1
<1>16. ASSUME NEW t \in Turn, InterpretAttemptComplete(t) PROVE RuntimeMoves
  <2>1. UNCHANGED <<active, toolResultsClosed, closer, closedRun, starter, effectsDone>> BY <1>16
     DEF InterpretAttemptComplete, At
  <2> QED BY <2>1
<1>17. ASSUME NEW t \in Turn, InterpretInspect(t) PROVE RuntimeMoves
  <2>1. UNCHANGED <<active, toolResultsClosed, closer, closedRun, starter, effectsDone>> BY <1>17
     DEF InterpretInspect, RetryCompletion, At
  <2> QED BY <2>1
<1>18. ASSUME NEW t \in Turn, InterpretCommitPending(t) PROVE RuntimeMoves
  <2>1. UNCHANGED <<active, toolResultsClosed, closer, closedRun, starter, effectsDone>> BY <1>18
     DEF InterpretCommitPending, At
  <2> QED BY <2>1
<1>19. ASSUME NEW t \in Turn, InterpretRunCompleted(t) PROVE RuntimeMoves
  <2>1. UNCHANGED <<active, toolResultsClosed, closer, closedRun, starter, effectsDone>> BY <1>19
     DEF InterpretRunCompleted, At
  <2> QED BY <2>1
<1>20. ASSUME NEW t \in Turn, InterpretRespond(t) PROVE RuntimeMoves
  <2>1. UNCHANGED <<active, toolResultsClosed, closer, closedRun, starter, effectsDone>> BY <1>20
     DEF InterpretRespond, At
  <2> QED BY <2>1
<1>21. ASSUME NEW t \in Turn, InterpretRespondCompleted(t) PROVE RuntimeMoves
  <2>1. UNCHANGED <<active, toolResultsClosed, closer, closedRun, starter, effectsDone>> BY <1>21
     DEF InterpretRespondCompleted, At
  <2> QED BY <2>1
<1>22. ASSUME NEW t \in Turn, FinishReject(t) PROVE RuntimeMoves
  <2>1. UNCHANGED <<active, toolResultsClosed, closer, closedRun, starter, effectsDone>> BY <1>22
     DEF FinishReject
  <2> QED BY <2>1
<1>23. ASSUME NEW t \in Turn, FinishMark(t) PROVE RuntimeMoves
  BY <1>23
<1>24. ASSUME NEW t \in Turn, FinishUnregister(t) PROVE RuntimeMoves
  BY <1>24
<1>25. ASSUME NEW t \in Turn, FinishClose(t) PROVE RuntimeMoves
  <2>1. UNCHANGED <<active, toolResultsClosed, closer, closedRun, starter, effectsDone>> BY <1>25
     DEF FinishClose
  <2> QED BY <2>1
<1>26. ASSUME NEW t \in Turn, NEW calls \in CallLists \cup {<<>>}, ProviderCompletes(t, calls) PROVE RuntimeMoves
  <2>1. UNCHANGED <<active, toolResultsClosed, closer, closedRun, starter, effectsDone>> BY <1>26
     DEF ProviderCompletes, StreamEnds, BeginRecovery, FinishRecovery, Selecting
  <2> QED BY <2>1
<1>27. ASSUME NEW t \in Turn, ProviderMalformed(t) PROVE RuntimeMoves
  <2>1. UNCHANGED <<active, toolResultsClosed, closer, closedRun, starter, effectsDone>> BY <1>27
     DEF ProviderMalformed, StreamEnds, BeginRecovery, Selecting
  <2> QED BY <2>1
<1>28. ASSUME NEW t \in Turn, ProviderFails(t) PROVE RuntimeMoves
  <2>1. UNCHANGED <<active, toolResultsClosed, closer, closedRun, starter, effectsDone>> BY <1>28
     DEF ProviderFails, StreamEnds, Selecting
  <2> QED BY <2>1
<1>29. ASSUME NEW t \in Turn, AdmitTurn(t) PROVE RuntimeMoves
  BY <1>29
<1>30. ASSUME NEW t \in Turn, WaitFinished(t) PROVE RuntimeMoves
  BY <1>30
<1>31. ASSUME NEW t \in Turn, NEW c \in Call, NEW status \in {"succeeded", "failed"}, RouteToolResult(t, c, status) PROVE RuntimeMoves
  <2>1. UNCHANGED <<active, toolResultsClosed, closer, closedRun, starter, effectsDone>> BY <1>31
     DEF RouteToolResult
  <2> QED BY <2>1
<1>32. ASSUME CloseResults PROVE RuntimeMoves
  BY <1>32 DEF Router
<1>33. ASSUME PublishClosed PROVE RuntimeMoves
  BY <1>33 DEF Router
<1>34. ASSUME MarkClosed PROVE RuntimeMoves
  BY <1>34 DEF Router
<1>35. ASSUME UnregisterClosed PROVE RuntimeMoves
  BY <1>35 DEF Router
<1>36. ASSUME NEW t \in Turn, Interrupt(t) PROVE RuntimeMoves
  <2>1. UNCHANGED <<active, toolResultsClosed, closer, closedRun, starter, effectsDone>> BY <1>36
     DEF Interrupt
  <2> QED BY <2>1
<1>37. ASSUME NEW t \in Turn, CancelTurn(t) PROVE RuntimeMoves
  <2>1. UNCHANGED <<active, toolResultsClosed, closer, closedRun, starter, effectsDone>> BY <1>37
     DEF CancelTurn
  <2> QED BY <2>1
<1>38. ASSUME CancelRuntime PROVE RuntimeMoves
  <2>1. UNCHANGED <<active, toolResultsClosed, closer, closedRun, starter, effectsDone>> BY <1>38
     DEF CancelRuntime
  <2> QED BY <2>1
<1>39. ASSUME NEW i \in Input, NEW t \in Turn, InjectRuntimeMessage(i, t) PROVE RuntimeMoves
  <2>1. UNCHANGED <<active, toolResultsClosed, closer, closedRun, starter, effectsDone>> BY <1>39
     DEF InjectRuntimeMessage, callerUntouched
  <2> QED BY <2>1
<1>40. ASSUME NEW i \in Input, EnqueueRuntimeInput(i) PROVE RuntimeMoves
  <2>1. UNCHANGED <<active, toolResultsClosed, closer, closedRun, starter, effectsDone>> BY <1>40
     DEF EnqueueRuntimeInput, callerUntouched
  <2> QED BY <2>1
<1>41. CASE UNCHANGED vars
  <2>1. UNCHANGED <<active, toolResultsClosed, closer, closedRun, starter, effectsDone>> BY <1>41
     DEF vars
  <2> QED BY <2>1
<1> QED
  BY <1>1, <1>2, <1>3, <1>4, <1>5, <1>6, <1>7, <1>8, <1>9, <1>10, <1>11, <1>12, <1>13, <1>14,
     <1>15, <1>16, <1>17, <1>18, <1>19, <1>20, <1>21, <1>22, <1>23, <1>24, <1>25, <1>26, <1>27,
     <1>28, <1>29, <1>30, <1>31, <1>32, <1>33, <1>34, <1>35, <1>36, <1>37, <1>38, <1>39, <1>40,
     <1>41, Zenon
  DEF Next, LoopStep, ProviderStep, Start, Report, Router

\* What an admission does.
LEMMA Admitted ==
  ASSUME TypeOK, NEW t \in Turn, AdmitTurn(t)
  PROVE  \/ /\ UNCHANGED <<active, loop, todo>> /\ starter[t] = "idle"
            /\ starter' = [starter EXCEPT ![t] = "waiting"]
         \/ /\ starter' = [starter EXCEPT ![t] = "started"] /\ active' = t /\ active = None
            /\ loop' = [loop EXCEPT ![t] = IF loop[t] = "closing" THEN "closing" ELSE "effect"]
            /\ todo' = [todo EXCEPT ![t] = RunStartedEffects(t)]
            /\ ~toolResultsClosed
BY StartedWork DEF AdmitTurn, Goto, After

\* A started turn never becomes idle, and the router closes a started run.
LEMMA StartKept ==
  ASSUME TypeOK, StartInv, [Next]_vars
  PROVE  StartInv'
<1> USE DEF TypeOK
<1>1. /\ loop \in [Turn -> LoopPlaces] /\ None \notin Turn
      /\ starter \in [Turn -> {"idle", "waiting", "started", "refused"}]
      /\ active \in Turn \cup {None} /\ closedRun \in Turn \cup {None}
      /\ terminal \in [Turn -> {"none", "completed", "failed", "interrupted"}]
  BY ConstantsAssumption DEF TodoTypes, RuntimeTypes, EndTypes
<1> DEFINE Started == \A t \in Turn : starter'[t] = "started" <=> loop'[t] # "idle"
           Fresh == \A t \in Turn : loop'[t] = "idle" => terminal'[t] = "none" /\ round'[t].order = <<>>
           Known == /\ active' # None => loop'[active'] # "idle"
                    /\ closedRun' # None => loop'[closedRun'] # "idle"
                    /\ closer' # "routing" => toolResultsClosed'
                    /\ closer' \in {"publish", "mark", "unregister"} => closedRun' \in Turn
<1>2. ASSUME NEW t \in Turn, AdmitTurn(t) PROVE Started /\ Fresh /\ Known
  <2>1. UNCHANGED <<closedRun, toolResultsClosed, closer, terminal, round>>
    BY <1>2 DEF AdmitTurn
  <2>2. CASE /\ UNCHANGED <<active, loop, todo>> /\ starter[t] = "idle"
             /\ starter' = [starter EXCEPT ![t] = "waiting"]
    BY <1>1, <2>1, <2>2 DEF StartInv
  <2>3. CASE /\ starter' = [starter EXCEPT ![t] = "started"] /\ active' = t
             /\ loop' = [loop EXCEPT ![t] = IF loop[t] = "closing" THEN "closing" ELSE "effect"]
    BY <1>1, <2>1, <2>3 DEF StartInv
  <2> QED BY <1>2, <2>2, <2>3, Admitted
<1>3. ASSUME NEW t \in Turn, WaitFinished(t) PROVE Started /\ Fresh /\ Known
  <2>1. /\ UNCHANGED <<active, closedRun, toolResultsClosed, closer, loop, terminal, round>>
        /\ starter[t] = "waiting"
        /\ starter' = [starter EXCEPT ![t] = "idle"] \/ starter' = [starter EXCEPT ![t] = "refused"]
    BY <1>3 DEF WaitFinished
  <2> QED BY <1>1, <2>1 DEF StartInv
<1>4. ASSUME \A u \in Turn : /\ loop'[u] = "idle" <=> loop[u] = "idle"
                             /\ loop[u] = "idle" => terminal'[u] = terminal[u] /\ round'[u] = round[u]
      PROVE  (Started /\ Fresh /\ Known) \/ \E t \in Turn : AdmitTurn(t) \/ WaitFinished(t)
  <2>1. Fresh BY <1>4 DEF StartInv
  <2>2. CASE UNCHANGED <<active, toolResultsClosed, closer, closedRun, starter, effectsDone>>
    <3>1. Started BY <1>4, <2>2 DEF StartInv
    <3>2. Known BY <1>1, <1>4, <2>2 DEF StartInv
    <3> QED BY <2>1, <3>1, <3>2
  <2>3. ASSUME NEW t \in Turn, FinishUnregister(t) PROVE Started /\ Known
    <3>1. /\ UNCHANGED <<starter, toolResultsClosed, closer, closedRun>>
          /\ active' \in {None, active}
      BY <2>3 DEF FinishUnregister
    <3>2. Started BY <1>4, <3>1 DEF StartInv
    <3>3. Known BY <1>1, <1>4, <3>1 DEF StartInv
    <3> QED BY <3>2, <3>3
  <2>4. CASE Router
    <3>1. /\ UNCHANGED starter /\ active' \in {None, active}
          /\ closedRun' = closedRun \/ closedRun' = active
          /\ closer' # "routing" => toolResultsClosed' \/ (closer # "routing" /\ toolResultsClosed' = toolResultsClosed)
          /\ closer' \in {"publish", "mark", "unregister"} =>
               \/ closedRun' = active /\ active # None
               \/ closedRun' = closedRun /\ closer \in {"publish", "mark", "unregister"}
      <4>1. CASE CloseResults BY <4>1 DEF CloseResults
      <4>2. CASE PublishClosed BY <4>2 DEF PublishClosed
      <4>3. CASE MarkClosed BY <4>3 DEF MarkClosed
      <4>4. CASE UnregisterClosed BY <4>4 DEF UnregisterClosed
      <4> QED BY <2>4, <4>1, <4>2, <4>3, <4>4 DEF Router
    <3>2. Started BY <1>4, <3>1 DEF StartInv
    <3>3. Known BY <1>1, <1>4, <3>1 DEF StartInv
    <3> QED BY <2>1, <3>2, <3>3
  <2>5. ASSUME NEW t \in Turn, FinishMark(t) PROVE Started /\ Known
    <3>1. UNCHANGED <<active, toolResultsClosed, closer, closedRun, starter>>
      BY <2>5 DEF FinishMark
    <3>2. Started BY <1>4, <3>1 DEF StartInv
    <3>3. Known BY <1>1, <1>4, <3>1 DEF StartInv
    <3> QED BY <3>2, <3>3
  <2> HIDE DEF Started, Fresh, Known
  <2> QED BY <2>1, <2>2, <2>3, <2>4, <2>5, RuntimeMoved DEF RuntimeMoves
<1>5. ASSUME NEW t \in Turn, Local(t)
      PROVE  (Started /\ Fresh /\ Known) \/ \E u \in Turn : AdmitTurn(u) \/ WaitFinished(u)
  <2>1. \A u \in Turn : /\ loop'[u] = "idle" <=> loop[u] = "idle"
                        /\ loop[u] = "idle" => terminal'[u] = terminal[u] /\ round'[u] = round[u]
    BY <1>5 DEF Local, Same
  <2> QED BY <1>4, <2>1
<1>6. ASSUME PublishClosed
      PROVE  (Started /\ Fresh /\ Known) \/ \E u \in Turn : AdmitTurn(u) \/ WaitFinished(u)
  <2>1. /\ UNCHANGED <<loop, round>> /\ closer = "publish"
        /\ terminal' = terminal \/ terminal' = [terminal EXCEPT ![closedRun] = "failed"]
    BY <1>6 DEF PublishClosed
  <2>2. closedRun \in Turn /\ loop[closedRun] # "idle" BY <1>1, <2>1 DEF StartInv
  <2>3. \A u \in Turn : /\ loop'[u] = "idle" <=> loop[u] = "idle"
                        /\ loop[u] = "idle" => terminal'[u] = terminal[u] /\ round'[u] = round[u]
    BY <1>1, <2>1, <2>2
  <2> QED BY <1>4, <2>3
<1>7. ASSUME \A u \in Turn : Same(u)
      PROVE  (Started /\ Fresh /\ Known) \/ \E u \in Turn : AdmitTurn(u) \/ WaitFinished(u)
  <2>1. \A u \in Turn : /\ loop'[u] = "idle" <=> loop[u] = "idle"
                        /\ loop[u] = "idle" => terminal'[u] = terminal[u] /\ round'[u] = round[u]
    BY <1>7 DEF Same
  <2> QED BY <1>4, <2>1
<1>8. Started /\ Fresh /\ Known => StartInv' BY DEF StartInv
<1> HIDE DEF Started, Fresh, Known
<1> QED BY <1>2, <1>3, <1>5, <1>6, <1>7, <1>8, Locality

\* Injected messages belong to turns.
NamedInv == \A i \in Input : inject[i].at # "idle" => inject[i].turn \in Turn

\* Types and work together: what a loop stores and where it goes depend on its work.
LEMMA TypesKept ==
  ASSUME TypeOK, WorkInv, StartInv, NamedInv, [Next]_vars
  PROVE  TypeOK' /\ WorkInv'
<1> USE DEF TypeOK
<1>1. Stored BY StoredMoves
<1>2. Moved BY Moves
<1>3. TodoTypes' /\ WorkInv' BY <1>2, MovedTypes
<1>4. RuntimeRest /\ QueueRest /\ ProviderRest /\ InputTypes
  BY DEF RuntimeTypes, EndTypes, QueueTypes, ProviderTypes, RuntimeRest, QueueRest, ProviderRest,
         InputTypes
<1>5. RuntimeRest' /\ QueueRest' /\ ProviderRest' /\ Relists /\ InputTypes' /\ RoundTypes'
  BY <1>1, <1>4, RuntimeRestKept, QueueRestKept, ProviderRestKept, RoundTypesKept, InputTypesKept
     DEF NamedInv
<1>6. /\ messages' \in Seq(Messages) /\ Len(messages) \in Nat /\ Len(messages') \in Nat
      /\ Len(messages) <= Len(messages')
  BY <1>1, Grown
<1>7. RuntimeTypes' BY <1>5, <1>6 DEF RuntimeTypes, RuntimeRest
<1>8. QueueTypes' BY <1>5 DEF QueueTypes, QueueRest, InputTypes
<1>9. EndTypes'
  <2>1. terminal' \in [Turn -> {"none", "completed", "failed", "interrupted"}]
    <3> USE DEF EndTypes
    <3>1. ASSUME NEW t \in Turn, Goes(t) PROVE terminal' \in [Turn -> {"none", "completed", "failed", "interrupted"}]
      BY <3>1 DEF Goes
    <3>2. ASSUME NEW t \in Turn, EndsRun(t) PROVE terminal' \in [Turn -> {"none", "completed", "failed", "interrupted"}]
      BY <3>2 DEF EndsRun, Ended
    <3>3. ASSUME NEW t \in Turn, Drops(t) \/ Finishes(t) PROVE terminal' \in [Turn -> {"none", "completed", "failed", "interrupted"}]
      BY <3>3 DEF Drops, Finishes
    <3>4. CASE RouterFails BY <3>4 DEF RouterFails
    <3> QED BY <1>2, <3>1, <3>2, <3>3, <3>4 DEF Moved
  <2> QED BY <1>5, <2>1 DEF EndTypes, RuntimeRest
<1>10. ProviderTypes'
  <2>1. \A t \in Turn : listed'[t] <= Len(messages')
    <3>1. listed \in [Turn -> Nat] /\ listed' \in [Turn -> Nat]
          /\ \A t \in Turn : listed[t] <= Len(messages)
      BY <1>5 DEF ProviderRest, ProviderTypes
    <3> QED BY <1>5, <1>6, <3>1 DEF Relists
  <2> QED BY <1>5, <2>1 DEF ProviderTypes, ProviderRest
<1> QED BY <1>3, <1>5, <1>7, <1>8, <1>9, <1>10

-----------------------------------------------------------------------------
(* Blocks: at most one loop is at work, and stores behind its own messages. *)

Live(t) == loop[t] \notin {"idle", "close", "exited"}
LiveInv ==
  /\ \A t, u \in Turn : Live(t) /\ Live(u) => t = u
  /\ \A t \in Turn : Live(t) => active = t \/ toolResultsClosed
BlocksInv ==
  /\ LiveInv
  /\ \A t \in Turn : loop[t] = "idle" => \A k \in 1..Len(messages) : messages[k].turn # t
  /\ \A t \in Turn : Live(t) =>
       \A i, j \in 1..Len(messages) : i < j /\ messages[i].turn = t => messages[j].turn = t
  /\ TurnsDoNotInterleave

\* One live loop at most: a turn is admitted when no run is registered, and a run
\* unregisters after its loop has stopped storing.
LEMMA LiveKept ==
  ASSUME TypeOK, StartInv, LiveInv, [Next]_vars
  PROVE  LiveInv'
<1> USE DEF TypeOK
<1>1. /\ loop \in [Turn -> LoopPlaces] /\ None \notin Turn /\ toolResultsClosed \in BOOLEAN
      /\ active \in Turn \cup {None}
  BY ConstantsAssumption DEF TodoTypes, RuntimeTypes
<1>2. ASSUME NEW t \in Turn, AdmitTurn(t) PROVE LiveInv'
  <2>1. UNCHANGED toolResultsClosed BY <1>2 DEF AdmitTurn
  <2>2. CASE UNCHANGED <<active, loop>> BY <2>1, <2>2 DEF LiveInv, Live
  <2>3. CASE /\ active' = t /\ active = None /\ ~toolResultsClosed
             /\ loop' = [loop EXCEPT ![t] = IF loop[t] = "closing" THEN "closing" ELSE "effect"]
    <3>1. \A u \in Turn : ~Live(u) BY <1>1, <2>3 DEF LiveInv
    <3>2. \A u \in Turn \ {t} : ~Live(u)' BY <1>1, <2>3, <3>1 DEF Live
    <3> QED BY <2>3, <3>2 DEF LiveInv
  <2> QED BY <1>2, <2>2, <2>3, Admitted
<1>3. ASSUME \A u \in Turn : Live(u)' => Live(u)
      PROVE  LiveInv' \/ \E t \in Turn : AdmitTurn(t)
  <2>1. \A t, u \in Turn : Live(t)' /\ Live(u)' => t = u BY <1>3 DEF LiveInv
  <2>2. ASSUME NEW t \in Turn, Live(t)' PROVE \/ active' = t \/ toolResultsClosed'
                                              \/ \E u \in Turn : AdmitTurn(u)
    <3>1. active = t \/ toolResultsClosed BY <1>3, <2>2 DEF LiveInv
    <3>2. CASE UNCHANGED <<active, toolResultsClosed>> BY <3>1, <3>2
    <3>3. ASSUME NEW u \in Turn, WaitFinished(u) PROVE active' = t \/ toolResultsClosed'
      BY <3>1, <3>3 DEF WaitFinished
    <3>4. ASSUME NEW u \in Turn, FinishUnregister(u) PROVE active' = t \/ toolResultsClosed'
      <4>1. /\ loop' = [loop EXCEPT ![u] = "close"] /\ UNCHANGED toolResultsClosed
            /\ active' = IF active = u THEN None ELSE active
        BY <3>4 DEF FinishUnregister
      <4>2. u # t BY <1>1, <2>2, <4>1 DEF Live
      <4> QED BY <3>1, <4>1, <4>2
    <3>5. CASE Router
      <4>1. CASE CloseResults BY <4>1 DEF CloseResults
      <4>2. CASE PublishClosed BY <3>1, <4>2 DEF PublishClosed
      <4>3. CASE MarkClosed BY <3>1, <4>3 DEF MarkClosed
      <4>4. CASE UnregisterClosed
        <5>1. toolResultsClosed BY <4>4 DEF UnregisterClosed, StartInv
        <5> QED BY <4>4, <5>1 DEF UnregisterClosed
      <4> QED BY <3>5, <4>1, <4>2, <4>3, <4>4 DEF Router
    <3>6. ASSUME NEW u \in Turn, FinishMark(u) PROVE active' = t \/ toolResultsClosed'
      BY <3>1, <3>6 DEF FinishMark
    <3> QED BY <3>2, <3>3, <3>4, <3>5, <3>6, RuntimeMoved DEF RuntimeMoves
  <2> QED BY <2>1, <2>2 DEF LiveInv
<1>4. ASSUME NEW t \in Turn, Local(t) PROVE \A u \in Turn : Live(u)' => Live(u)
  BY <1>4 DEF Local, Same, Live
<1>5. ASSUME PublishClosed PROVE \A u \in Turn : Live(u)' => Live(u)
  BY <1>5 DEF PublishClosed, Live
<1>6. ASSUME \A u \in Turn : Same(u) PROVE \A u \in Turn : Live(u)' => Live(u)
  BY <1>6 DEF Same, Live
<1> QED BY <1>2, <1>3, <1>4, <1>5, <1>6, Locality

\* New messages are those of a turn whose loop interprets an effect.
LEMMA Extended ==
  ASSUME RuntimeTypes, QueueTypes, Stored
  PROVE  \/ messages' = messages
         \/ \E t \in Turn :
              /\ loop[t] \in {"effect", "closing"}
              /\ \A k \in 1..Len(messages') : k > Len(messages) => messages'[k].turn = t
<1>1. messages \in Seq(Messages) BY DEF RuntimeTypes
<1>2. ASSUME NEW t \in Turn, NEW w \in Seq(Mine(t)), messages' = messages \o w
      PROVE  \A k \in 1..Len(messages') : k > Len(messages) => messages'[k].turn = t
  <2>1. w \in Seq(Messages)
    <3>1. Mine(t) \subseteq Messages BY DEF Mine
    <3> QED BY <3>1, Wider
  <2>2. /\ Len(messages') = Len(messages) + Len(w) /\ Len(messages) \in Nat /\ Len(w) \in Nat
        /\ \A j \in 1..Len(w) : messages'[Len(messages) + j] = w[j]
    BY <1>1, <1>2, <2>1, Concat
  <2> TAKE k \in 1..Len(messages')
  <2> HAVE k > Len(messages)
  <2>3. k - Len(messages) \in 1..Len(w) /\ Len(messages) + (k - Len(messages)) = k
    BY <2>2
  <2>4. messages'[k] = w[k - Len(messages)] BY <2>2, <2>3
  <2>5. w[k - Len(messages)] \in Mine(t) BY <2>3, Element
  <2> QED BY <2>4, <2>5 DEF Mine
<1>3. ASSUME NEW t \in Turn, Writes(t) PROVE \E w \in Seq(Mine(t)) : messages' = messages \o w
  BY <1>3, WrittenIsMine DEF Writes
<1>4. ASSUME NEW t \in Turn, Reads(t) PROVE \E w \in Seq(Mine(t)) : messages' = messages \o w
  <2>1. runtimeInputs[t] \in Seq(Input) BY DEF QueueTypes
  <2> QED BY <1>4, <2>1, InputsRead DEF Reads
<1>5. \A t \in Turn : Writes(t) \/ Reads(t) => loop[t] \in {"effect", "closing"} BY DEF Writes, Reads
<1> QED BY <1>2, <1>3, <1>4, <1>5 DEF Stored

\* Loops that were idle and those that are at work.
LEMMA LoopsMoved ==
  ASSUME TypeOK, StartInv, [Next]_vars
  PROVE  /\ \A u \in Turn : loop'[u] = "idle" => loop[u] = "idle"
         /\ \A u \in Turn : Live(u)' => Live(u) \/ (loop[u] = "idle" /\ messages' = messages)
<1>1. loop \in [Turn -> LoopPlaces] BY DEF TypeOK, TodoTypes
<1>2. ASSUME NEW t \in Turn, AdmitTurn(t)
      PROVE  /\ messages' = messages
             /\ loop' = loop \/ loop' = [loop EXCEPT ![t] = IF loop[t] = "closing" THEN "closing" ELSE "effect"]
  BY <1>2, Admitted DEF AdmitTurn
<1>3. ASSUME NEW t \in Turn, AdmitTurn(t)
      PROVE  /\ \A u \in Turn : loop'[u] = "idle" => loop[u] = "idle"
             /\ \A u \in Turn : Live(u)' => Live(u) \/ (loop[u] = "idle" /\ messages' = messages)
  <2>1. CASE loop' = loop BY <2>1 DEF Live
  <2>2. CASE loop' = [loop EXCEPT ![t] = IF loop[t] = "closing" THEN "closing" ELSE "effect"]
    <3>1. starter[t] = "idle" BY <1>3 DEF AdmitTurn
    <3>2. loop[t] = "idle" BY <3>1 DEF StartInv, TypeOK, RuntimeTypes
    <3>3. \A u \in Turn : loop'[u] = IF u = t THEN "effect" ELSE loop[u] BY <1>1, <2>2, <3>2
    <3> QED BY <1>2, <1>3, <3>2, <3>3 DEF Live
  <2> QED BY <1>2, <1>3, <2>1, <2>2
<1>4. ASSUME NEW t \in Turn, Local(t)
      PROVE  \A u \in Turn : (loop'[u] = "idle" => loop[u] = "idle") /\ (Live(u)' => Live(u))
  BY <1>4 DEF Local, Same, Live
<1>5. ASSUME PublishClosed
      PROVE  \A u \in Turn : (loop'[u] = "idle" => loop[u] = "idle") /\ (Live(u)' => Live(u))
  BY <1>5 DEF PublishClosed, Live
<1>6. ASSUME \A u \in Turn : Same(u)
      PROVE  \A u \in Turn : (loop'[u] = "idle" => loop[u] = "idle") /\ (Live(u)' => Live(u))
  BY <1>6 DEF Same, Live
<1> QED BY <1>3, <1>4, <1>5, <1>6, Locality

\* So each turn stores its messages behind those of the turns before it.
LEMMA BlocksKept ==
  ASSUME TypeOK, StartInv, WorkInv, BlocksInv, [Next]_vars
  PROVE  BlocksInv'
<1>1. LiveInv' BY LiveKept DEF BlocksInv
<1>2. RuntimeTypes /\ QueueTypes /\ Stored BY StoredMoves DEF TypeOK
<1>3. /\ Len(messages) \in Nat /\ Len(messages') \in Nat /\ Len(messages) <= Len(messages')
      /\ \A k \in 1..Len(messages) : messages'[k] = messages[k]
  BY <1>2, Grown
<1>4. /\ \A u \in Turn : loop'[u] = "idle" => loop[u] = "idle"
      /\ \A u \in Turn : Live(u)' => Live(u) \/ (loop[u] = "idle" /\ messages' = messages)
  BY LoopsMoved
<1>5. CASE messages' = messages
  <2>1. \A t \in Turn : loop'[t] = "idle" => \A k \in 1..Len(messages') : messages'[k].turn # t
    BY <1>4, <1>5 DEF BlocksInv
  <2>2. \A t \in Turn : Live(t)' =>
          \A i, j \in 1..Len(messages') : i < j /\ messages'[i].turn = t => messages'[j].turn = t
    BY <1>4, <1>5 DEF BlocksInv
  <2>3. TurnsDoNotInterleave' BY <1>5 DEF BlocksInv, TurnsDoNotInterleave
  <2> QED BY <1>1, <2>1, <2>2, <2>3 DEF BlocksInv
<1>6. ASSUME NEW t \in Turn, messages' # messages, loop[t] \in {"effect", "closing"},
             \A k \in 1..Len(messages') : k > Len(messages) => messages'[k].turn = t
      PROVE  BlocksInv'
  <2> PICK m, n \in Nat : m = Len(messages) /\ n = Len(messages') BY <1>3
  <2>0. m <= n /\ \A k \in 1..n : (k \in 1..m /\ messages'[k] = messages[k])
                                  \/ (k > m /\ messages'[k].turn = t)
    BY <1>3, <1>6
  <2>1. \A u \in Turn : loop'[u] = "idle" => \A k \in 1..n : messages'[k].turn # u
    BY <1>4, <1>6, <2>0 DEF BlocksInv
  <2>2. Live(t) /\ \A u \in Turn : Live(u)' => u = t
    BY <1>4, <1>6 DEF BlocksInv, LiveInv, Live
  <2>3. \A i, j \in 1..m : i < j /\ messages[i].turn = t => messages[j].turn = t
    BY <2>2 DEF BlocksInv
  <2>4. \A i, j \in 1..n : i < j /\ messages'[i].turn = t => messages'[j].turn = t
    BY <2>0, <2>3
  <2>5. \A i, j, k \in 1..n : i < j /\ j < k /\ messages'[i].turn = messages'[k].turn
                                => messages'[j].turn = messages'[i].turn
    <3> TAKE i, j, k \in 1..n
    <3> HAVE i < j /\ j < k /\ messages'[i].turn = messages'[k].turn
    <3>1. CASE messages'[k].turn = t BY <2>4, <3>1
    <3>2. CASE messages'[k].turn # t
      <4>1. /\ i \in 1..m /\ j \in 1..m /\ k \in 1..m
            /\ messages'[i] = messages[i] /\ messages'[j] = messages[j] /\ messages'[k] = messages[k]
        BY <2>0, <3>2
      <4> QED BY <4>1 DEF BlocksInv, TurnsDoNotInterleave
    <3> QED BY <3>1, <3>2
  <2>6. TurnsDoNotInterleave' BY <2>5 DEF TurnsDoNotInterleave
  <2> QED BY <1>1, <2>1, <2>2, <2>4, <2>6 DEF BlocksInv
<1> QED BY <1>2, <1>5, <1>6, Extended

-----------------------------------------------------------------------------
(* Injected messages: queued once, stored once. *)

Holds(k, i) == messages[k].kind = "input" /\ messages[k].what = i

\* InputAccounting, for one injected message and position by position.
Told(i) ==
  /\ inject[i].at = "accepted" =>
       \E k \in 1..Len(messages) :
         /\ Holds(k, i) /\ messages[k].turn = inject[i].turn
         /\ \A l \in 1..Len(messages) : Holds(l, i) => l = k
  /\ inject[i].at # "accepted" => \A k \in 1..Len(messages) : ~Holds(k, i)

\* The two forms say the same.
LEMMA ToldIsAccounting == InputAccounting <=> \A i \in Input : Told(i)
BY DEF InputAccounting, Told, Holds

\* A queue holds messages whose callers wait for this turn, each of them once.
QueueInv ==
  /\ \A t \in Turn : \A k \in 1..Len(runtimeInputs[t]) :
       inject[runtimeInputs[t][k]].at = "queued" /\ inject[runtimeInputs[t][k]].turn = t
  /\ \A t \in Turn : \A k, l \in 1..Len(runtimeInputs[t]) :
       runtimeInputs[t][k] = runtimeInputs[t][l] => k = l
InputInv == NamedInv /\ QueueInv /\ \A i \in Input : Told(i)

\* Messages of other kinds account for nothing.
LEMMA ToldOthers ==
  ASSUME RuntimeTypes, NEW t \in Turn, NEW w \in Seq(Written(t)), messages' = messages \o w,
         NEW i \in Input, Told(i), inject'[i] = inject[i]
  PROVE  Told(i)'
<1>1. messages \in Seq(Messages) BY DEF RuntimeTypes
<1>2. w \in Seq(Messages)
  <2>1. Written(t) \subseteq Messages BY MessageTypes
  <2> QED BY <2>1, Wider
<1>3. PICK m \in Nat, n \in Nat : m = Len(messages) /\ n = Len(w) BY <1>1, <1>2
<1>4. /\ Len(messages') = m + n
      /\ \A k \in 1..m : messages'[k] = messages[k]
      /\ \A k \in 1..n : messages'[m + k] = w[k]
  BY <1>1, <1>2, <1>3, Concat
<1>5. \A k \in 1..n : w[k].kind # "input"
  <2> TAKE k \in 1..n
  <2>1. w[k] \in Written(t) BY <1>3, Element
  <2> QED BY <2>1 DEF Written
<1>6. \A k \in 1..(m + n) : k \in 1..m \/ (messages'[k].kind # "input" /\ k > m)
  <2> TAKE k \in 1..(m + n)
  <2>1. CASE k > m
    <3>1. k - m \in 1..n /\ m + (k - m) = k BY <1>3, <2>1
    <3> QED BY <1>4, <1>5, <2>1, <3>1
  <2> QED BY <1>3, <2>1
<1>7. \A k \in 1..(m + n) : Holds(k, i)' <=> k \in 1..m /\ Holds(k, i)
  BY <1>3, <1>4, <1>6 DEF Holds
<1>8. 1..m \subseteq 1..(m + n) BY <1>3
<1> QED BY <1>3, <1>4, <1>7, <1>8 DEF Told

\* A loop that empties its queue leaves the others.
LEMMA QueueEmptied ==
  ASSUME QueueTypes, InputInv, NEW t \in Turn, NEW answer \in {"accepted", "failed", "refused"},
         Answers(t, answer)
  PROVE  /\ NamedInv' /\ QueueInv'
         /\ \A i \in Input : IF i \in Queued(t)
                             THEN inject'[i].at = answer /\ inject'[i].turn = t
                             ELSE inject'[i] = inject[i]
         /\ \A i \in Queued(t) : inject[i].at = "queued"
<1>1. /\ runtimeInputs \in [Turn -> Seq(Input)]
      /\ inject \in [Input -> [at : {"idle", "found", "queued", "accepted", "failed", "refused"},
                               turn : Turn \cup {None}]]
  BY DEF QueueTypes
<1>2. \A i \in Queued(t) : inject[i].at = "queued" /\ inject[i].turn = t
  BY DEF InputInv, QueueInv, Queued, Elements
<1>3. \A i \in Input : inject'[i] = IF i \in Queued(t) THEN [inject[i] EXCEPT !.at = answer] ELSE inject[i]
  BY DEF Answers, Tell
<1>4. \A i \in Input : IF i \in Queued(t) THEN inject'[i].at = answer /\ inject'[i].turn = t
                       ELSE inject'[i] = inject[i]
  BY <1>1, <1>2, <1>3
<1>5. NamedInv' BY <1>4 DEF InputInv, NamedInv
<1>6. runtimeInputs'[t] = <<>> /\ \A u \in Turn \ {t} : runtimeInputs'[u] = runtimeInputs[u]
  BY <1>1 DEF Answers
<1>7. \A u \in Turn \ {t} : \A k \in 1..Len(runtimeInputs[u]) :
        /\ runtimeInputs[u][k] \in Input /\ runtimeInputs[u][k] \notin Queued(t)
        /\ inject[runtimeInputs[u][k]].at = "queued" /\ inject[runtimeInputs[u][k]].turn = u
  <2> TAKE u \in Turn \ {t}
  <2> TAKE k \in 1..Len(runtimeInputs[u])
  <2>1. runtimeInputs[u] \in Seq(Input) BY <1>1
  <2>2. runtimeInputs[u][k] \in Input BY <2>1, Element
  <2> QED BY <1>2, <2>2 DEF InputInv, QueueInv
<1>8. QueueInv'
  <2>1. ASSUME NEW u \in Turn
        PROVE  /\ \A k \in 1..Len(runtimeInputs'[u]) :
                    inject'[runtimeInputs'[u][k]].at = "queued" /\ inject'[runtimeInputs'[u][k]].turn = u
               /\ \A k, l \in 1..Len(runtimeInputs'[u]) :
                    runtimeInputs'[u][k] = runtimeInputs'[u][l] => k = l
    <3>1. CASE u = t
      <4>1. 1..Len(runtimeInputs'[u]) = {} BY <1>6, <3>1
      <4> QED BY <4>1
    <3>2. CASE u # t BY <1>4, <1>6, <1>7, <3>2 DEF InputInv, QueueInv
    <3> QED BY <3>1, <3>2
  <2> QED BY <2>1 DEF QueueInv
<1> QED BY <1>2, <1>4, <1>5, <1>8

\* A queued message is stored once and its caller told so.
LEMMA ToldRead ==
  ASSUME RuntimeTypes, QueueTypes, InputInv, NEW t \in Turn,
         messages' = messages \o InputMessages(t), Answers(t, "accepted"), NEW i \in Input
  PROVE  Told(i)'
<1>1. messages \in Seq(Messages) /\ runtimeInputs[t] \in Seq(Input) BY DEF RuntimeTypes, QueueTypes
<1>2. /\ InputMessages(t) \in Seq(Messages) /\ Len(InputMessages(t)) = Len(runtimeInputs[t])
      /\ \A k \in 1..Len(runtimeInputs[t]) :
              InputMessages(t)[k] = Message(t, "input", runtimeInputs[t][k])
  <2>1. Mine(t) \subseteq Messages BY DEF Mine
  <2>2. InputMessages(t) \in Seq(Mine(t)) BY <1>1, InputsRead
  <2>3. InputMessages(t) \in Seq(Messages) BY <2>1, <2>2, Wider
  <2> QED BY <1>1, <2>3, InputsRead
<1>3. PICK m \in Nat, n \in Nat : m = Len(messages) /\ n = Len(runtimeInputs[t]) BY <1>1
<1>4. /\ Len(messages') = m + n
      /\ \A k \in 1..m : messages'[k] = messages[k]
      /\ \A k \in 1..n : messages'[m + k] = Message(t, "input", runtimeInputs[t][k])
  <2> PICK b : b = InputMessages(t) OBVIOUS
  <2>1. /\ Len(messages') = Len(messages) + Len(b) /\ \A j \in 1..Len(messages) : messages'[j] = messages[j]
        /\ \A j \in 1..Len(b) : messages'[Len(messages) + j] = b[j]
    <3>1. b \in Seq(Messages) /\ messages' = messages \o b BY <1>2
    <3> QED BY <1>1, <3>1, Concat
  <2>2. Len(b) = n /\ \A k \in 1..n : b[k] = Message(t, "input", runtimeInputs[t][k])
    BY <1>2, <1>3
  <2>3. \A k \in 1..n : messages'[m + k] = Message(t, "input", runtimeInputs[t][k])
    BY <1>3, <2>1, <2>2
  <2> QED BY <1>3, <2>1, <2>2, <2>3
<1>5. \A k \in 1..n : /\ messages'[m + k].kind = "input" /\ messages'[m + k].turn = t
                      /\ messages'[m + k].what = runtimeInputs[t][k]
  <2> TAKE k \in 1..n
  <2>1. messages'[m + k] = Message(t, "input", runtimeInputs[t][k]) BY <1>4
  <2> QED BY <2>1 DEF Message
<1>6. \A k \in 1..m : Holds(k, i)' <=> Holds(k, i) BY <1>4 DEF Holds
<1>7. \A k \in 1..n : Holds(m + k, i)' <=> runtimeInputs[t][k] = i BY <1>5 DEF Holds
<1>8. \A k \in 1..(m + n) : k \in 1..m \/ \E l \in 1..n : k = m + l
  <2> TAKE k \in 1..(m + n)
  <2>1. CASE k > m
    <3>1. k - m \in 1..n /\ k = m + (k - m) BY <1>3, <2>1
    <3> QED BY <3>1
  <2> QED BY <1>3, <2>1
<1>9. /\ IF i \in Queued(t) THEN inject'[i].at = "accepted" /\ inject'[i].turn = t
         ELSE inject'[i] = inject[i]
      /\ i \in Queued(t) => inject[i].at = "queued"
  BY QueueEmptied
<1>10. i \in Queued(t) <=> \E k \in 1..n : runtimeInputs[t][k] = i BY <1>3 DEF Queued, Elements
<1>11. Told(i) BY DEF InputInv
<1>12. CASE i \in Queued(t)
  <2>1. PICK k \in 1..n : runtimeInputs[t][k] = i BY <1>10, <1>12
  <2>2. \A l \in 1..n : runtimeInputs[t][l] = i => l = k BY <1>3, <2>1 DEF InputInv, QueueInv
  <2>3. \A l \in 1..m : ~Holds(l, i)' BY <1>3, <1>6, <1>9, <1>11, <1>12 DEF Told
  <2>4. m + k \in 1..(m + n) /\ Holds(m + k, i)' /\ messages'[m + k].turn = t
    <3>1. m + k \in 1..(m + n) BY <1>3
    <3> QED BY <1>5, <1>7, <2>1, <3>1
  <2>5. \A l \in 1..(m + n) : Holds(l, i)' => l = m + k BY <1>7, <1>8, <2>2, <2>3
  <2> QED BY <1>4, <1>9, <1>12, <2>4, <2>5 DEF Told
<1>13. CASE i \notin Queued(t)
  <2>1. \A k \in 1..(m + n) : Holds(k, i)' <=> k \in 1..m /\ Holds(k, i)
    <3> TAKE k \in 1..(m + n)
    <3>1. CASE k \in 1..m BY <1>6, <3>1
    <3>2. CASE k \notin 1..m
      <4>1. PICK l \in 1..n : k = m + l BY <1>8, <3>2
      <4>2. ~Holds(m + l, i)' BY <1>7, <1>10, <1>13
      <4> QED BY <3>2, <4>1, <4>2
    <3> QED BY <3>1, <3>2
  <2>2. 1..m \subseteq 1..(m + n) BY <1>3
  <2>3. inject'[i] = inject[i] BY <1>9, <1>13
  <2> QED BY <1>3, <1>4, <1>11, <2>1, <2>2, <2>3 DEF Told
<1> QED BY <1>12, <1>13

\* Every step keeps the account of the injected messages.
LEMMA InputsKept ==
  ASSUME TypeOK, WorkInv, InputInv, [Next]_vars
  PROVE  InputInv'
<1> USE DEF TypeOK
<1>0. /\ inject \in [Input -> [at : {"idle", "found", "queued", "accepted", "failed", "refused"},
                               turn : Turn \cup {None}]]
      /\ runtimeInputs \in [Turn -> Seq(Input)]
  BY DEF QueueTypes
<1>q. \A t \in Turn : \A k \in 1..Len(runtimeInputs[t]) : runtimeInputs[t][k] \in Input
  BY <1>0, Element
<1>1. CASE UNCHANGED inputVars /\ UNCHANGED messages
  BY <1>1 DEF InputInv, NamedInv, QueueInv, Told, Holds
<1>2. ASSUME NEW t \in Turn, UNCHANGED inputVars, Writes(t) PROVE InputInv'
  <2>1. PICK w \in Seq(Written(t)) : messages' = messages \o w BY <1>2 DEF Writes
  <2>2. NamedInv' /\ QueueInv' BY <1>2 DEF InputInv, NamedInv, QueueInv
  <2>3. \A i \in Input : Told(i)' BY <1>2, <2>1, ToldOthers DEF InputInv
  <2> QED BY <2>2, <2>3 DEF InputInv
<1>3. ASSUME NEW t \in Turn, Reads(t), Answers(t, "accepted") PROVE InputInv'
  <2>1. NamedInv' /\ QueueInv' BY <1>3, QueueEmptied
  <2>2. \A i \in Input : Told(i)' BY <1>3, ToldRead DEF Reads
  <2> QED BY <2>1, <2>2 DEF InputInv
<1>4. ASSUME NEW t \in Turn, NEW answer \in {"failed", "refused"}, UNCHANGED messages, Answers(t, answer)
      PROVE  InputInv'
  <2>1. NamedInv' /\ QueueInv' BY <1>4, QueueEmptied
  <2>2. \A i \in Input : /\ IF i \in Queued(t) THEN inject'[i].at = answer /\ inject'[i].turn = t
                            ELSE inject'[i] = inject[i]
                         /\ i \in Queued(t) => inject[i].at = "queued"
    BY <1>4, QueueEmptied
  <2>3. \A i \in Input : Told(i)'
    <3> TAKE i \in Input
    <3>1. Told(i) BY DEF InputInv
    <3> QED BY <1>4, <2>2, <3>1 DEF Told, Holds
  <2> QED BY <2>1, <2>3 DEF InputInv
<1>5. ASSUME NEW i \in Input, NEW t \in Turn, UNCHANGED messages, InjectRuntimeMessage(i, t)
      PROVE  InputInv'
  <2>1. /\ inject[i].at = "idle" /\ inject' = [inject EXCEPT ![i] = [at |-> "found", turn |-> t]]
        /\ runtimeInputs' = runtimeInputs
    BY <1>5 DEF InjectRuntimeMessage
  <2>2. \A j \in Input : inject'[j] = IF j = i THEN [at |-> "found", turn |-> t] ELSE inject[j]
    BY <1>0, <2>1
  <2>3. NamedInv' BY <2>2 DEF InputInv, NamedInv
  <2>4. QueueInv' BY <1>q, <2>1, <2>2 DEF InputInv, QueueInv
  <2>5. \A j \in Input : Told(j)'
    <3> TAKE j \in Input
    <3>1. Told(j) BY DEF InputInv
    <3> QED BY <1>5, <2>1, <2>2, <3>1 DEF Told, Holds
  <2> QED BY <2>3, <2>4, <2>5 DEF InputInv
<1>6. ASSUME NEW i \in Input, UNCHANGED messages, EnqueueRuntimeInput(i) PROVE InputInv'
  <2> PICK t : t = inject[i].turn OBVIOUS
  <2>1. inject[i].at = "found" /\ t \in Turn BY <1>6 DEF EnqueueRuntimeInput, InputInv, NamedInv
  <2>2. ASSUME NEW at \in {"refused", "queued"}, inject' = [inject EXCEPT ![i].at = at]
        PROVE  /\ \A j \in Input \ {i} : inject'[j] = inject[j]
               /\ inject'[i].at = at /\ inject'[i].turn = t
    BY <1>0, <2>2
  <2>3. ASSUME NEW at \in {"refused", "queued"}, inject' = [inject EXCEPT ![i].at = at]
        PROVE  NamedInv' /\ \A j \in Input : Told(j)'
    <3>1. NamedInv' BY <2>1, <2>2, <2>3 DEF InputInv, NamedInv
    <3>2. \A j \in Input : Told(j)'
      <4> TAKE j \in Input
      <4>1. Told(j) BY DEF InputInv
      <4> QED BY <1>6, <2>1, <2>2, <2>3, <4>1 DEF Told, Holds
    <3> QED BY <3>1, <3>2
  <2>4. CASE inject' = [inject EXCEPT ![i].at = "refused"] /\ UNCHANGED runtimeInputs
    <3>1. QueueInv' BY <1>q, <2>1, <2>2, <2>4 DEF InputInv, QueueInv
    <3> QED BY <2>3, <2>4, <3>1 DEF InputInv
  <2>5. CASE /\ inject' = [inject EXCEPT ![i].at = "queued"]
             /\ runtimeInputs' = [runtimeInputs EXCEPT ![t] = Append(@, i)]
    <3>1. /\ \A u \in Turn \ {t} : runtimeInputs'[u] = runtimeInputs[u]
          /\ runtimeInputs'[t] = Append(runtimeInputs[t], i) /\ runtimeInputs[t] \in Seq(Input)
      BY <1>0, <2>1, <2>5
    <3>2. PICK n \in Nat : n = Len(runtimeInputs[t]) BY <3>1
    <3>3. /\ Len(runtimeInputs'[t]) = n + 1 /\ runtimeInputs'[t][n + 1] = i
          /\ \A k \in 1..n : runtimeInputs'[t][k] = runtimeInputs[t][k]
      BY <3>1, <3>2, AppendParts
    <3>4. \A k \in 1..(n + 1) : k \in 1..n \/ k = n + 1 BY <3>2
    <3>5. /\ \A j \in Input \ {i} : inject'[j] = inject[j]
          /\ inject'[i].at = "queued" /\ inject'[i].turn = t
      BY <2>2, <2>5
    <3>6. \A u \in Turn : \A k \in 1..Len(runtimeInputs[u]) :
            /\ runtimeInputs[u][k] \in Input \ {i}
            /\ inject'[runtimeInputs[u][k]].at = "queued" /\ inject'[runtimeInputs[u][k]].turn = u
      BY <1>q, <2>1, <3>5 DEF InputInv, QueueInv
    <3>7. ASSUME NEW u \in Turn
          PROVE  /\ \A k \in 1..Len(runtimeInputs'[u]) :
                      inject'[runtimeInputs'[u][k]].at = "queued" /\ inject'[runtimeInputs'[u][k]].turn = u
                 /\ \A k, l \in 1..Len(runtimeInputs'[u]) :
                      runtimeInputs'[u][k] = runtimeInputs'[u][l] => k = l
      <4>1. CASE u = t
        <5>1. \A k \in 1..(n + 1) : inject'[runtimeInputs'[t][k]].at = "queued" /\ inject'[runtimeInputs'[t][k]].turn = t
          <6> TAKE k \in 1..(n + 1)
          <6>1. CASE k \in 1..n
            <7>1. runtimeInputs'[t][k] = runtimeInputs[t][k] BY <3>3, <6>1
            <7> QED BY <2>1, <3>2, <3>6, <6>1, <7>1
          <6>2. CASE k = n + 1 BY <3>3, <3>5, <6>2
          <6> QED BY <3>4, <6>1, <6>2
        <5>2. \A k, l \in 1..n : runtimeInputs[t][k] = runtimeInputs[t][l] => k = l
          BY <2>1, <3>2 DEF InputInv, QueueInv
        <5>3. \A k \in 1..n : runtimeInputs[t][k] # i BY <2>1, <3>2, <3>6
        <5>4. \A k, l \in 1..(n + 1) : runtimeInputs'[t][k] = runtimeInputs'[t][l] => k = l
          BY <3>3, <3>4, <5>2, <5>3
        <5> QED BY <3>3, <4>1, <5>1, <5>4
      <4>2. CASE u # t BY <3>1, <3>6, <4>2 DEF InputInv, QueueInv
      <4> QED BY <4>1, <4>2
    <3>8. QueueInv' BY <3>7 DEF QueueInv
    <3> QED BY <2>3, <2>5, <3>8 DEF InputInv
  <2> QED BY <1>6, <2>4, <2>5 DEF EnqueueRuntimeInput
<1> QED BY <1>1, <1>2, <1>3, <1>4, <1>5, <1>6, StoredMoves DEF Stored

-----------------------------------------------------------------------------
(* A completed turn has seen its inputs. *)

InputsSeen(t) ==
  \A k \in 1..Len(messages) : k > listed[t] /\ messages[k].turn = t => messages[k].kind # "input"

\* A turn has seen what was injected, is about to ask the model again, or
\* closes without completing.
SeenAt(t) ==
  \/ InputsSeen(t)
  \/ loop[t] = "effect" /\ todo[t][1].op \in {"StartModel", "RestartProvider"}
  \/ loop[t] \notin {"idle", "effect", "select"} /\ terminal[t] # "completed"

\* The invariant implies the property.
LEMMA SeenIsSeen ==
  ASSUME RuntimeTypes, ProviderTypes, WorkInv, \A t \in Turn : SeenAt(t) PROVE CompletedSawInputs
<1> SUFFICES ASSUME NEW t \in Turn, terminal[t] = "completed",
                    NEW k \in (listed[t] + 1)..Len(messages), messages[k].turn = t
             PROVE  messages[k].kind # "input"
  BY DEF CompletedSawInputs
<1>1. Len(messages) \in Nat /\ listed[t] \in Nat BY DEF RuntimeTypes, ProviderTypes
<1>2. InputsSeen(t) BY DEF WorkInv, SeenAt
<1>3. k \in 1..Len(messages) /\ k > listed[t] BY <1>1
<1> QED BY <1>2, <1>3 DEF InputsSeen

\* A loop that has left for finish, or closes, stores no new provider round.
LEMMA NoReturn ==
  ASSUME TypeOK, WorkInv, StartInv, [Next]_vars, NEW t \in Turn,
         loop'[t] \in {"idle", "effect", "select"}
  PROVE  loop[t] \in {"idle", "effect", "select"}
<1>1. loop \in [Turn -> LoopPlaces] BY DEF TypeOK, TodoTypes
<1>2. ASSUME NEW u \in Turn, Goes(u) PROVE loop[t] \in {"idle", "effect", "select"}
  <2>1. PICK w : /\ Goto(u, w) /\ loop[u] \in {"idle", "effect", "select", "closing"}
                 /\ loop[u] = "closing" => w \in Cleanups(u)
    BY <1>2 DEF Goes
  <2>2. loop[u] = "closing" => loop' = [loop EXCEPT ![u] = "closing"]
    BY <2>1, ClosingWork DEF Goto, After
  <2>3. \A v \in Turn : v # u => loop'[v] = loop[v] BY <1>1, <2>1 DEF Goto
  <2> QED BY <1>1, <2>1, <2>2, <2>3
<1>3. ASSUME NEW u \in Turn, EndsRun(u) \/ Drops(u) \/ Finishes(u) PROVE loop[t] \in {"idle", "effect", "select"}
  <2>1. \E p \in LoopPlaces \ {"idle", "effect", "select"} : loop' = [loop EXCEPT ![u] = p]
    BY <1>3 DEF EndsRun, Ended, Drops, Finishes, LoopPlaces
  <2> QED BY <1>1, <2>1
<1> QED BY <1>2, <1>3, Moves DEF Moved, RouterFails

\* Steps of t's loop put messages of turn t behind those already there.
Grows(t) ==
  /\ messages \in Seq(Messages) /\ messages' \in Seq(Messages)
  /\ Len(messages) \in Nat /\ Len(messages') \in Nat /\ Len(messages) <= Len(messages')
  /\ \A k \in 1..Len(messages) : messages'[k] = messages[k]
  /\ \A k \in 1..Len(messages') : k > Len(messages) => messages'[k].turn = t
NoInput == \A k \in 1..Len(messages') : k > Len(messages) => messages'[k].kind # "input"

\* Messages behind the transcript, by position.
LEMMA Added ==
  ASSUME RuntimeTypes, NEW t \in Turn, NEW w \in Seq(Mine(t)), messages' = messages \o w
  PROVE  /\ Grows(t) /\ Len(messages') = Len(messages) + Len(w) /\ Len(w) \in Nat
         /\ \A k \in 1..Len(messages') : k > Len(messages) =>
              k - Len(messages) \in 1..Len(w) /\ messages'[k] = w[k - Len(messages)]
<1>1. messages \in Seq(Messages) BY DEF RuntimeTypes
<1>2. w \in Seq(Messages)
  <2>1. Mine(t) \subseteq Messages BY DEF Mine
  <2> QED BY <2>1, Wider
<1>3. PICK m \in Nat, n \in Nat : m = Len(messages) /\ n = Len(w) BY <1>1, <1>2
<1>4. /\ messages' \in Seq(Messages) /\ Len(messages') = m + n
      /\ \A k \in 1..m : messages'[k] = messages[k]
      /\ \A k \in 1..n : messages'[m + k] = w[k]
  BY <1>1, <1>2, <1>3, Concat
<1>5. \A k \in 1..(m + n) : k > m => k - m \in 1..n /\ messages'[k] = w[k - m]
  <2> TAKE k \in 1..(m + n)
  <2> HAVE k > m
  <2>1. k - m \in 1..n /\ m + (k - m) = k BY <1>3
  <2> QED BY <1>4, <2>1
<1>6. \A k \in 1..(m + n) : k > m => messages'[k].turn = t
  <2> TAKE k \in 1..(m + n)
  <2> HAVE k > m
  <2>1. w[k - m] \in Mine(t) BY <1>3, <1>5, Element
  <2> QED BY <1>5, <2>1 DEF Mine
<1>7. m + n \in Nat /\ m <= m + n BY <1>3
<1>8. Grows(t) BY <1>1, <1>3, <1>4, <1>6, <1>7 DEF Grows
<1>9. \A k \in 1..Len(messages') : k > Len(messages) =>
              k - Len(messages) \in 1..Len(w) /\ messages'[k] = w[k - Len(messages)]
  BY <1>3, <1>4, <1>5
<1> QED BY <1>3, <1>4, <1>8, <1>9

\* What a loop stores, by position.
LEMMA Positions ==
  ASSUME RuntimeTypes, QueueTypes, NEW t \in Turn, StoresBy(t)
  PROVE  /\ Grows(t) /\ (UNCHANGED runtimeInputs \/ UNCHANGED messages => NoInput)
         /\ messages' # messages => loop[t] \in {"effect", "closing"}
<1>1. messages \in Seq(Messages) /\ runtimeInputs \in [Turn -> Seq(Input)] BY DEF RuntimeTypes, QueueTypes
<1>2. CASE messages' = messages BY <1>1, <1>2 DEF Grows, NoInput
<1>3. CASE Writes(t)
  <2>1. PICK w \in Seq(Written(t)) : messages' = messages \o w BY <1>3 DEF Writes
  <2>2. w \in Seq(Mine(t)) BY WrittenIsMine
  <2>3. /\ Grows(t)
        /\ \A k \in 1..Len(messages') : k > Len(messages) =>
             k - Len(messages) \in 1..Len(w) /\ messages'[k] = w[k - Len(messages)]
    BY <2>1, <2>2, Added
  <2>4. NoInput
    <3> SUFFICES ASSUME NEW k \in 1..Len(messages'), k > Len(messages) PROVE messages'[k].kind # "input"
      BY DEF NoInput
    <3>1. w[k - Len(messages)] \in Written(t) BY <2>3, Element
    <3> QED BY <2>3, <3>1 DEF Written
  <2> QED BY <1>3, <2>3, <2>4 DEF Writes
<1>4. CASE Reads(t) /\ Answers(t, "accepted") /\ messages' # messages
  <2> PICK w : w = InputMessages(t) OBVIOUS
  <2>1. w \in Seq(Mine(t)) /\ Len(w) = Len(runtimeInputs[t]) /\ messages' = messages \o w
    BY <1>1, <1>4, InputsRead DEF Reads
  <2>2. Grows(t) /\ Len(messages') = Len(messages) + Len(w) BY <2>1, Added
  <2>3. ASSUME UNCHANGED runtimeInputs PROVE NoInput
    <3>1. runtimeInputs[t] = <<>> BY <1>1, <1>4, <2>3 DEF Answers
    <3>2. Len(messages') = Len(messages) BY <2>1, <2>2, <3>1 DEF Grows
    <3> QED BY <2>2, <3>2 DEF NoInput, Grows
  <2> QED BY <1>4, <2>2, <2>3 DEF Reads
<1> QED BY <1>2, <1>3, <1>4 DEF StoresBy

\* A step that neither reads the queue nor asks the model.
LEMMA SeenPlain ==
  ASSUME TypeOK, NEW t \in Turn, Grows(t), NoInput, listed'[t] = listed[t], SeenAt(t),
         ~(loop[t] = "effect" /\ todo[t][1].op \in {"StartModel", "RestartProvider"}),
         loop'[t] \in {"idle", "effect", "select"} => loop[t] \in {"idle", "effect", "select"},
         terminal'[t] = "completed" => terminal[t] = "completed" \/ loop[t] = "effect"
  PROVE  SeenAt(t)'
<1>1. CASE InputsSeen(t)
  <2>1. \A k \in 1..Len(messages') : k \in 1..Len(messages) \/ k > Len(messages) BY DEF Grows
  <2>2. InputsSeen(t)' BY <1>1, <2>1 DEF InputsSeen, Grows, NoInput
  <2> QED BY <2>2 DEF SeenAt
<1>2. CASE loop[t] \notin {"idle", "effect", "select"} /\ terminal[t] # "completed"
  BY <1>2 DEF SeenAt
<1> QED BY <1>1, <1>2 DEF SeenAt


\* A step of the turn's own loop.
LEMMA SeenKept ==
  ASSUME TypeOK, WorkInv, StartInv, [Next]_vars, NEW t \in Turn, LoopStep(t) \/ ProviderStep(t), SeenAt(t)
  PROVE  SeenAt(t)'
<1>0. /\ loop \in [Turn -> LoopPlaces] /\ terminal \in [Turn -> {"none", "completed", "failed", "interrupted"}]
      /\ listed \in [Turn -> Nat] /\ todo \in [Turn -> Seq(Steps)]
      /\ Grows(t) /\ (UNCHANGED runtimeInputs \/ UNCHANGED messages => NoInput)
      /\ loop'[t] \in {"idle", "effect", "select"} => loop[t] \in {"idle", "effect", "select"}
  BY StepStores, Positions, NoReturn DEF TypeOK, EndTypes, TodoTypes, ProviderTypes, Steps
<1>1. ASSUME CheckDone(t) PROVE SeenAt(t)'
  <2>1. listed'[t] = listed[t] /\ (UNCHANGED runtimeInputs \/ UNCHANGED messages)
    BY <1>1 DEF CheckDone
  <2>2. ~(loop[t] = "effect" /\ todo[t][1].op \in {"StartModel", "RestartProvider"})
    BY <1>1 DEF CheckDone, InnerOps
  <2>3. terminal'[t] = "completed" => terminal[t] = "completed" BY <1>0, <1>1 DEF CheckDone
  <2> QED BY <1>0, <2>1, <2>2, <2>3, SeenPlain
<1>2. ASSUME SelectTerminal(t) PROVE SeenAt(t)'
  <2>1. listed'[t] = listed[t] /\ (UNCHANGED runtimeInputs \/ UNCHANGED messages)
    BY <1>2 DEF SelectTerminal, Selecting
  <2>2. ~(loop[t] = "effect" /\ todo[t][1].op \in {"StartModel", "RestartProvider"})
    BY <1>2 DEF SelectTerminal, Selecting
  <2>3. terminal'[t] = "completed" => terminal[t] = "completed" BY <1>0, <1>2 DEF SelectTerminal,
     Selecting
  <2> QED BY <1>0, <2>1, <2>2, <2>3, SeenPlain
<1>3. ASSUME SelectInterrupt(t) PROVE SeenAt(t)'
  <2>1. listed'[t] = listed[t] /\ (UNCHANGED runtimeInputs \/ UNCHANGED messages)
    BY <1>3 DEF SelectInterrupt, Leave, Terminate, Selecting
  <2>2. ~(loop[t] = "effect" /\ todo[t][1].op \in {"StartModel", "RestartProvider"})
    BY <1>3 DEF SelectInterrupt, Selecting
  <2>3. terminal'[t] = "completed" => terminal[t] = "completed" BY <1>0, <1>3
     DEF SelectInterrupt, Leave, Terminate, Selecting
  <2> QED BY <1>0, <2>1, <2>2, <2>3, SeenPlain
<1>4. ASSUME SelectToolResults(t) PROVE SeenAt(t)'
  <2>1. listed'[t] = listed[t] /\ (UNCHANGED runtimeInputs \/ UNCHANGED messages)
    BY <1>4 DEF SelectToolResults, Selecting
  <2>2. ~(loop[t] = "effect" /\ todo[t][1].op \in {"StartModel", "RestartProvider"})
    BY <1>4 DEF SelectToolResults, Selecting
  <2>3. terminal'[t] = "completed" => terminal[t] = "completed" BY <1>0, <1>4
     DEF SelectToolResults, Selecting
  <2> QED BY <1>0, <2>1, <2>2, <2>3, SeenPlain
<1>5. ASSUME HandleToolResult(t) PROVE SeenAt(t)'
  <2>1. listed'[t] = listed[t] /\ (UNCHANGED runtimeInputs \/ UNCHANGED messages)
    BY <1>5 DEF HandleToolResult, Goto, Leave, After
  <2>2. ~(loop[t] = "effect" /\ todo[t][1].op \in {"StartModel", "RestartProvider"})
    BY <1>5 DEF HandleToolResult
  <2>3. terminal'[t] = "completed" => terminal[t] = "completed" BY <1>0, <1>5
     DEF HandleToolResult, Goto, Leave, After
  <2> QED BY <1>0, <2>1, <2>2, <2>3, SeenPlain
<1>6. ASSUME InterpretAppend(t) PROVE SeenAt(t)'
  <2>1. listed'[t] = listed[t] /\ (UNCHANGED runtimeInputs \/ UNCHANGED messages)
    BY <1>6 DEF InterpretAppend, Goto, Proceed, Leave, Terminate, Fail, At, After
  <2>2. ~(loop[t] = "effect" /\ todo[t][1].op \in {"StartModel", "RestartProvider"})
    BY <1>6 DEF InterpretAppend, At
  <2>3. terminal'[t] = "completed" => terminal[t] = "completed" BY <1>0, <1>6
     DEF InterpretAppend, Goto, Proceed, Leave, Terminate, Fail, At, After
  <2> QED BY <1>0, <2>1, <2>2, <2>3, SeenPlain
<1>7. ASSUME InterpretRequestTool(t) PROVE SeenAt(t)'
  <2>1. listed'[t] = listed[t] /\ (UNCHANGED runtimeInputs \/ UNCHANGED messages)
    BY <1>7 DEF InterpretRequestTool, Goto, Leave, At, After
  <2>2. ~(loop[t] = "effect" /\ todo[t][1].op \in {"StartModel", "RestartProvider"})
    BY <1>7 DEF InterpretRequestTool, At
  <2>3. terminal'[t] = "completed" => terminal[t] = "completed" BY <1>0, <1>7
     DEF InterpretRequestTool, Goto, Leave, At, After
  <2> QED BY <1>0, <2>1, <2>2, <2>3, SeenPlain
<1>8. ASSUME InterpretDispatch(t) PROVE SeenAt(t)'
  <2>1. listed'[t] = listed[t] /\ (UNCHANGED runtimeInputs \/ UNCHANGED messages)
    BY <1>8 DEF InterpretDispatch, Goto, Proceed, Leave, Terminate, At, After
  <2>2. ~(loop[t] = "effect" /\ todo[t][1].op \in {"StartModel", "RestartProvider"})
    BY <1>8 DEF InterpretDispatch, At
  <2>3. terminal'[t] = "completed" => terminal[t] = "completed" BY <1>0, <1>8
     DEF InterpretDispatch, Goto, Proceed, Leave, Terminate, At, After
  <2> QED BY <1>0, <2>1, <2>2, <2>3, SeenPlain
<1>9. ASSUME InterpretRunFailed(t) PROVE SeenAt(t)'
  <2>1. listed'[t] = listed[t] /\ (UNCHANGED runtimeInputs \/ UNCHANGED messages)
    BY <1>9 DEF InterpretRunFailed, Leave, Terminate, At
  <2>2. ~(loop[t] = "effect" /\ todo[t][1].op \in {"StartModel", "RestartProvider"})
    BY <1>9 DEF InterpretRunFailed, At
  <2>3. terminal'[t] = "completed" => terminal[t] = "completed" BY <1>0, <1>9
     DEF InterpretRunFailed, Leave, Terminate, At
  <2> QED BY <1>0, <2>1, <2>2, <2>3, SeenPlain
<1>10. ASSUME InterpretStage(t) PROVE SeenAt(t)'
  <2>1. listed'[t] = listed[t] /\ (UNCHANGED runtimeInputs \/ UNCHANGED messages)
    BY <1>10 DEF InterpretStage, Goto, Proceed, At, After
  <2>2. ~(loop[t] = "effect" /\ todo[t][1].op \in {"StartModel", "RestartProvider"})
    BY <1>10 DEF InterpretStage, At
  <2>3. terminal'[t] = "completed" => terminal[t] = "completed" BY <1>0, <1>10
     DEF InterpretStage, Goto, Proceed, At, After
  <2> QED BY <1>0, <2>1, <2>2, <2>3, SeenPlain
<1>11. ASSUME InterpretInterruptTools(t) PROVE SeenAt(t)'
  <2>1. listed'[t] = listed[t] /\ (UNCHANGED runtimeInputs \/ UNCHANGED messages)
    BY <1>11 DEF InterpretInterruptTools, Goto, Proceed, Leave, At, After
  <2>2. ~(loop[t] = "effect" /\ todo[t][1].op \in {"StartModel", "RestartProvider"})
    BY <1>11 DEF InterpretInterruptTools, At
  <2>3. terminal'[t] = "completed" => terminal[t] = "completed" BY <1>0, <1>11
     DEF InterpretInterruptTools, Goto, Proceed, Leave, At, After
  <2> QED BY <1>0, <2>1, <2>2, <2>3, SeenPlain
<1>12. ASSUME InterpretCancelProvider(t) PROVE SeenAt(t)'
  <2>1. listed'[t] = listed[t] /\ (UNCHANGED runtimeInputs \/ UNCHANGED messages)
    BY <1>12 DEF InterpretCancelProvider, Goto, Proceed, At, After
  <2>2. ~(loop[t] = "effect" /\ todo[t][1].op \in {"StartModel", "RestartProvider"})
    BY <1>12 DEF InterpretCancelProvider, At
  <2>3. terminal'[t] = "completed" => terminal[t] = "completed" BY <1>0, <1>12
     DEF InterpretCancelProvider, Goto, Proceed, At, After
  <2> QED BY <1>0, <2>1, <2>2, <2>3, SeenPlain
<1>13. ASSUME InterpretCloseRun(t) PROVE SeenAt(t)'
  <2>1. listed'[t] = listed[t] /\ (UNCHANGED runtimeInputs \/ UNCHANGED messages)
    BY <1>13 DEF InterpretCloseRun, At
  <2>2. ~(loop[t] = "effect" /\ todo[t][1].op \in {"StartModel", "RestartProvider"})
    BY <1>13 DEF InterpretCloseRun, At
  <2>3. terminal'[t] = "completed" => terminal[t] = "completed" BY <1>0, <1>13
     DEF InterpretCloseRun, At
  <2> QED BY <1>0, <2>1, <2>2, <2>3, SeenPlain
<1>14. ASSUME InterpretStartProvider(t) PROVE SeenAt(t)'
  <2> PICK op \in {"StartProvider", "RestartProvider"} : At(t, op) BY <1>14 DEF InterpretStartProvider
  <2>1. loop[t] = "effect" /\ terminal[t] # "completed" /\ Tail(todo[t]) \in Seq(Work(t))
    BY AtWork DEF TypeOK, CleanupOps
  <2> PICK e, q : e = Effect("StartModel") /\ q = Tail(todo[t]) OBVIOUS
  <2>2. Goto(t, <<e>> \o q) \/ Fail(t) BY <1>14 DEF InterpretStartProvider, AppendRuntimeInputs
  <2>3. CASE Goto(t, <<e>> \o q)
    <3>1. e \in Work(t) /\ e.op = "StartModel" BY EffectWork DEF Effects, InnerOps
    <3>2. <<e>> \o q # <<>> /\ (<<e>> \o q)[1] = e BY <2>1, <3>1, Single, Concat, NotEmpty
    <3>3. loop'[t] = "effect" /\ todo'[t] = <<e>> \o q BY <1>0, <2>1, <2>3, <3>2 DEF Goto, After
    <3> QED BY <3>1, <3>2, <3>3 DEF SeenAt
  <2>4. CASE Fail(t)
    <3>1. loop'[t] \notin {"idle", "effect", "select"} /\ terminal'[t] # "completed"
      BY <1>0, <2>1, <2>4 DEF Fail, Terminate, Leave
    <3> QED BY <3>1 DEF SeenAt
  <2> QED BY <2>2, <2>3, <2>4
<1>15. ASSUME InterpretStartModel(t) PROVE SeenAt(t)'
  <2>1. At(t, "StartModel") /\ loop[t] = "effect" /\ terminal[t] # "completed"
    <3>1. At(t, "StartModel") /\ "StartModel" \notin CleanupOps BY <1>15 DEF InterpretStartModel, CleanupOps
    <3> QED BY <3>1, AtWork DEF TypeOK, CleanupOps
  <2>2. CASE Fail(t)
    <3>1. loop'[t] \notin {"idle", "effect", "select"} /\ terminal'[t] # "completed"
      BY <1>0, <2>1, <2>2 DEF Fail, Terminate, Leave
    <3> QED BY <3>1 DEF SeenAt
  <2>3. CASE listed' = [listed EXCEPT ![t] = Len(messages)]
    <3>1. listed'[t] = Len(messages) /\ messages' = messages /\ Len(messages) \in Nat
      BY <1>0, <1>15, <2>3 DEF InterpretStartModel, TypeOK, RuntimeTypes
    <3>2. InputsSeen(t)' BY <3>1 DEF InputsSeen
    <3> QED BY <3>2 DEF SeenAt
  <2> QED BY <1>15, <2>2, <2>3 DEF InterpretStartModel
<1>16. ASSUME InterpretAttemptComplete(t) PROVE SeenAt(t)'
  <2> PICK e : e = Effect(IF runtimeInputs[t] = <<>> THEN "Inspect" ELSE "RestartProvider") OBVIOUS
  <2>0. At(t, "AttemptComplete") /\ AppendRuntimeInputs(t, <<e>>) /\ listed' = listed
    BY <1>16 DEF InterpretAttemptComplete
  <2>1. /\ loop[t] = "effect" /\ terminal[t] # "completed"
        /\ ~(loop[t] = "effect" /\ todo[t][1].op \in {"StartModel", "RestartProvider"})
    BY <2>0, AtWork DEF TypeOK, CleanupOps
  <2>2. CASE runtimeInputs[t] = <<>>
    <3>1. UNCHANGED runtimeInputs
      BY <2>0, <2>2 DEF AppendRuntimeInputs, TypeOK, QueueTypes
    <3> QED BY <1>0, <2>0, <2>1, <3>1, SeenPlain
  <2>3. CASE runtimeInputs[t] # <<>> /\ Goto(t, <<e>>)
    <3>1. e.op = "RestartProvider" /\ <<e>> # <<>> /\ <<e>>[1] = e BY <2>3 DEF Effect
    <3>2. loop'[t] = "effect" /\ todo'[t] = <<e>> BY <1>0, <2>1, <2>3, <3>1 DEF Goto, After
    <3> QED BY <3>1, <3>2 DEF SeenAt
  <2>4. CASE Fail(t)
    <3>1. loop'[t] \notin {"idle", "effect", "select"} /\ terminal'[t] # "completed"
      BY <1>0, <2>1, <2>4 DEF Fail, Terminate, Leave
    <3> QED BY <3>1 DEF SeenAt
  <2> QED BY <2>0, <2>2, <2>3, <2>4 DEF AppendRuntimeInputs
<1>17. ASSUME InterpretInspect(t) PROVE SeenAt(t)'
  <2>1. listed'[t] = listed[t] /\ (UNCHANGED runtimeInputs \/ UNCHANGED messages)
    BY <1>17 DEF InterpretInspect, Goto, Leave, Terminate, Fail, RetryCompletion, At, After
  <2>2. ~(loop[t] = "effect" /\ todo[t][1].op \in {"StartModel", "RestartProvider"})
    BY <1>17 DEF InterpretInspect, At
  <2>3. terminal'[t] = "completed" => terminal[t] = "completed" BY <1>0, <1>17
     DEF InterpretInspect, Goto, Leave, Terminate, Fail, RetryCompletion, At, After
  <2> QED BY <1>0, <2>1, <2>2, <2>3, SeenPlain
<1>18. ASSUME InterpretCommitPending(t) PROVE SeenAt(t)'
  <2>1. listed'[t] = listed[t] /\ (UNCHANGED runtimeInputs \/ UNCHANGED messages)
    BY <1>18 DEF InterpretCommitPending, Goto, Proceed, Leave, Terminate, Fail, At, After
  <2>2. ~(loop[t] = "effect" /\ todo[t][1].op \in {"StartModel", "RestartProvider"})
    BY <1>18 DEF InterpretCommitPending, At
  <2>3. terminal'[t] = "completed" => terminal[t] = "completed" BY <1>0, <1>18
     DEF InterpretCommitPending, Goto, Proceed, Leave, Terminate, Fail, At, After
  <2> QED BY <1>0, <2>1, <2>2, <2>3, SeenPlain
<1>19. ASSUME InterpretRunCompleted(t) PROVE SeenAt(t)'
  <2>1. listed'[t] = listed[t] /\ (UNCHANGED runtimeInputs \/ UNCHANGED messages)
    BY <1>19 DEF InterpretRunCompleted, Leave, Terminate, At
  <2>2. ~(loop[t] = "effect" /\ todo[t][1].op \in {"StartModel", "RestartProvider"})
    BY <1>19 DEF InterpretRunCompleted, At
  <2>3. loop[t] = "effect"
    <3>1. At(t, "RunCompleted") /\ "RunCompleted" \notin CleanupOps BY <1>19 DEF InterpretRunCompleted, CleanupOps
    <3> QED BY <3>1, AtWork DEF TypeOK
  <2> QED BY <1>0, <2>1, <2>2, <2>3, SeenPlain
<1>20. ASSUME InterpretRespond(t) PROVE SeenAt(t)'
  <2>1. listed'[t] = listed[t] /\ (UNCHANGED runtimeInputs \/ UNCHANGED messages)
    BY <1>20 DEF InterpretRespond, Goto, Leave, Terminate, Fail, At, After
  <2>2. ~(loop[t] = "effect" /\ todo[t][1].op \in {"StartModel", "RestartProvider"})
    BY <1>20 DEF InterpretRespond, At
  <2>3. terminal'[t] = "completed" => terminal[t] = "completed" BY <1>0, <1>20
     DEF InterpretRespond, Goto, Leave, Terminate, Fail, At, After
  <2> QED BY <1>0, <2>1, <2>2, <2>3, SeenPlain
<1>21. ASSUME InterpretRespondCompleted(t) PROVE SeenAt(t)'
  <2>1. listed'[t] = listed[t] /\ (UNCHANGED runtimeInputs \/ UNCHANGED messages)
    BY <1>21 DEF InterpretRespondCompleted, At
  <2>2. ~(loop[t] = "effect" /\ todo[t][1].op \in {"StartModel", "RestartProvider"})
    BY <1>21 DEF InterpretRespondCompleted, At
  <2>3. loop[t] = "effect"
    <3>1. At(t, "RespondCompleted") /\ "RespondCompleted" \notin CleanupOps BY <1>21 DEF InterpretRespondCompleted, CleanupOps
    <3> QED BY <3>1, AtWork DEF TypeOK
  <2> QED BY <1>0, <2>1, <2>2, <2>3, SeenPlain
<1>22. ASSUME FinishReject(t) PROVE SeenAt(t)'
  <2>1. listed'[t] = listed[t] /\ (UNCHANGED runtimeInputs \/ UNCHANGED messages)
    BY <1>22 DEF FinishReject, Tell
  <2>2. ~(loop[t] = "effect" /\ todo[t][1].op \in {"StartModel", "RestartProvider"})
    BY <1>22 DEF FinishReject
  <2>3. terminal'[t] = "completed" => terminal[t] = "completed" BY <1>0, <1>22 DEF FinishReject,
     Tell
  <2> QED BY <1>0, <2>1, <2>2, <2>3, SeenPlain
<1>23. ASSUME FinishMark(t) PROVE SeenAt(t)'
  <2>1. listed'[t] = listed[t] /\ (UNCHANGED runtimeInputs \/ UNCHANGED messages)
    BY <1>23 DEF FinishMark
  <2>2. ~(loop[t] = "effect" /\ todo[t][1].op \in {"StartModel", "RestartProvider"})
    BY <1>23 DEF FinishMark
  <2>3. terminal'[t] = "completed" => terminal[t] = "completed" BY <1>0, <1>23 DEF FinishMark
  <2> QED BY <1>0, <2>1, <2>2, <2>3, SeenPlain
<1>24. ASSUME FinishUnregister(t) PROVE SeenAt(t)'
  <2>1. listed'[t] = listed[t] /\ (UNCHANGED runtimeInputs \/ UNCHANGED messages)
    BY <1>24 DEF FinishUnregister
  <2>2. ~(loop[t] = "effect" /\ todo[t][1].op \in {"StartModel", "RestartProvider"})
    BY <1>24 DEF FinishUnregister
  <2>3. terminal'[t] = "completed" => terminal[t] = "completed" BY <1>0, <1>24
     DEF FinishUnregister
  <2> QED BY <1>0, <2>1, <2>2, <2>3, SeenPlain
<1>25. ASSUME FinishClose(t) PROVE SeenAt(t)'
  <2>1. listed'[t] = listed[t] /\ (UNCHANGED runtimeInputs \/ UNCHANGED messages)
    BY <1>25 DEF FinishClose
  <2>2. ~(loop[t] = "effect" /\ todo[t][1].op \in {"StartModel", "RestartProvider"})
    BY <1>25 DEF FinishClose
  <2>3. terminal'[t] = "completed" => terminal[t] = "completed" BY <1>0, <1>25 DEF FinishClose
  <2> QED BY <1>0, <2>1, <2>2, <2>3, SeenPlain
<1>26. ASSUME NEW calls \in CallLists \cup {<<>>}, ProviderCompletes(t, calls) PROVE SeenAt(t)'
  <2>1. listed'[t] = listed[t] /\ (UNCHANGED runtimeInputs \/ UNCHANGED messages)
    BY <1>26 DEF ProviderCompletes, Goto, Leave, CommitEvent, StreamEnds, BeginRecovery,
       FinishRecovery, Selecting, After
  <2>2. ~(loop[t] = "effect" /\ todo[t][1].op \in {"StartModel", "RestartProvider"})
    BY <1>26 DEF ProviderCompletes, Selecting, StreamEnds
  <2>3. terminal'[t] = "completed" => terminal[t] = "completed" BY <1>0, <1>26
     DEF ProviderCompletes, Goto, Leave, CommitEvent, StreamEnds, BeginRecovery, FinishRecovery,
         Selecting, After
  <2> QED BY <1>0, <2>1, <2>2, <2>3, SeenPlain
<1>27. ASSUME ProviderMalformed(t) PROVE SeenAt(t)'
  <2>1. listed'[t] = listed[t] /\ (UNCHANGED runtimeInputs \/ UNCHANGED messages)
    BY <1>27 DEF ProviderMalformed, Goto, Leave, CommitEvent, StreamEnds, BeginRecovery, Selecting,
       After
  <2>2. ~(loop[t] = "effect" /\ todo[t][1].op \in {"StartModel", "RestartProvider"})
    BY <1>27 DEF ProviderMalformed, Selecting, StreamEnds
  <2>3. terminal'[t] = "completed" => terminal[t] = "completed" BY <1>0, <1>27
     DEF ProviderMalformed, Goto, Leave, CommitEvent, StreamEnds, BeginRecovery, Selecting, After
  <2> QED BY <1>0, <2>1, <2>2, <2>3, SeenPlain
<1>28. ASSUME ProviderFails(t) PROVE SeenAt(t)'
  <2>1. listed'[t] = listed[t] /\ (UNCHANGED runtimeInputs \/ UNCHANGED messages)
    BY <1>28 DEF ProviderFails, Goto, Leave, CommitEvent, StreamEnds, Selecting, After
  <2>2. ~(loop[t] = "effect" /\ todo[t][1].op \in {"StartModel", "RestartProvider"})
    BY <1>28 DEF ProviderFails, Selecting, StreamEnds
  <2>3. terminal'[t] = "completed" => terminal[t] = "completed" BY <1>0, <1>28 DEF ProviderFails,
     Goto, Leave, CommitEvent, StreamEnds, Selecting, After
  <2> QED BY <1>0, <2>1, <2>2, <2>3, SeenPlain
<1> QED
  BY <1>1, <1>2, <1>3, <1>4, <1>5, <1>6, <1>7, <1>8, <1>9, <1>10, <1>11, <1>12, <1>13, <1>14,
     <1>15, <1>16, <1>17, <1>18, <1>19, <1>20, <1>21, <1>22, <1>23, <1>24, <1>25, <1>26, <1>27,
     <1>28, Zenon
  DEF LoopStep, ProviderStep

\* Another turn's messages, or none.
LEMMA SeenOther ==
  ASSUME NEW u \in Turn, Same(u), SeenAt(u),
         \/ messages' = messages
         \/ \E t \in Turn \ {u} : Grows(t)
  PROVE  SeenAt(u)'
<1>1. CASE InputsSeen(u)
  <2>1. CASE messages' = messages BY <1>1, <2>1 DEF SeenAt, InputsSeen, Same
  <2>2. ASSUME NEW t \in Turn \ {u}, Grows(t) PROVE SeenAt(u)'
    <3>1. \A k \in 1..Len(messages') : k \in 1..Len(messages) \/ k > Len(messages) BY <2>2 DEF Grows
    <3>2. InputsSeen(u)' BY <1>1, <2>2, <3>1 DEF InputsSeen, Grows, Same
    <3> QED BY <3>2 DEF SeenAt
  <2> QED BY <2>1, <2>2
<1>2. CASE ~InputsSeen(u) BY <1>2 DEF SeenAt, Same
<1> QED BY <1>1, <1>2

\* Every step keeps what the turns have seen.
LEMMA SeenInvKept ==
  ASSUME TypeOK, WorkInv, StartInv, \A t \in Turn : SeenAt(t), [Next]_vars
  PROVE  \A t \in Turn : SeenAt(t)'
<1>0. /\ loop \in [Turn -> LoopPlaces] /\ terminal \in [Turn -> {"none", "completed", "failed", "interrupted"}]
      /\ \E A : todo \in [Turn -> A]
  BY DEF TypeOK, EndTypes, TodoTypes
<1> SUFFICES ASSUME NEW u \in Turn PROVE SeenAt(u)' OBVIOUS
<1>1. ASSUME NEW t \in Turn, LoopStep(t) \/ ProviderStep(t) PROVE SeenAt(u)'
  <2>1. CASE u = t BY <1>1, <2>1, SeenKept
  <2>2. CASE u # t
    <3>1. Same(u) BY <1>1, <2>2, StepIsLocal DEF Local
    <3>2. Grows(t) BY <1>1, StepStores, Positions DEF TypeOK
    <3> QED BY <2>2, <3>1, <3>2, SeenOther
  <2> QED BY <2>1, <2>2
<1>2. ASSUME NEW t \in Turn, AdmitTurn(t) PROVE SeenAt(u)'
  <2>1. /\ starter[t] = "idle" /\ UNCHANGED <<messages, terminal, listed, round, provider>>
        /\ UNCHANGED <<loop, todo>> \/ Goto(t, RunStartedEffects(t))
    BY <1>2 DEF AdmitTurn
  <2>2. loop[t] = "idle" BY <2>1 DEF StartInv, TypeOK, RuntimeTypes
  <2>3. CASE u # t
    <3>1. Same(u) BY <1>0, <2>1, <2>3 DEF Same, Goto
    <3> QED BY <2>1, <3>1, SeenOther
  <2>4. CASE u = t
    <3>1. InputsSeen(t) BY <2>2 DEF SeenAt
    <3>2. InputsSeen(t)' BY <2>1, <3>1 DEF InputsSeen
    <3> QED BY <2>4, <3>2 DEF SeenAt
  <2> QED BY <2>3, <2>4
<1>3. CASE PublishClosed
  <2>1. /\ UNCHANGED <<messages, loop, todo, listed>>
        /\ terminal' = terminal \/ terminal' = [terminal EXCEPT ![closedRun] = "failed"]
    BY <1>3 DEF PublishClosed
  <2>2. terminal'[u] = terminal[u] \/ terminal'[u] = "failed" BY <1>0, <2>1
  <2> QED BY <2>1, <2>2 DEF SeenAt, InputsSeen
<1>4. ASSUME messages' = messages, \A t \in Turn : Same(t) PROVE SeenAt(u)'
  BY <1>4, SeenOther
<1> QED BY <1>1, <1>2, <1>3, <1>4, Concerned DEF Concerns

-----------------------------------------------------------------------------
(* Tool rounds in the transcript. *)

\* Paired, message by message: a call message is followed by its results, and
\* a result has its call message before it.
Followed(t, k, n) ==
  messages[k].turn = t /\ messages[k].kind = "calls" =>
    \A j \in 1..Len(messages[k].what) :
      /\ k + j <= n
      /\ messages[k + j].turn = t /\ messages[k + j].kind = "result"
      /\ messages[k + j].what.call = messages[k].what[j]
Led(t, k) ==
  messages[k].turn = t /\ messages[k].kind = "result" =>
    \E i \in 1..(k - 1) : /\ messages[i].turn = t /\ messages[i].kind = "calls"
                          /\ k - i <= Len(messages[i].what)

\* The two forms say the same.
LEMMA PairedParts ==
  ASSUME NEW t, NEW n
  PROVE  Paired(t, n) <=> \A k \in 1..n : Followed(t, k, n) /\ Led(t, k)
BY DEF Paired, Followed, Led

\* Kinds of messages that pairing does not speak of.
Talk(t) == {m \in Mine(t) : m.kind \notin {"calls", "result"}}

\* Messages behind a paired transcript leave it paired, unless they are calls
\* or results of the turn.
LEMMA PairedOn ==
  ASSUME NEW t \in Turn, NEW m \in Nat, NEW n \in Nat, m <= n,
         messages \in Seq(Messages), m <= Len(messages),
         \A k \in 1..m : messages'[k] = messages[k],
         \A k \in 1..n : k > m => messages'[k].turn # t \/ messages'[k].kind \notin {"calls", "result"},
         Paired(t, m)
  PROVE  Paired(t, n)'
<1> SUFFICES ASSUME NEW k \in 1..n PROVE Followed(t, k, n)' /\ Led(t, k)'
  BY DEF Paired, Followed, Led
<1>1. CASE k > m BY <1>1 DEF Followed, Led
<1>2. CASE k \in 1..m
  <2>1. Followed(t, k, m) /\ Led(t, k) BY <1>2, PairedParts
  <2>2. messages'[k] = messages[k] BY <1>2
  <2>3. Followed(t, k, n)'
    <3> SUFFICES ASSUME messages[k].turn = t, messages[k].kind = "calls",
                        NEW j \in 1..Len(messages[k].what)
                 PROVE  /\ k + j <= n
                        /\ messages'[k + j].turn = t /\ messages'[k + j].kind = "result"
                        /\ messages'[k + j].what.call = messages[k].what[j]
      BY <2>2 DEF Followed
    <3>1. /\ k + j <= m
          /\ messages[k + j].turn = t /\ messages[k + j].kind = "result"
          /\ messages[k + j].what.call = messages[k].what[j]
      BY <2>1 DEF Followed
    <3>2. Len(messages[k].what) \in Nat
      <4>1. Len(messages) \in Nat /\ k \in 1..Len(messages) BY <1>2
      <4>2. messages[k] \in Messages BY <4>1, Element
      <4> QED BY <4>2, MessageParts
    <3>3. k + j \in 1..m /\ k + j <= n BY <1>2, <3>1, <3>2
    <3>4. messages'[k + j] = messages[k + j] BY <3>3
    <3> QED BY <3>1, <3>3, <3>4
  <2>4. Led(t, k)'
    <3> SUFFICES ASSUME messages[k].turn = t, messages[k].kind = "result"
                 PROVE  \E i \in 1..(k - 1) : /\ messages'[i].turn = t /\ messages'[i].kind = "calls"
                                              /\ k - i <= Len(messages'[i].what)
      BY <2>2 DEF Led
    <3>1. PICK i \in 1..(k - 1) : /\ messages[i].turn = t /\ messages[i].kind = "calls"
                                  /\ k - i <= Len(messages[i].what)
      BY <2>1 DEF Led
    <3>2. i \in 1..m BY <1>2
    <3>3. messages'[i] = messages[i] BY <3>2
    <3> QED BY <3>1, <3>3
  <2> QED BY <2>3, <2>4
<1> QED BY <1>1, <1>2

\* The first n messages do not change.
LEMMA PairedStays ==
  ASSUME NEW t \in Turn, NEW u \in Turn, Grows(u), NEW n \in Nat, n <= Len(messages), Paired(t, n)
  PROVE  Paired(t, n)'
<1>1. \A k \in 1..n : messages'[k] = messages[k] /\ ~(k > n) BY DEF Grows
<1> QED BY <1>1, PairedOn DEF Grows

\* Has turn t all its calls answered, in the whole transcript?
Sound(t) == Paired(t, Len(messages))

\* A paired transcript stays paired under messages that are no calls or results of the
\* turn.
LEMMA SoundStays ==
  ASSUME NEW t \in Turn, NEW u \in Turn, Grows(u), Sound(t),
         \/ u # t
         \/ \A k \in 1..Len(messages') : k > Len(messages) => messages'[k].kind \notin {"calls", "result"}
  PROVE  Sound(t)'
<1>1. PICK m \in Nat, n \in Nat : m = Len(messages) /\ n = Len(messages') BY DEF Grows
<1>2. /\ m <= n /\ messages \in Seq(Messages) /\ Paired(t, m)
      /\ \A k \in 1..m : messages'[k] = messages[k]
      /\ \A k \in 1..n : k > m => messages'[k].turn # t \/ messages'[k].kind \notin {"calls", "result"}
  BY <1>1 DEF Grows, Sound
<1>3. Paired(t, n)' BY <1>1, <1>2, PairedOn
<1> QED BY <1>1, <1>3 DEF Sound

\* The last message asks for calls, and all before it is paired.
Open(t, calls) ==
  /\ Len(messages) > 0 /\ messages[Len(messages)] = Message(t, "calls", calls)
  /\ Paired(t, Len(messages) - 1) /\ ~provider[t]

\* The results of the calls, in their order, close the round.
LEMMA Answered ==
  ASSUME RuntimeTypes, NEW t \in Turn, NEW calls \in Seq(Call), Open(t, calls),
         NEW w \in Seq(Mine(t)), messages' = messages \o w, Len(w) = Len(calls),
         \A i \in 1..Len(w) : w[i].turn = t /\ w[i].kind = "result" /\ w[i].what.call = calls[i]
  PROVE  Sound(t)'
<1>1. /\ Grows(t) /\ Len(messages') = Len(messages) + Len(w) /\ Len(w) \in Nat
      /\ \A k \in 1..Len(messages') : k > Len(messages) =>
           k - Len(messages) \in 1..Len(w) /\ messages'[k] = w[k - Len(messages)]
  BY Added
<1>2. PICK m \in Nat, n \in Nat, l \in Nat : m = Len(messages) /\ n = Len(messages') /\ l = Len(calls)
  BY <1>1 DEF Grows
<1>3. /\ m > 0 /\ n = m + l /\ messages \in Seq(Messages) /\ Paired(t, m - 1)
      /\ messages[m] = Message(t, "calls", calls)
      /\ \A k \in 1..m : messages'[k] = messages[k]
  BY <1>1, <1>2 DEF Grows, Open
<1>4. \A k \in 1..n : k > m => /\ messages'[k].turn = t /\ messages'[k].kind = "result"
                               /\ k - m \in 1..l /\ messages'[k].what.call = calls[k - m]
  <2> TAKE k \in 1..n
  <2> HAVE k > m
  <2>1. k - m \in 1..l /\ messages'[k] = w[k - m] BY <1>1, <1>2
  <2> QED BY <1>2, <2>1
<1>5. messages'[m].turn = t /\ messages'[m].kind = "calls" /\ messages'[m].what = calls
  <2>1. messages'[m] = Message(t, "calls", calls) BY <1>2, <1>3
  <2> QED BY <2>1 DEF Message
<1>6. ASSUME NEW k \in 1..n PROVE Followed(t, k, n)' /\ Led(t, k)'
  <2>1. CASE k < m
    <3>1. m - 1 \in Nat /\ k \in 1..(m - 1) BY <1>2, <1>3, <2>1
    <3>2. \A i \in 1..(m - 1) : messages'[i] = messages[i] BY <1>2, <1>3
    <3>3. \A i \in 1..(m - 1) : ~(i > m - 1) BY <1>2, <1>3
    <3>4. Paired(t, m - 1)' BY <1>2, <1>3, <3>1, <3>2, <3>3, PairedOn
    <3>5. Followed(t, k, m - 1)' /\ Led(t, k)' BY <3>1, <3>4 DEF Paired, Followed, Led
    <3>6. \A j \in Nat : k + j <= m - 1 => k + j <= n BY <1>2, <1>3
    <3>7. messages'[k].turn = t /\ messages'[k].kind = "calls" => Len(messages'[k].what) \in Nat
      <4>1. messages[k] \in Messages BY <1>2, <1>3, <2>1, Element
      <4>2. messages'[k] = messages[k] BY <1>2, <1>3, <2>1
      <4> QED BY <4>1, <4>2, MessageParts
    <3>8. ASSUME messages'[k].turn = t, messages'[k].kind = "calls", NEW j \in 1..Len(messages'[k].what)
          PROVE  /\ k + j <= n
                 /\ messages'[k + j].turn = t /\ messages'[k + j].kind = "result"
                 /\ messages'[k + j].what.call = messages'[k].what[j]
      <4>1. j \in Nat BY <3>7, <3>8
      <4>2. /\ k + j <= m - 1
            /\ messages'[k + j].turn = t /\ messages'[k + j].kind = "result"
            /\ messages'[k + j].what.call = messages'[k].what[j]
        BY <3>5, <3>8 DEF Followed
      <4> QED BY <3>6, <4>1, <4>2
    <3>9. Followed(t, k, n)' BY <3>8 DEF Followed
    <3> QED BY <3>5, <3>9
  <2>2. CASE k = m
    <3>1. \A j \in 1..l : m + j \in 1..n /\ m + j > m /\ (m + j) - m = j BY <1>3
    <3>2. Followed(t, m, n)' BY <1>2, <1>3, <1>4, <1>5, <3>1 DEF Followed
    <3>3. Led(t, m)' BY <1>5 DEF Led
    <3> QED BY <2>2, <3>2, <3>3
  <2>3. CASE k > m
    <3>1. Followed(t, k, n)' BY <1>4, <2>3 DEF Followed
    <3>2. m \in 1..(k - 1) /\ k - m <= Len(messages'[m].what) BY <1>2, <1>3, <1>4, <1>5, <2>3
    <3>3. Led(t, k)' BY <1>5, <3>2 DEF Led
    <3> QED BY <3>1, <3>3
  <2> QED BY <2>1, <2>2, <2>3
<1>7. Paired(t, n)' BY <1>6 DEF Paired, Followed, Led
<1> QED BY <1>2, <1>7 DEF Sound

\* A message of calls opens a round.
LEMMA Asked ==
  ASSUME RuntimeTypes, NEW t \in Turn, NEW calls \in Seq(Call), Sound(t), ~provider'[t],
         messages' = messages \o <<Message(t, "calls", calls)>>
  PROVE  Open(t, calls)' /\ Grows(t)
<1> PICK e : e = Message(t, "calls", calls) OBVIOUS
<1>1. e \in Mine(t)
  <2>1. e \in Written(t) BY MessageTypes
  <2> QED BY <2>1 DEF Written, Mine
<1>2. <<e>> \in Seq(Mine(t)) /\ Len(<<e>>) = 1 /\ <<e>>[1] = e BY <1>1, Single
<1>3. /\ Grows(t) /\ Len(messages') = Len(messages) + 1
      /\ \A k \in 1..Len(messages') : k > Len(messages) => messages'[k] = <<e>>[k - Len(messages)]
  <2>1. messages' = messages \o <<e>> OBVIOUS
  <2> QED BY <1>2, <2>1, Added
<1>4. PICK m \in Nat : m = Len(messages) BY <1>3 DEF Grows
<1>5. m + 1 \in 1..(m + 1) /\ m + 1 > m /\ (m + 1) - m = 1 /\ m + 1 > 0 /\ (m + 1) - 1 = m BY <1>4
<1>6. messages'[m + 1] = e BY <1>2, <1>3, <1>4, <1>5
<1>7. Paired(t, m)'
  <2>1. m <= Len(messages) /\ Paired(t, m) BY <1>4 DEF Sound
  <2> QED BY <1>3, <2>1, PairedStays
<1>8. messages'[Len(messages')] = Message(t, "calls", calls) /\ Len(messages') > 0 BY <1>3, <1>4, <1>5, <1>6
<1>9. Len(messages') - 1 = m BY <1>3, <1>4, <1>5
<1>10. Paired(t, Len(messages) - 1)' BY <1>7, <1>9
<1> QED BY <1>3, <1>8, <1>10 DEF Open

-----------------------------------------------------------------------------
(* What a turn's round and its loop's work say of each other. *)

\* Has every call of the round its result?
Settled(t) == Elements(round[t].order) \subseteq Accepted(t)

\* Work that neither asks for calls nor answers them.
QuietOps == {"StartProvider", "StageAssistant", "AttemptComplete", "RunFailed"} \cup InnerOps
Plain(t) == {e \in Work(t) : \/ e.op \in QuietOps
                             \/ e.op = "AppendMessages" /\ e.arg \in Seq(Talk(t))}
Quiet(t) == Sound(t) /\ Settled(t) /\ todo[t] \in Seq(Plain(t))

\* q requests the calls after the first n.
Requests(q, calls, n) ==
  /\ Len(q) = Len(calls) - n
  /\ \A j \in 1..(Len(calls) - n) : q[j] = RequestTool(calls[n + j])

\* A response's calls are about to be stored, ...
Asking(t) ==
  \E calls \in Seq(Call) :
    /\ calls # <<>> /\ Sound(t) /\ ~provider[t] /\ round[t].order = <<>>
    /\ todo[t][1] = AppendMessages(<<Message(t, "calls", calls)>>)
    /\ Requests(Tail(todo[t]), calls, 0)

\* ... the first n of them are requested, ...
Requested(t, calls, n) ==
  /\ Open(t, calls) /\ Accepted(t) = {}
  /\ Len(round[t].order) = n /\ \A i \in 1..n : round[t].order[i] = calls[i]
Requesting(t) ==
  \E calls \in Seq(Call), n \in Nat :
    /\ Requested(t, calls, n)
    /\ \/ n < Len(calls) /\ Requests(todo[t], calls, n)
       \/ n > 0 /\ todo[t][1].op = "DispatchTool" /\ Requests(Tail(todo[t]), calls, n)

\* ... the loop waits for results, ...
Waiting(t) == Open(t, round[t].order) /\ ~Settled(t)

\* ... and all of them are about to be stored.
Completes(t, ms) ==
  /\ Len(ms) = Len(round[t].order)
  /\ \A i \in 1..Len(ms) : /\ ms[i].turn = t /\ ms[i].kind = "result"
                           /\ ms[i].what.call = round[t].order[i]
Answering(t) ==
  /\ Open(t, round[t].order) /\ Settled(t)
  /\ todo[t][1].op = "AppendMessages" /\ Completes(t, todo[t][1].arg)
  /\ Tail(todo[t]) \in Seq(Plain(t))

RoundAt(t) ==
  /\ provider[t] => Paired(t, listed[t])
  /\ terminal[t] = "completed" => Sound(t)
  /\ loop[t] = "effect" => \/ Quiet(t) \/ todo[t][1].op = "RunFailed"
                           \/ Asking(t) \/ Requesting(t) \/ Answering(t)
  /\ loop[t] = "select" => (Sound(t) /\ Settled(t)) \/ Waiting(t)

\* What the invariant reads of a turn stays.
LEMMA RoundSame ==
  ASSUME NEW t \in Turn, Same(t), messages' = messages, RoundAt(t)
  PROVE  RoundAt(t)'
<1>1. Sound(t)' = Sound(t) /\ Settled(t)' = Settled(t)
  BY DEF Same, Sound, Paired, Settled, Accepted
<1>2. \A calls : Open(t, calls)' = Open(t, calls) BY DEF Same, Open, Paired
<1>3. Quiet(t)' = Quiet(t) BY <1>1 DEF Same, Quiet
<1>4. Asking(t)' = Asking(t) BY <1>1 DEF Same, Asking
<1>5. Requesting(t)' = Requesting(t) BY <1>2 DEF Same, Requesting, Requested, Accepted
<1>6. Waiting(t)' = Waiting(t) BY <1>1, <1>2 DEF Same, Waiting
<1>7. Answering(t)' = Answering(t) BY <1>1, <1>2 DEF Same, Answering, Completes
<1>8. (provider[t] => Paired(t, listed[t]))' BY SMTT(20) DEF Same, Paired, RoundAt
<1> QED BY <1>1, <1>3, <1>4, <1>5, <1>6, <1>7, <1>8 DEF Same, RoundAt

\* Another turn's step.
LEMMA RoundOther ==
  ASSUME TypeOK, NEW t \in Turn, Same(t), RoundAt(t), NEW u \in Turn \ {t}, Grows(u),
         messages' = messages \/ loop[t] \notin {"effect", "select"}
  PROVE  RoundAt(t)'
<1>1. CASE messages' = messages BY <1>1, RoundSame
<1>2. CASE loop[t] \notin {"effect", "select"}
  <2>1. listed[t] \in Nat /\ listed[t] <= Len(messages) BY DEF TypeOK, ProviderTypes
  <2>2. PICK n \in Nat : n = listed[t] BY <2>1
  <2>3. Sound(t) => Sound(t)' BY SoundStays
  <2>4. (provider[t] => Paired(t, listed[t]))'
    <3>1. provider[t] => Paired(t, n)' BY <2>1, <2>2, PairedStays DEF RoundAt
    <3>2. listed'[t] = n /\ provider'[t] = provider[t] BY <2>2 DEF Same
    <3> QED BY <3>1, <3>2
  <2> QED BY <1>2, <2>3, <2>4 DEF RoundAt, Same
<1> QED BY <1>1, <1>2

\* The last request to the model stays what it was.
LEMMA RequestStays ==
  ASSUME TypeOK, NEW t \in Turn, RoundAt(t), Grows(t), provider[t], listed'[t] = listed[t]
  PROVE  Paired(t, listed[t])'
<1>1. listed[t] \in Nat /\ listed[t] <= Len(messages) BY DEF TypeOK, ProviderTypes
<1>2. PICK n \in Nat : n = listed[t] BY <1>1
<1>3. Paired(t, n)' BY <1>1, <1>2, PairedStays DEF RoundAt
<1> QED BY <1>2, <1>3

\* A loop that leaves its round behind.
LEMMA EndsRound ==
  ASSUME TypeOK, NEW t \in Turn, RoundAt(t), Grows(t), loop'[t] \notin {"effect", "select"},
         provider'[t] => provider[t] /\ listed'[t] = listed[t],
         terminal'[t] = "completed" => Sound(t)' \/ (terminal[t] = "completed" /\ messages' = messages)
  PROVE  RoundAt(t)'
<1>1. provider'[t] => Paired(t, listed[t])' BY RequestStays
<1>2. messages' = messages /\ Sound(t) => Sound(t)' BY DEF Sound, Paired
<1> QED BY <1>1, <1>2 DEF RoundAt

\* A loop that goes on without calls.
LEMMA QuietStep ==
  ASSUME TypeOK, NEW t \in Turn, RoundAt(t), Sound(t)', Grows(t), round'[t] = round[t], Settled(t),
         todo'[t] \in Seq(Plain(t)),
         provider'[t] => \/ provider[t] /\ listed'[t] = listed[t]
                         \/ listed'[t] = Len(messages')
  PROVE  RoundAt(t)'
<1>1. Settled(t)' BY DEF Settled, Accepted
<1>2. Quiet(t)' BY <1>1 DEF Quiet
<1>3. (provider[t] => Paired(t, listed[t]))'
  <2>1. CASE provider[t] /\ listed'[t] = listed[t] BY <2>1, RequestStays
  <2>2. CASE listed'[t] = Len(messages') BY <2>2 DEF Sound
  <2> QED BY <2>1, <2>2
<1> QED BY <1>1, <1>2, <1>3 DEF RoundAt

\* Plain effects and lists of them.
LEMMA PlainLists ==
  ASSUME NEW t \in Turn
  PROVE  /\ \A op \in QuietOps : <<Effect(op)>> \in Seq(Plain(t))
         /\ \A op, next \in QuietOps : <<Effect(op), Effect(next)>> \in Seq(Plain(t))
         /\ \A op \in QuietOps, w \in Seq(Plain(t)) : <<Effect(op)>> \o w \in Seq(Plain(t))
         /\ RunStartedEffects(t) \in Seq(Plain(t))
<1>1. \A op \in QuietOps : Effect(op) \in Plain(t)
  BY EffectWork DEF Plain, QuietOps, InnerOps, Effects
<1>2. AppendMessages(<<Message(t, "user", None)>>) \in Plain(t)
  <2>1. Message(t, "user", None) \in Written(t) BY MessageTypes
  <2>2. Message(t, "user", None) \in Talk(t)
    BY <2>1 DEF Talk, Mine, Written, Message
  <2>3. /\ <<Message(t, "user", None)>> \in Seq(Talk(t))
        /\ <<Message(t, "user", None)>> \in Seq(Written(t))
    BY <2>1, <2>2, Single
  <2>4. AppendMessages(<<Message(t, "user", None)>>) \in Work(t) BY <2>3, EffectWork
  <2> QED BY <2>3, <2>4 DEF Plain, AppendMessages
<1>3. \A op \in QuietOps : <<Effect(op)>> \in Seq(Plain(t)) BY <1>1, Single
<1>4. \A op, next \in QuietOps : <<Effect(op), Effect(next)>> \in Seq(Plain(t)) BY <1>1, Pair
<1>5. \A op \in QuietOps, w \in Seq(Plain(t)) : <<Effect(op)>> \o w \in Seq(Plain(t))
  BY <1>3, Concat
<1>6. "Respond" \in QuietOps /\ "StartProvider" \in QuietOps BY DEF QuietOps, InnerOps
<1>7. RunStartedEffects(t) \in Seq(Plain(t))
  <2>1. <<Effect("Respond")>> \in Seq(Plain(t)) BY <1>3, <1>6
  <2>2. <<AppendMessages(<<Message(t, "user", None)>>), Effect("StartProvider")>> \in Seq(Plain(t))
    BY <1>1, <1>2, <1>6, Pair
  <2> QED BY <2>1, <2>2 DEF RunStartedEffects
<1> QED BY <1>3, <1>4, <1>5, <1>7

\* What the loop's effect says of the round.
LEMMA OpAt ==
  ASSUME TypeOK, WorkInv, NEW t \in Turn, RoundAt(t), NEW op, At(t, op), loop[t] = "effect"
  PROVE  \/ op = "RunFailed"
         \/ op \in QuietOps /\ Quiet(t)
         \/ op = "AppendMessages" /\ (Quiet(t) \/ Asking(t) \/ Answering(t))
         \/ /\ op = "RequestTool"
            /\ \E calls \in Seq(Call), n \in Nat :
                 Requested(t, calls, n) /\ n < Len(calls) /\ Requests(todo[t], calls, n)
         \/ /\ op = "DispatchTool"
            /\ \E calls \in Seq(Call), n \in Nat :
                 Requested(t, calls, n) /\ n > 0 /\ Requests(Tail(todo[t]), calls, n)
<1>1. todo[t][1].op = op /\ todo[t] # <<>> BY DEF At
<1>2. CASE Quiet(t)
  <2>1. todo[t] \in Seq(Plain(t)) BY <1>2 DEF Quiet
  <2>2. Len(todo[t]) \in Nat /\ Len(todo[t]) > 0 BY <1>1, <2>1, TailOf
  <2>3. todo[t][1] \in Plain(t) BY <2>1, <2>2, Element
  <2> QED BY <1>1, <1>2, <2>3 DEF Plain
<1>3. CASE Asking(t)
  <2>1. \A ms : AppendMessages(ms).op = "AppendMessages" BY DEF AppendMessages
  <2> QED BY <1>1, <1>3, <2>1 DEF Asking
<1>4. CASE Answering(t) BY <1>1, <1>4 DEF Answering
<1>5. CASE Requesting(t)
  <2>1. PICK calls \in Seq(Call), n \in Nat :
           /\ Requested(t, calls, n)
           /\ \/ n < Len(calls) /\ Requests(todo[t], calls, n)
              \/ n > 0 /\ todo[t][1].op = "DispatchTool" /\ Requests(Tail(todo[t]), calls, n)
    BY <1>5 DEF Requesting
  <2>2. CASE n < Len(calls) /\ Requests(todo[t], calls, n)
    <3>1. 1 \in 1..(Len(calls) - n) BY <2>1, <2>2
    <3>2. todo[t][1] = RequestTool(calls[n + 1]) BY <2>2, <3>1 DEF Requests
    <3>3. op = "RequestTool" BY <1>1, <3>2 DEF RequestTool
    <3> QED BY <2>1, <2>2, <3>3
  <2> QED BY <1>1, <2>1, <2>2
<1> QED BY <1>1, <1>2, <1>3, <1>4, <1>5 DEF RoundAt

\* An effect that does not concern calls finds them answered.
LEMMA QuietAt ==
  ASSUME TypeOK, WorkInv, NEW t \in Turn, RoundAt(t), NEW op \in QuietOps \ {"RunFailed"}, At(t, op)
  PROVE  /\ loop[t] = "effect" /\ terminal[t] # "completed" /\ Sound(t) /\ Settled(t)
         /\ todo[t] \in Seq(Plain(t)) /\ todo[t] # <<>> /\ Tail(todo[t]) \in Seq(Plain(t))
<1>1. loop[t] = "effect" /\ terminal[t] # "completed" /\ todo[t] # <<>>
  BY AtWork DEF TypeOK, QuietOps, InnerOps, CleanupOps
<1>2. op \notin {"AppendMessages", "RequestTool", "DispatchTool", "RunFailed"} BY DEF QuietOps, InnerOps
<1>3. Quiet(t) BY <1>1, <1>2, OpAt
<1>4. Tail(todo[t]) \in Seq(Plain(t)) BY <1>1, <1>3, TailOf DEF Quiet
<1> QED BY <1>1, <1>3, <1>4 DEF Quiet

\* Where nothing is stored, the transcript stays paired,
LEMMA SoundSame == ASSUME NEW t, messages' = messages, Sound(t) PROVE Sound(t)'
BY DEF Sound, Paired

\* and an open round stays open.
LEMMA OpenSame ==
  ASSUME NEW t, NEW calls, messages' = messages, provider'[t] = provider[t], Open(t, calls)
  PROVE  Open(t, calls)'
BY DEF Open, Paired

\* Messages that are no calls and no results.
LEMMA TalkSound ==
  ASSUME RuntimeTypes, NEW t \in Turn, Sound(t), NEW w \in Seq(Talk(t)), messages' = messages \o w
  PROVE  Sound(t)'
<1>1. w \in Seq(Mine(t))
  <2>1. Talk(t) \subseteq Mine(t) BY DEF Talk
  <2> QED BY <2>1, Wider
<1>2. /\ Grows(t)
      /\ \A k \in 1..Len(messages') : k > Len(messages) =>
           k - Len(messages) \in 1..Len(w) /\ messages'[k] = w[k - Len(messages)]
  BY <1>1, Added
<1>3. \A k \in 1..Len(messages') : k > Len(messages) => messages'[k].kind \notin {"calls", "result"}
  <2> TAKE k \in 1..Len(messages')
  <2> HAVE k > Len(messages)
  <2>1. w[k - Len(messages)] \in Talk(t) BY <1>2, Element
  <2> QED BY <1>2, <2>1 DEF Talk
<1> QED BY <1>2, <1>3, SoundStays

\* Prompts, replies and injected messages are neither calls nor results.
LEMMA TalkTypes ==
  ASSUME NEW t \in Turn
  PROVE  /\ Message(t, "user", None) \in Talk(t) /\ Message(t, "assistant", None) \in Talk(t)
         /\ \A i \in Input : Message(t, "input", i) \in Talk(t)
         /\ runtimeInputs[t] \in Seq(Input) => InputMessages(t) \in Seq(Talk(t))
<1>1. Message(t, "user", None) \in Talk(t) /\ Message(t, "assistant", None) \in Talk(t)
  BY MessageTypes DEF Talk, Mine, Written, Message
<1>2. \A i \in Input : Message(t, "input", i) \in Talk(t)
  <2> TAKE i \in Input
  <2>1. Message(t, "input", i) \in Messages BY MessageTypes
  <2> QED BY <2>1 DEF Talk, Mine, Message
<1>3. ASSUME runtimeInputs[t] \in Seq(Input) PROVE InputMessages(t) \in Seq(Talk(t))
  <2> PICK n \in Nat : n = Len(runtimeInputs[t]) BY <1>3
  <2> DEFINE f == [k \in 1..n |-> Message(t, "input", runtimeInputs[t][k])]
  <2>1. \A k \in 1..n : runtimeInputs[t][k] \in Input BY <1>3
  <2>2. f \in [1..n -> Talk(t)] BY <1>2, <2>1
  <2>3. InputMessages(t) = f BY DEF InputMessages
  <2> HIDE DEF f
  <2> QED BY <2>2, <2>3, FunctionIsSeq
<1> QED BY <1>1, <1>2, <1>3

\* A cleanup goes on with the next effect; CloseRun is the last.
LEMMA CleanupStep ==
  ASSUME TypeOK, WorkInv, NEW t \in Turn, NEW op \in {"InterruptTools", "CancelProvider", "AppendMessages"},
         At(t, op), loop[t] = "closing", Proceed(t)
  PROVE  loop'[t] = "closing" /\ terminal[t] # "completed"
<1>1. loop \in [Turn -> LoopPlaces] BY DEF TypeOK, TodoTypes
<1>2. terminal[t] # "completed" /\ Tail(todo[t]) # <<>> BY AtWork, ClosingWork, ZenonT(40) DEF TypeOK
<1> QED BY <1>1, <1>2 DEF Proceed, Goto, After

\* Only a loop that closes cancels.
LEMMA CleanupAt ==
  ASSUME TypeOK, WorkInv, NEW t \in Turn, RoundAt(t), NEW op \in {"InterruptTools", "CancelProvider"}, At(t, op)
  PROVE  loop[t] = "closing"
<1>1. loop[t] \in {"effect", "closing"} BY DEF At
<1>2. op \notin QuietOps BY DEF QuietOps, InnerOps
<1> QED BY <1>1, <1>2, OpAt

\* The loop's next work after an event.
LEMMA GotoTo ==
  ASSUME TypeOK, NEW t \in Turn, NEW w, Goto(t, w)
  PROVE  /\ w # <<>> /\ loop[t] # "closing" => loop'[t] = "effect"
         /\ w = <<>> /\ ~Done(t) => loop'[t] = "select"
         /\ w \in Seq(Steps) => todo'[t] = w
<1>1. loop \in [Turn -> LoopPlaces] /\ todo \in [Turn -> Seq(Steps)] BY DEF TypeOK, TodoTypes, Steps
<1> QED BY <1>1 DEF Goto, After

\* Plain work is work.
LEMMA PlainIsStep == ASSUME NEW t \in Turn, NEW w \in Seq(Plain(t)) PROVE w \in Seq(Steps)
<1>1. Plain(t) \subseteq Steps BY DEF Plain, Work
<1> QED BY <1>1, Wider

\* An event with plain effects, in a turn whose calls are answered.
LEMMA QuietGoes ==
  ASSUME TypeOK, NEW t \in Turn, RoundAt(t), Sound(t)', Grows(t), round'[t] = round[t], Settled(t),
         NEW w \in Seq(Plain(t)), Goto(t, w),
         provider'[t] => \/ provider[t] /\ listed'[t] = listed[t]
                         \/ listed'[t] = Len(messages')
  PROVE  RoundAt(t)'
<1>1. todo'[t] = w BY PlainIsStep, GotoTo
<1> QED BY <1>1, QuietStep

\* A loop that fails, or leaves, has no round any more.
LEMMA Fails ==
  ASSUME TypeOK, NEW t \in Turn, RoundAt(t), messages' = messages, Grows(t),
         provider'[t] => provider[t] /\ listed'[t] = listed[t], terminal[t] # "completed",
         \/ Fail(t)
         \/ Leave(t)
         \/ \E kind \in {"failed", "interrupted"} : \E w : Terminate(t, kind, w)
  PROVE  RoundAt(t)'
<1>1. /\ loop \in [Turn -> LoopPlaces] /\ terminal \in [Turn -> {"none", "completed", "failed", "interrupted"}]
  BY DEF TypeOK, TodoTypes, EndTypes
<1>2. CASE Leave(t)
  <2>1. loop'[t] \notin {"effect", "select"} /\ terminal'[t] # "completed" BY <1>1, <1>2 DEF Leave
  <2> QED BY <2>1, EndsRound
<1>3. ASSUME NEW kind \in {"failed", "interrupted"}, NEW w, Terminate(t, kind, w) PROVE RoundAt(t)'
  <2>1. loop'[t] \notin {"effect", "select"} /\ terminal'[t] # "completed" BY <1>1, <1>3 DEF Leave, Terminate
  <2> QED BY <2>1, EndsRound
<1>4. CASE Fail(t)
  <2>1. loop'[t] \notin {"effect", "select"} /\ terminal'[t] # "completed" BY <1>1, <1>4 DEF Leave, Terminate, Fail
  <2> QED BY <2>1, EndsRound
<1> QED BY <1>2, <1>3, <1>4

\* The end of a stream, in a turn whose calls are answered.
LEMMA CommitRound ==
  ASSUME TypeOK, WorkInv, NEW t \in Turn, RoundAt(t), Grows(t), loop[t] = "select", messages' = messages,
         Sound(t), Settled(t), ~provider'[t], round'[t] = round[t],
         NEW w \in Seq(Plain(t)), CommitEvent(t, w)
  PROVE  RoundAt(t)'
<1>1. terminal[t] # "completed" BY DEF WorkInv
<1>2. CASE Leave(t) BY <1>1, <1>2, Fails
<1>3. CASE Goto(t, w)
  <2>1. Sound(t)' BY SoundSame
  <2> QED BY <1>3, <2>1, QuietGoes
<1> QED BY <1>2, <1>3 DEF CommitEvent

\* A malformed response, in a turn whose calls are answered.
LEMMA RecoveryRound ==
  ASSUME TypeOK, WorkInv, NEW t \in Turn, RoundAt(t), Grows(t), loop[t] = "select", messages' = messages,
         Sound(t), Settled(t), ~provider'[t], round'[t] = round[t], BeginRecovery(t)
  PROVE  RoundAt(t)'
<1> PICK op \in {"StartProvider", "RunFailed"} : CommitEvent(t, <<Effect(op)>>) BY DEF BeginRecovery
<1>1. <<Effect(op)>> \in Seq(Plain(t))
  <2>1. op \in QuietOps BY DEF QuietOps
  <2> QED BY <2>1, PlainLists
<1> QED BY <1>1, CommitRound

\* A subscribed stream means that no calls are open.
LEMMA Streaming ==
  ASSUME TypeOK, NEW t \in Turn, RoundAt(t), StreamEnds(t)
  PROVE  Sound(t) /\ Settled(t) /\ loop[t] = "select" /\ ~provider'[t]
<1>1. provider \in [Turn -> BOOLEAN] BY DEF TypeOK, ProviderTypes
<1>2. loop[t] = "select" /\ provider[t] BY DEF StreamEnds, Selecting
<1>3. ~Waiting(t) BY <1>2 DEF Waiting, Open
<1> QED BY <1>1, <1>2, <1>3 DEF StreamEnds, RoundAt

\* An element before a sequence.
LEMMA ConsTail ==
  ASSUME NEW S, NEW a \in S, NEW q \in Seq(S)
  PROVE  /\ Tail(<<a>> \o q) = q /\ (<<a>> \o q)[1] = a /\ <<a>> \o q # <<>>
         /\ <<a>> \o q \in Seq(S)
<1>1. /\ <<a>> \o q \in Seq(S) /\ Len(<<a>> \o q) = 1 + Len(q) /\ Len(q) \in Nat
      /\ \A j \in 1..1 : (<<a>> \o q)[j] = <<a>>[j]
      /\ \A j \in 1..Len(q) : (<<a>> \o q)[1 + j] = q[j]
  BY Single, Concat
<1>2. <<a>> \o q # <<>> /\ (<<a>> \o q)[1] = a
  <2>1. Len(<<a>> \o q) > 0 BY <1>1
  <2> QED BY <1>1, <2>1, NotEmpty
<1>3. /\ Tail(<<a>> \o q) \in Seq(S) /\ Len(Tail(<<a>> \o q)) = Len(q)
      /\ \A i \in 1..Len(q) : Tail(<<a>> \o q)[i] = (<<a>> \o q)[i + 1]
  BY <1>1, <1>2, TailOf
<1>4. \A i \in 1..Len(q) : Tail(<<a>> \o q)[i] = q[i] BY <1>1, <1>3
<1>5. Tail(<<a>> \o q) = q BY <1>3, <1>4, SameSeq
<1> QED BY <1>1, <1>2, <1>5

\* The results of a round, as a list.
LEMMA ResultsListed ==
  ASSUME NEW t \in Turn, NEW order, order = round[t].order, order \in Seq(Call),
         NEW answer, \A c \in Elements(order) : answer[c] \in Status,
         NEW ms, ms = ResultMessages(t, answer)
  PROVE  /\ ms \in Seq(Written(t)) /\ Len(ms) = Len(order)
         /\ \A i \in 1..Len(order) : ms[i].turn = t /\ ms[i].kind = "result" /\ ms[i].what.call = order[i]
BY ResultsWritten

\* The rest of two elements.
LEMMA PairTail ==
  ASSUME NEW S, NEW a \in S, NEW b \in S PROVE Tail(<<a, b>>) = <<b>>
OBVIOUS

\* A loop that fails its run is about to interpret nothing else.
LEMMA FailRound ==
  ASSUME TypeOK, NEW t \in Turn, RoundAt(t), Grows(t), loop[t] = "select", UNCHANGED <<provider, listed, terminal>>,
         terminal[t] # "completed", Goto(t, <<Effect("RunFailed")>>)
  PROVE  RoundAt(t)'
<1>1. <<Effect("RunFailed")>> \in Seq(Work(t)) BY Lists
<1>2. <<Effect("RunFailed")>> \in Seq(Steps)
  <2>1. Work(t) \subseteq Steps BY DEF Work
  <2> QED BY <1>1, <2>1, Wider
<1> PICK e : e = Effect("RunFailed") OBVIOUS
<1>3. <<e>> # <<>> /\ <<e>>[1] = e /\ e.op = "RunFailed" BY DEF Effect
<1>4. loop'[t] = "effect" /\ todo'[t] = <<e>> BY <1>2, <1>3, GotoTo
<1>5. (provider[t] => Paired(t, listed[t]))' BY RequestStays
<1>6. terminal'[t] # "completed" /\ todo'[t][1].op = "RunFailed" BY <1>3, <1>4
<1> QED BY <1>4, <1>5, <1>6 DEF RoundAt

\* A step of the turn's own loop.
LEMMA RoundKept ==
  ASSUME TypeOK, WorkInv, NEW t \in Turn, LoopStep(t) \/ ProviderStep(t), RoundAt(t)
  PROVE  RoundAt(t)'
<1>0. /\ loop \in [Turn -> LoopPlaces] /\ terminal \in [Turn -> {"none", "completed", "failed", "interrupted"}]
      /\ provider \in [Turn -> BOOLEAN] /\ listed \in [Turn -> Nat]
      /\ \E A : todo \in [Turn -> A]
      /\ \E A : round \in [Turn -> A]
      /\ Grows(t)
      /\ terminal[t] = "completed" => loop[t] \notin {"idle", "effect", "select"}
  BY StepStores, Positions DEF TypeOK, EndTypes, TodoTypes, RoundTypes, ProviderTypes, WorkInv
<1>1. ASSUME CheckDone(t) PROVE RoundAt(t)'
  <2>1. /\ loop'[t] \notin {"effect", "select"} /\ messages' = messages
        /\ provider'[t] => provider[t] /\ listed'[t] = listed[t]
        /\ terminal'[t] = terminal[t]
    BY <1>0, <1>1 DEF CheckDone
  <2> QED BY <1>0, <2>1, EndsRound
<1>2. ASSUME SelectTerminal(t) PROVE RoundAt(t)'
  <2>1. /\ loop'[t] \notin {"effect", "select"} /\ messages' = messages
        /\ provider'[t] => provider[t] /\ listed'[t] = listed[t]
        /\ terminal'[t] = terminal[t]
    BY <1>0, <1>2 DEF SelectTerminal, Selecting
  <2> QED BY <1>0, <2>1, EndsRound
<1>3. ASSUME SelectInterrupt(t) PROVE RoundAt(t)'
  <2>1. /\ UNCHANGED <<messages, provider, listed>> /\ loop[t] = "select"
        /\ \E kind \in {"failed", "interrupted"} : \E w : Terminate(t, kind, w)
    BY <1>3 DEF SelectInterrupt, Selecting
  <2> QED BY <1>0, <2>1, Fails
<1>4. ASSUME SelectToolResults(t) PROVE RoundAt(t)'
  <2>1. Same(t) /\ messages' = messages BY <1>4 DEF Same, SelectToolResults, Selecting
  <2> QED BY <2>1, RoundSame
<1>5. ASSUME HandleToolResult(t) PROVE RoundAt(t)'
  <2> PICK c, status : c = Head(batch[t]).call /\ status = Head(batch[t]).status OBVIOUS
  <2>0. PICK accepted : accepted = [d \in Accepted(t) \cup {c} |->
                                      IF d \in Accepted(t) THEN round[t].accepted[d] ELSE status]
    OBVIOUS
  <2>1. /\ loop[t] = "select" /\ batch[t] # <<>> /\ UNCHANGED <<messages, provider, listed>>
        /\ terminal[t] # "completed"
    BY <1>0, <1>5 DEF HandleToolResult
  <2>2. \/ Leave(t)
        \/ Goto(t, <<Effect("RunFailed")>>) /\ UNCHANGED terminal
        \/ UNCHANGED <<terminal, loop, todo, round>>
        \/ /\ UNCHANGED terminal
           /\ terminal[t] = "none" /\ c \in Elements(round[t].order) \ Accepted(t)
           /\ round' = [round EXCEPT ![t] = [order |-> round[t].order, accepted |-> accepted]]
           /\ IF Elements(round[t].order) \subseteq DOMAIN accepted
              THEN Goto(t, RoundEffects(t, accepted))
              ELSE UNCHANGED <<loop, todo>>
    BY <1>5, <2>0 DEF HandleToolResult
  <2>3. CASE Leave(t) BY <1>0, <2>1, <2>3, Fails
  <2>4. CASE Goto(t, <<Effect("RunFailed")>>) /\ UNCHANGED terminal
    BY <1>0, <2>1, <2>4, FailRound
  <2>5. CASE UNCHANGED <<terminal, loop, todo, round>>
    <3>1. Same(t) BY <2>1, <2>5 DEF Same
    <3> QED BY <2>1, <3>1, RoundSame
  <2>6. CASE /\ UNCHANGED terminal
             /\ terminal[t] = "none" /\ c \in Elements(round[t].order) \ Accepted(t)
             /\ round' = [round EXCEPT ![t] = [order |-> round[t].order, accepted |-> accepted]]
             /\ IF Elements(round[t].order) \subseteq DOMAIN accepted
                THEN Goto(t, RoundEffects(t, accepted))
                ELSE UNCHANGED <<loop, todo>>
    <3> PICK order : order = round[t].order OBVIOUS
    <3>1. Open(t, order) /\ order \in Seq(Call)
      BY <2>1, <2>6, RoundParts DEF Settled, RoundAt, Waiting, TypeOK
    <3>2. round'[t].order = order /\ Accepted(t)' = DOMAIN accepted
      BY <1>0, <2>0, <2>6 DEF Accepted
    <3>3. Open(t, order)' /\ ~provider'[t] BY <2>1, <3>1, OpenSame DEF Open
    <3>4. terminal'[t] # "completed" BY <2>6
    <3>5. CASE ~(Elements(order) \subseteq DOMAIN accepted)
      <4>1. loop'[t] = "select" BY <2>1, <2>6, <3>5
      <4>2. Waiting(t)' BY <3>2, <3>3, <3>5 DEF Waiting, Settled
      <4> QED BY <3>3, <3>4, <4>1, <4>2 DEF RoundAt
    <3>6. CASE Elements(order) \subseteq DOMAIN accepted
      <4>1. \A d \in Elements(order) : accepted[d] \in Status
        <5>1. batch[t] \in Seq(Result) BY DEF TypeOK, RoundTypes
        <5>2. Head(batch[t]) \in Result BY <2>1, <5>1
        <5>3. status \in Status BY <5>2 DEF Result
        <5> QED BY <2>0, <3>6, <5>3, RoundParts DEF TypeOK
      <4> PICK ms : ms = ResultMessages(t, accepted) OBVIOUS
      <4>2. /\ ms \in Seq(Written(t)) /\ Len(ms) = Len(order)
            /\ \A i \in 1..Len(order) : ms[i].turn = t /\ ms[i].kind = "result" /\ ms[i].what.call = order[i]
        <5>1. round[t].order \in Seq(Call) /\ \A d \in Elements(round[t].order) : accepted[d] \in Status
          BY <3>1, <4>1
        <5> HIDE DEF TypeOK
        <5> QED BY <5>1, ResultsListed
      <4> PICK op \in {"AttemptComplete", "StartProvider"} :
             RoundEffects(t, accepted) = <<AppendMessages(ms), Effect(op)>>
        BY DEF RoundEffects
      <4> PICK a, b : a = AppendMessages(ms) /\ b = Effect(op) OBVIOUS
      <4>3. a \in Work(t) /\ b \in Work(t) /\ <<b>> \in Seq(Plain(t)) /\ Work(t) \subseteq Steps
        <5>1. op \in QuietOps /\ op \in Effects \ {"AppendMessages", "RequestTool", "DispatchTool"}
          BY DEF QuietOps, Effects
        <5> QED BY <4>2, <5>1, EffectWork, PlainLists
      <4>4. /\ <<a, b>> \in Seq(Work(t)) /\ <<a, b>> # <<>> /\ <<a, b>>[1] = a /\ Tail(<<a, b>>) = <<b>>
            /\ <<a, b>> \in Seq(Steps)
        BY <4>3, Pair, PairTail, Wider
      <4>5. Goto(t, <<a, b>>) BY <2>6, <3>6
      <4>6. loop'[t] = "effect" /\ todo'[t] = <<a, b>> BY <2>1, <4>4, <4>5, GotoTo
      <4>7. a.op = "AppendMessages" /\ a.arg = ms BY DEF AppendMessages
      <4>8. Answering(t)'
        <5>1. Open(t, round[t].order)' /\ Settled(t)' BY <3>2, <3>3, <3>6 DEF Settled
        <5>2. todo'[t][1].op = "AppendMessages" /\ todo'[t][1].arg = ms BY <4>4, <4>6, <4>7
        <5>3. Completes(t, ms)' BY <3>2, <4>2 DEF Completes
        <5>4. Completes(t, todo[t][1].arg)' BY <5>2, <5>3
        <5>5. Tail(todo'[t]) \in Seq(Plain(t)) BY <4>3, <4>4, <4>6
        <5> QED BY <5>1, <5>2, <5>4, <5>5 DEF Answering
      <4> QED BY <3>3, <3>4, <4>6, <4>8 DEF RoundAt
    <3> QED BY <3>5, <3>6
  <2> QED BY <2>2, <2>3, <2>4, <2>5, <2>6
<1>6. ASSUME InterpretAppend(t) PROVE RoundAt(t)'
  <2> PICK w, q : w = todo[t][1].arg /\ q = Tail(todo[t]) OBVIOUS
  <2>1. /\ At(t, "AppendMessages") /\ UNCHANGED <<round, provider, listed>> /\ loop[t] \in {"effect", "closing"}
        /\ todo[t] # <<>>
    BY <1>6 DEF InterpretAppend, At
  <2>2. w \in Seq(Written(t)) /\ w \in Seq(Mine(t)) /\ terminal[t] # "completed" /\ q \in Seq(Work(t))
    <3>1. todo[t][1] \in Work(t) /\ todo[t][1].op = "AppendMessages" /\ terminal[t] # "completed"
          /\ q \in Seq(Work(t))
      BY <2>1, AtWork DEF TypeOK
    <3>2. w \in Seq(Written(t)) BY <3>1 DEF Work
    <3> QED BY <3>1, <3>2, WrittenIsMine
  <2>3. \/ messages' = messages \o w /\ Proceed(t) /\ UNCHANGED terminal
        \/ messages' = messages /\ Fail(t)
    BY <1>6 DEF InterpretAppend
  <2>4. CASE messages' = messages /\ Fail(t) BY <1>0, <2>1, <2>2, <2>4, Fails
  <2>5. CASE messages' = messages \o w /\ Proceed(t) /\ UNCHANGED terminal
    <3>1. CASE loop[t] = "closing"
      <4>1. loop'[t] = "closing" BY <2>1, <2>5, <3>1, CleanupStep
      <4> QED BY <1>0, <2>1, <2>2, <2>5, <4>1, EndsRound
    <3>2. CASE loop[t] = "effect"
      <4>0. Goto(t, q) BY <2>5 DEF Proceed
      <4>1. Quiet(t) \/ Asking(t) \/ Answering(t)
        BY <2>1, <3>2, OpAt DEF QuietOps, InnerOps
      <4>2. CASE Quiet(t)
        <5>1. todo[t] \in Seq(Plain(t)) /\ Sound(t) /\ Settled(t) BY <4>2 DEF Quiet
        <5>2. q \in Seq(Plain(t)) /\ Len(todo[t]) \in Nat /\ Len(todo[t]) > 0 BY <2>1, <5>1, TailOf
        <5>3. todo[t][1] \in Plain(t) /\ todo[t][1].op = "AppendMessages" BY <2>1, <5>1, <5>2, Element DEF At
        <5>4. w \in Seq(Talk(t)) BY <5>3 DEF Plain, QuietOps, InnerOps
        <5>5. Sound(t)' BY <2>5, <5>1, <5>4, TalkSound DEF TypeOK
        <5> QED BY <1>0, <2>1, <4>0, <5>1, <5>2, <5>5, QuietGoes
      <4>3. CASE Asking(t)
        <5>1. PICK calls \in Seq(Call) :
                /\ calls # <<>> /\ Sound(t) /\ ~provider[t] /\ round[t].order = <<>>
                /\ todo[t][1] = AppendMessages(<<Message(t, "calls", calls)>>)
                /\ Requests(q, calls, 0)
          BY <4>3 DEF Asking
        <5>2. w = <<Message(t, "calls", calls)>> BY <5>1 DEF AppendMessages
        <5>3. Open(t, calls)' BY <2>1, <2>5, <5>1, <5>2, Asked DEF TypeOK
        <5>4. Len(calls) \in Nat /\ Len(calls) > 0 BY <5>1, TailOf
        <5>5. Accepted(t)' = {} /\ Len(round'[t].order) = 0
          <6>1. Elements(round[t].order) = {} /\ Len(round[t].order) = 0 BY <5>1 DEF Elements
          <6> QED BY <2>1, <6>1, RoundParts DEF TypeOK, Accepted
        <5>6. Requested(t, calls, 0)' BY <5>3, <5>5 DEF Requested
        <5>7. q # <<>> BY <5>1, <5>4 DEF Requests
        <5>8. q \in Seq(Steps)
          <6>1. Work(t) \subseteq Steps BY DEF Work
          <6> QED BY <2>2, <6>1, Wider
        <5>9. loop'[t] = "effect" /\ todo'[t] = q BY <3>2, <4>0, <5>7, <5>8, GotoTo
        <5>10. Requests(todo'[t], calls, 0) BY <5>1, <5>9
        <5>11. Requesting(t)' BY <5>4, <5>6, <5>10 DEF Requesting
        <5> QED BY <2>1, <2>2, <2>5, <5>1, <5>9, <5>11 DEF RoundAt
      <4>4. CASE Answering(t)
        <5> PICK calls : calls = round[t].order OBVIOUS
        <5>1. /\ Open(t, calls) /\ Settled(t) /\ Completes(t, w) /\ q \in Seq(Plain(t))
              /\ calls \in Seq(Call)
          BY <4>4, RoundParts DEF Answering, TypeOK
        <5>2. /\ Len(w) = Len(calls)
              /\ \A i \in 1..Len(w) : w[i].turn = t /\ w[i].kind = "result" /\ w[i].what.call = calls[i]
          BY <5>1 DEF Completes
        <5>3. Sound(t)' BY <2>2, <2>5, <5>1, <5>2, Answered, ZenonT(40) DEF TypeOK
        <5> QED BY <1>0, <2>1, <4>0, <5>1, <5>3, QuietGoes
      <4> QED BY <4>1, <4>2, <4>3, <4>4
    <3> QED BY <2>1, <3>1, <3>2
  <2> QED BY <2>3, <2>4, <2>5
<1>7. ASSUME InterpretRequestTool(t) PROVE RoundAt(t)'
  <2> PICK c, q : c = todo[t][1].arg /\ q = Tail(todo[t]) OBVIOUS
  <2> PICK d : d = [op |-> "DispatchTool", arg |-> c] OBVIOUS
  <2>1. At(t, "RequestTool") /\ UNCHANGED <<messages, provider, listed>>
    BY <1>7 DEF InterpretRequestTool
  <2>2. \/ /\ round' = [round EXCEPT ![t].order = Append(round[t].order, c)]
           /\ Goto(t, <<d>> \o q) /\ UNCHANGED terminal
        \/ Leave(t)
    BY <1>7 DEF InterpretRequestTool
  <2>3. /\ loop[t] = "effect" /\ terminal[t] # "completed" /\ q \in Seq(Work(t)) /\ c \in Call
        /\ todo[t] \in Seq(Work(t)) /\ todo[t] # <<>>
    BY <2>1, AtWork DEF TypeOK, CleanupOps, Work
  <2>4. CASE Leave(t) BY <1>0, <2>1, <2>3, <2>4, Fails
  <2>5. CASE /\ round' = [round EXCEPT ![t].order = Append(round[t].order, c)]
             /\ Goto(t, <<d>> \o q) /\ UNCHANGED terminal
    <3>1. PICK calls \in Seq(Call), n \in Nat :
            Requested(t, calls, n) /\ n < Len(calls) /\ Requests(todo[t], calls, n)
      BY <2>1, <2>3, OpAt DEF QuietOps, InnerOps
    <3> PICK l \in Nat : l = Len(calls) BY <3>1
    <3> PICK order \in Seq(Call) : order = round[t].order BY RoundParts DEF TypeOK
    <3>2. /\ Open(t, calls) /\ Accepted(t) = {} /\ Len(order) = n
          /\ \A i \in 1..n : order[i] = calls[i]
      BY <3>1 DEF Requested
    <3>3. /\ Len(todo[t]) = l - n /\ n < l
          /\ \A j \in 1..(l - n) : todo[t][j] = RequestTool(calls[n + j])
      BY <3>1 DEF Requests
    <3>4. c = calls[n + 1]
      <4>1. 1 \in 1..(l - n) BY <3>1, <3>3
      <4>2. todo[t][1] = RequestTool(calls[n + 1]) BY <3>3, <4>1
      <4> QED BY <4>2 DEF RequestTool
    <3>5. round'[t].order = Append(order, c) /\ round'[t].accepted = round[t].accepted
      <4> DEFINE A == Seq(Call)
                 B == UNION {[D -> Status] : D \in SUBSET Call}
      <4>1. round \in [Turn -> [order : A, accepted : B]] BY DEF TypeOK, RoundTypes
      <4> HIDE DEF A, B
      <4> QED BY <2>5, <4>1
    <3>6. /\ Len(Append(order, c)) = n + 1 /\ Append(order, c)[n + 1] = c
          /\ \A i \in 1..n : Append(order, c)[i] = order[i]
      <4>1. /\ Len(Append(order, c)) = Len(order) + 1 /\ Append(order, c)[Len(order) + 1] = c
            /\ \A i \in 1..Len(order) : Append(order, c)[i] = order[i]
        BY <2>3, AppendParts
      <4> QED BY <3>2, <4>1
    <3>7. \A i \in 1..(n + 1) : Append(order, c)[i] = calls[i]
      <4> TAKE i \in 1..(n + 1)
      <4>1. i \in 1..n \/ i = n + 1 BY <3>1
      <4> QED BY <3>2, <3>4, <3>6, <4>1
    <3>8. Open(t, calls)' /\ ~provider'[t] BY <2>1, <3>2, OpenSame DEF Open
    <3>9. Requested(t, calls, n + 1)'
      BY <3>2, <3>5, <3>6, <3>7, <3>8 DEF Requested, Accepted
    <3>10. d \in Work(t) /\ d.op = "DispatchTool" BY <2>3, EffectWork
    <3>11. /\ Tail(<<d>> \o q) = q /\ (<<d>> \o q)[1] = d /\ <<d>> \o q # <<>>
           /\ <<d>> \o q \in Seq(Work(t))
      BY <2>3, <3>10, ConsTail, SMTT(20)
    <3>12. <<d>> \o q \in Seq(Steps)
      <4>1. Work(t) \subseteq Steps BY DEF Work
      <4> QED BY <3>11, <4>1, Wider
    <3>13. loop'[t] = "effect" /\ todo'[t] = <<d>> \o q BY <2>3, <2>5, <3>11, <3>12, GotoTo
    <3>14. Requests(q, calls, n + 1)
      <4>1. Len(q) = Len(todo[t]) - 1 /\ \A i \in 1..(Len(todo[t]) - 1) : q[i] = todo[t][i + 1]
        BY <2>3, TailOf
      <4>2. Len(q) = l - (n + 1) BY <3>1, <3>3, <4>1
      <4>3. \A j \in 1..(l - (n + 1)) : q[j] = RequestTool(calls[(n + 1) + j])
        <5> TAKE j \in 1..(l - (n + 1))
        <5>1. j \in 1..(Len(todo[t]) - 1) /\ j + 1 \in 1..(l - n) /\ n + (j + 1) = (n + 1) + j
          BY <3>1, <3>3
        <5>2. q[j] = todo[t][j + 1] BY <4>1, <5>1
        <5>3. todo[t][j + 1] = RequestTool(calls[n + (j + 1)]) BY <3>3, <5>1
        <5> QED BY <5>1, <5>2, <5>3
      <4> QED BY <4>2, <4>3 DEF Requests
    <3>15. Requesting(t)'
      <4>1. n + 1 \in Nat /\ n + 1 > 0 BY <3>1
      <4>2. todo'[t][1].op = "DispatchTool" /\ Requests(Tail(todo'[t]), calls, n + 1)
        BY <3>10, <3>11, <3>13, <3>14
      <4> QED BY <3>9, <4>1, <4>2 DEF Requesting
    <3>16. terminal'[t] # "completed" BY <2>3, <2>5
    <3> QED BY <3>8, <3>13, <3>15, <3>16 DEF RoundAt
  <2> QED BY <2>2, <2>4, <2>5
<1>8. ASSUME InterpretDispatch(t) PROVE RoundAt(t)'
  <2> PICK q : q = Tail(todo[t]) OBVIOUS
  <2>1. At(t, "DispatchTool") /\ UNCHANGED <<messages, round, provider, listed>>
    BY <1>8 DEF InterpretDispatch
  <2>2. \/ Goto(t, q) /\ UNCHANGED terminal /\ ~Done(t)
        \/ Leave(t)
        \/ Terminate(t, "interrupted", InterruptionEffects(t))
    BY <1>8 DEF InterpretDispatch, Proceed
  <2>3. /\ loop[t] = "effect" /\ terminal[t] # "completed" /\ q \in Seq(Work(t))
        /\ todo[t] \in Seq(Work(t)) /\ todo[t] # <<>>
    BY <2>1, AtWork DEF TypeOK, CleanupOps
  <2>4. CASE Leave(t) \/ Terminate(t, "interrupted", InterruptionEffects(t))
    BY <1>0, <2>1, <2>3, <2>4, Fails
  <2>5. CASE Goto(t, q) /\ UNCHANGED terminal /\ ~Done(t)
    <3>1. PICK calls \in Seq(Call), n \in Nat :
            Requested(t, calls, n) /\ n > 0 /\ Requests(q, calls, n)
      BY <2>1, <2>3, OpAt DEF QuietOps, InnerOps
    <3> PICK l \in Nat : l = Len(calls) BY <3>1
    <3> PICK order \in Seq(Call) : order = round[t].order BY RoundParts DEF TypeOK
    <3>2. /\ Open(t, calls) /\ Accepted(t) = {} /\ Len(order) = n
          /\ \A i \in 1..n : order[i] = calls[i]
      BY <3>1 DEF Requested
    <3>3. Len(q) = l - n /\ Len(q) \in Nat BY <2>3, <3>1 DEF Requests
    <3>4. Requested(t, calls, n)' /\ Open(t, calls)' /\ ~provider'[t] /\ terminal'[t] # "completed"
      <4>1. Open(t, calls)' /\ ~provider'[t] BY <2>1, <3>2, OpenSame DEF Open
      <4> QED BY <2>1, <2>3, <2>5, <3>1, <4>1 DEF Requested, Accepted
    <3>5. CASE q = <<>>
      <4>1. loop'[t] = "select" BY <2>3, <2>5, <3>5, GotoTo
      <4>2. l = n
        <5>1. l \in Nat /\ n \in Nat BY <3>1
        <5>2. l - n = 0 BY <3>3, <3>5
        <5> QED BY <5>1, <5>2
      <4>3. order = calls BY <3>2, <4>2, SameSeq
      <4>4. Waiting(t)'
        <5>1. 1 \in 1..Len(order) BY <3>1, <3>2
        <5>2. order[1] \in Elements(order) BY <5>1 DEF Elements
        <5>3. ~Settled(t)' BY <2>1, <3>2, <5>2 DEF Settled, Accepted
        <5>4. Open(t, round[t].order)' BY <2>1, <3>4, <4>3
        <5> QED BY <5>3, <5>4 DEF Waiting
      <4> QED BY <3>4, <4>1, <4>4 DEF RoundAt
    <3>6. CASE q # <<>>
      <4>1. q \in Seq(Steps)
        <5>1. Work(t) \subseteq Steps BY DEF Work
        <5> QED BY <2>3, <5>1, Wider
      <4>2. loop'[t] = "effect" /\ todo'[t] = q BY <2>3, <2>5, <3>6, <4>1, GotoTo
      <4>3. n < l
        <5>1. Len(q) > 0 BY <2>3, <3>6, TailOf
        <5> QED BY <3>1, <3>3, <5>1
      <4>4. Requesting(t)' BY <3>1, <3>4, <4>2, <4>3 DEF Requesting
      <4> QED BY <3>4, <4>2, <4>4 DEF RoundAt
    <3> QED BY <3>5, <3>6
  <2> QED BY <2>2, <2>4, <2>5
<1>9. ASSUME InterpretRunFailed(t) PROVE RoundAt(t)'
  <2>1. /\ UNCHANGED <<messages, provider, listed>> /\ At(t, "RunFailed")
        /\ \E kind \in {"failed", "interrupted"} : \E w : Terminate(t, kind, w)
    BY <1>9 DEF InterpretRunFailed
  <2>2. terminal[t] # "completed" BY <2>1, AtWork DEF TypeOK
  <2> QED BY <1>0, <2>1, <2>2, Fails
<1>10. ASSUME InterpretStage(t) PROVE RoundAt(t)'
  <2>1. At(t, "StageAssistant") /\ UNCHANGED <<messages, round, provider, listed>> BY <1>10
     DEF InterpretStage
  <2>2. /\ terminal[t] # "completed" /\ Sound(t) /\ Settled(t)
        /\ todo[t] # <<>> /\ Tail(todo[t]) \in Seq(Plain(t))
    <3>1. "StageAssistant" \in QuietOps \ {"RunFailed"} BY DEF QuietOps, InnerOps
    <3> QED BY <2>1, <3>1, QuietAt
  <2>3. Goto(t, Tail(todo[t])) BY <1>10 DEF InterpretStage, Proceed
  <2>4. Sound(t)' BY <2>1, <2>2, SoundSame
  <2> QED BY <1>0, <2>1, <2>2, <2>3, <2>4, QuietGoes
<1>11. ASSUME InterpretInterruptTools(t) PROVE RoundAt(t)'
  <2>1. At(t, "InterruptTools") /\ UNCHANGED messages /\ listed' = listed
        /\ (provider'[t] => provider[t])
    BY <1>0, <1>11 DEF InterpretInterruptTools, Goto, Proceed, Leave, At, After
  <2>2. loop[t] = "closing" BY <2>1, CleanupAt
  <2>3. terminal[t] # "completed" BY <2>1, AtWork DEF TypeOK
  <2>4. CASE Proceed(t) /\ UNCHANGED terminal
    <3>1. loop'[t] = "closing" BY <2>1, <2>2, <2>4, CleanupStep
    <3> QED BY <1>0, <2>1, <2>3, <2>4, <3>1, EndsRound
  <2>5. CASE Leave(t) BY <1>0, <2>1, <2>3, <2>5, Fails
  <2> QED BY <1>11, <2>4, <2>5 DEF InterpretInterruptTools
<1>12. ASSUME InterpretCancelProvider(t) PROVE RoundAt(t)'
  <2>1. At(t, "CancelProvider") /\ UNCHANGED messages /\ listed' = listed
        /\ (provider'[t] => provider[t])
    BY <1>0, <1>12 DEF InterpretCancelProvider, Goto, Proceed, At, After
  <2>2. loop[t] = "closing" BY <2>1, CleanupAt
  <2>3. terminal[t] # "completed" BY <2>1, AtWork DEF TypeOK
  <2>4. CASE Proceed(t) /\ UNCHANGED terminal
    <3>1. loop'[t] = "closing" BY <2>1, <2>2, <2>4, CleanupStep
    <3> QED BY <1>0, <2>1, <2>3, <2>4, <3>1, EndsRound
  <2> QED BY <1>12, <2>4 DEF InterpretCancelProvider
<1>13. ASSUME InterpretCloseRun(t) PROVE RoundAt(t)'
  <2>1. /\ loop'[t] \notin {"effect", "select"} /\ messages' = messages
        /\ provider'[t] => provider[t] /\ listed'[t] = listed[t]
        /\ terminal'[t] = terminal[t]
    BY <1>0, <1>13 DEF InterpretCloseRun, At
  <2> QED BY <1>0, <2>1, EndsRound
<1>14. ASSUME InterpretStartProvider(t) PROVE RoundAt(t)'
  <2> PICK op \in {"StartProvider", "RestartProvider"} : At(t, op) BY <1>14 DEF InterpretStartProvider
  <2>1. UNCHANGED <<round, provider, listed>> BY <1>14 DEF InterpretStartProvider
  <2>2. /\ terminal[t] # "completed" /\ Sound(t) /\ Settled(t)
        /\ todo[t] # <<>> /\ Tail(todo[t]) \in Seq(Plain(t))
    <3>1. op \in QuietOps \ {"RunFailed"} BY DEF QuietOps, InnerOps
    <3> QED BY <3>1, QuietAt
  <2> PICK w, ms : w = <<Effect("StartModel")>> \o Tail(todo[t]) /\ ms = InputMessages(t) OBVIOUS
  <2>3. \/ Goto(t, w) /\ messages' = messages \o ms
        \/ Fail(t) /\ UNCHANGED messages
    BY <1>14 DEF InterpretStartProvider, AppendRuntimeInputs
  <2>4. CASE Fail(t) /\ UNCHANGED messages BY <1>0, <2>1, <2>2, <2>4, Fails
  <2>5. CASE Goto(t, w) /\ messages' = messages \o ms
    <3>1. w \in Seq(Plain(t))
      <4>1. "StartModel" \in QuietOps BY DEF QuietOps, InnerOps
      <4> QED BY <2>2, <4>1, PlainLists
    <3>2. ms \in Seq(Talk(t)) BY TalkTypes DEF TypeOK, QueueTypes
    <3>3. Sound(t)' BY <2>2, <2>5, <3>2, TalkSound DEF TypeOK
    <3> QED BY <1>0, <2>1, <2>2, <2>5, <3>1, <3>3, QuietGoes
  <2> QED BY <2>3, <2>4, <2>5
<1>15. ASSUME InterpretStartModel(t) PROVE RoundAt(t)'
  <2>1. At(t, "StartModel") /\ UNCHANGED <<messages, round>> BY <1>15 DEF InterpretStartModel
  <2>2. /\ terminal[t] # "completed" /\ Sound(t) /\ Settled(t)
        /\ todo[t] # <<>> /\ Tail(todo[t]) \in Seq(Plain(t))
    <3>1. "StartModel" \in QuietOps \ {"RunFailed"} BY DEF QuietOps, InnerOps
    <3> QED BY <2>1, <3>1, QuietAt
  <2>3. \/ Goto(t, Tail(todo[t])) /\ listed'[t] = Len(messages')
        \/ Fail(t) /\ UNCHANGED <<provider, listed>>
    BY <1>0, <1>15 DEF InterpretStartModel, Proceed
  <2>4. CASE Fail(t) /\ UNCHANGED <<provider, listed>> BY <1>0, <2>1, <2>2, <2>4, Fails
  <2>5. CASE Goto(t, Tail(todo[t])) /\ listed'[t] = Len(messages')
    <3>1. Sound(t)' BY <2>1, <2>2, SoundSame
    <3> QED BY <1>0, <2>1, <2>2, <2>5, <3>1, QuietGoes
  <2> QED BY <2>3, <2>4, <2>5
<1>16. ASSUME InterpretAttemptComplete(t) PROVE RoundAt(t)'
  <2>1. At(t, "AttemptComplete") /\ UNCHANGED <<round, provider, listed>> BY <1>16
     DEF InterpretAttemptComplete
  <2>2. /\ terminal[t] # "completed" /\ Sound(t) /\ Settled(t)
        /\ todo[t] # <<>> /\ Tail(todo[t]) \in Seq(Plain(t))
    <3>1. "AttemptComplete" \in QuietOps \ {"RunFailed"} BY DEF QuietOps, InnerOps
    <3> QED BY <2>1, <3>1, QuietAt
  <2> PICK op \in {"Inspect", "RestartProvider"} : AppendRuntimeInputs(t, <<Effect(op)>>)
    BY <1>16 DEF InterpretAttemptComplete
  <2> PICK w, ms : w = <<Effect(op)>> /\ ms = InputMessages(t) OBVIOUS
  <2>3. \/ Goto(t, w) /\ messages' = messages \o ms
        \/ Fail(t) /\ UNCHANGED messages
    BY DEF AppendRuntimeInputs
  <2>4. CASE Fail(t) /\ UNCHANGED messages BY <1>0, <2>1, <2>2, <2>4, Fails
  <2>5. CASE Goto(t, w) /\ messages' = messages \o ms
    <3>1. w \in Seq(Plain(t))
      <4>1. op \in QuietOps BY DEF QuietOps, InnerOps
      <4> QED BY <4>1, PlainLists
    <3>2. ms \in Seq(Talk(t)) BY TalkTypes DEF TypeOK, QueueTypes
    <3>3. Sound(t)' BY <2>2, <2>5, <3>2, TalkSound DEF TypeOK
    <3> QED BY <1>0, <2>1, <2>2, <2>5, <3>1, <3>3, QuietGoes
  <2> QED BY <2>3, <2>4, <2>5
<1>17. ASSUME InterpretInspect(t) PROVE RoundAt(t)'
  <2>1. At(t, "Inspect") /\ UNCHANGED <<messages, round, provider, listed>> BY <1>17 DEF InterpretInspect
  <2>2. /\ terminal[t] # "completed" /\ Sound(t) /\ Settled(t)
        /\ todo[t] # <<>> /\ Tail(todo[t]) \in Seq(Plain(t))
    <3>1. "Inspect" \in QuietOps \ {"RunFailed"} BY DEF QuietOps, InnerOps
    <3> QED BY <2>1, <3>1, QuietAt
  <2>3. \/ Goto(t, <<Effect("RestartProvider")>>)
        \/ Goto(t, <<Effect("CommitPending"), Effect("RunCompleted")>>)
        \/ Fail(t)
    BY <1>17 DEF InterpretInspect, RetryCompletion
  <2>4. CASE Fail(t) BY <1>0, <2>1, <2>2, <2>4, Fails
  <2>5. ASSUME NEW w \in Seq(Plain(t)), Goto(t, w) PROVE RoundAt(t)'
    <3>1. Sound(t)' BY <2>1, <2>2, SoundSame
    <3> QED BY <1>0, <2>1, <2>2, <2>5, <3>1, QuietGoes
  <2>6. /\ <<Effect("RestartProvider")>> \in Seq(Plain(t))
        /\ <<Effect("CommitPending"), Effect("RunCompleted")>> \in Seq(Plain(t))
    <3>1. {"RestartProvider", "CommitPending", "RunCompleted"} \subseteq QuietOps BY DEF QuietOps, InnerOps
    <3> QED BY <3>1, PlainLists
  <2> QED BY <2>3, <2>4, <2>5, <2>6
<1>18. ASSUME InterpretCommitPending(t) PROVE RoundAt(t)'
  <2>1. At(t, "CommitPending") /\ UNCHANGED <<round, provider, listed>> BY <1>18
     DEF InterpretCommitPending
  <2>2. /\ terminal[t] # "completed" /\ Sound(t) /\ Settled(t)
        /\ todo[t] # <<>> /\ Tail(todo[t]) \in Seq(Plain(t))
    <3>1. "CommitPending" \in QuietOps \ {"RunFailed"} BY DEF QuietOps, InnerOps
    <3> QED BY <2>1, <3>1, QuietAt
  <2> PICK m : m = Message(t, "assistant", None) OBVIOUS
  <2>3. \/ Goto(t, Tail(todo[t])) /\ (messages' = messages \/ messages' = Append(messages, m))
        \/ Fail(t) /\ UNCHANGED messages
    BY <1>18 DEF InterpretCommitPending, Proceed
  <2>4. CASE Fail(t) /\ UNCHANGED messages BY <1>0, <2>1, <2>2, <2>4, Fails
  <2>5. CASE Goto(t, Tail(todo[t])) /\ (messages' = messages \/ messages' = Append(messages, m))
    <3>1. ASSUME messages' = messages PROVE Sound(t)' BY <2>2, <3>1, SoundSame
    <3>2. ASSUME messages' = Append(messages, m) PROVE Sound(t)'
      <4>1. m \in Talk(t) /\ m \in Messages /\ <<m>> \in Seq(Talk(t))
        BY TalkTypes, Single DEF Talk, Mine
      <4>2. messages' = messages \o <<m>>
        BY <3>2, <4>1, AppendParts DEF TypeOK, RuntimeTypes
      <4> QED BY <2>2, <4>1, <4>2, TalkSound DEF TypeOK
    <3>3. Sound(t)' BY <2>5, <3>1, <3>2
    <3> QED BY <1>0, <2>1, <2>2, <2>5, <3>3, QuietGoes
  <2> QED BY <2>3, <2>4, <2>5
<1>19. ASSUME InterpretRunCompleted(t) PROVE RoundAt(t)'
  <2>1. At(t, "RunCompleted") /\ UNCHANGED <<messages, provider, listed>> BY <1>19
     DEF InterpretRunCompleted
  <2>2. /\ terminal[t] # "completed" /\ Sound(t) /\ Settled(t)
        /\ todo[t] # <<>> /\ Tail(todo[t]) \in Seq(Plain(t))
    <3>1. "RunCompleted" \in QuietOps \ {"RunFailed"} BY DEF QuietOps, InnerOps
    <3> QED BY <2>1, <3>1, QuietAt
  <2>3. loop'[t] \notin {"effect", "select"} BY <1>0, <1>19 DEF InterpretRunCompleted, Terminate, Leave
  <2>4. Sound(t)' BY <2>1, <2>2, SoundSame
  <2> QED BY <1>0, <2>1, <2>3, <2>4, EndsRound
<1>20. ASSUME InterpretRespond(t) PROVE RoundAt(t)'
  <2>1. At(t, "Respond") /\ UNCHANGED <<round, provider, listed>> BY <1>20 DEF InterpretRespond
  <2>2. /\ terminal[t] # "completed" /\ Sound(t) /\ Settled(t)
        /\ todo[t] # <<>> /\ Tail(todo[t]) \in Seq(Plain(t))
    <3>1. "Respond" \in QuietOps \ {"RunFailed"} BY DEF QuietOps, InnerOps
    <3> QED BY <2>1, <3>1, QuietAt
  <2> PICK w, a, b : w = <<Effect("RespondCompleted")>> /\ a = Message(t, "user", None) /\ b = Message(t, "assistant", None)
    OBVIOUS
  <2>3. \/ Goto(t, w) /\ messages' = messages \o <<a, b>>
        \/ Fail(t) /\ UNCHANGED messages
        \/ Terminate(t, "interrupted", InterruptionEffects(t)) /\ UNCHANGED messages
    BY <1>20 DEF InterpretRespond
  <2>4. CASE (Fail(t) \/ Terminate(t, "interrupted", InterruptionEffects(t))) /\ UNCHANGED messages
    BY <1>0, <2>1, <2>2, <2>4, Fails
  <2>5. CASE Goto(t, w) /\ messages' = messages \o <<a, b>>
    <3>1. w \in Seq(Plain(t))
      <4>1. "RespondCompleted" \in QuietOps BY DEF QuietOps, InnerOps
      <4> QED BY <4>1, PlainLists
    <3>2. <<a, b>> \in Seq(Talk(t)) BY TalkTypes, Pair
    <3>3. Sound(t)' BY <2>2, <2>5, <3>2, TalkSound DEF TypeOK
    <3> QED BY <1>0, <2>1, <2>2, <2>5, <3>1, <3>3, QuietGoes
  <2> QED BY <2>3, <2>4, <2>5
<1>21. ASSUME InterpretRespondCompleted(t) PROVE RoundAt(t)'
  <2>1. At(t, "RespondCompleted") /\ UNCHANGED <<messages, provider, listed>> BY <1>21
     DEF InterpretRespondCompleted
  <2>2. /\ terminal[t] # "completed" /\ Sound(t) /\ Settled(t)
        /\ todo[t] # <<>> /\ Tail(todo[t]) \in Seq(Plain(t))
    <3>1. "RespondCompleted" \in QuietOps \ {"RunFailed"} BY DEF QuietOps, InnerOps
    <3> QED BY <2>1, <3>1, QuietAt
  <2>3. loop'[t] \notin {"effect", "select"} BY <1>0, <1>21 DEF InterpretRespondCompleted
  <2>4. Sound(t)' BY <2>1, <2>2, SoundSame
  <2> QED BY <1>0, <2>1, <2>3, <2>4, EndsRound
<1>22. ASSUME FinishReject(t) PROVE RoundAt(t)'
  <2>1. /\ loop'[t] \notin {"effect", "select"} /\ messages' = messages
        /\ provider'[t] => provider[t] /\ listed'[t] = listed[t]
        /\ terminal'[t] = terminal[t]
    BY <1>0, <1>22 DEF FinishReject, Tell
  <2> QED BY <1>0, <2>1, EndsRound
<1>23. ASSUME FinishMark(t) PROVE RoundAt(t)'
  <2>1. /\ loop'[t] \notin {"effect", "select"} /\ messages' = messages
        /\ provider'[t] => provider[t] /\ listed'[t] = listed[t]
        /\ terminal'[t] = terminal[t]
    BY <1>0, <1>23 DEF FinishMark
  <2> QED BY <1>0, <2>1, EndsRound
<1>24. ASSUME FinishUnregister(t) PROVE RoundAt(t)'
  <2>1. /\ loop'[t] \notin {"effect", "select"} /\ messages' = messages
        /\ provider'[t] => provider[t] /\ listed'[t] = listed[t]
        /\ terminal'[t] = terminal[t]
    BY <1>0, <1>24 DEF FinishUnregister
  <2> QED BY <1>0, <2>1, EndsRound
<1>25. ASSUME FinishClose(t) PROVE RoundAt(t)'
  <2>1. /\ loop'[t] \notin {"effect", "select"} /\ messages' = messages
        /\ provider'[t] => provider[t] /\ listed'[t] = listed[t]
        /\ terminal'[t] = terminal[t]
    BY <1>0, <1>25 DEF FinishClose
  <2> QED BY <1>0, <2>1, EndsRound
<1>26. ASSUME NEW calls \in CallLists \cup {<<>>}, ProviderCompletes(t, calls) PROVE RoundAt(t)'
  <2>1. StreamEnds(t) /\ UNCHANGED <<messages, listed>> BY <1>26 DEF ProviderCompletes
  <2>2. Sound(t) /\ Settled(t) /\ loop[t] = "select" /\ ~provider'[t] BY <2>1, Streaming
  <2>3. PICK kept \in CallLists \cup {<<>>} :
          \/ BeginRecovery(t) /\ round' = round
          \/ CommitEvent(t, <<Effect("StageAssistant"), Effect("AttemptComplete")>>) /\ round' = round
          \/ /\ kept # <<>>
             /\ CommitEvent(t, <<AppendMessages(<<Message(t, "calls", kept)>>)>>
                              \o [i \in 1..Len(kept) |-> RequestTool(kept[i])])
             /\ round' = [round EXCEPT ![t] = IF terminal[t] = "none" THEN NoRound ELSE round[t]]
    BY <1>26 DEF ProviderCompletes
  <2>4. CASE BeginRecovery(t) /\ round' = round BY <1>0, <2>1, <2>2, <2>4, RecoveryRound
  <2>5. CASE CommitEvent(t, <<Effect("StageAssistant"), Effect("AttemptComplete")>>) /\ round' = round
    <3>1. <<Effect("StageAssistant"), Effect("AttemptComplete")>> \in Seq(Plain(t))
      <4>1. {"StageAssistant", "AttemptComplete"} \subseteq QuietOps BY DEF QuietOps
      <4> QED BY <4>1, PlainLists
    <3> QED BY <1>0, <2>1, <2>2, <2>5, <3>1, CommitRound
  <2>6. CASE /\ kept # <<>>
             /\ CommitEvent(t, <<AppendMessages(<<Message(t, "calls", kept)>>)>>
                              \o [i \in 1..Len(kept) |-> RequestTool(kept[i])])
             /\ round' = [round EXCEPT ![t] = IF terminal[t] = "none" THEN NoRound ELSE round[t]]
    <3> PICK w : w = <<AppendMessages(<<Message(t, "calls", kept)>>)>>
                     \o [i \in 1..Len(kept) |-> RequestTool(kept[i])]
      OBVIOUS
    <3>0. kept \in Seq(Call) BY CallListTypes
    <3> PICK l \in Nat : l = Len(kept) BY <3>0
    <3>1. /\ w \in Seq(Work(t)) /\ Len(w) = l + 1
          /\ w[1] = AppendMessages(<<Message(t, "calls", kept)>>)
          /\ \A i \in 1..l : w[i + 1] = RequestTool(kept[i])
      BY <3>0, CallsWork
    <3>2. terminal[t] # "completed" BY <1>0, <2>2
    <3>3. CASE Leave(t) BY <1>0, <2>1, <2>2, <3>2, <3>3, Fails
    <3>4. CASE terminal[t] = "none" /\ Goto(t, w) /\ UNCHANGED terminal
      <4>1. round'[t].order = <<>> BY <1>0, <2>6, <3>4 DEF NoRound
      <4>2. w # <<>> /\ w \in Seq(Steps)
        <5>1. Work(t) \subseteq Steps BY DEF Work
        <5>2. Len(w) > 0 BY <3>1
        <5> QED BY <3>1, <5>1, <5>2, Wider, NotEmpty
      <4>3. loop'[t] = "effect" /\ todo'[t] = w BY <2>2, <3>4, <4>2, GotoTo
      <4>4. Requests(Tail(w), kept, 0)
        <5>1. Len(Tail(w)) = Len(w) - 1 /\ \A i \in 1..(Len(w) - 1) : Tail(w)[i] = w[i + 1]
          BY <3>1, <4>2, TailOf
        <5>2. Len(Tail(w)) = l - 0 BY <3>1, <5>1
        <5>3. \A j \in 1..(l - 0) : Tail(w)[j] = RequestTool(kept[0 + j])
          <6> TAKE j \in 1..(l - 0)
          <6>1. j \in 1..l /\ j \in 1..(Len(w) - 1) /\ 0 + j = j BY <3>1
          <6>2. Tail(w)[j] = w[j + 1] /\ w[j + 1] = RequestTool(kept[j]) BY <3>1, <5>1, <6>1
          <6> QED BY <6>1, <6>2
        <5> QED BY <5>2, <5>3 DEF Requests
      <4>5. Asking(t)'
        <5>1. Sound(t)' BY <2>1, <2>2, SoundSame
        <5>2. todo'[t][1] = AppendMessages(<<Message(t, "calls", kept)>>) /\ Requests(Tail(todo'[t]), kept, 0)
          BY <3>1, <4>3, <4>4
        <5> QED BY <2>2, <2>6, <3>0, <4>1, <5>1, <5>2 DEF Asking
      <4>6. terminal'[t] # "completed" BY <3>4
      <4> QED BY <2>2, <4>3, <4>5, <4>6 DEF RoundAt
    <3>5. CommitEvent(t, w) BY <2>6
    <3> QED BY <3>3, <3>4, <3>5 DEF CommitEvent
  <2> QED BY <2>3, <2>4, <2>5, <2>6
<1>27. ASSUME ProviderMalformed(t) PROVE RoundAt(t)'
  <2>1. StreamEnds(t) /\ UNCHANGED <<messages, listed>> /\ round' = round /\ BeginRecovery(t) BY <1>27
     DEF ProviderMalformed
  <2>2. Sound(t) /\ Settled(t) /\ loop[t] = "select" /\ ~provider'[t] BY <2>1, Streaming
  <2> QED BY <1>0, <2>1, <2>2, RecoveryRound
<1>28. ASSUME ProviderFails(t) PROVE RoundAt(t)'
  <2>1. StreamEnds(t) /\ UNCHANGED <<messages, listed>> /\ round' = round /\ CommitEvent(t, <<Effect("RunFailed")>>) BY <1>28
     DEF ProviderFails
  <2>2. Sound(t) /\ Settled(t) /\ loop[t] = "select" /\ ~provider'[t] BY <2>1, Streaming
  <2>3. <<Effect("RunFailed")>> \in Seq(Plain(t))
    <3>1. "RunFailed" \in QuietOps BY DEF QuietOps
    <3> QED BY <3>1, PlainLists
  <2> QED BY <1>0, <2>1, <2>2, <2>3, CommitRound
<1> QED
  BY <1>1, <1>2, <1>3, <1>4, <1>5, <1>6, <1>7, <1>8, <1>9, <1>10, <1>11, <1>12, <1>13, <1>14,
     <1>15, <1>16, <1>17, <1>18, <1>19, <1>20, <1>21, <1>22, <1>23, <1>24, <1>25, <1>26, <1>27,
     <1>28, Zenon
  DEF LoopStep, ProviderStep

\* A turn that starts has no calls yet.
LEMMA RoundStarts ==
  ASSUME TypeOK, StartInv, BlocksInv, NEW t \in Turn, AdmitTurn(t), RoundAt(t)
  PROVE  RoundAt(t)'
<1>0. /\ loop \in [Turn -> LoopPlaces] /\ starter \in [Turn -> {"idle", "waiting", "started", "refused"}]
  BY DEF TypeOK, TodoTypes, RuntimeTypes
<1>1. /\ starter[t] = "idle" /\ UNCHANGED <<messages, terminal, listed, round, provider>>
      /\ UNCHANGED <<loop, todo>> \/ Goto(t, RunStartedEffects(t))
  BY DEF AdmitTurn
<1>2. loop[t] = "idle" /\ terminal[t] = "none" /\ round[t].order = <<>> BY <1>1 DEF StartInv
<1>3. CASE UNCHANGED <<loop, todo>>
  <2>1. Same(t) BY <1>1, <1>3 DEF Same
  <2> QED BY <1>1, <2>1, RoundSame
<1>4. CASE Goto(t, RunStartedEffects(t))
  <2>1. \A k \in 1..Len(messages) : messages[k].turn # t BY <1>2 DEF BlocksInv
  <2>2. Sound(t) BY <2>1 DEF Sound, Paired
  <2>3. Sound(t)' BY <1>1, <2>2, SoundSame
  <2>4. Settled(t) BY <1>2 DEF Settled, Elements
  <2>5. Grows(t)
    <3>1. messages \in Seq(Messages) BY DEF TypeOK, RuntimeTypes
    <3> QED BY <1>1, <3>1 DEF Grows
  <2> PICK w : w = RunStartedEffects(t) OBVIOUS
  <2>6. w \in Seq(Plain(t)) BY PlainLists
  <2> QED BY <1>1, <1>4, <2>3, <2>4, <2>5, <2>6, QuietGoes
<1> QED BY <1>1, <1>3, <1>4

\* Every step keeps the rounds of all turns.
LEMMA RoundInvKept ==
  ASSUME TypeOK, WorkInv, StartInv, BlocksInv, \A t \in Turn : RoundAt(t), [Next]_vars
  PROVE  \A t \in Turn : RoundAt(t)'
<1>0. /\ loop \in [Turn -> LoopPlaces] /\ terminal \in [Turn -> {"none", "completed", "failed", "interrupted"}]
      /\ \E A : todo \in [Turn -> A]
  BY DEF TypeOK, EndTypes, TodoTypes
<1> SUFFICES ASSUME NEW u \in Turn PROVE RoundAt(u)' OBVIOUS
<1>1. ASSUME NEW t \in Turn, LoopStep(t) \/ ProviderStep(t) PROVE RoundAt(u)'
  <2>1. CASE u = t BY <1>1, <2>1, RoundKept
  <2>2. CASE u # t
    <3>1. Same(u) BY <1>1, <2>2, StepIsLocal DEF Local
    <3>2. Grows(t) /\ (messages' # messages => loop[t] \in {"effect", "closing"})
      BY <1>1, StepStores, Positions DEF TypeOK
    <3>3. messages' = messages \/ loop[u] \notin {"effect", "select"}
      BY <2>2, <3>2 DEF BlocksInv, LiveInv, Live
    <3>4. t \in Turn \ {u} BY <2>2
    <3> QED BY <3>1, <3>2, <3>3, <3>4, RoundOther
  <2> QED BY <2>1, <2>2
<1>2. ASSUME NEW t \in Turn, AdmitTurn(t) PROVE RoundAt(u)'
  <2>1. CASE u = t BY <1>2, <2>1, RoundStarts
  <2>2. CASE u # t
    <3>1. /\ UNCHANGED <<messages, terminal, listed, round, provider>>
          /\ UNCHANGED <<loop, todo>> \/ Goto(t, RunStartedEffects(t))
      BY <1>2 DEF AdmitTurn
    <3>2. Same(u) BY <1>0, <2>2, <3>1 DEF Same, Goto
    <3> QED BY <3>1, <3>2, RoundSame
  <2> QED BY <2>1, <2>2
<1>3. CASE PublishClosed
  <2>1. /\ UNCHANGED <<messages, loop, todo, listed, round, provider>>
        /\ terminal' = terminal \/ terminal' = [terminal EXCEPT ![closedRun] = "failed"]
    BY <1>3 DEF PublishClosed
  <2>2. terminal'[u] = terminal[u] \/ terminal'[u] = "failed" BY <1>0, <2>1
  <2>3. CASE terminal'[u] = terminal[u]
    <3>1. Same(u) BY <2>1, <2>3 DEF Same
    <3> QED BY <2>1, <3>1, RoundSame
  <2>4. CASE terminal'[u] = "failed"
    <3>1. Sound(u)' = Sound(u) /\ Settled(u)' = Settled(u) BY <2>1 DEF Sound, Paired, Settled, Accepted
    <3>2. \A calls : Open(u, calls)' = Open(u, calls) BY <2>1 DEF Open, Paired
    <3>3. Quiet(u)' = Quiet(u) BY <2>1, <3>1 DEF Quiet
    <3>4. Asking(u)' = Asking(u) BY <2>1, <3>1 DEF Asking
    <3>5. Requesting(u)' = Requesting(u) BY <2>1, <3>2 DEF Requesting, Requested, Accepted
    <3>6. Waiting(u)' = Waiting(u) BY <2>1, <3>1, <3>2 DEF Waiting
    <3>7. Answering(u)' = Answering(u) BY <2>1, <3>1, <3>2 DEF Answering, Completes
    <3>8. (provider[u] => Paired(u, listed[u]))' BY <2>1 DEF Paired, RoundAt
    <3> QED BY <2>1, <2>4, <3>1, <3>3, <3>4, <3>5, <3>6, <3>7, <3>8 DEF RoundAt
  <2> QED BY <2>2, <2>3, <2>4
<1>4. ASSUME messages' = messages, \A t \in Turn : Same(t) PROVE RoundAt(u)'
  BY <1>4, RoundSame
<1> QED BY <1>1, <1>2, <1>3, <1>4, Concerned DEF Concerns

-----------------------------------------------------------------------------
(* A run that is done stores nothing more. *)

Past(t) == loop[t] \in {"unregister", "close", "exited"}
DoneInv == toolResultsClosed \/ \A t \in Turn : effectsDone[t] => Past(t)

\* A loop that is past the mark does not come back.
LEMMA PastKept ==
  ASSUME TypeOK, StartInv, [Next]_vars
  PROVE  PublishClosed \/ \A u \in Turn : Past(u) => Past(u)'
<1>1. loop \in [Turn -> LoopPlaces] BY DEF TypeOK, TodoTypes
<1>2. ASSUME NEW t \in Turn, Local(t) PROVE \A u \in Turn : Past(u) => Past(u)'
  BY <1>2 DEF Local, Same, Past
<1>3. ASSUME NEW t \in Turn, AdmitTurn(t) PROVE \A u \in Turn : Past(u) => Past(u)'
  <2>1. loop' = loop \/ loop' = [loop EXCEPT ![t] = IF loop[t] = "closing" THEN "closing" ELSE "effect"]
    BY <1>3, Admitted
  <2>2. starter[t] = "idle" BY <1>3 DEF AdmitTurn
  <2>3. loop[t] = "idle" BY <2>2 DEF StartInv, TypeOK, RuntimeTypes
  <2> QED BY <1>1, <2>1, <2>3 DEF Past
<1>4. ASSUME \A u \in Turn : Same(u) PROVE \A u \in Turn : Past(u) => Past(u)'
  BY <1>4 DEF Same, Past
<1> QED BY <1>2, <1>3, <1>4, Locality

\* finish marks a run when its loop has stored all; the router marks it earlier, but
\* only after the results channel is closed.
LEMMA DoneKept ==
  ASSUME TypeOK, StartInv, DoneInv, [Next]_vars
  PROVE  DoneInv'
<1>1. /\ loop \in [Turn -> LoopPlaces] /\ effectsDone \in [Turn -> BOOLEAN]
      /\ toolResultsClosed \in BOOLEAN
  BY DEF TypeOK, TodoTypes, EndTypes, RuntimeTypes
<1>2. CASE UNCHANGED <<active, toolResultsClosed, closer, closedRun, starter, effectsDone>>
  <2>1. PublishClosed => toolResultsClosed BY DEF PublishClosed, StartInv
  <2> QED BY <1>2, <2>1, PastKept DEF DoneInv
<1>3. ASSUME NEW t \in Turn, AdmitTurn(t) \/ WaitFinished(t) \/ FinishUnregister(t) PROVE DoneInv'
  <2>1. UNCHANGED <<toolResultsClosed, effectsDone>>
    BY <1>3 DEF AdmitTurn, WaitFinished, FinishUnregister
  <2>2. PublishClosed => toolResultsClosed BY DEF PublishClosed, StartInv
  <2> QED BY <2>1, <2>2, PastKept DEF DoneInv
<1>4. ASSUME NEW t \in Turn, FinishMark(t) PROVE DoneInv'
  <2>1. /\ UNCHANGED toolResultsClosed
        /\ \A u \in Turn \ {t} : effectsDone'[u] = effectsDone[u] /\ loop'[u] = loop[u]
        /\ loop'[t] = "unregister"
    BY <1>1, <1>4 DEF FinishMark
  <2> QED BY <2>1 DEF DoneInv, Past
<1>5. CASE Router
  <2>1. CASE CloseResults BY <2>1 DEF CloseResults, DoneInv
  <2>2. CASE PublishClosed \/ MarkClosed \/ UnregisterClosed
    <3>1. toolResultsClosed /\ UNCHANGED toolResultsClosed
      BY <2>2 DEF PublishClosed, MarkClosed, UnregisterClosed, StartInv
    <3> QED BY <3>1 DEF DoneInv
  <2> QED BY <1>5, <2>1, <2>2 DEF Router
<1> QED BY <1>2, <1>3, <1>4, <1>5, RuntimeMoved DEF RuntimeMoves

\* What such a loop would add, it would add as an effect.
LEMMA DoneStores ==
  ASSUME TypeOK, DoneInv, Stored, NEW t \in Turn, Done(t), ~toolResultsClosed
  PROVE  Own(t, messages') = Own(t, messages)
<1>1. RuntimeTypes /\ QueueTypes BY DEF TypeOK
<1>2. Past(t) BY DEF DoneInv, Done
<1>3. /\ Len(messages) \in Nat /\ Len(messages') \in Nat /\ Len(messages) <= Len(messages')
      /\ \A k \in 1..Len(messages) : messages'[k] = messages[k]
  BY <1>1, Grown
<1>4. CASE messages' = messages BY <1>4
<1>5. ASSUME NEW u \in Turn, loop[u] \in {"effect", "closing"},
             \A k \in 1..Len(messages') : k > Len(messages) => messages'[k].turn = u
      PROVE  Own(t, messages') = Own(t, messages)
  <2>1. u # t BY <1>2, <1>5 DEF Past
  <2>2. \A k \in 1..Len(messages') : messages'[k].turn = t => k \in 1..Len(messages)
    BY <1>3, <1>5, <2>1
  <2>3. \A k \in 1..Len(messages) : k \in 1..Len(messages') BY <1>3
  <2>4. {j \in 1..Len(messages') : messages'[j].turn = t} = {j \in 1..Len(messages) : messages[j].turn = t}
    BY <1>3, <2>2, <2>3
  <2> QED BY <1>3, <2>4 DEF Own
<1> QED BY <1>1, <1>4, <1>5, Extended

-----------------------------------------------------------------------------
(* The invariant. *)

AgentInv ==
  /\ TypeOK /\ WorkInv /\ StartInv /\ BlocksInv /\ InputInv /\ DoneInv
  /\ \A t \in Turn : SeenAt(t) /\ RoundAt(t)

\* Nothing requested, nothing answered.
LEMMA NoRoundTypes ==
  NoRound \in [order : Seq(Call), accepted : UNION {[S -> Status] : S \in SUBSET Call}]
<1> DEFINE A == Seq(Call)
           B == UNION {[S -> Status] : S \in SUBSET Call}
<1>1. \A S \in SUBSET Call : \A f \in [S -> Status] : f \in B OBVIOUS
<1> PICK a : a = [c \in {} |-> "succeeded"] OBVIOUS
<1>2. a \in [{} -> Status] OBVIOUS
<1>3. a \in B
  <2>1. {} \in SUBSET Call OBVIOUS
  <2> HIDE DEF B
  <2> QED BY <1>1, <1>2, <2>1
<1>4. <<>> \in A OBVIOUS
<1> HIDE DEF A, B
<1>5. NoRound \in [order : A, accepted : B] BY <1>3, <1>4 DEF NoRound
<1> QED BY <1>5 DEF A, B

\* It holds before the first turn,
LEMMA InitInv == Init => AgentInv
<1> SUFFICES ASSUME Init PROVE AgentInv OBVIOUS
<1> USE DEF Init
<1>1. None \notin Turn /\ \A t \in Turn : Len(messages) = 0 BY ConstantsAssumption
<1>2. TypeOK
  <2>1. RuntimeTypes /\ EndTypes
    <3>1. <<>> \in Seq(Messages) OBVIOUS
    <3>2. RuntimeTypes BY <3>1 DEF RuntimeTypes
    <3>3. EndTypes BY DEF EndTypes
    <3> QED BY <3>2, <3>3
  <2>2. TodoTypes BY DEF TodoTypes, LoopPlaces
  <2>3. RoundTypes
    <3>1. round \in [Turn -> [order : Seq(Call), accepted : UNION {[S -> Status] : S \in SUBSET Call}]]
      <4> DEFINE Rounds == [order : Seq(Call), accepted : UNION {[S -> Status] : S \in SUBSET Call}]
      <4>1. NoRound \in Rounds BY NoRoundTypes
      <4> HIDE DEF Rounds
      <4>2. round \in [Turn -> Rounds] BY <4>1
      <4> QED BY <4>2 DEF Rounds
    <3>2. \A t \in Turn : Accepted(t) = {} BY DEF Accepted, NoRound
    <3>3. batch \in [Turn -> Seq(Result)] OBVIOUS
    <3> QED BY <3>1, <3>2, <3>3 DEF RoundTypes
  <2>4. ProviderTypes BY <1>1 DEF ProviderTypes
  <2>5. QueueTypes BY ConstantsAssumption DEF QueueTypes
  <2> QED BY <2>1, <2>2, <2>3, <2>4, <2>5 DEF TypeOK
<1>3. WorkInv BY DEF WorkInv
<1>4. StartInv BY <1>1 DEF StartInv, NoRound
<1>5. BlocksInv BY DEF BlocksInv, LiveInv, Live, TurnsDoNotInterleave
<1>6. InputInv
  <2>1. NamedInv BY DEF NamedInv
  <2>2. QueueInv BY DEF QueueInv
  <2>3. \A i \in Input : Told(i) BY DEF Told
  <2> QED BY <2>1, <2>2, <2>3 DEF InputInv
<1>7. \A t \in Turn : SeenAt(t) BY DEF SeenAt, InputsSeen
<1>8. \A t \in Turn : RoundAt(t) BY DEF RoundAt
<1>9. DoneInv BY DEF DoneInv
<1> QED BY <1>2, <1>3, <1>4, <1>5, <1>6, <1>7, <1>8, <1>9 DEF AgentInv

\* and every step keeps it.
LEMMA NextInv == AgentInv /\ [Next]_vars => AgentInv'
<1> SUFFICES ASSUME AgentInv, [Next]_vars PROVE AgentInv' OBVIOUS
<1>1. /\ TypeOK /\ WorkInv /\ StartInv /\ BlocksInv /\ InputInv /\ NamedInv
      /\ \A t \in Turn : SeenAt(t)
      /\ \A t \in Turn : RoundAt(t)
  BY DEF AgentInv, InputInv
<1>2. TypeOK' /\ WorkInv' BY <1>1, TypesKept
<1>3. StartInv' BY <1>1, StartKept
<1>4. BlocksInv' BY <1>1, BlocksKept
<1>5. InputInv' BY <1>1, InputsKept
<1>6. \A t \in Turn : SeenAt(t)' BY <1>1, SeenInvKept
<1>7. \A t \in Turn : RoundAt(t)' BY <1>1, RoundInvKept
<1>8. DoneInv' BY <1>1, DoneKept DEF AgentInv
<1> QED BY <1>2, <1>3, <1>4, <1>5, <1>6, <1>7, <1>8 DEF AgentInv

\* For every set of turns, calls, tools and injected messages, every MaxSteps and every
\* way the environment answers, the invariant holds in every reachable state.
THEOREM AgentInvariant == Spec => []AgentInv
BY InitInv, NextInv, PTL DEF Spec

\* Every variable keeps its type (Run, AgentState and Runtime).
THEOREM TypeCorrect == Spec => []TypeOK
<1>1. AgentInv => TypeOK BY DEF AgentInv
<1> QED BY <1>1, AgentInvariant, PTL

\* Each request to the model, and the transcript of each completed turn, has the turn's
\* calls and results paired (processEvent, toolResultEffects and interpretEffect).
THEOREM RequestsPaired == Spec => []RequestIsPaired
<1>1. AgentInv => RequestIsPaired BY DEF AgentInv, RequestIsPaired, RoundAt, Sound
<1> QED BY <1>1, AgentInvariant, PTL

\* A turn completes only after the model has seen every message injected into it
\* (attemptComplete drains the queue before RunCompleted).
THEOREM CompletedHasSeenInputs == Spec => []CompletedSawInputs
<1>1. AgentInv => CompletedSawInputs BY SeenIsSeen DEF AgentInv, TypeOK
<1> QED BY <1>1, AgentInvariant, PTL

\* The messages of a turn are contiguous in the transcript (Runtime.start waits for the
\* run before to finish; once the router has unregistered one, no turn is admitted).
THEOREM TurnsStayApart == Spec => []TurnsDoNotInterleave
<1>1. AgentInv => TurnsDoNotInterleave BY DEF AgentInv, BlocksInv
<1> QED BY <1>1, AgentInvariant, PTL

\* A caller of InjectRuntimeMessage is told what happened to its message: it is stored
\* once if it was accepted, and never otherwise (appendRuntimeInputs, rejectRuntimeInputs).
THEOREM InputsAccounted == Spec => []InputAccounting
<1>1. AgentInv => InputAccounting BY ToldIsAccounting DEF AgentInv, InputInv
<1> QED BY <1>1, AgentInvariant, PTL

\* A turn whose Done is true adds nothing to the transcript, unless the router has
\* failed it on a closed results channel (Run.Done and markEffectsDone).
THEOREM DoneHasPersisted == Spec => DoneIsPersisted
<1>1. ASSUME AgentInv, [Next]_vars
      PROVE  [\A t \in Turn : Done(t) /\ ~toolResultsClosed
                               => Own(t, messages') = Own(t, messages)]_vars
  <2>1. Stored BY <1>1, StoredMoves DEF AgentInv
  <2> QED BY <1>1, <2>1, DoneStores DEF AgentInv
<1> QED BY <1>1, AgentInvariant, PTL DEF Spec, DoneIsPersisted
=============================================================================
