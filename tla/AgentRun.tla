------------------------------ MODULE AgentRun ------------------------------
(***************************************************************************)
(* The turns of one session in package agentruntime: how Runtime.start     *)
(* admits a turn, how a Run's loop folds provider events, tool results,    *)
(* interrupts and injected messages into effects and interprets them one   *)
(* by one, and how a run ends.                                             *)
(*                                                                         *)
(* A run's loop is one goroutine.  Around it run the provider's stream,    *)
(* the tool executor, the result router, the callers of Interrupt and      *)
(* InjectRuntimeMessage, the contexts of the turn and of the runtime, and  *)
(* the caller that starts the next turn.  Every effect that does I/O or    *)
(* takes a lock is a step of its own.                                      *)
(*                                                                         *)
(* AgentState, the event history, is kept as what the effects derive from  *)
(* it: the latest tool round and the terminal event.  Message contents are *)
(* left out; a message is its turn, its kind and the calls it names.       *)
(* Model, storage, guards and tools are external: they answer anything     *)
(* they may answer, in any order.                                          *)
(***************************************************************************)
EXTENDS Naturals, Sequences, FiniteSets

CONSTANTS
  Turn,          \* turn IDs the callers start, in any order
  Call,          \* tool call IDs a provider response may use
  Tools,         \* the configured tool names
  ToolOf,        \* [Call -> names]: a name outside Tools is never offered
  Behavior,      \* [Call -> TurnBehaviors] of the call's result
  FinalTools,    \* Config.StepLimitFinalizationTools
  Input,         \* messages injected with InjectRuntimeMessage
  MaxSteps,      \* Config.MaxSteps; 0 is unlimited
  FinalRounds,   \* maxStepLimitFinalizationRounds
  Allowlists,    \* non-nil allowlists the completion guard may retry with
  Guarded,       \* turns whose prompt the input guard answers itself
  Cancels,       \* subset of {"interrupt", "ctx", "runtime", "results"}: may
                 \* a caller interrupt, a turn's context or the runtime's be
                 \* cancelled, the tool results channel be closed?
  MaxCancels,    \* bound on how many of these happen
  Faults,        \* subset of {"append", "model", "stream", "guard"}: which
                 \* external calls may fail
  MaxRepeats,    \* bound on results that tools report once more
  None

TurnBehaviors == {"continue", "end", "end_on_success"}

ASSUME ConstantsAssumption ==
  /\ None \notin Turn \cup Call \cup Input
  /\ MaxSteps \in Nat
  /\ FinalRounds \in Nat \ {0}
  /\ MaxRepeats \in Nat
  /\ MaxCancels \in Nat
  /\ Behavior \in [Call -> TurnBehaviors]
  /\ DOMAIN ToolOf = Call
  /\ FinalTools \subseteq Tools
  /\ Allowlists \subseteq SUBSET Tools
  /\ Guarded \subseteq Turn
  /\ IsFiniteSet(Call)

VARIABLES
  \* the runtime
  active,             \* the registered run of the session, or None
  toolResultsClosed,
  runtimeDone,        \* runtime.ctx is cancelled
  closer,             \* the router after a close: "routing" | "publish" |
                      \* "mark" | "unregister" | "over"
  closedRun,          \* the run the router found active when it closed
  messages,           \* the session's stored transcript
  starter,            \* [Turn -> "idle" | "waiting" | "started" | "refused"]:
                      \* the caller of Start
  waitsFor,           \* the run whose finished channel a caller waits on
  \* the run of each turn
  terminal,           \* "none" | "completed" | "failed" | "interrupted";
                      \* Run.done is terminal # "none"
  effectsDone, finished,
  loop,               \* where the run's goroutine is
  todo,               \* effects still to be interpreted
  batch,              \* results drained and not yet processed
  round,              \* latestToolRound of the history
  provider,           \* is a stream subscribed?
  offered,            \* offeredToolNames
  listed,             \* length of the transcript in the latest model request
  steps, stepLimitFinalizing,
  recovery,           \* "unused" | "active" | "used"
  toolsRestricted,    \* completionToolsRestricted
  allowlist,          \* completionToolAllowlist
  pendingAssistant,
  toolResults,        \* the queue the router fills
  outstanding,        \* calls handed to the executor and not reported
  repeats,            \* results reported once more so far
  control,            \* "none" | "requested" | "taken": the interrupt mailbox
  ctxDone,            \* the turn's context is cancelled
  runtimeInputs,      \* the queue InjectRuntimeMessage fills
  inject              \* [Input -> its caller's progress]

runtimeVars == <<active, toolResultsClosed, runtimeDone, closer, closedRun>>
startVars == <<starter, waitsFor>>
endVars == <<terminal, effectsDone, finished>>
allowVars == <<toolsRestricted, allowlist>>
stepVars == <<steps, stepLimitFinalizing, recovery, allowVars, offered, listed>>
toolVars == <<toolResults, outstanding, repeats>>
requestVars == <<control, ctxDone>>
inputVars == <<runtimeInputs, inject>>
vars == <<runtimeVars, messages, startVars, endVars, loop, todo, batch, round,
          provider, stepVars, pendingAssistant, toolVars, requestVars, inputVars>>

-----------------------------------------------------------------------------
(* Data *)

Status == {"succeeded", "failed", "interrupted"}
Result == [call : Call, status : Status]
NoRound == [order |-> <<>>, accepted |-> [c \in {} |-> "succeeded"]]

Message(t, kind, what) == [turn |-> t, kind |-> kind, what |-> what]

Effect(op) == [op |-> op, arg |-> None]
AppendMessages(ms) == [op |-> "AppendMessages", arg |-> ms]
RequestTool(c) == [op |-> "RequestTool", arg |-> c]

\* Steps inside the interpretation of one effect, not effects of their own.
InnerOps == {"RestartProvider", "StartModel", "Inspect", "CommitPending",
             "RunCompleted", "Respond", "RespondCompleted"}

Elements(s) == {s[i] : i \in 1..Len(s)}

\* The tool calls of a response: distinct, in the order the model gave.
CallLists ==
  UNION {{s \in [1..n -> Call] : \A i, j \in 1..n : s[i] = s[j] => i = j} :
         n \in 1..Cardinality(Call)}

\* Mutant: a run is Done with its terminal event.
DoneAtTerminalEvent(t) == terminal[t] # "none"

\* Run.Done: the terminal event and its effects are complete.
Done(t) == terminal[t] # "none" /\ effectsDone[t]

\* latestToolRound finds a round once a call of it has been requested.
HasRound(t) == round[t].order # <<>>
Accepted(t) == DOMAIN round[t].accepted

\* Mutant: the results leave their map in another order.
ResultMessagesReversed(t, answer) ==
  LET n == Len(round[t].order)
  IN [i \in 1..n |->
        Message(t, "result", [call |-> round[t].order[n + 1 - i],
                              status |-> answer[round[t].order[n + 1 - i]]])]

ResultMessages(t, answer) ==
  [i \in 1..Len(round[t].order) |->
     Message(t, "result", [call |-> round[t].order[i],
                           status |-> answer[round[t].order[i]]])]

-----------------------------------------------------------------------------
(* The loop's bookkeeping *)

\* processCommittedEvent goes on to the next effect; after the last it
\* returns to the select, or leaves runLoop when the run has been ended by
\* the router meanwhile.
After(t, rest) ==
  IF rest = <<>> THEN (IF Done(t) THEN "exited" ELSE "select")
  ELSE IF loop[t] = "closing" THEN "closing" ELSE "effect"

Goto(t, rest) ==
  /\ todo' = [todo EXCEPT ![t] = rest]
  /\ loop' = [loop EXCEPT ![t] = After(t, rest)]

Proceed(t) == Goto(t, Tail(todo[t]))

\* transition refuses an event of a run that is done: processEvent returns
\* false and the goroutine leaves without finish.
Leave(t) ==
  /\ loop' = [loop EXCEPT ![t] = "exited"]
  /\ todo' = [todo EXCEPT ![t] = <<>>]
  /\ batch' = [batch EXCEPT ![t] = <<>>]
  /\ UNCHANGED terminal

Terminate(t, kind, effects) ==
  \/ /\ terminal[t] = "none"
     /\ terminal' = [terminal EXCEPT ![t] = kind]
     /\ todo' = [todo EXCEPT ![t] = effects]
     /\ loop' = [loop EXCEPT ![t] = "closing"]
     /\ batch' = [batch EXCEPT ![t] = <<>>]
  \/ terminal[t] # "none" /\ Leave(t)

\* Run.fail: RunFailed for a live run; a run that is done is finished.  The
\* router may publish between its check and its transition.
Fail(t) ==
  \/ loop[t] # "closing" /\ Terminate(t, "failed", <<Effect("CloseRun")>>)
  \/ /\ terminal[t] # "none"
     /\ loop' = [loop EXCEPT ![t] = "reject"]
     /\ todo' = [todo EXCEPT ![t] = <<>>]
     /\ batch' = [batch EXCEPT ![t] = <<>>]
     /\ UNCHANGED terminal

\* An event other than a terminal one: its effects become the loop's work.
CommitEvent(t, effects) ==
  \/ terminal[t] = "none" /\ Goto(t, effects) /\ UNCHANGED <<terminal, batch>>
  \/ terminal[t] # "none" /\ Leave(t)

\* Is the loop interpreting an effect op of turn t?
At(t, op) ==
  loop[t] \in {"effect", "closing"} /\ todo[t] # <<>> /\ todo[t][1].op = op

-----------------------------------------------------------------------------
Init ==
  /\ active = None
  /\ toolResultsClosed = FALSE
  /\ runtimeDone = FALSE
  /\ closer = "routing"
  /\ closedRun = None
  /\ messages = <<>>
  /\ starter = [t \in Turn |-> "idle"]
  /\ waitsFor = [t \in Turn |-> None]
  /\ terminal = [t \in Turn |-> "none"]
  /\ effectsDone = [t \in Turn |-> FALSE]
  /\ finished = [t \in Turn |-> FALSE]
  /\ loop = [t \in Turn |-> "idle"]
  /\ todo = [t \in Turn |-> <<>>]
  /\ batch = [t \in Turn |-> <<>>]
  /\ round = [t \in Turn |-> NoRound]
  /\ provider = [t \in Turn |-> FALSE]
  /\ offered = [t \in Turn |-> {}]
  /\ listed = [t \in Turn |-> 0]
  /\ steps = [t \in Turn |-> 0]
  /\ stepLimitFinalizing = [t \in Turn |-> FALSE]
  /\ recovery = [t \in Turn |-> "unused"]
  /\ toolsRestricted = [t \in Turn |-> FALSE]
  /\ allowlist = [t \in Turn |-> {}]
  /\ pendingAssistant = [t \in Turn |-> FALSE]
  /\ toolResults = [t \in Turn |-> <<>>]
  /\ outstanding = [t \in Turn |-> {}]
  /\ repeats = 0
  /\ control = [t \in Turn |-> "none"]
  /\ ctxDone = [t \in Turn |-> FALSE]
  /\ runtimeInputs = [t \in Turn |-> <<>>]
  /\ inject = [i \in Input |-> [at |-> "idle", turn |-> None]]

-----------------------------------------------------------------------------
(* Admission: Runtime.start *)

runUntouched == <<round, provider, stepVars, pendingAssistant, toolVars,
                  requestVars, inputVars>>

\* What runLoop does with RunStarted, or runInputGuardResponseLoop.
RunStartedEffects(t) ==
  IF t \in Guarded THEN <<Effect("Respond")>>
  ELSE <<AppendMessages(<<Message(t, "user", None)>>), Effect("StartProvider")>>

\* Mutant: the terminal event of the session's run is enough.
AdmitAtTerminalEvent(t) ==
  /\ starter[t] = "idle"
  /\ active \in {None} \cup {r \in Turn : terminal[r] # "none"}
  /\ starter' = [starter EXCEPT ![t] = "started"]
  /\ active' = t
  /\ Goto(t, RunStartedEffects(t))
  /\ UNCHANGED <<toolResultsClosed, runtimeDone, closer, closedRun, messages,
                 waitsFor, endVars, batch, runUntouched>>

\* Once the input guard and TurnExists let the request pass, under r.mu: the
\* session must have no run, or one that is Done, whose finished channel the
\* caller waits for.  A refused request changes nothing.
AdmitTurn(t) ==
  /\ starter[t] = "idle"
  /\ \/ /\ ~toolResultsClosed /\ active # None /\ Done(active)
        /\ starter' = [starter EXCEPT ![t] = "waiting"]
        /\ waitsFor' = [waitsFor EXCEPT ![t] = active]
        /\ UNCHANGED <<active, loop, todo>>
     \/ /\ ~toolResultsClosed /\ active = None
        /\ starter' = [starter EXCEPT ![t] = "started"]
        /\ active' = t
        /\ Goto(t, RunStartedEffects(t))
        /\ UNCHANGED waitsFor
  /\ UNCHANGED <<toolResultsClosed, runtimeDone, closer, closedRun, messages,
                 endVars, batch, runUntouched>>

\* The wait for the previous run's finished channel, or for a context.
WaitFinished(t) ==
  /\ starter[t] = "waiting"
  /\ \/ /\ finished[waitsFor[t]]
        /\ starter' = [starter EXCEPT ![t] = "idle"]
     \/ /\ ctxDone[t] \/ runtimeDone
        /\ starter' = [starter EXCEPT ![t] = "refused"]
  /\ waitsFor' = [waitsFor EXCEPT ![t] = None]
  /\ UNCHANGED <<runtimeVars, messages, endVars, loop, todo, batch, runUntouched>>

-----------------------------------------------------------------------------
(* The loop: Done before each effect, and the select *)

loopUntouched == <<runtimeVars, startVars, effectsDone, finished>>

\* processCommittedEvent checks Done before each effect of an event that is
\* not terminal; the run may still become Done between the check and the
\* effect, whose actions therefore do not wait for it.
CheckDone(t) ==
  /\ loop[t] = "effect" /\ todo[t][1].op \notin InnerOps
  /\ Done(t)
  /\ loop' = [loop EXCEPT ![t] = "reject"]
  /\ todo' = [todo EXCEPT ![t] = <<>>]
  /\ UNCHANGED <<messages, batch, terminal, runUntouched, loopUntouched>>

\* The top of runLoop's select; results drained in one go come first.
Selecting(t) == loop[t] = "select" /\ batch[t] = <<>>

\* Done is checked on entry, and terminalNotify is one of the cases; the
\* select may also pick another one that is ready.
SelectTerminal(t) ==
  /\ Selecting(t)
  /\ Done(t)
  /\ loop' = [loop EXCEPT ![t] = "reject"]
  /\ UNCHANGED <<messages, todo, batch, terminal, runUntouched, loopUntouched>>

Answer(t) == [c \in Elements(round[t].order) |->
                IF c \in Accepted(t) THEN round[t].accepted[c] ELSE "interrupted"]

InterruptionEffects(t) ==
  IF ~HasRound(t) THEN <<Effect("CancelProvider"), Effect("CloseRun")>>
  ELSE (IF Elements(round[t].order) \subseteq Accepted(t) THEN <<>>
        ELSE <<Effect("InterruptTools")>>)
       \o <<Effect("CancelProvider"), AppendMessages(ResultMessages(t, Answer(t))),
            Effect("CloseRun")>>

\* The interrupt mailbox, the turn's context and the runtime's context.
SelectInterrupt(t) ==
  /\ Selecting(t)
  /\ \/ control[t] = "requested" /\ control' = [control EXCEPT ![t] = "taken"]
     \/ (ctxDone[t] \/ runtimeDone) /\ UNCHANGED control
  /\ Terminate(t, "interrupted", InterruptionEffects(t))
  /\ UNCHANGED <<messages, round, provider, stepVars, pendingAssistant, toolVars,
                 ctxDone, inputVars, loopUntouched>>

\* toolResultsNotify: drain the queue.
SelectToolResults(t) ==
  /\ Selecting(t)
  /\ toolResults[t] # <<>>
  /\ batch' = [batch EXCEPT ![t] = toolResults[t]]
  /\ toolResults' = [toolResults EXCEPT ![t] = <<>>]
  /\ UNCHANGED <<messages, loop, todo, terminal, round, provider, stepVars,
                 pendingAssistant, outstanding, repeats, requestVars,
                 inputVars, loopUntouched>>

\* toolResultEffects once the last result of a round is in.
EndsTurn(order, accepted) ==
  /\ \A c \in Elements(order) : accepted[c] = "succeeded"
  /\ \/ \E c \in Elements(order) : Behavior[c] = "end_on_success"
     \/ \A c \in Elements(order) : Behavior[c] = "end"

RoundEffects(t, accepted) ==
  <<AppendMessages(ResultMessages(t, accepted)),
    Effect(IF EndsTurn(round[t].order, accepted) THEN "AttemptComplete"
           ELSE "StartProvider")>>

\* ToolResultReceived: an unknown call fails the run, a repeated result is
\* ignored, and the last result of the round appends all of them.
HandleToolResult(t) ==
  /\ loop[t] = "select"
  /\ batch[t] # <<>>
  /\ LET result == Head(batch[t])
         accepted == [c \in Accepted(t) \cup {result.call} |->
                        IF c \in Accepted(t) THEN round[t].accepted[c]
                        ELSE result.status]
         Drop == batch' = [batch EXCEPT ![t] = Tail(batch[t])]
     IN \/ terminal[t] # "none" /\ Leave(t) /\ UNCHANGED round
        \/ /\ terminal[t] = "none"
           /\ result.call \notin Elements(round[t].order)
           /\ Goto(t, <<Effect("RunFailed")>>) /\ Drop
           /\ UNCHANGED <<terminal, round>>
        \/ /\ terminal[t] = "none"
           /\ result.call \in Accepted(t)
           /\ Drop /\ UNCHANGED <<terminal, loop, todo, round>>
        \/ /\ terminal[t] = "none"
           /\ result.call \in Elements(round[t].order) \ Accepted(t)
           /\ round' = [round EXCEPT ![t] =
                          [order |-> round[t].order, accepted |-> accepted]]
           /\ Drop /\ UNCHANGED terminal
           /\ IF Elements(round[t].order) \subseteq DOMAIN accepted
              THEN Goto(t, RoundEffects(t, accepted))
              ELSE UNCHANGED <<loop, todo>>
  /\ UNCHANGED <<messages, provider, stepVars, pendingAssistant, toolVars,
                 requestVars, inputVars, loopUntouched>>

-----------------------------------------------------------------------------
(* The end of a provider stream *)

providerUntouched == <<messages, steps, stepLimitFinalizing, allowVars, offered,
                       listed, pendingAssistant, toolVars, requestVars,
                       inputVars, loopUntouched>>

StreamEnds(t) ==
  /\ Selecting(t)
  /\ provider[t]
  /\ provider' = [provider EXCEPT ![t] = FALSE]

\* The first malformed or unoffered call of a run is answered with one more
\* provider round, a second one fails it.
BeginRecovery(t) ==
  /\ recovery' = [recovery EXCEPT ![t] = IF @ = "unused" THEN "active" ELSE @]
  /\ CommitEvent(t, <<Effect(IF recovery[t] = "unused" THEN "StartProvider"
                             ELSE "RunFailed")>>)

FinishRecovery(t) ==
  recovery' = [recovery EXCEPT ![t] = IF @ = "active" THEN "used" ELSE @]

\* Finalization drops calls to tools that are not finalization tools.
KeptCalls(t, calls, kept) ==
  /\ Elements(kept) = {c \in Elements(calls) :
                         stepLimitFinalizing[t] => ToolOf[c] \in FinalTools}
  /\ \A i, j \in 1..Len(kept) : \A k, l \in 1..Len(calls) :
       kept[i] = calls[k] /\ kept[j] = calls[l] => (i < j <=> k < l)

\* validateProviderToolCalls
AllOffered(t, calls) == \A c \in Elements(calls) : ToolOf[c] \in offered[t]

\* StreamCompleted with the calls left after finalization's filter; without
\* calls it stages the text.
ProviderCompletes(t, calls) ==
  /\ StreamEnds(t)
  /\ \E kept \in CallLists \cup {<<>>} :
       /\ KeptCalls(t, calls, kept)
       /\ \/ /\ ~AllOffered(t, kept)
             /\ BeginRecovery(t)
             /\ UNCHANGED round
          \/ /\ AllOffered(t, kept) /\ kept = <<>>
             /\ FinishRecovery(t)
             /\ CommitEvent(t, <<Effect("StageAssistant"), Effect("AttemptComplete")>>)
             /\ UNCHANGED round
          \/ /\ AllOffered(t, kept) /\ kept # <<>>
             /\ FinishRecovery(t)
             /\ CommitEvent(t, <<AppendMessages(<<Message(t, "calls", kept)>>)>>
                            \o [i \in 1..Len(kept) |-> RequestTool(kept[i])])
             /\ round' = [round EXCEPT ![t] =
                            IF terminal[t] = "none" THEN NoRound ELSE @]
  /\ UNCHANGED providerUntouched

ProviderMalformed(t) ==
  /\ "stream" \in Faults
  /\ StreamEnds(t)
  /\ BeginRecovery(t)
  /\ UNCHANGED <<round, providerUntouched>>

ProviderFails(t) ==
  /\ "stream" \in Faults
  /\ StreamEnds(t)
  /\ CommitEvent(t, <<Effect("RunFailed")>>)
  /\ UNCHANGED <<recovery, round, providerUntouched>>

-----------------------------------------------------------------------------
(* The effects: interpretEffect *)

\* appendMessages, for user, tool-call and tool-result messages.
InterpretAppend(t) ==
  /\ At(t, "AppendMessages")
  /\ \/ /\ messages' = messages \o todo[t][1].arg
        /\ Proceed(t)
        /\ UNCHANGED <<terminal, batch>>
     \/ /\ "append" \in Faults
        /\ Fail(t)
        /\ UNCHANGED messages
  /\ UNCHANGED <<runUntouched, loopUntouched>>

\* EmitEvent of ToolCallRequested joins the round and leads to DispatchTool.
InterpretRequestTool(t) ==
  /\ At(t, "RequestTool")
  /\ LET c == todo[t][1].arg
     IN \/ /\ terminal[t] = "none"
           /\ round' = [round EXCEPT ![t].order = Append(@, c)]
           /\ Goto(t, <<[op |-> "DispatchTool", arg |-> c]>> \o Tail(todo[t]))
           /\ UNCHANGED <<terminal, batch>>
        \/ terminal[t] # "none" /\ Leave(t) /\ UNCHANGED round
  /\ UNCHANGED <<messages, provider, stepVars, pendingAssistant, toolVars,
                 requestVars, inputVars, loopUntouched>>

\* The request channel may be full until a context is cancelled.
InterpretDispatch(t) ==
  /\ At(t, "DispatchTool")
  /\ \/ /\ outstanding' = [outstanding EXCEPT ![t] = @ \cup {todo[t][1].arg}]
        /\ IF Done(t) THEN Leave(t)
           ELSE Proceed(t) /\ UNCHANGED <<terminal, batch>>
     \/ /\ ctxDone[t] \/ runtimeDone
        /\ Terminate(t, "interrupted", InterruptionEffects(t))
        /\ UNCHANGED outstanding
  /\ UNCHANGED <<messages, round, provider, stepVars, pendingAssistant,
                 toolResults, repeats, requestVars, inputVars, loopUntouched>>

\* failEffects: EmitEvent of RunFailed.
InterpretRunFailed(t) ==
  /\ At(t, "RunFailed")
  /\ Terminate(t, "failed", <<Effect("CloseRun")>>)
  /\ UNCHANGED <<messages, runUntouched, loopUntouched>>

InterpretStage(t) ==
  /\ At(t, "StageAssistant")
  /\ pendingAssistant' = [pendingAssistant EXCEPT ![t] = TRUE]
  /\ Proceed(t)
  /\ UNCHANGED <<messages, terminal, batch, round, provider, stepVars, toolVars,
                 requestVars, inputVars, loopUntouched>>

\* Mutant: the turn's context ends the wait too.
InterruptToolsUnlessCancelled(t) ==
  /\ At(t, "InterruptTools")
  /\ \/ Proceed(t) /\ UNCHANGED <<terminal, batch>>
     \/ (runtimeDone \/ ctxDone[t]) /\ Leave(t)
  /\ UNCHANGED <<messages, runUntouched, loopUntouched>>

\* The executor is told which calls of the turn to give up; the runtime's
\* context makes the goroutine leave before the rest of the cleanup.
InterpretInterruptTools(t) ==
  /\ At(t, "InterruptTools")
  /\ \/ Proceed(t) /\ UNCHANGED <<terminal, batch>>
     \/ runtimeDone /\ Leave(t)
  /\ UNCHANGED <<messages, runUntouched, loopUntouched>>

InterpretCancelProvider(t) ==
  /\ At(t, "CancelProvider")
  /\ provider' = [provider EXCEPT ![t] = FALSE]
  /\ Proceed(t)
  /\ UNCHANGED <<messages, terminal, batch, round, stepVars, pendingAssistant,
                 toolVars, requestVars, inputVars, loopUntouched>>

InterpretCloseRun(t) ==
  /\ At(t, "CloseRun")
  /\ loop' = [loop EXCEPT ![t] = "reject"]
  /\ todo' = [todo EXCEPT ![t] = <<>>]
  /\ UNCHANGED <<messages, terminal, batch, runUntouched, loopUntouched>>

-----------------------------------------------------------------------------
(* Provider rounds *)

Queued(t) == Elements(runtimeInputs[t])

InputMessages(t) ==
  [k \in 1..Len(runtimeInputs[t]) |-> Message(t, "input", runtimeInputs[t][k])]

Tell(inputs, answer) ==
  inject' = [i \in Input |-> IF i \in inputs THEN [inject[i] EXCEPT !.at = answer]
                             ELSE inject[i]]

\* Mutant: the callers are told before the messages are stored.
TellThenAppendInputs(t, rest) ==
  /\ runtimeInputs' = [runtimeInputs EXCEPT ![t] = <<>>]
  /\ Tell(Queued(t), "accepted")
  /\ \/ /\ messages' = messages \o InputMessages(t)
        /\ Goto(t, rest)
        /\ UNCHANGED <<terminal, batch>>
     \/ /\ "append" \in Faults /\ runtimeInputs[t] # <<>>
        /\ Fail(t)
        /\ UNCHANGED messages

\* appendRuntimeInputs: the queued inputs are stored and their callers told,
\* then the loop goes on with rest.
AppendRuntimeInputs(t, rest) ==
  /\ runtimeInputs' = [runtimeInputs EXCEPT ![t] = <<>>]
  /\ \/ /\ messages' = messages \o InputMessages(t)
        /\ Tell(Queued(t), "accepted")
        /\ Goto(t, rest)
        /\ UNCHANGED <<terminal, batch>>
     \/ /\ "append" \in Faults /\ runtimeInputs[t] # <<>>
        /\ Tell(Queued(t), "failed")
        /\ Fail(t)
        /\ UNCHANGED messages

\* startProvider begins by draining the queue.
InterpretStartProvider(t) ==
  /\ At(t, "StartProvider") \/ At(t, "RestartProvider")
  /\ AppendRuntimeInputs(t, <<Effect("StartModel")>> \o Tail(todo[t]))
  /\ UNCHANGED <<round, provider, stepVars, pendingAssistant, toolVars,
                 requestVars, loopUntouched>>

AtStepLimit(t) == MaxSteps > 0 /\ steps[t] >= MaxSteps

\* ErrMaxSteps: the finalization rounds are used up too.
StepsExhausted(t) ==
  AtStepLimit(t) /\ stepLimitFinalizing[t] /\ steps[t] - MaxSteps >= FinalRounds

\* A restricted run filters by its allowlist, but completionToolRestriction
\* copies the list with append, which turns an empty one into nil, and outside
\* finalization a nil list does not filter.
Filter(t, tools) ==
  IF allowlist[t] = {} THEN tools ELSE tools \cap allowlist[t]

\* The tools of the next request.
OfferedTools(t) ==
  IF recovery[t] = "active" THEN {}
  ELSE IF stepLimitFinalizing'[t]
  THEN IF toolsRestricted[t] THEN FinalTools \cap allowlist[t] ELSE FinalTools
  ELSE IF toolsRestricted[t] THEN Filter(t, Tools) ELSE Tools

\* The rest of startProvider: the step limit, the transcript, reminders and
\* compaction, Model.Start.
InterpretStartModel(t) ==
  /\ At(t, "StartModel")
  /\ stepLimitFinalizing' = [stepLimitFinalizing EXCEPT ![t] = @ \/ AtStepLimit(t)]
  /\ \/ /\ ~StepsExhausted(t)
        /\ provider' = [provider EXCEPT ![t] = TRUE]
        /\ offered' = [offered EXCEPT ![t] = OfferedTools(t)]
        /\ listed' = [listed EXCEPT ![t] = Len(messages)]
        /\ steps' = [steps EXCEPT ![t] = @ + 1]
        /\ Proceed(t)
        /\ UNCHANGED <<terminal, batch>>
     \/ /\ StepsExhausted(t) \/ "model" \in Faults
        /\ Fail(t)
        /\ UNCHANGED <<provider, offered, listed, steps>>
  /\ UNCHANGED <<messages, round, recovery, allowVars, pendingAssistant, toolVars,
                 requestVars, inputVars, loopUntouched>>

-----------------------------------------------------------------------------
(* Completion: attemptComplete *)

\* Mutant: inputs are stored, but the candidate goes on to the guards.
AttemptCompleteAnyway(t) ==
  /\ At(t, "AttemptComplete")
  /\ AppendRuntimeInputs(t, <<Effect("Inspect")>>)
  /\ UNCHANGED <<pendingAssistant, round, provider, stepVars, toolVars,
                 requestVars, loopUntouched>>

\* Queued inputs win: the candidate is dropped and another round started.
InterpretAttemptComplete(t) ==
  /\ At(t, "AttemptComplete")
  /\ AppendRuntimeInputs(t, <<Effect(IF runtimeInputs[t] = <<>> THEN "Inspect"
                                     ELSE "RestartProvider")>>)
  /\ pendingAssistant' = [pendingAssistant EXCEPT ![t] = @ /\ messages' = messages]
  /\ UNCHANGED <<round, provider, stepVars, toolVars, requestVars, loopUntouched>>

\* Another round with reminders; a non-nil allowlist replaces the earlier one.
RetryCompletion(t) ==
  /\ pendingAssistant' = [pendingAssistant EXCEPT ![t] = FALSE]
  /\ Goto(t, <<Effect("RestartProvider")>>)
  /\ UNCHANGED <<terminal, batch>>

\* The output guard sees a staged candidate, then the completion guard
\* decides: retry, proceed, or proceed without the candidate.
InterpretInspect(t) ==
  /\ At(t, "Inspect")
  /\ \/ /\ "guard" \in Faults
        /\ Fail(t)
        /\ UNCHANGED <<pendingAssistant, allowVars>>
     \/ /\ pendingAssistant[t]
        /\ RetryCompletion(t)
        /\ UNCHANGED allowVars
     \/ /\ RetryCompletion(t)
        /\ \/ UNCHANGED allowVars
           \/ /\ toolsRestricted' = [toolsRestricted EXCEPT ![t] = TRUE]
              /\ \E a \in Allowlists : allowlist' = [allowlist EXCEPT ![t] = a]
     \/ /\ \E keep \in BOOLEAN :
             pendingAssistant' = [pendingAssistant EXCEPT ![t] = @ /\ keep]
        /\ Goto(t, <<Effect("CommitPending"), Effect("RunCompleted")>>)
        /\ UNCHANGED <<terminal, batch, allowVars>>
  /\ UNCHANGED <<messages, round, provider, steps, stepLimitFinalizing, recovery,
                 offered, listed, toolVars, requestVars, inputVars, loopUntouched>>

\* commitPendingAssistant
InterpretCommitPending(t) ==
  /\ At(t, "CommitPending")
  /\ \/ /\ messages' = IF pendingAssistant[t]
                       THEN Append(messages, Message(t, "assistant", None))
                       ELSE messages
        /\ pendingAssistant' = [pendingAssistant EXCEPT ![t] = FALSE]
        /\ Proceed(t)
        /\ UNCHANGED <<terminal, batch>>
     \/ /\ "append" \in Faults /\ pendingAssistant[t]
        /\ Fail(t)
        /\ UNCHANGED <<messages, pendingAssistant>>
  /\ UNCHANGED <<round, provider, stepVars, toolVars, requestVars, inputVars,
                 loopUntouched>>

InterpretRunCompleted(t) ==
  /\ At(t, "RunCompleted")
  /\ Terminate(t, "completed", <<Effect("CloseRun")>>)
  /\ UNCHANGED <<messages, runUntouched, loopUntouched>>

\* runInputGuardResponseLoop: the prompt and the guard's response are stored
\* together, unless the turn's context is already cancelled.
InterpretRespond(t) ==
  /\ At(t, "Respond")
  /\ \/ /\ ctxDone[t]
        /\ Terminate(t, "interrupted", InterruptionEffects(t))
        /\ UNCHANGED messages
     \/ /\ ~ctxDone[t]
        /\ messages' = messages \o <<Message(t, "user", None),
                                     Message(t, "assistant", None)>>
        /\ Goto(t, <<Effect("RespondCompleted")>>)
        /\ UNCHANGED <<terminal, batch>>
     \/ /\ ~ctxDone[t] /\ "append" \in Faults
        /\ Fail(t)
        /\ UNCHANGED messages
  /\ UNCHANGED <<runUntouched, loopUntouched>>

\* Its events are published one after another; finish follows in any case.
InterpretRespondCompleted(t) ==
  /\ At(t, "RespondCompleted")
  /\ terminal' = [terminal EXCEPT ![t] = IF @ = "none" THEN "completed" ELSE @]
  /\ loop' = [loop EXCEPT ![t] = "reject"]
  /\ todo' = [todo EXCEPT ![t] = <<>>]
  /\ UNCHANGED <<messages, batch, runUntouched, loopUntouched>>

-----------------------------------------------------------------------------
(* finish, in its four locked steps *)

finishUntouched == <<messages, startVars, terminal, todo, batch, round, stepVars,
                     pendingAssistant, toolVars, requestVars, toolResultsClosed,
                     runtimeDone, closer, closedRun>>

\* cancelProvider and rejectRuntimeInputs
FinishReject(t) ==
  /\ loop[t] = "reject"
  /\ provider' = [provider EXCEPT ![t] = FALSE]
  /\ Tell(Queued(t), "refused")
  /\ runtimeInputs' = [runtimeInputs EXCEPT ![t] = <<>>]
  /\ loop' = [loop EXCEPT ![t] = "mark"]
  /\ UNCHANGED <<active, effectsDone, finished, finishUntouched>>

\* markEffectsDone: Done and Result turn, subscribers are closed.
FinishMark(t) ==
  /\ loop[t] = "mark"
  /\ effectsDone' = [effectsDone EXCEPT ![t] = @ \/ terminal[t] # "none"]
  /\ loop' = [loop EXCEPT ![t] = "unregister"]
  /\ UNCHANGED <<active, finished, provider, inputVars, finishUntouched>>

\* Runtime.unregister compares before it deletes.
FinishUnregister(t) ==
  /\ loop[t] = "unregister"
  /\ active' = IF active = t THEN None ELSE active
  /\ loop' = [loop EXCEPT ![t] = "close"]
  /\ UNCHANGED <<effectsDone, finished, provider, inputVars, finishUntouched>>

FinishClose(t) ==
  /\ loop[t] = "close"
  /\ finished' = [finished EXCEPT ![t] = TRUE]
  /\ loop' = [loop EXCEPT ![t] = "exited"]
  /\ UNCHANGED <<active, effectsDone, provider, inputVars, finishUntouched>>

-----------------------------------------------------------------------------
(* The executor and the result router *)

MayCancel(kind) ==
  /\ kind \in Cancels
  /\ Cardinality({t \in Turn : ctxDone[t]})
       + Cardinality({t \in Turn : control[t] # "none"})
       + (IF runtimeDone THEN 1 ELSE 0)
       + (IF toolResultsClosed THEN 1 ELSE 0) < MaxCancels

othersUntouched == <<messages, startVars, finished, loop, todo, batch, round,
                     provider, stepVars, pendingAssistant>>

\* A tool reports; routeToolResult queues the result for the run it names,
\* if that run is registered and not done, and drops it otherwise.  The
\* channel is the caller's, so a result may come once more.
RouteToolResult(t, c, status) ==
  /\ c \in outstanding[t]
  /\ ~toolResultsClosed
  /\ \/ /\ outstanding' = [outstanding EXCEPT ![t] = @ \ {c}]
        /\ UNCHANGED repeats
     \/ /\ repeats < MaxRepeats
        /\ repeats' = repeats + 1
        /\ UNCHANGED outstanding
  /\ toolResults' = [toolResults EXCEPT ![t] =
                       IF active = t /\ terminal[t] = "none"
                       THEN Append(@, [call |-> c, status |-> status]) ELSE @]
  /\ UNCHANGED <<runtimeVars, endVars, requestVars, inputVars, othersUntouched>>

\* failActiveRunsForClosedResults: it refuses further turns, and publishes
\* RunFailed for the active run in two locked steps before unregistering it.
CloseResults ==
  /\ MayCancel("results")
  /\ closer = "routing"
  /\ toolResultsClosed' = TRUE
  /\ closedRun' = active
  /\ closer' = IF active = None THEN "over" ELSE "publish"
  /\ UNCHANGED <<active, runtimeDone, endVars, toolVars, requestVars, inputVars,
                 othersUntouched>>

PublishClosed ==
  /\ closer = "publish"
  /\ \/ /\ terminal[closedRun] = "none"
        /\ terminal' = [terminal EXCEPT ![closedRun] = "failed"]
        /\ closer' = "mark"
     \/ /\ terminal[closedRun] # "none"
        /\ closer' = "unregister"
        /\ UNCHANGED terminal
  /\ UNCHANGED <<active, toolResultsClosed, runtimeDone, closedRun, effectsDone,
                 toolVars, requestVars, inputVars, othersUntouched>>

MarkClosed ==
  /\ closer = "mark"
  /\ effectsDone' = [effectsDone EXCEPT ![closedRun] = TRUE]
  /\ closer' = "unregister"
  /\ UNCHANGED <<active, toolResultsClosed, runtimeDone, closedRun, terminal,
                 toolVars, requestVars, inputVars, othersUntouched>>

UnregisterClosed ==
  /\ closer = "unregister"
  /\ active' = IF active = closedRun THEN None ELSE active
  /\ closer' = "over"
  /\ UNCHANGED <<toolResultsClosed, runtimeDone, closedRun, effectsDone, terminal,
                 toolVars, requestVars, inputVars, othersUntouched>>

-----------------------------------------------------------------------------
(* Callers: Interrupt, contexts and InjectRuntimeMessage *)

\* Runtime.Interrupt finds the run by its exact turn; repeats are no-ops.
Interrupt(t) ==
  /\ MayCancel("interrupt")
  /\ active = t /\ terminal[t] = "none" /\ control[t] = "none"
  /\ control' = [control EXCEPT ![t] = "requested"]
  /\ UNCHANGED <<runtimeVars, endVars, toolVars, ctxDone, inputVars, othersUntouched>>

CancelTurn(t) ==
  /\ MayCancel("ctx")
  /\ starter[t] \in {"started", "waiting"} /\ ~ctxDone[t] /\ ~finished[t]
  /\ ctxDone' = [ctxDone EXCEPT ![t] = TRUE]
  /\ UNCHANGED <<runtimeVars, endVars, toolVars, control, inputVars, othersUntouched>>

CancelRuntime ==
  /\ MayCancel("runtime")
  /\ ~runtimeDone
  /\ runtimeDone' = TRUE
  /\ UNCHANGED <<active, toolResultsClosed, closer, closedRun, endVars, toolVars,
                 requestVars, inputVars, othersUntouched>>

callerUntouched == <<runtimeVars, endVars, toolVars, requestVars, othersUntouched>>

\* The run is looked up under the runtime's lock (a caller that does not
\* find it changes nothing) ...
InjectRuntimeMessage(i, t) ==
  /\ inject[i].at = "idle"
  /\ active = t /\ ~Done(t)
  /\ inject' = [inject EXCEPT ![i] = [at |-> "found", turn |-> t]]
  /\ UNCHANGED <<runtimeInputs, callerUntouched>>

\* ... and the message queued under the run's.  The caller then waits for its
\* answer or for the finished channel; the channel never comes first, because
\* finish answers the queue after the last message that can join it.
EnqueueRuntimeInput(i) ==
  /\ inject[i].at = "found"
  /\ LET t == inject[i].turn
     IN \/ /\ terminal[t] # "none" \/ effectsDone[t]
           /\ inject' = [inject EXCEPT ![i].at = "refused"]
           /\ UNCHANGED runtimeInputs
        \/ /\ terminal[t] = "none" /\ ~effectsDone[t]
           /\ inject' = [inject EXCEPT ![i].at = "queued"]
           /\ runtimeInputs' = [runtimeInputs EXCEPT ![t] = Append(@, i)]
  /\ UNCHANGED callerUntouched

-----------------------------------------------------------------------------
LoopStep(t) ==
  \/ CheckDone(t) \/ SelectTerminal(t) \/ SelectInterrupt(t)
  \/ SelectToolResults(t) \/ HandleToolResult(t)
  \/ InterpretAppend(t) \/ InterpretRequestTool(t) \/ InterpretDispatch(t)
  \/ InterpretRunFailed(t) \/ InterpretStage(t) \/ InterpretInterruptTools(t)
  \/ InterpretCancelProvider(t) \/ InterpretCloseRun(t)
  \/ InterpretStartProvider(t) \/ InterpretStartModel(t)
  \/ InterpretAttemptComplete(t) \/ InterpretInspect(t)
  \/ InterpretCommitPending(t) \/ InterpretRunCompleted(t)
  \/ InterpretRespond(t) \/ InterpretRespondCompleted(t)
  \/ FinishReject(t) \/ FinishMark(t) \/ FinishUnregister(t) \/ FinishClose(t)

ProviderStep(t) ==
  \/ \E calls \in CallLists \cup {<<>>} : ProviderCompletes(t, calls)
  \/ ProviderMalformed(t) \/ ProviderFails(t)

Start(t) == AdmitTurn(t) \/ WaitFinished(t)

Report(t, c) == \E status \in {"succeeded", "failed"} : RouteToolResult(t, c, status)

Router == CloseResults \/ PublishClosed \/ MarkClosed \/ UnregisterClosed

Next ==
  \/ \E t \in Turn : LoopStep(t) \/ ProviderStep(t) \/ Start(t)
                     \/ Interrupt(t) \/ CancelTurn(t)
                     \/ \E c \in Call : Report(t, c)
  \/ \E i \in Input : (\E t \in Turn : InjectRuntimeMessage(i, t))
                      \/ EnqueueRuntimeInput(i)
  \/ CancelRuntime \/ Router

Spec == Init /\ [][Next]_vars

\* The goroutines of the runtime are scheduled, storage and guards return,
\* a stream ends and a tool reports.  Nothing makes a caller act.
Fairness ==
  /\ \A t \in Turn : /\ WF_vars(LoopStep(t))
                     /\ WF_vars(ProviderStep(t))
                     /\ WF_vars(WaitFinished(t))
                     /\ \A c \in Call : WF_vars(Report(t, c))
  /\ \A i \in Input : WF_vars(EnqueueRuntimeInput(i))
  /\ WF_vars(PublishClosed \/ MarkClosed \/ UnregisterClosed)

FairSpec == Spec /\ Fairness

-----------------------------------------------------------------------------
(* Properties *)

LoopPlaces == {"idle", "effect", "closing", "select", "reject", "mark",
               "unregister", "close", "exited"}

\* What a message says depends on its kind.
MessagesOf(kinds, contents) == [turn : Turn, kind : kinds, what : contents]
Messages == MessagesOf({"user", "assistant"}, {None}) \cup MessagesOf({"input"}, Input)
              \cup MessagesOf({"calls"}, Seq(Call)) \cup MessagesOf({"result"}, Result)

Effects == {"AppendMessages", "StartProvider", "RequestTool", "DispatchTool",
            "RunFailed", "StageAssistant", "AttemptComplete", "InterruptTools",
            "CancelProvider", "CloseRun"} \cup InnerOps
Arguments == {None} \cup Call \cup Seq(Messages)

RuntimeTypes ==
  /\ active \in Turn \cup {None} /\ closedRun \in Turn \cup {None}
  /\ toolResultsClosed \in BOOLEAN /\ runtimeDone \in BOOLEAN
  /\ closer \in {"routing", "publish", "mark", "unregister", "over"}
  /\ messages \in Seq(Messages)
  /\ starter \in [Turn -> {"idle", "waiting", "started", "refused"}]
  /\ waitsFor \in [Turn -> Turn \cup {None}]

EndTypes ==
  /\ terminal \in [Turn -> {"none", "completed", "failed", "interrupted"}]
  /\ effectsDone \in [Turn -> BOOLEAN] /\ finished \in [Turn -> BOOLEAN]

TodoTypes ==
  /\ loop \in [Turn -> LoopPlaces]
  /\ todo \in [Turn -> Seq([op : Effects, arg : Arguments])]
  /\ \A t \in Turn : loop[t] \in {"effect", "closing"} <=> todo[t] # <<>>

\* A round holds the calls requested, and results of some of them.
RoundTypes ==
  /\ batch \in [Turn -> Seq(Result)]
  /\ round \in [Turn -> [order : Seq(Call), accepted : UNION {[S -> Status] : S \in SUBSET Call}]]
  /\ \A t \in Turn : Accepted(t) \subseteq Elements(round[t].order)

ProviderTypes ==
  /\ provider \in [Turn -> BOOLEAN]
  /\ offered \in [Turn -> SUBSET Tools]
  /\ listed \in [Turn -> Nat] /\ \A t \in Turn : listed[t] <= Len(messages)
  /\ steps \in [Turn -> Nat]
  /\ stepLimitFinalizing \in [Turn -> BOOLEAN]
  /\ recovery \in [Turn -> {"unused", "active", "used"}]
  /\ toolsRestricted \in [Turn -> BOOLEAN]
  /\ allowlist \in [Turn -> Allowlists \cup {{}}]
  /\ pendingAssistant \in [Turn -> BOOLEAN]

QueueTypes ==
  /\ toolResults \in [Turn -> Seq(Result)]
  /\ outstanding \in [Turn -> SUBSET Call]
  /\ repeats \in 0..MaxRepeats
  /\ control \in [Turn -> {"none", "requested", "taken"}]
  /\ ctxDone \in [Turn -> BOOLEAN]
  /\ runtimeInputs \in [Turn -> Seq(Input)]
  /\ inject \in [Input -> [at : {"idle", "found", "queued", "accepted", "failed", "refused"},
                           turn : Turn \cup {None}]]

\* Every variable keeps its type; the steps of the loop's work are effects of
\* interpretEffect or steps inside one.
TypeOK ==
  RuntimeTypes /\ EndTypes /\ TodoTypes /\ RoundTypes /\ ProviderTypes /\ QueueTypes

\* In the first n messages of the transcript each tool-call message of turn t
\* is followed by one result per call, in the order of the calls, and the turn
\* has no other results.
Paired(t, n) ==
  \A k \in 1..n : messages[k].turn = t =>
    /\ messages[k].kind = "calls" =>
         \A j \in 1..Len(messages[k].what) :
           /\ k + j <= n
           /\ messages[k + j].turn = t /\ messages[k + j].kind = "result"
           /\ messages[k + j].what.call = messages[k].what[j]
    /\ messages[k].kind = "result" =>
         \E i \in 1..(k - 1) : /\ messages[i].turn = t /\ messages[i].kind = "calls"
                               /\ k - i <= Len(messages[i].what)

\* Every request to the model, and the transcript of a completed turn, has
\* the turn's tool calls and results paired and nothing between them, whatever
\* order results, repeated results and injected messages arrived in (providers
\* refuse a request where they are not).
RequestIsPaired ==
  \A t \in Turn :
    /\ provider[t] => Paired(t, listed[t])
    /\ terminal[t] = "completed" => Paired(t, Len(messages))

\* The transcript of a session is one block per turn: start waits until the
\* previous run has appended its last message (runtime.go:490).
TurnsDoNotInterleave ==
  \A i, j, k \in 1..Len(messages) :
    i < j /\ j < k /\ messages[i].turn = messages[k].turn
      => messages[j].turn = messages[i].turn

\* A caller of InjectRuntimeMessage is told the truth: its message is stored
\* exactly once if it was accepted, and never if it was refused or failed.
InputAccounting ==
  \A i \in Input :
    LET stored == {k \in 1..Len(messages) :
                     messages[k].kind = "input" /\ messages[k].what = i}
    IN IF inject[i].at = "accepted"
       THEN \E k \in stored : stored = {k} /\ messages[k].turn = inject[i].turn
       ELSE stored = {}

\* A turn completes only on a response of a model that saw every message
\* injected into the turn: no accepted input is left unread.
CompletedSawInputs ==
  \A t \in Turn : terminal[t] = "completed" =>
    \A k \in (listed[t] + 1)..Len(messages) :
      messages[k].turn = t => messages[k].kind # "input"

\* The messages of turn t and where they are in the transcript.
Own(t, ms) == {<<k, ms[k]>> : k \in {j \in 1..Len(ms) : ms[j].turn = t}}

\* "Done reports whether the terminal event and all of its side effects,
\* including transcript persistence, have completed" (run.go:287): a turn
\* that is Done never adds to the transcript.  The exception is a run the
\* router fails when the results channel is closed: publish marks it Done
\* while the loop may be in the middle of an effect.
DoneIsPersisted ==
  [][\A t \in Turn : Done(t) /\ ~toolResultsClosed
                        => Own(t, messages') = Own(t, messages)]_vars

\* An admitted turn ends: its terminal event is published, its cleanup
\* finishes and the session is free for the next turn.  Both this and the
\* next property except a closed results channel and a cancelled runtime,
\* after which the loop may leave without finish.
RunFinishes ==
  \A t \in Turn : starter[t] = "started"
    ~> (finished[t] /\ active # t) \/ toolResultsClosed \/ runtimeDone

\* A queued input is answered: stored, failed, or refused so that the host
\* can deliver it in a turn of its own.
InputAnswered ==
  \A i \in Input : inject[i].at = "queued"
    ~> inject[i].at \in {"accepted", "failed", "refused"}
         \/ toolResultsClosed \/ runtimeDone

-----------------------------------------------------------------------------
(***************************************************************************)
(* What the code's own words say and the code does not do.  No run checks  *)
(* these; README.md gives the constants that show each counterexample.     *)
(***************************************************************************)

\* "A non-nil ToolAllowlist restricts every provider round after retry
\* begins; an empty non-nil allowlist exposes no tools" (completion.go:37).
AllowlistRestricts ==
  \A t \in Turn : provider[t] /\ toolsRestricted[t] => offered[t] \subseteq allowlist[t]
=============================================================================
