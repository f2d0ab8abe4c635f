---------------------------- MODULE ResponseScope ----------------------------
(***************************************************************************)
(* The response scopes of one main-agent session.                          *)
(*                                                                         *)
(* toolexecution/response_scope.go keeps, under one mutex, a scope per     *)
(* human turn: how many of its turns are active, how many accepted         *)
(* subagent assignments still owe a result (pendingResults) and how many   *)
(* results wait to be appended to a running turn (pendingInputs).  A scope *)
(* ends when all three reach zero.  Its callers are modelled with it,      *)
(* because the counters are only right if the callers keep their protocol: *)
(*   - Agent.Start / watchAcceptedRun (agent.go) begin and finish turns;   *)
(*   - the task tool registers assignments (subagent_manager.go);          *)
(*   - ONE goroutine delivers finished task results (agent.go,             *)
(*     deliverTaskResult), inline or through a continuation turn;          *)
(*   - executor workers run EndResponseScope tools (worker.go);            *)
(*   - the application may close a subagent at any time.                   *)
(* Every lock-to-unlock section of the coordinator is one action; code     *)
(* that runs unlocked between two sections is two actions.                 *)
(*                                                                         *)
(* All maps of the coordinator are keyed by session, so sessions do not    *)
(* interact and one is enough.  Retries of a continuation draw a fresh     *)
(* random turn ID each time; the model gives the unused one back.          *)
(***************************************************************************)
EXTENDS Naturals, Sequences, FiniteSets

CONSTANTS
  MainTurn,     \* IDs of human turns; a scope is named by its main turn
  Continuation, \* fresh turn IDs drawn by deliverTaskResult
  Subagent,     \* subagent (task) IDs
  Work,         \* subagent turn IDs: one per accepted assignment
  SubagentOf,   \* [Work -> Subagent]
  Direct,       \* works started by Agent.StartSubagent, not by the task tool
  EndTool,      \* tools whose trigger is EndResponseScope
  Closable,     \* subagents the application may close
  Interruptible,\* turns whose run may end while their tool calls are in flight
  LateCaller,   \* of these, the ones whose EndResponseScope call may begin after
                \* FinishTurn (a request the executor meets after the interrupt)
  Failures,     \* the failures of runtime calls that may happen
  DeliveryCap,  \* capacity of the taskDeliveries channel
  NoTurn, NoWork

Turn == MainTurn \cup Continuation

ASSUME ConstantsAssumption ==
  /\ MainTurn \cap Continuation = {}
  /\ NoTurn \notin Turn
  /\ NoWork \notin Work
  /\ IsFiniteSet(MainTurn) /\ IsFiniteSet(Continuation) /\ IsFiniteSet(Work)
  /\ SubagentOf \in [Work -> Subagent]
  /\ Direct \subseteq Work
  /\ Closable \subseteq Subagent
  /\ Interruptible \subseteq Turn
  /\ LateCaller \subseteq Interruptible
  /\ Failures \subseteq {"start", "append", "store"}
  /\ DeliveryCap \in Nat \ {0}

VARIABLES
  \* the coordinator (all guarded by c.mu)
  state,               \* [MainTurn -> "none" | "open" | "ending"]
  activeTurns,         \* [MainTurn -> Nat]
  pendingResults,      \* [MainTurn -> Nat]
  pendingInputs,       \* [MainTurn -> Nat]
  endScopeExecuting,   \* [MainTurn -> SUBSET EndTool]
  endScopeCompleted,   \* [MainTurn -> SUBSET EndTool]
  turns,               \* [Turn -> scope or NoTurn]
  resultTurns,         \* continuation turns of live scopes
  assignments,         \* works whose assignment is queued
  sequence,            \* [Work -> Nat], queue position; see IsHead
  nextAssignment,
  assignmentScope,     \* [Work -> scope or NoTurn], the assignment's scope
  results,             \* [Work -> scope or NoTurn], result tombstones
  cancelledSubagents,
  \* the callers
  phase,               \* [Turn -> TurnPhase]
  active,              \* the session's active run, or NoTurn
  work,                \* [Work -> WorkPhase]
  origin,              \* [Work -> turn whose tool call started it, or NoTurn]
  deliveries,          \* the taskDeliveries channel
  delivery,            \* the delivery goroutine
  closed,              \* subagents whose record is durably closed
  endCalls,            \* EndResponseScope calls in their unlocked window
  \* what is observable
  events,              \* [MainTurn -> scope events published, in order]
  deliveredIn          \* [Work -> turn its result was appended to, or NoTurn]

counters  == <<activeTurns, pendingResults, pendingInputs>>
endTools  == <<endScopeExecuting, endScopeCompleted>>
bindings  == <<turns, resultTurns>>
queueVars == <<assignments, sequence, nextAssignment, assignmentScope>>
taskVars  == <<work, origin, deliveries, closed>>
runVars   == <<phase, active>>
vars == <<state, counters, endTools, bindings, queueVars, results,
          cancelledSubagents, runVars, taskVars, delivery, endCalls, events,
          deliveredIn>>

\* Where a turn stands: between BeginMainAgentTurn (or the reservation) and
\* Runtime.Start; running; over but not yet seen by watchAcceptedRun; inside
\* the unlocked parts of FinishTurn; finished.
TurnPhase == {"idle", "starting", "running", "over",
              "preEnding", "removing", "finished"}

\* A task: its turn has started, its assignment is being registered, it is
\* running with its delivery stored, its result is queued for delivery, it has
\* been delivered, it was not accepted, or its result is given up.
WorkPhase == {"new", "started", "registering", "running", "published",
              "delivered", "rejected", "dropped"}

DeliveryStep == {"idle", "check", "inlineReserve", "inline", "reserve", "start"}

\* The delivery goroutine.  task is the result at hand, taken the assignment
\* its reservation popped, turn the continuation it reserved.
Delivery(step, task, taken, turn, scope) ==
  [step |-> step, task |-> task, taken |-> taken, turn |-> turn, scope |-> scope]
At(step, task) == Delivery(step, task, NoWork, NoTurn, NoTurn)
IdleDelivery == At("idle", NoWork)

\* A turn counted in activeTurns: admitted or being admitted, and FinishTurn
\* has not run.
Counted == {"starting", "running", "over"}

Queue(a) == {w \in assignments : SubagentOf[w] = a}

IsLast(w, a) == w \in Queue(a) /\ \A v \in Queue(a) : sequence[w] >= sequence[v]

\* queue[0].  Registration appends with the next sequence number and only one
\* reservation is ever open, so an assignment that Rollback puts back in front
\* is again the one with the lowest number.
IsHead(w, a) == w \in Queue(a) /\ \A v \in Queue(a) : sequence[w] <= sequence[v]

Init ==
  /\ state = [s \in MainTurn |-> "none"]
  /\ activeTurns = [s \in MainTurn |-> 0]
  /\ pendingResults = [s \in MainTurn |-> 0]
  /\ pendingInputs = [s \in MainTurn |-> 0]
  /\ endScopeExecuting = [s \in MainTurn |-> {}]
  /\ endScopeCompleted = [s \in MainTurn |-> {}]
  /\ turns = [t \in Turn |-> NoTurn]
  /\ resultTurns = {}
  /\ assignments = {}
  /\ sequence = [w \in Work |-> 0]
  /\ nextAssignment = 0
  /\ assignmentScope = [w \in Work |-> NoTurn]
  /\ results = [w \in Work |-> NoTurn]
  /\ cancelledSubagents = {}
  /\ phase = [t \in Turn |-> "idle"]
  /\ active = NoTurn
  /\ work = [w \in Work |-> "new"]
  /\ origin = [w \in Work |-> NoTurn]
  /\ deliveries = <<>>
  /\ delivery = IdleDelivery
  /\ closed = {}
  /\ endCalls = {}
  /\ events = [s \in MainTurn |-> <<>>]
  /\ deliveredIn = [w \in Work |-> NoTurn]
-----------------------------------------------------------------------------
(***************************************************************************)
(* Turns                                                                   *)
(***************************************************************************)

\* Agent.Start opens the scope before the runtime admits the turn.
BeginMainAgentTurn(t) ==
  /\ phase[t] = "idle"
  /\ turns[t] = NoTurn
  /\ state[t] = "none"
  /\ state' = [state EXCEPT ![t] = "open"]
  /\ activeTurns' = [activeTurns EXCEPT ![t] = 1]
  /\ pendingResults' = [pendingResults EXCEPT ![t] = 0]
  /\ pendingInputs' = [pendingInputs EXCEPT ![t] = 0]
  /\ endScopeExecuting' = [endScopeExecuting EXCEPT ![t] = {}]
  /\ endScopeCompleted' = [endScopeCompleted EXCEPT ![t] = {}]
  /\ turns' = [turns EXCEPT ![t] = t]
  /\ phase' = [phase EXCEPT ![t] = "starting"]
  /\ UNCHANGED <<resultTurns, queueVars, results, cancelledSubagents, active,
                 taskVars, delivery, endCalls, events, deliveredIn>>

\* Runtime.Start admits the turn: the session has no active run.
AcceptMainAgentTurn(t) ==
  /\ phase[t] = "starting"
  /\ active = NoTurn
  /\ active' = t
  /\ phase' = [phase EXCEPT ![t] = "running"]
  /\ UNCHANGED <<state, counters, endTools, bindings, queueVars, results,
                 cancelledSubagents, taskVars, delivery, endCalls, events,
                 deliveredIn>>

\* Runtime.Start refuses (a run is active, or it fails); the scope is removed
\* and the caller may try again.
RollbackMainAgentTurn(t) ==
  /\ phase[t] = "starting"
  /\ active # NoTurn \/ "start" \in Failures
  /\ turns' = [turns EXCEPT ![t] = NoTurn]
  /\ resultTurns' = resultTurns \ {t}
  /\ state' = [state EXCEPT ![turns[t]] = "none"]
  /\ activeTurns' = [activeTurns EXCEPT ![turns[t]] = 0]
  /\ pendingResults' = [pendingResults EXCEPT ![turns[t]] = 0]
  /\ pendingInputs' = [pendingInputs EXCEPT ![turns[t]] = 0]
  /\ phase' = [phase EXCEPT ![t] = "idle"]
  /\ UNCHANGED <<endTools, queueVars, results,
                 cancelledSubagents, active, taskVars, delivery, endCalls,
                 events, deliveredIn>>

\* The run completes, fails or is interrupted; only an interrupt does not wait
\* for the turn's tool calls.  FinishTurn follows asynchronously.
RunEnds(t) ==
  /\ active = t
  /\ \/ t \in Interruptible
     \/ /\ \A w \in Work : origin[w] = t => work[w] \notin {"started", "registering"}
        /\ \A e \in endCalls : e.turn # t
  /\ active' = NoTurn
  /\ phase' = [phase EXCEPT ![t] = "over"]
  /\ UNCHANGED <<state, counters, endTools, bindings, queueVars, results,
                 cancelledSubagents, taskVars, delivery, endCalls, events,
                 deliveredIn>>

QuietIgnoringInputs(s) == activeTurns[s] = 1 /\ pendingResults[s] = 0

QuietIgnoringResults(s) == activeTurns[s] = 1 /\ pendingInputs[s] = 0

QuietUnlessContinued(s) ==
  /\ activeTurns[s] = 1 /\ pendingResults[s] = 0 /\ pendingInputs[s] = 0
  /\ \A t \in resultTurns : turns[t] # s

\* Nothing but one turn keeps the scope open.
Quiet(s) ==
  /\ activeTurns[s] = 1
  /\ pendingResults[s] = 0
  /\ pendingInputs[s] = 0

AlwaysFirstToEnd(s) == TRUE

\* Whoever finds the scope still open runs beginEnding, and nobody else.
FirstToEnd(s) == state[s] = "open"

\* FinishTurn, first critical section: the scope starts ending, or was already
\* ending, or stays.
FinishTurn(t) ==
  LET s == turns[t]
  IN  /\ phase[t] = "over"
      /\ IF s = NoTurn \/ activeTurns[s] = 0
         THEN /\ phase' = [phase EXCEPT ![t] = "finished"]
              /\ UNCHANGED <<state, activeTurns>>
         ELSE /\ activeTurns' = [activeTurns EXCEPT ![s] = @ - 1]
              /\ state' = [state EXCEPT ![s] = IF Quiet(s) THEN "ending" ELSE @]
              /\ phase' = [phase EXCEPT ![t] =
                             IF ~Quiet(s) THEN "finished"
                             ELSE IF FirstToEnd(s) THEN "preEnding"
                             ELSE "removing"]
      /\ UNCHANGED <<pendingResults, pendingInputs, endTools, bindings,
                     queueVars, results, cancelledSubagents, active, taskVars,
                     delivery, endCalls, events, deliveredIn>>

\* beginEnding, called unlocked by FinishTurn.  No cleanup hook is installed
\* by the program, so only the event remains.
FinishTurnPreEnd(t) ==
  /\ phase[t] = "preEnding"
  /\ events' = [events EXCEPT ![turns[t]] = Append(@, "PreEndScope")]
  /\ phase' = [phase EXCEPT ![t] = "removing"]
  /\ UNCHANGED <<state, counters, endTools, bindings, queueVars, results,
                 cancelledSubagents, active, taskVars, delivery, endCalls,
                 deliveredIn>>

\* FinishTurn, second critical section, with deleteScopeLocked: the scope, its
\* turn bindings and its queued assignments go; the tombstones stay.  The
\* EndScope event, published right after the unlock, is part of the step.
FinishTurnRemoveScope(t) ==
  LET s == turns[t]
      bound == {u \in Turn : turns[u] = s}
  IN  /\ phase[t] = "removing"
      /\ state' = [state EXCEPT ![s] = "none"]
      /\ activeTurns' = [activeTurns EXCEPT ![s] = 0]
      /\ pendingResults' = [pendingResults EXCEPT ![s] = 0]
      /\ pendingInputs' = [pendingInputs EXCEPT ![s] = 0]
      /\ turns' = [u \in Turn |-> IF u \in bound THEN NoTurn ELSE turns[u]]
      /\ resultTurns' = resultTurns \ bound
      /\ assignments' = {w \in assignments : assignmentScope[w] # s}
      /\ events' = [events EXCEPT ![s] = Append(@, "EndScope")]
      /\ phase' = [phase EXCEPT ![t] = "finished"]
      /\ UNCHANGED <<endTools, sequence, nextAssignment, assignmentScope,
                     results, cancelledSubagents, active, taskVars, delivery,
                     endCalls, deliveredIn>>
-----------------------------------------------------------------------------
(***************************************************************************)
(* Subagent work and its assignments                                       *)
(***************************************************************************)

\* A turn whose tool handlers can be running.  A handler of an interrupted
\* turn may outlive the turn's run.
MayCall(t) ==
  \/ phase[t] = "running"
  \/ t \in Interruptible /\ phase[t] \notin {"idle", "starting"}

\* A subagent turn starts or a retained task is resumed: the subagent is not
\* closed and has no turn of its own in progress.
StartWork(w, t) ==
  /\ work[w] = "new"
  /\ MayCall(t)
  /\ SubagentOf[w] \notin closed
  /\ \A v \in Work : SubagentOf[v] = SubagentOf[w] =>
                       work[v] \notin {"started", "registering", "running"}
  /\ work' = [work EXCEPT ![w] = "started"]
  /\ origin' = [origin EXCEPT ![w] = t]
  /\ UNCHANGED <<state, counters, endTools, bindings, queueVars, results,
                 cancelledSubagents, runVars, deliveries, closed, delivery,
                 endCalls, events, deliveredIn>>

\* A registration takes effect only in an open scope, for a subagent that is
\* not cancelled; otherwise the call returns an empty rollback.
Registers(w) ==
  /\ SubagentOf[w] \notin cancelledSubagents
  /\ turns[origin[w]] # NoTurn
  /\ state[turns[origin[w]]] = "open"

RegisterAssignmentMetadata(w) ==
  LET s == turns[origin[w]]
  IN  /\ work[w] = "started"
      /\ work' = [work EXCEPT ![w] = "registering"]
      /\ IF Registers(w)
         THEN /\ nextAssignment' = nextAssignment + 1
              /\ sequence' = [sequence EXCEPT ![w] = nextAssignment + 1]
              /\ assignments' = assignments \cup {w}
              /\ assignmentScope' = [assignmentScope EXCEPT ![w] = s]
              /\ pendingResults' = [pendingResults EXCEPT ![s] = @ + 1]
         ELSE UNCHANGED <<queueVars, pendingResults>>
      /\ UNCHANGED <<state, activeTurns, pendingInputs, endTools, bindings,
                     results, cancelledSubagents, runVars, origin, deliveries,
                     closed, delivery, endCalls, events, deliveredIn>>

\* The framework accepts the work: setTaskDelivery stores the delivery (the
\* turn of a direct subagent starts), and the main model is told "running".
KeepRegistration(w) ==
  /\ work[w] = "registering"
  /\ SubagentOf[w] \notin closed
  /\ work' = [work EXCEPT ![w] = "running"]
  /\ UNCHANGED <<state, counters, endTools, bindings, queueVars, results,
                 cancelledSubagents, runVars, origin, deliveries, closed,
                 delivery, endCalls, events, deliveredIn>>

\* The function RegisterAssignmentMetadata returns: it removes the assignment
\* if it is still queued.
WithdrawAssignment(w) ==
  LET s == assignmentScope[w]
  IN  IF w \in assignments
      THEN /\ assignments' = assignments \ {w}
           /\ pendingResults' = [pendingResults EXCEPT ![s] =
                 IF state[s] # "none" /\ @ > 0 THEN @ - 1 ELSE @]
      ELSE UNCHANGED <<assignments, pendingResults>>

\* The work is not accepted: the record is closed, or the store fails.
RollbackRegistration(w) ==
  /\ work[w] = "registering"
  /\ SubagentOf[w] \in closed \/ "store" \in Failures
  /\ work' = [work EXCEPT ![w] = "rejected"]
  /\ WithdrawAssignment(w)
  /\ UNCHANGED <<state, activeTurns, pendingInputs, endTools, bindings,
                 sequence, nextAssignment, assignmentScope, results,
                 cancelledSubagents, runVars, origin, deliveries, closed,
                 delivery, endCalls, events, deliveredIn>>

\* The subagent turn ends.  monitor hands a task's result to the delivery
\* goroutine (and blocks while the channel is full); the result of a direct
\* subagent is read by the application, and a closed record is left alone.
WorkEnds(w) ==
  /\ work[w] = "running"
  /\ IF w \in Direct \/ SubagentOf[w] \in closed
     THEN /\ work' = [work EXCEPT ![w] = "dropped"]
          /\ UNCHANGED deliveries
     ELSE /\ Len(deliveries) < DeliveryCap
          /\ work' = [work EXCEPT ![w] = "published"]
          /\ deliveries' = Append(deliveries, w)
  /\ UNCHANGED <<state, counters, endTools, bindings, queueVars, results,
                 cancelledSubagents, runVars, origin, closed, delivery,
                 endCalls, events, deliveredIn>>

\* CloseSubagent makes the record closed first ...
CloseRecord(a) ==
  /\ a \in Closable \ closed
  /\ closed' = closed \cup {a}
  /\ UNCHANGED <<state, counters, endTools, bindings, queueVars, results,
                 cancelledSubagents, runVars, work, origin, deliveries,
                 delivery, endCalls, events, deliveredIn>>

\* ... and then drops every obligation that is not reserved for delivery.
CancelSubagentAssignments(a) ==
  /\ a \in closed \ cancelledSubagents
  /\ cancelledSubagents' = cancelledSubagents \cup {a}
  /\ assignments' = assignments \ Queue(a)
  /\ pendingResults' = [s \in MainTurn |->
        LET n == Cardinality({w \in Queue(a) : assignmentScope[w] = s})
        IN  IF pendingResults[s] > n THEN pendingResults[s] - n ELSE 0]
  /\ UNCHANGED <<state, activeTurns, pendingInputs, endTools, bindings,
                 sequence, nextAssignment, assignmentScope, results, runVars,
                 taskVars, delivery, endCalls, events, deliveredIn>>
-----------------------------------------------------------------------------
(***************************************************************************)
(* Delivery of task results: deliverTaskResult, one goroutine              *)
(***************************************************************************)

TakeDelivery ==
  /\ delivery.step = "idle"
  /\ deliveries # <<>>
  /\ delivery' = At("check", Head(deliveries))
  /\ deliveries' = Tail(deliveries)
  /\ UNCHANGED <<state, counters, endTools, bindings, queueVars, results,
                 cancelledSubagents, runVars, work, origin, closed, endCalls,
                 events, deliveredIn>>

\* Is the turn that started the task still the active one?  The answer may be
\* stale when it is used.
CheckActiveTurn ==
  /\ delivery.step = "check"
  /\ delivery' = At(IF active = origin[delivery.task] THEN "inlineReserve"
                    ELSE "reserve", delivery.task)
  /\ UNCHANGED <<state, counters, endTools, bindings, queueVars, results,
                 cancelledSubagents, runVars, taskVars, endCalls, events,
                 deliveredIn>>

\* ReserveInlineResultWithMetadata.  It pops the first assignment of the
\* subagent, whichever result is being delivered; on any error the goroutine
\* goes on to reserve a continuation.
ReserveInlineResult ==
  LET w == delivery.task
      s == turns[origin[w]]
      CanReserve(v) == /\ s # NoTurn
                       /\ results[w] = NoTurn
                       /\ IsHead(v, SubagentOf[w])
                       /\ assignmentScope[v] = s
                       /\ state[s] = "open"
                       /\ pendingResults[s] > 0
  IN  /\ delivery.step = "inlineReserve"
      /\ \/ \E v \in assignments :
              /\ CanReserve(v)
              /\ assignments' = assignments \ {v}
              /\ pendingResults' = [pendingResults EXCEPT ![s] = @ - 1]
              /\ pendingInputs' = [pendingInputs EXCEPT ![s] = @ + 1]
              /\ results' = [results EXCEPT ![w] = s]
              /\ delivery' = Delivery("inline", w, v, NoTurn, s)
         \/ /\ ~\E v \in assignments : CanReserve(v)
            /\ delivery' = At("reserve", w)
            /\ UNCHANGED <<assignments, pendingResults, pendingInputs, results>>
      /\ UNCHANGED <<state, activeTurns, endTools, bindings, sequence,
                     nextAssignment, assignmentScope, cancelledSubagents,
                     runVars, taskVars, endCalls, events, deliveredIn>>

\* The run appends the injected message at a provider boundary and calls
\* Commit before it can finish.
InjectAccepted ==
  LET w == delivery.task
      s == delivery.scope
  IN  /\ delivery.step = "inline"
      /\ active = origin[w]
      /\ pendingInputs' = [pendingInputs EXCEPT ![s] = IF @ > 0 THEN @ - 1 ELSE @]
      /\ deliveredIn' = [deliveredIn EXCEPT ![w] = origin[w]]
      /\ work' = [work EXCEPT ![w] = "delivered"]
      /\ delivery' = IdleDelivery
      /\ UNCHANGED <<state, activeTurns, pendingResults, endTools, bindings,
                     queueVars, results, cancelledSubagents, runVars, origin,
                     deliveries, closed, endCalls, events>>

RestoreUncounted(s) ==
  /\ assignments' = assignments \cup
       (IF SubagentOf[delivery.task] \in cancelledSubagents THEN {} ELSE {delivery.taken})
  /\ results' = [results EXCEPT ![delivery.task] = NoTurn]
  /\ UNCHANGED pendingResults

\* What Rollback does with the popped assignment: back to the front of the
\* queue unless the subagent was cancelled meanwhile, and no tombstone.
RestoreAssignment(s) ==
  LET v == delivery.taken
      w == delivery.task
  IN  IF v = NoWork
      THEN UNCHANGED <<assignments, pendingResults, results>>
      ELSE /\ IF SubagentOf[w] \in cancelledSubagents
              THEN UNCHANGED <<assignments, pendingResults>>
              ELSE /\ assignments' = assignments \cup {v}
                   /\ pendingResults' = [pendingResults EXCEPT ![s] =
                         IF state[s] # "none" THEN @ + 1 ELSE @]
           /\ results' = [results EXCEPT ![w] = NoTurn]

\* The run is over (ErrRunNotFound: try a continuation) or could not append
\* (the goroutine gives the result up).
InjectRejected(giveUp) ==
  LET w == delivery.task
      s == delivery.scope
  IN  /\ delivery.step = "inline"
      /\ IF giveUp THEN "append" \in Failures ELSE active # origin[w]
      /\ pendingInputs' = [pendingInputs EXCEPT ![s] = IF @ > 0 THEN @ - 1 ELSE @]
      /\ RestoreAssignment(s)
      /\ delivery' = IF giveUp THEN IdleDelivery
                     ELSE At("reserve", w)
      /\ work' = [work EXCEPT ![w] = IF giveUp THEN "dropped" ELSE @]
      /\ UNCHANGED <<state, activeTurns, endTools, bindings, sequence,
                     nextAssignment, assignmentScope, cancelledSubagents,
                     runVars, origin, deliveries, closed, endCalls, events,
                     deliveredIn>>

\* ReserveResultTurnWithMetadata, for a fresh continuation c.  A result seen
\* before only joins its scope; otherwise the first assignment is popped, and
\* stays popped when its scope turns out not to be open.
ReserveResultTurn(c) ==
  LET w == delivery.task
      a == SubagentOf[w]
      Bind(s) == /\ activeTurns' = [activeTurns EXCEPT ![s] = @ + 1]
                 /\ turns' = [turns EXCEPT ![c] = s]
                 /\ resultTurns' = resultTurns \cup {c}
                 /\ phase' = [phase EXCEPT ![c] = "starting"]
      Pop(v, s) ==
        /\ assignments' = assignments \ {v}
        /\ IF state[s] = "open" /\ pendingResults[s] > 0
           THEN /\ pendingResults' = [pendingResults EXCEPT ![s] = @ - 1]
                /\ results' = [results EXCEPT ![w] = s]
                /\ Bind(s)
                /\ delivery' = Delivery("start", w, v, c, s)
           ELSE /\ delivery' = At("check", w)
                /\ UNCHANGED <<activeTurns, pendingResults, bindings, results,
                               phase>>
      Rejoin(s) ==
        /\ IF state[s] # "none"
           THEN /\ Bind(s)
                /\ delivery' = Delivery("start", w, NoWork, c, s)
           ELSE /\ delivery' = At("check", w)
                /\ UNCHANGED <<activeTurns, bindings, phase>>
        /\ UNCHANGED <<assignments, pendingResults, results>>
      \* ErrResponseScopeAssignmentNotFound: the result is given up
      GiveUp == /\ delivery' = IdleDelivery
                /\ work' = [work EXCEPT ![w] = "dropped"]
                /\ UNCHANGED <<assignments, activeTurns, pendingResults,
                               bindings, results, phase>>
  IN  /\ delivery.step = "reserve"
      /\ phase[c] = "idle" /\ turns[c] = NoTurn
      /\ IF results[w] # NoTurn THEN Rejoin(results[w]) /\ UNCHANGED work
         ELSE IF Queue(a) = {} THEN GiveUp
         ELSE /\ \E v \in Queue(a) : IsHead(v, a) /\ Pop(v, assignmentScope[v])
              /\ UNCHANGED work
      /\ UNCHANGED <<state, pendingInputs, endTools, sequence, nextAssignment,
                     assignmentScope, cancelledSubagents, active, origin,
                     deliveries, closed, endCalls, events, deliveredIn>>

\* Runtime.Start admits the continuation; Commit.
ContinuationAccepted ==
  LET w == delivery.task
      c == delivery.turn
  IN  /\ delivery.step = "start"
      /\ active = NoTurn
      /\ active' = c
      /\ phase' = [phase EXCEPT ![c] = "running"]
      /\ deliveredIn' = [deliveredIn EXCEPT ![w] = c]
      /\ work' = [work EXCEPT ![w] = "delivered"]
      /\ delivery' = IdleDelivery
      /\ UNCHANGED <<state, counters, endTools, bindings, queueVars, results,
                     cancelledSubagents, origin, deliveries, closed, endCalls,
                     events>>

\* What Rollback does with the continuation turn.
UnbindContinuation(c, s) ==
  /\ turns' = [turns EXCEPT ![c] = NoTurn]
  /\ resultTurns' = resultTurns \ {c}
  /\ activeTurns' = [activeTurns EXCEPT ![s] = IF @ > 0 THEN @ - 1 ELSE @]

\* Runtime.Start refuses; Rollback.  Only ErrTurnInProgress is retried.
ContinuationRejected(giveUp) ==
  LET w == delivery.task
      c == delivery.turn
      s == delivery.scope
  IN  /\ delivery.step = "start"
      /\ IF giveUp THEN "start" \in Failures ELSE active # NoTurn
      /\ UnbindContinuation(c, s)
      /\ RestoreAssignment(s)
      /\ phase' = [phase EXCEPT ![c] = "idle"]
      /\ delivery' = IF giveUp THEN IdleDelivery
                     ELSE At("check", w)
      /\ work' = [work EXCEPT ![w] = IF giveUp THEN "dropped" ELSE @]
      /\ UNCHANGED <<state, pendingInputs, endTools, sequence, nextAssignment,
                     assignmentScope, cancelledSubagents, active, origin,
                     deliveries, closed, endCalls, events, deliveredIn>>
-----------------------------------------------------------------------------
(***************************************************************************)
(* EndResponseScope tools: ExecuteEndResponseScope, on a worker of turn t  *)
(***************************************************************************)

\* The handler may run: nothing but the caller keeps the scope open.  The
\* boundary is a provider step after the first or a completion repair; a
\* continuation turn is always past it.
ReadyToExecute(t, boundary) ==
  (boundary \/ t \in resultTurns) /\ Quiet(turns[t])

EndCall(t, k, s, step) == [turn |-> t, tool |-> k, scope |-> s, step |-> step]

\* First critical section, for a call that gets to run its handler; skipped,
\* completed and concurrent duplicate calls return without a state change.
BeginEndTool(t, k, boundary) ==
  LET s == turns[t]
  IN  /\ MayCall(t)
      /\ t \in LateCaller \/ phase[t] \in Counted
      /\ s # NoTurn
      /\ ReadyToExecute(t, boundary)
      /\ k \notin endScopeCompleted[s] \cup endScopeExecuting[s]
      /\ endScopeExecuting' = [endScopeExecuting EXCEPT ![s] = @ \cup {k}]
      /\ state' = [state EXCEPT ![s] = "ending"]
      /\ endCalls' = endCalls \cup
           {EndCall(t, k, s, IF FirstToEnd(s) THEN "preEnd" ELSE "handler")}
      /\ UNCHANGED <<counters, endScopeCompleted, bindings, queueVars, results,
                     cancelledSubagents, runVars, taskVars, delivery, events,
                     deliveredIn>>

\* beginEnding, unlocked.
EndToolPreEnd(e) ==
  /\ e.step = "preEnd"
  /\ events' = [events EXCEPT ![e.scope] = Append(@, "PreEndScope")]
  /\ endCalls' = (endCalls \ {e}) \cup {EndCall(e.turn, e.tool, e.scope, "handler")}
  /\ UNCHANGED <<state, counters, endTools, bindings, queueVars, results,
                 cancelledSubagents, runVars, taskVars, delivery, deliveredIn>>

\* The handler returns; second critical section, if the scope still exists.
EndToolReturns(e, succeeded) ==
  /\ e.step = "handler"
  /\ IF state[e.scope] = "none"
     THEN UNCHANGED endTools
     ELSE /\ endScopeExecuting' = [endScopeExecuting EXCEPT ![e.scope] = @ \ {e.tool}]
          /\ endScopeCompleted' = [endScopeCompleted EXCEPT ![e.scope] =
                                     IF succeeded THEN @ \cup {e.tool} ELSE @]
  /\ endCalls' = endCalls \ {e}
  /\ UNCHANGED <<state, counters, bindings, queueVars, results,
                 cancelledSubagents, runVars, taskVars, delivery, events,
                 deliveredIn>>
-----------------------------------------------------------------------------
FinishStep(t) ==
  FinishTurn(t) \/ FinishTurnPreEnd(t) \/ FinishTurnRemoveScope(t)

DeliveryStepTaken ==
  \/ TakeDelivery \/ CheckActiveTurn \/ ReserveInlineResult \/ InjectAccepted
  \/ \E giveUp \in BOOLEAN : InjectRejected(giveUp) \/ ContinuationRejected(giveUp)
  \/ \E c \in Continuation : ReserveResultTurn(c)
  \/ ContinuationAccepted

EndToolStep ==
  \E e \in endCalls : \/ EndToolPreEnd(e)
                      \/ \E ok \in BOOLEAN : EndToolReturns(e, ok)

Next ==
  \/ \E t \in MainTurn : \/ BeginMainAgentTurn(t) \/ AcceptMainAgentTurn(t)
                         \/ RollbackMainAgentTurn(t)
  \/ \E t \in Turn : RunEnds(t) \/ FinishStep(t)
  \/ \E w \in Work : \/ \E t \in Turn : StartWork(w, t)
                     \/ RegisterAssignmentMetadata(w) \/ KeepRegistration(w)
                     \/ RollbackRegistration(w) \/ WorkEnds(w)
  \/ \E a \in Subagent : CloseRecord(a) \/ CancelSubagentAssignments(a)
  \/ DeliveryStepTaken
  \/ \E t \in Turn, k \in EndTool, b \in BOOLEAN : BeginEndTool(t, k, b)
  \/ EndToolStep

Spec == Init /\ [][Next]_vars

\* Goroutines that are not blocked run; provider runs, subagent turns and tool
\* handlers (all external) return, and a model that is asked to repeat a failed
\* end tool does not do so for ever.  Nothing is assumed of users: turns, tasks
\* and closes need not happen.
Fairness ==
  /\ \A t \in Turn : SF_vars(RunEnds(t)) /\ WF_vars(FinishStep(t))
  /\ \A t \in MainTurn : WF_vars(AcceptMainAgentTurn(t) \/ RollbackMainAgentTurn(t))
  /\ \A w \in Work : WF_vars(\/ RegisterAssignmentMetadata(w)
                             \/ KeepRegistration(w) \/ RollbackRegistration(w)
                             \/ WorkEnds(w))
  /\ \A a \in Subagent : WF_vars(CancelSubagentAssignments(a))
  /\ WF_vars(DeliveryStepTaken)
  /\ WF_vars(EndToolStep)

FairSpec == Spec /\ Fairness
-----------------------------------------------------------------------------
(***************************************************************************)
(* Properties                                                              *)
(***************************************************************************)

\* Type invariant of the coordinator's maps and of its callers' program
\* counters.
TypeOK ==
  /\ state \in [MainTurn -> {"none", "open", "ending"}]
  /\ activeTurns \in [MainTurn -> Nat]
  /\ pendingResults \in [MainTurn -> Nat]
  /\ pendingInputs \in [MainTurn -> Nat]
  /\ endScopeExecuting \in [MainTurn -> SUBSET EndTool]
  /\ endScopeCompleted \in [MainTurn -> SUBSET EndTool]
  /\ turns \in [Turn -> MainTurn \cup {NoTurn}]
  /\ resultTurns \in SUBSET Turn
  /\ assignments \in SUBSET Work
  /\ sequence \in [Work -> Nat]
  /\ nextAssignment \in Nat
  /\ assignmentScope \in [Work -> MainTurn \cup {NoTurn}]
  /\ results \in [Work -> MainTurn \cup {NoTurn}]
  /\ cancelledSubagents \in SUBSET Subagent
  /\ phase \in [Turn -> TurnPhase]
  /\ active \in Turn \cup {NoTurn}
  /\ work \in [Work -> WorkPhase]
  /\ origin \in [Work -> Turn \cup {NoTurn}]
  /\ deliveries \in Seq(Work)
  /\ delivery \in [step : DeliveryStep, task : Work \cup {NoWork},
                   taken : Work \cup {NoWork}, turn : Continuation \cup {NoTurn},
                   scope : MainTurn \cup {NoTurn}]
  /\ closed \in SUBSET Subagent
  /\ endCalls \in SUBSET [turn : Turn, tool : EndTool, scope : MainTurn,
                         step : {"preEnd", "handler"}]
  /\ events \in [MainTurn -> Seq({"PreEndScope", "EndScope"})]
  /\ deliveredIn \in [Work -> Turn \cup {NoTurn}]

\* The turns of scope s that FinishTurn has not yet discounted, and the
\* assignments queued for it.
CountedTurns(s) == {t \in Turn : turns[t] = s /\ phase[t] \in Counted}
QueuedFor(s) == {w \in assignments : assignmentScope[w] = s}
OpenReservation(s) == delivery.step \in {"inline", "start"} /\ delivery.scope = s

\* The counter that decides when a scope ends counts exactly the turns that
\* are admitted, or being admitted, and not yet finished, through every
\* rollback, failed continuation and concurrent FinishTurn.
ActiveTurnsExact ==
  \A s \in MainTurn : activeTurns[s] = Cardinality(CountedTurns(s))

\* pending_count and pending_results of ResultProgress agree: the barrier
\* counts exactly the queued assignments of the scope, so it neither ends a
\* scope that is owed a result nor keeps one that is owed none.
PendingResultsExact ==
  \A s \in MainTurn : pendingResults[s] = Cardinality(QueuedFor(s))

\* A queued assignment belongs to a scope that can still receive its result.
\* Otherwise ReserveResultTurn would pop it, fail with "response scope is not
\* open" and never put it back.
QueuedScopeOpen ==
  \A w \in assignments : state[assignmentScope[w]] = "open"

\* A scope that is ending has no result pending, waiting in a run's input
\* queue or reserved for delivery, and gets none: finalization never reopens
\* application work (comment of ReadyToEnd).
EndingQuiescent ==
  \A s \in MainTurn : state[s] = "ending" =>
     /\ pendingResults[s] = 0 /\ pendingInputs[s] = 0
     /\ ~OpenReservation(s)

\* After CancelSubagentAssignments no obligation of the subagent is queued
\* again, by a registration that started before the close or by the rollback
\* of a reservation made before it.
CancelledNeverQueued ==
  \A w \in assignments : SubagentOf[w] \notin cancelledSubagents

\* When a scope starts ending, every result it accepted responsibility for
\* has been delivered, unless its work was rejected or its subagent closed.
EndedScopeOwesNothing ==
  \A w \in Work :
     /\ assignmentScope[w] # NoTurn
     /\ state[assignmentScope[w]] # "open"
     => \/ work[w] \in {"delivered", "rejected"}
        \/ SubagentOf[w] \in closed

\* The parts of the inductive invariant that the accounting rests on.

\* A turn is bound to a scope as long as that scope exists and FinishTurn may
\* still need it; only the active run is running.
BindingsInv ==
  /\ active # NoTurn => phase[active] = "running"
  /\ \A t \in Turn :
       /\ turns[t] # NoTurn => state[turns[t]] # "none"
       /\ phase[t] \in Counted \cup {"preEnding", "removing"} => turns[t] # NoTurn
       /\ phase[t] = "starting" /\ t \in MainTurn => turns[t] = t
       /\ phase[t] = "idle" => turns[t] = NoTurn

\* Until its main turn runs, a scope has no other turn and no assignment.
FreshScopeInv ==
  \A s \in MainTurn : phase[s] \in {"idle", "starting"} =>
     /\ \A t \in Turn : turns[t] = s => t = s
     /\ \A w \in Work : assignmentScope[w] # s

\* One FinishTurn at most is taking a scope down, and no turn is left in it.
RemovalInv ==
  \A t \in Turn : phase[t] \in {"preEnding", "removing"} =>
     /\ state[turns[t]] = "ending"
     /\ \A u \in Turn : turns[u] = turns[t] /\ u # t =>
          phase[u] \notin Counted \cup {"preEnding", "removing"}

\* Works are registered once, by a turn that has run.
WorkInv ==
  \A w \in Work :
     /\ work[w] \in {"new", "started"} =>
          w \notin assignments /\ assignmentScope[w] = NoTurn
     /\ w \in assignments => assignmentScope[w] # NoTurn
     /\ work[w] # "new" => origin[w] # NoTurn
     /\ origin[w] # NoTurn => phase[origin[w]] \notin {"idle", "starting"}

\* A result is queued once, taken once, and leaves a tombstone only while it
\* is being delivered or after.
DeliveryInv ==
  /\ \A i \in DOMAIN deliveries : work[deliveries[i]] = "published"
  /\ \A i, j \in DOMAIN deliveries : deliveries[i] = deliveries[j] => i = j
  /\ delivery.step # "idle" =>
       /\ delivery.task \in Work
       /\ work[delivery.task] = "published"
       /\ \A i \in DOMAIN deliveries : deliveries[i] # delivery.task
  /\ \A w \in Work : results[w] # NoTurn =>
       \/ work[w] = "delivered"
       \/ delivery.step \in {"inline", "start"} /\ delivery.task = w

\* The open reservation holds an assignment that is no longer queued, in a
\* scope that stays open until it is committed or rolled back.
ReservationInv ==
  delivery.step \in {"inline", "start"} =>
     /\ delivery.scope \in MainTurn
     /\ state[delivery.scope] = "open"
     /\ delivery.taken \in Work \ assignments
     /\ assignmentScope[delivery.taken] = delivery.scope
     /\ SubagentOf[delivery.taken] = SubagentOf[delivery.task]
     /\ delivery.step = "start" =>
          /\ delivery.turn \in Continuation
          /\ phase[delivery.turn] = "starting"
          /\ turns[delivery.turn] = delivery.scope

PendingInputsExact ==
  \A s \in MainTurn : pendingInputs[s] =
     IF delivery.step = "inline" /\ delivery.scope = s THEN 1 ELSE 0

\* The inductive invariant of the coordinator and its callers.
AccountingInv ==
  /\ TypeOK
  /\ BindingsInv /\ FreshScopeInv /\ RemovalInv
  /\ WorkInv /\ DeliveryInv /\ ReservationInv
  /\ ActiveTurnsExact /\ PendingResultsExact /\ PendingInputsExact
  /\ QueuedScopeOpen /\ CancelledNeverQueued

\* "reserve and settle the matching assignment" (docs/agents/architecture/
\* runtime-flow.md): a result is delivered in the scope that accepted its own
\* work, never in another scope that waits for the same subagent.
SettlesOwnAssignment ==
  [][\A w \in Work : deliveredIn'[w] # deliveredIn[w] =>
        /\ delivery.taken = w
        /\ turns[deliveredIn'[w]] = assignmentScope[w]]_deliveredIn

\* PreEndScope and EndScope are each published at most once per scope, though
\* a worker and FinishTurn may both find the scope open.
EventsOnce ==
  \A s \in MainTurn : \A i, j \in DOMAIN events[s] :
     events[s][i] = events[s][j] => i = j

\* Every scope whose turn was admitted ends and says so: no interleaving of
\* finishing turns, results, failed registrations and rollbacks leaves a
\* quiescent scope open, as long as no subagent it waits for is closed (a
\* close drops the obligation and leaves the scope to the next turn's end).
ScopeEnds ==
  \A t \in MainTurn :
     phase[t] = "running" ~>
        \/ \E i \in DOMAIN events[t] : events[t][i] = "EndScope"
        \/ \E w \in Work : assignmentScope[w] = t /\ SubagentOf[w] \in closed

=============================================================================
