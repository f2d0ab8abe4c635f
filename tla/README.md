# agentcli: TLA+ models, checks and proofs

agentcli is a Go library and program that runs language-model agents: a main
agent answers a human turn by turn, calls tools, delegates tasks to subagents
and takes their results back, over a terminal or an HTTP server. This directory
models the parts of it whose correctness depends on the order in which
goroutines, callbacks and failures happen, checks them with TLC on small
instances, and proves the central invariants with TLAPS for every instance.

Line numbers below and in `PROJECT.json` refer to the repository under `src/`.

## The system

| Component | State | Operations | Interacts with |
|---|---|---|---|
| Response scopes (`toolexecution/response_scope.go`) | per human turn: active turns, pending results, pending inputs, running and completed end tools; queues of assignments per subagent; tombstones of results; cancelled subagents | begin, finish and roll back a turn; register and withdraw an assignment; reserve a result inline or as a continuation, commit, roll back; cancel a subagent; run end tools; publish PreEndScope and EndScope | Agent, subagent manager, executor workers |
| Task result delivery (`agent.go`) | a channel of 64 results and one goroutine | accept a result; deliver it into the active turn or start a continuation; give up | response scopes, runtime |
| Subagent tasks (`subagent_manager.go`, `storage/subagent.go`) | durable record with optimistic version, mailbox, active delivery; live instance and runs; executions, claimed turns | ExecuteTask in the foreground, promoted or in the background; Start, Send, Read, Wait, CloseSubagent; one monitor per turn | response scopes, delivery, child runtimes, storage |
| Shutdown (`lifecycle.go`) | operation lock, contexts, `m.closed` | retain the records, release the instances, signal, cancel, wait | subagent tasks, executor |
| Run coordinator (`agentruntime/run.go`, `transition.go`, `state.go`, `result.go`) | event-sourced run state; provider stream; result queue; control mailbox; injected inputs; pending assistant message | one loop: commit an event, derive effects, interpret them | provider, executor, message storage, guards |
| Runtime (`agentruntime/runtime.go`, `router.go`, `permission.go`, `confirmation.go`) | one active run per session; pending approvals; results held for an approval | start, route results, resolve, expire and cancel approvals, close | runs, executor, decision stores |
| Tool executor (`toolexecution/executor.go`, `worker.go`, `policy_context.go`) | request queue, deferred approvals, active calls, grants, policy epoch | admit, defer, execute, interrupt, expire | runtime, response scopes, permission rules |
| Permission and confirmation rules (`permission/`, `confirmation/`) | none | evaluate a request against rules and mode | executor |
| HTTP server (`server_turn_queue.go`, `server_session_stream.go`) | bounded queue of accepted turns per session; retained events with cursors, subscribers | accept, start, advance and cancel a turn; subscribe and replay | Agent |
| Terminal (`terminal.go`, `terminal_input.go`, `runtime_log.go`) | approval queue, views, prompt queue, screen, log window | read input, follow feeds and runs, draw | Agent |
| Compaction (`agentruntime/compactor.go`, `context_estimator.go`) | checkpoints in the transcript | estimate, select a tail, summarize, store a checkpoint, project | run coordinator, message storage |
| Guards (`agentruntime/guardrail.go`, `completion.go`, `required_tool_guard.go`) | repair counters | decide, retry | run coordinator, provider |
| Provider streams (`provider/`) | event history of one call, subscriptions | publish, complete, fail, subscribe | guards, run coordinator |
| Storage (`storage/inmemory`) | records with versions, messages, decisions | compare-and-swap updates, enqueue, dequeue, observe, close | manager, runtime |
| Adapters, loading, logging, HTTP handlers | input and output | | |

What is hard in this code, and what the properties are about:

- counters and queues that several goroutines change in critical sections with
  unlocked code between them (`FinishTurn`, end tools, reservations, the
  server's turn queue, the terminal's approval queue);
- results that arrive early, late, twice or for a task that was closed;
- two goroutines that both may publish one result (a monitor and a
  registration) and must do so exactly once;
- waiting on a notification that can be missed (a channel replaced at every
  signal, a channel of one place);
- one step of several failing: a turn that does not start, a store update that
  runs out of retries, a continuation that is refused, a prompt that cannot be
  shown;
- a decision made under one policy and used under another: permission modes
  that change under queued calls, approvals that expire while they are answered;
- timers that race what they wait for, and shutdown against everything;
- integer budgets at their edges: token estimates, tails, summaries.

The full list, with the line where each one bites and the property that would
catch it, is under `hazards` in `PROJECT.json`.

## The modules

| Module | Models |
|---|---|
| `ResponseScope` | the scope coordinator together with its callers: Agent.Start and watchAcceptedRun, the task tool's registration, the delivery goroutine, end tools, CloseSubagent |
| `ResponseScopeProofs` | type correctness, the accounting invariant, the publication of each event once and that results settle their own assignments, proved of `ResponseScope` |
| `TaskDelivery` | the life of one retained task: calls, monitors, mailbox, registration, publication, close, and the shutdown of the agent |
| `TaskDeliveryProofs` | its type invariant and its four safety invariants, proved |
| `AgentRun` | the turns of a session: admission, the run loop, its effects, tool results, interrupts, injected messages, and the end of a run |
| `AgentRunProofs` | types, its four safety invariants and that a finished turn stores nothing more, proved |
| `Permission` | the pure rules: Evaluate, matching of rules, coverage of grants |
| `ToolAdmission` | from a dispatched call to its result: the executor, its workers, prompts and decisions, the runtime's routing of them. Extends `Permission` |
| `ToolAdmissionProofs` | types, the place and the authority of a call: handlers run with leave only, no denied call starts; the way of prompts and results: a decision reaches a run before the result; proved |
| `EventLog` | what a stream of retained events promises (abstract) |
| `EventHub` | the session's event hub with its subscribers and clients; implements `EventLog` |
| `SessionServer` | the server's turn queue, watchers and forwarders, which publish through the hub. Extends `EventHub` |
| `SessionServerProofs` | that the hub implements the log, under any publisher and under the server; types, and that a run's events are published in order, proved |
| `TerminalClient` | the terminal's goroutines, approval queue, views, prompt queue and log view |
| `TerminalClientProofs` | types and its four safety invariants, proved of `TerminalClient` |
| `Compaction` | transcript, checkpoints, compaction, the projected request and its adapter |
| `CompactionProofs` | the session's invariant and the four properties of its requests, proved |
| `ModelCall` | one streamed model call, its subscriptions, and the prompt guard that reads it |
| `ModelCallProofs` | exact histories, results that are what was sent, and the guard that fails closed, proved |
| `MC...` | instances of the module of that name for TLC |

Where modules meet: what `TaskDelivery` appends to `accepted` is what
`ResponseScope` takes from `deliveries`, and its set `assigned` stands for
`ResponseScope`'s queue. `ToolAdmission` sees of a run when it is active, what
it dispatches and what is queued for it, which is `AgentRun`'s part; `AgentRun`
sees of the tools that they report in any order. `Compaction` is the content of
`AgentRun`'s transcript and `ModelCall` of its provider stream.

`ResponseScope`, `TaskDelivery`, `AgentRun`, `ToolAdmission`, `SessionServer` and
`TerminalClient` state a `TypeOK`, and it is proved for all of them. Only
`AccountingInv` lists it among the properties of a run.
The types of `EventHub` are `HubType`, a part of the hub's invariant in
`SessionServerProofs`, and those of `ModelCall` are `Types` in `ModelCallProofs`.

### ResponseScope

A scope is named by its main turn. `state`, `activeTurns`, `pendingResults`,
`pendingInputs`, `turns`, `resultTurns`, `results`, `cancelledSubagents`,
`endScopeExecuting` and `endScopeCompleted` are the coordinator's fields. The
queues of assignments (`map[subagent][]responseAssignment`, kept sorted by
sequence number) are the set `assignments` with the function `sequence`;
`IsHead` is the element that the code would find first. Every
lock-to-unlock section is one action. Code that runs unlocked between two
sections is two actions: `FinishTurn` decides, then publishes PreEndScope
(`FinishTurnPreEnd`), then removes the scope and publishes EndScope
(`FinishTurnRemoveScope`); an end tool begins (`BeginEndTool`), publishes
PreEndScope (`EndToolPreEnd`), runs its handler and records the outcome
(`EndToolReturns`).

The callers are part of the module because the counters are right only if the
callers keep their protocol. `phase` is where a turn stands in Agent.Start and
watchAcceptedRun, `work` where a task stands, `deliveries` and `delivery` are
the channel and the single delivery goroutine with the assignment its
reservation took. A run that ends takes its tool calls with it, except when it
is interrupted (`Interruptible`): then calls already in a worker go on, and
those of `LateCaller` may even begin after FinishTurn.

Sessions do not share any state of the coordinator, so the model has one. Left
out: the lists the events carry, the event subscribers, and
`ReserveFailedRecovery` and `SetCleanup`, which the program never calls. The
tool-call budget (`ReserveToolCall`) is in `ToolAdmission`.

### TaskDelivery

One task with its record (`status`, `currentTurn`, `lastTurn`,
`activeDelivery`, `pending`), its instance (`agentLive`, `instanceRun`,
`instanceMu`, `run`, `monitor`) and the manager's bookkeeping
(`taskExecutions`, `taskDeliverySeen`, `taskRegistrationMu`). The turn of a
call is named after the call and the turn of a message after the message;
`pc[c]` is where ExecuteTask stands. `instanceMu` is only a variable for the
sections that other goroutines can observe half-way: publication, dequeue and
the start of a turn after the record has turned running. `pub` holds the
steps of publishTaskTerminal for its two possible holders, the registration
under `taskRegistrationMu` and the monitor under `instance.mu`.

`m.changed` is a channel that signalChanged closes and replaces. A waiter that
has loaded the channel is in `waiters`; signalChanged empties the set. Reading
the condition and loading the channel are two steps, as in the code.

An optimistic update with its retries takes effect at its last, successful
compare-and-swap and is one step; running out of retries is the failure
`"store"`. A turn that does not start is the failure `"start"`. Whether these
happen in a behaviour is chosen in Init (`faults`), so that properties about
the faultless case need no run of their own. The
application's Start (as opposed to the task tool) differs only in registering
its assignment before the start and is covered by `Direct` in `ResponseScope`.

`shutdown` is how far Agent.Close is: `m.closed` is set (`ShutdownBegin`), the
record is retained (`RetainForShutdown`), the instance released
(`ReleaseAgent`), `m.changed` signalled, the contexts cancelled (stopping the
task coordinator and cancelling the agent are one step, nothing can happen in
between that does not happen before or after), and the calls waited for. The
bound `ShutdownSends` limits the messages of behaviours that shut down.

Left out: Read, Wait and Observe, which only read; approvals relayed from
children; the delivery of results after they are handed over, which is
`ResponseScope`'s; `operationMu`.

### AgentRun

The runs of one session, one per turn ID. `active` is the session's entry in
Runtime's map of active runs, `messages` its stored transcript; the functions of
Turn are a Run's fields. `terminal` and `effectsDone` are the two halves of
Run.Done, `finished` is the channel that Wait and the next Start wait on.

AgentState is an event history from which transition.go derives effects. The
model keeps what the derivation looks at, the latest tool round (`round`: the
calls in the order they were requested and the results accepted so far) and
the terminal event. Committing an event sets `todo` to its effects, and one
step interprets the first of them (`Interpret...`), so that whatever happens
outside the loop may happen between any two effects. `loop` says where the
goroutine is: in the effects of an ordinary event, in those of a terminal one
(`"closing"`), at the select, or in one of finish's four steps. An effect
that itself does several things under different locks, or calls a provider or
a guard in between, pushes its remaining part onto `todo` (`InnerOps`):
StartProvider appends the injected inputs and then asks the model;
AttemptComplete inspects the candidate, appends it and publishes RunCompleted.
Since Done is read before an effect and not during it, `CheckDone` may stop an
effect but the effects themselves do not require the run to be live.

A turn in `Guarded` is one that the input guard answers itself
(runInputGuardResponseLoop), with no provider. Provider rounds count `steps`;
at `MaxSteps` the run either fails or finalizes with `FinalTools` for
`FinalRounds` more. A stream ends with any list of distinct calls, with a
malformed call, or in an error; a call that was not offered is answered by one
recovery round. Model, storage, guards and tools are external: they succeed or
fail (`Faults`) as they please, tools report in any order and up to
`MaxRepeats` times once more.

Left out: the Status and Result views, which only read; suppressed stream
fragments; the content of a compaction checkpoint (`Compaction`); permissions
and confirmations (`ToolAdmission`).

### Permission and ToolAdmission

`Permission` holds the operators of package permission: a request is a sequence
of actions with a risk, `Evaluate` gives allow, ask or deny under a mode and a
list of rules, `hasGrant` says whether a remembered decision covers a request.

`ToolAdmission` has three kinds of actors. The loop of Executor.Run is one
action per case of its select: a request (`ReceiveRequest`: skills, budget,
policy, prompt or job), a decision of either kind, an interrupt, an expiry,
and, before each of them, `admitDeferredApproval`, which looks at the approvals
deferred behind another of the same session. Workers take jobs (`StartJob`),
check the policy epoch again (`Execute`), run handlers and send results. The
runtime's router moves results and prompts to the runs, holds a result whose
prompt is not resolved (`held`), and lets prompts expire; a caller of
ResolvePermission or ResolveConfirmation (`Resolver`) marks the prompt,
forwards the decision over a channel and commits, in three steps. A run
dispatches its `Rounds`, waits for the results of each, and may be interrupted.

Permissions and confirmations are two copies of the same code and one
parameter `kind` here. Prompt IDs are fresh, so a prompt is a kind and a call.
`due` is the clock: a prompt's time may be over at any moment after it was
stored. `ready` is ReadyToEnd of the response scope and changes freely.

### EventLog, EventHub and SessionServer

`EventHub` is sessionEventHub: `publish`, `subscribe` with a cursor, the
goroutine `deliver` with its one-place `notify` channel, `close`. A client
renders what it reads, may lose its connection with whatever is on its way, and
reconnects with the cursor it rendered last. `EventLog` is what that amounts
to: a log that grows, and readers that each see it from the start, one event at
a time. `StreamIsTheLog` is the abstract specification under the mapping
rendered = the events at the cursors seen.

`SessionServer` adds the session's turns. `pc[t]` is what the goroutine
responsible for turn t does next: the submitter, then startAcceptedTurn, then
watchAcceptedTurn, then advanceSession, which starts the next candidate of the
queue. Each lock section is one action and each publication after an unlock
another, so a queued turn may be announced after it was admitted. A Run is
what its one subscriber sees (`backfill`, `queue`, `fence`), and the runtime's
single active run per session is `active`; a continuation of the agent may take
it from a queued turn. Scope events, system events and subagent approvals reach
the stream through forwarders. Turns are numbered in the order they take the
server's lock.

### TerminalClient

The goroutines are the input loop, which also follows the main run, one per
approval feed, and one per opened subagent view. A goroutine's remaining work
is a list `todo` of steps, one per section under `stateMu` or `renderMu`; an
action begins such a list and `StepOf` executes its head, so that any other
goroutine may come between any two sections. The screen is what has been drawn
since it was last cleared: the last approval (`shown`) and the main run's
events (`drawn`). Records of the runtime log go through a bounded channel that
drops, and a snapshot closes the gap. Approvals are requested, answered and
settled by the agent (`truth`), which announces them in the run's events and,
for a subagent, in the feed as well.

### Compaction

The transcript is a sequence of messages, and a message's ID is its position.
A text is its number of ASCII bytes, its number of other bytes and the set of
messages whose content it carries; the estimator charges a token for three
ASCII bytes and one for each other byte, so cuts by bytes and budgets in tokens
disagree as they do in the code. `Prepare` is Compactor.prepare: the request is
projected behind the latest checkpoint, and when it does not fit a tail is
selected (at a conversation boundary, else inside the active turn, else
unbounded), the history before it is summarized, and a checkpoint is stored.
A provider that refuses a request for its length gets one forced compaction.
`StartAdapter` is the order and grouping of messages that the provider reads. A
session may be resumed with another model or with compaction switched.

### ModelCall

The provider sends chunks; consume turns each into events (`Parse`), publishes
them one by one, completes the stream, or fails it on an error, a cancelled
context or a malformed call. A fragment of a call has labels (ID, type, name),
any of which starts it, and a call without a name is malformed. A chunk has one
choice: no request asks for more. A subscription replays the history and goes on
with live events through a queue, a goroutine and a channel of `ChannelSize`.
The prompt guard subscribes, collects the text, and decides from the terminal
event, the stream's result and the verdict, in the code's order.

## The runs

| Run | Instance | Shows |
|---|---|---|
| `RS_accounting` | 2 human turns, 2 continuations, 2 tasks of one subagent (one direct), 1 end tool, close, interrupts, all failures | counters exact (`AccountingInv`), an ending scope owes nothing (`EndingQuiescent`), each event once (`EventsOnce`) |
| `RS_settle` | the same without end tools, direct works and interrupts, failing store updates; fair | a result is delivered in the scope of its own assignment, a scope starts ending only when all its results are in, every admitted scope ends unless a subagent it waits for is closed |
| `TD_task` | a promotable and a background call, 2 messages, cancellation, close, shutdown (with at most 1 message), behaviours with and without failed starts and updates; fair | one owner per result, the event before the return, mailbox order, every queued message gets its turn, a stored delivery arrives, a shutdown completes and leaves a resumable record |
| `AR_round` | 1 turn, 2 tools (one ends the turn), 1 injected message, 1 repeated result, step limit 1, every failure, and one cancellation of any kind (interrupt, turn's context, runtime's, results channel) | calls and results are paired in every request and in a completed turn, a completed turn has read its injected messages |
| `AR_turns` | 2 turns, the second answered by the input guard, 1 tool, 1 injected message, step limit 2, failing storage, one interrupt or cancelled context; fair | turns do not mix in the transcript, an injector is told what became of its message and is always told, a Done turn stores nothing more, every turn finishes |
| `TE_admission` | 2 sessions, 5 tools (skill, budget, guard, permission, confirmation, end tool), a rule for one action, a switch to plan mode, confirmations that expire, failing descriptors, prompts and callers | a handler runs only when authorized, a call denied by the current policy does not start, a run sees a decision before the result it led to |
| `TE_progress` | 2 turns of one session, both kinds of prompts, a mode switch, an interrupt, an executor that may stop; fair | no round of tools waits for ever |
| `SV_session` | queue of 1; up to 3 turns, cancellation of the second, a continuation, the scope of the first turn, a fact, a client that loses its connection once, shutdown; fair | a turn's events are in order, once, after its admission and before its scope's end; the stream is the log; every accepted turn gets its run or its error; a client catches up |
| `TU_terminal` | 1 subagent, 3 approvals of both kinds, any 5 inputs, requests, events or log records, 2 views, a log window of 2 and a channel of 1 | no approval is lost from the queue, a prompt is visible, the main view and the log view are exact, a settled approval leaves |
| `CP_compaction` | windows of 4096 and 8192, up to 7 messages, batches of 2 calls, 1 restart | a request accounts for every message once, is legal for the provider, fits, and a forced one keeps fewer messages than the refused one |
| `MC_call` | 13 scripts of the provider, cut off, failed or cancelled anywhere, 1 watcher that may stop reading, channels of 1; fair | every subscription is the history, the result is what was sent, the guard fails closed and returns |
| `CP_monotonic` | window of 4096, up to 9 messages | violation, see below |

Two turns, two continuations and two tasks are the smallest numbers for which
a result can go to the wrong scope, a reservation can overlap a finishing turn
and a continuation, and a queue has a head and a tail. Two calls and two
messages let a registration overlap a resumed turn and let Send overtake a
queued message. `AgentRun` needs two calls for a result order that differs from
the call order, a step limit and a finalization round so that the limit is met
from above and below, two turns for admission, and one repeated result and one
cancellation (`MaxRepeats`, `MaxCancels`), which can strike at every step.
Rounds are bounded by the step limit: `MaxSteps = 0`, unlimited, is not checked.
`ToolAdmission` needs two sessions for a prompt that does not hold up another
session, two asking calls in one round for a deferred approval, and a mode that
is stricter than the one a call was admitted in. `SessionServer` needs three
turns for one that runs, one that is queued and one that is refused or queued
behind a cancelled one. To keep its product of turns and clients small, clients
watch only sessions of at most `StreamTurns` turns without facts, and scope
ends, continuations and a shutdown come in sessions of at most `EventfulTurns`;
`ClientCatchesUp` says so. In `TerminalClient`, continuations, text and log
records come before the first approval (`Quiet`), and `MaxStimuli` bounds what
users and agents do; nothing bounds the interleavings of what follows. In
`Compaction` one answer is empty and one summary is in another script, the
largest its budget takes, so that the rounding of every budget is met from both
sides. A channel of one place is the hardest for a subscription. Deadlock is
not checked: all of these systems may rest when the users ask for nothing more.

`CP_monotonic` shows a bug (`findings` in `PROJECT.json`): a compaction may
select the whole projected history as its tail. With a checkpoint before it,
it stores another one with the same boundaries, and latestCheckpoint refuses
the transcript from then on: every later round of the session fails.

### Fairness

`FairSpec` of each module assumes that a goroutine that is not blocked runs
(weak fairness of its steps), that provider runs, child turns and tool
handlers end (they are bounded by the provider's stream, the step limit and
contexts), and nothing about users: nobody has to start a turn, send, cancel,
close or disconnect.

- `ResponseScope`: a run's end is strongly fair because an end tool call
  of the same turn may disable it repeatedly; a model that repeats a failing end
  tool for ever is thereby excluded.
- `TaskDelivery`: no further event of a turn is assumed, so that a waiter may
  not count on a later signal. Agent.Close goes on once it has begun.
- `AgentRun`: the loop, the router, a waiting Start and an injector proceed,
  streams end and tools report. The last is an assumption on the application's
  tool handlers, which get a context but no deadline of their own.
- `ToolAdmission`: each case of the executor's select is fair by itself (Go's
  select chooses at random among the ready ones), workers and router proceed,
  and somebody answers the prompts that are shown.
- `SessionServer`: the server's goroutines proceed, runs end, and clients read
  and come back.
- `ModelCall`: the guard, consume and the subscriptions proceed. The provider
  need not send anything until the context is cancelled, and watchers need not
  read.

`TerminalClient` and `Compaction` state no liveness.

## The proofs

`ResponseScopeProofs` proves, for any finite sets of turns, continuations and
works and any subagents and end tools:

- `TypeCorrect`: `Spec => []TypeOK`. The counters are naturals, so the type
  says that no decrement goes below zero. It needs `OriginInv`: what is
  registered, queued or delivered has a turn that started it.
- `AccountingCorrect`: `Spec => []AccountingInv`, if `LateCaller = {}`.
- `EndingIsQuiescent` and `CountersExact`, from it.
- `EventsPublishedOnce`: `Spec => []EventsOnce`, if `LateCaller = {}`.
- `EndedScopesOweNothing` (`Spec => []EndedScopeOwesNothing`) and
  `ResultsSettleOwnAssignments` (`Spec => SettlesOwnAssignment`), if `Settling`:
  the circumstances of `RS_settle`.

`AccountingInv` is inductive. That the counters are exact is not: to show that
FinishTurn may decrement, its turn must be bound to a live scope
(`BindingsInv`); to show that a main turn's rollback may delete its scope, the
scope must have no other turn or assignment (`FreshScopeInv`); the removal of a
scope needs that only one FinishTurn takes it down (`RemovalInv`); a rollback
of a reservation needs that its assignment is not queued and its scope still
open (`ReservationInv`), which holds because a reservation keeps `activeTurns`
or `pendingInputs` above zero; and works are registered and delivered once
(`WorkInv`, `DeliveryInv`). `QuietScope` is the lemma behind EndingQuiescent: a
scope whose counters say it is quiet has no queued assignment and no open
reservation. The assumption `LateCaller = {}` is necessary, as explained below;
`TypeCorrect` does without it.

Beside it `EventsInv` relates what has been published to who may still publish:
PreEndScope is out only if the scope is ending or gone, and then the turn or
end tool that took it down is past its publication; EndScope is out only if the
scope is gone.

`SettleInv` shows that the head of a subagent's queue is the assignment of the
result at hand, though a reservation never looks (`HeadIsTask`). A task starts
in a turn that counts, in an open scope, one at a time for a subagent
(`CallInv`), so it is registered unless its subagent was cancelled; from then on
its assignment is queued or reserved until the result is delivered, and a queued
assignment will have a result (`TrackInv`); the queue and the results on their
way are in the same order (`OrderInv`). Every hypothesis of `Settling` is needed:
with the constants of `RS_settle` and any one of end tools, interruptible turns,
direct works or a failing append or start, TLC finds a result that settles
another assignment.

The three facts (initial states, one lemma per action, the implication) are
stated for arbitrary constants under `ConstantsAssumption`; cardinalities use
the theorems on finite sets.

`SessionServerProofs` shows first that the replaying hub implements the abstract log, for
any set of clients, any events and any number of lost connections:
`HubImplementsLog` is `HubSpec => StreamIsTheLog`. `StreamIsTheLog` says nothing
of queues, so it is not inductive; the invariant `HubInv` is that what a client
has rendered, what is on its way in its channel and what is queued for it are
consecutive cursors from the first event on, that they reach the last event as
long as the subscriber is registered, and that nothing is left behind for one
that is not (theorem `HubInvariant`). `Linked` states this for the cursors of
one client, without variables, and has one lemma for each step of the hub; the
step lemmas then only say which client a step concerns. The initial state maps
to the log's, publishing to `Grow`, rendering to `Render`, everything else to a
stutter. Nothing is assumed beyond `HubAssumption`. That theorem is about the hub
with any publisher. A step of the server publishes one event at most, so it is a
step of the hub or leaves the hub alone, and `ServerStream` carries the
refinement over: `Spec => StreamIsTheLog`.

Then it proves `ServerInvariant`, `Spec => []ServerInv`, for any turns,
continuations, clients, cancellations, limits and shutdown, and from it
`ServerTypes` (`TypeOK`) and `RunEventsOrdered` (`RunEventsInOrder`). That the
published events of a run are in order is not inductive. A turn's events come
from a goroutine that reads a subscription, so one has to know what that
goroutine still holds:

- `QueueInv`: one goroutine serves the session between the start of a turn and
  the next candidate, the pending turns are the queued ones, once each and in the
  order of their numbers, and only a turn that has left the queue has a run.
- `EmittedInv` and `RunInv`: a run has emitted its facts from the first one on,
  and what a watcher holds of it (its backfill, its queue, the fence behind
  them) is in a row what it has not published yet.
- `OrderInv` and `PhaseInv` (together `StreamInv`): the published events of a
  turn are Admitted, then a prefix of its run's facts, with the terminal one
  only when nothing is left; which of them are out is determined by where the
  turn's goroutine stands. Queued is the exception named among the departures.

The argument is one lemma per action for each of these parts; most actions
touch one turn, and `StreamInv` of the others follows from what was published
being about that turn.

`TaskDeliveryProofs` proves `TaskInvariant`, `Spec => []TaskInv`, for any sets of
calls, messages, background calls, failures and closings, and from it
`TypeCorrect`, `OneOwnerAlways`, `FenceHolds` (`EventBeforeReturn`),
`MailboxKeepsOrder` (`MailboxOrder`) and `RetainedStaysResumable`
(`RetainedResumable`). The parts of `TaskInv` build on each other:

- `Locked`: who is in which critical section. A publisher that works holds its
  mutex, and `instance.mu` has one holder.
- `Recorded` and `Called`: what the durable record says of the turns (the
  current one has started, the last one is over, the active delivery is of a
  turn that ended) and what a call knows at each line. Calls have different
  turns, because a start makes the record running and a second one is refused.
- `Claims`: a turn in `taskDeliverySeen` has had its event published, or exactly
  one publisher is about to publish it. Only a delivery that was promised (the
  assignment is registered) is handed over, at most once; a registration is
  never taken back, and a call that returns its own result has not promised one.
  None of these is inductive without the others: whether a monitor may take the
  foreground branch depends on what the call decided under the other mutex.
- `Fenced`: a turn whose event is due stays in `taskExecutions`, is completed,
  or its delivery is promised. Hence a call that passes the fence returns after
  the event.
- `Mailbox`: what was started, the message in the monitor's hand and the pending
  ones are, in a row, what was sent. `MailboxOrder` speaks of the first part
  only, and is not inductive.
- `Retained`: once the agent is closed, only those who already held
  `instance.mu` when the record was retained can have it running, and each of
  them finds the agent closed before it lets go.

`AgentRunProofs` proves `AgentInvariant`, `Spec => []AgentInv`, for any turns,
calls, tools, injected messages, limits, faults and cancellations, and from it
`TypeCorrect`, `RequestsPaired` (`RequestIsPaired`), `CompletedHasSeenInputs`
(`CompletedSawInputs`), `TurnsStayApart` (`TurnsDoNotInterleave`),
`InputsAccounted` (`InputAccounting`) and `DoneHasPersisted` (`DoneIsPersisted`). What a loop still has to do is data, the
list `todo`, so the invariant speaks of that list where another proof would
speak of a program counter. Its parts:

- `WorkInv`: a loop's list holds effects of its own turn with arguments they
  accept. A closing loop's list ends with CloseRun, and a completed run has
  nothing but CloseRun left; otherwise an effect could store something behind
  the terminal event. `Moved` lists the moves of a loop's list, and one lemma
  says of each action which move it makes.
- `StartInv` and `BlocksInv`: one loop at most is live (`LiveInv`), it is the
  active one unless the router is closed, and nothing is stored behind its
  messages. That the turns do not interleave is not inductive: it needs that the
  next turn is not admitted before the loop has stopped.
- `InputInv`: a queued message is in one queue, once, its caller waits for that
  turn (`QueueInv`), and it is stored once if and only if the caller has been
  told that it is (`Told`).
- `DoneInv`: a run is marked Done by its own loop, after the last thing it
  stores, unless the results channel is closed.
- `SeenAt`: a turn has shown the model everything injected, or is about to ask
  it again, or closes without completing.
- `RoundAt`: how transcript, round and list fit together. Calls are about to be
  stored (`Asking`); or the first n of them are requested and the rest are still
  in the list (`Requesting`); or the loop waits for results (`Waiting`); or all
  of them are in the list in the order of the calls (`Answering`); or the
  transcript is paired and the list neither asks nor answers (`Quiet`). In the
  second to fourth case the last message of the transcript is the request for
  the calls and no request to the model is under way, which is why nothing can
  come between a request and its results.

Two facts keep the proof from being a product of the actions and the parts:
`Stored` (a step leaves the transcript alone or adds messages of one turn behind
it, and says to whom it answers) and `Concerns` (a step concerns the run of one
turn). Each part is then proved from those and the moves, and only `RoundAt`
looks at every action. `KeptCalls` describes what the filter of the final step
keeps, rather than calling SelectSeq, for which the library has no theorem.

`ToolAdmissionProofs` proves of the executor, for any calls, turns, sessions and
callers: `TypeCorrect`, `NoStartWhenDenied` (`NoStartUnderDeny`) and, when
descriptors name an action once, `HandlersAuthorized` (`HandlerAuthorized`).
`PlaceInv` says that a call is in one place: requested, deferred, behind one
prompt, or with a worker. `AuthorityInv` says what is known there: a deferred or
prompted call was not denied, one behind the permission is sanctioned, one with
a worker confirmed as well. `EpochInv`, an admission with the controller's epoch
has the controller's policy, is what makes Execute's comparison of epochs
sufficient. `GrantOrigin` and the hypothesis on repeated actions turn
`hasGrant`'s comparison by length and inclusion into equality.
Its second half proves `DecisionsBeforeResults` (`ResolvedBeforeResult`): with
`PromptInv` a prompt is published, shown, forwarded and decided once each; with
`RecordInv` the confirmation's record starts after the permission is allowed;
with `ResultInv` a call with a result has left admission for good; and
`DeliveryInv` follows a result past both prompts.

`ModelCallProofs` proves `StreamInvariant`, `HistoryExact` (`ExactHistory`) and
`GuardClosed` (`GuardFailsClosed`) for any scripts, watchers and channel sizes.
`Feeds` says that what a subscription has read, its channel, the event in hand
and its queue are in a row the history; `Ended`, that the stream ends once and,
unless it failed, sound; `Carried` and `Whole`, that the result holds all the
text published; `Reading`, that the guard's text is that of the events it has
read. That the text of a longer history is the text of the shorter one and of
the rest is an induction over sequences. The library's induction theorems take
an operator, which no installed prover can instantiate; the proof takes instead
the least number for which the claim is false (`NatMin`, from the well-founded
order of the naturals), which needs no such parameter.

`ResultSent` (`ResultIsWhatWasSent`), in the same module, is about what the
events mean. A history puts together a text, the names and the fragments of each
call and the calls completed, each of them what the single events give, in a row
(`Gather`); `HistoryConcat` makes that of two histories out of each. What the
events of a chunk give is what the chunk says: all fragments (`ParseFragments`),
the labels of the first delta that has any (`ParseLabels`, `StartsFirst`), and
the calls it is about (`ParseOpens`). `Tells` is then an invariant of the consumer: what is published and
what it has in hand tell the chunks received, and an event that completes the
stream is the last one in hand, so that the stream never ends between two events
of a chunk. At the end `Picks` shows that the completions are the pending calls
in the order of their indexes, each once: the ranks of a finite set of numbers
run from 0 without a gap.

`TerminalClientProofs` proves `TerminalInvariant`, `Spec => []TerminalInv`, for
any approvals, subagents, views, bounds and log sizes, and from it
`TerminalTypeCorrect` (`TypeOK`), `TerminalQueueAdvances` (`QueueAdvances`),
`TerminalPromptVisible` (`PromptVisible`), `TerminalScreenExact` (`ScreenExact`)
and `TerminalSettledLeaves` (`SettledLeaves`). Most of those speak of moments when
every goroutine is idle, so none is inductive: the invariant has to say, for
goroutines stopped between any two lock sections, which of them still has to do
what is missing. What a goroutine has to do is its list `todo`, and `Work` is
the set of the list's steps.

- `ListInv`: what follows what in a list. An append or a mark is followed by an
  activation, a drop by the mark of the same approval, a cleared screen by what
  rebuilds it. A step that has just been executed therefore leaves its
  successors in the list.
- `EventInv`: the events of runs and feeds are about approvals that were
  requested, and in the log and the feed of their owner and kind.
- `QueueInv`: an open pending approval is active, queued, or about to be
  appended; and as long as nothing is active while it is queued, some goroutine
  has an activation left to do. Whoever clears the active approval has one.
- `ViewInv`: the input goroutine alone rebuilds a view, and a renderer with the
  current epoch renders the view on the screen. `PromptInv` uses it: if nothing is
  shown for the active approval, a list or a renderer of this view will draw it
  (`Drawing`), or it is about to be marked complete. A prompt drawn for a view
  that was left in the meantime is dropped by `renderInView`, and then the change
  of view has put a rebuild into the input goroutine's list.
- `MainInv`: on the main view the events drawn are the numbers up to the next
  event of the subscription or to the last replayed one, whichever is later.
- `LogInv`: the channel holds the newest numbers in a row, and what the log
  view has shown ends with `logSequence`; a gap can only be seen as a number
  larger than the next one, which makes the view read the store.
- `SourceInv`: in each log a settlement follows its request, a main run that is
  over has no open approval, and a request that is about to be added comes from
  the goroutine that read it.
- `SettleInv`: a settled approval that is still pending is about to be dropped,
  or its settlement is ahead of a goroutine that will read it (`Ahead`: in the
  rest of the main run, in the feed of its kind, or in the rest of a subagent's
  run for a live view), or a view of its owner was left. So is one that is about to be
  added, because who read the request has the settlement before him: an
  addition may come after the removal by another goroutine, and this is what
  takes it out again.

`Frames` says once which actions change which group of variables, and
`StepMoves` and `NonStepMoves` how lists change (a goroutine's step is replaced by
the steps it causes, or an idle goroutine begins a list); each part of the
invariant is then proved from those and from the few actions that its variables
name.

`CompactionProofs` proves `SessionInvariant`, `Spec => []SessionInv`, for
transcripts of any length, any sizes of messages, summaries and windows, and any
number of restarts, and from it `Remembered` (`NothingForgotten`), `Legal`
(`RequestIsLegal`), `RequestsFit` (`RequestFits`) and `ForcedIsLess`
(`ForcedSendsLess`). The parts of the invariant:

- `TranscriptInv`: every stored message is valid and carries its own position;
  a checkpoint names a message of the transcript that is no result, and its
  summary and recent context carry exactly the messages before that one
  (`Accounts`); the first message, and the one behind an answer, is a prompt.
  It does not say that checkpoints are monotonic, which they are not
  (`BoundariesAdvance`): what a request carries rests on the latest one only.
- `TurnInv`: while a turn runs the transcript does not end with an answer, and
  before a request its last message that is no checkpoint is a prompt or a
  result (`HeardLast`).
- `RequestInv`: the request that is out accounts for the transcript
  (`Accounted`), is in a legal order (`LegalMessages`) and fits, and the one that
  a forced compaction replaces is the projection of the transcript.

`NothingForgotten` and the others are not inductive, because the next request
is computed from a checkpoint. Four chains of lemmas lead to the step of a
compaction:

- Texts. `HonestText` is a text that carries no message if it is blank; joining,
  cutting and truncating keep what is carried (`JoinedSeq`, `CutText`,
  `HistoryText`), wherever the cut falls.
- Places. `Listing` is the ascending sequence of a finite set of positions. The
  messages behind a checkpoint are one (`BaseIs`), so a tail is what lies at
  its places from the start on (`BaseSuffix`), and history and tail are disjoint
  and complete (`ProjectionAccounts`).
- Order. A readable transcript has every round in one piece (`ReadableCalls`);
  a piece stays in one when checkpoints are left out (`RunListed`,
  `BaseOrder`), when the tail starts at a unit (`SuffixOrder`), when the
  compacted context and its runtime event come before it (`ProjectionOrder`)
  and when the adapter leaves blank answers out (`TransformedOrder`).
- Sums. Estimates are sums over a finite domain; that they are numbers and that
  a part is no larger than the whole is an induction over the size of the
  domain, again from the least counterexample (`SumBounds`).

`RequestsFit` adds the arithmetic of the budgets for `SmallWindow`s (`RoomLeft`):
in larger ones the cap of 4096 tokens may make the margin less than an eighth.
`ForcedIsLess` shows the message that is dropped: the first one behind the
checkpoint before. It is not in the tail, and the compacted context could only
equal it if it were an answer and the first message of all, which is a prompt.

### Assumptions

Proofs rest on the assumptions named in the modules, which TLC evaluates in
every run: sets of calls and messages do not meet (`TaskDelivery`); turns and
continuations do not meet and the events of a session are among the hub's
(`ServerAssumption`); the calls of
a session are finitely many (`AgentRun`); a session's rounds are sequences of
calls and a call is dispatched once (`RoundsAssumption`, `ConstantsAssumption`
of `ToolAdmission`: IDs of calls are unique); scripts are sequences of chunks
(`ScriptsAssumption` of `ModelCall`); windows are positive and sizes pairs of
numbers (`CompactionAssumption`); approvals are finitely many and a view's
goroutine is none of the others (`TerminalAssumption`); and the sets of
`ResponseScope` are finite. Hypotheses of theorems beyond these are
`LateCaller = {}`, `Settling` and `ActionsListedOnce`, all explained below, and
`SmallWindow` for the windows in `RequestsFit`.

### Only model-checked

- Liveness, and with it everything about ENABLED: out of the prover's reach.
  These are `ScopeEnds`, `MailboxDrains`, `StoredDeliveryArrives`,
  `ShutdownCompletes`, `RunFinishes`, `InputAnswered`, `EveryRoundEnds`,
  `TurnResolved`, `ClientCatchesUp` and `GuardReturns`.

Every invariant, every action property and the refinement that the passing runs
check is also a theorem.

## Known departures

The passing runs exclude exactly the circumstances under which their
properties are known to fail, so that they show the rest. Where a sentence of
the repository says otherwise, the module states it in its last section, and
the constants given here make TLC produce the counterexample.

Response scopes:

- Closing the only subagent a finished turn waits for leaves its scope open for
  ever (`response_scope.go:372`; the comment above it leaves the end to a turn
  that is already over). `ScopeEnds` excepts it; without the exception:
  `MainTurn = {m1}`, `Continuation = {c1}`, `Work = {w1}`, `Closable = {a1}`, no
  end tools, direct works or failures, `FairSpec`.
- An end tool call that begins after FinishTurn of its interrupted turn reads
  `activeTurns = 1` as its own turn when it is a continuation's: a scope ends
  while a result is reserved in it. Hence `LateCaller = {}`.
- A background task registered while an end tool of the same provider step has
  started the ending is reported as running and tracked by nobody; its result
  may settle another assignment of the subagent, because a reservation takes
  the head of the queue. Hence no end tools in `RS_settle`. So may the result of
  a task registered by a call that outlives the run of its interrupted turn.
- A result that deliverTaskResult gives up (`agent.go:436`), and one of a direct
  subagent, which nobody delivers, leaves its assignment in its scope, where
  the next result of the subagent settles it.

Subagent tasks:

- `BackgroundDelivered`: a background turn that ends before its delivery is
  stored is claimed by the monitor's foreground branch and never delivered
  (`subagent_manager.go:1456` against `:407`). `Call = {c1}`,
  `Background = {c1}`, `ForegroundWait = FALSE`, no messages, failures, close or
  shutdown, `FairSpec`.
- `ForegroundReturns`: the publication fence misses a signal between its test
  and the load of the channel (`:561`, `:557`). `Call = {c1}`,
  `Background = {}`, `ForegroundWait = FALSE`, `Shuts = FALSE`, `FairSpec`. The
  fence of a task closed during its turn is not released either: its monitor
  publishes nothing. Only the shutdown releases both.
- `ResultIsOwn`: another turn's output is delivered for an assignment, because
  the call reads the record again after the start (`:448`, comment at `:493`).
  `Call = {c1, c2}`, `Message = {m1}`, `Background = {c2}`,
  `ForegroundWait = TRUE`, `Spec`.
- A registration that stores its delivery while a Send, doomed by the
  shutdown, has made the record running for a moment leaves the delivery in
  the retained record. `RetainedResumable` claims the status only.
- A process that dies without Close leaves a record `running`, which can
  neither be resumed nor closed (`:1239`).

Runs:

- `AllowlistRestricts`: a completion guard that retries with an empty allowlist,
  which should expose no tools, gets a round with all of them: copying the list
  makes it nil (`run.go:1205`, `completion.go:37`). `Turn = {t1}`,
  `Call = {work, report}`, `Input = {}`, `MaxSteps = 2`, `Allowlists = {{}}`,
  `Guarded`, `Cancels` and `Faults` empty, `MaxRepeats = MaxCancels = 0`.
- When the results channel closes, the router marks a run Done while its loop
  is in the middle of an effect; with a cancelled runtime the loop leaves
  InterruptTools before the cleanup. `DoneIsPersisted`, `RunFinishes` and
  `InputAnswered` except these.
- An interrupt in the middle of dispatching a round leaves later calls of the
  stored message without a result (`run.go:701`), and one in a later round
  stores the results of the earlier round again. `RequestIsPaired` is about the
  requests of a turn and about completed turns.
- Retries of the output guard count against `MaxSteps` only; without it nothing
  bounds them (`run.go:951`).

Tools:

- An EndResponseScope call that comes too early is queued without permission or
  confirmation, to be skipped (`executor.go:437`); if the scope is ready when the
  worker asks again, its handler runs. `HandlerAuthorized` and
  `NoStartUnderDeny` leave end tools out.
- A grant for a list of actions with one repeated covers more than it was given
  for (`executor.go:755`); the instances have none, and `HandlersAuthorized` has
  it as its hypothesis.
- ResolvePermission releases the results held for the permission without
  looking at the call's confirmation (`runtime.go:378`). If it stalls after it
  has forwarded an answer, a second caller can answer the confirmation as well,
  and stall too; then the run gets the result before the second decision.
  `ResolvedBeforeResult` excepts this (`Overtaken`); with one caller there is no
  exception.
- A prompt that expires drops the results held for it, and a request received
  after the interrupt of its turn leaves a prompt that nobody can answer and
  that defers the session's later ones. `EveryRoundEnds` excepts both.

Server, terminal, compaction, model calls:

- `QueuedTurnStarts`: the server starts the next turn when the subscription of
  the last one closes, which is before the run is Done, and the wait in
  `runtime.go:513` does not cover it: the queued turn is rejected with
  ErrTurnInProgress. `SV_session` with `Continuation = {}`, `Client = {}`,
  `Shuts = FALSE`, `MaxFacts = 0`.
- A turn's Queued event may follow its Admitted event
  (`server_turn_queue.go:99`).
- `PromptIsActive`: two goroutines may draw in the other order than they
  activated, and the prompt on the screen is not the one that an answer goes to
  (`terminal.go:369`). The constants of `TU_terminal`.
- A forced compaction keeps fewer messages, but its request may be larger in
  tokens than the refused one: the summary and the recent context are new.
- A call is started by the first delta of a chunk with an ID, a type or a name;
  labels that a further delta of the chunk gives it are dropped
  (`parse.go:43-55`), so that a name sent behind an ID in one chunk is lost and
  the stream fails, or an older name stays. `ResultIsWhatWasSent` counts the
  first such delta of each chunk; `MC_call` has scripts of both kinds.
- The terminal's main view shows neither events nor prompt when ListMessages
  fails (`terminal.go:1284`), which the bundled store never does; `PromptVisible`
  and `ScreenExact` are about a transcript that can be read.
- A connection that ends before the finish reason completes the stream
  (`start_stream.go:46`), a call whose arguments had not begun included.

## Not modelled

- required_tool_guard.go, the prompts of completion.go and the task result
  contract: sequential, and their text decides.
- `operationMu` and the flush of the exporter at shutdown; the Read, Wait and
  List views of tasks; interrupts and modes relayed to children.
- Versions and retries of the record store: an update is atomic, which is what
  compare-and-swap gives.
- Project loading, options, prompts and schemas; classification of shell text
  for the bash tool; observability; HTTP handlers and types; the single-run
  stream of server_stream.go; wire formats; line editing, colours, tables and
  rendering. They convert or print data and have no protocol of their own.

## The plan

1. A record store with versions, shown to implement the atomic updates that
   `TaskDelivery` assumes.
