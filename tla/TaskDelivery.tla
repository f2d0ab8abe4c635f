---------------------------- MODULE TaskDelivery ----------------------------
(***************************************************************************)
(* The life of one retained task: the subagent record, the child turns     *)
(* that run for it, and who gets each turn's result.                       *)
(*                                                                         *)
(* subagent_manager.go serves the task from several goroutines:            *)
(*   - each ExecuteTask call starts or resumes the task and then waits for *)
(*     the turn, or registers a background delivery, or first waits and is *)
(*     promoted to background by a timer;                                  *)
(*   - one monitor per turn folds the turn's end into the record,          *)
(*     publishes the result and starts the next mailbox message;           *)
(*   - the application sends messages to the task and may close it;        *)
(*   - Agent.Close retains the record and stops everything else.           *)
(* A monitor folds and publishes under instance.mu; a registration runs    *)
(* under taskRegistrationMu only.  Both end in publishTaskTerminal and     *)
(* race through taskDeliverySeen, the set of claimed turns.                *)
(*                                                                         *)
(* A store update with its optimistic retries takes effect at its last,    *)
(* successful compare-and-swap, so it is one step here.  The response      *)
(* scope is reduced to its set of assignments (module ResponseScope) and   *)
(* the delivery goroutine to the sequence of results handed to it.         *)
(***************************************************************************)
EXTENDS Naturals, Sequences, FiniteSets

CONSTANTS
  Call,           \* ExecuteTask calls; a call's turn ID is named after it
  Creator,        \* the call that creates the task; the others resume it
  Message,        \* messages sent by the application, naming their turns too
  Background,     \* calls with background:true
  ForegroundWait, \* is taskForegroundWait positive?
  Cancellable,    \* calls whose context may be cancelled
  Failures,       \* "start": a turn may fail to start; "store": an update may
                  \* run out of retries
  Closes,         \* may the application close the task?
  Shuts,          \* may the application close the agent, where nothing fails?
  ShutdownSends,  \* bound: messages sent where it does
  None

Turn == Call \cup Message

ASSUME ConstantsAssumption ==
  /\ Creator \in Call
  /\ Call \cap Message = {}
  /\ None \notin Turn
  /\ Background \subseteq Call
  /\ Cancellable \subseteq Call
  /\ ForegroundWait \in BOOLEAN
  /\ Closes \in BOOLEAN
  /\ Shuts \in BOOLEAN /\ ShutdownSends \in Nat
  /\ Failures \subseteq {"start", "store"}

VARIABLES
  \* the durable record (storage.Subagent)
  status,             \* "none" | "running" | "idle" | "closed"
  currentTurn, lastTurn,
  activeDelivery,     \* the assignment of ActiveTaskDelivery, or None
  pending,            \* the mailbox
  \* the managed instance
  agentLive,          \* instance.agent # nil
  instanceRun,        \* instance.run
  instanceMu,         \* held across steps for this turn (its monitor publishes,
                      \* or it is being started), or None
  run,                \* [Turn -> "none" | "running" | "done"]
  monitor,            \* [Turn -> "none" | "streaming" | "publishing" |
                      \*          "startNext" | "over"]
  next,               \* the message taken from the mailbox
  \* the manager
  taskExecutions,     \* turns whose completion is still to be published
  taskDeliverySeen,   \* claimed turns
  taskRegistrationMu, \* the call that holds it, or None
  waiters,            \* calls blocked on the current m.changed channel
  pub,                \* the publications of the two mutex holders
  closing,            \* CloseSubagent: "no" | "closed" | "done"
  shutdown,           \* how far Agent.Close is; m.closed is set by its first step
  \* ExecuteTask calls
  pc, turnOf, result,
  faults,             \* the failures that happen in this behaviour, if any do
  \* what is observable
  sent,               \* messages given to Send, in order
  started,            \* messages whose turn was attempted, in order
  assigned,           \* assignments held by the response scope
  completed,          \* TaskCompleted events, in order
  accepted            \* results handed to the delivery goroutine, in order

record   == <<status, currentTurn, lastTurn, activeDelivery, pending>>
instance == <<agentLive, instanceRun, instanceMu, run, monitor, next>>
manager  == <<taskExecutions, taskDeliverySeen, taskRegistrationMu, pub>>
calls    == <<pc, turnOf, result>>
outside  == <<sent, started, assigned, completed, accepted>>
vars == <<record, instance, manager, waiters, closing, shutdown, faults, calls, outside>>

CallStep == {"idle", "created", "adopt", "lookup", "resume", "resuming", "waitRun",
             "lifecycle", "lifecycleLoad", "lifecycleBlocked", "fence", "fenceLoad", "fenceBlocked",
             "register", "registerScope", "registerStore", "publishing",
             "returned"}
MonitorStep == {"none", "streaming", "publishing", "startNext", "over"}
ShutdownStep == {"no", "closed", "retained", "released", "signalled", "cancelled", "done"}
PublishStep == {"idle", "claim", "event", "accept", "clear", "unmark"}

\* At most one registration (it holds taskRegistrationMu) and one monitor (it
\* holds instance.mu) publish at a time.
Publisher == {"registration", "monitor"}

\* turn is the delivery published, output the turn whose output it carries;
\* a foreground completion is published as an event only.
Publication(step, turn, output, foreground) ==
  [step |-> step, turn |-> turn, output |-> output, foreground |-> foreground]
NoPublication == Publication("idle", None, None, FALSE)

Init ==
  /\ status = "none" /\ currentTurn = None /\ lastTurn = None
  /\ activeDelivery = None /\ pending = <<>>
  /\ agentLive = FALSE /\ instanceRun = None /\ instanceMu = None
  /\ run = [t \in Turn |-> "none"]
  /\ monitor = [t \in Turn |-> "none"]
  /\ next = None
  /\ taskExecutions = {} /\ taskDeliverySeen = {}
  /\ taskRegistrationMu = None
  /\ waiters = {}
  /\ pub = [p \in Publisher |-> NoPublication]
  /\ closing = "no" /\ shutdown = "no"
  /\ faults \in {{}, Failures}
  /\ pc = [c \in Call |-> "idle"]
  /\ turnOf = [c \in Call |-> None]
  /\ result = [c \in Call |-> "none"]
  /\ sent = <<>> /\ started = <<>> /\ assigned = {}
  /\ completed = <<>> /\ accepted = <<>>

\* signalChanged: everybody who waits on the channel wakes up.
SignalChanged == waiters' = {}

Goto(c, step) == pc' = [pc EXCEPT ![c] = step]
Return(c, r) == Goto(c, "returned") /\ result' = [result EXCEPT ![c] = r]

\* No turn is active and the task may get one.
Resumable == status = "idle"

\* m.closed, and the cancelled context of the agent and of its calls.
Closed == shutdown # "no"
Stopped == shutdown \in {"cancelled", "done"}

\* Where ExecuteTask goes once its turn has started.
AfterStart(c) == IF c \in Background THEN "register" ELSE "waitRun"

\* transition, when the turn is over: the record can be resumed.
TurnOver(t) == status' = "idle" /\ currentTurn' = None /\ lastTurn' = t

\* The runtime is loaded again for a retained record.
EnsureAgentLocked == agentLive' = TRUE

MayStartIfLoaded == agentLive

\* The first conditions of startTurnLocked: ensureOpen, and a loaded runtime.
MayStart == ~Closed /\ agentLive

\* startTurnLocked succeeds: the turn runs and has a monitor.
StartTurnLocked(t) ==
  /\ run' = [run EXCEPT ![t] = "running"]
  /\ instanceRun' = t
  /\ monitor' = [monitor EXCEPT ![t] = "streaming"]
-----------------------------------------------------------------------------
(***************************************************************************)
(* ExecuteTask                                                             *)
(***************************************************************************)

\* startLocked creates the record and the instance and marks the execution; a
\* record created while the manager closes is closed again.
CreateTask ==
  /\ pc[Creator] = "idle"
  /\ status = "none"
  /\ \/ /\ ~Closed
        /\ status' = "running"
        /\ currentTurn' = Creator
        /\ agentLive' = TRUE
        /\ taskExecutions' = taskExecutions \cup {Creator}
        /\ Goto(Creator, "created") /\ UNCHANGED result
     \/ /\ Closed
        /\ status' \in {status, "closed"}
        /\ Return(Creator, "error")
        /\ UNCHANGED <<currentTurn, agentLive, taskExecutions>>
  /\ UNCHANGED <<lastTurn, activeDelivery, pending, instanceRun, instanceMu, run,
                 monitor, next, taskDeliverySeen, taskRegistrationMu, pub,
                 waiters, closing, shutdown, faults, turnOf, outside>>

\* The rest of startLocked.  When the turn does not start, because the task was
\* closed meanwhile or for another reason, the record is closed.
StartCreated ==
  /\ pc[Creator] = "created"
  /\ instanceMu = None
  /\ \/ /\ MayStart
        /\ StartTurnLocked(Creator)
        /\ SignalChanged
        /\ Goto(Creator, "adopt")
        /\ UNCHANGED <<record, agentLive, taskExecutions, result>>
     \/ /\ ~MayStart \/ "start" \in faults
        /\ taskExecutions' = taskExecutions \ {Creator}
        /\ status' = "closed" /\ currentTurn' = None /\ pending' = <<>>
        /\ agentLive' = FALSE
        /\ Return(Creator, "error")
        /\ UNCHANGED <<lastTurn, activeDelivery, instanceRun, run, monitor, waiters>>
  /\ UNCHANGED <<instanceMu, next, taskDeliverySeen, taskRegistrationMu, pub,
                 closing, shutdown, faults, turnOf, outside>>

\* startForegroundTask reads the record again, without the lock, and takes the
\* run of its current or last turn (taskRunForRecord) ...
ReadStarted ==
  /\ pc[Creator] = "adopt"
  /\ turnOf' = [turnOf EXCEPT ![Creator] =
                  IF currentTurn # None THEN currentTurn ELSE lastTurn]
  /\ Goto(Creator, "lookup")
  /\ UNCHANGED <<record, instance, manager, waiters, closing, shutdown, faults, result, outside>>

\* ... which may have none; a closed manager has no instance for it
\* (instanceForRecord).
AdoptRun ==
  /\ pc[Creator] = "lookup"
  /\ instanceMu = None
  /\ IF Closed \/ turnOf[Creator] = None \/ run[turnOf[Creator]] = "none"
     THEN Return(Creator, "error")
     ELSE Goto(Creator, AfterStart(Creator)) /\ UNCHANGED result
  /\ UNCHANGED <<record, instance, manager, waiters, closing, shutdown, faults, turnOf, outside>>

\* resumeForegroundTask reads the record and finds the instance of an open
\* manager.  The main model has the task ID from an earlier result or from the
\* reminder that lists active deliveries.
ResumeBegin(c) ==
  /\ c # Creator
  /\ pc[c] = "idle"
  /\ pc[Creator] = "returned" \/ activeDelivery # None
  /\ IF Resumable /\ ~Closed
     THEN Goto(c, "resume") /\ UNCHANGED result
     ELSE Return(c, "error")
  /\ UNCHANGED <<record, instance, manager, waiters, closing, shutdown, faults,
                 turnOf, outside>>

\* Under instance.mu it reads the record again, until the record is running.
ResumeTask(c) ==
  /\ pc[c] = "resume"
  /\ instanceMu = None
  /\ \/ /\ ~Resumable \/ Stopped
        /\ Return(c, "error")
        /\ UNCHANGED <<status, currentTurn, agentLive, instanceMu, taskExecutions>>
     \/ /\ Resumable /\ ~Stopped /\ "store" \in faults
        /\ EnsureAgentLocked
        /\ Return(c, "error")
        /\ UNCHANGED <<status, currentTurn, instanceMu, taskExecutions>>
     \/ /\ Resumable /\ ~Stopped
        /\ status' = "running" /\ currentTurn' = c
        /\ EnsureAgentLocked
        /\ instanceMu' = c
        /\ taskExecutions' = taskExecutions \cup {c}
        /\ Goto(c, "resuming") /\ UNCHANGED result
  /\ UNCHANGED <<lastTurn, activeDelivery, pending, instanceRun, run, monitor,
                 next, taskDeliverySeen, taskRegistrationMu, pub, waiters,
                 closing, shutdown, faults, turnOf, outside>>

\* The record says that t runs, and startTurnLocked tries to start it: for a
\* resumed task, for Send, or for the mailbox message its monitor took.  After
\* a failure the record goes back to idle, unless that update fails too; only
\* Send keeps the runtime loaded, and only monitor signals.
StartTurn(t) ==
  /\ instanceMu = t /\ run[t] = "none"
  /\ instanceMu' = None /\ next' = None
  /\ \/ /\ MayStart
        /\ StartTurnLocked(t)
        /\ SignalChanged
        /\ IF t \in Call
           THEN turnOf' = [turnOf EXCEPT ![t] = t] /\ Goto(t, AfterStart(t))
           ELSE UNCHANGED <<turnOf, pc>>
        /\ UNCHANGED <<status, currentTurn, lastTurn, agentLive, taskExecutions, result>>
     \/ /\ ~MayStart \/ "start" \in faults
        /\ taskExecutions' = taskExecutions \ {t}
        /\ \/ TurnOver(t)
           \/ "store" \in faults /\ UNCHANGED <<status, currentTurn, lastTurn>>
        /\ agentLive' = (agentLive /\ t \in Message /\ next = None)
        /\ waiters' = IF next = t THEN {} ELSE waiters
        /\ IF t \in Call THEN Return(t, "error") ELSE UNCHANGED <<pc, result>>
        /\ UNCHANGED <<instanceRun, run, monitor, turnOf>>
  /\ UNCHANGED <<activeDelivery, pending, taskDeliverySeen, taskRegistrationMu,
                 pub, closing, shutdown, faults, outside>>

\* waitForTask: the run is done; a failed one is an error result at once.
WaitRunDone(c) ==
  /\ pc[c] = "waitRun"
  /\ run[turnOf[c]] = "done"
  /\ \/ Goto(c, "lifecycle") /\ UNCHANGED result
     \/ Goto(c, "fence") /\ result' = [result EXCEPT ![c] = "error"]
  /\ UNCHANGED <<record, instance, manager, waiters, closing, shutdown, faults, turnOf, outside>>

\* waitForTaskLifecycle: read the record, and only then the channel to wait on
\* and whether the manager is closed.
WaitLifecycle(c) ==
  /\ \/ /\ pc[c] = "lifecycle"
        /\ IF status # "running"
           THEN Goto(c, "fence") /\ result' = [result EXCEPT ![c] = "final"]
           ELSE Goto(c, "lifecycleLoad") /\ UNCHANGED result
        /\ UNCHANGED waiters
     \/ /\ pc[c] = "lifecycleLoad"
        /\ IF Closed
           THEN /\ Goto(c, "fence") /\ result' = [result EXCEPT ![c] = "error"]
                /\ UNCHANGED waiters
           ELSE /\ waiters' = waiters \cup {c}
                /\ Goto(c, "lifecycleBlocked") /\ UNCHANGED result
     \/ /\ pc[c] = "lifecycleBlocked" /\ c \notin waiters
        /\ Goto(c, "lifecycle") /\ UNCHANGED <<result, waiters>>
  /\ UNCHANGED <<record, instance, manager, closing, shutdown, faults, turnOf, outside>>

PublishingUnclaimed(c) == turnOf[c] \in taskExecutions \ taskDeliverySeen

\* The completion of the call's turn is not published yet.
Publishing(c) == turnOf[c] \in taskExecutions

BlockAtFence(c) == Goto(c, "fenceBlocked") /\ waiters' = waiters \cup {c}

\* The fence gives way to a closed manager.
LoadFence(c) ==
  IF Closed THEN Goto(c, "returned") /\ UNCHANGED waiters
  ELSE Goto(c, "fenceBlocked") /\ waiters' = waiters \cup {c}

\* waitForTaskCompletionPublication: the same loop on taskExecutions.
WaitPublication(c) ==
  /\ \/ /\ pc[c] = "fence"
        /\ Goto(c, IF Publishing(c) THEN "fenceLoad" ELSE "returned")
        /\ UNCHANGED waiters
     \/ pc[c] = "fenceLoad" /\ LoadFence(c)
     \/ /\ pc[c] = "fenceBlocked" /\ c \notin waiters
        /\ Goto(c, "fence") /\ UNCHANGED waiters
  /\ UNCHANGED <<record, instance, manager, closing, shutdown, faults, turnOf, result, outside>>

\* The caller's context ends while it waits for the run: the run is interrupted
\* (RunEnds may always happen).  Only the unbounded wait passes the fence.
CancelCall(c) ==
  /\ c \in Cancellable \/ Stopped
  /\ \/ pc[c] \in {"waitRun", "lifecycle", "lifecycleBlocked"}
     \/ ForegroundWait /\ pc[c] = "lifecycleLoad"
  /\ Goto(c, IF ForegroundWait THEN "returned" ELSE "fence")
  /\ result' = [result EXCEPT ![c] = "error"]
  /\ waiters' = waiters \ {c}
  /\ UNCHANGED <<record, instance, manager, closing, shutdown, faults, turnOf, outside>>

\* waitOrPromoteTask: the timer fires before the result is there.
PromoteTask(c) ==
  /\ ForegroundWait
  /\ pc[c] \in {"waitRun", "lifecycle", "lifecycleLoad", "lifecycleBlocked"}
  /\ Goto(c, "register")
  /\ waiters' = waiters \ {c}
  /\ UNCHANGED <<record, instance, manager, closing, shutdown, faults, turnOf, result, outside>>
-----------------------------------------------------------------------------
(***************************************************************************)
(* registerTaskDelivery, under taskRegistrationMu                          *)
(***************************************************************************)
RegisterBegin(c) ==
  /\ pc[c] = "register"
  /\ taskRegistrationMu = None
  /\ \/ /\ activeDelivery # None /\ ~Stopped
        /\ Return(c, IF activeDelivery = turnOf[c] THEN "running" ELSE "error")
        /\ UNCHANGED taskRegistrationMu
     \/ /\ activeDelivery = None /\ ~Stopped
        /\ taskRegistrationMu' = c
        /\ Goto(c, "registerScope") /\ UNCHANGED result
     \/ /\ c \in Cancellable \/ Stopped
        /\ Return(c, "error")
        /\ UNCHANGED taskRegistrationMu
  /\ UNCHANGED <<record, instance, taskExecutions, taskDeliverySeen, pub,
                 waiters, closing, shutdown, faults, turnOf, outside>>

\* RegisterAssignmentMetadata; nothing is registered after the cancellation.
RegisterScope(c) ==
  /\ pc[c] = "registerScope"
  /\ assigned' = IF closing = "done" THEN assigned ELSE assigned \cup {turnOf[c]}
  /\ Goto(c, "registerStore")
  /\ UNCHANGED <<record, instance, manager, waiters, closing, shutdown, faults, turnOf, result,
                 sent, started, completed, accepted>>

\* setTaskDelivery and what follows: the assignment is rolled back, the call
\* returns "running", or the record is not running any more and the result is
\* published from here.
RegisterStore(c) ==
  /\ pc[c] = "registerStore"
  /\ \/ /\ status = "closed" \/ Stopped \/ "store" \in faults
        /\ assigned' = assigned \ {turnOf[c]}
        /\ taskRegistrationMu' = None
        /\ Return(c, "error")
        /\ UNCHANGED <<activeDelivery, pub>>
     \/ /\ status # "closed" /\ ~Stopped
        /\ activeDelivery' = turnOf[c]
        /\ IF status = "running"
           THEN Return(c, "running") /\ taskRegistrationMu' = None /\ UNCHANGED pub
           ELSE /\ Goto(c, "publishing")
                /\ pub' = [pub EXCEPT !["registration"] =
                             Publication("claim", turnOf[c], lastTurn, FALSE)]
                /\ UNCHANGED <<taskRegistrationMu, result>>
        /\ UNCHANGED assigned
  /\ UNCHANGED <<status, currentTurn, lastTurn, pending, instance,
                 taskExecutions, taskDeliverySeen, waiters, closing, shutdown, faults, turnOf,
                 sent, started, completed, accepted>>

RegisterDone(c) ==
  /\ pc[c] = "publishing"
  /\ pub["registration"].step = "idle"
  /\ taskRegistrationMu' = None
  /\ Return(c, "running")
  /\ UNCHANGED <<record, instance, taskExecutions, taskDeliverySeen, pub,
                 waiters, closing, shutdown, faults, turnOf, outside>>
-----------------------------------------------------------------------------
(***************************************************************************)
(* publishTaskTerminal, and the shorter sequence for a foreground turn     *)
(***************************************************************************)
Advance(p, step) ==
  pub' = [pub EXCEPT ![p] =
            IF step = "idle" THEN NoPublication
            ELSE Publication(step, pub[p].turn, pub[p].output, pub[p].foreground)]

AlwaysFirst(t) == TRUE

FirstClaim(t) == t \notin taskDeliverySeen

\* claimTaskCompletion.  Who loses the claim has nothing to publish; only the
\* foreground sequence then still releases the fence.
ClaimTaskCompletion(p) ==
  LET t == pub[p].turn
  IN  /\ pub[p].step = "claim"
      /\ taskDeliverySeen' = taskDeliverySeen \cup {t}
      /\ Advance(p, IF FirstClaim(t) THEN "event"
                    ELSE IF pub[p].foreground THEN "unmark" ELSE "idle")
      /\ UNCHANGED <<record, instance, taskExecutions, taskRegistrationMu,
                     waiters, closing, shutdown, faults, calls, outside>>

PublishTaskCompleted(p) ==
  /\ pub[p].step = "event"
  /\ completed' = Append(completed, pub[p].turn)
  /\ Advance(p, IF pub[p].foreground THEN "unmark" ELSE "accept")
  /\ UNCHANGED <<record, instance, taskExecutions, taskDeliverySeen,
                 taskRegistrationMu, waiters, closing, shutdown, faults, calls, sent, started,
                 assigned, accepted>>

\* A stopped coordinator may drop the result.
AcceptTaskDelivery(p) ==
  /\ pub[p].step = "accept"
  /\ \/ accepted' = Append(accepted, [turn |-> pub[p].turn, output |-> pub[p].output])
     \/ Stopped /\ UNCHANGED accepted
  /\ Advance(p, "clear")
  /\ UNCHANGED <<record, instance, taskExecutions, taskDeliverySeen,
                 taskRegistrationMu, waiters, closing, shutdown, faults, calls, sent, started,
                 assigned, completed>>

\* setTaskDelivery(nil): whatever delivery is active is cleared; an error is
\* ignored.
ClearTaskDelivery(p) ==
  /\ pub[p].step = "clear"
  /\ \/ status # "closed" /\ activeDelivery' = None
     \/ (status = "closed" \/ "store" \in faults) /\ UNCHANGED activeDelivery
  /\ Advance(p, "unmark")
  /\ UNCHANGED <<status, currentTurn, lastTurn, pending, instance,
                 taskExecutions, taskDeliverySeen, taskRegistrationMu, waiters,
                 closing, shutdown, faults, calls, outside>>

UnmarkTaskExecution(p) ==
  /\ pub[p].step = "unmark"
  /\ taskExecutions' = taskExecutions \ {pub[p].turn}
  /\ SignalChanged
  /\ Advance(p, "idle")
  /\ UNCHANGED <<record, instance, taskDeliverySeen, taskRegistrationMu,
                 closing, shutdown, faults, calls, outside>>

Publish(p) ==
  \/ ClaimTaskCompletion(p) \/ PublishTaskCompleted(p) \/ AcceptTaskDelivery(p)
  \/ ClearTaskDelivery(p) \/ UnmarkTaskExecution(p)
-----------------------------------------------------------------------------
(***************************************************************************)
(* Turns and their monitors                                                *)
(***************************************************************************)

\* The turn completes, fails or is interrupted.
RunEnds(t) ==
  /\ run[t] = "running"
  /\ run' = [run EXCEPT ![t] = "done"]
  /\ UNCHANGED <<record, agentLive, instanceRun, instanceMu, monitor, next,
                 manager, waiters, closing, shutdown, faults, calls, outside>>

\* monitor forwards an event of the turn.
MonitorEvent(t) ==
  /\ monitor[t] = "streaming"
  /\ waiters # {}
  /\ SignalChanged
  /\ UNCHANGED <<record, instance, manager, closing, shutdown, faults, calls, outside>>

DeliverEveryTurn(t) ==
  IF activeDelivery # None THEN Publication("claim", activeDelivery, t, FALSE)
  ELSE IF t \in taskExecutions THEN Publication("claim", t, t, FALSE)
  ELSE NoPublication

ForegroundFirst(t) ==
  IF t \in taskExecutions THEN Publication("claim", t, t, TRUE)
  ELSE IF activeDelivery # None THEN Publication("claim", activeDelivery, t, FALSE)
  ELSE NoPublication

\* What monitor publishes for the ended turn: the active delivery, or the
\* completion of a foreground task, or nothing for a message's turn.
TerminalPublication(t) ==
  IF activeDelivery # None THEN Publication("claim", activeDelivery, t, FALSE)
  ELSE IF t \in taskExecutions THEN Publication("claim", t, t, TRUE)
  ELSE NoPublication

\* The event stream has ended: monitor takes instance.mu and folds the turn
\* into the record, unless the task is closed or the update fails.
MonitorFold(t) ==
  LET Over == /\ monitor' = [monitor EXCEPT ![t] = "over"]
              /\ UNCHANGED <<status, currentTurn, lastTurn, instanceRun,
                             instanceMu, pub, waiters>>
  IN  /\ monitor[t] = "streaming"
      /\ run[t] = "done"
      /\ instanceMu = None
      /\ IF instanceRun # t \/ status = "closed"
         THEN Over /\ UNCHANGED agentLive
         ELSE \/ /\ TurnOver(t)
                 /\ instanceRun' = None
                 /\ instanceMu' = t
                 /\ monitor' = [monitor EXCEPT ![t] = "publishing"]
                 /\ pub' = [pub EXCEPT !["monitor"] = TerminalPublication(t)]
                 /\ SignalChanged
                 /\ UNCHANGED agentLive
              \/ /\ "store" \in faults
                 /\ agentLive' \in {agentLive, FALSE}
                 /\ Over
      /\ UNCHANGED <<activeDelivery, pending, run, next, taskExecutions,
                     taskDeliverySeen, taskRegistrationMu, closing, shutdown, faults, calls,
                     outside>>

HasNextUndelivered == pending # <<>> /\ activeDelivery = None

HasNext == pending # <<>>

\* Dequeue; without a next message the runtime is unloaded.
MonitorDequeue(t) ==
  /\ monitor[t] = "publishing"
  /\ pub["monitor"].step = "idle"
  /\ \/ /\ HasNext
        /\ next' = Head(pending)
        /\ pending' = Tail(pending)
        /\ monitor' = [monitor EXCEPT ![t] = "startNext"]
        /\ UNCHANGED <<instanceMu, agentLive>>
     \/ /\ ~HasNext \/ "store" \in faults
        /\ monitor' = [monitor EXCEPT ![t] = "over"]
        /\ instanceMu' = None
        /\ agentLive' = FALSE
        /\ UNCHANGED <<pending, next>>
  /\ UNCHANGED <<status, currentTurn, lastTurn, activeDelivery, instanceRun,
                 run, manager, waiters, closing, shutdown, faults, calls, outside>>

\* The record turns running for the message; StartTurn follows.
MonitorNext(t) ==
  /\ monitor[t] = "startNext"
  /\ monitor' = [monitor EXCEPT ![t] = "over"]
  /\ started' = Append(started, next)
  /\ \/ /\ status' = "running" /\ currentTurn' = next
        /\ instanceMu' = next
        /\ UNCHANGED <<agentLive, next>>
     \/ /\ "store" \in faults
        /\ instanceMu' = None /\ next' = None
        /\ agentLive' = FALSE
        /\ UNCHANGED <<status, currentTurn>>
  /\ UNCHANGED <<lastTurn, activeDelivery, pending, instanceRun, run, manager,
                 waiters, closing, shutdown, faults, calls, sent, assigned, completed, accepted>>
-----------------------------------------------------------------------------
(***************************************************************************)
(* The application                                                         *)
(***************************************************************************)

EnqueueFirst(m) == <<m>> \o pending

Enqueue(m) == Append(pending, m)

\* Send, under instance.mu: queue the message behind a running turn, or make
\* the record running for its turn.
Send(m) ==
  /\ \A i \in DOMAIN sent : sent[i] # m
  /\ Closed => Len(sent) < ShutdownSends
  /\ instanceMu = None
  /\ status # "none"
  /\ sent' = Append(sent, m)
  /\ \/ /\ status = "running"
        /\ pending' = Enqueue(m)
        /\ SignalChanged
        /\ UNCHANGED <<status, currentTurn, agentLive, instanceMu, started>>
     \/ /\ status = "idle"
        /\ status' = "running" /\ currentTurn' = m
        /\ EnsureAgentLocked
        /\ instanceMu' = m
        /\ started' = Append(started, m)
        /\ UNCHANGED <<pending, waiters>>
     \/ /\ status = "closed" \/ Closed \/ "store" \in faults
        /\ agentLive' = (agentLive \/ (status = "idle" /\ "store" \in faults))
        /\ UNCHANGED <<status, currentTurn, pending, instanceMu, started, waiters>>
  /\ UNCHANGED <<lastTurn, activeDelivery, instanceRun, run, monitor, next,
                 manager, closing, shutdown, faults, calls, assigned, completed, accepted>>

\* CloseSubagent, under instance.mu: the record is closed and the mailbox
\* dropped ...
CloseRecord ==
  /\ Closes
  /\ instanceMu = None
  /\ status \in {"running", "idle"}
  /\ status' = "closed" /\ currentTurn' = None /\ pending' = <<>>
  /\ agentLive' = FALSE
  /\ closing' = "closed"
  /\ UNCHANGED <<lastTurn, activeDelivery, instanceRun, instanceMu, run,
                 monitor, next, manager, waiters, shutdown, faults, calls, outside>>

\* ... then, unlocked, the run is interrupted and the obligations are dropped.
CloseFinish ==
  /\ closing = "closed"
  /\ closing' = "done"
  /\ assigned' = {}
  /\ SignalChanged
  /\ UNCHANGED <<record, instance, manager, shutdown, faults, calls, sent, started,
                 completed, accepted>>
-----------------------------------------------------------------------------
(***************************************************************************)
(* Agent.Close                                                             *)
(***************************************************************************)
Shutdown(from, to) == shutdown = from /\ shutdown' = to

\* subagentManager.Close sets m.closed and lists the instances ...
ShutdownBegin ==
  /\ Shuts /\ faults = {} /\ Len(sent) <= ShutdownSends
  /\ Shutdown("no", "closed")
  /\ UNCHANGED <<record, instance, manager, waiters, closing, faults, calls, outside>>

\* Without the instance lock, the record loses its running turn and its delivery.
RetainRecord ==
  IF status = "running"
  THEN TurnOver(currentTurn) /\ activeDelivery' = None
  ELSE /\ activeDelivery' = IF status = "idle" THEN None ELSE activeDelivery
       /\ UNCHANGED <<status, currentTurn, lastTurn>>

RetainForShutdown ==
  /\ Shutdown("closed", "retained")
  /\ RetainRecord
  /\ UNCHANGED <<pending, instance, manager, waiters, closing, faults, calls, outside>>

\* releaseAgent, under instance.mu; closing the runtime cancels its turn.
ReleaseAgent ==
  /\ Shutdown("retained", "released")
  /\ instanceMu = None
  /\ agentLive' = FALSE
  /\ UNCHANGED <<record, instanceRun, instanceMu, run, monitor, next, manager,
                 waiters, closing, faults, calls, outside>>

ShutdownSignal ==
  /\ Shutdown("released", "signalled")
  /\ SignalChanged
  /\ UNCHANGED <<record, instance, manager, closing, faults, calls, outside>>

\* stopTaskCoordinator, then a.cancel.
ShutdownCancel ==
  /\ Shutdown("signalled", "cancelled")
  /\ UNCHANGED <<record, instance, manager, waiters, closing, faults, calls, outside>>

\* Wait: the executor is done when no call is left.
ShutdownWait ==
  /\ Shutdown("cancelled", "done")
  /\ \A c \in Call : pc[c] \in {"idle", "returned"}
  /\ UNCHANGED <<record, instance, manager, waiters, closing, faults, calls, outside>>

CloseAgent ==
  \/ RetainForShutdown \/ ReleaseAgent \/ ShutdownSignal \/ ShutdownCancel
  \/ ShutdownWait
-----------------------------------------------------------------------------
StartStep == StartCreated \/ ReadStarted \/ AdoptRun

CallProgress(c) ==
  \/ ResumeTask(c) \/ (Stopped /\ CancelCall(c))
  \/ WaitRunDone(c) \/ WaitLifecycle(c) \/ WaitPublication(c)
  \/ RegisterBegin(c) \/ RegisterScope(c) \/ RegisterStore(c) \/ RegisterDone(c)

MonitorProgress(t) == MonitorFold(t) \/ MonitorDequeue(t) \/ MonitorNext(t)

Next ==
  \/ CreateTask \/ StartStep
  \/ \E c \in Call : \/ ResumeBegin(c) \/ CallProgress(c)
                     \/ CancelCall(c) \/ PromoteTask(c)
  \/ \E p \in Publisher : Publish(p)
  \/ \E t \in Turn : \/ StartTurn(t) \/ RunEnds(t)
                     \/ MonitorEvent(t) \/ MonitorProgress(t)
  \/ \E m \in Message : Send(m)
  \/ CloseRecord \/ CloseFinish
  \/ ShutdownBegin \/ CloseAgent

Spec == Init /\ [][Next]_vars

\* Goroutines that are not blocked run, and a turn ends (its provider and its
\* tools are external).  Nobody is obliged to call, send, cancel or close, and
\* a monitor is not assumed to see another event.
Fairness ==
  /\ WF_vars(StartStep)
  /\ \A c \in Call : WF_vars(CallProgress(c))
  /\ \A p \in Publisher : WF_vars(Publish(p))
  /\ \A t \in Turn : /\ WF_vars(StartTurn(t)) /\ WF_vars(RunEnds(t))
                     /\ WF_vars(MonitorProgress(t))
  /\ WF_vars(CloseFinish) /\ WF_vars(CloseAgent)

FairSpec == Spec /\ Fairness
-----------------------------------------------------------------------------
(***************************************************************************)
(* Properties                                                              *)
(***************************************************************************)

\* Type invariant of the record, the instance, the manager and its callers.
TypeOK ==
  /\ status \in {"none", "running", "idle", "closed"}
  /\ currentTurn \in Turn \cup {None} /\ lastTurn \in Turn \cup {None}
  /\ activeDelivery \in Turn \cup {None}
  /\ pending \in Seq(Message)
  /\ agentLive \in BOOLEAN
  /\ instanceRun \in Turn \cup {None} /\ instanceMu \in Turn \cup {None}
  /\ run \in [Turn -> {"none", "running", "done"}]
  /\ monitor \in [Turn -> MonitorStep]
  /\ next \in Message \cup {None}
  /\ taskExecutions \subseteq Turn /\ taskDeliverySeen \subseteq Turn
  /\ taskRegistrationMu \in Call \cup {None}
  /\ waiters \subseteq Call
  /\ pub \in [Publisher -> [step : PublishStep, turn : Turn \cup {None},
                            output : Turn \cup {None}, foreground : BOOLEAN]]
  /\ closing \in {"no", "closed", "done"}
  /\ shutdown \in ShutdownStep
  /\ faults \in {{}, Failures}
  /\ pc \in [Call -> CallStep]
  /\ turnOf \in [Call -> Turn \cup {None}]
  /\ result \in [Call -> {"none", "running", "final", "error"}]
  /\ sent \in Seq(Message) /\ started \in Seq(Message)
  /\ assigned \subseteq Turn
  /\ completed \in Seq(Turn)
  /\ accepted \in Seq([turn : Turn, output : Turn])

\* A foreground call returns after the TaskCompleted event of its turn
\* (comment of waitForTaskCompletionPublication), unless the agent closes.
EventBeforeReturn ==
  ~Closed => \A c \in Call : pc[c] = "returned" /\ result[c] = "final" /\ turnOf[c] = c =>
     \E i \in DOMAIN completed : completed[i] = c

\* One owner per result: TaskCompleted is published and the result handed over
\* at most once per turn, though a registration and a monitor may both try,
\* and a result returned in place is not handed over as well.
OneOwner ==
  /\ \A i, j \in DOMAIN completed : completed[i] = completed[j] => i = j
  /\ \A i, j \in DOMAIN accepted : accepted[i].turn = accepted[j].turn => i = j
  /\ \A c \in Call : result[c] = "final" =>
       \A i \in DOMAIN accepted : accepted[i].turn # turnOf[c]

\* "mailbox order is preserved even when Send races completion" (comment of
\* monitor): turns of messages start in the order of the Send calls, where
\* no start fails and the agent is not closed.
MailboxOrder ==
  faults = {} /\ ~Closed => \A i, j \in DOMAIN started : i < j =>
     \E p, q \in DOMAIN sent : p < q /\ sent[p] = started[i] /\ sent[q] = started[j]

\* Where nothing fails, a message accepted behind a running turn gets its
\* turn, unless the task or the agent is closed.
MailboxDrains ==
  \A m \in Message : (faults = {} /\ \E i \in DOMAIN pending : pending[i] = m)
     ~> ((\E i \in DOMAIN started : started[i] = m) \/ status = "closed" \/ Closed)

\* Where nothing fails, a delivery stored while its turn runs is handed over
\* when the turn ends.
StoredDeliveryArrives ==
  \A t \in Call : (faults = {} /\ activeDelivery = t /\ run[t] = "running")
     ~> ((\E i \in DOMAIN accepted : accepted[i].turn = t) \/ status = "closed" \/ Closed)

\* Agent.Close returns: no call waits for ever for a result, a fence or a lock,
\* whatever the turns, the monitors and CloseSubagent do meanwhile.
ShutdownCompletes == Closed ~> shutdown = "done"

\* "Durable task records remain resumable" (comment of subagentManager.Close):
\* once the agent is closed and nobody is in the middle of an operation on the
\* task, its record is not running, although calls, monitors and messages went
\* on while it was retained.
RetainedResumable == shutdown = "done" /\ instanceMu = None => status # "running"

-----------------------------------------------------------------------------
(***************************************************************************)
(* What the code's own words say and the code does not do.  No run checks  *)
(* these; README.md gives the constants that show each counterexample.     *)
(***************************************************************************)

\* The result handed over for an assignment is the output of its own turn,
\* also when the record has moved on to another turn.
ResultIsOwn ==
  \A i \in DOMAIN accepted : accepted[i].turn \in Call =>
     accepted[i].output = accepted[i].turn

\* "background or promoted calls return `running` and Agent delivers the
\* terminal result exactly once" (docs/agents/application/
\* subagent-lifecycle.md).
BackgroundDelivered ==
  \A c \in Call : (result[c] = "running")
     ~> ((\E i \in DOMAIN accepted : accepted[i].turn = turnOf[c]) \/ status = "closed" \/ Closed)

\* "foreground callers only wait for that short terminal bookkeeping fence"
\* (comment of waitForTaskCompletionPublication).
ForegroundReturns ==
  \A c \in Call : (pc[c] = "fence") ~> (pc[c] = "returned")
=============================================================================
