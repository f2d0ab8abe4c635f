--------------------------- MODULE TerminalClient ---------------------------
(***************************************************************************)
(* The terminal client: one goroutine reads input and the main Agent's run *)
(* ("input"), two goroutines follow the approval feeds of the subagents,   *)
(* and each opened subagent view has a goroutine that renders its run.     *)
(* They share the approval queue (stateMu) and the screen (renderMu).      *)
(* A goroutine's remaining work is a list of steps, one per lock section.  *)
(* Text, colours, loading rows and command syntax are left out.            *)
(***************************************************************************)
EXTENDS Naturals, Sequences, FiniteSets, SequencesExt, FiniteSetsExt

CONSTANTS
  Main, Sub,        \* views: the main Agent's and one for each subagent
  Approval,
  Owner,            \* [Approval -> {Main} \cup Sub]: whose run asks
  Kind,             \* [Approval -> {"permission", "confirmation"}]
  None,
  MaxStimuli,       \* bound on inputs, requests, other events and log records together
  MaxText,          \* bound on other events of the main run
  MaxRequests,      \* bound on approvals requested by one run
  Viewer,           \* goroutines of streamSubagentRun: a bound on the views opened
  LogLimit,         \* runtimeLogEntryLimit
  UpdateLimit,      \* capacity of the channel of log updates
  MaxLogs           \* bound on log records

ASSUME TerminalAssumption ==
  /\ Main \notin Sub /\ Owner \in [Approval -> {Main} \cup Sub]
  /\ Kind \in [Approval -> {"permission", "confirmation"}]
  /\ None \notin Approval \cup Sub \cup {Main}
  /\ {MaxStimuli, MaxRequests, MaxText, MaxLogs} \subseteq Nat
  /\ {LogLimit, UpdateLimit} \subseteq Nat \ {0}
  /\ IsFiniteSet(Approval) /\ Viewer \cap {"input", "permission", "confirmation"} = {}

VARIABLES
  \* The Agent.
  truth,           \* [Approval -> "new" | "open" | "answered" | "settled"]
  subRun,          \* [Sub -> "idle" | "running" | "closed"]
  subLog,          \* [Sub -> Seq(event)]: events of the subagent's run
  feed,            \* [kind -> Seq(event)]: events of an approval feed not yet observed
  mainLog,         \* events of the main run
  mainDone,
  busy,            \* a continuation of the Agent has the session
  \* The client.
  pending,         \* pendingPermissions and pendingConfirmations
  order,           \* [kind -> Seq(Approval)]: permissionOrder, confirmationOrder
  approvalOrder, activeApproval,
  renderMu,        \* who holds it across steps
  todo,            \* [Actor -> Seq(step)]
  view,            \* subagentID
  epoch,           \* which viewContext is current
  renderer,        \* [Viewer -> the goroutine of streamSubagentRun]
  logView,
  sameSession,     \* no /new yet: sessionID is the one the subagents belong to
  turn,            \* the prompt whose run the input goroutine follows, 0 for none
  mainNext,        \* the next event of its subscription
  hasRun,          \* mainAgentRun is set
  replayThrough,
  typed, promptQueue, started,
  stimuli,         \* inputs, requests, other events and log records so far
  \* The screen since it was last cleared.
  shown,           \* the last approval drawn
  drawn,           \* main events drawn
  wiped,           \* the user cleared the screen
  \* Runtime logs.
  nextSequence, updates, logSequence, logScreen

world == <<truth, subRun, subLog, feed, mainLog, mainDone, busy>>
approvals == <<pending, order, approvalOrder, activeApproval>>
views == <<view, epoch, renderer, logView, sameSession>>
mainTurn == <<turn, mainNext, hasRun, replayThrough, typed, promptQueue, started>>
screen == <<shown, drawn, wiped>>
logs == <<nextSequence, updates, logSequence, logScreen>>
vars == <<world, approvals, renderMu, todo, views, mainTurn, stimuli, screen, logs>>

Kinds == {"permission", "confirmation"}
Actor == {"input"} \cup Kinds \cup Viewer

Init ==
  /\ truth = [a \in Approval |-> "new"] /\ subRun = [s \in Sub |-> "idle"]
  /\ subLog = [s \in Sub |-> <<>>] /\ feed = [k \in Kinds |-> <<>>]
  /\ mainLog = <<>> /\ mainDone = FALSE /\ busy = FALSE
  /\ pending = {} /\ order = [k \in Kinds |-> <<>>] /\ approvalOrder = <<>> /\ activeApproval = None
  /\ renderMu = None /\ todo = [x \in Actor |-> <<>>]
  /\ view = Main /\ epoch = 1 /\ logView = FALSE /\ sameSession = TRUE
  /\ renderer = [r \in Viewer |-> [state |-> "none", id |-> None, epoch |-> 0, next |-> 0]]
  /\ turn = 0 /\ mainNext = 1 /\ hasRun = FALSE /\ replayThrough = 0
  /\ typed = 0 /\ promptQueue = <<>> /\ started = <<>> /\ stimuli = 0
  /\ shown = None /\ drawn = <<>> /\ wiped = FALSE
  /\ nextSequence = 0 /\ updates = <<>> /\ logSequence = 0 /\ logScreen = <<>>

-----------------------------------------------------------------------------
(* The Agent, as the client meets it: approvals are requested, settled by  *)
(* an answer or by themselves, and announced in the run's events and, for  *)
(* a subagent, in the feed of their kind.                                  *)

\* Bound: continuations, text and log records come before the first approval.
Quiet == \A a \in Approval : truth[a] = "new"
Stimulus == stimuli < MaxStimuli /\ stimuli' = stimuli + 1

Emit(a, type) ==
  IF Owner[a] = Main
  THEN mainLog' = Append(mainLog, <<type, a>>) /\ UNCHANGED <<subLog, feed>>
  ELSE /\ subLog' = [subLog EXCEPT ![Owner[a]] = Append(@, <<type, a>>)]
       /\ feed' = [feed EXCEPT ![Kind[a]] = Append(@, <<type, a>>)]
       /\ UNCHANGED mainLog

Running(o) == IF o = Main THEN turn # 0 /\ ~mainDone ELSE subRun[o] = "running"

Request(a) ==
  /\ truth[a] = "new" /\ Running(Owner[a]) /\ Stimulus
  /\ Cardinality({b \in Approval : Owner[b] = Owner[a] /\ truth[b] # "new"}) < MaxRequests
  /\ truth' = [truth EXCEPT ![a] = "open"] /\ Emit(a, "requested")
  /\ UNCHANGED <<subRun, mainDone, busy, approvals, renderMu, todo, views, mainTurn, screen, logs>>

Settle(a) ==
  /\ truth[a] \in {"open", "answered"}
  /\ truth' = [truth EXCEPT ![a] = "settled"] /\ Emit(a, "settled")
  /\ UNCHANGED <<subRun, mainDone, busy, approvals, renderMu, todo, views, mainTurn, stimuli, screen, logs>>

MainText ==
  /\ Quiet /\ turn # 0 /\ ~mainDone /\ Len(SelectSeq(mainLog, LAMBDA e : e[1] = "text")) < MaxText /\ Stimulus
  /\ mainLog' = Append(mainLog, <<"text", None>>)
  /\ UNCHANGED <<truth, subRun, subLog, feed, mainDone, busy, approvals, renderMu, todo, views,
                 mainTurn, screen, logs>>

MainEnds ==
  /\ turn # 0 /\ ~mainDone /\ \A a \in Approval : Owner[a] = Main => truth[a] \notin {"open", "answered"}
  /\ mainDone' = TRUE
  /\ UNCHANGED <<truth, subRun, subLog, feed, mainLog, busy, approvals, renderMu, todo, views,
                 mainTurn, stimuli, screen, logs>>

\* The main Agent starts a subagent, or a task result starts or ends a turn of
\* the session that the terminal does not follow.
SubStarts(s) ==
  /\ subRun[s] = "idle" /\ Stimulus /\ subRun' = [subRun EXCEPT ![s] = "running"]
  /\ UNCHANGED <<truth, subLog, feed, mainLog, mainDone, busy, approvals, renderMu, todo, views,
                 mainTurn, screen, logs>>

Continuation ==
  /\ Quiet /\ turn = 0 /\ busy' = ~busy /\ (IF busy THEN UNCHANGED stimuli ELSE Stimulus)
  /\ UNCHANGED <<truth, subRun, subLog, feed, mainLog, mainDone, approvals, renderMu, todo, views,
                 mainTurn, screen, logs>>

-----------------------------------------------------------------------------
(* The steps of a goroutine.                                               *)

Do(x) == Head(todo[x])
At(x, step) == todo[x] # <<>> /\ Do(x)[1] = step
Then(x, steps) == todo' = [todo EXCEPT ![x] = steps \o Tail(@)]

\* Drawing needs renderMu, unless the goroutine already holds it.
MayRender(x) == renderMu \in {None, x}

\* A draw that goes through renderInView looks the view up first and is
\* dropped if the view has changed; one made while rendering an event is not.
presentNextApproval(a) == << <<"look", a>> >>
presentNextApprovalWhileRendering(a) == << <<"paint", a>> >>

queueApproval(a) == << <<"append", a>>, <<"activate", FALSE>> >>
queueApprovalWhileRendering(a) == << <<"append", a>>, <<"activate", TRUE>> >>
completeApproval(a) == << <<"mark", a>>, <<"activate", FALSE>> >>
completeApprovalWhileRendering(a) == << <<"mark", a>>, <<"activate", TRUE>> >>

observeSubagent(e) ==
  IF e[1] = "requested" THEN << <<"add", e[2], queueApproval(e[2])>> >>
  ELSE << <<"drop", e[2]>> >> \o completeApproval(e[2])
observeSubagentPermission(e) == observeSubagent(e)
observeSubagentConfirmation(e) == observeSubagent(e)

renderPermissionEvent(e) ==
  CASE e[1] = "requested" -> << <<"add", e[2], queueApprovalWhileRendering(e[2])>> >>
    [] e[1] = "settled" -> << <<"drop", e[2]>> >> \o completeApprovalWhileRendering(e[2])
    [] OTHER -> <<>>
renderConfirmationEvent(e) == renderPermissionEvent(e)
renderEventForSubagent(e) ==
  IF e[2] # None /\ Kind[e[2]] = "permission" THEN renderPermissionEvent(e) ELSE renderConfirmationEvent(e)

Client == <<pending, order, approvalOrder, activeApproval, shown>>
Frame == UNCHANGED <<world, views, mainTurn, stimuli, drawn, wiped, logs>>

addPending(x) ==
  LET a == Do(x)[2] IN
  /\ At(x, "add") /\ pending' = pending \cup {a}
  /\ order' = IF a \in pending THEN order ELSE [order EXCEPT ![Kind[a]] = Append(@, a)]
  /\ Then(x, IF a \in pending THEN <<>> ELSE Do(x)[3])
  /\ UNCHANGED <<approvalOrder, activeApproval, shown, renderMu>> /\ Frame

appendApproval(x) ==
  /\ At(x, "append") /\ approvalOrder' = Append(approvalOrder, Do(x)[2]) /\ Then(x, <<>>)
  /\ UNCHANGED <<pending, order, activeApproval, shown, renderMu>> /\ Frame

dropPending(x) ==
  /\ At(x, "drop") /\ pending' = pending \ {Do(x)[2]} /\ Then(x, <<>>)
  /\ UNCHANGED <<order, approvalOrder, activeApproval, shown, renderMu>> /\ Frame

\* Mutant: the active approval is cleared whichever approval is complete.
markAnyComplete(x) ==
  /\ At(x, "mark") /\ Then(x, <<>>) /\ activeApproval' = None
  /\ UNCHANGED <<pending, order, approvalOrder, shown, renderMu>> /\ Frame

markApprovalComplete(x) ==
  /\ At(x, "mark") /\ Then(x, <<>>)
  /\ activeApproval' = IF activeApproval = Do(x)[2] THEN None ELSE activeApproval
  /\ UNCHANGED <<pending, order, approvalOrder, shown, renderMu>> /\ Frame

Candidates == {i \in DOMAIN approvalOrder : approvalOrder[i] \in pending}
FirstCandidate == IF Candidates = {} THEN Len(approvalOrder) + 1 ELSE Min(Candidates)

activateNextApproval(x) ==
  /\ At(x, "activate")
  /\ IF activeApproval # None
     THEN Then(x, <<>>) /\ UNCHANGED <<approvalOrder, activeApproval>>
     ELSE /\ approvalOrder' = SubSeq(approvalOrder, FirstCandidate + 1, Len(approvalOrder))
          /\ activeApproval' = IF Candidates = {} THEN None ELSE approvalOrder[FirstCandidate]
          /\ Then(x, IF Candidates = {} THEN <<>>
                     ELSE IF Do(x)[2] THEN presentNextApprovalWhileRendering(activeApproval')
                     ELSE presentNextApproval(activeApproval'))
  /\ UNCHANGED <<pending, order, shown, renderMu>> /\ Frame

activeView(x) ==
  /\ At(x, "look") /\ Then(x, << <<"draw", Do(x)[2], view>> >>)
  /\ UNCHANGED <<Client, renderMu>> /\ Frame

renderInView(x) ==
  /\ At(x, "draw") /\ MayRender(x) /\ Then(x, <<>>)
  /\ shown' = IF view = Do(x)[3] /\ ~logView THEN Do(x)[2] ELSE shown
  /\ UNCHANGED <<approvals, renderMu>> /\ Frame

renderApproval(x) ==
  /\ At(x, "paint") /\ Then(x, <<>>) /\ shown' = Do(x)[2]
  /\ UNCHANGED <<approvals, renderMu>> /\ Frame

\* The view is rebuilt without renderMu: the active approval is looked up and
\* then drawn.
renderActiveApproval(x) ==
  /\ At(x, "snapshot")
  /\ Then(x, IF activeApproval # None /\ activeApproval \in pending
             THEN << <<"paint", activeApproval>> >> ELSE <<>>)
  /\ UNCHANGED <<Client, renderMu>> /\ Frame

Unlock(x) ==
  /\ At(x, "unlock") /\ renderMu' = None /\ Then(x, <<>>)
  /\ UNCHANGED Client /\ Frame

observe(k, event) ==
  IF k = "permission" THEN observeSubagentPermission(event) ELSE observeSubagentConfirmation(event)

\* Mutant: events of another session are ignored, settlements too.
monitorSession(k) ==
  /\ todo[k] = <<>> /\ feed[k] # <<>>
  /\ feed' = [feed EXCEPT ![k] = Tail(@)]
  /\ todo' = [todo EXCEPT ![k] = IF sameSession THEN observe(k, Head(feed[k])) ELSE <<>>]
  /\ UNCHANGED <<truth, subRun, subLog, mainLog, mainDone, busy, approvals, renderMu, views,
                 mainTurn, stimuli, screen, logs>>

\* The goroutines that follow the feeds.  A request of another session is not
\* shown; a settlement is always observed.
monitor(k) ==
  /\ todo[k] = <<>> /\ feed[k] # <<>>
  /\ feed' = [feed EXCEPT ![k] = Tail(@)]
  /\ todo' = [todo EXCEPT ![k] =
       IF Head(feed[k])[1] = "requested" /\ ~sameSession THEN <<>> ELSE observe(k, Head(feed[k]))]
  /\ UNCHANGED <<truth, subRun, subLog, mainLog, mainDone, busy, approvals, renderMu, views,
                 mainTurn, stimuli, screen, logs>>
monitorSubagentPermissions == monitor("permission")
monitorSubagentConfirmations == monitor("confirmation")

-----------------------------------------------------------------------------
(* Subagent views.                                                         *)

FreeRenderer == {r \in Viewer : renderer[r].state = "none"}

\* streamSubagentRun starts a goroutine with the context of the current view.
streamSubagentRun(s) ==
  LET r == CHOOSE r \in FreeRenderer : TRUE
  IN renderer' = [renderer EXCEPT ![r] = [state |-> "start", id |-> s, epoch |-> epoch, next |-> 0]]

StopRenderer(r) == renderer' = [renderer EXCEPT ![r].state = "over"]

InView(id) == view = id /\ ~logView

\* renderSubagentRun: subscribe, draw what is retained, draw the active
\* approval; it gives up when its view is not on the screen.
RenderRetained(r) ==
  /\ renderer[r].state = "start" /\ todo[r] = <<>>
  /\ renderer' = [renderer EXCEPT ![r].state = "retained", ![r].next = Len(subLog[renderer[r].id]) + 1]
  /\ UNCHANGED <<world, approvals, renderMu, todo, view, epoch, logView, sameSession, mainTurn,
                 stimuli, screen, logs>>

RenderPrompt(r) ==
  /\ renderer[r].state = "retained" /\ renderMu = None
  /\ IF InView(renderer[r].id)
     THEN /\ renderer' = [renderer EXCEPT ![r].state = "live"]
          /\ shown' = IF activeApproval \in pending THEN activeApproval ELSE shown
     ELSE StopRenderer(r) /\ UNCHANGED shown
  /\ UNCHANGED <<world, approvals, renderMu, todo, view, epoch, logView, sameSession, mainTurn,
                 stimuli, drawn, wiped, logs>>

\* An event is rendered under renderMu if the view is on the screen, and
\* otherwise ignored: the feeds report approvals too.
renderSubagentRun(r) ==
  /\ renderer[r].state = "live" /\ todo[r] = <<>>
  /\ LET s == renderer[r].id
         n == renderer[r].next
     IN \/ /\ n <= Len(subLog[s])
           /\ renderMu = None
           /\ renderer' = [renderer EXCEPT ![r].next = n + 1]
           /\ IF InView(s)
              THEN /\ renderMu' = r
                   /\ todo' = [todo EXCEPT ![r] = renderEventForSubagent(subLog[s][n]) \o << <<"unlock">> >>]
              ELSE UNCHANGED <<renderMu, todo>>
        \/ /\ epoch # renderer[r].epoch
           /\ StopRenderer(r) /\ UNCHANGED <<renderMu, todo>>
  /\ UNCHANGED <<world, approvals, view, epoch, logView, sameSession, mainTurn, stimuli, screen, logs>>

-----------------------------------------------------------------------------
(* The input goroutine: the main run.                                      *)

InputIdle == todo["input"] = <<>>

\* Mutant: events that the view was rebuilt from are rendered again.
replayedNever(n) == FALSE

mainAgentEventAlreadyReplayed(n) == n <= replayThrough

\* An event of the run: rendered in the main view, otherwise only observed.
runMainAgentTurn ==
  /\ InputIdle /\ turn # 0 /\ mainNext <= Len(mainLog)
  /\ mainNext' = mainNext + 1
  /\ IF mainAgentEventAlreadyReplayed(mainNext) \/ (renderMu = None /\ ~InView(Main))
     THEN /\ todo' = [todo EXCEPT !["input"] = renderEventForSubagent(mainLog[mainNext])]
          /\ UNCHANGED <<renderMu, drawn>>
     ELSE /\ renderMu = None /\ renderMu' = "input"
          /\ todo' = [todo EXCEPT !["input"] = renderEventForSubagent(mainLog[mainNext]) \o << <<"unlock">> >>]
          /\ drawn' = Append(drawn, mainNext)
  /\ UNCHANGED <<world, approvals, views, turn, hasRun, replayThrough, typed, promptQueue, started,
                 stimuli, shown, wiped, logs>>

\* The subscription is closed: the turn is over.
EndTurn ==
  /\ InputIdle /\ turn # 0 /\ mainDone /\ mainNext > Len(mainLog)
  /\ turn' = 0 /\ hasRun' = FALSE
  /\ replayThrough' = IF hasRun THEN 0 ELSE replayThrough
  /\ UNCHANGED <<world, approvals, renderMu, todo, views, mainNext, typed, promptQueue, started,
                 stimuli, screen, logs>>

\* StartSubscribed: refused while the session has another turn.
runTurn(p) ==
  \/ /\ busy /\ UNCHANGED <<turn, mainNext, hasRun, replayThrough, started, mainLog, mainDone, drawn>>
  \/ /\ ~busy /\ turn' = p /\ started' = Append(started, p)
     /\ mainLog' = <<>> /\ mainDone' = FALSE /\ mainNext' = 1
     /\ hasRun' = TRUE /\ replayThrough' = 0 /\ drawn' = <<>>

dequeueMainAgentPrompt ==
  /\ InputIdle /\ turn = 0 /\ view = Main /\ promptQueue # <<>>
  /\ promptQueue' = Tail(promptQueue) /\ runTurn(Head(promptQueue))
  /\ UNCHANGED <<truth, subRun, subLog, feed, busy, approvals, renderMu, todo, views, typed,
                 stimuli, shown, wiped, logs>>

-----------------------------------------------------------------------------
(* The input goroutine: lines and keys.  The idle loop starts a queued     *)
(* prompt before it reads input.                                           *)

Read ==
  /\ InputIdle /\ Stimulus
  /\ turn # 0 \/ view # Main \/ promptQueue = <<>>

\* With an approval active, a choice answers it and other text is refused;
\* without one, a choice answers the oldest pending approval of its kind.
OldestPending(k) ==
  LET I == {i \in DOMAIN order[k] : order[k][i] \in pending}
  IN IF I = {} THEN None ELSE order[k][Min(I)]

resolve(a) == << <<"resolve", a>> >>
resolvePermission(a) == resolve(a)
resolveConfirmation(a) == resolve(a)
Resolve(a) == IF Kind[a] = "permission" THEN resolvePermission(a) ELSE resolveConfirmation(a)

\* A choice of kind k is given to the active approval if that is of its kind,
\* refused if it is not, and otherwise given to the oldest pending one.
Choose(k) ==
  /\ Read /\ ~logView
  /\ LET a == IF activeApproval = None THEN OldestPending(k)
              ELSE IF Kind[activeApproval] = k THEN activeApproval ELSE None
     IN a \in pending /\ todo' = [todo EXCEPT !["input"] = Resolve(a)]
  /\ UNCHANGED <<world, approvals, renderMu, views, mainTurn, screen, logs>>

\* /allow, /deny, /confirm or /decline with an identifier.
ChooseID(a) ==
  /\ Read /\ ~logView /\ a \in pending
  /\ todo' = [todo EXCEPT !["input"] = Resolve(a)]
  /\ UNCHANGED <<world, approvals, renderMu, views, mainTurn, screen, logs>>

\* The Agent accepts an answer once, and for a subagent only from its session;
\* an error leaves the approval where it is.
AgentResolve(x) ==
  /\ At(x, "resolve")
  /\ LET a == Do(x)[2]
     IN IF truth[a] = "open" /\ (Owner[a] = Main \/ sameSession)
        THEN /\ truth' = [truth EXCEPT ![a] = "answered"]
             /\ Then(x, << <<"drop", a>> >> \o completeApproval(a))
        ELSE UNCHANGED truth /\ Then(x, <<>>)
  /\ UNCHANGED <<subRun, subLog, feed, mainLog, mainDone, busy, Client, renderMu, views, mainTurn,
                 stimuli, drawn, wiped, logs>>

\* A line that is no command: the subagent's mailbox, the runtime, or the queue.
enqueueMainAgentPrompt(p) ==
  /\ promptQueue' = Append(promptQueue, p)
  /\ UNCHANGED <<turn, mainNext, hasRun, replayThrough, started, mainLog, mainDone, drawn>>

Prompt ==
  /\ Read /\ ~logView /\ activeApproval = None /\ view = Main
  /\ typed' = typed + 1
  /\ IF turn = 0 THEN runTurn(typed + 1) /\ UNCHANGED promptQueue ELSE enqueueMainAgentPrompt(typed + 1)
  /\ UNCHANGED <<truth, subRun, subLog, feed, busy, approvals, renderMu, todo, views, shown, wiped, logs>>

runSubagentTurn ==
  /\ Read /\ ~logView /\ activeApproval = None /\ view # Main
  /\ IF subRun[view] = "idle"
     THEN /\ FreeRenderer # {} /\ subRun' = [subRun EXCEPT ![view] = "running"]
          /\ streamSubagentRun(view)
     ELSE UNCHANGED <<subRun, renderer>>
  /\ UNCHANGED <<truth, subLog, feed, mainLog, mainDone, busy, approvals, renderMu, todo, view, epoch,
                 logView, sameSession, mainTurn, screen, logs>>

switchView(s) == renderMu = None /\ view' = s /\ epoch' = epoch + 1

\* openSubagent after switchView: the screen is cleared and the view rebuilt
\* from the record read before.
openSubagent(s) ==
  /\ switchView(s) /\ FreeRenderer # {} /\ subRun[s] # "closed"
  /\ todo' = [todo EXCEPT !["input"] =
       << <<"clear">>, IF subRun[s] = "running" THEN <<"stream", s>> ELSE <<"snapshot">> >>]

Open(s) ==
  /\ Read /\ ~logView /\ sameSession /\ openSubagent(s)
  /\ UNCHANGED <<world, approvals, renderMu, renderer, logView, sameSession, mainTurn, screen, logs>>

clear(x) ==
  /\ At(x, "clear") /\ Then(x, <<>>)
  /\ shown' = None /\ drawn' = <<>> /\ wiped' = FALSE
  /\ UNCHANGED <<world, approvals, renderMu, views, mainTurn, stimuli, logs>>

Stream(x) ==
  /\ At(x, "stream") /\ FreeRenderer # {} /\ streamSubagentRun(Do(x)[2]) /\ Then(x, <<>>)
  /\ UNCHANGED <<world, Client, renderMu, view, epoch, logView, sameSession, mainTurn, stimuli,
                 drawn, wiped, logs>>

\* Mutant: the rebuilt main view does not draw the active approval.
showWithoutPrompt(x) ==
  /\ At(x, "show") /\ renderMu = None /\ Then(x, <<>>)
  /\ wiped' = FALSE /\ shown' = None
  /\ drawn' = IF hasRun THEN [i \in DOMAIN mainLog |-> i] ELSE <<>>
  /\ replayThrough' = IF hasRun /\ mainLog # <<>> THEN Len(mainLog) ELSE replayThrough
  /\ UNCHANGED <<world, approvals, renderMu, views, turn, mainNext, hasRun, typed, promptQueue,
                 started, stimuli, logs>>

\* The main view is rebuilt from the transcript, the events of the run so far,
\* received or not, and the active approval, all under renderMu.  The
\* transcript is taken to be read: the return on an error of ListMessages
\* (terminal.go:1284), which leaves the screen without events and prompt, is
\* left out.
showMainAgentView(x) ==
  /\ At(x, "show") /\ renderMu = None /\ Then(x, <<>>)
  /\ wiped' = FALSE
  /\ shown' = IF activeApproval \in pending THEN activeApproval ELSE None
  /\ drawn' = IF hasRun THEN [i \in DOMAIN mainLog |-> i] ELSE <<>>
  /\ replayThrough' = IF hasRun /\ mainLog # <<>> THEN Len(mainLog) ELSE replayThrough
  /\ UNCHANGED <<world, approvals, renderMu, views, turn, mainNext, hasRun, typed, promptQueue,
                 started, stimuli, logs>>

Back ==
  /\ Read /\ ~logView /\ view # Main /\ switchView(Main)
  /\ todo' = [todo EXCEPT !["input"] = << <<"show">> >>]
  /\ UNCHANGED <<world, approvals, renderMu, renderer, logView, sameSession, mainTurn, screen, logs>>

\* /close cancels the subagent's approvals and leaves its view.
closeSubagent(s) ==
  /\ Read /\ ~logView /\ sameSession /\ subRun[s] # "closed" /\ renderMu = None
  /\ subRun' = [subRun EXCEPT ![s] = "closed"]
  /\ IF view = s THEN switchView(Main) /\ todo' = [todo EXCEPT !["input"] = << <<"show">> >>]
     ELSE UNCHANGED <<view, epoch, todo>>
  /\ UNCHANGED <<truth, subLog, feed, mainLog, mainDone, busy, approvals, renderMu, renderer, logView,
                 sameSession, mainTurn, screen, logs>>

\* Ctrl+O rebuilds the view that is on the screen.
toggleReasoning ==
  /\ Read /\ ~logView
  /\ IF view = Main
     THEN todo' = [todo EXCEPT !["input"] = << <<"show">> >>] /\ UNCHANGED <<view, epoch>>
     ELSE sameSession /\ openSubagent(view)
  /\ UNCHANGED <<world, approvals, renderMu, renderer, logView, sameSession, mainTurn, screen, logs>>

NewSession ==
  /\ Read /\ ~logView /\ sameSession /\ switchView(Main) /\ sameSession' = FALSE
  /\ hasRun' = FALSE /\ replayThrough' = 0 /\ promptQueue' = <<>>
  /\ shown' = None /\ drawn' = <<>> /\ wiped' = TRUE
  /\ UNCHANGED <<world, approvals, renderMu, todo, renderer, logView, turn, mainNext, typed, started, logs>>

ClearScreen ==
  /\ Read /\ ~logView /\ shown' = None /\ drawn' = <<>> /\ wiped' = TRUE
  /\ UNCHANGED <<world, approvals, renderMu, todo, views, mainTurn, logs>>

\* Esc: the subagent on the screen if it runs, otherwise the main run.
interruptActiveView ==
  /\ Read /\ (view # Main => subRun[view] # "running")
  /\ turn # 0 /\ ~mainDone
  /\ LET open == {a \in Approval : Owner[a] = Main /\ truth[a] \in {"open", "answered"}}
     IN /\ truth' = [a \in Approval |-> IF a \in open THEN "settled" ELSE truth[a]]
        /\ mainLog' = mainLog \o SetToSeq({<<"settled", a>> : a \in open})
  /\ mainDone' = TRUE
  /\ UNCHANGED <<subRun, subLog, feed, busy, approvals, renderMu, todo, views, mainTurn, screen, logs>>

-----------------------------------------------------------------------------
(* Runtime logs: a modal view over a bounded store with a lossy channel.   *)

Newest(n) == IF n <= LogLimit THEN [i \in 1..n |-> i] ELSE [i \in 1..LogLimit |-> n - LogLimit + i]
snapshot == Newest(nextSequence)

\* A full channel loses its oldest record.
Write ==
  /\ nextSequence < MaxLogs /\ Quiet /\ Stimulus /\ nextSequence' = nextSequence + 1
  /\ updates' = Append(IF Len(updates) < UpdateLimit THEN updates ELSE Tail(updates), nextSequence')
  /\ UNCHANGED <<world, approvals, renderMu, todo, views, mainTurn, screen, logSequence, logScreen>>

\* A gap in the sequence rebuilds the log view from the store.
renderRuntimeLogEntry ==
  /\ InputIdle /\ renderMu = None /\ updates # <<>>
  /\ updates' = Tail(updates)
  /\ LET n == Head(updates)
     IN IF ~logView \/ n <= logSequence THEN UNCHANGED <<logSequence, logScreen>>
        ELSE IF n = logSequence + 1 THEN logSequence' = n /\ logScreen' = Append(logScreen, n)
        ELSE logSequence' = nextSequence /\ logScreen' = snapshot
  /\ UNCHANGED <<world, approvals, renderMu, todo, views, mainTurn, stimuli, screen, nextSequence>>

\* The view below is rebuilt when the log view closes.
toggleRuntimeLogs ==
  /\ Read /\ renderMu = None /\ logView' = ~logView
  /\ IF logView
     THEN /\ logSequence' = 0 /\ logScreen' = <<>>
          /\ IF view = Main
             THEN todo' = [todo EXCEPT !["input"] = << <<"show">> >>] /\ UNCHANGED <<view, epoch>>
             ELSE sameSession /\ openSubagent(view)
          /\ UNCHANGED screen
     ELSE /\ logSequence' = nextSequence /\ logScreen' = snapshot
          /\ shown' = None /\ drawn' = <<>> /\ wiped' = FALSE
          /\ UNCHANGED <<todo, view, epoch>>
  /\ UNCHANGED <<world, approvals, renderMu, renderer, sameSession, mainTurn, nextSequence, updates>>

-----------------------------------------------------------------------------
StepOf(x) ==
  \/ addPending(x) \/ appendApproval(x) \/ dropPending(x) \/ markApprovalComplete(x)
  \/ activateNextApproval(x) \/ activeView(x) \/ renderInView(x) \/ renderApproval(x)
  \/ renderActiveApproval(x) \/ Unlock(x) \/ AgentResolve(x) \/ clear(x) \/ Stream(x)
  \/ showMainAgentView(x)
Agent ==
  \/ \E a \in Approval : Request(a) \/ Settle(a)
  \/ \E s \in Sub : SubStarts(s)
  \/ MainText \/ MainEnds \/ Continuation
Monitor == monitorSubagentPermissions \/ monitorSubagentConfirmations
Renderer(r) == RenderRetained(r) \/ RenderPrompt(r) \/ renderSubagentRun(r)
MainLoop == runMainAgentTurn \/ EndTurn \/ dequeueMainAgentPrompt \/ renderRuntimeLogEntry
Input ==
  \/ \E k \in Kinds : Choose(k)
  \/ \E a \in Approval : ChooseID(a)
  \/ \E s \in Sub : Open(s) \/ closeSubagent(s)
  \/ Prompt \/ runSubagentTurn \/ Back \/ NewSession \/ ClearScreen
  \/ toggleReasoning \/ toggleRuntimeLogs \/ interruptActiveView

Next ==
  \/ Agent \/ Monitor \/ MainLoop \/ Input \/ Write
  \/ \E x \in Actor : StepOf(x)
  \/ \E r \in Viewer : Renderer(r)

Spec == Init /\ [][Next]_vars

-----------------------------------------------------------------------------
(* Properties.                                                             *)

Idle == \A x \in Actor : todo[x] = <<>>

TypeOK ==
  /\ pending \subseteq Approval /\ activeApproval \in Approval \cup {None}
  /\ \A i \in DOMAIN approvalOrder : approvalOrder[i] \in Approval
  /\ renderMu \in Actor \cup {None}
  /\ view \in Sub \cup {Main} /\ shown \in Approval \cup {None}
  /\ turn \in 0..typed /\ mainNext \in 1..(Len(mainLog) + 1)
  /\ Len(updates) <= UpdateLimit /\ logSequence <= nextSequence

\* No approval is lost between the goroutines that announce, complete and draw
\* approvals: when none of them is at work, an approval that waits for an
\* answer is the active one or queued behind it.
QueueAdvances ==
  Idle => \A a \in pending :
    truth[a] = "open" => activeApproval # None /\ (a = activeApproval \/ Contains(approvalOrder, a))

\* Whoever changes the view while an approval becomes active, the user sees a
\* prompt, unless the user has cleared the screen or looks at the logs.
PromptVisible ==
  Idle /\ activeApproval # None /\ ~logView /\ ~wiped
    /\ (\A r \in Viewer : renderer[r].state \in {"none", "live", "over"})
  => shown # None

MainView ==
  InView(Main) /\ hasRun /\ ~wiped /\ todo["input"] = <<>> =>
    /\ drawn = [i \in 1..Len(drawn) |-> i]
    /\ Len(drawn) >= mainNext - 1

LogView ==
  logView /\ updates = <<>> =>
    /\ logScreen = [i \in 1..Len(logScreen) |-> nextSequence - Len(logScreen) + i]
    /\ Len(logScreen) >= Len(snapshot)

\* The main view shows each event of the run once and in order, whether it was
\* drawn live or when the view was rebuilt from retained events that its
\* subscription still delivers; the log view shows the newest records in order
\* once it has read its channel, although the channel drops records.
ScreenExact == MainView /\ LogView

\* A view of its owner was left, or hidden by the log view, while it rendered
\* the subagent's events.
LeftView(a) ==
  \E r \in Viewer : renderer[r].id = Owner[a] /\ (renderer[r].epoch # epoch \/ logView)

\* Every goroutine has handled everything that was sent to it.
Quiescent ==
  /\ Idle /\ \A k \in Kinds : feed[k] = <<>>
  /\ mainNext > Len(mainLog) \/ turn = 0
  /\ \A r \in Viewer : renderer[r].state = "live" => renderer[r].next > Len(subLog[renderer[r].id])

\* A settled approval is no longer asked for once its settlement has been
\* handled, whichever view is on the screen and however the feeds, the main
\* run and the views interleave; for a subagent, unless a view that announced
\* it late was left.
SettledLeaves ==
  Quiescent => \A a \in Approval :
    truth[a] = "settled" => (a \notin pending /\ activeApproval # a) \/ LeftView(a)

-----------------------------------------------------------------------------
(***************************************************************************)
(* What the code's own words say and the code does not do.  No run checks  *)
(* these; README.md gives the constants that show each counterexample.     *)
(***************************************************************************)

\* "queueApproval serializes every main agent and subagent approval into one
\* visible prompt stream": the prompt on the screen is the one that is answered.
PromptIsActive == Idle /\ activeApproval # None /\ shown # None /\ ~logView => shown = activeApproval
=============================================================================
