---------------------------- MODULE SessionServer ----------------------------
(***************************************************************************)
(* The HTTP server's turns of one session: the FIFO above the runtime's    *)
(* single active turn, the goroutines that start a turn, watch its run and *)
(* admit the next, the cancellation of queued turns, and the forwarders    *)
(* that add response-scope, system and approval facts to the session's     *)
(* retained event stream (EventHub).  Every lock section of the server is  *)
(* one step; what a goroutine publishes after unlocking is another.        *)
(***************************************************************************)
EXTENDS EventHub, SequencesExt, FiniteSets

CONSTANTS
  Turns,         \* turns clients submit, numbered in the order they take the lock
  Continuation,  \* turns the Agent starts by itself for task results
  None,
  QueueLimit,    \* serverConfig.turnQueue
  RunEvents,     \* events of a run, RunStarted and the terminal one included
  MaxFacts,      \* bound on facts published by subagents
  Cancels,       \* turns whose clients interrupt them
  Scoped,        \* turns whose scope ends with their own run or a continuation
  StreamTurns,   \* bound on the turns of a session that clients watch
  EventfulTurns, \* bound on the turns of a session with scope ends, continuations, a shutdown
  Shuts          \* whether the server may shut down

Turn == 1..Turns
Run == Turn \cup Continuation

\* What a session's stream may hold.
SessionEvent ==
  ({"turn_queued", "turn_admitted", "turn_rejected", "turn_cancelled"} \X Turn \X {0})
  \cup ({"turn_event"} \X Turn \X (1..RunEvents))
  \cup ({"scope_event"} \X Run \X {"pre_end_scope", "end_scope"})
  \cup ({"system", "subagent_permission", "subagent_confirmation"} \X {None} \X (1..MaxFacts))

ASSUME ServerAssumption ==
  /\ Turns \in Nat /\ QueueLimit \in Nat \ {0} /\ RunEvents \in Nat \ {0} /\ MaxFacts \in Nat
  /\ Turn \cap Continuation = {} /\ None \notin Turn \cup Continuation
  /\ Cancels \subseteq Turn /\ Scoped \subseteq Turn /\ StreamTurns \in Nat /\ EventfulTurns \in Nat /\ Shuts \in BOOLEAN
  /\ SessionEvent \subseteq Event

VARIABLES
  pc,            \* [Turn -> what the goroutine responsible for the turn does next]
  resolved,      \* [Turn -> "none" | "run" | "error"]: turn.run, turn.err
  activeTurn,    \* server.activeTurns[session]
  pendingTurns,  \* server.pendingTurns[session]
  announce,      \* queued turns whose turn_queued event is not published yet
  advancer,      \* the turn whose watcher is inside advanceSession
  eventsDone,    \* turns whose runtimeEventsDone is closed
  runs,          \* [Turn \cup Continuation -> run]: the Run and its one subscriber
  active,        \* runtime.active[session]
  scope,         \* [Turn -> <<state, trigger turn>>]: the turn's response scope
  feed,          \* [Feed -> Seq(event)]: published, not yet forwarded
  facts,         \* facts published
  stop           \* server.context is done

server == <<pc, resolved, activeTurn, pendingTurns, announce, advancer, eventsDone>>
agent == <<runs, active, scope, feed, facts>>
vars == <<hub, server, agent, stop>>

Feed == {"scope", "system", "permission", "confirmation"}

newRun == [state |-> "none", emitted |-> 0, fence |-> 0, backfill |-> <<>>, queue |-> <<>>,
           subscribed |-> FALSE]

Init ==
  /\ HubInit
  /\ pc = [t \in Turn |-> "new"] /\ resolved = [t \in Turn |-> "none"]
  /\ activeTurn = None /\ pendingTurns = <<>> /\ announce = {}
  /\ advancer = None /\ eventsDone = {}
  /\ runs = [r \in Run |-> newRun] /\ active = None
  /\ scope = [t \in Turn |-> <<"open", None>>]
  /\ feed = [f \in Feed |-> <<>>] /\ facts = 0
  /\ stop = FALSE

\* Bounds: the more else happens in a session, the fewer turns it has.
Watched == \E c \in Client : deliverer[c] # "none" \/ disconnects[c] > 0
Observed == facts > 0 \/ Watched
Submitted == {t \in Turn : pc[t] # "new"}
Eventful == stop \/ (\E t \in Turn : scope[t][1] # "open") \/ \E r \in Continuation : runs[r].state # "none"
MoreTurns ==
  /\ Observed => Cardinality(Submitted) < StreamTurns
  /\ Eventful => Cardinality(Submitted) < EventfulTurns
FewTurns == Cardinality(Submitted) <= StreamTurns /\ \A r \in Continuation : runs[r].state = "none"
SomeTurns == Cardinality(Submitted) <= EventfulTurns

At(t, step) == pc' = [pc EXCEPT ![t] = step]

-----------------------------------------------------------------------------
(* The events of a session.                                                *)

newSessionLifecycleEvent(t, type) == <<type, t, 0>>
newSessionRuntimeEvent(t, n) == <<"turn_event", t, n>>
newSessionScopeEvent(e) == <<"scope_event", e[2], e[1]>>

-----------------------------------------------------------------------------
(* The Run as its subscriber sees it.                                      *)

Done(r) == runs[r].state \in {"done", "finished"}
Over(r) == Done(r) \/ runs[r].state = "terminal"

\* transition: RunStarted is committed before Start returns, the terminal
\* event before its effects are done.
transition(r) ==
  /\ runs[r].state = "live"
  /\ LET n == runs[r].emitted + 1
     IN runs' = [runs EXCEPT
          ![r].emitted = n,
          ![r].state = IF n = RunEvents THEN "terminal" ELSE "live",
          ![r].queue = IF runs[r].subscribed THEN Append(@, n) ELSE @]
  /\ UNCHANGED <<hub, server, active, scope, feed, facts, stop>>

\* markEffectsDone exposes Done and closes the subscribers; unregister frees
\* the session afterwards.
markEffectsDone(r) ==
  /\ runs[r].state = "terminal"
  /\ runs' = [runs EXCEPT ![r].state = "done"]
  /\ UNCHANGED <<hub, server, active, scope, feed, facts, stop>>

unregister(r) ==
  /\ runs[r].state = "done"
  /\ runs' = [runs EXCEPT ![r].state = "finished"]
  /\ active' = IF active = r THEN None ELSE active
  /\ UNCHANGED <<hub, server, scope, feed, facts, stop>>

\* Subscribe returns the cursor of the last retained event and registers a
\* queue for later ones, under one lock.
Subscribe(r) == [runs[r] EXCEPT !.fence = runs[r].emitted, !.subscribed = TRUE]

EventsBetween(after, through) == [i \in 1..(through - after) |-> after + i]

Retained(t) == EventsBetween(0, runs[t].fence)

\* The subscription's channel is closed: the run is done (already terminal
\* when Subscribe was called, or its effects done) and the queue is drained,
\* or the server's context is done.
Closed(t) ==
  \/ runs[t].queue = <<>> /\ (Done(t) \/ runs[t].fence = RunEvents)
  \/ stop

-----------------------------------------------------------------------------
(* Turns.                                                                  *)

QueueFull == Len(pendingTurns) >= QueueLimit

\* The duplicate check, the queue limit and the choice between starting and
\* queueing are one lock section.
submitTurn(t) ==
  /\ pc[t] = "new" /\ 1..(t - 1) \subseteq Submitted /\ MoreTurns
  /\ \/ /\ activeTurn = None
        /\ activeTurn' = t /\ At(t, "admit")
        /\ UNCHANGED <<pendingTurns, announce>>
     \/ /\ activeTurn # None /\ ~QueueFull
        /\ pendingTurns' = Append(pendingTurns, t)
        /\ announce' = announce \cup {t} /\ At(t, "queued")
        /\ UNCHANGED activeTurn
     \/ /\ activeTurn # None /\ QueueFull
        /\ At(t, "refused")
        /\ UNCHANGED <<activeTurn, pendingTurns, announce>>
  /\ UNCHANGED <<hub, resolved, advancer, eventsDone, agent, stop>>

\* submitTurn after the unlock.
AnnounceQueued(t) ==
  /\ t \in announce
  /\ publish(newSessionLifecycleEvent(t, "turn_queued"))
  /\ announce' = announce \ {t}
  /\ UNCHANGED <<pc, resolved, activeTurn, pendingTurns, advancer, eventsDone, agent, stop>>

\* submitTurn and advanceSession announce the turn they have made active.
AnnounceAdmitted(t) ==
  /\ pc[t] = "admit"
  /\ publish(newSessionLifecycleEvent(t, "turn_admitted"))
  /\ At(t, "start")
  /\ UNCHANGED <<resolved, activeTurn, pendingTurns, announce, advancer, eventsDone, agent, stop>>

\* The stack of advanceSession unwinds, and the deferred function of the
\* watcher at its bottom closes runtimeEventsDone.
Unwind ==
  /\ eventsDone' = IF advancer = None THEN eventsDone ELSE eventsDone \cup {advancer}
  /\ advancer' = None

\* Agent.Start.  The runtime waits for a run that is done and not yet
\* unregistered, and refuses while one is not done; a stopped server's context
\* fails the lookup of the turn.
startAcceptedTurn(t) ==
  /\ pc[t] = "start"
  /\ \/ /\ active = None /\ ~stop
        /\ active' = t
        /\ runs' = [runs EXCEPT ![t].state = IF RunEvents = 1 THEN "terminal" ELSE "live",
                                ![t].emitted = 1]
        /\ resolved' = [resolved EXCEPT ![t] = "run"] /\ At(t, "watch")
        /\ Unwind
     \/ /\ stop \/ (active # None /\ ~Done(active))
        /\ resolved' = [resolved EXCEPT ![t] = "error"] /\ At(t, "reject")
        /\ UNCHANGED <<active, runs, eventsDone, advancer>>
  /\ UNCHANGED <<hub, activeTurn, pendingTurns, announce, scope, feed, facts, stop>>

\* startAcceptedTurn after Agent.Start has failed.
AnnounceRejected(t) ==
  /\ pc[t] = "reject"
  /\ publish(newSessionLifecycleEvent(t, "turn_rejected"))
  /\ At(t, "advance")
  /\ UNCHANGED <<resolved, activeTurn, pendingTurns, announce, advancer, eventsDone, agent, stop>>

\* watchAcceptedTurn subscribes, reads history up to its cursor, publishes
\* that and then what the subscription delivers.
WatchSubscribe(t) ==
  /\ pc[t] = "watch"
  /\ runs' = [runs EXCEPT ![t] = Subscribe(t)] /\ At(t, "replay")
  /\ UNCHANGED <<hub, resolved, activeTurn, pendingTurns, announce, advancer, eventsDone,
                 active, scope, feed, facts, stop>>

WatchReplay(t) ==
  /\ pc[t] = "replay"
  /\ runs' = [runs EXCEPT ![t].backfill = Retained(t)] /\ At(t, "forward")
  /\ UNCHANGED <<hub, resolved, activeTurn, pendingTurns, announce, advancer, eventsDone,
                 active, scope, feed, facts, stop>>

watchAcceptedTurn(t) ==
  /\ pc[t] = "forward"
  /\ \/ /\ runs[t].backfill # <<>>
        /\ publish(newSessionRuntimeEvent(t, Head(runs[t].backfill)))
        /\ runs' = [runs EXCEPT ![t].backfill = Tail(@)]
        /\ UNCHANGED <<pc, advancer>>
     \/ /\ runs[t].backfill = <<>> /\ runs[t].queue # <<>>
        /\ publish(newSessionRuntimeEvent(t, Head(runs[t].queue)))
        /\ runs' = [runs EXCEPT ![t].queue = Tail(@)]
        /\ UNCHANGED <<pc, advancer>>
     \/ /\ runs[t].backfill = <<>> /\ Closed(t)
        /\ At(t, "advance") /\ advancer' = t
        /\ UNCHANGED <<hub, runs>>
  /\ UNCHANGED <<resolved, activeTurn, pendingTurns, announce, eventsDone, active, scope,
                 feed, facts, stop>>

\* The first pending turn that is not resolved; the ones before it are dropped.
Candidates == {i \in DOMAIN pendingTurns : resolved[pendingTurns[i]] = "none"}
FirstCandidate == IF Candidates = {} THEN 0 ELSE Min(Candidates)

\* Mutant: a stopped server leaves its queued turns unresolved.
LeftUnresolved == resolved

ResolvedAtStop ==
  [u \in Turn |-> IF Contains(pendingTurns, u) /\ resolved[u] = "none" THEN "error" ELSE resolved[u]]

\* One lock section of advanceSession by the goroutine of turn t.
advanceSession(t) ==
  /\ pc[t] = "advance"
  /\ IF activeTurn # t
     THEN At(t, "over") /\ Unwind /\ UNCHANGED <<activeTurn, pendingTurns, resolved>>
     ELSE IF stop
     THEN /\ activeTurn' = None /\ pendingTurns' = <<>>
          /\ resolved' = ResolvedAtStop
          /\ pc' = [u \in Turn |-> IF u = t \/ Contains(pendingTurns, u) THEN "over" ELSE pc[u]]
          /\ Unwind
     ELSE IF FirstCandidate = 0
     THEN /\ activeTurn' = None /\ pendingTurns' = <<>> /\ At(t, "over") /\ Unwind
          /\ UNCHANGED resolved
     ELSE /\ activeTurn' = pendingTurns[FirstCandidate]
          /\ pendingTurns' = SubSeq(pendingTurns, FirstCandidate + 1, Len(pendingTurns))
          /\ pc' = [pc EXCEPT ![t] = "over", ![pendingTurns[FirstCandidate]] = "admit"]
          /\ UNCHANGED <<resolved, advancer, eventsDone>>
  /\ UNCHANGED <<hub, announce, agent, stop>>

\* interruptTurn on a turn that is still queued: it leaves the queue under the
\* lock and is resolved and announced afterwards.  On an active turn the
\* request goes to its run, or is refused until the run exists.
cancelQueuedTurn(t) ==
  /\ t \in Cancels /\ activeTurn # t
  /\ \E i \in DOMAIN pendingTurns : pendingTurns[i] = t /\ pendingTurns' = RemoveAt(pendingTurns, i)
  /\ At(t, "cancel")
  /\ UNCHANGED <<hub, resolved, activeTurn, announce, advancer, eventsDone, agent, stop>>

AnnounceCancelled(t) ==
  /\ pc[t] = "cancel"
  /\ resolved' = [resolved EXCEPT ![t] = IF @ = "none" THEN "error" ELSE @]
  /\ publish(newSessionLifecycleEvent(t, "turn_cancelled"))
  /\ At(t, "over")
  /\ UNCHANGED <<activeTurn, pendingTurns, announce, advancer, eventsDone, agent, stop>>

-----------------------------------------------------------------------------
(* The Agent and its facts.                                                *)

\* Each feed is a queue under a lock, a goroutine and a channel: a FIFO.
Enqueue(f, e) == feed' = [feed EXCEPT ![f] = Append(@, e)]

\* A task result that finds the session idle starts a turn the server does not
\* know, in the scope of the turn that started the task.
startContinuation(r) ==
  /\ SomeTurns /\ ~Observed /\ ~stop
  /\ runs[r].state = "none" /\ active = None
  /\ \E t \in Turn : Done(t) /\ scope[t] = <<"open", None>>
  /\ runs' = [runs EXCEPT ![r].state = "live"] /\ active' = r
  /\ UNCHANGED <<hub, server, scope, feed, facts, stop>>

\* The scope of t is quiescent when the Agent's subscription to run r closes
\* (at once, if it was made after the terminal event): PreEndScope and, after
\* the cleanup, EndScope.
PreEndScope(t, r) ==
  /\ SomeTurns /\ t \in Scoped /\ scope[t] = <<"open", None>> /\ Over(t) /\ Over(r)
  /\ r = t \/ r \in Continuation
  /\ \A k \in Continuation : runs[k].state # "live"
  /\ scope' = [scope EXCEPT ![t] = <<"ending", r>>]
  /\ Enqueue("scope", <<"pre_end_scope", r>>)
  /\ UNCHANGED <<hub, server, runs, active, facts, stop>>

EndScope(t) ==
  /\ scope[t][1] = "ending"
  /\ scope' = [scope EXCEPT ![t] = <<"ended", @[2]>>]
  /\ Enqueue("scope", <<"end_scope", scope[t][2]>>)
  /\ UNCHANGED <<hub, server, runs, active, facts, stop>>

Fact(f) ==
  /\ facts < MaxFacts /\ FewTurns /\ ~Watched /\ facts' = facts + 1
  /\ Enqueue(f, facts + 1)
  /\ UNCHANGED <<hub, server, runs, active, scope, stop>>

publishSystemEvent == Fact("system")
publishPermission == Fact("permission")
publishConfirmation == Fact("confirmation")

deliverSystemEvents == Head(feed["system"])
deliverPermissions == Head(feed["permission"])
deliverConfirmations == Head(feed["confirmation"])
deliverScopeEvents == Head(feed["scope"])

\* A forwarder publishes the facts of its feed to the session; all of them
\* end when the server's context is done.
Forward(f, e) ==
  /\ feed[f] # <<>>
  /\ publish(e)
  /\ feed' = [feed EXCEPT ![f] = Tail(@)]
  /\ UNCHANGED <<server, runs, active, scope, facts, stop>>

forwardSystemEvents == Forward("system", <<"system", None, deliverSystemEvents>>)
forwardSubagentPermissions == Forward("permission", <<"subagent_permission", None, deliverPermissions>>)
forwardSubagentConfirmations ==
  Forward("confirmation", <<"subagent_confirmation", None, deliverConfirmations>>)

\* Mutant: a scope event does not wait for the events of its trigger turn.
waitForNothing(e) == TRUE

\* A turn the server has never accepted is not waited for.
waitForTriggerTurnEvents(e) == e[2] \in Turn => e[2] \in eventsDone

forwardScopeEvents ==
  /\ feed["scope"] # <<>> /\ waitForTriggerTurnEvents(deliverScopeEvents)
  /\ Forward("scope", newSessionScopeEvent(deliverScopeEvents))

Shutdown ==
  /\ Shuts /\ SomeTurns /\ ~stop /\ stop' = TRUE
  /\ UNCHANGED <<hub, server, agent>>

\* NewServer's goroutine closes the hub some time after the context is done.
CloseHub == stop /\ close /\ UNCHANGED <<server, agent, stop>>

-----------------------------------------------------------------------------
Announce(t) ==
  AnnounceQueued(t) \/ AnnounceAdmitted(t) \/ AnnounceRejected(t) \/ AnnounceCancelled(t)
Watch(t) == WatchSubscribe(t) \/ WatchReplay(t) \/ watchAcceptedTurn(t) \/ advanceSession(t)
RunStep(r) == transition(r) \/ markEffectsDone(r) \/ unregister(r)
Forwarders ==
  forwardScopeEvents \/ forwardSystemEvents \/ forwardSubagentPermissions \/ forwardSubagentConfirmations
Facts == publishSystemEvent \/ publishPermission \/ publishConfirmation

Next ==
  \/ \E t \in Turn : submitTurn(t) \/ cancelQueuedTurn(t) \/ startAcceptedTurn(t) \/ Announce(t) \/ Watch(t)
  \/ \E r \in Run : RunStep(r)
  \/ \E r \in Continuation : startContinuation(r)
  \/ \E t \in Turn, r \in Run : PreEndScope(t, r)
  \/ \E t \in Turn : EndScope(t)
  \/ Facts \/ Forwarders \/ Shutdown \/ CloseHub
  \/ \E c \in Client : FewTurns /\ facts = 0 /\ Stream(c) /\ UNCHANGED <<server, agent, stop>>

Spec == Init /\ [][Next]_vars

\* Goroutines that can run do run, runs end, and clients come back and read.
\* Nothing obliges a client to submit, cancel or drop a connection, a task to
\* finish, or the server to stop.
FairSpec ==
  /\ Spec
  /\ \A t \in Turn : WF_vars(Announce(t)) /\ WF_vars(startAcceptedTurn(t)) /\ WF_vars(Watch(t))
  /\ \A r \in Run : WF_vars(RunStep(r))
  /\ WF_vars(Forwarders) /\ WF_vars(CloseHub)
  /\ \A c \in Client :
       WF_vars((subscribe(c) \/ deliver(c) \/ wake(c) \/ streamSessionEvents(c)) /\ FewTurns /\ facts = 0
               /\ UNCHANGED <<server, agent, stop>>)

-----------------------------------------------------------------------------
(* Properties.                                                             *)

Published(type, t) == {i \in DOMAIN events : events[i][1] = type /\ events[i][2] = t}

TypeOK ==
  /\ pc \in [Turn -> {"new", "queued", "refused", "admit", "start", "reject", "watch", "replay",
                      "forward", "advance", "cancel", "over"}]
  /\ resolved \in [Turn -> {"none", "run", "error"}]
  /\ activeTurn \in Turn \cup {None} /\ advancer \in Turn \cup {None}
  /\ IsInjective(pendingTurns) /\ Len(pendingTurns) <= QueueLimit
  /\ announce \subseteq Turn /\ eventsDone \subseteq Turn
  /\ active \in Run \cup {None}
  /\ facts \in 0..MaxFacts /\ stop \in BOOLEAN

\* The stream holds a turn's run events in order and without repetition, after
\* its admission, turns in the order the server accepted them, and a scope's
\* end only after every event of the turn that ended it, unless the server
\* stopped before.
RunEventsInOrder ==
  \A t \in Turn :
    LET E == Published("turn_event", t)
        S == Published("scope_event", t)
    IN /\ \A i, j \in E : i < j => events[i][3] < events[j][3]
       /\ \A i \in E : \E a \in Published("turn_admitted", t) : a < i
       /\ \A i \in E, j \in S : i < j
       /\ S # {} /\ ~stop => Cardinality(E) = RunEvents
       /\ \A u \in Turn : t < u =>
            \A x \in Published("turn_admitted", t), y \in Published("turn_admitted", u) : x < y

\* Every accepted turn gets its run or its error, whoever cancels it and
\* whenever the server stops.
TurnResolved == \A t \in Turn : pc[t] # "new" /\ pc[t] # "refused" ~> resolved[t] # "none"

\* A client that stays connected or comes back renders everything the session
\* retains, while the server runs.
ClientCatchesUp == \A c \in Client : <>[](stop \/ ~FewTurns \/ facts > 0 \/ seen[c] = [i \in DOMAIN events |-> i])

-----------------------------------------------------------------------------
(***************************************************************************)
(* What the code's own words say and the code does not do.  No run checks  *)
(* these; README.md gives the constants that show each counterexample.     *)
(***************************************************************************)

\* runtime.go: "Wait for that small lifecycle boundary so a caller can safely
\* start the next turn as soon as its subscription closes without racing
\* ErrTurnInProgress or transcript ordering."  A queued turn is not rejected
\* while the server runs and no continuation is in its way.
QueuedTurnStarts == \A t \in Turn : Published("turn_rejected", t) # {} => stop \/ active \in Continuation
=============================================================================
