--------------------------- MODULE ToolAdmission ----------------------------
(***************************************************************************)
(* From a dispatched tool call to its result: the loop of Executor.Run,    *)
(* its workers, the permission and confirmation prompts it exchanges with  *)
(* the runtime through channels, the decision stores, and the runtime's    *)
(* routing of prompts, decisions, expiries and results.                    *)
(*                                                                         *)
(* Permissions and confirmations go through code of the same shape; a      *)
(* prompt is a kind and a call, and its ID is fresh for each.  The runs    *)
(* are here only what the runtime sees of them: when a session's run is    *)
(* active, what it dispatches, what is queued for it and when it ends.     *)
(***************************************************************************)
EXTENDS Permission, FiniteSets, SequencesExt

CONSTANTS
  Turn,
  SessionOf,      \* [Turn -> session]
  Rounds,         \* [Turn -> Seq(Seq(call))]: the tool rounds of the turn's run
  Needs,          \* [Call -> [actions, risk]]: what its descriptor asks for
  Confirms,       \* calls whose tool has a confirmation
  Loads,          \* calls of load_skill ...
  NeedsSkill,     \* ... and calls of tools that require the skill
  Limited,        \* calls of a tool with a response scope call limit ...
  Limit,          \* ... and that limit
  EndTools,       \* calls of EndResponseScope tools
  Guarded,        \* calls of tools with a tool-call guard
  Rules,          \* the policy's explicit rules
  FirstMode, LaterModes,  \* modes the agent starts in and may switch to
  MaxModeChanges, \* bound on switches
  NonInteractive, HasProject,
  Workers,        \* workerCount
  Resolver,       \* concurrent callers of ResolvePermission and -Confirmation
  Answers,        \* answers they may give, as the code names them
  Expiring,       \* kinds of prompts with a timeout
  Interruptible,  \* turns that may be interrupted
  Faults          \* subset of {"prompt", "descriptor", "forward", "stop"}:
                  \* failures that may happen

Kinds == {"permission", "confirmation"}
Call == DOMAIN Needs
RoundCalls(t, n) == Items(Rounds[t][n])
CallsOf(t) == UNION {RoundCalls(t, n) : n \in DOMAIN Rounds[t]}
TurnOf(c) == CHOOSE t \in Turn : c \in CallsOf(t)
Session(c) == SessionOf[TurnOf(c)]
Verdict == [allow_once |-> "allowed", allow_session |-> "allowed",
            allow_project |-> "allowed", deny |-> "denied",
            yes |-> "confirmed", no |-> "declined"]
PermissionAnswers == {"allow_once", "allow_session", "allow_project", "deny"}
ConfirmationAnswers == {"yes", "no"}

ASSUME ConstantsAssumption ==
  /\ DOMAIN SessionOf = Turn /\ DOMAIN Rounds = Turn
  /\ UNION {CallsOf(t) : t \in Turn} = Call /\ IsFiniteSet(Call)
  /\ \A c \in Call : Needs[c].actions \in Seq(STRING)
  /\ Workers \in Nat \ {0} /\ Limit \in Nat \ {0} /\ MaxModeChanges \in Nat
  /\ FirstMode \in Modes /\ LaterModes \subseteq Modes
  /\ Answers \subseteq PermissionAnswers \cup ConfirmationAnswers
  /\ Expiring \subseteq Kinds /\ Interruptible \subseteq Turn

\* A call is one request of one run: it has a place in one round of one turn.
ASSUME RoundsAssumption ==
  /\ \A t \in Turn : Rounds[t] \in Seq(Seq(Call))
  /\ \A t, u \in Turn : \A n \in DOMAIN Rounds[t], m \in DOMAIN Rounds[u] :
       \A i \in DOMAIN Rounds[t][n], j \in DOMAIN Rounds[u][m] :
         Rounds[t][n][i] = Rounds[u][m][j] => t = u /\ n = m /\ i = j

VARIABLES
  \* channels between the runtime and the executor
  requests, interrupts, results,
  prompts,        \* [Kinds -> Seq(Call)]: PermissionRequests, ConfirmationRequests
  decisions,      \* [Kinds -> Seq of decisions]
  \* the executor
  policy,         \* the controller's snapshot: [mode, epoch]
  admission,      \* [Call -> the snapshot taken when the call was received]
  deferred,       \* deferredApprovals: [call, ask] in the order received
  pending,        \* [Kinds -> set of calls]: pendingPermissions, -Confirmations
  grants,
  toolCalls,      \* calls of the limited tool the response scope has granted
  job,            \* [Call -> place of its workerJob]
  pendingJobs,    \* jobs no worker has taken
  cancelled,      \* calls whose context is cancelled
  record,         \* [Kinds -> [Call -> state in the decision store]]
  stopped,        \* Executor.Run has returned
  ready,          \* ReadyToEnd of the calls' response scope
  \* the runtime
  run,            \* [Turn -> "idle" | "active" | "closing" | "ended"]
  round,          \* [Turn -> rounds dispatched]
  routed,         \* [Kinds -> [Call -> "none" | "pending" | "forwarding" |
                  \*            "resolved" | "expired"]]
  held,           \* [Kinds -> [Call -> statuses held for the prompt]]
  delivered,      \* [Call -> statuses queued for the run]
  resolver,       \* [Resolver -> progress of a Resolve call]
  \* the clock and the past
  due,            \* [Kinds -> set of calls whose prompt's time is over]
  ran,            \* calls whose handler has run
  taken,          \* turns whose interrupt the executor has taken ...
  late            \* ... and calls of theirs that it received afterwards

channels == <<requests, interrupts, results, prompts, decisions>>
approvals == <<deferred, pending, grants, record>>
jobs == <<job, pendingJobs, cancelled, stopped>>
runtime == <<run, round, routed, held, delivered, resolver>>
past == <<due, ran, taken, late>>
vars == <<channels, policy, admission, approvals, toolCalls, jobs, ready,
          runtime, past>>

Result(c, status) == [call |-> c, status |-> status]

Init ==
  /\ requests = <<>> /\ interrupts = <<>> /\ results = <<>>
  /\ prompts = [k \in Kinds |-> <<>>]
  /\ decisions = [k \in Kinds |-> <<>>]
  /\ policy = [mode |-> FirstMode, epoch |-> 1]
  /\ admission = [c \in Call |-> policy]
  /\ deferred = <<>>
  /\ pending = [k \in Kinds |-> {}]
  /\ grants = {}
  /\ toolCalls = 0
  /\ job = [c \in Call |-> "none"]
  /\ pendingJobs = <<>>
  /\ cancelled = {}
  /\ record = [k \in Kinds |-> [c \in Call |-> "none"]]
  /\ ready = FALSE
  /\ stopped = FALSE
  /\ run = [t \in Turn |-> "idle"]
  /\ round = [t \in Turn |-> 0]
  /\ routed = [k \in Kinds |-> [c \in Call |-> "none"]]
  /\ held = [k \in Kinds |-> [c \in Call |-> <<>>]]
  /\ delivered = [c \in Call |-> <<>>]
  /\ resolver = [r \in Resolver |-> [at |-> "idle"]]
  /\ due = [k \in Kinds |-> {}]
  /\ ran = {} /\ taken = {} /\ late = {}

-----------------------------------------------------------------------------
(* The executor: answers, jobs and prompts *)

Send(c, status) == results' = Append(results, Result(c, status))

\* A call leaves admission for a worker, with a context of its own, ...
newJob(c) ==
  /\ job' = [job EXCEPT ![c] = "queued"]
  /\ pendingJobs' = Append(pendingJobs, c)
  /\ UNCHANGED <<results, prompts>>

\* ... or with an answer.
Answer(c, status) == Send(c, status) /\ UNCHANGED <<job, pendingJobs, prompts>>

\* A prompt is stored and published, and the call waits for its decision.  If
\* storing or publishing fails, the record is cancelled and the call answered.
\* rec and pend are the store and the waiting calls before that.
Publish(kind, c, refusal, rec, pend) ==
  \/ /\ record' = [rec EXCEPT ![kind][c] = "pending"]
     /\ pending' = [pend EXCEPT ![kind] = @ \cup {c}]
     /\ prompts' = [prompts EXCEPT ![kind] = Append(@, c)]
     /\ UNCHANGED <<results, job, pendingJobs>>
  \/ /\ "prompt" \in Faults
     /\ record' = [rec EXCEPT ![kind][c] = "cancelled"]
     /\ pending' = pend
     /\ Answer(c, refusal)

admitConfirmation(c, rec, pend) ==
  \/ /\ c \notin Confirms
     /\ newJob(c) /\ record' = rec /\ pending' = pend
  \/ /\ c \in Confirms /\ NonInteractive
     /\ Answer(c, "declined") /\ record' = rec /\ pending' = pend
  \/ /\ c \in Confirms /\ ~NonInteractive
     /\ Publish("confirmation", c, "failed", rec, pend)

\* What the policy snapshot of the call's admission, the grants so far and
\* non-interactive mode say of its permission.
Outcome(c, snapshot) ==
  LET asked == IF hasGrant(grants, Session(c), Needs[c].actions, HasProject)
               THEN "allow"
               ELSE Evaluate(Needs[c], [mode |-> snapshot.mode, rules |-> Rules])
  IN IF Needs[c].actions = <<>> THEN "allow"
     ELSE IF NonInteractive /\ asked = "ask" THEN "deny" ELSE asked

-----------------------------------------------------------------------------
(* The executor's loop *)

approvalPendingForSession(s) ==
  \E k \in Kinds : \E c \in pending[k] : Session(c) = s

Admissible(i) == ~approvalPendingForSession(Session(deferred[i].call))

\* Deferred approvals are admitted before the loop waits for anything else.
Settled == ~stopped /\ \A i \in 1..Len(deferred) : ~Admissible(i)

\* The first deferred call whose session has no prompt.  It is evaluated
\* again, as an earlier decision may have brought a grant.
admitDeferredApproval ==
  \E i \in 1..Len(deferred) :
    /\ ~stopped /\ Admissible(i) /\ \A j \in 1..(i - 1) : ~Admissible(j)
    /\ deferred' = RemoveAt(deferred, i)
    /\ LET c == deferred[i].call
           outcome == IF deferred[i].ask THEN Outcome(c, admission[c]) ELSE "allow"
       IN \/ /\ outcome = "deny"
             /\ Answer(c, "denied") /\ UNCHANGED <<record, pending>>
          \/ /\ outcome = "ask"
             /\ Publish("permission", c, "denied", record, pending)
          \/ outcome = "allow" /\ admitConfirmation(c, record, pending)
    /\ UNCHANGED <<requests, interrupts, decisions, policy, admission, grants,
                   toolCalls, cancelled, ready, stopped, runtime, past>>

\* ReserveToolCall: the response scope's budget for the tool is used up.
Refused(c) == c \in Limited /\ toolCalls >= Limit

\* An EndResponseScope call that comes too early will not run its handler, so
\* nobody is asked about it.
Early(c) == c \in EndTools /\ ~ready

\* missingRequiredSkills looks in the stored messages for a successful
\* load_skill of the turn; a round is stored when all its results are there.
SkillsMissing(c) ==
  /\ c \in NeedsSkill
  /\ ~\E n \in 1..(round[TurnOf(c)] - 1) :
        \E l \in RoundCalls(TurnOf(c), n) \cap Loads : "succeeded" \in Items(delivered[l])

\* A received call is answered at once, queued for the workers or deferred.
ReceiveRequest ==
  /\ Settled /\ requests # <<>>
  /\ requests' = Tail(requests)
  /\ LET c == Head(requests)
         outcome == Outcome(c, policy)
         budgeted == ~SkillsMissing(c) /\ ~Refused(c)
         described == budgeted /\ ~Early(c)
         defer == outcome = "ask" \/ (outcome = "allow" /\ c \in Confirms)
     IN /\ admission' = [admission EXCEPT ![c] = policy]
        /\ late' = late \cup ({c} \cap UNION {CallsOf(t) : t \in taken})
        /\ toolCalls' = IF budgeted /\ c \in Limited THEN toolCalls + 1 ELSE toolCalls
        /\ \/ SkillsMissing(c) /\ Answer(c, "blocked") /\ UNCHANGED deferred
           \/ ~SkillsMissing(c) /\ Refused(c) /\ Answer(c, "skipped") /\ UNCHANGED deferred
           \/ budgeted /\ Early(c) /\ newJob(c) /\ UNCHANGED deferred
           \/ /\ described /\ "descriptor" \in Faults
              /\ Answer(c, "failed") /\ UNCHANGED deferred
           \/ described /\ outcome = "deny" /\ Answer(c, "denied") /\ UNCHANGED deferred
           \/ /\ described /\ outcome = "allow" /\ c \notin Confirms
              /\ newJob(c) /\ UNCHANGED deferred
           \/ /\ described /\ defer
              /\ deferred' = Append(deferred, [call |-> c, ask |-> outcome = "ask"])
              /\ UNCHANGED <<results, job, pendingJobs, prompts>>
  /\ UNCHANGED <<interrupts, decisions, policy, pending, record, grants,
                 cancelled, ready, stopped, runtime, due, ran, taken>>

\* The decision at the head of a channel, and whether its prompt still waits.
Decision(kind) == Head(decisions[kind])

Waits(kind) ==
  LET c == Decision(kind).call
  IN c \in pending[kind] /\ record[kind][c] = "pending"

resolvedRecord(kind) ==
  [record EXCEPT ![kind][Decision(kind).call] = Verdict[Decision(kind).answer]]
resolvedPending(kind) == [pending EXCEPT ![kind] = @ \ {Decision(kind).call}]

decisionTaken(kind) ==
  /\ Settled /\ decisions[kind] # <<>>
  /\ decisions' = [decisions EXCEPT ![kind] = Tail(@)]
  /\ UNCHANGED <<requests, interrupts, policy, admission, deferred, toolCalls,
                 cancelled, ready, stopped, runtime, past>>

\* A decision without its prompt is ignored.  A refusal answers the call; a
\* permission for the session or project is remembered, and the call goes on
\* to its confirmation.
DecidePermission ==
  LET d == Decision("permission")
      grant == [scope |-> d.answer, session |-> Session(d.call),
                actions |-> Needs[d.call].actions]
  IN /\ decisionTaken("permission")
     /\ \/ /\ ~Waits("permission")
           /\ UNCHANGED <<results, job, pendingJobs, prompts, record, pending, grants>>
        \/ /\ Waits("permission") /\ d.answer = "deny"
           /\ record' = resolvedRecord("permission")
           /\ pending' = resolvedPending("permission")
           /\ Answer(d.call, "denied")
           /\ UNCHANGED grants
        \/ /\ Waits("permission") /\ d.answer # "deny"
           /\ grants' = grants \cup (IF d.answer = "allow_once" THEN {} ELSE {grant})
           /\ admitConfirmation(d.call, resolvedRecord("permission"),
                                resolvedPending("permission"))

DecideConfirmation ==
  LET d == Decision("confirmation")
  IN /\ decisionTaken("confirmation")
     /\ \/ /\ ~Waits("confirmation")
           /\ UNCHANGED <<results, job, pendingJobs, prompts, record, pending>>
        \/ /\ Waits("confirmation")
           /\ record' = resolvedRecord("confirmation")
           /\ pending' = resolvedPending("confirmation")
           /\ IF d.answer = "yes" THEN newJob(d.call) ELSE Answer(d.call, "declined")
     /\ UNCHANGED grants

\* Several answers, in any order: the loop ranges over a map.
AnswerAll(calls, status) ==
  /\ \E order \in {s \in [1..Cardinality(calls) -> calls] : Items(s) = calls} :
       results' = results \o [i \in DOMAIN order |-> Result(order[i], status)]
  /\ UNCHANGED <<job, pendingJobs, prompts>>

Withdraw(kind, calls, state) ==
  /\ record' = [record EXCEPT ![kind] =
       [c \in Call |-> IF c \in calls /\ @[c] = "pending" THEN state ELSE @[c]]]
  /\ pending' = [pending EXCEPT ![kind] = @ \ calls]

loopOnly == <<requests, decisions, policy, admission, grants, toolCalls, ready,
              stopped, runtime, due, ran, late>>

RefusalOf(kind) == IF kind = "permission" THEN "denied" ELSE "declined"

\* A timer of the executor went off: the store expires every prompt whose
\* time is over, and the calls that waited for them are answered.
ExpirePrompts(kind) ==
  LET over == {c \in due[kind] : record[kind][c] = "pending"}
  IN /\ Settled /\ over # {}
     /\ Withdraw(kind, over, "expired")
     /\ AnswerAll(over \cap pending[kind], RefusalOf(kind))
     /\ UNCHANGED <<interrupts, deferred, cancelled, taken, loopOnly>>

Active(c) == job[c] \in {"queued", "checked", "ending", "handling"}

\* Mutant: only calls that have reached a worker are interrupted.
InterruptJobsOnly ==
  /\ Settled /\ interrupts # <<>>
  /\ interrupts' = Tail(interrupts)
  /\ taken' = taken \cup {Head(interrupts)}
  /\ cancelled' = cancelled \cup {c \in CallsOf(Head(interrupts)) : Active(c)}
  /\ UNCHANGED <<deferred, pending, record, results, job, pendingJobs, prompts,
                 loopOnly>>

\* An interrupt cancels the turn's jobs and forgets its prompts and deferred
\* calls; the run answers for them.
InterruptTurn ==
  /\ Settled /\ interrupts # <<>>
  /\ interrupts' = Tail(interrupts)
  /\ taken' = taken \cup {Head(interrupts)}
  /\ LET calls == CallsOf(Head(interrupts))
         kept == {i \in DOMAIN deferred : deferred[i].call \notin calls}
         withdrawn(kind, c) == c \in calls /\ record[kind][c] = "pending"
     IN /\ cancelled' = cancelled \cup {c \in calls : Active(c)}
        /\ record' = [k \in Kinds |-> [c \in Call |->
                        IF withdrawn(k, c) THEN "cancelled" ELSE record[k][c]]]
        /\ pending' = [k \in Kinds |-> pending[k] \ calls]
        /\ \E order \in [1..Cardinality(kept) -> kept] :
             /\ \A i, j \in DOMAIN order : i < j => order[i] < order[j]
             /\ deferred' = [i \in DOMAIN order |-> deferred[order[i]]]
  /\ UNCHANGED <<results, job, pendingJobs, prompts, loopOnly>>

\* The executor's context ends: waiting calls are dropped, as are jobs that
\* are not in the workers' channel yet, and all jobs are cancelled.
\* Confirmations are cancelled in their store, permissions are not.
Shutdown ==
  /\ ~stopped /\ "stop" \in Faults
  /\ stopped' = TRUE
  /\ record' = [record EXCEPT !["confirmation"] =
       [c \in Call |-> IF c \in pending["confirmation"] THEN "cancelled" ELSE @[c]]]
  /\ pending' = [k \in Kinds |-> {}]
  /\ deferred' = <<>>
  /\ cancelled' = cancelled \cup {c \in Call : Active(c)}
  /\ \E n \in 0..Len(pendingJobs) :
       n <= Workers /\ pendingJobs' = SubSeq(pendingJobs, 1, n)
  /\ UNCHANGED <<channels, policy, admission, grants, toolCalls, job, ready,
                 runtime, past>>

-----------------------------------------------------------------------------
(* The workers *)

workerOnly == <<requests, interrupts, prompts, decisions, policy, admission,
                approvals, toolCalls, cancelled, ready, stopped, runtime, due, taken, late>>

\* Mutant: the mode is compared instead of the epoch.
isCurrentMode(c) == TRUE

\* isCurrent compares epochs, so that a mode and back again is a change.
isCurrent(c) == admission[c].epoch = policy.epoch

Working == {c \in Call : job[c] \in {"checked", "ending", "handling"}}

\* A worker takes a job; executeIfCurrent is the call's logical start.
StartJob ==
  /\ pendingJobs # <<>> /\ Cardinality(Working) < Workers
  /\ pendingJobs' = Tail(pendingJobs)
  /\ LET c == Head(pendingJobs)
     IN IF isCurrent(c)
        THEN job' = [job EXCEPT ![c] = "checked"] /\ UNCHANGED results
        ELSE job' = [job EXCEPT ![c] = "done"] /\ Send(c, "failed")
  /\ UNCHANGED <<ran, workerOnly>>

Finish(c, status) ==
  /\ job' = [job EXCEPT ![c] = "done"]
  /\ \/ Send(c, IF c \in cancelled THEN "interrupted" ELSE status)
     \/ stopped /\ UNCHANGED results

\* execute: a cancelled call ends without its handler, as does one the guard
\* rejects or does not judge in time.  An EndResponseScope call that is too
\* early skips the guard.
Execute(c) ==
  /\ job[c] = "checked"
  /\ \/ /\ c \in cancelled \/ (c \in Guarded /\ ~Early(c))
        /\ Finish(c, "failed") /\ UNCHANGED ran
     \/ /\ c \notin cancelled /\ c \notin EndTools
        /\ job' = [job EXCEPT ![c] = "handling"]
        /\ ran' = ran \cup {c}
        /\ UNCHANGED results
     \/ /\ c \notin cancelled /\ c \in EndTools
        /\ job' = [job EXCEPT ![c] = "ending"]
        /\ UNCHANGED <<results, ran>>
  /\ UNCHANGED <<pendingJobs, workerOnly>>

\* ExecuteEndResponseScope asks again whether the scope may end.
ExecuteEndResponseScope(c) ==
  /\ job[c] = "ending"
  /\ \/ ~ready /\ Finish(c, "skipped") /\ UNCHANGED ran
     \/ /\ ready
        /\ job' = [job EXCEPT ![c] = "handling"]
        /\ ran' = ran \cup {c}
        /\ UNCHANGED results
  /\ UNCHANGED <<pendingJobs, workerOnly>>

\* The handler returns, fails or panics; cancellation overrides its result.
HandlerReturns(c) ==
  /\ job[c] = "handling"
  /\ \E status \in {"succeeded", "failed"} : Finish(c, status)
  /\ UNCHANGED <<pendingJobs, ran, workerOnly>>

-----------------------------------------------------------------------------
(* The runtime: prompts, decisions and results on their way to a run *)

executor == <<requests, interrupts, admission, approvals, toolCalls, jobs,
              ready, ran, taken, late>>

Registered(t) == run[t] \in {"active", "closing"}

\* A prompt reaches the run it is for, or nobody when the run is gone.
RoutePrompt(kind) ==
  /\ prompts[kind] # <<>>
  /\ prompts' = [prompts EXCEPT ![kind] = Tail(@)]
  /\ LET c == Head(prompts[kind])
     IN routed' = IF Registered(TurnOf(c))
                  THEN [routed EXCEPT ![kind][c] = "pending"] ELSE routed
  /\ UNCHANGED <<results, decisions, policy, run, round, held, delivered, resolver, due,
                 executor>>

routePermissionRequests == RoutePrompt("permission")
routeConfirmationRequests == RoutePrompt("confirmation")

\* SetPermissionMode of the runtime and SetMode of the controller.
SetMode(mode) ==
  /\ policy.epoch <= MaxModeChanges /\ mode # policy.mode
  /\ policy' = [mode |-> mode, epoch |-> policy.epoch + 1]
  /\ UNCHANGED <<results, prompts, decisions, runtime, due, executor>>

resolveOnly == <<prompts, policy, run, round, due, executor>>

\* A caller answers a prompt: one whose time is over is deleted with the
\* results held for it, even while another caller forwards an answer; a
\* caller that finds another forwarding waits for it, and a prompt that is
\* gone or resolved changes nothing.
ResolveBegin(r, kind, c, answer) ==
  /\ resolver[r].at = "idle"
  /\ \/ /\ c \in due[kind] /\ routed[kind][c] \in {"pending", "forwarding"}
        /\ routed' = [routed EXCEPT ![kind][c] = "expired"]
        /\ held' = [held EXCEPT ![kind][c] = <<>>]
        /\ UNCHANGED resolver
     \/ /\ c \notin due[kind] /\ routed[kind][c] = "pending"
        /\ routed' = [routed EXCEPT ![kind][c] = "forwarding"]
        /\ resolver' = [resolver EXCEPT ![r] =
             [at |-> "forward", kind |-> kind, call |-> c, answer |-> answer]]
        /\ UNCHANGED held
  /\ UNCHANGED <<results, decisions, delivered, resolveOnly>>

\* The answer goes to the executor, or the caller gives up first.
Forward(r) ==
  LET mine == resolver[r]
  IN /\ mine.at = "forward"
     /\ \/ /\ decisions' = [decisions EXCEPT ![mine.kind] =
                Append(@, [call |-> mine.call, answer |-> mine.answer])]
           /\ resolver' = [resolver EXCEPT ![r].at = "commit"]
           /\ UNCHANGED routed
        \/ /\ "forward" \in Faults
           /\ resolver' = [resolver EXCEPT ![r] = [at |-> "idle"]]
           /\ routed' = IF routed[mine.kind][mine.call] = "forwarding"
                        THEN [routed EXCEPT ![mine.kind][mine.call] = "pending"]
                        ELSE routed
           /\ UNCHANGED decisions
     /\ UNCHANGED <<results, held, delivered, resolveOnly>>

Enqueue(c, statuses) ==
  delivered' = IF run[TurnOf(c)] = "active"
               THEN [delivered EXCEPT ![c] = @ \o statuses] ELSE delivered

\* The prompt becomes resolved unless it went away while the answer was
\* forwarded; then the results held for it go to the run.
ResolveCommit(r) ==
  LET mine == resolver[r]
      current == routed[mine.kind][mine.call] = "forwarding"
  IN /\ mine.at = "commit"
     /\ resolver' = [resolver EXCEPT ![r] = [at |-> "idle"]]
     /\ \/ ~current /\ UNCHANGED <<routed, held, delivered>>
        \/ /\ current
           /\ routed' = [routed EXCEPT ![mine.kind][mine.call] = "resolved"]
           /\ held' = [held EXCEPT ![mine.kind][mine.call] = <<>>]
           /\ Enqueue(mine.call, held[mine.kind][mine.call])
     /\ UNCHANGED <<results, decisions, resolveOnly>>

\* The runtime's own timer: it waits for an answer being forwarded.  The
\* results held for the prompt are deleted with it.
ExpireRouted(kind, c) ==
  /\ c \in due[kind] /\ routed[kind][c] = "pending"
  /\ routed' = [routed EXCEPT ![kind][c] = "expired"]
  /\ held' = [held EXCEPT ![kind][c] = <<>>]
  /\ UNCHANGED <<results, decisions, delivered, resolver, resolveOnly>>

ResolvePermission(r) ==
  \/ \E c \in Call, answer \in Answers \cap PermissionAnswers :
       ResolveBegin(r, "permission", c, answer)
  \/ resolver[r].at # "idle" /\ resolver[r].kind = "permission"
     /\ (Forward(r) \/ ResolveCommit(r))
ResolveConfirmation(r) ==
  \/ \E c \in Call, answer \in Answers \cap ConfirmationAnswers :
       ResolveBegin(r, "confirmation", c, answer)
  \/ resolver[r].at # "idle" /\ resolver[r].kind = "confirmation"
     /\ (Forward(r) \/ ResolveCommit(r))

expirePermission == \E c \in Call : ExpireRouted("permission", c)
expireConfirmation == \E c \in Call : ExpireRouted("confirmation", c)

Waiting(kind, c) == routed[kind][c] \in {"pending", "forwarding"}

\* Mutant: a result does not wait for its prompt to be resolved.
RouteAtOnce ==
  /\ results # <<>> /\ results' = Tail(results)
  /\ Enqueue(Head(results).call, <<Head(results).status>>)
  /\ UNCHANGED <<decisions, routed, held, resolver, resolveOnly>>

Hold(kind, c, statuses) ==
  held' = [held EXCEPT ![kind][c] = @ \o statuses] /\ UNCHANGED delivered

\* A result is held while the prompt of its call is not resolved; one for a
\* run that is gone, or done, is dropped.
RouteToolResult ==
  /\ results # <<>> /\ results' = Tail(results)
  /\ LET c == Head(results).call
         statuses == <<Head(results).status>>
     IN \/ ~Registered(TurnOf(c)) /\ UNCHANGED <<held, delivered>>
        \/ /\ Registered(TurnOf(c))
           /\ \/ Waiting("permission", c) /\ Hold("permission", c, statuses)
              \/ /\ ~Waiting("permission", c) /\ Waiting("confirmation", c)
                 /\ Hold("confirmation", c, statuses)
              \/ /\ \A kind \in Kinds : ~Waiting(kind, c)
                 /\ Enqueue(c, statuses) /\ UNCHANGED held
  /\ UNCHANGED <<decisions, routed, resolver, resolveOnly>>

-----------------------------------------------------------------------------
(* The runs, as far as the runtime and the executor see them *)

runOnly == <<results, prompts, decisions, policy, resolver, due, admission,
             approvals, toolCalls, jobs, ready, ran, taken, late>>

\* A run asks for its next round of tools when it has the results of the last.
RoundDone(t) == \A n \in 1..round[t] : \A c \in RoundCalls(t, n) : delivered[c] # <<>>

StartRun(t) ==
  /\ run[t] = "idle"
  /\ \A u \in Turn : SessionOf[u] = SessionOf[t] => ~Registered(u)
  /\ run' = [run EXCEPT ![t] = "active"]
  /\ UNCHANGED <<requests, interrupts, round, routed, held, delivered, runOnly>>

DispatchTools(t) ==
  /\ run[t] = "active" /\ RoundDone(t) /\ round[t] < Len(Rounds[t])
  /\ round' = [round EXCEPT ![t] = @ + 1]
  /\ requests' = requests \o Rounds[t][round[t] + 1]
  /\ UNCHANGED <<run, interrupts, routed, held, delivered, runOnly>>

\* Prompts of the run, their answers and held results go with it.
unregister(t) ==
  /\ run' = [run EXCEPT ![t] = "ended"]
  /\ routed' = [k \in Kinds |-> [c \in Call |->
                  IF c \in CallsOf(t) THEN "none" ELSE routed[k][c]]]
  /\ held' = [k \in Kinds |-> [c \in Call |->
                IF c \in CallsOf(t) THEN <<>> ELSE held[k][c]]]
  /\ UNCHANGED <<requests, interrupts, round, delivered, runOnly>>

RunCompletes(t) ==
  run[t] = "active" /\ RoundDone(t) /\ round[t] = Len(Rounds[t]) /\ unregister(t)

Outstanding(t) == {c \in CallsOf(t) : delivered[c] = <<>>
                     /\ \E n \in 1..round[t] : c \in RoundCalls(t, n)}

\* An interrupted run cancels its prompts, accepts no more results and asks
\* the executor to stop the calls without a result.
InterruptRun(t) ==
  /\ t \in Interruptible /\ run[t] = "active"
  /\ run' = [run EXCEPT ![t] = "closing"]
  /\ routed' = [k \in Kinds |-> [c \in Call |->
                  IF c \in CallsOf(t) /\ Waiting(k, c) THEN "none" ELSE routed[k][c]]]
  /\ held' = [k \in Kinds |-> [c \in Call |->
                IF c \in CallsOf(t) THEN <<>> ELSE held[k][c]]]
  /\ interrupts' = IF Outstanding(t) = {} THEN interrupts ELSE Append(interrupts, t)
  /\ UNCHANGED <<requests, round, delivered, runOnly>>

CloseRun(t) == run[t] = "closing" /\ unregister(t)

-----------------------------------------------------------------------------
(* Time, and the state of the response scope *)

Tick(kind, c) ==
  /\ kind \in Expiring /\ record[kind][c] = "pending" /\ c \notin due[kind]
  /\ due' = [due EXCEPT ![kind] = @ \cup {c}]
  /\ UNCHANGED <<results, prompts, decisions, policy, runtime, executor>>

\* ReadyToEnd changes as members of the scope come and go.
ReadyChanges ==
  /\ EndTools # {} /\ ready' = ~ready
  /\ UNCHANGED <<channels, policy, admission, approvals, toolCalls, jobs, runtime,
                 past>>

-----------------------------------------------------------------------------
Executor ==
  \/ admitDeferredApproval \/ ReceiveRequest \/ DecidePermission \/ DecideConfirmation
  \/ InterruptTurn
  \/ \E kind \in Kinds : ExpirePrompts(kind)
Worker == StartJob \/ \E c \in Call : Execute(c) \/ ExecuteEndResponseScope(c) \/ HandlerReturns(c)
Router ==
  \/ RouteToolResult \/ routePermissionRequests \/ routeConfirmationRequests
  \/ expirePermission \/ expireConfirmation
Resolve == \E r \in Resolver : ResolvePermission(r) \/ ResolveConfirmation(r)
Runs ==
  \E t \in Turn :
    StartRun(t) \/ DispatchTools(t) \/ RunCompletes(t) \/ InterruptRun(t) \/ CloseRun(t)
Environment ==
  \/ Shutdown \/ ReadyChanges
  \/ \E kind \in Kinds, c \in Call : Tick(kind, c)
  \/ \E mode \in LaterModes : SetMode(mode)

Next == Executor \/ Worker \/ Router \/ Resolve \/ Runs \/ Environment
Spec == Init /\ [][Next]_vars

\* The goroutines run when they can, handlers return, and somebody answers
\* the prompts that are shown; nobody has to interrupt, switch modes or let a
\* prompt's time pass.
FairSpec ==
  /\ Spec
  /\ WF_vars(admitDeferredApproval) /\ WF_vars(ReceiveRequest)
  /\ WF_vars(DecidePermission) /\ WF_vars(DecideConfirmation) /\ WF_vars(InterruptTurn)
  /\ WF_vars(Worker) /\ WF_vars(Router) /\ WF_vars(Resolve)
  /\ \A kind \in Kinds : WF_vars(ExpirePrompts(kind))
  /\ \A t \in Turn : WF_vars(StartRun(t) \/ DispatchTools(t) \/ RunCompletes(t) \/ CloseRun(t))

-----------------------------------------------------------------------------
(* Properties *)

Statuses == {"succeeded", "failed", "denied", "declined", "blocked", "skipped", "interrupted"}

AnswersTo(kind) ==
  IF kind = "permission" THEN PermissionAnswers ELSE ConfirmationAnswers
Resolving(kind) ==
  [at : {"forward", "commit"}, kind : {kind}, call : Call, answer : AnswersTo(kind)]
ToolResult == [call : Call, status : Statuses]
DecisionOn(kind) == [call : Call, answer : AnswersTo(kind)]
DeferredCall == [call : Call, ask : BOOLEAN]
RecordState == {"none", "pending", "allowed", "denied", "confirmed", "declined",
                "expired", "cancelled"}
RoutedState == {"none", "pending", "forwarding", "resolved", "expired"}
JobState == {"none", "queued", "checked", "ending", "handling", "done"}
Snapshots == [mode : Modes, epoch : 1..(MaxModeChanges + 1)]
Grant == [scope : {"allow_session", "allow_project"},
          session : {SessionOf[t] : t \in Turn}, actions : Seq(STRING)]

ChannelTypes ==
  /\ requests \in Seq(Call) /\ interrupts \in Seq(Turn)
  /\ results \in Seq(ToolResult)
  /\ prompts \in [Kinds -> Seq(Call)]
  /\ DOMAIN decisions = Kinds
  /\ \A kind \in Kinds : decisions[kind] \in Seq(DecisionOn(kind))
PolicyTypes ==
  /\ policy \in Snapshots /\ admission \in [Call -> Snapshots]
  /\ \A c \in Call : admission[c].epoch <= policy.epoch
ApprovalTypes ==
  /\ deferred \in Seq(DeferredCall)
  /\ pending \in [Kinds -> SUBSET Call]
  /\ grants \subseteq Grant
  /\ record \in [Kinds -> [Call -> RecordState]]
JobTypes ==
  /\ toolCalls \in 0..Limit
  /\ job \in [Call -> JobState]
  /\ pendingJobs \in Seq(Call)
  /\ stopped \in BOOLEAN /\ ready \in BOOLEAN
  /\ cancelled \subseteq Call /\ ran \subseteq Call /\ late \subseteq Call
RuntimeTypes ==
  /\ run \in [Turn -> {"idle", "active", "closing", "ended"}]
  /\ round \in [Turn -> Nat]
  /\ routed \in [Kinds -> [Call -> RoutedState]]
  /\ held \in [Kinds -> [Call -> Seq(Statuses)]]
  /\ delivered \in [Call -> Seq(Statuses)]
  /\ resolver \in [Resolver -> [at : {"idle"}] \cup UNION {Resolving(kind) : kind \in Kinds}]
  /\ due \in [Kinds -> SUBSET Call]

\* Types of the variables; an answer is of the kind of its channel.
TypeOK == ChannelTypes /\ PolicyTypes /\ ApprovalTypes /\ JobTypes /\ RuntimeTypes

\* What may permit a call: its admission policy, a decision on it, or a
\* remembered decision for exactly the actions it needs.
Permitted(c) ==
  \/ Needs[c].actions = <<>>
  \/ Evaluate(Needs[c], [mode |-> admission[c].mode, rules |-> Rules]) = "allow"
  \/ record["permission"][c] = "allowed"
  \/ \E grant \in grants : /\ Items(grant.actions) = Items(Needs[c].actions)
                           /\ grant.scope = "allow_session" => grant.session = Session(c)

\* A handler runs only when the call was permitted and, if its tool asks for a
\* confirmation, confirmed.  Calls of EndResponseScope tools are left out:
\* one that comes too early is queued without either (executor.go:437) and may
\* find its scope ready when the worker asks again.
HandlerAuthorized ==
  \A c \in ran \ EndTools :
    Permitted(c) /\ (c \in Confirms => record["confirmation"][c] = "confirmed")

\* A call that the current policy denies does not start, however the mode was
\* switched since it was admitted, unless a remembered decision covers it.
NoStartUnderDeny ==
  [][\A c \in Call \ EndTools :
       job[c] = "queued" /\ job'[c] = "checked" /\ Needs[c].actions # <<>> =>
         \/ Evaluate(Needs[c], [mode |-> policy.mode, rules |-> Rules]) # "deny"
         \/ hasGrant(grants, Session(c), Needs[c].actions, HasProject)]_vars

\* ResolvePermission releases the results held for the permission without
\* looking at the call's confirmation (runtime.go:378): if it stalls after it
\* has forwarded the answer, a second caller may have answered that too.
Overtaken(kind, c) ==
  /\ kind = "confirmation" /\ record["permission"][c] = "allowed"
  /\ \E r, q \in Resolver : r # q

\* A run sees the decision on a prompt before the result of the call
\* (permission.go:13, confirmation.go:15), unless the prompt expired.
ResolvedBeforeResult ==
  \A c \in Call, kind \in Kinds :
    /\ delivered[c] # <<>> /\ run[TurnOf(c)] = "active"
    /\ record[kind][c] \in {"allowed", "denied", "confirmed", "declined"}
    => \/ routed[kind][c] = "resolved"
       \/ kind \in Expiring /\ routed[kind][c] = "expired"
       \/ Overtaken(kind, c)

\* A prompt that stays with the executor although nobody can answer it: its
\* request was received after the interrupt of its turn.
Unanswerable(s) ==
  \E kind \in Kinds : \E c \in pending[kind] : Session(c) = s /\ c \in late

\* A round of tools is answered or its run interrupted, unless the executor
\* stops, the session has an unanswerable prompt, or the runtime let a prompt
\* of the round expire and dropped the result held for it.
EveryRoundEnds ==
  \A t \in Turn :
    (run[t] = "active") ~>
      \/ run[t] # "active" \/ stopped \/ Unanswerable(SessionOf[t])
      \/ \E kind \in Kinds, c \in CallsOf(t) : routed[kind][c] = "expired"

=============================================================================
