----------------------------- MODULE ModelCall -----------------------------
(***************************************************************************)
(* One streamed call of a model and the prompt guard that reads it: the    *)
(* provider's chunks (provider/openai/parse.go), the goroutine that turns  *)
(* them into events (provider/start_stream.go), the event-sourced stream   *)
(* with its subscriptions (provider/stream.go, state.go, result.go), and   *)
(* evaluatePromptGuard with the decisions made of its verdict              *)
(* (agentruntime/guardrail.go).                                            *)
(*                                                                         *)
(* A chunk carries content, reasoning, fragments of tool calls and perhaps *)
(* the finish reason.  A text is a sequence of pieces: "fence", the first  *)
(* half of an object, or "end".                                              *)
(* Arguments are JSON once they run from "{" to "}".                       *)
(***************************************************************************)
EXTENDS Integers, Sequences, FiniteSets, SequencesExt

CONSTANTS
  Scripts,      \* what the provider would send: sequences of chunks
  Watchers,     \* other subscribers of the stream, which may stop reading
  ChannelSize   \* capacity of a subscription's channel

Guard == "guard"
Subscribers == Watchers \cup {Guard}

\* What identifies a call, beside its index; "" says nothing.
Labels == {"id", "type", "name"}

\* A fragment of a call, and a chunk, of one choice.
Delta == [index : Nat, label : [Labels -> STRING], args : Seq(STRING)]
Chunk == [content : Seq(STRING), reasoning : BOOLEAN, tools : Seq(Delta), finish : BOOLEAN]

ASSUME ModelCallAssumption == ChannelSize \in Nat \ {0} /\ Guard \notin Watchers
ASSUME ScriptsAssumption == Scripts \subseteq Seq(Chunk)

VARIABLES
  cancelled,   \* the context of the guard's call is done
  wire,        \* chunks the provider has not sent
  got,         \* chunks received (history)
  consumer,    \* where consume is
  todo,        \* events of the last chunk that are not published
  events,      \* the stream's history
  done, failure, result,
  sub,         \* the subscriptions and their goroutines
  seen,        \* what each subscriber has read
  guard,       \* where evaluatePromptGuard is
  content, terminal,
  decision

stream == <<events, done, failure, result>>
reader == <<guard, content, terminal, decision>>
vars == <<cancelled, wire, got, consumer, todo, stream, sub, seen, reader>>

NoResult == [content |-> <<>>, reasoning |-> 0, tools |-> <<>>]

-----------------------------------------------------------------------------
(* Parse: a chunk as events. *)

Present(condition, event) == IF condition THEN <<event>> ELSE <<>>

Labelled(t) == \E f \in Labels : t.label[f] # ""

\* Mutant: a call is started by its name alone.
namedOnly(tools, j) ==
  LET t == tools[j] IN
    Present(t.label["name"] # "", [type |-> "tool_started", index |-> t.index, label |-> t.label])
    \o Present(t.args # <<>>, [type |-> "tool_arguments", index |-> t.index, args |-> t.args])

\* A call is started once in a chunk, by the first delta with a label; those
\* of a later delta are dropped.
ToolEvents(tools, j) ==
  LET t == tools[j] IN
    Present(Labelled(t) /\ \A k \in 1..(j - 1) : tools[k].index = t.index => ~Labelled(tools[k]),
            [type |-> "tool_started", index |-> t.index, label |-> t.label])
    \o Present(t.args # <<>>, [type |-> "tool_arguments", index |-> t.index, args |-> t.args])

Parse(chunk) ==
  Present(chunk.content # <<>>, [type |-> "content", text |-> chunk.content])
    \o Present(chunk.reasoning, [type |-> "reasoning"])
    \o FlattenSeq([j \in DOMAIN chunk.tools |-> ToolEvents(chunk.tools, j)])
    \o Present(chunk.finish, [type |-> "completed", result |-> NoResult])

-----------------------------------------------------------------------------
(* Result: the history folded into what the caller gets. *)

\* What an event adds to the text, to the labels f and the arguments of the
\* call i and to the calls completed, and what a history puts together of them.
TextOf(e) == IF e.type = "content" THEN e.text ELSE <<>>
LabelOf(e, i, f) ==
  IF e.type = "tool_started" /\ e.index = i /\ e.label[f] # "" THEN <<e.label[f]>> ELSE <<>>
FragmentOf(e, i) == IF e.type = "tool_arguments" /\ e.index = i THEN e.args ELSE <<>>
CompletionOf(e) == IF e.type = "tool_completed" THEN <<e.index>> ELSE <<>>

Texts(es) == FlattenSeq([k \in DOMAIN es |-> TextOf(es[k])])
LabelsOf(es, i, f) == FlattenSeq([k \in DOMAIN es |-> LabelOf(es[k], i, f)])
Fragments(es, i) == FlattenSeq([k \in DOMAIN es |-> FragmentOf(es[k], i)])
Completions(es) == FlattenSeq([k \in DOMAIN es |-> CompletionOf(es[k])])

\* No arguments are an empty object.
parseArguments(raw) == raw = <<>> \/ (Head(raw) = "{" /\ Last(raw) = "}")

\* The last of each label given and the fragments in order.
completeTool(es, i) ==
  [index |-> i,
   label |-> [f \in Labels |-> IF LabelsOf(es, i, f) = <<>> THEN "" ELSE Last(LabelsOf(es, i, f))],
   args |-> Fragments(es, i)]
ToolIsValid(tool) == parseArguments(tool.args) /\ tool.label["name"] # ""

PendingTools(es) ==
  {e.index : e \in {x \in Range(es) : x.type \in {"tool_started", "tool_arguments"}}}
    \ {e.index : e \in {x \in Range(es) : x.type = "tool_completed"}}

\* Calls without their completion get one, by index: the k-th is the one that
\* k - 1 are below.
pendingToolCompletionEvents(es) ==
  LET open == PendingTools(es)
  IN [k \in 1..Cardinality(open) |->
       [type |-> "tool_completed", index |-> CHOOSE i \in open : Cardinality({j \in open : j < i}) = k - 1]]

Result(es) ==
  [content |-> Texts(es),
   reasoning |-> Cardinality({k \in DOMAIN es : es[k].type = "reasoning"}),
   tools |-> [k \in DOMAIN Completions(es) |-> completeTool(es, Completions(es)[k])]]
ResultIsError(es) ==
  PendingTools(es) # {} \/ \E i \in Range(Completions(es)) : ~ToolIsValid(completeTool(es, i))

-----------------------------------------------------------------------------
(* The stream. *)

NoSubscription ==
  [pc |-> "none", queue |-> <<>>, notify |-> FALSE, closed |-> FALSE, held |-> <<>>, channel |-> <<>>]
Attached(s) == sub[s].pc \in {"take", "send", "wait"}

\* Under the lock: the history grows, and every subscription is signalled.
Store(new, ends) ==
  /\ events' = events \o new
  /\ done' = ends
  /\ sub' = [s \in Subscribers |->
       IF Attached(s)
       THEN [sub[s] EXCEPT !.queue = @ \o new, !.notify = TRUE, !.closed = @ \/ ends]
       ELSE sub[s]]

publish(event) ==
  /\ Store(<<event>>, FALSE)
  /\ UNCHANGED <<failure, result>>

fail(why) ==
  /\ Store(<<[type |-> "failed"]>>, TRUE)
  /\ failure' = why
  /\ UNCHANGED result

\* The pending calls are completed, then the stream with its result; a call
\* that cannot be completed fails the stream.
complete ==
  \E pending \in {pendingToolCompletionEvents(events)} : \E all \in {events \o pending} :
    IF ResultIsError(all) THEN fail("malformed")
    ELSE \E r \in {Result(all)} :
           /\ Store(Append(pending, [type |-> "completed", result |-> r]), TRUE)
           /\ result' = r
           /\ UNCHANGED failure

\* Mutant: a subscription made after the end waits for it.
subscribeOpen(s) ==
  sub' = [sub EXCEPT ![s] = [NoSubscription EXCEPT !.pc = "take", !.queue = events]]

\* The history is replayed, and nothing is missed after it.
Subscribe(s) ==
  sub' = [sub EXCEPT ![s] = [NoSubscription EXCEPT !.pc = "take", !.queue = events, !.closed = done]]

-----------------------------------------------------------------------------
(* runSubscription. *)

Watches(s) == s = Guard /\ cancelled
Leave(s) == sub' = [sub EXCEPT ![s].pc = "gone", ![s].held = <<>>, ![s].queue = <<>>]

\* The next event is taken in hand, or the goroutine waits for a signal.
Advance(s) ==
  sub' = [sub EXCEPT ![s] =
    IF @.queue = <<>> THEN [@ EXCEPT !.pc = "wait"]
    ELSE [@ EXCEPT !.held = <<Head(sub[s].queue)>>, !.queue = Tail(sub[s].queue), !.pc = "send"]]

\* Mutant: the goroutine ends without looking at what is still queued.
TakeOrEnd(s) ==
  /\ sub[s].pc = "take"
  /\ IF sub[s].closed THEN Leave(s)
     ELSE Advance(s)

Take(s) ==
  /\ sub[s].pc = "take"
  /\ IF sub[s].queue = <<>> /\ sub[s].closed THEN Leave(s)
     ELSE Advance(s)

Send(s) ==
  /\ sub[s].pc = "send"
  /\ \/ /\ Len(sub[s].channel) < ChannelSize
        /\ sub' = [sub EXCEPT ![s] =
             [@ EXCEPT !.channel = sub[s].channel \o sub[s].held, !.held = <<>>, !.pc = "take"]]
     \/ Watches(s) /\ Leave(s)

Wait(s) ==
  /\ sub[s].pc = "wait"
  /\ \/ sub[s].notify /\ sub' = [sub EXCEPT ![s] = [@ EXCEPT !.notify = FALSE, !.pc = "take"]]
     \/ Watches(s) /\ Leave(s)

RunSubscription(s) ==
  /\ Take(s) \/ Send(s) \/ Wait(s)
  /\ UNCHANGED <<cancelled, wire, got, consumer, todo, stream, seen, reader>>

-----------------------------------------------------------------------------
(* consume. *)

\* The context is looked at before each chunk.
ConsumeTop ==
  /\ consumer = "top"
  /\ IF cancelled THEN fail("cancelled") /\ consumer' = "returned"
     ELSE consumer' = "recv" /\ UNCHANGED <<stream, sub>>
  /\ UNCHANGED <<cancelled, wire, got, todo, seen, reader>>

RecvChunk ==
  /\ consumer = "recv" /\ wire # <<>>
  /\ wire' = Tail(wire) /\ got' = Append(got, Head(wire))
  /\ todo' = Parse(Head(wire)) /\ consumer' = "publish"
  /\ UNCHANGED <<cancelled, stream, sub, seen, reader>>

\* The connection ends; the code takes an early end for the end.
RecvEOF ==
  /\ consumer = "recv"
  /\ complete /\ consumer' = "returned"
  /\ UNCHANGED <<cancelled, wire, got, todo, seen, reader>>

RecvError ==
  /\ consumer = "recv"
  /\ fail("wire") /\ consumer' = "returned"
  /\ UNCHANGED <<cancelled, wire, got, todo, seen, reader>>

Publish ==
  /\ consumer = "publish"
  /\ IF todo = <<>> THEN consumer' = "top" /\ UNCHANGED <<todo, stream, sub>>
     ELSE /\ todo' = Tail(todo)
          /\ IF Head(todo).type = "completed" THEN complete /\ consumer' = "returned"
             ELSE publish(Head(todo)) /\ UNCHANGED consumer
  /\ UNCHANGED <<cancelled, wire, got, seen, reader>>

-----------------------------------------------------------------------------
(* The guard's verdict. *)

\* First halves of the objects a guard's model may write.
Fields ==
  [h \in {"allow", "allow_feedback", "deny", "deny_reason", "deny_feedback", "partial"} |->
     CASE h = "allow" -> [allowed |-> TRUE, reason |-> FALSE, feedback |-> FALSE, whole |-> TRUE]
       [] h = "allow_feedback" -> [allowed |-> TRUE, reason |-> FALSE, feedback |-> TRUE, whole |-> TRUE]
       [] h = "deny" -> [allowed |-> FALSE, reason |-> FALSE, feedback |-> FALSE, whole |-> TRUE]
       [] h = "deny_reason" -> [allowed |-> FALSE, reason |-> TRUE, feedback |-> FALSE, whole |-> TRUE]
       [] h = "deny_feedback" -> [allowed |-> FALSE, reason |-> FALSE, feedback |-> TRUE, whole |-> TRUE]
       [] h = "partial" -> [allowed |-> TRUE, reason |-> FALSE, feedback |-> FALSE, whole |-> FALSE]]

\* The text without its fence; an open fence leaves nothing.
Unfenced(text) ==
  IF text # <<>> /\ Head(text) = "fence"
  THEN IF Last(text) = "fence" THEN SubSeq(text, 2, Len(text) - 1) ELSE <<>>
  ELSE text

\* One object with all three fields, and no feedback to an allowed value.
decodePromptGuardVerdict(text) ==
  LET body == Unfenced(text) IN
    /\ Len(body) = 2 /\ body[1] \in DOMAIN Fields /\ body[2] = "end"
    /\ Fields[body[1]].whole
    /\ ~(Fields[body[1]].allowed /\ Fields[body[1]].feedback)
Verdict(text) == Fields[Unfenced(text)[1]]

Decision(action, said) == [action |-> action, said |-> said]
FirstOf(said, otherwise) == IF said # "" THEN said ELSE otherwise
Text(present, name) == IF present THEN name ELSE ""

newPromptInputGuard(v) ==
  IF v.allowed THEN Decision("accept", "")
  ELSE Decision("respond", FirstOf(Text(v.reason, "reason"), "default"))
newPromptOutputGuard(v) ==
  IF v.allowed THEN Decision("proceed", "")
  ELSE Decision("retry", FirstOf(Text(v.feedback, "feedback"), FirstOf(Text(v.reason, "reason"), "default")))
NewPromptToolCallGuard(v) ==
  IF v.allowed THEN Decision("allow", "")
  ELSE Decision("reject", FirstOf(Text(v.feedback, "feedback"), FirstOf(Text(v.reason, "reason"), "default")))

\* The decision of a guard of each direction on a verdict.
Decisions(v) == {newPromptInputGuard(v), newPromptOutputGuard(v), NewPromptToolCallGuard(v)}

validateInputGuardDecision(d) ==
  (d.action = "accept" /\ d.said = "") \/ (d.action = "respond" /\ d.said # "")
validateOutputGuardDecision(d) ==
  (d.action = "proceed" /\ d.said = "") \/ (d.action = "retry" /\ d.said # "")
ValidateToolCallGuardDecision(d) ==
  (d.action = "allow" /\ d.said = "") \/ (d.action = "reject" /\ d.said # "")

-----------------------------------------------------------------------------
(* evaluatePromptGuard. *)

NotDecided == Decision("", "")
Return(d) == guard' = "returned" /\ decision' = d

Init ==
  /\ cancelled = FALSE
  /\ wire \in Scripts /\ got = <<>>
  /\ consumer = "unborn" /\ todo = <<>>
  /\ events = <<>> /\ done = FALSE /\ failure = "" /\ result = NoResult
  /\ sub = [s \in Subscribers |-> NoSubscription]
  /\ seen = [s \in Subscribers |-> <<>>]
  /\ guard = "start" /\ content = <<>> /\ terminal = <<>> /\ decision = NotDecided

\* model.Start: the provider refuses, or the stream and its consumer exist.
StartModel ==
  /\ guard = "start"
  /\ \/ Return(Decision("error", "")) /\ UNCHANGED consumer
     \/ guard' = "subscribe" /\ consumer' = "top" /\ UNCHANGED decision
  /\ UNCHANGED <<cancelled, wire, got, todo, stream, sub, seen, content, terminal>>

GuardSubscribes ==
  /\ guard = "subscribe"
  /\ Subscribe(Guard) /\ guard' = "read"
  /\ UNCHANGED <<cancelled, wire, got, consumer, todo, stream, seen, content, terminal, decision>>

WatcherSubscribes(s) ==
  /\ consumer # "unborn" /\ sub[s].pc = "none"
  /\ Subscribe(s)
  /\ UNCHANGED <<cancelled, wire, got, consumer, todo, stream, seen, reader>>

\* The head of the channel leaves it.
Receive(s) ==
  /\ sub[s].channel # <<>>
  /\ sub' = [sub EXCEPT ![s].channel = Tail(@)]
  /\ seen' = [seen EXCEPT ![s] = Append(@, Head(sub[s].channel))]

WatcherReads(s) ==
  /\ s # Guard
  /\ Receive(s)
  /\ UNCHANGED <<cancelled, wire, got, consumer, todo, stream, reader>>

\* Mutant: a failure of the stream ends the loop like its completion.
KeepOnFailure ==
  /\ guard = "read"
  /\ Receive(Guard)
  /\ LET e == Head(sub[Guard].channel)
     IN /\ content' = content \o TextOf(e)
        /\ terminal' = IF e.type = "completed" THEN <<e.result.content>>
                       ELSE IF e.type = "failed" THEN <<content>> ELSE terminal
        /\ UNCHANGED <<guard, decision>>
  /\ UNCHANGED <<cancelled, wire, got, consumer, todo, stream>>

\* One event of the loop; a failure ends it at once.
GuardReads ==
  /\ guard = "read"
  /\ Receive(Guard)
  /\ LET e == Head(sub[Guard].channel)
     IN /\ content' = content \o TextOf(e)
        /\ terminal' = IF e.type = "completed" THEN <<e.result.content>> ELSE terminal
        /\ IF e.type = "failed" THEN Return(Decision("error", "")) ELSE UNCHANGED <<guard, decision>>
  /\ UNCHANGED <<cancelled, wire, got, consumer, todo, stream>>

\* The channel is closed and empty: the context, the terminal event or the
\* stream's result, and the verdict are looked at in this order.
GuardDecides ==
  /\ guard = "read" /\ sub[Guard].pc = "gone" /\ sub[Guard].channel = <<>>
  /\ LET stored == IF terminal # <<>> THEN terminal[1] ELSE result.content
         text == IF stored = <<>> THEN content ELSE stored
     IN IF \/ cancelled
           \/ terminal = <<>> /\ (~done \/ failure # "")
           \/ ~decodePromptGuardVerdict(text)
        THEN Return(Decision("error", ""))
        ELSE \E d \in Decisions(Verdict(text)) : Return(d)
  /\ UNCHANGED <<cancelled, wire, got, consumer, todo, stream, sub, seen, content, terminal>>

\* The turn is interrupted or the Agent shuts down.
Cancel ==
  /\ ~cancelled /\ guard # "returned"
  /\ cancelled' = TRUE
  /\ UNCHANGED <<wire, got, consumer, todo, stream, sub, seen, reader>>

Recv == RecvChunk \/ RecvEOF \/ RecvError
GuardStep == StartModel \/ GuardSubscribes \/ GuardReads \/ GuardDecides

Next ==
  \/ GuardStep \/ Cancel
  \/ ConsumeTop \/ Recv \/ Publish
  \/ \E s \in Subscribers : RunSubscription(s)
  \/ \E s \in Watchers : WatcherSubscribes(s) \/ WatcherReads(s)

\* Goroutines run; a cancelled context ends Recv, which otherwise may wait for
\* the provider for ever, and a watcher need not read.
Spec == Init /\ [][Next]_vars
FairSpec ==
  /\ Spec
  /\ WF_vars(GuardStep) /\ WF_vars(ConsumeTop) /\ WF_vars(Publish)
  /\ WF_vars(cancelled /\ Recv)
  /\ \A s \in Subscribers : WF_vars(RunSubscription(s))

-----------------------------------------------------------------------------
(* Properties. *)

\* A subscription made at any moment, with a channel of any size, is the
\* history: what was read, what is in the channel, in the goroutine's hand and
\* queued is every event once and in order; one that has ended without being
\* cancelled has been given all of it.
ExactHistory ==
  \A s \in Subscribers :
    LET given == seen[s] \o sub[s].channel \o sub[s].held \o sub[s].queue IN
      /\ Attached(s) => given = events
      /\ sub[s].pc = "gone" => IsPrefix(given, events) /\ (Watches(s) \/ (done /\ given = events))

\* What a chunk received says of the call i: each label by its first delta of
\* that call with any, and the arguments; and the calls it is about.
Announcing(chunk, i) == {j \in DOMAIN chunk.tools : chunk.tools[j].index = i /\ Labelled(chunk.tools[j])}
LabelsSent(chunk, i, f) ==
  {chunk.tools[j].label[f] : j \in {x \in Announcing(chunk, i) : \A y \in Announcing(chunk, i) : x <= y}} \ {""}
ArgsSent(chunk, i) ==
  FlattenSeq([j \in DOMAIN chunk.tools |-> IF chunk.tools[j].index = i THEN chunk.tools[j].args ELSE <<>>])
CallsSent(chunk) == {t.index : t \in {x \in Range(chunk.tools) : Labelled(x) \/ x.args # <<>>}}

\* All the arguments of the call in order, and each label as a chunk last
\* announced it, or none.
IsAsSent(tool) ==
  /\ tool.args = FlattenSeq([k \in DOMAIN got |-> ArgsSent(got[k], tool.index)])
  /\ \A f \in Labels :
       \/ tool.label[f] = "" /\ \A k \in DOMAIN got : LabelsSent(got[k], tool.index, f) = {}
       \/ \E k \in DOMAIN got :
            /\ tool.label[f] \in LabelsSent(got[k], tool.index, f)
            /\ \A l \in DOMAIN got : k < l => LabelsSent(got[l], tool.index, f) = {}

\* A stream that completes hands over exactly the calls received, one for
\* each index, in the order of their indexes, each with a name, the ID, type
\* and name last announced and arguments that are JSON, completed before the
\* stream is, and the whole content.  A label that a chunk gives in a further
\* delta of a call it has announced is lost (parse.go:43-55); a provider that
\* announces a call in one delta of a chunk loses none.
ResultIsWhatWasSent ==
  done /\ failure = "" =>
    /\ Last(events) = [type |-> "completed", result |-> result]
    /\ result.content = FlattenSeq([k \in DOMAIN got |-> got[k].content])
    /\ {t.index : t \in Range(result.tools)} = UNION {CallsSent(got[k]) : k \in DOMAIN got}
    /\ \A k, l \in DOMAIN result.tools : k < l => result.tools[k].index < result.tools[l].index
    /\ \A tool \in Range(result.tools) : IsAsSent(tool) /\ ToolIsValid(tool)
    /\ Completions(events) = [k \in DOMAIN result.tools |-> result.tools[k].index]

\* A guard lets something pass only on a stream that completed, whose text is
\* one whole allowing verdict; every other decision is one that the runtime's
\* validation takes, so that a refusal reaches the model and a doubt is an
\* error.
GuardFailsClosed ==
  /\ decision.action \in {"accept", "proceed", "allow"} =>
       /\ done /\ failure = ""
       /\ result.content \in {<<"allow", "end">>, <<"fence", "allow", "end", "fence">>}
  /\ \/ decision.action \in {"", "error"}
     \/ validateInputGuardDecision(decision)
     \/ validateOutputGuardDecision(decision)
     \/ ValidateToolCallGuardDecision(decision)

\* Once the stream has ended or the call is cancelled, the guard returns,
\* though a watcher of the same stream has stopped reading.
GuardReturns == (done \/ cancelled) ~> guard = "returned"
=============================================================================
