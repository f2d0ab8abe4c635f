----------------------------- MODULE Compaction -----------------------------
(***************************************************************************)
(* The transcript of one session and its compaction: the message storage   *)
(* (storage/message.go, storage/inmemory/message.go), the Compactor and its *)
(* estimator (agentruntime/compactor.go, context_estimator.go), and the    *)
(* part of startProvider that compacts before each model round and once    *)
(* more when the provider says that the request does not fit               *)
(* (agentruntime/run.go), and the adapter that turns the request into one  *)
(* of the provider (agentruntime/modeladapter/openai/adapter.go).          *)
(*                                                                         *)
(* A text is its number of ASCII bytes, its number of other bytes (which   *)
(* follow the ASCII ones, in runes of RuneBytes) and the messages whose    *)
(* content it carries.  Message IDs are fresh and the transcript is        *)
(* append-only, so the ID of a message is its position.                    *)
(***************************************************************************)
EXTENDS Integers, Sequences, FiniteSets, SequencesExt

CONSTANTS
  Windows,      \* context windows of the main models a session may run with
  BaseCost,     \* tokens of the system prompts, reminders and tool schemas
  Prompts,      \* the messages that begin a turn: their type and size
  Answers,      \* sizes of the model's answers
  Outputs,      \* sizes of tool outputs
  Summaries,    \* sizes of what the summarizer writes
  MaxBatch,     \* bound: calls of one tool round
  MaxMessages,  \* bound: length of the transcript
  MaxRestarts   \* bound: restarts of the application

ASSUME CompactionAssumption ==
  /\ Windows \subseteq Nat \ {0} /\ Windows # {}
  /\ {BaseCost, MaxBatch, MaxMessages, MaxRestarts} \subseteq Nat
  /\ Prompts \subseteq [type : {"user", "runtime_event"}, size : Nat \X Nat]
  /\ \A s \in Answers \cup Outputs \cup Summaries : s \in Nat \X Nat

VARIABLES
  transcript,   \* the stored messages
  window,       \* context window of the model in use
  auto,         \* automatic compaction is enabled
  phase,        \* what the session's run is doing
  calls,        \* tool calls the round still has to answer
  request,      \* the projected request of the last startProvider
  restarts

vars == <<transcript, window, auto, phase, calls, request, restarts>>

\* A finite set of numbers in ascending order: k - 1 of them are below the k-th.
Ranked(S, k) == CHOOSE i \in S : Cardinality({j \in S : j < i}) = k - 1
InOrder(S) == [k \in 1..Cardinality(S) |-> Ranked(S, k)]

-----------------------------------------------------------------------------
(* Texts. *)

RuneBytes == 3
Lower(x, y) == IF x < y THEN x ELSE y
Higher(x, y) == IF x > y THEN x ELSE y

Empty == [ascii |-> 0, other |-> 0, of |-> {}]
Ascii(n) == [Empty EXCEPT !.ascii = n]
Sized(s) == [Empty EXCEPT !.ascii = s[1], !.other = s[2]]
Blank(t) == t.ascii + t.other = 0
Cat(t, u) == [ascii |-> t.ascii + u.ascii, other |-> t.other + u.other, of |-> t.of \cup u.of]
CatAll(ts) ==
  [ascii |-> SumFunction([i \in DOMAIN ts |-> ts[i].ascii]),
   other |-> SumFunction([i \in DOMAIN ts |-> ts[i].other]),
   of |-> UNION {ts[i].of : i \in DOMAIN ts}]

\* Three ASCII bytes to a token, and a token for every other byte.
genericTextTokens(t) == (t.ascii + 2) \div 3 + t.other

\* The parts that are not blank, with an empty line between them.
joinCompactionContext(parts) ==
  LET present == {i \in DOMAIN parts : ~Blank(parts[i])}
  IN Cat(CatAll([i \in present |-> parts[i]]), Ascii(2 * Higher(0, Cardinality(present) - 1)))

\* At most limit bytes, the last three of them for the ellipsis.
truncateText(t, limit) ==
  IF t.ascii + t.other <= limit THEN t
  ELSE LET kept == Lower(t.ascii, limit - 3)
       IN [ascii |-> kept, other |-> limit - kept, of |-> t.of]

\* The longest suffix of whole runes that costs at most budget tokens, and
\* the prefix before it.
splitGenericTokenSuffix(t, budget) ==
  LET runes == RuneBytes * (Lower(t.other, budget) \div RuneBytes)
      plain == IF runes < t.other THEN 0 ELSE Lower(t.ascii, 3 * (budget - runes))
      whole == genericTextTokens(t) <= budget
  IN IF whole THEN [prefix |-> Empty, suffix |-> t]
     ELSE [prefix |-> [ascii |-> t.ascii - plain, other |-> t.other - runes, of |-> t.of],
           suffix |-> [ascii |-> plain, other |-> runes,
                       of |-> IF plain + runes > 0 THEN t.of ELSE {}]]

-----------------------------------------------------------------------------
(* The estimator. *)

\* Framing of a message: four tokens, its type, and the names of a tool
\* call or result.
Framing(type) ==
  CASE type = "user" -> 6
    [] type = "assistant" -> 7
    [] type = "runtime_event" -> 9
    [] type = "tool_call" -> 12
    [] type = "tool_result" -> 15

Cost(m) == Framing(m.type) + genericTextTokens(m.text)
Estimate(messages) == BaseCost + SumFunction([i \in DOMAIN messages |-> Cost(messages[i])])

-----------------------------------------------------------------------------
(* Budgets. *)

operationalMaxOutputTokens(w) == Lower(16384, Higher(1, w \div 8))

\* Mutant: the output is not reserved.
budgetsWithoutReserve(w) ==
  LET eighth == w \div 8
  IN [input |-> w,
      safety |-> Lower(4096, Higher(1, eighth)),
      summary |-> Lower(4096, Higher(64, eighth)),
      recent |-> Lower(8192, Higher(64, eighth))]

deriveCompactionBudgets(w) ==
  LET input == Higher(1, w - operationalMaxOutputTokens(w))
      eighth == input \div 8
  IN [input |-> input,
      safety |-> Lower(4096, Higher(1, eighth)),
      summary |-> Lower(4096, Higher(64, eighth)),
      recent |-> Lower(8192, Higher(64, eighth))]

usableInput(budgets) == Higher(1, budgets.input - budgets.safety)
recentTailBudget(usable) == Lower(8192, Higher(2048, usable \div 4))

-----------------------------------------------------------------------------
(* Storage. *)

Checkpoints(ms) == {i \in DOMAIN ms : ms[i].type = "compaction_checkpoint"}
Effective(ms) == DOMAIN ms \ Checkpoints(ms)

\* A message with the fields its type does not use left empty.
Message(type, text) ==
  [type |-> type, text |-> text, calls |-> 0, call |-> 0,
   summary |-> Empty, recent |-> Empty, covers |-> 0, tail |-> 0]

ValidateMessage(m) ==
  CASE m.type \in {"user", "runtime_event"} -> ~Blank(m.text) /\ m.calls = 0 /\ m.call = 0
    [] m.type = "assistant" -> m.calls = 0 /\ m.call = 0
    [] m.type = "tool_call" -> m.calls > 0 /\ m.call = 0
    [] m.type = "tool_result" -> m.calls = 0 /\ m.call > 0
    [] m.type = "compaction_checkpoint" ->
         Blank(m.text) /\ ~Blank(m.summary) /\ m.covers > 0 /\ m.tail > 0

\* Append validates the whole batch and stores it at once, or stores nothing.
CanAppend(batch) == \A i \in DOMAIN batch : ValidateMessage(batch[i])
Append_(batch) ==
  /\ CanAppend(batch)
  /\ Len(transcript) + Len(batch) <= MaxMessages
  /\ transcript' = transcript \o
       [i \in DOMAIN batch |-> [batch[i] EXCEPT !.text.of =
          IF batch[i].type = "compaction_checkpoint" THEN {} ELSE {Len(transcript) + i}]]

-----------------------------------------------------------------------------
(* Checkpoints and the projected request. *)

\* Every checkpoint names two adjacent messages before it, and both are later
\* than those of the checkpoint before.
validCheckpoints(ms) ==
  \A i \in Checkpoints(ms) : LET c == ms[i] IN
    /\ {c.covers, c.tail} \subseteq Effective(ms)
    /\ c.covers < c.tail /\ c.tail < i
    /\ \A k \in Effective(ms) : ~(c.covers < k /\ k < c.tail)
    /\ \A j \in Checkpoints(ms) : j < i => ms[j].covers < c.covers /\ ms[j].tail < c.tail

NoCheckpoint == Message("compaction_checkpoint", Empty)
latestCheckpoint(ms) ==
  IF Checkpoints(ms) = {} THEN NoCheckpoint
  ELSE ms[CHOOSE i \in Checkpoints(ms) : \A j \in Checkpoints(ms) : j <= i]
tailStart(ms) == Higher(1, latestCheckpoint(ms).tail)

\* A round's results follow its calls at once, one for each call.
validateCompactionToolAdjacency(ms) ==
  /\ \A i \in DOMAIN ms : ms[i].type = "tool_call" =>
       /\ i + ms[i].calls <= Len(ms)
       /\ {ms[i + k].call : k \in 1..ms[i].calls} = 1..ms[i].calls
  /\ \A i \in DOMAIN ms : ms[i].type = "tool_result" =>
       \E j \in 1..(i - 1) : ms[j].type = "tool_call" /\ i - j <= ms[j].calls

projectTail(ms, start) ==
  LET kept == InOrder({i \in Effective(ms) : start <= i})
  IN [k \in DOMAIN kept |-> ms[kept[k]]]

\* The types of messages at which a tail may begin.
ConversationBoundary == {"user", "runtime_event"}
ActiveTurnBoundary == {"assistant", "tool_call"}
isActiveTurnBoundary(m) == m.type \in ActiveTurnBoundary

compactedContextPrompt(summary, recent) ==
  CatAll(<<Ascii(174), summary, IF Blank(recent) THEN Empty ELSE Cat(Ascii(37), recent)>>)

\* A tail that begins in the middle of a turn gets a runtime event before it.
appendCompactedTail(projected, tail) ==
  projected
    \o (IF tail # <<>> /\ isActiveTurnBoundary(Head(tail))
        THEN <<Message("runtime_event", Ascii(93))>> ELSE <<>>)
    \o tail

projectCompactedMessages(summary, recent, tail) ==
  appendCompactedTail(<<Message("assistant", compactedContextPrompt(summary, recent))>>, tail)

-----------------------------------------------------------------------------
(* Selecting the tail and the history. *)

\* Mutant: a unit is one message.
unitsOfOne(ms) == DOMAIN ms

\* Where the conversation units of ms begin; results stay with their calls.
conversationUnits(ms) == {i \in DOMAIN ms : ms[i].type # "tool_result"}
Suffix(ms, i) == SubSeq(ms, i, Len(ms))

FirstOf(starts) == IF starts = {} THEN 0 ELSE CHOOSE i \in starts : \A j \in starts : i <= j
LastOf(starts) == CHOOSE i \in starts : \A j \in starts : j <= i

\* What a tail may cost: what the template leaves of the input, at most limit.
Room(left, limit) == IF limit > 0 THEN Lower(left, limit) ELSE left
CostFits(cost, prefix, usable, room) == room > 0 /\ cost <= usable /\ cost - prefix <= room
TailFits(template, tail, prefix, usable, limit) ==
  CostFits(Estimate(appendCompactedTail(template, tail)), prefix, usable,
           Room(Higher(0, usable - prefix), limit))

\* The first message of the longest suffix of whole units that begins at a
\* boundary and, with every shorter one, fits behind the template; 0 if none.
selectRecentTailAtBoundary(template, ms, budgets, boundary, limit) ==
  FirstOf({i \in conversationUnits(ms) :
    /\ ms[i].type \in boundary
    /\ \A j \in conversationUnits(ms) : i <= j =>
         TailFits(template, Suffix(ms, j), Estimate(template), usableInput(budgets), limit)})

selectRecentTail(template, ms, budgets) ==
  selectRecentTailAtBoundary(template, ms, budgets, ConversationBoundary,
                             recentTailBudget(budgets.input - budgets.safety))
selectRecentActiveTurnTail(template, ms, budgets) ==
  selectRecentTailAtBoundary(template, ms, budgets, ActiveTurnBoundary,
                             recentTailBudget(budgets.input - budgets.safety))
selectRecentActiveTurnTailUnbounded(template, ms, budgets) ==
  selectRecentTailAtBoundary(template, ms, budgets, ActiveTurnBoundary, 0)

\* The first of the three selections that finds a tail.
Else(start, other) == IF start > 0 THEN start ELSE other
selectTail(template, ms, budgets) ==
  Else(selectRecentTail(template, ms, budgets),
       Else(selectRecentActiveTurnTail(template, ms, budgets),
            selectRecentActiveTurnTailUnbounded(template, ms, budgets)))

\* A unit as labelled text; a long tool output is cut.
serializeMessage(m) ==
  LET cut == m.type = "tool_result" /\ m.text.ascii + m.text.other > 2000
  IN CatAll(<<Ascii(24), truncateText(m.text, IF cut THEN 2000 ELSE m.text.ascii + m.text.other),
              IF cut THEN Ascii(12) ELSE Empty>>)
serializeCompactionUnit(ms, i) ==
  LET unit == {k \in i..Len(ms) : \A j \in conversationUnits(ms) : j <= k => j <= i}
  IN CatAll([k \in unit |-> serializeMessage(ms[k])])

\* The newest entries within budget tokens, cut inside one entry, and what is
\* older than them.
Tokens(entries) == SumFunction([i \in DOMAIN entries |-> genericTextTokens(entries[i])])
SplitAt(entries, cut, split) ==
  [older |-> joinCompactionContext(Append(SubSeq(entries, 1, cut - 1), split.prefix)),
   recent |-> joinCompactionContext(<<split.suffix>> \o Suffix(entries, cut + 1))]
CutAt(entries, cut, budget) ==
  SplitAt(entries, cut,
          splitGenericTokenSuffix(entries[cut], budget - Tokens(Suffix(entries, cut + 1))))
CutWhere(entries, over, budget) ==
  IF over = {} THEN [older |-> Empty, recent |-> joinCompactionContext(entries)]
  ELSE CutAt(entries, LastOf(over), budget)
CutEntries(entries, budget) ==
  CutWhere(entries, {i \in DOMAIN entries : Tokens(Suffix(entries, i)) > budget}, budget)
Entries(ms, starts) == [i \in DOMAIN starts |-> serializeCompactionUnit(ms, starts[i])]
selectCompactionHistory(ms, budget) ==
  CutEntries(Entries(ms, InOrder(conversationUnits(ms))), budget)

-----------------------------------------------------------------------------
(* One preparation. *)

Budgets == deriveCompactionBudgets(window)
Previous == latestCheckpoint(transcript)
Base == projectTail(transcript, tailStart(transcript))

\* Storage accepts what the compactor refuses: a round without all its
\* results, or a checkpoint that does not follow the one before it.
Readable == validateCompactionToolAdjacency(transcript) /\ validCheckpoints(transcript)

\* The request with the latest checkpoint applied.
ProjectCompactionCheckpoints ==
  IF Previous = NoCheckpoint THEN transcript
  ELSE projectCompactedMessages(Previous.summary, Previous.recent, Base)

Fits(messages) == Estimate(messages) <= usableInput(Budgets)

\* The summary and the recent context at their largest.
selectionTemplate ==
  <<Message("assistant", compactedContextPrompt(Ascii(3 * Budgets.summary),
                                                Ascii(3 * Budgets.recent)))>>

\* Mutant: a forced compaction may keep everything.
UnforcedTail(force, start, units) == IF start = 1 /\ Previous = NoCheckpoint THEN 0 ELSE start

\* Where the verbatim tail begins in Base; 0 if no tail is small enough.  A
\* forced compaction that would keep everything keeps the last unit only.
Tail_(force, start, units) ==
  CASE start # 1 \/ (~force /\ Previous # NoCheckpoint) -> start
    [] start = 1 /\ force /\ Cardinality(units) > 1 -> LastOf(units)
    [] OTHER -> 0
TailAt(force) == Tail_(force, selectTail(selectionTemplate, Base, Budgets), conversationUnits(Base))

\* Mutant: the recent context of the previous checkpoint is not summarized.
PartsOfHead(parts, whole) ==
  [summarized |-> IF whole THEN parts.recent ELSE parts.older,
   recent |-> IF whole THEN Empty ELSE parts.recent]

\* What the summarizer reads and what stays as recent context.
HistoryParts(parts, whole) ==
  [summarized |-> joinCompactionContext(<<Previous.recent,
                    IF whole THEN parts.recent ELSE parts.older>>),
   recent |-> IF whole THEN Empty ELSE parts.recent]
HistoryOf(parts) == HistoryParts(parts, Blank(parts.older) /\ Previous = NoCheckpoint)
History(start) == HistoryOf(selectCompactionHistory(SubSeq(Base, 1, start - 1), Budgets.recent))

\* The one-shot prompt fits the summarizer's window.
PromptFits(history) ==
  51 + Framing("user") + genericTextTokens(CatAll(<<Ascii(1356), Previous.summary, history>>))
    <= Higher(1, window - Budgets.summary)

\* The summary of size s of the previous summary and the history.
summarize(history, s) ==
  truncateText([ascii |-> s[1], other |-> s[2], of |-> Previous.summary.of \cup history.of],
               3 * Budgets.summary)

\* The last message that the tail leaves out.
Covered(start) ==
  IF start = 1 THEN Previous.covers
  ELSE CHOOSE i \in Base[start - 1].text.of : TRUE

Checkpoint(start, summary, recent) ==
  [Message("compaction_checkpoint", Empty) EXCEPT
     !.summary = summary, !.recent = recent, !.covers = Covered(start),
     !.tail = CHOOSE i \in Base[start].text.of : TRUE]

-----------------------------------------------------------------------------
(* The adapter: the request as the provider reads it. *)

Role(m) ==
  CASE m.type \in {"user", "runtime_event"} -> "user"
    [] m.type \in {"assistant", "tool_call"} -> "assistant"
    [] m.type = "tool_result" -> "tool"

transformToolCalls(m) == IF m.type = "tool_call" THEN 1..m.calls ELSE {}
transformToolResult(m) == IF m.type = "tool_result" THEN {m.call} ELSE {}

\* Blank text is left out; calls and results always go.
transformMessages(ms) ==
  LET kept == InOrder({i \in DOMAIN ms : ms[i].type \in {"tool_call", "tool_result"} \/ ~Blank(ms[i].text)})
  IN [k \in DOMAIN kept |->
        [role |-> Role(ms[kept[k]]), calls |-> transformToolCalls(ms[kept[k]]),
         answers |-> transformToolResult(ms[kept[k]])]]

\* Reminders join the last message of the user, or follow as one.
appendContextRemindersAtConversationTail(wire) ==
  IF Last(wire).role = "user" THEN wire
  ELSE Append(wire, [role |-> "user", calls |-> {}, answers |-> {}])

\* System prompts come first, and reminders with them when nobody has spoken.
StartAdapter(ms, reminded) ==
  LET wire == transformMessages(ms)
  IN IF reminded /\ \E i \in DOMAIN wire : wire[i].role = "user"
     THEN appendContextRemindersAtConversationTail(wire) ELSE wire

-----------------------------------------------------------------------------
(* The session. *)

Request(messages, compacted) ==
  [messages |-> messages, compacted |-> compacted,
   output |-> IF auto THEN operationalMaxOutputTokens(window) ELSE 0]

NoRequest == [messages |-> <<>>, compacted |-> FALSE, output |-> 0]

Init ==
  /\ transcript = <<>>
  /\ window \in Windows
  /\ auto = TRUE
  /\ phase = "idle"
  /\ calls = 0
  /\ request = NoRequest
  /\ restarts = 0

FailTurn ==
  /\ phase' = "idle" /\ request' = NoRequest
  /\ UNCHANGED <<transcript, window, auto, calls, restarts>>

\* A turn begins with the user's message or with a runtime event.
StartTurn(p) ==
  /\ phase = "idle"
  /\ Append_(<<Message(p.type, Sized(p.size))>>)
  /\ phase' = "round"
  /\ UNCHANGED <<window, auto, calls, request, restarts>>

\* A preparation that cannot go on: the transcript cannot be read, no tail
\* fits, or the prompt is too large for the summarizer.
PrepareFails(force) ==
  /\ \/ ~Readable
     \/ /\ force \/ ~Fits(ProjectCompactionCheckpoints)
        /\ \E start \in {TailAt(force)} :
             start = 0 \/ ~PromptFits(History(start).summarized)
  /\ FailTurn

\* The request fits: it is sent with the latest checkpoint applied.
PrepareFits ==
  /\ Readable /\ Fits(ProjectCompactionCheckpoints)
  /\ request' = Request(ProjectCompactionCheckpoints, FALSE)
  /\ phase' = "start"
  /\ UNCHANGED <<transcript, window, auto, calls, restarts>>

\* The summarizer answers, and the checkpoint is stored before the request
\* that relies on it is sent.  The summarizer or the store may also fail.
PrepareCompacts(force) ==
  /\ Readable
  /\ force \/ ~Fits(ProjectCompactionCheckpoints)
  /\ \E start \in {TailAt(force)} \ {0} : \E history \in {History(start)} :
       /\ PromptFits(history.summarized)
       /\ \/ FailTurn
          \/ \E s \in Summaries : \E summary \in {summarize(history.summarized, s)} :
             \E projected \in {projectCompactedMessages(summary, history.recent, Suffix(Base, start))} :
               \/ (Blank(summary) \/ ~Fits(projected)) /\ FailTurn
               \/ /\ ~Blank(summary) /\ Fits(projected)
                  /\ Append_(<<Checkpoint(start, summary, history.recent)>>)
                  /\ request' = Request(projected, TRUE)
                  /\ phase' = "start"
                  /\ UNCHANGED <<window, auto, calls, restarts>>

\* startProvider before each round of a turn.
Prepare ==
  /\ phase = "round" /\ auto
  /\ PrepareFails(FALSE) \/ PrepareFits \/ PrepareCompacts(FALSE)

\* The same with automatic compaction disabled.
Project ==
  /\ phase = "round" /\ ~auto
  /\ \/ ~Readable /\ FailTurn
     \/ /\ Readable
        /\ request' = Request(ProjectCompactionCheckpoints, FALSE)
        /\ phase' = "start"
        /\ UNCHANGED <<transcript, window, auto, calls, restarts>>

\* The provider takes the request, or finds that it exceeds its context
\* window: the first time, one compaction is forced.
ModelAccepts ==
  /\ phase = "start"
  /\ phase' = "streaming"
  /\ UNCHANGED <<transcript, window, auto, calls, request, restarts>>

ModelRejects ==
  /\ phase = "start"
  /\ IF auto /\ ~request.compacted
     THEN phase' = "force" /\ UNCHANGED <<transcript, window, auto, calls, request, restarts>>
     ELSE FailTurn

ForceCompaction ==
  /\ phase = "force"
  /\ PrepareFails(TRUE) \/ PrepareCompacts(TRUE)

\* The model answers and the turn ends, or calls tools.
Answer(size) ==
  /\ phase = "streaming"
  /\ Append_(<<Message("assistant", Sized(size))>>)
  /\ phase' = "idle" /\ request' = NoRequest
  /\ UNCHANGED <<window, auto, calls, restarts>>

\* The output guard or the completion guard wants another answer: nothing is
\* stored, and a reminder joins the next request.
RetryAnswer ==
  /\ phase = "streaming"
  /\ phase' = "round" /\ request' = NoRequest
  /\ UNCHANGED <<transcript, window, auto, calls, restarts>>

CallTools(n) ==
  /\ phase = "streaming"
  /\ Append_(<<[Message("tool_call", Ascii(60)) EXCEPT !.calls = n]>>)
  /\ phase' = "tools" /\ calls' = n /\ request' = NoRequest
  /\ UNCHANGED <<window, auto, restarts>>

Results(outputs) ==
  [k \in DOMAIN outputs |->
     [Message("tool_result", Sized(outputs[k]))
        EXCEPT !.call = k]]

\* The results are stored together when the last one is there.
ToolsDone(outputs) ==
  /\ phase = "tools"
  /\ Append_(Results(outputs))
  /\ phase' = "round" /\ calls' = 0
  /\ UNCHANGED <<window, auto, request, restarts>>

\* An interrupt while the calls are dispatched: the calls after it get no
\* result.
InterruptTools(outputs) ==
  /\ phase = "tools"
  /\ Append_(Results(outputs))
  /\ phase' = "idle" /\ calls' = 0
  /\ UNCHANGED <<window, auto, request, restarts>>

\* The application restarts with another model, or with automatic compaction
\* switched, and resumes the session.
Restart(w, enabled) ==
  /\ phase = "idle" /\ restarts < MaxRestarts
  /\ <<w, enabled>> # <<window, auto>>
  /\ window' = w /\ auto' = enabled
  /\ restarts' = restarts + 1
  /\ UNCHANGED <<transcript, phase, calls, request>>

Next ==
  \/ \E p \in Prompts : StartTurn(p)
  \/ Prepare \/ Project \/ ModelAccepts \/ ModelRejects \/ ForceCompaction
  \/ \E size \in Answers : Answer(size)
  \/ RetryAnswer
  \/ \E n \in 1..MaxBatch : CallTools(n)
  \/ \E outputs \in [1..calls -> Outputs] : ToolsDone(outputs)
  \/ \E n \in 0..(calls - 1) : \E outputs \in [1..n -> Outputs] : InterruptTools(outputs)
  \/ \E w \in Windows, enabled \in BOOLEAN : Restart(w, enabled)

Spec == Init /\ [][Next]_vars

-----------------------------------------------------------------------------
(* Properties. *)

Sent == phase \in {"start", "streaming"}
Verbatim(messages) == {i \in DOMAIN transcript : Contains(messages, transcript[i])}

\* However often a session is compacted, restarted and resumed, the request
\* sent to the model accounts for every stored message, once: in the summary
\* or the recent context, or verbatim behind them.
NothingForgotten ==
  Sent => LET ms == request.messages IN
    /\ UNION {ms[i].text.of : i \in DOMAIN ms} = Effective(transcript)
    /\ \A i, j \in DOMAIN ms : i # j => ms[i].text.of \cap ms[j].text.of = {}

\* With or without reminders, the provider reads a request it takes: a
\* round's calls are answered at once, each result by its call, no two
\* messages of the model in a row, and the last word not the model's ("a
\* repair request does not end with consecutive assistant messages",
\* adapter.go:150).
RequestIsLegal ==
  Sent => \A reminded \in BOOLEAN :
    LET wire == StartAdapter(request.messages, reminded)
        Answers_(i) == {k \in (i + 1)..Len(wire) : \A j \in (i + 1)..k : wire[j].role = "tool"}
    IN /\ \A i \in DOMAIN wire : wire[i].role = "assistant" =>
            UNION {wire[k].answers : k \in Answers_(i)} = wire[i].calls
       /\ \A i \in DOMAIN wire : wire[i].role = "tool" =>
            i > 1 /\ wire[i - 1].role \in {"assistant", "tool"}
       /\ \A i \in 2..Len(wire) : ~(wire[i].role = "assistant" /\ wire[i - 1].role = "assistant")
       /\ wire # <<>> /\ Last(wire).role # "assistant"

\* With compaction enabled, a request, the output it may generate and a margin
\* of an eighth of the input for the estimator's error fit the context window
\* of the model in use (windows up to 32768).
RequestFits ==
  Sent /\ auto =>
    Estimate(request.messages) + request.output + (window - request.output) \div 8 <= window

\* The request of a forced compaction keeps fewer messages than the request
\* the provider has just refused.
ForcedSendsLess ==
  [][phase = "force" /\ phase' = "start" =>
       /\ Verbatim(request'.messages) \subseteq Verbatim(request.messages)
       /\ Verbatim(request'.messages) # Verbatim(request.messages)]_vars

\* "Checkpoint boundaries must be contiguous and monotonic across repeated
\* compactions" (docs/agents/architecture/compaction.md:86-87).
BoundariesAdvance == validCheckpoints(transcript)
=============================================================================
