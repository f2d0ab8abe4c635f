------------------------- MODULE TaskDeliveryProofs -------------------------
(***************************************************************************)
(* What holds of a retained task however many calls resume it and however  *)
(* many messages are sent to it: one owner for each result, the event of a *)
(* foreground turn before its call returns, the mailbox's order, and a     *)
(* record that can be resumed after Agent.Close.                           *)
(*                                                                         *)
(* TaskInv is inductive.  Its parts build on each other: who holds a lock  *)
(* (Locked), what the record says of the turns (Recorded) and what each    *)
(* call knows (Called) come first; then the claims of a result (Claims),   *)
(* on which the fence rests (Fenced), and, apart from them, the shutdown   *)
(* (Retained) and the mailbox (Mailbox).  Each part has a lemma with one   *)
(* step per action.                                                        *)
(***************************************************************************)
EXTENDS TaskDelivery, SequenceTheorems, TLAPS

\* What a step leaves alone is always spelled out.
USE DEF outside, record, instance, manager, calls

-----------------------------------------------------------------------------
(* Types. *)

TurnOrNone == Turn \cup {None}
Publications == [step : PublishStep, turn : TurnOrNone, output : TurnOrNone, foreground : BOOLEAN]
Delivery == [turn : Turn, output : Turn]

RecordTypes ==
  /\ status \in {"none", "running", "idle", "closed"}
  /\ currentTurn \in TurnOrNone /\ lastTurn \in TurnOrNone /\ activeDelivery \in TurnOrNone
  /\ pending \in Seq(Message)
  /\ agentLive \in BOOLEAN
InstanceTypes ==
  /\ instanceRun \in TurnOrNone /\ instanceMu \in TurnOrNone
  /\ run \in [Turn -> {"none", "running", "done"}]
  /\ monitor \in [Turn -> MonitorStep]
  /\ next \in Message \cup {None}
ManagerTypes ==
  /\ taskExecutions \subseteq Turn /\ taskDeliverySeen \subseteq Turn
  /\ taskRegistrationMu \in Call \cup {None}
  /\ waiters \subseteq Call
  /\ closing \in {"no", "closed", "done"}
  /\ shutdown \in ShutdownStep
  /\ faults \in {{}, Failures}
PubTypes == pub \in [Publisher -> Publications]
CallTypes ==
  /\ pc \in [Call -> CallStep]
  /\ turnOf \in [Call -> TurnOrNone]
  /\ result \in [Call -> {"none", "running", "final", "error"}]
OutsideTypes ==
  /\ sent \in Seq(Message) /\ started \in Seq(Message)
  /\ assigned \subseteq Turn
  /\ completed \in Seq(Turn)
  /\ accepted \in Seq(Delivery)

\* The type invariant, in parts that are opaque to a proof.
LEMMA TypeParts ==
  TypeOK <=> RecordTypes /\ InstanceTypes /\ ManagerTypes /\ PubTypes /\ CallTypes /\ OutsideTypes
  BY
  DEF TypeOK, RecordTypes, InstanceTypes, ManagerTypes, PubTypes, CallTypes, OutsideTypes, TurnOrNone,
     Publications, Delivery

\* Calls, messages and None are different.
LEMMA Turns == /\ Call \subseteq Turn /\ Message \subseteq Turn /\ None \notin Turn
               /\ Turn \subseteq TurnOrNone /\ None \in TurnOrNone
               /\ Creator \in Call /\ None \notin Call /\ None \notin Message
               /\ \A x \in Call : x \notin Message
               /\ \A x \in TurnOrNone : x # None => x \in Turn
               /\ \A x \in Turn : x \in Call \/ x \in Message
  BY ConstantsAssumption DEF Turn, TurnOrNone

\* What the mailbox is made with.
LEMMA Queues ==
  /\ <<>> \in Seq(Message)
  /\ \A q \in Seq(Message) :
       /\ \A m \in Message : Append(q, m) \in Seq(Message)
       /\ q # <<>> => Head(q) \in Message /\ Tail(q) \in Seq(Message)
  OBVIOUS

\* The places of a call, as members of their set.
LEMMA Steps ==
  /\ "idle" \in CallStep /\ "created" \in CallStep /\ "adopt" \in CallStep /\ "lookup" \in CallStep
  /\ "resume" \in CallStep /\ "resuming" \in CallStep /\ "waitRun" \in CallStep
  /\ "lifecycle" \in CallStep /\ "lifecycleLoad" \in CallStep /\ "lifecycleBlocked" \in CallStep
  /\ "fence" \in CallStep /\ "fenceLoad" \in CallStep /\ "fenceBlocked" \in CallStep
  /\ "register" \in CallStep /\ "registerScope" \in CallStep /\ "registerStore" \in CallStep
  /\ "publishing" \in CallStep /\ "returned" \in CallStep
  BY DEF CallStep

\* A publication in progress is a Publications record ...
LEMMA PublicationType ==
  ASSUME NEW s \in PublishStep, NEW t \in TurnOrNone, NEW o \in TurnOrNone, NEW f \in BOOLEAN
  PROVE  Publication(s, t, o, f) \in Publications
  BY DEF Publication, Publications

\* ... and so are its fields what they should be.
LEMMA PublicationsFields ==
  ASSUME NEW x \in Publications
  PROVE  x.step \in PublishStep /\ x.turn \in TurnOrNone /\ x.output \in TurnOrNone /\ x.foreground \in BOOLEAN
  BY DEF Publications

\* The places of a publication.
LEMMA PublishSteps ==
  /\ "idle" \in PublishStep /\ "claim" \in PublishStep /\ "event" \in PublishStep /\ "accept" \in PublishStep
  /\ "clear" \in PublishStep /\ "unmark" \in PublishStep
  BY DEF PublishStep

\* Nothing is being published.
LEMMA NoPublicationIs ==
  /\ NoPublication \in Publications /\ NoPublication.step = "idle"
  BY DEF NoPublication, Publication, Publications, PublishStep, TurnOrNone

\* One publisher goes on; the other does not.
LEMMA Advances ==
  ASSUME PubTypes, NEW p \in Publisher, NEW s \in PublishStep, Advance(p, s)
  PROVE  /\ PubTypes'
         /\ \A q \in Publisher : q # p => pub'[q] = pub[q]
         /\ pub'[p].step = s
         /\ s # "idle" => pub'[p].turn = pub[p].turn /\ pub'[p].output = pub[p].output
                          /\ pub'[p].foreground = pub[p].foreground
<1> DEFINE x == IF s = "idle" THEN NoPublication ELSE Publication(s, pub[p].turn, pub[p].output, pub[p].foreground)
<1>1. pub \in [Publisher -> Publications] BY DEF PubTypes
<1>2. pub[p] \in Publications BY <1>1
<1>3. pub[p].turn \in TurnOrNone /\ pub[p].output \in TurnOrNone /\ pub[p].foreground \in BOOLEAN
  BY <1>2, PublicationsFields
<1>4. x \in Publications
  <2>1. CASE s = "idle" BY <2>1, NoPublicationIs
  <2>2. CASE s # "idle"
    <3>1. Publication(s, pub[p].turn, pub[p].output, pub[p].foreground) \in Publications
      BY <1>3, PublicationType, Zenon
    <3> QED BY <2>2, <3>1
  <2> QED BY <2>1, <2>2
<1>5. pub' = [pub EXCEPT ![p] = x] BY DEF Advance
<1>6. x.step = s /\ (s # "idle" => x.turn = pub[p].turn /\ x.output = pub[p].output /\
          x.foreground = pub[p].foreground)
  <2>1. CASE s = "idle" BY <2>1, NoPublicationIs
  <2>2. CASE s # "idle"
    <3>1. x = Publication(s, pub[p].turn, pub[p].output, pub[p].foreground) BY <2>2
    <3> HIDE DEF x
    <3> QED BY <2>2, <3>1 DEF Publication
  <2> QED BY <2>1, <2>2
<1> HIDE DEF x
<1>7. pub'[p] = x /\ (\A q \in Publisher : q # p => pub'[q] = pub[q]) /\ pub' \in [Publisher -> Publications]
  BY <1>1, <1>4, <1>5
<1> QED BY <1>6, <1>7 DEF PubTypes

\* What a registration and a monitor begin to publish.
LEMMA Begins ==
  ASSUME NEW t \in TurnOrNone, NEW o \in TurnOrNone, NEW f \in BOOLEAN
  PROVE  LET x == Publication("claim", t, o, f)
         IN x \in Publications /\ x.step = "claim" /\ x.turn = t /\ x.output = o /\ x.foreground = f
  BY DEF Publication, Publications, PublishStep

\* What a monitor publishes carries the output of its own turn, and goes to the
\* active delivery or is the completion of a foreground turn.
LEMMA Terminal ==
  ASSUME activeDelivery \in TurnOrNone, NEW t \in Turn
  PROVE  LET x == TerminalPublication(t)
         IN /\ x \in Publications /\ x.step \in {"idle", "claim"}
            /\ x.step # "idle" => /\ x.output = t /\ x.turn # None
                                  /\ x.foreground => x.turn = t
                                  /\ ~x.foreground => x.turn = activeDelivery
<1>1. CASE activeDelivery # None
  <2>1. PICK f \in BOOLEAN : f = FALSE OBVIOUS
  <2>2. TerminalPublication(t) = Publication("claim", activeDelivery, t, f)
    BY <1>1, <2>1 DEF TerminalPublication
  <2> QED BY <1>1, <2>1, <2>2, Begins, Turns
<1>2. CASE activeDelivery = None /\ t \in taskExecutions
  <2>1. PICK f \in BOOLEAN : f = TRUE OBVIOUS
  <2>2. TerminalPublication(t) = Publication("claim", t, t, f) BY <1>2, <2>1 DEF TerminalPublication
  <2>3. t \in TurnOrNone /\ t # None BY Turns
  <2> DEFINE x == Publication("claim", t, t, f)
  <2>4. x \in Publications /\ x.step = "claim" /\ x.turn = t /\ x.output = t /\ x.foreground = f
    BY <2>3, Begins
  <2> HIDE DEF x
  <2>5. TerminalPublication(t) = x BY <2>2 DEF x
  <2> QED BY <2>1, <2>3, <2>4, <2>5
<1>3. CASE activeDelivery = None /\ t \notin taskExecutions
  <2>1. TerminalPublication(t) = NoPublication BY <1>3 DEF TerminalPublication
  <2> QED BY <2>1, NoPublicationIs
<1> QED BY <1>1, <1>2, <1>3

\* A publisher that begins.
LEMMA PubSet ==
  ASSUME PubTypes, NEW p \in Publisher, NEW x \in Publications, pub' = [pub EXCEPT ![p] = x]
  PROVE  PubTypes' /\ pub'[p] = x /\ \A q \in Publisher : q # p => pub'[q] = pub[q]
<1> QED BY DEF PubTypes

\* Where the sequence of a publication goes.
LEMMA Goes ==
  ASSUME NEW p \in Publisher, Publish(p)
  PROVE  \E s \in PublishStep : Advance(p, s)
<1>1. CASE ClaimTaskCompletion(p)
  <2> DEFINE s == IF FirstClaim(pub[p].turn) THEN "event" ELSE IF pub[p].foreground THEN "unmark" ELSE "idle"
  <2>1. Advance(p, s) BY <1>1, Zenon DEF ClaimTaskCompletion
  <2>2. s \in PublishStep BY PublishSteps
  <2> QED BY <2>1, <2>2, Zenon
<1>2. CASE PublishTaskCompleted(p)
  <2> DEFINE s == IF pub[p].foreground THEN "unmark" ELSE "accept"
  <2>1. Advance(p, s) BY <1>2, Zenon DEF PublishTaskCompleted
  <2>2. s \in PublishStep BY PublishSteps
  <2> QED BY <2>1, <2>2, Zenon
<1>3. CASE AcceptTaskDelivery(p) BY <1>3, PublishSteps, Zenon DEF AcceptTaskDelivery
<1>4. CASE ClearTaskDelivery(p) BY <1>4, PublishSteps, Zenon DEF ClearTaskDelivery
<1>5. CASE UnmarkTaskExecution(p) BY <1>5, PublishSteps, Zenon DEF UnmarkTaskExecution
<1> QED BY <1>1, <1>2, <1>3, <1>4, <1>5, Zenon DEF Publish

-----------------------------------------------------------------------------
(* The invariant. *)

Waits == {"waitRun", "lifecycle", "lifecycleLoad", "lifecycleBlocked", "fence", "fenceLoad", "fenceBlocked"}
Registers == {"register", "registerScope", "registerStore", "publishing"}
Holds == {"publishing", "startNext"}

\* A call that has been made, or a turn that needs none.
Begun(t) == t \in Message \cup {Creator} \/ pc[t] # "idle"

\* The delivery of t has been promised by the call that waited for it.
Registered(t) == \E c \in Call : turnOf[c] = t /\ (pc[c] = "publishing" \/ result[c] = "running")

Locked ==
  /\ \A t \in Turn : run[t] = "none" <=> monitor[t] = "none"
  /\ \A t \in Turn : monitor[t] \in Holds => instanceMu = t /\ status = "idle"
  /\ \A t \in Turn : monitor[t] = "startNext" => next \in Message
  /\ instanceMu \in Call => monitor[instanceMu] \in Holds \/ pc[instanceMu] = "resuming"
  /\ \A c \in Call : pc[c] \in {"registerScope", "registerStore", "publishing"} => taskRegistrationMu = c
  /\ pub["monitor"].step # "idle" => \E t \in Turn : monitor[t] = "publishing"
  /\ pub["registration"].step # "idle" => \E c \in Call : pc[c] = "publishing"

Recorded ==
  /\ status = "none" => /\ \A c \in Call : pc[c] \in {"idle", "returned"}
                        /\ instanceMu = None /\ instanceRun = None
                        /\ pending = <<>> /\ ~agentLive /\ sent = <<>> /\ started = <<>>
  /\ status = "running" => currentTurn # None
  /\ status = "idle" => lastTurn # None
  /\ status = "closed" => pending = <<>> /\ ~agentLive
  /\ \A t \in {currentTurn, lastTurn, instanceMu} : t = None \/ Begun(t)
  /\ \A t \in Turn : run[t] # "none" => Begun(t)

CallInv(c) ==
  /\ pc[c] \in {"created", "adopt", "lookup"} => c = Creator
  /\ pc[c] \in {"resume", "resuming"} => c # Creator
  /\ turnOf[c] \in {None, c} \cup (IF c = Creator THEN Message ELSE {})
  /\ pc[c] \in Waits \cup Registers => turnOf[c] # None
  /\ result[c] = "none" \/ pc[c] \in {"fence", "fenceLoad", "fenceBlocked", "returned"}
  /\ result[c] = "final" => turnOf[c] # None
  /\ result[c] = "running" => pc[c] = "returned"

Called ==
  /\ \A c \in Call : CallInv(c)
  /\ pc[Creator] \in {"idle", "created", "adopt", "lookup"} =>
       activeDelivery = None /\ \A c \in Call : c # Creator => pc[c] = "idle"

InCompleted(t) == \E i \in DOMAIN completed : completed[i] = t
InAccepted(t) == \E i \in DOMAIN accepted : accepted[i].turn = t

Once ==
  /\ \A i, j \in DOMAIN completed : completed[i] = completed[j] => i = j
  /\ \A i, j \in DOMAIN accepted : accepted[i].turn = accepted[j].turn => i = j

\* What p publishes was claimed by p, and promised unless it is a foreground
\* turn's completion.
Claimant(p) ==
  /\ pub[p].step # "idle" =>
       /\ pub[p].turn # None /\ pub[p].output # None
       /\ ~pub[p].foreground => Registered(pub[p].turn)
       /\ pub[p].foreground => p = "monitor" /\ pub[p].step \in {"claim", "event", "unmark"}
  /\ pub[p].step = "event" => ~InCompleted(pub[p].turn)
  /\ pub[p].step \in {"event", "accept"} => pub[p].turn \in taskDeliverySeen /\ ~InAccepted(pub[p].turn)
  /\ pub[p].step = "unmark" => InCompleted(pub[p].turn) \/ Registered(pub[p].turn)

Claims ==
  /\ \A p \in Publisher : Claimant(p)
  /\ \A p, q \in Publisher :
       p # q /\ pub[p].step \in {"event", "accept"} /\ pub[q].step \in {"event", "accept"} =>
            pub[p].turn # pub[q].turn
  /\ \A t \in Turn : InCompleted(t) => t \in taskDeliverySeen
  /\ \A t \in Turn : InAccepted(t) => t \in taskDeliverySeen /\ Registered(t)
  /\ \A t \in taskDeliverySeen : InCompleted(t) \/ \E p \in Publisher : pub[p].step = "event" /\ pub[p].turn = t
  /\ activeDelivery # None => Registered(activeDelivery)
  /\ Once

Marked(c) == c \in taskExecutions \/ InCompleted(c) \/ Registered(c)
Fenced ==
  /\ \A c \in Call : pc[c] \in {"created", "adopt", "lookup", "resuming"} => Marked(c)
  /\ \A c \in Call : pc[c] \in Waits /\ turnOf[c] = c => Marked(c)
  /\ EventBeforeReturn

Retained ==
  /\ Closed => faults = {}
  /\ shutdown \notin {"no", "closed"} /\ status = "running" => instanceMu # None

Quiet == faults = {} /\ ~Closed
Prefix(a, b) == Len(a) <= Len(b) /\ \A i \in 1..Len(a) : a[i] = b[i]
Hand == IF instanceMu # None /\ monitor[instanceMu] = "startNext" THEN <<next>> ELSE <<>>
Row(a, h, b) == (a \o h) \o b
Line == Row(started, Hand, pending)
Served ==
  /\ status = "running" \/ instanceMu # None => agentLive
  /\ instanceMu # None => monitor[instanceMu] \in Holds \/ status = "running"
  /\ instanceRun # None => status \in {"running", "closed"}
  /\ pc[Creator] = "created" => instanceRun = None /\ instanceMu = None /\ status \in {"running", "closed"}
  /\ status = "idle" /\ instanceMu = None => pending = <<>>
Ordered == Prefix(Line, sent) /\ (status # "closed" => sent = Line)
Mailbox == Quiet => Served /\ Ordered

\* The types of the record.
LEMMA RecordTypeNext ==
  ASSUME TypeOK, Recorded, Locked, [Next]_vars
  PROVE  RecordTypes'
<1>1. ASSUME CreateTask PROVE RecordTypes'
  BY <1>1, TypeParts, Turns DEF CreateTask, Goto, Return, RecordTypes, InstanceTypes
<1>2. ASSUME StartCreated PROVE RecordTypes'
  BY <1>2, TypeParts, Turns, Queues
  DEF StartCreated, MayStart, StartTurnLocked, SignalChanged, Goto, Return, RecordTypes,
      InstanceTypes
<1>3. ASSUME ReadStarted PROVE RecordTypes'
  BY <1>3, TypeParts, Turns
  DEF ReadStarted, Goto, RecordTypes, InstanceTypes
<1>4. ASSUME AdoptRun PROVE RecordTypes'
  BY <1>4, TypeParts, Turns
  DEF AdoptRun, AfterStart, Goto, Return, RecordTypes, InstanceTypes
<1>5. ASSUME NEW c \in Call, ResumeBegin(c) PROVE RecordTypes'
  BY <1>5, TypeParts, Turns
  DEF ResumeBegin, Resumable, Goto, Return, RecordTypes, InstanceTypes
<1>6. ASSUME NEW c \in Call, ResumeTask(c) PROVE RecordTypes'
  BY <1>6, TypeParts, Turns
  DEF ResumeTask, Resumable, EnsureAgentLocked, Goto, Return, RecordTypes, InstanceTypes
<1>7. ASSUME NEW c \in Call, CancelCall(c) PROVE RecordTypes'
  BY <1>7, TypeParts, Turns
  DEF CancelCall, Goto, RecordTypes, InstanceTypes
<1>8. ASSUME NEW c \in Call, PromoteTask(c) PROVE RecordTypes'
  BY <1>8, TypeParts, Turns
  DEF PromoteTask, Goto, RecordTypes, InstanceTypes
<1>9. ASSUME NEW c \in Call, WaitRunDone(c) PROVE RecordTypes'
  BY <1>9, TypeParts, Turns
  DEF WaitRunDone, Goto, RecordTypes, InstanceTypes
<1>10. ASSUME NEW c \in Call, WaitLifecycle(c) PROVE RecordTypes'
  BY <1>10, TypeParts, Turns
  DEF WaitLifecycle, Goto, RecordTypes, InstanceTypes
<1>11. ASSUME NEW c \in Call, WaitPublication(c) PROVE RecordTypes'
  BY <1>11, TypeParts, Turns
  DEF WaitPublication, LoadFence, Publishing, Goto, RecordTypes, InstanceTypes
<1>12. ASSUME NEW c \in Call, RegisterBegin(c) PROVE RecordTypes'
  BY <1>12, TypeParts, Turns
  DEF RegisterBegin, Goto, Return, RecordTypes, InstanceTypes
<1>13. ASSUME NEW c \in Call, RegisterScope(c) PROVE RecordTypes'
  BY <1>13, TypeParts, Turns DEF RegisterScope, Goto, RecordTypes, InstanceTypes
<1>14. ASSUME NEW c \in Call, RegisterStore(c) PROVE RecordTypes'
  BY <1>14, TypeParts, Turns
  DEF RegisterStore, Publication, Goto, Return, RecordTypes, InstanceTypes, CallTypes
<1>15. ASSUME NEW c \in Call, RegisterDone(c) PROVE RecordTypes'
  BY <1>15, TypeParts, Turns
  DEF RegisterDone, Goto, Return, RecordTypes, InstanceTypes
<1>16. ASSUME NEW p \in Publisher, ClaimTaskCompletion(p) PROVE RecordTypes'
  BY <1>16, TypeParts, Turns
  DEF ClaimTaskCompletion, Advance, FirstClaim, Publication, NoPublication, RecordTypes,
      InstanceTypes
<1>17. ASSUME NEW p \in Publisher, PublishTaskCompleted(p) PROVE RecordTypes'
  BY <1>17, TypeParts, Turns
  DEF PublishTaskCompleted, Advance, Publication, NoPublication, RecordTypes, InstanceTypes
<1>18. ASSUME NEW p \in Publisher, AcceptTaskDelivery(p) PROVE RecordTypes'
  BY <1>18, TypeParts, Turns
  DEF AcceptTaskDelivery, Advance, Publication, NoPublication, RecordTypes, InstanceTypes
<1>19. ASSUME NEW p \in Publisher, ClearTaskDelivery(p) PROVE RecordTypes'
  BY <1>19, TypeParts, Turns
  DEF ClearTaskDelivery, Advance, Publication, NoPublication, RecordTypes, InstanceTypes
<1>20. ASSUME NEW p \in Publisher, UnmarkTaskExecution(p) PROVE RecordTypes'
  BY <1>20, TypeParts, Turns
  DEF UnmarkTaskExecution, Advance, Publication, NoPublication, SignalChanged, RecordTypes,
      InstanceTypes
<1>21. ASSUME NEW t \in Turn, StartTurn(t) PROVE RecordTypes'
  BY <1>21, TypeParts, Turns
  DEF StartTurn, MayStart, StartTurnLocked, SignalChanged, AfterStart, TurnOver, Goto, Return,
      RecordTypes, InstanceTypes
<1>22. ASSUME NEW t \in Turn, RunEnds(t) PROVE RecordTypes'
  BY <1>22, TypeParts, Turns DEF RunEnds, RecordTypes, InstanceTypes
<1>23. ASSUME NEW t \in Turn, MonitorEvent(t) PROVE RecordTypes'
  BY <1>23, TypeParts, Turns
  DEF MonitorEvent, SignalChanged, RecordTypes, InstanceTypes
<1>24. ASSUME NEW t \in Turn, MonitorFold(t) PROVE RecordTypes'
  BY <1>24, TypeParts, Turns
  DEF MonitorFold, TurnOver, SignalChanged, TerminalPublication, Publication, NoPublication,
      RecordTypes, InstanceTypes
<1>25. ASSUME NEW t \in Turn, MonitorDequeue(t) PROVE RecordTypes'
  BY <1>25, TypeParts, Turns, Queues, ZenonT(40)
  DEF MonitorDequeue, HasNext, RecordTypes, InstanceTypes
<1>26. ASSUME NEW t \in Turn, MonitorNext(t) PROVE RecordTypes'
  BY <1>26, TypeParts, Turns DEF MonitorNext, RecordTypes, InstanceTypes
<1>27. ASSUME NEW m \in Message, Send(m) PROVE RecordTypes'
  <2>1. /\ agentLive \in BOOLEAN /\ pending \in Seq(Message) /\ m \in TurnOrNone
        /\ lastTurn \in TurnOrNone /\ activeDelivery \in TurnOrNone /\ currentTurn \in TurnOrNone
        /\ status \in {"none", "running", "idle", "closed"}
    BY TypeParts, Turns DEF RecordTypes
  <2>2. agentLive' \in BOOLEAN BY <1>27, <2>1 DEF Send, EnsureAgentLocked
  <2>3. pending' \in Seq(Message)
    <3>1. pending' = pending \/ pending' = Append(pending, m) BY <1>27 DEF Send, Enqueue
    <3> QED BY <2>1, <3>1, Queues
  <2>4. /\ lastTurn' = lastTurn /\ activeDelivery' = activeDelivery
        /\ currentTurn' = currentTurn \/ currentTurn' = m
        /\ status' = status \/ status' = "running"
    BY <1>27 DEF Send
  <2> QED BY <2>1, <2>2, <2>3, <2>4 DEF RecordTypes
<1>28. ASSUME CloseRecord PROVE RecordTypes'
  BY <1>28, TypeParts, Turns, Queues DEF CloseRecord, RecordTypes, InstanceTypes
<1>29. ASSUME CloseFinish PROVE RecordTypes'
  BY <1>29, TypeParts, Turns
  DEF CloseFinish, SignalChanged, RecordTypes, InstanceTypes
<1>30. ASSUME ShutdownBegin PROVE RecordTypes'
  BY <1>30, TypeParts, Turns
  DEF ShutdownBegin, Shutdown, RecordTypes, InstanceTypes
<1>31. ASSUME RetainForShutdown PROVE RecordTypes'
  BY <1>31, TypeParts, Turns
  DEF RetainForShutdown, Shutdown, RetainRecord, TurnOver, RecordTypes, InstanceTypes
<1>32. ASSUME ReleaseAgent PROVE RecordTypes'
  BY <1>32, TypeParts, Turns
  DEF ReleaseAgent, Shutdown, RecordTypes, InstanceTypes
<1>33. ASSUME ShutdownSignal PROVE RecordTypes'
  BY <1>33, TypeParts, Turns
  DEF ShutdownSignal, Shutdown, SignalChanged, RecordTypes, InstanceTypes
<1>34. ASSUME ShutdownCancel PROVE RecordTypes'
  BY <1>34, TypeParts, Turns
  DEF ShutdownCancel, Shutdown, RecordTypes, InstanceTypes
<1>35. ASSUME ShutdownWait PROVE RecordTypes'
  BY <1>35, TypeParts, Turns
  DEF ShutdownWait, Shutdown, RecordTypes, InstanceTypes
<1>36. CASE UNCHANGED vars
  BY <1>36, TypeParts, Turns DEF vars, RecordTypes, InstanceTypes
<1> QED
  BY <1>1, <1>2, <1>3, <1>4, <1>5, <1>6, <1>7, <1>8, <1>9, <1>10, <1>11, <1>12, <1>13, <1>14, <1>15, <1>16,
     <1>17, <1>18, <1>19, <1>20, <1>21, <1>22, <1>23, <1>24, <1>25, <1>26, <1>27, <1>28, <1>29, <1>30, <1>31,
     <1>32, <1>33, <1>34, <1>35, <1>36, Zenon
  DEF Next, StartStep, CallProgress, MonitorProgress, Publish, CloseAgent

\* The types of the instance.
LEMMA InstanceTypeNext ==
  ASSUME TypeOK, Locked, [Next]_vars
  PROVE  InstanceTypes'
<1>1. ASSUME CreateTask PROVE InstanceTypes'
  BY <1>1, TypeParts, Turns
  DEF CreateTask, Goto, Return, RecordTypes, InstanceTypes, CallTypes, MonitorStep
<1>2. ASSUME StartCreated PROVE InstanceTypes'
  BY <1>2, TypeParts, Turns, SMTT(20)
  DEF StartCreated, MayStart, StartTurnLocked, SignalChanged, Goto, Return, RecordTypes,
      InstanceTypes, CallTypes, MonitorStep
<1>3. ASSUME ReadStarted PROVE InstanceTypes'
  BY <1>3, TypeParts, Turns
  DEF ReadStarted, Goto, RecordTypes, InstanceTypes, CallTypes, MonitorStep
<1>4. ASSUME AdoptRun PROVE InstanceTypes'
  BY <1>4, TypeParts, Turns
  DEF AdoptRun, AfterStart, Goto, Return, RecordTypes, InstanceTypes, CallTypes, MonitorStep
<1>5. ASSUME NEW c \in Call, ResumeBegin(c) PROVE InstanceTypes'
  BY <1>5, TypeParts, Turns
  DEF ResumeBegin, Resumable, Goto, Return, RecordTypes, InstanceTypes, CallTypes, MonitorStep
<1>6. ASSUME NEW c \in Call, ResumeTask(c) PROVE InstanceTypes'
  BY <1>6, TypeParts, Turns
  DEF ResumeTask, Resumable, EnsureAgentLocked, Goto, Return, RecordTypes, InstanceTypes,
      CallTypes, MonitorStep
<1>7. ASSUME NEW c \in Call, CancelCall(c) PROVE InstanceTypes'
  BY <1>7, TypeParts, Turns
  DEF CancelCall, Goto, RecordTypes, InstanceTypes, CallTypes, MonitorStep
<1>8. ASSUME NEW c \in Call, PromoteTask(c) PROVE InstanceTypes'
  BY <1>8, TypeParts, Turns
  DEF PromoteTask, Goto, RecordTypes, InstanceTypes, CallTypes, MonitorStep
<1>9. ASSUME NEW c \in Call, WaitRunDone(c) PROVE InstanceTypes'
  BY <1>9, TypeParts, Turns
  DEF WaitRunDone, Goto, RecordTypes, InstanceTypes, CallTypes, MonitorStep
<1>10. ASSUME NEW c \in Call, WaitLifecycle(c) PROVE InstanceTypes'
  BY <1>10, TypeParts, Turns
  DEF WaitLifecycle, Goto, RecordTypes, InstanceTypes, CallTypes, MonitorStep
<1>11. ASSUME NEW c \in Call, WaitPublication(c) PROVE InstanceTypes'
  BY <1>11, TypeParts, Turns
  DEF WaitPublication, LoadFence, Publishing, Goto, RecordTypes, InstanceTypes, CallTypes,
      MonitorStep
<1>12. ASSUME NEW c \in Call, RegisterBegin(c) PROVE InstanceTypes'
  BY <1>12, TypeParts, Turns
  DEF RegisterBegin, Goto, Return, RecordTypes, InstanceTypes, CallTypes, MonitorStep
<1>13. ASSUME NEW c \in Call, RegisterScope(c) PROVE InstanceTypes'
  BY <1>13, TypeParts, Turns
  DEF RegisterScope, Goto, RecordTypes, InstanceTypes, CallTypes, MonitorStep
<1>14. ASSUME NEW c \in Call, RegisterStore(c) PROVE InstanceTypes'
  BY <1>14, TypeParts, Turns
  DEF RegisterStore, Publication, Goto, Return, RecordTypes, InstanceTypes, CallTypes, MonitorStep
<1>15. ASSUME NEW c \in Call, RegisterDone(c) PROVE InstanceTypes'
  BY <1>15, TypeParts, Turns
  DEF RegisterDone, Goto, Return, RecordTypes, InstanceTypes, CallTypes, MonitorStep
<1>16. ASSUME NEW p \in Publisher, ClaimTaskCompletion(p) PROVE InstanceTypes'
  BY <1>16, TypeParts, Turns
  DEF ClaimTaskCompletion, Advance, FirstClaim, Publication, NoPublication, RecordTypes,
      InstanceTypes, CallTypes, MonitorStep
<1>17. ASSUME NEW p \in Publisher, PublishTaskCompleted(p) PROVE InstanceTypes'
  BY <1>17, TypeParts, Turns
  DEF PublishTaskCompleted, Advance, Publication, NoPublication, RecordTypes, InstanceTypes,
      CallTypes, MonitorStep
<1>18. ASSUME NEW p \in Publisher, AcceptTaskDelivery(p) PROVE InstanceTypes'
  BY <1>18, TypeParts, Turns
  DEF AcceptTaskDelivery, Advance, Publication, NoPublication, RecordTypes, InstanceTypes,
      CallTypes, MonitorStep
<1>19. ASSUME NEW p \in Publisher, ClearTaskDelivery(p) PROVE InstanceTypes'
  BY <1>19, TypeParts, Turns
  DEF ClearTaskDelivery, Advance, Publication, NoPublication, RecordTypes, InstanceTypes,
      CallTypes, MonitorStep
<1>20. ASSUME NEW p \in Publisher, UnmarkTaskExecution(p) PROVE InstanceTypes'
  BY <1>20, TypeParts, Turns
  DEF UnmarkTaskExecution, Advance, Publication, NoPublication, SignalChanged, RecordTypes,
      InstanceTypes, CallTypes, MonitorStep
<1>21. ASSUME NEW t \in Turn, StartTurn(t) PROVE InstanceTypes'
  BY <1>21, TypeParts, Turns
  DEF StartTurn, MayStart, StartTurnLocked, SignalChanged, AfterStart, TurnOver, Goto, Return,
      RecordTypes, InstanceTypes, CallTypes, MonitorStep
<1>22. ASSUME NEW t \in Turn, RunEnds(t) PROVE InstanceTypes'
  BY <1>22, TypeParts, Turns
  DEF RunEnds, RecordTypes, InstanceTypes, CallTypes, MonitorStep
<1>23. ASSUME NEW t \in Turn, MonitorEvent(t) PROVE InstanceTypes'
  BY <1>23, TypeParts, Turns
  DEF MonitorEvent, SignalChanged, RecordTypes, InstanceTypes, CallTypes, MonitorStep
<1>24. ASSUME NEW t \in Turn, MonitorFold(t) PROVE InstanceTypes'
  BY <1>24, TypeParts, Turns
  DEF MonitorFold, TurnOver, SignalChanged, TerminalPublication, Publication, NoPublication,
      RecordTypes, InstanceTypes, CallTypes, MonitorStep
<1>25. ASSUME NEW t \in Turn, MonitorDequeue(t) PROVE InstanceTypes'
  <2>1. pending \in Seq(Message) BY TypeParts DEF RecordTypes
  <2>2. next' \in Message \cup {None}
    <3>1. next' = next \/ (pending # <<>> /\ next' = Head(pending)) BY <1>25 DEF MonitorDequeue, HasNext
    <3>2. next \in Message \cup {None} BY TypeParts DEF InstanceTypes
    <3> QED BY <2>1, <3>1, <3>2, Queues
  <2>3. /\ instanceRun' = instanceRun /\ instanceMu' \in {instanceMu, None} /\ run' = run
        /\ monitor' = [monitor EXCEPT ![t] = "startNext"] \/ monitor' = [monitor EXCEPT ![t] = "over"]
    BY <1>25 DEF MonitorDequeue
  <2> QED BY <2>2, <2>3, TypeParts, Turns DEF InstanceTypes, MonitorStep
<1>26. ASSUME NEW t \in Turn, MonitorNext(t) PROVE InstanceTypes'
  BY <1>26, TypeParts, Turns
  DEF MonitorNext, RecordTypes, InstanceTypes, CallTypes, MonitorStep
<1>27. ASSUME NEW m \in Message, Send(m) PROVE InstanceTypes'
  BY <1>27, TypeParts, Turns
  DEF Send, Enqueue, SignalChanged, EnsureAgentLocked, RecordTypes, InstanceTypes, CallTypes,
      MonitorStep
<1>28. ASSUME CloseRecord PROVE InstanceTypes'
  BY <1>28, TypeParts, Turns
  DEF CloseRecord, RecordTypes, InstanceTypes, CallTypes, MonitorStep
<1>29. ASSUME CloseFinish PROVE InstanceTypes'
  BY <1>29, TypeParts, Turns
  DEF CloseFinish, SignalChanged, RecordTypes, InstanceTypes, CallTypes, MonitorStep
<1>30. ASSUME ShutdownBegin PROVE InstanceTypes'
  BY <1>30, TypeParts, Turns
  DEF ShutdownBegin, Shutdown, RecordTypes, InstanceTypes, CallTypes, MonitorStep
<1>31. ASSUME RetainForShutdown PROVE InstanceTypes'
  BY <1>31, TypeParts, Turns
  DEF RetainForShutdown, Shutdown, RetainRecord, TurnOver, RecordTypes, InstanceTypes, CallTypes,
      MonitorStep
<1>32. ASSUME ReleaseAgent PROVE InstanceTypes'
  BY <1>32, TypeParts, Turns
  DEF ReleaseAgent, Shutdown, RecordTypes, InstanceTypes, CallTypes, MonitorStep
<1>33. ASSUME ShutdownSignal PROVE InstanceTypes'
  BY <1>33, TypeParts, Turns
  DEF ShutdownSignal, Shutdown, SignalChanged, RecordTypes, InstanceTypes, CallTypes, MonitorStep
<1>34. ASSUME ShutdownCancel PROVE InstanceTypes'
  BY <1>34, TypeParts, Turns
  DEF ShutdownCancel, Shutdown, RecordTypes, InstanceTypes, CallTypes, MonitorStep
<1>35. ASSUME ShutdownWait PROVE InstanceTypes'
  BY <1>35, TypeParts, Turns
  DEF ShutdownWait, Shutdown, RecordTypes, InstanceTypes, CallTypes, MonitorStep
<1>36. CASE UNCHANGED vars
  BY <1>36, TypeParts, Turns
  DEF vars, RecordTypes, InstanceTypes, CallTypes, MonitorStep
<1> QED
  BY <1>1, <1>2, <1>3, <1>4, <1>5, <1>6, <1>7, <1>8, <1>9, <1>10, <1>11, <1>12, <1>13, <1>14, <1>15, <1>16,
     <1>17, <1>18, <1>19, <1>20, <1>21, <1>22, <1>23, <1>24, <1>25, <1>26, <1>27, <1>28, <1>29, <1>30, <1>31,
     <1>32, <1>33, <1>34, <1>35, <1>36, Zenon
  DEF Next, StartStep, CallProgress, MonitorProgress, Publish, CloseAgent

\* The types of the manager.
LEMMA ManagerTypeNext ==
  ASSUME TypeOK, Locked, Claims, [Next]_vars
  PROVE  ManagerTypes'
<1>1. ASSUME CreateTask PROVE ManagerTypes'
  BY <1>1, TypeParts, Turns
  DEF CreateTask, Goto, Return, InstanceTypes, ManagerTypes, CallTypes, ShutdownStep
<1>2. ASSUME StartCreated PROVE ManagerTypes'
  BY <1>2, TypeParts, Turns
  DEF StartCreated, MayStart, StartTurnLocked, SignalChanged, Goto, Return, InstanceTypes,
      ManagerTypes, CallTypes, ShutdownStep
<1>3. ASSUME ReadStarted PROVE ManagerTypes'
  BY <1>3, TypeParts, Turns
  DEF ReadStarted, Goto, InstanceTypes, ManagerTypes, CallTypes, ShutdownStep
<1>4. ASSUME AdoptRun PROVE ManagerTypes'
  BY <1>4, TypeParts, Turns
  DEF AdoptRun, AfterStart, Goto, Return, InstanceTypes, ManagerTypes, CallTypes, ShutdownStep
<1>5. ASSUME NEW c \in Call, ResumeBegin(c) PROVE ManagerTypes'
  BY <1>5, TypeParts, Turns
  DEF ResumeBegin, Resumable, Goto, Return, InstanceTypes, ManagerTypes, CallTypes, ShutdownStep
<1>6. ASSUME NEW c \in Call, ResumeTask(c) PROVE ManagerTypes'
  BY <1>6, TypeParts, Turns
  DEF ResumeTask, Resumable, EnsureAgentLocked, Goto, Return, InstanceTypes, ManagerTypes,
      CallTypes, ShutdownStep
<1>7. ASSUME NEW c \in Call, CancelCall(c) PROVE ManagerTypes'
  BY <1>7, TypeParts, Turns
  DEF CancelCall, Goto, InstanceTypes, ManagerTypes, CallTypes, ShutdownStep
<1>8. ASSUME NEW c \in Call, PromoteTask(c) PROVE ManagerTypes'
  BY <1>8, TypeParts, Turns
  DEF PromoteTask, Goto, InstanceTypes, ManagerTypes, CallTypes, ShutdownStep
<1>9. ASSUME NEW c \in Call, WaitRunDone(c) PROVE ManagerTypes'
  BY <1>9, TypeParts, Turns
  DEF WaitRunDone, Goto, InstanceTypes, ManagerTypes, CallTypes, ShutdownStep
<1>10. ASSUME NEW c \in Call, WaitLifecycle(c) PROVE ManagerTypes'
  BY <1>10, TypeParts, Turns
  DEF WaitLifecycle, Goto, InstanceTypes, ManagerTypes, CallTypes, ShutdownStep
<1>11. ASSUME NEW c \in Call, WaitPublication(c) PROVE ManagerTypes'
  BY <1>11, TypeParts, Turns
  DEF WaitPublication, LoadFence, Publishing, Goto, InstanceTypes, ManagerTypes, CallTypes,
      ShutdownStep
<1>12. ASSUME NEW c \in Call, RegisterBegin(c) PROVE ManagerTypes'
  BY <1>12, TypeParts, Turns
  DEF RegisterBegin, Goto, Return, InstanceTypes, ManagerTypes, CallTypes, ShutdownStep
<1>13. ASSUME NEW c \in Call, RegisterScope(c) PROVE ManagerTypes'
  BY <1>13, TypeParts, Turns
  DEF RegisterScope, Goto, InstanceTypes, ManagerTypes, CallTypes, ShutdownStep
<1>14. ASSUME NEW c \in Call, RegisterStore(c) PROVE ManagerTypes'
  BY <1>14, TypeParts, Turns
  DEF RegisterStore, Publication, Goto, Return, InstanceTypes, ManagerTypes, CallTypes,
      ShutdownStep
<1>15. ASSUME NEW c \in Call, RegisterDone(c) PROVE ManagerTypes'
  BY <1>15, TypeParts, Turns
  DEF RegisterDone, Goto, Return, InstanceTypes, ManagerTypes, CallTypes, ShutdownStep
<1>16. ASSUME NEW p \in Publisher, ClaimTaskCompletion(p) PROVE ManagerTypes'
  <2>1. pub[p].step # "idle"
    <3>1. pub[p].step = "claim" BY <1>16 DEF ClaimTaskCompletion
    <3> QED BY <3>1
  <2>2. pub[p] \in Publications BY TypeParts DEF PubTypes
  <2>3. pub[p].turn \in Turn BY <2>1, <2>2, PublicationsFields, Turns DEF Claims, Claimant
  <2>4. taskDeliverySeen' = taskDeliverySeen \cup {pub[p].turn} BY <1>16 DEF ClaimTaskCompletion
  <2> QED
    BY <1>16, <2>3, <2>4, TypeParts DEF ClaimTaskCompletion, ManagerTypes
<1>17. ASSUME NEW p \in Publisher, PublishTaskCompleted(p) PROVE ManagerTypes'
  BY <1>17, TypeParts, Turns
  DEF PublishTaskCompleted, Advance, Publication, NoPublication, InstanceTypes, ManagerTypes,
      CallTypes, ShutdownStep
<1>18. ASSUME NEW p \in Publisher, AcceptTaskDelivery(p) PROVE ManagerTypes'
  BY <1>18, TypeParts, Turns
  DEF AcceptTaskDelivery, Advance, Publication, NoPublication, InstanceTypes, ManagerTypes,
      CallTypes, ShutdownStep
<1>19. ASSUME NEW p \in Publisher, ClearTaskDelivery(p) PROVE ManagerTypes'
  BY <1>19, TypeParts, Turns
  DEF ClearTaskDelivery, Advance, Publication, NoPublication, InstanceTypes, ManagerTypes,
      CallTypes, ShutdownStep
<1>20. ASSUME NEW p \in Publisher, UnmarkTaskExecution(p) PROVE ManagerTypes'
  BY <1>20, TypeParts, Turns
  DEF UnmarkTaskExecution, Advance, Publication, NoPublication, SignalChanged, InstanceTypes,
      ManagerTypes, CallTypes, ShutdownStep
<1>21. ASSUME NEW t \in Turn, StartTurn(t) PROVE ManagerTypes'
  BY <1>21, TypeParts, Turns
  DEF StartTurn, MayStart, StartTurnLocked, SignalChanged, AfterStart, TurnOver, Goto, Return,
      InstanceTypes, ManagerTypes, CallTypes, ShutdownStep
<1>22. ASSUME NEW t \in Turn, RunEnds(t) PROVE ManagerTypes'
  BY <1>22, TypeParts, Turns
  DEF RunEnds, InstanceTypes, ManagerTypes, CallTypes, ShutdownStep
<1>23. ASSUME NEW t \in Turn, MonitorEvent(t) PROVE ManagerTypes'
  BY <1>23, TypeParts, Turns
  DEF MonitorEvent, SignalChanged, InstanceTypes, ManagerTypes, CallTypes, ShutdownStep
<1>24. ASSUME NEW t \in Turn, MonitorFold(t) PROVE ManagerTypes'
  BY <1>24, TypeParts, Turns
  DEF MonitorFold, TurnOver, SignalChanged, TerminalPublication, Publication, NoPublication,
      InstanceTypes, ManagerTypes, CallTypes, ShutdownStep
<1>25. ASSUME NEW t \in Turn, MonitorDequeue(t) PROVE ManagerTypes'
  BY <1>25, TypeParts, Turns
  DEF MonitorDequeue, HasNext, InstanceTypes, ManagerTypes, CallTypes, ShutdownStep
<1>26. ASSUME NEW t \in Turn, MonitorNext(t) PROVE ManagerTypes'
  BY <1>26, TypeParts, Turns
  DEF MonitorNext, InstanceTypes, ManagerTypes, CallTypes, ShutdownStep
<1>27. ASSUME NEW m \in Message, Send(m) PROVE ManagerTypes'
  BY <1>27, TypeParts, Turns
  DEF Send, Enqueue, SignalChanged, EnsureAgentLocked, InstanceTypes, ManagerTypes, CallTypes,
      ShutdownStep
<1>28. ASSUME CloseRecord PROVE ManagerTypes'
  BY <1>28, TypeParts, Turns
  DEF CloseRecord, InstanceTypes, ManagerTypes, CallTypes, ShutdownStep
<1>29. ASSUME CloseFinish PROVE ManagerTypes'
  BY <1>29, TypeParts, Turns
  DEF CloseFinish, SignalChanged, InstanceTypes, ManagerTypes, CallTypes, ShutdownStep
<1>30. ASSUME ShutdownBegin PROVE ManagerTypes'
  BY <1>30, TypeParts, Turns
  DEF ShutdownBegin, Shutdown, InstanceTypes, ManagerTypes, CallTypes, ShutdownStep
<1>31. ASSUME RetainForShutdown PROVE ManagerTypes'
  BY <1>31, TypeParts, Turns
  DEF RetainForShutdown, Shutdown, RetainRecord, TurnOver, InstanceTypes, ManagerTypes, CallTypes,
      ShutdownStep
<1>32. ASSUME ReleaseAgent PROVE ManagerTypes'
  BY <1>32, TypeParts, Turns
  DEF ReleaseAgent, Shutdown, InstanceTypes, ManagerTypes, CallTypes, ShutdownStep
<1>33. ASSUME ShutdownSignal PROVE ManagerTypes'
  BY <1>33, TypeParts, Turns
  DEF ShutdownSignal, Shutdown, SignalChanged, InstanceTypes, ManagerTypes, CallTypes, ShutdownStep
<1>34. ASSUME ShutdownCancel PROVE ManagerTypes'
  BY <1>34, TypeParts, Turns
  DEF ShutdownCancel, Shutdown, InstanceTypes, ManagerTypes, CallTypes, ShutdownStep
<1>35. ASSUME ShutdownWait PROVE ManagerTypes'
  BY <1>35, TypeParts, Turns
  DEF ShutdownWait, Shutdown, InstanceTypes, ManagerTypes, CallTypes, ShutdownStep
<1>36. CASE UNCHANGED vars
  BY <1>36, TypeParts, Turns
  DEF vars, InstanceTypes, ManagerTypes, CallTypes, ShutdownStep
<1> QED
  BY <1>1, <1>2, <1>3, <1>4, <1>5, <1>6, <1>7, <1>8, <1>9, <1>10, <1>11, <1>12, <1>13, <1>14, <1>15, <1>16,
     <1>17, <1>18, <1>19, <1>20, <1>21, <1>22, <1>23, <1>24, <1>25, <1>26, <1>27, <1>28, <1>29, <1>30, <1>31,
     <1>32, <1>33, <1>34, <1>35, <1>36, Zenon
  DEF Next, StartStep, CallProgress, MonitorProgress, Publish, CloseAgent

\* The types of the calls.
LEMMA CallTypeNext ==
  ASSUME TypeOK, [Next]_vars
  PROVE  CallTypes'
<1>1. ASSUME CreateTask PROVE CallTypes'
  BY <1>1, TypeParts, Turns, Steps DEF CreateTask, Goto, Return, CallTypes, RecordTypes
<1>2. ASSUME StartCreated PROVE CallTypes'
  BY <1>2, TypeParts, Turns, Steps
  DEF StartCreated, MayStart, StartTurnLocked, SignalChanged, Goto, Return, CallTypes, RecordTypes
<1>3. ASSUME ReadStarted PROVE CallTypes'
  BY <1>3, TypeParts, Turns, Steps
  DEF ReadStarted, Goto, CallTypes, RecordTypes
<1>4. ASSUME AdoptRun PROVE CallTypes'
  BY <1>4, TypeParts, Turns, Steps
  DEF AdoptRun, AfterStart, Goto, Return, CallTypes, RecordTypes
<1>5. ASSUME NEW c \in Call, ResumeBegin(c) PROVE CallTypes'
  BY <1>5, TypeParts, Turns, Steps
  DEF ResumeBegin, Resumable, Goto, Return, CallTypes, RecordTypes
<1>6. ASSUME NEW c \in Call, ResumeTask(c) PROVE CallTypes'
  BY <1>6, TypeParts, Turns, Steps
  DEF ResumeTask, Resumable, EnsureAgentLocked, Goto, Return, CallTypes, RecordTypes
<1>7. ASSUME NEW c \in Call, CancelCall(c) PROVE CallTypes'
  BY <1>7, TypeParts, Turns, Steps
  DEF CancelCall, Goto, CallTypes, RecordTypes
<1>8. ASSUME NEW c \in Call, PromoteTask(c) PROVE CallTypes'
  BY <1>8, TypeParts, Turns, Steps
  DEF PromoteTask, Goto, CallTypes, RecordTypes
<1>9. ASSUME NEW c \in Call, WaitRunDone(c) PROVE CallTypes'
  BY <1>9, TypeParts, Turns, Steps
  DEF WaitRunDone, Goto, CallTypes, RecordTypes
<1>10. ASSUME NEW c \in Call, WaitLifecycle(c) PROVE CallTypes'
  BY <1>10, TypeParts, Turns, Steps
  DEF WaitLifecycle, Goto, CallTypes, RecordTypes
<1>11. ASSUME NEW c \in Call, WaitPublication(c) PROVE CallTypes'
  BY <1>11, TypeParts, Turns, Steps
  DEF WaitPublication, LoadFence, Publishing, Goto, CallTypes, RecordTypes
<1>12. ASSUME NEW c \in Call, RegisterBegin(c) PROVE CallTypes'
  BY <1>12, TypeParts, Turns, Steps
  DEF RegisterBegin, Goto, Return, CallTypes, RecordTypes
<1>13. ASSUME NEW c \in Call, RegisterScope(c) PROVE CallTypes'
  BY <1>13, TypeParts, Turns, Steps DEF RegisterScope, Goto, CallTypes, RecordTypes
<1>14. ASSUME NEW c \in Call, RegisterStore(c) PROVE CallTypes'
  BY <1>14, TypeParts, Turns, Steps
  DEF RegisterStore, Publication, Goto, Return, CallTypes, RecordTypes
<1>15. ASSUME NEW c \in Call, RegisterDone(c) PROVE CallTypes'
  BY <1>15, TypeParts, Turns, Steps
  DEF RegisterDone, Goto, Return, CallTypes, RecordTypes
<1>16. ASSUME NEW p \in Publisher, ClaimTaskCompletion(p) PROVE CallTypes'
  BY <1>16, TypeParts, Turns, Steps
  DEF ClaimTaskCompletion, Advance, FirstClaim, Publication, NoPublication, CallTypes, RecordTypes
<1>17. ASSUME NEW p \in Publisher, PublishTaskCompleted(p) PROVE CallTypes'
  BY <1>17, TypeParts, Turns, Steps
  DEF PublishTaskCompleted, Advance, Publication, NoPublication, CallTypes, RecordTypes
<1>18. ASSUME NEW p \in Publisher, AcceptTaskDelivery(p) PROVE CallTypes'
  BY <1>18, TypeParts, Turns, Steps
  DEF AcceptTaskDelivery, Advance, Publication, NoPublication, CallTypes, RecordTypes
<1>19. ASSUME NEW p \in Publisher, ClearTaskDelivery(p) PROVE CallTypes'
  BY <1>19, TypeParts, Turns, Steps
  DEF ClearTaskDelivery, Advance, Publication, NoPublication, CallTypes, RecordTypes
<1>20. ASSUME NEW p \in Publisher, UnmarkTaskExecution(p) PROVE CallTypes'
  BY <1>20, TypeParts, Turns, Steps
  DEF UnmarkTaskExecution, Advance, Publication, NoPublication, SignalChanged, CallTypes,
      RecordTypes
<1>21. ASSUME NEW t \in Turn, StartTurn(t) PROVE CallTypes'
  BY <1>21, TypeParts, Turns, Steps
  DEF StartTurn, MayStart, StartTurnLocked, SignalChanged, AfterStart, TurnOver, Goto, Return,
      CallTypes, RecordTypes
<1>22. ASSUME NEW t \in Turn, RunEnds(t) PROVE CallTypes'
  BY <1>22, TypeParts, Turns, Steps DEF RunEnds, CallTypes, RecordTypes
<1>23. ASSUME NEW t \in Turn, MonitorEvent(t) PROVE CallTypes'
  BY <1>23, TypeParts, Turns, Steps
  DEF MonitorEvent, SignalChanged, CallTypes, RecordTypes
<1>24. ASSUME NEW t \in Turn, MonitorFold(t) PROVE CallTypes'
  BY <1>24, TypeParts, Turns, Steps
  DEF MonitorFold, TurnOver, SignalChanged, TerminalPublication, Publication, NoPublication,
      CallTypes, RecordTypes
<1>25. ASSUME NEW t \in Turn, MonitorDequeue(t) PROVE CallTypes'
  BY <1>25, TypeParts, Turns, Steps
  DEF MonitorDequeue, HasNext, CallTypes, RecordTypes
<1>26. ASSUME NEW t \in Turn, MonitorNext(t) PROVE CallTypes'
  BY <1>26, TypeParts, Turns, Steps DEF MonitorNext, CallTypes, RecordTypes
<1>27. ASSUME NEW m \in Message, Send(m) PROVE CallTypes'
  BY <1>27, TypeParts, Turns, Steps
  DEF Send, Enqueue, SignalChanged, EnsureAgentLocked, CallTypes, RecordTypes
<1>28. ASSUME CloseRecord PROVE CallTypes'
  BY <1>28, TypeParts, Turns, Steps DEF CloseRecord, CallTypes, RecordTypes
<1>29. ASSUME CloseFinish PROVE CallTypes'
  BY <1>29, TypeParts, Turns, Steps
  DEF CloseFinish, SignalChanged, CallTypes, RecordTypes
<1>30. ASSUME ShutdownBegin PROVE CallTypes'
  BY <1>30, TypeParts, Turns, Steps
  DEF ShutdownBegin, Shutdown, CallTypes, RecordTypes
<1>31. ASSUME RetainForShutdown PROVE CallTypes'
  BY <1>31, TypeParts, Turns, Steps
  DEF RetainForShutdown, Shutdown, RetainRecord, TurnOver, CallTypes, RecordTypes
<1>32. ASSUME ReleaseAgent PROVE CallTypes'
  BY <1>32, TypeParts, Turns, Steps
  DEF ReleaseAgent, Shutdown, CallTypes, RecordTypes
<1>33. ASSUME ShutdownSignal PROVE CallTypes'
  BY <1>33, TypeParts, Turns, Steps
  DEF ShutdownSignal, Shutdown, SignalChanged, CallTypes, RecordTypes
<1>34. ASSUME ShutdownCancel PROVE CallTypes'
  BY <1>34, TypeParts, Turns, Steps
  DEF ShutdownCancel, Shutdown, CallTypes, RecordTypes
<1>35. ASSUME ShutdownWait PROVE CallTypes'
  BY <1>35, TypeParts, Turns, Steps
  DEF ShutdownWait, Shutdown, CallTypes, RecordTypes
<1>36. CASE UNCHANGED vars
  BY <1>36, TypeParts, Turns, Steps
  DEF vars, CallTypes, RecordTypes
<1> QED
  BY <1>1, <1>2, <1>3, <1>4, <1>5, <1>6, <1>7, <1>8, <1>9, <1>10, <1>11, <1>12, <1>13, <1>14, <1>15, <1>16,
     <1>17, <1>18, <1>19, <1>20, <1>21, <1>22, <1>23, <1>24, <1>25, <1>26, <1>27, <1>28, <1>29, <1>30, <1>31,
     <1>32, <1>33, <1>34, <1>35, <1>36, Zenon
  DEF Next, StartStep, CallProgress, MonitorProgress, Publish, CloseAgent

\* The types of the publications.
LEMMA PubTypeNext ==
  ASSUME TypeOK, Claims, [Next]_vars
  PROVE  PubTypes'
<1>1. ASSUME CreateTask PROVE PubTypes'
  BY <1>1, TypeParts, Turns DEF CreateTask, Goto, Return, PubTypes, RecordTypes, CallTypes
<1>2. ASSUME StartCreated PROVE PubTypes'
  BY <1>2, TypeParts, Turns
  DEF StartCreated, MayStart, StartTurnLocked, SignalChanged, Goto, Return, PubTypes, RecordTypes,
      CallTypes
<1>3. ASSUME ReadStarted PROVE PubTypes'
  BY <1>3, TypeParts, Turns
  DEF ReadStarted, Goto, PubTypes, RecordTypes, CallTypes
<1>4. ASSUME AdoptRun PROVE PubTypes'
  BY <1>4, TypeParts, Turns
  DEF AdoptRun, AfterStart, Goto, Return, PubTypes, RecordTypes, CallTypes
<1>5. ASSUME NEW c \in Call, ResumeBegin(c) PROVE PubTypes'
  BY <1>5, TypeParts, Turns
  DEF ResumeBegin, Resumable, Goto, Return, PubTypes, RecordTypes, CallTypes
<1>6. ASSUME NEW c \in Call, ResumeTask(c) PROVE PubTypes'
  BY <1>6, TypeParts, Turns
  DEF ResumeTask, Resumable, EnsureAgentLocked, Goto, Return, PubTypes, RecordTypes, CallTypes
<1>7. ASSUME NEW c \in Call, CancelCall(c) PROVE PubTypes'
  BY <1>7, TypeParts, Turns
  DEF CancelCall, Goto, PubTypes, RecordTypes, CallTypes
<1>8. ASSUME NEW c \in Call, PromoteTask(c) PROVE PubTypes'
  BY <1>8, TypeParts, Turns
  DEF PromoteTask, Goto, PubTypes, RecordTypes, CallTypes
<1>9. ASSUME NEW c \in Call, WaitRunDone(c) PROVE PubTypes'
  BY <1>9, TypeParts, Turns
  DEF WaitRunDone, Goto, PubTypes, RecordTypes, CallTypes
<1>10. ASSUME NEW c \in Call, WaitLifecycle(c) PROVE PubTypes'
  BY <1>10, TypeParts, Turns
  DEF WaitLifecycle, Goto, PubTypes, RecordTypes, CallTypes
<1>11. ASSUME NEW c \in Call, WaitPublication(c) PROVE PubTypes'
  BY <1>11, TypeParts, Turns
  DEF WaitPublication, LoadFence, Publishing, Goto, PubTypes, RecordTypes, CallTypes
<1>12. ASSUME NEW c \in Call, RegisterBegin(c) PROVE PubTypes'
  BY <1>12, TypeParts, Turns
  DEF RegisterBegin, Goto, Return, PubTypes, RecordTypes, CallTypes
<1>13. ASSUME NEW c \in Call, RegisterScope(c) PROVE PubTypes'
  BY <1>13, TypeParts, Turns
  DEF RegisterScope, Goto, PubTypes, RecordTypes, CallTypes
<1>14. ASSUME NEW c \in Call, RegisterStore(c) PROVE PubTypes'
  <2> DEFINE x == Publication("claim", turnOf[c], lastTurn, FALSE)
  <2>1. x \in Publications BY TypeParts, Begins DEF CallTypes, RecordTypes
  <2>2. UNCHANGED pub \/ pub' = [pub EXCEPT !["registration"] = x] BY <1>14 DEF RegisterStore
  <2>3. "registration" \in Publisher BY DEF Publisher
  <2>4. PubTypes BY TypeParts
  <2> HIDE DEF x
  <2>5. CASE UNCHANGED pub BY <2>4, <2>5 DEF PubTypes
  <2>6. CASE pub' = [pub EXCEPT !["registration"] = x] BY <2>1, <2>3, <2>4, <2>6, PubSet
  <2> QED BY <2>2, <2>5, <2>6
<1>15. ASSUME NEW c \in Call, RegisterDone(c) PROVE PubTypes'
  BY <1>15, TypeParts, Turns
  DEF RegisterDone, Goto, Return, PubTypes, RecordTypes, CallTypes
<1>16. ASSUME NEW p \in Publisher, ClaimTaskCompletion(p) PROVE PubTypes'
  BY <1>16, TypeParts, Goes, Advances DEF Publish
<1>17. ASSUME NEW p \in Publisher, PublishTaskCompleted(p) PROVE PubTypes'
  BY <1>17, TypeParts, Goes, Advances DEF Publish
<1>18. ASSUME NEW p \in Publisher, AcceptTaskDelivery(p) PROVE PubTypes'
  BY <1>18, TypeParts, Goes, Advances DEF Publish
<1>19. ASSUME NEW p \in Publisher, ClearTaskDelivery(p) PROVE PubTypes'
  BY <1>19, TypeParts, Goes, Advances DEF Publish
<1>20. ASSUME NEW p \in Publisher, UnmarkTaskExecution(p) PROVE PubTypes'
  BY <1>20, TypeParts, Goes, Advances DEF Publish
<1>21. ASSUME NEW t \in Turn, StartTurn(t) PROVE PubTypes'
  BY <1>21, TypeParts, Turns
  DEF StartTurn, MayStart, StartTurnLocked, SignalChanged, AfterStart, TurnOver, Goto, Return,
      PubTypes, RecordTypes, CallTypes
<1>22. ASSUME NEW t \in Turn, RunEnds(t) PROVE PubTypes'
  BY <1>22, TypeParts, Turns DEF RunEnds, PubTypes, RecordTypes, CallTypes
<1>23. ASSUME NEW t \in Turn, MonitorEvent(t) PROVE PubTypes'
  BY <1>23, TypeParts, Turns
  DEF MonitorEvent, SignalChanged, PubTypes, RecordTypes, CallTypes
<1>24. ASSUME NEW t \in Turn, MonitorFold(t) PROVE PubTypes'
  <2> DEFINE x == TerminalPublication(t)
  <2>1. x \in Publications BY TypeParts, Terminal DEF RecordTypes
  <2>2. UNCHANGED pub \/ pub' = [pub EXCEPT !["monitor"] = x] BY <1>24 DEF MonitorFold
  <2>3. "monitor" \in Publisher BY DEF Publisher
  <2>4. PubTypes BY TypeParts
  <2> HIDE DEF x
  <2>5. CASE UNCHANGED pub BY <2>4, <2>5 DEF PubTypes
  <2>6. CASE pub' = [pub EXCEPT !["monitor"] = x] BY <2>1, <2>3, <2>4, <2>6, PubSet
  <2> QED BY <2>2, <2>5, <2>6
<1>25. ASSUME NEW t \in Turn, MonitorDequeue(t) PROVE PubTypes'
  BY <1>25, TypeParts, Turns
  DEF MonitorDequeue, HasNext, PubTypes, RecordTypes, CallTypes
<1>26. ASSUME NEW t \in Turn, MonitorNext(t) PROVE PubTypes'
  BY <1>26, TypeParts, Turns DEF MonitorNext, PubTypes, RecordTypes, CallTypes
<1>27. ASSUME NEW m \in Message, Send(m) PROVE PubTypes'
  BY <1>27, TypeParts, Turns
  DEF Send, Enqueue, SignalChanged, EnsureAgentLocked, PubTypes, RecordTypes, CallTypes
<1>28. ASSUME CloseRecord PROVE PubTypes'
  BY <1>28, TypeParts, Turns DEF CloseRecord, PubTypes, RecordTypes, CallTypes
<1>29. ASSUME CloseFinish PROVE PubTypes'
  BY <1>29, TypeParts, Turns
  DEF CloseFinish, SignalChanged, PubTypes, RecordTypes, CallTypes
<1>30. ASSUME ShutdownBegin PROVE PubTypes'
  BY <1>30, TypeParts, Turns
  DEF ShutdownBegin, Shutdown, PubTypes, RecordTypes, CallTypes
<1>31. ASSUME RetainForShutdown PROVE PubTypes'
  BY <1>31, TypeParts, Turns
  DEF RetainForShutdown, Shutdown, RetainRecord, TurnOver, PubTypes, RecordTypes, CallTypes
<1>32. ASSUME ReleaseAgent PROVE PubTypes'
  BY <1>32, TypeParts, Turns
  DEF ReleaseAgent, Shutdown, PubTypes, RecordTypes, CallTypes
<1>33. ASSUME ShutdownSignal PROVE PubTypes'
  BY <1>33, TypeParts, Turns
  DEF ShutdownSignal, Shutdown, SignalChanged, PubTypes, RecordTypes, CallTypes
<1>34. ASSUME ShutdownCancel PROVE PubTypes'
  BY <1>34, TypeParts, Turns
  DEF ShutdownCancel, Shutdown, PubTypes, RecordTypes, CallTypes
<1>35. ASSUME ShutdownWait PROVE PubTypes'
  BY <1>35, TypeParts, Turns
  DEF ShutdownWait, Shutdown, PubTypes, RecordTypes, CallTypes
<1>36. CASE UNCHANGED vars
  BY <1>36, TypeParts, Turns
  DEF vars, PubTypes, RecordTypes, CallTypes
<1> QED
  BY <1>1, <1>2, <1>3, <1>4, <1>5, <1>6, <1>7, <1>8, <1>9, <1>10, <1>11, <1>12, <1>13, <1>14, <1>15, <1>16,
     <1>17, <1>18, <1>19, <1>20, <1>21, <1>22, <1>23, <1>24, <1>25, <1>26, <1>27, <1>28, <1>29, <1>30, <1>31,
     <1>32, <1>33, <1>34, <1>35, <1>36, Zenon
  DEF Next, StartStep, CallProgress, MonitorProgress, Publish, CloseAgent

\* The types of what is observed.
LEMMA OutsideTypeNext ==
  ASSUME TypeOK, Claims, Locked, Called, [Next]_vars
  PROVE  OutsideTypes'
<1>1. ASSUME CreateTask PROVE OutsideTypes'
  BY <1>1, TypeParts, Turns DEF CreateTask, Goto, Return, OutsideTypes, CallTypes
<1>2. ASSUME StartCreated PROVE OutsideTypes'
  BY <1>2, TypeParts, Turns
  DEF StartCreated, MayStart, StartTurnLocked, SignalChanged, Goto, Return, OutsideTypes, CallTypes
<1>3. ASSUME ReadStarted PROVE OutsideTypes'
  BY <1>3, TypeParts, Turns DEF ReadStarted, Goto, OutsideTypes, CallTypes
<1>4. ASSUME AdoptRun PROVE OutsideTypes'
  BY <1>4, TypeParts, Turns
  DEF AdoptRun, AfterStart, Goto, Return, OutsideTypes, CallTypes
<1>5. ASSUME NEW c \in Call, ResumeBegin(c) PROVE OutsideTypes'
  BY <1>5, TypeParts, Turns
  DEF ResumeBegin, Resumable, Goto, Return, OutsideTypes, CallTypes
<1>6. ASSUME NEW c \in Call, ResumeTask(c) PROVE OutsideTypes'
  BY <1>6, TypeParts, Turns
  DEF ResumeTask, Resumable, EnsureAgentLocked, Goto, Return, OutsideTypes, CallTypes
<1>7. ASSUME NEW c \in Call, CancelCall(c) PROVE OutsideTypes'
  BY <1>7, TypeParts, Turns DEF CancelCall, Goto, OutsideTypes, CallTypes
<1>8. ASSUME NEW c \in Call, PromoteTask(c) PROVE OutsideTypes'
  BY <1>8, TypeParts, Turns DEF PromoteTask, Goto, OutsideTypes, CallTypes
<1>9. ASSUME NEW c \in Call, WaitRunDone(c) PROVE OutsideTypes'
  BY <1>9, TypeParts, Turns DEF WaitRunDone, Goto, OutsideTypes, CallTypes
<1>10. ASSUME NEW c \in Call, WaitLifecycle(c) PROVE OutsideTypes'
  BY <1>10, TypeParts, Turns
  DEF WaitLifecycle, Goto, OutsideTypes, CallTypes
<1>11. ASSUME NEW c \in Call, WaitPublication(c) PROVE OutsideTypes'
  BY <1>11, TypeParts, Turns
  DEF WaitPublication, LoadFence, Publishing, Goto, OutsideTypes, CallTypes
<1>12. ASSUME NEW c \in Call, RegisterBegin(c) PROVE OutsideTypes'
  BY <1>12, TypeParts, Turns
  DEF RegisterBegin, Goto, Return, OutsideTypes, CallTypes
<1>13. ASSUME NEW c \in Call, RegisterScope(c) PROVE OutsideTypes'
  BY <1>13, TypeParts, Turns
  DEF RegisterScope, Goto, OutsideTypes, CallTypes, Called, CallInv, Registers
<1>14. ASSUME NEW c \in Call, RegisterStore(c) PROVE OutsideTypes'
  BY <1>14, TypeParts, Turns DEF RegisterStore, Publication, Goto, Return, OutsideTypes, CallTypes
<1>15. ASSUME NEW c \in Call, RegisterDone(c) PROVE OutsideTypes'
  BY <1>15, TypeParts, Turns
  DEF RegisterDone, Goto, Return, OutsideTypes, CallTypes
<1>16. ASSUME NEW p \in Publisher, ClaimTaskCompletion(p) PROVE OutsideTypes'
  BY <1>16, TypeParts, Turns
  DEF ClaimTaskCompletion, Advance, FirstClaim, Publication, NoPublication, OutsideTypes, CallTypes
<1>17. ASSUME NEW p \in Publisher, PublishTaskCompleted(p) PROVE OutsideTypes'
  <2>1. pub[p].turn \in Turn
    <3>1. pub[p].step = "event" BY <1>17 DEF PublishTaskCompleted
    <3>2. pub[p].step # "idle" BY <3>1
    <3>3. pub[p] \in Publications BY TypeParts DEF PubTypes
    <3> QED BY <3>2, <3>3, PublicationsFields, Turns DEF Claims, Claimant
  <2>2. completed' = Append(completed, pub[p].turn) /\ UNCHANGED <<sent, started, assigned, accepted>>
    BY <1>17 DEF PublishTaskCompleted
  <2>3. completed' \in Seq(Turn) BY <2>1, <2>2, TypeParts DEF OutsideTypes
  <2> QED BY <2>2, <2>3, TypeParts DEF OutsideTypes
<1>18. ASSUME NEW p \in Publisher, AcceptTaskDelivery(p) PROVE OutsideTypes'
  <2>1. pub[p].turn \in Turn /\ pub[p].output \in Turn
    <3>1. pub[p].step = "accept" BY <1>18 DEF AcceptTaskDelivery
    <3>2. pub[p].step # "idle" BY <3>1
    <3>3. pub[p] \in Publications BY TypeParts DEF PubTypes
    <3> QED BY <3>2, <3>3, PublicationsFields, Turns DEF Claims, Claimant
  <2> DEFINE d == [turn |-> pub[p].turn, output |-> pub[p].output]
  <2>2. d \in Delivery BY <2>1 DEF Delivery
  <2>3. (accepted' = Append(accepted, d) \/ UNCHANGED accepted) /\ UNCHANGED <<sent, started, assigned, completed>>
    BY <1>18 DEF AcceptTaskDelivery
  <2> HIDE DEF d
  <2>4. accepted' \in Seq(Delivery)
    <3>1. accepted \in Seq(Delivery) BY TypeParts DEF OutsideTypes
    <3>2. Append(accepted, d) \in Seq(Delivery) BY <2>2, <3>1
    <3> QED BY <2>3, <3>1, <3>2
  <2> QED BY <2>3, <2>4, TypeParts DEF OutsideTypes
<1>19. ASSUME NEW p \in Publisher, ClearTaskDelivery(p) PROVE OutsideTypes'
  BY <1>19, TypeParts, Turns
  DEF ClearTaskDelivery, Advance, Publication, NoPublication, OutsideTypes, CallTypes
<1>20. ASSUME NEW p \in Publisher, UnmarkTaskExecution(p) PROVE OutsideTypes'
  BY <1>20, TypeParts, Turns
  DEF UnmarkTaskExecution, Advance, Publication, NoPublication, SignalChanged, OutsideTypes,
      CallTypes
<1>21. ASSUME NEW t \in Turn, StartTurn(t) PROVE OutsideTypes'
  BY <1>21, TypeParts, Turns
  DEF StartTurn, MayStart, StartTurnLocked, SignalChanged, AfterStart, TurnOver, Goto, Return,
      OutsideTypes, CallTypes
<1>22. ASSUME NEW t \in Turn, RunEnds(t) PROVE OutsideTypes'
  BY <1>22, TypeParts, Turns DEF RunEnds, OutsideTypes, CallTypes
<1>23. ASSUME NEW t \in Turn, MonitorEvent(t) PROVE OutsideTypes'
  BY <1>23, TypeParts, Turns
  DEF MonitorEvent, SignalChanged, OutsideTypes, CallTypes
<1>24. ASSUME NEW t \in Turn, MonitorFold(t) PROVE OutsideTypes'
  BY <1>24, TypeParts, Turns
  DEF MonitorFold, TurnOver, SignalChanged, TerminalPublication, Publication, NoPublication,
      OutsideTypes, CallTypes
<1>25. ASSUME NEW t \in Turn, MonitorDequeue(t) PROVE OutsideTypes'
  BY <1>25, TypeParts, Turns DEF MonitorDequeue, HasNext, OutsideTypes, CallTypes
<1>26. ASSUME NEW t \in Turn, MonitorNext(t) PROVE OutsideTypes'
  BY <1>26, TypeParts, Turns, Queues DEF MonitorNext, OutsideTypes, CallTypes, Locked
<1>27. ASSUME NEW m \in Message, Send(m) PROVE OutsideTypes'
  <2>1. started \in Seq(Message) /\ sent \in Seq(Message) BY TypeParts DEF OutsideTypes
  <2>2. sent' = Append(sent, m) /\ (UNCHANGED started \/ started' = Append(started, m))
        /\ UNCHANGED <<assigned, completed, accepted>>
    BY <1>27 DEF Send
  <2>3. sent' \in Seq(Message) /\ started' \in Seq(Message) BY <2>1, <2>2, Queues
  <2> QED BY <2>2, <2>3, TypeParts DEF OutsideTypes
<1>28. ASSUME CloseRecord PROVE OutsideTypes'
  BY <1>28, TypeParts, Turns DEF CloseRecord, OutsideTypes, CallTypes
<1>29. ASSUME CloseFinish PROVE OutsideTypes'
  BY <1>29, TypeParts, Turns
  DEF CloseFinish, SignalChanged, OutsideTypes, CallTypes
<1>30. ASSUME ShutdownBegin PROVE OutsideTypes'
  BY <1>30, TypeParts, Turns
  DEF ShutdownBegin, Shutdown, OutsideTypes, CallTypes
<1>31. ASSUME RetainForShutdown PROVE OutsideTypes'
  BY <1>31, TypeParts, Turns
  DEF RetainForShutdown, Shutdown, RetainRecord, TurnOver, OutsideTypes, CallTypes
<1>32. ASSUME ReleaseAgent PROVE OutsideTypes'
  BY <1>32, TypeParts, Turns
  DEF ReleaseAgent, Shutdown, OutsideTypes, CallTypes
<1>33. ASSUME ShutdownSignal PROVE OutsideTypes'
  BY <1>33, TypeParts, Turns
  DEF ShutdownSignal, Shutdown, SignalChanged, OutsideTypes, CallTypes
<1>34. ASSUME ShutdownCancel PROVE OutsideTypes'
  BY <1>34, TypeParts, Turns
  DEF ShutdownCancel, Shutdown, OutsideTypes, CallTypes
<1>35. ASSUME ShutdownWait PROVE OutsideTypes'
  BY <1>35, TypeParts, Turns
  DEF ShutdownWait, Shutdown, OutsideTypes, CallTypes
<1>36. CASE UNCHANGED vars
  BY <1>36, TypeParts, Turns DEF vars, OutsideTypes, CallTypes
<1> QED
  BY <1>1, <1>2, <1>3, <1>4, <1>5, <1>6, <1>7, <1>8, <1>9, <1>10, <1>11, <1>12, <1>13, <1>14, <1>15, <1>16,
     <1>17, <1>18, <1>19, <1>20, <1>21, <1>22, <1>23, <1>24, <1>25, <1>26, <1>27, <1>28, <1>29, <1>30, <1>31,
     <1>32, <1>33, <1>34, <1>35, <1>36, Zenon
  DEF Next, StartStep, CallProgress, MonitorProgress, Publish, CloseAgent

\* Every step keeps the types.
LEMMA TypeNext == ASSUME TypeOK, Locked, Recorded, Called, Claims, [Next]_vars PROVE TypeOK'
BY RecordTypeNext, InstanceTypeNext, ManagerTypeNext, PubTypeNext, CallTypeNext, OutsideTypeNext, TypeParts
DEF TypeOK, RecordTypes, InstanceTypes, ManagerTypes, PubTypes, CallTypes, OutsideTypes, TurnOrNone,
   Publications, Delivery

\* Who holds a lock.
LEMMA LockedNext ==
  ASSUME TypeOK, Locked, Recorded, Called, [Next]_vars
  PROVE  Locked'
<1>1. ASSUME CreateTask PROVE Locked'
  BY <1>1, TypeParts, Turns
  DEF CreateTask, Goto, Return, Locked, Holds, RecordTypes, InstanceTypes, CallTypes, ManagerTypes
<1>2. ASSUME StartCreated PROVE Locked'
  BY <1>2, TypeParts, Turns, SMTT(30)
  DEF StartCreated, MayStart, StartTurnLocked, SignalChanged, Goto, Return, Locked, Holds,
      RecordTypes, InstanceTypes, CallTypes, ManagerTypes
<1>3. ASSUME ReadStarted PROVE Locked'
  BY <1>3, TypeParts, Turns
  DEF ReadStarted, Goto, Locked, Holds, RecordTypes, InstanceTypes, CallTypes, ManagerTypes
<1>4. ASSUME AdoptRun PROVE Locked'
  BY <1>4, TypeParts, Turns
  DEF AdoptRun, AfterStart, Goto, Return, Locked, Holds, RecordTypes, InstanceTypes, CallTypes,
      ManagerTypes
<1>5. ASSUME NEW c \in Call, ResumeBegin(c) PROVE Locked'
  BY <1>5, TypeParts, Turns
  DEF ResumeBegin, Resumable, Goto, Return, Locked, Holds, RecordTypes, InstanceTypes, CallTypes,
      ManagerTypes
<1>6. ASSUME NEW c \in Call, ResumeTask(c) PROVE Locked'
  BY <1>6, TypeParts, Turns
  DEF ResumeTask, Resumable, EnsureAgentLocked, Goto, Return, Locked, Holds, RecordTypes,
      InstanceTypes, CallTypes, ManagerTypes
<1>7. ASSUME NEW c \in Call, CancelCall(c) PROVE Locked'
  BY <1>7, TypeParts, Turns
  DEF CancelCall, Goto, Locked, Holds, RecordTypes, InstanceTypes, CallTypes, ManagerTypes
<1>8. ASSUME NEW c \in Call, PromoteTask(c) PROVE Locked'
  BY <1>8, TypeParts, Turns
  DEF PromoteTask, Goto, Locked, Holds, RecordTypes, InstanceTypes, CallTypes, ManagerTypes
<1>9. ASSUME NEW c \in Call, WaitRunDone(c) PROVE Locked'
  BY <1>9, TypeParts, Turns
  DEF WaitRunDone, Goto, Locked, Holds, RecordTypes, InstanceTypes, CallTypes, ManagerTypes
<1>10. ASSUME NEW c \in Call, WaitLifecycle(c) PROVE Locked'
  BY <1>10, TypeParts, Turns
  DEF WaitLifecycle, Goto, Locked, Holds, RecordTypes, InstanceTypes, CallTypes, ManagerTypes
<1>11. ASSUME NEW c \in Call, WaitPublication(c) PROVE Locked'
  BY <1>11, TypeParts, Turns
  DEF WaitPublication, LoadFence, Publishing, Goto, Locked, Holds, RecordTypes, InstanceTypes,
      CallTypes, ManagerTypes
<1>12. ASSUME NEW c \in Call, RegisterBegin(c) PROVE Locked'
  BY <1>12, TypeParts, Turns
  DEF RegisterBegin, Goto, Return, Locked, Holds, RecordTypes, InstanceTypes, CallTypes,
      ManagerTypes
<1>13. ASSUME NEW c \in Call, RegisterScope(c) PROVE Locked'
  BY <1>13, TypeParts, Turns
  DEF RegisterScope, Goto, Locked, Holds, RecordTypes, InstanceTypes, CallTypes, ManagerTypes
<1>14. ASSUME NEW c \in Call, RegisterStore(c) PROVE Locked'
  <2>1. pub'["monitor"] = pub["monitor"]
    <3>1. PubTypes BY TypeParts
    <3>2. "registration" \in Publisher /\ "monitor" \in Publisher BY DEF Publisher
    <3>3. UNCHANGED pub \/ pub' = [pub EXCEPT !["registration"] = Publication("claim", turnOf[c], lastTurn, FALSE)]
      BY <1>14 DEF RegisterStore
    <3> QED BY <3>1, <3>2, <3>3 DEF PubTypes
  <2>2. /\ UNCHANGED <<run, monitor, instanceMu, status, next>>
        /\ \/ pc' = [pc EXCEPT ![c] = "returned"]
           \/ pc' = [pc EXCEPT ![c] = "publishing"] /\ UNCHANGED taskRegistrationMu
        /\ pc[c] = "registerStore" /\ taskRegistrationMu' \in {taskRegistrationMu, None}
    BY <1>14 DEF RegisterStore, Goto, Return
  <2>3. pc \in [Call -> CallStep] BY TypeParts DEF CallTypes
  <2>4. \A d \in Call : pc[d] \in {"registerScope", "registerStore", "publishing"} => taskRegistrationMu = d
    BY DEF Locked
  <2>5. \A d \in Call : pc'[d] \in {"registerScope", "registerStore", "publishing"} => taskRegistrationMu' = d
    BY <1>14, <2>2, <2>3, <2>4 DEF RegisterStore, Goto, Return
  <2>6. pub'["registration"].step # "idle" => \E d \in Call : pc'[d] = "publishing"
    <3>1. CASE UNCHANGED pub
      <4>1. pub["registration"].step # "idle" => \E d \in Call : pc[d] = "publishing" /\ d # c
        BY <2>2 DEF Locked
      <4> QED BY <3>1, <4>1, <2>2, <2>3
    <3>2. CASE pc' = [pc EXCEPT ![c] = "publishing"] BY <1>14, <3>2, <2>3
    <3> QED BY <1>14, <3>1, <3>2 DEF RegisterStore, Goto
  <2> QED BY <2>1, <2>2, <2>3, <2>5, <2>6 DEF Locked
<1>15. ASSUME NEW c \in Call, RegisterDone(c) PROVE Locked'
  BY <1>15, TypeParts, Turns
  DEF RegisterDone, Goto, Return, Locked, Holds, RecordTypes, InstanceTypes, CallTypes,
      ManagerTypes
<1>16. ASSUME NEW p \in Publisher, ClaimTaskCompletion(p) PROVE Locked'
  BY <1>16, TypeParts, Turns
  DEF ClaimTaskCompletion, Advance, FirstClaim, Publication, NoPublication, Locked, Holds,
      RecordTypes, InstanceTypes, CallTypes, ManagerTypes
<1>17. ASSUME NEW p \in Publisher, PublishTaskCompleted(p) PROVE Locked'
  BY <1>17, TypeParts, Turns
  DEF PublishTaskCompleted, Advance, Publication, NoPublication, Locked, Holds, RecordTypes,
      InstanceTypes, CallTypes, ManagerTypes
<1>18. ASSUME NEW p \in Publisher, AcceptTaskDelivery(p) PROVE Locked'
  BY <1>18, TypeParts, Turns
  DEF AcceptTaskDelivery, Advance, Publication, NoPublication, Locked, Holds, RecordTypes,
      InstanceTypes, CallTypes, ManagerTypes
<1>19. ASSUME NEW p \in Publisher, ClearTaskDelivery(p) PROVE Locked'
  BY <1>19, TypeParts, Turns
  DEF ClearTaskDelivery, Advance, Publication, NoPublication, Locked, Holds, RecordTypes,
      InstanceTypes, CallTypes, ManagerTypes
<1>20. ASSUME NEW p \in Publisher, UnmarkTaskExecution(p) PROVE Locked'
  BY <1>20, TypeParts, Turns
  DEF UnmarkTaskExecution, Advance, Publication, NoPublication, SignalChanged, Locked, Holds,
      RecordTypes, InstanceTypes, CallTypes, ManagerTypes
<1>21. ASSUME NEW t \in Turn, StartTurn(t) PROVE Locked'
  BY <1>21, TypeParts, Turns
  DEF StartTurn, MayStart, StartTurnLocked, SignalChanged, AfterStart, TurnOver, Goto, Return,
      Locked, Holds, RecordTypes, InstanceTypes, CallTypes, ManagerTypes
<1>22. ASSUME NEW t \in Turn, RunEnds(t) PROVE Locked'
  BY <1>22, TypeParts, Turns
  DEF RunEnds, Locked, Holds, RecordTypes, InstanceTypes, CallTypes, ManagerTypes
<1>23. ASSUME NEW t \in Turn, MonitorEvent(t) PROVE Locked'
  BY <1>23, TypeParts, Turns
  DEF MonitorEvent, SignalChanged, Locked, Holds, RecordTypes, InstanceTypes, CallTypes,
      ManagerTypes
<1>24. ASSUME NEW t \in Turn, MonitorFold(t) PROVE Locked'
  <2>1. CASE monitor' = [monitor EXCEPT ![t] = "publishing"]
    <3>1. TurnOver(t) /\ instanceMu' = t /\ UNCHANGED <<run, next, taskRegistrationMu, pc>>
      BY <1>24, <2>1, TypeParts DEF MonitorFold, InstanceTypes
    <3>2. monitor'[t] = "publishing" /\ run[t] # "none"
      BY <1>24, <2>1, TypeParts DEF MonitorFold, InstanceTypes
    <3>3. \A u \in Turn : monitor[u] \notin Holds BY <1>24, Turns DEF MonitorFold, Locked
    <3>4. pub'["registration"] = pub["registration"]
      <4>1. pub' = [pub EXCEPT !["monitor"] = TerminalPublication(t)]
        BY <1>24, <2>1, TypeParts DEF MonitorFold, InstanceTypes
      <4>2. "registration" \in Publisher BY DEF Publisher
      <4> QED BY <4>1, <4>2, TypeParts DEF PubTypes
    <3> QED BY <2>1, <3>1, <3>2, <3>3, <3>4, TypeParts DEF Locked, Holds, TurnOver, InstanceTypes
  <2>2. CASE monitor' = [monitor EXCEPT ![t] = "over"]
    <3>1. UNCHANGED <<run, next, taskRegistrationMu, pc, instanceMu, status, pub>> /\ run[t] # "none" /\
              monitor[t] = "streaming"
      BY <1>24, <2>2, TypeParts DEF MonitorFold, InstanceTypes
    <3> QED BY <2>2, <3>1, TypeParts DEF Locked, Holds, InstanceTypes
  <2> QED BY <1>24, <2>1, <2>2 DEF MonitorFold
<1>25. ASSUME NEW t \in Turn, MonitorDequeue(t) PROVE Locked'
  BY <1>25, TypeParts, Turns
  DEF MonitorDequeue, HasNext, Locked, Holds, RecordTypes, InstanceTypes, CallTypes, ManagerTypes
<1>26. ASSUME NEW t \in Turn, MonitorNext(t) PROVE Locked'
  BY <1>26, TypeParts, Turns
  DEF MonitorNext, Locked, Holds, RecordTypes, InstanceTypes, CallTypes, ManagerTypes
<1>27. ASSUME NEW m \in Message, Send(m) PROVE Locked'
  BY <1>27, TypeParts, Turns
  DEF Send, Enqueue, SignalChanged, EnsureAgentLocked, Locked, Holds, RecordTypes, InstanceTypes,
      CallTypes, ManagerTypes
<1>28. ASSUME CloseRecord PROVE Locked'
  BY <1>28, TypeParts, Turns
  DEF CloseRecord, Locked, Holds, RecordTypes, InstanceTypes, CallTypes, ManagerTypes
<1>29. ASSUME CloseFinish PROVE Locked'
  BY <1>29, TypeParts, Turns
  DEF CloseFinish, SignalChanged, Locked, Holds, RecordTypes, InstanceTypes, CallTypes,
      ManagerTypes
<1>30. ASSUME ShutdownBegin PROVE Locked'
  BY <1>30, TypeParts, Turns
  DEF ShutdownBegin, Shutdown, Locked, Holds, RecordTypes, InstanceTypes, CallTypes, ManagerTypes
<1>31. ASSUME RetainForShutdown PROVE Locked'
  BY <1>31, TypeParts, Turns
  DEF RetainForShutdown, Shutdown, RetainRecord, TurnOver, Locked, Holds, RecordTypes,
      InstanceTypes, CallTypes, ManagerTypes
<1>32. ASSUME ReleaseAgent PROVE Locked'
  BY <1>32, TypeParts, Turns
  DEF ReleaseAgent, Shutdown, Locked, Holds, RecordTypes, InstanceTypes, CallTypes, ManagerTypes
<1>33. ASSUME ShutdownSignal PROVE Locked'
  BY <1>33, TypeParts, Turns
  DEF ShutdownSignal, Shutdown, SignalChanged, Locked, Holds, RecordTypes, InstanceTypes,
      CallTypes, ManagerTypes
<1>34. ASSUME ShutdownCancel PROVE Locked'
  BY <1>34, TypeParts, Turns
  DEF ShutdownCancel, Shutdown, Locked, Holds, RecordTypes, InstanceTypes, CallTypes, ManagerTypes
<1>35. ASSUME ShutdownWait PROVE Locked'
  BY <1>35, TypeParts, Turns
  DEF ShutdownWait, Shutdown, Locked, Holds, RecordTypes, InstanceTypes, CallTypes, ManagerTypes
<1>36. CASE UNCHANGED vars
  BY <1>36, TypeParts, Turns
  DEF vars, Locked, Holds, RecordTypes, InstanceTypes, CallTypes, ManagerTypes
<1> QED
  BY <1>1, <1>2, <1>3, <1>4, <1>5, <1>6, <1>7, <1>8, <1>9, <1>10, <1>11, <1>12, <1>13, <1>14, <1>15, <1>16,
     <1>17, <1>18, <1>19, <1>20, <1>21, <1>22, <1>23, <1>24, <1>25, <1>26, <1>27, <1>28, <1>29, <1>30, <1>31,
     <1>32, <1>33, <1>34, <1>35, <1>36, Zenon
  DEF Next, StartStep, CallProgress, MonitorProgress, Publish, CloseAgent

\* What the record says.
LEMMA RecordedNext ==
  ASSUME TypeOK, Locked, Recorded, Called, [Next]_vars
  PROVE  Recorded'
<1>1. ASSUME CreateTask PROVE Recorded'
  BY <1>1, TypeParts, Turns
  DEF CreateTask, Goto, Return, Recorded, Begun, RecordTypes, InstanceTypes, CallTypes,
      ManagerTypes, Locked, Holds
<1>2. ASSUME StartCreated PROVE Recorded'
  BY <1>2, TypeParts, Turns
  DEF StartCreated, MayStart, StartTurnLocked, SignalChanged, Goto, Return, Recorded, Begun,
      RecordTypes, InstanceTypes, CallTypes, ManagerTypes, Locked, Holds
<1>3. ASSUME ReadStarted PROVE Recorded'
  BY <1>3, TypeParts, Turns
  DEF ReadStarted, Goto, Recorded, Begun, RecordTypes, InstanceTypes, CallTypes, ManagerTypes,
      Locked, Holds
<1>4. ASSUME AdoptRun PROVE Recorded'
  BY <1>4, TypeParts, Turns
  DEF AdoptRun, AfterStart, Goto, Return, Recorded, Begun, RecordTypes, InstanceTypes, CallTypes,
      ManagerTypes, Locked, Holds
<1>5. ASSUME NEW c \in Call, ResumeBegin(c) PROVE Recorded'
  BY <1>5, TypeParts, Turns
  DEF ResumeBegin, Resumable, Goto, Return, Recorded, Begun, RecordTypes, InstanceTypes, CallTypes,
      ManagerTypes, Locked, Holds
<1>6. ASSUME NEW c \in Call, ResumeTask(c) PROVE Recorded'
  BY <1>6, TypeParts, Turns
  DEF ResumeTask, Resumable, EnsureAgentLocked, Goto, Return, Recorded, Begun, RecordTypes,
      InstanceTypes, CallTypes, ManagerTypes, Locked, Holds
<1>7. ASSUME NEW c \in Call, CancelCall(c) PROVE Recorded'
  BY <1>7, TypeParts, Turns
  DEF CancelCall, Goto, Recorded, Begun, RecordTypes, InstanceTypes, CallTypes, ManagerTypes,
      Locked, Holds
<1>8. ASSUME NEW c \in Call, PromoteTask(c) PROVE Recorded'
  BY <1>8, TypeParts, Turns
  DEF PromoteTask, Goto, Recorded, Begun, RecordTypes, InstanceTypes, CallTypes, ManagerTypes,
      Locked, Holds
<1>9. ASSUME NEW c \in Call, WaitRunDone(c) PROVE Recorded'
  BY <1>9, TypeParts, Turns
  DEF WaitRunDone, Goto, Recorded, Begun, RecordTypes, InstanceTypes, CallTypes, ManagerTypes,
      Locked, Holds
<1>10. ASSUME NEW c \in Call, WaitLifecycle(c) PROVE Recorded'
  BY <1>10, TypeParts, Turns
  DEF WaitLifecycle, Goto, Recorded, Begun, RecordTypes, InstanceTypes, CallTypes, ManagerTypes,
      Locked, Holds
<1>11. ASSUME NEW c \in Call, WaitPublication(c) PROVE Recorded'
  BY <1>11, TypeParts, Turns
  DEF WaitPublication, LoadFence, Publishing, Goto, Recorded, Begun, RecordTypes, InstanceTypes,
      CallTypes, ManagerTypes, Locked, Holds
<1>12. ASSUME NEW c \in Call, RegisterBegin(c) PROVE Recorded'
  BY <1>12, TypeParts, Turns
  DEF RegisterBegin, Goto, Return, Recorded, Begun, RecordTypes, InstanceTypes, CallTypes,
      ManagerTypes, Locked, Holds
<1>13. ASSUME NEW c \in Call, RegisterScope(c) PROVE Recorded'
  BY <1>13, TypeParts, Turns
  DEF RegisterScope, Goto, Recorded, Begun, RecordTypes, InstanceTypes, CallTypes, ManagerTypes,
      Locked, Holds
<1>14. ASSUME NEW c \in Call, RegisterStore(c) PROVE Recorded'
  BY <1>14, TypeParts, Turns
  DEF RegisterStore, Publication, Goto, Return, Recorded, Begun, RecordTypes, InstanceTypes,
      CallTypes, ManagerTypes, Locked, Holds
<1>15. ASSUME NEW c \in Call, RegisterDone(c) PROVE Recorded'
  BY <1>15, TypeParts, Turns
  DEF RegisterDone, Goto, Return, Recorded, Begun, RecordTypes, InstanceTypes, CallTypes,
      ManagerTypes, Locked, Holds
<1>16. ASSUME NEW p \in Publisher, ClaimTaskCompletion(p) PROVE Recorded'
  BY <1>16, TypeParts, Turns
  DEF ClaimTaskCompletion, Advance, FirstClaim, Publication, NoPublication, Recorded, Begun,
      RecordTypes, InstanceTypes, CallTypes, ManagerTypes, Locked, Holds
<1>17. ASSUME NEW p \in Publisher, PublishTaskCompleted(p) PROVE Recorded'
  BY <1>17, TypeParts, Turns
  DEF PublishTaskCompleted, Advance, Publication, NoPublication, Recorded, Begun, RecordTypes,
      InstanceTypes, CallTypes, ManagerTypes, Locked, Holds
<1>18. ASSUME NEW p \in Publisher, AcceptTaskDelivery(p) PROVE Recorded'
  BY <1>18, TypeParts, Turns
  DEF AcceptTaskDelivery, Advance, Publication, NoPublication, Recorded, Begun, RecordTypes,
      InstanceTypes, CallTypes, ManagerTypes, Locked, Holds
<1>19. ASSUME NEW p \in Publisher, ClearTaskDelivery(p) PROVE Recorded'
  BY <1>19, TypeParts, Turns
  DEF ClearTaskDelivery, Advance, Publication, NoPublication, Recorded, Begun, RecordTypes,
      InstanceTypes, CallTypes, ManagerTypes, Locked, Holds
<1>20. ASSUME NEW p \in Publisher, UnmarkTaskExecution(p) PROVE Recorded'
  BY <1>20, TypeParts, Turns
  DEF UnmarkTaskExecution, Advance, Publication, NoPublication, SignalChanged, Recorded, Begun,
      RecordTypes, InstanceTypes, CallTypes, ManagerTypes, Locked, Holds
<1>21. ASSUME NEW t \in Turn, StartTurn(t) PROVE Recorded'
  BY <1>21, TypeParts, Turns
  DEF StartTurn, MayStart, StartTurnLocked, SignalChanged, AfterStart, TurnOver, Goto, Return,
      Recorded, Begun, RecordTypes, InstanceTypes, CallTypes, ManagerTypes, Locked, Holds
<1>22. ASSUME NEW t \in Turn, RunEnds(t) PROVE Recorded'
  BY <1>22, TypeParts, Turns
  DEF RunEnds, Recorded, Begun, RecordTypes, InstanceTypes, CallTypes, ManagerTypes, Locked, Holds
<1>23. ASSUME NEW t \in Turn, MonitorEvent(t) PROVE Recorded'
  BY <1>23, TypeParts, Turns
  DEF MonitorEvent, SignalChanged, Recorded, Begun, RecordTypes, InstanceTypes, CallTypes,
      ManagerTypes, Locked, Holds
<1>24. ASSUME NEW t \in Turn, MonitorFold(t) PROVE Recorded'
  <2>1. /\ UNCHANGED <<pending, sent, started, pc, run>> /\ run[t] # "none" /\ t \in TurnOrNone /\ t # None
        /\ agentLive' \in {agentLive, FALSE} /\ instanceRun' \in {instanceRun, None}
    BY <1>24, Turns DEF MonitorFold
  <2>2. Begun(t) BY <2>1 DEF Recorded
  <2>3. \/ TurnOver(t) /\ instanceMu' = t /\ agentLive' = agentLive /\ status # "closed"
        \/ UNCHANGED <<status, currentTurn, lastTurn, instanceMu>>
    BY <1>24 DEF MonitorFold
  <2>4. CASE TurnOver(t) /\ instanceMu' = t /\ agentLive' = agentLive /\ status # "closed"
    <3>1. status' = "idle" /\ currentTurn' = None /\ lastTurn' = t BY <2>4 DEF TurnOver
    <3> QED BY <2>1, <2>2, <2>4, <3>1 DEF Recorded, Begun
  <2>5. CASE UNCHANGED <<status, currentTurn, lastTurn, instanceMu>>
    <3>1. ~agentLive => ~agentLive' BY <2>1
    <3>2. instanceRun = None => instanceRun' = None BY <2>1
    <3>3. /\ status' = status /\ currentTurn' = currentTurn /\ lastTurn' = lastTurn /\ instanceMu' = instanceMu
          /\ pending' = pending /\ sent' = sent /\ started' = started /\ pc' = pc /\ run' = run
      BY <2>1, <2>5
    <3> QED BY <3>1, <3>2, <3>3, Zenon DEF Recorded, Begun
  <2> QED BY <2>3, <2>4, <2>5
<1>25. ASSUME NEW t \in Turn, MonitorDequeue(t) PROVE Recorded'
  BY <1>25, TypeParts, Turns
  DEF MonitorDequeue, HasNext, Recorded, Begun, RecordTypes, InstanceTypes, CallTypes,
      ManagerTypes, Locked, Holds
<1>26. ASSUME NEW t \in Turn, MonitorNext(t) PROVE Recorded'
  BY <1>26, TypeParts, Turns
  DEF MonitorNext, Recorded, Begun, RecordTypes, InstanceTypes, CallTypes, ManagerTypes, Locked,
      Holds
<1>27. ASSUME NEW m \in Message, Send(m) PROVE Recorded'
  BY <1>27, TypeParts, Turns
  DEF Send, Enqueue, SignalChanged, EnsureAgentLocked, Recorded, Begun, RecordTypes, InstanceTypes,
      CallTypes, ManagerTypes, Locked, Holds
<1>28. ASSUME CloseRecord PROVE Recorded'
  BY <1>28, TypeParts, Turns
  DEF CloseRecord, Recorded, Begun, RecordTypes, InstanceTypes, CallTypes, ManagerTypes, Locked,
      Holds
<1>29. ASSUME CloseFinish PROVE Recorded'
  BY <1>29, TypeParts, Turns
  DEF CloseFinish, SignalChanged, Recorded, Begun, RecordTypes, InstanceTypes, CallTypes,
      ManagerTypes, Locked, Holds
<1>30. ASSUME ShutdownBegin PROVE Recorded'
  BY <1>30, TypeParts, Turns
  DEF ShutdownBegin, Shutdown, Recorded, Begun, RecordTypes, InstanceTypes, CallTypes,
      ManagerTypes, Locked, Holds
<1>31. ASSUME RetainForShutdown PROVE Recorded'
  BY <1>31, TypeParts, Turns
  DEF RetainForShutdown, Shutdown, RetainRecord, TurnOver, Recorded, Begun, RecordTypes,
      InstanceTypes, CallTypes, ManagerTypes, Locked, Holds
<1>32. ASSUME ReleaseAgent PROVE Recorded'
  BY <1>32, TypeParts, Turns
  DEF ReleaseAgent, Shutdown, Recorded, Begun, RecordTypes, InstanceTypes, CallTypes, ManagerTypes,
      Locked, Holds
<1>33. ASSUME ShutdownSignal PROVE Recorded'
  BY <1>33, TypeParts, Turns
  DEF ShutdownSignal, Shutdown, SignalChanged, Recorded, Begun, RecordTypes, InstanceTypes,
      CallTypes, ManagerTypes, Locked, Holds
<1>34. ASSUME ShutdownCancel PROVE Recorded'
  BY <1>34, TypeParts, Turns
  DEF ShutdownCancel, Shutdown, Recorded, Begun, RecordTypes, InstanceTypes, CallTypes,
      ManagerTypes, Locked, Holds
<1>35. ASSUME ShutdownWait PROVE Recorded'
  BY <1>35, TypeParts, Turns
  DEF ShutdownWait, Shutdown, Recorded, Begun, RecordTypes, InstanceTypes, CallTypes, ManagerTypes,
      Locked, Holds
<1>36. CASE UNCHANGED vars
  BY <1>36, TypeParts, Turns
  DEF vars, Recorded, Begun, RecordTypes, InstanceTypes, CallTypes, ManagerTypes, Locked, Holds
<1> QED
  BY <1>1, <1>2, <1>3, <1>4, <1>5, <1>6, <1>7, <1>8, <1>9, <1>10, <1>11, <1>12, <1>13, <1>14, <1>15, <1>16,
     <1>17, <1>18, <1>19, <1>20, <1>21, <1>22, <1>23, <1>24, <1>25, <1>26, <1>27, <1>28, <1>29, <1>30, <1>31,
     <1>32, <1>33, <1>34, <1>35, <1>36, Zenon
  DEF Next, StartStep, CallProgress, MonitorProgress, Publish, CloseAgent

\* What the calls know.
LEMMA CalledNext ==
  ASSUME TypeOK, Locked, Recorded, Called, [Next]_vars
  PROVE  Called'
<1>1. ASSUME CreateTask PROVE Called'
  BY <1>1, TypeParts, Turns
  DEF CreateTask, Goto, Return, Called, CallInv, Recorded, Begun, Waits, Registers, RecordTypes,
      InstanceTypes, CallTypes
<1>2. ASSUME StartCreated PROVE Called'
  BY <1>2, TypeParts, Turns
  DEF StartCreated, MayStart, StartTurnLocked, SignalChanged, Goto, Return, Called, CallInv,
      Recorded, Begun, Waits, Registers, RecordTypes, InstanceTypes, CallTypes
<1>3. ASSUME ReadStarted PROVE Called'
  BY <1>3, TypeParts, Turns
  DEF ReadStarted, Goto, Called, CallInv, Recorded, Begun, Waits, Registers, RecordTypes,
      InstanceTypes, CallTypes
<1>4. ASSUME AdoptRun PROVE Called'
  BY <1>4, TypeParts, Turns
  DEF AdoptRun, AfterStart, Goto, Return, Called, CallInv, Recorded, Begun, Waits, Registers,
      RecordTypes, InstanceTypes, CallTypes
<1>5. ASSUME NEW c \in Call, ResumeBegin(c) PROVE Called'
  BY <1>5, TypeParts, Turns
  DEF ResumeBegin, Resumable, Goto, Return, Called, CallInv, Recorded, Begun, Waits, Registers,
      RecordTypes, InstanceTypes, CallTypes
<1>6. ASSUME NEW c \in Call, ResumeTask(c) PROVE Called'
  BY <1>6, TypeParts, Turns
  DEF ResumeTask, Resumable, EnsureAgentLocked, Goto, Return, Called, CallInv, Recorded, Begun,
      Waits, Registers, RecordTypes, InstanceTypes, CallTypes
<1>7. ASSUME NEW c \in Call, CancelCall(c) PROVE Called'
  BY <1>7, TypeParts, Turns
  DEF CancelCall, Goto, Called, CallInv, Recorded, Begun, Waits, Registers, RecordTypes,
      InstanceTypes, CallTypes
<1>8. ASSUME NEW c \in Call, PromoteTask(c) PROVE Called'
  BY <1>8, TypeParts, Turns
  DEF PromoteTask, Goto, Called, CallInv, Recorded, Begun, Waits, Registers, RecordTypes,
      InstanceTypes, CallTypes
<1>9. ASSUME NEW c \in Call, WaitRunDone(c) PROVE Called'
  BY <1>9, TypeParts, Turns
  DEF WaitRunDone, Goto, Called, CallInv, Recorded, Begun, Waits, Registers, RecordTypes,
      InstanceTypes, CallTypes
<1>10. ASSUME NEW c \in Call, WaitLifecycle(c) PROVE Called'
  BY <1>10, TypeParts, Turns
  DEF WaitLifecycle, Goto, Called, CallInv, Recorded, Begun, Waits, Registers, RecordTypes,
      InstanceTypes, CallTypes
<1>11. ASSUME NEW c \in Call, WaitPublication(c) PROVE Called'
  BY <1>11, TypeParts, Turns
  DEF WaitPublication, LoadFence, Publishing, Goto, Called, CallInv, Recorded, Begun, Waits,
      Registers, RecordTypes, InstanceTypes, CallTypes
<1>12. ASSUME NEW c \in Call, RegisterBegin(c) PROVE Called'
  BY <1>12, TypeParts, Turns
  DEF RegisterBegin, Goto, Return, Called, CallInv, Recorded, Begun, Waits, Registers, RecordTypes,
      InstanceTypes, CallTypes
<1>13. ASSUME NEW c \in Call, RegisterScope(c) PROVE Called'
  BY <1>13, TypeParts, Turns
  DEF RegisterScope, Goto, Called, CallInv, Recorded, Begun, Waits, Registers, RecordTypes,
      InstanceTypes, CallTypes
<1>14. ASSUME NEW c \in Call, RegisterStore(c) PROVE Called'
  BY <1>14, TypeParts, Turns
  DEF RegisterStore, Publication, Goto, Return, Called, CallInv, Recorded, Begun, Waits, Registers,
      RecordTypes, InstanceTypes, CallTypes
<1>15. ASSUME NEW c \in Call, RegisterDone(c) PROVE Called'
  BY <1>15, TypeParts, Turns
  DEF RegisterDone, Goto, Return, Called, CallInv, Recorded, Begun, Waits, Registers, RecordTypes,
      InstanceTypes, CallTypes
<1>16. ASSUME NEW p \in Publisher, ClaimTaskCompletion(p) PROVE Called'
  BY <1>16, TypeParts, Turns
  DEF ClaimTaskCompletion, Advance, FirstClaim, Publication, NoPublication, Called, CallInv,
      Recorded, Begun, Waits, Registers, RecordTypes, InstanceTypes, CallTypes
<1>17. ASSUME NEW p \in Publisher, PublishTaskCompleted(p) PROVE Called'
  BY <1>17, TypeParts, Turns
  DEF PublishTaskCompleted, Advance, Publication, NoPublication, Called, CallInv, Recorded, Begun,
      Waits, Registers, RecordTypes, InstanceTypes, CallTypes
<1>18. ASSUME NEW p \in Publisher, AcceptTaskDelivery(p) PROVE Called'
  BY <1>18, TypeParts, Turns
  DEF AcceptTaskDelivery, Advance, Publication, NoPublication, Called, CallInv, Recorded, Begun,
      Waits, Registers, RecordTypes, InstanceTypes, CallTypes
<1>19. ASSUME NEW p \in Publisher, ClearTaskDelivery(p) PROVE Called'
  BY <1>19, TypeParts, Turns
  DEF ClearTaskDelivery, Advance, Publication, NoPublication, Called, CallInv, Recorded, Begun,
      Waits, Registers, RecordTypes, InstanceTypes, CallTypes
<1>20. ASSUME NEW p \in Publisher, UnmarkTaskExecution(p) PROVE Called'
  BY <1>20, TypeParts, Turns
  DEF UnmarkTaskExecution, Advance, Publication, NoPublication, SignalChanged, Called, CallInv,
      Recorded, Begun, Waits, Registers, RecordTypes, InstanceTypes, CallTypes
<1>21. ASSUME NEW t \in Turn, StartTurn(t) PROVE Called'
  BY <1>21, TypeParts, Turns
  DEF StartTurn, MayStart, StartTurnLocked, SignalChanged, AfterStart, TurnOver, Goto, Return,
      Called, CallInv, Recorded, Begun, Waits, Registers, RecordTypes, InstanceTypes, CallTypes,
      Locked, Holds
<1>22. ASSUME NEW t \in Turn, RunEnds(t) PROVE Called'
  BY <1>22, TypeParts, Turns
  DEF RunEnds, Called, CallInv, Recorded, Begun, Waits, Registers, RecordTypes, InstanceTypes,
      CallTypes
<1>23. ASSUME NEW t \in Turn, MonitorEvent(t) PROVE Called'
  BY <1>23, TypeParts, Turns
  DEF MonitorEvent, SignalChanged, Called, CallInv, Recorded, Begun, Waits, Registers, RecordTypes,
      InstanceTypes, CallTypes
<1>24. ASSUME NEW t \in Turn, MonitorFold(t) PROVE Called'
  BY <1>24, TypeParts, Turns
  DEF MonitorFold, TurnOver, SignalChanged, TerminalPublication, Publication, NoPublication,
      Called, CallInv, Recorded, Begun, Waits, Registers, RecordTypes, InstanceTypes, CallTypes
<1>25. ASSUME NEW t \in Turn, MonitorDequeue(t) PROVE Called'
  BY <1>25, TypeParts, Turns
  DEF MonitorDequeue, HasNext, Called, CallInv, Recorded, Begun, Waits, Registers, RecordTypes,
      InstanceTypes, CallTypes
<1>26. ASSUME NEW t \in Turn, MonitorNext(t) PROVE Called'
  BY <1>26, TypeParts, Turns
  DEF MonitorNext, Called, CallInv, Recorded, Begun, Waits, Registers, RecordTypes, InstanceTypes,
      CallTypes
<1>27. ASSUME NEW m \in Message, Send(m) PROVE Called'
  BY <1>27, TypeParts, Turns
  DEF Send, Enqueue, SignalChanged, EnsureAgentLocked, Called, CallInv, Recorded, Begun, Waits,
      Registers, RecordTypes, InstanceTypes, CallTypes
<1>28. ASSUME CloseRecord PROVE Called'
  BY <1>28, TypeParts, Turns
  DEF CloseRecord, Called, CallInv, Recorded, Begun, Waits, Registers, RecordTypes, InstanceTypes,
      CallTypes
<1>29. ASSUME CloseFinish PROVE Called'
  BY <1>29, TypeParts, Turns
  DEF CloseFinish, SignalChanged, Called, CallInv, Recorded, Begun, Waits, Registers, RecordTypes,
      InstanceTypes, CallTypes
<1>30. ASSUME ShutdownBegin PROVE Called'
  BY <1>30, TypeParts, Turns
  DEF ShutdownBegin, Shutdown, Called, CallInv, Recorded, Begun, Waits, Registers, RecordTypes,
      InstanceTypes, CallTypes
<1>31. ASSUME RetainForShutdown PROVE Called'
  BY <1>31, TypeParts, Turns
  DEF RetainForShutdown, Shutdown, RetainRecord, TurnOver, Called, CallInv, Recorded, Begun, Waits,
      Registers, RecordTypes, InstanceTypes, CallTypes
<1>32. ASSUME ReleaseAgent PROVE Called'
  BY <1>32, TypeParts, Turns
  DEF ReleaseAgent, Shutdown, Called, CallInv, Recorded, Begun, Waits, Registers, RecordTypes,
      InstanceTypes, CallTypes
<1>33. ASSUME ShutdownSignal PROVE Called'
  BY <1>33, TypeParts, Turns
  DEF ShutdownSignal, Shutdown, SignalChanged, Called, CallInv, Recorded, Begun, Waits, Registers,
      RecordTypes, InstanceTypes, CallTypes
<1>34. ASSUME ShutdownCancel PROVE Called'
  BY <1>34, TypeParts, Turns
  DEF ShutdownCancel, Shutdown, Called, CallInv, Recorded, Begun, Waits, Registers, RecordTypes,
      InstanceTypes, CallTypes
<1>35. ASSUME ShutdownWait PROVE Called'
  BY <1>35, TypeParts, Turns
  DEF ShutdownWait, Shutdown, Called, CallInv, Recorded, Begun, Waits, Registers, RecordTypes,
      InstanceTypes, CallTypes
<1>36. CASE UNCHANGED vars
  BY <1>36, TypeParts, Turns
  DEF vars, Called, CallInv, Recorded, Begun, Waits, Registers, RecordTypes, InstanceTypes,
      CallTypes
<1> QED
  BY <1>1, <1>2, <1>3, <1>4, <1>5, <1>6, <1>7, <1>8, <1>9, <1>10, <1>11, <1>12, <1>13, <1>14, <1>15, <1>16,
     <1>17, <1>18, <1>19, <1>20, <1>21, <1>22, <1>23, <1>24, <1>25, <1>26, <1>27, <1>28, <1>29, <1>30, <1>31,
     <1>32, <1>33, <1>34, <1>35, <1>36, Zenon
  DEF Next, StartStep, CallProgress, MonitorProgress, Publish, CloseAgent

\* A promised delivery stays promised.
LEMMA Promises ==
  ASSUME TypeOK, Locked, Called, NEW u, Registered(u), [Next]_vars
  PROVE  Registered(u)'
<1>1. ASSUME CreateTask PROVE Registered(u)'
  BY <1>1, TypeParts, Turns DEF CreateTask, Goto, Return, Registered, CallInv, Called, CallTypes
<1>2. ASSUME StartCreated PROVE Registered(u)'
  BY <1>2, TypeParts, Turns
  DEF StartCreated, MayStart, StartTurnLocked, SignalChanged, Goto, Return, Registered, CallInv,
      Called, CallTypes
<1>3. ASSUME ReadStarted PROVE Registered(u)'
  BY <1>3, TypeParts, Turns
  DEF ReadStarted, Goto, Registered, CallInv, Called, CallTypes
<1>4. ASSUME AdoptRun PROVE Registered(u)'
  BY <1>4, TypeParts, Turns
  DEF AdoptRun, AfterStart, Goto, Return, Registered, CallInv, Called, CallTypes
<1>5. ASSUME NEW c \in Call, ResumeBegin(c) PROVE Registered(u)'
  BY <1>5, TypeParts, Turns
  DEF ResumeBegin, Resumable, Goto, Return, Registered, CallInv, Called, CallTypes
<1>6. ASSUME NEW c \in Call, ResumeTask(c) PROVE Registered(u)'
  BY <1>6, TypeParts, Turns
  DEF ResumeTask, Resumable, EnsureAgentLocked, Goto, Return, Registered, CallInv, Called,
      CallTypes
<1>7. ASSUME NEW c \in Call, CancelCall(c) PROVE Registered(u)'
  BY <1>7, TypeParts, Turns
  DEF CancelCall, Goto, Registered, CallInv, Called, CallTypes
<1>8. ASSUME NEW c \in Call, PromoteTask(c) PROVE Registered(u)'
  BY <1>8, TypeParts, Turns
  DEF PromoteTask, Goto, Registered, CallInv, Called, CallTypes
<1>9. ASSUME NEW c \in Call, WaitRunDone(c) PROVE Registered(u)'
  BY <1>9, TypeParts, Turns
  DEF WaitRunDone, Goto, Registered, CallInv, Called, CallTypes
<1>10. ASSUME NEW c \in Call, WaitLifecycle(c) PROVE Registered(u)'
  BY <1>10, TypeParts, Turns
  DEF WaitLifecycle, Goto, Registered, CallInv, Called, CallTypes
<1>11. ASSUME NEW c \in Call, WaitPublication(c) PROVE Registered(u)'
  BY <1>11, TypeParts, Turns
  DEF WaitPublication, LoadFence, Publishing, Goto, Registered, CallInv, Called, CallTypes
<1>12. ASSUME NEW c \in Call, RegisterBegin(c) PROVE Registered(u)'
  BY <1>12, TypeParts, Turns
  DEF RegisterBegin, Goto, Return, Registered, CallInv, Called, CallTypes
<1>13. ASSUME NEW c \in Call, RegisterScope(c) PROVE Registered(u)'
  BY <1>13, TypeParts, Turns
  DEF RegisterScope, Goto, Registered, CallInv, Called, CallTypes
<1>14. ASSUME NEW c \in Call, RegisterStore(c) PROVE Registered(u)'
  BY <1>14, TypeParts, Turns
  DEF RegisterStore, Publication, Goto, Return, Registered, CallInv, Called, CallTypes
<1>15. ASSUME NEW c \in Call, RegisterDone(c) PROVE Registered(u)'
  BY <1>15, TypeParts, Turns
  DEF RegisterDone, Goto, Return, Registered, CallInv, Called, CallTypes
<1>16. ASSUME NEW p \in Publisher, ClaimTaskCompletion(p) PROVE Registered(u)'
  BY <1>16, TypeParts, Turns
  DEF ClaimTaskCompletion, Advance, FirstClaim, Publication, NoPublication, Registered, CallInv,
      Called, CallTypes
<1>17. ASSUME NEW p \in Publisher, PublishTaskCompleted(p) PROVE Registered(u)'
  BY <1>17, TypeParts, Turns
  DEF PublishTaskCompleted, Advance, Publication, NoPublication, Registered, CallInv, Called,
      CallTypes
<1>18. ASSUME NEW p \in Publisher, AcceptTaskDelivery(p) PROVE Registered(u)'
  BY <1>18, TypeParts, Turns
  DEF AcceptTaskDelivery, Advance, Publication, NoPublication, Registered, CallInv, Called,
      CallTypes
<1>19. ASSUME NEW p \in Publisher, ClearTaskDelivery(p) PROVE Registered(u)'
  BY <1>19, TypeParts, Turns
  DEF ClearTaskDelivery, Advance, Publication, NoPublication, Registered, CallInv, Called,
      CallTypes
<1>20. ASSUME NEW p \in Publisher, UnmarkTaskExecution(p) PROVE Registered(u)'
  BY <1>20, TypeParts, Turns
  DEF UnmarkTaskExecution, Advance, Publication, NoPublication, SignalChanged, Registered, CallInv,
      Called, CallTypes
<1>21. ASSUME NEW t \in Turn, StartTurn(t) PROVE Registered(u)'
  BY <1>21, TypeParts, Turns
  DEF StartTurn, MayStart, StartTurnLocked, SignalChanged, AfterStart, TurnOver, Goto, Return,
      Registered, CallInv, Called, CallTypes, Locked, Holds
<1>22. ASSUME NEW t \in Turn, RunEnds(t) PROVE Registered(u)'
  BY <1>22, TypeParts, Turns
  DEF RunEnds, Registered, CallInv, Called, CallTypes
<1>23. ASSUME NEW t \in Turn, MonitorEvent(t) PROVE Registered(u)'
  BY <1>23, TypeParts, Turns
  DEF MonitorEvent, SignalChanged, Registered, CallInv, Called, CallTypes
<1>24. ASSUME NEW t \in Turn, MonitorFold(t) PROVE Registered(u)'
  BY <1>24, TypeParts, Turns
  DEF MonitorFold, TurnOver, SignalChanged, TerminalPublication, Publication, NoPublication,
      Registered, CallInv, Called, CallTypes
<1>25. ASSUME NEW t \in Turn, MonitorDequeue(t) PROVE Registered(u)'
  BY <1>25, TypeParts, Turns
  DEF MonitorDequeue, HasNext, Registered, CallInv, Called, CallTypes
<1>26. ASSUME NEW t \in Turn, MonitorNext(t) PROVE Registered(u)'
  BY <1>26, TypeParts, Turns DEF MonitorNext, Registered, CallInv, Called, CallTypes
<1>27. ASSUME NEW m \in Message, Send(m) PROVE Registered(u)'
  BY <1>27, TypeParts, Turns
  DEF Send, Enqueue, SignalChanged, EnsureAgentLocked, Registered, CallInv, Called, CallTypes
<1>28. ASSUME CloseRecord PROVE Registered(u)'
  BY <1>28, TypeParts, Turns DEF CloseRecord, Registered, CallInv, Called, CallTypes
<1>29. ASSUME CloseFinish PROVE Registered(u)'
  BY <1>29, TypeParts, Turns
  DEF CloseFinish, SignalChanged, Registered, CallInv, Called, CallTypes
<1>30. ASSUME ShutdownBegin PROVE Registered(u)'
  BY <1>30, TypeParts, Turns
  DEF ShutdownBegin, Shutdown, Registered, CallInv, Called, CallTypes
<1>31. ASSUME RetainForShutdown PROVE Registered(u)'
  BY <1>31, TypeParts, Turns
  DEF RetainForShutdown, Shutdown, RetainRecord, TurnOver, Registered, CallInv, Called, CallTypes
<1>32. ASSUME ReleaseAgent PROVE Registered(u)'
  BY <1>32, TypeParts, Turns
  DEF ReleaseAgent, Shutdown, Registered, CallInv, Called, CallTypes
<1>33. ASSUME ShutdownSignal PROVE Registered(u)'
  BY <1>33, TypeParts, Turns
  DEF ShutdownSignal, Shutdown, SignalChanged, Registered, CallInv, Called, CallTypes
<1>34. ASSUME ShutdownCancel PROVE Registered(u)'
  BY <1>34, TypeParts, Turns
  DEF ShutdownCancel, Shutdown, Registered, CallInv, Called, CallTypes
<1>35. ASSUME ShutdownWait PROVE Registered(u)'
  BY <1>35, TypeParts, Turns
  DEF ShutdownWait, Shutdown, Registered, CallInv, Called, CallTypes
<1>36. CASE UNCHANGED vars
  BY <1>36, TypeParts, Turns
  DEF vars, Registered, CallInv, Called, CallTypes
<1> QED
  BY <1>1, <1>2, <1>3, <1>4, <1>5, <1>6, <1>7, <1>8, <1>9, <1>10, <1>11, <1>12, <1>13, <1>14, <1>15, <1>16,
     <1>17, <1>18, <1>19, <1>20, <1>21, <1>22, <1>23, <1>24, <1>25, <1>26, <1>27, <1>28, <1>29, <1>30, <1>31,
     <1>32, <1>33, <1>34, <1>35, <1>36, Zenon
  DEF Next, StartStep, CallProgress, MonitorProgress, Publish, CloseAgent

\* What others do to the claims.
LEMMA ClaimsKept ==
  ASSUME Claims, UNCHANGED <<pub, taskDeliverySeen, completed, accepted>>,
         activeDelivery' = activeDelivery \/ activeDelivery' = None \/ Registered(activeDelivery)',
         \A u : Registered(u) => Registered(u)'
  PROVE  Claims'
<1>1. /\ pub' = pub /\ taskDeliverySeen' = taskDeliverySeen
      /\ \A t : InCompleted(t)' <=> InCompleted(t)
      /\ \A t : InAccepted(t)' <=> InAccepted(t)
      /\ Once' <=> Once
  BY DEF InCompleted, InAccepted, Once
<1>2. ASSUME NEW p \in Publisher PROVE Claimant(p)'
  <2>1. Claimant(p) BY DEF Claims
  <2> QED BY <1>1, <2>1 DEF Claimant
<1> QED BY <1>1, <1>2 DEF Claims

\* Who begins a publication has none in progress.
LEMMA ClaimsBegin ==
  ASSUME Claims, PubTypes, NEW p \in Publisher, pub[p].step = "idle", NEW x \in Publications,
         x.step \in {"idle", "claim"},
         x.step # "idle" => /\ x.turn # None /\ x.output # None
                            /\ ~x.foreground => Registered(x.turn)'
                            /\ x.foreground => p = "monitor",
         pub' = [pub EXCEPT ![p] = x], UNCHANGED <<taskDeliverySeen, completed, accepted>>,
         activeDelivery' = activeDelivery \/ activeDelivery' = None \/ Registered(activeDelivery)',
         \A u : Registered(u) => Registered(u)'
  PROVE  Claims'
<1>1. /\ taskDeliverySeen' = taskDeliverySeen
      /\ \A t : InCompleted(t)' <=> InCompleted(t)
      /\ \A t : InAccepted(t)' <=> InAccepted(t)
      /\ Once' <=> Once
  BY DEF InCompleted, InAccepted, Once
<1>2. pub'[p] = x /\ \A q \in Publisher : q # p => pub'[q] = pub[q] BY PubSet
<1>3. ASSUME NEW q \in Publisher PROVE Claimant(q)'
  <2>1. CASE q = p BY <1>2, <2>1 DEF Claimant
  <2>2. CASE q # p
    <3>1. Claimant(q) /\ pub'[q] = pub[q] BY <1>2, <2>2 DEF Claims
    <3> QED BY <1>1, <3>1 DEF Claimant
  <2> QED BY <2>1, <2>2
<1>4. \A q \in Publisher : pub'[q].step \in {"event", "accept"} => pub'[q] = pub[q] BY <1>2
<1>5. \A q \in Publisher : pub[q].step \in {"event", "accept"} => pub'[q] = pub[q] BY <1>2
<1>6. \A q, r \in Publisher :
        q # r /\ pub'[q].step \in {"event", "accept"} /\ pub'[r].step \in {"event", "accept"} =>
             pub'[q].turn # pub'[r].turn
  BY <1>4 DEF Claims
<1>7. \A t \in taskDeliverySeen : InCompleted(t) \/ \E q \in Publisher : pub'[q].step = "event" /\ pub'[q].turn = t
  BY <1>5 DEF Claims
<1> QED BY <1>1, <1>3, <1>6, <1>7 DEF Claims

\* What was not in a sequence is in it once when it is appended.
LEMMA Appended ==
  ASSUME NEW S, NEW q \in Seq(S), NEW x \in S
  PROVE  /\ DOMAIN Append(q, x) = 1..(Len(q) + 1) /\ DOMAIN q = 1..Len(q) /\ Len(q) \in Nat
         /\ \A i \in 1..Len(q) : Append(q, x)[i] = q[i]
         /\ Append(q, x)[Len(q) + 1] = x
  OBVIOUS

\* The publications, one step at a time.
LEMMA CompletedGrows ==
  ASSUME completed \in Seq(Turn), NEW t \in Turn, completed' = Append(completed, t), ~InCompleted(t), Once,
       UNCHANGED accepted
  PROVE  (\A u : InCompleted(u)' <=> InCompleted(u) \/ u = t) /\ Once' /\ \A u : InAccepted(u)' <=> InAccepted(u)
<1>1. /\ DOMAIN completed' = 1..(Len(completed) + 1) /\ DOMAIN completed = 1..Len(completed) /\ Len(completed) \in Nat
      /\ \A i \in 1..Len(completed) : completed'[i] = completed[i]
      /\ completed'[Len(completed) + 1] = t
  BY Appended
<1>2. \A u : InCompleted(u)' <=> InCompleted(u) \/ u = t BY <1>1 DEF InCompleted
<1>3. Once' BY <1>1 DEF Once, InCompleted
<1> QED BY <1>2, <1>3 DEF InAccepted

\* ... and a result handed over is handed over once more than before.
LEMMA AcceptedGrows ==
  ASSUME accepted \in Seq(Delivery), NEW d \in Delivery, accepted' = Append(accepted, d), ~InAccepted(d.turn), Once,
         UNCHANGED completed
  PROVE  (\A u : InAccepted(u)' <=> InAccepted(u) \/ u = d.turn) /\ Once' /\ \A u : InCompleted(u)' <=> InCompleted(u)
<1>1. /\ DOMAIN accepted' = 1..(Len(accepted) + 1) /\ DOMAIN accepted = 1..Len(accepted) /\ Len(accepted) \in Nat
      /\ \A i \in 1..Len(accepted) : accepted'[i] = accepted[i]
      /\ accepted'[Len(accepted) + 1] = d
  BY Appended
<1>2. \A u : InAccepted(u)' <=> InAccepted(u) \/ u = d.turn BY <1>1 DEF InAccepted
<1>3. Once' BY <1>1 DEF Once, InAccepted
<1> QED BY <1>2, <1>3 DEF InCompleted

\* A publication in progress has a turn.
LEMMA Publishes ==
  ASSUME TypeOK, Claims, NEW p \in Publisher, pub[p].step # "idle"
  PROVE  pub[p].turn \in Turn /\ pub[p].output \in Turn
<1>1. pub[p] \in Publications BY TypeParts DEF PubTypes
<1> QED BY <1>1, PublicationsFields, Turns DEF Claims, Claimant

\* Of two claims of one turn the first publishes its event; a foreground
\* completion that lost was claimed by a registration, whose call promises it.
LEMMA ClaimsClaim ==
  ASSUME TypeOK, Claims, NEW p \in Publisher, ClaimTaskCompletion(p), \A u : Registered(u) => Registered(u)'
  PROVE  Claims'
<1> DEFINE t == pub[p].turn
           s == IF FirstClaim(t) THEN "event" ELSE IF pub[p].foreground THEN "unmark" ELSE "idle"
<1>1. pub[p].step = "claim" /\ taskDeliverySeen' = taskDeliverySeen \cup {t} /\ Advance(p, s)
      /\ activeDelivery' = activeDelivery /\ completed' = completed /\ accepted' = accepted
  BY DEF ClaimTaskCompletion
<1>2. s \in PublishStep BY PublishSteps
<1>3. /\ s = "event" => t \notin taskDeliverySeen
      /\ s # "event" => t \in taskDeliverySeen
      /\ s = "unmark" => pub[p].foreground
      /\ s \in {"event", "unmark", "idle"}
  BY DEF FirstClaim
<1> HIDE DEF s
<1>4. /\ \A q \in Publisher : q # p => pub'[q] = pub[q]
      /\ pub'[p].step = s
      /\ s # "idle" => pub'[p].turn = t /\ pub'[p].output = pub[p].output /\ pub'[p].foreground = pub[p].foreground
  BY <1>1, <1>2, TypeParts, Advances
<1>5. /\ \A u : InCompleted(u)' <=> InCompleted(u)
      /\ \A u : InAccepted(u)' <=> InAccepted(u)
      /\ Once' <=> Once
  BY <1>1 DEF InCompleted, InAccepted, Once
<1>6. \A u \in Turn : InCompleted(u) \/ InAccepted(u) => u \in taskDeliverySeen BY DEF Claims
<1>7. t \in Turn /\ pub[p].step # "idle"
  <2>1. pub[p].step # "idle" BY <1>1
  <2> QED BY <2>1, Publishes
<1>8. ASSUME NEW q \in Publisher PROVE Claimant(q)'
  <2>1. CASE q # p
    <3>1. Claimant(q) /\ pub'[q] = pub[q] BY <1>4, <2>1 DEF Claims
    <3> QED BY <1>1, <1>5, <3>1 DEF Claimant
  <2>2. CASE q = p
    <3>1. Claimant(p) BY DEF Claims
    <3>2. CASE s = "event" BY <1>1, <1>3, <1>4, <1>5, <1>6, <1>7, <2>2, <3>1, <3>2 DEF Claimant
    <3>3. CASE s = "unmark"
      <4>1. pub[p].foreground /\ t \in taskDeliverySeen /\ p = "monitor"
        BY <1>3, <1>7, <3>1, <3>3 DEF Claimant
      <4>2. InCompleted(t) \/ Registered(t)
        <5>1. CASE InCompleted(t) BY <5>1
        <5>2. CASE ~InCompleted(t)
          <6>1. PICK r \in Publisher : pub[r].step = "event" /\ pub[r].turn = t BY <4>1, <5>2 DEF Claims
          <6>2. r # p BY <1>1, <6>1
          <6>3. Claimant(r) /\ pub[r].step # "idle" BY <6>1 DEF Claims
          <6>4. ~pub[r].foreground BY <4>1, <6>2, <6>3 DEF Claimant
          <6> QED BY <6>1, <6>3, <6>4 DEF Claimant
        <5> QED BY <5>1, <5>2
      <4>3. /\ pub'[p].step = "unmark" /\ pub'[p].turn = t /\ pub'[p].turn # None /\ pub'[p].output # None
            /\ pub'[p].foreground
        BY <1>4, <1>7, <3>1, <3>3, <4>1 DEF Claimant
      <4> QED BY <1>5, <2>2, <4>1, <4>2, <4>3 DEF Claimant
    <3>4. CASE s = "idle" BY <1>4, <2>2, <3>4 DEF Claimant
    <3> QED BY <1>3, <3>2, <3>3, <3>4
  <2> QED BY <2>1, <2>2
<1>9. ASSUME NEW q \in Publisher, NEW r \in Publisher, q # r,
             pub'[q].step \in {"event", "accept"}, pub'[r].step \in {"event", "accept"}
      PROVE  pub'[q].turn # pub'[r].turn
  <2>1. \A x \in Publisher : x # p /\ pub'[x].step \in {"event", "accept"} => pub'[x].turn \in taskDeliverySeen
    BY <1>4 DEF Claims, Claimant
  <2>2. pub'[p].step \in {"event", "accept"} => pub'[p].turn \notin taskDeliverySeen BY <1>3, <1>4
  <2> QED BY <1>4, <1>9, <2>1, <2>2 DEF Claims
<1>10. ASSUME NEW u \in taskDeliverySeen'
       PROVE  InCompleted(u) \/ \E q \in Publisher : pub'[q].step = "event" /\ pub'[q].turn = u
  <2>1. CASE u \in taskDeliverySeen
    <3>1. InCompleted(u) \/ \E q \in Publisher : q # p /\ pub[q].step = "event" /\ pub[q].turn = u
      BY <1>1, <2>1 DEF Claims
    <3> QED BY <1>4, <3>1
  <2>2. CASE u \notin taskDeliverySeen
    <3>1. u = t /\ s = "event" BY <1>1, <1>3, <2>2
    <3> QED BY <1>4, <3>1
  <2> QED BY <2>1, <2>2
<1> HIDE DEF t
<1> QED BY <1>1, <1>5, <1>8, <1>9, <1>10 DEF Claims

\* The event of a claimed turn is published once.
LEMMA ClaimsEvent ==
  ASSUME TypeOK, Claims, NEW p \in Publisher, PublishTaskCompleted(p), \A u : Registered(u) => Registered(u)'
  PROVE  Claims'
<1> DEFINE t == pub[p].turn
           s == IF pub[p].foreground THEN "unmark" ELSE "accept"
<1>1. pub[p].step = "event" /\ taskDeliverySeen' = taskDeliverySeen /\ Advance(p, s) /\
          completed' = Append(completed, t)
      /\ activeDelivery' = activeDelivery /\ accepted' = accepted
  BY DEF PublishTaskCompleted
<1>2. s \in PublishStep /\ s \in {"unmark", "accept"} /\ (s = "accept" => ~pub[p].foreground)
  BY PublishSteps
<1> HIDE DEF s
<1>3. /\ \A q \in Publisher : q # p => pub'[q] = pub[q]
      /\ pub'[p].step = s /\ pub'[p].turn = t /\ pub'[p].output = pub[p].output /\
           pub'[p].foreground = pub[p].foreground
  BY <1>1, <1>2, TypeParts, Advances
<1>4. Claimant(p) BY DEF Claims
<1>5. t \in Turn /\ pub[p].step # "idle"
  <2>1. pub[p].step # "idle" BY <1>1
  <2> QED BY <2>1, Publishes
<1>6. ~InCompleted(t) /\ t \in taskDeliverySeen /\ ~InAccepted(t) BY <1>1, <1>4 DEF Claimant
<1>7. completed \in Seq(Turn) BY TypeParts DEF OutsideTypes
<1>8. /\ \A u : InCompleted(u)' <=> InCompleted(u) \/ u = t
      /\ \A u : InAccepted(u)' <=> InAccepted(u)
      /\ Once'
  BY <1>1, <1>5, <1>6, <1>7, CompletedGrows DEF Claims
<1>9. \A q, r \in Publisher :
        q # r /\ pub'[q].step \in {"event", "accept"} /\ pub'[r].step \in {"event", "accept"} =>
             pub'[q].turn # pub'[r].turn
  <2>1. \A q \in Publisher : /\ pub'[q].step \in {"event", "accept"} => pub[q].step \in {"event", "accept"}
                             /\ pub'[q].turn = pub[q].turn
    BY <1>1, <1>3
  <2> QED BY <2>1 DEF Claims
<1>10. ASSUME NEW q \in Publisher PROVE Claimant(q)'
  <2>1. CASE q # p
    <3>1. Claimant(q) /\ pub'[q] = pub[q] BY <1>3, <2>1 DEF Claims
    <3>2. pub[q].step = "event" => pub[q].turn # t BY <1>1, <2>1 DEF Claims
    <3> QED BY <1>1, <1>8, <3>1, <3>2 DEF Claimant
  <2>2. CASE q = p BY <1>1, <1>2, <1>3, <1>4, <1>5, <1>6, <1>8, <2>2 DEF Claimant
  <2> QED BY <2>1, <2>2
<1>11. ASSUME NEW u \in taskDeliverySeen
       PROVE  InCompleted(u)' \/ \E q \in Publisher : pub'[q].step = "event" /\ pub'[q].turn = u
  <2>1. InCompleted(u) \/ \E q \in Publisher : pub[q].step = "event" /\ pub[q].turn = u BY DEF Claims
  <2>2. CASE InCompleted(u) BY <1>8, <2>2
  <2>3. ASSUME NEW q \in Publisher, pub[q].step = "event", pub[q].turn = u, q # p
            PROVE pub'[q].step = "event" /\ pub'[q].turn = u
    BY <1>3, <2>3
  <2>4. pub[p].turn = u => InCompleted(u)' BY <1>8
  <2> QED BY <2>1, <2>2, <2>3, <2>4
<1> HIDE DEF t
<1> QED BY <1>1, <1>6, <1>8, <1>9, <1>10, <1>11 DEF Claims

\* Only a promised result is handed over, and it is handed over once.
LEMMA ClaimsAccept ==
  ASSUME TypeOK, Claims, NEW p \in Publisher, AcceptTaskDelivery(p), \A u : Registered(u) => Registered(u)'
  PROVE  Claims'
<1> DEFINE t == pub[p].turn
           d == [turn |-> pub[p].turn, output |-> pub[p].output]
<1>1. pub[p].step = "accept" /\ taskDeliverySeen' = taskDeliverySeen /\ Advance(p, "clear") /\ completed' = completed
      /\ activeDelivery' = activeDelivery /\ (accepted' = Append(accepted, d) \/ accepted' = accepted)
  BY DEF AcceptTaskDelivery
<1>2. "clear" \in PublishStep BY PublishSteps
<1>3. /\ \A q \in Publisher : q # p => pub'[q] = pub[q]
      /\ pub'[p].step = "clear" /\ pub'[p].turn = t /\ pub'[p].output = pub[p].output /\
           pub'[p].foreground = pub[p].foreground
  BY <1>1, <1>2, TypeParts, Advances
<1>4. Claimant(p) BY DEF Claims
<1>5. t \in Turn /\ pub[p].output \in Turn /\ pub[p].step # "idle"
  <2>1. pub[p].step # "idle" BY <1>1
  <2> QED BY <2>1, Publishes
<1>6. t \in taskDeliverySeen /\ ~InAccepted(t) /\ ~pub[p].foreground /\ Registered(t)
  BY <1>1, <1>4 DEF Claimant
<1>7. accepted \in Seq(Delivery) BY TypeParts DEF OutsideTypes
<1>8. d \in Delivery /\ d.turn = t BY <1>5 DEF Delivery
<1> HIDE DEF d
<1>9. /\ \A u : InCompleted(u)' <=> InCompleted(u)
      /\ \A u : InAccepted(u)' => InAccepted(u) \/ u = t
      /\ Once'
  <2>1. CASE accepted' = Append(accepted, d) BY <1>1, <1>6, <1>7, <1>8, <2>1, AcceptedGrows DEF Claims
  <2>2. CASE accepted' = accepted BY <1>1, <2>2 DEF InCompleted, InAccepted, Once, Claims
  <2> QED BY <1>1, <2>1, <2>2
<1>10. \A q \in Publisher : /\ pub'[q].step \in {"event", "accept"} => q # p /\ pub'[q] = pub[q]
                            /\ pub[q].step = "event" => q # p
  BY <1>1, <1>3
<1>11. \A q, r \in Publisher :
        q # r /\ pub'[q].step \in {"event", "accept"} /\ pub'[r].step \in {"event", "accept"} =>
             pub'[q].turn # pub'[r].turn
  BY <1>10 DEF Claims
<1>12. ASSUME NEW q \in Publisher PROVE Claimant(q)'
  <2>1. CASE q # p
    <3>1. Claimant(q) /\ pub'[q] = pub[q] BY <1>3, <2>1 DEF Claims
    <3>2. pub[q].step \in {"event", "accept"} => pub[q].turn # t BY <1>1, <2>1 DEF Claims
    <3> QED BY <1>1, <1>9, <3>1, <3>2 DEF Claimant
  <2>2. CASE q = p BY <1>1, <1>3, <1>4, <1>5, <1>6, <2>2 DEF Claimant
  <2> QED BY <2>1, <2>2
<1>13. \A u \in taskDeliverySeen : InCompleted(u) \/ \E q \in Publisher : pub'[q].step = "event" /\ pub'[q].turn = u
  BY <1>3, <1>10 DEF Claims
<1>14. \A u \in Turn : InAccepted(u)' => u \in taskDeliverySeen /\ Registered(u)' BY <1>6, <1>9 DEF Claims
<1> HIDE DEF t
<1> QED BY <1>1, <1>9, <1>11, <1>12, <1>13, <1>14 DEF Claims

\* The delivery is cleared and the execution unmarked.
LEMMA ClaimsEnd ==
  ASSUME TypeOK, Claims, NEW p \in Publisher, ClearTaskDelivery(p) \/ UnmarkTaskExecution(p),
         \A u : Registered(u) => Registered(u)'
  PROVE  Claims'
<1>1. PICK s \in {"unmark", "idle"} : Advance(p, s) /\ (s = "unmark" => pub[p].step = "clear")
  BY Zenon DEF ClearTaskDelivery, UnmarkTaskExecution
<1>2. /\ pub[p].step \in {"clear", "unmark"} /\ taskDeliverySeen' = taskDeliverySeen /\
          completed' = completed /\ accepted' = accepted
      /\ activeDelivery' \in {activeDelivery, None}
  BY DEF ClearTaskDelivery, UnmarkTaskExecution
<1>3. s \in PublishStep BY PublishSteps
<1>4. /\ \A q \in Publisher : q # p => pub'[q] = pub[q]
      /\ pub'[p].step = s
      /\ s # "idle" => pub'[p].turn = pub[p].turn /\ pub'[p].output = pub[p].output /\
           pub'[p].foreground = pub[p].foreground
  BY <1>1, <1>3, TypeParts, Advances
<1>5. /\ \A u : InCompleted(u)' <=> InCompleted(u)
      /\ \A u : InAccepted(u)' <=> InAccepted(u)
      /\ Once' <=> Once
  BY <1>2 DEF InCompleted, InAccepted, Once
<1>6. ASSUME NEW q \in Publisher PROVE Claimant(q)'
  <2>1. CASE q # p
    <3>1. Claimant(q) /\ pub'[q] = pub[q] BY <1>4, <2>1 DEF Claims
    <3> QED BY <1>2, <1>5, <3>1 DEF Claimant
  <2>2. CASE q = p /\ s = "idle" BY <1>4, <2>2 DEF Claimant
  <2>3. CASE q = p /\ s = "unmark"
    <3>1. Claimant(p) /\ pub[p].step = "clear" BY <1>1, <2>3 DEF Claims
    <3>2. ~pub[p].foreground /\ Registered(pub[p].turn) /\ pub[p].turn # None /\ pub[p].output # None
      BY <3>1 DEF Claimant
    <3> QED BY <1>4, <2>3, <3>2 DEF Claimant
  <2> QED BY <2>1, <2>2, <2>3
<1>7. \A q \in Publisher : /\ pub'[q].step \in {"event", "accept"} => pub'[q] = pub[q]
                           /\ pub[q].step = "event" => pub'[q] = pub[q]
  BY <1>1, <1>2, <1>4
<1>8. \A q, r \in Publisher :
        q # r /\ pub'[q].step \in {"event", "accept"} /\ pub'[r].step \in {"event", "accept"} =>
             pub'[q].turn # pub'[r].turn
  BY <1>7 DEF Claims
<1>9. \A u \in taskDeliverySeen : InCompleted(u) \/ \E q \in Publisher : pub'[q].step = "event" /\ pub'[q].turn = u
  BY <1>7 DEF Claims
<1>10. activeDelivery' # None => Registered(activeDelivery') BY <1>2 DEF Claims
<1>11. activeDelivery' # None => Registered(activeDelivery)' BY <1>10, <1>2 DEF Claims
<1> QED BY <1>2, <1>5, <1>6, <1>8, <1>9, <1>11 DEF Claims

\* The results are left alone; the active delivery may be dropped.
ClaimsAlone ==
  /\ UNCHANGED <<pub, taskDeliverySeen, completed, accepted>>
  /\ activeDelivery' = activeDelivery \/ activeDelivery' = None

\* Every claim of a result.
LEMMA ClaimsNext ==
  ASSUME TypeOK, Locked, Recorded, Called, Claims, [Next]_vars
  PROVE  Claims'
<1>0. \A u : Registered(u) => Registered(u)' BY Promises
<1>1. ASSUME CreateTask PROVE Claims'
  <2>1. ClaimsAlone BY <1>1 DEF ClaimsAlone, CreateTask, Goto, Return
  <2> QED BY <1>0, <2>1, ClaimsKept DEF ClaimsAlone
<1>2. ASSUME StartCreated PROVE Claims'
  <2>1. ClaimsAlone
    BY <1>2
    DEF ClaimsAlone, StartCreated, MayStart, StartTurnLocked, SignalChanged, Goto, Return
  <2> QED BY <1>0, <2>1, ClaimsKept DEF ClaimsAlone
<1>3. ASSUME ReadStarted PROVE Claims'
  <2>1. ClaimsAlone BY <1>3 DEF ClaimsAlone, ReadStarted, Goto
  <2> QED BY <1>0, <2>1, ClaimsKept DEF ClaimsAlone
<1>4. ASSUME AdoptRun PROVE Claims'
  <2>1. ClaimsAlone
    BY <1>4 DEF ClaimsAlone, AdoptRun, AfterStart, Goto, Return
  <2> QED BY <1>0, <2>1, ClaimsKept DEF ClaimsAlone
<1>5. ASSUME NEW c \in Call, ResumeBegin(c) PROVE Claims'
  <2>1. ClaimsAlone
    BY <1>5 DEF ClaimsAlone, ResumeBegin, Resumable, Goto, Return
  <2> QED BY <1>0, <2>1, ClaimsKept DEF ClaimsAlone
<1>6. ASSUME NEW c \in Call, ResumeTask(c) PROVE Claims'
  <2>1. ClaimsAlone
    BY <1>6 DEF ClaimsAlone, ResumeTask, Resumable, EnsureAgentLocked, Goto, Return
  <2> QED BY <1>0, <2>1, ClaimsKept DEF ClaimsAlone
<1>7. ASSUME NEW c \in Call, CancelCall(c) PROVE Claims'
  <2>1. ClaimsAlone BY <1>7 DEF ClaimsAlone, CancelCall, Goto
  <2> QED BY <1>0, <2>1, ClaimsKept DEF ClaimsAlone
<1>8. ASSUME NEW c \in Call, PromoteTask(c) PROVE Claims'
  <2>1. ClaimsAlone BY <1>8 DEF ClaimsAlone, PromoteTask, Goto
  <2> QED BY <1>0, <2>1, ClaimsKept DEF ClaimsAlone
<1>9. ASSUME NEW c \in Call, WaitRunDone(c) PROVE Claims'
  <2>1. ClaimsAlone BY <1>9 DEF ClaimsAlone, WaitRunDone, Goto
  <2> QED BY <1>0, <2>1, ClaimsKept DEF ClaimsAlone
<1>10. ASSUME NEW c \in Call, WaitLifecycle(c) PROVE Claims'
  <2>1. ClaimsAlone BY <1>10 DEF ClaimsAlone, WaitLifecycle, Goto
  <2> QED BY <1>0, <2>1, ClaimsKept DEF ClaimsAlone
<1>11. ASSUME NEW c \in Call, WaitPublication(c) PROVE Claims'
  <2>1. ClaimsAlone
    BY <1>11 DEF ClaimsAlone, WaitPublication, LoadFence, Publishing, Goto
  <2> QED BY <1>0, <2>1, ClaimsKept DEF ClaimsAlone
<1>12. ASSUME NEW c \in Call, RegisterBegin(c) PROVE Claims'
  <2>1. ClaimsAlone BY <1>12 DEF ClaimsAlone, RegisterBegin, Goto, Return
  <2> QED BY <1>0, <2>1, ClaimsKept DEF ClaimsAlone
<1>13. ASSUME NEW c \in Call, RegisterScope(c) PROVE Claims'
  <2>1. ClaimsAlone BY <1>13 DEF ClaimsAlone, RegisterScope, Goto
  <2> QED BY <1>0, <2>1, ClaimsKept DEF ClaimsAlone
<1>14. ASSUME NEW c \in Call, RegisterStore(c) PROVE Claims'
  <2>1. UNCHANGED <<taskDeliverySeen, completed, accepted, turnOf, status, lastTurn>> /\ pc[c] = "registerStore"
    BY <1>14 DEF RegisterStore
  <2>2. pc \in [Call -> CallStep] /\ result \in [Call -> {"none", "running", "final", "error"}]
    BY TypeParts DEF CallTypes
  <2>3. CASE UNCHANGED <<activeDelivery, pub>> BY <1>0, <2>1, <2>3, ClaimsKept
  <2>4. CASE Return(c, "running") /\ UNCHANGED pub /\ activeDelivery' = turnOf[c]
    <3>1. Registered(activeDelivery)' BY <2>1, <2>2, <2>4 DEF Registered, Return
    <3> QED BY <1>0, <2>1, <2>4, <3>1, ClaimsKept
  <2> DEFINE x == Publication("claim", turnOf[c], lastTurn, FALSE)
  <2>5. CASE Goto(c, "publishing") /\ activeDelivery' = turnOf[c] /\ pub' = [pub EXCEPT !["registration"] = x]
             /\ status \notin {"running", "closed"}
    <3>1. Registered(turnOf[c])' BY <2>1, <2>2, <2>5 DEF Registered, Goto
    <3>2. lastTurn \in TurnOrNone /\ turnOf[c] \in TurnOrNone BY TypeParts DEF RecordTypes, CallTypes
    <3>3. turnOf[c] # None BY <2>1 DEF Called, CallInv, Registers
    <3>4. lastTurn # None
      <4>1. status \in {"none", "running", "idle", "closed"} BY TypeParts DEF RecordTypes
      <4>2. status # "none" BY <2>1 DEF Recorded
      <4> QED BY <2>5, <4>1, <4>2 DEF Recorded
    <3>5. PICK f \in BOOLEAN : f = FALSE OBVIOUS
    <3>6. x = Publication("claim", turnOf[c], lastTurn, f) BY <3>5
    <3>7. x \in Publications /\ x.step = "claim" /\ x.turn = turnOf[c] /\ x.output = lastTurn /\ ~x.foreground
      <4> DEFINE y == Publication("claim", turnOf[c], lastTurn, f)
      <4>1. y \in Publications /\ y.step = "claim" /\ y.turn = turnOf[c] /\ y.output = lastTurn /\ y.foreground = f
        BY <3>2, Begins
      <4>2. x = y BY <3>6
      <4> HIDE DEF x, y
      <4> QED BY <3>5, <4>1, <4>2
    <3> HIDE DEF x
    <3>8. pub["registration"].step = "idle" BY <2>1 DEF Locked
    <3>9. "registration" \in Publisher BY DEF Publisher
    <3>10. PICK y \in Publications : y = x BY <3>7
    <3>11. \E d \in Call : turnOf'[d] = turnOf[c] /\ (pc'[d] = "publishing" \/ result'[d] = "running")
      BY <2>1, <2>2, <2>5 DEF Goto
    <3>12. Registered(y.turn)' /\ Registered(activeDelivery)' BY <2>5, <3>7, <3>10, <3>11 DEF Registered
    <3>13. y.step = "claim" /\ y.turn # None /\ y.output # None /\ ~y.foreground /\
              pub' = [pub EXCEPT !["registration"] = y]
      BY <2>5, <3>3, <3>4, <3>7, <3>10
    <3> QED BY <1>0, <2>1, <3>8, <3>9, <3>12, <3>13, TypeParts, ClaimsBegin
  <2> QED BY <1>14, <2>3, <2>4, <2>5 DEF RegisterStore
<1>15. ASSUME NEW c \in Call, RegisterDone(c) PROVE Claims'
  <2>1. ClaimsAlone BY <1>15 DEF ClaimsAlone, RegisterDone, Goto, Return
  <2> QED BY <1>0, <2>1, ClaimsKept DEF ClaimsAlone
<1>16. ASSUME NEW p \in Publisher, ClaimTaskCompletion(p) PROVE Claims'
  BY <1>0, <1>16, ClaimsClaim
<1>17. ASSUME NEW p \in Publisher, PublishTaskCompleted(p) PROVE Claims'
  BY <1>0, <1>17, ClaimsEvent
<1>18. ASSUME NEW p \in Publisher, AcceptTaskDelivery(p) PROVE Claims'
  BY <1>0, <1>18, ClaimsAccept
<1>19. ASSUME NEW p \in Publisher, ClearTaskDelivery(p) PROVE Claims'
  BY <1>0, <1>19, ClaimsEnd
<1>20. ASSUME NEW p \in Publisher, UnmarkTaskExecution(p) PROVE Claims'
  BY <1>0, <1>20, ClaimsEnd
<1>21. ASSUME NEW t \in Turn, StartTurn(t) PROVE Claims'
  <2>1. ClaimsAlone
    BY <1>21
    DEF ClaimsAlone, StartTurn, MayStart, StartTurnLocked, SignalChanged, AfterStart, TurnOver,
        Goto, Return
  <2> QED BY <1>0, <2>1, ClaimsKept DEF ClaimsAlone
<1>22. ASSUME NEW t \in Turn, RunEnds(t) PROVE Claims'
  <2>1. ClaimsAlone BY <1>22 DEF ClaimsAlone, RunEnds
  <2> QED BY <1>0, <2>1, ClaimsKept DEF ClaimsAlone
<1>23. ASSUME NEW t \in Turn, MonitorEvent(t) PROVE Claims'
  <2>1. ClaimsAlone
    BY <1>23 DEF ClaimsAlone, MonitorEvent, SignalChanged
  <2> QED BY <1>0, <2>1, ClaimsKept DEF ClaimsAlone
<1>24. ASSUME NEW t \in Turn, MonitorFold(t) PROVE Claims'
  <2>1. UNCHANGED <<activeDelivery, taskDeliverySeen, completed, accepted>> BY <1>24
     DEF MonitorFold
  <2>2. CASE UNCHANGED pub BY <1>0, <2>1, <2>2, ClaimsKept
  <2>3. CASE pub' = [pub EXCEPT !["monitor"] = TerminalPublication(t)]
    <3>1. PICK x \in Publications :
            /\ x = TerminalPublication(t) /\ x.step \in {"idle", "claim"}
            /\ x.step # "idle" => /\ x.output = t /\ x.turn # None
                                  /\ x.foreground => x.turn = t
                                  /\ ~x.foreground => x.turn = activeDelivery
      BY Terminal, TypeParts DEF RecordTypes
    <3>2. x.step # "idle" /\ ~x.foreground => Registered(x.turn)'
      <4>1. SUFFICES ASSUME x.step # "idle", ~x.foreground PROVE Registered(x.turn)' OBVIOUS
      <4>2. x.turn = activeDelivery /\ activeDelivery # None BY <3>1, <4>1, Zenon
      <4>3. Registered(activeDelivery) BY <4>2 DEF Claims
      <4>4. Registered(x.turn) BY <4>2, <4>3 DEF Registered
      <4> QED BY <1>0, <4>4
    <3>3. pub["monitor"].step = "idle"
      <4>1. instanceMu = None BY <1>24 DEF MonitorFold
      <4> QED BY <4>1, Turns DEF Locked, Holds
    <3>4. "monitor" \in Publisher BY DEF Publisher
    <3>5. x.step # "idle" => /\ x.turn # None /\ x.output # None
                             /\ ~x.foreground => Registered(x.turn)'
                             /\ x.foreground => "monitor" = "monitor"
      BY <3>1, <3>2, Turns
    <3>7. PICK p \in Publisher : p = "monitor" BY <3>4
    <3>8. /\ pub[p].step = "idle" /\ pub' = [pub EXCEPT ![p] = x]
          /\ x.step # "idle" => /\ x.turn # None /\ x.output # None
                                /\ ~x.foreground => Registered(x.turn)'
                                /\ x.foreground => p = "monitor"
      BY <2>3, <3>1, <3>3, <3>5, <3>7
    <3> QED BY <1>0, <2>1, <3>1, <3>8, TypeParts, ClaimsBegin
  <2> QED BY <1>24, <2>2, <2>3 DEF MonitorFold
<1>25. ASSUME NEW t \in Turn, MonitorDequeue(t) PROVE Claims'
  <2>1. ClaimsAlone BY <1>25 DEF ClaimsAlone, MonitorDequeue, HasNext
  <2> QED BY <1>0, <2>1, ClaimsKept DEF ClaimsAlone
<1>26. ASSUME NEW t \in Turn, MonitorNext(t) PROVE Claims'
  <2>1. ClaimsAlone BY <1>26 DEF ClaimsAlone, MonitorNext
  <2> QED BY <1>0, <2>1, ClaimsKept DEF ClaimsAlone
<1>27. ASSUME NEW m \in Message, Send(m) PROVE Claims'
  <2>1. ClaimsAlone BY <1>27 DEF ClaimsAlone, Send, Enqueue, SignalChanged, EnsureAgentLocked
  <2> QED BY <1>0, <2>1, ClaimsKept DEF ClaimsAlone
<1>28. ASSUME CloseRecord PROVE Claims'
  <2>1. ClaimsAlone BY <1>28 DEF ClaimsAlone, CloseRecord
  <2> QED BY <1>0, <2>1, ClaimsKept DEF ClaimsAlone
<1>29. ASSUME CloseFinish PROVE Claims'
  <2>1. ClaimsAlone BY <1>29 DEF ClaimsAlone, CloseFinish, SignalChanged
  <2> QED BY <1>0, <2>1, ClaimsKept DEF ClaimsAlone
<1>30. ASSUME ShutdownBegin PROVE Claims'
  <2>1. ClaimsAlone
    BY <1>30 DEF ClaimsAlone, ShutdownBegin, Shutdown
  <2> QED BY <1>0, <2>1, ClaimsKept DEF ClaimsAlone
<1>31. ASSUME RetainForShutdown PROVE Claims'
  <2>1. ClaimsAlone
    BY <1>31
    DEF ClaimsAlone, RetainForShutdown, Shutdown, RetainRecord, TurnOver
  <2> QED BY <1>0, <2>1, ClaimsKept DEF ClaimsAlone
<1>32. ASSUME ReleaseAgent PROVE Claims'
  <2>1. ClaimsAlone BY <1>32 DEF ClaimsAlone, ReleaseAgent, Shutdown
  <2> QED BY <1>0, <2>1, ClaimsKept DEF ClaimsAlone
<1>33. ASSUME ShutdownSignal PROVE Claims'
  <2>1. ClaimsAlone
    BY <1>33
    DEF ClaimsAlone, ShutdownSignal, Shutdown, SignalChanged
  <2> QED BY <1>0, <2>1, ClaimsKept DEF ClaimsAlone
<1>34. ASSUME ShutdownCancel PROVE Claims'
  <2>1. ClaimsAlone
    BY <1>34 DEF ClaimsAlone, ShutdownCancel, Shutdown
  <2> QED BY <1>0, <2>1, ClaimsKept DEF ClaimsAlone
<1>35. ASSUME ShutdownWait PROVE Claims'
  <2>1. ClaimsAlone
    BY <1>35 DEF ClaimsAlone, ShutdownWait, Shutdown
  <2> QED BY <1>0, <2>1, ClaimsKept DEF ClaimsAlone
<1>36. CASE UNCHANGED vars
  <2>1. ClaimsAlone BY <1>36 DEF ClaimsAlone, vars
  <2> QED BY <1>0, <2>1, ClaimsKept DEF ClaimsAlone
<1> QED
  BY <1>1, <1>2, <1>3, <1>4, <1>5, <1>6, <1>7, <1>8, <1>9, <1>10, <1>11, <1>12, <1>13, <1>14, <1>15, <1>16,
     <1>17, <1>18, <1>19, <1>20, <1>21, <1>22, <1>23, <1>24, <1>25, <1>26, <1>27, <1>28, <1>29, <1>30, <1>31,
     <1>32, <1>33, <1>34, <1>35, <1>36, Zenon
  DEF Next, StartStep, CallProgress, MonitorProgress, Publish, CloseAgent

\* A published completion stays published.
LEMMA CompletedKept ==
  ASSUME TypeOK, Claims, NEW u, InCompleted(u), [Next]_vars
  PROVE  InCompleted(u)'
<1>1. ASSUME CreateTask PROVE InCompleted(u)'
  BY <1>1 DEF CreateTask, Goto, Return, InCompleted
<1>2. ASSUME StartCreated PROVE InCompleted(u)'
  BY <1>2
  DEF StartCreated, MayStart, StartTurnLocked, SignalChanged, Goto, Return, InCompleted
<1>3. ASSUME ReadStarted PROVE InCompleted(u)'
  BY <1>3 DEF ReadStarted, Goto, InCompleted
<1>4. ASSUME AdoptRun PROVE InCompleted(u)'
  BY <1>4 DEF AdoptRun, AfterStart, Goto, Return, InCompleted
<1>5. ASSUME NEW c \in Call, ResumeBegin(c) PROVE InCompleted(u)'
  BY <1>5 DEF ResumeBegin, Resumable, Goto, Return, InCompleted
<1>6. ASSUME NEW c \in Call, ResumeTask(c) PROVE InCompleted(u)'
  BY <1>6 DEF ResumeTask, Resumable, EnsureAgentLocked, Goto, Return, InCompleted
<1>7. ASSUME NEW c \in Call, CancelCall(c) PROVE InCompleted(u)'
  BY <1>7 DEF CancelCall, Goto, InCompleted
<1>8. ASSUME NEW c \in Call, PromoteTask(c) PROVE InCompleted(u)'
  BY <1>8 DEF PromoteTask, Goto, InCompleted
<1>9. ASSUME NEW c \in Call, WaitRunDone(c) PROVE InCompleted(u)'
  BY <1>9 DEF WaitRunDone, Goto, InCompleted
<1>10. ASSUME NEW c \in Call, WaitLifecycle(c) PROVE InCompleted(u)'
  BY <1>10 DEF WaitLifecycle, Goto, InCompleted
<1>11. ASSUME NEW c \in Call, WaitPublication(c) PROVE InCompleted(u)'
  BY <1>11 DEF WaitPublication, LoadFence, Publishing, Goto, InCompleted
<1>12. ASSUME NEW c \in Call, RegisterBegin(c) PROVE InCompleted(u)'
  BY <1>12 DEF RegisterBegin, Goto, Return, InCompleted
<1>13. ASSUME NEW c \in Call, RegisterScope(c) PROVE InCompleted(u)'
  BY <1>13 DEF RegisterScope, Goto, InCompleted
<1>14. ASSUME NEW c \in Call, RegisterStore(c) PROVE InCompleted(u)'
  BY <1>14 DEF RegisterStore, Publication, Goto, Return, InCompleted
<1>15. ASSUME NEW c \in Call, RegisterDone(c) PROVE InCompleted(u)'
  BY <1>15 DEF RegisterDone, Goto, Return, InCompleted
<1>16. ASSUME NEW p \in Publisher, ClaimTaskCompletion(p) PROVE InCompleted(u)'
  BY <1>16
  DEF ClaimTaskCompletion, Advance, FirstClaim, Publication, NoPublication, InCompleted
<1>17. ASSUME NEW p \in Publisher, PublishTaskCompleted(p) PROVE InCompleted(u)'
  <2>1. pub[p].turn \in Turn
    <3>1. pub[p].step # "idle" BY <1>17 DEF PublishTaskCompleted
    <3> QED BY <3>1, Publishes
  <2>2. completed \in Seq(Turn) /\ completed' = Append(completed, pub[p].turn)
    BY <1>17, TypeParts DEF PublishTaskCompleted, OutsideTypes
  <2>3. /\ DOMAIN completed' = 1..(Len(completed) + 1) /\ DOMAIN completed = 1..Len(completed) /\
            Len(completed) \in Nat
        /\ \A i \in 1..Len(completed) : completed'[i] = completed[i]
    BY <2>1, <2>2, Appended
  <2> QED BY <2>3 DEF InCompleted
<1>18. ASSUME NEW p \in Publisher, AcceptTaskDelivery(p) PROVE InCompleted(u)'
  BY <1>18 DEF AcceptTaskDelivery, Advance, Publication, NoPublication, InCompleted
<1>19. ASSUME NEW p \in Publisher, ClearTaskDelivery(p) PROVE InCompleted(u)'
  BY <1>19 DEF ClearTaskDelivery, Advance, Publication, NoPublication, InCompleted
<1>20. ASSUME NEW p \in Publisher, UnmarkTaskExecution(p) PROVE InCompleted(u)'
  BY <1>20
  DEF UnmarkTaskExecution, Advance, Publication, NoPublication, SignalChanged, InCompleted
<1>21. ASSUME NEW t \in Turn, StartTurn(t) PROVE InCompleted(u)'
  BY <1>21
  DEF StartTurn, MayStart, StartTurnLocked, SignalChanged, AfterStart, TurnOver, Goto, Return,
      InCompleted
<1>22. ASSUME NEW t \in Turn, RunEnds(t) PROVE InCompleted(u)'
  BY <1>22 DEF RunEnds, InCompleted
<1>23. ASSUME NEW t \in Turn, MonitorEvent(t) PROVE InCompleted(u)'
  BY <1>23 DEF MonitorEvent, SignalChanged, InCompleted
<1>24. ASSUME NEW t \in Turn, MonitorFold(t) PROVE InCompleted(u)'
  BY <1>24
  DEF MonitorFold, TurnOver, SignalChanged, TerminalPublication, Publication, NoPublication,
      InCompleted
<1>25. ASSUME NEW t \in Turn, MonitorDequeue(t) PROVE InCompleted(u)'
  BY <1>25 DEF MonitorDequeue, HasNext, InCompleted
<1>26. ASSUME NEW t \in Turn, MonitorNext(t) PROVE InCompleted(u)'
  BY <1>26 DEF MonitorNext, InCompleted
<1>27. ASSUME NEW m \in Message, Send(m) PROVE InCompleted(u)'
  BY <1>27 DEF Send, Enqueue, SignalChanged, EnsureAgentLocked, InCompleted
<1>28. ASSUME CloseRecord PROVE InCompleted(u)'
  BY <1>28 DEF CloseRecord, InCompleted
<1>29. ASSUME CloseFinish PROVE InCompleted(u)'
  BY <1>29 DEF CloseFinish, SignalChanged, InCompleted
<1>30. ASSUME ShutdownBegin PROVE InCompleted(u)'
  BY <1>30 DEF ShutdownBegin, Shutdown, InCompleted
<1>31. ASSUME RetainForShutdown PROVE InCompleted(u)'
  BY <1>31
  DEF RetainForShutdown, Shutdown, RetainRecord, TurnOver, InCompleted
<1>32. ASSUME ReleaseAgent PROVE InCompleted(u)'
  BY <1>32 DEF ReleaseAgent, Shutdown, InCompleted
<1>33. ASSUME ShutdownSignal PROVE InCompleted(u)'
  BY <1>33 DEF ShutdownSignal, Shutdown, SignalChanged, InCompleted
<1>34. ASSUME ShutdownCancel PROVE InCompleted(u)'
  BY <1>34 DEF ShutdownCancel, Shutdown, InCompleted
<1>35. ASSUME ShutdownWait PROVE InCompleted(u)'
  BY <1>35 DEF ShutdownWait, Shutdown, InCompleted
<1>36. CASE UNCHANGED vars
  BY <1>36 DEF vars, InCompleted
<1> QED
  BY <1>1, <1>2, <1>3, <1>4, <1>5, <1>6, <1>7, <1>8, <1>9, <1>10, <1>11, <1>12, <1>13, <1>14, <1>15, <1>16,
     <1>17, <1>18, <1>19, <1>20, <1>21, <1>22, <1>23, <1>24, <1>25, <1>26, <1>27, <1>28, <1>29, <1>30, <1>31,
     <1>32, <1>33, <1>34, <1>35, <1>36, Zenon
  DEF Next, StartStep, CallProgress, MonitorProgress, Publish, CloseAgent

\* An execution is unmarked when its event is published, when its delivery is
\* promised, or when the turn did not start.
ExecutionsHeld ==
  \A d \in Call : d \in taskExecutions =>
    \/ d \in taskExecutions' \/ InCompleted(d) \/ Registered(d)
    \/ pc'[d] = "returned" /\ result'[d] # "final"

\* Every step holds on to the executions.
LEMMA ExecutionsKept ==
  ASSUME TypeOK, Locked, Called, Claims, [Next]_vars
  PROVE  ExecutionsHeld
<1>1. ASSUME CreateTask PROVE ExecutionsHeld
  BY <1>1, TypeParts, Turns
  DEF CreateTask, Goto, Return, ExecutionsHeld, Called, CallInv, CallTypes, Claims, Claimant
<1>2. ASSUME StartCreated PROVE ExecutionsHeld
  BY <1>2, TypeParts, Turns
  DEF StartCreated, MayStart, StartTurnLocked, SignalChanged, Goto, Return, ExecutionsHeld, Called,
      CallInv, CallTypes, Claims, Claimant
<1>3. ASSUME ReadStarted PROVE ExecutionsHeld
  BY <1>3, TypeParts, Turns
  DEF ReadStarted, Goto, ExecutionsHeld, Called, CallInv, CallTypes, Claims, Claimant
<1>4. ASSUME AdoptRun PROVE ExecutionsHeld
  BY <1>4, TypeParts, Turns
  DEF AdoptRun, AfterStart, Goto, Return, ExecutionsHeld, Called, CallInv, CallTypes, Claims,
      Claimant
<1>5. ASSUME NEW c \in Call, ResumeBegin(c) PROVE ExecutionsHeld
  BY <1>5, TypeParts, Turns
  DEF ResumeBegin, Resumable, Goto, Return, ExecutionsHeld, Called, CallInv, CallTypes, Claims,
      Claimant
<1>6. ASSUME NEW c \in Call, ResumeTask(c) PROVE ExecutionsHeld
  BY <1>6, TypeParts, Turns
  DEF ResumeTask, Resumable, EnsureAgentLocked, Goto, Return, ExecutionsHeld, Called, CallInv,
      CallTypes, Claims, Claimant
<1>7. ASSUME NEW c \in Call, CancelCall(c) PROVE ExecutionsHeld
  BY <1>7, TypeParts, Turns
  DEF CancelCall, Goto, ExecutionsHeld, Called, CallInv, CallTypes, Claims, Claimant
<1>8. ASSUME NEW c \in Call, PromoteTask(c) PROVE ExecutionsHeld
  BY <1>8, TypeParts, Turns
  DEF PromoteTask, Goto, ExecutionsHeld, Called, CallInv, CallTypes, Claims, Claimant
<1>9. ASSUME NEW c \in Call, WaitRunDone(c) PROVE ExecutionsHeld
  BY <1>9, TypeParts, Turns
  DEF WaitRunDone, Goto, ExecutionsHeld, Called, CallInv, CallTypes, Claims, Claimant
<1>10. ASSUME NEW c \in Call, WaitLifecycle(c) PROVE ExecutionsHeld
  BY <1>10, TypeParts, Turns
  DEF WaitLifecycle, Goto, ExecutionsHeld, Called, CallInv, CallTypes, Claims, Claimant
<1>11. ASSUME NEW c \in Call, WaitPublication(c) PROVE ExecutionsHeld
  BY <1>11, TypeParts, Turns
  DEF WaitPublication, LoadFence, Publishing, Goto, ExecutionsHeld, Called, CallInv, CallTypes,
      Claims, Claimant
<1>12. ASSUME NEW c \in Call, RegisterBegin(c) PROVE ExecutionsHeld
  BY <1>12, TypeParts, Turns
  DEF RegisterBegin, Goto, Return, ExecutionsHeld, Called, CallInv, CallTypes, Claims, Claimant
<1>13. ASSUME NEW c \in Call, RegisterScope(c) PROVE ExecutionsHeld
  BY <1>13, TypeParts, Turns
  DEF RegisterScope, Goto, ExecutionsHeld, Called, CallInv, CallTypes, Claims, Claimant
<1>14. ASSUME NEW c \in Call, RegisterStore(c) PROVE ExecutionsHeld
  BY <1>14, TypeParts, Turns
  DEF RegisterStore, Publication, Goto, Return, ExecutionsHeld, Called, CallInv, CallTypes, Claims,
      Claimant
<1>15. ASSUME NEW c \in Call, RegisterDone(c) PROVE ExecutionsHeld
  BY <1>15, TypeParts, Turns
  DEF RegisterDone, Goto, Return, ExecutionsHeld, Called, CallInv, CallTypes, Claims, Claimant
<1>16. ASSUME NEW p \in Publisher, ClaimTaskCompletion(p) PROVE ExecutionsHeld
  BY <1>16, TypeParts, Turns
  DEF ClaimTaskCompletion, Advance, FirstClaim, Publication, NoPublication, ExecutionsHeld, Called,
      CallInv, CallTypes, Claims, Claimant
<1>17. ASSUME NEW p \in Publisher, PublishTaskCompleted(p) PROVE ExecutionsHeld
  BY <1>17, TypeParts, Turns
  DEF PublishTaskCompleted, Advance, Publication, NoPublication, ExecutionsHeld, Called, CallInv,
      CallTypes, Claims, Claimant
<1>18. ASSUME NEW p \in Publisher, AcceptTaskDelivery(p) PROVE ExecutionsHeld
  BY <1>18, TypeParts, Turns
  DEF AcceptTaskDelivery, Advance, Publication, NoPublication, ExecutionsHeld, Called, CallInv,
      CallTypes, Claims, Claimant
<1>19. ASSUME NEW p \in Publisher, ClearTaskDelivery(p) PROVE ExecutionsHeld
  BY <1>19, TypeParts, Turns
  DEF ClearTaskDelivery, Advance, Publication, NoPublication, ExecutionsHeld, Called, CallInv,
      CallTypes, Claims, Claimant
<1>20. ASSUME NEW p \in Publisher, UnmarkTaskExecution(p) PROVE ExecutionsHeld
  BY <1>20, TypeParts, Turns
  DEF UnmarkTaskExecution, Advance, Publication, NoPublication, SignalChanged, ExecutionsHeld,
      Called, CallInv, CallTypes, Claims, Claimant
<1>21. ASSUME NEW t \in Turn, StartTurn(t) PROVE ExecutionsHeld
  BY <1>21, TypeParts, Turns
  DEF StartTurn, MayStart, StartTurnLocked, SignalChanged, AfterStart, TurnOver, Goto, Return,
      ExecutionsHeld, Called, CallInv, CallTypes, Claims, Claimant
<1>22. ASSUME NEW t \in Turn, RunEnds(t) PROVE ExecutionsHeld
  BY <1>22, TypeParts, Turns
  DEF RunEnds, ExecutionsHeld, Called, CallInv, CallTypes, Claims, Claimant
<1>23. ASSUME NEW t \in Turn, MonitorEvent(t) PROVE ExecutionsHeld
  BY <1>23, TypeParts, Turns
  DEF MonitorEvent, SignalChanged, ExecutionsHeld, Called, CallInv, CallTypes, Claims, Claimant
<1>24. ASSUME NEW t \in Turn, MonitorFold(t) PROVE ExecutionsHeld
  BY <1>24, TypeParts, Turns
  DEF MonitorFold, TurnOver, SignalChanged, TerminalPublication, Publication, NoPublication,
      ExecutionsHeld, Called, CallInv, CallTypes, Claims, Claimant
<1>25. ASSUME NEW t \in Turn, MonitorDequeue(t) PROVE ExecutionsHeld
  BY <1>25, TypeParts, Turns
  DEF MonitorDequeue, HasNext, ExecutionsHeld, Called, CallInv, CallTypes, Claims, Claimant
<1>26. ASSUME NEW t \in Turn, MonitorNext(t) PROVE ExecutionsHeld
  BY <1>26, TypeParts, Turns
  DEF MonitorNext, ExecutionsHeld, Called, CallInv, CallTypes, Claims, Claimant
<1>27. ASSUME NEW m \in Message, Send(m) PROVE ExecutionsHeld
  BY <1>27, TypeParts, Turns
  DEF Send, Enqueue, SignalChanged, EnsureAgentLocked, ExecutionsHeld, Called, CallInv, CallTypes,
      Claims, Claimant
<1>28. ASSUME CloseRecord PROVE ExecutionsHeld
  BY <1>28, TypeParts, Turns
  DEF CloseRecord, ExecutionsHeld, Called, CallInv, CallTypes, Claims, Claimant
<1>29. ASSUME CloseFinish PROVE ExecutionsHeld
  BY <1>29, TypeParts, Turns
  DEF CloseFinish, SignalChanged, ExecutionsHeld, Called, CallInv, CallTypes, Claims, Claimant
<1>30. ASSUME ShutdownBegin PROVE ExecutionsHeld
  BY <1>30, TypeParts, Turns
  DEF ShutdownBegin, Shutdown, ExecutionsHeld, Called, CallInv, CallTypes, Claims, Claimant
<1>31. ASSUME RetainForShutdown PROVE ExecutionsHeld
  BY <1>31, TypeParts, Turns
  DEF RetainForShutdown, Shutdown, RetainRecord, TurnOver, ExecutionsHeld, Called, CallInv,
      CallTypes, Claims, Claimant
<1>32. ASSUME ReleaseAgent PROVE ExecutionsHeld
  BY <1>32, TypeParts, Turns
  DEF ReleaseAgent, Shutdown, ExecutionsHeld, Called, CallInv, CallTypes, Claims, Claimant
<1>33. ASSUME ShutdownSignal PROVE ExecutionsHeld
  BY <1>33, TypeParts, Turns
  DEF ShutdownSignal, Shutdown, SignalChanged, ExecutionsHeld, Called, CallInv, CallTypes, Claims,
      Claimant
<1>34. ASSUME ShutdownCancel PROVE ExecutionsHeld
  BY <1>34, TypeParts, Turns
  DEF ShutdownCancel, Shutdown, ExecutionsHeld, Called, CallInv, CallTypes, Claims, Claimant
<1>35. ASSUME ShutdownWait PROVE ExecutionsHeld
  BY <1>35, TypeParts, Turns
  DEF ShutdownWait, Shutdown, ExecutionsHeld, Called, CallInv, CallTypes, Claims, Claimant
<1>36. CASE UNCHANGED vars
  BY <1>36, TypeParts, Turns
  DEF vars, ExecutionsHeld, Called, CallInv, CallTypes, Claims, Claimant
<1> QED
  BY <1>1, <1>2, <1>3, <1>4, <1>5, <1>6, <1>7, <1>8, <1>9, <1>10, <1>11, <1>12, <1>13, <1>14, <1>15, <1>16,
     <1>17, <1>18, <1>19, <1>20, <1>21, <1>22, <1>23, <1>24, <1>25, <1>26, <1>27, <1>28, <1>29, <1>30, <1>31,
     <1>32, <1>33, <1>34, <1>35, <1>36, Zenon
  DEF Next, StartStep, CallProgress, MonitorProgress, Publish, CloseAgent

\* A turn whose event is due, published or promised stays so, until its call
\* returns without a final result.
LEMMA MarkedKept ==
  ASSUME TypeOK, Locked, Called, Claims, [Next]_vars, NEW c \in Call, Marked(c)
  PROVE  Marked(c)' \/ (pc'[c] = "returned" /\ result'[c] # "final")
<1>1. InCompleted(c) => InCompleted(c)' BY CompletedKept
<1>2. Registered(c) => Registered(c)' BY Promises
<1> QED BY <1>1, <1>2, ExecutionsKept DEF Marked, ExecutionsHeld

CallsMoved ==
  \A d \in Call :
    /\ pc'[d] \in {"created", "adopt", "lookup", "resuming"} =>
         pc[d] \in {"created", "adopt", "lookup", "resuming"} \/ d \in taskExecutions'
    /\ pc'[d] \in Waits /\ turnOf'[d] = d =>
         (pc[d] \in Waits /\ turnOf[d] = d) \/ pc[d] \in {"lookup", "resuming"}
    /\ ~Closed' /\ pc'[d] = "returned" /\ result'[d] = "final" /\ turnOf'[d] = d =>
         /\ ~Closed /\ turnOf[d] = d
         /\ (pc[d] = "returned" /\ result[d] = "final") \/ (pc[d] = "fence" /\ d \notin taskExecutions)

\* How a call comes to wait for its turn and to return its result.
LEMMA CallsMove ==
  ASSUME TypeOK, Locked, Called, [Next]_vars
  PROVE  CallsMoved
<1>1. ASSUME CreateTask PROVE CallsMoved
  BY <1>1, TypeParts, Turns
  DEF CreateTask, Goto, Return, CallsMoved, Called, CallInv, CallTypes, Waits, Closed
<1>2. ASSUME StartCreated PROVE CallsMoved
  BY <1>2, TypeParts, Turns
  DEF StartCreated, MayStart, StartTurnLocked, SignalChanged, Goto, Return, CallsMoved, Called,
      CallInv, CallTypes, Waits, Closed
<1>3. ASSUME ReadStarted PROVE CallsMoved
  BY <1>3, TypeParts, Turns
  DEF ReadStarted, Goto, CallsMoved, Called, CallInv, CallTypes, Waits, Closed
<1>4. ASSUME AdoptRun PROVE CallsMoved
  BY <1>4, TypeParts, Turns
  DEF AdoptRun, AfterStart, Goto, Return, CallsMoved, Called, CallInv, CallTypes, Waits, Closed
<1>5. ASSUME NEW c \in Call, ResumeBegin(c) PROVE CallsMoved
  BY <1>5, TypeParts, Turns
  DEF ResumeBegin, Resumable, Goto, Return, CallsMoved, Called, CallInv, CallTypes, Waits, Closed
<1>6. ASSUME NEW c \in Call, ResumeTask(c) PROVE CallsMoved
  BY <1>6, TypeParts, Turns
  DEF ResumeTask, Resumable, EnsureAgentLocked, Goto, Return, CallsMoved, Called, CallInv,
      CallTypes, Waits, Closed
<1>7. ASSUME NEW c \in Call, CancelCall(c) PROVE CallsMoved
  BY <1>7, TypeParts, Turns
  DEF CancelCall, Goto, CallsMoved, Called, CallInv, CallTypes, Waits, Closed
<1>8. ASSUME NEW c \in Call, PromoteTask(c) PROVE CallsMoved
  BY <1>8, TypeParts, Turns
  DEF PromoteTask, Goto, CallsMoved, Called, CallInv, CallTypes, Waits, Closed
<1>9. ASSUME NEW c \in Call, WaitRunDone(c) PROVE CallsMoved
  BY <1>9, TypeParts, Turns
  DEF WaitRunDone, Goto, CallsMoved, Called, CallInv, CallTypes, Waits, Closed
<1>10. ASSUME NEW c \in Call, WaitLifecycle(c) PROVE CallsMoved
  BY <1>10, TypeParts, Turns
  DEF WaitLifecycle, Goto, CallsMoved, Called, CallInv, CallTypes, Waits, Closed
<1>11. ASSUME NEW c \in Call, WaitPublication(c) PROVE CallsMoved
  BY <1>11, TypeParts, Turns
  DEF WaitPublication, LoadFence, Publishing, Goto, CallsMoved, Called, CallInv, CallTypes, Waits,
      Closed
<1>12. ASSUME NEW c \in Call, RegisterBegin(c) PROVE CallsMoved
  BY <1>12, TypeParts, Turns
  DEF RegisterBegin, Goto, Return, CallsMoved, Called, CallInv, CallTypes, Waits, Closed
<1>13. ASSUME NEW c \in Call, RegisterScope(c) PROVE CallsMoved
  BY <1>13, TypeParts, Turns
  DEF RegisterScope, Goto, CallsMoved, Called, CallInv, CallTypes, Waits, Closed
<1>14. ASSUME NEW c \in Call, RegisterStore(c) PROVE CallsMoved
  BY <1>14, TypeParts, Turns
  DEF RegisterStore, Publication, Goto, Return, CallsMoved, Called, CallInv, CallTypes, Waits,
      Closed
<1>15. ASSUME NEW c \in Call, RegisterDone(c) PROVE CallsMoved
  BY <1>15, TypeParts, Turns
  DEF RegisterDone, Goto, Return, CallsMoved, Called, CallInv, CallTypes, Waits, Closed
<1>16. ASSUME NEW p \in Publisher, ClaimTaskCompletion(p) PROVE CallsMoved
  BY <1>16, TypeParts, Turns
  DEF ClaimTaskCompletion, Advance, FirstClaim, Publication, NoPublication, CallsMoved, Called,
      CallInv, CallTypes, Waits, Closed
<1>17. ASSUME NEW p \in Publisher, PublishTaskCompleted(p) PROVE CallsMoved
  BY <1>17, TypeParts, Turns
  DEF PublishTaskCompleted, Advance, Publication, NoPublication, CallsMoved, Called, CallInv,
      CallTypes, Waits, Closed
<1>18. ASSUME NEW p \in Publisher, AcceptTaskDelivery(p) PROVE CallsMoved
  BY <1>18, TypeParts, Turns
  DEF AcceptTaskDelivery, Advance, Publication, NoPublication, CallsMoved, Called, CallInv,
      CallTypes, Waits, Closed
<1>19. ASSUME NEW p \in Publisher, ClearTaskDelivery(p) PROVE CallsMoved
  BY <1>19, TypeParts, Turns
  DEF ClearTaskDelivery, Advance, Publication, NoPublication, CallsMoved, Called, CallInv,
      CallTypes, Waits, Closed
<1>20. ASSUME NEW p \in Publisher, UnmarkTaskExecution(p) PROVE CallsMoved
  BY <1>20, TypeParts, Turns
  DEF UnmarkTaskExecution, Advance, Publication, NoPublication, SignalChanged, CallsMoved, Called,
      CallInv, CallTypes, Waits, Closed
<1>21. ASSUME NEW t \in Turn, StartTurn(t) PROVE CallsMoved
  BY <1>21, TypeParts, Turns
  DEF StartTurn, MayStart, StartTurnLocked, SignalChanged, AfterStart, TurnOver, Goto, Return,
      CallsMoved, Called, CallInv, CallTypes, Waits, Closed, Locked, Holds
<1>22. ASSUME NEW t \in Turn, RunEnds(t) PROVE CallsMoved
  BY <1>22, TypeParts, Turns
  DEF RunEnds, CallsMoved, Called, CallInv, CallTypes, Waits, Closed
<1>23. ASSUME NEW t \in Turn, MonitorEvent(t) PROVE CallsMoved
  BY <1>23, TypeParts, Turns
  DEF MonitorEvent, SignalChanged, CallsMoved, Called, CallInv, CallTypes, Waits, Closed
<1>24. ASSUME NEW t \in Turn, MonitorFold(t) PROVE CallsMoved
  BY <1>24, TypeParts, Turns
  DEF MonitorFold, TurnOver, SignalChanged, TerminalPublication, Publication, NoPublication,
      CallsMoved, Called, CallInv, CallTypes, Waits, Closed
<1>25. ASSUME NEW t \in Turn, MonitorDequeue(t) PROVE CallsMoved
  BY <1>25, TypeParts, Turns
  DEF MonitorDequeue, HasNext, CallsMoved, Called, CallInv, CallTypes, Waits, Closed
<1>26. ASSUME NEW t \in Turn, MonitorNext(t) PROVE CallsMoved
  BY <1>26, TypeParts, Turns
  DEF MonitorNext, CallsMoved, Called, CallInv, CallTypes, Waits, Closed
<1>27. ASSUME NEW m \in Message, Send(m) PROVE CallsMoved
  BY <1>27, TypeParts, Turns
  DEF Send, Enqueue, SignalChanged, EnsureAgentLocked, CallsMoved, Called, CallInv, CallTypes,
      Waits, Closed
<1>28. ASSUME CloseRecord PROVE CallsMoved
  BY <1>28, TypeParts, Turns
  DEF CloseRecord, CallsMoved, Called, CallInv, CallTypes, Waits, Closed
<1>29. ASSUME CloseFinish PROVE CallsMoved
  BY <1>29, TypeParts, Turns
  DEF CloseFinish, SignalChanged, CallsMoved, Called, CallInv, CallTypes, Waits, Closed
<1>30. ASSUME ShutdownBegin PROVE CallsMoved
  BY <1>30, TypeParts, Turns
  DEF ShutdownBegin, Shutdown, CallsMoved, Called, CallInv, CallTypes, Waits, Closed
<1>31. ASSUME RetainForShutdown PROVE CallsMoved
  BY <1>31, TypeParts, Turns
  DEF RetainForShutdown, Shutdown, RetainRecord, TurnOver, CallsMoved, Called, CallInv, CallTypes,
      Waits, Closed
<1>32. ASSUME ReleaseAgent PROVE CallsMoved
  BY <1>32, TypeParts, Turns
  DEF ReleaseAgent, Shutdown, CallsMoved, Called, CallInv, CallTypes, Waits, Closed
<1>33. ASSUME ShutdownSignal PROVE CallsMoved
  BY <1>33, TypeParts, Turns
  DEF ShutdownSignal, Shutdown, SignalChanged, CallsMoved, Called, CallInv, CallTypes, Waits,
      Closed
<1>34. ASSUME ShutdownCancel PROVE CallsMoved
  BY <1>34, TypeParts, Turns
  DEF ShutdownCancel, Shutdown, CallsMoved, Called, CallInv, CallTypes, Waits, Closed
<1>35. ASSUME ShutdownWait PROVE CallsMoved
  BY <1>35, TypeParts, Turns
  DEF ShutdownWait, Shutdown, CallsMoved, Called, CallInv, CallTypes, Waits, Closed
<1>36. CASE UNCHANGED vars
  BY <1>36, TypeParts, Turns
  DEF vars, CallsMoved, Called, CallInv, CallTypes, Waits, Closed
<1> QED
  BY <1>1, <1>2, <1>3, <1>4, <1>5, <1>6, <1>7, <1>8, <1>9, <1>10, <1>11, <1>12, <1>13, <1>14, <1>15, <1>16,
     <1>17, <1>18, <1>19, <1>20, <1>21, <1>22, <1>23, <1>24, <1>25, <1>26, <1>27, <1>28, <1>29, <1>30, <1>31,
     <1>32, <1>33, <1>34, <1>35, <1>36, Zenon
  DEF Next, StartStep, CallProgress, MonitorProgress, Publish, CloseAgent

\* A call waits at the fence for the event of its own turn.
LEMMA FencedNext ==
  ASSUME TypeOK, Locked, Called, Claims, Fenced, [Next]_vars
  PROVE  Fenced'
<1>1. CallsMoved BY CallsMove
<1>2. ASSUME NEW c \in Call, pc'[c] \in {"created", "adopt", "lookup", "resuming"}
      PROVE  Marked(c)'
  <2>1. CASE c \in taskExecutions' BY <2>1 DEF Marked
  <2>2. CASE pc[c] \in {"created", "adopt", "lookup", "resuming"}
    <3>1. Marked(c) BY <2>2 DEF Fenced
    <3> QED BY <1>2, <3>1, MarkedKept
  <2> QED BY <1>1, <1>2, <2>1, <2>2 DEF CallsMoved
<1>3. ASSUME NEW c \in Call, pc'[c] \in Waits, turnOf'[c] = c
      PROVE  Marked(c)'
  <2>1. Marked(c) BY <1>1, <1>3 DEF CallsMoved, Fenced
  <2>2. pc'[c] # "returned" BY <1>3 DEF Waits
  <2> QED BY <2>1, <2>2, MarkedKept
<1>4. ASSUME ~Closed', NEW c \in Call, pc'[c] = "returned", result'[c] = "final", turnOf'[c] = c
      PROVE  InCompleted(c)'
  <2>1. ~Closed /\ turnOf[c] = c BY <1>1, <1>4 DEF CallsMoved
  <2>2. CASE pc[c] = "returned" /\ result[c] = "final"
    <3>1. InCompleted(c) BY <2>1, <2>2 DEF Fenced, EventBeforeReturn, InCompleted
    <3> QED BY <3>1, CompletedKept
  <2>3. CASE pc[c] = "fence" /\ c \notin taskExecutions
    <3>1. Marked(c) BY <2>1, <2>3 DEF Fenced, Waits
    <3>2. ~Registered(c)
      <4>1. ASSUME NEW d \in Call, turnOf[d] = c, pc[d] = "publishing" \/ result[d] = "running" PROVE FALSE
        <5>1. d = c BY <4>1, Turns DEF Called, CallInv
        <5> QED BY <2>3, <4>1, <5>1 DEF Called, CallInv
      <4> QED BY <4>1 DEF Registered
    <3>3. InCompleted(c) BY <2>3, <3>1, <3>2 DEF Marked
    <3> QED BY <3>3, CompletedKept
  <2> QED BY <1>1, <1>4, <2>2, <2>3 DEF CallsMoved
<1>5. EventBeforeReturn' BY <1>4 DEF EventBeforeReturn, InCompleted
<1> QED BY <1>2, <1>3, <1>5 DEF Fenced

\* Nobody makes the record running once it is retained, but one who already
\* held the instance.
LEMMA RetainedNext ==
  ASSUME TypeOK, Locked, Recorded, Retained, [Next]_vars
  PROVE  Retained'
<1>1. ASSUME CreateTask PROVE Retained'
  BY <1>1, TypeParts, Turns
  DEF CreateTask, Goto, Return, Retained, Locked, Holds, Recorded, Closed, RecordTypes,
      InstanceTypes, ManagerTypes, ShutdownStep
<1>2. ASSUME StartCreated PROVE Retained'
  BY <1>2, TypeParts, Turns
  DEF StartCreated, MayStart, StartTurnLocked, SignalChanged, Goto, Return, Retained, Locked,
      Holds, Recorded, Closed, RecordTypes, InstanceTypes, ManagerTypes, ShutdownStep
<1>3. ASSUME ReadStarted PROVE Retained'
  BY <1>3, TypeParts, Turns
  DEF ReadStarted, Goto, Retained, Locked, Holds, Recorded, Closed, RecordTypes, InstanceTypes,
      ManagerTypes, ShutdownStep
<1>4. ASSUME AdoptRun PROVE Retained'
  BY <1>4, TypeParts, Turns
  DEF AdoptRun, AfterStart, Goto, Return, Retained, Locked, Holds, Recorded, Closed, RecordTypes,
      InstanceTypes, ManagerTypes, ShutdownStep
<1>5. ASSUME NEW c \in Call, ResumeBegin(c) PROVE Retained'
  BY <1>5, TypeParts, Turns
  DEF ResumeBegin, Resumable, Goto, Return, Retained, Locked, Holds, Recorded, Closed, RecordTypes,
      InstanceTypes, ManagerTypes, ShutdownStep
<1>6. ASSUME NEW c \in Call, ResumeTask(c) PROVE Retained'
  BY <1>6, TypeParts, Turns
  DEF ResumeTask, Resumable, EnsureAgentLocked, Goto, Return, Retained, Locked, Holds, Recorded,
      Closed, RecordTypes, InstanceTypes, ManagerTypes, ShutdownStep
<1>7. ASSUME NEW c \in Call, CancelCall(c) PROVE Retained'
  BY <1>7, TypeParts, Turns
  DEF CancelCall, Goto, Retained, Locked, Holds, Recorded, Closed, RecordTypes, InstanceTypes,
      ManagerTypes, ShutdownStep
<1>8. ASSUME NEW c \in Call, PromoteTask(c) PROVE Retained'
  BY <1>8, TypeParts, Turns
  DEF PromoteTask, Goto, Retained, Locked, Holds, Recorded, Closed, RecordTypes, InstanceTypes,
      ManagerTypes, ShutdownStep
<1>9. ASSUME NEW c \in Call, WaitRunDone(c) PROVE Retained'
  BY <1>9, TypeParts, Turns
  DEF WaitRunDone, Goto, Retained, Locked, Holds, Recorded, Closed, RecordTypes, InstanceTypes,
      ManagerTypes, ShutdownStep
<1>10. ASSUME NEW c \in Call, WaitLifecycle(c) PROVE Retained'
  BY <1>10, TypeParts, Turns
  DEF WaitLifecycle, Goto, Retained, Locked, Holds, Recorded, Closed, RecordTypes, InstanceTypes,
      ManagerTypes, ShutdownStep
<1>11. ASSUME NEW c \in Call, WaitPublication(c) PROVE Retained'
  BY <1>11, TypeParts, Turns
  DEF WaitPublication, LoadFence, Publishing, Goto, Retained, Locked, Holds, Recorded, Closed,
      RecordTypes, InstanceTypes, ManagerTypes, ShutdownStep
<1>12. ASSUME NEW c \in Call, RegisterBegin(c) PROVE Retained'
  BY <1>12, TypeParts, Turns
  DEF RegisterBegin, Goto, Return, Retained, Locked, Holds, Recorded, Closed, RecordTypes,
      InstanceTypes, ManagerTypes, ShutdownStep
<1>13. ASSUME NEW c \in Call, RegisterScope(c) PROVE Retained'
  BY <1>13, TypeParts, Turns
  DEF RegisterScope, Goto, Retained, Locked, Holds, Recorded, Closed, RecordTypes, InstanceTypes,
      ManagerTypes, ShutdownStep
<1>14. ASSUME NEW c \in Call, RegisterStore(c) PROVE Retained'
  BY <1>14, TypeParts, Turns
  DEF RegisterStore, Publication, Goto, Return, Retained, Locked, Holds, Recorded, Closed,
      RecordTypes, InstanceTypes, ManagerTypes, ShutdownStep
<1>15. ASSUME NEW c \in Call, RegisterDone(c) PROVE Retained'
  BY <1>15, TypeParts, Turns
  DEF RegisterDone, Goto, Return, Retained, Locked, Holds, Recorded, Closed, RecordTypes,
      InstanceTypes, ManagerTypes, ShutdownStep
<1>16. ASSUME NEW p \in Publisher, ClaimTaskCompletion(p) PROVE Retained'
  BY <1>16, TypeParts, Turns
  DEF ClaimTaskCompletion, Advance, FirstClaim, Publication, NoPublication, Retained, Locked,
      Holds, Recorded, Closed, RecordTypes, InstanceTypes, ManagerTypes, ShutdownStep
<1>17. ASSUME NEW p \in Publisher, PublishTaskCompleted(p) PROVE Retained'
  BY <1>17, TypeParts, Turns
  DEF PublishTaskCompleted, Advance, Publication, NoPublication, Retained, Locked, Holds, Recorded,
      Closed, RecordTypes, InstanceTypes, ManagerTypes, ShutdownStep
<1>18. ASSUME NEW p \in Publisher, AcceptTaskDelivery(p) PROVE Retained'
  BY <1>18, TypeParts, Turns
  DEF AcceptTaskDelivery, Advance, Publication, NoPublication, Retained, Locked, Holds, Recorded,
      Closed, RecordTypes, InstanceTypes, ManagerTypes, ShutdownStep
<1>19. ASSUME NEW p \in Publisher, ClearTaskDelivery(p) PROVE Retained'
  BY <1>19, TypeParts, Turns
  DEF ClearTaskDelivery, Advance, Publication, NoPublication, Retained, Locked, Holds, Recorded,
      Closed, RecordTypes, InstanceTypes, ManagerTypes, ShutdownStep
<1>20. ASSUME NEW p \in Publisher, UnmarkTaskExecution(p) PROVE Retained'
  BY <1>20, TypeParts, Turns
  DEF UnmarkTaskExecution, Advance, Publication, NoPublication, SignalChanged, Retained, Locked,
      Holds, Recorded, Closed, RecordTypes, InstanceTypes, ManagerTypes, ShutdownStep
<1>21. ASSUME NEW t \in Turn, StartTurn(t) PROVE Retained'
  BY <1>21, TypeParts, Turns
  DEF StartTurn, MayStart, StartTurnLocked, SignalChanged, AfterStart, TurnOver, Goto, Return,
      Retained, Locked, Holds, Recorded, Closed, RecordTypes, InstanceTypes, ManagerTypes,
      ShutdownStep
<1>22. ASSUME NEW t \in Turn, RunEnds(t) PROVE Retained'
  BY <1>22, TypeParts, Turns
  DEF RunEnds, Retained, Locked, Holds, Recorded, Closed, RecordTypes, InstanceTypes, ManagerTypes,
      ShutdownStep
<1>23. ASSUME NEW t \in Turn, MonitorEvent(t) PROVE Retained'
  BY <1>23, TypeParts, Turns
  DEF MonitorEvent, SignalChanged, Retained, Locked, Holds, Recorded, Closed, RecordTypes,
      InstanceTypes, ManagerTypes, ShutdownStep
<1>24. ASSUME NEW t \in Turn, MonitorFold(t) PROVE Retained'
  BY <1>24, TypeParts, Turns
  DEF MonitorFold, TurnOver, SignalChanged, TerminalPublication, Publication, NoPublication,
      Retained, Locked, Holds, Recorded, Closed, RecordTypes, InstanceTypes, ManagerTypes,
      ShutdownStep
<1>25. ASSUME NEW t \in Turn, MonitorDequeue(t) PROVE Retained'
  BY <1>25, TypeParts, Turns
  DEF MonitorDequeue, HasNext, Retained, Locked, Holds, Recorded, Closed, RecordTypes,
      InstanceTypes, ManagerTypes, ShutdownStep
<1>26. ASSUME NEW t \in Turn, MonitorNext(t) PROVE Retained'
  BY <1>26, TypeParts, Turns
  DEF MonitorNext, Retained, Locked, Holds, Recorded, Closed, RecordTypes, InstanceTypes,
      ManagerTypes, ShutdownStep
<1>27. ASSUME NEW m \in Message, Send(m) PROVE Retained'
  BY <1>27, TypeParts, Turns
  DEF Send, Enqueue, SignalChanged, EnsureAgentLocked, Retained, Locked, Holds, Recorded, Closed,
      RecordTypes, InstanceTypes, ManagerTypes, ShutdownStep
<1>28. ASSUME CloseRecord PROVE Retained'
  BY <1>28, TypeParts, Turns
  DEF CloseRecord, Retained, Locked, Holds, Recorded, Closed, RecordTypes, InstanceTypes,
      ManagerTypes, ShutdownStep
<1>29. ASSUME CloseFinish PROVE Retained'
  BY <1>29, TypeParts, Turns
  DEF CloseFinish, SignalChanged, Retained, Locked, Holds, Recorded, Closed, RecordTypes,
      InstanceTypes, ManagerTypes, ShutdownStep
<1>30. ASSUME ShutdownBegin PROVE Retained'
  BY <1>30, TypeParts, Turns
  DEF ShutdownBegin, Shutdown, Retained, Locked, Holds, Recorded, Closed, RecordTypes,
      InstanceTypes, ManagerTypes, ShutdownStep
<1>31. ASSUME RetainForShutdown PROVE Retained'
  BY <1>31, TypeParts, Turns
  DEF RetainForShutdown, Shutdown, RetainRecord, TurnOver, Retained, Locked, Holds, Recorded,
      Closed, RecordTypes, InstanceTypes, ManagerTypes, ShutdownStep
<1>32. ASSUME ReleaseAgent PROVE Retained'
  BY <1>32, TypeParts, Turns
  DEF ReleaseAgent, Shutdown, Retained, Locked, Holds, Recorded, Closed, RecordTypes,
      InstanceTypes, ManagerTypes, ShutdownStep
<1>33. ASSUME ShutdownSignal PROVE Retained'
  BY <1>33, TypeParts, Turns
  DEF ShutdownSignal, Shutdown, SignalChanged, Retained, Locked, Holds, Recorded, Closed,
      RecordTypes, InstanceTypes, ManagerTypes, ShutdownStep
<1>34. ASSUME ShutdownCancel PROVE Retained'
  BY <1>34, TypeParts, Turns
  DEF ShutdownCancel, Shutdown, Retained, Locked, Holds, Recorded, Closed, RecordTypes,
      InstanceTypes, ManagerTypes, ShutdownStep
<1>35. ASSUME ShutdownWait PROVE Retained'
  BY <1>35, TypeParts, Turns
  DEF ShutdownWait, Shutdown, Retained, Locked, Holds, Recorded, Closed, RecordTypes,
      InstanceTypes, ManagerTypes, ShutdownStep
<1>36. CASE UNCHANGED vars
  BY <1>36, TypeParts, Turns
  DEF vars, Retained, Locked, Holds, Recorded, Closed, RecordTypes, InstanceTypes, ManagerTypes,
      ShutdownStep
<1> QED
  BY <1>1, <1>2, <1>3, <1>4, <1>5, <1>6, <1>7, <1>8, <1>9, <1>10, <1>11, <1>12, <1>13, <1>14, <1>15, <1>16,
     <1>17, <1>18, <1>19, <1>20, <1>21, <1>22, <1>23, <1>24, <1>25, <1>26, <1>27, <1>28, <1>29, <1>30, <1>31,
     <1>32, <1>33, <1>34, <1>35, <1>36, Zenon
  DEF Next, StartStep, CallProgress, MonitorProgress, Publish, CloseAgent

\* A queue is its head and then its tail.
LEMMA HeadThenTail ==
  ASSUME NEW S, NEW q \in Seq(S), q # <<>>
  PROVE  <<Head(q)>> \in Seq(S) /\ Tail(q) \in Seq(S) /\ <<Head(q)>> \o Tail(q) = q
<1> DEFINE a == <<Head(q)>>
           b == Tail(q)
<1>1. Len(a) = 1 /\ a[1] = q[1] OBVIOUS
<1>2. /\ Len(b) = Len(q) - 1 /\ Len(q) \in Nat \ {0}
      /\ \A i \in 1..Len(b) : b[i] = q[i + 1]
  BY HeadTailProperties, EmptySeq
<1>3. a \in Seq(S) /\ b \in Seq(S)
  <2>1. Head(q) \in S /\ Tail(q) \in Seq(S) BY HeadTailProperties
  <2> QED BY <2>1
<1> HIDE DEF a, b
<1>4. a \o b \in Seq(S) /\ Len(a \o b) = Len(a) + Len(b)
      /\ \A i \in 1..(Len(a) + Len(b)) : (a \o b)[i] = IF i <= Len(a) THEN a[i] ELSE b[i - Len(a)]
  BY <1>3, ConcatProperties
<1>5. Len(a \o b) = Len(q) BY <1>1, <1>2, <1>4
<1>6. \A i \in 1..Len(a \o b) : (a \o b)[i] = q[i] BY <1>1, <1>2, <1>4
<1>7. a \o b = q BY <1>4, <1>5, <1>6, SeqEqual
<1> QED BY <1>3, <1>7 DEF a, b

\* Sequences: the mailbox moves its first message to the hand, the hand gives
\* it to the turns that were started, and a message enters at either.
LEMMA RowType ==
  ASSUME NEW S, NEW a \in Seq(S), NEW b \in Seq(S)
  PROVE  Row(a, <<>>, b) \in Seq(S) /\ Row(a, <<>>, b) = a \o b /\ Row(a, <<>>, <<>>) = a
<1>1. a \o <<>> = a BY ConcatEmptySeq
<1>2. a \o b \in Seq(S) BY ConcatProperties
<1> QED BY <1>1, <1>2, Zenon DEF Row

\* The hand takes the first message ...
LEMMA RowTake ==
  ASSUME NEW S, NEW a \in Seq(S), NEW b \in Seq(S), b # <<>>
  PROVE  Row(a, <<Head(b)>>, Tail(b)) = Row(a, <<>>, b)
<1> DEFINE h == <<Head(b)>>
           r == Tail(b)
<1>1. h \in Seq(S) /\ r \in Seq(S) /\ h \o r = b BY HeadThenTail, Zenon
<1> HIDE DEF h, r
<1>2. h \in Seq(S) /\ r \in Seq(S) BY <1>1
<1>3. (a \o h) \o r = a \o (h \o r) BY <1>2, ConcatAssociative, SMTT(20)
<1>4. Row(a, h, r) = a \o b BY <1>1, <1>3, Zenon DEF Row
<1>5. Row(a, <<>>, b) = a \o b BY RowType, Zenon
<1> QED BY <1>4, <1>5, Zenon DEF h, r

\* ... starts its turn ...
LEMMA RowStart ==
  ASSUME NEW S, NEW a \in Seq(S), NEW b \in Seq(S), NEW m \in S
  PROVE  Append(a, m) \in Seq(S) /\ Row(Append(a, m), <<>>, b) = Row(a, <<m>>, b)
<1>1. Append(a, m) = a \o <<m>> /\ Append(a, m) \in Seq(S) BY AppendIsConcat, AppendProperties
<1>2. Append(a, m) \o <<>> = Append(a, m) BY <1>1, ConcatEmptySeq
<1> QED BY <1>1, <1>2, Zenon DEF Row

\* ... and a message is queued behind the others.
LEMMA RowQueue ==
  ASSUME NEW S, NEW a \in Seq(S), NEW b \in Seq(S), NEW m \in S
  PROVE  Row(a, <<>>, Append(b, m)) = Append(Row(a, <<>>, b), m)
<1> DEFINE h == <<m>>
<1>1. h \in Seq(S) OBVIOUS
<1>2. Append(b, m) = b \o h /\ Append(b, m) \in Seq(S) BY AppendIsConcat, AppendProperties
<1>3. Row(a, <<>>, Append(b, m)) = a \o Append(b, m) /\ Row(a, <<>>, b) = a \o b /\ Row(a, <<>>, b) \in Seq(S)
  <2> DEFINE r == Append(b, m)
  <2>1. r \in Seq(S) BY <1>2
  <2> HIDE DEF r
  <2>2. Row(a, <<>>, r) = a \o r BY <2>1, RowType, Zenon
  <2>3. Row(a, <<>>, b) = a \o b /\ Row(a, <<>>, b) \in Seq(S) BY RowType, Zenon
  <2> QED BY <2>2, <2>3, Zenon DEF r
<1>4. Append(a \o b, m) = (a \o b) \o h BY <1>3, AppendIsConcat
<1> HIDE DEF h
<1>5. (a \o b) \o h = a \o (b \o h) BY <1>1, ConcatAssociative, SMTT(20)
<1> QED BY <1>2, <1>3, <1>4, <1>5, Zenon

\* A sequence is a prefix of itself ...
LEMMA PrefixSelf == ASSUME NEW S, NEW a \in Seq(S) PROVE Prefix(a, a)
BY LenProperties DEF Prefix

\* ... of what it is continued by ...
LEMMA PrefixAppend ==
  ASSUME NEW S, NEW a \in Seq(S), NEW q \in Seq(S), NEW m \in S, Prefix(a, q)
  PROVE  Prefix(a, Append(q, m))
<1>1. Len(a) \in Nat /\ Len(q) \in Nat BY LenProperties
<1>2. Len(Append(q, m)) = Len(q) + 1 /\ \A i \in 1..Len(q) : Append(q, m)[i] = q[i]
  BY AppendProperties
<1> QED BY <1>1, <1>2 DEF Prefix

\* ... and so is each of its own prefixes.
LEMMA PrefixCut ==
  ASSUME NEW S, NEW a \in Seq(S), NEW b \in Seq(S), NEW q \in Seq(S), Prefix(a \o b, q)
  PROVE  Prefix(a, q)
<1>1. Len(a) \in Nat /\ Len(b) \in Nat /\ Len(q) \in Nat BY LenProperties
<1>2. Len(a \o b) = Len(a) + Len(b) /\ \A i \in 1..Len(a) : (a \o b)[i] = a[i]
  BY <1>1, ConcatProperties
<1> QED BY <1>1, <1>2 DEF Prefix

\* What failed or was closed stays so.
LEMMA QuietKept ==
  ASSUME Quiet', [Next]_vars
  PROVE  Quiet
<1>1. ASSUME CreateTask PROVE Quiet
  BY <1>1 DEF CreateTask, Goto, Return, Quiet, Closed
<1>2. ASSUME StartCreated PROVE Quiet
  BY <1>2
  DEF StartCreated, MayStart, StartTurnLocked, SignalChanged, Goto, Return, Quiet, Closed
<1>3. ASSUME ReadStarted PROVE Quiet
  BY <1>3 DEF ReadStarted, Goto, Quiet, Closed
<1>4. ASSUME AdoptRun PROVE Quiet
  BY <1>4 DEF AdoptRun, AfterStart, Goto, Return, Quiet, Closed
<1>5. ASSUME NEW c \in Call, ResumeBegin(c) PROVE Quiet
  BY <1>5 DEF ResumeBegin, Resumable, Goto, Return, Quiet, Closed
<1>6. ASSUME NEW c \in Call, ResumeTask(c) PROVE Quiet
  BY <1>6 DEF ResumeTask, Resumable, EnsureAgentLocked, Goto, Return, Quiet, Closed
<1>7. ASSUME NEW c \in Call, CancelCall(c) PROVE Quiet
  BY <1>7 DEF CancelCall, Goto, Quiet, Closed
<1>8. ASSUME NEW c \in Call, PromoteTask(c) PROVE Quiet
  BY <1>8 DEF PromoteTask, Goto, Quiet, Closed
<1>9. ASSUME NEW c \in Call, WaitRunDone(c) PROVE Quiet
  BY <1>9 DEF WaitRunDone, Goto, Quiet, Closed
<1>10. ASSUME NEW c \in Call, WaitLifecycle(c) PROVE Quiet
  BY <1>10 DEF WaitLifecycle, Goto, Quiet, Closed
<1>11. ASSUME NEW c \in Call, WaitPublication(c) PROVE Quiet
  BY <1>11 DEF WaitPublication, LoadFence, Publishing, Goto, Quiet, Closed
<1>12. ASSUME NEW c \in Call, RegisterBegin(c) PROVE Quiet
  BY <1>12 DEF RegisterBegin, Goto, Return, Quiet, Closed
<1>13. ASSUME NEW c \in Call, RegisterScope(c) PROVE Quiet
  BY <1>13 DEF RegisterScope, Goto, Quiet, Closed
<1>14. ASSUME NEW c \in Call, RegisterStore(c) PROVE Quiet
  BY <1>14 DEF RegisterStore, Publication, Goto, Return, Quiet, Closed
<1>15. ASSUME NEW c \in Call, RegisterDone(c) PROVE Quiet
  BY <1>15 DEF RegisterDone, Goto, Return, Quiet, Closed
<1>16. ASSUME NEW p \in Publisher, ClaimTaskCompletion(p) PROVE Quiet
  BY <1>16
  DEF ClaimTaskCompletion, Advance, FirstClaim, Publication, NoPublication, Quiet, Closed
<1>17. ASSUME NEW p \in Publisher, PublishTaskCompleted(p) PROVE Quiet
  BY <1>17
  DEF PublishTaskCompleted, Advance, Publication, NoPublication, Quiet, Closed
<1>18. ASSUME NEW p \in Publisher, AcceptTaskDelivery(p) PROVE Quiet
  BY <1>18 DEF AcceptTaskDelivery, Advance, Publication, NoPublication, Quiet, Closed
<1>19. ASSUME NEW p \in Publisher, ClearTaskDelivery(p) PROVE Quiet
  BY <1>19 DEF ClearTaskDelivery, Advance, Publication, NoPublication, Quiet, Closed
<1>20. ASSUME NEW p \in Publisher, UnmarkTaskExecution(p) PROVE Quiet
  BY <1>20
  DEF UnmarkTaskExecution, Advance, Publication, NoPublication, SignalChanged, Quiet, Closed
<1>21. ASSUME NEW t \in Turn, StartTurn(t) PROVE Quiet
  BY <1>21
  DEF StartTurn, MayStart, StartTurnLocked, SignalChanged, AfterStart, TurnOver, Goto, Return,
      Quiet, Closed
<1>22. ASSUME NEW t \in Turn, RunEnds(t) PROVE Quiet
  BY <1>22 DEF RunEnds, Quiet, Closed
<1>23. ASSUME NEW t \in Turn, MonitorEvent(t) PROVE Quiet
  BY <1>23 DEF MonitorEvent, SignalChanged, Quiet, Closed
<1>24. ASSUME NEW t \in Turn, MonitorFold(t) PROVE Quiet
  BY <1>24
  DEF MonitorFold, TurnOver, SignalChanged, TerminalPublication, Publication, NoPublication, Quiet,
      Closed
<1>25. ASSUME NEW t \in Turn, MonitorDequeue(t) PROVE Quiet
  BY <1>25 DEF MonitorDequeue, HasNext, Quiet, Closed
<1>26. ASSUME NEW t \in Turn, MonitorNext(t) PROVE Quiet
  BY <1>26 DEF MonitorNext, Quiet, Closed
<1>27. ASSUME NEW m \in Message, Send(m) PROVE Quiet
  BY <1>27 DEF Send, Enqueue, SignalChanged, EnsureAgentLocked, Quiet, Closed
<1>28. ASSUME CloseRecord PROVE Quiet
  BY <1>28 DEF CloseRecord, Quiet, Closed
<1>29. ASSUME CloseFinish PROVE Quiet
  BY <1>29 DEF CloseFinish, SignalChanged, Quiet, Closed
<1>30. ASSUME ShutdownBegin PROVE Quiet
  BY <1>30 DEF ShutdownBegin, Shutdown, Quiet, Closed
<1>31. ASSUME RetainForShutdown PROVE Quiet
  BY <1>31
  DEF RetainForShutdown, Shutdown, RetainRecord, TurnOver, Quiet, Closed
<1>32. ASSUME ReleaseAgent PROVE Quiet
  BY <1>32 DEF ReleaseAgent, Shutdown, Quiet, Closed
<1>33. ASSUME ShutdownSignal PROVE Quiet
  BY <1>33
  DEF ShutdownSignal, Shutdown, SignalChanged, Quiet, Closed
<1>34. ASSUME ShutdownCancel PROVE Quiet
  BY <1>34 DEF ShutdownCancel, Shutdown, Quiet, Closed
<1>35. ASSUME ShutdownWait PROVE Quiet
  BY <1>35 DEF ShutdownWait, Shutdown, Quiet, Closed
<1>36. CASE UNCHANGED vars
  BY <1>36 DEF vars, Quiet, Closed
<1> QED
  BY <1>1, <1>2, <1>3, <1>4, <1>5, <1>6, <1>7, <1>8, <1>9, <1>10, <1>11, <1>12, <1>13, <1>14, <1>15, <1>16,
     <1>17, <1>18, <1>19, <1>20, <1>21, <1>22, <1>23, <1>24, <1>25, <1>26, <1>27, <1>28, <1>29, <1>30, <1>31,
     <1>32, <1>33, <1>34, <1>35, <1>36, Zenon
  DEF Next, StartStep, CallProgress, MonitorProgress, Publish, CloseAgent

\* Where nothing fails, a running task has its runtime, and an idle one whose
\* instance is free has an empty mailbox.
LEMMA ServedNext ==
  ASSUME TypeOK, Locked, Recorded, Mailbox, Quiet', Quiet, [Next]_vars
  PROVE  Served'
<1>1. ASSUME CreateTask PROVE Served'
  BY <1>1, TypeParts, Turns
  DEF CreateTask, Goto, Return, Mailbox, Served, Quiet, Closed, Locked, Holds, Recorded,
      RecordTypes, InstanceTypes, CallTypes
<1>2. ASSUME StartCreated PROVE Served'
  BY <1>2, TypeParts, Turns
  DEF StartCreated, MayStart, StartTurnLocked, SignalChanged, Goto, Return, Mailbox, Served, Quiet,
      Closed, Locked, Holds, Recorded, RecordTypes, InstanceTypes, CallTypes
<1>3. ASSUME ReadStarted PROVE Served'
  BY <1>3, TypeParts, Turns
  DEF ReadStarted, Goto, Mailbox, Served, Quiet, Closed, Locked, Holds, Recorded, RecordTypes,
      InstanceTypes, CallTypes
<1>4. ASSUME AdoptRun PROVE Served'
  BY <1>4, TypeParts, Turns
  DEF AdoptRun, AfterStart, Goto, Return, Mailbox, Served, Quiet, Closed, Locked, Holds, Recorded,
      RecordTypes, InstanceTypes, CallTypes
<1>5. ASSUME NEW c \in Call, ResumeBegin(c) PROVE Served'
  BY <1>5, TypeParts, Turns
  DEF ResumeBegin, Resumable, Goto, Return, Mailbox, Served, Quiet, Closed, Locked, Holds,
      Recorded, RecordTypes, InstanceTypes, CallTypes
<1>6. ASSUME NEW c \in Call, ResumeTask(c) PROVE Served'
  BY <1>6, TypeParts, Turns
  DEF ResumeTask, Resumable, EnsureAgentLocked, Goto, Return, Mailbox, Served, Quiet, Closed,
      Locked, Holds, Recorded, RecordTypes, InstanceTypes, CallTypes
<1>7. ASSUME NEW c \in Call, CancelCall(c) PROVE Served'
  BY <1>7, TypeParts, Turns
  DEF CancelCall, Goto, Mailbox, Served, Quiet, Closed, Locked, Holds, Recorded, RecordTypes,
      InstanceTypes, CallTypes
<1>8. ASSUME NEW c \in Call, PromoteTask(c) PROVE Served'
  BY <1>8, TypeParts, Turns
  DEF PromoteTask, Goto, Mailbox, Served, Quiet, Closed, Locked, Holds, Recorded, RecordTypes,
      InstanceTypes, CallTypes
<1>9. ASSUME NEW c \in Call, WaitRunDone(c) PROVE Served'
  BY <1>9, TypeParts, Turns
  DEF WaitRunDone, Goto, Mailbox, Served, Quiet, Closed, Locked, Holds, Recorded, RecordTypes,
      InstanceTypes, CallTypes
<1>10. ASSUME NEW c \in Call, WaitLifecycle(c) PROVE Served'
  BY <1>10, TypeParts, Turns
  DEF WaitLifecycle, Goto, Mailbox, Served, Quiet, Closed, Locked, Holds, Recorded, RecordTypes,
      InstanceTypes, CallTypes
<1>11. ASSUME NEW c \in Call, WaitPublication(c) PROVE Served'
  BY <1>11, TypeParts, Turns
  DEF WaitPublication, LoadFence, Publishing, Goto, Mailbox, Served, Quiet, Closed, Locked, Holds,
      Recorded, RecordTypes, InstanceTypes, CallTypes
<1>12. ASSUME NEW c \in Call, RegisterBegin(c) PROVE Served'
  BY <1>12, TypeParts, Turns
  DEF RegisterBegin, Goto, Return, Mailbox, Served, Quiet, Closed, Locked, Holds, Recorded,
      RecordTypes, InstanceTypes, CallTypes
<1>13. ASSUME NEW c \in Call, RegisterScope(c) PROVE Served'
  BY <1>13, TypeParts, Turns
  DEF RegisterScope, Goto, Mailbox, Served, Quiet, Closed, Locked, Holds, Recorded, RecordTypes,
      InstanceTypes, CallTypes
<1>14. ASSUME NEW c \in Call, RegisterStore(c) PROVE Served'
  BY <1>14, TypeParts, Turns
  DEF RegisterStore, Publication, Goto, Return, Mailbox, Served, Quiet, Closed, Locked, Holds,
      Recorded, RecordTypes, InstanceTypes, CallTypes
<1>15. ASSUME NEW c \in Call, RegisterDone(c) PROVE Served'
  BY <1>15, TypeParts, Turns
  DEF RegisterDone, Goto, Return, Mailbox, Served, Quiet, Closed, Locked, Holds, Recorded,
      RecordTypes, InstanceTypes, CallTypes
<1>16. ASSUME NEW p \in Publisher, ClaimTaskCompletion(p) PROVE Served'
  BY <1>16, TypeParts, Turns
  DEF ClaimTaskCompletion, Advance, FirstClaim, Publication, NoPublication, Mailbox, Served, Quiet,
      Closed, Locked, Holds, Recorded, RecordTypes, InstanceTypes, CallTypes
<1>17. ASSUME NEW p \in Publisher, PublishTaskCompleted(p) PROVE Served'
  BY <1>17, TypeParts, Turns
  DEF PublishTaskCompleted, Advance, Publication, NoPublication, Mailbox, Served, Quiet, Closed,
      Locked, Holds, Recorded, RecordTypes, InstanceTypes, CallTypes
<1>18. ASSUME NEW p \in Publisher, AcceptTaskDelivery(p) PROVE Served'
  BY <1>18, TypeParts, Turns
  DEF AcceptTaskDelivery, Advance, Publication, NoPublication, Mailbox, Served, Quiet, Closed,
      Locked, Holds, Recorded, RecordTypes, InstanceTypes, CallTypes
<1>19. ASSUME NEW p \in Publisher, ClearTaskDelivery(p) PROVE Served'
  BY <1>19, TypeParts, Turns
  DEF ClearTaskDelivery, Advance, Publication, NoPublication, Mailbox, Served, Quiet, Closed,
      Locked, Holds, Recorded, RecordTypes, InstanceTypes, CallTypes
<1>20. ASSUME NEW p \in Publisher, UnmarkTaskExecution(p) PROVE Served'
  BY <1>20, TypeParts, Turns
  DEF UnmarkTaskExecution, Advance, Publication, NoPublication, SignalChanged, Mailbox, Served,
      Quiet, Closed, Locked, Holds, Recorded, RecordTypes, InstanceTypes, CallTypes
<1>21. ASSUME NEW t \in Turn, StartTurn(t) PROVE Served'
  BY <1>21, TypeParts, Turns
  DEF StartTurn, MayStart, StartTurnLocked, SignalChanged, AfterStart, TurnOver, Goto, Return,
      Mailbox, Served, Quiet, Closed, Locked, Holds, Recorded, RecordTypes, InstanceTypes,
      CallTypes
<1>22. ASSUME NEW t \in Turn, RunEnds(t) PROVE Served'
  BY <1>22, TypeParts, Turns
  DEF RunEnds, Mailbox, Served, Quiet, Closed, Locked, Holds, Recorded, RecordTypes, InstanceTypes,
      CallTypes
<1>23. ASSUME NEW t \in Turn, MonitorEvent(t) PROVE Served'
  BY <1>23, TypeParts, Turns
  DEF MonitorEvent, SignalChanged, Mailbox, Served, Quiet, Closed, Locked, Holds, Recorded,
      RecordTypes, InstanceTypes, CallTypes
<1>24. ASSUME NEW t \in Turn, MonitorFold(t) PROVE Served'
  BY <1>24, TypeParts, Turns
  DEF MonitorFold, TurnOver, SignalChanged, TerminalPublication, Publication, NoPublication,
      Mailbox, Served, Quiet, Closed, Locked, Holds, Recorded, RecordTypes, InstanceTypes,
      CallTypes
<1>25. ASSUME NEW t \in Turn, MonitorDequeue(t) PROVE Served'
  BY <1>25, TypeParts, Turns
  DEF MonitorDequeue, HasNext, Mailbox, Served, Quiet, Closed, Locked, Holds, Recorded,
      RecordTypes, InstanceTypes, CallTypes
<1>26. ASSUME NEW t \in Turn, MonitorNext(t) PROVE Served'
  BY <1>26, TypeParts, Turns
  DEF MonitorNext, Mailbox, Served, Quiet, Closed, Locked, Holds, Recorded, RecordTypes,
      InstanceTypes, CallTypes
<1>27. ASSUME NEW m \in Message, Send(m) PROVE Served'
  BY <1>27, TypeParts, Turns
  DEF Send, Enqueue, SignalChanged, EnsureAgentLocked, Mailbox, Served, Quiet, Closed, Locked,
      Holds, Recorded, RecordTypes, InstanceTypes, CallTypes
<1>28. ASSUME CloseRecord PROVE Served'
  BY <1>28, TypeParts, Turns
  DEF CloseRecord, Mailbox, Served, Quiet, Closed, Locked, Holds, Recorded, RecordTypes,
      InstanceTypes, CallTypes
<1>29. ASSUME CloseFinish PROVE Served'
  BY <1>29, TypeParts, Turns
  DEF CloseFinish, SignalChanged, Mailbox, Served, Quiet, Closed, Locked, Holds, Recorded,
      RecordTypes, InstanceTypes, CallTypes
<1>30. ASSUME ShutdownBegin PROVE Served'
  BY <1>30, TypeParts, Turns
  DEF ShutdownBegin, Shutdown, Mailbox, Served, Quiet, Closed, Locked, Holds, Recorded,
      RecordTypes, InstanceTypes, CallTypes
<1>31. ASSUME RetainForShutdown PROVE Served'
  BY <1>31, TypeParts, Turns
  DEF RetainForShutdown, Shutdown, RetainRecord, TurnOver, Mailbox, Served, Quiet, Closed, Locked,
      Holds, Recorded, RecordTypes, InstanceTypes, CallTypes
<1>32. ASSUME ReleaseAgent PROVE Served'
  BY <1>32, TypeParts, Turns
  DEF ReleaseAgent, Shutdown, Mailbox, Served, Quiet, Closed, Locked, Holds, Recorded, RecordTypes,
      InstanceTypes, CallTypes
<1>33. ASSUME ShutdownSignal PROVE Served'
  BY <1>33, TypeParts, Turns
  DEF ShutdownSignal, Shutdown, SignalChanged, Mailbox, Served, Quiet, Closed, Locked, Holds,
      Recorded, RecordTypes, InstanceTypes, CallTypes
<1>34. ASSUME ShutdownCancel PROVE Served'
  BY <1>34, TypeParts, Turns
  DEF ShutdownCancel, Shutdown, Mailbox, Served, Quiet, Closed, Locked, Holds, Recorded,
      RecordTypes, InstanceTypes, CallTypes
<1>35. ASSUME ShutdownWait PROVE Served'
  BY <1>35, TypeParts, Turns
  DEF ShutdownWait, Shutdown, Mailbox, Served, Quiet, Closed, Locked, Holds, Recorded, RecordTypes,
      InstanceTypes, CallTypes
<1>36. CASE UNCHANGED vars
  BY <1>36, TypeParts, Turns
  DEF vars, Mailbox, Served, Quiet, Closed, Locked, Holds, Recorded, RecordTypes, InstanceTypes,
      CallTypes
<1> QED
  BY <1>1, <1>2, <1>3, <1>4, <1>5, <1>6, <1>7, <1>8, <1>9, <1>10, <1>11, <1>12, <1>13, <1>14, <1>15, <1>16,
     <1>17, <1>18, <1>19, <1>20, <1>21, <1>22, <1>23, <1>24, <1>25, <1>26, <1>27, <1>28, <1>29, <1>30, <1>31,
     <1>32, <1>33, <1>34, <1>35, <1>36, Zenon
  DEF Next, StartStep, CallProgress, MonitorProgress, Publish, CloseAgent

MailboxAlone ==
  /\ UNCHANGED <<started, pending, sent>> /\ Hand' = Hand
  /\ status' = "closed" \/ status' = status \/ status # "closed"

\* What leaves the mailbox alone keeps its order ...
LEMMA OrderKept ==
  ASSUME Ordered, MailboxAlone
  PROVE  Ordered'
<1>1. Line' = Line BY DEF Line, MailboxAlone
<1>2. sent' = sent BY DEF MailboxAlone
<1> QED BY <1>1, <1>2 DEF Ordered, MailboxAlone

\* ... and so does what closes the task and drops the mailbox.
LEMMA OrderCut ==
  ASSUME TypeOK, Ordered, UNCHANGED <<started, sent>>, Hand' = <<>>, Hand = <<>>, pending' = <<>>, status' = "closed"
  PROVE  Ordered'
<1>1. started \in Seq(Message) /\ sent \in Seq(Message) /\ pending \in Seq(Message)
  BY TypeParts DEF RecordTypes, OutsideTypes
<1>2. Line = Row(started, <<>>, pending) /\ Line' = Row(started, <<>>, <<>>) BY DEF Line
<1>3. Row(started, <<>>, pending) = started \o pending /\ Row(started, <<>>, <<>>) = started
  BY <1>1, RowType, Zenon
<1>4. Prefix(started \o pending, sent) BY <1>2, <1>3 DEF Ordered
<1>5. Prefix(started, sent) BY <1>1, <1>4, PrefixCut, Zenon
<1>6. Line' = started /\ sent' = sent BY <1>2, <1>3
<1> QED BY <1>5, <1>6 DEF Ordered

\* Messages keep the order they were sent in.
LEMMA OrderedNext ==
  ASSUME TypeOK, Locked, Recorded, Mailbox, Quiet', Quiet, [Next]_vars
  PROVE  Ordered'
<1>0. Ordered /\ Served BY DEF Mailbox
<1>1. ASSUME CreateTask PROVE Ordered'
  <2>1. MailboxAlone
    BY <1>1, TypeParts, Turns
    DEF MailboxAlone, CreateTask, Goto, Return, Hand, Locked, Holds, Recorded, RecordTypes,
        InstanceTypes, CallTypes
  <2> QED BY <1>0, <2>1, OrderKept
<1>2. ASSUME StartCreated PROVE Ordered'
  <2>1. CASE status' = "closed" /\ pending' = <<>>
    <3>1. UNCHANGED <<started, sent, instanceMu>> /\ instanceMu = None BY <1>2 DEF StartCreated
    <3> QED BY <1>0, <2>1, <3>1, OrderCut DEF Hand
  <2>2. CASE UNCHANGED <<status, pending>>
    <3>1. UNCHANGED <<started, sent, instanceMu>> /\ instanceMu = None BY <1>2 DEF StartCreated
    <3> QED BY <1>0, <2>2, <3>1, OrderKept DEF Hand, MailboxAlone
  <2> QED BY <1>2, <2>1, <2>2 DEF StartCreated
<1>3. ASSUME ReadStarted PROVE Ordered'
  <2>1. MailboxAlone
    BY <1>3, TypeParts, Turns
    DEF MailboxAlone, ReadStarted, Goto, Hand, Locked, Holds, Recorded, RecordTypes, InstanceTypes,
        CallTypes
  <2> QED BY <1>0, <2>1, OrderKept
<1>4. ASSUME AdoptRun PROVE Ordered'
  <2>1. MailboxAlone
    BY <1>4, TypeParts, Turns
    DEF MailboxAlone, AdoptRun, AfterStart, Goto, Return, Hand, Locked, Holds, Recorded,
        RecordTypes, InstanceTypes, CallTypes
  <2> QED BY <1>0, <2>1, OrderKept
<1>5. ASSUME NEW c \in Call, ResumeBegin(c) PROVE Ordered'
  <2>1. MailboxAlone
    BY <1>5, TypeParts, Turns
    DEF MailboxAlone, ResumeBegin, Resumable, Goto, Return, Hand, Locked, Holds, Recorded,
        RecordTypes, InstanceTypes, CallTypes
  <2> QED BY <1>0, <2>1, OrderKept
<1>6. ASSUME NEW c \in Call, ResumeTask(c) PROVE Ordered'
  <2>1. MailboxAlone
    BY <1>6, TypeParts, Turns
    DEF MailboxAlone, ResumeTask, Resumable, EnsureAgentLocked, Goto, Return, Hand, Locked, Holds,
        Recorded, RecordTypes, InstanceTypes, CallTypes
  <2> QED BY <1>0, <2>1, OrderKept
<1>7. ASSUME NEW c \in Call, CancelCall(c) PROVE Ordered'
  <2>1. MailboxAlone
    BY <1>7, TypeParts, Turns
    DEF MailboxAlone, CancelCall, Goto, Hand, Locked, Holds, Recorded, RecordTypes, InstanceTypes,
        CallTypes
  <2> QED BY <1>0, <2>1, OrderKept
<1>8. ASSUME NEW c \in Call, PromoteTask(c) PROVE Ordered'
  <2>1. MailboxAlone
    BY <1>8, TypeParts, Turns
    DEF MailboxAlone, PromoteTask, Goto, Hand, Locked, Holds, Recorded, RecordTypes, InstanceTypes,
        CallTypes
  <2> QED BY <1>0, <2>1, OrderKept
<1>9. ASSUME NEW c \in Call, WaitRunDone(c) PROVE Ordered'
  <2>1. MailboxAlone
    BY <1>9, TypeParts, Turns
    DEF MailboxAlone, WaitRunDone, Goto, Hand, Locked, Holds, Recorded, RecordTypes, InstanceTypes,
        CallTypes
  <2> QED BY <1>0, <2>1, OrderKept
<1>10. ASSUME NEW c \in Call, WaitLifecycle(c) PROVE Ordered'
  <2>1. MailboxAlone
    BY <1>10, TypeParts, Turns
    DEF MailboxAlone, WaitLifecycle, Goto, Hand, Locked, Holds, Recorded, RecordTypes,
        InstanceTypes, CallTypes
  <2> QED BY <1>0, <2>1, OrderKept
<1>11. ASSUME NEW c \in Call, WaitPublication(c) PROVE Ordered'
  <2>1. MailboxAlone
    BY <1>11, TypeParts, Turns
    DEF MailboxAlone, WaitPublication, LoadFence, Publishing, Goto, Hand, Locked, Holds, Recorded,
        RecordTypes, InstanceTypes, CallTypes
  <2> QED BY <1>0, <2>1, OrderKept
<1>12. ASSUME NEW c \in Call, RegisterBegin(c) PROVE Ordered'
  <2>1. MailboxAlone
    BY <1>12, TypeParts, Turns
    DEF MailboxAlone, RegisterBegin, Goto, Return, Hand, Locked, Holds, Recorded, RecordTypes,
        InstanceTypes, CallTypes
  <2> QED BY <1>0, <2>1, OrderKept
<1>13. ASSUME NEW c \in Call, RegisterScope(c) PROVE Ordered'
  <2>1. MailboxAlone
    BY <1>13, TypeParts, Turns
    DEF MailboxAlone, RegisterScope, Goto, Hand, Locked, Holds, Recorded, RecordTypes,
        InstanceTypes, CallTypes
  <2> QED BY <1>0, <2>1, OrderKept
<1>14. ASSUME NEW c \in Call, RegisterStore(c) PROVE Ordered'
  <2>1. MailboxAlone
    BY <1>14, TypeParts, Turns
    DEF MailboxAlone, RegisterStore, Publication, Goto, Return, Hand, Locked, Holds, Recorded,
        RecordTypes, InstanceTypes, CallTypes
  <2> QED BY <1>0, <2>1, OrderKept
<1>15. ASSUME NEW c \in Call, RegisterDone(c) PROVE Ordered'
  <2>1. MailboxAlone
    BY <1>15, TypeParts, Turns
    DEF MailboxAlone, RegisterDone, Goto, Return, Hand, Locked, Holds, Recorded, RecordTypes,
        InstanceTypes, CallTypes
  <2> QED BY <1>0, <2>1, OrderKept
<1>16. ASSUME NEW p \in Publisher, ClaimTaskCompletion(p) PROVE Ordered'
  <2>1. MailboxAlone
    BY <1>16, TypeParts, Turns
    DEF MailboxAlone, ClaimTaskCompletion, Advance, FirstClaim, Publication, NoPublication, Hand,
        Locked, Holds, Recorded, RecordTypes, InstanceTypes, CallTypes
  <2> QED BY <1>0, <2>1, OrderKept
<1>17. ASSUME NEW p \in Publisher, PublishTaskCompleted(p) PROVE Ordered'
  <2>1. MailboxAlone
    BY <1>17, TypeParts, Turns
    DEF MailboxAlone, PublishTaskCompleted, Advance, Publication, NoPublication, Hand, Locked,
        Holds, Recorded, RecordTypes, InstanceTypes, CallTypes
  <2> QED BY <1>0, <2>1, OrderKept
<1>18. ASSUME NEW p \in Publisher, AcceptTaskDelivery(p) PROVE Ordered'
  <2>1. MailboxAlone
    BY <1>18, TypeParts, Turns
    DEF MailboxAlone, AcceptTaskDelivery, Advance, Publication, NoPublication, Hand, Locked, Holds,
        Recorded, RecordTypes, InstanceTypes, CallTypes
  <2> QED BY <1>0, <2>1, OrderKept
<1>19. ASSUME NEW p \in Publisher, ClearTaskDelivery(p) PROVE Ordered'
  <2>1. MailboxAlone
    BY <1>19, TypeParts, Turns
    DEF MailboxAlone, ClearTaskDelivery, Advance, Publication, NoPublication, Hand, Locked, Holds,
        Recorded, RecordTypes, InstanceTypes, CallTypes
  <2> QED BY <1>0, <2>1, OrderKept
<1>20. ASSUME NEW p \in Publisher, UnmarkTaskExecution(p) PROVE Ordered'
  <2>1. MailboxAlone
    BY <1>20, TypeParts, Turns
    DEF MailboxAlone, UnmarkTaskExecution, Advance, Publication, NoPublication, SignalChanged,
        Hand, Locked, Holds, Recorded, RecordTypes, InstanceTypes, CallTypes
  <2> QED BY <1>0, <2>1, OrderKept
<1>21. ASSUME NEW t \in Turn, StartTurn(t) PROVE Ordered'
  <2>1. UNCHANGED <<started, pending, sent>> /\ instanceMu = t /\ run[t] = "none" /\ instanceMu' = None
    BY <1>21 DEF StartTurn
  <2>2. monitor[t] \notin Holds BY <2>1 DEF Locked, Holds
  <2>3. Hand = <<>> /\ Hand' = <<>> BY <2>1, <2>2 DEF Hand, Holds
  <2>4. status = "running" BY <1>0, <2>1, <2>2, Turns DEF Served
  <2> QED BY <1>0, <2>1, <2>3, <2>4, OrderKept DEF MailboxAlone
<1>22. ASSUME NEW t \in Turn, RunEnds(t) PROVE Ordered'
  <2>1. MailboxAlone
    BY <1>22, TypeParts, Turns
    DEF MailboxAlone, RunEnds, Hand, Locked, Holds, Recorded, RecordTypes, InstanceTypes, CallTypes
  <2> QED BY <1>0, <2>1, OrderKept
<1>23. ASSUME NEW t \in Turn, MonitorEvent(t) PROVE Ordered'
  <2>1. MailboxAlone
    BY <1>23, TypeParts, Turns
    DEF MailboxAlone, MonitorEvent, SignalChanged, Hand, Locked, Holds, Recorded, RecordTypes,
        InstanceTypes, CallTypes
  <2> QED BY <1>0, <2>1, OrderKept
<1>24. ASSUME NEW t \in Turn, MonitorFold(t) PROVE Ordered'
  <2>1. MailboxAlone
    BY <1>24, TypeParts, Turns, ZenonT(40)
    DEF MailboxAlone, MonitorFold, TurnOver, SignalChanged, TerminalPublication, Publication,
        NoPublication, Hand, Locked, Holds, Recorded, RecordTypes, InstanceTypes, CallTypes
  <2> QED BY <1>0, <2>1, OrderKept
<1>25. ASSUME NEW t \in Turn, MonitorDequeue(t) PROVE Ordered'
  <2>0. started \in Seq(Message) /\ sent \in Seq(Message) /\ pending \in Seq(Message)
    BY TypeParts DEF RecordTypes, OutsideTypes
  
  <2>1. UNCHANGED <<started, sent, status>> /\ monitor[t] = "publishing" BY <1>25
     DEF MonitorDequeue
  <2>2. instanceMu = t /\ t # None /\ Hand = <<>> BY <2>1, Turns DEF Locked, Holds, Hand
  <2>3. CASE pending # <<>> /\ next' = Head(pending) /\ pending' = Tail(pending)
             /\ monitor' = [monitor EXCEPT ![t] = "startNext"] /\ instanceMu' = instanceMu
    <3>1. Hand' = <<Head(pending)>> BY <2>2, <2>3, TypeParts DEF Hand, InstanceTypes
    <3>2. Line' = Row(started, <<Head(pending)>>, Tail(pending)) /\ Line = Row(started, <<>>, pending)
      BY <2>1, <2>2, <2>3, <3>1 DEF Line
    <3>3. Line' = Line BY <2>0, <2>3, <3>2, RowTake, Zenon
    <3> QED BY <1>0, <2>1, <3>3 DEF Ordered
  <2>4. CASE instanceMu' = None /\ UNCHANGED pending
    <3>1. Hand' = <<>> BY <2>4 DEF Hand
    <3> QED BY <1>0, <2>1, <2>2, <2>4, <3>1, OrderKept DEF MailboxAlone
  <2> QED BY <1>25, <2>3, <2>4 DEF MonitorDequeue, HasNext
<1>26. ASSUME NEW t \in Turn, MonitorNext(t) PROVE Ordered'
  <2>0. started \in Seq(Message) /\ sent \in Seq(Message) /\ pending \in Seq(Message)
    BY TypeParts DEF RecordTypes, OutsideTypes
  
  <2>1. UNCHANGED <<pending, sent>> /\ monitor[t] = "startNext" /\ started' = Append(started, next)
        /\ monitor' = [monitor EXCEPT ![t] = "over"] /\ (status' = "running" \/ "store" \in faults)
        /\ (instanceMu' = next \/ instanceMu' = None)
    BY <1>26 DEF MonitorNext
  <2>2. instanceMu = t /\ t # None /\ next \in Message /\ status = "idle" BY <2>1, Turns DEF Locked, Holds
  <2>3. Hand = <<next>> BY <2>1, <2>2 DEF Hand
  <2>4. Hand' = <<>>
    <3>1. next \in Turn /\ monitor \in [Turn -> MonitorStep] BY <2>2, Turns, TypeParts DEF InstanceTypes
    <3>2. monitor[next] = "startNext" => next = t BY <2>2, <3>1 DEF Locked, Holds
    <3>3. monitor'[next] # "startNext" BY <2>1, <3>1, <3>2
    <3> QED BY <2>1, <3>3 DEF Hand
  <2>5. Line' = Row(Append(started, next), <<>>, pending) /\ Line = Row(started, <<next>>, pending)
    BY <2>1, <2>3, <2>4 DEF Line
  <2>6. Line' = Line BY <2>0, <2>2, <2>5, RowStart, Zenon
  <2>7. Prefix(Line', sent') /\ sent' = Line' BY <1>0, <2>1, <2>2, <2>6 DEF Ordered
  <2> QED BY <2>7 DEF Ordered
<1>27. ASSUME NEW m \in Message, Send(m) PROVE Ordered'
  <2>0. started \in Seq(Message) /\ sent \in Seq(Message) /\ pending \in Seq(Message)
    BY TypeParts DEF RecordTypes, OutsideTypes
  
  <2>1. instanceMu = None /\ sent' = Append(sent, m) /\ status # "none" /\ monitor' = monitor /\ next' = next
    BY <1>27 DEF Send
  <2>2. Hand = <<>> /\ Line = Row(started, <<>>, pending) BY <2>1 DEF Hand, Line
  <2>3. Line \in Seq(Message) BY <2>0, <2>2, RowType, Zenon
  <2>4. CASE status = "running" /\ pending' = Append(pending, m) /\ UNCHANGED <<status, instanceMu, started>>
    <3>1. Line' = Row(started, <<>>, Append(pending, m)) BY <2>1, <2>4 DEF Hand, Line
    <3>2. Line' = Append(Line, m)
      <4>1. Row(started, <<>>, Append(pending, m)) = Append(Row(started, <<>>, pending), m) BY <2>0, RowQueue
      <4> QED BY <2>2, <3>1, <4>1
    <3>3. sent = Line BY <1>0, <2>4 DEF Ordered
    <3>4. sent' = Line' /\ sent' \in Seq(Message) BY <2>0, <2>1, <3>2, <3>3
    <3> QED BY <3>4, PrefixSelf DEF Ordered
  <2>5. CASE status = "idle" /\ status' = "running" /\ instanceMu' = m /\ started' = Append(started, m) /\
            UNCHANGED pending
    <3>1. pending = <<>> BY <1>0, <2>1, <2>5 DEF Served
    <3>2. Hand' = <<>>
      <4>1. monitor[m] # "startNext" BY <2>1, Turns DEF Locked, Holds
      <4> QED BY <2>1, <2>5, <4>1 DEF Hand
    <3>3. Line' = Row(Append(started, m), <<>>, pending) BY <2>5, <3>2 DEF Line
    <3>4. Line' = Append(Line, m)
      <4>1. Append(started, m) \in Seq(Message) BY <2>0
      <4>2. Line' = Append(started, m) BY <3>1, <3>3, <4>1, RowType, Zenon
      <4>3. Line = started BY <2>0, <2>2, <3>1, RowType, Zenon
      <4> QED BY <4>2, <4>3
    <3>5. sent = Line BY <1>0, <2>5 DEF Ordered
    <3>6. sent' = Line' /\ sent' \in Seq(Message) BY <2>0, <2>1, <3>4, <3>5
    <3> QED BY <3>6, PrefixSelf DEF Ordered
  <2>6. CASE status = "closed" /\ UNCHANGED <<status, pending, instanceMu, started>>
    <3>1. Line' = Line BY <2>1, <2>6 DEF Hand, Line
    <3>2. Prefix(Line, Append(sent, m)) BY <1>0, <2>0, <2>3, PrefixAppend DEF Ordered
    <3> QED BY <2>1, <2>6, <3>1, <3>2 DEF Ordered
  <2> QED BY <1>27, <2>4, <2>5, <2>6 DEF Send, Enqueue, Quiet
<1>28. ASSUME CloseRecord PROVE Ordered'
  <2>1. UNCHANGED <<started, sent, instanceMu>> /\ instanceMu = None /\ pending' = <<>> /\ status' = "closed"
    BY <1>28 DEF CloseRecord
  <2> QED BY <1>0, <2>1, OrderCut DEF Hand
<1>29. ASSUME CloseFinish PROVE Ordered'
  <2>1. MailboxAlone
    BY <1>29, TypeParts, Turns
    DEF MailboxAlone, CloseFinish, SignalChanged, Hand, Locked, Holds, Recorded, RecordTypes,
        InstanceTypes, CallTypes
  <2> QED BY <1>0, <2>1, OrderKept
<1>30. ASSUME ShutdownBegin PROVE Ordered'
  <2>1. MailboxAlone
    BY <1>30, TypeParts, Turns
    DEF MailboxAlone, ShutdownBegin, Shutdown, Hand, Locked, Holds, Recorded, RecordTypes,
        InstanceTypes, CallTypes
  <2> QED BY <1>0, <2>1, OrderKept
<1>31. ASSUME RetainForShutdown PROVE Ordered'
  <2>1. MailboxAlone
    BY <1>31, TypeParts, Turns
    DEF MailboxAlone, RetainForShutdown, Shutdown, RetainRecord, TurnOver, Hand, Locked, Holds,
        Recorded, RecordTypes, InstanceTypes, CallTypes
  <2> QED BY <1>0, <2>1, OrderKept
<1>32. ASSUME ReleaseAgent PROVE Ordered'
  <2>1. MailboxAlone
    BY <1>32, TypeParts, Turns
    DEF MailboxAlone, ReleaseAgent, Shutdown, Hand, Locked, Holds, Recorded, RecordTypes,
        InstanceTypes, CallTypes
  <2> QED BY <1>0, <2>1, OrderKept
<1>33. ASSUME ShutdownSignal PROVE Ordered'
  <2>1. MailboxAlone
    BY <1>33, TypeParts, Turns
    DEF MailboxAlone, ShutdownSignal, Shutdown, SignalChanged, Hand, Locked, Holds, Recorded,
        RecordTypes, InstanceTypes, CallTypes
  <2> QED BY <1>0, <2>1, OrderKept
<1>34. ASSUME ShutdownCancel PROVE Ordered'
  <2>1. MailboxAlone
    BY <1>34, TypeParts, Turns
    DEF MailboxAlone, ShutdownCancel, Shutdown, Hand, Locked, Holds, Recorded, RecordTypes,
        InstanceTypes, CallTypes
  <2> QED BY <1>0, <2>1, OrderKept
<1>35. ASSUME ShutdownWait PROVE Ordered'
  <2>1. MailboxAlone
    BY <1>35, TypeParts, Turns
    DEF MailboxAlone, ShutdownWait, Shutdown, Hand, Locked, Holds, Recorded, RecordTypes,
        InstanceTypes, CallTypes
  <2> QED BY <1>0, <2>1, OrderKept
<1>36. CASE UNCHANGED vars
  <2>1. MailboxAlone
    BY <1>36, TypeParts, Turns
    DEF MailboxAlone, vars, Hand, Locked, Holds, Recorded, RecordTypes, InstanceTypes, CallTypes
  <2> QED BY <1>0, <2>1, OrderKept
<1> QED
  BY <1>1, <1>2, <1>3, <1>4, <1>5, <1>6, <1>7, <1>8, <1>9, <1>10, <1>11, <1>12, <1>13, <1>14, <1>15, <1>16,
     <1>17, <1>18, <1>19, <1>20, <1>21, <1>22, <1>23, <1>24, <1>25, <1>26, <1>27, <1>28, <1>29, <1>30, <1>31,
     <1>32, <1>33, <1>34, <1>35, <1>36, Zenon
  DEF Next, StartStep, CallProgress, MonitorProgress, Publish, CloseAgent

\* Every step keeps the mailbox.
LEMMA MailboxNext ==
  ASSUME TypeOK, Locked, Recorded, Mailbox, [Next]_vars
  PROVE  Mailbox'
BY QuietKept, ServedNext, OrderedNext DEF Mailbox

-----------------------------------------------------------------------------
(* The theorems. *)

TaskInv == TypeOK /\ Locked /\ Recorded /\ Called /\ Claims /\ Fenced /\ Retained /\ Mailbox

\* A task nobody has created.
LEMMA InitTypes == Init => TypeOK
<1> SUFFICES ASSUME Init PROVE TypeOK OBVIOUS
<1>1. RecordTypes /\ InstanceTypes /\ ManagerTypes
  BY Turns, Queues DEF Init, RecordTypes, InstanceTypes, ManagerTypes, MonitorStep, ShutdownStep
<1>2. PubTypes
  <2>1. NoPublication \in Publications BY NoPublicationIs
  <2>2. pub = [p \in Publisher |-> NoPublication] BY DEF Init
  <2> QED BY <2>1, <2>2 DEF PubTypes
<1>3. CallTypes BY Turns, Steps DEF Init, CallTypes
<1>4. OutsideTypes BY DEF Init, OutsideTypes
<1> QED BY <1>1, <1>2, <1>3, <1>4, TypeParts

\* A task nobody has created satisfies the invariant.
LEMMA InitInv == Init => TaskInv
<1> SUFFICES ASSUME Init PROVE TaskInv OBVIOUS
<1>1. TypeOK BY InitTypes
<1>2. \A p \in Publisher : pub[p].step = "idle"
  <2>1. \A p \in Publisher : pub[p] = NoPublication BY DEF Init
  <2> QED BY <2>1, NoPublicationIs
<1>3. Locked
  <2>1. "monitor" \in Publisher /\ "registration" \in Publisher BY DEF Publisher
  <2>2. \A t \in Turn : run[t] = "none" /\ monitor[t] = "none" BY DEF Init
  <2>3. \A c \in Call : pc[c] = "idle" BY DEF Init
  <2>4. instanceMu = None BY DEF Init
  <2> QED BY <1>2, <2>1, <2>2, <2>3, <2>4, Turns DEF Locked, Holds
<1>4. Recorded BY DEF Init, Recorded
<1>5. Called BY Turns DEF Init, Called, CallInv, Waits, Registers
<1>6. /\ \A t : ~InCompleted(t) /\ ~InAccepted(t)
      /\ Once
  BY DEF Init, InCompleted, InAccepted, Once
<1>7. Claims
  <2>1. taskDeliverySeen = {} /\ activeDelivery = None BY DEF Init
  <2> QED BY <1>2, <1>6, <2>1 DEF Claims, Claimant
<1>8. Fenced BY DEF Init, Fenced, EventBeforeReturn, Waits
<1>9. Retained BY DEF Init, Retained, Closed
<1>10. Mailbox
  <2>1. Line = <<>> /\ sent = <<>>
    <3>1. Line = Row(<<>>, <<>>, <<>>) /\ sent = <<>> BY DEF Init, Line, Hand
    <3>2. PICK e \in Seq(Message) : e = <<>> BY Queues, Zenon
    <3>3. Row(e, <<>>, <<>>) = e BY <3>2, RowType, Zenon
    <3> QED BY <3>1, <3>2, <3>3
  <2>2. Prefix(Line, sent)
    <3>1. <<>> \in Seq(Message) OBVIOUS
    <3> QED BY <2>1, <3>1, PrefixSelf
  <2>3. Served BY Turns DEF Init, Served
  <2> QED BY <2>1, <2>2, <2>3 DEF Mailbox, Ordered
<1> QED BY <1>1, <1>3, <1>4, <1>5, <1>7, <1>8, <1>9, <1>10 DEF TaskInv

\* TaskInv is inductive.
THEOREM TaskInvariant == Spec => []TaskInv
<1>1. Init => TaskInv BY InitInv
<1>2. TaskInv /\ [Next]_vars => TaskInv'
  BY TypeNext, LockedNext, RecordedNext, CalledNext, ClaimsNext, FencedNext, RetainedNext, MailboxNext
  DEF TaskInv
<1> QED BY <1>1, <1>2, PTL DEF Spec

\* The record, the instance, the manager and the calls keep their types.
THEOREM TypeCorrect == Spec => []TypeOK
<1>1. TaskInv => TypeOK BY DEF TaskInv
<1> QED BY <1>1, TaskInvariant, PTL

\* Two calls never wait for the same turn.
LEMMA OneTurnEach ==
  ASSUME Called, NEW c \in Call, NEW d \in Call, turnOf[c] = turnOf[d], turnOf[c] # None
  PROVE  c = d
BY Turns DEF Called, CallInv

\* However many calls wait and however the registration and the monitor race,
\* a turn's completion is published once, its result is handed over once, and a
\* result returned in place is not handed over (publishTaskTerminal and
\* claimTaskCompletion).
THEOREM OneOwnerAlways == Spec => []OneOwner
<1>1. ASSUME TaskInv PROVE OneOwner
  <2>1. Once BY <1>1 DEF TaskInv, Claims
  <2>2. ASSUME NEW c \in Call, result[c] = "final", NEW i \in DOMAIN accepted, accepted[i].turn = turnOf[c]
        PROVE  FALSE
    <3>1. CallInv(c) /\ turnOf[c] # None BY <1>1, <2>2 DEF TaskInv, Called, CallInv
    <3>2. turnOf[c] \in Turn BY <1>1, <3>1, TypeParts, Turns DEF TaskInv, CallTypes
    <3>3. InAccepted(turnOf[c]) BY <2>2 DEF InAccepted
    <3>4. Registered(turnOf[c]) BY <1>1, <3>2, <3>3 DEF TaskInv, Claims
    <3>5. PICK d \in Call : turnOf[d] = turnOf[c] /\ (pc[d] = "publishing" \/ result[d] = "running")
      BY <3>4 DEF Registered
    <3>6. d = c BY <1>1, <3>1, <3>5, OneTurnEach DEF TaskInv
    <3> QED BY <2>2, <3>1, <3>5, <3>6 DEF CallInv
  <2> QED BY <2>1, <2>2 DEF OneOwner, Once
<1> QED BY <1>1, TaskInvariant, PTL

\* A foreground call returns after the TaskCompleted event of its turn, unless the
\* agent closes (waitForTaskCompletionPublication).
THEOREM FenceHolds == Spec => []EventBeforeReturn
<1>1. TaskInv => EventBeforeReturn BY DEF TaskInv, Fenced
<1> QED BY <1>1, TaskInvariant, PTL

\* The turns of messages start in the order of the Send calls, where nothing fails
\* and the agent is open (Send, monitor and startTurnLocked).
THEOREM MailboxKeepsOrder == Spec => []MailboxOrder
<1>1. ASSUME TaskInv PROVE MailboxOrder
  <2>1. SUFFICES ASSUME faults = {}, ~Closed PROVE Prefix(started, sent)
    <3>1. started \in Seq(Message) /\ sent \in Seq(Message) BY <1>1, TypeParts DEF TaskInv, OutsideTypes
    <3>2. Len(started) \in Nat /\ Len(sent) \in Nat /\ DOMAIN started = 1..Len(started) /\ DOMAIN sent = 1..Len(sent)
      BY <3>1
    <3> QED BY <3>2 DEF MailboxOrder, Prefix
  <2>2. started \in Seq(Message) /\ sent \in Seq(Message) /\ pending \in Seq(Message)
    BY <1>1, TypeParts DEF TaskInv, OutsideTypes, RecordTypes
  <2>3. Hand \in Seq(Message)
    <3>1. monitor[instanceMu] = "startNext" /\ instanceMu # None => next \in Message
      BY <1>1, TypeParts, Turns DEF TaskInv, Locked, InstanceTypes
    <3> QED BY <3>1 DEF Hand
  <2>4. Prefix(Line, sent) BY <1>1, <2>1 DEF TaskInv, Mailbox, Quiet, Ordered
  <2> DEFINE h == Hand
  <2>5. h \in Seq(Message) /\ Prefix((started \o h) \o pending, sent) BY <2>3, <2>4 DEF Line, Row
  <2> HIDE DEF h
  <2>6. started \o h \in Seq(Message) BY <2>2, <2>5, ConcatProperties
  <2>7. Prefix(started \o h, sent) BY <2>2, <2>5, <2>6, PrefixCut, Zenon
  <2> QED BY <2>2, <2>5, <2>7, PrefixCut, Zenon
<1> QED BY <1>1, TaskInvariant, PTL

\* Agent.Close leaves a record that is not running, once nobody is in the middle of
\* an operation on the task (retainForShutdown).
THEOREM RetainedStaysResumable == Spec => []RetainedResumable
<1>1. TaskInv => RetainedResumable BY DEF TaskInv, Retained, RetainedResumable
<1> QED BY <1>1, TaskInvariant, PTL
=============================================================================
