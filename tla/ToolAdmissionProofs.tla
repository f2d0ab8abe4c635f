------------------------ MODULE ToolAdmissionProofs ------------------------
(***************************************************************************)
(* What holds of the admission of tool calls and the routing of their      *)
(* prompts and results for every value of the constants.                   *)
(***************************************************************************)
EXTENDS ToolAdmission, FiniteSetTheorems, TLAPS

\* The names of groups of variables are expanded in every proof.
USE DEF approvals, runtime, executor, jobs, resolveOnly, past, loopOnly,
        channels, runOnly, workerOnly

-----------------------------------------------------------------------------
(* Calls, turns and sequences. *)

LEMMA CallOnce ==
  ASSUME NEW t \in Turn, NEW u \in Turn, NEW n \in DOMAIN Rounds[t], NEW m \in DOMAIN Rounds[u],
         NEW i \in DOMAIN Rounds[t][n], NEW j \in DOMAIN Rounds[u][m],
         Rounds[t][n][i] = Rounds[u][m][j]
  PROVE  t = u /\ n = m /\ i = j
<1>1. \A nn \in DOMAIN Rounds[t], mm \in DOMAIN Rounds[u] :
       \A ii \in DOMAIN Rounds[t][nn], jj \in DOMAIN Rounds[u][mm] :
         Rounds[t][nn][ii] = Rounds[u][mm][jj] => t = u /\ nn = mm /\ ii = jj
  BY RoundsAssumption, Zenon
<1> QED BY <1>1

\* Every call belongs to one turn.
LEMMA TurnOfCall ==
  /\ \A c \in Call : TurnOf(c) \in Turn /\ c \in CallsOf(TurnOf(c))
  /\ \A t \in Turn : \A c \in CallsOf(t) : c \in Call /\ TurnOf(c) = t
<1>1. \A t \in Turn : \A n \in DOMAIN Rounds[t] : Rounds[t][n] \in Seq(Call)
  BY RoundsAssumption
<1>2. \A t \in Turn : CallsOf(t) \subseteq Call
  BY ConstantsAssumption
<1>3. ASSUME NEW t \in Turn, NEW u \in Turn, NEW c, c \in CallsOf(t), c \in CallsOf(u)
      PROVE  t = u
  <2>1. PICK n \in DOMAIN Rounds[t] : c \in RoundCalls(t, n) BY <1>3 DEF CallsOf
  <2>2. PICK m \in DOMAIN Rounds[u] : c \in RoundCalls(u, m) BY <1>3 DEF CallsOf
  <2>3. PICK i \in DOMAIN Rounds[t][n] : c = Rounds[t][n][i]
    BY <1>1, <2>1 DEF RoundCalls, Items
  <2>4. PICK j \in DOMAIN Rounds[u][m] : c = Rounds[u][m][j]
    BY <1>1, <2>2 DEF RoundCalls, Items
  <2>5. Rounds[t][n][i] = Rounds[u][m][j] BY <2>3, <2>4
  <2> QED BY <2>5, CallOnce
<1>4. ASSUME NEW c \in Call PROVE TurnOf(c) \in Turn /\ c \in CallsOf(TurnOf(c))
  <2>1. \E t \in Turn : c \in CallsOf(t) BY ConstantsAssumption
  <2> QED BY <2>1 DEF TurnOf
<1> QED BY <1>2, <1>3, <1>4

LEMMA Element == ASSUME NEW S, NEW q \in Seq(S), NEW i \in 1..Len(q) PROVE q[i] \in S
OBVIOUS

LEMMA Concat ==
  ASSUME NEW S, NEW a \in Seq(S), NEW b \in Seq(S)
  PROVE  /\ a \o b \in Seq(S) /\ Len(a \o b) = Len(a) + Len(b)
         /\ DOMAIN (a \o b) = 1..(Len(a) + Len(b))
         /\ \A j \in 1..(Len(a) + Len(b)) :
              (a \o b)[j] = IF j <= Len(a) THEN a[j] ELSE b[j - Len(a)]
<1>1. a \o b \in Seq(S) OBVIOUS
<1>2. Len(a \o b) = Len(a) + Len(b) OBVIOUS
<1> QED BY <1>1, <1>2

LEMMA FunctionIsSeq ==
  ASSUME NEW S, NEW n \in Nat, NEW f \in [1..n -> S]
  PROVE  f \in Seq(S) /\ Len(f) = n /\ DOMAIN f = 1..n
OBVIOUS

LEMMA Appended ==
  ASSUME NEW S, NEW q \in Seq(S), NEW x \in S
  PROVE  /\ Append(q, x) \in Seq(S)
         /\ DOMAIN q = 1..Len(q) /\ Len(q) \in Nat
         /\ DOMAIN Append(q, x) = 1..(Len(q) + 1)
         /\ Append(q, x)[Len(q) + 1] = x
         /\ \A i \in 1..Len(q) : Append(q, x)[i] = q[i]
OBVIOUS

LEMMA Nested ==
  ASSUME NEW A, NEW B, NEW S, NEW f \in [A -> [B -> S]], NEW a \in A, NEW b \in B, NEW x \in S
  PROVE  /\ [f EXCEPT ![a][b] = x] \in [A -> [B -> S]]
         /\ \A k \in A, c \in B :
              [f EXCEPT ![a][b] = x][k][c] = IF k = a /\ c = b THEN x ELSE f[k][c]
OBVIOUS

LEMMA HeadTail ==
  ASSUME NEW S, NEW q \in Seq(S), q # <<>>
  PROVE  /\ Head(q) \in S /\ Tail(q) \in Seq(S)
         /\ 1 \in DOMAIN q /\ Head(q) = q[1]
         /\ DOMAIN Tail(q) = 1..(Len(q) - 1) /\ DOMAIN q = 1..Len(q)
         /\ \A i \in DOMAIN Tail(q) : i + 1 \in DOMAIN q /\ Tail(q)[i] = q[i + 1]
OBVIOUS

LEMMA Removed ==
  ASSUME NEW S, NEW q \in Seq(S), NEW i \in 1..Len(q)
  PROVE  /\ RemoveAt(q, i) \in Seq(S)
         /\ DOMAIN RemoveAt(q, i) = 1..(Len(q) - 1)
         /\ \A j \in 1..(Len(q) - 1) : RemoveAt(q, i)[j] = IF j < i THEN q[j] ELSE q[j + 1]
<1> DEFINE a == SubSeq(q, 1, i - 1)
           b == SubSeq(q, i + 1, Len(q))
<1>1. a \in Seq(S) /\ Len(a) = i - 1 /\ \A j \in 1..(i - 1) : a[j] = q[j]
  OBVIOUS
<1>2. b \in Seq(S) /\ Len(b) = Len(q) - i /\ \A j \in 1..(Len(q) - i) : b[j] = q[i + j]
  OBVIOUS
<1>3. RemoveAt(q, i) = a \o b BY DEF RemoveAt
<1> HIDE DEF a, b
<1>4. a \o b \in Seq(S) /\ DOMAIN (a \o b) = 1..(Len(a) + Len(b)) BY <1>1, <1>2, Concat
<1>5. \A j \in 1..(Len(a) + Len(b)) :
        (a \o b)[j] = IF j <= Len(a) THEN a[j] ELSE b[j - Len(a)]
  BY <1>1, <1>2, Concat
<1>6. Len(a) + Len(b) = Len(q) - 1 BY <1>1, <1>2
<1>7. ASSUME NEW j \in 1..(Len(q) - 1)
      PROVE  (a \o b)[j] = IF j < i THEN q[j] ELSE q[j + 1]
  <2>1. CASE j < i BY <1>1, <1>5, <1>6, <2>1
  <2>2. CASE ~(j < i)
    <3>1. j - (i - 1) \in 1..(Len(q) - i) /\ i + (j - (i - 1)) = j + 1 BY <2>2
    <3>2. (a \o b)[j] = b[j - (i - 1)] BY <1>1, <1>5, <1>6, <2>2, SMTT(20)
    <3> QED BY <1>2, <2>2, <3>1, <3>2
  <2> QED BY <2>1, <2>2
<1> QED BY <1>3, <1>4, <1>6, <1>7

-----------------------------------------------------------------------------
(* Types. *)

\* What the parts of the executor do to the variables of a call on its way.
CallTypes ==
  /\ results \in Seq(ToolResult)
  /\ prompts \in [Kinds -> Seq(Call)]
  /\ pending \in [Kinds -> SUBSET Call]
  /\ record \in [Kinds -> [Call -> RecordState]]
  /\ job \in [Call -> JobState]
  /\ pendingJobs \in Seq(Call)

LEMMA AnswerTypes ==
  ASSUME CallTypes, NEW c \in Call, NEW status \in Statuses, Answer(c, status)
  PROVE  /\ results' \in Seq(ToolResult)
         /\ UNCHANGED <<prompts, job, pendingJobs>>
<1>1. Result(c, status) \in ToolResult BY DEF Result, ToolResult
<1>2. results' = Append(results, Result(c, status)) BY DEF Answer, Send
<1>3. results \in Seq(ToolResult) BY DEF CallTypes
<1>4. results' \in Seq(ToolResult) BY <1>1, <1>2, <1>3
<1> QED BY <1>4 DEF Answer

LEMMA JobQueuedTypes ==
  ASSUME CallTypes, NEW c \in Call, newJob(c)
  PROVE  /\ job' \in [Call -> JobState]
         /\ pendingJobs' \in Seq(Call)
         /\ UNCHANGED <<results, prompts>>
BY DEF newJob, CallTypes, JobState

LEMMA PublishTypes ==
  ASSUME CallTypes, NEW c \in Call, NEW kind \in Kinds, NEW refusal \in Statuses,
         NEW rec \in [Kinds -> [Call -> RecordState]],
         NEW pend \in [Kinds -> SUBSET Call], Publish(kind, c, refusal, rec, pend)
  PROVE  CallTypes'
<1>1. CASE /\ record' = [rec EXCEPT ![kind][c] = "pending"]
           /\ pending' = [pend EXCEPT ![kind] = @ \cup {c}]
           /\ prompts' = [prompts EXCEPT ![kind] = Append(@, c)]
           /\ UNCHANGED <<results, job, pendingJobs>>
  BY <1>1 DEF CallTypes, RecordState
<1>2. CASE /\ record' = [rec EXCEPT ![kind][c] = "cancelled"]
           /\ pending' = pend
           /\ Answer(c, refusal)
  <2>1. /\ results' \in Seq(ToolResult)
        /\ UNCHANGED <<prompts, job, pendingJobs>>
    BY <1>2, AnswerTypes
  <2> QED BY <1>2, <2>1 DEF CallTypes, RecordState
<1> QED BY <1>1, <1>2 DEF Publish

LEMMA AdmitConfirmationTypes ==
  ASSUME CallTypes, NEW c \in Call,
         NEW rec \in [Kinds -> [Call -> RecordState]],
         NEW pend \in [Kinds -> SUBSET Call], admitConfirmation(c, rec, pend)
  PROVE  CallTypes'
<1>1. CASE newJob(c) /\ record' = rec /\ pending' = pend
  BY <1>1, JobQueuedTypes DEF CallTypes
<1>2. CASE Answer(c, "declined") /\ record' = rec /\ pending' = pend
  <2>1. "declined" \in Statuses BY DEF Statuses
  <2> QED BY <1>2, <2>1, AnswerTypes DEF CallTypes
<1>3. CASE Publish("confirmation", c, "failed", rec, pend)
  <2>1. "failed" \in Statuses /\ "confirmation" \in Kinds BY DEF Statuses, Kinds
  <2> QED BY <1>3, <2>1, PublishTypes
<1> QED BY <1>1, <1>2, <1>3 DEF admitConfirmation

LEMMA CallTypesOf == ASSUME TypeOK PROVE CallTypes
BY DEF TypeOK, ChannelTypes, ApprovalTypes, JobTypes, CallTypes

LEMMA TypeInit == ASSUME Init PROVE TypeOK
<1>1. ChannelTypes BY DEF Init, ChannelTypes, Kinds
<1>2. PolicyTypes BY ConstantsAssumption DEF Init, PolicyTypes, Snapshots
<1>3. ApprovalTypes BY DEF Init, ApprovalTypes, RecordState
<1>4. JobTypes
  <2>1. stopped \in BOOLEAN /\ ready \in BOOLEAN BY Zenon DEF Init
  <2>2. toolCalls \in 0..Limit BY ConstantsAssumption DEF Init
  <2> QED BY <2>1, <2>2 DEF Init, JobTypes, JobState
<1>5. RuntimeTypes
  <2>1. resolver \in [Resolver -> [at : {"idle"}] \cup UNION {Resolving(kind) : kind \in Kinds}]
    BY DEF Init
  <2> QED BY <2>1 DEF Init, RuntimeTypes, RoutedState
<1> QED BY <1>1, <1>2, <1>3, <1>4, <1>5 DEF TypeOK

LEMMA TypeAdmitDeferred ==
  ASSUME TypeOK, admitDeferredApproval
  PROVE  TypeOK'
<1>0. CallTypes BY CallTypesOf
<1>1. PICK i \in 1..Len(deferred) :
        /\ deferred' = RemoveAt(deferred, i)
        /\ \/ Answer(deferred[i].call, "denied") /\ UNCHANGED <<record, pending>>
           \/ Publish("permission", deferred[i].call, "denied", record, pending)
           \/ admitConfirmation(deferred[i].call, record, pending)
  BY DEF admitDeferredApproval
<1>2. deferred \in Seq(DeferredCall) BY DEF TypeOK, ApprovalTypes
<1>3. deferred' \in Seq(DeferredCall) /\ deferred[i].call \in Call
  <2>1. deferred[i] \in DeferredCall BY <1>2, Element
  <2> QED BY <1>1, <1>2, <2>1, Removed DEF DeferredCall
<1>4. CallTypes'
  <2>1. "denied" \in Statuses /\ "permission" \in Kinds BY DEF Statuses, Kinds
  <2>2. CASE Answer(deferred[i].call, "denied") /\ UNCHANGED <<record, pending>>
    BY <1>0, <1>3, <2>1, <2>2, AnswerTypes DEF CallTypes
  <2>3. CASE Publish("permission", deferred[i].call, "denied", record, pending)
    BY <1>0, <1>3, <2>1, <2>3, PublishTypes DEF CallTypes
  <2>4. CASE admitConfirmation(deferred[i].call, record, pending)
    BY <1>0, <1>3, <2>4, AdmitConfirmationTypes DEF CallTypes
  <2> QED BY <1>1, <2>2, <2>3, <2>4
<1>5. UNCHANGED <<requests, interrupts, decisions, policy, admission, grants,
                   toolCalls, cancelled, ready, stopped, runtime, past>>
  BY DEF admitDeferredApproval
<1> QED BY <1>3, <1>4, <1>5
       DEF CallTypes, TypeOK, ChannelTypes, PolicyTypes, ApprovalTypes, JobTypes, RuntimeTypes

LEMMA TypeReceive ==
  ASSUME TypeOK, ReceiveRequest
  PROVE  TypeOK'
<1>0. CallTypes BY CallTypesOf
<1> DEFINE c == Head(requests)
<1>1. c \in Call /\ requests' \in Seq(Call)
  BY DEF ReceiveRequest, TypeOK, ChannelTypes
<1>2. /\ admission' = [admission EXCEPT ![c] = policy]
      /\ late' \subseteq late \cup {c}
      /\ UNCHANGED <<interrupts, decisions, policy, pending, record, grants,
                 cancelled, ready, stopped, runtime, due, ran, taken>>
  BY DEF ReceiveRequest
<1>3. toolCalls' \in 0..Limit
  BY ConstantsAssumption DEF ReceiveRequest, Refused, TypeOK, JobTypes
<1>4. /\ deferred' \in Seq(DeferredCall)
      /\ \/ newJob(c) \/ UNCHANGED <<results, job, pendingJobs, prompts>>
         \/ \E status \in Statuses : Answer(c, status)
  <2>1. {"blocked", "skipped", "failed", "denied"} \subseteq Statuses BY DEF Statuses
  <2>2. deferred \in Seq(DeferredCall) BY DEF TypeOK, ApprovalTypes
  <2> HIDE DEF c
  <2>3. ASSUME NEW b \in BOOLEAN
        PROVE  Append(deferred, [call |-> c, ask |-> b]) \in Seq(DeferredCall)
    BY <1>1, <2>2 DEF DeferredCall
  <2>4. \/ newJob(c) /\ UNCHANGED deferred
        \/ \E status \in {"blocked", "skipped", "failed", "denied"} : Answer(c, status) /\ UNCHANGED deferred
        \/ /\ \E b \in BOOLEAN : deferred' = Append(deferred, [call |-> c, ask |-> b])
           /\ UNCHANGED <<results, job, pendingJobs, prompts>>
    BY DEF ReceiveRequest, c
  <2> QED BY <2>1, <2>2, <2>3, <2>4
<1> HIDE DEF c
<1>5. CallTypes'
  BY <1>0, <1>1, <1>2, <1>4, AnswerTypes, JobQueuedTypes DEF CallTypes
<1>6. admission' \in [Call -> Snapshots] /\ \A d \in Call : admission'[d].epoch <= policy.epoch
  BY <1>1, <1>2 DEF TypeOK, PolicyTypes, Snapshots
<1> QED BY <1>1, <1>2, <1>3, <1>4, <1>5, <1>6
       DEF CallTypes, TypeOK, ChannelTypes, PolicyTypes, ApprovalTypes, JobTypes, RuntimeTypes

LEMMA DecisionType ==
  ASSUME TypeOK, NEW kind \in Kinds, decisions[kind] # <<>>
  PROVE  /\ Decision(kind).call \in Call /\ Decision(kind).answer \in AnswersTo(kind)
         /\ Tail(decisions[kind]) \in Seq(DecisionOn(kind))
<1> DEFINE S == DecisionOn(kind)
<1>1. decisions[kind] \in Seq(S) BY DEF TypeOK, ChannelTypes
<1>2. Head(decisions[kind]) \in S /\ Tail(decisions[kind]) \in Seq(S)
  <2> HIDE DEF S
  <2> QED BY <1>1, HeadTail
<1> QED BY <1>2 DEF Decision, DecisionOn

\* Taking a decision, whatever follows.
LEMMA TypeDecision ==
  ASSUME TypeOK, NEW kind \in Kinds, decisionTaken(kind), CallTypes', grants' \subseteq Grant
  PROVE  TypeOK'
<1>1. /\ decisions' = [decisions EXCEPT ![kind] = Tail(@)] /\ decisions[kind] # <<>>
      /\ UNCHANGED <<requests, interrupts, policy, admission, deferred, toolCalls,
                 cancelled, ready, stopped, runtime, past>>
  BY DEF decisionTaken
<1>2. /\ DOMAIN decisions' = Kinds
      /\ \A k \in Kinds : decisions'[k] \in Seq(DecisionOn(k))
  BY <1>1, DecisionType DEF TypeOK, ChannelTypes
<1> QED BY <1>1, <1>2
       DEF CallTypes, TypeOK, ChannelTypes, PolicyTypes, ApprovalTypes, JobTypes, RuntimeTypes

LEMMA VerdictType ==
  ASSUME NEW kind \in Kinds, NEW answer \in AnswersTo(kind)
  PROVE  /\ kind = "permission" => Verdict[answer] = IF answer = "deny" THEN "denied" ELSE "allowed"
         /\ kind = "confirmation" => Verdict[answer] = IF answer = "yes" THEN "confirmed" ELSE "declined"
BY DEF Kinds, AnswersTo, PermissionAnswers, ConfirmationAnswers, Verdict

LEMMA ResolvedTypes ==
  ASSUME TypeOK, NEW kind \in Kinds, decisions[kind] # <<>>
  PROVE  /\ resolvedRecord(kind) \in [Kinds -> [Call -> RecordState]]
         /\ resolvedPending(kind) \in [Kinds -> SUBSET Call]
<1>1. Verdict[Decision(kind).answer] \in {"denied", "allowed", "confirmed", "declined"}
  BY DecisionType, VerdictType DEF Kinds
<1>2. Decision(kind).call \in Call BY DecisionType
<1> QED BY <1>1, <1>2 DEF resolvedRecord, resolvedPending, TypeOK, ApprovalTypes, RecordState

LEMMA TypeDecidePermission ==
  ASSUME TypeOK, DecidePermission
  PROVE  TypeOK'
<1>0. CallTypes /\ "permission" \in Kinds BY CallTypesOf DEF Kinds
<1> DEFINE d == Decision("permission")
           rec == resolvedRecord("permission")
           pend == resolvedPending("permission")
<1>1. decisionTaken("permission") /\ decisions["permission"] # <<>> BY DEF DecidePermission, decisionTaken
<1>2. d.call \in Call /\ d.answer \in PermissionAnswers BY <1>0, <1>1, DecisionType DEF AnswersTo
<1>3. /\ rec \in [Kinds -> [Call -> RecordState]]
      /\ pend \in [Kinds -> SUBSET Call]
  BY <1>0, <1>1, ResolvedTypes
<1>4. grants' \subseteq Grant
  <2> DEFINE grant == [scope |-> d.answer, session |-> Session(d.call), actions |-> Needs[d.call].actions]
  <2>1. Session(d.call) \in {SessionOf[t] : t \in Turn} /\ Needs[d.call].actions \in Seq(STRING)
    BY <1>2, TurnOfCall, ConstantsAssumption DEF Session
  <2>2. d.answer \notin {"deny", "allow_once"} => grant \in Grant
    BY <1>2, <2>1 DEF Grant, PermissionAnswers
  <2>3. grants' = grants \/ (d.answer \notin {"deny", "allow_once"} /\ grants' = grants \cup {grant})
    BY DEF DecidePermission
  <2> QED BY <2>2, <2>3 DEF TypeOK, ApprovalTypes
<1>5. CallTypes'
  <2>1. CASE UNCHANGED <<results, job, pendingJobs, prompts, record, pending>>
    BY <1>0, <2>1 DEF CallTypes
  <2>2. CASE record' = rec /\ pending' = pend /\ Answer(d.call, "denied")
    <3>1. "denied" \in Statuses BY DEF Statuses
    <3> HIDE DEF rec, pend, d
    <3> QED BY <1>0, <1>2, <1>3, <2>2, <3>1, AnswerTypes DEF CallTypes
  <2>3. CASE admitConfirmation(d.call, rec, pend)
    <3> HIDE DEF rec, pend, d
    <3> QED BY <1>0, <1>2, <1>3, <2>3, AdmitConfirmationTypes
  <2> QED BY <2>1, <2>2, <2>3 DEF DecidePermission
<1> QED BY <1>0, <1>1, <1>4, <1>5, TypeDecision

LEMMA TypeDecideConfirmation ==
  ASSUME TypeOK, DecideConfirmation
  PROVE  TypeOK'
<1>0. CallTypes /\ "confirmation" \in Kinds BY CallTypesOf DEF Kinds
<1> DEFINE d == Decision("confirmation")
           rec == resolvedRecord("confirmation")
           pend == resolvedPending("confirmation")
<1>1. /\ decisionTaken("confirmation") /\ decisions["confirmation"] # <<>>
      /\ grants' = grants
  BY DEF DecideConfirmation, decisionTaken
<1>2. d.call \in Call BY <1>0, <1>1, DecisionType
<1>3. /\ rec \in [Kinds -> [Call -> RecordState]]
      /\ pend \in [Kinds -> SUBSET Call]
  BY <1>0, <1>1, ResolvedTypes
<1>4. CallTypes'
  <2>1. CASE UNCHANGED <<results, job, pendingJobs, prompts, record, pending>>
    BY <1>0, <2>1 DEF CallTypes
  <2>2. CASE record' = rec /\ pending' = pend /\ (newJob(d.call) \/ Answer(d.call, "declined"))
    <3>1. "declined" \in Statuses BY DEF Statuses
    <3> HIDE DEF rec, pend, d
    <3> QED BY <1>0, <1>2, <1>3, <2>2, <3>1, AnswerTypes, JobQueuedTypes DEF CallTypes
  <2> QED BY <2>1, <2>2 DEF DecideConfirmation
<1>5. grants' \subseteq Grant BY <1>1 DEF TypeOK, ApprovalTypes
<1> QED BY <1>0, <1>1, <1>4, <1>5, TypeDecision

LEMMA TypeExpirePrompts ==
  ASSUME TypeOK, NEW kind \in Kinds, ExpirePrompts(kind)
  PROVE  TypeOK'
<1> DEFINE over == {c \in due[kind] : record[kind][c] = "pending"}
           calls == over \cap pending[kind]
<1>1. /\ Withdraw(kind, over, "expired") /\ AnswerAll(calls, RefusalOf(kind))
      /\ UNCHANGED <<interrupts, deferred, cancelled, taken, loopOnly>>
  BY DEF ExpirePrompts
<1>2. results' \in Seq(ToolResult) /\ UNCHANGED <<job, pendingJobs, prompts>>
  <2>1. calls \subseteq Call /\ IsFiniteSet(calls)
    BY ConstantsAssumption, FS_Subset DEF TypeOK, ApprovalTypes
  <2>2. Cardinality(calls) \in Nat BY <2>1, FS_CardinalityType
  <2>3. RefusalOf(kind) \in Statuses BY DEF RefusalOf, Statuses
  <2> HIDE DEF calls
  <2>4. PICK order \in [1..Cardinality(calls) -> calls] :
          results' = results \o [i \in DOMAIN order |-> Result(order[i], RefusalOf(kind))]
    BY <1>1 DEF AnswerAll
  <2>5. [i \in DOMAIN order |-> Result(order[i], RefusalOf(kind))]
          \in [1..Cardinality(calls) -> ToolResult]
    BY <2>1, <2>3 DEF Result, ToolResult
  <2>6. [i \in DOMAIN order |-> Result(order[i], RefusalOf(kind))]
          \in Seq(ToolResult)
    <3> DEFINE f == [i \in DOMAIN order |-> Result(order[i], RefusalOf(kind))]
               S == ToolResult
    <3>1. f \in [1..Cardinality(calls) -> S] BY <2>5
    <3> HIDE DEF f, S
    <3>2. f \in Seq(S) BY <2>2, <3>1, FunctionIsSeq
    <3> QED BY <3>2 DEF f, S
  <2>7. results \in Seq(ToolResult) BY DEF TypeOK, ChannelTypes
  <2> QED BY <1>1, <2>4, <2>6, <2>7, Concat DEF AnswerAll
<1>3. /\ record' \in [Kinds -> [Call -> RecordState]]
      /\ pending' \in [Kinds -> SUBSET Call]
  <2> HIDE DEF over
  <2> QED BY <1>1 DEF Withdraw, TypeOK, ApprovalTypes, RecordState
<1> QED BY <1>1, <1>2, <1>3
       DEF TypeOK, ChannelTypes, PolicyTypes, ApprovalTypes, JobTypes, RuntimeTypes

LEMMA Reordered ==
  ASSUME NEW S, NEW q \in Seq(S), NEW kept \in SUBSET DOMAIN q,
         NEW order \in [1..Cardinality(kept) -> kept]
  PROVE  /\ Cardinality(kept) \in Nat
         /\ [i \in DOMAIN order |-> q[order[i]]] \in Seq(S)
         /\ DOMAIN [i \in DOMAIN order |-> q[order[i]]] = 1..Cardinality(kept)
<1>1. IsFiniteSet(DOMAIN q)
  <2>1. DOMAIN q = 1..Len(q) /\ Len(q) \in Nat OBVIOUS
  <2> QED BY <2>1, FS_Interval
<1>2. Cardinality(kept) \in Nat BY <1>1, FS_Subset, FS_CardinalityType
<1> DEFINE f == [i \in DOMAIN order |-> q[order[i]]]
<1>3. f \in [1..Cardinality(kept) -> S] OBVIOUS
<1> HIDE DEF f
<1>4. f \in Seq(S) /\ DOMAIN f = 1..Cardinality(kept) BY <1>2, <1>3, FunctionIsSeq
<1> QED BY <1>2, <1>4 DEF f

LEMMA TypeInterruptTurn ==
  ASSUME TypeOK, InterruptTurn
  PROVE  TypeOK'
<1> DEFINE t == Head(interrupts)
           calls == CallsOf(t)
           kept == {i \in DOMAIN deferred : deferred[i].call \notin calls}
<1>1. t \in Turn /\ interrupts' \in Seq(Turn)
  BY HeadTail DEF InterruptTurn, TypeOK, ChannelTypes
<1>2. calls \subseteq Call BY <1>1, TurnOfCall
<1>3. deferred' \in Seq(DeferredCall)
  <2>1. deferred \in Seq(DeferredCall) /\ kept \in SUBSET DOMAIN deferred
    BY DEF TypeOK, ApprovalTypes
  <2>2. PICK order \in [1..Cardinality(kept) -> kept] :
          deferred' = [i \in DOMAIN order |-> deferred[order[i]]]
    BY DEF InterruptTurn
  <2> DEFINE S == DeferredCall
  <2>3. deferred \in Seq(S) BY <2>1
  <2> HIDE DEF kept, S
  <2>4. deferred' \in Seq(S) BY <2>1, <2>2, <2>3, Reordered, ZenonT(40)
  <2> QED BY <2>4 DEF S
<1>4. /\ record' \in [Kinds -> [Call -> RecordState]]
      /\ pending' \in [Kinds -> SUBSET Call]
  BY DEF InterruptTurn, TypeOK, ApprovalTypes, RecordState
<1>5. cancelled' \subseteq Call
  <2>1. cancelled' = cancelled \cup {c \in calls : Active(c)} BY DEF InterruptTurn
  <2> QED BY <1>2, <2>1 DEF TypeOK, JobTypes
<1>6. UNCHANGED <<results, job, pendingJobs, prompts, loopOnly>> BY DEF InterruptTurn
<1> QED BY <1>1, <1>3, <1>4, <1>5, <1>6
       DEF TypeOK, ChannelTypes, PolicyTypes, ApprovalTypes, JobTypes, RuntimeTypes

LEMMA TypeShutdown ==
  ASSUME TypeOK, Shutdown
  PROVE  TypeOK'
<1>1. /\ record' \in [Kinds -> [Call -> RecordState]]
      /\ pending' \in [Kinds -> SUBSET Call]
      /\ deferred' \in Seq(DeferredCall)
      /\ cancelled' \subseteq Call
  <2>1. deferred' \in Seq(DeferredCall) BY DEF Shutdown
  <2>2. cancelled' \subseteq Call BY DEF Shutdown, TypeOK, JobTypes
  <2>3. pending' \in [Kinds -> SUBSET Call] BY DEF Shutdown
  <2>4. record' = [record EXCEPT !["confirmation"] =
       [c \in Call |-> IF c \in pending["confirmation"] THEN "cancelled" ELSE @[c]]]
    BY DEF Shutdown
  <2> QED BY <2>1, <2>2, <2>3, <2>4 DEF TypeOK, ApprovalTypes, Kinds, RecordState
<1>2. pendingJobs' \in Seq(Call)
  <2>1. PICK n \in 0..Len(pendingJobs) : pendingJobs' = SubSeq(pendingJobs, 1, n) BY DEF Shutdown
  <2>2. pendingJobs \in Seq(Call) BY DEF TypeOK, JobTypes
  <2> QED BY <2>1, <2>2
<1>3. stopped' \in BOOLEAN BY Zenon DEF Shutdown
<1> QED BY <1>1, <1>2, <1>3
       DEF Shutdown, TypeOK, ChannelTypes, PolicyTypes, ApprovalTypes, JobTypes, RuntimeTypes

\* The workers leave everything but the jobs alone.
LEMMA WorkerStep ==
  ASSUME TypeOK, Worker
  PROVE  /\ UNCHANGED workerOnly
         /\ \E c \in Call :
              /\ \E p \in {"checked", "ending", "handling", "done"} : job' = [job EXCEPT ![c] = p]
              /\ \/ UNCHANGED results
                 \/ /\ job' = [job EXCEPT ![c] = "done"]
                    /\ \E status \in Statuses : results' = Append(results, Result(c, status))
              /\ ran' \subseteq ran \cup {c}
              /\ \/ UNCHANGED pendingJobs /\ job[c] \in {"checked", "ending", "handling"}
                 \/ /\ pendingJobs # <<>> /\ pendingJobs' = Tail(pendingJobs)
                    /\ c = Head(pendingJobs) /\ UNCHANGED ran
                    /\ job'[c] = "checked" => isCurrent(c)
<1> DEFINE Effect(c) ==
      /\ \E p \in {"checked", "ending", "handling", "done"} : job' = [job EXCEPT ![c] = p]
      /\ \/ UNCHANGED results
         \/ /\ job' = [job EXCEPT ![c] = "done"]
            /\ \E status \in Statuses : results' = Append(results, Result(c, status))
      /\ ran' \subseteq ran \cup {c}
      /\ \/ UNCHANGED pendingJobs /\ job[c] \in {"checked", "ending", "handling"}
         \/ /\ pendingJobs # <<>> /\ pendingJobs' = Tail(pendingJobs)
            /\ c = Head(pendingJobs) /\ UNCHANGED ran
            /\ job'[c] = "checked" => isCurrent(c)
<1>1. CASE StartJob
  <2>1. Head(pendingJobs) \in Call
    BY <1>1, HeadTail DEF StartJob, TypeOK, JobTypes
  <2>2. "failed" \in Statuses BY DEF Statuses
  <2>3. Effect(Head(pendingJobs))
    BY <1>1, <2>1, <2>2 DEF StartJob, Send, TypeOK, JobTypes
  <2> QED BY <1>1, <2>1, <2>3 DEF StartJob
<1>2. ASSUME NEW c \in Call, Execute(c) PROVE Effect(c) /\ UNCHANGED workerOnly
  <2>1. "failed" \in Statuses /\ "interrupted" \in Statuses BY DEF Statuses
  <2> QED BY <1>2, <2>1 DEF Execute, Finish, Send
<1>3. ASSUME NEW c \in Call, ExecuteEndResponseScope(c) PROVE Effect(c) /\ UNCHANGED workerOnly
  <2>1. "skipped" \in Statuses /\ "interrupted" \in Statuses BY DEF Statuses
  <2> QED BY <1>3, <2>1 DEF ExecuteEndResponseScope, Finish, Send
<1>4. ASSUME NEW c \in Call, HandlerReturns(c) PROVE Effect(c) /\ UNCHANGED workerOnly
  <2>1. {"succeeded", "failed", "interrupted"} \subseteq Statuses BY DEF Statuses
  <2> QED BY <1>4, <2>1 DEF HandlerReturns, Finish, Send
<1> QED BY <1>1, <1>2, <1>3, <1>4 DEF Worker

LEMMA TypeWorker ==
  ASSUME TypeOK, Worker
  PROVE  TypeOK'
<1>1. PICK c \in Call :
        /\ \E p \in {"checked", "ending", "handling", "done"} : job' = [job EXCEPT ![c] = p]
        /\ UNCHANGED results \/ \E status \in Statuses : results' = Append(results, Result(c, status))
        /\ ran' \subseteq ran \cup {c}
        /\ UNCHANGED pendingJobs \/ (pendingJobs # <<>> /\ pendingJobs' = Tail(pendingJobs))
  BY WorkerStep
<1>2. UNCHANGED workerOnly BY WorkerStep
<1>3. /\ job' \in [Call -> JobState]
      /\ ran' \subseteq Call
  BY <1>1 DEF TypeOK, JobTypes, JobState
<1>4. pendingJobs' \in Seq(Call)
  <2>1. pendingJobs \in Seq(Call) BY DEF TypeOK, JobTypes
  <2> QED BY <1>1, <2>1, HeadTail
<1>5. results' \in Seq(ToolResult)
  <2>1. results \in Seq(ToolResult) BY DEF TypeOK, ChannelTypes
  <2>2. \A status \in Statuses : Result(c, status) \in ToolResult BY DEF Result, ToolResult
  <2> DEFINE S == ToolResult
  <2> HIDE DEF S
  <2>3. results \in Seq(S) /\ \A status \in Statuses : Result(c, status) \in S BY <2>1, <2>2 DEF S
  <2>4. results' \in Seq(S) BY <1>1, <2>3, Appended
  <2> QED BY <2>4 DEF S
<1> QED BY <1>2, <1>3, <1>4, <1>5
       DEF TypeOK, ChannelTypes, PolicyTypes, ApprovalTypes, JobTypes, RuntimeTypes

LEMMA TypeRouter ==
  ASSUME TypeOK, Router
  PROVE  TypeOK'
<1>1. CASE RouteToolResult
  <2>1. /\ UNCHANGED <<decisions, routed, resolver, resolveOnly>>
        /\ results # <<>> /\ results' = Tail(results)
    BY <1>1 DEF RouteToolResult
  <2> DEFINE S == ToolResult
             c == Head(results).call
             status == Head(results).status
  <2>2. results' \in Seq(S) /\ c \in Call /\ status \in Statuses
    <3>1. results \in Seq(S) BY DEF TypeOK, ChannelTypes
    <3> HIDE DEF S
    <3>2. Head(results) \in S /\ Tail(results) \in Seq(S) BY <2>1, <3>1, HeadTail
    <3>3. Head(results).call \in Call /\ Head(results).status \in Statuses BY <3>2 DEF S, ToolResult
    <3> QED BY <2>1, <3>2, <3>3
  <2>3. /\ held' = held \/ \E kind \in Kinds : held' = [held EXCEPT ![kind][c] = @ \o <<status>>]
        /\ delivered' = delivered \/ delivered' = [delivered EXCEPT ![c] = @ \o <<status>>]
    <3>1. delivered' = delivered \/ delivered' = [delivered EXCEPT ![c] = @ \o <<status>>]
      BY <1>1, ZenonT(40) DEF RouteToolResult, Hold, Enqueue
    <3>2. \/ held' = held \/ held' = [held EXCEPT !["permission"][c] = @ \o <<status>>]
          \/ held' = [held EXCEPT !["confirmation"][c] = @ \o <<status>>]
      BY <1>1 DEF RouteToolResult, Hold
    <3>3. "permission" \in Kinds /\ "confirmation" \in Kinds BY DEF Kinds
    <3> QED BY <3>1, <3>2, <3>3, ZenonT(40)
  <2> HIDE DEF c, status, S
  <2>4. \A q \in Seq(Statuses) : q \o <<status>> \in Seq(Statuses) BY <2>2
  <2>5. held' \in [Kinds -> [Call -> Seq(Statuses)]]
    <3>1. held \in [Kinds -> [Call -> Seq(Statuses)]] BY DEF TypeOK, RuntimeTypes
    <3>2. ASSUME NEW kind \in Kinds
          PROVE  [held EXCEPT ![kind][c] = @ \o <<status>>] \in [Kinds -> [Call -> Seq(Statuses)]]
      <4>1. held[kind][c] \o <<status>> \in Seq(Statuses) BY <2>2, <2>4, <3>1
      <4> QED BY <2>2, <3>1, <4>1, Nested
    <3> QED BY <2>3, <3>1, <3>2
  <2>6. delivered' \in [Call -> Seq(Statuses)]
    <3>1. delivered \in [Call -> Seq(Statuses)] BY DEF TypeOK, RuntimeTypes
    <3>2. delivered[c] \o <<status>> \in Seq(Statuses) BY <2>2, <2>4, <3>1
    <3> QED BY <2>3, <3>1, <3>2
  <2> QED BY <2>1, <2>2, <2>5, <2>6
         DEF S, TypeOK, ChannelTypes, PolicyTypes, ApprovalTypes, JobTypes, RuntimeTypes
<1>2. ASSUME NEW kind \in Kinds, RoutePrompt(kind) PROVE TypeOK'
  <2> DEFINE c == Head(prompts[kind])
  <2>1. /\ prompts' = [prompts EXCEPT ![kind] = Tail(@)] /\ prompts[kind] # <<>>
        /\ routed' = routed \/ routed' = [routed EXCEPT ![kind][c] = "pending"]
        /\ UNCHANGED <<results, decisions, policy, run, round, held, delivered, resolver, due,
                 executor>>
    BY <1>2 DEF RoutePrompt
  <2>2. c \in Call /\ prompts' \in [Kinds -> Seq(Call)]
    <3>1. prompts \in [Kinds -> Seq(Call)] BY DEF TypeOK, ChannelTypes
    <3>2. Head(prompts[kind]) \in Call /\ Tail(prompts[kind]) \in Seq(Call)
      BY <2>1, <3>1, HeadTail
    <3> QED BY <2>1, <3>1, <3>2
  <2> HIDE DEF c
  <2>3. routed' \in [Kinds -> [Call -> RoutedState]]
    <3>1. routed \in [Kinds -> [Call -> RoutedState]] /\ "pending" \in RoutedState
      BY DEF TypeOK, RuntimeTypes, RoutedState
    <3>2. [routed EXCEPT ![kind][c] = "pending"] \in [Kinds -> [Call -> RoutedState]]
      BY <2>2, <3>1, Nested
    <3> QED BY <2>1, <3>1, <3>2
  <2> QED BY <2>1, <2>2, <2>3
         DEF TypeOK, ChannelTypes, PolicyTypes, ApprovalTypes, JobTypes, RuntimeTypes
<1>3. ASSUME NEW kind \in Kinds, NEW c \in Call, ExpireRouted(kind, c) PROVE TypeOK'
  <2>1. /\ routed' = [routed EXCEPT ![kind][c] = "expired"]
        /\ held' = [held EXCEPT ![kind][c] = <<>>]
        /\ UNCHANGED <<results, decisions, delivered, resolver, resolveOnly>>
    BY <1>3 DEF ExpireRouted
  <2>2. routed' \in [Kinds -> [Call -> RoutedState]] /\ held' \in [Kinds -> [Call -> Seq(Statuses)]]
    <3>1. /\ routed \in [Kinds -> [Call -> RoutedState]] /\ "expired" \in RoutedState
          /\ held \in [Kinds -> [Call -> Seq(Statuses)]] /\ <<>> \in Seq(Statuses)
      BY DEF TypeOK, RuntimeTypes, RoutedState
    <3>2. routed' \in [Kinds -> [Call -> RoutedState]] BY <2>1, <3>1, Nested
    <3>3. held' \in [Kinds -> [Call -> Seq(Statuses)]] BY <2>1, <3>1, Nested
    <3> QED BY <3>2, <3>3
  <2> QED BY <2>1, <2>2
       DEF TypeOK, ChannelTypes, PolicyTypes, ApprovalTypes, JobTypes, RuntimeTypes
<1> QED BY <1>1, <1>2, <1>3
     DEF Router, routePermissionRequests, routeConfirmationRequests, expirePermission,
         expireConfirmation, Kinds

\* A caller at work has a call and an answer of its kind.
LEMMA ResolverType ==
  ASSUME TypeOK, NEW r \in Resolver, resolver[r].at # "idle"
  PROVE  /\ resolver[r].kind \in Kinds /\ resolver[r] \in Resolving(resolver[r].kind)
         /\ resolver[r].call \in Call /\ resolver[r].answer \in AnswersTo(resolver[r].kind)
<1>1. PICK kind \in Kinds : resolver[r] \in Resolving(kind)
  BY DEF TypeOK, RuntimeTypes
<1> QED BY <1>1 DEF Resolving

LEMMA TypeResolve ==
  ASSUME TypeOK, Resolve
  PROVE  TypeOK'
<1>1. PICK r \in Resolver : ResolvePermission(r) \/ ResolveConfirmation(r) BY DEF Resolve
<1> DEFINE State == [at : {"idle"}] \cup UNION {Resolving(kind) : kind \in Kinds}
<1>2. resolver \in [Resolver -> State] BY DEF TypeOK, RuntimeTypes
<1>3. ASSUME NEW kind \in Kinds, NEW c \in Call, NEW answer \in AnswersTo(kind),
             ResolveBegin(r, kind, c, answer)
      PROVE  TypeOK'
  <2>1. [at |-> "forward", kind |-> kind, call |-> c, answer |-> answer] \in State
    BY DEF Resolving
  <2> HIDE DEF State
  <2>2. resolver' \in [Resolver -> State] BY <1>2, <1>3, <2>1 DEF ResolveBegin
  <2>3. /\ routed' \in [Kinds -> [Call -> RoutedState]]
        /\ held' \in [Kinds -> [Call -> Seq(Statuses)]]
    <3>1. /\ routed \in [Kinds -> [Call -> RoutedState]] /\ {"expired", "forwarding"} \subseteq RoutedState
          /\ held \in [Kinds -> [Call -> Seq(Statuses)]] /\ <<>> \in Seq(Statuses)
      BY DEF TypeOK, RuntimeTypes, RoutedState
    <3>2. /\ \E x \in {"expired", "forwarding"} : routed' = [routed EXCEPT ![kind][c] = x]
          /\ held' = held \/ held' = [held EXCEPT ![kind][c] = <<>>]
      BY <1>3 DEF ResolveBegin
    <3>3. routed' \in [Kinds -> [Call -> RoutedState]] BY <3>1, <3>2, Nested
    <3>4. [held EXCEPT ![kind][c] = <<>>] \in [Kinds -> [Call -> Seq(Statuses)]] BY <3>1, Nested
    <3> QED BY <3>1, <3>2, <3>3, <3>4
  <2>4. UNCHANGED <<results, decisions, delivered, resolveOnly>> BY <1>3 DEF ResolveBegin
  <2> QED BY <2>2, <2>3, <2>4
       DEF State, TypeOK, ChannelTypes, PolicyTypes, ApprovalTypes, JobTypes, RuntimeTypes
<1>4. ASSUME Forward(r) PROVE TypeOK'
  <2> DEFINE mine == resolver[r]
  <2>1. /\ mine.kind \in Kinds /\ mine \in Resolving(mine.kind)
        /\ mine.call \in Call /\ mine.answer \in AnswersTo(mine.kind)
    BY <1>4, ResolverType DEF Forward
  <2>2. /\ [mine EXCEPT !.at = "commit"] \in State /\ [at |-> "idle"] \in State
    BY <2>1 DEF Resolving
  <2>3. resolver' \in [Resolver -> State]
    <3> HIDE DEF State, mine
    <3>1. resolver' = [resolver EXCEPT ![r] = [mine EXCEPT !.at = "commit"]]
          \/ resolver' = [resolver EXCEPT ![r] = [at |-> "idle"]]
      BY <1>4 DEF Forward, mine
    <3> QED BY <1>2, <2>2, <3>1
  <2>4. routed' \in [Kinds -> [Call -> RoutedState]]
    <3>1. /\ routed \in [Kinds -> [Call -> RoutedState]] /\ "pending" \in RoutedState
      BY DEF TypeOK, RuntimeTypes, RoutedState
    <3>2. routed' = routed \/ routed' = [routed EXCEPT ![mine.kind][mine.call] = "pending"]
      BY <1>4 DEF Forward
    <3>3. [routed EXCEPT ![mine.kind][mine.call] = "pending"] \in [Kinds -> [Call -> RoutedState]]
      BY <2>1, <3>1, Nested
    <3> QED BY <3>1, <3>2, <3>3
  <2>5. /\ DOMAIN decisions' = Kinds
        /\ \A k \in Kinds : decisions'[k] \in Seq(DecisionOn(k))
    <3>1. \/ decisions' = decisions
          \/ decisions' = [decisions EXCEPT ![mine.kind] =
               Append(@, [call |-> mine.call, answer |-> mine.answer])]
      BY <1>4 DEF Forward
    <3> DEFINE x == [call |-> mine.call, answer |-> mine.answer]
    <3>2. x \in DecisionOn(mine.kind) BY <2>1 DEF DecisionOn
    <3>3. DOMAIN decisions = Kinds /\ \A k \in Kinds : decisions[k] \in Seq(DecisionOn(k))
      BY DEF TypeOK, ChannelTypes
    <3> HIDE DEF x, mine
    <3>4. Append(decisions[mine.kind], x) \in Seq(DecisionOn(mine.kind))
      BY <2>1, <3>2, <3>3, Appended
    <3>5. decisions' = decisions \/ decisions' = [decisions EXCEPT ![mine.kind] = Append(@, x)]
      BY <3>1 DEF x
    <3> QED BY <3>3, <3>4, <3>5
  <2>6. UNCHANGED <<results, held, delivered, resolveOnly>> BY <1>4 DEF Forward
  <2> QED BY <2>3, <2>4, <2>5, <2>6
       DEF TypeOK, ChannelTypes, PolicyTypes, ApprovalTypes, JobTypes, RuntimeTypes
<1>5. ASSUME ResolveCommit(r) PROVE TypeOK'
  <2> DEFINE mine == resolver[r]
  <2>1. mine.kind \in Kinds /\ mine.call \in Call
    BY <1>5, ResolverType DEF ResolveCommit
  <2>2. resolver' \in [Resolver -> State]
    <3>1. [at |-> "idle"] \in State OBVIOUS
    <3> HIDE DEF State
    <3> QED BY <1>2, <1>5, <3>1 DEF ResolveCommit
  <2>3. /\ routed' \in [Kinds -> [Call -> RoutedState]]
        /\ held' \in [Kinds -> [Call -> Seq(Statuses)]]
    <3>1. /\ routed \in [Kinds -> [Call -> RoutedState]] /\ "resolved" \in RoutedState
          /\ held \in [Kinds -> [Call -> Seq(Statuses)]] /\ <<>> \in Seq(Statuses)
      BY DEF TypeOK, RuntimeTypes, RoutedState
    <3>2. /\ routed' = routed \/ routed' = [routed EXCEPT ![mine.kind][mine.call] = "resolved"]
          /\ held' = held \/ held' = [held EXCEPT ![mine.kind][mine.call] = <<>>]
      BY <1>5 DEF ResolveCommit
    <3>3. [routed EXCEPT ![mine.kind][mine.call] = "resolved"] \in [Kinds -> [Call -> RoutedState]]
      BY <2>1, <3>1, Nested
    <3>4. [held EXCEPT ![mine.kind][mine.call] = <<>>] \in [Kinds -> [Call -> Seq(Statuses)]]
      BY <2>1, <3>1, Nested
    <3> QED BY <3>1, <3>2, <3>3, <3>4
  <2>4. delivered' \in [Call -> Seq(Statuses)]
    <3>1. delivered' = delivered
          \/ delivered' = [delivered EXCEPT ![mine.call] = @ \o held[mine.kind][mine.call]]
      BY <1>5 DEF ResolveCommit, Enqueue
    <3>2. held[mine.kind][mine.call] \in Seq(Statuses) BY <2>1 DEF TypeOK, RuntimeTypes
    <3>3. \A q \in Seq(Statuses) : q \o held[mine.kind][mine.call] \in Seq(Statuses)
      BY <3>2, Concat
    <3>4. delivered \in [Call -> Seq(Statuses)] BY DEF TypeOK, RuntimeTypes
    <3>5. delivered[mine.call] \o held[mine.kind][mine.call] \in Seq(Statuses)
      BY <2>1, <3>3, <3>4
    <3> HIDE DEF mine
    <3> QED BY <2>1, <3>1, <3>4, <3>5
  <2>5. UNCHANGED <<results, decisions, resolveOnly>> BY <1>5 DEF ResolveCommit
  <2> QED BY <2>2, <2>3, <2>4, <2>5
       DEF TypeOK, ChannelTypes, PolicyTypes, ApprovalTypes, JobTypes, RuntimeTypes
<1>6. CASE ResolvePermission(r)
  BY <1>3, <1>4, <1>5, <1>6 DEF ResolvePermission, Kinds, AnswersTo
<1>7. CASE ResolveConfirmation(r)
  BY <1>3, <1>4, <1>5, <1>7 DEF ResolveConfirmation, Kinds, AnswersTo
<1> QED BY <1>1, <1>6, <1>7

LEMMA TypeRuns ==
  ASSUME TypeOK, Runs
  PROVE  TypeOK'
<1>1. PICK t \in Turn :
        StartRun(t) \/ DispatchTools(t) \/ RunCompletes(t) \/ InterruptRun(t) \/ CloseRun(t)
  BY DEF Runs
<1>2. UNCHANGED <<delivered, runOnly>>
  BY <1>1 DEF StartRun, DispatchTools, RunCompletes, InterruptRun, CloseRun, unregister
<1>3. requests' \in Seq(Call) /\ round' \in [Turn -> Nat]
  <2>1. CASE DispatchTools(t)
    <3>1. /\ round[t] < Len(Rounds[t])
          /\ round' = [round EXCEPT ![t] = @ + 1]
          /\ requests' = requests \o Rounds[t][round[t] + 1]
      BY <2>1 DEF DispatchTools
    <3>2. Rounds[t] \in Seq(Seq(Call)) BY RoundsAssumption
    <3>3. round[t] \in Nat /\ requests \in Seq(Call) BY DEF TypeOK, RuntimeTypes, ChannelTypes
    <3>4. Rounds[t][round[t] + 1] \in Seq(Call) BY <3>1, <3>2, <3>3, Element
    <3> QED BY <3>1, <3>3, <3>4, Concat DEF TypeOK, RuntimeTypes
  <2>2. CASE ~DispatchTools(t)
    BY <1>1, <2>2 DEF StartRun, RunCompletes, InterruptRun, CloseRun, unregister,
                      TypeOK, RuntimeTypes, ChannelTypes
  <2> QED BY <2>1, <2>2
<1>4. interrupts' \in Seq(Turn)
  <2>1. interrupts' = interrupts \/ interrupts' = Append(interrupts, t)
    BY <1>1 DEF StartRun, DispatchTools, RunCompletes, InterruptRun, CloseRun, unregister
  <2>2. interrupts \in Seq(Turn) BY DEF TypeOK, ChannelTypes
  <2> QED BY <2>1, <2>2, Appended
<1>5. run' \in [Turn -> {"idle", "active", "closing", "ended"}]
  BY <1>1 DEF StartRun, DispatchTools, RunCompletes, InterruptRun, CloseRun, unregister, TypeOK,
              RuntimeTypes
<1>6. /\ routed' \in [Kinds -> [Call -> RoutedState]]
      /\ held' \in [Kinds -> [Call -> Seq(Statuses)]]
  <2>1. CASE StartRun(t) \/ DispatchTools(t)
    BY <2>1 DEF StartRun, DispatchTools, TypeOK, RuntimeTypes
  <2>2. CASE unregister(t)
    BY <2>2 DEF unregister, TypeOK, RuntimeTypes, RoutedState
  <2>3. CASE InterruptRun(t)
    BY <2>3 DEF InterruptRun, TypeOK, RuntimeTypes, RoutedState
  <2> QED BY <1>1, <2>1, <2>2, <2>3 DEF RunCompletes, CloseRun
<1> QED BY <1>2, <1>3, <1>4, <1>5, <1>6
     DEF TypeOK, ChannelTypes, PolicyTypes, ApprovalTypes, JobTypes, RuntimeTypes

LEMMA TypeEnvironment ==
  ASSUME TypeOK, Environment
  PROVE  TypeOK'
<1>1. CASE ReadyChanges
  <2>1. ready' \in BOOLEAN BY <1>1, Zenon DEF ReadyChanges
  <2> QED BY <1>1, <2>1
       DEF ReadyChanges, TypeOK, ChannelTypes, PolicyTypes, ApprovalTypes, JobTypes, RuntimeTypes
<1>2. ASSUME NEW kind \in Kinds, NEW c \in Call, Tick(kind, c) PROVE TypeOK'
  BY <1>2 DEF Tick, TypeOK, ChannelTypes, PolicyTypes, ApprovalTypes, JobTypes, RuntimeTypes
<1>3. ASSUME NEW mode \in LaterModes, SetMode(mode) PROVE TypeOK'
  <2>1. policy' \in Snapshots /\ policy'.epoch = policy.epoch + 1 /\ policy.epoch \in Nat
    BY <1>3, ConstantsAssumption DEF SetMode, TypeOK, PolicyTypes, Snapshots
  <2>2. PolicyTypes'
    BY <1>3, <2>1 DEF SetMode, TypeOK, PolicyTypes, Snapshots
  <2> QED BY <1>3, <2>2
       DEF SetMode, TypeOK, ChannelTypes, ApprovalTypes, JobTypes, RuntimeTypes
<1> QED BY <1>1, <1>2, <1>3, TypeShutdown DEF Environment

LEMMA TypeNext ==
  ASSUME TypeOK, [Next]_vars
  PROVE  TypeOK'
<1>1. CASE UNCHANGED vars
  BY <1>1 DEF vars, TypeOK, ChannelTypes, PolicyTypes, ApprovalTypes, JobTypes, RuntimeTypes
<1>2. CASE Executor
  BY <1>2, TypeAdmitDeferred, TypeReceive, TypeDecidePermission, TypeDecideConfirmation,
     TypeInterruptTurn, TypeExpirePrompts DEF Executor
<1> QED BY <1>1, <1>2, TypeWorker, TypeRouter, TypeResolve, TypeRuns, TypeEnvironment DEF Next

\* Types of the executor, the runtime and the channels between them; an answer
\* arrives on the channel of its kind.
THEOREM TypeCorrect == Spec => []TypeOK
BY TypeInit, TypeNext, PTL DEF Spec
-----------------------------------------------------------------------------
(* The place of a call. *)

Requested(c) == \E i \in DOMAIN requests : requests[i] = c
Deferred(c) == \E i \in DOMAIN deferred : deferred[i].call = c
Prompted(c) == \E kind \in Kinds : c \in pending[kind]
Begun(c) == job[c] # "none"
Dispatched(c) == \E n \in 1..round[TurnOf(c)] : c \in RoundCalls(TurnOf(c), n)

\* A call is in one place at a time, and in none before its round.
OnePlace(c) ==
  /\ Requested(c) => Dispatched(c) /\ ~Deferred(c) /\ ~Prompted(c) /\ ~Begun(c)
  /\ Deferred(c) => Dispatched(c) /\ ~Prompted(c) /\ ~Begun(c)
  /\ Prompted(c) => Dispatched(c) /\ ~Begun(c)
  /\ Begun(c) => Dispatched(c)
  /\ ~(c \in pending["permission"] /\ c \in pending["confirmation"])

\* A call is requested, deferred and queued for a worker once.
PlaceInv ==
  /\ \A c \in Call : OnePlace(c)
  /\ \A i, j \in DOMAIN requests : requests[i] = requests[j] => i = j
  /\ \A i, j \in DOMAIN deferred : deferred[i].call = deferred[j].call => i = j
  /\ \A i, j \in DOMAIN pendingJobs : pendingJobs[i] = pendingJobs[j] => i = j
  /\ \A i \in DOMAIN pendingJobs : job[pendingJobs[i]] = "queued"
  /\ \A t \in Turn : round[t] \in 0..Len(Rounds[t])
  /\ \A c \in ran : Begun(c)

\* Calls may leave their places.
LEMMA PlaceFrame ==
  ASSUME PlaceInv, UNCHANGED round,
         \A c \in Call : /\ Requested(c)' => Requested(c)
                         /\ Deferred(c)' => Deferred(c)
                         /\ Begun(c)' <=> Begun(c)
                         /\ \A kind \in Kinds : c \in pending'[kind] => c \in pending[kind],
         \A i, j \in DOMAIN requests' : requests'[i] = requests'[j] => i = j,
         \A i, j \in DOMAIN deferred' : deferred'[i].call = deferred'[j].call => i = j,
         \A i, j \in DOMAIN pendingJobs' : pendingJobs'[i] = pendingJobs'[j] => i = j,
         \A i \in DOMAIN pendingJobs' : job'[pendingJobs'[i]] = "queued",
         ran' \subseteq Call, \A c \in ran' : Begun(c)'
  PROVE  PlaceInv'
<1>1. \A c \in Call : Dispatched(c)' <=> Dispatched(c) BY DEF Dispatched
<1>2. \A c \in Call : OnePlace(c)'
  BY <1>1 DEF PlaceInv, OnePlace, Prompted, Kinds
<1> QED BY <1>2 DEF PlaceInv

\* A step that leaves the places alone.
LEMMA PlaceUnchanged ==
  ASSUME PlaceInv, UNCHANGED <<requests, deferred, pending, job, pendingJobs, round, ran>>
  PROVE  PlaceInv'
BY DEF PlaceInv, OnePlace, Requested, Deferred, Prompted, Begun, Dispatched

\* What becomes of a call that leaves a place: a job, a prompt or an answer.
\* pend are the waiting calls before that.
Moved(c, pend) ==
  \/ /\ job' = [job EXCEPT ![c] = "queued"] /\ pendingJobs' = Append(pendingJobs, c)
     /\ pending' = pend
  \/ /\ UNCHANGED <<job, pendingJobs>>
     /\ \E kind \in Kinds : pending' = [pend EXCEPT ![kind] = @ \cup {c}]
  \/ UNCHANGED <<job, pendingJobs>> /\ pending' = pend

LEMMA PublishMoves ==
  ASSUME NEW kind \in Kinds, NEW c, NEW refusal, NEW rec, NEW pend,
         Publish(kind, c, refusal, rec, pend)
  PROVE  Moved(c, pend)
BY DEF Publish, Answer, Moved

LEMMA AdmitConfirmationMoves ==
  ASSUME NEW c, NEW rec, NEW pend, admitConfirmation(c, rec, pend)
  PROVE  Moved(c, pend)
<1>1. CASE newJob(c) /\ pending' = pend BY <1>1 DEF newJob, Moved
<1>2. CASE Answer(c, "declined") /\ pending' = pend BY <1>2 DEF Answer, Moved
<1>3. CASE Publish("confirmation", c, "failed", rec, pend) BY <1>3, PublishMoves DEF Kinds
<1> QED BY <1>1, <1>2, <1>3 DEF admitConfirmation

LEMMA PlaceMoved ==
  ASSUME TypeOK, PlaceInv, NEW c \in Call, NEW pend \in [Kinds -> SUBSET Call], Moved(c, pend),
         UNCHANGED <<round, ran>>, Dispatched(c), ~Begun(c),
         \A kind \in Kinds : c \notin pend[kind] /\ pend[kind] \subseteq pending[kind],
         ~Requested(c)', ~Deferred(c)',
         \A d \in Call : /\ Requested(d)' => Requested(d)
                         /\ Deferred(d)' => Deferred(d),
         \A i, j \in DOMAIN requests' : requests'[i] = requests'[j] => i = j,
         \A i, j \in DOMAIN deferred' : deferred'[i].call = deferred'[j].call => i = j
  PROVE  PlaceInv'
<1>1. /\ job \in [Call -> JobState] /\ "queued" \in JobState
      /\ pendingJobs \in Seq(Call) /\ ran \subseteq Call
  BY DEF TypeOK, JobTypes, JobState
<1>2. \A d \in Call : Dispatched(d)' <=> Dispatched(d) BY DEF Dispatched
<1>3. \A d \in Call : d # c =>
        /\ Begun(d)' <=> Begun(d)
        /\ \A kind \in Kinds : d \in pending'[kind] => d \in pending[kind]
  BY <1>1 DEF Moved, Begun
<1>4. \A d \in Call : d # c => OnePlace(d)'
  BY <1>2, <1>3 DEF PlaceInv, OnePlace, Prompted, Kinds
<1>5. OnePlace(c)'
  <2>1. CASE job' = [job EXCEPT ![c] = "queued"] /\ pending' = pend
    BY <1>2, <2>1 DEF OnePlace, Prompted, Kinds
  <2>2. CASE job' = job /\ pending' = pend
    BY <1>2, <2>2 DEF OnePlace, Prompted, Kinds, Begun
  <2>3. ASSUME NEW kind \in Kinds, job' = job, pending' = [pend EXCEPT ![kind] = @ \cup {c}]
        PROVE  OnePlace(c)'
    BY <1>2, <2>3 DEF OnePlace, Prompted, Kinds, Begun
  <2> QED BY <2>1, <2>2, <2>3 DEF Moved
<1>6. /\ \A i, j \in DOMAIN pendingJobs' : pendingJobs'[i] = pendingJobs'[j] => i = j
      /\ \A i \in DOMAIN pendingJobs' : job'[pendingJobs'[i]] = "queued"
      /\ \A d \in ran' : Begun(d)'
  <2>1. CASE UNCHANGED <<job, pendingJobs>> BY <2>1 DEF PlaceInv, Begun
  <2>2. CASE job' = [job EXCEPT ![c] = "queued"] /\ pendingJobs' = Append(pendingJobs, c)
    <3>1. \A i \in DOMAIN pendingJobs : pendingJobs[i] # c BY DEF PlaceInv, Begun
    <3>2. /\ DOMAIN pendingJobs = 1..Len(pendingJobs) /\ Len(pendingJobs) \in Nat
          /\ DOMAIN pendingJobs' = 1..(Len(pendingJobs) + 1)
          /\ pendingJobs'[Len(pendingJobs) + 1] = c
          /\ \A i \in 1..Len(pendingJobs) : pendingJobs'[i] = pendingJobs[i] /\ pendingJobs[i] \in Call
      BY <1>1, <2>2, Appended, Element
    <3>3. \A i, j \in DOMAIN pendingJobs' : pendingJobs'[i] = pendingJobs'[j] => i = j
      BY <3>1, <3>2 DEF PlaceInv
    <3>4. \A i \in DOMAIN pendingJobs' : job'[pendingJobs'[i]] = "queued"
      BY <1>1, <2>2, <3>2 DEF PlaceInv
    <3>5. \A d \in ran' : Begun(d)' BY <1>1, <2>2 DEF PlaceInv, Begun
    <3> QED BY <3>3, <3>4, <3>5
  <2> QED BY <2>1, <2>2 DEF Moved
<1> QED BY <1>4, <1>5, <1>6 DEF PlaceInv

LEMMA PlaceInit == ASSUME Init PROVE PlaceInv
<1>1. \A t \in Turn : round[t] = 0 /\ Len(Rounds[t]) \in Nat
  BY RoundsAssumption DEF Init
<1> QED BY <1>1 DEF Init, PlaceInv, OnePlace, Requested, Deferred, Prompted, Begun, Kinds

LEMMA PlaceAdmitDeferred ==
  ASSUME TypeOK, PlaceInv, admitDeferredApproval
  PROVE  PlaceInv'
<1>1. PICK i \in 1..Len(deferred) :
        /\ deferred' = RemoveAt(deferred, i)
        /\ \/ Answer(deferred[i].call, "denied") /\ UNCHANGED <<record, pending>>
           \/ Publish("permission", deferred[i].call, "denied", record, pending)
           \/ admitConfirmation(deferred[i].call, record, pending)
        /\ UNCHANGED <<requests, round, ran>>
  BY DEF admitDeferredApproval
<1> DEFINE c == deferred[i].call
<1>2. deferred \in Seq(DeferredCall) /\ pending \in [Kinds -> SUBSET Call]
  BY DEF TypeOK, ApprovalTypes
<1>3. c \in Call /\ Deferred(c)
  <2>1. deferred[i] \in DeferredCall BY <1>2, Element
  <2>2. i \in DOMAIN deferred BY <1>2
  <2> QED BY <2>1, <2>2 DEF DeferredCall, Deferred
<1>4. /\ DOMAIN deferred' = 1..(Len(deferred) - 1) /\ DOMAIN deferred = 1..Len(deferred)
      /\ \A j \in 1..(Len(deferred) - 1) :
           deferred'[j] = IF j < i THEN deferred[j] ELSE deferred[j + 1]
  BY <1>1, <1>2, Removed
<1>5. \A j, k \in DOMAIN deferred : deferred[j].call = deferred[k].call => j = k
  BY DEF PlaceInv
<1>6. \A j, k \in DOMAIN deferred' : deferred'[j].call = deferred'[k].call => j = k
  <2> SUFFICES ASSUME NEW j \in DOMAIN deferred', NEW k \in DOMAIN deferred',
                      deferred'[j].call = deferred'[k].call
               PROVE  j = k
    OBVIOUS
  <2>1. Len(deferred) \in Nat BY <1>2
  <2>2. PICK m \in DOMAIN deferred : deferred'[j] = deferred[m] /\ m = IF j < i THEN j ELSE j + 1
    BY <1>4, <2>1
  <2>3. PICK n \in DOMAIN deferred : deferred'[k] = deferred[n] /\ n = IF k < i THEN k ELSE k + 1
    BY <1>4, <2>1
  <2>4. m = n BY <1>5, <2>2, <2>3
  <2> QED BY <1>4, <2>1, <2>2, <2>3, <2>4
<1>7. \A d : Deferred(d)' => Deferred(d) /\ d # c
  BY <1>4, <1>5, SMTT(30) DEF Deferred
<1>8. Moved(c, pending)
  BY <1>1, PublishMoves, AdmitConfirmationMoves DEF Answer, Moved, Kinds
<1>9. /\ Dispatched(c) /\ ~Begun(c) /\ ~Requested(c)
      /\ \A kind \in Kinds : c \notin pending[kind]
  BY <1>3 DEF PlaceInv, OnePlace, Prompted
<1>10. \A d : Requested(d)' <=> Requested(d) BY <1>1 DEF Requested
<1>11. \A j, k \in DOMAIN requests' : requests'[j] = requests'[k] => j = k
  BY <1>1 DEF PlaceInv
<1> HIDE DEF c
<1> QED BY <1>1, <1>2, <1>3, <1>6, <1>7, <1>8, <1>9, <1>10, <1>11, PlaceMoved

LEMMA PlaceReceive ==
  ASSUME TypeOK, PlaceInv, ReceiveRequest
  PROVE  PlaceInv'
<1> PICK c : c = Head(requests) OBVIOUS
<1>1. /\ requests # <<>> /\ requests' = Tail(requests)
      /\ UNCHANGED <<pending, round, ran>>
      /\ \/ /\ UNCHANGED deferred
            /\ newJob(c) \/ UNCHANGED <<job, pendingJobs>>
         \/ /\ \E b \in BOOLEAN : deferred' = Append(deferred, [call |-> c, ask |-> b])
            /\ UNCHANGED <<job, pendingJobs>>
  BY DEF ReceiveRequest, Answer
<1>2. /\ requests \in Seq(Call) /\ deferred \in Seq(DeferredCall)
      /\ pending \in [Kinds -> SUBSET Call]
  BY DEF TypeOK, ApprovalTypes, ChannelTypes
<1>3. /\ c \in Call /\ 1 \in DOMAIN requests /\ c = requests[1]
      /\ DOMAIN requests' = 1..(Len(requests) - 1) /\ DOMAIN requests = 1..Len(requests)
      /\ \A i \in DOMAIN requests' : i + 1 \in DOMAIN requests /\ requests'[i] = requests[i + 1]
  BY <1>1, <1>2, HeadTail
<1>4. \A i, j \in DOMAIN requests : requests[i] = requests[j] => i = j
  BY DEF PlaceInv
<1>5. /\ \A i, j \in DOMAIN requests' : requests'[i] = requests'[j] => i = j
      /\ \A d : Requested(d)' => Requested(d) /\ d # c
  BY <1>3, <1>4 DEF Requested
<1>6. Requested(c) BY <1>3 DEF Requested
<1>7. /\ Dispatched(c) /\ ~Begun(c) /\ ~Deferred(c)
      /\ \A kind \in Kinds : c \notin pending[kind]
  BY <1>3, <1>6 DEF PlaceInv, OnePlace, Prompted
<1>8. CASE UNCHANGED deferred /\ (newJob(c) \/ UNCHANGED <<job, pendingJobs>>)
  <2>1. \A d : Deferred(d)' <=> Deferred(d) BY <1>8 DEF Deferred
  <2>2. \A i, j \in DOMAIN deferred' : deferred'[i].call = deferred'[j].call => i = j
    BY <1>8 DEF PlaceInv
  <2>3. Moved(c, pending) BY <1>1, <1>8 DEF newJob, Moved
  <2> QED BY <1>1, <1>2, <1>3, <1>5, <1>7, <2>1, <2>2, <2>3, PlaceMoved
<1>9. ASSUME NEW b \in BOOLEAN, deferred' = Append(deferred, [call |-> c, ask |-> b]),
             UNCHANGED <<job, pendingJobs>>
      PROVE  PlaceInv'
  <2> DEFINE x == [call |-> c, ask |-> b]
  <2>1. x \in DeferredCall /\ x.call = c BY <1>3 DEF DeferredCall
  <2> HIDE DEF x
  <2>2. /\ DOMAIN deferred = 1..Len(deferred) /\ Len(deferred) \in Nat
        /\ DOMAIN deferred' = 1..(Len(deferred) + 1)
        /\ deferred'[Len(deferred) + 1] = x
        /\ \A i \in 1..Len(deferred) : deferred'[i] = deferred[i]
    BY <1>2, <1>9, <2>1, Appended DEF x
  <2>3. \A i \in DOMAIN deferred : deferred[i].call # c BY <1>7 DEF Deferred
  <2>4. \A i, j \in DOMAIN deferred' : deferred'[i].call = deferred'[j].call => i = j
    <3>1. \A i, j \in DOMAIN deferred : deferred[i].call = deferred[j].call => i = j BY DEF PlaceInv
    <3> QED BY <2>1, <2>2, <2>3, <3>1
  <2>5. \A d : Deferred(d)' => Deferred(d) \/ d = c BY <2>1, <2>2 DEF Deferred
  <2>6. \A d \in Call : /\ Begun(d)' <=> Begun(d)
                        /\ Dispatched(d)' <=> Dispatched(d)
                        /\ Prompted(d)' <=> Prompted(d)
    BY <1>1, <1>9 DEF Begun, Dispatched, Prompted
  <2>7. \A d \in Call : OnePlace(d)'
    <3>1. ASSUME NEW d \in Call, d # c PROVE OnePlace(d)'
      BY <1>1, <1>5, <2>5, <2>6, <3>1 DEF PlaceInv, OnePlace
    <3>2. OnePlace(c)'
      <4>1. /\ ~Requested(c)' /\ ~Prompted(c)' /\ ~Begun(c)' /\ Dispatched(c)'
        BY <1>3, <1>5, <1>7, <2>6 DEF Prompted
      <4>2. c \notin pending'["permission"] BY <1>1, <1>7 DEF Kinds
      <4> QED BY <4>1, <4>2 DEF OnePlace
    <3> QED BY <3>1, <3>2
  <2> QED BY <1>1, <1>5, <1>9, <2>4, <2>6, <2>7 DEF PlaceInv, TypeOK, JobTypes, Begun
<1> QED BY <1>1, <1>8, <1>9

LEMMA PlaceDecision ==
  ASSUME TypeOK, PlaceInv, NEW kind \in Kinds, decisionTaken(kind), Waits(kind),
         Moved(Decision(kind).call, resolvedPending(kind))
  PROVE  PlaceInv'
<1> DEFINE c == Decision(kind).call
           pend == resolvedPending(kind)
<1>1. decisions[kind] # <<>> /\ UNCHANGED <<requests, deferred, round, ran>>
  BY DEF decisionTaken
<1>2. c \in Call /\ pend \in [Kinds -> SUBSET Call] BY <1>1, DecisionType, ResolvedTypes
<1>3. c \in pending[kind] BY DEF Waits
<1>4. pending \in [Kinds -> SUBSET Call] BY DEF TypeOK, ApprovalTypes
<1>5. \A k \in Kinds : c \notin pend[k] /\ pend[k] \subseteq pending[k]
  <2>1. pend = [pending EXCEPT ![kind] = @ \ {c}] BY DEF resolvedPending
  <2>2. \A k \in Kinds : k # kind => c \notin pending[k]
    BY <1>2, <1>3 DEF PlaceInv, OnePlace, Kinds
  <2> HIDE DEF c, pend
  <2> QED BY <1>4, <2>1, <2>2
<1>6. Dispatched(c) /\ ~Begun(c) /\ ~Requested(c) /\ ~Deferred(c)
  BY <1>2, <1>3 DEF PlaceInv, OnePlace, Prompted
<1>7. \A d : (Requested(d)' <=> Requested(d)) /\ (Deferred(d)' <=> Deferred(d))
  BY <1>1 DEF Requested, Deferred
<1>8. /\ \A i, j \in DOMAIN requests' : requests'[i] = requests'[j] => i = j
      /\ \A i, j \in DOMAIN deferred' : deferred'[i].call = deferred'[j].call => i = j
  BY <1>1 DEF PlaceInv
<1>9. Moved(c, pend) OBVIOUS
<1> HIDE DEF c, pend
<1> QED BY <1>1, <1>2, <1>5, <1>6, <1>7, <1>8, <1>9, PlaceMoved

LEMMA PlaceExecutor ==
  ASSUME TypeOK, PlaceInv, Executor
  PROVE  PlaceInv'
<1>1. CASE DecidePermission
  <2>1. CASE Waits("permission")
    <3>1. Moved(Decision("permission").call, resolvedPending("permission"))
      BY <1>1, <2>1, AdmitConfirmationMoves DEF DecidePermission, Answer, Moved
    <3> QED BY <1>1, <2>1, <3>1, PlaceDecision DEF DecidePermission, Kinds
  <2>2. CASE ~Waits("permission")
    <3>1. UNCHANGED <<requests, deferred, pending, job, pendingJobs, round, ran>>
      BY <1>1, <2>2 DEF DecidePermission, decisionTaken
    <3> QED BY <3>1, PlaceUnchanged
  <2> QED BY <2>1, <2>2
<1>2. CASE DecideConfirmation
  <2>1. CASE Waits("confirmation")
    <3>1. Moved(Decision("confirmation").call, resolvedPending("confirmation"))
      BY <1>2, <2>1 DEF DecideConfirmation, Answer, newJob, Moved
    <3> QED BY <1>2, <2>1, <3>1, PlaceDecision DEF DecideConfirmation, Kinds
  <2>2. CASE ~Waits("confirmation")
    <3>1. UNCHANGED <<requests, deferred, pending, job, pendingJobs, round, ran>>
      BY <1>2, <2>2 DEF DecideConfirmation, decisionTaken
    <3> QED BY <3>1, PlaceUnchanged
  <2> QED BY <2>1, <2>2
<1>3. CASE InterruptTurn
  <2> DEFINE kept == {i \in DOMAIN deferred : deferred[i].call \notin CallsOf(Head(interrupts))}
  <2>1. PICK order \in [1..Cardinality(kept) -> kept] :
          /\ \A i, j \in DOMAIN order : i < j => order[i] < order[j]
          /\ deferred' = [i \in DOMAIN order |-> deferred[order[i]]]
    BY <1>3 DEF InterruptTurn
  <2>2. /\ UNCHANGED <<requests, job, pendingJobs, round, ran>>
        /\ \A k \in Kinds : pending'[k] \subseteq pending[k]
    BY <1>3 DEF InterruptTurn
  <2>3. deferred \in Seq(DeferredCall) /\ kept \in SUBSET DOMAIN deferred
    BY DEF TypeOK, ApprovalTypes
  <2>4. kept \subseteq Nat /\ DOMAIN order \subseteq Nat
    <3>1. DOMAIN deferred = 1..Len(deferred) BY <2>3
    <3>2. DOMAIN order = 1..Cardinality(kept) BY <2>1
    <3>3. 1..Cardinality(kept) \subseteq Int /\ kept \subseteq 1..Len(deferred) BY <2>3, <3>1
    <3> QED BY <3>2, <3>3
  <2>5. \A i, j \in DOMAIN deferred : deferred[i].call = deferred[j].call => i = j
    BY DEF PlaceInv
  <2> HIDE DEF kept
  <2>6. \A i, j \in DOMAIN order : order[i] = order[j] => i = j
    <3>1. \A i \in DOMAIN order : order[i] \in Nat BY <2>1, <2>4
    <3>2. \A i, j \in DOMAIN order : i < j \/ j < i \/ i = j BY <2>4
    <3>3. \A i, j \in DOMAIN order : i < j => order[i] # order[j] BY <2>1, <3>1
    <3> QED BY <3>2, <3>3
  <2>7. \A i, j \in DOMAIN deferred' : deferred'[i].call = deferred'[j].call => i = j
    BY <2>1, <2>3, <2>5, <2>6
  <2>8. \A d : Deferred(d)' => Deferred(d)
    BY <2>1, <2>3 DEF Deferred
  <2>9. /\ \A d : Requested(d)' <=> Requested(d)
        /\ \A d : Begun(d)' <=> Begun(d)
        /\ \A i, j \in DOMAIN requests' : requests'[i] = requests'[j] => i = j
        /\ \A i, j \in DOMAIN pendingJobs' : pendingJobs'[i] = pendingJobs'[j] => i = j
        /\ \A i \in DOMAIN pendingJobs' : job'[pendingJobs'[i]] = "queued"
        /\ ran' \subseteq Call /\ \A d \in ran' : Begun(d)'
    BY <2>2 DEF Requested, Begun, PlaceInv, TypeOK, JobTypes
  <2> QED BY <2>2, <2>7, <2>8, <2>9, PlaceFrame
<1>4. ASSUME NEW kind \in Kinds, ExpirePrompts(kind) PROVE PlaceInv'
  <2>1. /\ UNCHANGED <<requests, deferred, job, pendingJobs, round, ran>>
        /\ \A k \in Kinds : pending'[k] \subseteq pending[k]
    BY <1>4 DEF ExpirePrompts, Withdraw, AnswerAll, TypeOK, ApprovalTypes
  <2>2. /\ \A d : (Requested(d)' <=> Requested(d)) /\ (Deferred(d)' <=> Deferred(d))
        /\ \A d : Begun(d)' <=> Begun(d)
        /\ \A i, j \in DOMAIN requests' : requests'[i] = requests'[j] => i = j
        /\ \A i, j \in DOMAIN deferred' : deferred'[i].call = deferred'[j].call => i = j
        /\ \A i, j \in DOMAIN pendingJobs' : pendingJobs'[i] = pendingJobs'[j] => i = j
        /\ \A i \in DOMAIN pendingJobs' : job'[pendingJobs'[i]] = "queued"
        /\ ran' \subseteq Call /\ \A d \in ran' : Begun(d)'
    BY <2>1 DEF Requested, Deferred, Begun, PlaceInv, TypeOK, JobTypes
  <2> QED BY <2>1, <2>2, PlaceFrame
<1> QED BY <1>1, <1>2, <1>3, <1>4, PlaceAdmitDeferred, PlaceReceive DEF Executor

LEMMA PlaceShutdown ==
  ASSUME TypeOK, PlaceInv, Shutdown
  PROVE  PlaceInv'
<1>1. /\ UNCHANGED <<requests, job, round, ran>> /\ deferred' = <<>>
      /\ pending' = [k \in Kinds |-> {}]
  BY DEF Shutdown
<1>2. PICK n \in 0..Len(pendingJobs) : pendingJobs' = SubSeq(pendingJobs, 1, n) BY DEF Shutdown
<1>3. pendingJobs \in Seq(Call) BY DEF TypeOK, JobTypes
<1>4. /\ DOMAIN pendingJobs' = 1..n /\ 1..n \subseteq DOMAIN pendingJobs
      /\ \A i \in 1..n : pendingJobs'[i] = pendingJobs[i]
  BY <1>2, <1>3
<1>5. /\ \A d : (Requested(d)' <=> Requested(d)) /\ ~Deferred(d)'
      /\ \A d : Begun(d)' <=> Begun(d)
      /\ \A i, j \in DOMAIN requests' : requests'[i] = requests'[j] => i = j
      /\ \A i, j \in DOMAIN deferred' : deferred'[i].call = deferred'[j].call => i = j
      /\ ran' \subseteq Call /\ \A d \in ran' : Begun(d)'
  BY <1>1 DEF Requested, Deferred, Begun, PlaceInv, TypeOK, JobTypes
<1>6. /\ \A i, j \in DOMAIN pendingJobs' : pendingJobs'[i] = pendingJobs'[j] => i = j
      /\ \A i \in DOMAIN pendingJobs' : job'[pendingJobs'[i]] = "queued"
  BY <1>1, <1>4 DEF PlaceInv
<1> QED BY <1>1, <1>5, <1>6, PlaceFrame

LEMMA PlaceWorker ==
  ASSUME TypeOK, PlaceInv, Worker
  PROVE  PlaceInv'
<1>1. PICK c \in Call :
        /\ \E p \in {"checked", "ending", "handling", "done"} : job' = [job EXCEPT ![c] = p]
        /\ ran' \subseteq ran \cup {c}
        /\ \/ UNCHANGED pendingJobs /\ job[c] \in {"checked", "ending", "handling"}
           \/ /\ pendingJobs # <<>> /\ pendingJobs' = Tail(pendingJobs)
              /\ c = Head(pendingJobs) /\ UNCHANGED ran
  BY WorkerStep
<1>2. UNCHANGED <<requests, deferred, pending, round>>
  BY WorkerStep
<1>3. job \in [Call -> JobState] /\ pendingJobs \in Seq(Call) /\ ran \subseteq Call
  BY DEF TypeOK, JobTypes
<1>4. /\ \A i, j \in DOMAIN pendingJobs : pendingJobs[i] = pendingJobs[j] => i = j
      /\ \A i \in DOMAIN pendingJobs : job[pendingJobs[i]] = "queued"
  BY DEF PlaceInv
<1>5. /\ Begun(c)
      /\ \A i, j \in DOMAIN pendingJobs' : pendingJobs'[i] = pendingJobs'[j] => i = j
      /\ \A i \in DOMAIN pendingJobs' :
           pendingJobs'[i] \in Call /\ pendingJobs'[i] # c /\ job[pendingJobs'[i]] = "queued"
  <2>1. CASE UNCHANGED pendingJobs /\ job[c] \in {"checked", "ending", "handling"}
    <3>1. \A i \in DOMAIN pendingJobs : pendingJobs[i] \in Call BY <1>3, Element
    <3> QED BY <1>4, <2>1, <3>1 DEF Begun
  <2>2. CASE pendingJobs # <<>> /\ pendingJobs' = Tail(pendingJobs) /\ c = Head(pendingJobs)
    <3>1. /\ 1 \in DOMAIN pendingJobs /\ c = pendingJobs[1]
          /\ DOMAIN pendingJobs' = 1..(Len(pendingJobs) - 1)
          /\ \A i \in DOMAIN pendingJobs' :
               i + 1 \in DOMAIN pendingJobs /\ pendingJobs'[i] = pendingJobs[i + 1]
      BY <1>3, <2>2, HeadTail
    <3>2. \A i \in DOMAIN pendingJobs : pendingJobs[i] \in Call BY <1>3, Element
    <3> QED BY <1>4, <3>1, <3>2 DEF Begun
  <2> QED BY <1>1, <2>1, <2>2
<1>6. \A d \in Call : (Begun(d)' <=> Begun(d)) /\ (d # c => job'[d] = job[d])
  BY <1>1, <1>3, <1>5 DEF Begun
<1>7. /\ \A d : (Requested(d)' <=> Requested(d)) /\ (Deferred(d)' <=> Deferred(d))
      /\ \A i, j \in DOMAIN requests' : requests'[i] = requests'[j] => i = j
      /\ \A i, j \in DOMAIN deferred' : deferred'[i].call = deferred'[j].call => i = j
  BY <1>2 DEF Requested, Deferred, PlaceInv
<1>8. ran' \subseteq Call /\ \A d \in ran' : Begun(d)'
  BY <1>1, <1>3, <1>5, <1>6 DEF PlaceInv
<1>9. \A i \in DOMAIN pendingJobs' : job'[pendingJobs'[i]] = "queued" BY <1>5, <1>6
<1> QED BY <1>2, <1>5, <1>6, <1>7, <1>8, <1>9, PlaceFrame

LEMMA PlaceDispatch ==
  ASSUME TypeOK, PlaceInv, NEW t \in Turn, DispatchTools(t)
  PROVE  PlaceInv'
<1> PICK n : n = round[t] + 1 OBVIOUS
<1> DEFINE new == Rounds[t][n]
<1>1. /\ round[t] < Len(Rounds[t]) /\ round' = [round EXCEPT ![t] = n]
      /\ requests' = requests \o new
      /\ UNCHANGED <<deferred, pending, job, pendingJobs, ran>>
  BY DEF DispatchTools
<1>2. /\ round \in [Turn -> Nat] /\ requests \in Seq(Call) /\ Rounds[t] \in Seq(Seq(Call))
  BY RoundsAssumption DEF TypeOK, RuntimeTypes, ChannelTypes
<1>3. n \in 1..Len(Rounds[t]) /\ n \in DOMAIN Rounds[t] /\ new \in Seq(Call)
  <2>1. n \in 1..Len(Rounds[t]) /\ DOMAIN Rounds[t] = 1..Len(Rounds[t]) BY <1>1, <1>2
  <2> QED BY <1>2, <2>1, Element
<1>4. \A i \in DOMAIN new : new[i] \in Call /\ TurnOf(new[i]) = t /\ new[i] \in RoundCalls(t, n)
  <2>1. \A i \in DOMAIN new : new[i] \in RoundCalls(t, n) BY <1>3 DEF RoundCalls, Items
  <2>2. \A c \in RoundCalls(t, n) : c \in CallsOf(t) BY <1>3 DEF CallsOf
  <2> QED BY <2>1, <2>2, TurnOfCall
<1>5. \A i \in DOMAIN new : ~Dispatched(new[i])
  <2> SUFFICES ASSUME NEW i \in DOMAIN new, Dispatched(new[i]) PROVE FALSE OBVIOUS
  <2>1. PICK m \in 1..round[t] : new[i] \in RoundCalls(t, m) BY <1>4 DEF Dispatched
  <2>2. m \in DOMAIN Rounds[t] /\ m \in 1..Len(Rounds[t]) /\ m # n
    <3>1. round[t] \in Nat /\ DOMAIN Rounds[t] = 1..Len(Rounds[t]) /\ Len(Rounds[t]) \in Nat
      BY <1>2
    <3> QED BY <1>1, <2>1, <3>1
  <2>3. Rounds[t][m] \in Seq(Call) BY <1>2, <2>2, Element
  <2>4. PICK j \in DOMAIN Rounds[t][m] : new[i] = Rounds[t][m][j]
    <3>1. DOMAIN Rounds[t][m] = 1..Len(Rounds[t][m]) BY <2>3
    <3> QED BY <2>1, <3>1 DEF RoundCalls, Items
  <2>5. Rounds[t][n][i] = Rounds[t][m][j] BY <2>4
  <2> QED BY <1>3, <2>2, <2>5, CallOnce
<1>6. \A i, j \in DOMAIN new : new[i] = new[j] => i = j
  BY <1>3, CallOnce
<1>7. /\ DOMAIN requests' = 1..(Len(requests) + Len(new))
      /\ DOMAIN requests = 1..Len(requests) /\ DOMAIN new = 1..Len(new)
      /\ Len(requests) \in Nat /\ Len(new) \in Nat
      /\ \A i \in DOMAIN requests' :
           requests'[i] = IF i <= Len(requests) THEN requests[i] ELSE new[i - Len(requests)]
  <2> HIDE DEF new
  <2> QED BY <1>1, <1>2, <1>3, Concat
<1> HIDE DEF new
<1>8. \A i \in DOMAIN requests : Dispatched(requests[i])
  <2>1. \A i \in DOMAIN requests : requests[i] \in Call BY <1>2, <1>7, Element
  <2> QED BY <2>1 DEF PlaceInv, OnePlace, Requested
<1>9. \A i, j \in DOMAIN requests' : requests'[i] = requests'[j] => i = j
  <2>1. \A i, j \in DOMAIN requests : requests[i] = requests[j] => i = j BY DEF PlaceInv
  <2>2. \A i \in DOMAIN requests, j \in DOMAIN new : requests[i] # new[j] BY <1>5, <1>8
  <2> QED BY <1>6, <1>7, <2>1, <2>2
<1>10. \A c \in Call : Dispatched(c) => Dispatched(c)'
  BY <1>1, <1>2, TurnOfCall DEF Dispatched
<1>11. \A i \in DOMAIN new : Dispatched(new[i])'
  <2>1. round'[t] = n /\ n \in 1..n BY <1>1, <1>2
  <2> QED BY <1>4, <2>1 DEF Dispatched
<1>12. \A c \in Call : Requested(c)' => Requested(c) \/ \E i \in DOMAIN new : c = new[i]
  BY <1>7 DEF Requested
<1>13. ASSUME NEW c \in Call PROVE OnePlace(c)'
  <2>1. /\ Deferred(c)' <=> Deferred(c)
        /\ Prompted(c)' <=> Prompted(c)
        /\ Begun(c)' <=> Begun(c)
    BY <1>1 DEF Deferred, Prompted, Begun
  <2>2. CASE \E i \in DOMAIN new : c = new[i]
    <3> PICK i \in DOMAIN new : c = new[i] BY <2>2
    <3>1. ~Dispatched(c) /\ Dispatched(c)' BY <1>5, <1>11
    <3> QED BY <1>1, <2>1, <3>1 DEF PlaceInv, OnePlace
  <2>3. CASE ~\E i \in DOMAIN new : c = new[i]
    BY <1>1, <1>10, <1>12, <2>1, <2>3 DEF PlaceInv, OnePlace
  <2> QED BY <2>2, <2>3
<1>14. \A u \in Turn : round'[u] \in 0..Len(Rounds[u]) BY <1>1, <1>2, <1>3, SMTT(20) DEF PlaceInv
<1> QED BY <1>1, <1>9, <1>13, <1>14 DEF PlaceInv, Begun

\* Every call is in one place at a time.
LEMMA PlaceNext ==
  ASSUME TypeOK, PlaceInv, [Next]_vars
  PROVE  PlaceInv'
<1> DEFINE Same == UNCHANGED <<requests, deferred, pending, job, pendingJobs, round, ran>>
<1>1. CASE UNCHANGED vars
  <2>1. Same BY <1>1 DEF vars
  <2> QED BY <2>1, PlaceUnchanged
<1>2. CASE Router
  <2>1. CASE RouteToolResult
    BY <2>1, PlaceUnchanged DEF RouteToolResult
  <2>2. ASSUME NEW kind \in Kinds, RoutePrompt(kind) PROVE Same
    BY <2>2 DEF RoutePrompt
  <2>3. ASSUME NEW kind \in Kinds, NEW c \in Call, ExpireRouted(kind, c) PROVE Same
    BY <2>3 DEF ExpireRouted
  <2> QED BY <1>2, <2>1, <2>2, <2>3, PlaceUnchanged
       DEF Router, routePermissionRequests, routeConfirmationRequests, expirePermission,
           expireConfirmation, Kinds
<1>3. CASE Resolve
  <2>1. UNCHANGED resolveOnly
    BY <1>3 DEF Resolve, ResolvePermission, ResolveConfirmation, ResolveBegin, Forward, ResolveCommit
  <2> QED BY <2>1, PlaceUnchanged, SMTT(30)
<1>4. CASE Runs
  <2>1. ASSUME NEW t \in Turn, StartRun(t) \/ RunCompletes(t) \/ InterruptRun(t) \/ CloseRun(t)
        PROVE  Same
    BY <2>1 DEF StartRun, RunCompletes, InterruptRun, CloseRun, unregister
  <2> QED BY <1>4, <2>1, PlaceDispatch, PlaceUnchanged DEF Runs
<1>5. CASE Environment
  <2>1. CASE ReadyChanges
    BY <2>1, PlaceUnchanged DEF ReadyChanges
  <2>2. ASSUME NEW kind \in Kinds, NEW c \in Call, Tick(kind, c) PROVE Same
    BY <2>2 DEF Tick
  <2>3. ASSUME NEW mode \in LaterModes, SetMode(mode) PROVE Same
    BY <2>3 DEF SetMode
  <2> QED BY <1>5, <2>1, <2>2, <2>3, PlaceShutdown, PlaceUnchanged DEF Environment
<1> QED BY <1>1, <1>2, <1>3, <1>4, <1>5, PlaceExecutor, PlaceWorker DEF Next
-----------------------------------------------------------------------------
(* What a call that has passed admission was admitted on. *)

Covered(c) == hasGrant(grants, Session(c), Needs[c].actions, HasProject)
AdmittedAs(c) == Evaluate(Needs[c], [mode |-> admission[c].mode, rules |-> Rules])

\* Something speaks for the call; nothing speaks against it.
Sanctioned(c) ==
  \/ Needs[c].actions = <<>> \/ AdmittedAs(c) = "allow" \/ Covered(c)
  \/ record["permission"][c] = "allowed"
NotDenied(c) == Needs[c].actions = <<>> \/ AdmittedAs(c) # "deny" \/ Covered(c)

\* A call that waits for the answer to its first prompt is not denied; behind
\* the permission it is sanctioned, and behind the confirmation confirmed.
Authority(c) ==
  /\ Begun(c) \/ Deferred(c) \/ Prompted(c) => NotDenied(c)
  /\ Begun(c) \/ c \in pending["confirmation"] => Sanctioned(c)
  /\ \A i \in DOMAIN deferred : deferred[i].call = c /\ ~deferred[i].ask => Sanctioned(c)
  /\ Begun(c) /\ c \in Confirms => record["confirmation"][c] = "confirmed"

AuthorityInv == \A c \in Call \ EndTools : Authority(c)

\* What Outcome says of a call.
LEMMA OutcomeMeans ==
  ASSUME NEW c \in Call, NEW snapshot
  PROVE  LET says == Evaluate(Needs[c], [mode |-> snapshot.mode, rules |-> Rules])
         IN /\ Outcome(c, snapshot) = "allow" =>
                 Needs[c].actions = <<>> \/ Covered(c) \/ says = "allow"
            /\ Outcome(c, snapshot) # "deny" =>
                 Needs[c].actions = <<>> \/ Covered(c) \/ says # "deny"
<1> DEFINE says == Evaluate(Needs[c], [mode |-> snapshot.mode, rules |-> Rules])
<1>1. Outcome(c, snapshot) =
        IF Needs[c].actions = <<>> THEN "allow"
        ELSE IF NonInteractive /\ (IF Covered(c) THEN "allow" ELSE says) = "ask"
             THEN "deny" ELSE IF Covered(c) THEN "allow" ELSE says
  BY DEF Outcome, Covered
<1> HIDE DEF says
<1>2. /\ Outcome(c, snapshot) = "allow" => Needs[c].actions = <<>> \/ Covered(c) \/ says = "allow"
      /\ Outcome(c, snapshot) # "deny" => Needs[c].actions = <<>> \/ Covered(c) \/ says # "deny"
  BY <1>1
<1> QED BY <1>2 DEF says

\* Grants stay, and with them what speaks for a call.
LEMMA GrantsKept ==
  ASSUME NEW c \in Call, admission'[c] = admission[c], grants \subseteq grants'
  PROVE  /\ Covered(c) => Covered(c)'
         /\ AdmittedAs(c)' = AdmittedAs(c)
         /\ NotDenied(c) => NotDenied(c)'
<1>1. Covered(c) => Covered(c)' BY DEF Covered, hasGrant
<1>2. AdmittedAs(c)' = AdmittedAs(c) BY DEF AdmittedAs
<1> QED BY <1>1, <1>2 DEF NotDenied

LEMMA SanctionKept ==
  ASSUME NEW c \in Call, admission'[c] = admission[c], grants \subseteq grants',
         record["permission"][c] = "allowed" => record'["permission"][c] = "allowed"
  PROVE  /\ Sanctioned(c) => Sanctioned(c)'
         /\ NotDenied(c) => NotDenied(c)'
BY GrantsKept DEF Sanctioned

\* A step that does not take the call further.
LEMMA AuthorityKept ==
  ASSUME NEW c \in Call, Authority(c), Begun(c)' => Begun(c),
         \A kind \in Kinds : c \in pending'[kind] => c \in pending[kind],
         \A i \in DOMAIN deferred' :
           deferred'[i].call = c => \E j \in DOMAIN deferred : deferred[j] = deferred'[i],
         admission'[c] = admission[c], grants \subseteq grants',
         record["permission"][c] = "allowed" => record'["permission"][c] = "allowed",
         record["confirmation"][c] = "confirmed" => record'["confirmation"][c] = "confirmed"
  PROVE  Authority(c)'
<1>1. (Sanctioned(c) => Sanctioned(c)') /\ (NotDenied(c) => NotDenied(c)') BY SanctionKept
<1>2. Deferred(c)' => Deferred(c) BY DEF Deferred
<1>3. Prompted(c)' => Prompted(c) BY DEF Prompted
<1>4. c \in pending'["confirmation"] => c \in pending["confirmation"] BY DEF Kinds
<1>5. \A i \in DOMAIN deferred' : deferred'[i].call = c /\ ~deferred'[i].ask => Sanctioned(c)'
  <2> SUFFICES ASSUME NEW i \in DOMAIN deferred', deferred'[i].call = c, ~deferred'[i].ask
               PROVE  Sanctioned(c)'
    OBVIOUS
  <2> PICK j \in DOMAIN deferred : deferred[j] = deferred'[i] OBVIOUS
  <2> QED BY <1>1 DEF Authority
<1> QED BY <1>1, <1>2, <1>3, <1>4, <1>5 DEF Authority

LEMMA AuthorityUnchanged ==
  ASSUME AuthorityInv, UNCHANGED <<admission, approvals>>,
         \A c \in Call : Begun(c)' => Begun(c)
  PROVE  AuthorityInv'
<1> SUFFICES ASSUME NEW c \in Call \ EndTools PROVE Authority(c)' BY DEF AuthorityInv
<1>1. Authority(c) BY DEF AuthorityInv
<1>2. UNCHANGED <<deferred, pending, grants, record>> OBVIOUS
<1> QED BY <1>1, <1>2, AuthorityKept

\* How a call gets on: it gets a job with everything it needs, it is prompted,
\* or it gets neither.
Advances(c, rec, pend) ==
  /\ record' = rec \/ (\E kind \in Kinds, s \in {"pending", "cancelled"} :
                         record' = [rec EXCEPT ![kind][c] = s])
  /\ \/ /\ job' = [job EXCEPT ![c] = "queued"] /\ pending' = pend /\ record' = rec
        /\ c \in Confirms => rec["confirmation"][c] = "confirmed"
     \/ job' = job /\ pending' = pend
     \/ job' = job /\ pending' = [pend EXCEPT !["permission"] = @ \cup {c}]
     \/ /\ job' = job /\ pending' = [pend EXCEPT !["confirmation"] = @ \cup {c}]
        /\ record' = [rec EXCEPT !["confirmation"][c] = "pending"]

LEMMA AdmitConfirmationAdvances ==
  ASSUME NEW c, NEW rec, NEW pend, admitConfirmation(c, rec, pend)
  PROVE  Advances(c, rec, pend)
<1>1. CASE c \notin Confirms /\ newJob(c) /\ record' = rec /\ pending' = pend
  BY <1>1 DEF newJob, Advances
<1>2. CASE Answer(c, "declined") /\ record' = rec /\ pending' = pend
  BY <1>2 DEF Answer, Advances
<1>3. CASE Publish("confirmation", c, "failed", rec, pend)
  BY <1>3 DEF Publish, Answer, Advances, Kinds
<1> QED BY <1>1, <1>2, <1>3 DEF admitConfirmation

\* The call gets on from where it was; rec and pend are the records and the
\* waiting calls without its decision.
Advanced(c, rec, pend) ==
  /\ Advances(c, rec, pend) /\ UNCHANGED admission /\ grants \subseteq grants'
  /\ \A d \in Call, kind \in Kinds : d # c => rec[kind][d] = record[kind][d]
  /\ \A kind \in Kinds : c \notin pend[kind] /\ pend[kind] \subseteq pending[kind]
  /\ \A i \in DOMAIN deferred' : \E j \in DOMAIN deferred : deferred[j] = deferred'[i]
  /\ ~Deferred(c)' /\ ~Begun(c)
  /\ c \notin EndTools => NotDenied(c)'
  /\ c \notin EndTools /\ (Begun(c)' \/ c \in pending'["confirmation"]) => Sanctioned(c)'

LEMMA AuthorityAdvances ==
  ASSUME TypeOK, AuthorityInv, NEW c \in Call,
         NEW rec \in [Kinds -> [Call -> RecordState]], NEW pend \in [Kinds -> SUBSET Call],
         Advanced(c, rec, pend)
  PROVE  AuthorityInv'
<1> USE DEF Advanced
<1>1. job \in [Call -> JobState] BY DEF TypeOK, JobTypes
<1>2. ASSUME NEW d \in Call \ EndTools, d # c PROVE Authority(d)'
  <2>1. Authority(d) BY DEF AuthorityInv
  <2>2. Begun(d)' => Begun(d) BY <1>1, <1>2 DEF Advances, Begun
  <2>3. \A kind \in Kinds : d \in pending'[kind] => d \in pending[kind]
    BY <1>2 DEF Advances, Kinds
  <2>4. \A kind \in Kinds : record'[kind][d] = record[kind][d]
    BY <1>2 DEF Advances
  <2> QED BY <2>1, <2>2, <2>3, <2>4, AuthorityKept DEF Kinds
<1>3. ASSUME c \notin EndTools PROVE Authority(c)'
  <2>1. Begun(c)' /\ c \in Confirms => record'["confirmation"][c] = "confirmed"
    BY DEF Advances, Begun
  <2>2. \A i \in DOMAIN deferred' : deferred'[i].call # c BY DEF Deferred
  <2> QED BY <1>3, <2>1, <2>2 DEF Authority
<1> QED BY <1>2, <1>3 DEF AuthorityInv

LEMMA AuthorityInit == ASSUME Init PROVE AuthorityInv
BY DEF Init, AuthorityInv, Authority, Begun, Deferred, Prompted, Kinds

LEMMA AuthorityAdmitDeferred ==
  ASSUME TypeOK, PlaceInv, AuthorityInv, admitDeferredApproval
  PROVE  AuthorityInv'
<1>1. PICK i \in 1..Len(deferred) :
        LET c == deferred[i].call
            outcome == IF deferred[i].ask THEN Outcome(c, admission[c]) ELSE "allow"
        IN /\ deferred' = RemoveAt(deferred, i)
           /\ \/ outcome = "deny" /\ Answer(c, "denied") /\ UNCHANGED <<record, pending>>
              \/ outcome = "ask" /\ Publish("permission", c, "denied", record, pending)
              \/ outcome = "allow" /\ admitConfirmation(c, record, pending)
           /\ UNCHANGED <<admission, grants>>
  BY DEF admitDeferredApproval
<1> PICK c : c = deferred[i].call OBVIOUS
<1> PICK outcome : outcome = IF deferred[i].ask THEN Outcome(c, admission[c]) ELSE "allow" OBVIOUS
<1>2. /\ deferred \in Seq(DeferredCall) /\ pending \in [Kinds -> SUBSET Call]
      /\ record \in [Kinds -> [Call -> RecordState]] /\ job \in [Call -> JobState]
  BY DEF TypeOK, ApprovalTypes, JobTypes
<1>3. c \in Call /\ Deferred(c) /\ deferred[i].ask \in BOOLEAN /\ i \in DOMAIN deferred
  <2>1. deferred[i] \in DeferredCall BY <1>2, Element
  <2>2. i \in DOMAIN deferred BY <1>2
  <2> QED BY <2>1, <2>2 DEF DeferredCall, Deferred
<1>4. /\ DOMAIN deferred' = 1..(Len(deferred) - 1) /\ DOMAIN deferred = 1..Len(deferred)
      /\ \A j \in 1..(Len(deferred) - 1) :
           deferred'[j] = IF j < i THEN deferred[j] ELSE deferred[j + 1]
  BY <1>1, <1>2, Removed
<1>5. \A j, k \in DOMAIN deferred : deferred[j].call = deferred[k].call => j = k
  BY DEF PlaceInv
<1>6. \A j \in DOMAIN deferred' : \E k \in DOMAIN deferred : deferred[k] = deferred'[j]
  <2> SUFFICES ASSUME NEW j \in DOMAIN deferred'
               PROVE  \E k \in DOMAIN deferred : deferred[k] = deferred'[j]
    OBVIOUS
  <2>1. CASE j < i BY <1>4, <2>1
  <2>2. CASE ~(j < i) BY <1>4, <2>2
  <2> QED BY <2>1, <2>2
<1>7. ~Deferred(c)'
  BY <1>4, <1>5 DEF Deferred
<1>8. Advances(c, record, pending)
      /\ (outcome # "allow" => pending'["confirmation"] = pending["confirmation"] /\ job' = job)
  <2>1. CASE outcome = "deny" /\ Answer(c, "denied") /\ UNCHANGED <<record, pending>>
    BY <2>1 DEF Answer, Advances
  <2>2. CASE outcome = "ask" /\ Publish("permission", c, "denied", record, pending)
    BY <1>2, <2>2 DEF Publish, Answer, Advances, Kinds
  <2>3. CASE outcome = "allow" /\ admitConfirmation(c, record, pending)
    BY <2>3, AdmitConfirmationAdvances
  <2> QED BY <1>1, <2>1, <2>2, <2>3
<1>9. /\ ~Begun(c) /\ \A kind \in Kinds : c \notin pending[kind]
  BY <1>3 DEF PlaceInv, OnePlace, Prompted
<1>10. c \notin EndTools => Authority(c) BY <1>3 DEF AuthorityInv
<1>11. c \notin EndTools => NotDenied(c)'
  BY <1>1, <1>3, <1>10, GrantsKept DEF Authority
<1>12. c \notin EndTools /\ outcome = "allow" => (AdmittedAs(c) = "allow" \/ Covered(c)
                                                    \/ Needs[c].actions = <<>> \/ Sanctioned(c))
  <2>1. CASE deferred[i].ask
    BY <1>3, <2>1, OutcomeMeans DEF AdmittedAs
  <2>2. CASE ~deferred[i].ask BY <1>3, <1>10, <2>2 DEF Authority
  <2> QED BY <2>1, <2>2
<1>13. c \notin EndTools /\ (Begun(c)' \/ c \in pending'["confirmation"]) => Sanctioned(c)'
  <2> SUFFICES ASSUME c \notin EndTools, Begun(c)' \/ c \in pending'["confirmation"]
               PROVE  Sanctioned(c)'
    OBVIOUS
  <2>1. outcome = "allow" BY <1>8, <1>9 DEF Begun, Kinds
  <2>2. record'["permission"][c] = record["permission"][c]
    BY <1>2, <1>8, <1>9 DEF Advances, Begun, Kinds
  <2>3. Sanctioned(c) BY <1>12, <2>1 DEF Sanctioned
  <2> QED BY <1>1, <1>3, <2>2, <2>3, SanctionKept
<1>14. Advanced(c, record, pending)
  BY <1>1, <1>2, <1>3, <1>6, <1>7, <1>8, <1>9, <1>11, <1>13 DEF Advanced
<1> QED BY <1>1, <1>2, <1>3, <1>14, AuthorityAdvances

LEMMA AuthorityReceive ==
  ASSUME TypeOK, PlaceInv, AuthorityInv, ReceiveRequest
  PROVE  AuthorityInv'
<1> PICK c : c = Head(requests) OBVIOUS
<1> PICK outcome : outcome = Outcome(c, policy) OBVIOUS
<1>1. /\ requests # <<>> /\ UNCHANGED <<pending, record, grants>>
      /\ admission' = [admission EXCEPT ![c] = policy]
      /\ \/ UNCHANGED deferred /\ UNCHANGED job
         \/ UNCHANGED deferred /\ newJob(c) /\ c \in EndTools
         \/ UNCHANGED deferred /\ newJob(c) /\ c \notin Confirms /\ outcome = "allow"
         \/ /\ deferred' = Append(deferred, [call |-> c, ask |-> outcome = "ask"])
            /\ outcome \in {"ask", "allow"} /\ UNCHANGED job
  BY DEF ReceiveRequest, Answer, Early
<1>2. /\ requests \in Seq(Call) /\ deferred \in Seq(DeferredCall)
      /\ pending \in [Kinds -> SUBSET Call] /\ job \in [Call -> JobState]
      /\ admission \in [Call -> Snapshots] /\ "queued" \in JobState
  BY DEF TypeOK, ApprovalTypes, ChannelTypes, JobTypes, PolicyTypes, JobState
<1>3. c \in Call /\ Requested(c)
  <2>1. c \in Call /\ 1 \in DOMAIN requests /\ c = requests[1] BY <1>1, <1>2, HeadTail
  <2> QED BY <2>1 DEF Requested
<1>4. /\ ~Begun(c) /\ ~Deferred(c)
      /\ \A kind \in Kinds : c \notin pending[kind]
  BY <1>3 DEF PlaceInv, OnePlace, Prompted
<1>5. /\ outcome = "allow" => Needs[c].actions = <<>> \/ Covered(c)' \/ AdmittedAs(c)' = "allow"
      /\ outcome # "deny" => Needs[c].actions = <<>> \/ Covered(c)' \/ AdmittedAs(c)' # "deny"
  <2>1. Covered(c)' <=> Covered(c) BY <1>1 DEF Covered
  <2>2. admission'[c] = policy BY <1>1, <1>2, <1>3
  <2> QED BY <1>3, <2>1, <2>2, OutcomeMeans DEF AdmittedAs
<1>6. /\ outcome = "allow" => Sanctioned(c)'
      /\ outcome # "deny" => NotDenied(c)'
  BY <1>5 DEF Sanctioned, NotDenied
<1>7. /\ DOMAIN deferred = 1..Len(deferred)
      /\ \A i \in DOMAIN deferred' :
           \/ i \in DOMAIN deferred /\ deferred'[i] = deferred[i]
           \/ /\ outcome \in {"ask", "allow"}
              /\ deferred'[i] = [call |-> c, ask |-> outcome = "ask"]
  <2>1. DOMAIN deferred = 1..Len(deferred) BY <1>2
  <2>2. CASE UNCHANGED deferred BY <2>1, <2>2
  <2>3. CASE deferred' = Append(deferred, [call |-> c, ask |-> outcome = "ask"])
             /\ outcome \in {"ask", "allow"}
    <3> PICK x : x = [call |-> c, ask |-> outcome = "ask"] OBVIOUS
    <3>1. x \in DeferredCall BY <1>3 DEF DeferredCall
    <3>2. /\ DOMAIN deferred' = 1..(Len(deferred) + 1)
          /\ deferred'[Len(deferred) + 1] = x
          /\ \A i \in 1..Len(deferred) : deferred'[i] = deferred[i]
      BY <1>2, <2>3, <3>1, Appended
    <3> QED BY <2>1, <2>3, <3>2
  <2> QED BY <1>1, <2>1, <2>2, <2>3
<1>8. ASSUME NEW d \in Call \ EndTools, d # c PROVE Authority(d)'
  <2>1. Authority(d) BY DEF AuthorityInv
  <2>2. Begun(d)' => Begun(d) BY <1>1, <1>2, <1>3, <1>8 DEF newJob, Begun
  <2>3. admission'[d] = admission[d] BY <1>1, <1>2, <1>3, <1>8
  <2>4. \A i \in DOMAIN deferred' :
          deferred'[i].call = d => \E j \in DOMAIN deferred : deferred[j] = deferred'[i]
    BY <1>7, <1>8
  <2> QED BY <1>1, <2>1, <2>2, <2>3, <2>4, AuthorityKept
<1>9. ASSUME c \notin EndTools PROVE Authority(c)'
  <2>1. Begun(c)' => outcome = "allow" /\ c \notin Confirms
    BY <1>1, <1>4, <1>9 DEF Begun
  <2>2. \A i \in DOMAIN deferred' :
          deferred'[i].call = c => outcome \in {"ask", "allow"} /\ (~deferred'[i].ask => outcome = "allow")
    <3> SUFFICES ASSUME NEW i \in DOMAIN deferred', deferred'[i].call = c
                 PROVE  outcome \in {"ask", "allow"} /\ (~deferred'[i].ask => outcome = "allow")
      OBVIOUS
    <3>1. ~(i \in DOMAIN deferred /\ deferred'[i] = deferred[i]) BY <1>4 DEF Deferred
    <3>2. outcome \in {"ask", "allow"} /\ deferred'[i] = [call |-> c, ask |-> outcome = "ask"]
      BY <1>7, <3>1
    <3>3. \A x, b : x = [call |-> c, ask |-> b] => x.ask = b OBVIOUS
    <3>4. deferred'[i].ask = (outcome = "ask") BY <3>2, <3>3, Zenon
    <3> QED BY <3>2, <3>4
  <2>3. Deferred(c)' => outcome # "deny" BY <2>2 DEF Deferred
  <2>4. ~Prompted(c)' /\ c \notin pending'["confirmation"] BY <1>1, <1>4 DEF Prompted, Kinds
  <2> QED BY <1>6, <2>1, <2>2, <2>3, <2>4 DEF Authority
<1> QED BY <1>8, <1>9 DEF AuthorityInv

LEMMA AuthorityDecide ==
  ASSUME TypeOK, PlaceInv, AuthorityInv, DecidePermission \/ DecideConfirmation
  PROVE  AuthorityInv'
<1> PICK kind \in Kinds :
      /\ decisionTaken(kind)
      /\ kind = "permission" => DecidePermission
      /\ kind = "confirmation" => DecideConfirmation
  BY DEF Kinds, DecidePermission, DecideConfirmation
<1>1. /\ UNCHANGED <<admission, deferred>> /\ grants \subseteq grants'
  BY DEF decisionTaken, DecidePermission, DecideConfirmation, Kinds
<1>2. CASE ~Waits(kind)
  <2>1. UNCHANGED <<admission, approvals, job>>
    BY <1>1, <1>2 DEF DecidePermission, DecideConfirmation, Kinds
  <2> QED BY <2>1, AuthorityUnchanged DEF Begun
<1>3. CASE Waits(kind)
  <2> PICK c : c = Decision(kind).call OBVIOUS
  <2> PICK answer : answer = Decision(kind).answer OBVIOUS
  <2> PICK rec : rec = resolvedRecord(kind) OBVIOUS
  <2> PICK pend : pend = resolvedPending(kind) OBVIOUS
  <2>1. /\ c \in Call /\ answer \in AnswersTo(kind)
        /\ rec \in [Kinds -> [Call -> RecordState]] /\ pend \in [Kinds -> SUBSET Call]
    BY DecisionType, ResolvedTypes DEF decisionTaken
  <2>2. c \in pending[kind] /\ kind \in Kinds BY <1>3 DEF Waits
  <2>3. /\ pending \in [Kinds -> SUBSET Call] /\ record \in [Kinds -> [Call -> RecordState]]
        /\ job \in [Call -> JobState]
    BY DEF TypeOK, ApprovalTypes, JobTypes
  <2>4. /\ \A k \in Kinds : c \notin pend[k] /\ pend[k] \subseteq pending[k]
        /\ ~Begun(c) /\ ~Deferred(c)
    <3>1. pend = [pending EXCEPT ![kind] = @ \ {c}] BY DEF resolvedPending
    <3>2. \A k \in Kinds : k # kind => c \notin pending[k]
      BY <2>1, <2>2 DEF PlaceInv, OnePlace, Kinds
    <3>3. ~Begun(c) /\ ~Deferred(c) BY <2>1, <2>2 DEF PlaceInv, OnePlace, Prompted
    <3> QED BY <2>3, <3>1, <3>2, <3>3
  <2>5. rec = [record EXCEPT ![kind][c] = Verdict[answer]] BY DEF resolvedRecord
  <2>6. /\ \A d \in Call, k \in Kinds : d # c => rec[k][d] = record[k][d]
        /\ rec[kind][c] = Verdict[answer]
        /\ \A k \in Kinds : k # kind => rec[k] = record[k]
    BY <2>1, <2>3, <2>5
  <2>7. /\ Advances(c, rec, pend)
        /\ Begun(c)' \/ c \in pending'["confirmation"] => answer # "deny"
        /\ kind = "confirmation" => (c \notin pending'["confirmation"])
    <3>1. CASE kind = "permission" /\ answer = "deny"
      <4>1. Answer(c, "denied") /\ record' = rec /\ pending' = pend
        BY <1>3, <3>1 DEF DecidePermission
      <4> QED BY <2>4, <3>1, <4>1 DEF Answer, Advances, Begun, Kinds
    <3>2. CASE kind = "permission" /\ answer # "deny"
      <4>1. admitConfirmation(c, rec, pend) BY <1>3, <3>2 DEF DecidePermission
      <4> QED BY <3>2, <4>1, AdmitConfirmationAdvances
    <3>3. CASE kind = "confirmation"
      <4>1. record' = rec /\ pending' = pend
            /\ (IF answer = "yes" THEN newJob(c) ELSE Answer(c, "declined"))
        BY <1>3, <3>3 DEF DecideConfirmation
      <4>2. answer = "yes" => rec["confirmation"][c] = "confirmed"
        BY <2>6, <3>3 DEF Verdict
      <4>3. answer # "deny" BY <2>1, <3>3 DEF AnswersTo, ConfirmationAnswers
      <4> QED BY <2>4, <3>3, <4>1, <4>2, <4>3 DEF newJob, Answer, Advances, Kinds
    <3> QED BY <3>1, <3>2, <3>3 DEF Kinds
  <2>8. c \notin EndTools => Authority(c) BY <2>1 DEF AuthorityInv
  <2>9. c \notin EndTools => NotDenied(c)'
    BY <1>1, <2>1, <2>2, <2>8, GrantsKept DEF Authority, Prompted
  <2>10. c \notin EndTools /\ (Begun(c)' \/ c \in pending'["confirmation"]) => Sanctioned(c)'
    <3> SUFFICES ASSUME c \notin EndTools, Begun(c)' \/ c \in pending'["confirmation"]
                 PROVE  Sanctioned(c)'
      OBVIOUS
    <3>1. record'["permission"][c] = rec["permission"][c]
      <4>1. Begun(c)' => record' = rec BY <2>4, <2>7 DEF Advances, Begun
      <4>2. c \in pending'["confirmation"] =>
              record' = rec \/ record' = [rec EXCEPT !["confirmation"][c] = "pending"]
        BY <2>1, <2>4, <2>7 DEF Advances, Kinds
      <4> QED BY <2>1, <4>1, <4>2 DEF Kinds
    <3>2. CASE kind = "permission"
      <4>1. answer # "deny" BY <2>7
      <4>2. Verdict[answer] = "allowed"
        BY <2>1, <3>2, <4>1 DEF AnswersTo, PermissionAnswers, Verdict
      <4> QED BY <2>6, <3>1, <3>2, <4>2 DEF Sanctioned
    <3>3. CASE kind = "confirmation"
      <4>1. Sanctioned(c) BY <2>2, <2>8, <3>3 DEF Authority
      <4>2. record'["permission"][c] = record["permission"][c] BY <2>6, <3>1, <3>3 DEF Kinds
      <4> QED BY <1>1, <2>1, <4>1, <4>2, SanctionKept
    <3> QED BY <3>2, <3>3 DEF Kinds
  <2>11. ~Deferred(c)' BY <1>1, <2>4 DEF Deferred
  <2>12. \A i \in DOMAIN deferred' : \E j \in DOMAIN deferred : deferred[j] = deferred'[i]
    BY <1>1
  <2>13. UNCHANGED admission /\ grants \subseteq grants' BY <1>1
  <2>14. \A d \in Call, k \in Kinds : d # c => rec[k][d] = record[k][d] BY <2>6
  <2>15. Advances(c, rec, pend) BY <2>7
  <2>16. ~Begun(c) /\ \A k \in Kinds : c \notin pend[k] /\ pend[k] \subseteq pending[k] BY <2>4
  <2>17. Advanced(c, rec, pend)
    BY <2>9, <2>10, <2>11, <2>12, <2>13, <2>14, <2>15, <2>16, Zenon DEF Advanced
  <2> QED BY <2>1, <2>17, AuthorityAdvances
<1> QED BY <1>2, <1>3

\* A step that takes prompts and deferred calls back, and admits nothing.
LEMMA AuthorityInterrupt ==
  ASSUME TypeOK, AuthorityInv, InterruptTurn
  PROVE  AuthorityInv'
<1> DEFINE kept == {i \in DOMAIN deferred : deferred[i].call \notin CallsOf(Head(interrupts))}
<1>1. PICK order \in [1..Cardinality(kept) -> kept] :
        deferred' = [i \in DOMAIN order |-> deferred[order[i]]]
  BY DEF InterruptTurn
<1>2. /\ UNCHANGED <<job, admission, grants>>
      /\ \A k \in Kinds : pending'[k] \subseteq pending[k]
      /\ \A k \in Kinds, c \in Call :
           record'[k][c] = record[k][c] \/ (record[k][c] = "pending" /\ record'[k][c] = "cancelled")
  BY DEF InterruptTurn
<1>3. \A i \in DOMAIN deferred' : \E j \in DOMAIN deferred : deferred[j] = deferred'[i]
  BY <1>1
<1> SUFFICES ASSUME NEW c \in Call \ EndTools PROVE Authority(c)' BY DEF AuthorityInv
<1>4. Authority(c) /\ c \in Call BY DEF AuthorityInv
<1>5. /\ record["permission"][c] = "allowed" => record'["permission"][c] = "allowed"
      /\ record["confirmation"][c] = "confirmed" => record'["confirmation"][c] = "confirmed"
  BY <1>2, <1>4 DEF Kinds
<1>6. Begun(c)' => Begun(c) BY <1>2 DEF Begun
<1> QED BY <1>2, <1>3, <1>4, <1>5, <1>6, AuthorityKept

LEMMA AuthorityExpire ==
  ASSUME TypeOK, AuthorityInv, NEW kind \in Kinds, ExpirePrompts(kind)
  PROVE  AuthorityInv'
<1>1. pending \in [Kinds -> SUBSET Call] /\ record \in [Kinds -> [Call -> RecordState]]
  BY DEF TypeOK, ApprovalTypes
<1>2. /\ UNCHANGED <<job, admission, grants, deferred>>
      /\ \A k \in Kinds : pending'[k] \subseteq pending[k]
      /\ \A k \in Kinds, c \in Call :
           record'[k][c] = record[k][c] \/ record[k][c] = "pending"
  BY <1>1 DEF ExpirePrompts, Withdraw, AnswerAll
<1> SUFFICES ASSUME NEW c \in Call \ EndTools PROVE Authority(c)' BY DEF AuthorityInv
<1>3. Authority(c) /\ c \in Call BY DEF AuthorityInv
<1>4. /\ record["permission"][c] = "allowed" => record'["permission"][c] = "allowed"
      /\ record["confirmation"][c] = "confirmed" => record'["confirmation"][c] = "confirmed"
  BY <1>2, <1>3 DEF Kinds
<1>5. Begun(c)' => Begun(c) BY <1>2 DEF Begun
<1> QED BY <1>2, <1>3, <1>4, <1>5, AuthorityKept

\* A call whose confirmation is cancelled at the end was waiting for it.
LEMMA AuthorityShutdown ==
  ASSUME TypeOK, PlaceInv, AuthorityInv, Shutdown
  PROVE  AuthorityInv'
<1>1. /\ UNCHANGED <<job, admission, grants>> /\ deferred' = <<>>
      /\ pending' = [k \in Kinds |-> {}]
      /\ record' = [record EXCEPT !["confirmation"] =
           [c \in Call |-> IF c \in pending["confirmation"] THEN "cancelled" ELSE @[c]]]
  BY DEF Shutdown
<1>2. record \in [Kinds -> [Call -> RecordState]] BY DEF TypeOK, ApprovalTypes
<1> SUFFICES ASSUME NEW c \in Call \ EndTools PROVE Authority(c)' BY DEF AuthorityInv
<1>3. Authority(c) /\ c \in Call BY DEF AuthorityInv
<1>4. record'["permission"][c] = record["permission"][c]
  BY <1>1, <1>2, <1>3 DEF Kinds
<1>5. ~Deferred(c)' /\ ~Prompted(c)' /\ (Begun(c)' <=> Begun(c))
  BY <1>1 DEF Deferred, Prompted, Begun
<1>6. Begun(c) => record'["confirmation"][c] = record["confirmation"][c]
  <2>1. Begun(c) => c \notin pending["confirmation"]
    BY <1>3 DEF PlaceInv, OnePlace, Prompted, Kinds
  <2> QED BY <1>1, <1>2, <1>3, <2>1 DEF Kinds
<1>7. (Sanctioned(c) => Sanctioned(c)') /\ (NotDenied(c) => NotDenied(c)')
  BY <1>1, <1>3, <1>4, SanctionKept
<1>8. c \notin pending'["confirmation"] /\ \A i \in DOMAIN deferred' : FALSE BY <1>1 DEF Kinds
<1> QED BY <1>3, <1>5, <1>6, <1>7, <1>8 DEF Authority

LEMMA AuthorityNext ==
  ASSUME TypeOK, PlaceInv, AuthorityInv, [Next]_vars
  PROVE  AuthorityInv'
<1> DEFINE Same == UNCHANGED <<admission, approvals, job>>
<1>1. CASE UNCHANGED vars
  <2>1. Same BY <1>1 DEF vars
  <2> QED BY <2>1, AuthorityUnchanged DEF Begun
<1>2. CASE Executor
  BY <1>2, AuthorityAdmitDeferred, AuthorityReceive, AuthorityDecide, AuthorityInterrupt,
     AuthorityExpire DEF Executor
<1>3. CASE Worker
  <2>1. PICK c \in Call :
          /\ \E p \in {"checked", "ending", "handling", "done"} : job' = [job EXCEPT ![c] = p]
          /\ \/ job[c] \in {"checked", "ending", "handling"}
             \/ pendingJobs # <<>> /\ c = Head(pendingJobs)
    BY <1>3, WorkerStep
  <2>2. UNCHANGED <<admission, approvals>> BY <1>3, WorkerStep
  <2>3. job \in [Call -> JobState] /\ pendingJobs \in Seq(Call) BY DEF TypeOK, JobTypes
  <2>4. Begun(c)
    <3>1. CASE pendingJobs # <<>> /\ c = Head(pendingJobs)
      <4>1. 1 \in DOMAIN pendingJobs /\ c = pendingJobs[1] BY <2>3, <3>1, HeadTail
      <4> QED BY <4>1 DEF PlaceInv, Begun
    <3>2. CASE job[c] \in {"checked", "ending", "handling"} BY <3>2 DEF Begun
    <3> QED BY <2>1, <3>1, <3>2
  <2>5. \A d \in Call : Begun(d)' => Begun(d) BY <2>1, <2>3, <2>4 DEF Begun
  <2> QED BY <2>2, <2>5, AuthorityUnchanged
<1>4. CASE Router
  <2>2. ASSUME NEW kind \in Kinds, RoutePrompt(kind) PROVE Same
    BY <2>2 DEF RoutePrompt
  <2>3. ASSUME NEW kind \in Kinds, NEW c \in Call, ExpireRouted(kind, c) PROVE Same
    BY <2>3 DEF ExpireRouted
  <2>4. Same
    BY <1>4, <2>2, <2>3, SMTT(30)
       DEF Router, routePermissionRequests, routeConfirmationRequests, expirePermission,
           expireConfirmation, Kinds, RouteToolResult
  <2> QED BY <2>4, AuthorityUnchanged DEF Begun
<1>5. CASE Resolve
  <2>1. UNCHANGED resolveOnly
    BY <1>5 DEF Resolve, ResolvePermission, ResolveConfirmation, ResolveBegin, Forward, ResolveCommit
  <2>2. Same BY <2>1
  <2> QED BY <2>2, AuthorityUnchanged DEF Begun
<1>6. CASE Runs
  <2>1. UNCHANGED runOnly
    BY <1>6 DEF Runs, StartRun, DispatchTools, RunCompletes, InterruptRun, CloseRun, unregister
  <2>2. Same BY <2>1
  <2> QED BY <2>2, AuthorityUnchanged DEF Begun
<1>7. CASE Environment
  <2>1. CASE Shutdown BY <2>1, AuthorityShutdown
  <2>2. CASE ~Shutdown
    <3>1. Same
      BY <1>7, <2>2 DEF Environment, ReadyChanges, Tick, SetMode
    <3> QED BY <3>1, AuthorityUnchanged DEF Begun
  <2> QED BY <2>1, <2>2
<1> QED BY <1>1, <1>2, <1>3, <1>4, <1>5, <1>6, <1>7 DEF Next

-----------------------------------------------------------------------------
(* A handler runs only with leave, and no call starts that is denied. *)

\* An epoch stands for one mode.
EpochInv == \A c \in Call : admission[c].epoch = policy.epoch => admission[c] = policy

LEMMA EpochNext ==
  ASSUME TypeOK, EpochInv, [Next]_vars
  PROVE  EpochInv'
<1>1. policy \in Snapshots /\ admission \in [Call -> Snapshots]
      /\ \A c \in Call : admission[c].epoch <= policy.epoch
  BY DEF TypeOK, PolicyTypes
<1>2. CASE UNCHANGED <<admission, policy>> BY <1>2 DEF EpochInv
<1>3. CASE ReceiveRequest
  <2>1. PICK c : admission' = [admission EXCEPT ![c] = policy] /\ policy' = policy
    BY <1>3 DEF ReceiveRequest
  <2> QED BY <1>1, <2>1 DEF EpochInv
<1>4. ASSUME NEW mode \in LaterModes, SetMode(mode) PROVE EpochInv'
  <2>1. policy'.epoch = policy.epoch + 1 /\ admission' = admission
    BY <1>4 DEF SetMode
  <2>2. \A c \in Call : admission'[c].epoch # policy'.epoch
    BY <1>1, <2>1 DEF Snapshots
  <2> QED BY <2>2 DEF EpochInv
<1>5. [Next]_vars => ReceiveRequest \/ UNCHANGED <<admission, policy>>
                      \/ \E mode \in LaterModes : SetMode(mode)
  <2>1. CASE Executor
    BY <2>1 DEF Executor, admitDeferredApproval, DecidePermission, DecideConfirmation,
       decisionTaken, InterruptTurn, ExpirePrompts
  <2>2. CASE Worker BY <2>2, WorkerStep
  <2>3. CASE Router
    BY <2>3 DEF Router, RouteToolResult, RoutePrompt, ExpireRouted, routePermissionRequests,
       routeConfirmationRequests, expirePermission, expireConfirmation
  <2>4. CASE Resolve
    <3>1. UNCHANGED resolveOnly
      BY <2>4 DEF Resolve, ResolvePermission, ResolveConfirmation, ResolveBegin, Forward,
                  ResolveCommit
    <3> QED BY <3>1
  <2>5. CASE Runs
    BY <2>5 DEF Runs, StartRun, DispatchTools, RunCompletes, InterruptRun, CloseRun, unregister
  <2>6. CASE Environment
    BY <2>6 DEF Environment, Shutdown, ReadyChanges, Tick
  <2> QED BY <2>1, <2>2, <2>3, <2>4, <2>5, <2>6 DEF Next, vars
<1> QED BY <1>2, <1>3, <1>4, <1>5

\* Jobs that no worker touches are queued or left alone.
LEMMA JobStep ==
  ASSUME [Next]_vars, ~Worker
  PROVE  UNCHANGED job \/ \E c : job' = [job EXCEPT ![c] = "queued"]
<1> DEFINE Effect == UNCHANGED job \/ \E c : job' = [job EXCEPT ![c] = "queued"]
<1>1. ASSUME NEW c, NEW kind, NEW refusal, NEW rec, NEW pend, Publish(kind, c, refusal, rec, pend)
      PROVE  Effect
  BY <1>1 DEF Publish, Answer
<1>2. ASSUME NEW c, newJob(c) PROVE Effect BY <1>2 DEF newJob
<1>3. ASSUME NEW c, NEW status, Answer(c, status) PROVE Effect BY <1>3 DEF Answer
<1>4. ASSUME NEW c, NEW rec, NEW pend, admitConfirmation(c, rec, pend) PROVE Effect
  BY <1>1, <1>2, <1>3, <1>4 DEF admitConfirmation
<1> SUFFICES Effect OBVIOUS
<1> HIDE DEF Effect
<1>5. CASE UNCHANGED job BY <1>5 DEF Effect
<1>6. CASE Executor
  <2>1. CASE admitDeferredApproval
    BY <1>1, <1>3, <1>4, <2>1 DEF admitDeferredApproval
  <2>2. CASE ReceiveRequest BY <1>2, <1>3, <1>5, <2>2 DEF ReceiveRequest
  <2>3. CASE DecidePermission BY <1>3, <1>4, <1>5, <2>3 DEF DecidePermission
  <2>4. CASE DecideConfirmation BY <1>2, <1>3, <1>5, <2>4 DEF DecideConfirmation
  <2>5. CASE UNCHANGED job BY <2>5, <1>5
  <2> QED BY <1>6, <2>1, <2>2, <2>3, <2>4, <2>5
       DEF Executor, InterruptTurn, ExpirePrompts, AnswerAll
<1>7. CASE Router
  BY <1>5, <1>7 DEF Router, RouteToolResult, RoutePrompt, ExpireRouted, routePermissionRequests,
     routeConfirmationRequests, expirePermission, expireConfirmation
<1>8. CASE Resolve
  <2>1. UNCHANGED resolveOnly
    BY <1>8 DEF Resolve, ResolvePermission, ResolveConfirmation, ResolveBegin, Forward,
                ResolveCommit
  <2> QED BY <1>5, <2>1, SMTT(30)
<1>9. CASE Runs
  BY <1>5, <1>9 DEF Runs, StartRun, DispatchTools, RunCompletes, InterruptRun, CloseRun, unregister
<1>10. CASE Environment
  BY <1>5, <1>10 DEF Environment, Shutdown, ReadyChanges, Tick, SetMode
<1>11. CASE UNCHANGED vars BY <1>5, <1>11 DEF vars
<1> QED BY <1>6, <1>7, <1>8, <1>9, <1>10, <1>11 DEF Next, Effect

AdmissionInv == TypeOK /\ PlaceInv /\ AuthorityInv /\ EpochInv

LEMMA AdmissionInvariant == Spec => []AdmissionInv
<1>1. Init => AdmissionInv
  <2>1. ASSUME Init PROVE EpochInv BY <2>1 DEF Init, EpochInv
  <2> QED BY <2>1, TypeInit, PlaceInit, AuthorityInit DEF AdmissionInv
<1>2. AdmissionInv /\ [Next]_vars => AdmissionInv'
  BY TypeNext, PlaceNext, AuthorityNext, EpochNext DEF AdmissionInv
<1> QED BY <1>1, <1>2, PTL DEF Spec

\* A call that the current policy denies does not start, however the mode was
\* switched since it was admitted, unless a remembered decision covers it.
THEOREM NoStartWhenDenied == Spec => NoStartUnderDeny
<1> DEFINE Start(c) == job[c] = "queued" /\ job'[c] = "checked" /\ Needs[c].actions # <<>>
           Leave(c) ==
             \/ Evaluate(Needs[c], [mode |-> policy.mode, rules |-> Rules]) # "deny"
             \/ hasGrant(grants, Session(c), Needs[c].actions, HasProject)
<1>1. ASSUME AdmissionInv, [Next]_vars, NEW c \in Call \ EndTools, Start(c) PROVE Leave(c)
  <2>1. TypeOK /\ PlaceInv /\ AuthorityInv /\ EpochInv BY <1>1 DEF AdmissionInv
  <2>2. isCurrent(c)
    <3>1. job \in [Call -> JobState] BY <2>1 DEF TypeOK, JobTypes
    <3>2. CASE Worker
      <4>1. PICK d \in Call :
              /\ \E p \in {"checked", "ending", "handling", "done"} : job' = [job EXCEPT ![d] = p]
              /\ \/ job[d] \in {"checked", "ending", "handling"}
                 \/ job'[d] = "checked" => isCurrent(d)
        BY <2>1, <3>2, WorkerStep
      <4>2. c = d BY <1>1, <3>1, <4>1
      <4> QED BY <1>1, <4>1, <4>2
    <3>3. CASE ~Worker
      <4>1. job'[c] = job[c] \/ job'[c] = "queued"
        BY <1>1, <3>1, <3>3, JobStep
      <4> QED BY <1>1, <4>1
    <3> QED BY <3>2, <3>3
  <2>3. admission[c] = policy BY <2>1, <2>2 DEF EpochInv, isCurrent
  <2>4. NotDenied(c) BY <1>1, <2>1 DEF AuthorityInv, Authority, Begun
  <2> QED BY <1>1, <2>3, <2>4 DEF NotDenied, AdmittedAs, Covered
<1>2. AdmissionInv /\ [Next]_vars => \A c \in Call \ EndTools : Start(c) => Leave(c)
  BY <1>1
<1>3. AdmissionInv /\ [Next]_vars =>
        [\A c \in Call \ EndTools : Start(c) => Leave(c)]_vars
  BY <1>2
<1> QED BY <1>3, AdmissionInvariant, PTL DEF Spec, NoStartUnderDeny

\* Descriptors name an action once.  sameActions compares the lengths of two
\* lists and looks for the actions of one in the other (executor.go:755); with
\* repeated actions it may take different lists for the same.
ActionsListedOnce ==
  \A c \in Call : \A i, j \in DOMAIN Needs[c].actions :
    Needs[c].actions[i] = Needs[c].actions[j] => i = j

\* Every grant is for what some call needed.
GrantOrigin == \A grant \in grants : \E c \in Call : grant.actions = Needs[c].actions

LEMMA GrantOriginNext ==
  ASSUME TypeOK, GrantOrigin, [Next]_vars
  PROVE  GrantOrigin'
<1>1. CASE UNCHANGED grants BY <1>1 DEF GrantOrigin
<1>2. CASE DecidePermission
  <2>1. Decision("permission").call \in Call
    BY <1>2, DecisionType DEF DecidePermission, decisionTaken, Kinds
  <2>2. \A grant \in grants' :
          grant \in grants \/ grant.actions = Needs[Decision("permission").call].actions
    BY <1>2 DEF DecidePermission
  <2> QED BY <2>1, <2>2 DEF GrantOrigin
<1>3. [Next]_vars => DecidePermission \/ UNCHANGED grants
  <2>1. CASE Executor
    BY <2>1 DEF Executor, admitDeferredApproval, ReceiveRequest, DecideConfirmation, InterruptTurn,
       ExpirePrompts
  <2>2. CASE Worker BY <2>2, WorkerStep
  <2>3. CASE Router
    BY <2>3 DEF Router, RouteToolResult, RoutePrompt, ExpireRouted, routePermissionRequests,
       routeConfirmationRequests, expirePermission, expireConfirmation
  <2>4. CASE Resolve
    <3>1. UNCHANGED resolveOnly
      BY <2>4 DEF Resolve, ResolvePermission, ResolveConfirmation, ResolveBegin, Forward,
                  ResolveCommit
    <3> QED BY <3>1
  <2>5. CASE Runs
    BY <2>5 DEF Runs, StartRun, DispatchTools, RunCompletes, InterruptRun, CloseRun, unregister
  <2>6. CASE Environment
    BY <2>6 DEF Environment, Shutdown, ReadyChanges, Tick, SetMode
  <2> QED BY <2>1, <2>2, <2>3, <2>4, <2>5, <2>6 DEF Next, vars
<1> QED BY <1>1, <1>2, <1>3

\* Library facts, in the form used here.
LEMMA IntervalCount ==
  ASSUME NEW n \in Nat
  PROVE  IsFiniteSet(1..n) /\ Cardinality(1..n) = n
<1>1. 1 \in Int /\ n \in Int OBVIOUS
<1>2. /\ IsFiniteSet(1..n)
      /\ Cardinality(1..n) = IF 1 > n THEN 0 ELSE n - 1 + 1
  BY <1>1, FS_Interval, Zenon
<1>3. (IF 1 > n THEN 0 ELSE n - 1 + 1) = n OBVIOUS
<1> QED BY <1>2, <1>3

\* The items of a sequence, counted.
LEMMA ItemsCount ==
  ASSUME NEW S, NEW q \in Seq(S)
  PROVE  /\ IsFiniteSet(Items(q)) /\ Cardinality(Items(q)) <= Len(q)
         /\ Cardinality(Items(q)) \in Nat
         /\ (\A i, j \in DOMAIN q : q[i] = q[j] => i = j) => Cardinality(Items(q)) = Len(q)
<1>1. Len(q) \in Nat /\ DOMAIN q = 1..Len(q) OBVIOUS
<1>2. IsFiniteSet(1..Len(q)) /\ Cardinality(1..Len(q)) = Len(q) BY <1>1, IntervalCount
<1>3. q \in Surjection(1..Len(q), Items(q)) BY <1>1 DEF Surjection, Items
<1>4. /\ IsFiniteSet(Items(q)) /\ Cardinality(Items(q)) <= Cardinality(1..Len(q))
      /\ (Cardinality(Items(q)) = Cardinality(1..Len(q)) <=> q \in Injection(1..Len(q), Items(q)))
  BY <1>2, <1>3, FS_Surjection
<1>5. (\A i, j \in DOMAIN q : q[i] = q[j] => i = j) => q \in Injection(1..Len(q), Items(q))
  BY <1>1, <1>3 DEF Injection, Surjection, IsInjective
<1> QED BY <1>2, <1>4, <1>5, FS_CardinalityType

\* Then a grant that covers a call is a grant for what the call needs.
LEMMA CoveredExactly ==
  ASSUME TypeOK, GrantOrigin, ActionsListedOnce, NEW c \in Call, Covered(c)
  PROVE  \E grant \in grants : /\ Items(grant.actions) = Items(Needs[c].actions)
                               /\ grant.scope = "allow_session" => grant.session = Session(c)
<1>1. PICK grant \in grants : /\ grant.scope = "allow_session" => grant.session = Session(c)
                              /\ sameActions(grant.actions, Needs[c].actions)
  BY DEF Covered, hasGrant
<1>2. PICK d \in Call : grant.actions = Needs[d].actions BY DEF GrantOrigin
<1> PICK a : a = Needs[d].actions OBVIOUS
<1> PICK b : b = Needs[c].actions OBVIOUS
<1>3. a \in Seq(STRING) /\ b \in Seq(STRING) BY ConstantsAssumption
<1>4. Len(a) = Len(b) /\ Items(a) \subseteq Items(b) BY <1>1, <1>2 DEF sameActions
<1>5. Cardinality(Items(a)) = Len(a) BY <1>3, ItemsCount DEF ActionsListedOnce
<1>6. /\ IsFiniteSet(Items(b)) /\ Cardinality(Items(b)) <= Len(b)
      /\ Cardinality(Items(b)) \in Nat
  BY <1>3, ItemsCount
<1>7. /\ Cardinality(Items(a)) <= Cardinality(Items(b))
      /\ Cardinality(Items(a)) = Cardinality(Items(b)) => Items(a) = Items(b)
  BY <1>4, <1>6, FS_Subset
<1>8. Len(a) \in Nat BY <1>3
<1>9. Items(a) = Items(b) BY <1>4, <1>5, <1>6, <1>7, <1>8
<1> QED BY <1>1, <1>2, <1>9

\* A handler runs only when the call was permitted and, if its tool asks for a
\* confirmation, confirmed, provided descriptors name an action once.
THEOREM HandlersAuthorized == ASSUME ActionsListedOnce PROVE Spec => []HandlerAuthorized
<1>1. AdmissionInv /\ GrantOrigin => HandlerAuthorized
  <2> SUFFICES ASSUME AdmissionInv, GrantOrigin, NEW c \in ran \ EndTools
               PROVE  Permitted(c) /\ (c \in Confirms => record["confirmation"][c] = "confirmed")
    BY DEF HandlerAuthorized
  <2>1. TypeOK /\ PlaceInv /\ AuthorityInv BY DEF AdmissionInv
  <2>2. c \in Call /\ Begun(c) BY <2>1 DEF TypeOK, JobTypes, PlaceInv
  <2>3. Authority(c) BY <2>1, <2>2 DEF AuthorityInv
  <2>4. Sanctioned(c) /\ (c \in Confirms => record["confirmation"][c] = "confirmed")
    BY <2>2, <2>3 DEF Authority
  <2>5. Permitted(c) BY <2>1, <2>2, <2>4, CoveredExactly DEF Sanctioned, AdmittedAs, Permitted
  <2> QED BY <2>4, <2>5
<1>2. Init => GrantOrigin BY DEF Init, GrantOrigin
<1>3. AdmissionInv /\ GrantOrigin /\ [Next]_vars => GrantOrigin'
  BY GrantOriginNext DEF AdmissionInv
<1> QED BY <1>1, <1>2, <1>3, AdmissionInvariant, PTL DEF Spec

-----------------------------------------------------------------------------
(* The way of a prompt: published, shown to the run's session, answered by  *)
(* one caller, decided by the executor.                                      *)

Verdicts == {"allowed", "denied", "confirmed", "declined"}
Shown(k, c) == \E i \in DOMAIN prompts[k] : prompts[k][i] = c
Chosen(k, c) == \E i \in DOMAIN decisions[k] : decisions[k][i].call = c
On(r, k, c) == resolver[r].at # "idle" /\ resolver[r].kind = k /\ resolver[r].call = c
Over(c) == run[TurnOf(c)] \in {"closing", "ended"}

\* Nobody has answered the prompt.
Unanswered(k, c) ==
  ~Chosen(k, c) /\ record[k][c] \notin Verdicts /\ \A r \in Resolver : ~On(r, k, c)

\* A prompt is published, routed and forwarded once, and an answer under way
\* keeps the runtime from showing it as pending again.
PromptState(k, c) ==
  /\ record[k][c] = "none" => ~Shown(k, c) /\ routed[k][c] = "none" /\ Unanswered(k, c)
  /\ Shown(k, c) => routed[k][c] = "none" /\ Unanswered(k, c)
  /\ \A i, j \in DOMAIN prompts[k] : prompts[k][i] = c /\ prompts[k][j] = c => i = j
  /\ routed[k][c] = "pending" => Unanswered(k, c)
  /\ \A r, q \in Resolver : On(r, k, c) /\ On(q, k, c) => r = q
  /\ \A r \in Resolver : On(r, k, c) /\ resolver[r].at = "forward" =>
       ~Chosen(k, c) /\ record[k][c] \notin Verdicts
  /\ ~Unanswered(k, c) => routed[k][c] \in {"forwarding", "resolved", "expired"} \/ Over(c)
  /\ routed[k][c] = "forwarding" => \E r \in Resolver : On(r, k, c)
  /\ routed[k][c] = "expired" => k \in Expiring

PromptInv ==
  /\ \A k \in Kinds, c \in Call : PromptState(k, c)
  /\ \A k \in Kinds : due[k] # {} => k \in Expiring

\* A call that has not left admission the first time has no prompt yet, and
\* the confirmation comes after the permission.
Untried(c) == ~Dispatched(c) \/ Requested(c) \/ Deferred(c)
RecordOf(c) ==
  /\ Untried(c) => \A k \in Kinds : record[k][c] = "none"
  /\ \A k \in Kinds : c \in pending[k] => record[k][c] = "pending"
  /\ c \in pending["permission"] => record["confirmation"][c] = "none"
  /\ record["confirmation"][c] # "none" => record["permission"][c] \in {"none", "allowed"}
RecordInv == \A c \in Call : RecordOf(c)

\* A call with a result has left admission for good.
HasResult(c) ==
  \/ \E i \in DOMAIN results : results[i].call = c
  \/ \E k \in Kinds : held[k][c] # <<>>
  \/ delivered[c] # <<>>
InAdmission(c) == Untried(c) \/ Prompted(c)
ResultInv == \A c \in Call : HasResult(c) => ~InAdmission(c)

\* A run with the result of a call has seen how its prompts were decided.
DeliveryOf(c) ==
  /\ held["confirmation"][c] # <<>> /\ record["permission"][c] \in Verdicts
       => ~Waiting("permission", c)
  /\ delivered[c] # <<>> =>
       \A k \in Kinds : record[k][c] \in Verdicts => ~Waiting(k, c) \/ Overtaken(k, c)
DeliveryInv == \A c \in Call : DeliveryOf(c)

RoutingInv == PromptInv /\ RecordInv /\ ResultInv /\ DeliveryInv

-----------------------------------------------------------------------------
(* Calls leave admission and do not come back. *)

LEMMA UntriedShrinks ==
  ASSUME TypeOK, PlaceInv, [Next]_vars, NEW c \in Call
  PROVE  Untried(c)' => Untried(c)
<1>1. CASE UNCHANGED <<requests, deferred, round>>
  BY <1>1 DEF Untried, Dispatched, Requested, Deferred
<1>2. CASE UNCHANGED <<requests, round>> /\ (Deferred(c)' => Deferred(c))
  BY <1>2 DEF Untried, Dispatched, Requested
<1>3. CASE admitDeferredApproval
  <2>1. PICK i \in 1..Len(deferred) :
          deferred' = RemoveAt(deferred, i) /\ UNCHANGED <<requests, round>>
    BY <1>3 DEF admitDeferredApproval
  <2>2. deferred \in Seq(DeferredCall) BY DEF TypeOK, ApprovalTypes
  <2>3. /\ DOMAIN deferred' = 1..(Len(deferred) - 1) /\ DOMAIN deferred = 1..Len(deferred)
        /\ \A j \in 1..(Len(deferred) - 1) :
             deferred'[j] = IF j < i THEN deferred[j] ELSE deferred[j + 1]
    BY <2>1, <2>2, Removed
  <2>4. \A j \in DOMAIN deferred' : \E k \in DOMAIN deferred : deferred'[j] = deferred[k]
    <3> SUFFICES ASSUME NEW j \in DOMAIN deferred'
                 PROVE  \E k \in DOMAIN deferred : deferred'[j] = deferred[k]
      OBVIOUS
    <3>1. CASE j < i BY <2>3, <3>1
    <3>2. CASE ~(j < i) BY <2>3, <3>2, SMTT(20)
    <3> QED BY <3>1, <3>2
  <2>5. Deferred(c)' => Deferred(c) BY <2>4 DEF Deferred
  <2> QED BY <1>2, <2>1, <2>5
<1>4. CASE ReceiveRequest
  <2>1. /\ requests # <<>> /\ requests' = Tail(requests) /\ round' = round
        /\ deferred' = deferred
           \/ \E b \in BOOLEAN : deferred' = Append(deferred, [call |-> Head(requests), ask |-> b])
    BY <1>4 DEF ReceiveRequest
  <2>2. requests \in Seq(Call) /\ deferred \in Seq(DeferredCall)
    BY DEF TypeOK, ApprovalTypes, ChannelTypes
  <2>3. /\ Head(requests) = requests[1] /\ 1 \in DOMAIN requests /\ Head(requests) \in Call
        /\ \A i \in DOMAIN requests' : i + 1 \in DOMAIN requests /\ requests'[i] = requests[i + 1]
    BY <2>1, <2>2, HeadTail
  <2>4. Requested(c)' => Requested(c) BY <2>3 DEF Requested
  <2>5. Deferred(c)' => Deferred(c) \/ Requested(c)
    <3>1. CASE deferred' = deferred BY <3>1 DEF Deferred
    <3>2. ASSUME NEW b \in BOOLEAN, deferred' = Append(deferred, [call |-> Head(requests), ask |-> b])
          PROVE  Deferred(c)' => Deferred(c) \/ Requested(c)
      <4> PICK x : x = [call |-> Head(requests), ask |-> b] OBVIOUS
      <4>1. x \in DeferredCall /\ x.call = requests[1] BY <2>3 DEF DeferredCall
      <4>2. /\ DOMAIN deferred = 1..Len(deferred)
            /\ DOMAIN deferred' = 1..(Len(deferred) + 1)
            /\ deferred'[Len(deferred) + 1] = x
            /\ \A i \in 1..Len(deferred) : deferred'[i] = deferred[i]
        BY <2>2, <3>2, <4>1, Appended
      <4> QED BY <2>3, <4>1, <4>2 DEF Deferred, Requested
    <3> QED BY <2>1, <3>1, <3>2
  <2> QED BY <2>1, <2>4, <2>5 DEF Untried, Dispatched
<1>5. CASE InterruptTurn
  <2> DEFINE kept == {i \in DOMAIN deferred : deferred[i].call \notin CallsOf(Head(interrupts))}
  <2>1. /\ UNCHANGED <<requests, round>>
        /\ \E order \in [1..Cardinality(kept) -> kept] :
             deferred' = [i \in DOMAIN order |-> deferred[order[i]]]
    BY <1>5 DEF InterruptTurn
  <2>2. Deferred(c)' => Deferred(c) BY <2>1 DEF Deferred
  <2> QED BY <1>2, <2>1, <2>2
<1>6. CASE Shutdown
  BY <1>2, <1>6 DEF Shutdown, Deferred
<1>7. ASSUME NEW t \in Turn, DispatchTools(t) PROVE Untried(c)' => Untried(c)
  <2>1. /\ round' = [round EXCEPT ![t] = @ + 1] /\ deferred' = deferred
        /\ round[t] < Len(Rounds[t])
        /\ requests' = requests \o Rounds[t][round[t] + 1]
    BY <1>7 DEF DispatchTools
  <2>2. /\ round \in [Turn -> Nat] /\ requests \in Seq(Call) /\ Rounds[t] \in Seq(Seq(Call))
    BY RoundsAssumption DEF TypeOK, RuntimeTypes, ChannelTypes
  <2>0. round[t] \in Nat /\ DOMAIN Rounds[t] = 1..Len(Rounds[t]) /\ Len(Rounds[t]) \in Nat
    <3>1. \A q \in Seq(Seq(Call)) : DOMAIN q = 1..Len(q) /\ Len(q) \in Nat OBVIOUS
    <3> QED BY <2>2, <3>1
  <2> PICK n : n = round[t] + 1 OBVIOUS
  <2> PICK new : new = Rounds[t][n] OBVIOUS
  <2>3. n \in 1..Len(Rounds[t]) /\ n \in DOMAIN Rounds[t] /\ new \in Seq(Call)
    <3>1. n \in 1..Len(Rounds[t]) BY <2>1, <2>0
    <3> QED BY <2>2, <2>0, <3>1, Element
  <2>4. Dispatched(c) => Dispatched(c)'
    BY <2>1, <2>2, TurnOfCall DEF Dispatched
  <2>5. /\ DOMAIN requests' = 1..(Len(requests) + Len(new))
        /\ DOMAIN requests = 1..Len(requests) /\ DOMAIN new = 1..Len(new)
        /\ \A i \in DOMAIN requests' :
             requests'[i] = IF i <= Len(requests) THEN requests[i] ELSE new[i - Len(requests)]
    BY <2>1, <2>2, <2>3, Concat
  <2>6. Requested(c)' => Requested(c) \/ \E i \in DOMAIN new : c = new[i]
    <3>1. Len(requests) \in Nat /\ Len(new) \in Nat BY <2>2, <2>3
    <3> QED BY <2>5, <3>1, SMTT(20) DEF Requested
  <2>7. \A i \in DOMAIN new : ~Dispatched(new[i])
    <3> SUFFICES ASSUME NEW i \in DOMAIN new, Dispatched(new[i]) PROVE FALSE OBVIOUS
    <3>1. new[i] \in RoundCalls(t, n) BY <2>5 DEF RoundCalls, Items
    <3>2. TurnOf(new[i]) = t BY <2>3, <3>1, TurnOfCall DEF CallsOf
    <3>3. PICK m \in 1..round[t] : new[i] \in RoundCalls(t, m) BY <3>2 DEF Dispatched
    <3>4. m \in DOMAIN Rounds[t] /\ m \in 1..Len(Rounds[t]) /\ m # n
      BY <2>1, <2>0, <3>3
    <3>5. Rounds[t][m] \in Seq(Call) BY <2>2, <3>4, Element
    <3>6. PICK j \in DOMAIN Rounds[t][m] : new[i] = Rounds[t][m][j]
      <4>1. DOMAIN Rounds[t][m] = 1..Len(Rounds[t][m]) BY <3>5
      <4> QED BY <3>3, <4>1 DEF RoundCalls, Items
    <3>7. Rounds[t][n][i] = Rounds[t][m][j] BY <3>6
    <3> QED BY <2>3, <3>4, <3>7, CallOnce
  <2>8. Deferred(c)' <=> Deferred(c) BY <2>1 DEF Deferred
  <2> QED BY <2>4, <2>6, <2>7, <2>8 DEF Untried
<1>8. CASE Executor
  <2>1. CASE DecidePermission \/ DecideConfirmation
    BY <1>1, <2>1 DEF DecidePermission, DecideConfirmation, decisionTaken
  <2>2. ASSUME NEW kind \in Kinds, ExpirePrompts(kind) PROVE Untried(c)' => Untried(c)
    BY <1>1, <2>2 DEF ExpirePrompts
  <2> QED BY <1>3, <1>4, <1>5, <1>8, <2>1, <2>2 DEF Executor
<1>9. CASE Worker BY <1>1, <1>9, WorkerStep
<1>10. CASE Router
  BY <1>1, <1>10 DEF Router, RouteToolResult, RoutePrompt, ExpireRouted, routePermissionRequests,
     routeConfirmationRequests, expirePermission, expireConfirmation
<1>11. CASE Resolve
  <2>1. UNCHANGED resolveOnly
    BY <1>11 DEF Resolve, ResolvePermission, ResolveConfirmation, ResolveBegin, Forward,
                ResolveCommit
  <2> QED BY <1>1, <2>1, SMTT(30)
<1>12. CASE Runs
  BY <1>1, <1>7, <1>12 DEF Runs, StartRun, RunCompletes, InterruptRun, CloseRun, unregister
<1>13. CASE Environment
  BY <1>1, <1>6, <1>13 DEF Environment, ReadyChanges, Tick, SetMode
<1>14. CASE UNCHANGED vars BY <1>1, <1>14 DEF vars
<1> QED BY <1>8, <1>9, <1>10, <1>11, <1>12, <1>13, <1>14 DEF Next
-----------------------------------------------------------------------------
(* A call that gets on in admission. *)

\* It is left to a worker or answered, or it is prompted, if that works; rec
\* and pend are the records and the waiting calls before that.
Enters(c, rec, pend) ==
  \/ /\ record' = rec /\ prompts' = prompts /\ pending' = pend
     /\ results' = results \/ \E s : results' = Append(results, Result(c, s))
  \/ \E kind \in Kinds :
       /\ rec[kind][c] = "none"
       /\ kind = "permission" => rec["confirmation"][c] = "none"
       /\ kind = "confirmation" => rec["permission"][c] \in {"none", "allowed"}
       /\ \/ /\ record' = [rec EXCEPT ![kind][c] = "cancelled"]
             /\ prompts' = prompts /\ pending' = pend
             /\ \E s : results' = Append(results, Result(c, s))
          \/ /\ record' = [rec EXCEPT ![kind][c] = "pending"]
             /\ prompts' = [prompts EXCEPT ![kind] = Append(@, c)]
             /\ pending' = [pend EXCEPT ![kind] = @ \cup {c}]
             /\ results' = results

LEMMA EntersOthers ==
  ASSUME NEW c, NEW rec \in [Kinds -> [Call -> RecordState]], NEW pend \in [Kinds -> SUBSET Call],
         Enters(c, rec, pend), NEW d \in Call, d # c, NEW k \in Kinds
  PROVE  record'[k][d] = rec[k][d] /\ (d \in pending'[k] <=> d \in pend[k])
BY DEF Enters

LEMMA PublishEnters ==
  ASSUME NEW kind \in Kinds, NEW c, NEW refusal, NEW rec, NEW pend,
         Publish(kind, c, refusal, rec, pend), rec[kind][c] = "none",
         kind = "permission" => rec["confirmation"][c] = "none",
         kind = "confirmation" => rec["permission"][c] \in {"none", "allowed"}
  PROVE  Enters(c, rec, pend)
BY DEF Publish, Answer, Send, Enters

LEMMA AdmitConfirmationEnters ==
  ASSUME NEW c, NEW rec, NEW pend, admitConfirmation(c, rec, pend),
         rec["confirmation"][c] = "none", rec["permission"][c] \in {"none", "allowed"}
  PROVE  Enters(c, rec, pend)
<1>1. CASE c \notin Confirms /\ newJob(c) /\ record' = rec /\ pending' = pend
  BY <1>1 DEF newJob, Enters
<1>2. CASE Answer(c, "declined") /\ record' = rec /\ pending' = pend
  BY <1>2 DEF Answer, Send, Enters
<1>3. CASE Publish("confirmation", c, "failed", rec, pend)
  BY <1>3, PublishEnters DEF Kinds
<1> QED BY <1>1, <1>2, <1>3 DEF admitConfirmation

\* What admission and decisions leave alone.
elsewhere == <<routed, held, delivered, resolver, run, due, round, requests>>

LEMMA AdmitDeferredEnters ==
  ASSUME TypeOK, PlaceInv, RecordInv, admitDeferredApproval
  PROVE  \E c \in Call :
           /\ Deferred(c) /\ ~Untried(c)' /\ Enters(c, record, pending)
           /\ UNCHANGED <<elsewhere, decisions>>
<1>1. PICK i \in 1..Len(deferred) :
        /\ deferred' = RemoveAt(deferred, i)
        /\ \/ Answer(deferred[i].call, "denied") /\ UNCHANGED <<record, pending>>
           \/ Publish("permission", deferred[i].call, "denied", record, pending)
           \/ admitConfirmation(deferred[i].call, record, pending)
        /\ UNCHANGED <<elsewhere, decisions>>
  BY DEF admitDeferredApproval, elsewhere
<1> PICK c : c = deferred[i].call OBVIOUS
<1>2. deferred \in Seq(DeferredCall) BY DEF TypeOK, ApprovalTypes
<1>3. c \in Call /\ Deferred(c)
  <2>1. deferred[i] \in DeferredCall BY <1>2, Element
  <2>2. i \in DOMAIN deferred BY <1>2
  <2> QED BY <2>1, <2>2 DEF DeferredCall, Deferred
<1>4. /\ DOMAIN deferred' = 1..(Len(deferred) - 1) /\ DOMAIN deferred = 1..Len(deferred)
      /\ \A j \in 1..(Len(deferred) - 1) :
           deferred'[j] = IF j < i THEN deferred[j] ELSE deferred[j + 1]
  BY <1>1, <1>2, Removed
<1>5. \A j, k \in DOMAIN deferred : deferred[j].call = deferred[k].call => j = k
  BY DEF PlaceInv
<1>6. ~Deferred(c)' BY <1>4, <1>5, SMTT(30) DEF Deferred
<1>7. record["permission"][c] = "none" /\ record["confirmation"][c] = "none"
  BY <1>3 DEF RecordInv, RecordOf, Untried, Kinds
<1>8. Enters(c, record, pending)
  <2>1. CASE Answer(c, "denied") /\ UNCHANGED <<record, pending>>
    BY <2>1 DEF Answer, Send, Enters
  <2>2. CASE Publish("permission", c, "denied", record, pending)
    BY <1>7, <2>2, PublishEnters DEF Kinds
  <2>3. CASE admitConfirmation(c, record, pending) BY <1>7, <2>3, AdmitConfirmationEnters
  <2> QED BY <1>1, <2>1, <2>2, <2>3
<1>9. ~Untried(c)'
  <2>1. (Dispatched(c)' <=> Dispatched(c)) /\ (Requested(c)' <=> Requested(c))
    BY <1>1 DEF elsewhere, Dispatched, Requested
  <2> QED BY <1>3, <1>6, <2>1 DEF PlaceInv, OnePlace, Untried
<1> QED BY <1>1, <1>3, <1>8, <1>9

\* A decision counts when its prompt waits, and takes the call out of there.
Decided(kind, c, rec, pend) ==
  /\ c \in pending[kind] /\ Chosen(kind, c) /\ record[kind][c] = "pending"
  /\ \E v \in Verdicts : rec = [record EXCEPT ![kind][c] = v]
  /\ pend = [pending EXCEPT ![kind] = @ \ {c}]
  /\ kind = "permission" /\ rec[kind][c] # "allowed" => record' = rec
  /\ Enters(c, rec, pend)

LEMMA DecideEnters ==
  ASSUME TypeOK, RecordInv, NEW kind \in Kinds,
         kind = "permission" => DecidePermission, kind = "confirmation" => DecideConfirmation
  PROVE  /\ decisions[kind] # <<>> /\ decisions' = [decisions EXCEPT ![kind] = Tail(@)]
         /\ UNCHANGED <<elsewhere, deferred>>
         /\ \/ UNCHANGED <<record, pending, prompts, results>>
            \/ \E c \in Call, rec \in [Kinds -> [Call -> RecordState]] :
                 \E pend \in [Kinds -> SUBSET Call] : Decided(kind, c, rec, pend)
<1>1. decisionTaken(kind) BY DEF DecidePermission, DecideConfirmation, Kinds
<1>2. /\ decisions[kind] # <<>> /\ decisions' = [decisions EXCEPT ![kind] = Tail(@)]
      /\ UNCHANGED <<elsewhere, deferred>>
  BY <1>1 DEF decisionTaken, elsewhere
<1>3. CASE ~Waits(kind)
  BY <1>2, <1>3 DEF DecidePermission, DecideConfirmation, Kinds
<1>4. CASE Waits(kind)
  <2> PICK c : c = Decision(kind).call OBVIOUS
  <2> PICK answer : answer = Decision(kind).answer OBVIOUS
  <2> PICK rec : rec = resolvedRecord(kind) OBVIOUS
  <2> PICK pend : pend = resolvedPending(kind) OBVIOUS
  <2>1. /\ c \in Call /\ answer \in AnswersTo(kind)
        /\ rec \in [Kinds -> [Call -> RecordState]] /\ pend \in [Kinds -> SUBSET Call]
    BY <1>2, DecisionType, ResolvedTypes
  <2>2. /\ c \in pending[kind] /\ record[kind][c] = "pending" BY <1>4 DEF Waits
  <2>3. /\ rec = [record EXCEPT ![kind][c] = Verdict[answer]]
        /\ pend = [pending EXCEPT ![kind] = @ \ {c}]
    BY DEF resolvedRecord, resolvedPending
  <2>4. Verdict[answer] \in Verdicts BY <2>1, VerdictType DEF Verdicts, Kinds
  <2>5. Chosen(kind, c)
    <3>1. decisions[kind] \in Seq(DecisionOn(kind)) BY DEF TypeOK, ChannelTypes
    <3>2. 1 \in DOMAIN decisions[kind] /\ Head(decisions[kind]) = decisions[kind][1]
      BY <1>2, <3>1, HeadTail
    <3> QED BY <3>2 DEF Decision, Chosen
  <2>6. record \in [Kinds -> [Call -> RecordState]] BY DEF TypeOK, ApprovalTypes
  <2>7. /\ rec[kind][c] = Verdict[answer]
        /\ \A k \in Kinds : k # kind => rec[k] = record[k]
    BY <2>1, <2>3, <2>6
  <2>8. Enters(c, rec, pend) /\ (kind = "permission" /\ rec[kind][c] # "allowed" => record' = rec)
    <3>1. CASE kind = "permission" /\ answer = "deny"
      <4>1. Answer(c, "denied") /\ record' = rec /\ pending' = pend
        BY <1>4, <3>1 DEF DecidePermission
      <4> QED BY <4>1 DEF Answer, Send, Enters
    <3>2. CASE kind = "permission" /\ answer # "deny"
      <4>1. admitConfirmation(c, rec, pend) BY <1>4, <3>2 DEF DecidePermission
      <4>2. rec["permission"][c] = "allowed"
        BY <2>1, <2>7, <3>2 DEF AnswersTo, PermissionAnswers, Verdict
      <4>3. rec["confirmation"][c] = "none"
        BY <2>1, <2>2, <2>7, <3>2 DEF RecordInv, RecordOf, Kinds
      <4> QED BY <3>2, <4>1, <4>2, <4>3, AdmitConfirmationEnters
    <3>3. CASE kind = "confirmation"
      <4>1. record' = rec /\ pending' = pend /\ (newJob(c) \/ Answer(c, "declined"))
        BY <1>4, <3>3 DEF DecideConfirmation
      <4> QED BY <3>3, <4>1 DEF newJob, Answer, Send, Enters
    <3> QED BY <3>1, <3>2, <3>3 DEF Kinds
  <2>9. Decided(kind, c, rec, pend)
    <3>1. \E v \in Verdicts : rec = [record EXCEPT ![kind][c] = v] BY <2>3, <2>4
    <3> QED BY <2>2, <2>3, <2>5, <2>8, <3>1 DEF Decided
  <2> QED BY <1>2, <2>1, <2>9
<1> QED BY <1>2, <1>3, <1>4

-----------------------------------------------------------------------------
(* The records of a call. *)

\* Prompts may be withdrawn, for a call that does not wait then.
LEMMA RecordKept ==
  ASSUME NEW c \in Call, RecordOf(c), Untried(c)' => Untried(c),
         \A k \in Kinds : /\ record'[k][c] = "none" <=> record[k][c] = "none"
                          /\ record[k][c] = "allowed" => record'[k][c] = "allowed"
                          /\ c \in pending'[k] => c \in pending[k] /\ record'[k][c] = record[k][c]
  PROVE  RecordOf(c)'
BY DEF RecordOf, Kinds

LEMMA RecordEnters ==
  ASSUME TypeOK, NEW c \in Call, NEW rec \in [Kinds -> [Call -> RecordState]],
         NEW pend \in [Kinds -> SUBSET Call], Enters(c, rec, pend), ~Untried(c)',
         \A k \in Kinds : c \notin pend[k],
         rec["confirmation"][c] # "none" => rec["permission"][c] \in {"none", "allowed"}
  PROVE  RecordOf(c)'
<1>1. CASE record' = rec /\ pending' = pend BY <1>1 DEF RecordOf, Kinds
<1>2. ASSUME NEW kind \in Kinds, rec[kind][c] = "none",
             kind = "permission" => rec["confirmation"][c] = "none",
             kind = "confirmation" => rec["permission"][c] \in {"none", "allowed"},
             \/ record' = [rec EXCEPT ![kind][c] = "cancelled"] /\ pending' = pend
             \/ /\ record' = [rec EXCEPT ![kind][c] = "pending"]
                /\ pending' = [pend EXCEPT ![kind] = @ \cup {c}]
      PROVE  RecordOf(c)'
  BY <1>2 DEF RecordOf, Kinds
<1> QED BY <1>1, <1>2 DEF Enters
LEMMA RecordNext ==
  ASSUME TypeOK, PlaceInv, RecordInv, [Next]_vars
  PROVE  RecordInv'
<1>1. \A c \in Call : Untried(c)' => Untried(c) BY UntriedShrinks
<1>2. /\ record \in [Kinds -> [Call -> RecordState]]
      /\ pending \in [Kinds -> SUBSET Call]
  BY DEF TypeOK, ApprovalTypes
<1>3. CASE UNCHANGED <<record, pending>>
  <2>1. ASSUME NEW c \in Call PROVE RecordOf(c)'
    BY <1>1, <1>3, RecordKept DEF RecordInv
  <2> QED BY <2>1 DEF RecordInv
<1>4. CASE admitDeferredApproval
  <2>1. PICK c \in Call :
          Deferred(c) /\ ~Untried(c)' /\ Enters(c, record, pending) /\ UNCHANGED elsewhere
    BY <1>4, AdmitDeferredEnters
  <2>2. ~Untried(c)' BY <2>1
  <2>3. \A k \in Kinds : c \notin pending[k] BY <2>1 DEF PlaceInv, OnePlace, Prompted
  <2>4. RecordOf(c) BY DEF RecordInv
  <2>5. RecordOf(c)' BY <1>2, <2>1, <2>2, <2>3, <2>4, RecordEnters DEF RecordOf
  <2>6. ASSUME NEW d \in Call, d # c PROVE RecordOf(d)'
    <3>1. \A k \in Kinds : /\ record'[k][d] = record[k][d]
                           /\ d \in pending'[k] => d \in pending[k]
      BY <1>2, <2>1, <2>6 DEF Enters
    <3> QED BY <1>1, <3>1, RecordKept DEF RecordInv
  <2> QED BY <2>5, <2>6 DEF RecordInv
<1>5. ASSUME NEW kind \in Kinds,
             kind = "permission" => DecidePermission, kind = "confirmation" => DecideConfirmation
      PROVE  RecordInv'
  <2>1. UNCHANGED <<elsewhere, deferred>> BY <1>5, DecideEnters
  <2>2. CASE UNCHANGED <<record, pending, prompts, results>> BY <1>3, <2>2
  <2>3. ASSUME NEW c \in Call, NEW rec \in [Kinds -> [Call -> RecordState]],
               NEW pend \in [Kinds -> SUBSET Call], Decided(kind, c, rec, pend)
        PROVE  RecordInv'
    <3>1. RecordOf(c) /\ c \in pending[kind] BY <2>3 DEF RecordInv, Decided
    <3>2. ~Untried(c)'
      <4>1. ~Untried(c) BY <3>1 DEF PlaceInv, OnePlace, Prompted, Untried
      <4> QED BY <1>1, <4>1
    <3>3. \A k \in Kinds : c \notin pend[k]
      <4>1. \A k \in Kinds : k # kind => c \notin pending[k]
        BY <3>1 DEF PlaceInv, OnePlace, Kinds
      <4> QED BY <1>2, <2>3, <4>1 DEF Decided
    <3>4. PICK v \in Verdicts : rec = [record EXCEPT ![kind][c] = v] BY <2>3 DEF Decided
    <3>5. /\ \A k \in Kinds : k # kind => rec[k] = record[k]
          /\ rec[kind][c] = v
          /\ \A k \in Kinds, d \in Call : d # c => rec[k][d] = record[k][d] /\ (d \in pend[k] <=> d \in pending[k])
      BY <1>2, <2>3, <3>4 DEF Decided
    <3>6. RecordOf(c)'
      <4>1. CASE kind = "confirmation"
        <5>1. rec["permission"][c] \in {"none", "allowed"}
          BY <2>3, <3>1, <3>5, <4>1 DEF RecordOf, Decided, Kinds
        <5> QED BY <2>3, <3>2, <3>3, <5>1, RecordEnters DEF Decided
      <4>2. CASE kind = "permission"
        <5>1. rec["confirmation"][c] = "none" BY <3>1, <3>5, <4>2 DEF RecordOf, Kinds
        <5> QED BY <2>3, <3>2, <3>3, <5>1, RecordEnters DEF Decided
      <4> QED BY <4>1, <4>2 DEF Kinds
    <3>7. ASSUME NEW d \in Call, d # c PROVE RecordOf(d)'
      <4>1. \A k \in Kinds : /\ record'[k][d] = record[k][d]
                             /\ d \in pending'[k] => d \in pending[k]
        <5>1. Enters(c, rec, pend) BY <2>3 DEF Decided
        <5>2. \A k \in Kinds : record'[k][d] = rec[k][d] /\ (d \in pending'[k] <=> d \in pend[k])
          BY <3>7, <5>1, EntersOthers
        <5> QED BY <3>5, <3>7, <5>2
      <4> QED BY <1>1, <4>1, RecordKept DEF RecordInv
    <3> QED BY <3>6, <3>7 DEF RecordInv
  <2> QED BY <1>5, <2>2, <2>3, DecideEnters
<1>6. CASE InterruptTurn
  <2>1. \A k \in Kinds, c \in Call :
          /\ record'[k][c] = record[k][c]
             \/ (record[k][c] = "pending" /\ record'[k][c] = "cancelled" /\ c \notin pending'[k])
          /\ c \in pending'[k] => c \in pending[k]
    BY <1>6 DEF InterruptTurn
  <2>2. ASSUME NEW c \in Call PROVE RecordOf(c)'
    BY <1>1, <2>1, RecordKept DEF RecordInv
  <2> QED BY <2>2 DEF RecordInv
<1>7. ASSUME NEW kind \in Kinds, ExpirePrompts(kind) PROVE RecordInv'
  <2>1. \A k \in Kinds, c \in Call :
          /\ record'[k][c] = record[k][c]
             \/ (record[k][c] = "pending" /\ record'[k][c] = "expired" /\ c \notin pending'[k])
          /\ c \in pending'[k] => c \in pending[k]
    BY <1>2, <1>7 DEF ExpirePrompts, Withdraw
  <2>2. ASSUME NEW c \in Call PROVE RecordOf(c)'
    BY <1>1, <2>1, RecordKept DEF RecordInv
  <2> QED BY <2>2 DEF RecordInv
<1>8. CASE Shutdown
  <2>1. \A k \in Kinds, c \in Call :
          /\ record'[k][c] = record[k][c]
             \/ (c \in pending["confirmation"] /\ k = "confirmation" /\ record'[k][c] = "cancelled")
          /\ c \notin pending'[k]
    BY <1>2, <1>8 DEF Shutdown, Kinds
  <2>2. ASSUME NEW c \in Call PROVE RecordOf(c)'
    <3>1. RecordOf(c) BY DEF RecordInv
    <3>2. c \in pending["confirmation"] => record["confirmation"][c] = "pending"
      BY <3>1 DEF RecordOf, Kinds
    <3> QED BY <1>1, <2>1, <3>1, <3>2, RecordKept
  <2> QED BY <2>2 DEF RecordInv
<1>9. CASE Executor
  <2>1. CASE ReceiveRequest BY <1>3, <2>1 DEF ReceiveRequest
  <2> QED BY <1>4, <1>5, <1>6, <1>7, <1>9, <2>1 DEF Executor, Kinds
<1>10. CASE Worker BY <1>3, <1>10, WorkerStep
<1>11. CASE Router
  BY <1>3, <1>11 DEF Router, RouteToolResult, RoutePrompt, ExpireRouted, routePermissionRequests,
     routeConfirmationRequests, expirePermission, expireConfirmation
<1>12. CASE Resolve
  <2>1. UNCHANGED resolveOnly
    BY <1>12 DEF Resolve, ResolvePermission, ResolveConfirmation, ResolveBegin, Forward,
                ResolveCommit
  <2> QED BY <1>3, <2>1
<1>13. CASE Runs
  BY <1>3, <1>13 DEF Runs, StartRun, DispatchTools, RunCompletes, InterruptRun, CloseRun,
     unregister
<1>14. CASE Environment
  BY <1>3, <1>8, <1>14 DEF Environment, ReadyChanges, Tick, SetMode
<1>15. CASE UNCHANGED vars BY <1>3, <1>15 DEF vars
<1> QED BY <1>9, <1>10, <1>11, <1>12, <1>13, <1>14, <1>15 DEF Next

-----------------------------------------------------------------------------
(* The way of a prompt. *)

Once(k, c) == \A i, j \in DOMAIN prompts[k] : prompts[k][i] = c /\ prompts[k][j] = c => i = j

\* A step in which the prompt gets no further, or goes with its run.
LEMMA PromptKept ==
  ASSUME NEW k \in Kinds, NEW c \in Call, PromptState(k, c),
         Chosen(k, c)' => Chosen(k, c), Shown(k, c)' => Shown(k, c), Once(k, c)',
         record'[k][c] = "none" => record[k][c] = "none",
         record'[k][c] \in Verdicts => record[k][c] \in Verdicts \/ Chosen(k, c),
         routed'[k][c] = routed[k][c] \/ (routed'[k][c] = "none" /\ Over(c)'),
         \A r \in Resolver : On(r, k, c)' =>
           On(r, k, c) /\ (resolver'[r].at = "forward" => resolver[r].at = "forward"),
         routed'[k][c] = "forwarding" => \A r \in Resolver : On(r, k, c) => On(r, k, c)',
         Over(c) => Over(c)'
  PROVE  PromptState(k, c)'
<1>1. Unanswered(k, c) => Unanswered(k, c)' BY DEF Unanswered
<1> QED BY <1>1 DEF PromptState, Unanswered, Once

\* The executor's steps: they touch neither the runtime nor its callers.
LEMMA PromptExecutorKept ==
  ASSUME NEW k \in Kinds, NEW c \in Call, PromptState(k, c), UNCHANGED <<routed, resolver, run>>,
         Chosen(k, c)' => Chosen(k, c), Shown(k, c)' => Shown(k, c), Once(k, c)',
         record'[k][c] = "none" => record[k][c] = "none",
         record'[k][c] \in Verdicts => record[k][c] \in Verdicts \/ Chosen(k, c)
  PROVE  PromptState(k, c)'
<1>1. /\ routed'[k][c] = routed[k][c] /\ (Over(c) <=> Over(c)')
      /\ \A r \in Resolver : (On(r, k, c)' <=> On(r, k, c)) /\ resolver'[r].at = resolver[r].at
  BY DEF Over, On
<1> QED BY <1>1, PromptKept

LEMMA PromptUnchanged ==
  ASSUME PromptInv, UNCHANGED <<prompts, decisions, record, routed, resolver, run, due>>
  PROVE  PromptInv'
<1> SUFFICES ASSUME NEW k \in Kinds, NEW c \in Call PROVE PromptState(k, c)'
  BY DEF PromptInv
<1>1. PromptState(k, c) BY DEF PromptInv
<1>2. Once(k, c)' /\ (Chosen(k, c)' <=> Chosen(k, c)) /\ (Shown(k, c)' <=> Shown(k, c))
  BY <1>1 DEF Once, Chosen, Shown, PromptState
<1> QED BY <1>1, <1>2, PromptExecutorKept

\* A published prompt is new: its record was none.
LEMMA PromptEnters ==
  ASSUME TypeOK, PromptInv, NEW c \in Call,
         NEW rec \in [Kinds -> [Call -> RecordState]], NEW pend \in [Kinds -> SUBSET Call],
         Enters(c, rec, pend), UNCHANGED elsewhere,
         \A k \in Kinds, d \in Call : Chosen(k, d)' => Chosen(k, d),
         \A k \in Kinds, d \in Call : rec[k][d] = record[k][d]
                                      \/ (Chosen(k, d) /\ rec[k][d] # "none")
  PROVE  PromptInv'
<1>1. UNCHANGED <<routed, resolver, run, due>> BY DEF elsewhere
<1> SUFFICES ASSUME NEW k \in Kinds, NEW d \in Call PROVE PromptState(k, d)'
  BY <1>1 DEF PromptInv
<1>2. PromptState(k, d) BY DEF PromptInv
<1>3. prompts \in [Kinds -> Seq(Call)] BY DEF TypeOK, ChannelTypes
<1>4. CASE record'[k][d] = rec[k][d] /\ prompts'[k] = prompts[k]
  <2>1. Once(k, d)' /\ (Shown(k, d)' <=> Shown(k, d)) BY <1>2, <1>4 DEF Once, Shown, PromptState
  <2> QED BY <1>1, <1>2, <1>4, <2>1, PromptExecutorKept
<1>5. CASE d = c /\ rec[k][c] = "none" /\ record'[k][c] = "cancelled" /\ prompts'[k] = prompts[k]
  <2>1. Once(k, d)' /\ (Shown(k, d)' <=> Shown(k, d)) BY <1>2, <1>5 DEF Once, Shown, PromptState
  <2> QED BY <1>1, <1>2, <1>5, <2>1, PromptExecutorKept DEF Verdicts
<1>6. CASE rec[k][c] = "none" /\ record'[k][c] = "pending" /\ prompts'[k] = Append(prompts[k], c)
           /\ (d # c => record'[k][d] = rec[k][d])
  <2>1. /\ DOMAIN prompts'[k] = 1..(Len(prompts[k]) + 1) /\ DOMAIN prompts[k] = 1..Len(prompts[k])
        /\ prompts'[k][Len(prompts[k]) + 1] = c
        /\ \A i \in 1..Len(prompts[k]) : prompts'[k][i] = prompts[k][i]
    BY <1>3, <1>6, Appended
  <2>2. CASE d # c
    <3>1. Shown(k, d)' => Shown(k, d) BY <2>1, <2>2 DEF Shown
    <3>2. Once(k, d)' BY <1>2, <2>1, <2>2, SMTT(30) DEF Once, PromptState
    <3> QED BY <1>1, <1>2, <1>6, <2>2, <3>1, <3>2, PromptExecutorKept
  <2>3. CASE d = c
    <3>1. record[k][c] = "none" BY <1>6
    <3>2. ~Shown(k, c) /\ routed[k][c] = "none" /\ Unanswered(k, c)
      BY <1>2, <2>3, <3>1 DEF PromptState
    <3>3. Once(k, c)' BY <2>1, <3>2 DEF Once, Shown
    <3>4. routed'[k][c] = "none" /\ Unanswered(k, c)'
      BY <1>1, <1>6, <3>2 DEF Unanswered, Verdicts, On
    <3> QED BY <1>6, <2>3, <3>3, <3>4 DEF PromptState, Once, Unanswered
  <2> QED BY <2>2, <2>3
<1>7. \/ record'[k][d] = rec[k][d] /\ prompts'[k] = prompts[k]
      \/ d = c /\ rec[k][c] = "none" /\ record'[k][c] = "cancelled" /\ prompts'[k] = prompts[k]
      \/ /\ rec[k][c] = "none" /\ record'[k][c] = "pending" /\ prompts'[k] = Append(prompts[k], c)
         /\ (d # c => record'[k][d] = rec[k][d])
  BY <1>3 DEF Enters
<1> QED BY <1>4, <1>5, <1>6, <1>7

\* Prompts are withdrawn.
LEMMA PromptWithdrawn ==
  ASSUME PromptInv, UNCHANGED <<prompts, decisions, routed, resolver, run, due>>,
         \A k \in Kinds, c \in Call :
           record'[k][c] = record[k][c]
           \/ (record[k][c] # "none" /\ record'[k][c] \in {"cancelled", "expired"})
  PROVE  PromptInv'
<1> SUFFICES ASSUME NEW k \in Kinds, NEW c \in Call PROVE PromptState(k, c)'
  BY DEF PromptInv
<1>1. PromptState(k, c) BY DEF PromptInv
<1>2. Once(k, c)' /\ (Chosen(k, c)' <=> Chosen(k, c)) /\ (Shown(k, c)' <=> Shown(k, c))
  BY <1>1 DEF Once, Chosen, Shown, PromptState
<1>3. /\ record'[k][c] = "none" => record[k][c] = "none"
      /\ record'[k][c] \in Verdicts => record[k][c] \in Verdicts
  BY DEF Verdicts
<1> QED BY <1>1, <1>2, <1>3, PromptExecutorKept

LEMMA PromptExecutor ==
  ASSUME TypeOK, PlaceInv, RecordInv, PromptInv, Executor
  PROVE  PromptInv'
<1>1. /\ record \in [Kinds -> [Call -> RecordState]] /\ pending \in [Kinds -> SUBSET Call]
      /\ DOMAIN decisions = Kinds /\ \A k \in Kinds : decisions[k] \in Seq(DecisionOn(k))
  BY DEF TypeOK, ApprovalTypes, ChannelTypes
<1>2. CASE admitDeferredApproval
  <2>1. PICK c \in Call : Enters(c, record, pending) /\ UNCHANGED <<elsewhere, decisions>>
    BY <1>2, AdmitDeferredEnters
  <2>2. \A k \in Kinds, d \in Call : Chosen(k, d)' => Chosen(k, d) BY <2>1 DEF Chosen
  <2> QED BY <1>1, <2>1, <2>2, PromptEnters
<1>3. ASSUME NEW kind \in Kinds,
             kind = "permission" => DecidePermission, kind = "confirmation" => DecideConfirmation
      PROVE  PromptInv'
  <2>1. /\ decisions[kind] # <<>> /\ decisions' = [decisions EXCEPT ![kind] = Tail(@)]
        /\ UNCHANGED elsewhere
    BY <1>3, DecideEnters
  <2>2. \A k \in Kinds, d \in Call : Chosen(k, d)' => Chosen(k, d)
    <3>1. \A i \in DOMAIN Tail(decisions[kind]) :
            i + 1 \in DOMAIN decisions[kind] /\ Tail(decisions[kind])[i] = decisions[kind][i + 1]
      BY <1>1, <2>1, HeadTail
    <3> SUFFICES ASSUME NEW k \in Kinds, NEW d \in Call, Chosen(k, d)' PROVE Chosen(k, d) OBVIOUS
    <3>2. CASE k # kind BY <1>1, <2>1, <3>2 DEF Chosen
    <3>3. CASE k = kind
      <4>1. decisions'[k] = Tail(decisions[kind]) BY <1>1, <2>1, <3>3
      <4> QED BY <3>1, <3>3, <4>1 DEF Chosen
    <3> QED BY <3>2, <3>3
  <2>3. CASE UNCHANGED <<record, pending, prompts, results>>
    <3> SUFFICES ASSUME NEW k \in Kinds, NEW c \in Call PROVE PromptState(k, c)'
      BY <2>1 DEF PromptInv, elsewhere
    <3>1. PromptState(k, c) BY DEF PromptInv
    <3>2. Once(k, c)' /\ (Shown(k, c)' <=> Shown(k, c))
      BY <2>3, <3>1 DEF Once, Shown, PromptState
    <3> QED BY <2>1, <2>2, <2>3, <3>1, <3>2, PromptExecutorKept DEF elsewhere
  <2>4. ASSUME NEW c \in Call, NEW rec \in [Kinds -> [Call -> RecordState]],
               NEW pend \in [Kinds -> SUBSET Call], Decided(kind, c, rec, pend)
        PROVE  PromptInv'
    <3>1. PICK v \in Verdicts : rec = [record EXCEPT ![kind][c] = v] BY <2>4 DEF Decided
    <3>2. \A k \in Kinds, d \in Call :
            rec[k][d] = record[k][d] \/ (Chosen(k, d) /\ rec[k][d] # "none")
      BY <1>1, <2>4, <3>1 DEF Decided, Verdicts
    <3>3. Enters(c, rec, pend) BY <2>4 DEF Decided
    <3> QED BY <2>1, <2>2, <3>2, <3>3, PromptEnters
  <2> QED BY <1>3, <2>3, <2>4, DecideEnters
<1>4. CASE ReceiveRequest
  <2>1. UNCHANGED <<prompts, decisions, record, routed, resolver, run, due>>
    BY <1>4 DEF ReceiveRequest, Answer, newJob
  <2> QED BY <2>1, PromptUnchanged
<1>5. CASE InterruptTurn
  <2>1. \A k \in Kinds, c \in Call :
          record'[k][c] = record[k][c]
          \/ (record[k][c] # "none" /\ record'[k][c] \in {"cancelled", "expired"})
    BY <1>5 DEF InterruptTurn
  <2>2. UNCHANGED <<prompts, decisions, routed, resolver, run, due>>
    BY <1>5 DEF InterruptTurn
  <2> QED BY <2>1, <2>2, PromptWithdrawn
<1>6. ASSUME NEW kind \in Kinds, ExpirePrompts(kind) PROVE PromptInv'
  <2>1. \A k \in Kinds, c \in Call :
          record'[k][c] = record[k][c]
          \/ (record[k][c] # "none" /\ record'[k][c] \in {"cancelled", "expired"})
    BY <1>1, <1>6 DEF ExpirePrompts, Withdraw
  <2>2. UNCHANGED <<prompts, decisions, routed, resolver, run, due>>
    BY <1>6 DEF ExpirePrompts, AnswerAll
  <2> QED BY <2>1, <2>2, PromptWithdrawn
<1> QED BY <1>2, <1>3, <1>4, <1>5, <1>6 DEF Executor, Kinds

LEMMA PromptShutdown ==
  ASSUME TypeOK, RecordInv, PromptInv, Shutdown
  PROVE  PromptInv'
<1>1. record \in [Kinds -> [Call -> RecordState]] BY DEF TypeOK, ApprovalTypes
<1>2. \A c \in Call : c \in pending["confirmation"] => record["confirmation"][c] = "pending"
  BY DEF RecordInv, RecordOf, Kinds
<1>3. \A k \in Kinds, c \in Call :
        record'[k][c] = record[k][c]
        \/ (record[k][c] # "none" /\ record'[k][c] \in {"cancelled", "expired"})
  BY <1>1, <1>2 DEF Shutdown, Kinds
<1>4. UNCHANGED <<prompts, decisions, routed, resolver, run, due>>
  BY DEF Shutdown
<1> QED BY <1>3, <1>4, PromptWithdrawn

\* A prompt that leaves its channel is shown to its run, if that is there.
LEMMA PromptRouted ==
  ASSUME TypeOK, PromptInv, NEW kind \in Kinds, RoutePrompt(kind)
  PROVE  PromptInv'
<1> PICK c : c = Head(prompts[kind]) OBVIOUS
<1>1. /\ prompts[kind] # <<>> /\ prompts' = [prompts EXCEPT ![kind] = Tail(@)]
      /\ routed' = routed \/ routed' = [routed EXCEPT ![kind][c] = "pending"]
      /\ UNCHANGED <<decisions, record, resolver, run, due>>
  BY DEF RoutePrompt
<1>2. /\ prompts \in [Kinds -> Seq(Call)] /\ routed \in [Kinds -> [Call -> RoutedState]]
  BY DEF TypeOK, ChannelTypes, RuntimeTypes
<1>3. /\ c \in Call /\ c = prompts[kind][1] /\ 1 \in DOMAIN prompts[kind]
      /\ DOMAIN prompts[kind] = 1..Len(prompts[kind])
      /\ \A i \in DOMAIN Tail(prompts[kind]) :
           i + 1 \in DOMAIN prompts[kind] /\ Tail(prompts[kind])[i] = prompts[kind][i + 1]
      /\ DOMAIN Tail(prompts[kind]) = 1..(Len(prompts[kind]) - 1)
  BY <1>1, <1>2, HeadTail
<1> SUFFICES ASSUME NEW k \in Kinds, NEW d \in Call PROVE PromptState(k, d)'
  BY <1>1 DEF PromptInv
<1>4. PromptState(k, d) BY DEF PromptInv
<1>5. /\ Chosen(k, d)' <=> Chosen(k, d)
      /\ \A r \in Resolver : (On(r, k, d)' <=> On(r, k, d)) /\ resolver'[r].at = resolver[r].at
      /\ Over(d)' <=> Over(d)
      /\ record'[k][d] = record[k][d]
  BY <1>1 DEF Chosen, On, Over
<1>6. CASE k # kind
  <2>1. prompts'[k] = prompts[k] /\ routed'[k][d] = routed[k][d] BY <1>1, <1>2, <1>3, <1>6
  <2>2. Once(k, d)' /\ (Shown(k, d)' <=> Shown(k, d)) BY <1>4, <2>1 DEF Once, Shown, PromptState
  <2> QED BY <1>4, <1>5, <2>1, <2>2, PromptKept
<1>7. CASE k = kind
  <2>1. prompts'[k] = Tail(prompts[k]) BY <1>1, <1>2, <1>7
  <2>2. Shown(k, d)' => Shown(k, d) BY <1>3, <1>7, <2>1 DEF Shown
  <2>3. Once(k, d)' BY <1>3, <1>4, <1>7, <2>1 DEF Once, PromptState
  <2>4. CASE d # c
    <3>1. routed'[k][d] = routed[k][d]
      <4>1. CASE routed' = routed BY <4>1
      <4>2. CASE routed' = [routed EXCEPT ![kind][c] = "pending"] BY <1>2, <2>4, <4>2
      <4> QED BY <1>1, <4>1, <4>2
    <3> QED BY <1>4, <1>5, <2>2, <2>3, <3>1, PromptKept
  <2>5. CASE d = c
    <3>1. Shown(k, c) BY <1>3, <1>7 DEF Shown
    <3>2. routed[k][c] = "none" /\ Unanswered(k, c) /\ record[k][c] # "none"
      BY <1>4, <2>5, <3>1 DEF PromptState
    <3>3. ~Shown(k, c)'
      <4>1. \A i \in DOMAIN prompts'[k] : prompts'[k][i] # c
        BY <1>3, <1>4, <1>7, <2>1, <2>5 DEF PromptState
      <4> QED BY <4>1 DEF Shown
    <3>4. routed'[k][c] \in {"none", "pending"} BY <1>1, <1>2, <1>3, <1>7, <3>2
    <3>5. Unanswered(k, c)' BY <1>5, <2>5, <3>2 DEF Unanswered
    <3> QED BY <1>4, <1>5, <2>3, <2>5, <3>2, <3>3, <3>4, <3>5 DEF PromptState, Once, Unanswered
  <2> QED BY <2>4, <2>5
<1> QED BY <1>6, <1>7

\* A caller that starts, goes on or stops touches one prompt.
LEMMA PromptOthers ==
  ASSUME PromptInv, UNCHANGED <<prompts, record, run, due>>, NEW kind \in Kinds, NEW c \in Call,
         \A k \in Kinds, d \in Call : k # kind \/ d # c =>
           /\ Chosen(k, d)' => Chosen(k, d)
           /\ routed'[k][d] = routed[k][d]
           /\ \A r \in Resolver : On(r, k, d)' <=> On(r, k, d)
           /\ \A r \in Resolver : On(r, k, d) => resolver'[r].at = resolver[r].at,
         PromptState(kind, c)'
  PROVE  PromptInv'
<1> SUFFICES ASSUME NEW k \in Kinds, NEW d \in Call, k # kind \/ d # c PROVE PromptState(k, d)'
  BY DEF PromptInv
<1>1. PromptState(k, d) BY DEF PromptInv
<1>2. Once(k, d)' /\ (Shown(k, d)' <=> Shown(k, d)) /\ (Over(d)' <=> Over(d))
  BY <1>1 DEF Once, Shown, PromptState, Over
<1> QED BY <1>1, <1>2, PromptKept

LEMMA PromptExpired ==
  ASSUME TypeOK, PromptInv, NEW kind \in Kinds, NEW c \in Call, due[kind] # {},
         UNCHANGED <<prompts, decisions, record, resolver, run, due>>,
         routed' = [routed EXCEPT ![kind][c] = "expired"],
         routed[kind][c] \in {"pending", "forwarding"}
  PROVE  PromptInv'
<1>1. routed \in [Kinds -> [Call -> RoutedState]] BY DEF TypeOK, RuntimeTypes
<1>2. \A k \in Kinds, d \in Call :
        /\ Chosen(k, d)' <=> Chosen(k, d)
        /\ Shown(k, d)' <=> Shown(k, d)
        /\ \A r \in Resolver : On(r, k, d)' <=> On(r, k, d)
        /\ Unanswered(k, d)' <=> Unanswered(k, d)
  BY DEF Chosen, On, Unanswered, Shown
<1>3. routed'[kind][c] = "expired"
      /\ \A k \in Kinds, d \in Call : k # kind \/ d # c => routed'[k][d] = routed[k][d]
  BY <1>1
<1>4. PromptState(kind, c) /\ kind \in Expiring BY DEF PromptInv
<1>5. PromptState(kind, c)' BY <1>2, <1>3, <1>4 DEF PromptState
<1> QED BY <1>2, <1>3, <1>5, PromptOthers

LEMMA PromptBegun ==
  ASSUME TypeOK, PromptInv, NEW r \in Resolver, NEW kind \in Kinds, NEW c \in Call, NEW answer,
         ResolveBegin(r, kind, c, answer)
  PROVE  PromptInv'
<1>1. UNCHANGED <<prompts, decisions, record, run, due>>
  BY DEF ResolveBegin
<1>2. CASE /\ c \in due[kind] /\ routed[kind][c] \in {"pending", "forwarding"}
           /\ routed' = [routed EXCEPT ![kind][c] = "expired"] /\ UNCHANGED resolver
  BY <1>1, <1>2, PromptExpired
<1>3. CASE /\ resolver[r].at = "idle" /\ routed[kind][c] = "pending"
           /\ routed' = [routed EXCEPT ![kind][c] = "forwarding"]
           /\ resolver' = [resolver EXCEPT ![r] =
                [at |-> "forward", kind |-> kind, call |-> c, answer |-> answer]]
  <2>1. /\ routed \in [Kinds -> [Call -> RoutedState]] /\ DOMAIN resolver = Resolver
    BY DEF TypeOK, RuntimeTypes
  <2>2. /\ routed'[kind][c] = "forwarding"
        /\ \A k \in Kinds, d \in Call : k # kind \/ d # c => routed'[k][d] = routed[k][d]
    BY <1>3, <2>1
  <2>3. /\ resolver'[r].at = "forward" /\ resolver'[r].kind = kind /\ resolver'[r].call = c
        /\ \A q \in Resolver : q # r => resolver'[q] = resolver[q]
    BY <1>3, <2>1
  <2>4. PromptState(kind, c) BY DEF PromptInv
  <2>5. Unanswered(kind, c) /\ ~Shown(kind, c) /\ record[kind][c] # "none"
    BY <1>3, <2>4 DEF PromptState
  <2>6. \A k \in Kinds, d \in Call : /\ Chosen(k, d)' <=> Chosen(k, d)
                                     /\ Shown(k, d)' <=> Shown(k, d)
    BY <1>1 DEF Chosen, Shown
  <2>7. On(r, kind, c)' /\ \A q \in Resolver : On(q, kind, c)' => q = r
    BY <2>3, <2>5 DEF On, Unanswered
  <2>8. PromptState(kind, c)'
    <3>1. ~Chosen(kind, c)' /\ ~Shown(kind, c)' /\ record'[kind][c] = record[kind][c]
          /\ record[kind][c] \notin Verdicts
      BY <1>1, <2>5, <2>6 DEF Unanswered
    <3>2. Once(kind, c)' BY <1>1, <2>4 DEF PromptState, Once
    <3> QED BY <2>2, <2>5, <2>7, <3>1, <3>2 DEF PromptState, Once
  <2>9. \A k \in Kinds, d \in Call : k # kind \/ d # c =>
          /\ \A q \in Resolver : On(q, k, d)' <=> On(q, k, d)
          /\ \A q \in Resolver : On(q, k, d) => resolver'[q].at = resolver[q].at
    BY <1>3, <2>3 DEF On
  <2> QED BY <1>1, <2>2, <2>6, <2>8, <2>9, PromptOthers
<1> QED BY <1>2, <1>3 DEF ResolveBegin

\* What the caller on a prompt knows.
LEMMA PromptForwarded ==
  ASSUME TypeOK, PromptInv, NEW r \in Resolver, Forward(r)
  PROVE  PromptInv'
<1> PICK kind : kind = resolver[r].kind OBVIOUS
<1> PICK c : c = resolver[r].call OBVIOUS
<1> PICK answer : answer = resolver[r].answer OBVIOUS
<1>1. kind \in Kinds /\ c \in Call /\ resolver[r].at = "forward" /\ answer \in AnswersTo(kind)
      /\ resolver[r] \in Resolving(kind)
  BY ResolverType DEF Forward
<1>2. UNCHANGED <<prompts, record, run, due>>
  BY DEF Forward
<1>3. /\ routed \in [Kinds -> [Call -> RoutedState]] /\ DOMAIN resolver = Resolver
      /\ DOMAIN decisions = Kinds /\ \A k \in Kinds : decisions[k] \in Seq(DecisionOn(k))
  BY DEF TypeOK, RuntimeTypes, ChannelTypes
<1>4. On(r, kind, c) BY <1>1 DEF On
<1>5. PromptState(kind, c) BY <1>1 DEF PromptInv
<1>6. ~Chosen(kind, c) /\ record[kind][c] \notin Verdicts /\ ~Unanswered(kind, c)
  BY <1>1, <1>4, <1>5 DEF PromptState, Unanswered
<1>7. /\ record[kind][c] # "none" /\ ~Shown(kind, c)
      /\ routed[kind][c] \in {"forwarding", "resolved", "expired"} \/ Over(c)
  BY <1>5, <1>6 DEF PromptState
<1>8. \A q \in Resolver : On(q, kind, c) => q = r BY <1>4, <1>5, SMTT(20) DEF PromptState
<1>9. Once(kind, c)' /\ ~Shown(kind, c)' /\ (Over(c)' <=> Over(c))
  BY <1>2, <1>5, <1>7 DEF PromptState, Once, Shown, Over
<1>10. CASE /\ decisions' = [decisions EXCEPT ![kind] =
                 Append(@, [call |-> c, answer |-> answer])]
            /\ resolver' = [resolver EXCEPT ![r].at = "commit"]
            /\ UNCHANGED routed
  <2>1. /\ resolver'[r].at = "commit" /\ resolver'[r].kind = kind /\ resolver'[r].call = c
        /\ \A q \in Resolver : q # r => resolver'[q] = resolver[q]
    BY <1>1, <1>3, <1>10 DEF Resolving
  <2>2. \A k \in Kinds, d \in Call, q \in Resolver : On(q, k, d)' <=> On(q, k, d)
    BY <1>1, <2>1 DEF On
  <2>3. \A k \in Kinds, d \in Call : k # kind \/ d # c => (Chosen(k, d)' => Chosen(k, d))
    <3> SUFFICES ASSUME NEW k \in Kinds, NEW d \in Call, k # kind \/ d # c, Chosen(k, d)'
                 PROVE  Chosen(k, d)
      OBVIOUS
    <3>1. CASE k # kind BY <1>3, <1>10, <3>1 DEF Chosen
    <3>2. CASE k = kind
      <4> PICK x : x = [call |-> c, answer |-> answer] OBVIOUS
      <4>1. x \in DecisionOn(kind) /\ x.call = c BY <1>1 DEF DecisionOn
      <4>2. decisions'[k] = Append(decisions[k], x) BY <1>3, <1>10, <3>2
      <4>3. /\ DOMAIN decisions'[k] = 1..(Len(decisions[k]) + 1)
            /\ DOMAIN decisions[k] = 1..Len(decisions[k]) /\ Len(decisions[k]) \in Nat
            /\ decisions'[k][Len(decisions[k]) + 1] = x
            /\ \A i \in 1..Len(decisions[k]) : decisions'[k][i] = decisions[k][i]
        BY <1>3, <3>2, <4>1, <4>2, Appended
      <4>4. PICK i \in DOMAIN decisions'[k] : decisions'[k][i].call = d BY DEF Chosen
      <4>5. i # Len(decisions[k]) + 1 BY <3>2, <4>1, <4>3, <4>4
      <4> PICK n : n = Len(decisions[k]) OBVIOUS
      <4>6. i \in DOMAIN decisions[k] /\ decisions[k][i].call = d
        <5>1. n \in Nat /\ i \in 1..(n + 1) /\ i # n + 1 BY <4>3, <4>4, <4>5
        <5>2. i \in 1..n BY <5>1, SMTT(30)
        <5> QED BY <4>3, <4>4, <5>2
      <4> QED BY <4>6 DEF Chosen
    <3> QED BY <3>1, <3>2
  <2>4. PromptState(kind, c)'
    BY <1>1, <1>2, <1>4, <1>5, <1>7, <1>8, <1>9, <1>10, <2>1, <2>2 DEF PromptState, Once, Unanswered
  <2>5. \A k \in Kinds, d \in Call : k # kind \/ d # c =>
          \A q \in Resolver : On(q, k, d) => resolver'[q].at = resolver[q].at
    BY <1>4, <2>1 DEF On
  <2> QED BY <1>1, <1>2, <1>10, <2>2, <2>3, <2>4, <2>5, PromptOthers
<1>11. CASE /\ resolver' = [resolver EXCEPT ![r] = [at |-> "idle"]]
            /\ routed' = IF routed[kind][c] = "forwarding"
                         THEN [routed EXCEPT ![kind][c] = "pending"] ELSE routed
            /\ UNCHANGED decisions
  <2>1. /\ resolver'[r].at = "idle" /\ \A q \in Resolver : q # r => resolver'[q] = resolver[q]
    BY <1>3, <1>11
  <2>2. \A k \in Kinds, d \in Call : Chosen(k, d)' <=> Chosen(k, d) BY <1>11 DEF Chosen
  <2>3. /\ routed'[kind][c] = IF routed[kind][c] = "forwarding" THEN "pending" ELSE routed[kind][c]
        /\ \A k \in Kinds, d \in Call : k # kind \/ d # c => routed'[k][d] = routed[k][d]
    BY <1>1, <1>3, <1>11
  <2>4. Unanswered(kind, c)'
    BY <1>1, <1>2, <1>6, <1>8, <2>1, <2>2 DEF Unanswered, On
  <2>5. \A q \in Resolver : ~On(q, kind, c)' BY <2>4, SMTT(20) DEF Unanswered
  <2>6. PromptState(kind, c)'
    <3>1. routed'[kind][c] # "forwarding" BY <2>3
    <3>2. routed'[kind][c] = "expired" => kind \in Expiring BY <1>5, <2>3 DEF PromptState
    <3> QED BY <1>2, <1>7, <1>9, <2>4, <2>5, <3>1, <3>2 DEF PromptState, Once
  <2>7. \A k \in Kinds, d \in Call : k # kind \/ d # c =>
          /\ \A q \in Resolver : On(q, k, d)' <=> On(q, k, d)
          /\ \A q \in Resolver : On(q, k, d) => resolver'[q].at = resolver[q].at
    BY <1>4, <2>1 DEF On
  <2> QED BY <1>1, <1>2, <2>2, <2>3, <2>6, <2>7, PromptOthers
<1> QED BY <1>10, <1>11 DEF Forward

LEMMA PromptCommitted ==
  ASSUME TypeOK, PromptInv, NEW r \in Resolver, ResolveCommit(r)
  PROVE  PromptInv'
<1> PICK kind : kind = resolver[r].kind OBVIOUS
<1> PICK c : c = resolver[r].call OBVIOUS
<1>1. kind \in Kinds /\ c \in Call /\ resolver[r].at = "commit"
  BY ResolverType DEF ResolveCommit
<1>2. /\ UNCHANGED <<prompts, decisions, record, run, due>>
      /\ resolver' = [resolver EXCEPT ![r] = [at |-> "idle"]]
      /\ \/ UNCHANGED routed /\ routed[kind][c] # "forwarding"
         \/ routed' = [routed EXCEPT ![kind][c] = "resolved"]
  BY DEF ResolveCommit
<1>3. /\ routed \in [Kinds -> [Call -> RoutedState]] /\ DOMAIN resolver = Resolver
  BY DEF TypeOK, RuntimeTypes
<1>4. On(r, kind, c) BY <1>1 DEF On
<1>5. PromptState(kind, c) BY <1>1 DEF PromptInv
<1>6. /\ record[kind][c] # "none" /\ ~Shown(kind, c)
      /\ routed[kind][c] \in {"forwarding", "resolved", "expired"} \/ Over(c)
      /\ routed[kind][c] # "pending"
  BY <1>4, <1>5 DEF PromptState, Unanswered
<1>7. \A q \in Resolver : On(q, kind, c) => q = r BY <1>4, <1>5, SMTT(30) DEF PromptState
<1>8. /\ Once(kind, c)' /\ ~Shown(kind, c)' /\ (Over(c)' <=> Over(c))
      /\ \A k \in Kinds, d \in Call : Chosen(k, d)' <=> Chosen(k, d)
  BY <1>2, <1>5, <1>6 DEF PromptState, Once, Shown, Over, Chosen
<1>9. /\ resolver'[r].at = "idle" /\ \A q \in Resolver : q # r => resolver'[q] = resolver[q]
  BY <1>2, <1>3
<1>10. /\ routed'[kind][c] = "resolved"
          \/ (routed'[kind][c] = routed[kind][c] /\ routed[kind][c] # "forwarding")
       /\ \A k \in Kinds, d \in Call : k # kind \/ d # c => routed'[k][d] = routed[k][d]
  BY <1>1, <1>2, <1>3
<1>11. \A q \in Resolver : ~On(q, kind, c)' BY <1>7, <1>9, SMTT(30) DEF On
<1>12. PromptState(kind, c)'
  <2>1. routed'[kind][c] \in {"resolved", "expired"} \/ Over(c)' BY <1>6, <1>8, <1>10
  <2>2. routed'[kind][c] = "expired" => kind \in Expiring BY <1>5, <1>10 DEF PromptState
  <2>3. routed'[kind][c] \notin {"pending", "forwarding"} BY <1>6, <1>10
  <2> QED BY <1>2, <1>6, <1>8, <1>11, <2>1, <2>2, <2>3 DEF PromptState, Once
<1>13. \A k \in Kinds, d \in Call : k # kind \/ d # c =>
         /\ \A q \in Resolver : On(q, k, d)' <=> On(q, k, d)
         /\ \A q \in Resolver : On(q, k, d) => resolver'[q].at = resolver[q].at
  BY <1>4, <1>9 DEF On
<1> QED BY <1>1, <1>2, <1>8, <1>10, <1>12, <1>13, PromptOthers

\* A run that is interrupted or ends takes its prompts with it.
LEMMA PromptRuns ==
  ASSUME TypeOK, PromptInv, Runs
  PROVE  PromptInv'
<1>1. PICK t \in Turn :
        StartRun(t) \/ DispatchTools(t) \/ RunCompletes(t) \/ InterruptRun(t) \/ CloseRun(t)
  BY DEF Runs
<1>2. UNCHANGED <<prompts, decisions, record, resolver, due>>
  BY <1>1 DEF StartRun, DispatchTools, RunCompletes, InterruptRun, CloseRun, unregister
<1>3. run \in [Turn -> {"idle", "active", "closing", "ended"}] BY DEF TypeOK, RuntimeTypes
<1>4. \A u \in Turn : run'[u] = run[u]
                      \/ (u = t /\ (run[u] = "idle" \/ run'[u] \in {"closing", "ended"}))
  BY <1>1, <1>3 DEF StartRun, DispatchTools, RunCompletes, InterruptRun, CloseRun, unregister
<1> SUFFICES ASSUME NEW k \in Kinds, NEW c \in Call PROVE PromptState(k, c)'
  BY <1>2 DEF PromptInv
<1>5. PromptState(k, c) BY DEF PromptInv
<1>6. Over(c) => Over(c)' BY <1>3, <1>4, TurnOfCall DEF Over
<1>7. routed'[k][c] = routed[k][c] \/ (routed'[k][c] = "none" /\ Over(c)')
  <2>1. CASE StartRun(t) \/ DispatchTools(t)
    BY <2>1 DEF StartRun, DispatchTools
  <2>2. CASE unregister(t) \/ InterruptRun(t)
    <3>1. /\ run'[t] \in {"closing", "ended"}
          /\ routed'[k][c] = routed[k][c] \/ (routed'[k][c] = "none" /\ c \in CallsOf(t))
      BY <1>3, <2>2 DEF unregister, InterruptRun
    <3> QED BY <3>1, TurnOfCall DEF Over
  <2> QED BY <1>1, <2>1, <2>2 DEF RunCompletes, CloseRun
<1>8. /\ Once(k, c)' /\ (Chosen(k, c)' <=> Chosen(k, c)) /\ (Shown(k, c)' <=> Shown(k, c))
      /\ \A r \in Resolver : (On(r, k, c)' <=> On(r, k, c)) /\ resolver'[r].at = resolver[r].at
  BY <1>2, <1>5 DEF Once, Chosen, Shown, On, PromptState
<1> QED BY <1>2, <1>5, <1>6, <1>7, <1>8, PromptKept

LEMMA PromptNext ==
  ASSUME TypeOK, PlaceInv, RecordInv, PromptInv, [Next]_vars
  PROVE  PromptInv'
<1> DEFINE Same == UNCHANGED <<prompts, decisions, record, routed, resolver, run, due>>
<1>1. CASE Worker
  <2>1. Same BY <1>1, WorkerStep
  <2> QED BY <2>1, PromptUnchanged
<1>2. CASE Router
  <2>1. CASE RouteToolResult
    <3>1. Same BY <2>1 DEF RouteToolResult
    <3> QED BY <3>1, PromptUnchanged
  <2>2. ASSUME NEW kind \in Kinds, NEW c \in Call, ExpireRouted(kind, c) PROVE PromptInv'
    <3>1. /\ UNCHANGED <<prompts, decisions, record, resolver, run, due>>
          /\ c \in due[kind] /\ routed[kind][c] = "pending"
          /\ routed' = [routed EXCEPT ![kind][c] = "expired"]
      BY <2>2 DEF ExpireRouted
    <3> QED BY <3>1, PromptExpired
  <2> QED BY <1>2, <2>1, <2>2, PromptRouted
       DEF Router, routePermissionRequests, routeConfirmationRequests, expirePermission,
           expireConfirmation, Kinds
<1>3. CASE Resolve
  <2>1. PICK r \in Resolver : ResolvePermission(r) \/ ResolveConfirmation(r) BY <1>3 DEF Resolve
  <2>2. \/ \E kind \in Kinds, c \in Call : \E answer : ResolveBegin(r, kind, c, answer)
        \/ Forward(r) \/ ResolveCommit(r)
    BY <2>1 DEF ResolvePermission, ResolveConfirmation, Kinds
  <2> QED BY <2>2, PromptBegun, PromptForwarded, PromptCommitted
<1>4. CASE Environment
  <2>1. CASE ReadyChanges
    <3>1. Same BY <2>1 DEF ReadyChanges
    <3> QED BY <3>1, PromptUnchanged
  <2>2. ASSUME NEW kind \in Kinds, NEW c \in Call, Tick(kind, c) PROVE PromptInv'
    <3>1. /\ UNCHANGED <<prompts, decisions, record, routed, resolver, run>>
          /\ kind \in Expiring /\ due' = [due EXCEPT ![kind] = @ \cup {c}]
      BY <2>2 DEF Tick
    <3>2. due \in [Kinds -> SUBSET Call] BY DEF TypeOK, RuntimeTypes
    <3>3. \A k \in Kinds : due'[k] # {} => k \in Expiring BY <3>1, <3>2 DEF PromptInv
    <3>4. ASSUME NEW k \in Kinds, NEW d \in Call PROVE PromptState(k, d)'
      <4>1. PromptState(k, d) BY DEF PromptInv
      <4>2. Once(k, d)' /\ (Chosen(k, d)' <=> Chosen(k, d)) /\ (Shown(k, d)' <=> Shown(k, d))
        BY <3>1, <4>1 DEF Once, Chosen, Shown, PromptState
      <4> QED BY <3>1, <4>1, <4>2, PromptExecutorKept
    <3> QED BY <3>3, <3>4 DEF PromptInv
  <2>3. ASSUME NEW mode \in LaterModes, SetMode(mode) PROVE PromptInv'
    <3>1. Same BY <2>3 DEF SetMode
    <3> QED BY <3>1, PromptUnchanged
  <2> QED BY <1>4, <2>1, <2>2, <2>3, PromptShutdown DEF Environment
<1>5. CASE UNCHANGED vars
  <2>1. Same BY <1>5 DEF vars
  <2> QED BY <2>1, PromptUnchanged
<1> QED BY <1>1, <1>2, <1>3, <1>4, <1>5, PromptExecutor, PromptRuns DEF Next

-----------------------------------------------------------------------------
(* The result of a call comes when its admission is over. *)

LEMMA AdmissionShrinks ==
  ASSUME TypeOK, PlaceInv, RecordInv, [Next]_vars, NEW c \in Call
  PROVE  InAdmission(c)' => InAdmission(c)
<1>1. Untried(c)' => Untried(c) BY UntriedShrinks
<1>2. CASE \A k \in Kinds : c \in pending'[k] => c \in pending[k]
  BY <1>1, <1>2 DEF InAdmission, Prompted
<1>3. pending \in [Kinds -> SUBSET Call] /\ record \in [Kinds -> [Call -> RecordState]]
  BY DEF TypeOK, ApprovalTypes
<1>4. ASSUME NEW d, NEW pend \in [Kinds -> SUBSET Call], NEW rec, Enters(d, rec, pend),
             \A k \in Kinds : pend[k] \subseteq pending[k], d = c => InAdmission(c)
      PROVE  InAdmission(c)' => InAdmission(c)
  <2>1. CASE d = c BY <1>4, <2>1
  <2>2. CASE d # c
    <3>1. \A k \in Kinds : c \in pending'[k] => c \in pending[k] BY <1>4, <2>2 DEF Enters
    <3> QED BY <1>2, <3>1
  <2> QED BY <2>1, <2>2
<1>5. CASE admitDeferredApproval
  <2>1. PICK d \in Call : Deferred(d) /\ Enters(d, record, pending) BY <1>5, AdmitDeferredEnters
  <2> QED BY <1>3, <1>4, <2>1 DEF InAdmission, Untried
<1>6. ASSUME NEW kind \in Kinds,
             kind = "permission" => DecidePermission, kind = "confirmation" => DecideConfirmation
      PROVE  InAdmission(c)' => InAdmission(c)
  <2>1. CASE UNCHANGED pending BY <1>2, <2>1
  <2>2. ASSUME NEW d \in Call, NEW rec \in [Kinds -> [Call -> RecordState]],
               NEW pend \in [Kinds -> SUBSET Call], Decided(kind, d, rec, pend)
        PROVE  InAdmission(c)' => InAdmission(c)
    <3>1. \A k \in Kinds : pend[k] \subseteq pending[k] BY <1>3, <2>2 DEF Decided
    <3>2. d = c => InAdmission(c) BY <2>2 DEF Decided, InAdmission, Prompted
    <3>3. Enters(d, rec, pend) BY <2>2 DEF Decided
    <3> QED BY <1>4, <3>1, <3>2, <3>3
  <2> QED BY <1>6, <2>1, <2>2, DecideEnters
<1>7. CASE Executor
  <2>1. CASE ReceiveRequest \/ InterruptTurn
    BY <1>2, <2>1 DEF ReceiveRequest, InterruptTurn
  <2>2. ASSUME NEW kind \in Kinds, ExpirePrompts(kind) PROVE InAdmission(c)' => InAdmission(c)
    BY <1>2, <1>3, <2>2 DEF ExpirePrompts, Withdraw
  <2> QED BY <1>5, <1>6, <1>7, <2>1, <2>2 DEF Executor, Kinds
<1>8. CASE Worker BY <1>2, <1>8, WorkerStep
<1>9. CASE Router
  BY <1>2, <1>9 DEF Router, RouteToolResult, RoutePrompt, ExpireRouted, routePermissionRequests,
     routeConfirmationRequests, expirePermission, expireConfirmation
<1>10. CASE Resolve
  <2>1. UNCHANGED resolveOnly
    BY <1>10 DEF Resolve, ResolvePermission, ResolveConfirmation, ResolveBegin, Forward,
                ResolveCommit
  <2> QED BY <1>2, <2>1, SMTT(30)
<1>11. CASE Runs
  BY <1>2, <1>11 DEF Runs, StartRun, DispatchTools, RunCompletes, InterruptRun, CloseRun,
     unregister
<1>12. CASE Environment
  BY <1>2, <1>12 DEF Environment, Shutdown, ReadyChanges, Tick, SetMode
<1>13. CASE UNCHANGED vars BY <1>2, <1>13 DEF vars
<1> QED BY <1>7, <1>8, <1>9, <1>10, <1>11, <1>12, <1>13 DEF Next

LEMMA EndOfAppended ==
  ASSUME NEW S, NEW q \in Seq(S), NEW x
  PROVE  \A i \in DOMAIN Append(q, x) : Append(q, x)[i] = x \/ \E j \in DOMAIN q : Append(q, x)[i] = q[j]
<1>1. q \in Seq(S \cup {x}) OBVIOUS
<1> PICK T : T = S \cup {x} OBVIOUS
<1>2. q \in Seq(T) /\ x \in T BY <1>1
<1> QED BY <1>2, Appended

LEMMA ConcatElements ==
  ASSUME NEW S, NEW a \in Seq(S), NEW b \in Seq(S)
  PROVE  \A i \in DOMAIN (a \o b) : \/ \E j \in DOMAIN a : (a \o b)[i] = a[j]
                                    \/ \E j \in DOMAIN b : (a \o b)[i] = b[j]
<1> PICK c : c = a \o b OBVIOUS
<1>1. /\ DOMAIN c = 1..(Len(a) + Len(b)) /\ DOMAIN a = 1..Len(a) /\ DOMAIN b = 1..Len(b)
      /\ Len(a) \in Nat /\ Len(b) \in Nat
      /\ \A j \in 1..(Len(a) + Len(b)) : c[j] = IF j <= Len(a) THEN a[j] ELSE b[j - Len(a)]
  BY Concat
<1>2. ASSUME NEW i \in DOMAIN c
      PROVE  (\E j \in DOMAIN a : c[i] = a[j]) \/ (\E j \in DOMAIN b : c[i] = b[j])
  <2>1. CASE i <= Len(a) BY <1>1, <2>1
  <2>2. CASE ~(i <= Len(a))
    <3>1. i \in 1..(Len(a) + Len(b)) BY <1>1
    <3>2. i - Len(a) \in 1..Len(b) BY <1>1, <2>2, <3>1
    <3> QED BY <1>1, <2>2, <3>1, <3>2
  <2> QED BY <2>1, <2>2
<1> QED BY <1>2

LEMMA ResultsConcat ==
  \A a, b \in Seq(ToolResult) : \A i \in DOMAIN (a \o b) :
    (\E j \in DOMAIN a : (a \o b)[i] = a[j]) \/ (\E j \in DOMAIN b : (a \o b)[i] = b[j])
<1> TAKE a, b \in Seq(ToolResult)
<1> QED BY ConcatElements

\* A new result is of a call that is not in admission any more.
Results(c) == HasResult(c)' => HasResult(c) \/ ~InAdmission(c)'

LEMMA ResultAnswered ==
  ASSUME TypeOK, NEW d, NEW s, results' = Append(results, Result(d, s)), UNCHANGED <<held, delivered>>,
         ~InAdmission(d)', NEW c
  PROVE  Results(c)
<1>1. results \in Seq(ToolResult) BY DEF TypeOK, ChannelTypes
<1> PICK x : x = Result(d, s) OBVIOUS
<1>2. x.call = d BY DEF Result
<1>3. \A i \in DOMAIN results' : results'[i] = x \/ \E j \in DOMAIN results : results'[i] = results[j]
  BY <1>1, EndOfAppended
<1> QED BY <1>2, <1>3 DEF Results, HasResult

LEMMA ResultEnters ==
  ASSUME TypeOK, NEW d \in Call, NEW rec, NEW pend, Enters(d, rec, pend), UNCHANGED elsewhere,
         ~Untried(d)', \A k \in Kinds : d \notin pend[k], NEW c
  PROVE  Results(c)
<1>1. UNCHANGED <<held, delivered>> BY DEF elsewhere
<1>2. CASE results' = results BY <1>1, <1>2 DEF Results, HasResult
<1>3. ASSUME NEW s, results' = Append(results, Result(d, s)), pending' = pend PROVE Results(c)
  <2>1. ~InAdmission(d)' BY <1>3 DEF InAdmission, Prompted
  <2> QED BY <1>1, <1>3, <2>1, ResultAnswered
<1> QED BY <1>2, <1>3 DEF Enters

LEMMA ResultReceive ==
  ASSUME TypeOK, PlaceInv, ReceiveRequest, NEW c
  PROVE  Results(c)
<1> PICK d : d = Head(requests) OBVIOUS
<1>1. /\ requests # <<>> /\ requests' = Tail(requests) /\ UNCHANGED <<held, delivered, pending, round>>
      /\ results' = results \/ \E s : results' = Append(results, Result(d, s)) /\ deferred' = deferred
  BY DEF ReceiveRequest, newJob, Answer, Send
<1>2. CASE results' = results BY <1>1, <1>2 DEF Results, HasResult
<1>3. ASSUME NEW s, results' = Append(results, Result(d, s)), deferred' = deferred PROVE Results(c)
  <2>1. requests \in Seq(Call) BY DEF TypeOK, ChannelTypes
  <2>2. /\ d \in Call /\ d = requests[1] /\ 1 \in DOMAIN requests
        /\ DOMAIN requests' = 1..(Len(requests) - 1) /\ DOMAIN requests = 1..Len(requests)
        /\ \A i \in DOMAIN requests' : i + 1 \in DOMAIN requests /\ requests'[i] = requests[i + 1]
    BY <1>1, <2>1, HeadTail
  <2>3. Requested(d) BY <2>2 DEF Requested
  <2>4. ~Requested(d)' BY <2>2 DEF PlaceInv, Requested
  <2>5. /\ (Dispatched(d)' <=> Dispatched(d)) /\ (Deferred(d)' <=> Deferred(d))
        /\ (Prompted(d)' <=> Prompted(d))
    BY <1>1, <1>3 DEF Dispatched, Deferred, Prompted
  <2>6. ~InAdmission(d)' BY <2>2, <2>3, <2>4, <2>5 DEF PlaceInv, OnePlace, InAdmission, Untried
  <2> QED BY <1>1, <1>3, <2>6, ResultAnswered
<1> QED BY <1>1, <1>2, <1>3

LEMMA ResultExpire ==
  ASSUME TypeOK, PlaceInv, NEW kind \in Kinds, ExpirePrompts(kind), NEW c
  PROVE  Results(c)
<1> DEFINE over == {d \in due[kind] : record[kind][d] = "pending"}
<1> PICK calls : calls = over \cap pending[kind] OBVIOUS
<1>1. /\ Withdraw(kind, over, "expired") /\ AnswerAll(calls, RefusalOf(kind))
      /\ UNCHANGED <<deferred, loopOnly>>
  BY DEF ExpirePrompts
<1>2. pending \in [Kinds -> SUBSET Call] /\ results \in Seq(ToolResult)
  BY DEF TypeOK, ApprovalTypes, ChannelTypes
<1>3. calls \subseteq Call /\ Cardinality(calls) \in Nat
  <2>1. calls \subseteq Call BY <1>2
  <2>2. IsFiniteSet(calls) BY <2>1, ConstantsAssumption, FS_Subset
  <2> QED BY <2>1, <2>2, FS_CardinalityType
<1>4. UNCHANGED <<held, delivered, requests, round>> BY <1>1
<1>5. \A d \in calls : ~InAdmission(d)'
  <2> SUFFICES ASSUME NEW d \in calls PROVE ~InAdmission(d)' OBVIOUS
  <2>1. d \in pending[kind] /\ d \in Call /\ d \notin pending'[kind]
        /\ \A k \in Kinds : k # kind => pending'[k] = pending[k]
    BY <1>1, <1>2, <1>3 DEF Withdraw
  <2>2. OnePlace(d) /\ Prompted(d) BY <2>1 DEF PlaceInv, Prompted
  <2>3. ~Prompted(d)' BY <2>1, <2>2 DEF OnePlace, Prompted, Kinds
  <2>4. (Dispatched(d)' <=> Dispatched(d)) /\ (Deferred(d)' <=> Deferred(d))
        /\ (Requested(d)' <=> Requested(d))
    BY <1>1, <1>4 DEF Dispatched, Deferred, Requested
  <2> QED BY <2>2, <2>3, <2>4 DEF OnePlace, InAdmission, Untried
<1>6. PICK new \in [1..Cardinality(calls) -> ToolResult] :
        results' = results \o new /\ \A i \in DOMAIN new : new[i].call \in calls
  <2>1. PICK order \in [1..Cardinality(calls) -> calls] :
          results' = results \o [i \in DOMAIN order |-> Result(order[i], RefusalOf(kind))]
    BY <1>1 DEF AnswerAll
  <2> DEFINE new == [i \in DOMAIN order |-> Result(order[i], RefusalOf(kind))]
  <2>2. RefusalOf(kind) \in Statuses BY DEF RefusalOf, Statuses
  <2>3. new \in [1..Cardinality(calls) -> ToolResult] /\ \A i \in DOMAIN new : new[i].call \in calls
    BY <1>3, <2>2 DEF Result, ToolResult
  <2> QED BY <2>1, <2>3
<1>7. \A i \in DOMAIN (results \o new) :
        \/ \E j \in DOMAIN results : (results \o new)[i] = results[j]
        \/ \E j \in DOMAIN new : (results \o new)[i] = new[j]
  <2>1. new \in Seq(ToolResult)
    <3>1. ASSUME NEW S, new \in [1..Cardinality(calls) -> S] PROVE new \in Seq(S)
      BY <1>3, <3>1, FunctionIsSeq
    <3> QED BY <3>1
  <2>2. results \in Seq(ToolResult) BY <1>2
  <2> QED BY <2>1, <2>2, ResultsConcat
<1>8. \A i \in DOMAIN results' :
        (\E j \in DOMAIN results : results'[i] = results[j]) \/ results'[i].call \in calls
  BY <1>6, <1>7
<1> QED BY <1>4, <1>5, <1>8 DEF Results, HasResult

LEMMA ResultExecutor ==
  ASSUME TypeOK, PlaceInv, RecordInv, Executor, NEW c
  PROVE  Results(c)
<1>1. CASE admitDeferredApproval
  <2>1. PICK d \in Call :
          /\ Deferred(d) /\ ~Untried(d)' /\ Enters(d, record, pending) /\ UNCHANGED elsewhere
    BY <1>1, AdmitDeferredEnters
  <2>2. \A k \in Kinds : d \notin pending[k] BY <2>1 DEF PlaceInv, OnePlace, Prompted
  <2> QED BY <2>1, <2>2, ResultEnters
<1>2. ASSUME NEW kind \in Kinds,
             kind = "permission" => DecidePermission, kind = "confirmation" => DecideConfirmation
      PROVE  Results(c)
  <2>1. UNCHANGED <<elsewhere, deferred>> BY <1>2, DecideEnters
  <2>2. CASE UNCHANGED <<record, pending, prompts, results>>
    BY <2>1, <2>2 DEF elsewhere, Results, HasResult
  <2>3. ASSUME NEW d \in Call, NEW rec \in [Kinds -> [Call -> RecordState]],
               NEW pend \in [Kinds -> SUBSET Call], Decided(kind, d, rec, pend)
        PROVE  Results(c)
    <3>1. OnePlace(d) /\ d \in pending[kind] BY <2>3 DEF PlaceInv, Decided
    <3>2. ~Untried(d)'
      <4>1. ~Untried(d) BY <3>1 DEF OnePlace, Prompted, Untried
      <4> QED BY <2>1, <4>1 DEF elsewhere, Untried, Dispatched, Requested, Deferred
    <3>3. \A k \in Kinds : d \notin pend[k]
      <4>1. pending \in [Kinds -> SUBSET Call] BY DEF TypeOK, ApprovalTypes
      <4> QED BY <2>3, <3>1, <4>1 DEF OnePlace, Decided, Kinds
    <3>4. Enters(d, rec, pend) /\ UNCHANGED elsewhere BY <2>1, <2>3 DEF Decided
    <3> QED BY <3>2, <3>3, <3>4, ResultEnters
  <2> QED BY <1>2, <2>2, <2>3, DecideEnters
<1>3. CASE InterruptTurn
  BY <1>3 DEF InterruptTurn, Results, HasResult
<1> QED BY <1>1, <1>2, <1>3, ResultReceive, ResultExpire DEF Executor, Kinds

LEMMA ResultWorker ==
  ASSUME TypeOK, PlaceInv, Worker, NEW c
  PROVE  Results(c)
<1>1. UNCHANGED workerOnly BY WorkerStep
<1>2. PICK d \in Call :
        /\ results' = results \/ \E s \in Statuses : results' = Append(results, Result(d, s))
        /\ \/ job[d] \in {"checked", "ending", "handling"}
           \/ pendingJobs # <<>> /\ d = Head(pendingJobs)
  BY WorkerStep
<1>3. UNCHANGED <<held, delivered, requests, deferred, pending, round>>
  BY <1>1
<1>4. Begun(d)
  <2>1. CASE pendingJobs # <<>> /\ d = Head(pendingJobs)
    <3>1. pendingJobs \in Seq(Call) BY DEF TypeOK, JobTypes
    <3>2. 1 \in DOMAIN pendingJobs /\ d = pendingJobs[1] BY <2>1, <3>1, HeadTail
    <3> QED BY <3>2 DEF PlaceInv, Begun
  <2> QED BY <1>2, <2>1 DEF Begun
<1>5. ~InAdmission(d)'
  <2>1. ~InAdmission(d) BY <1>4 DEF PlaceInv, OnePlace, InAdmission, Untried
  <2> QED BY <1>3, <2>1 DEF InAdmission, Untried, Dispatched, Requested, Deferred, Prompted
<1>6. CASE results' = results BY <1>3, <1>6 DEF Results, HasResult
<1> QED BY <1>2, <1>3, <1>5, <1>6, ResultAnswered

\* A result that goes on to its run.
LEMMA ResultQueued ==
  ASSUME TypeOK, NEW c \in Call, NEW d \in Call, NEW statuses \in Seq(Statuses), Enqueue(d, statuses)
  PROVE  delivered'[c] # <<>> => delivered[c] # <<>> \/ (c = d /\ statuses # <<>>)
<1>1. delivered \in [Call -> Seq(Statuses)] BY DEF TypeOK, RuntimeTypes
<1>2. CASE delivered' = delivered BY <1>2
<1>3. CASE delivered' = [delivered EXCEPT ![d] = @ \o statuses]
  <2>1. CASE c # d BY <1>1, <1>3, <2>1
  <2>2. CASE c = d
    <3>1. delivered'[c] = delivered[c] \o statuses /\ delivered[c] \in Seq(Statuses)
      BY <1>1, <1>3, <2>2
    <3>2. delivered[c] = <<>> /\ statuses = <<>> => delivered'[c] = <<>> BY <3>1
    <3> QED BY <2>2, <3>2
  <2> QED BY <2>1, <2>2
<1> QED BY <1>2, <1>3 DEF Enqueue

LEMMA ResultRouted ==
  ASSUME TypeOK, RouteToolResult, NEW c \in Call
  PROVE  Results(c)
<1> PICK x : x = Head(results) OBVIOUS
<1>1. results \in Seq(ToolResult) /\ results # <<>> /\ results' = Tail(results)
  BY DEF RouteToolResult, TypeOK, ChannelTypes
<1>2. /\ x \in ToolResult /\ 1 \in DOMAIN results /\ x = results[1]
      /\ \A i \in DOMAIN results' : i + 1 \in DOMAIN results /\ results'[i] = results[i + 1]
  BY <1>1, HeadTail
<1> PICK d : d = x.call OBVIOUS
<1> PICK statuses : statuses = <<x.status>> BY Zenon
<1>3. d \in Call /\ statuses \in Seq(Statuses) BY <1>2, SMTT(30) DEF ToolResult
<1>4. /\ \/ held' = held
         \/ \E k \in Kinds : held' = [held EXCEPT ![k][d] = @ \o statuses]
      /\ delivered' = delivered \/ Enqueue(d, statuses)
  BY DEF RouteToolResult, Hold, Kinds
<1>5. HasResult(d) BY <1>2 DEF HasResult
<1>6. held \in [Kinds -> [Call -> Seq(Statuses)]] BY DEF TypeOK, RuntimeTypes
<1>7. c # d => \A k \in Kinds : held'[k][c] = held[k][c]
  <2>1. ASSUME NEW k \in Kinds, held' = [held EXCEPT ![k][d] = @ \o statuses], c # d
        PROVE  \A j \in Kinds : held'[j][c] = held[j][c]
    BY <1>6, <2>1
  <2>2. held' = held => \A j \in Kinds : held'[j][c] = held[j][c] BY SMTT(20)
  <2> QED BY <1>4, <2>1, <2>2, Zenon
<1>8. c # d => (delivered'[c] # <<>> => delivered[c] # <<>>) BY <1>3, <1>4, ResultQueued
<1>9. \A i \in DOMAIN results' : \E j \in DOMAIN results : results'[i] = results[j] BY <1>2
<1>10. CASE c = d BY <1>5, <1>10 DEF Results
<1>11. CASE c # d BY <1>7, <1>8, <1>9, <1>11 DEF Results, HasResult
<1> QED BY <1>10, <1>11

LEMMA ResultCommitted ==
  ASSUME TypeOK, NEW r \in Resolver, ResolveCommit(r), NEW c \in Call
  PROVE  Results(c)
<1> PICK kind : kind = resolver[r].kind OBVIOUS
<1> PICK d : d = resolver[r].call OBVIOUS
<1>1. kind \in Kinds /\ d \in Call BY ResolverType DEF ResolveCommit
<1>2. /\ UNCHANGED results
      /\ \/ UNCHANGED <<held, delivered>>
         \/ held' = [held EXCEPT ![kind][d] = <<>>] /\ Enqueue(d, held[kind][d])
  BY DEF ResolveCommit
<1>3. held \in [Kinds -> [Call -> Seq(Statuses)]] BY DEF TypeOK, RuntimeTypes
<1>4. CASE UNCHANGED <<held, delivered>> BY <1>2, <1>4 DEF Results, HasResult
<1>5. CASE held' = [held EXCEPT ![kind][d] = <<>>] /\ Enqueue(d, held[kind][d])
  <2>1. \A k \in Kinds : held'[k][c] # <<>> => held[k][c] # <<>> BY <1>3, <1>5
  <2>2. delivered'[c] # <<>> => delivered[c] # <<>> \/ held[kind][c] # <<>>
    BY <1>1, <1>3, <1>5, ResultQueued
  <2> QED BY <1>1, <1>2, <2>1, <2>2 DEF Results, HasResult
<1> QED BY <1>2, <1>4, <1>5

LEMMA ResultNext ==
  ASSUME TypeOK, PlaceInv, RecordInv, ResultInv, [Next]_vars
  PROVE  ResultInv'
<1> SUFFICES ASSUME NEW c \in Call PROVE Results(c)
  <2>1. ASSUME NEW c \in Call, Results(c), HasResult(c)' PROVE ~InAdmission(c)'
    BY <2>1, AdmissionShrinks DEF Results, ResultInv
  <2> QED BY <2>1 DEF ResultInv
<1>1. CASE UNCHANGED <<results, delivered>>
           /\ \A k \in Kinds : held'[k][c] # <<>> => held[k][c] # <<>>
  BY <1>1 DEF Results, HasResult
<1>2. held \in [Kinds -> [Call -> Seq(Statuses)]] BY DEF TypeOK, RuntimeTypes
<1>3. CASE Router
  <2>1. ASSUME NEW kind \in Kinds, RoutePrompt(kind) PROVE Results(c)
    BY <1>1, <2>1 DEF RoutePrompt
  <2>2. ASSUME NEW kind \in Kinds, NEW d \in Call, ExpireRouted(kind, d) PROVE Results(c)
    BY <1>1, <1>2, <2>2 DEF ExpireRouted
  <2> QED BY <1>3, <2>1, <2>2, ResultRouted
       DEF Router, routePermissionRequests, routeConfirmationRequests, expirePermission,
           expireConfirmation, Kinds
<1>4. CASE Resolve
  <2>1. PICK r \in Resolver : ResolvePermission(r) \/ ResolveConfirmation(r) BY <1>4 DEF Resolve
  <2>2. \/ \E kind \in Kinds, d \in Call : \E answer : ResolveBegin(r, kind, d, answer)
        \/ Forward(r) \/ ResolveCommit(r)
    BY <2>1 DEF ResolvePermission, ResolveConfirmation, Kinds
  <2>3. ASSUME NEW kind \in Kinds, NEW d \in Call, NEW answer, ResolveBegin(r, kind, d, answer)
        PROVE  Results(c)
    <3>1. UNCHANGED <<results, delivered>>
          /\ (held' = held \/ held' = [held EXCEPT ![kind][d] = <<>>])
      BY <2>3 DEF ResolveBegin
    <3>2. \A k \in Kinds : held'[k][c] # <<>> => held[k][c] # <<>> BY <1>2, <3>1
    <3> QED BY <1>1, <3>1, <3>2
  <2>4. CASE Forward(r) BY <1>1, <2>4 DEF Forward
  <2> QED BY <2>2, <2>3, <2>4, ResultCommitted
<1>5. CASE Runs
  BY <1>1, <1>2, <1>5 DEF Runs, StartRun, DispatchTools, RunCompletes, InterruptRun, CloseRun,
     unregister
<1>6. CASE Environment
  BY <1>1, <1>6 DEF Environment, Shutdown, ReadyChanges, Tick, SetMode
<1>7. CASE UNCHANGED vars BY <1>1, <1>7 DEF vars
<1> QED BY <1>3, <1>4, <1>5, <1>6, <1>7, ResultExecutor, ResultWorker DEF Next

-----------------------------------------------------------------------------
(* The result of a call and the decisions on it. *)

\* The executor decides nothing about a call with a result.
LEMMA RecordSettled ==
  ASSUME TypeOK, PlaceInv, RecordInv, ResultInv, [Next]_vars, NEW c \in Call, HasResult(c),
         NEW k \in Kinds
  PROVE  \/ record'[k][c] = record[k][c]
         \/ record[k][c] = "pending" /\ record'[k][c] \in {"cancelled", "expired"}
<1> DEFINE Settles == \/ record'[k][c] = record[k][c]
                      \/ record[k][c] = "pending" /\ record'[k][c] \in {"cancelled", "expired"}
<1> SUFFICES Settles OBVIOUS
<1>1. record \in [Kinds -> [Call -> RecordState]] /\ pending \in [Kinds -> SUBSET Call]
  BY DEF TypeOK, ApprovalTypes
<1>2. ~Untried(c) /\ ~Prompted(c) BY DEF ResultInv, InAdmission
<1>3. CASE admitDeferredApproval
  <2>1. PICK d \in Call : Deferred(d) /\ Enters(d, record, pending) BY <1>3, AdmitDeferredEnters
  <2>2. d # c BY <1>2, <2>1 DEF Untried
  <2> QED BY <1>1, <2>1, <2>2, EntersOthers
<1>4. ASSUME NEW kind \in Kinds,
             kind = "permission" => DecidePermission, kind = "confirmation" => DecideConfirmation
      PROVE  Settles
  <2>1. CASE UNCHANGED <<record, pending, prompts, results>> BY <2>1
  <2>2. ASSUME NEW d \in Call, NEW rec \in [Kinds -> [Call -> RecordState]],
               NEW pend \in [Kinds -> SUBSET Call], Decided(kind, d, rec, pend)
        PROVE  Settles
    <3>1. d # c /\ Enters(d, rec, pend) BY <1>2, <2>2 DEF Decided, Prompted
    <3>2. PICK v \in Verdicts : rec = [record EXCEPT ![kind][d] = v] BY <2>2 DEF Decided
    <3>3. rec[k][c] = record[k][c] BY <1>1, <3>1, <3>2
    <3>4. record'[k][c] = rec[k][c] BY <3>1, EntersOthers
    <3> QED BY <3>3, <3>4
  <2> QED BY <1>4, <2>1, <2>2, DecideEnters
<1>5. CASE InterruptTurn BY <1>5 DEF InterruptTurn
<1>6. ASSUME NEW kind \in Kinds, ExpirePrompts(kind) PROVE Settles
  BY <1>1, <1>6 DEF ExpirePrompts, Withdraw
<1>7. CASE Shutdown
  <2>1. c \notin pending["confirmation"] BY <1>2 DEF Prompted, Kinds
  <2> QED BY <1>1, <1>7, <2>1 DEF Shutdown, Kinds
<1>8. CASE UNCHANGED record BY <1>8
<1> HIDE DEF Settles
<1>9. CASE Executor
  <2>1. CASE ReceiveRequest BY <1>8, <2>1 DEF ReceiveRequest
  <2> QED BY <1>3, <1>4, <1>5, <1>6, <1>9, <2>1 DEF Executor, Kinds
<1>10. CASE Worker BY <1>8, <1>10, WorkerStep
<1>11. CASE Router
  BY <1>8, <1>11 DEF Router, RouteToolResult, RoutePrompt, ExpireRouted, routePermissionRequests,
     routeConfirmationRequests, expirePermission, expireConfirmation
<1>12. CASE Resolve
  <2>1. UNCHANGED resolveOnly
    BY <1>12 DEF Resolve, ResolvePermission, ResolveConfirmation, ResolveBegin, Forward,
                ResolveCommit
  <2> QED BY <1>8, <2>1, SMTT(30)
<1>13. CASE Runs
  BY <1>8, <1>13 DEF Runs, StartRun, DispatchTools, RunCompletes, InterruptRun, CloseRun,
     unregister
<1>14. CASE Environment
  BY <1>7, <1>8, <1>14 DEF Environment, ReadyChanges, Tick, SetMode
<1>15. CASE UNCHANGED vars BY <1>8, <1>15 DEF vars
<1> QED BY <1>9, <1>10, <1>11, <1>12, <1>13, <1>14, <1>15 DEF Next

\* A step with no new result for the run, nor a prompt shown anew.
LEMMA DeliveryKept ==
  ASSUME TypeOK, PlaceInv, RecordInv, ResultInv, [Next]_vars, NEW c \in Call, DeliveryOf(c),
         held'["confirmation"][c] # <<>> => held["confirmation"][c] # <<>>,
         delivered'[c] # <<>> => delivered[c] # <<>>,
         \A k \in Kinds : Waiting(k, c)' => Waiting(k, c)
  PROVE  DeliveryOf(c)'
<1>1. "confirmation" \in Kinds /\ "permission" \in Kinds BY DEF Kinds
<1>2. CASE HasResult(c)
  <2>1. \A k \in Kinds : record'[k][c] \in Verdicts => record'[k][c] = record[k][c]
    <3> SUFFICES ASSUME NEW k \in Kinds, record'[k][c] \in Verdicts
                 PROVE  record'[k][c] = record[k][c]
      OBVIOUS
    <3>1. record'[k][c] \notin {"cancelled", "expired"} BY DEF Verdicts
    <3> QED BY <1>2, <3>1, RecordSettled
  <2>2. record["permission"][c] = "allowed" => record'["permission"][c] = "allowed"
    BY <1>1, <1>2, RecordSettled
  <2>3. \A k \in Kinds : Overtaken(k, c) => Overtaken(k, c)' BY <2>2 DEF Overtaken
  <2> QED BY <1>1, <2>1, <2>3 DEF DeliveryOf
<1>3. CASE ~HasResult(c)
  <2>1. held["confirmation"][c] = <<>> /\ delivered[c] = <<>> BY <1>1, <1>3 DEF HasResult
  <2> QED BY <2>1 DEF DeliveryOf
<1> QED BY <1>2, <1>3

\* A prompt is shown before it is answered.
LEMMA DeliveryPrompted ==
  ASSUME TypeOK, PromptInv, NEW c \in Call, DeliveryOf(c), NEW kind \in Kinds, RoutePrompt(kind)
  PROVE  DeliveryOf(c)'
<1> PICK d : d = Head(prompts[kind]) OBVIOUS
<1>1. /\ prompts[kind] # <<>>
      /\ routed' = routed \/ routed' = [routed EXCEPT ![kind][d] = "pending"]
      /\ UNCHANGED <<record, held, delivered>>
  BY DEF RoutePrompt
<1>2. prompts[kind] \in Seq(Call) /\ routed \in [Kinds -> [Call -> RoutedState]]
  BY DEF TypeOK, ChannelTypes, RuntimeTypes
<1>3. d \in Call /\ Shown(kind, d)
  <2>1. d \in Call /\ 1 \in DOMAIN prompts[kind] /\ d = prompts[kind][1] BY <1>1, <1>2, HeadTail
  <2> QED BY <2>1 DEF Shown
<1>4. record[kind][d] \notin Verdicts BY <1>3 DEF PromptInv, PromptState, Unanswered
<1>5. \A k \in Kinds : Waiting(k, c)' => Waiting(k, c) \/ record'[k][c] \notin Verdicts
  <2>1. CASE routed' = routed BY <2>1 DEF Waiting
  <2>2. CASE routed' = [routed EXCEPT ![kind][d] = "pending"]
    <3>1. \A k \in Kinds : k # kind \/ c # d => routed'[k][c] = routed[k][c] BY <1>2, <2>2
    <3> QED BY <1>1, <1>4, <3>1 DEF Waiting
  <2> QED BY <1>1, <2>1, <2>2
<1>6. \A k \in Kinds : Overtaken(k, c)' <=> Overtaken(k, c) BY <1>1 DEF Overtaken
<1> QED BY <1>1, <1>5, <1>6 DEF DeliveryOf, Kinds

\* A result that has to wait for no prompt.
LEMMA DeliveryRouted ==
  ASSUME TypeOK, NEW c \in Call, DeliveryOf(c), RouteToolResult
  PROVE  DeliveryOf(c)'
<1> PICK x : x = Head(results) OBVIOUS
<1>1. results \in Seq(ToolResult) /\ results # <<>> BY DEF RouteToolResult, TypeOK, ChannelTypes
<1>2. x \in ToolResult BY <1>1, HeadTail
<1> PICK d : d = x.call OBVIOUS
<1> PICK statuses : statuses = <<x.status>> BY Zenon
<1>3. d \in Call /\ statuses \in Seq(Statuses) BY <1>2 DEF ToolResult
<1>4. UNCHANGED <<routed, record>>
  BY DEF RouteToolResult
<1>5. \/ UNCHANGED <<held, delivered>>
      \/ Hold("permission", d, statuses)
      \/ ~Waiting("permission", d) /\ Hold("confirmation", d, statuses)
      \/ /\ \A k \in Kinds : ~Waiting(k, d)
         /\ Enqueue(d, statuses) /\ UNCHANGED held
  BY DEF RouteToolResult
<1>6. held \in [Kinds -> [Call -> Seq(Statuses)]] BY DEF TypeOK, RuntimeTypes
<1>7. \A k \in Kinds : (Waiting(k, c)' <=> Waiting(k, c)) /\ (Overtaken(k, c)' <=> Overtaken(k, c))
  BY <1>4 DEF Waiting, Overtaken
<1>8. held'["confirmation"][c] # <<>> => held["confirmation"][c] # <<>> \/ ~Waiting("permission", c)
  <2>1. held' = held => (held'["confirmation"][c] # <<>> => held["confirmation"][c] # <<>>)
    OBVIOUS
  <2>2. Hold("permission", d, statuses) =>
          (held'["confirmation"][c] # <<>> => held["confirmation"][c] # <<>>)
    BY <1>6 DEF Hold, Kinds
  <2>3. Hold("confirmation", d, statuses) /\ c # d =>
          (held'["confirmation"][c] # <<>> => held["confirmation"][c] # <<>>)
    BY <1>6 DEF Hold, Kinds
  <2> QED BY <1>5, <2>1, <2>2, <2>3, Zenon
<1>9. delivered'[c] # <<>> => delivered[c] # <<>> \/ \A k \in Kinds : ~Waiting(k, c)
  <2>1. delivered' = delivered => (delivered'[c] # <<>> => delivered[c] # <<>>) OBVIOUS
  <2>2. Enqueue(d, statuses) /\ c # d => (delivered'[c] # <<>> => delivered[c] # <<>>)
    BY <1>3, ResultQueued
  <2> QED BY <1>5, <2>1, <2>2, Zenon DEF Hold
<1> QED BY <1>4, <1>7, <1>8, <1>9 DEF DeliveryOf, Kinds

\* An answer that is forwarded lets the results go that were held for it.
LEMMA DeliveryCommitted ==
  ASSUME TypeOK, PlaceInv, PromptInv, RecordInv, ResultInv, [Next]_vars, NEW c \in Call, DeliveryOf(c),
         NEW r \in Resolver, ResolveCommit(r)
  PROVE  DeliveryOf(c)'
<1> PICK kind : kind = resolver[r].kind OBVIOUS
<1> PICK d : d = resolver[r].call OBVIOUS
<1>1. kind \in Kinds /\ d \in Call /\ resolver[r].at = "commit" BY ResolverType DEF ResolveCommit
<1>2. UNCHANGED <<record, run>>
      /\ \/ UNCHANGED <<routed, held, delivered>>
         \/ /\ routed[kind][d] = "forwarding"
            /\ routed' = [routed EXCEPT ![kind][d] = "resolved"]
            /\ held' = [held EXCEPT ![kind][d] = <<>>]
            /\ Enqueue(d, held[kind][d])
  BY DEF ResolveCommit
<1>3. /\ routed \in [Kinds -> [Call -> RoutedState]] /\ held \in [Kinds -> [Call -> Seq(Statuses)]]
      /\ DOMAIN resolver = Resolver
  BY DEF TypeOK, RuntimeTypes
<1>4. CASE UNCHANGED <<routed, held, delivered>>
  <2>1. \A k \in Kinds : Waiting(k, c)' => Waiting(k, c) BY <1>4 DEF Waiting
  <2> QED BY <1>4, <2>1, DeliveryKept
<1>5. CASE /\ routed' = [routed EXCEPT ![kind][d] = "resolved"]
           /\ held' = [held EXCEPT ![kind][d] = <<>>]
           /\ Enqueue(d, held[kind][d])
  <2>1. \A k \in Kinds : (k = kind /\ c = d => ~Waiting(k, c)') /\ (Waiting(k, c)' => Waiting(k, c))
    BY <1>1, <1>3, <1>5 DEF Waiting
  <2>2. held'["confirmation"][c] # <<>> => held["confirmation"][c] # <<>>
    BY <1>1, <1>3, <1>5 DEF Kinds
  <2>3. CASE delivered'[c] # <<>> => delivered[c] # <<>> BY <2>1, <2>2, <2>3, DeliveryKept
  <2>4. CASE delivered'[c] # <<>> /\ delivered[c] = <<>>
    <3>1. c = d /\ held[kind][c] # <<>> /\ run[TurnOf(c)] = "active"
      <4>1. c = d /\ held[kind][c] # <<>> BY <1>1, <1>3, <1>5, <2>4, ResultQueued
      <4> QED BY <1>5, <2>4, <4>1 DEF Enqueue
    <3>2. On(r, kind, c) /\ record[kind][c] # "none"
      <4>1. On(r, kind, c) BY <1>1, <3>1 DEF On
      <4> QED BY <1>1, <4>1 DEF PromptInv, PromptState, Unanswered
    <3>3. held'["confirmation"][c] # <<>> /\ record'["permission"][c] \in Verdicts
            => ~Waiting("permission", c)'
      BY <1>2, <2>1, <2>2 DEF DeliveryOf, Kinds
    <3>4. CASE kind = "confirmation"
      <4>1. record["permission"][c] \in Verdicts => ~Waiting("permission", c)
        BY <3>1, <3>4 DEF DeliveryOf
      <4> QED BY <1>2, <2>1, <3>1, <3>3, <3>4, <4>1 DEF DeliveryOf, Kinds
    <3>5. CASE kind = "permission"
      <4>1. ASSUME record["confirmation"][c] \in Verdicts, Waiting("confirmation", c)
            PROVE  Overtaken("confirmation", c)
        <5>1. record["permission"][c] = "allowed"
          BY <3>2, <3>5, <4>1 DEF RecordInv, RecordOf, Verdicts
        <5>2. PromptState("confirmation", c) BY DEF PromptInv, Kinds
        <5>3. ~Unanswered("confirmation", c) /\ ~Over(c) BY <3>1, <4>1 DEF Unanswered, Over
        <5>4. routed["confirmation"][c] = "forwarding" BY <4>1, <5>2, <5>3 DEF PromptState, Waiting
        <5>5. PICK q \in Resolver : On(q, "confirmation", c) BY <5>2, <5>4 DEF PromptState
        <5>6. q # r BY <3>2, <3>5, <5>5 DEF On
        <5> QED BY <5>1, <5>6 DEF Overtaken
      <4>2. Overtaken("confirmation", c) => Overtaken("confirmation", c)' BY <1>2 DEF Overtaken
      <4> QED BY <1>2, <2>1, <3>1, <3>3, <3>5, <4>1, <4>2 DEF DeliveryOf, Kinds
    <3> QED BY <1>1, <3>4, <3>5, SMTT(20) DEF Kinds
  <2> QED BY <2>3, <2>4
<1> QED BY <1>2, <1>4, <1>5

LEMMA DeliveryNext ==
  ASSUME TypeOK, PlaceInv, PromptInv, RecordInv, ResultInv, DeliveryInv, [Next]_vars
  PROVE  DeliveryInv'
<1> SUFFICES ASSUME NEW c \in Call PROVE DeliveryOf(c)' BY DEF DeliveryInv
<1>1. DeliveryOf(c) BY DEF DeliveryInv
<1>2. held \in [Kinds -> [Call -> Seq(Statuses)]] /\ routed \in [Kinds -> [Call -> RoutedState]]
  BY DEF TypeOK, RuntimeTypes
<1> DEFINE Shrinks == /\ \A k \in Kinds : held'[k][c] # <<>> => held[k][c] # <<>>
                      /\ \A k \in Kinds : Waiting(k, c)' => Waiting(k, c)
                      /\ UNCHANGED delivered
<1>3. CASE Shrinks BY <1>1, <1>3, DeliveryKept DEF Kinds
<1>4. CASE UNCHANGED <<routed, held, delivered>> BY <1>3, <1>4 DEF Waiting
<1>5. CASE Executor
  <2>1. CASE admitDeferredApproval BY <1>4, <2>1 DEF admitDeferredApproval
  <2>2. CASE ReceiveRequest BY <1>4, <2>2 DEF ReceiveRequest
  <2>3. CASE DecidePermission \/ DecideConfirmation
    BY <1>4, <2>3 DEF DecidePermission, DecideConfirmation, decisionTaken
  <2>4. CASE InterruptTurn BY <1>4, <2>4 DEF InterruptTurn
  <2>5. ASSUME NEW kind \in Kinds, ExpirePrompts(kind) PROVE DeliveryOf(c)'
    BY <1>4, <2>5 DEF ExpirePrompts
  <2> QED BY <1>5, <2>1, <2>2, <2>3, <2>4, <2>5 DEF Executor
<1>6. CASE Worker BY <1>4, <1>6, WorkerStep
<1>7. CASE Router
  <2>1. ASSUME NEW kind \in Kinds, NEW d \in Call, ExpireRouted(kind, d) PROVE DeliveryOf(c)'
    <3>1. /\ routed' = [routed EXCEPT ![kind][d] = "expired"]
          /\ held' = [held EXCEPT ![kind][d] = <<>>] /\ UNCHANGED delivered
      BY <2>1 DEF ExpireRouted
    <3> QED BY <1>2, <1>3, <3>1 DEF Waiting
  <2> QED BY <1>1, <1>7, <2>1, DeliveryPrompted, DeliveryRouted
       DEF Router, routePermissionRequests, routeConfirmationRequests, expirePermission,
           expireConfirmation, Kinds
<1>8. CASE Resolve
  <2>1. PICK r \in Resolver : ResolvePermission(r) \/ ResolveConfirmation(r) BY <1>8 DEF Resolve
  <2>2. \/ \E kind \in Kinds, d \in Call : \E answer : ResolveBegin(r, kind, d, answer)
        \/ Forward(r) \/ ResolveCommit(r)
    BY <2>1 DEF ResolvePermission, ResolveConfirmation, Kinds
  <2>3. ASSUME NEW kind \in Kinds, NEW d \in Call, NEW answer, ResolveBegin(r, kind, d, answer)
        PROVE  DeliveryOf(c)'
    <3>1. /\ held' = held \/ held' = [held EXCEPT ![kind][d] = <<>>]
          /\ \/ routed' = [routed EXCEPT ![kind][d] = "expired"]
             \/ routed[kind][d] = "pending" /\ routed' = [routed EXCEPT ![kind][d] = "forwarding"]
          /\ UNCHANGED delivered
      BY <2>3 DEF ResolveBegin
    <3>2. \A k \in Kinds : held'[k][c] # <<>> => held[k][c] # <<>>
      <4>1. held' = held => \A k \in Kinds : held'[k][c] # <<>> => held[k][c] # <<>> OBVIOUS
      <4>2. held' = [held EXCEPT ![kind][d] = <<>>] =>
              \A k \in Kinds : held'[k][c] # <<>> => held[k][c] # <<>>
        BY <1>2
      <4> QED BY <3>1, <4>1, <4>2, Zenon
    <3>3. \A k \in Kinds : Waiting(k, c)' => Waiting(k, c)
      <4>1. CASE routed' = [routed EXCEPT ![kind][d] = "expired"] BY <1>2, <4>1 DEF Waiting
      <4>2. CASE routed[kind][d] = "pending" /\ routed' = [routed EXCEPT ![kind][d] = "forwarding"]
        BY <1>2, <4>2 DEF Waiting
      <4> QED BY <3>1, <4>1, <4>2
    <3> QED BY <1>3, <3>1, <3>2, <3>3
  <2>4. CASE Forward(r)
    <3> PICK kind : kind = resolver[r].kind OBVIOUS
    <3> PICK d : d = resolver[r].call OBVIOUS
    <3>1. /\ UNCHANGED <<held, delivered>>
          /\ \/ routed' = routed
             \/ routed[kind][d] = "forwarding" /\ routed' = [routed EXCEPT ![kind][d] = "pending"]
      BY <2>4 DEF Forward
    <3>2. \A k \in Kinds : Waiting(k, c)' => Waiting(k, c)
      <4>1. CASE routed' = routed BY <4>1 DEF Waiting
      <4>2. CASE routed[kind][d] = "forwarding" /\ routed' = [routed EXCEPT ![kind][d] = "pending"]
        BY <1>2, <4>2 DEF Waiting
      <4> QED BY <3>1, <4>1, <4>2
    <3> QED BY <1>3, <3>1, <3>2
  <2> QED BY <1>1, <2>2, <2>3, <2>4, DeliveryCommitted
<1>9. CASE Runs
  <2>1. PICK t \in Turn :
          StartRun(t) \/ DispatchTools(t) \/ RunCompletes(t) \/ InterruptRun(t) \/ CloseRun(t)
    BY <1>9 DEF Runs
  <2>2. CASE StartRun(t) \/ DispatchTools(t) BY <1>4, <2>2 DEF StartRun, DispatchTools
  <2>3. CASE unregister(t) \/ InterruptRun(t)
    BY <1>3, <2>3 DEF unregister, InterruptRun, Waiting
  <2> QED BY <2>1, <2>2, <2>3 DEF RunCompletes, CloseRun
<1>10. CASE Environment
  BY <1>4, <1>10 DEF Environment, Shutdown, ReadyChanges, Tick, SetMode
<1>11. CASE UNCHANGED vars BY <1>4, <1>11 DEF vars
<1> QED BY <1>5, <1>6, <1>7, <1>8, <1>9, <1>10, <1>11 DEF Next

-----------------------------------------------------------------------------
LEMMA RoutingInit ==
  ASSUME Init
  PROVE  RoutingInv
<1>1. PromptInv
  BY DEF Init, PromptInv, PromptState, Shown, Unanswered, Chosen, On, Over, Verdicts, Kinds
<1>2. RecordInv BY DEF Init, RecordInv, RecordOf, Kinds
<1>3. ResultInv BY DEF Init, ResultInv, HasResult
<1>4. DeliveryInv BY DEF Init, DeliveryInv, DeliveryOf, Kinds
<1> QED BY <1>1, <1>2, <1>3, <1>4 DEF RoutingInv

LEMMA RoutingInvariant == Spec => [](TypeOK /\ PlaceInv /\ RoutingInv)
<1>1. Init => TypeOK /\ PlaceInv /\ RoutingInv BY TypeInit, PlaceInit, RoutingInit
<1>2. TypeOK /\ PlaceInv /\ RoutingInv /\ [Next]_vars => (TypeOK /\ PlaceInv /\ RoutingInv)'
  BY TypeNext, PlaceNext, PromptNext, RecordNext, ResultNext, DeliveryNext DEF RoutingInv
<1> QED BY <1>1, <1>2, PTL DEF Spec

\* A run sees the decision on a prompt before the result of the call, unless
\* the prompt expired: from prompts that are shown before they are answered,
\* callers that hold a prompt as long as they answer it, and results that are
\* held as long as the prompt of their call waits.
THEOREM DecisionsBeforeResults == Spec => []ResolvedBeforeResult
<1>1. ASSUME TypeOK, RoutingInv PROVE ResolvedBeforeResult
  <2> SUFFICES ASSUME NEW c \in Call, NEW kind \in Kinds,
                      delivered[c] # <<>>, run[TurnOf(c)] = "active", record[kind][c] \in Verdicts
               PROVE  \/ routed[kind][c] = "resolved"
                      \/ kind \in Expiring /\ routed[kind][c] = "expired"
                      \/ Overtaken(kind, c)
    BY DEF ResolvedBeforeResult, Verdicts
  <2>1. PromptState(kind, c) /\ DeliveryOf(c) BY <1>1 DEF RoutingInv, PromptInv, DeliveryInv
  <2>2. ~Unanswered(kind, c) /\ ~Over(c) BY DEF Unanswered, Over
  <2>3. routed[kind][c] \in {"forwarding", "resolved", "expired"} BY <2>1, <2>2 DEF PromptState
  <2>4. routed[kind][c] = "forwarding" => Overtaken(kind, c) BY <2>1 DEF DeliveryOf, Waiting
  <2>5. routed[kind][c] = "expired" => kind \in Expiring BY <2>1 DEF PromptState
  <2> QED BY <2>3, <2>4, <2>5
<1> QED BY <1>1, RoutingInvariant, PTL
=============================================================================
