------------------------- MODULE ResponseScopeProofs -------------------------
(***************************************************************************)
(* Proofs about ResponseScope, for any number of turns, subagents, works   *)
(* and end tools.  First type correctness, which needs OriginInv: the      *)
(* coordinator reads turns[origin[w]] only for works that some turn        *)
(* started.  Then the accounting of the scope counters (AccountingInv),    *)
(* the events of a scope, and that a result settles its own assignment.    *)
(***************************************************************************)
EXTENDS ResponseScope, FiniteSetTheorems, TLAPS

\* The names of groups of variables are expanded in every proof.
USE DEF bindings, runVars, queueVars, taskVars, endTools, counters

\* Every work that was started, is queued for delivery or is being delivered
\* has the turn whose tool call started it.
OriginInv ==
  /\ \A w \in Work : work[w] # "new" => origin[w] \in Turn
  /\ \A i \in DOMAIN deliveries : origin[deliveries[i]] \in Turn
  /\ delivery.step # "idle" =>
       delivery.task \in Work /\ origin[delivery.task] \in Turn

TypeInv == TypeOK /\ OriginInv

USE DEF Turn

LEMMA TypeInvInit == Init => TypeInv
  BY ConstantsAssumption
     DEF Init, TypeInv, TypeOK, OriginInv, TurnPhase, WorkPhase, DeliveryStep,
         IdleDelivery, At, Delivery

LEMMA FiniteTurns == IsFiniteSet(Turn)
  BY ConstantsAssumption, FS_Union

LEMMA AppendType ==
  ASSUME NEW S, NEW q \in Seq(S), NEW x \in S
  PROVE  Append(q, x) \in Seq(S)
  OBVIOUS

\* An event is appended to one scope's events.
LEMMA PublishType ==
  ASSUME NEW S, NEW f \in [MainTurn -> Seq(S)], NEW s, NEW x \in S
  PROVE  [f EXCEPT ![s] = Append(@, x)] \in [MainTurn -> Seq(S)]
<1>1. \A r \in MainTurn : Append(f[r], x) \in Seq(S)
  BY AppendType
<1>2. CASE s \in MainTurn
  BY <1>1, <1>2
<1>3. CASE s \notin MainTurn
  BY <1>3
<1> QED BY <1>2, <1>3

\* The three ways a counter of a scope is changed.
LEMMA CounterUpType ==
  ASSUME NEW f \in [MainTurn -> Nat], NEW s
  PROVE  [f EXCEPT ![s] = @ + 1] \in [MainTurn -> Nat]
<1>1. CASE s \in MainTurn
  <2>1. f[s] \in Nat
    BY <1>1
  <2>2. (f[s] + 1) \in Nat
    BY <1>1, <2>1
  <2> QED BY <1>1, <2>2
<1>2. CASE s \notin MainTurn
  BY <1>2
<1> QED BY <1>1, <1>2

LEMMA CounterDownType ==
  ASSUME NEW f \in [MainTurn -> Nat], NEW s, s \in MainTurn => f[s] > 0
  PROVE  [f EXCEPT ![s] = @ - 1] \in [MainTurn -> Nat]
<1>1. CASE s \in MainTurn
  <2>1. f[s] \in Nat
    BY <1>1
  <2>2. (f[s] - 1) \in Nat
    BY <1>1, <2>1
  <2> QED BY <1>1, <2>2
<1>2. CASE s \notin MainTurn
  BY <1>2
<1> QED BY <1>1, <1>2

LEMMA CounterClampedType ==
  ASSUME NEW f \in [MainTurn -> Nat], NEW s
  PROVE  [f EXCEPT ![s] = IF @ > 0 THEN @ - 1 ELSE @] \in [MainTurn -> Nat]
<1>1. CASE s \in MainTurn
  <2>1. f[s] \in Nat
    BY <1>1
  <2>2. (IF f[s] > 0 THEN f[s] - 1 ELSE f[s]) \in Nat
    BY <1>1, <2>1
  <2> QED BY <1>1, <2>2
<1>2. CASE s \notin MainTurn
  BY <1>2
<1> QED BY <1>1, <1>2

\* Actions of turns keep the types.
LEMMA TypeInvTurnSteps ==
  ASSUME TypeInv,
         NEW t \in Turn,
         \/ t \in MainTurn /\ BeginMainAgentTurn(t)
         \/ t \in MainTurn /\ AcceptMainAgentTurn(t)
         \/ t \in MainTurn /\ RollbackMainAgentTurn(t)
         \/ RunEnds(t)
         \/ FinishStep(t)
  PROVE  TypeInv'
<1> USE DEF TypeInv
<1>1. CASE t \in MainTurn /\ BeginMainAgentTurn(t)
  BY <1>1 DEF BeginMainAgentTurn, TypeOK, OriginInv, TurnPhase
<1>2. CASE t \in MainTurn /\ AcceptMainAgentTurn(t)
  BY <1>2 DEF AcceptMainAgentTurn, TypeOK, OriginInv, TurnPhase
<1>3. CASE t \in MainTurn /\ RollbackMainAgentTurn(t)
  BY <1>3 DEF RollbackMainAgentTurn, TypeOK, OriginInv, TurnPhase
<1>4. CASE RunEnds(t)
  BY <1>4 DEF RunEnds, TypeOK, OriginInv, TurnPhase
<1>5. CASE FinishTurn(t)
  <2>1. activeTurns \in [MainTurn -> Nat] /\ turns[t] \in MainTurn \cup {NoTurn}
    BY DEF TypeOK
  <2>2. activeTurns' \in [MainTurn -> Nat]
    <3>1. CASE turns[t] = NoTurn \/ activeTurns[turns[t]] = 0
      BY <1>5, <2>1, <3>1 DEF FinishTurn
    <3>2. CASE ~(turns[t] = NoTurn \/ activeTurns[turns[t]] = 0)
      BY <1>5, <2>1, <3>2 DEF FinishTurn
    <3> QED BY <3>1, <3>2
  <2>3. state' \in [MainTurn -> {"none", "open", "ending"}]
    <3>1. state \in [MainTurn -> {"none", "open", "ending"}]
      BY DEF TypeOK
    <3> HIDE DEF TypeInv
    <3> QED BY <1>5, <3>1 DEF FinishTurn
  <2>4. phase' \in [Turn -> TurnPhase]
    <3>1. phase \in [Turn -> TurnPhase]
      BY DEF TypeOK
    <3> QED BY <1>5, <3>1 DEF FinishTurn, TurnPhase
  <2>5. TypeOK'
    BY <1>5, <2>2, <2>3, <2>4 DEF FinishTurn, TypeOK
  <2>6. OriginInv'
    BY <1>5 DEF FinishTurn, OriginInv
  <2> QED BY <2>5, <2>6
<1>6. CASE FinishTurnPreEnd(t)
  <2>1. events' \in [MainTurn -> Seq({"PreEndScope", "EndScope"})]
    BY <1>6, PublishType DEF FinishTurnPreEnd, TypeOK
  <2>2. phase' \in [Turn -> TurnPhase]
    BY <1>6 DEF FinishTurnPreEnd, TypeOK, TurnPhase
  <2>3. TypeOK'
    BY <1>6, <2>1, <2>2 DEF FinishTurnPreEnd, TypeOK
  <2>4. OriginInv'
    BY <1>6 DEF FinishTurnPreEnd, OriginInv
  <2> QED BY <2>3, <2>4
<1>7. CASE FinishTurnRemoveScope(t)
  <2>1. events' \in [MainTurn -> Seq({"PreEndScope", "EndScope"})]
    BY <1>7, PublishType DEF FinishTurnRemoveScope, TypeOK
  <2>2. turns' \in [Turn -> MainTurn \cup {NoTurn}]
    BY <1>7 DEF FinishTurnRemoveScope, TypeOK
  <2>3. phase' \in [Turn -> TurnPhase]
    BY <1>7 DEF FinishTurnRemoveScope, TypeOK, TurnPhase
  <2>4. state' \in [MainTurn -> {"none", "open", "ending"}]
    BY <1>7 DEF FinishTurnRemoveScope, TypeOK
  <2>5. TypeOK'
    BY <1>7, <2>1, <2>2, <2>3, <2>4 DEF FinishTurnRemoveScope, TypeOK
  <2>6. OriginInv'
    BY <1>7 DEF FinishTurnRemoveScope, OriginInv
  <2> QED BY <2>5, <2>6
<1> QED
  BY <1>1, <1>2, <1>3, <1>4, <1>5, <1>6, <1>7 DEF FinishStep

\* Actions of subagent work keep the types.
LEMMA TypeInvWorkSteps ==
  ASSUME TypeInv,
         NEW w \in Work,
         \/ \E t \in Turn : StartWork(w, t)
         \/ RegisterAssignmentMetadata(w)
         \/ KeepRegistration(w)
         \/ RollbackRegistration(w)
         \/ WorkEnds(w)
  PROVE  TypeInv'
<1> USE DEF TypeInv
<1>0. /\ pendingResults \in [MainTurn -> Nat]
      /\ assignments \in SUBSET Work
      /\ work \in [Work -> WorkPhase]
  BY DEF TypeOK
<1>1. ASSUME NEW t \in Turn, StartWork(w, t)
      PROVE  TypeInv'
  <2>1. /\ work' \in [Work -> WorkPhase]
        /\ origin' \in [Work -> Turn \cup {NoTurn}]
    BY <1>0, <1>1 DEF StartWork, TypeOK, WorkPhase
  <2>2. TypeOK'
    BY <1>1, <2>1 DEF StartWork, TypeOK
  <2>3. deliveries \in Seq(Work) /\ origin \in [Work -> Turn \cup {NoTurn}]
    BY DEF TypeOK
  <2>4. \A v \in Work : origin[v] \in Turn => origin'[v] \in Turn
    BY <1>1, <2>3 DEF StartWork
  <2>5. \A v \in Work : work'[v] # "new" => origin'[v] \in Turn
    BY <1>0, <1>1, <2>3, <2>4 DEF StartWork, OriginInv
  <2>6. OriginInv'
    BY <1>1, <2>3, <2>4, <2>5 DEF StartWork, OriginInv
  <2> QED BY <2>2, <2>6
<1>2. CASE RegisterAssignmentMetadata(w)
  <2>1. origin[w] \in Turn /\ turns[origin[w]] \in MainTurn \cup {NoTurn}
    BY <1>2 DEF RegisterAssignmentMetadata, OriginInv, TypeOK
  <2>2. /\ assignmentScope \in [Work -> MainTurn \cup {NoTurn}]
        /\ sequence \in [Work -> Nat] /\ nextAssignment \in Nat
    BY DEF TypeOK
  <2>3. assignmentScope' \in [Work -> MainTurn \cup {NoTurn}]
    BY <1>2, <2>1, <2>2 DEF RegisterAssignmentMetadata
  <2>4. sequence' \in [Work -> Nat] /\ nextAssignment' \in Nat
    BY <1>2, <2>1, <2>2 DEF RegisterAssignmentMetadata
  <2>5. pendingResults' \in [MainTurn -> Nat] /\ assignments' \in SUBSET Work
    BY <1>0, <1>2, <2>1 DEF RegisterAssignmentMetadata
  <2>6. work' \in [Work -> WorkPhase]
    BY <1>0, <1>2 DEF RegisterAssignmentMetadata, WorkPhase
  <2>7. TypeOK'
    BY <1>2, <2>3, <2>4, <2>5, <2>6 DEF RegisterAssignmentMetadata, TypeOK
  <2>8. OriginInv'
    BY <1>0, <1>2, <2>1 DEF RegisterAssignmentMetadata, OriginInv
  <2> QED BY <2>7, <2>8
<1>3. CASE KeepRegistration(w)
  <2>1. work' \in [Work -> WorkPhase]
    BY <1>0, <1>3 DEF KeepRegistration, WorkPhase
  <2>2. TypeOK'
    BY <1>3, <2>1 DEF KeepRegistration, TypeOK
  <2>3. OriginInv'
    BY <1>0, <1>3 DEF KeepRegistration, OriginInv
  <2> QED BY <2>2, <2>3
<1>4. CASE RollbackRegistration(w)
  <2>1. pendingResults' \in [MainTurn -> Nat] /\ assignments' \in SUBSET Work
    BY <1>0, <1>4 DEF RollbackRegistration, WithdrawAssignment
  <2>2. work' \in [Work -> WorkPhase]
    BY <1>0, <1>4 DEF RollbackRegistration, WithdrawAssignment, WorkPhase
  <2>3. TypeOK'
    BY <1>4, <2>1, <2>2 DEF RollbackRegistration, WithdrawAssignment, TypeOK
  <2>4. OriginInv'
    BY <1>0, <1>4 DEF RollbackRegistration, WithdrawAssignment, OriginInv
  <2> QED BY <2>3, <2>4
<1>5. CASE WorkEnds(w)
  <2>1. deliveries \in Seq(Work)
    BY DEF TypeOK
  <2>2. deliveries' \in Seq(Work)
    BY <1>5, <2>1, AppendType DEF WorkEnds
  <2>3. work' \in [Work -> WorkPhase]
    BY <1>0, <1>5 DEF WorkEnds, WorkPhase
  <2>4. TypeOK'
    BY <1>5, <2>2, <2>3 DEF WorkEnds, TypeOK
  <2>5. origin[w] \in Turn
    BY <1>5 DEF WorkEnds, OriginInv
  <2>6. \A i \in DOMAIN deliveries' : origin[deliveries'[i]] \in Turn
    BY <1>5, <2>1, <2>5 DEF WorkEnds, OriginInv
  <2>7. OriginInv'
    BY <1>0, <1>5, <2>5, <2>6 DEF WorkEnds, OriginInv
  <2> QED BY <2>4, <2>7
<1> QED
  BY <1>1, <1>2, <1>3, <1>4, <1>5

\* Closing a subagent keeps the types.
LEMMA TypeInvCloseSteps ==
  ASSUME TypeInv,
         NEW a \in Subagent,
         CloseRecord(a) \/ CancelSubagentAssignments(a)
  PROVE  TypeInv'
<1> USE DEF TypeInv
<1>1. CASE CloseRecord(a)
  <2>1. closed' \in SUBSET Subagent
    <3>1. closed \in SUBSET Subagent
      BY DEF TypeOK
    <3> HIDE DEF TypeInv
    <3> QED BY <1>1, <3>1 DEF CloseRecord
  <2>2. TypeOK'
    BY <1>1, <2>1 DEF CloseRecord, TypeOK
  <2>3. OriginInv'
    BY <1>1 DEF CloseRecord, OriginInv
  <2> QED BY <2>2, <2>3
<1>2. CASE CancelSubagentAssignments(a)
  <2>1. pendingResults \in [MainTurn -> Nat] /\ assignments \in SUBSET Work
    BY DEF TypeOK
  <2>2. \A s \in MainTurn :
          Cardinality({w \in Queue(a) : assignmentScope[w] = s}) \in Nat
    <3> TAKE s \in MainTurn
    <3>1. {w \in Queue(a) : assignmentScope[w] = s} \in SUBSET Work
      BY <2>1 DEF Queue
    <3>2. IsFiniteSet({w \in Queue(a) : assignmentScope[w] = s})
      BY <3>1, ConstantsAssumption, FS_Subset
    <3> QED BY <3>2, FS_CardinalityType
  <2>3. pendingResults' \in [MainTurn -> Nat]
    BY <1>2, <2>1, <2>2 DEF CancelSubagentAssignments
  <2>4. assignments' \in SUBSET Work /\ cancelledSubagents' \in SUBSET Subagent
    BY <1>2, <2>1 DEF CancelSubagentAssignments, TypeOK
  <2>5. TypeOK'
    BY <1>2, <2>3, <2>4 DEF CancelSubagentAssignments, TypeOK
  <2>6. OriginInv'
    BY <1>2 DEF CancelSubagentAssignments, OriginInv
  <2> QED BY <2>5, <2>6
<1> QED BY <1>1, <1>2

\* The delivery goroutine keeps the types.
LEMMA TypeInvDeliverySteps ==
  ASSUME TypeInv, DeliveryStepTaken
  PROVE  TypeInv'
<1> USE DEF TypeInv
<1> DEFINE DeliveryType ==
      [step : DeliveryStep, task : Work \cup {NoWork},
       taken : Work \cup {NoWork}, turn : Continuation \cup {NoTurn},
       scope : MainTurn \cup {NoTurn}]
<1>0. /\ deliveries \in Seq(Work)
      /\ work \in [Work -> WorkPhase]
      /\ assignments \in SUBSET Work
      /\ results \in [Work -> MainTurn \cup {NoTurn}]
      /\ turns \in [Turn -> MainTurn \cup {NoTurn}]
      /\ resultTurns \in SUBSET Turn
      /\ phase \in [Turn -> TurnPhase]
      /\ assignmentScope \in [Work -> MainTurn \cup {NoTurn}]
      /\ origin \in [Work -> Turn \cup {NoTurn}]
      /\ deliveredIn \in [Work -> Turn \cup {NoTurn}]
      /\ delivery \in DeliveryType
  BY DEF TypeOK
<1>a. /\ pendingResults \in [MainTurn -> Nat]
      /\ pendingInputs \in [MainTurn -> Nat]
      /\ activeTurns \in [MainTurn -> Nat]
  BY DEF TypeOK
<1>1. CASE TakeDelivery
  <2>1. /\ Head(deliveries) \in Work
        /\ Tail(deliveries) \in Seq(Work)
        /\ origin[Head(deliveries)] \in Turn
        /\ \A i \in DOMAIN Tail(deliveries) : origin[Tail(deliveries)[i]] \in Turn
    BY <1>0, <1>1 DEF TakeDelivery, OriginInv
  <2>2. delivery' \in DeliveryType
    BY <1>1, <2>1 DEF TakeDelivery, At, Delivery, DeliveryStep
  <2>3. TypeOK'
    BY <1>1, <2>1, <2>2 DEF TakeDelivery, TypeOK
  <2>4. OriginInv'
    BY <1>1, <2>1 DEF TakeDelivery, OriginInv, At, Delivery
  <2> QED BY <2>3, <2>4
<1>2. CASE CheckActiveTurn
  <2>1. delivery' \in DeliveryType
    BY <1>0, <1>2 DEF CheckActiveTurn, At, Delivery, DeliveryStep
  <2>2. TypeOK'
    BY <1>2, <2>1 DEF CheckActiveTurn, TypeOK
  <2>3. OriginInv'
    BY <1>2 DEF CheckActiveTurn, OriginInv, At, Delivery
  <2> QED BY <2>2, <2>3
<1>3. CASE ReserveInlineResult
  <2>1. delivery.task \in Work /\ turns[origin[delivery.task]] \in MainTurn \cup {NoTurn}
    BY <1>0, <1>3 DEF ReserveInlineResult, OriginInv
  <2>2. delivery' \in DeliveryType
    BY <1>0, <1>3, <2>1, SMTT(20) DEF ReserveInlineResult, At, Delivery, DeliveryStep
  <2>3. /\ pendingResults' \in [MainTurn -> Nat]
        /\ pendingInputs' \in [MainTurn -> Nat]
    BY <1>a, <1>3, CounterUpType, CounterDownType, SMTT(20) DEF ReserveInlineResult
  <2>4. /\ assignments' \in SUBSET Work
        /\ results' \in [Work -> MainTurn \cup {NoTurn}]
    BY <1>0, <1>3, <2>1, SMTT(20) DEF ReserveInlineResult
  <2>5. TypeOK'
    BY <1>3, <2>2, <2>3, <2>4 DEF ReserveInlineResult, TypeOK
  <2>6. delivery'.task = delivery.task
    BY <1>3 DEF ReserveInlineResult, At, Delivery
  <2>7. OriginInv'
    BY <1>3, <2>1, <2>6 DEF ReserveInlineResult, OriginInv
  <2> QED BY <2>5, <2>7
<1>4. CASE InjectAccepted
  <2>1. delivery.task \in Work /\ origin[delivery.task] \in Turn
    BY <1>4 DEF InjectAccepted, OriginInv
  <2>2. delivery' \in DeliveryType /\ delivery'.step = "idle"
    BY <1>4 DEF InjectAccepted, IdleDelivery, At, Delivery, DeliveryStep
  <2>3. pendingInputs' \in [MainTurn -> Nat]
    BY <1>a, <1>4, CounterClampedType DEF InjectAccepted
  <2>4. /\ work' \in [Work -> WorkPhase]
        /\ deliveredIn' \in [Work -> Turn \cup {NoTurn}]
    BY <1>0, <1>4, <2>1 DEF InjectAccepted, WorkPhase
  <2>5. TypeOK'
    BY <1>4, <2>2, <2>3, <2>4 DEF InjectAccepted, TypeOK
  <2>6. OriginInv'
    BY <1>0, <1>4, <2>1, <2>2 DEF InjectAccepted, OriginInv
  <2> QED BY <2>5, <2>6
<1>5. ASSUME NEW s, RestoreAssignment(s)
      PROVE  /\ assignments' \in SUBSET Work
             /\ pendingResults' \in [MainTurn -> Nat]
             /\ results' \in [Work -> MainTurn \cup {NoTurn}]
  <2>1. assignments' \in SUBSET Work
    BY <1>0, <1>5 DEF RestoreAssignment
  <2>2. pendingResults' \in [MainTurn -> Nat]
    BY <1>a, <1>5 DEF RestoreAssignment
  <2>3. results' \in [Work -> MainTurn \cup {NoTurn}]
    BY <1>0, <1>5 DEF RestoreAssignment
  <2> QED BY <2>1, <2>2, <2>3
<1>6. ASSUME NEW giveUp \in BOOLEAN, InjectRejected(giveUp)
      PROVE  TypeInv'
  <2>1. delivery.task \in Work /\ origin[delivery.task] \in Turn
    BY <1>6 DEF InjectRejected, OriginInv
  <2>2. delivery' \in DeliveryType
    BY <1>6, <2>1 DEF InjectRejected, IdleDelivery, At, Delivery, DeliveryStep
  <2>3. delivery'.step = "idle" \/ delivery'.task = delivery.task
    BY <1>6 DEF InjectRejected, IdleDelivery, At, Delivery
  <2>4. pendingInputs' \in [MainTurn -> Nat]
    BY <1>a, <1>6, CounterClampedType DEF InjectRejected
  <2>5. work' \in [Work -> WorkPhase]
    BY <1>0, <1>6 DEF InjectRejected, WorkPhase
  <2>6. TypeOK'
    BY <1>5, <1>6, <2>2, <2>4, <2>5 DEF InjectRejected, TypeOK
  <2>7. OriginInv'
    BY <1>0, <1>6, <2>1, <2>3 DEF InjectRejected, OriginInv
  <2> QED BY <2>6, <2>7
<1>7. ASSUME NEW giveUp \in BOOLEAN, ContinuationRejected(giveUp)
      PROVE  TypeInv'
  <2>1. delivery.task \in Work /\ origin[delivery.task] \in Turn
    BY <1>7 DEF ContinuationRejected, UnbindContinuation, OriginInv
  <2>2. delivery' \in DeliveryType
    BY <1>7, <2>1 DEF ContinuationRejected, IdleDelivery, At, Delivery, DeliveryStep
  <2>3. delivery'.step = "idle" \/ delivery'.task = delivery.task
    BY <1>7 DEF ContinuationRejected, IdleDelivery, At, Delivery
  <2>4. activeTurns' \in [MainTurn -> Nat]
    BY <1>a, <1>7, CounterClampedType DEF ContinuationRejected, UnbindContinuation
  <2>5. work' \in [Work -> WorkPhase]
    BY <1>0, <1>7 DEF ContinuationRejected, WorkPhase
  <2>6. /\ phase' \in [Turn -> TurnPhase]
        /\ turns' \in [Turn -> MainTurn \cup {NoTurn}]
        /\ resultTurns' \in SUBSET Turn
    BY <1>0, <1>7 DEF ContinuationRejected, UnbindContinuation, TurnPhase
  <2>7. TypeOK'
    BY <1>5, <1>7, <2>2, <2>4, <2>5, <2>6 DEF ContinuationRejected, UnbindContinuation, TypeOK
  <2>8. OriginInv'
    BY <1>0, <1>7, <2>1, <2>3 DEF ContinuationRejected, UnbindContinuation, OriginInv
  <2> QED BY <2>7, <2>8
<1>8. ASSUME NEW c \in Continuation, ReserveResultTurn(c)
      PROVE  TypeInv'
  <2>1. delivery.task \in Work /\ origin[delivery.task] \in Turn
    BY <1>8 DEF ReserveResultTurn, OriginInv
  <2>2. delivery' \in DeliveryType
    BY <1>0, <1>8, <2>1
       DEF ReserveResultTurn, IdleDelivery, At, Delivery, DeliveryStep, Queue
  <2>3. delivery'.step = "idle" \/ delivery'.task = delivery.task
    BY <1>8 DEF ReserveResultTurn, IdleDelivery, At, Delivery
  <2>4. /\ activeTurns' \in [MainTurn -> Nat]
        /\ pendingResults' \in [MainTurn -> Nat]
    BY <1>a, <1>8, CounterUpType, CounterDownType DEF ReserveResultTurn
  <2>5. /\ work' \in [Work -> WorkPhase]
        /\ assignments' \in SUBSET Work
        /\ results' \in [Work -> MainTurn \cup {NoTurn}]
    BY <1>0, <1>8 DEF ReserveResultTurn, WorkPhase, Queue
  <2>6. /\ phase' \in [Turn -> TurnPhase]
        /\ turns' \in [Turn -> MainTurn \cup {NoTurn}]
        /\ resultTurns' \in SUBSET Turn
    <3>1. phase' \in [Turn -> TurnPhase]
      BY <1>0, <1>8 DEF ReserveResultTurn, TurnPhase
    <3>2. turns' \in [Turn -> MainTurn \cup {NoTurn}]
      <4>1. results[delivery.task] \in MainTurn \cup {NoTurn}
        BY <1>0, <2>1
      <4>2. \A v \in Queue(SubagentOf[delivery.task]) :
               assignmentScope[v] \in MainTurn \cup {NoTurn}
        BY <1>0 DEF Queue
      <4>3. \A s \in MainTurn \cup {NoTurn} :
              [turns EXCEPT ![c] = s] \in [Turn -> MainTurn \cup {NoTurn}]
        BY <1>0
      <4> QED BY <1>0, <1>8, <4>1, <4>2, <4>3, SMTT(20) DEF ReserveResultTurn
    <3>3. resultTurns' \in SUBSET Turn
      BY <1>0, <1>8 DEF ReserveResultTurn
    <3> QED BY <3>1, <3>2, <3>3
  <2>7. TypeOK'
    BY <1>8, <2>2, <2>4, <2>5, <2>6 DEF ReserveResultTurn, TypeOK
  <2>8. \A w \in Work : work'[w] # "new" => origin[w] \in Turn
    BY <1>0, <1>8, <2>1 DEF ReserveResultTurn, OriginInv
  <2>9. OriginInv'
    BY <1>8, <2>1, <2>3, <2>8 DEF ReserveResultTurn, OriginInv
  <2> QED BY <2>7, <2>9
<1>9. CASE ContinuationAccepted
  <2>1. delivery.task \in Work /\ origin[delivery.task] \in Turn
    BY <1>9 DEF ContinuationAccepted, OriginInv
  <2>2. delivery' \in DeliveryType /\ delivery'.step = "idle"
    BY <1>9 DEF ContinuationAccepted, IdleDelivery, At, Delivery, DeliveryStep
  <2>3. /\ work' \in [Work -> WorkPhase]
        /\ deliveredIn' \in [Work -> Turn \cup {NoTurn}]
        /\ active' \in Turn \cup {NoTurn}
    BY <1>0, <1>9, <2>1 DEF ContinuationAccepted, WorkPhase
  <2>4. phase' \in [Turn -> TurnPhase]
    BY <1>0, <1>9 DEF ContinuationAccepted, TurnPhase
  <2>5. TypeOK'
    BY <1>9, <2>2, <2>3, <2>4 DEF ContinuationAccepted, TypeOK
  <2>6. OriginInv'
    BY <1>0, <1>9, <2>1, <2>2 DEF ContinuationAccepted, OriginInv
  <2> QED BY <2>5, <2>6
<1> QED
  BY <1>1, <1>2, <1>3, <1>4, <1>6, <1>7, <1>8, <1>9 DEF DeliveryStepTaken

\* The workers of EndResponseScope tools keep the types.
LEMMA TypeInvEndToolSteps ==
  ASSUME TypeInv,
         \/ \E t \in Turn, k \in EndTool, b \in BOOLEAN : BeginEndTool(t, k, b)
         \/ EndToolStep
  PROVE  TypeInv'
<1> USE DEF TypeInv
<1> DEFINE EndCallType == [turn : Turn, tool : EndTool, scope : MainTurn,
                           step : {"preEnd", "handler"}]
<1>0. /\ endCalls \in SUBSET EndCallType
      /\ endScopeExecuting \in [MainTurn -> SUBSET EndTool]
      /\ endScopeCompleted \in [MainTurn -> SUBSET EndTool]
      /\ state \in [MainTurn -> {"none", "open", "ending"}]
      /\ turns \in [Turn -> MainTurn \cup {NoTurn}]
  BY DEF TypeOK
<1>1. ASSUME NEW t \in Turn, NEW k \in EndTool, NEW b \in BOOLEAN,
             BeginEndTool(t, k, b)
      PROVE  TypeInv'
  <2>1. turns[t] \in MainTurn
    BY <1>0, <1>1 DEF BeginEndTool
  <2>2. endCalls' \in SUBSET EndCallType
    BY <1>0, <1>1, <2>1 DEF BeginEndTool, EndCall
  <2>3. /\ endScopeExecuting' \in [MainTurn -> SUBSET EndTool]
        /\ state' \in [MainTurn -> {"none", "open", "ending"}]
    BY <1>0, <1>1, <2>1 DEF BeginEndTool
  <2>4. TypeOK'
    BY <1>1, <2>2, <2>3 DEF BeginEndTool, TypeOK
  <2>5. OriginInv'
    BY <1>1 DEF BeginEndTool, OriginInv
  <2> QED BY <2>4, <2>5
<1>2. ASSUME NEW e \in endCalls, EndToolPreEnd(e)
      PROVE  TypeInv'
  <2>1. events' \in [MainTurn -> Seq({"PreEndScope", "EndScope"})]
    BY <1>2, PublishType DEF EndToolPreEnd, TypeOK
  <2>2. endCalls' \in SUBSET EndCallType
    BY <1>0, <1>2 DEF EndToolPreEnd, EndCall
  <2>3. TypeOK'
    BY <1>2, <2>1, <2>2 DEF EndToolPreEnd, TypeOK
  <2>4. OriginInv'
    BY <1>2 DEF EndToolPreEnd, OriginInv
  <2> QED BY <2>3, <2>4
<1>3. ASSUME NEW e \in endCalls, NEW ok \in BOOLEAN, EndToolReturns(e, ok)
      PROVE  TypeInv'
  <2>1. e \in EndCallType /\ endCalls' \in SUBSET EndCallType
    BY <1>0, <1>3 DEF EndToolReturns
  <2>2. /\ endScopeExecuting' \in [MainTurn -> SUBSET EndTool]
        /\ endScopeCompleted' \in [MainTurn -> SUBSET EndTool]
    BY <1>0, <1>3, <2>1 DEF EndToolReturns
  <2>3. TypeOK'
    BY <1>3, <2>1, <2>2 DEF EndToolReturns, TypeOK
  <2>4. OriginInv'
    BY <1>3 DEF EndToolReturns, OriginInv
  <2> QED BY <2>3, <2>4
<1> QED BY <1>1, <1>2, <1>3 DEF EndToolStep

LEMMA TypeInvNext == TypeInv /\ [Next]_vars => TypeInv'
<1> SUFFICES ASSUME TypeInv, [Next]_vars PROVE TypeInv'
  OBVIOUS
<1>1. CASE UNCHANGED vars
  BY <1>1 DEF TypeInv, TypeOK, OriginInv, vars
<1>2. CASE Next
  BY <1>2, TypeInvTurnSteps, TypeInvWorkSteps, TypeInvCloseSteps,
     TypeInvDeliverySteps, TypeInvEndToolSteps DEF Next
<1> QED BY <1>1, <1>2

\* The maps of the coordinator and the program counters of its callers keep
\* their types, whatever fails and whoever calls late.
THEOREM TypeCorrect == Spec => []TypeOK
<1>1. Init => TypeInv BY TypeInvInit
<1>2. TypeInv /\ [Next]_vars => TypeInv' BY TypeInvNext
<1>3. TypeInv => TypeOK BY DEF TypeInv
<1> QED BY <1>1, <1>2, <1>3, PTL DEF Spec
-----------------------------------------------------------------------------
(***************************************************************************)
(* The accounting of the coordinator                                       *)
(***************************************************************************)

\* Each part of the invariant holds on when what it speaks of is unchanged.
LEMMA FrameBindings ==
  BindingsInv /\ UNCHANGED <<active, phase, turns, state>> => BindingsInv'
  BY DEF BindingsInv
LEMMA FrameFreshScope ==
  FreshScopeInv /\ UNCHANGED <<phase, turns, assignmentScope>> => FreshScopeInv'
  BY DEF FreshScopeInv
LEMMA FrameRemoval ==
  RemovalInv /\ UNCHANGED <<phase, turns, state>> => RemovalInv'
  BY DEF RemovalInv
LEMMA FrameWork ==
  WorkInv /\ UNCHANGED <<work, assignments, assignmentScope, origin, phase>> => WorkInv'
  BY DEF WorkInv
LEMMA FrameDelivery ==
  DeliveryInv /\ UNCHANGED <<deliveries, work, delivery, results>> => DeliveryInv'
  BY DEF DeliveryInv
LEMMA FrameReservation ==
  /\ ReservationInv
  /\ UNCHANGED <<delivery, state, assignments, assignmentScope, phase, turns>>
  => ReservationInv'
  BY DEF ReservationInv
LEMMA FrameActiveTurns ==
  ActiveTurnsExact /\ UNCHANGED <<activeTurns, turns, phase>> => ActiveTurnsExact'
<1> SUFFICES ASSUME ActiveTurnsExact, UNCHANGED <<activeTurns, turns, phase>>
             PROVE  ActiveTurnsExact'
  OBVIOUS
<1>1. \A s : CountedTurns(s)' = CountedTurns(s)
  BY DEF CountedTurns
<1> QED BY <1>1 DEF ActiveTurnsExact
LEMMA FramePendingResults ==
  PendingResultsExact /\ UNCHANGED <<pendingResults, assignments, assignmentScope>>
  => PendingResultsExact'
<1> SUFFICES ASSUME PendingResultsExact,
                    UNCHANGED <<pendingResults, assignments, assignmentScope>>
             PROVE  PendingResultsExact'
  OBVIOUS
<1>1. \A s : QueuedFor(s)' = QueuedFor(s)
  BY DEF QueuedFor
<1> QED BY <1>1 DEF PendingResultsExact
LEMMA FramePendingInputs ==
  PendingInputsExact /\ UNCHANGED <<pendingInputs, delivery>> => PendingInputsExact'
  BY DEF PendingInputsExact
LEMMA FrameQueuedScope ==
  QueuedScopeOpen /\ UNCHANGED <<assignments, assignmentScope, state>> => QueuedScopeOpen'
  BY DEF QueuedScopeOpen
LEMMA FrameCancelled ==
  CancelledNeverQueued /\ UNCHANGED <<assignments, cancelledSubagents>> => CancelledNeverQueued'
  BY DEF CancelledNeverQueued

\* The counters count finite sets.
LEMMA CountedFinite ==
  ASSUME NEW s
  PROVE  IsFiniteSet(CountedTurns(s)) /\ Cardinality(CountedTurns(s)) \in Nat
<1>1. CountedTurns(s) \in SUBSET Turn
  BY DEF CountedTurns
<1> QED BY <1>1, FiniteTurns, FS_Subset, FS_CardinalityType

LEMMA QueuedFinite ==
  ASSUME TypeOK, NEW s
  PROVE  IsFiniteSet(QueuedFor(s)) /\ Cardinality(QueuedFor(s)) \in Nat
<1>1. QueuedFor(s) \in SUBSET Work
  BY DEF QueuedFor, TypeOK
<1> QED BY <1>1, ConstantsAssumption, FS_Subset, FS_CardinalityType

LEMMA CountedPositive ==
  ASSUME ActiveTurnsExact, NEW s \in MainTurn, NEW t \in CountedTurns(s)
  PROVE  activeTurns[s] \in Nat /\ activeTurns[s] > 0
  BY CountedFinite, FS_EmptySet DEF ActiveTurnsExact

LEMMA CountedOnly ==
  ASSUME ActiveTurnsExact, NEW s \in MainTurn, NEW t \in CountedTurns(s),
         activeTurns[s] = 1
  PROVE  CountedTurns(s) = {t}
<1>1. \E x : CountedTurns(s) = {x}
  BY CountedFinite, FS_Singleton DEF ActiveTurnsExact
<1> QED BY <1>1

LEMMA QueuedPositive ==
  ASSUME TypeOK, PendingResultsExact, NEW s \in MainTurn
  PROVE  /\ pendingResults[s] \in Nat
         /\ pendingResults[s] = 0 <=> QueuedFor(s) = {}
  BY QueuedFinite, FS_EmptySet DEF PendingResultsExact

\* A scope whose counters let it end is owed nothing, and its one active turn
\* is not a continuation that is still being admitted.
LEMMA QuietScope ==
  ASSUME AccountingInv, NEW s \in MainTurn, NEW t \in CountedTurns(s),
         phase[t] # "starting",
         activeTurns[s] = 1, pendingResults[s] = 0, pendingInputs[s] = 0
  PROVE  /\ CountedTurns(s) = {t}
         /\ QueuedFor(s) = {}
         /\ ~OpenReservation(s)
<1>0. /\ TypeOK /\ ActiveTurnsExact /\ PendingResultsExact
      /\ PendingInputsExact /\ ReservationInv
  BY DEF AccountingInv
<1>1. CountedTurns(s) = {t}
  BY <1>0, CountedOnly
<1>2. QueuedFor(s) = {}
  BY <1>0, QueuedPositive
<1>3. ~(delivery.step = "inline" /\ delivery.scope = s)
  BY <1>0 DEF PendingInputsExact
<1>4. ASSUME delivery.step = "start", delivery.scope = s
      PROVE  FALSE
  <2>1. delivery.turn \in CountedTurns(s) /\ phase[delivery.turn] = "starting"
    BY <1>0, <1>4 DEF ReservationInv, CountedTurns, Counted
  <2> QED BY <1>1, <2>1
<1> QED BY <1>1, <1>2, <1>3, <1>4 DEF OpenReservation

LEMMA AccountingTypes == AccountingInv => TypeInv
<1> SUFFICES ASSUME AccountingInv PROVE TypeInv
  OBVIOUS
<1>1. TypeOK /\ WorkInv /\ DeliveryInv
  BY DEF AccountingInv
<1>2. \A w \in Work : work[w] # "new" => origin[w] \in Turn
  BY <1>1 DEF TypeOK, WorkInv
<1>3. deliveries \in Seq(Work)
  BY <1>1 DEF TypeOK
<1>4. OriginInv
  BY <1>1, <1>2, <1>3 DEF OriginInv, DeliveryInv
<1> QED BY <1>1, <1>4 DEF TypeInv

LEMMA AccountingInit == Init => AccountingInv
<1> SUFFICES ASSUME Init PROVE AccountingInv
  OBVIOUS
<1>1. TypeOK
  BY TypeInvInit DEF TypeInv
<1>2. BindingsInv /\ FreshScopeInv /\ RemovalInv
  BY ConstantsAssumption DEF Init, BindingsInv, FreshScopeInv, RemovalInv, Counted
<1>3. WorkInv
  BY DEF Init, WorkInv
<1>4. DeliveryInv /\ ReservationInv
  BY DEF Init, DeliveryInv, ReservationInv, IdleDelivery, At, Delivery
<1>5. ActiveTurnsExact
  <2>1. \A s \in MainTurn : CountedTurns(s) = {}
    BY DEF Init, CountedTurns, Counted
  <2> QED BY <2>1, FS_EmptySet DEF Init, ActiveTurnsExact
<1>6. PendingResultsExact
  <2>1. \A s \in MainTurn : QueuedFor(s) = {}
    BY DEF Init, QueuedFor
  <2> QED BY <2>1, FS_EmptySet DEF Init, PendingResultsExact
<1>7. PendingInputsExact /\ QueuedScopeOpen /\ CancelledNeverQueued
  BY DEF Init, PendingInputsExact, QueuedScopeOpen, CancelledNeverQueued,
         IdleDelivery, At, Delivery
<1> QED BY <1>1, <1>2, <1>3, <1>4, <1>5, <1>6, <1>7 DEF AccountingInv

\* The facts every step below starts from.
LEMMA AccountingParts ==
  ASSUME AccountingInv
  PROVE  /\ TypeOK
         /\ BindingsInv /\ FreshScopeInv /\ RemovalInv
         /\ WorkInv /\ DeliveryInv /\ ReservationInv
         /\ ActiveTurnsExact /\ PendingResultsExact /\ PendingInputsExact
         /\ QueuedScopeOpen /\ CancelledNeverQueued
         /\ state \in [MainTurn -> {"none", "open", "ending"}]
         /\ turns \in [Turn -> MainTurn \cup {NoTurn}]
         /\ phase \in [Turn -> TurnPhase]
         /\ assignments \in SUBSET Work
         /\ assignmentScope \in [Work -> MainTurn \cup {NoTurn}]
         /\ origin \in [Work -> Turn \cup {NoTurn}]
         /\ work \in [Work -> WorkPhase]
  BY DEF AccountingInv, TypeOK

LEMMA AccountingBegin ==
  ASSUME AccountingInv, TypeOK', NEW t \in MainTurn, BeginMainAgentTurn(t)
  PROVE  AccountingInv'
<1> USE AccountingParts DEF BeginMainAgentTurn
<1>1. \A u \in Turn : turns[u] # t
  BY ConstantsAssumption DEF FreshScopeInv, BindingsInv
<1>2. \A w \in Work : assignmentScope[w] # t
  BY DEF FreshScopeInv
<1>3. delivery.step \in {"inline", "start"} => delivery.scope # t
  BY <1>2 DEF ReservationInv
<1>4. BindingsInv'
  BY <1>1, ConstantsAssumption DEF BindingsInv, Counted
<1>5. FreshScopeInv'
  BY <1>1 DEF FreshScopeInv
<1>6. RemovalInv'
  BY <1>1 DEF RemovalInv, BindingsInv, Counted
<1>7. WorkInv'
  BY DEF WorkInv
<1>8. DeliveryInv'
  BY FrameDelivery
<1>9. ReservationInv'
  BY <1>3, ConstantsAssumption DEF ReservationInv
<1>10. ActiveTurnsExact'
  <2>1. CountedTurns(t)' = {t}
    BY <1>1 DEF CountedTurns, Counted
  <2>2. \A s \in MainTurn : s # t => CountedTurns(s)' = CountedTurns(s)
    BY <1>1, ConstantsAssumption DEF CountedTurns, Counted
  <2>3. \A s \in MainTurn : activeTurns'[s] = IF s = t THEN 1 ELSE activeTurns[s]
    BY DEF TypeOK
  <2> QED BY <2>1, <2>2, <2>3, FS_Singleton DEF ActiveTurnsExact
<1>11. PendingResultsExact'
  <2>1. \A s \in MainTurn : QueuedFor(s)' = QueuedFor(s)
    BY DEF QueuedFor
  <2>2. QueuedFor(t) = {}
    BY <1>2 DEF QueuedFor
  <2>3. \A s \in MainTurn : pendingResults'[s] = IF s = t THEN 0 ELSE pendingResults[s]
    BY DEF TypeOK
  <2> QED BY <2>1, <2>2, <2>3, FS_EmptySet DEF PendingResultsExact
<1>12. PendingInputsExact'
  <2>1. \A s \in MainTurn : pendingInputs'[s] = IF s = t THEN 0 ELSE pendingInputs[s]
    BY DEF TypeOK
  <2> QED BY <1>3, <2>1 DEF PendingInputsExact
<1>13. QueuedScopeOpen'
  BY <1>2 DEF QueuedScopeOpen
<1>14. CancelledNeverQueued'
  BY FrameCancelled
<1> QED
  BY <1>4, <1>5, <1>6, <1>7, <1>8, <1>9, <1>10, <1>11, <1>12, <1>13, <1>14
     DEF AccountingInv

LEMMA AccountingAccept ==
  ASSUME AccountingInv, TypeOK', NEW t \in MainTurn, AcceptMainAgentTurn(t)
  PROVE  AccountingInv'
<1> USE AccountingParts DEF AcceptMainAgentTurn
<1>1. BindingsInv' /\ FreshScopeInv'
  BY ConstantsAssumption DEF BindingsInv, FreshScopeInv, Counted
<1>2. RemovalInv'
  BY DEF RemovalInv, Counted
<1>3. WorkInv'
  BY DEF WorkInv
<1>4. DeliveryInv'
  BY FrameDelivery
<1>5. ReservationInv'
  BY ConstantsAssumption DEF ReservationInv
<1>6. ActiveTurnsExact'
  <2>1. \A s \in MainTurn : CountedTurns(s)' = CountedTurns(s)
    BY DEF CountedTurns, Counted
  <2> QED BY <2>1 DEF ActiveTurnsExact
<1>7. /\ PendingResultsExact' /\ PendingInputsExact'
      /\ QueuedScopeOpen' /\ CancelledNeverQueued'
  BY FramePendingResults, FramePendingInputs, FrameQueuedScope, FrameCancelled
<1> QED BY <1>1, <1>2, <1>3, <1>4, <1>5, <1>6, <1>7 DEF AccountingInv

LEMMA AccountingRollback ==
  ASSUME AccountingInv, TypeOK', NEW t \in MainTurn, RollbackMainAgentTurn(t)
  PROVE  AccountingInv'
<1> USE AccountingParts DEF RollbackMainAgentTurn
<1>1. turns[t] = t /\ \A u \in Turn : turns[u] = t => u = t
  BY DEF BindingsInv, FreshScopeInv
<1>2. \A w \in Work : assignmentScope[w] # t
  BY DEF FreshScopeInv
<1>3. delivery.step \in {"inline", "start"} => delivery.scope # t
  BY <1>2 DEF ReservationInv
<1>4. BindingsInv'
  BY <1>1, ConstantsAssumption DEF BindingsInv, Counted
<1>5. FreshScopeInv'
  BY <1>1, ConstantsAssumption DEF FreshScopeInv
<1>6. RemovalInv'
  BY <1>1, ConstantsAssumption DEF RemovalInv, BindingsInv, Counted
<1>7. WorkInv'
  BY DEF WorkInv
<1>8. DeliveryInv'
  BY FrameDelivery
<1>9. ReservationInv'
  BY <1>1, <1>3, ConstantsAssumption DEF ReservationInv
<1>10. ActiveTurnsExact'
  <2>1. CountedTurns(t)' = {}
    BY <1>1, ConstantsAssumption DEF CountedTurns, Counted
  <2>2. \A s \in MainTurn : s # t => CountedTurns(s)' = CountedTurns(s)
    BY <1>1, ConstantsAssumption DEF CountedTurns, Counted
  <2>3. \A s \in MainTurn : activeTurns'[s] = IF s = t THEN 0 ELSE activeTurns[s]
    BY <1>1 DEF TypeOK
  <2> QED BY <2>1, <2>2, <2>3, FS_EmptySet DEF ActiveTurnsExact
<1>11. PendingResultsExact'
  <2>1. \A s \in MainTurn : QueuedFor(s)' = QueuedFor(s)
    BY DEF QueuedFor
  <2>2. QueuedFor(t) = {}
    BY <1>2 DEF QueuedFor
  <2>3. \A s \in MainTurn : pendingResults'[s] = IF s = t THEN 0 ELSE pendingResults[s]
    BY <1>1 DEF TypeOK
  <2> QED BY <2>1, <2>2, <2>3, FS_EmptySet DEF PendingResultsExact
<1>12. PendingInputsExact'
  <2>1. \A s \in MainTurn : pendingInputs'[s] = IF s = t THEN 0 ELSE pendingInputs[s]
    BY <1>1 DEF TypeOK
  <2> QED BY <1>3, <2>1 DEF PendingInputsExact
<1>13. QueuedScopeOpen'
  BY <1>1, <1>2 DEF QueuedScopeOpen
<1>14. CancelledNeverQueued'
  BY FrameCancelled
<1> QED
  BY <1>4, <1>5, <1>6, <1>7, <1>8, <1>9, <1>10, <1>11, <1>12, <1>13, <1>14
     DEF AccountingInv

LEMMA AccountingRunEnds ==
  ASSUME AccountingInv, TypeOK', NEW t \in Turn, RunEnds(t)
  PROVE  AccountingInv'
<1> USE AccountingParts DEF RunEnds
<1>0. phase[t] = "running"
  BY ConstantsAssumption DEF BindingsInv
<1>1. BindingsInv' /\ FreshScopeInv'
  BY <1>0, ConstantsAssumption DEF BindingsInv, FreshScopeInv, Counted
<1>2. RemovalInv'
  BY <1>0 DEF RemovalInv, Counted
<1>3. WorkInv'
  BY DEF WorkInv
<1>4. DeliveryInv'
  BY FrameDelivery
<1>5. ReservationInv'
  BY <1>0 DEF ReservationInv
<1>6. ActiveTurnsExact'
  <2>1. \A s \in MainTurn : CountedTurns(s)' = CountedTurns(s)
    BY <1>0 DEF CountedTurns, Counted
  <2> QED BY <2>1 DEF ActiveTurnsExact
<1>7. /\ PendingResultsExact' /\ PendingInputsExact'
      /\ QueuedScopeOpen' /\ CancelledNeverQueued'
  BY FramePendingResults, FramePendingInputs, FrameQueuedScope, FrameCancelled
<1> QED BY <1>1, <1>2, <1>3, <1>4, <1>5, <1>6, <1>7 DEF AccountingInv

LEMMA AccountingFinishTurn ==
  ASSUME AccountingInv, TypeOK', NEW t \in Turn, FinishTurn(t)
  PROVE  AccountingInv'
<1> USE AccountingParts
<1>0. PICK s \in MainTurn : s = turns[t]
  BY DEF FinishTurn, BindingsInv, Counted
<1>1. phase[t] = "over" /\ turns[t] = s /\ t \in CountedTurns(s)
  BY <1>0 DEF FinishTurn, Counted, CountedTurns
<1>2. activeTurns[s] \in Nat /\ activeTurns[s] > 0
  BY <1>1, CountedPositive
<1>3. /\ activeTurns' = [activeTurns EXCEPT ![s] = @ - 1]
      /\ state' = [state EXCEPT ![s] = IF Quiet(s) THEN "ending" ELSE @]
      /\ phase' = [phase EXCEPT ![t] =
                     IF ~Quiet(s) THEN "finished"
                     ELSE IF FirstToEnd(s) THEN "preEnding"
                     ELSE "removing"]
  BY <1>1, <1>2, ConstantsAssumption DEF FinishTurn
<1>4. UNCHANGED <<pendingResults, pendingInputs, turns, assignments,
                  assignmentScope, results, cancelledSubagents, active, work,
                  origin, deliveries, delivery>>
  BY DEF FinishTurn
<1>5. Quiet(s) => /\ CountedTurns(s) = {t}
               /\ QueuedFor(s) = {}
               /\ ~OpenReservation(s)
  BY <1>1, QuietScope DEF Quiet
<1>6. BindingsInv'
  BY <1>1, <1>3, <1>4 DEF BindingsInv, Counted
<1>7. FreshScopeInv'
  BY <1>1, <1>3, <1>4 DEF FreshScopeInv
<1>8. RemovalInv'
  <2>1. \A u \in Turn : phase[u] \in {"preEnding", "removing"} => turns[u] # s
    BY <1>1 DEF RemovalInv, CountedTurns, Counted
  <2>2. CASE Quiet(s)
    <3>1. \A u \in Turn : turns[u] = s /\ u # t =>
             phase[u] \notin Counted \cup {"preEnding", "removing"}
      BY <1>5, <2>1, <2>2 DEF CountedTurns
    <3>2. state'[s] = "ending"
      BY <1>3, <2>2
    <3> QED BY <1>1, <1>3, <1>4, <2>1, <2>2, <3>1, <3>2 DEF RemovalInv, Counted
  <2>3. CASE ~Quiet(s)
    BY <1>1, <1>3, <1>4, <2>1, <2>3 DEF RemovalInv, Counted
  <2> QED BY <2>2, <2>3
<1>9. WorkInv'
  BY <1>1, <1>3, <1>4 DEF WorkInv
<1>10. DeliveryInv'
  BY <1>4, FrameDelivery
<1>11. ReservationInv'
  <2>1. delivery.step \in {"inline", "start"} => state'[delivery.scope] = "open"
    BY <1>1, <1>3, <1>5 DEF ReservationInv, OpenReservation
  <2>2. delivery.step = "start" => phase'[delivery.turn] = "starting"
    BY <1>1, <1>3 DEF ReservationInv
  <2> QED BY <1>4, <2>1, <2>2 DEF ReservationInv
<1>12. ActiveTurnsExact'
  <2>1. CountedTurns(s)' = CountedTurns(s) \ {t}
    BY <1>1, <1>3, <1>4 DEF CountedTurns, Counted
  <2>2. \A r \in MainTurn : r # s => CountedTurns(r)' = CountedTurns(r)
    BY <1>1, <1>3, <1>4 DEF CountedTurns, Counted
  <2>3. \A r \in MainTurn : activeTurns'[r] = IF r = s THEN activeTurns[s] - 1
                                                        ELSE activeTurns[r]
    <3>1. activeTurns \in [MainTurn -> Nat]
      BY DEF TypeOK
    <3> QED BY <1>3, <3>1
  <2>4. Cardinality(CountedTurns(s) \ {t}) = Cardinality(CountedTurns(s)) - 1
    <3>1. IsFiniteSet(CountedTurns(s))
      BY CountedFinite
    <3> QED BY <1>1, <3>1, FS_RemoveElement
  <2> QED BY <1>1, <2>1, <2>2, <2>3, <2>4 DEF ActiveTurnsExact
<1>13. /\ PendingResultsExact' /\ PendingInputsExact' /\ CancelledNeverQueued'
  BY <1>4, FramePendingResults, FramePendingInputs, FrameCancelled
<1>14. QueuedScopeOpen'
  <2>1. \A w \in assignments : Quiet(s) => assignmentScope[w] # s
    BY <1>5 DEF QueuedFor
  <2> QED BY <1>1, <1>3, <1>4, <2>1 DEF QueuedScopeOpen
<1> QED
  BY <1>6, <1>7, <1>8, <1>9, <1>10, <1>11, <1>12, <1>13, <1>14 DEF AccountingInv

LEMMA AccountingPreEnd ==
  ASSUME AccountingInv, TypeOK', NEW t \in Turn, FinishTurnPreEnd(t)
  PROVE  AccountingInv'
<1> USE AccountingParts DEF FinishTurnPreEnd
<1>1. BindingsInv' /\ FreshScopeInv'
  BY ConstantsAssumption DEF BindingsInv, FreshScopeInv, Counted
<1>2. RemovalInv'
  BY DEF RemovalInv, Counted
<1>3. WorkInv'
  BY DEF WorkInv
<1>4. DeliveryInv'
  BY FrameDelivery
<1>5. ReservationInv'
  BY DEF ReservationInv
<1>6. ActiveTurnsExact'
  <2>1. \A s \in MainTurn : CountedTurns(s)' = CountedTurns(s)
    BY DEF CountedTurns, Counted
  <2> QED BY <2>1 DEF ActiveTurnsExact
<1>7. /\ PendingResultsExact' /\ PendingInputsExact'
      /\ QueuedScopeOpen' /\ CancelledNeverQueued'
  BY FramePendingResults, FramePendingInputs, FrameQueuedScope, FrameCancelled
<1> QED BY <1>1, <1>2, <1>3, <1>4, <1>5, <1>6, <1>7 DEF AccountingInv

LEMMA AccountingRemoveScope ==
  ASSUME AccountingInv, TypeOK', NEW t \in Turn, FinishTurnRemoveScope(t)
  PROVE  AccountingInv'
<1> USE AccountingParts
<1>0. PICK s \in MainTurn : s = turns[t]
  BY DEF FinishTurnRemoveScope, BindingsInv
<1>1. phase[t] = "removing" /\ turns[t] = s /\ state[s] = "ending"
  BY <1>0 DEF FinishTurnRemoveScope, RemovalInv
<1>2. \A u \in Turn : turns[u] = s /\ u # t =>
        phase[u] \notin Counted \cup {"preEnding", "removing"}
  BY <1>1 DEF RemovalInv
<1>3. /\ state' = [state EXCEPT ![s] = "none"]
      /\ activeTurns' = [activeTurns EXCEPT ![s] = 0]
      /\ pendingResults' = [pendingResults EXCEPT ![s] = 0]
      /\ pendingInputs' = [pendingInputs EXCEPT ![s] = 0]
      /\ turns' = [u \in Turn |-> IF turns[u] = s THEN NoTurn ELSE turns[u]]
      /\ assignments' = {w \in assignments : assignmentScope[w] # s}
      /\ phase' = [phase EXCEPT ![t] = "finished"]
  BY <1>0 DEF FinishTurnRemoveScope
<1>4. UNCHANGED <<assignmentScope, results, cancelledSubagents, active, work,
                  origin, deliveries, delivery>>
  BY DEF FinishTurnRemoveScope
<1>5. delivery.step \in {"inline", "start"} => delivery.scope # s
  BY <1>1 DEF ReservationInv
<1>6. s # NoTurn
  BY ConstantsAssumption
<1>7. BindingsInv'
  <2>1. \A u \in Turn : phase'[u] \in Counted \cup {"preEnding", "removing"} =>
                          turns[u] # s /\ phase[u] = phase'[u]
    BY <1>1, <1>2, <1>3 DEF Counted
  <2> QED BY <1>1, <1>3, <1>4, <1>6, <2>1, ConstantsAssumption
          DEF BindingsInv, Counted
<1>8. FreshScopeInv'
  BY <1>1, <1>3, <1>4, ConstantsAssumption DEF FreshScopeInv
<1>9. RemovalInv'
  <2>1. \A u \in Turn : phase'[u] \in {"preEnding", "removing"} =>
                          turns[u] # s /\ phase[u] = phase'[u]
    BY <1>1, <1>2, <1>3
  <2> QED BY <1>1, <1>3, <2>1, ConstantsAssumption DEF RemovalInv, Counted, BindingsInv
<1>10. WorkInv'
  BY <1>1, <1>3, <1>4 DEF WorkInv
<1>11. DeliveryInv'
  BY <1>4, FrameDelivery
<1>12. ReservationInv'
  BY <1>1, <1>3, <1>4, <1>5 DEF ReservationInv
<1>13. ActiveTurnsExact'
  <2>1. CountedTurns(s)' = {}
    BY <1>3, <1>6 DEF CountedTurns
  <2>2. \A r \in MainTurn : r # s => CountedTurns(r)' = CountedTurns(r)
    BY <1>1, <1>3, <1>6, ConstantsAssumption DEF CountedTurns, Counted
  <2>3. \A r \in MainTurn : activeTurns'[r] = IF r = s THEN 0 ELSE activeTurns[r]
    BY <1>1, <1>3 DEF TypeOK
  <2> QED BY <2>1, <2>2, <2>3, FS_EmptySet DEF ActiveTurnsExact
<1>14. PendingResultsExact'
  <2>1. QueuedFor(s)' = {}
    BY <1>3, <1>4 DEF QueuedFor
  <2>2. \A r \in MainTurn : r # s => QueuedFor(r)' = QueuedFor(r)
    BY <1>3, <1>4 DEF QueuedFor
  <2>3. \A r \in MainTurn : pendingResults'[r] = IF r = s THEN 0 ELSE pendingResults[r]
    BY <1>1, <1>3 DEF TypeOK
  <2> QED BY <2>1, <2>2, <2>3, FS_EmptySet DEF PendingResultsExact
<1>15. PendingInputsExact'
  <2>1. \A r \in MainTurn : pendingInputs'[r] = IF r = s THEN 0 ELSE pendingInputs[r]
    BY <1>1, <1>3 DEF TypeOK
  <2> QED BY <1>4, <1>5, <2>1 DEF PendingInputsExact
<1>16. QueuedScopeOpen' /\ CancelledNeverQueued'
  BY <1>1, <1>3, <1>4 DEF QueuedScopeOpen, CancelledNeverQueued
<1> QED
  BY <1>7, <1>8, <1>9, <1>10, <1>11, <1>12, <1>13, <1>14, <1>15, <1>16
     DEF AccountingInv

\* One assignment joins or leaves the queue, and pendingResults follows.
LEMMA QueuedAdded ==
  ASSUME TypeOK, PendingResultsExact, NEW s \in MainTurn, NEW w,
         w \notin QueuedFor(s),
         QueuedFor(s)' = QueuedFor(s) \cup {w},
         \A r \in MainTurn : r # s => QueuedFor(r)' = QueuedFor(r),
         pendingResults' = [pendingResults EXCEPT ![s] = @ + 1]
  PROVE  PendingResultsExact'
<1>1. pendingResults \in [MainTurn -> Nat]
  BY DEF TypeOK
<1>2. \A r \in MainTurn : pendingResults'[r] =
         IF r = s THEN pendingResults[s] + 1 ELSE pendingResults[r]
  BY <1>1
<1>3. IsFiniteSet(QueuedFor(s))
  BY QueuedFinite
<1>4. Cardinality(QueuedFor(s) \cup {w}) = Cardinality(QueuedFor(s)) + 1
  BY <1>3, FS_AddElement
<1> QED BY <1>2, <1>4 DEF PendingResultsExact

LEMMA QueuedRemoved ==
  ASSUME TypeOK, PendingResultsExact, NEW s \in MainTurn, NEW w \in QueuedFor(s),
         QueuedFor(s)' = QueuedFor(s) \ {w},
         \A r \in MainTurn : r # s => QueuedFor(r)' = QueuedFor(r),
         pendingResults' = [pendingResults EXCEPT ![s] = @ - 1]
  PROVE  PendingResultsExact'
<1>1. pendingResults \in [MainTurn -> Nat]
  BY DEF TypeOK
<1>2. \A r \in MainTurn : pendingResults'[r] =
         IF r = s THEN pendingResults[s] - 1 ELSE pendingResults[r]
  BY <1>1
<1>3. IsFiniteSet(QueuedFor(s))
  BY QueuedFinite
<1>4. Cardinality(QueuedFor(s) \ {w}) = Cardinality(QueuedFor(s)) - 1
  BY <1>3, FS_RemoveElement
<1> QED BY <1>2, <1>4 DEF PendingResultsExact

LEMMA AccountingStartWork ==
  ASSUME AccountingInv, TypeOK', NEW w \in Work, NEW t \in Turn, StartWork(w, t)
  PROVE  AccountingInv'
<1> USE AccountingParts DEF StartWork
<1>1. BindingsInv' /\ FreshScopeInv' /\ RemovalInv'
  BY FrameBindings, FrameFreshScope, FrameRemoval
<1>2. WorkInv'
  <2>1. phase[t] \notin {"idle", "starting"}
    BY DEF MayCall
  <2>2. /\ work' = [work EXCEPT ![w] = "started"]
        /\ origin' = [origin EXCEPT ![w] = t]
        /\ UNCHANGED <<assignments, assignmentScope, phase>>
    OBVIOUS
  <2>3. \A v \in Work : v # w => work'[v] = work[v] /\ origin'[v] = origin[v]
    BY <2>2
  <2>4. origin'[w] = t /\ work'[w] = "started" /\ t # NoTurn
    BY <2>2, ConstantsAssumption
  <2>5. work[w] = "new"
    OBVIOUS
  <2> HIDE DEF StartWork
  <2> QED BY <2>1, <2>2, <2>3, <2>4, <2>5 DEF WorkInv
<1>3. DeliveryInv'
  <2>1. deliveries \in Seq(Work)
    BY DEF TypeOK
  <2> QED BY <2>1 DEF DeliveryInv
<1>4. ReservationInv' /\ ActiveTurnsExact'
  BY FrameReservation, FrameActiveTurns
<1>5. /\ PendingResultsExact' /\ PendingInputsExact'
      /\ QueuedScopeOpen' /\ CancelledNeverQueued'
  BY FramePendingResults, FramePendingInputs, FrameQueuedScope, FrameCancelled
<1> QED BY <1>1, <1>2, <1>3, <1>4, <1>5 DEF AccountingInv

LEMMA AccountingRegister ==
  ASSUME AccountingInv, TypeOK', NEW w \in Work, RegisterAssignmentMetadata(w)
  PROVE  AccountingInv'
<1> USE AccountingParts DEF RegisterAssignmentMetadata
<1>1. BindingsInv' /\ RemovalInv' /\ ActiveTurnsExact' /\ PendingInputsExact'
  BY FrameBindings, FrameRemoval, FrameActiveTurns, FramePendingInputs
<1>2. DeliveryInv'
  <2>1. deliveries \in Seq(Work)
    BY DEF TypeOK
  <2> QED BY <2>1 DEF DeliveryInv
<1>3. /\ origin[w] \in Turn /\ w \notin assignments
      /\ assignmentScope[w] = NoTurn
      /\ phase[origin[w]] \notin {"idle", "starting"}
  BY DEF WorkInv
<1>4. CASE Registers(w)
  <2>1. PICK s \in MainTurn : s = turns[origin[w]]
    BY <1>3, <1>4 DEF Registers
  <2>2. state[s] = "open" /\ SubagentOf[w] \notin cancelledSubagents
    BY <1>4, <2>1 DEF Registers
  <2>3. /\ assignments' = assignments \cup {w}
        /\ assignmentScope' = [assignmentScope EXCEPT ![w] = s]
        /\ pendingResults' = [pendingResults EXCEPT ![s] = @ + 1]
        /\ work' = [work EXCEPT ![w] = "registering"]
    BY <1>4, <2>1
  <2>4. phase[s] \notin {"idle", "starting"}
    BY <1>3, <2>1 DEF FreshScopeInv
  <2>5. FreshScopeInv'
    BY <2>3, <2>4 DEF FreshScopeInv
  <2>6. WorkInv'
    BY <1>3, <2>3, ConstantsAssumption DEF WorkInv
  <2>7. ReservationInv'
    BY <1>3, <2>3, ConstantsAssumption DEF ReservationInv
  <2>8. QueuedFor(s)' = QueuedFor(s) \cup {w} /\ w \notin QueuedFor(s)
    BY <1>3, <2>3 DEF QueuedFor
  <2>9. \A r \in MainTurn : r # s => QueuedFor(r)' = QueuedFor(r)
    BY <1>3, <2>3 DEF QueuedFor
  <2>10. PendingResultsExact'
    BY <2>3, <2>8, <2>9, QueuedAdded
  <2>11. QueuedScopeOpen' /\ CancelledNeverQueued'
    BY <2>2, <2>3 DEF QueuedScopeOpen, CancelledNeverQueued
  <2> QED BY <1>1, <1>2, <2>5, <2>6, <2>7, <2>10, <2>11 DEF AccountingInv
<1>5. CASE ~Registers(w)
  <2>1. FreshScopeInv' /\ ReservationInv' /\ PendingResultsExact'
        /\ QueuedScopeOpen' /\ CancelledNeverQueued'
    BY <1>5, FrameFreshScope, FrameReservation, FramePendingResults,
       FrameQueuedScope, FrameCancelled
  <2>2. WorkInv'
    BY <1>5 DEF WorkInv
  <2> QED BY <1>1, <1>2, <2>1, <2>2 DEF AccountingInv
<1> QED BY <1>4, <1>5

LEMMA AccountingKeep ==
  ASSUME AccountingInv, TypeOK', NEW w \in Work, KeepRegistration(w)
  PROVE  AccountingInv'
<1> USE AccountingParts DEF KeepRegistration
<1>1. BindingsInv' /\ FreshScopeInv' /\ RemovalInv'
  BY FrameBindings, FrameFreshScope, FrameRemoval
<1>2. WorkInv'
  BY DEF WorkInv
<1>3. DeliveryInv'
  <2>1. deliveries \in Seq(Work)
    BY DEF TypeOK
  <2> QED BY <2>1 DEF DeliveryInv
<1>4. ReservationInv' /\ ActiveTurnsExact'
  BY FrameReservation, FrameActiveTurns
<1>5. /\ PendingResultsExact' /\ PendingInputsExact'
      /\ QueuedScopeOpen' /\ CancelledNeverQueued'
  BY FramePendingResults, FramePendingInputs, FrameQueuedScope, FrameCancelled
<1> QED BY <1>1, <1>2, <1>3, <1>4, <1>5 DEF AccountingInv

LEMMA AccountingRollbackRegistration ==
  ASSUME AccountingInv, TypeOK', NEW w \in Work, RollbackRegistration(w)
  PROVE  AccountingInv'
<1> USE AccountingParts DEF RollbackRegistration, WithdrawAssignment
<1>1. BindingsInv' /\ FreshScopeInv' /\ RemovalInv' /\ ActiveTurnsExact'
      /\ PendingInputsExact'
  BY FrameBindings, FrameFreshScope, FrameRemoval, FrameActiveTurns,
     FramePendingInputs
<1>2. DeliveryInv'
  <2>1. deliveries \in Seq(Work)
    BY DEF TypeOK
  <2> QED BY <2>1 DEF DeliveryInv
<1>3. assignments' \subseteq assignments
  OBVIOUS
<1>4. WorkInv'
  BY <1>3 DEF WorkInv
<1>5. ReservationInv' /\ QueuedScopeOpen' /\ CancelledNeverQueued'
  BY <1>3 DEF ReservationInv, QueuedScopeOpen, CancelledNeverQueued
<1>6. PendingResultsExact'
  <2>1. CASE w \in assignments
    <3>1. PICK s \in MainTurn : s = assignmentScope[w]
      BY <2>1 DEF WorkInv
    <3>2. state[s] = "open" /\ w \in QueuedFor(s)
      BY <2>1, <3>1 DEF QueuedScopeOpen, QueuedFor
    <3>3. pendingResults[s] \in Nat /\ pendingResults[s] # 0
      BY <3>2, QueuedPositive
    <3>4. pendingResults' = [pendingResults EXCEPT ![s] = pendingResults[s] - 1]
      BY <2>1, <3>1, <3>2, <3>3
    <3>5. /\ QueuedFor(s)' = QueuedFor(s) \ {w}
          /\ \A r \in MainTurn : r # s => QueuedFor(r)' = QueuedFor(r)
      BY <2>1, <3>1 DEF QueuedFor
    <3> QED BY <3>2, <3>4, <3>5, QueuedRemoved
  <2>2. CASE w \notin assignments
    BY <2>2, FramePendingResults
  <2> QED BY <2>1, <2>2
<1> QED BY <1>1, <1>2, <1>4, <1>5, <1>6 DEF AccountingInv

LEMMA AccountingWorkEnds ==
  ASSUME AccountingInv, TypeOK', NEW w \in Work, WorkEnds(w)
  PROVE  AccountingInv'
<1> USE AccountingParts DEF WorkEnds
<1>1. BindingsInv' /\ FreshScopeInv' /\ RemovalInv'
  BY FrameBindings, FrameFreshScope, FrameRemoval
<1>2. WorkInv'
  BY DEF WorkInv
<1>3. DeliveryInv'
  <2>1. deliveries \in Seq(Work)
    BY DEF TypeOK
  <2>2. \A i \in DOMAIN deliveries : deliveries[i] # w
    BY DEF DeliveryInv
  <2>3. CASE w \in Direct \/ SubagentOf[w] \in closed
    BY <2>1, <2>2, <2>3 DEF DeliveryInv
  <2>4. CASE ~(w \in Direct \/ SubagentOf[w] \in closed)
    <3>1. deliveries' = Append(deliveries, w)
      BY <2>4
    <3>2. /\ DOMAIN deliveries' = 1..(Len(deliveries) + 1)
          /\ \A i \in DOMAIN deliveries : i \in DOMAIN deliveries'
                                          /\ deliveries'[i] = deliveries[i]
          /\ deliveries'[Len(deliveries) + 1] = w
          /\ \A i \in DOMAIN deliveries' :
               i \in DOMAIN deliveries \/ i = Len(deliveries) + 1
      BY <2>1, <3>1
    <3>3. work' = [work EXCEPT ![w] = "published"]
      BY <2>4
    <3>4. \A i \in DOMAIN deliveries' : work'[deliveries'[i]] = "published"
      BY <2>1, <2>2, <3>2, <3>3 DEF DeliveryInv
    <3>5. \A i, j \in DOMAIN deliveries' : deliveries'[i] = deliveries'[j] => i = j
      BY <2>2, <3>2 DEF DeliveryInv
    <3>6. delivery.step # "idle" =>
            /\ delivery.task \in Work /\ delivery.task # w
            /\ \A i \in DOMAIN deliveries' : deliveries'[i] # delivery.task
      BY <3>2 DEF DeliveryInv
    <3> QED BY <3>3, <3>4, <3>5, <3>6 DEF DeliveryInv
  <2> QED BY <2>3, <2>4
<1>4. ReservationInv' /\ ActiveTurnsExact'
  BY FrameReservation, FrameActiveTurns
<1>5. /\ PendingResultsExact' /\ PendingInputsExact'
      /\ QueuedScopeOpen' /\ CancelledNeverQueued'
  BY FramePendingResults, FramePendingInputs, FrameQueuedScope, FrameCancelled
<1> QED BY <1>1, <1>2, <1>3, <1>4, <1>5 DEF AccountingInv

LEMMA AccountingClose ==
  ASSUME AccountingInv, TypeOK', NEW a \in Subagent, CloseRecord(a)
  PROVE  AccountingInv'
  BY AccountingParts, FrameBindings, FrameFreshScope, FrameRemoval, FrameWork,
     FrameDelivery, FrameReservation, FrameActiveTurns, FramePendingResults,
     FramePendingInputs, FrameQueuedScope, FrameCancelled
     DEF AccountingInv, CloseRecord

LEMMA AccountingCancel ==
  ASSUME AccountingInv, TypeOK', NEW a \in Subagent, CancelSubagentAssignments(a)
  PROVE  AccountingInv'
<1> USE AccountingParts DEF CancelSubagentAssignments
<1>1. BindingsInv' /\ FreshScopeInv' /\ RemovalInv' /\ DeliveryInv'
      /\ ActiveTurnsExact' /\ PendingInputsExact'
  BY FrameBindings, FrameFreshScope, FrameRemoval, FrameDelivery,
     FrameActiveTurns, FramePendingInputs
<1>2. WorkInv' /\ ReservationInv' /\ QueuedScopeOpen'
  BY DEF WorkInv, ReservationInv, QueuedScopeOpen
<1>3. CancelledNeverQueued'
  BY DEF CancelledNeverQueued, Queue
<1>4. PendingResultsExact'
  <2> SUFFICES ASSUME NEW s \in MainTurn
               PROVE  pendingResults'[s] = Cardinality(QueuedFor(s)')
    BY DEF PendingResultsExact
  <2> DEFINE gone == {w \in Queue(a) : assignmentScope[w] = s}
             n == Cardinality(gone)
  <2>1. pendingResults'[s] = IF pendingResults[s] > n THEN pendingResults[s] - n ELSE 0
    OBVIOUS
  <2>2. gone \in SUBSET QueuedFor(s) /\ QueuedFor(s) \cap gone = gone
    BY DEF Queue, QueuedFor
  <2>3. QueuedFor(s)' = QueuedFor(s) \ gone
    BY DEF Queue, QueuedFor
  <2>4. IsFiniteSet(QueuedFor(s)) /\ pendingResults[s] = Cardinality(QueuedFor(s))
    BY QueuedFinite DEF PendingResultsExact
  <2> HIDE DEF gone
  <2>5. /\ IsFiniteSet(gone)
        /\ Cardinality(gone) <= Cardinality(QueuedFor(s))
        /\ Cardinality(QueuedFor(s) \ gone) = Cardinality(QueuedFor(s)) - Cardinality(gone)
    <3>1. IsFiniteSet(gone) /\ Cardinality(gone) <= Cardinality(QueuedFor(s))
      BY <2>2, <2>4, FS_Subset
    <3>2. Cardinality(QueuedFor(s) \ gone) =
            Cardinality(QueuedFor(s)) - Cardinality(QueuedFor(s) \cap gone)
      BY <2>4, FS_Difference
    <3> QED BY <2>2, <3>1, <3>2
  <2>6. Cardinality(gone) \in Nat /\ Cardinality(QueuedFor(s)) \in Nat
    BY <2>4, <2>5, FS_CardinalityType
  <2> QED BY <2>1, <2>3, <2>4, <2>5, <2>6
<1> QED BY <1>1, <1>2, <1>3, <1>4 DEF AccountingInv

LEMMA AccountingTake ==
  ASSUME AccountingInv, TypeOK', TakeDelivery
  PROVE  AccountingInv'
<1> USE AccountingParts DEF TakeDelivery
<1>1. /\ delivery' = Delivery("check", Head(deliveries), NoWork, NoTurn, NoTurn)
      /\ deliveries' = Tail(deliveries)
  BY DEF At
<1>2. BindingsInv' /\ FreshScopeInv' /\ RemovalInv' /\ WorkInv' /\ ActiveTurnsExact'
  BY FrameBindings, FrameFreshScope, FrameRemoval, FrameWork, FrameActiveTurns
<1>3. PendingResultsExact' /\ QueuedScopeOpen' /\ CancelledNeverQueued'
  BY FramePendingResults, FrameQueuedScope, FrameCancelled
<1>4. delivery'.step = "check" /\ delivery.step = "idle"
  BY <1>1 DEF Delivery
<1>5. PendingInputsExact' /\ ReservationInv'
  BY <1>4 DEF PendingInputsExact, ReservationInv
<1>6. DeliveryInv'
  <2>1. deliveries \in Seq(Work) /\ deliveries # <<>>
    BY DEF TypeOK
  <2>2. /\ Head(deliveries) = deliveries[1] /\ 1 \in DOMAIN deliveries
        /\ Head(deliveries) \in Work
    BY <2>1
  <2>3. \A i \in DOMAIN deliveries' : i + 1 \in DOMAIN deliveries
          /\ deliveries'[i] = deliveries[i + 1] /\ i + 1 # 1 /\ i \in Nat
    BY <1>1, <2>1
  <2>4. \A i \in DOMAIN deliveries' : work[deliveries'[i]] = "published"
    BY <2>3 DEF DeliveryInv
  <2>5. \A i, j \in DOMAIN deliveries' : deliveries'[i] = deliveries'[j] => i = j
    <3> SUFFICES ASSUME NEW i \in DOMAIN deliveries', NEW j \in DOMAIN deliveries',
                        deliveries'[i] = deliveries'[j]
                 PROVE  i = j
      OBVIOUS
    <3>1. i + 1 = j + 1
      BY <2>3 DEF DeliveryInv
    <3> QED BY <2>3, <3>1
  <2>6. \A i \in DOMAIN deliveries' : deliveries'[i] # Head(deliveries)
    BY <2>2, <2>3 DEF DeliveryInv
  <2>7. delivery'.task = Head(deliveries) /\ work[Head(deliveries)] = "published"
    BY <1>1, <2>2 DEF Delivery, DeliveryInv
  <2>8. \A w \in Work : results'[w] # NoTurn => work'[w] = "delivered"
    BY <1>4 DEF DeliveryInv
  <2>9. work' = work
    OBVIOUS
  <2> HIDE DEF TakeDelivery
  <2> QED BY <2>2, <2>4, <2>5, <2>6, <2>7, <2>8, <2>9 DEF DeliveryInv
<1> QED BY <1>2, <1>3, <1>5, <1>6 DEF AccountingInv

LEMMA AccountingCheck ==
  ASSUME AccountingInv, TypeOK', CheckActiveTurn
  PROVE  AccountingInv'
<1> USE AccountingParts DEF CheckActiveTurn
<1>1. /\ delivery.step = "check" /\ delivery'.task = delivery.task
      /\ delivery'.step \in {"inlineReserve", "reserve"}
  BY DEF At, Delivery
<1>2. BindingsInv' /\ FreshScopeInv' /\ RemovalInv' /\ WorkInv' /\ ActiveTurnsExact'
  BY FrameBindings, FrameFreshScope, FrameRemoval, FrameWork, FrameActiveTurns
<1>3. PendingResultsExact' /\ QueuedScopeOpen' /\ CancelledNeverQueued'
  BY FramePendingResults, FrameQueuedScope, FrameCancelled
<1>4. PendingInputsExact' /\ ReservationInv'
  BY <1>1 DEF PendingInputsExact, ReservationInv
<1>5. DeliveryInv'
  BY <1>1, SMTT(30) DEF DeliveryInv
<1> QED BY <1>2, <1>3, <1>4, <1>5 DEF AccountingInv

\* The two outcomes of the inline attempt: a reserved result, or a turn of its own.
InlineReserved(w, s) ==
  \E v \in assignments :
    /\ s # NoTurn
    /\ IsHead(v, SubagentOf[w])
    /\ assignmentScope[v] = s
    /\ state[s] = "open"
    /\ pendingResults[s] > 0
    /\ assignments' = assignments \ {v}
    /\ pendingResults' = [pendingResults EXCEPT ![s] = @ - 1]
    /\ pendingInputs' = [pendingInputs EXCEPT ![s] = @ + 1]
    /\ results' = [results EXCEPT ![w] = s]
    /\ delivery' = Delivery("inline", w, v, NoTurn, s)
InlineKept(w) ==
  delivery' = At("reserve", w) /\ UNCHANGED <<assignments, pendingResults, pendingInputs, results>>
LEMMA InlineOutcome ==
  ASSUME ReserveInlineResult
  PROVE  /\ delivery.step = "inlineReserve"
         /\ InlineReserved(delivery.task, turns[origin[delivery.task]]) \/ InlineKept(delivery.task)
  BY DEF ReserveInlineResult, InlineReserved, InlineKept

LEMMA AccountingReserveInline ==
  ASSUME AccountingInv, TypeOK', ReserveInlineResult
  PROVE  AccountingInv'
<1> USE AccountingParts
<1>1. delivery.step = "inlineReserve"
  BY InlineOutcome
<1>0. PICK w \in Work : w = delivery.task
  BY <1>1 DEF DeliveryInv
<1>2. UNCHANGED <<state, activeTurns, turns, assignmentScope, cancelledSubagents,
                  phase, active, work, origin, deliveries, closed>>
  BY DEF ReserveInlineResult
<1>3. BindingsInv' /\ FreshScopeInv' /\ RemovalInv' /\ ActiveTurnsExact'
  BY <1>2, FrameBindings, FrameFreshScope, FrameRemoval, FrameActiveTurns
<1>4. CASE delivery' = At("reserve", w) /\
           UNCHANGED <<assignments, pendingResults, pendingInputs, results>>
  <2>1. delivery'.step = "reserve" /\ delivery'.task = delivery.task
    BY <1>0, <1>4 DEF At, Delivery
  <2>2. WorkInv' /\ PendingResultsExact' /\ QueuedScopeOpen' /\ CancelledNeverQueued'
    BY <1>2, <1>4, FrameWork, FramePendingResults, FrameQueuedScope, FrameCancelled
  <2>3. PendingInputsExact' /\ ReservationInv'
    BY <1>1, <1>4, <2>1 DEF PendingInputsExact, ReservationInv
  <2>4. DeliveryInv'
    BY <1>1, <1>2, <1>4, <2>1 DEF DeliveryInv
  <2> QED BY <1>3, <2>2, <2>3, <2>4 DEF AccountingInv
<1>5. ASSUME NEW v \in assignments, NEW s \in MainTurn,
             /\ IsHead(v, SubagentOf[w])
             /\ assignmentScope[v] = s
             /\ state[s] = "open"
             /\ pendingResults[s] > 0
             /\ assignments' = assignments \ {v}
             /\ pendingResults' = [pendingResults EXCEPT ![s] = @ - 1]
             /\ pendingInputs' = [pendingInputs EXCEPT ![s] = @ + 1]
             /\ results' = [results EXCEPT ![w] = s]
             /\ delivery' = Delivery("inline", w, v, NoTurn, s)
      PROVE  AccountingInv'
  <2>1. /\ delivery'.step = "inline" /\ delivery'.task = w
        /\ delivery'.taken = v /\ delivery'.scope = s
    BY <1>5 DEF Delivery
  <2>2. WorkInv' /\ QueuedScopeOpen' /\ CancelledNeverQueued'
    BY <1>2, <1>5 DEF WorkInv, QueuedScopeOpen, CancelledNeverQueued
  <2>3. SubagentOf[v] = SubagentOf[w]
    BY <1>5 DEF IsHead, Queue
  <2>4. ReservationInv'
    BY <1>2, <1>5, <2>1, <2>3 DEF ReservationInv
  <2>5. PendingInputsExact'
    <3>1. pendingInputs \in [MainTurn -> Nat]
      BY DEF TypeOK
    <3>2. \A r \in MainTurn : pendingInputs[r] = 0
      BY <1>1 DEF PendingInputsExact
    <3>3. \A r \in MainTurn : pendingInputs'[r] = IF r = s THEN 1 ELSE 0
      BY <1>5, <3>1, <3>2
    <3> QED BY <2>1, <3>3 DEF PendingInputsExact
  <2>6. PendingResultsExact'
    <3>1. v \in QueuedFor(s) /\ QueuedFor(s)' = QueuedFor(s) \ {v}
      BY <1>2, <1>5 DEF QueuedFor
    <3>2. \A r \in MainTurn : r # s => QueuedFor(r)' = QueuedFor(r)
      BY <1>2, <1>5 DEF QueuedFor
    <3> QED BY <1>5, <3>1, <3>2, QueuedRemoved
  <2>7. DeliveryInv'
    <3>1. \A x \in Work : x # w => results'[x] = results[x]
      BY <1>5 DEF TypeOK
    <3> QED BY <1>0, <1>1, <1>2, <2>1, <3>1 DEF DeliveryInv
  <2> QED BY <1>3, <2>2, <2>4, <2>5, <2>6, <2>7 DEF AccountingInv
<1>6. CASE InlineReserved(w, turns[origin[w]])
  <2>1. turns[origin[w]] # NoTurn
    BY <1>6 DEF InlineReserved
  <2>2. turns[origin[w]] \in MainTurn
    BY <1>0, <1>1, <2>1 DEF WorkInv, DeliveryInv
  <2> QED BY <1>5, <1>6, <2>2 DEF InlineReserved
<1>7. CASE InlineKept(w) BY <1>4, <1>7 DEF InlineKept
<1>8. InlineReserved(w, turns[origin[w]]) \/ InlineKept(w) BY <1>0, InlineOutcome, Zenon
<1> QED BY <1>6, <1>7, <1>8

LEMMA AccountingInject ==
  ASSUME AccountingInv, TypeOK', InjectAccepted
  PROVE  AccountingInv'
<1> USE AccountingParts DEF InjectAccepted
<1>1. delivery.step = "inline" /\ delivery'.step = "idle" /\ delivery.task \in Work
  BY DEF DeliveryInv, IdleDelivery, At, Delivery
<1>2. BindingsInv' /\ FreshScopeInv' /\ RemovalInv' /\ ActiveTurnsExact'
  BY FrameBindings, FrameFreshScope, FrameRemoval, FrameActiveTurns
<1>3. PendingResultsExact' /\ QueuedScopeOpen' /\ CancelledNeverQueued'
  BY FramePendingResults, FrameQueuedScope, FrameCancelled
<1>4. WorkInv'
  BY <1>1 DEF WorkInv, DeliveryInv
<1>5. ReservationInv'
  BY <1>1 DEF ReservationInv
<1>6. DeliveryInv'
  <2>1. deliveries \in Seq(Work)
    BY DEF TypeOK
  <2> QED BY <1>1, <2>1 DEF DeliveryInv
<1>7. PendingInputsExact'
  <2>1. pendingInputs \in [MainTurn -> Nat] /\ delivery.scope \in MainTurn
    BY <1>1 DEF TypeOK, ReservationInv
  <2>2. \A r \in MainTurn : pendingInputs[r] = IF r = delivery.scope THEN 1 ELSE 0
    BY <1>1 DEF PendingInputsExact
  <2>3. \A r \in MainTurn : pendingInputs'[r] = 0
    BY <2>1, <2>2
  <2> QED BY <1>1, <2>3 DEF PendingInputsExact
<1> QED BY <1>2, <1>3, <1>4, <1>5, <1>6, <1>7 DEF AccountingInv

\* Rollback of a reservation: the popped assignment is queued and counted
\* again, or neither when its subagent was cancelled meanwhile.
LEMMA RestoreKeepsQueue ==
  ASSUME AccountingInv, delivery.step \in {"inline", "start"},
         RestoreAssignment(delivery.scope),
         UNCHANGED <<assignmentScope, state, cancelledSubagents>>
  PROVE  /\ PendingResultsExact' /\ QueuedScopeOpen' /\ CancelledNeverQueued'
         /\ assignments' \subseteq assignments \cup {delivery.taken}
         /\ \A w \in Work : results'[w] =
              IF w = delivery.task THEN NoTurn ELSE results[w]
<1> USE AccountingParts
<1>0. PICK s \in MainTurn, v \in Work, w \in Work :
        s = delivery.scope /\ v = delivery.taken /\ w = delivery.task
  BY DEF ReservationInv, DeliveryInv
<1>1. /\ state[s] = "open" /\ v \notin assignments /\ assignmentScope[v] = s
      /\ SubagentOf[v] = SubagentOf[w] /\ v # NoWork
  BY <1>0, ConstantsAssumption DEF ReservationInv
<1>2. \A x \in Work : results'[x] = IF x = w THEN NoTurn ELSE results[x]
  <2>1. results \in [Work -> MainTurn \cup {NoTurn}]
    BY DEF TypeOK
  <2> QED BY <1>0, <1>1, <2>1 DEF RestoreAssignment
<1>3. CASE SubagentOf[w] \in cancelledSubagents
  <2>1. UNCHANGED <<assignments, pendingResults>>
    BY <1>0, <1>1, <1>3 DEF RestoreAssignment
  <2> QED BY <1>0, <1>2, <2>1, FramePendingResults, FrameQueuedScope, FrameCancelled
<1>4. CASE SubagentOf[w] \notin cancelledSubagents
  <2>1. /\ assignments' = assignments \cup {v}
        /\ pendingResults' = [pendingResults EXCEPT ![s] = pendingResults[s] + 1]
    BY <1>0, <1>1, <1>4 DEF RestoreAssignment
  <2>2. v \notin QueuedFor(s) /\ QueuedFor(s)' = QueuedFor(s) \cup {v}
    BY <1>1, <2>1 DEF QueuedFor
  <2>3. \A r \in MainTurn : r # s => QueuedFor(r)' = QueuedFor(r)
    BY <1>1, <2>1 DEF QueuedFor
  <2>4. PendingResultsExact'
    BY <2>1, <2>2, <2>3, QueuedAdded
  <2>5. QueuedScopeOpen' /\ CancelledNeverQueued'
    BY <1>1, <1>4, <2>1 DEF QueuedScopeOpen, CancelledNeverQueued
  <2> QED BY <1>0, <1>2, <2>1, <2>4, <2>5
<1> QED BY <1>3, <1>4

LEMMA AccountingInjectRejected ==
  ASSUME AccountingInv, TypeOK', NEW giveUp \in BOOLEAN, InjectRejected(giveUp)
  PROVE  AccountingInv'
<1> USE AccountingParts
<1>0. PICK s \in MainTurn, w \in Work : s = delivery.scope /\ w = delivery.task
  BY DEF InjectRejected, ReservationInv, DeliveryInv
<1>1. /\ delivery.step = "inline"
      /\ delivery'.step \in {"idle", "reserve"}
      /\ giveUp => delivery'.step = "idle"
      /\ delivery'.step # "idle" => delivery'.task = w
  BY <1>0 DEF InjectRejected, IdleDelivery, At, Delivery
<1>2. UNCHANGED <<state, activeTurns, turns, assignmentScope, cancelledSubagents,
                  phase, active, origin, deliveries>>
  BY DEF InjectRejected
<1>3. /\ pendingInputs' = [pendingInputs EXCEPT ![s] = IF @ > 0 THEN @ - 1 ELSE @]
      /\ work' = [work EXCEPT ![w] = IF giveUp THEN "dropped" ELSE @]
      /\ RestoreAssignment(delivery.scope)
  BY <1>0 DEF InjectRejected
<1>4. /\ PendingResultsExact' /\ QueuedScopeOpen' /\ CancelledNeverQueued'
      /\ assignments' \subseteq assignments \cup {delivery.taken}
      /\ \A x \in Work : results'[x] = IF x = w THEN NoTurn ELSE results[x]
  BY <1>0, <1>1, <1>2, <1>3, RestoreKeepsQueue
<1>5. BindingsInv' /\ FreshScopeInv' /\ RemovalInv' /\ ActiveTurnsExact'
  BY <1>2, FrameBindings, FrameFreshScope, FrameRemoval, FrameActiveTurns
<1>6. work[w] = "published"
  BY <1>0, <1>1 DEF DeliveryInv
<1>7. WorkInv'
  <2>1. /\ assignmentScope[delivery.taken] # NoTurn
        /\ delivery.taken \in Work
    BY <1>1, ConstantsAssumption DEF ReservationInv
  <2>2. \A x \in Work : work'[x] \in {"new", "started"} => work[x] = work'[x]
    BY <1>3, <1>6
  <2>3. \A x \in Work : work'[x] # "new" => work[x] # "new"
    BY <1>3, <1>6
  <2> QED BY <1>2, <1>4, <2>1, <2>2, <2>3 DEF WorkInv
<1>8. DeliveryInv'
  <2>1. deliveries \in Seq(Work)
    BY DEF TypeOK
  <2>2. \A x \in Work : x # w => work'[x] = work[x]
    BY <1>3
  <2>3. ~giveUp => work' = work
    BY <1>3
  <2>4. \A i \in DOMAIN deliveries : deliveries[i] \in Work /\ deliveries[i] # w
    BY <1>0, <1>1, <2>1 DEF DeliveryInv
  <2> QED BY <1>0, <1>1, <1>2, <1>4, <1>6, <2>2, <2>3, <2>4 DEF DeliveryInv
<1>9. ReservationInv'
  BY <1>1 DEF ReservationInv
<1>10. PendingInputsExact'
  <2>1. pendingInputs \in [MainTurn -> Nat]
    BY DEF TypeOK
  <2>2. \A r \in MainTurn : pendingInputs[r] = IF r = s THEN 1 ELSE 0
    BY <1>0, <1>1 DEF PendingInputsExact
  <2>3. \A r \in MainTurn : pendingInputs'[r] = 0
    BY <1>3, <2>1, <2>2
  <2> QED BY <1>1, <2>3 DEF PendingInputsExact
<1> QED BY <1>4, <1>5, <1>7, <1>8, <1>9, <1>10 DEF AccountingInv

LEMMA AccountingContinue ==
  ASSUME AccountingInv, TypeOK', ContinuationAccepted
  PROVE  AccountingInv'
<1> USE AccountingParts
<1>0. PICK w \in Work, c \in Continuation : w = delivery.task /\ c = delivery.turn
  BY DEF ContinuationAccepted, ReservationInv, DeliveryInv
<1>1. /\ delivery.step = "start" /\ delivery'.step = "idle"
      /\ active = NoTurn /\ active' = c
      /\ phase' = [phase EXCEPT ![c] = "running"]
      /\ work' = [work EXCEPT ![w] = "delivered"]
  BY <1>0 DEF ContinuationAccepted, IdleDelivery, At, Delivery
<1>2. UNCHANGED <<state, activeTurns, pendingResults, pendingInputs, turns,
                  assignments, assignmentScope, results, cancelledSubagents,
                  origin, deliveries>>
  BY DEF ContinuationAccepted
<1>3. phase[c] = "starting" /\ work[w] = "published" /\ c \notin MainTurn
  BY <1>0, <1>1, ConstantsAssumption DEF ReservationInv, DeliveryInv
<1>4. BindingsInv' /\ FreshScopeInv'
  BY <1>1, <1>2, <1>3, ConstantsAssumption DEF BindingsInv, FreshScopeInv, Counted
<1>5. RemovalInv'
  BY <1>1, <1>2, <1>3 DEF RemovalInv, Counted
<1>6. WorkInv'
  BY <1>1, <1>2, <1>3 DEF WorkInv
<1>7. DeliveryInv'
  <2>1. deliveries \in Seq(Work)
    BY DEF TypeOK
  <2>2. \A i \in DOMAIN deliveries : deliveries[i] \in Work /\ deliveries[i] # w
    BY <1>0, <1>1, <2>1 DEF DeliveryInv
  <2> QED BY <1>0, <1>1, <1>2, <2>2 DEF DeliveryInv
<1>8. ReservationInv'
  BY <1>1 DEF ReservationInv
<1>9. ActiveTurnsExact'
  <2>1. \A s \in MainTurn : CountedTurns(s)' = CountedTurns(s)
    BY <1>1, <1>2, <1>3 DEF CountedTurns, Counted
  <2> QED BY <1>2, <2>1 DEF ActiveTurnsExact
<1>10. PendingInputsExact'
  BY <1>1, <1>2 DEF PendingInputsExact
<1>11. PendingResultsExact' /\ QueuedScopeOpen' /\ CancelledNeverQueued'
  BY <1>2, FramePendingResults, FrameQueuedScope, FrameCancelled
<1> QED BY <1>4, <1>5, <1>6, <1>7, <1>8, <1>9, <1>10, <1>11 DEF AccountingInv

LEMMA AccountingContinuationRejected ==
  ASSUME AccountingInv, TypeOK', NEW giveUp \in BOOLEAN, ContinuationRejected(giveUp)
  PROVE  AccountingInv'
<1> USE AccountingParts
<1>0. PICK s \in MainTurn, w \in Work, c \in Continuation :
        s = delivery.scope /\ w = delivery.task /\ c = delivery.turn
  BY DEF ContinuationRejected, ReservationInv, DeliveryInv
<1>1. /\ delivery.step = "start"
      /\ delivery'.step \in {"idle", "check"}
      /\ giveUp => delivery'.step = "idle"
      /\ delivery'.step # "idle" => delivery'.task = w
  BY <1>0 DEF ContinuationRejected, IdleDelivery, At, Delivery
<1>2. UNCHANGED <<state, pendingInputs, assignmentScope, cancelledSubagents,
                  active, origin, deliveries>>
  BY DEF ContinuationRejected, UnbindContinuation
<1>3. /\ turns' = [turns EXCEPT ![c] = NoTurn]
      /\ phase' = [phase EXCEPT ![c] = "idle"]
      /\ activeTurns' = [activeTurns EXCEPT ![s] = IF @ > 0 THEN @ - 1 ELSE @]
      /\ work' = [work EXCEPT ![w] = IF giveUp THEN "dropped" ELSE @]
      /\ RestoreAssignment(delivery.scope)
  BY <1>0 DEF ContinuationRejected, UnbindContinuation
<1>4. /\ PendingResultsExact' /\ QueuedScopeOpen' /\ CancelledNeverQueued'
      /\ assignments' \subseteq assignments \cup {delivery.taken}
      /\ \A x \in Work : results'[x] = IF x = w THEN NoTurn ELSE results[x]
  BY <1>0, <1>1, <1>2, <1>3, RestoreKeepsQueue
<1>5. /\ phase[c] = "starting" /\ turns[c] = s /\ state[s] = "open"
      /\ work[w] = "published" /\ c \notin MainTurn
  BY <1>0, <1>1, ConstantsAssumption DEF ReservationInv, DeliveryInv
<1>6. BindingsInv' /\ FreshScopeInv'
  BY <1>2, <1>3, <1>5, ConstantsAssumption DEF BindingsInv, FreshScopeInv, Counted
<1>7. RemovalInv'
  BY <1>2, <1>3, <1>5, ConstantsAssumption DEF RemovalInv, BindingsInv, Counted
<1>8. WorkInv'
  <2>1. /\ assignmentScope[delivery.taken] # NoTurn
        /\ delivery.taken \in Work
    BY <1>1, ConstantsAssumption DEF ReservationInv
  <2>2. \A x \in Work : work'[x] \in {"new", "started"} => work[x] = work'[x]
    BY <1>3, <1>5
  <2>3. \A x \in Work : work'[x] # "new" => work[x] # "new"
    BY <1>3, <1>5
  <2>4. \A x \in Work : origin[x] # NoTurn =>
          origin[x] # c /\ phase'[origin[x]] = phase[origin[x]]
    BY <1>3, <1>5 DEF WorkInv
  <2> QED BY <1>2, <1>4, <2>1, <2>2, <2>3, <2>4 DEF WorkInv
<1>9. DeliveryInv'
  <2>1. deliveries \in Seq(Work)
    BY DEF TypeOK
  <2>2. \A x \in Work : x # w => work'[x] = work[x]
    BY <1>3
  <2>3. ~giveUp => work' = work
    BY <1>3
  <2>4. \A i \in DOMAIN deliveries : deliveries[i] \in Work /\ deliveries[i] # w
    BY <1>0, <1>1, <2>1 DEF DeliveryInv
  <2> QED BY <1>0, <1>1, <1>2, <1>4, <1>5, <2>2, <2>3, <2>4 DEF DeliveryInv
<1>10. ReservationInv'
  BY <1>1 DEF ReservationInv
<1>11. PendingInputsExact'
  BY <1>1, <1>2 DEF PendingInputsExact
<1>12. ActiveTurnsExact'
  <2>1. c \in CountedTurns(s)
    BY <1>5 DEF CountedTurns, Counted
  <2>2. activeTurns[s] \in Nat /\ activeTurns[s] > 0
    BY <2>1, CountedPositive
  <2>3. CountedTurns(s)' = CountedTurns(s) \ {c}
    BY <1>3, <1>5, ConstantsAssumption DEF CountedTurns, Counted
  <2>4. \A r \in MainTurn : r # s => CountedTurns(r)' = CountedTurns(r)
    BY <1>3, <1>5, ConstantsAssumption DEF CountedTurns, Counted
  <2>5. activeTurns \in [MainTurn -> Nat]
    BY DEF TypeOK
  <2>6. \A r \in MainTurn : activeTurns'[r] = IF r = s THEN activeTurns[s] - 1
                                                        ELSE activeTurns[r]
    BY <1>3, <2>2, <2>5
  <2>7. IsFiniteSet(CountedTurns(s))
    BY CountedFinite
  <2>8. Cardinality(CountedTurns(s) \ {c}) = Cardinality(CountedTurns(s)) - 1
    BY <2>1, <2>7, FS_RemoveElement
  <2> QED BY <2>3, <2>4, <2>6, <2>8 DEF ActiveTurnsExact
<1> QED BY <1>4, <1>6, <1>7, <1>8, <1>9, <1>10, <1>11, <1>12 DEF AccountingInv

\* A continuation is reserved.  The result has no tombstone yet, and the popped
\* assignment's scope is open and counts it, so neither the rejoin nor the
\* error branch of ReserveResultTurn is ever taken.
LEMMA AccountingReserve ==
  ASSUME AccountingInv, TypeOK', NEW c \in Continuation, ReserveResultTurn(c)
  PROVE  AccountingInv'
<1> USE AccountingParts
<1>0. PICK w \in Work : w = delivery.task
  BY DEF ReserveResultTurn, DeliveryInv
<1>1. /\ delivery.step = "reserve" /\ phase[c] = "idle" /\ turns[c] = NoTurn
      /\ work[w] = "published" /\ results[w] = NoTurn /\ c \notin MainTurn
  BY <1>0, ConstantsAssumption DEF ReserveResultTurn, DeliveryInv
<1>2. UNCHANGED <<state, pendingInputs, assignmentScope, cancelledSubagents,
                  active, origin, deliveries>>
  BY DEF ReserveResultTurn
<1>3. CASE Queue(SubagentOf[w]) = {}
  <2>1. /\ delivery'.step = "idle"
        /\ work' = [work EXCEPT ![w] = "dropped"]
        /\ UNCHANGED <<assignments, activeTurns, pendingResults, turns, results,
                       phase>>
    BY <1>0, <1>1, <1>3 DEF ReserveResultTurn, IdleDelivery, At, Delivery
  <2>2. BindingsInv' /\ FreshScopeInv' /\ RemovalInv' /\ ActiveTurnsExact'
    BY <1>2, <2>1, FrameBindings, FrameFreshScope, FrameRemoval, FrameActiveTurns
  <2>3. PendingResultsExact' /\ QueuedScopeOpen' /\ CancelledNeverQueued'
    BY <1>2, <2>1, FramePendingResults, FrameQueuedScope, FrameCancelled
  <2>4. WorkInv'
    BY <1>1, <1>2, <2>1 DEF WorkInv
  <2>5. DeliveryInv'
    <3>1. deliveries \in Seq(Work)
      BY DEF TypeOK
    <3>2. \A i \in DOMAIN deliveries : deliveries[i] \in Work /\ deliveries[i] # w
      BY <1>0, <1>1, <3>1 DEF DeliveryInv
    <3> QED BY <1>0, <1>1, <1>2, <2>1, <3>2 DEF DeliveryInv
  <2>6. ReservationInv' /\ PendingInputsExact'
    BY <1>1, <1>2, <2>1 DEF ReservationInv, PendingInputsExact
  <2> QED BY <2>2, <2>3, <2>4, <2>5, <2>6 DEF AccountingInv
<1>4. CASE Queue(SubagentOf[w]) # {}
  <2>1. PICK v \in Queue(SubagentOf[w]), s \in MainTurn :
          /\ s = assignmentScope[v]
          /\ assignments' = assignments \ {v}
          /\ IF state[s] = "open" /\ pendingResults[s] > 0
             THEN /\ pendingResults' = [pendingResults EXCEPT ![s] = @ - 1]
                  /\ results' = [results EXCEPT ![w] = s]
                  /\ activeTurns' = [activeTurns EXCEPT ![s] = @ + 1]
                  /\ turns' = [turns EXCEPT ![c] = s]
                  /\ phase' = [phase EXCEPT ![c] = "starting"]
                  /\ delivery' = Delivery("start", w, v, c, s)
             ELSE TRUE
          /\ work' = work
    <3>1. \A v \in Queue(SubagentOf[w]) : assignmentScope[v] \in MainTurn
      BY DEF Queue, WorkInv
    <3> QED BY <1>0, <1>1, <1>4, <3>1 DEF ReserveResultTurn
  <2>2. /\ v \in assignments /\ v \in Work /\ SubagentOf[v] = SubagentOf[w]
        /\ state[s] = "open" /\ v \in QueuedFor(s)
    BY <2>1 DEF Queue, QueuedFor, QueuedScopeOpen
  <2>3. pendingResults[s] \in Nat /\ pendingResults[s] # 0
    BY <2>2, QueuedPositive
  <2>4. /\ pendingResults' = [pendingResults EXCEPT ![s] = @ - 1]
        /\ results' = [results EXCEPT ![w] = s]
        /\ activeTurns' = [activeTurns EXCEPT ![s] = @ + 1]
        /\ turns' = [turns EXCEPT ![c] = s]
        /\ phase' = [phase EXCEPT ![c] = "starting"]
        /\ delivery' = Delivery("start", w, v, c, s)
    BY <2>1, <2>2, <2>3
  <2>5. /\ delivery'.step = "start" /\ delivery'.task = w /\ delivery'.taken = v
        /\ delivery'.turn = c /\ delivery'.scope = s
    BY <2>4 DEF Delivery
  <2>6. phase[s] \notin {"idle", "starting"}
    BY <2>1, <2>2 DEF FreshScopeInv
  <2>7. \A u \in Turn : phase[u] \in {"preEnding", "removing"} => turns[u] # s
    BY <2>2 DEF RemovalInv
  <2>8. BindingsInv'
    BY <1>1, <1>2, <2>2, <2>4, ConstantsAssumption DEF BindingsInv, Counted
  <2>9. FreshScopeInv'
    BY <1>1, <1>2, <2>4, <2>6 DEF FreshScopeInv
  <2>10. RemovalInv'
    BY <1>1, <1>2, <2>4, <2>7 DEF RemovalInv, Counted
  <2>11. WorkInv'
    BY <1>1, <1>2, <2>1, <2>4 DEF WorkInv
  <2>12. DeliveryInv'
    <3>1. \A x \in Work : x # w => results'[x] = results[x]
      BY <2>4 DEF TypeOK
    <3> QED BY <1>0, <1>1, <1>2, <2>1, <2>5, <3>1 DEF DeliveryInv
  <2>13. ReservationInv'
    BY <1>2, <2>1, <2>2, <2>4, <2>5 DEF ReservationInv
  <2>14. ActiveTurnsExact'
    <3>1. /\ CountedTurns(s)' = CountedTurns(s) \cup {c}
          /\ c \notin CountedTurns(s)
      BY <1>1, <2>4, ConstantsAssumption DEF CountedTurns, Counted
    <3>2. \A r \in MainTurn : r # s => CountedTurns(r)' = CountedTurns(r)
      BY <1>1, <2>4, ConstantsAssumption DEF CountedTurns, Counted
    <3>3. activeTurns \in [MainTurn -> Nat]
      BY DEF TypeOK
    <3>4. \A r \in MainTurn : activeTurns'[r] = IF r = s THEN activeTurns[s] + 1
                                                          ELSE activeTurns[r]
      BY <2>4, <3>3
    <3>5. IsFiniteSet(CountedTurns(s))
      BY CountedFinite
    <3>6. Cardinality(CountedTurns(s) \cup {c}) = Cardinality(CountedTurns(s)) + 1
      BY <3>1, <3>5, FS_AddElement
    <3> QED BY <3>1, <3>2, <3>4, <3>6 DEF ActiveTurnsExact
  <2>15. PendingResultsExact'
    <3>1. QueuedFor(s)' = QueuedFor(s) \ {v}
      BY <1>2, <2>1 DEF QueuedFor
    <3>2. \A r \in MainTurn : r # s => QueuedFor(r)' = QueuedFor(r)
      BY <1>2, <2>1 DEF QueuedFor
    <3> QED BY <2>2, <2>4, <3>1, <3>2, QueuedRemoved
  <2>16. PendingInputsExact'
    BY <1>1, <1>2, <2>5 DEF PendingInputsExact
  <2>17. QueuedScopeOpen' /\ CancelledNeverQueued'
    BY <1>2, <2>1 DEF QueuedScopeOpen, CancelledNeverQueued
  <2> QED
    BY <2>8, <2>9, <2>10, <2>11, <2>12, <2>13, <2>14, <2>15, <2>16, <2>17
       DEF AccountingInv
<1> QED BY <1>3, <1>4

\* Workers of end tools only move the scope to "ending", and QuietScope says
\* that nothing is owed to it then.
LEMMA AccountingBeginEndTool ==
  ASSUME AccountingInv, TypeOK', LateCaller = {},
         NEW t \in Turn, NEW k \in EndTool, NEW b \in BOOLEAN,
         BeginEndTool(t, k, b)
  PROVE  AccountingInv'
<1> USE AccountingParts
<1>0. PICK s \in MainTurn : s = turns[t]
  BY DEF BeginEndTool
<1>1. /\ t \in CountedTurns(s) /\ phase[t] # "starting"
      /\ activeTurns[s] = 1 /\ pendingResults[s] = 0 /\ pendingInputs[s] = 0
      /\ state' = [state EXCEPT ![s] = "ending"]
  BY <1>0 DEF BeginEndTool, MayCall, ReadyToExecute, Quiet, CountedTurns
<1>2. QueuedFor(s) = {} /\ ~OpenReservation(s)
  BY <1>1, QuietScope
<1>3. UNCHANGED <<activeTurns, pendingResults, pendingInputs, turns, assignments,
                  assignmentScope, results, cancelledSubagents, phase, active,
                  work, origin, deliveries, delivery>>
  BY DEF BeginEndTool
<1>4. FreshScopeInv' /\ WorkInv' /\ DeliveryInv' /\ ActiveTurnsExact'
  BY <1>3, FrameFreshScope, FrameWork, FrameDelivery, FrameActiveTurns
<1>5. PendingResultsExact' /\ PendingInputsExact' /\ CancelledNeverQueued'
  BY <1>3, FramePendingResults, FramePendingInputs, FrameCancelled
<1>6. BindingsInv' /\ RemovalInv'
  BY <1>1, <1>3 DEF BindingsInv, RemovalInv
<1>7. ReservationInv'
  BY <1>1, <1>2, <1>3 DEF ReservationInv, OpenReservation
<1>8. QueuedScopeOpen'
  BY <1>1, <1>2, <1>3 DEF QueuedScopeOpen, QueuedFor
<1> QED BY <1>4, <1>5, <1>6, <1>7, <1>8 DEF AccountingInv

LEMMA AccountingFrame ==
  ASSUME AccountingInv, TypeOK',
         UNCHANGED <<state, counters, bindings, queueVars, results,
                     cancelledSubagents, runVars, taskVars, delivery>>
  PROVE  AccountingInv'
  BY AccountingParts, FrameBindings, FrameFreshScope, FrameRemoval, FrameWork,
     FrameDelivery, FrameReservation, FrameActiveTurns, FramePendingResults,
     FramePendingInputs, FrameQueuedScope, FrameCancelled
     DEF AccountingInv

LEMMA AccountingNext ==
  ASSUME LateCaller = {}, AccountingInv, [Next]_vars
  PROVE  AccountingInv'
<1>1. TypeOK'
  BY AccountingTypes, TypeInvNext DEF TypeInv
<1>2. CASE UNCHANGED vars
  BY <1>1, <1>2, AccountingFrame DEF vars
<1>3. ASSUME NEW t \in MainTurn,
             \/ BeginMainAgentTurn(t) \/ AcceptMainAgentTurn(t)
             \/ RollbackMainAgentTurn(t)
      PROVE  AccountingInv'
  BY <1>1, <1>3, AccountingBegin, AccountingAccept, AccountingRollback
<1>4. ASSUME NEW t \in Turn, RunEnds(t) \/ FinishStep(t)
      PROVE  AccountingInv'
  BY <1>1, <1>4, AccountingRunEnds, AccountingFinishTurn, AccountingPreEnd,
     AccountingRemoveScope DEF FinishStep
<1>5. ASSUME NEW w \in Work,
             \/ \E t \in Turn : StartWork(w, t)
             \/ RegisterAssignmentMetadata(w) \/ KeepRegistration(w)
             \/ RollbackRegistration(w) \/ WorkEnds(w)
      PROVE  AccountingInv'
  BY <1>1, <1>5, AccountingStartWork, AccountingRegister, AccountingKeep,
     AccountingRollbackRegistration, AccountingWorkEnds
<1>6. ASSUME NEW a \in Subagent, CloseRecord(a) \/ CancelSubagentAssignments(a)
      PROVE  AccountingInv'
  BY <1>1, <1>6, AccountingClose, AccountingCancel
<1>7. CASE DeliveryStepTaken
  BY <1>1, <1>7, AccountingTake, AccountingCheck, AccountingReserveInline,
     AccountingInject, AccountingInjectRejected, AccountingContinue,
     AccountingContinuationRejected, AccountingReserve DEF DeliveryStepTaken
<1>8. ASSUME NEW t \in Turn, NEW k \in EndTool, NEW b \in BOOLEAN,
             BeginEndTool(t, k, b)
      PROVE  AccountingInv'
  BY <1>1, <1>8, AccountingBeginEndTool
<1>9. CASE EndToolStep
  <2>1. UNCHANGED <<state, counters, bindings, queueVars, results,
                    cancelledSubagents, runVars, taskVars, delivery>>
    BY <1>9 DEF EndToolStep, EndToolPreEnd, EndToolReturns
  <2> QED BY <1>1, <2>1, AccountingFrame
<1> QED
  BY <1>2, <1>3, <1>4, <1>5, <1>6, <1>7, <1>8, <1>9 DEF Next

\* As long as no EndResponseScope call begins after its turn was finished, the
\* counters of every scope are exact, whatever interleaving of turns, failed
\* admissions, registrations, closes and deliveries produced them.
THEOREM AccountingCorrect ==
  ASSUME LateCaller = {}
  PROVE  Spec => []AccountingInv
<1>1. Init => AccountingInv
  BY AccountingInit
<1>2. AccountingInv /\ [Next]_vars => AccountingInv'
  BY AccountingNext
<1> QED BY <1>1, <1>2, PTL DEF Spec

\* A scope that is ending is owed no result and gets none.
THEOREM EndingIsQuiescent ==
  ASSUME LateCaller = {}
  PROVE  Spec => []EndingQuiescent
<1>1. AccountingInv => EndingQuiescent
  <2> SUFFICES ASSUME AccountingInv, NEW s \in MainTurn, state[s] = "ending"
               PROVE  /\ pendingResults[s] = 0 /\ pendingInputs[s] = 0
                      /\ ~OpenReservation(s)
    BY DEF EndingQuiescent
  <2>1. ~OpenReservation(s)
    BY AccountingParts DEF ReservationInv, OpenReservation
  <2>2. QueuedFor(s) = {}
    BY AccountingParts DEF QueuedScopeOpen, QueuedFor
  <2>3. pendingResults[s] = 0
    BY <2>2, AccountingParts, QueuedPositive
  <2>4. pendingInputs[s] = 0
    BY <2>1, AccountingParts DEF PendingInputsExact, OpenReservation
  <2> QED BY <2>1, <2>3, <2>4
<1> QED BY <1>1, AccountingCorrect, PTL

\* The counter of active turns, the barrier of pending results and the queue
\* agree with what the callers did.
THEOREM CountersExact ==
  ASSUME LateCaller = {}
  PROVE  Spec => [](/\ ActiveTurnsExact /\ PendingResultsExact
                    /\ QueuedScopeOpen /\ CancelledNeverQueued)
<1>1. AccountingInv => /\ ActiveTurnsExact /\ PendingResultsExact
                       /\ QueuedScopeOpen /\ CancelledNeverQueued
  BY DEF AccountingInv
<1> QED BY <1>1, AccountingCorrect, PTL
-----------------------------------------------------------------------------
(* The scope's events. *)

\* Scope s has published an event of this type; a call of an end tool, or a turn
\* that is being finished, has still to publish its PreEndScope.
Published(s, type) == \E i \in DOMAIN events[s] : events[s][i] = type
ToPublish(e, s) == e.scope = s /\ e.step = "preEnd"
Finishing(t, s) == turns[t] = s /\ phase[t] = "preEnding"

\* What one scope has published and who has still to publish for it.
ScopeEvents(s) ==
  /\ phase[s] \in {"idle", "starting"} \/ state[s] = "open" =>
       /\ events[s] = <<>>
       /\ \A e \in endCalls : ~ToPublish(e, s)
  /\ phase[s] = "starting" => state[s] = "open"
  /\ state[s] # "none" => ~Published(s, "EndScope")
  /\ Published(s, "PreEndScope") =>
       /\ \A e \in endCalls : ~ToPublish(e, s)
       /\ \A t \in Turn : ~Finishing(t, s)
  /\ \A e, f \in endCalls : ToPublish(e, s) /\ ToPublish(f, s) => e = f
  /\ \A e \in endCalls, t \in Turn : ~(ToPublish(e, s) /\ Finishing(t, s))
  /\ \A i, j \in DOMAIN events[s] : events[s][i] = events[s][j] => i = j

\* The invariant behind EventsOnce: whoever finds a scope open is the only one
\* that publishes its PreEndScope, and a scope that has ended never opens again.
EventsInv == \A s \in MainTurn : ScopeEvents(s)

\* A step that publishes nothing, starts no end tool and no ending of a turn,
\* and reopens no scope.
LEMMA EventsFrame ==
  ASSUME EventsInv, UNCHANGED <<events, endCalls>>,
         \A s \in MainTurn :
           /\ state'[s] = "open" => state[s] = "open"
           /\ state[s] = "none" => state'[s] = "none"
           /\ phase'[s] \in {"idle", "starting"} => phase[s] \in {"idle", "starting"}
           /\ phase'[s] = "starting" => phase[s] = "starting" /\ state'[s] = state[s]
           /\ \A t \in Turn : Finishing(t, s)' => Finishing(t, s)
  PROVE  EventsInv'
  BY DEF EventsInv, ScopeEvents, Published, ToPublish

\* A new event of a scope differs from the ones before it.
LEMMA EventAdded ==
  ASSUME NEW q \in Seq({"PreEndScope", "EndScope"}), NEW x \in {"PreEndScope", "EndScope"},
         \A i \in DOMAIN q : q[i] # x,
         \A i, j \in DOMAIN q : q[i] = q[j] => i = j
  PROVE  /\ \A i, j \in DOMAIN Append(q, x) : Append(q, x)[i] = Append(q, x)[j] => i = j
         /\ \A y : (\E i \in DOMAIN Append(q, x) : Append(q, x)[i] = y)
                   => y = x \/ \E i \in DOMAIN q : q[i] = y
<1>1. /\ DOMAIN q = 1..Len(q) /\ DOMAIN Append(q, x) = 1..(Len(q) + 1) /\ Len(q) \in Nat
      /\ Append(q, x)[Len(q) + 1] = x
      /\ \A i \in 1..Len(q) : Append(q, x)[i] = q[i]
  OBVIOUS
<1> QED BY <1>1

\* Turns, up to the decision of FinishTurn.
LEMMA EventsTurnSteps ==
  ASSUME AccountingInv, EventsInv, NEW t \in Turn,
         \/ t \in MainTurn /\ (BeginMainAgentTurn(t) \/ AcceptMainAgentTurn(t) \/ RollbackMainAgentTurn(t))
         \/ RunEnds(t) \/ FinishTurn(t)
  PROVE  EventsInv'
<1> USE AccountingParts
<1>1. CASE t \in MainTurn /\ BeginMainAgentTurn(t)
  <2>1. /\ phase[t] = "idle" /\ UNCHANGED <<events, endCalls>>
        /\ state' = [state EXCEPT ![t] = "open"]
        /\ phase' = [phase EXCEPT ![t] = "starting"]
        /\ turns' = [turns EXCEPT ![t] = t]
    BY <1>1 DEF BeginMainAgentTurn
  <2>2. \A s \in MainTurn, u \in Turn : Finishing(u, s)' => Finishing(u, s)
    BY <2>1 DEF Finishing, TypeOK
  <2>3. ASSUME NEW s \in MainTurn PROVE ScopeEvents(s)'
    <3>1. ScopeEvents(s) BY DEF EventsInv
    <3>2. CASE s = t
      <4>1. state'[s] = "open" /\ phase'[s] = "starting" BY <1>1, <2>1, <3>2 DEF TypeOK
      <4> QED BY <2>1, <2>2, <3>1, <3>2, <4>1 DEF ScopeEvents, Published, ToPublish
    <3>3. CASE s # t
      <4>1. state'[s] = state[s] /\ phase'[s] = phase[s] BY <2>1, <3>3 DEF TypeOK, Turn
      <4> QED BY <2>1, <2>2, <3>1, <4>1 DEF ScopeEvents, Published, ToPublish
    <3> QED BY <3>2, <3>3
  <2> QED BY <2>3 DEF EventsInv
<1>2. CASE t \in MainTurn /\ AcceptMainAgentTurn(t)
  <2>1. /\ UNCHANGED <<events, endCalls, state, turns>>
        /\ phase' = [phase EXCEPT ![t] = "running"]
    BY <1>2 DEF AcceptMainAgentTurn
  <2> QED BY <2>1, EventsFrame DEF TypeOK, Finishing, Turn
<1>3. CASE t \in MainTurn /\ RollbackMainAgentTurn(t)
  <2>1. turns[t] = t BY <1>3 DEF RollbackMainAgentTurn, BindingsInv
  <2>2. /\ phase[t] = "starting" /\ UNCHANGED <<events, endCalls>>
        /\ state' = [state EXCEPT ![t] = "none"]
        /\ phase' = [phase EXCEPT ![t] = "idle"]
        /\ turns' = [turns EXCEPT ![t] = NoTurn]
    BY <1>3, <2>1 DEF RollbackMainAgentTurn
  <2> QED BY <1>3, <2>2, EventsFrame DEF TypeOK, Finishing, Turn
<1>4. CASE RunEnds(t)
  <2>1. phase[t] = "running" BY <1>4, ConstantsAssumption DEF RunEnds, BindingsInv
  <2>2. /\ UNCHANGED <<events, endCalls, state, turns>>
        /\ phase' = [phase EXCEPT ![t] = "over"]
    BY <1>4 DEF RunEnds
  <2> QED BY <2>1, <2>2, EventsFrame DEF TypeOK, Finishing, Turn
<1>5. CASE FinishTurn(t)
  <2>1. PICK s \in MainTurn : s = turns[t]
    BY <1>5 DEF FinishTurn, BindingsInv, TypeOK, Counted
  <2>2. phase[t] = "over" /\ UNCHANGED <<events, endCalls, turns>>
    BY <1>5 DEF FinishTurn
  <2>3. CASE activeTurns[s] = 0 \/ ~Quiet(s)
    <3>1. state' = state /\ phase' = [phase EXCEPT ![t] = "finished"]
      BY <1>5, <2>1, <2>3 DEF FinishTurn, TypeOK
    <3> QED BY <2>2, <3>1, EventsFrame DEF TypeOK, Finishing
  <2>4. CASE activeTurns[s] # 0 /\ Quiet(s)
    <3>1. /\ state' = [state EXCEPT ![s] = "ending"]
          /\ phase' = [phase EXCEPT ![t] = IF FirstToEnd(s) THEN "preEnding" ELSE "removing"]
      BY <1>5, <2>1, <2>4, ConstantsAssumption DEF FinishTurn
    <3>2. state[s] # "none" BY <2>1, ConstantsAssumption DEF BindingsInv
    <3>3. CASE FirstToEnd(s)
      <4>1. /\ state[s] = "open" /\ state'[s] = "ending" /\ turns[t] = s
            /\ phase' = [phase EXCEPT ![t] = "preEnding"]
        BY <2>1, <3>1, <3>3 DEF FirstToEnd, TypeOK
      <4>2. phase[s] \notin {"idle", "starting"} BY <2>1, <2>2 DEF FreshScopeInv
      <4>3. phase'[s] \notin {"idle", "starting"} BY <2>2, <4>1, <4>2 DEF TypeOK, Turn
      <4>4. ScopeEvents(s)'
        BY <2>2, <4>1, <4>3 DEF EventsInv, ScopeEvents, Published, ToPublish
      <4>5. ASSUME NEW r \in MainTurn, r # s PROVE ScopeEvents(r)'
        <5>1. ScopeEvents(r) /\ state'[r] = state[r] BY <3>1, <4>5 DEF EventsInv, TypeOK
        <5>2. \A u \in Turn : Finishing(u, r)' => Finishing(u, r)
          BY <2>2, <4>1, <4>5 DEF Finishing, TypeOK
        <5>3. phase'[r] \in {"idle", "starting"} => phase'[r] = phase[r]
          BY <2>2, <4>1 DEF TypeOK, Turn
        <5> QED BY <2>2, <5>1, <5>2, <5>3 DEF ScopeEvents, Published, ToPublish
      <4> QED BY <4>4, <4>5 DEF EventsInv
    <3>4. CASE ~FirstToEnd(s)
      BY <2>1, <2>2, <3>1, <3>2, <3>4, EventsFrame DEF TypeOK, Finishing, FirstToEnd
    <3> QED BY <3>3, <3>4
  <2> QED BY <2>3, <2>4
<1> QED BY <1>1, <1>2, <1>3, <1>4, <1>5

\* FinishTurn publishes: PreEndScope if it found the scope open, then EndScope.
LEMMA EventsFinishSteps ==
  ASSUME AccountingInv, EventsInv, NEW t \in Turn, FinishTurnPreEnd(t) \/ FinishTurnRemoveScope(t)
  PROVE  EventsInv'
<1> USE AccountingParts
<1>1. PICK s \in MainTurn : s = turns[t]
  BY DEF FinishTurnPreEnd, FinishTurnRemoveScope, BindingsInv, TypeOK
<1>2. /\ state[s] = "ending" /\ phase[t] \in {"preEnding", "removing"}
      /\ \A u \in Turn : turns[u] = s /\ u # t => phase[u] # "preEnding"
  BY <1>1 DEF FinishTurnPreEnd, FinishTurnRemoveScope, RemovalInv
<1>3. phase[s] \notin {"idle", "starting"}
  BY <1>1, <1>2 DEF FreshScopeInv
<1>4. ScopeEvents(s) /\ events[s] \in Seq({"PreEndScope", "EndScope"})
  BY DEF EventsInv, TypeOK
<1>5. CASE FinishTurnPreEnd(t)
  <2>1. /\ events' = [events EXCEPT ![s] = Append(@, "PreEndScope")]
        /\ phase' = [phase EXCEPT ![t] = "removing"]
        /\ UNCHANGED <<state, turns, endCalls>> /\ phase[t] = "preEnding"
    BY <1>1, <1>5 DEF FinishTurnPreEnd
  <2>2. \A i \in DOMAIN events[s] : events[s][i] # "PreEndScope"
    BY <1>1, <1>4, <2>1 DEF ScopeEvents, Published, Finishing
  <2>3. /\ \A i, j \in DOMAIN events'[s] : events'[s][i] = events'[s][j] => i = j
        /\ Published(s, "EndScope")' => Published(s, "EndScope")
    <3>1. events'[s] = Append(events[s], "PreEndScope") BY <2>1 DEF TypeOK
    <3>2. \A i, j \in DOMAIN events[s] : events[s][i] = events[s][j] => i = j
      BY <1>4 DEF ScopeEvents
    <3> QED BY <1>4, <2>2, <3>1, <3>2, EventAdded DEF Published
  <2>4. ScopeEvents(s)'
    <3>1. phase'[s] \notin {"idle", "starting"} /\ state'[s] = "ending"
      BY <1>2, <1>3, <2>1 DEF TypeOK
    <3>2. \A e \in endCalls : ~ToPublish(e, s)
      BY <1>1, <1>4, <2>1 DEF ScopeEvents, Finishing
    <3>3. \A u \in Turn : ~Finishing(u, s)'
      BY <1>2, <2>1 DEF Finishing, TypeOK
    <3> QED BY <1>2, <1>4, <2>1, <2>3, <3>1, <3>2, <3>3 DEF ScopeEvents, ToPublish
  <2>5. ASSUME NEW r \in MainTurn, r # s PROVE ScopeEvents(r)'
    <3>1. events'[r] = events[r] /\ ScopeEvents(r) BY <2>1, <2>5 DEF TypeOK, EventsInv
    <3>2. \A u \in Turn : Finishing(u, r)' => Finishing(u, r) BY <2>1 DEF Finishing, TypeOK
    <3>3. phase'[r] \in {"idle", "starting"} => phase'[r] = phase[r] BY <2>1 DEF TypeOK
    <3> QED BY <2>1, <3>1, <3>2, <3>3 DEF ScopeEvents, Published, ToPublish
  <2> QED BY <2>4, <2>5 DEF EventsInv
<1>6. CASE FinishTurnRemoveScope(t)
  <2>1. /\ events' = [events EXCEPT ![s] = Append(@, "EndScope")]
        /\ phase' = [phase EXCEPT ![t] = "finished"]
        /\ state' = [state EXCEPT ![s] = "none"]
        /\ turns' = [u \in Turn |-> IF turns[u] = s THEN NoTurn ELSE turns[u]]
        /\ UNCHANGED endCalls /\ phase[t] = "removing"
    BY <1>1, <1>6 DEF FinishTurnRemoveScope
  <2>2. \A i \in DOMAIN events[s] : events[s][i] # "EndScope"
    BY <1>2, <1>4 DEF ScopeEvents, Published
  <2>3. /\ \A i, j \in DOMAIN events'[s] : events'[s][i] = events'[s][j] => i = j
        /\ Published(s, "PreEndScope")' => Published(s, "PreEndScope")
    <3>1. events'[s] = Append(events[s], "EndScope") BY <2>1 DEF TypeOK
    <3>2. \A i, j \in DOMAIN events[s] : events[s][i] = events[s][j] => i = j
      BY <1>4 DEF ScopeEvents
    <3> QED BY <1>4, <2>2, <3>1, <3>2, EventAdded DEF Published
  <2>4. ScopeEvents(s)'
    <3>1. phase'[s] \notin {"idle", "starting"} /\ state'[s] = "none"
      BY <1>2, <1>3, <2>1 DEF TypeOK
    <3>2. \A u \in Turn : ~Finishing(u, s)'
      BY <2>1, ConstantsAssumption DEF Finishing
    <3> QED BY <1>4, <2>1, <2>3, <3>1, <3>2 DEF ScopeEvents, ToPublish
  <2>5. ASSUME NEW r \in MainTurn, r # s PROVE ScopeEvents(r)'
    <3>1. events'[r] = events[r] /\ state'[r] = state[r] /\ ScopeEvents(r)
      BY <2>1, <2>5 DEF TypeOK, EventsInv
    <3>2. \A u \in Turn : Finishing(u, r)' => Finishing(u, r)
      BY <2>1, ConstantsAssumption DEF Finishing, TypeOK
    <3>3. phase'[r] \in {"idle", "starting"} => phase'[r] = phase[r] BY <2>1 DEF TypeOK
    <3> QED BY <2>1, <3>1, <3>2, <3>3, ZenonT(40) DEF ScopeEvents, Published, ToPublish
  <2> QED BY <2>4, <2>5 DEF EventsInv
<1> QED BY <1>5, <1>6

\* Continuations are bound and unbound; only they change their phase.
LEMMA EventsDeliverySteps ==
  ASSUME AccountingInv, EventsInv, DeliveryStepTaken
  PROVE  EventsInv'
<1> USE AccountingParts, ConstantsAssumption
<1>1. UNCHANGED <<state, events, endCalls>>
  BY DEF DeliveryStepTaken, TakeDelivery, CheckActiveTurn, ReserveInlineResult, InjectAccepted,
     InjectRejected, ContinuationRejected, ReserveResultTurn, ContinuationAccepted
<1> DEFINE Only(c) == /\ phase'[c] # "preEnding"
                      /\ \A u \in Turn \ {c} : phase'[u] = phase[u] /\ turns'[u] = turns[u]
<1>2. UNCHANGED <<phase, turns>> \/ \E c \in Continuation : Only(c)
  <2> HIDE AccountingParts
  <2>t. phase \in [Turn -> TurnPhase] /\ turns \in [Turn -> MainTurn \cup {NoTurn}]
    BY AccountingParts, SMTT(30) DEF TypeOK
  <2>r. ReservationInv BY AccountingParts
  <2>1. CASE TakeDelivery \/ CheckActiveTurn \/ ReserveInlineResult \/ InjectAccepted
    BY <2>1 DEF TakeDelivery, CheckActiveTurn, ReserveInlineResult, InjectAccepted
  <2>2. ASSUME NEW giveUp \in BOOLEAN, InjectRejected(giveUp) PROVE UNCHANGED <<phase, turns>>
    BY <2>2 DEF InjectRejected
  <2>3. ASSUME NEW giveUp \in BOOLEAN, ContinuationRejected(giveUp)
        PROVE  /\ delivery.turn \in Continuation
               /\ phase' = [phase EXCEPT ![delivery.turn] = "idle"]
               /\ turns' = [turns EXCEPT ![delivery.turn] = NoTurn]
    BY <2>3, <2>r DEF ContinuationRejected, UnbindContinuation, ReservationInv
  <2>4. ASSUME NEW c \in Continuation, ReserveResultTurn(c)
        PROVE  \/ UNCHANGED <<phase, turns>>
               \/ \E s : turns' = [turns EXCEPT ![c] = s]
                         /\ phase' = [phase EXCEPT ![c] = "starting"]
    <3>1. CASE results[delivery.task] # NoTurn
      BY <2>4, <3>1 DEF ReserveResultTurn
    <3>2. CASE results[delivery.task] = NoTurn /\ Queue(SubagentOf[delivery.task]) = {}
      BY <2>4, <3>2 DEF ReserveResultTurn
    <3>3. CASE results[delivery.task] = NoTurn /\ Queue(SubagentOf[delivery.task]) # {}
      BY <2>4, <3>3 DEF ReserveResultTurn
    <3> QED BY <3>1, <3>2, <3>3
  <2>5. CASE ContinuationAccepted
    <3>1. /\ delivery.turn \in Continuation
          /\ phase' = [phase EXCEPT ![delivery.turn] = "running"] /\ UNCHANGED turns
      BY <2>5, <2>r DEF ContinuationAccepted, ReservationInv
    <3> QED BY <2>t, <3>1 DEF Turn
  <2>6. ASSUME NEW giveUp \in BOOLEAN, ContinuationRejected(giveUp)
        PROVE  \E c \in Continuation : Only(c)
    <3>1. Only(delivery.turn) BY <2>3, <2>6, <2>t DEF Turn
    <3> QED BY <2>3, <2>6, <3>1
  <2>7. ASSUME NEW c \in Continuation, ReserveResultTurn(c), ~UNCHANGED <<phase, turns>>
        PROVE  Only(c)
    <3>1. PICK s : /\ turns' = [turns EXCEPT ![c] = s]
                   /\ phase' = [phase EXCEPT ![c] = "starting"]
      BY <2>4, <2>7
    <3> QED BY <2>t, <3>1 DEF Turn
  <2> QED BY <2>1, <2>2, <2>5, <2>6, <2>7 DEF DeliveryStepTaken
<1>3. \A s \in MainTurn : phase'[s] = phase[s] BY <1>2 DEF Turn
<1>4. \A s \in MainTurn, t \in Turn : Finishing(t, s)' => Finishing(t, s)
  BY <1>2 DEF Finishing
<1> QED BY <1>1, <1>3, <1>4, EventsFrame, SMTT(30)

\* End tools: the first call that finds the scope open publishes for it.
LEMMA EventsEndToolSteps ==
  ASSUME AccountingInv, EventsInv, LateCaller = {},
         \/ \E t \in Turn, k \in EndTool, b \in BOOLEAN : BeginEndTool(t, k, b)
         \/ EndToolStep
  PROVE  EventsInv'
<1> USE AccountingParts, ConstantsAssumption
<1>1. ASSUME NEW t \in Turn, NEW k \in EndTool, NEW b \in BOOLEAN, BeginEndTool(t, k, b)
      PROVE  EventsInv'
  <2>1. PICK s \in MainTurn : s = turns[t] BY <1>1 DEF BeginEndTool, TypeOK
  <2>2. /\ state' = [state EXCEPT ![s] = "ending"]
        /\ endCalls' = endCalls \cup
             {EndCall(t, k, s, IF FirstToEnd(s) THEN "preEnd" ELSE "handler")}
        /\ UNCHANGED <<phase, turns, events>>
        /\ phase[t] \notin {"idle", "starting"}
    BY <1>1, <2>1 DEF BeginEndTool, MayCall
  <2>3. phase[s] \notin {"idle", "starting"} BY <2>1, <2>2 DEF FreshScopeInv
  <2>4. state[s] # "none" BY <2>1 DEF BindingsInv
  <2>5. ASSUME NEW r \in MainTurn, r # s PROVE ScopeEvents(r)'
    <3>1. \A e \in endCalls' : ToPublish(e, r) => e \in endCalls BY <2>2, <2>5 DEF ToPublish, EndCall
    <3>2. state'[r] = state[r] /\ ScopeEvents(r) BY <2>2, <2>5 DEF TypeOK, EventsInv
    <3> QED BY <2>2, <3>1, <3>2 DEF ScopeEvents, Published, ToPublish, Finishing
  <2>6. CASE FirstToEnd(s)
    <3>1. ScopeEvents(s) /\ state[s] = "open" /\ events[s] = <<>> BY <2>6 DEF EventsInv, ScopeEvents, FirstToEnd
    <3>2. \A u \in Turn : ~Finishing(u, s) BY <3>1 DEF Finishing, RemovalInv
    <3>3. ScopeEvents(s)'
      BY <2>2, <2>3, <2>6, <3>1, <3>2, SMTT(30) DEF ScopeEvents, Published, ToPublish, Finishing, EndCall, TypeOK
    <3> QED BY <2>5, <3>3 DEF EventsInv
  <2>7. CASE ~FirstToEnd(s)
    <3>1. ScopeEvents(s) /\ state[s] # "open" BY <2>7 DEF EventsInv, FirstToEnd
    <3>2. \A e \in endCalls' : ToPublish(e, s) => e \in endCalls BY <2>2, <2>7 DEF ToPublish, EndCall
    <3>3. state'[s] = "ending" BY <2>2 DEF TypeOK
    <3>4. ScopeEvents(s)'
      BY <2>2, <2>3, <2>4, <3>1, <3>2, <3>3 DEF ScopeEvents, Published, ToPublish, Finishing
    <3> QED BY <2>5, <3>4 DEF EventsInv
  <2> QED BY <2>6, <2>7
<1>2. ASSUME NEW e \in endCalls, EndToolPreEnd(e)
      PROVE  EventsInv'
  <2>1. /\ e.step = "preEnd" /\ e.scope \in MainTurn /\ ToPublish(e, e.scope)
        /\ events' = [events EXCEPT ![e.scope] = Append(@, "PreEndScope")]
        /\ endCalls' = (endCalls \ {e}) \cup {EndCall(e.turn, e.tool, e.scope, "handler")}
        /\ UNCHANGED <<state, phase, turns>>
    BY <1>2 DEF EndToolPreEnd, TypeOK, ToPublish
  <2>2. PICK s \in MainTurn : s = e.scope BY <2>1
  <2>3. ScopeEvents(s) /\ events[s] \in Seq({"PreEndScope", "EndScope"}) BY DEF EventsInv, TypeOK
  <2>4. \A r \in MainTurn : \A f \in endCalls' : ToPublish(f, r) => f \in endCalls /\ f # e
    BY <2>1 DEF ToPublish, EndCall
  <2>5. \A i \in DOMAIN events[s] : events[s][i] # "PreEndScope"
    BY <2>1, <2>2, <2>3 DEF ScopeEvents, Published
  <2>6. /\ \A i, j \in DOMAIN events'[s] : events'[s][i] = events'[s][j] => i = j
        /\ Published(s, "EndScope")' => Published(s, "EndScope")
    <3>1. events'[s] = Append(events[s], "PreEndScope") BY <2>1, <2>2 DEF TypeOK
    <3>2. \A i, j \in DOMAIN events[s] : events[s][i] = events[s][j] => i = j
      BY <2>3 DEF ScopeEvents
    <3> QED BY <2>3, <2>5, <3>1, <3>2, EventAdded DEF Published
  <2>7. ScopeEvents(s)'
    <3>1. phase[s] \notin {"idle", "starting"} /\ state[s] # "open" BY <2>1, <2>2, <2>3 DEF ScopeEvents
    <3>2. \A f \in endCalls' : ~ToPublish(f, s) BY <2>1, <2>2, <2>3, <2>4 DEF ScopeEvents
    <3>3. \A u \in Turn : ~Finishing(u, s) BY <2>1, <2>2, <2>3 DEF ScopeEvents
    <3> QED BY <2>1, <2>3, <2>6, <3>1, <3>2, <3>3 DEF ScopeEvents, ToPublish, Finishing
  <2>8. ASSUME NEW r \in MainTurn, r # s PROVE ScopeEvents(r)'
    <3>1. events'[r] = events[r] /\ ScopeEvents(r) BY <2>1, <2>2, <2>8 DEF TypeOK, EventsInv
    <3> QED BY <2>1, <2>4, <3>1 DEF ScopeEvents, Published, ToPublish, Finishing
  <2> QED BY <2>7, <2>8 DEF EventsInv
<1>3. ASSUME NEW e \in endCalls, NEW ok \in BOOLEAN, EndToolReturns(e, ok)
      PROVE  EventsInv'
  <2>1. endCalls' \subseteq endCalls /\ UNCHANGED <<state, phase, turns, events>>
    BY <1>3 DEF EndToolReturns
  <2> QED BY <2>1 DEF EventsInv, ScopeEvents, Published, ToPublish, Finishing
<1> QED BY <1>1, <1>2, <1>3 DEF EndToolStep

\* The invariant is inductive.
LEMMA EventsNext ==
  ASSUME LateCaller = {}, AccountingInv, EventsInv, [Next]_vars
  PROVE  EventsInv'
<1>1. CASE UNCHANGED vars
  BY <1>1, EventsFrame DEF vars, Finishing
<1>2. ASSUME NEW w \in Work,
             \/ \E t \in Turn : StartWork(w, t)
             \/ RegisterAssignmentMetadata(w) \/ KeepRegistration(w)
             \/ RollbackRegistration(w) \/ WorkEnds(w)
      PROVE  EventsInv'
  <2>1. UNCHANGED <<state, events, endCalls, phase, turns>>
    BY <1>2 DEF StartWork, RegisterAssignmentMetadata, KeepRegistration, RollbackRegistration,
       WorkEnds
  <2> QED BY <2>1, EventsFrame DEF Finishing
<1>3. ASSUME NEW a \in Subagent, CloseRecord(a) \/ CancelSubagentAssignments(a)
      PROVE  EventsInv'
  <2>1. UNCHANGED <<state, events, endCalls, phase, turns>>
    BY <1>3 DEF CloseRecord, CancelSubagentAssignments
  <2> QED BY <2>1, EventsFrame DEF Finishing
<1> QED BY <1>1, <1>2, <1>3, EventsTurnSteps, EventsFinishSteps, EventsDeliverySteps,
           EventsEndToolSteps DEF Next, FinishStep

\* PreEndScope and EndScope are each published at most once per scope, whoever
\* of the turns being finished and the end tools finds it open first, as long as
\* no end tool call begins after its turn was finished.
THEOREM EventsPublishedOnce ==
  ASSUME LateCaller = {}
  PROVE  Spec => []EventsOnce
<1>1. Init => EventsInv
  BY DEF Init, EventsInv, ScopeEvents, Published, ToPublish, Finishing
<1>2. AccountingInv /\ EventsInv /\ [Next]_vars => EventsInv'
  BY EventsNext
<1>3. EventsInv => EventsOnce
  BY DEF EventsInv, ScopeEvents, EventsOnce
<1> QED BY <1>1, <1>2, <1>3, AccountingCorrect, PTL DEF Spec
-----------------------------------------------------------------------------
(* Results settle their own assignments. *)

\* Where a result settles its own assignment and its scope waits for it: no end
\* tools, no runs that end while their tool calls are in flight, no direct
\* subagents and no results that are given up.  README.md says what happens
\* otherwise.
Settling == Direct = {} /\ EndTool = {} /\ Interruptible = {} /\ Failures \subseteq {"store"}

\* A turn that counts is bound to an open scope; a task is being started by a
\* running turn, one at a time for each subagent.
CallInv ==
  /\ \A t \in Turn : phase[t] \in Counted => state[turns[t]] = "open"
  /\ \A w \in Work : work[w] \in {"started", "registering"} => phase[origin[w]] = "running"
  /\ \A v, w \in Work :
       /\ SubagentOf[v] = SubagentOf[w]
       /\ work[v] \in {"started", "registering", "running"}
       /\ work[w] \in {"started", "registering", "running"}
       => v = w

\* Where the obligation of a work is.
Reserved(w) == delivery.step \in {"inline", "start"} /\ delivery.taken = w
Gone(w) == SubagentOf[w] \in cancelledSubagents
InHand(w) == \/ \E i \in DOMAIN deliveries : deliveries[i] = w
             \/ delivery.step # "idle" /\ delivery.task = w
Abandoned(w) == work[w] = "dropped" /\ SubagentOf[w] \in closed

\* A registered work is queued or reserved until its result is delivered, it is
\* rejected, or its subagent is closed; a queued work will have a result.
TrackInv ==
  /\ cancelledSubagents \subseteq closed
  /\ \A w \in Work :
       /\ work[w] \in {"registering", "running", "published"} =>
            w \in assignments \/ Reserved(w) \/ Gone(w)
       /\ w \in assignments =>
            work[w] \in {"registering", "running", "published"} \/ Abandoned(w)
       /\ assignmentScope[w] # NoTurn =>
            w \in assignments \/ Reserved(w) \/ SubagentOf[w] \in closed
              \/ work[w] \in {"delivered", "rejected"}
       /\ work[w] = "published" => InHand(w)

\* The queue of a subagent and the results that are on their way to it are in
\* the same order.
Behind(v, w) == SubagentOf[v] = SubagentOf[w] /\ ~Gone(v) => sequence[v] < sequence[w]
OrderInv ==
  /\ \A w \in Work : sequence[w] <= nextAssignment
  /\ \A v, w \in Work :
       /\ work[v] = "published"
       /\ work[w] \in {"registering", "running"} \/ (Abandoned(w) /\ w \in assignments)
       => Behind(v, w)
  /\ \A i, j \in DOMAIN deliveries : i < j => Behind(deliveries[i], deliveries[j])
  /\ delivery.step # "idle" => \A i \in DOMAIN deliveries : Behind(delivery.task, deliveries[i])

\* A reservation holds the assignment of the result at hand.
HeldInv ==
  /\ delivery.step \in {"inline", "start"} => delivery.taken = delivery.task
  /\ delivery.step = "inline" => turns[origin[delivery.task]] = delivery.scope

SettleInv == CallInv /\ TrackInv /\ OrderInv /\ HeldInv

\* Each part holds on when what it speaks of is unchanged.
LEMMA FrameCall ==
  CallInv /\ UNCHANGED <<phase, state, turns, work, origin>> => CallInv'
  BY DEF CallInv
LEMMA FrameTrack ==
  /\ TrackInv
  /\ UNCHANGED <<cancelledSubagents, closed, work, assignments, assignmentScope,
                 deliveries, delivery>>
  => TrackInv'
  BY DEF TrackInv, Reserved, Gone, InHand, Abandoned
LEMMA FrameOrder ==
  /\ OrderInv
  /\ UNCHANGED <<sequence, nextAssignment, work, assignments, deliveries,
                 delivery, cancelledSubagents, closed>>
  => OrderInv'
  BY DEF OrderInv, Behind, Gone, Abandoned
LEMMA FrameHeld ==
  HeldInv /\ UNCHANGED <<delivery, turns, origin>> => HeldInv'
  BY DEF HeldInv

\* What the steps below start from.
LEMMA SettleParts ==
  ASSUME AccountingInv, SettleInv
  PROVE  /\ CallInv /\ TrackInv /\ OrderInv /\ HeldInv
         /\ sequence \in [Work -> Nat] /\ nextAssignment \in Nat
         /\ deliveries \in Seq(Work)
         /\ SubagentOf \in [Work -> Subagent]
  BY ConstantsAssumption, AccountingParts DEF SettleInv, TypeOK

LEMMA SettleInit == Init => SettleInv
  BY DEF Init, SettleInv, CallInv, TrackInv, OrderInv, HeldInv, Counted, Abandoned,
         IdleDelivery, At, Delivery

\* Of the turns' steps only the end of a scope takes assignments, and it finds
\* none.
LEMMA SettleTurnSteps ==
  ASSUME Settling, AccountingInv, AccountingInv', SettleInv,
         NEW t \in Turn,
         \/ t \in MainTurn /\ BeginMainAgentTurn(t)
         \/ t \in MainTurn /\ AcceptMainAgentTurn(t)
         \/ t \in MainTurn /\ RollbackMainAgentTurn(t)
         \/ RunEnds(t)
         \/ FinishStep(t)
  PROVE  SettleInv'
<1> USE AccountingParts, SettleParts
<1>1. UNCHANGED assignments
  <2>1. CASE FinishTurnRemoveScope(t)
    BY <2>1 DEF FinishTurnRemoveScope, RemovalInv, QueuedScopeOpen
  <2> QED
    BY <2>1 DEF BeginMainAgentTurn, AcceptMainAgentTurn, RollbackMainAgentTurn,
                RunEnds, FinishStep, FinishTurn, FinishTurnPreEnd
<1>2. UNCHANGED <<cancelledSubagents, closed, work, origin, assignmentScope,
                  sequence, nextAssignment, deliveries, delivery>>
  BY DEF BeginMainAgentTurn, AcceptMainAgentTurn, RollbackMainAgentTurn,
         RunEnds, FinishStep, FinishTurn, FinishTurnPreEnd, FinishTurnRemoveScope
<1>3. TrackInv' /\ OrderInv'
  BY <1>1, <1>2, FrameTrack, FrameOrder
<1>o. \A w \in Work : work[w] # "new" => origin[w] \in Turn
  BY DEF WorkInv
<1>4. CallInv'
  <2>1. CASE t \in MainTurn /\ BeginMainAgentTurn(t)
    <3>1. \A u \in Turn : turns[u] # t
      BY <2>1, ConstantsAssumption DEF BeginMainAgentTurn, FreshScopeInv, BindingsInv
    <3> QED BY <2>1, <3>1, ConstantsAssumption DEF BeginMainAgentTurn, CallInv, Counted
  <2>2. CASE t \in MainTurn /\ AcceptMainAgentTurn(t)
    BY <2>2 DEF AcceptMainAgentTurn, CallInv, Counted
  <2>3. CASE t \in MainTurn /\ RollbackMainAgentTurn(t)
    <3>1. turns[t] = t /\ \A u \in Turn : u # t => turns[u] # t
      BY <2>3 DEF RollbackMainAgentTurn, FreshScopeInv, BindingsInv
    <3> QED BY <2>3, <3>1 DEF RollbackMainAgentTurn, CallInv, Counted
  <2>4. CASE RunEnds(t)
    <3>1. phase[t] = "running"
      BY <2>4, ConstantsAssumption DEF RunEnds, BindingsInv
    <3> QED BY <2>4, <3>1 DEF RunEnds, CallInv, Counted, Settling
  <2>5. CASE FinishTurn(t)
    <3>1. phase[t] = "over" /\ turns[t] \in MainTurn
      BY <2>5 DEF FinishTurn, BindingsInv, Counted
    <3>2. t \in CountedTurns(turns[t])
      BY <3>1 DEF CountedTurns, Counted
    <3>3. ASSUME NEW u \in Turn, phase'[u] \in Counted
          PROVE  state'[turns'[u]] = "open"
      <4>1. u # t /\ phase[u] \in Counted /\ turns'[u] = turns[u]
        BY <2>5, <3>3 DEF FinishTurn, Counted
      <4>2. CASE Quiet(turns[t])
        <5>1. CountedTurns(turns[t]) = {t}
          BY <3>1, <3>2, <4>2, QuietScope DEF Quiet
        <5>2. turns[u] \in MainTurn /\ turns[u] # turns[t]
          BY <4>1, <5>1 DEF CountedTurns, BindingsInv
        <5>3. state'[turns[u]] = state[turns[u]]
          BY <2>5, <5>2 DEF FinishTurn
        <5> QED BY <4>1, <5>3 DEF CallInv
      <4>3. CASE ~Quiet(turns[t])
        <5>1. state'[turns[u]] = state[turns[u]]
          BY <2>5, <4>3 DEF FinishTurn
        <5> QED BY <4>1, <5>1 DEF CallInv
      <4> QED BY <4>2, <4>3
    <3>4. \A u \in Turn : phase[u] = "running" => phase'[u] = "running"
      BY <2>5, <3>1 DEF FinishTurn
    <3> QED BY <1>2, <1>o, <3>3, <3>4 DEF CallInv
  <2>6. CASE FinishTurnPreEnd(t)
    BY <2>6 DEF FinishTurnPreEnd, CallInv, Counted
  <2>7. CASE FinishTurnRemoveScope(t)
    <3>1. phase[t] = "removing" /\ turns[t] \in MainTurn
      BY <2>7 DEF FinishTurnRemoveScope, BindingsInv
    <3>2. ASSUME NEW u \in Turn, phase'[u] \in Counted
          PROVE  state'[turns'[u]] = "open"
      <4>1. u # t /\ phase[u] \in Counted
        BY <2>7, <3>2 DEF FinishTurnRemoveScope, Counted
      <4>2. turns[u] # turns[t]
        BY <3>1, <4>1 DEF RemovalInv
      <4>3. turns'[u] = turns[u] /\ state'[turns[u]] = state[turns[u]]
        BY <2>7, <4>2 DEF FinishTurnRemoveScope
      <4> QED BY <4>1, <4>3 DEF CallInv
    <3>3. \A u \in Turn : phase[u] = "running" => phase'[u] = "running"
      BY <2>7, <3>1 DEF FinishTurnRemoveScope
    <3> QED BY <1>2, <1>o, <3>2, <3>3 DEF CallInv
  <2> QED BY <2>1, <2>2, <2>3, <2>4, <2>5, <2>6, <2>7 DEF FinishStep
<1>5. HeldInv'
  <2> SUFFICES ASSUME delivery.step = "inline"
               PROVE  turns'[origin[delivery.task]] = turns[origin[delivery.task]]
    BY <1>2 DEF HeldInv
  <2>1. PICK w \in Work : w = delivery.task /\ work[w] = "published"
    BY DEF DeliveryInv
  <2>2. PICK u \in Turn : u = origin[w] /\ phase[u] \notin {"idle", "starting"}
    BY <2>1 DEF WorkInv
  <2>3. turns[u] = delivery.scope /\ state[turns[u]] = "open"
    BY <2>1, <2>2 DEF HeldInv, ReservationInv
  <2>4. CASE t \in MainTurn /\ BeginMainAgentTurn(t)
    BY <2>1, <2>2, <2>4 DEF BeginMainAgentTurn
  <2>5. CASE t \in MainTurn /\ RollbackMainAgentTurn(t)
    BY <2>1, <2>2, <2>5 DEF RollbackMainAgentTurn
  <2>6. CASE FinishTurnRemoveScope(t)
    BY <2>1, <2>2, <2>3, <2>6 DEF FinishTurnRemoveScope, RemovalInv
  <2> QED
    BY <2>1, <2>2, <2>4, <2>5, <2>6
       DEF AcceptMainAgentTurn, RunEnds, FinishStep, FinishTurn, FinishTurnPreEnd
<1> QED BY <1>3, <1>4, <1>5 DEF SettleInv

\* The steps of a work, from its start to its end.
LEMMA SettleStartWork ==
  ASSUME Settling, AccountingInv, SettleInv,
         NEW w \in Work, NEW t \in Turn, StartWork(w, t)
  PROVE  SettleInv'
<1> USE AccountingParts, SettleParts
<1>1. /\ UNCHANGED <<state, turns, phase, assignments, sequence, nextAssignment,
                     assignmentScope, cancelledSubagents, deliveries, closed, delivery>>
      /\ work[w] = "new" /\ phase[t] = "running"
      /\ work' = [work EXCEPT ![w] = "started"]
      /\ origin' = [origin EXCEPT ![w] = t]
      /\ \A v \in Work : SubagentOf[v] = SubagentOf[w] =>
           work[v] \notin {"started", "registering", "running"}
  BY DEF StartWork, MayCall, Settling
<1>2. CallInv'
  BY <1>1 DEF CallInv
<1>3. TrackInv'
  <2>1. assignmentScope[w] = NoTurn /\ w \notin assignments
    BY <1>1 DEF WorkInv
  <2> QED BY <1>1, <2>1 DEF TrackInv, Reserved, Gone, InHand, Abandoned
<1>4. OrderInv'
  BY <1>1 DEF OrderInv, Behind, Gone, Abandoned
<1>5. HeldInv'
  BY <1>1 DEF HeldInv, DeliveryInv
<1> QED BY <1>2, <1>3, <1>4, <1>5 DEF SettleInv

LEMMA SettleRegister ==
  ASSUME Settling, AccountingInv, SettleInv,
         NEW w \in Work, RegisterAssignmentMetadata(w)
  PROVE  SettleInv'
<1> USE AccountingParts, SettleParts
<1>1. /\ UNCHANGED <<state, turns, phase, origin, cancelledSubagents, deliveries,
                     closed, delivery>>
      /\ work[w] = "started"
      /\ work' = [work EXCEPT ![w] = "registering"]
  BY DEF RegisterAssignmentMetadata
<1>2. PICK t \in Turn : t = origin[w] /\ phase[t] = "running"
  BY <1>1 DEF CallInv, WorkInv
<1>3. turns[t] \in MainTurn /\ state[turns[t]] = "open"
  BY <1>2 DEF CallInv, BindingsInv, Counted
<1>4. CASE ~Gone(w)
  <2>1. Registers(w)
    BY <1>2, <1>3, <1>4, ConstantsAssumption DEF Registers, Gone, Turn
  <2>2. /\ nextAssignment' = nextAssignment + 1
        /\ sequence' = [sequence EXCEPT ![w] = nextAssignment + 1]
        /\ assignments' = assignments \cup {w}
        /\ assignmentScope' = [assignmentScope EXCEPT ![w] = turns[t]]
    BY <1>2, <2>1 DEF RegisterAssignmentMetadata
  <2>3. CallInv'
    BY <1>1 DEF CallInv
  <2>4. TrackInv'
    BY <1>1, <2>2 DEF TrackInv, Reserved, Gone, InHand, Abandoned
  <2>5. OrderInv'
    <3>1. \A v \in Work : v # w =>
            sequence'[v] = sequence[v] /\ sequence[v] < sequence'[w]
      BY <2>2 DEF OrderInv
    <3>2. \A v \in Work : work'[v] = "published" => v # w /\ work[v] = "published"
      BY <1>1
    <3>3. \A v \in Work : sequence'[v] <= nextAssignment'
      BY <2>2 DEF OrderInv
    <3>4. \A v, u \in Work : v # w /\ u # w => (Behind(v, u)' <=> Behind(v, u))
      BY <1>1, <3>1 DEF Behind, Gone
    <3>5. \A v \in Work : v # w => Behind(v, w)'
      BY <1>1, <3>1 DEF Behind
    <3>6. \A u \in Work : u # w =>
            /\ work'[u] = work[u]
            /\ u \in assignments' <=> u \in assignments
            /\ Abandoned(u)' <=> Abandoned(u)
      BY <1>1, <2>2 DEF Abandoned
    <3>7. \A i \in DOMAIN deliveries : deliveries[i] \in Work /\ deliveries[i] # w
      BY <1>1 DEF DeliveryInv
    <3>8. delivery.step # "idle" => delivery.task \in Work /\ delivery.task # w
      BY <1>1 DEF DeliveryInv
    <3>9. \A v, u \in Work :
            /\ work'[v] = "published"
            /\ work'[u] \in {"registering", "running"} \/ (Abandoned(u)' /\ u \in assignments')
            => Behind(v, u)'
      BY <3>2, <3>4, <3>5, <3>6, SMTT(20) DEF OrderInv
    <3> QED BY <1>1, <3>3, <3>4, <3>7, <3>8, <3>9 DEF OrderInv
  <2>6. HeldInv'
    BY <1>1 DEF HeldInv
  <2> QED BY <2>3, <2>4, <2>5, <2>6 DEF SettleInv
<1>5. CASE Gone(w)
  <2>1. UNCHANGED <<assignments, sequence, nextAssignment, assignmentScope>>
    BY <1>5 DEF RegisterAssignmentMetadata, Registers, Gone
  <2>2. CallInv'
    BY <1>1 DEF CallInv
  <2>3. TrackInv'
    BY <1>1, <1>5, <2>1 DEF TrackInv, Reserved, Gone, InHand, Abandoned, WorkInv
  <2>4. OrderInv'
    BY <1>1, <1>5, <2>1 DEF OrderInv, Behind, Gone, Abandoned
  <2>5. HeldInv'
    BY <1>1 DEF HeldInv
  <2> QED BY <2>2, <2>3, <2>4, <2>5 DEF SettleInv
<1> QED BY <1>4, <1>5

LEMMA SettleKeep ==
  ASSUME AccountingInv, SettleInv, NEW w \in Work, KeepRegistration(w)
  PROVE  SettleInv'
<1> USE AccountingParts, SettleParts
<1>1. /\ UNCHANGED <<state, turns, phase, origin, assignments, sequence,
                     nextAssignment, assignmentScope, cancelledSubagents,
                     deliveries, closed, delivery>>
      /\ work[w] = "registering"
      /\ work' = [work EXCEPT ![w] = "running"]
  BY DEF KeepRegistration
<1>2. CallInv'
  BY <1>1 DEF CallInv
<1>3. TrackInv'
  BY <1>1 DEF TrackInv, Reserved, Gone, InHand, Abandoned
<1>4. OrderInv'
  BY <1>1 DEF OrderInv, Behind, Gone, Abandoned
<1>5. HeldInv'
  BY <1>1 DEF HeldInv
<1> QED BY <1>2, <1>3, <1>4, <1>5 DEF SettleInv

LEMMA SettleRollbackRegistration ==
  ASSUME AccountingInv, SettleInv, NEW w \in Work, RollbackRegistration(w)
  PROVE  SettleInv'
<1> USE AccountingParts, SettleParts
<1>1. /\ UNCHANGED <<state, turns, phase, origin, sequence, nextAssignment,
                     assignmentScope, cancelledSubagents, deliveries, closed,
                     delivery>>
      /\ work[w] = "registering"
      /\ work' = [work EXCEPT ![w] = "rejected"]
      /\ assignments' = assignments \ {w}
  BY DEF RollbackRegistration, WithdrawAssignment
<1>2. CallInv'
  BY <1>1 DEF CallInv
<1>3. TrackInv'
  BY <1>1 DEF TrackInv, Reserved, Gone, InHand, Abandoned
<1>4. OrderInv'
  BY <1>1 DEF OrderInv, Behind, Gone, Abandoned
<1>5. HeldInv'
  BY <1>1 DEF HeldInv
<1> QED BY <1>2, <1>3, <1>4, <1>5 DEF SettleInv

LEMMA SettleWorkEnds ==
  ASSUME Settling, AccountingInv, SettleInv, NEW w \in Work, WorkEnds(w)
  PROVE  SettleInv'
<1> USE AccountingParts, SettleParts
<1>1. /\ UNCHANGED <<state, turns, phase, origin, assignments, sequence,
                     nextAssignment, assignmentScope, cancelledSubagents, closed,
                     delivery>>
      /\ work[w] = "running"
  BY DEF WorkEnds
<1>2. CASE SubagentOf[w] \in closed
  <2>1. work' = [work EXCEPT ![w] = "dropped"] /\ deliveries' = deliveries
    BY <1>2 DEF WorkEnds
  <2>2. CallInv'
    BY <1>1, <2>1 DEF CallInv
  <2>3. TrackInv'
    BY <1>1, <1>2, <2>1 DEF TrackInv, Reserved, Gone, InHand, Abandoned
  <2>4. OrderInv'
    BY <1>1, <2>1 DEF OrderInv, Behind, Gone, Abandoned
  <2>5. HeldInv'
    BY <1>1 DEF HeldInv
  <2> QED BY <2>2, <2>3, <2>4, <2>5 DEF SettleInv
<1>3. CASE SubagentOf[w] \notin closed
  <2>1. work' = [work EXCEPT ![w] = "published"] /\ deliveries' = Append(deliveries, w)
    BY <1>3 DEF WorkEnds, Settling
  <2>2. /\ DOMAIN deliveries' = DOMAIN deliveries \cup {Len(deliveries) + 1}
        /\ deliveries'[Len(deliveries) + 1] = w
        /\ \A i \in DOMAIN deliveries :
             /\ deliveries'[i] = deliveries[i] /\ deliveries[i] \in Work
             /\ i \in Nat /\ i < Len(deliveries) + 1
        /\ Len(deliveries) \in Nat
    BY <2>1
  <2>3. CallInv'
    BY <1>1, <2>1 DEF CallInv
  <2>4. TrackInv'
    <3>1. \A v \in Work : InHand(v) => InHand(v)'
      BY <1>1, <2>2 DEF InHand
    <3>2. InHand(w)'
      BY <2>2 DEF InHand
    <3> QED BY <1>1, <2>1, <3>1, <3>2 DEF TrackInv, Reserved, Gone, Abandoned
  <2>5. OrderInv'
    <3>1. \A v, u : Behind(v, u)' <=> Behind(v, u)
      BY <1>1 DEF Behind, Gone
    <3>2. \A v \in Work : work[v] = "published" => Behind(v, w)
      BY <1>1 DEF OrderInv
    <3>3. \A u \in Work :
            /\ work'[u] \in {"registering", "running"} \/ (Abandoned(u)' /\ u \in assignments')
            => Behind(w, u)
      <4> SUFFICES ASSUME NEW u \in Work, SubagentOf[u] = SubagentOf[w],
                          \/ work'[u] \in {"registering", "running"}
                          \/ Abandoned(u)'
                   PROVE  FALSE
        BY DEF Behind
      <4>1. u # w
        BY <2>1 DEF Abandoned
      <4>2. SubagentOf[u] \notin closed
        BY <1>3
      <4> QED BY <1>1, <2>1, <4>1, <4>2 DEF CallInv, Abandoned
    <3>4. \A v, u \in Work :
            /\ work'[v] = "published"
            /\ work'[u] \in {"registering", "running"} \/ (Abandoned(u)' /\ u \in assignments')
            => Behind(v, u)
      <4>1. \A u \in Work : work'[u] \in {"registering", "running"} => work[u] = work'[u]
        BY <2>1
      <4>2. \A u \in Work : Abandoned(u)' => Abandoned(u)
        BY <1>1, <2>1 DEF Abandoned
      <4>3. \A v \in Work : v # w => work'[v] = work[v]
        BY <2>1
      <4> QED BY <1>1, <3>3, <4>1, <4>2, <4>3 DEF OrderInv
    <3>5. \A i, j \in DOMAIN deliveries' : i < j => Behind(deliveries'[i], deliveries'[j])
      <4> SUFFICES ASSUME NEW i \in DOMAIN deliveries', NEW j \in DOMAIN deliveries', i < j
                   PROVE  Behind(deliveries'[i], deliveries'[j])
        OBVIOUS
      <4>1. i \in DOMAIN deliveries
        BY <2>2
      <4>2. CASE j \in DOMAIN deliveries
        BY <2>2, <4>1, <4>2 DEF OrderInv
      <4>3. CASE j = Len(deliveries) + 1
        BY <2>2, <3>2, <4>1, <4>3 DEF DeliveryInv
      <4> QED BY <2>2, <4>2, <4>3
    <3>6. delivery.step # "idle" =>
            \A i \in DOMAIN deliveries' : Behind(delivery.task, deliveries'[i])
      <4> SUFFICES ASSUME delivery.step # "idle", NEW i \in DOMAIN deliveries'
                   PROVE  Behind(delivery.task, deliveries'[i])
        OBVIOUS
      <4>1. CASE i \in DOMAIN deliveries
        BY <2>2, <4>1 DEF OrderInv
      <4>2. CASE i = Len(deliveries) + 1
        BY <2>2, <3>2, <4>2 DEF DeliveryInv
      <4> QED BY <2>2, <4>1, <4>2
    <3> QED BY <1>1, <3>1, <3>4, <3>5, <3>6 DEF OrderInv
  <2>6. HeldInv'
    BY <1>1 DEF HeldInv
  <2> QED BY <2>3, <2>4, <2>5, <2>6 DEF SettleInv
<1> QED BY <1>2, <1>3

\* A close gives up what the subagent still owes.
LEMMA SettleCloseSteps ==
  ASSUME AccountingInv, SettleInv, NEW a \in Subagent,
         CloseRecord(a) \/ CancelSubagentAssignments(a)
  PROVE  SettleInv'
<1> USE AccountingParts, SettleParts
<1>1. UNCHANGED <<state, turns, phase, origin, work, sequence, nextAssignment,
                  assignmentScope, deliveries, delivery>>
  BY DEF CloseRecord, CancelSubagentAssignments
<1>2. CallInv' /\ HeldInv'
  BY <1>1, FrameCall, FrameHeld
<1>3. CASE CloseRecord(a)
  <2>1. /\ closed' = closed \cup {a}
        /\ UNCHANGED <<assignments, cancelledSubagents>>
    BY <1>3 DEF CloseRecord
  <2>2. TrackInv'
    BY <1>1, <2>1 DEF TrackInv, Reserved, Gone, InHand, Abandoned
  <2>3. OrderInv'
    <3>1. \A u \in Work : Abandoned(u)' /\ u \in assignments => Abandoned(u)
      BY <1>1 DEF TrackInv, Abandoned
    <3> QED BY <1>1, <2>1, <3>1 DEF OrderInv, Behind, Gone
  <2> QED BY <1>2, <2>2, <2>3 DEF SettleInv
<1>4. CASE CancelSubagentAssignments(a)
  <2>1. /\ a \in closed
        /\ cancelledSubagents' = cancelledSubagents \cup {a}
        /\ assignments' = assignments \ Queue(a)
        /\ UNCHANGED closed
    BY <1>4 DEF CancelSubagentAssignments
  <2>2. TrackInv'
    BY <1>1, <2>1 DEF TrackInv, Reserved, Gone, InHand, Abandoned, Queue
  <2>3. OrderInv'
    BY <1>1, <2>1 DEF OrderInv, Behind, Gone, Abandoned
  <2> QED BY <1>2, <2>2, <2>3 DEF SettleInv
<1> QED BY <1>3, <1>4

\* The assignment a reservation pops is that of the result at hand.
LEMMA HeadIsTask ==
  ASSUME AccountingInv, SettleInv, delivery.step \in {"inlineReserve", "reserve"},
         NEW v \in Work, IsHead(v, SubagentOf[delivery.task])
  PROVE  v = delivery.task
<1> USE AccountingParts, SettleParts
<1>1. PICK w \in Work : w = delivery.task /\ work[w] = "published"
  BY DEF DeliveryInv
<1>2. v \in assignments /\ SubagentOf[v] = SubagentOf[w] /\ ~Gone(w) /\ ~Gone(v)
  BY <1>1 DEF IsHead, Queue, CancelledNeverQueued, Gone
<1>3. w \in assignments
  BY <1>1, <1>2 DEF TrackInv, Reserved
<1>4. sequence[v] <= sequence[w]
  BY <1>1, <1>2, <1>3 DEF IsHead, Queue
<1>5. ~Behind(w, v)
  BY <1>2, <1>4 DEF Behind
<1>6. work[v] = "published"
  BY <1>1, <1>2, <1>5 DEF TrackInv, OrderInv
<1>7. \A i \in DOMAIN deliveries : deliveries[i] # v
  BY <1>1, <1>5 DEF OrderInv
<1> QED BY <1>1, <1>6, <1>7 DEF TrackInv, InHand

\* The steps of the delivery goroutine.
LEMMA SettleTake ==
  ASSUME AccountingInv, SettleInv, TakeDelivery
  PROVE  SettleInv'
<1> USE AccountingParts, SettleParts
<1>1. /\ UNCHANGED <<state, turns, phase, origin, work, assignments, sequence,
                     nextAssignment, assignmentScope, cancelledSubagents, closed>>
      /\ delivery.step = "idle" /\ deliveries # <<>>
      /\ delivery'.step = "check" /\ delivery'.task = Head(deliveries)
      /\ deliveries' = Tail(deliveries)
  BY DEF TakeDelivery, At, Delivery
<1>2. /\ 1 \in DOMAIN deliveries /\ deliveries[1] = delivery'.task
      /\ \A i \in DOMAIN deliveries' :
           /\ i \in Nat /\ i + 1 \in DOMAIN deliveries /\ 1 < i + 1
           /\ deliveries'[i] = deliveries[i + 1]
      /\ \A i \in DOMAIN deliveries : i # 1 =>
           /\ i \in Nat /\ i - 1 \in DOMAIN deliveries'
           /\ deliveries'[i - 1] = deliveries[i]
  BY <1>1, SMTT(30)
<1>3. CallInv'
  BY <1>1, FrameCall
<1>4. TrackInv'
  <2>1. \A w \in Work : InHand(w) => InHand(w)'
    BY <1>1, <1>2, ZenonT(40) DEF InHand
  <2> QED BY <1>1, <2>1 DEF TrackInv, Reserved, Gone, Abandoned
<1>5. OrderInv'
  <2>1. \A v, u : Behind(v, u)' <=> Behind(v, u)
    BY <1>1 DEF Behind, Gone
  <2>2. \A i, j \in DOMAIN deliveries' : i < j => i + 1 < j + 1
    BY <1>2
  <2>3. \A i, j \in DOMAIN deliveries' : i < j => Behind(deliveries'[i], deliveries'[j])
    BY <1>2, <2>2 DEF OrderInv
  <2>4. \A i \in DOMAIN deliveries' : Behind(delivery'.task, deliveries'[i])
    BY <1>2 DEF OrderInv
  <2> QED BY <1>1, <2>1, <2>3, <2>4 DEF OrderInv, Abandoned
<1>6. HeldInv'
  BY <1>1 DEF HeldInv
<1> QED BY <1>3, <1>4, <1>5, <1>6 DEF SettleInv

LEMMA SettleCheck ==
  ASSUME AccountingInv, SettleInv, CheckActiveTurn
  PROVE  SettleInv'
<1> USE AccountingParts, SettleParts
<1>1. /\ UNCHANGED <<state, turns, phase, origin, work, assignments, sequence,
                     nextAssignment, assignmentScope, cancelledSubagents, closed,
                     deliveries>>
      /\ delivery.step = "check" /\ delivery'.task = delivery.task
      /\ delivery'.step \in {"inlineReserve", "reserve"}
  BY DEF CheckActiveTurn, At, Delivery
<1>2. CallInv'
  BY <1>1, FrameCall
<1>3. TrackInv'
  BY <1>1 DEF TrackInv, Reserved, Gone, InHand, Abandoned
<1>4. OrderInv'
  BY <1>1 DEF OrderInv, Behind, Gone, Abandoned
<1>5. HeldInv'
  BY <1>1, SMTT(30) DEF HeldInv
<1> QED BY <1>2, <1>3, <1>4, <1>5 DEF SettleInv

LEMMA SettleReserveInline ==
  ASSUME AccountingInv, SettleInv, ReserveInlineResult
  PROVE  SettleInv'
<1> USE AccountingParts, SettleParts
<1>1. PICK w \in Work : w = delivery.task /\ work[w] = "published"
  BY InlineOutcome DEF DeliveryInv
<1>2. /\ UNCHANGED <<state, turns, phase, origin, work, sequence, nextAssignment,
                     assignmentScope, cancelledSubagents, closed, deliveries>>
      /\ delivery.step = "inlineReserve"
  BY DEF ReserveInlineResult
<1>3. CallInv'
  BY <1>2, FrameCall
<1>4. CASE delivery' = At("reserve", w) /\ UNCHANGED assignments
  <2>1. delivery'.step = "reserve" /\ delivery'.task = delivery.task
    BY <1>1, <1>4 DEF At, Delivery
  <2>2. TrackInv'
    BY <1>2, <1>4, <2>1 DEF TrackInv, Reserved, Gone, InHand, Abandoned
  <2>3. OrderInv' /\ HeldInv'
    BY <1>2, <1>4, <2>1 DEF OrderInv, HeldInv, Behind, Gone, Abandoned
  <2> QED BY <1>3, <2>2, <2>3 DEF SettleInv
<1>5. ASSUME NEW v \in assignments,
             /\ IsHead(v, SubagentOf[w])
             /\ assignmentScope[v] = turns[origin[w]]
             /\ assignments' = assignments \ {v}
             /\ delivery' = Delivery("inline", w, v, NoTurn, turns[origin[w]])
      PROVE  SettleInv'
  <2>1. v = w
    BY <1>1, <1>2, <1>5, HeadIsTask
  <2>2. /\ delivery'.step = "inline" /\ delivery'.task = w /\ delivery'.taken = w
        /\ delivery'.scope = turns[origin[w]]
    BY <1>5, <2>1 DEF Delivery
  <2>3. TrackInv'
    BY <1>1, <1>2, <1>5, <2>1, <2>2 DEF TrackInv, Reserved, Gone, InHand, Abandoned
  <2>4. OrderInv' /\ HeldInv'
    BY <1>1, <1>2, <1>5, <2>2 DEF OrderInv, HeldInv, Behind, Gone, Abandoned
  <2> QED BY <1>3, <2>3, <2>4 DEF SettleInv
<1>6. CASE InlineReserved(w, turns[origin[w]]) BY <1>5, <1>6 DEF InlineReserved
<1>7. CASE InlineKept(w) BY <1>4, <1>7 DEF InlineKept
<1>8. InlineReserved(w, turns[origin[w]]) \/ InlineKept(w) BY <1>1, InlineOutcome, Zenon
<1> QED BY <1>6, <1>7, <1>8

LEMMA SettleInject ==
  ASSUME AccountingInv, SettleInv, InjectAccepted
  PROVE  SettleInv'
<1> USE AccountingParts, SettleParts
<1>1. PICK w \in Work : w = delivery.task /\ work[w] = "published"
  BY DEF InjectAccepted, DeliveryInv
<1>2. /\ UNCHANGED <<state, turns, phase, origin, assignments, sequence,
                     nextAssignment, assignmentScope, cancelledSubagents, closed,
                     deliveries>>
      /\ delivery.step = "inline" /\ delivery.taken = w /\ w \notin assignments
      /\ delivery'.step = "idle"
      /\ work' = [work EXCEPT ![w] = "delivered"]
  BY <1>1 DEF InjectAccepted, HeldInv, ReservationInv, IdleDelivery, At, Delivery
<1>3. CallInv'
  BY <1>2 DEF CallInv
<1>4. TrackInv'
  BY <1>1, <1>2 DEF TrackInv, Reserved, Gone, InHand, Abandoned
<1>5. OrderInv' /\ HeldInv'
  BY <1>1, <1>2 DEF OrderInv, HeldInv, Behind, Gone, Abandoned
<1> QED BY <1>3, <1>4, <1>5 DEF SettleInv

LEMMA SettleInjectRejected ==
  ASSUME Settling, AccountingInv, SettleInv, NEW giveUp \in BOOLEAN,
         InjectRejected(giveUp)
  PROVE  SettleInv'
<1> USE AccountingParts, SettleParts
<1>1. PICK w \in Work : w = delivery.task /\ work[w] = "published"
  BY DEF InjectRejected, DeliveryInv
<1>2. giveUp = FALSE /\ delivery.step = "inline" /\ delivery.taken = w
  BY <1>1 DEF InjectRejected, Settling, HeldInv
<1>3. /\ UNCHANGED <<state, turns, phase, origin, work, sequence, nextAssignment,
                     assignmentScope, cancelledSubagents, closed, deliveries>>
      /\ delivery'.step = "reserve" /\ delivery'.task = w
  BY <1>1, <1>2 DEF InjectRejected, At, Delivery
<1>4. assignments' = IF Gone(w) THEN assignments ELSE assignments \cup {w}
  BY <1>1, <1>2, ConstantsAssumption DEF InjectRejected, RestoreAssignment, Gone
<1>5. CallInv'
  BY <1>3, FrameCall
<1>6. TrackInv'
  BY <1>1, <1>2, <1>3, <1>4 DEF TrackInv, Reserved, Gone, InHand, Abandoned
<1>7. OrderInv' /\ HeldInv'
  BY <1>1, <1>2, <1>3, <1>4 DEF OrderInv, HeldInv, Behind, Gone, Abandoned
<1> QED BY <1>5, <1>6, <1>7 DEF SettleInv

LEMMA SettleReserve ==
  ASSUME AccountingInv, SettleInv, NEW c \in Continuation, ReserveResultTurn(c)
  PROVE  SettleInv'
<1> USE AccountingParts, SettleParts
<1>1. PICK w \in Work : w = delivery.task /\ work[w] = "published"
  BY DEF ReserveResultTurn, DeliveryInv
<1>2. /\ delivery.step = "reserve" /\ results[w] = NoTurn
      /\ phase[c] = "idle" /\ turns[c] = NoTurn /\ c \in Turn
  BY <1>1 DEF ReserveResultTurn, DeliveryInv, Turn
<1>3. UNCHANGED <<state, origin, sequence, nextAssignment, assignmentScope,
                  cancelledSubagents, closed, deliveries>>
  BY DEF ReserveResultTurn
<1>4. CASE Queue(SubagentOf[w]) = {}
  <2>1. /\ delivery'.step = "idle"
        /\ work' = [work EXCEPT ![w] = "dropped"]
        /\ UNCHANGED <<assignments, turns, phase>>
    BY <1>1, <1>2, <1>4 DEF ReserveResultTurn, IdleDelivery, At, Delivery
  <2>2. Gone(w) /\ w \notin assignments /\ SubagentOf[w] \in closed
    BY <1>1, <1>2, <1>4 DEF TrackInv, Reserved, Queue, Gone
  <2>3. CallInv'
    BY <1>3, <2>1 DEF CallInv
  <2>4. TrackInv'
    BY <1>1, <1>2, <1>3, <2>1, <2>2 DEF TrackInv, Reserved, Gone, InHand, Abandoned
  <2>5. OrderInv' /\ HeldInv'
    BY <1>3, <2>1, <2>2 DEF OrderInv, HeldInv, Behind, Gone, Abandoned
  <2> QED BY <2>3, <2>4, <2>5 DEF SettleInv
<1>5. CASE Queue(SubagentOf[w]) # {}
  <2>1. PICK v \in Queue(SubagentOf[w]) :
          /\ IsHead(v, SubagentOf[w])
          /\ assignments' = assignments \ {v}
          /\ work' = work
          /\ state[assignmentScope[v]] = "open" /\ pendingResults[assignmentScope[v]] > 0 =>
               /\ turns' = [turns EXCEPT ![c] = assignmentScope[v]]
               /\ phase' = [phase EXCEPT ![c] = "starting"]
               /\ delivery' = Delivery("start", w, v, c, assignmentScope[v])
    BY <1>1, <1>2, <1>5 DEF ReserveResultTurn
  <2> DEFINE s == assignmentScope[v]
  <2>2. v = w /\ w \in assignments
    BY <1>1, <1>2, <2>1, HeadIsTask DEF Queue
  <2>3. s \in MainTurn /\ state[s] = "open" /\ w \in QueuedFor(s)
    BY <2>1, <2>2 DEF WorkInv, QueuedScopeOpen, QueuedFor
  <2>4. pendingResults[s] > 0
    BY <2>3, QueuedPositive
  <2>5. /\ turns' = [turns EXCEPT ![c] = s]
        /\ phase' = [phase EXCEPT ![c] = "starting"]
        /\ delivery'.step = "start" /\ delivery'.task = w /\ delivery'.taken = w
    BY <2>1, <2>2, <2>3, <2>4 DEF Delivery
  <2>6. CallInv'
    BY <1>2, <1>3, <2>1, <2>3, <2>5 DEF CallInv, Counted, WorkInv
  <2>7. TrackInv'
    BY <1>1, <1>2, <1>3, <2>1, <2>2, <2>5 DEF TrackInv, Reserved, Gone, InHand, Abandoned
  <2>8. OrderInv' /\ HeldInv'
    BY <1>1, <1>2, <1>3, <2>1, <2>5 DEF OrderInv, HeldInv, Behind, Gone, Abandoned
  <2> QED BY <2>6, <2>7, <2>8 DEF SettleInv
<1> QED BY <1>4, <1>5

LEMMA SettleContinue ==
  ASSUME AccountingInv, SettleInv, ContinuationAccepted
  PROVE  SettleInv'
<1> USE AccountingParts, SettleParts
<1>1. PICK w \in Work : w = delivery.task /\ work[w] = "published"
  BY DEF ContinuationAccepted, DeliveryInv
<1>2. PICK c \in Turn : c = delivery.turn /\ phase[c] = "starting"
  BY DEF ContinuationAccepted, ReservationInv, Turn
<1>3. /\ UNCHANGED <<state, turns, origin, assignments, sequence,
                     nextAssignment, assignmentScope, cancelledSubagents, closed,
                     deliveries>>
      /\ delivery.step = "start" /\ delivery.taken = w /\ w \notin assignments
      /\ delivery'.step = "idle"
      /\ phase' = [phase EXCEPT ![c] = "running"]
      /\ work' = [work EXCEPT ![w] = "delivered"]
  BY <1>1, <1>2 DEF ContinuationAccepted, HeldInv, ReservationInv, IdleDelivery, At, Delivery
<1>4. CallInv'
  BY <1>1, <1>2, <1>3 DEF CallInv, Counted, WorkInv
<1>5. TrackInv'
  BY <1>1, <1>3 DEF TrackInv, Reserved, Gone, InHand, Abandoned
<1>6. OrderInv' /\ HeldInv'
  BY <1>1, <1>3 DEF OrderInv, HeldInv, Behind, Gone, Abandoned
<1> QED BY <1>4, <1>5, <1>6 DEF SettleInv

LEMMA SettleContinuationRejected ==
  ASSUME Settling, AccountingInv, SettleInv, NEW giveUp \in BOOLEAN,
         ContinuationRejected(giveUp)
  PROVE  SettleInv'
<1> USE AccountingParts, SettleParts
<1>1. PICK w \in Work : w = delivery.task /\ work[w] = "published"
  BY DEF ContinuationRejected, DeliveryInv
<1>2. PICK c \in Turn : c = delivery.turn /\ phase[c] = "starting"
  BY DEF ContinuationRejected, ReservationInv, Turn
<1>3. giveUp = FALSE /\ delivery.step = "start" /\ delivery.taken = w
  BY <1>1 DEF ContinuationRejected, Settling, HeldInv
<1>4. /\ UNCHANGED <<state, origin, work, sequence, nextAssignment,
                     assignmentScope, cancelledSubagents, closed, deliveries>>
      /\ turns' = [turns EXCEPT ![c] = NoTurn]
      /\ phase' = [phase EXCEPT ![c] = "idle"]
      /\ delivery'.step = "check" /\ delivery'.task = w
  BY <1>1, <1>2, <1>3 DEF ContinuationRejected, UnbindContinuation, At, Delivery
<1>5. assignments' = IF Gone(w) THEN assignments ELSE assignments \cup {w}
  BY <1>1, <1>3, ConstantsAssumption DEF ContinuationRejected, RestoreAssignment, Gone
<1>6. CallInv'
  BY <1>2, <1>4 DEF CallInv, Counted, WorkInv
<1>7. TrackInv'
  BY <1>1, <1>3, <1>4, <1>5 DEF TrackInv, Reserved, Gone, InHand, Abandoned
<1>8. OrderInv' /\ HeldInv'
  BY <1>1, <1>3, <1>4, <1>5 DEF OrderInv, HeldInv, Behind, Gone, Abandoned
<1> QED BY <1>6, <1>7, <1>8 DEF SettleInv

\* With the steps' lemmas: every step keeps the invariant.
LEMMA SettleNext ==
  ASSUME Settling, AccountingInv, AccountingInv', SettleInv, [Next]_vars
  PROVE  SettleInv'
<1>1. CASE UNCHANGED vars
  BY <1>1, FrameCall, FrameTrack, FrameOrder, FrameHeld
     DEF vars, SettleInv
<1>2. ASSUME NEW t \in Turn,
             \/ t \in MainTurn /\ BeginMainAgentTurn(t)
             \/ t \in MainTurn /\ AcceptMainAgentTurn(t)
             \/ t \in MainTurn /\ RollbackMainAgentTurn(t)
             \/ RunEnds(t) \/ FinishStep(t)
      PROVE  SettleInv'
  BY <1>2, SettleTurnSteps
<1>3. ASSUME NEW w \in Work,
             \/ \E t \in Turn : StartWork(w, t)
             \/ RegisterAssignmentMetadata(w) \/ KeepRegistration(w)
             \/ RollbackRegistration(w) \/ WorkEnds(w)
      PROVE  SettleInv'
  BY <1>3, SettleStartWork, SettleRegister, SettleKeep, SettleRollbackRegistration,
     SettleWorkEnds
<1>4. ASSUME NEW a \in Subagent, CloseRecord(a) \/ CancelSubagentAssignments(a)
      PROVE  SettleInv'
  BY <1>4, SettleCloseSteps
<1>5. CASE DeliveryStepTaken
  BY <1>5, SettleTake, SettleCheck, SettleReserveInline, SettleInject,
     SettleInjectRejected, SettleReserve, SettleContinue, SettleContinuationRejected
     DEF DeliveryStepTaken
<1>6. ~\E t \in Turn, k \in EndTool, b \in BOOLEAN : BeginEndTool(t, k, b)
  BY DEF Settling
<1>7. CASE EndToolStep
  <2>1. UNCHANGED <<state, turns, phase, work, origin, assignments, sequence,
                    nextAssignment, assignmentScope, cancelledSubagents, closed,
                    deliveries, delivery>>
    BY <1>7 DEF EndToolStep, EndToolPreEnd, EndToolReturns
  <2> QED BY <2>1, FrameCall, FrameTrack, FrameOrder, FrameHeld DEF SettleInv
<1> QED
  BY <1>1, <1>2, <1>3, <1>4, <1>5, <1>6, <1>7 DEF Next, Turn

LEMMA SettleAlways ==
  ASSUME Settling
  PROVE  Spec => [](AccountingInv /\ SettleInv)
<1>1. LateCaller = {}
  BY ConstantsAssumption DEF Settling
<1>2. Init => SettleInv
  BY SettleInit
<1>3. AccountingInv /\ AccountingInv' /\ SettleInv /\ [Next]_vars => SettleInv'
  BY SettleNext
<1> QED BY <1>1, <1>2, <1>3, AccountingCorrect, PTL DEF Spec

\* Where results settle their own assignments, a scope that is no longer open
\* is owed nothing: a result it accepted responsibility for was delivered or
\* rejected, or its subagent was closed, for any number of turns, subagents and
\* works, through every retry and rollback of a delivery.
THEOREM EndedScopesOweNothing ==
  ASSUME Settling
  PROVE  Spec => []EndedScopeOwesNothing
<1>1. AccountingInv /\ SettleInv => EndedScopeOwesNothing
  <2> SUFFICES ASSUME AccountingInv, SettleInv, NEW w \in Work,
                      assignmentScope[w] # NoTurn, state[assignmentScope[w]] # "open"
               PROVE  work[w] \in {"delivered", "rejected"} \/ SubagentOf[w] \in closed
    BY DEF EndedScopeOwesNothing
  <2> USE AccountingParts, SettleParts
  <2>1. w \notin assignments
    BY DEF QueuedScopeOpen
  <2>2. ~Reserved(w)
    BY DEF Reserved, ReservationInv
  <2> QED BY <2>1, <2>2 DEF TrackInv
<1> QED BY <1>1, SettleAlways, PTL

\* There the first assignment that a reservation pops is always the one of the
\* result at hand, and the result goes to a turn of the scope that accepted it.
THEOREM ResultsSettleOwnAssignments ==
  ASSUME Settling
  PROVE  Spec => SettlesOwnAssignment
<1> DEFINE Settles ==
      \A w \in Work : deliveredIn'[w] # deliveredIn[w] =>
        /\ delivery.taken = w
        /\ turns[deliveredIn'[w]] = assignmentScope[w]
<1>1. AccountingInv /\ SettleInv /\ [Next]_vars => [Settles]_deliveredIn
  <2> SUFFICES ASSUME AccountingInv, SettleInv, [Next]_vars, deliveredIn' # deliveredIn
               PROVE  Settles
    OBVIOUS
  <2> USE AccountingParts, SettleParts
  <2>1. deliveredIn \in [Work -> Turn \cup {NoTurn}]
    BY SMTT(30) DEF TypeOK
  <2>2. InjectAccepted \/ ContinuationAccepted
    BY DEF vars, Next, FinishStep, DeliveryStepTaken, EndToolStep,
           BeginMainAgentTurn, AcceptMainAgentTurn, RollbackMainAgentTurn, RunEnds,
           FinishTurn, FinishTurnPreEnd, FinishTurnRemoveScope, StartWork,
           RegisterAssignmentMetadata, KeepRegistration, RollbackRegistration,
           WorkEnds, CloseRecord, CancelSubagentAssignments, TakeDelivery,
           CheckActiveTurn, ReserveInlineResult, InjectRejected,
           ContinuationRejected, ReserveResultTurn, BeginEndTool, EndToolPreEnd,
           EndToolReturns
  <2>3. CASE InjectAccepted
    <3>1. /\ delivery.step = "inline" /\ delivery.task \in Work
          /\ deliveredIn' = [deliveredIn EXCEPT ![delivery.task] = origin[delivery.task]]
      BY <2>3 DEF InjectAccepted, DeliveryInv
    <3>2. /\ delivery.taken = delivery.task
          /\ turns[origin[delivery.task]] = assignmentScope[delivery.task]
      BY <3>1 DEF HeldInv, ReservationInv
    <3> QED BY <2>1, <3>1, <3>2
  <2>4. CASE ContinuationAccepted
    <3>1. /\ delivery.step = "start" /\ delivery.task \in Work
          /\ deliveredIn' = [deliveredIn EXCEPT ![delivery.task] = delivery.turn]
      BY <2>4 DEF ContinuationAccepted, DeliveryInv
    <3>2. /\ delivery.taken = delivery.task
          /\ turns[delivery.turn] = assignmentScope[delivery.task]
      BY <3>1 DEF HeldInv, ReservationInv
    <3> QED BY <2>1, <3>1, <3>2
  <2> QED BY <2>2, <2>3, <2>4
<1> QED BY <1>1, SettleAlways, PTL DEF Spec, SettlesOwnAssignment
=============================================================================
