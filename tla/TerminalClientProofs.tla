------------------------ MODULE TerminalClientProofs ------------------------
(***************************************************************************)
(* The terminal's goroutines, however their lock sections interleave: no   *)
(* open approval is lost from the queue, a prompt is drawn for the active  *)
(* one, the main view and the log view are exact, and a settled approval   *)
(* leaves.  The invariant says of goroutines stopped anywhere which of     *)
(* them still has to do what is missing.                                   *)
(***************************************************************************)
EXTENDS TerminalClient, SequenceTheorems, FiniteSetTheorems, WellFoundedInduction, TLAPS

(* The invariant of the terminal. *)

AEvent == {"requested", "settled"} \X Approval
MEvent == AEvent \cup {<<"text", None>>}

Adds ==
  {<<"add", a, queueApproval(a)>> : a \in Approval} \cup {<<"add", a, queueApprovalWhileRendering(a)>> : a \in Approval}
ViewStep == {<<"clear">>, <<"show">>, <<"snapshot">>} \cup ({"stream"} \X Sub)
Step ==
  ({"append", "drop", "mark", "look", "paint", "resolve"} \X Approval) \cup ({"activate"} \X BOOLEAN)
  \cup ({"draw"} \X Approval \X (Sub \cup {Main})) \cup {<<"unlock">>} \cup ViewStep \cup Adds

RendererType ==
  [state : {"none", "start", "retained", "live", "over"}, id : Sub \cup {None}, epoch : Nat, next : Nat]

WorldType ==
  /\ truth \in [Approval -> {"new", "open", "answered", "settled"}]
  /\ subLog \in [Sub -> Seq(AEvent)] /\ feed \in [Kinds -> Seq(AEvent)] /\ mainLog \in Seq(MEvent)

ClientType ==
  /\ pending \subseteq Approval /\ approvalOrder \in Seq(Approval) /\ activeApproval \in Approval \cup {None}
  /\ renderMu \in Actor \cup {None}
  /\ todo \in [Actor -> Seq(Step)]
  /\ view \in Sub \cup {Main} /\ epoch \in Nat /\ logView \in BOOLEAN
  /\ renderer \in [Viewer -> RendererType]
  /\ \A r \in Viewer : renderer[r].state # "none" <=> renderer[r].id # None

TurnType ==
  /\ typed \in Nat /\ turn \in 0..typed /\ promptQueue \in Seq(1..typed)
  /\ mainNext \in 1..(Len(mainLog) + 1) /\ replayThrough \in Nat /\ hasRun \in BOOLEAN
  /\ shown \in Approval \cup {None} /\ drawn \in Seq(Nat) /\ wiped \in BOOLEAN

LogType ==
  /\ nextSequence \in Nat /\ updates \in Seq(Nat) /\ logSequence \in Nat /\ logScreen \in Seq(Nat)

TerminalType == WorldType /\ ClientType /\ TurnType /\ LogType

\* What a goroutine still has to do.
Items(s) == {s[i] : i \in 1..Len(s)}
Work(x) == Items(todo[x])
Works(e) == \E x \in Actor : e \in Work(x)
Activating == \E x \in Actor : \E e \in Work(x) : e[1] = "activate"

\* What follows what in such a list.
Ordered(s) ==
  \A i \in 1..Len(s) :
    /\ s[i][1] \in {"append", "mark"} => \E j \in (i + 1)..Len(s) : s[j][1] = "activate"
    /\ s[i][1] = "drop" => \E j \in (i + 1)..Len(s) : s[j] = <<"mark", s[i][2]>>
    /\ s[i][1] = "clear" => \E j \in (i + 1)..Len(s) : s[j][1] \in {"stream", "snapshot"}
ListInv == \A x \in Actor : Ordered(todo[x])

\* Events are about approvals that were requested, and a settled one stays so.
Known(e) == truth[e[2]] # "new" /\ (e[1] = "settled" => truth[e[2]] = "settled")
EventInv ==
  /\ \A e \in Items(mainLog) : e[1] # "text" => Known(e) /\ Owner[e[2]] = Main
  /\ \A s \in Sub : \A e \in Items(subLog[s]) : Known(e) /\ Owner[e[2]] = s
  /\ \A k \in Kinds : \A e \in Items(feed[k]) : Known(e) /\ Owner[e[2]] \in Sub /\ Kind[e[2]] = k

\* No open approval is lost.
Settling == {"answered", "settled"}
QueueInv ==
  /\ \A a \in pending : truth[a] # "new"
  /\ \A x \in Actor : \A e \in Work(x) :
       /\ e[1] \in {"drop", "mark"} => truth[e[2]] \in Settling
       /\ e[1] = "add" => truth[e[2]] # "new"
  /\ \A a \in pending : truth[a] = "open" =>
       /\ a = activeApproval \/ a \in Items(approvalOrder) \/ Works(<<"append", a>>)
       /\ activeApproval = None /\ a \in Items(approvalOrder) => Activating

\* The input goroutine alone changes the view, and rebuilds it.
ViewInv ==
  /\ \A x \in Actor : \A e \in Work(x) :
       /\ e[1] \in {"clear", "show", "snapshot", "stream"} => x = "input"
       /\ e[1] = "clear" => view # Main
       /\ e[1] = "stream" => e[2] = view
  /\ \A r \in Viewer : renderer[r].state # "none" =>
       renderer[r].epoch <= epoch /\ (renderer[r].epoch = epoch => renderer[r].id = view)

\* Who will draw the active approval.
Drawing ==
  \/ \E x \in Actor : \E e \in Work(x) :
       \/ e[1] \in {"look", "paint", "show", "snapshot", "stream"}
       \/ e[1] = "draw" /\ e[3] = view
  \/ \E r \in Viewer : renderer[r].state \in {"start", "retained"} /\ renderer[r].id = view
PromptInv ==
  activeApproval # None =>
    /\ activeApproval \in pending \/ Works(<<"mark", activeApproval>>)
    /\ ~logView /\ ~wiped /\ shown = None => Drawing \/ Works(<<"mark", activeApproval>>)

\* What is drawn of the main run.
Highest(i, j) == IF i < j THEN j ELSE i
MainInv ==
  /\ hasRun => replayThrough <= Len(mainLog)
  /\ InView(Main) /\ hasRun /\ ~wiped /\ <<"show">> \notin Work("input") =>
       /\ Len(drawn) = Highest(replayThrough, mainNext - 1)
       /\ \A i \in 1..Len(drawn) : drawn[i] = i

\* What is shown of the log.
LogInv ==
  /\ Len(updates) <= nextSequence /\ Len(updates) <= UpdateLimit
  /\ \A i \in 1..Len(updates) : updates[i] = nextSequence - Len(updates) + i
  /\ logSequence <= nextSequence
  /\ logView =>
       /\ updates = <<>> => logSequence = nextSequence
       /\ Len(logScreen) <= logSequence /\ Len(logScreen) >= Len(Newest(logSequence))
       /\ \A i \in 1..Len(logScreen) : logScreen[i] = logSequence - Len(logScreen) + i

\* A settlement follows its request, and who has read the request will read it.
SortedBy(t, log) ==
  \A n \in 1..Len(log) : log[n][1] = "requested" /\ t[log[n][2]] = "settled" =>
    \E l \in (n + 1)..Len(log) : log[l] = <<"settled", log[n][2]>>
Sorted(log) == SortedBy(truth, log)
SourceInv ==
  /\ Sorted(mainLog) /\ (\A s \in Sub : Sorted(subLog[s])) /\ (\A k \in Kinds : Sorted(feed[k]))
  /\ \A r \in Viewer : renderer[r].state \in {"retained", "live"} =>
       renderer[r].next \in 1..(Len(subLog[renderer[r].id]) + 1)
  /\ turn = 0 \/ mainDone => \A a \in Approval : Owner[a] = Main => truth[a] \notin {"open", "answered"}
  /\ turn = 0 => mainNext = Len(mainLog) + 1
  /\ \A x \in Actor : \A e \in Work(x) : e[1] = "add" =>
       \/ x = "input" /\ Owner[e[2]] = Main
       \/ x = Kind[e[2]] /\ Owner[e[2]] \in Sub
       \/ x \in Viewer /\ renderer[x].state = "live" /\ renderer[x].id = Owner[e[2]]

MainAhead(a) == \E l \in mainNext..Len(mainLog) : mainLog[l] = <<"settled", a>>
FeedAhead(a) == <<"settled", a>> \in Items(feed[Kind[a]])
ViewAhead(r, a) ==
  /\ renderer[r].state = "live" /\ renderer[r].id = Owner[a]
  /\ \E l \in renderer[r].next..Len(subLog[Owner[a]]) : subLog[Owner[a]][l] = <<"settled", a>>
Ahead(x, a) ==
  \/ x = "input" /\ MainAhead(a)
  \/ x = Kind[a] /\ FeedAhead(a)
  \/ x \in Viewer /\ ViewAhead(x, a)
SettleInv ==
  /\ \A a \in pending : truth[a] = "settled" =>
       Works(<<"drop", a>>) \/ (\E x \in Actor : Ahead(x, a)) \/ LeftView(a)
  /\ \A x \in Actor : \A e \in Work(x) : e[1] = "add" /\ truth[e[2]] = "settled" => Ahead(x, e[2])

TerminalInv ==
  /\ TerminalType /\ ListInv /\ EventInv /\ QueueInv /\ ViewInv /\ PromptInv /\ MainInv /\ LogInv
  /\ SourceInv /\ SettleInv
-----------------------------------------------------------------------------
(* Lists and what they hold. *)

LEMMA ItemsOf ==
  ASSUME NEW S, NEW s \in Seq(S)
  PROVE  /\ Items(s) \subseteq S /\ Len(s) \in Nat
         /\ s = <<>> <=> Items(s) = {}
         /\ \A e : e \in Items(s) <=> \E i \in 1..Len(s) : s[i] = e
<1>1. Len(s) \in Nat /\ (s = <<>> <=> Len(s) = 0) BY EmptySeq
<1>2. s # <<>> => 1 \in 1..Len(s) BY <1>1
<1>3. s = <<>> <=> Items(s) = {} BY <1>1, <1>2 DEF Items
<1>4. \A i \in 1..Len(s) : s[i] \in S OBVIOUS
<1>5. Items(s) \subseteq S BY <1>4 DEF Items
<1> QED BY <1>1, <1>3, <1>5 DEF Items

LEMMA ItemsEmpty == Items(<<>>) = {}
  BY DEF Items

LEMMA ItemsHead ==
  ASSUME NEW S, NEW s \in Seq(S), s # <<>>
  PROVE  /\ Head(s) \in S /\ Tail(s) \in Seq(S) /\ Head(s) = s[1] /\ Len(s) >= 1 /\ Len(s) \in Nat
         /\ Len(Tail(s)) = Len(s) - 1 /\ \A i \in 1..(Len(s) - 1) : Tail(s)[i] = s[i + 1]
         /\ Items(s) = {Head(s)} \cup Items(Tail(s))
<1>1. /\ Len(s) \in Nat /\ Len(s) >= 1 /\ Head(s) = s[1] /\ Head(s) \in S /\ Tail(s) \in Seq(S)
      /\ Len(Tail(s)) = Len(s) - 1
  BY EmptySeq, HeadTailProperties
<1>2. \A i \in 1..(Len(s) - 1) : Tail(s)[i] = s[i + 1] BY <1>1, HeadTailProperties
<1>3. ASSUME NEW e \in Items(s) PROVE e \in {Head(s)} \cup Items(Tail(s))
  <2>1. PICK i \in 1..Len(s) : s[i] = e BY DEF Items
  <2>2. CASE i = 1 BY <1>1, <2>1, <2>2
  <2>3. CASE i # 1
    <3>1. i - 1 \in 1..(Len(s) - 1) /\ (i - 1) + 1 = i BY <1>1, <2>3
    <3>2. Tail(s)[i - 1] = e BY <1>2, <2>1, <3>1
    <3> QED BY <1>1, <3>1, <3>2 DEF Items
  <2> QED BY <2>2, <2>3
<1>4. ASSUME NEW e \in Items(Tail(s)) PROVE e \in Items(s)
  <2>1. PICK i \in 1..(Len(s) - 1) : Tail(s)[i] = e BY <1>1 DEF Items
  <2>2. i + 1 \in 1..Len(s) /\ s[i + 1] = e BY <1>1, <1>2, <2>1
  <2> QED BY <2>2 DEF Items
<1>5. Head(s) \in Items(s) BY <1>1 DEF Items
<1> QED BY <1>1, <1>2, <1>3, <1>4, <1>5

LEMMA ItemsConcat ==
  ASSUME NEW S, NEW p \in Seq(S), NEW q \in Seq(S)
  PROVE  p \o q \in Seq(S) /\ Items(p \o q) = Items(p) \cup Items(q)
<1>1. /\ p \o q \in Seq(S) /\ Len(p \o q) = Len(p) + Len(q) /\ Len(p) \in Nat /\ Len(q) \in Nat
      /\ \A i \in 1..(Len(p) + Len(q)) : (p \o q)[i] = IF i <= Len(p) THEN p[i] ELSE q[i - Len(p)]
  BY ConcatProperties
<1>2. ASSUME NEW e \in Items(p \o q) PROVE e \in Items(p) \cup Items(q)
  <2>1. PICK i \in 1..(Len(p) + Len(q)) : (p \o q)[i] = e BY <1>1 DEF Items
  <2>2. CASE i <= Len(p) BY <1>1, <2>1, <2>2 DEF Items
  <2>3. CASE ~(i <= Len(p))
    <3>1. i - Len(p) \in 1..Len(q) /\ q[i - Len(p)] = e BY <1>1, <2>1, <2>3
    <3> QED BY <3>1 DEF Items
  <2> QED BY <2>2, <2>3
<1>3. ASSUME NEW e \in Items(p) PROVE e \in Items(p \o q)
  <2>1. PICK i \in 1..Len(p) : p[i] = e BY DEF Items
  <2>2. i \in 1..(Len(p) + Len(q)) /\ (p \o q)[i] = e BY <1>1, <2>1
  <2> QED BY <1>1, <2>2 DEF Items
<1>4. ASSUME NEW e \in Items(q) PROVE e \in Items(p \o q)
  <2>1. PICK i \in 1..Len(q) : q[i] = e BY DEF Items
  <2>2. i + Len(p) \in 1..(Len(p) + Len(q)) /\ ~(i + Len(p) <= Len(p)) /\ (i + Len(p)) - Len(p) = i
    BY <1>1, <2>1
  <2>3. (p \o q)[i + Len(p)] = e BY <1>1, <2>1, <2>2
  <2> QED BY <1>1, <2>2, <2>3 DEF Items
<1> QED BY <1>1, <1>2, <1>3, <1>4

LEMMA ItemsAppend ==
  ASSUME NEW S, NEW s \in Seq(S), NEW e \in S
  PROVE  /\ Append(s, e) \in Seq(S) /\ Len(Append(s, e)) = Len(s) + 1 /\ Len(s) \in Nat
         /\ \A i \in 1..Len(s) : Append(s, e)[i] = s[i]
         /\ Append(s, e)[Len(s) + 1] = e
         /\ Items(Append(s, e)) = Items(s) \cup {e}
<1>1. /\ Append(s, e) \in Seq(S) /\ Len(Append(s, e)) = Len(s) + 1 /\ Len(s) \in Nat
      /\ \A i \in 1..Len(s) : Append(s, e)[i] = s[i]
      /\ Append(s, e)[Len(s) + 1] = e
  OBVIOUS
<1>2. ASSUME NEW f \in Items(Append(s, e)) PROVE f \in Items(s) \cup {e}
  <2>1. PICK i \in 1..(Len(s) + 1) : Append(s, e)[i] = f BY <1>1 DEF Items
  <2>2. CASE i = Len(s) + 1 BY <1>1, <2>1, <2>2
  <2>3. CASE i # Len(s) + 1
    <3>1. i \in 1..Len(s) BY <1>1, <2>3
    <3>2. s[i] = f BY <1>1, <2>1, <3>1
    <3> QED BY <3>1, <3>2 DEF Items
  <2> QED BY <2>2, <2>3
<1>3. ASSUME NEW f \in Items(s) PROVE f \in Items(Append(s, e))
  <2>1. PICK i \in 1..Len(s) : s[i] = f BY DEF Items
  <2>2. i \in 1..(Len(s) + 1) /\ Append(s, e)[i] = f BY <1>1, <2>1
  <2> QED BY <1>1, <2>2 DEF Items
<1>4. e \in Items(Append(s, e))
  <2>1. Len(s) + 1 \in 1..(Len(s) + 1) BY <1>1
  <2> QED BY <1>1, <2>1 DEF Items
<1>5. Items(Append(s, e)) = Items(s) \cup {e} BY <1>2, <1>3, <1>4
<1> QED BY <1>1, <1>5

LEMMA ItemsShort ==
  ASSUME NEW a, NEW b, NEW c
  PROVE  /\ Items(<<a>>) = {a} /\ Items(<<a, b>>) = {a, b} /\ Items(<<a, b, c>>) = {a, b, c}
<1>1. 1..1 = {1} /\ 1..2 = {1, 2} /\ 1..3 = {1, 2, 3} OBVIOUS
<1>2. Items(<<a>>) = {a} BY <1>1 DEF Items
<1>3. Items(<<a, b>>) = {a, b} BY <1>1 DEF Items
<1>4. Items(<<a, b, c>>) = {a, b, c} BY <1>1 DEF Items
<1> QED BY <1>2, <1>3, <1>4

LEMMA OrderedConcat ==
  ASSUME NEW S, NEW p \in Seq(S), NEW q \in Seq(S), Ordered(p), Ordered(q)
  PROVE  Ordered(p \o q)
<1> DEFINE s == p \o q
<1>1. /\ Len(s) = Len(p) + Len(q) /\ Len(p) \in Nat /\ Len(q) \in Nat
      /\ \A i \in 1..Len(p) : s[i] = p[i]
      /\ \A i \in 1..Len(q) : s[Len(p) + i] = q[i]
  BY ConcatProperties
<1> HIDE DEF s
<1> SUFFICES ASSUME NEW i \in 1..Len(s)
             PROVE  /\ s[i][1] \in {"append", "mark"} => \E j \in (i + 1)..Len(s) : s[j][1] = "activate"
                    /\ s[i][1] = "drop" => \E j \in (i + 1)..Len(s) : s[j] = <<"mark", s[i][2]>>
                    /\ s[i][1] = "clear" => \E j \in (i + 1)..Len(s) : s[j][1] \in {"stream", "snapshot"}
  BY DEF Ordered, s
<1>2. CASE i <= Len(p)
  <2>1. i \in 1..Len(p) /\ s[i] = p[i] BY <1>1, <1>2
  <2>2. \A j \in (i + 1)..Len(p) : j \in (i + 1)..Len(s) /\ s[j] = p[j] BY <1>1, <2>1
  <2>3. /\ p[i][1] \in {"append", "mark"} => \E j \in (i + 1)..Len(p) : p[j][1] = "activate"
        /\ p[i][1] = "drop" => \E j \in (i + 1)..Len(p) : p[j] = <<"mark", p[i][2]>>
        /\ p[i][1] = "clear" => \E j \in (i + 1)..Len(p) : p[j][1] \in {"stream", "snapshot"}
    BY <2>1 DEF Ordered
  <2> QED BY <2>1, <2>2, <2>3
<1>3. CASE ~(i <= Len(p))
  <2> DEFINE k == i - Len(p)
  <2>1. k \in 1..Len(q) /\ i = Len(p) + k /\ s[i] = q[k] BY <1>1, <1>3, SMTT(30)
  <2>2. \A j \in (k + 1)..Len(q) : Len(p) + j \in (i + 1)..Len(s) /\ s[Len(p) + j] = q[j]
    BY <1>1, <2>1
  <2> HIDE DEF k
  <2>3. /\ q[k][1] \in {"append", "mark"} => \E j \in (k + 1)..Len(q) : q[j][1] = "activate"
        /\ q[k][1] = "drop" => \E j \in (k + 1)..Len(q) : q[j] = <<"mark", q[k][2]>>
        /\ q[k][1] = "clear" => \E j \in (k + 1)..Len(q) : q[j][1] \in {"stream", "snapshot"}
    BY <2>1 DEF Ordered
  <2> QED BY <2>1, <2>2, <2>3
<1> QED BY <1>2, <1>3

LEMMA OrderedTail ==
  ASSUME NEW S, NEW s \in Seq(S), s # <<>>, Ordered(s)
  PROVE  /\ Ordered(Tail(s))
         /\ Head(s)[1] \in {"append", "mark"} => \E e \in Items(Tail(s)) : e[1] = "activate"
         /\ Head(s)[1] = "drop" => <<"mark", Head(s)[2]>> \in Items(Tail(s))
         /\ Head(s)[1] = "clear" => \E e \in Items(Tail(s)) : e[1] \in {"stream", "snapshot"}
<1> DEFINE t == Tail(s)
<1>1. /\ t \in Seq(S) /\ Head(s) = s[1] /\ Len(s) >= 1 /\ Len(s) \in Nat
      /\ Len(t) = Len(s) - 1 /\ \A i \in 1..(Len(s) - 1) : t[i] = s[i + 1]
  BY ItemsHead
<1> HIDE DEF t
<1>2. \A j \in 2..Len(s) : j - 1 \in 1..Len(t) /\ t[j - 1] = s[j]
  BY <1>1
<1>3. \A j \in 2..Len(s) : s[j] \in Items(t) BY <1>2 DEF Items
<1>4. Ordered(t)
  <2> SUFFICES ASSUME NEW i \in 1..Len(t)
               PROVE  /\ t[i][1] \in {"append", "mark"} => \E j \in (i + 1)..Len(t) : t[j][1] = "activate"
                      /\ t[i][1] = "drop" => \E j \in (i + 1)..Len(t) : t[j] = <<"mark", t[i][2]>>
                      /\ t[i][1] = "clear" => \E j \in (i + 1)..Len(t) : t[j][1] \in {"stream", "snapshot"}
    BY DEF Ordered
  <2>1. i + 1 \in 1..Len(s) /\ t[i] = s[i + 1] BY <1>1
  <2>2. \A j \in ((i + 1) + 1)..Len(s) : j - 1 \in (i + 1)..Len(t) /\ t[j - 1] = s[j] BY <1>1, <1>2
  <2> DEFINE k == i + 1
  <2>3. k \in 1..Len(s) /\ t[i] = s[k] /\ \A j \in (k + 1)..Len(s) : j - 1 \in (i + 1)..Len(t) /\ t[j - 1] = s[j]
    BY <2>1, <2>2
  <2> HIDE DEF k
  <2>4. /\ s[k][1] \in {"append", "mark"} => \E j \in (k + 1)..Len(s) : s[j][1] = "activate"
        /\ s[k][1] = "drop" => \E j \in (k + 1)..Len(s) : s[j] = <<"mark", s[k][2]>>
        /\ s[k][1] = "clear" => \E j \in (k + 1)..Len(s) : s[j][1] \in {"stream", "snapshot"}
    BY <2>3 DEF Ordered
  <2> QED BY <2>3, <2>4
<1>5. 1 \in 1..Len(s) /\ 1 + 1 = 2 BY <1>1
<1>6. /\ s[1][1] \in {"append", "mark"} => \E j \in 2..Len(s) : s[j][1] = "activate"
      /\ s[1][1] = "drop" => \E j \in 2..Len(s) : s[j] = <<"mark", s[1][2]>>
      /\ s[1][1] = "clear" => \E j \in 2..Len(s) : s[j][1] \in {"stream", "snapshot"}
  BY <1>5 DEF Ordered
<1> QED BY <1>1, <1>3, <1>4, <1>6 DEF t
-----------------------------------------------------------------------------
(* Steps, and the lists that goroutines begin. *)

LEMMA StepKind ==
  ASSUME NEW e \in Step
  PROVE  /\ e[1] \in {"append", "drop", "mark", "look", "paint", "resolve"} => e[2] \in Approval
         /\ e[1] \in {"append", "drop", "mark"} => e = <<e[1], e[2]>>
         /\ e[1] = "activate" => e[2] \in BOOLEAN
         /\ e[1] = "draw" => e[2] \in Approval /\ e[3] \in Sub \cup {Main}
         /\ e[1] = "add" =>
              e[2] \in Approval /\ e[3] \in {queueApproval(e[2]), queueApprovalWhileRendering(e[2])}
         /\ e[1] = "stream" => e[2] \in Sub /\ e = <<"stream", e[2]>>
         /\ e[1] = "show" => e = <<"show">>
<1>1. CASE e \in {"append", "drop", "mark", "look", "paint", "resolve"} \X Approval BY <1>1
<1>2. CASE e \in {"activate"} \X BOOLEAN BY <1>2
<1>3. CASE e \in {"draw"} \X Approval \X (Sub \cup {Main}) BY <1>3
<1>4. CASE e \in {<<"unlock">>, <<"clear">>, <<"show">>, <<"snapshot">>} BY <1>4
<1>5. CASE e \in {"stream"} \X Sub BY <1>5
<1>6. CASE e \in Adds BY <1>6 DEF Adds
<1> QED BY <1>1, <1>2, <1>3, <1>4, <1>5, <1>6 DEF Step, ViewStep

LEMMA StepIn ==
  /\ \A a \in Approval :
       /\ {<<"append", a>>, <<"drop", a>>, <<"mark", a>>, <<"look", a>>, <<"paint", a>>, <<"resolve", a>>} \subseteq Step
       /\ <<"add", a, queueApproval(a)>> \in Step /\ <<"add", a, queueApprovalWhileRendering(a)>> \in Step
       /\ \A v \in Sub \cup {Main} : <<"draw", a, v>> \in Step
  /\ \A b \in BOOLEAN : <<"activate", b>> \in Step
  /\ {<<"unlock">>, <<"clear">>, <<"show">>, <<"snapshot">>} \subseteq Step
  /\ \A s \in Sub : <<"stream", s>> \in Step
<1>1. ASSUME NEW a \in Approval
      PROVE  <<"add", a, queueApproval(a)>> \in Step /\ <<"add", a, queueApprovalWhileRendering(a)>> \in Step
  BY DEF Step, Adds
<1>2. ASSUME NEW a \in Approval
      PROVE  /\ {<<"append", a>>, <<"drop", a>>, <<"mark", a>>, <<"look", a>>, <<"paint", a>>, <<"resolve", a>>} \subseteq Step
             /\ \A v \in Sub \cup {Main} : <<"draw", a, v>> \in Step
  BY DEF Step
<1>3. \A b \in BOOLEAN : <<"activate", b>> \in Step BY DEF Step
<1>4. {<<"unlock">>, <<"clear">>, <<"show">>, <<"snapshot">>} \subseteq Step BY DEF Step, ViewStep
<1>5. \A s \in Sub : <<"stream", s>> \in Step BY DEF Step, ViewStep
<1> QED BY <1>1, <1>2, <1>3, <1>4, <1>5

LEMMA ListOf ==
  /\ <<>> \in Seq(Step) /\ Ordered(<<>>)
  /\ \A e \in Step : e[1] \notin {"append", "mark", "drop", "clear"} => <<e>> \in Seq(Step) /\ Ordered(<<e>>)
<1>1. <<>> \in Seq(Step) /\ Ordered(<<>>) BY DEF Ordered
<1>2. ASSUME NEW e \in Step, e[1] \notin {"append", "mark", "drop", "clear"}
      PROVE  <<e>> \in Seq(Step) /\ Ordered(<<e>>)
  BY <1>2 DEF Ordered
<1> QED BY <1>1, <1>2

LEMMA QueueList ==
  ASSUME NEW a \in Approval, NEW b \in BOOLEAN, NEW p, p = << <<"append", a>>, <<"activate", b>> >>
  PROVE  p \in Seq(Step) /\ Ordered(p) /\ Items(p) = {<<"append", a>>, <<"activate", b>>}
<1>1. <<"append", a>> \in Step /\ <<"activate", b>> \in Step BY StepIn
<1>2. p \in Seq(Step) BY <1>1
<1>3. Ordered(p)
  <2>1. Len(p) = 2 /\ p[1][1] = "append" /\ p[2][1] = "activate" /\ 2 \in (1 + 1)..2 OBVIOUS
  <2>2. \A i \in 1..2 : i = 1 \/ i = 2 OBVIOUS
  <2> QED BY <2>1, <2>2 DEF Ordered
<1> QED BY <1>2, <1>3, ItemsShort

LEMMA SettleList ==
  ASSUME NEW a \in Approval, NEW b \in BOOLEAN,
         NEW p, p = << <<"drop", a>> >> \o << <<"mark", a>>, <<"activate", b>> >>
  PROVE  p \in Seq(Step) /\ Ordered(p) /\ Items(p) = {<<"drop", a>>, <<"mark", a>>, <<"activate", b>>}
<1>1. <<"drop", a>> \in Step /\ <<"mark", a>> \in Step /\ <<"activate", b>> \in Step BY StepIn
<1> DEFINE d == << <<"drop", a>> >>
<1> DEFINE c == << <<"mark", a>>, <<"activate", b>> >>
<1>2. /\ d \in Seq(Step) /\ c \in Seq(Step) /\ Len(d) = 1 /\ Len(c) = 2 /\ d[1] = <<"drop", a>>
      /\ c[1] = <<"mark", a>> /\ c[2] = <<"activate", b>>
  BY <1>1
<1>3. Items(d) = {<<"drop", a>>} /\ Items(c) = {<<"mark", a>>, <<"activate", b>>} BY ItemsShort
<1>4. p = d \o c OBVIOUS
<1> HIDE DEF d, c
<1>5. p \in Seq(Step) /\ Items(p) = {<<"drop", a>>, <<"mark", a>>, <<"activate", b>>}
  <2>1. d \o c \in Seq(Step) /\ Items(d \o c) = Items(d) \cup Items(c) BY ONLY <1>2, ItemsConcat
  <2> QED BY ONLY <1>3, <1>4, <2>1
<1>6. /\ Len(p) = 3 /\ \A i \in 1..3 : p[i] = IF i <= 1 THEN d[i] ELSE c[i - 1]
  <2>1. /\ Len(p) = Len(d) + Len(c)
        /\ \A i \in 1..(Len(d) + Len(c)) : p[i] = IF i <= Len(d) THEN d[i] ELSE c[i - Len(d)]
    <3>1. /\ Len(d \o c) = Len(d) + Len(c)
          /\ \A i \in 1..(Len(d) + Len(c)) : (d \o c)[i] = IF i <= Len(d) THEN d[i] ELSE c[i - Len(d)]
      BY ONLY <1>2, ConcatProperties
    <3> QED BY ONLY <1>4, <3>1
  <2>2. Len(d) + Len(c) = 3 BY <1>2
  <2> QED BY <1>2, <2>1, <2>2
<1>7. p[1] = <<"drop", a>> /\ p[2] = <<"mark", a>> /\ p[3] = <<"activate", b>> BY <1>2, <1>6
<1>8. Ordered(p)
  <2>1. /\ 2 \in (1 + 1)..3 /\ 3 \in (2 + 1)..3 /\ \A i \in 1..3 : i = 1 \/ i = 2 \/ i = 3
    OBVIOUS
  <2>2. /\ p[1][1] = "drop" /\ p[1][2] = a /\ p[2][1] = "mark" /\ p[3][1] = "activate" BY <1>7
  <2> QED BY <1>6, <1>7, <2>1, <2>2 DEF Ordered
<1> QED BY <1>5, <1>8

LEMMA ViewList ==
  ASSUME NEW e \in Step, e[1] \in {"stream", "snapshot"}, NEW p, p = << <<"clear">>, e >>
  PROVE  p \in Seq(Step) /\ Ordered(p) /\ Items(p) = {<<"clear">>, e}
<1>1. <<"clear">> \in Step BY StepIn
<1>2. p \in Seq(Step) BY <1>1
<1>3. Ordered(p)
  <2>1. Len(p) = 2 /\ p[1][1] = "clear" /\ p[2] = e /\ 2 \in (1 + 1)..2 OBVIOUS
  <2>2. \A i \in 1..2 : i = 1 \/ i = 2 OBVIOUS
  <2> QED BY <2>1, <2>2 DEF Ordered
<1> QED BY <1>2, <1>3, ItemsShort

\* What a goroutine does about an event of an approval.
Handles(p, e) ==
  /\ p \in Seq(Step) /\ Ordered(p)
  /\ \A f \in Items(p) :
       \/ f = <<"unlock">>
       \/ e[1] = "requested" /\ f[1] = "add" /\ f[2] = e[2]
       \/ e[1] = "settled" /\ (f[1] = "activate" \/ (f[1] \in {"drop", "mark"} /\ f[2] = e[2]))
  /\ e[1] = "settled" => <<"drop", e[2]>> \in Items(p)

LEMMA HandlesRequest ==
  ASSUME NEW a \in Approval, NEW q \in {queueApproval(a), queueApprovalWhileRendering(a)}
  PROVE  Handles(<< <<"add", a, q>> >>, <<"requested", a>>)
<1>1. <<"add", a, q>> \in Step BY StepIn
<1>2. /\ << <<"add", a, q>> >> \in Seq(Step) /\ Ordered(<< <<"add", a, q>> >>)
      /\ Items(<< <<"add", a, q>> >>) = {<<"add", a, q>>}
  BY <1>1, ListOf, ItemsShort
<1> QED BY <1>2 DEF Handles

LEMMA HandlesSettle ==
  ASSUME NEW a \in Approval, NEW b \in BOOLEAN
  PROVE  Handles(<< <<"drop", a>> >> \o << <<"mark", a>>, <<"activate", b>> >>, <<"settled", a>>)
<1> DEFINE p == << <<"drop", a>> >> \o << <<"mark", a>>, <<"activate", b>> >>
<1>1. p \in Seq(Step) /\ Ordered(p) /\ Items(p) = {<<"drop", a>>, <<"mark", a>>, <<"activate", b>>}
  BY SettleList
<1> HIDE DEF p
<1>2. Handles(p, <<"settled", a>>) BY <1>1 DEF Handles
<1> QED BY <1>2 DEF p

LEMMA Events ==
  \A e \in AEvent : e[2] \in Approval /\ e = <<e[1], e[2]>> /\ e[1] \in {"requested", "settled"}
  BY DEF AEvent

LEMMA Observes == ASSUME NEW e \in AEvent, NEW k \in Kinds PROVE Handles(observe(k, e), e)
<1>1. e[2] \in Approval /\ e = <<e[1], e[2]>> /\ e[1] \in {"requested", "settled"} BY Events
<1>2. observe(k, e) = IF e[1] = "requested" THEN << <<"add", e[2], queueApproval(e[2])>> >>
                      ELSE << <<"drop", e[2]>> >> \o << <<"mark", e[2]>>, <<"activate", FALSE>> >>
  BY DEF observe, observeSubagentPermission, observeSubagentConfirmation, observeSubagent, completeApproval
<1> QED BY <1>1, <1>2, HandlesRequest, HandlesSettle

LEMMA Renders ==
  ASSUME NEW e \in MEvent
  PROVE  /\ Handles(renderEventForSubagent(e), e)
         /\ Handles(renderEventForSubagent(e) \o << <<"unlock">> >>, e)
<1> DEFINE p == renderEventForSubagent(e)
<1>1. p = CASE e[1] = "requested" -> << <<"add", e[2], queueApprovalWhileRendering(e[2])>> >>
            [] e[1] = "settled" -> << <<"drop", e[2]>> >> \o << <<"mark", e[2]>>, <<"activate", TRUE>> >>
            [] OTHER -> <<>>
  BY DEF renderEventForSubagent, renderPermissionEvent, renderConfirmationEvent, completeApprovalWhileRendering
<1> HIDE DEF p
<1>2. Handles(p, e)
  <2>1. CASE e \in AEvent
    <3>1. e[2] \in Approval /\ e = <<e[1], e[2]>> /\ e[1] \in {"requested", "settled"} BY <2>1, Events
    <3> QED BY <1>1, <3>1, HandlesRequest, HandlesSettle
  <2>2. CASE e = <<"text", None>>
    <3>1. p = <<>> /\ e[1] = "text" BY <1>1, <2>2
    <3> QED BY <3>1, ListOf, ItemsEmpty DEF Handles
  <2> QED BY <2>1, <2>2 DEF MEvent
<1>3. Handles(p \o << <<"unlock">> >>, e)
  <2> DEFINE u == << <<"unlock">> >>
  <2>1. u \in Seq(Step) /\ Ordered(u) /\ Items(u) = {<<"unlock">>}
    <3>1. <<"unlock">> \in Step /\ <<"unlock">>[1] = "unlock" BY StepIn
    <3> QED BY <3>1, ListOf, ItemsShort
  <2>2. p \in Seq(Step) /\ Ordered(p) BY <1>2 DEF Handles
  <2> HIDE DEF u
  <2>3. p \o u \in Seq(Step) /\ Ordered(p \o u) /\ Items(p \o u) = Items(p) \cup {<<"unlock">>}
    BY <2>1, <2>2, ItemsConcat, OrderedConcat
  <2>4. Handles(p \o u, e) BY <1>2, <2>3 DEF Handles
  <2> QED BY <2>4 DEF u
<1> QED BY <1>2, <1>3 DEF p
-----------------------------------------------------------------------------
(* How a goroutine's list changes. *)

LEMMA ThenStep ==
  ASSUME todo \in [Actor -> Seq(Step)], ListInv, NEW x \in Actor, todo[x] # <<>>,
         NEW p \in Seq(Step), Ordered(p), Then(x, p)
  PROVE  /\ todo' \in [Actor -> Seq(Step)] /\ ListInv'
         /\ Do(x) \in Step /\ Do(x) \in Work(x)
         /\ \A y \in Actor : \A e \in Work(y) : e = Do(x) \/ e \in Work(y)'
         /\ \A y \in Actor : \A e \in Work(y)' : e \in Work(y) \/ (y = x /\ e \in Items(p))
         /\ Items(p) \subseteq Work(x)' /\ Items(Tail(todo[x])) \subseteq Work(x)'
<1> DEFINE t == Tail(todo[x])
<1>1. todo[x] \in Seq(Step) OBVIOUS
<1>2. t \in Seq(Step) /\ Items(todo[x]) = {Do(x)} \cup Items(t) /\ Do(x) \in Step
  BY <1>1, ItemsHead DEF Do
<1>3. Ordered(t) BY <1>1, OrderedTail DEF ListInv
<1> HIDE DEF t
<1>4. p \o t \in Seq(Step) /\ Items(p \o t) = Items(p) \cup Items(t) /\ Ordered(p \o t)
  BY <1>2, <1>3, ItemsConcat, OrderedConcat
<1>5. todo' = [todo EXCEPT ![x] = p \o t] BY DEF Then, t
<1>6. todo' \in [Actor -> Seq(Step)] /\ todo'[x] = p \o t /\ \A y \in Actor : y # x => todo'[y] = todo[y]
  BY <1>4, <1>5
<1>7. ListInv' BY <1>4, <1>6 DEF ListInv
<1>8. \A y \in Actor : Work(y) = Items(todo[y]) /\ Work(y)' = Items(todo'[y]) BY DEF Work
<1>9. \A y \in Actor : \A e \in Work(y) : e = Do(x) \/ e \in Work(y)' BY <1>2, <1>4, <1>6, <1>8
<1>10. \A y \in Actor : \A e \in Work(y)' : e \in Work(y) \/ (y = x /\ e \in Items(p))
  BY <1>2, <1>4, <1>6, <1>8
<1>11. Items(p) \subseteq Work(x)' /\ Items(t) \subseteq Work(x)' BY <1>4, <1>6, <1>8
<1> QED BY <1>2, <1>6, <1>7, <1>8, <1>9, <1>10, <1>11 DEF t

LEMMA BeginStep ==
  ASSUME todo \in [Actor -> Seq(Step)], ListInv, NEW x \in Actor, todo[x] = <<>>,
         NEW p \in Seq(Step), Ordered(p), todo' = [todo EXCEPT ![x] = p]
  PROVE  /\ todo' \in [Actor -> Seq(Step)] /\ ListInv'
         /\ Work(x) = {} /\ Work(x)' = Items(p)
         /\ \A y \in Actor : y # x => Work(y)' = Work(y)
         /\ \A y \in Actor : \A e \in Work(y) : e \in Work(y)'
         /\ \A y \in Actor : \A e \in Work(y)' : e \in Work(y) \/ (y = x /\ e \in Items(p))
<1>1. todo' \in [Actor -> Seq(Step)] /\ todo'[x] = p /\ \A y \in Actor : y # x => todo'[y] = todo[y]
  OBVIOUS
<1>2. ListInv' BY <1>1 DEF ListInv
<1>3. \A y \in Actor : Work(y) = Items(todo[y]) /\ Work(y)' = Items(todo'[y]) BY DEF Work
<1>4. Work(x) = {} BY <1>3, ItemsEmpty
<1> QED BY <1>1, <1>2, <1>3, <1>4

LEMMA IdleWork == \A x \in Actor : todo[x] = <<>> => Work(x) = {}
  BY ItemsEmpty DEF Work

LEMMA SameWork ==
  ASSUME UNCHANGED todo
  PROVE  (\A y \in Actor : Work(y)' = Work(y)) /\ (ListInv => ListInv')
  BY DEF Work, ListInv

LEMMA Actors == "input" \in Actor /\ Kinds \subseteq Actor /\ Viewer \subseteq Actor
  BY DEF Actor

\* The steps that work on the approval queue.
Queues(x) ==
  addPending(x) \/ appendApproval(x) \/ dropPending(x) \/ markApprovalComplete(x) \/ activateNextApproval(x)

\* The steps that are not the next one of a goroutine's list.
NonStep == Agent \/ Monitor \/ MainLoop \/ Input \/ Write \/ (\E r \in Viewer : Renderer(r)) \/ UNCHANGED vars

LEMMA NextSplit == [Next]_vars => NonStep \/ \E x \in Actor : StepOf(x)
  BY DEF Next, NonStep

LEMMA NonStepQueue == NonStep => UNCHANGED approvals
<1>1. CASE Agent BY <1>1 DEF Agent, Request, Settle, SubStarts, MainText, MainEnds, Continuation
<1>2. CASE Monitor BY <1>2 DEF Monitor, monitorSubagentPermissions, monitorSubagentConfirmations, monitor
<1>3. CASE MainLoop
  BY <1>3 DEF MainLoop, runMainAgentTurn, EndTurn, dequeueMainAgentPrompt, renderRuntimeLogEntry
<1>4. CASE Input
  BY <1>4 DEF Input, Choose, ChooseID, Open, closeSubagent, Prompt, runSubagentTurn, Back, NewSession,
     ClearScreen, toggleReasoning, toggleRuntimeLogs, interruptActiveView
<1>5. CASE Write BY <1>5, SMTT(30) DEF Write
<1>6. ASSUME NEW r \in Viewer, Renderer(r) PROVE UNCHANGED approvals
  BY <1>6 DEF Renderer, RenderRetained, RenderPrompt, renderSubagentRun
<1>7. CASE UNCHANGED vars BY <1>7 DEF vars
<1> QED BY <1>1, <1>2, <1>3, <1>4, <1>5, <1>6, <1>7 DEF NonStep

LEMMA QueuesAlone ==
  ASSUME NEW x \in Actor, StepOf(x)
  PROVE  UNCHANGED approvals \/ Queues(x)
  BY DEF StepOf, Queues, activeView, renderInView, renderApproval, renderActiveApproval, Unlock,
     AgentResolve, clear, Stream, showMainAgentView, Client, approvals
-----------------------------------------------------------------------------
(* Types. *)

LEMMA SetSeq ==
  ASSUME NEW S, IsFiniteSet(S)
  PROVE  SetToSeq(S) \in Seq(S) /\ Items(SetToSeq(S)) = S
<1> DEFINE n == Cardinality(S)
<1> DEFINE f == SetToSeq(S)
<1>1. n \in Nat /\ ExistsBijection(1..n, S) BY FS_CardinalityType
<1>2. IsFiniteSet(1..n) /\ Cardinality(1..n) = n BY <1>1, FS_Interval
<1>3. \E g \in [1..n -> S] : IsInjective(g)
  BY <1>1 DEF ExistsBijection, Bijection, Injection, IsInjective
<1>4. f \in [1..n -> S] /\ IsInjective(f) BY <1>3 DEF SetToSeq
<1> HIDE DEF n, f
<1>5. f \in Injection(1..n, S) BY <1>4 DEF Injection, IsInjective
<1>6. f \in Surjection(1..n, S) BY <1>1, <1>2, <1>5, FS_Injection DEF n
<1>7. f \in Seq(S) /\ Len(f) = n BY <1>1, <1>4
<1>8. Items(f) = S BY <1>6, <1>7 DEF Surjection, Items
<1> QED BY <1>7, <1>8 DEF f

\* Approvals that the interrupt of the main run settles.
MainOpen == {a \in Approval : Owner[a] = Main /\ truth[a] \in {"open", "answered"}}
Cancelled == {<<"settled", a>> : a \in MainOpen}

LEMMA Cancellation ==
  SetToSeq(Cancelled) \in Seq(AEvent) /\ Items(SetToSeq(Cancelled)) = Cancelled
<1>1. IsFiniteSet(MainOpen) BY TerminalAssumption, FS_Subset DEF MainOpen
<1> DEFINE f == [a \in MainOpen |-> <<"settled", a>>]
<1>2. f \in Bijection(MainOpen, Cancelled)
  BY DEF Bijection, Injection, Surjection, IsInjective, Cancelled
<1>3. IsFiniteSet(Cancelled) BY <1>1, <1>2, FS_Bijection DEF ExistsBijection
<1>4. Cancelled \subseteq AEvent BY DEF Cancelled, MainOpen, AEvent
<1>5. SetToSeq(Cancelled) \in Seq(Cancelled) /\ Items(SetToSeq(Cancelled)) = Cancelled
  BY <1>3, SetSeq
<1> QED BY <1>4, <1>5

LEMMA Interrupt ==
  ASSUME interruptActiveView
  PROVE  /\ truth' = [a \in Approval |-> IF a \in MainOpen THEN "settled" ELSE truth[a]]
         /\ mainLog' = mainLog \o SetToSeq(Cancelled) /\ mainDone' = TRUE /\ ~mainDone /\ turn # 0
         /\ UNCHANGED <<subLog, feed, approvals, renderMu, todo, views, mainTurn, screen, logs>>
         /\ todo["input"] = <<>>
  BY DEF interruptActiveView, MainOpen, Cancelled, Read, InputIdle

\* An announced event is behind those of its run, and of its feed.
LEMMA Emits ==
  ASSUME WorldType, NEW a \in Approval, NEW type \in {"requested", "settled"}, Emit(a, type)
  PROVE  /\ mainLog' \in Seq(MEvent) /\ subLog' \in [Sub -> Seq(AEvent)] /\ feed' \in [Kinds -> Seq(AEvent)]
         /\ \/ Owner[a] = Main /\ mainLog' = Append(mainLog, <<type, a>>) /\ UNCHANGED <<subLog, feed>>
            \/ /\ Owner[a] \in Sub /\ Kind[a] \in Kinds
               /\ subLog' = [subLog EXCEPT ![Owner[a]] = Append(@, <<type, a>>)]
               /\ feed' = [feed EXCEPT ![Kind[a]] = Append(@, <<type, a>>)]
               /\ UNCHANGED mainLog
<1>1. <<type, a>> \in AEvent /\ <<type, a>> \in MEvent BY DEF AEvent, MEvent
<1>2. Owner[a] \in {Main} \cup Sub /\ Kind[a] \in Kinds BY TerminalAssumption DEF Kinds
<1>3. CASE Owner[a] = Main
  <2>1. mainLog' = Append(mainLog, <<type, a>>) /\ UNCHANGED <<subLog, feed>> BY <1>3 DEF Emit
  <2>2. mainLog' \in Seq(MEvent) BY <1>1, <2>1 DEF WorldType
  <2> QED BY <1>3, <2>1, <2>2 DEF WorldType
<1>4. CASE Owner[a] # Main
  <2>1. /\ subLog' = [subLog EXCEPT ![Owner[a]] = Append(@, <<type, a>>)]
        /\ feed' = [feed EXCEPT ![Kind[a]] = Append(@, <<type, a>>)] /\ UNCHANGED mainLog
    BY <1>4 DEF Emit
  <2>2. Append(subLog[Owner[a]], <<type, a>>) \in Seq(AEvent) /\ Append(feed[Kind[a]], <<type, a>>) \in Seq(AEvent)
    <3>1. subLog[Owner[a]] \in Seq(AEvent) /\ feed[Kind[a]] \in Seq(AEvent) BY <1>2, <1>4 DEF WorldType
    <3> QED BY <1>1, <3>1
  <2>3. subLog' \in [Sub -> Seq(AEvent)] /\ feed' \in [Kinds -> Seq(AEvent)] BY <2>1, <2>2 DEF WorldType
  <2> QED BY <1>2, <1>4, <2>1, <2>3 DEF WorldType
<1> QED BY <1>3, <1>4

\* A run starts.
Restarts ==
  /\ turn = 0 /\ turn' \in (1..typed') /\ mainLog' = <<>> /\ mainDone' = FALSE /\ mainNext' = 1
  /\ hasRun' = TRUE /\ replayThrough' = 0 /\ drawn' = <<>>

\* A prompt that starts a run empties the events of the last one.
LEMMA RunTurn ==
  ASSUME dequeueMainAgentPrompt \/ Prompt, TerminalType
  PROVE  /\ \/ UNCHANGED <<turn, mainNext, hasRun, replayThrough, mainLog, mainDone, drawn>>
            \/ Restarts
         /\ typed' \in Nat /\ typed <= typed' /\ promptQueue' \in Seq(1..typed')
         /\ UNCHANGED <<truth, subRun, subLog, feed, approvals, renderMu, todo, views, shown, wiped, logs>>
         /\ todo["input"] = <<>>
<1>1. typed \in Nat /\ promptQueue \in Seq(1..typed) BY DEF TerminalType, TurnType
<1>2. CASE dequeueMainAgentPrompt
  <2>1. promptQueue # <<>> /\ promptQueue' = Tail(promptQueue) /\ typed' = typed /\ turn = 0
    BY <1>2 DEF dequeueMainAgentPrompt
  <2>2. Head(promptQueue) \in 1..typed /\ Tail(promptQueue) \in Seq(1..typed) BY <1>1, <2>1, HeadTailProperties
  <2> QED BY <1>1, <1>2, <2>1, <2>2 DEF dequeueMainAgentPrompt, runTurn, InputIdle, Restarts
<1>3. CASE Prompt
  <2>1. typed' = typed + 1 /\ typed + 1 \in 1..(typed + 1) /\ typed + 1 \in Nat /\ typed <= typed + 1
    BY <1>1, <1>3 DEF Prompt
  <2>2. 1..typed \subseteq 1..(typed + 1) BY <1>1
  <2>3. promptQueue \in Seq(1..(typed + 1)) BY <1>1, <2>2
  <2>4. Append(promptQueue, typed + 1) \in Seq(1..(typed + 1)) BY <2>1, <2>3
  <2>5. CASE turn = 0
    BY <1>3, <2>1, <2>3, <2>5 DEF Prompt, runTurn, Read, InputIdle, Restarts
  <2>6. CASE turn # 0
    BY <1>3, <2>1, <2>4, <2>6 DEF Prompt, enqueueMainAgentPrompt, Read, InputIdle
  <2> QED BY <2>5, <2>6
<1> QED BY <1>2, <1>3
-----------------------------------------------------------------------------
(* What the Agent knows only grows, and what the goroutines get to do. *)

Grows ==
  \A a \in Approval :
    /\ truth[a] # "new" => truth'[a] # "new"
    /\ truth[a] \in Settling => truth'[a] \in Settling
    /\ truth[a] = "settled" => truth'[a] = "settled"

LEMMA StepFacts ==
  ASSUME TerminalType, NEW x \in Actor, todo[x] # <<>>
  PROVE  todo[x] \in Seq(Step) /\ Do(x) \in Step /\ Do(x) \in Work(x)
<1>1. todo[x] \in Seq(Step) BY DEF TerminalType, ClientType
<1> QED BY <1>1, ItemsHead DEF Do, Work

LEMMA TruthGrows ==
  ASSUME TerminalType, [Next]_vars
  PROVE  truth' \in [Approval -> {"new", "open", "answered", "settled"}] /\ Grows
<1>1. truth \in [Approval -> {"new", "open", "answered", "settled"}] BY DEF TerminalType, WorldType
<1>2. ASSUME UNCHANGED truth PROVE Grows BY <1>2 DEF Grows
<1>3. CASE Agent
  BY <1>1, <1>3 DEF Agent, Request, Settle, SubStarts, MainText, MainEnds, Continuation, Grows, Settling
<1>4. CASE Monitor BY <1>1, <1>2, <1>4 DEF Monitor, monitorSubagentPermissions, monitorSubagentConfirmations, monitor
<1>5. CASE MainLoop
  BY <1>1, <1>2, <1>5 DEF MainLoop, runMainAgentTurn, EndTurn, dequeueMainAgentPrompt, renderRuntimeLogEntry, world
<1>6. CASE interruptActiveView BY <1>1, <1>6, Interrupt DEF Grows, Settling, MainOpen
<1>7. CASE Input /\ ~interruptActiveView
  BY <1>1, <1>2, <1>7 DEF Input, Choose, ChooseID, Open, closeSubagent, Prompt, runSubagentTurn, Back, NewSession,
     ClearScreen, toggleReasoning, toggleRuntimeLogs, world
<1>8. CASE Write BY <1>1, <1>2, <1>8 DEF Write, world
<1>9. ASSUME NEW x \in Actor, AgentResolve(x) PROVE truth' \in [Approval -> {"new", "open", "answered", "settled"}] /\ Grows
  <2>1. UNCHANGED truth \/ (truth[Do(x)[2]] = "open" /\ truth' = [truth EXCEPT ![Do(x)[2]] = "answered"])
    BY <1>9 DEF AgentResolve
  <2> QED BY <1>1, <1>2, <2>1 DEF Grows, Settling
<1>10. ASSUME NEW x \in Actor, StepOf(x), ~AgentResolve(x) PROVE UNCHANGED truth
  BY <1>10, SMTT(30) DEF StepOf, addPending, appendApproval, dropPending, markApprovalComplete, activateNextApproval,
     activeView, renderInView, renderApproval, renderActiveApproval, Unlock, clear, Stream, showMainAgentView,
     Frame, world
<1>11. ASSUME NEW r \in Viewer, Renderer(r) PROVE UNCHANGED truth
  BY <1>11 DEF Renderer, RenderRetained, RenderPrompt, renderSubagentRun, world
<1>12. CASE UNCHANGED vars BY <1>1, <1>2, <1>12 DEF vars, world
<1> QED BY <1>1, <1>2, <1>3, <1>4, <1>5, <1>6, <1>7, <1>8, <1>9, <1>10, <1>11, <1>12 DEF Next

\* What may be new in goroutine x's list.
Fresh(x, e) ==
  \/ e[1] \in {"append", "activate", "look", "paint", "draw", "unlock", "resolve"}
  \/ e[1] \in {"drop", "mark"} /\ truth'[e[2]] \in Settling
  \/ e[1] = "add" /\ truth'[e[2]] # "new"
  \/ /\ e \in ViewStep /\ x = "input"
     /\ e[1] = "clear" => view' # Main
     /\ e[1] = "stream" => e[2] = view'

FreshList(x, p) == p \in Seq(Step) /\ Ordered(p) /\ \A e \in Items(p) : Fresh(x, e)

LEMMA HandlesFresh ==
  ASSUME NEW x \in Actor, NEW p, NEW e \in MEvent, Handles(p, e), e[1] # "text" => Known(e), UNCHANGED truth
  PROVE  FreshList(x, p)
<1>1. p \in Seq(Step) /\ Ordered(p) BY DEF Handles
<1>2. ASSUME NEW f \in Items(p) PROVE Fresh(x, f)
  <2>1. CASE f = <<"unlock">> BY <2>1 DEF Fresh
  <2>2. CASE e[1] = "requested" /\ f[1] = "add" /\ f[2] = e[2] BY <2>2 DEF Fresh, Known
  <2>3. CASE e[1] = "settled" /\ (f[1] = "activate" \/ (f[1] \in {"drop", "mark"} /\ f[2] = e[2]))
    BY <2>3 DEF Fresh, Known, Settling
  <2> QED BY <2>1, <2>2, <2>3 DEF Handles
<1> QED BY <1>1, <1>2 DEF FreshList

LEMMA EmptyFresh == \A x \in Actor : FreshList(x, <<>>)
  BY ListOf, ItemsEmpty DEF FreshList

LEMMA OneFresh ==
  ASSUME NEW x \in Actor, NEW e \in Step, e[1] \notin {"append", "mark", "drop", "clear"}, Fresh(x, e)
  PROVE  FreshList(x, <<e>>)
<1>1. <<e>> \in Seq(Step) /\ Ordered(<<e>>) BY ListOf
<1>2. Items(<<e>>) = {e} BY ItemsShort
<1> QED BY <1>1, <1>2 DEF FreshList

LEMMA ShowFresh == FreshList("input", << <<"show">> >>)
<1>1. <<"show">> \in Step /\ <<"show">>[1] = "show" /\ <<"show">> \in ViewStep BY StepIn DEF ViewStep
<1>2. Fresh("input", <<"show">>) BY <1>1 DEF Fresh
<1> QED BY <1>1, <1>2, OneFresh, Actors

LEMMA RebuildFresh ==
  ASSUME NEW s \in Sub, openSubagent(s)
  PROVE  /\ view' = s /\ s # Main /\ epoch' = epoch + 1
         /\ \E e \in {<<"stream", s>>, <<"snapshot">>} :
              todo' = [todo EXCEPT !["input"] = << <<"clear">>, e >>] /\ FreshList("input", << <<"clear">>, e >>)
<1>1. view' = s /\ s # Main /\ epoch' = epoch + 1 BY TerminalAssumption DEF openSubagent, switchView
<1>2. PICK e \in {<<"stream", s>>, <<"snapshot">>} : todo' = [todo EXCEPT !["input"] = << <<"clear">>, e >>]
  BY DEF openSubagent
<1>3. e \in Step /\ e[1] \in {"stream", "snapshot"} /\ e \in ViewStep /\ <<"clear">> \in ViewStep
  <2>1. <<"stream", s>> \in Step /\ <<"snapshot">> \in Step BY StepIn
  <2>2. <<"stream", s>> \in ViewStep /\ <<"snapshot">> \in ViewStep /\ <<"clear">> \in ViewStep BY DEF ViewStep
  <2>3. <<"stream", s>>[1] = "stream" /\ <<"snapshot">>[1] = "snapshot" OBVIOUS
  <2> QED BY <2>1, <2>2, <2>3
<1>4. Fresh("input", e)
  <2>1. CASE e = <<"stream", s>> BY <1>1, <1>3, <2>1 DEF Fresh
  <2>2. CASE e = <<"snapshot">> BY <1>1, <1>3, <2>2 DEF Fresh
  <2> QED BY <2>1, <2>2
<1>5. Fresh("input", <<"clear">>) BY <1>1, <1>3 DEF Fresh
<1>6. FreshList("input", << <<"clear">>, e >>) BY <1>3, <1>4, <1>5, ViewList DEF FreshList
<1> QED BY <1>1, <1>2, <1>6

\* A goroutine with nothing to do gets a list.
Begins(x, p) == todo[x] = <<>> /\ todo' = [todo EXCEPT ![x] = p] /\ FreshList(x, p)
\* A goroutine executes a step.
Executes(x, p) == todo[x] # <<>> /\ Then(x, p) /\ FreshList(x, p)

LEMMA MonitorBegins ==
  ASSUME TerminalInv, NEW k \in Kinds, monitor(k)
  PROVE  \E e \in AEvent :
           /\ feed[k] # <<>> /\ e = Head(feed[k]) /\ Known(e) /\ Owner[e[2]] \in Sub /\ Kind[e[2]] = k
           /\ \E p : Begins(k, p) /\ (Handles(p, e) \/ (e[1] = "requested" /\ p = <<>>))
<1>1. feed[k] \in Seq(AEvent) /\ feed[k] # <<>> BY DEF TerminalInv, TerminalType, WorldType, monitor
<1>2. PICK e \in AEvent : e = Head(feed[k]) BY <1>1, HeadTailProperties
<1>3. e \in Items(feed[k]) BY <1>1, <1>2, ItemsHead
<1>4. Known(e) /\ Owner[e[2]] \in Sub /\ Kind[e[2]] = k BY <1>3 DEF TerminalInv, EventInv
<1>5. k \in Actor /\ UNCHANGED truth BY Actors DEF monitor
<1>6. e \in MEvent BY DEF MEvent
<1>7. CASE e[1] = "requested" /\ ~sameSession
  <2>1. todo[k] = <<>> /\ todo' = [todo EXCEPT ![k] = <<>>] BY <1>2, <1>7 DEF monitor
  <2>2. Begins(k, <<>>) BY <1>5, <2>1, EmptyFresh DEF Begins
  <2> QED BY <1>1, <1>2, <1>4, <1>7, <2>2
<1>8. CASE ~(e[1] = "requested" /\ ~sameSession)
  <2>1. todo[k] = <<>> /\ todo' = [todo EXCEPT ![k] = observe(k, e)] BY <1>2, <1>8 DEF monitor
  <2>2. Handles(observe(k, e), e) BY Observes
  <2>3. FreshList(k, observe(k, e)) BY <1>4, <1>5, <1>6, <2>2, HandlesFresh
  <2> QED BY <1>1, <1>2, <1>4, <2>1, <2>2, <2>3 DEF Begins
<1> QED BY <1>7, <1>8

LEMMA MainBegins ==
  ASSUME TerminalInv, runMainAgentTurn
  PROVE  \E e \in MEvent :
           /\ mainNext \in 1..Len(mainLog) /\ e = mainLog[mainNext]
           /\ e[1] # "text" => Known(e) /\ Owner[e[2]] = Main
           /\ \E p : Begins("input", p) /\ Handles(p, e)
<1>1. mainLog \in Seq(MEvent) /\ mainNext \in 1..Len(mainLog)
  <2>1. mainLog \in Seq(MEvent) /\ mainNext \in 1..(Len(mainLog) + 1) /\ mainNext <= Len(mainLog) /\ Len(mainLog) \in Nat
    BY DEF TerminalInv, TerminalType, WorldType, TurnType, runMainAgentTurn
  <2> QED BY <2>1
<1>2. PICK e \in MEvent : e = mainLog[mainNext] BY <1>1
<1>3. e \in Items(mainLog) BY <1>1, <1>2 DEF Items
<1>4. e[1] # "text" => Known(e) /\ Owner[e[2]] = Main BY <1>3 DEF TerminalInv, EventInv
<1>5. UNCHANGED truth /\ todo["input"] = <<>> BY DEF runMainAgentTurn, InputIdle, world
<1>6. PICK p : todo' = [todo EXCEPT !["input"] = p] /\ Handles(p, e) BY <1>2, Renders, ZenonT(40) DEF runMainAgentTurn
<1>7. Begins("input", p) BY <1>4, <1>5, <1>6, HandlesFresh, Actors DEF Begins
<1> QED BY <1>1, <1>2, <1>4, <1>6, <1>7

LEMMA ViewReads ==
  ASSUME TerminalInv, NEW r \in Viewer, renderSubagentRun(r)
  PROVE  \/ StopRenderer(r) /\ epoch # renderer[r].epoch /\ UNCHANGED <<renderMu, todo>>
         \/ \E e \in AEvent :
              /\ renderer[r].id \in Sub /\ renderer[r].next \in 1..Len(subLog[renderer[r].id])
              /\ e = subLog[renderer[r].id][renderer[r].next]
              /\ renderer' = [renderer EXCEPT ![r].next = renderer[r].next + 1]
              /\ Known(e) /\ Owner[e[2]] = renderer[r].id
              /\ \/ UNCHANGED <<renderMu, todo>> /\ ~InView(renderer[r].id)
                 \/ renderMu' = r /\ \E p : Begins(r, p) /\ Handles(p, e)
<1> DEFINE s == renderer[r].id
<1> DEFINE n == renderer[r].next
<1>1. /\ renderer[r].state = "live" /\ todo[r] = <<>> /\ UNCHANGED truth
      /\ \/ /\ n <= Len(subLog[s]) /\ renderer' = [renderer EXCEPT ![r].next = n + 1]
            /\ IF InView(s)
               THEN /\ renderMu' = r
                    /\ todo' = [todo EXCEPT ![r] = renderEventForSubagent(subLog[s][n]) \o << <<"unlock">> >>]
               ELSE UNCHANGED <<renderMu, todo>>
         \/ StopRenderer(r) /\ epoch # renderer[r].epoch /\ UNCHANGED <<renderMu, todo>>
  BY ZenonT(40) DEF renderSubagentRun, world
<1>2. s \in Sub /\ n \in 1..(Len(subLog[s]) + 1) /\ subLog[s] \in Seq(AEvent)
  <2>1. renderer[r] \in RendererType /\ (renderer[r].state # "none" <=> s # None)
    BY SMTT(30) DEF TerminalInv, TerminalType, ClientType
  <2>2. renderer[r].state = "live" BY <1>1, Zenon
  <2>3. s \in Sub BY <2>1, <2>2 DEF RendererType
  <2> QED BY <2>2, <2>3 DEF TerminalInv, SourceInv, TerminalType, WorldType
<1> HIDE DEF s, n
<1> SUFFICES ASSUME n <= Len(subLog[s]), renderer' = [renderer EXCEPT ![r].next = n + 1],
                    IF InView(s)
                    THEN /\ renderMu' = r
                         /\ todo' = [todo EXCEPT ![r] = renderEventForSubagent(subLog[s][n]) \o << <<"unlock">> >>]
                    ELSE UNCHANGED <<renderMu, todo>>
             PROVE  \E e \in AEvent :
                      /\ s \in Sub /\ n \in 1..Len(subLog[s]) /\ e = subLog[s][n]
                      /\ Known(e) /\ Owner[e[2]] = s
                      /\ \/ UNCHANGED <<renderMu, todo>> /\ ~InView(s)
                         \/ renderMu' = r /\ \E p : Begins(r, p) /\ Handles(p, e)
  BY <1>1 DEF s, n
<1>3. n \in 1..Len(subLog[s]) BY <1>2
<1>4. PICK e \in AEvent : e = subLog[s][n] BY <1>2, <1>3
<1>5. e \in Items(subLog[s]) BY <1>3, <1>4 DEF Items
<1>6. Known(e) /\ Owner[e[2]] = s BY <1>2, <1>5 DEF TerminalInv, EventInv
<1>7. CASE ~InView(s) BY <1>2, <1>3, <1>4, <1>6, <1>7
<1>8. CASE InView(s)
  <2> DEFINE p == renderEventForSubagent(e) \o << <<"unlock">> >>
  <2>1. e \in MEvent /\ r \in Actor BY Actors DEF MEvent
  <2>2. Handles(p, e) BY <2>1, Renders
  <2>3. renderMu' = r /\ todo' = [todo EXCEPT ![r] = p] BY <1>4, <1>8
  <2> HIDE DEF p
  <2>4. Begins(r, p) BY <1>1, <1>6, <2>1, <2>2, <2>3, HandlesFresh DEF Begins
  <2> QED BY <1>2, <1>3, <1>4, <1>6, <2>2, <2>3, <2>4
<1> QED BY <1>7, <1>8, SMTT(30)
\* A set of numbers that is not empty has a least element, which is its Min.
Less == OpToRel(<, Nat)
LEMMA MinLeast ==
  ASSUME NEW S \in SUBSET Nat, S # {}
  PROVE  Min(S) \in S /\ \A y \in S : Min(S) =< y
<1>1. IsWellFoundedOn(Less, Nat)
  <2>1. IsWellFoundedOn(OpToRel(<, Nat), Nat) BY NatLessThanWellFounded, Zenon
  <2> QED BY <2>1, Zenon DEF Less
<1>2. PICK n \in S : \A m \in S : ~(<<m, n>> \in Less) BY <1>1, WFMin
<1>3. \A m \in S : n =< m
  <2> SUFFICES ASSUME NEW m \in S, m < n PROVE FALSE OBVIOUS
  <2>1. <<m, n>> \in Less BY DEF Less, OpToRel
  <2> QED BY <1>2, <2>1
<1>4. \E x \in S : \A y \in S : x =< y BY <1>3
<1> QED BY <1>4, Zenon DEF Min

\* The first pending approval becomes the active one, and none of the pending
\* ones behind it is lost.
LEMMA ActivateNext ==
  ASSUME TerminalType, NEW x \in Actor, activateNextApproval(x), activeApproval = None
  PROVE  /\ approvalOrder' \in Seq(Approval)
         /\ Candidates = {} =>
              /\ activeApproval' = None /\ Items(approvalOrder') = {}
              /\ \A a \in pending : a \notin Items(approvalOrder)
         /\ Candidates # {} =>
              /\ activeApproval' \in Approval /\ activeApproval' \in pending
              /\ \A a \in pending : a \in Items(approvalOrder) => a = activeApproval' \/ a \in Items(approvalOrder')
<1> DEFINE n == Len(approvalOrder)
<1> DEFINE m == FirstCandidate
<1>1. /\ approvalOrder \in Seq(Approval) /\ n \in Nat /\ DOMAIN approvalOrder = 1..n
      /\ \A i \in 1..n : approvalOrder[i] \in Approval
  BY DEF TerminalType, ClientType
<1>2. /\ approvalOrder' = SubSeq(approvalOrder, m + 1, n)
      /\ activeApproval' = IF Candidates = {} THEN None ELSE approvalOrder[m]
  BY DEF activateNextApproval
<1>3. Candidates = {i \in 1..n : approvalOrder[i] \in pending} BY <1>1 DEF Candidates
<1>4. m \in 1..(n + 1) /\ (Candidates # {} => m \in Candidates /\ \A i \in Candidates : m =< i)
  <2>1. Candidates \in SUBSET Nat BY <1>1, <1>3
  <2>2. CASE Candidates = {} BY <1>1, <2>2 DEF FirstCandidate
  <2>3. CASE Candidates # {}
    <3>1. m = Min(Candidates) BY <2>3 DEF FirstCandidate
    <3>2. m \in Candidates /\ \A i \in Candidates : m =< i BY <2>1, <2>3, <3>1, MinLeast
    <3>3. m \in 1..n BY <1>3, <3>2
    <3> QED BY <1>1, <3>2, <3>3
  <2> QED BY <2>2, <2>3
<1> HIDE DEF m, n
<1>5. m + 1 \in Int /\ n \in Int /\ \A i \in (m + 1)..n : i \in 1..n BY <1>1, <1>4
<1>6. /\ approvalOrder' \in Seq(Approval)
      /\ Len(approvalOrder') = IF m + 1 <= n THEN n - (m + 1) + 1 ELSE 0
      /\ \A i \in 1..(n - (m + 1) + 1) : approvalOrder'[i] = approvalOrder[(m + 1) + i - 1]
  BY <1>1, <1>2, <1>5, SubSeqProperties
<1>7. CASE Candidates = {}
  <2>1. m = n + 1 BY <1>7 DEF FirstCandidate, m, n
  <2>2. Len(approvalOrder') = 0 BY <1>1, <1>6, <2>1
  <2>3. Items(approvalOrder') = {} BY <2>2 DEF Items
  <2>4. \A a \in pending : a \notin Items(approvalOrder) BY <1>3, <1>7 DEF Items, n
  <2> QED BY <1>2, <1>6, <1>7, <2>3, <2>4
<1>8. CASE Candidates # {}
  <2>1. m \in 1..n /\ activeApproval' = approvalOrder[m] /\ approvalOrder[m] \in pending BY <1>2, <1>3, <1>4, <1>8
  <2>2. ASSUME NEW a \in pending, a \in Items(approvalOrder), a # activeApproval' PROVE a \in Items(approvalOrder')
    <3>1. PICK i \in 1..n : approvalOrder[i] = a BY <2>2 DEF Items, n
    <3>2. i \in Candidates /\ i # m BY <1>3, <2>1, <2>2, <3>1
    <3>3. i > m BY <1>1, <1>4, <1>8, <2>1, <3>1, <3>2
    <3> DEFINE j == i - m
    <3>4. j \in 1..(n - (m + 1) + 1) /\ (m + 1) + j - 1 = i /\ m + 1 <= n BY <1>1, <2>1, <3>1, <3>3
    <3> HIDE DEF j
    <3>5. approvalOrder'[j] = a /\ j \in 1..Len(approvalOrder') BY <1>6, <3>1, <3>4
    <3> QED BY <3>5 DEF Items
  <2> QED BY <1>1, <1>6, <1>8, <2>1, <2>2
<1> QED BY <1>7, <1>8


\* A step is the head of its goroutine's list and puts steps in its place.
LEMMA StepMoves ==
  ASSUME TerminalInv, NEW x \in Actor, StepOf(x)
  PROVE  /\ todo[x] # <<>> /\ Do(x) \in Step /\ Do(x) \in Work(x)
         /\ \E p : /\ Executes(x, p) /\ (\A e \in Items(p) : e[1] # "add")
                   /\ Do(x)[1] = "add" /\ Do(x)[2] \notin pending =>
                        <<"append", Do(x)[2]>> \in Items(p) /\ \E e \in Items(p) : e[1] = "activate"
                   /\ Do(x)[1] = "activate" /\ activeApproval = None /\ Candidates # {} =>
                        \E e \in Items(p) : e[1] \in {"look", "paint"}
                   /\ Do(x)[1] = "look" => <<"draw", Do(x)[2], view>> \in Items(p)
                   /\ Do(x)[1] = "snapshot" /\ activeApproval # None /\ activeApproval \in pending =>
                        \E e \in Items(p) : e[1] = "paint"
<1> DEFINE a == Do(x)[2]
<1> DEFINE Good(p) ==
             /\ Executes(x, p) /\ (\A e \in Items(p) : e[1] # "add")
             /\ Do(x)[1] = "add" /\ Do(x)[2] \notin pending =>
                  <<"append", Do(x)[2]>> \in Items(p) /\ \E e \in Items(p) : e[1] = "activate"
             /\ Do(x)[1] = "activate" /\ activeApproval = None /\ Candidates # {} =>
                  \E e \in Items(p) : e[1] \in {"look", "paint"}
             /\ Do(x)[1] = "look" => <<"draw", Do(x)[2], view>> \in Items(p)
             /\ Do(x)[1] = "snapshot" /\ activeApproval # None /\ activeApproval \in pending =>
                  \E e \in Items(p) : e[1] = "paint"
<1>1. todo[x] # <<>>
  BY DEF StepOf, At, addPending, appendApproval, dropPending, markApprovalComplete, activateNextApproval,
     activeView, renderInView, renderApproval, renderActiveApproval, Unlock, AgentResolve, clear, Stream,
     showMainAgentView
<1>2. TerminalType BY DEF TerminalInv
<1>3. Do(x) \in Step /\ Do(x) \in Work(x) BY <1>1, <1>2, StepFacts
<1>4. FreshList(x, <<>>) /\ Items(<<>>) = {} BY EmptyFresh, ItemsEmpty
<1>5. CASE addPending(x)
  <2>1. Do(x)[1] = "add" /\ a \in Approval /\ Do(x)[3] \in {queueApproval(a), queueApprovalWhileRendering(a)}
    BY <1>3, <1>5, StepKind DEF addPending, At
  <2>2. PICK b \in BOOLEAN : Do(x)[3] = << <<"append", a>>, <<"activate", b>> >>
    BY <2>1 DEF queueApproval, queueApprovalWhileRendering
  <2>3. CASE a \in pending
    <3>1. Then(x, <<>>) BY <1>5, <2>3 DEF addPending
    <3>2. Good(<<>>) BY <1>1, <1>4, <2>1, <2>3, <3>1 DEF Executes
    <3> QED BY <1>1, <1>3, <3>2
  <2>4. CASE a \notin pending
    <3>1. PICK p : p = Do(x)[3] OBVIOUS
    <3>2. Then(x, p) BY <1>5, <2>4, <3>1 DEF addPending
    <3>3. p \in Seq(Step) /\ Ordered(p) /\ Items(p) = {<<"append", a>>, <<"activate", b>>}
      BY <2>1, <2>2, <3>1, QueueList
    <3>4. FreshList(x, p) BY <3>3 DEF FreshList, Fresh
    <3>5. <<"activate", b>>[1] = "activate" /\ <<"append", a>>[1] = "append" OBVIOUS
    <3>6. Good(p) BY <1>1, <2>1, <3>2, <3>3, <3>4, <3>5 DEF Executes
    <3> QED BY <1>1, <1>3, <3>6
  <2> QED BY <2>3, <2>4
<1>6. CASE activateNextApproval(x)
  <2>1. Do(x)[1] = "activate" BY <1>6 DEF activateNextApproval, At
  <2>2. CASE activeApproval # None \/ Candidates = {}
    <3>1. Then(x, <<>>) BY <1>6, <2>2 DEF activateNextApproval
    <3>2. Good(<<>>) BY <1>1, <1>4, <2>1, <2>2, <3>1 DEF Executes
    <3> QED BY <1>1, <1>3, <3>2
  <2>3. CASE activeApproval = None /\ Candidates # {}
    <3>1. activeApproval' \in Approval BY <1>2, <1>6, <2>3, ActivateNext
    <3>2. PICK e \in {<<"look", activeApproval'>>, <<"paint", activeApproval'>>} : Then(x, <<e>>)
      BY <1>6, <2>3 DEF activateNextApproval, presentNextApproval, presentNextApprovalWhileRendering
    <3>3. e \in Step /\ e[1] \in {"look", "paint"}
      <4>1. <<"look", activeApproval'>> \in Step /\ <<"paint", activeApproval'>> \in Step BY <3>1, StepIn
      <4> QED BY <3>2, <4>1
    <3>4. FreshList(x, <<e>>)
      <4>1. Fresh(x, e) BY <3>3 DEF Fresh
      <4> QED BY <3>3, <4>1, OneFresh
    <3>5. Items(<<e>>) = {e} BY ItemsShort
    <3>6. Good(<<e>>) BY <1>1, <2>1, <3>2, <3>3, <3>4, <3>5 DEF Executes
    <3> QED BY <1>1, <1>3, <3>6
  <2> QED BY <2>2, <2>3
<1>7. CASE activeView(x)
  <2>1. Do(x)[1] = "look" /\ a \in Approval BY <1>3, <1>7, StepKind DEF activeView, At
  <2>2. PICK e : e = <<"draw", a, view>> OBVIOUS
  <2>3. view \in Sub \cup {Main} BY <1>2 DEF TerminalType, ClientType
  <2>4. e \in Step /\ e[1] = "draw" BY <2>1, <2>2, <2>3, StepIn
  <2>5. FreshList(x, <<e>>)
    <3>1. Fresh(x, e) BY <2>4 DEF Fresh
    <3> QED BY <2>4, <3>1, OneFresh
  <2>6. Items(<<e>>) = {e} /\ Then(x, <<e>>) BY <1>7, <2>2, ItemsShort DEF activeView
  <2>7. Good(<<e>>) BY <1>1, <2>1, <2>2, <2>5, <2>6, SMTT(30) DEF Executes
  <2> QED BY <1>1, <1>3, <2>7
<1>8. CASE renderActiveApproval(x)
  <2>1. Do(x)[1] = "snapshot" BY <1>8 DEF renderActiveApproval, At
  <2>2. CASE ~(activeApproval # None /\ activeApproval \in pending)
    <3>1. Then(x, <<>>) BY <1>8, <2>2 DEF renderActiveApproval
    <3>2. Good(<<>>) BY <1>1, <1>4, <2>1, <2>2, <3>1 DEF Executes
    <3> QED BY <1>1, <1>3, <3>2
  <2>3. CASE activeApproval # None /\ activeApproval \in pending
    <3>1. activeApproval \in Approval BY <1>2, <2>3 DEF TerminalType, ClientType
    <3>2. PICK e : e = <<"paint", activeApproval>> OBVIOUS
    <3>3. e \in Step /\ e[1] = "paint" BY <3>1, <3>2, StepIn
    <3>4. FreshList(x, <<e>>)
      <4>1. Fresh(x, e) BY <3>3 DEF Fresh
      <4> QED BY <3>3, <4>1, OneFresh
    <3>5. Items(<<e>>) = {e} /\ Then(x, <<e>>) BY <1>8, <2>3, <3>2, ItemsShort DEF renderActiveApproval
    <3>6. Good(<<e>>) BY <1>1, <2>1, <3>3, <3>4, <3>5 DEF Executes
    <3> QED BY <1>1, <1>3, <3>6
  <2> QED BY <2>2, <2>3
<1>9. CASE AgentResolve(x)
  <2>1. Do(x)[1] = "resolve" /\ a \in Approval BY <1>3, <1>9, StepKind DEF AgentResolve, At
  <2>2. CASE UNCHANGED truth /\ Then(x, <<>>)
    <3>1. Good(<<>>) BY <1>1, <1>4, <2>1, <2>2 DEF Executes
    <3> QED BY <1>1, <1>3, <3>1
  <2>3. CASE truth' = [truth EXCEPT ![a] = "answered"] /\ Then(x, << <<"drop", a>> >> \o completeApproval(a))
    <3>1. PICK p : p = << <<"drop", a>> >> \o << <<"mark", a>>, <<"activate", FALSE>> >> OBVIOUS
    <3>2. p \in Seq(Step) /\ Ordered(p) /\ Items(p) = {<<"drop", a>>, <<"mark", a>>, <<"activate", FALSE>>}
      BY <2>1, <3>1, SettleList
    <3>3. Then(x, p) BY <2>3, <3>1 DEF completeApproval
    <3>4. truth'[a] = "answered" BY <1>2, <2>1, <2>3 DEF TerminalType, WorldType
    <3>5. FreshList(x, p) BY <3>2, <3>4 DEF FreshList, Fresh, Settling
    <3>6. \A e \in Items(p) : e[1] # "add"
      <4>1. <<"drop", a>>[1] = "drop" /\ <<"mark", a>>[1] = "mark" /\ <<"activate", FALSE>>[1] = "activate" OBVIOUS
      <4> QED BY <3>2, <4>1
    <3>7. Good(p) BY <1>1, <2>1, <3>3, <3>5, <3>6 DEF Executes
    <3> QED BY <1>1, <1>3, <3>7
  <2> QED BY <1>9, <2>2, <2>3 DEF AgentResolve
<1>10. CASE \/ appendApproval(x) \/ dropPending(x) \/ markApprovalComplete(x) \/ renderInView(x)
            \/ renderApproval(x) \/ Unlock(x) \/ clear(x) \/ Stream(x) \/ showMainAgentView(x)
  <2>1. Then(x, <<>>) /\ Do(x)[1] \in {"append", "drop", "mark", "draw", "paint", "unlock", "clear", "stream", "show"}
    BY <1>10 DEF At, appendApproval, dropPending, markApprovalComplete, renderInView, renderApproval, Unlock,
       clear, Stream, showMainAgentView
  <2>2. Good(<<>>) BY <1>1, <1>4, <2>1 DEF Executes
  <2> QED BY <1>1, <1>3, <2>2
<1> QED BY <1>5, <1>6, <1>7, <1>8, <1>9, <1>10 DEF StepOf

\* The other actions give a list to a goroutine that has nothing to do.
LEMMA ResolveBegins ==
  ASSUME TerminalInv, \/ \E k \in Kinds : Choose(k)
                      \/ \E a \in Approval : ChooseID(a)
  PROVE  \E p : Begins("input", p) /\ \E a \in pending : p = << <<"resolve", a>> >>
<1>1. PICK a \in pending : todo["input"] = <<>> /\ todo' = [todo EXCEPT !["input"] = << <<"resolve", a>> >>]
  <2>1. CASE \E k \in Kinds : Choose(k)
    BY <2>1 DEF Choose, Read, InputIdle, Resolve, resolvePermission, resolveConfirmation, resolve
  <2>2. CASE \E a \in Approval : ChooseID(a)
    BY <2>2 DEF ChooseID, Read, InputIdle, Resolve, resolvePermission, resolveConfirmation, resolve
  <2> QED BY <2>1, <2>2
<1>2. a \in Approval BY DEF TerminalInv, TerminalType, ClientType
<1>3. PICK e : e = <<"resolve", a>> OBVIOUS
<1>4. e \in Step /\ e[1] = "resolve" BY <1>2, <1>3, StepIn
<1>5. FreshList("input", <<e>>)
  <2>1. Fresh("input", e) BY <1>4 DEF Fresh
  <2> QED BY <1>4, <2>1, OneFresh, Actors
<1> QED BY <1>1, <1>3, <1>5 DEF Begins

\* The list that rebuilds the view on the screen.
Rebuilds(p) ==
  /\ Begins("input", p)
  /\ \/ p = << <<"show">> >> /\ view' = Main
     \/ /\ view' \in Sub /\ view' # Main /\ epoch' = epoch + 1
        /\ \E e \in {<<"stream", view'>>, <<"snapshot">>} : p = << <<"clear">>, e >>

LEMMA ViewChanges ==
  ASSUME TerminalInv,
         \/ \E s \in Sub : Open(s) \/ closeSubagent(s)
         \/ Back \/ toggleReasoning \/ toggleRuntimeLogs
  PROVE  /\ todo["input"] = <<>>
         /\ \/ UNCHANGED <<todo, view, epoch>> /\ (logView' \/ UNCHANGED <<screen, logView>>)
            \/ /\ \E p : Rebuilds(p)
               /\ epoch' = epoch + 1 \/ (epoch' = epoch /\ view = Main /\ view' = Main)
<1>1. todo["input"] = <<>> BY DEF Open, closeSubagent, Back, toggleReasoning, toggleRuntimeLogs, Read, InputIdle
<1>2. view \in Sub \cup {Main} BY DEF TerminalInv, TerminalType, ClientType
<1>3. ASSUME NEW s \in Sub, openSubagent(s) PROVE (\E p : Rebuilds(p)) /\ epoch' = epoch + 1
  <2>1. view' = s /\ s # Main /\ epoch' = epoch + 1 BY <1>3, RebuildFresh
  <2>2. PICK e \in {<<"stream", s>>, <<"snapshot">>} :
          todo' = [todo EXCEPT !["input"] = << <<"clear">>, e >>] /\ FreshList("input", << <<"clear">>, e >>)
    BY <1>3, RebuildFresh
  <2> QED BY <1>1, <2>1, <2>2 DEF Rebuilds, Begins
<1>4. ASSUME todo' = [todo EXCEPT !["input"] = << <<"show">> >>], view' = Main PROVE \E p : Rebuilds(p)
  BY <1>1, <1>4, ShowFresh DEF Rebuilds, Begins
<1>5. ASSUME NEW s \in Sub, Open(s) PROVE (\E p : Rebuilds(p)) /\ epoch' = epoch + 1
  BY <1>3, <1>5 DEF Open
<1>6. ASSUME NEW s \in Sub, closeSubagent(s)
      PROVE  \/ UNCHANGED <<todo, view, epoch, screen, logView>>
             \/ (\E p : Rebuilds(p)) /\ epoch' = epoch + 1
  BY <1>4, <1>6 DEF closeSubagent, switchView
<1>7. CASE Back BY <1>1, <1>4, <1>7 DEF Back, switchView
<1>8. CASE toggleReasoning
  <2>1. CASE view = Main BY <1>1, <1>4, <1>8, <2>1 DEF toggleReasoning
  <2>2. CASE view # Main BY <1>1, <1>2, <1>3, <1>8, <2>2 DEF toggleReasoning
  <2> QED BY <2>1, <2>2
<1>9. CASE toggleRuntimeLogs
  <2>1. CASE logView /\ view = Main BY <1>1, <1>4, <1>9, <2>1 DEF toggleRuntimeLogs
  <2>2. CASE logView /\ view # Main BY <1>1, <1>2, <1>3, <1>9, <2>2 DEF toggleRuntimeLogs
  <2>3. CASE ~logView BY <1>1, <1>9, <2>3 DEF toggleRuntimeLogs
  <2> QED BY <2>1, <2>2, <2>3
<1> QED BY <1>1, <1>5, <1>6, <1>7, <1>8, <1>9

LEMMA NonStepMoves ==
  ASSUME TerminalInv, NonStep
  PROVE  UNCHANGED todo \/ \E x \in Actor : \E p : Begins(x, p)
<1>1. CASE Agent BY <1>1 DEF Agent, Request, Settle, SubStarts, MainText, MainEnds, Continuation
<1>2. CASE Monitor
  <2>1. PICK k \in Kinds : monitor(k)
    BY <1>2 DEF Monitor, monitorSubagentPermissions, monitorSubagentConfirmations, Kinds
  <2>2. \E p : Begins(k, p) BY <2>1, MonitorBegins
  <2> QED BY <2>2, Actors
<1>3. CASE MainLoop
  <2>1. CASE runMainAgentTurn BY <2>1, MainBegins, Actors
  <2>2. CASE EndTurn \/ dequeueMainAgentPrompt \/ renderRuntimeLogEntry
    BY <2>2 DEF EndTurn, dequeueMainAgentPrompt, renderRuntimeLogEntry
  <2> QED BY <1>3, <2>1, <2>2 DEF MainLoop
<1>4. CASE Input
  <2>1. CASE (\E k \in Kinds : Choose(k)) \/ (\E a \in Approval : ChooseID(a)) BY <2>1, ResolveBegins, Actors
  <2>2. CASE (\E s \in Sub : Open(s) \/ closeSubagent(s)) \/ Back \/ toggleReasoning \/ toggleRuntimeLogs
    BY <2>2, ViewChanges, Actors DEF Rebuilds
  <2>3. CASE Prompt \/ runSubagentTurn \/ NewSession \/ ClearScreen \/ interruptActiveView
    BY <2>3 DEF Prompt, runSubagentTurn, NewSession, ClearScreen, interruptActiveView, views
  <2> QED BY <1>4, <2>1, <2>2, <2>3 DEF Input
<1>5. CASE Write BY <1>5 DEF Write
<1>6. ASSUME NEW r \in Viewer, Renderer(r) PROVE UNCHANGED todo \/ \E p : Begins(r, p)
  <2>1. CASE RenderRetained(r) \/ RenderPrompt(r) BY <2>1 DEF RenderRetained, RenderPrompt
  <2>2. CASE renderSubagentRun(r) BY <2>2, ViewReads
  <2> QED BY <1>6, <2>1, <2>2 DEF Renderer
<1>7. CASE UNCHANGED vars BY <1>7 DEF vars
<1> QED BY <1>1, <1>2, <1>3, <1>4, <1>5, <1>6, <1>7, Actors DEF NonStep

\* Steps that go on, steps that are new, and types of the lists.
LEMMA Lists ==
  ASSUME TerminalInv, [Next]_vars
  PROVE  /\ todo' \in [Actor -> Seq(Step)] /\ ListInv'
         /\ \A y \in Actor : \A e \in Work(y)' : e \in Work(y) \/ Fresh(y, e)
<1>1. todo \in [Actor -> Seq(Step)] /\ ListInv BY DEF TerminalInv, TerminalType, ClientType
<1>2. CASE UNCHANGED todo BY <1>1, <1>2, SameWork
<1>3. ASSUME NEW x \in Actor, NEW p, Begins(x, p)
      PROVE  /\ todo' \in [Actor -> Seq(Step)] /\ ListInv'
             /\ \A y \in Actor : \A e \in Work(y)' : e \in Work(y) \/ Fresh(y, e)
  <2>1. /\ todo[x] = <<>> /\ todo' = [todo EXCEPT ![x] = p] /\ p \in Seq(Step) /\ Ordered(p)
        /\ \A e \in Items(p) : Fresh(x, e)
    BY <1>3 DEF Begins, FreshList
  <2>2. /\ todo' \in [Actor -> Seq(Step)] /\ ListInv'
        /\ \A y \in Actor : \A e \in Work(y)' : e \in Work(y) \/ (y = x /\ e \in Items(p))
    BY <1>1, <2>1, BeginStep
  <2> QED BY <2>1, <2>2
<1>4. ASSUME NEW x \in Actor, NEW p, Executes(x, p)
      PROVE  /\ todo' \in [Actor -> Seq(Step)] /\ ListInv'
             /\ \A y \in Actor : \A e \in Work(y)' : e \in Work(y) \/ Fresh(y, e)
  BY <1>1, <1>4, ThenStep DEF Executes, FreshList
<1>5. CASE NonStep BY <1>2, <1>3, <1>5, NonStepMoves
<1>6. ASSUME NEW x \in Actor, StepOf(x)
      PROVE  /\ todo' \in [Actor -> Seq(Step)] /\ ListInv'
             /\ \A y \in Actor : \A e \in Work(y)' : e \in Work(y) \/ Fresh(y, e)
  <2>1. \E p : Executes(x, p) BY <1>6, StepMoves
  <2> QED BY <1>4, <2>1
<1> QED BY <1>5, <1>6, NextSplit

LEMMA Remains ==
  ASSUME TerminalInv
  PROVE  /\ NonStep => \A y \in Actor : \A e \in Work(y) : e \in Work(y)'
         /\ \A x \in Actor : StepOf(x) =>
              /\ \A y \in Actor : \A e \in Work(y) : e = Do(x) \/ e \in Work(y)'
              /\ Items(Tail(todo[x])) \subseteq Work(x)'
<1>1. todo \in [Actor -> Seq(Step)] /\ ListInv BY DEF TerminalInv, TerminalType, ClientType
<1>2. ASSUME NonStep PROVE \A y \in Actor : \A e \in Work(y) : e \in Work(y)'
  <2>1. CASE UNCHANGED todo BY <2>1, SameWork
  <2>2. ASSUME NEW x \in Actor, NEW p, Begins(x, p) PROVE \A y \in Actor : \A e \in Work(y) : e \in Work(y)'
    BY <1>1, <2>2, BeginStep DEF Begins, FreshList
  <2> QED BY <1>2, <2>1, <2>2, NonStepMoves
<1>3. ASSUME NEW x \in Actor, StepOf(x)
      PROVE  /\ \A y \in Actor : \A e \in Work(y) : e = Do(x) \/ e \in Work(y)'
             /\ Items(Tail(todo[x])) \subseteq Work(x)'
  <2>1. PICK p : Executes(x, p) BY <1>3, StepMoves
  <2> QED BY <1>1, <2>1, ThenStep DEF Executes, FreshList
<1> QED BY <1>2, <1>3
-----------------------------------------------------------------------------
(* The logs of events. *)

\* An event of an approval is announced with its new state.
Announces(a, type) ==
  /\ Emit(a, type)
  /\ \/ type = "requested" /\ truth[a] = "new" /\ truth' = [truth EXCEPT ![a] = "open"] /\ Running(Owner[a])
     \/ type = "settled" /\ truth[a] \in {"open", "answered"} /\ truth' = [truth EXCEPT ![a] = "settled"]
  /\ UNCHANGED <<mainDone, approvals, renderMu, todo, views, mainTurn, screen, logs>>
Texts ==
  /\ turn # 0 /\ mainLog' = Append(mainLog, <<"text", None>>)
  /\ UNCHANGED <<truth, subLog, feed, mainDone, approvals, todo, views, mainTurn, screen>>
Observed(k) == monitor(k) /\ feed[k] # <<>> /\ feed' = [feed EXCEPT ![k] = Tail(@)] /\ UNCHANGED <<truth, subLog, mainLog>>
NewRun == mainLog' = <<>> /\ turn = 0 /\ (dequeueMainAgentPrompt \/ Prompt) /\ UNCHANGED <<truth, subLog, feed>>

LEMMA WorldMoves ==
  ASSUME TerminalInv, [Next]_vars
  PROVE  \/ UNCHANGED <<subLog, feed, mainLog>>
         \/ \E a \in Approval : \E type \in {"requested", "settled"} : Announces(a, type)
         \/ Texts \/ NewRun \/ interruptActiveView
         \/ \E k \in Kinds : Observed(k)
<1>1. CASE Agent
  <2>1. ASSUME NEW a \in Approval, Request(a) PROVE Announces(a, "requested") BY <2>1 DEF Request, Announces
  <2>2. ASSUME NEW a \in Approval, Settle(a) PROVE Announces(a, "settled") BY <2>2 DEF Settle, Announces, mainTurn
  <2>3. CASE MainText BY <2>3 DEF MainText, Texts
  <2>4. CASE (\E s \in Sub : SubStarts(s)) \/ MainEnds \/ Continuation
    BY <2>4 DEF SubStarts, MainEnds, Continuation
  <2> QED BY <1>1, <2>1, <2>2, <2>3, <2>4 DEF Agent
<1>2. CASE Monitor
  BY <1>2 DEF Monitor, monitorSubagentPermissions, monitorSubagentConfirmations, Kinds, monitor, Observed
<1>3. CASE MainLoop
  <2>1. CASE runMainAgentTurn \/ EndTurn \/ renderRuntimeLogEntry
    BY <2>1 DEF runMainAgentTurn, EndTurn, renderRuntimeLogEntry, world
  <2>2. CASE dequeueMainAgentPrompt BY <2>2, RunTurn DEF NewRun, TerminalInv, Restarts
  <2> QED BY <1>3, <2>1, <2>2 DEF MainLoop
<1>4. CASE Input
  <2>1. CASE \/ \E k \in Kinds : Choose(k)
             \/ \E a \in Approval : ChooseID(a)
             \/ \E s \in Sub : Open(s) \/ closeSubagent(s)
             \/ runSubagentTurn \/ Back \/ NewSession \/ ClearScreen \/ toggleReasoning \/ toggleRuntimeLogs
    BY <2>1 DEF Choose, ChooseID, Open, closeSubagent, runSubagentTurn, Back, NewSession, ClearScreen,
       toggleReasoning, toggleRuntimeLogs, world
  <2>2. CASE Prompt BY <2>2, RunTurn DEF NewRun, TerminalInv, Restarts
  <2> QED BY <1>4, <2>1, <2>2 DEF Input
<1>5. CASE Write BY <1>5 DEF Write, world
<1>6. ASSUME NEW x \in Actor, StepOf(x) PROVE UNCHANGED <<subLog, feed, mainLog>>
  BY <1>6 DEF StepOf, addPending, appendApproval, dropPending, markApprovalComplete, activateNextApproval,
     activeView, renderInView, renderApproval, renderActiveApproval, Unlock, AgentResolve, clear, Stream,
     showMainAgentView, Frame, world
<1>7. ASSUME NEW r \in Viewer, Renderer(r) PROVE UNCHANGED <<subLog, feed, mainLog>>
  BY <1>7 DEF Renderer, RenderRetained, RenderPrompt, renderSubagentRun, world
<1>8. CASE UNCHANGED vars BY <1>8 DEF vars, world
<1> QED BY <1>1, <1>2, <1>3, <1>4, <1>5, <1>6, <1>7, <1>8 DEF Next

LEMMA WorldNext ==
  ASSUME TerminalInv, [Next]_vars
  PROVE  WorldType' /\ EventInv'
<1>1. WorldType /\ EventInv BY DEF TerminalInv, TerminalType
<1>2. truth' \in [Approval -> {"new", "open", "answered", "settled"}] /\ Grows BY TruthGrows DEF TerminalInv
<1>3. /\ \A e \in Items(mainLog) : e[1] # "text" => Known(e)' /\ Owner[e[2]] = Main
      /\ \A s \in Sub : \A e \in Items(subLog[s]) : Known(e)' /\ Owner[e[2]] = s
      /\ \A k \in Kinds : \A e \in Items(feed[k]) : Known(e)' /\ Owner[e[2]] \in Sub /\ Kind[e[2]] = k
  <2>1. ASSUME NEW e, e[2] \in Approval, Known(e) PROVE Known(e)' BY <1>2, <2>1 DEF Grows, Known
  <2>2. /\ \A e \in Items(mainLog) : e[1] # "text" => e[2] \in Approval
        /\ \A s \in Sub : Items(subLog[s]) \subseteq AEvent /\ \A k \in Kinds : Items(feed[k]) \subseteq AEvent
    <3>1. Items(mainLog) \subseteq MEvent BY <1>1, ItemsOf DEF WorldType
    <3>2. \A s \in Sub : Items(subLog[s]) \subseteq AEvent BY <1>1, ItemsOf DEF WorldType
    <3>3. \A k \in Kinds : Items(feed[k]) \subseteq AEvent BY <1>1, ItemsOf DEF WorldType
    <3> QED BY <3>1, <3>2, <3>3, Events DEF MEvent
  <2> QED BY <1>1, <2>1, <2>2, Events DEF EventInv
<1>4. CASE UNCHANGED <<subLog, feed, mainLog>>
  BY <1>1, <1>2, <1>3, <1>4 DEF WorldType, EventInv
<1>5. ASSUME NEW a \in Approval, NEW type \in {"requested", "settled"}, Announces(a, type)
      PROVE  WorldType' /\ EventInv'
  <2>1. Known(<<type, a>>)'
    BY <1>1, <1>5 DEF Announces, WorldType, Known
  <2>2. /\ mainLog' \in Seq(MEvent) /\ subLog' \in [Sub -> Seq(AEvent)] /\ feed' \in [Kinds -> Seq(AEvent)]
        /\ \/ Owner[a] = Main /\ mainLog' = Append(mainLog, <<type, a>>) /\ UNCHANGED <<subLog, feed>>
           \/ /\ Owner[a] \in Sub /\ Kind[a] \in Kinds
              /\ subLog' = [subLog EXCEPT ![Owner[a]] = Append(@, <<type, a>>)]
              /\ feed' = [feed EXCEPT ![Kind[a]] = Append(@, <<type, a>>)]
              /\ UNCHANGED mainLog
    BY <1>1, <1>5, Emits DEF Announces
  <2>3. <<type, a>> \in AEvent /\ <<type, a>> \in MEvent /\ <<type, a>>[1] # "text" /\ <<type, a>>[2] = a
    BY DEF AEvent, MEvent
  <2>4. \A e \in Items(mainLog') : e \in Items(mainLog) \/ (e = <<type, a>> /\ Owner[a] = Main)
    <3>1. mainLog \in Seq(MEvent) BY <1>1 DEF WorldType
    <3>2. Items(Append(mainLog, <<type, a>>)) = Items(mainLog) \cup {<<type, a>>} BY <2>3, <3>1, ItemsAppend
    <3> QED BY <2>2, <3>2
  <2>5. \A s \in Sub : \A e \in Items(subLog'[s]) : e \in Items(subLog[s]) \/ (e = <<type, a>> /\ Owner[a] = s)
    <3> SUFFICES ASSUME NEW s \in Sub PROVE \A e \in Items(subLog'[s]) : e \in Items(subLog[s]) \/ (e = <<type, a>> /\ Owner[a] = s)
      OBVIOUS
    <3>1. subLog[s] \in Seq(AEvent) BY <1>1 DEF WorldType
    <3>2. subLog'[s] = subLog[s] \/ (s = Owner[a] /\ subLog'[s] = Append(subLog[s], <<type, a>>))
      BY <1>1, <2>2 DEF WorldType
    <3>3. Items(Append(subLog[s], <<type, a>>)) = Items(subLog[s]) \cup {<<type, a>>} BY <2>3, <3>1, ItemsAppend
    <3> QED BY <3>2, <3>3
  <2>6. \A k \in Kinds : \A e \in Items(feed'[k]) :
          e \in Items(feed[k]) \/ (e = <<type, a>> /\ Owner[a] \in Sub /\ Kind[a] = k)
    <3> SUFFICES ASSUME NEW k \in Kinds
                 PROVE  \A e \in Items(feed'[k]) : e \in Items(feed[k]) \/ (e = <<type, a>> /\ Owner[a] \in Sub /\ Kind[a] = k)
      OBVIOUS
    <3>1. feed[k] \in Seq(AEvent) BY <1>1 DEF WorldType
    <3>2. \/ feed'[k] = feed[k]
          \/ k = Kind[a] /\ Owner[a] \in Sub /\ feed'[k] = Append(feed[k], <<type, a>>)
      BY <1>1, <2>2 DEF WorldType
    <3>3. Items(Append(feed[k], <<type, a>>)) = Items(feed[k]) \cup {<<type, a>>} BY <2>3, <3>1, ItemsAppend
    <3> QED BY <3>2, <3>3
  <2>7. WorldType' BY <1>2, <2>2 DEF WorldType
  <2>8. EventInv' BY <1>3, <2>1, <2>3, <2>4, <2>5, <2>6 DEF EventInv
  <2> QED BY <2>7, <2>8
<1>6. CASE Texts
  <2>1. <<"text", None>> \in MEvent /\ <<"text", None>>[1] = "text" BY DEF MEvent
  <2>2. mainLog' \in Seq(MEvent) /\ Items(mainLog') = Items(mainLog) \cup {<<"text", None>>}
    <3>1. mainLog \in Seq(MEvent) /\ mainLog' = Append(mainLog, <<"text", None>>) BY <1>1, <1>6 DEF Texts, WorldType
    <3>2. /\ Append(mainLog, <<"text", None>>) \in Seq(MEvent)
          /\ Items(Append(mainLog, <<"text", None>>)) = Items(mainLog) \cup {<<"text", None>>}
      BY <2>1, <3>1, ItemsAppend, SMTT(20)
    <3> QED BY <3>1, <3>2
  <2>3. UNCHANGED <<subLog, feed>> BY <1>6 DEF Texts
  <2> QED BY <1>1, <1>2, <1>3, <2>1, <2>2, <2>3 DEF WorldType, EventInv
<1>7. CASE NewRun
  <2>1. mainLog' \in Seq(MEvent) /\ Items(mainLog') = {} /\ UNCHANGED <<subLog, feed>>
    BY <1>7, ItemsEmpty DEF NewRun
  <2> QED BY <1>1, <1>2, <1>3, <2>1 DEF WorldType, EventInv
<1>8. CASE interruptActiveView
  <2>1. mainLog' = mainLog \o SetToSeq(Cancelled) /\ UNCHANGED <<subLog, feed>> BY <1>8, Interrupt
  <2>2. SetToSeq(Cancelled) \in Seq(MEvent) /\ Items(SetToSeq(Cancelled)) = Cancelled
    <3>1. AEvent \subseteq MEvent BY DEF MEvent
    <3> QED BY <3>1, Cancellation
  <2>3. mainLog' \in Seq(MEvent) /\ Items(mainLog') = Items(mainLog) \cup Cancelled
    BY <1>1, <2>1, <2>2, ItemsConcat DEF WorldType
  <2>4. \A e \in Cancelled : Known(e)' /\ Owner[e[2]] = Main
    BY <1>8, Interrupt DEF Cancelled, MainOpen, Known
  <2> QED BY <1>1, <1>2, <1>3, <2>1, <2>3, <2>4 DEF WorldType, EventInv
<1>9. ASSUME NEW k \in Kinds, Observed(k) PROVE WorldType' /\ EventInv'
  <2>1. feed[k] \in Seq(AEvent) /\ feed[k] # <<>> /\ feed' = [feed EXCEPT ![k] = Tail(feed[k])] /\ UNCHANGED <<subLog, mainLog>>
    BY <1>1, <1>9 DEF Observed, WorldType
  <2>2. Tail(feed[k]) \in Seq(AEvent) /\ Items(Tail(feed[k])) \subseteq Items(feed[k]) BY <2>1, ItemsHead
  <2>3. feed' \in [Kinds -> Seq(AEvent)] BY <1>1, <2>1, <2>2 DEF WorldType
  <2>4. \A j \in Kinds : Items(feed'[j]) \subseteq Items(feed[j]) BY <1>1, <2>1, <2>2 DEF WorldType
  <2>5. WorldType' BY <1>1, <1>2, <2>1, <2>3 DEF WorldType
  <2>6. EventInv' BY <1>3, <2>1, <2>4 DEF EventInv
  <2> QED BY <2>5, <2>6
<1> QED BY <1>4, <1>5, <1>6, <1>7, <1>8, <1>9, WorldMoves
-----------------------------------------------------------------------------
(* Who changes what. *)

TurnAlone ==
  \/ UNCHANGED <<turn, mainNext, hasRun, replayThrough, typed, promptQueue>>
  \/ runMainAgentTurn \/ EndTurn \/ dequeueMainAgentPrompt \/ Prompt \/ NewSession
  \/ \E x \in Actor : showMainAgentView(x)
ScreenAlone ==
  \/ UNCHANGED screen
  \/ runMainAgentTurn \/ dequeueMainAgentPrompt \/ Prompt \/ NewSession \/ ClearScreen \/ toggleRuntimeLogs
  \/ \E r \in Viewer : RenderPrompt(r)
  \/ \E x \in Actor : renderInView(x) \/ renderApproval(x) \/ clear(x) \/ showMainAgentView(x)
LogAlone == UNCHANGED <<logs, logView>> \/ Write \/ renderRuntimeLogEntry \/ toggleRuntimeLogs
ViewAlone ==
  \/ UNCHANGED <<view, epoch>>
  \/ \E s \in Sub : Open(s) \/ closeSubagent(s)
  \/ Back \/ NewSession \/ toggleReasoning \/ toggleRuntimeLogs
RendererAlone ==
  UNCHANGED renderer \/ runSubagentTurn \/ (\E r \in Viewer : Renderer(r)) \/ (\E x \in Actor : Stream(x))
MutexAlone ==
  UNCHANGED renderMu \/ runMainAgentTurn \/ (\E r \in Viewer : renderSubagentRun(r)) \/ (\E x \in Actor : Unlock(x))
DoneAlone == UNCHANGED mainDone \/ MainEnds \/ dequeueMainAgentPrompt \/ Prompt \/ interruptActiveView
Alone == TurnAlone /\ ScreenAlone /\ LogAlone /\ ViewAlone /\ RendererAlone /\ MutexAlone /\ DoneAlone

LEMMA Frames == [Next]_vars => Alone
<1> SUFFICES ASSUME [Next]_vars PROVE Alone OBVIOUS
<1> USE DEF TurnAlone, ScreenAlone, LogAlone, ViewAlone, RendererAlone, MutexAlone, DoneAlone, Alone,
        world, views, mainTurn, screen, logs
<1>1. ASSUME NEW a \in Approval, Request(a) \/ Settle(a) PROVE Alone BY <1>1 DEF Request, Settle
<1>2. CASE MainText \/ MainEnds \/ Continuation \/ \E s \in Sub : SubStarts(s)
  BY <1>2 DEF SubStarts, MainText, MainEnds, Continuation
<1>3. CASE Monitor BY <1>3 DEF Monitor, monitorSubagentPermissions, monitorSubagentConfirmations, monitor
<1>4. CASE MainLoop
  <2>1. CASE runMainAgentTurn BY <2>1 DEF runMainAgentTurn
  <2>2. CASE EndTurn BY <2>2 DEF EndTurn
  <2>3. CASE dequeueMainAgentPrompt BY <2>3 DEF dequeueMainAgentPrompt
  <2>4. CASE renderRuntimeLogEntry BY <2>4 DEF renderRuntimeLogEntry
  <2> QED BY <1>4, <2>1, <2>2, <2>3, <2>4 DEF MainLoop
<1>5. CASE Input
  <2>1. CASE (\E k \in Kinds : Choose(k)) \/ (\E a \in Approval : ChooseID(a)) BY <2>1 DEF Choose, ChooseID
  <2>2. CASE \E s \in Sub : Open(s) \/ closeSubagent(s) BY <2>2 DEF Open, closeSubagent
  <2>3. CASE Prompt BY <2>3 DEF Prompt
  <2>4. CASE runSubagentTurn BY <2>4 DEF runSubagentTurn
  <2>5. CASE Back BY <2>5 DEF Back
  <2>6. CASE NewSession BY <2>6 DEF NewSession
  <2>7. CASE ClearScreen BY <2>7 DEF ClearScreen
  <2>8. CASE toggleReasoning BY <2>8 DEF toggleReasoning
  <2>9. CASE toggleRuntimeLogs BY <2>9 DEF toggleRuntimeLogs
  <2>10. CASE interruptActiveView BY <2>10 DEF interruptActiveView
  <2> QED BY <1>5, <2>1, <2>2, <2>3, <2>4, <2>5, <2>6, <2>7, <2>8, <2>9, <2>10 DEF Input
<1>6. CASE Write BY <1>6 DEF Write
<1>7. ASSUME NEW x \in Actor, StepOf(x) PROVE Alone
  <2>1. CASE addPending(x) \/ appendApproval(x) \/ dropPending(x) \/ markApprovalComplete(x) \/ activateNextApproval(x)
    BY <2>1 DEF addPending, appendApproval, dropPending, markApprovalComplete, activateNextApproval, Frame
  <2>2. CASE activeView(x) \/ renderActiveApproval(x) BY <2>2 DEF activeView, renderActiveApproval, Client, Frame
  <2>3. CASE renderInView(x) \/ renderApproval(x) BY <2>3 DEF renderInView, renderApproval, Frame
  <2>4. CASE Unlock(x) BY <2>4 DEF Unlock, Client, Frame
  <2>5. CASE AgentResolve(x) BY <2>5 DEF AgentResolve, Client
  <2>6. CASE clear(x) BY <2>6 DEF clear
  <2>7. CASE Stream(x) BY <2>7 DEF Stream, Client
  <2>8. CASE showMainAgentView(x) BY <2>8 DEF showMainAgentView
  <2> QED BY <1>7, <2>1, <2>2, <2>3, <2>4, <2>5, <2>6, <2>7, <2>8 DEF StepOf
<1>8. ASSUME NEW r \in Viewer, Renderer(r) PROVE Alone
  <2>1. CASE RenderRetained(r) BY <1>8, <2>1 DEF RenderRetained
  <2>2. CASE RenderPrompt(r) BY <1>8, <2>2, SMTT(30) DEF RenderPrompt
  <2>3. CASE renderSubagentRun(r) BY <1>8, <2>3 DEF renderSubagentRun
  <2> QED BY <1>8, <2>1, <2>2, <2>3 DEF Renderer
<1>9. CASE UNCHANGED vars BY <1>9 DEF vars
<1> QED BY <1>1, <1>2, <1>3, <1>4, <1>5, <1>6, <1>7, <1>8, <1>9 DEF Next, Agent
-----------------------------------------------------------------------------
(* Types of the client. *)

LEMMA ViewMoves ==
  ASSUME TerminalInv, [Next]_vars
  PROVE  /\ view' \in Sub \cup {Main} /\ epoch' \in Nat /\ epoch <= epoch'
         /\ \/ UNCHANGED <<view, epoch>>
            \/ todo["input"] = <<>> /\ (epoch' = epoch + 1 \/ (epoch' = epoch /\ view = Main /\ view' = Main))
<1>1. view \in Sub \cup {Main} /\ epoch \in Nat BY DEF TerminalInv, TerminalType, ClientType
<1>2. CASE UNCHANGED <<view, epoch>> BY <1>1, <1>2
<1>3. CASE (\E s \in Sub : Open(s) \/ closeSubagent(s)) \/ Back \/ toggleReasoning \/ toggleRuntimeLogs
  BY <1>1, <1>3, ViewChanges DEF Rebuilds
<1>4. CASE NewSession BY <1>1, <1>4 DEF NewSession, switchView, Read, InputIdle
<1> QED BY <1>2, <1>3, <1>4, Frames DEF Alone, ViewAlone

\* A goroutine for the view on the screen, and what one does.
Begun(r) ==
  /\ renderer[r].state = "none" /\ view \in Sub /\ UNCHANGED <<view, epoch, logView>>
  /\ renderer' = [renderer EXCEPT ![r] = [state |-> "start", id |-> view, epoch |-> epoch, next |-> 0]]
Goes(r) ==
  /\ renderer[r].state # "none" /\ UNCHANGED <<view, epoch, logView>>
  /\ \E st \in {"retained", "live", "over"} : \E n \in Nat :
       renderer' = [renderer EXCEPT ![r] = [state |-> st, id |-> renderer[r].id, epoch |-> renderer[r].epoch, next |-> n]]

LEMMA RendererFacts ==
  ASSUME TerminalInv
  PROVE  /\ renderer \in [Viewer -> RendererType]
         /\ \A r \in Viewer : /\ renderer[r] \in RendererType
                              /\ renderer[r].id \in Sub \cup {None} /\ renderer[r].epoch \in Nat /\ renderer[r].next \in Nat
                              /\ renderer[r].state # "none" => renderer[r].id \in Sub /\ renderer[r].id # Main
<1>1. renderer \in [Viewer -> RendererType] /\ \A r \in Viewer : renderer[r].state # "none" <=> renderer[r].id # None
  BY DEF TerminalInv, TerminalType, ClientType
<1> SUFFICES ASSUME NEW r \in Viewer
             PROVE  /\ renderer[r] \in RendererType
                    /\ renderer[r].id \in Sub \cup {None} /\ renderer[r].epoch \in Nat /\ renderer[r].next \in Nat
                    /\ renderer[r].state # "none" => renderer[r].id \in Sub /\ renderer[r].id # Main
  BY <1>1
<1>2. renderer[r] \in RendererType BY <1>1
<1>3. renderer[r].id \in Sub \cup {None} /\ renderer[r].epoch \in Nat /\ renderer[r].next \in Nat
  BY <1>2 DEF RendererType
<1> QED BY <1>1, <1>2, <1>3, TerminalAssumption

LEMMA StreamStarts ==
  ASSUME TerminalInv, FreeRenderer # {}, streamSubagentRun(view), view \in Sub, UNCHANGED <<view, epoch, logView>>
  PROVE  \E r \in Viewer : Begun(r)
<1> DEFINE r == CHOOSE r \in FreeRenderer : TRUE
<1>1. r \in FreeRenderer BY Zenon
<1>2. renderer' = [renderer EXCEPT ![r] = [state |-> "start", id |-> view, epoch |-> epoch, next |-> 0]]
  BY DEF streamSubagentRun
<1> HIDE DEF r
<1>3. r \in Viewer /\ Begun(r) BY <1>1, <1>2 DEF Begun, FreeRenderer
<1> QED BY <1>3

\* The goroutine of a view: what it has drawn of the retained events, and the
\* prompt.
LEMMA RetainedStep ==
  ASSUME TerminalInv, NEW r \in Viewer, RenderRetained(r)
  PROVE  /\ Goes(r) /\ renderer[r].state = "start" /\ renderer'[r].state = "retained"
         /\ subLog[renderer[r].id] \in Seq(AEvent) /\ renderer'[r].next = Len(subLog[renderer[r].id]) + 1
<1> DEFINE s == renderer[r].id
<1>1. renderer[r].state = "start" /\ renderer[r] \in RendererType /\ s \in Sub BY RendererFacts DEF RenderRetained
<1>2. subLog[s] \in Seq(AEvent) BY <1>1 DEF TerminalInv, TerminalType, WorldType
<1> DEFINE n == Len(subLog[s]) + 1
<1>3. n \in Nat BY <1>2
<1>4. renderer' = [renderer EXCEPT ![r] = [state |-> "retained", id |-> s, epoch |-> renderer[r].epoch, next |-> n]]
  <2>1. renderer' = [renderer EXCEPT ![r].state = "retained", ![r].next = n] BY DEF RenderRetained
  <2> HIDE DEF n, s
  <2>2. renderer[r] \in RendererType /\ renderer \in [Viewer -> RendererType] /\ s = renderer[r].id
    BY RendererFacts DEF s
  <2>3. \A w \in RendererType : [[w EXCEPT !.state = "retained"] EXCEPT !.next = n]
           = [state |-> "retained", id |-> w.id, epoch |-> w.epoch, next |-> n]
    <3> SUFFICES ASSUME NEW w \in RendererType
                 PROVE  [[w EXCEPT !.state = "retained"] EXCEPT !.next = n]
                          = [state |-> "retained", id |-> w.id, epoch |-> w.epoch, next |-> n]
      OBVIOUS
    <3>1. w = [state |-> w.state, id |-> w.id, epoch |-> w.epoch, next |-> w.next] BY DEF RendererType
    <3>2. [w EXCEPT !.state = "retained"] = [state |-> "retained", id |-> w.id, epoch |-> w.epoch, next |-> w.next]
      BY <3>1
    <3> DEFINE v == [w EXCEPT !.state = "retained"]
    <3>3. v = [state |-> "retained", id |-> w.id, epoch |-> w.epoch, next |-> w.next] BY <3>2
    <3> HIDE DEF v
    <3>4. [v EXCEPT !.next = n] = [state |-> "retained", id |-> w.id, epoch |-> w.epoch, next |-> n] BY ONLY <3>3
    <3> QED BY <3>4 DEF v
  <2>4. renderer' = [renderer EXCEPT ![r] = [[renderer[r] EXCEPT !.state = "retained"] EXCEPT !.next = n]]
    BY <2>1, <2>2
  <2> QED BY <2>2, <2>3, <2>4
<1>5. UNCHANGED <<view, epoch, logView>> BY DEF RenderRetained
<1> HIDE DEF n
<1>6. Goes(r) BY <1>1, <1>3, <1>4, <1>5 DEF Goes
<1>7. renderer'[r] = [state |-> "retained", id |-> s, epoch |-> renderer[r].epoch, next |-> n] BY <1>4, RendererFacts
<1> QED BY <1>1, <1>2, <1>6, <1>7 DEF n

LEMMA GoesOn ==
  ASSUME TerminalInv, NEW r \in Viewer, renderer[r].state # "none", UNCHANGED <<view, epoch, logView>>,
         NEW st \in {"live", "over"}, NEW n \in Nat,
         \/ renderer' = [renderer EXCEPT ![r].state = st] /\ n = renderer[r].next
         \/ renderer' = [renderer EXCEPT ![r].next = n] /\ st = renderer[r].state
  PROVE  Goes(r) /\ renderer'[r].state = st /\ renderer'[r].next = n
<1>1. renderer \in [Viewer -> RendererType] /\ renderer[r] \in RendererType BY RendererFacts
<1>2. renderer[r] = [state |-> renderer[r].state, id |-> renderer[r].id, epoch |-> renderer[r].epoch, next |-> renderer[r].next]
  BY <1>1 DEF RendererType
<1>3. renderer' = [renderer EXCEPT ![r] = [state |-> st, id |-> renderer[r].id, epoch |-> renderer[r].epoch, next |-> n]]
  BY <1>1, <1>2 DEF RendererType
<1>4. renderer'[r] = [state |-> st, id |-> renderer[r].id, epoch |-> renderer[r].epoch, next |-> n] BY <1>1, <1>3
<1>5. Goes(r) BY <1>3 DEF Goes
<1> QED BY <1>4, <1>5

LEMMA PromptStep ==
  ASSUME TerminalInv, NEW r \in Viewer, RenderPrompt(r)
  PROVE  /\ Goes(r) /\ renderer[r].state = "retained" /\ renderer'[r].next = renderer[r].next
         /\ renderer'[r].state = IF InView(renderer[r].id) THEN "live" ELSE "over"
<1>1. /\ renderer[r].state = "retained" /\ UNCHANGED <<view, epoch, logView>>
      /\ renderer' = [renderer EXCEPT ![r].state = IF InView(renderer[r].id) THEN "live" ELSE "over"]
  BY DEF RenderPrompt, StopRenderer
<1>2. PICK st \in {"live", "over"} : st = IF InView(renderer[r].id) THEN "live" ELSE "over" OBVIOUS
<1>3. renderer[r].next \in Nat BY RendererFacts
<1>4. renderer' = [renderer EXCEPT ![r].state = st] BY <1>1, <1>2
<1> QED BY <1>1, <1>2, <1>3, <1>4, GoesOn

LEMMA ReadStep ==
  ASSUME TerminalInv, NEW r \in Viewer, renderSubagentRun(r)
  PROVE  /\ Goes(r) /\ renderer[r].state = "live"
         /\ \/ renderer'[r].state = "over" /\ epoch # renderer[r].epoch /\ UNCHANGED todo
            \/ /\ renderer'[r].state = "live" /\ renderer'[r].next = renderer[r].next + 1
               /\ renderer[r].next \in 1..Len(subLog[renderer[r].id])
<1>1. renderer[r].state = "live" /\ UNCHANGED <<view, epoch, logView>> BY DEF renderSubagentRun
<1>2. renderer[r].next \in Nat /\ renderer[r].next + 1 \in Nat BY RendererFacts
<1>3. CASE StopRenderer(r) /\ epoch # renderer[r].epoch /\ UNCHANGED <<renderMu, todo>>
  <2>1. renderer' = [renderer EXCEPT ![r].state = "over"] BY <1>3 DEF StopRenderer
  <2> QED BY <1>1, <1>2, <1>3, <2>1, GoesOn
<1>4. CASE /\ renderer' = [renderer EXCEPT ![r].next = renderer[r].next + 1]
           /\ renderer[r].next \in 1..Len(subLog[renderer[r].id])
  BY <1>1, <1>2, <1>4, GoesOn
<1> QED BY <1>3, <1>4, ViewReads, SMTT(30)

LEMMA RendererMoves ==
  ASSUME TerminalInv, [Next]_vars
  PROVE  UNCHANGED renderer \/ \E r \in Viewer : Begun(r) \/ (Goes(r) /\ Renderer(r))
<1>1. view \in Sub \cup {Main} BY DEF TerminalInv, TerminalType, ClientType
<1>2. CASE runSubagentTurn
  <2>1. view \in Sub /\ UNCHANGED <<view, epoch, logView>> BY <1>1, <1>2 DEF runSubagentTurn
  <2>2. UNCHANGED renderer \/ (FreeRenderer # {} /\ streamSubagentRun(view)) BY <1>2 DEF runSubagentTurn
  <2> QED BY <2>1, <2>2, StreamStarts
<1>3. ASSUME NEW x \in Actor, Stream(x) PROVE \E r \in Viewer : Begun(r)
  <2>1. /\ todo[x] # <<>> /\ Do(x)[1] = "stream" /\ FreeRenderer # {} /\ streamSubagentRun(Do(x)[2])
        /\ UNCHANGED <<view, epoch, logView>>
    BY <1>3 DEF Stream, At
  <2>2. Do(x) \in Work(x) /\ Do(x) \in Step BY <2>1, StepFacts DEF TerminalInv
  <2>3. Do(x)[2] \in Sub /\ Do(x)[2] = view BY <2>1, <2>2, StepKind DEF TerminalInv, ViewInv
  <2> QED BY <2>1, <2>3, StreamStarts
<1>4. ASSUME NEW r \in Viewer, Renderer(r) PROVE Goes(r)
  BY <1>4, RetainedStep, PromptStep, ReadStep DEF Renderer
<1> QED BY <1>2, <1>3, <1>4, Frames DEF Alone, RendererAlone

LEMMA ClientNext ==
  ASSUME TerminalInv, [Next]_vars
  PROVE  ClientType'
<1>1. ClientType /\ TerminalType BY DEF TerminalInv, TerminalType
<1>2. pending' \subseteq Approval /\ approvalOrder' \in Seq(Approval) /\ activeApproval' \in Approval \cup {None}
  <2>1. CASE UNCHANGED approvals BY <1>1, <2>1 DEF ClientType, approvals
  <2>2. ASSUME NEW x \in Actor, StepOf(x), Queues(x)
        PROVE  pending' \subseteq Approval /\ approvalOrder' \in Seq(Approval) /\ activeApproval' \in Approval \cup {None}
    <3>1. Do(x) \in Step BY <2>2, StepMoves
    <3>2. CASE addPending(x) BY <1>1, <3>1, <3>2, StepKind DEF addPending, At, ClientType
    <3>3. CASE appendApproval(x)
      <4>1. Do(x)[2] \in Approval BY <3>1, <3>3, StepKind DEF appendApproval, At
      <4> QED BY <1>1, <3>3, <4>1 DEF appendApproval, ClientType
    <3>4. CASE dropPending(x) \/ markApprovalComplete(x)
      BY <1>1, <3>4 DEF dropPending, markApprovalComplete, ClientType
    <3>5. CASE activateNextApproval(x)
      <4>1. CASE activeApproval = None
        <5>1. UNCHANGED pending BY <3>5 DEF activateNextApproval
        <5> QED BY <1>1, <3>5, <4>1, <5>1, ActivateNext DEF ClientType
      <4>2. CASE activeApproval # None BY <1>1, <3>5, <4>2 DEF activateNextApproval, ClientType
      <4> QED BY <4>1, <4>2
    <3> QED BY <2>2, <3>2, <3>3, <3>4, <3>5 DEF Queues
  <2> QED BY <2>1, <2>2, NextSplit, NonStepQueue, QueuesAlone
<1>3. renderMu' \in Actor \cup {None}
  <2>1. CASE UNCHANGED renderMu BY <1>1, <2>1 DEF ClientType
  <2>2. CASE runMainAgentTurn BY <1>1, <2>2, Actors, SMTT(30) DEF runMainAgentTurn, ClientType
  <2>3. ASSUME NEW r \in Viewer, renderSubagentRun(r) PROVE renderMu' \in Actor \cup {None}
    BY <1>1, <2>3, Actors DEF renderSubagentRun, ClientType
  <2>4. ASSUME NEW x \in Actor, Unlock(x) PROVE renderMu' \in Actor \cup {None} BY <2>4 DEF Unlock
  <2> QED BY <2>1, <2>2, <2>3, <2>4, Frames DEF Alone, MutexAlone
<1>4. todo' \in [Actor -> Seq(Step)] BY Lists
<1>5. view' \in Sub \cup {Main} /\ epoch' \in Nat BY ViewMoves
<1>6. logView' \in BOOLEAN
  BY <1>1, Frames DEF Alone, LogAlone, Write, renderRuntimeLogEntry, toggleRuntimeLogs, ClientType, views
<1>7. /\ renderer' \in [Viewer -> RendererType]
      /\ \A r \in Viewer : renderer'[r].state # "none" <=> renderer'[r].id # None
  <2>1. CASE UNCHANGED renderer BY <1>1, <2>1 DEF ClientType
  <2>2. ASSUME NEW r \in Viewer, Begun(r)
        PROVE  /\ renderer' \in [Viewer -> RendererType]
               /\ \A q \in Viewer : renderer'[q].state # "none" <=> renderer'[q].id # None
    <3> DEFINE w == [state |-> "start", id |-> view, epoch |-> epoch, next |-> 0]
    <3>1. w \in RendererType /\ w.state # "none" /\ w.id # None
      BY <1>1, <2>2, TerminalAssumption DEF Begun, RendererType, ClientType
    <3>2. renderer' = [renderer EXCEPT ![r] = w] BY <2>2 DEF Begun
    <3> HIDE DEF w
    <3> QED BY <1>1, <3>1, <3>2 DEF ClientType
  <2>3. ASSUME NEW r \in Viewer, Goes(r)
        PROVE  /\ renderer' \in [Viewer -> RendererType]
               /\ \A q \in Viewer : renderer'[q].state # "none" <=> renderer'[q].id # None
    <3>1. PICK st \in {"retained", "live", "over"}, n \in Nat :
            renderer' = [renderer EXCEPT ![r] = [state |-> st, id |-> renderer[r].id, epoch |-> renderer[r].epoch, next |-> n]]
      BY <2>3 DEF Goes
    <3> DEFINE w == [state |-> st, id |-> renderer[r].id, epoch |-> renderer[r].epoch, next |-> n]
    <3>2. w \in RendererType /\ w.state # "none" /\ w.id # None
      BY <2>3, RendererFacts, TerminalAssumption DEF Goes, RendererType
    <3>3. renderer' = [renderer EXCEPT ![r] = w] BY <3>1
    <3> HIDE DEF w
    <3> QED BY <1>1, <3>2, <3>3 DEF ClientType
  <2> QED BY <2>1, <2>2, <2>3, RendererMoves
<1> QED BY <1>2, <1>3, <1>4, <1>5, <1>6, <1>7 DEF ClientType

\* Events stay where they are in the main run's log, until the next run.
Extends == Len(mainLog) <= Len(mainLog') /\ \A i \in 1..Len(mainLog) : mainLog'[i] = mainLog[i]

LEMMA LogGrows == TerminalInv /\ [Next]_vars => Extends \/ Restarts
<1> SUFFICES ASSUME TerminalInv, [Next]_vars PROVE Extends \/ Restarts OBVIOUS
<1>1. mainLog \in Seq(MEvent) /\ Len(mainLog) \in Nat BY DEF TerminalInv, TerminalType, WorldType
<1>2. ASSUME UNCHANGED mainLog PROVE Extends BY <1>1, <1>2 DEF Extends
<1>3. ASSUME NEW e \in MEvent, mainLog' = Append(mainLog, e) PROVE Extends
  <2>1. Len(mainLog') = Len(mainLog) + 1 /\ \A i \in 1..Len(mainLog) : mainLog'[i] = mainLog[i]
    BY <1>1, <1>3, ItemsAppend
  <2> QED BY <1>1, <2>1 DEF Extends
<1>4. ASSUME NEW a \in Approval, NEW type \in {"requested", "settled"}, Announces(a, type) PROVE Extends
  <2>1. PICK e : e = <<type, a>> OBVIOUS
  <2>2. e \in MEvent /\ (UNCHANGED mainLog \/ mainLog' = Append(mainLog, e))
    BY <1>4, <2>1 DEF Announces, Emit, MEvent, AEvent
  <2> QED BY <1>2, <1>3, <2>2
<1>5. CASE Texts BY <1>3, <1>5 DEF Texts, MEvent
<1>6. CASE NewRun
  <2>1. UNCHANGED mainLog \/ Restarts BY <1>6, RunTurn DEF NewRun, TerminalInv
  <2> QED BY <1>2, <2>1
<1>7. CASE interruptActiveView
  <2>1. mainLog' = mainLog \o SetToSeq(Cancelled) BY <1>7, Interrupt
  <2>2. SetToSeq(Cancelled) \in Seq(MEvent)
    <3>1. AEvent \subseteq MEvent BY DEF MEvent
    <3> QED BY <3>1, Cancellation
  <2> DEFINE c == SetToSeq(Cancelled)
  <2>3. c \in Seq(MEvent) /\ mainLog' = mainLog \o c BY <2>1, <2>2
  <2> HIDE DEF c
  <2>4. /\ Len(mainLog') = Len(mainLog) + Len(c) /\ Len(c) \in Nat
        /\ \A i \in 1..(Len(mainLog) + Len(c)) : mainLog'[i] = IF i <= Len(mainLog) THEN mainLog[i] ELSE c[i - Len(mainLog)]
    BY <1>1, <2>3, ConcatProperties
  <2> QED BY <1>1, <2>4 DEF Extends
<1>8. ASSUME NEW k \in Kinds, Observed(k) PROVE UNCHANGED mainLog BY <1>8 DEF Observed
<1> QED BY <1>2, <1>4, <1>5, <1>6, <1>7, <1>8, WorldMoves

LEMMA StepTyped ==
  ASSUME TerminalInv, NEW x \in Actor, renderInView(x) \/ renderApproval(x)
  PROVE  Do(x)[2] \in Approval
<1>1. todo[x] # <<>> /\ Do(x)[1] \in {"draw", "paint"} BY DEF renderInView, renderApproval, At
<1> QED BY <1>1, StepFacts, StepKind DEF TerminalInv

LEMMA TurnNext ==
  ASSUME TerminalInv, [Next]_vars
  PROVE  TurnType'
<1>1. TurnType /\ TerminalType BY DEF TerminalInv, TerminalType
<1>2. mainLog \in Seq(MEvent) /\ Len(mainLog) \in Nat BY <1>1 DEF TerminalType, WorldType
<1>3. mainLog' \in Seq(MEvent) /\ Len(mainLog') \in Nat BY WorldNext DEF WorldType
<1>4. Len(<<>>) = 0 OBVIOUS
<1>5. /\ typed' \in Nat /\ turn' \in 0..typed' /\ promptQueue' \in Seq(1..typed')
      /\ mainNext' \in 1..(Len(mainLog') + 1) /\ replayThrough' \in Nat /\ hasRun' \in BOOLEAN
  <2>1. CASE UNCHANGED <<turn, mainNext, hasRun, replayThrough, typed, promptQueue>>
    <3>1. mainNext' \in 1..(Len(mainLog') + 1)
      <4>1. CASE Extends BY <1>1, <1>2, <1>3, <2>1, <4>1 DEF Extends, TurnType
      <4>2. CASE Restarts BY <1>4, <4>2 DEF Restarts
      <4> QED BY <4>1, <4>2, LogGrows
    <3> QED BY <1>1, <2>1, <3>1 DEF TurnType
  <2>2. CASE runMainAgentTurn
    <3>1. /\ UNCHANGED <<turn, hasRun, replayThrough, typed, promptQueue, mainLog>>
          /\ mainNext' = mainNext + 1 /\ mainNext <= Len(mainLog)
      BY <2>2 DEF runMainAgentTurn, world
    <3>2. mainNext + 1 \in 1..(Len(mainLog) + 1) BY <1>1, <1>2, <3>1 DEF TurnType
    <3> QED BY <1>1, <3>1, <3>2 DEF TurnType
  <2>3. CASE EndTurn
    <3>1. /\ turn' = 0 /\ hasRun' = FALSE /\ replayThrough' = (IF hasRun THEN 0 ELSE replayThrough)
          /\ UNCHANGED <<mainLog, mainNext, typed, promptQueue>>
      BY <2>3 DEF EndTurn, world
    <3>2. 0 \in 0..typed BY <1>1 DEF TurnType
    <3> QED BY <1>1, <3>1, <3>2 DEF TurnType
  <2>4. CASE dequeueMainAgentPrompt \/ Prompt
    <3>1. /\ UNCHANGED <<turn, mainNext, hasRun, replayThrough, mainLog, mainDone, drawn>> \/ Restarts
          /\ typed' \in Nat /\ typed <= typed' /\ promptQueue' \in Seq(1..typed')
      BY <1>1, <2>4, RunTurn
    <3>2. CASE UNCHANGED <<turn, mainNext, hasRun, replayThrough, mainLog, mainDone, drawn>>
      <4>1. turn' \in 0..typed' BY <1>1, <3>1, <3>2 DEF TurnType
      <4> QED BY <1>1, <3>1, <3>2, <4>1 DEF TurnType
    <3>3. CASE Restarts BY <1>4, <3>1, <3>3 DEF Restarts
    <3> QED BY <3>1, <3>2, <3>3
  <2>5. CASE NewSession
    <3>1. /\ hasRun' = FALSE /\ replayThrough' = 0 /\ promptQueue' = <<>>
          /\ UNCHANGED <<mainLog, mainNext, typed, turn>>
      BY <2>5 DEF NewSession, world
    <3>2. <<>> \in Seq(1..typed) OBVIOUS
    <3> QED BY <1>1, <3>1, <3>2 DEF TurnType
  <2>6. ASSUME NEW x \in Actor, showMainAgentView(x)
        PROVE  /\ typed' \in Nat /\ turn' \in 0..typed' /\ promptQueue' \in Seq(1..typed')
               /\ mainNext' \in 1..(Len(mainLog') + 1) /\ replayThrough' \in Nat /\ hasRun' \in BOOLEAN
    BY <1>1, <1>2, <2>6 DEF showMainAgentView, TurnType, world
  <2> QED BY <2>1, <2>2, <2>3, <2>4, <2>5, <2>6, Frames DEF Alone, TurnAlone
<1>6. shown' \in Approval \cup {None} /\ drawn' \in Seq(Nat) /\ wiped' \in BOOLEAN
  <2>0. <<>> \in Seq(Nat) OBVIOUS
  <2>1. CASE UNCHANGED screen BY <1>1, <2>1 DEF TurnType, screen
  <2>2. CASE runMainAgentTurn
    <3>1. mainNext \in Nat BY <1>1, <1>2 DEF TurnType
    <3>2. UNCHANGED <<shown, wiped>> /\ (drawn' = drawn \/ drawn' = Append(drawn, mainNext)) BY <2>2 DEF runMainAgentTurn
    <3>3. Append(drawn, mainNext) \in Seq(Nat) BY <1>1, <3>1 DEF TurnType
    <3> QED BY <1>1, <3>2, <3>3 DEF TurnType
  <2>3. CASE dequeueMainAgentPrompt \/ Prompt
    <3>1. drawn' \in {drawn, <<>>} /\ UNCHANGED <<shown, wiped>> BY <1>1, <2>3, RunTurn DEF Restarts
    <3> QED BY <1>1, <2>0, <3>1 DEF TurnType
  <2>4. CASE NewSession \/ ClearScreen BY <2>0, <2>4 DEF NewSession, ClearScreen
  <2>5. CASE toggleRuntimeLogs BY <1>1, <2>0, <2>5 DEF toggleRuntimeLogs, TurnType, screen
  <2>6. ASSUME NEW r \in Viewer, RenderPrompt(r) PROVE shown' \in Approval \cup {None} /\ drawn' \in Seq(Nat) /\ wiped' \in BOOLEAN
    BY <1>1, <2>6 DEF RenderPrompt, TurnType, TerminalType, ClientType
  <2>7. ASSUME NEW x \in Actor, renderInView(x) \/ renderApproval(x)
        PROVE  shown' \in Approval \cup {None} /\ drawn' \in Seq(Nat) /\ wiped' \in BOOLEAN
    BY <1>1, <2>7, StepTyped DEF renderInView, renderApproval, Frame, TurnType
  <2>8. ASSUME NEW x \in Actor, clear(x) PROVE shown' \in Approval \cup {None} /\ drawn' \in Seq(Nat) /\ wiped' \in BOOLEAN
    BY <2>0, <2>8 DEF clear
  <2>9. ASSUME NEW x \in Actor, showMainAgentView(x)
        PROVE  shown' \in Approval \cup {None} /\ drawn' \in Seq(Nat) /\ wiped' \in BOOLEAN
    <3>1. [i \in DOMAIN mainLog |-> i] \in Seq(Nat)
      <4>1. DOMAIN mainLog = 1..Len(mainLog) BY <1>2
      <4>2. [i \in 1..Len(mainLog) |-> i] \in [1..Len(mainLog) -> Nat] OBVIOUS
      <4> QED BY <1>2, <4>1, <4>2
    <3>2. <<>> \in Seq(Nat) OBVIOUS
    <3>3. drawn' \in Seq(Nat) BY <2>9, <3>1, <3>2 DEF showMainAgentView
    <3> QED BY <1>1, <2>9, <3>3 DEF showMainAgentView, TerminalType, ClientType
  <2> QED BY <2>1, <2>2, <2>3, <2>4, <2>5, <2>6, <2>7, <2>8, <2>9, Frames DEF Alone, ScreenAlone
<1> QED BY <1>5, <1>6 DEF TurnType
-----------------------------------------------------------------------------
(* The approval queue. *)

\* What a step puts into its goroutine's list.
LEMMA StepPuts ==
  ASSUME TerminalInv, NEW x \in Actor, StepOf(x)
  PROVE  /\ Do(x)[1] = "add" /\ Do(x)[2] \notin pending =>
              <<"append", Do(x)[2]>> \in Work(x)' /\ \E e \in Work(x)' : e[1] = "activate"
         /\ Do(x)[1] = "activate" /\ activeApproval = None /\ Candidates # {} =>
              \E e \in Work(x)' : e[1] \in {"look", "paint"}
         /\ Do(x)[1] = "look" => <<"draw", Do(x)[2], view>> \in Work(x)'
         /\ Do(x)[1] = "snapshot" /\ activeApproval # None /\ activeApproval \in pending =>
              \E e \in Work(x)' : e[1] = "paint"
<1>1. PICK p : /\ Executes(x, p)
               /\ Do(x)[1] = "add" /\ Do(x)[2] \notin pending =>
                    <<"append", Do(x)[2]>> \in Items(p) /\ \E e \in Items(p) : e[1] = "activate"
               /\ Do(x)[1] = "activate" /\ activeApproval = None /\ Candidates # {} =>
                    \E e \in Items(p) : e[1] \in {"look", "paint"}
               /\ Do(x)[1] = "look" => <<"draw", Do(x)[2], view>> \in Items(p)
               /\ Do(x)[1] = "snapshot" /\ activeApproval # None /\ activeApproval \in pending =>
                    \E e \in Items(p) : e[1] = "paint"
  BY StepMoves
<1>2. todo \in [Actor -> Seq(Step)] /\ ListInv BY DEF TerminalInv, TerminalType, ClientType
<1>3. Items(p) \subseteq Work(x)' BY <1>1, <1>2, ThenStep DEF Executes, FreshList
<1> QED BY <1>1, <1>3

\* What the rest of the list holds, by the order of its steps.
LEMMA StepFollows ==
  ASSUME TerminalInv, NEW x \in Actor, StepOf(x)
  PROVE  /\ Do(x)[1] \in {"append", "mark"} => Activating'
         /\ Do(x)[1] = "drop" => <<"mark", Do(x)[2]>> \in Work(x)'
         /\ Do(x)[1] = "clear" => \E e \in Work(x)' : e[1] \in {"stream", "snapshot"}
<1>1. todo[x] # <<>> /\ todo[x] \in Seq(Step) /\ Ordered(todo[x])
  BY StepMoves DEF TerminalInv, TerminalType, ClientType, ListInv
<1>2. /\ Do(x)[1] \in {"append", "mark"} => \E e \in Items(Tail(todo[x])) : e[1] = "activate"
      /\ Do(x)[1] = "drop" => <<"mark", Do(x)[2]>> \in Items(Tail(todo[x]))
      /\ Do(x)[1] = "clear" => \E e \in Items(Tail(todo[x])) : e[1] \in {"stream", "snapshot"}
  BY <1>1, OrderedTail DEF Do
<1>3. Items(Tail(todo[x])) \subseteq Work(x)' BY Remains
<1>4. ASSUME Do(x)[1] \in {"append", "mark"} PROVE Activating'
  <2>1. PICK e \in Items(Tail(todo[x])) : e[1] = "activate" BY <1>2, <1>4
  <2>2. e \in Work(x)' BY <1>3, <2>1
  <2> QED BY <2>1, <2>2 DEF Activating
<1>5. Do(x)[1] = "drop" => <<"mark", Do(x)[2]>> \in Work(x)' BY <1>2, <1>3
<1>6. Do(x)[1] = "clear" => \E e \in Work(x)' : e[1] \in {"stream", "snapshot"} BY <1>2, <1>3
<1> QED BY <1>4, <1>5, <1>6

Queued(a) ==
  /\ a = activeApproval \/ a \in Items(approvalOrder) \/ Works(<<"append", a>>)
  /\ activeApproval = None /\ a \in Items(approvalOrder) => Activating

LEMMA QueueStays ==
  ASSUME TerminalInv, [Next]_vars, UNCHANGED <<approvalOrder, activeApproval>>,
         \A y \in Actor : \A e \in Work(y) : e[1] \in {"append", "activate"} => e \in Work(y)',
         NEW a \in Approval, Queued(a)
  PROVE  Queued(a)'
<1>1. Works(<<"append", a>>) => Works(<<"append", a>>)'
  <2>1. <<"append", a>>[1] = "append" OBVIOUS
  <2> QED BY <2>1 DEF Works
<1>2. Activating => Activating' BY DEF Activating
<1>3. Items(approvalOrder)' = Items(approvalOrder) /\ activeApproval' = activeApproval OBVIOUS
<1> QED BY <1>1, <1>2, <1>3 DEF Queued

LEMMA QueuedStep ==
  ASSUME TerminalInv, [Next]_vars, NEW x \in Actor, StepOf(x), NEW a \in pending', truth'[a] = "open",
         a \in pending => truth[a] = "open" /\ Queued(a)
  PROVE  Queued(a)'
<1>1. TerminalType /\ QueueInv BY DEF TerminalInv
<1>2. Do(x) \in Step /\ Do(x) \in Work(x) BY StepMoves
<1>3. \A y \in Actor : \A e \in Work(y) : e = Do(x) \/ e \in Work(y)' BY Remains
<1>4. a \in Approval BY ClientNext DEF ClientType
<1>5. approvalOrder \in Seq(Approval) /\ activeApproval \in Approval \cup {None} BY <1>1 DEF TerminalType, ClientType
<1>6. ASSUME Do(x)[1] # "append" PROVE Works(<<"append", a>>) => Works(<<"append", a>>)'
  <2>1. <<"append", a>>[1] = "append" OBVIOUS
  <2> QED BY <1>3, <1>6, <2>1 DEF Works
<1>7. ASSUME Do(x)[1] # "activate" PROVE Activating => Activating' BY <1>3, <1>7 DEF Activating
<1>8. CASE ~Queues(x)
  <2>1. UNCHANGED approvals BY <1>8, QueuesAlone
  <2>2. Do(x)[1] \notin {"append", "activate"}
    BY <1>8 DEF Queues, StepOf, At, activeView, renderInView, renderApproval, renderActiveApproval, Unlock,
       AgentResolve, clear, Stream, showMainAgentView
  <2> QED BY <1>3, <1>4, <2>1, <2>2, QueueStays DEF approvals
<1>9. CASE addPending(x)
  <2>1. Do(x)[1] = "add" /\ pending' = pending \cup {Do(x)[2]} /\ UNCHANGED <<approvalOrder, activeApproval>>
    BY <1>9 DEF addPending, At
  <2>2. CASE a \in pending BY <1>3, <1>4, <2>1, <2>2, QueueStays
  <2>3. CASE a \notin pending
    <3>1. a = Do(x)[2] BY <2>1, <2>3
    <3>2. Works(<<"append", a>>)' /\ Activating' BY <2>1, <2>3, <3>1, StepPuts DEF Works, Activating
    <3> QED BY <3>2 DEF Queued
  <2> QED BY <2>2, <2>3
<1>10. CASE appendApproval(x)
  <2>1. /\ Do(x)[1] = "append" /\ UNCHANGED <<pending, activeApproval>>
        /\ approvalOrder' = Append(approvalOrder, Do(x)[2])
    BY <1>10 DEF appendApproval, At
  <2>2. Do(x)[2] \in Approval /\ Do(x) = <<"append", Do(x)[2]>> BY <1>2, <2>1, StepKind
  <2>3. Items(approvalOrder') = Items(approvalOrder) \cup {Do(x)[2]} BY <1>5, <2>1, <2>2, ItemsAppend
  <2>4. Activating' BY <2>1, StepFollows
  <2>5. Works(<<"append", a>>) => a = Do(x)[2] \/ Works(<<"append", a>>)'
    <3> SUFFICES ASSUME NEW y \in Actor, <<"append", a>> \in Work(y) PROVE a = Do(x)[2] \/ Works(<<"append", a>>)'
      BY DEF Works
    <3>1. CASE <<"append", a>> = Do(x) BY <3>1
    <3>2. CASE <<"append", a>> \in Work(y)' BY <3>2 DEF Works
    <3> QED BY <1>3, <3>1, <3>2
  <2>6. Queued(a) BY <2>1
  <2> QED BY <2>1, <2>3, <2>4, <2>5, <2>6 DEF Queued
<1>11. CASE dropPending(x)
  <2>1. Do(x)[1] = "drop" /\ pending' \subseteq pending /\ UNCHANGED <<approvalOrder, activeApproval>>
    BY <1>11 DEF dropPending, At
  <2> QED BY <1>3, <1>4, <2>1, QueueStays
<1>12. CASE markApprovalComplete(x)
  <2>1. /\ Do(x)[1] = "mark" /\ UNCHANGED <<pending, approvalOrder>>
        /\ activeApproval' = IF activeApproval = Do(x)[2] THEN None ELSE activeApproval
    BY <1>12 DEF markApprovalComplete, At
  <2>2. truth[Do(x)[2]] \in Settling BY <1>1, <1>2, <2>1 DEF QueueInv
  <2>3. a # Do(x)[2] /\ Queued(a) BY <2>1, <2>2 DEF Settling
  <2>4. Activating' BY <2>1, StepFollows
  <2>5. Items(approvalOrder)' = Items(approvalOrder) BY <2>1
  <2> QED BY <1>6, <2>1, <2>3, <2>4, <2>5 DEF Queued
<1>13. CASE activateNextApproval(x)
  <2>1. Do(x)[1] = "activate" /\ UNCHANGED pending BY <1>13 DEF activateNextApproval, At
  <2>2. Queued(a) /\ a \in pending BY <2>1
  <2>3. CASE activeApproval # None
    <3>1. UNCHANGED <<approvalOrder, activeApproval>> BY <1>13, <2>3 DEF activateNextApproval
    <3>2. Items(approvalOrder)' = Items(approvalOrder) BY <3>1
    <3> QED BY <1>6, <2>1, <2>2, <2>3, <3>1, <3>2 DEF Queued
  <2>4. CASE activeApproval = None /\ Candidates = {}
    <3>1. Items(approvalOrder') = {} /\ a \notin Items(approvalOrder) /\ a # None
      BY <1>1, <1>4, <1>13, <2>2, <2>4, ActivateNext, TerminalAssumption
    <3>2. Works(<<"append", a>>)' BY <1>6, <2>1, <2>2, <2>4, <3>1 DEF Queued
    <3> QED BY <3>1, <3>2 DEF Queued
  <2>5. CASE activeApproval = None /\ Candidates # {}
    <3>1. /\ activeApproval' \in Approval
          /\ a \in Items(approvalOrder) => a = activeApproval' \/ a \in Items(approvalOrder')
      BY <1>1, <1>13, <2>2, <2>5, ActivateNext
    <3>2. activeApproval' # None BY <3>1, TerminalAssumption
    <3>3. Works(<<"append", a>>) => Works(<<"append", a>>)' BY <1>6, <2>1
    <3>4. a # activeApproval BY <1>4, <2>5, TerminalAssumption
    <3> QED BY <2>2, <3>1, <3>2, <3>3, <3>4 DEF Queued
  <2> QED BY <2>3, <2>4, <2>5
<1> QED BY <1>8, <1>9, <1>10, <1>11, <1>12, <1>13 DEF Queues

LEMMA QueueNext ==
  ASSUME TerminalInv, [Next]_vars
  PROVE  QueueInv'
<1>1. QueueInv /\ TerminalType BY DEF TerminalInv
<1>2. Grows /\ truth \in [Approval -> {"new", "open", "answered", "settled"}]
  BY <1>1, TruthGrows DEF TerminalType, WorldType
<1>3. pending \subseteq Approval /\ pending' \subseteq Approval BY <1>1, ClientNext DEF TerminalType, ClientType
<1>4. \A a \in pending' : a \in pending \/ (truth[a] # "new" /\ \E x \in Actor : StepOf(x))
  <2>1. CASE UNCHANGED approvals BY <2>1 DEF approvals
  <2>2. ASSUME NEW x \in Actor, StepOf(x), Queues(x) PROVE \A a \in pending' : a \in pending \/ (truth[a] # "new" /\ \E y \in Actor : StepOf(y))
    <3>1. CASE addPending(x)
      <4>1. Do(x)[1] = "add" /\ pending' = pending \cup {Do(x)[2]} BY <3>1 DEF addPending, At
      <4>2. truth[Do(x)[2]] # "new" BY <1>1, <2>2, <4>1, StepMoves DEF QueueInv
      <4> QED BY <2>2, <4>1, <4>2
    <3>2. CASE ~addPending(x)
      BY <2>2, <3>2 DEF Queues, appendApproval, dropPending, markApprovalComplete, activateNextApproval
    <3> QED BY <3>1, <3>2
  <2> QED BY <2>1, <2>2, NextSplit, NonStepQueue, QueuesAlone
<1>5. \A a \in pending' : truth'[a] # "new" BY <1>1, <1>2, <1>3, <1>4 DEF Grows, QueueInv
<1>6. \A x \in Actor : \A e \in Work(x)' :
        /\ e[1] \in {"drop", "mark"} => truth'[e[2]] \in Settling
        /\ e[1] = "add" => truth'[e[2]] # "new"
  <2> SUFFICES ASSUME NEW x \in Actor, NEW e \in Work(x)'
               PROVE  /\ e[1] \in {"drop", "mark"} => truth'[e[2]] \in Settling
                      /\ e[1] = "add" => truth'[e[2]] # "new"
    OBVIOUS
  <2>1. todo' \in [Actor -> Seq(Step)] /\ (e \in Work(x) \/ Fresh(x, e)) BY Lists
  <2>2. e \in Step BY <2>1, ItemsOf DEF Work
  <2>3. e[1] \in {"drop", "mark", "add"} => e[2] \in Approval BY <2>2, StepKind
  <2>4. CASE e \in Work(x) BY <1>1, <1>2, <2>3, <2>4 DEF QueueInv, Grows
  <2>5. CASE Fresh(x, e)
    <3>1. e \in ViewStep => e[1] \notin {"drop", "mark", "add"} BY DEF ViewStep
    <3> QED BY <2>5, <3>1 DEF Fresh
  <2> QED BY <2>1, <2>4, <2>5
<1>7. \A a \in pending' : truth'[a] = "open" => Queued(a)'
  <2> SUFFICES ASSUME NEW a \in pending', truth'[a] = "open" PROVE Queued(a)' OBVIOUS
  <2>1. a \in pending => truth[a] = "open" /\ Queued(a)
    BY <1>1, <1>2, <1>3 DEF QueueInv, Grows, Queued, Settling
  <2>2. ASSUME NEW x \in Actor, StepOf(x) PROVE Queued(a)' BY <2>1, <2>2, QueuedStep
  <2>3. CASE NonStep
    <3>1. UNCHANGED approvals /\ \A y \in Actor : \A e \in Work(y) : e \in Work(y)' BY <2>3, NonStepQueue, Remains
    <3>2. a \in pending /\ a \in Approval BY <1>3, <3>1 DEF approvals
    <3> QED BY <2>1, <3>1, <3>2, QueueStays DEF approvals
  <2> QED BY <2>2, <2>3, NextSplit
<1> QED BY <1>5, <1>6, <1>7 DEF QueueInv, Queued
-----------------------------------------------------------------------------
(* The log view. *)

LEMMA NewestOf ==
  ASSUME NEW n \in Nat
  PROVE  /\ Newest(n) \in Seq(Nat) /\ Len(Newest(n)) = IF n <= LogLimit THEN n ELSE LogLimit
         /\ \A i \in 1..Len(Newest(n)) : Newest(n)[i] = n - Len(Newest(n)) + i
<1>1. LogLimit \in Nat BY TerminalAssumption
<1>2. CASE n <= LogLimit
  <2>1. Newest(n) = [i \in 1..n |-> i] BY <1>2 DEF Newest
  <2>2. [i \in 1..n |-> i] \in Seq(Nat) /\ Len([i \in 1..n |-> i]) = n OBVIOUS
  <2>3. \A i \in 1..n : n - n + i = i OBVIOUS
  <2> QED BY <1>2, <2>1, <2>2, <2>3
<1>3. CASE ~(n <= LogLimit)
  <2>1. Newest(n) = [i \in 1..LogLimit |-> n - LogLimit + i] BY <1>3 DEF Newest
  <2>2. \A i \in 1..LogLimit : n - LogLimit + i \in Nat BY <1>1, <1>3
  <2>3. /\ [i \in 1..LogLimit |-> n - LogLimit + i] \in Seq(Nat)
        /\ Len([i \in 1..LogLimit |-> n - LogLimit + i]) = LogLimit
    BY <1>1, <2>2
  <2> QED BY <1>1, <1>3, <2>1, <2>3
<1> QED BY <1>2, <1>3

LEMMA LogNext ==
  ASSUME TerminalInv, [Next]_vars
  PROVE  LogType' /\ LogInv'
<1>1. LogType /\ LogInv /\ logView \in BOOLEAN BY DEF TerminalInv, TerminalType, ClientType
<1>2. /\ nextSequence \in Nat /\ updates \in Seq(Nat) /\ logSequence \in Nat /\ logScreen \in Seq(Nat)
      /\ Len(updates) \in Nat /\ Len(logScreen) \in Nat /\ UpdateLimit \in Nat \ {0} /\ LogLimit \in Nat
  BY <1>1, TerminalAssumption DEF LogType
<1>3. Len(<<>>) = 0 /\ <<>> \in Seq(Nat) OBVIOUS
<1>4. CASE UNCHANGED <<logs, logView>>
  BY <1>1, <1>4 DEF LogType, LogInv, logs
<1>5. CASE Write
  <2>1. PICK u : u = IF Len(updates) < UpdateLimit THEN updates ELSE Tail(updates) OBVIOUS
  <2>2. PICK n : n = nextSequence + 1 OBVIOUS
  <2>3. nextSequence' = n /\ updates' = Append(u, n) /\ UNCHANGED <<logSequence, logScreen, logView>>
    BY <1>5, <2>1, <2>2 DEF Write, views
  <2>4. /\ u \in Seq(Nat) /\ Len(u) \in Nat /\ Len(u) < UpdateLimit /\ Len(u) <= nextSequence
        /\ \A i \in 1..Len(u) : u[i] = nextSequence - Len(u) + i
    <3>1. CASE Len(updates) < UpdateLimit BY <1>1, <1>2, <2>1, <3>1 DEF LogInv
    <3>2. CASE ~(Len(updates) < UpdateLimit)
      <4>1. u = Tail(updates) /\ updates # <<>> BY <1>2, <1>3, <2>1, <3>2
      <4>2. /\ u \in Seq(Nat) /\ Len(u) = Len(updates) - 1 /\ Len(updates) >= 1
            /\ \A i \in 1..(Len(updates) - 1) : u[i] = updates[i + 1]
        BY <1>2, <4>1, ItemsHead
      <4>3. \A i \in 1..Len(u) : i + 1 \in 1..Len(updates) /\ u[i] = updates[i + 1]
        <5> SUFFICES ASSUME NEW i \in 1..Len(u) PROVE i + 1 \in 1..Len(updates) /\ u[i] = updates[i + 1] OBVIOUS
        <5>1. i \in 1..(Len(updates) - 1) BY <4>2
        <5>2. i + 1 \in 1..Len(updates) BY <1>2, <5>1
        <5> QED BY <4>2, <5>1, <5>2
      <4>4. \A i \in 1..Len(u) : updates[i + 1] = nextSequence - Len(updates) + (i + 1) BY <1>1, <4>3 DEF LogInv
      <4>5. \A i \in 1..Len(u) : u[i] = nextSequence - Len(u) + i BY <1>2, <4>2, <4>3, <4>4
      <4> QED BY <1>1, <1>2, <4>2, <4>5 DEF LogInv
    <3> QED BY <3>1, <3>2
  <2>5. n \in Nat BY <1>2, <2>2
  <2>6. /\ Append(u, n) \in Seq(Nat) /\ Len(Append(u, n)) = Len(u) + 1
        /\ \A i \in 1..Len(u) : Append(u, n)[i] = u[i]
        /\ Append(u, n)[Len(u) + 1] = n
    BY <2>4, <2>5, ItemsAppend
  <2>7. \A i \in 1..(Len(u) + 1) : Append(u, n)[i] = n - (Len(u) + 1) + i
    <3> SUFFICES ASSUME NEW i \in 1..(Len(u) + 1) PROVE Append(u, n)[i] = n - (Len(u) + 1) + i OBVIOUS
    <3>1. CASE i = Len(u) + 1 BY <2>4, <2>5, <2>6, <3>1
    <3>2. CASE i # Len(u) + 1
      <4>1. i \in 1..Len(u) BY <2>4, <3>2
      <4>2. Append(u, n)[i] = nextSequence - Len(u) + i BY <2>4, <2>6, <4>1
      <4> QED BY <1>2, <2>2, <2>4, <4>1, <4>2
    <3> QED BY <3>1, <3>2
  <2>8. Append(u, n) # <<>> BY <1>3, <2>4, <2>6, SMTT(30)
  <2>9. LogType' BY <1>2, <2>3, <2>5, <2>6 DEF LogType
  <2>10. /\ Len(updates') <= n /\ Len(updates') <= UpdateLimit
         /\ \A i \in 1..Len(updates') : updates'[i] = n - Len(updates') + i
         /\ logSequence <= n
    BY <1>1, <1>2, <2>2, <2>3, <2>4, <2>5, <2>6, <2>7 DEF LogInv
  <2> QED BY <1>1, <2>3, <2>8, <2>9, <2>10 DEF LogInv
<1>6. CASE renderRuntimeLogEntry
  <2>1. PICK n : n = Head(updates) OBVIOUS
  <2>2. /\ updates # <<>> /\ updates' = Tail(updates) /\ UNCHANGED <<nextSequence, logView>>
        /\ \/ (~logView \/ n <= logSequence) /\ UNCHANGED <<logSequence, logScreen>>
           \/ logView /\ ~(n <= logSequence) /\ n = logSequence + 1 /\ logSequence' = n /\ logScreen' = Append(logScreen, n)
           \/ logView /\ logSequence' = nextSequence /\ logScreen' = Newest(nextSequence)
    BY <1>6, <2>1 DEF renderRuntimeLogEntry, snapshot, views
  <2>3. /\ n = updates[1] /\ Len(updates) >= 1 /\ updates' \in Seq(Nat) /\ Len(updates') = Len(updates) - 1
        /\ n \in Nat
        /\ \A i \in 1..(Len(updates) - 1) : updates'[i] = updates[i + 1]
    BY <1>2, <2>1, <2>2, ItemsHead
  <2>4. n = nextSequence - Len(updates) + 1 /\ n \in Nat
    <3>1. 1 \in 1..Len(updates) BY <1>2, <2>3
    <3>2. updates[1] = nextSequence - Len(updates) + 1 BY <1>1, <3>1 DEF LogInv
    <3> QED BY <2>3, <3>2
  <2>5. \A i \in 1..Len(updates') : updates'[i] = nextSequence - Len(updates') + i
    <3>1. \A i \in 1..Len(updates') : i + 1 \in 1..Len(updates) /\ updates'[i] = updates[i + 1] BY <1>2, <2>3
    <3>2. \A i \in 1..Len(updates') : updates[i + 1] = nextSequence - Len(updates) + (i + 1) BY <1>1, <3>1 DEF LogInv
    <3> QED BY <1>2, <2>3, <3>1, <3>2
  <2>6. updates' = <<>> => n = nextSequence
    <3> SUFFICES ASSUME updates' = <<>> PROVE n = nextSequence OBVIOUS
    <3>1. Len(updates') = 0 BY <1>3
    <3>2. Len(updates) = 1 BY <1>2, <2>3, <3>1
    <3> QED BY <1>2, <2>4, <3>2
  <2>7. Len(updates') <= nextSequence /\ Len(updates') <= UpdateLimit BY <1>1, <1>2, <2>3 DEF LogInv
  <2>8. CASE (~logView \/ n <= logSequence) /\ UNCHANGED <<logSequence, logScreen>>
    <3>1. LogType' BY <1>2, <2>2, <2>3, <2>8 DEF LogType
    <3>2. logSequence <= nextSequence BY <1>1 DEF LogInv
    <3>3. logView /\ updates' = <<>> => logSequence = nextSequence BY <1>2, <2>6, <2>8, <3>2
    <3> QED BY <1>1, <2>2, <2>5, <2>7, <2>8, <3>1, <3>3 DEF LogInv
  <2>9. CASE logView /\ ~(n <= logSequence) /\ n = logSequence + 1 /\ logSequence' = n /\ logScreen' = Append(logScreen, n)
    <3>1. /\ Append(logScreen, n) \in Seq(Nat) /\ Len(Append(logScreen, n)) = Len(logScreen) + 1
          /\ \A i \in 1..Len(logScreen) : Append(logScreen, n)[i] = logScreen[i]
          /\ Append(logScreen, n)[Len(logScreen) + 1] = n
      BY <1>2, <2>4, ItemsAppend
    <3>2. LogType' BY <1>2, <2>2, <2>3, <2>4, <2>9, <3>1 DEF LogType
    <3>3. n <= nextSequence BY <1>2, <2>3, <2>4
    <3>4. /\ Len(logScreen) <= logSequence /\ Len(logScreen) >= Len(Newest(logSequence))
          /\ \A i \in 1..Len(logScreen) : logScreen[i] = logSequence - Len(logScreen) + i
      BY <1>1, <2>9 DEF LogInv
    <3>5. Len(logScreen) + 1 <= n /\ Len(logScreen) + 1 >= Len(Newest(n))
      <4>1. /\ Len(Newest(n)) = IF n <= LogLimit THEN n ELSE LogLimit
            /\ Len(Newest(logSequence)) = IF logSequence <= LogLimit THEN logSequence ELSE LogLimit
        BY <1>2, <2>4, NewestOf
      <4> QED BY <1>2, <2>4, <2>9, <3>4, <4>1
    <3>6. \A i \in 1..(Len(logScreen) + 1) : Append(logScreen, n)[i] = n - (Len(logScreen) + 1) + i
      <4> SUFFICES ASSUME NEW i \in 1..(Len(logScreen) + 1)
                   PROVE  Append(logScreen, n)[i] = n - (Len(logScreen) + 1) + i
        OBVIOUS
      <4>1. CASE i = Len(logScreen) + 1 BY <1>2, <2>4, <3>1, <4>1
      <4>2. CASE i # Len(logScreen) + 1
        <5>1. i \in 1..Len(logScreen) BY <1>2, <4>2
        <5>2. Append(logScreen, n)[i] = logSequence - Len(logScreen) + i BY <3>1, <3>4, <5>1
        <5> QED BY <1>2, <2>9, <5>1, <5>2
      <4> QED BY <4>1, <4>2
    <3> QED BY <2>2, <2>5, <2>6, <2>7, <2>9, <3>1, <3>2, <3>3, <3>5, <3>6 DEF LogInv
  <2>10. CASE logView /\ logSequence' = nextSequence /\ logScreen' = Newest(nextSequence)
    <3>1. /\ Newest(nextSequence) \in Seq(Nat)
          /\ Len(Newest(nextSequence)) = IF nextSequence <= LogLimit THEN nextSequence ELSE LogLimit
          /\ \A i \in 1..Len(Newest(nextSequence)) : Newest(nextSequence)[i] = nextSequence - Len(Newest(nextSequence)) + i
      BY <1>2, NewestOf
    <3>2. Newest(logSequence)' = Newest(nextSequence) BY <2>10 DEF Newest
    <3>3. LogType' BY <1>2, <2>2, <2>3, <2>10, <3>1 DEF LogType
    <3>4. Len(Newest(nextSequence)) <= nextSequence /\ nextSequence <= nextSequence
          /\ Len(Newest(nextSequence)) >= Len(Newest(nextSequence)) BY <1>2, <3>1
    <3> QED BY <2>2, <2>5, <2>7, <2>10, <3>1, <3>2, <3>3, <3>4 DEF LogInv
  <2> QED BY <2>2, <2>8, <2>9, <2>10
<1>7. CASE toggleRuntimeLogs
  <2>1. UNCHANGED <<nextSequence, updates>> /\ logView' = ~logView BY <1>7 DEF toggleRuntimeLogs
  <2>2. CASE logView
    <3>1. logSequence' = 0 /\ logScreen' = <<>> /\ ~logView' BY <1>7, <2>1, <2>2 DEF toggleRuntimeLogs
    <3>2. 0 \in Nat /\ 0 <= nextSequence BY <1>2
    <3> QED BY <1>1, <1>2, <1>3, <2>1, <3>1, <3>2 DEF LogType, LogInv
  <2>3. CASE ~logView
    <3>1. logSequence' = nextSequence /\ logScreen' = Newest(nextSequence)
      BY <1>7, <2>3 DEF toggleRuntimeLogs, snapshot
    <3>2. /\ Newest(nextSequence) \in Seq(Nat)
          /\ Len(Newest(nextSequence)) = IF nextSequence <= LogLimit THEN nextSequence ELSE LogLimit
          /\ \A i \in 1..Len(Newest(nextSequence)) : Newest(nextSequence)[i] = nextSequence - Len(Newest(nextSequence)) + i
      BY <1>2, NewestOf
    <3>3. Newest(logSequence)' = Newest(nextSequence) BY <3>1 DEF Newest
    <3>4. Len(Newest(nextSequence)) <= nextSequence /\ nextSequence <= nextSequence
          /\ Len(Newest(nextSequence)) >= Len(Newest(nextSequence)) BY <1>2, <3>2
    <3>5. LogType' BY <1>2, <2>1, <3>1, <3>2, SMTT(20) DEF LogType
    <3> QED BY <1>1, <2>1, <3>1, <3>2, <3>3, <3>4, <3>5 DEF LogInv
  <2> QED BY <2>2, <2>3
<1> QED BY <1>4, <1>5, <1>6, <1>7, Frames DEF Alone, LogAlone
-----------------------------------------------------------------------------
(* The view. *)

LEMMA StepIs ==
  ASSUME NEW x \in Actor, StepOf(x)
  PROVE  /\ Do(x)[1] = "add" => addPending(x)
         /\ Do(x)[1] = "drop" => dropPending(x)
         /\ Do(x)[1] = "mark" => markApprovalComplete(x)
         /\ Do(x)[1] = "activate" => activateNextApproval(x)
         /\ Do(x)[1] = "look" => activeView(x)
         /\ Do(x)[1] = "draw" => renderInView(x)
         /\ Do(x)[1] = "paint" => renderApproval(x)
         /\ Do(x)[1] = "snapshot" => renderActiveApproval(x)
         /\ Do(x)[1] = "clear" => clear(x)
         /\ Do(x)[1] = "stream" => Stream(x)
         /\ Do(x)[1] = "show" => showMainAgentView(x)
  BY DEF StepOf, At, addPending, appendApproval, dropPending, markApprovalComplete, activateNextApproval,
     activeView, renderInView, renderApproval, renderActiveApproval, Unlock, AgentResolve, clear, Stream,
     showMainAgentView

LEMMA StepFrame ==
  ASSUME NEW x \in Actor, StepOf(x)
  PROVE  /\ UNCHANGED <<view, epoch, logView>> /\ (UNCHANGED renderer \/ Stream(x))
         /\ UNCHANGED <<shown, wiped>> \/ Do(x)[1] \in {"draw", "paint", "clear", "show"}
  BY DEF StepOf, At, addPending, appendApproval, dropPending, markApprovalComplete, activateNextApproval,
     activeView, renderInView, renderApproval, renderActiveApproval, Unlock, AgentResolve, clear, Stream,
     showMainAgentView, Frame, Client, views

LEMMA ViewNext ==
  ASSUME TerminalInv, [Next]_vars
  PROVE  ViewInv'
<1>1. ViewInv BY DEF TerminalInv
<1>2. \A x \in Actor : \A e \in Work(x)' :
        /\ e[1] \in {"clear", "show", "snapshot", "stream"} => x = "input"
        /\ e[1] = "clear" => view' # Main
        /\ e[1] = "stream" => e[2] = view'
  <2> SUFFICES ASSUME NEW x \in Actor, NEW e \in Work(x)', e[1] \in {"clear", "show", "snapshot", "stream"}
               PROVE  x = "input" /\ (e[1] = "clear" => view' # Main) /\ (e[1] = "stream" => e[2] = view')
    OBVIOUS
  <2>1. e \in Work(x) \/ Fresh(x, e) BY Lists
  <2>2. CASE e \in Work(x)
    <3>1. x = "input" /\ (e[1] = "clear" => view # Main) /\ (e[1] = "stream" => e[2] = view) BY <1>1, <2>2 DEF ViewInv
    <3>2. todo["input"] # <<>> BY <2>2, <3>1, IdleWork, Actors
    <3> QED BY <3>1, <3>2, ViewMoves
  <2>3. CASE Fresh(x, e) BY <2>3 DEF Fresh
  <2> QED BY <2>1, <2>2, <2>3
<1>3. \A r \in Viewer : renderer'[r].state # "none" =>
        renderer'[r].epoch <= epoch' /\ (renderer'[r].epoch = epoch' => renderer'[r].id = view')
  <2> SUFFICES ASSUME NEW r \in Viewer, renderer'[r].state # "none"
               PROVE  renderer'[r].epoch <= epoch' /\ (renderer'[r].epoch = epoch' => renderer'[r].id = view')
    OBVIOUS
  <2>1. epoch \in Nat /\ epoch' \in Nat BY ViewMoves DEF TerminalInv, TerminalType, ClientType
  <2>2. renderer \in [Viewer -> RendererType] /\ renderer[r].epoch \in Nat BY RendererFacts
  <2>3. renderer[r].state # "none" => renderer[r].epoch <= epoch /\ (renderer[r].epoch = epoch => renderer[r].id = view)
    BY <1>1 DEF ViewInv
  <2>4. CASE UNCHANGED renderer
    <3>1. CASE UNCHANGED <<view, epoch>> BY <2>3, <2>4, <3>1
    <3>2. CASE epoch' = epoch + 1 BY <2>1, <2>2, <2>3, <2>4, <3>2
    <3>3. CASE epoch' = epoch /\ view = Main /\ view' = Main BY <2>3, <2>4, <3>3
    <3> QED BY <3>1, <3>2, <3>3, ViewMoves
  <2>5. ASSUME NEW q \in Viewer, Begun(q)
        PROVE  renderer'[r].epoch <= epoch' /\ (renderer'[r].epoch = epoch' => renderer'[r].id = view')
    <3>1. CASE r = q
      <4>1. renderer'[r] = [state |-> "start", id |-> view, epoch |-> epoch, next |-> 0] BY <2>2, <2>5, <3>1 DEF Begun
      <4> QED BY <2>1, <2>5, <4>1 DEF Begun
    <3>2. CASE r # q
      <4>1. renderer'[r] = renderer[r] BY <2>2, <2>5, <3>2 DEF Begun
      <4> QED BY <2>3, <2>5, <4>1 DEF Begun
    <3> QED BY <3>1, <3>2
  <2>6. ASSUME NEW q \in Viewer, Goes(q)
        PROVE  renderer'[r].epoch <= epoch' /\ (renderer'[r].epoch = epoch' => renderer'[r].id = view')
    <3>1. CASE r = q
      <4>1. renderer'[r].epoch = renderer[r].epoch /\ renderer'[r].id = renderer[r].id BY <2>2, <2>6, <3>1 DEF Goes
      <4> QED BY <2>3, <2>6, <3>1, <4>1 DEF Goes
    <3>2. CASE r # q
      <4>1. renderer'[r] = renderer[r] BY <2>2, <2>6, <3>2 DEF Goes
      <4> QED BY <2>3, <2>6, <4>1 DEF Goes
    <3> QED BY <3>1, <3>2
  <2> QED BY <2>4, <2>5, <2>6, RendererMoves
<1> QED BY <1>2, <1>3 DEF ViewInv

\* A view that is left or hidden is rebuilt by the input goroutine, unless the
\* log view covers the screen or the user has cleared it.
LEMMA RebuildDraws ==
  ASSUME TerminalInv, NEW p, Rebuilds(p)
  PROVE  /\ \E e \in Work("input")' : e[1] \in {"show", "snapshot", "stream"}
         /\ view' # Main \/ <<"show">> \in Work("input")'
<1>1. /\ todo["input"] = <<>> /\ todo' = [todo EXCEPT !["input"] = p] /\ "input" \in Actor
      /\ p \in Seq(Step) /\ Ordered(p)
  BY Actors DEF Rebuilds, Begins, FreshList
<1>2. todo \in [Actor -> Seq(Step)] /\ ListInv BY DEF TerminalInv, TerminalType, ClientType
<1>3. Work("input")' = Items(p) BY <1>1, <1>2, BeginStep
<1>4. CASE p = << <<"show">> >> /\ view' = Main
  <2>1. <<"show">> \in Items(p) /\ <<"show">>[1] = "show" BY <1>4, ItemsShort
  <2> QED BY <1>3, <2>1
<1>5. ASSUME view' # Main, NEW e \in {<<"stream", view'>>, <<"snapshot">>}, p = << <<"clear">>, e >>
      PROVE  /\ \E f \in Work("input")' : f[1] \in {"show", "snapshot", "stream"}
             /\ view' # Main \/ <<"show">> \in Work("input")'
  <2>1. e \in Items(p)
    <3>1. PICK c : c = <<"clear">> OBVIOUS
    <3>2. p = <<c, e>> BY <1>5, <3>1
    <3>3. Items(<<c, e>>) = {c, e} BY ItemsShort
    <3> QED BY <3>2, <3>3
  <2>2. e[1] \in {"snapshot", "stream"} BY <1>5
  <2> QED BY <1>3, <1>5, <2>1, <2>2
<1> QED BY <1>4, <1>5 DEF Rebuilds

LEMMA ViewRebuilt ==
  ASSUME TerminalInv, [Next]_vars
  PROVE  UNCHANGED <<view, epoch, logView>> \/ logView' \/ wiped' \/ \E p : Rebuilds(p)
<1>1. CASE (\E s \in Sub : Open(s) \/ closeSubagent(s)) \/ Back \/ toggleReasoning \/ toggleRuntimeLogs
  BY <1>1, ViewChanges
<1>2. CASE NewSession BY <1>2 DEF NewSession
<1>3. CASE UNCHANGED <<view, epoch>>
  BY <1>1, <1>3, Frames DEF Alone, LogAlone, Write, renderRuntimeLogEntry, views
<1> QED BY <1>1, <1>2, <1>3, Frames DEF Alone, ViewAlone
-----------------------------------------------------------------------------
(* The prompt. *)

Marking == Works(<<"mark", activeApproval>>)

\* A step other than a mark of the active approval leaves that one to do.
LEMMA MarkStays ==
  ASSUME TerminalInv, activeApproval' = activeApproval, Marking,
         NonStep \/ \E x \in Actor : StepOf(x) /\ Do(x) # <<"mark", activeApproval>>
  PROVE  Marking'
<1>1. PICK y \in Actor : <<"mark", activeApproval>> \in Work(y) BY DEF Marking, Works
<1>2. PICK e : e = <<"mark", activeApproval>> OBVIOUS
<1>3. e \in Work(y)' BY <1>1, <1>2, Remains
<1>4. e = <<"mark", activeApproval'>> BY <1>2
<1> QED BY <1>3, <1>4 DEF Marking, Works

LEMMA ActiveKnown ==
  ASSUME TerminalInv, [Next]_vars, activeApproval' # None
  PROVE  activeApproval' \in pending' \/ Marking'
<1>1. activeApproval # None => activeApproval \in pending \/ Marking BY DEF TerminalInv, PromptInv, Marking
<1>2. CASE NonStep
  <2>1. UNCHANGED approvals BY <1>2, NonStepQueue
  <2>2. Marking => Marking' BY <1>2, <2>1, MarkStays DEF approvals
  <2> QED BY <1>1, <2>1, <2>2 DEF approvals
<1>3. ASSUME NEW x \in Actor, StepOf(x) PROVE activeApproval' \in pending' \/ Marking'
  <2>2. ASSUME activeApproval' = activeApproval, Do(x) # <<"mark", activeApproval>> PROVE Marking => Marking'
    BY <1>3, <2>2, MarkStays
  <2>3. CASE Do(x)[1] = "mark"
    <3>1. /\ UNCHANGED pending
          /\ activeApproval' = IF activeApproval = Do(x)[2] THEN None ELSE activeApproval
      BY <1>3, <2>3, StepIs DEF markApprovalComplete
    <3>2. activeApproval' = activeApproval /\ activeApproval # Do(x)[2] BY <3>1
    <3>3. Do(x) # <<"mark", activeApproval>> BY <3>2
    <3> QED BY <1>1, <2>2, <3>1, <3>2, <3>3
  <2>4. CASE Do(x)[1] # "mark"
    <3>1. Do(x) # <<"mark", activeApproval>> BY <2>4
    <3>2. CASE Do(x)[1] = "drop"
      <4>1. UNCHANGED activeApproval /\ pending' = pending \ {Do(x)[2]} BY <1>3, <3>2, StepIs DEF dropPending
      <4>2. CASE activeApproval = Do(x)[2]
        <5>1. PICK e : e = <<"mark", Do(x)[2]>> OBVIOUS
        <5>2. e \in Work(x)' /\ e = <<"mark", activeApproval'>> BY <1>3, <3>2, <4>1, <4>2, <5>1, StepFollows
        <5> QED BY <5>2 DEF Marking, Works
      <4>3. CASE activeApproval # Do(x)[2] BY <1>1, <2>2, <3>1, <4>1, <4>3
      <4> QED BY <4>2, <4>3
    <3>3. CASE Do(x)[1] = "activate"
      <4>1. activateNextApproval(x) /\ TerminalType BY <1>3, <3>3, StepIs DEF TerminalInv
      <4>2. UNCHANGED pending BY <4>1 DEF activateNextApproval
      <4>3. CASE activeApproval = None
        <5>1. activeApproval' \in pending BY <4>1, <4>3, ActivateNext
        <5> QED BY <4>2, <5>1
      <4>4. CASE activeApproval # None
        <5>1. activeApproval' = activeApproval BY <4>1, <4>4 DEF activateNextApproval
        <5> QED BY <1>1, <2>2, <3>1, <4>2, <5>1
      <4> QED BY <4>3, <4>4
    <3>4. CASE Do(x)[1] \notin {"drop", "activate"}
      <4>1. activeApproval' = activeApproval /\ pending \subseteq pending'
        <5>1. CASE UNCHANGED approvals BY <5>1 DEF approvals
        <5>2. CASE Queues(x)
          BY <2>4, <3>4, <5>2 DEF Queues, At, addPending, appendApproval, dropPending, markApprovalComplete, activateNextApproval
        <5> QED BY <1>3, <5>1, <5>2, QueuesAlone
      <4> QED BY <1>1, <2>2, <3>1, <4>1
    <3> QED BY <3>2, <3>3, <3>4
  <2> QED BY <2>3, <2>4
<1> QED BY <1>2, <1>3, NextSplit

DrawStep(e, v) == e[1] \in {"look", "paint", "show", "snapshot", "stream"} \/ (e[1] = "draw" /\ e[3] = v)
WillDraw(r) == renderer[r].state \in {"start", "retained"} /\ renderer[r].id = view

LEMMA DrawingIs == Drawing <=> (\E x \in Actor : \E e \in Work(x) : DrawStep(e, view)) \/ \E r \in Viewer : WillDraw(r)
  BY DEF Drawing, DrawStep, WillDraw

\* A goroutine of the view on the screen draws the prompt before it goes on.
LEMMA RendererDraws ==
  ASSUME TerminalInv, [Next]_vars, UNCHANGED <<view, epoch, logView, activeApproval>>, ~logView,
         activeApproval # None, shown' = None, NEW r \in Viewer, WillDraw(r)
  PROVE  Drawing' \/ activeApproval \notin pending
<1>1. renderer \in [Viewer -> RendererType] /\ renderer[r].state # "none" BY RendererFacts DEF WillDraw
<1>2. ASSUME renderer'[r] = renderer[r] PROVE Drawing' BY <1>2 DEF WillDraw, Drawing
<1>3. ASSUME NEW q \in Viewer, Begun(q) PROVE Drawing'
  <2>1. q # r /\ renderer'[r] = renderer[r] BY <1>1, <1>3 DEF Begun
  <2> QED BY <1>2, <2>1
<1>4. ASSUME NEW q \in Viewer, Goes(q), Renderer(q) PROVE Drawing' \/ activeApproval \notin pending
  <2>1. CASE q # r
    <3>1. renderer'[r] = renderer[r] BY <1>1, <1>4, <2>1 DEF Goes
    <3> QED BY <1>2, <3>1
  <2>2. CASE q = r /\ RenderRetained(r)
    <3>1. renderer'[r].state = "retained" /\ Goes(r) BY <2>2, RetainedStep
    <3>2. renderer'[r].id = renderer[r].id BY <1>1, <3>1 DEF Goes
    <3> QED BY <3>1, <3>2 DEF WillDraw, Drawing
  <2>3. CASE q = r /\ RenderPrompt(r)
    <3>1. InView(renderer[r].id) BY DEF WillDraw, InView
    <3>2. shown' = IF activeApproval \in pending THEN activeApproval ELSE shown BY <2>3, <3>1, SMTT(20) DEF RenderPrompt
    <3> QED BY <3>2
  <2>4. CASE q = r /\ renderSubagentRun(r) BY <2>4 DEF WillDraw, renderSubagentRun
  <2> QED BY <1>4, <2>1, <2>2, <2>3, <2>4 DEF Renderer
<1> QED BY <1>2, <1>3, <1>4, RendererMoves

\* Steps to draw stay, and those who draw.
LEMMA DrawingStays ==
  ASSUME TerminalInv, [Next]_vars, UNCHANGED <<view, epoch, logView, activeApproval>>, ~logView,
         activeApproval # None, shown' = None, Drawing,
         NonStep \/ \E x \in Actor : StepOf(x) /\ ~DrawStep(Do(x), view)
  PROVE  Drawing' \/ activeApproval \notin pending
<1>1. CASE \E r \in Viewer : WillDraw(r) BY <1>1, RendererDraws
<1>2. ASSUME NEW y \in Actor, NEW e \in Work(y), DrawStep(e, view) PROVE Drawing'
  <2>1. e \in Work(y)' BY <1>2, Remains
  <2>2. DrawStep(e, view') BY <1>2
  <2> QED BY <2>1, <2>2 DEF Drawing, DrawStep
<1> QED BY <1>1, <1>2, DrawingIs

LEMMA PromptStepNext ==
  ASSUME TerminalInv, [Next]_vars, NEW x \in Actor, StepOf(x),
         activeApproval' # None, ~logView', ~wiped', shown' = None
  PROVE  Drawing' \/ Marking'
<1>1. UNCHANGED <<view, epoch, logView>> BY StepFrame
<1>2. /\ activeApproval # None => activeApproval \in pending \/ Marking
      /\ activeApproval # None /\ ~logView /\ ~wiped /\ shown = None => Drawing \/ Marking
  BY DEF TerminalInv, PromptInv, Marking
<1>3. TerminalType /\ Do(x) \in Step BY StepMoves DEF TerminalInv
<1>4. ASSUME activeApproval' = activeApproval, ~DrawStep(Do(x), view), Do(x)[1] # "mark" \/ Do(x)[2] # activeApproval,
             ~wiped, shown = None
      PROVE  Drawing' \/ Marking'
  <2>1. Do(x) # <<"mark", activeApproval>> BY <1>4
  <2>2. Marking => Marking' BY <1>4, <2>1, MarkStays
  <2>3. Drawing => Drawing' \/ activeApproval \notin pending BY <1>1, <1>4, DrawingStays
  <2> QED BY <1>1, <1>2, <1>4, <2>2, <2>3
<1>5. ASSUME activeApproval' = activeApproval, activeApproval \notin pending, Do(x)[1] # "mark" PROVE Marking'
  <2>1. Do(x) # <<"mark", activeApproval>> BY <1>5
  <2> QED BY <1>2, <1>5, <2>1, MarkStays
<1>6. ASSUME NEW y \in Actor, NEW e \in Work(y)', DrawStep(e, view) PROVE Drawing'
  BY <1>1, <1>6 DEF Drawing, DrawStep
<1>7. CASE Do(x)[1] = "mark"
  <2>1. /\ activeApproval' = IF activeApproval = Do(x)[2] THEN None ELSE activeApproval
        /\ UNCHANGED <<shown, wiped>>
    BY <1>7, StepIs DEF markApprovalComplete, Frame
  <2>2. activeApproval' = activeApproval /\ Do(x)[2] # activeApproval BY <2>1
  <2>3. ~DrawStep(Do(x), view) BY <1>7 DEF DrawStep
  <2> QED BY <1>4, <2>1, <2>2, <2>3
<1>8. CASE Do(x)[1] = "activate"
  <2>1. activateNextApproval(x) /\ UNCHANGED <<shown, wiped>> BY <1>8, StepIs DEF activateNextApproval, Frame
  <2>2. CASE activeApproval # None
    <3>1. activeApproval' = activeApproval BY <2>1, <2>2 DEF activateNextApproval
    <3>2. ~DrawStep(Do(x), view) BY <1>8 DEF DrawStep
    <3> QED BY <1>4, <1>8, <2>1, <3>1, <3>2
  <2>3. CASE activeApproval = None
    <3>1. Candidates # {} BY <1>3, <2>1, <2>3, ActivateNext
    <3>2. PICK e \in Work(x)' : e[1] \in {"look", "paint"} BY <1>8, <2>3, <3>1, StepPuts
    <3> QED BY <1>6, <3>2 DEF DrawStep
  <2> QED BY <2>2, <2>3
<1>9. CASE Do(x)[1] = "look"
  <2>1. PICK e : e = <<"draw", Do(x)[2], view>> OBVIOUS
  <2>2. e \in Work(x)' /\ DrawStep(e, view) BY <1>9, <2>1, StepPuts DEF DrawStep
  <2> QED BY <1>6, <2>2
<1>10. ASSUME Do(x)[1] \notin {"mark", "activate"} PROVE activeApproval' = activeApproval
  <2>1. CASE UNCHANGED approvals BY <2>1 DEF approvals
  <2>2. CASE Queues(x)
    BY <1>10, <2>2 DEF Queues, At, addPending, appendApproval, dropPending, markApprovalComplete, activateNextApproval
  <2> QED BY <2>1, <2>2, QueuesAlone
<1>11. CASE Do(x)[1] = "draw"
  <2>1. /\ shown' = IF view = Do(x)[3] /\ ~logView THEN Do(x)[2] ELSE shown
        /\ UNCHANGED <<wiped, activeApproval>>
    BY <1>11, StepIs DEF renderInView, Frame, approvals
  <2>2. Do(x)[2] \in Approval /\ Do(x)[2] # None BY <1>3, <1>11, StepKind, TerminalAssumption
  <2>3. view # Do(x)[3] /\ shown = None BY <1>1, <2>1, <2>2
  <2>4. ~DrawStep(Do(x), view) BY <1>11, <2>3 DEF DrawStep
  <2> QED BY <1>4, <1>11, <2>1, <2>3, <2>4
<1>12. CASE Do(x)[1] = "paint"
  <2>1. shown' = Do(x)[2] BY <1>12, StepIs DEF renderApproval
  <2>2. Do(x)[2] \in Approval /\ Do(x)[2] # None BY <1>3, <1>12, StepKind, TerminalAssumption
  <2> QED BY <2>1, <2>2
<1>13. CASE Do(x)[1] = "snapshot"
  <2>1. activeApproval' = activeApproval BY <1>10, <1>13
  <2>2. CASE activeApproval \in pending
    <3>1. PICK e \in Work(x)' : e[1] = "paint" BY <1>13, <2>1, <2>2, StepPuts
    <3> QED BY <1>6, <3>1 DEF DrawStep
  <2>3. CASE activeApproval \notin pending BY <1>5, <1>13, <2>1, <2>3
  <2> QED BY <2>2, <2>3
<1>14. CASE Do(x)[1] = "clear"
  <2>1. PICK e \in Work(x)' : e[1] \in {"stream", "snapshot"} BY <1>14, StepFollows
  <2> QED BY <1>6, <2>1 DEF DrawStep
<1>15. CASE Do(x)[1] = "stream"
  <2>1. ASSUME NEW r \in Viewer, Begun(r) PROVE Drawing'
    <3>1. renderer'[r] = [state |-> "start", id |-> view, epoch |-> epoch, next |-> 0] BY <2>1, RendererFacts DEF Begun
    <3> QED BY <1>1, <3>1 DEF Drawing
  <2>2. Stream(x) BY <1>15, StepIs
  <2>3. \E r \in Viewer : Begun(r)
    <3>1. /\ todo[x] # <<>> /\ FreeRenderer # {} /\ streamSubagentRun(Do(x)[2])
      BY <2>2 DEF Stream, At
    <3>2. Do(x) \in Work(x) BY StepMoves
    <3>3. Do(x)[2] \in Sub /\ Do(x)[2] = view BY <1>3, <1>15, <3>2, StepKind DEF TerminalInv, ViewInv
    <3> QED BY <1>1, <3>1, <3>3, StreamStarts
  <2> QED BY <2>1, <2>3
<1>16. CASE Do(x)[1] = "show"
  <2>1. /\ shown' = IF activeApproval \in pending THEN activeApproval ELSE None
        /\ activeApproval' = activeApproval
    BY <1>16, StepIs DEF showMainAgentView, approvals
  <2> QED BY <1>5, <1>16, <2>1
<1>17. CASE Do(x)[1] \notin {"mark", "activate", "look", "draw", "paint", "snapshot", "clear", "stream", "show"}
  <2>1. activeApproval' = activeApproval /\ UNCHANGED <<shown, wiped>> BY <1>10, <1>17, StepFrame
  <2>2. ~DrawStep(Do(x), view) BY <1>17 DEF DrawStep
  <2> QED BY <1>4, <1>17, <2>1, <2>2
<1> QED BY <1>7, <1>8, <1>9, <1>11, <1>12, <1>13, <1>14, <1>15, <1>16, <1>17

LEMMA PromptNext ==
  ASSUME TerminalInv, [Next]_vars
  PROVE  PromptInv'
<1>1. ASSUME NonStep, activeApproval' # None, ~logView', ~wiped', shown' = None PROVE Drawing' \/ Marking'
  <2>1. UNCHANGED approvals BY <1>1, NonStepQueue
  <2>2. activeApproval' = activeApproval /\ activeApproval # None BY <1>1, <2>1 DEF approvals
  <2>3. ASSUME NEW p, Rebuilds(p) PROVE Drawing' BY <2>3, RebuildDraws, Actors DEF Drawing
  <2>4. CASE UNCHANGED <<view, epoch, logView>>
    <3>1. Marking => Marking' BY <1>1, <2>2, MarkStays
    <3>2. Drawing => Drawing' \/ activeApproval \notin pending BY <1>1, <2>2, <2>4, DrawingStays
    <3>3. activeApproval \in pending \/ Marking BY <2>2 DEF TerminalInv, PromptInv, Marking
    <3>4. ASSUME UNCHANGED <<shown, wiped>> PROVE Drawing' \/ Marking'
      <4>1. Drawing \/ Marking BY <1>1, <2>2, <2>4, <3>4 DEF TerminalInv, PromptInv, Marking
      <4> QED BY <3>1, <3>2, <3>3, <4>1
    <3>5. ASSUME NEW x \in Actor, renderInView(x) \/ renderApproval(x) \/ clear(x) \/ showMainAgentView(x)
          PROVE  Drawing' \/ Marking'
      BY <1>1, <3>5, PromptStepNext DEF StepOf
    <3>6. ASSUME NEW r \in Viewer, RenderPrompt(r) PROVE Drawing' \/ Marking'
      <4>1. shown' = (IF activeApproval \in pending THEN activeApproval ELSE shown) \/ shown' = shown
        BY <3>6 DEF RenderPrompt
      <4>2. wiped' = wiped BY <3>6 DEF RenderPrompt
      <4>3. shown' = shown \/ activeApproval \notin pending BY <1>1, <2>2, <4>1
      <4> QED BY <3>1, <3>3, <3>4, <4>1, <4>2, <4>3
    <3>7. CASE runMainAgentTurn BY <3>4, <3>7 DEF runMainAgentTurn
    <3>8. CASE dequeueMainAgentPrompt \/ Prompt BY <3>4, <3>8, RunTurn DEF TerminalInv
    <3>9. CASE NewSession \/ ClearScreen BY <1>1, <3>9 DEF NewSession, ClearScreen
    <3>10. CASE toggleRuntimeLogs
      <4>1. logView' = ~logView BY <3>10 DEF toggleRuntimeLogs
      <4>2. ~logView BY <1>1, <2>4
      <4> QED BY <1>1, <4>1, <4>2
    <3>11. CASE UNCHANGED screen BY <3>4, <3>11 DEF screen
    <3> QED BY <3>5, <3>6, <3>7, <3>8, <3>9, <3>10, <3>11, Frames DEF Alone, ScreenAlone
  <2> QED BY <1>1, <2>3, <2>4, ViewRebuilt
<1>2. activeApproval' # None /\ ~logView' /\ ~wiped' /\ shown' = None => Drawing' \/ Marking'
  BY <1>1, PromptStepNext, NextSplit
<1>3. activeApproval' # None => activeApproval' \in pending' \/ Marking' BY ActiveKnown
<1> QED BY <1>2, <1>3 DEF PromptInv, Marking
-----------------------------------------------------------------------------
(* The main view. *)

MainExact(d, through, next) ==
  Len(d) = Highest(through, next - 1) /\ \A i \in 1..Len(d) : d[i] = i

LEMMA ReplayNext ==
  ASSUME TerminalInv, [Next]_vars
  PROVE  hasRun' => replayThrough' <= Len(mainLog')
<1>1. /\ hasRun => replayThrough <= Len(mainLog)
      /\ replayThrough \in Nat /\ Len(mainLog) \in Nat /\ Len(mainLog') \in Nat
  BY WorldNext DEF TerminalInv, MainInv, TerminalType, TurnType, WorldType
<1>2. Len(<<>>) = 0 OBVIOUS
<1>3. CASE Restarts BY <1>2, <1>3 DEF Restarts
<1>4. CASE Extends
  <2>1. Len(mainLog) <= Len(mainLog') BY <1>4 DEF Extends
  <2>2. CASE UNCHANGED <<turn, mainNext, hasRun, replayThrough, typed, promptQueue>> BY <1>1, <2>1, <2>2
  <2>3. CASE runMainAgentTurn BY <1>1, <2>1, <2>3 DEF runMainAgentTurn
  <2>4. CASE EndTurn BY <2>4 DEF EndTurn
  <2>5. CASE dequeueMainAgentPrompt \/ Prompt
    <3>1. UNCHANGED <<hasRun, replayThrough>> \/ Restarts BY <2>5, RunTurn DEF TerminalInv
    <3>2. CASE UNCHANGED <<hasRun, replayThrough>> BY <1>1, <2>1, <3>2
    <3> QED BY <1>3, <3>1, <3>2
  <2>6. CASE NewSession BY <2>6 DEF NewSession
  <2>7. ASSUME NEW x \in Actor, showMainAgentView(x) PROVE hasRun' => replayThrough' <= Len(mainLog')
    <3>1. /\ replayThrough' = IF hasRun /\ mainLog # <<>> THEN Len(mainLog) ELSE replayThrough
          /\ UNCHANGED <<mainLog, hasRun>>
      BY <2>7 DEF showMainAgentView, world
    <3> QED BY <1>1, <3>1
  <2> QED BY <2>2, <2>3, <2>4, <2>5, <2>6, <2>7, Frames DEF Alone, TurnAlone
<1> QED BY <1>3, <1>4, LogGrows

LEMMA MainNext ==
  ASSUME TerminalInv, [Next]_vars
  PROVE  MainInv'
<1>1. /\ TerminalType /\ mainLog \in Seq(MEvent) /\ Len(mainLog) \in Nat /\ mainNext \in 1..(Len(mainLog) + 1)
      /\ replayThrough \in Nat /\ drawn \in Seq(Nat) /\ Len(drawn) \in Nat /\ hasRun \in BOOLEAN
  BY DEF TerminalInv, TerminalType, TurnType, WorldType
<1>2. /\ hasRun => replayThrough <= Len(mainLog)
      /\ InView(Main) /\ hasRun /\ ~wiped /\ <<"show">> \notin Work("input") => MainExact(drawn, replayThrough, mainNext)
  BY DEF TerminalInv, MainInv, MainExact
<1> SUFFICES ASSUME InView(Main)', hasRun', ~wiped', <<"show">> \notin Work("input")'
             PROVE  MainExact(drawn', replayThrough', mainNext')
  BY ReplayNext DEF MainInv, MainExact
<1>3. view' = Main /\ ~logView' BY DEF InView
<1>4. Len(<<>>) = 0 OBVIOUS
<1>5. UNCHANGED <<view, epoch, logView>> /\ InView(Main)
  <2>1. ASSUME NEW p, Rebuilds(p) PROVE FALSE BY <1>3, <2>1, RebuildDraws
  <2>2. UNCHANGED <<view, epoch, logView>> BY <1>3, <2>1, ViewRebuilt
  <2> QED BY <1>3, <2>2 DEF InView
<1>6. CASE runMainAgentTurn
  <2>1. /\ <<"show">> \notin Work("input") /\ UNCHANGED <<hasRun, wiped, replayThrough>>
        /\ mainNext' = mainNext + 1
        /\ \/ mainNext <= replayThrough /\ drawn' = drawn
           \/ ~(mainNext <= replayThrough) /\ drawn' = Append(drawn, mainNext)
    BY <1>5, <1>6, IdleWork, Actors DEF runMainAgentTurn, InputIdle, mainAgentEventAlreadyReplayed
  <2>2. MainExact(drawn, replayThrough, mainNext) BY <1>2, <1>5, <2>1
  <2>3. CASE mainNext <= replayThrough /\ drawn' = drawn
    <3>1. Highest(replayThrough, (mainNext + 1) - 1) = Highest(replayThrough, mainNext - 1)
      BY <1>1, <2>3 DEF Highest
    <3> QED BY <2>1, <2>2, <2>3, <3>1 DEF MainExact
  <2>4. CASE ~(mainNext <= replayThrough) /\ drawn' = Append(drawn, mainNext)
    <3>1. Len(drawn) = mainNext - 1 /\ mainNext \in Nat BY <1>1, <2>2, <2>4 DEF MainExact, Highest
    <3>2. /\ Len(drawn') = Len(drawn) + 1 /\ drawn'[Len(drawn) + 1] = mainNext
          /\ \A i \in 1..Len(drawn) : drawn'[i] = drawn[i]
      BY <1>1, <2>4, <3>1, ItemsAppend
    <3>3. Len(drawn') = mainNext BY <1>1, <3>1, <3>2
    <3>4. Highest(replayThrough, (mainNext + 1) - 1) = mainNext BY <1>1, <2>4, <3>1 DEF Highest
    <3>5. \A i \in 1..Len(drawn') : drawn'[i] = i
      <4> SUFFICES ASSUME NEW i \in 1..Len(drawn') PROVE drawn'[i] = i OBVIOUS
      <4>1. CASE i = Len(drawn) + 1 BY <3>1, <3>2, <4>1
      <4>2. CASE i # Len(drawn) + 1
        <5>1. i \in 1..Len(drawn) BY <1>1, <3>2, <4>2
        <5> QED BY <2>2, <3>2, <5>1 DEF MainExact
      <4> QED BY <4>1, <4>2
    <3> QED BY <2>1, <3>3, <3>4, <3>5 DEF MainExact
  <2> QED BY <2>1, <2>3, <2>4
<1>7. CASE EndTurn \/ NewSession BY <1>7 DEF EndTurn, NewSession
<1>8. ASSUME UNCHANGED <<hasRun, replayThrough, mainNext, drawn, wiped>>,
             <<"show">> \in Work("input") => <<"show">> \in Work("input")'
      PROVE  MainExact(drawn', replayThrough', mainNext')
  BY <1>2, <1>5, <1>8
<1>9. CASE dequeueMainAgentPrompt \/ Prompt
  <2>1. /\ UNCHANGED <<turn, mainNext, hasRun, replayThrough, mainLog, mainDone, drawn>> \/ Restarts
        /\ UNCHANGED wiped /\ UNCHANGED todo
    BY <1>1, <1>9, RunTurn
  <2>2. Work("input")' = Work("input") BY <2>1, SameWork, Actors
  <2>3. CASE Restarts
    <3>1. drawn' = <<>> /\ replayThrough' = 0 /\ mainNext' = 1 BY <2>3 DEF Restarts
    <3>2. Highest(0, 1 - 1) = 0 BY DEF Highest
    <3> QED BY <1>4, <3>1, <3>2 DEF MainExact
  <2> QED BY <1>8, <2>1, <2>2, <2>3
<1>10. ASSUME NEW x \in Actor, showMainAgentView(x) PROVE MainExact(drawn', replayThrough', mainNext')
  <2>1. /\ drawn' = (IF hasRun THEN [i \in DOMAIN mainLog |-> i] ELSE <<>>)
        /\ replayThrough' = (IF hasRun /\ mainLog # <<>> THEN Len(mainLog) ELSE replayThrough)
        /\ UNCHANGED <<hasRun, mainNext>>
    BY <1>10 DEF showMainAgentView
  <2>2. DOMAIN mainLog = 1..Len(mainLog) BY <1>1
  <2>3. drawn' = [i \in 1..Len(mainLog) |-> i] BY <2>1, <2>2
  <2>4. Len(drawn') = Len(mainLog) /\ \A i \in 1..Len(drawn') : drawn'[i] = i BY <1>1, <2>3
  <2>5. replayThrough' = Len(mainLog)
    <3>1. mainLog = <<>> => Len(mainLog) = 0 BY <1>4
    <3> QED BY <1>1, <1>2, <2>1, <3>1
  <2>6. Highest(Len(mainLog), mainNext - 1) = Len(mainLog) BY <1>1 DEF Highest
  <2> QED BY <2>1, <2>4, <2>5, <2>6 DEF MainExact
<1>11. CASE /\ UNCHANGED <<turn, mainNext, hasRun, replayThrough, typed, promptQueue>>
            /\ ~(\E x \in Actor : showMainAgentView(x)) /\ ~runMainAgentTurn /\ ~NewSession
            /\ ~dequeueMainAgentPrompt /\ ~Prompt
  <2>1. <<"show">> \in Work("input") => <<"show">> \in Work("input")'
    <3>1. PICK e : e = <<"show">> OBVIOUS
    <3>2. ASSUME NEW x \in Actor, StepOf(x) PROVE Do(x) # e
      <4>1. Do(x)[1] # "show" BY <1>11, <3>2, StepIs
      <4> QED BY <3>1, <4>1
    <3>3. e \in Work("input") => e \in Work("input")' BY <3>2, Remains, NextSplit, Actors
    <3> QED BY <3>1, <3>3
  <2>2. CASE UNCHANGED <<drawn, wiped>> BY <1>8, <1>11, <2>1, <2>2
  <2>3. CASE ClearScreen BY <2>3 DEF ClearScreen
  <2>4. CASE toggleRuntimeLogs
    <3>1. logView' = ~logView BY <2>4 DEF toggleRuntimeLogs
    <3>2. ~logView BY <1>3, <1>5
    <3> QED BY <1>3, <3>1, <3>2
  <2>5. ASSUME NEW r \in Viewer, RenderPrompt(r) PROVE UNCHANGED <<drawn, wiped>> BY <2>5 DEF RenderPrompt
  <2>6. ASSUME NEW x \in Actor, renderInView(x) \/ renderApproval(x) PROVE UNCHANGED <<drawn, wiped>>
    BY <2>6 DEF renderInView, renderApproval, Frame
  <2>7. ASSUME NEW x \in Actor, clear(x) PROVE FALSE
    <3>1. todo[x] # <<>> /\ Do(x)[1] = "clear" BY <2>7 DEF clear, At
    <3>2. Do(x) \in Work(x) BY <1>1, <3>1, StepFacts
    <3> QED BY <1>3, <1>5, <3>1, <3>2 DEF TerminalInv, ViewInv
  <2> QED BY <1>11, <2>2, <2>3, <2>4, <2>5, <2>6, <2>7, Frames DEF Alone, ScreenAlone, screen
<1> QED BY <1>6, <1>7, <1>9, <1>10, <1>11, Frames DEF Alone, TurnAlone
-----------------------------------------------------------------------------
(* Requests and settlements. *)

LEMMA SettledNew ==
  ASSUME TerminalInv, [Next]_vars, NEW a \in Approval
  PROVE  /\ truth'[a] = "settled" =>
              truth[a] = "settled" \/ Announces(a, "settled") \/ (interruptActiveView /\ a \in MainOpen)
         /\ truth'[a] \in {"open", "answered"} =>
              truth[a] \in {"open", "answered"} \/ Announces(a, "requested")
<1>1. truth \in [Approval -> {"new", "open", "answered", "settled"}] BY DEF TerminalInv, TerminalType, WorldType
<1> DEFINE Goal == /\ truth'[a] = "settled" =>
                        truth[a] = "settled" \/ Announces(a, "settled") \/ (interruptActiveView /\ a \in MainOpen)
                   /\ truth'[a] \in {"open", "answered"} =>
                        truth[a] \in {"open", "answered"} \/ Announces(a, "requested")
<1>2. CASE UNCHANGED truth BY <1>2
<1>3. ASSUME NEW b \in Approval, NEW type \in {"requested", "settled"}, Announces(b, type) PROVE Goal
  <2>1. CASE a = b BY <1>1, <1>3, <2>1 DEF Announces
  <2>2. CASE a # b
    <3>1. truth'[a] = truth[a] BY <1>1, <1>3, <2>2 DEF Announces
    <3> QED BY <3>1
  <2> QED BY <2>1, <2>2
<1>4. CASE Agent
  <2>1. ASSUME NEW b \in Approval, Request(b) \/ Settle(b) PROVE \E type \in {"requested", "settled"} : Announces(b, type)
    BY <2>1 DEF Request, Settle, Announces, mainTurn
  <2>2. CASE MainText \/ MainEnds \/ Continuation \/ \E s \in Sub : SubStarts(s)
    BY <1>2, <2>2 DEF SubStarts, MainText, MainEnds, Continuation
  <2> QED BY <1>3, <1>4, <2>1, <2>2 DEF Agent
<1>5. CASE Monitor BY <1>2, <1>5 DEF Monitor, monitorSubagentPermissions, monitorSubagentConfirmations, monitor
<1>6. CASE MainLoop
  BY <1>2, <1>6 DEF MainLoop, runMainAgentTurn, EndTurn, dequeueMainAgentPrompt, renderRuntimeLogEntry, world
<1>7. CASE interruptActiveView BY <1>1, <1>7, Interrupt
<1>8. CASE Input /\ ~interruptActiveView
  BY <1>2, <1>8 DEF Input, Choose, ChooseID, Open, closeSubagent, Prompt, runSubagentTurn, Back, NewSession,
     ClearScreen, toggleReasoning, toggleRuntimeLogs, world
<1>9. CASE Write BY <1>2, <1>9 DEF Write, world
<1>10. ASSUME NEW x \in Actor, AgentResolve(x) PROVE Goal
  <2>1. UNCHANGED truth \/ (truth[Do(x)[2]] = "open" /\ truth' = [truth EXCEPT ![Do(x)[2]] = "answered"])
    BY <1>10 DEF AgentResolve
  <2> QED BY <1>1, <1>2, <2>1
<1>11. ASSUME NEW x \in Actor, StepOf(x), ~AgentResolve(x) PROVE UNCHANGED truth
  BY <1>11, SMTT(30) DEF StepOf, addPending, appendApproval, dropPending, markApprovalComplete, activateNextApproval,
     activeView, renderInView, renderApproval, renderActiveApproval, Unlock, clear, Stream, showMainAgentView,
     Frame, world
<1>12. ASSUME NEW r \in Viewer, Renderer(r) PROVE UNCHANGED truth
  BY <1>12 DEF Renderer, RenderRetained, RenderPrompt, renderSubagentRun, world
<1>13. CASE UNCHANGED vars BY <1>2, <1>13 DEF vars, world
<1> QED BY <1>2, <1>4, <1>5, <1>6, <1>7, <1>8, <1>9, <1>10, <1>11, <1>12, <1>13 DEF Next

\* A log that grows stays sorted when a new request is not settled yet and a
\* new settlement is in the part that is new.
LEMMA SortedGrows ==
  ASSUME NEW t, NEW u, NEW log, NEW new, SortedBy(t, log), Len(log) \in Nat, Len(new) \in Nat,
         Len(log) <= Len(new), \A n \in 1..Len(log) : new[n] = log[n],
         \A n \in (Len(log) + 1)..Len(new) : new[n][1] = "requested" => u[new[n][2]] # "settled",
         \A n \in 1..Len(log) : log[n][1] = "requested" /\ u[log[n][2]] = "settled" /\ t[log[n][2]] # "settled" =>
           \E l \in (Len(log) + 1)..Len(new) : new[l] = <<"settled", log[n][2]>>
  PROVE  SortedBy(u, new)
<1> SUFFICES ASSUME NEW n \in 1..Len(new), new[n][1] = "requested", u[new[n][2]] = "settled"
             PROVE  \E l \in (n + 1)..Len(new) : new[l] = <<"settled", new[n][2]>>
  BY DEF SortedBy
<1>1. n \in 1..Len(log) /\ new[n] = log[n]
  <2>1. ~(n \in (Len(log) + 1)..Len(new)) OBVIOUS
  <2>2. n \in 1..Len(log) BY <2>1
  <2> QED BY <2>2
<1>2. CASE t[log[n][2]] = "settled"
  <2>1. PICK l \in (n + 1)..Len(log) : log[l] = <<"settled", log[n][2]>> BY <1>1, <1>2 DEF SortedBy
  <2>2. l \in 1..Len(log) /\ l \in (n + 1)..Len(new) BY <1>1, <2>1
  <2> QED BY <1>1, <2>1, <2>2
<1>3. CASE t[log[n][2]] # "settled"
  <2>1. PICK l \in (Len(log) + 1)..Len(new) : new[l] = <<"settled", log[n][2]>> BY <1>1, <1>3
  <2>2. l \in (n + 1)..Len(new) BY <1>1, <2>1
  <2> QED BY <1>1, <2>1, <2>2
<1> QED BY <1>2, <1>3

LEMMA SortedTail ==
  ASSUME NEW t, NEW S, NEW log \in Seq(S), log # <<>>, SortedBy(t, log)
  PROVE  /\ SortedBy(t, Tail(log))
         /\ Head(log)[1] = "requested" /\ t[Head(log)[2]] = "settled" => <<"settled", Head(log)[2]>> \in Items(Tail(log))
<1> DEFINE w == Tail(log)
<1>1. /\ Head(log) = log[1] /\ Len(log) >= 1 /\ Len(log) \in Nat /\ Len(w) = Len(log) - 1
      /\ \A i \in 1..(Len(log) - 1) : w[i] = log[i + 1]
  BY ItemsHead
<1> HIDE DEF w
<1>2. ASSUME NEW l \in 2..Len(log) PROVE l - 1 \in 1..Len(w) /\ w[l - 1] = log[l] BY <1>1
<1>3. ASSUME NEW n \in 1..Len(w), w[n][1] = "requested", t[w[n][2]] = "settled"
      PROVE  \E l \in (n + 1)..Len(w) : w[l] = <<"settled", w[n][2]>>
  <2>1. PICK m : m = n + 1 OBVIOUS
  <2>2. m \in 1..Len(log) /\ w[n] = log[m] BY <1>1, <2>1
  <2>3. PICK l \in (m + 1)..Len(log) : log[l] = <<"settled", log[m][2]>> BY <1>3, <2>2 DEF SortedBy
  <2>4. l \in 2..Len(log) /\ l - 1 \in (n + 1)..Len(w) BY <1>1, <2>1, <2>2, <2>3
  <2> QED BY <1>2, <2>2, <2>3, <2>4
<1>4. ASSUME Head(log)[1] = "requested", t[Head(log)[2]] = "settled" PROVE <<"settled", Head(log)[2]>> \in Items(w)
  <2>1. 1 \in 1..Len(log) /\ 1 + 1 = 2 BY <1>1
  <2>2. PICK l \in 2..Len(log) : log[l] = <<"settled", log[1][2]>> BY <1>1, <1>4, <2>1 DEF SortedBy
  <2>3. l - 1 \in 1..Len(w) /\ w[l - 1] = log[l] BY <1>2
  <2> QED BY <1>1, <2>2, <2>3 DEF Items
<1> QED BY <1>3, <1>4 DEF SortedBy, w

\* A log to which at most an event is added.
LEMMA SortedLog ==
  ASSUME TerminalInv, [Next]_vars, ~interruptActiveView,
         NEW log, NEW new, log \in Seq(MEvent), new \in Seq(MEvent), SortedBy(truth, log),
         \/ new = log
         \/ \E a \in Approval : \E type \in {"requested", "settled"} : Announces(a, type) /\ new = Append(log, <<type, a>>)
         \/ new = Append(log, <<"text", None>>),
         \A a \in Approval : <<"requested", a>> \in Items(log) /\ Announces(a, "settled") => new = Append(log, <<"settled", a>>)
  PROVE  SortedBy(truth', new)
<1>1. truth \in [Approval -> {"new", "open", "answered", "settled"}] BY DEF TerminalInv, TerminalType, WorldType
<1>2. Len(log) \in Nat /\ Len(new) \in Nat OBVIOUS
<1>3. ASSUME NEW n \in 1..Len(log), log[n][1] = "requested", truth'[log[n][2]] = "settled", truth[log[n][2]] # "settled"
      PROVE  new = Append(log, <<"settled", log[n][2]>>)
  <2>1. PICK b : b = log[n][2] OBVIOUS
  <2>2. log[n] \in MEvent BY <1>2
  <2>3. b \in Approval /\ log[n] = <<"requested", b>>
    <3>1. log[n] # <<"text", None>> BY <1>3
    <3>2. log[n] \in AEvent BY <2>2, <3>1 DEF MEvent
    <3> QED BY <1>3, <2>1, <3>2, Events
  <2>4. <<"requested", b>> \in Items(log) BY <2>3 DEF Items
  <2>5. Announces(b, "settled") BY <1>3, <2>1, <2>3, SettledNew
  <2> QED BY <2>1, <2>3, <2>4, <2>5
<1>4. CASE new = log
  <2>1. \A n \in 1..Len(log) : ~(log[n][1] = "requested" /\ truth'[log[n][2]] = "settled" /\ truth[log[n][2]] # "settled")
    <3> SUFFICES ASSUME NEW n \in 1..Len(log), log[n][1] = "requested", truth'[log[n][2]] = "settled", truth[log[n][2]] # "settled"
                 PROVE FALSE
      OBVIOUS
    <3>1. PICK e : e = <<"settled", log[n][2]>> OBVIOUS
    <3>2. new = Append(log, e) BY <1>3, <3>1
    <3>3. Len(Append(log, e)) = Len(log) + 1 OBVIOUS
    <3> QED BY <1>2, <1>4, <3>2, <3>3
  <2>2. \A n \in (Len(log) + 1)..Len(new) : FALSE BY <1>2, <1>4
  <2> QED BY <1>2, <1>4, <2>1, <2>2, SortedGrows
<1>5. ASSUME NEW e \in MEvent, new = Append(log, e), e[1] = "requested" => truth'[e[2]] # "settled"
      PROVE  SortedBy(truth', new)
  <2>1. /\ Len(new) = Len(log) + 1 /\ \A i \in 1..Len(log) : new[i] = log[i]
        /\ new[Len(log) + 1] = e
    BY <1>5, ItemsAppend
  <2>2. \A n \in (Len(log) + 1)..Len(new) : n = Len(log) + 1 BY <1>2, <2>1
  <2>3. ASSUME NEW n \in 1..Len(log), log[n][1] = "requested", truth'[log[n][2]] = "settled", truth[log[n][2]] # "settled"
        PROVE  \E l \in (Len(log) + 1)..Len(new) : new[l] = <<"settled", log[n][2]>>
    <3>1. PICK f : f = <<"settled", log[n][2]>> OBVIOUS
    <3>2. new = Append(log, f) BY <1>3, <2>3, <3>1
    <3>3. Append(log, f)[Len(log) + 1] = f OBVIOUS
    <3>4. new[Len(log) + 1] = f /\ Len(log) + 1 \in (Len(log) + 1)..Len(new) BY <1>2, <2>1, <3>2, <3>3
    <3> QED BY <3>1, <3>4
  <2>4. \A n \in (Len(log) + 1)..Len(new) : new[n][1] = "requested" => truth'[new[n][2]] # "settled"
    BY <1>5, <2>1, <2>2
  <2>5. Len(log) <= Len(new) BY <1>2, <2>1
  <2> QED BY <1>2, <2>1, <2>3, <2>4, <2>5, SortedGrows
<1>6. ASSUME NEW a \in Approval, NEW type \in {"requested", "settled"}, Announces(a, type), new = Append(log, <<type, a>>)
      PROVE  SortedBy(truth', new)
  <2>1. PICK e : e = <<type, a>> OBVIOUS
  <2>2. e \in MEvent /\ e[1] = type /\ e[2] = a BY <2>1 DEF MEvent, AEvent
  <2>3. e[1] = "requested" => truth'[e[2]] # "settled" BY <1>1, <1>6, <2>2 DEF Announces
  <2> QED BY <1>5, <1>6, <2>1, <2>2, <2>3
<1>7. CASE new = Append(log, <<"text", None>>)
  <2>1. PICK e : e = <<"text", None>> OBVIOUS
  <2>2. e \in MEvent /\ e[1] # "requested" BY <2>1 DEF MEvent
  <2> QED BY <1>5, <1>7, <2>1, <2>2
<1> QED BY <1>4, <1>6, <1>7

\* An event about an approval of the main run goes to the main log only, one
\* about an approval of a subagent to its log and to the feed of its kind.
InMainLog(a, type) == mainLog' = Append(mainLog, <<type, a>>) /\ UNCHANGED <<subLog, feed>>
InSubLog(a, type) ==
  /\ Owner[a] \in Sub /\ Kind[a] \in Kinds /\ UNCHANGED mainLog
  /\ \A s \in Sub : subLog'[s] = IF s = Owner[a] THEN Append(subLog[s], <<type, a>>) ELSE subLog[s]
  /\ \A k \in Kinds : feed'[k] = IF k = Kind[a] THEN Append(feed[k], <<type, a>>) ELSE feed[k]
LEMMA AnnouncedIn ==
  ASSUME TerminalInv, NEW a \in Approval, NEW type \in {"requested", "settled"}, Announces(a, type)
  PROVE  (Owner[a] = Main => InMainLog(a, type)) /\ (Owner[a] # Main => InSubLog(a, type))
<1>1. WorldType BY DEF TerminalInv, TerminalType
<1>2. \/ Owner[a] = Main /\ mainLog' = Append(mainLog, <<type, a>>) /\ UNCHANGED <<subLog, feed>>
      \/ /\ Owner[a] \in Sub /\ Kind[a] \in Kinds
         /\ subLog' = [subLog EXCEPT ![Owner[a]] = Append(@, <<type, a>>)]
         /\ feed' = [feed EXCEPT ![Kind[a]] = Append(@, <<type, a>>)]
         /\ UNCHANGED mainLog
  BY <1>1, Emits DEF Announces
<1>3. Owner[a] \in Sub => Owner[a] # Main BY TerminalAssumption
<1> QED BY <1>1, <1>2, <1>3 DEF WorldType, InMainLog, InSubLog

LEMMA SortedNext ==
  ASSUME TerminalInv, [Next]_vars
  PROVE  /\ SortedBy(truth', mainLog') /\ \A s \in Sub : SortedBy(truth', subLog'[s])
         /\ \A k \in Kinds : SortedBy(truth', feed'[k])
<1>1. /\ mainLog \in Seq(MEvent) /\ mainLog' \in Seq(MEvent)
      /\ \A s \in Sub : subLog[s] \in Seq(AEvent) /\ subLog'[s] \in Seq(AEvent)
      /\ \A k \in Kinds : feed[k] \in Seq(AEvent) /\ feed'[k] \in Seq(AEvent)
  BY WorldNext DEF TerminalInv, TerminalType, WorldType
<1>2. AEvent \subseteq MEvent BY DEF MEvent
<1>3. /\ \A s \in Sub : subLog[s] \in Seq(MEvent) /\ subLog'[s] \in Seq(MEvent)
      /\ \A k \in Kinds : feed[k] \in Seq(MEvent) /\ feed'[k] \in Seq(MEvent)
  BY <1>1, <1>2
<1>4. /\ SortedBy(truth, mainLog) /\ \A s \in Sub : SortedBy(truth, subLog[s])
      /\ \A k \in Kinds : SortedBy(truth, feed[k])
  BY DEF TerminalInv, SourceInv, Sorted
<1>5. /\ \A a \in Approval : <<"requested", a>> \in Items(mainLog) => Owner[a] = Main
      /\ \A s \in Sub : \A e \in Items(subLog[s]) : e[2] \in Approval /\ Owner[e[2]] = s /\ s # Main
      /\ \A k \in Kinds : \A e \in Items(feed[k]) : e[2] \in Approval /\ Owner[e[2]] \in Sub /\ Owner[e[2]] # Main /\ Kind[e[2]] = k
  <2>1. ASSUME NEW a \in Approval, <<"requested", a>> \in Items(mainLog) PROVE Owner[a] = Main
    <3>1. PICK e : e = <<"requested", a>> OBVIOUS
    <3>2. e \in Items(mainLog) /\ e[1] # "text" /\ e[2] = a BY <2>1, <3>1
    <3> QED BY <3>2 DEF TerminalInv, EventInv
  <2>2. ASSUME NEW s \in Sub, NEW e \in Items(subLog[s]) PROVE e[2] \in Approval /\ Owner[e[2]] = s /\ s # Main
    <3>1. e \in AEvent BY <1>1, ItemsOf
    <3> QED BY <3>1, Events, TerminalAssumption DEF TerminalInv, EventInv
  <2>3. ASSUME NEW k \in Kinds, NEW e \in Items(feed[k])
        PROVE  e[2] \in Approval /\ Owner[e[2]] \in Sub /\ Owner[e[2]] # Main /\ Kind[e[2]] = k
    <3>1. e \in AEvent BY <1>1, ItemsOf
    <3> QED BY <3>1, Events, TerminalAssumption DEF TerminalInv, EventInv
  <2> QED BY <2>1, <2>2, <2>3
<1>6. CASE interruptActiveView
  <2>1. /\ truth' = [a \in Approval |-> IF a \in MainOpen THEN "settled" ELSE truth[a]]
        /\ mainLog' = mainLog \o SetToSeq(Cancelled) /\ UNCHANGED <<subLog, feed>>
    BY <1>6, Interrupt
  <2>2. ASSUME NEW log \in Seq(MEvent), SortedBy(truth, log),
               \A e \in Items(log) : e[2] \in Approval /\ Owner[e[2]] # Main
        PROVE  SortedBy(truth', log)
    <3>1. ASSUME NEW n \in 1..Len(log) PROVE truth'[log[n][2]] = truth[log[n][2]]
      <4>1. log[n] \in Items(log) BY DEF Items
      <4>2. log[n][2] \in Approval /\ log[n][2] \notin MainOpen BY <2>2, <4>1 DEF MainOpen
      <4> QED BY <2>1, <4>2
    <3> QED BY <2>2, <3>1 DEF SortedBy
  <2>3. SortedBy(truth', mainLog')
    <3> DEFINE c == SetToSeq(Cancelled)
    <3>1. c \in Seq(MEvent) /\ Items(c) = Cancelled /\ mainLog' = mainLog \o c
      <4>1. c \in Seq(AEvent) /\ Items(c) = Cancelled BY Cancellation
      <4>2. c \in Seq(MEvent) BY <1>2, <4>1
      <4> QED BY <2>1, <4>1, <4>2
    <3> HIDE DEF c
    <3>2. /\ Len(mainLog') = Len(mainLog) + Len(c) /\ Len(c) \in Nat /\ Len(mainLog) \in Nat
          /\ \A i \in 1..Len(mainLog) : mainLog'[i] = mainLog[i]
          /\ \A i \in 1..Len(c) : mainLog'[Len(mainLog) + i] = c[i]
      BY <1>1, <3>1, ConcatProperties
    <3>3. ASSUME NEW n \in (Len(mainLog) + 1)..Len(mainLog') PROVE mainLog'[n][1] # "requested"
      <4>1. PICK i : i = n - Len(mainLog) OBVIOUS
      <4>2. i \in 1..Len(c) /\ Len(mainLog) + i = n BY <3>2, <4>1
      <4>3. mainLog'[n] = c[i] /\ c[i] \in Cancelled BY <3>1, <3>2, <4>2 DEF Items
      <4> QED BY <4>3 DEF Cancelled
    <3>4. ASSUME NEW n \in 1..Len(mainLog), mainLog[n][1] = "requested", truth'[mainLog[n][2]] = "settled",
                 truth[mainLog[n][2]] # "settled"
          PROVE  \E l \in (Len(mainLog) + 1)..Len(mainLog') : mainLog'[l] = <<"settled", mainLog[n][2]>>
      <4>1. PICK b : b = mainLog[n][2] OBVIOUS
      <4>2. b \in Approval
        <5>1. mainLog[n] \in MEvent /\ mainLog[n] # <<"text", None>> BY <1>1, <3>4
        <5> QED BY <4>1, <5>1, Events DEF MEvent
      <4>3. b \in MainOpen BY <2>1, <3>4, <4>1, <4>2
      <4>4. <<"settled", b>> \in Items(c) BY <3>1, <4>3 DEF Cancelled
      <4>5. PICK i \in 1..Len(c) : c[i] = <<"settled", b>> BY <4>4 DEF Items
      <4>6. Len(mainLog) + i \in (Len(mainLog) + 1)..Len(mainLog') /\ mainLog'[Len(mainLog) + i] = <<"settled", b>>
        BY <3>2, <4>5
      <4> QED BY <4>1, <4>6
    <3>5. Len(mainLog) <= Len(mainLog') /\ Len(mainLog') \in Nat BY <3>2
    <3>6. \A n \in (Len(mainLog) + 1)..Len(mainLog') : mainLog'[n][1] = "requested" => truth'[mainLog'[n][2]] # "settled"
      BY <3>3
    <3>7. Len(mainLog) \in Nat /\ \A i \in 1..Len(mainLog) : mainLog'[i] = mainLog[i] BY <3>2
    <3>8. \A n \in 1..Len(mainLog) :
            mainLog[n][1] = "requested" /\ truth'[mainLog[n][2]] = "settled" /\ truth[mainLog[n][2]] # "settled" =>
              \E l \in (Len(mainLog) + 1)..Len(mainLog') : mainLog'[l] = <<"settled", mainLog[n][2]>>
      BY <3>4
    <3>9. SortedBy(truth, mainLog) BY <1>4
    <3> QED BY <3>5, <3>6, <3>7, <3>8, <3>9, SortedGrows, ZenonT(40)
  <2>4. ASSUME NEW s \in Sub PROVE SortedBy(truth', subLog'[s])
    <3>1. SortedBy(truth', subLog[s]) BY <1>3, <1>4, <1>5, <2>2
    <3> QED BY <2>1, <3>1
  <2>5. ASSUME NEW k \in Kinds PROVE SortedBy(truth', feed'[k])
    <3>1. SortedBy(truth', feed[k]) BY <1>3, <1>4, <1>5, <2>2
    <3> QED BY <2>1, <3>1
  <2> QED BY <2>3, <2>4, <2>5
<1>7. CASE ~interruptActiveView
  <2>1. \A a \in Approval : <<"requested", a>> \in Items(mainLog) /\ Announces(a, "settled") =>
          mainLog' = Append(mainLog, <<"settled", a>>)
    BY <1>5, AnnouncedIn DEF InMainLog
  <2>2. ASSUME NEW s \in Sub, NEW a \in Approval, <<"requested", a>> \in Items(subLog[s]), Announces(a, "settled")
        PROVE  subLog'[s] = Append(subLog[s], <<"settled", a>>)
    <3>1. Owner[a] = s /\ s # Main
      <4>1. PICK e : e = <<"requested", a>> OBVIOUS
      <4>2. e \in Items(subLog[s]) /\ e[2] = a BY <2>2, <4>1
      <4> QED BY <1>5, <4>2
    <3> QED BY <2>2, <3>1, AnnouncedIn DEF InSubLog, InMainLog
  <2>3. ASSUME NEW k \in Kinds, NEW a \in Approval, <<"requested", a>> \in Items(feed[k]), Announces(a, "settled")
        PROVE  feed'[k] = Append(feed[k], <<"settled", a>>)
    <3>1. Kind[a] = k /\ Owner[a] # Main
      <4>1. PICK e : e = <<"requested", a>> OBVIOUS
      <4>2. e \in Items(feed[k]) /\ e[2] = a BY <2>3, <4>1
      <4> QED BY <1>5, <4>2
    <3> QED BY <2>3, <3>1, AnnouncedIn DEF InSubLog, InMainLog
  <2>4. ASSUME UNCHANGED mainLog \/ (\E a \in Approval : \E type \in {"requested", "settled"} :
                                        Announces(a, type) /\ mainLog' = Append(mainLog, <<type, a>>))
                \/ mainLog' = Append(mainLog, <<"text", None>>)
        PROVE  SortedBy(truth', mainLog')
    BY <1>1, <1>4, <1>7, <2>1, <2>4, SortedLog
  <2>5. ASSUME NEW s \in Sub,
               subLog'[s] = subLog[s] \/ (\E a \in Approval : \E type \in {"requested", "settled"} :
                                             Announces(a, type) /\ subLog'[s] = Append(subLog[s], <<type, a>>))
        PROVE  SortedBy(truth', subLog'[s])
    BY <1>3, <1>4, <1>7, <2>2, <2>5, SortedLog
  <2>6. ASSUME NEW k \in Kinds,
               feed'[k] = feed[k] \/ (\E a \in Approval : \E type \in {"requested", "settled"} :
                                         Announces(a, type) /\ feed'[k] = Append(feed[k], <<type, a>>))
        PROVE  SortedBy(truth', feed'[k])
    BY <1>3, <1>4, <1>7, <2>3, <2>6, SortedLog
  <2>7. CASE UNCHANGED <<subLog, feed, mainLog>> BY <2>4, <2>5, <2>6, <2>7
  <2>8. ASSUME NEW a \in Approval, NEW type \in {"requested", "settled"}, Announces(a, type)
        PROVE  /\ SortedBy(truth', mainLog') /\ \A s \in Sub : SortedBy(truth', subLog'[s])
               /\ \A k \in Kinds : SortedBy(truth', feed'[k])
    <3>0. (Owner[a] = Main => InMainLog(a, type)) /\ (Owner[a] # Main => InSubLog(a, type))
      BY <2>8, AnnouncedIn
    <3>1. CASE Owner[a] = Main
      <4>1. mainLog' = Append(mainLog, <<type, a>>) /\ UNCHANGED <<subLog, feed>>
        BY <3>0, <3>1 DEF InMainLog
      <4> QED BY <2>4, <2>5, <2>6, <2>8, <4>1
    <3>2. CASE Owner[a] # Main
      <4>1. /\ UNCHANGED mainLog
            /\ \A s \in Sub : subLog'[s] = IF s = Owner[a] THEN Append(subLog[s], <<type, a>>) ELSE subLog[s]
            /\ \A k \in Kinds : feed'[k] = IF k = Kind[a] THEN Append(feed[k], <<type, a>>) ELSE feed[k]
        BY <3>0, <3>2 DEF InSubLog
      <4>2. \A s \in Sub : SortedBy(truth', subLog'[s]) BY <2>5, <2>8, <4>1
      <4>3. \A k \in Kinds : SortedBy(truth', feed'[k]) BY <2>6, <2>8, <4>1
      <4> QED BY <2>4, <4>1, <4>2, <4>3
    <3> QED BY <3>1, <3>2
  <2>9. CASE Texts
    <3>1. mainLog' = Append(mainLog, <<"text", None>>) /\ UNCHANGED <<subLog, feed>> BY <2>9 DEF Texts
    <3> QED BY <2>4, <2>5, <2>6, <3>1
  <2>10. CASE NewRun
    <3>1. mainLog' = <<>> /\ UNCHANGED <<subLog, feed>> BY <2>10 DEF NewRun
    <3>2. SortedBy(truth', mainLog') BY <3>1 DEF SortedBy
    <3> QED BY <2>5, <2>6, <3>1, <3>2
  <2>11. ASSUME NEW k \in Kinds, Observed(k)
         PROVE  /\ SortedBy(truth', mainLog') /\ \A s \in Sub : SortedBy(truth', subLog'[s])
                /\ \A j \in Kinds : SortedBy(truth', feed'[j])
    <3>1. feed[k] # <<>> /\ feed' = [feed EXCEPT ![k] = Tail(@)] /\ UNCHANGED <<truth, subLog, mainLog>>
      BY <2>11 DEF Observed
    <3>2. SortedBy(truth, Tail(feed[k])) BY <1>1, <1>4, <3>1, SortedTail
    <3>3. \A j \in Kinds : feed'[j] = IF j = k THEN Tail(feed[k]) ELSE feed[j]
      BY <3>1 DEF TerminalInv, TerminalType, WorldType
    <3> QED BY <1>4, <3>1, <3>2, <3>3
  <2> QED BY <1>7, <2>7, <2>8, <2>9, <2>10, <2>11, WorldMoves
<1> QED BY <1>6, <1>7
-----------------------------------------------------------------------------
(* Who reads an event once its approval has been asked for. *)

\* Events stay where they are in the log of a subagent's run.
LEMMA SubGrows ==
  ASSUME TerminalInv, [Next]_vars, NEW s \in Sub
  PROVE  /\ Len(subLog[s]) \in Nat /\ Len(subLog'[s]) \in Nat /\ Len(subLog[s]) <= Len(subLog'[s])
         /\ \A i \in 1..Len(subLog[s]) : subLog'[s][i] = subLog[s][i]
<1>1. subLog[s] \in Seq(AEvent) /\ Len(subLog[s]) \in Nat BY DEF TerminalInv, TerminalType, WorldType
<1>2. CASE subLog'[s] = subLog[s] BY <1>1, <1>2
<1>3. ASSUME NEW a \in Approval, NEW type \in {"requested", "settled"}, Announces(a, type), subLog'[s] # subLog[s]
      PROVE  /\ Len(subLog[s]) \in Nat /\ Len(subLog'[s]) \in Nat /\ Len(subLog[s]) <= Len(subLog'[s])
             /\ \A i \in 1..Len(subLog[s]) : subLog'[s][i] = subLog[s][i]
  <2>0. (Owner[a] = Main => InMainLog(a, type)) /\ (Owner[a] # Main => InSubLog(a, type))
    BY <1>3, AnnouncedIn
  <2>1. subLog'[s] = Append(subLog[s], <<type, a>>) BY <1>3, <2>0 DEF InMainLog, InSubLog
  <2>2. PICK e : e = <<type, a>> OBVIOUS
  <2>3. e \in AEvent /\ subLog'[s] = Append(subLog[s], e) BY <2>1, <2>2 DEF AEvent
  <2>4. Len(subLog'[s]) = Len(subLog[s]) + 1 /\ \A i \in 1..Len(subLog[s]) : subLog'[s][i] = subLog[s][i]
    BY <1>1, <2>3, ItemsAppend
  <2> QED BY <1>1, <2>4
<1>4. CASE Texts \/ NewRun \/ interruptActiveView \/ \E k \in Kinds : Observed(k)
  <2>1. UNCHANGED subLog BY <1>4, Interrupt DEF Texts, NewRun, Observed
  <2> QED BY <1>2, <2>1
<1> QED BY <1>2, <1>3, <1>4, WorldMoves

\* Where a new "add" comes from.
LEMMA AddsFrom ==
  ASSUME TerminalInv, [Next]_vars, NEW x \in Actor, NEW e \in Work(x)', e[1] = "add"
  PROVE  \/ e \in Work(x)
         \/ /\ x = "input" /\ runMainAgentTurn /\ Owner[e[2]] = Main /\ e[2] \in Approval
            /\ mainNext \in 1..Len(mainLog) /\ mainLog[mainNext] = <<"requested", e[2]>>
         \/ /\ x \in Kinds /\ monitor(x) /\ Owner[e[2]] \in Sub /\ Kind[e[2]] = x /\ e[2] \in Approval
            /\ feed[x] # <<>> /\ Head(feed[x]) = <<"requested", e[2]>>
         \/ /\ x \in Viewer /\ renderSubagentRun(x) /\ renderer[x].id = Owner[e[2]] /\ e[2] \in Approval
            /\ Owner[e[2]] \in Sub /\ renderer[x].next \in 1..Len(subLog[Owner[e[2]]])
            /\ subLog[Owner[e[2]]][renderer[x].next] = <<"requested", e[2]>>
            /\ renderer' = [renderer EXCEPT ![x].next = renderer[x].next + 1]
<1>1. todo \in [Actor -> Seq(Step)] /\ ListInv BY DEF TerminalInv, TerminalType, ClientType
<1>2. SUFFICES ASSUME e \notin Work(x)
               PROVE  \/ /\ x = "input" /\ runMainAgentTurn /\ Owner[e[2]] = Main /\ e[2] \in Approval
                         /\ mainNext \in 1..Len(mainLog) /\ mainLog[mainNext] = <<"requested", e[2]>>
                      \/ /\ x \in Kinds /\ monitor(x) /\ Owner[e[2]] \in Sub /\ Kind[e[2]] = x /\ e[2] \in Approval
                         /\ feed[x] # <<>> /\ Head(feed[x]) = <<"requested", e[2]>>
                      \/ /\ x \in Viewer /\ renderSubagentRun(x) /\ renderer[x].id = Owner[e[2]] /\ e[2] \in Approval
                         /\ Owner[e[2]] \in Sub /\ renderer[x].next \in 1..Len(subLog[Owner[e[2]]])
                         /\ subLog[Owner[e[2]]][renderer[x].next] = <<"requested", e[2]>>
                         /\ renderer' = [renderer EXCEPT ![x].next = renderer[x].next + 1]
  OBVIOUS
<1>3. ~UNCHANGED todo BY <1>2, SameWork
<1>4. ASSUME NEW y \in Actor, NEW p, Begins(y, p) PROVE y = x /\ e \in Items(p)
  BY <1>1, <1>2, <1>4, BeginStep DEF Begins, FreshList
<1>5. ASSUME NEW y \in Actor, NEW p, Begins(y, p), NEW f \in MEvent, Handles(p, f)
      PROVE  y = x /\ f = <<"requested", e[2]>> /\ f[1] # "text" /\ e[2] = f[2] /\ e[2] \in Approval
  <2>1. y = x /\ e \in Items(p) BY <1>4, <1>5
  <2>2. e # <<"unlock">>
    <3>1. <<"unlock">>[1] = "unlock" OBVIOUS
    <3> QED BY <3>1
  <2>3. f[1] = "requested" /\ e[2] = f[2] BY <1>5, <2>1, <2>2 DEF Handles
  <2>4. f \in AEvent
    <3>1. f # <<"text", None>> BY <2>3
    <3> QED BY <3>1 DEF MEvent
  <2> QED BY <2>1, <2>3, <2>4, Events
<1>6. CASE runMainAgentTurn
  <2>1. PICK f \in MEvent :
           /\ mainNext \in 1..Len(mainLog) /\ f = mainLog[mainNext]
           /\ f[1] # "text" => Known(f) /\ Owner[f[2]] = Main
           /\ \E p : Begins("input", p) /\ Handles(p, f)
    BY <1>6, MainBegins
  <2> QED BY <1>5, <1>6, <2>1, Actors
<1>7. ASSUME NEW k \in Kinds, monitor(k)
      PROVE  /\ x \in Kinds /\ monitor(x) /\ Owner[e[2]] \in Sub /\ Kind[e[2]] = x /\ e[2] \in Approval
             /\ feed[x] # <<>> /\ Head(feed[x]) = <<"requested", e[2]>>
  <2>1. PICK f \in AEvent :
           /\ feed[k] # <<>> /\ f = Head(feed[k]) /\ Known(f) /\ Owner[f[2]] \in Sub /\ Kind[f[2]] = k
           /\ \E p : Begins(k, p) /\ (Handles(p, f) \/ (f[1] = "requested" /\ p = <<>>))
    BY <1>7, MonitorBegins
  <2>2. PICK p : Begins(k, p) /\ (Handles(p, f) \/ (f[1] = "requested" /\ p = <<>>)) BY <2>1
  <2>3. p # <<>> BY <1>4, <2>2, ItemsEmpty, Actors
  <2>4. f \in MEvent BY DEF MEvent
  <2>5. k = x /\ f = <<"requested", e[2]>> /\ e[2] = f[2] /\ e[2] \in Approval BY <1>5, <2>2, <2>3, <2>4, Actors, SMTT(30)
  <2> QED BY <1>7, <2>1, <2>5
<1>8. ASSUME NEW r \in Viewer, renderSubagentRun(r)
      PROVE  /\ x \in Viewer /\ renderSubagentRun(x) /\ renderer[x].id = Owner[e[2]] /\ e[2] \in Approval
             /\ Owner[e[2]] \in Sub /\ renderer[x].next \in 1..Len(subLog[Owner[e[2]]])
             /\ subLog[Owner[e[2]]][renderer[x].next] = <<"requested", e[2]>>
             /\ renderer' = [renderer EXCEPT ![x].next = renderer[x].next + 1]
  <2>1. PICK f \in AEvent :
              /\ renderer[r].id \in Sub /\ renderer[r].next \in 1..Len(subLog[renderer[r].id])
              /\ f = subLog[renderer[r].id][renderer[r].next]
              /\ renderer' = [renderer EXCEPT ![r].next = renderer[r].next + 1]
              /\ Known(f) /\ Owner[f[2]] = renderer[r].id
              /\ \E p : Begins(r, p) /\ Handles(p, f)
    BY <1>3, <1>8, ViewReads
  <2>2. f \in MEvent /\ r \in Actor BY Actors DEF MEvent
  <2>3. r = x /\ f = <<"requested", e[2]>> /\ e[2] = f[2] /\ e[2] \in Approval BY <1>5, <2>1, <2>2
  <2>4. /\ renderer[r].id \in Sub /\ renderer[r].next \in 1..Len(subLog[renderer[r].id])
        /\ f = subLog[renderer[r].id][renderer[r].next] /\ Owner[f[2]] = renderer[r].id
        /\ renderer' = [renderer EXCEPT ![r].next = renderer[r].next + 1]
    BY <2>1, Zenon
  <2> QED BY <1>8, <2>3, <2>4
<1>9. ASSUME NEW y \in Actor, StepOf(y) PROVE FALSE
  <2>1. PICK p : Executes(y, p) /\ (\A f \in Items(p) : f[1] # "add") BY <1>9, StepMoves
  <2>2. todo[y] # <<>> /\ Then(y, p) /\ p \in Seq(Step) /\ Ordered(p) BY <2>1 DEF Executes, FreshList
  <2>3. y = x /\ e \in Items(p) BY <1>1, <1>2, <2>2, ThenStep
  <2> QED BY <2>1, <2>3
<1>10. NonStep BY <1>9, NextSplit
<1>11. CASE Agent BY <1>3, <1>11 DEF Agent, Request, Settle, SubStarts, MainText, MainEnds, Continuation
<1>12. CASE EndTurn \/ dequeueMainAgentPrompt \/ renderRuntimeLogEntry
  BY <1>3, <1>12 DEF EndTurn, dequeueMainAgentPrompt, renderRuntimeLogEntry
<1>13. CASE (\E k \in Kinds : Choose(k)) \/ (\E a \in Approval : ChooseID(a))
  <2>1. PICK p : Begins("input", p) /\ \E a \in pending : p = << <<"resolve", a>> >> BY <1>13, ResolveBegins
  <2>2. e \in Items(p) BY <1>4, <2>1, Actors
  <2>3. PICK a \in pending : p = << <<"resolve", a>> >> BY <2>1
  <2>4. <<"resolve", a>>[1] = "resolve" /\ Items(p) = {<<"resolve", a>>} BY <2>3, ItemsShort
  <2> QED BY <2>2, <2>4
<1>14. CASE (\E s \in Sub : Open(s) \/ closeSubagent(s)) \/ Back \/ toggleReasoning \/ toggleRuntimeLogs
  <2>1. PICK p : Rebuilds(p) BY <1>3, <1>14, ViewChanges
  <2>2. e \in Items(p) BY <1>4, <2>1, Actors DEF Rebuilds
  <2>3. CASE p = << <<"show">> >>
    <3>1. PICK f : f = <<"show">> OBVIOUS
    <3>2. Items(p) = {f} /\ f[1] = "show" BY <2>3, <3>1, ItemsShort
    <3> QED BY <2>2, <3>2
  <2>4. ASSUME NEW f \in {<<"stream", view'>>, <<"snapshot">>}, p = << <<"clear">>, f >> PROVE FALSE
    <3>1. PICK c : c = <<"clear">> OBVIOUS
    <3>2. p = <<c, f>> /\ Items(<<c, f>>) = {c, f} BY <2>4, <3>1, ItemsShort
    <3>3. c[1] # "add" /\ f[1] # "add" BY <2>4, <3>1
    <3> QED BY <2>2, <3>2, <3>3
  <2> QED BY <2>1, <2>3, <2>4 DEF Rebuilds
<1>15. CASE Prompt \/ runSubagentTurn \/ NewSession \/ ClearScreen \/ interruptActiveView \/ Write \/ UNCHANGED vars
  BY <1>3, <1>15 DEF Prompt, runSubagentTurn, NewSession, ClearScreen, interruptActiveView, Write, vars
<1>16. ASSUME NEW r \in Viewer, RenderRetained(r) \/ RenderPrompt(r) PROVE FALSE
  BY <1>3, <1>16 DEF RenderRetained, RenderPrompt
<1> QED BY <1>6, <1>7, <1>8, <1>10, <1>11, <1>12, <1>13, <1>14, <1>15, <1>16
     DEF NonStep, Monitor, monitorSubagentPermissions, monitorSubagentConfirmations, Kinds, MainLoop, Input, Renderer

\* What a goroutine that is at work keeps: no other reads its events.
LEMMA LiveStays ==
  ASSUME TerminalInv, [Next]_vars, NEW x \in Viewer, renderer[x].state = "live"
  PROVE  /\ todo[x] # <<>> => renderer'[x] = renderer[x]
         /\ renderer'[x] = renderer[x] \/ renderSubagentRun(x)
<1>1. renderer \in [Viewer -> RendererType] BY RendererFacts
<1>2. ASSUME NEW q \in Viewer, Begun(q) PROVE renderer'[x] = renderer[x]
  <2>1. q # x BY <1>2 DEF Begun
  <2> QED BY <1>1, <1>2, <2>1 DEF Begun
<1>3. ASSUME NEW q \in Viewer, Goes(q), Renderer(q)
      PROVE  renderer'[x] = renderer[x] \/ (q = x /\ renderSubagentRun(x))
  <2>1. CASE q # x BY <1>1, <1>3, <2>1 DEF Goes
  <2>2. CASE q = x BY <1>3, <2>2, SMTT(30) DEF Renderer, RenderRetained, RenderPrompt
  <2> QED BY <2>1, <2>2
<1>4. renderSubagentRun(x) => todo[x] = <<>> BY DEF renderSubagentRun
<1> QED BY <1>2, <1>3, <1>4, RendererMoves
LEMMA RangeNext ==
  ASSUME TerminalInv, [Next]_vars, NEW r \in Viewer, renderer'[r].state \in {"retained", "live"}
  PROVE  renderer'[r].next \in 1..(Len(subLog'[renderer'[r].id]) + 1)
<1>1. renderer \in [Viewer -> RendererType] BY RendererFacts
<1>2. renderer[r].state \in {"retained", "live"} => renderer[r].next \in 1..(Len(subLog[renderer[r].id]) + 1)
  BY DEF TerminalInv, SourceInv
<1>3. CASE renderer'[r] = renderer[r]
  <2>1. renderer[r].id \in Sub BY <1>3, RendererFacts
  <2> QED BY <1>2, <1>3, <2>1, SubGrows, SMTT(20)
<1>4. ASSUME NEW q \in Viewer, Begun(q) PROVE renderer'[r] = renderer[r]
  <2>1. q # r BY <1>1, <1>4 DEF Begun
  <2> QED BY <1>1, <1>4, <2>1 DEF Begun
<1>5. ASSUME NEW q \in Viewer, Goes(q), Renderer(q), renderer'[r] # renderer[r]
      PROVE  renderer'[r].next \in 1..(Len(subLog'[renderer'[r].id]) + 1)
  <2>1. q = r BY <1>1, <1>5 DEF Goes
  <2>2. renderer'[r].id = renderer[r].id /\ renderer[r].id \in Sub BY <1>1, <1>5, <2>1, RendererFacts DEF Goes
  <2>3. CASE RenderRetained(r)
    <3>1. renderer'[r].next = Len(subLog[renderer[r].id]) + 1 BY <2>3, RetainedStep
    <3> QED BY <2>2, <3>1, SubGrows
  <2>4. CASE RenderPrompt(r)
    <3>1. renderer[r].state = "retained" /\ renderer'[r].next = renderer[r].next BY <2>4, PromptStep
    <3> QED BY <1>2, <2>2, <3>1, SubGrows
  <2>5. CASE renderSubagentRun(r)
    <3>1. renderer'[r].next = renderer[r].next + 1 /\ renderer[r].next \in 1..Len(subLog[renderer[r].id])
      BY <2>5, ReadStep
    <3> QED BY <2>2, <3>1, SubGrows, SMTT(20)
  <2> QED BY <1>5, <2>1, <2>3, <2>4, <2>5 DEF Renderer
<1> QED BY <1>3, <1>4, <1>5, RendererMoves

LEMMA DoneNext ==
  ASSUME TerminalInv, [Next]_vars, turn' = 0 \/ mainDone', NEW a \in Approval, Owner[a] = Main
  PROVE  truth'[a] \notin {"open", "answered"}
<1>1. turn = 0 \/ mainDone => truth[a] \notin {"open", "answered"} BY DEF TerminalInv, SourceInv
<1>2. CASE MainEnds BY <1>2 DEF MainEnds
<1>3. CASE interruptActiveView
  <2>1. truth'[a] = IF a \in MainOpen THEN "settled" ELSE truth[a] BY <1>3, Interrupt
  <2> QED BY <2>1 DEF MainOpen
<1>4. CASE dequeueMainAgentPrompt \/ Prompt
  <2>1. UNCHANGED <<turn, mainDone, truth>> \/ Restarts
    BY <1>4, RunTurn DEF TerminalInv
  <2>2. ~Restarts BY DEF Restarts
  <2> QED BY <1>1, <2>1, <2>2
<1>5. CASE ~MainEnds /\ ~interruptActiveView /\ ~dequeueMainAgentPrompt /\ ~Prompt
  <2>1. UNCHANGED mainDone BY <1>5, Frames DEF Alone, DoneAlone
  <2>2. turn = 0 \/ mainDone
    <3>1. CASE EndTurn BY <3>1 DEF EndTurn
    <3>2. CASE runMainAgentTurn \/ NewSession \/ \E x \in Actor : showMainAgentView(x)
      BY <2>1, <3>2 DEF runMainAgentTurn, NewSession, showMainAgentView
    <3>3. CASE UNCHANGED <<turn, mainNext, hasRun, replayThrough, typed, promptQueue>> BY <2>1, <3>3
    <3> QED BY <1>5, <3>1, <3>2, <3>3, Frames DEF Alone, TurnAlone
  <2>3. ~Announces(a, "requested") BY <2>2 DEF Announces, Running
  <2> QED BY <1>1, <2>2, <2>3, SettledNew
<1> QED BY <1>2, <1>3, <1>4, <1>5

LEMMA IdleTurn ==
  ASSUME TerminalInv, [Next]_vars, turn' = 0
  PROVE  mainNext' = Len(mainLog') + 1
<1>1. /\ mainLog \in Seq(MEvent) /\ Len(mainLog) \in Nat /\ mainNext \in 1..(Len(mainLog) + 1)
      /\ turn = 0 => mainNext = Len(mainLog) + 1
  BY DEF TerminalInv, TerminalType, TurnType, WorldType, SourceInv
<1>2. CASE EndTurn
  <2>1. mainNext > Len(mainLog) /\ UNCHANGED <<mainLog, mainNext>> BY <1>2 DEF EndTurn, world
  <2>2. mainNext = Len(mainLog) + 1 BY <1>1, <2>1
  <2> QED BY <2>1, <2>2
<1>3. CASE dequeueMainAgentPrompt \/ Prompt
  <2>1. UNCHANGED <<turn, mainNext, mainLog>> \/ Restarts BY <1>3, RunTurn DEF TerminalInv
  <2>2. ~Restarts BY DEF Restarts
  <2> QED BY <1>1, <2>1, <2>2
<1>4. CASE ~EndTurn /\ ~dequeueMainAgentPrompt /\ ~Prompt
  <2>1. turn = 0 /\ mainNext' = mainNext
    <3>1. CASE runMainAgentTurn BY <3>1 DEF runMainAgentTurn
    <3>2. CASE NewSession BY <3>2 DEF NewSession
    <3>3. ASSUME NEW x \in Actor, showMainAgentView(x) PROVE turn = 0 /\ mainNext' = mainNext
      BY <3>3 DEF showMainAgentView
    <3> QED BY <1>4, <3>1, <3>2, <3>3, Frames DEF Alone, TurnAlone
  <2>2. UNCHANGED mainLog
    <3>1. ASSUME NEW a \in Approval, NEW type \in {"requested", "settled"}, Announces(a, type) PROVE UNCHANGED mainLog
      <4>1. CASE Owner[a] = Main
        <5>1. truth[a] \notin {"open", "answered"} BY <2>1, <4>1 DEF TerminalInv, SourceInv
        <5> QED BY <2>1, <3>1, <4>1, <5>1 DEF Announces, Running
      <4>2. CASE Owner[a] # Main BY <3>1, <4>2, AnnouncedIn DEF InSubLog
      <4> QED BY <4>1, <4>2
    <3>2. ~Texts /\ ~NewRun /\ ~interruptActiveView BY <1>4, <2>1, Interrupt DEF Texts, NewRun
    <3>3. ASSUME NEW k \in Kinds, Observed(k) PROVE UNCHANGED mainLog BY <3>3 DEF Observed
    <3> QED BY <3>1, <3>2, <3>3, WorldMoves
  <2> QED BY <1>1, <2>1, <2>2
<1> QED BY <1>2, <1>3, <1>4

LEMMA SourceNext ==
  ASSUME TerminalInv, [Next]_vars
  PROVE  SourceInv'
<1>1. ASSUME NEW x \in Actor, NEW e \in Work(x)', e[1] = "add"
      PROVE  \/ x = "input" /\ Owner[e[2]] = Main
             \/ x = Kind[e[2]] /\ Owner[e[2]] \in Sub
             \/ x \in Viewer /\ renderer'[x].state = "live" /\ renderer'[x].id = Owner[e[2]]
  <2>1. CASE e \in Work(x)
    <3>1. \/ x = "input" /\ Owner[e[2]] = Main
          \/ x = Kind[e[2]] /\ Owner[e[2]] \in Sub
          \/ x \in Viewer /\ renderer[x].state = "live" /\ renderer[x].id = Owner[e[2]]
      BY <1>1, <2>1 DEF TerminalInv, SourceInv
    <3>2. todo[x] # <<>> BY <2>1, IdleWork
    <3> QED BY <3>1, <3>2, LiveStays
  <2>2. CASE /\ x \in Viewer /\ renderSubagentRun(x) /\ renderer[x].id = Owner[e[2]]
             /\ renderer' = [renderer EXCEPT ![x].next = renderer[x].next + 1]
    <3>1. renderer[x].state = "live" BY <2>2 DEF renderSubagentRun
    <3>2. renderer \in [Viewer -> RendererType] /\ renderer[x] \in RendererType BY <2>2, RendererFacts
    <3>3. renderer'[x] = [renderer[x] EXCEPT !.next = renderer[x].next + 1] BY <2>2, <3>2
    <3>4. renderer'[x].state = renderer[x].state /\ renderer'[x].id = renderer[x].id BY <3>2, <3>3 DEF RendererType
    <3> QED BY <2>2, <3>1, <3>4, SMTT(30)
  <2> QED BY <1>1, <2>1, <2>2, AddsFrom
<1>2. /\ Sorted(mainLog)' /\ (\A s \in Sub : Sorted(subLog[s])') /\ (\A k \in Kinds : Sorted(feed[k])')
  BY SortedNext DEF Sorted
<1> QED BY <1>1, <1>2, RangeNext, DoneNext, IdleTurn DEF SourceInv

(* A settled approval leaves. *)

\* A view that was left stays left.
LEMMA LeftStays ==
  ASSUME TerminalInv, [Next]_vars, NEW a \in Approval, LeftView(a)
  PROVE  LeftView(a)'
<1>1. PICK r \in Viewer : renderer[r].id = Owner[a] /\ (renderer[r].epoch # epoch \/ logView) BY DEF LeftView
<1>2. renderer \in [Viewer -> RendererType] /\ renderer[r].epoch \in Nat BY RendererFacts
<1>3. renderer[r].id # None BY <1>1, TerminalAssumption
<1>4. renderer[r].state # "none" BY <1>3 DEF TerminalInv, TerminalType, ClientType
<1>5. renderer[r].id # Main BY <1>4, RendererFacts
<1>6. renderer[r].epoch <= epoch /\ (renderer[r].epoch = epoch => renderer[r].id = view)
  BY <1>4 DEF TerminalInv, ViewInv
<1>7. renderer'[r].id = renderer[r].id /\ renderer'[r].epoch = renderer[r].epoch
  <2>1. ASSUME NEW q \in Viewer, Begun(q) PROVE renderer'[r] = renderer[r]
    <3>1. q # r BY <1>4, <2>1 DEF Begun
    <3> QED BY <1>2, <2>1, <3>1 DEF Begun
  <2>2. ASSUME NEW q \in Viewer, Goes(q)
        PROVE  renderer'[r].id = renderer[r].id /\ renderer'[r].epoch = renderer[r].epoch
    BY <1>2, <2>2 DEF Goes
  <2> QED BY <2>1, <2>2, RendererMoves
<1>8. epoch \in Nat BY DEF TerminalInv, TerminalType, ClientType
<1>9. renderer'[r].epoch # epoch' \/ logView'
  <2>1. CASE renderer[r].epoch # epoch
    <3>1. epoch <= epoch' /\ epoch' \in Nat BY ViewMoves
    <3>2. renderer[r].epoch # epoch' BY <1>2, <1>6, <1>8, <2>1, <3>1
    <3> QED BY <1>7, <3>2
  <2>2. CASE renderer[r].epoch = epoch
    <3>1. logView /\ view # Main BY <1>1, <1>5, <1>6, <2>2
    <3>2. CASE epoch' = epoch + 1
      <4>1. renderer[r].epoch # epoch' BY <1>8, <2>2, <3>2
      <4> QED BY <1>7, <4>1
    <3>3. CASE UNCHANGED <<view, epoch>>
      <4>1. ~toggleRuntimeLogs
        <5>1. ASSUME toggleRuntimeLogs PROVE FALSE
          <6>1. openSubagent(view) BY <3>1, <5>1 DEF toggleRuntimeLogs
          <6>2. epoch' = epoch + 1 BY <6>1 DEF openSubagent, switchView
          <6> QED BY <1>8, <3>3, <6>2
        <5> QED BY <5>1
      <4>2. UNCHANGED logView
        <5>1. CASE Write BY <5>1 DEF Write, views
        <5>2. CASE renderRuntimeLogEntry BY <5>2 DEF renderRuntimeLogEntry, views
        <5> QED BY <4>1, <5>1, <5>2, Frames DEF Alone, LogAlone
      <4> QED BY <3>1, <4>2
    <3> QED BY <3>1, <3>2, <3>3, ViewMoves
  <2> QED BY <2>1, <2>2
<1> QED BY <1>1, <1>7, <1>9 DEF LeftView

\* What is still ahead of a goroutine stays so until the goroutine, with
\* nothing else to do, handles it.
LEMMA Dropping ==
  ASSUME TerminalInv, NEW x \in Actor, NEW p, Begins(x, p), NEW a \in Approval, Handles(p, <<"settled", a>>)
  PROVE  todo[x] = <<>> /\ Works(<<"drop", a>>)'
<1>1. todo[x] = <<>> /\ todo' = [todo EXCEPT ![x] = p] /\ p \in Seq(Step) /\ Ordered(p) BY DEF Begins, FreshList
<1>2. todo \in [Actor -> Seq(Step)] /\ ListInv BY DEF TerminalInv, TerminalType, ClientType
<1>3. Work(x)' = Items(p) BY <1>1, <1>2, BeginStep
<1>4. PICK e : e = <<"settled", a>> OBVIOUS
<1>5. e[1] = "settled" /\ e[2] = a /\ Handles(p, e) BY <1>4
<1>6. <<"drop", a>> \in Items(p) BY <1>5 DEF Handles
<1> QED BY <1>1, <1>3, <1>6 DEF Works

LEMMA MainStays ==
  ASSUME TerminalInv, [Next]_vars, NEW a \in Approval, MainAhead(a)
  PROVE  MainAhead(a)' \/ (todo["input"] = <<>> /\ Works(<<"drop", a>>)')
<1>1. PICK l \in mainNext..Len(mainLog) : mainLog[l] = <<"settled", a>> BY DEF MainAhead
<1>2. /\ mainLog \in Seq(MEvent) /\ Len(mainLog) \in Nat /\ mainNext \in 1..(Len(mainLog) + 1)
      /\ turn = 0 => mainNext = Len(mainLog) + 1
  BY DEF TerminalInv, TerminalType, TurnType, WorldType, SourceInv
<1>3. turn # 0 /\ l \in 1..Len(mainLog) /\ mainNext \in Nat /\ l >= mainNext /\ l \in Nat BY <1>1, <1>2
<1>4. ~Restarts BY <1>3 DEF Restarts
<1>5. Len(mainLog) <= Len(mainLog') /\ mainLog'[l] = <<"settled", a>> BY <1>1, <1>3, <1>4, LogGrows DEF Extends
<1>6. Len(mainLog') \in Nat
  <2>1. mainLog' \in Seq(MEvent) BY WorldNext DEF WorldType
  <2> QED BY <2>1
<1>7. ASSUME mainNext' \in Nat, mainNext' <= l PROVE MainAhead(a)'
  <2>1. l \in mainNext'..Len(mainLog') BY <1>2, <1>3, <1>5, <1>6, <1>7
  <2> QED BY <1>5, <2>1 DEF MainAhead
<1>8. CASE runMainAgentTurn
  <2>1. mainNext' = mainNext + 1 BY <1>8 DEF runMainAgentTurn
  <2>2. CASE l = mainNext
    <3>1. PICK e \in MEvent : e = mainLog[mainNext] /\ \E p : Begins("input", p) /\ Handles(p, e)
      BY <1>8, MainBegins
    <3>2. e = <<"settled", a>> BY <1>1, <2>2, <3>1
    <3> QED BY <3>1, <3>2, Dropping, Actors
  <2>3. CASE l # mainNext
    <3>1. mainNext' \in Nat /\ mainNext' <= l BY <1>3, <2>1, <2>3
    <3> QED BY <1>7, <3>1
  <2> QED BY <2>2, <2>3
<1>9. CASE ~runMainAgentTurn
  <2>1. mainNext' = mainNext
    <3>1. CASE EndTurn BY <3>1 DEF EndTurn
    <3>2. CASE dequeueMainAgentPrompt \/ Prompt BY <1>4, <3>2, RunTurn DEF TerminalInv
    <3>3. CASE NewSession BY <3>3 DEF NewSession
    <3>4. ASSUME NEW x \in Actor, showMainAgentView(x) PROVE mainNext' = mainNext BY <3>4 DEF showMainAgentView
    <3> QED BY <1>9, <3>1, <3>2, <3>3, <3>4, Frames DEF Alone, TurnAlone
  <2> QED BY <1>3, <1>7, <2>1
<1> QED BY <1>8, <1>9

LEMMA FeedStays ==
  ASSUME TerminalInv, [Next]_vars, NEW a \in Approval, FeedAhead(a)
  PROVE  FeedAhead(a)' \/ (todo[Kind[a]] = <<>> /\ Works(<<"drop", a>>)')
<1> DEFINE k == Kind[a]
<1>1. k \in Kinds /\ <<"settled", a>> \in Items(feed[k]) BY TerminalAssumption DEF Kinds, FeedAhead
<1>2. feed[k] \in Seq(AEvent) BY <1>1 DEF TerminalInv, TerminalType, WorldType
<1>3. ASSUME feed'[k] = feed[k] PROVE FeedAhead(a)' BY <1>1, <1>3 DEF FeedAhead
<1>4. ASSUME NEW b \in Approval, NEW type \in {"requested", "settled"}, Announces(b, type) PROVE FeedAhead(a)'
  <2>1. feed'[k] = feed[k] \/ feed'[k] = Append(feed[k], <<type, b>>)
    <3> HIDE DEF k
    <3>0. (Owner[b] = Main => InMainLog(b, type)) /\ (Owner[b] # Main => InSubLog(b, type))
      BY <1>4, AnnouncedIn
    <3>1. CASE Owner[b] = Main BY <3>0, <3>1 DEF InMainLog
    <3>2. CASE Owner[b] # Main BY <1>1, <3>0, <3>2 DEF InSubLog
    <3> QED BY <3>1, <3>2
  <2>2. CASE feed'[k] = Append(feed[k], <<type, b>>)
    <3>1. PICK e : e = <<type, b>> OBVIOUS
    <3>2. e \in AEvent BY <3>1 DEF AEvent
    <3>3. Items(Append(feed[k], e)) = Items(feed[k]) \cup {e} BY <1>2, <3>2, ItemsAppend
    <3> QED BY <1>1, <2>2, <3>1, <3>3 DEF FeedAhead
  <2> QED BY <1>3, <2>1, <2>2
<1>5. ASSUME Texts \/ NewRun \/ interruptActiveView PROVE feed'[k] = feed[k]
  BY <1>5, Interrupt DEF Texts, NewRun
<1>6. ASSUME NEW j \in Kinds, Observed(j)
      PROVE  FeedAhead(a)' \/ (todo[Kind[a]] = <<>> /\ Works(<<"drop", a>>)')
  <2>1. feed \in [Kinds -> Seq(AEvent)] /\ feed' = [feed EXCEPT ![j] = Tail(feed[j])] /\ monitor(j) /\ feed[j] # <<>>
    BY <1>6 DEF TerminalInv, TerminalType, WorldType, Observed
  <2>2. CASE j # k BY <1>1, <1>3, <2>1, <2>2
  <2>3. CASE j = k
    <3>1. feed'[k] = Tail(feed[k]) /\ Items(feed[k]) = {Head(feed[k])} \cup Items(Tail(feed[k]))
      BY <1>1, <1>2, <2>1, <2>3, ItemsHead
    <3>2. CASE <<"settled", a>> \in Items(Tail(feed[k])) BY <3>1, <3>2 DEF FeedAhead
    <3>3. CASE Head(feed[k]) = <<"settled", a>>
      <4>1. PICK e \in AEvent : e = Head(feed[k]) /\ \E p : Begins(k, p) /\ (Handles(p, e) \/ (e[1] = "requested" /\ p = <<>>))
        BY <1>1, <2>1, <2>3, MonitorBegins
      <4>2. e = <<"settled", a>> /\ <<"settled", a>>[1] = "settled" BY <3>3, <4>1
      <4>3. PICK p : Begins(k, p) /\ Handles(p, <<"settled", a>>) BY <4>1, <4>2
      <4> QED BY <1>1, <4>3, Dropping, Actors
    <3> QED BY <1>1, <3>1, <3>2, <3>3
  <2> QED BY <2>2, <2>3
<1> QED BY <1>3, <1>4, <1>5, <1>6, WorldMoves

LEMMA ViewStays ==
  ASSUME TerminalInv, [Next]_vars, NEW a \in Approval, NEW r \in Viewer, ViewAhead(r, a)
  PROVE  ViewAhead(r, a)' \/ (todo[r] = <<>> /\ (Works(<<"drop", a>>)' \/ LeftView(a)'))
<1> DEFINE s == Owner[a]
<1>1. PICK l \in renderer[r].next..Len(subLog[s]) : subLog[s][l] = <<"settled", a>> BY DEF ViewAhead
<1>2. renderer[r].state = "live" /\ renderer[r].id = s BY DEF ViewAhead
<1>3. renderer \in [Viewer -> RendererType] /\ s \in Sub BY <1>2, RendererFacts
<1>4. renderer[r].next \in 1..(Len(subLog[s]) + 1) BY <1>2 DEF TerminalInv, SourceInv
<1>5. /\ Len(subLog[s]) \in Nat /\ Len(subLog'[s]) \in Nat /\ Len(subLog[s]) <= Len(subLog'[s])
      /\ \A i \in 1..Len(subLog[s]) : subLog'[s][i] = subLog[s][i]
  BY <1>3, SubGrows
<1>6. l \in 1..Len(subLog[s]) /\ l \in Nat /\ renderer[r].next \in Nat /\ renderer[r].next <= l BY <1>1, <1>4, <1>5
<1>7. l <= Len(subLog'[s]) /\ subLog'[s][l] = <<"settled", a>> BY <1>1, <1>5, <1>6
<1>8. ASSUME renderer'[r].state = "live", renderer'[r].id = s, renderer'[r].next \in Nat, renderer'[r].next <= l
      PROVE  ViewAhead(r, a)'
  <2>1. l \in renderer'[r].next..Len(subLog'[s]) BY <1>5, <1>6, <1>7, <1>8
  <2> QED BY <1>7, <1>8, <2>1 DEF ViewAhead
<1>9. CASE renderer'[r] = renderer[r] BY <1>2, <1>6, <1>8, <1>9
<1>10. CASE renderSubagentRun(r)
  <2>1. todo[r] = <<>> BY <1>10 DEF renderSubagentRun
  <2>2. ASSUME epoch # renderer[r].epoch \/ logView PROVE LeftView(a)'
    <3>1. LeftView(a) BY <1>2, <2>2 DEF LeftView
    <3> QED BY <3>1, LeftStays
  <2>3. ASSUME NEW e \in AEvent, e = subLog[s][renderer[r].next],
               renderer' = [renderer EXCEPT ![r].next = renderer[r].next + 1],
               ~InView(s) \/ \E p : Begins(r, p) /\ Handles(p, e)
        PROVE  ViewAhead(r, a)' \/ Works(<<"drop", a>>)' \/ LeftView(a)'
    <3>1. CASE l # renderer[r].next
      <4>1. renderer[r].next + 1 \in Nat /\ renderer[r].next + 1 <= l BY <1>6, <3>1
      <4>2. renderer[r] \in RendererType BY <1>3
      <4>3. renderer'[r] = [renderer[r] EXCEPT !.next = renderer[r].next + 1] BY <1>3, <2>3
      <4>4. renderer'[r].state = renderer[r].state /\ renderer'[r].id = renderer[r].id
            /\ renderer'[r].next = renderer[r].next + 1
        BY <4>2, <4>3 DEF RendererType
      <4> QED BY <1>2, <1>8, <4>1, <4>4
    <3>2. CASE l = renderer[r].next /\ ~InView(s)
      <4>1. renderer[r].epoch = epoch => renderer[r].id = view BY <1>2 DEF TerminalInv, ViewInv
      <4>2. epoch # renderer[r].epoch \/ logView BY <1>2, <3>2, <4>1 DEF InView
      <4> QED BY <2>2, <4>2
    <3>3. CASE l = renderer[r].next /\ \E p : Begins(r, p) /\ Handles(p, e)
      <4>1. e = <<"settled", a>> BY <1>1, <2>3, <3>3
      <4> QED BY <3>3, <4>1, Dropping, Actors
    <3> QED BY <2>3, <3>1, <3>2, <3>3
  <2>4. CASE epoch # renderer[r].epoch BY <2>1, <2>2, <2>4
  <2>5. CASE \E e \in AEvent :
                /\ e = subLog[s][renderer[r].next]
                /\ renderer' = [renderer EXCEPT ![r].next = renderer[r].next + 1]
                /\ ~InView(s) \/ \E p : Begins(r, p) /\ Handles(p, e)
    BY <2>1, <2>3, <2>5
  <2> QED BY <1>2, <1>10, <2>4, <2>5, ViewReads, SMTT(30)
<1> QED BY <1>2, <1>9, <1>10, LiveStays

LEMMA AheadStays ==
  ASSUME TerminalInv, [Next]_vars, NEW a \in Approval, NEW x \in Actor, Ahead(x, a)
  PROVE  Ahead(x, a)' \/ (todo[x] = <<>> /\ (Works(<<"drop", a>>)' \/ LeftView(a)'))
<1>1. CASE x = "input" /\ MainAhead(a) BY <1>1, MainStays DEF Ahead
<1>2. CASE x = Kind[a] /\ FeedAhead(a) BY <1>2, FeedStays DEF Ahead
<1>3. CASE x \in Viewer /\ ViewAhead(x, a) BY <1>3, ViewStays DEF Ahead
<1> QED BY <1>1, <1>2, <1>3 DEF Ahead

\* Whoever announced an approval that is settled now will read the settlement.
LEMMA SettledAhead ==
  ASSUME TerminalInv, [Next]_vars, NEW a \in Approval, truth[a] # "settled", truth'[a] = "settled"
  PROVE  \/ Owner[a] = Main /\ MainAhead(a)'
         \/ /\ Owner[a] \in Sub /\ Owner[a] # Main /\ FeedAhead(a)'
            /\ \A r \in Viewer : renderer[r].state = "live" /\ renderer[r].id = Owner[a] => ViewAhead(r, a)'
<1>1. mainLog \in Seq(MEvent) /\ Len(mainLog) \in Nat /\ mainNext \in 1..(Len(mainLog) + 1)
  BY DEF TerminalInv, TerminalType, TurnType, WorldType
<1>2. PICK e : e = <<"settled", a>> OBVIOUS
<1>3. e \in AEvent /\ e \in MEvent BY <1>2 DEF AEvent, MEvent
<1>4. CASE Announces(a, "settled")
  <2>1. UNCHANGED <<mainNext, renderer>> BY <1>4 DEF Announces, views, mainTurn
  <2>2. CASE Owner[a] = Main
    <3>1. mainLog' = Append(mainLog, e) BY <1>2, <1>4, <2>2, AnnouncedIn DEF InMainLog
    <3>2. Len(mainLog') = Len(mainLog) + 1 /\ mainLog'[Len(mainLog) + 1] = e BY <1>1, <1>3, <3>1, ItemsAppend
    <3>3. Len(mainLog) + 1 \in mainNext'..Len(mainLog') BY <1>1, <2>1, <3>2
    <3>4. MainAhead(a)' BY <1>2, <3>2, <3>3 DEF MainAhead
    <3> QED BY <2>2, <3>4
  <2>3. CASE Owner[a] # Main
    <3> DEFINE s == Owner[a]
    <3>1. /\ s \in Sub /\ Kind[a] \in Kinds /\ subLog'[s] = Append(subLog[s], e)
          /\ feed'[Kind[a]] = Append(feed[Kind[a]], e)
      BY <1>2, <1>4, <2>3, AnnouncedIn DEF InSubLog
    <3>2. subLog[s] \in Seq(AEvent) /\ feed[Kind[a]] \in Seq(AEvent) BY <3>1 DEF TerminalInv, TerminalType, WorldType
    <3>3. e \in Items(feed'[Kind[a]]) BY <1>3, <3>1, <3>2, ItemsAppend
    <3>4. FeedAhead(a)' BY <1>2, <3>3 DEF FeedAhead
    <3>5. Len(subLog[s]) \in Nat /\ Len(subLog'[s]) = Len(subLog[s]) + 1 /\ subLog'[s][Len(subLog[s]) + 1] = e
      BY <1>3, <3>1, <3>2, ItemsAppend
    <3>6. ASSUME NEW r \in Viewer, renderer[r].state = "live", renderer[r].id = s PROVE ViewAhead(r, a)'
      <4>1. renderer[r].next \in 1..(Len(subLog[s]) + 1) BY <3>6 DEF TerminalInv, SourceInv
      <4>2. Len(subLog[s]) + 1 \in renderer'[r].next..Len(subLog'[s]) BY <2>1, <3>5, <4>1
      <4> QED BY <1>2, <2>1, <3>5, <3>6, <4>2 DEF ViewAhead
    <3> QED BY <2>3, <3>1, <3>4, <3>6
  <2> QED BY <2>2, <2>3
<1>5. CASE interruptActiveView /\ a \in MainOpen
  <2>1. PICK q : q = SetToSeq(Cancelled) OBVIOUS
  <2>2. mainLog' = mainLog \o q /\ UNCHANGED mainNext BY <1>5, <2>1, Interrupt DEF mainTurn
  <2>3. q \in Seq(AEvent) /\ e \in Items(q) BY <1>2, <1>5, <2>1, Cancellation DEF Cancelled
  <2>4. PICK j \in 1..Len(q) : q[j] = e BY <2>3 DEF Items
  <2>5. q \in Seq(MEvent) /\ Len(q) \in Nat BY <2>3 DEF MEvent
  <2>6. Len(mainLog') = Len(mainLog) + Len(q) /\ mainLog'[Len(mainLog) + j] = q[j]
    BY <1>1, <2>2, <2>4, <2>5, ConcatProperties
  <2>7. Len(mainLog) + j \in mainNext'..Len(mainLog') BY <1>1, <2>2, <2>4, <2>5, <2>6
  <2>8. MainAhead(a)' BY <1>2, <2>4, <2>6, <2>7 DEF MainAhead
  <2> QED BY <1>5, <2>8 DEF MainOpen
<1> QED BY <1>4, <1>5, SettledNew

LEMMA AddAhead ==
  ASSUME TerminalInv, [Next]_vars, NEW x \in Actor, NEW e \in Work(x)', e[1] = "add", truth'[e[2]] = "settled"
  PROVE  Ahead(x, e[2])'
<1>1. PICK a : a = e[2] OBVIOUS
<1>2. a \in Approval
  <2>1. todo' \in [Actor -> Seq(Step)] BY Lists
  <2>2. todo'[x] \in Seq(Step) /\ e \in Items(todo'[x]) BY <2>1 DEF Work
  <2>3. e \in Step BY <2>2, ItemsOf
  <2> QED BY <1>1, <2>3, StepKind
<1>3. CASE e \in Work(x)
  <2>1. todo[x] # <<>> BY <1>3, IdleWork, SMTT(20)
  <2>2. CASE truth[a] = "settled"
    <3>1. Ahead(x, a) BY <1>1, <1>3, <2>2 DEF TerminalInv, SettleInv
    <3>2. Ahead(x, a)' BY <1>2, <2>1, <3>1, AheadStays
    <3> QED BY <1>1, <3>2 DEF Ahead, MainAhead, FeedAhead, ViewAhead
  <2>3. CASE truth[a] # "settled"
    <3>1. \/ x = "input" /\ Owner[a] = Main
          \/ x = Kind[a] /\ Owner[a] \in Sub
          \/ x \in Viewer /\ renderer[x].state = "live" /\ renderer[x].id = Owner[a]
      BY <1>1, <1>3 DEF TerminalInv, SourceInv
    <3>2. x \in Viewer /\ renderer[x].state = "live" => renderer[x].id # Main BY RendererFacts
    <3>3. Main \notin Sub BY TerminalAssumption
    <3>4. Ahead(x, a)' BY <1>1, <1>2, <2>3, <3>1, <3>2, <3>3, SettledAhead DEF Ahead
    <3> QED BY <1>1, <3>4 DEF Ahead, MainAhead, FeedAhead, ViewAhead
  <2> QED BY <2>2, <2>3
<1>4. CASE /\ x = "input" /\ runMainAgentTurn /\ mainNext \in 1..Len(mainLog) /\ mainLog[mainNext] = <<"requested", a>>
  <2>1. UNCHANGED <<truth, mainLog>> /\ mainNext' = mainNext + 1 BY <1>4 DEF runMainAgentTurn, world
  <2>2. truth[a] = "settled" BY <1>1, <2>1
  <2>3. SortedBy(truth, mainLog) BY DEF TerminalInv, SourceInv, Sorted
  <2>4. \E l \in (mainNext + 1)..Len(mainLog) : mainLog[l] = <<"settled", a>>
    <3>1. mainLog[mainNext][1] = "requested" /\ mainLog[mainNext][2] = a BY <1>4
    <3> QED BY <1>4, <2>2, <2>3, <3>1 DEF SortedBy
  <2>5. MainAhead(a)' BY <2>1, <2>4 DEF MainAhead
  <2> QED BY <1>1, <1>4, <2>5 DEF Ahead, MainAhead
<1>5. CASE /\ x \in Kinds /\ monitor(x) /\ Kind[a] = x /\ feed[x] # <<>> /\ Head(feed[x]) = <<"requested", a>>
  <2>1. feed \in [Kinds -> Seq(AEvent)] /\ UNCHANGED truth /\ feed' = [feed EXCEPT ![x] = Tail(feed[x])]
    BY <1>5 DEF monitor, TerminalInv, TerminalType, WorldType
  <2>2. truth[a] = "settled" BY <1>1, <2>1
  <2>3. SortedBy(truth, feed[x]) BY <1>5 DEF TerminalInv, SourceInv, Sorted
  <2>4. feed[x] \in Seq(AEvent) /\ <<"requested", a>>[1] = "requested" /\ <<"requested", a>>[2] = a BY <1>5, <2>1
  <2>5. <<"settled", a>> \in Items(Tail(feed[x])) BY <1>5, <2>2, <2>3, <2>4, SortedTail
  <2>6. feed'[x] = Tail(feed[x]) BY <1>5, <2>1
  <2>7. <<"settled", a>> \in Items(feed'[Kind[a]]) BY <1>5, <2>5, <2>6
  <2> QED BY <1>1, <1>5, <2>7 DEF Ahead, FeedAhead
<1>6. CASE /\ x \in Viewer /\ renderSubagentRun(x) /\ renderer[x].id = Owner[a] /\ Owner[a] \in Sub
           /\ renderer[x].next \in 1..Len(subLog[Owner[a]])
           /\ subLog[Owner[a]][renderer[x].next] = <<"requested", a>>
           /\ renderer' = [renderer EXCEPT ![x].next = renderer[x].next + 1]
  <2> DEFINE s == Owner[a]
  <2>1. UNCHANGED <<truth, subLog>> /\ renderer[x].state = "live" BY <1>6 DEF renderSubagentRun, world
  <2>2. truth[a] = "settled" BY <1>1, <2>1
  <2>3. SortedBy(truth, subLog[s]) BY <1>6 DEF TerminalInv, SourceInv, Sorted
  <2>4. \E l \in (renderer[x].next + 1)..Len(subLog[s]) : subLog[s][l] = <<"settled", a>>
    <3>1. subLog[s][renderer[x].next][1] = "requested" /\ subLog[s][renderer[x].next][2] = a BY <1>6
    <3> QED BY <1>6, <2>2, <2>3, <3>1 DEF SortedBy
  <2>5. renderer \in [Viewer -> RendererType] /\ renderer[x] \in RendererType BY <1>6, RendererFacts
  <2>6. renderer'[x] = [renderer[x] EXCEPT !.next = renderer[x].next + 1] BY <1>6, <2>5
  <2>7. renderer'[x].state = "live" /\ renderer'[x].id = s /\ renderer'[x].next = renderer[x].next + 1
    BY <1>6, <2>1, <2>5, <2>6 DEF RendererType
  <2>8. ViewAhead(x, a)' BY <2>1, <2>4, <2>7 DEF ViewAhead
  <2> QED BY <1>1, <1>6, <2>8 DEF Ahead, ViewAhead
<1> QED BY <1>1, <1>3, <1>4, <1>5, <1>6, AddsFrom

\* A settled approval in the queue will be dropped, unless its view was left.
LEMMA LeavesNext ==
  ASSUME TerminalInv, [Next]_vars, NEW a \in pending', truth'[a] = "settled"
  PROVE  Works(<<"drop", a>>)' \/ (\E x \in Actor : Ahead(x, a)') \/ LeftView(a)'
<1>1. a \in Approval BY ClientNext DEF ClientType
<1>2. CASE a \in pending /\ truth[a] = "settled"
  <2>1. CASE Works(<<"drop", a>>)
    <3>1. PICK e : e = <<"drop", a>> OBVIOUS
    <3>2. PICK y \in Actor : e \in Work(y) BY <2>1, <3>1 DEF Works
    <3>3. e \in Work(y)'
      <4>1. CASE NonStep BY <3>2, <4>1, Remains
      <4>2. ASSUME NEW x \in Actor, StepOf(x) PROVE e \in Work(y)'
        <5>1. e # Do(x)
          <6>1. ASSUME e = Do(x) PROVE FALSE
            <7>1. Do(x)[1] = "drop" /\ Do(x)[2] = a BY <3>1, <6>1
            <7>2. dropPending(x) BY <4>2, <7>1, StepIs
            <7> QED BY <7>1, <7>2 DEF dropPending
          <6> QED BY <6>1
        <5> QED BY <3>2, <4>2, <5>1, Remains
      <4> QED BY <4>1, <4>2, NextSplit
    <3> QED BY <3>1, <3>3 DEF Works
  <2>2. CASE \E x \in Actor : Ahead(x, a) BY <1>1, <2>2, AheadStays
  <2>3. CASE LeftView(a) BY <1>1, <2>3, LeftStays
  <2> QED BY <1>2, <2>1, <2>2, <2>3 DEF TerminalInv, SettleInv
<1>3. CASE truth[a] # "settled"
  <2>1. Kind[a] \in Actor BY <1>1, TerminalAssumption, Actors DEF Kinds
  <2>2. Ahead("input", a)' \/ Ahead(Kind[a], a)' BY <1>1, <1>3, SettledAhead DEF Ahead
  <2> QED BY <2>1, <2>2, Actors
<1>4. CASE a \notin pending /\ truth[a] = "settled"
  <2>1. ~NonStep BY <1>4, NonStepQueue DEF approvals
  <2>2. PICK x \in Actor : StepOf(x) BY <2>1, NextSplit
  <2>3. addPending(x)
    <3>1. Queues(x) BY <1>4, <2>2, QueuesAlone DEF approvals
    <3> QED BY <1>4, <3>1 DEF Queues, appendApproval, dropPending, markApprovalComplete, activateNextApproval
  <2>4. todo[x] # <<>> /\ Do(x)[1] = "add" /\ a = Do(x)[2] BY <1>4, <2>3 DEF addPending, At
  <2>5. Do(x) \in Work(x) BY <2>4, StepFacts DEF TerminalInv
  <2>6. Ahead(x, a) BY <1>4, <2>4, <2>5 DEF TerminalInv, SettleInv
  <2> QED BY <1>1, <2>4, <2>6, AheadStays
<1> QED BY <1>2, <1>3, <1>4

LEMMA SettleNext ==
  ASSUME TerminalInv, [Next]_vars
  PROVE  SettleInv'
  BY AddAhead, LeavesNext DEF SettleInv

(* The theorems. *)

LEMMA InitTerminal == Init => TerminalInv
<1> SUFFICES ASSUME Init PROVE TerminalInv OBVIOUS
<1>1. \A x \in Actor : todo[x] = <<>> /\ Work(x) = {}
  <2>1. \A x \in Actor : todo[x] = <<>> BY DEF Init
  <2> QED BY <2>1, IdleWork
<1>2. /\ Items(mainLog) = {} /\ Items(approvalOrder) = {} /\ mainLog = <<>> /\ Len(mainLog) = 0
      /\ \A s \in Sub : subLog[s] = <<>> /\ Items(subLog[s]) = {}
      /\ \A k \in Kinds : feed[k] = <<>> /\ Items(feed[k]) = {}
  BY ItemsEmpty DEF Init
<1>3. WorldType BY DEF Init, WorldType
<1>4. ClientType
  <2>1. pending \subseteq Approval /\ approvalOrder \in Seq(Approval) /\ activeApproval \in Approval \cup {None}
    BY DEF Init
  <2>2. renderMu \in Actor \cup {None} /\ todo \in [Actor -> Seq(Step)] BY DEF Init
  <2>3. view \in Sub \cup {Main} /\ epoch \in Nat /\ logView \in BOOLEAN BY DEF Init
  <2>4. renderer \in [Viewer -> RendererType] BY DEF Init, RendererType
  <2>5. \A r \in Viewer : renderer[r].state = "none" /\ renderer[r].id = None BY DEF Init
  <2> QED BY <2>1, <2>2, <2>3, <2>4, <2>5 DEF ClientType
<1>5. TurnType
  <2>1. typed = 0 /\ turn = 0 /\ promptQueue = <<>> /\ mainNext = 1 /\ replayThrough = 0 /\ hasRun = FALSE
    BY DEF Init
  <2>2. shown = None /\ drawn = <<>> /\ wiped = FALSE BY DEF Init
  <2>3. typed \in Nat /\ turn \in 0..typed /\ mainNext \in 1..(Len(mainLog) + 1) /\ replayThrough \in Nat BY <1>2, <2>1
  <2>4. promptQueue \in Seq(1..typed) /\ drawn \in Seq(Nat) BY <2>1, <2>2
  <2>5. hasRun \in BOOLEAN /\ wiped \in BOOLEAN /\ shown \in Approval \cup {None} BY <2>1, <2>2
  <2> QED BY <2>3, <2>4, <2>5 DEF TurnType
<1>6. LogType BY DEF Init, LogType
<1>7. ListInv BY <1>1, ListOf DEF ListInv
<1>8. EventInv BY <1>2 DEF EventInv
<1>9. QueueInv
  <2>1. pending = {} BY DEF Init
  <2> QED BY <1>1, <2>1 DEF QueueInv
<1>10. ViewInv
  <2>1. \A r \in Viewer : renderer[r].state = "none" BY DEF Init
  <2> QED BY <1>1, <2>1 DEF ViewInv
<1>11. PromptInv BY DEF Init, PromptInv
<1>12. MainInv BY DEF Init, MainInv
<1>13. LogInv
  <2>1. nextSequence = 0 /\ updates = <<>> /\ logSequence = 0 /\ logView = FALSE /\ Len(updates) = 0 BY DEF Init
  <2>2. UpdateLimit \in Nat \ {0} BY TerminalAssumption
  <2> QED BY <2>1, <2>2 DEF LogInv
<1>14. SourceInv
  <2>1. /\ Sorted(mainLog) /\ (\A s \in Sub : Sorted(subLog[s])) /\ (\A k \in Kinds : Sorted(feed[k]))
    <3>1. Sorted(<<>>) BY DEF Sorted, SortedBy
    <3> QED BY <1>2, <3>1
  <2>2. \A r \in Viewer : renderer[r].state = "none" BY DEF Init
  <2>3. \A a \in Approval : truth[a] = "new" BY DEF Init
  <2>4. mainNext = Len(mainLog) + 1 BY <1>2 DEF Init
  <2> QED BY <1>1, <2>1, <2>2, <2>3, <2>4 DEF SourceInv
<1>15. SettleInv
  <2>1. pending = {} BY DEF Init
  <2> QED BY <1>1, <2>1 DEF SettleInv
<1> QED BY <1>3, <1>4, <1>5, <1>6, <1>7, <1>8, <1>9, <1>10, <1>11, <1>12, <1>13, <1>14, <1>15
        DEF TerminalInv, TerminalType

LEMMA StepTerminal == TerminalInv /\ [Next]_vars => TerminalInv'
<1> SUFFICES ASSUME TerminalInv, [Next]_vars PROVE TerminalInv' OBVIOUS
<1>1. WorldType' /\ EventInv' BY WorldNext
<1>2. ClientType' BY ClientNext
<1>3. TurnType' BY TurnNext
<1>4. LogType' /\ LogInv' BY LogNext
<1>5. ListInv' BY Lists
<1>6. QueueInv' BY QueueNext
<1>7. ViewInv' BY ViewNext
<1>8. PromptInv' BY PromptNext
<1>9. MainInv' BY MainNext
<1>10. SourceInv' BY SourceNext
<1>11. SettleInv' BY SettleNext
<1> QED BY <1>1, <1>2, <1>3, <1>4, <1>5, <1>6, <1>7, <1>8, <1>9, <1>10, <1>11 DEF TerminalInv, TerminalType

\* The inductive invariant of the terminal client.
THEOREM TerminalInvariant == Spec => []TerminalInv
<1>1. Init => TerminalInv BY InitTerminal
<1>2. TerminalInv /\ [Next]_vars => TerminalInv' BY StepTerminal
<1> QED BY <1>1, <1>2, PTL DEF Spec

\* The state of the client and of its goroutines has its type.
THEOREM TerminalTypeCorrect == Spec => []TypeOK
<1>1. TerminalInv => TypeOK
  <2> SUFFICES ASSUME TerminalInv PROVE TypeOK OBVIOUS
  <2>1. ClientType /\ TurnType /\ LogInv BY DEF TerminalInv, TerminalType
  <2>2. approvalOrder \in Seq(Approval) BY <2>1 DEF ClientType
  <2>3. \A i \in DOMAIN approvalOrder : approvalOrder[i] \in Approval BY <2>2
  <2>4. /\ pending \subseteq Approval /\ activeApproval \in Approval \cup {None}
        /\ renderMu \in Actor \cup {None} /\ view \in Sub \cup {Main}
    BY <2>1 DEF ClientType
  <2>5. shown \in Approval \cup {None} /\ turn \in 0..typed /\ mainNext \in 1..(Len(mainLog) + 1)
    BY <2>1 DEF TurnType
  <2>6. Len(updates) <= UpdateLimit /\ logSequence <= nextSequence BY <2>1 DEF LogInv
  <2> QED BY <2>3, <2>4, <2>5, <2>6 DEF TypeOK
<1> QED BY <1>1, TerminalInvariant, PTL

\* However the goroutines that announce, complete and draw approvals
\* interleave, no open approval drops out of the queue.
THEOREM TerminalQueueAdvances == Spec => []QueueAdvances
<1>1. TerminalInv => QueueAdvances
  <2> SUFFICES ASSUME TerminalInv, Idle, NEW a \in pending, truth[a] = "open"
               PROVE  activeApproval # None /\ (a = activeApproval \/ Contains(approvalOrder, a))
    BY DEF QueueAdvances
  <2>1. \A x \in Actor : Work(x) = {} BY IdleWork DEF Idle
  <2>2. ~Activating /\ ~Works(<<"append", a>>) BY <2>1 DEF Activating, Works
  <2>3. a \in Approval BY DEF TerminalInv, TerminalType, ClientType
  <2>4. /\ a = activeApproval \/ a \in Items(approvalOrder) \/ Works(<<"append", a>>)
        /\ activeApproval = None /\ a \in Items(approvalOrder) => Activating
    BY DEF TerminalInv, QueueInv
  <2>5. a \in Items(approvalOrder) => Contains(approvalOrder, a) BY DEF Items, Contains
  <2>6. a # None BY <2>3, TerminalAssumption
  <2> QED BY <2>2, <2>4, <2>5, <2>6
<1> QED BY <1>1, TerminalInvariant, PTL

\* An active approval is on the screen, or what draws it is still to come,
\* whoever changed the view while it became active.
THEOREM TerminalPromptVisible == Spec => []PromptVisible
<1>1. TerminalInv => PromptVisible
  <2> SUFFICES ASSUME TerminalInv, Idle, activeApproval # None, ~logView, ~wiped,
                      \A r \in Viewer : renderer[r].state \in {"none", "live", "over"}
               PROVE  shown # None
    BY DEF PromptVisible
  <2>1. \A x \in Actor : Work(x) = {} BY IdleWork DEF Idle
  <2>2. ~Works(<<"mark", activeApproval>>) BY <2>1 DEF Works
  <2>3. ~Drawing BY <2>1 DEF Drawing
  <2> QED BY <2>2, <2>3 DEF TerminalInv, PromptInv
<1> QED BY <1>1, TerminalInvariant, PTL

\* The main view shows each event of the run once and in order, and the log
\* view the newest records, although its channel drops some.
THEOREM TerminalScreenExact == Spec => []ScreenExact
<1>1. TerminalInv => MainView
  <2> SUFFICES ASSUME TerminalInv, InView(Main), hasRun, ~wiped, todo["input"] = <<>>
               PROVE  drawn = [i \in 1..Len(drawn) |-> i] /\ Len(drawn) >= mainNext - 1
    BY DEF MainView
  <2>1. Work("input") = {} BY IdleWork, Actors
  <2>2. Len(drawn) = Highest(replayThrough, mainNext - 1) /\ \A i \in 1..Len(drawn) : drawn[i] = i
    BY <2>1 DEF TerminalInv, MainInv
  <2>3. drawn \in Seq(Nat) /\ mainNext \in 1..(Len(mainLog) + 1) /\ replayThrough \in Nat
    BY DEF TerminalInv, TerminalType, TurnType
  <2>4. mainLog \in Seq(MEvent) BY DEF TerminalInv, TerminalType, WorldType
  <2>5. mainNext - 1 \in Nat BY <2>3, <2>4
  <2>6. Len(drawn) >= mainNext - 1 BY <2>2, <2>3, <2>5 DEF Highest
  <2>7. drawn = [i \in 1..Len(drawn) |-> drawn[i]] BY <2>3
  <2>8. drawn = [i \in 1..Len(drawn) |-> i] BY <2>2, <2>7
  <2> QED BY <2>6, <2>8
<1>2. TerminalInv => LogView
  <2> SUFFICES ASSUME TerminalInv, logView, updates = <<>>
               PROVE  /\ logScreen = [i \in 1..Len(logScreen) |-> nextSequence - Len(logScreen) + i]
                      /\ Len(logScreen) >= Len(snapshot)
    BY DEF LogView
  <2>1. logSequence = nextSequence BY DEF TerminalInv, LogInv
  <2>2. /\ Len(logScreen) >= Len(Newest(nextSequence))
        /\ \A i \in 1..Len(logScreen) : logScreen[i] = nextSequence - Len(logScreen) + i
    BY <2>1 DEF TerminalInv, LogInv
  <2>3. logScreen \in Seq(Nat) BY DEF TerminalInv, TerminalType, LogType
  <2>4. logScreen = [i \in 1..Len(logScreen) |-> logScreen[i]] BY <2>3
  <2>5. logScreen = [i \in 1..Len(logScreen) |-> nextSequence - Len(logScreen) + i] BY <2>2, <2>4
  <2> QED BY <2>2, <2>5 DEF snapshot
<1>3. TerminalInv => ScreenExact BY <1>1, <1>2 DEF ScreenExact
<1> QED BY <1>3, TerminalInvariant, PTL

\* Once everything sent to the goroutines is handled, a settled approval is
\* neither pending nor active, unless a view that announced it late was left.
THEOREM TerminalSettledLeaves == Spec => []SettledLeaves
<1>1. TerminalInv => SettledLeaves
  <2> SUFFICES ASSUME TerminalInv, Quiescent, NEW a \in Approval, truth[a] = "settled"
               PROVE  (a \notin pending /\ activeApproval # a) \/ LeftView(a)
    BY DEF SettledLeaves
  <2>1. \A x \in Actor : Work(x) = {} BY IdleWork DEF Quiescent, Idle
  <2>2. ASSUME a \in pending PROVE LeftView(a)
    <3>1. ~Works(<<"drop", a>>) BY <2>1 DEF Works
    <3>2. ~MainAhead(a)
      <4>1. mainLog \in Seq(MEvent) /\ mainNext \in 1..(Len(mainLog) + 1) /\ (turn = 0 => mainNext = Len(mainLog) + 1)
        BY DEF TerminalInv, TerminalType, TurnType, WorldType, SourceInv
      <4>2. mainNext > Len(mainLog) BY <4>1 DEF Quiescent
      <4>3. mainNext..Len(mainLog) = {} BY <4>1, <4>2
      <4> QED BY <4>3 DEF MainAhead
    <3>3. ~FeedAhead(a)
      <4>1. Kind[a] \in Kinds BY TerminalAssumption DEF Kinds
      <4>2. Items(feed[Kind[a]]) = {} BY <4>1, ItemsEmpty DEF Quiescent
      <4> QED BY <4>2 DEF FeedAhead
    <3>4. ASSUME NEW r \in Viewer, ViewAhead(r, a) PROVE FALSE
      <4> DEFINE s == Owner[a]
      <4>1. renderer[r].state = "live" /\ renderer[r].id = s BY <3>4 DEF ViewAhead
      <4>2. s \in Sub /\ renderer[r].next \in Nat BY <4>1, RendererFacts
      <4>3. subLog[s] \in Seq(AEvent) BY <4>2 DEF TerminalInv, TerminalType, WorldType
      <4>4. renderer[r].next > Len(subLog[s]) BY <4>1 DEF Quiescent
      <4>5. renderer[r].next..Len(subLog[s]) = {} BY <4>2, <4>3, <4>4
      <4> QED BY <3>4, <4>5 DEF ViewAhead
    <3>5. Works(<<"drop", a>>) \/ (\E x \in Actor : Ahead(x, a)) \/ LeftView(a)
      BY <2>2 DEF TerminalInv, SettleInv
    <3> QED BY <3>1, <3>2, <3>3, <3>4, <3>5 DEF Ahead
  <2>3. ASSUME activeApproval = a PROVE a \in pending
    <3>1. a # None BY TerminalAssumption
    <3>2. ~Works(<<"mark", a>>) BY <2>1 DEF Works
    <3> QED BY <2>3, <3>1, <3>2 DEF TerminalInv, PromptInv
  <2> QED BY <2>2, <2>3
<1> QED BY <1>1, TerminalInvariant, PTL
=============================================================================
