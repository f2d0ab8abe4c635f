-------------------------- MODULE ModelCallProofs --------------------------
(***************************************************************************)
(* What holds of a streamed model call and of the prompt guard that reads  *)
(* it, for any scripts of chunks, any watchers and channels of any size.   *)
(*                                                                         *)
(* The operators of sequences come first: a concatenation is what its      *)
(* defining equations say, by a least counterexample, and a subscription   *)
(* is one row: read, in the channel, in hand, queued.  Then the inductive  *)
(* invariant, what the steps of a subscription and of the publisher do to  *)
(* it, one lemma for each action, the verdict, and the theorems.           *)
(*                                                                         *)
(* The second half is about what a stream hands over: what a history puts  *)
(* together is what its events give, in a row; the events of a chunk give  *)
(* what the chunk says; the completions of the pending calls are in the    *)
(* order of their indexes; and while the consumer is at work, what is      *)
(* published and what it has in hand tell the chunks received.             *)
(***************************************************************************)
EXTENDS ModelCall, SequenceTheorems, FiniteSetTheorems, WellFoundedInduction, TLAPS

Less == OpToRel(<, Nat)

\* A set of numbers that is not empty has a least element.
LEMMA NatMin ==
  ASSUME NEW S \in SUBSET Nat, S # {}
  PROVE  \E n \in S : \A m \in S : n <= m
<1>1. IsWellFoundedOn(Less, Nat)
  <2>1. IsWellFoundedOn(OpToRel(<, Nat), Nat) BY NatLessThanWellFounded, Zenon
  <2> QED BY <2>1, Zenon DEF Less
<1>2. PICK n \in S : \A m \in S : ~(<<m, n>> \in Less) BY <1>1, WFMin
<1>3. \A m \in S : n <= m
  <2> SUFFICES ASSUME NEW m \in S, m < n PROVE FALSE OBVIOUS
  <2>1. <<m, n>> \in Less BY DEF Less, OpToRel
  <2> QED BY <1>2, <2>1
<1> QED BY <1>3

\* f holds the concatenations of the first sequences of s, up to n of them.
Follows(s, n, f) == \A i \in 1..n : f[i] = IF i = 1 THEN s[i] ELSE f[i - 1] \o s[i]
Partial(T, s, n, f) == f \in [1..n -> Seq(T)] /\ Follows(s, n, f)

\* Of no sequences, there is one.
LEMMA PartialZero == ASSUME NEW T, NEW s PROVE \E f : Partial(T, s, 0, f)
<1> DEFINE f == [i \in 1..0 |-> <<>>]
<1>1. 1..0 = {} OBVIOUS
<1>2. Partial(T, s, 0, f) BY <1>1 DEF Partial, Follows
<1> QED BY <1>2

\* Of one more, there is one if there is one of those before.
LEMMA PartialNext ==
  ASSUME NEW T, NEW s \in Seq(Seq(T)), NEW n \in Nat, n + 1 <= Len(s), NEW f, Partial(T, s, n, f)
  PROVE  \E g : Partial(T, s, n + 1, g)
<1> DEFINE m == n + 1
           last == IF m = 1 THEN s[1] ELSE f[n] \o s[m]
           g == [i \in 1..m |-> IF i = m THEN last ELSE f[i]]
<1>1. m \in 1..Len(s) /\ 1 \in 1..Len(s) OBVIOUS
<1>2. s[m] \in Seq(T) /\ s[1] \in Seq(T) BY <1>1
<1>3. last \in Seq(T)
  <2>1. CASE m = 1 BY <1>2, <2>1
  <2>2. CASE m # 1
    <3>1. n \in 1..n BY <2>2
    <3>2. f[n] \in Seq(T) BY <3>1 DEF Partial
    <3>3. f[n] \o s[m] \in Seq(T) BY <1>2, <3>2, ConcatProperties
    <3> QED BY <2>2, <3>3
  <2> QED BY <2>1, <2>2
<1>4. \A i \in 1..m : i # m => i \in 1..n OBVIOUS
<1>5. \A i \in 1..n : f[i] \in Seq(T) BY DEF Partial
<1>6. g \in [1..m -> Seq(T)]
  <2> HIDE DEF last
  <2> QED BY <1>3, <1>4, <1>5
<1>7. ASSUME NEW i \in 1..m PROVE g[i] = IF i = 1 THEN s[i] ELSE g[i - 1] \o s[i]
  <2>1. CASE i = m
    <3>1. g[i] = last BY <2>1
    <3>2. m # 1 => n \in 1..m /\ n # m /\ i - 1 = n BY <2>1
    <3>3. m # 1 => g[i - 1] = f[n] BY <3>2
    <3> QED BY <2>1, <3>1, <3>3
  <2>2. CASE i # m
    <3>1. i \in 1..n BY <1>4, <2>2
    <3>2. g[i] = f[i] BY <2>2
    <3>3. f[i] = IF i = 1 THEN s[i] ELSE f[i - 1] \o s[i] BY <3>1 DEF Partial, Follows
    <3>4. i # 1 => i - 1 \in 1..m /\ i - 1 # m BY <3>1
    <3>5. i # 1 => g[i - 1] = f[i - 1] BY <3>4
    <3> QED BY <3>2, <3>3, <3>5
  <2> QED BY <2>1, <2>2
<1>8. Partial(T, s, m, g) BY <1>6, <1>7 DEF Partial, Follows
<1> QED BY <1>8

\* So there is one of any number.
LEMMA PartialExists ==
  ASSUME NEW T, NEW s \in Seq(Seq(T))
  PROVE  \E f : Partial(T, s, Len(s), f)
<1> SUFFICES ASSUME ~ \E f : Partial(T, s, Len(s), f) PROVE FALSE OBVIOUS
<1> DEFINE S == {k \in Nat : k <= Len(s) /\ ~ \E f : Partial(T, s, k, f)}
<1>1. Len(s) \in S OBVIOUS
<1>2. S \in SUBSET Nat OBVIOUS
<1>3. PICK n \in S : \A m \in S : n <= m
  <2> HIDE DEF S
  <2> QED BY <1>1, <1>2, NatMin
<1>4. n \in Nat /\ n <= Len(s) /\ ~ \E f : Partial(T, s, n, f) OBVIOUS
<1>5. n # 0 BY <1>4, PartialZero
<1>6. n - 1 \in Nat /\ (n - 1) + 1 = n /\ ~(n <= n - 1) BY <1>4, <1>5
<1>7. n - 1 \notin S BY <1>3, <1>6
<1>8. \E f : Partial(T, s, n - 1, f) BY <1>4, <1>6, <1>7
<1>9. PICK f : Partial(T, s, n - 1, f) BY <1>8
<1>10. \E g : Partial(T, s, (n - 1) + 1, g) BY <1>4, <1>6, <1>9, PartialNext
<1> QED BY <1>4, <1>6, <1>10

\* There is only one such function.
LEMMA PartialUnique ==
  ASSUME NEW n \in Nat, NEW s, NEW t, NEW f, NEW g, \A i \in 1..n : s[i] = t[i],
         Follows(s, n, f), Follows(t, n, g)
  PROVE  \A i \in 1..n : f[i] = g[i]
<1> SUFFICES ASSUME NEW k \in 1..n, f[k] # g[k] PROVE FALSE OBVIOUS
<1> DEFINE S == {i \in 1..n : f[i] # g[i]}
<1>1. S \in SUBSET Nat /\ k \in S OBVIOUS
<1>2. PICK m \in S : \A i \in S : m <= i
  <2> HIDE DEF S
  <2> QED BY <1>1, NatMin
<1>3. m \in 1..n /\ f[m] # g[m] OBVIOUS
<1>4. f[m] = (IF m = 1 THEN s[m] ELSE f[m - 1] \o s[m]) BY <1>3 DEF Follows
<1>5. g[m] = (IF m = 1 THEN t[m] ELSE g[m - 1] \o t[m]) BY <1>3 DEF Follows
<1>6. s[m] = t[m] BY <1>3
<1>7. m # 1 => m - 1 \in 1..n /\ ~(m <= m - 1) BY <1>3
<1>8. m # 1 => f[m - 1] = g[m - 1] BY <1>2, <1>7
<1> QED BY <1>3, <1>4, <1>5, <1>6, <1>8

\* FlattenSeq is the last of them.
LEMMA FlattenIs ==
  ASSUME NEW T, NEW s \in Seq(Seq(T)), Len(s) # 0, NEW f, Partial(T, s, Len(s), f)
  PROVE  FlattenSeq(s) = f[Len(s)]
<1> DEFINE P(x) == x = [i \in 1..Len(s) |-> IF i = 1 THEN s[i] ELSE x[i - 1] \o s[i]]
           h == CHOOSE x : P(x)
<1>1. P(f)
  <2>1. f = [i \in 1..Len(s) |-> f[i]] BY DEF Partial
  <2>2. Follows(s, Len(s), f) BY DEF Partial
  <2>3. \A i \in 1..Len(s) : f[i] = IF i = 1 THEN s[i] ELSE f[i - 1] \o s[i] BY <2>2, Zenon DEF Follows
  <2> QED BY <2>1, <2>3
<1>2. P(h)
  <2> HIDE DEF P
  <2> QED BY <1>1, Zenon
<1>3. FlattenSeq(s) = h[Len(s)] BY DEF FlattenSeq
<1>4. Follows(s, Len(s), h)
  <2> HIDE DEF h
  <2> QED BY <1>2 DEF Follows
<1>5. \A i \in 1..Len(s) : f[i] = h[i]
  <2> HIDE DEF h
  <2>1. Follows(s, Len(s), f) BY DEF Partial
  <2>2. Len(s) \in Nat OBVIOUS
  <2> QED BY <1>4, <2>1, <2>2, PartialUnique
<1>6. Len(s) \in 1..Len(s) OBVIOUS
<1> QED BY <1>3, <1>5, <1>6

\* What FlattenSeq gives for every sequence of sequences.
LEMMA FlattenType ==
  ASSUME NEW T, NEW s \in Seq(Seq(T))
  PROVE  FlattenSeq(s) \in Seq(T) /\ FlattenSeq(<<>>) = <<>>
<1>1. FlattenSeq(<<>>) = <<>> BY DEF FlattenSeq
<1>2. CASE s = <<>>
  <2>1. <<>> \in Seq(T) BY EmptySeq
  <2>2. FlattenSeq(s) = <<>> BY <1>1, <1>2, Zenon
  <2> QED BY <1>1, <2>1, <2>2, Zenon
<1>3. CASE s # <<>>
  <2>1. Len(s) # 0 /\ Len(s) \in 1..Len(s) BY <1>3, EmptySeq
  <2>2. PICK f : Partial(T, s, Len(s), f) BY PartialExists
  <2>3. FlattenSeq(s) = f[Len(s)] BY <2>1, <2>2, FlattenIs
  <2>4. f[Len(s)] \in Seq(T) BY <2>1, <2>2 DEF Partial
  <2> QED BY <1>1, <2>3, <2>4
<1> QED BY <1>2, <1>3

\* A concatenation goes on with the sequence that is appended.
LEMMA FlattenAppend ==
  ASSUME NEW T, NEW s \in Seq(Seq(T)), NEW x \in Seq(T)
  PROVE  FlattenSeq(Append(s, x)) = FlattenSeq(s) \o x
<1> DEFINE t == Append(s, x)
           n == Len(s)
<1>1. n \in Nat /\ t \in Seq(Seq(T)) /\ Len(t) = n + 1 OBVIOUS
<1>2. (\A i \in 1..n : t[i] = s[i]) /\ t[n + 1] = x OBVIOUS
<1>3. PICK g : Partial(T, t, Len(t), g) BY <1>1, PartialExists
<1>4. FlattenSeq(t) = g[n + 1]
  <2> HIDE DEF t
  <2>1. Len(t) # 0 BY <1>1
  <2>2. FlattenSeq(t) = g[Len(t)] BY <1>1, <1>3, <2>1, FlattenIs
  <2> QED BY <1>1, <2>2
<1>5. n + 1 \in 1..(n + 1) /\ (n + 1) - 1 = n /\ (n + 1 = 1 <=> n = 0) BY <1>1
<1>6. g[n + 1] = (IF n + 1 = 1 THEN t[n + 1] ELSE g[n] \o t[n + 1])
  <2>1. Follows(t, n + 1, g) BY <1>1, <1>3 DEF Partial
  <2> QED BY <1>5, <2>1 DEF Follows
<1>7. CASE n = 0
  <2>1. s = <<>> BY <1>7, EmptySeq
  <2>2. FlattenSeq(s) = <<>> BY <2>1, FlattenType
  <2>3. <<>> \o x = x BY ConcatEmptySeq
  <2> QED BY <1>2, <1>4, <1>5, <1>6, <1>7, <2>2, <2>3
<1>8. CASE n # 0
  <2>1. PICK f : Partial(T, s, n, f) BY PartialExists
  <2>2. FlattenSeq(s) = f[n] BY <1>8, <2>1, FlattenIs
  <2>3. Follows(s, n, f) BY <2>1 DEF Partial
  <2>4. Follows(t, n, g)
    <3>1. Follows(t, n + 1, g) BY <1>1, <1>3 DEF Partial
    <3>2. \A i \in 1..n : i \in 1..(n + 1) BY <1>1
    <3> QED BY <3>1, <3>2 DEF Follows
  <2>5. \A i \in 1..n : f[i] = g[i]
    <3> HIDE DEF t, n
    <3> QED BY <1>1, <1>2, <2>3, <2>4, PartialUnique, SMTT(30)
  <2>6. n \in 1..n BY <1>1, <1>8
  <2>7. f[n] = g[n] BY <2>5, <2>6
  <2> QED BY <1>2, <1>4, <1>5, <1>6, <1>8, <2>2, <2>7
<1> QED BY <1>7, <1>8

-----------------------------------------------------------------------------
(* What a subscriber is given. *)

\* What was read, what is in the channel, in hand and queued, in a row.
Row(x, c, h, q) == x \o c \o h \o q

\* It is a sequence, and grows with its queue.
LEMMA RowGrows ==
  ASSUME NEW S, NEW x \in Seq(S), NEW c \in Seq(S), NEW h \in Seq(S), NEW q \in Seq(S), NEW n \in Seq(S)
  PROVE  Row(x, c, h, q) \in Seq(S) /\ Row(x, c, h, q \o n) = Row(x, c, h, q) \o n
<1>1. x \o c \in Seq(S) BY ConcatProperties
<1>2. (x \o c) \o h \in Seq(S) BY <1>1, ConcatProperties
<1>3. ((x \o c) \o h) \o q \in Seq(S) BY <1>2, ConcatProperties
<1>4. ((x \o c) \o h) \o (q \o n) = (((x \o c) \o h) \o q) \o n
  <2> DEFINE a == (x \o c) \o h
  <2>1. a \in Seq(S) BY <1>2
  <2> HIDE DEF a
  <2>2. (a \o q) \o n = a \o (q \o n) BY <2>1, ConcatAssociative, SMTT(20)
  <2> QED BY <2>2, Zenon DEF a
<1> QED BY <1>3, <1>4, Zenon DEF Row

\* A queue is its head and then its tail.
LEMMA HeadThenTail ==
  ASSUME NEW S, NEW q \in Seq(S), q # <<>>
  PROVE  <<Head(q)>> \in Seq(S) /\ Tail(q) \in Seq(S) /\ <<Head(q)>> \o Tail(q) = q
<1> DEFINE a == <<Head(q)>>
           b == Tail(q)
<1>1. Len(a) = 1 /\ a[1] = q[1] OBVIOUS
<1>2. /\ Len(b) = Len(q) - 1 /\ Len(q) \in Nat \ {0}
      /\ \A i \in 1..Len(b) : b[i] = q[i + 1]
  BY HeadTailProperties, EmptySeq
<1>3. a \in Seq(S) /\ b \in Seq(S)
  <2>1. Head(q) \in S /\ Tail(q) \in Seq(S) BY HeadTailProperties
  <2> QED BY <2>1
<1> HIDE DEF a, b
<1>4. /\ a \o b \in Seq(S) /\ Len(a \o b) = Len(a) + Len(b)
      /\ \A i \in 1..(Len(a) + Len(b)) : (a \o b)[i] = IF i <= Len(a) THEN a[i] ELSE b[i - Len(a)]
  BY <1>3, ConcatProperties
<1>5. Len(a \o b) = Len(q) BY <1>1, <1>2, <1>4
<1>6. ASSUME NEW i \in 1..Len(q) PROVE (a \o b)[i] = q[i]
  <2>1. i \in 1..(Len(a) + Len(b)) BY <1>1, <1>2
  <2>2. (a \o b)[i] = IF i <= Len(a) THEN a[i] ELSE b[i - Len(a)] BY <1>4, <2>1
  <2>3. CASE i = 1 BY <1>1, <2>2, <2>3
  <2>4. CASE i # 1
    <3>1. i - 1 \in 1..Len(b) /\ (i - 1) + 1 = i /\ ~(i <= 1) BY <1>2, <2>4
    <3>2. b[i - 1] = q[i] BY <1>2, <3>1
    <3> QED BY <1>1, <2>2, <3>1, <3>2
  <2> QED BY <2>3, <2>4
<1>7. a \o b = q BY <1>4, <1>5, <1>6, SeqEqual
<1> QED BY <1>3, <1>7, Zenon DEF a, b

\* The head of a queue moves into the hand that is empty.
LEMMA RowTake ==
  ASSUME NEW S, NEW x \in Seq(S), NEW c \in Seq(S), NEW q \in Seq(S), q # <<>>
  PROVE  Row(x, c, <<Head(q)>>, Tail(q)) = Row(x, c, <<>>, q)
<1> DEFINE a == <<Head(q)>>
           b == Tail(q)
           y == x \o c
<1>0. a \in Seq(S) /\ b \in Seq(S) BY HeadThenTail, Zenon
<1>1. a \o b = q BY HeadThenTail, Zenon
<1>2. y \in Seq(S) BY ConcatProperties
<1>3. y \o <<>> = y BY <1>2, ConcatEmptySeq
<1>4. (y \o a) \o b = y \o q
  <2> HIDE DEF a, b, y
  <2>1. (y \o a) \o b = y \o (a \o b) BY <1>0, <1>2, ConcatAssociative, SMTT(20)
  <2> QED BY <1>1, <2>1, Zenon
<1> QED BY <1>3, <1>4, Zenon DEF Row

\* What is in hand moves into the channel.
LEMMA RowSend ==
  ASSUME NEW S, NEW x \in Seq(S), NEW c \in Seq(S), NEW h \in Seq(S), NEW q \in Seq(S)
  PROVE  c \o h \in Seq(S) /\ Row(x, c \o h, <<>>, q) = Row(x, c, h, q)
<1>1. c \o h \in Seq(S) BY ConcatProperties
<1>2. x \o (c \o h) \in Seq(S) BY <1>1, ConcatProperties
<1>3. (x \o (c \o h)) \o <<>> = x \o (c \o h) BY <1>2, ConcatEmptySeq
<1>4. (x \o c) \o h = x \o (c \o h) BY ConcatAssociative, SMTT(20)
<1> QED BY <1>1, <1>3, <1>4, Zenon DEF Row

\* The head of the channel is read.
LEMMA RowReceive ==
  ASSUME NEW S, NEW x \in Seq(S), NEW c \in Seq(S), NEW h, NEW q, c # <<>>
  PROVE  /\ Head(c) \in S /\ Tail(c) \in Seq(S) /\ Append(x, Head(c)) \in Seq(S)
         /\ Row(Append(x, Head(c)), Tail(c), h, q) = Row(x, c, h, q)
<1> DEFINE a == <<Head(c)>>
           b == Tail(c)
<1>1. Head(c) \in S /\ Tail(c) \in Seq(S) BY HeadTailProperties
<1>2. Append(x, Head(c)) = x \o <<Head(c)>> /\ Append(x, Head(c)) \in Seq(S) BY <1>1, AppendIsConcat, AppendProperties
<1>0. a \in Seq(S) /\ b \in Seq(S) BY HeadThenTail, Zenon
<1>3. a \o b = c BY HeadThenTail, Zenon
<1>4. (x \o a) \o b = x \o c
  <2> HIDE DEF a, b
  <2>1. (x \o a) \o b = x \o (a \o b) BY <1>0, ConcatAssociative, SMTT(20)
  <2> QED BY <1>3, <2>1, Zenon
<1> QED BY <1>1, <1>2, <1>4, Zenon DEF Row

\* A sequence is a prefix of what it is followed by.
LEMMA PrefixConcat ==
  ASSUME NEW S, NEW a \in Seq(S), NEW b \in Seq(S), NEW n \in Seq(S), IsPrefix(a, b)
  PROVE  IsPrefix(a, b \o n)
<1>1. Len(a) \in Nat /\ Len(b) \in Nat /\ Len(n) \in Nat /\ Len(a) <= Len(b)
  BY LenProperties DEF IsPrefix
<1>2. Len(b \o n) = Len(b) + Len(n) BY ConcatProperties
<1>3. SubSeq(b \o n, 1, Len(a)) = SubSeq(b, 1, Len(a))
  BY <1>1, SubSeqOfConcat1
<1>4. SubSeq(a, 1, Len(a)) = SubSeq(b, 1, Len(a)) BY Zenon DEF IsPrefix
<1>5. Len(a) <= Len(b \o n) BY <1>1, <1>2
<1> QED BY <1>3, <1>4, <1>5, Zenon DEF IsPrefix

\* A sequence is a prefix of itself.
LEMMA PrefixSelf == ASSUME NEW a, Len(a) \in Nat PROVE IsPrefix(a, a)
  BY DEF IsPrefix

\* What is left when the hand and the queue are emptied.
LEMMA RowLeave ==
  ASSUME NEW S, NEW x \in Seq(S), NEW c \in Seq(S), NEW h \in Seq(S), NEW q \in Seq(S)
  PROVE  Row(x, c, <<>>, <<>>) \in Seq(S) /\ IsPrefix(Row(x, c, <<>>, <<>>), Row(x, c, h, q))
<1>1. x \o c \in Seq(S) /\ h \o q \in Seq(S) BY ConcatProperties
<1>2. (x \o c) \o <<>> = x \o c BY <1>1, ConcatEmptySeq
<1>3. Row(x, c, <<>>, <<>>) = x \o c BY <1>2, Zenon DEF Row
<1>4. Row(x, c, h, q) = (x \o c) \o (h \o q)
  <2>1. ((x \o c) \o h) \o q = (x \o c) \o (h \o q) BY <1>1, ConcatAssociative, SMTT(30)
  <2> QED BY <2>1, Zenon DEF Row
<1>5. IsPrefix(x \o c, x \o c) BY <1>1, PrefixSelf, LenProperties
<1>6. IsPrefix(x \o c, (x \o c) \o (h \o q)) BY <1>1, <1>5, PrefixConcat
<1> QED BY <1>1, <1>3, <1>4, <1>6

-----------------------------------------------------------------------------
(* The inductive invariant. *)

\* The events published, and those a chunk becomes.
History == Range(events)
Parsed ==
  [type : {"content"}, text : Seq(STRING)] \cup [type : {"reasoning"}]
    \cup [type : {"tool_started"}, index : Nat, label : [Labels -> STRING]]
    \cup [type : {"tool_arguments"}, index : Nat, args : Seq(STRING)]
    \cup [type : {"completed"}, result : {NoResult}]

Subscription(S) ==
  [pc : {"none", "take", "send", "wait", "gone"}, queue : Seq(S), notify : BOOLEAN, closed : BOOLEAN,
   held : Seq(S), channel : Seq(S)]

Types ==
  /\ cancelled \in BOOLEAN /\ done \in BOOLEAN
  /\ wire \in Seq(Chunk) /\ todo \in Seq(Parsed)
  /\ events \in Seq(History)
  /\ sub \in [Subscribers -> Subscription(History)]
  /\ seen \in [Subscribers -> Seq(History)]

\* The subscriber s has read x and its subscription is r; the stream es has
\* ended if d.
Given(x, r) == Row(x, r.channel, r.held, r.queue)
Fed(s, x, r, es, d) ==
  /\ r.pc = "none" => x = <<>> /\ r.channel = <<>>
  /\ r.pc # "send" => r.held = <<>>
  /\ r.closed => d
  /\ r.pc \in {"take", "send", "wait"} => Given(x, r) = es
  /\ r.pc = "gone" => r.queue = <<>> /\ IsPrefix(Given(x, r), es) /\ (Watches(s) \/ (d /\ Given(x, r) = es))

Feeds == \A s \in Subscribers : Fed(s, seen[s], sub[s], events, done)

\* The stream has not failed.
Sound == failure = ""

\* The stream ends once, with its consumer; the event that completes it carries
\* its result, which holds all the text published.
Ended ==
  /\ done => consumer = "returned"
  /\ ~done => Sound
  /\ guard = "start" => consumer = "unborn"
Carried ==
  \A e \in History :
    /\ TextOf(e) \in Seq(STRING)
    /\ e.type = "completed" => done /\ Sound /\ e.result = result
Whole == done /\ Sound => result.content = Texts(events)

\* The guard has put together the text it has read, and what it took from a
\* completed event is the stream's result.
Reading ==
  /\ content = Texts(seen[Guard])
  /\ terminal # <<>> => done /\ Sound /\ terminal = <<result.content>>
  /\ guard \in {"start", "subscribe"} => sub[Guard].pc = "none"
  /\ guard # "returned" => decision = NotDecided

Inv == Types /\ Feeds /\ Ended /\ Carried /\ Whole /\ Reading /\ GuardFailsClosed

-----------------------------------------------------------------------------
(* What the steps of a subscription do. *)

\* The fields of a subscription.
LEMMA FieldTypes == ASSUME NEW S, NEW r \in Subscription(S)
  PROVE  /\ r.pc \in {"none", "take", "send", "wait", "gone"} /\ r.notify \in BOOLEAN /\ r.closed \in BOOLEAN
         /\ r.queue \in Seq(S) /\ r.held \in Seq(S) /\ r.channel \in Seq(S)
  BY DEF Subscription

\* Who has not subscribed has read nothing.
LEMMA FedNone ==
  ASSUME NEW S, NEW es, NEW d, NEW s
  PROVE  NoSubscription \in Subscription(S) /\ Fed(s, <<>>, NoSubscription, es, d)
<1>1. <<>> \in Seq(S) BY EmptySeq
<1>2. NoSubscription \in Subscription(S) BY <1>1 DEF NoSubscription, Subscription
<1>3. Fed(s, <<>>, NoSubscription, es, d) BY DEF NoSubscription, Fed
<1> QED BY <1>2, <1>3

\* Store: what is published is queued for those who have not left.
Queued(r, new, ends) == [r EXCEPT !.queue = @ \o new, !.notify = TRUE, !.closed = @ \/ ends]

\* The row of a subscription grows with the history, unless it has left.
LEMMA FedStore ==
  ASSUME NEW S, NEW x \in Seq(S), NEW r \in Subscription(S), NEW es \in Seq(S), NEW new \in Seq(S),
         NEW ends \in BOOLEAN, NEW s, ~done, Fed(s, x, r, es, done)
  PROVE  /\ Queued(r, new, ends) \in Subscription(S)
         /\ r.pc \in {"take", "send", "wait"} => Fed(s, x, Queued(r, new, ends), es \o new, ends)
         /\ r.pc \notin {"take", "send", "wait"} => Fed(s, x, r, es \o new, ends)
<1> DEFINE q == [r EXCEPT !.queue = @ \o new, !.notify = TRUE, !.closed = @ \/ ends]
<1>1. /\ r.pc \in {"none", "take", "send", "wait", "gone"} /\ r.closed \in BOOLEAN
      /\ r.queue \in Seq(S) /\ r.held \in Seq(S) /\ r.channel \in Seq(S)
  BY FieldTypes
<1>2. r.queue \o new \in Seq(S) BY <1>1, ConcatProperties
<1>3. q \in Subscription(S) BY <1>1, <1>2 DEF Subscription
<1>4. /\ q.pc = r.pc /\ q.queue = r.queue \o new /\ q.held = r.held /\ q.channel = r.channel
      /\ (q.closed <=> r.closed \/ ends)
  BY DEF Subscription
<1>5. ~r.closed BY DEF Fed
<1>6. Given(x, q) = Given(x, r) \o new /\ Given(x, r) \in Seq(S)
  <2>1. /\ Row(x, r.channel, r.held, r.queue \o new) = Row(x, r.channel, r.held, r.queue) \o new
        /\ Row(x, r.channel, r.held, r.queue) \in Seq(S)
    <3>1. \A c, h, y \in Seq(S) : Row(x, c, h, y \o new) = Row(x, c, h, y) \o new /\ Row(x, c, h, y) \in Seq(S)
      BY RowGrows, SMTT(30)
    <3> QED BY <1>1, <3>1, Zenon
  <2> HIDE DEF q
  <2> QED BY <1>4, <2>1, Zenon DEF Given
<1>7. ASSUME r.pc \in {"take", "send", "wait"} PROVE Fed(s, x, q, es \o new, ends)
  <2>1. Given(x, r) = es BY <1>7, Zenon DEF Fed
  <2>2. Given(x, q) = es \o new BY <1>6, <2>1, Zenon
  <2>3. q.pc # "send" => q.held = <<>> BY <1>4 DEF Fed
  <2> HIDE DEF q
  <2> QED BY <1>4, <1>5, <1>7, <2>2, <2>3 DEF Fed
<1>8. ASSUME r.pc \notin {"take", "send", "wait"} PROVE Fed(s, x, r, es \o new, ends)
  <2>1. CASE r.pc = "none" BY <1>5, <2>1 DEF Fed
  <2>2. CASE r.pc = "gone"
    <3>1. IsPrefix(Given(x, r), es) BY <2>2, Zenon DEF Fed
    <3>2. IsPrefix(Given(x, r), es \o new)
      <4>1. PICK g \in Seq(S) : g = Given(x, r) BY <1>6
      <4>2. IsPrefix(g, es \o new) BY <3>1, <4>1, PrefixConcat
      <4> QED BY <4>1, <4>2, Zenon
    <3>3. Watches(s) BY <2>2 DEF Fed
    <3>4. r.held = <<>> /\ r.queue = <<>> BY <2>2 DEF Fed
    <3> QED BY <1>5, <2>2, <3>2, <3>3, <3>4 DEF Fed
  <2> QED BY <1>1, <1>8, <2>1, <2>2
<1> QED BY <1>3, <1>7, <1>8, Zenon DEF Queued

\* Subscribe: the history is queued.
Replayed(es, d) == [NoSubscription EXCEPT !.pc = "take", !.queue = es, !.closed = d]

\* The row of a new subscription is the history.
LEMMA FedSubscribe ==
  ASSUME NEW S, NEW r, NEW es \in Seq(S), NEW d \in BOOLEAN, NEW s, NEW x, Fed(s, x, r, es, d), r.pc = "none"
  PROVE  Replayed(es, d) \in Subscription(S) /\ Fed(s, x, Replayed(es, d), es, d)
<1> DEFINE q == [NoSubscription EXCEPT !.pc = "take", !.queue = es, !.closed = d]
<1>1. <<>> \in Seq(S) BY EmptySeq
<1>2. q \in Subscription(S) BY <1>1 DEF NoSubscription, Subscription
<1>3. q.pc = "take" /\ q.queue = es /\ q.held = <<>> /\ q.channel = <<>> /\ (q.closed <=> d) BY DEF NoSubscription
<1>4. x = <<>> BY Zenon DEF Fed
<1>5. Given(x, q) = es
  <2>1. <<>> \o <<>> = <<>> /\ <<>> \o es = es BY <1>1, ConcatEmptySeq
  <2> HIDE DEF q
  <2> QED BY <1>3, <1>4, <2>1, Zenon DEF Given, Row
<1>6. Fed(s, x, q, es, d)
  <2> HIDE DEF q
  <2> QED BY <1>3, <1>5 DEF Fed
<1> QED BY <1>2, <1>6, Zenon DEF Replayed

\* Advance: the head of the queue is taken in hand, or there is none.
LEMMA FedAdvance ==
  ASSUME NEW S, NEW x \in Seq(S), NEW r \in Subscription(S), NEW es, NEW d, NEW s, Fed(s, x, r, es, d),
         r.pc = "take"
  PROVE  LET q == IF r.queue = <<>> THEN [r EXCEPT !.pc = "wait"]
                  ELSE [r EXCEPT !.held = <<Head(r.queue)>>, !.queue = Tail(@), !.pc = "send"]
         IN q \in Subscription(S) /\ Fed(s, x, q, es, d)
<1>1. /\ r.closed \in BOOLEAN /\ r.notify \in BOOLEAN
      /\ r.queue \in Seq(S) /\ r.held \in Seq(S) /\ r.channel \in Seq(S)
  BY FieldTypes
<1>2. r.held = <<>> /\ (r.closed => d) /\ Given(x, r) = es BY Zenon DEF Fed
<1>3. CASE r.queue = <<>>
  <2> DEFINE q == [r EXCEPT !.pc = "wait"]
  <2>1. q \in Subscription(S) BY DEF Subscription
  <2>2. q.pc = "wait" /\ q.queue = r.queue /\ q.held = r.held /\ q.channel = r.channel /\ q.closed = r.closed
    BY DEF Subscription
  <2>3. Given(x, q) = es BY <1>2, <2>2, Zenon DEF Given
  <2>4. Fed(s, x, q, es, d)
    <3> HIDE DEF q
    <3> QED BY <1>2, <2>2, <2>3 DEF Fed
  <2> QED BY <1>3, <2>1, <2>4, Zenon
<1>4. CASE r.queue # <<>>
  <2> DEFINE q == [r EXCEPT !.held = <<Head(r.queue)>>, !.queue = Tail(@), !.pc = "send"]
  <2>1. <<Head(r.queue)>> \in Seq(S) /\ Tail(r.queue) \in Seq(S)
    <3>1. PICK y \in Seq(S) : y = r.queue BY <1>1
    <3>2. <<Head(y)>> \in Seq(S) /\ Tail(y) \in Seq(S) BY <1>4, <3>1, HeadThenTail
    <3> QED BY <3>1, <3>2
  <2>2. q \in Subscription(S) BY <2>1 DEF Subscription
  <2>3. /\ q.pc = "send" /\ q.queue = Tail(r.queue) /\ q.held = <<Head(r.queue)>>
        /\ q.channel = r.channel /\ q.closed = r.closed
    BY DEF Subscription
  <2>4. Row(x, r.channel, <<Head(r.queue)>>, Tail(r.queue)) = Row(x, r.channel, <<>>, r.queue)
    BY <1>1, <1>4, RowTake
  <2>5. Given(x, q) = es
    <3> HIDE DEF q
    <3> QED BY <1>2, <2>3, <2>4, Zenon DEF Given
  <2>6. Fed(s, x, q, es, d)
    <3> HIDE DEF q
    <3> QED BY <1>2, <2>3, <2>5 DEF Fed
  <2> QED BY <1>4, <2>2, <2>6, Zenon
<1> QED BY <1>3, <1>4, Zenon

\* Leave: the goroutine ends, cancelled or with nothing left to give.
LEMMA FedLeave ==
  ASSUME NEW S, NEW x \in Seq(S), NEW r \in Subscription(S), NEW es \in Seq(S), NEW d, NEW s, Fed(s, x, r, es, d),
         r.pc \in {"take", "send", "wait"}, Watches(s) \/ (r.pc = "take" /\ r.queue = <<>> /\ r.closed)
  PROVE  LET q == [r EXCEPT !.pc = "gone", !.held = <<>>, !.queue = <<>>]
         IN q \in Subscription(S) /\ Fed(s, x, q, es, d)
<1> DEFINE q == [r EXCEPT !.pc = "gone", !.held = <<>>, !.queue = <<>>]
<1>1. /\ r.closed \in BOOLEAN /\ r.notify \in BOOLEAN
      /\ r.queue \in Seq(S) /\ r.held \in Seq(S) /\ r.channel \in Seq(S)
  BY FieldTypes
<1>2. <<>> \in Seq(S) BY EmptySeq
<1>3. q \in Subscription(S) BY <1>2 DEF Subscription
<1>4. q.pc = "gone" /\ q.queue = <<>> /\ q.held = <<>> /\ q.channel = r.channel /\ q.closed = r.closed
  BY DEF Subscription
<1>5. Given(x, r) = es /\ (r.closed => d) /\ (r.pc # "send" => r.held = <<>>) BY Zenon DEF Fed
<1>6. Row(x, r.channel, r.held, r.queue) = es BY <1>5, Zenon DEF Given
<1>7. Row(x, r.channel, <<>>, <<>>) = Given(x, q)
  <2> HIDE DEF q
  <2> QED BY <1>4, Zenon DEF Given
<1>8. IsPrefix(Row(x, r.channel, <<>>, <<>>), Row(x, r.channel, r.held, r.queue)) BY <1>1, RowLeave
<1>9. IsPrefix(Given(x, q), es) BY <1>6, <1>7, <1>8, Zenon
<1>10. Watches(s) \/ (d /\ Given(x, q) = es)
  <2>1. CASE Watches(s) BY <2>1
  <2>2. CASE r.pc = "take" /\ r.queue = <<>> /\ r.closed
    <3>1. r.held = <<>> BY <1>5, <2>2
    <3>2. Row(x, r.channel, <<>>, <<>>) = es BY <1>6, <2>2, <3>1, Zenon
    <3> QED BY <1>5, <1>7, <2>2, <3>2, Zenon
  <2> QED BY <2>1, <2>2, Zenon
<1>11. Fed(s, x, q, es, d)
  <2> HIDE DEF q
  <2> QED BY <1>4, <1>5, <1>9, <1>10 DEF Fed
<1> QED BY <1>3, <1>11, Zenon

\* Send: what is in hand goes into the channel.
LEMMA FedSend ==
  ASSUME NEW S, NEW x \in Seq(S), NEW r \in Subscription(S), NEW es, NEW d, NEW s, Fed(s, x, r, es, d),
         r.pc = "send"
  PROVE  LET q == [r EXCEPT !.channel = @ \o r.held, !.held = <<>>, !.pc = "take"]
         IN q \in Subscription(S) /\ Fed(s, x, q, es, d)
<1> DEFINE q == [r EXCEPT !.channel = @ \o r.held, !.held = <<>>, !.pc = "take"]
<1>1. /\ r.closed \in BOOLEAN /\ r.notify \in BOOLEAN
      /\ r.queue \in Seq(S) /\ r.held \in Seq(S) /\ r.channel \in Seq(S)
  BY FieldTypes
<1>2. /\ r.channel \o r.held \in Seq(S)
      /\ Row(x, r.channel \o r.held, <<>>, r.queue) = Row(x, r.channel, r.held, r.queue)
  BY <1>1, RowSend
<1>3. <<>> \in Seq(S) BY EmptySeq
<1>4. q \in Subscription(S) BY <1>2, <1>3 DEF Subscription
<1>5. /\ q.pc = "take" /\ q.queue = r.queue /\ q.held = <<>> /\ q.channel = r.channel \o r.held
      /\ q.closed = r.closed
  BY DEF Subscription
<1>6. Given(x, r) = es /\ (r.closed => d) BY Zenon DEF Fed
<1>7. Given(x, q) = es
  <2> HIDE DEF q
  <2> QED BY <1>2, <1>5, <1>6, Zenon DEF Given
<1>8. Fed(s, x, q, es, d)
  <2> HIDE DEF q
  <2> QED BY <1>5, <1>6, <1>7 DEF Fed
<1> QED BY <1>4, <1>8, Zenon

\* Wait: a signal wakes the goroutine.
LEMMA FedWake ==
  ASSUME NEW S, NEW x, NEW r \in Subscription(S), NEW es, NEW d, NEW s, Fed(s, x, r, es, d), r.pc = "wait"
  PROVE  LET q == [r EXCEPT !.notify = FALSE, !.pc = "take"]
         IN q \in Subscription(S) /\ Fed(s, x, q, es, d)
<1> DEFINE q == [r EXCEPT !.notify = FALSE, !.pc = "take"]
<1>1. q \in Subscription(S) BY DEF Subscription
<1>2. q.pc = "take" /\ q.queue = r.queue /\ q.held = r.held /\ q.channel = r.channel /\ q.closed = r.closed
  BY DEF Subscription
<1>3. Given(x, r) = es /\ (r.closed => d) /\ r.held = <<>> BY Zenon DEF Fed
<1>4. Given(x, q) = es
  <2> HIDE DEF q
  <2> QED BY <1>2, <1>3, Zenon DEF Given
<1>5. Fed(s, x, q, es, d)
  <2> HIDE DEF q
  <2> QED BY <1>2, <1>3, <1>4 DEF Fed
<1> QED BY <1>1, <1>5, Zenon

\* Receive: the head of the channel is read.
LEMMA FedReceive ==
  ASSUME NEW S, NEW x \in Seq(S), NEW r \in Subscription(S), NEW es, NEW d, NEW s, Fed(s, x, r, es, d),
         r.channel # <<>>
  PROVE  LET q == [r EXCEPT !.channel = Tail(@)]
             y == Append(x, Head(r.channel))
         IN Head(r.channel) \in S /\ y \in Seq(S) /\ q \in Subscription(S) /\ Fed(s, y, q, es, d)
<1> DEFINE q == [r EXCEPT !.channel = Tail(@)]
           y == Append(x, Head(r.channel))
<1>1. /\ r.pc \in {"none", "take", "send", "wait", "gone"} /\ r.closed \in BOOLEAN /\ r.notify \in BOOLEAN
      /\ r.queue \in Seq(S) /\ r.held \in Seq(S) /\ r.channel \in Seq(S)
  BY FieldTypes
<1>2. /\ Head(r.channel) \in S /\ Tail(r.channel) \in Seq(S) /\ y \in Seq(S)
      /\ Row(y, Tail(r.channel), r.held, r.queue) = Row(x, r.channel, r.held, r.queue)
  BY <1>1, RowReceive
<1>3. q \in Subscription(S) BY <1>2 DEF Subscription
<1>4. /\ q.pc = r.pc /\ q.queue = r.queue /\ q.held = r.held /\ q.channel = Tail(r.channel)
      /\ q.closed = r.closed
  BY DEF Subscription
<1>5. Given(y, q) = Given(x, r)
  <2> HIDE DEF q, y
  <2> QED BY <1>2, <1>4, Zenon DEF Given
<1>6. r.pc # "none" BY Zenon DEF Fed
<1>7. Fed(s, y, q, es, d)
  <2> HIDE DEF q, y
  <2> QED BY <1>4, <1>5, <1>6 DEF Fed
<1> QED BY <1>2, <1>3, <1>7, Zenon

\* A subscription to a history is one to a longer history.
LEMMA SubscriptionWidens == ASSUME NEW S, NEW T, S \subseteq T PROVE Subscription(S) \subseteq Subscription(T)
<1>1. Seq(S) \subseteq Seq(T) BY SeqMonotonic
<1> QED BY <1>1 DEF Subscription

\* A step of one subscriber.
LEMMA OneSubscriber ==
  ASSUME Types, Feeds, NEW s \in Subscribers, NEW r \in Subscription(History), NEW y \in Seq(History),
         sub' = [sub EXCEPT ![s] = r], seen' = [seen EXCEPT ![s] = y],
         Fed(s, y, r, events, done), UNCHANGED <<cancelled, events, done>>
  PROVE  /\ sub' \in [Subscribers -> Subscription(History)] /\ seen' \in [Subscribers -> Seq(History)]
         /\ sub'[s] = r /\ seen'[s] = y
         /\ \A q \in Subscribers : q # s => sub'[q] = sub[q] /\ seen'[q] = seen[q]
         /\ Feeds'
<1>1. sub \in [Subscribers -> Subscription(History)] /\ seen \in [Subscribers -> Seq(History)] BY DEF Types
<1>2. sub' \in [Subscribers -> Subscription(History)] /\ sub'[s] = r
      /\ \A q \in Subscribers : q # s => sub'[q] = sub[q]
  <2> DEFINE T == Subscription(History)
  <2> HIDE DEF T
  <2>1. sub \in [Subscribers -> T] /\ r \in T BY <1>1 DEF T
  <2>2. sub' \in [Subscribers -> T] /\ sub'[s] = r BY <2>1
  <2>3. \A q \in Subscribers : q # s => sub'[q] = sub[q] BY <2>1
  <2> QED BY <2>2, <2>3 DEF T
<1>3. seen' \in [Subscribers -> Seq(History)] /\ seen'[s] = y
      /\ \A q \in Subscribers : q # s => seen'[q] = seen[q]
  <2> DEFINE T == Seq(History)
  <2> HIDE DEF T
  <2>1. seen \in [Subscribers -> T] /\ y \in T BY <1>1 DEF T
  <2>2. seen' \in [Subscribers -> T] /\ seen'[s] = y BY <2>1
  <2>3. \A q \in Subscribers : q # s => seen'[q] = seen[q] BY <2>1
  <2> QED BY <2>2, <2>3 DEF T
<1>4. ASSUME NEW q \in Subscribers PROVE Fed(q, seen[q], sub[q], events, done)'
  <2>1. events' = events /\ done' = done /\ (Watches(q)' <=> Watches(q)) BY DEF Watches
  <2>2. Fed(q, seen'[q], sub'[q], events, done)
    <3>1. CASE q = s BY <1>2, <1>3, <3>1, Zenon
    <3>2. CASE q # s
      <4>1. Fed(q, seen[q], sub[q], events, done) BY Zenon DEF Feeds
      <4> QED BY <1>2, <1>3, <3>2, <4>1, Zenon
    <3> QED BY <3>1, <3>2, Zenon
  <2> QED BY <2>1, <2>2 DEF Fed
<1> QED BY <1>2, <1>3, <1>4, Zenon DEF Feeds

\* Store: the history grows, for everyone.
LEMMA StoreStep ==
  ASSUME Types, Feeds, ~done, NEW N, NEW new \in Seq(N), NEW ends \in BOOLEAN, Store(new, ends),
         UNCHANGED <<cancelled, seen>>
  PROVE  /\ History' = History \cup Range(new)
         /\ events' \in Seq(History')
         /\ sub' \in [Subscribers -> Subscription(History')] /\ seen' \in [Subscribers -> Seq(History')]
         /\ \A s \in Subscribers : sub'[s].pc = sub[s].pc
         /\ Feeds'
<1> DEFINE H == History \cup Range(new)
<1>1. /\ events \in Seq(History) /\ done = FALSE
      /\ sub \in [Subscribers -> Subscription(History)] /\ seen \in [Subscribers -> Seq(History)]
  BY DEF Types
<1>2. /\ events' = events \o new /\ done' = ends
      /\ sub' = [s \in Subscribers |->
           IF Attached(s)
           THEN Queued(sub[s], new, ends) ELSE sub[s]]
  BY Zenon DEF Store, Queued
<1>3. events \in Seq(H) /\ new \in Seq(H)
  <2>1. new \in Seq(Range(new)) BY SeqOfRange
  <2> HIDE DEF History
  <2> QED BY <1>1, <2>1, SeqMonotonic
<1>4. events' \in Seq(H)
  <2> HIDE DEF H
  <2>1. \A a, b \in Seq(H) : a \o b \in Seq(H) BY ConcatProperties
  <2> QED BY <1>2, <1>3, <2>1, Zenon
<1>5. History' = H
  <2> DEFINE S == History
  <2> HIDE DEF S
  <2>1. Range(events \o new) = Range(events) \cup Range(new)
    <3> HIDE DEF H
    <3> QED BY <1>3, RangeConcatenation
  <2> QED BY <1>2, <2>1, Zenon DEF History
<1>6. ASSUME NEW s \in Subscribers
      PROVE  /\ sub'[s] \in Subscription(H) /\ seen'[s] \in Seq(H) /\ sub'[s].pc = sub[s].pc
             /\ Fed(s, seen[s], sub[s], events, done)'
  <2> DEFINE r == sub[s]
             q == Queued(r, new, ends)
  <2>1. r \in Subscription(H)
    <3>1. r \in Subscription(History) BY <1>1
    <3>2. History \subseteq H OBVIOUS
    <3> HIDE DEF H, r
    <3> QED BY <3>1, <3>2, SubscriptionWidens
  <2>2. seen[s] \in Seq(H)
    <3>1. seen[s] \in Seq(History) BY <1>1
    <3> HIDE DEF History
    <3> QED BY <3>1, SeqMonotonic
  <2>3. Fed(s, seen[s], r, events, done)
    <3>1. Fed(s, seen[s], sub[s], events, done) BY Zenon DEF Feeds
    <3> QED BY <3>1, Zenon
  <2>4. seen' = seen /\ (Watches(s)' <=> Watches(s)) BY DEF Watches
  <2>5. /\ q \in Subscription(H)
        /\ r.pc \in {"take", "send", "wait"} => Fed(s, seen[s], q, events \o new, ends)
        /\ r.pc \notin {"take", "send", "wait"} => Fed(s, seen[s], r, events \o new, ends)
    <3>1. PICK x \in Seq(H) : x = seen[s] BY <2>2
    <3>2. PICK b \in Subscription(H) : b = r BY <2>1
    <3>3. Fed(s, x, b, events, done) BY <2>3, <3>1, <3>2, Zenon
    <3> HIDE DEF H, r
    <3>4. /\ Queued(b, new, ends) \in Subscription(H)
          /\ b.pc \in {"take", "send", "wait"} => Fed(s, x, Queued(b, new, ends), events \o new, ends)
          /\ b.pc \notin {"take", "send", "wait"} => Fed(s, x, b, events \o new, ends)
      BY <1>3, <3>3, FedStore, Zenon
    <3> QED BY <3>1, <3>2, <3>4, Zenon
  <2>6. q.pc = r.pc BY <2>1 DEF Subscription, Queued
  <2>7. CASE Attached(s)
    <3>1. sub'[s] = q BY <1>2, <2>7, Zenon
    <3>2. Fed(s, seen'[s], q, events', done')
      <4> HIDE DEF q, r
      <4> QED BY <1>2, <2>4, <2>5, <2>7, Zenon DEF Attached, r
    <3> HIDE DEF q, H
    <3>3. Fed(s, seen'[s], sub'[s], events', done') BY <3>1, <3>2, Zenon
    <3>4. Fed(s, seen[s], sub[s], events, done)' BY <2>4, <3>3 DEF Fed
    <3> QED BY <2>2, <2>4, <2>5, <2>6, <3>1, <3>4, Zenon
  <2>8. CASE ~Attached(s)
    <3>1. sub'[s] = r BY <1>2, <2>8, Zenon
    <3>2. Fed(s, seen'[s], r, events', done')
      <4> HIDE DEF q, r
      <4> QED BY <1>2, <2>4, <2>5, <2>8, Zenon DEF Attached, r
    <3> HIDE DEF q, H
    <3>3. Fed(s, seen'[s], sub'[s], events', done') BY <3>1, <3>2, Zenon
    <3>4. Fed(s, seen[s], sub[s], events, done)' BY <2>4, <3>3 DEF Fed
    <3> QED BY <2>1, <2>2, <2>4, <3>1, <3>4, Zenon
  <2> QED BY <2>7, <2>8, Zenon
<1>7. sub' \in [Subscribers -> Subscription(H)]
  <2> DEFINE T == Subscription(H)
             F(s) == IF Attached(s) THEN Queued(sub[s], new, ends) ELSE sub[s]
  <2>1. sub' = [s \in Subscribers |-> F(s)] BY <1>2, Zenon
  <2>2. \A s \in Subscribers : sub'[s] \in T BY <1>6
  <2> HIDE DEF T, F
  <2>3. \A s \in Subscribers : F(s) \in T BY <2>1, <2>2
  <2> QED BY <2>1, <2>3 DEF T
<1>8. seen' \in [Subscribers -> Seq(H)]
  <2> DEFINE T == Seq(H)
  <2>1. \A s \in Subscribers : seen[s] \in T BY <1>6
  <2> HIDE DEF T
  <2>2. seen = [s \in Subscribers |-> seen[s]] BY <1>1
  <2>3. seen \in [Subscribers -> T] BY <2>1, <2>2
  <2> QED BY <2>3 DEF T
<1>9. Feeds' BY <1>6, Zenon DEF Feeds
<1> QED BY <1>4, <1>5, <1>6, <1>7, <1>8, <1>9, Zenon

-----------------------------------------------------------------------------
(* What is published. *)

\* A chunk becomes events that are neither failures nor carry a result.
LEMMA PresentType ==
  ASSUME NEW S, NEW condition, NEW event, condition => event \in S
  PROVE  Present(condition, event) \in Seq(S)
<1>1. CASE condition
  <2>1. event \in S BY <1>1
  <2>2. <<event>> \in Seq(S) BY <2>1
  <2> QED BY <1>1, <2>2, Zenon DEF Present
<1>2. CASE ~condition
  <2>1. <<>> \in Seq(S) BY EmptySeq
  <2> QED BY <1>2, <2>1, Zenon DEF Present
<1> QED BY <1>1, <1>2

\* What a tool delta becomes.
LEMMA ToolEventsType ==
  ASSUME NEW tools \in Seq(Delta), NEW j \in DOMAIN tools
  PROVE  ToolEvents(tools, j) \in Seq(Parsed)
<1> DEFINE t == tools[j]
           started == [type |-> "tool_started", index |-> t.index, label |-> t.label]
           given == [type |-> "tool_arguments", index |-> t.index, args |-> t.args]
           first == Labelled(t) /\ \A k \in 1..(j - 1) : tools[k].index = t.index => ~Labelled(tools[k])
<1>1. t \in Delta OBVIOUS
<1>2. t.index \in Nat /\ t.label \in [Labels -> STRING] /\ t.args \in Seq(STRING)
  <2> HIDE DEF t
  <2> QED BY <1>1 DEF Delta
<1>3. started \in Parsed
  <2> HIDE DEF t
  <2> QED BY <1>2 DEF Parsed
<1>4. given \in Parsed
  <2> HIDE DEF t
  <2> QED BY <1>2 DEF Parsed
<1>5. Present(first, started) \in Seq(Parsed)
  <2> HIDE DEF t, started, first
  <2> QED BY <1>3, PresentType
<1>6. Present(t.args # <<>>, given) \in Seq(Parsed)
  <2> HIDE DEF t, given
  <2> QED BY <1>4, PresentType
<1>7. Present(first, started) \o Present(t.args # <<>>, given) \in Seq(Parsed)
  <2> HIDE DEF t, started, given, first
  <2>1. \A a, b \in Seq(Parsed) : a \o b \in Seq(Parsed) BY ConcatProperties
  <2> QED BY <1>5, <1>6, <2>1, Zenon
<1> QED BY <1>7, Zenon DEF ToolEvents

\* What a chunk becomes.
LEMMA ParseType == ASSUME NEW chunk \in Chunk PROVE Parse(chunk) \in Seq(Parsed)
<1> DEFINE a == Present(chunk.content # <<>>, [type |-> "content", text |-> chunk.content])
           b == Present(chunk.reasoning, [type |-> "reasoning"])
           c == FlattenSeq([j \in DOMAIN chunk.tools |-> ToolEvents(chunk.tools, j)])
           d == Present(chunk.finish, [type |-> "completed", result |-> NoResult])
<1>1. chunk.content \in Seq(STRING) /\ chunk.tools \in Seq(Delta) BY DEF Chunk
<1>2. a \in Seq(Parsed)
  <2>1. [type |-> "content", text |-> chunk.content] \in Parsed BY <1>1 DEF Parsed
  <2> QED BY <2>1, PresentType
<1>3. b \in Seq(Parsed)
  <2>1. [type |-> "reasoning"] \in Parsed BY DEF Parsed
  <2> QED BY <2>1, PresentType
<1>4. d \in Seq(Parsed)
  <2>1. [type |-> "completed", result |-> NoResult] \in Parsed BY DEF Parsed
  <2> QED BY <2>1, PresentType
<1>5. c \in Seq(Parsed)
  <2> DEFINE tools == chunk.tools
             e == [j \in DOMAIN tools |-> ToolEvents(tools, j)]
  <2>1. tools \in Seq(Delta) BY <1>1
  <2> HIDE DEF tools
  <2>2. DOMAIN tools = 1..Len(tools) /\ Len(tools) \in Nat BY <2>1
  <2>3. \A j \in DOMAIN tools : ToolEvents(tools, j) \in Seq(Parsed) BY <2>1, ToolEventsType
  <2>4. e \in Seq(Seq(Parsed))
    <3> DEFINE T == Seq(Parsed)
    <3> HIDE DEF T
    <3>1. e \in [1..Len(tools) -> T] BY <2>2, <2>3 DEF T
    <3>2. e \in Seq(T) BY <2>2, <3>1
    <3> QED BY <3>2 DEF T
  <2> HIDE DEF e
  <2>5. FlattenSeq(e) \in Seq(Parsed) BY <2>4, FlattenType
  <2> QED BY <2>5, Zenon DEF e, tools
<1>6. ((a \o b) \o c) \o d \in Seq(Parsed)
  <2> HIDE DEF a, b, c, d
  <2>1. \A y, z \in Seq(Parsed) : y \o z \in Seq(Parsed) BY ConcatProperties
  <2>2. a \o b \in Seq(Parsed) BY <1>2, <1>3, <2>1, Zenon
  <2>3. (a \o b) \o c \in Seq(Parsed) BY <1>5, <2>1, <2>2, Zenon
  <2> QED BY <1>4, <2>1, <2>3, Zenon
<1> QED BY <1>6, Zenon DEF Parse

\* What the events of a chunk are.
LEMMA ParsedText == ASSUME NEW e \in Parsed PROVE TextOf(e) \in Seq(STRING)
<1>1. <<>> \in Seq(STRING) BY EmptySeq
<1>2. e.type = "content" => e.text \in Seq(STRING) BY DEF Parsed
<1> QED BY <1>1, <1>2, Zenon DEF TextOf

\* The completions of the pending calls are a sequence, finite as the history.
LEMMA PendingFinite ==
  ASSUME NEW S, NEW es \in Seq(S)
  PROVE  IsFiniteSet(PendingTools(es))
<1> DEFINE n == Len(es)
           T == {es[i].index : i \in 1..n}
           f == [i \in 1..n |-> es[i].index]
<1>1. n \in Nat /\ DOMAIN es = 1..n OBVIOUS
<1>2. f \in Surjection(1..n, T) BY DEF Surjection
<1>3. IsFiniteSet(1..n)
  <2> HIDE DEF n
  <2> QED BY <1>1, FS_Interval
<1>4. IsFiniteSet(T)
  <2> HIDE DEF n, T, f
  <2> QED BY <1>2, <1>3, FS_Surjection
<1>5. PendingTools(es) \subseteq T
  <2> SUFFICES ASSUME NEW p \in PendingTools(es) PROVE p \in T OBVIOUS
  <2>1. PICK e \in Range(es) : p = e.index BY DEF PendingTools
  <2>2. PICK i \in DOMAIN es : e = es[i] BY DEF Range
  <2> QED BY <1>1, <2>1, <2>2
<1> QED BY <1>4, <1>5, FS_Subset

\* The completions of the pending calls are that and nothing else.
LEMMA PendingType ==
  ASSUME NEW S, NEW es \in Seq(S)
  PROVE  /\ pendingToolCompletionEvents(es) \in Seq(Range(pendingToolCompletionEvents(es)))
         /\ \A e \in Range(pendingToolCompletionEvents(es)) : e.type = "tool_completed"
<1> DEFINE open == PendingTools(es)
           n == Cardinality(open)
           F(k) == [type |-> "tool_completed", index |-> CHOOSE i \in open : Cardinality({j \in open : j < i}) = k - 1]
           p == [k \in 1..n |-> F(k)]
<1>1. n \in Nat BY PendingFinite, FS_CardinalityType
<1>2. pendingToolCompletionEvents(es) = p BY Zenon DEF pendingToolCompletionEvents
<1>3. \A k \in 1..n : F(k).type = "tool_completed" OBVIOUS
<1> HIDE DEF n, F
<1>4. p \in [1..n -> Range(p)] BY DEF Range
<1>5. p \in Seq(Range(p))
  <2> HIDE DEF p
  <2> QED BY <1>1, <1>4
<1>6. \A e \in Range(p) : e.type = "tool_completed" BY <1>3 DEF Range
<1> QED BY <1>2, <1>5, <1>6, Zenon

\* The text of a history, and of one that goes on.
LEMMA TextsType ==
  ASSUME NEW S, NEW es \in Seq(S), \A x \in S : TextOf(x) \in Seq(STRING)
  PROVE  Texts(es) \in Seq(STRING) /\ Texts(<<>>) = <<>>
<1> DEFINE T == Seq(STRING)
           f == [k \in DOMAIN es |-> TextOf(es[k])]
<1>1. DOMAIN es = 1..Len(es) /\ Len(es) \in Nat /\ \A k \in 1..Len(es) : es[k] \in S OBVIOUS
<1>2. f \in Seq(T)
  <2>1. \A k \in 1..Len(es) : TextOf(es[k]) \in T BY <1>1
  <2> HIDE DEF T
  <2>2. f \in [1..Len(es) -> T] BY <1>1, <2>1
  <2> QED BY <1>1, <2>2
<1>3. FlattenSeq(f) \in Seq(STRING)
  <2> HIDE DEF f
  <2> QED BY <1>2, FlattenType
<1>4. Texts(<<>>) = <<>>
  <2> DEFINE g == [k \in DOMAIN <<>> |-> TextOf(<<>>[k])]
  <2>1. g = <<>> OBVIOUS
  <2>2. <<>> \in Seq(Seq(STRING)) BY EmptySeq
  <2>3. FlattenSeq(<<>>) = <<>> BY <2>2, FlattenType
  <2> HIDE DEF g
  <2>4. FlattenSeq(g) = <<>> BY <2>1, <2>3, Zenon
  <2> QED BY <2>4, Zenon DEF g, Texts
<1> QED BY <1>3, <1>4, Zenon DEF Texts

\* The text of a history that goes on.
LEMMA TextsAppend ==
  ASSUME NEW S, NEW es \in Seq(S), NEW e \in S, \A x \in S : TextOf(x) \in Seq(STRING)
  PROVE  Texts(Append(es, e)) = Texts(es) \o TextOf(e)
<1> DEFINE T == Seq(STRING)
           n == Len(es)
           a == Append(es, e)
           f == [k \in DOMAIN es |-> TextOf(es[k])]
           g == [k \in DOMAIN a |-> TextOf(a[k])]
           x == TextOf(e)
<1>1. DOMAIN es = 1..n /\ n \in Nat /\ \A k \in 1..n : es[k] \in S OBVIOUS
<1>2. /\ DOMAIN a = 1..(n + 1) /\ a[n + 1] = e
      /\ \A k \in 1..n : a[k] = es[k]
  BY <1>1
<1>3. x \in T BY Zenon
<1>4. \A k \in 1..n : TextOf(es[k]) \in T BY <1>1
<1>5. f \in [1..n -> T] /\ (\A k \in 1..n : f[k] = TextOf(es[k]))
  <2> HIDE DEF T, n
  <2> QED BY <1>1, <1>4
<1>6. /\ DOMAIN g = 1..(n + 1) /\ g = [k \in 1..(n + 1) |-> g[k]] /\ g[n + 1] = x
      /\ \A k \in 1..n : g[k] = TextOf(es[k])
  <2> HIDE DEF a, n
  <2> QED BY <1>1, <1>2
<1>7. f \in Seq(T) /\ Len(f) = n
  <2> HIDE DEF T, n, f
  <2> QED BY <1>1, <1>5
<1>8. g = Append(f, x)
  <2> HIDE DEF T, n, f, g, x
  <2>1. /\ DOMAIN Append(f, x) = 1..(n + 1) /\ Append(f, x)[n + 1] = x
        /\ \A k \in 1..n : Append(f, x)[k] = f[k]
        /\ Append(f, x) \in Seq(T)
    BY <1>1, <1>3, <1>7
  <2>2. \A k \in 1..(n + 1) : k \in 1..n \/ k = n + 1 BY <1>1
  <2>3. \A k \in 1..(n + 1) : g[k] = Append(f, x)[k] BY <1>5, <1>6, <2>1, <2>2
  <2>4. Append(f, x) = [k \in 1..(n + 1) |-> Append(f, x)[k]]
    <3>1. \A y \in Seq(T) : DOMAIN y = 1..(n + 1) => y = [k \in 1..(n + 1) |-> y[k]] OBVIOUS
    <3> QED BY <2>1, <3>1, Zenon
  <2> QED BY <1>6, <2>3, <2>4
<1>9. FlattenSeq(Append(f, x)) = FlattenSeq(f) \o x
  <2> HIDE DEF f, x
  <2> QED BY <1>3, <1>7, FlattenAppend
<1>10. FlattenSeq(g) = FlattenSeq(f) \o x
  <2> HIDE DEF f, g, x
  <2> QED BY <1>8, <1>9, Zenon
<1> QED BY <1>10, Zenon DEF Texts

\* The effect of a publication on the invariant, beside what it carries.
LEMMA Published ==
  ASSUME Inv, ~done, NEW N, NEW new \in Seq(N), NEW ends \in BOOLEAN, Store(new, ends),
         UNCHANGED <<cancelled, seen, guard, content, terminal, decision>>,
         wire' \in Seq(Chunk), todo' \in Seq(Parsed),
         ends => consumer' = "returned", ~ends => Sound', guard = "start" => consumer' = "unborn",
         Carried', Whole'
  PROVE  Inv'
<1>1. Types /\ Feeds /\ Ended /\ Carried /\ Reading /\ GuardFailsClosed BY Zenon DEF Inv
<1>2. /\ events' \in Seq(History')
      /\ sub' \in [Subscribers -> Subscription(History')] /\ seen' \in [Subscribers -> Seq(History')]
      /\ \A s \in Subscribers : sub'[s].pc = sub[s].pc
      /\ Feeds'
  <2> HIDE DEF History
  <2> QED BY <1>1, StoreStep, Zenon
<1>3. done' = ends BY Zenon DEF Store
<1>4. Types' BY <1>1, <1>2, <1>3, Zenon DEF Types
<1>5. Ended' BY <1>3, Zenon DEF Ended
<1>6. terminal = <<>> BY <1>1, Zenon DEF Reading
<1>7. Guard \in Subscribers BY Zenon DEF Subscribers
<1>8. Reading'
  <2>1. content = Texts(seen[Guard]) /\ (guard \in {"start", "subscribe"} => sub[Guard].pc = "none")
        /\ (guard # "returned" => decision = NotDecided)
    BY <1>1, Zenon DEF Reading
  <2>2. sub'[Guard].pc = sub[Guard].pc BY <1>2, <1>7, Zenon
  <2>3. content' = Texts(seen'[Guard]) BY <2>1, Zenon
  <2> QED BY <1>6, <2>1, <2>2, <2>3, Zenon DEF Reading
<1>9. GuardFailsClosed'
  <2>1. decision.action \notin {"accept", "proceed", "allow"} BY <1>1, Zenon DEF GuardFailsClosed
  <2>2. \/ decision.action \in {"", "error"}
        \/ validateInputGuardDecision(decision)
        \/ validateOutputGuardDecision(decision)
        \/ ValidateToolCallGuardDecision(decision)
    BY <1>1, Zenon DEF GuardFailsClosed
  <2>3. decision' = decision BY Zenon
  <2> QED BY <2>1, <2>2, <2>3, Zenon DEF GuardFailsClosed
<1> QED BY <1>2, <1>4, <1>5, <1>8, <1>9, Zenon DEF Inv

\* While the stream is open, nothing published completes it.
LEMMA Open ==
  ASSUME Inv, ~done
  PROVE  \A e \in History : TextOf(e) \in Seq(STRING) /\ e.type # "completed"
<1>1. Carried BY Zenon DEF Inv
<1> QED BY <1>1, Zenon DEF Carried

\* publish: one event of a chunk.
LEMMA PublishStep ==
  ASSUME Inv, ~done, NEW event \in Parsed, event.type # "completed", publish(event),
         UNCHANGED <<cancelled, seen, guard, content, terminal, decision>>,
         wire' \in Seq(Chunk), todo' \in Seq(Parsed), guard = "start" => consumer' = "unborn"
  PROVE  Inv'
<1> DEFINE new == <<event>>
<1>1. Store(new, FALSE) /\ failure' = failure /\ result' = result BY Zenon DEF publish
<1>2. Types /\ Feeds /\ Ended BY Zenon DEF Inv
<1>3. new \in Seq(Parsed) /\ Range(new) = {event} BY DEF Range
<1>4. FALSE \in BOOLEAN OBVIOUS
<1>5. History' = History \cup {event}
  <2> HIDE DEF new, History
  <2>1. History' = History \cup Range(new) BY <1>1, <1>2, <1>3, <1>4, StoreStep
  <2> QED BY <1>3, <2>1, Zenon
<1>6. done' = FALSE BY <1>1, Zenon DEF Store
<1>7. Carried'
  <2>1. TextOf(event) \in Seq(STRING) BY ParsedText
  <2>2. \A e \in History : TextOf(e) \in Seq(STRING) /\ e.type # "completed" BY Open
  <2>3. \A e \in History' : TextOf(e) \in Seq(STRING) /\ e.type # "completed"
    <3> HIDE DEF History
    <3> QED BY <1>5, <2>1, <2>2, Zenon
  <2> QED BY <2>3, Zenon DEF Carried
<1>8. Whole' BY <1>6, Zenon DEF Whole
<1>9. Sound' BY <1>1, <1>2, Zenon DEF Ended, Sound
<1>10. Inv'
  <2> HIDE DEF new
  <2>1. PICK ends \in BOOLEAN : ends = FALSE BY <1>4
  <2>2. Store(new, ends) BY <1>1, <2>1, Zenon
  <2> QED BY <1>3, <1>7, <1>8, <1>9, <2>1, <2>2, Published
<1> QED BY <1>10

Failures == {"cancelled", "wire", "malformed"}

\* fail: the stream ends without a result.
LEMMA FailStep ==
  ASSUME Inv, ~done, NEW why, why \in Failures, fail(why),
         UNCHANGED <<cancelled, seen, guard, content, terminal, decision>>,
         wire' \in Seq(Chunk), todo' \in Seq(Parsed), guard # "start", consumer' = "returned"
  PROVE  Inv'
<1> DEFINE event == [type |-> "failed"]
           new == <<event>>
<1>1. Store(new, TRUE) /\ failure' = why /\ result' = result BY Zenon DEF fail
<1>2. Types /\ Feeds BY Zenon DEF Inv
<1>3. new \in Seq({event}) /\ Range(new) = {event}
  <2> HIDE DEF event
  <2> QED BY DEF Range
<1>4. TRUE \in BOOLEAN OBVIOUS
<1>5. History' = History \cup {event}
  <2> HIDE DEF new, History, event
  <2>1. History' = History \cup Range(new) BY <1>1, <1>2, <1>3, <1>4, StoreStep
  <2> QED BY <1>3, <2>1, Zenon
<1>6. Carried'
  <2>1. event.type = "failed" OBVIOUS
  <2>2. TextOf(event) \in Seq(STRING)
    <3>1. <<>> \in Seq(STRING) BY EmptySeq
    <3> HIDE DEF event
    <3> QED BY <2>1, <3>1 DEF TextOf
  <2>3. \A e \in History : TextOf(e) \in Seq(STRING) /\ e.type # "completed" BY Open
  <2>4. \A e \in History' : TextOf(e) \in Seq(STRING) /\ e.type # "completed"
    <3>1. event.type # "completed" BY <2>1
    <3> HIDE DEF History, event
    <3> QED BY <1>5, <2>2, <2>3, <3>1, Zenon
  <2> QED BY <2>4, Zenon DEF Carried
<1>7. Whole'
  <2>1. why # "" BY Zenon DEF Failures
  <2> QED BY <1>1, <2>1, Zenon DEF Whole, Sound
<1>8. Inv'
  <2> HIDE DEF new
  <2>1. PICK ends \in BOOLEAN : ends = TRUE BY <1>4
  <2>2. Store(new, ends) BY <1>1, <2>1, Zenon
  <2> QED BY <1>3, <1>6, <1>7, <2>1, <2>2, Published
<1> QED BY <1>8

\* What complete does with the pending calls and the result.
LEMMA Completing ==
  ASSUME complete
  PROVE  LET pending == pendingToolCompletionEvents(events)
             r == Result(events \o pending)
         IN IF ResultIsError(events \o pending) THEN fail("malformed")
            ELSE /\ Store(Append(pending, [type |-> "completed", result |-> r]), TRUE)
                 /\ result' = r /\ failure' = failure
  BY Zenon DEF complete

\* complete: the stream ends with the result of its history, or fails.
LEMMA CompleteStep ==
  ASSUME Inv, ~done, complete,
         UNCHANGED <<cancelled, seen, guard, content, terminal, decision>>,
         wire' \in Seq(Chunk), todo' \in Seq(Parsed), guard # "start", consumer' = "returned"
  PROVE  Inv'
<1> DEFINE pending == pendingToolCompletionEvents(events)
           all == events \o pending
           r == Result(all)
           event == [type |-> "completed", result |-> r]
           new == Append(pending, event)
           N == Range(pending) \cup {event}
           H == History \cup N
<1>1. CASE ResultIsError(all)
  <2>1. fail("malformed") BY <1>1, Completing, Zenon
  <2>2. "malformed" \in Failures BY Zenon DEF Failures
  <2> QED BY <2>1, <2>2, FailStep
<1>2. CASE ~ResultIsError(all)
  <2>1. Store(new, TRUE) /\ result' = r /\ failure' = failure BY <1>2, Completing, Zenon
  <2>2. Types /\ Feeds /\ Ended BY Zenon DEF Inv
  <2>3. events \in Seq(History) BY <2>2, Zenon DEF Types
  <2>4. pending \in Seq(Range(pending)) /\ \A e \in Range(pending) : e.type = "tool_completed"
    <3> HIDE DEF pending, History
    <3>1. \A es \in Seq(History) :
            /\ pendingToolCompletionEvents(es) \in Seq(Range(pendingToolCompletionEvents(es)))
            /\ \A e \in Range(pendingToolCompletionEvents(es)) : e.type = "tool_completed"
      BY PendingType
    <3> QED BY <2>3, <3>1, Zenon DEF pending
  <2>5. pending \in Seq(N) /\ event \in N
    <3> HIDE DEF pending, event
    <3> QED BY <2>4, SeqMonotonic
  <2>6. new \in Seq(N) /\ Range(new) = N
    <3> DEFINE P == Range(pending)
    <3>1. new = pending \o <<event>>
      <4> HIDE DEF pending, event, N
      <4> QED BY <2>5, AppendIsConcat
    <3>2. <<event>> \in Seq(N) /\ Range(<<event>>) = {event}
      <4> HIDE DEF event, pending, N
      <4> QED BY <2>5 DEF Range
    <3>3. Range(pending \o <<event>>) = Range(pending) \cup Range(<<event>>)
      <4> HIDE DEF pending, event, N
      <4>1. \A s, t \in Seq(N) : Range(s \o t) = Range(s) \cup Range(t) BY RangeConcatenation
      <4> QED BY <2>5, <3>2, <4>1, Zenon
    <3>4. new \in Seq(N)
      <4> HIDE DEF pending, event, N
      <4> QED BY <2>5, AppendProperties
    <3> QED BY <3>1, <3>2, <3>3, <3>4, Zenon
  <2>7. TRUE \in BOOLEAN OBVIOUS
  <2>8. History' = H
    <3> HIDE DEF new, History, N
    <3>1. History' = History \cup Range(new) BY <2>1, <2>2, <2>6, <2>7, StoreStep
    <3> QED BY <2>6, <3>1, Zenon
  <2>9. done' = TRUE /\ events' = events \o new BY <2>1, Zenon DEF Store
  <2>10. Sound' BY <2>1, <2>2, Zenon DEF Ended, Sound
  <2>11. /\ \A e \in History : TextOf(e) \in Seq(STRING) /\ e.type # "completed"
         /\ \A e \in Range(pending) : TextOf(e) = <<>> /\ e.type # "completed"
         /\ event.type = "completed" /\ event.result = r /\ TextOf(event) = <<>>
    <3>1. \A e \in History : TextOf(e) \in Seq(STRING) /\ e.type # "completed" BY Open
    <3>2. "tool_completed" # "content" /\ "tool_completed" # "completed" /\ "completed" # "content" OBVIOUS
    <3>3. \A e \in Range(pending) : TextOf(e) = <<>> /\ e.type # "completed"
      <4> HIDE DEF pending
      <4> QED BY <2>4, <3>2, Zenon DEF TextOf
    <3>4. event.type = "completed" /\ event.result = r
      <4> HIDE DEF r
      <4> QED OBVIOUS
    <3>5. TextOf(event) = <<>>
      <4> HIDE DEF event
      <4> QED BY <3>2, <3>4, Zenon DEF TextOf
    <3> QED BY <3>1, <3>3, <3>4, <3>5, Zenon
  <2>12. \A e \in H : TextOf(e) \in Seq(STRING)
    <3>1. <<>> \in Seq(STRING) BY EmptySeq
    <3> HIDE DEF History, pending, event
    <3> QED BY <2>11, <3>1, Zenon
  <2>13. Carried'
    <3>1. \A e \in History' : TextOf(e) \in Seq(STRING) BY <2>8, <2>12, Zenon
    <3>2. \A e \in H : e.type = "completed" => e.result = r
      <4> HIDE DEF History, pending, event, r
      <4> QED BY <2>11, Zenon
    <3>3. \A e \in History' : e.type = "completed" => done' /\ Sound' /\ e.result = result'
      <4> HIDE DEF H, History, r
      <4> QED BY <2>1, <2>8, <2>9, <2>10, <3>2, Zenon
    <3> QED BY <3>1, <3>3, Zenon DEF Carried
  <2>14. events' = Append(all, event) /\ all \in Seq(H) /\ event \in H
    <3>1. events \in Seq(H) /\ pending \in Seq(H) /\ event \in H
      <4> HIDE DEF History, pending, event
      <4> QED BY <2>3, <2>5, SeqMonotonic
    <3> HIDE DEF H, pending, event
    <3>2. all \in Seq(H)
      <4>1. \A s, t \in Seq(H) : s \o t \in Seq(H) BY ConcatProperties
      <4> QED BY <3>1, <4>1, Zenon
    <3>3. events \o Append(pending, event) = Append(events \o pending, event)
      <4>1. \A s, t \in Seq(H) : \A e \in H : s \o Append(t, e) = Append(s \o t, e)
        <5> SUFFICES ASSUME NEW s \in Seq(H), NEW t \in Seq(H), NEW e \in H
                     PROVE  s \o Append(t, e) = Append(s \o t, e)
          OBVIOUS
        <5>1. Append(t, e) = t \o <<e>> BY AppendIsConcat
        <5>2. s \o t \in Seq(H) /\ <<e>> \in Seq(H) BY ConcatProperties
        <5>3. Append(s \o t, e) = (s \o t) \o <<e>> BY <5>2, AppendIsConcat
        <5>4. (s \o t) \o <<e>> = s \o (t \o <<e>>)
          <6>1. PICK u \in Seq(H) : u = <<e>> BY <5>2
          <6>2. (s \o t) \o u = s \o (t \o u) BY ConcatAssociative, SMTT(20)
          <6> QED BY <6>1, <6>2, Zenon
        <5> QED BY <5>1, <5>3, <5>4, Zenon
      <4> QED BY <3>1, <4>1, Zenon
    <3> QED BY <2>9, <3>1, <3>2, <3>3, Zenon
  <2>15. Whole'
    <3> DEFINE text == Texts(all)
    <3>1. r.content = text
      <4> HIDE DEF all
      <4> QED BY DEF Result
    <3>2. Texts(Append(all, event)) = text \o TextOf(event) /\ text \in Seq(STRING)
      <4> HIDE DEF all, H, event
      <4>1. Texts(Append(all, event)) = Texts(all) \o TextOf(event) BY <2>12, <2>14, TextsAppend
      <4>2. Texts(all) \in Seq(STRING) BY <2>12, <2>14, TextsType
      <4> QED BY <4>1, <4>2
    <3> HIDE DEF text
    <3>3. text \o <<>> = text BY <3>2, ConcatEmptySeq
    <3> HIDE DEF r, all, event
    <3>4. Texts(events') = text BY <2>11, <2>14, <3>2, <3>3, Zenon
    <3> QED BY <2>1, <3>1, <3>4, Zenon DEF Whole
  <2>16. Inv'
    <3> HIDE DEF new, N
    <3>1. PICK ends \in BOOLEAN : ends = TRUE BY <2>7
    <3>2. Store(new, ends) BY <2>1, <3>1, Zenon
    <3> QED BY <2>6, <2>13, <2>15, <3>1, <3>2, Published
  <2> QED BY <2>16
<1> QED BY <1>1, <1>2

-----------------------------------------------------------------------------
(* The steps of the consumer. *)

\* The consumer goes on without touching the stream.
LEMMA QuietStep ==
  ASSUME Inv, ~done, guard # "start", wire' \in Seq(Chunk), todo' \in Seq(Parsed),
         UNCHANGED <<cancelled, stream, sub, seen, reader>>
  PROVE  Inv'
<1>1. Types /\ Feeds /\ Ended /\ Carried /\ Whole /\ Reading /\ GuardFailsClosed BY Zenon DEF Inv
<1>2. /\ cancelled' = cancelled /\ events' = events /\ done' = done /\ failure' = failure /\ result' = result
      /\ sub' = sub /\ seen' = seen /\ guard' = guard /\ content' = content /\ terminal' = terminal
      /\ decision' = decision
  BY Zenon DEF stream, reader
<1>3. Types' BY <1>1, <1>2, Zenon DEF Types, History
<1>4. Feeds'
  <2> SUFFICES ASSUME NEW s \in Subscribers PROVE Fed(s, seen[s], sub[s], events, done)' BY DEF Feeds
  <2>1. Fed(s, seen[s], sub[s], events, done) BY <1>1, Zenon DEF Feeds
  <2>2. Watches(s)' <=> Watches(s) BY <1>2 DEF Watches
  <2> QED BY <1>2, <2>1, <2>2 DEF Fed
<1>5. Ended' BY <1>1, <1>2, Zenon DEF Ended, Sound
<1>6. Carried' BY <1>1, <1>2, Zenon DEF Carried, History, Sound
<1>7. Whole' BY <1>1, <1>2, Zenon DEF Whole, Sound
<1>8. Reading' BY <1>1, <1>2, Zenon DEF Reading, Sound
<1>9. GuardFailsClosed' BY <1>1, <1>2, Zenon DEF GuardFailsClosed
<1> QED BY <1>3, <1>4, <1>5, <1>6, <1>7, <1>8, <1>9, Zenon DEF Inv

\* While the consumer works, its stream is open and the guard has started it.
LEMMA Working ==
  ASSUME Inv, consumer \notin {"unborn", "returned"}
  PROVE  ~done /\ guard # "start" /\ wire \in Seq(Chunk) /\ todo \in Seq(Parsed)
<1>1. Ended BY Zenon DEF Inv
<1>2. wire \in Seq(Chunk) /\ todo \in Seq(Parsed) BY Zenon DEF Inv, Types
<1>3. consumer # "returned" /\ consumer # "unborn" OBVIOUS
<1> QED BY <1>1, <1>2, <1>3, Zenon DEF Ended

\* Looking at the context keeps the invariant.
LEMMA ConsumeTopStep == ASSUME Inv, ConsumeTop PROVE Inv'
<1>1. /\ consumer = "top" /\ UNCHANGED <<cancelled, wire, got, todo, seen, reader>>
      /\ IF cancelled THEN fail("cancelled") /\ consumer' = "returned"
         ELSE consumer' = "recv" /\ UNCHANGED <<stream, sub>>
  BY Zenon DEF ConsumeTop
<1>2. ~done /\ guard # "start" /\ wire \in Seq(Chunk) /\ todo \in Seq(Parsed)
  <2>1. consumer \notin {"unborn", "returned"} BY <1>1
  <2> QED BY <2>1, Working
<1>3. wire' \in Seq(Chunk) /\ todo' \in Seq(Parsed) BY <1>1, <1>2, Zenon
<1>4. UNCHANGED <<cancelled, seen, guard, content, terminal, decision>> BY <1>1, Zenon DEF reader
<1>5. CASE cancelled
  <2>1. fail("cancelled") /\ consumer' = "returned" BY <1>1, <1>5, Zenon
  <2>2. "cancelled" \in Failures BY Zenon DEF Failures
  <2> QED BY <1>2, <1>3, <1>4, <2>1, <2>2, FailStep, Zenon
<1>6. CASE ~cancelled
  <2>1. UNCHANGED <<cancelled, stream, sub, seen, reader>> BY <1>1, <1>6, Zenon
  <2> QED BY <1>2, <1>3, <2>1, QuietStep, Zenon
<1> QED BY <1>5, <1>6

\* A chunk, an end or an error of the wire keeps it.
LEMMA RecvStep == ASSUME Inv, Recv PROVE Inv'
<1>1. consumer = "recv" BY Zenon DEF Recv, RecvChunk, RecvEOF, RecvError
<1>2. ~done /\ guard # "start" /\ wire \in Seq(Chunk) /\ todo \in Seq(Parsed)
  <2>1. consumer \notin {"unborn", "returned"} BY <1>1
  <2> QED BY <2>1, Working
<1>3. CASE RecvChunk
  <2>1. /\ wire # <<>> /\ wire' = Tail(wire) /\ todo' = Parse(Head(wire))
        /\ UNCHANGED <<cancelled, stream, sub, seen, reader>>
    BY <1>3, Zenon DEF RecvChunk
  <2>2. Head(wire) \in Chunk /\ Tail(wire) \in Seq(Chunk)
    <3>1. \A w \in Seq(Chunk) : w # <<>> => Head(w) \in Chunk /\ Tail(w) \in Seq(Chunk) BY HeadTailProperties
    <3> QED BY <1>2, <2>1, <3>1, Zenon
  <2>3. Parse(Head(wire)) \in Seq(Parsed) BY <2>2, ParseType
  <2> QED BY <1>2, <2>1, <2>2, <2>3, QuietStep, Zenon
<1>4. CASE RecvEOF
  <2>1. /\ complete /\ consumer' = "returned"
        /\ UNCHANGED <<cancelled, wire, got, todo, seen, reader>>
    BY <1>4, Zenon DEF RecvEOF
  <2>2. wire' \in Seq(Chunk) /\ todo' \in Seq(Parsed) BY <1>2, <2>1, Zenon
  <2>3. UNCHANGED <<cancelled, seen, guard, content, terminal, decision>> BY <2>1, Zenon DEF reader
  <2> QED BY <1>2, <2>1, <2>2, <2>3, CompleteStep, Zenon
<1>5. CASE RecvError
  <2>1. /\ fail("wire") /\ consumer' = "returned"
        /\ UNCHANGED <<cancelled, wire, got, todo, seen, reader>>
    BY <1>5, Zenon DEF RecvError
  <2>2. wire' \in Seq(Chunk) /\ todo' \in Seq(Parsed) BY <1>2, <2>1, Zenon
  <2>3. UNCHANGED <<cancelled, seen, guard, content, terminal, decision>> BY <2>1, Zenon DEF reader
  <2>4. "wire" \in Failures BY Zenon DEF Failures
  <2> QED BY <1>2, <2>1, <2>2, <2>3, <2>4, FailStep, Zenon
<1> QED BY <1>3, <1>4, <1>5, Zenon DEF Recv

\* An event of a chunk keeps it, the one that completes the stream too.
LEMMA PublishActionStep == ASSUME Inv, Publish PROVE Inv'
<1>1. /\ consumer = "publish" /\ UNCHANGED <<cancelled, wire, got, seen, reader>>
      /\ IF todo = <<>> THEN consumer' = "top" /\ UNCHANGED <<todo, stream, sub>>
         ELSE /\ todo' = Tail(todo)
              /\ IF Head(todo).type = "completed" THEN complete /\ consumer' = "returned"
                 ELSE publish(Head(todo)) /\ UNCHANGED consumer
  BY Zenon DEF Publish
<1>2. ~done /\ guard # "start" /\ wire \in Seq(Chunk) /\ todo \in Seq(Parsed)
  <2>1. consumer \notin {"unborn", "returned"} BY <1>1
  <2> QED BY <2>1, Working
<1>3. UNCHANGED <<cancelled, seen, guard, content, terminal, decision>> BY <1>1, Zenon DEF reader
<1>4. wire' \in Seq(Chunk) BY <1>1, <1>2, Zenon
<1>5. CASE todo = <<>>
  <2>1. todo' = todo /\ UNCHANGED <<cancelled, stream, sub, seen, reader>> BY <1>1, <1>5, Zenon
  <2>2. todo' \in Seq(Parsed) BY <1>2, <2>1, Zenon
  <2> QED BY <1>2, <1>4, <2>1, <2>2, QuietStep, Zenon
<1>6. CASE todo # <<>>
  <2>1. Head(todo) \in Parsed /\ Tail(todo) \in Seq(Parsed)
    <3>1. \A w \in Seq(Parsed) : w # <<>> => Head(w) \in Parsed /\ Tail(w) \in Seq(Parsed) BY HeadTailProperties
    <3> QED BY <1>2, <1>6, <3>1, Zenon
  <2>2. todo' \in Seq(Parsed) BY <1>1, <1>6, <2>1, Zenon
  <2>3. CASE Head(todo).type = "completed"
    <3>1. complete /\ consumer' = "returned" BY <1>1, <1>6, <2>3, Zenon
    <3> QED BY <1>2, <1>3, <1>4, <2>2, <3>1, CompleteStep, Zenon
  <2>4. CASE Head(todo).type # "completed"
    <3>1. publish(Head(todo)) BY <1>1, <1>6, <2>4, Zenon
    <3>2. guard = "start" => consumer' = "unborn" BY <1>2
    <3> QED BY <1>2, <1>3, <1>4, <2>1, <2>2, <2>4, <3>1, <3>2, PublishStep, Zenon
  <2> QED BY <2>3, <2>4
<1> QED BY <1>5, <1>6

\* A cancelled context excuses the guard's subscription and changes nothing else.
LEMMA CancelStep == ASSUME Inv, Cancel PROVE Inv'
<1>1. Types /\ Feeds /\ Ended /\ Carried /\ Whole /\ Reading /\ GuardFailsClosed BY Zenon DEF Inv
<1>2. /\ cancelled' = TRUE /\ events' = events /\ done' = done /\ failure' = failure /\ result' = result
      /\ sub' = sub /\ seen' = seen /\ guard' = guard /\ content' = content /\ terminal' = terminal
      /\ decision' = decision /\ consumer' = consumer /\ wire' = wire /\ todo' = todo
  BY Zenon DEF Cancel, stream, reader
<1>3. Types'
  <2>1. cancelled' \in BOOLEAN BY <1>2
  <2> QED BY <1>1, <1>2, <2>1, Zenon DEF Types, History
<1>4. Feeds'
  <2> SUFFICES ASSUME NEW s \in Subscribers PROVE Fed(s, seen[s], sub[s], events, done)' BY DEF Feeds
  <2>1. Fed(s, seen[s], sub[s], events, done) BY <1>1, Zenon DEF Feeds
  <2>2. Watches(s) => Watches(s)' BY <1>2 DEF Watches
  <2> QED BY <1>2, <2>1, <2>2 DEF Fed
<1>5. Ended' BY <1>1, <1>2, Zenon DEF Ended, Sound
<1>6. Carried' BY <1>1, <1>2, Zenon DEF Carried, History, Sound
<1>7. Whole' BY <1>1, <1>2, Zenon DEF Whole, Sound
<1>8. Reading' BY <1>1, <1>2, Zenon DEF Reading, Sound
<1>9. GuardFailsClosed' BY <1>1, <1>2, Zenon DEF GuardFailsClosed
<1> QED BY <1>3, <1>4, <1>5, <1>6, <1>7, <1>8, <1>9, Zenon DEF Inv

-----------------------------------------------------------------------------
(* The steps of the subscribers. *)

\* What a step of the subscription of s keeps, when nothing is read by the guard.
LEMMA SubscriberStep ==
  ASSUME Inv, NEW s \in Subscribers, NEW r \in Subscription(History), NEW y \in Seq(History),
         sub' = [sub EXCEPT ![s] = r], seen' = [seen EXCEPT ![s] = y], Fed(s, y, r, events, done),
         s = Guard => y = seen[Guard] /\ guard' \notin {"start", "subscribe"},
         UNCHANGED <<cancelled, wire, consumer, todo, stream, content, terminal, decision>>,
         guard' = guard \/ (guard = "subscribe" /\ guard' = "read")
  PROVE  Inv'
<1>1. Types /\ Feeds /\ Ended /\ Carried /\ Whole /\ Reading /\ GuardFailsClosed BY Zenon DEF Inv
<1>2. /\ cancelled' = cancelled /\ events' = events /\ done' = done /\ failure' = failure /\ result' = result
      /\ wire' = wire /\ consumer' = consumer /\ todo' = todo
      /\ content' = content /\ terminal' = terminal /\ decision' = decision
  BY Zenon DEF stream
<1>3. UNCHANGED <<cancelled, events, done>> BY <1>2
<1>4. /\ sub' \in [Subscribers -> Subscription(History)] /\ seen' \in [Subscribers -> Seq(History)]
      /\ seen'[s] = y
      /\ \A q \in Subscribers : q # s => sub'[q] = sub[q] /\ seen'[q] = seen[q]
      /\ Feeds'
  BY <1>1, <1>3, OneSubscriber, Zenon
<1>5. History' = History BY <1>2, Zenon DEF History
<1>6. Types' BY <1>1, <1>2, <1>4, <1>5, Zenon DEF Types
<1>7. Ended' BY <1>1, <1>2, Zenon DEF Ended, Sound
<1>8. Carried' BY <1>1, <1>2, <1>5, Zenon DEF Carried, Sound
<1>9. Whole' BY <1>1, <1>2, Zenon DEF Whole, Sound
<1>10. Guard \in Subscribers BY Zenon DEF Subscribers
<1>11. Reading'
  <2>1. /\ content = Texts(seen[Guard]) /\ (guard \in {"start", "subscribe"} => sub[Guard].pc = "none")
        /\ (guard # "returned" => decision = NotDecided)
        /\ (terminal # <<>> => done /\ Sound /\ terminal = <<result.content>>)
    BY <1>1, Zenon DEF Reading
  <2>2. seen'[Guard] = seen[Guard] BY <1>4, <1>10, Zenon
  <2>3. content' = Texts(seen'[Guard]) BY <1>2, <2>1, <2>2, Zenon
  <2>4. guard' \in {"start", "subscribe"} => sub'[Guard].pc = "none"
    <3>1. ASSUME guard' \in {"start", "subscribe"} PROVE sub'[Guard].pc = "none"
      <4>1. s # Guard BY <3>1, Zenon
      <4>2. sub'[Guard] = sub[Guard] BY <1>4, <1>10, <4>1, Zenon
      <4>3. guard' = guard BY <3>1
      <4>4. sub[Guard].pc = "none" BY <2>1, <3>1, <4>3, Zenon
      <4> QED BY <4>2, <4>4, Zenon
    <3> QED BY <3>1
  <2>5. guard' # "returned" => decision' = NotDecided BY <1>2, <2>1
  <2> QED BY <1>2, <2>1, <2>3, <2>4, <2>5, Zenon DEF Reading, Sound
<1>12. GuardFailsClosed' BY <1>1, <1>2, Zenon DEF GuardFailsClosed
<1>13. Ended'
  <2>1. guard' = "start" => guard = "start" OBVIOUS
  <2> QED BY <1>1, <1>2, <2>1, Zenon DEF Ended, Sound
<1> QED BY <1>4, <1>6, <1>8, <1>9, <1>11, <1>12, <1>13, Zenon DEF Inv

\* A function is itself with one of its values.
LEMMA Same == ASSUME NEW S, NEW T, NEW f \in [S -> T], NEW s \in S PROVE f = [f EXCEPT ![s] = f[s]]
  OBVIOUS

\* What is known of one subscriber.
LEMMA OfSubscriber ==
  ASSUME Inv, NEW s \in Subscribers
  PROVE  /\ sub[s] \in Subscription(History) /\ seen[s] \in Seq(History) /\ events \in Seq(History)
         /\ Fed(s, seen[s], sub[s], events, done) /\ done \in BOOLEAN
         /\ seen = [seen EXCEPT ![s] = seen[s]]
<1>1. Types /\ Feeds BY Zenon DEF Inv
<1>2. /\ sub \in [Subscribers -> Subscription(History)] /\ seen \in [Subscribers -> Seq(History)]
      /\ events \in Seq(History) /\ done \in BOOLEAN
  BY <1>1, Zenon DEF Types
<1>3. sub[s] \in Subscription(History) /\ seen[s] \in Seq(History)
  <2> DEFINE T == Subscription(History)
             U == Seq(History)
  <2> HIDE DEF T, U
  <2>1. sub \in [Subscribers -> T] /\ seen \in [Subscribers -> U] BY <1>2 DEF T, U
  <2>2. sub[s] \in T /\ seen[s] \in U BY <2>1
  <2> QED BY <2>2 DEF T, U
<1>4. seen = [seen EXCEPT ![s] = seen[s]] BY <1>2, Same, Zenon
<1>5. Fed(s, seen[s], sub[s], events, done) BY <1>1, Zenon DEF Feeds
<1> QED BY <1>2, <1>3, <1>4, <1>5

\* A step of a subscription's goroutine keeps the invariant.
LEMMA RunSubscriptionStep == ASSUME Inv, NEW s \in Subscribers, RunSubscription(s) PROVE Inv'
<1> DEFINE H == History
           x == seen[s]
           b == sub[s]
<1>1. /\ b \in Subscription(H) /\ x \in Seq(H) /\ events \in Seq(H)
      /\ Fed(s, x, b, events, done) /\ seen = [seen EXCEPT ![s] = x]
  BY OfSubscriber, Zenon
<1>2. UNCHANGED <<cancelled, wire, consumer, todo, stream, seen, guard, content, terminal, decision>>
  BY Zenon DEF RunSubscription, reader
<1>3. guard' = guard /\ seen' = [seen EXCEPT ![s] = x] BY <1>1, <1>2, Zenon
<1>4. b.pc \in {"take", "send", "wait"} BY Zenon DEF RunSubscription, Take, Send, Wait
<1>5. s = Guard => guard' \notin {"start", "subscribe"}
  <2>1. Reading BY Zenon DEF Inv
  <2>2. ASSUME s = Guard, guard \in {"start", "subscribe"} PROVE FALSE
    <3>1. b.pc = "none" BY <2>1, <2>2, Zenon DEF Reading
    <3> HIDE DEF b
    <3> QED BY <1>4, <3>1
  <2> QED BY <1>3, <2>2, Zenon
\* It is enough that the subscription stays well fed.
<1>6. ASSUME NEW r \in Subscription(H), sub' = [sub EXCEPT ![s] = r], Fed(s, x, r, events, done)
      PROVE  Inv'
  <2>1. s = Guard => x = seen[Guard] /\ guard' \notin {"start", "subscribe"} BY <1>5, Zenon
  <2>2. UNCHANGED <<cancelled, wire, consumer, todo, stream, content, terminal, decision>> BY <1>2, Zenon
  <2> QED BY <1>1, <1>3, <1>6, <2>1, <2>2, SubscriberStep, Zenon
<1>7. ASSUME Leave(s), Watches(s) \/ (b.pc = "take" /\ b.queue = <<>> /\ b.closed) PROVE Inv'
  <2> DEFINE r == [b EXCEPT !.pc = "gone", !.held = <<>>, !.queue = <<>>]
  <2>1. sub' = [sub EXCEPT ![s] = r]
    <3>1. \A T : \A f \in [Subscribers -> T] :
            [f EXCEPT ![s].pc = "gone", ![s].held = <<>>, ![s].queue = <<>>]
              = [f EXCEPT ![s] = [f[s] EXCEPT !.pc = "gone", !.held = <<>>, !.queue = <<>>]]
      OBVIOUS
    <3>2. sub \in [Subscribers -> Subscription(History)] BY Zenon DEF Inv, Types
    <3> QED BY <1>7, <3>1, <3>2, Zenon DEF Leave
  <2>2. r \in Subscription(H) /\ Fed(s, x, r, events, done)
    <3>1. PICK c \in Subscription(H) : c = b BY <1>1
    <3>2. PICK z \in Seq(H) : z = x BY <1>1
    <3>3. Fed(s, z, c, events, done) BY <1>1, <3>1, <3>2, Zenon
    <3>4. c.pc \in {"take", "send", "wait"} /\ (Watches(s) \/ (c.pc = "take" /\ c.queue = <<>> /\ c.closed))
      BY <1>4, <1>7, <3>1, Zenon
    <3>5. LET q == [c EXCEPT !.pc = "gone", !.held = <<>>, !.queue = <<>>]
          IN q \in Subscription(H) /\ Fed(s, z, q, events, done)
      BY <1>1, <3>3, <3>4, FedLeave, Zenon
    <3> QED BY <3>1, <3>2, <3>5, Zenon
  <2> HIDE DEF r
  <2> QED BY <1>6, <2>1, <2>2, Zenon
<1>8. CASE Take(s)
  <2>1. CASE b.queue = <<>> /\ b.closed
    <3>1. Leave(s) /\ b.pc = "take" BY <1>8, <2>1, Zenon DEF Take
    <3> QED BY <1>7, <2>1, <3>1, Zenon
  <2>2. CASE ~(b.queue = <<>> /\ b.closed)
    <3> DEFINE r == IF b.queue = <<>> THEN [b EXCEPT !.pc = "wait"]
                    ELSE [b EXCEPT !.held = <<Head(b.queue)>>, !.queue = Tail(@), !.pc = "send"]
    <3>1. Advance(s) /\ b.pc = "take" BY <1>8, <2>2, Zenon DEF Take
    <3>2. sub' = [sub EXCEPT ![s] = r] BY <3>1, Zenon DEF Advance
    <3>3. r \in Subscription(H) /\ Fed(s, x, r, events, done)
      <4>1. PICK c \in Subscription(H) : c = b BY <1>1
      <4>2. Fed(s, x, c, events, done) /\ c.pc = "take" BY <1>1, <3>1, <4>1, Zenon
      <4>3. LET q == IF c.queue = <<>> THEN [c EXCEPT !.pc = "wait"]
                     ELSE [c EXCEPT !.held = <<Head(c.queue)>>, !.queue = Tail(@), !.pc = "send"]
            IN q \in Subscription(H) /\ Fed(s, x, q, events, done)
        BY <1>1, <4>2, FedAdvance, Zenon
      <4> QED BY <4>1, <4>3, Zenon
    <3> HIDE DEF r
    <3> QED BY <1>6, <3>2, <3>3, Zenon
  <2> QED BY <2>1, <2>2
<1>9. CASE Send(s)
  <2>1. CASE Watches(s) /\ Leave(s) BY <1>7, <2>1, Zenon
  <2>2. CASE sub' = [sub EXCEPT ![s] =
                 [@ EXCEPT !.channel = sub[s].channel \o sub[s].held, !.held = <<>>, !.pc = "take"]]
    <3> DEFINE r == [b EXCEPT !.channel = @ \o b.held, !.held = <<>>, !.pc = "take"]
    <3>1. b.pc = "send" BY <1>9, Zenon DEF Send
    <3>2. sub' = [sub EXCEPT ![s] = r] BY <2>2, Zenon
    <3>3. r \in Subscription(H) /\ Fed(s, x, r, events, done)
      <4>1. PICK c \in Subscription(H) : c = b BY <1>1
      <4>2. Fed(s, x, c, events, done) /\ c.pc = "send" BY <1>1, <3>1, <4>1, Zenon
      <4>3. LET q == [c EXCEPT !.channel = @ \o c.held, !.held = <<>>, !.pc = "take"]
            IN q \in Subscription(H) /\ Fed(s, x, q, events, done)
        BY <1>1, <4>2, FedSend, Zenon
      <4> QED BY <4>1, <4>3, Zenon
    <3> HIDE DEF r
    <3> QED BY <1>6, <3>2, <3>3, Zenon
  <2> QED BY <1>9, <2>1, <2>2, Zenon DEF Send
<1>10. CASE Wait(s)
  <2>1. CASE Watches(s) /\ Leave(s) BY <1>7, <2>1, Zenon
  <2>2. CASE sub' = [sub EXCEPT ![s] = [@ EXCEPT !.notify = FALSE, !.pc = "take"]]
    <3> DEFINE r == [b EXCEPT !.notify = FALSE, !.pc = "take"]
    <3>1. b.pc = "wait" BY <1>10, Zenon DEF Wait
    <3>2. sub' = [sub EXCEPT ![s] = r] BY <2>2, Zenon
    <3>3. r \in Subscription(H) /\ Fed(s, x, r, events, done)
      <4>1. PICK c \in Subscription(H) : c = b BY <1>1
      <4>2. Fed(s, x, c, events, done) /\ c.pc = "wait" BY <1>1, <3>1, <4>1, Zenon
      <4>3. LET q == [c EXCEPT !.notify = FALSE, !.pc = "take"]
            IN q \in Subscription(H) /\ Fed(s, x, q, events, done)
        BY <1>1, <4>2, FedWake, Zenon
      <4> QED BY <4>1, <4>3, Zenon
    <3> HIDE DEF r
    <3> QED BY <1>6, <3>2, <3>3, Zenon
  <2> QED BY <1>10, <2>1, <2>2, Zenon DEF Wait
<1> QED BY <1>8, <1>9, <1>10, Zenon DEF RunSubscription

\* A subscription made at any moment keeps it.
LEMMA SubscribesStep ==
  ASSUME Inv, NEW s \in Subscribers, Subscribe(s), sub[s].pc = "none",
         UNCHANGED <<cancelled, wire, consumer, todo, stream, seen, content, terminal, decision>>,
         guard' = guard \/ (guard = "subscribe" /\ guard' = "read"),
         s = Guard => guard' \notin {"start", "subscribe"}
  PROVE  Inv'
<1> DEFINE H == History
           x == seen[s]
           b == sub[s]
           r == Replayed(events, done)
<1>1. /\ b \in Subscription(H) /\ x \in Seq(H) /\ events \in Seq(H) /\ done \in BOOLEAN
      /\ Fed(s, x, b, events, done) /\ seen = [seen EXCEPT ![s] = x]
  BY OfSubscriber, Zenon
<1>2. sub' = [sub EXCEPT ![s] = r] BY Zenon DEF Subscribe, Replayed
<1>3. r \in Subscription(H) /\ Fed(s, x, r, events, done)
  <2>1. PICK y \in Seq(H) : y = x BY <1>1
  <2>2. Fed(s, y, b, events, done) BY <1>1, <2>1, Zenon
  <2>3. Replayed(events, done) \in Subscription(H) /\ Fed(s, y, Replayed(events, done), events, done)
    <3>1. PICK d \in BOOLEAN : d = done BY <1>1
    <3>2. Fed(s, y, b, events, d) /\ b.pc = "none" BY <2>2, <3>1, Zenon
    <3> HIDE DEF b
    <3>3. Replayed(events, d) \in Subscription(H) /\ Fed(s, y, Replayed(events, d), events, d)
      BY <1>1, <3>2, FedSubscribe
    <3> QED BY <3>1, <3>3, Zenon
  <2> QED BY <2>1, <2>3, Zenon
<1>4. seen' = [seen EXCEPT ![s] = x] BY <1>1, Zenon
<1>5. UNCHANGED <<cancelled, wire, consumer, todo, stream, content, terminal, decision>> BY Zenon
<1>6. s = Guard => x = seen[Guard] /\ guard' \notin {"start", "subscribe"} BY Zenon
<1> HIDE DEF r
<1> QED BY <1>1, <1>2, <1>3, <1>4, <1>5, <1>6, SubscriberStep, Zenon

\* That of a watcher.
LEMMA WatcherSubscribesStep == ASSUME Inv, NEW s \in Watchers, WatcherSubscribes(s) PROVE Inv'
<1>1. /\ Subscribe(s) /\ sub[s].pc = "none"
      /\ UNCHANGED <<cancelled, wire, consumer, todo, stream, seen, content, terminal, decision>>
      /\ guard' = guard
  BY Zenon DEF WatcherSubscribes, reader
<1>2. s \in Subscribers /\ s # Guard BY ModelCallAssumption, Zenon DEF Subscribers
<1> QED BY <1>1, <1>2, SubscribesStep, Zenon

\* That of the guard.
LEMMA GuardSubscribesStep == ASSUME Inv, GuardSubscribes PROVE Inv'
<1>1. /\ guard = "subscribe" /\ Subscribe(Guard) /\ guard' = "read"
      /\ UNCHANGED <<cancelled, wire, consumer, todo, stream, seen, content, terminal, decision>>
  BY Zenon DEF GuardSubscribes
<1>2. Guard \in Subscribers BY Zenon DEF Subscribers
<1>3. sub[Guard].pc = "none"
  <2>1. guard \in {"start", "subscribe"} BY <1>1
  <2> QED BY <2>1, Zenon DEF Inv, Reading
<1>4. guard' \notin {"start", "subscribe"} BY <1>1
<1> QED BY <1>1, <1>2, <1>3, <1>4, SubscribesStep, Zenon

\* What reading does to a subscription.
LEMMA ReceiveStep ==
  ASSUME Inv, NEW s \in Subscribers, Receive(s)
  PROVE  LET e == Head(sub[s].channel)
             q == [sub[s] EXCEPT !.channel = Tail(@)]
             y == Append(seen[s], e)
         IN /\ e \in History /\ y \in Seq(History) /\ q \in Subscription(History) /\ Fed(s, y, q, events, done)
            /\ sub' = [sub EXCEPT ![s] = q] /\ seen' = [seen EXCEPT ![s] = y]
<1> DEFINE H == History
           e == Head(sub[s].channel)
           q == [sub[s] EXCEPT !.channel = Tail(@)]
           y == Append(seen[s], e)
<1>1. /\ sub[s] \in Subscription(H) /\ seen[s] \in Seq(H) /\ Fed(s, seen[s], sub[s], events, done)
  BY OfSubscriber, Zenon
<1>2. /\ sub[s].channel # <<>> /\ sub' = [sub EXCEPT ![s].channel = Tail(@)]
      /\ seen' = [seen EXCEPT ![s] = Append(@, Head(sub[s].channel))]
  BY Zenon DEF Receive
<1>3. sub' = [sub EXCEPT ![s] = q]
  <2>1. \A T : \A f \in [Subscribers -> T] :
          [f EXCEPT ![s].channel = Tail(f[s].channel)] = [f EXCEPT ![s] = [f[s] EXCEPT !.channel = Tail(f[s].channel)]]
    OBVIOUS
  <2>2. sub \in [Subscribers -> Subscription(History)] BY Zenon DEF Inv, Types
  <2> QED BY <1>2, <2>1, <2>2, Zenon
<1>4. seen' = [seen EXCEPT ![s] = y] BY <1>2, Zenon
<1>5. e \in H /\ y \in Seq(H) /\ q \in Subscription(H) /\ Fed(s, y, q, events, done)
  <2>1. PICK c \in Subscription(H) : c = sub[s] BY <1>1
  <2>2. PICK z \in Seq(H) : z = seen[s] BY <1>1
  <2>3. Fed(s, z, c, events, done) /\ c.channel # <<>> BY <1>1, <1>2, <2>1, <2>2, Zenon
  <2>4. LET p == [c EXCEPT !.channel = Tail(@)]
            w == Append(z, Head(c.channel))
        IN Head(c.channel) \in H /\ w \in Seq(H) /\ p \in Subscription(H) /\ Fed(s, w, p, events, done)
    BY <2>3, FedReceive, Zenon
  <2> QED BY <2>1, <2>2, <2>4, Zenon
<1> QED BY <1>3, <1>4, <1>5, Zenon

\* What a watcher reads is its own.
LEMMA WatcherReadsStep == ASSUME Inv, NEW s \in Watchers, WatcherReads(s) PROVE Inv'
<1> DEFINE e == Head(sub[s].channel)
           q == [sub[s] EXCEPT !.channel = Tail(@)]
           y == Append(seen[s], e)
<1>1. s # Guard /\ Receive(s) /\ UNCHANGED <<cancelled, wire, consumer, todo, stream, content, terminal, decision>>
      /\ guard' = guard
  BY Zenon DEF WatcherReads, reader
<1>2. s \in Subscribers BY Zenon DEF Subscribers
<1>3. /\ y \in Seq(History) /\ q \in Subscription(History) /\ Fed(s, y, q, events, done)
      /\ sub' = [sub EXCEPT ![s] = q] /\ seen' = [seen EXCEPT ![s] = y]
  BY <1>1, <1>2, ReceiveStep, Zenon
<1> HIDE DEF e, q, y
<1> QED BY <1>1, <1>2, <1>3, SubscriberStep, Zenon

\* The fields of a decision.
LEMMA DecisionFields == ASSUME NEW a, NEW b PROVE Decision(a, b).action = a /\ Decision(a, b).said = b
  BY DEF Decision

\* An error lets nothing pass.
LEMMA ErrorFailsClosed ==
  ASSUME decision' = Decision("error", "")
  PROVE  GuardFailsClosed'
<1>1. decision'.action = "error" BY DecisionFields, Zenon
<1>2. "error" \notin {"accept", "proceed", "allow"} BY Zenon
<1> QED BY <1>1, <1>2, Zenon DEF GuardFailsClosed

\* A refusal of the provider is an error; otherwise the consumer starts.
LEMMA StartModelStep == ASSUME Inv, StartModel PROVE Inv'
<1>1. Types /\ Feeds /\ Ended /\ Carried /\ Whole /\ Reading /\ GuardFailsClosed BY Zenon DEF Inv
<1>2. /\ guard = "start"
      /\ \/ Return(Decision("error", "")) /\ UNCHANGED consumer
         \/ guard' = "subscribe" /\ consumer' = "top" /\ UNCHANGED decision
      /\ UNCHANGED <<cancelled, wire, got, todo, stream, sub, seen, content, terminal>>
  BY Zenon DEF StartModel
<1>3. /\ cancelled' = cancelled /\ events' = events /\ done' = done /\ failure' = failure /\ result' = result
      /\ sub' = sub /\ seen' = seen /\ wire' = wire /\ todo' = todo /\ content' = content /\ terminal' = terminal
  BY <1>2, Zenon DEF stream
<1>4. Types' BY <1>1, <1>3, Zenon DEF Types, History
<1>5. Feeds'
  <2> SUFFICES ASSUME NEW s \in Subscribers PROVE Fed(s, seen[s], sub[s], events, done)' BY DEF Feeds
  <2>1. Fed(s, seen[s], sub[s], events, done) BY <1>1, Zenon DEF Feeds
  <2>2. Watches(s)' <=> Watches(s) BY <1>3 DEF Watches
  <2> QED BY <1>3, <2>1, <2>2 DEF Fed
<1>6. consumer = "unborn" /\ ~done
  <2>1. consumer = "unborn" BY <1>1, <1>2, Zenon DEF Ended
  <2>2. "unborn" # "returned" OBVIOUS
  <2> QED BY <1>1, <2>1, <2>2, Zenon DEF Ended
<1>7. guard' \in {"returned", "subscribe"} BY <1>2, Zenon DEF Return
<1>8. guard' # "start" BY <1>7
<1>9. Ended' BY <1>1, <1>3, <1>6, <1>8, Zenon DEF Ended, Sound
<1>10. Carried' BY <1>1, <1>3, Zenon DEF Carried, History, Sound
<1>11. Whole' BY <1>1, <1>3, Zenon DEF Whole, Sound
<1>12. terminal = <<>> BY <1>1, <1>6, Zenon DEF Reading
<1>13. guard \in {"start", "subscribe"} /\ guard # "returned" BY <1>2, Zenon
<1>14. content = Texts(seen[Guard]) /\ sub[Guard].pc = "none" /\ decision = NotDecided
  BY <1>1, <1>13, Zenon DEF Reading
<1>15. CASE Return(Decision("error", ""))
  <2>1. guard' = "returned" /\ decision' = Decision("error", "") BY <1>15, Zenon DEF Return
  <2>2. Reading' BY <1>3, <1>12, <1>14, <2>1, Zenon DEF Reading
  <2>3. GuardFailsClosed' BY <2>1, ErrorFailsClosed, Zenon
  <2> QED BY <1>4, <1>5, <1>9, <1>10, <1>11, <2>2, <2>3, Zenon DEF Inv
<1>16. CASE guard' = "subscribe" /\ UNCHANGED decision
  <2>1. Reading' BY <1>3, <1>12, <1>14, <1>16, Zenon DEF Reading
  <2>2. GuardFailsClosed' BY <1>1, <1>3, <1>16, Zenon DEF GuardFailsClosed
  <2> QED BY <1>4, <1>5, <1>9, <1>10, <1>11, <2>1, <2>2, Zenon DEF Inv
<1> QED BY <1>2, <1>15, <1>16, Zenon

\* The guard reads an event: its text is that of what it has read.
LEMMA GuardReadsStep == ASSUME Inv, GuardReads PROVE Inv'
<1> DEFINE e == Head(sub[Guard].channel)
           q == [sub[Guard] EXCEPT !.channel = Tail(@)]
           y == Append(seen[Guard], e)
<1>1. Types /\ Feeds /\ Ended /\ Carried /\ Whole /\ Reading /\ GuardFailsClosed BY Zenon DEF Inv
<1>2. /\ guard = "read" /\ Receive(Guard)
      /\ content' = content \o TextOf(e)
      /\ terminal' = IF e.type = "completed" THEN <<e.result.content>> ELSE terminal
      /\ IF e.type = "failed" THEN Return(Decision("error", "")) ELSE UNCHANGED <<guard, decision>>
      /\ UNCHANGED <<cancelled, wire, consumer, todo, stream>>
  BY Zenon DEF GuardReads
<1>3. /\ cancelled' = cancelled /\ events' = events /\ done' = done /\ failure' = failure /\ result' = result
      /\ wire' = wire /\ todo' = todo /\ consumer' = consumer
  BY <1>2, Zenon DEF stream
<1>4. Guard \in Subscribers BY Zenon DEF Subscribers
<1>5. /\ e \in History /\ y \in Seq(History) /\ q \in Subscription(History) /\ Fed(Guard, y, q, events, done)
      /\ sub' = [sub EXCEPT ![Guard] = q] /\ seen' = [seen EXCEPT ![Guard] = y]
  BY <1>2, <1>4, ReceiveStep, Zenon
<1>6. /\ sub' \in [Subscribers -> Subscription(History)] /\ seen' \in [Subscribers -> Seq(History)]
      /\ seen'[Guard] = y /\ Feeds'
  <2> HIDE DEF e, q, y
  <2>1. UNCHANGED <<cancelled, events, done>> BY <1>3
  <2> QED BY <1>1, <1>4, <1>5, <2>1, OneSubscriber, Zenon
<1>7. History' = History BY <1>3, Zenon DEF History
<1>8. Types' BY <1>1, <1>3, <1>6, <1>7, Zenon DEF Types
<1>9. guard' \in {"read", "returned"} BY <1>2, Zenon DEF Return
<1>10. guard' # "start" /\ guard' \notin {"start", "subscribe"} BY <1>9
<1>11. Ended' BY <1>1, <1>3, <1>10, Zenon DEF Ended, Sound
<1>12. Carried' BY <1>1, <1>3, <1>7, Zenon DEF Carried, Sound
<1>13. Whole' BY <1>1, <1>3, Zenon DEF Whole, Sound
<1>14. content' = Texts(seen'[Guard])
  <2>1. content = Texts(seen[Guard]) BY <1>1, Zenon DEF Reading
  <2>2. \A z \in History : TextOf(z) \in Seq(STRING) BY <1>1, Zenon DEF Carried
  <2>3. seen[Guard] \in Seq(History) BY <1>4, OfSubscriber, Zenon
  <2>4. Texts(y) = Texts(seen[Guard]) \o TextOf(e)
    <3>1. PICK x \in Seq(History) : x = seen[Guard] BY <2>3
    <3>2. PICK z \in History : z = e BY <1>5
    <3> HIDE DEF e
    <3>3. Texts(Append(x, z)) = Texts(x) \o TextOf(z) BY <2>2, TextsAppend
    <3> QED BY <3>1, <3>2, <3>3, Zenon
  <2> HIDE DEF e, y
  <2> QED BY <1>2, <1>6, <2>1, <2>4, Zenon
<1>15. terminal' # <<>> => done' /\ Sound' /\ terminal' = <<result'.content>>
  <2>1. terminal # <<>> => done /\ Sound /\ terminal = <<result.content>> BY <1>1, Zenon DEF Reading
  <2>2. e.type = "completed" => done /\ Sound /\ e.result = result BY <1>1, <1>5, Zenon DEF Carried
  <2>3. Sound' <=> Sound BY <1>3, Zenon DEF Sound
  <2> HIDE DEF e
  <2>4. CASE e.type = "completed" BY <1>2, <1>3, <2>2, <2>3, <2>4, Zenon
  <2>5. CASE e.type # "completed" BY <1>2, <1>3, <2>1, <2>3, <2>5, Zenon
  <2> QED BY <2>4, <2>5
<1>16. decision = NotDecided
  <2>1. guard # "returned" BY <1>2, Zenon
  <2> QED BY <1>1, <2>1, Zenon DEF Reading
<1>17. guard' # "returned" => decision' = NotDecided
  <2> HIDE DEF e
  <2> QED BY <1>2, <1>16, Zenon DEF Return
<1>18. Reading' BY <1>10, <1>14, <1>15, <1>17, Zenon DEF Reading
<1>19. GuardFailsClosed'
  <2> HIDE DEF e
  <2>1. CASE e.type = "failed"
    <3>1. decision' = Decision("error", "") BY <1>2, <2>1, Zenon DEF Return
    <3> QED BY <3>1, ErrorFailsClosed, Zenon
  <2>2. CASE e.type # "failed"
    <3>1. decision' = decision BY <1>2, <2>2, Zenon
    <3> QED BY <1>1, <1>3, <3>1, Zenon DEF GuardFailsClosed
  <2> QED BY <2>1, <2>2
<1> QED BY <1>6, <1>8, <1>11, <1>12, <1>13, <1>18, <1>19, Zenon DEF Inv

-----------------------------------------------------------------------------
(* The verdict and what is made of it. *)

\* The one object that allows.
LEMMA OnlyAllow ==
  ASSUME NEW h \in DOMAIN Fields, Fields[h].whole, Fields[h].allowed, ~Fields[h].feedback
  PROVE  h = "allow"
<1>1. h \in {"allow", "allow_feedback", "deny", "deny_reason", "deny_feedback", "partial"}
  BY DEF Fields
<1>2. Fields["allow_feedback"].feedback = TRUE BY DEF Fields
<1>3. Fields["deny"].allowed = FALSE BY DEF Fields
<1>4. Fields["deny_reason"].allowed = FALSE BY DEF Fields
<1>5. Fields["deny_feedback"].allowed = FALSE BY DEF Fields
<1>6. Fields["partial"].whole = FALSE BY DEF Fields
<1> QED BY <1>1, <1>2, <1>3, <1>4, <1>5, <1>6, Zenon

\* Short texts, piece by piece.
LEMMA Two ==
  ASSUME NEW S, NEW a \in S, NEW b \in S
  PROVE  LET u == <<a, b>> IN u \in Seq(S) /\ Len(u) = 2 /\ u[1] = a /\ u[2] = b
  OBVIOUS

\* And a fenced one.
LEMMA Four ==
  ASSUME NEW S, NEW a \in S, NEW b \in S, NEW c \in S, NEW d \in S
  PROVE  LET u == <<a, b, c, d>> IN u \in Seq(S) /\ Len(u) = 4 /\ u[1] = a /\ u[2] = b /\ u[3] = c /\ u[4] = d
  OBVIOUS

\* A text that is decoded is an object, or a fenced one.
LEMMA Unfences ==
  ASSUME NEW S, NEW text \in Seq(S), NEW h \in S, "fence" \in S, "end" \in S,
         Len(Unfenced(text)) = 2, Unfenced(text)[1] = h, Unfenced(text)[2] = "end"
  PROVE  text = <<h, "end">> \/ text = <<"fence", h, "end", "fence">>
<1>1. Len(text) \in Nat OBVIOUS
<1>2. CASE text # <<>> /\ Head(text) = "fence"
  <2>1. Last(text) = "fence"
    <3>1. ~(Last(text) = "fence") => Unfenced(text) = <<>> BY <1>2, Zenon DEF Unfenced
    <3>2. 0 # 2 OBVIOUS
    <3>3. Len(<<>>) = 0 BY EmptySeq
    <3>4. Len(<<>>) # 2 BY <3>2, <3>3, Zenon
    <3> QED BY <3>1, <3>4, Zenon
  <2>2. Unfenced(text) = SubSeq(text, 2, Len(text) - 1) BY <1>2, <2>1, Zenon DEF Unfenced
  <2> DEFINE n == Len(text)
             b == SubSeq(text, 2, n - 1)
  <2>3. n \in Nat /\ n # 0 BY <1>1, <1>2, EmptySeq
  <2>4. Len(b) = (IF 2 <= n - 1 THEN (n - 1) - 2 + 1 ELSE 0) /\ \A i \in 1..((n - 1) - 2 + 1) : b[i] = text[2 + i - 1]
    <3>1. \A i \in 2..(n - 1) : text[i] \in S BY <2>3
    <3>2. 2 \in Int /\ n - 1 \in Int BY <2>3
    <3> HIDE DEF n
    <3> QED BY <2>3, <3>1, <3>2, SubSeqProperties, SMTT(20)
  <2>5. Len(b) = 2 /\ b[1] = h /\ b[2] = "end"
    <3> HIDE DEF b
    <3> QED BY <2>2, Zenon DEF b
  <2>6. n = 4
    <3>1. PICK m : m = Len(b) OBVIOUS
    <3>2. m = 2 /\ m = (IF 2 <= n - 1 THEN (n - 1) - 2 + 1 ELSE 0) BY <2>4, <2>5, <3>1, Zenon
    <3> HIDE DEF b, n
    <3> QED BY <2>3, <3>2
  <2>7. text[2] = h /\ text[3] = "end"
    <3> HIDE DEF b
    <3>1. b[1] = text[2] /\ b[2] = text[3]
      <4> HIDE DEF n
      <4> QED BY <2>4, <2>6
    <3> QED BY <2>5, <3>1
  <2>8. text[1] = "fence" /\ text[4] = "fence"
    <3>1. Head(text) = text[1] /\ Last(text) = text[Len(text)] BY <1>2 DEF Last
    <3> QED BY <1>2, <2>1, <2>6, <3>1
  <2> DEFINE u == <<"fence", h, "end", "fence">>
  <2>9. u \in Seq(S) /\ Len(u) = 4 /\ u[1] = "fence" /\ u[2] = h /\ u[3] = "end" /\ u[4] = "fence"
    BY Four, Zenon
  <2>10. text = u
    <3> HIDE DEF u
    <3>1. \A i \in 1..4 : i = 1 \/ i = 2 \/ i = 3 \/ i = 4 OBVIOUS
    <3>2. \A i \in 1..Len(text) : text[i] = u[i] BY <2>6, <2>7, <2>8, <2>9, <3>1
    <3> QED BY <2>6, <2>9, <3>2, SeqEqual
  <2> QED BY <2>10
<1>3. CASE ~(text # <<>> /\ Head(text) = "fence")
  <2>1. Unfenced(text) = text BY <1>3, Zenon DEF Unfenced
  <2> DEFINE u == <<h, "end">>
  <2>2. u \in Seq(S) /\ Len(u) = 2 /\ u[1] = h /\ u[2] = "end" BY Two, Zenon
  <2>3. Len(text) = 2 /\ text[1] = h /\ text[2] = "end" BY <2>1, Zenon
  <2>4. text = u
    <3> HIDE DEF u
    <3>1. \A i \in 1..2 : i = 1 \/ i = 2 OBVIOUS
    <3>2. \A i \in 1..Len(text) : text[i] = u[i] BY <2>2, <2>3, <3>1
    <3> QED BY <2>2, <2>3, <3>2, SeqEqual
  <2> QED BY <2>4
<1> QED BY <1>2, <1>3

\* What is said in a refusal is never empty.
LEMMA Says ==
  /\ FirstOf(Text(TRUE, "feedback"), FirstOf(Text(TRUE, "reason"), "default")) # ""
  /\ \A p, q : FirstOf(Text(p, "feedback"), FirstOf(Text(q, "reason"), "default")) # ""
  /\ \A p : FirstOf(Text(p, "reason"), "default") # ""
<1>1. "feedback" # "" /\ "reason" # "" /\ "default" # "" BY Zenon
<1>2. \A x, y : y # "" => FirstOf(x, y) # "" BY Zenon DEF FirstOf
<1> QED BY <1>1, <1>2, Zenon

\* A verdict lets something pass only if the text is one whole allowing object,
\* and gives a decision that the runtime takes.
LEMMA VerdictFailsClosed ==
  ASSUME NEW text \in Seq(STRING), decodePromptGuardVerdict(text), NEW d \in Decisions(Verdict(text))
  PROVE  /\ d.action \in {"accept", "proceed", "allow"} =>
              text \in {<<"allow", "end">>, <<"fence", "allow", "end", "fence">>}
         /\ \/ validateInputGuardDecision(d)
            \/ validateOutputGuardDecision(d)
            \/ ValidateToolCallGuardDecision(d)
<1> DEFINE body == Unfenced(text)
           v == Verdict(text)
<1>1. /\ Len(body) = 2 /\ body[1] \in DOMAIN Fields /\ body[2] = "end"
      /\ Fields[body[1]].whole /\ ~(Fields[body[1]].allowed /\ Fields[body[1]].feedback)
  BY Zenon DEF decodePromptGuardVerdict
<1>2. v = Fields[body[1]] BY Zenon DEF Verdict
<1>3. d \in {newPromptInputGuard(v), newPromptOutputGuard(v), NewPromptToolCallGuard(v)} BY Zenon DEF Decisions
<1> HIDE DEF v
<1>4. CASE v.allowed
  <2>1. body[1] = "allow"
    <3>1. PICK h \in DOMAIN Fields : h = body[1] BY <1>1
    <3>2. Fields[h].whole /\ Fields[h].allowed /\ ~Fields[h].feedback BY <1>1, <1>2, <1>4, <3>1, Zenon
    <3>3. h = "allow" BY <3>2, OnlyAllow
    <3> QED BY <3>1, <3>3
  <2>2. text \in {<<"allow", "end">>, <<"fence", "allow", "end", "fence">>}
    <3> DEFINE S == STRING \cup {"allow", "end", "fence"}
    <3>1. STRING \subseteq S /\ "allow" \in S /\ "end" \in S /\ "fence" \in S BY Zenon
    <3> HIDE DEF S
    <3>2. text \in Seq(S) BY <3>1, SeqMonotonic
    <3>3. text = <<"allow", "end">> \/ text = <<"fence", "allow", "end", "fence">>
      BY <1>1, <2>1, <3>1, <3>2, Unfences, Zenon
    <3> QED BY <3>3, Zenon
  <2>3. d \in {Decision("accept", ""), Decision("proceed", ""), Decision("allow", "")}
    BY <1>3, <1>4, Zenon DEF newPromptInputGuard, newPromptOutputGuard, NewPromptToolCallGuard
  <2>4. ASSUME NEW a \in {"accept", "proceed", "allow"}, d = Decision(a, "")
        PROVE  \/ validateInputGuardDecision(d) \/ validateOutputGuardDecision(d) \/ ValidateToolCallGuardDecision(d)
    <3>1. d.action = a /\ d.said = "" BY <2>4, DecisionFields, Zenon
    <3>2. a = "accept" \/ a = "proceed" \/ a = "allow" BY Zenon
    <3> QED BY <3>1, <3>2, Zenon
        DEF validateInputGuardDecision, validateOutputGuardDecision, ValidateToolCallGuardDecision
  <2>5. \/ validateInputGuardDecision(d) \/ validateOutputGuardDecision(d) \/ ValidateToolCallGuardDecision(d)
    BY <2>3, <2>4, Zenon
  <2> QED BY <2>2, <2>5, Zenon
<1>5. CASE ~v.allowed
  <2>1. PICK said : said # "" /\ d \in {Decision("respond", said), Decision("retry", said), Decision("reject", said)}
    BY <1>3, <1>5, Says, Zenon DEF newPromptInputGuard, newPromptOutputGuard, NewPromptToolCallGuard
  <2>2. ASSUME NEW a \in {"respond", "retry", "reject"}, d = Decision(a, said)
        PROVE  /\ d.action \notin {"accept", "proceed", "allow"}
               /\ \/ validateInputGuardDecision(d) \/ validateOutputGuardDecision(d) \/ ValidateToolCallGuardDecision(d)
    <3>1. d.action = a /\ d.said = said BY <2>2, DecisionFields, Zenon
    <3>2. a = "respond" \/ a = "retry" \/ a = "reject" BY Zenon
    <3>3. a \notin {"accept", "proceed", "allow"} BY <3>2
    <3>4. said # "" BY <2>1, Zenon
    <3>5. \/ validateInputGuardDecision(d) \/ validateOutputGuardDecision(d) \/ ValidateToolCallGuardDecision(d)
      BY <3>1, <3>2, <3>4, Zenon
      DEF validateInputGuardDecision, validateOutputGuardDecision, ValidateToolCallGuardDecision
    <3> QED BY <3>1, <3>3, <3>5, Zenon
  <2> QED BY <2>1, <2>2, Zenon
<1> QED BY <1>4, <1>5

\* The guard decides on the result of the stream: what it has put together is
\* the whole text once its subscription has ended without being cancelled.
LEMMA GuardDecidesStep == ASSUME Inv, GuardDecides PROVE Inv'
<1> DEFINE stored == IF terminal # <<>> THEN terminal[1] ELSE result.content
           text == IF stored = <<>> THEN content ELSE stored
           doubt == \/ cancelled
                    \/ terminal = <<>> /\ (~done \/ failure # "")
                    \/ ~decodePromptGuardVerdict(text)
<1>1. Types /\ Feeds /\ Ended /\ Carried /\ Whole /\ Reading /\ GuardFailsClosed BY Zenon DEF Inv
<1>2. /\ guard = "read" /\ sub[Guard].pc = "gone" /\ sub[Guard].channel = <<>>
      /\ IF doubt THEN Return(Decision("error", ""))
         ELSE \E d \in Decisions(Verdict(text)) : Return(d)
      /\ UNCHANGED <<cancelled, wire, consumer, todo, stream, sub, seen, content, terminal>>
  BY Zenon DEF GuardDecides
<1> HIDE DEF doubt
<1>3. /\ cancelled' = cancelled /\ events' = events /\ done' = done /\ failure' = failure /\ result' = result
      /\ sub' = sub /\ seen' = seen /\ wire' = wire /\ todo' = todo /\ content' = content /\ terminal' = terminal
      /\ consumer' = consumer
  BY <1>2, Zenon DEF stream
<1>4. guard' = "returned"
  <2> HIDE DEF text
  <2> QED BY <1>2, Zenon DEF Return
<1>5. Types' BY <1>1, <1>3, Zenon DEF Types, History
<1>6. Feeds'
  <2> SUFFICES ASSUME NEW s \in Subscribers PROVE Fed(s, seen[s], sub[s], events, done)' BY DEF Feeds
  <2>1. Fed(s, seen[s], sub[s], events, done) BY <1>1, Zenon DEF Feeds
  <2>2. Watches(s)' <=> Watches(s) BY <1>3 DEF Watches
  <2> QED BY <1>3, <2>1, <2>2 DEF Fed
<1>7. guard' # "start" /\ guard' \notin {"start", "subscribe"} BY <1>4
<1>8. Ended' BY <1>1, <1>3, <1>7, Zenon DEF Ended, Sound
<1>9. Carried' BY <1>1, <1>3, Zenon DEF Carried, History, Sound
<1>10. Whole' BY <1>1, <1>3, Zenon DEF Whole, Sound
<1>11. Reading' BY <1>1, <1>3, <1>4, <1>7, Zenon DEF Reading, Sound
<1>12. ASSUME ~doubt PROVE done /\ Sound /\ text = result.content /\ text \in Seq(STRING)
  <2>1. ~cancelled /\ (terminal = <<>> => done /\ Sound) BY <1>12, Zenon DEF doubt, Sound
  <2>2. terminal # <<>> => done /\ Sound /\ terminal = <<result.content>> BY <1>1, Zenon DEF Reading
  <2>3. done /\ Sound BY <2>1, <2>2, Zenon
  <2>4. stored = result.content
    <3>1. CASE terminal # <<>>
      <4>1. \A x : <<x>>[1] = x OBVIOUS
      <4>2. terminal[1] = result.content BY <2>2, <3>1, <4>1, Zenon
      <4> QED BY <3>1, <4>2, Zenon
    <3>2. CASE terminal = <<>> BY <3>2, Zenon
    <3> QED BY <3>1, <3>2
  <2>5. result.content = Texts(events) BY <1>1, <2>3, Zenon DEF Whole
  <2>6. Texts(events) \in Seq(STRING)
    <3>1. events \in Seq(History) BY <1>1, Zenon DEF Types
    <3>2. \A e \in History : TextOf(e) \in Seq(STRING) BY <1>1, Zenon DEF Carried
    <3> QED BY <3>1, <3>2, TextsType, Zenon
  <2>7. content = Texts(events)
    <3>1. Guard \in Subscribers BY Zenon DEF Subscribers
    <3>2. /\ Fed(Guard, seen[Guard], sub[Guard], events, done)
          /\ sub[Guard] \in Subscription(History) /\ seen[Guard] \in Seq(History)
      BY <3>1, OfSubscriber, Zenon
    <3>3. ~Watches(Guard) BY <2>1, Zenon DEF Watches
    <3>4. PICK r \in Subscription(History) : r = sub[Guard] BY <3>2
    <3>5. PICK x \in Seq(History) : x = seen[Guard] BY <3>2
    <3>6. Fed(Guard, x, r, events, done) /\ r.pc = "gone" /\ r.channel = <<>> BY <1>2, <3>2, <3>4, <3>5, Zenon
    <3>7. Given(x, r) = events /\ r.held = <<>> /\ r.queue = <<>>
      <4>1. "gone" # "send" OBVIOUS
      <4> QED BY <3>3, <3>6, <4>1, Zenon DEF Fed
    <3>8. Row(x, <<>>, <<>>, <<>>) = x
      <4>1. x \o <<>> = x BY ConcatEmptySeq
      <4> QED BY <4>1, Zenon DEF Row
    <3>9. x = events BY <3>6, <3>7, <3>8, Zenon DEF Given
    <3> QED BY <1>1, <3>5, <3>9, Zenon DEF Reading
  <2> HIDE DEF stored
  <2>8. text = result.content BY <2>4, <2>5, <2>7, Zenon
  <2> HIDE DEF text
  <2> QED BY <2>3, <2>5, <2>6, <2>8, Zenon
<1>13. GuardFailsClosed'
  <2>1. CASE doubt
    <3>1. decision' = Decision("error", "") BY <1>2, <2>1, Zenon DEF Return
    <3> QED BY <3>1, ErrorFailsClosed, Zenon
  <2>2. CASE ~doubt
    <3>1. decodePromptGuardVerdict(text) BY <2>2, Zenon DEF doubt
    <3>2. done /\ Sound /\ text = result.content /\ text \in Seq(STRING) BY <1>12, <2>2, Zenon
    <3> HIDE DEF text
    <3>3. PICK d \in Decisions(Verdict(text)) : decision' = d BY <1>2, <2>2, Zenon DEF Return
    <3>4. /\ d.action \in {"accept", "proceed", "allow"} =>
               text \in {<<"allow", "end">>, <<"fence", "allow", "end", "fence">>}
          /\ \/ validateInputGuardDecision(d)
             \/ validateOutputGuardDecision(d)
             \/ ValidateToolCallGuardDecision(d)
      BY <3>1, <3>2, VerdictFailsClosed, Zenon
    <3>5. result'.content = text /\ done' /\ failure' = "" BY <1>3, <3>2, Zenon DEF Sound
    <3>6. /\ decision'.action \in {"accept", "proceed", "allow"} =>
               result'.content \in {<<"allow", "end">>, <<"fence", "allow", "end", "fence">>}
          /\ \/ validateInputGuardDecision(decision')
             \/ validateOutputGuardDecision(decision')
             \/ ValidateToolCallGuardDecision(decision')
      BY <3>3, <3>4, <3>5, Zenon
    <3>7. \/ validateInputGuardDecision(decision)'
          \/ validateOutputGuardDecision(decision)'
          \/ ValidateToolCallGuardDecision(decision)'
      BY <3>6, Zenon
      DEF validateInputGuardDecision, validateOutputGuardDecision, ValidateToolCallGuardDecision
    <3> QED BY <3>5, <3>6, <3>7, Zenon DEF GuardFailsClosed
  <2> QED BY <2>1, <2>2
<1> QED BY <1>5, <1>6, <1>8, <1>9, <1>10, <1>11, <1>13, Zenon DEF Inv

-----------------------------------------------------------------------------
(* The theorems. *)

\* A constant function.
LEMMA Constantly == ASSUME NEW S, NEW T, NEW a \in T PROVE [s \in S |-> a] \in [S -> T]
  OBVIOUS

\* The invariant holds before the call starts.
LEMMA InvInit == ASSUME Init PROVE Inv
<1>1. /\ cancelled = FALSE /\ wire \in Scripts /\ consumer = "unborn" /\ todo = <<>>
      /\ events = <<>> /\ done = FALSE /\ failure = "" /\ result = NoResult
      /\ sub = [s \in Subscribers |-> NoSubscription] /\ seen = [s \in Subscribers |-> <<>>]
      /\ guard = "start" /\ content = <<>> /\ terminal = <<>> /\ decision = NotDecided
  BY Zenon DEF Init
<1>2. Guard \in Subscribers BY Zenon DEF Subscribers
<1>3. sub[Guard] = NoSubscription /\ seen[Guard] = <<>> BY <1>1, <1>2, Zenon
<1>4. History = {}
  <2>1. Range(<<>>) = {} BY DEF Range
  <2> QED BY <1>1, <2>1, Zenon DEF History
<1>5. Types
  <2>1. wire \in Seq(Chunk) BY <1>1, ScriptsAssumption, Zenon
  <2>2. \A S : <<>> \in Seq(S) BY EmptySeq
  <2>3. NoSubscription \in Subscription(History) BY FedNone, Zenon
  <2>4. sub \in [Subscribers -> Subscription(History)]
    <3> DEFINE T == Subscription(History)
    <3> HIDE DEF T
    <3>1. NoSubscription \in T BY <2>3, Zenon DEF T
    <3>2. sub \in [Subscribers -> T] BY <1>1, <3>1, Constantly, Zenon
    <3> QED BY <3>2 DEF T
  <2>5. seen \in [Subscribers -> Seq(History)]
    <3> DEFINE T == Seq(History)
    <3> HIDE DEF T
    <3>1. <<>> \in T BY <2>2, Zenon DEF T
    <3>2. seen \in [Subscribers -> T] BY <1>1, <3>1, Constantly, Zenon
    <3> QED BY <3>2 DEF T
  <2>6. todo \in Seq(Parsed) /\ events \in Seq(History) BY <1>1, <2>2, Zenon
  <2>7. cancelled \in BOOLEAN /\ done \in BOOLEAN
    <3>1. cancelled = FALSE /\ done = FALSE BY <1>1, Zenon
    <3> QED BY <3>1
  <2> QED BY <2>1, <2>4, <2>5, <2>6, <2>7, Zenon DEF Types
<1>6. Feeds
  <2> SUFFICES ASSUME NEW s \in Subscribers PROVE Fed(s, seen[s], sub[s], events, done) BY Zenon DEF Feeds
  <2>1. sub[s] = NoSubscription /\ seen[s] = <<>> BY <1>1, Zenon
  <2> QED BY <2>1, FedNone, Zenon
<1>7. Ended BY <1>1, Zenon DEF Ended, Sound
<1>8. Carried BY <1>4, Zenon DEF Carried
<1>9. Whole BY <1>1, Zenon DEF Whole
<1>10. Reading
  <2>1. Texts(<<>>) = <<>>
    <3> DEFINE None == {}
    <3>1. \A x \in None : TextOf(x) \in Seq(STRING) BY Zenon
    <3> HIDE DEF None
    <3>2. <<>> \in Seq(None) BY EmptySeq
    <3> QED BY <3>1, <3>2, TextsType, Zenon
  <2>2. NoSubscription.pc = "none" BY DEF NoSubscription
  <2> QED BY <1>1, <1>3, <2>1, <2>2, Zenon DEF Reading
<1>11. GuardFailsClosed
  <2>1. decision.action = "" BY <1>1, DecisionFields, Zenon DEF NotDecided
  <2>2. "" \notin {"accept", "proceed", "allow"} BY Zenon
  <2> QED BY <2>1, <2>2, Zenon DEF GuardFailsClosed
<1> QED BY <1>5, <1>6, <1>7, <1>8, <1>9, <1>10, <1>11, Zenon DEF Inv

\* A step of something else keeps it.
LEMMA StutterStep == ASSUME Inv, UNCHANGED vars PROVE Inv'
<1>1. Types /\ Feeds /\ Ended /\ Carried /\ Whole /\ Reading /\ GuardFailsClosed BY Zenon DEF Inv
<1>2. /\ cancelled' = cancelled /\ events' = events /\ done' = done /\ failure' = failure /\ result' = result
      /\ sub' = sub /\ seen' = seen /\ wire' = wire /\ todo' = todo /\ content' = content /\ terminal' = terminal
      /\ consumer' = consumer /\ guard' = guard /\ decision' = decision
  BY Zenon DEF vars, stream, reader
<1>3. Types' BY <1>1, <1>2, Zenon DEF Types, History
<1>4. Feeds'
  <2> SUFFICES ASSUME NEW s \in Subscribers PROVE Fed(s, seen[s], sub[s], events, done)' BY DEF Feeds
  <2>1. Fed(s, seen[s], sub[s], events, done) BY <1>1, Zenon DEF Feeds
  <2>2. Watches(s)' <=> Watches(s) BY <1>2 DEF Watches
  <2> QED BY <1>2, <2>1, <2>2 DEF Fed
<1>5. Ended' /\ Carried' /\ Whole' BY <1>1, <1>2, Zenon DEF Ended, Carried, Whole, History, Sound
<1>6. Reading' BY <1>1, <1>2, Zenon DEF Reading, Sound
<1>7. GuardFailsClosed' BY <1>1, <1>2, Zenon DEF GuardFailsClosed
<1> QED BY <1>3, <1>4, <1>5, <1>6, <1>7, Zenon DEF Inv

\* The invariant of the stream, of its subscriptions and of the guard: from any
\* scripts of chunks, any watchers and channels of any size.
THEOREM StreamInvariant == Spec => []Inv
<1>1. Init => Inv BY InvInit, Zenon
<1>2. Inv /\ [Next]_vars => Inv'
  <2> SUFFICES ASSUME Inv, [Next]_vars PROVE Inv' OBVIOUS
  <2>1. CASE StartModel BY <2>1, StartModelStep, Zenon
  <2>2. CASE GuardSubscribes BY <2>2, GuardSubscribesStep, Zenon
  <2>3. CASE GuardReads BY <2>3, GuardReadsStep, Zenon
  <2>4. CASE GuardDecides BY <2>4, GuardDecidesStep, Zenon
  <2>5. CASE Cancel BY <2>5, CancelStep, Zenon
  <2>6. CASE ConsumeTop BY <2>6, ConsumeTopStep, Zenon
  <2>7. CASE Recv BY <2>7, RecvStep, Zenon
  <2>8. CASE Publish BY <2>8, PublishActionStep, Zenon
  <2>9. CASE \E s \in Subscribers : RunSubscription(s) BY <2>9, RunSubscriptionStep, Zenon
  <2>10. CASE \E s \in Watchers : WatcherSubscribes(s) \/ WatcherReads(s)
    BY <2>10, WatcherSubscribesStep, WatcherReadsStep, Zenon
  <2>11. CASE UNCHANGED vars BY <2>11, StutterStep, Zenon
  <2> QED
    BY <2>1, <2>2, <2>3, <2>4, <2>5, <2>6, <2>7, <2>8, <2>9, <2>10, <2>11, Zenon DEF Next, GuardStep
<1> QED BY <1>1, <1>2, PTL DEF Spec

\* Every subscription is the history, whatever the moment it is made and the
\* capacity of its channel: nothing published under the lock is missed, given
\* twice or given out of order, and only a cancelled reader is given less.
THEOREM HistoryExact == Spec => []ExactHistory
<1>1. ASSUME Inv PROVE ExactHistory
  <2> SUFFICES ASSUME NEW s \in Subscribers
               PROVE  LET given == seen[s] \o sub[s].channel \o sub[s].held \o sub[s].queue IN
                        /\ Attached(s) => given = events
                        /\ sub[s].pc = "gone" =>
                             IsPrefix(given, events) /\ (Watches(s) \/ (done /\ given = events))
    BY Zenon DEF ExactHistory
  <2>1. Fed(s, seen[s], sub[s], events, done) BY <1>1, OfSubscriber, Zenon
  <2>2. Given(seen[s], sub[s]) = seen[s] \o sub[s].channel \o sub[s].held \o sub[s].queue
    BY Zenon DEF Given, Row
  <2> QED BY <2>1, <2>2, Zenon DEF Fed, Attached
<1> QED BY <1>1, StreamInvariant, PTL

\* A prompt guard fails closed, on every stream a provider may send and however
\* it ends: what it lets pass was allowed by the whole text of a stream that
\* completed, though it may have read that text in three different ways (as it
\* came, from the terminal event, or from the stream afterwards).
THEOREM GuardClosed == Spec => []GuardFailsClosed
<1>1. Inv => GuardFailsClosed BY Zenon DEF Inv
<1> QED BY <1>1, StreamInvariant, PTL

-----------------------------------------------------------------------------
(* What a history puts together. *)

\* Sequences are built by appending.
LEMMA SeqInduction ==
  ASSUME NEW S, NEW B \in SUBSET Seq(S), <<>> \in B, \A s \in B, e \in S : Append(s, e) \in B
  PROVE  \A s \in Seq(S) : s \in B
<1> SUFFICES ASSUME NEW s \in Seq(S), s \notin B PROVE FALSE OBVIOUS
<1> DEFINE L == {Len(x) : x \in Seq(S) \ B}
<1>1. L \in SUBSET Nat /\ Len(s) \in L OBVIOUS
<1>2. PICK n \in L : \A m \in L : n <= m
  <2> HIDE DEF L
  <2> QED BY <1>1, NatMin
<1>3. PICK x \in Seq(S) \ B : Len(x) = n BY <1>2
<1>4. x # <<>> BY <1>3
<1>5. PICK y \in Seq(S), e \in S : x = Append(y, e) BY <1>3, <1>4, SequenceEmptyOrAppend
<1>6. y \notin B BY <1>3, <1>5
<1>7. Len(y) \in L /\ Len(y) + 1 = n /\ Len(y) \in Nat
  <2>1. y \in Seq(S) \ B BY <1>5, <1>6
  <2>2. Len(Append(y, e)) = Len(y) + 1 /\ Len(y) \in Nat BY <1>5, AppendProperties, LenProperties
  <2>3. Len(y) \in L BY <2>1
  <2> QED BY <1>3, <1>5, <2>2, <2>3
<1>8. n <= Len(y) BY <1>2, <1>7
<1> QED BY <1>7, <1>8

\* A sequence followed by one that ends in e ends in e.
LEMMA ConcatAppend ==
  ASSUME NEW S, NEW s \in Seq(S), NEW t \in Seq(S), NEW e \in S
  PROVE  s \o Append(t, e) = Append(s \o t, e)
<1>1. Append(t, e) = t \o <<e>> BY AppendIsConcat
<1>2. s \o t \in Seq(S) /\ <<e>> \in Seq(S) BY ConcatProperties
<1>3. Append(s \o t, e) = (s \o t) \o <<e>> BY <1>2, AppendIsConcat
<1>4. (s \o t) \o <<e>> = s \o (t \o <<e>>)
  <2>1. PICK u \in Seq(S) : u = <<e>> BY <1>2
  <2>2. (s \o t) \o u = s \o (t \o u) BY ConcatAssociative, SMTT(20)
  <2> QED BY <2>1, <2>2, Zenon
<1> QED BY <1>1, <1>3, <1>4, Zenon

\* What the elements of es give under F, in a row.
Gather(F, es) == FlattenSeq([k \in DOMAIN es |-> F[es[k]]])

\* It is a sequence, and goes on with what the next element gives.
LEMMA GatherAppend ==
  ASSUME NEW S, NEW T, NEW F \in [S -> Seq(T)], NEW es \in Seq(S)
  PROVE  /\ Gather(F, es) \in Seq(T) /\ Gather(F, <<>>) = <<>>
         /\ \A e \in S : Gather(F, Append(es, e)) = Gather(F, es) \o F[e]
<1> DEFINE n == Len(es)
           f == [k \in DOMAIN es |-> F[es[k]]]
<1>1. DOMAIN es = 1..n /\ n \in Nat /\ \A k \in 1..n : es[k] \in S OBVIOUS
<1>2. f \in [1..n -> Seq(T)] /\ (\A k \in 1..n : f[k] = F[es[k]])
  <2>1. \A k \in 1..n : F[es[k]] \in Seq(T) BY <1>1
  <2> HIDE DEF n
  <2> QED BY <1>1, <2>1
<1>3. f \in Seq(Seq(T)) /\ Len(f) = n
  <2> DEFINE U == Seq(T)
  <2> HIDE DEF n, f, U
  <2>1. f \in [1..n -> U] BY <1>2 DEF U
  <2>2. f \in Seq(U) /\ Len(f) = n BY <1>1, <2>1
  <2> QED BY <2>2 DEF U
<1>4. FlattenSeq(f) \in Seq(T)
  <2> HIDE DEF f
  <2> QED BY <1>3, FlattenType
<1>5. Gather(F, <<>>) = <<>>
  <2> DEFINE g == [k \in DOMAIN <<>> |-> F[<<>>[k]]]
  <2>1. g = <<>> OBVIOUS
  <2>2. <<>> \in Seq(Seq(T)) BY EmptySeq
  <2>3. FlattenSeq(<<>>) = <<>> BY <2>2, FlattenType
  <2> HIDE DEF g
  <2>4. FlattenSeq(g) = <<>> BY <2>1, <2>3, Zenon
  <2> QED BY <2>4, Zenon DEF g, Gather
<1>6. ASSUME NEW e \in S PROVE Gather(F, Append(es, e)) = Gather(F, es) \o F[e]
  <2> DEFINE a == Append(es, e)
             g == [k \in DOMAIN a |-> F[a[k]]]
             x == F[e]
  <2>1. /\ DOMAIN a = 1..(n + 1) /\ a[n + 1] = e
        /\ \A k \in 1..n : a[k] = es[k]
    BY <1>1
  <2>2. x \in Seq(T) OBVIOUS
  <2>3. /\ DOMAIN g = 1..(n + 1) /\ g = [k \in 1..(n + 1) |-> g[k]] /\ g[n + 1] = x
        /\ \A k \in 1..n : g[k] = F[es[k]]
    <3> HIDE DEF a, n
    <3> QED BY <1>1, <2>1
  <2>4. g = Append(f, x)
    <3> DEFINE U == Seq(T)
    <3>1. x \in U /\ f \in Seq(U) /\ Len(f) = n BY <1>3, <2>2
    <3> HIDE DEF U, n, f, g, x
    <3>2. /\ DOMAIN Append(f, x) = 1..(n + 1) /\ Append(f, x)[n + 1] = x
          /\ \A k \in 1..n : Append(f, x)[k] = f[k]
          /\ Append(f, x) \in Seq(U)
      BY <1>1, <3>1
    <3>3. \A k \in 1..(n + 1) : k \in 1..n \/ k = n + 1 BY <1>1
    <3>4. \A k \in 1..(n + 1) : g[k] = Append(f, x)[k] BY <1>2, <2>3, <3>2, <3>3
    <3>5. Append(f, x) = [k \in 1..(n + 1) |-> Append(f, x)[k]]
      <4>1. \A y \in Seq(U) : DOMAIN y = 1..(n + 1) => y = [k \in 1..(n + 1) |-> y[k]] OBVIOUS
      <4> QED BY <3>2, <4>1, Zenon
    <3> QED BY <2>3, <3>4, <3>5
  <2>5. FlattenSeq(Append(f, x)) = FlattenSeq(f) \o x
    <3> HIDE DEF f, x
    <3> QED BY <1>3, <2>2, FlattenAppend
  <2>6. FlattenSeq(g) = FlattenSeq(f) \o x
    <3> HIDE DEF f, g, x
    <3> QED BY <2>4, <2>5, Zenon
  <2> QED BY <2>6, Zenon DEF Gather
<1> QED BY <1>4, <1>5, <1>6, Zenon DEF Gather

\* What two histories in a row give.
LEMMA GatherConcat ==
  ASSUME NEW S, NEW T, NEW F \in [S -> Seq(T)], NEW a \in Seq(S), NEW b \in Seq(S)
  PROVE  Gather(F, a \o b) = Gather(F, a) \o Gather(F, b)
<1> DEFINE B == {x \in Seq(S) : Gather(F, a \o x) = Gather(F, a) \o Gather(F, x)}
<1>0. \A x \in Seq(S) : /\ Gather(F, x) \in Seq(T) /\ Gather(F, <<>>) = <<>>
                        /\ \A e \in S : Gather(F, Append(x, e)) = Gather(F, x) \o F[e]
  BY GatherAppend, ZenonT(40)
<1>1. <<>> \in B
  <2>1. a \o <<>> = a /\ <<>> \in Seq(S) BY ConcatEmptySeq, EmptySeq
  <2>2. Gather(F, a) \in Seq(T) /\ Gather(F, <<>>) = <<>> BY <1>0
  <2>3. Gather(F, a) \o <<>> = Gather(F, a) BY <2>2, ConcatEmptySeq
  <2> QED BY <2>1, <2>2, <2>3
<1>2. ASSUME NEW x \in B, NEW e \in S PROVE Append(x, e) \in B
  <2>1. x \in Seq(S) /\ Gather(F, a \o x) = Gather(F, a) \o Gather(F, x) OBVIOUS
  <2>2. a \o x \in Seq(S) /\ Append(x, e) \in Seq(S) BY <2>1, ConcatProperties, AppendProperties
  <2>3. a \o Append(x, e) = Append(a \o x, e) BY <2>1, ConcatAppend, SMTT(30)
  <2>4. Gather(F, Append(a \o x, e)) = Gather(F, a \o x) \o F[e] BY <1>0, <2>2
  <2>5. Gather(F, Append(x, e)) = Gather(F, x) \o F[e] BY <1>0, <2>1
  <2>6. Gather(F, a) \in Seq(T) /\ Gather(F, x) \in Seq(T) /\ F[e] \in Seq(T) BY <1>0, <2>1
  <2>7. (Gather(F, a) \o Gather(F, x)) \o F[e] = Gather(F, a) \o (Gather(F, x) \o F[e])
    <3>1. \A p, q, r \in Seq(T) : (p \o q) \o r = p \o (q \o r) BY ConcatAssociative, SMTT(30)
    <3> QED BY <2>6, <3>1, Zenon
  <2>8. Gather(F, a \o Append(x, e)) = Gather(F, a) \o Gather(F, Append(x, e))
    BY <2>1, <2>3, <2>4, <2>5, <2>7, Zenon
  <2> QED BY <2>2, <2>8
<1>3. b \in B
  <2> HIDE DEF B
  <2>1. B \in SUBSET Seq(S) BY DEF B
  <2> QED BY <1>1, <1>2, <2>1, SeqInduction
<1> QED BY <1>3

\* What it does, for every function.
Gathers(S, T, F) ==
  /\ \A es \in Seq(S) : Gather(F, es) \in Seq(T)
  /\ Gather(F, <<>>) = <<>>
  /\ \A es \in Seq(S), e \in S : Gather(F, Append(es, e)) = Gather(F, es) \o F[e]
  /\ \A a, b \in Seq(S) : Gather(F, a \o b) = Gather(F, a) \o Gather(F, b)
\* What the elements give goes on, one at a time and in pieces.
LEMMA GatherIs == ASSUME NEW S, NEW T, NEW F \in [S -> Seq(T)] PROVE Gathers(S, T, F)
<1>1. <<>> \in Seq(S) BY EmptySeq
<1>2. \A es \in Seq(S) : /\ Gather(F, es) \in Seq(T) /\ Gather(F, <<>>) = <<>>
                         /\ \A e \in S : Gather(F, Append(es, e)) = Gather(F, es) \o F[e]
  BY GatherAppend, ZenonT(40)
<1>3. \A a, b \in Seq(S) : Gather(F, a \o b) = Gather(F, a) \o Gather(F, b) BY GatherConcat
<1> QED BY <1>1, <1>2, <1>3, Zenon DEF Gathers

\* G is what F gives of a part: the parts of a history give what it gives.
Splits(S, T, U, F, G) ==
  /\ F \in [S -> Seq(T)] /\ U = Seq(S) /\ G \in [U -> Seq(T)]
  /\ \A x \in U : G[x] = Gather(F, x)
\* What a flattened sequence gives is what its parts give, in a row.
LEMMA GatherParts ==
  ASSUME NEW S, NEW T, NEW U, NEW F, NEW G, Splits(S, T, U, F, G), NEW s \in Seq(U)
  PROVE  Gather(F, FlattenSeq(s)) = Gather(G, s)
<1>0. /\ F \in [S -> Seq(T)] /\ U = Seq(S) /\ G \in [U -> Seq(T)]
      /\ \A x \in U : G[x] = Gather(F, x)
  BY DEF Splits
<1> DEFINE B == {x \in Seq(U) : Gather(F, FlattenSeq(x)) = Gather(G, x)}
<1>1. Gathers(S, T, F) BY <1>0, GatherIs
<1>2. Gathers(U, T, G) BY <1>0, GatherIs
<1>3. \A x \in Seq(U) : /\ FlattenSeq(x) \in U /\ FlattenSeq(<<>>) = <<>>
                        /\ \A e \in U : FlattenSeq(Append(x, e)) = FlattenSeq(x) \o e
  BY <1>0, FlattenType, FlattenAppend
<1>4. <<>> \in B
  <2>1. <<>> \in Seq(U) BY EmptySeq
  <2>2. Gather(F, <<>>) = <<>> /\ FlattenSeq(<<>>) = <<>> /\ Gather(G, <<>>) = <<>>
    BY <1>1, <1>2, <1>3, <2>1, Zenon DEF Gathers
  <2> QED BY <2>1, <2>2
<1>5. ASSUME NEW x \in B, NEW e \in U PROVE Append(x, e) \in B
  <2>1. x \in Seq(U) /\ Gather(F, FlattenSeq(x)) = Gather(G, x) OBVIOUS
  <2> HIDE DEF B
  <2>2. FlattenSeq(x) \in U /\ FlattenSeq(Append(x, e)) = FlattenSeq(x) \o e BY <1>3, <2>1, Zenon
  <2>3. FlattenSeq(x) \in Seq(S) /\ e \in Seq(S) BY <1>0, <2>2
  <2>4. Gather(F, FlattenSeq(x) \o e) = Gather(F, FlattenSeq(x)) \o Gather(F, e) BY <1>1, <2>3, Zenon DEF Gathers
  <2>5. Gather(G, Append(x, e)) = Gather(G, x) \o G[e] BY <1>2, <2>1, Zenon DEF Gathers
  <2>6. G[e] = Gather(F, e) BY <1>0
  <2>7. Gather(F, FlattenSeq(Append(x, e))) = Gather(G, Append(x, e))
    BY <2>1, <2>2, <2>4, <2>5, <2>6, Zenon
  <2>8. Append(x, e) \in Seq(U) BY <2>1, AppendProperties
  <2> QED BY <2>7, <2>8 DEF B
<1>6. s \in B
  <2>1. B \in SUBSET Seq(U) OBVIOUS
  <2> HIDE DEF B
  <2> QED BY <1>4, <1>5, <2>1, SeqInduction
<1> QED BY <1>6

\* What is in a concatenation is in one of its parts.
LEMMA FlattenRange ==
  ASSUME NEW S, NEW s \in Seq(Seq(S))
  PROVE  \A x : x \in Range(FlattenSeq(s)) <=> \E k \in DOMAIN s : x \in Range(s[k])
<1> DEFINE U == Seq(S)
           In(x, z) == \E k \in DOMAIN z : x \in Range(z[k])
           B == {z \in Seq(U) : \A x : x \in Range(FlattenSeq(z)) <=> In(x, z)}
<1>1. <<>> \in B
  <2>1. <<>> \in Seq(U) /\ DOMAIN <<>> = {} BY EmptySeq
  <2>2. FlattenSeq(<<>>) = <<>> BY <2>1, FlattenType
  <2>3. Range(<<>>) = {} BY <2>1 DEF Range
  <2> QED BY <2>1, <2>2, <2>3
<1>2. ASSUME NEW z \in B, NEW e \in U PROVE Append(z, e) \in B
  <2>1. z \in Seq(U) /\ (\A x : x \in Range(FlattenSeq(z)) <=> In(x, z)) OBVIOUS
  <2>2. FlattenSeq(z) \in U /\ FlattenSeq(Append(z, e)) = FlattenSeq(z) \o e
    BY <2>1, FlattenType, FlattenAppend
  <2>3. Range(FlattenSeq(z) \o e) = Range(FlattenSeq(z)) \cup Range(e) BY <2>2, RangeConcatenation
  <2>4. /\ Append(z, e) \in Seq(U) /\ DOMAIN z = 1..Len(z) /\ Len(z) \in Nat
        /\ DOMAIN Append(z, e) = 1..(Len(z) + 1)
        /\ \A k \in 1..Len(z) : Append(z, e)[k] = z[k]
        /\ Append(z, e)[Len(z) + 1] = e
    <3> HIDE DEF U, B
    <3> QED BY <2>1, AppendProperties
  <2>5. \A x : In(x, Append(z, e)) <=> In(x, z) \/ x \in Range(e)
    <3> HIDE DEF U, B
    <3>1. \A k \in 1..(Len(z) + 1) : k \in 1..Len(z) \/ k = Len(z) + 1 BY <2>4
    <3>2. Len(z) + 1 \in 1..(Len(z) + 1) /\ \A k \in 1..Len(z) : k \in 1..(Len(z) + 1) BY <2>4
    <3> DEFINE n == Len(z)
               m == Len(z) + 1
               a == Append(z, e)
    <3>3. DOMAIN z = 1..n /\ DOMAIN a = 1..m /\ (\A k \in 1..n : a[k] = z[k]) /\ a[m] = e BY <2>4
    <3>4. m \in 1..m /\ (\A k \in 1..n : k \in 1..m) /\ (\A k \in 1..m : k \in 1..n \/ k = m) BY <3>1, <3>2
    <3> HIDE DEF n, m, a
    <3>5. \A x : In(x, a) <=> In(x, z) \/ x \in Range(e) BY <3>3, <3>4, Zenon
    <3> QED BY <3>5 DEF a
  <2>6. \A x : x \in Range(FlattenSeq(Append(z, e))) <=> In(x, Append(z, e))
    <3> HIDE DEF In, U, B
    <3> QED BY <2>1, <2>2, <2>3, <2>5
  <2> HIDE DEF In, U
  <2> QED BY <2>4, <2>6
<1>3. s \in B
  <2>1. s \in Seq(U) BY Zenon
  <2>2. B \in SUBSET Seq(U) OBVIOUS
  <2> HIDE DEF B, U
  <2> QED BY <1>1, <1>2, <2>1, <2>2, SeqInduction
<1> QED BY <1>3, Zenon

\* Nothing gives nothing.
LEMMA FlattenNothing ==
  ASSUME NEW S, NEW s \in Seq(Seq(S)), \A k \in DOMAIN s : s[k] = <<>>
  PROVE  FlattenSeq(s) = <<>>
<1>1. FlattenSeq(s) \in Seq(S) BY FlattenType
<1>2. Range(<<>>) = {} BY DEF Range
<1>3. \A x : x \notin Range(FlattenSeq(s)) BY <1>2, FlattenRange
<1> SUFFICES ASSUME FlattenSeq(s) # <<>> PROVE FALSE OBVIOUS
<1> DEFINE f == FlattenSeq(s)
<1> HIDE DEF f
<1>4. f \in Seq(S) /\ f # <<>> /\ \A x : x \notin Range(f) BY <1>1, <1>3 DEF f
<1>5. 1 \in DOMAIN f BY <1>4
<1> QED BY <1>4, <1>5 DEF Range

\* One element each gives the sequence itself.
LEMMA FlattenOnes ==
  ASSUME NEW S, NEW s \in Seq(S)
  PROVE  FlattenSeq([k \in DOMAIN s |-> <<s[k]>>]) = s
<1> DEFINE F == [x \in S |-> <<x>>]
           B == {z \in Seq(S) : Gather(F, z) = z}
<1>1. F \in [S -> Seq(S)] OBVIOUS
<1>2. \A z \in Seq(S) : /\ Gather(F, <<>>) = <<>>
                        /\ \A e \in S : Gather(F, Append(z, e)) = Gather(F, z) \o F[e]
  <2> HIDE DEF F
  <2> QED BY <1>1, GatherAppend, ZenonT(40)
<1>3. <<>> \in B
  <2>1. <<>> \in Seq(S) BY EmptySeq
  <2> HIDE DEF F
  <2>2. Gather(F, <<>>) = <<>> BY <1>2, <2>1, Zenon
  <2> QED BY <2>1, <2>2
<1>4. ASSUME NEW z \in B, NEW e \in S PROVE Append(z, e) \in B
  <2>1. z \in Seq(S) /\ Gather(F, z) = z OBVIOUS
  <2>2. Append(z, e) = z \o <<e>> /\ Append(z, e) \in Seq(S) BY <2>1, AppendIsConcat, AppendProperties
  <2>3. F[e] = <<e>> OBVIOUS
  <2> HIDE DEF F
  <2>4. Gather(F, Append(z, e)) = Append(z, e) BY <1>2, <2>1, <2>2, <2>3, Zenon
  <2> QED BY <2>2, <2>4
<1>5. s \in B
  <2>1. B \in SUBSET Seq(S) OBVIOUS
  <2> HIDE DEF B
  <2> QED BY <1>3, <1>4, <2>1, SeqInduction
<1>6. [k \in DOMAIN s |-> <<s[k]>>] = [k \in DOMAIN s |-> F[s[k]]]
  <2>1. \A k \in DOMAIN s : s[k] \in S OBVIOUS
  <2> QED BY <2>1
<1> HIDE DEF F
<1> QED BY <1>5, <1>6 DEF Gather

\* What it gives is given by one of the elements.
LEMMA GatherRange ==
  ASSUME NEW S, NEW T, NEW F \in [S -> Seq(T)], NEW es \in Seq(S)
  PROVE  /\ \A x : x \in Range(Gather(F, es)) <=> \E e \in Range(es) : x \in Range(F[e])
         /\ (\A e \in Range(es) : F[e] = <<>>) => Gather(F, es) = <<>>
<1> DEFINE f == [k \in DOMAIN es |-> F[es[k]]]
           n == Len(es)
<1>1. DOMAIN es = 1..n /\ n \in Nat /\ \A k \in 1..n : es[k] \in S OBVIOUS
<1>2. f \in Seq(Seq(T)) /\ DOMAIN f = DOMAIN es /\ \A k \in DOMAIN es : f[k] = F[es[k]]
  <2>1. \A k \in 1..n : F[es[k]] \in Seq(T) BY <1>1
  <2> DEFINE U == Seq(T)
  <2>2. \A k \in 1..n : F[es[k]] \in U BY <2>1
  <2> HIDE DEF n, U
  <2>3. f \in [1..n -> U] BY <1>1, <2>2
  <2>4. f \in Seq(U) BY <1>1, <2>3
  <2> QED BY <2>4 DEF U
<1>3. Gather(F, es) = FlattenSeq(f) BY Zenon DEF Gather
<1> HIDE DEF f
<1>4. \A x : x \in Range(FlattenSeq(f)) <=> \E k \in DOMAIN f : x \in Range(f[k]) BY <1>2, FlattenRange
<1>5. \A k \in DOMAIN es : es[k] \in Range(es) BY Zenon DEF Range
<1>6. \A e \in Range(es) : \E k \in DOMAIN es : e = es[k] BY Zenon DEF Range
<1>7. \A x : x \in Range(Gather(F, es)) <=> \E e \in Range(es) : x \in Range(F[e])
  <2> SUFFICES ASSUME NEW x
               PROVE  x \in Range(Gather(F, es)) <=> \E e \in Range(es) : x \in Range(F[e])
    OBVIOUS
  <2>1. x \in Range(Gather(F, es)) <=> \E k \in DOMAIN es : x \in Range(f[k]) BY <1>2, <1>3, <1>4, Zenon
  <2>2. ASSUME NEW k \in DOMAIN es, x \in Range(f[k]) PROVE \E e \in Range(es) : x \in Range(F[e])
    <3>1. es[k] \in Range(es) /\ x \in Range(F[es[k]]) BY <1>2, <1>5, <2>2
    <3> QED BY <3>1
  <2>3. ASSUME NEW e \in Range(es), x \in Range(F[e]) PROVE \E k \in DOMAIN es : x \in Range(f[k])
    <3>1. PICK k \in DOMAIN es : e = es[k] BY <1>6
    <3>2. x \in Range(f[k]) BY <1>2, <2>3, <3>1
    <3> QED BY <3>2
  <2> QED BY <2>1, <2>2, <2>3, Zenon
<1>8. ASSUME \A e \in Range(es) : F[e] = <<>> PROVE Gather(F, es) = <<>>
  <2>1. \A k \in DOMAIN f : f[k] = <<>> BY <1>2, <1>5, <1>8, Zenon
  <2>2. FlattenSeq(f) = <<>> BY <1>2, <2>1, FlattenNothing
  <2> QED BY <1>3, <2>2
<1> QED BY <1>7, <1>8

\* What an event that is there or not gives.
LEMMA GatherPresent ==
  ASSUME NEW S, NEW T, NEW F \in [S -> Seq(T)], NEW e \in S, NEW p \in BOOLEAN
  PROVE  /\ Present(p, e) \in Seq(S)
         /\ Gather(F, Present(p, e)) = (IF p THEN F[e] ELSE <<>>)
         /\ \A x : x \in Range(Present(p, e)) <=> p /\ x = e
<1>1. Gathers(S, T, F) BY GatherIs
<1>2. <<>> \in Seq(S) /\ <<e>> \in Seq(S) BY EmptySeq
<1>3. Append(<<>>, e) = <<e>> OBVIOUS
<1>4. Gather(F, <<e>>) = <<>> \o F[e] BY <1>1, <1>2, <1>3, Zenon DEF Gathers
<1>5. <<>> \o F[e] = F[e] BY ConcatEmptySeq
<1>6. Gather(F, <<>>) = <<>> BY <1>1, Zenon DEF Gathers
<1>7. \A x : x \in Range(<<e>>) <=> x = e BY DEF Range
<1>8. \A x : x \notin Range(<<>>) BY DEF Range
<1> QED BY <1>2, <1>4, <1>5, <1>6, <1>7, <1>8 DEF Present

-----------------------------------------------------------------------------
(* The operators of a history, as what its events give. *)

Yields(S) ==
  \A e \in S :
    /\ TextOf(e) \in Seq(STRING) /\ CompletionOf(e) \in Seq(Nat)
    /\ \A i \in Nat : FragmentOf(e, i) \in Seq(STRING) /\ \A f \in Labels : LabelOf(e, i, f) \in Seq(STRING)
TextF(S) == [e \in S |-> TextOf(e)]
LabelF(S, i, f) == [e \in S |-> LabelOf(e, i, f)]
FragmentF(S, i) == [e \in S |-> FragmentOf(e, i)]
CompletionF(S) == [e \in S |-> CompletionOf(e)]

\* They map events to sequences.
LEMMA YieldsFunctions ==
  ASSUME NEW S, Yields(S)
  PROVE  /\ TextF(S) \in [S -> Seq(STRING)] /\ CompletionF(S) \in [S -> Seq(Nat)]
         /\ \A i \in Nat : FragmentF(S, i) \in [S -> Seq(STRING)] /\ \A f \in Labels : LabelF(S, i, f) \in [S -> Seq(STRING)]
  BY DEF Yields, TextF, LabelF, FragmentF, CompletionF

\* A history puts together what its events give.
LEMMA HistoryGathers ==
  ASSUME NEW S, NEW es \in Seq(S)
  PROVE  /\ Texts(es) = Gather(TextF(S), es) /\ Completions(es) = Gather(CompletionF(S), es)
         /\ \A i, f : LabelsOf(es, i, f) = Gather(LabelF(S, i, f), es) /\ Fragments(es, i) = Gather(FragmentF(S, i), es)
<1>1. \A k \in DOMAIN es : es[k] \in S OBVIOUS
<1>2. [k \in DOMAIN es |-> TextOf(es[k])] = [k \in DOMAIN es |-> TextF(S)[es[k]]] BY <1>1 DEF TextF
<1>3. [k \in DOMAIN es |-> CompletionOf(es[k])] = [k \in DOMAIN es |-> CompletionF(S)[es[k]]]
  BY <1>1 DEF CompletionF
<1>4. ASSUME NEW i, NEW f
      PROVE  LabelsOf(es, i, f) = Gather(LabelF(S, i, f), es) /\ Fragments(es, i) = Gather(FragmentF(S, i), es)
  <2>1. [k \in DOMAIN es |-> LabelOf(es[k], i, f)] = [k \in DOMAIN es |-> LabelF(S, i, f)[es[k]]]
    BY <1>1 DEF LabelF
  <2>2. [k \in DOMAIN es |-> FragmentOf(es[k], i)] = [k \in DOMAIN es |-> FragmentF(S, i)[es[k]]]
    BY <1>1 DEF FragmentF
  <2> QED BY <2>1, <2>2, Zenon DEF LabelsOf, Fragments, Gather
<1> QED BY <1>2, <1>3, <1>4, Zenon DEF Texts, Completions, Gather

\* The labels of a call are those it was started with.
StartLabels(es, i, f) ==
  \A n : n \in Range(LabelsOf(es, i, f)) <=>
           n # "" /\ \E e \in Range(es) : e.type = "tool_started" /\ e.index = i /\ e.label[f] = n
LEMMA LabelsRange ==
  ASSUME NEW S, Yields(S), NEW es \in Seq(S), NEW i \in Nat, NEW f \in Labels
  PROVE  StartLabels(es, i, f)
<1> DEFINE F == LabelF(S, i, f)
<1>1. F \in [S -> Seq(STRING)] BY YieldsFunctions
<1>2. LabelsOf(es, i, f) = Gather(F, es) BY HistoryGathers
<1>3. \A e \in Range(es) : e \in S BY DEF Range
<1>4. \A e \in Range(es) : F[e] = LabelOf(e, i, f) BY <1>3 DEF LabelF
<1>5. \A e, n : n \in Range(LabelOf(e, i, f)) <=>
                  n # "" /\ e.type = "tool_started" /\ e.index = i /\ e.label[f] = n
  <2>1. \A n : n \notin Range(<<>>) BY DEF Range
  <2>2. \A e, n : n \in Range(<<e.label[f]>>) <=> e.label[f] = n BY DEF Range
  <2> QED BY <2>1, <2>2 DEF LabelOf
<1> HIDE DEF F
<1>6. \A x : x \in Range(Gather(F, es)) <=> \E e \in Range(es) : x \in Range(F[e]) BY <1>1, GatherRange
<1>7. \A n : \A e \in Range(es) :
       n \in Range(F[e]) <=> n # "" /\ e.type = "tool_started" /\ e.index = i /\ e.label[f] = n
  BY <1>4, <1>5, Zenon
<1> QED BY <1>2, <1>6, <1>7, Zenon DEF StartLabels

-----------------------------------------------------------------------------
(* A chunk and its events. *)

StartOf(t) == [type |-> "tool_started", index |-> t.index, label |-> t.label]
GivenOf(t) == [type |-> "tool_arguments", index |-> t.index, args |-> t.args]
Starts(tools, j) ==
  Labelled(tools[j]) /\ \A k \in 1..(j - 1) : tools[k].index = tools[j].index => ~Labelled(tools[k])
ContentOf(chunk) == [type |-> "content", text |-> chunk.content]
Thought == [type |-> "reasoning"]
Finish == [type |-> "completed", result |-> NoResult]
Tooled(tools) == FlattenSeq([j \in DOMAIN tools |-> ToolEvents(tools, j)])

\* One element is a sequence.
LEMMA Single == ASSUME NEW S, NEW x \in S PROVE <<x>> \in Seq(S)
  OBVIOUS

\* What the events of a chunk give.
LEMMA ParsedYields == Yields(Parsed)
<1> SUFFICES ASSUME NEW e \in Parsed
             PROVE  /\ TextOf(e) \in Seq(STRING) /\ CompletionOf(e) \in Seq(Nat)
                    /\ \A i \in Nat : FragmentOf(e, i) \in Seq(STRING) /\ \A f \in Labels : LabelOf(e, i, f) \in Seq(STRING)
  BY DEF Yields
<1>1. <<>> \in Seq(STRING) /\ <<>> \in Seq(Nat) BY EmptySeq
<1>2. TextOf(e) \in Seq(STRING) BY ParsedText
<1>3. e.type # "tool_completed" BY DEF Parsed
<1>4. CompletionOf(e) \in Seq(Nat) BY <1>1, <1>3 DEF CompletionOf
<1>5. e.type = "tool_started" => \A f \in Labels : e.label[f] \in STRING
  <2>1. e.type = "tool_started" => e.label \in [Labels -> STRING] BY DEF Parsed
  <2>2. \A x \in [Labels -> STRING], f \in Labels : x[f] \in STRING OBVIOUS
  <2> QED BY <2>1, <2>2, Zenon
<1>6. e.type = "tool_arguments" => e.args \in Seq(STRING) BY DEF Parsed
<1>7. ASSUME NEW i \in Nat
      PROVE  FragmentOf(e, i) \in Seq(STRING) /\ \A f \in Labels : LabelOf(e, i, f) \in Seq(STRING)
  <2>0. \A x \in STRING : <<x>> \in Seq(STRING) BY Single, Zenon
  <2>1. \A f \in Labels : LabelOf(e, i, f) \in Seq(STRING) BY <1>1, <1>5, <2>0, Zenon DEF LabelOf
  <2>2. FragmentOf(e, i) \in Seq(STRING) BY <1>1, <1>6, Zenon DEF FragmentOf
  <2> QED BY <2>1, <2>2
<1> QED BY <1>2, <1>4, <1>7

\* A delta becomes its start and its fragment, if they are there.
LEMMA ToolEventsAre ==
  ASSUME NEW tools \in Seq(Delta), NEW j \in DOMAIN tools
  PROVE  /\ StartOf(tools[j]) \in Parsed /\ GivenOf(tools[j]) \in Parsed
         /\ Starts(tools, j) \in BOOLEAN
         /\ tools[j].index \in Nat /\ tools[j].label \in [Labels -> STRING] /\ tools[j].args \in Seq(STRING)
         /\ ToolEvents(tools, j) =
              Present(Starts(tools, j), StartOf(tools[j])) \o Present(tools[j].args # <<>>, GivenOf(tools[j]))
         /\ ToolEvents(tools, j) \in Seq(Parsed)
         /\ \A e : e \in Range(ToolEvents(tools, j)) <=>
                     \/ Starts(tools, j) /\ e = StartOf(tools[j])
                     \/ tools[j].args # <<>> /\ e = GivenOf(tools[j])
<1> DEFINE t == tools[j]
           a == Present(Starts(tools, j), StartOf(t))
           b == Present(t.args # <<>>, GivenOf(t))
<1>1. t \in Delta OBVIOUS
<1>2. t.index \in Nat /\ t.label \in [Labels -> STRING] /\ t.args \in Seq(STRING)
  <2> HIDE DEF t
  <2> QED BY <1>1 DEF Delta
<1>3. StartOf(t) \in Parsed /\ GivenOf(t) \in Parsed
  <2> HIDE DEF t
  <2>1. StartOf(t) \in Parsed BY <1>2 DEF StartOf, Parsed
  <2>2. GivenOf(t) \in Parsed BY <1>2 DEF GivenOf, Parsed
  <2> QED BY <2>1, <2>2
<1>4. ToolEvents(tools, j) = a \o b BY Zenon DEF ToolEvents, Starts, StartOf, GivenOf
<1>5. Starts(tools, j) \in BOOLEAN BY DEF Starts, Labelled
<1>6. PICK F : F = [e \in Parsed |-> <<e>>] OBVIOUS
<1>7. F \in [Parsed -> Seq(Parsed)]
  <2> DEFINE P == Parsed
  <2>1. F = [e \in P |-> <<e>>] BY <1>6
  <2> HIDE DEF P
  <2>2. F \in [P -> Seq(P)] BY <2>1
  <2> QED BY <2>2 DEF P
<1>8. /\ a \in Seq(Parsed)
      /\ \A e : e \in Range(a) <=> Starts(tools, j) /\ e = StartOf(t)
  <2> HIDE DEF t
  <2> QED BY <1>3, <1>5, <1>7, GatherPresent
<1>9. /\ b \in Seq(Parsed)
      /\ \A e : e \in Range(b) <=> t.args # <<>> /\ e = GivenOf(t)
  <2> DEFINE p == t.args # <<>>
  <2>1. p \in BOOLEAN OBVIOUS
  <2> HIDE DEF t, p
  <2>2. /\ Present(p, GivenOf(t)) \in Seq(Parsed)
        /\ \A e : e \in Range(Present(p, GivenOf(t))) <=> p /\ e = GivenOf(t)
    BY <1>3, <1>7, <2>1, GatherPresent
  <2> QED BY <2>2 DEF p
<1>10. Range(a \o b) = Range(a) \cup Range(b) /\ a \o b \in Seq(Parsed)
  <2> HIDE DEF a, b
  <2> QED BY <1>8, <1>9, RangeConcatenation, ConcatProperties
<1>11. \A e : e \in Range(ToolEvents(tools, j)) <=>
               \/ Starts(tools, j) /\ e = StartOf(t)
               \/ t.args # <<>> /\ e = GivenOf(t)
  <2> HIDE DEF a, b, t
  <2> QED BY <1>4, <1>8, <1>9, <1>10
<1> QED BY <1>2, <1>3, <1>4, <1>5, <1>10, <1>11, Zenon

\* The events of all the deltas.
LEMMA TooledAre ==
  ASSUME NEW tools \in Seq(Delta)
  PROVE  /\ [j \in DOMAIN tools |-> ToolEvents(tools, j)] \in Seq(Seq(Parsed))
         /\ Tooled(tools) \in Seq(Parsed)
         /\ \A e : e \in Range(Tooled(tools)) <=>
                     \E j \in DOMAIN tools : \/ Starts(tools, j) /\ e = StartOf(tools[j])
                                             \/ tools[j].args # <<>> /\ e = GivenOf(tools[j])
<1> DEFINE f == [j \in DOMAIN tools |-> ToolEvents(tools, j)]
<1>1. DOMAIN tools = 1..Len(tools) /\ Len(tools) \in Nat OBVIOUS
<1>2. f \in Seq(Seq(Parsed))
  <2> DEFINE T == Seq(Parsed)
  <2>1. \A j \in DOMAIN tools : ToolEvents(tools, j) \in T BY ToolEventsAre
  <2> HIDE DEF T
  <2>2. f \in [1..Len(tools) -> T] BY <1>1, <2>1
  <2>3. f \in Seq(T) BY <1>1, <2>2
  <2> QED BY <2>3 DEF T
<1>3. DOMAIN f = DOMAIN tools /\ \A j \in DOMAIN tools : f[j] = ToolEvents(tools, j) OBVIOUS
<1>4. Tooled(tools) = FlattenSeq(f) BY Zenon DEF Tooled
<1> HIDE DEF f
<1>5. FlattenSeq(f) \in Seq(Parsed) BY <1>2, FlattenType
<1>6. \A e : e \in Range(FlattenSeq(f)) <=> \E j \in DOMAIN f : e \in Range(f[j]) BY <1>2, FlattenRange
<1>7. \A j \in DOMAIN tools : \A e : e \in Range(f[j]) <=>
        \/ Starts(tools, j) /\ e = StartOf(tools[j])
        \/ tools[j].args # <<>> /\ e = GivenOf(tools[j])
  <2> SUFFICES ASSUME NEW j \in DOMAIN tools
               PROVE  \A e : e \in Range(f[j]) <=>
                        \/ Starts(tools, j) /\ e = StartOf(tools[j])
                        \/ tools[j].args # <<>> /\ e = GivenOf(tools[j])
    OBVIOUS
  <2>1. f[j] = ToolEvents(tools, j) BY <1>3
  <2> QED BY <2>1, ToolEventsAre, Zenon
<1> QED BY <1>2, <1>3, <1>4, <1>5, <1>6, <1>7, Zenon DEF f

\* The events of a chunk.
LEMMA ParseIs ==
  ASSUME NEW chunk \in Chunk
  PROVE  /\ chunk.content \in Seq(STRING) /\ chunk.tools \in Seq(Delta)
         /\ chunk.reasoning \in BOOLEAN /\ chunk.finish \in BOOLEAN
         /\ ContentOf(chunk) \in Parsed /\ Thought \in Parsed /\ Finish \in Parsed
         /\ Parse(chunk) = Present(chunk.content # <<>>, ContentOf(chunk)) \o Present(chunk.reasoning, Thought)
                             \o Tooled(chunk.tools) \o Present(chunk.finish, Finish)
<1>1. /\ chunk.content \in Seq(STRING) /\ chunk.tools \in Seq(Delta)
      /\ chunk.reasoning \in BOOLEAN /\ chunk.finish \in BOOLEAN
  BY DEF Chunk
<1>2. ContentOf(chunk) \in Parsed BY <1>1 DEF ContentOf, Parsed
<1>3. Thought \in Parsed BY DEF Thought, Parsed
<1>4. Finish \in Parsed BY DEF Finish, Parsed
<1> QED BY <1>1, <1>2, <1>3, <1>4, Zenon DEF Parse, ContentOf, Thought, Finish, Tooled

\* What they give, in their order.
LEMMA ParseGather ==
  ASSUME NEW chunk \in Chunk, NEW T, NEW F \in [Parsed -> Seq(T)]
  PROVE  /\ Gather(F, Parse(chunk)) =
              (IF chunk.content # <<>> THEN F[ContentOf(chunk)] ELSE <<>>)
                \o (IF chunk.reasoning THEN F[Thought] ELSE <<>>)
                \o Gather(F, Tooled(chunk.tools))
                \o (IF chunk.finish THEN F[Finish] ELSE <<>>)
         /\ Gather(F, Tooled(chunk.tools)) \in Seq(T)
         /\ \A e : e \in Range(Parse(chunk)) <=>
              \/ chunk.content # <<>> /\ e = ContentOf(chunk)
              \/ chunk.reasoning /\ e = Thought
              \/ e \in Range(Tooled(chunk.tools))
              \/ chunk.finish /\ e = Finish
<1> DEFINE p == chunk.content # <<>>
           a == Present(p, ContentOf(chunk))
           b == Present(chunk.reasoning, Thought)
           c == Tooled(chunk.tools)
           d == Present(chunk.finish, Finish)
<1>1. /\ chunk.tools \in Seq(Delta) /\ chunk.reasoning \in BOOLEAN /\ chunk.finish \in BOOLEAN
      /\ ContentOf(chunk) \in Parsed /\ Thought \in Parsed /\ Finish \in Parsed
      /\ Parse(chunk) = ((a \o b) \o c) \o d
  BY ParseIs, Zenon
<1>2. p \in BOOLEAN OBVIOUS
<1>0. ASSUME NEW e \in Parsed, NEW q \in BOOLEAN
      PROVE  /\ Present(q, e) \in Seq(Parsed) /\ Gather(F, Present(q, e)) = (IF q THEN F[e] ELSE <<>>)
             /\ \A x : x \in Range(Present(q, e)) <=> q /\ x = e
  BY GatherPresent
<1> HIDE DEF p
<1>3. /\ a \in Seq(Parsed) /\ Gather(F, a) = (IF p THEN F[ContentOf(chunk)] ELSE <<>>)
      /\ \A e : e \in Range(a) <=> p /\ e = ContentOf(chunk)
  BY <1>0, <1>1, <1>2, Zenon
<1>4. /\ b \in Seq(Parsed) /\ Gather(F, b) = (IF chunk.reasoning THEN F[Thought] ELSE <<>>)
      /\ \A e : e \in Range(b) <=> chunk.reasoning /\ e = Thought
  BY <1>0, <1>1, Zenon
<1>5. /\ d \in Seq(Parsed) /\ Gather(F, d) = (IF chunk.finish THEN F[Finish] ELSE <<>>)
      /\ \A e : e \in Range(d) <=> chunk.finish /\ e = Finish
  BY <1>0, <1>1, Zenon
<1>6. c \in Seq(Parsed) BY <1>1, TooledAre
<1> HIDE DEF a, b, c, d
<1>7. Gathers(Parsed, T, F) BY GatherIs
<1>8. \A x, y \in Seq(Parsed) : x \o y \in Seq(Parsed) /\ Range(x \o y) = Range(x) \cup Range(y)
  BY RangeConcatenation, ConcatProperties
<1>9. a \o b \in Seq(Parsed) /\ (a \o b) \o c \in Seq(Parsed) BY <1>3, <1>4, <1>6, <1>8, Zenon
<1>10. Gather(F, Parse(chunk)) = ((Gather(F, a) \o Gather(F, b)) \o Gather(F, c)) \o Gather(F, d)
  <2>1. Gather(F, a \o b) = Gather(F, a) \o Gather(F, b) BY <1>3, <1>4, <1>7, Zenon DEF Gathers
  <2>2. Gather(F, (a \o b) \o c) = Gather(F, a \o b) \o Gather(F, c) BY <1>6, <1>7, <1>9, Zenon DEF Gathers
  <2>3. Gather(F, ((a \o b) \o c) \o d) = Gather(F, (a \o b) \o c) \o Gather(F, d)
    BY <1>5, <1>7, <1>9, Zenon DEF Gathers
  <2> QED BY <1>1, <2>1, <2>2, <2>3, Zenon
<1>11. Range(Parse(chunk)) = ((Range(a) \cup Range(b)) \cup Range(c)) \cup Range(d)
  <2>1. Range(a \o b) = Range(a) \cup Range(b) BY <1>3, <1>4, <1>8, Zenon
  <2>2. Range((a \o b) \o c) = Range(a \o b) \cup Range(c) BY <1>6, <1>8, <1>9, Zenon
  <2>3. Range(((a \o b) \o c) \o d) = Range((a \o b) \o c) \cup Range(d) BY <1>5, <1>8, <1>9, Zenon
  <2> QED BY <1>1, <2>1, <2>2, <2>3, Zenon
<1>12. Gather(F, Parse(chunk)) =
         (((IF p THEN F[ContentOf(chunk)] ELSE <<>>)
           \o (IF chunk.reasoning THEN F[Thought] ELSE <<>>))
           \o Gather(F, c))
           \o (IF chunk.finish THEN F[Finish] ELSE <<>>)
  BY <1>3, <1>4, <1>5, <1>10, Zenon
<1>13. \A e : e \in Range(Parse(chunk)) <=>
         \/ p /\ e = ContentOf(chunk)
         \/ chunk.reasoning /\ e = Thought
         \/ e \in Range(c)
         \/ chunk.finish /\ e = Finish
  BY <1>3, <1>4, <1>5, <1>11
<1>14. Gather(F, c) \in Seq(T) BY <1>6, <1>7, Zenon DEF Gathers
<1> QED BY <1>12, <1>13, <1>14, Zenon DEF p, c

\* Nothing, something, nothing and nothing.
LEMMA Padding ==
  ASSUME NEW S, NEW x \in Seq(S)
  PROVE  /\ ((<<>> \o <<>>) \o x) \o <<>> = x /\ ((x \o <<>>) \o <<>>) \o <<>> = x
<1>1. x \o <<>> = x /\ <<>> \o x = x BY ConcatEmptySeq
<1>2. <<>> \o <<>> = <<>> OBVIOUS
<1> QED BY <1>1, <1>2, Zenon

\* A chunk's text is its content.
LEMMA ParseTexts == ASSUME NEW chunk \in Chunk PROVE Texts(Parse(chunk)) = chunk.content
<1> DEFINE F == TextF(Parsed)
<1>1. F \in [Parsed -> Seq(STRING)] BY ParsedYields, YieldsFunctions
<1>2. Texts(Parse(chunk)) = Gather(F, Parse(chunk))
  <2>1. Parse(chunk) \in Seq(Parsed) BY ParseType
  <2> HIDE DEF F
  <2>2. Texts(Parse(chunk)) = Gather(TextF(Parsed), Parse(chunk)) BY <2>1, HistoryGathers
  <2> QED BY <2>2 DEF F
<1>3. /\ chunk.content \in Seq(STRING) /\ chunk.tools \in Seq(Delta)
      /\ ContentOf(chunk) \in Parsed /\ Thought \in Parsed /\ Finish \in Parsed
  BY ParseIs, Zenon
<1>4. F[ContentOf(chunk)] = chunk.content /\ F[Thought] = <<>> /\ F[Finish] = <<>>
  <2>1. \A e \in Parsed : F[e] = TextOf(e) BY DEF TextF
  <2>2. TextOf(ContentOf(chunk)) = chunk.content BY DEF TextOf, ContentOf
  <2>3. TextOf(Thought) = <<>> /\ TextOf(Finish) = <<>> BY DEF TextOf, Thought, Finish
  <2> HIDE DEF F
  <2> QED BY <1>3, <2>1, <2>2, <2>3, Zenon
<1>5. Gather(F, Tooled(chunk.tools)) = <<>>
  <2>1. \A e \in Parsed : F[e] = TextOf(e) BY DEF TextF
  <2>2. \A t : TextOf(StartOf(t)) = <<>> /\ TextOf(GivenOf(t)) = <<>> BY DEF TextOf, StartOf, GivenOf
  <2>3. /\ Tooled(chunk.tools) \in Seq(Parsed)
        /\ \A e \in Range(Tooled(chunk.tools)) : \E t : e = StartOf(t) \/ e = GivenOf(t)
    BY <1>3, TooledAre, Zenon
  <2> HIDE DEF F
  <2>4. \A e \in Range(Tooled(chunk.tools)) : e \in Parsed BY <2>3 DEF Range
  <2>5. \A e \in Range(Tooled(chunk.tools)) : F[e] = <<>> BY <2>1, <2>2, <2>3, <2>4, Zenon
  <2> QED BY <1>1, <2>3, <2>5, GatherRange
<1> HIDE DEF F
<1>6. Gather(F, Parse(chunk)) =
        (((IF chunk.content # <<>> THEN chunk.content ELSE <<>>) \o <<>>) \o <<>>) \o <<>>
  <2>1. Gather(F, Parse(chunk)) =
              (IF chunk.content # <<>> THEN F[ContentOf(chunk)] ELSE <<>>)
                \o (IF chunk.reasoning THEN F[Thought] ELSE <<>>)
                \o Gather(F, Tooled(chunk.tools))
                \o (IF chunk.finish THEN F[Finish] ELSE <<>>)
    BY <1>1, ParseGather
  <2>2. (IF chunk.reasoning THEN F[Thought] ELSE <<>>) = <<>> BY <1>4, Zenon
  <2>3. (IF chunk.finish THEN F[Finish] ELSE <<>>) = <<>> BY <1>4, Zenon
  <2> QED BY <1>4, <1>5, <2>1, <2>2, <2>3, Zenon
<1>7. (IF chunk.content # <<>> THEN chunk.content ELSE <<>>) = chunk.content OBVIOUS
<1>8. ((chunk.content \o <<>>) \o <<>>) \o <<>> = chunk.content BY <1>3, Padding
<1> QED BY <1>2, <1>6, <1>7, <1>8, Zenon

\* A delta gives its own call its arguments, and no other.
LEMMA ToolFragments ==
  ASSUME NEW tools \in Seq(Delta), NEW j \in DOMAIN tools, NEW i \in Nat
  PROVE  Fragments(ToolEvents(tools, j), i) = (IF tools[j].index = i THEN tools[j].args ELSE <<>>)
<1> DEFINE F == FragmentF(Parsed, i)
           t == tools[j]
           p == t.args # <<>>
           a == Present(Starts(tools, j), StartOf(t))
           b == Present(p, GivenOf(t))
<1>1. F \in [Parsed -> Seq(STRING)] BY ParsedYields, YieldsFunctions
<1>2. /\ StartOf(t) \in Parsed /\ GivenOf(t) \in Parsed
      /\ Starts(tools, j) \in BOOLEAN /\ t.args \in Seq(STRING)
      /\ ToolEvents(tools, j) = a \o b /\ ToolEvents(tools, j) \in Seq(Parsed)
  BY ToolEventsAre, Zenon
<1>3. Fragments(ToolEvents(tools, j), i) = Gather(F, ToolEvents(tools, j))
  <2> HIDE DEF a, b, t
  <2>1. \A es \in Seq(Parsed) : Fragments(es, i) = Gather(FragmentF(Parsed, i), es) BY HistoryGathers
  <2> QED BY <1>2, <2>1, Zenon
<1>4. p \in BOOLEAN OBVIOUS
<1>5. F[StartOf(t)] = <<>> /\ F[GivenOf(t)] = (IF t.index = i THEN t.args ELSE <<>>)
  <2>1. \A e \in Parsed : F[e] = FragmentOf(e, i) BY DEF FragmentF
  <2>2. FragmentOf(StartOf(t), i) = <<>> BY DEF FragmentOf, StartOf
  <2>3. FragmentOf(GivenOf(t), i) = (IF t.index = i THEN t.args ELSE <<>>) BY DEF FragmentOf, GivenOf
  <2> HIDE DEF F, t
  <2> QED BY <1>2, <2>1, <2>2, <2>3, Zenon
<1> HIDE DEF F
<1>0. ASSUME NEW e \in Parsed, NEW q \in BOOLEAN
      PROVE  Present(q, e) \in Seq(Parsed) /\ Gather(F, Present(q, e)) = (IF q THEN F[e] ELSE <<>>)
  BY <1>1, GatherPresent
<1>6. a \in Seq(Parsed) /\ Gather(F, a) = <<>>
  <2>1. Gather(F, a) = (IF Starts(tools, j) THEN F[StartOf(t)] ELSE <<>>) /\ a \in Seq(Parsed)
    BY <1>0, <1>2, Zenon
  <2> QED BY <1>5, <2>1, Zenon
<1>7. b \in Seq(Parsed) /\ Gather(F, b) = (IF t.index = i THEN t.args ELSE <<>>)
  <2> HIDE DEF t
  <2>1. Gather(F, b) = (IF p THEN F[GivenOf(t)] ELSE <<>>) /\ b \in Seq(Parsed)
    BY <1>0, <1>2, <1>4, Zenon
  <2>2. CASE p BY <1>5, <2>1, <2>2
  <2>3. CASE ~p BY <2>1, <2>3
  <2> QED BY <2>2, <2>3
<1> HIDE DEF a, b
<1>8. Gather(F, a \o b) = Gather(F, a) \o Gather(F, b)
  <2>1. Gathers(Parsed, STRING, F) BY <1>1, GatherIs
  <2> QED BY <1>6, <1>7, <2>1, Zenon DEF Gathers
<1>9. \A x \in Seq(STRING) : <<>> \o x = x BY ConcatEmptySeq
<1>10. (IF t.index = i THEN t.args ELSE <<>>) \in Seq(STRING)
  <2>1. <<>> \in Seq(STRING) BY EmptySeq
  <2> HIDE DEF t
  <2> QED BY <1>2, <2>1, Zenon
<1>11. Gather(F, a \o b) = (IF t.index = i THEN t.args ELSE <<>>)
  <2> HIDE DEF t
  <2> QED BY <1>6, <1>7, <1>8, <1>9, <1>10, Zenon
<1> QED BY <1>2, <1>3, <1>11, Zenon

\* The fragments of a chunk are its arguments.
LEMMA ParseFragments ==
  ASSUME NEW chunk \in Chunk, NEW i \in Nat
  PROVE  Fragments(Parse(chunk), i) = ArgsSent(chunk, i) /\ ArgsSent(chunk, i) \in Seq(STRING)
<1> DEFINE F == FragmentF(Parsed, i)
           U == Seq(Parsed)
           G == [x \in U |-> Gather(F, x)]
           tools == chunk.tools
           f == [j \in DOMAIN tools |-> ToolEvents(tools, j)]
<1>1. F \in [Parsed -> Seq(STRING)] BY ParsedYields, YieldsFunctions
<1>2. \A es \in Seq(Parsed) : Fragments(es, i) = Gather(F, es) BY HistoryGathers
<1>3. /\ tools \in Seq(Delta)
      /\ ContentOf(chunk) \in Parsed /\ Thought \in Parsed /\ Finish \in Parsed
  BY ParseIs, Zenon
<1>4. F[ContentOf(chunk)] = <<>> /\ F[Thought] = <<>> /\ F[Finish] = <<>>
  <2>1. \A e \in Parsed : F[e] = FragmentOf(e, i) BY DEF FragmentF
  <2>2. FragmentOf(ContentOf(chunk), i) = <<>> BY DEF FragmentOf, ContentOf
  <2>3. FragmentOf(Thought, i) = <<>> /\ FragmentOf(Finish, i) = <<>> BY DEF FragmentOf, Thought, Finish
  <2> HIDE DEF F
  <2> QED BY <1>3, <2>1, <2>2, <2>3, Zenon
<1> HIDE DEF F, tools
<1>5. f \in Seq(U) BY <1>3, TooledAre, Zenon
<1>6. \A x \in U : Gather(F, x) \in Seq(STRING)
  <2>1. Gathers(Parsed, STRING, F) BY <1>1, GatherIs
  <2> QED BY <2>1, Zenon DEF Gathers
<1>7. G \in [U -> Seq(STRING)] /\ \A x \in U : G[x] = Gather(F, x)
  <2> HIDE DEF U
  <2> QED BY <1>6
<1>8. Gather(F, Tooled(tools)) = Gather(G, f)
  <2>1. U = Seq(Parsed) OBVIOUS
  <2>2. Tooled(tools) = FlattenSeq(f) BY Zenon DEF Tooled
  <2> HIDE DEF U, G, f
  <2>3. Splits(Parsed, STRING, U, F, G) BY <1>1, <1>7, <2>1, Zenon DEF Splits
  <2>4. Gather(F, FlattenSeq(f)) = Gather(G, f) BY <1>5, <2>3, GatherParts
  <2> QED BY <2>2, <2>4, Zenon
<1>9. Gather(G, f) = ArgsSent(chunk, i)
  <2>1. \A j \in DOMAIN tools : ToolEvents(tools, j) \in U BY <1>3, ToolEventsAre, Zenon
  <2>2. \A j \in DOMAIN tools : Fragments(ToolEvents(tools, j), i) = (IF tools[j].index = i THEN tools[j].args ELSE <<>>)
    BY <1>3, ToolFragments, Zenon
  <2>3. DOMAIN f = DOMAIN tools /\ \A j \in DOMAIN tools : f[j] = ToolEvents(tools, j) OBVIOUS
  <2>4. \A j \in DOMAIN tools : G[f[j]] = (IF tools[j].index = i THEN tools[j].args ELSE <<>>)
    <3> SUFFICES ASSUME NEW j \in DOMAIN tools
                 PROVE  G[f[j]] = (IF tools[j].index = i THEN tools[j].args ELSE <<>>)
      OBVIOUS
    <3>1. f[j] = ToolEvents(tools, j) /\ ToolEvents(tools, j) \in U BY <2>1, <2>3, Zenon
    <3>2. G[ToolEvents(tools, j)] = Fragments(ToolEvents(tools, j), i) BY <1>2, <1>7, <3>1, Zenon
    <3> HIDE DEF G, f
    <3> QED BY <2>2, <3>1, <3>2, Zenon
  <2> HIDE DEF G, f, U
  <2>5. [j \in DOMAIN f |-> G[f[j]]]
          = [j \in DOMAIN tools |-> IF tools[j].index = i THEN tools[j].args ELSE <<>>]
    BY <2>3, <2>4
  <2> QED BY <2>5, Zenon DEF Gather, ArgsSent, tools
<1> HIDE DEF G, f
<1>10. Gather(F, Parse(chunk)) = ((<<>> \o <<>>) \o Gather(F, Tooled(tools))) \o <<>> /\ Gather(F, Tooled(tools)) \in Seq(STRING)
  <2>1. /\ Gather(F, Parse(chunk)) =
              (IF chunk.content # <<>> THEN F[ContentOf(chunk)] ELSE <<>>)
                \o (IF chunk.reasoning THEN F[Thought] ELSE <<>>)
                \o Gather(F, Tooled(chunk.tools))
                \o (IF chunk.finish THEN F[Finish] ELSE <<>>)
        /\ Gather(F, Tooled(chunk.tools)) \in Seq(STRING)
    BY <1>1, ParseGather
  <2>2. (IF chunk.content # <<>> THEN F[ContentOf(chunk)] ELSE <<>>) = <<>> BY <1>4, Zenon
  <2>3. (IF chunk.reasoning THEN F[Thought] ELSE <<>>) = <<>> BY <1>4, Zenon
  <2>4. (IF chunk.finish THEN F[Finish] ELSE <<>>) = <<>> BY <1>4, Zenon
  <2> QED BY <2>1, <2>2, <2>3, <2>4, Zenon DEF tools
<1>11. ((<<>> \o <<>>) \o Gather(F, Tooled(tools))) \o <<>> = Gather(F, Tooled(tools))
  BY <1>10, Padding
<1>12. Parse(chunk) \in Seq(Parsed) BY ParseType
<1> QED BY <1>2, <1>8, <1>9, <1>10, <1>11, <1>12, Zenon

\* The calls that the events of a history are about.
Opens(e) == e.type \in {"tool_started", "tool_arguments"}
Opened(es) == {e.index : e \in {x \in Range(es) : Opens(x)}}

\* Which events of a chunk are about a call, and what they say.
LEMMA ParseTools ==
  ASSUME NEW chunk \in Chunk, NEW e
  PROVE  e \in Range(Parse(chunk)) /\ Opens(e) <=>
           \E j \in DOMAIN chunk.tools : \/ Starts(chunk.tools, j) /\ e = StartOf(chunk.tools[j])
                                         \/ chunk.tools[j].args # <<>> /\ e = GivenOf(chunk.tools[j])
<1>1. chunk.tools \in Seq(Delta) BY ParseIs, Zenon
<1>2. PICK F : F = [x \in Parsed |-> <<x>>] OBVIOUS
<1>3. F \in [Parsed -> Seq(Parsed)]
  <2> DEFINE P == Parsed
  <2>1. F = [x \in P |-> <<x>>] BY <1>2
  <2> HIDE DEF P
  <2>2. F \in [P -> Seq(P)] BY <2>1
  <2> QED BY <2>2 DEF P
<1>4. \A x : x \in Range(Parse(chunk)) <=>
              \/ chunk.content # <<>> /\ x = ContentOf(chunk)
              \/ chunk.reasoning /\ x = Thought
              \/ x \in Range(Tooled(chunk.tools))
              \/ chunk.finish /\ x = Finish
  BY <1>3, ParseGather, Zenon
<1>5. ~Opens(ContentOf(chunk)) /\ ~Opens(Thought) /\ ~Opens(Finish) BY DEF Opens, ContentOf, Thought, Finish
<1>6. \A t : Opens(StartOf(t)) /\ Opens(GivenOf(t)) BY DEF Opens, StartOf, GivenOf
<1>7. e \in Range(Tooled(chunk.tools)) <=>
           \E j \in DOMAIN chunk.tools : \/ Starts(chunk.tools, j) /\ e = StartOf(chunk.tools[j])
                                         \/ chunk.tools[j].args # <<>> /\ e = GivenOf(chunk.tools[j])
  BY <1>1, TooledAre, Zenon
<1> QED BY <1>4, <1>5, <1>6, <1>7, Zenon

\* The places before m are places.
LEMMA Numbers ==
  ASSUME NEW n \in Nat, NEW m \in 1..n
  PROVE  m \in Nat /\ \A k \in 1..(m - 1) : k \in 1..n /\ ~(m <= k)
  OBVIOUS

\* The first delta that labels a call starts it.
LEMMA FirstLabelled ==
  ASSUME NEW tools \in Seq(Delta), NEW j \in DOMAIN tools, Labelled(tools[j])
  PROVE  \E m \in DOMAIN tools : Starts(tools, m) /\ tools[m].index = tools[j].index
<1> DEFINE L == {k \in DOMAIN tools : tools[k].index = tools[j].index /\ Labelled(tools[k])}
<1>1. DOMAIN tools = 1..Len(tools) /\ Len(tools) \in Nat BY LenProperties, Zenon
<1>2. L \in SUBSET Nat /\ j \in L
  <2>1. \A k \in 1..Len(tools) : k \in Nat BY <1>1, Numbers, Zenon
  <2>2. j \in L OBVIOUS
  <2> QED BY <1>1, <2>1, <2>2
<1>3. PICK m \in L : \A k \in L : m <= k
  <2> HIDE DEF L
  <2> QED BY <1>2, NatMin
<1>4. m \in DOMAIN tools /\ tools[m].index = tools[j].index /\ Labelled(tools[m]) OBVIOUS
<1>5. ASSUME NEW k \in 1..(m - 1), tools[k].index = tools[m].index PROVE ~Labelled(tools[k])
  <2>1. k \in DOMAIN tools /\ ~(m <= k)
    <3>1. m \in 1..Len(tools) BY <1>1, <1>4, Zenon
    <3>2. k \in 1..Len(tools) /\ ~(m <= k) BY <1>1, <3>1, Numbers, Zenon
    <3> QED BY <1>1, <3>2, Zenon
  <2>2. k \notin L BY <1>3, <2>1
  <2> QED BY <1>4, <1>5, <2>1, <2>2
<1>6. Starts(tools, m) BY <1>4, <1>5 DEF Starts
<1> QED BY <1>4, <1>6

\* The delta that starts a call is the one that announces it.
LEMMA StartsFirst ==
  ASSUME NEW chunk \in Chunk, NEW i \in Nat, NEW j \in DOMAIN chunk.tools
  PROVE  Starts(chunk.tools, j) /\ chunk.tools[j].index = i
           <=> j \in Announcing(chunk, i) /\ \A y \in Announcing(chunk, i) : j <= y
<1> DEFINE tools == chunk.tools
           A == Announcing(chunk, i)
<1>1. DOMAIN tools = 1..Len(tools) /\ Len(tools) \in Nat BY ParseIs, LenProperties, Zenon
<1>2. \A y : y \in A <=> y \in DOMAIN tools /\ tools[y].index = i /\ Labelled(tools[y]) BY DEF Announcing
<1> HIDE DEF tools, A
<1>3. j \in 1..Len(tools) BY <1>1 DEF tools
<1>4. \A y \in 1..Len(tools) : ~(j <= y) <=> y \in 1..(j - 1) BY <1>1, <1>3
<1>5. \A y \in 1..(j - 1) : y \in 1..Len(tools) BY <1>1, <1>3
<1>6. Starts(tools, j) <=>
        Labelled(tools[j]) /\ \A k \in 1..(j - 1) : tools[k].index = tools[j].index => ~Labelled(tools[k])
  BY Zenon DEF Starts
<1> QED BY <1>1, <1>2, <1>3, <1>4, <1>5, <1>6, Zenon DEF tools, A

\* A chunk gives a call the labels of the delta that announces it.
LEMMA ParseLabels ==
  ASSUME NEW chunk \in Chunk, NEW i \in Nat, NEW f \in Labels
  PROVE  /\ Range(LabelsOf(Parse(chunk), i, f)) = LabelsSent(chunk, i, f)
         /\ LabelsSent(chunk, i, f) # {} => LabelsOf(Parse(chunk), i, f) # <<>>
<1> DEFINE tools == chunk.tools
           ns == LabelsOf(Parse(chunk), i, f)
<1>1. tools \in Seq(Delta) /\ Parse(chunk) \in Seq(Parsed) BY ParseIs, ParseType, Zenon
<1>2. \A n : n \in Range(ns) <=>
               n # "" /\ \E e \in Range(Parse(chunk)) : e.type = "tool_started" /\ e.index = i /\ e.label[f] = n
  <2>1. StartLabels(Parse(chunk), i, f)
    <3> DEFINE es == Parse(chunk)
    <3> HIDE DEF es
    <3>1. es \in Seq(Parsed) BY <1>1 DEF es
    <3>2. StartLabels(es, i, f) BY <3>1, ParsedYields, LabelsRange, Zenon
    <3> QED BY <3>2 DEF es
  <2> QED BY <2>1, Zenon DEF StartLabels
<1>3. \A n : n \in LabelsSent(chunk, i, f) <=>
               n # "" /\ \E j \in DOMAIN tools : Starts(tools, j) /\ tools[j].index = i /\ tools[j].label[f] = n
  <2>1. \A n : n \in LabelsSent(chunk, i, f) <=>
                 n # "" /\ \E j \in Announcing(chunk, i) :
                             (\A y \in Announcing(chunk, i) : j <= y) /\ tools[j].label[f] = n
    BY DEF LabelsSent
  <2>2. \A j \in Announcing(chunk, i) : j \in DOMAIN tools BY DEF Announcing
  <2> QED BY <2>1, <2>2, StartsFirst, Zenon
<1>4. \A e : e \in Range(Parse(chunk)) /\ Opens(e) <=>
           \E j \in DOMAIN tools : \/ Starts(tools, j) /\ e = StartOf(tools[j])
                                   \/ tools[j].args # <<>> /\ e = GivenOf(tools[j])
  BY ParseTools, Zenon
<1> HIDE DEF tools, ns
<1>5. \A t : /\ StartOf(t).type = "tool_started" /\ StartOf(t).index = t.index /\ StartOf(t).label = t.label
             /\ GivenOf(t).type # "tool_started"
  BY DEF StartOf, GivenOf
<1>6. \A e : e.type = "tool_started" => Opens(e) BY DEF Opens
<1>7. ASSUME NEW n PROVE (\E e \in Range(Parse(chunk)) : e.type = "tool_started" /\ e.index = i /\ e.label[f] = n)
        <=> \E j \in DOMAIN tools : Starts(tools, j) /\ tools[j].index = i /\ tools[j].label[f] = n
  <2>1. ASSUME NEW e \in Range(Parse(chunk)), e.type = "tool_started" /\ e.index = i /\ e.label[f] = n
        PROVE  \E j \in DOMAIN tools : Starts(tools, j) /\ tools[j].index = i /\ tools[j].label[f] = n
    <3>1. PICK j \in DOMAIN tools : \/ Starts(tools, j) /\ e = StartOf(tools[j])
                                    \/ tools[j].args # <<>> /\ e = GivenOf(tools[j])
      BY <1>4, <1>6, <2>1, Zenon
    <3> QED BY <1>5, <2>1, <3>1, Zenon
  <2>2. ASSUME NEW j \in DOMAIN tools, Starts(tools, j) /\ tools[j].index = i /\ tools[j].label[f] = n
        PROVE  \E e \in Range(Parse(chunk)) : e.type = "tool_started" /\ e.index = i /\ e.label[f] = n
    BY <1>4, <1>5, <2>2, Zenon
  <2> QED BY <2>1, <2>2
<1>8. Range(ns) = LabelsSent(chunk, i, f) BY <1>2, <1>3, <1>7
<1>9. Range(<<>>) = {} BY DEF Range
<1> QED BY <1>8, <1>9, Zenon DEF ns

\* The events of a chunk are about the calls that it gives a label or arguments.
LEMMA ParseOpens == ASSUME NEW chunk \in Chunk PROVE Opened(Parse(chunk)) = CallsSent(chunk)
<1> DEFINE tools == chunk.tools
<1>1. tools \in Seq(Delta) BY ParseIs, Zenon
<1> HIDE DEF tools
<1>2. \A x : x \in CallsSent(chunk) <=>
        \E j \in DOMAIN tools : x = tools[j].index /\ (Labelled(tools[j]) \/ tools[j].args # <<>>)
  BY DEF CallsSent, Range, tools
<1>3. \A e : e \in Range(Parse(chunk)) /\ Opens(e) <=>
           \E j \in DOMAIN tools : \/ Starts(tools, j) /\ e = StartOf(tools[j])
                                   \/ tools[j].args # <<>> /\ e = GivenOf(tools[j])
  BY ParseTools, Zenon DEF tools
<1>4. \A t : StartOf(t).index = t.index /\ GivenOf(t).index = t.index BY DEF StartOf, GivenOf
<1>5. \A x : x \in Opened(Parse(chunk)) <=> \E e \in Range(Parse(chunk)) : Opens(e) /\ e.index = x
  BY DEF Opened
<1>6. ASSUME NEW x \in Opened(Parse(chunk)) PROVE x \in CallsSent(chunk)
  <2>1. PICK e \in Range(Parse(chunk)) : Opens(e) /\ e.index = x BY <1>5
  <2>2. PICK j \in DOMAIN tools : \/ Starts(tools, j) /\ e = StartOf(tools[j])
                                  \/ tools[j].args # <<>> /\ e = GivenOf(tools[j])
    BY <1>3, <2>1
  <2>3. x = tools[j].index BY <1>4, <2>1, <2>2
  <2>4. Labelled(tools[j]) \/ tools[j].args # <<>> BY <2>2 DEF Starts
  <2> QED BY <1>2, <2>3, <2>4
<1>7. ASSUME NEW x \in CallsSent(chunk) PROVE x \in Opened(Parse(chunk))
  <2>1. PICK j \in DOMAIN tools : x = tools[j].index /\ (Labelled(tools[j]) \/ tools[j].args # <<>>) BY <1>2
  <2>2. CASE tools[j].args # <<>>
    <3>1. GivenOf(tools[j]) \in Range(Parse(chunk)) /\ Opens(GivenOf(tools[j])) BY <1>3, <2>2
    <3> QED BY <1>4, <1>5, <2>1, <3>1
  <2>3. CASE Labelled(tools[j])
    <3>1. PICK m \in DOMAIN tools : Starts(tools, m) /\ tools[m].index = tools[j].index BY <1>1, <2>3, FirstLabelled
    <3>2. StartOf(tools[m]) \in Range(Parse(chunk)) /\ Opens(StartOf(tools[m])) BY <1>3, <3>1
    <3> QED BY <1>4, <1>5, <2>1, <3>1, <3>2
  <2> QED BY <2>1, <2>2, <2>3
<1> QED BY <1>6, <1>7

\* The event that completes the stream is the last of its chunk.
LEMMA ParseEnds ==
  ASSUME NEW chunk \in Chunk, NEW k \in DOMAIN Parse(chunk), Parse(chunk)[k].type = "completed"
  PROVE  k = Len(Parse(chunk))
<1> DEFINE a == Present(chunk.content # <<>>, ContentOf(chunk))
           b == Present(chunk.reasoning, Thought)
           c == Tooled(chunk.tools)
           d == Present(chunk.finish, Finish)
           x == (a \o b) \o c
<1>1. /\ chunk.tools \in Seq(Delta) /\ chunk.reasoning \in BOOLEAN /\ chunk.finish \in BOOLEAN
      /\ ContentOf(chunk) \in Parsed /\ Thought \in Parsed /\ Finish \in Parsed
      /\ Parse(chunk) = x \o d
  BY ParseIs, Zenon
<1>2. PICK F : F = [y \in Parsed |-> <<y>>] OBVIOUS
<1>3. F \in [Parsed -> Seq(Parsed)]
  <2> DEFINE P == Parsed
  <2>1. F = [y \in P |-> <<y>>] BY <1>2
  <2> HIDE DEF P
  <2>2. F \in [P -> Seq(P)] BY <2>1
  <2> QED BY <2>2 DEF P
<1>4. ASSUME NEW e \in Parsed, NEW q \in BOOLEAN
      PROVE  Present(q, e) \in Seq(Parsed) /\ \A y : y \in Range(Present(q, e)) <=> q /\ y = e
  BY <1>3, GatherPresent
<1>5. a \in Seq(Parsed) /\ \A y \in Range(a) : y = ContentOf(chunk)
  <2> DEFINE q == chunk.content # <<>>
  <2>1. q \in BOOLEAN OBVIOUS
  <2> HIDE DEF q
  <2>2. Present(q, ContentOf(chunk)) \in Seq(Parsed) /\ \A y \in Range(Present(q, ContentOf(chunk))) : y = ContentOf(chunk)
    BY <1>1, <1>4, <2>1, Zenon
  <2> QED BY <2>2 DEF q
<1>6. b \in Seq(Parsed) /\ \A y \in Range(b) : y = Thought BY <1>1, <1>4, Zenon
<1>7. c \in Seq(Parsed) /\ \A y \in Range(c) : \E t : y = StartOf(t) \/ y = GivenOf(t)
  BY <1>1, TooledAre, Zenon
<1>8. d \in Seq(Parsed) /\ Len(d) \in {0, 1}
  <2>1. d \in Seq(Parsed) BY <1>1, <1>4, Zenon
  <2>2. Len(d) \in {0, 1} BY DEF Present
  <2> QED BY <2>1, <2>2
<1> HIDE DEF a, b, c, d
<1>9. \A y, z \in Seq(Parsed) : y \o z \in Seq(Parsed) /\ Range(y \o z) = Range(y) \cup Range(z)
  BY RangeConcatenation, ConcatProperties
<1>10. x \in Seq(Parsed) /\ \A y \in Range(x) : y \in Range(a) \/ y \in Range(b) \/ y \in Range(c)
  <2>1. a \o b \in Seq(Parsed) /\ Range(a \o b) = Range(a) \cup Range(b) BY <1>5, <1>6, <1>9, Zenon
  <2>2. x \in Seq(Parsed) /\ Range(x) = Range(a \o b) \cup Range(c) BY <1>7, <1>9, <2>1, Zenon
  <2> HIDE DEF x
  <2> QED BY <2>1, <2>2
<1>11. \A y \in Range(x) : y.type # "completed"
  <2>1. ContentOf(chunk).type # "completed" /\ Thought.type # "completed" BY DEF ContentOf, Thought
  <2>2. \A t : StartOf(t).type # "completed" /\ GivenOf(t).type # "completed" BY DEF StartOf, GivenOf
  <2> HIDE DEF x
  <2> QED BY <1>5, <1>6, <1>7, <1>10, <2>1, <2>2, Zenon
<1> HIDE DEF x
<1>12. /\ Len(x \o d) = Len(x) + Len(d) /\ Len(x) \in Nat /\ Len(d) \in Nat
       /\ \A i \in 1..(Len(x) + Len(d)) : (x \o d)[i] = IF i <= Len(x) THEN x[i] ELSE d[i - Len(x)]
       /\ DOMAIN (x \o d) = 1..(Len(x) + Len(d)) /\ DOMAIN x = 1..Len(x)
  BY <1>8, <1>10, ConcatProperties
<1>13. k \in 1..(Len(x) + Len(d)) BY <1>1, <1>12
<1>14. ~(k <= Len(x))
  <2> SUFFICES ASSUME k <= Len(x) PROVE FALSE OBVIOUS
  <2>1. k \in DOMAIN x /\ (x \o d)[k] = x[k] BY <1>12, <1>13
  <2>2. x[k] \in Range(x) BY <2>1 DEF Range
  <2> QED BY <1>1, <1>11, <2>1, <2>2
<1>15. k = Len(x) + Len(d) BY <1>8, <1>12, <1>13, <1>14
<1> QED BY <1>1, <1>12, <1>15

-----------------------------------------------------------------------------
(* A history tells what the chunks said. *)

ContentF == [c \in Chunk |-> c.content]
ArgsF(i) == [c \in Chunk |-> ArgsSent(c, i)]

\* The labels ns end in the one that the last chunk that labels the call i gives it.
LabelledBy(ns, chunks, i, f) ==
  IF ns = <<>> THEN \A k \in DOMAIN chunks : LabelsSent(chunks[k], i, f) = {}
  ELSE \E k \in DOMAIN chunks :
         /\ Last(ns) \in LabelsSent(chunks[k], i, f)
         /\ \A l \in DOMAIN chunks : k < l => LabelsSent(chunks[l], i, f) = {}

Tells(es, chunks) ==
  /\ Texts(es) = Gather(ContentF, chunks)
  /\ \A i \in Nat : Fragments(es, i) = Gather(ArgsF(i), chunks)
  /\ \A i \in Nat, f \in Labels : LabelledBy(LabelsOf(es, i, f), chunks, i, f)
  /\ Opened(es) = UNION {CallsSent(chunks[k]) : k \in DOMAIN chunks}

\* The calls that two histories in a row are about.
LEMMA OpenedConcat ==
  ASSUME NEW S, NEW a \in Seq(S), NEW b \in Seq(S)
  PROVE  Opened(a \o b) = Opened(a) \cup Opened(b)
<1>1. Range(a \o b) = Range(a) \cup Range(b) BY RangeConcatenation
<1> QED BY <1>1 DEF Opened

\* What is put together of two histories in a row.
LEMMA HistoryConcat ==
  ASSUME NEW S, Yields(S), NEW a \in Seq(S), NEW b \in Seq(S)
  PROVE  /\ a \o b \in Seq(S)
         /\ Texts(a \o b) = Texts(a) \o Texts(b) /\ Texts(a) \in Seq(STRING)
         /\ Completions(a \o b) = Completions(a) \o Completions(b) /\ Completions(a) \in Seq(Nat)
<1>1. a \o b \in Seq(S) BY ConcatProperties
<1>2. TextF(S) \in [S -> Seq(STRING)] /\ CompletionF(S) \in [S -> Seq(Nat)] BY YieldsFunctions
<1>3. \A es \in Seq(S) : Texts(es) = Gather(TextF(S), es) /\ Completions(es) = Gather(CompletionF(S), es)
  BY HistoryGathers
<1>4. Gathers(S, STRING, TextF(S)) /\ Gathers(S, Nat, CompletionF(S)) BY <1>2, GatherIs
<1>5. Texts(a \o b) = Texts(a) \o Texts(b) /\ Texts(a) \in Seq(STRING) BY <1>1, <1>3, <1>4, ZenonT(40) DEF Gathers
<1>6. Completions(a \o b) = Completions(a) \o Completions(b) /\ Completions(a) \in Seq(Nat)
  BY <1>1, <1>3, <1>4, ZenonT(40) DEF Gathers
<1> QED BY <1>1, <1>5, <1>6

\* And the arguments of a call.
LEMMA FragmentsConcat ==
  ASSUME NEW S, Yields(S), NEW a \in Seq(S), NEW b \in Seq(S), NEW i \in Nat
  PROVE  Fragments(a \o b, i) = Fragments(a, i) \o Fragments(b, i) /\ Fragments(a, i) \in Seq(STRING)
<1> DEFINE F == FragmentF(S, i)
<1>1. a \o b \in Seq(S) BY ConcatProperties
<1>2. F \in [S -> Seq(STRING)] BY YieldsFunctions
<1>3. \A es \in Seq(S) : Fragments(es, i) = Gather(F, es) BY HistoryGathers
<1> HIDE DEF F
<1>4. Gathers(S, STRING, F) BY <1>2, GatherIs
<1>5. Gather(F, a \o b) = Gather(F, a) \o Gather(F, b) /\ Gather(F, a) \in Seq(STRING) BY <1>4, Zenon DEF Gathers
<1> QED BY <1>1, <1>3, <1>5, Zenon

\* And the labels of a call.
Joined(x, y, z) == x = y \o z /\ y \in Seq(STRING) /\ z \in Seq(STRING)
LEMMA LabelsConcat ==
  ASSUME NEW S, Yields(S), NEW a \in Seq(S), NEW b \in Seq(S), NEW i \in Nat, NEW f \in Labels
  PROVE  Joined(LabelsOf(a \o b, i, f), LabelsOf(a, i, f), LabelsOf(b, i, f))
<1> DEFINE F == LabelF(S, i, f)
<1>1. a \o b \in Seq(S) BY ConcatProperties
<1>2. F \in [S -> Seq(STRING)] BY YieldsFunctions
<1>3. \A es \in Seq(S) : LabelsOf(es, i, f) = Gather(F, es) BY HistoryGathers
<1> HIDE DEF F
<1>4. Gathers(S, STRING, F) BY <1>2, GatherIs
<1>5. Joined(Gather(F, a \o b), Gather(F, a), Gather(F, b)) BY <1>4, Zenon DEF Gathers, Joined
<1> QED BY <1>1, <1>3, <1>5, Zenon

\* The end of two sequences is that of the second, if there is one.
LEMMA LastConcat ==
  ASSUME NEW S, NEW a \in Seq(S), NEW b \in Seq(S)
  PROVE  /\ b = <<>> => a \o b = a
         /\ b # <<>> => a \o b # <<>> /\ Last(a \o b) = Last(b) /\ Last(b) \in Range(b)
<1>1. b = <<>> => a \o b = a BY ConcatEmptySeq
<1>2. ASSUME b # <<>> PROVE a \o b # <<>> /\ Last(a \o b) = Last(b) /\ Last(b) \in Range(b)
  <2>1. Len(b) \in Nat /\ Len(b) # 0 /\ Len(a) \in Nat /\ DOMAIN b = 1..Len(b) BY <1>2, EmptySeq, LenProperties
  <2>2. /\ Len(a \o b) = Len(a) + Len(b)
        /\ \A i \in 1..(Len(a) + Len(b)) : (a \o b)[i] = IF i <= Len(a) THEN a[i] ELSE b[i - Len(a)]
    BY ConcatProperties
  <2>3. (a \o b)[Len(a) + Len(b)] = b[Len(b)] BY <2>1, <2>2
  <2>4. Last(a \o b) = Last(b) BY <2>2, <2>3 DEF Last
  <2>5. Last(b) \in Range(b) BY <2>1 DEF Last, Range
  <2>6. a \o b # <<>> BY <2>1, <2>2
  <2> QED BY <2>4, <2>5, <2>6
<1> QED BY <1>1, <1>2

\* One more chunk and its events.
LEMMA TellsNext ==
  ASSUME NEW es \in Seq(Parsed), NEW chunks \in Seq(Chunk), NEW c \in Chunk, Tells(es, chunks)
  PROVE  Tells(es \o Parse(c), Append(chunks, c))
<1> DEFINE p == Parse(c)
           more == Append(chunks, c)
<1>1. p \in Seq(Parsed) BY ParseType
<1>2. /\ Texts(es \o p) = Texts(es) \o Texts(p)
      /\ \A i \in Nat : Fragments(es \o p, i) = Fragments(es, i) \o Fragments(p, i)
      /\ Opened(es \o p) = Opened(es) \cup Opened(p)
  <2>1. Yields(Parsed) BY ParsedYields
  <2>2. Texts(es \o p) = Texts(es) \o Texts(p)
    <3> HIDE DEF p
    <3> QED BY <1>1, <2>1, HistoryConcat
  <2>4. Opened(es \o p) = Opened(es) \cup Opened(p)
    <3> HIDE DEF p
    <3> QED BY <1>1, OpenedConcat
  <2>3. \A i \in Nat : Fragments(es \o p, i) = Fragments(es, i) \o Fragments(p, i)
    <3> HIDE DEF p
    <3> QED BY <1>1, <2>1, FragmentsConcat
  <2> QED BY <2>2, <2>3, <2>4
<1>3. ASSUME NEW i \in Nat, NEW f \in Labels
      PROVE  Joined(LabelsOf(es \o p, i, f), LabelsOf(es, i, f), LabelsOf(p, i, f))
  <2> HIDE DEF p
  <2> QED BY <1>1, ParsedYields, LabelsConcat, Zenon
<1>4. ContentF \in [Chunk -> Seq(STRING)] /\ ContentF[c] = c.content
  <2>1. \A x \in Chunk : x.content \in Seq(STRING) BY ParseIs, Zenon
  <2> DEFINE C == Chunk
  <2>2. \A x \in C : x.content \in Seq(STRING) BY <2>1
  <2>3. ContentF = [x \in C |-> x.content] /\ c \in C BY DEF ContentF
  <2> HIDE DEF C
  <2>4. ContentF \in [C -> Seq(STRING)] /\ ContentF[c] = c.content BY <2>2, <2>3
  <2> QED BY <2>4 DEF C
<1>5. \A i \in Nat : ArgsF(i) \in [Chunk -> Seq(STRING)] /\ ArgsF(i)[c] = ArgsSent(c, i)
  <2> SUFFICES ASSUME NEW i \in Nat PROVE ArgsF(i) \in [Chunk -> Seq(STRING)] /\ ArgsF(i)[c] = ArgsSent(c, i)
    OBVIOUS
  <2>1. \A x \in Chunk : ArgsSent(x, i) \in Seq(STRING) BY ParseFragments, Zenon
  <2> DEFINE C == Chunk
  <2>2. \A x \in C : ArgsSent(x, i) \in Seq(STRING) BY <2>1
  <2>3. ArgsF(i) = [x \in C |-> ArgsSent(x, i)] /\ c \in C BY DEF ArgsF
  <2> HIDE DEF C
  <2>4. ArgsF(i) \in [C -> Seq(STRING)] /\ ArgsF(i)[c] = ArgsSent(c, i) BY <2>2, <2>3
  <2> QED BY <2>4 DEF C
<1>6. Texts(es \o p) = Gather(ContentF, more)
  <2>1. Gathers(Chunk, STRING, ContentF) BY <1>4, GatherIs
  <2>2. Gather(ContentF, more) = Gather(ContentF, chunks) \o c.content BY <1>4, <2>1, Zenon DEF Gathers
  <2>3. Texts(p) = c.content BY ParseTexts
  <2>4. Texts(es) = Gather(ContentF, chunks) BY Zenon DEF Tells
  <2> QED BY <1>2, <2>2, <2>3, <2>4, Zenon
<1>7. ASSUME NEW i \in Nat PROVE Fragments(es \o p, i) = Gather(ArgsF(i), more)
  <2>1. Gathers(Chunk, STRING, ArgsF(i)) BY <1>5, GatherIs
  <2>2. Gather(ArgsF(i), more) = Gather(ArgsF(i), chunks) \o ArgsSent(c, i) BY <1>5, <2>1, Zenon DEF Gathers
  <2>3. Fragments(p, i) = ArgsSent(c, i) BY ParseFragments
  <2>4. Fragments(es, i) = Gather(ArgsF(i), chunks) BY Zenon DEF Tells
  <2> QED BY <1>2, <2>2, <2>3, <2>4, Zenon
<1>8. /\ DOMAIN chunks = 1..Len(chunks) /\ Len(chunks) \in Nat /\ DOMAIN more = 1..(Len(chunks) + 1)
      /\ (\A k \in 1..Len(chunks) : more[k] = chunks[k]) /\ more[Len(chunks) + 1] = c
  BY LenProperties, AppendProperties
<1> DEFINE n == Len(chunks)
<1>9. n \in Nat /\ DOMAIN chunks = 1..n /\ DOMAIN more = 1..(n + 1) /\ (\A k \in 1..n : more[k] = chunks[k]) /\ more[n + 1] = c
  BY <1>8
<1>10. n + 1 \in 1..(n + 1) /\ \A k \in 1..(n + 1) : (k \in 1..n \/ k = n + 1) /\ (k \in 1..n => k < n + 1) /\ ~(n + 1 < k)
  BY <1>9
<1>11. \A k \in 1..n : k \in 1..(n + 1) BY <1>9
<1> HIDE DEF n, more, p
<1>12. ASSUME NEW i \in Nat, NEW f \in Labels PROVE LabelledBy(LabelsOf(es \o p, i, f), more, i, f)
  <2> DEFINE ns == LabelsOf(es, i, f)
             new == LabelsOf(p, i, f)
  <2>1. /\ LabelsOf(es \o p, i, f) = ns \o new /\ ns \in Seq(STRING) /\ new \in Seq(STRING)
        /\ LabelledBy(ns, chunks, i, f)
    BY <1>3, Zenon DEF Tells, Joined
  <2>2. Range(new) = LabelsSent(c, i, f) /\ (LabelsSent(c, i, f) # {} => new # <<>>)
    BY ParseLabels, Zenon DEF p
  <2> HIDE DEF ns, new
  <2>3. CASE new = <<>>
    <3>1. ns \o new = ns BY <2>1, <2>3, LastConcat
    <3>2. LabelsSent(more[n + 1], i, f) = {} BY <1>9, <2>2, <2>3
    <3>3. CASE ns = <<>>
      <4>1. \A k \in 1..n : LabelsSent(chunks[k], i, f) = {} BY <1>9, <2>1, <3>3 DEF LabelledBy
      <4>2. \A k \in 1..(n + 1) : LabelsSent(more[k], i, f) = {} BY <1>9, <1>10, <3>2, <4>1
      <4> QED BY <1>9, <2>1, <3>1, <3>3, <4>2 DEF LabelledBy
    <3>4. CASE ns # <<>>
      <4>1. PICK k \in 1..n : /\ Last(ns) \in LabelsSent(chunks[k], i, f)
                              /\ \A l \in 1..n : k < l => LabelsSent(chunks[l], i, f) = {}
        BY <1>9, <2>1, <3>4 DEF LabelledBy
      <4>2. \A l \in 1..(n + 1) : k < l => LabelsSent(more[l], i, f) = {} BY <1>9, <1>10, <3>2, <4>1
      <4>3. Last(ns) \in LabelsSent(more[k], i, f) /\ k \in 1..(n + 1) BY <1>9, <1>11, <4>1
      <4> QED BY <1>9, <2>1, <3>1, <3>4, <4>2, <4>3 DEF LabelledBy
    <3> QED BY <3>3, <3>4
  <2>4. CASE new # <<>>
    <3>1. ns \o new # <<>> /\ Last(ns \o new) = Last(new) /\ Last(new) \in Range(new) BY <2>1, <2>4, LastConcat
    <3>2. Last(ns \o new) \in LabelsSent(more[n + 1], i, f) BY <1>9, <2>2, <3>1
    <3>3. \A l \in 1..(n + 1) : ~(n + 1 < l) BY <1>10
    <3> QED BY <1>9, <1>10, <2>1, <3>1, <3>2, <3>3 DEF LabelledBy
  <2> QED BY <2>3, <2>4
<1>13. Opened(es \o p) = UNION {CallsSent(more[k]) : k \in DOMAIN more}
  <2>1. Opened(p) = CallsSent(c) BY ParseOpens DEF p
  <2>2. Opened(es) = UNION {CallsSent(chunks[k]) : k \in 1..n} BY <1>9, Zenon DEF Tells
  <2>3. \A x : x \in UNION {CallsSent(more[k]) : k \in 1..(n + 1)} <=> \E k \in 1..(n + 1) : x \in CallsSent(more[k])
    OBVIOUS
  <2>4. \A x : x \in UNION {CallsSent(chunks[k]) : k \in 1..n} <=> \E k \in 1..n : x \in CallsSent(chunks[k])
    OBVIOUS
  <2>5. \A x : (\E k \in 1..(n + 1) : x \in CallsSent(more[k])) <=> (\E k \in 1..n : x \in CallsSent(chunks[k])) \/ x \in CallsSent(c)
    BY <1>9, <1>10, <1>11, Zenon
  <2> QED BY <1>2, <1>9, <2>1, <2>2, <2>3, <2>4, <2>5
<1> QED BY <1>6, <1>7, <1>12, <1>13, Zenon DEF Tells, p, more

-----------------------------------------------------------------------------
(* The pending calls in the order of their indexes. *)

Below(open, i) == {j \in open : j < i}
Rank(open, i) == Cardinality(Below(open, i))
Pick(open, k) == CHOOSE i \in open : Rank(open, i) = k - 1

\* The ranks of a finite set go up from 0 without a gap.
LEMMA Ranks ==
  ASSUME NEW open \in SUBSET Nat, IsFiniteSet(open)
  PROVE  /\ Cardinality(open) \in Nat
         /\ \A i \in open : Rank(open, i) \in 0..(Cardinality(open) - 1)
         /\ \A i, j \in open : i < j => Rank(open, i) < Rank(open, j)
         /\ \A r \in 0..(Cardinality(open) - 1) : \E i \in open : Rank(open, i) = r
<1> DEFINE n == Cardinality(open)
           T == 0..(n - 1)
           f == [i \in open |-> Rank(open, i)]
<1>1. n \in Nat BY FS_CardinalityType
<1>2. \A i : /\ IsFiniteSet(Below(open, i)) /\ Rank(open, i) \in Nat /\ Rank(open, i) <= n
             /\ Rank(open, i) = n => Below(open, i) = open
  <2> SUFFICES ASSUME NEW i
               PROVE  /\ IsFiniteSet(Below(open, i)) /\ Rank(open, i) \in Nat /\ Rank(open, i) <= n
                      /\ Rank(open, i) = n => Below(open, i) = open
    OBVIOUS
  <2>1. Below(open, i) \in SUBSET open BY DEF Below
  <2>2. /\ IsFiniteSet(Below(open, i)) /\ Cardinality(Below(open, i)) <= n
        /\ n = Cardinality(Below(open, i)) => open = Below(open, i)
    BY <2>1, FS_Subset
  <2>3. Cardinality(Below(open, i)) \in Nat BY <2>2, FS_CardinalityType
  <2> QED BY <2>2, <2>3 DEF Rank
<1>3. \A i \in open : i \notin Below(open, i) BY DEF Below
<1>4. \A i \in open : Rank(open, i) \in T
  <2> SUFFICES ASSUME NEW i \in open PROVE Rank(open, i) \in T OBVIOUS
  <2>1. Rank(open, i) # n BY <1>2, <1>3
  <2>2. Rank(open, i) \in Nat /\ Rank(open, i) <= n BY <1>2
  <2> HIDE DEF n
  <2> QED BY <1>1, <2>1, <2>2
<1>5. ASSUME NEW i \in open, NEW j \in open, i < j PROVE Rank(open, i) < Rank(open, j)
  <2>1. Below(open, i) \in SUBSET Below(open, j) /\ i \in Below(open, j) /\ i \notin Below(open, i)
    <3>1. \A x, y, z \in Nat : (x < y /\ y < z => x < z) /\ ~(x < x) OBVIOUS
    <3>2. \A x \in open : x < i => x < j BY <1>5, <3>1
    <3>3. Below(open, i) \subseteq Below(open, j) BY <3>2 DEF Below
    <3>4. i \in Below(open, j) /\ i \notin Below(open, i) BY <1>3, <1>5 DEF Below
    <3> QED BY <3>3, <3>4
  <2>2. IsFiniteSet(Below(open, j)) BY <1>2
  <2>3. /\ Cardinality(Below(open, i)) <= Cardinality(Below(open, j))
        /\ Cardinality(Below(open, j)) = Cardinality(Below(open, i)) => Below(open, j) = Below(open, i)
    BY <2>1, <2>2, FS_Subset
  <2>4. Cardinality(Below(open, i)) # Cardinality(Below(open, j)) BY <2>1, <2>3
  <2>5. Rank(open, i) \in Nat /\ Rank(open, j) \in Nat BY <1>2
  <2> QED BY <2>3, <2>4, <2>5 DEF Rank
<1>6. \A i, j \in open : i # j => Rank(open, i) # Rank(open, j)
  <2> SUFFICES ASSUME NEW i \in open, NEW j \in open, i # j PROVE Rank(open, i) # Rank(open, j) OBVIOUS
  <2>1. i < j \/ j < i OBVIOUS
  <2>2. Rank(open, i) \in Nat /\ Rank(open, j) \in Nat BY <1>2
  <2>3. Rank(open, i) < Rank(open, j) \/ Rank(open, j) < Rank(open, i) BY <1>5, <2>1
  <2> QED BY <2>2, <2>3
<1>7. f \in Injection(open, T)
  <2> HIDE DEF T
  <2>1. f \in [open -> T] BY <1>4
  <2>2. \A i, j \in open : f[i] = f[j] => i = j BY <1>6
  <2> HIDE DEF f
  <2> QED BY <2>1, <2>2 DEF Injection, IsInjective
<1>8. IsFiniteSet(T) /\ Cardinality(T) = n
  <2> HIDE DEF n
  <2>1. 0 \in Int /\ n - 1 \in Int BY <1>1
  <2>2. IsFiniteSet(0..(n - 1)) /\ Cardinality(0..(n - 1)) = IF 0 > n - 1 THEN 0 ELSE (n - 1) - 0 + 1
    BY <2>1, FS_Interval
  <2> QED BY <1>1, <2>2
<1>9. f \in Surjection(open, T)
  <2> HIDE DEF f, T
  <2> QED BY <1>7, <1>8, FS_Injection
<1>10. \A r \in T : \E i \in open : f[i] = r
  <2> HIDE DEF f, T
  <2>1. Surjection(open, T) = {g \in [open -> T] : \A r \in T : \E i \in open : g[i] = r}
    BY Zenon DEF Surjection
  <2> QED BY <1>9, <2>1
<1>11. \A r \in T : \E i \in open : Rank(open, i) = r BY <1>10
<1> QED BY <1>1, <1>4, <1>5, <1>11

\* They are picked in order, each once.
LEMMA Picks ==
  ASSUME NEW open \in SUBSET Nat, IsFiniteSet(open)
  PROVE  /\ Cardinality(open) \in Nat
         /\ \A k \in 1..Cardinality(open) : Pick(open, k) \in open
         /\ \A k, l \in 1..Cardinality(open) : k < l => Pick(open, k) < Pick(open, l)
         /\ \A i \in open : \E k \in 1..Cardinality(open) : Pick(open, k) = i
<1> DEFINE n == Cardinality(open)
<1>1. /\ n \in Nat
      /\ \A i \in open : Rank(open, i) \in 0..(n - 1)
      /\ \A i, j \in open : i < j => Rank(open, i) < Rank(open, j)
      /\ \A r \in 0..(n - 1) : \E i \in open : Rank(open, i) = r
  BY Ranks
<1> HIDE DEF n
<1>2. ASSUME NEW k \in 1..n PROVE Pick(open, k) \in open /\ Rank(open, Pick(open, k)) = k - 1
  <2>1. k - 1 \in 0..(n - 1) BY <1>1
  <2>2. \E i \in open : Rank(open, i) = k - 1 BY <1>1, <2>1
  <2> QED BY <2>2, Zenon DEF Pick
<1>3. ASSUME NEW k \in 1..n, NEW l \in 1..n, k < l PROVE Pick(open, k) < Pick(open, l)
  <2> DEFINE a == Pick(open, k)
             b == Pick(open, l)
  <2>1. /\ a \in open /\ Rank(open, a) = k - 1
        /\ b \in open /\ Rank(open, b) = l - 1
    BY <1>2
  <2> HIDE DEF a, b
  <2>2. a \in Nat /\ b \in Nat /\ k - 1 < l - 1 /\ k - 1 \in Int /\ l - 1 \in Int BY <1>1, <1>3, <2>1
  <2>3. a # b BY <2>1, <2>2
  <2>4. ~(b < a)
    <3> SUFFICES ASSUME b < a PROVE FALSE OBVIOUS
    <3>1. l - 1 < k - 1 BY <1>1, <2>1
    <3> QED BY <2>2, <3>1
  <2>5. a < b BY <2>2, <2>3, <2>4
  <2> QED BY <2>5 DEF a, b
<1>4. ASSUME NEW i \in open PROVE \E k \in 1..n : Pick(open, k) = i
  <2>1. Rank(open, i) \in 0..(n - 1) BY <1>1
  <2>2. Rank(open, i) + 1 \in 1..n /\ (Rank(open, i) + 1) - 1 = Rank(open, i) BY <1>1, <2>1
  <2> DEFINE k == Rank(open, i) + 1
             p == Pick(open, k)
  <2>3. p \in open /\ Rank(open, p) = k - 1 BY <1>2, <2>2
  <2>4. Rank(open, p) = Rank(open, i) BY <2>2, <2>3
  <2> HIDE DEF p
  <2>5. p \in Nat /\ i \in Nat /\ Rank(open, i) \in Int BY <2>1, <2>3
  <2>6. ~(p < i) /\ ~(i < p) BY <1>1, <2>3, <2>4, <2>5
  <2>7. p = i BY <2>5, <2>6
  <2> QED BY <2>2, <2>7 DEF p
<1> QED BY <1>1, <1>2, <1>3, <1>4 DEF n

-----------------------------------------------------------------------------
(* The events that complete the calls and the stream. *)

CompletedTool(i) == [type |-> "tool_completed", index |-> i]
Completed(r) == [type |-> "completed", result |-> r]
Written(r) == Parsed \cup [type : {"tool_completed"}, index : Nat] \cup {Completed(r)}

\* They yield what a history puts together.
LEMMA WrittenYields ==
  ASSUME NEW r
  PROVE  /\ Yields(Written(r)) /\ Completed(r) \in Written(r) /\ Parsed \subseteq Written(r)
         /\ \A i \in Nat : CompletedTool(i) \in Written(r)
         /\ Completed(r).type = "completed" /\ \A i : CompletedTool(i).type = "tool_completed" /\ CompletedTool(i).index = i
<1>1. Completed(r).type = "completed" /\ \A i : CompletedTool(i).type = "tool_completed" /\ CompletedTool(i).index = i
  BY DEF Completed, CompletedTool
<1>2. "completed" \notin {"content", "tool_started", "tool_arguments", "tool_completed"}
      /\ "tool_completed" \notin {"content", "tool_started", "tool_arguments", "completed"}
  OBVIOUS
<1>3. <<>> \in Seq(STRING) /\ <<>> \in Seq(Nat) BY EmptySeq
<1>4. \A e \in Parsed : /\ TextOf(e) \in Seq(STRING) /\ CompletionOf(e) \in Seq(Nat)
                        /\ \A i \in Nat : FragmentOf(e, i) \in Seq(STRING) /\ \A f \in Labels : LabelOf(e, i, f) \in Seq(STRING)
  BY ParsedYields, Zenon DEF Yields
<1>5. \A e \in [type : {"tool_completed"}, index : Nat] :
        /\ TextOf(e) \in Seq(STRING) /\ CompletionOf(e) \in Seq(Nat)
        /\ \A i \in Nat : FragmentOf(e, i) \in Seq(STRING) /\ \A f \in Labels : LabelOf(e, i, f) \in Seq(STRING)
  <2> SUFFICES ASSUME NEW e \in [type : {"tool_completed"}, index : Nat]
               PROVE  /\ TextOf(e) \in Seq(STRING) /\ CompletionOf(e) \in Seq(Nat)
                      /\ \A i \in Nat : FragmentOf(e, i) \in Seq(STRING) /\ \A f \in Labels : LabelOf(e, i, f) \in Seq(STRING)
    OBVIOUS
  <2>1. e.type = "tool_completed" /\ e.index \in Nat OBVIOUS
  <2>2. <<e.index>> \in Seq(Nat) BY <2>1, Single
  <2> QED BY <1>2, <1>3, <2>1, <2>2, Zenon DEF TextOf, CompletionOf, LabelOf, FragmentOf
<1>6. /\ TextOf(Completed(r)) \in Seq(STRING) /\ CompletionOf(Completed(r)) \in Seq(Nat)
      /\ \A i \in Nat : /\ FragmentOf(Completed(r), i) \in Seq(STRING)
                        /\ \A f \in Labels : LabelOf(Completed(r), i, f) \in Seq(STRING)
  BY <1>1, <1>2, <1>3, Zenon DEF TextOf, CompletionOf, LabelOf, FragmentOf
<1>7. Yields(Written(r))
  <2>1. \A e \in Written(r) : e \in Parsed \/ e \in [type : {"tool_completed"}, index : Nat] \/ e = Completed(r)
    BY Zenon DEF Written
  <2> QED BY <1>4, <1>5, <1>6, <2>1, Zenon DEF Yields
<1>8. Completed(r) \in Written(r) /\ Parsed \subseteq Written(r) BY Zenon DEF Written
<1>9. \A i \in Nat : CompletedTool(i) \in Written(r)
  <2>1. \A i \in Nat : CompletedTool(i) \in [type : {"tool_completed"}, index : Nat] BY DEF CompletedTool
  <2> QED BY <2>1, Zenon DEF Written
<1> QED BY <1>1, <1>7, <1>8, <1>9

\* They say nothing of what was sent.
LEMMA Silent ==
  ASSUME NEW S, Yields(S), NEW a \in Seq(S), NEW b \in Seq(S),
         \A e \in Range(b) : e.type \in {"tool_completed", "completed"}
  PROVE  /\ Texts(a \o b) = Texts(a) /\ Opened(a \o b) = Opened(a)
         /\ \A i \in Nat : Fragments(a \o b, i) = Fragments(a, i) /\ \A f \in Labels : LabelsOf(a \o b, i, f) = LabelsOf(a, i, f)
<1>1. \A e \in Range(b) : e \in S /\ e.type # "content" /\ e.type # "tool_started" /\ e.type # "tool_arguments"
  BY DEF Range
<1>2. /\ TextF(S) \in [S -> Seq(STRING)]
      /\ \A i \in Nat : FragmentF(S, i) \in [S -> Seq(STRING)] /\ \A f \in Labels : LabelF(S, i, f) \in [S -> Seq(STRING)]
  BY YieldsFunctions
<1>3. Texts(b) = <<>>
  <2>1. Texts(b) = Gather(TextF(S), b) BY HistoryGathers
  <2>2. \A e \in Range(b) : TextF(S)[e] = <<>>
    <3>1. \A e \in S : TextF(S)[e] = TextOf(e) BY DEF TextF
    <3> QED BY <1>1, <3>1, Zenon DEF TextOf
  <2>3. Gather(TextF(S), b) = <<>> BY <1>2, <2>2, GatherRange
  <2> QED BY <2>1, <2>3
<1>4. ASSUME NEW F, F \in [S -> Seq(STRING)], \A e \in Range(b) : F[e] = <<>> PROVE Gather(F, b) = <<>>
  BY <1>4, GatherRange
<1>8. ASSUME NEW i \in Nat PROVE Fragments(b, i) = <<>>
  <2> DEFINE G == FragmentF(S, i)
  <2>1. Fragments(b, i) = Gather(G, b) BY HistoryGathers
  <2>2. \A e \in S : G[e] = FragmentOf(e, i) BY DEF FragmentF
  <2>3. G \in [S -> Seq(STRING)] BY <1>2
  <2> HIDE DEF G
  <2>4. \A e \in Range(b) : G[e] = <<>> BY <1>1, <2>2, Zenon DEF FragmentOf
  <2> QED BY <1>4, <2>1, <2>3, <2>4, Zenon
<1>9. ASSUME NEW i \in Nat, NEW f \in Labels PROVE LabelsOf(b, i, f) = <<>>
  <2> DEFINE G == LabelF(S, i, f)
  <2>1. LabelsOf(b, i, f) = Gather(G, b) BY HistoryGathers
  <2>2. \A e \in S : G[e] = LabelOf(e, i, f) BY DEF LabelF
  <2>3. G \in [S -> Seq(STRING)] BY <1>2
  <2> HIDE DEF G
  <2>4. \A e \in Range(b) : G[e] = <<>> BY <1>1, <2>2, Zenon DEF LabelOf
  <2> QED BY <1>4, <2>1, <2>3, <2>4, Zenon
<1>5. Opened(a \o b) = Opened(a)
  <2>1. Opened(a \o b) = Opened(a) \cup Opened(b) BY OpenedConcat
  <2>2. \A e \in Range(b) : ~Opens(e) BY <1>1 DEF Opens
  <2>3. Opened(b) = {} BY <2>2 DEF Opened
  <2> QED BY <2>1, <2>3
<1>6. Texts(a \o b) = Texts(a)
  <2>1. Texts(a \o b) = Texts(a) \o Texts(b) /\ Texts(a) \in Seq(STRING) BY HistoryConcat
  <2>2. Texts(a) \o <<>> = Texts(a) BY <2>1, ConcatEmptySeq
  <2> QED BY <1>3, <2>1, <2>2, Zenon
<1>7. ASSUME NEW i \in Nat PROVE Fragments(a \o b, i) = Fragments(a, i)
  <2>1. Fragments(a \o b, i) = Fragments(a, i) \o Fragments(b, i) /\ Fragments(a, i) \in Seq(STRING)
    BY FragmentsConcat
  <2>2. Fragments(a, i) \o <<>> = Fragments(a, i) BY <2>1, ConcatEmptySeq
  <2> QED BY <1>8, <2>1, <2>2, Zenon
<1>10. ASSUME NEW i \in Nat, NEW f \in Labels PROVE LabelsOf(a \o b, i, f) = LabelsOf(a, i, f)
  <2>1. Joined(LabelsOf(a \o b, i, f), LabelsOf(a, i, f), LabelsOf(b, i, f)) BY LabelsConcat, Zenon
  <2>2. LabelsOf(a, i, f) \o <<>> = LabelsOf(a, i, f) BY <2>1, ConcatEmptySeq DEF Joined
  <2> QED BY <1>9, <2>1, <2>2, Zenon DEF Joined
<1> QED BY <1>5, <1>6, <1>7, <1>10

\* So a history goes on to tell what it told.
LEMMA TellsSilent ==
  ASSUME NEW S, Yields(S), NEW a \in Seq(S), NEW b \in Seq(S), NEW chunks,
         \A e \in Range(b) : e.type \in {"tool_completed", "completed"}
  PROVE  Tells(a \o b, chunks) <=> Tells(a, chunks)
<1>1. /\ Texts(a \o b) = Texts(a) /\ Opened(a \o b) = Opened(a)
      /\ \A i \in Nat : Fragments(a \o b, i) = Fragments(a, i) /\ \A f \in Labels : LabelsOf(a \o b, i, f) = LabelsOf(a, i, f)
  BY Silent, Zenon
<1>2. (\A i \in Nat : Fragments(a \o b, i) = Gather(ArgsF(i), chunks))
        <=> \A i \in Nat : Fragments(a, i) = Gather(ArgsF(i), chunks)
  BY <1>1, Zenon
<1>3. (\A i \in Nat, f \in Labels : LabelledBy(LabelsOf(a \o b, i, f), chunks, i, f))
        <=> \A i \in Nat, f \in Labels : LabelledBy(LabelsOf(a, i, f), chunks, i, f)
  BY <1>1, Zenon
<1> QED BY <1>1, <1>2, <1>3, Zenon DEF Tells

\* The pending calls of the events of chunks are those the events are about.
LEMMA PendingOpened ==
  ASSUME NEW es \in Seq(Parsed)
  PROVE  PendingTools(es) = Opened(es) /\ Opened(es) \in SUBSET Nat /\ IsFiniteSet(Opened(es))
<1>1. \A e \in Parsed : e.type # "tool_completed" /\ (Opens(e) => e.index \in Nat) BY DEF Parsed, Opens
<1>2. \A e \in Range(es) : e \in Parsed BY DEF Range
<1>3. {x \in Range(es) : x.type = "tool_completed"} = {} BY <1>1, <1>2
<1>4. {x \in Range(es) : x.type \in {"tool_started", "tool_arguments"}} = {x \in Range(es) : Opens(x)} BY DEF Opens
<1>5. PendingTools(es) = Opened(es) BY <1>3, <1>4 DEF PendingTools, Opened
<1>6. IsFiniteSet(PendingTools(es)) BY PendingFinite
<1>7. Opened(es) \in SUBSET Nat BY <1>1, <1>2 DEF Opened
<1> QED BY <1>5, <1>6, <1>7

\* Each of them is completed once, by index.
LEMMA PendingAre ==
  ASSUME NEW es \in Seq(Parsed), NEW r
  PROVE  LET pending == pendingToolCompletionEvents(es)
             order == [k \in 1..Cardinality(Opened(es)) |-> Pick(Opened(es), k)]
         IN /\ pending \in Seq(Written(r)) /\ \A e \in Range(pending) : e.type = "tool_completed"
            /\ order \in Seq(Nat)
            /\ Completions(es \o pending) = order
            /\ Completions(es \o Append(pending, Completed(r))) = order
            /\ es \o Append(pending, Completed(r)) = Append(es \o pending, Completed(r))
            /\ es \o pending \in Seq(Written(r))
<1> DEFINE W == Written(r)
           open == Opened(es)
           n == Cardinality(open)
           pending == pendingToolCompletionEvents(es)
           order == [k \in 1..n |-> Pick(open, k)]
           event == Completed(r)
<1>1. open \in SUBSET Nat /\ PendingTools(es) = open /\ IsFiniteSet(open) BY PendingOpened
<1>2. n \in Nat /\ \A k \in 1..n : Pick(open, k) \in open BY <1>1, Picks
<1>3. pending = [k \in 1..n |-> CompletedTool(Pick(open, k))]
  <2>1. pending = [k \in 1..Cardinality(PendingTools(es)) |->
           [type |-> "tool_completed",
            index |-> CHOOSE i \in PendingTools(es) : Cardinality({j \in PendingTools(es) : j < i}) = k - 1]]
    BY Zenon DEF pendingToolCompletionEvents
  <2> QED BY <1>1, <2>1 DEF CompletedTool, Pick, Rank, Below
<1> HIDE DEF n, open, pending, W, event
<1>4. order \in Seq(Nat)
  <2>1. \A k \in 1..n : Pick(open, k) \in Nat BY <1>1, <1>2
  <2> QED BY <1>2, <2>1
<1>5. /\ Yields(W) /\ event \in W /\ Parsed \subseteq W /\ (\A i \in Nat : CompletedTool(i) \in W)
      /\ event.type = "completed" /\ \A i : CompletedTool(i).type = "tool_completed" /\ CompletedTool(i).index = i
  BY WrittenYields DEF W, event
<1>6. pending \in Seq(W) /\ DOMAIN pending = 1..n /\ \A k \in 1..n : pending[k] = CompletedTool(Pick(open, k))
  <2>1. \A k \in 1..n : CompletedTool(Pick(open, k)) \in W BY <1>1, <1>2, <1>5
  <2> QED BY <1>2, <1>3, <2>1
<1>7. \A e \in Range(pending) : e.type = "tool_completed" BY <1>5, <1>6 DEF Range
<1>8. es \in Seq(W) BY <1>5, SeqMonotonic
<1>9. Completions(pending) = order
  <2>1. \A k \in 1..n : CompletionOf(pending[k]) = <<order[k]>>
    <3>1. \A k \in 1..n : CompletionOf(pending[k]) = <<Pick(open, k)>> BY <1>5, <1>6, Zenon DEF CompletionOf
    <3> QED BY <3>1
  <2>2. DOMAIN order = 1..n OBVIOUS
  <2> HIDE DEF order
  <2>3. [k \in DOMAIN pending |-> CompletionOf(pending[k])] = [k \in DOMAIN order |-> <<order[k]>>]
    BY <1>6, <2>1, <2>2
  <2>4. FlattenSeq([k \in DOMAIN order |-> <<order[k]>>]) = order BY <1>4, FlattenOnes
  <2> QED BY <2>3, <2>4, Zenon DEF Completions
<1> HIDE DEF order
<1>10. Completions(es) = <<>>
  <2>1. CompletionF(W) \in [W -> Seq(Nat)] BY <1>5, YieldsFunctions
  <2>2. Completions(es) = Gather(CompletionF(W), es) BY <1>8, HistoryGathers
  <2>3. \A e \in Parsed : e.type # "tool_completed" BY DEF Parsed
  <2>4. \A e \in Range(es) : e \in Parsed BY DEF Range
  <2>5. \A e \in W : CompletionF(W)[e] = CompletionOf(e) BY DEF CompletionF
  <2>6. \A e \in Range(es) : CompletionF(W)[e] = <<>> BY <1>5, <2>3, <2>4, <2>5, Zenon DEF CompletionOf
  <2>7. Gather(CompletionF(W), es) = <<>> BY <1>8, <2>1, <2>6, GatherRange
  <2> QED BY <2>2, <2>7
<1>11. es \o pending \in Seq(W) BY <1>6, <1>8, ConcatProperties
<1>12. Completions(es \o pending) = order
  <2>1. Completions(es \o pending) = Completions(es) \o Completions(pending)
    BY <1>5, <1>6, <1>8, HistoryConcat, Zenon
  <2>2. <<>> \o order = order BY <1>4, ConcatEmptySeq
  <2> QED BY <1>9, <1>10, <2>1, <2>2, Zenon
<1>13. es \o Append(pending, event) = Append(es \o pending, event) BY <1>5, <1>6, <1>8, ConcatAppend
<1>14. Completions(Append(es \o pending, event)) = order
  <2> DEFINE all == es \o pending
  <2>1. Append(all, event) = all \o <<event>> /\ <<event>> \in Seq(W)
    <3> HIDE DEF all
    <3>1. all \in Seq(W) BY <1>11 DEF all
    <3> QED BY <1>5, <3>1, AppendIsConcat, Single
  <2>2. Completions(all \o <<event>>) = Completions(all) \o Completions(<<event>>)
    BY <1>5, <1>11, <2>1, HistoryConcat, Zenon
  <2>3. Completions(<<event>>) = <<>>
    <3>1. CompletionF(W) \in [W -> Seq(Nat)] BY <1>5, YieldsFunctions
    <3>2. Completions(<<event>>) = Gather(CompletionF(W), <<event>>) BY <2>1, HistoryGathers
    <3>3. \A e \in Range(<<event>>) : e = event BY DEF Range
    <3>4. CompletionF(W)[event] = CompletionOf(event) BY <1>5 DEF CompletionF
    <3>5. CompletionOf(event) = <<>> BY <1>5 DEF CompletionOf
    <3>6. \A e \in Range(<<event>>) : CompletionF(W)[e] = <<>> BY <3>3, <3>4, <3>5, Zenon
    <3>7. Gather(CompletionF(W), <<event>>) = <<>> BY <2>1, <3>1, <3>6, GatherRange
    <3> QED BY <3>2, <3>7
  <2>4. order \o <<>> = order BY <1>4, ConcatEmptySeq
  <2> QED BY <1>12, <2>1, <2>2, <2>3, <2>4, Zenon
<1> QED BY <1>4, <1>6, <1>7, <1>11, <1>12, <1>13, <1>14, Zenon DEF order, open, n, pending, W, event

-----------------------------------------------------------------------------
(* A stream that completes hands over what was sent. *)

\* What ResultIsWhatWasSent says of a result, a history and the chunks received.
AsSent(tool, chunks) ==
  /\ tool.args = FlattenSeq([k \in DOMAIN chunks |-> ArgsSent(chunks[k], tool.index)])
  /\ \A f \in Labels :
       \/ tool.label[f] = "" /\ \A k \in DOMAIN chunks : LabelsSent(chunks[k], tool.index, f) = {}
       \/ \E k \in DOMAIN chunks :
            /\ tool.label[f] \in LabelsSent(chunks[k], tool.index, f)
            /\ \A l \in DOMAIN chunks : k < l => LabelsSent(chunks[l], tool.index, f) = {}
HandsOver(es, r, chunks) ==
  /\ Last(es) = Completed(r)
  /\ r.content = FlattenSeq([k \in DOMAIN chunks |-> chunks[k].content])
  /\ {t.index : t \in Range(r.tools)} = UNION {CallsSent(chunks[k]) : k \in DOMAIN chunks}
  /\ \A k, l \in DOMAIN r.tools : k < l => r.tools[k].index < r.tools[l].index
  /\ \A tool \in Range(r.tools) : AsSent(tool, chunks) /\ ToolIsValid(tool)
  /\ Completions(es) = [k \in DOMAIN r.tools |-> r.tools[k].index]

\* Together they are the property.
LEMMA SaysResult == (done /\ failure = "" => HandsOver(events, result, got)) => ResultIsWhatWasSent
<1>1. \A tool : AsSent(tool, got) => IsAsSent(tool) BY Zenon DEF AsSent, IsAsSent
<1>2. Completed(result) = [type |-> "completed", result |-> result] BY Zenon DEF Completed
<1> QED BY <1>1, <1>2, Zenon DEF HandsOver, ResultIsWhatWasSent

\* The fields of a completed call.
LEMMA ToolFields ==
  ASSUME NEW es, NEW i
  PROVE  /\ completeTool(es, i).index = i /\ completeTool(es, i).args = Fragments(es, i)
         /\ \A f \in Labels : completeTool(es, i).label[f] =
                             IF LabelsOf(es, i, f) = <<>> THEN "" ELSE Last(LabelsOf(es, i, f))
<1> DEFINE L(f) == IF LabelsOf(es, i, f) = <<>> THEN "" ELSE Last(LabelsOf(es, i, f))
           label == [f \in Labels |-> L(f)]
           args == Fragments(es, i)
           tool == [index |-> i, label |-> label, args |-> args]
<1>1. completeTool(es, i) = tool BY Zenon DEF completeTool
<1>2. tool.index = i /\ tool.args = args /\ tool.label = label
  <2> HIDE DEF label, args
  <2> QED OBVIOUS
<1>3. \A f \in Labels : label[f] = L(f)
  <2> HIDE DEF L
  <2> QED OBVIOUS
<1> QED BY <1>1, <1>2, <1>3, Zenon

\* A completed call is as the chunks gave it.
LEMMA ToolAsSent ==
  ASSUME NEW chunks \in Seq(Chunk), NEW i \in Nat, NEW es, Fragments(es, i) = Gather(ArgsF(i), chunks),
         \A f \in Labels : LabelledBy(LabelsOf(es, i, f), chunks, i, f)
  PROVE  AsSent(completeTool(es, i), chunks)
<1> DEFINE tool == completeTool(es, i)
<1>1. /\ tool.index = i /\ tool.args = Fragments(es, i)
      /\ \A f \in Labels : tool.label[f] = IF LabelsOf(es, i, f) = <<>> THEN "" ELSE Last(LabelsOf(es, i, f))
  BY ToolFields, Zenon
<1> HIDE DEF tool
<1>4. ASSUME NEW f \in Labels
      PROVE  \/ tool.label[f] = "" /\ \A k \in DOMAIN chunks : LabelsSent(chunks[k], i, f) = {}
             \/ \E k \in DOMAIN chunks : /\ tool.label[f] \in LabelsSent(chunks[k], i, f)
                                         /\ \A l \in DOMAIN chunks : k < l => LabelsSent(chunks[l], i, f) = {}
  BY <1>1, Zenon DEF LabelledBy
<1>5. Gather(ArgsF(i), chunks) = FlattenSeq([k \in DOMAIN chunks |-> ArgsSent(chunks[k], i)])
  <2>1. \A k \in DOMAIN chunks : chunks[k] \in Chunk
    <3> DEFINE C == Chunk
    <3>1. chunks \in Seq(C) OBVIOUS
    <3> HIDE DEF C
    <3>2. \A k \in DOMAIN chunks : chunks[k] \in C BY <3>1
    <3> QED BY <3>2 DEF C
  <2>2. \A k \in DOMAIN chunks : ArgsF(i)[chunks[k]] = ArgsSent(chunks[k], i) BY <2>1, Zenon DEF ArgsF
  <2>3. [k \in DOMAIN chunks |-> ArgsF(i)[chunks[k]]] = [k \in DOMAIN chunks |-> ArgsSent(chunks[k], i)] BY <2>2
  <2> QED BY <2>3, Zenon DEF Gather
<1>6. AsSent(tool, chunks) BY <1>1, <1>4, <1>5, Zenon DEF AsSent
<1> QED BY <1>6 DEF tool

\* What is made of a history that tells the chunks hands them over.
LEMMA ResultAsSent ==
  ASSUME NEW es \in Seq(Parsed), NEW chunks \in Seq(Chunk), Tells(es, chunks),
         ~ResultIsError(es \o pendingToolCompletionEvents(es))
  PROVE  LET pending == pendingToolCompletionEvents(es)
             r == Result(es \o pending)
         IN HandsOver(es \o Append(pending, Completed(r)), r, chunks)
<1> DEFINE pending == pendingToolCompletionEvents(es)
           all == es \o pending
           r == Result(all)
           open == Opened(es)
           n == Cardinality(open)
           order == [k \in 1..n |-> Pick(open, k)]
           event == Completed(r)
           W == Written(r)
           hist == es \o Append(pending, event)
<1>1. /\ pending \in Seq(W) /\ \A e \in Range(pending) : e.type = "tool_completed"
      /\ order \in Seq(Nat) /\ Completions(all) = order /\ Completions(hist) = order
      /\ hist = Append(all, event) /\ all \in Seq(W)
  <2> HIDE DEF r
  <2>1. LET q == pendingToolCompletionEvents(es)
            o == [k \in 1..Cardinality(Opened(es)) |-> Pick(Opened(es), k)]
        IN /\ q \in Seq(Written(r)) /\ \A e \in Range(q) : e.type = "tool_completed"
           /\ o \in Seq(Nat)
           /\ Completions(es \o q) = o
           /\ Completions(es \o Append(q, Completed(r))) = o
           /\ es \o Append(q, Completed(r)) = Append(es \o q, Completed(r))
           /\ es \o q \in Seq(Written(r))
    BY PendingAre, Zenon
  <2> QED BY <2>1, Zenon
<1>2. open \in SUBSET Nat /\ IsFiniteSet(open) BY PendingOpened
<1>3. /\ n \in Nat /\ \A k \in 1..n : Pick(open, k) \in open
      /\ \A k, l \in 1..n : k < l => Pick(open, k) < Pick(open, l)
      /\ \A i \in open : \E k \in 1..n : Pick(open, k) = i
  <2> HIDE DEF open
  <2> QED BY <1>2, Picks
<1>4. Yields(W) /\ event \in W /\ Parsed \subseteq W
  <2> HIDE DEF r
  <2> QED BY WrittenYields
<1>5. es \in Seq(W)
  <2> HIDE DEF W
  <2> QED BY <1>4, SeqMonotonic
<1> HIDE DEF n, open, pending, W, event
<1>6. Tells(all, chunks)
  <2>1. \A e \in Range(pending) : e.type \in {"tool_completed", "completed"} BY <1>1
  <2> QED BY <1>1, <1>4, <1>5, <2>1, TellsSilent, Zenon
<1> HIDE DEF all
<1>7. /\ r.content = Texts(all)
      /\ r.tools = [k \in DOMAIN Completions(all) |-> completeTool(all, Completions(all)[k])]
  BY DEF Result
<1> HIDE DEF r
<1>8. DOMAIN order = 1..n /\ \A k \in 1..n : order[k] = Pick(open, k) /\ order[k] \in open /\ order[k] \in Nat
  BY <1>2, <1>3
<1> HIDE DEF order
<1>9. DOMAIN r.tools = 1..n /\ \A k \in 1..n : r.tools[k] = completeTool(all, order[k]) BY <1>1, <1>7, <1>8
<1>10. ASSUME NEW k \in 1..n PROVE r.tools[k].index = order[k]
  <2>1. r.tools[k] = completeTool(all, order[k]) BY <1>9
  <2>2. \A i : completeTool(all, i).index = i BY ToolFields, Zenon
  <2> QED BY <2>1, <2>2, Zenon
<1>11. Last(hist) = event
  <2> HIDE DEF hist
  <2>1. Len(all) \in Nat /\ Len(Append(all, event)) = Len(all) + 1 /\ Append(all, event)[Len(all) + 1] = event
    BY <1>1, <1>4, LenProperties, AppendProperties
  <2> QED BY <1>1, <2>1 DEF Last
<1> HIDE DEF hist
<1>12. r.content = FlattenSeq([k \in DOMAIN chunks |-> chunks[k].content])
  <2>1. \A k \in DOMAIN chunks : chunks[k] \in Chunk
    <3> DEFINE C == Chunk
    <3>1. chunks \in Seq(C) OBVIOUS
    <3> HIDE DEF C
    <3>2. \A k \in DOMAIN chunks : chunks[k] \in C BY <3>1
    <3> QED BY <3>2 DEF C
  <2>2. \A k \in DOMAIN chunks : ContentF[chunks[k]] = chunks[k].content BY <2>1, Zenon DEF ContentF
  <2>3. [k \in DOMAIN chunks |-> ContentF[chunks[k]]] = [k \in DOMAIN chunks |-> chunks[k].content] BY <2>2
  <2>4. Texts(all) = Gather(ContentF, chunks) BY <1>6, Zenon DEF Tells
  <2> QED BY <1>7, <2>3, <2>4, Zenon DEF Gather
<1>13. {t.index : t \in Range(r.tools)} = UNION {CallsSent(chunks[k]) : k \in DOMAIN chunks}
  <2>1. open = UNION {CallsSent(chunks[k]) : k \in DOMAIN chunks} BY Zenon DEF Tells, open
  <2>2. \A t \in Range(r.tools) : t.index \in open
    <3> SUFFICES ASSUME NEW t \in Range(r.tools) PROVE t.index \in open OBVIOUS
    <3>1. PICK k \in 1..n : t = r.tools[k] BY <1>9 DEF Range
    <3> QED BY <1>8, <1>10, <3>1
  <2>3. \A i \in open : \E t \in Range(r.tools) : t.index = i
    <3> SUFFICES ASSUME NEW i \in open PROVE \E t \in Range(r.tools) : t.index = i OBVIOUS
    <3>1. PICK k \in 1..n : Pick(open, k) = i BY <1>3
    <3>2. r.tools[k].index = i BY <1>8, <1>10, <3>1
    <3>3. r.tools[k] \in Range(r.tools) BY <1>9 DEF Range
    <3> QED BY <3>2, <3>3
  <2>4. {t.index : t \in Range(r.tools)} = open BY <2>2, <2>3
  <2> QED BY <2>1, <2>4
<1>14. \A k, l \in DOMAIN r.tools : k < l => r.tools[k].index < r.tools[l].index
  <2> SUFFICES ASSUME NEW k \in 1..n, NEW l \in 1..n, k < l PROVE r.tools[k].index < r.tools[l].index BY <1>9
  <2>1. Pick(open, k) < Pick(open, l) BY <1>3
  <2> QED BY <1>8, <1>10, <2>1
<1>15. ASSUME NEW tool \in Range(r.tools) PROVE AsSent(tool, chunks) /\ ToolIsValid(tool)
  <2>1. PICK k \in 1..n : tool = r.tools[k] BY <1>9 DEF Range
  <2>2. tool = completeTool(all, order[k]) /\ order[k] \in Nat BY <1>8, <1>9, <2>1
  <2>3. order[k] \in Range(Completions(all)) BY <1>1, <1>8 DEF Range
  <2>4. \A i \in Range(Completions(all)) : ToolIsValid(completeTool(all, i))
    BY Zenon DEF ResultIsError, all, pending
  <2>5. ToolIsValid(completeTool(all, order[k])) BY <2>3, <2>4
  <2>6. PICK i \in Nat : i = order[k] BY <2>2
  <2>7. Fragments(all, i) = Gather(ArgsF(i), chunks) /\ \A f \in Labels : LabelledBy(LabelsOf(all, i, f), chunks, i, f)
    BY <1>6, Zenon DEF Tells
  <2>8. AsSent(completeTool(all, i), chunks) BY <2>7, ToolAsSent
  <2> QED BY <2>2, <2>5, <2>6, <2>8
<1>16. Completions(hist) = [k \in DOMAIN r.tools |-> r.tools[k].index]
  <2>1. order = [k \in 1..n |-> Pick(open, k)] BY DEF order
  <2>2. [k \in DOMAIN r.tools |-> r.tools[k].index] = [k \in 1..n |-> Pick(open, k)] BY <1>8, <1>9, <1>10
  <2> QED BY <1>1, <2>1, <2>2
<1>17. HandsOver(hist, r, chunks)
  BY <1>11, <1>12, <1>13, <1>14, <1>15, <1>16, Zenon DEF HandsOver, event
<1> QED BY <1>17, Zenon DEF hist, r, all, pending, event

-----------------------------------------------------------------------------
(* What the consumer has published and what it has in hand tells what was     *)
(* received, until it returns.                                                *)

Consuming ==
  /\ events \in Seq(Parsed) /\ todo \in Seq(Parsed)
  /\ Tells(events \o todo, got)
  /\ consumer # "publish" => todo = <<>>
  /\ \A k \in DOMAIN todo : todo[k].type = "completed" => k = Len(todo)
SentInv ==
  /\ got \in Seq(Chunk)
  /\ consumer = "unborn" => events = <<>> /\ todo = <<>> /\ got = <<>>
  /\ consumer \in {"top", "recv", "publish"} => Consuming
  /\ done /\ failure = "" => HandsOver(events, result, got)

\* Before the first chunk there is nothing to tell.
LEMMA TellsNothing == Tells(<<>> \o <<>>, <<>>) /\ <<>> \in Seq(Parsed)
<1> DEFINE none == <<>>
<1>1. none \in Seq(Parsed) /\ none \in Seq(Chunk) /\ none \o none = none
  <2>1. \A S : <<>> \in Seq(S) BY EmptySeq
  <2>2. <<>> \o <<>> = <<>> OBVIOUS
  <2> QED BY <2>1, <2>2
<1>2. DOMAIN none = {} /\ Range(none) = {} BY DEF Range
<1>3. \A F : Gather(F, none) = FlattenSeq(none)
  <2> SUFFICES ASSUME NEW F PROVE Gather(F, none) = FlattenSeq(none) OBVIOUS
  <2>1. [k \in DOMAIN none |-> F[none[k]]] = none OBVIOUS
  <2> QED BY <2>1, Zenon DEF Gather
<1>4. Texts(none) = FlattenSeq(none)
  <2>1. [k \in DOMAIN none |-> TextOf(none[k])] = none OBVIOUS
  <2> QED BY <2>1, Zenon DEF Texts
<1>5. ASSUME NEW i \in Nat PROVE Fragments(none, i) = FlattenSeq(none) /\ \A f \in Labels : LabelsOf(none, i, f) = <<>>
  <2>1. [k \in DOMAIN none |-> FragmentOf(none[k], i)] = none OBVIOUS
  <2>2. \A f \in Labels : [k \in DOMAIN none |-> LabelOf(none[k], i, f)] = none OBVIOUS
  <2>3. none \in Seq(Seq(STRING)) /\ \A k \in DOMAIN none : none[k] = <<>> BY <1>2, EmptySeq
  <2>4. FlattenSeq(none) = <<>> BY <2>3, FlattenNothing
  <2> QED BY <2>1, <2>2, <2>4, Zenon DEF Fragments, LabelsOf
<1>6. Opened(none) = {} BY <1>2 DEF Opened
<1>7. \A i, f : LabelledBy(<<>>, none, i, f) BY <1>2 DEF LabelledBy
<1>8. UNION {CallsSent(none[k]) : k \in DOMAIN none} = {} BY <1>2
<1> HIDE DEF none
<1>9. Tells(none, none)
  <2>1. Texts(none) = Gather(ContentF, none) BY <1>3, <1>4, Zenon
  <2>2. \A i \in Nat : Fragments(none, i) = Gather(ArgsF(i), none) BY <1>3, <1>5, Zenon
  <2>3. \A i \in Nat, f \in Labels : LabelledBy(LabelsOf(none, i, f), none, i, f) BY <1>5, <1>7, Zenon
  <2> QED BY <1>6, <1>8, <2>1, <2>2, <2>3, Zenon DEF Tells
<1> QED BY <1>1, <1>9, Zenon DEF none

\* It holds before the call starts.
LEMMA SentInit == ASSUME Init PROVE SentInv
<1>1. got = <<>> /\ consumer = "unborn" /\ todo = <<>> /\ events = <<>> /\ done = FALSE BY Zenon DEF Init
<1>2. <<>> \in Seq(Chunk) BY EmptySeq
<1>3. "unborn" \notin {"top", "recv", "publish"} OBVIOUS
<1> QED BY <1>1, <1>2, <1>3, Zenon DEF SentInv

\* Nothing that the consumer does not do disturbs it.
LEMMA SentQuiet == ASSUME SentInv, UNCHANGED <<got, consumer, todo, stream>> PROVE SentInv'
<1>1. /\ got' = got /\ consumer' = consumer /\ todo' = todo /\ events' = events
      /\ done' = done /\ failure' = failure /\ result' = result
  BY Zenon DEF stream
<1>2. Consuming => Consuming' BY <1>1, Zenon DEF Consuming
<1> QED BY <1>1, <1>2, Zenon DEF SentInv

\* The consumer returns and the stream hands over nothing, or what was sent.
LEMMA SentReturned ==
  ASSUME got' \in Seq(Chunk), consumer' = "returned",
         done' /\ failure' = "" => HandsOver(events', result', got')
  PROVE  SentInv'
<1>1. "returned" # "unborn" /\ "returned" \notin {"top", "recv", "publish"} OBVIOUS
<1> QED BY <1>1, Zenon DEF SentInv

\* A failed stream hands over nothing.
LEMMA SentFailed ==
  ASSUME got' \in Seq(Chunk), consumer' = "returned", NEW why, why # "", fail(why)
  PROVE  SentInv'
<1>1. failure' = why BY Zenon DEF fail
<1> QED BY <1>1, SentReturned, Zenon

\* A stream that completes hands over what was sent, or fails.
LEMMA SentCompleted ==
  ASSUME got \in Seq(Chunk), got' = got, consumer' = "returned", events \in Seq(Parsed), Tells(events, got), complete
  PROVE  SentInv'
<1> DEFINE pending == pendingToolCompletionEvents(events)
           all == events \o pending
           r == Result(all)
<1>1. CASE ResultIsError(all)
  <2>1. fail("malformed") BY <1>1, Completing, Zenon
  <2>2. "malformed" # "" OBVIOUS
  <2> QED BY <2>1, <2>2, SentFailed, Zenon
<1>2. CASE ~ResultIsError(all)
  <2>1. Store(Append(pending, [type |-> "completed", result |-> r]), TRUE) /\ result' = r
    BY <1>2, Completing, Zenon
  <2>2. events' = events \o Append(pending, Completed(r)) BY <2>1, Zenon DEF Store, Completed
  <2>3. HandsOver(events \o Append(pending, Completed(r)), r, got)
    <3>1. LET p == pendingToolCompletionEvents(events)
              x == Result(events \o p)
          IN HandsOver(events \o Append(p, Completed(x)), x, got)
      <4>1. \A es \in Seq(Parsed), chunks \in Seq(Chunk) :
              Tells(es, chunks) /\ ~ResultIsError(es \o pendingToolCompletionEvents(es)) =>
                LET p == pendingToolCompletionEvents(es)
                    x == Result(es \o p)
                IN HandsOver(es \o Append(p, Completed(x)), x, chunks)
        BY ResultAsSent, Zenon
      <4> QED BY <1>2, <4>1, Zenon
    <3> QED BY <3>1, Zenon
  <2>4. HandsOver(events', result', got') BY <2>1, <2>2, <2>3, Zenon
  <2> QED BY <2>4, SentReturned, Zenon
<1> QED BY <1>1, <1>2

\* What it says where the consumer is at work.
LEMMA SentConsumes ==
  ASSUME SentInv, consumer \in {"top", "recv", "publish"}
  PROVE  Consuming /\ got \in Seq(Chunk) /\ (consumer # "publish" => Tells(events, got))
<1>1. Consuming /\ got \in Seq(Chunk) BY Zenon DEF SentInv
<1>2. ASSUME consumer # "publish" PROVE Tells(events, got)
  <2>1. todo = <<>> /\ events \in Seq(Parsed) BY <1>1, <1>2, Zenon DEF Consuming
  <2>2. events \o <<>> = events BY <2>1, ConcatEmptySeq
  <2> QED BY <1>1, <2>1, <2>2, Zenon DEF Consuming
<1> QED BY <1>1, <1>2

\* The consumer starts, or goes to another place with nothing in hand.
LEMMA SentMoves ==
  ASSUME got \in Seq(Chunk), Consuming, todo = <<>>, UNCHANGED <<got, todo, stream>>,
         consumer' \in {"top", "recv"}, ~done
  PROVE  SentInv'
<1>1. got' = got /\ todo' = todo /\ events' = events /\ done' = done BY Zenon DEF stream
<1>2. consumer' # "unborn" OBVIOUS
<1>3. Consuming' BY <1>1, Zenon DEF Consuming
<1> QED BY <1>1, <1>2, <1>3, Zenon DEF SentInv

\* The consumer starts with nothing received.
LEMMA SentStart == ASSUME Inv, SentInv, StartModel PROVE SentInv'
<1>1. /\ guard = "start" /\ (UNCHANGED consumer \/ consumer' = "top")
      /\ UNCHANGED <<got, todo, stream>>
  BY Zenon DEF StartModel
<1>2. Ended BY Zenon DEF Inv
<1>3. consumer = "unborn" BY <1>1, <1>2, Zenon DEF Ended
<1>4. "unborn" # "returned" /\ "unborn" # "publish" /\ "top" \in {"top", "recv"} OBVIOUS
<1>5. ~done BY <1>2, <1>3, <1>4, Zenon DEF Ended
<1>6. CASE UNCHANGED consumer BY <1>1, <1>6, SentQuiet, Zenon
<1>7. CASE consumer' = "top"
  <2>1. events = <<>> /\ todo = <<>> /\ got = <<>> /\ got \in Seq(Chunk) BY <1>3, Zenon DEF SentInv
  <2>2. Tells(events \o todo, got) /\ events \in Seq(Parsed) /\ todo \in Seq(Parsed) BY <2>1, TellsNothing, Zenon
  <2>3. DOMAIN todo = {} BY <2>1
  <2>4. Consuming BY <2>1, <2>2, <2>3, Zenon DEF Consuming
  <2>5. consumer' \in {"top", "recv"} BY <1>7
  <2> QED BY <1>1, <1>5, <2>1, <2>4, <2>5, SentMoves, Zenon
<1> QED BY <1>1, <1>6, <1>7

\* Between two chunks nothing is in hand.
LEMMA SentTop == ASSUME Inv, SentInv, ConsumeTop PROVE SentInv'
<1>1. /\ consumer = "top" /\ UNCHANGED <<got, todo>>
      /\ IF cancelled THEN fail("cancelled") /\ consumer' = "returned"
         ELSE consumer' = "recv" /\ UNCHANGED <<stream, sub>>
  BY Zenon DEF ConsumeTop
<1>2. consumer \in {"top", "recv", "publish"} /\ consumer # "publish" BY <1>1
<1>3. Consuming /\ got \in Seq(Chunk) BY <1>2, SentConsumes, Zenon
<1>4. CASE cancelled
  <2>1. fail("cancelled") /\ consumer' = "returned" /\ got' \in Seq(Chunk) BY <1>1, <1>3, <1>4, Zenon
  <2>2. "cancelled" # "" OBVIOUS
  <2> QED BY <2>1, <2>2, SentFailed, Zenon
<1>5. CASE ~cancelled
  <2>1. consumer' = "recv" /\ UNCHANGED stream BY <1>1, <1>5, Zenon
  <2>2. consumer' \in {"top", "recv"} BY <2>1
  <2>3. ~done
    <3>1. consumer \notin {"unborn", "returned"} BY <1>1
    <3> QED BY <3>1, Working
  <2>4. todo = <<>> BY <1>2, <1>3, Zenon DEF Consuming
  <2> QED BY <1>1, <1>3, <2>1, <2>2, <2>3, <2>4, SentMoves, Zenon
<1> QED BY <1>4, <1>5

\* A chunk is in hand as its events; the end and an error of the wire end the stream.
LEMMA SentRecv == ASSUME Inv, SentInv, Recv PROVE SentInv'
<1>1. consumer = "recv" BY Zenon DEF Recv, RecvChunk, RecvEOF, RecvError
<1>2. consumer \in {"top", "recv", "publish"} /\ consumer # "publish" BY <1>1
<1>3. Consuming /\ got \in Seq(Chunk) /\ Tells(events, got) BY <1>2, SentConsumes, Zenon
<1>4. events \in Seq(Parsed) BY <1>3, Zenon DEF Consuming
<1>5. ~done /\ wire \in Seq(Chunk)
  <2>1. consumer \notin {"unborn", "returned"} BY <1>1
  <2> QED BY <2>1, Working
<1>6. CASE RecvChunk
  <2> DEFINE c == Head(wire)
  <2>1. /\ wire # <<>> /\ got' = Append(got, c) /\ todo' = Parse(c) /\ consumer' = "publish" /\ UNCHANGED stream
    BY <1>6, Zenon DEF RecvChunk
  <2>2. c \in Chunk
    <3>1. \A w \in Seq(Chunk) : w # <<>> => Head(w) \in Chunk BY HeadTailProperties
    <3> QED BY <1>5, <2>1, <3>1, Zenon
  <2>3. events' = events /\ done' = done BY <2>1, Zenon DEF stream
  <2>4. got' \in Seq(Chunk)
    <3>1. \A s \in Seq(Chunk), x \in Chunk : Append(s, x) \in Seq(Chunk) BY AppendProperties
    <3> QED BY <1>3, <2>1, <2>2, <3>1, Zenon
  <2>5. Parse(c) \in Seq(Parsed) BY <2>2, ParseType
  <2>6. Tells(events \o Parse(c), Append(got, c)) BY <1>3, <1>4, <2>2, TellsNext, Zenon
  <2>7. \A k \in DOMAIN Parse(c) : Parse(c)[k].type = "completed" => k = Len(Parse(c)) BY <2>2, ParseEnds, Zenon
  <2>8. consumer' # "unborn" BY <2>1
  <2>9. Consuming' BY <1>4, <2>1, <2>3, <2>5, <2>6, <2>7, Zenon DEF Consuming
  <2> QED BY <1>5, <2>3, <2>4, <2>8, <2>9, Zenon DEF SentInv
<1>7. CASE RecvEOF
  <2>1. complete /\ consumer' = "returned" /\ got' = got BY <1>7, Zenon DEF RecvEOF
  <2> QED BY <1>3, <1>4, <2>1, SentCompleted, Zenon
<1>8. CASE RecvError
  <2>1. fail("wire") /\ consumer' = "returned" /\ got' = got BY <1>8, Zenon DEF RecvError
  <2>2. "wire" # "" OBVIOUS
  <2> QED BY <1>3, <2>1, <2>2, SentFailed, Zenon
<1> QED BY <1>6, <1>7, <1>8, Zenon DEF Recv

\* An event in hand is published, or ends the stream; it is then the last one.
LEMMA SentPublish == ASSUME Inv, SentInv, Publish PROVE SentInv'
<1>1. /\ consumer = "publish" /\ UNCHANGED got
      /\ IF todo = <<>> THEN consumer' = "top" /\ UNCHANGED <<todo, stream, sub>>
         ELSE /\ todo' = Tail(todo)
              /\ IF Head(todo).type = "completed" THEN complete /\ consumer' = "returned"
                 ELSE publish(Head(todo)) /\ UNCHANGED consumer
  BY Zenon DEF Publish
<1>2. consumer \in {"top", "recv", "publish"} BY <1>1
<1>3. Consuming /\ got \in Seq(Chunk) BY <1>2, SentConsumes, Zenon
<1>4. /\ events \in Seq(Parsed) /\ todo \in Seq(Parsed) /\ Tells(events \o todo, got)
      /\ \A k \in DOMAIN todo : todo[k].type = "completed" => k = Len(todo)
  BY <1>3, Zenon DEF Consuming
<1>5. ~done
  <2>1. consumer \notin {"unborn", "returned"} BY <1>1
  <2> QED BY <2>1, Working
<1>6. CASE todo = <<>>
  <2>1. consumer' = "top" /\ UNCHANGED <<todo, stream>> BY <1>1, <1>6, Zenon
  <2>2. consumer' \in {"top", "recv"} BY <2>1
  <2> QED BY <1>1, <1>3, <1>5, <1>6, <2>1, <2>2, SentMoves, Zenon
<1>7. CASE todo # <<>>
  <2> DEFINE h == Head(todo)
             t == Tail(todo)
             P == Parsed
  <2>0. todo \in Seq(P) /\ events \in Seq(P) BY <1>4
  <2> HIDE DEF P
  <2>1. <<h>> \in Seq(P) /\ t \in Seq(P) /\ <<h>> \o t = todo BY <1>7, <2>0, HeadThenTail
  <2>2. /\ h = todo[1] /\ DOMAIN todo = 1..Len(todo) /\ Len(todo) \in Nat \ {0} /\ h \in P
        /\ DOMAIN t = 1..Len(t) /\ Len(t) = Len(todo) - 1
        /\ \A k \in 1..Len(t) : t[k] = todo[k + 1]
    BY <1>7, <2>0, HeadTailProperties, LenProperties, EmptySeq
  <2> HIDE DEF h, t
  <2>3. todo' = t BY <1>1, <1>7, Zenon DEF t
  <2>4. CASE h.type = "completed"
    <3>1. complete /\ consumer' = "returned" BY <1>1, <1>7, <2>4, Zenon DEF h
    <3>2. 1 \in DOMAIN todo BY <2>2
    <3>3. Len(todo) = 1 BY <1>4, <2>2, <2>4, <3>2
    <3>4. todo = <<h>>
      <4>1. Len(t) = 0 BY <2>2, <3>3
      <4>2. t = <<>> BY <2>1, <4>1, EmptySeq
      <4> QED BY <2>1, <4>2, ConcatEmptySeq
    <3>5. \A e \in Range(todo) : e.type \in {"tool_completed", "completed"} BY <2>4, <3>4 DEF Range
    <3>6. Tells(events, got) BY <1>4, <3>5, ParsedYields, TellsSilent, Zenon
    <3> QED BY <1>1, <1>3, <1>4, <3>1, <3>6, SentCompleted, Zenon
  <2>5. CASE h.type # "completed"
    <3>1. publish(h) /\ UNCHANGED consumer BY <1>1, <1>7, <2>5, Zenon DEF h
    <3>2. events' = events \o <<h>> /\ done' = FALSE BY <3>1, Zenon DEF publish, Store
    <3>3. events \o <<h>> \in Seq(P) BY <2>0, <2>1, ConcatProperties
    <3>4. (events \o <<h>>) \o t = events \o todo
      <4>1. PICK u \in Seq(P) : u = <<h>> BY <2>1
      <4>2. (events \o u) \o t = events \o (u \o t) BY <2>0, <2>1, ConcatAssociative, SMTT(30)
      <4> QED BY <2>1, <4>1, <4>2, Zenon
    <3>5. Tells(events' \o todo', got') BY <1>1, <1>4, <2>3, <3>2, <3>4, Zenon
    <3>6. \A k \in DOMAIN t : t[k].type = "completed" => k = Len(t)
      <4> SUFFICES ASSUME NEW k \in DOMAIN t, t[k].type = "completed" PROVE k = Len(t) OBVIOUS
      <4>1. k \in 1..Len(t) /\ k + 1 \in DOMAIN todo /\ t[k] = todo[k + 1] BY <2>2
      <4>2. k + 1 = Len(todo) BY <1>4, <4>1
      <4> QED BY <2>2, <4>1, <4>2
    <3>7. events' \in Seq(P) /\ todo' \in Seq(P) BY <2>1, <2>3, <3>2, <3>3
    <3>8. consumer' = "publish" BY <1>1, <3>1
    <3>9. Consuming' BY <2>3, <3>5, <3>6, <3>7, <3>8, Zenon DEF Consuming, P
    <3>10. consumer' # "unborn" /\ got' \in Seq(Chunk) BY <1>1, <1>3, <3>8
    <3> QED BY <3>2, <3>9, <3>10, Zenon DEF SentInv
  <2> QED BY <2>4, <2>5
<1> QED BY <1>6, <1>7

\* What a stream that completes hands over is what the chunks received said,
\* whatever they were, however the events of a chunk and the calls of the
\* guard, its cancellation and the watchers alternate.
THEOREM ResultSent == Spec => []ResultIsWhatWasSent
<1>1. Init => SentInv BY SentInit, Zenon
<1>2. Inv /\ SentInv /\ [Next]_vars => SentInv'
  <2> SUFFICES ASSUME Inv, SentInv, [Next]_vars PROVE SentInv' OBVIOUS
  <2>1. CASE StartModel BY <2>1, SentStart, Zenon
  <2>2. CASE GuardSubscribes \/ GuardReads \/ GuardDecides \/ Cancel
    <3>1. UNCHANGED <<got, consumer, todo, stream>>
      BY <2>2, Zenon DEF GuardSubscribes, GuardReads, GuardDecides, Cancel
    <3> QED BY <3>1, SentQuiet, Zenon
  <2>3. CASE ConsumeTop BY <2>3, SentTop, Zenon
  <2>4. CASE Recv BY <2>4, SentRecv, Zenon
  <2>5. CASE Publish BY <2>5, SentPublish, Zenon
  <2>6. CASE \E s \in Subscribers : RunSubscription(s)
    <3>1. UNCHANGED <<got, consumer, todo, stream>> BY <2>6, Zenon DEF RunSubscription
    <3> QED BY <3>1, SentQuiet, Zenon
  <2>7. CASE \E s \in Watchers : WatcherSubscribes(s) \/ WatcherReads(s)
    <3>1. UNCHANGED <<got, consumer, todo, stream>> BY <2>7, Zenon DEF WatcherSubscribes, WatcherReads
    <3> QED BY <3>1, SentQuiet, Zenon
  <2>8. CASE UNCHANGED vars
    <3>1. UNCHANGED <<got, consumer, todo, stream>> BY <2>8, Zenon DEF vars
    <3> QED BY <3>1, SentQuiet, Zenon
  <2> QED BY <2>1, <2>2, <2>3, <2>4, <2>5, <2>6, <2>7, <2>8, Zenon DEF Next, GuardStep
<1>3. SentInv => ResultIsWhatWasSent BY SaysResult, Zenon DEF SentInv
<1> QED BY <1>1, <1>2, <1>3, StreamInvariant, PTL DEF Spec
=============================================================================
