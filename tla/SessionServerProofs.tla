------------------------- MODULE SessionServerProofs -------------------------
(***************************************************************************)
(* What a session's stream holds and what its clients render, whatever the *)
(* turns, the Agent, the connections and a shutdown do and in whatever     *)
(* order.                                                                  *)
(*                                                                         *)
(* HubInv is the invariant of the hub: cursors follow one another without  *)
(* a gap from what a client has rendered to what is queued for it.  With   *)
(* it the hub implements the log of EventLog.                              *)
(*                                                                         *)
(* ServerInv is the invariant of the server above it: one turn is served,  *)
(* the pending ones follow it in the order of their submission (QueueInv), *)
(* what a watcher has still to publish of a run is what the run has        *)
(* emitted since its last published event (RunInv), and the published      *)
(* events are those before (StreamInv).                                    *)
(***************************************************************************)
EXTENDS SessionServer, SequenceTheorems, FiniteSetTheorems, TLAPS

Delivering == {"none", "run", "wait", "over"}

\* The cursors of s follow the cursor n without a gap.
Pos(s, n) == \A i \in 1..Len(s) : s[i] = n + i

\* What a client has rendered (s), what is on its way (h) and what is queued for
\* it (q) are consecutive cursors from the first event on, up to the last of n
\* events as long as its goroutine, in state d, is registered; nothing is left
\* behind for one that is not.
Linked(s, h, q, n, d) ==
  /\ Pos(s, 0) /\ Pos(h, Len(s)) /\ Pos(q, Len(s) + Len(h))
  /\ Len(s) + Len(h) + Len(q) <= n
  /\ d \in {"run", "wait"} => Len(s) + Len(h) + Len(q) = n
  /\ d \notin {"run", "wait"} => q = <<>>
  /\ d = "none" => h = <<>>

\* The cursor a client with the cursors s reconnects with, what is replayed to
\* it of n events, and the events at the cursors s.
After(s) == IF s = <<>> THEN 0 ELSE s[Len(s)]
Replay(n, after) == [i \in 1..(n - after) |-> after + i]
EventsAt(log, s) == [i \in 1..Len(s) |-> log[s[i]]]

\* Types of the variables that hold events and cursors.
HubType ==
  /\ events \in Seq(Event)
  /\ queue \in [Client -> Seq(Nat)] /\ channel \in [Client -> Seq(Nat)] /\ seen \in [Client -> Seq(Nat)]
  /\ deliverer \in [Client -> Delivering]

Consecutive(c) == Linked(seen[c], channel[c], queue[c], Len(events), deliverer[c])

\* The inductive invariant.
HubInv == HubType /\ \A c \in Client : Consecutive(c)
-----------------------------------------------------------------------------
(* Cursors. *)

\* A sequence of consecutive cursors goes on with the next one.
LEMMA PosAppend ==
  ASSUME NEW s \in Seq(Nat), NEW n \in Nat, Pos(s, n)
  PROVE  /\ Pos(Append(s, n + Len(s) + 1), n)
         /\ Append(s, n + Len(s) + 1) \in Seq(Nat)
         /\ Len(Append(s, n + Len(s) + 1)) = Len(s) + 1
  BY DEF Pos

\* Its head is the cursor after the ones before it, and its tail goes on from
\* there.
LEMMA PosTail ==
  ASSUME NEW s \in Seq(Nat), NEW n \in Nat, Pos(s, n), s # <<>>
  PROVE  /\ Head(s) = n + 1
         /\ Pos(Tail(s), n + 1)
         /\ Tail(s) \in Seq(Nat)
         /\ Len(Tail(s)) = Len(s) - 1
         /\ Len(s) > 0
<1>1. Len(s) > 0 /\ Head(s) = s[1] /\ Tail(s) \in Seq(Nat) /\ Len(Tail(s)) = Len(s) - 1
  BY EmptySeq, HeadTailProperties
<1>2. \A i \in 1..Len(Tail(s)) : Tail(s)[i] = s[i + 1]
  BY <1>1, HeadTailProperties
<1> QED BY <1>1, <1>2 DEF Pos

\* The empty sequence is consecutive, wherever it begins.
LEMMA PosEmpty == ASSUME NEW n PROVE Pos(<<>>, n) /\ Len(<<>>) = 0 /\ <<>> \in Seq(Nat)
  BY DEF Pos

\* The next m cursors after n.
LEMMA PosRange ==
  ASSUME NEW n \in Nat, NEW m \in Nat
  PROVE  LET new == [i \in 1..m |-> n + i]
         IN new \in Seq(Nat) /\ Len(new) = m /\ Pos(new, n)
  BY DEF Pos

(* What the steps of the hub do to the cursors of a client. *)

\* No client has a cursor at first.
LEMMA LinkedEmpty == ASSUME NEW n \in Nat PROVE Linked(<<>>, <<>>, <<>>, n, "none")
  BY PosEmpty DEF Linked

\* publish: the new cursor goes on with the queue of a registered subscriber.
LEMMA LinkedPublish ==
  ASSUME NEW s \in Seq(Nat), NEW h \in Seq(Nat), NEW q \in Seq(Nat), NEW n \in Nat,
         NEW d \in Delivering, Linked(s, h, q, n, d)
  PROVE  /\ d \in {"run", "wait"} => Linked(s, h, Append(q, n + 1), n + 1, d)
         /\ d \notin {"run", "wait"} => Linked(s, h, q, n + 1, d)
<1>1. Len(s) \in Nat /\ Len(h) \in Nat /\ Len(q) \in Nat OBVIOUS
<1>2. CASE d \in {"run", "wait"}
  <2>1. n + 1 = (Len(s) + Len(h)) + Len(q) + 1 BY <1>1, <1>2 DEF Linked
  <2>2. /\ Pos(Append(q, n + 1), Len(s) + Len(h))
        /\ Len(Append(q, n + 1)) = Len(q) + 1
    BY <1>1, <2>1, PosAppend DEF Linked
  <2> QED BY <1>1, <1>2, <2>1, <2>2 DEF Linked
<1>3. CASE d \notin {"run", "wait"} BY <1>1, <1>3 DEF Linked
<1> QED BY <1>2, <1>3

\* subscribe: the cursor rendered last is the number of rendered events, and the
\* replay goes on from there to the last event.
LEMMA LinkedSubscribe ==
  ASSUME NEW s \in Seq(Nat), NEW h \in Seq(Nat), NEW q \in Seq(Nat), NEW n \in Nat,
         Linked(s, h, q, n, "none")
  PROVE  /\ Replay(n, After(s)) \in Seq(Nat)
         /\ Linked(s, <<>>, Replay(n, After(s)), n, "run")
<1> DEFINE after == After(s)
           new == Replay(n, after)
<1>1. Len(s) \in Nat /\ Len(h) \in Nat /\ Len(q) \in Nat OBVIOUS
<1>2. Len(s) <= n BY <1>1 DEF Linked
<1>3. after = Len(s)
  <2>1. CASE s = <<>> BY <2>1 DEF After
  <2>2. CASE s # <<>>
    <3>1. Len(s) \in 1..Len(s) BY <1>1, <2>2, EmptySeq
    <3> QED BY <1>1, <2>2, <3>1 DEF Linked, Pos, After
  <2> QED BY <2>1, <2>2
<1>4. n - after \in Nat /\ after \in Nat BY <1>1, <1>2, <1>3
<1>5. new \in Seq(Nat) /\ Len(new) = n - after /\ Pos(new, after)
  <2> HIDE DEF after
  <2> QED BY <1>4, PosRange DEF Replay
<1>6. Len(s) + Len(<<>>) = after /\ Len(s) + Len(<<>>) + Len(new) = n
  BY <1>1, <1>3, <1>4, <1>5
<1> QED BY <1>5, <1>6, PosEmpty DEF Linked

\* deliver: the head of the queue goes on with the channel.
LEMMA LinkedDeliver ==
  ASSUME NEW s \in Seq(Nat), NEW h \in Seq(Nat), NEW q \in Seq(Nat), NEW n \in Nat,
         Linked(s, h, q, n, "run"), q # <<>>
  PROVE  /\ Append(h, Head(q)) \in Seq(Nat) /\ Tail(q) \in Seq(Nat)
         /\ Linked(s, Append(h, Head(q)), Tail(q), n, "run")
<1>1. Len(s) \in Nat /\ Len(h) \in Nat /\ Len(q) \in Nat OBVIOUS
<1>2. Len(s) + Len(h) \in Nat /\ Pos(q, Len(s) + Len(h)) BY <1>1 DEF Linked
<1>3. /\ Head(q) = Len(s) + Len(h) + 1 /\ Pos(Tail(q), Len(s) + Len(h) + 1)
      /\ Tail(q) \in Seq(Nat) /\ Len(Tail(q)) = Len(q) - 1
  BY <1>2, PosTail
<1>4. /\ Pos(Append(h, Head(q)), Len(s)) /\ Append(h, Head(q)) \in Seq(Nat)
      /\ Len(Append(h, Head(q))) = Len(h) + 1
  BY <1>1, <1>3, PosAppend DEF Linked
<1>5. Len(s) + Len(Append(h, Head(q))) = Len(s) + Len(h) + 1 BY <1>1, <1>4
<1>6. Len(s) + Len(Append(h, Head(q))) + Len(Tail(q)) = n
  <2>1. Len(s) + Len(h) + Len(q) = n BY DEF Linked
  <2> QED BY <1>1, <1>3, <1>5, <2>1, SMTT(30)
<1> QED BY <1>3, <1>4, <1>5, <1>6 DEF Linked

\* deliver: the goroutine may sleep or end when its queue is empty.
LEMMA LinkedSleep ==
  ASSUME NEW s \in Seq(Nat), NEW h \in Seq(Nat), NEW q \in Seq(Nat), NEW n \in Nat,
         Linked(s, h, q, n, "run"), q = <<>>
  PROVE  Linked(s, h, q, n, "wait") /\ Linked(s, h, q, n, "over")
  BY DEF Linked

\* wake: the goroutine runs again.
LEMMA LinkedWake ==
  ASSUME NEW s, NEW h, NEW q, NEW n, Linked(s, h, q, n, "wait")
  PROVE  Linked(s, h, q, n, "run")
  BY DEF Linked

\* streamSessionEvents: the head of the channel goes on with what is rendered.
LEMMA LinkedStream ==
  ASSUME NEW s \in Seq(Nat), NEW h \in Seq(Nat), NEW q \in Seq(Nat), NEW n \in Nat,
         NEW d \in Delivering, Linked(s, h, q, n, d), h # <<>>
  PROVE  /\ Append(s, Head(h)) \in Seq(Nat) /\ Tail(h) \in Seq(Nat)
         /\ Linked(Append(s, Head(h)), Tail(h), q, n, d)
         /\ Head(h) = Len(s) + 1 /\ Len(s) < n
<1>1. Len(s) \in Nat /\ Len(h) \in Nat /\ Len(q) \in Nat OBVIOUS
<1>2. /\ Head(h) = Len(s) + 1 /\ Pos(Tail(h), Len(s) + 1)
      /\ Tail(h) \in Seq(Nat) /\ Len(Tail(h)) = Len(h) - 1 /\ Len(h) > 0
  BY <1>1, PosTail DEF Linked
<1>3. /\ Pos(Append(s, Head(h)), 0) /\ Append(s, Head(h)) \in Seq(Nat)
      /\ Len(Append(s, Head(h))) = Len(s) + 1
  <2>1. Head(h) = 0 + Len(s) + 1 /\ Pos(s, 0) BY <1>1, <1>2 DEF Linked
  <2> QED BY <2>1, PosAppend
<1>4. Len(Append(s, Head(h))) + Len(Tail(h)) = Len(s) + Len(h) BY <1>1, <1>2, <1>3
<1>5. Len(s) < n BY <1>1, <1>2 DEF Linked
<1>6. d # "none" BY DEF Linked
<1> QED BY <1>2, <1>3, <1>4, <1>5, <1>6 DEF Linked

\* disconnect: what was on its way is lost, what is rendered stays.
LEMMA LinkedDisconnect ==
  ASSUME NEW s \in Seq(Nat), NEW h \in Seq(Nat), NEW q \in Seq(Nat), NEW n \in Nat,
         NEW d, Linked(s, h, q, n, d)
  PROVE  Linked(s, <<>>, <<>>, n, "none")
<1>1. Len(s) \in Nat /\ Len(h) \in Nat /\ Len(q) \in Nat OBVIOUS
<1>2. Len(s) + Len(<<>>) + Len(<<>>) = Len(s) BY <1>1
<1>3. Len(s) <= n BY <1>1 DEF Linked
<1> QED BY <1>2, <1>3, PosEmpty DEF Linked

\* What is rendered are the first cursors of the log.
LEMMA LinkedSeen ==
  ASSUME NEW s \in Seq(Nat), NEW h \in Seq(Nat), NEW q \in Seq(Nat), NEW n \in Nat,
         NEW d, Linked(s, h, q, n, d)
  PROVE  Len(s) <= n /\ \A i \in 1..Len(s) : s[i] = i
<1>1. Len(s) \in Nat /\ Len(h) \in Nat /\ Len(q) \in Nat OBVIOUS
<1> QED BY <1>1 DEF Linked, Pos
-----------------------------------------------------------------------------
(* The invariant. *)

\* The hub begins with the invariant.
LEMMA HubInvInit == HubInit => HubInv
<1> SUFFICES ASSUME HubInit PROVE HubInv OBVIOUS
<1>1. HubType
  <2>1. events \in Seq(Event) BY DEF HubInit
  <2>2. queue \in [Client -> Seq(Nat)] /\ channel \in [Client -> Seq(Nat)] /\ seen \in [Client -> Seq(Nat)]
    BY PosEmpty DEF HubInit
  <2>3. deliverer \in [Client -> Delivering] BY DEF HubInit, Delivering
  <2> QED BY <2>1, <2>2, <2>3 DEF HubType
<1>2. ASSUME NEW c \in Client PROVE Consecutive(c)
  <2>1. Len(events) = 0 BY DEF HubInit
  <2>2. seen[c] = <<>> /\ channel[c] = <<>> /\ queue[c] = <<>> /\ deliverer[c] = "none"
    BY DEF HubInit
  <2> QED BY <2>1, <2>2, LinkedEmpty DEF Consecutive
<1> QED BY <1>1, <1>2 DEF HubInv

\* The cursors of one client.
LEMMA ClientType ==
  ASSUME HubInv, NEW c \in Client
  PROVE  /\ seen[c] \in Seq(Nat) /\ channel[c] \in Seq(Nat) /\ queue[c] \in Seq(Nat)
         /\ deliverer[c] \in Delivering /\ Len(events) \in Nat
         /\ Linked(seen[c], channel[c], queue[c], Len(events), deliverer[c])
  BY DEF HubInv, HubType, Consecutive

\* Every step keeps it: one lemma for each operation of sessionEventHub and of
\* its clients.
LEMMA PublishInv == ASSUME HubInv, NEW e \in Event, publish(e) PROVE HubInv'
<1>1. CASE UNCHANGED hub
  BY <1>1 DEF HubInv, HubType, Consecutive, hub, subscriber
<1>2. CASE ~UNCHANGED hub
  <2>1. /\ events' = Append(events, e)
        /\ queue' = [c \in Client |->
             IF Registered(c) THEN Append(queue[c], Len(events) + 1) ELSE queue[c]]
        /\ UNCHANGED <<hubClosed, subClosed, deliverer, channel, seen, disconnects>>
    BY <1>2 DEF publish
  <2>2. events' \in Seq(Event) /\ Len(events') = Len(events) + 1 /\ Len(events) \in Nat
    BY <2>1 DEF HubInv, HubType
  <2>3. ASSUME NEW c \in Client
        PROVE  queue'[c] \in Seq(Nat) /\ Consecutive(c)'
    <3>1. CASE Registered(c)
      <4>1. queue'[c] = Append(queue[c], Len(events) + 1) BY <2>1, <3>1
      <4>2. Linked(seen[c], channel[c], Append(queue[c], Len(events) + 1), Len(events) + 1, deliverer[c])
        BY <3>1, ClientType, LinkedPublish DEF Registered
      <4>3. Append(queue[c], Len(events) + 1) \in Seq(Nat) BY <2>2, ClientType
      <4> QED BY <2>1, <2>2, <4>1, <4>2, <4>3 DEF Consecutive
    <3>2. CASE ~Registered(c)
      <4>1. queue'[c] = queue[c] BY <2>1, <3>2
      <4>2. Linked(seen[c], channel[c], queue[c], Len(events) + 1, deliverer[c])
        BY <3>2, ClientType, LinkedPublish DEF Registered
      <4> QED BY <2>1, <2>2, <4>1, <4>2, ClientType DEF Consecutive
    <3> QED BY <3>1, <3>2
  <2>4. queue' \in [Client -> Seq(Nat)] BY <2>1, <2>3
  <2> QED BY <2>1, <2>2, <2>3, <2>4 DEF HubInv, HubType
<1> QED BY <1>1, <1>2

\* Closing the hub moves no cursor.
LEMMA CloseInv == ASSUME HubInv, close PROVE HubInv'
  BY DEF HubInv, HubType, Consecutive, close

\* A step that concerns the queue, channel, rendered cursors and goroutine of
\* one client keeps the invariant if it keeps the client's cursors linked.
LEMMA OneClient ==
  ASSUME HubInv, NEW c \in Client,
         NEW s \in Seq(Nat), NEW h \in Seq(Nat), NEW q \in Seq(Nat), NEW d \in Delivering,
         events' = events,
         queue' = [queue EXCEPT ![c] = q], channel' = [channel EXCEPT ![c] = h],
         seen' = [seen EXCEPT ![c] = s], deliverer' = [deliverer EXCEPT ![c] = d],
         Linked(s, h, q, Len(events), d)
  PROVE  HubInv'
<1>1. HubType' BY DEF HubInv, HubType
<1>2. ASSUME NEW k \in Client, k # c PROVE Consecutive(k)'
  BY <1>2 DEF HubInv, HubType, Consecutive
<1>3. Consecutive(c)' BY DEF HubInv, HubType, Consecutive
<1> QED BY <1>1, <1>2, <1>3 DEF HubInv

\* Replay and registration, under one lock.
LEMMA SubscribeInv == ASSUME HubInv, NEW c \in Client, subscribe(c) PROVE HubInv'
<1> DEFINE q == Replay(Len(events), After(seen[c]))
<1>1. q \in Seq(Nat) /\ Linked(seen[c], <<>>, q, Len(events), "run")
  <2>1. Linked(seen[c], channel[c], queue[c], Len(events), "none") BY ClientType DEF subscribe
  <2> QED BY <2>1, ClientType, LinkedSubscribe
<1>2. /\ queue' = [queue EXCEPT ![c] = q] /\ channel' = [channel EXCEPT ![c] = <<>>]
      /\ deliverer' = [deliverer EXCEPT ![c] = "run"] /\ seen' = [seen EXCEPT ![c] = seen[c]]
      /\ events' = events
  BY DEF subscribe, HubInv, HubType, Replay, After
<1>3. "run" \in Delivering /\ seen[c] \in Seq(Nat) BY ClientType DEF Delivering
<1> HIDE DEF q
<1> QED BY <1>1, <1>2, <1>3, PosEmpty, OneClient

\* The goroutine passes an event on, ends or sleeps.
LEMMA DeliverInv == ASSUME HubInv, NEW c \in Client, deliver(c) PROVE HubInv'
<1>1. /\ Linked(seen[c], channel[c], queue[c], Len(events), "run") /\ deliverer[c] = "run"
      /\ {"run", "wait", "over"} \subseteq Delivering
  BY ClientType DEF deliver, Delivering
<1>2. events' = events /\ seen' = [seen EXCEPT ![c] = seen[c]] BY DEF deliver, HubInv, HubType
<1>3. CASE queue[c] # <<>>
  <2>1. /\ Append(channel[c], Head(queue[c])) \in Seq(Nat) /\ Tail(queue[c]) \in Seq(Nat)
        /\ Linked(seen[c], Append(channel[c], Head(queue[c])), Tail(queue[c]), Len(events), "run")
    BY <1>1, <1>3, ClientType, LinkedDeliver
  <2>2. /\ channel' = [channel EXCEPT ![c] = Append(channel[c], Head(queue[c]))]
        /\ queue' = [queue EXCEPT ![c] = Tail(queue[c])]
        /\ deliverer' = [deliverer EXCEPT ![c] = "run"]
    BY <1>1, <1>3 DEF deliver, HubInv, HubType
  <2> QED BY <1>1, <1>2, <2>1, <2>2, ClientType, OneClient
<1>4. CASE queue[c] = <<>>
  <2> DEFINE d == IF subClosed[c] THEN "over" ELSE "wait"
  <2>1. Linked(seen[c], channel[c], queue[c], Len(events), d) /\ d \in Delivering
    BY <1>1, <1>4, ClientType, LinkedSleep
  <2>2. /\ channel' = [channel EXCEPT ![c] = channel[c]] /\ queue' = [queue EXCEPT ![c] = queue[c]]
        /\ deliverer' = [deliverer EXCEPT ![c] = d]
    BY <1>4 DEF deliver, HubInv, HubType
  <2> HIDE DEF d
  <2> QED BY <1>2, <2>1, <2>2, ClientType, OneClient
<1> QED BY <1>3, <1>4

\* The goroutine is notified.
LEMMA WakeInv == ASSUME HubInv, NEW c \in Client, wake(c) PROVE HubInv'
<1>1. Linked(seen[c], channel[c], queue[c], Len(events), "run") /\ "run" \in Delivering
  BY ClientType, LinkedWake DEF wake, Delivering
<1>2. /\ queue' = [queue EXCEPT ![c] = queue[c]] /\ channel' = [channel EXCEPT ![c] = channel[c]]
      /\ seen' = [seen EXCEPT ![c] = seen[c]] /\ deliverer' = [deliverer EXCEPT ![c] = "run"]
      /\ events' = events
  BY DEF wake, HubInv, HubType
<1> QED BY <1>1, <1>2, ClientType, OneClient

\* The client renders an event.
LEMMA StreamSessionEventsInv ==
  ASSUME HubInv, NEW c \in Client, streamSessionEvents(c)
  PROVE  HubInv' /\ Head(channel[c]) = Len(seen[c]) + 1 /\ Len(seen[c]) < Len(events)
<1>1. channel[c] # <<>> BY DEF streamSessionEvents
<1>2. /\ Append(seen[c], Head(channel[c])) \in Seq(Nat) /\ Tail(channel[c]) \in Seq(Nat)
      /\ Linked(Append(seen[c], Head(channel[c])), Tail(channel[c]), queue[c], Len(events), deliverer[c])
      /\ Head(channel[c]) = Len(seen[c]) + 1 /\ Len(seen[c]) < Len(events)
  BY <1>1, ClientType, LinkedStream
<1>3. /\ seen' = [seen EXCEPT ![c] = Append(seen[c], Head(channel[c]))]
      /\ channel' = [channel EXCEPT ![c] = Tail(channel[c])]
      /\ queue' = [queue EXCEPT ![c] = queue[c]] /\ deliverer' = [deliverer EXCEPT ![c] = deliverer[c]]
      /\ events' = events
  BY DEF streamSessionEvents, HubInv, HubType
<1>4. HubInv' BY <1>2, <1>3, ClientType, OneClient
<1> QED BY <1>2, <1>4

\* The client loses its connection.
LEMMA DisconnectInv == ASSUME HubInv, NEW c \in Client, disconnect(c) PROVE HubInv'
<1>1. Linked(seen[c], <<>>, <<>>, Len(events), "none") /\ "none" \in Delivering
  BY ClientType, LinkedDisconnect DEF Delivering
<1>2. /\ queue' = [queue EXCEPT ![c] = <<>>] /\ channel' = [channel EXCEPT ![c] = <<>>]
      /\ deliverer' = [deliverer EXCEPT ![c] = "none"] /\ seen' = [seen EXCEPT ![c] = seen[c]]
      /\ events' = events
  BY DEF disconnect, HubInv, HubType
<1> QED BY <1>1, <1>2, ClientType, PosEmpty, OneClient

\* The invariant is inductive.
LEMMA HubInvNext == HubInv /\ [HubNext]_hub => HubInv'
<1> SUFFICES ASSUME HubInv, [HubNext]_hub PROVE HubInv' OBVIOUS
<1>1. CASE UNCHANGED hub
  BY <1>1 DEF HubInv, HubType, Consecutive, hub, subscriber
<1>2. CASE HubNext
  BY <1>2, PublishInv, CloseInv, SubscribeInv, DeliverInv, WakeInv,
     StreamSessionEventsInv, DisconnectInv DEF HubNext, Stream
<1> QED BY <1>1, <1>2
-----------------------------------------------------------------------------
(* The refinement. *)

\* What a client with linked cursors has rendered is a prefix of the log.
LEMMA RenderedPrefix ==
  ASSUME NEW log \in Seq(Event), NEW s \in Seq(Nat), NEW h \in Seq(Nat), NEW q \in Seq(Nat),
         NEW d, Linked(s, h, q, Len(log), d)
  PROVE  /\ EventsAt(log, s) \in Seq(Event) /\ Len(EventsAt(log, s)) = Len(s) /\ Len(s) \in Nat
         /\ \A i \in 1..Len(s) : s[i] = i /\ i \in 1..Len(log) /\ EventsAt(log, s)[i] = log[i]
<1>1. Len(s) \in Nat /\ Len(log) \in Nat OBVIOUS
<1>2. Len(s) <= Len(log) /\ \A i \in 1..Len(s) : s[i] = i BY <1>1, LinkedSeen
<1>3. \A i \in 1..Len(s) : i \in 1..Len(log) /\ log[s[i]] \in Event BY <1>1, <1>2
<1>4. EventsAt(log, s) \in Seq(Event) /\ Len(EventsAt(log, s)) = Len(s) BY <1>1, <1>3 DEF EventsAt
<1> QED BY <1>1, <1>2, <1>3, <1>4 DEF EventsAt

\* What a client has rendered is a sequence as long as its cursors.
LEMMA RenderedSeq ==
  ASSUME HubInv, NEW c \in Client
  PROVE  /\ Rendered[c] \in Seq(Event) /\ Len(Rendered[c]) = Len(seen[c]) /\ Len(seen[c]) \in Nat
         /\ \A i \in 1..Len(seen[c]) : seen[c][i] = i /\ i \in 1..Len(events) /\ Rendered[c][i] = events[i]
<1>1. Rendered[c] = EventsAt(events, seen[c]) /\ events \in Seq(Event)
  BY DEF Rendered, EventsAt, HubInv, HubType
<1> QED BY <1>1, ClientType, RenderedPrefix, SMTT(20)

\* The rendered events are those of the log that the log has when it is longer.
LEMMA RenderedStays ==
  ASSUME HubInv, UNCHANGED seen, NEW e \in Event, events' = Append(events, e)
  PROVE  Rendered' = Rendered
<1>1. ASSUME NEW c \in Client, NEW i \in 1..Len(seen[c]) PROVE events'[seen'[c][i]] = events[seen[c][i]]
  <2>1. seen[c][i] = i /\ i \in 1..Len(events) BY <1>1, RenderedSeq
  <2>2. events \in Seq(Event) BY DEF HubInv, HubType
  <2> QED BY <2>1, <2>2
<1> QED BY <1>1 DEF Rendered

\* The hub begins as the log does.
LEMMA RefinesInit == HubInit => Log!Init
<1> SUFFICES ASSUME HubInit PROVE Log!Init OBVIOUS
<1>1. HubInv BY HubInvInit
<1>2. ASSUME NEW c \in Client PROVE Rendered[c] = <<>>
  <2>1. Len(seen[c]) = 0 BY DEF HubInit
  <2> QED BY <1>1, <2>1, RenderedSeq, EmptySeq
<1>3. Rendered = [c \in Client |-> <<>>] BY <1>2 DEF Rendered
<1> QED BY <1>3 DEF HubInit, Log!Init

\* A step of the hub is a step of the log or changes nothing in it.
LEMMA RefinesNext ==
  HubInv /\ HubInv' /\ [HubNext]_hub => [Log!Next]_<<events, Rendered>>
<1> SUFFICES ASSUME HubInv, HubInv', [HubNext]_hub PROVE [Log!Next]_<<events, Rendered>> OBVIOUS
<1>1. CASE UNCHANGED <<events, seen>> BY <1>1 DEF Rendered
<1>2. ASSUME NEW e \in Event, publish(e), ~UNCHANGED hub PROVE Log!Grow
  <2>1. events' = Append(events, e) /\ UNCHANGED seen BY <1>2 DEF publish
  <2>2. Rendered' = Rendered BY <2>1, RenderedStays
  <2>3. events \in Seq(Event) BY DEF HubInv, HubType
  <2>4. Len(events') = Len(events) + 1 BY <2>1, <2>3
  <2>5. SubSeq(events', 1, Len(events)) = events BY <2>1, <2>3
  <2> QED BY <2>2, <2>4, <2>5 DEF Log!Grow
<1>3. ASSUME NEW c \in Client, streamSessionEvents(c) PROVE Log!Render(c)
  <2>1. Len(seen[c]) < Len(events) /\ Head(channel[c]) = Len(seen[c]) + 1
    BY <1>3, StreamSessionEventsInv
  <2>2. /\ UNCHANGED events /\ seen \in [Client -> Seq(Nat)] /\ events \in Seq(Event)
        /\ seen' = [seen EXCEPT ![c] = Append(seen[c], Len(seen[c]) + 1)]
    BY <1>3, <2>1 DEF streamSessionEvents, HubInv, HubType
  <2>3. /\ Rendered[c] \in Seq(Event) /\ Len(Rendered[c]) = Len(seen[c]) /\ Len(seen[c]) \in Nat
        /\ \A i \in 1..Len(seen[c]) : Rendered[c][i] = events[i]
    BY RenderedSeq
  <2>4. /\ Rendered'[c] \in Seq(Event) /\ Len(Rendered'[c]) = Len(seen'[c])
        /\ \A i \in 1..Len(seen'[c]) : Rendered'[c][i] = events'[i]
    <3>1. /\ seen'[c] \in Seq(Nat) /\ channel'[c] \in Seq(Nat) /\ queue'[c] \in Seq(Nat)
          /\ events' \in Seq(Event)
          /\ Linked(seen'[c], channel'[c], queue'[c], Len(events'), deliverer'[c])
      BY DEF HubInv, HubType, Consecutive
    <3>2. Rendered'[c] = EventsAt(events', seen'[c]) BY DEF Rendered, EventsAt
    <3>3. /\ EventsAt(events', seen'[c]) \in Seq(Event) /\ Len(EventsAt(events', seen'[c])) = Len(seen'[c])
          /\ \A i \in 1..Len(seen'[c]) : EventsAt(events', seen'[c])[i] = events'[i]
      BY <3>1, RenderedPrefix
    <3> QED BY <3>2, <3>3
  <2>5. Len(seen'[c]) = Len(seen[c]) + 1 BY <2>2
  <2>6. Rendered'[c] = Append(Rendered[c], events[Len(seen[c]) + 1])
    BY <2>1, <2>2, <2>3, <2>4, <2>5, SMTT(30)
  <2>7. ASSUME NEW k \in Client, k # c PROVE Rendered'[k] = Rendered[k]
    BY <2>2, <2>7 DEF Rendered
  <2>8. Rendered' = [Rendered EXCEPT ![c] = Append(@, events[Len(@) + 1])]
    BY <2>3, <2>6, <2>7 DEF Rendered
  <2> QED BY <2>1, <2>2, <2>3, <2>8 DEF Log!Render
<1>4. CASE HubNext
  <2>1. ASSUME NEW e \in Event, publish(e) PROVE [Log!Next]_<<events, Rendered>>
    BY <1>1, <1>2, <2>1 DEF Log!Next, hub
  <2>2. CASE close BY <1>1, <2>2 DEF close
  <2>3. ASSUME NEW c \in Client, Stream(c) PROVE [Log!Next]_<<events, Rendered>>
    BY <1>1, <1>3, <2>3 DEF Log!Next, Stream, subscribe, deliver, wake, disconnect
  <2> QED BY <1>4, <2>1, <2>2, <2>3 DEF HubNext
<1> QED BY <1>1, <1>4 DEF hub

\* The hub keeps what is rendered, on its way and queued consecutive, for any
\* clients, events and number of lost connections.
THEOREM HubInvariant == HubSpec => []HubInv
  BY HubInvInit, HubInvNext, PTL DEF HubSpec

\* Every client renders every retained event once and in order, although
\* replay, live events, lost connections and the hub's closing interleave
\* (sessionEventHub): the hub implements the log.
THEOREM HubImplementsLog == HubSpec => StreamIsTheLog
  BY HubInvariant, HubInvNext, RefinesInit, RefinesNext, PTL DEF HubSpec, StreamIsTheLog, Log!Spec
-----------------------------------------------------------------------------
(* The invariant of the server. *)

Phase == {"new", "queued", "refused", "admit", "start", "reject", "watch", "replay", "forward",
          "advance", "cancel", "over"}
Steps == {"pre_end_scope", "end_scope"}
RunRecord ==
  [state : {"none", "live", "terminal", "done", "finished"}, emitted : 0..RunEvents, fence : 0..RunEvents,
   backfill : Seq(Nat), queue : Seq(Nat), subscribed : BOOLEAN]
FeedItem == (Steps \X Run) \cup (1..MaxFacts)

TurnType ==
  /\ pc \in [Turn -> Phase] /\ resolved \in [Turn -> {"none", "run", "error"}]
  /\ activeTurn \in Turn \cup {None} /\ pendingTurns \in Seq(Turn)
  /\ announce \subseteq Turn /\ advancer \in Turn \cup {None} /\ eventsDone \subseteq Turn

AgentType ==
  /\ runs \in [Run -> RunRecord] /\ active \in Run \cup {None}
  /\ scope \in [Turn -> ({"open"} \X {None}) \cup ({"ending", "ended"} \X Run)]
  /\ feed \in [Feed -> Seq(FeedItem)]
  /\ feed["scope"] \in Seq(Steps \X Run)
  /\ \A f \in Feed \ {"scope"} : feed[f] \in Seq(1..MaxFacts)
  /\ facts \in 0..MaxFacts

StreamType == events \in Seq(SessionEvent) /\ stop \in BOOLEAN /\ (hubClosed => stop)

\* The phases of the turn whose goroutine owns the session.
Serving == {"admit", "start", "reject", "watch", "replay", "forward", "advance"}

\* One turn is served; the queue holds the waiting turns, later ones than it,
\* in the order of their submission, none of them resolved.
QueueInv ==
  /\ \A t \in Turn : pc[t] \in Serving <=> activeTurn = t
  /\ \A t \in Turn : pc[t] = "queued" <=> \E i \in 1..Len(pendingTurns) : pendingTurns[i] = t
  /\ \A i, j \in 1..Len(pendingTurns) : i < j => pendingTurns[i] < pendingTurns[j]
  /\ \A i \in 1..Len(pendingTurns) : activeTurn # None /\ activeTurn < pendingTurns[i]
  /\ \A t, u \in Turn : t < u /\ pc[t] = "new" => pc[u] = "new"
  /\ \A t \in Turn : pc[t] \in {"new", "queued", "admit", "start"} => resolved[t] = "none"
  /\ Len(pendingTurns) <= QueueLimit

\* The events of run t that its watcher has published.
Delivered(t) == runs[t].emitted - (Len(runs[t].backfill) + Len(runs[t].queue))

Unwatched(t) == runs[t].fence = 0 /\ runs[t].backfill = <<>> /\ runs[t].queue = <<>> /\ ~runs[t].subscribed

\* A run is over with its last event.
EmittedInv(r) ==
  /\ runs[r].state = "none" => runs[r].emitted = 0
  /\ runs[r].state = "live" => runs[r].emitted < RunEvents
  /\ Over(r) => runs[r].emitted = RunEvents

\* History and subscription follow one another without a gap.
RunInv(t) ==
  /\ pc[t] \in {"new", "queued", "admit", "start"} => runs[t].state = "none"
  /\ pc[t] \in {"new", "queued", "admit", "start", "watch"} => Unwatched(t)
  /\ pc[t] \in {"replay", "forward"} => runs[t].subscribed /\ runs[t].fence <= runs[t].emitted
  /\ pc[t] = "replay" =>
       /\ runs[t].backfill = <<>> /\ Pos(runs[t].queue, runs[t].fence)
       /\ runs[t].fence + Len(runs[t].queue) = runs[t].emitted
  /\ pc[t] = "forward" =>
       /\ Delivered(t) \in Nat /\ Pos(runs[t].backfill, Delivered(t))
       /\ Pos(runs[t].queue, Delivered(t) + Len(runs[t].backfill))

RunEventsOf(t) == Published("turn_event", t)
AdmissionOf(t) == Published("turn_admitted", t)
ScopeEndOf(t) == Published("scope_event", t)
Number(i) == events[i][3]

Complete(t, n) == \A k \in 1..n : \E i \in RunEventsOf(t) : Number(i) = k

\* The order that RunEventsInOrder states.
OrderInv(t) ==
  /\ \A i, j \in RunEventsOf(t) : i < j => Number(i) < Number(j)
  /\ \A i \in RunEventsOf(t) : \E a \in AdmissionOf(t) : a < i
  /\ \A i \in RunEventsOf(t), j \in ScopeEndOf(t) : i < j
  /\ \A u \in Turn : t < u => \A x \in AdmissionOf(t), y \in AdmissionOf(u) : x < y

\* What the stream holds of a turn in each phase.
PhaseInv(t) ==
  /\ RunEventsOf(t) # {} => pc[t] \in {"forward", "advance", "over"}
  /\ pc[t] = "forward" => \A i \in RunEventsOf(t) : Number(i) <= Delivered(t)
  /\ ~stop /\ pc[t] = "forward" => Complete(t, Delivered(t))
  /\ ~stop /\ (t \in eventsDone \/ advancer = t) => Complete(t, RunEvents)
  /\ t \in eventsDone \/ advancer = t => pc[t] \in {"advance", "over"}
  /\ ~hubClosed /\ pc[t] \in {"start", "watch", "replay", "forward"} => AdmissionOf(t) # {}
  /\ AdmissionOf(t) # {} =>
       /\ pc[t] \in {"start", "reject", "watch", "replay", "forward", "advance", "over"}
       /\ \A u \in Turn : u < t => pc[u] \notin {"new", "queued", "admit"}
  /\ ScopeEndOf(t) # {} => t \in eventsDone

ServerType == TurnType /\ AgentType /\ StreamType
StreamInv == \A t \in Turn : OrderInv(t) /\ PhaseInv(t)

\* The inductive invariant.
ServerInv ==
  /\ ServerType /\ QueueInv
  /\ (\A r \in Run : EmittedInv(r)) /\ (\A t \in Turn : RunInv(t))
  /\ StreamInv
-----------------------------------------------------------------------------
(* Types. *)

LEMMA TurnFacts ==
  /\ Turn \subseteq Nat /\ Turn \subseteq Run /\ None \notin Turn /\ RunEvents \in Nat /\ RunEvents > 0
  /\ QueueLimit \in Nat /\ QueueLimit > 0 /\ MaxFacts \in Nat
  /\ \A t \in Turn : t \notin Continuation
  BY ServerAssumption DEF Turn, Run

\* An event of a turn as the stream holds it.
LEMMA SessionEvents ==
  /\ \A t \in Turn, type \in {"turn_queued", "turn_admitted", "turn_rejected", "turn_cancelled"} :
       newSessionLifecycleEvent(t, type) \in SessionEvent
  /\ \A t \in Turn, n \in 1..RunEvents : newSessionRuntimeEvent(t, n) \in SessionEvent
  /\ \A e \in Steps \X Run : newSessionScopeEvent(e) \in SessionEvent
  /\ \A type \in {"system", "subagent_permission", "subagent_confirmation"}, n \in 1..MaxFacts :
       <<type, None, n>> \in SessionEvent
  BY DEF SessionEvent, newSessionLifecycleEvent, newSessionRuntimeEvent, newSessionScopeEvent, Steps

\* The number of a run's event.
LEMMA EventNumber ==
  ASSUME NEW e \in SessionEvent, e[1] = "turn_event"
  PROVE  e[2] \in Turn /\ e[3] \in 1..RunEvents
  BY DEF SessionEvent

\* publish appends, unless the hub is closed.
LEMMA PublishStep ==
  ASSUME NEW e, publish(e)
  PROVE  /\ hubClosed' = hubClosed
         /\ \/ hubClosed /\ events' = events
            \/ ~hubClosed /\ events' = Append(events, e)
  BY DEF publish, hub, subscriber

LEMMA PublishType ==
  ASSUME StreamType, NEW e \in SessionEvent, publish(e), stop' = stop
  PROVE  StreamType'
  BY PublishStep DEF StreamType

\* The hub's other operations publish nothing.
LEMMA StreamSilent ==
  ASSUME NEW c \in Client, Stream(c) PROVE UNCHANGED <<events, hubClosed>>
  BY DEF Stream, subscribe, deliver, wake, streamSessionEvents, disconnect

\* One turn in another phase.
LEMMA PhaseType ==
  ASSUME TurnType, NEW t \in Turn, NEW p \in Phase, At(t, p)
  PROVE  pc' \in [Turn -> Phase] /\ pc'[t] = p /\ \A u \in Turn : u # t => pc'[u] = pc[u]
  BY DEF TurnType, At

\* A run's record in another state.
LEMMA RunType ==
  ASSUME AgentType, NEW r \in Run
  PROVE  /\ runs[r] \in RunRecord /\ runs[r].emitted \in 0..RunEvents /\ runs[r].fence \in 0..RunEvents
         /\ runs[r].backfill \in Seq(Nat) /\ runs[r].queue \in Seq(Nat) /\ runs[r].subscribed \in BOOLEAN
         /\ runs[r].state \in {"none", "live", "terminal", "done", "finished"}
  BY DEF AgentType, RunRecord

LEMMA EnqueueType ==
  ASSUME AgentType, NEW f \in Feed, NEW e \in FeedItem, Enqueue(f, e),
         f = "scope" => e \in Steps \X Run, f # "scope" => e \in 1..MaxFacts
  PROVE  /\ feed' \in [Feed -> Seq(FeedItem)] /\ feed'["scope"] \in Seq(Steps \X Run)
         /\ \A g \in Feed \ {"scope"} : feed'[g] \in Seq(1..MaxFacts)
<1>1. "scope" \in Feed BY DEF Feed
<1>2. \A g \in Feed : feed'[g] = IF g = f THEN Append(feed[f], e) ELSE feed[g]
  BY DEF Enqueue, AgentType
<1>3. feed' \in [Feed -> Seq(FeedItem)] BY DEF Enqueue, AgentType
<1>4. feed'["scope"] \in Seq(Steps \X Run)
  <2>1. feed["scope"] \in Seq(Steps \X Run) BY DEF AgentType
  <2>2. CASE f = "scope"
    <3>1. feed'["scope"] = Append(feed["scope"], e) BY <1>1, <1>2, <2>2
    <3> HIDE DEF Steps
    <3> QED BY <2>1, <2>2, <3>1
  <2>3. CASE f # "scope" BY <1>1, <1>2, <2>1, <2>3
  <2> QED BY <2>2, <2>3
<1>5. ASSUME NEW g \in Feed \ {"scope"} PROVE feed'[g] \in Seq(1..MaxFacts)
  <2>1. feed[g] \in Seq(1..MaxFacts) BY DEF AgentType
  <2>2. CASE f = g
    <3>1. feed'[g] = Append(feed[g], e) /\ e \in 1..MaxFacts BY <1>2, <2>2
    <3> QED BY <2>1, <3>1
  <2>3. CASE f # g BY <1>2, <2>1, <2>3
  <2> QED BY <2>2, <2>3
<1> QED BY <1>3, <1>4, <1>5

\* A forwarder takes an event of the right type from its feed.
LEMMA ForwardType ==
  ASSUME AgentType, NEW f \in Feed, NEW e, Forward(f, e)
  PROVE  /\ AgentType'
         /\ f = "scope" => Head(feed[f]) \in Steps \X Run
         /\ f # "scope" => Head(feed[f]) \in 1..MaxFacts
<1>0. feed[f] # <<>> /\ feed' = [feed EXCEPT ![f] = Tail(feed[f])] /\ UNCHANGED <<runs, active, scope, facts>>
  BY DEF Forward
<1>1. "scope" \in Feed BY DEF Feed
<1>2. \A g \in Feed : feed'[g] = IF g = f THEN Tail(feed[f]) ELSE feed[g]
  BY <1>0 DEF AgentType
<1>3. CASE f = "scope"
  <2>1. feed[f] \in Seq(Steps \X Run) BY <1>3 DEF AgentType
  <2>2. Head(feed[f]) \in Steps \X Run /\ Tail(feed[f]) \in Seq(Steps \X Run)
    BY <1>0, <2>1, HeadTailProperties
  <2>3. Tail(feed[f]) \in Seq(FeedItem) BY <1>0, HeadTailProperties DEF AgentType
  <2>4. feed' \in [Feed -> Seq(FeedItem)] BY <1>0, <2>3 DEF AgentType
  <2> QED BY <1>0, <1>2, <1>3, <2>2, <2>4 DEF AgentType
<1>4. CASE f # "scope"
  <2>1. feed[f] \in Seq(1..MaxFacts) BY <1>4 DEF AgentType
  <2>2. Head(feed[f]) \in 1..MaxFacts /\ Tail(feed[f]) \in Seq(1..MaxFacts)
    BY <1>0, <2>1, HeadTailProperties
  <2>3. Tail(feed[f]) \in Seq(FeedItem) BY <1>0, HeadTailProperties DEF AgentType
  <2>4. feed' \in [Feed -> Seq(FeedItem)] BY <1>0, <2>3 DEF AgentType
  <2>5. \A g \in Feed \ {"scope"} : feed'[g] \in Seq(1..MaxFacts) BY <1>2, <2>2 DEF AgentType
  <2>6. feed'["scope"] = feed["scope"] BY <1>1, <1>2, <1>4
  <2> QED BY <1>0, <1>4, <2>2, <2>4, <2>5, <2>6 DEF AgentType
<1> QED BY <1>3, <1>4

\* A sequence without its element at i.
LEMMA RemoveAtFacts ==
  ASSUME NEW S, NEW s \in Seq(S), NEW i \in 1..Len(s)
  PROVE  /\ RemoveAt(s, i) \in Seq(S) /\ Len(RemoveAt(s, i)) = Len(s) - 1
         /\ \A j \in 1..(Len(s) - 1) : RemoveAt(s, i)[j] = IF j < i THEN s[j] ELSE s[j + 1]
<1> DEFINE a == SubSeq(s, 1, i - 1)
           b == SubSeq(s, i + 1, Len(s))
<1>1. Len(s) \in Nat /\ i \in Nat /\ i <= Len(s) /\ i >= 1 OBVIOUS
<1>2. a \in Seq(S) /\ Len(a) = i - 1 /\ \A j \in 1..(i - 1) : a[j] = s[j]
  BY <1>1
<1>3. b \in Seq(S) /\ Len(b) = Len(s) - i /\ \A j \in 1..(Len(s) - i) : b[j] = s[i + j]
  BY <1>1
<1>4. RemoveAt(s, i) = a \o b BY DEF RemoveAt
<1> HIDE DEF a, b
<1>5. a \o b \in Seq(S) /\ Len(a \o b) = Len(a) + Len(b) BY <1>2, <1>3, ConcatProperties
<1>6. \A j \in 1..(Len(a) + Len(b)) : (a \o b)[j] = IF j <= Len(a) THEN a[j] ELSE b[j - Len(a)]
  BY <1>2, <1>3, ConcatProperties
<1>7. ASSUME NEW j \in 1..(Len(s) - 1) PROVE RemoveAt(s, i)[j] = IF j < i THEN s[j] ELSE s[j + 1]
  <2>1. CASE j < i BY <1>1, <1>2, <1>3, <1>4, <1>6, <2>1
  <2>2. CASE ~(j < i)
    <3>1. j - Len(a) \in 1..(Len(s) - i) BY <1>1, <1>2, <2>2
    <3>2. b[j - Len(a)] = s[i + (j - Len(a))] BY <1>3, <3>1
    <3>3. i + (j - Len(a)) = j + 1 BY <1>1, <1>2
    <3>4. (a \o b)[j] = b[j - Len(a)] BY <1>1, <1>2, <1>3, <1>6, <2>2
    <3> QED BY <1>4, <2>2, <3>2, <3>3, <3>4
  <2> QED BY <2>1, <2>2
<1>8. RemoveAt(s, i) \in Seq(S) BY <1>4, <1>5
<1>9. Len(RemoveAt(s, i)) = Len(s) - 1
  <2>1. Len(a) + Len(b) = Len(s) - 1 BY <1>1, <1>2, <1>3
  <2> QED BY <1>4, <1>5, <2>1
<1> QED BY <1>7, <1>8, <1>9

LEMMA MinOne ==
  ASSUME NEW S, S \subseteq Nat, 1 \in S, \A i \in S : 1 <= i
  PROVE  Min(S) = 1
<1>1. \A x \in S : (\A y \in S : x =< y) => x = 1
  <2> SUFFICES ASSUME NEW x \in S, \A y \in S : x =< y PROVE x = 1 OBVIOUS
  <2>1. x =< 1 /\ 1 <= x /\ x \in Nat OBVIOUS
  <2> QED BY <2>1
<1>2. \E x \in S : \A y \in S : x =< y OBVIOUS
<1> QED BY <1>1, <1>2, Zenon DEF Min

\* advanceSession runs on the turn that is served, and finds the first pending
\* turn unresolved.
LEMMA AdvanceStep ==
  ASSUME ServerType, QueueInv, NEW t \in Turn, advanceSession(t)
  PROVE  /\ pc[t] = "advance" /\ activeTurn = t
         /\ \/ /\ stop /\ activeTurn' = None /\ pendingTurns' = <<>> /\ resolved' = ResolvedAtStop
               /\ pc' = [u \in Turn |-> IF u = t \/ Contains(pendingTurns, u) THEN "over" ELSE pc[u]]
               /\ Unwind
            \/ /\ ~stop /\ pendingTurns = <<>> /\ activeTurn' = None /\ pendingTurns' = <<>>
               /\ At(t, "over") /\ Unwind /\ UNCHANGED resolved
            \/ /\ ~stop /\ Len(pendingTurns) > 0 /\ activeTurn' = pendingTurns[1]
               /\ pendingTurns' = Tail(pendingTurns)
               /\ pendingTurns[1] \in Turn /\ pc[pendingTurns[1]] = "queued"
               /\ pc' = [pc EXCEPT ![t] = "over", ![pendingTurns[1]] = "admit"]
               /\ UNCHANGED <<resolved, advancer, eventsDone>>
<1>1. pc[t] = "advance" /\ activeTurn = t BY DEF advanceSession, QueueInv, Serving
<1>2. pendingTurns \in Seq(Turn) /\ Len(pendingTurns) \in Nat BY DEF ServerType, TurnType
<1>3. \A i \in 1..Len(pendingTurns) : pendingTurns[i] \in Turn /\ pc[pendingTurns[i]] = "queued"
  BY <1>2 DEF QueueInv
<1>4. Candidates = 1..Len(pendingTurns) BY <1>2, <1>3 DEF Candidates, QueueInv
<1>5. CASE stop BY <1>1, <1>5 DEF advanceSession
<1>6. CASE ~stop /\ Len(pendingTurns) = 0
  <2>1. FirstCandidate = 0 BY <1>4, <1>6 DEF FirstCandidate
  <2>2. pendingTurns = <<>> BY <1>2, <1>6, EmptySeq
  <2> QED BY <1>1, <1>6, <2>1, <2>2 DEF advanceSession
<1>7. CASE ~stop /\ Len(pendingTurns) > 0
  <2>1. 1 \in Candidates /\ \A i \in Candidates : 1 <= i BY <1>2, <1>4, <1>7
  <2>2. Candidates \subseteq Nat BY <1>4
  <2>3. Min(Candidates) = 1 BY <2>1, <2>2, MinOne
  <2>4. FirstCandidate = 1 BY <2>1, <2>3 DEF FirstCandidate
  <2>5. SubSeq(pendingTurns, 1 + 1, Len(pendingTurns)) = Tail(pendingTurns)
    <3>1. pendingTurns # <<>> BY <1>2, <1>7, EmptySeq
    <3> QED BY <1>2, <3>1, TailIsSubSeq
  <2>6. 1 \in 1..Len(pendingTurns) BY <1>2, <1>7
  <2> QED BY <1>1, <1>3, <1>7, <2>4, <2>5, <2>6, SMTT(20) DEF advanceSession
<1> QED BY <1>2, <1>5, <1>6, <1>7

(* Each step keeps the types. *)

LEMMA SubmitType == ASSUME ServerType, NEW t \in Turn, submitTurn(t) PROVE ServerType'
<1>1. UNCHANGED <<hub, resolved, advancer, eventsDone, agent, stop>> BY DEF submitTurn
<1>2. AgentType' /\ StreamType' BY <1>1 DEF ServerType, AgentType, StreamType, agent, hub
<1>3. \E p \in {"admit", "queued", "refused"} : At(t, p) BY DEF submitTurn
<1>4. pc' \in [Turn -> Phase] BY <1>3, PhaseType DEF ServerType, Phase
<1>5. activeTurn' \in Turn \cup {None} /\ pendingTurns' \in Seq(Turn) /\ announce' \subseteq Turn
  BY DEF submitTurn, ServerType, TurnType
<1> QED BY <1>1, <1>2, <1>4, <1>5 DEF ServerType, TurnType

LEMMA AnnounceQueuedType == ASSUME ServerType, NEW t \in Turn, AnnounceQueued(t) PROVE ServerType'
<1>1. UNCHANGED <<pc, resolved, activeTurn, pendingTurns, advancer, eventsDone, agent, stop>>
      /\ announce' \subseteq Turn
  BY DEF AnnounceQueued, ServerType, TurnType
<1>2. StreamType' BY <1>1, SessionEvents, PublishType DEF AnnounceQueued, ServerType
<1> QED BY <1>1, <1>2 DEF ServerType, TurnType, AgentType, agent

LEMMA AnnounceAdmittedType == ASSUME ServerType, NEW t \in Turn, AnnounceAdmitted(t) PROVE ServerType'
<1>1. UNCHANGED <<resolved, activeTurn, pendingTurns, announce, advancer, eventsDone, agent, stop>>
  BY DEF AnnounceAdmitted
<1>2. StreamType' BY <1>1, SessionEvents, PublishType DEF AnnounceAdmitted, ServerType
<1>3. pc' \in [Turn -> Phase] BY PhaseType DEF AnnounceAdmitted, ServerType, Phase
<1> QED BY <1>1, <1>2, <1>3 DEF ServerType, TurnType, AgentType, agent

LEMMA AnnounceRejectedType == ASSUME ServerType, NEW t \in Turn, AnnounceRejected(t) PROVE ServerType'
<1>1. UNCHANGED <<resolved, activeTurn, pendingTurns, announce, advancer, eventsDone, agent, stop>>
  BY DEF AnnounceRejected
<1>2. StreamType' BY <1>1, SessionEvents, PublishType DEF AnnounceRejected, ServerType
<1>3. pc' \in [Turn -> Phase] BY PhaseType DEF AnnounceRejected, ServerType, Phase
<1> QED BY <1>1, <1>2, <1>3 DEF ServerType, TurnType, AgentType, agent

LEMMA AnnounceCancelledType == ASSUME ServerType, NEW t \in Turn, AnnounceCancelled(t) PROVE ServerType'
<1>1. UNCHANGED <<activeTurn, pendingTurns, announce, advancer, eventsDone, agent, stop>>
  BY DEF AnnounceCancelled
<1>2. StreamType' BY <1>1, SessionEvents, PublishType DEF AnnounceCancelled, ServerType
<1>3. pc' \in [Turn -> Phase] BY PhaseType DEF AnnounceCancelled, ServerType, Phase
<1>4. resolved' \in [Turn -> {"none", "run", "error"}] BY DEF AnnounceCancelled, ServerType, TurnType
<1> QED BY <1>1, <1>2, <1>3, <1>4 DEF ServerType, TurnType, AgentType, agent

LEMMA UnwindType ==
  ASSUME TurnType, Unwind PROVE advancer' \in Turn \cup {None} /\ eventsDone' \subseteq Turn
  BY TurnFacts DEF TurnType, Unwind

LEMMA StartType == ASSUME ServerType, NEW t \in Turn, startAcceptedTurn(t) PROVE ServerType'
<1>1. UNCHANGED <<hub, activeTurn, pendingTurns, announce, scope, feed, facts, stop>>
  BY DEF startAcceptedTurn
<1>2. StreamType' BY <1>1 DEF ServerType, StreamType, hub
<1>3. \E p \in {"watch", "reject"} : At(t, p) BY DEF startAcceptedTurn
<1>4. pc' \in [Turn -> Phase] BY <1>3, PhaseType DEF ServerType, Phase
<1>5. resolved' \in [Turn -> {"none", "run", "error"}] BY DEF startAcceptedTurn, ServerType, TurnType
<1>6. advancer' \in Turn \cup {None} /\ eventsDone' \subseteq Turn
  BY UnwindType DEF startAcceptedTurn, ServerType, TurnType
<1>7. active' \in Run \cup {None} BY TurnFacts DEF startAcceptedTurn, ServerType, AgentType
<1>8. runs' \in [Run -> RunRecord]
  <2> DEFINE s == IF RunEvents = 1 THEN "terminal" ELSE "live"
  <2>1. 1 \in 0..RunEvents /\ t \in Run BY TurnFacts
  <2>2. runs[t] \in RunRecord BY <2>1 DEF ServerType, AgentType
  <2>3. \/ runs' = runs
        \/ runs' = [runs EXCEPT ![t] = [runs[t] EXCEPT !.state = s, !.emitted = 1]]
    BY DEF startAcceptedTurn
  <2>4. s \in {"none", "live", "terminal", "done", "finished"} OBVIOUS
  <2> HIDE DEF s
  <2>5. [runs[t] EXCEPT !.state = s, !.emitted = 1] \in RunRecord
    BY <2>1, <2>2, <2>4 DEF RunRecord
  <2> QED BY <2>1, <2>3, <2>5 DEF ServerType, AgentType
<1> QED BY <1>1, <1>2, <1>4, <1>5, <1>6, <1>7, <1>8 DEF ServerType, TurnType, AgentType

LEMMA EventsBetweenFacts ==
  ASSUME NEW n \in Nat
  PROVE  /\ EventsBetween(0, n) \in Seq(Nat) /\ Len(EventsBetween(0, n)) = n
         /\ Pos(EventsBetween(0, n), 0)
  BY DEF EventsBetween, Pos

LEMMA WatchSubscribeType == ASSUME ServerType, NEW t \in Turn, WatchSubscribe(t) PROVE ServerType'
<1>1. UNCHANGED <<hub, resolved, activeTurn, pendingTurns, announce, advancer, eventsDone,
                  active, scope, feed, facts, stop>>
  BY DEF WatchSubscribe
<1>2. StreamType' BY <1>1 DEF ServerType, StreamType, hub
<1>3. pc' \in [Turn -> Phase] BY PhaseType DEF WatchSubscribe, ServerType, Phase
<1>4. runs' \in [Run -> RunRecord]
  <2>1. t \in Run /\ runs \in [Run -> RunRecord] /\ runs[t] \in RunRecord
    BY TurnFacts DEF ServerType, AgentType
  <2>2. Subscribe(t) \in RunRecord BY <2>1 DEF Subscribe, RunRecord
  <2>3. runs' = [runs EXCEPT ![t] = Subscribe(t)] BY DEF WatchSubscribe
  <2> QED BY <2>1, <2>2, <2>3
<1> QED BY <1>1, <1>2, <1>3, <1>4 DEF ServerType, TurnType, AgentType

LEMMA WatchReplayType == ASSUME ServerType, NEW t \in Turn, WatchReplay(t) PROVE ServerType'
<1>1. UNCHANGED <<hub, resolved, activeTurn, pendingTurns, announce, advancer, eventsDone,
                  active, scope, feed, facts, stop>>
  BY DEF WatchReplay
<1>2. StreamType' BY <1>1 DEF ServerType, StreamType, hub
<1>3. pc' \in [Turn -> Phase] BY PhaseType DEF WatchReplay, ServerType, Phase
<1>4. runs' \in [Run -> RunRecord]
  <2>1. t \in Run BY TurnFacts
  <2>2. Retained(t) \in Seq(Nat) BY <2>1, RunType, EventsBetweenFacts DEF Retained, ServerType
  <2>3. runs' = [runs EXCEPT ![t] = [runs[t] EXCEPT !.backfill = Retained(t)]]
    BY DEF WatchReplay
  <2>4. [runs[t] EXCEPT !.backfill = Retained(t)] \in RunRecord
    <3>1. runs[t] \in RunRecord BY <2>1 DEF ServerType, AgentType
    <3> QED BY <2>2, <3>1 DEF RunRecord
  <2> QED BY <2>1, <2>3, <2>4 DEF ServerType, AgentType
<1> QED BY <1>1, <1>2, <1>3, <1>4 DEF ServerType, TurnType, AgentType

LEMMA WatchAcceptedType ==
  ASSUME ServerType, QueueInv, NEW t \in Turn, RunInv(t), watchAcceptedTurn(t)
  PROVE  ServerType'
<1>1. /\ UNCHANGED <<resolved, activeTurn, pendingTurns, announce, eventsDone, active, scope, feed, facts, stop>>
      /\ pc[t] = "forward" /\ t \in Run
  BY TurnFacts DEF watchAcceptedTurn
<1>2. /\ runs[t] \in RunRecord /\ runs[t].backfill \in Seq(Nat) /\ runs[t].queue \in Seq(Nat)
      /\ runs[t].emitted \in 0..RunEvents /\ RunEvents \in Nat
  BY <1>1, RunType, TurnFacts DEF ServerType
<1>3. Delivered(t) \in Nat /\ Pos(runs[t].backfill, Delivered(t))
      /\ Pos(runs[t].queue, Delivered(t) + Len(runs[t].backfill))
  BY <1>1 DEF RunInv
<1>4. CASE /\ runs[t].backfill # <<>> /\ publish(newSessionRuntimeEvent(t, Head(runs[t].backfill)))
           /\ runs' = [runs EXCEPT ![t].backfill = Tail(@)] /\ UNCHANGED <<pc, advancer>>
  <2>1. Head(runs[t].backfill) = Delivered(t) + 1 /\ Tail(runs[t].backfill) \in Seq(Nat)
        /\ Len(runs[t].backfill) > 0
    BY <1>2, <1>3, <1>4, PosTail
  <2>2. Head(runs[t].backfill) \in 1..RunEvents
    <3> DEFINE b == Len(runs[t].backfill)  q == Len(runs[t].queue)  n == runs[t].emitted
    <3>1. b \in Nat /\ q \in Nat /\ n \in Nat /\ n <= RunEvents /\ b > 0 BY <1>2, <2>1, SMTT(20)
    <3>2. Delivered(t) = n - (b + q) BY DEF Delivered
    <3> HIDE DEF b, q, n
    <3> QED BY <1>2, <1>3, <2>1, <3>1, <3>2, SMTT(20)
  <2>3. StreamType' BY <1>1, <1>4, <2>2, SessionEvents, PublishType DEF ServerType
  <2>4. [runs[t] EXCEPT !.backfill = Tail(runs[t].backfill)] \in RunRecord BY <1>2, <2>1 DEF RunRecord
  <2>5. runs' = [runs EXCEPT ![t] = [runs[t] EXCEPT !.backfill = Tail(runs[t].backfill)]] BY <1>4
  <2>6. runs' \in [Run -> RunRecord] BY <1>1, <2>4, <2>5 DEF ServerType, AgentType
  <2> QED BY <1>1, <1>4, <2>3, <2>6 DEF ServerType, TurnType, AgentType
<1>5. CASE /\ runs[t].backfill = <<>> /\ runs[t].queue # <<>>
           /\ publish(newSessionRuntimeEvent(t, Head(runs[t].queue)))
           /\ runs' = [runs EXCEPT ![t].queue = Tail(@)] /\ UNCHANGED <<pc, advancer>>
  <2>0. Delivered(t) + Len(runs[t].backfill) = Delivered(t) BY <1>3, <1>5
  <2>1. Head(runs[t].queue) = Delivered(t) + 1 /\ Tail(runs[t].queue) \in Seq(Nat)
        /\ Len(runs[t].queue) > 0
    BY <1>2, <1>3, <1>5, <2>0, PosTail
  <2>2. Head(runs[t].queue) \in 1..RunEvents
    <3> DEFINE b == Len(runs[t].backfill)  q == Len(runs[t].queue)  n == runs[t].emitted
    <3>1. b \in Nat /\ q \in Nat /\ n \in Nat /\ n <= RunEvents /\ q > 0 BY <1>2, <2>1, SMTT(20)
    <3>2. Delivered(t) = n - (b + q) BY DEF Delivered
    <3> HIDE DEF b, q, n
    <3> QED BY <1>2, <1>3, <2>1, <3>1, <3>2, SMTT(20)
  <2>3. StreamType' BY <1>1, <1>5, <2>2, SessionEvents, PublishType DEF ServerType
  <2>4. [runs[t] EXCEPT !.queue = Tail(runs[t].queue)] \in RunRecord BY <1>2, <2>1 DEF RunRecord
  <2>5. runs' = [runs EXCEPT ![t] = [runs[t] EXCEPT !.queue = Tail(runs[t].queue)]] BY <1>5
  <2>6. runs' \in [Run -> RunRecord] BY <1>1, <2>4, <2>5 DEF ServerType, AgentType
  <2> QED BY <1>1, <1>5, <2>3, <2>6 DEF ServerType, TurnType, AgentType
<1>6. CASE runs[t].backfill = <<>> /\ Closed(t) /\ At(t, "advance") /\ advancer' = t /\ UNCHANGED <<hub, runs>>
  <2>1. pc' \in [Turn -> Phase] BY <1>6, PhaseType DEF ServerType, Phase
  <2> QED BY <1>1, <1>6, <2>1 DEF ServerType, TurnType, AgentType, StreamType, hub
<1> QED BY <1>4, <1>5, <1>6 DEF watchAcceptedTurn

LEMMA AdvanceType == ASSUME ServerType, QueueInv, NEW t \in Turn, advanceSession(t) PROVE ServerType'
<1>1. UNCHANGED <<hub, announce, agent, stop>> BY DEF advanceSession
<1>2. AgentType' /\ StreamType' BY <1>1 DEF ServerType, AgentType, StreamType, agent, hub
<1>3. pc \in [Turn -> Phase] /\ resolved \in [Turn -> {"none", "run", "error"}] /\ pendingTurns \in Seq(Turn)
      /\ advancer \in Turn \cup {None} /\ eventsDone \subseteq Turn /\ {"over", "admit"} \subseteq Phase
  BY DEF ServerType, TurnType, Phase
<1>4. Unwind => advancer' \in Turn \cup {None} /\ eventsDone' \subseteq Turn
  BY UnwindType DEF ServerType
<1>5. ResolvedAtStop \in [Turn -> {"none", "run", "error"}] BY <1>3 DEF ResolvedAtStop
<1>6. Len(pendingTurns) > 0 => Tail(pendingTurns) \in Seq(Turn)
  BY <1>3, HeadTailProperties, EmptySeq
<1>7. TurnType'
  <2>1. pc' \in [Turn -> Phase] BY <1>3, AdvanceStep DEF At
  <2>2. resolved' \in [Turn -> {"none", "run", "error"}] BY <1>3, <1>5, AdvanceStep
  <2>3. activeTurn' \in Turn \cup {None} /\ pendingTurns' \in Seq(Turn)
    BY <1>3, <1>6, AdvanceStep, EmptySeq
  <2>4. advancer' \in Turn \cup {None} /\ eventsDone' \subseteq Turn BY <1>3, <1>4, AdvanceStep
  <2> QED BY <1>1, <2>1, <2>2, <2>3, <2>4 DEF ServerType, TurnType
<1> QED BY <1>2, <1>7 DEF ServerType

LEMMA CancelType == ASSUME ServerType, NEW t \in Turn, cancelQueuedTurn(t) PROVE ServerType'
<1>1. UNCHANGED <<hub, resolved, activeTurn, announce, advancer, eventsDone, agent, stop>>
  BY DEF cancelQueuedTurn
<1>2. AgentType' /\ StreamType' BY <1>1 DEF ServerType, AgentType, StreamType, agent, hub
<1>3. pc' \in [Turn -> Phase] BY PhaseType DEF cancelQueuedTurn, ServerType, Phase
<1>4. pendingTurns' \in Seq(Turn) BY RemoveAtFacts DEF cancelQueuedTurn, ServerType, TurnType
<1> QED BY <1>1, <1>2, <1>3, <1>4 DEF ServerType, TurnType

LEMMA RunStepType ==
  ASSUME ServerType, NEW r \in Run, EmittedInv(r), RunStep(r)
  PROVE  ServerType'
<1>1. UNCHANGED <<hub, server, scope, feed, facts, stop>>
  BY DEF RunStep, transition, markEffectsDone, unregister
<1>2. TurnType' /\ StreamType' BY <1>1 DEF ServerType, TurnType, StreamType, server, hub
<1>3. /\ runs[r] \in RunRecord /\ runs[r].queue \in Seq(Nat) /\ runs[r].emitted \in 0..RunEvents
      /\ RunEvents \in Nat
  BY RunType, TurnFacts DEF ServerType
<1>4. active' \in Run \cup {None}
  BY DEF RunStep, transition, markEffectsDone, unregister, ServerType, AgentType
<1>5. CASE transition(r)
  <2> DEFINE n == runs[r].emitted + 1
             s == IF n = RunEvents THEN "terminal" ELSE "live"
             q == IF runs[r].subscribed THEN Append(runs[r].queue, n) ELSE runs[r].queue
  <2>1. n \in 0..RunEvents /\ n \in Nat BY <1>3, <1>5 DEF EmittedInv, transition
  <2>2. s \in {"none", "live", "terminal", "done", "finished"} /\ q \in Seq(Nat) BY <1>3, <2>1
  <2>3. runs' = [runs EXCEPT ![r] = [runs[r] EXCEPT !.emitted = n, !.state = s, !.queue = q]]
    BY <1>5 DEF transition
  <2> HIDE DEF n, s, q
  <2>4. [runs[r] EXCEPT !.emitted = n, !.state = s, !.queue = q] \in RunRecord
    BY <1>3, <2>1, <2>2 DEF RunRecord
  <2> QED BY <1>1, <1>2, <1>4, <2>3, <2>4 DEF ServerType, AgentType
<1>6. CASE markEffectsDone(r) \/ unregister(r)
  <2>1. PICK s \in {"done", "finished"} : runs' = [runs EXCEPT ![r] = [runs[r] EXCEPT !.state = s]]
    BY <1>6 DEF markEffectsDone, unregister
  <2>2. [runs[r] EXCEPT !.state = s] \in RunRecord BY <1>3 DEF RunRecord
  <2> QED BY <1>1, <1>2, <1>4, <2>1, <2>2 DEF ServerType, AgentType
<1> QED BY <1>5, <1>6 DEF RunStep

LEMMA ContinuationType ==
  ASSUME ServerType, NEW r \in Continuation, startContinuation(r)
  PROVE  ServerType'
<1>1. UNCHANGED <<hub, server, scope, feed, facts, stop>> /\ active' = r /\ r \in Run
  BY DEF startContinuation, Run
<1>2. TurnType' /\ StreamType' BY <1>1 DEF ServerType, TurnType, StreamType, server, hub
<1>3. [runs[r] EXCEPT !.state = "live"] \in RunRecord
  <2>1. runs[r] \in RunRecord BY <1>1 DEF ServerType, AgentType
  <2> QED BY <2>1 DEF RunRecord
<1>4. runs' = [runs EXCEPT ![r] = [runs[r] EXCEPT !.state = "live"]] BY DEF startContinuation
<1> QED BY <1>1, <1>2, <1>3, <1>4 DEF ServerType, AgentType

LEMMA ScopeStepType ==
  ASSUME ServerType, NEW t \in Turn, (\E r \in Run : PreEndScope(t, r)) \/ EndScope(t)
  PROVE  ServerType' /\ UNCHANGED <<hub, server, runs, stop>>
<1>1. UNCHANGED <<hub, server, runs, active, facts, stop>> BY DEF PreEndScope, EndScope
<1>2. TurnType' /\ StreamType' BY <1>1 DEF ServerType, TurnType, StreamType, server, hub
<1>3. PICK s \in {"ending", "ended"}, r \in Run, p \in Steps :
        scope' = [scope EXCEPT ![t] = <<s, r>>] /\ Enqueue("scope", <<p, r>>)
  <2>1. ASSUME NEW r \in Run, PreEndScope(t, r)
        PROVE  scope' = [scope EXCEPT ![t] = <<"ending", r>>] /\ Enqueue("scope", <<"pre_end_scope", r>>)
    BY <2>1 DEF PreEndScope
  <2>2. CASE EndScope(t)
    <3>1. scope[t] \in {"ending", "ended"} \X Run
      <4>1. scope[t][1] = "ending" BY <2>2 DEF EndScope
      <4>2. scope[t] \in ({"open"} \X {None}) \cup ({"ending", "ended"} \X Run)
        BY DEF ServerType, AgentType
      <4> QED BY <4>1, <4>2
    <3>2. scope[t][2] \in Run BY <3>1
    <3>3. scope' = [scope EXCEPT ![t] = <<"ended", scope[t][2]>>]
          /\ Enqueue("scope", <<"end_scope", scope[t][2]>>)
      BY <2>2 DEF EndScope
    <3> QED BY <3>2, <3>3 DEF Steps
  <2> QED BY <2>1, <2>2 DEF Steps
<1>4. scope' \in [Turn -> ({"open"} \X {None}) \cup ({"ending", "ended"} \X Run)]
  BY <1>3 DEF ServerType, AgentType
<1>5. /\ feed' \in [Feed -> Seq(FeedItem)] /\ feed'["scope"] \in Seq(Steps \X Run)
      /\ \A g \in Feed \ {"scope"} : feed'[g] \in Seq(1..MaxFacts)
  <2>1. <<p, r>> \in Steps \X Run /\ <<p, r>> \in FeedItem /\ "scope" \in Feed BY DEF FeedItem, Feed
  <2> QED BY <1>3, <2>1, EnqueueType DEF ServerType
<1> QED BY <1>1, <1>2, <1>4, <1>5 DEF ServerType, AgentType

LEMMA FactType == ASSUME ServerType, Facts PROVE ServerType' /\ UNCHANGED <<hub, server, runs, stop>>
<1>1. PICK f \in {"system", "permission", "confirmation"} : Fact(f)
  BY DEF Facts, publishSystemEvent, publishPermission, publishConfirmation
<1>2. UNCHANGED <<hub, server, runs, active, scope, stop>> BY <1>1 DEF Fact
<1>3. TurnType' /\ StreamType' BY <1>2 DEF ServerType, TurnType, StreamType, server, hub
<1>4. facts' = facts + 1 /\ facts < MaxFacts /\ Enqueue(f, facts + 1) BY <1>1 DEF Fact
<1>5. facts' \in 0..MaxFacts /\ facts + 1 \in 1..MaxFacts
  BY <1>4, TurnFacts DEF ServerType, AgentType
<1>6. /\ feed' \in [Feed -> Seq(FeedItem)] /\ feed'["scope"] \in Seq(Steps \X Run)
      /\ \A g \in Feed \ {"scope"} : feed'[g] \in Seq(1..MaxFacts)
  <2>1. facts + 1 \in FeedItem /\ f \in Feed /\ f # "scope" BY <1>5 DEF FeedItem, Feed
  <2> QED BY <1>4, <1>5, <2>1, EnqueueType DEF ServerType
<1> QED BY <1>2, <1>3, <1>5, <1>6 DEF ServerType, AgentType

\* Every forwarder publishes an event of the stream's kind.
LEMMA ForwarderStep ==
  ASSUME ServerType, Forwarders
  PROVE  /\ ServerType' /\ UNCHANGED <<server, runs, stop>>
         /\ \E e \in SessionEvent :
              /\ publish(e) /\ e[1] \notin {"turn_event", "turn_admitted"}
              /\ e[1] = "scope_event" /\ e[2] \in Turn => e[2] \in eventsDone
<1>1. PICK f \in Feed, e \in SessionEvent :
        /\ Forward(f, e) /\ e[1] \notin {"turn_event", "turn_admitted"}
        /\ e[1] = "scope_event" /\ e[2] \in Turn => e[2] \in eventsDone
  <2>1. CASE forwardScopeEvents
    <3>1. Forward("scope", newSessionScopeEvent(Head(feed["scope"]))) /\ "scope" \in Feed
          /\ waitForTriggerTurnEvents(Head(feed["scope"]))
      BY <2>1 DEF forwardScopeEvents, deliverScopeEvents, Feed
    <3>2. Head(feed["scope"]) \in Steps \X Run BY <3>1, ForwardType DEF ServerType
    <3>3. newSessionScopeEvent(Head(feed["scope"])) \in SessionEvent BY <3>2, SessionEvents
    <3>4. newSessionScopeEvent(Head(feed["scope"]))[1] = "scope_event"
          /\ newSessionScopeEvent(Head(feed["scope"]))[2] = Head(feed["scope"])[2]
      BY DEF newSessionScopeEvent
    <3> QED BY <3>1, <3>3, <3>4 DEF waitForTriggerTurnEvents
  <2>2. ASSUME NEW f \in Feed \ {"scope"}, NEW type \in {"system", "subagent_permission", "subagent_confirmation"},
               Forward(f, <<type, None, Head(feed[f])>>)
        PROVE  \E e \in SessionEvent : Forward(f, e) /\ e[1] = type
    <3>1. Head(feed[f]) \in 1..MaxFacts BY <2>2, ForwardType DEF ServerType
    <3> QED BY <2>2, <3>1, SessionEvents
  <2>3. CASE forwardSystemEvents \/ forwardSubagentPermissions \/ forwardSubagentConfirmations
    <3>1. \E f \in Feed \ {"scope"}, type \in {"system", "subagent_permission", "subagent_confirmation"} :
            Forward(f, <<type, None, Head(feed[f])>>)
      BY <2>3 DEF forwardSystemEvents, forwardSubagentPermissions, forwardSubagentConfirmations,
           deliverSystemEvents, deliverPermissions, deliverConfirmations, Feed
    <3> QED BY <2>2, <3>1
  <2> QED BY <2>1, <2>3 DEF Forwarders
<1>2. publish(e) /\ UNCHANGED <<server, runs, active, scope, facts, stop>> BY <1>1 DEF Forward
<1>3. AgentType' BY <1>1, ForwardType DEF ServerType
<1>4. StreamType' BY <1>2, PublishType DEF ServerType
<1>5. TurnType' BY <1>2 DEF ServerType, TurnType, server
<1> QED BY <1>1, <1>2, <1>3, <1>4, <1>5 DEF ServerType

\* A shutdown, the hub's closing and the clients publish nothing.
LEMMA StopStep ==
  ASSUME ServerType, Shutdown \/ CloseHub \/ (\E c \in Client : Stream(c) /\ UNCHANGED <<server, agent, stop>>)
  PROVE  /\ ServerType' /\ UNCHANGED <<server, agent, events>>
         /\ (stop => stop') /\ (hubClosed => hubClosed')
<1>1. CASE Shutdown
  BY <1>1 DEF Shutdown, ServerType, TurnType, AgentType, StreamType, server, agent, hub
<1>2. CASE CloseHub
  BY <1>2 DEF CloseHub, close, ServerType, TurnType, AgentType, StreamType, server, agent
<1>3. ASSUME NEW c \in Client, Stream(c), UNCHANGED <<server, agent, stop>> PROVE UNCHANGED <<events, hubClosed>>
  BY <1>3, StreamSilent
<1>4. CASE \E c \in Client : Stream(c) /\ UNCHANGED <<server, agent, stop>>
  BY <1>3, <1>4 DEF ServerType, TurnType, AgentType, StreamType, server, agent
<1> QED BY <1>1, <1>2, <1>4

LEMMA TypeInit == Init => ServerType
<1> SUFFICES ASSUME Init PROVE ServerType OBVIOUS
<1>1. TurnType BY DEF Init, TurnType, Phase
<1>2. AgentType
  <2>1. newRun \in RunRecord BY TurnFacts DEF newRun, RunRecord
  <2>2. "scope" \in Feed BY DEF Feed
  <2> QED BY <2>1, <2>2, TurnFacts DEF Init, AgentType
<1>3. StreamType
  <2>1. events = <<>> /\ hubClosed = FALSE /\ stop = FALSE BY DEF Init, HubInit
  <2>2. events \in Seq(SessionEvent) BY <2>1
  <2> QED BY <2>1, <2>2 DEF StreamType
<1> QED BY <1>1, <1>2, <1>3 DEF ServerType
-----------------------------------------------------------------------------
(* The turns of the session. *)

\* Names for the parts of the invariant that concern one turn or a pair.
LEMMA QueueFacts ==
  ASSUME ServerType, QueueInv, NEW t \in Turn
  PROVE  /\ pc[t] \in Phase /\ resolved[t] \in {"none", "run", "error"}
         /\ pendingTurns \in Seq(Turn) /\ Len(pendingTurns) \in Nat /\ t \in Nat /\ t # None
         /\ \A i \in 1..Len(pendingTurns) : pendingTurns[i] \in Turn /\ pendingTurns[i] \in Nat
  BY TurnFacts, SMTT(20) DEF ServerType, TurnType

\* The turn that is served goes on: the queue is as it was.
LEMMA ServeMove ==
  ASSUME ServerType, QueueInv, NEW t \in Turn, NEW p \in Serving \ {"admit"},
         pc[t] \in Serving, At(t, p), UNCHANGED <<activeTurn, pendingTurns>>,
         \A u \in Turn : u # t \/ p = "start" => resolved'[u] = resolved[u],
         p = "start" => pc[t] = "admit"
  PROVE  QueueInv'
<1>0. Serving \subseteq Phase /\ "new" \notin Serving /\ "queued" \notin Serving BY DEF Serving, Phase
<1>1. pc'[t] = p /\ \A u \in Turn : u # t => pc'[u] = pc[u]
  BY <1>0, PhaseType DEF ServerType
<1>2. \A u \in Turn : pc'[u] \in Serving <=> activeTurn' = u BY <1>1 DEF QueueInv
<1>3. \A u \in Turn : pc'[u] = "queued" <=> pc[u] = "queued" BY <1>0, <1>1
<1>4. \A u \in Turn : pc'[u] = "new" <=> pc[u] = "new" BY <1>0, <1>1
<1>5. ASSUME NEW u \in Turn, pc'[u] \in {"new", "queued", "admit", "start"} PROVE resolved'[u] = "none"
  BY <1>0, <1>1, <1>5 DEF QueueInv, Serving
<1> QED BY <1>2, <1>3, <1>4, <1>5 DEF QueueInv

LEMMA QueueSame ==
  ASSUME QueueInv, UNCHANGED <<pc, resolved, activeTurn, pendingTurns>> PROVE QueueInv'
  BY DEF QueueInv

\* Clients submit turns in their order, so a new turn comes last.
LEMMA SubmitQueue == ASSUME ServerType, QueueInv, NEW t \in Turn, submitTurn(t) PROVE QueueInv'
<1>0. /\ pc[t] = "new" /\ t \in Nat /\ \A u \in Turn : u \in Nat /\ (u < t => pc[u] # "new")
      /\ UNCHANGED resolved
  <2>1. \A u \in Turn : u \in Nat /\ (u < t => u \in 1..(t - 1)) BY TurnFacts DEF Turn
  <2> QED BY <2>1 DEF submitTurn, Submitted
<1>1. \A u \in Turn : pc[u] # "new" => u < t BY <1>0 DEF QueueInv
<1>2. pendingTurns \in Seq(Turn) /\ Len(pendingTurns) \in Nat /\ QueueLimit \in Nat /\ QueueLimit > 0
      /\ None \notin Turn /\ activeTurn \in Turn \cup {None}
  BY TurnFacts DEF ServerType, TurnType
<1>3. ASSUME NEW p \in {"admit", "queued", "refused"}, At(t, p)
      PROVE  pc'[t] = p /\ \A u \in Turn : u # t => pc'[u] = pc[u]
  BY <1>3, PhaseType DEF ServerType, Phase
<1>4. ASSUME NEW p \in {"admit", "queued", "refused"}, At(t, p), NEW u \in Turn, NEW v \in Turn,
             u < v, pc'[u] = "new"
      PROVE  pc'[v] = "new"
  <2>1. u # t /\ pc[u] = "new" BY <1>3, <1>4
  <2>2. v # t BY <1>0, <1>4, <2>1
  <2> QED BY <1>3, <1>4, <2>1, <2>2 DEF QueueInv
<1>5. ASSUME NEW p \in {"admit", "queued", "refused"}, At(t, p), NEW u \in Turn,
             pc'[u] \in {"new", "queued", "admit", "start"}
      PROVE  resolved'[u] = "none"
  <2>1. resolved[t] = "none" BY <1>0 DEF QueueInv
  <2> QED BY <1>0, <1>3, <1>5, <2>1 DEF QueueInv
<1>6. CASE activeTurn = None /\ activeTurn' = t /\ At(t, "admit") /\ UNCHANGED <<pendingTurns, announce>>
  <2>1. Len(pendingTurns) = 0 BY <1>2, <1>6 DEF QueueInv
  <2>2. \A u \in Turn : pc'[u] \in Serving <=> activeTurn' = u
    BY <1>2, <1>3, <1>6 DEF QueueInv, Serving
  <2>3. \A u \in Turn : pc'[u] # "queued" BY <1>3, <1>6, <2>1 DEF QueueInv
  <2> QED BY <1>2, <1>4, <1>5, <1>6, <2>1, <2>2, <2>3 DEF QueueInv
<1>7. CASE /\ activeTurn # None /\ ~QueueFull /\ pendingTurns' = Append(pendingTurns, t)
           /\ At(t, "queued") /\ UNCHANGED activeTurn
  <2> DEFINE n == Len(pendingTurns)
  <2>1. /\ Len(pendingTurns') = n + 1 /\ pendingTurns'[n + 1] = t /\ n \in Nat
        /\ \A i \in 1..n : pendingTurns'[i] = pendingTurns[i] /\ pendingTurns[i] \in Turn
    BY <1>2, <1>7
  <2>2. \A i \in 1..n : pendingTurns[i] < t
    <3> SUFFICES ASSUME NEW i \in 1..n PROVE pendingTurns[i] < t OBVIOUS
    <3>1. pc[pendingTurns[i]] = "queued" BY <2>1 DEF QueueInv
    <3> QED BY <1>1, <2>1, <3>1
  <2>3. activeTurn \in Turn /\ activeTurn < t
    <3>1. activeTurn \in Turn /\ pc[activeTurn] \in Serving BY <1>2, <1>7 DEF QueueInv
    <3> QED BY <1>1, <3>1 DEF Serving
  <2>4. \A u \in Turn : pc'[u] \in Serving <=> activeTurn' = u
    BY <1>0, <1>3, <1>7, <2>3 DEF QueueInv, Serving
  <2> HIDE DEF n
  <2>5. ASSUME NEW u \in Turn
        PROVE  pc'[u] = "queued" <=> \E i \in 1..Len(pendingTurns') : pendingTurns'[i] = u
    <3>1. CASE u = t BY <1>3, <1>7, <2>1, <3>1
    <3>2. CASE u # t
      <4>1. pc'[u] = pc[u] BY <1>3, <1>7, <3>2
      <4>2. pc[u] = "queued" <=> \E i \in 1..n : pendingTurns[i] = u BY DEF QueueInv, n
      <4>3. (\E i \in 1..n : pendingTurns[i] = u) <=> \E i \in 1..(n + 1) : pendingTurns'[i] = u
        BY <2>1, <3>2
      <4> QED BY <2>1, <4>1, <4>2, <4>3
    <3> QED BY <3>1, <3>2
  <2>6. \A i, j \in 1..n : i < j => pendingTurns[i] < pendingTurns[j] BY DEF QueueInv, n
  <2>7. \A i, j \in 1..Len(pendingTurns') : i < j => pendingTurns'[i] < pendingTurns'[j]
    BY <2>1, <2>2, <2>6
  <2>8. \A i \in 1..n : activeTurn < pendingTurns[i] BY DEF QueueInv, n
  <2>9. \A i \in 1..Len(pendingTurns') : activeTurn' # None /\ activeTurn' < pendingTurns'[i]
    BY <1>7, <2>1, <2>3, <2>8
  <2>10. Len(pendingTurns') <= QueueLimit BY <1>2, <1>7, <2>1 DEF QueueFull, n
  <2> QED BY <1>4, <1>5, <1>7, <2>4, <2>5, <2>7, <2>9, <2>10 DEF QueueInv
<1>8. CASE At(t, "refused") /\ UNCHANGED <<activeTurn, pendingTurns>>
  <2>1. \A u \in Turn : pc'[u] \in Serving <=> activeTurn' = u
    BY <1>0, <1>3, <1>8 DEF QueueInv, Serving
  <2>2. \A u \in Turn : pc'[u] = "queued" <=> pc[u] = "queued" BY <1>0, <1>3, <1>8
  <2> QED BY <1>4, <1>5, <1>8, <2>1, <2>2 DEF QueueInv
<1> QED BY <1>6, <1>7, <1>8 DEF submitTurn

\* A cancelled turn leaves its place in the queue.
LEMMA CancelQueue == ASSUME ServerType, QueueInv, NEW t \in Turn, cancelQueuedTurn(t) PROVE QueueInv'
<1>0. UNCHANGED <<activeTurn, resolved>> /\ At(t, "cancel") BY DEF cancelQueuedTurn
<1>1. PICK k \in 1..Len(pendingTurns) : pendingTurns[k] = t /\ pendingTurns' = RemoveAt(pendingTurns, k)
  BY DEF cancelQueuedTurn, ServerType, TurnType
<1> DEFINE n == Len(pendingTurns)
<1>2. /\ n \in Nat /\ k \in 1..n /\ pendingTurns \in Seq(Turn) /\ QueueLimit \in Nat
      /\ \A i \in 1..n : pendingTurns[i] \in Turn /\ pendingTurns[i] \in Nat
  BY TurnFacts, SMTT(30) DEF ServerType, TurnType
<1>3. /\ Len(pendingTurns') = n - 1
      /\ \A i \in 1..(n - 1) : pendingTurns'[i] = IF i < k THEN pendingTurns[i] ELSE pendingTurns[i + 1]
  BY <1>1, <1>2, RemoveAtFacts
<1>4. pc'[t] = "cancel" /\ \A u \in Turn : u # t => pc'[u] = pc[u]
  BY <1>0, PhaseType DEF ServerType, Phase
<1>5. pc[t] = "queued" BY <1>1 DEF QueueInv
<1>6. /\ \A i, j \in 1..n : i < j => pendingTurns[i] < pendingTurns[j]
      /\ \A i \in 1..n : activeTurn # None /\ activeTurn < pendingTurns[i]
      /\ n <= QueueLimit
  BY DEF QueueInv
<1> HIDE DEF n
<1>7. \A u \in Turn : pc'[u] \in Serving <=> activeTurn' = u
  BY <1>0, <1>4, <1>5 DEF QueueInv, Serving
<1>8. ASSUME NEW u \in Turn
      PROVE  pc'[u] = "queued" <=> \E i \in 1..(n - 1) : pendingTurns'[i] = u
  <2>1. CASE u = t
    <3>1. ASSUME NEW i \in 1..(n - 1) PROVE pendingTurns'[i] # t
      <4>1. CASE i < k BY <1>1, <1>2, <1>3, <1>6, <4>1
      <4>2. CASE ~(i < k)
        <5>1. i + 1 \in 1..n /\ k < i + 1 BY <1>2, <4>2
        <5>2. pendingTurns[k] < pendingTurns[i + 1] BY <1>2, <1>6, <5>1
        <5>3. pendingTurns'[i] = pendingTurns[i + 1] BY <1>3, <4>2
        <5> QED BY <1>1, <1>2, <5>1, <5>2, <5>3
      <4> QED BY <4>1, <4>2
    <3> QED BY <1>4, <2>1, <3>1
  <2>2. CASE u # t
    <3>1. pc'[u] = pc[u] /\ (pc[u] = "queued" <=> \E i \in 1..n : pendingTurns[i] = u)
      BY <1>4, <2>2 DEF QueueInv, n
    <3>2. ASSUME NEW i \in 1..n, pendingTurns[i] = u PROVE \E j \in 1..(n - 1) : pendingTurns'[j] = u
      <4>1. i # k BY <1>1, <2>2, <3>2
      <4>2. CASE i < k
        <5>1. i \in 1..(n - 1) /\ pendingTurns'[i] = pendingTurns[i] BY <1>2, <1>3, <4>2
        <5> QED BY <3>2, <5>1
      <4>3. CASE k < i
        <5>1. i - 1 \in 1..(n - 1) /\ ~(i - 1 < k) /\ (i - 1) + 1 = i BY <1>2, <4>3
        <5>2. pendingTurns'[i - 1] = pendingTurns[i] BY <1>3, <5>1
        <5> QED BY <3>2, <5>1, <5>2
      <4> QED BY <1>2, <4>1, <4>2, <4>3
    <3>3. ASSUME NEW j \in 1..(n - 1), pendingTurns'[j] = u PROVE \E i \in 1..n : pendingTurns[i] = u
      <4>1. j \in 1..n /\ j + 1 \in 1..n BY <1>2
      <4> QED BY <1>3, <3>3, <4>1
    <3> QED BY <3>1, <3>2, <3>3
  <2> QED BY <2>1, <2>2
<1>9. \A i, j \in 1..(n - 1) : i < j => pendingTurns'[i] < pendingTurns'[j]
  <2> SUFFICES ASSUME NEW i \in 1..(n - 1), NEW j \in 1..(n - 1), i < j
               PROVE  pendingTurns'[i] < pendingTurns'[j]
    OBVIOUS
  <2>1. i \in 1..n /\ i + 1 \in 1..n /\ j \in 1..n /\ j + 1 \in 1..n /\ i + 1 < j + 1 /\ i < j + 1
    BY <1>2
  <2> QED BY <1>2, <1>3, <1>6, <2>1
<1>10. \A i \in 1..(n - 1) : activeTurn' # None /\ activeTurn' < pendingTurns'[i]
  <2> SUFFICES ASSUME NEW i \in 1..(n - 1) PROVE activeTurn' # None /\ activeTurn' < pendingTurns'[i]
    OBVIOUS
  <2>1. i \in 1..n /\ i + 1 \in 1..n BY <1>2
  <2> QED BY <1>0, <1>3, <1>6, <2>1
<1>11. \A u, v \in Turn : u < v /\ pc'[u] = "new" => pc'[v] = "new"
  BY <1>4, <1>5 DEF QueueInv
<1>12. \A u \in Turn : pc'[u] \in {"new", "queued", "admit", "start"} => resolved'[u] = "none"
  BY <1>0, <1>4 DEF QueueInv
<1>13. n - 1 <= QueueLimit BY <1>2, <1>6
<1> QED BY <1>3, <1>7, <1>8, <1>9, <1>10, <1>11, <1>12, <1>13 DEF QueueInv

LEMMA CancelledQueue == ASSUME ServerType, QueueInv, NEW t \in Turn, AnnounceCancelled(t) PROVE QueueInv'
<1>1. /\ UNCHANGED <<activeTurn, pendingTurns>> /\ pc[t] = "cancel" /\ At(t, "over")
      /\ \A u \in Turn : u # t => resolved'[u] = resolved[u]
  BY DEF AnnounceCancelled, ServerType, TurnType
<1>2. pc'[t] = "over" /\ \A u \in Turn : u # t => pc'[u] = pc[u]
  BY <1>1, PhaseType DEF ServerType, Phase
<1>3. \A u \in Turn : pc'[u] \in Serving <=> activeTurn' = u BY <1>1, <1>2 DEF QueueInv, Serving
<1>4. \A u \in Turn : (pc'[u] = "queued" <=> pc[u] = "queued") /\ (pc'[u] = "new" <=> pc[u] = "new")
  BY <1>1, <1>2
<1>5. \A u \in Turn : pc'[u] \in {"new", "queued", "admit", "start"} => resolved'[u] = "none"
  BY <1>1, <1>2 DEF QueueInv
<1> QED BY <1>1, <1>3, <1>4, <1>5 DEF QueueInv

\* The next turn is admitted, or nobody is served and nobody waits.
LEMMA AdvanceQueue == ASSUME ServerType, QueueInv, NEW t \in Turn, advanceSession(t) PROVE QueueInv'
<1>0. pc[t] = "advance" /\ activeTurn = t BY AdvanceStep
<1>1. /\ pc \in [Turn -> Phase] /\ pendingTurns \in Seq(Turn) /\ Len(pendingTurns) \in Nat /\ None \notin Turn
      /\ QueueLimit \in Nat
  BY TurnFacts DEF ServerType, TurnType
<1>2. Len(<<>>) = 0 /\ 0 <= QueueLimit BY <1>1
<1>3. CASE /\ stop /\ activeTurn' = None /\ pendingTurns' = <<>> /\ resolved' = ResolvedAtStop
           /\ pc' = [u \in Turn |-> IF u = t \/ Contains(pendingTurns, u) THEN "over" ELSE pc[u]]
  <2>1. \A u \in Turn : pc[u] = "queued" <=> Contains(pendingTurns, u) BY DEF QueueInv, Contains
  <2>2. \A u \in Turn : pc'[u] = IF u = t \/ pc[u] = "queued" THEN "over" ELSE pc[u] BY <1>3, <2>1
  <2>3. \A u \in Turn : pc[u] # "queued" => resolved'[u] = resolved[u]
    BY <1>3, <2>1 DEF ResolvedAtStop, ServerType, TurnType
  <2>4. \A u \in Turn : pc'[u] \notin Serving /\ activeTurn' # u
    BY <1>0, <1>1, <1>3, <2>2 DEF QueueInv, Serving
  <2>5. \A u \in Turn : pc'[u] # "queued" /\ (pc'[u] = "new" <=> pc[u] = "new") BY <1>0, <2>2
  <2>6. \A u \in Turn : pc'[u] \in {"new", "queued", "admit", "start"} => resolved'[u] = "none"
    BY <2>2, <2>3 DEF QueueInv
  <2> QED BY <1>2, <1>3, <2>4, <2>5, <2>6 DEF QueueInv
<1>4. CASE pendingTurns = <<>> /\ activeTurn' = None /\ pendingTurns' = <<>> /\ At(t, "over") /\ UNCHANGED resolved
  <2>1. pc'[t] = "over" /\ \A u \in Turn : u # t => pc'[u] = pc[u]
    BY <1>4, PhaseType DEF ServerType, Phase
  <2>2. \A u \in Turn : pc[u] # "queued" BY <1>2, <1>4 DEF QueueInv
  <2>3. \A u \in Turn : pc'[u] \notin Serving /\ activeTurn' # u
    BY <1>0, <1>1, <1>4, <2>1 DEF QueueInv, Serving
  <2>4. \A u \in Turn : pc'[u] # "queued" /\ (pc'[u] = "new" <=> pc[u] = "new") BY <1>0, <2>1, <2>2
  <2>5. \A u \in Turn : pc'[u] \in {"new", "queued", "admit", "start"} => resolved'[u] = "none"
    BY <1>4, <2>1 DEF QueueInv
  <2> QED BY <1>2, <1>4, <2>3, <2>4, <2>5 DEF QueueInv
<1>5. CASE /\ Len(pendingTurns) > 0 /\ activeTurn' = pendingTurns[1] /\ pendingTurns' = Tail(pendingTurns)
           /\ pendingTurns[1] \in Turn /\ pc[pendingTurns[1]] = "queued"
           /\ pc' = [pc EXCEPT ![t] = "over", ![pendingTurns[1]] = "admit"]
           /\ UNCHANGED resolved
  <2> DEFINE n == Len(pendingTurns)  next == pendingTurns[1]
  <2>1. next \in Turn /\ next # t /\ pc[next] = "queued" /\ n \in Nat /\ n > 0 BY <1>0, <1>1, <1>5
  <2>2. /\ Len(pendingTurns') = n - 1
        /\ \A i \in 1..(n - 1) : pendingTurns'[i] = pendingTurns[i + 1]
        /\ \A i \in 1..n : pendingTurns[i] \in Turn /\ pendingTurns[i] \in Nat
    <3>1. pendingTurns # <<>> /\ Turn \subseteq Nat BY <1>1, <1>5, TurnFacts, EmptySeq
    <3>2. /\ Len(Tail(pendingTurns)) = Len(pendingTurns) - 1
          /\ \A i \in 1..Len(Tail(pendingTurns)) : Tail(pendingTurns)[i] = pendingTurns[i + 1]
      BY <1>1, <3>1, HeadTailProperties
    <3>3. \A i \in 1..n : pendingTurns[i] \in Turn BY <1>1
    <3> QED BY <1>5, <3>1, <3>2, <3>3
  <2>3. pc'[t] = "over" /\ pc'[next] = "admit" /\ \A u \in Turn : u # t /\ u # next => pc'[u] = pc[u]
    BY <1>1, <1>5, <2>1
  <2>4. /\ \A i, j \in 1..n : i < j => pendingTurns[i] < pendingTurns[j]
        /\ n <= QueueLimit
        /\ \A u \in Turn : pc[u] = "queued" <=> \E i \in 1..n : pendingTurns[i] = u
    BY DEF QueueInv
  <2>5. activeTurn' = next BY <1>5
  <2>6. \A u \in Turn : pc'[u] \in Serving <=> activeTurn' = u
    BY <1>0, <2>1, <2>3, <2>5 DEF QueueInv, Serving
  <2>7. \A u, v \in Turn : u < v /\ pc'[u] = "new" => pc'[v] = "new"
    BY <1>0, <2>1, <2>3 DEF QueueInv
  <2>8. \A u \in Turn : pc'[u] \in {"new", "queued", "admit", "start"} => resolved'[u] = "none"
    BY <1>0, <1>5, <2>1, <2>3 DEF QueueInv
  <2>9. 1 \in 1..n /\ \A i \in 1..(n - 1) : i \in 1..n /\ i + 1 \in 1..n /\ 1 < i + 1 BY <2>1
  <2>11. next = pendingTurns[1] OBVIOUS
  <2> HIDE DEF n, next
  <2>10. \A i \in 1..(n - 1) : next < pendingTurns'[i] BY <2>2, <2>4, <2>9, <2>11
  <2>12. ASSUME NEW u \in Turn
         PROVE  pc'[u] = "queued" <=> \E i \in 1..(n - 1) : pendingTurns'[i] = u
    <3>1. ASSUME NEW i \in 1..(n - 1), pendingTurns'[i] = u PROVE pc'[u] = "queued"
      <4>1. pc[u] = "queued" BY <2>2, <2>4, <2>9, <3>1
      <4>2. u # next
        <5>1. next < u /\ u \in Nat BY <2>2, <2>9, <2>10, <3>1
        <5>2. next \in Nat BY <2>2, <2>9, <2>11
        <5> QED BY <5>1, <5>2
      <4> QED BY <1>0, <2>3, <4>1, <4>2
    <3>2. ASSUME pc'[u] = "queued" PROVE \E i \in 1..(n - 1) : pendingTurns'[i] = u
      <4>1. u # next /\ pc[u] = "queued" BY <2>3, <3>2
      <4>2. PICK i \in 1..n : pendingTurns[i] = u BY <2>4, <4>1
      <4>3. i # 1 BY <2>11, <4>1, <4>2
      <4>4. i - 1 \in 1..(n - 1) /\ (i - 1) + 1 = i BY <2>1, <4>3
      <4> QED BY <2>2, <4>2, <4>4
    <3> QED BY <3>1, <3>2
  <2>13. \A i, j \in 1..(n - 1) : i < j => pendingTurns'[i] < pendingTurns'[j]
    <3> SUFFICES ASSUME NEW i \in 1..(n - 1), NEW j \in 1..(n - 1), i < j
                 PROVE  pendingTurns'[i] < pendingTurns'[j]
      OBVIOUS
    <3>1. i + 1 \in 1..n /\ j + 1 \in 1..n /\ i + 1 < j + 1 BY <2>9
    <3> QED BY <2>2, <2>4, <3>1
  <2>14. n - 1 <= QueueLimit BY <1>1, <2>1, <2>4
  <2>15. next # None BY <1>1, <2>1
  <2> QED BY <2>2, <2>5, <2>6, <2>7, <2>8, <2>10, <2>12, <2>13, <2>14, <2>15 DEF QueueInv
<1> QED BY <1>3, <1>4, <1>5, AdvanceStep

\* The steps of the turn that is served.
LEMMA StartQueue == ASSUME ServerType, QueueInv, NEW t \in Turn, startAcceptedTurn(t) PROVE QueueInv'
<1>1. /\ pc[t] = "start" /\ UNCHANGED <<activeTurn, pendingTurns>>
      /\ \E p \in {"watch", "reject"} : At(t, p)
      /\ \A u \in Turn : u # t => resolved'[u] = resolved[u]
  BY DEF startAcceptedTurn, ServerType, TurnType
<1> QED BY <1>1, ServeMove DEF Serving

LEMMA ServedQueue ==
  ASSUME ServerType, QueueInv, NEW t \in Turn,
         AnnounceAdmitted(t) \/ AnnounceRejected(t) \/ WatchSubscribe(t) \/ WatchReplay(t) \/ watchAcceptedTurn(t)
  PROVE  QueueInv'
<1>0. UNCHANGED <<resolved, activeTurn, pendingTurns>>
  BY DEF AnnounceAdmitted, AnnounceRejected, WatchSubscribe, WatchReplay, watchAcceptedTurn
<1>1. CASE AnnounceAdmitted(t)
  <2>1. pc[t] = "admit" /\ At(t, "start") BY <1>1 DEF AnnounceAdmitted
  <2> QED BY <1>0, <2>1, ServeMove DEF Serving
<1>2. CASE AnnounceRejected(t)
  <2>1. pc[t] = "reject" /\ At(t, "advance") BY <1>2 DEF AnnounceRejected
  <2> QED BY <1>0, <2>1, ServeMove DEF Serving
<1>3. CASE WatchSubscribe(t)
  <2>1. pc[t] = "watch" /\ At(t, "replay") BY <1>3 DEF WatchSubscribe
  <2> QED BY <1>0, <2>1, ServeMove DEF Serving
<1>4. CASE WatchReplay(t)
  <2>1. pc[t] = "replay" /\ At(t, "forward") BY <1>4 DEF WatchReplay
  <2> QED BY <1>0, <2>1, ServeMove DEF Serving
<1>5. CASE watchAcceptedTurn(t)
  <2>1. pc[t] = "forward" /\ (UNCHANGED pc \/ At(t, "advance")) BY <1>5 DEF watchAcceptedTurn
  <2>2. CASE UNCHANGED pc BY <1>0, <2>2, QueueSame
  <2>3. CASE At(t, "advance") BY <1>0, <2>1, <2>3, ServeMove DEF Serving
  <2> QED BY <2>1, <2>2, <2>3
<1> QED BY <1>1, <1>2, <1>3, <1>4, <1>5

-----------------------------------------------------------------------------
(* The runs and their watchers. *)

\* What the steps of a turn's goroutine do to the runs.
LEMMA EmittedStart ==
  ASSUME ServerType, \A r \in Run : EmittedInv(r), NEW t \in Turn, startAcceptedTurn(t)
  PROVE  \A r \in Run : EmittedInv(r)'
<1> SUFFICES ASSUME NEW r \in Run PROVE EmittedInv(r)' OBVIOUS
<1>1. t \in Run /\ runs \in [Run -> RunRecord] /\ RunEvents \in Nat /\ RunEvents > 0
  BY TurnFacts DEF ServerType, AgentType
<1>2. CASE runs' = runs BY <1>2 DEF EmittedInv, Over, Done
<1>3. CASE runs' = [runs EXCEPT ![t].state = IF RunEvents = 1 THEN "terminal" ELSE "live", ![t].emitted = 1]
  <2>1. CASE r = t
    <3>1. runs'[t].emitted = 1 /\ runs'[t].state = IF RunEvents = 1 THEN "terminal" ELSE "live"
      BY <1>1, <1>3 DEF RunRecord
    <3> QED BY <1>1, <2>1, <3>1 DEF EmittedInv, Over, Done
  <2>2. CASE r # t
    <3>1. runs'[r] = runs[r] BY <1>1, <1>3, <2>2
    <3> QED BY <3>1 DEF EmittedInv, Over, Done
  <2> QED BY <2>1, <2>2
<1> QED BY <1>2, <1>3 DEF startAcceptedTurn

LEMMA EmittedSame ==
  ASSUME NEW r \in Run, EmittedInv(r), runs'[r].state = runs[r].state, runs'[r].emitted = runs[r].emitted
  PROVE  EmittedInv(r)'
  BY DEF EmittedInv, Over, Done

\* The watcher's steps leave the run's state and its events alone.
LEMMA EmittedWatch ==
  ASSUME ServerType, \A r \in Run : EmittedInv(r), NEW t \in Turn,
         WatchSubscribe(t) \/ WatchReplay(t) \/ watchAcceptedTurn(t)
  PROVE  \A r \in Run : EmittedInv(r)'
<1>1. t \in Run /\ runs \in [Run -> RunRecord] BY TurnFacts DEF ServerType, AgentType
<1>2. ASSUME NEW r \in Run PROVE runs'[r].state = runs[r].state /\ runs'[r].emitted = runs[r].emitted
  <2>0. runs[t] \in RunRecord BY <1>1
  <2>1. CASE WatchSubscribe(t) BY <1>1, <2>0, <2>1 DEF WatchSubscribe, Subscribe, RunRecord
  <2>2. CASE WatchReplay(t) \/ watchAcceptedTurn(t)
    <3>1. \/ runs' = runs
          \/ \E b : runs' = [runs EXCEPT ![t] = [runs[t] EXCEPT !.backfill = b]]
          \/ \E q : runs' = [runs EXCEPT ![t] = [runs[t] EXCEPT !.queue = q]]
      BY <2>2 DEF WatchReplay, watchAcceptedTurn
    <3>2. CASE r # t BY <1>1, <3>1, <3>2
    <3>3. CASE r = t
      <4>1. runs'[t] = runs[t] \/ (\E b : runs'[t] = [runs[t] EXCEPT !.backfill = b])
            \/ (\E q : runs'[t] = [runs[t] EXCEPT !.queue = q])
        BY <1>1, <3>1
      <4> QED BY <2>0, <3>3, <4>1 DEF RunRecord
    <3> QED BY <3>2, <3>3
  <2> QED BY <2>1, <2>2, <1>2
<1> QED BY <1>2, EmittedSame

LEMMA EmittedRunStep ==
  ASSUME ServerType, \A r \in Run : EmittedInv(r), NEW k \in Run, RunStep(k)
  PROVE  \A r \in Run : EmittedInv(r)'
<1> SUFFICES ASSUME NEW r \in Run PROVE EmittedInv(r)' OBVIOUS
<1>1. runs \in [Run -> RunRecord] /\ RunEvents \in Nat /\ runs[k] \in RunRecord /\ runs[k].emitted \in 0..RunEvents
  BY TurnFacts, RunType DEF ServerType, AgentType
<1>2. CASE r # k
  <2>1. runs'[r] = runs[r] BY <1>1, <1>2 DEF RunStep, transition, markEffectsDone, unregister
  <2> QED BY <2>1, EmittedSame
<1>3. CASE r = k /\ transition(k)
  <2>1. runs'[k].emitted = runs[k].emitted + 1
        /\ runs'[k].state = IF runs[k].emitted + 1 = RunEvents THEN "terminal" ELSE "live"
    BY <1>1, <1>3 DEF transition, RunRecord
  <2>2. runs[k].emitted < RunEvents BY <1>3 DEF transition, EmittedInv
  <2> QED BY <1>1, <1>3, <2>1, <2>2 DEF EmittedInv, Over, Done
<1>4. CASE r = k /\ (markEffectsDone(k) \/ unregister(k))
  <2>1. runs'[k].emitted = runs[k].emitted /\ runs'[k].state \in {"done", "finished"}
        /\ runs[k].state \in {"terminal", "done"}
    BY <1>1, <1>4 DEF markEffectsDone, unregister, RunRecord
  <2> QED BY <1>4, <2>1 DEF EmittedInv, Over, Done
<1> QED BY <1>2, <1>3, <1>4 DEF RunStep

LEMMA EmittedContinuation ==
  ASSUME ServerType, \A r \in Run : EmittedInv(r), NEW k \in Continuation, startContinuation(k)
  PROVE  \A r \in Run : EmittedInv(r)'
<1>1. k \in Run /\ runs \in [Run -> RunRecord] /\ RunEvents \in Nat /\ RunEvents > 0
  BY TurnFacts DEF ServerType, AgentType, Run
<1>2. ASSUME NEW r \in Run, r # k PROVE EmittedInv(r)'
  <2>1. runs'[r] = runs[r] BY <1>1, <1>2 DEF startContinuation
  <2> QED BY <2>1, EmittedSame
<1>3. EmittedInv(k)'
  <2>1. runs'[k].state = "live" /\ runs'[k].emitted = runs[k].emitted /\ runs[k].state = "none"
    BY <1>1 DEF startContinuation, RunRecord
  <2> QED BY <1>1, <2>1 DEF EmittedInv, Over, Done
<1> QED BY <1>2, <1>3

\* The facts about the run of a turn that the proofs use.
LEMMA RunFacts ==
  ASSUME ServerType, NEW t \in Turn
  PROVE  /\ t \in Run /\ runs \in [Run -> RunRecord] /\ runs[t] \in RunRecord
         /\ runs[t].emitted \in Nat /\ runs[t].emitted <= RunEvents /\ runs[t].fence \in Nat
         /\ runs[t].backfill \in Seq(Nat) /\ runs[t].queue \in Seq(Nat)
         /\ Len(runs[t].backfill) \in Nat /\ Len(runs[t].queue) \in Nat
         /\ RunEvents \in Nat /\ pc[t] \in Phase
<1>1. t \in Run /\ RunEvents \in Nat BY TurnFacts
<1>2. runs \in [Run -> RunRecord] /\ pc[t] \in Phase BY DEF ServerType, AgentType, TurnType
<1>3. /\ runs[t].emitted \in 0..RunEvents /\ runs[t].fence \in 0..RunEvents
      /\ runs[t].backfill \in Seq(Nat) /\ runs[t].queue \in Seq(Nat)
  BY <1>1, RunType DEF ServerType
<1> QED BY <1>1, <1>2, <1>3

\* A turn whose run does not change and whose watcher does not begin.
LEMMA RunSame ==
  ASSUME NEW t \in Turn, RunInv(t), runs'[t] = runs[t],
         \/ pc'[t] = pc[t]
         \/ pc'[t] \in {"reject", "advance", "over", "refused", "cancel"}
         \/ pc[t] \in {"new", "queued", "admit"} /\ pc'[t] \in {"queued", "admit", "start"}
  PROVE  RunInv(t)'
  BY DEF RunInv, Unwatched, Delivered

LEMMA RunStart ==
  ASSUME ServerType, NEW t \in Turn, RunInv(t), startAcceptedTurn(t) PROVE RunInv(t)'
<1>1. pc[t] = "start" BY DEF startAcceptedTurn
<1>2. CASE At(t, "reject") /\ UNCHANGED runs
  BY <1>2, PhaseType, RunSame DEF ServerType, Phase
<1>3. CASE /\ runs' = [runs EXCEPT ![t].state = IF RunEvents = 1 THEN "terminal" ELSE "live", ![t].emitted = 1]
           /\ At(t, "watch")
  <2>1. pc'[t] = "watch" BY <1>3, PhaseType DEF ServerType, Phase
  <2>2. /\ runs'[t].fence = runs[t].fence /\ runs'[t].backfill = runs[t].backfill
        /\ runs'[t].queue = runs[t].queue /\ runs'[t].subscribed = runs[t].subscribed
    BY <1>3, RunFacts DEF RunRecord
  <2> QED BY <1>1, <2>1, <2>2 DEF RunInv, Unwatched
<1> QED BY <1>2, <1>3 DEF startAcceptedTurn

LEMMA RunSubscribe ==
  ASSUME ServerType, NEW t \in Turn, RunInv(t), WatchSubscribe(t) PROVE RunInv(t)'
<1>1. pc[t] = "watch" /\ pc'[t] = "replay" BY PhaseType DEF WatchSubscribe, ServerType, Phase
<1>2. /\ runs'[t].fence = runs[t].emitted /\ runs'[t].subscribed = TRUE
      /\ runs'[t].backfill = runs[t].backfill /\ runs'[t].queue = runs[t].queue
      /\ runs'[t].emitted = runs[t].emitted
  BY RunFacts DEF WatchSubscribe, Subscribe, RunRecord
<1>3. runs[t].backfill = <<>> /\ runs[t].queue = <<>> BY <1>1 DEF RunInv, Unwatched
<1>4. runs[t].emitted \in Nat BY RunFacts
<1> QED BY <1>1, <1>2, <1>3, <1>4, PosEmpty DEF RunInv

LEMMA RunReplay ==
  ASSUME ServerType, NEW t \in Turn, RunInv(t), WatchReplay(t)
  PROVE  RunInv(t)' /\ Delivered(t)' = 0
<1>1. pc[t] = "replay" /\ pc'[t] = "forward" BY PhaseType DEF WatchReplay, ServerType, Phase
<1>2. /\ runs'[t].fence = runs[t].fence /\ runs'[t].subscribed = runs[t].subscribed
      /\ runs'[t].backfill = Retained(t) /\ runs'[t].queue = runs[t].queue
      /\ runs'[t].emitted = runs[t].emitted
  BY RunFacts DEF WatchReplay, RunRecord
<1>3. Retained(t) \in Seq(Nat) /\ Len(Retained(t)) = runs[t].fence /\ Pos(Retained(t), 0)
  BY RunFacts, EventsBetweenFacts DEF Retained
<1>4. /\ Pos(runs[t].queue, runs[t].fence) /\ runs[t].fence + Len(runs[t].queue) = runs[t].emitted
      /\ runs[t].subscribed /\ runs[t].fence <= runs[t].emitted
  BY <1>1 DEF RunInv
<1>5. Delivered(t)' = 0 BY <1>2, <1>3, <1>4, RunFacts DEF Delivered
<1>6. 0 + runs[t].fence = runs[t].fence BY RunFacts
<1> QED BY <1>1, <1>2, <1>3, <1>4, <1>5, <1>6 DEF RunInv

\* What watchAcceptedTurn publishes is the event after those it has delivered.
LEMMA RunWatch ==
  ASSUME ServerType, NEW t \in Turn, RunInv(t), watchAcceptedTurn(t)
  PROVE  /\ RunInv(t)'
         /\ \/ /\ UNCHANGED <<pc, advancer>> /\ Delivered(t) \in Nat /\ Delivered(t) < RunEvents
               /\ publish(newSessionRuntimeEvent(t, Delivered(t) + 1))
               /\ Delivered(t)' = Delivered(t) + 1
            \/ /\ At(t, "advance") /\ advancer' = t /\ UNCHANGED hub
               /\ EmittedInv(t) /\ ~stop => Delivered(t) = RunEvents
<1> DEFINE b == runs[t].backfill  q == runs[t].queue  n == runs[t].emitted
<1>0. /\ b \in Seq(Nat) /\ q \in Seq(Nat) /\ n \in Nat /\ n <= RunEvents /\ Len(b) \in Nat /\ Len(q) \in Nat
      /\ RunEvents \in Nat
  BY RunFacts
<1>1. /\ pc[t] = "forward" /\ Delivered(t) \in Nat /\ Pos(b, Delivered(t))
      /\ Pos(q, Delivered(t) + Len(b)) /\ runs[t].subscribed /\ runs[t].fence <= n
  BY DEF RunInv, watchAcceptedTurn
<1>2. Delivered(t) = n - (Len(b) + Len(q)) BY DEF Delivered
<1>3. CASE b # <<>> /\ publish(newSessionRuntimeEvent(t, Head(b)))
           /\ runs' = [runs EXCEPT ![t].backfill = Tail(@)] /\ UNCHANGED <<pc, advancer>>
  <2>1. /\ Head(b) = Delivered(t) + 1 /\ Pos(Tail(b), Delivered(t) + 1)
        /\ Len(Tail(b)) = Len(b) - 1 /\ Len(b) > 0
    BY <1>0, <1>1, <1>3, PosTail
  <2>2. /\ runs'[t].backfill = Tail(b) /\ runs'[t].queue = q /\ runs'[t].emitted = n
        /\ runs'[t].fence = runs[t].fence /\ runs'[t].subscribed = runs[t].subscribed
    BY <1>3, RunFacts DEF RunRecord
  <2> HIDE DEF b, q, n
  <2>3. Delivered(t)' = n - (Len(Tail(b)) + Len(q)) BY <2>2 DEF Delivered
  <2>4. Delivered(t)' = Delivered(t) + 1
    <3>1. n - ((Len(b) - 1) + Len(q)) = (n - (Len(b) + Len(q))) + 1 BY <1>0
    <3> QED BY <1>2, <2>1, <2>3, <3>1
  <2>5. Delivered(t) < RunEvents BY <1>0, <1>2, <2>1
  <2>6. Delivered(t) + 1 + Len(Tail(b)) = Delivered(t) + Len(b) BY <1>0, <1>1, <2>1
  <2>7. RunInv(t)'
    <3>1. Delivered(t)' \in Nat BY <1>1, <2>4
    <3>2. Pos(runs'[t].backfill, Delivered(t)') BY <2>1, <2>2, <2>4
    <3>3. Pos(runs'[t].queue, Delivered(t)' + Len(runs'[t].backfill)) BY <1>1, <2>2, <2>4, <2>6
    <3>4. pc'[t] = "forward" BY <1>1, <1>3
    <3>5. runs'[t].subscribed /\ runs'[t].fence <= runs'[t].emitted BY <1>1, <2>2
    <3> QED BY <3>1, <3>2, <3>3, <3>4, <3>5 DEF RunInv
  <2> QED BY <1>1, <1>3, <2>1, <2>4, <2>5, <2>7
<1>4. CASE b = <<>> /\ q # <<>> /\ publish(newSessionRuntimeEvent(t, Head(q)))
           /\ runs' = [runs EXCEPT ![t].queue = Tail(@)] /\ UNCHANGED <<pc, advancer>>
  <2>0. Len(b) = 0 /\ Delivered(t) + Len(b) = Delivered(t) BY <1>1, <1>4
  <2>1. /\ Head(q) = Delivered(t) + 1 /\ Pos(Tail(q), Delivered(t) + 1)
        /\ Len(Tail(q)) = Len(q) - 1 /\ Len(q) > 0
    BY <1>0, <1>1, <1>4, <2>0, PosTail
  <2>2. /\ runs'[t].backfill = b /\ runs'[t].queue = Tail(q) /\ runs'[t].emitted = n
        /\ runs'[t].fence = runs[t].fence /\ runs'[t].subscribed = runs[t].subscribed
    BY <1>4, RunFacts DEF RunRecord
  <2>8. b = <<>> BY <1>4
  <2> HIDE DEF b, q, n
  <2>3. Delivered(t)' = n - (Len(b) + Len(Tail(q))) BY <2>2 DEF Delivered
  <2>4. Delivered(t)' = Delivered(t) + 1
    <3>1. n - (Len(b) + (Len(q) - 1)) = (n - (Len(b) + Len(q))) + 1 BY <1>0
    <3> QED BY <1>2, <2>1, <2>3, <3>1
  <2>5. Delivered(t) < RunEvents BY <1>0, <1>2, <2>1
  <2>7. RunInv(t)'
    <3>1. Delivered(t)' \in Nat /\ Delivered(t)' + Len(b) = Delivered(t) + 1 BY <1>1, <2>0, <2>4
    <3>2. Pos(runs'[t].backfill, Delivered(t)') BY <2>2, <2>8, PosEmpty
    <3>3. Pos(runs'[t].queue, Delivered(t)' + Len(runs'[t].backfill)) BY <2>1, <2>2, <3>1
    <3>4. pc'[t] = "forward" BY <1>1, <1>4
    <3>5. runs'[t].subscribed /\ runs'[t].fence <= runs'[t].emitted BY <1>1, <2>2
    <3> QED BY <3>1, <3>2, <3>3, <3>4, <3>5 DEF RunInv
  <2> QED BY <1>1, <1>4, <2>1, <2>4, <2>5, <2>7
<1>5. CASE b = <<>> /\ Closed(t) /\ At(t, "advance") /\ advancer' = t /\ UNCHANGED <<hub, runs>>
  <2>1. pc'[t] = "advance" BY <1>5, PhaseType DEF ServerType, Phase
  <2>2. RunInv(t)' BY <1>5, <2>1, RunSame
  <2>3. ASSUME EmittedInv(t), ~stop PROVE Delivered(t) = RunEvents
    <3>1. q = <<>> /\ (Done(t) \/ runs[t].fence = RunEvents) BY <1>5, <2>3 DEF Closed
    <3>2. n = RunEvents BY <1>0, <1>1, <2>3, <3>1 DEF EmittedInv, Over
    <3>3. Len(b) = 0 /\ Len(q) = 0 BY <1>5, <3>1
    <3> QED BY <1>0, <1>2, <3>2, <3>3
  <2> QED BY <1>5, <2>2, <2>3
<1> QED BY <1>3, <1>4, <1>5 DEF watchAcceptedTurn

\* A run commits its next event: it joins the queue of the subscription.
LEMMA RunTransition ==
  ASSUME ServerType, NEW t \in Turn, RunInv(t), transition(t)
  PROVE  RunInv(t)' /\ (pc[t] = "forward" => Delivered(t)' = Delivered(t))
<1> DEFINE q == runs[t].queue  n == runs[t].emitted
<1>0. pc'[t] = pc[t] /\ runs[t].state = "live" BY DEF transition, server
<1>1. /\ runs'[t].emitted = n + 1
      /\ runs'[t].queue = IF runs[t].subscribed THEN Append(q, n + 1) ELSE q
      /\ runs'[t].backfill = runs[t].backfill /\ runs'[t].fence = runs[t].fence
      /\ runs'[t].subscribed = runs[t].subscribed
  BY RunFacts DEF transition, RunRecord
<1>2. q \in Seq(Nat) /\ n \in Nat /\ Len(q) \in Nat /\ Len(runs[t].backfill) \in Nat /\ runs[t].fence \in Nat
  BY RunFacts
<1>3. pc[t] \notin {"new", "queued", "admit", "start"} BY <1>0 DEF RunInv
<1>4. CASE pc[t] = "watch" BY <1>0, <1>1, <1>4 DEF RunInv, Unwatched
<1>5. CASE pc[t] = "replay"
  <2>1. /\ Pos(q, runs[t].fence) /\ runs[t].fence + Len(q) = n /\ runs[t].subscribed
        /\ runs[t].fence <= n /\ runs[t].backfill = <<>>
    BY <1>5 DEF RunInv
  <2>2. runs'[t].queue = Append(q, n + 1) /\ n + 1 = runs[t].fence + Len(q) + 1 BY <1>1, <2>1
  <2> HIDE DEF q, n
  <2>3. Pos(Append(q, n + 1), runs[t].fence) /\ Len(Append(q, n + 1)) = Len(q) + 1
    BY <1>2, <2>1, <2>2, PosAppend
  <2>4. runs[t].fence + (Len(q) + 1) = n + 1 /\ runs[t].fence <= n + 1 BY <1>2, <2>1, SMTT(20)
  <2> QED BY <1>0, <1>1, <1>5, <2>1, <2>2, <2>3, <2>4 DEF RunInv
<1>6. CASE pc[t] = "forward"
  <2> DEFINE b == runs[t].backfill
  <2>1. /\ Delivered(t) \in Nat /\ Pos(b, Delivered(t)) /\ Pos(q, Delivered(t) + Len(b))
        /\ runs[t].subscribed /\ runs[t].fence <= n
    BY <1>6 DEF RunInv
  <2>2. Delivered(t) = n - (Len(b) + Len(q)) BY DEF Delivered
  <2>3. n + 1 = (Delivered(t) + Len(b)) + Len(q) + 1 /\ Delivered(t) + Len(b) \in Nat
    <3> DEFINE d == Delivered(t)  k == Len(b)  m == Len(q)
    <3>1. d \in Nat /\ k \in Nat /\ m \in Nat /\ n \in Nat /\ d = n - (k + m)
      BY <1>2, <2>1, <2>2
    <3> HIDE DEF d, k, m, n
    <3>2. n + 1 = (d + k) + m + 1 /\ d + k \in Nat BY <3>1
    <3> QED BY <3>2 DEF d, k, m
  <2>4. runs'[t].queue = Append(q, n + 1) /\ runs'[t].backfill = b BY <1>1, <2>1
  <2> HIDE DEF q, n, b
  <2>5. Pos(Append(q, n + 1), Delivered(t) + Len(b)) /\ Len(Append(q, n + 1)) = Len(q) + 1
    BY <1>2, <2>1, <2>3, PosAppend
  <2>6. Delivered(t)' = (n + 1) - (Len(b) + Len(Append(q, n + 1))) BY <1>1, <2>4 DEF Delivered
  <2>7. Len(b) \in Nat BY <1>2 DEF b
  <2>8. Delivered(t)' = Delivered(t) BY <1>2, <2>2, <2>5, <2>6, <2>7
  <2>9. runs[t].fence <= n + 1 BY <1>2, <2>1
  <2> QED BY <1>0, <1>1, <1>6, <2>1, <2>4, <2>5, <2>8, <2>9 DEF RunInv
<1>7. CASE pc[t] \notin {"watch", "replay", "forward"} BY <1>0, <1>3, <1>7 DEF RunInv
<1> QED BY <1>4, <1>5, <1>6, <1>7

\* The end of a run's effects changes only its state.
LEMMA RunEnds ==
  ASSUME ServerType, NEW t \in Turn, RunInv(t), markEffectsDone(t) \/ unregister(t)
  PROVE  RunInv(t)' /\ Delivered(t)' = Delivered(t)
<1>0. pc'[t] = pc[t] /\ runs[t].state \in {"terminal", "done"} BY DEF markEffectsDone, unregister, server
<1>1. /\ runs'[t].emitted = runs[t].emitted /\ runs'[t].queue = runs[t].queue
      /\ runs'[t].backfill = runs[t].backfill /\ runs'[t].fence = runs[t].fence
      /\ runs'[t].subscribed = runs[t].subscribed
  BY RunFacts, SMTT(20) DEF markEffectsDone, unregister, RunRecord
<1>2. Delivered(t)' = Delivered(t) BY <1>1 DEF Delivered
<1> QED BY <1>0, <1>1, <1>2 DEF RunInv, Unwatched
-----------------------------------------------------------------------------
(* The published events. *)

\* Nothing is published for t that the invariant is about.
StreamUnchanged(t) ==
  /\ RunEventsOf(t)' = RunEventsOf(t) /\ AdmissionOf(t)' = AdmissionOf(t) /\ ScopeEndOf(t)' = ScopeEndOf(t)
  /\ \A i \in RunEventsOf(t) : Number(i)' = Number(i)

\* How a step that publishes nothing of the kind may move the goroutines, the
\* server and the runs on.
Keeps(t) ==
  /\ pc[t] \in {"forward", "advance", "over"} => pc'[t] \in {"forward", "advance", "over"}
  /\ pc'[t] = "forward" =>
       \/ pc[t] = "forward" /\ Delivered(t)' = Delivered(t)
       \/ pc[t] = "replay" /\ Delivered(t)' = 0
  /\ eventsDone \subseteq eventsDone'
  /\ t \in eventsDone' \/ advancer' = t =>
       /\ pc'[t] \in {"advance", "over"}
       /\ \/ t \in eventsDone \/ advancer = t
          \/ ~stop' => pc[t] = "forward" /\ Delivered(t) = RunEvents
  /\ ~hubClosed' /\ pc'[t] \in {"start", "watch", "replay", "forward"} =>
       pc[t] \in {"start", "watch", "replay", "forward"}
  /\ pc[t] \in {"start", "reject", "watch", "replay", "forward", "advance", "over"} =>
       pc'[t] \in {"start", "reject", "watch", "replay", "forward", "advance", "over"}
  /\ \A u \in Turn : pc[u] \notin {"new", "queued", "admit"} => pc'[u] \notin {"new", "queued", "admit"}
  /\ (stop => stop') /\ (hubClosed => hubClosed')

\* The indices of the events of one type and turn.
LEMMA PublishedIn ==
  ASSUME StreamType, NEW type, NEW t
  PROVE  Published(type, t) \subseteq 1..Len(events) /\ Len(events) \in Nat
         /\ events \in Seq(SessionEvent)
  BY DEF StreamType, Published

LEMMA PublishedAppend ==
  ASSUME StreamType, NEW e \in SessionEvent, events' = Append(events, e), NEW type, NEW t
  PROVE  /\ Published(type, t)' =
              Published(type, t) \cup (IF e[1] = type /\ e[2] = t THEN {Len(events) + 1} ELSE {})
         /\ \A i \in 1..Len(events) : events'[i] = events[i]
         /\ events'[Len(events) + 1] = e /\ Len(events) \in Nat
<1>1. events \in Seq(SessionEvent) /\ Len(events) \in Nat BY DEF StreamType
<1>2. /\ DOMAIN events = 1..Len(events) /\ DOMAIN events' = 1..(Len(events) + 1)
      /\ \A i \in 1..Len(events) : events'[i] = events[i]
      /\ events'[Len(events) + 1] = e
  BY <1>1
<1>3. 1..(Len(events) + 1) = 1..Len(events) \cup {Len(events) + 1} BY <1>1
<1>4. Published(type, t)' = {i \in 1..(Len(events) + 1) : events'[i][1] = type /\ events'[i][2] = t}
  BY <1>2 DEF Published
<1>5. Published(type, t) = {i \in 1..Len(events) : events[i][1] = type /\ events[i][2] = t}
  BY <1>2 DEF Published
<1> QED BY <1>1, <1>2, <1>3, <1>4, <1>5

LEMMA StreamStill == ASSUME NEW t, events' = events PROVE StreamUnchanged(t)
  BY DEF StreamUnchanged, RunEventsOf, AdmissionOf, ScopeEndOf, Published, Number

\* An event of another turn or another kind.
LEMMA StreamOther ==
  ASSUME StreamType, NEW e \in SessionEvent, publish(e), NEW t,
         e[1] \in {"turn_event", "turn_admitted", "scope_event"} => e[2] # t
  PROVE  StreamUnchanged(t)
<1>1. CASE events' = events BY <1>1, StreamStill
<1>2. CASE events' = Append(events, e)
  <2>1. \A type \in {"turn_event", "turn_admitted", "scope_event"} : Published(type, t)' = Published(type, t)
    <3> SUFFICES ASSUME NEW type \in {"turn_event", "turn_admitted", "scope_event"}
                 PROVE  Published(type, t)' = Published(type, t)
      OBVIOUS
    <3>1. ~(e[1] = type /\ e[2] = t) OBVIOUS
    <3>2. Published(type, t)' =
            Published(type, t) \cup (IF e[1] = type /\ e[2] = t THEN {Len(events) + 1} ELSE {})
      BY <1>2, PublishedAppend
    <3> QED BY <3>1, <3>2
  <2>2. \A i \in Published("turn_event", t) : events'[i] = events[i]
    BY <1>2, PublishedAppend, PublishedIn
  <2> QED BY <2>1, <2>2 DEF StreamUnchanged, RunEventsOf, AdmissionOf, ScopeEndOf, Number
<1> QED BY <1>1, <1>2, PublishStep

LEMMA OrderSame ==
  ASSUME NEW t \in Turn, OrderInv(t), \A u \in Turn : StreamUnchanged(u)
  PROVE  OrderInv(t)'
<1>1. /\ RunEventsOf(t)' = RunEventsOf(t) /\ ScopeEndOf(t)' = ScopeEndOf(t)
      /\ \A i \in RunEventsOf(t) : Number(i)' = Number(i)
      /\ \A u \in Turn : AdmissionOf(u)' = AdmissionOf(u)
  BY DEF StreamUnchanged
<1> QED BY <1>1 DEF OrderInv

LEMMA CompleteSame ==
  ASSUME NEW t \in Turn, NEW n, Complete(t, n), StreamUnchanged(t), NEW m, m = n
  PROVE  \A k \in 1..m : \E i \in RunEventsOf(t)' : Number(i)' = k
  BY DEF Complete, StreamUnchanged

LEMMA PhaseSame ==
  ASSUME NEW t \in Turn, PhaseInv(t), StreamUnchanged(t), Keeps(t)
  PROVE  PhaseInv(t)'
<1>0. /\ RunEventsOf(t)' = RunEventsOf(t) /\ ScopeEndOf(t)' = ScopeEndOf(t) /\ AdmissionOf(t)' = AdmissionOf(t)
      /\ \A i \in RunEventsOf(t) : Number(i)' = Number(i)
  BY DEF StreamUnchanged
<1>1. RunEventsOf(t)' # {} => pc'[t] \in {"forward", "advance", "over"} BY <1>0 DEF PhaseInv, Keeps
<1>2. pc'[t] = "forward" => \A i \in RunEventsOf(t)' : Number(i)' <= Delivered(t)'
  BY <1>0 DEF PhaseInv, Keeps
<1>3. ASSUME ~stop', pc'[t] = "forward" PROVE Complete(t, Delivered(t))'
  <2>1. ~stop BY <1>3 DEF Keeps
  <2>2. CASE pc[t] = "forward" /\ Delivered(t)' = Delivered(t)
    <3>1. Complete(t, Delivered(t)) BY <2>1, <2>2 DEF PhaseInv
    <3> QED BY <2>2, <3>1, CompleteSame DEF Complete
  <2>3. CASE Delivered(t)' = 0 BY <2>3 DEF Complete
  <2> QED BY <1>3, <2>2, <2>3 DEF Keeps
<1>4. ASSUME ~stop', t \in eventsDone' \/ advancer' = t PROVE Complete(t, RunEvents)'
  <2>1. ~stop BY <1>4 DEF Keeps
  <2>2. \/ t \in eventsDone \/ advancer = t
        \/ pc[t] = "forward" /\ Delivered(t) = RunEvents
    BY <1>4 DEF Keeps
  <2>3. Complete(t, RunEvents) BY <2>1, <2>2 DEF PhaseInv
  <2> QED BY <2>3, CompleteSame DEF Complete
<1>5. t \in eventsDone' \/ advancer' = t => pc'[t] \in {"advance", "over"} BY DEF Keeps
<1>6. ~hubClosed' /\ pc'[t] \in {"start", "watch", "replay", "forward"} => AdmissionOf(t)' # {}
  BY <1>0 DEF PhaseInv, Keeps
<1>7. AdmissionOf(t)' # {} =>
       /\ pc'[t] \in {"start", "reject", "watch", "replay", "forward", "advance", "over"}
       /\ \A u \in Turn : u < t => pc'[u] \notin {"new", "queued", "admit"}
  BY <1>0 DEF PhaseInv, Keeps
<1>8. ScopeEndOf(t)' # {} => t \in eventsDone' BY <1>0 DEF PhaseInv, Keeps
<1> QED BY <1>1, <1>2, <1>3, <1>4, <1>5, <1>6, <1>7, <1>8 DEF PhaseInv

\* A step that publishes nothing of the kind keeps what is published in order.
LEMMA StreamKept ==
  ASSUME StreamInv, \A t \in Turn : StreamUnchanged(t) /\ Keeps(t) PROVE StreamInv'
<1> SUFFICES ASSUME NEW t \in Turn PROVE OrderInv(t)' /\ PhaseInv(t)' BY DEF StreamInv
<1>1. OrderInv(t) /\ PhaseInv(t) BY DEF StreamInv
<1> QED BY <1>1, OrderSame, PhaseSame

\* Nothing of the goroutines, the watched runs and the server moves.
LEMMA StreamAway ==
  ASSUME ServerType, StreamInv, UNCHANGED <<pc, eventsDone, advancer>>,
         \A t \in Turn : pc[t] = "forward" => Delivered(t)' = Delivered(t),
         \A t \in Turn : StreamUnchanged(t), (stop => stop') /\ (hubClosed => hubClosed')
  PROVE  StreamInv'
<1> SUFFICES ASSUME NEW t \in Turn PROVE Keeps(t) BY StreamKept
<1>1. PhaseInv(t) BY DEF StreamInv
<1> QED BY <1>1 DEF Keeps, PhaseInv
-----------------------------------------------------------------------------
(* Steps that publish nothing of the kind. *)

\* A step of one turn that moves no goroutine out of the phases the stream
\* depends on.
LEMMA KeepsStill ==
  ASSUME ServerType, StreamInv, NEW t \in Turn, NEW u \in Turn, NEW p \in Phase, At(t, p),
         UNCHANGED <<stop, hubClosed>>, eventsDone \subseteq eventsDone',
         u \in eventsDone' \/ advancer' = u => u \in eventsDone \/ advancer = u,
         pc[u] = "forward" => Delivered(u)' = Delivered(u),
         u = t =>
           /\ pc[t] \in {"forward", "advance", "over"} => p \in {"advance", "over"}
           /\ p \notin {"forward", "new", "queued", "admit"}
           /\ ~hubClosed /\ p \in {"start", "watch", "replay"} => pc[t] \in {"start", "watch", "replay", "forward"}
           /\ pc[t] \in {"start", "reject", "watch", "replay"} =>
                p \in {"start", "reject", "watch", "replay", "forward", "advance", "over"},
         p \notin {"new", "queued", "admit"} \/ pc[t] = "new"
  PROVE  Keeps(u)
<1>1. /\ pc' \in [Turn -> Phase] /\ pc'[t] = p /\ \A v \in Turn : v # t => pc'[v] = pc[v]
      /\ pc \in [Turn -> Phase]
  BY PhaseType DEF ServerType, TurnType
<1>2. u \in eventsDone \/ advancer = u => pc[u] \in {"advance", "over"} BY DEF StreamInv, PhaseInv
<1>3. CASE u = t BY <1>1, <1>2, <1>3 DEF Keeps
<1>4. CASE u # t BY <1>1, <1>2, <1>4 DEF Keeps
<1> QED BY <1>3, <1>4

\* The queue and its announcements.
LEMMA SubmitStream == ASSUME ServerType, StreamInv, NEW t \in Turn, submitTurn(t) PROVE StreamInv'
<1> SUFFICES ASSUME NEW u \in Turn PROVE StreamUnchanged(u) /\ Keeps(u) BY StreamKept
<1>1. PICK p \in {"admit", "queued", "refused"} : At(t, p) BY DEF submitTurn
<1>2. /\ pc[t] = "new" /\ UNCHANGED <<stop, hubClosed, events, runs, eventsDone, advancer>>
  BY DEF submitTurn, hub, agent
<1>3. /\ pc' \in [Turn -> Phase] /\ pc'[t] = p /\ \A v \in Turn : v # t => pc'[v] = pc[v]
  BY <1>1, PhaseType DEF ServerType, Phase
<1>4. u \in eventsDone \/ advancer = u => pc[u] \in {"advance", "over"} BY DEF StreamInv, PhaseInv
<1>5. Delivered(u)' = Delivered(u) BY <1>2 DEF Delivered
<1>6. Keeps(u)
  <2>1. CASE u = t BY <1>2, <1>3, <1>4, <2>1 DEF Keeps
  <2>2. CASE u # t BY <1>2, <1>3, <1>4, <1>5, <2>2 DEF Keeps
  <2> QED BY <2>1, <2>2
<1> QED BY <1>2, <1>6, StreamStill

LEMMA AnnounceQueuedStream == ASSUME ServerType, StreamInv, NEW t \in Turn, AnnounceQueued(t) PROVE StreamInv'
<1> DEFINE e == newSessionLifecycleEvent(t, "turn_queued")
<1>1. /\ e \in SessionEvent /\ publish(e) /\ e[1] = "turn_queued"
      /\ UNCHANGED <<pc, eventsDone, advancer, stop, runs>>
  BY SessionEvents DEF AnnounceQueued, agent, newSessionLifecycleEvent
<1>2. \A u \in Turn : StreamUnchanged(u)
  <2> HIDE DEF e
  <2> QED BY <1>1, StreamOther DEF ServerType
<1>3. hubClosed' = hubClosed BY <1>1, PublishStep
<1> QED BY <1>1, <1>2, <1>3, StreamAway DEF Delivered

LEMMA AnnounceRejectedStream == ASSUME ServerType, StreamInv, NEW t \in Turn, AnnounceRejected(t) PROVE StreamInv'
<1> DEFINE e == newSessionLifecycleEvent(t, "turn_rejected")
<1>1. /\ e \in SessionEvent /\ publish(e) /\ e[1] = "turn_rejected" /\ pc[t] = "reject" /\ At(t, "advance")
      /\ UNCHANGED <<eventsDone, advancer, stop, runs>>
  BY SessionEvents DEF AnnounceRejected, agent, newSessionLifecycleEvent
<1>2. \A u \in Turn : StreamUnchanged(u)
  <2> HIDE DEF e
  <2> QED BY <1>1, StreamOther DEF ServerType
<1>3. hubClosed' = hubClosed BY <1>1, PublishStep
<1>4. \A u \in Turn : Keeps(u)
  <2> SUFFICES ASSUME NEW u \in Turn PROVE Keeps(u) OBVIOUS
  <2>1. Delivered(u)' = Delivered(u) BY <1>1 DEF Delivered
  <2> QED BY <1>1, <1>3, <2>1, KeepsStill DEF Phase
<1> QED BY <1>2, <1>4, StreamKept

LEMMA AnnounceCancelledStream == ASSUME ServerType, StreamInv, NEW t \in Turn, AnnounceCancelled(t) PROVE StreamInv'
<1> DEFINE e == newSessionLifecycleEvent(t, "turn_cancelled")
<1>1. /\ e \in SessionEvent /\ publish(e) /\ e[1] = "turn_cancelled" /\ pc[t] = "cancel" /\ At(t, "over")
      /\ UNCHANGED <<eventsDone, advancer, stop, runs>>
  BY SessionEvents DEF AnnounceCancelled, agent, newSessionLifecycleEvent
<1>2. \A u \in Turn : StreamUnchanged(u)
  <2> HIDE DEF e
  <2> QED BY <1>1, StreamOther DEF ServerType
<1>3. hubClosed' = hubClosed BY <1>1, PublishStep
<1>4. \A u \in Turn : Keeps(u)
  <2> SUFFICES ASSUME NEW u \in Turn PROVE Keeps(u) OBVIOUS
  <2>1. Delivered(u)' = Delivered(u) BY <1>1 DEF Delivered
  <2> QED BY <1>1, <1>3, <2>1, KeepsStill DEF Phase
<1> QED BY <1>2, <1>4, StreamKept

LEMMA CancelStream ==
  ASSUME ServerType, QueueInv, StreamInv, NEW t \in Turn, cancelQueuedTurn(t) PROVE StreamInv'
<1>1. /\ At(t, "cancel") /\ UNCHANGED <<stop, hubClosed, events, runs, eventsDone, advancer>>
  BY DEF cancelQueuedTurn, hub, agent
<1>2. pc[t] = "queued"
  <2>1. pendingTurns \in Seq(Turn) BY QueueFacts
  <2> QED BY <2>1 DEF cancelQueuedTurn, QueueInv
<1> SUFFICES ASSUME NEW u \in Turn PROVE StreamUnchanged(u) /\ Keeps(u) BY StreamKept
<1>3. Delivered(u)' = Delivered(u) BY <1>1 DEF Delivered
<1>4. Keeps(u) BY <1>1, <1>2, <1>3, KeepsStill DEF Phase
<1> QED BY <1>1, <1>4, StreamStill

\* What the watcher does before it publishes.
LEMMA SubscribeStream ==
  ASSUME ServerType, StreamInv, NEW t \in Turn, WatchSubscribe(t) PROVE StreamInv'
<1>1. /\ pc[t] = "watch" /\ At(t, "replay") /\ UNCHANGED <<stop, hubClosed, events, eventsDone, advancer>>
      /\ runs' = [runs EXCEPT ![t] = Subscribe(t)]
  BY DEF WatchSubscribe, hub, agent
<1> SUFFICES ASSUME NEW u \in Turn PROVE StreamUnchanged(u) /\ Keeps(u) BY StreamKept
<1>2. Delivered(u)' = Delivered(u)
  <2>1. t \in Run /\ u \in Run /\ runs \in [Run -> RunRecord] /\ runs[u] \in RunRecord BY RunFacts
  <2>2. CASE u = t BY <1>1, <2>1, <2>2 DEF Delivered, Subscribe, RunRecord
  <2>3. CASE u # t BY <1>1, <2>1, <2>3 DEF Delivered
  <2> QED BY <2>2, <2>3
<1>3. Keeps(u) BY <1>1, <1>2, KeepsStill DEF Phase
<1> QED BY <1>1, <1>3, StreamStill

LEMMA ReplayStream ==
  ASSUME ServerType, StreamInv, NEW t \in Turn, RunInv(t), WatchReplay(t) PROVE StreamInv'
<1>1. /\ pc[t] = "replay" /\ At(t, "forward") /\ UNCHANGED <<stop, hubClosed, events, eventsDone, advancer>>
      /\ runs' = [runs EXCEPT ![t].backfill = Retained(t)]
  BY DEF WatchReplay, hub, agent
<1> SUFFICES ASSUME NEW u \in Turn PROVE StreamUnchanged(u) /\ Keeps(u) BY StreamKept
<1>2. /\ pc' \in [Turn -> Phase] /\ pc'[t] = "forward" /\ \A v \in Turn : v # t => pc'[v] = pc[v]
  BY <1>1, PhaseType DEF ServerType, Phase
<1>3. u \in eventsDone \/ advancer = u => pc[u] \in {"advance", "over"} BY DEF StreamInv, PhaseInv
<1>4. Keeps(u)
  <2>1. CASE u = t
    <3>1. Delivered(t)' = 0 BY RunReplay
    <3> QED BY <1>1, <1>2, <1>3, <2>1, <3>1 DEF Keeps
  <2>2. CASE u # t
    <3>1. Delivered(u)' = Delivered(u)
      <4>1. t \in Run /\ u \in Run /\ runs \in [Run -> RunRecord] BY RunFacts
      <4> QED BY <1>1, <2>2, <4>1 DEF Delivered
    <3> QED BY <1>1, <1>2, <1>3, <2>2, <3>1 DEF Keeps
  <2> QED BY <2>1, <2>2
<1> QED BY <1>1, <1>4, StreamStill
\* The stack of advanceSession has unwound at most.
LEMMA UnwindStream ==
  ASSUME TurnType, Unwind, NEW u
  PROVE  /\ eventsDone \subseteq eventsDone'
         /\ u \in eventsDone' \/ (u \in Turn /\ advancer' = u) => u \in eventsDone \/ advancer = u
  BY TurnFacts DEF Unwind, TurnType

LEMMA StartStream ==
  ASSUME ServerType, StreamInv, NEW t \in Turn, startAcceptedTurn(t) PROVE StreamInv'
<1>1. PICK p \in {"watch", "reject"} : At(t, p) BY DEF startAcceptedTurn
<1>2. pc[t] = "start" /\ UNCHANGED <<stop, hubClosed, events>> BY DEF startAcceptedTurn, hub
<1> SUFFICES ASSUME NEW u \in Turn PROVE StreamUnchanged(u) /\ Keeps(u) BY StreamKept
<1>3. /\ eventsDone \subseteq eventsDone'
      /\ u \in eventsDone' \/ advancer' = u => u \in eventsDone \/ advancer = u
  <2>1. CASE Unwind BY <2>1, UnwindStream DEF ServerType
  <2>2. CASE UNCHANGED <<eventsDone, advancer>> BY <2>2
  <2> QED BY <2>1, <2>2 DEF startAcceptedTurn
<1>4. pc[u] = "forward" => Delivered(u)' = Delivered(u)
  <2> SUFFICES ASSUME u # t PROVE runs'[u] = runs[u] BY <1>2 DEF Delivered
  <2>1. t \in Run /\ u \in Run /\ runs \in [Run -> RunRecord] BY RunFacts
  <2>2. CASE runs' = runs BY <2>2
  <2>3. CASE runs' = [runs EXCEPT ![t].state = IF RunEvents = 1 THEN "terminal" ELSE "live",
                                  ![t].emitted = 1]
    BY <2>1, <2>3
  <2> QED BY <2>2, <2>3 DEF startAcceptedTurn
<1>5. Keeps(u) BY <1>1, <1>2, <1>3, <1>4, KeepsStill DEF Phase
<1> QED BY <1>2, <1>5, StreamStill

LEMMA AdvanceStream ==
  ASSUME ServerType, QueueInv, StreamInv, NEW t \in Turn, advanceSession(t) PROVE StreamInv'
<1> SUFFICES ASSUME NEW u \in Turn PROVE StreamUnchanged(u) /\ Keeps(u) BY StreamKept
<1>1. UNCHANGED <<stop, hubClosed, events, runs>> BY DEF advanceSession, hub, agent
<1>2. pc[t] = "advance" /\ pc \in [Turn -> Phase] BY AdvanceStep DEF ServerType, TurnType
<1>3. Delivered(u)' = Delivered(u) BY <1>1 DEF Delivered
<1>4. u \in eventsDone \/ advancer = u => pc[u] \in {"advance", "over"} BY DEF StreamInv, PhaseInv
<1>5. /\ eventsDone \subseteq eventsDone'
      /\ u \in eventsDone' \/ advancer' = u => u \in eventsDone \/ advancer = u
  <2>1. CASE Unwind BY <2>1, UnwindStream DEF ServerType
  <2>2. CASE UNCHANGED <<eventsDone, advancer>> BY <2>2
  <2> QED BY <2>1, <2>2, AdvanceStep
\* A goroutine moves to its end, or from the queue to its admission.
<1>6. \A v \in Turn :
        \/ pc'[v] = pc[v]
        \/ pc'[v] = "over" /\ pc[v] \in {"advance", "queued"}
        \/ pc'[v] = "admit" /\ pc[v] = "queued"
  <2> SUFFICES ASSUME NEW v \in Turn
               PROVE  \/ pc'[v] = pc[v]
                      \/ pc'[v] = "over" /\ pc[v] \in {"advance", "queued"}
                      \/ pc'[v] = "admit" /\ pc[v] = "queued"
    OBVIOUS
  <2>1. CASE pc' = [w \in Turn |-> IF w = t \/ Contains(pendingTurns, w) THEN "over" ELSE pc[w]]
    <3>1. Contains(pendingTurns, v) => pc[v] = "queued"
      <4>1. pendingTurns \in Seq(Turn) BY QueueFacts
      <4> QED BY <4>1 DEF Contains, QueueInv
    <3> QED BY <1>2, <2>1, <3>1
  <2>2. CASE At(t, "over") BY <1>2, <2>2 DEF At
  <2>3. CASE /\ pc' = [pc EXCEPT ![t] = "over", ![pendingTurns[1]] = "admit"]
             /\ pendingTurns[1] \in Turn /\ pc[pendingTurns[1]] = "queued"
    BY <1>2, <2>3
  <2> QED BY <2>1, <2>2, <2>3, AdvanceStep
<1>7. Keeps(u) BY <1>1, <1>3, <1>4, <1>5, <1>6 DEF Keeps
<1> QED BY <1>1, <1>7, StreamStill

-----------------------------------------------------------------------------
(* Steps that publish what RunEventsInOrder is about. *)

\* One event e of turn t is published at n.
LEMMA PublishedOne ==
  ASSUME StreamType, NEW e \in SessionEvent, events' = Append(events, e),
         NEW n, n = Len(events) + 1, NEW u
  PROVE  /\ n \in Nat
         /\ RunEventsOf(u)' = RunEventsOf(u) \cup (IF e[1] = "turn_event" /\ e[2] = u THEN {n} ELSE {})
         /\ AdmissionOf(u)' = AdmissionOf(u) \cup (IF e[1] = "turn_admitted" /\ e[2] = u THEN {n} ELSE {})
         /\ ScopeEndOf(u)' = ScopeEndOf(u) \cup (IF e[1] = "scope_event" /\ e[2] = u THEN {n} ELSE {})
         /\ \A i \in RunEventsOf(u) \cup AdmissionOf(u) \cup ScopeEndOf(u) :
              i \in Nat /\ i < n /\ Number(i)' = Number(i)
         /\ Number(n)' = e[3]
<1>1. /\ \A type : Published(type, u)' =
              Published(type, u) \cup (IF e[1] = type /\ e[2] = u THEN {n} ELSE {})
      /\ \A i \in 1..Len(events) : events'[i] = events[i]
      /\ events'[n] = e /\ Len(events) \in Nat
  BY PublishedAppend
<1>2. \A i \in RunEventsOf(u) \cup AdmissionOf(u) \cup ScopeEndOf(u) : i \in 1..Len(events)
  BY PublishedIn DEF RunEventsOf, AdmissionOf, ScopeEndOf
<1> QED BY <1>1, <1>2 DEF RunEventsOf, AdmissionOf, ScopeEndOf, Number

\* The admission of a turn follows those of the turns before it.
LEMMA AdmittedStream ==
  ASSUME ServerType, QueueInv, StreamInv, NEW t \in Turn, AnnounceAdmitted(t) PROVE StreamInv'
<1> DEFINE e == newSessionLifecycleEvent(t, "turn_admitted")
<1>1. /\ e \in SessionEvent /\ publish(e) /\ e[1] = "turn_admitted" /\ e[2] = t /\ pc[t] = "admit" /\ At(t, "start")
      /\ UNCHANGED <<eventsDone, advancer, stop, runs>>
  BY SessionEvents DEF AnnounceAdmitted, agent, newSessionLifecycleEvent
<1> HIDE DEF e
<1>2. /\ pc' \in [Turn -> Phase] /\ pc'[t] = "start" /\ \A v \in Turn : v # t => pc'[v] = pc[v]
      /\ pc \in [Turn -> Phase]
  BY <1>1, PhaseType DEF ServerType, TurnType, Phase
<1>3. /\ hubClosed' = hubClosed /\ \A u \in Turn : Delivered(u)' = Delivered(u)
  BY <1>1, PublishStep DEF Delivered
<1>4. CASE hubClosed
  <2>1. events' = events BY <1>1, <1>4, PublishStep
  <2> SUFFICES ASSUME NEW u \in Turn PROVE Keeps(u) BY <2>1, StreamKept, StreamStill
  <2>2. u \in eventsDone \/ advancer = u => pc[u] \in {"advance", "over"} BY DEF StreamInv, PhaseInv
  <2> QED BY <1>1, <1>2, <1>3, <1>4, <2>2 DEF Keeps
<1>5. CASE ~hubClosed
  <2> DEFINE n == Len(events) + 1
  <2>1. events' = Append(events, e) /\ n = Len(events) + 1 BY <1>1, <1>5, PublishStep
  <2> HIDE DEF n
  <2>2. \A u \in Turn :
          /\ n \in Nat
          /\ RunEventsOf(u)' = RunEventsOf(u) /\ ScopeEndOf(u)' = ScopeEndOf(u)
          /\ AdmissionOf(u)' = AdmissionOf(u) \cup (IF t = u THEN {n} ELSE {})
          /\ \A i \in RunEventsOf(u) \cup AdmissionOf(u) \cup ScopeEndOf(u) :
               i \in Nat /\ i < n /\ Number(i)' = Number(i)
    <3> SUFFICES ASSUME NEW u \in Turn
                 PROVE  /\ n \in Nat
                        /\ RunEventsOf(u)' = RunEventsOf(u) /\ ScopeEndOf(u)' = ScopeEndOf(u)
                        /\ AdmissionOf(u)' = AdmissionOf(u) \cup (IF t = u THEN {n} ELSE {})
                        /\ \A i \in RunEventsOf(u) \cup AdmissionOf(u) \cup ScopeEndOf(u) :
                             i \in Nat /\ i < n /\ Number(i)' = Number(i)
      OBVIOUS
    <3>1. StreamType BY DEF ServerType
    <3>2. /\ n \in Nat
          /\ RunEventsOf(u)' = RunEventsOf(u) \cup (IF e[1] = "turn_event" /\ e[2] = u THEN {n} ELSE {})
          /\ AdmissionOf(u)' = AdmissionOf(u) \cup (IF e[1] = "turn_admitted" /\ e[2] = u THEN {n} ELSE {})
          /\ ScopeEndOf(u)' = ScopeEndOf(u) \cup (IF e[1] = "scope_event" /\ e[2] = u THEN {n} ELSE {})
          /\ \A i \in RunEventsOf(u) \cup AdmissionOf(u) \cup ScopeEndOf(u) :
               i \in Nat /\ i < n /\ Number(i)' = Number(i)
      BY <1>1, <2>1, <3>1, PublishedOne
    <3> QED BY <1>1, <3>2
  <2> SUFFICES ASSUME NEW u \in Turn PROVE OrderInv(u)' /\ PhaseInv(u)' BY DEF StreamInv
  <2>3. OrderInv(u) /\ PhaseInv(u) BY DEF StreamInv
  <2>4. RunEventsOf(t) = {} BY <1>1 DEF StreamInv, PhaseInv
  \* A later turn would not have been admitted while t was not.
  <2>5. \A v \in Turn : t < v => AdmissionOf(v) = {}
    <3> SUFFICES ASSUME NEW v \in Turn, t < v PROVE AdmissionOf(v) = {} OBVIOUS
    <3>1. PhaseInv(v) BY DEF StreamInv
    <3> QED BY <1>1, <3>1 DEF PhaseInv
  <2>6. OrderInv(u)'
    <3>1. \A i, j \in RunEventsOf(u)' : i < j => Number(i)' < Number(j)' BY <2>2, <2>3 DEF OrderInv
    <3>2. \A i \in RunEventsOf(u)' : \E a \in AdmissionOf(u)' : a < i BY <2>2, <2>3 DEF OrderInv
    <3>3. \A i \in RunEventsOf(u)', j \in ScopeEndOf(u)' : i < j BY <2>2, <2>3 DEF OrderInv
    <3>4. ASSUME NEW v \in Turn, u < v, NEW x \in AdmissionOf(u)', NEW y \in AdmissionOf(v)' PROVE x < y
      <4>1. CASE v = t
        <5>1. u # t /\ x \in AdmissionOf(u) BY <2>2, <3>4, <4>1, TurnFacts
        <5>2. CASE y \in AdmissionOf(v) BY <2>3, <3>4, <5>1, <5>2 DEF OrderInv
        <5>3. CASE y = n BY <2>2, <5>1, <5>3
        <5> QED BY <2>2, <3>4, <5>2, <5>3
      <4>2. CASE v # t
        <5>1. y \in AdmissionOf(v) BY <2>2, <3>4, <4>2
        <5>2. u # t BY <2>5, <3>4, <5>1
        <5> QED BY <2>2, <2>3, <3>4, <5>1, <5>2 DEF OrderInv
      <4> QED BY <4>1, <4>2
    <3> QED BY <3>1, <3>2, <3>3, <3>4 DEF OrderInv
  <2>7. PhaseInv(u)'
    <3>0. u \in eventsDone \/ advancer = u => pc[u] \in {"advance", "over"} BY <2>3 DEF PhaseInv
    <3>1. CASE u # t
      <4>1. /\ pc'[u] = pc[u] /\ AdmissionOf(u)' = AdmissionOf(u)
            /\ \A k : Complete(u, k)' <=> Complete(u, k)
        BY <1>2, <2>2, <3>1 DEF Complete
      <4>2. AdmissionOf(u)' # {} => \A v \in Turn : v < u => pc'[v] \notin {"new", "queued", "admit"}
        BY <1>2, <2>3, <4>1 DEF PhaseInv
      <4> QED BY <1>1, <1>3, <2>2, <2>3, <4>1, <4>2 DEF PhaseInv
    <3>2. CASE u = t
      <4>1. \A v \in Turn : v < t => pc'[v] \notin {"new", "queued", "admit"}
        <5> SUFFICES ASSUME NEW v \in Turn, v < t PROVE pc[v] \notin {"new", "queued", "admit"}
          BY <1>2, TurnFacts
        <5>1. activeTurn = t BY <1>1 DEF QueueInv, Serving
        <5>2. pc[v] # "new" BY <1>1 DEF QueueInv
        <5>3. pc[v] # "queued"
          <6>1. /\ t \in Nat /\ v \in Nat
                /\ \A i \in 1..Len(pendingTurns) : pendingTurns[i] \in Nat
            BY QueueFacts
          <6>2. \A i \in 1..Len(pendingTurns) : t < pendingTurns[i] BY <5>1 DEF QueueInv
          <6> QED BY <6>1, <6>2 DEF QueueInv
        <5>4. pc[v] # "admit"
          <6>1. v # t /\ t # None BY TurnFacts
          <6> QED BY <5>1, <6>1 DEF QueueInv, Serving
        <5> QED BY <5>2, <5>3, <5>4
      <4> QED BY <1>1, <1>2, <1>3, <2>2, <2>3, <2>4, <3>0, <3>2, <4>1 DEF PhaseInv
    <3> QED BY <3>1, <3>2
  <2> QED BY <2>6, <2>7
<1> QED BY <1>4, <1>5

\* The watcher publishes the next event of its turn, or goes on to the next turn.
LEMMA WatchStream ==
  ASSUME ServerType, \A r \in Run : EmittedInv(r), StreamInv, NEW t \in Turn, RunInv(t), watchAcceptedTurn(t)
  PROVE  StreamInv'
<1>1. /\ pc[t] = "forward" /\ UNCHANGED <<eventsDone, stop>> BY DEF watchAcceptedTurn
<1>2. hubClosed' = hubClosed
  <2>1. CASE \E e : publish(e) BY <2>1, PublishStep
  <2>2. CASE UNCHANGED hub BY <2>2 DEF hub
  <2> QED BY <2>1, <2>2 DEF watchAcceptedTurn
<1>3. \A u \in Turn : u # t => Delivered(u)' = Delivered(u)
  <2> SUFFICES ASSUME NEW u \in Turn, u # t PROVE runs'[u] = runs[u] BY DEF Delivered
  <2>1. t \in Run /\ u \in Run /\ runs \in [Run -> RunRecord] BY RunFacts
  <2>2. \/ runs' = runs
        \/ runs' = [runs EXCEPT ![t].backfill = Tail(@)]
        \/ runs' = [runs EXCEPT ![t].queue = Tail(@)]
    BY DEF watchAcceptedTurn
  <2> QED BY <2>1, <2>2
<1>4. CASE At(t, "advance") /\ advancer' = t /\ UNCHANGED hub /\ (~stop => Delivered(t) = RunEvents)
  <2> SUFFICES ASSUME NEW u \in Turn PROVE StreamUnchanged(u) /\ Keeps(u) BY StreamKept
  <2>1. /\ pc' \in [Turn -> Phase] /\ pc'[t] = "advance" /\ \A v \in Turn : v # t => pc'[v] = pc[v]
    BY <1>4, PhaseType DEF ServerType, Phase
  <2>2. u \in eventsDone \/ advancer = u => pc[u] \in {"advance", "over"} BY DEF StreamInv, PhaseInv
  <2>3. events' = events BY <1>4 DEF hub
  <2>4. advancer' = t /\ eventsDone' = eventsDone /\ stop' = stop /\ (~stop => Delivered(t) = RunEvents)
    BY <1>1, <1>4
  <2>5. CASE u = t
    <3>1. /\ pc[u] = "forward" /\ pc'[u] = "advance" /\ eventsDone \subseteq eventsDone'
          /\ \A v \in Turn : pc[v] \notin {"new", "queued", "admit"} => pc'[v] \notin {"new", "queued", "admit"}
      BY <1>1, <2>1, <2>5
    <3>2. ~stop' => Delivered(u) = RunEvents BY <2>4, <2>5
    <3>3. (stop => stop') /\ (hubClosed => hubClosed') BY <1>1, <1>2
    <3>4. Keeps(u) BY <3>1, <3>2, <3>3 DEF Keeps
    <3> QED BY <2>3, <3>4, StreamStill
  <2>6. CASE u # t
    <3>1. /\ pc'[u] = pc[u] /\ Delivered(u)' = Delivered(u) /\ eventsDone' = eventsDone /\ advancer' # u
          /\ \A v \in Turn : pc[v] \notin {"new", "queued", "admit"} => pc'[v] \notin {"new", "queued", "admit"}
      BY <1>1, <1>3, <2>1, <2>4, <2>6
    <3>2. (stop => stop') /\ (hubClosed => hubClosed') /\ hubClosed' = hubClosed BY <1>1, <1>2
    <3>3. Keeps(u) BY <2>2, <3>1, <3>2 DEF Keeps
    <3> QED BY <2>3, <3>3, StreamStill
  <2> QED BY <2>5, <2>6
<1>5. CASE /\ UNCHANGED <<pc, advancer>> /\ Delivered(t) \in Nat /\ Delivered(t) < RunEvents
           /\ publish(newSessionRuntimeEvent(t, Delivered(t) + 1))
           /\ Delivered(t)' = Delivered(t) + 1
  <2>0. PICK m, n : m = Delivered(t) + 1 /\ n = Len(events) + 1 OBVIOUS
  <2> DEFINE d == Delivered(t)
             e == newSessionRuntimeEvent(t, m)
  <2>1. /\ RunEvents \in Nat /\ d \in Nat /\ m \in Nat /\ m = d + 1 /\ m \in 1..RunEvents /\ n = Len(events) + 1
        /\ Delivered(t)' = m
    BY <1>5, <2>0, TurnFacts
  <2>2. e \in SessionEvent /\ publish(e) /\ e[1] = "turn_event" /\ e[2] = t /\ e[3] = m
    BY <1>5, <2>0, <2>1, SessionEvents DEF newSessionRuntimeEvent
  <2> HIDE DEF e
  <2>3. CASE hubClosed
    <3>1. events' = events BY <2>2, <2>3, PublishStep
    <3>2. stop BY <2>3 DEF ServerType, StreamType
    <3> SUFFICES ASSUME NEW u \in Turn PROVE OrderInv(u)' /\ PhaseInv(u)' BY DEF StreamInv
    <3>3. OrderInv(u) /\ PhaseInv(u) /\ StreamUnchanged(u) BY <3>1, StreamStill DEF StreamInv
    <3>4. OrderInv(u)' BY <3>1, <3>3, OrderSame, StreamStill
    <3>5. CASE u # t
      <4>1. Keeps(u) BY <1>1, <1>2, <1>3, <1>5, <3>3, <3>5 DEF Keeps, PhaseInv
      <4> QED BY <3>3, <3>4, <4>1, PhaseSame
    <3>6. CASE u = t
      <4>1. \A i \in RunEventsOf(t) : Number(i) \in Nat /\ Number(i) <= d
        <5> SUFFICES ASSUME NEW i \in RunEventsOf(t) PROVE Number(i) \in Nat /\ Number(i) <= d OBVIOUS
        <5>1. events[i] \in SessionEvent /\ events[i][1] = "turn_event"
          BY PublishedIn DEF ServerType, RunEventsOf, Published
        <5> QED BY <1>1, <3>3, <3>6, <5>1, EventNumber, TurnFacts DEF PhaseInv, Number
      <4>2. \A i \in RunEventsOf(t)' : Number(i)' <= m BY <2>1, <3>3, <3>6, <4>1 DEF StreamUnchanged
      <4> QED BY <1>1, <1>2, <1>5, <2>1, <3>2, <3>3, <3>4, <3>6, <4>2 DEF PhaseInv, StreamUnchanged
    <3> QED BY <3>5, <3>6
  <2>4. CASE ~hubClosed
    <3>1. events' = Append(events, e) BY <2>2, <2>4, PublishStep
    <3>2. StreamType BY DEF ServerType
    <3>3. ASSUME NEW u \in Turn
          PROVE  /\ n \in Nat /\ Number(n)' = m
                 /\ RunEventsOf(u)' = RunEventsOf(u) \cup (IF t = u THEN {n} ELSE {})
                 /\ ScopeEndOf(u)' = ScopeEndOf(u) /\ AdmissionOf(u)' = AdmissionOf(u)
                 /\ \A i \in RunEventsOf(u) \cup AdmissionOf(u) \cup ScopeEndOf(u) :
                      i \in Nat /\ i < n /\ Number(i)' = Number(i)
      <4>1. /\ n \in Nat
            /\ RunEventsOf(u)' = RunEventsOf(u) \cup (IF e[1] = "turn_event" /\ e[2] = u THEN {n} ELSE {})
            /\ AdmissionOf(u)' = AdmissionOf(u) \cup (IF e[1] = "turn_admitted" /\ e[2] = u THEN {n} ELSE {})
            /\ ScopeEndOf(u)' = ScopeEndOf(u) \cup (IF e[1] = "scope_event" /\ e[2] = u THEN {n} ELSE {})
            /\ \A i \in RunEventsOf(u) \cup AdmissionOf(u) \cup ScopeEndOf(u) :
                 i \in Nat /\ i < n /\ Number(i)' = Number(i)
            /\ Number(n)' = e[3]
        BY <2>1, <2>2, <3>1, <3>2, PublishedOne, ZenonT(40)
      <4> QED BY <2>2, <4>1
    <3> SUFFICES ASSUME NEW u \in Turn PROVE OrderInv(u)' /\ PhaseInv(u)' BY DEF StreamInv
    <3>4. OrderInv(u) /\ PhaseInv(u) BY DEF StreamInv
    \* The turn has been admitted, and its events so far are the ones before m.
    <3>5. PhaseInv(t) /\ OrderInv(t) BY DEF StreamInv
    <3>6. /\ AdmissionOf(t) # {} /\ ScopeEndOf(t) = {}
          /\ t \notin eventsDone /\ advancer # t
      BY <1>1, <2>4, <3>5 DEF PhaseInv
    <3>7. \A i \in RunEventsOf(t) : Number(i) < m
      <4> SUFFICES ASSUME NEW i \in RunEventsOf(t) PROVE Number(i) < m OBVIOUS
      <4>1. events[i] \in SessionEvent /\ events[i][1] = "turn_event"
        BY <3>2, PublishedIn DEF RunEventsOf, Published
      <4>2. Number(i) \in Nat BY <4>1, EventNumber, TurnFacts DEF Number
      <4>3. Number(i) <= d BY <1>1, <3>5 DEF PhaseInv
      <4> QED BY <2>1, <4>2, <4>3
    <3>8. OrderInv(u)'
      <4>1. ASSUME NEW i \in RunEventsOf(u)', NEW j \in RunEventsOf(u)', i < j PROVE Number(i)' < Number(j)'
        <5>1. i \in RunEventsOf(u) BY <3>3, <4>1
        <5>2. CASE j \in RunEventsOf(u) BY <3>3, <3>4, <4>1, <5>1, <5>2 DEF OrderInv
        <5>3. CASE j \notin RunEventsOf(u)
          <6>1. u = t /\ j = n BY <3>3, <4>1, <5>3
          <6> QED BY <3>3, <3>7, <5>1, <6>1
        <5> QED BY <5>2, <5>3
      <4>2. ASSUME NEW i \in RunEventsOf(u)' PROVE \E a \in AdmissionOf(u)' : a < i
        <5>1. CASE i \in RunEventsOf(u) BY <3>3, <3>4, <5>1 DEF OrderInv
        <5>2. CASE i \notin RunEventsOf(u)
          <6>1. u = t /\ i = n BY <3>3, <4>2, <5>2
          <6> QED BY <3>3, <3>6, <6>1
        <5> QED BY <5>1, <5>2
      <4>3. \A i \in RunEventsOf(u)', j \in ScopeEndOf(u)' : i < j BY <3>3, <3>4, <3>6 DEF OrderInv
      <4>4. \A v \in Turn : u < v => \A x \in AdmissionOf(u)', y \in AdmissionOf(v)' : x < y
        BY <3>3, <3>4 DEF OrderInv
      <4> QED BY <4>1, <4>2, <4>3, <4>4 DEF OrderInv
    <3>9. CASE u # t
      <4>1. RunEventsOf(u)' = RunEventsOf(u) /\ \A k : Complete(u, k)' <=> Complete(u, k)
        BY <3>3, <3>9 DEF Complete
      <4> QED BY <1>1, <1>2, <1>3, <1>5, <3>3, <3>4, <3>8, <3>9, <4>1 DEF PhaseInv
    <3>10. CASE u = t
      <4>1. \A i \in RunEventsOf(t)' : Number(i)' <= m
        <5> SUFFICES ASSUME NEW i \in RunEventsOf(t)' PROVE Number(i)' <= m OBVIOUS
        <5>1. CASE i \in RunEventsOf(t)
          <6>1. events[i] \in SessionEvent /\ events[i][1] = "turn_event"
            BY <3>2, <5>1, PublishedIn DEF RunEventsOf, Published
          <6>2. Number(i) \in Nat BY <6>1, EventNumber, TurnFacts DEF Number
          <6>3. Number(i)' = Number(i) BY <3>3, <5>1
          <6> QED BY <2>1, <3>7, <5>1, <6>2, <6>3
        <5>2. CASE i \notin RunEventsOf(t)
          <6>1. i = n BY <3>3, <5>2
          <6> QED BY <2>1, <3>3, <6>1
        <5> QED BY <5>1, <5>2
      <4>2. ASSUME ~stop PROVE Complete(t, m)'
        <5>1. Complete(t, d) BY <1>1, <3>5, <4>2 DEF PhaseInv
        <5> SUFFICES ASSUME NEW k \in 1..m PROVE \E i \in RunEventsOf(t)' : Number(i)' = k
          BY <2>1 DEF Complete
        <5>2. CASE k = m BY <3>3, <5>2
        <5>3. CASE k # m
          <6>1. k \in 1..d BY <2>1, <5>3
          <6>2. PICK i \in RunEventsOf(t) : Number(i) = k BY <5>1, <6>1 DEF Complete
          <6> QED BY <3>3, <6>2
        <5> QED BY <5>2, <5>3
      <4>3. Complete(t, Delivered(t))' <=> Complete(t, m)' BY <2>1 DEF Complete
      <4>4. AdmissionOf(t)' = AdmissionOf(t) /\ ScopeEndOf(t)' = ScopeEndOf(t) BY <3>3
      <4> QED BY <1>1, <1>2, <1>5, <2>1, <3>5, <3>6, <3>8, <3>10, <4>1, <4>2, <4>3, <4>4 DEF PhaseInv
    <3> QED BY <3>8, <3>9, <3>10
  <2> QED BY <2>3, <2>4
<1>6. EmittedInv(t) BY TurnFacts
<1> QED BY <1>4, <1>5, <1>6, RunWatch

\* The end of a scope follows the events of the turn that ended it.
LEMMA ForwardStream == ASSUME ServerType, StreamInv, Forwarders PROVE StreamInv'
<1>1. UNCHANGED <<server, runs, stop>> BY ForwarderStep
<1>2. PICK e \in SessionEvent :
        /\ publish(e) /\ e[1] \notin {"turn_event", "turn_admitted"}
        /\ e[1] = "scope_event" /\ e[2] \in Turn => e[2] \in eventsDone
  BY ForwarderStep
<1>3. UNCHANGED <<pc, eventsDone, advancer, stop, hubClosed>> /\ \A u \in Turn : Delivered(u)' = Delivered(u)
  BY <1>1, <1>2, PublishStep DEF server, Delivered
<1>4. CASE events' = events BY <1>3, <1>4, StreamAway, StreamStill
<1>5. CASE events' = Append(events, e)
  <2> DEFINE n == Len(events) + 1
  <2>1. n = Len(events) + 1 /\ StreamType BY DEF ServerType
  <2> HIDE DEF n
  <2>2. ASSUME NEW u \in Turn
        PROVE  /\ n \in Nat
               /\ RunEventsOf(u)' = RunEventsOf(u) /\ AdmissionOf(u)' = AdmissionOf(u)
               /\ ScopeEndOf(u)' = ScopeEndOf(u) \cup (IF e[1] = "scope_event" /\ e[2] = u THEN {n} ELSE {})
               /\ \A i \in RunEventsOf(u) \cup AdmissionOf(u) \cup ScopeEndOf(u) :
                    i \in Nat /\ i < n /\ Number(i)' = Number(i)
    <3>1. /\ n \in Nat
          /\ RunEventsOf(u)' = RunEventsOf(u) \cup (IF e[1] = "turn_event" /\ e[2] = u THEN {n} ELSE {})
          /\ AdmissionOf(u)' = AdmissionOf(u) \cup (IF e[1] = "turn_admitted" /\ e[2] = u THEN {n} ELSE {})
          /\ ScopeEndOf(u)' = ScopeEndOf(u) \cup (IF e[1] = "scope_event" /\ e[2] = u THEN {n} ELSE {})
          /\ \A i \in RunEventsOf(u) \cup AdmissionOf(u) \cup ScopeEndOf(u) :
               i \in Nat /\ i < n /\ Number(i)' = Number(i)
      BY <1>5, <2>1, PublishedOne
    <3> QED BY <1>2, <3>1
  <2> SUFFICES ASSUME NEW u \in Turn PROVE OrderInv(u)' /\ PhaseInv(u)' BY DEF StreamInv
  <2>3. OrderInv(u) /\ PhaseInv(u) BY DEF StreamInv
  <2>4. OrderInv(u)' BY <2>2, <2>3 DEF OrderInv
  <2>5. ScopeEndOf(u)' # {} => u \in eventsDone BY <1>2, <2>2, <2>3 DEF PhaseInv
  <2>6. \A k : Complete(u, k)' <=> Complete(u, k) BY <2>2 DEF Complete
  <2> QED BY <1>3, <2>2, <2>3, <2>4, <2>5, <2>6 DEF PhaseInv
<1> QED BY <1>2, <1>4, <1>5, PublishStep
-----------------------------------------------------------------------------
(* The invariant of the server, step by step. *)

\* The runs of other turns, and phases the run of a turn does not depend on.
LEMMA RunsSame ==
  ASSUME ServerType, \A u \in Turn : RunInv(u), NEW t \in Turn, NEW p \in Phase, At(t, p), UNCHANGED runs,
         \/ p \in {"reject", "advance", "over", "refused", "cancel"}
         \/ pc[t] \in {"new", "queued", "admit"} /\ p \in {"queued", "admit", "start"}
  PROVE  \A u \in Turn : RunInv(u)'
<1> SUFFICES ASSUME NEW u \in Turn PROVE RunInv(u)' OBVIOUS
<1>1. pc'[t] = p /\ \A v \in Turn : v # t => pc'[v] = pc[v] BY PhaseType DEF ServerType
<1>2. CASE u = t BY <1>1, <1>2, RunSame
<1>3. CASE u # t BY <1>1, <1>3, RunSame
<1> QED BY <1>2, <1>3

LEMMA RunsStill ==
  ASSUME \A u \in Turn : RunInv(u), UNCHANGED <<pc, runs>> PROVE \A u \in Turn : RunInv(u)'
  BY RunSame

LEMMA EmittedStill ==
  ASSUME \A r \in Run : EmittedInv(r), UNCHANGED runs PROVE \A r \in Run : EmittedInv(r)'
  BY EmittedSame

\* A step that moves the goroutine of t and changes its run.
LEMMA RunsOther ==
  ASSUME ServerType, \A u \in Turn : RunInv(u), NEW t \in Turn, NEW p \in Phase, At(t, p) \/ UNCHANGED pc,
         RunInv(t)', \A u \in Turn : u # t => runs'[u] = runs[u]
  PROVE  \A u \in Turn : RunInv(u)'
<1> SUFFICES ASSUME NEW u \in Turn, u # t PROVE RunInv(u)' OBVIOUS
<1>1. pc'[u] = pc[u] BY PhaseType DEF ServerType
<1> QED BY <1>1, RunSame

\* The record of one run changes.
LEMMA OtherRuns ==
  ASSUME ServerType, NEW t \in Turn, NEW u \in Turn, u # t,
         startAcceptedTurn(t) \/ WatchSubscribe(t) \/ WatchReplay(t) \/ watchAcceptedTurn(t)
  PROVE  runs'[u] = runs[u]
<1>1. t \in Run /\ u \in Run /\ runs \in [Run -> RunRecord] BY RunFacts
<1>2. CASE startAcceptedTurn(t)
  <2>1. \/ runs' = runs
        \/ runs' = [runs EXCEPT ![t].state = IF RunEvents = 1 THEN "terminal" ELSE "live", ![t].emitted = 1]
    BY <1>2 DEF startAcceptedTurn
  <2> QED BY <1>1, <2>1
<1>3. CASE WatchSubscribe(t) BY <1>1, <1>3 DEF WatchSubscribe
<1>4. CASE WatchReplay(t) BY <1>1, <1>4 DEF WatchReplay
<1>5. CASE watchAcceptedTurn(t)
  <2>1. \/ runs' = runs
        \/ runs' = [runs EXCEPT ![t].backfill = Tail(@)]
        \/ runs' = [runs EXCEPT ![t].queue = Tail(@)]
    BY <1>5 DEF watchAcceptedTurn
  <2> QED BY <1>1, <2>1
<1> QED BY <1>2, <1>3, <1>4, <1>5

\* The steps of a turn.
LEMMA SubmitInv == ASSUME ServerInv, NEW t \in Turn, submitTurn(t) PROVE ServerInv'
<1>1. UNCHANGED runs /\ pc[t] = "new" BY DEF submitTurn, agent
<1>2. PICK p \in {"admit", "queued", "refused"} : At(t, p) BY DEF submitTurn
<1>3. \A u \in Turn : RunInv(u)' BY <1>1, <1>2, RunsSame DEF ServerInv, Phase
<1> QED BY <1>1, <1>3, EmittedStill, SubmitType, SubmitQueue, SubmitStream DEF ServerInv

LEMMA AnnounceQueuedInv == ASSUME ServerInv, NEW t \in Turn, AnnounceQueued(t) PROVE ServerInv'
<1>1. UNCHANGED <<pc, resolved, activeTurn, pendingTurns, runs>> BY DEF AnnounceQueued, agent
<1> QED BY <1>1, QueueSame, EmittedStill, RunsStill, AnnounceQueuedType, AnnounceQueuedStream DEF ServerInv

LEMMA AnnounceAdmittedInv == ASSUME ServerInv, NEW t \in Turn, AnnounceAdmitted(t) PROVE ServerInv'
<1>1. UNCHANGED runs /\ pc[t] = "admit" /\ At(t, "start") BY DEF AnnounceAdmitted, agent
<1>2. \A u \in Turn : RunInv(u)' BY <1>1, RunsSame DEF ServerInv, Phase
<1> QED BY <1>1, <1>2, ServedQueue, EmittedStill, AnnounceAdmittedType, AdmittedStream DEF ServerInv

LEMMA AnnounceRejectedInv == ASSUME ServerInv, NEW t \in Turn, AnnounceRejected(t) PROVE ServerInv'
<1>1. UNCHANGED runs /\ At(t, "advance") BY DEF AnnounceRejected, agent
<1>2. \A u \in Turn : RunInv(u)' BY <1>1, RunsSame DEF ServerInv, Phase
<1> QED BY <1>1, <1>2, ServedQueue, EmittedStill, AnnounceRejectedType, AnnounceRejectedStream DEF ServerInv

LEMMA AnnounceCancelledInv == ASSUME ServerInv, NEW t \in Turn, AnnounceCancelled(t) PROVE ServerInv'
<1>1. UNCHANGED runs /\ At(t, "over") BY DEF AnnounceCancelled, agent
<1>2. \A u \in Turn : RunInv(u)' BY <1>1, RunsSame DEF ServerInv, Phase
<1> QED BY <1>1, <1>2, CancelledQueue, EmittedStill, AnnounceCancelledType, AnnounceCancelledStream DEF ServerInv

LEMMA CancelInv == ASSUME ServerInv, NEW t \in Turn, cancelQueuedTurn(t) PROVE ServerInv'
<1>1. UNCHANGED runs /\ At(t, "cancel") BY DEF cancelQueuedTurn, agent
<1>2. \A u \in Turn : RunInv(u)' BY <1>1, RunsSame DEF ServerInv, Phase
<1> QED BY <1>1, <1>2, CancelQueue, EmittedStill, CancelType, CancelStream DEF ServerInv

LEMMA StartInv == ASSUME ServerInv, NEW t \in Turn, startAcceptedTurn(t) PROVE ServerInv'
<1>1. At(t, "watch") \/ At(t, "reject") BY DEF startAcceptedTurn
<1>2. RunInv(t)' BY RunStart DEF ServerInv
<1>3. \A u \in Turn : RunInv(u)' BY <1>1, <1>2, OtherRuns, RunsOther DEF ServerInv, Phase
<1> QED BY <1>3, StartQueue, EmittedStart, StartType, StartStream DEF ServerInv

LEMMA SubscribeRunInv == ASSUME ServerInv, NEW t \in Turn, WatchSubscribe(t) PROVE ServerInv'
<1>1. At(t, "replay") BY DEF WatchSubscribe
<1>2. RunInv(t)' BY RunSubscribe DEF ServerInv
<1>3. \A u \in Turn : RunInv(u)' BY <1>1, <1>2, OtherRuns, RunsOther DEF ServerInv, Phase
<1> QED BY <1>3, ServedQueue, EmittedWatch, WatchSubscribeType, SubscribeStream DEF ServerInv

LEMMA ReplayRunInv == ASSUME ServerInv, NEW t \in Turn, WatchReplay(t) PROVE ServerInv'
<1>1. At(t, "forward") BY DEF WatchReplay
<1>2. RunInv(t)' BY RunReplay DEF ServerInv
<1>3. \A u \in Turn : RunInv(u)' BY <1>1, <1>2, OtherRuns, RunsOther DEF ServerInv, Phase
<1> QED BY <1>3, ServedQueue, EmittedWatch, WatchReplayType, ReplayStream DEF ServerInv

LEMMA WatchInv == ASSUME ServerInv, NEW t \in Turn, watchAcceptedTurn(t) PROVE ServerInv'
<1>1. At(t, "advance") \/ UNCHANGED pc BY DEF watchAcceptedTurn
<1>2. RunInv(t) BY DEF ServerInv
<1>3. RunInv(t)' BY <1>2, RunWatch DEF ServerInv
<1>4. \A u \in Turn : RunInv(u)' BY <1>1, <1>3, OtherRuns, RunsOther DEF ServerInv, Phase
<1> QED BY <1>2, <1>4, ServedQueue, EmittedWatch, WatchAcceptedType, WatchStream DEF ServerInv

LEMMA AdvanceInv == ASSUME ServerInv, NEW t \in Turn, advanceSession(t) PROVE ServerInv'
<1>1. UNCHANGED runs BY DEF advanceSession, agent
<1>2. \A u \in Turn : RunInv(u)'
  <2> SUFFICES ASSUME NEW u \in Turn PROVE RunInv(u)' OBVIOUS
  <2>1. pc \in [Turn -> Phase] BY DEF ServerInv, ServerType, TurnType
  <2>2. pc'[u] = pc[u] \/ pc'[u] = "over" \/ (pc'[u] = "admit" /\ pc[u] = "queued")
    <3>1. CASE pc' = [v \in Turn |-> IF v = t \/ Contains(pendingTurns, v) THEN "over" ELSE pc[v]]
      BY <3>1
    <3>2. CASE At(t, "over") BY <2>1, <3>2 DEF At
    <3>3. CASE /\ pc' = [pc EXCEPT ![t] = "over", ![pendingTurns[1]] = "admit"]
               /\ pendingTurns[1] \in Turn /\ pc[pendingTurns[1]] = "queued"
      BY <2>1, <3>3
    <3> QED BY <3>1, <3>2, <3>3, AdvanceStep DEF ServerInv
  <2> QED BY <1>1, <2>2, RunSame DEF ServerInv
<1> QED BY <1>1, <1>2, AdvanceQueue, EmittedStill, AdvanceType, AdvanceStream DEF ServerInv

\* The steps of the Agent, the forwarders and the server's end.
LEMMA RunStepInv == ASSUME ServerInv, NEW r \in Run, RunStep(r) PROVE ServerInv'
<1>1. /\ UNCHANGED <<pc, resolved, activeTurn, pendingTurns, eventsDone, advancer, events, stop, hubClosed>>
      /\ EmittedInv(r)
  BY DEF RunStep, transition, markEffectsDone, unregister, server, hub, ServerInv
<1>2. \A u \in Turn : RunInv(u)' /\ (pc[u] = "forward" => Delivered(u)' = Delivered(u))
  <2> SUFFICES ASSUME NEW u \in Turn PROVE RunInv(u)' /\ (pc[u] = "forward" => Delivered(u)' = Delivered(u))
    OBVIOUS
  <2>1. ServerType /\ RunInv(u) BY DEF ServerInv
  <2>2. CASE u = r BY <2>1, <2>2, RunTransition, RunEnds DEF RunStep
  <2>3. CASE u # r
    <3>1. u \in Run /\ runs \in [Run -> RunRecord] BY <2>1, RunFacts
    <3>2. runs'[u] = runs[u]
      <4>1. CASE transition(r) BY <2>3, <3>1, <4>1 DEF transition
      <4>2. CASE markEffectsDone(r) BY <2>3, <3>1, <4>2 DEF markEffectsDone
      <4>3. CASE unregister(r) BY <2>3, <3>1, <4>3 DEF unregister
      <4> QED BY <4>1, <4>2, <4>3 DEF RunStep
    <3> QED BY <1>1, <2>1, <3>2, RunSame DEF Delivered
  <2> QED BY <2>2, <2>3
<1>3. StreamInv' BY <1>1, <1>2, StreamAway, StreamStill DEF ServerInv
<1> QED BY <1>1, <1>2, <1>3, QueueSame, EmittedRunStep, RunStepType DEF ServerInv

LEMMA ContinuationInv == ASSUME ServerInv, NEW r \in Continuation, startContinuation(r) PROVE ServerInv'
<1>1. UNCHANGED <<pc, resolved, activeTurn, pendingTurns, eventsDone, advancer, events, stop, hubClosed>>
  BY DEF startContinuation, server, hub
<1>2. \A u \in Turn : runs'[u] = runs[u]
  <2> SUFFICES ASSUME NEW u \in Turn PROVE runs'[u] = runs[u] OBVIOUS
  <2>1. u \in Run /\ runs \in [Run -> RunRecord] BY RunFacts DEF ServerInv
  <2>2. u # r BY TurnFacts
  <2> QED BY <2>1, <2>2 DEF startContinuation
<1>3. \A u \in Turn : RunInv(u)' /\ Delivered(u)' = Delivered(u) BY <1>1, <1>2, RunSame DEF ServerInv, Delivered
<1>4. StreamInv' BY <1>1, <1>3, StreamAway, StreamStill DEF ServerInv
<1> QED BY <1>1, <1>3, <1>4, QueueSame, EmittedContinuation, ContinuationType DEF ServerInv

\* Steps that leave turns and runs alone and publish nothing.
LEMMA AwayInv ==
  ASSUME ServerInv, ServerType', UNCHANGED <<server, runs, events>>, (stop => stop') /\ (hubClosed => hubClosed')
  PROVE  ServerInv'
<1>1. /\ UNCHANGED <<pc, resolved, activeTurn, pendingTurns, eventsDone, advancer, events, runs>>
      /\ \A u \in Turn : Delivered(u)' = Delivered(u)
  BY DEF server, Delivered
<1>2. StreamInv' BY <1>1, StreamAway, StreamStill DEF ServerInv
<1> QED BY <1>1, <1>2, QueueSame, EmittedStill, RunsStill DEF ServerInv

LEMMA ForwarderInv == ASSUME ServerInv, Forwarders PROVE ServerInv'
<1>1. UNCHANGED <<server, runs>> /\ ServerType' BY ForwarderStep DEF ServerInv
<1>2. UNCHANGED <<pc, resolved, activeTurn, pendingTurns, runs>> BY <1>1 DEF server
<1> QED BY <1>1, <1>2, ForwardStream, QueueSame, EmittedStill, RunsStill DEF ServerInv

LEMMA ServerInvInit == Init => ServerInv
<1> SUFFICES ASSUME Init PROVE ServerInv OBVIOUS
<1>1. ServerType BY TypeInit
<1>2. /\ pc = [t \in Turn |-> "new"] /\ resolved = [t \in Turn |-> "none"] /\ activeTurn = None
      /\ pendingTurns = <<>> /\ Len(pendingTurns) = 0 /\ advancer = None /\ eventsDone = {}
      /\ runs = [r \in Run |-> newRun] /\ events = <<>> /\ None \notin Turn /\ Turn \subseteq Run
      /\ QueueLimit \in Nat
  BY TurnFacts DEF Init, HubInit
<1>3. QueueInv BY <1>2 DEF QueueInv, Serving
<1>4. \A r \in Run : EmittedInv(r) BY <1>2 DEF EmittedInv, newRun, Over, Done
<1>5. \A t \in Turn : RunInv(t)
  <2> SUFFICES ASSUME NEW t \in Turn PROVE RunInv(t) OBVIOUS
  <2>1. pc[t] = "new" /\ runs[t] = newRun BY <1>2
  <2> QED BY <2>1 DEF RunInv, Unwatched, newRun
<1>6. StreamInv
  <2> SUFFICES ASSUME NEW t \in Turn PROVE OrderInv(t) /\ PhaseInv(t) BY DEF StreamInv
  <2>1. \A u : RunEventsOf(u) = {} /\ AdmissionOf(u) = {} /\ ScopeEndOf(u) = {}
    BY <1>2 DEF RunEventsOf, AdmissionOf, ScopeEndOf, Published
  <2>2. pc[t] = "new" /\ advancer # t /\ t \notin eventsDone BY <1>2
  <2> QED BY <2>1, <2>2 DEF OrderInv, PhaseInv
<1> QED BY <1>1, <1>3, <1>4, <1>5, <1>6 DEF ServerInv

LEMMA ServerInvNext == ServerInv /\ [Next]_vars => ServerInv'
<1> SUFFICES ASSUME ServerInv, [Next]_vars PROVE ServerInv' OBVIOUS
<1>1. ASSUME NEW t \in Turn,
             submitTurn(t) \/ cancelQueuedTurn(t) \/ startAcceptedTurn(t) \/ Announce(t) \/ Watch(t)
      PROVE  ServerInv'
  BY <1>1, SubmitInv, CancelInv, StartInv, AnnounceQueuedInv, AnnounceAdmittedInv, AnnounceRejectedInv,
     AnnounceCancelledInv, SubscribeRunInv, ReplayRunInv, WatchInv, AdvanceInv DEF Announce, Watch
<1>2. ASSUME NEW r \in Run, RunStep(r) PROVE ServerInv' BY <1>2, RunStepInv
<1>3. ASSUME NEW r \in Continuation, startContinuation(r) PROVE ServerInv' BY <1>3, ContinuationInv
<1>4. ASSUME NEW t \in Turn, (\E r \in Run : PreEndScope(t, r)) \/ EndScope(t) PROVE ServerInv'
  <2>1. ServerType' /\ UNCHANGED <<hub, server, runs, stop>> BY <1>4, ScopeStepType DEF ServerInv
  <2> QED BY <2>1, AwayInv DEF hub
<1>5. CASE Facts
  <2>1. ServerType' /\ UNCHANGED <<hub, server, runs, stop>> BY <1>5, FactType DEF ServerInv
  <2> QED BY <2>1, AwayInv DEF hub
<1>6. CASE Forwarders BY <1>6, ForwarderInv
<1>7. CASE Shutdown \/ CloseHub \/ \E c \in Client : Stream(c) /\ UNCHANGED <<server, agent, stop>>
  <2>1. /\ ServerType' /\ UNCHANGED <<server, agent, events>> /\ (stop => stop') /\ (hubClosed => hubClosed')
    BY <1>7, StopStep DEF ServerInv
  <2>2. UNCHANGED runs BY <2>1 DEF agent
  <2> QED BY <2>1, <2>2, AwayInv
<1>8. CASE UNCHANGED vars
  <2>1. /\ UNCHANGED <<events, hubClosed, server, runs, stop>> /\ ServerType'
    BY <1>8 DEF vars, hub, agent, server, ServerInv, ServerType, TurnType, AgentType, StreamType
  <2> QED BY <2>1, AwayInv
<1> QED BY <1>1, <1>2, <1>3, <1>4, <1>5, <1>6, <1>7, <1>8 DEF Next

-----------------------------------------------------------------------------
(* What the invariant says. *)

\* The events of a run that is published as a whole are as many as it has.
LEMMA AllPublished ==
  ASSUME StreamType, NEW t \in Turn, OrderInv(t), Complete(t, RunEvents)
  PROVE  Cardinality(RunEventsOf(t)) = RunEvents
<1> DEFINE E == RunEventsOf(t)
           f == [i \in E |-> Number(i)]
<1>1. RunEvents \in Nat BY TurnFacts
<1>2. E \subseteq Nat BY PublishedIn DEF RunEventsOf
<1>3. f \in [E -> 1..RunEvents]
  <2> SUFFICES ASSUME NEW i \in E PROVE Number(i) \in 1..RunEvents OBVIOUS
  <2>1. events[i] \in SessionEvent /\ events[i][1] = "turn_event"
    BY PublishedIn DEF RunEventsOf, Published
  <2> QED BY <2>1, EventNumber DEF Number
<1>4. \A i, j \in E : f[i] = f[j] => i = j
  <2> SUFFICES ASSUME NEW i \in E, NEW j \in E, i # j PROVE f[i] # f[j] OBVIOUS
  <2>1. i < j \/ j < i BY <1>2
  <2>2. f[i] \in Nat /\ f[j] \in Nat BY <1>1, <1>3
  <2>3. i < j => f[i] < f[j] BY DEF OrderInv
  <2>4. j < i => f[j] < f[i] BY DEF OrderInv
  <2> HIDE DEF f, E
  <2> QED BY <2>1, <2>2, <2>3, <2>4
<1>5. \A k \in 1..RunEvents : \E i \in E : f[i] = k BY DEF Complete
<1> HIDE DEF f, E
<1>6. f \in Injection(E, 1..RunEvents) /\ f \in Surjection(E, 1..RunEvents)
  BY <1>3, <1>4, <1>5 DEF Injection, IsInjective, Surjection
<1>7. IsFiniteSet(1..RunEvents) /\ Cardinality(1..RunEvents) = RunEvents
  BY <1>1, FS_Interval
<1>8. Cardinality(E) = RunEvents BY <1>6, <1>7, FS_Injection
<1> QED BY <1>8 DEF E

LEMMA ServerInvOrder == ServerInv => RunEventsInOrder
<1> SUFFICES ASSUME ServerInv, NEW t \in Turn
             PROVE  /\ OrderInv(t)
                    /\ ScopeEndOf(t) # {} /\ ~stop => Cardinality(RunEventsOf(t)) = RunEvents
  BY DEF RunEventsInOrder, OrderInv, RunEventsOf, AdmissionOf, ScopeEndOf, Number
<1>1. OrderInv(t) /\ PhaseInv(t) /\ StreamType BY DEF ServerInv, StreamInv, ServerType
<1>2. ScopeEndOf(t) # {} /\ ~stop => Complete(t, RunEvents) BY <1>1 DEF PhaseInv
<1> QED BY <1>1, <1>2, AllPublished

LEMMA ServerInvType == ServerInv => TypeOK
<1> SUFFICES ASSUME ServerInv PROVE TypeOK OBVIOUS
<1>1. TurnType /\ AgentType /\ StreamType /\ QueueInv BY DEF ServerInv, ServerType
<1>2. IsInjective(pendingTurns)
  <2>1. /\ pendingTurns \in Seq(Turn) /\ Turn \subseteq Nat /\ Len(pendingTurns) \in Nat
        /\ DOMAIN pendingTurns = 1..Len(pendingTurns)
    BY <1>1, TurnFacts DEF TurnType
  <2> SUFFICES ASSUME NEW i \in 1..Len(pendingTurns), NEW j \in 1..Len(pendingTurns), i # j
               PROVE  pendingTurns[i] # pendingTurns[j]
    BY <2>1 DEF IsInjective
  <2>2. pendingTurns[i] \in Nat /\ pendingTurns[j] \in Nat
    <3>1. pendingTurns[i] \in Turn /\ pendingTurns[j] \in Turn BY <2>1, ElementOfSeq
    <3> QED BY <2>1, <3>1
  <2>3. i < j \/ j < i OBVIOUS
  <2>4. /\ i < j => pendingTurns[i] < pendingTurns[j]
        /\ j < i => pendingTurns[j] < pendingTurns[i]
    BY <1>1 DEF QueueInv
  <2> QED BY <2>2, <2>3, <2>4
<1> QED BY <1>1, <1>2 DEF TypeOK, TurnType, AgentType, StreamType, QueueInv, Phase

\* Every step of the server is one of its hub.
LEMMA ServerHub == ServerInv /\ [Next]_vars => [HubNext]_hub
<1> SUFFICES ASSUME ServerInv, [Next]_vars PROVE [HubNext]_hub OBVIOUS
<1>1. ASSUME NEW e \in SessionEvent, publish(e) PROVE HubNext
  BY <1>1, ServerAssumption DEF HubNext
<1>2. ASSUME NEW t \in Turn,
             submitTurn(t) \/ cancelQueuedTurn(t) \/ startAcceptedTurn(t) \/ Announce(t) \/ Watch(t)
      PROVE  HubNext \/ UNCHANGED hub
  <2>1. CASE submitTurn(t) \/ cancelQueuedTurn(t) \/ startAcceptedTurn(t) \/ WatchSubscribe(t)
             \/ WatchReplay(t) \/ advanceSession(t)
    BY <2>1 DEF submitTurn, cancelQueuedTurn, startAcceptedTurn, WatchSubscribe, WatchReplay, advanceSession
  <2>2. CASE Announce(t)
    <3>1. \E type \in {"turn_queued", "turn_admitted", "turn_rejected", "turn_cancelled"} :
            publish(newSessionLifecycleEvent(t, type))
      BY <2>2 DEF Announce, AnnounceQueued, AnnounceAdmitted, AnnounceRejected, AnnounceCancelled
    <3> QED BY <1>1, <3>1, SessionEvents
  <2>3. CASE watchAcceptedTurn(t)
    <3>1. RunInv(t) /\ ServerType /\ RunEvents \in Nat BY TurnFacts DEF ServerInv
    <3>2. CASE UNCHANGED hub BY <3>2
    <3>3. CASE /\ Delivered(t) \in Nat /\ Delivered(t) < RunEvents
               /\ publish(newSessionRuntimeEvent(t, Delivered(t) + 1))
      <4>1. Delivered(t) + 1 \in 1..RunEvents BY <3>1, <3>3
      <4> QED BY <1>1, <3>3, <4>1, SessionEvents
    <3> QED BY <2>3, <3>1, <3>2, <3>3, RunWatch
  <2> QED BY <1>2, <2>1, <2>2, <2>3 DEF Watch
<1>3. ASSUME NEW r \in Run, RunStep(r) PROVE UNCHANGED hub
  BY <1>3 DEF RunStep, transition, markEffectsDone, unregister
<1>4. ASSUME NEW r \in Continuation, startContinuation(r) PROVE UNCHANGED hub BY <1>4 DEF startContinuation
<1>5. ASSUME NEW t \in Turn, (\E r \in Run : PreEndScope(t, r)) \/ EndScope(t) PROVE UNCHANGED hub
  BY <1>5 DEF PreEndScope, EndScope
<1>6. CASE Facts
  BY <1>6 DEF Facts, Fact, publishSystemEvent, publishPermission, publishConfirmation
<1>7. CASE Forwarders
  <2>1. PICK e \in SessionEvent : publish(e) BY <1>7, ForwarderStep DEF ServerInv
  <2> QED BY <1>1, <2>1
<1>8. CASE Shutdown \/ CloseHub BY <1>8 DEF Shutdown, CloseHub, HubNext
<1>9. ASSUME NEW c \in Client, Stream(c) PROVE HubNext BY <1>9 DEF HubNext
<1>10. CASE UNCHANGED vars BY <1>10 DEF vars
<1> QED BY <1>2, <1>3, <1>4, <1>5, <1>6, <1>7, <1>8, <1>9, <1>10 DEF Next

\* The server's invariant, for any turns, queue limit, runs, continuations and
\* facts: one turn is served, the queue holds later ones in order, and what
\* the stream holds of each turn fits how far its watcher is.
THEOREM ServerInvariant == Spec => []ServerInv
  BY ServerInvInit, ServerInvNext, PTL DEF Spec

\* A session's stream holds the events of each turn once and in order, after
\* its admission, turns in the order of their acceptance, and the end of a
\* scope after every event of the turn that ended it
\* (server_session_stream.go), whatever cancellations, continuations and a
\* shutdown do meanwhile.
THEOREM RunEventsOrdered == Spec => []RunEventsInOrder
  BY ServerInvariant, ServerInvOrder, PTL

\* Types, and a queue within its limit that holds no turn twice.
THEOREM ServerTypes == Spec => []TypeOK
  BY ServerInvariant, ServerInvType, PTL

\* A client that reconnects with its last cursor renders every event the
\* server's goroutines publish once and in order (sessionEventHub).
THEOREM ServerStream == Spec => StreamIsTheLog
<1>1. Init => HubInit BY DEF Init
<1>2. Spec => [][HubNext]_hub BY ServerInvariant, ServerHub, PTL DEF Spec
<1>3. Spec => HubSpec BY <1>1, <1>2, PTL DEF Spec, HubSpec
<1> QED BY <1>3, HubImplementsLog
=============================================================================
