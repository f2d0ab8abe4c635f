------------------------------ MODULE EventHub ------------------------------
(***************************************************************************)
(* sessionEventHub: the retained events of a session, and the subscribers  *)
(* that receive them over SSE.  Each subscriber has a queue under the      *)
(* hub's lock, a goroutine that moves the queue to a channel and sleeps on *)
(* a one-place notification channel, and a client that renders what it     *)
(* reads, may lose its connection, and reconnects after its last cursor.   *)
(* The cursor of an event is its place in events, so queues and channels   *)
(* hold cursors.                                                           *)
(***************************************************************************)
EXTENDS Naturals, Sequences

CONSTANTS
  Client, Event,
  MaxDisconnects     \* bound on lost connections of a client

ASSUME HubAssumption == MaxDisconnects \in Nat

VARIABLES
  events,      \* state.events
  hubClosed,
  queue,       \* [Client -> Seq(cursor)]: subscriber.queue
  notify,      \* [Client -> BOOLEAN]: a value in subscriber.notify
  subClosed,   \* [Client -> BOOLEAN]: subscriber.closed
  deliverer,   \* [Client -> "none" | "run" | "wait" | "over"]: hub.deliver
  channel,     \* [Client -> Seq(cursor)]: what is on its way to the client
  seen,        \* [Client -> Seq(cursor)]: what the client has rendered
  disconnects  \* [Client -> connections lost]

subscriber == <<queue, notify, subClosed, deliverer, channel>>
hub == <<events, hubClosed, subscriber, seen, disconnects>>

HubInit ==
  /\ events = <<>> /\ hubClosed = FALSE
  /\ queue = [c \in Client |-> <<>>]
  /\ notify = [c \in Client |-> FALSE]
  /\ subClosed = [c \in Client |-> FALSE]
  /\ deliverer = [c \in Client |-> "none"]
  /\ channel = [c \in Client |-> <<>>]
  /\ seen = [c \in Client |-> <<>>]
  /\ disconnects = [c \in Client |-> 0]

Registered(c) == deliverer[c] \in {"run", "wait"}

\* Mutant: only a goroutine that is already awake is notified.
publishQuietly(e) ==
  \/ hubClosed /\ UNCHANGED hub
  \/ /\ ~hubClosed
     /\ events' = Append(events, e)
     /\ queue' = [c \in Client |->
          IF Registered(c) THEN Append(queue[c], Len(events) + 1) ELSE queue[c]]
     /\ notify' = [c \in Client |-> notify[c] \/ (deliverer[c] = "run")]
     /\ UNCHANGED <<hubClosed, subClosed, deliverer, channel, seen, disconnects>>

publish(e) ==
  \/ hubClosed /\ UNCHANGED hub
  \/ /\ ~hubClosed
     /\ events' = Append(events, e)
     /\ queue' = [c \in Client |->
          IF Registered(c) THEN Append(queue[c], Len(events) + 1) ELSE queue[c]]
     /\ notify' = [c \in Client |-> notify[c] \/ Registered(c)]
     /\ UNCHANGED <<hubClosed, subClosed, deliverer, channel, seen, disconnects>>

\* Mutant: the last event rendered is replayed.
subscribeAtCursor(c) ==
  /\ deliverer[c] = "none"
  /\ LET after == IF seen[c] = <<>> THEN 0 ELSE Len(seen[c]) - 1
     IN queue' = [queue EXCEPT ![c] = [i \in 1..(Len(events) - after) |-> after + i]]
  /\ notify' = [notify EXCEPT ![c] = FALSE]
  /\ subClosed' = [subClosed EXCEPT ![c] = hubClosed]
  /\ deliverer' = [deliverer EXCEPT ![c] = "run"]
  /\ channel' = [channel EXCEPT ![c] = <<>>]
  /\ UNCHANGED <<events, hubClosed, seen, disconnects>>

\* A client connects with the cursor it rendered last.  Retained events after
\* it are queued and the subscriber is registered under one lock.
subscribe(c) ==
  /\ deliverer[c] = "none"
  /\ LET after == IF seen[c] = <<>> THEN 0 ELSE seen[c][Len(seen[c])]
     IN queue' = [queue EXCEPT ![c] = [i \in 1..(Len(events) - after) |-> after + i]]
  /\ notify' = [notify EXCEPT ![c] = FALSE]
  /\ subClosed' = [subClosed EXCEPT ![c] = hubClosed]
  /\ deliverer' = [deliverer EXCEPT ![c] = "run"]
  /\ channel' = [channel EXCEPT ![c] = <<>>]
  /\ UNCHANGED <<events, hubClosed, seen, disconnects>>

\* The goroutine looks at the queue under the lock: it passes an event on,
\* ends when the hub has closed, or goes to sleep.
deliver(c) ==
  /\ deliverer[c] = "run"
  /\ \/ /\ queue[c] # <<>>
        /\ channel' = [channel EXCEPT ![c] = Append(@, Head(queue[c]))]
        /\ queue' = [queue EXCEPT ![c] = Tail(@)]
        /\ UNCHANGED deliverer
     \/ /\ queue[c] = <<>>
        /\ deliverer' = [deliverer EXCEPT ![c] = IF subClosed[c] THEN "over" ELSE "wait"]
        /\ UNCHANGED <<queue, channel>>
  /\ UNCHANGED <<events, hubClosed, notify, subClosed, seen, disconnects>>

wake(c) ==
  /\ deliverer[c] = "wait" /\ notify[c]
  /\ deliverer' = [deliverer EXCEPT ![c] = "run"]
  /\ notify' = [notify EXCEPT ![c] = FALSE]
  /\ UNCHANGED <<events, hubClosed, queue, subClosed, channel, seen, disconnects>>

\* The handler writes an event to the response and the client renders it.
streamSessionEvents(c) ==
  /\ channel[c] # <<>>
  /\ seen' = [seen EXCEPT ![c] = Append(@, Head(channel[c]))]
  /\ channel' = [channel EXCEPT ![c] = Tail(@)]
  /\ UNCHANGED <<events, hubClosed, queue, notify, subClosed, deliverer, disconnects>>

\* The request's context ends: what was on its way is lost, and the deferred
\* functions remove the subscriber.
disconnect(c) ==
  /\ Registered(c) /\ disconnects[c] < MaxDisconnects
  /\ disconnects' = [disconnects EXCEPT ![c] = @ + 1]
  /\ deliverer' = [deliverer EXCEPT ![c] = "none"]
  /\ queue' = [queue EXCEPT ![c] = <<>>]
  /\ channel' = [channel EXCEPT ![c] = <<>>]
  /\ UNCHANGED <<events, hubClosed, notify, subClosed, seen>>

close ==
  /\ ~hubClosed /\ hubClosed' = TRUE
  /\ subClosed' = [c \in Client |-> subClosed[c] \/ Registered(c)]
  /\ notify' = [c \in Client |-> notify[c] \/ Registered(c)]
  /\ UNCHANGED <<events, queue, deliverer, channel, seen, disconnects>>

Stream(c) == subscribe(c) \/ deliver(c) \/ wake(c) \/ streamSessionEvents(c) \/ disconnect(c)

HubNext == (\E e \in Event : publish(e)) \/ close \/ (\E c \in Client : Stream(c))
HubSpec == HubInit /\ [][HubNext]_hub

-----------------------------------------------------------------------------
\* What the clients have rendered.
Rendered == [c \in Client |-> [i \in 1..Len(seen[c]) |-> events[seen[c][i]]]]

Log == INSTANCE EventLog WITH Reader <- Client, log <- events, rendered <- Rendered

\* A client that reconnects with its last cursor renders every event once and
\* in order, although replay, live events, lost connections and the hub's
\* closing interleave.
StreamIsTheLog == Log!Spec

=============================================================================
