------------------------------ MODULE EventHub ------------------------------
(***************************************************************************)
(* The event hub of the daemon (apps/daemon/internal/api/events.go) and    *)
(* the handlers of /v1/events that stream from it (router.go): sequence    *)
(* numbers per channel, one replay ring for all channels, and a bounded    *)
(* queue per subscriber.                                                   *)
(*                                                                         *)
(* Publish numbers an event and stores it under EventHub.mu, and delivers  *)
(* it to the subscribers of that moment after it has released the lock.    *)
(* A delivery is up to three non-blocking channel operations, each an      *)
(* action; a handler subscribes first, then reads the replay window of one *)
(* channel after the other, then streams.  Redaction, the contents of      *)
(* events and heartbeats, which carry no number of their own, are left     *)
(* out.                                                                    *)
(***************************************************************************)
EXTENDS Integers, Sequences

CONSTANTS
    Channels,
    Publishers,          \* goroutines that call Publish
    Clients,             \* desktops
    Wants,               \* Wants[c]: the channels client c subscribes to
    ReplayCapacity,
    SubscriberCapacity,
    MaxSequence,         \* MaxSequence[ch]: bound on the events of channel ch
    MaxRestarts          \* bound on the restarts of the daemon

ASSUME EventHubAssumption ==
    /\ Wants \in [Clients -> SUBSET Channels]
    /\ ReplayCapacity \in Nat \ {0} /\ SubscriberCapacity \in Nat \ {0}
    /\ MaxSequence \in [Channels -> Nat] /\ MaxRestarts \in Nat

VARIABLES
    sequences,  \* EventHub.sequences
    ring,       \* EventHub.events
    flight,     \* deliveries that Publish still has to make
    conn,       \* conn[c]: the handler that serves client c
    queue,      \* queue[c]: subscriber.events
    kept,       \* kept[c]: the cursors client c would reconnect with
    view,       \* view[c]: history of this connection, see View
    restarts    \* restarts so far

hub  == <<sequences, ring>>
vars == <<sequences, ring, flight, conn, queue, kept, view, restarts>>

-----------------------------------------------------------------------------
\* Data

Event   == [channel : Channels, sequence : Nat]
Item    == [lag : BOOLEAN, event : Event]      \* lag: a _lag marker
Cursors == [Channels -> Nat]
Events(ch, numbers) == {[channel |-> ch, sequence |-> n] : n \in numbers}
Start   == [ch \in Channels |-> 0]

\* deliver(): "send", then, if the queue is full, "drop" and "lag"
Delivery == [by : Publishers, to : Clients, event : Event,
             step : {"send", "drop", "lag"}]

\* todo: the channels whose replay window the handler has not read yet
Connection == [phase : {"away", "subscribed", "open"}, cursor : Cursors,
               todo : SUBSET Channels]
Away == [phase |-> "away", cursor |-> Start, todo |-> {}]

\* got: events sent, in the snapshot or after it; excused: events the replay did
\* not owe the client; lag: the last _lag sent, per channel; dropped: events that
\* deliver() threw away
View == [excused : SUBSET Event, got : SUBSET Event, lag : Cursors, dropped : SUBSET Event]
NoView == [excused |-> {}, got |-> {}, lag |-> Start, dropped |-> {}]

-----------------------------------------------------------------------------
\* The replay window

Retained(ch) == {n \in 1 .. sequences[ch] :
                    \E i \in DOMAIN ring : ring[i] = [channel |-> ch, sequence |-> n]}
Replayed(ch, since) == {n \in Retained(ch) : n > since}

\* Mutant: a cursor just before the oldest retained event is called a gap.
GapOffByOne(ch, since) ==
    /\ since # 0
    /\ IF Retained(ch) # {} THEN \A n \in Retained(ch) : since < n ELSE sequences[ch] > since

\* since < oldest - 1, where oldest is the least of the retained numbers
Gap(ch, since) ==
    /\ since # 0
    /\ IF Retained(ch) # {} THEN \A n \in Retained(ch) : since < n - 1 ELSE sequences[ch] > since

Later(m, n) == IF m > n THEN m ELSE n

\* The events a replay does not owe the client: those its cursor covers, those
\* of the _gap marker (`from` the cursor `to` the oldest retained), and, for a
\* client that starts afresh, those no longer retained.
Excused(ch, since) ==
    {n \in 1 .. Later(since, sequences[ch]) :
        \/ n <= since
        \/ (since = 0 \/ Gap(ch, since)) /\ \A m \in Retained(ch) : n < m}

-----------------------------------------------------------------------------
\* Publish

\* Mutant: the handler subscribes after it has taken the snapshot.
SubscribersLate(ch) == {c \in Clients : conn[c].phase = "open" /\ ch \in Wants[c]}

Subscribers(ch) == {c \in Clients : conn[c].phase # "away" /\ ch \in Wants[c]}

Trimmed(events) ==
    IF Len(events) > ReplayCapacity
    THEN SubSeq(events, Len(events) - ReplayCapacity + 1, Len(events))
    ELSE events

Publish(p, ch) ==
    LET event == [channel |-> ch, sequence |-> sequences[ch] + 1] IN
    /\ \A d \in flight : d.by # p
    /\ sequences[ch] < MaxSequence[ch]
    /\ sequences' = [sequences EXCEPT ![ch] = @ + 1]
    /\ ring' = Trimmed(Append(ring, event))
    /\ flight' = flight \cup {[by |-> p, to |-> c, event |-> event, step |-> "send"] :
                                 c \in Subscribers(ch)}
    /\ UNCHANGED <<conn, queue, kept, view, restarts>>

\* Publish serves its subscribers one after the other, in any order.
Current(d) == \A e \in flight : e.by = d.by /\ e.step # "send" => e = d

Proceed(d, step) == flight' = (flight \ {d}) \cup {[d EXCEPT !.step = step]}
Push(d, lag)   == queue' = [queue EXCEPT ![d.to] = Append(@, [lag |-> lag, event |-> d.event])]
Dropped(c, item) ==
    view' = IF item.lag THEN view ELSE [view EXCEPT ![c].dropped = @ \cup {item.event}]

\* Mutant: the capacity is counted without the event to come.
FullTooLate(c) == Len(queue[c]) > SubscriberCapacity

Full(c) == Len(queue[c]) >= SubscriberCapacity

Send(d) ==
    /\ d.step = "send" /\ ~Full(d.to)
    /\ Push(d, FALSE)
    /\ flight' = flight \ {d}
    /\ UNCHANGED view

\* Mutant: the first send has no default branch and waits for the subscriber.
SendWaits(d) == d.step = "send" /\ ~Full(d.to) /\ UNCHANGED <<queue, view, flight>>

SendFails(d) ==
    /\ d.step = "send" /\ Full(d.to)
    /\ Dropped(d.to, [lag |-> FALSE, event |-> d.event])
    /\ Proceed(d, "drop")
    /\ UNCHANGED queue

DropOldest(d) ==
    /\ d.step = "drop"
    /\ IF queue[d.to] = <<>> THEN UNCHANGED <<queue, view>>
       ELSE /\ queue' = [queue EXCEPT ![d.to] = Tail(@)]
            /\ Dropped(d.to, Head(queue[d.to]))
    /\ Proceed(d, "lag")

SendLag(d) ==
    /\ d.step = "lag"
    /\ IF Full(d.to) THEN UNCHANGED queue ELSE Push(d, TRUE)
    /\ flight' = flight \ {d}
    /\ UNCHANGED view

Deliver(p) ==
    /\ \E d \in flight : /\ d.by = p /\ Current(d)
                         /\ Send(d) \/ SendFails(d) \/ DropOldest(d) \/ SendLag(d)
    /\ UNCHANGED <<hub, conn, kept, restarts>>

-----------------------------------------------------------------------------
\* A connection

Opened(c, cursor) ==
    /\ conn[c].phase = "away"
    /\ conn' = [conn EXCEPT ![c] = [phase |-> "subscribed", cursor |-> cursor,
                                    todo |-> Wants[c]]]
    /\ UNCHANGED <<hub, flight, queue, kept, view, restarts>>

\* A client reconnects with its cursors, or starts afresh.
Offered(c) == {Start, kept[c]}

\* SSE, and a WebSocket with the request in the URL: handleEventSSE,
\* webSocketSubscribeRequest
ConnectByQuery(c) ==
    \E cursor \in Offered(c) :
        /\ \A ch \in Channels : cursor[ch] <= sequences[ch]    \* validateCursorMap
        /\ Opened(c, cursor)

\* A WebSocket that sends a subscribe envelope: the cursors are not validated
ConnectByEnvelope(c) == \E cursor \in Offered(c) : Opened(c, cursor)

\* SnapshotWithGaps, one channel: the window, and the last sequence number,
\* which is the client's next cursor
ReadWindow(c, ch) ==
    LET since == conn[c].cursor[ch] IN
    /\ conn[c].phase = "subscribed" /\ ch \in conn[c].todo
    /\ conn' = [conn EXCEPT ![c] =
                   [phase |-> "subscribed", todo |-> conn[c].todo \ {ch},
                    cursor |-> [conn[c].cursor EXCEPT ![ch] = sequences[ch]]]]
    /\ view' = [view EXCEPT
         ![c].excused = @ \cup Events(ch, Excused(ch, since)),
         ![c].got     = @ \cup Events(ch, Replayed(ch, since))]
    /\ UNCHANGED <<hub, flight, queue, kept, restarts>>

\* The snapshot and its gaps reach the client.
WriteSnapshot(c) ==
    /\ conn[c].phase = "subscribed" /\ conn[c].todo = {}
    /\ conn' = [conn EXCEPT ![c].phase = "open", ![c].cursor = Start]
    /\ kept' = [kept EXCEPT ![c] = conn[c].cursor]
    /\ UNCHANGED <<hub, flight, queue, view, restarts>>

\* The loop of the handler takes an event or a _lag marker from the queue.
WriteEvent(c) ==
    LET item == Head(queue[c])
        e    == item.event IN
    /\ conn[c].phase = "open" /\ queue[c] # <<>>
    /\ queue' = [queue EXCEPT ![c] = Tail(@)]
    /\ IF item.lag
       THEN /\ view' = [view EXCEPT ![c].lag[e.channel] = Later(@, e.sequence)]
            /\ UNCHANGED kept
       ELSE /\ view' = [view EXCEPT ![c].got = @ \cup {e}]
            /\ kept' = [kept EXCEPT ![c][e.channel] = Later(@, e.sequence)]
    /\ UNCHANGED <<hub, flight, conn, restarts>>

\* The connection ends.  What Publish still delivers goes to a queue nobody
\* reads any more.
Close(c) ==
    /\ conn[c].phase # "away"
    /\ conn'  = [conn EXCEPT ![c] = Away]
    /\ queue' = [queue EXCEPT ![c] = <<>>]
    /\ view'  = [view EXCEPT ![c] = NoView]
    /\ flight' = {d \in flight : d.to # c}
    /\ UNCHANGED <<hub, kept, restarts>>

\* The hub lives in memory: numbers and ring start again, the clients keep
\* their cursors.
Restart ==
    /\ restarts < MaxRestarts
    /\ restarts' = restarts + 1
    /\ sequences' = Start /\ ring' = <<>> /\ flight' = {}
    /\ conn' = [c \in Clients |-> Away] /\ queue' = [c \in Clients |-> <<>>]
    /\ view' = [c \in Clients |-> NoView]
    /\ UNCHANGED kept

-----------------------------------------------------------------------------
Init ==
    /\ sequences = Start /\ ring = <<>> /\ flight = {}
    /\ conn = [c \in Clients |-> Away] /\ queue = [c \in Clients |-> <<>>]
    /\ kept = [c \in Clients |-> Start] /\ view = [c \in Clients |-> NoView]
    /\ restarts = 0

Serve(c) ==
    \/ ConnectByQuery(c) \/ ConnectByEnvelope(c)
    \/ \E ch \in Channels : ReadWindow(c, ch)
    \/ WriteSnapshot(c) \/ WriteEvent(c) \/ Close(c)

Next ==
    \/ \E p \in Publishers : Deliver(p) \/ \E ch \in Channels : Publish(p, ch)
    \/ \E c \in Clients : Serve(c)
    \/ Restart

Spec == Init /\ [][Next]_vars

\* A goroutine that delivers is scheduled again; nothing is assumed of clients.
FairSpec == Spec /\ \A p \in Publishers : WF_vars(Deliver(p))

-----------------------------------------------------------------------------
\* Properties

\* Types; no queue and not the ring outgrow their capacities.
TypeOK ==
    /\ sequences \in Cursors /\ restarts \in Nat
    /\ ring \in Seq(Event) /\ Len(ring) <= ReplayCapacity
    /\ flight \subseteq Delivery
    /\ conn \in [Clients -> Connection]
    /\ queue \in [Clients -> Seq(Item)]
    /\ \A c \in Clients : Len(queue[c]) <= SubscriberCapacity
    /\ kept \in [Clients -> Cursors] /\ view \in [Clients -> View]

\* A replay is honest: unless it reports a gap it offers every event after the
\* cursor, and it reports a gap only if an event after the cursor is gone.
\* (replayWindow against the ring that Publish trims)
ReplayIsHonest ==
    \A ch \in Channels : \A since \in 1 .. sequences[ch] :
        Gap(ch, since) <=> Replayed(ch, since) # (since + 1) .. sequences[ch]

\* The snapshot and the stream of a connection leave nothing out between them:
\* every event the client was not told to be missing has been sent, is in the
\* queue, is about to be delivered, or was thrown away by deliver().
\* (Subscribe before SnapshotWithGaps; the subscribers Publish picks under the lock)
NothingMissed ==
    \A c \in Clients : conn[c].phase # "away" =>
        \A ch \in Wants[c] \ conn[c].todo : \A n \in 1 .. sequences[ch] :
            LET e == [channel |-> ch, sequence |-> n] IN
            \/ e \in view[c].got \cup view[c].excused \cup view[c].dropped
            \/ \E i \in DOMAIN queue[c] : queue[c][i] = [lag |-> FALSE, event |-> e]
            \/ \E d \in flight : d.to = c /\ d.event = e

\* Publish ends whatever its subscribers do. (deliver() never waits)
PublishEnds == \A p \in Publishers : (\E d \in flight : d.by = p) ~> (\A d \in flight : d.by # p)

\* An instance for TLC: every client wants all, and on one channel there is enough for a gap
\* behind the oldest retained event.
WantsAll == [c \in Clients |-> Channels]
ThreeAndOne == LET busy == CHOOSE ch \in Channels : TRUE
               IN  [ch \in Channels |-> IF ch = busy THEN 3 ELSE 1]
=============================================================================
