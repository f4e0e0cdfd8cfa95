--------------------------- MODULE EventHubProofs ---------------------------
(***************************************************************************)
(* Proofs about EventHub, for every number of channels, publishers and     *)
(* clients and all capacities.                                             *)
(***************************************************************************)
EXTENDS EventHub, TLAPS

\* What a delivery adds to or takes from a queue.
LEMMA QueueStep ==
    ASSUME NEW q \in Seq(Item), NEW item \in Item
    PROVE  /\ Append(q, item) \in Seq(Item) /\ Len(Append(q, item)) = Len(q) + 1
           /\ \A i \in 1 .. Len(q) : Append(q, item)[i] = q[i]
           /\ Append(q, item)[Len(q) + 1] = item
           /\ q # <<>> => /\ Head(q) \in Item /\ Head(q) = q[1]
                          /\ Tail(q) \in Seq(Item) /\ Len(Tail(q)) = Len(q) - 1
                          /\ \A i \in 1 .. Len(q) - 1 : Tail(q)[i] = q[i + 1]
OBVIOUS

\* The ring after Publish is the old one without its first k entries (k = 0 or
\* k = 1), and the new event.
LEMMA TrimmedStep ==
    ASSUME NEW r \in Seq(Event), Len(r) <= ReplayCapacity, NEW e \in Event
    PROVE  /\ Trimmed(Append(r, e)) \in Seq(Event)
           /\ Len(Trimmed(Append(r, e))) <= ReplayCapacity
           /\ \E k \in {0, 1} :
                 /\ Len(Trimmed(Append(r, e))) = Len(r) + 1 - k
                 /\ \A i \in 1 .. Len(r) + 1 - k :
                       Trimmed(Append(r, e))[i] = IF i + k <= Len(r) THEN r[i + k] ELSE e
<1> DEFINE s == Append(r, e)
<1>1. /\ s \in Seq(Event) /\ Len(s) = Len(r) + 1
      /\ \A i \in 1 .. Len(s) : s[i] = IF i <= Len(r) THEN r[i] ELSE e
  OBVIOUS
<1> HIDE DEF s
<1>cap. ReplayCapacity \in Nat \ {0}
  BY EventHubAssumption
<1>2. CASE Len(s) > ReplayCapacity
  <2>1. /\ Len(s) = ReplayCapacity + 1
        /\ Trimmed(s) = SubSeq(s, 2, Len(s))
    BY <1>1, <1>2, <1>cap DEF Trimmed
  <2>2. /\ SubSeq(s, 2, Len(s)) \in Seq(Event) /\ Len(SubSeq(s, 2, Len(s))) = Len(s) - 1
        /\ \A i \in 1 .. Len(s) - 1 : SubSeq(s, 2, Len(s))[i] = s[i + 1]
    BY <1>1, <1>2, <1>cap
  <2> QED
    BY <2>1, <2>2, <1>1, <1>cap DEF s
<1>3. CASE ~(Len(s) > ReplayCapacity)
  <2>1. Trimmed(s) = s
    BY <1>3 DEF Trimmed
  <2> QED
    BY <2>1, <1>1, <1>3, <1>cap DEF s
<1> QED
  BY <1>2, <1>3

-----------------------------------------------------------------------------
\* Invariants

\* The ring holds numbers given out, and behind an event every later one of
\* its channel.
RingOK ==
    \A i \in 1 .. Len(ring) :
        /\ ring[i].sequence \in 1 .. sequences[ring[i].channel]
        /\ \A n \in ring[i].sequence .. sequences[ring[i].channel] :
              \E j \in i .. Len(ring) : ring[j] = [channel |-> ring[i].channel, sequence |-> n]

\* A delivery that did not go through at once has been given up.
DroppedOK == \A d \in flight : d.step # "send" => d.event \in view[d.to].dropped

IInv == TypeOK /\ RingOK /\ DroppedOK /\ NothingMissed

\* Every step is typed.
LEMMA TypeStep == TypeOK /\ [Next]_vars => TypeOK'
<1> SUFFICES ASSUME TypeOK, [Next]_vars PROVE TypeOK'
  OBVIOUS
<1> USE DEF TypeOK, hub
<1>1. ASSUME NEW p \in Publishers, NEW ch \in Channels, Publish(p, ch) PROVE TypeOK'
  <2> DEFINE e == [channel |-> ch, sequence |-> sequences[ch] + 1]
  <2>1. e \in Event /\ sequences' \in Cursors
    BY <1>1 DEF Publish, Event, Cursors
  <2>2. ring' \in Seq(Event) /\ Len(ring') <= ReplayCapacity
    BY <1>1, <2>1, TrimmedStep DEF Publish
  <2>3. flight' \subseteq Delivery
    BY <1>1, <2>1 DEF Publish, Delivery, Subscribers
  <2> QED
    BY <2>1, <2>2, <2>3, <1>1 DEF Publish
<1>2. ASSUME NEW d \in flight,
             Send(d) \/ SendFails(d) \/ DropOldest(d) \/ SendLag(d),
             UNCHANGED <<hub, conn, kept, restarts>>
      PROVE TypeOK'
  <2>1. /\ d \in Delivery /\ d.to \in Clients /\ d.event \in Event
        /\ [d EXCEPT !.step = "drop"] \in Delivery /\ [d EXCEPT !.step = "lag"] \in Delivery
    BY DEF Delivery
  <2>2. flight' \subseteq Delivery
    BY <1>2, <2>1 DEF Send, SendFails, DropOldest, SendLag, Proceed
  <2>cap. SubscriberCapacity \in Nat \ {0} /\ Len(queue[d.to]) \in Nat
    BY <2>1, EventHubAssumption
  <2>3. ASSUME NEW lag \in BOOLEAN, Push(d, lag), ~Full(d.to)
        PROVE  /\ queue' \in [Clients -> Seq(Item)]
               /\ \A c \in Clients : Len(queue'[c]) <= SubscriberCapacity
    <3> DEFINE item == [lag |-> lag, event |-> d.event]
    <3>1. item \in Item /\ queue[d.to] \in Seq(Item)
      BY <2>1 DEF Item
    <3>2. queue' = [queue EXCEPT ![d.to] = Append(queue[d.to], item)]
      BY <2>3 DEF Push
    <3> HIDE DEF item
    <3>3. Append(queue[d.to], item) \in Seq(Item) /\ Len(Append(queue[d.to], item)) <= SubscriberCapacity
      BY <3>1, <2>3, <2>cap, QueueStep DEF Full
    <3> QED
      BY <3>2, <3>3
  <2>4. ASSUME NEW item \in Item, Dropped(d.to, item)
        PROVE  view' \in [Clients -> View]
    BY <2>4, <2>1 DEF Dropped, View, Item
  <2>5. CASE Send(d)
    BY <2>5, <2>2, <2>3, <1>2 DEF Send
  <2>6. CASE SendFails(d)
    <3>1. [lag |-> FALSE, event |-> d.event] \in Item
      BY <2>1 DEF Item
    <3> QED
      BY <2>6, <3>1, <2>2, <2>4, <1>2 DEF SendFails
  <2>7. CASE DropOldest(d)
    <3>1. CASE queue[d.to] = <<>>
      BY <3>1, <2>7, <2>2, <1>2 DEF DropOldest
    <3>2. CASE queue[d.to] # <<>>
      <4>0. queue[d.to] \in Seq(Item)
        BY <2>1
      <4>1. /\ Head(queue[d.to]) \in Item /\ Tail(queue[d.to]) \in Seq(Item)
            /\ Len(Tail(queue[d.to])) = Len(queue[d.to]) - 1
        BY <4>0, <3>2
      <4>2. queue' = [queue EXCEPT ![d.to] = Tail(queue[d.to])] /\ view' \in [Clients -> View]
        BY <3>2, <4>1, <2>7, <2>4 DEF DropOldest
      <4>3. /\ queue' \in [Clients -> Seq(Item)]
            /\ \A c \in Clients : Len(queue'[c]) <= SubscriberCapacity
        BY <4>1, <4>2, <2>1, <2>cap
      <4> QED
        BY <4>2, <4>3, <2>2, <1>2
    <3> QED
      BY <3>1, <3>2
  <2>8. CASE SendLag(d)
    BY <2>8, <2>2, <2>3, <1>2 DEF SendLag
  <2> QED
    BY <2>5, <2>6, <2>7, <2>8, <1>2
<1>3. ASSUME NEW c \in Clients, NEW cursor \in Cursors, Opened(c, cursor) PROVE TypeOK'
  BY <1>3, EventHubAssumption DEF Opened, Connection
<1>4. ASSUME NEW c \in Clients, NEW ch \in Channels, ReadWindow(c, ch) PROVE TypeOK'
  <2>1. /\ Events(ch, Excused(ch, conn[c].cursor[ch])) \subseteq Event
        /\ Events(ch, Replayed(ch, conn[c].cursor[ch])) \subseteq Event
    BY DEF Events, Excused, Replayed, Retained, Event, Later, Connection, Cursors
  <2>2. view' \in [Clients -> View]
    BY <1>4, <2>1 DEF ReadWindow, View
  <2>3. conn' \in [Clients -> Connection]
    <3>1. conn[c] \in Connection /\ sequences[ch] \in Nat
      BY DEF Cursors
    <3>2. [conn[c].cursor EXCEPT ![ch] = sequences[ch]] \in Cursors
      BY <3>1 DEF Connection, Cursors
    <3> DEFINE new == [phase |-> "subscribed", todo |-> conn[c].todo \ {ch},
                       cursor |-> [conn[c].cursor EXCEPT ![ch] = sequences[ch]]]
    <3>3. new \in Connection
      BY <3>1, <3>2 DEF Connection
    <3>4. conn' = [conn EXCEPT ![c] = new]
      BY <1>4 DEF ReadWindow
    <3> QED
      BY <3>3, <3>4
  <2> QED
    BY <1>4, <2>2, <2>3 DEF ReadWindow
<1>5. ASSUME NEW c \in Clients, WriteSnapshot(c) PROVE TypeOK'
  BY <1>5 DEF WriteSnapshot, Connection, Cursors, Start
<1>6. ASSUME NEW c \in Clients, WriteEvent(c) PROVE TypeOK'
  <2>1. queue[c] \in Seq(Item) /\ queue[c] # <<>> /\ Len(queue[c]) <= SubscriberCapacity
    BY <1>6 DEF WriteEvent
  <2>2. /\ Head(queue[c]) \in Item /\ Tail(queue[c]) \in Seq(Item)
        /\ Len(Tail(queue[c])) = Len(queue[c]) - 1
    BY <2>1
  <2>3. Head(queue[c]).event \in Event /\ Head(queue[c]).event.channel \in Channels
    BY <2>2 DEF Item, Event
  <2>4. /\ queue' \in [Clients -> Seq(Item)]
        /\ \A x \in Clients : Len(queue'[x]) <= SubscriberCapacity
    BY <1>6, <2>1, <2>2, EventHubAssumption DEF WriteEvent
  <2>e. /\ Head(queue[c]).event.sequence \in Nat
        /\ \A m, n \in Nat : Later(m, n) \in Nat
    BY <2>3 DEF Event, Later
  <2>5. view' \in [Clients -> View]
    <3> DEFINE e == Head(queue[c]).event
    <3>1. view[c] \in View /\ e \in Event /\ e.channel \in Channels
      BY <2>3
    <3>2. [view[c].lag EXCEPT ![e.channel] = Later(@, e.sequence)] \in Cursors
      BY <3>1, <2>e DEF View, Cursors
    <3> DEFINE lag == [view[c].lag EXCEPT ![e.channel] = Later(@, e.sequence)]
    <3>3. \/ view' = [view EXCEPT ![c] = [view[c] EXCEPT !.lag = lag]]
          \/ view' = [view EXCEPT ![c] = [view[c] EXCEPT !.got = @ \cup {e}]]
      BY <1>6 DEF WriteEvent
    <3>4. lag \in Cursors
      BY <3>2
    <3> HIDE DEF e, lag
    <3>5. [view[c] EXCEPT !.lag = lag] \in View /\ [view[c] EXCEPT !.got = @ \cup {e}] \in View
      BY <3>1, <3>4 DEF View
    <3> QED
      BY <3>3, <3>5
  <2>6. kept' \in [Clients -> Cursors]
    <3> DEFINE e == Head(queue[c]).event
               new == [kept[c] EXCEPT ![e.channel] = Later(@, e.sequence)]
    <3>1. new \in Cursors
      BY <2>3, <2>e DEF Cursors
    <3>2. kept' = kept \/ kept' = [kept EXCEPT ![c] = new]
      BY <1>6 DEF WriteEvent
    <3> QED
      BY <3>1, <3>2
  <2> QED
    BY <1>6, <2>4, <2>5, <2>6 DEF WriteEvent
<1>7. ASSUME NEW c \in Clients, Close(c) PROVE TypeOK'
  BY <1>7, EventHubAssumption DEF Close, Connection, Away, NoView, View, Start, Cursors
<1>8. CASE Restart
  BY <1>8, EventHubAssumption DEF Restart, Connection, Away, NoView, View, Start, Cursors
<1>9. CASE UNCHANGED vars
  BY <1>9 DEF vars
<1>10. \A c \in Clients : Offered(c) \subseteq Cursors
  BY DEF Offered, Start, Cursors
<1> QED
  BY <1>1, <1>2, <1>3, <1>4, <1>5, <1>6, <1>7, <1>8, <1>9, <1>10
     DEF Next, Deliver, Serve, ConnectByQuery, ConnectByEnvelope

-----------------------------------------------------------------------------
\* The ring

\* Publish and Restart keep the ring gap-free; nothing else touches it.
LEMMA RingStep == TypeOK /\ RingOK /\ [Next]_vars => RingOK'
<1> SUFFICES ASSUME TypeOK, RingOK, [Next]_vars PROVE RingOK'
  OBVIOUS
<1>1. ASSUME NEW p \in Publishers, NEW ch \in Channels, Publish(p, ch) PROVE RingOK'
  <2> DEFINE e == [channel |-> ch, sequence |-> sequences[ch] + 1]
  <2>1. /\ ring \in Seq(Event) /\ Len(ring) <= ReplayCapacity /\ e \in Event
        /\ sequences \in [Channels -> Nat] /\ ring' = Trimmed(Append(ring, e))
        /\ sequences' = [sequences EXCEPT ![ch] = @ + 1]
    BY <1>1 DEF Publish, Event, Cursors, TypeOK
  <2> HIDE DEF e
  <2>2. PICK k \in {0, 1} :
           /\ Len(ring') = Len(ring) + 1 - k
           /\ \A i \in 1 .. Len(ring) + 1 - k :
                 ring'[i] = IF i + k <= Len(ring) THEN ring[i + k] ELSE e
    <3>1. \E k \in {0, 1} :
             /\ Len(Trimmed(Append(ring, e))) = Len(ring) + 1 - k
             /\ \A i \in 1 .. Len(ring) + 1 - k :
                   Trimmed(Append(ring, e))[i] = IF i + k <= Len(ring) THEN ring[i + k] ELSE e
      BY <2>1, TrimmedStep
    <3> QED
      BY <3>1, <2>1, Zenon
  <2>3. ASSUME NEW i \in 1 .. Len(ring')
        PROVE /\ ring'[i].sequence \in 1 .. sequences'[ring'[i].channel]
              /\ \A n \in ring'[i].sequence .. sequences'[ring'[i].channel] :
                    \E j \in i .. Len(ring') :
                        ring'[j] = [channel |-> ring'[i].channel, sequence |-> n]
    <3>len. Len(ring) \in Nat
      BY <2>1
    <3>last. Len(ring') \in 1 .. Len(ring') /\ ring'[Len(ring')] = e
      BY <2>2, <3>len, <2>3
    <3>1. CASE i + k <= Len(ring)
      <4>1. i + k \in 1 .. Len(ring) /\ ring'[i] = ring[i + k] /\ ring[i + k] \in Event
        BY <2>1, <2>2, <2>3, <3>1, <3>len
      <4>2. ring[i + k].sequence \in 1 .. sequences[ring[i + k].channel]
        BY <4>1 DEF RingOK
      <4>3. ASSUME NEW n \in ring'[i].sequence .. sequences'[ring'[i].channel]
            PROVE \E j \in i .. Len(ring') :
                        ring'[j] = [channel |-> ring'[i].channel, sequence |-> n]
        <5>1. CASE n <= sequences[ring[i + k].channel]
          <6>1. PICK j \in (i + k) .. Len(ring) :
                        ring[j] = [channel |-> ring[i + k].channel, sequence |-> n]
            BY <5>1, <4>1, <4>2, <4>3 DEF RingOK, Event
          <6>2. j - k \in i .. Len(ring') /\ ring'[j - k] = ring[j]
            BY <6>1, <2>2, <2>3, <3>len
          <6> QED
            BY <6>1, <6>2, <4>1
        <5>2. CASE ~(n <= sequences[ring[i + k].channel])
          <6>1. ring[i + k].channel = ch /\ n = sequences[ch] + 1
            BY <5>2, <4>1, <4>2, <4>3, <2>1 DEF Event
          <6> QED
            BY <6>1, <3>last, <4>1, <2>3, <2>2, <3>len DEF e
        <5> QED
          BY <5>1, <5>2
      <4>4. ring'[i].sequence \in 1 .. sequences'[ring'[i].channel]
        BY <2>1, <4>1, <4>2 DEF Event
      <4> QED
        BY <4>3, <4>4
    <3>2. CASE ~(i + k <= Len(ring))
      <4>1. ring'[i] = e /\ i = Len(ring')
        BY <3>2, <2>2, <2>3, <3>len
      <4>2. sequences'[ch] = sequences[ch] + 1 /\ sequences[ch] \in Nat
        BY <2>1
      <4>3. e.channel = ch /\ e.sequence = sequences'[ch] /\ i \in i .. Len(ring')
        BY <4>1, <4>2, <2>3 DEF e
      <4>4. \A n \in e.sequence .. sequences'[ch] : e = [channel |-> ch, sequence |-> n]
        BY <4>2 DEF e
      <4>5. ring'[i].channel = ch /\ ring'[i].sequence \in 1 .. sequences'[ring'[i].channel]
        BY <4>1, <4>2, <4>3
      <4>6. ASSUME NEW n \in ring'[i].sequence .. sequences'[ring'[i].channel]
            PROVE \E j \in i .. Len(ring') :
                        ring'[j] = [channel |-> ring'[i].channel, sequence |-> n]
        <5>1. ring'[i] = [channel |-> ch, sequence |-> n]
          BY <4>1, <4>3, <4>4, <4>5, <4>6
        <5> QED
          BY <5>1, <4>3, <4>5
      <4> QED
        BY <4>5, <4>6
    <3> QED
      BY <3>1, <3>2
  <2> QED
    BY <2>3 DEF RingOK
<1>2. CASE Restart
  BY <1>2 DEF Restart, RingOK
<1>3. CASE UNCHANGED hub
  BY <1>3 DEF hub, RingOK
<1> QED
  BY <1>1, <1>2, <1>3 DEF Next, vars, Deliver, Serve, ConnectByQuery, ConnectByEnvelope, Opened,
     ReadWindow, WriteSnapshot, WriteEvent, Close, hub

\* Behind a retained event every later one of the channel is retained.
LEMMA RetainedUpwards ==
    ASSUME TypeOK, RingOK, NEW ch \in Channels,
           NEW m \in Retained(ch), NEW n \in m .. sequences[ch]
    PROVE  n \in Retained(ch)
<1>1. PICK i \in 1 .. Len(ring) : ring[i] = [channel |-> ch, sequence |-> m]
  BY DEF Retained, TypeOK
<1>2. PICK j \in i .. Len(ring) : ring[j] = [channel |-> ch, sequence |-> n]
  BY <1>1 DEF RingOK
<1> QED
  BY <1>2 DEF Retained, TypeOK, Cursors

LEMMA HonestReplay ==
    ASSUME TypeOK, RingOK PROVE ReplayIsHonest
<1> SUFFICES ASSUME NEW ch \in Channels, NEW since \in 1 .. sequences[ch]
             PROVE  Gap(ch, since) <=> Replayed(ch, since) # (since + 1) .. sequences[ch]
  BY DEF ReplayIsHonest
<1>0. sequences[ch] \in Nat /\ Retained(ch) \subseteq 1 .. sequences[ch]
  BY DEF TypeOK, Cursors, Retained
<1>1. CASE Retained(ch) = {}
  BY <1>0, <1>1 DEF Gap, Replayed
<1>2. CASE Retained(ch) # {} /\ \A n \in Retained(ch) : since < n - 1
  <2>1. Gap(ch, since)
    BY <1>0, <1>2 DEF Gap
  <2>2. since + 1 \notin Retained(ch)
    BY <1>0, <1>2
  <2>3. since + 1 \in (since + 1) .. sequences[ch]
    BY <1>0, <1>2
  <2> QED
    BY <2>1, <2>2, <2>3 DEF Replayed
<1>3. CASE \E n \in Retained(ch) : ~(since < n - 1)
  <2>1. ~Gap(ch, since)
    BY <1>3 DEF Gap
  <2>2. PICK m \in Retained(ch) : m <= since + 1
    BY <1>0, <1>3
  <2>3. \A n \in (since + 1) .. sequences[ch] : n \in m .. sequences[ch]
    BY <1>0, <2>2
  <2>4. \A n \in (since + 1) .. sequences[ch] : n \in Retained(ch)
    BY <2>3, RetainedUpwards
  <2> QED
    BY <2>1, <2>4, <1>0 DEF Replayed
<1> QED
  BY <1>1, <1>2, <1>3

\* What a replay does not offer it excuses.
LEMMA OfferedOrExcused ==
    ASSUME TypeOK, RingOK, NEW ch \in Channels, NEW since \in Nat,
           NEW n \in 1 .. sequences[ch]
    PROVE  n \in Replayed(ch, since) \cup Excused(ch, since)
<1>0. /\ sequences[ch] \in Nat /\ n \in Nat /\ n \in 1 .. Later(since, sequences[ch])
      /\ Retained(ch) \subseteq Nat
  BY DEF TypeOK, Cursors, Later, Retained
<1>1. CASE n <= since
  BY <1>0, <1>1 DEF Excused
<1>2. CASE n \in Retained(ch) /\ n > since
  BY <1>2 DEF Replayed
<1>3. CASE n \notin Retained(ch) /\ n > since
  <2>1. \A m \in Retained(ch) : n < m
    <3> SUFFICES ASSUME NEW m \in Retained(ch), ~(n < m) PROVE FALSE
      OBVIOUS
    <3>1. n \in m .. sequences[ch]
      BY <1>0
    <3> QED
      BY <3>1, <1>3, RetainedUpwards
  <2>2. since = 0 \/ Gap(ch, since)
    <3>1. CASE since # 0
      <4>1. since \in 1 .. sequences[ch] /\ n \in (since + 1) .. sequences[ch]
        BY <3>1, <1>0, <1>3
      <4>2. Replayed(ch, since) # (since + 1) .. sequences[ch]
        BY <4>1, <1>3 DEF Replayed
      <4> QED
        BY <4>1, <4>2, HonestReplay DEF ReplayIsHonest
    <3> QED
      BY <3>1
  <2> QED
    BY <2>1, <2>2, <1>0 DEF Excused
<1> QED
  BY <1>0, <1>1, <1>2, <1>3

-----------------------------------------------------------------------------
\* A given-up delivery stays recorded.
LEMMA DroppedStep == TypeOK /\ DroppedOK /\ [Next]_vars => DroppedOK'
<1> SUFFICES ASSUME TypeOK, DroppedOK, [Next]_vars PROVE DroppedOK'
  OBVIOUS
<1> USE DEF DroppedOK
<1>1. ASSUME NEW p \in Publishers, NEW ch \in Channels, Publish(p, ch) PROVE DroppedOK'
  BY <1>1 DEF Publish
<1>2. ASSUME NEW d \in flight,
             Send(d) \/ SendFails(d) \/ DropOldest(d) \/ SendLag(d),
             UNCHANGED <<hub, conn, kept, restarts>>
      PROVE DroppedOK'
  <2>1. d \in Delivery /\ d.to \in Clients /\ view[d.to] \in View
    BY DEF TypeOK, Delivery
  <2>2. CASE Send(d) \/ SendLag(d)
    BY <2>2 DEF Send, SendLag
  <2>3. \A item : Dropped(d.to, item) =>
              \A c \in Clients : view[c].dropped \subseteq view'[c].dropped
    BY <2>1 DEF Dropped, View, TypeOK
  <2>grow. ASSUME \A c \in Clients : view[c].dropped \subseteq view'[c].dropped,
                  NEW step \in {"drop", "lag"}, Proceed(d, step),
                  d.event \in view'[d.to].dropped
           PROVE  DroppedOK'
    BY <2>1, <2>grow DEF Proceed, TypeOK, Delivery
  <2>4. CASE SendFails(d)
    <3>1. d.event \in view'[d.to].dropped
      BY <2>4, <2>1 DEF SendFails, Dropped, View, TypeOK
    <3> QED
      BY <2>4, <2>3, <2>grow, <3>1 DEF SendFails
  <2>5. CASE DropOldest(d)
    <3>1. \A c \in Clients : view[c].dropped \subseteq view'[c].dropped
      BY <2>5, <2>3 DEF DropOldest
    <3>2. d.event \in view'[d.to].dropped
      BY <2>5, <3>1, <2>1 DEF DropOldest
    <3> QED
      BY <2>5, <3>1, <3>2, <2>grow DEF DropOldest
  <2> QED
    BY <1>2, <2>2, <2>4, <2>5
<1>3. ASSUME NEW c \in Clients, NEW ch \in Channels, ReadWindow(c, ch) PROVE DroppedOK'
  BY <1>3 DEF ReadWindow, TypeOK, View, Delivery
<1>4. ASSUME NEW c \in Clients, WriteEvent(c) PROVE DroppedOK'
  <2>1. \A x \in Clients : view'[x].dropped = view[x].dropped
    BY <1>4 DEF WriteEvent, TypeOK, View
  <2> QED
    BY <2>1, <1>4 DEF WriteEvent, TypeOK, Delivery
<1>5. ASSUME NEW c \in Clients, Close(c) PROVE DroppedOK'
  BY <1>5 DEF Close, TypeOK, Delivery
<1>6. CASE Restart
  BY <1>6 DEF Restart
<1>7. CASE UNCHANGED <<flight, view>>
  BY <1>7
<1> QED
  BY <1>1, <1>2, <1>3, <1>4, <1>5, <1>6, <1>7 DEF Next, vars, Deliver, Serve, ConnectByQuery,
     ConnectByEnvelope, Opened, WriteSnapshot

-----------------------------------------------------------------------------
\* Nothing is missed

\* Where an event owed to client c may be.
Safe(c, e) ==
    \/ e \in view[c].got \cup view[c].excused \cup view[c].dropped
    \/ \E i \in DOMAIN queue[c] : queue[c][i] = [lag |-> FALSE, event |-> e]
    \/ \E d \in flight : d.to = c /\ d.event = e

LEMMA MissedIsUnsafe ==
    NothingMissed <=>
        \A c \in Clients : conn[c].phase # "away" =>
            \A ch \in Wants[c] \ conn[c].todo : \A n \in 1 .. sequences[ch] :
                Safe(c, [channel |-> ch, sequence |-> n])
BY DEF NothingMissed, Safe

\* A step of deliver() takes an event from one safe place to another.
LEMMA SafeDelivery ==
    ASSUME TypeOK, DroppedOK, NEW d \in flight,
           Send(d) \/ SendFails(d) \/ DropOldest(d) \/ SendLag(d),
           NEW c \in Clients, NEW e \in Event, Safe(c, e)
    PROVE  Safe(c, e)'
<1>1. /\ d \in Delivery /\ d.to \in Clients /\ d.event \in Event
      /\ view[c] \in View /\ view \in [Clients -> View]
      /\ queue \in [Clients -> Seq(Item)] /\ queue[c] \in Seq(Item)
  BY DEF TypeOK, Delivery
<1>2. ASSUME \/ UNCHANGED view
             \/ \E item \in Item : Dropped(d.to, item)
      PROVE  /\ view[c].got \subseteq view'[c].got /\ view[c].excused \subseteq view'[c].excused
             /\ view[c].dropped \subseteq view'[c].dropped
  <2>1. ASSUME NEW item, view' = [view EXCEPT ![d.to].dropped = @ \cup {item.event}]
        PROVE  /\ view'[c].got = view[c].got /\ view'[c].excused = view[c].excused
               /\ view[c].dropped \subseteq view'[c].dropped
    <3>1. CASE d.to = c
      BY <1>1, <2>1, <3>1 DEF View
    <3>2. CASE d.to # c
      BY <1>1, <2>1, <3>2
    <3> QED
      BY <3>1, <3>2
  <2>2. \/ view' = view
        \/ \E item : view' = [view EXCEPT ![d.to].dropped = @ \cup {item.event}]
    BY <1>2 DEF Dropped
  <2> QED
    BY <2>1, <2>2
<1>3. ASSUME NEW lag \in BOOLEAN, Push(d, lag)
      PROVE  /\ \A i \in DOMAIN queue[c] : i \in DOMAIN queue'[c] /\ queue'[c][i] = queue[c][i]
             /\ d.to = c => \E i \in DOMAIN queue'[c] :
                               queue'[c][i] = [lag |-> lag, event |-> d.event]
  <2> DEFINE item == [lag |-> lag, event |-> d.event]
  <2>1. item \in Item /\ queue' = [queue EXCEPT ![d.to] = Append(queue[d.to], item)]
    BY <1>1, <1>3 DEF Push, Item
  <2> HIDE DEF item
  <2>2. CASE d.to = c
    <3>1. queue'[c] = Append(queue[c], item)
      BY <2>1, <2>2, <1>1
    <3>2. /\ queue'[c] \in Seq(Item) /\ Len(queue'[c]) = Len(queue[c]) + 1
          /\ \A i \in 1 .. Len(queue[c]) : queue'[c][i] = queue[c][i]
          /\ queue'[c][Len(queue[c]) + 1] = item
      BY <3>1, <2>1, <1>1, QueueStep
    <3>3. Len(queue[c]) + 1 \in DOMAIN queue'[c]
          /\ \A i \in DOMAIN queue[c] : i \in 1 .. Len(queue[c]) /\ i \in DOMAIN queue'[c]
      BY <3>2, <1>1
    <3> QED
      BY <3>2, <3>3 DEF item
  <2>3. CASE d.to # c
    BY <2>1, <2>3, <1>1
  <2> QED
    BY <2>2, <2>3
<1>4. CASE Send(d)
  <2>1. Push(d, FALSE) /\ UNCHANGED view /\ flight' = flight \ {d}
    BY <1>4 DEF Send
  <2>2. CASE d.to = c /\ d.event = e
    BY <2>1, <2>2, <1>3 DEF Safe
  <2>3. CASE ~(d.to = c /\ d.event = e)
    BY <2>1, <2>3, <1>3 DEF Safe
  <2> QED
    BY <2>2, <2>3
<1>5. CASE SendFails(d)
  <2>1. [lag |-> FALSE, event |-> d.event] \in Item
    BY <1>1 DEF Item
  <2>2. [d EXCEPT !.step = "drop"].to = d.to /\ [d EXCEPT !.step = "drop"].event = d.event
    BY <1>1 DEF Delivery
  <2> QED
    BY <1>5, <1>2, <2>1, <2>2 DEF SendFails, Proceed, Safe
<1>6. CASE DropOldest(d)
  <2>2. [d EXCEPT !.step = "lag"].to = d.to /\ [d EXCEPT !.step = "lag"].event = d.event
    BY <1>1 DEF Delivery
  <2>3. \A x \in flight : \E y \in flight' : y.to = x.to /\ y.event = x.event
    BY <1>6, <2>2 DEF DropOldest, Proceed
  <2>4. CASE queue[d.to] = <<>> \/ d.to # c
    <3>1. queue'[c] = queue[c]
      BY <1>6, <2>4, <1>1 DEF DropOldest
    <3>2. UNCHANGED view \/ \E item \in Item : Dropped(d.to, item)
      <4>1. queue[d.to] # <<>> => Head(queue[d.to]) \in Item
        BY <1>1, QueueStep
      <4> QED
        BY <4>1, <1>6 DEF DropOldest
    <3> QED
      BY <3>1, <3>2, <1>2, <2>3 DEF Safe
  <2>5. CASE queue[c] # <<>> /\ d.to = c
    <3> DEFINE h == Head(queue[c])
    <3>1. /\ h \in Item /\ h = queue[c][1] /\ queue' = [queue EXCEPT ![c] = Tail(queue[c])]
          /\ Dropped(c, h)
      BY <1>1, <1>6, <2>5 DEF DropOldest
    <3>2. /\ queue'[c] = Tail(queue[c]) /\ Len(queue'[c]) = Len(queue[c]) - 1
          /\ queue'[c] \in Seq(Item)
          /\ \A i \in 1 .. Len(queue[c]) - 1 : queue'[c][i] = queue[c][i + 1]
      BY <3>1, <2>5, <1>1
    <3> HIDE DEF h
    <3>3. ~h.lag => h.event \in view'[c].dropped
      BY <3>1, <1>1 DEF Dropped, View, Item
    <3>4. ASSUME NEW i \in DOMAIN queue[c], queue[c][i] = [lag |-> FALSE, event |-> e]
          PROVE  Safe(c, e)'
      <4>1. CASE i = 1
        BY <4>1, <3>1, <3>3, <3>4 DEF Safe
      <4>2. CASE i # 1
        <5>1. i - 1 \in DOMAIN queue'[c] /\ queue'[c][i - 1] = queue[c][i]
          BY <4>2, <3>2, <1>1
        <5> QED
          BY <5>1, <3>4 DEF Safe
      <4> QED
        BY <4>1, <4>2
    <3>5. CASE \/ e \in view[c].got \cup view[c].excused \cup view[c].dropped
               \/ \E x \in flight : x.to = c /\ x.event = e
      BY <3>1, <3>5, <2>5, <1>2, <2>3 DEF Safe
    <3> QED
      BY <3>4, <3>5 DEF Safe
  <2> QED
    BY <2>4, <2>5
<1>7. CASE SendLag(d)
  <2>1. /\ UNCHANGED view /\ flight' = flight \ {d}
        /\ UNCHANGED queue \/ Push(d, TRUE)
    BY <1>7 DEF SendLag
  <2>2. d.event \in view[d.to].dropped
    BY <1>7 DEF SendLag, DroppedOK
  <2>3. CASE d.to = c /\ d.event = e
    BY <2>1, <2>2, <2>3 DEF Safe
  <2>4. CASE ~(d.to = c /\ d.event = e)
    BY <2>1, <2>4, <1>3 DEF Safe
  <2> QED
    BY <2>3, <2>4
<1> QED
  BY <1>4, <1>5, <1>6, <1>7

LEMMA MissedStep == IInv /\ [Next]_vars => NothingMissed'
<1> SUFFICES ASSUME IInv, [Next]_vars PROVE NothingMissed'
  OBVIOUS
<1>0. /\ TypeOK /\ RingOK /\ DroppedOK
      /\ \A c \in Clients : conn[c].phase # "away" =>
            \A ch \in Wants[c] \ conn[c].todo : \A n \in 1 .. sequences[ch] :
                Safe(c, [channel |-> ch, sequence |-> n])
  BY MissedIsUnsafe DEF IInv
<1>goal. SUFFICES ASSUME NEW c \in Clients, conn'[c].phase # "away",
                         NEW ch \in Wants[c] \ conn'[c].todo, NEW n \in 1 .. sequences'[ch]
                  PROVE  Safe(c, [channel |-> ch, sequence |-> n])'
  BY DEF NothingMissed, Safe
<1> DEFINE e == [channel |-> ch, sequence |-> n]
<1>c. ch \in Channels
  BY EventHubAssumption
<1>1. ASSUME NEW p \in Publishers, NEW k \in Channels, Publish(p, k) PROVE Safe(c, e)'
  <2> DEFINE new == [channel |-> k, sequence |-> sequences[k] + 1]
  <2>1. /\ UNCHANGED <<conn, queue, view>>
        /\ sequences' = [sequences EXCEPT ![k] = @ + 1]
        /\ flight' = flight \cup {[by |-> p, to |-> x, event |-> new, step |-> "send"] :
                                     x \in Subscribers(k)}
    BY <1>1 DEF Publish
  <2>f. ASSUME NEW x \in Subscribers(k) PROVE \E d \in flight' : d.to = x /\ d.event = new
    <3>1. [by |-> p, to |-> x, event |-> new, step |-> "send"] \in flight'
      BY <2>1
    <3> QED
      BY <3>1
  <2>2. CASE n \in 1 .. sequences[ch]
    BY <2>1, <2>2, <1>0, <1>goal DEF Safe
  <2>3. CASE n \notin 1 .. sequences[ch]
    <3>1. ch = k /\ n = sequences[k] + 1
      BY <2>1, <2>3, <1>0, <1>c DEF TypeOK, Cursors
    <3>2. c \in Subscribers(k)
      BY <3>1, <2>1, <1>goal DEF Subscribers
    <3> QED
      BY <3>1, <3>2, <2>f DEF Safe
  <2> QED
    BY <2>2, <2>3
<1>2. ASSUME NEW d \in flight,
             Send(d) \/ SendFails(d) \/ DropOldest(d) \/ SendLag(d),
             UNCHANGED <<hub, conn, kept, restarts>>
      PROVE Safe(c, e)'
  <2>1. e \in Event /\ Safe(c, e)
    BY <1>2, <1>0, <1>c, <1>goal DEF hub, Event
  <2> HIDE DEF e
  <2> QED
    BY <1>2, <2>1, <1>0, SafeDelivery
<1>3. ASSUME NEW x \in Clients, NEW cursor \in Cursors, Opened(x, cursor) PROVE Safe(c, e)'
  <2>1. x # c
    BY <1>3, <1>0, <1>goal DEF Opened, TypeOK
  <2> QED
    BY <1>3, <2>1, <1>0, <1>goal DEF Opened, hub, Safe, TypeOK
<1>4. ASSUME NEW x \in Clients, NEW k \in Channels, ReadWindow(x, k) PROVE Safe(c, e)'
  <2>1. /\ \A y \in Clients : /\ view[y].got \subseteq view'[y].got
                              /\ view[y].excused \subseteq view'[y].excused
                              /\ view[y].dropped \subseteq view'[y].dropped
        /\ UNCHANGED <<sequences, queue, flight>>
    BY <1>4, <1>0 DEF ReadWindow, TypeOK, View, hub
  <2>2. CASE x = c /\ k = ch
    <3> DEFINE since == conn[c].cursor[ch]
    <3>1. since \in Nat /\ view[c] \in View /\ view \in [Clients -> View]
      BY <1>0, <1>c DEF TypeOK, Connection, Cursors
    <3>2. n \in 1 .. sequences[ch]
      BY <2>1, <1>goal
    <3>3. n \in Replayed(ch, since) \cup Excused(ch, since)
      BY <3>1, <3>2, <1>0, <1>c, OfferedOrExcused
    <3>4. /\ Events(ch, Excused(ch, since)) \subseteq view'[c].excused
          /\ Events(ch, Replayed(ch, since)) \subseteq view'[c].got
      BY <1>4, <2>2, <3>1 DEF ReadWindow, View
    <3> QED
      BY <3>3, <3>4 DEF Events, Safe
  <2>3. CASE ~(x = c /\ k = ch)
    <3>1. conn[c].phase # "away" /\ ch \in Wants[c] \ conn[c].todo
      BY <1>4, <2>3, <1>0, <1>goal DEF ReadWindow, TypeOK, Connection
    <3>2. Safe(c, e)
      BY <3>1, <2>1, <1>0, <1>goal
    <3> QED
      BY <3>2, <2>1 DEF Safe
  <2> QED
    BY <2>2, <2>3
<1>5. ASSUME NEW x \in Clients, WriteSnapshot(x) PROVE Safe(c, e)'
  <2>1. conn[c].phase # "away" /\ ch \in Wants[c] \ conn[c].todo
    BY <1>5, <1>0, <1>goal DEF WriteSnapshot, TypeOK, Connection
  <2> QED
    BY <1>5, <2>1, <1>0, <1>goal DEF WriteSnapshot, hub, Safe
<1>6. ASSUME NEW x \in Clients, WriteEvent(x) PROVE Safe(c, e)'
  <2>0. /\ UNCHANGED <<sequences, conn, flight>> /\ Safe(c, e)
        /\ queue \in [Clients -> Seq(Item)] /\ view \in [Clients -> View]
    BY <1>6, <1>0, <1>goal DEF WriteEvent, hub, TypeOK
  <2>1. /\ view[c].got \subseteq view'[c].got /\ view[c].excused \subseteq view'[c].excused
        /\ view[c].dropped \subseteq view'[c].dropped
    <3> DEFINE h == Head(queue[x])
    <3>1. \/ \E lag : view' = [view EXCEPT ![x] = [view[x] EXCEPT !.lag = lag]]
          \/ view' = [view EXCEPT ![x].got = @ \cup {h.event}]
      BY <1>6 DEF WriteEvent
    <3> HIDE DEF h
    <3>2. view[c] \in View /\ view[x] \in View
      BY <2>0
    <3>3. CASE x = c
      <4>1. ASSUME NEW lag, view' = [view EXCEPT ![x] = [view[x] EXCEPT !.lag = lag]]
            PROVE  /\ view'[c].got = view[c].got /\ view'[c].excused = view[c].excused
                   /\ view'[c].dropped = view[c].dropped
        BY <4>1, <3>2, <3>3, <2>0 DEF View
      <4>2. ASSUME view' = [view EXCEPT ![x].got = @ \cup {h.event}]
            PROVE  /\ view[c].got \subseteq view'[c].got /\ view'[c].excused = view[c].excused
                   /\ view'[c].dropped = view[c].dropped
        BY <4>2, <3>2, <3>3, <2>0 DEF View
      <4> QED
        BY <3>1, <4>1, <4>2
    <3>4. CASE x # c
      BY <3>1, <3>4, <2>0
    <3> QED
      BY <3>3, <3>4
  <2>2. CASE x # c
    BY <1>6, <2>0, <2>1, <2>2 DEF WriteEvent, Safe
  <2>3. CASE x = c
    <3> DEFINE h == Head(queue[c])
    <3>1. /\ h \in Item /\ h = queue[c][1] /\ queue'[c] = Tail(queue[c])
          /\ Len(queue'[c]) = Len(queue[c]) - 1 /\ queue'[c] \in Seq(Item)
          /\ \A i \in 1 .. Len(queue[c]) - 1 : queue'[c][i] = queue[c][i + 1]
      BY <1>6, <2>0, <2>3 DEF WriteEvent
    <3>2. ~h.lag => h.event \in view'[c].got
      BY <1>6, <2>0, <2>3 DEF WriteEvent, View
    <3> HIDE DEF h, e
    <3>3. ASSUME NEW i \in DOMAIN queue[c], queue[c][i] = [lag |-> FALSE, event |-> e]
          PROVE  Safe(c, e)'
      <4>1. CASE i = 1
        BY <4>1, <3>1, <3>2, <3>3 DEF Safe
      <4>2. CASE i # 1
        <5>1. i - 1 \in DOMAIN queue'[c] /\ queue'[c][i - 1] = queue[c][i]
          BY <4>2, <3>1, <2>0
        <5> QED
          BY <5>1, <3>3 DEF Safe
      <4> QED
        BY <4>1, <4>2
    <3> QED
      BY <3>3, <2>0, <2>1 DEF Safe
  <2> QED
    BY <2>2, <2>3
<1>7. ASSUME NEW x \in Clients, Close(x) PROVE Safe(c, e)'
  <2>1. x # c
    BY <1>7, <1>0, <1>goal DEF Close, TypeOK, Away
  <2> QED
    <3>1. /\ sequences' = sequences /\ conn'[c] = conn[c] /\ queue'[c] = queue[c]
          /\ view'[c] = view[c] /\ \A d \in flight : d.to = c => d \in flight'
      BY <1>7, <2>1, <1>0 DEF Close, hub, TypeOK
    <3>2. Safe(c, e)
      BY <3>1, <1>0, <1>goal
    <3> QED
      BY <3>1, <3>2 DEF Safe
<1>8. CASE Restart
  BY <1>8, <1>goal DEF Restart, Away
<1>9. CASE UNCHANGED vars
  BY <1>9, <1>0, <1>goal DEF vars, Safe
<1>10. \A x \in Clients : Offered(x) \subseteq Cursors
  BY <1>0 DEF TypeOK, Offered, Start, Cursors
<1> QED
  BY <1>1, <1>2, <1>3, <1>4, <1>5, <1>6, <1>7, <1>8, <1>9, <1>10
     DEF Next, Deliver, Serve, ConnectByQuery, ConnectByEnvelope

-----------------------------------------------------------------------------
\* Theorems

LEMMA Inductive == Spec => []IInv
<1>1. Init => IInv
  BY EventHubAssumption DEF Init, IInv, TypeOK, RingOK, DroppedOK, NothingMissed, Cursors, Start,
     Connection, Away, NoView, View
<1>2. IInv /\ [Next]_vars => IInv'
  BY TypeStep, RingStep, DroppedStep, MissedStep DEF IInv
<1> QED
  BY <1>1, <1>2, PTL DEF Spec

\* Ring and queues never outgrow their capacities, and everything is typed.
THEOREM TypeCorrect == Spec => []TypeOK
<1>1. IInv => TypeOK
  BY DEF IInv
<1> QED
  BY <1>1, Inductive, PTL

\* replayWindow tells the truth about the ring in every state.
THEOREM ReplayAlwaysHonest == Spec => []ReplayIsHonest
<1>1. IInv => ReplayIsHonest
  BY HonestReplay DEF IInv
<1> QED
  BY <1>1, Inductive, PTL

\* Between snapshot and stream no event is left out without deliver() having
\* thrown it away.
THEOREM NothingEverMissed == Spec => []NothingMissed
<1>1. IInv => NothingMissed
  BY DEF IInv
<1> QED
  BY <1>1, Inductive, PTL
=============================================================================
