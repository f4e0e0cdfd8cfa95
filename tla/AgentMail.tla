----------------------------- MODULE AgentMail -----------------------------
(***************************************************************************)
(* What the Activity panel is told of Agent Mail.  The service (external)  *)
(* keeps messages and file reservations; the client of adapters/agentmail  *)
(* asks it over HTTP; the Ingestor of internal/activity polls it, compares *)
(* what it lists with what it listed before and publishes the difference,  *)
(* and releases a reservation by force when it is told to.  A round reads  *)
(* the service without the mutex, compares under it and publishes after    *)
(* it, so rounds that overlap may compare and publish in any order; a      *)
(* forced release is published without the comparison knowing of it.       *)
(***************************************************************************)
EXTENDS Integers, FiniteSets, SequencesExt, Functions

CONSTANTS Pollers,        \* callers of Run, or of SyncOnce alone
          Forcers,        \* callers of ForceReleaseReservation
          Messages,       \* ids of messages, numbers; those not positive are skipped
          MessageOf,      \* [Messages -> what a message says]
          Reservations,   \* ids of reservations
          Grant,          \* [Reservations -> [agent, pattern, exclusive]]
          Replies,        \* how an HTTP exchange may end
          InboxLimit,     \* messages in an answer: 50
          ListLimit,      \* reservations in an answer: defaultReservationFetchLimit, 500
          MaxTime, MaxCalls, MaxFaults   \* bounds of the model

VARIABLES inbox,       \* the service's messages, newest first
          held,        \* the service's reservations: [state, expires]
          now,
          seen,        \* seenMessages
          known,       \* reservations: what the last listing said of each
          conflicts,   \* keys of the conflicts published
          call,        \* what each caller is doing
          told,        \* the events published
          ledger,      \* what the client recorded of forced releases
          overlapped,  \* whether a round began before another had ended
          calls, faults

vars == <<inbox, held, now, seen, known, conflicts, call, told, ledger, overlapped, calls, faults>>
serviceVars == <<inbox, held, now>>
viewVars == <<seen, known, conflicts>>

-----------------------------------------------------------------------------
(* The client: one exchange, and what is made of its answer.               *)

\* The JSON an answer comes down to: an answer that has neither structured content nor a raw
\* result is read as the result object itself.
Payload(reply) == IF reply.content = "none" THEN "object" ELSE reply.content

\* callTool: why a tool call failed, or "ok".
CallTool(reply, wanted) ==
    CASE reply.kind = "lost" -> "transport"
      [] reply.kind = "status" -> "http_status"
      [] reply.kind = "error" -> "mcp_error"
      [] reply.kind = "garbled" -> "decode"
      [] OTHER -> IF Payload(reply) = wanted THEN "ok" ELSE "decode"

\* getJSON: the same for a GET, whose answer is not wrapped.
GetJSON(reply, wanted) ==
    CASE reply.kind = "lost" -> "transport"
      [] reply.kind = "status" -> "http_status"
      [] OTHER -> IF reply.kind = "result" /\ reply.content = wanted THEN "ok" ELSE "decode"

\* ListReservations asks again after any failure, the second time for a bare list.
ListAnswered(first, second) ==
    GetJSON(first, "object") = "ok" \/ GetJSON(second, "list") = "ok"

\* validateSend, whose texts are not blank: a broadcast or recipients, not both.
ValidSend(m) == MessageOf[m].broadcast # (MessageOf[m].to # {})

\* BeadThreadID and beadIDFromThread; an id is the sequence of its parts between hyphens.
BeadThreadID(bead) == IF Head(bead) = "br" /\ Len(bead) > 1 THEN bead ELSE <<"br">> \o bead
BeadIDFromThread(thread) ==
    CASE thread = <<>> -> <<>>
      [] Head(thread) = "br" /\ Len(thread) > 1 -> Tail(thread)
      [] Head(thread) = "hp" -> thread
      [] OTHER -> <<>>

\* ListThreads: the messages of a search, grouped by thread; one without is a thread of its own.
ThreadKey(m) == [thread |-> m.thread, message |-> IF m.thread = "" THEN m.id ELSE 0]
JoinThreadAgain(t, m) == [t EXCEPT !.participants = Append(@, m.from)]
JoinThread(t, m) ==
    IF m.from = "" \/ m.from \in ToSet(t.participants)
    THEN t ELSE [t EXCEPT !.participants = Append(@, m.from)]
AddMessage(threads, m) ==
    IF \E i \in DOMAIN threads : threads[i].key = ThreadKey(m)
    THEN [i \in DOMAIN threads |->
             IF threads[i].key = ThreadKey(m) THEN JoinThread(threads[i], m) ELSE threads[i]]
    ELSE Append(threads, [key |-> ThreadKey(m), last |-> m.id, participants |-> <<m.from>>])
ListThreads(found) == FoldLeft(AddMessage, <<>>, found)

-----------------------------------------------------------------------------
(* What reservations cover; a pattern is a sequence of names and wildcards. *)

Wild == {"*", "**"}
IsExact(pattern) == ToSet(pattern) \cap Wild = {}

\* patternScopeOf: the names before the first wildcard.
Scope(pattern) ==
    IF IsExact(pattern) THEN pattern
    ELSE SubSeq(pattern, 1, (CHOOSE i \in DOMAIN pattern :
                                /\ pattern[i] \in Wild
                                /\ \A j \in 1 .. i - 1 : pattern[j] \notin Wild) - 1)

\* pathWithin.
Within(child, parent) == IsPrefix(parent, child)

\* A pattern that covers a file is missed when it comes second.
OverlapsOneWay(left, right) ==
    /\ Scope(left) # <<>> /\ Scope(right) # <<>>
    /\ IF IsExact(left) /\ IsExact(right) THEN left = right ELSE Within(Scope(left), Scope(right))

\* patternsOverlap: the scope of a pattern that begins with a wildcard is empty and meets none.
PatternsOverlap(left, right) ==
    /\ Scope(left) # <<>> /\ Scope(right) # <<>>
    /\ IF IsExact(left)
       THEN IF IsExact(right) THEN left = right ELSE Within(left, Scope(right))
       ELSE \/ Within(Scope(right), Scope(left))
            \/ ~IsExact(right) /\ Within(Scope(left), Scope(right))

\* DetectReservationConflicts, for the pair (left, right) of one listing.
InConflict(left, right) ==
    /\ Grant[left].agent # Grant[right].agent
    /\ Grant[left].exclusive \/ Grant[right].exclusive
    /\ PatternsOverlap(Grant[left].pattern, Grant[right].pattern)

-----------------------------------------------------------------------------
(* The comparison.                                                         *)

\* messageKind.
MessageKind(m) ==
    IF MessageOf[m].urgent \/ MessageOf[m].ack THEN "mail.urgent"
    ELSE IF MessageOf[m].own THEN "mail.sent" ELSE "mail.received"

MailEvent(m) == [type |-> MessageKind(m), id |-> m, why |-> "mail", key |-> <<>>]
Event(type, id, why, key) == [type |-> "reservation." \o type, id |-> id, why |-> why, key |-> key]

\* What has not been published yet, though another round may be about to.
UntoldMail(batch) ==
    SelectSeq(batch, LAMBDA m : m > 0 /\ \A i \in DOMAIN told : told[i].why = "mail" => told[i].id # m)

\* IngestMessages: the messages of a batch that are news.
FreshMail(batch) == SelectSeq(batch, LAMBDA m : m > 0 /\ m \notin seen)

\* A release told without asking whether it was known to be active.
ChangeListed(r) ==
    LET had == r.id \in DOMAIN known
    IN  CASE ~had /\ ~r.released -> <<Event("requested", r.id, "listed", <<>>)>>
          [] had /\ r.released -> <<Event("released", r.id, "listed", <<>>)>>
          [] had /\ ~r.released /\ known[r.id].expires # r.expires ->
                 <<Event("renewed", r.id, "listed", <<>>)>>
          [] OTHER -> <<>>

\* IngestReservations: what one listed reservation is news of.
Change(r) ==
    LET had == r.id \in DOMAIN known
    IN  CASE ~had /\ ~r.released -> <<Event("requested", r.id, "listed", <<>>)>>
          [] had /\ known[r.id].active /\ r.released -> <<Event("released", r.id, "listed", <<>>)>>
          [] had /\ known[r.id].active /\ ~r.released /\ known[r.id].expires # r.expires ->
                 <<Event("renewed", r.id, "listed", <<>>)>>
          [] OTHER -> <<>>
Stale(r) ==
    IF ~r.released /\ r.expires <= now /\ <<r.id, r.expires>> \notin conflicts
    THEN <<Event("conflicted", r.id, "stale", <<r.id, r.expires>>)>> ELSE <<>>

\* Those it knew of and that are listed no more.
Vanished(list) ==
    {id \in DOMAIN known : known[id].active /\ \A i \in DOMAIN list : list[i].id # id}

\* Pairs found in conflict again in every round.
OverlapsAnew(list) ==
    LET active == SelectSeq(list, LAMBDA r : ~r.released)
        pairs == [i \in DOMAIN active |->
                     LET later == SelectSeq(SubSeq(active, i + 1, Len(active)),
                                            LAMBDA r : InConflict(active[i].id, r.id))
                     IN  [j \in DOMAIN later |-> <<active[i].id, later[j].id, "overlap">>]]
    IN  FlattenSeq(pairs)

\* The pairs of active reservations in conflict, in the order of the list; the keys of stale
\* reservations end in a time, those of overlaps are told from them by their third part.
Overlaps(list) ==
    LET active == SelectSeq(list, LAMBDA r : ~r.released)
        pairs == [i \in DOMAIN active |->
                     LET later == SelectSeq(SubSeq(active, i + 1, Len(active)),
                                            LAMBDA r : InConflict(active[i].id, r.id))
                     IN  [j \in DOMAIN later |-> <<active[i].id, later[j].id, "overlap">>]]
    IN  SelectSeq(FlattenSeq(pairs), LAMBDA key : key \notin conflicts)
OverlapEvent(key) == Event("conflicted", key[1], "overlap", key)

-----------------------------------------------------------------------------
Idle == [step |-> "idle", mail |-> <<>>, list |-> <<>>, out |-> <<>>, on |-> 0, ok |-> FALSE]

Init ==
    /\ inbox = <<>> /\ now = 0
    /\ held = [r \in Reservations |-> [state |-> "none", expires |-> 0]]
    /\ seen = {} /\ known = <<>> /\ conflicts = {}
    /\ call = [c \in Pollers \cup Forcers |-> Idle]
    /\ told = <<>> /\ ledger = {}
    /\ overlapped = FALSE /\ calls = 0 /\ faults = 0

To(c, step) == call' = [call EXCEPT ![c].step = step]
Fault == faults < MaxFaults /\ faults' = faults + 1

\* A failure uses one of the MaxFaults; success none.
Costs(ok) == IF ok THEN UNCHANGED faults ELSE Fault

(* The agents, whose requests the service grants: reservations are advisory. *)
Send(m) ==
    /\ \A i \in DOMAIN inbox : inbox[i] # m
    /\ ValidSend(m)
    /\ inbox' = <<m>> \o inbox
    /\ UNCHANGED <<held, now>>
Reserve(r) ==
    /\ held[r].state = "none"
    /\ held' = [held EXCEPT ![r] = [state |-> "held", expires |-> now + 1]]
    /\ UNCHANGED <<inbox, now>>
Renew(r) ==
    /\ held[r].state = "held" /\ held[r].expires <= now
    /\ held' = [held EXCEPT ![r].expires = now + 1]
    /\ UNCHANGED <<inbox, now>>
Release(r) ==
    /\ held[r].state = "held"
    /\ held' = [held EXCEPT ![r].state = "released"]
    /\ UNCHANGED <<inbox, now>>
Tick == now < MaxTime /\ now' = now + 1 /\ UNCHANGED <<inbox, held>>
Service ==
    /\ \/ \E m \in Messages : Send(m)
       \/ \E r \in Reservations : Reserve(r) \/ Renew(r) \/ Release(r)
       \/ Tick
    /\ UNCHANGED <<viewVars, call, told, ledger, overlapped, calls, faults>>

(* A round: SyncOnce.                                                      *)

\* FetchInbox answers, or Run ends with its error.
FetchInbox(p) ==
    /\ call[p].step = "idle" /\ calls < MaxCalls
    /\ calls' = calls + 1
    /\ overlapped' = (overlapped \/ \E q \in Pollers \ {p} : call[q].step \notin {"idle", "ended"})
    /\ \E reply \in Replies :
           LET ok == CallTool(reply, "list") = "ok"
           IN  /\ Costs(ok)
               /\ call' = [call EXCEPT ![p].step = IF ok THEN "fetched" ELSE "ended",
                              ![p].mail = IF ok THEN SubSeq(inbox, 1, IF Len(inbox) < InboxLimit
                                                                      THEN Len(inbox) ELSE InboxLimit)
                                          ELSE <<>>]
    /\ UNCHANGED <<serviceVars, viewVars, told, ledger>>

\* What the service lists, active or not, in some order.
Listing(r) == [id |-> r, expires |-> held[r].expires, released |-> held[r].state \in {"released", "forced"}]
Listings ==
    LET reserved == {r \in Reservations : held[r].state # "none"}
        most == IF Cardinality(reserved) < ListLimit THEN Cardinality(reserved) ELSE ListLimit
    IN  {[i \in 1 .. most |-> Listing(order[i])] : order \in SetToSeqs(reserved)}

\* ListReservations answers, or the messages fetched are dropped and Run ends.
ListReservations(p) ==
    /\ call[p].step = "fetched"
    /\ \E first, second \in Replies :
           IF ListAnswered(first, second)
           THEN /\ \E list \in Listings :
                       call' = [call EXCEPT ![p].step = "listed", ![p].list = list]
                /\ UNCHANGED faults
           ELSE Fault /\ call' = [call EXCEPT ![p] = [Idle EXCEPT !.step = "ended"]]
    /\ UNCHANGED <<serviceVars, viewVars, told, ledger, overlapped, calls>>

\* IngestMessages, under the mutex: what is news is marked as seen before it is published.
IngestMessages(p) ==
    /\ call[p].step = "listed"
    /\ call' = [call EXCEPT ![p].step = "mail", ![p].mail = <<>>,
                            ![p].out = [i \in DOMAIN FreshMail(call[p].mail) |->
                                            MailEvent(FreshMail(call[p].mail)[i])]]
    /\ seen' = seen \cup ToSet(FreshMail(call[p].mail))
    /\ UNCHANGED <<serviceVars, known, conflicts, told, ledger, overlapped, calls, faults>>

\* IngestReservations, under the mutex: changes and stale ones as listed, then what vanished in
\* the order of a map, then the overlaps.
Differences(list, gone) ==
    FlattenSeq([i \in DOMAIN list |-> Change(list[i]) \o Stale(list[i])])
        \o [i \in DOMAIN gone |-> Event("released", gone[i], "vanished", <<>>)]
        \o [i \in DOMAIN Overlaps(list) |-> OverlapEvent(Overlaps(list)[i])]
ViewOf(list) ==
    [id \in DOMAIN known \cup {list[i].id : i \in DOMAIN list} |->
        IF \E i \in DOMAIN list : list[i].id = id
        THEN LET r == CHOOSE r \in ToSet(list) : r.id = id
             IN  [active |-> ~r.released, expires |-> r.expires]
        ELSE [known[id] EXCEPT !.active = FALSE]]
IngestReservations(p) ==
    /\ call[p].step = "mail" /\ call[p].out = <<>>
    /\ LET list == call[p].list
       IN  \E gone \in SetToSeqs(Vanished(list)) :
               /\ call' = [call EXCEPT ![p].step = "news", ![p].list = <<>>,
                                       ![p].out = Differences(list, gone)]
               /\ known' = ViewOf(list)
               /\ conflicts' = conflicts \cup {d.key : d \in {e \in ToSet(Differences(list, gone)) :
                                                                 e.why \in {"stale", "overlap"}}}
    /\ UNCHANGED <<serviceVars, seen, told, ledger, overlapped, calls, faults>>

\* publishInputs, one event at a time and without the mutex; then the round has ended.
Publish(p) ==
    /\ call[p].step \in {"mail", "news"} /\ call[p].out # <<>>
    /\ told' = Append(told, Head(call[p].out))
    /\ call' = [call EXCEPT ![p].out = Tail(@)]
    /\ UNCHANGED <<serviceVars, viewVars, ledger, overlapped, calls, faults>>
RoundEnds(p) ==
    /\ call[p].step = "news" /\ call[p].out = <<>>
    /\ To(p, "idle")
    /\ UNCHANGED <<serviceVars, viewVars, told, ledger, overlapped, calls, faults>>

\* The context of Run is done between two rounds.
Cancel(p) ==
    /\ call[p].step = "idle" /\ calls > 0
    /\ To(p, "ended")
    /\ UNCHANGED <<serviceVars, viewVars, told, ledger, overlapped, calls, faults>>

(* ForceReleaseReservation of the Ingestor, and the client's in it.        *)

\* A request that could not be recorded, made all the same.
ForceAskAnyway(f, r) ==
    /\ call[f].step = "idle" /\ calls < MaxCalls /\ held[r].state # "none"
    /\ calls' = calls + 1
    /\ \/ ledger' = ledger \cup {<<r, "requested">>} /\ UNCHANGED faults
       \/ Fault /\ UNCHANGED ledger
    /\ call' = [call EXCEPT ![f] = [Idle EXCEPT !.step = "ask", !.on = r]]
    /\ UNCHANGED <<serviceVars, viewVars, told, overlapped>>

\* The client wants a note, and a record of the request, before it asks; r is a reservation that
\* was made, released or not.
ForceAsk(f, r) ==
    /\ call[f].step = "idle" /\ calls < MaxCalls /\ held[r].state # "none"
    /\ calls' = calls + 1
    /\ \/ /\ ledger' = ledger \cup {<<r, "requested">>}
          /\ call' = [call EXCEPT ![f] = [Idle EXCEPT !.step = "ask", !.on = r]]
          /\ UNCHANGED faults
       \/ /\ Fault   \* no note, or no record
          /\ call' = [call EXCEPT ![f] = [Idle EXCEPT !.step = "tell", !.on = r]]
          /\ UNCHANGED ledger
    /\ UNCHANGED <<serviceVars, viewVars, told, overlapped>>

\* The service released it when it answers so, did not when it answers an error, and may have
\* when the answer is lost or not understood.
ForceCall(f) ==
    /\ call[f].step = "ask"
    /\ \E reply \in Replies, done \in BOOLEAN :
           /\ reply.kind = "result" => done
           /\ reply.kind \in {"error", "status"} => ~done
           /\ Costs(CallTool(reply, "object") = "ok")
           /\ call' = [call EXCEPT ![f].step = "record", ![f].ok = CallTool(reply, "object") = "ok"]
           /\ held' = IF done /\ held[call[f].on].state = "held"
                      THEN [held EXCEPT ![call[f].on].state = "forced"] ELSE held
    /\ UNCHANGED <<inbox, now, viewVars, told, ledger, overlapped, calls>>

\* The outcome is recorded; when it cannot be, a success is reported as the failure to record it.
ForceRecord(f) ==
    /\ call[f].step = "record"
    /\ \/ /\ ledger' = ledger \cup {<<call[f].on, IF call[f].ok THEN "success" ELSE "failure">>}
          /\ To(f, "tell") /\ UNCHANGED faults
       \/ /\ Fault
          /\ call' = [call EXCEPT ![f].step = "tell", ![f].ok = FALSE]
          /\ UNCHANGED ledger
    /\ UNCHANGED <<serviceVars, viewVars, told, overlapped, calls>>
ForceTell(f) ==
    /\ call[f].step = "tell"
    /\ told' = Append(told, IF call[f].ok THEN Event("released", call[f].on, "forced", <<>>)
                            ELSE Event("conflicted", call[f].on, "force_failed", <<>>))
    /\ call' = [call EXCEPT ![f] = Idle]
    /\ UNCHANGED <<serviceVars, viewVars, ledger, overlapped, calls, faults>>

Next ==
    \/ Service
    \/ \E p \in Pollers : \/ FetchInbox(p) \/ ListReservations(p) \/ IngestMessages(p)
                          \/ IngestReservations(p) \/ Publish(p) \/ RoundEnds(p) \/ Cancel(p)
    \/ \E f \in Forcers : \/ \E r \in Reservations : ForceAsk(f, r)
                          \/ ForceCall(f) \/ ForceRecord(f) \/ ForceTell(f)
Spec == Init /\ [][Next]_vars

-----------------------------------------------------------------------------
Events(s) == {"mail.sent", "mail.received", "mail.urgent"} \cup
             {"reservation." \o t : t \in {"requested", "renewed", "released", "conflicted"}}

\* Types: what is known, seen and told is of this service (activity/agentmail.go Ingestor).
MailTypeOK ==
    /\ inbox \in Seq(Messages) /\ now \in 0 .. MaxTime
    /\ held \in [Reservations -> [state : {"none", "held", "released", "forced"},
                                  expires : 0 .. MaxTime + 1]]
    /\ seen \subseteq Messages /\ DOMAIN known \subseteq Reservations
    /\ \A c \in DOMAIN call : call[c].step \in {"idle", "fetched", "listed", "mail", "news", "ended",
                                                "ask", "record", "tell"}
    /\ \A i \in DOMAIN told : told[i].type \in Events(told) /\ told[i].id \in Messages \cup Reservations
    /\ ledger \subseteq Reservations \X {"requested", "success", "failure"}

\* Everything told or about to be, each caller's in its order.
Coming == UNION {{<<c, i>> : i \in DOMAIN call[c].out} : c \in DOMAIN call}
Once(e) == e.why \in {"mail", "stale", "overlap"} \/ e.type = "reservation.requested"

\* However rounds overlap and their events mix, a message, a first sight of a reservation, an
\* expiry of one and an overlap of two are each told once: the maps are written under the mutex
\* before anything is published (activity/agentmail.go:248-258, 265-320).
ToldOnce ==
    /\ \A i, j \in DOMAIN told : Once(told[i]) /\ told[i] = told[j] => i = j
    /\ \A x \in Coming : LET e == call[x[1]].out[x[2]] IN
           Once(e) => /\ \A i \in DOMAIN told : told[i] # e
                      /\ \A y \in Coming : call[y[1]].out[y[2]] = e => y = x

\* While rounds do not overlap, the events of a reservation tell its life in order - requested,
\* renewed, released - and end where the last listing left it; a reservation told as released
\* is held by nobody, as long as the list is whole (activity/agentmail.go:262-303).
Polled(r) ==
    LET own(s) == SelectSeq(s, LAMBDA e : e.id = r /\ e.why \in {"listed", "vanished"})
        running == {p \in Pollers : call[p].out # <<>>}
    IN  own(told) \o (IF running = {} THEN <<>> ELSE own(call[CHOOSE p \in running : TRUE].out))
LivesAreTold ==
    ~overlapped =>
        \A r \in Reservations : LET life == Polled(r) IN
            /\ \A i \in DOMAIN life : /\ (life[i].type = "reservation.requested") = (i = 1)
                                      /\ life[i].type = "reservation.released" => i = Len(life)
            /\ r \in DOMAIN known =>
                   known[r].active = (life # <<>> /\ Last(life).type # "reservation.released")
            /\ (life # <<>> /\ Last(life).type = "reservation.released")
                   => held[r].state \in {"released", "forced"}

\* Nothing is released by force that was not recorded as asked for, and a forced release that is
\* told was made and recorded (adapters/agentmail/client.go:236-283).
ForceIsRecorded ==
    /\ \A r \in Reservations : held[r].state = "forced" => <<r, "requested">> \in ledger
    /\ \A i \in DOMAIN told : told[i].why = "forced" =>
           /\ <<told[i].id, "success">> \in ledger
           /\ held[told[i].id].state # "held"

\* Two agents whose patterns name a common file are found in conflict, whichever comes first,
\* unless a pattern begins with a wildcard (activity/agentmail.go patternsOverlap).
Matches(pattern, file) ==
    \/ /\ Len(pattern) = Len(file)
       /\ \A i \in DOMAIN pattern : pattern[i] \in Wild \cup {file[i]}
    \/ /\ pattern # <<>> /\ Last(pattern) = "**" /\ Len(pattern) <= Len(file)
       /\ \A i \in 1 .. Len(pattern) - 1 : pattern[i] \in Wild \cup {file[i]}
OverlapsAreSeen(left, right, files) ==
    /\ PatternsOverlap(left, right) = PatternsOverlap(right, left)
    /\ (/\ left[1] \notin Wild /\ right[1] \notin Wild
        /\ \E f \in files : Matches(left, f) /\ Matches(right, f)) => PatternsOverlap(left, right)

\* Every message found is in one thread, whose participants are who wrote in it, each once, and
\* the thread of a bead leads back to it (adapters/agentmail/client.go ListThreads, BeadThreadID).
ThreadsAreWhole(found) ==
    LET threads == ListThreads(found)
    IN  /\ \A i, j \in DOMAIN threads : threads[i].key = threads[j].key => i = j
        /\ {t.key : t \in ToSet(threads)} = {ThreadKey(m) : m \in ToSet(found)}
        /\ \A t \in ToSet(threads) :
               LET its == {m \in ToSet(found) : ThreadKey(m) = t.key}
               IN  /\ ToSet(t.participants) \ {""} = {m.from : m \in its} \ {""}
                   /\ IsInjective(t.participants)
                   /\ \E m \in its : m.id = t.last
        /\ \A bead \in {<<"hp", "1">>, <<"b", "1">>, <<"7">>} :
               BeadIDFromThread(BeadThreadID(bead)) = bead
=============================================================================
