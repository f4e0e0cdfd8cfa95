----------------------------- MODULE CloneSync -----------------------------
(***************************************************************************)
(* The clone of origin that the desktop shows (clone/sync): one goroutine, *)
(* Run, takes the events of the daemon and the ticks of its safety net one *)
(* by one, callers refresh and reconnect beside it, and a lock per project *)
(* lets one git fetch through at a time.  From the events Run also keeps   *)
(* which commits of the server have not been pushed.                       *)
(*                                                                         *)
(* origin and clone are versions of the refs; ahead is what the overlay    *)
(* unpushed should say.                                                    *)
(***************************************************************************)
EXTENDS Naturals, Sequences, FiniteSets, SequencesExt

CONSTANTS Projects, Commits, Callers, Nothing,
          HistoryLimit,
          MaxOrigin, MaxEvents, MaxCalls, MaxFaults   \* bounds

\* Nobody holds no lock, and there is something to poll.
SyncConstants ==
    /\ Nothing \notin Callers \cup {"run"} /\ HistoryLimit \in Nat
    /\ IsFiniteSet(Projects) /\ Projects # {}

VARIABLES origin, ahead, done,   \* outside: the remote, the server's commits, those ever made
          queue, seq, lost,      \* the subscription: events not yet received, the last number
          clone, holder,         \* the mirror and the lock of each project
          overlay,               \* projectState: unpushed, lastSeq, history
          actor,                 \* Run and the callers
          calls, faults

outside == <<origin, ahead, done>>
feed == <<queue, seq, lost>>
syncVars == <<outside, feed, clone, holder, overlay, actor, calls, faults>>

Run == "run"   \* the goroutine among the actors
Actors == Callers \cup {Run}
\* todo: the projects that are still to be fetched, in order; want: the version the trigger
\* is about; got: what git answered.
Idle == [pc |-> "idle", todo |-> << >>, kind |-> "", num |-> 0, want |-> 0, ok |-> FALSE]

---------------------------------------------------------------------------
(* Outside. *)

Event(type, p, commits, ok, want) ==
    [num |-> seq + 1, type |-> type, project |-> p, commits |-> commits, ok |-> ok, want |-> want]
Send(e) == /\ seq < MaxEvents /\ seq' = seq + 1
           /\ queue' = Append(queue, e)
           /\ UNCHANGED <<lost, clone, holder, overlay, actor, calls, faults>>

\* gitevents: a commit on the server; a push that worked or not, with the commits it names
\* (none: the watcher could not list them, which it does for a push of everything); a push
\* of somebody else.
VPSCommit(p, c) ==
    /\ c \notin done /\ done' = done \cup {c}
    /\ ahead' = [ahead EXCEPT ![p] = @ \cup {c}]
    /\ UNCHANGED origin
    /\ Send(Event("commit", p, {c}, TRUE, 0))
Push(p, S) ==
    /\ origin[p] < MaxOrigin /\ S # {}
    /\ origin' = [origin EXCEPT ![p] = @ + 1]
    /\ ahead' = [ahead EXCEPT ![p] = @ \ S]
    /\ UNCHANGED done
    /\ \E named \in {S} \cup (IF S = ahead[p] THEN {{}} ELSE {}) :
          Send(Event("push", p, named, TRUE, origin[p] + 1))
PushFails(p, S) ==
    /\ S # {} /\ UNCHANGED outside
    /\ Send(Event("push", p, S, FALSE, 0))
OriginAdvances(p) ==
    /\ origin[p] < MaxOrigin
    /\ origin' = [origin EXCEPT ![p] = @ + 1] /\ UNCHANGED <<ahead, done>>
    /\ Send(Event("origin", p, {}, TRUE, origin[p] + 1))

\* A full subscription drops its oldest event.
Lose ==
    /\ queue # << >> /\ faults < MaxFaults /\ faults' = faults + 1
    /\ queue' = Tail(queue) /\ lost' = TRUE
    /\ UNCHANGED <<outside, seq, clone, holder, overlay, actor, calls>>

---------------------------------------------------------------------------
(* Run: one case of its select at a time. *)

Begin(a, kind, projects, num, want) ==
    actor' = [actor EXCEPT ![a] = [pc |-> "lock", todo |-> projects, kind |-> kind, num |-> num,
                                   want |-> want, ok |-> FALSE]]

\* As a bug would have it: what a push names is gone, whether it worked or not.
UnpushedAfterAnyway(e, o) == IF e.type = "commit" THEN o \cup e.commits ELSE o \ e.commits

\* recordUnpushed and recordPushed.
UnpushedAfter(e, o) ==
    CASE e.type = "commit" -> o \cup e.commits
      [] e.type = "push" /\ e.ok -> IF e.commits = {} THEN {} ELSE o \ e.commits
      [] OTHER -> o

\* HandleEvent: a push that worked and a move of origin are fetched.
HandleEvent ==
    /\ actor[Run].pc = "idle" /\ queue # << >>
    /\ LET e == Head(queue)
       IN  /\ overlay' = [overlay EXCEPT ![e.project].unpushed = UnpushedAfter(e, @),
                                         ![e.project].lastSeq = IF e.type = "origin" THEN @ ELSE e.num]
           /\ IF e.type = "commit" \/ ~e.ok THEN UNCHANGED actor
              ELSE Begin(Run, e.type, <<e.project>>, e.num, e.want)
    /\ queue' = Tail(queue)
    /\ UNCHANGED <<outside, seq, lost, clone, holder, calls, faults>>

\* Poll: all the projects, one after the other.
Tick ==
    /\ actor[Run].pc = "idle"
    /\ Begin(Run, "poll", SetToSeq(Projects), 0, 0)
    /\ UNCHANGED <<outside, feed, clone, holder, overlay, calls, faults>>

\* Refresh and Reconnect; the client names the last event that it has seen.
Refresh(c, p) ==
    /\ actor[c].pc = "idle" /\ calls < MaxCalls /\ calls' = calls + 1
    /\ \E num \in {0, seq} : Begin(c, IF num = 0 THEN "refresh" ELSE "reconnect", <<p>>, num, 0)
    /\ UNCHANGED <<outside, feed, clone, holder, overlay, faults>>

---------------------------------------------------------------------------
(* fetch *)

Of(a) == Head(actor[a].todo)

\* As a bug would have it: who finds the project locked takes the fetch that runs for its own.
Join(a) ==
    /\ actor[a].pc = "lock"
    /\ IF holder[Of(a)] = Nothing
       THEN holder' = [holder EXCEPT ![Of(a)] = a] /\ actor' = [actor EXCEPT ![a].pc = "fetch"]
       ELSE actor' = [actor EXCEPT ![a].pc = "record", ![a].ok = TRUE] /\ UNCHANGED holder
    /\ UNCHANGED <<outside, feed, clone, overlay, calls, faults>>

Lock(a) ==
    /\ actor[a].pc = "lock" /\ holder[Of(a)] = Nothing
    /\ holder' = [holder EXCEPT ![Of(a)] = a]
    /\ actor' = [actor EXCEPT ![a].pc = "fetch"]
    /\ UNCHANGED <<outside, feed, clone, overlay, calls, faults>>

\* GitFetcher.Fetch: a poll wants what there is when its fetch starts.
GitFetch(a) ==
    /\ actor[a].pc = "fetch"
    /\ clone' = [clone EXCEPT ![Of(a)] = origin[Of(a)]]
    /\ actor' = [actor EXCEPT ![a].pc = "record", ![a].ok = TRUE]
    /\ UNCHANGED <<outside, feed, holder, overlay, calls, faults>>
FetchFails(a) ==
    /\ actor[a].pc = "fetch" /\ faults < MaxFaults /\ faults' = faults + 1
    /\ actor' = [actor EXCEPT ![a].pc = "record", ![a].ok = FALSE]
    /\ UNCHANGED <<outside, feed, clone, holder, overlay, calls>>

\* As a bug would have it: nothing of the history is forgotten.
RecordedUntrimmed(o, a, p) ==
    [o EXCEPT !.history = Append(@, [kind |-> actor[a].kind, ok |-> actor[a].ok,
                                     want |-> actor[a].want, has |-> clone[p]])]
\* recordFetch.
Recorded(o, a, p) ==
    LET all == Append(o.history, [kind |-> actor[a].kind, ok |-> actor[a].ok, want |-> actor[a].want,
                                  has |-> clone[p]])
    IN  [o EXCEPT !.history = IF Len(all) <= HistoryLimit THEN all
                              ELSE SubSeq(all, Len(all) - HistoryLimit + 1, Len(all)),
                  !.lastSeq = IF actor[a].num > 0 THEN actor[a].num ELSE @]

\* As a bug would have it: a fetch that failed keeps the lock.
RecordLocked(a) ==
    LET p == Of(a)
    IN  /\ actor[a].pc = "record"
        /\ overlay' = [overlay EXCEPT ![p] = Recorded(@, a, p)]
        /\ holder' = [q \in Projects |-> IF q = p /\ actor[a].ok THEN Nothing ELSE holder[q]]
        /\ actor' = [actor EXCEPT ![a] =
                IF ~@.ok THEN [Idle EXCEPT !.pc = IF a = Run THEN "returned" ELSE "idle"]
                ELSE IF Len(@.todo) = 1 THEN Idle ELSE [@ EXCEPT !.pc = "lock", !.todo = Tail(actor[a].todo)]]
        /\ UNCHANGED <<outside, feed, clone, calls, faults>>

\* The result and the unlock.  A failure ends the caller's call, a poll and, through
\* HandleEvent or Poll, Run itself.
Record(a) ==
    LET p == Of(a)
    IN  /\ actor[a].pc = "record"
        /\ overlay' = [overlay EXCEPT ![p] = Recorded(@, a, p)]
        /\ holder' = [q \in Projects |-> IF q = p /\ holder[q] = a THEN Nothing ELSE holder[q]]
        /\ actor' = [actor EXCEPT ![a] =
                IF ~@.ok THEN [Idle EXCEPT !.pc = IF a = Run THEN "returned" ELSE "idle"]
                ELSE IF Len(@.todo) = 1 THEN Idle
                ELSE [@ EXCEPT !.pc = "lock", !.todo = Tail(actor[a].todo)]]
        /\ UNCHANGED <<outside, feed, clone, calls, faults>>

Fetching(a) == Lock(a) \/ GitFetch(a) \/ Record(a)

Init ==
    /\ origin = [p \in Projects |-> 0] /\ ahead = [p \in Projects |-> {}] /\ done = {}
    /\ queue = << >> /\ seq = 0 /\ lost = FALSE
    /\ clone = [p \in Projects |-> 0] /\ holder = [p \in Projects |-> Nothing]
    /\ overlay = [p \in Projects |-> [unpushed |-> {}, lastSeq |-> 0, history |-> << >>]]
    /\ actor = [a \in Actors |-> Idle] /\ calls = 0 /\ faults = 0

Next ==
    \/ \E p \in Projects :
          \/ \E c \in Commits : VPSCommit(p, c)
          \/ \E S \in SUBSET ahead[p] : Push(p, S) \/ PushFails(p, S)
          \/ OriginAdvances(p)
          \/ \E c \in Callers : Refresh(c, p)
    \/ \E a \in Actors : Fetching(a) \/ FetchFails(a)
    \/ HandleEvent \/ Tick \/ Lose

\* The goroutines run; select takes the tick or an event, whichever it finds.
Fairness == WF_syncVars(HandleEvent \/ Tick) /\ \A a \in Actors : WF_syncVars(Fetching(a))
Spec == Init /\ [][Next]_syncVars /\ Fairness

---------------------------------------------------------------------------
SyncTypeOK ==
    /\ \A p \in Projects : /\ clone[p] <= origin[p] /\ ahead[p] \subseteq done
                           /\ Len(overlay[p].history) <= HistoryLimit
                           /\ holder[p] \in Actors \cup {Nothing}
    /\ actor[Run].pc \in {"idle", "lock", "fetch", "record", "returned"}

\* One git fetch runs in a clone at a time (projectState.lock).
OneFetchPerClone ==
    \A p \in Projects :
        Cardinality({a \in Actors : actor[a].pc \in {"fetch", "record"} /\ Of(a) = p}) <= 1

\* A fetch that is recorded as done for an event has what the event announced.
RecordedFetchHasIt ==
    \A p \in Projects : \A i \in DOMAIN overlay[p].history :
        LET r == overlay[p].history[i] IN r.ok => r.has >= r.want

\* Whenever Run has heard everything, the overlay names exactly the unpushed commits.
OverlayIsTrue ==
    \A p \in Projects : queue = << >> /\ ~lost => overlay[p].unpushed = ahead[p]

\* The safety net: whatever was lost, a clone that is behind is fetched, as long as Run runs.
CatchesUp(p) == clone[p] < origin[p] ~> (clone[p] = origin[p] \/ actor[Run].pc = "returned")

---------------------------------------------------------------------------
(* clone/sandbox: commands on a path of the clone.  real says where the links of a path    *)
(* lead, << >> when it does not exist.                                                      *)

\* As a bug would have it: the path is held against the root as it is written.
ResolveAsWritten(root, path, real) ==
    IF real[path] = << >> \/ ~IsPrefix(root, path) THEN << >> ELSE real[path]

\* ResolveInside
ResolveInside(root, path, real) ==
    IF real[root] = << >> \/ real[path] = << >> \/ ~IsPrefix(real[root], real[path]) THEN << >>
    ELSE real[path]

\* isShellBinary and validateArgv.
Allowed(binary, args) == ~binary.shell /\ \A i \in DOMAIN args : ~args[i].control

\* OpenEditorCommand and RipgrepCommand: nothing, or the places the command is given.
OpenEditor(binary, args, root, path, real) ==
    IF Allowed(binary, args) /\ ResolveInside(root, path, real) # << >>
    THEN {ResolveInside(root, path, real)} ELSE {}
Ripgrep(binary, args, root, paths, real) ==
    IF ~Allowed(binary, args) \/ \E p \in paths : ResolveInside(root, p, real) = << >> THEN {}
    ELSE IF paths = {} THEN {real[root]} ELSE {ResolveInside(root, p, real) : p \in paths}

\* No command leaves the clone, whatever the links lead to.
CommandsStayInside(binary, args, root, paths, real) ==
    \A place \in Ripgrep(binary, args, root, paths, real)
                 \cup UNION {OpenEditor(binary, args, root, p, real) : p \in paths} :
        place # << >> => IsPrefix(real[root], place)
=============================================================================
