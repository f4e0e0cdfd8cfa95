------------------------------ MODULE GitWatcher ------------------------------
(***************************************************************************)
(* The daemon's git watcher (watcher/git_watcher.go) together with the     *)
(* push executor (git/hooks/hooks.go) whose pushes it records.  One branch *)
(* of one project: commits are numbered along its line of history, the VPS *)
(* working tree is at head, origin holds some commit of that line (0 when  *)
(* the branch is absent) and others may move it anywhere.  Two pollers and *)
(* any number of pushes run concurrently; the watcher's lock is never held *)
(* across a git command or a publication.                                  *)
(***************************************************************************)
EXTENDS Integers, Sequences, SequencesExt, FiniteSets

CONSTANTS Pushers, Nothing,
          MaxSha, MaxTime, MaxFaults, MaxPolls,
          Grace,      \* propagationGrace
          TTL, Cap    \* seenTTL, seenCapacity

VARIABLES origin, head, \* the remote branch; the VPS head
          lastLocal,    \* lastLocalHead, 0 when not seeded
          lastRemote,   \* lastRemote of the branch: Nothing before the first poll, 0 absent
          pushedAt,     \* pushedSinceLastPoll of the branch, Nothing when there is none
          ring,         \* seenRing: the last Cap entries [key, ts], Hole where one expired
          local, remote, push, \* the pollers' and the pushes' locals
          done,         \* idempotency keys whose push succeeded: the commits pushed
          commitsTold,  \* commits named by vps_commit_created
          told,         \* origin_updated events: <<source, old, new>>; the seed counts as one
          view,         \* what the last origin_updated said of the branch
          now, spent
vars == <<origin, head, lastLocal, lastRemote, pushedAt, ring, local, remote, push, done,
          commitsTold, told, view, now, spent>>
watcher == <<lastLocal, lastRemote, pushedAt, ring>>

Hole == [key |-> Nothing, ts |-> 0]

\* What markSeenEvent is given: keys of commits and of updates of the branch.
Sha == 0..MaxSha
CommitKeys == {"commit"} \X Sha
UpdateKeys == {"external_push", "vps_push"} \X Sha \X Sha
WatcherConstants == /\ MaxSha \in Nat \ {0} /\ {MaxTime, MaxFaults, MaxPolls, Grace, TTL, Cap} \subseteq Nat
                    /\ Nothing \notin Sha \cup CommitKeys \cup UpdateKeys

\* UnpushedCommits: the commits of head that origin's branch does not have.
Unpushed == {c \in 1..MaxSha: origin < c /\ c <= head}

\* hasSeenEvent drops an entry past its TTL; SeenIn is its answer, Swept the
\* ring it leaves.
SeenIn(r, key) == \E i \in DOMAIN r: r[i].key = key /\ now - r[i].ts <= TTL
Swept(r, key) ==
  [i \in DOMAIN r |-> IF r[i].key = key /\ now - r[i].ts > TTL THEN Hole ELSE r[i]]

\* markSeenEvent: the oldest slot goes when the ring is full.
Marked(r, key) ==
  LET s == Append(Swept(r, key), [key |-> key, ts |-> now])
  IN  IF SeenIn(r, key) THEN r ELSE IF Len(s) > Cap THEN Tail(s) ELSE s

Faulty == spent.faults < MaxFaults
Spend == spent' = [spent EXCEPT !.faults = @ + 1]

(***************************** the world ***********************************)
Commit == /\ head < MaxSha /\ head' = head + 1
          /\ UNCHANGED <<origin, watcher, local, remote, push, done, commitsTold, told, view, now, spent>>
\* Someone else pushes, resets or deletes the branch.
ExternalPush == /\ Faulty /\ Spend
                /\ \E s \in 0..head: s # origin /\ origin' = s
                /\ UNCHANGED <<head, watcher, local, remote, push, done, commitsTold, told, view, now>>
Tick == /\ now < MaxTime /\ now' = now + 1
        /\ UNCHANGED <<origin, head, watcher, local, remote, push, done, commitsTold, told, view, spent>>

(************************** PollLocal **************************************)
\* currentHead, and the comparison under the lock.
LocalRead ==
  /\ local.pc = "idle" /\ spent.polls < MaxPolls
  /\ spent' = [spent EXCEPT !.polls = @ + 1]
  /\ IF head = 0 \/ head = lastLocal THEN UNCHANGED <<local, lastLocal>>
     ELSE IF lastLocal = 0 THEN lastLocal' = head /\ UNCHANGED local
     ELSE local' = [pc |-> "list", head |-> head, todo |-> {}, due |-> {}] /\ UNCHANGED lastLocal
  /\ UNCHANGED <<origin, head, lastRemote, pushedAt, ring, remote, push, done, commitsTold, told, view, now>>

\* As a bug would have it: the head is moved before the events are out.
LocalListEager ==
  /\ local.pc = "list"
  /\ local' = IF local.head \in Unpushed THEN [local EXCEPT !.pc = "tell", !.todo = Unpushed, !.due = Unpushed]
              ELSE [local EXCEPT !.pc = "idle"]
  /\ lastLocal' = local.head
  /\ UNCHANGED <<origin, head, lastRemote, pushedAt, ring, remote, push, done, commitsTold, told, view, now, spent>>
\* newUnpushedCommits: nothing unless the head read before is among them.
LocalList ==
  /\ local.pc = "list"
  /\ LET new == {c \in Unpushed: ~SeenIn(ring, <<"commit", c>>)}
     IN IF local.head \in Unpushed /\ new # {}
        THEN local' = [local EXCEPT !.pc = "tell", !.todo = new, !.due = Unpushed] /\ UNCHANGED lastLocal
        ELSE local' = [local EXCEPT !.pc = "idle"] /\ lastLocal' = local.head
  /\ UNCHANGED <<origin, head, lastRemote, pushedAt, ring, remote, push, done, commitsTold, told, view, now, spent>>

\* Oldest first; an event that cannot be published ends the poll without
\* moving lastLocalHead, so that the next poll tries again.
LocalTell ==
  /\ local.pc = "tell"
  /\ LET c == CHOOSE x \in local.todo: \A y \in local.todo: x <= y
         rest == local.todo \ {c}
     IN \/ /\ ring' = Marked(ring, <<"commit", c>>)
           /\ commitsTold' = commitsTold \cup {c}
           /\ local' = [local EXCEPT !.todo = rest, !.pc = IF rest = {} THEN "idle" ELSE "tell"]
           /\ lastLocal' = IF rest = {} THEN local.head ELSE lastLocal
           /\ UNCHANGED spent
        \/ /\ Faulty /\ Spend
           /\ local' = [local EXCEPT !.pc = "idle"]
           /\ UNCHANGED <<ring, commitsTold, lastLocal>>
  /\ UNCHANGED <<origin, head, lastRemote, pushedAt, remote, push, done, told, view, now>>


(************************** PollOrigin *************************************)
\* ListRemoteRefs, outside the lock.
OriginList == /\ remote.pc = "idle" /\ spent.polls < MaxPolls
              /\ remote' = [remote EXCEPT !.pc = "compare", !.next = origin]
              /\ spent' = [spent EXCEPT !.polls = @ + 1]
              /\ UNCHANGED <<origin, head, watcher, local, push, done, commitsTold, told, view, now>>

\* A deletion seen within the grace of a recorded push is taken for a view
\* that lags behind it.
Lagging == remote.next = 0 /\ pushedAt # Nothing /\ now - pushedAt < Grace

\* Under the lock: the first poll only seeds; then the difference, and the
\* stamps past their grace go.
OriginCompare ==
  /\ remote.pc = "compare"
  /\ IF lastRemote = Nothing
     THEN /\ lastRemote' = remote.next
          /\ told' = told \cup {<<"seed", remote.next, remote.next>>} /\ view' = remote.next
          /\ remote' = [remote EXCEPT !.pc = "idle"] /\ UNCHANGED pushedAt
     ELSE /\ remote' = IF remote.next = lastRemote \/ Lagging THEN [remote EXCEPT !.pc = "idle"]
                       ELSE [remote EXCEPT !.pc = "tell", !.old = lastRemote]
          /\ pushedAt' = IF pushedAt # Nothing /\ now - pushedAt >= Grace THEN Nothing ELSE pushedAt
          /\ UNCHANGED <<lastRemote, told, view>>
  /\ UNCHANGED <<origin, head, lastLocal, ring, local, push, done, commitsTold, now, spent>>

\* originUpdateKey: the source and the change, whenever it happened.
OriginKey(source, old, new) == <<source, old, new>>


\* A change told before is only applied; otherwise it is published, marked
\* and applied.  applyRefDelta writes whatever the reference holds by now.
OriginTell ==
  /\ remote.pc = "tell"
  /\ remote' = [remote EXCEPT !.pc = "idle"]
  /\ LET key == OriginKey("external_push", remote.old, remote.next)
     IN \/ /\ SeenIn(ring, key)
           /\ lastRemote' = remote.next
           /\ UNCHANGED <<ring, told, view, spent>>
        \/ /\ ~SeenIn(ring, key)
           /\ ring' = Marked(ring, key)
           /\ told' = told \cup {<<"external_push", remote.old, remote.next>>}
           /\ view' = remote.next
           /\ lastRemote' = remote.next /\ UNCHANGED spent
        \/ /\ ~SeenIn(ring, key) /\ Faulty /\ Spend
           /\ ring' = Swept(ring, key)
           /\ UNCHANGED <<told, view, lastRemote>>
  /\ UNCHANGED <<origin, head, lastLocal, pushedAt, local, push, done, commitsTold, now>>

(************************** ExecutePush ************************************)
\* One request of the post-commit hook for the head it sees; the hook sends
\* it again, with the same key, when the answer is late.
Request(p) ==
  /\ push[p].pc = "idle" /\ head # 0
  /\ IF head \in DOMAIN done
     THEN push' = [push EXCEPT ![p].pc = "answered"]
     ELSE push' = [push EXCEPT ![p] = [pc |-> "list", key |-> head, old |-> 0, new |-> 0]]
  /\ UNCHANGED <<origin, head, watcher, local, remote, done, commitsTold, told, view, now, spent>>

\* The audit entry, the list of unpushed commits and git push: refused when
\* origin is ahead of what is pushed, a no-op when it is there already.
GitPush(p) ==
  /\ push[p].pc = "list"
  /\ \/ /\ origin <= head
        /\ origin' = head
        /\ push' = [push EXCEPT ![p].pc = "record", ![p].old = origin, ![p].new = head]
        /\ UNCHANGED spent
     \/ /\ origin > head \/ Faulty
        /\ spent' = [spent EXCEPT !.faults = IF origin > head THEN @ ELSE @ + 1]
        /\ push' = [push EXCEPT ![p].pc = "answered"]
        /\ UNCHANGED origin
  /\ UNCHANGED <<head, watcher, local, remote, done, commitsTold, told, view, now>>

\* RecordPushCompleted and the idempotency entry: an origin_updated that fails
\* to go out leaves lastRemote alone, and the poller finds the change.
Record(p) ==
  /\ push[p].pc = "record"
  /\ push' = [push EXCEPT ![p].pc = "answered"]
  /\ done' = [k \in DOMAIN done \cup {push[p].key} |-> push[p].new]
  /\ LET old == push[p].old
         new == push[p].new
         key == OriginKey("vps_push", old, new)
     IN \/ /\ old # new
           /\ IF SeenIn(ring, key) THEN UNCHANGED <<ring, told, view>>
              ELSE /\ ring' = Marked(ring, key)
                   /\ told' = told \cup {<<"vps_push", old, new>>} /\ view' = new
           /\ lastRemote' = new /\ pushedAt' = now
           /\ UNCHANGED spent
        \/ /\ old # new /\ ~SeenIn(ring, key) /\ Faulty /\ Spend
           /\ ring' = Swept(ring, key)
           /\ UNCHANGED <<told, view, lastRemote, pushedAt>>
        \/ /\ old = new
           /\ UNCHANGED <<ring, told, view, lastRemote, pushedAt, spent>>
  /\ UNCHANGED <<origin, head, lastLocal, local, remote, commitsTold, now>>

Init == /\ origin = 1 /\ head = 1 /\ lastLocal \in {0, 1} /\ lastRemote \in {Nothing, 1}
        /\ pushedAt = Nothing /\ ring = <<>>
        /\ local = [pc |-> "idle", head |-> 0, todo |-> {}, due |-> {}]
        /\ remote = [pc |-> "idle", next |-> 0, old |-> 0]
        /\ push = [p \in Pushers |-> [pc |-> "idle", key |-> 0, old |-> 0, new |-> 0]]
        /\ done = <<>> /\ commitsTold = {} /\ told = {<<"seed", 1, 1>>} /\ view = 1
        /\ now = 0 /\ spent = [faults |-> 0, polls |-> 0]
Next == \/ Commit \/ ExternalPush \/ Tick
        \/ LocalRead \/ LocalList \/ LocalTell \/ OriginList \/ OriginCompare \/ OriginTell
        \/ \E p \in Pushers: Request(p) \/ GitPush(p) \/ Record(p)
Spec == Init /\ [][Next]_vars

----------------------------------------------------------------------------
WatcherTypeOK ==
  /\ origin \in 0..MaxSha /\ head \in 0..MaxSha /\ lastLocal \in 0..MaxSha
  /\ lastRemote \in {Nothing} \cup 0..MaxSha /\ Len(ring) <= Cap
  /\ local.pc \in {"idle", "list", "tell"} /\ remote.pc \in {"idle", "compare", "tell"}
  /\ \A p \in Pushers: push[p].pc \in {"idle", "list", "record", "answered"}

\* lastRemote only takes a commit that was seeded or that an origin_updated
\* has named: what the poller believes settled has been told at some time,
\* whatever failed to go out and whoever recorded first.
SettledWasTold ==
  lastRemote = Nothing \/ \E e \in told: e[3] = lastRemote

\* When a poll moves lastLocalHead, every commit it found unpushed has been
\* told, by this poll or before, also when a publication failed in between.
SettledCommitsTold ==
  (lastLocal # 0 /\ lastLocal' # lastLocal) =>
    IF local.pc = "list" THEN local.head \in Unpushed => Unpushed \subseteq commitsTold'
                         ELSE local.due \subseteq commitsTold'
=============================================================================
