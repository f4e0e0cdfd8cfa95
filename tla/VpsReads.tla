------------------------------ MODULE VpsReads ------------------------------
(***************************************************************************)
(* Reading the working tree on the server: the git routes (api/vps), the   *)
(* git client and its parsers (adapters/git), the cache of diffs, and the  *)
(* search with its subprocess (search).  An agent edits, stages and        *)
(* commits while a request runs git several times, and the pipes of a      *)
(* search are read while another goroutine waits for the process.          *)
(*                                                                         *)
(* index and work are versions: the size and the time of modification that *)
(* the key of the cache takes from a file change with every write.  The    *)
(* bytes of a diff are what it compares.                                   *)
(***************************************************************************)
EXTENDS Integers, Sequences, FiniteSets, SequencesExt

CONSTANTS Callers, Nothing, TTL, Units, Limit,
          MaxTime, MaxEdits, MaxCalls   \* bounds

VARIABLES head, index, work, dirty,   \* the repository
          entries,                    \* DiffCache
          call,                       \* the requests
          now, edits, calls

repository == <<head, index, work, dirty>>
vpsVars == <<repository, entries, call, now, edits, calls>>

---------------------------------------------------------------------------
(* The parsers of adapters/git. *)

\* parseStatusBranchHeader: what the first line says about the branch.  A header with an
\* upstream has counts, or says that the upstream is gone; that it is gone is forgotten
\* when the name of the upstream is read after it.
BranchOf(header) ==
    IF header.detached
    THEN [branch |-> "HEAD", upstream |-> "", ahead |-> -1, behind |-> -1, detached |-> TRUE]
    ELSE [branch |-> header.branch, upstream |-> header.upstream, detached |-> FALSE,
          ahead |-> IF header.upstream = "" THEN -1 ELSE header.ahead,
          behind |-> IF header.upstream = "" THEN -1 ELSE header.behind]

\* parseStatus: the files, and whether there is nothing to commit or to push.
StatusOf(header, files) ==
    [branch |-> BranchOf(header), files |-> files,
     clean |-> files = {} /\ BranchOf(header).ahead <= 0]

\* workingTreeFile and statusFiles: the two letters of a file.
Untracked(xy) == xy = <<"?", "?">>
Staged(xy) == ~Untracked(xy) /\ xy[1] # " "
Unstaged(xy) == Untracked(xy) \/ xy[2] # " "
Deleted(xy) == xy[1] = "D" \/ xy[2] = "D"
Counts(files) ==
    [files |-> Cardinality(files),
     staged |-> Cardinality({f \in files : Staged(f.xy)}),
     unstaged |-> Cardinality({f \in files : Unstaged(f.xy)}),
     untracked |-> Cardinality({f \in files : Untracked(f.xy)}),
     deleted |-> Cardinality({f \in files : Deleted(f.xy)})]

\* parsePushPorcelain: one rejected ref makes the push a failure.
PushOk(updates) == \A i \in DOMAIN updates : updates[i] # "!"
ForceNeedsApproval(force, approval) == force => approval # ""

\* parseBlamePorcelain, line by line: a line of contents closes an entry and forgets it.
Blame(output) ==
    LET Read(acc, line) ==
          CASE line.kind = "author" -> [acc EXCEPT !.author = line.name]
            [] line.kind = "commit" -> [acc EXCEPT !.sha = line.sha]
            [] OTHER -> IF acc.sha = "" THEN acc
                        ELSE [lines |-> Append(acc.lines, [sha |-> acc.sha, author |-> acc.author]),
                              sha |-> "", author |-> ""]
    IN  FoldLeft(Read, [lines |-> << >>, sha |-> "", author |-> ""], output).lines

\* What git blame --porcelain prints of a file whose lines are of these commits: the author
\* of a commit stands at its first line only.
Porcelain(commits) ==
    FlattenSeq([i \in DOMAIN commits |->
        <<[kind |-> "commit", sha |-> commits[i]]>>
        \o (IF \E j \in 1 .. i - 1 : commits[j] = commits[i] THEN << >>
            ELSE <<[kind |-> "author", name |-> commits[i]]>>)
        \o <<[kind |-> "contents"]>>])

\* normalizePage and paginateLines.
Page(total, start, limit, default, max) ==
    LET first == IF start <= 0 THEN 1 ELSE start
        size == IF limit <= 0 THEN default ELSE IF limit > max THEN max ELSE limit
        last == IF first + size - 1 > total THEN total ELSE first + size - 1
    IN  IF first > total THEN [lines |-> {}, more |-> FALSE, next |-> 0]
        ELSE [lines |-> first .. last, more |-> last < total, next |-> last + 1]

\* gateRead: a route whose capability is missing, untested or blocked is not read.
Gated(statuses) == \E s \in statuses : s \in {"absent", "missing", "untested", "blocked"}

\* mapProjectError: what an error becomes; anything else is a failed git command.
Problem(err) ==
    CASE err = "resolver missing" -> 501
      [] err = "project not found" -> 404
      [] err = "no clone" -> 422
      [] err \in {"invalid kind", "invalid search", "outside root"} -> 400
      [] OTHER -> 502

\* resolveRoot and resolveInside: a path is searched only when its real place is inside.
Inside(root, place) == IsPrefix(root, place)
SearchPaths(root, places) ==
    IF places = << >> THEN {root}
    ELSE IF \E i \in DOMAIN places : ~Inside(root, places[i]) THEN {} ELSE Range(places)

\* ParseRipgrepJSON: every match is counted, the first max are kept.
Parsed(matches, max) ==
    [results |-> SubSeq(matches, 1, IF Len(matches) < max THEN Len(matches) ELSE max),
     count |-> Len(matches), capped |-> Len(matches) > max]

---------------------------------------------------------------------------
(* Diff. *)

Idle == [step |-> "idle", kind |-> "", key |-> Nothing, diff |-> Nothing, hit |-> FALSE,
         seen |-> {}, run |-> Nothing, answer |-> ""]

\* What git diff prints, staged or not: the two versions that it compares.
GitDiff(kind) == IF kind = "staged" THEN <<head, index>> ELSE <<index, work>>

Init ==
    /\ head = 0 /\ index = 0 /\ work = 0 /\ dirty = FALSE /\ entries = << >>
    /\ call = [c \in Callers |-> Idle] /\ now = 0 /\ edits = 0 /\ calls = 0

Begin(c, step, kind) ==
    /\ call[c].step = "idle" /\ calls < MaxCalls /\ calls' = calls + 1
    /\ call' = [call EXCEPT ![c] = [Idle EXCEPT !.step = step, !.kind = kind,
                                        !.seen = IF step = "status" THEN {GitDiff(kind)} ELSE {}]]

\* Diff with a project, a clone and a valid kind; the other cases are Problem's.
Diff(c) == /\ \E kind \in {"staged", "unstaged"} : Begin(c, "status", kind)
           /\ UNCHANGED <<repository, entries, now, edits>>

\* statusHead: git status and git rev-parse are two commands.
Status(c) ==
    /\ call[c].step = "status"
    /\ call' = [call EXCEPT ![c].step = "head", ![c].key = [dirty |-> dirty]]
    /\ UNCHANGED <<repository, entries, now, edits, calls>>
RevParse(c) ==
    /\ call[c].step = "head"
    /\ call' = [call EXCEPT ![c].step = "stat", ![c].key = [dirty |-> @.dirty, head |-> head]]
    /\ UNCHANGED <<repository, entries, now, edits, calls>>

\* As a bug would have it: the index is not statted.
StatFilesOnly(key, kind) ==
    [kind |-> kind, dirty |-> key.dirty, head |-> key.head, index |-> 0,
     work |-> IF key.dirty THEN work ELSE Nothing]
\* diffCacheKey: the files that status listed are statted, and always the index.
Stat(key, kind) ==
    [kind |-> kind, dirty |-> key.dirty, head |-> key.head, index |-> index,
     work |-> IF key.dirty THEN work ELSE Nothing]


Keys == DOMAIN entries
Fresh(k) == k \in Keys /\ entries[k].expires > now

\* cachedDiff: DiffCache.Get, which drops an entry that has expired.
LookUp(c) ==
    /\ call[c].step = "stat"
    /\ LET k == Stat(call[c].key, call[c].kind)
       IN  IF Fresh(k)
           THEN /\ call' = [call EXCEPT ![c].step = "answered", ![c].key = k, ![c].hit = TRUE,
                                        ![c].diff = entries[k].diff, ![c].answer = "ok"]
                /\ UNCHANGED entries
           ELSE /\ call' = [call EXCEPT ![c].step = "run", ![c].key = k]
                /\ entries' = [x \in Keys \ {k} |-> entries[x]]
    /\ UNCHANGED <<repository, now, edits, calls>>

Run(c) == /\ call[c].step = "run"
          /\ call' = [call EXCEPT ![c].step = "set", ![c].diff = GitDiff(call[c].kind)]
          /\ UNCHANGED <<repository, entries, now, edits, calls>>

\* DiffCache.Set and the answer.
SetEntry(c) ==
    /\ call[c].step = "set"
    /\ entries' = [x \in Keys \cup {call[c].key} |->
                      IF x = call[c].key THEN [diff |-> call[c].diff, expires |-> now + TTL]
                      ELSE entries[x]]
    /\ call' = [call EXCEPT ![c].step = "answered", ![c].answer = "ok"]
    /\ UNCHANGED <<repository, now, edits, calls>>

\* Any command may fail; git.command_failed.
GitFails(c) ==
    /\ call[c].step \in {"status", "head", "run"}
    /\ call' = [call EXCEPT ![c].step = "answered", ![c].answer = "failed", ![c].diff = Nothing]
    /\ UNCHANGED <<repository, entries, now, edits, calls>>

Answer(c) == /\ call[c].step = "answered" /\ call' = [call EXCEPT ![c] = Idle]
             /\ UNCHANGED <<repository, entries, now, edits, calls>>

\* Somebody edits, reverts, stages or commits; running requests see it happen.
See == call' = [c \in Callers |-> [call[c] EXCEPT !.seen =
                    IF call[c].kind = "" THEN {}
                    ELSE @ \cup {IF call[c].kind = "staged" THEN <<head', index'>> ELSE <<index', work'>>}]]
Change ==
    /\ edits < MaxEdits /\ edits' = edits + 1
    /\ \/ work' = work + 1 /\ dirty' = TRUE /\ UNCHANGED <<head, index>>
       \/ dirty /\ work' = index /\ dirty' = FALSE /\ UNCHANGED <<head, index>>
       \/ dirty /\ index' = work /\ dirty' = (head # work) /\ UNCHANGED <<head, work>>
       \/ index # head /\ head' = index /\ dirty' = (work # index) /\ UNCHANGED <<index, work>>
    /\ See
    /\ UNCHANGED <<entries, now, calls>>

Pass == now < MaxTime /\ now' = now + 1 /\ UNCHANGED <<repository, entries, call, edits, calls>>

---------------------------------------------------------------------------
(* Search: OSRunner.Run.  out is what ripgrep has written, got what the copying goroutine
   has taken from the pipe; Wait closes the pipe as soon as the process has ended. *)

Search(c) ==
    /\ Begin(c, "search", "")
    /\ UNCHANGED <<repository, entries, now, edits>>
Start(c) ==
    /\ call[c].step = "search"
    /\ call' = [call EXCEPT ![c].step = "running",
                            ![c].run = [out |-> 0, got |-> 0, alive |-> TRUE, code |-> 0,
                                        closed |-> FALSE, copied |-> ""]]
    /\ UNCHANGED <<repository, entries, now, edits, calls>>
Running(c) == call[c].step = "running"
ToRun(c, r) == /\ call' = [call EXCEPT ![c].run = r]
               /\ UNCHANGED <<repository, entries, now, edits, calls>>

Write(c) == /\ Running(c) /\ call[c].run.alive /\ call[c].run.out < Units
            /\ ToRun(c, [call[c].run EXCEPT !.out = @ + 1])
\* Exit with matches, with none, or with an error.
Exit(c) == /\ Running(c) /\ call[c].run.alive
           /\ \E code \in 0 .. 2 : ToRun(c, [call[c].run EXCEPT !.alive = FALSE, !.code = code])
WaitCloses(c) == /\ Running(c) /\ ~call[c].run.alive /\ ~call[c].run.closed
                 /\ ToRun(c, [call[c].run EXCEPT !.closed = TRUE])

\* As a bug would have it: a pipe that was closed is taken for its end.
CopyClosed(c) ==
    LET r == call[c].run
    IN  /\ Running(c) /\ r.copied = ""
        /\ IF ~r.closed /\ r.got < r.out THEN ToRun(c, [r EXCEPT !.got = @ + 1])
           ELSE ~r.alive /\ ToRun(c, [r EXCEPT !.copied = "end"])
\* copyCommandOutput: over the limit it cancels, and the process is killed.
Copy(c) ==
    LET r == call[c].run
    IN  /\ Running(c) /\ r.copied = ""
        /\ CASE r.closed -> ToRun(c, [r EXCEPT !.copied = "error"])
             [] ~r.closed /\ r.got < r.out /\ r.got < Limit -> ToRun(c, [r EXCEPT !.got = @ + 1])
             [] ~r.closed /\ r.got < r.out /\ r.got = Limit ->
                    ToRun(c, [r EXCEPT !.copied = "error", !.alive = FALSE,
                                       !.code = IF r.alive THEN -1 ELSE @])
             [] OTHER -> ~r.alive /\ ToRun(c, [r EXCEPT !.copied = "end"])


\* Both goroutines and Wait are through; exit codes above 1 are failures.
Finish(c) ==
    LET r == call[c].run
    IN  /\ Running(c) /\ r.closed /\ r.copied # ""
        /\ call' = [call EXCEPT ![c].step = "answered",
                        ![c].answer = IF r.copied = "end" /\ r.code \in {0, 1} THEN "ok" ELSE "failed"]
        /\ UNCHANGED <<repository, entries, now, edits, calls>>

Next ==
    \/ \E c \in Callers :
          \/ Diff(c) \/ Status(c) \/ RevParse(c) \/ LookUp(c) \/ Run(c) \/ SetEntry(c)
          \/ GitFails(c) \/ Answer(c) \/ Search(c) \/ Start(c) \/ Write(c) \/ Exit(c)
          \/ WaitCloses(c) \/ Copy(c) \/ Finish(c)
    \/ Change \/ Pass

Spec == Init /\ [][Next]_vpsVars

---------------------------------------------------------------------------
\* Entries expire, and a caller has one request.
VpsTypeOK ==
    /\ \A k \in Keys : entries[k].expires \in TTL .. MaxTime + TTL
    /\ \A c \in Callers : call[c].run # Nothing => call[c].run.got <= call[c].run.out
                                                   /\ call[c].run.got <= Limit

\* A staged diff, cached or not, is one that was true at some moment of the request,
\* whoever ran git and whatever was staged or committed between its commands.
StagedDiffIsCurrent ==
    \A c \in Callers : call[c].answer = "ok" /\ call[c].kind = "staged" => call[c].diff \in call[c].seen

\* A search that is answered is answered from all that ripgrep wrote.
SearchIsWhole ==
    \A c \in Callers : call[c].answer = "ok" /\ call[c].run # Nothing => call[c].run.got = call[c].run.out

\* A blame has every line of the file, in order, under its commit.  (The author, which
\* porcelain prints once per commit, is lost on its later lines: client.go's "per-line
\* authorship" does not hold, and no run says it does.)
BlameKeepsLines(commits) ==
    LET lines == Blame(Porcelain(commits))
    IN  Len(lines) = Len(commits) /\ \A i \in DOMAIN lines : lines[i].sha = commits[i]

\* Turning pages reads every line once: the next page starts where this one ended, and the
\* last says so.
PagesCover(total, limit, default, max) ==
    \A start \in 1 .. total :
        LET p == Page(total, start, limit, default, max)
        IN  /\ p.lines # {} /\ start \in p.lines
            /\ p.more <=> (\E n \in 1 .. total : n > start /\ \A m \in p.lines : m < n)
            /\ p.more => p.next \notin p.lines /\ p.next - 1 \in p.lines
=============================================================================
