---------------------------- MODULE ToolAdapters ----------------------------
(***************************************************************************)
(* The adapters of br, ubs and ru: which commands they build, what they    *)
(* read out of an answer, and what their probes report.  A command is its  *)
(* words as a set of flags behind a subcommand; an answer is what became   *)
(* of running it (Ran).                                                    *)
(***************************************************************************)
EXTENDS Integers, Sequences, FiniteSets, SequencesExt

CONSTANTS Nothing   \* no value

\* What Runner.Run and the reading of its output can come to: "absent" is a binary that cannot
\* be started, a number an exit status, "huge" output beyond the limit, "bad" output that the
\* contract does not allow.
Failures == {"absent", "timed out", "exit 127", "exit 1", "huge", "bad"}

\* statusForError of br and ubs, and of ru, for which exit 127 is a failure like another.
StatusOf(tool, failure) ==
    IF failure = "absent" \/ (failure = "exit 127" /\ tool # "ru") THEN "missing" ELSE "degraded"

-----------------------------------------------------------------------------
(* br: typed subcommands over the bead tracker.                            *)

BrWrites == {"issues.update", "ready", "create", "close", "dep.add", "dep.remove",
             "sync.flush_only", "sync.flush", "doctor", "schema"}
BrCapabilities == BrWrites \cup {"_present", "issues.read", "dep.cycles", "tui"}

\* Mutant: br is there, so all of it is.
BrProbeHopeful(version, list, cycles) ==
    [c \in BrCapabilities |->
        IF version # "ok" THEN StatusOf("br", version)
        ELSE IF c = "tui" THEN "blocked-by-policy" ELSE "ok"]
\* Adapter.Probe: version, then a list of one issue, then the dependency cycles; list = "short"
\* is an answer without a useful limit, cycles = "some" a cycle that was found.
BrProbe(version, list, cycles) ==
    [c \in BrCapabilities |->
        CASE version # "ok" -> IF c = "tui" /\ StatusOf("br", version) # "missing"
                               THEN "blocked-by-policy" ELSE StatusOf("br", version)
          [] version = "ok" /\ c = "_present" -> "ok"
          [] version = "ok" /\ c = "tui" -> "blocked-by-policy"
          [] version = "ok" /\ c = "issues.read" ->
                IF list = "ok" THEN "ok" ELSE IF list = "short" THEN "degraded"
                ELSE StatusOf("br", list)
          [] version = "ok" /\ c \in BrWrites -> IF list \in {"ok", "short"} THEN "ok" ELSE "degraded"
          [] OTHER -> IF list \in {"ok", "short"} /\ cycles = "none" THEN "ok" ELSE "degraded"]

\* What a request has to name: those that only read, and the others.
BrReads == [list |-> {}, ready |-> {}, blocked |-> {}, search |-> {"query"}, show |-> {"ids"},
            deplist |-> {"id"}, deptree |-> {"id"}, depcycles |-> {}]
BrNeeds == BrReads @@
           [create |-> {"title"}, update |-> {"ids", "change"}, close |-> {"ids"},
            reopen |-> {"ids"}, depadd |-> {"id", "dependsOn"}, depremove |-> {"id", "dependsOn"},
            sync |-> {}, doctor |-> {}, schema |-> {}, version |-> {}]

\* appendCommon and appendNonEmptyPair: a blank value leaves its flag out.
Flags(options) == {o \in DOMAIN options : options[o] \notin {"", " "}}

\* Mutant: --force is a change.
UpdateChangesLoosely(options) == Flags(options) # {}
\* UpdateArgv: --force changes nothing by itself.
UpdateChanges(options) == Flags(options) \ {"--force", "--db", "--actor"} # {}

\* The Argv functions: the subcommand and its flags, or Nothing for an invalid request.  given
\* is what the request names; version alone is not asked for JSON.
BrArgv(verb, given, options) ==
    LET has == given \cup (IF verb = "update" /\ UpdateChanges(options) THEN {"change"} ELSE {}) IN
    IF ~(BrNeeds[verb] \subseteq has) THEN Nothing
    ELSE [verb |-> verb, flags |-> Flags(options) \cup {IF verb = "version" THEN "--short" ELSE "--json"}]

\* What a typed operation comes to: an invalid request starts nothing, ran is what became of the
\* others.
BrCall(verb, given, options, ran) ==
    IF BrArgv(verb, given, options) = Nothing THEN "invalid" ELSE ran

\* ParseCycleReport and EnsureNoCycles: an object with cycles or a count, or a bare list.
CyclesOutcome(report) ==
    IF report.shape = "object" /\ ~report.given /\ report.count = 0 THEN "fails"
    ELSE IF report.cycles > 0 \/ (report.shape = "object" /\ report.count > 0) THEN "some" ELSE "none"

\* Mutant: the rows are committed before br has written them.
SyncAfterWriteEarly(message) ==
    IF message \in {"", " "} THEN << >> ELSE <<"stage", "commit", "flush">>
\* SyncAfterWritePlan: br writes its file, git stages .beads/ and commits it; each its own step.
SyncAfterWrite(message) ==
    IF message \in {"", " "} THEN << >> ELSE <<"flush", "stage", "commit">>

\* What is in HEAD after the first n steps, of what the tracker holds: db, the file, the index.
SyncRun(message, n) ==
    LET step(s, a) == CASE a = "flush" -> [s EXCEPT !.file = s.db]
                        [] a = "stage" -> [s EXCEPT !.index = s.file]
                        [] OTHER -> [s EXCEPT !.head = s.index]
    IN FoldLeft(step, [db |-> 1, file |-> 0, index |-> 0, head |-> 0],
                SubSeq(SyncAfterWrite(message), 1, n))

\* ParseListResponse: every field there, none negative, no fewer in total than issues.
ListAccepted(answer) ==
    /\ {"issues", "total", "limit", "offset", "has_more"} \subseteq answer.fields
    /\ answer.total >= 0 /\ answer.limit >= 0 /\ answer.offset >= 0
    /\ answer.total >= answer.issues

\* What the probe makes of a list of one.
ListOutcome(answer) ==
    IF ~ListAccepted(answer) THEN "bad"
    ELSE IF answer.limit = 0 /\ answer.issues > 0 THEN "short" ELSE "ok"

\* LoadReadModel: the rows of issues.jsonl, or Nothing when any line is no issue; the index by
\* id keeps the last row of an id, the list and the other indexes keep all.
ReadModel(lines) ==
    LET rows == SelectSeq(lines, LAMBDA l : ~l.blank) IN
    IF \E i \in DOMAIN rows : rows[i].torn \/ rows[i].id = "" THEN Nothing ELSE rows

\* Mutant: a candidate of the index is not asked for the rest of the query.
QueryIndexed(rows, q) ==
    IF q.id # "" THEN SelectSeq(rows, LAMBDA r : r.id = q.id)
    ELSE IF q.status # "" THEN SelectSeq(rows, LAMBDA r : r.status = q.status)
    ELSE SelectSeq(rows, LAMBDA r : q.owner \in {"", r.owner})
\* ReadModel.Query: the narrowest index first, every condition on what it gives.
Query(rows, q) ==
    LET last == {i \in DOMAIN rows : rows[i].id = q.id /\ \A j \in DOMAIN rows :
                                                            rows[j].id = q.id => j <= i}
        candidates == IF q.id # "" THEN [i \in 1 .. Cardinality(last) |-> rows[CHOOSE k \in last : TRUE]]
                      ELSE IF q.status # "" THEN SelectSeq(rows, LAMBDA r : r.status = q.status)
                      ELSE IF q.owner # "" THEN SelectSeq(rows, LAMBDA r : r.owner = q.owner)
                      ELSE rows
    IN SelectSeq(candidates, LAMBDA r : /\ q.status \in {"", r.status} /\ q.owner \in {"", r.owner}
                                        /\ q.prio => r.prio \in q.min .. q.max)

\* A read model answers what a scan of its rows would, as long as no id has two rows.
QueryIsFilter(lines, q) ==
    LET rows == ReadModel(lines)
        unique(s) == \A i, j \in DOMAIN s : s[i].id = s[j].id => i = j
    IN (rows # Nothing /\ unique(rows)) =>
         Query(rows, q) = SelectSeq(rows, LAMBDA r :
             /\ q.id \in {"", r.id} /\ q.status \in {"", r.status} /\ q.owner \in {"", r.owner}
             /\ q.prio => r.prio \in q.min .. q.max)

\* However far a sync after a write gets, HEAD holds what was there or all that the tracker
\* holds, and the whole plan leaves nothing behind.
SyncCommitsAll(message) ==
    \A n \in 0 .. Len(SyncAfterWrite(message)) :
        LET s == SyncRun(message, n) IN
        /\ s.head # 0 => s.file = s.head
        /\ n = 3 => s.head = s.db

\* No command is bare br, whose terminal interface policy blocks, and no update is empty.
CommandsAreTyped(verb, given, options) ==
    LET argv == BrArgv(verb, given, options) IN
    argv # Nothing => /\ BrCall(verb, given, options, "ok") = "ok"
                      /\ argv.flags \cap {"--json", "--short"} # {}
                      /\ verb = "update" => \E o \in argv.flags :
                             o \notin {"--json", "--force", "--db", "--actor"}

-----------------------------------------------------------------------------
(* ubs: scans, and their findings merged with those there are.             *)

\* A path is [abs |-> from the root, steps |-> its elements]; filepath.Clean takes out "..".
Clean(path) ==
    LET step(s, e) == IF e = "." THEN s
                      ELSE IF e = ".." /\ s # << >> /\ Last(s) # ".." THEN Front(s)
                      ELSE IF e = ".." /\ path.abs THEN s ELSE Append(s, e)
    IN [abs |-> path.abs, steps |-> FoldLeft(step, << >>, path.steps)]

\* filepath.Rel, for clean absolute paths: what leads from one to the other.
Rel(from, to) ==
    LET common == CHOOSE n \in 0 .. Len(from) :
                     /\ n <= Len(to) /\ SubSeq(from, 1, n) = SubSeq(to, 1, n)
                     /\ n < Len(from) /\ n < Len(to) => from[n + 1] # to[n + 1]
    IN [i \in 1 .. Len(from) - common |-> ".."] \o SubSeq(to, common + 1, Len(to))
Outside(steps) == steps = << >> \/ Head(steps) = ".."

\* Mutant: only what is written as leading outside is refused.
ScanPathAsWritten(project, path) ==
    IF path.abs THEN IF IsPrefix(project, path.steps) THEN SubSeq(path.steps, Len(project) + 1, Len(path.steps))
                     ELSE Nothing
    ELSE IF Outside(path.steps) THEN Nothing ELSE path.steps
\* One path of normalizeScanPaths: relative to the project and inside it, or refused.
ScanPath(project, path) ==
    LET clean == Clean(path)
        inside == IF path.abs THEN Rel(project, clean.steps) ELSE clean.steps
    IN IF Outside(inside) THEN Nothing ELSE inside

\* ScanArgv: round_0 takes the whole project, round_5 the files named; blank ones are dropped
\* after the request was asked for at least one.
ScanArgv(project, round, paths) ==
    LET named == IF round = "round_0" THEN {} ELSE paths
        files == {ScanPath(project, p) : p \in {q \in named : q.steps # <<" ">>}}
    IN IF (round = "round_5" /\ paths = {}) \/ Nothing \in files THEN Nothing
       ELSE [flags |-> {"--format=sarif", "--ci", "--non-interactive", "--no-auto-update"},
             files |-> files]

\* ParseSARIF: a result without a location is dropped; one without a line is on line 1.
Severity == [error |-> "critical", warning |-> "warning", note |-> "info", none |-> "info"]
Found(result) == [key |-> <<result.file, IF result.line = 0 THEN 1 ELSE result.line, result.rule>>,
                  severity |-> Severity[result.level], sources |-> {"ubs"}]
ParseSARIF(results) ==
    LET located == SelectSeq(results, LAMBDA r : r.located)
        findings == [i \in DOMAIN located |-> Found(located[i])]
        count(s) == Cardinality({i \in DOMAIN findings : findings[i].severity = s})
    IN [findings |-> findings, critical |-> count("critical"), warning |-> count("warning"),
        info |-> count("info"), files |-> Cardinality({findings[i].key[1] : i \in DOMAIN findings})]

\* Mutant: what is new is not looked for among what came before it in the same scan.
MergeFindingsOnce(existing, incoming) ==
    LET keys == {existing[i].key : i \in DOMAIN existing}
        from(k) == UNION {incoming[i].sources : i \in {j \in DOMAIN incoming : incoming[j].key = k}}
    IN [i \in DOMAIN existing |-> [existing[i] EXCEPT !.sources = @ \cup from(existing[i].key)]]
         \o SelectSeq(incoming, LAMBDA f : f.key \notin keys)
\* MergeFindings: same file, start line and rule is the same finding, which gathers the
\* sources; of several that were there already the last one gathers them.
MergeFindings(existing, incoming) ==
    LET one(merged, f) ==
            LET same == {i \in DOMAIN merged : merged[i].key = f.key} IN
            IF same = {} THEN Append(merged, f)
            ELSE [merged EXCEPT ![CHOOSE i \in same : \A j \in same : j <= i].sources = @ \cup f.sources]
    IN FoldLeft(one, existing, incoming)

\* Whatever a scan names lies inside the project, wherever it was written to lead.
ScansStayInside(project, paths) ==
    LET argv == ScanArgv(project, "round_5", paths) IN
    argv # Nothing => \A f \in argv.files :
        LET at == Clean([abs |-> TRUE, steps |-> project \o f]).steps
        IN IsPrefix(project, at) /\ at # project

\* Findings that reach the ledger are there once, whoever reported them, with all who did, and
\* a scan that is repeated adds none; what the summary counts are the findings.
MergeIsUnion(existing, results) ==
    LET scan == ParseSARIF(results)
        merged == MergeFindings(existing, scan.findings)
        distinct(s) == \A i, j \in DOMAIN s : s[i].key = s[j].key => i = j
        said(k) == UNION ({existing[i].sources : i \in {j \in DOMAIN existing : existing[j].key = k}}
                     \cup {{"ubs"} : i \in {j \in DOMAIN results : results[j].located
                                                       /\ Found(results[j]).key = k}})
    IN /\ distinct(existing) => /\ distinct(merged)
                                /\ \A i \in DOMAIN merged : merged[i].sources = said(merged[i].key)
       /\ MergeFindings(merged, scan.findings) = merged
       /\ scan.critical + scan.warning + scan.info
            = Cardinality({i \in DOMAIN results : results[i].located})

-----------------------------------------------------------------------------
(* ru: the surface that was adopted, and what a sync says it did.          *)

NotAdopted == {"review", "agent_sweep", "ai_sync", "dep_update"}
RuProbed == {"status.read", "list.paths", "sync.dry_run", "prune.dry_run", "robot_docs"}
RuCapabilities == RuProbed \cup NotAdopted \cup {"_present", "schema", "sync", "prune.archive"}

\* Adapter.Probe: version [got, fits], the schema and the commands it lists, then each surface
\* that changes nothing.  A version that cannot be had is what every capability is told as.
RuProbe(version, schema, surface) ==
    [c \in RuCapabilities |->
        IF version.got # "ok" THEN StatusOf("ru", version.got)
        ELSE CASE c = "_present" -> IF version.fits THEN "ok" ELSE "degraded"
               [] c = "schema" -> IF schema = "ok" THEN "ok"
                                  ELSE IF schema = "short" THEN "degraded" ELSE StatusOf("ru", schema)
               [] c \in RuProbed -> IF surface[c] = "ok" THEN "ok" ELSE StatusOf("ru", surface[c])
               [] c = "sync" -> "untested"
               [] OTHER -> "blocked-by-policy"]

\* ubs.Adapter.Probe.
UbsProbe(version) == [c \in {"scan"} |-> IF version = "ok" THEN "ok" ELSE StatusOf("ubs", version)]

\* Mutant: a repair that only lists what it would remove may also remove it.
AdoptedLoosely(verb, flags) ==
    CASE verb = "prune" -> flags \cap {"--dry-run", "--archive"} # {}
      [] verb = "sync" -> {"--json", "--non-interactive"} \subseteq flags
      [] verb = "status" -> {"--json", "--no-fetch"} \subseteq flags
      [] verb = "list" -> flags \cap {"--json", "--paths"} # {}
      [] OTHER -> flags = {} /\ verb \in {"--schema", "--version", "robot-docs"}
\* validateAdoptedArgv, which every command passes before it runs.
Adopted(verb, flags) ==
    CASE verb = "prune" -> "--delete" \notin flags /\ flags \cap {"--dry-run", "--archive"} # {}
      [] verb = "sync" -> {"--json", "--non-interactive"} \subseteq flags
      [] verb = "status" -> {"--json", "--no-fetch"} \subseteq flags
      [] verb = "list" -> flags \cap {"--json", "--paths"} # {}
      [] OTHER -> flags = {} /\ verb \in {"--schema", "--version", "robot-docs"}

\* SyncArgv, Nothing for what excludes itself.
SyncArgv(dryRun, cloneOnly, pullOnly) ==
    IF cloneOnly /\ pullOnly THEN Nothing
    ELSE {"--json", "--non-interactive"} \cup (IF dryRun THEN {"--dry-run"} ELSE {})
           \cup (IF cloneOnly THEN {"--clone-only"} ELSE {}) \cup (IF pullOnly THEN {"--pull-only"} ELSE {})

\* summarizeRepos: a status it does not know counts in the total alone.
Buckets == [cloned |-> "cloned", pulled |-> "pulled", failed |-> "failed", skipped |-> "skipped",
            dirty |-> "skipped", current |-> "skipped"]
Summarize(repos) ==
    [b \in {"total", "cloned", "pulled", "failed", "skipped"} |->
        Cardinality({i \in DOMAIN repos : b = "total" \/ (repos[i] \in DOMAIN Buckets /\ Buckets[repos[i]] = b)})]
Plus(a, b) == [k \in DOMAIN a |-> a[k] + b[k]]

\* Mutant: a row on its own is listed and not counted.
SyncLineUncounted(line) == [repos |-> line.repos, summary |-> IF line.doc THEN line.summary ELSE Summarize(<< >>)]
\* One line of ParseSync: a document with its own summary, counted when it has none, or the
\* row of one repository.
SyncLine(line) ==
    [repos |-> line.repos,
     summary |-> IF line.doc /\ line.summary.total > 0 THEN line.summary ELSE Summarize(line.repos)]

\* ParseSync, Nothing for output that is not such lines.
ParseSync(lines) ==
    IF lines = << >> \/ \E i \in DOMAIN lines : lines[i].torn THEN Nothing
    ELSE FoldLeft(LAMBDA r, l : [repos |-> r.repos \o SyncLine(l).repos,
                                 summary |-> Plus(r.summary, SyncLine(l).summary)],
                  [repos |-> << >>, summary |-> Summarize(<< >>)], lines)

\* The counts of a sync are those of the repositories it lists, as long as ru's own are: a
\* failed one is not lost, however the output was cut into lines.
SyncCountsItsRepos(lines) ==
    LET r == ParseSync(lines) IN
    (r # Nothing /\ \A i \in DOMAIN lines :
        lines[i].doc /\ lines[i].summary.total > 0 => lines[i].summary = Summarize(lines[i].repos))
      => r.summary = Summarize(r.repos)

\* Every sync that can be asked for is adopted, and nothing adopted removes a checkout.
OnlyAdoptedRuns(verb, flags) ==
    /\ Adopted(verb, flags) => ~(verb = "prune" /\ "--delete" \in flags)
    /\ \A d, c, p \in BOOLEAN : SyncArgv(d, c, p) # Nothing => Adopted("sync", SyncArgv(d, c, p))

-----------------------------------------------------------------------------
\* A tool is told missing only when it cannot be started, and what policy blocks is never
\* offered: not br's terminal interface, nor what of ru was not adopted (Adapter.Probe).
ReportsAreTrue(version, list, cycles, fits) ==
    LET br == BrProbe(version, list, cycles)
        ru == RuProbe([got |-> version, fits |-> fits], list, [c \in RuProbed |-> list])
        gone(tool) == \E f \in {version, list} \ {"ok", "short"} : StatusOf(tool, f) = "missing"
    IN /\ \A c \in DOMAIN br : br[c] = "missing" => gone("br")
       /\ \A c \in DOMAIN ru : ru[c] = "missing" => "absent" \in {version, list}
       /\ UbsProbe(version)["scan"] = "missing" => gone("ubs")
       /\ br["tui"] \notin {"ok", "untested", "degraded"}
       /\ \A c \in NotAdopted \cup {"prune.archive"} : ru[c] \notin {"ok", "untested"}
       /\ \A c \in BrWrites : br[c] = "ok" => version = "ok" /\ list \in {"ok", "short"}
=============================================================================
