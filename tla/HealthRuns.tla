----------------------------- MODULE HealthRuns -----------------------------
(***************************************************************************)
(* Measuring a project in a worktree of its own (health) and sweeping such *)
(* worktrees away (tending/worktreecleanup).  A sweep lists the runs,      *)
(* looks at each, and then removes what its retention has run out for; a   *)
(* second sweep, a run that still works and failing commands interleave.   *)
(*                                                                         *)
(* A run directory has a time of modification, which what happens inside   *)
(* its repo does not change, and git has a registration of the worktree.   *)
(***************************************************************************)
EXTENDS Integers, Sequences, FiniteSets, SequencesExt, FiniteSetsExt

CONSTANTS Runs, KindOf,   \* run directories and the kind, health or review, of each
          Sweepers, Nothing, Retention,
          MaxTime, MaxFaults, MaxSweeps   \* bounds

\* Each kind of run is kept for a time, and a run that is gone leaves no directory.
HealthConstants ==
    /\ KindOf \in [Runs -> {"health", "review"}] /\ Retention \in [{"health", "review"} -> Nat]
    /\ Nothing \notin [modified : Nat, busy : BOOLEAN] \cup [at : Nat, of : Nat]

VARIABLES now, dir, registered, sweep, removedAt, sweeps, faults
healthVars == <<now, dir, registered, sweep, removedAt, sweeps, faults>>

---------------------------------------------------------------------------
(* A run. *)

\* Adapter.Plan's setup, git worktree add: the directory of a run is made once.
SetUp(r) ==
    /\ dir[r] = Nothing /\ removedAt[r] = Nothing
    /\ dir' = [dir EXCEPT ![r] = [modified |-> now, busy |-> TRUE]]
    /\ registered' = registered \cup {r}
    /\ UNCHANGED <<now, sweep, removedAt, sweeps, faults>>
EndRun(r) ==
    /\ dir[r] # Nothing /\ dir[r].busy
    /\ dir' = [dir EXCEPT ![r].busy = FALSE]
    /\ UNCHANGED <<now, registered, sweep, removedAt, sweeps, faults>>

Present == {r \in Runs : dir[r] # Nothing}

---------------------------------------------------------------------------
(* Sweep. *)

NoSweep == [pc |-> "idle", names |-> {}, candidates |-> {}, cleaned |-> {}, failed |-> {}, read |-> 0]

\* The clock of a sweep is read before it lists.
BeginSweep(s) ==
    /\ sweep[s].pc = "idle" /\ sweeps < MaxSweeps /\ sweeps' = sweeps + 1
    /\ sweep' = [sweep EXCEPT ![s] = [NoSweep EXCEPT !.pc = "list", !.read = now]]
    /\ UNCHANGED <<now, dir, registered, removedAt, faults>>
List(s) ==
    /\ sweep[s].pc = "list"
    /\ sweep' = [sweep EXCEPT ![s].pc = "look", ![s].names = Present]
    /\ UNCHANGED <<now, dir, registered, removedAt, sweeps, faults>>

\* As a bug would have it: a kind that is not health has the retention of health.
EligibleAsHealth(r, modified, clock) == clock - modified >= Retention["health"]

Eligible(r, modified, clock) == clock - modified >= Retention[KindOf[r]]

\* Discover looks at each of the listed; one that has vanished ends the sweep with an error.
Look(s) ==
    /\ sweep[s].pc = "look"
    /\ IF sweep[s].names = {} THEN sweep' = [sweep EXCEPT ![s].pc = "clean"]
       ELSE \E r \in sweep[s].names :
              IF dir[r] = Nothing THEN sweep' = [sweep EXCEPT ![s] = [NoSweep EXCEPT !.pc = "error"]]
              ELSE sweep' = [sweep EXCEPT ![s].names = @ \ {r},
                      ![s].candidates = IF Eligible(r, dir[r].modified, sweep[s].read) THEN @ \cup {r} ELSE @]
    /\ UNCHANGED <<now, dir, registered, removedAt, sweeps, faults>>

\* Candidates come by name; which one is next tells nothing apart.
NextOf(s) == CHOOSE r \in sweep[s].candidates : TRUE
Cleaning(s) == sweep[s].pc = "clean" /\ sweep[s].candidates # {}

\* git worktree remove --force takes the repo and its registration.
GitRemove(s) ==
    /\ Cleaning(s) /\ dir[NextOf(s)] # Nothing
    /\ registered' = registered \ {NextOf(s)}
    /\ sweep' = [sweep EXCEPT ![s].pc = "remove"]
    /\ UNCHANGED <<now, dir, removedAt, sweeps, faults>>

\* It fails, always where the directory is gone: git worktree prune forgets no worktree
\* whose directory is still there, and cannot run in one that is not.
GitFails(s) ==
    /\ Cleaning(s)
    /\ dir[NextOf(s)] # Nothing => faults < MaxFaults
    /\ faults' = IF dir[NextOf(s)] # Nothing THEN faults + 1 ELSE faults
    /\ sweep' = [sweep EXCEPT ![s].pc = "remove"]
    /\ UNCHANGED <<now, dir, registered, removedAt, sweeps>>

\* As a bug would have it: what could not be removed is reported as cleaned.
RemoveAllAnyway(s) ==
    /\ sweep[s].pc = "remove"
    /\ LET r == NextOf(s)
       IN  \E works \in IF faults < MaxFaults THEN BOOLEAN ELSE {TRUE} :
             /\ dir' = IF works THEN [dir EXCEPT ![r] = Nothing] ELSE dir
             /\ removedAt' = IF works /\ dir[r] # Nothing THEN [removedAt EXCEPT ![r] = [at |-> now, of |-> dir[r].modified]]
                             ELSE removedAt
             /\ faults' = IF works THEN faults ELSE faults + 1
             /\ sweep' = [sweep EXCEPT ![s].pc = "clean", ![s].candidates = @ \ {r}, ![s].cleaned = @ \cup {r}]
    /\ UNCHANGED <<now, registered, sweeps>>

\* RemoveAll is content with a directory that is gone.  What fails is reported, and the next
\* candidate comes all the same.
RemoveAll(s) ==
    /\ sweep[s].pc = "remove"
    /\ LET r == NextOf(s)
       IN  \E works \in IF faults < MaxFaults /\ dir[r] # Nothing THEN BOOLEAN ELSE {TRUE} :
             /\ dir' = IF works THEN [dir EXCEPT ![r] = Nothing] ELSE dir
             /\ removedAt' = IF works /\ dir[r] # Nothing THEN [removedAt EXCEPT ![r] = [at |-> now, of |-> dir[r].modified]]
                             ELSE removedAt
             /\ faults' = IF works THEN faults ELSE faults + 1
             /\ sweep' = [sweep EXCEPT ![s].pc = "clean", ![s].candidates = @ \ {r},
                             ![s].cleaned = IF works THEN @ \cup {r} ELSE @,
                             ![s].failed = IF works THEN @ ELSE @ \cup {r}]
    /\ UNCHANGED <<now, registered, sweeps>>

EndSweep(s) ==
    /\ sweep[s].pc = "error" \/ (sweep[s].pc = "clean" /\ sweep[s].candidates = {})
    /\ sweep' = [sweep EXCEPT ![s].pc = "idle", ![s].names = {}]
    /\ UNCHANGED <<now, dir, registered, removedAt, sweeps, faults>>

Tick == now < MaxTime /\ now' = now + 1 /\ UNCHANGED <<dir, registered, sweep, removedAt, sweeps, faults>>

Init ==
    /\ now = 0 /\ dir = [r \in Runs |-> Nothing] /\ registered = {}
    /\ sweep = [s \in Sweepers |-> NoSweep] /\ removedAt = [r \in Runs |-> Nothing]
    /\ sweeps = 0 /\ faults = 0

Next ==
    \/ \E r \in Runs : SetUp(r) \/ EndRun(r)
    \/ \E s \in Sweepers : \/ BeginSweep(s) \/ List(s) \/ Look(s) \/ GitRemove(s) \/ GitFails(s)
                           \/ RemoveAll(s) \/ EndSweep(s)
    \/ Tick
Spec == Init /\ [][Next]_healthVars

---------------------------------------------------------------------------
(* Planning a run: WorktreeRequest to RunPlan.  Paths are sequences of segments. *)

Ecosystems == {"ts", "python", "rust", "go", "generic"}

\* DetectEcosystems, from what the files of the project give away; generic is always there.
Detect(traces) == {"generic"} \cup (traces \cap Ecosystems)

\* cleanSegment
Segment(name) == name \notin {"", ".", "..", "a/b"}

\* BuildWorktreeSpec
SpecOf(req) ==
    LET root == req.home \o <<"work", req.project, "health", req.run>>
        path == Append(root, "repo")
    IN  IF ~Segment(req.project) \/ ~Segment(req.run) THEN [error |-> "invalid"]
        ELSE IF req.source = path THEN [error |-> "active"]
        ELSE [error |-> "", root |-> root, path |-> path, source |-> req.source,
              commit |-> IF req.commit = "" THEN "HEAD" ELSE req.commit]

\* CapabilityIDs and capabilityFor: what the generic adapter does not guess is missing.
CapabilityIDs(ecosystem) ==
    {"coverage", "complexity", "churn", "test_runs"}
    \cup {<<ecosystem, c>> : c \in {"coverage", "complexity", "churn",
                                    IF ecosystem = "generic" THEN "loc" ELSE "lint"}}
CapabilityOf(ecosystem, id) ==
    IF ecosystem = "generic" /\ id \in {"coverage", "test_runs", <<"generic", "coverage">>}
    THEN "missing" ELSE "ok"

\* commandPlan: the tools by what they measure; Rust builds beside the worktree.
Tools(ecosystem) ==
    CASE ecosystem = "ts"     -> <<"coverage", "coverage", "complexity", "churn", "loc">>
      [] ecosystem = "python" -> <<"coverage", "coverage", "complexity", "lint", "complexity", "churn">>
      [] ecosystem = "rust"   -> <<"coverage", "coverage", "lint", "test_runs", "complexity", "churn">>
      [] ecosystem = "go"     -> <<"coverage", "coverage", "complexity", "complexity", "lint", "churn">>
      [] OTHER                -> <<"complexity", "loc", "loc", "loc", "churn">>
CommandPlan(ecosystem, spec) ==
    [i \in DOMAIN Tools(ecosystem) |->
        [measures |-> Tools(ecosystem)[i], dir |-> spec.path,
         target |-> IF ecosystem = "rust" THEN Append(spec.root, "target") ELSE << >>]]

\* validateCommand: strictly below the root, and not the source.
Valid(command, spec) ==
    command.dir # spec.source /\ IsStrictPrefix(spec.root, command.dir)

\* Adapter.Plan
Plan(ecosystem, req) ==
    LET spec == SpecOf(req)
    IN  IF spec.error # "" THEN spec
        ELSE IF \A i \in DOMAIN Tools(ecosystem) : Valid(CommandPlan(ecosystem, spec)[i], spec)
             THEN [error |-> "", spec |-> spec, commands |-> CommandPlan(ecosystem, spec)]
             ELSE [error |-> "active"]

---------------------------------------------------------------------------
(* Measuring.  Percentages and factors are kept as numerators over what all files share. *)

Missing == -1   \* no coverage was measured

\* As a bug would have it: a file without coverage counts as covered.
PenaltyOfCovered(f, th) == IF f.coverage = Missing THEN 0 ELSE th.coverage - f.coverage

Penalty(f, th) == IF f.coverage = Missing THEN th.coverage ELSE th.coverage - f.coverage
Score(f, th) == f.complexity * Penalty(f, th) * (100 + f.churn)

\* normalizeThresholds and ScoreHotspots: the hottest first, then by path.
Thresholds(th) == [complexity |-> IF th.complexity <= 0 THEN 20 ELSE th.complexity,
                   coverage |-> IF th.coverage <= 0 THEN 60 ELSE th.coverage]
Hot(f, th) == f.complexity >= th.complexity /\ (f.coverage = Missing \/ f.coverage < th.coverage)
Hotspots(files, given) ==
    LET th == Thresholds(given)
    IN  SetToSortSeq({f \in files : Hot(f, th)},
            LAMBDA f, g : \/ Score(f, th) > Score(g, th)
                          \/ Score(f, th) = Score(g, th) /\ f.path < g.path)

\* summarize: averages are over what was measured (here times the number of files).
Summary(files, th) ==
    LET covered == {f \in files : f.coverage # Missing}
        complex == {f \in files : f.complexity > 0}
    IN  [coverage |-> [sum |-> MapThenSumSet(LAMBDA f : f.coverage, covered), of |-> Cardinality(covered)],
         complexity |-> [sum |-> MapThenSumSet(LAMBDA f : f.complexity, complex), of |-> Cardinality(complex)],
         churn |-> MapThenSumSet(LAMBDA f : f.churn, files),
         hotspots |-> Len(Hotspots(files, th)),
         lacking |-> Cardinality(files \ covered)]

\* clampScore, and a dimension of BuildSnapshot: ten is best.
Clamp(v) == IF v < 0 THEN 0 ELSE IF v > 10 THEN 10 ELSE v
Dimensions(files, th) ==
    LET s == Summary(files, th)
    IN  [churn |-> Clamp(10 - s.churn \div 100), hotspot |-> Clamp(10 - s.hotspots),
         lint |-> Clamp(10 - MapThenSumSet(LAMBDA f : f.lint, files))]

\* The metrics of BuildSnapshot: what was measured of a file, and its rank among the hot.
Metrics(files, given) ==
    {<<f.path, "coverage">> : f \in {g \in files : g.coverage # Missing}}
    \cup {<<f.path, "complexity">> : f \in {g \in files : g.complexity > 0}}
    \cup {<<f.path, "churn">> : f \in {g \in files : g.churn > 0}}
    \cup {<<f.path, "lint">> : f \in {g \in files : g.lint > 0}}
    \cup {<<f.path, "hotspot">> : f \in Range(Hotspots(files, given))}

\* ParseGoCoverFunc: a line that is no percentage, or no total, is an error.
GoCoverage(lines) ==
    IF \E i \in DOMAIN lines : lines[i].percent = Missing THEN [error |-> "parse"]
    ELSE LET totals == {i \in DOMAIN lines : lines[i].path = "total"}
         IN  IF totals = {} THEN [error |-> "no total"]
             ELSE [error |-> "", total |-> lines[Max(totals)].percent,
                   files |-> SelectSeq(lines, LAMBDA l : l.path # "total")]

\* ParseChurnNumstat: binary files, which have no numbers, are left out.
Churn(lines, path) ==
    FoldSeq(LAMBDA l, sum : IF l.path = path /\ ~l.binary THEN sum + l.added + l.deleted ELSE sum, 0, lines)

---------------------------------------------------------------------------
HealthTypeOK ==
    /\ \A s \in Sweepers : sweep[s].read <= now
    /\ \A r \in Runs : dir[r] # Nothing => removedAt[r] = Nothing /\ dir[r].modified <= now

\* Whatever two sweeps see and do at one time, a run is removed only when the retention of
\* its own kind has passed since its directory changed.
RemovedWasOld ==
    \A r \in Runs : removedAt[r] # Nothing =>
        removedAt[r].at - removedAt[r].of >= Retention[KindOf[r]]

\* A sweep that reports a run as cleaned has left nothing of its directory.
CleanedIsGone == \A s \in Sweepers : \A r \in sweep[s].cleaned : dir[r] = Nothing

\* A plan works below the root of its run and never in the repository that is measured
\* (Adapter.Plan), and there is one for every request but those two.
PlanIsSafe(ecosystem, req) ==
    LET plan == Plan(ecosystem, req)
    IN  /\ plan.error = "" <=> Segment(req.project) /\ Segment(req.run)
                               /\ req.source # req.home \o <<"work", req.project, "health", req.run, "repo">>
        /\ plan.error = "" =>
             \A i \in DOMAIN plan.commands :
                LET c == plan.commands[i]
                IN  c.dir # req.source /\ IsStrictPrefix(plan.spec.root, c.dir)
                    /\ CapabilityOf(ecosystem, c.measures) = "ok"

\* A file at least as complex, as changed and as uncovered as a hot one is hot as well and
\* not ranked behind it; not knowing the coverage never helps.
RanksAreFair(files, th) ==
    LET ranked == Hotspots(files, th)
        Worse(f, g) == /\ f.complexity >= g.complexity /\ f.churn >= g.churn
                       /\ f.coverage = Missing \/ (g.coverage # Missing /\ f.coverage <= g.coverage)
    IN  \A i \in DOMAIN ranked : \A f \in files :
            Worse(f, ranked[i]) =>
              \E j \in DOMAIN ranked : ranked[j] = f /\ (j <= i \/ Score(f, Thresholds(th)) = Score(ranked[i], Thresholds(th)))
=============================================================================
