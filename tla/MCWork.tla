------------------------------- MODULE MCWork -------------------------------
(***************************************************************************)
(* The work of the daemon on small instances: jobs, once with leases and   *)
(* log readers and once with idempotency keys; the planning pipeline over  *)
(* them; processes, limits and tending jobs; the bundle of a plan, the     *)
(* import and the checkpoints of a project, the ledger of its reviews, the *)
(* flip to hardening and the runs that measure it; and decisions that are  *)
(* functions of their input.  subject says which of them a behaviour is    *)
(* about and never changes; the variables of that module are v1, v2, ...   *)
(* in the order of its declaration, the others hold Nothing.               *)
(***************************************************************************)
EXTENDS Integers, Sequences, FiniteSets, TLC

CONSTANTS j1, j2, h1, h2, k1, r1, worker, x1, x2, c1, c2, l1, l2, l3, Nothing,
          Subjects   \* the subjects of this run

VARIABLES subject, v1, v2, v3, v4, v5, v6, v7, v8, v9, v10, v11, v12,
          v13, v14, v15, v16, v17, v18, v19, v20, v21
vars == <<subject, v1, v2, v3, v4, v5, v6, v7, v8, v9, v10, v11, v12,
          v13, v14, v15, v16, v17, v18, v19, v20, v21>>

L == INSTANCE JobRegistry WITH mem <- v1, disk <- v2, up <- v3, now <- v4, faults <- v5,
         logs <- v6, reader <- v7, told <- v8, held <- v9, promised <- v10, atEnd <- v11,
         undone <- v12, Jobs <- {j1}, Holders <- {h1, h2}, Keys <- {}, Hashes <- {"a"},
         Readers <- {r1}, DefaultLimit <- 1, MaxLimit <- 2, MaxTime <- 2, MaxFaults <- 1,
         MaxLog <- 1
K == INSTANCE JobRegistry WITH mem <- v1, disk <- v2, up <- v3, now <- v4, faults <- v5,
         logs <- v6, reader <- v7, told <- v8, held <- v9, promised <- v10, atEnd <- v11,
         undone <- v12, Jobs <- {j1, j2}, Holders <- {}, Keys <- {k1}, Hashes <- {"a", "b"},
         Readers <- {}, DefaultLimit <- 1, MaxLimit <- 2, MaxTime <- 0, MaxFaults <- 1, MaxLog <- 0
P == INSTANCE PlanningPipeline WITH mem <- v1, disk <- v2, up <- v3, now <- v4, faults <- v5,
         logs <- v6, reader <- v7, told <- v8, held <- v9, promised <- v10, atEnd <- v11,
         undone <- v12, running <- v13, phase <- v14, records <- v15, artifact <- v16,
         history <- v17, meta <- v18, kept <- v19, runs <- v20, calls <- v21,
         Candidates <- {"candidate"}, Refinements <- <<"round_1">>, Worker <- worker, MaxFaults <- 1,
         MaxRuns <- 3
M == INSTANCE ProcessManager WITH table <- v1, child <- v2, call <- v3, life <- v4, Jobs <- {j1},
         Children <- {x1, x2}, Callers <- {c1, c2}, MaxLives <- 2
S == INSTANCE ResourceLimiter WITH inUse <- v1, lease <- v2, released <- v3,
         Resources <- {"planning", "tool"}, Leases <- {l1, l2, l3},
         Limit <- [r \in {"planning", "tool"} |-> IF r = "tool" THEN 2 ELSE 1]
Traits == [f \in {"readme", "agents", "a", "b", "m"} |->
             CASE f = "agents" -> "suggestive" [] f = "b" -> "directory" [] OTHER -> "plain"]
BundleTrees == {[readme |-> 1, agents |-> 1, a |-> 2, b |-> 1, m |-> 2],
                [readme |-> 3, agents |-> 0, a |-> 1, b |-> 1, m |-> 0]}
Listed(id, priority) == [id |-> id, priority |-> priority, status |-> "open"]
BundleBeads == {{Listed(1, 2), Listed(2, 1)}, {Listed(2, 1)}}
B == INSTANCE PlanBundle WITH tree <- v1, commit <- v2, beads <- v3, hotspots <- v4, entries <- v5,
         call <- v6, now <- v7, changes <- v8, calls <- v9, Callers <- {c1, c2},
         Docs <- <<"a", "b">>, Manifests <- <<"m">>, Trait <- Traits, Trees <- BundleTrees,
         BeadLists <- BundleBeads, HotspotLists <- {{[path |-> 1, score |-> 2]}},
         Budgets <- {0, 4},
         Policies <- {Nothing, [dirs |-> FALSE, patterns |-> TRUE, allow |-> TRUE]}, FileCap <- 2,
         ManifestCap <- 1, DocsBudget <- 2, MaxBeads <- 1, MaxHotspots <- 2, Capacity <- 1,
         TTL <- 0, MaxTime <- 0, MaxChanges <- 1, MaxCalls <- 2
I == INSTANCE ProjectImport WITH tree <- v1, rows <- v2, records <- v3, call <- v4, told <- v5,
         ids <- v6, calls <- v7, edits <- v8, Roots <- {r1, j1}, Keys <- {k1}, MaxIds <- 2,
         MaxCalls <- 2, MaxEdits <- 1
N == INSTANCE Checkpoints WITH items <- v1, history <- v2, call <- v3, audited <- v4, now <- v5,
         faults <- v6, Steps <- {j1}, Callers <- {c1, c2}, MaxReports <- 2, MaxTime <- 1,
         MaxFaults <- 1
G == INSTANCE ReviewLedger WITH findings <- v1, rounds <- v2, events <- v3, Prints <- {r1},
         MaxRounds <- 2, MaxTransitions <- 3
F == INSTANCE HardeningFlip WITH status <- v1, choice <- v2, gate <- v3, jobs <- v4,
         snapshot <- v5, plan <- v6, begun <- v7, now <- v8, asks <- v9, Beads <- {x1, x2},
         MaxTime <- 1, Grace <- 1, Window <- 0, MaxAsks <- 1
H == INSTANCE HealthRuns WITH now <- v1, dir <- v2, registered <- v3, sweep <- v4, removedAt <- v5,
         sweeps <- v6, faults <- v7, Runs <- {"health", "review"},
         KindOf <- [r \in {"health", "review"} |-> r], Sweepers <- {c1, c2},
         Retention <- [health |-> 1, review |-> 2], MaxTime <- 2, MaxFaults <- 1, MaxSweeps <- 2
OnDemand == [type |-> "on_demand", interval |-> 0, event |-> ""]
Draft(kind, schedule, paused) ==
    [name |-> "n", kind |-> kind, schedule |-> schedule, paused |-> paused, repeat |-> <<>>,
     concurrency |-> 0, timeout |-> 0, grace |-> 0, misfire |-> "", retry |-> "", revision |-> 0]
T == INSTANCE TendingJobs WITH files <- v1, jobs <- v2, op <- v3, gone <- v4, calls <- v5,
         Jobs <- {j1}, Callers <- {c1, c2},
         Drafts <- {Draft("", OnDemand, FALSE), Draft("bogus", OnDemand, FALSE)}, MaxCalls <- 3
Rounds == INSTANCE Convergence
Swarm == INSTANCE SwarmComposition

ASSUME InstancesAreSound == /\ L!RegistryConstants /\ K!RegistryConstants /\ P!PlanningConstants
                            /\ M!ManagerConstants /\ S!LimiterConstants /\ H!HealthConstants
                            /\ F!FlipConstants /\ I!ImportConstants

-----------------------------------------------------------------------------
(* Inputs of the decisions; v1 says of which, v2 is one, v3 is TRUE once it *)
(* has been decided.                                                        *)

\* A transition between two states, of which the project is in a third; all facts but those of
\* a gate, or but one.
Moves == {<<Rounds!States[i], Rounds!States[i + 1]>> : i \in 1 .. 8}
           \cup {<<"imported", "plan_finalized">>, <<"completed", "imported">>, <<"elsewhere", "planning">>}
FactSets == LET but(lost) == Rounds!AllFacts \ (lost \cup {"stuck_counted"})
            IN  {but({f}) : f \in Rounds!AllFacts} \cup {Rounds!AllFacts} \cup
                {but(UNION {Rounds!Ways(Rounds!Checks(g)[i]) : i \in DOMAIN Rounds!Checks(g)}) :
                    g \in {Rounds!Gates[i] : i \in DOMAIN Rounds!Gates}}

\* No round, or one with at most one finding, and what the landing asks for.
Findings == [severity : {"critical", "low"}, resolution : {"open", "new_bead", "false_positive"},
             duplicate : BOOLEAN, bead : BOOLEAN]
ReviewRounds == {<<>>} \cup {<<[findings |-> f, cost |-> c, minutes |-> 0]>> :
                                 f \in {<<>>} \cup {<<g>> : g \in Findings}, c \in {0, 5}}
LandingFacts == {a \cup b : a \in SUBSET {"tests_pass", "test_exceptions", "health_pass", "follow_up_beads"},
                            b \in {{"git_synced", "beads_synced"}, {"git_synced"}}}

\* Beads there are, and drafts of more, of a plan with the section 1.
Bead(id, title) == [id |-> id, title |-> title, sections |-> {1}]
Beaded == {<<>>, <<Bead(<<1>>, 2)>>, <<Bead(<<1>>, 2), Bead(<<4>>, 3)>>}
Drafts == [id : {<<>>, <<1>>, <<1, 2>>}, title : {0, 2, 3}, sections : {{}, {1}, {2}}]
DraftLists == UNION {[1 .. n -> Drafts] : n \in 0 .. 2} \cup
              [1 .. 3 -> {d \in Drafts : d.sections = {1}}]
\* Beads to polish: any first one and a second that shares its section or its title, or neither.
Polished == [title : {0, 2}, sections : {{}, {1}, {1, 2}}, tests : {{}, {1}}, big : BOOLEAN, thin : BOOLEAN]
Seconds == [title : {2, 3}, sections : {{}, {2}}, tests : {{1}}, big : {FALSE}, thin : {FALSE}]
Polishings == {<< >>} \cup [{<<1>>} -> Polished] \cup {(<<1>> :> b) @@ (<<2>> :> c) : b \in Polished, c \in Seconds}
PolishSections == {<<>>, <<[id |-> 1, tests |-> {}]>>, <<[id |-> 1, tests |-> {1}]>>,
                   <<[id |-> 1, tests |-> {1, 2}], [id |-> 2, tests |-> {1}]>>}
Graphs == {<<[actionable |-> 0, tracks |-> <<>>], {}>>, <<[actionable |-> 2, tracks |-> <<<<1>>, <<0>>>>], {{}}>>,
           <<[actionable |-> 3, tracks |-> <<<<1>>, <<2>>>>], {}>>, <<[actionable |-> 3, tracks |-> <<<<1>>, <<2>>>>], {{1, 2}}>>}

\* Up to two accounts a harness, the first of which may be cooling down.
Account(tool, name, cooling) == [name |-> name, tool |-> tool, health |-> "ok", active |-> FALSE,
                                 favorite |-> name = "b", cooling |-> cooling]
Accounts(tool) == {<<>>, <<Account(tool, "a", TRUE)>>, <<Account(tool, "a", FALSE)>>,
                   <<Account(tool, "a", TRUE), Account(tool, "b", FALSE)>>,
                   <<Account(tool, "a", FALSE), Account(tool, "b", FALSE)>>}
Inventories == {a \o b \o c : a \in Accounts("claude"), b \in Accounts("codex"),
                              c \in {<<>>, <<Account("gemini", "a", FALSE)>>}}

\* A request for the health of a project, and measured files.
Paths == {<<"home">>, <<"home", "work", "p", "health", "r", "repo">>}
Requests == [project : {"p", "", ".."}, run : {"r", "a/b"}, home : {<<"home">>}, source : Paths, commit : {"", "abc"}]
Measured == [path : {1, 2}, complexity : {0, 25}, coverage : {-1, 40, 90}, churn : {0, 2}, lint : {0}]

Drafted == {Draft(k, s, p) : k \in {"", "gated_agent"}, p \in BOOLEAN,
                s \in {OnDemand, [OnDemand EXCEPT !.type = "interval", !.interval = 90],
                      [OnDemand EXCEPT !.type = "interval", !.interval = 172800],
                      [OnDemand EXCEPT !.type = "event", !.event = "e"]}}
Variants == {[d EXCEPT !.repeat = n, !.concurrency = c, !.timeout = t] :
                d \in Drafted, n \in {<<>>, <<0>>, <<3>>}, c \in {0, 2}, t \in {0, 61, 7200}}

\* Cron lines: minute and hour fixed, days, months and weekdays that miss each other or meet.
Part(lo, hi, step) == [lo |-> lo, hi |-> hi, step |-> step]
At(n) == <<Part(n, n, 0)>>
Every == <<Part(-1, -1, 0)>>
Crons == [minute : {At(0)}, hour : {At(12)}, dom : {Every, At(31), <<Part(29, 31, 2)>>},
          month : {Every, At(2), <<Part(4, 11, 5)>>}, dow : {Every, At(1)}]
           \cup {[minute |-> <<Part(-1, -1, 15)>>, hour |-> <<Part(5, 5, 2), Part(8, 10, 2)>>,
                  dom |-> Every, month |-> Every, dow |-> Every]}
Starts == {1440 * T!DayOf(2024, 2, 28) + 1439, 1440 * T!DayOf(2025, 4, 30)}

\* Plans of two intents, and what the capabilities say.
Intent(kind, key, target, args) == [kind |-> kind, key |-> key, target |-> target, args |-> args]
Intents(keys) == UNION {{Intent(k, key, T!Catalog[k].target, T!Catalog[k].args), Intent(k, key, {}, {})} :
                            k \in {"agent.pause", "swarm.halt", "review.propose_flip"}, key \in keys}
                   \cup {Intent("rm", "k2", {}, {})}
Scripts == {[exit |-> e, truncated |-> FALSE, output |-> [wake |-> TRUE, risk |-> r, intents |-> i]] :
                e \in {0, 1}, r \in {"none", "high"},
                i \in {<<a>> : a \in Intents({"", "k1"})} \cup (Intents({"k1"}) \X Intents({"k1", "k2"}))}
Needs == UNION {T!Catalog[k].needs : k \in DOMAIN T!Catalog}

DecisionInit ==
    /\ \/ v1 = "gate" /\ v2 \in {"planning", "unknown", "beads_created"} \X Moves \X FactSets
       \/ v1 = "landing" /\ v2 \in ReviewRounds \X LandingFacts
       \/ v1 = "swarm" /\ v2 \in Inventories \X {10, 400} \X {0, 2, 3, 5}
       \/ v1 = "sharing" /\ v2 \in Inventories \X [1 .. 3 -> 0 .. 1] \X {{}, {"b"}} \X {0, 2}
       \/ v1 = "health" /\ v2 \in H!Ecosystems \X Requests
       \/ v1 = "hotspots" /\ v2 \in {fs \in SUBSET Measured : Cardinality(fs) = 2}
       \/ v1 = "definition" /\ v2 \in Variants
       \/ v1 = "cron" /\ v2 \in Crons \X Starts
       \/ v1 = "conversion" /\ v2 \in BOOLEAN \X Beaded \X DraftLists
       \/ v1 = "polish" /\ v2 \in PolishSections \X Polishings \X Graphs
       \/ v1 = "plan" /\ v2 \in Scripts \X {"ok", "blocked_by_policy"}
    /\ v3 = FALSE
Decide == ~v3 /\ v3' = TRUE /\ UNCHANGED <<v1, v2>>

-----------------------------------------------------------------------------
\* The variables from the n-th on are not used.
Unused(n) ==
    /\ (IF n <= 4 THEN v4 = Nothing ELSE TRUE)    /\ (IF n <= 5 THEN v5 = Nothing ELSE TRUE)
    /\ (IF n <= 6 THEN v6 = Nothing ELSE TRUE)    /\ (IF n <= 7 THEN v7 = Nothing ELSE TRUE)
    /\ (IF n <= 8 THEN v8 = Nothing ELSE TRUE)    /\ (IF n <= 9 THEN v9 = Nothing ELSE TRUE)
    /\ (IF n <= 10 THEN v10 = Nothing ELSE TRUE)  /\ (IF n <= 11 THEN v11 = Nothing ELSE TRUE)
    /\ (IF n <= 12 THEN v12 = Nothing ELSE TRUE)  /\ (IF n <= 13 THEN v13 = Nothing ELSE TRUE)
    /\ (IF n <= 14 THEN v14 = Nothing ELSE TRUE)  /\ (IF n <= 15 THEN v15 = Nothing ELSE TRUE)
    /\ (IF n <= 16 THEN v16 = Nothing ELSE TRUE)  /\ (IF n <= 17 THEN v17 = Nothing ELSE TRUE)
    /\ (IF n <= 18 THEN v18 = Nothing ELSE TRUE)  /\ (IF n <= 19 THEN v19 = Nothing ELSE TRUE)
    /\ (IF n <= 20 THEN v20 = Nothing ELSE TRUE)  /\ (IF n <= 21 THEN v21 = Nothing ELSE TRUE)
Same(n) ==
    /\ (IF n <= 4 THEN UNCHANGED v4 ELSE TRUE)    /\ (IF n <= 5 THEN UNCHANGED v5 ELSE TRUE)
    /\ (IF n <= 6 THEN UNCHANGED v6 ELSE TRUE)    /\ (IF n <= 7 THEN UNCHANGED v7 ELSE TRUE)
    /\ (IF n <= 8 THEN UNCHANGED v8 ELSE TRUE)    /\ (IF n <= 9 THEN UNCHANGED v9 ELSE TRUE)
    /\ (IF n <= 10 THEN UNCHANGED v10 ELSE TRUE)  /\ (IF n <= 11 THEN UNCHANGED v11 ELSE TRUE)
    /\ (IF n <= 12 THEN UNCHANGED v12 ELSE TRUE)  /\ (IF n <= 13 THEN UNCHANGED v13 ELSE TRUE)
    /\ (IF n <= 14 THEN UNCHANGED v14 ELSE TRUE)  /\ (IF n <= 15 THEN UNCHANGED v15 ELSE TRUE)
    /\ (IF n <= 16 THEN UNCHANGED v16 ELSE TRUE)  /\ (IF n <= 17 THEN UNCHANGED v17 ELSE TRUE)
    /\ (IF n <= 18 THEN UNCHANGED v18 ELSE TRUE)  /\ (IF n <= 19 THEN UNCHANGED v19 ELSE TRUE)
    /\ (IF n <= 20 THEN UNCHANGED v20 ELSE TRUE)  /\ (IF n <= 21 THEN UNCHANGED v21 ELSE TRUE)

Init ==
    /\ subject \in Subjects
    /\ \/ (subject = "leases" /\ L!Init /\ Unused(13))
       \/ (subject = "keys" /\ K!Init /\ Unused(13))
       \/ (subject = "planning" /\ P!Init)
       \/ (subject = "processes" /\ M!Init /\ Unused(5))
       \/ (subject = "limits" /\ S!Init /\ Unused(4))
       \/ (subject = "bundle" /\ B!Init /\ Unused(10))
       \/ (subject = "imports" /\ I!Init /\ Unused(9))
       \/ (subject = "checkpoints" /\ N!Init /\ Unused(7))
       \/ (subject = "reviews" /\ G!Init /\ Unused(4))
       \/ (subject = "flip" /\ F!Init /\ Unused(10))
       \/ (subject = "health" /\ H!Init /\ Unused(8))
       \/ (subject = "tending" /\ T!Init /\ Unused(6))
       \/ (subject = "decisions" /\ DecisionInit /\ Unused(4))

\* A step of the subject, whose module has the variables before the n-th.
Of(name, n, A) == subject = name /\ A /\ Same(n) /\ UNCHANGED subject

Next ==
    \/ Of("leases", 13, L!Next)
    \/ Of("keys", 13, K!Next)
    \/ Of("planning", 22, P!Next)
    \/ Of("processes", 5, M!Next)
    \/ Of("limits", 4, S!Next)
    \/ Of("bundle", 10, B!Next)
    \/ Of("imports", 9, I!Next)
    \/ Of("checkpoints", 7, N!Next)
    \/ Of("reviews", 4, G!Next)
    \/ Of("flip", 10, F!Next)
    \/ Of("health", 8, H!Next)
    \/ Of("tending", 6, T!Next)
    \/ Of("decisions", 4, Decide)

\* A Signal that was sent is followed through, and so is the wait for the child.
Signals(c) == M!Signal(c) \/ M!Escalate(c) \/ M!Terminated(c)
Fairness == /\ \A c \in {c1, c2} : WF_vars(Of("processes", 5, Signals(c)))
            /\ WF_vars(Of("processes", 5, M!WaitReturns(j1)))
Spec == Init /\ [][Next]_vars /\ Fairness

-----------------------------------------------------------------------------
\* The type invariants of the modules.
WorkTypeOK ==
    CASE subject = "leases" -> L!RegistryTypeOK
      [] subject = "keys" -> K!RegistryTypeOK
      [] subject = "planning" -> P!PipelineTypeOK
      [] subject = "processes" -> M!ManagerTypeOK
      [] subject = "limits" -> S!LimiterTypeOK
      [] subject = "bundle" -> B!BundleTypeOK
      [] subject = "imports" -> I!ImportTypeOK
      [] subject = "checkpoints" -> N!CheckpointsTypeOK
      [] subject = "reviews" -> G!LedgerTypeOK
      [] subject = "flip" -> F!FlipTypeOK
      [] subject = "health" -> H!HealthTypeOK
      [] OTHER -> v21 = Nothing

\* Two workers never both hold a job, nobody is told of two outcomes of one, and a reader told
\* of the end has read it all (jobs/registry.go); no child is left that nobody can stop and an
\* ended record is of a process that is gone (process/manager.go); tokens are unreleased leases
\* (jobs/limits.go); what the tending scheduler is given can be scheduled (cmd/hoopoe).
JobsHold ==
    /\ subject = "leases" => L!LeaseExclusive /\ L!OneOutcome /\ L!FinalIsComplete
    /\ subject = "keys" => K!OneOutcome /\ K!KeyNamesOneJob
    /\ subject = "processes" => M!NoOrphan /\ M!EndedIsGone
    /\ subject = "limits" => S!TokensAreLeases
    /\ subject = "tending" => T!ImportedIsWhole

\* A succeeded step has its artifact, the files name no step before its inputs nor an artifact
\* that is not whole, and a step has one line of history (planning/service.go); the bundle of a
\* plan is the answer to what was asked, and says what it leaves out (planning/bundle).
PlansHold ==
    /\ subject = "planning" => /\ P!CompletedHasArtifact /\ P!DependenciesDurable
                               /\ P!HistoryOnce /\ P!MetaIsTrue
    /\ subject = "bundle" => /\ B!AnswerIsWhatWasAsked /\ B!NothingLeftOutSilently
                             /\ B!CacheIsBounded /\ B!UrgentFirst

\* A recorded project is whole on disk and a key is answered once (projects); a checkpoint is
\* its last transition (onboarding/checkpoints); a defect is one finding, none closes undecided
\* and none severe is open at a landing (review, convergence); a flip loses no bead and settles
\* (swarm/flip); a sweep removes what is old and reports what is gone (tending/worktreecleanup).
ProjectsHold ==
    /\ subject = "imports" => I!RowsAreWhole /\ I!KeyAnswersOnce
    /\ subject = "checkpoints" => N!CheckpointIsLastTransition /\ N!StampsFitStatus
    /\ subject = "reviews" => G!OneFindingPerDefect /\ G!ClosedWasDecided /\ G!LandingIsDecided
    /\ subject = "flip" => F!NoBeadLost /\ F!SwitchSettles
    /\ subject = "health" => H!RemovedWasOld /\ H!CleanedIsGone

\* The decisions, for every input above: a project moves only with what its gates ask for, and
\* a refusal says what is missing (projects/gates); converting a plan loses no draft and no bead
\* (beadflow); what may land may ship (convergence); a swarm
\* is composed fairly and shares accounts openly (swarm/composition); a health plan stays in its
\* run and ranks fairly (health); a definition file keeps the definition (tending/definitions),
\* cron lines name the next time there is (tending/schedule), and plans are carried out only
\* where allowed (tending/prescript).
DecisionHolds ==
    CASE v1 = "gate" -> /\ Rounds!NeverBlindly(v2[1], v2[2][1], v2[2][2], v2[3])
                        /\ Rounds!RefusalIsUseful(v2[1], v2[2][1], v2[2][2], v2[3])
      [] v1 = "conversion" -> Rounds!ConversionIsWhole(v2[1], {1}, v2[2], v2[3])
      [] v1 = "polish" -> Rounds!PolishIsAimed(v2[1], v2[2], v2[3][1], v2[3][2])
      [] v1 = "landing" -> Rounds!LandingIsShippable(v2[1], v2[2])
      [] v1 = "swarm" -> Swarm!AutoIsFair(v2[1], v2[2], v2[3])
      [] v1 = "sharing" -> Swarm!SharingIsTold(v2[1], v2[2], <<v2[3], v2[3], {}>>, v2[4])
      [] v1 = "health" -> H!PlanIsSafe(v2[1], v2[2])
      [] v1 = "hotspots" -> H!RanksAreFair(v2, [complexity |-> 0, coverage |-> 0])
      [] v1 = "definition" -> T!FileKeepsDefinition(v2)
      [] v1 = "cron" -> T!CronIsHonest(v2[1], v2[2])
      [] v1 = "plan" -> T!PlansAreCovered(v2[1], [n \in Needs |-> v2[2]])
DecisionsHold == (subject = "decisions" /\ v3) => DecisionHolds

\* A saved idempotency record stays (jobs); resuming a plan calls no model again (planning); a
\* manifest the user wrote stays (projects); the way back from a flip closes once (swarm/flip).
WorkStepsHold ==
    [][/\ subject = "keys" => K!KeysStay
       /\ subject = "planning" => P!NoModelTwice
       /\ subject = "imports" => I!UserManifestKept
       /\ subject = "flip" => F!ReturnCloses]_vars

\* A Stop or Kill of an own child ends: ProcessManager.StopReturns.
StopReturns ==
    \A c \in {c1, c2} :
        (subject = "processes" /\ v3[c].step = "signal" /\ v1[v3[c].job].own)
            ~> (subject = "processes" /\ v3[c].step = "idle")
=============================================================================
