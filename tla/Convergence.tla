----------------------------- MODULE Convergence -----------------------------
(***************************************************************************)
(* What becomes of a plan, decided from a snapshot: the gates its project  *)
(* passes (projects/gates), when its review rounds have converged          *)
(* (convergence), the beads its drafts are converted to and what to polish *)
(* of them next (beadflow).                                                *)
(***************************************************************************)
EXTENDS Integers, Sequences, SequencesExt, FiniteSets

-----------------------------------------------------------------------------
(* The gates a project passes on its way from imported to completed          *)
(* (projects/gates/gates.go).  facts is the set of facts a snapshot asserts; *)
(* a gate is the sequence of its checks.                                     *)

States == <<"imported", "planning", "plan_finalized", "beads_created", "beads_finalized",
            "swarm_running", "hardening_rounds", "quality_gates", "completed">>
Unknown == "unknown"
Known(s) == s \in ToSet(States)
Place(s) == CHOOSE i \in DOMAIN States: States[i] = s

Gates == <<"vps_ready", "project_imported", "plan_locked", "beads_created", "beads_finalized",
           "launch_ready", "hardening_ready", "ship_ready">>

Checks(gate) ==
  CASE gate = "vps_ready" -> <<"ssh_verified", "daemon_reachable", "acfs_resolved", "tool_versions">>
    [] gate = "project_imported" -> <<"repo_present", "branch_known", "agents_md", "hoopoe_dir", "tools_detected">>
    [] gate = "plan_locked" -> <<"locked", "self_contained", "decisions_explicit", "testing_strategy", "unresolved_accepted">>
    [] gate = "beads_created" -> <<"beads_linked", "jsonl_flushed", "artifacts_saved">>
    [] gate = "beads_finalized" -> <<"coverage", "dependencies", "ready_set", "clarity", "testability">>
    [] gate = "launch_ready" -> <<"ntm_healthy", "agent_mail_healthy", "bv_healthy", "ready_or_scoped", "build_queue">>
    [] gate = "hardening_ready" -> <<"closed_or_deferred", "no_stuck", "review_prompts">>
    [] gate = "ship_ready" -> <<"tests_or_exceptions", "health_or_followups", "git_synced", "beads_synced">>

\* The facts of which one is enough for a check; no_stuck asks for the flag
\* and a count of zero, the absence of the fact stuck_counted.
Ways(check) ==
  CASE check = "acfs_resolved" -> {"acfs_installed", "acfs_skipped"}
    [] check = "ready_or_scoped" -> {"ready_nonempty", "intentionally_scoped"}
    [] check = "tests_or_exceptions" -> {"tests_pass", "test_exceptions"}
    [] check = "health_or_followups" -> {"health_pass", "follow_up_beads"}
    [] OTHER -> {check}
Ok(check, facts) == Ways(check) \cap facts # {} /\ (check = "no_stuck" => "stuck_counted" \notin facts)

\* EvaluateGate.
Missing(gate, facts) == SelectSeq(Checks(gate), LAMBDA c: ~Ok(c, facts))
Satisfied(gate, facts) == Missing(gate, facts) = <<>>

\* As a bug would have it: the VPS is not asked again once the swarm runs.
RequiredGatesOnce(from, to) ==
  IF ~(Known(from) /\ Known(to)) \/ Place(to) # Place(from) + 1 THEN {}
  ELSE (IF Place(from) < 6 THEN {"vps_ready"} ELSE {}) \cup {IF Place(to) <= 7 THEN Gates[Place(to)] ELSE "ship_ready"}
\* transitionDefinitions: adjacent states only, the VPS always and one more.
RequiredGates(from, to) ==
  IF ~(Known(from) /\ Known(to)) \/ Place(to) # Place(from) + 1 THEN {}
  ELSE {"vps_ready", IF Place(to) <= 7 THEN Gates[Place(to)] ELSE "ship_ready"}


Blocking(from, to, facts) ==
  SelectSeq(Gates, LAMBDA g: g \in RequiredGates(from, to) /\ ~Satisfied(g, facts))

\* EvaluateTransition, in its order; retryable is the status being 409 or 422.
Decision(current, from, to, facts) ==
  LET rejected(status, gate, missing) ==
        [allowed |-> FALSE, status |-> status, gate |-> gate, missing |-> missing]
  IN  CASE RequiredGates(from, to) = {} -> rejected(400, "none", <<>>)
        [] RequiredGates(from, to) # {} /\ Known(current) /\ current # from -> rejected(409, "none", <<>>)
        [] RequiredGates(from, to) # {} /\ (Known(current) => current = from) /\ Blocking(from, to, facts) # <<>> ->
             LET gate == Head(Blocking(from, to, facts)) IN rejected(422, gate, Missing(gate, facts))
        [] OTHER -> [allowed |-> TRUE, status |-> 200, gate |-> "none", missing |-> <<>>]

AllFacts == UNION {UNION {Ways(c): c \in ToSet(Checks(g))}: g \in ToSet(Gates)} \cup {"stuck_counted"}

\* Whatever was true at an earlier gate, the machine the swarm runs on is
\* asked again: no transition is allowed with SSH or the daemon out of reach,
\* nor one that skips a state or starts from a stale view of the project.
NeverBlindly(current, from, to, facts) ==
  Decision(current, from, to, facts).allowed =>
    /\ {"ssh_verified", "daemon_reachable"} \subseteq facts
    /\ Known(current) => current = from
    /\ Place(to) = Place(from) + 1

\* What a refusal asks for is enough: with the missing checks of the blocking
\* gate made true, the same request is blocked later in the order or allowed.
RefusalIsUseful(current, from, to, facts) ==
  LET d == Decision(current, from, to, facts)
      more == (facts \cup UNION {Ways(c): c \in ToSet(d.missing)}) \ {"stuck_counted"}
      next == Decision(current, from, to, more)
      place(g) == CHOOSE i \in DOMAIN Gates: Gates[i] = g
  IN  d.status = 422 => next.allowed \/ (next.status = 422 /\ place(next.gate) > place(d.gate))

-----------------------------------------------------------------------------
(* When review rounds have converged (convergence/convergence.go).  A round  *)
(* is [findings |-> a sequence of findings, cost |-> units, minutes |-> time];*)
(* a finding has a severity, a resolution, whether it is marked a duplicate  *)
(* of another and whether it carries a bead id.                              *)

\* DefaultThresholds; the ratio 0.75 as a fraction of four.
High == 5
Medium == 2
SaturationUseful == 1
SaturationCost == 4
SaturationMinutes == 45

Duplicate(f) == f.resolution = "duplicate" \/ f.duplicate
Tracked(f) == f.resolution \in {"new_bead", "tracked_existing_bead"} \/ f.bead
Useful(f) == ~Duplicate(f) /\ f.resolution # "false_positive" /\ ~Tracked(f)
Severe(f) == f.severity \in {"critical", "high"}
LowPriority(f) == f.severity \in {"low", "info"}
\* As a bug would have it: a bead that tracks a finding resolves it.
ResolvedByBead(f) == f.resolution # "open" \/ f.bead
Resolved(f) == f.resolution # "open"


\* computeRoundMetrics, the counts its readers look at.
Metrics(round) ==
  LET found == round.findings
      open == {i \in DOMAIN found: ~Resolved(found[i])}
      dominated == {i \in open: Duplicate(found[i]) \/ LowPriority(found[i]) \/ Tracked(found[i])}
  IN [useful |-> Cardinality({i \in DOMAIN found: Useful(found[i])}),
      openSevere |-> Cardinality({i \in open: Severe(found[i])}),
      remaining |-> Cardinality(open), dominated |-> Cardinality(dominated),
      cost |-> round.cost, minutes |-> round.minutes]

\* stateForMetrics.
Yield(m) ==
  IF m.useful >= High \/ m.openSevere > 0 THEN "high_yield"
  ELSE IF m.useful >= Medium THEN "medium_yield" ELSE "low_yield"

\* perUseful(total, useful) >= threshold, without the division.
PerUsefulReaches(total, useful, threshold) ==
  total > 0 /\ total >= threshold * (IF useful > 0 THEN useful ELSE 1)

\* assessSaturation.
Saturated(m) ==
  /\ m.openSevere = 0 /\ m.useful <= SaturationUseful
  /\ m.remaining > 0 => 4 * m.dominated >= 3 * m.remaining
  /\ \/ m.useful = 0
     \/ PerUsefulReaches(m.cost, m.useful, SaturationCost)
     \/ PerUsefulReaches(m.minutes, m.useful, SaturationMinutes)

\* As a bug would have it: documented exceptions stand in for both checks.
LandingReadyLoosely(facts) ==
  /\ facts \cap {"tests_pass", "test_exceptions"} # {}
  /\ facts \cap {"health_pass", "follow_up_beads", "test_exceptions"} # {}
  /\ {"git_synced", "beads_synced"} \subseteq facts
\* EvaluateLandingChecklist, on the facts the ship_ready gate reads too.
LandingReady(facts) ==
  /\ facts \cap {"tests_pass", "test_exceptions"} # {} /\ facts \cap {"health_pass", "follow_up_beads"} # {}
  /\ {"git_synced", "beads_synced"} \subseteq facts


\* Evaluate: the state is the latest round's alone, whatever earlier rounds left.
State(rounds, facts) ==
  IF rounds = <<>> THEN "not_started"
  ELSE LET m == Metrics(Last(rounds))
       IN  IF ~Saturated(m) THEN Yield(m)
           ELSE IF LandingReady(facts) THEN "final_gate_ready" ELSE "saturated"

\* RequireFinalLandingReady.
MayLand(rounds, facts) == State(rounds, facts) = "final_gate_ready"

----------------------------------------------------------------------------
\* What may land by the dashboard may also leave quality gates by the project
\* gates, and its last round left no severe finding open: two components that
\* read the same facts agree on what is done.
LandingIsShippable(rounds, facts) ==
  MayLand(rounds, facts) =>
    /\ Satisfied("ship_ready", facts)
    /\ \A i \in DOMAIN Last(rounds).findings:
         LET f == Last(rounds).findings[i] IN f.severity \in {"critical", "high"} => f.resolution # "open"

-----------------------------------------------------------------------------
(* The conversion of a plan (beadflow/conversion.go).  A bead is [id, title, *)
(* sections]; titles are numbers, 0 a blank one, and an id is a sequence of  *)
(* them, the later ones what makes it unique; <<>> is no id.                 *)

\* How ids sort.
IdBefore(a, b) ==
    \E i \in 1 .. Len(b) : /\ i <= Len(a) + 1
                            /\ SubSeq(a, 1, i - 1) = SubSeq(b, 1, i - 1)
                            /\ (i > Len(a) \/ a[i] < b[i])

\* As a bug would have it: ids are used as they are given.
DraftIdGiven(base, used) == base
\* uniqueDraftID: the n-th use of an id is numbered; a numbered id may be one that was given.
DraftId(base, used) ==
    LET uses == Len(SelectSeq(used, LAMBDA u : u = base))
    IN  IF uses = 0 THEN base ELSE Append(base, uses + 1)

\* As a bug would have it: a bead is found by its id alone.
MatchById(existing, draft) == SelectSeq(existing, LAMBDA b : draft.id # <<>> /\ b.id = draft.id)
\* The bead a draft stands for: the one of its id, or the last of its title.
Match(existing, draft) ==
    LET named == SelectSeq(existing, LAMBDA b : draft.id # <<>> /\ b.id = draft.id)
    IN  IF named # <<>> THEN named ELSE SelectSeq(existing, LAMBDA b : b.title = draft.title)

\* buildOperations: a draft without a title is left out; the others create or update a bead.
Operations(existing, drafts) ==
    LET next(acc, d) ==
            LET matches == Match(existing, d)
                base == IF d.id = <<>> THEN <<d.title>> ELSE d.id
                id == DraftId(base, acc.used)
                target == IF matches = <<>> THEN <<>> ELSE Last(matches).id
            IN  [used |-> Append(acc.used, base),
                 ops |-> Append(acc.ops,
                             [kind |-> IF matches = <<>> THEN "create" ELSE "update",
                              draft |-> id, target |-> target,
                              bead |-> [d EXCEPT !.id = IF matches = <<>> THEN id ELSE target]])]
        titled == SelectSeq(drafts, LAMBDA d : d.title # 0)
    IN  SortSeq(FoldLeft(next, [used |-> <<>>, ops |-> <<>>], titled).ops,
                LAMBDA x, y : IdBefore(x.draft, y.draft))

\* What blocks a conversion: BuildConversionPlan and buildOperations.
ConversionFindings(allowed, sections, drafts) ==
    (IF allowed THEN {} ELSE {"unlocked"}) \cup (IF drafts = <<>> THEN {"no drafts"} ELSE {}) \cup
    UNION {IF d.title = 0 THEN {"no title"}
           ELSE (IF d.sections = {} THEN {"no section"} ELSE {}) \cup
                (IF d.sections \subseteq sections THEN {} ELSE {"unknown section"}) : d \in ToSet(drafts)}

\* mergedBeads: the beads as the operations would leave them, of two on one the last.
MergedBeads(existing, ops) ==
    LET put(beads, b) == [id \in DOMAIN beads \cup {b.id} |-> IF id = b.id THEN b ELSE beads[id]]
    IN  FoldLeft(put, << >>, existing \o [i \in DOMAIN ops |-> ops[i].bead])

\* BuildTraceability: the beads of a section.
SectionBeads(merged, section) == {id \in DOMAIN merged : section \in merged[id].sections}

\* BRMutationsFromOperations: what br is asked to do; labels are added, the rest is replaced.
Mutation(op) == [kind |-> op.kind, id |-> IF op.kind = "create" THEN <<>> ELSE op.target,
                 title |-> op.bead.title, labels |-> op.bead.sections]

\* A conversion loses nothing: every titled draft is one operation, what exists stays, an update
\* names a bead that exists, nothing is created that exists under that title, and two creations
\* never take one id, nor that of a bead, unless a draft carries a numbered id itself or a title
\* reads as the id of a bead; in a plan that is ready every draft is traced to its sections, as
\* long as no two drafts stand for one bead (beadflow/conversion.go:80-285).
ConversionIsWhole(allowed, sections, existing, drafts) ==
    LET ops == Operations(existing, drafts)
        merged == MergedBeads(existing, ops)
        created == {i \in DOMAIN ops : ops[i].kind = "create"}
        plain == /\ \A d \in ToSet(drafts) : Len(d.id) < 2
                 /\ \A b \in ToSet(existing) : \A d \in ToSet(drafts) : b.id # <<d.title>>
    IN  /\ Len(ops) = Cardinality({i \in DOMAIN drafts : drafts[i].title # 0})
        /\ \A b \in ToSet(existing) : b.id \in DOMAIN merged
        /\ \A i \in DOMAIN ops \ created : \E b \in ToSet(existing) : b.id = Mutation(ops[i]).id
        /\ \A i \in created : \A b \in ToSet(existing) : b.title # Mutation(ops[i]).title
        /\ plain => \A i \in created : \A j \in DOMAIN ops \ {i} : ops[i].bead.id # ops[j].bead.id
        /\ (/\ ConversionFindings(allowed, sections, drafts) = {}
            /\ \A i, j \in DOMAIN ops : ops[i].bead.id = ops[j].bead.id => i = j)
           => \A i \in DOMAIN ops : Mutation(ops[i]).labels # {} /\
                  \A s \in Mutation(ops[i]).labels : ops[i].bead.id \in SectionBeads(merged, s)
-----------------------------------------------------------------------------
(* How good a bead graph is and what to polish next (beadflow/traceability.go, *)
(* quality.go, polish.go).  A section is [id, tests]; a bead is also [tests,   *)
(* big, thin]: its obligations and criteria, whether it is oversized, and      *)
(* whether it is short of words and notes.                                     *)

\* missingSectionTests: a section is covered when its beads carry every test it asks for.
SectionStatus(merged, s) ==
    LET beads == SectionBeads(merged, s.id)
    IN  IF beads = {} THEN "missing"
        ELSE IF s.tests \subseteq UNION {merged[id].tests : id \in beads} THEN "covered" ELSE "partial"

CoverageScore(merged, sections) ==
    LET marks == [covered |-> 100, partial |-> 60, missing |-> 0]
    IN  IF sections = <<>> THEN 0
        ELSE FoldLeft(LAMBDA n, s : n + marks[SectionStatus(merged, s)], 0, sections) \div Len(sections)

DuplicateGroups(merged) ==
    {t \in {merged[id].title : id \in DOMAIN merged} \ {0} :
        Cardinality({id \in DOMAIN merged : merged[id].title = t}) > 1}

\* GraphHealthFromBV: tracks (the ids of their items, 0 a blank one) without an item are dropped.
GraphHealth(plan, cycles) ==
    [ready |-> plan.actionable, cycles |-> Cardinality(cycles \ {{}}),
     tracks |-> Len(SelectSeq(plan.tracks, LAMBDA t : \E i \in DOMAIN t : t[i] # 0))]

\* ComputeQuality: eight dimensions, each with a score and whether it has a finding.
Dimensions(merged, sections, graph) ==
    LET dim(name, score, found) == [name |-> name, score |-> IF score < 0 THEN 0 ELSE score, found |-> found]
        beads == DOMAIN merged
        share(lacking) == IF beads = {} THEN 0
                          ELSE ((Cardinality(beads) - Cardinality(lacking)) * 100) \div Cardinality(beads)
        untested == {id \in beads : merged[id].tests = {}}
        thin == {id \in beads : merged[id].thin}
        big == {id \in beads : merged[id].big}
        dups == Cardinality(DuplicateGroups(merged))
        few(n, atMost, none, some) == IF n = 0 THEN none ELSE IF n <= atMost THEN some ELSE 100
    IN  <<dim("plan_coverage", CoverageScore(merged, sections),
              \E i \in DOMAIN sections : SectionStatus(merged, sections[i]) = "missing"),
          dim("dependency_correctness", IF graph.cycles > 0 THEN 0 ELSE 100, graph.cycles > 0),
          dim("granularity", 100 - 15 * Cardinality(big), big # {}),
          dim("ready_set_size", few(graph.ready, 2, 25, 70), graph.ready < 3),
          dim("testability", share(untested), beads = {} \/ untested # {}),
          dim("duplicate_risk", 100 - 20 * dups, dups > 0),
          dim("parallelism", few(graph.tracks, 1, 50, 70), graph.tracks < 2),
          dim("context_richness", share(thin), beads = {} \/ thin # {})>>

Overall(dims) == FoldLeft(LAMBDA n, d : n + d.score, 0, dims) \div Len(dims)

\* As a bug would have it: thin beads are left to the last round.
RoundOfThin(name) ==
    CASE name = "plan_coverage" -> 1 [] name = "dependency_correctness" -> 2
      [] name \in {"granularity", "duplicate_risk"} -> 3
      [] name = "testability" -> 4 [] name \in {"ready_set_size", "parallelism"} -> 5 [] OTHER -> 6
\* roundForDimension.
RoundOf(name) ==
    CASE name = "plan_coverage" -> 1 [] name = "dependency_correctness" -> 2
      [] name \in {"granularity", "duplicate_risk", "context_richness"} -> 3
      [] name = "testability" -> 4 [] name \in {"ready_set_size", "parallelism"} -> 5 [] OTHER -> 6

\* recommendPolishRound: the round of the first of the worst dimensions.
Recommended(dims) ==
    RoundOf(FoldLeft(LAMBDA worst, d : IF d.score < worst.score THEN d ELSE worst, Head(dims), Tail(dims)).name)

\* BuildPolishPlan: the recommended round, then those with a finding, and always the fresh eyes.
PolishRounds(dims) ==
    LET found == {RoundOf(dims[i].name) : i \in {j \in DOMAIN dims : dims[j].found}}
    IN  <<Recommended(dims)>> \o
        SelectSeq(<<1, 2, 3, 4, 5, 6>>, LAMBDA r : r # Recommended(dims) /\ (r \in found \/ r = 6))

\* Polishing is aimed at what is wrong with the beads: the plan begins at a worst dimension, lists no
\* round twice, and what a reader of the beads and their graph would object to has its round, and only
\* that; a test that no bead of a section carries is no finding: its round is certain only as long as
\* nothing else is worse; and full marks mean there is nothing to object to
\* (beadflow/quality.go:17-175, polish.go:56-106).
PolishIsAimed(sections, merged, plan, cycles) ==
    LET graph == GraphHealth(plan, cycles)
        dims == Dimensions(merged, sections, graph)
        rounds == PolishRounds(dims)
        beads == DOMAIN merged
        unserved == {i \in DOMAIN sections : \A id \in beads : sections[i].id \notin merged[id].sections}
        lacking == {i \in DOMAIN sections : \E t \in sections[i].tests : \A id \in beads :
                        sections[i].id \in merged[id].sections => t \notin merged[id].tests}
        faulty == [r \in 1 .. 5 |->
            CASE r = 1 -> unserved # {}
              [] r = 2 -> \E c \in cycles : c # {}
              [] r = 3 -> \/ beads = {}
                          \/ \E id \in beads : merged[id].big \/ merged[id].thin
                          \/ \E a, b \in beads : a # b /\ merged[a].title = merged[b].title /\ merged[a].title # 0
              [] r = 4 -> beads = {} \/ \E id \in beads : merged[id].tests = {}
              [] OTHER -> graph.ready < 3 \/ graph.tracks < 2]
    IN  /\ \E i \in DOMAIN dims : /\ \A j \in DOMAIN dims : dims[i].score <= dims[j].score
                                  /\ RoundOf(dims[i].name) = Head(rounds)
        /\ \A i, j \in DOMAIN rounds : rounds[i] = rounds[j] => i = j
        /\ \A r \in 1 .. 5 : faulty[r] => r \in ToSet(rounds)
        /\ \A r \in ToSet(Tail(rounds)) \ {6} : faulty[r]
        /\ lacking # {} /\ (\A i \in DOMAIN dims : dims[i].score >= CoverageScore(merged, sections)) => Head(rounds) = 1
        /\ Overall(dims) = 100 <=> sections # <<>> /\ lacking = {} /\ \A r \in 1 .. 5 : ~faulty[r]
=============================================================================
