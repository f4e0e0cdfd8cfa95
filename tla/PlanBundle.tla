----------------------------- MODULE PlanBundle -----------------------------
(***************************************************************************)
(* The context bundle of a plan (planning/bundle): the walk of the project *)
(* root, the policy, the budget, the summaries of beads and hotspots, the  *)
(* cache with its key, and the handler in front.  Callers ask at the same  *)
(* time, and the lock of the cache covers one Get or one Put, so a project *)
(* may change and another caller may build while one builds.               *)
(*                                                                         *)
(* A file is its size, in units of a token; 0 is a file that is not there. *)
(* The key is the tuple whose hash the code takes.  Texts, digests and the *)
(* wording of the Markdown are left out; which sections it has is not.     *)
(***************************************************************************)
EXTENDS Integers, FiniteSets, Sequences, SequencesExt

CONSTANTS Callers,
          Docs, Manifests,      \* the candidates, sorted by name
          Trait,                \* what the policy sees in a path
          Trees, BeadLists, HotspotLists, Budgets, Policies,
          FileCap, ManifestCap, DocsBudget, MaxBeads, MaxHotspots,
          Capacity, TTL,
          MaxTime, MaxChanges, MaxCalls,   \* bounds
          Nothing

VARIABLES tree,      \* the worktree of the project
          commit, beads, hotspots,
          entries,   \* the cache
          call, now, changes, calls

world == <<tree, commit, beads, hotspots>>
bundleVars == <<world, entries, call, now, changes, calls>>

DocNames == Range(Docs)
ManifestNames == Range(Manifests)
Files == {"readme", "agents"} \cup DocNames \cup ManifestNames

---------------------------------------------------------------------------
(* The walk. *)

\* CaptureFile: at most the cap is read; a cap of zero means the default.
Captured(size, cap) ==
    LET limit == IF cap = 0 THEN FileCap ELSE cap
    IN  [size |-> IF size > limit THEN limit ELSE size, truncated |-> size > limit]

Smaller(a, b) == IF a < b THEN a ELSE b

\* captureArchitectureDocs: in order, until the budget of the documents is spent.
DocsFound(t) ==
    LET Take(acc, d) ==
          IF t[d] = 0 THEN acc
          ELSE IF acc.left <= 0 THEN [acc EXCEPT !.skipped = @ \cup {d}]
          ELSE LET snap == Captured(t[d], Smaller(Smaller(t[d], acc.left), FileCap))
               IN  [acc EXCEPT !.left = @ - snap.size, !.shown = @ \cup {<<d, snap.size>>}]
    IN  FoldLeft(Take, [left |-> DocsBudget, shown |-> {}, skipped |-> {}], Docs)

\* captureFirstExisting and DetectManifests.
Found(t, names, cap) == {<<f, Captured(t[f], cap).size>> : f \in {g \in names : t[g] > 0}}

\* DetectTestLayout: the first manifest decides the runner.
Runner(t) == LET there == SelectSeq(Manifests, LAMBDA m : t[m] > 0)
             IN  IF there = <<>> THEN "unknown" ELSE Head(there)

\* WalkProjectRoot.
Walk(t) ==
    [readme |-> Found(t, {"readme"}, FileCap), agents |-> Found(t, {"agents"}, FileCap),
     docs |-> DocsFound(t).shown, manifests |-> Found(t, ManifestNames, ManifestCap),
     skipped |-> DocsFound(t).skipped, runner |-> Runner(t)]

---------------------------------------------------------------------------
(* The policy, the summaries and the budget. *)

DefaultPolicy == [dirs |-> TRUE, patterns |-> TRUE, allow |-> FALSE]

\* decideOne: a directory, a pattern, or a basename that suggests a secret.
Admitted(policy, f) ==
    ~ \/ Trait[f] = "directory" /\ policy.dirs
      \/ Trait[f] = "pattern" /\ policy.patterns
      \/ Trait[f] = "suggestive" /\ ~policy.allow

Keep(found, policy) == {s \in found : Admitted(policy, s[1])}

\* applyPolicyToWalk: what is rejected is listed, and skipped documents are too.
Permitted(w, policy) ==
    LET all == w.readme \cup w.agents \cup w.docs \cup w.manifests
    IN  [readme |-> Keep(w.readme, policy), agents |-> Keep(w.agents, policy),
         docs |-> Keep(w.docs, policy), manifests |-> Keep(w.manifests, policy),
         runner |-> w.runner,
         excluded |-> {s[1] : s \in all \ Keep(all, policy)} \cup w.skipped]

First(n, s) == SubSeq(s, 1, Smaller(n, Len(s)))

\* SummarizeBeads: by priority, then by identifier; the rest is cut.
ShownPriority(p) == IF p < 0 \/ p > 4 THEN 4 ELSE p
BeadBefore(a, b) == a.priority < b.priority \/ (a.priority = b.priority /\ a.id < b.id)
SummarizeBeads(list) ==
    [i \in 1 .. Smaller(MaxBeads, Cardinality(list)) |->
        LET b == SortSeq(SetToSeq(list), BeadBefore)[i]
        IN  [b EXCEPT !.priority = ShownPriority(@)]]

\* RankHotspots: the highest scores first, then by path.
RankHotspots(list) ==
    First(MaxHotspots, SortSeq(SetToSeq(list), LAMBDA a, b : a.score > b.score
                                  \/ (a.score = b.score /\ a.path < b.path)))

SizeOf(found) == LET Plus(n, s) == n + s[2] IN FoldLeft(Plus, 0, SetToSeq(found))

\* EstimateTokens.
EstimateTokens(b) ==
    SizeOf(b.readme \cup b.agents \cup b.docs \cup b.manifests) + Len(b.beads) + Len(b.hotspots)

Sections == <<"beads", "docs", "manifests", "agents", "readme">>
EmptySection(section) == IF section \in {"beads", "hotspots"} THEN <<>> ELSE {}

\* One turn of EnforceBudget's loop, which stops when the estimate fits.
DropOne(b, section) ==
    IF EstimateTokens(b) <= b.budget THEN b
    ELSE [b EXCEPT ![section] = EmptySection(section),
                   !.excluded = @ \cup IF section = "beads"
                                       THEN IF b.beads = <<>> THEN {} ELSE {"beads"}
                                       ELSE {s[1] : s \in b[section]}]
EnforceBudget(b) == IF b.budget <= 0 THEN b ELSE FoldLeft(DropOne, b, Sections)

\* AssemblyOrchestrator.Build.  of and at are for the properties.
Build(asked, t, time) ==
    LET w == Permitted(Walk(t), IF asked.policy = Nothing THEN DefaultPolicy ELSE asked.policy)
    IN  EnforceBudget([readme |-> w.readme, agents |-> w.agents, docs |-> w.docs,
                       manifests |-> w.manifests, runner |-> w.runner,
                       beads |-> SummarizeBeads(asked.beads),
                       hotspots |-> RankHotspots(asked.hotspots),
                       excluded |-> w.excluded, budget |-> asked.budget,
                       commit |-> asked.commit, of |-> t, at |-> time])

\* SerializeMarkdown: the sections that are not empty, in this order.
Markdown(b) ==
    SelectSeq(<<"readme", "agents", "docs", "manifests", "beads", "hotspots", "excluded">>,
              LAMBDA s : b[s] # EmptySection(s))

---------------------------------------------------------------------------
(* The key and the cache. *)

\* As a bug would have it: the policy is not part of the key.
ContentForgets(asked) ==
    [beads |-> {b.id : b \in asked.beads}, hotspots |-> {h.path : h \in asked.hotspots}]
\* preBuildContentHash: of the beads the identifiers, of the hotspots the paths.
Content(asked) ==
    [beads |-> {b.id : b \in asked.beads}, hotspots |-> {h.path : h \in asked.hotspots},
     policy |-> asked.policy]


\* ComputeCacheKey.
CacheKey(asked) == <<asked.commit, asked.budget, Content(asked)>>

Keys == DOMAIN entries
Without(k) == [x \in Keys \ {k} |-> entries[x]]
With(k, e) == [x \in Keys \cup {k} |-> IF x = k THEN e ELSE entries[x]]

\* BundleCache.Get, and what it leaves of the entries.
Live(k) == k \in Keys /\ now <= entries[k].expires
AfterGet(k) ==
    IF Live(k) THEN [entries EXCEPT ![k].seen = now]
    ELSE IF k \in Keys THEN Without(k) ELSE entries

\* BundleCache.Put with evictLRU: of several oldest, any one goes.
Oldest(es) == {k \in DOMAIN es : \A x \in DOMAIN es : es[k].seen <= es[x].seen}
AfterPut(es) ==
    IF Cardinality(DOMAIN es) <= Capacity THEN {es}
    ELSE {[x \in DOMAIN es \ {k} |-> es[x]] : k \in Oldest(es)}

---------------------------------------------------------------------------
(* The handler. *)

Idle == [step |-> "idle", code |-> "", asked |-> Nothing, bundle |-> Nothing, hit |-> FALSE]

\* The checks in front of Build, in their order; "" when all pass.
Refusal(named, resolves, adapts, valid) ==
    IF ~named THEN "invalid_project_id"
    ELSE IF ~resolves THEN "project_not_found"
    ELSE IF ~adapts THEN "adapter_error"
    ELSE IF ~valid THEN "invalid_opts" ELSE ""

Init ==
    /\ tree \in Trees /\ commit = 1 /\ beads \in BeadLists /\ hotspots \in HotspotLists
    /\ entries = << >> /\ call = [c \in Callers |-> Idle]
    /\ now = 0 /\ changes = 0 /\ calls = 0

\* A request: the resolver and the adapter read the project, then Get.
Ask(c) ==
    \E budget \in Budgets, policy \in Policies, named, resolves, adapts, valid \in BOOLEAN :
        LET asked == [commit |-> commit, budget |-> budget, beads |-> beads,
                      hotspots |-> hotspots, policy |-> policy]
            code == Refusal(named, resolves, adapts, valid)
            k == CacheKey(asked)
        IN  /\ call[c].step = "idle" /\ calls < MaxCalls
            /\ code = "" \/ (budget = 0 /\ policy = Nothing)   \* a refusal says no more
            /\ calls' = calls + 1
            /\ IF code # ""
               THEN /\ call' = [call EXCEPT ![c] = [Idle EXCEPT !.step = "answered", !.code = code]]
                    /\ UNCHANGED entries
               ELSE /\ entries' = AfterGet(k)
                    /\ call' = [call EXCEPT ![c] =
                          IF Live(k)
                          THEN [step |-> "answered", code |-> "ok", asked |-> asked,
                                bundle |-> entries[k].value, hit |-> TRUE]
                          ELSE [Idle EXCEPT !.step = "build", !.asked = asked]]
            /\ UNCHANGED <<world, now, changes>>

\* A miss: the project is walked, without the lock.
BuildMiss(c) ==
    /\ call[c].step = "build"
    /\ call' = [call EXCEPT ![c].step = "store", ![c].bundle = Build(call[c].asked, tree, now)]
    /\ UNCHANGED <<world, entries, now, changes, calls>>

\* The walk fails, or the request is cancelled.
BuildFails(c) ==
    /\ call[c].step = "build"
    /\ call' = [call EXCEPT ![c] = [Idle EXCEPT !.step = "answered", !.code = "build_error"]]
    /\ UNCHANGED <<world, entries, now, changes, calls>>

\* Put and the answer.
Store(c) ==
    /\ call[c].step = "store"
    /\ entries' \in AfterPut(With(CacheKey(call[c].asked),
                        [value |-> call[c].bundle, expires |-> now + TTL, seen |-> now]))
    /\ call' = [call EXCEPT ![c].step = "answered", ![c].code = "ok"]
    /\ UNCHANGED <<world, now, changes, calls>>

Read(c) ==
    /\ call[c].step = "answered" /\ call' = [call EXCEPT ![c] = Idle]
    /\ UNCHANGED <<world, entries, now, changes, calls>>

\* The project moves on: the worktree, the beads or the hotspots, or a commit.
Change ==
    /\ changes < MaxChanges /\ changes' = changes + 1
    /\ \/ tree' \in Trees \ {tree} /\ UNCHANGED <<commit, beads, hotspots>>
       \/ commit' = commit + 1 /\ UNCHANGED <<tree, beads, hotspots>>
       \/ beads' \in BeadLists \ {beads} /\ UNCHANGED <<tree, commit, hotspots>>
    /\ UNCHANGED <<entries, call, now, calls>>

\* Delete and Reset, and the restart of the daemon: nothing is on disk.
Forget ==
    /\ entries # << >> /\ changes < MaxChanges /\ changes' = changes + 1
    /\ \/ \E k \in Keys : entries' = Without(k)
       \/ entries' = << >>
    /\ UNCHANGED <<world, call, now, calls>>

Pass == /\ now < MaxTime /\ now' = now + 1
        /\ UNCHANGED <<world, entries, call, changes, calls>>

Next ==
    \/ \E c \in Callers : Ask(c) \/ BuildMiss(c) \/ BuildFails(c) \/ Store(c) \/ Read(c)
    \/ Change \/ Forget \/ Pass

Spec == Init /\ [][Next]_bundleVars

---------------------------------------------------------------------------
Answered(c) == call[c].step = "answered" /\ call[c].code = "ok"
Shown(b) == {s[1] : s \in b.readme \cup b.agents \cup b.docs \cup b.manifests}

\* The entries and the calls have their shape.
BundleTypeOK ==
    /\ tree \in Trees /\ commit \in 1 .. MaxChanges + 1 /\ now \in 0 .. MaxTime
    /\ \A k \in Keys : entries[k].seen \in 0 .. MaxTime /\ entries[k].expires \in TTL .. MaxTime + TTL
    /\ \A c \in Callers : call[c].step \in {"idle", "build", "store", "answered"}

\* Whoever built it and whenever: the bundle a caller is given obeys the policy and the
\* budget this caller asked for, is of its commit and has its beads, by their identifiers.
\* (What the beads say and what the worktree holds may be older: see the hazards.)
AnswerIsWhatWasAsked ==
    \A c \in Callers : Answered(c) =>
        LET a == call[c].asked  b == call[c].bundle
            policy == IF a.policy = Nothing THEN DefaultPolicy ELSE a.policy
        IN  /\ \A f \in Shown(b) : Admitted(policy, f)
            /\ b.commit = a.commit /\ b.budget = a.budget
            /\ a.budget = 0 \/ EstimateTokens(b) <= a.budget
                 \/ (Shown(b) = {} /\ b.beads = <<>>)
            /\ \A i \in DOMAIN b.beads : b.beads[i].id \in {x.id : x \in a.beads}

\* Nothing is left out silently: a file of the walked tree is shown or listed as excluded,
\* and when anything is, the Markdown has a section that says so.
NothingLeftOutSilently ==
    \A c \in Callers : Answered(c) =>
        LET b == call[c].bundle
        IN  /\ \A f \in Files : b.of[f] > 0 => f \in Shown(b) \/ f \in b.excluded
            /\ \A f \in Files : f \in b.excluded => "excluded" \in Range(Markdown(b))

\* The cache stays within its capacity, and a hit is never older than an entry may live
\* after its builder stored it.
CacheIsBounded ==
    /\ Cardinality(Keys) <= Capacity
    /\ \A k \in Keys : entries[k].value.at <= entries[k].seen

\* A more urgent bead is never cut for a less urgent one.
UrgentFirst ==
    \A c \in Callers : Answered(c) /\ ~call[c].hit /\ call[c].bundle.beads # <<>> =>
        LET kept == {call[c].bundle.beads[i].id : i \in DOMAIN call[c].bundle.beads}
        IN  \A x, y \in call[c].asked.beads :
                x.id \in kept /\ y.id \notin kept => x.priority <= y.priority
=============================================================================
