---------------------------- MODULE ToolInventory ----------------------------
(***************************************************************************)
(* What the daemon knows of the tools beside it: the capability registry,  *)
(* whose reports a sweep of the adapters' probes replaces                  *)
(* (capabilities/registry.go), and the inventory that answers refreshes    *)
(* from it, one at a time and one sweep per window (inventory/service.go). *)
(* Below, what is decided from the reports: whether a feature runs, what a *)
(* tool is listed as, and whether subscriptions could be verified.         *)
(***************************************************************************)
EXTENDS Integers, Sequences, FiniteSets, SequencesExt

CONSTANTS Refreshers,   \* callers of Refresh
          Tools,        \* tools with a registered probe
          MinInterval,  \* minRefreshInterval
          Concurrency,  \* RefreshConcurrency
          MaxTime       \* the clock's bound

VARIABLES now,
          reports,      \* reports[t]: when the probe looked at t (0: never)
          lastProbeAt,  \* when Refresh last reserved a sweep (0: never)
          calls         \* calls[c]: where a Refresh is

inventoryVars == <<now, reports, lastProbeAt, calls>>

Unseen == [t \in Tools |-> 0]
Idle == [pc |-> "idle", asked |-> 0, left |-> {}, fresh |-> Unseen, answer |-> Unseen]
Held == {c \in Refreshers : calls[c].pc \in {"held", "probing", "merged"}}

Init ==
    /\ now = 1
    /\ reports = Unseen
    /\ lastProbeAt = 0
    /\ calls = [c \in Refreshers |-> Idle]

\* A caller waits for the semaphore, which may take longer than its request lives.
Arrive(c) ==
    /\ calls[c].pc = "idle"
    /\ calls' = [calls EXCEPT ![c] = [Idle EXCEPT !.pc = "waiting"]]
    /\ UNCHANGED <<now, reports, lastProbeAt>>

Abandon(c) ==
    /\ calls[c].pc = "waiting"
    /\ calls' = [calls EXCEPT ![c] = Idle]
    /\ UNCHANGED <<now, reports, lastProbeAt>>

Acquire(c) ==
    /\ calls[c].pc = "waiting"
    /\ Cardinality(Held) < Concurrency
    /\ calls' = [calls EXCEPT ![c].pc = "held", ![c].asked = now]
    /\ UNCHANGED <<now, reports, lastProbeAt>>

\* Mutants: a refusal that pushes the window on, and a window one too long.
ReserveSliding(c, at) ==
    /\ calls[c].pc = "held"
    /\ LET refused == lastProbeAt > 0 /\ at - lastProbeAt < MinInterval IN
         /\ lastProbeAt' = at
         /\ calls' = [calls EXCEPT ![c].pc = IF refused THEN "merged" ELSE "probing",
                                   ![c].left = IF refused THEN {} ELSE Tools]
    /\ UNCHANGED <<now, reports>>

\* reserveProbe: of the callers in a window the first sweeps, the others answer from what it
\* found.
Reserve(c, at) ==
    /\ calls[c].pc = "held"
    /\ IF MinInterval >= 0 /\ lastProbeAt > 0 /\ at - lastProbeAt < MinInterval
       THEN /\ calls' = [calls EXCEPT ![c].pc = "merged"]
            /\ UNCHANGED lastProbeAt
       ELSE /\ calls' = [calls EXCEPT ![c].pc = "probing", ![c].left = Tools]
            /\ lastProbeAt' = IF MinInterval < 0 THEN lastProbeAt ELSE at
    /\ UNCHANGED <<now, reports>>

\* One probe of Probe's sweep, outside the lock and in the order of a map.
RunProbe(c, t) ==
    /\ calls[c].pc = "probing" /\ t \in calls[c].left
    /\ calls' = [calls EXCEPT ![c].left = @ \ {t}, ![c].fresh[t] = now]
    /\ UNCHANGED <<now, reports, lastProbeAt>>

\* Mutant: what the sweep found is answered before it is merged.
MergeLate(c) ==
    /\ calls[c].pc = "probing"
    /\ reports' = [t \in Tools |-> IF t \in calls[c].left THEN reports[t] ELSE calls[c].fresh[t]]
    /\ calls' = [calls EXCEPT ![c].pc = "merged"]
    /\ UNCHANGED <<now, lastProbeAt>>

\* The sweep's reports replace the old ones under the lock, all at once.
Merge(c) ==
    /\ calls[c].pc = "probing" /\ calls[c].left = {}
    /\ reports' = calls[c].fresh
    /\ calls' = [calls EXCEPT ![c].pc = "merged"]
    /\ UNCHANGED <<now, lastProbeAt>>

\* Snapshot, unless the request has ended; the semaphore is given back.
Answer(c) ==
    /\ calls[c].pc = "merged"
    /\ \/ calls' = [calls EXCEPT ![c].pc = "answered", ![c].answer = reports]
       \/ calls' = [calls EXCEPT ![c] = Idle]
    /\ UNCHANGED <<now, reports, lastProbeAt>>

\* The caller may ask again.
Leave(c) ==
    /\ calls[c].pc = "answered"
    /\ calls' = [calls EXCEPT ![c] = Idle]
    /\ UNCHANGED <<now, reports, lastProbeAt>>

Tick == now < MaxTime /\ now' = now + 1 /\ UNCHANGED <<reports, lastProbeAt, calls>>

Next ==
    \/ Tick
    \/ \E c \in Refreshers :
          \/ Arrive(c) \/ Abandon(c) \/ Acquire(c) \/ Merge(c) \/ Answer(c) \/ Leave(c)
          \/ \E at \in calls[c].asked .. now : Reserve(c, at)
          \/ \E t \in Tools : RunProbe(c, t)

InventoryTypeOK ==
    /\ now \in 1 .. MaxTime /\ lastProbeAt \in 0 .. MaxTime
    /\ reports \in [Tools -> 0 .. MaxTime]
    /\ calls \in [Refreshers ->
          [pc : {"idle", "waiting", "held", "probing", "merged", "answered"},
           asked : 0 .. MaxTime, left : SUBSET Tools,
           fresh : [Tools -> 0 .. MaxTime], answer : [Tools -> 0 .. MaxTime]]]

\* A refresh that is answered tells of every tool as it was within a window of the request,
\* whoever swept (Refresh, reserveProbe).
RefreshedIsFresh ==
    \A c \in Refreshers : calls[c].pc = "answered" =>
        \A t \in Tools : calls[c].answer[t] > calls[c].asked - MinInterval

\* What a sweep found is never replaced by what an earlier one did (Probe, Refresh).
NewerReportsStay == \A t \in Tools : reports'[t] >= reports[t]

-----------------------------------------------------------------------------
(* Determine, aggregateStatus and verifySubscriptions.                     *)

Gone == {"missing", "untested"}
Statuses == {"ok", "degraded", "blocked-by-policy"} \cup Gone

\* What Probe keeps of a probe: its report, or in place of one the sole capability __probe__.
\* A report's caps is a function from the capabilities it has to their statuses.
Kept(probe) ==
    IF probe.outcome # "report" THEN [r \in {"__probe__"} |-> "missing"] ELSE probe.caps

\* lookupCapabilityStatus: a reference names its tool; unknown ones are missing.
Lookup(tools, ref) ==
    IF ref.tool \in DOMAIN tools /\ ref.cap \in DOMAIN Kept(tools[ref.tool])
    THEN Kept(tools[ref.tool])[ref.cap] ELSE "missing"

\* Mutant: the last required capability decides.
RequiredLast(render, status) ==
    IF status = "blocked-by-policy" THEN status
    ELSE IF status \in Gone THEN "unavailable"
    ELSE IF status = "degraded" /\ render = "available" THEN "degraded" ELSE render
\* One turn of Determine's loop over the required capabilities.
Required(render, status) ==
    IF status = "blocked-by-policy" THEN status
    ELSE IF status \in Gone THEN IF render = "blocked-by-policy" THEN render ELSE "unavailable"
    ELSE IF status = "degraded" /\ render = "available" THEN "degraded" ELSE render
\* One turn of its loop over the optional ones.
Optional(render, status) ==
    IF status = "degraded" /\ render = "available" THEN "degraded" ELSE render

\* Determine, for sequences of references.
Determine(tools, required, optional) ==
    LET S(refs) == [i \in DOMAIN refs |-> Lookup(tools, refs[i])]
        By(refs, states) == {refs[i] : i \in {j \in DOMAIN refs : Lookup(tools, refs[j]) \in states}}
    IN [render |-> FoldLeft(Optional, FoldLeft(Required, "available", S(required)), S(optional)),
        missingRequired |-> By(required, Gone),
        missingOptional |-> By(optional, Gone),
        blocked |-> By(required, {"blocked-by-policy"}),
        degraded |-> By(required, {"degraded"}) \cup By(optional, {"degraded"})]

\* aggregateStatus: how a tool is listed.
Aggregate(report) ==
    LET has == {report[c] : c \in DOMAIN report} IN
    IF has = {} THEN "missing"
    ELSE IF "blocked-by-policy" \in has THEN "blocked-by-policy"
    ELSE IF "degraded" \in has THEN "degraded"
    ELSE IF has \cap Gone # {} THEN "missing" ELSE "ok"

\* The verdict is the precedence Determine's comment gives the required capabilities, in
\* whatever order they are listed, and it names a reason.
PrecedenceHolds(tools, required, optional) ==
    LET d == Determine(tools, required, optional)
        has == {Lookup(tools, required[i]) : i \in DOMAIN required}
    IN /\ (d.render = "blocked-by-policy") = ("blocked-by-policy" \in has)
       /\ (d.render = "unavailable") = ("blocked-by-policy" \notin has /\ has \cap Gone # {})
       /\ (d.render = "blocked-by-policy") = (d.blocked # {})
       /\ d.render = "unavailable" => d.missingRequired # {}
       /\ d.render = "degraded" => d.degraded # {}

\* A tool is listed as ok exactly when a feature that needs all of it is available, and as
\* blocked exactly when that feature is; a failed probe leaves nothing that needs the tool.
ListedAsDecided(tools, required) ==
    \A t \in DOMAIN tools :
        LET listed == Aggregate(Kept(tools[t]))
            all == SetToSeq({[tool |-> t, cap |-> c] : c \in DOMAIN Kept(tools[t])})
            needed == SelectSeq(required, LAMBDA r : r.tool = t)
        IN /\ (listed = "ok") = (all # << >> /\ Determine(tools, all, << >>).render = "available")
           /\ (listed = "blocked-by-policy")
                = (Determine(tools, all, << >>).render = "blocked-by-policy")
           /\ (tools[t].outcome # "report" /\ needed # << >>)
                => Determine(tools, required, << >>).render \in {"unavailable", "blocked-by-policy"}

\* The tools that need a subscription, and the provider each one's limits name.
Provider == [claude |-> "anthropic", codex |-> "openai", gemini |-> "google"]

\* profileAvailable: neither cooling down nor of a health that says it cannot be used.
Usable(profile) == ~profile.cooling /\ profile.health = "fine"

\* Mutant: a limit belongs to who has a profile, and to nobody else.
LimitsForProfile(tool, names, limits) == {l \in limits : l.profile \in names}
\* limitsForTool: by a profile's name, or by the provider.
LimitsFor(tool, names, limits) ==
    {l \in limits : l.profile \in names \/ l.provider = Provider[tool]}

\* caamStatuses, caamProfiles, caamLimits, caamDetectedAgents: an answer that failed has no rows.
Answered(client, a) == IF client.on /\ client[a].got THEN client[a].rows ELSE {}

\* verifySubscriptions: caam's answers, each one got or failed, if there is a client.
Verify(client) ==
    LET Rows(a) == Answered(client, a)
        failed == {a \in {"status", "list", "limits", "detect"} : ~client.on \/ ~client[a].got}
        profiles(t) == {p \in Rows("list") : p.tool = t}
        active(t) == {s \in Rows("status") : s.tool = t /\ s.profile # ""}
        tool(t) == [signedIn |-> \E s \in Rows("status") : s.tool = t /\ s.in,
                    accounts |-> Cardinality(profiles(t)),
                    available |-> Cardinality({p \in profiles(t) : Usable(p)}),
                    detected |-> t \in Rows("detect"),
                    limits |-> LimitsFor(t, {p.name : p \in profiles(t)}
                                               \cup {s.profile : s \in active(t)}, Rows("limits"))]
        zero == client.on /\ \A p \in Rows("list") : p.tool \notin DOMAIN Provider
    IN [tools |-> [t \in DOMAIN Provider |-> tool(t)],
        zero |-> zero,
        status |-> IF failed \cap {"status", "list"} # {} THEN "unavailable"
                   ELSE IF failed # {} \/ zero THEN "warning" ELSE "ok"]

\* Verified means that every answer came and there is an account, and then each provider's
\* limits are shown with its tool, whoever's profile they name.
VerifiedIsKnown(client) ==
    LET v == Verify(client) IN
    /\ v.status = "ok" =>
         /\ client.on /\ \A a \in {"status", "list", "limits", "detect"} : client[a].got
         /\ \E t \in DOMAIN Provider : v.tools[t].accounts > 0
         /\ \A t \in DOMAIN Provider : {l \in client.limits.rows : l.provider = Provider[t]}
                                          \subseteq v.tools[t].limits
    /\ \A t \in DOMAIN Provider : v.tools[t].available <= v.tools[t].accounts
=============================================================================
