---------------------------- MODULE TendingJobs ----------------------------
(***************************************************************************)
(* Tending jobs as their owner handles them: the commands of               *)
(* cmd/hoopoe/tending.go, which change a definition file per job and the   *)
(* scheduler's state file, the text of a definition file, cron schedules,  *)
(* and the action plan a pre-script's last line becomes.                   *)
(*                                                                         *)
(* Commands are processes: several run at one time, each loads the whole   *)
(* state file and later saves all of it, and any of them may be killed.    *)
(***************************************************************************)
EXTENDS Integers, Sequences, FiniteSets, SequencesExt, FiniteSetsExt, TLC

CONSTANTS Jobs, Callers, Nothing,
          Drafts,     \* the definitions a command line, or an editor, may give
          MaxCalls    \* bound: commands

VARIABLES files,   \* jobs.d: the definition file of each job
          jobs,    \* the state file: the imported job of each id
          op, gone,   \* a definition file its owner deleted
          calls
tendingVars == <<files, jobs, op, gone, calls>>

---------------------------------------------------------------------------
(* Definitions.  A duration is a number of seconds, Repeat{Limit: n} is <<n>>. *)

Kinds == {"deterministic", "gated_agent", "orchestrator_chat", "external_webhook"}
OrElse(value, none, default) == IF value = none THEN default ELSE value
Minute == 60
Forever == <<>>

Normalized(d) ==
    [d EXCEPT !.kind = OrElse(@, "", "deterministic"), !.repeat = OrElse(@, <<0>>, Forever),
              !.concurrency = OrElse(@, 0, 1), !.timeout = OrElse(@, 0, Minute),
              !.grace = OrElse(@, 0, Minute), !.misfire = OrElse(@, "", "run_once"),
              !.retry = OrElse(@, "", "none")]

ScheduleValid(s) ==
    CASE s.type = "interval" -> s.interval > 0
      [] s.type = "event" -> s.event # ""
      [] s.type = "on_demand" -> TRUE
      [] OTHER -> FALSE
Valid(d) ==
    /\ d.name # "" /\ d.kind \in Kinds /\ ScheduleValid(d.schedule)
    /\ d.misfire \in {"skip", "run_once", "catch_up_bounded"} /\ d.retry \in {"none", "fixed", "exponential"}
    /\ d.repeat = Forever \/ d.repeat[1] >= 0
    /\ d.concurrency >= 0 /\ d.timeout >= 0 /\ d.grace >= 0

\* durationString: the largest unit that leaves no rest.
Units == <<<<"d", 86400>>, <<"h", 3600>>, <<"m", 60>>, <<"s", 1>>>>
DurationText(n) ==
    IF n = 0 THEN <<>>
    ELSE LET u == Units[CHOOSE i \in DOMAIN Units :
                          n % Units[i][2] = 0 /\ \A k \in 1..(i - 1) : n % Units[k][2] # 0]
         IN  <<n \div u[2], u[1]>>
\* parseDuration
SecondsOf(text) ==
    IF text = <<>> THEN 0
    ELSE text[1] * Units[CHOOSE i \in DOMAIN Units : Units[i][1] = text[2]][2]

ScheduleText(s) ==
    CASE s.type = "interval" -> <<"every", DurationText(s.interval)>>
      [] s.type = "event" -> <<"on event:", s.event>>
      [] s.type = "on_demand" -> <<"on demand">>
      [] OTHER -> <<"">>
\* ParseSchedule: what is empty is on demand.
ScheduleOf(text) ==
    CASE text[1] = "every" -> [type |-> "interval", interval |-> SecondsOf(text[2]), event |-> ""]
      [] text[1] = "on event:" -> [type |-> "event", interval |-> 0, event |-> text[2]]
      [] OTHER -> [type |-> "on_demand", interval |-> 0, event |-> ""]

\* As a bug would have it: the wanted state is left out of the file.
DiskUnpaused(d) ==
    [name |-> d.name, kind |-> d.kind, schedule |-> ScheduleText(d.schedule), paused |-> FALSE,
     repeat |-> OrElse(d.repeat, <<0>>, Forever), timeout |-> DurationText(d.timeout),
     concurrency |-> d.concurrency, misfire |-> d.misfire, retry |-> d.retry]
\* WriteDefinitionFile: DefinitionDisk has no grace and no revision.
Disk(d) ==
    [name |-> d.name, kind |-> d.kind, schedule |-> ScheduleText(d.schedule), paused |-> d.paused,
     repeat |-> OrElse(d.repeat, <<0>>, Forever), timeout |-> DurationText(d.timeout),
     concurrency |-> d.concurrency, misfire |-> d.misfire, retry |-> d.retry]

\* toDefinition, of what LoadDefinitionFile read.
OfDisk(disk) ==
    Normalized([name |-> disk.name, kind |-> disk.kind, schedule |-> ScheduleOf(disk.schedule),
                paused |-> disk.paused, repeat |-> disk.repeat, timeout |-> SecondsOf(disk.timeout),
                concurrency |-> disk.concurrency, misfire |-> disk.misfire, retry |-> disk.retry,
                grace |-> 0, revision |-> 0])

---------------------------------------------------------------------------
(* Cron.  A field is a sequence of parts, lo = -1 standing for the star and step = 0 for   *)
(* none given; time is counted in minutes since 1 January 1970.                            *)

Star == <<[lo |-> -1, hi |-> -1, step |-> 0]>>
Limits == [minute |-> <<0, 59>>, hour |-> <<0, 23>>, dom |-> <<1, 31>>, month |-> <<1, 12>>, dow |-> <<0, 6>>]

\* parseCronField, cronRange: a part without a range is one value, whatever its step.
PartValid(part, min, max) == part.lo = -1 \/ (part.lo \in min..max /\ part.hi \in part.lo..max)
Values(part, min, max) ==
    LET lo == IF part.lo = -1 THEN min ELSE part.lo
        hi == IF part.lo = -1 THEN max ELSE part.hi
    IN  {v \in lo..hi : part.step = 0 \/ (v - lo) % part.step = 0}
Parsed(raw) ==
    [f \in DOMAIN Limits |->
        UNION {Values(raw[f][i], Limits[f][1], Limits[f][2]) : i \in DOMAIN raw[f]}]

\* validateDayMonthCombination
DaysIn == <<31, 29, 31, 30, 31, 30, 31, 31, 30, 31, 30, 31>>
\* As a bug would have it: a day of the week saves nothing.
FeasibleByDate(raw) == \E m \in Parsed(raw).month, d \in Parsed(raw).dom : d <= DaysIn[m]
Feasible(raw) ==
    \/ raw.dow # Star
    \/ \E m \in Parsed(raw).month, d \in Parsed(raw).dom : d <= DaysIn[m]

FieldsValid(raw) ==
    \A f \in DOMAIN Limits : \A i \in DOMAIN raw[f] : PartValid(raw[f][i], Limits[f][1], Limits[f][2])
CronValid(raw) == FieldsValid(raw) /\ Feasible(raw)

\* The calendar of package time: the date of a day, and the day of a date.
Date(day) ==
    LET z == day + 719468   doe == z % 146097
        yoe == (doe - doe \div 1460 + doe \div 36524 - doe \div 146096) \div 365
        doy == doe - (365 * yoe + yoe \div 4 - yoe \div 100)
        mp == (5 * doy + 2) \div 153   m == IF mp < 10 THEN mp + 3 ELSE mp - 9
    IN  [year |-> yoe + 400 * (z \div 146097) + (IF m <= 2 THEN 1 ELSE 0), month |-> m,
         dom |-> doy - (153 * mp + 2) \div 5 + 1, dow |-> (day + 4) % 7]
DayOf(year, month, dom) ==
    LET y == IF month <= 2 THEN year - 1 ELSE year
        m == IF month > 2 THEN month - 3 ELSE month + 9
        yoe == y % 400
    IN  (y \div 400) * 146097 + yoe * 365 + yoe \div 4 - yoe \div 100 + (153 * m + 2) \div 5 + dom - 1 - 719468

\* cronExpr.matches
DayMatches(raw, allowed, date) ==
    /\ date.month \in allowed.month
    /\ LET dom == date.dom \in allowed.dom   dow == date.dow \in allowed.dow
       IN  IF raw.dom # Star /\ raw.dow # Star THEN dom \/ dow ELSE dom /\ dow

\* cronExpr.Next: the first minute after that matches; after five years it gives up.
Never == -1
NextRun(raw, after) ==
    LET allowed == Parsed(raw)   from == after + 1   today == Date(from \div 1440)
        times == {60 * h + m : h \in allowed.hour, m \in allowed.minute}
        deadline == 1440 * DayOf(today.year + 5, today.month, today.dom) + (from % 1440)
        Fits(day) == /\ DayMatches(raw, allowed, Date(day))
                     /\ \E t \in times : 1440 * day + t \in from..deadline
        days == {day \in (from \div 1440)..(deadline \div 1440) : Fits(day)}
    IN  IF days = {} THEN Never
        ELSE Min({t \in {1440 * Min(days) + u : u \in times} : t >= from})

---------------------------------------------------------------------------
(* Action plans: tending/prescript/runner.go and agent/types.go. *)

Rank == [none |-> 0, low |-> 1, medium |-> 2, high |-> 3, critical |-> 4]
Action(risk, asks, target, args, needs, past) ==
    [risk |-> risk, asks |-> asks, target |-> target, args |-> args, needs |-> needs, past |-> past]
\* DefaultActionCatalog: needs are the capabilities an action asks for, past those of them
\* that policy may have blocked.
Catalog ==
       "agent.ask_status" :> Action("low", FALSE, {"agentId"}, {}, {"mail.send", "ntm.snapshot"}, {})
    @@ "agent.send_marching_orders" :> Action("medium", FALSE, {"agentId"}, {"marchingOrdersBody"}, {"ntm.send"}, {})
    @@ "agent.pause" :> Action("low", FALSE, {"agentId"}, {}, {"ntm.snapshot"}, {})
    @@ "agent.kill_wedged_process" :>
          Action("high", TRUE, {"agentId"}, {}, {"pt.kill", "ntm.kill", "ntm.snapshot"}, {"pt.kill", "ntm.kill"})
    @@ "reservation.force_release" :> Action("high", TRUE, {"reservationId"}, {}, {"mail.release", "mail.notice"}, {})
    @@ "caam.switch_account" :>
          Action("medium", FALSE, {"agentId", "targetAccountId"}, {}, {"caam.switch", "caam.detect"}, {})
    @@ "casr.resume_session" :> Action("low", FALSE, {"sessionId"}, {}, {"casr.resume"}, {})
    @@ "git.push_branch" :>
          Action("medium", FALSE, {"projectId", "branch"}, {"expectedSha"}, {"git.push", "git.remote"}, {})
    @@ "swarm.halt" :> Action("high", TRUE, {"swarmId"}, {"reason"}, {"ntm.halt"}, {})
    @@ "review.propose_flip" :> Action("medium", TRUE, {"projectId", "swarmId"}, {}, {}, {})
    @@ "bead.create_blocker" :>
          Action("low", FALSE, {"projectId", "sourceBeadId"}, {"title"}, {"br.create", "br.dep"}, {})

\* As a bug would have it: only the plan's risk counts.
AsksByRisk(spec, risk, plan) == plan = "yes" \/ Rank[risk] >= Rank["high"]
\* ActionSpec.RequiresApproval
Asks(spec, risk, plan) == plan = "yes" \/ spec.asks \/ Rank[risk] >= Rank["high"]

\* ValidatePlan: riskClass, keys, required fields, and a requiresApproval that is not denied.
ValidPlan(plan) ==
    /\ plan.risk # "none" /\ plan.actions # <<>>
    /\ \A i \in DOMAIN plan.actions :
          LET a == plan.actions[i]
          IN  /\ a.kind \in DOMAIN Catalog /\ a.key # ""
              /\ Rank[plan.risk] >= Rank[Catalog[a.kind].risk]
              /\ Catalog[a.kind].target \subseteq a.target /\ Catalog[a.kind].args \subseteq a.args
              /\ \A k \in 1..(i - 1) : plan.actions[k].key # a.key
    /\ plan.asks = "no" =>
          \A i \in DOMAIN plan.actions : ~Asks(Catalog[plan.actions[i].kind], plan.risk, "no")

\* ParseOutput, toAction: one intent nobody knows spoils the whole output.
OutputValid(output) ==
    \A i \in DOMAIN output.intents : output.intents[i].kind \in DOMAIN Catalog /\ output.intents[i].key # ""

\* BuildActionPlan: the risk is the script's own or the greatest of its actions'.
MaxRisk(intents) ==
    LET ranks == {Rank[Catalog[intents[i].kind].risk] : i \in DOMAIN intents}
    IN  CHOOSE r \in DOMAIN Rank : Rank[r] = Max(ranks \cup {0})
PlanOf(output) ==
    LET risk == IF output.risk # "none" THEN output.risk
                ELSE OrElse(MaxRisk(output.intents), "none", "low")
    IN  [risk |-> risk, actions |-> output.intents,
         asks |-> IF \E i \in DOMAIN output.intents : Asks(Catalog[output.intents[i].kind], risk, "")
                  THEN "yes" ELSE "no"]

\* Runner.Run after the script has exited: what is executed, and whether the agent is woken
\* for it.  The command line's own agent always fails, after the intents are done.
RunEffect(script) ==
    LET output == script.output
    IN  IF script.exit # 0 \/ script.truncated \/ output = Nothing \/ (output # Nothing /\ ~OutputValid(output))
        THEN [executed |-> Nothing, agent |-> FALSE, failed |-> TRUE]
        ELSE IF output.intents = <<>> THEN [executed |-> Nothing, agent |-> output.wake, failed |-> output.wake]
        ELSE IF ~ValidPlan(PlanOf(output)) THEN [executed |-> Nothing, agent |-> FALSE, failed |-> TRUE]
        ELSE [executed |-> PlanOf(output), agent |-> output.wake, failed |-> output.wake]

\* RegistryCapabilityChecker: may the action run, given what each capability reports?
MayRun(spec, status) ==
    \A c \in spec.needs :
        status[c] \in {"ok", "degraded"} \/ (status[c] = "blocked_by_policy" /\ c \in spec.past)

---------------------------------------------------------------------------
(* The commands. *)

Idle == [pc |-> "idle", verb |-> "", job |-> Nothing, draft |-> Nothing, loaded |-> Nothing, answer |-> ""]

\* The first step of a command is its first access to a file: create writes the definition,
\* edit looks for it, the others load the state.
Call(c, verb, j, d) ==
    /\ op[c].pc = "idle" /\ calls < MaxCalls
    /\ calls' = calls + 1
    /\ op' = [op EXCEPT ![c] =
          [pc |-> CASE verb = "create" -> "write" [] verb = "edit" -> "look" [] OTHER -> "load",
           verb |-> verb, job |-> j, draft |-> d, loaded |-> Nothing, answer |-> ""]]
    /\ UNCHANGED <<files, jobs, gone>>
Create(c) == \E j \in Jobs, d \in Drafts : Call(c, "create", j, d)
Edit(c) == \E j \in Jobs, d \in Drafts : Call(c, "edit", j, d)
Change(c) == \E j \in Jobs, verb \in {"pause", "resume", "remove"} : Call(c, verb, j, Nothing)

\* runTendingCreate writes before it validates, over a file that is there.
WriteFile(c) ==
    /\ op[c].pc = "write"
    /\ files' = [files EXCEPT ![op[c].job] = Disk(op[c].draft)]
    /\ op' = [op EXCEPT ![c].pc = "load"]
    /\ UNCHANGED <<jobs, calls, gone>>

\* openTendingRegistry
Load(c) ==
    /\ op[c].pc = "load"
    /\ op' = [op EXCEPT ![c].loaded = jobs, ![c].pc = IF op[c].verb = "edit" THEN "restore" ELSE "change"]
    /\ UNCHANGED <<files, jobs, calls, gone>>

Ends(c, answer) == op' = [op EXCEPT ![c].pc = "done", ![c].answer = answer]

\* As a bug would have it: the definition is imported as it was given.
ImportUnseen(c) ==
    LET o == op[c]   d == Normalized(o.draft)   old == o.loaded[o.job]
    IN  /\ o.pc = "change" /\ o.verb = "create"
        /\ jobs' = [o.loaded EXCEPT ![o.job] =
              [d EXCEPT !.revision = IF old = Nothing THEN @ ELSE old.revision + 1]]
        /\ op' = [op EXCEPT ![c].pc = "audit"]
        /\ UNCHANGED <<files, calls, gone>>
\* Registry.ImportDefinition
Import(c) ==
    LET o == op[c]   d == Normalized(o.draft)   old == o.loaded[o.job]
    IN  /\ o.pc = "change" /\ o.verb = "create"
        /\ IF ~Valid(d) THEN Ends(c, "invalid") /\ UNCHANGED jobs
           ELSE /\ jobs' = [o.loaded EXCEPT ![o.job] =
                     [d EXCEPT !.revision = IF old = Nothing THEN @ ELSE old.revision + 1]]
                /\ op' = [op EXCEPT ![c].pc = "audit"]
        /\ UNCHANGED <<files, calls, gone>>

\* Registry.PauseJob, ResumeJob and RemoveJob; the definition file is not touched.
ChangeJob(c) ==
    LET o == op[c]
    IN  /\ o.pc = "change" /\ o.verb # "create"
        /\ IF o.loaded[o.job] = Nothing THEN Ends(c, "not_found") /\ UNCHANGED jobs
           ELSE /\ jobs' = IF o.verb = "remove" THEN [o.loaded EXCEPT ![o.job] = Nothing]
                           ELSE [o.loaded EXCEPT ![o.job].paused = (o.verb = "pause")]
                /\ op' = [op EXCEPT ![c].pc = "audit"]
        /\ UNCHANGED <<files, calls, gone>>

\* runTendingEdit: a file that is missing is written from the state first.
Look(c) ==
    /\ op[c].pc = "look"
    /\ op' = [op EXCEPT ![c].pc = IF files[op[c].job] = Nothing THEN "load" ELSE "editor"]
    /\ UNCHANGED <<files, jobs, calls, gone>>
RestoreFile(c) ==
    LET o == op[c]   old == o.loaded[o.job]
    IN  /\ o.pc = "restore"
        /\ IF old = Nothing THEN Ends(c, "not_found") /\ UNCHANGED files
           ELSE /\ files' = [files EXCEPT ![o.job] = Disk(old)]
                /\ op' = [op EXCEPT ![c].pc = "editor"]
        /\ UNCHANGED <<jobs, calls, gone>>
\* The editor saves what it likes, or fails; nothing imports what it saved.
Editor(c) ==
    /\ op[c].pc = "editor"
    /\ \/ files' = [files EXCEPT ![op[c].job] = Disk(op[c].draft)] /\ op' = [op EXCEPT ![c].pc = "audit"]
       \/ Ends(c, "failed") /\ UNCHANGED files
    /\ UNCHANGED <<jobs, calls, gone>>

\* Opening the audit writer may fail, after the change; a failing Append is a warning, except
\* for edit.
Audit(c) ==
    /\ op[c].pc = "audit"
    /\ \E answer \in {"ok", "failed"} : Ends(c, answer)
    /\ UNCHANGED <<files, jobs, calls, gone>>

\* The owner deletes a definition file by hand.
DeleteFile(j) ==
    /\ files[j] # Nothing /\ gone = {}
    /\ files' = [files EXCEPT ![j] = Nothing] /\ gone' = {j}
    /\ UNCHANGED <<jobs, op, calls>>

\* The command is over, or is killed.
Leave(c) ==
    /\ op[c].pc # "idle"
    /\ op' = [op EXCEPT ![c] = Idle]
    /\ UNCHANGED <<files, jobs, calls, gone>>

Init == /\ files = [j \in Jobs |-> Nothing] /\ jobs = [j \in Jobs |-> Nothing]
        /\ op = [c \in Callers |-> Idle] /\ gone = {} /\ calls = 0
Next ==
    \/ \E c \in Callers : \/ Create(c) \/ Edit(c) \/ Change(c) \/ WriteFile(c) \/ Load(c) \/ Import(c)
                          \/ ChangeJob(c) \/ Look(c) \/ RestoreFile(c) \/ Editor(c) \/ Audit(c) \/ Leave(c)
    \/ \E j \in Jobs : DeleteFile(j)
Spec == Init /\ [][Next]_tendingVars

---------------------------------------------------------------------------
\* Every imported job can be scheduled (Definition.Validate), whatever the command line and
\* the editor wrote, and its definition file was there before it: a job the state file knows
\* can be edited, also when a command was killed half way or another
\* overtook it, until its owner deletes the file.
ImportedIsWhole ==
    \A j \in Jobs : jobs[j] # Nothing => Valid(jobs[j]) /\ (files[j] # Nothing \/ j \in gone)

\* What edit writes for a job whose file is gone reads back as the job's definition, except
\* for the grace and the revision, which the file has no place for.
FileKeepsDefinition(d) ==
    Valid(Normalized(d)) =>
        OfDisk(Disk(Normalized(d))) = [Normalized(d) EXCEPT !.grace = Minute, !.revision = 0]

\* Of schedules in range, parseCron refuses exactly those that never fire, and the next run it computes is the first:
\* no minute between is one that matches.  What is left out are schedules for 29 February
\* alone, which Next gives up on before a century that has none.
CronIsHonest(raw, after) ==
    LET next == NextRun(raw, after)   allowed == Parsed(raw)
        Matches(t) == /\ DayMatches(raw, allowed, Date(t \div 1440))
                      /\ (t % 1440) \div 60 \in allowed.hour /\ t % 60 \in allowed.minute
    IN  /\ FieldsValid(raw) => (CronValid(raw) <=> next # Never)
        /\ next # Never => Matches(next) /\ next > after /\
                           \A t \in (IF next - after < 200 THEN after + 1 ELSE next - 200)..(next - 1) : ~Matches(t)

\* What takes something from an agent, stops the swarm or changes what it works on.
Consented == {"agent.kill_wedged_process", "reservation.force_release", "swarm.halt", "review.propose_flip"}

\* Nothing of an output runs unless all of it is in order: no kind or key is unknown, the
\* plan's risk covers every action, two actions never share a key, what a person must consent
\* to is never without approval, and one that may run although policy blocks its tool asks as
\* well (tending/prescript/runner.go, agent/types.go).
PlansAreCovered(script, status) ==
    LET plan == RunEffect(script).executed
    IN  plan # Nothing =>
          \A i \in DOMAIN plan.actions :
             LET spec == Catalog[plan.actions[i].kind]
             IN  /\ Rank[plan.risk] >= Rank[spec.risk]
                 /\ \A k \in DOMAIN plan.actions : plan.actions[k].key = plan.actions[i].key => k = i
                 /\ plan.actions[i].kind \in Consented => plan.asks = "yes"
                 /\ MayRun(spec, status) /\ (\E n \in spec.needs : status[n] = "blocked_by_policy") => plan.asks = "yes"
=============================================================================
