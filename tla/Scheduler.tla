----------------------------- MODULE Scheduler -----------------------------
(***************************************************************************)
(* The tending scheduler of the daemon (apps/daemon/internal/scheduler):   *)
(* the in-memory registry behind one mutex, the JSON state file it saves   *)
(* through after every change, and the goroutines that execute the runs.   *)
(*                                                                         *)
(* A process (a daemon, or one invocation of `hoopoe tending`) loads the   *)
(* file when it starts and works on its own copy.  Every registry          *)
(* operation holds the mutex from its first read to its last save, so an   *)
(* operation is one action.  Run identifiers are unique (a time stamp and  *)
(* a counter) and carry no meaning, hence the set Runs.                    *)
(***************************************************************************)
EXTENDS Integers, FiniteSets, Functions

CONSTANTS
    Procs,          \* processes that may open the state file
    Jobs,           \* job identifiers
    Runs,           \* run identifiers (bounds the number of run records)
    Keys,           \* the non-empty event keys
    Def,            \* the definition of every job, see Definition
    LeaseTTL,       \* RegistryConfig.LeaseTTL
    Period,         \* the interval of the interval schedules
    MisfireGrace,   \* Definition.MisfireGrace
    Workers,        \* Config.MaxWorkers
    RunRetention,   \* RegistryConfig.TerminalRunRetention
    DedupeRetention,\* RegistryConfig.DedupeRetention
    MaxTime,        \* bound on the clock
    MaxFaults       \* bound on the number of failed saves

Nil   == -1                     \* a nil time or a nil lease
NoRun == "no run"               \* no entry in State.EventDedupe
NoKey == "no key"               \* the empty event key, and no event at all
Times == {Nil} \cup (0 .. (MaxTime + LeaseTTL + Period))

\* The part of a Definition the scheduler branches on.  deadAfter = 0 and
\* repeat = 0 mean "never" and "forever".
Definition == [kind : {"interval", "event", "on_demand"}, maxConc : Nat \ {0},
               deadAfter : Nat, repeat : Nat, misfireSkip : BOOLEAN, gated : BOOLEAN]

ASSUME SchedulerAssumption ==
    /\ Jobs # {} /\ Def \in [Jobs -> Definition]
    /\ NoRun \notin Runs /\ NoKey \notin Keys
    /\ LeaseTTL \in Nat \ {0} /\ Period \in Nat \ {0} /\ MisfireGrace \in Nat
    /\ Workers \in Nat \ {0}
    /\ RunRetention \in Nat \ {0} /\ DedupeRetention \in Nat \ {0}
    /\ MaxTime \in Nat /\ MaxFaults \in Nat

VARIABLES
    mem,     \* mem[p]: Registry.state in process p
    up,      \* the processes that run
    disk,    \* the state file
    exec,    \* exec[p][r]: the dispatch goroutine of run r in process p
    used,    \* the run identifiers handed out so far
    now,     \* the clock
    faults   \* failed saves so far

vars == <<mem, up, disk, exec, used, now, faults>>

-----------------------------------------------------------------------------
\* Registry state: Job, Run, State

JobStatus == {"ready", "paused", "dead_lettered", "completed"}
Terminal  == {"succeeded", "failed", "interrupted", "skipped"}
RunStatus == {"absent", "running"} \cup Terminal

\* dead is DeadLetteredAt # nil; lease is Lease.ExpiresAt, the holder being
\* the same string for every lease.
Job == [present : BOOLEAN, paused : BOOLEAN, status : JobStatus, next : Times,
        lease : Times, successes : Nat, failures : Nat, dead : BOOLEAN]

AbsentJob == [present |-> FALSE, paused |-> FALSE, status |-> "ready", next |-> Nil,
              lease |-> Nil, successes |-> 0, failures |-> 0, dead |-> FALSE]

\* expiry is Run.Lease.ExpiresAt, done is CompletedAt, key is Trigger.EventKey.
Run == [status : RunStatus, job : Jobs, key : Keys \cup {NoKey}, expiry : Times, done : Times]

State == [jobs : [Jobs -> Job], runs : [Runs -> Run],
          dedupe : [Jobs \X Keys -> Runs \cup {NoRun}]]

AbsentRun == [status |-> "absent", job |-> CHOOSE j \in Jobs : TRUE, key |-> NoKey,
              expiry |-> Nil, done |-> Nil]

EmptyState == [jobs |-> [j \in Jobs |-> AbsentJob], runs |-> [r \in Runs |-> AbsentRun],
               dedupe |-> [jk \in Jobs \X Keys |-> NoRun]]

RunsWith(st, statuses) == {r \in Runs : st.runs[r].status \in statuses}

\* Runs of job j that hold an unexpired lease at time t.
RunningRuns(st, j, t) ==
    {r \in RunsWith(st, {"running"}) : st.runs[r].job = j /\ st.runs[r].expiry > t}

Timed(j)       == Def[j].kind = "interval"
NextAfter(j, t) == IF Timed(j) THEN t + Period ELSE Nil
Exhausted(j, n) == Def[j].repeat > 0 /\ n >= Def[j].repeat

-----------------------------------------------------------------------------
\* Steps of the registry operations, on a State

\* Mutant: the reclaim looks at the runs of the jobs it still knows.
ExpiredOfKnownJobs(st, t) ==
    {r \in RunsWith(st, {"running"}) : st.runs[r].expiry <= t /\ st.jobs[st.runs[r].job].present}

\* Every running run whose lease has run out becomes interrupted, and its job
\* loses its lease: all leases have the same holder.
Expired(st, t) == {r \in RunsWith(st, {"running"}) : st.runs[r].expiry <= t}

\* Mutant: the job keeps the lease of the run that was written off.
ReclaimedKeepsLease(st, t) ==
    [st EXCEPT !.runs = [r \in Runs |-> IF r \in Expired(st, t)
                                        THEN [@[r] EXCEPT !.status = "interrupted", !.done = t]
                                        ELSE @[r]]]

Reclaimed(st, t) ==
    [st EXCEPT
       !.runs = [r \in Runs |-> IF r \in Expired(st, t)
                                THEN [st.runs[r] EXCEPT !.status = "interrupted", !.done = t]
                                ELSE st.runs[r]],
       !.jobs = [j \in Jobs |-> IF \E r \in Expired(st, t) : st.runs[r].job = j
                                THEN [st.jobs[j] EXCEPT !.lease = Nil]
                                ELSE st.jobs[j]]]

\* Mutant: the lease of the job is taken for all there is.
LeasedByJobOnly(st, j, t) == st.jobs[j].lease > t

\* The job is taken: its own lease, or as many leased runs as it may have.
Leased(st, j, t) == \/ st.jobs[j].lease > t
                    \/ Cardinality(RunningRuns(st, j, t)) >= Def[j].maxConc

\* What resolveDueLocked decides for job j at time t.  scheduled: the trigger
\* is the schedule, not a request or an event.  blocked: the jobs a required
\* capability is missing for.
Outcome(st, j, scheduled, blocked, t) ==
    LET job == st.jobs[j] IN
    IF job.paused \/ job.status = "paused" THEN "paused"
    ELSE IF job.dead \/ job.status = "dead_lettered" THEN "dead_lettered"
    ELSE IF job.status = "completed" THEN "skipped_by_policy"
    ELSE IF Leased(st, j, t) THEN "leased_elsewhere"
    ELSE IF scheduled /\ t - job.next > MisfireGrace /\ Def[j].misfireSkip
         THEN "skipped_by_misfire_policy"
    ELSE IF j \in blocked THEN "blocked_by_capability"
    ELSE "started"

\* The job after the decision: advanceJobAfterDecisionLocked, except for the
\* outcomes that return before it.
Resolved(st, j, outcome, t) ==
    LET job == st.jobs[j] IN
    CASE outcome \in {"dead_lettered", "skipped_by_policy"} -> job
      [] outcome = "started" -> [job EXCEPT !.lease = t + LeaseTTL, !.status = "ready",
                                            !.next = NextAfter(j, t)]
      [] OTHER -> [job EXCEPT !.next = NextAfter(j, t)]

\* The run record of a decision: a skip is terminal at once.
RunOf(j, key, outcome, t) ==
    [status |-> IF outcome = "started" THEN "running" ELSE "skipped", job |-> j, key |-> key,
     expiry |-> IF outcome = "started" THEN t + LeaseTTL ELSE Nil,
     done   |-> IF outcome = "started" THEN Nil ELSE t]

\* Mutants: a skipped event is entered too; a key counts while its run runs.
EntersAnyDecision(outcome, k, key) == k = key
DuplicateWhileRunning(st, j, key) ==
    /\ key # NoKey /\ st.dedupe[<<j, key>>] # NoRun
    /\ st.runs[st.dedupe[<<j, key>>]].status = "running"

\* An event key is entered in EventDedupe for the runs it starts, and looked
\* up there before the job is.
Enters(outcome, k, key) == k = key /\ outcome = "started"
Duplicate(st, j, key)   == key # NoKey /\ st.dedupe[<<j, key>>] # NoRun

\* One decision per job of D, where outcome[j] was decided for j and ids[j]
\* is the identifier of its run record.  Decisions about different jobs touch disjoint parts of the
\* state, so their order does not matter.
Decided(st, D, ids, outcome, key, t) ==
    [jobs   |-> [j \in Jobs |-> IF j \in D THEN Resolved(st, j, outcome[j], t) ELSE st.jobs[j]],
     runs   |-> [r \in Runs |-> IF \E j \in D : ids[j] = r
                                THEN LET j == CHOOSE k \in D : ids[k] = r
                                     IN  RunOf(j, key, outcome[j], t)
                                ELSE st.runs[r]],
     dedupe |-> [jk \in Jobs \X Keys |->
                    IF jk[1] \in D /\ Enters(outcome[jk[1]], jk[2], key)
                    THEN ids[jk[1]] ELSE st.dedupe[jk]]]

\* The oldest terminal runs beyond RunRetention are dropped; the order of runs
\* that completed at the same time is open.
Pruned(st) ==
    LET T      == RunsWith(st, Terminal)
        excess == IF Cardinality(T) > RunRetention THEN Cardinality(T) - RunRetention ELSE 0
        Oldest == {X \in SUBSET T : /\ Cardinality(X) = excess
                                    /\ \A r \in X, s \in T \ X :
                                          st.runs[r].done <= st.runs[s].done}
    IN {[st EXCEPT !.runs = [r \in Runs |-> IF r \in X THEN AbsentRun ELSE @[r]]] : X \in Oldest}

\* Dedupe entries beyond DedupeRetention are dropped, those of runs that are
\* terminal or gone first, in no other order.
DedupePruned(st) ==
    LET K      == {jk \in Jobs \X Keys : st.dedupe[jk] # NoRun}
        Live   == {jk \in K : st.runs[st.dedupe[jk]].status = "running"}
        excess == IF Cardinality(K) > DedupeRetention THEN Cardinality(K) - DedupeRetention ELSE 0
        Chosen == {X \in SUBSET K : /\ Cardinality(X) = excess
                                    /\ X \cap Live # {} => K \ Live \subseteq X}
    IN {[st EXCEPT !.dedupe = [jk \in Jobs \X Keys |-> IF jk \in X THEN NoRun ELSE @[jk]]] :
            X \in Chosen}

-----------------------------------------------------------------------------
\* Persistence: Registry.persistLocked and FileStore.Save

\* The operation leaves st in memory.  The save replaces the file as a whole;
\* a failed save leaves the file f it found, or has replaced it before the
\* failure (the directory could not be opened after the rename).
Saved(p, st) == /\ mem' = [mem EXCEPT ![p] = st]
                /\ disk' = st
                /\ UNCHANGED faults

SaveFailed(p, st, f) == /\ faults < MaxFaults
                        /\ faults' = faults + 1
                        /\ mem' = [mem EXCEPT ![p] = st]
                        /\ disk' \in {f, st}

\* An operation whose result does not depend on the save.
Persist(p, st) == Saved(p, st) \/ SaveFailed(p, st, disk)

\* The state in which the lock holder goes on once the expired leases are
\* reclaimed and that change is saved, and the file it leaves.
Base(p)     == Reclaimed(mem[p], now)
BaseFile(p) == IF Base(p) = mem[p] THEN disk ELSE Base(p)

\* The save of the reclaimed leases fails: the operation ends there.
ReclaimSaveFails(p) ==
    /\ p \in up
    /\ Base(p) # mem[p]
    /\ SaveFailed(p, Base(p), disk)
    /\ UNCHANGED <<up, exec, used, now>>

-----------------------------------------------------------------------------
\* Operations on definitions

\* Mutant: an import is a fresh start.
ImportedAfresh(j, old, paused, t) ==
    [AbsentJob EXCEPT !.present = TRUE, !.paused = paused, !.next = NextAfter(j, t),
                      !.status = IF paused THEN "paused" ELSE "ready",
                      !.failures = old.failures, !.successes = old.successes]

\* The job after ImportDefinition: an import keeps the counters and the dead letter of the
\* job it replaces, but neither its lease nor its completed status.
Imported(j, old, paused, t) ==
    [present |-> TRUE, paused |-> paused,
     status |-> IF old.dead THEN "dead_lettered" ELSE IF paused THEN "paused" ELSE "ready",
     next |-> NextAfter(j, t), lease |-> Nil,
     successes |-> old.successes, failures |-> old.failures, dead |-> old.dead]

ImportDefinition(p, j, paused) ==
    /\ p \in up
    /\ Persist(p, [mem[p] EXCEPT !.jobs[j] = Imported(j, @, paused, now)])
    /\ UNCHANGED <<up, exec, used, now>>

PauseJob(p, j) ==
    LET job == mem[p].jobs[j] IN
    /\ p \in up /\ job.present
    /\ Persist(p, [mem[p] EXCEPT !.jobs[j] =
            [job EXCEPT !.paused = TRUE,
                        !.status = IF @ \in {"dead_lettered", "completed"} THEN @ ELSE "paused"]])
    /\ UNCHANGED <<up, exec, used, now>>

ResumeJob(p, j) ==
    LET job    == mem[p].jobs[j]
        status == IF job.dead THEN "dead_lettered"
                  ELSE IF job.status = "completed" THEN "completed" ELSE "ready"
    IN /\ p \in up /\ job.present
       /\ Persist(p, [mem[p] EXCEPT !.jobs[j] =
            [job EXCEPT !.paused = FALSE, !.status = status,
                        !.next = IF status = "ready" /\ @ = Nil THEN NextAfter(j, now) ELSE @]])
       /\ UNCHANGED <<up, exec, used, now>>

\* RemoveJob drops the job and its dedupe entries; its runs stay.
RemoveJob(p, j) ==
    /\ p \in up /\ mem[p].jobs[j].present
    /\ Persist(p, [mem[p] EXCEPT !.jobs[j] = AbsentJob,
                                 !.dedupe = [jk \in Jobs \X Keys |->
                                                IF jk[1] = j THEN NoRun ELSE @[jk]]])
    /\ UNCHANGED <<up, exec, used, now>>

-----------------------------------------------------------------------------
\* Operations that start runs, and the dispatch of what they started

Fresh == Runs \ used

\* startRun and the go statement of dispatch, for the runs of started.
Dispatch(p, started) ==
    exec' = [exec EXCEPT ![p] = [r \in Runs |-> IF r \in started THEN "queued" ELSE @[r]]]

\* Mutant: the runs are dispatched whether or not the save went through.
DispatchAnyway(p, started) == Dispatch(p, started)

\* After a failed save the caller gets an error and dispatches nothing, though
\* memory says the runs are running.
NoDispatch(p, started) == UNCHANGED exec

\* The history is pruned; EmitEvent prunes EventDedupe first.
Finals(st, event) == UNION {Pruned(s) : s \in IF event THEN DedupePruned(st) ELSE {st}}

\* The common end of SelectDue, RunNow and EmitEvent: the decisions about the
\* jobs of D are recorded, the history is pruned, the state is saved, and only
\* then are the started runs dispatched.
Commit(p, D, outcome, key, event) ==
    \E ids \in Injection(D, Fresh) :
       LET st      == Decided(Base(p), D, ids, outcome, key, now)
           started == {ids[j] : j \in {k \in D : outcome[k] = "started"}}
       IN /\ started # {} => now + LeaseTTL <= MaxTime   \* bound: every lease can expire
          /\ used' = used \cup Range(ids)
          /\ UNCHANGED <<up, now>>
          /\ \E final \in Finals(st, event) :
                \/ Saved(p, final) /\ Dispatch(p, started)
                \/ SaveFailed(p, final, BaseFile(p)) /\ NoDispatch(p, started)

\* An operation that finds nothing to decide about.
ReclaimOnly(p) == /\ Base(p) # mem[p] /\ Saved(p, Base(p))
                  /\ UNCHANGED <<up, exec, used, now>>

Due(st, t) == {j \in Jobs : st.jobs[j].present /\ st.jobs[j].next \in 0 .. t}

\* Scheduler.Tick: SelectDue, then RecordTickDuration, which saves the whole
\* state once more.  When nothing is due that second save is the only effect
\* besides the reclaim.
Tick(p) ==
    /\ p \in up
    /\ LET D == Due(Base(p), now) IN
       \/ /\ D # {}
          /\ \E blocked \in SUBSET {j \in D : Def[j].gated} :
                Commit(p, D, [j \in D |-> Outcome(Base(p), j, TRUE, blocked, now)], NoKey, FALSE)
       \/ /\ D = {}
          /\ Saved(p, Base(p)) \/ SaveFailed(p, Base(p), BaseFile(p))
          /\ UNCHANGED <<up, exec, used, now>>

\* Scheduler.RunNow; an unknown job only costs the reclaim.
RunNow(p, j) ==
    /\ p \in up
    /\ IF Base(p).jobs[j].present
       THEN \E blocked \in SUBSET {k \in {j} : Def[k].gated} :
               Commit(p, {j}, [k \in {j} |-> Outcome(Base(p), k, FALSE, blocked, now)], NoKey, FALSE)
       ELSE ReclaimOnly(p)

\* Scheduler.EmitEvent: every event job decides; a key it has an entry for is
\* a duplicate, which is skipped without a look at the job.
EmitEvent(p, key) ==
    /\ p \in up
    /\ LET D == {j \in Jobs : Base(p).jobs[j].present /\ Def[j].kind = "event"}
       IN IF D = {} THEN ReclaimOnly(p)
          ELSE \E blocked \in SUBSET {j \in D : Def[j].gated} :
                  Commit(p, D, [j \in D |-> IF Duplicate(Base(p), j, key)
                                            THEN "skipped_by_policy"
                                            ELSE Outcome(Base(p), j, FALSE, blocked, now)],
                         key, TRUE)

-----------------------------------------------------------------------------
\* The dispatch goroutine of a run

Executing(p) == {r \in Runs : exec[p][r] = "executing"}

\* Mutant: a run takes its slot when it is queued.
FreeWorkerOfAll(p) == Cardinality({r \in Runs : exec[p][r] # "none"}) < Workers

FreeWorker(p) == Cardinality(Executing(p)) < Workers

AcquireWorker(p, r) ==
    /\ exec[p][r] = "queued"
    /\ FreeWorker(p)
    /\ exec' = [exec EXCEPT ![p][r] = "executing"]
    /\ UNCHANGED <<mem, up, disk, used, now, faults>>

\* Mutants: a success takes back one failure; attempts count as repeats.
WonTakesBack(j, job) ==
    [job EXCEPT !.lease = Nil, !.successes = @ + 1, !.failures = @ - 1, !.status = "ready"]
LostCountsAttempts(j, job) ==
    [job EXCEPT !.lease = Nil, !.failures = @ + 1,
                !.status = IF Exhausted(j, job.successes + job.failures + 1)
                           THEN "completed" ELSE @]

\* The job of a run that succeeded, and of one that failed.  Both lose the
\* lease of the job, whichever of its runs that lease belongs to.
Won(j, job) ==
    LET exhausted == Exhausted(j, job.successes + 1) IN
    [job EXCEPT !.lease = Nil, !.successes = @ + 1, !.failures = 0,
                !.status = IF exhausted THEN "completed" ELSE "ready",
                !.next   = IF exhausted THEN Nil ELSE @]

Lost(j, job) ==
    LET dead == Def[j].deadAfter > 0 /\ job.failures + 1 >= Def[j].deadAfter IN
    [job EXCEPT !.lease = Nil, !.failures = @ + 1, !.dead = @ \/ dead,
                !.status = IF dead THEN "dead_lettered" ELSE @]

\* Mutant: any known run can be completed.
CompletableIfKnown(st, r) == st.runs[r].status # "absent"

\* Registry.CompleteRun accepts a run once.
Completable(st, r) == st.runs[r].status = "running"

Completed(st, r, ok, t) ==
    LET j == st.runs[r].job IN
    [st EXCEPT !.runs[r] = [@ EXCEPT !.status = IF ok THEN "succeeded" ELSE "failed", !.done = t],
               !.jobs[j] = IF ~@.present THEN @ ELSE IF ok THEN Won(j, @) ELSE Lost(j, @)]

\* completeRun, once the runner has returned or (in the queue) the context is
\* done.  A run that is no longer running is left alone.  The registry may
\* also refuse because completionTimeout has passed; the error is only logged.
CompleteRun(p, r, ok) ==
    /\ exec[p][r] = "executing" \/ (exec[p][r] = "queued" /\ ~ok)
    /\ exec' = [exec EXCEPT ![p][r] = "none"]
    /\ UNCHANGED <<up, used, now>>
    /\ IF Completable(mem[p], r)
       THEN \/ \E st \in Pruned(Completed(mem[p], r, ok, now)) : Persist(p, st)
            \/ /\ faults < MaxFaults /\ faults' = faults + 1
               /\ UNCHANGED <<mem, disk>>
       ELSE UNCHANGED <<mem, disk, faults>>

-----------------------------------------------------------------------------
\* Processes and time

\* Mutant: what is reclaimed on load is not saved.
StartUnsaved(p) ==
    /\ p \notin up
    /\ up' = up \cup {p}
    /\ mem' = [mem EXCEPT ![p] = Reclaimed(disk, now)]
    /\ UNCHANGED <<disk, exec, used, now, faults>>

\* NewRegistry: load the file, reclaim, save what was reclaimed.  A start that
\* fails in that save is a start followed by an exit, or no start at all.
Start(p) ==
    LET st == Reclaimed(disk, now) IN
    /\ p \notin up
    /\ up' = up \cup {p}
    /\ mem' = [mem EXCEPT ![p] = st]
    /\ disk' = st
    /\ UNCHANGED <<exec, used, now, faults>>

\* The process ends, by exit or by crash: memory and goroutines are gone.
Crash(p) ==
    /\ p \in up
    /\ up' = up \ {p}
    /\ mem' = [mem EXCEPT ![p] = EmptyState]
    /\ exec' = [exec EXCEPT ![p] = [r \in Runs |-> "none"]]
    /\ UNCHANGED <<disk, used, now, faults>>

Advance == /\ now < MaxTime
           /\ now' = now + 1
           /\ UNCHANGED <<mem, up, disk, exec, used, faults>>

-----------------------------------------------------------------------------
Init == /\ mem = [p \in Procs |-> EmptyState]
        /\ up = {}
        /\ disk = EmptyState
        /\ exec = [p \in Procs |-> [r \in Runs |-> "none"]]
        /\ used = {}
        /\ now = 0
        /\ faults = 0

Operate(p) == \/ \E j \in Jobs : \/ \E paused \in BOOLEAN : ImportDefinition(p, j, paused)
                                 \/ PauseJob(p, j) \/ ResumeJob(p, j)
                                 \/ RemoveJob(p, j) \/ RunNow(p, j)
              \/ \E key \in Keys \cup {NoKey} : EmitEvent(p, key)
              \/ Tick(p)
              \/ ReclaimSaveFails(p)

Next == \/ \E p \in Procs : \/ Start(p) \/ Crash(p)
                            \/ Operate(p)
                            \/ \E r \in Runs : \/ AcquireWorker(p, r)
                                               \/ \E ok \in BOOLEAN : CompleteRun(p, r, ok)
        \/ Advance

Spec == Init /\ [][Next]_vars

\* An external timer keeps invoking the tick, a process that is down is
\* started again, runners return (each has a timeout), and the channel of
\* worker slots is served in order.
Fairness == /\ WF_vars(Advance)
            /\ \A p \in Procs :
                  /\ WF_vars(Start(p)) /\ SF_vars(Tick(p))
                  /\ \A r \in Runs :
                        /\ SF_vars(AcquireWorker(p, r))
                        /\ WF_vars(exec[p][r] = "executing" /\ \E ok \in BOOLEAN : CompleteRun(p, r, ok))

FairSpec == Spec /\ Fairness

-----------------------------------------------------------------------------
\* Properties

\* Type correctness of the registry, the state file and the goroutines.
TypeOK == /\ mem \in [Procs -> State]
          /\ up \subseteq Procs
          /\ disk \in State
          /\ exec \in [Procs -> [Runs -> {"none", "queued", "executing"}]]
          /\ used \subseteq Runs
          /\ now \in 0 .. MaxTime
          /\ faults \in 0 .. MaxFaults

\* The copies of the state anyone can go on from.
Copies == {mem[p] : p \in up} \cup {disk}

\* A job's lease is the lease of one of its running runs: whatever becomes of
\* the run, no lease survives it and blocks the job (Job.Lease against
\* Run.Lease over complete, reclaim, import, remove, crash and failed saves).
LeaseBacked ==
    \A st \in Copies, j \in Jobs :
       st.jobs[j].lease # Nil =>
          \E r \in RunsWith(st, {"running"}) :
             st.runs[r].job = j /\ st.runs[r].expiry = st.jobs[j].lease

\* No registry ever holds more unexpired leases for a job than its
\* MaxConcurrency, not even when a re-import drops the lease of the job.
ConcurrencyBound ==
    \A st \in Copies, j \in Jobs : Cardinality(RunningRuns(st, j, now)) <= Def[j].maxConc

\* plan.md 8.3.2: a job is never marked completed unless its repeat count is
\* exhausted, however completions, imports and resumes are interleaved.
CompletedOnlyWhenExhausted ==
    \A st \in Copies, j \in Jobs :
       st.jobs[j].status = "completed" =>
          Exhausted(j, st.jobs[j].successes)

\* A dedupe entry stands for a run that was started for that job and key,
\* never for a skip: an event that was skipped is not taken for handled.
DedupeFaithful ==
    \A st \in Copies, j \in Jobs, k \in Keys :
       LET r == st.dedupe[<<j, k>>] IN
       r # NoRun /\ st.runs[r].status # "absent" =>
          st.runs[r].job = j /\ st.runs[r].key = k /\ st.runs[r].status # "skipped"

\* While no save has failed, memory and the state file agree after every
\* operation of the one process there is: no operation forgets to persist.
WriteThrough == faults = 0 => \A p \in up : mem[p] = disk

\* plan.md 8.3.2: a run has a durable record before its execution begins, and
\* keeps it while it is running (Commit saves before it dispatches), also
\* when saves fail.
DurableWhileExecuting ==
    \A p \in up, r \in Runs :
       exec[p][r] # "none" /\ mem[p].runs[r].status = "running" => disk.runs[r].status = "running"

\* No job runs more often than it may, and a key that counts as handled was handled
\* (Registry.leaseJobLocked, TriggerEvent).
Bounded == ConcurrencyBound /\ DedupeFaithful

\* A job is completed only when its repeats are used up, and memory and file agree about it
\* and about every run that executes unless a save has failed (Registry.saveLocked).
FileFollows == CompletedOnlyWhenExhausted /\ WriteThrough /\ DurableWhileExecuting

\* A process never changes the outcome of a run: a completion that comes after
\* the lease was reclaimed, or twice, changes nothing.
OutcomeIsFinal ==
    [][\A p \in up \cap up', r \in Runs :
          mem[p].runs[r].status \in Terminal =>
             mem'[p].runs[r].status \in {mem[p].runs[r].status, "absent"}]_vars

\* Once DeadLetterAfter consecutive failures are counted the job is
\* dead-lettered, and until it is removed it neither leaves that state nor
\* starts a run, re-imports and late successes included.
DeadLetterHolds ==
    [][\A p \in up \cap up', j \in Jobs :
          LET job == mem[p].jobs[j]  job2 == mem'[p].jobs[j] IN
          /\ Def[j].deadAfter > 0 /\ job2.failures >= Def[j].deadAfter => job2.dead
          /\ job.dead /\ job2.present =>
                /\ job2.dead
                /\ \A r \in Runs \ used : mem'[p].runs[r].status = "running" =>
                                              mem'[p].runs[r].job # j]_vars

\* An event key starts a job at most once per dedupe entry: the entry is
\* written with the start and blocks every later start until it is evicted
\* by the retention or the job is removed.
EventStartsOnce ==
    [][\A p \in up \cap up', r \in Runs \ used :
          LET run == mem'[p].runs[r] IN
          run.status = "running" /\ run.key # NoKey =>
             /\ mem[p].dedupe[<<run.job, run.key>>] = NoRun
             /\ \/ mem'[p].dedupe[<<run.job, run.key>>] = r
                \/ Cardinality({jk \in Jobs \X Keys : mem'[p].dedupe[jk] # NoRun})
                       >= DedupeRetention]_vars

\* No run stays running forever, whatever crashed: its lease runs out and a
\* later tick, of this process or of the next one, writes it off.
RunEnds == \A r \in Runs : disk.runs[r].status = "running" ~> disk.runs[r].status # "running"

\* plan.md 8.3.2: one long run cannot block unrelated due jobs: a dispatched
\* run gets a worker or is given up.
DispatchProgress ==
    \A p \in Procs, r \in Runs : exec[p][r] = "queued" ~> exec[p][r] # "queued"
=============================================================================
