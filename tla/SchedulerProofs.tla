-------------------------- MODULE SchedulerProofs --------------------------
(***************************************************************************)
(* Proofs about Scheduler, for every number of processes, jobs and runs.   *)
(***************************************************************************)
EXTENDS Scheduler, FiniteSetTheorems, TLAPS

-----------------------------------------------------------------------------
\* Types of the pieces

\* The constant parts of the state are typed.
LEMMA ConstantTypes ==
    /\ AbsentJob \in Job /\ AbsentRun \in Run /\ EmptyState \in State
    /\ Nil \in Times /\ \A t \in 0 .. MaxTime : t \in Times /\ t + LeaseTTL \in Times
    /\ \A t \in 0 .. MaxTime, j \in Jobs : NextAfter(j, t) \in Times
<1>1. Nil \in Times /\ \A t \in 0 .. MaxTime : t \in Times /\ t + LeaseTTL \in Times /\ t + Period \in Times
  BY SchedulerAssumption DEF Nil, Times
<1>2. (CHOOSE j \in Jobs : TRUE) \in Jobs
  BY SchedulerAssumption
<1>3. AbsentJob \in Job
  BY <1>1 DEF AbsentJob, Job, JobStatus
<1>4. AbsentRun \in Run
  BY <1>1, <1>2 DEF AbsentRun, Run, RunStatus
<1>5. EmptyState \in State
  BY <1>3, <1>4 DEF EmptyState, State
<1> QED
  BY <1>1, <1>3, <1>4, <1>5 DEF NextAfter

\* Reclaiming leases keeps a state well typed.
LEMMA ReclaimedType ==
    ASSUME NEW st \in State, NEW t \in 0 .. MaxTime
    PROVE  Reclaimed(st, t) \in State
<1>1. t \in Times /\ Nil \in Times
  BY ConstantTypes
<1>2. \A run \in Run : [run EXCEPT !.status = "interrupted", !.done = t] \in Run
  BY <1>1 DEF Run, RunStatus, Terminal
<1>3. \A job \in Job : [job EXCEPT !.lease = Nil] \in Job
  BY <1>1 DEF Job
<1> QED
  BY <1>2, <1>3 DEF Reclaimed, State

\* Pruning keeps a state well typed.
LEMMA PrunedType ==
    ASSUME NEW st \in State, NEW event \in BOOLEAN, NEW final \in Finals(st, event)
    PROVE  final \in State
<1>1. ASSUME NEW s \in State, NEW f \in Pruned(s) PROVE f \in State
  <2>1. PICK X : f = [s EXCEPT !.runs = [r \in Runs |-> IF r \in X THEN AbsentRun ELSE @[r]]]
    BY DEF Pruned
  <2> QED
    BY <2>1, ConstantTypes DEF State
<1>2. ASSUME NEW s \in DedupePruned(st) PROVE s \in State
  <2>1. PICK X : s = [st EXCEPT !.dedupe = [jk \in Jobs \X Keys |->
                                               IF jk \in X THEN NoRun ELSE @[jk]]]
    BY DEF DedupePruned
  <2> QED
    BY <2>1 DEF State
<1> QED
  BY <1>1, <1>2 DEF Finals

\* Recording decisions keeps a state well typed.
LEMMA DecidedType ==
    ASSUME NEW st \in State, NEW D \in SUBSET Jobs, NEW ids \in [D -> Runs], NEW outcome,
           NEW key \in Keys \cup {NoKey}, NEW t \in 0 .. MaxTime
    PROVE  Decided(st, D, ids, outcome, key, t) \in State
<1>1. \A j \in Jobs : Resolved(st, j, outcome[j], t) \in Job
  <2> SUFFICES ASSUME NEW j \in Jobs PROVE Resolved(st, j, outcome[j], t) \in Job
    OBVIOUS
  <2>1. st.jobs[j] \in Job /\ NextAfter(j, t) \in Times /\ t + LeaseTTL \in Times
    BY ConstantTypes DEF State
  <2>2. \A job \in Job : /\ [job EXCEPT !.lease = t + LeaseTTL, !.status = "ready",
                                         !.next = NextAfter(j, t)] \in Job
                          /\ [job EXCEPT !.next = NextAfter(j, t)] \in Job
    BY <2>1 DEF Job, JobStatus
  <2> QED
    BY <2>1, <2>2 DEF Resolved
<1>2. \A j \in Jobs : RunOf(j, key, outcome[j], t) \in Run
  BY ConstantTypes DEF RunOf, Run, RunStatus, Terminal
<1>3. \A r \in Runs : (\E j \in D : ids[j] = r) => (CHOOSE k \in D : ids[k] = r) \in Jobs
  OBVIOUS
<1>4. \A jk \in Jobs \X Keys : jk[1] \in D => ids[jk[1]] \in Runs
  OBVIOUS
<1> QED
  BY <1>1, <1>2, <1>3, <1>4 DEF Decided, State

-----------------------------------------------------------------------------
\* Types of the steps

\* The state an operation starts from, and the file it leaves.
LEMMA BaseType ==
    ASSUME TypeOK, NEW p \in Procs
    PROVE  Base(p) \in State /\ BaseFile(p) \in State
BY ReclaimedType DEF TypeOK, Base, BaseFile

\* An outcome of a save leaves memory and file well typed.
LEMMA SaveType ==
    ASSUME TypeOK, NEW p \in Procs, NEW st \in State, NEW f \in State,
           Saved(p, st) \/ SaveFailed(p, st, f)
    PROVE  /\ mem' \in [Procs -> State] /\ disk' \in State /\ faults' \in 0 .. MaxFaults
<1>1. CASE Saved(p, st)
  BY <1>1 DEF Saved, TypeOK
<1>2. CASE SaveFailed(p, st, f)
  BY <1>2, SchedulerAssumption DEF SaveFailed, TypeOK
<1> QED
  BY <1>1, <1>2

\* The same for operations that only touch the state.
LEMMA PersistType ==
    ASSUME TypeOK, NEW p \in Procs, NEW st \in State, Persist(p, st),
           UNCHANGED <<up, exec, used, now>>
    PROVE  TypeOK'
BY SaveType DEF Persist, TypeOK

\* Deciding, saving and dispatching.
LEMMA CommitType ==
    ASSUME TypeOK, NEW p \in Procs, NEW D \in SUBSET Jobs, NEW outcome,
           NEW key \in Keys \cup {NoKey}, NEW event \in BOOLEAN, Commit(p, D, outcome, key, event)
    PROVE  TypeOK'
<1>1. PICK ids \in Injection(D, Fresh) :
         LET st      == Decided(Base(p), D, ids, outcome, key, now)
             started == {ids[j] : j \in {k \in D : outcome[k] = "started"}}
         IN /\ used' = used \cup Range(ids)
            /\ UNCHANGED <<up, now>>
            /\ \E final \in Finals(st, event) :
                  \/ Saved(p, final) /\ Dispatch(p, started)
                  \/ SaveFailed(p, final, BaseFile(p)) /\ NoDispatch(p, started)
  BY DEF Commit
<1> DEFINE st      == Decided(Base(p), D, ids, outcome, key, now)
           started == {ids[j] : j \in {k \in D : outcome[k] = "started"}}
<1>2. ids \in [D -> Runs] /\ Range(ids) \subseteq Runs
  BY DEF Injection, Fresh, Range
<1>3. st \in State
  BY <1>2, BaseType, DecidedType DEF TypeOK
<1>4. PICK final \in Finals(st, event) :
         \/ Saved(p, final) /\ Dispatch(p, started)
         \/ SaveFailed(p, final, BaseFile(p)) /\ NoDispatch(p, started)
  BY <1>1
<1>5. final \in State
  BY <1>3, <1>4, PrunedType
<1>6. mem' \in [Procs -> State] /\ disk' \in State /\ faults' \in 0 .. MaxFaults
  BY <1>4, <1>5, BaseType, SaveType
<1>7. exec' \in [Procs -> [Runs -> {"none", "queued", "executing"}]]
  BY <1>4 DEF Dispatch, NoDispatch, TypeOK
<1>8. used' \subseteq Runs /\ up' = up /\ now' = now
  BY <1>1, <1>2 DEF TypeOK
<1> QED
  BY <1>6, <1>7, <1>8 DEF TypeOK

\* Completing a run.
LEMMA CompletedType ==
    ASSUME NEW st \in State, NEW r \in Runs, NEW ok \in BOOLEAN, NEW t \in 0 .. MaxTime
    PROVE  Completed(st, r, ok, t) \in State
<1> DEFINE j == st.runs[r].job
<1>1. st.runs[r] \in Run /\ j \in Jobs /\ st.jobs[j] \in Job /\ t \in Times /\ Nil \in Times
  BY ConstantTypes DEF State, Run
<1>2. \A job \in Job : Won(j, job) \in Job
  <2> SUFFICES ASSUME NEW job \in Job PROVE Won(j, job) \in Job
    OBVIOUS
  <2> DEFINE status == IF Exhausted(j, job.successes + 1) THEN "completed" ELSE "ready"
             next   == IF Exhausted(j, job.successes + 1) THEN Nil ELSE job.next
  <2>1. job.successes + 1 \in Nat /\ status \in JobStatus /\ next \in Times
    BY <1>1 DEF Job, JobStatus
  <2> HIDE DEF status, next
  <2>2. [job EXCEPT !.lease = Nil, !.successes = @ + 1, !.failures = 0,
                    !.status = status, !.next = next] \in Job
    BY <1>1, <2>1 DEF Job
  <2> QED
    BY <2>2 DEF Won, status, next
<1>3. \A job \in Job : Lost(j, job) \in Job
  <2> SUFFICES ASSUME NEW job \in Job PROVE Lost(j, job) \in Job
    OBVIOUS
  <2> DEFINE dead   == Def[j].deadAfter > 0 /\ job.failures + 1 >= Def[j].deadAfter
             gone   == job.dead \/ dead
             status == IF dead THEN "dead_lettered" ELSE job.status
  <2>1. job.failures + 1 \in Nat /\ status \in JobStatus /\ gone \in BOOLEAN
    BY DEF Job, JobStatus
  <2> HIDE DEF dead, gone, status
  <2>2. [job EXCEPT !.lease = Nil, !.failures = @ + 1, !.dead = gone, !.status = status] \in Job
    BY <1>1, <2>1 DEF Job
  <2> QED
    BY <2>2 DEF Lost, dead, gone, status
<1>4. \A run \in Run : [run EXCEPT !.status = IF ok THEN "succeeded" ELSE "failed", !.done = t] \in Run
  BY <1>1 DEF Run, RunStatus, Terminal
<1> QED
  BY <1>1, <1>2, <1>3, <1>4 DEF Completed, State

-----------------------------------------------------------------------------
\* Every step keeps the types.
LEMMA TypeStep == TypeOK /\ [Next]_vars => TypeOK'
<1> SUFFICES ASSUME TypeOK, [Next]_vars PROVE TypeOK'
  OBVIOUS
<1>1. ASSUME NEW p \in Procs, Start(p) PROVE TypeOK'
  <2>1. Reclaimed(disk, now) \in State
    BY ReclaimedType DEF TypeOK
  <2> QED
    BY <1>1, <2>1 DEF Start, TypeOK
<1>2. ASSUME NEW p \in Procs, Crash(p) PROVE TypeOK'
  BY <1>2, ConstantTypes DEF Crash, TypeOK
<1>3. ASSUME NEW p \in Procs, NEW j \in Jobs, NEW paused \in BOOLEAN, ImportDefinition(p, j, paused)
      PROVE  TypeOK'
  <2>1. mem[p] \in State /\ mem[p].jobs[j] \in Job /\ now \in 0 .. MaxTime
    BY DEF TypeOK, State
  <2>2. Imported(j, mem[p].jobs[j], paused, now) \in Job
    BY <2>1, ConstantTypes DEF Imported, Job, JobStatus
  <2>3. [mem[p] EXCEPT !.jobs[j] = Imported(j, @, paused, now)] \in State
    BY <2>1, <2>2 DEF State
  <2> QED
    BY <1>3, <2>3, PersistType DEF ImportDefinition
<1>4. ASSUME NEW p \in Procs, NEW j \in Jobs, PauseJob(p, j) PROVE TypeOK'
  <2> DEFINE job == [mem[p].jobs[j] EXCEPT !.paused = TRUE,
                        !.status = IF @ \in {"dead_lettered", "completed"} THEN @ ELSE "paused"]
  <2>1. mem[p] \in State /\ mem[p].jobs[j] \in Job
    BY DEF TypeOK, State
  <2>2. job \in Job
    BY <2>1 DEF Job, JobStatus
  <2>3. [mem[p] EXCEPT !.jobs[j] = job] \in State
    BY <2>1, <2>2 DEF State
  <2> QED
    BY <1>4, <2>3, PersistType DEF PauseJob
<1>5. ASSUME NEW p \in Procs, NEW j \in Jobs, ResumeJob(p, j) PROVE TypeOK'
  <2> DEFINE old    == mem[p].jobs[j]
             status == IF old.dead THEN "dead_lettered"
                       ELSE IF old.status = "completed" THEN "completed" ELSE "ready"
             job    == [old EXCEPT !.paused = FALSE, !.status = status,
                           !.next = IF status = "ready" /\ @ = Nil THEN NextAfter(j, now) ELSE @]
  <2>1. mem[p] \in State /\ old \in Job /\ now \in 0 .. MaxTime
    BY DEF TypeOK, State
  <2>2. job \in Job
    BY <2>1, ConstantTypes DEF Job, JobStatus
  <2>3. [mem[p] EXCEPT !.jobs[j] = job] \in State
    BY <2>1, <2>2 DEF State
  <2> QED
    BY <1>5, <2>3, PersistType DEF ResumeJob
<1>6. ASSUME NEW p \in Procs, NEW j \in Jobs, RemoveJob(p, j) PROVE TypeOK'
  <2>1. mem[p] \in State
    BY DEF TypeOK
  <2>2. [mem[p] EXCEPT !.jobs[j] = AbsentJob,
                       !.dedupe = [jk \in Jobs \X Keys |->
                                      IF jk[1] = j THEN NoRun ELSE @[jk]]] \in State
    BY <2>1, ConstantTypes DEF State
  <2> QED
    BY <1>6, <2>2, PersistType DEF RemoveJob
<1>7. ASSUME NEW p \in Procs, ReclaimOnly(p) PROVE TypeOK'
  BY <1>7, BaseType, SaveType DEF ReclaimOnly, TypeOK
<1>8. ASSUME NEW p \in Procs, NEW j \in Jobs, RunNow(p, j) PROVE TypeOK'
  BY <1>7, <1>8, CommitType DEF RunNow
<1>9. ASSUME NEW p \in Procs, NEW key \in Keys \cup {NoKey}, EmitEvent(p, key) PROVE TypeOK'
  BY <1>7, <1>9, CommitType DEF EmitEvent
<1>10. ASSUME NEW p \in Procs, Tick(p) PROVE TypeOK'
  <2>1. CASE Due(Base(p), now) = {}
    BY <1>10, <2>1, BaseType, SaveType DEF Tick, TypeOK
  <2>2. CASE Due(Base(p), now) # {}
    BY <1>10, <2>2, CommitType DEF Tick, Due
  <2> QED
    BY <2>1, <2>2
<1>11. ASSUME NEW p \in Procs, ReclaimSaveFails(p) PROVE TypeOK'
  BY <1>11, BaseType, SaveType DEF ReclaimSaveFails, TypeOK
<1>12. ASSUME NEW p \in Procs, NEW r \in Runs, AcquireWorker(p, r) PROVE TypeOK'
  BY <1>12 DEF AcquireWorker, TypeOK
<1>13. ASSUME NEW p \in Procs, NEW r \in Runs, NEW ok \in BOOLEAN, CompleteRun(p, r, ok)
       PROVE  TypeOK'
  <2>1. exec' \in [Procs -> [Runs -> {"none", "queued", "executing"}]]
    BY <1>13 DEF CompleteRun, TypeOK
  <2>2. ASSUME NEW st \in Pruned(Completed(mem[p], r, ok, now)) PROVE st \in State
    <3>1. st \in Finals(Completed(mem[p], r, ok, now), FALSE)
      BY DEF Finals
    <3> QED
      BY <3>1, CompletedType, PrunedType DEF TypeOK
  <2>3. mem' \in [Procs -> State] /\ disk' \in State /\ faults' \in 0 .. MaxFaults
    <3>1. CASE \E st \in Pruned(Completed(mem[p], r, ok, now)) : Persist(p, st)
      BY <3>1, <2>2, SaveType DEF Persist, TypeOK
    <3>2. CASE UNCHANGED <<mem, disk>> /\ faults < MaxFaults /\ faults' = faults + 1
      BY <3>2, SchedulerAssumption DEF TypeOK
    <3>3. CASE UNCHANGED <<mem, disk, faults>>
      BY <3>3 DEF TypeOK
    <3> QED
      BY <1>13, <3>1, <3>2, <3>3 DEF CompleteRun
  <2> QED
    BY <1>13, <2>1, <2>3 DEF CompleteRun, TypeOK
<1>14. CASE Advance
  BY <1>14, SchedulerAssumption DEF Advance, TypeOK
<1>15. CASE UNCHANGED vars
  BY <1>15 DEF vars, TypeOK
<1> QED
  BY <1>1, <1>2, <1>3, <1>4, <1>5, <1>6, <1>8, <1>9, <1>10, <1>11, <1>12, <1>13, <1>14, <1>15
     DEF Next, Operate

\* Every registry, state file and goroutine is always well typed.
THEOREM TypeCorrect == Spec => []TypeOK
<1>1. Init => TypeOK
  BY ConstantTypes, SchedulerAssumption DEF Init, TypeOK
<1>2. TypeOK /\ [Next]_vars => TypeOK'
  BY TypeStep
<1> QED
  BY <1>1, <1>2, PTL DEF Spec

-----------------------------------------------------------------------------
\* LeaseBacked.  It is inductive together with two facts: a job that is not
\* there has no lease, and the identifiers not yet handed out belong to no run
\* in any copy of the state, so that a new run never overwrites the run that
\* backs another lease.

Backed(st) ==
    \A j \in Jobs : st.jobs[j].lease # Nil =>
       /\ st.jobs[j].present
       /\ \E r \in Runs : /\ st.runs[r].status = "running" /\ st.runs[r].job = j
                          /\ st.runs[r].expiry = st.jobs[j].lease

Unused(st, ids) == \A r \in ids : st.runs[r].status = "absent"

Sound(st, ids) == st \in State /\ Backed(st) /\ Unused(st, ids)

IInv == /\ TypeOK
        /\ Sound(disk, Runs \ used)
        /\ \A p \in Procs : Sound(mem[p], Runs \ used)

\* A lease that is left by the reclaim belongs to a run that is left running.
LEMMA ReclaimedSound ==
    ASSUME NEW st \in State, NEW t \in 0 .. MaxTime, NEW ids \in SUBSET Runs, Sound(st, ids)
    PROVE  Sound(Reclaimed(st, t), ids)
<1>1. Reclaimed(st, t) \in State
  BY ReclaimedType
<1>2. \A r \in Runs : r \notin Expired(st, t) => Reclaimed(st, t).runs[r] = st.runs[r]
  BY DEF Reclaimed, State
<1>3. Unused(Reclaimed(st, t), ids)
  BY <1>2 DEF Sound, Unused, Expired, RunsWith
<1>4. Backed(Reclaimed(st, t))
  <2> SUFFICES ASSUME NEW j \in Jobs, Reclaimed(st, t).jobs[j].lease # Nil
               PROVE  /\ Reclaimed(st, t).jobs[j].present
                      /\ \E r \in Runs : /\ Reclaimed(st, t).runs[r].status = "running"
                                         /\ Reclaimed(st, t).runs[r].job = j
                                         /\ Reclaimed(st, t).runs[r].expiry
                                               = Reclaimed(st, t).jobs[j].lease
    BY DEF Backed
  <2>1. st.jobs[j] \in Job
    BY DEF State
  <2>2. ~ \E r \in Expired(st, t) : st.runs[r].job = j
    BY <2>1 DEF Reclaimed, State, Job
  <2>3. Reclaimed(st, t).jobs[j] = st.jobs[j]
    BY <2>2 DEF Reclaimed, State
  <2> QED
    BY <1>2, <2>2, <2>3 DEF Sound, Backed
<1> QED
  BY <1>1, <1>3, <1>4 DEF Sound

\* Pruning drops no running run.
LEMMA PrunedSound ==
    ASSUME NEW st \in State, NEW event \in BOOLEAN, NEW final \in Finals(st, event),
           NEW ids \in SUBSET Runs, Sound(st, ids)
    PROVE  Sound(final, ids)
<1>1. PICK s \in (IF event THEN DedupePruned(st) ELSE {st}) : final \in Pruned(s)
  BY DEF Finals
<1>2. s \in State /\ s.jobs = st.jobs /\ s.runs = st.runs
  <2>1. CASE event
    <3>1. PICK X : s = [st EXCEPT !.dedupe = [jk \in Jobs \X Keys |->
                                                 IF jk \in X THEN NoRun ELSE @[jk]]]
      BY <1>1, <2>1 DEF DedupePruned
    <3> QED
      BY <3>1 DEF State
  <2>2. CASE ~event
    BY <1>1, <2>2
  <2> QED
    BY <2>1, <2>2
<1>3. PICK X \in SUBSET RunsWith(s, Terminal) :
         final = [s EXCEPT !.runs = [r \in Runs |-> IF r \in X THEN AbsentRun ELSE @[r]]]
  BY <1>1 DEF Pruned
<1>4. final.jobs = st.jobs
      /\ \A r \in Runs : final.runs[r] = IF r \in X THEN AbsentRun ELSE st.runs[r]
  BY <1>2, <1>3 DEF State
<1>5. \A r \in Runs : st.runs[r].status = "running" => final.runs[r] = st.runs[r]
  BY <1>2, <1>3, <1>4 DEF RunsWith, Terminal
<1>6. Unused(final, ids)
  <2>1. AbsentRun.status = "absent"
    BY DEF AbsentRun
  <2> QED
    BY <1>4, <2>1 DEF Sound, Unused
<1>7. Backed(final)
  BY <1>4, <1>5 DEF Sound, Backed
<1> QED
  BY <1>6, <1>7, PrunedType DEF Sound

\* The decisions back every new lease with the run they start, and overwrite
\* no run.
LEMMA DecidedSound ==
    ASSUME NEW st \in State, NEW D \in SUBSET Jobs, NEW fresh \in SUBSET Runs,
           NEW ids \in Injection(D, fresh), NEW outcome, NEW key \in Keys \cup {NoKey},
           NEW t \in 0 .. MaxTime, Sound(st, fresh), \A j \in D : st.jobs[j].present
    PROVE  Sound(Decided(st, D, ids, outcome, key, t), fresh \ Range(ids))
<1> DEFINE new == Decided(st, D, ids, outcome, key, t)
<1>1. ids \in [D -> fresh] /\ (\A j, k \in D : ids[j] = ids[k] => j = k)
      /\ \A j \in D : ids[j] \in Range(ids)
  BY DEF Injection, IsInjective, Range
<1>2. new \in State
  BY <1>1, DecidedType
<1>3. \A r \in Runs : (~ \E j \in D : ids[j] = r) => new.runs[r] = st.runs[r]
  BY DEF Decided
<1>4. \A j \in D : new.runs[ids[j]] = RunOf(j, key, outcome[j], t)
  BY <1>1 DEF Decided
<1>5. \A j \in Jobs : new.jobs[j] = IF j \in D THEN Resolved(st, j, outcome[j], t) ELSE st.jobs[j]
  BY DEF Decided
<1>6. Unused(new, fresh \ Range(ids))
  BY <1>1, <1>3 DEF Sound, Unused
<1>7. \A r \in Runs : st.runs[r].status = "running" => new.runs[r] = st.runs[r]
  BY <1>1, <1>3 DEF Sound, Unused
<1>8. ASSUME NEW j \in Jobs, new.jobs[j].lease # Nil
      PROVE  /\ new.jobs[j].present
             /\ \E r \in Runs : /\ new.runs[r].status = "running" /\ new.runs[r].job = j
                                /\ new.runs[r].expiry = new.jobs[j].lease
  <2>1. CASE j \in D /\ outcome[j] = "started"
    <3>1. new.jobs[j].lease = t + LeaseTTL /\ new.jobs[j].present
      <4>1. new.jobs[j] = [st.jobs[j] EXCEPT !.lease = t + LeaseTTL, !.status = "ready",
                                             !.next = NextAfter(j, t)]
        BY <1>5, <2>1 DEF Resolved
      <4>2. st.jobs[j] \in Job /\ st.jobs[j].present
        BY <2>1 DEF State
      <4> HIDE DEF new
      <4> QED
        BY <4>1, <4>2 DEF Job
    <3>2. new.runs[ids[j]].status = "running" /\ new.runs[ids[j]].job = j
          /\ new.runs[ids[j]].expiry = t + LeaseTTL
      <4>1. new.runs[ids[j]] = [status |-> "running", job |-> j, key |-> key,
                                expiry |-> t + LeaseTTL, done |-> Nil]
        BY <1>4, <2>1 DEF RunOf
      <4> HIDE DEF new
      <4> QED
        BY <4>1
    <3> QED
      BY <1>1, <2>1, <3>1, <3>2
  <2>2. CASE j \in D /\ outcome[j] # "started"
    <3>1. new.jobs[j].lease = st.jobs[j].lease /\ new.jobs[j].present
      BY <1>5, <2>2 DEF Resolved, State, Job
    <3> QED
      BY <1>7, <1>8, <3>1 DEF Sound, Backed
  <2>3. CASE j \notin D
    BY <1>5, <1>7, <1>8, <2>3 DEF Sound, Backed
  <2> QED
    BY <2>1, <2>2, <2>3
<1> QED
  BY <1>2, <1>6, <1>8 DEF Sound, Backed

\* A completion frees its job whatever run holds the job's lease.
LEMMA CompletedSound ==
    ASSUME NEW st \in State, NEW r \in Runs, NEW ok \in BOOLEAN, NEW t \in 0 .. MaxTime,
           NEW ids \in SUBSET Runs, Sound(st, ids), Completable(st, r)
    PROVE  Sound(Completed(st, r, ok, t), ids)
<1> DEFINE new == Completed(st, r, ok, t)
           j == st.runs[r].job
<1>1. new \in State
  BY CompletedType
<1>2. j \in Jobs /\ st.jobs[j] \in Job
  BY DEF State, Run
<1>3. (\A s \in Runs : s # r => new.runs[s] = st.runs[s])
      /\ (\A k \in Jobs : k # j => new.jobs[k] = st.jobs[k])
  BY <1>2 DEF Completed, State
<1>4. new.jobs[j].lease = Nil
  <2>1. CASE st.jobs[j].present
    <3>1. new.jobs[j] = IF ok THEN Won(j, st.jobs[j]) ELSE Lost(j, st.jobs[j])
      BY <1>2, <2>1 DEF Completed, State
    <3> QED
      BY <1>2, <3>1 DEF Won, Lost, Job
  <2>2. CASE ~st.jobs[j].present
    <3>1. new.jobs[j] = st.jobs[j]
      BY <1>2, <2>2 DEF Completed, State
    <3> QED
      BY <1>2, <2>2, <3>1 DEF Sound, Backed
  <2> QED
    BY <2>1, <2>2
<1>5. Unused(new, ids)
  BY <1>3 DEF Sound, Unused, Completable
<1>6. Backed(new)
  BY <1>2, <1>3, <1>4 DEF Sound, Backed
<1> QED
  BY <1>1, <1>5, <1>6 DEF Sound

\* Fewer unused identifiers are unused.
LEMMA SoundFewer ==
    ASSUME NEW st, NEW ids, NEW fewer \in SUBSET ids, Sound(st, ids)
    PROVE  Sound(st, fewer)
BY DEF Sound, Unused

\* The state an operation starts from, and the file it leaves.
LEMMA BaseSound ==
    ASSUME IInv, NEW p \in Procs
    PROVE  Sound(Base(p), Runs \ used) /\ Sound(BaseFile(p), Runs \ used)
<1>1. /\ mem[p] \in State /\ now \in 0 .. MaxTime /\ Runs \ used \in SUBSET Runs
      /\ Sound(mem[p], Runs \ used) /\ Sound(disk, Runs \ used)
  BY DEF IInv, TypeOK
<1>2. Sound(Base(p), Runs \ used)
  BY <1>1, ReclaimedSound DEF Base
<1> QED
  BY <1>1, <1>2 DEF BaseFile

\* A save, whatever its outcome, leaves memory and file sound.
LEMMA SaveSound ==
    ASSUME IInv, TypeOK', used \subseteq used', NEW p \in Procs, NEW st, NEW f,
           Sound(st, Runs \ used'), Sound(f, Runs \ used), Saved(p, st) \/ SaveFailed(p, st, f)
    PROVE  IInv'
<1>1. Runs \ used' \in SUBSET (Runs \ used)
  OBVIOUS
<1>2. Sound(f, Runs \ used') /\ \A q \in Procs : Sound(mem[q], Runs \ used')
  BY <1>1, SoundFewer DEF IInv
<1>3. Sound(disk', Runs \ used')
  BY <1>2 DEF Saved, SaveFailed
<1>4. \A q \in Procs : Sound(mem'[q], Runs \ used')
  BY <1>2 DEF Saved, SaveFailed, IInv, TypeOK
<1> QED
  BY <1>3, <1>4 DEF IInv

\* The same for operations on definitions.
LEMMA PersistSound ==
    ASSUME IInv, NEW p \in Procs, NEW st, Sound(st, Runs \ used), Persist(p, st),
           UNCHANGED <<up, exec, used, now>>
    PROVE  IInv'
<1>1. st \in State /\ TypeOK
  BY DEF Sound, IInv
<1>2. TypeOK'
  BY <1>1, PersistType
<1>3. Sound(disk, Runs \ used) /\ used' = used
  BY DEF IInv
<1> QED
  BY <1>2, <1>3, SaveSound DEF Persist

\* Deciding, saving and dispatching.
LEMMA CommitSound ==
    ASSUME IInv, NEW p \in Procs, NEW D \in SUBSET Jobs, \A j \in D : Base(p).jobs[j].present,
           NEW outcome, NEW key \in Keys \cup {NoKey}, NEW event \in BOOLEAN,
           Commit(p, D, outcome, key, event)
    PROVE  IInv'
<1>1. PICK ids \in Injection(D, Fresh) :
         LET st      == Decided(Base(p), D, ids, outcome, key, now)
             started == {ids[j] : j \in {k \in D : outcome[k] = "started"}}
         IN /\ used' = used \cup Range(ids)
            /\ \E final \in Finals(st, event) :
                  \/ Saved(p, final) /\ Dispatch(p, started)
                  \/ SaveFailed(p, final, BaseFile(p)) /\ NoDispatch(p, started)
  BY DEF Commit
<1> DEFINE st == Decided(Base(p), D, ids, outcome, key, now)
<1>2. PICK final \in Finals(st, event) : Saved(p, final) \/ SaveFailed(p, final, BaseFile(p))
  BY <1>1
<1>3. TypeOK /\ now \in 0 .. MaxTime /\ Fresh = Runs \ used
  BY DEF IInv, TypeOK, Fresh
<1>4. Base(p) \in State /\ Sound(Base(p), Fresh)
  BY <1>3, BaseSound DEF Sound
<1>5. Sound(st, Fresh \ Range(ids))
  BY <1>3, <1>4, DecidedSound DEF Fresh
<1>6. Fresh \ Range(ids) = Runs \ used'
  BY <1>1, <1>3
<1>7. st \in State /\ Sound(st, Runs \ used')
  BY <1>5, <1>6 DEF Sound
<1> HIDE DEF st
<1>8. Sound(final, Runs \ used')
  BY <1>2, <1>7, PrunedSound
<1>9. TypeOK'
  BY <1>3, CommitType
<1> QED
  BY <1>1, <1>2, <1>8, <1>9, BaseSound, SaveSound

\* A change to one job that leaves its lease alone, or gives it up.
LEMMA JobSound ==
    ASSUME NEW st \in State, NEW ids \in SUBSET Runs, Sound(st, ids), NEW j \in Jobs, NEW job \in Job,
           \/ job.lease = Nil
           \/ job.lease = st.jobs[j].lease /\ job.present = st.jobs[j].present
    PROVE  Sound([st EXCEPT !.jobs[j] = job], ids)
<1> DEFINE new == [st EXCEPT !.jobs[j] = job]
<1>1. new \in State /\ new.runs = st.runs
      /\ \A k \in Jobs : new.jobs[k] = IF k = j THEN job ELSE st.jobs[k]
  BY DEF State
<1> HIDE DEF new
<1>2. Backed(new) /\ Unused(new, ids)
  BY <1>1 DEF Sound, Backed, Unused
<1> QED
  BY <1>1, <1>2 DEF Sound, new

\* The first copies are sound, and every step leaves sound copies.
LEMMA IInvInit == Init => IInv
<1> SUFFICES ASSUME Init PROVE IInv
  OBVIOUS
<1>1. TypeOK
  BY ConstantTypes, SchedulerAssumption DEF Init, TypeOK
<1>2. Backed(EmptyState) /\ Unused(EmptyState, Runs)
  BY DEF Backed, Unused, EmptyState, AbsentJob, AbsentRun
<1>3. Sound(EmptyState, Runs \ used)
  BY <1>2, ConstantTypes DEF Sound, Init, Unused
<1> QED
  BY <1>1, <1>3 DEF IInv, Init

LEMMA IInvStep == IInv /\ [Next]_vars => IInv'
<1> SUFFICES ASSUME IInv, [Next]_vars PROVE IInv'
  OBVIOUS
<1>1. TypeOK /\ TypeOK'
  BY TypeStep DEF IInv
<1>2. \A p \in Procs : mem[p] \in State /\ now \in 0 .. MaxTime
  BY <1>1 DEF TypeOK
<1>3. ASSUME NEW p \in Procs, Start(p) PROVE IInv'
  <2>1. Sound(Reclaimed(disk, now), Runs \ used)
    BY <1>1, ReclaimedSound DEF IInv, TypeOK
  <2> QED
    BY <1>1, <1>3, <2>1 DEF Start, IInv, TypeOK
<1>4. ASSUME NEW p \in Procs, Crash(p) PROVE IInv'
  <2>1. Sound(EmptyState, Runs \ used)
    BY ConstantTypes DEF Sound, Backed, Unused, EmptyState, AbsentJob, AbsentRun
  <2> QED
    BY <1>1, <1>4, <2>1 DEF Crash, IInv, TypeOK
<1>5. ASSUME NEW p \in Procs, NEW j \in Jobs, NEW paused \in BOOLEAN, ImportDefinition(p, j, paused)
      PROVE  IInv'
  <2>1. mem[p].jobs[j] \in Job
    BY <1>2 DEF State
  <2>2. Imported(j, mem[p].jobs[j], paused, now) \in Job
        /\ Imported(j, mem[p].jobs[j], paused, now).lease = Nil
    BY <1>2, <2>1, ConstantTypes DEF Imported, Job, JobStatus
  <2>3. Sound([mem[p] EXCEPT !.jobs[j] = Imported(j, @, paused, now)], Runs \ used)
    BY <1>2, <2>2, JobSound DEF IInv
  <2> QED
    BY <1>5, <2>3, PersistSound DEF ImportDefinition
<1>6. ASSUME NEW p \in Procs, NEW j \in Jobs, PauseJob(p, j) PROVE IInv'
  <2> DEFINE job == [mem[p].jobs[j] EXCEPT !.paused = TRUE,
                        !.status = IF @ \in {"dead_lettered", "completed"} THEN @ ELSE "paused"]
  <2>1. mem[p].jobs[j] \in Job
    BY <1>2 DEF State
  <2>2. job \in Job /\ job.lease = mem[p].jobs[j].lease /\ job.present = mem[p].jobs[j].present
    BY <2>1 DEF Job, JobStatus
  <2>3. Sound([mem[p] EXCEPT !.jobs[j] = job], Runs \ used)
    BY <1>2, <2>2, JobSound DEF IInv
  <2> QED
    BY <1>6, <2>3, PersistSound DEF PauseJob
<1>7. ASSUME NEW p \in Procs, NEW j \in Jobs, ResumeJob(p, j) PROVE IInv'
  <2> DEFINE old    == mem[p].jobs[j]
             status == IF old.dead THEN "dead_lettered"
                       ELSE IF old.status = "completed" THEN "completed" ELSE "ready"
             job    == [old EXCEPT !.paused = FALSE, !.status = status,
                           !.next = IF status = "ready" /\ @ = Nil THEN NextAfter(j, now) ELSE @]
  <2>1. old \in Job
    BY <1>2 DEF State
  <2>2. job \in Job /\ job.lease = old.lease /\ job.present = old.present
    BY <1>2, <2>1, ConstantTypes DEF Job, JobStatus
  <2>3. Sound([mem[p] EXCEPT !.jobs[j] = job], Runs \ used)
    BY <1>2, <2>2, JobSound DEF IInv
  <2> QED
    BY <1>7, <2>3, PersistSound DEF ResumeJob
<1>8. ASSUME NEW p \in Procs, NEW j \in Jobs, RemoveJob(p, j) PROVE IInv'
  <2> DEFINE dedupe == [jk \in Jobs \X Keys |-> IF jk[1] = j THEN NoRun ELSE mem[p].dedupe[jk]]
             gone   == [mem[p] EXCEPT !.jobs[j] = AbsentJob]
             new    == [mem[p] EXCEPT !.jobs[j] = AbsentJob, !.dedupe = dedupe]
  <2>1. AbsentJob \in Job /\ AbsentJob.lease = Nil
    BY ConstantTypes DEF AbsentJob
  <2>2. Sound(gone, Runs \ used)
    BY <1>2, <2>1, JobSound DEF IInv
  <2>3. new \in State /\ new.jobs = gone.jobs /\ new.runs = gone.runs
    BY <1>2, <2>1 DEF State
  <2>4. Sound(new, Runs \ used)
    BY <2>2, <2>3 DEF Sound, Backed, Unused
  <2> QED
    BY <1>8, <2>4, PersistSound DEF RemoveJob
<1>9. ASSUME NEW p \in Procs, ReclaimOnly(p) PROVE IInv'
  BY <1>1, <1>9, BaseSound, SaveSound DEF ReclaimOnly
<1>10. ASSUME NEW p \in Procs, NEW j \in Jobs, RunNow(p, j) PROVE IInv'
  BY <1>9, <1>10, CommitSound DEF RunNow
<1>11. ASSUME NEW p \in Procs, NEW key \in Keys \cup {NoKey}, EmitEvent(p, key) PROVE IInv'
  BY <1>9, <1>11, CommitSound DEF EmitEvent
<1>12. ASSUME NEW p \in Procs, Tick(p) PROVE IInv'
  <2>1. CASE Due(Base(p), now) = {}
    BY <1>1, <1>12, <2>1, BaseSound, SaveSound DEF Tick
  <2>2. CASE Due(Base(p), now) # {}
    BY <1>12, <2>2, CommitSound DEF Tick, Due
  <2> QED
    BY <2>1, <2>2
<1>13. ASSUME NEW p \in Procs, ReclaimSaveFails(p) PROVE IInv'
  BY <1>1, <1>13, BaseSound, SaveSound DEF ReclaimSaveFails, IInv
<1>14. ASSUME NEW p \in Procs, NEW r \in Runs, AcquireWorker(p, r) PROVE IInv'
  BY <1>1, <1>14 DEF AcquireWorker, IInv
<1>15. ASSUME NEW p \in Procs, NEW r \in Runs, NEW ok \in BOOLEAN, CompleteRun(p, r, ok)
       PROVE  IInv'
  <2>1. CASE UNCHANGED <<mem, disk>>
    BY <1>1, <1>15, <2>1 DEF CompleteRun, IInv
  <2>2. CASE Completable(mem[p], r) /\ \E st \in Pruned(Completed(mem[p], r, ok, now)) : Persist(p, st)
    <3>1. PICK st \in Pruned(Completed(mem[p], r, ok, now)) : Persist(p, st)
      BY <2>2
    <3>2. Sound(Completed(mem[p], r, ok, now), Runs \ used)
      BY <1>2, <2>2, CompletedSound DEF IInv
    <3>3. Sound(st, Runs \ used)
      <4>1. st \in Finals(Completed(mem[p], r, ok, now), FALSE)
        BY <3>1 DEF Finals
      <4>2. Completed(mem[p], r, ok, now) \in State
        BY <3>2 DEF Sound
      <4> QED
        BY <3>2, <4>1, <4>2, PrunedSound
    <3> QED
      BY <1>1, <1>15, <3>1, <3>3, SaveSound DEF Persist, CompleteRun, IInv
  <2> QED
    BY <1>15, <2>1, <2>2 DEF CompleteRun
<1>16. CASE Advance
  BY <1>1, <1>16 DEF Advance, IInv
<1>17. CASE UNCHANGED vars
  BY <1>1, <1>17 DEF vars, IInv
<1> QED
  BY <1>3, <1>4, <1>5, <1>6, <1>7, <1>8, <1>10, <1>11, <1>12, <1>13, <1>14, <1>15, <1>16, <1>17
     DEF Next, Operate

\* No lease ever outlives the run it belongs to, in any process or in the
\* state file: nothing that can happen to a run leaves its job blocked.
THEOREM LeaseAlwaysBacked == Spec => []LeaseBacked
<1>1. IInv => LeaseBacked
  BY DEF IInv, Sound, Backed, LeaseBacked, Copies, RunsWith, TypeOK
<1> QED
  BY <1>1, IInvInit, IInvStep, PTL DEF Spec

-----------------------------------------------------------------------------
\* What a step may make of the copies of the state.  The properties below are
\* about all that can happen to one copy, so that each of them needs one step
\* of proof for each of these forms and none for each action.

\* An import, pause or resume: one job changes, but not what it has been through.
Edited(old, new) ==
    \E j \in Jobs, job \in Job :
       /\ new = [old EXCEPT !.jobs[j] = job]
       /\ job.successes = old.jobs[j].successes /\ job.failures = old.jobs[j].failures
       /\ job.dead = old.jobs[j].dead
       /\ job.status = "completed" => old.jobs[j].status = "completed"

Without(st, j) == [st EXCEPT !.jobs[j] = AbsentJob,
                             !.dedupe = [jk \in Jobs \X Keys |-> IF jk[1] = j THEN NoRun ELSE st.dedupe[jk]]]
Removed(old, new) == \E j \in Jobs : new = Without(old, j)

\* The jobs of D were decided about: only those that are there, neither taken nor
\* dead-lettered nor asked for a second time by the same event, may start.
MayStart(st, j, key) == /\ ~Leased(st, j, now) /\ ~st.jobs[j].dead /\ ~Duplicate(st, j, key)

Committed(p, new) ==
    \E D \in SUBSET Jobs, key \in Keys \cup {NoKey}, event \in BOOLEAN :
       \E ids \in Injection(D, Fresh) : \E outcome :
          /\ \A j \in D : outcome[j] = "started" => MayStart(Base(p), j, key)
          /\ key # NoKey => event
          /\ used' = used \cup Range(ids)
          /\ new \in Finals(Decided(Base(p), D, ids, outcome, key, now), event)

Ended(old, new) ==
    \E r \in Runs, ok \in BOOLEAN :
       Completable(old, r) /\ new \in Pruned(Completed(old, r, ok, now))

Moves(p) ==
    \/ mem'[p] = mem[p]
    \/ mem'[p] = Base(p)
    \/ Edited(mem[p], mem'[p])
    \/ Removed(mem[p], mem'[p])
    \/ Committed(p, mem'[p])
    \/ Ended(mem[p], mem'[p])

\* An outcome of a decision that lets a run start.
LEMMA StartedMay ==
    ASSUME NEW st, NEW j \in Jobs, NEW scheduled, NEW blocked,
           Outcome(st, j, scheduled, blocked, now) = "started"
    PROVE  ~Leased(st, j, now) /\ ~st.jobs[j].dead
BY DEF Outcome

\* Deciding: the memory of the process is Committed.
LEMMA CommitMoves ==
    ASSUME TypeOK, NEW p \in Procs, NEW D \in SUBSET Jobs, NEW outcome,
           NEW key \in Keys \cup {NoKey}, NEW event \in BOOLEAN, key # NoKey => event,
           \A j \in D : outcome[j] = "started" => MayStart(Base(p), j, key),
           Commit(p, D, outcome, key, event)
    PROVE  /\ Committed(p, mem'[p]) /\ \A q \in Procs \ {p} : mem'[q] = mem[q]
           /\ disk' \in {disk, Base(p), mem'[p]} /\ used \subseteq used'
           /\ now' = now /\ up' = up
<1>1. PICK ids \in Injection(D, Fresh) :
         LET st      == Decided(Base(p), D, ids, outcome, key, now)
             started == {ids[j] : j \in {k \in D : outcome[k] = "started"}}
         IN /\ used' = used \cup Range(ids)
            /\ UNCHANGED <<up, now>>
            /\ \E final \in Finals(st, event) :
                  \/ Saved(p, final) /\ Dispatch(p, started)
                  \/ SaveFailed(p, final, BaseFile(p)) /\ NoDispatch(p, started)
  BY DEF Commit
<1>2. PICK final \in Finals(Decided(Base(p), D, ids, outcome, key, now), event) :
         Saved(p, final) \/ SaveFailed(p, final, BaseFile(p))
  BY <1>1
<1>3. mem' = [mem EXCEPT ![p] = final] /\ disk' \in {BaseFile(p), final}
  BY <1>2 DEF Saved, SaveFailed
<1>4. mem'[p] = final /\ \A q \in Procs \ {p} : mem'[q] = mem[q]
  BY <1>3 DEF TypeOK
<1>5. Committed(p, final)
  BY <1>1, <1>2 DEF Committed
<1> QED
  BY <1>1, <1>3, <1>4, <1>5 DEF BaseFile

\* What a step may do to the copies, to the identifiers handed out and to the clock.
StepForm ==
    /\ \A p \in Procs : \/ Moves(p)
                        \/ p \notin up /\ mem'[p] = Reclaimed(disk, now)
                        \/ p \notin up' /\ mem'[p] = EmptyState
    /\ disk' = disk \/ \E p \in Procs : disk' \in {Base(p), mem'[p]}
    /\ used \subseteq used'
    /\ now <= now'

\* An operation that saves st, or fails to, when the file before it was f.
LEMMA SaveMoves ==
    ASSUME TypeOK, NEW p \in Procs, NEW st, NEW f, Saved(p, st) \/ SaveFailed(p, st, f)
    PROVE  /\ mem'[p] = st /\ \A q \in Procs \ {p} : mem'[q] = mem[q]
           /\ disk' \in {f, mem'[p]}
BY DEF Saved, SaveFailed, TypeOK

LEMMA StepMoves == TypeOK /\ [Next]_vars => StepForm
<1> SUFFICES ASSUME TypeOK, [Next]_vars PROVE StepForm
  OBVIOUS
<1>1. now \in Int /\ now <= now
  BY SchedulerAssumption DEF TypeOK
<1>2. ASSUME NEW p \in Procs, UNCHANGED <<used, now>>,
             Moves(p), \A q \in Procs \ {p} : mem'[q] = mem[q],
             disk' \in {disk, Base(p), mem'[p]}
      PROVE  StepForm
  BY <1>1, <1>2 DEF StepForm, Moves
<1>3. ASSUME NEW p \in Procs, NEW st, Persist(p, st), UNCHANGED <<used, now>>,
             Edited(mem[p], st) \/ Removed(mem[p], st) \/ Ended(mem[p], st)
      PROVE  StepForm
  <2>1. mem'[p] = st /\ (\A q \in Procs \ {p} : mem'[q] = mem[q]) /\ disk' \in {disk, mem'[p]}
    BY <1>3, SaveMoves DEF Persist
  <2> QED
    BY <1>2, <1>3, <2>1 DEF Moves
<1>4. ASSUME NEW p \in Procs, NEW D \in SUBSET Jobs, NEW outcome,
             NEW key \in Keys \cup {NoKey}, NEW event \in BOOLEAN, key # NoKey => event,
             \A j \in D : outcome[j] = "started" => MayStart(Base(p), j, key),
             Commit(p, D, outcome, key, event)
      PROVE  StepForm
  <2>1. /\ Committed(p, mem'[p]) /\ \A q \in Procs \ {p} : mem'[q] = mem[q]
        /\ disk' \in {disk, Base(p), mem'[p]} /\ used \subseteq used' /\ now' = now
    BY <1>4, CommitMoves, Zenon
  <2> QED
    BY <1>1, <1>4, <2>1 DEF StepForm, Moves
<1>5. ASSUME NEW p \in Procs, Start(p) PROVE StepForm
  BY <1>1, <1>5 DEF Start, StepForm, Moves, TypeOK
<1>6. ASSUME NEW p \in Procs, Crash(p) PROVE StepForm
  BY <1>1, <1>6 DEF Crash, StepForm, Moves, TypeOK
<1>7. ASSUME NEW p \in Procs, NEW j \in Jobs, NEW paused \in BOOLEAN, ImportDefinition(p, j, paused)
      PROVE  StepForm
  <2> DEFINE job == Imported(j, mem[p].jobs[j], paused, now)
  <2>1. mem[p] \in State /\ mem[p].jobs[j] \in Job /\ now \in 0 .. MaxTime
    BY DEF TypeOK, State
  <2>2. /\ job \in Job /\ job.dead = mem[p].jobs[j].dead /\ job.status # "completed"
        /\ job.successes = mem[p].jobs[j].successes /\ job.failures = mem[p].jobs[j].failures
    BY <2>1, ConstantTypes DEF Imported, Job, JobStatus
  <2>3. Edited(mem[p], [mem[p] EXCEPT !.jobs[j] = job])
    BY <2>2 DEF Edited
  <2> QED
    BY <1>3, <1>7, <2>3 DEF ImportDefinition
<1>8. ASSUME NEW p \in Procs, NEW j \in Jobs, PauseJob(p, j) PROVE StepForm
  <2> DEFINE old == mem[p].jobs[j]
             job == [old EXCEPT !.paused = TRUE,
                        !.status = IF @ \in {"dead_lettered", "completed"} THEN @ ELSE "paused"]
  <2>1. old \in Job
    BY DEF TypeOK, State
  <2>2. /\ job \in Job /\ job.dead = old.dead /\ (job.status = "completed" => old.status = "completed")
        /\ job.successes = old.successes /\ job.failures = old.failures
    BY <2>1 DEF Job, JobStatus
  <2>3. Edited(mem[p], [mem[p] EXCEPT !.jobs[j] = job])
    BY <2>2 DEF Edited
  <2> QED
    BY <1>3, <1>8, <2>3 DEF PauseJob
<1>9. ASSUME NEW p \in Procs, NEW j \in Jobs, ResumeJob(p, j) PROVE StepForm
  <2> DEFINE old    == mem[p].jobs[j]
             status == IF old.dead THEN "dead_lettered"
                       ELSE IF old.status = "completed" THEN "completed" ELSE "ready"
             job    == [old EXCEPT !.paused = FALSE, !.status = status,
                           !.next = IF status = "ready" /\ @ = Nil THEN NextAfter(j, now) ELSE @]
  <2>1. old \in Job /\ now \in 0 .. MaxTime
    BY DEF TypeOK, State
  <2>2. /\ job \in Job /\ job.dead = old.dead /\ (job.status = "completed" => old.status = "completed")
        /\ job.successes = old.successes /\ job.failures = old.failures
    BY <2>1, ConstantTypes DEF Job, JobStatus
  <2>3. Edited(mem[p], [mem[p] EXCEPT !.jobs[j] = job])
    BY <2>2 DEF Edited
  <2> QED
    BY <1>3, <1>9, <2>3 DEF ResumeJob
<1>10. ASSUME NEW p \in Procs, NEW j \in Jobs, RemoveJob(p, j) PROVE StepForm
  <2>1. Persist(p, Without(mem[p], j))
    BY <1>10 DEF RemoveJob, Without, TypeOK, State
  <2>2. Removed(mem[p], Without(mem[p], j))
    BY DEF Removed
  <2> QED
    BY <1>3, <1>10, <2>1, <2>2 DEF RemoveJob
<1>11. ASSUME NEW p \in Procs, ReclaimOnly(p) PROVE StepForm
  BY <1>2, <1>11, SaveMoves DEF ReclaimOnly, Moves
<1>12. ASSUME NEW p \in Procs, NEW j \in Jobs, RunNow(p, j) PROVE StepForm
  <2>1. CASE ~Base(p).jobs[j].present
    BY <1>11, <1>12, <2>1 DEF RunNow
  <2>2. CASE Base(p).jobs[j].present
    <3>1. PICK blocked \in SUBSET {k \in {j} : Def[k].gated} :
             Commit(p, {j}, [k \in {j} |-> Outcome(Base(p), k, FALSE, blocked, now)], NoKey, FALSE)
      BY <1>12, <2>2 DEF RunNow
    <3>2. \A k \in {j} : [i \in {j} |-> Outcome(Base(p), i, FALSE, blocked, now)][k] = "started"
             => MayStart(Base(p), k, NoKey)
      BY StartedMay DEF MayStart, Duplicate
    <3> QED
      BY <1>4, <1>12, <3>1, <3>2 DEF RunNow
  <2> QED
    BY <2>1, <2>2
<1>13. ASSUME NEW p \in Procs, NEW key \in Keys \cup {NoKey}, EmitEvent(p, key) PROVE StepForm
  <2> DEFINE D == {j \in Jobs : Base(p).jobs[j].present /\ Def[j].kind = "event"}
  <2>1. CASE D = {}
    BY <1>11, <1>13, <2>1 DEF EmitEvent
  <2>2. CASE D # {}
    <3> DEFINE outcome(b) == [j \in D |-> IF Duplicate(Base(p), j, key) THEN "skipped_by_policy"
                                          ELSE Outcome(Base(p), j, FALSE, b, now)]
    <3>1. PICK blocked \in SUBSET {j \in D : Def[j].gated} :
             Commit(p, D, outcome(blocked), key, TRUE)
      BY <1>13, <2>2 DEF EmitEvent
    <3>2. \A j \in D : outcome(blocked)[j] = "started" => MayStart(Base(p), j, key)
      BY StartedMay DEF MayStart
    <3>3. D \in SUBSET Jobs
      OBVIOUS
    <3> HIDE DEF D, outcome
    <3> QED
      BY <1>4, <3>1, <3>2, <3>3
  <2> QED
    BY <2>1, <2>2
<1>14. ASSUME NEW p \in Procs, Tick(p) PROVE StepForm
  <2> DEFINE D == Due(Base(p), now)
  <2>1. CASE D = {}
    <3>1. (\/ Saved(p, Base(p)) \/ SaveFailed(p, Base(p), BaseFile(p))) /\ UNCHANGED <<used, now>>
      BY <1>14, <2>1 DEF Tick
    <3>2. mem'[p] = Base(p) /\ (\A q \in Procs \ {p} : mem'[q] = mem[q]) /\ disk' \in {BaseFile(p), mem'[p]}
      BY <3>1, SaveMoves
    <3> QED
      BY <1>2, <3>1, <3>2 DEF Moves, BaseFile
  <2>2. CASE D # {}
    <3> DEFINE outcome(b) == [j \in D |-> Outcome(Base(p), j, TRUE, b, now)]
    <3>1. PICK blocked \in SUBSET {j \in D : Def[j].gated} :
             Commit(p, D, outcome(blocked), NoKey, FALSE)
      BY <1>14, <2>2 DEF Tick
    <3>2. D \in SUBSET Jobs
      BY DEF Due
    <3>3. \A j \in D : outcome(blocked)[j] = "started" => MayStart(Base(p), j, NoKey)
      BY <3>2, StartedMay DEF MayStart, Duplicate
    <3> HIDE DEF D, outcome
    <3> QED
      BY <1>4, <3>1, <3>2, <3>3
  <2> QED
    BY <2>1, <2>2
<1>15. ASSUME NEW p \in Procs, ReclaimSaveFails(p) PROVE StepForm
  BY <1>2, <1>15, SaveMoves DEF ReclaimSaveFails, Moves
<1>16. ASSUME NEW p \in Procs, NEW r \in Runs, AcquireWorker(p, r) PROVE StepForm
  BY <1>1, <1>16 DEF AcquireWorker, StepForm, Moves
<1>17. ASSUME NEW p \in Procs, NEW r \in Runs, NEW ok \in BOOLEAN, CompleteRun(p, r, ok)
       PROVE  StepForm
  <2>1. CASE UNCHANGED <<mem, disk>>
    BY <1>1, <1>17, <2>1 DEF CompleteRun, StepForm, Moves
  <2>2. CASE Completable(mem[p], r) /\ \E st \in Pruned(Completed(mem[p], r, ok, now)) : Persist(p, st)
    <3>1. PICK st \in Pruned(Completed(mem[p], r, ok, now)) : Persist(p, st)
      BY <2>2
    <3>2. Ended(mem[p], st)
      BY <2>2, <3>1 DEF Ended
    <3> QED
      BY <1>3, <1>17, <3>1, <3>2 DEF CompleteRun
  <2> QED
    BY <1>17, <2>1, <2>2 DEF CompleteRun
<1>18. CASE Advance
  BY <1>1, <1>18, SchedulerAssumption DEF Advance, StepForm, Moves
<1>19. CASE UNCHANGED vars
  BY <1>1, <1>19 DEF vars, StepForm, Moves
<1> QED
  BY <1>5, <1>6, <1>7, <1>8, <1>9, <1>10, <1>12, <1>13, <1>14, <1>15, <1>16, <1>17, <1>18, <1>19
     DEF Next, Operate

-----------------------------------------------------------------------------
\* Bounded.  One copy of the state keeps within the bounds at time t: no job has
\* more unexpired runs than it may, completed jobs are spent, a job that failed too
\* often is dead-lettered, and no dedupe entry names a run that is still to come.

Within(st, t) == \A j \in Jobs : /\ IsFiniteSet(RunningRuns(st, j, t))
                                 /\ Cardinality(RunningRuns(st, j, t)) <= Def[j].maxConc

Spent(st) == \A j \in Jobs : st.jobs[j].status = "completed" => Exhausted(j, st.jobs[j].successes)

Buried(st) == \A j \in Jobs : Def[j].deadAfter > 0 /\ st.jobs[j].failures >= Def[j].deadAfter
                                 => st.jobs[j].dead

Faithful(st, ids) ==
    \A j \in Jobs, k \in Keys : st.dedupe[<<j, k>>] # NoRun =>
       LET r == st.dedupe[<<j, k>>] IN
       /\ r \notin ids
       /\ st.runs[r].status # "absent" =>
             st.runs[r].job = j /\ st.runs[r].key = k /\ st.runs[r].status # "skipped"

Kept(st, ids, t) == Within(st, t) /\ Spent(st) /\ Buried(st) /\ Faithful(st, ids)

KInv == /\ IInv
        /\ Kept(disk, Runs \ used, now)
        /\ \A p \in Procs : Kept(mem[p], Runs \ used, now)

\* Runs that no longer count leave the bound on the others.
LEMMA FewerRunning ==
    ASSUME NEW st \in State, NEW new \in State, NEW t \in Int, NEW u \in Int, t <= u, Within(st, t),
           \A r \in Runs : new.runs[r].status = "running" => new.runs[r] = st.runs[r]
    PROVE  Within(new, u)
<1> SUFFICES ASSUME NEW j \in Jobs
             PROVE  /\ IsFiniteSet(RunningRuns(new, j, u))
                    /\ Cardinality(RunningRuns(new, j, u)) <= Def[j].maxConc
  BY DEF Within
<1>1. RunningRuns(new, j, u) \subseteq RunningRuns(st, j, t)
  <2>1. ASSUME NEW r \in RunningRuns(new, j, u) PROVE r \in RunningRuns(st, j, t)
    <3>1. r \in Runs /\ new.runs[r] = st.runs[r] /\ new.runs[r].status = "running"
          /\ new.runs[r].job = j /\ new.runs[r].expiry > u
      BY DEF RunningRuns, RunsWith
    <3>2. st.runs[r].expiry \in Int
      BY <3>1, SchedulerAssumption DEF State, Run, Times, Nil
    <3> QED
      BY <3>1, <3>2 DEF RunningRuns, RunsWith
  <2> QED
    BY <2>1
<1>2. /\ IsFiniteSet(RunningRuns(st, j, t))
      /\ Cardinality(RunningRuns(st, j, t)) <= Def[j].maxConc
  BY DEF Within
<1>3. /\ IsFiniteSet(RunningRuns(new, j, u))
      /\ Cardinality(RunningRuns(new, j, u)) <= Cardinality(RunningRuns(st, j, t))
  BY <1>1, <1>2, FS_Subset
<1>4. /\ Cardinality(RunningRuns(st, j, t)) \in Nat /\ Cardinality(RunningRuns(new, j, u)) \in Nat
      /\ Def[j].maxConc \in Nat
  BY <1>2, <1>3, FS_CardinalityType, SchedulerAssumption DEF Definition
<1> QED
  BY <1>2, <1>3, <1>4

\* Time passes and identifiers are used up.
LEMMA KeptLater ==
    ASSUME NEW st \in State, NEW ids, NEW fewer \in SUBSET ids, NEW t \in Int, NEW u \in Int, t <= u,
           Kept(st, ids, t)
    PROVE  Kept(st, fewer, u)
BY FewerRunning DEF Kept, Faithful

\* Writing expired runs off.
LEMMA ReclaimedKept ==
    ASSUME NEW st \in State, NEW ids, NEW t \in 0 .. MaxTime, Kept(st, ids, t)
    PROVE  Kept(Reclaimed(st, t), ids, t)
<1> DEFINE new == Reclaimed(st, t)
<1>1. new \in State /\ t \in Int
  BY ReclaimedType
<1>2. \A r \in Runs : new.runs[r] = st.runs[r]
         \/ (st.runs[r].status = "running" /\ new.runs[r] = [st.runs[r] EXCEPT !.status = "interrupted", !.done = t])
  BY DEF Reclaimed, State, Expired, RunsWith
<1>3. \A r \in Runs : /\ new.runs[r].status = "running" => new.runs[r] = st.runs[r]
                      /\ new.runs[r].status = "skipped" => st.runs[r].status = "skipped"
                      /\ new.runs[r].status # "absent" => st.runs[r].status # "absent"
                      /\ new.runs[r].job = st.runs[r].job /\ new.runs[r].key = st.runs[r].key
  <2> SUFFICES ASSUME NEW r \in Runs
               PROVE  /\ new.runs[r].status = "running" => new.runs[r] = st.runs[r]
                      /\ new.runs[r].status = "skipped" => st.runs[r].status = "skipped"
                      /\ new.runs[r].status # "absent" => st.runs[r].status # "absent"
                      /\ new.runs[r].job = st.runs[r].job /\ new.runs[r].key = st.runs[r].key
    OBVIOUS
  <2>1. st.runs[r] \in Run
    BY DEF State
  <2> DEFINE off == [st.runs[r] EXCEPT !.status = "interrupted", !.done = t]
  <2>2. off.status = "interrupted" /\ off.job = st.runs[r].job /\ off.key = st.runs[r].key
    BY <2>1 DEF Run
  <2>3. new.runs[r] = st.runs[r] \/ (st.runs[r].status = "running" /\ new.runs[r] = off)
    BY <1>2, Zenon
  <2> HIDE DEF new, off
  <2> QED
    BY <2>2, <2>3
<1>4. new.dedupe = st.dedupe
  BY DEF Reclaimed, State
<1>5. \A j \in Jobs : /\ new.jobs[j].status = st.jobs[j].status /\ new.jobs[j].dead = st.jobs[j].dead
                      /\ new.jobs[j].successes = st.jobs[j].successes
                      /\ new.jobs[j].failures = st.jobs[j].failures
  BY DEF Reclaimed, State, Job
<1>6. Within(new, t)
  BY <1>1, <1>3, FewerRunning DEF Kept
<1>7. Spent(new) /\ Buried(new)
  BY <1>5 DEF Kept, Spent, Buried
<1>8. Faithful(new, ids)
  BY <1>3, <1>4 DEF Kept, Faithful, State
<1> QED
  BY <1>6, <1>7, <1>8 DEF Kept

\* Pruning keeps the runs that run and the entries that are left.
LEMMA PrunedForm ==
    ASSUME NEW st \in State, NEW event \in BOOLEAN, NEW final \in Finals(st, event)
    PROVE  /\ final \in State /\ final.jobs = st.jobs
           /\ \A r \in Runs : \/ final.runs[r] = st.runs[r]
                              \/ st.runs[r].status \in Terminal /\ final.runs[r] = AbsentRun
           /\ \A jk \in Jobs \X Keys : final.dedupe[jk] \in {st.dedupe[jk], NoRun}
<1>1. PICK s \in (IF event THEN DedupePruned(st) ELSE {st}) : final \in Pruned(s)
  BY DEF Finals
<1>2. /\ s \in State /\ s.jobs = st.jobs /\ s.runs = st.runs
      /\ \A jk \in Jobs \X Keys : s.dedupe[jk] \in {st.dedupe[jk], NoRun}
  <2>1. CASE event
    <3>1. PICK X : s = [st EXCEPT !.dedupe = [jk \in Jobs \X Keys |->
                                                 IF jk \in X THEN NoRun ELSE @[jk]]]
      BY <1>1, <2>1 DEF DedupePruned
    <3> QED
      BY <3>1 DEF State
  <2>2. CASE ~event
    BY <1>1, <2>2
  <2> QED
    BY <2>1, <2>2
<1>3. PICK X \in SUBSET RunsWith(s, Terminal) :
         final = [s EXCEPT !.runs = [r \in Runs |-> IF r \in X THEN AbsentRun ELSE @[r]]]
  BY <1>1 DEF Pruned
<1>4. final.jobs = s.jobs /\ final.dedupe = s.dedupe
      /\ \A r \in Runs : final.runs[r] = IF r \in X THEN AbsentRun ELSE s.runs[r]
  BY <1>2, <1>3 DEF State
<1> QED
  BY <1>2, <1>3, <1>4, PrunedType DEF RunsWith

LEMMA PrunedKept ==
    ASSUME NEW st \in State, NEW event \in BOOLEAN, NEW final \in Finals(st, event),
           NEW ids, NEW t \in Int, Kept(st, ids, t)
    PROVE  Kept(final, ids, t)
<1>1. /\ final \in State /\ final.jobs = st.jobs
      /\ \A r \in Runs : \/ final.runs[r] = st.runs[r]
                         \/ st.runs[r].status \in Terminal /\ final.runs[r] = AbsentRun
      /\ \A jk \in Jobs \X Keys : final.dedupe[jk] \in {st.dedupe[jk], NoRun}
  BY PrunedForm
<1>2. AbsentRun.status = "absent"
  BY DEF AbsentRun
<1>3. Within(final, t)
  BY <1>1, <1>2, FewerRunning DEF Kept
<1>4. Spent(final) /\ Buried(final)
  BY <1>1 DEF Kept, Spent, Buried
<1>5. Faithful(final, ids)
  <2> SUFFICES ASSUME NEW j \in Jobs, NEW k \in Keys, final.dedupe[<<j, k>>] # NoRun
               PROVE  LET r == st.dedupe[<<j, k>>] IN
                      /\ final.dedupe[<<j, k>>] = r
                      /\ r \notin ids
                      /\ final.runs[r].status # "absent" =>
                            final.runs[r].job = j /\ final.runs[r].key = k /\ final.runs[r].status # "skipped"
    BY DEF Faithful
  <2>1. <<j, k>> \in Jobs \X Keys /\ final.dedupe[<<j, k>>] = st.dedupe[<<j, k>>]
    BY <1>1
  <2>2. st.dedupe[<<j, k>>] \in Runs
    BY <2>1 DEF State
  <2> QED
    BY <1>1, <1>2, <2>1, <2>2 DEF Kept, Faithful
<1> QED
  BY <1>3, <1>4, <1>5 DEF Kept

\* Deciding: only a job that is not taken starts one more run, and only an event
\* whose key has no entry.
LEMMA DecidedKept ==
    ASSUME NEW st \in State, NEW D \in SUBSET Jobs, NEW fresh \in SUBSET Runs,
           NEW ids \in Injection(D, fresh), NEW outcome, NEW key \in Keys \cup {NoKey},
           NEW t \in 0 .. MaxTime, Kept(st, fresh, t),
           \A j \in D : outcome[j] = "started" => ~Leased(st, j, t)
    PROVE  Kept(Decided(st, D, ids, outcome, key, t), fresh \ Range(ids), t)
<1> DEFINE new == Decided(st, D, ids, outcome, key, t)
<1>1. ids \in [D -> fresh] /\ (\A j, k \in D : ids[j] = ids[k] => j = k)
      /\ \A j \in D : ids[j] \in Range(ids)
  BY DEF Injection, IsInjective, Range
<1>2. new \in State
  BY <1>1, DecidedType
<1>3. \A r \in Runs : (~ \E j \in D : ids[j] = r) => new.runs[r] = st.runs[r]
  BY DEF Decided
<1>4. \A j \in D : new.runs[ids[j]] = RunOf(j, key, outcome[j], t)
  BY <1>1 DEF Decided
<1>5. \A j \in Jobs : new.jobs[j] = IF j \in D THEN Resolved(st, j, outcome[j], t) ELSE st.jobs[j]
  BY DEF Decided
<1>6. \A j \in Jobs, k \in Keys :
         new.dedupe[<<j, k>>] = IF j \in D /\ k = key /\ outcome[j] = "started"
                                THEN ids[j] ELSE st.dedupe[<<j, k>>]
  BY DEF Decided, Enters
<1>7. \A j \in D : LET run == RunOf(j, key, outcome[j], t) IN
         /\ run.job = j /\ run.key = key /\ run.status \in {"running", "skipped"}
         /\ run.status = "running" <=> outcome[j] = "started"
  BY DEF RunOf
<1> HIDE DEF new
<1>8. ASSUME NEW j \in Jobs
      PROVE  /\ IsFiniteSet(RunningRuns(new, j, t))
             /\ Cardinality(RunningRuns(new, j, t)) <= Def[j].maxConc
  <2>1. /\ IsFiniteSet(RunningRuns(st, j, t))
        /\ Cardinality(RunningRuns(st, j, t)) <= Def[j].maxConc
        /\ Cardinality(RunningRuns(st, j, t)) \in Nat /\ Def[j].maxConc \in Nat
    BY FS_CardinalityType, SchedulerAssumption DEF Kept, Within, Definition
  <2>2. ASSUME NEW r \in RunningRuns(new, j, t)
        PROVE  r \in RunningRuns(st, j, t) \/ (j \in D /\ outcome[j] = "started" /\ r = ids[j])
    <3>1. r \in Runs /\ new.runs[r].status = "running" /\ new.runs[r].job = j /\ new.runs[r].expiry > t
      BY DEF RunningRuns, RunsWith
    <3>2. CASE \E k \in D : ids[k] = r
      BY <1>4, <1>7, <3>1, <3>2
    <3>3. CASE ~ \E k \in D : ids[k] = r
      BY <1>3, <3>1, <3>3 DEF RunningRuns, RunsWith
    <3> QED
      BY <3>2, <3>3
  <2>3. CASE j \in D /\ outcome[j] = "started"
    <3>1. Cardinality(RunningRuns(st, j, t)) < Def[j].maxConc
      BY <2>1, <2>3 DEF Leased
    <3>2. RunningRuns(new, j, t) \subseteq RunningRuns(st, j, t) \cup {ids[j]}
      BY <2>2
    <3>3. /\ IsFiniteSet(RunningRuns(st, j, t) \cup {ids[j]})
          /\ Cardinality(RunningRuns(st, j, t) \cup {ids[j]}) <= Def[j].maxConc
          /\ Cardinality(RunningRuns(st, j, t) \cup {ids[j]}) \in Nat
      <4> DEFINE A == RunningRuns(st, j, t)
                 c == Cardinality(A)
                 b == Cardinality(A \cup {ids[j]})
      <4>1. IsFiniteSet(A \cup {ids[j]}) /\ (b = c \/ b = c + 1)
        BY <2>1, FS_AddElement, Zenon
      <4>2. c \in Nat /\ c < Def[j].maxConc
        BY <2>1, <3>1
      <4> HIDE DEF c, b
      <4>3. b <= Def[j].maxConc /\ b \in Nat
        BY <4>1, <4>2, <2>1
      <4> QED
        BY <4>1, <4>3 DEF b
    <3>4. /\ IsFiniteSet(RunningRuns(new, j, t))
          /\ Cardinality(RunningRuns(new, j, t)) <= Cardinality(RunningRuns(st, j, t) \cup {ids[j]})
      BY <3>2, <3>3, FS_Subset
    <3> QED
      BY <2>1, <3>3, <3>4, FS_CardinalityType
  <2>4. CASE ~(j \in D /\ outcome[j] = "started")
    <3>1. RunningRuns(new, j, t) \subseteq RunningRuns(st, j, t)
      BY <2>2, <2>4
    <3>2. /\ IsFiniteSet(RunningRuns(new, j, t))
          /\ Cardinality(RunningRuns(new, j, t)) <= Cardinality(RunningRuns(st, j, t))
      BY <2>1, <3>1, FS_Subset
    <3> QED
      BY <2>1, <3>2, FS_CardinalityType
  <2> QED
    BY <2>3, <2>4
<1>9. \A j \in Jobs : /\ new.jobs[j].dead = st.jobs[j].dead
                      /\ new.jobs[j].successes = st.jobs[j].successes
                      /\ new.jobs[j].failures = st.jobs[j].failures
                      /\ new.jobs[j].status = "completed" => st.jobs[j].status = "completed"
  <2> SUFFICES ASSUME NEW j \in Jobs
               PROVE  /\ new.jobs[j].dead = st.jobs[j].dead
                      /\ new.jobs[j].successes = st.jobs[j].successes
                      /\ new.jobs[j].failures = st.jobs[j].failures
                      /\ new.jobs[j].status = "completed" => st.jobs[j].status = "completed"
    OBVIOUS
  <2>1. st.jobs[j] \in Job
    BY DEF State
  <2> DEFINE job == st.jobs[j]
             on  == [job EXCEPT !.lease = t + LeaseTTL, !.status = "ready", !.next = NextAfter(j, t)]
             off == [job EXCEPT !.next = NextAfter(j, t)]
  <2>2. /\ on.dead = job.dead /\ on.successes = job.successes /\ on.failures = job.failures
        /\ on.status = "ready"
        /\ off.dead = job.dead /\ off.successes = job.successes /\ off.failures = job.failures
        /\ off.status = job.status
    BY <2>1 DEF Job
  <2>3. Resolved(st, j, outcome[j], t) \in {job, on, off}
    BY Zenon DEF Resolved
  <2>4. new.jobs[j] \in {job, on, off}
    BY <1>5, <2>3, Zenon
  <2> HIDE DEF on, off
  <2> QED
    BY <2>2, <2>4
<1>10. Spent(new) /\ Buried(new)
  BY <1>9 DEF Kept, Spent, Buried
<1>11. Faithful(new, fresh \ Range(ids))
  <2> SUFFICES ASSUME NEW j \in Jobs, NEW k \in Keys, new.dedupe[<<j, k>>] # NoRun
               PROVE  LET r == new.dedupe[<<j, k>>] IN
                      /\ r \notin fresh \ Range(ids)
                      /\ new.runs[r].status # "absent" =>
                            new.runs[r].job = j /\ new.runs[r].key = k /\ new.runs[r].status # "skipped"
    BY DEF Faithful
  <2>1. CASE j \in D /\ k = key /\ outcome[j] = "started"
    BY <1>1, <1>4, <1>6, <1>7, <2>1
  <2>2. CASE ~(j \in D /\ k = key /\ outcome[j] = "started")
    <3>1. new.dedupe[<<j, k>>] = st.dedupe[<<j, k>>] /\ st.dedupe[<<j, k>>] \in Runs
      BY <1>6, <2>2 DEF State
    <3>2. st.dedupe[<<j, k>>] \notin fresh
      BY <3>1 DEF Kept, Faithful
    <3>3. new.runs[st.dedupe[<<j, k>>]] = st.runs[st.dedupe[<<j, k>>]]
      BY <1>1, <1>3, <3>1, <3>2
    <3> QED
      BY <3>1, <3>2, <3>3 DEF Kept, Faithful
  <2> QED
    BY <2>1, <2>2
<1> QED
  BY <1>8, <1>10, <1>11 DEF Kept, Within, new

\* A completion: the job is completed only with its repeats used up, and
\* dead-lettered with the failure that was one too many.
LEMMA CompletedForm ==
    ASSUME NEW st \in State, NEW r \in Runs, NEW ok \in BOOLEAN, NEW t \in 0 .. MaxTime
    PROVE  LET new == Completed(st, r, ok, t)
               j   == st.runs[r].job
           IN /\ new \in State /\ new.dedupe = st.dedupe
              /\ \A s \in Runs : s # r => new.runs[s] = st.runs[s]
              /\ new.runs[r].status \in {"succeeded", "failed"}
              /\ new.runs[r].job = j /\ new.runs[r].key = st.runs[r].key
              /\ \A k \in Jobs : k # j => new.jobs[k] = st.jobs[k]
              /\ new.jobs[j] = IF ~st.jobs[j].present THEN st.jobs[j]
                               ELSE IF ok THEN Won(j, st.jobs[j]) ELSE Lost(j, st.jobs[j])
<1> DEFINE j   == st.runs[r].job
           run == [st.runs[r] EXCEPT !.status = IF ok THEN "succeeded" ELSE "failed", !.done = t]
           job == IF ~st.jobs[j].present THEN st.jobs[j]
                  ELSE IF ok THEN Won(j, st.jobs[j]) ELSE Lost(j, st.jobs[j])
           new == Completed(st, r, ok, t)
<1>1. st.runs[r] \in Run /\ j \in Jobs
  BY DEF State, Run
<1>2. run.status \in {"succeeded", "failed"} /\ run.job = j /\ run.key = st.runs[r].key
  BY <1>1 DEF Run
<1>3. new = [st EXCEPT !.runs[r] = run, !.jobs[j] = job]
  BY <1>1 DEF Completed, State
<1>4. new \in State
  BY CompletedType
<1> HIDE DEF run, job
<1>5. /\ new.dedupe = st.dedupe /\ new.runs[r] = run /\ new.jobs[j] = job
      /\ \A s \in Runs : s # r => new.runs[s] = st.runs[s]
      /\ \A k \in Jobs : k # j => new.jobs[k] = st.jobs[k]
  BY <1>1, <1>3 DEF State
<1> HIDE DEF new
<1>6. new.jobs[j] = IF ~st.jobs[j].present THEN st.jobs[j]
                    ELSE IF ok THEN Won(j, st.jobs[j]) ELSE Lost(j, st.jobs[j])
  BY <1>5 DEF job
<1> QED
  BY <1>2, <1>4, <1>5, <1>6 DEF new

LEMMA CompletedKept ==
    ASSUME NEW st \in State, NEW r \in Runs, NEW ok \in BOOLEAN, NEW t \in 0 .. MaxTime,
           NEW ids, Kept(st, ids, t), Completable(st, r)
    PROVE  Kept(Completed(st, r, ok, t), ids, t)
<1>1. PICK new : new = Completed(st, r, ok, t)
  OBVIOUS
<1>2. PICK j \in Jobs : j = st.runs[r].job
  BY DEF State, Run
<1>3. /\ new \in State /\ new.dedupe = st.dedupe
      /\ \A s \in Runs : s # r => new.runs[s] = st.runs[s]
      /\ new.runs[r].status \in {"succeeded", "failed"}
      /\ new.runs[r].job = j /\ new.runs[r].key = st.runs[r].key
      /\ \A k \in Jobs : k # j => new.jobs[k] = st.jobs[k]
      /\ new.jobs[j] = IF ~st.jobs[j].present THEN st.jobs[j]
                       ELSE IF ok THEN Won(j, st.jobs[j]) ELSE Lost(j, st.jobs[j])
  BY <1>1, <1>2, CompletedForm
<1>4. Within(new, t)
  <2>1. \A s \in Runs : new.runs[s].status = "running" => new.runs[s] = st.runs[s]
    BY <1>3
  <2> QED
    BY <1>3, <2>1, FewerRunning DEF Kept
<1>5. /\ new.jobs[j].status = "completed" => Exhausted(j, new.jobs[j].successes)
      /\ Def[j].deadAfter > 0 /\ new.jobs[j].failures >= Def[j].deadAfter => new.jobs[j].dead
  <2> DEFINE job == st.jobs[j]
  <2>1. job \in Job /\ Def[j].deadAfter \in Nat
    BY SchedulerAssumption DEF State, Definition
  <2>2. /\ job.status = "completed" => Exhausted(j, job.successes)
        /\ Def[j].deadAfter > 0 /\ job.failures >= Def[j].deadAfter => job.dead
    BY DEF Kept, Spent, Buried
  <2>3. /\ Won(j, job).status = "completed" => Exhausted(j, Won(j, job).successes)
        /\ Def[j].deadAfter > 0 => ~(Won(j, job).failures >= Def[j].deadAfter)
    <3>1. /\ Won(j, job).status = "completed" => Exhausted(j, job.successes + 1)
          /\ Won(j, job).successes = job.successes + 1 /\ Won(j, job).failures = 0
      BY <2>1 DEF Won, Job
    <3> QED
      BY <2>1, <3>1
  <2>4. /\ Lost(j, job).status = "completed" => Exhausted(j, Lost(j, job).successes)
        /\ Def[j].deadAfter > 0 /\ Lost(j, job).failures >= Def[j].deadAfter => Lost(j, job).dead
    <3>1. /\ Lost(j, job).status = "completed" => job.status = "completed"
          /\ Lost(j, job).successes = job.successes /\ Lost(j, job).failures = job.failures + 1
          /\ Def[j].deadAfter > 0 /\ job.failures + 1 >= Def[j].deadAfter => Lost(j, job).dead
      BY <2>1 DEF Lost, Job
    <3> QED
      BY <2>2, <3>1
  <2> QED
    BY <1>3, <2>2, <2>3, <2>4
<1>6. Spent(new) /\ Buried(new)
  BY <1>3, <1>5 DEF Kept, Spent, Buried
<1>7. Faithful(new, ids)
  <2> SUFFICES ASSUME NEW i \in Jobs, NEW k \in Keys, new.dedupe[<<i, k>>] # NoRun
               PROVE  LET s == new.dedupe[<<i, k>>] IN
                      /\ s \notin ids
                      /\ new.runs[s].status # "absent" =>
                            new.runs[s].job = i /\ new.runs[s].key = k /\ new.runs[s].status # "skipped"
    BY DEF Faithful
  <2>1. PICK s \in Runs : s = st.dedupe[<<i, k>>] /\ s = new.dedupe[<<i, k>>]
    BY <1>3 DEF State
  <2>2. s \notin ids /\ (st.runs[s].status # "absent" => st.runs[s].job = i /\ st.runs[s].key = k
                                                         /\ st.runs[s].status # "skipped")
    <3>1. st.dedupe[<<i, k>>] # NoRun
      BY <2>1
    <3>2. LET q == st.dedupe[<<i, k>>] IN
          /\ q \notin ids
          /\ st.runs[q].status # "absent" => st.runs[q].job = i /\ st.runs[q].key = k
                                            /\ st.runs[q].status # "skipped"
      BY <3>1 DEF Kept, Faithful
    <3> QED
      BY <2>1, <3>2
  <2> QED
    BY <1>2, <1>3, <2>1, <2>2 DEF Completable
<1> QED
  BY <1>1, <1>4, <1>6, <1>7 DEF Kept

\* Edits of a job and its removal.
LEMMA EditedKept ==
    ASSUME NEW st \in State, NEW new, NEW ids, NEW t \in Int, Kept(st, ids, t), Edited(st, new)
    PROVE  Kept(new, ids, t)
<1>1. PICK j \in Jobs, job \in Job :
         /\ new = [st EXCEPT !.jobs[j] = job]
         /\ job.successes = st.jobs[j].successes /\ job.failures = st.jobs[j].failures
         /\ job.dead = st.jobs[j].dead
         /\ job.status = "completed" => st.jobs[j].status = "completed"
  BY DEF Edited
<1>2. /\ new \in State /\ new.runs = st.runs /\ new.dedupe = st.dedupe
      /\ \A k \in Jobs : new.jobs[k] = IF k = j THEN job ELSE st.jobs[k]
  BY <1>1 DEF State
<1>3. Within(new, t)
  BY <1>2, FewerRunning DEF Kept
<1>4. Spent(new) /\ Buried(new)
  BY <1>1, <1>2 DEF Kept, Spent, Buried
<1>5. Faithful(new, ids)
  BY <1>2 DEF Kept, Faithful
<1> QED
  BY <1>3, <1>4, <1>5 DEF Kept

LEMMA RemovedKept ==
    ASSUME NEW st \in State, NEW new, NEW ids, NEW t \in Int, Kept(st, ids, t), Removed(st, new)
    PROVE  Kept(new, ids, t)
<1>1. PICK j \in Jobs : new = Without(st, j)
  BY DEF Removed
<1>2. /\ new \in State /\ new.runs = st.runs
      /\ \A k \in Jobs : new.jobs[k] = IF k = j THEN AbsentJob ELSE st.jobs[k]
      /\ \A jk \in Jobs \X Keys : new.dedupe[jk] = IF jk[1] = j THEN NoRun ELSE st.dedupe[jk]
  <2> DEFINE jobs   == [st.jobs EXCEPT ![j] = AbsentJob]
             dedupe == [jk \in Jobs \X Keys |-> IF jk[1] = j THEN NoRun ELSE st.dedupe[jk]]
  <2>1. new = [jobs |-> jobs, runs |-> st.runs, dedupe |-> dedupe]
    BY <1>1 DEF Without, State
  <2>2. jobs \in [Jobs -> Job] /\ \A k \in Jobs : jobs[k] = IF k = j THEN AbsentJob ELSE st.jobs[k]
    BY ConstantTypes DEF State
  <2>3. dedupe \in [Jobs \X Keys -> Runs \cup {NoRun}] /\ st.runs \in [Runs -> Run]
    BY DEF State
  <2>4. \A jk \in Jobs \X Keys : dedupe[jk] = IF jk[1] = j THEN NoRun ELSE st.dedupe[jk]
    OBVIOUS
  <2> HIDE DEF jobs, dedupe
  <2> QED
    BY <2>1, <2>2, <2>3, <2>4 DEF State
<1>3. AbsentJob.status = "ready" /\ AbsentJob.failures = 0 /\ \A k \in Jobs : Def[k].deadAfter \in Nat
  BY SchedulerAssumption DEF AbsentJob, Definition
<1>4. Within(new, t)
  BY <1>2, FewerRunning DEF Kept
<1>5. Spent(new) /\ Buried(new)
  BY <1>2, <1>3 DEF Kept, Spent, Buried
<1>6. Faithful(new, ids)
  <2>1. \A k \in Jobs, i \in Keys : new.dedupe[<<k, i>>] \in {NoRun, st.dedupe[<<k, i>>]}
    BY <1>2
  <2> QED
    BY <1>2, <2>1 DEF Kept, Faithful
<1> QED
  BY <1>4, <1>5, <1>6 DEF Kept

LEMMA EmptyKept == \A ids, t : Kept(EmptyState, ids, t)
<1> SUFFICES ASSUME NEW ids, NEW t PROVE Kept(EmptyState, ids, t)
  OBVIOUS
<1>1. Within(EmptyState, t)
  <2>1. \A j \in Jobs : RunningRuns(EmptyState, j, t) = {}
    BY DEF RunningRuns, RunsWith, EmptyState, AbsentRun
  <2> QED
    BY <2>1, FS_EmptySet, SchedulerAssumption DEF Within, Definition
<1>2. Spent(EmptyState) /\ Buried(EmptyState) /\ Faithful(EmptyState, ids)
  BY SchedulerAssumption DEF Spent, Buried, Faithful, EmptyState, AbsentJob, Definition
<1> QED
  BY <1>1, <1>2 DEF Kept

\* Every copy that a step leaves keeps within the bounds.
LEMMA KStep == KInv /\ IInv' /\ StepForm => KInv'
<1> SUFFICES ASSUME KInv, IInv', StepForm PROVE KInv'
  OBVIOUS
<1>1. /\ now \in 0 .. MaxTime /\ now' \in 0 .. MaxTime /\ now <= now' /\ disk \in State
      /\ disk' \in State
      /\ Runs \ used' \in SUBSET (Runs \ used) /\ Runs \ used \in SUBSET Runs
      /\ \A p \in Procs : mem[p] \in State /\ mem'[p] \in State
  BY SchedulerAssumption DEF KInv, IInv, TypeOK, StepForm
<1>2. \A st \in State : Kept(st, Runs \ used, now) => Kept(st, Runs \ used', now')
  BY <1>1, KeptLater
<1>3. \A st \in State : Kept(st, Runs \ used', now) => Kept(st, Runs \ used', now')
  BY <1>1, KeptLater
<1>4. Kept(disk, Runs \ used, now) /\ \A p \in Procs : Kept(mem[p], Runs \ used, now)
  BY DEF KInv
<1>5. \A p \in Procs : Base(p) \in State /\ Kept(Base(p), Runs \ used, now)
  BY <1>1, <1>4, ReclaimedKept, ReclaimedType DEF Base
<1>6. ASSUME NEW p \in Procs PROVE Kept(mem'[p], Runs \ used', now')
  <2>1. CASE mem'[p] = mem[p]
    BY <1>1, <1>2, <1>4, <2>1
  <2>2. CASE mem'[p] = Base(p)
    BY <1>2, <1>5, <2>2
  <2>3. CASE Edited(mem[p], mem'[p])
    <3>1. Kept(mem'[p], Runs \ used, now)
      BY <1>1, <1>4, <2>3, EditedKept
    <3> QED
      BY <1>1, <1>2, <3>1
  <2>4. CASE Removed(mem[p], mem'[p])
    <3>1. Kept(mem'[p], Runs \ used, now)
      BY <1>1, <1>4, <2>4, RemovedKept
    <3> QED
      BY <1>1, <1>2, <3>1
  <2>5. CASE Committed(p, mem'[p])
    <3>1. PICK D \in SUBSET Jobs, key \in Keys \cup {NoKey}, event \in BOOLEAN :
             \E ids \in Injection(D, Fresh) : \E outcome :
                /\ \A j \in D : outcome[j] = "started" => MayStart(Base(p), j, key)
                /\ key # NoKey => event
                /\ used' = used \cup Range(ids)
                /\ mem'[p] \in Finals(Decided(Base(p), D, ids, outcome, key, now), event)
      BY <2>5 DEF Committed
    <3>2. PICK ids \in Injection(D, Fresh) : \E outcome :
                /\ \A j \in D : outcome[j] = "started" => MayStart(Base(p), j, key)
                /\ used' = used \cup Range(ids)
                /\ mem'[p] \in Finals(Decided(Base(p), D, ids, outcome, key, now), event)
      BY <3>1
    <3>3. PICK outcome :
                /\ \A j \in D : outcome[j] = "started" => MayStart(Base(p), j, key)
                /\ used' = used \cup Range(ids)
                /\ mem'[p] \in Finals(Decided(Base(p), D, ids, outcome, key, now), event)
      BY <3>2
    <3>4. PICK st : st = Decided(Base(p), D, ids, outcome, key, now)
      OBVIOUS
    <3>5. Fresh = Runs \ used /\ Fresh \ Range(ids) = Runs \ used'
      BY <3>3 DEF Fresh
    <3>6. \A j \in D : outcome[j] = "started" => ~Leased(Base(p), j, now)
      BY <3>3 DEF MayStart
    <3>7. Kept(st, Runs \ used', now)
      BY <1>1, <1>5, <3>4, <3>5, <3>6, DecidedKept
    <3>8. st \in State
      <4>1. ids \in [D -> Runs]
        BY DEF Injection, Fresh
      <4> QED
        BY <1>1, <1>5, <3>4, <4>1, DecidedType
    <3>9. Kept(mem'[p], Runs \ used', now)
      BY <1>1, <3>3, <3>4, <3>7, <3>8, PrunedKept
    <3> QED
      BY <1>1, <1>3, <3>9
  <2>6. CASE Ended(mem[p], mem'[p])
    <3>1. PICK r \in Runs, ok \in BOOLEAN :
             Completable(mem[p], r) /\ mem'[p] \in Pruned(Completed(mem[p], r, ok, now))
      BY <2>6 DEF Ended
    <3>2. PICK st \in State : st = Completed(mem[p], r, ok, now)
      BY <1>1, CompletedType
    <3>3. Kept(st, Runs \ used, now)
      BY <1>1, <1>4, <3>1, <3>2, CompletedKept
    <3>4. mem'[p] \in Finals(st, FALSE) /\ now \in Int
      BY <1>1, <3>1, <3>2 DEF Finals
    <3>5. Kept(mem'[p], Runs \ used, now)
      BY <3>3, <3>4, PrunedKept
    <3> QED
      BY <1>1, <1>2, <3>5
  <2>7. CASE mem'[p] = Reclaimed(disk, now)
    BY <1>1, <1>2, <1>4, <2>7, ReclaimedKept
  <2>8. CASE mem'[p] = EmptyState
    BY <2>8, EmptyKept
  <2> QED
    BY <2>1, <2>2, <2>3, <2>4, <2>5, <2>6, <2>7, <2>8 DEF StepForm, Moves
<1>7. Kept(disk', Runs \ used', now')
  <2>1. CASE disk' = disk
    BY <1>1, <1>2, <1>4, <2>1
  <2>2. CASE \E p \in Procs : disk' \in {Base(p), mem'[p]}
    BY <1>2, <1>5, <1>6, <2>2
  <2> QED
    BY <2>1, <2>2 DEF StepForm
<1> QED
  BY <1>6, <1>7 DEF KInv

LEMMA KeptAlways == Spec => []KInv
<1>1. Init => KInv
  BY IInvInit, EmptyKept DEF Init, KInv
<1>2. IInv => TypeOK
  BY DEF IInv
<1>3. KInv => IInv
  BY DEF KInv
<1> QED
  BY <1>1, <1>2, <1>3, IInvStep, StepMoves, KStep, PTL DEF Spec

\* No copy of the state ever has more unexpired runs of a job than its
\* MaxConcurrency, and an event key counts as handled only for a run that was
\* started for it: for any number of processes, crashes and failed saves.
THEOREM AlwaysBounded == Spec => []Bounded
<1>1. KInv => ConcurrencyBound
  BY DEF KInv, IInv, TypeOK, Kept, Within, ConcurrencyBound, Copies
<1>2. KInv => DedupeFaithful
  BY DEF KInv, IInv, TypeOK, Kept, Faithful, DedupeFaithful, Copies
<1> QED
  BY <1>1, <1>2, KeptAlways, PTL DEF Bounded

-----------------------------------------------------------------------------
\* What the properties of steps need of each form of step.

\* Writing off leaves the dedupe entries, what the jobs have been through and every
\* run that is not running.
LEMMA ReclaimedForm ==
    ASSUME NEW st \in State, NEW t \in 0 .. MaxTime
    PROVE  LET new == Reclaimed(st, t) IN
           /\ new \in State /\ new.dedupe = st.dedupe
           /\ \A j \in Jobs : /\ new.jobs[j].present = st.jobs[j].present
                              /\ new.jobs[j].dead = st.jobs[j].dead
           /\ \A r \in Runs : /\ st.runs[r].status # "running" => new.runs[r] = st.runs[r]
                              /\ new.runs[r].status = "running" => new.runs[r] = st.runs[r]
<1> DEFINE new == Reclaimed(st, t)
<1>1. new \in State
  BY ReclaimedType
<1>2. /\ new.dedupe = st.dedupe
      /\ \A j \in Jobs : /\ new.jobs[j].present = st.jobs[j].present
                         /\ new.jobs[j].dead = st.jobs[j].dead
  BY DEF Reclaimed, State, Job
<1>3. \A r \in Runs : new.runs[r] = st.runs[r]
         \/ (st.runs[r].status = "running" /\ new.runs[r] = [st.runs[r] EXCEPT !.status = "interrupted", !.done = t])
  BY DEF Reclaimed, State, Expired, RunsWith
<1>4. ASSUME NEW r \in Runs
      PROVE  /\ st.runs[r].status # "running" => new.runs[r] = st.runs[r]
             /\ new.runs[r].status = "running" => new.runs[r] = st.runs[r]
  <2>1. st.runs[r] \in Run
    BY DEF State
  <2> DEFINE off == [st.runs[r] EXCEPT !.status = "interrupted", !.done = t]
  <2>2. off.status = "interrupted"
    BY <2>1 DEF Run
  <2>3. new.runs[r] = st.runs[r] \/ (st.runs[r].status = "running" /\ new.runs[r] = off)
    BY <1>3, Zenon
  <2> HIDE DEF new, off
  <2> QED
    BY <2>2, <2>3
<1> QED
  BY <1>1, <1>2, <1>4

\* st is what the decisions make of the state of process p: jobs keep what they have
\* been through, and a run that is new has an identifier that is new, and may start.
Opened(p, st, key) ==
    /\ \A j \in Jobs : /\ st.jobs[j].present = Base(p).jobs[j].present
                       /\ st.jobs[j].dead = Base(p).jobs[j].dead
    /\ \A jk \in Jobs \X Keys : st.dedupe[jk] = Base(p).dedupe[jk] \/ jk[2] = key
    /\ \A r \in Runs : \/ st.runs[r] = Base(p).runs[r]
                       \/ /\ r \in Fresh /\ st.runs[r].key = key
                          /\ st.runs[r].status = "running" =>
                                /\ MayStart(Base(p), st.runs[r].job, key)
                                /\ key # NoKey => st.dedupe[<<st.runs[r].job, key>>] = r

LEMMA CommittedForm ==
    ASSUME TypeOK, NEW p \in Procs, NEW new, Committed(p, new)
    PROVE  \E st \in State, key \in Keys \cup {NoKey}, event \in BOOLEAN :
              Opened(p, st, key) /\ (key # NoKey => event) /\ new \in Finals(st, event)
<1>1. PICK D \in SUBSET Jobs, key \in Keys \cup {NoKey}, event \in BOOLEAN :
         \E ids \in Injection(D, Fresh) : \E outcome :
            /\ \A j \in D : outcome[j] = "started" => MayStart(Base(p), j, key)
            /\ key # NoKey => event
            /\ new \in Finals(Decided(Base(p), D, ids, outcome, key, now), event)
  BY DEF Committed
<1>2. PICK ids \in Injection(D, Fresh) : \E outcome :
         /\ \A j \in D : outcome[j] = "started" => MayStart(Base(p), j, key)
         /\ new \in Finals(Decided(Base(p), D, ids, outcome, key, now), event)
  BY <1>1
<1>3. PICK outcome :
         /\ \A j \in D : outcome[j] = "started" => MayStart(Base(p), j, key)
         /\ new \in Finals(Decided(Base(p), D, ids, outcome, key, now), event)
  BY <1>2
<1>4. PICK st : st = Decided(Base(p), D, ids, outcome, key, now)
  OBVIOUS
<1>5. ids \in [D -> Fresh] /\ (\A j, k \in D : ids[j] = ids[k] => j = k) /\ ids \in [D -> Runs]
  BY DEF Injection, IsInjective, Fresh
<1>6. Base(p) \in State /\ now \in 0 .. MaxTime
  BY BaseType DEF TypeOK
<1>7. st \in State
  BY <1>4, <1>5, <1>6, DecidedType
<1>8. \A j \in Jobs : st.jobs[j] = Resolved(Base(p), j, outcome[j], now) \/ st.jobs[j] = Base(p).jobs[j]
  BY <1>4 DEF Decided
<1>9. \A j \in Jobs : /\ Resolved(Base(p), j, outcome[j], now).present = Base(p).jobs[j].present
                      /\ Resolved(Base(p), j, outcome[j], now).dead = Base(p).jobs[j].dead
  BY <1>6 DEF Resolved, State, Job
<1>10. \A jk \in Jobs \X Keys : st.dedupe[jk] = IF jk[1] \in D /\ Enters(outcome[jk[1]], jk[2], key)
                                                THEN ids[jk[1]] ELSE Base(p).dedupe[jk]
  BY <1>4 DEF Decided
<1>11. \A r \in Runs : (~ \E j \in D : ids[j] = r) => st.runs[r] = Base(p).runs[r]
  BY <1>4 DEF Decided
<1>12. \A j \in D : st.runs[ids[j]] = RunOf(j, key, outcome[j], now)
  BY <1>4, <1>5 DEF Decided
<1>13. \A j \in D : LET run == RunOf(j, key, outcome[j], now) IN
          run.job = j /\ run.key = key /\ (run.status = "running" <=> outcome[j] = "started")
  BY DEF RunOf
<1>14. ASSUME NEW j \in D
       PROVE  /\ ids[j] \in Fresh /\ st.runs[ids[j]].key = key
              /\ st.runs[ids[j]].status = "running" =>
                    /\ MayStart(Base(p), st.runs[ids[j]].job, key)
                    /\ key # NoKey => st.dedupe[<<st.runs[ids[j]].job, key>>] = ids[j]
  <2>1. st.runs[ids[j]].job = j /\ st.runs[ids[j]].key = key /\ ids[j] \in Fresh
        /\ (st.runs[ids[j]].status = "running" <=> outcome[j] = "started")
    BY <1>5, <1>12, <1>13
  <2>2. ASSUME key # NoKey, outcome[j] = "started" PROVE st.dedupe[<<j, key>>] = ids[j]
    <3>1. <<j, key>> \in Jobs \X Keys /\ <<j, key>>[1] = j /\ <<j, key>>[2] = key
      BY <2>2
    <3> QED
      BY <1>10, <2>2, <3>1 DEF Enters
  <2> QED
    BY <1>3, <2>1, <2>2
<1>15. Opened(p, st, key)
  <2>1. \A jk \in Jobs \X Keys : st.dedupe[jk] = Base(p).dedupe[jk] \/ jk[2] = key
    BY <1>10 DEF Enters
  <2>2. \A j \in Jobs : st.jobs[j].present = Base(p).jobs[j].present /\ st.jobs[j].dead = Base(p).jobs[j].dead
    BY <1>8, <1>9
  <2>3. \A r \in Runs : \/ st.runs[r] = Base(p).runs[r]
                        \/ /\ r \in Fresh /\ st.runs[r].key = key
                           /\ st.runs[r].status = "running" =>
                                 /\ MayStart(Base(p), st.runs[r].job, key)
                                 /\ key # NoKey => st.dedupe[<<st.runs[r].job, key>>] = r
    BY <1>11, <1>14
  <2> QED
    BY <2>1, <2>2, <2>3 DEF Opened
<1> QED
  BY <1>1, <1>3, <1>4, <1>7, <1>15

\* Operations on definitions touch no run.
LEMMA SameRuns ==
    ASSUME NEW st \in State, NEW new, Edited(st, new) \/ Removed(st, new)
    PROVE  new.runs = st.runs
<1>1. CASE Edited(st, new)
  BY <1>1 DEF Edited, State
<1>2. CASE Removed(st, new)
  <2>1. PICK j \in Jobs : new = Without(st, j)
    BY <1>2 DEF Removed
  <2> QED
    BY <2>1 DEF Without, State
<1> QED
  BY <1>1, <1>2

\* Every form of step keeps the outcomes there are, lets only those runs start that
\* may, and starts none a second time.
LEMMA RunMoves ==
    ASSUME IInv, NEW p \in Procs, Moves(p), NEW r \in Runs
    PROVE  /\ mem[p].runs[r].status \in Terminal =>
                 mem'[p].runs[r].status \in {mem[p].runs[r].status, "absent"}
           /\ r \in Fresh /\ mem'[p].runs[r].status = "running" =>
                 MayStart(Base(p), mem'[p].runs[r].job, mem'[p].runs[r].key)
           /\ r \notin Fresh /\ mem'[p].runs[r].status = "running" =>
                 mem[p].runs[r].status = "running"
<1>1. TypeOK /\ mem[p] \in State /\ now \in 0 .. MaxTime /\ "running" \notin Terminal
  BY DEF IInv, TypeOK, Terminal
<1>2. \A s \in Fresh : mem[p].runs[s].status = "absent"
  BY DEF IInv, Sound, Unused, Fresh
<1>3. /\ mem[p].runs[r].status # "running" => Base(p).runs[r] = mem[p].runs[r]
      /\ Base(p).runs[r].status = "running" => Base(p).runs[r] = mem[p].runs[r]
  BY <1>1, ReclaimedForm DEF Base
<1>4. AbsentRun.status = "absent"
  BY DEF AbsentRun
<1>5. CASE mem'[p] = mem[p] \/ mem'[p] = Base(p)
  BY <1>1, <1>2, <1>3, <1>5
<1>6. CASE Edited(mem[p], mem'[p]) \/ Removed(mem[p], mem'[p])
  <2>1. mem'[p].runs = mem[p].runs
    BY <1>1, <1>6, SameRuns
  <2> QED
    BY <1>2, <2>1
<1>8. CASE Committed(p, mem'[p])
  <2>1. PICK st \in State, key \in Keys \cup {NoKey}, event \in BOOLEAN :
             Opened(p, st, key) /\ mem'[p] \in Finals(st, event)
    BY <1>1, <1>8, CommittedForm
  <2>2. mem'[p].runs[r] = st.runs[r] \/ (st.runs[r].status \in Terminal /\ mem'[p].runs[r] = AbsentRun)
    BY <2>1, PrunedForm
  <2>3. \/ st.runs[r] = Base(p).runs[r]
        \/ /\ r \in Fresh /\ st.runs[r].key = key
           /\ st.runs[r].status = "running" => MayStart(Base(p), st.runs[r].job, key)
    BY <2>1 DEF Opened
  <2>4. mem[p].runs[r].status = "absent" => mem[p].runs[r].status \notin Terminal
    BY DEF Terminal
  <2> QED
    BY <1>1, <1>2, <1>3, <1>4, <2>2, <2>3, <2>4
<1>9. CASE Ended(mem[p], mem'[p])
  <2>1. PICK s \in Runs, ok \in BOOLEAN :
             Completable(mem[p], s) /\ mem'[p] \in Pruned(Completed(mem[p], s, ok, now))
    BY <1>9 DEF Ended
  <2>2. PICK st : st = Completed(mem[p], s, ok, now)
    OBVIOUS
  <2>3. /\ st \in State /\ st.runs[s].status \in {"succeeded", "failed"}
        /\ r # s => st.runs[r] = mem[p].runs[r]
    BY <1>1, <2>2, CompletedForm
  <2>4. mem'[p] \in Finals(st, FALSE)
    BY <2>1, <2>2 DEF Finals
  <2>5. mem'[p].runs[r] = st.runs[r] \/ (st.runs[r].status \in Terminal /\ mem'[p].runs[r] = AbsentRun)
    BY <2>3, <2>4, PrunedForm
  <2>6. mem[p].runs[s].status = "running"
    BY <2>1 DEF Completable
  <2> QED
    BY <1>1, <1>2, <1>4, <2>3, <2>5, <2>6
<1> QED
  BY <1>5, <1>6, <1>8, <1>9 DEF Moves

\* A step of a process that was up and stays up is one of the moves.
LEMMA UpMoves == StepForm => \A p \in Procs : p \in up \cap up' => Moves(p)
BY DEF StepForm

\* An outcome never changes: whatever completes late or twice, and whoever reclaims.
THEOREM OutcomeNeverChanges == Spec => OutcomeIsFinal
<1>1. IInv /\ StepForm => \A p \in up \cap up', r \in Runs :
          mem[p].runs[r].status \in Terminal =>
             mem'[p].runs[r].status \in {mem[p].runs[r].status, "absent"}
  BY RunMoves, UpMoves DEF IInv, TypeOK
<1>2. IInv => TypeOK
  BY DEF IInv
<1>3. IInv /\ [Next]_vars =>
          [\A p \in up \cap up', r \in Runs :
              mem[p].runs[r].status \in Terminal =>
                 mem'[p].runs[r].status \in {mem[p].runs[r].status, "absent"}]_vars
  BY <1>1, <1>2, StepMoves
<1> QED
  BY <1>3, IInvInit, IInvStep, PTL DEF Spec, OutcomeIsFinal

\* A dead letter stays one until its job is removed.
LEMMA DeadStays ==
    ASSUME IInv, NEW p \in Procs, Moves(p), NEW j \in Jobs,
           mem[p].jobs[j].dead, mem'[p].jobs[j].present
    PROVE  mem'[p].jobs[j].dead
<1>1. TypeOK /\ mem[p] \in State /\ mem[p].jobs[j] \in Job /\ now \in 0 .. MaxTime
  BY DEF IInv, TypeOK, State
<1>2. Base(p).jobs[j].dead
  BY <1>1, ReclaimedForm DEF Base
<1>3. CASE Edited(mem[p], mem'[p])
  <2>1. PICK k \in Jobs, job \in Job : mem'[p] = [mem[p] EXCEPT !.jobs[k] = job] /\ job.dead = mem[p].jobs[k].dead
    BY <1>3 DEF Edited
  <2>2. mem'[p].jobs[j] = IF j = k THEN job ELSE mem[p].jobs[j]
    BY <1>1, <2>1 DEF State
  <2> QED
    BY <2>1, <2>2
<1>4. CASE Removed(mem[p], mem'[p])
  <2>1. PICK k \in Jobs : mem'[p] = Without(mem[p], k)
    BY <1>4 DEF Removed
  <2>2. mem'[p].jobs[j] = IF j = k THEN AbsentJob ELSE mem[p].jobs[j]
    BY <1>1, <2>1 DEF State, Without
  <2> QED
    BY <2>2 DEF AbsentJob
<1>5. CASE Committed(p, mem'[p])
  <2>1. PICK st \in State, key \in Keys \cup {NoKey}, event \in BOOLEAN :
             Opened(p, st, key) /\ mem'[p] \in Finals(st, event)
    BY <1>1, <1>5, CommittedForm
  <2>2. mem'[p].jobs = st.jobs /\ st.jobs[j].dead = Base(p).jobs[j].dead
    BY <2>1, PrunedForm DEF Opened
  <2> QED
    BY <1>2, <2>2
<1>6. CASE Ended(mem[p], mem'[p])
  <2>1. PICK s \in Runs, ok \in BOOLEAN : mem'[p] \in Pruned(Completed(mem[p], s, ok, now))
    BY <1>6 DEF Ended
  <2>2. PICK st \in State : st = Completed(mem[p], s, ok, now)
    BY <1>1, CompletedType
  <2>3. PICK k \in Jobs : k = mem[p].runs[s].job
    BY <1>1 DEF State, Run
  <2>4. /\ j # k => st.jobs[j] = mem[p].jobs[j]
        /\ st.jobs[k] = IF ~mem[p].jobs[k].present THEN mem[p].jobs[k]
                        ELSE IF ok THEN Won(k, mem[p].jobs[k]) ELSE Lost(k, mem[p].jobs[k])
    BY <1>1, <2>2, <2>3, CompletedForm
  <2>5. Won(j, mem[p].jobs[j]).dead = mem[p].jobs[j].dead /\ Lost(j, mem[p].jobs[j]).dead
    BY <1>1 DEF Won, Lost, Job
  <2>6. mem'[p] \in Finals(st, FALSE)
    BY <2>1, <2>2 DEF Finals
  <2>7. mem'[p].jobs = st.jobs
    BY <2>2, <2>6, PrunedForm
  <2> QED
    BY <2>4, <2>5, <2>7
<1> QED
  BY <1>2, <1>3, <1>4, <1>5, <1>6 DEF Moves

\* A job that failed as often as it may is dead-lettered, stays so until it is
\* removed, and starts nothing: re-imports, resumes and late successes included.
THEOREM DeadLetterAlwaysHolds == Spec => DeadLetterHolds
<1> DEFINE Holds == \A p \in up \cap up', j \in Jobs :
              LET job == mem[p].jobs[j]  job2 == mem'[p].jobs[j] IN
              /\ Def[j].deadAfter > 0 /\ job2.failures >= Def[j].deadAfter => job2.dead
              /\ job.dead /\ job2.present =>
                    /\ job2.dead
                    /\ \A r \in Runs \ used : mem'[p].runs[r].status = "running" =>
                                                  mem'[p].runs[r].job # j
<1>1. ASSUME KInv, KInv', StepForm, NEW p \in up \cap up', NEW j \in Jobs
      PROVE  /\ Def[j].deadAfter > 0 /\ mem'[p].jobs[j].failures >= Def[j].deadAfter
                   => mem'[p].jobs[j].dead
             /\ mem[p].jobs[j].dead /\ mem'[p].jobs[j].present =>
                   /\ mem'[p].jobs[j].dead
                   /\ \A r \in Runs \ used : mem'[p].runs[r].status = "running" =>
                                                 mem'[p].runs[r].job # j
  <2>1. /\ IInv /\ TypeOK /\ p \in Procs /\ Moves(p) /\ mem[p] \in State /\ now \in 0 .. MaxTime
        /\ Kept(mem'[p], Runs \ used', now')
    BY <1>1, UpMoves DEF KInv, IInv, TypeOK
  <2>2. Def[j].deadAfter > 0 /\ mem'[p].jobs[j].failures >= Def[j].deadAfter => mem'[p].jobs[j].dead
    BY <2>1 DEF Kept, Buried
  <2>3. mem[p].jobs[j].dead /\ mem'[p].jobs[j].present => mem'[p].jobs[j].dead
    BY <2>1, DeadStays
  <2>4. ASSUME mem[p].jobs[j].dead, NEW r \in Runs \ used, mem'[p].runs[r].status = "running"
        PROVE  mem'[p].runs[r].job # j
    <3>1. r \in Fresh
      BY DEF Fresh
    <3>2. MayStart(Base(p), mem'[p].runs[r].job, mem'[p].runs[r].key)
      BY <2>1, <2>4, <3>1, RunMoves
    <3>3. Base(p).jobs[j].dead
      BY <2>1, <2>4, ReclaimedForm DEF Base
    <3> QED
      BY <3>2, <3>3 DEF MayStart
  <2> QED
    BY <2>2, <2>3, <2>4
<1>2. KInv /\ KInv' /\ StepForm => Holds
  BY <1>1
<1>3. (UNCHANGED vars) /\ TypeOK => StepForm
  BY StepMoves
<1> HIDE DEF Holds
<1>4. KInv => TypeOK
  BY DEF KInv, IInv
<1>5. KInv /\ KInv' /\ [Next]_vars => [Holds]_vars
  BY <1>2, <1>4, StepMoves
<1>6. [][Holds]_vars => DeadLetterHolds
  BY PTL DEF Holds, DeadLetterHolds
<1> QED
  BY <1>5, <1>6, KeptAlways, PTL DEF Spec

-----------------------------------------------------------------------------
\* Dedupe entries.  There are finitely many jobs, so each copy has finitely many entries,
\* and the retention counts them.

Entries(st) == {jk \in Jobs \X Keys : st.dedupe[jk] # NoRun}

FInv == IsFiniteSet(Entries(disk)) /\ \A p \in Procs : IsFiniteSet(Entries(mem[p]))

\* Pruning the entries leaves as many as the retention allows, if it drops any.
LEMMA DedupePrunedLeaves ==
    ASSUME NEW st \in State, IsFiniteSet(Entries(st)), NEW s \in DedupePruned(st),
           s.dedupe # st.dedupe
    PROVE  Cardinality(Entries(s)) >= DedupeRetention
<1> DEFINE K      == Entries(st)
           excess == IF Cardinality(K) > DedupeRetention THEN Cardinality(K) - DedupeRetention ELSE 0
<1>1. PICK X \in SUBSET K :
         /\ Cardinality(X) = excess
         /\ s = [st EXCEPT !.dedupe = [jk \in Jobs \X Keys |-> IF jk \in X THEN NoRun ELSE @[jk]]]
  BY DEF DedupePruned, Entries
<1>2. s.dedupe = [jk \in Jobs \X Keys |-> IF jk \in X THEN NoRun ELSE st.dedupe[jk]]
  BY <1>1 DEF State
<1>3. Entries(s) = K \ X
  BY <1>2 DEF Entries
<1>4. X # {}
  <2>1. SUFFICES ASSUME X = {} PROVE s.dedupe = st.dedupe
    OBVIOUS
  <2>2. st.dedupe \in [Jobs \X Keys -> Runs \cup {NoRun}]
    BY DEF State
  <2> QED
    BY <1>2, <2>1, <2>2
<1>5. IsFiniteSet(X) /\ Cardinality(X) \in Nat /\ Cardinality(K) \in Nat /\ Cardinality(X) # 0
  BY <1>4, FS_Subset, FS_CardinalityType, FS_EmptySet
<1>6. Cardinality(K) = Cardinality(K \ X) + Cardinality(X)
  <2>1. IsFiniteSet(K \ X) /\ Cardinality(K \ X) \in Nat
    BY FS_Subset, FS_CardinalityType
  <2>2. K = (K \ X) \cup X /\ (K \ X) \cap X = {}
    OBVIOUS
  <2> HIDE DEF K
  <2>3. Cardinality((K \ X) \cup X)
           = Cardinality(K \ X) + Cardinality(X) - Cardinality((K \ X) \cap X)
    BY <1>5, <2>1, FS_Union
  <2>4. Cardinality((K \ X) \cap X) = 0
    BY <2>2, FS_EmptySet
  <2>5. Cardinality(K) = Cardinality((K \ X) \cup X)
    BY <2>2, Zenon
  <2> QED
    BY <1>5, <2>1, <2>3, <2>4, <2>5
<1>7. Cardinality(K \ X) \in Nat
  BY FS_Subset, FS_CardinalityType
<1>8. DedupeRetention \in Nat /\ Cardinality(X) = Cardinality(K) - DedupeRetention
  BY <1>1, <1>5, SchedulerAssumption
<1> HIDE DEF K
<1> QED
  BY <1>3, <1>5, <1>6, <1>7, <1>8

\* Decisions add entries but for one key.
LEMMA OpenedEntries ==
    ASSUME IsFiniteSet(Jobs), NEW p \in Procs, NEW st, NEW key, Opened(p, st, key),
           IsFiniteSet(Entries(Base(p)))
    PROVE  IsFiniteSet(Entries(st))
<1> DEFINE New == Jobs \X {key}
           f   == [j \in Jobs |-> <<j, key>>]
<1>1. f \in Surjection(Jobs, New)
  <2>1. f \in [Jobs -> New]
    OBVIOUS
  <2>2. \A jk \in New : \E j \in Jobs : f[j] = jk
    OBVIOUS
  <2> HIDE DEF f, New
  <2> QED
    BY <2>1, <2>2 DEF Surjection
<1>2. IsFiniteSet(New)
  <2> HIDE DEF f, New
  <2> QED
    BY <1>1, FS_Surjection
<1>3. Entries(st) \subseteq Entries(Base(p)) \cup New
  BY DEF Entries, Opened
<1>4. IsFiniteSet(Entries(Base(p)) \cup New)
  BY <1>2, FS_Union
<1> QED
  BY <1>3, <1>4, FS_Subset

\* No step makes them infinite.
LEMMA FStep ==
    ASSUME IsFiniteSet(Jobs), FInv, IInv, StepForm
    PROVE  FInv'
<1>1. /\ TypeOK /\ now \in 0 .. MaxTime /\ disk \in State
      /\ \A p \in Procs : mem[p] \in State /\ IsFiniteSet(Entries(mem[p])) /\ IsFiniteSet(Entries(disk))
  BY DEF IInv, TypeOK, FInv
<1>2. \A p \in Procs : Entries(Base(p)) = Entries(mem[p])
  BY <1>1, ReclaimedForm DEF Base, Entries
<1>3. Entries(Reclaimed(disk, now)) = Entries(disk)
  BY <1>1, ReclaimedForm DEF Entries
<1>4. ASSUME NEW st \in State, NEW event \in BOOLEAN, NEW new \in Finals(st, event), IsFiniteSet(Entries(st))
      PROVE  IsFiniteSet(Entries(new))
  <2>1. Entries(new) \subseteq Entries(st)
    BY <1>4, PrunedForm DEF Entries
  <2> QED
    BY <1>4, <2>1, FS_Subset
<1>5. ASSUME NEW p \in Procs PROVE IsFiniteSet(Entries(mem'[p]))
  <2>1. CASE Edited(mem[p], mem'[p])
    <3>1. mem'[p].dedupe = mem[p].dedupe
      BY <1>1, <2>1 DEF Edited, State
    <3> QED
      BY <1>1, <3>1 DEF Entries
  <2>2. CASE Removed(mem[p], mem'[p])
    <3>1. PICK j \in Jobs : mem'[p] = Without(mem[p], j)
      BY <2>2 DEF Removed
    <3>2. mem'[p].dedupe = [jk \in Jobs \X Keys |-> IF jk[1] = j THEN NoRun ELSE mem[p].dedupe[jk]]
      BY <1>1, <3>1 DEF Without, State
    <3>3. Entries(mem'[p]) \subseteq Entries(mem[p])
      BY <3>2 DEF Entries
    <3> QED
      BY <1>1, <3>3, FS_Subset
  <2>3. CASE Committed(p, mem'[p])
    <3>1. PICK st \in State, key \in Keys \cup {NoKey}, event \in BOOLEAN :
               Opened(p, st, key) /\ mem'[p] \in Finals(st, event)
      BY <1>1, <2>3, CommittedForm
    <3>2. IsFiniteSet(Entries(st))
      BY <1>1, <1>2, <3>1, OpenedEntries
    <3> QED
      BY <1>4, <3>1, <3>2
  <2>4. CASE Ended(mem[p], mem'[p])
    <3>1. PICK s \in Runs, ok \in BOOLEAN : mem'[p] \in Pruned(Completed(mem[p], s, ok, now))
      BY <2>4 DEF Ended
    <3>2. PICK st : st = Completed(mem[p], s, ok, now)
      OBVIOUS
    <3>3. st \in State /\ st.dedupe = mem[p].dedupe
      BY <1>1, <3>2, CompletedForm
    <3>4. mem'[p] \in Finals(st, FALSE) /\ Entries(st) = Entries(mem[p])
      BY <3>1, <3>2, <3>3 DEF Finals, Entries
    <3> QED
      BY <1>1, <1>4, <3>3, <3>4
  <2>5. CASE mem'[p] = EmptyState
    <3>1. Entries(mem'[p]) = {}
      BY <2>5 DEF Entries, EmptyState
    <3> QED
      BY <3>1, FS_EmptySet
  <2> QED
    BY <1>1, <1>2, <1>3, <2>1, <2>2, <2>3, <2>4, <2>5 DEF StepForm, Moves
<1>6. IsFiniteSet(Entries(disk'))
  <2>1. \A p \in Procs : IsFiniteSet(Entries(mem'[p])) /\ IsFiniteSet(Entries(Base(p)))
    BY <1>1, <1>2, <1>5
  <2>2. CASE disk' = disk
    BY <1>1, <2>2, Zenon DEF FInv
  <2>3. CASE \E p \in Procs : disk' \in {Base(p), mem'[p]}
    BY <2>1, <2>3
  <2> QED
    BY <2>2, <2>3 DEF StepForm
<1> QED
  BY <1>5, <1>6 DEF FInv

\* An event key starts a job only when no entry says it did before, and the start
\* leaves its entry unless the retention drops it in the same step.
THEOREM EventAlwaysStartsOnce ==
    ASSUME IsFiniteSet(Jobs)
    PROVE  Spec => EventStartsOnce
<1> DEFINE Holds == \A p \in up \cap up', r \in Runs \ used :
              LET run == mem'[p].runs[r] IN
              run.status = "running" /\ run.key # NoKey =>
                 /\ mem[p].dedupe[<<run.job, run.key>>] = NoRun
                 /\ \/ mem'[p].dedupe[<<run.job, run.key>>] = r
                    \/ Cardinality({jk \in Jobs \X Keys : mem'[p].dedupe[jk] # NoRun})
                           >= DedupeRetention
<1>1. ASSUME IInv, FInv, FInv', IInv', StepForm, NEW p \in up \cap up', NEW r \in Runs \ used,
             mem'[p].runs[r].status = "running", mem'[p].runs[r].key # NoKey
      PROVE  LET run == mem'[p].runs[r] IN
             /\ mem[p].dedupe[<<run.job, run.key>>] = NoRun
             /\ \/ mem'[p].dedupe[<<run.job, run.key>>] = r
                \/ Cardinality(Entries(mem'[p])) >= DedupeRetention
  <2>1. /\ TypeOK /\ p \in Procs /\ Moves(p) /\ mem[p] \in State /\ now \in 0 .. MaxTime
        /\ mem'[p] \in State /\ r \in Fresh /\ r \in Runs
    BY <1>1, UpMoves DEF IInv, TypeOK, Fresh
  <2>2. PICK job \in Jobs, key \in Keys : mem'[p].runs[r].job = job /\ mem'[p].runs[r].key = key
    BY <1>1, <2>1 DEF State, Run
  <2>3. /\ mem[p].runs[r].status = "absent" /\ Base(p).runs[r].status = "absent"
        /\ Base(p).dedupe = mem[p].dedupe
    <3>1. mem[p].runs[r].status = "absent"
      BY <1>1, <2>1 DEF IInv, Sound, Unused
    <3> QED
      BY <2>1, <3>1, ReclaimedForm DEF Base
  <2>4. mem[p].dedupe[<<job, key>>] = NoRun
    <3>1. MayStart(Base(p), job, key)
      BY <1>1, <2>1, <2>2, RunMoves
    <3> QED
      BY <1>1, <2>2, <2>3, <3>1 DEF MayStart, Duplicate
  <2>5. Committed(p, mem'[p])
    <3>1. ~Edited(mem[p], mem'[p]) /\ ~Removed(mem[p], mem'[p])
      BY <1>1, <2>1, <2>3, SameRuns
    <3>2. ~Ended(mem[p], mem'[p])
      <4> SUFFICES ASSUME Ended(mem[p], mem'[p]) PROVE FALSE
        OBVIOUS
      <4>1. PICK s \in Runs, ok \in BOOLEAN :
               Completable(mem[p], s) /\ mem'[p] \in Pruned(Completed(mem[p], s, ok, now))
        BY DEF Ended
      <4>2. PICK st : st = Completed(mem[p], s, ok, now)
        OBVIOUS
      <4>3. st \in State /\ r # s /\ st.runs[r] = mem[p].runs[r]
        BY <2>1, <2>3, <4>1, <4>2, CompletedForm DEF Completable
      <4>4. mem'[p] \in Finals(st, FALSE)
        BY <4>1, <4>2 DEF Finals
      <4>5. mem'[p].runs[r] = st.runs[r] \/ mem'[p].runs[r] = AbsentRun
        BY <4>3, <4>4, PrunedForm
      <4> QED
        BY <1>1, <2>3, <4>3, <4>5 DEF AbsentRun
    <3> QED
      BY <1>1, <2>1, <2>3, <3>1, <3>2 DEF Moves
  <2>6. PICK st \in State, k \in Keys \cup {NoKey}, event \in BOOLEAN :
             Opened(p, st, k) /\ (k # NoKey => event) /\ mem'[p] \in Finals(st, event)
    BY <2>1, <2>5, CommittedForm
  <2>7. mem'[p].runs[r] = st.runs[r]
    <3>1. mem'[p].runs[r] = st.runs[r] \/ mem'[p].runs[r] = AbsentRun
      BY <2>1, <2>6, PrunedForm
    <3> QED
      BY <1>1, <3>1 DEF AbsentRun
  <2>8. k = key /\ event /\ st.dedupe[<<job, key>>] = r
    <3>1. st.runs[r].status = "running" /\ st.runs[r].job = job /\ st.runs[r].key = key
      BY <1>1, <2>2, <2>7
    <3>2. st.runs[r] # Base(p).runs[r]
      BY <2>3, <3>1
    <3>3. st.runs[r].key = k /\ (k # NoKey => st.dedupe[<<st.runs[r].job, k>>] = r)
      BY <2>1, <2>6, <3>1, <3>2 DEF Opened
    <3> QED
      BY <2>6, <3>1, <3>3, SchedulerAssumption
  <2>9. PICK s \in DedupePruned(st) : mem'[p] \in Pruned(s)
    BY <2>6, <2>8 DEF Finals
  <2>10. mem'[p].dedupe = s.dedupe
    <3>1. s \in State
      <4>1. PICK X : s = [st EXCEPT !.dedupe = [jk \in Jobs \X Keys |->
                                                   IF jk \in X THEN NoRun ELSE @[jk]]]
        BY <2>9 DEF DedupePruned
      <4> QED
        BY <4>1 DEF State
    <3> QED
      BY <2>9, <3>1 DEF Pruned, State
  <2>11. IsFiniteSet(Entries(st))
    <3>1. IsFiniteSet(Entries(mem[p])) /\ Entries(Base(p)) = Entries(mem[p])
      BY <1>1, <2>1, <2>3 DEF FInv, Entries
    <3> QED
      BY <2>1, <2>6, <3>1, OpenedEntries
  <2>12. s.dedupe = st.dedupe \/ Cardinality(Entries(s)) >= DedupeRetention
    BY <2>6, <2>9, <2>11, DedupePrunedLeaves
  <2>13. Entries(s) = Entries(mem'[p])
    BY <2>10 DEF Entries
  <2> QED
    BY <2>2, <2>4, <2>8, <2>10, <2>12, <2>13
<1>2. IInv /\ IInv' /\ FInv /\ FInv' /\ StepForm => Holds
  BY <1>1 DEF Entries
<1>3. Init => FInv
  <2>1. Entries(EmptyState) = {}
    BY DEF Entries, EmptyState
  <2> QED
    BY <2>1, FS_EmptySet DEF Init, FInv
<1>4. IInv => TypeOK
  BY DEF IInv
<1> HIDE DEF Holds
<1>5. IInv /\ FInv /\ [Next]_vars => FInv'
  BY <1>4, StepMoves, FStep
<1>6. IInv /\ IInv' /\ FInv /\ FInv' /\ [Next]_vars => [Holds]_vars
  BY <1>2, <1>4, StepMoves
<1>7. [][Holds]_vars => EventStartsOnce
  BY PTL DEF Holds, EventStartsOnce
<1> QED
  BY <1>3, <1>5, <1>6, <1>7, IInvInit, IInvStep, PTL DEF Spec

-----------------------------------------------------------------------------
\* Memory and file.  The hypothesis on Procs says that one process opens the file, as the
\* daemon does; two that overwrite each other's file are the subject of no theorem.

\* A completed job is one whose repeats are used up: for any number of processes.
THEOREM CompletedAlwaysExhausted == Spec => []CompletedOnlyWhenExhausted
<1>1. KInv => CompletedOnlyWhenExhausted
  BY DEF KInv, IInv, TypeOK, Kept, Spent, CompletedOnlyWhenExhausted, Copies
<1> QED
  BY <1>1, KeptAlways, PTL

\* Only processes that are up execute, and only runs that were handed out.
Owned == \A p \in Procs, r \in Runs : exec[p][r] # "none" => p \in up /\ r \in used

DInv == Owned /\ WriteThrough /\ DurableWhileExecuting

\* A save that dispatches nothing: the file it leaves when it fails, f, knows of every
\* run that goes on executing.
LEMMA SaveFollows ==
    ASSUME \A p, q \in Procs : p = q, TypeOK, DInv, NEW p \in up, NEW st, NEW f,
           Saved(p, st) \/ SaveFailed(p, st, f), up' = up, used \subseteq used',
           \A r \in Runs : exec'[p][r] # "none" => exec[p][r] # "none",
           \A r \in Runs : exec[p][r] # "none" /\ st.runs[r].status = "running" =>
                              f.runs[r].status = "running"
    PROVE  DInv'
<1>1. p \in Procs /\ (\A q \in Procs : q = p) /\ mem'[p] = st /\ disk' \in {f, st} /\ faults \in Nat
  BY SchedulerAssumption DEF TypeOK, Saved, SaveFailed
<1>2. Owned'
  BY <1>1 DEF DInv, Owned
<1>3. WriteThrough'
  <2>1. SUFFICES ASSUME faults' = 0 PROVE mem'[p] = disk'
    BY <1>1 DEF WriteThrough, TypeOK
  <2>2. faults' # faults + 1
    BY <1>1, <2>1
  <2> QED
    BY <1>1, <2>2 DEF Saved, SaveFailed
<1>4. DurableWhileExecuting'
  <2> SUFFICES ASSUME NEW r \in Runs, exec'[p][r] # "none", st.runs[r].status = "running"
               PROVE  disk'.runs[r].status = "running"
    BY <1>1 DEF DurableWhileExecuting, TypeOK
  <2> QED
    BY <1>1
<1> QED
  BY <1>2, <1>3, <1>4 DEF DInv

\* Operations that save what they made of the memory.
LEMMA PersistFollows ==
    ASSUME \A p, q \in Procs : p = q, IInv, DInv, StepForm, NEW p \in up, NEW st, Persist(p, st),
           up' = up, used' = used, \A r \in Runs : exec'[p][r] # "none" => exec[p][r] # "none"
    PROVE  DInv'
<1>1. TypeOK /\ p \in Procs /\ Moves(p) /\ mem'[p] = st
  <2>1. TypeOK /\ p \in Procs
    BY DEF IInv, TypeOK
  <2> QED
    BY <2>1, UpMoves, SaveMoves DEF Persist
<1>2. ASSUME NEW r \in Runs, exec[p][r] # "none", st.runs[r].status = "running"
      PROVE  disk.runs[r].status = "running"
  <2>1. r \notin Fresh
    BY <1>1, <1>2 DEF DInv, Owned, Fresh
  <2>2. mem[p].runs[r].status = "running"
    BY <1>1, <1>2, <2>1, RunMoves
  <2> QED
    BY <1>2, <2>2 DEF DInv, DurableWhileExecuting
<1> QED
  BY <1>1, <1>2, SaveFollows DEF Persist

\* What is left running when the expired leases are written off is running in the file
\* that is left.
LEMMA BaseFollows ==
    ASSUME TypeOK, DInv, NEW p \in up, NEW r \in Runs, exec[p][r] # "none",
           Base(p).runs[r].status = "running"
    PROVE  BaseFile(p).runs[r].status = "running" /\ disk.runs[r].status = "running"
<1>1. mem[p] \in State /\ now \in 0 .. MaxTime
  BY DEF TypeOK
<1>2. mem[p].runs[r].status = "running"
  BY <1>1, ReclaimedForm DEF Base
<1> QED
  BY <1>2 DEF DInv, DurableWhileExecuting, BaseFile

\* Deciding saves before it dispatches.
LEMMA CommitFollows ==
    ASSUME \A p, q \in Procs : p = q, IInv, DInv, StepForm, NEW p \in up, NEW D \in SUBSET Jobs,
           NEW outcome, NEW key \in Keys \cup {NoKey}, NEW event \in BOOLEAN,
           Commit(p, D, outcome, key, event)
    PROVE  DInv'
<1>1. PICK ids \in Injection(D, Fresh) :
         LET st      == Decided(Base(p), D, ids, outcome, key, now)
             started == {ids[j] : j \in {k \in D : outcome[k] = "started"}}
         IN /\ used' = used \cup Range(ids)
            /\ UNCHANGED <<up, now>>
            /\ \E final \in Finals(st, event) :
                  \/ Saved(p, final) /\ Dispatch(p, started)
                  \/ SaveFailed(p, final, BaseFile(p)) /\ NoDispatch(p, started)
  BY DEF Commit
<1> DEFINE started == {ids[j] : j \in {k \in D : outcome[k] = "started"}}
           st      == Decided(Base(p), D, ids, outcome, key, now)
<1>2. PICK final \in Finals(st, event) :
         \/ Saved(p, final) /\ Dispatch(p, started)
         \/ SaveFailed(p, final, BaseFile(p)) /\ NoDispatch(p, started)
  BY <1>1
<1>3. /\ TypeOK /\ p \in Procs /\ (\A q \in Procs : q = p) /\ used \subseteq used' /\ up' = up
      /\ started \subseteq used' /\ started \subseteq Fresh
  <2>1. ids \in [D -> Fresh] /\ Range(ids) = {ids[j] : j \in D}
    BY DEF Injection, Range
  <2> QED
    BY <1>1, <2>1 DEF IInv, TypeOK
<1>4. CASE Saved(p, final) /\ Dispatch(p, started)
  <2>1. mem'[p] = final /\ disk' = final /\ faults' = faults
    BY <1>3, <1>4 DEF Saved, TypeOK
  <2>2. \A r \in Runs : exec'[p][r] # "none" => exec[p][r] # "none" \/ r \in started
    BY <1>3, <1>4 DEF Dispatch, TypeOK
  <2> QED
    BY <1>3, <2>1, <2>2 DEF DInv, Owned, WriteThrough, DurableWhileExecuting, TypeOK
<1>5. CASE SaveFailed(p, final, BaseFile(p)) /\ NoDispatch(p, started)
  <2>1. ASSUME NEW r \in Runs, exec[p][r] # "none", final.runs[r].status = "running"
        PROVE  BaseFile(p).runs[r].status = "running"
    <3>1. r \in used
      BY <1>3, <2>1 DEF DInv, Owned
    <3>2. st \in State /\ st.runs[r] = Base(p).runs[r]
      <4>1. ids \in [D -> Fresh] /\ ids \in [D -> Runs] /\ r \notin Fresh
        BY <3>1 DEF Injection, Fresh
      <4>2. Base(p) \in State /\ now \in 0 .. MaxTime
        BY <1>3, BaseType DEF TypeOK
      <4>3. st \in State
        BY <4>1, <4>2, DecidedType
      <4> QED
        BY <4>1, <4>3 DEF Decided
    <3>3. final.runs[r] = st.runs[r] \/ final.runs[r] = AbsentRun
      <4> HIDE DEF st
      <4> QED
        BY <1>2, <3>2, PrunedForm
    <3>4. Base(p).runs[r].status = "running"
      BY <2>1, <3>2, <3>3 DEF AbsentRun
    <3> QED
      BY <1>3, <2>1, <3>4, BaseFollows
  <2>2. exec' = exec
    BY <1>5 DEF NoDispatch
  <2> QED
    BY <1>3, <1>5, <2>1, <2>2, SaveFollows
<1> QED
  BY <1>2, <1>4, <1>5

LEMMA DStep ==
    ASSUME \A p, q \in Procs : p = q, IInv, DInv, StepForm, [Next]_vars
    PROVE  DInv'
<1>1. TypeOK /\ faults \in Nat
  BY SchedulerAssumption DEF IInv, TypeOK
<1>2. ASSUME NEW p \in Procs, Start(p) PROVE DInv'
  <2>1. \A q \in Procs : q = p
    OBVIOUS
  <2>2. mem'[p] = disk'
    BY <1>1, <1>2 DEF Start, TypeOK
  <2>3. \A r \in Runs : exec'[p][r] = "none"
    BY <1>2 DEF Start, DInv, Owned
  <2> QED
    BY <1>1, <1>2, <2>1, <2>2, <2>3 DEF Start, DInv, Owned, WriteThrough, DurableWhileExecuting, TypeOK
<1>3. ASSUME NEW p \in Procs, Crash(p) PROVE DInv'
  <2>1. up' = {} /\ \A q \in Procs, r \in Runs : exec'[q][r] = "none"
    BY <1>1, <1>3 DEF Crash, TypeOK
  <2> QED
    BY <2>1 DEF DInv, Owned, WriteThrough, DurableWhileExecuting
<1>4. ASSUME NEW p \in Procs, NEW j \in Jobs, NEW paused \in BOOLEAN, ImportDefinition(p, j, paused)
      PROVE  DInv'
  <2>1. p \in up /\ UNCHANGED <<up, exec, used>> /\ \E st : Persist(p, st)
    BY <1>4 DEF ImportDefinition
  <2> QED
    BY <2>1, PersistFollows
<1>5. ASSUME NEW p \in Procs, NEW j \in Jobs, PauseJob(p, j) PROVE DInv'
  <2>1. p \in up /\ UNCHANGED <<up, exec, used>> /\ \E st : Persist(p, st)
    BY <1>5 DEF PauseJob
  <2> QED
    BY <2>1, PersistFollows
<1>6. ASSUME NEW p \in Procs, NEW j \in Jobs, ResumeJob(p, j) PROVE DInv'
  <2>1. p \in up /\ UNCHANGED <<up, exec, used>> /\ \E st : Persist(p, st)
    BY <1>6 DEF ResumeJob
  <2> QED
    BY <2>1, PersistFollows
<1>7. ASSUME NEW p \in Procs, NEW j \in Jobs, RemoveJob(p, j) PROVE DInv'
  <2>1. p \in up /\ UNCHANGED <<up, exec, used>> /\ \E st : Persist(p, st)
    BY <1>7 DEF RemoveJob
  <2> QED
    BY <2>1, PersistFollows
<1>8. ASSUME NEW p \in up, Saved(p, Base(p)) \/ SaveFailed(p, Base(p), BaseFile(p)),
             UNCHANGED <<up, exec, used>>
      PROVE  DInv'
  <2>1. \A r \in Runs : exec[p][r] # "none" /\ Base(p).runs[r].status = "running" =>
                           BaseFile(p).runs[r].status = "running"
    BY <1>1, BaseFollows
  <2> QED
    BY <1>1, <1>8, <2>1, SaveFollows
<1>9. ASSUME NEW p \in up, ReclaimOnly(p) PROVE DInv'
  BY <1>8, <1>9 DEF ReclaimOnly
<1>10. ASSUME NEW p \in Procs, NEW j \in Jobs, RunNow(p, j) PROVE DInv'
  <2>1. p \in up
    BY <1>10 DEF RunNow
  <2>2. CASE ~Base(p).jobs[j].present
    BY <1>9, <1>10, <2>1, <2>2 DEF RunNow
  <2>3. CASE Base(p).jobs[j].present
    <3>1. \E outcome : Commit(p, {j}, outcome, NoKey, FALSE)
      BY <1>10, <2>3 DEF RunNow
    <3> QED
      BY <2>1, <3>1, CommitFollows
  <2> QED
    BY <2>2, <2>3
<1>11. ASSUME NEW p \in Procs, NEW key \in Keys \cup {NoKey}, EmitEvent(p, key) PROVE DInv'
  <2> DEFINE D == {j \in Jobs : Base(p).jobs[j].present /\ Def[j].kind = "event"}
  <2>1. p \in up
    BY <1>11 DEF EmitEvent
  <2>2. CASE D = {}
    BY <1>9, <1>11, <2>1, <2>2 DEF EmitEvent
  <2>3. CASE D # {}
    <3>1. D \in SUBSET Jobs /\ \E outcome : Commit(p, D, outcome, key, TRUE)
      BY <1>11, <2>3 DEF EmitEvent
    <3> HIDE DEF D
    <3> QED
      BY <2>1, <3>1, CommitFollows
  <2> QED
    BY <2>2, <2>3
<1>12. ASSUME NEW p \in Procs, Tick(p) PROVE DInv'
  <2> DEFINE D == Due(Base(p), now)
  <2>1. p \in up /\ D \in SUBSET Jobs
    BY <1>12 DEF Tick, Due
  <2>2. CASE D = {}
    BY <1>8, <1>12, <2>1, <2>2 DEF Tick
  <2>3. CASE D # {}
    <3>1. \E outcome : Commit(p, D, outcome, NoKey, FALSE)
      BY <1>12, <2>3 DEF Tick
    <3> HIDE DEF D
    <3> QED
      BY <2>1, <3>1, CommitFollows
  <2> QED
    BY <2>2, <2>3
<1>13. ASSUME NEW p \in Procs, ReclaimSaveFails(p) PROVE DInv'
  <2>1. \A r \in Runs : exec[p][r] # "none" /\ Base(p).runs[r].status = "running" =>
                           disk.runs[r].status = "running"
    BY <1>1, <1>13, BaseFollows DEF ReclaimSaveFails
  <2> QED
    BY <1>1, <1>13, <2>1, SaveFollows DEF ReclaimSaveFails
<1>14. ASSUME NEW p \in Procs, NEW r \in Runs, AcquireWorker(p, r) PROVE DInv'
  <2>1. \A q \in Procs, s \in Runs : exec'[q][s] # "none" => exec[q][s] # "none"
    BY <1>1, <1>14 DEF AcquireWorker, TypeOK
  <2> QED
    BY <1>1, <1>14, <2>1 DEF AcquireWorker, DInv, Owned, WriteThrough, DurableWhileExecuting, TypeOK
<1>15. ASSUME NEW p \in Procs, NEW r \in Runs, NEW ok \in BOOLEAN, CompleteRun(p, r, ok)
       PROVE  DInv'
  <2>1. \A q \in Procs, s \in Runs : exec'[q][s] # "none" => exec[q][s] # "none"
    BY <1>1, <1>15 DEF CompleteRun, TypeOK
  <2>2. p \in up /\ up' = up /\ used' = used
    BY <1>15 DEF CompleteRun, DInv, Owned
  <2>3. CASE \E st : Persist(p, st)
    BY <2>1, <2>2, <2>3, PersistFollows
  <2>4. CASE UNCHANGED <<mem, disk>> /\ (faults' = 0 => faults = 0)
    BY <1>1, <2>1, <2>2, <2>4 DEF DInv, Owned, WriteThrough, DurableWhileExecuting, TypeOK
  <2>5. faults' = faults + 1 => faults' # 0
    BY <1>1
  <2> QED
    BY <1>15, <2>3, <2>4, <2>5 DEF CompleteRun
<1>16. CASE Advance
  BY <1>16 DEF Advance, DInv, Owned, WriteThrough, DurableWhileExecuting
<1>17. CASE UNCHANGED vars
  BY <1>17 DEF vars, DInv, Owned, WriteThrough, DurableWhileExecuting
<1> QED
  BY <1>2, <1>3, <1>4, <1>5, <1>6, <1>7, <1>10, <1>11, <1>12, <1>13, <1>14, <1>15, <1>16, <1>17
     DEF Next, Operate

\* With one process at the file, memory and file agree after every operation until a save
\* fails, and even then no run executes that the file does not know to be running.
THEOREM FileAlwaysFollows ==
    ASSUME \A p, q \in Procs : p = q
    PROVE  Spec => []FileFollows
<1>1. Init => DInv
  BY DEF Init, DInv, Owned, WriteThrough, DurableWhileExecuting
<1>2. IInv => TypeOK
  BY DEF IInv
<1>3. IInv /\ DInv /\ [Next]_vars => DInv'
  BY <1>2, StepMoves, DStep
<1>4. DInv => WriteThrough /\ DurableWhileExecuting
  BY DEF DInv
<1>5. Spec => [](WriteThrough /\ DurableWhileExecuting)
  BY <1>1, <1>3, <1>4, IInvInit, IInvStep, PTL DEF Spec
<1> QED
  BY <1>5, CompletedAlwaysExhausted, PTL DEF FileFollows
=============================================================================
