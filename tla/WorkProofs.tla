----------------------------- MODULE WorkProofs -----------------------------
(***************************************************************************)
(* Proofs about what carries the daemon's work: the job registry, the      *)
(* processes of jobs, the limits of resources, the runs that a sweep       *)
(* clears away, the hardening flip and the import of projects.             *)
(*                                                                         *)
(* JobRegistry.  Every operation is a save of a snapshot (Saves) or leaves *)
(* the snapshots alone (StepForm); the invariants are about those forms.   *)
(***************************************************************************)
EXTENDS JobRegistry, FiniteSetTheorems, TLAPS

\* A job that is not there has no lease either.
Blank(s) == \A j \in Jobs : s.jobs[j].status = "absent" => s.jobs[j] = NoJob

\* A client that waits for a chunk, or has read it all, has named a job.
Following == \A r \in Readers : reader[r].phase # "status" => reader[r].job \in Jobs

TInv == RegistryTypeOK /\ Blank(mem) /\ Blank(disk) /\ Following

\* Nobody else holds the job at this time.
Free(j, h) == /\ mem.jobs[j].status \notin Terminal
              /\ mem.jobs[j].holder \in {Nobody, h} \/ LeaseExpired(mem.jobs[j])

\* What any operation makes of the snapshot: it revives no job that ended and drops none,
\* gives a lease only to those who may have it, and forgets no record.
Alters(s) ==
    /\ s \in Snapshot
    /\ \A j \in Jobs :
          /\ mem.jobs[j].status \in Terminal => s.jobs[j].status = mem.jobs[j].status
          /\ mem.jobs[j].status # "absent" => s.jobs[j].status # "absent"
          /\ s.jobs[j].status = "absent" => s.jobs[j] = mem.jobs[j]
          /\ \/ s.jobs[j].status \in Terminal
             \/ s.jobs[j].holder = mem.jobs[j].holder /\ s.jobs[j].expires = mem.jobs[j].expires
             \/ \E h \in Holders : Free(j, h) /\ s.jobs[j].holder = h /\ s.jobs[j].expires = now + 1
    /\ \A k \in Keys : \/ s.keys[k] = mem.keys[k]
                       \/ /\ mem.keys[k] = Nothing /\ s.keys[k] # Nothing
                          /\ s.jobs[s.keys[k].job].status # "absent"

\* What the caller is told when s was saved.
Answers(s) ==
    \/ UNCHANGED answers
    \/ \E j \in Jobs, h \in Holders :
          /\ Free(j, h) /\ s.jobs[j].holder = h /\ s.jobs[j].expires = now + 1
          /\ held' = [held EXCEPT ![j][h] = now + 1] /\ UNCHANGED <<told, promised>>
    \/ \E j \in Jobs, o \in Terminal :
          /\ mem.jobs[j].status \in Terminal => mem.jobs[j].status = o
          /\ s.jobs[j].status = o
          /\ told' = [told EXCEPT ![j] = @ \cup {o}] /\ UNCHANGED <<held, promised>>
    \/ \E k \in Keys :
          /\ s.keys[k] # Nothing
          /\ promised' = [promised EXCEPT ![k] = @ \cup {s.keys[k].job}]
          /\ UNCHANGED <<told, held>>

EndNow(s) == [j \in Jobs |-> IF s.jobs[j].status \in Terminal /\ mem.jobs[j].status \notin Terminal
                             THEN logs[j] ELSE atEnd[j]]

Saves(s) == /\ up /\ Alters(s)
            /\ mem' = s
            /\ \/ disk' = s /\ faults' = faults /\ Answers(s)
               \/ disk' = disk /\ faults' = faults + 1 /\ UNCHANGED answers
            /\ atEnd' = EndNow(s)
            /\ UNCHANGED <<up, now, logs, reader, undone>>

StepForm == \/ \E s \in Snapshot : Saves(s)
            \/ \E j \in Jobs : AppendLog(j)
            \/ \E k \in Keys, h \in Hashes : CreateAgain(k, h)
            \/ \E r \in Readers, j \in Jobs : ReadStatus(r, j)
            \/ \E r \in Readers, limit \in 0 .. MaxLimit + 1 : ReadChunk(r, limit)
            \/ Pass \/ Crash \/ Restart
            \/ UNCHANGED vars

-----------------------------------------------------------------------------
\* Every step has that form.

\* The snapshot with a new value of one job.
With(j, job) == [mem EXCEPT !.jobs[j] = job]

\* Operations on one job that is there.
LEMMA UpdateForm ==
    ASSUME RegistryConstants, TInv, NEW j \in Jobs, NEW job \in Job,
           Update(j, job, Answers(With(j, job))),
           mem.jobs[j].status \in Terminal => job.status = mem.jobs[j].status,
           job.status # "absent",
           \/ job.status \in Terminal
           \/ job.holder = mem.jobs[j].holder /\ job.expires = mem.jobs[j].expires
           \/ \E h \in Holders : Free(j, h) /\ job.holder = h /\ job.expires = now + 1
    PROVE  StepForm
<1>1. PICK s : s = With(j, job)
  OBVIOUS
<1>2. mem \in Snapshot
  BY DEF TInv, RegistryTypeOK
<1>3. /\ s \in Snapshot /\ s.keys = mem.keys /\ s.jobs[j] = job
      /\ \A i \in Jobs : i # j => s.jobs[i] = mem.jobs[i]
  BY <1>1, <1>2 DEF Snapshot, With
<1>4. Alters(s)
  BY <1>3 DEF Alters
<1>5. atEnd' = EndNow(s)
  <2>1. atEnd \in [Jobs -> Nat]
    BY DEF TInv, RegistryTypeOK
  <2>2. atEnd' = IF job.status \in Terminal /\ mem.jobs[j].status \notin Terminal
                 THEN [atEnd EXCEPT ![j] = logs[j]] ELSE atEnd
    BY DEF Update
  <2> QED
    BY <1>3, <2>1, <2>2 DEF EndNow
<1>6. /\ up /\ mem' = s /\ UNCHANGED <<up, now, logs, reader, undone>>
      /\ \/ disk' = s /\ faults' = faults /\ Answers(s)
         \/ disk' = disk /\ faults' = faults + 1 /\ UNCHANGED answers
  BY <1>1 DEF Update, Persist, PersistFails, With
<1> QED
  BY <1>3, <1>4, <1>5, <1>6 DEF StepForm, Saves

\* A value that was written is read.
LEMMA WithJob ==
    ASSUME TInv, NEW j \in Jobs, NEW job \in Job
    PROVE  With(j, job) \in Snapshot /\ With(j, job).jobs[j] = job
BY DEF TInv, RegistryTypeOK, Snapshot, With

LEMMA LeaseForm ==
    ASSUME RegistryConstants, TInv, NEW j \in Jobs, NEW h \in Holders, Lease(j, h, 1) \/ Heartbeat(j, h, 1)
    PROVE  StepForm
<1>1. mem.jobs[j] \in Job /\ now \in Nat
  BY DEF TInv, RegistryTypeOK, Snapshot
<1>2. CASE Lease(j, h, 1)
  <2> DEFINE job == [mem.jobs[j] EXCEPT !.status = "running", !.holder = h, !.expires = now + 1]
  <2>1. /\ job \in Job /\ job.status = "running" /\ job.holder = h /\ job.expires = now + 1
        /\ Free(j, h)
    <3>1. Free(j, h)
      BY <1>2 DEF Lease, Free
    <3>2. now + 1 \in Nat /\ "running" \in Statuses
      BY <1>1 DEF Statuses
    <3> QED
      BY <1>1, <3>1, <3>2 DEF Job
  <2>2. With(j, job).jobs[j] = job
    BY <2>1, WithJob
  <2>3. Update(j, job, held' = [held EXCEPT ![j][h] = now + 1] /\ UNCHANGED <<told, promised>>)
    BY <1>2 DEF Lease
  <2> HIDE DEF job
  <2>4. held' = [held EXCEPT ![j][h] = now + 1] /\ UNCHANGED <<told, promised>>
            => Answers(With(j, job))
    BY <2>1, <2>2 DEF Answers
  <2>5. Update(j, job, Answers(With(j, job)))
    BY <2>3, <2>4 DEF Update
  <2>6. mem.jobs[j].status \notin Terminal
    BY <2>1 DEF Free
  <2> QED
    BY <2>1, <2>5, <2>6, UpdateForm
<1>3. CASE Heartbeat(j, h, 1)
  <2> DEFINE job == [mem.jobs[j] EXCEPT !.expires = now + 1]
  <2>1. /\ job \in Job /\ job.status = mem.jobs[j].status /\ job.holder = h /\ job.expires = now + 1
        /\ Free(j, h) /\ job.status # "absent"
    BY <1>1, <1>3 DEF Heartbeat, Free, Job, Terminal
  <2>2. With(j, job).jobs[j] = job
    BY <2>1, WithJob
  <2>3. Update(j, job, held' = [held EXCEPT ![j][h] = now + 1] /\ UNCHANGED <<told, promised>>)
    BY <1>3 DEF Heartbeat
  <2> HIDE DEF job
  <2>4. held' = [held EXCEPT ![j][h] = now + 1] /\ UNCHANGED <<told, promised>>
            => Answers(With(j, job))
    BY <2>1, <2>2 DEF Answers
  <2>5. Update(j, job, Answers(With(j, job)))
    BY <2>3, <2>4 DEF Update
  <2> QED
    BY <2>1, <2>5, UpdateForm
<1> QED
  BY <1>2, <1>3

LEMMA EndForm ==
    ASSUME RegistryConstants, TInv, NEW j \in Jobs, NEW o \in Terminal, NEW by, End(j, o, by)
    PROVE  StepForm
<1>1. mem.jobs[j] \in Job
  BY DEF TInv, RegistryTypeOK, Snapshot
<1> DEFINE old == mem.jobs[j]
           job == IF old.status = o THEN old
                  ELSE [old EXCEPT !.status = o, !.holder = Nobody, !.expires = 0]
<1>2. job \in Job /\ job.status = o /\ (old.status \in Terminal => old.status = o) /\ o # "absent"
  BY <1>1 DEF End, Job, Statuses, Terminal
<1>3. With(j, job).jobs[j] = job
  BY <1>2, WithJob
<1>4. Update(j, job, told' = [told EXCEPT ![j] = @ \cup {o}] /\ UNCHANGED <<held, promised>>)
  BY DEF End
<1> HIDE DEF job
<1>5. told' = [told EXCEPT ![j] = @ \cup {o}] /\ UNCHANGED <<held, promised>> => Answers(With(j, job))
  BY <1>2, <1>3 DEF Answers
<1>6. Update(j, job, Answers(With(j, job)))
  BY <1>4, <1>5 DEF Update
<1> QED
  BY <1>2, <1>6, UpdateForm

\* Cancel, AttachProcess and DetachProcess tell nothing.
LEMMA QuietForm ==
    ASSUME RegistryConstants, TInv, NEW j \in Jobs, Cancel(j) \/ AttachProcess(j) \/ DetachProcess(j)
    PROVE  StepForm
<1>1. mem.jobs[j] \in Job
  BY DEF TInv, RegistryTypeOK, Snapshot
<1> DEFINE old == mem.jobs[j]
<1>2. ASSUME NEW job \in Job, Update(j, job, UNCHANGED answers), job.status # "absent",
             old.status \in Terminal => job.status = old.status,
             job.holder = old.holder, job.expires = old.expires
      PROVE  StepForm
  <2>1. Update(j, job, Answers(With(j, job)))
    BY <1>2 DEF Update, Answers
  <2> QED
    BY <1>2, <2>1, UpdateForm
<1>3. CASE Cancel(j)
  <2> DEFINE job == IF old.status \in Terminal THEN old ELSE [old EXCEPT !.status = "canceling"]
  <2>1. /\ job \in Job /\ Update(j, job, UNCHANGED answers) /\ job.status # "absent"
        /\ (old.status \in Terminal => job.status = old.status)
        /\ job.holder = old.holder /\ job.expires = old.expires
    BY <1>1, <1>3 DEF Cancel, Job, Statuses, Terminal
  <2> HIDE DEF job
  <2> QED
    BY <1>2, <2>1
<1>4. CASE AttachProcess(j) \/ DetachProcess(j)
  <2>1. PICK process \in {"none", "attached"} :
           Update(j, [old EXCEPT !.process = process], UNCHANGED answers)
    BY <1>4 DEF AttachProcess, DetachProcess
  <2> DEFINE job == [old EXCEPT !.process = process]
  <2>2. /\ job \in Job /\ Update(j, job, UNCHANGED answers) /\ old.status # "absent"
        /\ job.status = old.status /\ job.holder = old.holder /\ job.expires = old.expires
    BY <1>1, <2>1 DEF Update, Job
  <2> HIDE DEF job
  <2> QED
    BY <1>2, <2>2
<1> QED
  BY <1>3, <1>4

LEMMA CreateForm ==
    ASSUME RegistryConstants, TInv, NEW j \in Jobs, NEW k \in Keys \cup {Nothing}, NEW h \in Hashes,
           CreateNew(j, k, h)
    PROVE  StepForm
<1> DEFINE keys == IF k \in Keys THEN [mem.keys EXCEPT ![k] = [hash |-> h, job |-> j]] ELSE mem.keys
<1>1. PICK s : s = [jobs |-> [mem.jobs EXCEPT ![j] = NewJob], keys |-> keys]
  OBVIOUS
<1>2. /\ mem \in Snapshot /\ mem.jobs \in [Jobs -> Job]
      /\ mem.keys \in [Keys -> IdempotencyRecord \cup {Nothing}] /\ atEnd \in [Jobs -> Nat]
      /\ mem.jobs[j].status = "absent" /\ mem.jobs[j] = NoJob
  BY DEF TInv, RegistryTypeOK, Snapshot, Blank, CreateNew
<1>3. /\ NewJob \in Job /\ NewJob.status = "queued" /\ NewJob.status \notin Terminal
      /\ NoJob.holder = NewJob.holder /\ NoJob.expires = NewJob.expires
  BY DEF NewJob, NoJob, Job, Statuses, Terminal, Nobody
<1> HIDE DEF NewJob
<1>4. [hash |-> h, job |-> j] \in IdempotencyRecord
  BY DEF IdempotencyRecord
<1>5. keys \in [Keys -> IdempotencyRecord \cup {Nothing}]
      /\ \A i \in Keys : keys[i] = IF i = k THEN [hash |-> h, job |-> j] ELSE mem.keys[i]
  BY <1>2, <1>4
<1> HIDE DEF keys
<1>6. /\ s \in Snapshot /\ s.keys = keys /\ s.jobs[j] = NewJob
      /\ \A i \in Jobs : i # j => s.jobs[i] = mem.jobs[i]
  BY <1>1, <1>2, <1>3, <1>5 DEF Snapshot
<1>7. k \in Keys => mem.keys[k] = Nothing /\ s.keys[k] = [hash |-> h, job |-> j]
  BY <1>5, <1>6 DEF CreateNew
<1>8. k \in Keys => s.keys[k].job = j /\ s.keys[k] # Nothing
  BY <1>4, <1>7 DEF RegistryConstants
<1>9. Alters(s)
  <2>1. \A i \in Keys : \/ s.keys[i] = mem.keys[i]
                        \/ /\ mem.keys[i] = Nothing /\ s.keys[i] # Nothing
                           /\ s.jobs[s.keys[i].job].status # "absent"
    BY <1>3, <1>5, <1>6, <1>7, <1>8
  <2>2. ASSUME NEW i \in Jobs
        PROVE  /\ mem.jobs[i].status \in Terminal => s.jobs[i].status = mem.jobs[i].status
               /\ mem.jobs[i].status # "absent" => s.jobs[i].status # "absent"
               /\ s.jobs[i].status = "absent" => s.jobs[i] = mem.jobs[i]
               /\ s.jobs[i].holder = mem.jobs[i].holder /\ s.jobs[i].expires = mem.jobs[i].expires
    <3>1. CASE i = j
      BY <1>2, <1>3, <1>6, <3>1 DEF Terminal
    <3>2. CASE i # j
      BY <1>6, <3>2
    <3> QED
      BY <3>1, <3>2
  <2> QED
    BY <1>6, <2>1, <2>2 DEF Alters
<1>10. atEnd' = EndNow(s)
  BY <1>2, <1>3, <1>6 DEF CreateNew, EndNow
<1>11. /\ up /\ mem' = s /\ UNCHANGED <<up, now, logs, reader, undone>>
       /\ \/ /\ disk' = s /\ faults' = faults
             /\ promised' = IF k \in Keys THEN [promised EXCEPT ![k] = @ \cup {j}] ELSE promised
             /\ UNCHANGED <<told, held>>
          \/ disk' = disk /\ faults' = faults + 1 /\ UNCHANGED answers
  BY <1>1 DEF CreateNew, Persist, PersistFails, keys
<1>12. \/ disk' = s /\ faults' = faults /\ Answers(s)
       \/ disk' = disk /\ faults' = faults + 1 /\ UNCHANGED answers
  <2>1. CASE k \in Keys
    <3>1. promised' = [promised EXCEPT ![k] = @ \cup {s.keys[k].job}] /\ UNCHANGED <<told, held>>
             => Answers(s)
      BY <1>8, <2>1 DEF Answers
    <3> QED
      BY <1>8, <1>11, <2>1, <3>1
  <2>2. CASE k \notin Keys
    <3>1. UNCHANGED <<told, held, promised>> => Answers(s)
      BY DEF Answers, answers
    <3> QED
      BY <1>11, <2>2, <3>1
  <2> QED
    BY <2>1, <2>2
<1> QED
  BY <1>6, <1>9, <1>10, <1>11, <1>12 DEF StepForm, Saves

LEMMA RecoverForm ==
    ASSUME RegistryConstants, TInv, NEW live \in SUBSET Jobs, RecoverInterrupted(live)
    PROVE  StepForm
<1>1. PICK s : s = [mem EXCEPT !.jobs = Recovered(live)]
  OBVIOUS
<1>2. mem \in Snapshot /\ atEnd \in [Jobs -> Nat]
  BY DEF TInv, RegistryTypeOK
<1> DEFINE lost == [status |-> "interrupted", holder |-> Nobody, expires |-> 0, process |-> "none"]
<1>3. ASSUME NEW j \in Jobs
      PROVE  LET old == mem.jobs[j]  new == Recovered(live)[j] IN
             /\ new \in Job
             /\ \/ new = old
                \/ old.status \notin Terminal /\ new.status \in Terminal
                \/ /\ new.status = old.status /\ new.holder = old.holder /\ new.expires = old.expires
                   /\ old.status # "absent"
             /\ old.status \in Terminal \cup {"absent"} => new = old
             /\ old.status # "absent" => new.status # "absent"
  <2> DEFINE old == mem.jobs[j]
             again == [old EXCEPT !.process = "reattached"]
  <2>1. old \in Job
    BY <1>2 DEF Snapshot
  <2>2. again \in Job /\ again.status = old.status /\ again.holder = old.holder /\ again.expires = old.expires
    BY <2>1 DEF Job
  <2>3. lost \in Job /\ lost.status \in Terminal /\ "absent" \notin Terminal
    BY DEF Job, Statuses, Terminal
  <2>4. Recovered(live)[j] = IF old.status \in Terminal \cup {"queued", "absent"} THEN old
                             ELSE IF j \in live THEN again ELSE lost
    BY DEF Recovered
  <2> HIDE DEF old, again, lost
  <2> QED
    BY <2>1, <2>2, <2>3, <2>4 DEF old
<1>4. /\ s \in Snapshot /\ s.keys = mem.keys
      /\ \A j \in Jobs : s.jobs[j] = Recovered(live)[j]
  <2>1. Recovered(live) \in [Jobs -> Job]
    BY <1>3 DEF Recovered
  <2> QED
    BY <1>1, <1>2, <2>1 DEF Snapshot
<1>5. Alters(s)
  BY <1>3, <1>4 DEF Alters
<1>6. atEnd' = EndNow(s)
  BY <1>1 DEF RecoverInterrupted, EndNow
<1>7. /\ up /\ mem' = s /\ UNCHANGED <<up, now, logs, reader, undone>>
      /\ \/ disk' = s /\ faults' = faults /\ Answers(s)
         \/ disk' = disk /\ faults' = faults + 1 /\ UNCHANGED answers
  BY <1>1 DEF RecoverInterrupted, Persist, PersistFails, Answers
<1> QED
  BY <1>4, <1>5, <1>6, <1>7 DEF StepForm, Saves

LEMMA EveryStep ==
    ASSUME RegistryConstants, TInv, [Next]_vars
    PROVE  StepForm
<1>1. CASE UNCHANGED vars
  BY <1>1 DEF StepForm
<1>2. ASSUME NEW j \in Jobs, Operation(j) PROVE StepForm
  BY <1>2, CreateForm, LeaseForm, EndForm, QuietForm DEF Operation, StepForm
<1>3. ASSUME NEW live \in SUBSET Jobs, RecoverInterrupted(live) PROVE StepForm
  BY <1>3, RecoverForm
<1> QED
  BY <1>1, <1>2, <1>3 DEF Next, StepForm

-----------------------------------------------------------------------------
\* Type correctness.

Histories == /\ told \in [Jobs -> SUBSET Terminal]
             /\ held \in [Jobs -> [Holders -> Nat]]
             /\ promised \in [Keys -> SUBSET Jobs]

LEMMA TInit == RegistryConstants /\ Init => TInv
<1> SUFFICES ASSUME RegistryConstants, Init PROVE TInv
  OBVIOUS
<1>1. NoJob \in Job /\ NoJob.status = "absent"
  BY DEF NoJob, NewJob, Job, Statuses, Terminal
<1>2. EmptySnapshot \in Snapshot
  BY <1>1 DEF EmptySnapshot, Snapshot
<1>3. Blank(EmptySnapshot)
  BY DEF Blank, EmptySnapshot
<1>4. NotReading \in Reader
  BY DEF NotReading, Reader
<1> QED
  BY <1>2, <1>3, <1>4 DEF Init, TInv, RegistryTypeOK, Following, NotReading

LEMMA TStep ==
    ASSUME RegistryConstants, TInv, StepForm
    PROVE  TInv'
<1> USE DEF TInv, RegistryTypeOK
<1>1. ASSUME NEW s \in Snapshot, Saves(s) PROVE TInv'
  <2>1. Blank(s)
    BY <1>1 DEF Saves, Alters, Blank
  <2>2. /\ mem' = s /\ disk' \in {s, disk} /\ faults' \in Nat /\ atEnd' \in [Jobs -> Nat] /\ up
        /\ UNCHANGED <<up, now, logs, reader, undone>>
    BY <1>1 DEF Saves, EndNow
  <2>3. UNCHANGED answers \/ Answers(s)
    BY <1>1 DEF Saves
  <2>4. Histories'
    <3> USE DEF Histories
    <3>1. CASE UNCHANGED answers
      BY <3>1 DEF answers
    <3>2. ASSUME NEW j \in Jobs, NEW h \in Holders, held' = [held EXCEPT ![j][h] = now + 1],
                 UNCHANGED <<told, promised>>
          PROVE  Histories'
      BY <3>2
    <3>3. ASSUME NEW j \in Jobs, NEW o \in Terminal, told' = [told EXCEPT ![j] = @ \cup {o}],
                 UNCHANGED <<held, promised>>
          PROVE  Histories'
      BY <3>3
    <3>4. ASSUME NEW k \in Keys, s.keys[k] # Nothing,
                 promised' = [promised EXCEPT ![k] = @ \cup {s.keys[k].job}], UNCHANGED <<told, held>>
          PROVE  Histories'
      <4>1. s.keys[k].job \in Jobs
        BY <3>4 DEF Snapshot, IdempotencyRecord
      <4> QED
        BY <3>4, <4>1
    <3> QED
      BY <2>3, <3>1, <3>2, <3>3, <3>4 DEF Answers
  <2> QED
    BY <2>1, <2>2, <2>4 DEF Blank, Following, Histories
<1>2. ASSUME NEW j \in Jobs, AppendLog(j) PROVE TInv'
  BY <1>2 DEF AppendLog, answers, Blank, Following
<1>3. ASSUME NEW k \in Keys, NEW h \in Hashes, CreateAgain(k, h) PROVE TInv'
  <2>1. mem.keys[k].job \in Jobs
    BY <1>3 DEF CreateAgain, Snapshot, IdempotencyRecord
  <2> QED
    BY <1>3, <2>1 DEF CreateAgain, Blank, Following
<1>4. ASSUME NEW r \in Readers, NEW j \in Jobs, ReadStatus(r, j) PROVE TInv'
  <2> DEFINE final == mem.jobs[j].status \in Terminal
  <2>0. final \in BOOLEAN
    OBVIOUS
  <2> HIDE DEF final
  <2> DEFINE new == [reader[r] EXCEPT !.job = j, !.phase = "chunk", !.final = final]
  <2>1. new \in Reader
    BY <2>0 DEF Reader
  <2>2. reader' = [reader EXCEPT ![r] = new]
    BY <1>4 DEF ReadStatus, final
  <2> HIDE DEF new
  <2>3. reader' \in [Readers -> Reader]
    BY <2>1, <2>2
  <2> QED
    BY <1>4, <2>3 DEF ReadStatus, answers, Blank, Following
<1>5. ASSUME NEW r \in Readers, NEW limit \in 0 .. MaxLimit + 1, ReadChunk(r, limit) PROVE TInv'
  <2> DEFINE chunk == Chunk(logs[reader[r].job], reader[r].offset, limit)
             new   == [reader[r] EXCEPT !.offset = chunk.next,
                          !.phase = IF reader[r].final /\ chunk.eof THEN "done" ELSE "status"]
  <2>1. chunk.next \in Nat
    <3>1. reader[r].job \in Jobs /\ logs[reader[r].job] \in Nat /\ reader[r].offset \in Nat
      BY <1>5 DEF ReadChunk, Following, Reader
    <3>2. NormalizeLimit(limit) \in Nat
      BY DEF NormalizeLimit, RegistryConstants
    <3> QED
      BY <3>1, <3>2 DEF Chunk
  <2>2. new \in Reader
    BY <2>1 DEF Reader
  <2>3. reader' = [reader EXCEPT ![r] = new]
    BY <1>5 DEF ReadChunk
  <2> HIDE DEF new
  <2>4. reader' \in [Readers -> Reader]
    BY <2>2, <2>3
  <2> QED
    BY <1>5, <2>4 DEF ReadChunk, answers, Blank, Following
<1>6. CASE Pass
  BY <1>6 DEF Pass, answers, Blank, Following
<1>7. CASE Crash
  <2>1. EmptySnapshot \in Snapshot /\ Blank(EmptySnapshot)
    <3>1. NoJob \in Job /\ NoJob.status = "absent"
      BY DEF NoJob, NewJob, Job, Statuses, Terminal
    <3> QED
      BY <3>1 DEF EmptySnapshot, Snapshot, Blank
  <2>2. reader' \in [Readers -> Reader]
    <3>1. \A r \in Readers : [reader[r] EXCEPT !.phase = "status"] \in Reader
      BY DEF Reader
    <3> QED
      BY <1>7, <3>1 DEF Crash
  <2>3. Following'
    <3> SUFFICES ASSUME NEW r \in Readers, reader'[r].phase # "status"
                 PROVE  reader'[r].job \in Jobs
      BY DEF Following
    <3>1. reader[r] \in Reader
      OBVIOUS
    <3>2. reader[r].phase # "status" /\ reader'[r] = reader[r]
      BY <1>7, <3>1 DEF Crash, Reader
    <3> QED
      BY <3>2 DEF Following
  <2> QED
    BY <1>7, <2>1, <2>2, <2>3 DEF Crash, answers, Blank
<1>8. CASE Restart
  BY <1>8 DEF Restart, answers, Blank, Following
<1>9. CASE UNCHANGED vars
  BY <1>9 DEF vars, answers, Blank, Following
<1> QED
  BY <1>1, <1>2, <1>3, <1>4, <1>5, <1>6, <1>7, <1>8, <1>9 DEF StepForm

\* The registry, its file, its readers and what they were told stay well typed.
THEOREM RegistryTypeCorrect == ASSUME RegistryConstants PROVE Spec => []RegistryTypeOK
<1>1. TInv => RegistryTypeOK
  BY DEF TInv
<1> QED
  BY <1>1, TInit, EveryStep, TStep, PTL DEF Spec

-----------------------------------------------------------------------------
\* Leases.  A holder that believes in its lease is the holder in the file, and in memory
\* while there is one, unless the job has ended.  This is what a restart needs to hold.

HeldIn(s) == \A j \in Jobs, h \in Holders : held[j][h] > now =>
                \/ s.jobs[j].status \in Terminal
                \/ s.jobs[j].holder = h /\ s.jobs[j].expires >= held[j][h]

LInv == /\ LeaseExclusive
        /\ \A j \in Jobs, h \in Holders : held[j][h] <= now + 1
        /\ HeldIn(disk)
        /\ up => HeldIn(mem)

LEMMA LStep ==
    ASSUME RegistryConstants, TInv, LInv, StepForm
    PROVE  LInv'
<1>1. /\ now \in Nat /\ held \in [Jobs -> [Holders -> Nat]]
      /\ \A j \in Jobs : /\ mem.jobs[j].expires \in Nat
                         /\ mem.jobs[j].status = "absent" => mem.jobs[j].holder = Nobody
  BY DEF TInv, RegistryTypeOK, Snapshot, Job, Blank, NoJob, NewJob
<1>2. CASE UNCHANGED <<mem, disk, up, now, held>>
  BY <1>2 DEF LInv, LeaseExclusive, HeldIn
<1>3. ASSUME NEW s \in Snapshot, Saves(s) PROVE LInv'
  <2>1. up /\ up' = up /\ now' = now /\ mem' = s /\ HeldIn(mem) /\ HeldIn(disk) /\ Alters(s)
        /\ (\A j \in Jobs, h \in Holders : held[j][h] <= now + 1)
    BY <1>3 DEF Saves, LInv
  \* Whoever else may have the job, nobody believes that they have it.
  <2>2. \A j \in Jobs, h, g \in Holders : Free(j, h) /\ held[j][g] > now => g = h
    BY <1>1, <2>1 DEF Free, HeldIn, LeaseExpired, RegistryConstants
  <2>3. HeldIn(s)
    <3> SUFFICES ASSUME NEW j \in Jobs, NEW g \in Holders, held[j][g] > now, s.jobs[j].status \notin Terminal
                 PROVE  s.jobs[j].holder = g /\ s.jobs[j].expires >= held[j][g]
      BY DEF HeldIn
    <3>1. mem.jobs[j].status \notin Terminal
      BY <2>1 DEF Alters
    <3>2. mem.jobs[j].holder = g /\ mem.jobs[j].expires >= held[j][g]
      BY <2>1, <3>1 DEF HeldIn
    <3>3. CASE s.jobs[j].holder = mem.jobs[j].holder /\ s.jobs[j].expires = mem.jobs[j].expires
      BY <3>2, <3>3
    <3>4. ASSUME NEW h \in Holders, Free(j, h), s.jobs[j].holder = h, s.jobs[j].expires = now + 1
          PROVE  s.jobs[j].holder = g /\ s.jobs[j].expires >= held[j][g]
      <4>1. g = h /\ held[j][g] <= now + 1 /\ held[j][g] \in Nat
        BY <1>1, <2>1, <2>2, <3>4
      <4> QED
        BY <1>1, <3>4, <4>1
    <3> QED
      BY <2>1, <3>3, <3>4 DEF Alters
  <2>4. CASE held' = held
    BY <1>3, <2>1, <2>3, <2>4 DEF LInv, LeaseExclusive, HeldIn, Saves
  <2>5. ASSUME NEW j \in Jobs, NEW h \in Holders, disk' = s,
               Free(j, h), s.jobs[j].holder = h, s.jobs[j].expires = now + 1,
               held' = [held EXCEPT ![j][h] = now + 1]
        PROVE  LInv'
    <3>1. \A i \in Jobs, g \in Holders : held'[i][g] = IF i = j /\ g = h THEN now + 1 ELSE held[i][g]
      BY <1>1, <2>5
    <3>2. LeaseExclusive'
      BY <2>1, <2>2, <2>5, <3>1 DEF LInv, LeaseExclusive
    <3>3. \A i \in Jobs, g \in Holders : held'[i][g] <= now' + 1
      BY <1>1, <2>1, <3>1
    <3>4. HeldIn(s)'
      BY <1>1, <2>1, <2>3, <2>5, <3>1 DEF HeldIn
    <3> QED
      BY <2>1, <2>5, <3>2, <3>3, <3>4 DEF LInv, HeldIn
  <2> QED
    BY <1>3, <2>4, <2>5 DEF Saves, Answers, answers
<1>4. CASE Pass
  <2>1. now' = now + 1 /\ UNCHANGED <<mem, disk, up, held>>
    BY <1>4 DEF Pass, answers
  <2>2. \A j \in Jobs, h \in Holders : held[j][h] \in Nat /\ (held[j][h] > now + 1 => held[j][h] > now)
    BY <1>1
  <2> QED
    BY <1>1, <2>1, <2>2 DEF LInv, LeaseExclusive, HeldIn
<1>5. CASE Crash
  <2>1. up' = FALSE /\ UNCHANGED <<disk, now, held>>
    BY <1>5 DEF Crash, answers
  <2> QED
    BY <2>1 DEF LInv, LeaseExclusive, HeldIn
<1>6. CASE Restart
  BY <1>6 DEF Restart, answers, LInv, LeaseExclusive, HeldIn
<1> QED
  BY <1>2, <1>3, <1>4, <1>5, <1>6
     DEF StepForm, AppendLog, CreateAgain, ReadStatus, ReadChunk, vars, answers

\* Two workers never both believe that they hold a job, whatever saves failed and however
\* often the daemon was restarted since.
THEOREM LeasesAreExclusive == ASSUME RegistryConstants PROVE Spec => []LeaseExclusive
<1>1. TInv /\ Init => LInv
  BY DEF Init, LInv, LeaseExclusive, HeldIn
<1>2. LInv => LeaseExclusive
  BY DEF LInv
<1> QED
  BY <1>1, <1>2, TInit, EveryStep, TStep, LStep, PTL DEF Spec

-----------------------------------------------------------------------------
\* Outcomes.  What was answered is in the file, and in memory while there is one.

OInv == \A j \in Jobs : told[j] # {} =>
           /\ told[j] = {disk.jobs[j].status}
           /\ up => mem.jobs[j].status = disk.jobs[j].status

LEMMA OStep ==
    ASSUME RegistryConstants, TInv, OInv, StepForm
    PROVE  OInv'
<1>1. told \in [Jobs -> SUBSET Terminal]
  BY DEF TInv, RegistryTypeOK
<1>2. CASE UNCHANGED <<mem, disk, up, told>>
  BY <1>2 DEF OInv
<1>3. ASSUME NEW s \in Snapshot, Saves(s) PROVE OInv'
  <2>1. up /\ up' = up /\ mem' = s /\ disk' \in {disk, s}
    BY <1>3 DEF Saves
  \* A job that had an outcome has it in the new snapshot.
  <2>2. ASSUME NEW j \in Jobs, told[j] # {}
        PROVE  /\ told[j] = {disk.jobs[j].status} /\ s.jobs[j].status = disk.jobs[j].status
               /\ mem.jobs[j].status = disk.jobs[j].status /\ mem.jobs[j].status \in Terminal
    <3>1. told[j] = {disk.jobs[j].status} /\ mem.jobs[j].status = disk.jobs[j].status
      BY <2>1, <2>2 DEF OInv
    <3>2. mem.jobs[j].status \in Terminal
      BY <1>1, <3>1
    <3> QED
      BY <1>3, <3>1, <3>2 DEF Saves, Alters
  <2>3. CASE told' = told
    BY <2>1, <2>2, <2>3 DEF OInv
  <2>4. ASSUME NEW j \in Jobs, NEW o \in Terminal, disk' = s, s.jobs[j].status = o,
               mem.jobs[j].status \in Terminal => mem.jobs[j].status = o,
               told' = [told EXCEPT ![j] = @ \cup {o}]
        PROVE  OInv'
    <3>1. told'[j] = {o}
      BY <1>1, <2>2, <2>4
    <3>2. \A i \in Jobs : i # j => told'[i] = told[i]
      BY <1>1, <2>4
    <3> QED
      BY <2>1, <2>2, <2>4, <3>1, <3>2 DEF OInv
  <2> QED
    BY <1>3, <2>3, <2>4 DEF Saves, Answers, answers
<1>4. CASE Crash
  <2>1. up' = FALSE /\ UNCHANGED <<disk, told>>
    BY <1>4 DEF Crash, answers
  <2> QED
    BY <2>1 DEF OInv
<1>5. CASE Restart
  <2>1. mem' = disk /\ UNCHANGED <<disk, told>>
    BY <1>5 DEF Restart, answers
  <2> QED
    BY <2>1 DEF OInv
<1> QED
  BY <1>2, <1>3, <1>4, <1>5
     DEF StepForm, AppendLog, CreateAgain, ReadStatus, ReadChunk, Pass, vars, answers

\* Nobody is told of two outcomes of a job, and the one that was told is the one the file
\* keeps, over restarts too.
THEOREM OutcomesAreOne == ASSUME RegistryConstants PROVE Spec => []OneOutcome
<1>1. Init => OInv
  BY DEF Init, OInv
<1>2. OInv => OneOutcome
  BY DEF OInv, OneOutcome
<1> QED
  BY <1>1, <1>2, TInit, EveryStep, TStep, OStep, PTL DEF Spec

-----------------------------------------------------------------------------
\* The ends of logs.  A client that was told that the job had ended reads the log after
\* that, and an end that a crash did not undo is never written again.

Complete(r) ==
    \/ reader[r].job \in undone
    \/ /\ reader[r].offset >= atEnd[reader[r].job]
       /\ IF up THEN mem.jobs[reader[r].job].status \in Terminal
          ELSE disk.jobs[reader[r].job].status \in Terminal

EInv == /\ \A j \in Jobs : atEnd[j] <= logs[j]
        /\ \A r \in Readers :
              /\ reader[r].phase = "chunk" =>
                    up /\ (reader[r].final => mem.jobs[reader[r].job].status \in Terminal)
              /\ reader[r].phase = "done" => Complete(r)

LEMMA EStep ==
    ASSUME RegistryConstants, TInv, EInv, StepForm
    PROVE  EInv'
<1>1. /\ logs \in [Jobs -> Nat] /\ atEnd \in [Jobs -> Nat] /\ reader \in [Readers -> Reader]
      /\ \A r \in Readers : reader[r].phase # "status" => reader[r].job \in Jobs
  BY DEF TInv, RegistryTypeOK, Following
<1>2. CASE UNCHANGED <<mem, disk, up, logs, reader, atEnd, undone>>
  BY <1>2 DEF EInv, Complete
<1>3. ASSUME NEW s \in Snapshot, Saves(s) PROVE EInv'
  <2>1. /\ up /\ up' = up /\ mem' = s /\ atEnd' = EndNow(s) /\ UNCHANGED <<logs, reader, undone>>
        /\ \A j \in Jobs : mem.jobs[j].status \in Terminal => s.jobs[j].status \in Terminal
    BY <1>3 DEF Saves, Alters
  <2>2. \A j \in Jobs : /\ mem.jobs[j].status \in Terminal => atEnd'[j] = atEnd[j]
                        /\ atEnd'[j] \in {atEnd[j], logs[j]}
    BY <2>1 DEF EndNow
  <2> QED
    BY <1>1, <2>1, <2>2 DEF EInv, Complete
<1>4. ASSUME NEW j \in Jobs, AppendLog(j) PROVE EInv'
  <2>1. /\ UNCHANGED <<mem, disk, up, reader, atEnd, undone>>
        /\ \A i \in Jobs : logs'[i] >= logs[i] /\ logs'[i] \in Nat
    BY <1>1, <1>4 DEF AppendLog
  <2> QED
    BY <1>1, <2>1 DEF EInv, Complete
<1>5. ASSUME NEW r \in Readers, NEW j \in Jobs, ReadStatus(r, j) PROVE EInv'
  <2> DEFINE final == mem.jobs[j].status \in Terminal
             new   == [reader[r] EXCEPT !.job = j, !.phase = "chunk", !.final = final]
  <2>1. /\ up /\ UNCHANGED <<mem, disk, up, logs, atEnd, undone>> /\ reader' = [reader EXCEPT ![r] = new]
    BY <1>5 DEF ReadStatus, answers
  <2>2. new.job = j /\ new.phase = "chunk" /\ new.final = final
    BY <1>1 DEF Reader
  <2>3. new.final => mem.jobs[j].status \in Terminal
    BY <2>2, Zenon
  <2> HIDE DEF new, final
  <2>4. \A q \in Readers : reader'[q] = IF q = r THEN new ELSE reader[q]
    BY <1>1, <2>1
  <2> QED
    BY <1>1, <2>1, <2>2, <2>3, <2>4 DEF EInv, Complete
<1>6. ASSUME NEW r \in Readers, NEW limit \in 0 .. MaxLimit + 1, ReadChunk(r, limit) PROVE EInv'
  <2> DEFINE j     == reader[r].job
             chunk == Chunk(logs[j], reader[r].offset, limit)
             new   == [reader[r] EXCEPT !.offset = chunk.next,
                          !.phase = IF reader[r].final /\ chunk.eof THEN "done" ELSE "status"]
  <2>1. /\ up /\ UNCHANGED <<mem, disk, up, logs, atEnd, undone>> /\ reader' = [reader EXCEPT ![r] = new]
        /\ reader[r].phase = "chunk" /\ j \in Jobs
    BY <1>1, <1>6 DEF ReadChunk, answers
  <2>2. /\ new.job = j /\ new.offset = chunk.next /\ new.phase # "chunk"
        /\ new.phase = "done" => reader[r].final /\ chunk.eof
    BY <1>1 DEF Reader
  <2>3. chunk.eof => chunk.next >= logs[j]
    BY DEF Chunk
  <2>4. chunk.next \in Nat
    <3>1. logs[j] \in Nat /\ reader[r].offset \in Nat
      BY <1>1, <2>1 DEF Reader
    <3>2. NormalizeLimit(limit) \in Nat
      BY DEF NormalizeLimit, RegistryConstants
    <3> QED
      BY <3>1, <3>2 DEF Chunk
  <2> HIDE DEF new, chunk, j
  <2>5. \A q \in Readers : reader'[q] = IF q = r THEN new ELSE reader[q]
    BY <1>1, <2>1
  <2>6. new.phase = "done" => /\ new.offset >= atEnd[j]
                              /\ mem.jobs[j].status \in Terminal
    BY <1>1, <2>1, <2>2, <2>3, <2>4 DEF EInv, j
  <2> QED
    BY <1>1, <2>1, <2>2, <2>5, <2>6 DEF EInv, Complete
<1>7. CASE Crash
  <2>1. /\ up /\ up' = FALSE /\ UNCHANGED <<disk, logs, atEnd>> /\ undone \subseteq undone'
        /\ \A j \in Jobs : mem.jobs[j].status \in Terminal =>
                              j \in undone' \/ disk.jobs[j].status \in Terminal
    BY <1>7 DEF Crash, answers
  <2>2. ASSUME NEW r \in Readers
        PROVE  reader'[r].phase # "chunk" /\ (reader'[r].phase = "done" => reader'[r] = reader[r])
    <3>1. reader'[r] = IF reader[r].phase = "chunk" THEN [reader[r] EXCEPT !.phase = "status"] ELSE reader[r]
      BY <1>7 DEF Crash
    <3>2. [reader[r] EXCEPT !.phase = "status"].phase = "status"
      BY <1>1 DEF Reader
    <3> QED
      BY <3>1, <3>2
  <2> QED
    BY <1>1, <2>1, <2>2 DEF EInv, Complete
<1>8. CASE Restart
  BY <1>8 DEF Restart, answers, EInv, Complete
<1> QED
  BY <1>2, <1>3, <1>4, <1>5, <1>6, <1>7, <1>8 DEF StepForm, CreateAgain, Pass, vars, answers

\* A client that was told of the last chunk has read everything that was written before the
\* job ended, unless the end itself was lost with the daemon's memory.
THEOREM FinalChunksAreComplete == ASSUME RegistryConstants PROVE Spec => []FinalIsComplete
<1>1. Init => EInv
  BY DEF Init, EInv, NotReading
<1>2. EInv => FinalIsComplete
  BY DEF EInv, Complete, FinalIsComplete
<1> QED
  BY <1>1, <1>2, TInit, EveryStep, TStep, EStep, PTL DEF Spec

-----------------------------------------------------------------------------
\* Idempotency records.  One that is in the file is in memory while there is one, and the
\* job of a record is there with it.

Named(s) == \A k \in Keys : s.keys[k] # Nothing => s.jobs[s.keys[k].job].status # "absent"

NInv == /\ Named(mem) /\ Named(disk)
        /\ \A k \in Keys : disk.keys[k] # Nothing /\ up => mem.keys[k] = disk.keys[k]

LEMMA NStep ==
    ASSUME RegistryConstants, TInv, NInv, StepForm
    PROVE  NInv' /\ KeysStay
<1>1. CASE UNCHANGED <<mem, disk, up>>
  BY <1>1 DEF NInv, Named, KeysStay
<1>2. ASSUME NEW s \in Snapshot, Saves(s) PROVE NInv' /\ KeysStay
  <2>1. up /\ up' = up /\ mem' = s /\ disk' \in {disk, s} /\ mem \in Snapshot /\ disk \in Snapshot
    BY <1>2 DEF Saves, TInv, RegistryTypeOK
  <2>2. ASSUME NEW k \in Keys
        PROVE  /\ mem.keys[k] # Nothing => s.keys[k] = mem.keys[k]
               /\ s.keys[k] # Nothing => s.jobs[s.keys[k].job].status # "absent"
    <3>1. CASE s.keys[k] = mem.keys[k] /\ mem.keys[k] # Nothing
      <4>1. mem.keys[k].job \in Jobs
        BY <2>1, <3>1 DEF Snapshot, IdempotencyRecord
      <4>2. mem.jobs[mem.keys[k].job].status # "absent"
        BY <3>1 DEF NInv, Named
      <4> QED
        BY <1>2, <3>1, <4>1, <4>2 DEF Saves, Alters
    <3> QED
      BY <1>2, <3>1 DEF Saves, Alters
  <2>3. Named(s)
    BY <2>2 DEF Named
  <2>4. \A k \in Keys : disk.keys[k] # Nothing => s.keys[k] = disk.keys[k]
    BY <2>1, <2>2 DEF NInv
  <2>5. \A k \in Keys : disk.keys[k] # Nothing =>
           disk.jobs[disk.keys[k].job].status # "absent" /\ s.jobs[disk.keys[k].job].status # "absent"
    BY <2>2, <2>4 DEF NInv, Named
  <2>6. Named(mem') /\ Named(disk')
    BY <2>1, <2>3 DEF NInv, Named
  <2>7. \A k \in Keys : disk'.keys[k] # Nothing => mem'.keys[k] = disk'.keys[k]
    BY <2>1, <2>4
  <2>8. KeysStay
    <3> SUFFICES ASSUME NEW k \in Keys, disk.keys[k] # Nothing
                 PROVE  /\ disk'.keys[k] = disk.keys[k]
                        /\ disk'.jobs[disk.keys[k].job].status # "absent"
      BY DEF KeysStay
    <3> QED
      BY <2>1, <2>4, <2>5
  <2> QED
    BY <2>6, <2>7, <2>8 DEF NInv, Named
<1>3. CASE Crash
  <2>1. up' = FALSE /\ disk' = disk /\ mem' = EmptySnapshot
    BY <1>3 DEF Crash
  <2> QED
    BY <2>1 DEF NInv, Named, KeysStay, EmptySnapshot
<1>4. CASE Restart
  <2>1. mem' = disk /\ disk' = disk
    BY <1>4 DEF Restart
  <2> QED
    BY <2>1 DEF NInv, Named, KeysStay
<1> QED
  BY <1>1, <1>2, <1>3, <1>4
     DEF StepForm, AppendLog, CreateAgain, ReadStatus, ReadChunk, Pass, vars

LEMMA NInit == Init => NInv
BY DEF Init, NInv, Named, EmptySnapshot

\* A record that reached the file names the same job for good, and the job is there with it.
THEOREM DurableKeysStay == ASSUME RegistryConstants PROVE Spec => DurableKeyIsFinal
<1>1. [KeysStay]_vars <=> KeysStay \/ UNCHANGED vars
  OBVIOUS
<1>2. TInv /\ NInv /\ [Next]_vars => [KeysStay]_vars
  BY EveryStep, NStep
<1>3. TInv /\ NInv /\ [Next]_vars => NInv'
  BY EveryStep, NStep
<1> QED
  BY <1>2, <1>3, TInit, NInit, EveryStep, TStep, PTL DEF Spec, DurableKeyIsFinal

-----------------------------------------------------------------------------
\* Jobs that were the answer for one key.  All but the one in the file were told by a memory
\* whose save had failed; the one in a memory that is not in the file counts already.

Forgettable(k) == IF disk.keys[k] # Nothing THEN promised[k] \ {disk.keys[k].job}
                  ELSE IF mem.keys[k] # Nothing THEN promised[k] \cup {mem.keys[k].job}
                  ELSE promised[k]

PInv == \A k \in Keys : /\ IsFiniteSet(promised[k])
                        /\ Cardinality(Forgettable(k)) <= faults

\* Taking an element away, or adding one, changes the number by one at most.
LEMMA OneMore ==
    ASSUME NEW S, IsFiniteSet(S), NEW x
    PROVE  /\ IsFiniteSet(S \cup {x}) /\ IsFiniteSet(S \ {x})
           /\ Cardinality(S) \in Nat /\ Cardinality(S \cup {x}) \in Nat /\ Cardinality(S \ {x}) \in Nat
           /\ Cardinality(S) <= Cardinality(S \ {x}) + 1
           /\ Cardinality(S \cup {x}) <= Cardinality(S) + 1
           /\ Cardinality(S \ {x}) <= Cardinality(S)
           /\ Cardinality(S) <= Cardinality(S \cup {x})
<1>1. IsFiniteSet(S \cup {x}) /\ IsFiniteSet(S \ {x})
  BY FS_AddElement, FS_RemoveElement
<1>2. Cardinality(S) \in Nat /\ Cardinality(S \cup {x}) \in Nat /\ Cardinality(S \ {x}) \in Nat
  BY <1>1, FS_CardinalityType
<1>3. Cardinality(S \cup {x}) = IF x \in S THEN Cardinality(S) ELSE Cardinality(S) + 1
  BY FS_AddElement
<1>4. Cardinality(S \ {x}) = IF x \in S THEN Cardinality(S) - 1 ELSE Cardinality(S)
  BY FS_RemoveElement
<1> QED
  BY <1>1, <1>2, <1>3, <1>4

LEMMA PStep ==
    ASSUME RegistryConstants, TInv, NInv, PInv, StepForm
    PROVE  PInv'
<1>1. /\ faults \in Nat /\ promised \in [Keys -> SUBSET Jobs]
      /\ (~up => mem = EmptySnapshot)
      /\ \A k \in Keys : IsFiniteSet(promised[k]) /\ Cardinality(Forgettable(k)) <= faults
  BY DEF TInv, RegistryTypeOK, PInv
<1>2. CASE UNCHANGED <<mem, disk, faults, promised>>
  BY <1>2 DEF PInv, Forgettable
<1>3. ASSUME NEW s \in Snapshot, Saves(s) PROVE PInv'
  <2>1. up /\ mem' = s /\ \A k \in Keys : mem.keys[k] # Nothing => s.keys[k] = mem.keys[k]
    BY <1>3 DEF Saves, Alters
  <2>2. \A k \in Keys : disk.keys[k] # Nothing => mem.keys[k] = disk.keys[k] /\ s.keys[k] = disk.keys[k]
    BY <2>1 DEF NInv
  <2>3. CASE disk' = disk /\ faults' = faults + 1 /\ promised' = promised
    <3> SUFFICES ASSUME NEW k \in Keys PROVE Cardinality(Forgettable(k)') <= faults + 1
      BY <1>1, <2>3 DEF PInv
    <3>1. CASE disk.keys[k] # Nothing
      <4>1. PICK S : S = Forgettable(k)
        OBVIOUS
      <4>2. PICK j : S = promised[k] \ {j}
        BY <3>1, <4>1 DEF Forgettable
      <4>3. Forgettable(k)' = S
        BY <2>3, <3>1, <4>1 DEF Forgettable
      <4>4. Cardinality(S) \in Nat /\ Cardinality(S) <= faults
        BY <1>1, <4>1, <4>2, OneMore
      <4> QED
        BY <1>1, <4>3, <4>4
    <3>2. CASE disk.keys[k] = Nothing /\ mem.keys[k] # Nothing
      <4>1. PICK S : S = Forgettable(k)
        OBVIOUS
      <4>2. PICK j : S = promised[k] \cup {j}
        BY <3>2, <4>1 DEF Forgettable
      <4>3. Forgettable(k)' = S
        BY <2>1, <2>3, <3>2, <4>1 DEF Forgettable
      <4>4. Cardinality(S) \in Nat /\ Cardinality(S) <= faults
        BY <1>1, <4>1, <4>2, OneMore
      <4> QED
        BY <1>1, <4>3, <4>4
    <3>3. CASE disk.keys[k] = Nothing /\ mem.keys[k] = Nothing
      <4>1. Cardinality(promised[k]) <= faults /\ Cardinality(promised[k]) \in Nat
        BY <1>1, <3>3, OneMore DEF Forgettable
      <4>2. PICK S, j : S = Forgettable(k)' /\ (S = promised[k] \/ S = promised[k] \cup {j})
        BY <2>1, <2>3, <3>3 DEF Forgettable
      <4>3. /\ Cardinality(promised[k] \cup {j}) <= Cardinality(promised[k]) + 1
            /\ Cardinality(promised[k] \cup {j}) \in Nat
        BY <1>1, OneMore
      <4>4. Cardinality(S) \in {Cardinality(promised[k]), Cardinality(promised[k] \cup {j})}
        BY <4>2, Zenon
      <4>5. Cardinality(S) <= faults + 1
        <5> SUFFICES ASSUME NEW n, NEW m, NEW l, n \in Nat, m \in Nat, faults \in Nat,
                            n <= faults, m <= n + 1, l \in {n, m}
                     PROVE  l <= faults + 1
          BY <1>1, <4>1, <4>3, <4>4
        <5> QED
          OBVIOUS
      <4> QED
        BY <4>2, <4>5
    <3> QED
      BY <3>1, <3>2, <3>3
  <2>4. CASE /\ disk' = s /\ faults' = faults
             /\ \A k \in Keys : \/ promised'[k] = promised[k]
                                \/ s.keys[k] # Nothing /\ promised'[k] = promised[k] \cup {s.keys[k].job}
    <3> SUFFICES ASSUME NEW k \in Keys
                 PROVE  IsFiniteSet(promised'[k]) /\ Cardinality(Forgettable(k)') <= faults
      BY <2>4 DEF PInv
    <3>1. IsFiniteSet(promised'[k])
      <4>1. PICK j : promised'[k] = promised[k] \/ promised'[k] = promised[k] \cup {j}
        BY <2>4
      <4>2. IsFiniteSet(promised[k]) /\ IsFiniteSet(promised[k] \cup {j})
        BY <1>1, OneMore
      <4>3. CASE promised'[k] = promised[k]
        BY <4>2, <4>3
      <4>4. CASE promised'[k] = promised[k] \cup {j}
        BY <4>2, <4>4
      <4> QED
        BY <4>1, <4>3, <4>4
    <3>2. CASE s.keys[k] # Nothing
      <4>1. PICK j : j = s.keys[k].job
        OBVIOUS
      <4>2. promised'[k] = promised[k] \/ promised'[k] = promised[k] \cup {j}
        BY <2>4, <4>1
      <4>3. Forgettable(k)' = promised[k] \ {j}
        BY <2>4, <3>2, <4>1, <4>2 DEF Forgettable
      <4>4. /\ Cardinality(promised[k] \ {j}) <= Cardinality(promised[k])
            /\ Cardinality(promised[k]) <= Cardinality(promised[k] \cup {j})
            /\ Cardinality(promised[k]) \in Nat /\ Cardinality(promised[k] \ {j}) \in Nat
            /\ Cardinality(promised[k] \cup {j}) \in Nat
        BY <1>1, OneMore
      <4>5. Forgettable(k) \in {promised[k] \ {j}, promised[k] \cup {j}, promised[k]}
        BY <2>1, <2>2, <4>1 DEF Forgettable
      <4> QED
        BY <1>1, <3>1, <4>3, <4>4, <4>5
    <3>3. CASE s.keys[k] = Nothing
      <4>1. mem.keys[k] = Nothing /\ disk.keys[k] = Nothing /\ promised'[k] = promised[k]
        BY <2>1, <2>2, <2>4, <3>3
      <4>2. Forgettable(k)' = promised[k] /\ Forgettable(k) = promised[k]
        BY <2>1, <2>4, <3>3, <4>1 DEF Forgettable
      <4> QED
        BY <1>1, <3>1, <4>2
    <3> QED
      BY <3>2, <3>3
  <2>5. Answers(s) => \A k \in Keys : \/ promised'[k] = promised[k]
                                      \/ s.keys[k] # Nothing /\ promised'[k] = promised[k] \cup {s.keys[k].job}
    BY <1>1 DEF Answers, answers
  <2> QED
    BY <1>3, <2>3, <2>4, <2>5 DEF Saves, answers
<1>4. ASSUME NEW k \in Keys, NEW h \in Hashes, CreateAgain(k, h) PROVE PInv'
  <2>1. /\ UNCHANGED <<mem, disk, faults>> /\ mem.keys[k] # Nothing /\ up
        /\ promised' = [promised EXCEPT ![k] = @ \cup {mem.keys[k].job}]
    BY <1>4 DEF CreateAgain
  <2>2. disk.keys[k] # Nothing => mem.keys[k] = disk.keys[k]
    BY <2>1 DEF NInv
  <2>3. ASSUME NEW i \in Keys
        PROVE  IsFiniteSet(promised'[i]) /\ Forgettable(i)' = Forgettable(i)
    <3>1. CASE i = k
      BY <1>1, <2>1, <2>2, <3>1, OneMore DEF Forgettable
    <3>2. CASE i # k
      BY <1>1, <2>1, <3>2 DEF Forgettable
    <3> QED
      BY <3>1, <3>2
  <2> QED
    BY <1>1, <2>1, <2>3 DEF PInv
<1>5. CASE Crash \/ Restart
  <2>1. /\ UNCHANGED <<disk, faults, promised>>
        /\ \A k \in Keys : disk.keys[k] = Nothing => mem'.keys[k] = Nothing
    BY <1>5 DEF Crash, Restart, answers, EmptySnapshot
  <2>2. ASSUME NEW k \in Keys PROVE Cardinality(Forgettable(k)') <= faults
    <3>1. CASE disk.keys[k] # Nothing
      <4>1. Forgettable(k)' = Forgettable(k)
        BY <2>1, <3>1 DEF Forgettable
      <4> QED
        BY <1>1, <4>1
    <3>2. CASE disk.keys[k] = Nothing
      <4>1. Forgettable(k)' = promised[k]
        BY <2>1, <3>2 DEF Forgettable
      <4>2. PICK S, j : S = Forgettable(k) /\ (S = promised[k] \/ S = promised[k] \cup {j})
        BY <3>2 DEF Forgettable
      <4>3. /\ Cardinality(promised[k]) <= Cardinality(promised[k] \cup {j})
            /\ Cardinality(promised[k]) \in Nat /\ Cardinality(promised[k] \cup {j}) \in Nat
        BY <1>1, OneMore
      <4>4. Cardinality(S) <= faults
        BY <1>1, <4>2
      <4>5. Cardinality(promised[k]) <= faults
        BY <1>1, <4>2, <4>3, <4>4
      <4> QED
        BY <4>1, <4>5
    <3> QED
      BY <3>1, <3>2
  <2>3. \A k \in Keys : IsFiniteSet(promised'[k]) /\ faults' = faults
    BY <1>1, <2>1
  <2> QED
    BY <2>2, <2>3 DEF PInv
<1> QED
  BY <1>2, <1>3, <1>4, <1>5
     DEF StepForm, AppendLog, ReadStatus, ReadChunk, Pass, vars, answers

\* A key is answered with one job more than there were failed saves, at most: without one it
\* always names the same job.
THEOREM KeysNameOneJob == ASSUME RegistryConstants PROVE Spec => []KeyNamesOneJob
<1>1. Init => PInv
  BY FS_EmptySet DEF Init, PInv, Forgettable, EmptySnapshot
<1>2. TInv /\ PInv => KeyNamesOneJob
  <2> SUFFICES ASSUME TInv, PInv, NEW k \in Keys PROVE Cardinality(promised[k]) <= 1 + faults
    BY DEF KeyNamesOneJob
  <2>1. /\ faults \in Nat /\ IsFiniteSet(promised[k]) /\ Cardinality(Forgettable(k)) <= faults
    BY DEF TInv, RegistryTypeOK, PInv
  <2>2. PICK x : \/ Forgettable(k) = promised[k] \ {x}
                 \/ Forgettable(k) = promised[k] \cup {x}
                 \/ Forgettable(k) = promised[k]
    BY DEF Forgettable
  <2>3. /\ Cardinality(promised[k]) <= Cardinality(promised[k] \ {x}) + 1
        /\ Cardinality(promised[k]) <= Cardinality(promised[k] \cup {x})
        /\ Cardinality(promised[k]) \in Nat /\ Cardinality(promised[k] \ {x}) \in Nat
        /\ Cardinality(promised[k] \cup {x}) \in Nat
    BY <2>1, OneMore
  <2> QED
    BY <2>1, <2>2, <2>3
<1>3. TInv /\ NInv /\ [Next]_vars => NInv'
  BY EveryStep, NStep
<1> QED
  BY <1>1, <1>2, <1>3, TInit, NInit, EveryStep, TStep, PStep, PTL DEF Spec

-----------------------------------------------------------------------------
(* ProcessManager.  MInv is the inductive invariant; Follows says what any *)
(* step of a daemon that runs on does to processes, records and calls.     *)

CONSTANTS Children, Callers, MaxLives
VARIABLES table, child, call, life

M == INSTANCE ProcessManager

\* A call of each kind has the fields of that kind.
LEMMA CallForm ==
    ASSUME NEW u \in M!Call
    PROVE  /\ u.step = "spawn" => u \in [step : {"spawn"}, job : Jobs]
           /\ u.step \in {"insert", "adopt"} =>
                 u \in [step : {"insert", "adopt"}, job : Jobs, child : Children]
           /\ u.step \in {"signal", "grace", "wait", "poll"} =>
                 u \in [step : {"signal", "grace", "wait", "poll"}, job : Jobs,
                        signal : {"TERM", "KILL"}]
BY DEF M!Call, M!Idle

\* No process was started by a daemon that is yet to come.
Lives == \A x \in Children : child[x].life <= life

MInv == M!ManagerTypeOK /\ Lives /\ M!NoOrphan /\ M!EndedIsGone

LEMMA ManagerInit == M!Init => MInv
BY DEF M!Init, MInv, M!ManagerTypeOK, Lives, M!NoOrphan, M!EndedIsGone, M!Child, M!Call, M!Idle, M!Unborn, M!Alive

LEMMA ManagerTypeStep ==
    ASSUME M!ManagerConstants, M!ManagerTypeOK, M!EndedIsGone, [M!Next]_(M!vars)
    PROVE  M!ManagerTypeOK'
<1>1. /\ table \in [Jobs -> M!Entry \cup {Nothing}] /\ child \in [Children -> M!Child]
      /\ call \in [Callers -> M!Call] /\ life \in Nat
  BY DEF M!ManagerTypeOK
<1>2. M!Idle \in M!Call
  BY DEF M!Call
<1>3. ASSUME NEW x \in Children PROVE M!Dies(x) \in [Children -> M!Child]
  BY <1>1 DEF M!Dies, M!Child
<1>4. ASSUME NEW c \in Callers, M!Return(c) PROVE call' \in [Callers -> M!Call]
  BY <1>1, <1>2, <1>4 DEF M!Return
<1>5. ASSUME NEW c \in Callers, NEW j \in Jobs, M!StartLooks(c, j) PROVE M!ManagerTypeOK'
  <2>1. [step |-> "spawn", job |-> j] \in M!Call
    BY DEF M!Call
  <2> QED
    BY <1>1, <1>5, <2>1 DEF M!StartLooks, M!ManagerTypeOK
<1>6. ASSUME NEW c \in Callers, M!Spawn(c) PROVE M!ManagerTypeOK'
  <2>1. call[c].job \in Jobs
    BY <1>1, <1>6, CallForm DEF M!Spawn
  <2>2. CASE M!Return(c) /\ UNCHANGED child
    BY <1>1, <1>4, <1>6, <2>2 DEF M!Spawn, M!ManagerTypeOK
  <2>3. ASSUME NEW x \in Children, child' = [child EXCEPT ![x] = [state |-> "alive", life |-> life]],
               call' = [call EXCEPT ![c] = [step |-> "insert", job |-> call[c].job, child |-> x]]
        PROVE  M!ManagerTypeOK'
    <3>1. [step |-> "insert", job |-> call[c].job, child |-> x] \in M!Call
      BY <2>1 DEF M!Call
    <3>2. [state |-> "alive", life |-> life] \in M!Child
      BY <1>1 DEF M!Child
    <3> QED
      BY <1>1, <1>6, <2>3, <3>1, <3>2 DEF M!Spawn, M!ManagerTypeOK
  <2> QED
    BY <1>6, <2>2, <2>3 DEF M!Spawn
<1>7. ASSUME NEW c \in Callers, M!Insert(c) PROVE M!ManagerTypeOK'
  <2>1. call[c].job \in Jobs /\ call[c].child \in Children
    BY <1>1, <1>7, CallForm DEF M!Insert
  <2>2. [child |-> call[c].child, status |-> "running", own |-> TRUE, done |-> FALSE] \in M!Entry
    BY <2>1 DEF M!Entry
  <2>3. [child EXCEPT ![call[c].child].state = "gone"] \in [Children -> M!Child]
    BY <1>1, <2>1 DEF M!Child
  <2> QED
    BY <1>1, <1>4, <1>7, <2>2, <2>3 DEF M!Insert, M!ManagerTypeOK
<1>8. ASSUME NEW c \in Callers, NEW j \in Jobs, NEW x \in Children, M!AdoptProbes(c, j, x)
      PROVE  M!ManagerTypeOK'
  <2>1. [step |-> "adopt", job |-> j, child |-> x] \in M!Call
    BY DEF M!Call
  <2> QED
    BY <1>1, <1>8, <2>1 DEF M!AdoptProbes, M!ManagerTypeOK
<1>9. ASSUME NEW c \in Callers, M!AdoptInserts(c) PROVE M!ManagerTypeOK'
  <2>1. call[c].job \in Jobs /\ call[c].child \in Children
    BY <1>1, <1>9, CallForm DEF M!AdoptInserts
  <2>2. [child |-> call[c].child, status |-> "adopted", own |-> FALSE, done |-> FALSE] \in M!Entry
    BY <2>1 DEF M!Entry
  <2> QED
    BY <1>1, <1>4, <1>9, <2>2 DEF M!AdoptInserts, M!ManagerTypeOK
<1>10. ASSUME NEW c \in Callers, NEW j \in Jobs, NEW s \in {"TERM", "KILL"}, M!TerminateLooks(c, j, s)
       PROVE  M!ManagerTypeOK'
  <2>1. [step |-> "signal", job |-> j, signal |-> s] \in M!Call
    BY DEF M!Call
  <2>2. [table EXCEPT ![j].status = "stopping"] \in [Jobs -> M!Entry \cup {Nothing}]
    BY <1>1, <1>10 DEF M!TerminateLooks, M!Entry
  <2> QED
    BY <1>1, <1>10, <2>1, <2>2 DEF M!TerminateLooks, M!ManagerTypeOK
<1>11. ASSUME NEW c \in Callers, call[c].step \in {"signal", "grace", "wait", "poll"}
       PROVE  /\ call[c].job \in Jobs /\ table[call[c].job] \in M!Entry
              /\ \A t \in {"signal", "grace", "wait", "poll"} :
                    [call EXCEPT ![c].step = t] \in [Callers -> M!Call]
  <2>1. call[c] \in [step : {"signal", "grace", "wait", "poll"}, job : Jobs, signal : {"TERM", "KILL"}]
    BY <1>1, <1>11, CallForm
  <2>2. table[call[c].job] # Nothing
    BY <1>11 DEF M!EndedIsGone
  <2>3. ASSUME NEW t \in {"signal", "grace", "wait", "poll"} PROVE [call[c] EXCEPT !.step = t] \in M!Call
    BY <2>1 DEF M!Call
  <2> QED
    BY <1>1, <2>1, <2>2, <2>3
<1>12. ASSUME NEW c \in Callers, M!Signal(c) PROVE M!ManagerTypeOK'
  <2>1. call[c].job \in Jobs /\ table[call[c].job] \in M!Entry
    BY <1>11, <1>12 DEF M!Signal
  <2>2. child' \in [Children -> M!Child]
    BY <1>1, <1>3, <1>12, <2>1 DEF M!Signal, M!Entry
  <2>3. call' \in [Callers -> M!Call]
    BY <1>11, <1>12 DEF M!Signal
  <2> QED
    BY <1>1, <1>12, <2>2, <2>3 DEF M!Signal, M!ManagerTypeOK
<1>13. ASSUME NEW c \in Callers, M!Escalate(c) PROVE M!ManagerTypeOK'
  <2>1. call[c].job \in Jobs /\ table[call[c].job] \in M!Entry
    BY <1>11, <1>13 DEF M!Escalate
  <2>2. child' \in [Children -> M!Child]
    BY <1>1, <1>3, <1>13, <2>1 DEF M!Escalate, M!Entry
  <2>3. call' \in [Callers -> M!Call]
    BY <1>11, <1>13 DEF M!Escalate
  <2> QED
    BY <1>1, <1>13, <2>2, <2>3 DEF M!Escalate, M!ManagerTypeOK
<1>14. ASSUME NEW c \in Callers, M!Terminated(c) \/ M!Abandon(c) PROVE M!ManagerTypeOK'
  BY <1>1, <1>4, <1>14 DEF M!Terminated, M!Abandon, M!ManagerTypeOK
<1>15. ASSUME NEW c \in Callers, M!PollEnds(c) PROVE M!ManagerTypeOK'
  <2>1. call[c].job \in Jobs /\ table[call[c].job] \in M!Entry
    BY <1>11, <1>15 DEF M!PollEnds
  <2>2. table' \in [Jobs -> M!Entry \cup {Nothing}]
    BY <1>1, <1>15, <2>1 DEF M!PollEnds, M!Entry, M!Ended
  <2> QED
    BY <1>1, <1>4, <1>15, <2>2 DEF M!PollEnds, M!ManagerTypeOK
<1>16. ASSUME NEW x \in Children, M!ChildEnds(x) PROVE M!ManagerTypeOK'
  BY <1>1, <1>3, <1>16 DEF M!ChildEnds, M!ManagerTypeOK
<1>17. ASSUME NEW j \in Jobs, M!WaitReturns(j) PROVE M!ManagerTypeOK'
  <2>1. table[j] \in M!Entry
    BY <1>1, <1>17 DEF M!WaitReturns
  <2>2. table' \in [Jobs -> M!Entry \cup {Nothing}] /\ child' \in [Children -> M!Child]
    BY <1>1, <1>17, <2>1 DEF M!WaitReturns, M!Entry, M!Ended, M!Child
  <2> QED
    BY <1>1, <1>17, <2>2 DEF M!WaitReturns, M!ManagerTypeOK
<1>18. CASE M!Restart
  <2>1. child' \in [Children -> M!Child]
    BY <1>1, <1>18 DEF M!Restart, M!Child
  <2> QED
    BY <1>1, <1>2, <1>18, <2>1 DEF M!Restart, M!ManagerTypeOK
<1>19. CASE UNCHANGED M!vars
  BY <1>1, <1>19 DEF M!vars, M!ManagerTypeOK
<1> QED
  BY <1>5, <1>6, <1>7, <1>8, <1>9, <1>10, <1>12, <1>13, <1>14, <1>15, <1>16, <1>17, <1>18, <1>19
     DEF M!Next, M!Calls

\* A daemon that runs on: a process ends, is waited for or is born in the hands of a Start; a
\* record stays one of the same process, and says that it ended when it is gone; a Start keeps
\* its child until that is in the table or gone.
ChildFollows(x) ==
    \/ child'[x] = child[x]
    \/ /\ child'[x].life = child[x].life
       /\ \/ child[x].state = "alive" /\ child'[x].state \in {"dead", "gone"}
          \/ child'[x].state = "gone"
    \/ /\ child[x].state = "unborn" /\ child'[x].life = life
       /\ \E c \in Callers : call'[c].step = "insert" /\ call'[c].child = x
EntryFollows(j) ==
    /\ table[j] # Nothing =>
          table'[j] # Nothing /\ table'[j].child = table[j].child /\ table'[j].own = table[j].own
    /\ table'[j] # Nothing /\ table'[j].status \in M!Ended =>
          \/ table[j] # Nothing /\ table[j].status \in M!Ended
          \/ child'[table'[j].child].state = "gone"
CallFollows(c) ==
    /\ call[c].step = "insert" =>
          \/ call'[c] = call[c]
          \/ child'[call[c].child].state = "gone"
          \/ \E j \in Jobs : table'[j] # Nothing /\ table'[j].child = call[c].child
    /\ call'[c].step \in {"signal", "grace", "wait", "poll"} =>
          /\ table'[call'[c].job] # Nothing
          /\ call'[c].step \in {"grace", "wait"} => table'[call'[c].job].own
Follows == /\ life' = life
           /\ \A x \in Children : ChildFollows(x)
           /\ \A j \in Jobs : EntryFollows(j)
           /\ \A c \in Callers : CallFollows(c)

LEMMA ManagerFollows ==
    ASSUME M!ManagerConstants, M!ManagerTypeOK, M!EndedIsGone, [M!Next]_(M!vars)
    PROVE  Follows \/ M!Restart
<1>1. /\ table \in [Jobs -> M!Entry \cup {Nothing}] /\ child \in [Children -> M!Child]
      /\ call \in [Callers -> M!Call] /\ life \in Nat
  BY DEF M!ManagerTypeOK
<1>2. ASSUME NEW c \in Callers, call[c].step \in {"signal", "grace", "wait", "poll"}
      PROVE  /\ call[c] \in [step : {"signal", "grace", "wait", "poll"}, job : Jobs,
                             signal : {"TERM", "KILL"}]
             /\ table[call[c].job] # Nothing /\ table[call[c].job] \in M!Entry
             /\ call[c].step \in {"grace", "wait"} => table[call[c].job].own
  <2>1. call[c] \in [step : {"signal", "grace", "wait", "poll"}, job : Jobs, signal : {"TERM", "KILL"}]
    BY <1>1, <1>2, CallForm
  <2> QED
    BY <1>1, <1>2, <2>1 DEF M!EndedIsGone
<1>3. ASSUME UNCHANGED table PROVE \A j \in Jobs : EntryFollows(j)
  BY <1>3 DEF EntryFollows
<1>4. ASSUME UNCHANGED child PROVE \A x \in Children : ChildFollows(x)
  BY <1>4 DEF ChildFollows
<1>5. ASSUME NEW x \in Children, M!Alive(x), child' = M!Dies(x) PROVE \A y \in Children : ChildFollows(y)
  <2>1. child' = [child EXCEPT ![x].state = "dead"] \/ child' = [child EXCEPT ![x].state = "gone"]
    BY <1>5 DEF M!Dies
  <2> QED
    BY <1>1, <1>5, <2>1 DEF ChildFollows, M!Alive, M!Child
<1>6. ASSUME NEW x \in Children, child' = [child EXCEPT ![x].state = "gone"]
      PROVE  \A y \in Children : ChildFollows(y) /\ (y = x => child'[y].state = "gone")
  BY <1>1, <1>6 DEF ChildFollows, M!Child
\* Nothing but the call of c changes, and that is not in the middle of anything.
<1>7. ASSUME UNCHANGED call PROVE UNCHANGED table => \A c \in Callers : CallFollows(c)
  BY <1>2, <1>7 DEF CallFollows
<1>8. ASSUME NEW c \in Callers, NEW u, call' = [call EXCEPT ![c] = u], CallFollows(c),
             \A j \in Jobs : EntryFollows(j)
      PROVE  \A d \in Callers : CallFollows(d)
  <2> SUFFICES ASSUME NEW d \in Callers, d # c PROVE CallFollows(d)
    BY <1>8
  <2>1. call'[d] = call[d]
    BY <1>1, <1>8
  <2> QED
    BY <1>2, <1>8, <2>1 DEF CallFollows, EntryFollows
<1>9. ASSUME NEW c \in Callers, M!Return(c), call[c].step # "insert" PROVE CallFollows(c)
  <2>1. call'[c].step = "idle"
    BY <1>1, <1>9 DEF M!Return, M!Idle
  <2> QED
    BY <1>9, <2>1 DEF CallFollows
<1>10. ASSUME NEW c \in Callers, NEW j \in Jobs, M!StartLooks(c, j) PROVE Follows
  <2>1. CallFollows(c)
    BY <1>1, <1>10 DEF M!StartLooks, CallFollows
  <2> QED
    BY <1>3, <1>4, <1>8, <1>10, <2>1 DEF M!StartLooks, Follows
<1>11. ASSUME NEW c \in Callers, M!Spawn(c) PROVE Follows
  <2>1. CASE M!Return(c) /\ UNCHANGED child
    BY <1>3, <1>4, <1>8, <1>9, <1>11, <2>1 DEF M!Spawn, Follows, M!Return
  <2>2. ASSUME NEW x \in Children, child[x].state = "unborn",
               child' = [child EXCEPT ![x] = [state |-> "alive", life |-> life]],
               call' = [call EXCEPT ![c] = [step |-> "insert", job |-> call[c].job, child |-> x]]
        PROVE  Follows
    <3>1. CallFollows(c)
      BY <1>1, <1>11, <2>2 DEF M!Spawn, CallFollows
    <3>2. call'[c].step = "insert" /\ call'[c].child = x
      BY <1>1, <2>2
    <3>3. \A y \in Children : ChildFollows(y)
      BY <1>1, <2>2, <3>2 DEF ChildFollows
    <3> QED
      BY <1>3, <1>8, <1>11, <2>2, <3>1, <3>3 DEF M!Spawn, Follows
  <2> QED
    BY <1>11, <2>1, <2>2 DEF M!Spawn
<1>12. ASSUME NEW c \in Callers, M!Insert(c) PROVE Follows
  <2>1. call[c].job \in Jobs /\ call[c].child \in Children
    BY <1>1, <1>12, CallForm DEF M!Insert
  <2>2. call'[c].step = "idle" /\ call' = [call EXCEPT ![c] = M!Idle] /\ UNCHANGED life
    BY <1>1, <1>12 DEF M!Insert, M!Return, M!Idle
  <2> DEFINE e == [child |-> call[c].child, status |-> "running", own |-> TRUE, done |-> FALSE]
  <2>3. e \in M!Entry /\ e # Nothing /\ e.child = call[c].child /\ e.status \notin M!Ended
    <3>1. e \in M!Entry
      BY <2>1 DEF M!Entry
    <3>2. e.child = call[c].child /\ e.status \notin M!Ended
      BY DEF M!Ended
    <3> HIDE DEF e
    <3> QED
      BY <3>1, <3>2 DEF M!ManagerConstants
  <2> HIDE DEF e
  <2>4. CASE table[call[c].job] = Nothing /\ table' = [table EXCEPT ![call[c].job] = e] /\ UNCHANGED child
    <3>1. \A j \in Jobs : EntryFollows(j)
      BY <1>1, <2>1, <2>3, <2>4 DEF EntryFollows
    <3>2. table'[call[c].job] = e
      BY <1>1, <2>1, <2>4
    <3>3. CallFollows(c)
      BY <2>1, <2>2, <2>3, <3>2 DEF CallFollows
    <3> QED
      BY <1>4, <1>8, <2>2, <2>4, <3>1, <3>3 DEF Follows
  <2>5. CASE UNCHANGED table /\ child' = [child EXCEPT ![call[c].child].state = "gone"]
    <3>1. child'[call[c].child].state = "gone" /\ \A y \in Children : ChildFollows(y)
      BY <1>6, <2>1, <2>5
    <3>2. CallFollows(c)
      BY <2>2, <3>1 DEF CallFollows
    <3> QED
      BY <1>3, <1>8, <2>2, <2>5, <3>1, <3>2 DEF Follows
  <2> QED
    BY <1>12, <2>4, <2>5 DEF M!Insert, e
<1>13. ASSUME NEW c \in Callers, NEW j \in Jobs, NEW x \in Children, M!AdoptProbes(c, j, x)
       PROVE  Follows
  <2>1. CallFollows(c)
    BY <1>1, <1>13 DEF M!AdoptProbes, CallFollows
  <2> QED
    BY <1>3, <1>4, <1>8, <1>13, <2>1 DEF M!AdoptProbes, Follows
<1>14. ASSUME NEW c \in Callers, M!AdoptInserts(c) PROVE Follows
  <2>1. call[c].job \in Jobs /\ call[c].child \in Children
    BY <1>1, <1>14, CallForm DEF M!AdoptInserts
  <2>2. \A j \in Jobs : EntryFollows(j)
    BY <1>1, <1>14, <2>1 DEF M!AdoptInserts, EntryFollows, M!Ended
  <2> QED
    BY <1>4, <1>8, <1>9, <1>14, <2>2 DEF M!AdoptInserts, M!Return, Follows
<1>15. ASSUME NEW c \in Callers, NEW j \in Jobs, NEW s \in {"TERM", "KILL"}, M!TerminateLooks(c, j, s)
       PROVE  Follows
  <2>1. table[j] \in M!Entry /\ table[j] # Nothing
    BY <1>1, <1>15 DEF M!TerminateLooks
  <2> DEFINE e == [table[j] EXCEPT !.status = "stopping"]
  <2>2. e \in M!Entry /\ e # Nothing /\ e.child = table[j].child /\ e.own = table[j].own /\ e.status \notin M!Ended
    BY <2>1 DEF M!Entry, M!ManagerConstants, M!Ended
  <2> HIDE DEF e
  <2>3. UNCHANGED table \/ table' = [table EXCEPT ![j] = e]
    BY <1>1, <1>15 DEF M!TerminateLooks, e
  <2>4. \A i \in Jobs : EntryFollows(i)
    BY <1>1, <2>2, <2>3 DEF EntryFollows
  <2>5. CallFollows(c)
    <3>1. call'[c].step = "signal" /\ call'[c].job = j /\ call[c].step = "idle"
      BY <1>1, <1>15 DEF M!TerminateLooks
    <3> QED
      BY <2>1, <2>4, <3>1 DEF CallFollows, EntryFollows
  <2> QED
    BY <1>4, <1>8, <1>15, <2>4, <2>5 DEF M!TerminateLooks, Follows
<1>16. ASSUME NEW c \in Callers, M!Signal(c) \/ M!Escalate(c) PROVE Follows
  <2>1. /\ call[c].step \in {"signal", "grace", "wait", "poll"} /\ UNCHANGED <<table, life>>
        /\ call[c].step = "grace" => call[c].step \in {"grace", "wait"}
    BY <1>16 DEF M!Signal, M!Escalate
  <2>2. /\ call[c].job \in Jobs /\ table[call[c].job] \in M!Entry /\ table[call[c].job] # Nothing
        /\ call[c].step = "grace" => table[call[c].job].own
    BY <1>2, <2>1
  <2>3. \A x \in Children : ChildFollows(x)
    <3>1. table[call[c].job].child \in Children
      BY <2>2 DEF M!Entry
    <3>2. UNCHANGED child \/ (M!Alive(table[call[c].job].child) /\ child' = M!Dies(table[call[c].job].child))
      BY <1>16 DEF M!Signal, M!Escalate
    <3> QED
      BY <1>4, <1>5, <3>1, <3>2
  <2>4. PICK t \in {"grace", "wait", "poll"} : /\ call' = [call EXCEPT ![c].step = t]
                                               /\ t # "poll" => table[call[c].job].own
    BY <1>16, <2>2 DEF M!Signal, M!Escalate
  <2> DEFINE u == [call[c] EXCEPT !.step = t]
  <2>5. u.step = t /\ u.job = call[c].job
    BY <1>2, <2>1
  <2>6. call' = [call EXCEPT ![c] = u]
    BY <1>1, <2>4
  <2> HIDE DEF u
  <2>7. CallFollows(c)
    BY <1>1, <2>1, <2>2, <2>4, <2>5, <2>6 DEF CallFollows
  <2> QED
    BY <1>3, <1>8, <2>1, <2>3, <2>6, <2>7 DEF Follows
<1>17. ASSUME NEW c \in Callers, M!Terminated(c) \/ M!Abandon(c) PROVE Follows
  <2>1. UNCHANGED <<table, child, life>> /\ M!Return(c) /\ call[c].step # "insert"
    BY <1>17 DEF M!Terminated, M!Abandon
  <2> QED
    BY <1>3, <1>4, <1>8, <1>9, <2>1 DEF M!Return, Follows
<1>18. ASSUME NEW c \in Callers, M!PollEnds(c) PROVE Follows
  <2>1. /\ call[c].step = "poll" /\ UNCHANGED <<child, life>> /\ M!Return(c)
        /\ child[table[call[c].job].child].state = "gone"
    BY <1>18 DEF M!PollEnds
  <2>2. call[c].job \in Jobs /\ table[call[c].job] \in M!Entry
    BY <1>2, <2>1
  <2>3. PICK t \in M!Ended :
          table' = [table EXCEPT ![call[c].job] = [table[call[c].job] EXCEPT !.status = t, !.done = TRUE]]
    BY <1>18 DEF M!PollEnds, M!Ended
  <2> DEFINE e == [table[call[c].job] EXCEPT !.status = t, !.done = TRUE]
  <2>4. /\ e \in M!Entry /\ e # Nothing
        /\ e.child = table[call[c].job].child /\ e.own = table[call[c].job].own
    BY <2>2 DEF M!Entry, M!ManagerConstants
  <2> HIDE DEF e
  <2>5. \A j \in Jobs : EntryFollows(j)
    BY <1>1, <2>1, <2>2, <2>3, <2>4 DEF EntryFollows, e
  <2> QED
    BY <1>4, <1>8, <1>9, <2>1, <2>5 DEF M!Return, Follows
<1>19. ASSUME NEW x \in Children, M!ChildEnds(x) PROVE Follows
  BY <1>3, <1>5, <1>7, <1>19 DEF M!ChildEnds, Follows
<1>20. ASSUME NEW j \in Jobs, M!WaitReturns(j) PROVE Follows
  <2>1. table[j] \in M!Entry /\ UNCHANGED <<call, life>>
    BY <1>1, <1>20 DEF M!WaitReturns
  <2> DEFINE e == [table[j] EXCEPT !.status = "exited", !.done = TRUE]
  <2>2. e \in M!Entry /\ e # Nothing /\ e.child = table[j].child /\ e.own = table[j].own
    BY <2>1 DEF M!Entry, M!ManagerConstants, M!Ended
  <2> HIDE DEF e
  <2>3. table' = [table EXCEPT ![j] = e]
    BY <1>20 DEF M!WaitReturns, e
  <2>4. (\A y \in Children : ChildFollows(y)) /\ child'[table[j].child].state = "gone"
    BY <1>6, <1>20, <2>1 DEF M!WaitReturns, M!Entry
  <2>5. \A i \in Jobs : EntryFollows(i)
    BY <1>1, <2>2, <2>3, <2>4 DEF EntryFollows
  <2>6. \A c \in Callers : CallFollows(c)
    BY <1>2, <2>1, <2>5 DEF CallFollows, EntryFollows
  <2> QED
    BY <2>1, <2>4, <2>5, <2>6 DEF Follows
<1>21. CASE UNCHANGED M!vars
  BY <1>3, <1>4, <1>7, <1>21 DEF M!vars, Follows
<1> QED
  BY <1>10, <1>11, <1>12, <1>13, <1>14, <1>15, <1>16, <1>17, <1>18, <1>19, <1>20, <1>21
     DEF M!Next, M!Calls

LEMMA ManagerRestart == ASSUME M!ManagerTypeOK, Lives, M!Restart PROVE (Lives /\ M!NoOrphan /\ M!EndedIsGone)'
<1>1. /\ life' = life + 1 /\ \A j \in Jobs : table'[j] = Nothing
      /\ \A c \in Callers : call'[c].step = "idle"
  BY DEF M!Restart, M!Idle
<1>2. \A x \in Children : child'[x].life = child[x].life /\ child[x].life <= life
                          /\ child[x].life \in Nat /\ life \in Nat
  BY DEF M!Restart, Lives, M!ManagerTypeOK, M!Child
<1>3. \A x \in Children : child'[x].life < life'
  BY <1>1, <1>2
<1> QED
  BY <1>1, <1>2, <1>3 DEF Lives, M!NoOrphan, M!EndedIsGone, M!Alive

LEMMA ManagerSafe ==
    ASSUME M!ManagerTypeOK, M!ManagerTypeOK', Lives, M!NoOrphan, M!EndedIsGone, Follows
    PROVE  (Lives /\ M!NoOrphan /\ M!EndedIsGone)'
<1>1. /\ life' = life /\ life \in Nat /\ child \in [Children -> M!Child]
      /\ call \in [Callers -> M!Call]
      /\ \A x \in Children : ChildFollows(x)
      /\ \A j \in Jobs : EntryFollows(j)
      /\ \A c \in Callers : CallFollows(c)
  BY DEF Follows, M!ManagerTypeOK
<1>2. Lives'
  BY <1>1 DEF Lives, ChildFollows
<1>3. M!NoOrphan'
  <2> SUFFICES ASSUME NEW x \in Children, child'[x].state = "alive", child'[x].life = life
               PROVE  \/ \E j \in Jobs : table'[j] # Nothing /\ table'[j].child = x
                      \/ \E c \in Callers : call'[c].step = "insert" /\ call'[c].child = x
    BY <1>1 DEF M!NoOrphan, M!Alive
  <2>1. CASE child'[x] = child[x]
    <3>1. CASE \E j \in Jobs : table[j] # Nothing /\ table[j].child = x
      BY <1>1, <3>1 DEF EntryFollows
    <3>2. ASSUME NEW c \in Callers, call[c].step = "insert", call[c].child = x
          PROVE  \/ \E j \in Jobs : table'[j] # Nothing /\ table'[j].child = x
                 \/ call'[c].step = "insert" /\ call'[c].child = x
      BY <1>1, <3>2 DEF CallFollows
    <3> QED
      BY <2>1, <3>1, <3>2 DEF M!NoOrphan, M!Alive
  <2> QED
    BY <1>1, <2>1 DEF ChildFollows
<1>4. M!EndedIsGone'
  <2>1. ASSUME NEW j \in Jobs, table'[j] # Nothing, table'[j].status \in M!Ended
        PROVE  child'[table'[j].child].state = "gone"
    <3>1. CASE table[j] # Nothing /\ table[j].status \in M!Ended
      <4>1. table'[j].child = table[j].child /\ table[j].child \in Children
        BY <1>1, <3>1 DEF EntryFollows, M!ManagerTypeOK, M!Entry
      <4>2. child[table[j].child].state = "gone"
        BY <3>1 DEF M!EndedIsGone
      <4> QED
        BY <1>1, <4>1, <4>2 DEF ChildFollows
    <3> QED
      BY <1>1, <2>1, <3>1 DEF EntryFollows
  <2> QED
    BY <1>1, <2>1 DEF M!EndedIsGone, CallFollows
<1> QED
  BY <1>2, <1>3, <1>4

LEMMA ManagerInvariant == ASSUME M!ManagerConstants PROVE M!Spec => []MInv
<1>1. MInv /\ [M!Next]_(M!vars) => MInv'
  BY ManagerTypeStep, ManagerFollows, ManagerRestart, ManagerSafe DEF MInv
<1> QED
  BY <1>1, ManagerInit, PTL DEF M!Spec

\* The table, the processes and the calls keep their types, however calls and ends interleave.
THEOREM ManagerTypeCorrect == ASSUME M!ManagerConstants PROVE M!Spec => []M!ManagerTypeOK
BY ManagerInvariant, PTL DEF MInv

\* No child of a running daemon is left that nobody can stop: two Starts of one job agree on
\* one of their children, and the other one is killed.
THEOREM NobodyIsOrphaned == ASSUME M!ManagerConstants PROVE M!Spec => []M!NoOrphan
BY ManagerInvariant, PTL DEF MInv

\* exited and killed are said of processes that are gone, and a Stop or Kill that waits has the
\* record that it waits for, one of a child of its own.
THEOREM EndedAlwaysGone == ASSUME M!ManagerConstants PROVE M!Spec => []M!EndedIsGone
BY ManagerInvariant, PTL DEF MInv

-----------------------------------------------------------------------------
(* ResourceLimiter.  What is counted are the leases that nobody released. *)

CONSTANTS Resources, Limit, Leases
VARIABLES inUse, lease, released

Slots == INSTANCE ResourceLimiter

Taken(r) == {l \in Leases \ released : lease[l] = r}

SInv == /\ Slots!LimiterTypeOK
        /\ \A r \in Resources : IsFiniteSet(Taken(r)) /\ inUse[r] = Cardinality(Taken(r))
        /\ \A r \in Resources : inUse[r] <= Limit[r]

LEMMA LimiterInit == ASSUME Slots!LimiterConstants PROVE Slots!Init => SInv
<1> SUFFICES ASSUME Slots!Init PROVE SInv
  OBVIOUS
<1>1. inUse = [r \in Resources |-> 0] /\ lease = [l \in Leases |-> Nothing] /\ released = {}
  BY DEF Slots!Init
<1>2. \A r \in Resources : Taken(r) = {}
  BY <1>1 DEF Taken, Slots!LimiterConstants
<1>3. \A r \in Resources : IsFiniteSet(Taken(r)) /\ Cardinality(Taken(r)) = 0
  BY <1>2, FS_EmptySet
<1> QED
  BY <1>1, <1>3 DEF SInv, Slots!LimiterTypeOK, Slots!LimiterConstants

LEMMA LimiterStep == ASSUME Slots!LimiterConstants, SInv, [Slots!Next]_(Slots!vars) PROVE SInv'
<1>1. /\ inUse \in [Resources -> Nat] /\ lease \in [Leases -> Resources \cup {Nothing}]
      /\ released \subseteq {l \in Leases : lease[l] # Nothing}
      /\ Limit \in [Resources -> Nat] /\ Nothing \notin Resources
      /\ \A r \in Resources : /\ IsFiniteSet(Taken(r)) /\ inUse[r] = Cardinality(Taken(r))
                              /\ inUse[r] <= Limit[r]
  BY DEF SInv, Slots!LimiterTypeOK, Slots!LimiterConstants
\* The types follow from the count: a lease that was not released is counted.
<1>2. ASSUME inUse' \in [Resources -> Nat], lease' \in [Leases -> Resources \cup {Nothing}],
             released' \subseteq {l \in Leases : lease'[l] # Nothing},
             \A r \in Resources : /\ IsFiniteSet(Taken(r)') /\ inUse'[r] = Cardinality(Taken(r)')
                                  /\ inUse'[r] <= Limit[r]
      PROVE  SInv'
  <2>1. ASSUME NEW l \in Leases \ released', lease'[l] # Nothing PROVE inUse'[lease'[l]] > 0
    <3>1. PICK r \in Resources : r = lease'[l]
      BY <1>2, <2>1
    <3>2. l \in Taken(r)'
      BY <3>1 DEF Taken
    <3>3. PICK T : T = Taken(r)'
      OBVIOUS
    <3>4. IsFiniteSet(T) /\ T # {} /\ inUse'[r] = Cardinality(T)
      BY <1>2, <3>2, <3>3
    <3>5. Cardinality(T) \in Nat /\ Cardinality(T) # 0
      BY <3>4, FS_EmptySet, FS_CardinalityType
    <3> QED
      BY <3>1, <3>4, <3>5
  <2> QED
    BY <1>2, <2>1 DEF SInv, Slots!LimiterTypeOK
<1>3. ASSUME NEW l \in Leases, NEW r \in Resources, Slots!Acquire(l, r) PROVE SInv'
  <2>1. /\ lease[l] = Nothing /\ inUse[r] < Limit[r] /\ released' = released
        /\ inUse' = [inUse EXCEPT ![r] = @ + 1] /\ lease' = [lease EXCEPT ![l] = r]
    BY <1>3 DEF Slots!Acquire
  <2>2. l \notin released
    BY <1>1, <2>1
  <2>3. Taken(r)' = Taken(r) \cup {l} /\ l \notin Taken(r)
    BY <1>1, <2>1, <2>2 DEF Taken
  <2>4. \A q \in Resources : q # r => Taken(q)' = Taken(q)
    BY <1>1, <2>1 DEF Taken
  <2>5. IsFiniteSet(Taken(r)') /\ Cardinality(Taken(r)') = inUse[r] + 1
    BY <1>1, <2>3, FS_AddElement
  <2>6. ASSUME NEW q \in Resources
        PROVE  IsFiniteSet(Taken(q)') /\ inUse'[q] = Cardinality(Taken(q)') /\ inUse'[q] <= Limit[q]
    <3>1. CASE q = r
      BY <1>1, <2>1, <2>5, <3>1
    <3>2. CASE q # r
      BY <1>1, <2>1, <2>4, <3>2
    <3> QED
      BY <3>1, <3>2
  <2> QED
    BY <1>1, <1>2, <2>1, <2>6
<1>4. ASSUME NEW l \in Leases, Slots!Release(l) PROVE SInv'
  <2>1. CASE l \in released /\ UNCHANGED Slots!vars
    BY <2>1 DEF Slots!vars, SInv, Slots!LimiterTypeOK, Taken
  <2>2. CASE /\ l \notin released /\ lease[l] # Nothing /\ inUse[lease[l]] > 0
             /\ inUse' = [inUse EXCEPT ![lease[l]] = @ - 1]
             /\ released' = released \cup {l} /\ lease' = lease
    <3>1. PICK r \in Resources : r = lease[l]
      BY <1>1, <2>2
    <3>2. Taken(r)' = Taken(r) \ {l} /\ l \in Taken(r)
      BY <2>2, <3>1 DEF Taken
    <3>3. \A q \in Resources : q # r => Taken(q)' = Taken(q)
      BY <2>2, <3>1 DEF Taken
    <3>4. IsFiniteSet(Taken(r)') /\ Cardinality(Taken(r)') = inUse[r] - 1
      BY <1>1, <3>2, FS_RemoveElement
    <3>5. inUse[r] > 0 /\ inUse' = [inUse EXCEPT ![r] = @ - 1]
      BY <2>2, <3>1
    <3>6. ASSUME NEW q \in Resources
          PROVE  IsFiniteSet(Taken(q)') /\ inUse'[q] = Cardinality(Taken(q)') /\ inUse'[q] <= Limit[q]
      <4>1. CASE q = r
        BY <1>1, <3>4, <3>5, <4>1
      <4>2. CASE q # r
        BY <1>1, <3>3, <3>5, <4>2
      <4> QED
        BY <4>1, <4>2
    <3> QED
      BY <1>1, <1>2, <2>2, <3>5, <3>6
  <2> QED
    BY <1>4, <2>1, <2>2 DEF Slots!Release, Slots!vars
<1>5. CASE UNCHANGED Slots!vars
  BY <1>5 DEF Slots!vars, SInv, Slots!LimiterTypeOK, Taken
<1> QED
  BY <1>3, <1>4, <1>5 DEF Slots!Next

\* The tokens of a resource are its leases that nobody has released, and never more than its
\* limit, however often and by whomever a lease is released; and no release ever waits.
THEOREM TokensAlwaysLeases ==
    ASSUME Slots!LimiterConstants
    PROVE  Slots!Spec => [](Slots!LimiterTypeOK /\ Slots!TokensAreLeases)
<1>1. SInv => Slots!LimiterTypeOK /\ Slots!TokensAreLeases
  <2>1. \A r \in Resources : Slots!Cardinality(Taken(r)) = Cardinality(Taken(r))
    BY DEF Slots!Cardinality, Cardinality
  <2> QED
    BY <2>1 DEF SInv, Slots!TokensAreLeases, Taken
<1>2. SInv /\ [Slots!Next]_(Slots!vars) => SInv'
  BY LimiterStep
<1> QED
  BY <1>1, <1>2, LimiterInit, PTL DEF Slots!Spec

-----------------------------------------------------------------------------
(* HealthRuns.  What a sweep has listed was there, and is set up only once: *)
(* what is left of it when it is removed is as old as when it was looked at. *)

CONSTANTS Runs, KindOf, Sweepers, Retention, MaxSweeps
VARIABLES dir, registered, sweep, removedAt, sweeps
Health == INSTANCE HealthRuns

Sweep == [pc : {"idle", "list", "look", "clean", "remove", "error"}, names : SUBSET Runs,
          candidates : SUBSET Runs, cleaned : SUBSET Runs, failed : SUBSET Runs, read : Nat]
SweepTypes ==
    /\ now \in Nat
    /\ dir \in [Runs -> [modified : Nat, busy : BOOLEAN] \cup {Nothing}]
    /\ removedAt \in [Runs -> [at : Nat, of : Nat] \cup {Nothing}]
    /\ sweep \in [Sweepers -> Sweep]

\* A run that has been there; it is not set up again.
Known(r) == dir[r] # Nothing \/ removedAt[r] # Nothing
Sweeping(s) ==
    /\ \A r \in sweep[s].names \cup sweep[s].candidates : Known(r)
    /\ \A r \in sweep[s].candidates :
          dir[r] # Nothing => Health!Eligible(r, dir[r].modified, sweep[s].read)
    /\ \A r \in sweep[s].cleaned : dir[r] = Nothing /\ removedAt[r] # Nothing
    /\ sweep[s].pc = "remove" => sweep[s].candidates # {}
SweepInv ==
    /\ SweepTypes /\ Health!HealthTypeOK /\ Health!RemovedWasOld
    /\ \A s \in Sweepers : Sweeping(s)

LEMMA SweepInit == Health!Init => SweepInv
<1> SUFFICES ASSUME Health!Init PROVE SweepInv
  OBVIOUS
<1>1. /\ now = 0 /\ dir = [r \in Runs |-> Nothing] /\ removedAt = [r \in Runs |-> Nothing]
      /\ sweep = [s \in Sweepers |-> Health!NoSweep]
  BY DEF Health!Init
<1>2. Health!NoSweep \in Sweep
  BY DEF Health!NoSweep, Sweep
<1>3. SweepTypes
  BY <1>1, <1>2 DEF SweepTypes
<1>4. \A s \in Sweepers : Sweeping(s) /\ sweep[s].read <= now
  BY <1>1 DEF Sweeping, Health!NoSweep
<1> QED
  BY <1>1, <1>3, <1>4 DEF SweepInv, Health!HealthTypeOK, Health!RemovedWasOld

\* A step of one sweep that touches no run.
LEMMA SweepStep ==
    ASSUME SweepInv, NEW s \in Sweepers, NEW w \in Sweep, sweep' = [sweep EXCEPT ![s] = w],
           w.read <= now,
           \A r \in w.names \cup w.candidates : Known(r),
           \A r \in w.candidates : dir[r] # Nothing => Health!Eligible(r, dir[r].modified, w.read),
           \A r \in w.cleaned : r \in sweep[s].cleaned,
           w.pc = "remove" => w.candidates # {},
           UNCHANGED <<now, dir, removedAt>>
    PROVE  SweepInv'
<1>1. sweep'[s] = w /\ \A x \in Sweepers \ {s} : sweep'[x] = sweep[x]
  BY DEF SweepInv, SweepTypes
<1>2. SweepTypes'
  BY DEF SweepInv, SweepTypes
<1>3. \A x \in Sweepers : Sweeping(x)'
  <2>1. Sweeping(s)'
    BY <1>1 DEF SweepInv, Sweeping, Known, Health!Eligible
  <2>2. \A x \in Sweepers \ {s} : Sweeping(x)'
    BY <1>1 DEF SweepInv, Sweeping, Known, Health!Eligible
  <2> QED
    BY <2>1, <2>2
<1>4. Health!HealthTypeOK' /\ Health!RemovedWasOld'
  BY <1>1 DEF SweepInv, Health!HealthTypeOK, Health!RemovedWasOld
<1> QED
  BY <1>2, <1>3, <1>4 DEF SweepInv

\* The sweeps themselves (worktreecleanup, Sweep, Discover and Clean).
LEMMA SweepsKeep ==
    ASSUME SweepInv, NEW s \in Sweepers,
           \/ Health!BeginSweep(s) \/ Health!List(s) \/ Health!Look(s)
           \/ Health!GitRemove(s) \/ Health!GitFails(s) \/ Health!EndSweep(s)
    PROVE  SweepInv'
<1>0. sweep \in [Sweepers -> Sweep] /\ sweep[s] \in Sweep /\ Sweeping(s) /\ now \in Nat /\ sweep[s].read <= now
  BY DEF SweepInv, SweepTypes, Health!HealthTypeOK
<1>1. CASE Health!BeginSweep(s)
  <2> PICK w : w = [Health!NoSweep EXCEPT !.pc = "list", !.read = now]
    OBVIOUS
  <2>1. /\ w \in Sweep /\ w.read = now /\ w.names = {} /\ w.candidates = {} /\ w.cleaned = {}
        /\ w.pc = "list"
    BY <1>0 DEF Health!NoSweep, Sweep
  <2>2. sweep' = [sweep EXCEPT ![s] = w] /\ UNCHANGED <<now, dir, removedAt>>
    BY <1>1 DEF Health!BeginSweep
  <2>3. /\ w.read <= now /\ \A r \in w.names \cup w.candidates : Known(r)
        /\ \A r \in w.candidates : dir[r] # Nothing => Health!Eligible(r, dir[r].modified, w.read)
        /\ \A r \in w.cleaned : r \in sweep[s].cleaned
        /\ w.pc = "remove" => w.candidates # {}
    BY <1>0, <2>1
  <2> QED
    BY <2>1, <2>2, <2>3, SweepStep
<1>2. CASE Health!List(s)
  <2> PICK p : p = Health!Present
    OBVIOUS
  <2> PICK w : w = [sweep[s] EXCEPT !.pc = "look", !.names = p]
    OBVIOUS
  <2>0. p \subseteq Runs /\ \A r \in p : Known(r)
    BY DEF Health!Present, Known
  <2>1. /\ w \in Sweep /\ w.read = sweep[s].read /\ w.names = p
        /\ w.candidates = sweep[s].candidates /\ w.cleaned = sweep[s].cleaned /\ w.pc = "look"
    BY <1>0, <2>0 DEF Sweep
  <2>2. sweep' = [sweep EXCEPT ![s] = w] /\ UNCHANGED <<now, dir, removedAt>>
    BY <1>0, <1>2 DEF Health!List
  <2>3. /\ w.read <= now /\ \A r \in w.names \cup w.candidates : Known(r)
        /\ \A r \in w.candidates : dir[r] # Nothing => Health!Eligible(r, dir[r].modified, w.read)
        /\ \A r \in w.cleaned : r \in sweep[s].cleaned
        /\ w.pc = "remove" => w.candidates # {}
    BY <1>0, <2>0, <2>1 DEF Sweeping
  <2> QED
    BY <2>1, <2>2, <2>3, SweepStep
<1>3. CASE Health!Look(s)
  <2>1. CASE sweep[s].names = {}
    <3> PICK w : w = [sweep[s] EXCEPT !.pc = "clean"]
      OBVIOUS
    <3>1. /\ w \in Sweep /\ w.read = sweep[s].read /\ w.names = sweep[s].names
          /\ w.candidates = sweep[s].candidates /\ w.cleaned = sweep[s].cleaned /\ w.pc = "clean"
      BY <1>0 DEF Sweep
    <3>2. sweep' = [sweep EXCEPT ![s] = w] /\ UNCHANGED <<now, dir, removedAt>>
      BY <1>0, <1>3, <2>1 DEF Health!Look
    <3> QED
      BY <1>0, <3>1, <3>2, SweepStep DEF Sweeping
  <2>2. ASSUME sweep[s].names # {} PROVE SweepInv'
    <3>1. PICK r \in sweep[s].names :
            IF dir[r] = Nothing THEN sweep' = [sweep EXCEPT ![s] = [Health!NoSweep EXCEPT !.pc = "error"]]
            ELSE sweep' = [sweep EXCEPT ![s].names = @ \ {r},
                    ![s].candidates = IF Health!Eligible(r, dir[r].modified, sweep[s].read) THEN @ \cup {r} ELSE @]
      BY <1>3, <2>2 DEF Health!Look
    <3>2. UNCHANGED <<now, dir, removedAt>>
      BY <1>3 DEF Health!Look
    <3>3. CASE dir[r] = Nothing
      <4> PICK w : w = [Health!NoSweep EXCEPT !.pc = "error"]
        OBVIOUS
      <4>1. /\ w \in Sweep /\ w.read = 0 /\ w.names = {} /\ w.candidates = {} /\ w.cleaned = {}
            /\ w.pc = "error"
        BY DEF Health!NoSweep, Sweep
      <4>2. /\ w.read <= now /\ \A x \in w.names \cup w.candidates : Known(x)
            /\ \A x \in w.candidates : dir[x] # Nothing => Health!Eligible(x, dir[x].modified, w.read)
            /\ \A x \in w.cleaned : x \in sweep[s].cleaned
            /\ w.pc = "remove" => w.candidates # {}
        BY <1>0, <4>1
      <4>3. sweep' = [sweep EXCEPT ![s] = w]
        BY <3>1, <3>3
      <4> QED
        BY <3>2, <4>1, <4>2, <4>3, SweepStep
    <3>4. CASE dir[r] # Nothing
      <4> PICK c : c = IF Health!Eligible(r, dir[r].modified, sweep[s].read)
                       THEN sweep[s].candidates \cup {r} ELSE sweep[s].candidates
        OBVIOUS
      <4> PICK w : w = [sweep[s] EXCEPT !.names = @ \ {r}, !.candidates = c]
        OBVIOUS
      <4>1. /\ c \subseteq sweep[s].candidates \cup {r}
            /\ r \in c => r \in sweep[s].candidates \/ Health!Eligible(r, dir[r].modified, sweep[s].read)
        OBVIOUS
      <4>2. /\ w \in Sweep /\ w.read = sweep[s].read /\ w.names = sweep[s].names \ {r}
            /\ w.candidates = c /\ w.cleaned = sweep[s].cleaned /\ w.pc = sweep[s].pc
        BY <1>0, <4>1 DEF Sweep
      <4>3. sweep' = [sweep EXCEPT ![s] = w]
        BY <1>0, <3>1, <3>4
      <4>4. sweep[s].pc = "look"
        BY <1>3 DEF Health!Look
      <4>5. /\ w.read <= now /\ \A x \in w.names \cup w.candidates : Known(x)
            /\ \A x \in w.cleaned : x \in sweep[s].cleaned
            /\ w.pc = "remove" => w.candidates # {}
        BY <1>0, <3>4, <4>1, <4>2, <4>4 DEF Sweeping, Known
      <4>6. \A x \in w.candidates : dir[x] # Nothing => Health!Eligible(x, dir[x].modified, w.read)
        BY <1>0, <4>1, <4>2 DEF Sweeping
      <4> QED
        BY <3>2, <4>2, <4>3, <4>5, <4>6, SweepStep
    <3> QED
      BY <3>3, <3>4
  <2> QED
    BY <2>1, <2>2
<1>4. CASE Health!GitRemove(s) \/ Health!GitFails(s)
  <2> PICK w : w = [sweep[s] EXCEPT !.pc = "remove"]
    OBVIOUS
  <2>1. /\ w \in Sweep /\ w.read = sweep[s].read /\ w.names = sweep[s].names
        /\ w.candidates = sweep[s].candidates /\ w.cleaned = sweep[s].cleaned /\ w.pc = "remove"
    BY <1>0 DEF Sweep
  <2>2. /\ sweep' = [sweep EXCEPT ![s] = w] /\ UNCHANGED <<now, dir, removedAt>>
        /\ sweep[s].candidates # {}
    BY <1>0, <1>4 DEF Health!GitRemove, Health!GitFails, Health!Cleaning
  <2> QED
    BY <1>0, <2>1, <2>2, SweepStep DEF Sweeping
<1>5. CASE Health!EndSweep(s)
  <2> PICK w : w = [sweep[s] EXCEPT !.pc = "idle", !.names = {}]
    OBVIOUS
  <2>1. /\ w \in Sweep /\ w.read = sweep[s].read /\ w.names = {}
        /\ w.candidates = sweep[s].candidates /\ w.cleaned = sweep[s].cleaned /\ w.pc = "idle"
    BY <1>0 DEF Sweep
  <2>2. /\ sweep' = [sweep EXCEPT ![s] = w] /\ UNCHANGED <<now, dir, removedAt>>
    BY <1>0, <1>5 DEF Health!EndSweep
  <2> QED
    BY <1>0, <2>1, <2>2, SweepStep DEF Sweeping
<1> QED
  BY <1>1, <1>2, <1>3, <1>4, <1>5

\* Removing a run that was looked at: it was old then, and is older now.
LEMMA RemoveKeeps ==
    ASSUME Health!HealthConstants, SweepInv, NEW s \in Sweepers, Health!RemoveAll(s) PROVE SweepInv'
<1>0. /\ sweep \in [Sweepers -> Sweep] /\ sweep[s] \in Sweep /\ Sweeping(s) /\ now \in Nat
      /\ sweep[s].read <= now /\ sweep[s].pc = "remove"
  BY DEF SweepInv, SweepTypes, Health!HealthTypeOK, Health!RemoveAll
<1>1. PICK r : r = Health!NextOf(s)
  OBVIOUS
<1>2. r \in sweep[s].candidates
  BY <1>0, <1>1, Zenon DEF Sweeping, Health!NextOf
<1>3. r \in Runs /\ Known(r) /\ (dir[r] # Nothing => Health!Eligible(r, dir[r].modified, sweep[s].read))
  BY <1>0, <1>2 DEF Sweep, Sweeping
<1>4. PICK works \in BOOLEAN :
        /\ ~works => dir[r] # Nothing
        /\ dir' = IF works THEN [dir EXCEPT ![r] = Nothing] ELSE dir
        /\ removedAt' = IF works /\ dir[r] # Nothing THEN [removedAt EXCEPT ![r] = [at |-> now, of |-> dir[r].modified]]
                        ELSE removedAt
        /\ sweep' = [sweep EXCEPT ![s].pc = "clean", ![s].candidates = @ \ {r},
                        ![s].cleaned = IF works THEN @ \cup {r} ELSE @,
                        ![s].failed = IF works THEN @ ELSE @ \cup {r}]
        /\ now' = now
  <2>1. PICK works \in (IF faults < MaxFaults /\ dir[r] # Nothing THEN BOOLEAN ELSE {TRUE}) :
             /\ dir' = IF works THEN [dir EXCEPT ![r] = Nothing] ELSE dir
             /\ removedAt' = IF works /\ dir[r] # Nothing THEN [removedAt EXCEPT ![r] = [at |-> now, of |-> dir[r].modified]]
                             ELSE removedAt
             /\ sweep' = [sweep EXCEPT ![s].pc = "clean", ![s].candidates = @ \ {r},
                             ![s].cleaned = IF works THEN @ \cup {r} ELSE @,
                             ![s].failed = IF works THEN @ ELSE @ \cup {r}]
    BY <1>1, Zenon DEF Health!RemoveAll
  <2>2. works \in BOOLEAN /\ (~works => dir[r] # Nothing)
    BY <2>1, Zenon
  <2>3. now' = now
    BY DEF Health!RemoveAll
  <2> QED
    BY <2>1, <2>2, <2>3, Zenon
<1> PICK c : c = IF works THEN sweep[s].cleaned \cup {r} ELSE sweep[s].cleaned
  OBVIOUS
<1> PICK f : f = IF works THEN sweep[s].failed ELSE sweep[s].failed \cup {r}
  OBVIOUS
<1> PICK w : w = [sweep[s] EXCEPT !.pc = "clean", !.candidates = @ \ {r}, !.cleaned = c, !.failed = f]
  OBVIOUS
<1>5. /\ w \in Sweep /\ w.read = sweep[s].read /\ w.names = sweep[s].names
      /\ w.candidates = sweep[s].candidates \ {r} /\ w.cleaned = c /\ w.pc = "clean"
  BY <1>0, <1>3 DEF Sweep
<1>6. sweep' = [sweep EXCEPT ![s] = w]
  BY <1>0, <1>4 DEF Sweep
<1>7. sweep'[s] = w /\ \A x \in Sweepers \ {s} : sweep'[x] = sweep[x]
  BY <1>0, <1>6
<1>8. /\ dir \in [Runs -> [modified : Nat, busy : BOOLEAN] \cup {Nothing}]
      /\ removedAt \in [Runs -> [at : Nat, of : Nat] \cup {Nothing}]
  BY DEF SweepInv, SweepTypes
\* What becomes of the runs.
<1>9. /\ dir' \in [Runs -> [modified : Nat, busy : BOOLEAN] \cup {Nothing}]
      /\ \A q \in Runs : dir'[q] # Nothing => dir'[q] = dir[q]
      /\ works => dir'[r] = Nothing
  BY <1>3, <1>4, <1>8
<1>10. CASE works /\ dir[r] # Nothing
  <2> PICK t : t = [at |-> now, of |-> dir[r].modified]
    OBVIOUS
  <2>1. dir[r] \in [modified : Nat, busy : BOOLEAN] /\ dir[r].modified \in Nat
    BY <1>3, <1>8, <1>10
  <2>2. t \in [at : Nat, of : Nat] /\ t # Nothing /\ t.at = now /\ t.of = dir[r].modified
    BY <1>0, <2>1 DEF Health!HealthConstants
  <2>3. removedAt' = [removedAt EXCEPT ![r] = t]
    BY <1>4, <1>10
  <2>4. /\ removedAt' \in [Runs -> [at : Nat, of : Nat] \cup {Nothing}]
        /\ removedAt'[r] = t /\ \A q \in Runs \ {r} : removedAt'[q] = removedAt[q]
    BY <1>3, <1>8, <2>2, <2>3
  <2>5. t.at - t.of >= Retention[KindOf[r]]
    <3>1. Retention[KindOf[r]] \in Nat /\ sweep[s].read \in Nat
      BY <1>0, <1>3 DEF Health!HealthConstants, Sweep
    <3>2. sweep[s].read - dir[r].modified >= Retention[KindOf[r]]
      BY <1>3, <1>10 DEF Health!Eligible
    <3> QED
      BY <1>0, <2>1, <2>2, <3>1, <3>2
  <2>6. SweepTypes' /\ Health!RemovedWasOld' /\ Health!HealthTypeOK'
    <3>1. SweepTypes'
      BY <1>0, <1>4, <1>5, <1>6, <1>9, <2>4 DEF SweepTypes
    <3>2. Health!RemovedWasOld'
      BY <2>4, <2>5 DEF SweepInv, Health!RemovedWasOld
    <3>3. Health!HealthTypeOK'
      BY <1>0, <1>4, <1>5, <1>7, <1>9, <1>10, <2>4 DEF SweepInv, Health!HealthTypeOK
    <3> QED
      BY <3>1, <3>2, <3>3
  <2>7. \A x \in Sweepers : Sweeping(x)'
    <3>1. Sweeping(s)'
      <4>1. \A q \in c : q \in sweep[s].cleaned \/ q = r
        OBVIOUS
      <4>2. sweep[s].candidates \subseteq Runs /\ sweep[s].names \subseteq Runs /\ c \subseteq Runs
        BY <1>0, <1>3 DEF Sweep
      <4>3. \A q \in sweep'[s].names \cup sweep'[s].candidates : Known(q)'
        BY <1>0, <1>5, <1>7, <1>4, <1>8, <2>2, <2>4, <4>2 DEF Sweeping, Known
      <4>4. \A q \in sweep'[s].candidates :
               dir'[q] # Nothing => Health!Eligible(q, dir'[q].modified, sweep'[s].read)
        BY <1>0, <1>5, <1>7, <1>9, <4>2 DEF Sweeping
      <4>5. \A q \in sweep'[s].cleaned : dir'[q] = Nothing /\ removedAt'[q] # Nothing
        BY <1>0, <1>5, <1>7, <1>9, <1>10, <2>2, <2>4, <4>1, <4>2 DEF Sweeping
      <4> QED
        BY <1>5, <1>7, <4>3, <4>4, <4>5 DEF Sweeping, Health!Eligible
    <3>2. ASSUME NEW x \in Sweepers \ {s} PROVE Sweeping(x)'
      <4>1. sweep[x] \in Sweep /\ Sweeping(x) /\ sweep'[x] = sweep[x]
        BY <1>0, <1>7 DEF SweepInv
      <4>2. /\ sweep[x].candidates \subseteq Runs /\ sweep[x].names \subseteq Runs
            /\ sweep[x].cleaned \subseteq Runs
        BY <4>1 DEF Sweep
      <4>3. \A q \in Runs : Known(q) => Known(q)'
        BY <1>4, <1>8, <2>2, <2>4 DEF Known
      <4>4. \A q \in sweep'[x].candidates :
               dir'[q] # Nothing => Health!Eligible(q, dir'[q].modified, sweep'[x].read)
        BY <1>9, <4>1, <4>2 DEF Sweeping
      <4>5. \A q \in sweep'[x].cleaned : dir'[q] = Nothing /\ removedAt'[q] # Nothing
        BY <1>9, <2>2, <2>4, <4>1, <4>2 DEF Sweeping
      <4> QED
        BY <4>1, <4>2, <4>3, <4>4, <4>5 DEF Sweeping, Health!Eligible
    <3> QED
      BY <3>1, <3>2
  <2> QED
    BY <2>6, <2>7 DEF SweepInv
<1>11. CASE ~(works /\ dir[r] # Nothing)
  <2>1. removedAt' = removedAt
    BY <1>4, <1>11
  <2>2. dir' = dir
    BY <1>3, <1>4, <1>8, <1>11
  <2>3. works => dir[r] = Nothing /\ removedAt[r] # Nothing
    BY <1>3, <1>11 DEF Known
  <2>4. SweepTypes' /\ Health!RemovedWasOld' /\ Health!HealthTypeOK'
    <3>1. SweepTypes'
      BY <1>0, <1>4, <1>5, <1>6, <1>9, <2>1 DEF SweepTypes, SweepInv
    <3>2. Health!RemovedWasOld' /\ Health!HealthTypeOK'
      BY <1>0, <1>4, <1>5, <1>7, <2>1, <2>2 DEF SweepInv, Health!RemovedWasOld, Health!HealthTypeOK
    <3> QED
      BY <3>1, <3>2
  <2>5. \A x \in Sweepers : Sweeping(x)'
    <3>1. Sweeping(s)'
      BY <1>0, <1>5, <1>7, <2>1, <2>2, <2>3 DEF Sweeping, Known, Health!Eligible
    <3>2. \A x \in Sweepers \ {s} : Sweeping(x)'
      BY <1>7, <2>1, <2>2 DEF SweepInv, Sweeping, Known, Health!Eligible
    <3> QED
      BY <3>1, <3>2
  <2> QED
    BY <2>4, <2>5 DEF SweepInv
<1> QED
  BY <1>10, <1>11

LEMMA HealthStep == ASSUME Health!HealthConstants PROVE SweepInv /\ [Health!Next]_(Health!healthVars) => SweepInv'
<1> SUFFICES ASSUME Health!HealthConstants, SweepInv, [Health!Next]_(Health!healthVars) PROVE SweepInv'
  OBVIOUS
<1>0. /\ now \in Nat /\ sweep \in [Sweepers -> Sweep]
      /\ dir \in [Runs -> [modified : Nat, busy : BOOLEAN] \cup {Nothing}]
      /\ removedAt \in [Runs -> [at : Nat, of : Nat] \cup {Nothing}]
  BY DEF SweepInv, SweepTypes
\* A run that has been there is not set up again, and what happens in it does not age it.
<1>1. ASSUME NEW r \in Runs, NEW d \in [modified : Nat, busy : BOOLEAN], dir' = [dir EXCEPT ![r] = d],
             d.modified <= now, UNCHANGED <<now, sweep, removedAt>>,
             removedAt[r] = Nothing, dir[r] = Nothing \/ d.modified = dir[r].modified
      PROVE  SweepInv'
  <2>1. dir'[r] = d /\ \A q \in Runs \ {r} : dir'[q] = dir[q]
    BY <1>0, <1>1
  <2>2. SweepTypes' /\ Health!RemovedWasOld' /\ Health!HealthTypeOK'
    <3>1. SweepTypes'
      BY <1>0, <1>1 DEF SweepTypes
    <3>2. Health!RemovedWasOld'
      BY <1>1 DEF SweepInv, Health!RemovedWasOld
    <3>3. Health!HealthTypeOK'
      BY <1>1, <2>1 DEF SweepInv, Health!HealthTypeOK
    <3> QED
      BY <3>1, <3>2, <3>3
  <2>3. ASSUME NEW s \in Sweepers PROVE Sweeping(s)'
    <3>1. Sweeping(s) /\ sweep[s] \in Sweep /\ sweep'[s] = sweep[s]
      BY <1>0, <1>1 DEF SweepInv
    <3>2. /\ sweep[s].candidates \subseteq Runs /\ sweep[s].names \subseteq Runs
          /\ sweep[s].cleaned \subseteq Runs
      BY <3>1 DEF Sweep
    <3>3. \A q \in Runs \ {r} : Known(q)' = Known(q)
      BY <1>1, <2>1 DEF Known
    <3>4. r \notin sweep[s].cleaned /\ (dir[r] = Nothing => ~Known(r))
      BY <1>1, <3>1 DEF Sweeping, Known
    <3>5. d # Nothing
      BY DEF Health!HealthConstants
    <3>6. Known(r)'
      BY <2>1, <3>5 DEF Known
    <3>7. \A q \in sweep'[s].names \cup sweep'[s].candidates : Known(q)'
      BY <3>1, <3>2, <3>3, <3>6 DEF Sweeping
    <3>8. \A q \in sweep'[s].candidates :
             dir'[q] # Nothing => Health!Eligible(q, dir'[q].modified, sweep'[s].read)
      <4>1. r \in sweep[s].candidates => dir[r] # Nothing /\ d.modified = dir[r].modified
        BY <1>1, <3>1, <3>4 DEF Sweeping
      <4> QED
        BY <2>1, <3>1, <3>2, <4>1 DEF Sweeping
    <3>9. \A q \in sweep'[s].cleaned : dir'[q] = Nothing /\ removedAt'[q] # Nothing
      BY <1>1, <2>1, <3>1, <3>2, <3>4 DEF Sweeping
    <3> QED
      BY <1>1, <3>1, <3>7, <3>8, <3>9 DEF Sweeping, Health!Eligible
  <2> QED
    BY <2>2, <2>3 DEF SweepInv
<1>2. ASSUME NEW r \in Runs, Health!SetUp(r) PROVE SweepInv'
  <2> PICK d : d = [modified |-> now, busy |-> TRUE]
    OBVIOUS
  <2>1. d \in [modified : Nat, busy : BOOLEAN] /\ d.modified = now
    BY <1>0
  <2>2. /\ dir[r] = Nothing /\ removedAt[r] = Nothing /\ dir' = [dir EXCEPT ![r] = d]
        /\ UNCHANGED <<now, sweep, removedAt>>
    BY <1>2 DEF Health!SetUp
  <2>3. d.modified <= now
    BY <1>0, <2>1
  <2> QED
    BY <1>1, <2>1, <2>2, <2>3, Zenon
<1>3. ASSUME NEW r \in Runs, Health!EndRun(r) PROVE SweepInv'
  <2> PICK d : d = [dir[r] EXCEPT !.busy = FALSE]
    OBVIOUS
  <2>1. /\ dir[r] # Nothing /\ UNCHANGED <<now, sweep, removedAt>>
        /\ dir' = [dir EXCEPT ![r] = d]
    BY <1>3 DEF Health!EndRun
  <2>2. dir[r] \in [modified : Nat, busy : BOOLEAN]
    BY <1>0, <2>1
  <2>3. d \in [modified : Nat, busy : BOOLEAN] /\ d.modified = dir[r].modified
    BY <2>2
  <2>4. removedAt[r] = Nothing /\ d.modified <= now
    BY <2>1, <2>3 DEF SweepInv, Health!HealthTypeOK
  <2> QED
    BY <1>1, <2>1, <2>3, <2>4
<1>4. ASSUME NEW s \in Sweepers,
             \/ Health!BeginSweep(s) \/ Health!List(s) \/ Health!Look(s)
             \/ Health!GitRemove(s) \/ Health!GitFails(s) \/ Health!EndSweep(s)
      PROVE  SweepInv'
  BY <1>4, SweepsKeep
<1>5. ASSUME NEW s \in Sweepers, Health!RemoveAll(s) PROVE SweepInv'
  BY <1>5, RemoveKeeps
<1>6. CASE Health!Tick \/ UNCHANGED Health!healthVars
  <2>1. UNCHANGED <<dir, sweep, removedAt>> /\ now' \in Nat /\ now <= now'
    BY <1>0, <1>6 DEF Health!Tick, Health!healthVars
  <2>2. SweepTypes' /\ Health!RemovedWasOld'
    BY <1>0, <2>1 DEF SweepTypes, SweepInv, Health!RemovedWasOld
  <2>3. Health!HealthTypeOK'
    <3>1. \A s \in Sweepers : sweep[s].read \in Nat
      BY <1>0 DEF Sweep
    <3>2. \A r \in Runs : dir[r] # Nothing => dir[r].modified \in Nat
      BY <1>0
    <3> QED
      BY <1>0, <2>1, <3>1, <3>2 DEF SweepInv, Health!HealthTypeOK
  <2>4. \A s \in Sweepers : Sweeping(s)'
    BY <2>1 DEF SweepInv, Sweeping, Known, Health!Eligible
  <2> QED
    BY <2>2, <2>3, <2>4 DEF SweepInv
<1> QED
  BY <1>2, <1>3, <1>4, <1>5, <1>6 DEF Health!Next

\* However sweeps, runs and failing commands interleave, a run is removed only when the
\* retention of its kind has passed, and one that is reported as cleaned leaves nothing
\* (worktreecleanup).
THEOREM SweepsAreSafe ==
    ASSUME Health!HealthConstants PROVE Health!Spec => [](Health!RemovedWasOld /\ Health!CleanedIsGone)
<1>1. SweepInv => Health!RemovedWasOld /\ Health!CleanedIsGone
  BY DEF SweepInv, Sweeping, Health!CleanedIsGone
<1> QED
  BY <1>1, SweepInit, HealthStep, PTL DEF Health!Spec

-----------------------------------------------------------------------------
(* HardeningFlip.  What a completed plan says is of the moment it was made, *)
(* and only another plan changes it, the snapshot or the tending jobs.      *)

CONSTANTS Beads, Grace, Window, MaxAsks
VARIABLES status, choice, gate, jobs, snapshot, plan, begun, asks
Flip == INSTANCE HardeningFlip

FlipInv ==
    /\ status \in [Beads -> {"in_progress"} \cup Flip!Ended]
    /\ choice \in [Beads -> {"none", "carry", "defer"}]
    /\ now \in Nat
    /\ plan.state = "completed" => plan.until \in Nat
    /\ Flip!NoBeadLost /\ Flip!SwitchSettles

\* Switching the tending jobs once more changes nothing.
LEMMA SwitchedTwice ==
    ASSUME NEW current PROVE Flip!Switched(Flip!Switched(current)) = Flip!Switched(current)
<1> DEFINE once == Flip!Switched(current)
           Settled(id) == [paused |-> (id \in Flip!Pause \/ once[id].paused) /\ id \notin DOMAIN Flip!Activate,
                           cadence |-> IF id \in DOMAIN Flip!Retune THEN Flip!Retune[id]
                                       ELSE IF id \in DOMAIN Flip!Activate THEN Flip!Activate[id]
                                       ELSE once[id].cadence,
                           mode |-> IF id \in DOMAIN Flip!Activate THEN "hardening" ELSE once[id].mode]
<1>1. DOMAIN once = DOMAIN current \cup DOMAIN Flip!Activate
  BY DEF Flip!Switched
<1>2. \A id \in DOMAIN once : once[id] = Settled(id)
  <2> SUFFICES ASSUME NEW id \in DOMAIN once PROVE once[id] = Settled(id)
    OBVIOUS
  <2>1. CASE id \notin DOMAIN current
    <3>1. id \in DOMAIN Flip!Activate /\ id \notin DOMAIN Flip!Retune
      BY <1>1, <2>1 DEF Flip!Activate, Flip!Retune
    <3>2. once[id] = [paused |-> FALSE, cadence |-> Flip!Activate[id], mode |-> "hardening"]
      BY <1>1, <2>1 DEF Flip!Switched
    <3> QED
      BY <3>1, <3>2
  <2>2. CASE id \in DOMAIN current
    <3>1. once[id] = [paused |-> (id \in Flip!Pause \/ current[id].paused) /\ id \notin DOMAIN Flip!Activate,
                      cadence |-> IF id \in DOMAIN Flip!Retune THEN Flip!Retune[id]
                                  ELSE IF id \in DOMAIN Flip!Activate THEN Flip!Activate[id]
                                  ELSE current[id].cadence,
                      mode |-> IF id \in DOMAIN Flip!Activate THEN "hardening" ELSE current[id].mode]
      BY <1>1, <2>2 DEF Flip!Switched
    <3> PICK p : p = (id \in Flip!Pause)
      OBVIOUS
    <3> PICK a : a = (id \notin DOMAIN Flip!Activate)
      OBVIOUS
    <3>2. once[id].paused = ((p \/ current[id].paused) /\ a)
      <4>1. PICK v : v = ((p \/ current[id].paused) /\ a)
        OBVIOUS
      <4>2. PICK c, m : once[id] = [paused |-> v, cadence |-> c, mode |-> m]
        BY <3>1, <4>1, Zenon
      <4>3. once[id].paused = v
        BY <4>2
      <4> QED
        BY <4>1, <4>3, Zenon
    <3>3. ((p \/ once[id].paused) /\ a) = ((p \/ current[id].paused) /\ a)
      BY <3>2, Zenon
    <3>4. Settled(id).paused = once[id].paused
      BY <3>2, <3>3
    <3>5. Settled(id).cadence = once[id].cadence /\ Settled(id).mode = once[id].mode
      BY <3>1
    <3>6. once[id] = [paused |-> once[id].paused, cadence |-> once[id].cadence, mode |-> once[id].mode]
      BY <3>1
    <3> QED
      BY <3>4, <3>5, <3>6
  <2> QED
    BY <2>1, <2>2
<1>3. Flip!Switched(once) = [id \in DOMAIN once |-> Settled(id)]
  <2>1. DOMAIN once \cup DOMAIN Flip!Activate = DOMAIN once
    BY <1>1
  <2> HIDE DEF once
  <2> QED
    BY <2>1 DEF Flip!Switched
<1>4. once = [id \in DOMAIN once |-> once[id]]
  BY DEF Flip!Switched
<1> HIDE DEF once, Settled
<1> QED
  BY <1>2, <1>3, <1>4 DEF once

\* The hardening jobs run at their cadence once switched to.
LEMMA SwitchedRuns ==
    ASSUME NEW current, NEW id \in DOMAIN Flip!Activate
    PROVE  /\ id \in DOMAIN Flip!Switched(current)
           /\ ~Flip!Switched(current)[id].paused
           /\ Flip!Switched(current)[id].cadence = Flip!Activate[id]
<1>1. id \in DOMAIN current \cup DOMAIN Flip!Activate /\ id \notin DOMAIN Flip!Retune
  BY DEF Flip!Activate, Flip!Retune
<1>2. id \in DOMAIN Flip!Switched(current)
  BY <1>1 DEF Flip!Switched
<1>3. Flip!Switched(current)[id] =
        IF id \notin DOMAIN current THEN [paused |-> FALSE, cadence |-> Flip!Activate[id], mode |-> "hardening"]
        ELSE [paused |-> (id \in Flip!Pause \/ current[id].paused) /\ id \notin DOMAIN Flip!Activate,
              cadence |-> IF id \in DOMAIN Flip!Retune THEN Flip!Retune[id]
                          ELSE IF id \in DOMAIN Flip!Activate THEN Flip!Activate[id] ELSE current[id].cadence,
              mode |-> IF id \in DOMAIN Flip!Activate THEN "hardening" ELSE current[id].mode]
  BY <1>1 DEF Flip!Switched
<1>4. CASE id \in DOMAIN current
  <2>1. PICK v : v = ((id \in Flip!Pause \/ current[id].paused) /\ id \notin DOMAIN Flip!Activate)
    OBVIOUS
  <2>2. PICK c : c = IF id \in DOMAIN Flip!Retune THEN Flip!Retune[id]
                    ELSE IF id \in DOMAIN Flip!Activate THEN Flip!Activate[id] ELSE current[id].cadence
    OBVIOUS
  <2>3. PICK m : Flip!Switched(current)[id] = [paused |-> v, cadence |-> c, mode |-> m]
    BY <1>3, <1>4, <2>1, <2>2, Zenon
  <2>4. ~v
    BY <2>1, Zenon
  <2>5. c = Flip!Activate[id]
    BY <1>1, <2>2
  <2>6. Flip!Switched(current)[id].paused = v /\ Flip!Switched(current)[id].cadence = c
    BY <2>3
  <2> QED
    BY <1>2, <2>4, <2>5, <2>6, Zenon
<1>5. CASE id \notin DOMAIN current
  BY <1>1, <1>2, <1>3, <1>5
<1> QED
  BY <1>4, <1>5

LEMMA FlipStep == ASSUME Flip!FlipConstants PROVE FlipInv /\ [Flip!Next]_(Flip!vars) => FlipInv'
<1> SUFFICES ASSUME Flip!FlipConstants, FlipInv, [Flip!Next]_(Flip!vars) PROVE FlipInv'
  OBVIOUS
<1>1. CASE Flip!BuildPlan
  <2>0. UNCHANGED <<status, choice, gate, begun, now>>
    BY <1>1 DEF Flip!BuildPlan
  <2>1. CASE UNCHANGED <<jobs, snapshot, plan>>
    BY <2>0, <2>1 DEF FlipInv, Flip!NoBeadLost, Flip!SwitchSettles
  <2>2. CASE plan'.state # "completed"
    BY <2>0, <2>2 DEF FlipInv, Flip!NoBeadLost, Flip!SwitchSettles
  <2>3. CASE /\ Flip!Drain = "complete" /\ snapshot' = [status |-> status, at |-> now]
             /\ jobs' = Flip!Switched(jobs)
             /\ plan' = [Flip!Report("completed") EXCEPT !.until = now + Window]
    <3>1. /\ plan'.until = now + Window /\ plan'.left = Flip!Unresolved /\ plan'.ended = Beads \ Flip!Active
          /\ plan'.carry = Flip!Chosen("carry") /\ plan'.defer = Flip!Chosen("defer")
      BY <2>3 DEF Flip!Report
    <3>2. Flip!Unresolved = {}
      BY <2>3 DEF Flip!Drain
    <3>3. snapshot'.status = status /\ snapshot' # Nothing
      BY <2>3 DEF FlipInv, Flip!FlipConstants
    <3>4. Flip!NoBeadLost'
      <4>1. plan'.left = {} /\ plan'.ended \cup plan'.carry \cup plan'.defer = Beads
        BY <3>1, <3>2 DEF FlipInv, Flip!Unresolved, Flip!Chosen, Flip!Active
      <4>2. plan'.ended \cap (plan'.carry \cup plan'.defer) = {} /\ plan'.carry \cap plan'.defer = {}
        BY <3>1 DEF Flip!Chosen, Flip!Active
      <4>3. \A b \in plan'.carry : snapshot'.status[b] = "in_progress"
        BY <3>1, <3>3 DEF Flip!Chosen, Flip!Active
      <4> QED
        BY <3>3, <4>1, <4>2, <4>3 DEF Flip!NoBeadLost
    <3>5. Flip!SwitchSettles'
      <4>1. Flip!Switched(jobs') = jobs'
        BY <2>3, SwitchedTwice
      <4>2. \A id \in DOMAIN Flip!Activate :
               id \in DOMAIN jobs' /\ ~jobs'[id].paused /\ jobs'[id].cadence = Flip!Activate[id]
        BY <2>3, SwitchedRuns
      <4> QED
        BY <4>1, <4>2 DEF Flip!SwitchSettles, Flip!Switched, Flip!Activate, Flip!Retune, Flip!Pause
    <3> QED
      BY <2>0, <3>1, <3>4, <3>5 DEF FlipInv, Flip!FlipConstants
  <2>4. ASSUME plan' = [Flip!Report("refused") EXCEPT !.carry = {}, !.defer = {}, !.ended = {}, !.left = {}]
        PROVE  plan'.state # "completed"
    BY <2>4 DEF Flip!Report
  <2>5. ASSUME plan' = Flip!Report(IF Flip!Drain = "in_progress" THEN "draining" ELSE "awaiting_drain_resolution")
        PROVE  plan'.state # "completed"
    BY <2>5 DEF Flip!Report
  <2> QED
    BY <1>1, <2>1, <2>2, <2>3, <2>4, <2>5, Zenon DEF Flip!BuildPlan
<1>2. CASE Flip!Finish
  <2>1. status' \in [Beads -> {"in_progress"} \cup Flip!Ended]
    BY <1>2 DEF Flip!Finish, Flip!Active, FlipInv
  <2> QED
    BY <1>2, <2>1 DEF Flip!Finish, FlipInv, Flip!NoBeadLost, Flip!SwitchSettles
<1>3. CASE Flip!Resolve
  <2>1. choice' \in [Beads -> {"none", "carry", "defer"}]
    BY <1>3 DEF Flip!Resolve, FlipInv
  <2> QED
    BY <1>3, <2>1 DEF Flip!Resolve, FlipInv, Flip!NoBeadLost, Flip!SwitchSettles
<1>4. CASE Flip!Offer \/ Flip!Tick \/ UNCHANGED Flip!vars
  <2>1. UNCHANGED <<status, choice, jobs, snapshot, plan>> /\ now' \in Nat
    BY <1>4 DEF Flip!Offer, Flip!Tick, Flip!vars, FlipInv
  <2> QED
    BY <2>1 DEF FlipInv, Flip!NoBeadLost, Flip!SwitchSettles
<1> QED
  BY <1>1, <1>2, <1>3, <1>4 DEF Flip!Next

LEMMA FlipInit == Flip!Init => FlipInv
<1> SUFFICES ASSUME Flip!Init PROVE FlipInv
  OBVIOUS
<1>1. /\ status = [b \in Beads |-> "in_progress"] /\ choice = [b \in Beads |-> "none"] /\ now = 0
  BY DEF Flip!Init
<1>2. plan.state = "none"
  BY DEF Flip!Init
<1> QED
  BY <1>1, <1>2 DEF FlipInv, Flip!NoBeadLost, Flip!SwitchSettles

\* A completed flip lost no bead, and its tending jobs run and stay as they are however often
\* it is asked for again (swarm/flip, EvaluateDrain and SwitchTendingJobs).
THEOREM FlipsLoseNothing ==
    ASSUME Flip!FlipConstants PROVE Flip!Spec => [](Flip!NoBeadLost /\ Flip!SwitchSettles)
<1>1. FlipInv => Flip!NoBeadLost /\ Flip!SwitchSettles
  BY DEF FlipInv
<1> QED
  BY <1>1, FlipInit, FlipStep, PTL DEF Flip!Spec

\* The free way back from a flip closes once (swarm/flip, EvaluateReturn).
THEOREM TheWayBackCloses ==
    ASSUME Flip!FlipConstants PROVE Flip!Spec => [][Flip!ReturnCloses]_(Flip!vars)
<1>1. FlipInv /\ [Flip!Next]_(Flip!vars) => [Flip!ReturnCloses]_(Flip!vars)
  <2> SUFFICES ASSUME FlipInv, Flip!Next, plan.state = "completed", ~Flip!Returns, plan' = plan PROVE ~Flip!Returns'
    BY DEF Flip!ReturnCloses
  <2>1. now \in Nat /\ plan.until \in Nat
    BY DEF FlipInv
  <2>2. now' \in Nat /\ now' >= now
    BY <2>1 DEF Flip!Next, Flip!BuildPlan, Flip!Finish, Flip!Resolve, Flip!Offer, Flip!Tick
  <2> QED
    BY <2>1, <2>2 DEF Flip!Returns
<1> QED
  BY <1>1, FlipInit, FlipStep, PTL DEF Flip!Spec

-----------------------------------------------------------------------------
(* ProjectImport.  What an import has prepared stays until it has recorded  *)
(* the project, and every answer to a key is what is recorded of it.        *)

CONSTANTS Roots, MaxIds, MaxCalls, MaxEdits
VARIABLES tree, rows, records, ids, calls, edits
Import == INSTANCE ProjectImport

Tree == [head : Import!Heads, dir : BOOLEAN, json : Import!Meta \cup {Nothing}, lock : BOOLEAN,
         beads : BOOLEAN, agents : {"none", "user", "draft"}]
Hash == [root : Roots, slug : Import!Slugs]
ImportTypes ==
    /\ tree \in [Roots -> Tree]
    /\ rows \subseteq [id : Nat, slug : Import!Slugs, root : Roots, agents : BOOLEAN]
    /\ \A k \in DOMAIN records : records[k] \in [hash : Hash, id : Nat]
    /\ DOMAIN records \subseteq Keys
    /\ call \in Import!Requests \cup {Nothing}
    /\ told \subseteq Keys \X Hash \X Nat
    /\ ids \in Nat

\* How far an import has come, in the directory.
Fits(c, t) ==
    /\ c.pc # "dir" => t.dir
    /\ c.pc \in {"lock", "beads", "create"} => t.json # Nothing /\ t.json = c.meta
    /\ c.pc \in {"beads", "create"} => t.lock
    /\ c.pc = "create" => t.beads
Prepared == call # Nothing /\ call.op = "import" => Fits(call, tree[call.req.root])
\* What was there still is.
Kept(t, u) == /\ (t.dir => u.dir) /\ (t.lock => u.lock) /\ (t.beads => u.beads)
              /\ (t.json # Nothing => u.json = t.json)
\* Every answer is on record.
Recorded == \A a \in told : a[1] \in DOMAIN records /\ records[a[1]] = [hash |-> a[2], id |-> a[3]]
ImportInv == ImportTypes /\ Prepared /\ Recorded /\ Import!RowsAreWhole

LEMMA ImportInit == Import!Init => ImportInv
<1> SUFFICES ASSUME Import!Init PROVE ImportInv
  OBVIOUS
<1>1. /\ rows = {} /\ records = <<>> /\ call = Nothing /\ told = {} /\ ids = 0
  BY DEF Import!Init
<1>2. tree \in [Roots -> Tree]
  <2>1. \A h \in Import!Heads : [Import!Empty EXCEPT !.head = h] \in Tree
    BY DEF Import!Empty, Tree
  <2> QED
    BY <2>1 DEF Import!Init
<1> QED
  BY <1>1, <1>2 DEF ImportInv, ImportTypes, Prepared, Recorded, Import!RowsAreWhole

\* A step in the directory of the import: what is there stays, and the import goes on.
LEMMA PreparingKeeps ==
    ASSUME ImportInv, Import!ImportConstants, call # Nothing, call.op = "import",
           NEW root \in Roots, root = call.req.root, NEW t \in Tree, tree' = [tree EXCEPT ![root] = t],
           NEW c \in Import!Requests, call' = c, c.op = "import", c.req = call.req,
           Kept(tree[root], t), Fits(c, t),
           UNCHANGED <<rows, records, told>>, ids' \in Nat
    PROVE  ImportInv'
<1>1. tree'[root] = t /\ \A r \in Roots \ {root} : tree'[r] = tree[r]
  BY DEF ImportInv, ImportTypes
<1>2. ImportTypes'
  BY DEF ImportInv, ImportTypes
<1>3. Prepared'
  BY <1>1 DEF Prepared
<1>4. Recorded'
  <2>1. told' = told /\ records' = records
    OBVIOUS
  <2>2. Recorded
    BY DEF ImportInv
  <2> QED
    BY <2>1, <2>2, Zenon DEF Recorded
<1>5. Import!RowsAreWhole'
  BY <1>1 DEF ImportInv, ImportTypes, Import!RowsAreWhole, Kept
<1> QED
  BY <1>2, <1>3, <1>4, <1>5 DEF ImportInv

LEMMA PreparationKeeps ==
    ASSUME ImportInv, Import!ImportConstants,
           \/ Import!MakeDir \/ Import!WriteProjectJSON \/ Import!WriteDefaults \/ Import!InitBeads
    PROVE  ImportInv'
<1>0. call # Nothing /\ call.op = "import"
  BY DEF Import!MakeDir, Import!WriteProjectJSON, Import!WriteDefaults, Import!InitBeads, Import!Importing
<1>1. /\ call \in [op : {"import"}, pc : {"dir", "json", "lock", "beads", "create"},
                   req : [root : Roots, key : Keys \cup {Nothing}, slug : Import!Slugs],
                   meta : Import!Meta \cup {Nothing}]
      /\ ids \in Nat /\ tree \in [Roots -> Tree]
  BY <1>0 DEF ImportInv, ImportTypes, Import!Requests
<1> PICK root : root = call.req.root
  OBVIOUS
<1>2. root \in Roots /\ tree[root] \in Tree /\ call.req.slug \in Import!Slugs
  BY <1>1
<1>3. /\ call.pc # "dir" => tree[root].dir
      /\ call.pc \in {"lock", "beads", "create"} => tree[root].json # Nothing /\ tree[root].json = call.meta
      /\ call.pc \in {"beads", "create"} => tree[root].lock
  BY <1>0 DEF ImportInv, Prepared, Fits
<1>4. CASE Import!MakeDir
  <2> PICK t : t = [tree[root] EXCEPT !.dir = TRUE]
    OBVIOUS
  <2> PICK c : c = [call EXCEPT !.pc = "json"]
    OBVIOUS
  <2>1. /\ t \in Tree /\ t.dir /\ t.lock = tree[root].lock /\ t.beads = tree[root].beads
        /\ t.json = tree[root].json
    BY <1>2 DEF Tree
  <2>2. c \in Import!Requests /\ c.op = "import" /\ c.req = call.req /\ c.pc = "json"
    BY <1>1 DEF Import!Requests
  <2>3. tree' = [tree EXCEPT ![root] = t] /\ call' = c /\ UNCHANGED <<rows, records, told, ids>>
    BY <1>1, <1>4 DEF Import!MakeDir, Import!To
  <2>4. Kept(tree[root], t) /\ Fits(c, t)
    BY <2>1, <2>2 DEF Kept, Fits
  <2> QED
    BY <1>0, <1>1, <1>2, <2>1, <2>2, <2>3, <2>4, PreparingKeeps
<1>5. CASE Import!WriteProjectJSON
  <2> PICK m : m = IF tree[root].json # Nothing THEN tree[root].json ELSE [id |-> ids + 1, slug |-> call.req.slug]
    OBVIOUS
  <2> PICK t : t = [tree[root] EXCEPT !.json = m]
    OBVIOUS
  <2> PICK c : c = [call EXCEPT !.pc = "lock", !.meta = m]
    OBVIOUS
  <2>1. m \in Import!Meta /\ m # Nothing /\ (tree[root].json # Nothing => m = tree[root].json)
    <3>1. tree[root].json \in Import!Meta \cup {Nothing}
      BY <1>2 DEF Tree
    <3>2. [id |-> ids + 1, slug |-> call.req.slug] \in Import!Meta
      BY <1>1, <1>2 DEF Import!Meta
    <3> QED
      BY <3>1, <3>2 DEF Import!ImportConstants
  <2>2. /\ t \in Tree /\ t.dir = tree[root].dir /\ t.lock = tree[root].lock /\ t.beads = tree[root].beads
        /\ t.json = m
    BY <1>2, <2>1 DEF Tree
  <2>3. c \in Import!Requests /\ c.op = "import" /\ c.req = call.req /\ c.pc = "lock" /\ c.meta = m
    BY <1>1, <2>1 DEF Import!Requests
  <2>4. /\ tree' = [tree EXCEPT ![root].json = m] /\ call' = c /\ call.pc = "json"
        /\ UNCHANGED <<rows, records, told>>
    BY <1>5 DEF Import!WriteProjectJSON, Import!Importing
  <2>5. tree' = [tree EXCEPT ![root] = t]
    BY <2>4
  <2>6. ids' \in Nat
    BY <1>1, <1>5 DEF Import!WriteProjectJSON
  <2>7. Kept(tree[root], t) /\ Fits(c, t)
    BY <1>3, <2>1, <2>2, <2>3, <2>4 DEF Kept, Fits
  <2> QED
    BY <1>0, <1>1, <1>2, <2>2, <2>3, <2>4, <2>5, <2>6, <2>7, PreparingKeeps
<1>6. CASE Import!WriteDefaults
  <2> PICK t : t = [tree[root] EXCEPT !.lock = TRUE]
    OBVIOUS
  <2> PICK c : c = [call EXCEPT !.pc = "beads"]
    OBVIOUS
  <2>1. /\ t \in Tree /\ t.dir = tree[root].dir /\ t.lock /\ t.beads = tree[root].beads
        /\ t.json = tree[root].json
    BY <1>2 DEF Tree
  <2>2. c \in Import!Requests /\ c.op = "import" /\ c.req = call.req /\ c.pc = "beads" /\ c.meta = call.meta
    BY <1>1 DEF Import!Requests
  <2>3. /\ tree' = [tree EXCEPT ![root] = t] /\ call' = c /\ call.pc = "lock"
        /\ UNCHANGED <<rows, records, told, ids>>
    BY <1>1, <1>6 DEF Import!WriteDefaults, Import!To, Import!Importing
  <2>4. Kept(tree[root], t) /\ Fits(c, t)
    BY <1>3, <2>1, <2>2, <2>3 DEF Kept, Fits
  <2> QED
    BY <1>0, <1>1, <1>2, <2>1, <2>2, <2>3, <2>4, PreparingKeeps
<1>7. CASE Import!InitBeads
  <2> PICK t : t = [tree[root] EXCEPT !.beads = TRUE]
    OBVIOUS
  <2> PICK c : c = [call EXCEPT !.pc = "create"]
    OBVIOUS
  <2>1. /\ t \in Tree /\ t.dir = tree[root].dir /\ t.lock = tree[root].lock /\ t.beads
        /\ t.json = tree[root].json
    BY <1>2 DEF Tree
  <2>2. c \in Import!Requests /\ c.op = "import" /\ c.req = call.req /\ c.pc = "create" /\ c.meta = call.meta
    BY <1>1 DEF Import!Requests
  <2>3. /\ tree' = [tree EXCEPT ![root] = t] /\ call' = c /\ call.pc = "beads"
        /\ UNCHANGED <<rows, records, told, ids>>
    BY <1>1, <1>7 DEF Import!InitBeads, Import!To, Import!Importing
  <2>4. Kept(tree[root], t) /\ Fits(c, t)
    BY <1>3, <2>1, <2>2, <2>3 DEF Kept, Fits
  <2> QED
    BY <1>0, <1>1, <1>2, <2>1, <2>2, <2>3, <2>4, PreparingKeeps
<1> QED
  BY <1>4, <1>5, <1>6, <1>7

Noted(recs, tells) ==
    /\ \A k \in DOMAIN recs : recs[k] \in [hash : Hash, id : Nat]
    /\ DOMAIN recs \subseteq Keys /\ tells \subseteq Keys \X Hash \X Nat

\* A first answer is recorded with what was asked, a later one is what is on record.
LEMMA FirstAnswer ==
    ASSUME Noted(records, told), Recorded, NEW key \in Keys \cup {Nothing}, NEW h \in Hash, NEW id \in Nat,
           call.req.key = key, Import!RequestHash(call.req) = h,
           Import!Record(id), Import!Answer(id), key = Nothing \/ key \notin DOMAIN records
    PROVE  Noted(records', told') /\ Recorded'
<1>1. CASE key = Nothing
  <2>1. records' = records /\ told' = told
    BY <1>1 DEF Import!Record, Import!Answer
  <2> QED
    BY <2>1, Zenon DEF Recorded
<1>2. CASE key # Nothing
  <2> PICK e : e = [hash |-> h, id |-> id]
    OBVIOUS
  <2>1. /\ records' = [k \in DOMAIN records \cup {key} |-> IF k = key THEN e ELSE records[k]]
        /\ told' = told \cup {<<key, h, id>>}
    BY <1>2 DEF Import!Record, Import!Answer
  <2>2. /\ DOMAIN records' = DOMAIN records \cup {key} /\ records'[key] = e
        /\ \A k \in DOMAIN records : records'[k] = records[k]
    BY <1>2, <2>1
  <2>3. e \in [hash : Hash, id : Nat] /\ key \in Keys /\ <<key, h, id>> \in Keys \X Hash \X Nat
    BY <1>2
  <2>4. Noted(records', told')
    BY <2>1, <2>2, <2>3 DEF Noted
  <2>5. \A a \in told' : a[1] \in DOMAIN records' /\ records'[a[1]] = [hash |-> a[2], id |-> a[3]]
    <3>1. ASSUME NEW a \in told PROVE a[1] \in DOMAIN records' /\ records'[a[1]] = [hash |-> a[2], id |-> a[3]]
      BY <2>2 DEF Recorded
    <3>2. PICK u : u = <<key, h, id>>
      OBVIOUS
    <3>3. u[1] = key /\ u[2] = h /\ u[3] = id
      BY <3>2
    <3>4. u[1] \in DOMAIN records' /\ records'[u[1]] = [hash |-> u[2], id |-> u[3]]
      BY <2>2, <3>3
    <3>5. told' = told \cup {u}
      BY <2>1, <3>2
    <3> QED
      BY <3>1, <3>4, <3>5, Zenon
  <2> QED
    BY <2>4, <2>5, Zenon DEF Recorded
<1> QED
  BY <1>1, <1>2

LEMMA LaterAnswer ==
    ASSUME Noted(records, told), Recorded, NEW key \in DOMAIN records, key # Nothing,
           call.req.key = key, records[key].hash = Import!RequestHash(call.req),
           Import!Answer(records[key].id), records' = records
    PROVE  Noted(records', told') /\ Recorded'
<1> PICK h : h = records[key].hash
  OBVIOUS
<1> PICK id : id = records[key].id
  OBVIOUS
<1>1. /\ key \in Keys /\ records[key] = [hash |-> h, id |-> id] /\ h \in Hash /\ id \in Nat
      /\ told' = told \cup {<<key, h, id>>}
  BY DEF Noted, Import!Answer
<1>2. Noted(records', told')
  BY <1>1 DEF Noted
<1>3. \A a \in told' : a[1] \in DOMAIN records /\ records[a[1]] = [hash |-> a[2], id |-> a[3]]
  <2>1. PICK u : u = <<key, h, id>>
    OBVIOUS
  <2>2. u[1] = key /\ u[2] = h /\ u[3] = id
    BY <2>1
  <2>3. u[1] \in DOMAIN records /\ records[u[1]] = [hash |-> u[2], id |-> u[3]]
    BY <1>1, <2>2
  <2>4. told' = told \cup {u}
    BY <1>1, <2>1
  <2> QED
    BY <2>3, <2>4, Zenon DEF Recorded
<1> QED
  BY <1>2, <1>3, Zenon DEF Recorded

\* The transaction that records the project (store.go, Create).
LEMMA CreateKeeps ==
    ASSUME ImportInv, Import!ImportConstants, Import!Create PROVE ImportInv'
<1>0. call # Nothing /\ call.op = "import" /\ call.pc = "create" /\ call' = Nothing /\ UNCHANGED <<tree, ids>>
  BY DEF Import!Create, Import!Importing, Import!Return
<1>1. /\ call \in [op : {"import"}, pc : {"dir", "json", "lock", "beads", "create"},
                   req : [root : Roots, key : Keys \cup {Nothing}, slug : Import!Slugs],
                   meta : Import!Meta \cup {Nothing}]
      /\ tree \in [Roots -> Tree] /\ ids \in Nat
      /\ rows \subseteq [id : Nat, slug : Import!Slugs, root : Roots, agents : BOOLEAN]
      /\ Noted(records, told) /\ Recorded
  BY <1>0 DEF ImportInv, ImportTypes, Import!Requests, Noted
<1> PICK root : root = call.req.root
  OBVIOUS
<1> PICK key : key = call.req.key
  OBVIOUS
<1> PICK h : h = Import!RequestHash(call.req)
  OBVIOUS
<1>2. root \in Roots /\ tree[root] \in Tree /\ key \in Keys \cup {Nothing} /\ h \in Hash
  BY <1>1 DEF Import!RequestHash, Hash
<1>3. Fits(call, tree[root])
  BY <1>0 DEF ImportInv, Prepared
<1>4. /\ tree[root].dir /\ tree[root].lock /\ tree[root].beads
      /\ tree[root].json # Nothing /\ tree[root].json = call.meta /\ call.meta \in Import!Meta
  BY <1>0, <1>1, <1>3 DEF Fits
<1>5. ASSUME Noted(records', told'), Recorded', rows' = rows PROVE ImportInv'
  <2>1. ImportTypes'
    BY <1>0, <1>1, <1>5 DEF ImportTypes, Noted
  <2>2. Import!RowsAreWhole'
    BY <1>0, <1>5 DEF ImportInv, Import!RowsAreWhole
  <2> QED
    BY <1>0, <1>5, <2>1, <2>2 DEF ImportInv, Prepared
<1>6. CASE UNCHANGED <<rows, records, told>>
  <2>1. Recorded'
    BY <1>1, <1>6, Zenon DEF Recorded
  <2> QED
    BY <1>1, <1>5, <1>6, <2>1
<1>7. CASE /\ key # Nothing /\ key \in DOMAIN records /\ records[key].hash = Import!RequestHash(call.req)
           /\ Import!Answer(records[key].id) /\ UNCHANGED <<rows, records>>
  BY <1>1, <1>5, <1>7, LaterAnswer
<1>8. ASSUME ~(key # Nothing /\ key \in DOMAIN records),
             NEW id \in Nat, Import!Record(id), Import!Answer(id)
      PROVE  Noted(records', told') /\ Recorded'
  BY <1>1, <1>2, <1>8, FirstAnswer
<1>9. CASE /\ ~(key # Nothing /\ key \in DOMAIN records) /\ Import!AtRoot(root) # {}
           /\ LET id == (CHOOSE r \in Import!AtRoot(root) : TRUE).id
              IN  Import!Record(id) /\ Import!Answer(id)
           /\ UNCHANGED rows
  <2>1. PICK r : r = CHOOSE row \in Import!AtRoot(root) : TRUE
    OBVIOUS
  <2>2. r \in rows
    <3>1. r \in Import!AtRoot(root)
      BY <1>9, <2>1, Zenon
    <3> QED
      BY <3>1 DEF Import!AtRoot
  <2>3. r.id \in Nat
    BY <1>1, <2>2
  <2>4. Import!Record(r.id) /\ Import!Answer(r.id)
    BY <1>9, <2>1, Zenon
  <2>5. Noted(records', told') /\ Recorded'
    BY <1>8, <1>9, <2>3, <2>4
  <2> QED
    BY <1>5, <1>9, <2>5
<1>10. CASE /\ ~(key # Nothing /\ key \in DOMAIN records)
            /\ rows' = rows \cup {Import!NewRow} /\ Import!Record(Import!NewRow.id) /\ Import!Answer(Import!NewRow.id)
  <2> PICK b : b = (tree[root].agents # "none")
    OBVIOUS
  <2>1. b \in BOOLEAN
    BY Zenon
  <2> PICK n : n = Import!NewRow
    OBVIOUS
  <2>2. n = [id |-> call.meta.id, slug |-> call.meta.slug, root |-> root, agents |-> b]
    BY Zenon DEF Import!NewRow
  <2>3. /\ n \in [id : Nat, slug : Import!Slugs, root : Roots, agents : BOOLEAN]
        /\ n.id = tree[root].json.id /\ n.root = root
    BY <1>2, <1>4, <2>1, <2>2 DEF Import!Meta
  <2>4. Noted(records', told') /\ Recorded'
    <3>1. n.id \in Nat /\ Import!Record(n.id) /\ Import!Answer(n.id)
      BY <1>10, <2>3
    <3> QED
      BY <1>8, <1>10, <3>1
  <2>5. rows' = rows \cup {n}
    BY <1>10
  <2>6. ImportTypes'
    BY <1>0, <1>1, <2>3, <2>4, <2>5 DEF ImportTypes, Noted
  <2>7. Import!RowsAreWhole'
    BY <1>0, <1>4, <2>3, <2>5 DEF ImportInv, Import!RowsAreWhole
  <2> QED
    BY <1>0, <2>4, <2>6, <2>7 DEF ImportInv, Prepared
<1> QED
  BY <1>6, <1>7, <1>9, <1>10, Zenon DEF Import!Create

LEMMA ImportStep == ASSUME Import!ImportConstants PROVE ImportInv /\ [Import!Next]_(Import!vars) => ImportInv'
<1> SUFFICES ASSUME Import!ImportConstants, ImportInv, [Import!Next]_(Import!vars) PROVE ImportInv'
  OBVIOUS
<1>0. /\ tree \in [Roots -> Tree] /\ call \in Import!Requests \cup {Nothing}
      /\ rows \subseteq [id : Nat, slug : Import!Slugs, root : Roots, agents : BOOLEAN]
  BY DEF ImportInv, ImportTypes
\* What only concerns the request, or what lies in a directory besides.
<1>1. ASSUME call' \in Import!Requests \cup {Nothing}, call' # Nothing => call'.op # "import" \/ call'.pc = "dir",
             UNCHANGED <<tree, rows, records, told, ids>>
      PROVE  ImportInv'
  <2>1. ImportTypes' /\ Import!RowsAreWhole'
    BY <1>1 DEF ImportInv, ImportTypes, Import!RowsAreWhole
  <2>2. Recorded'
    <3>1. Recorded /\ told' = told /\ records' = records
      BY <1>1 DEF ImportInv
    <3> QED
      BY <3>1, Zenon DEF Recorded
  <2>3. Prepared'
    BY <1>1 DEF Prepared, Fits
  <2> QED
    BY <2>1, <2>2, <2>3 DEF ImportInv
<1>2. CASE Import!Import
  <2>1. PICK root \in Roots, key \in Keys \cup {Nothing}, slug \in Import!Slugs :
          call' = IF (Import!AtRoot(root) # {} /\ key = Nothing) \/ tree[root].head # "branch" THEN Nothing
                  ELSE [op |-> "import", pc |-> "dir", req |-> [root |-> root, key |-> key, slug |-> slug],
                        meta |-> Nothing]
    BY <1>2 DEF Import!Import
  <2>2. PICK c : c = [op |-> "import", pc |-> "dir", req |-> [root |-> root, key |-> key, slug |-> slug],
                      meta |-> Nothing]
    OBVIOUS
  <2>3. c \in Import!Requests /\ c.pc = "dir"
    BY <2>2 DEF Import!Requests
  <2>4. call' = Nothing \/ call' = c
    BY <2>1, <2>2
  <2>5. UNCHANGED <<tree, rows, records, told, ids>>
    BY <1>2 DEF Import!Import
  <2> QED
    BY <1>1, <2>3, <2>4, <2>5
<1>3. CASE Import!MakeDir \/ Import!WriteProjectJSON \/ Import!WriteDefaults \/ Import!InitBeads
  BY <1>3, PreparationKeeps
<1>4. CASE Import!Create
  BY <1>4, CreateKeeps
<1>5. CASE Import!Draft
  <2>1. PICK r \in rows :
          call' = IF tree[r.root].agents # "none" THEN Nothing
                  ELSE [op |-> "draft", pc |-> "write", req |-> [root |-> r.root, id |-> r.id], meta |-> Nothing]
    BY <1>5 DEF Import!Draft
  <2>2. PICK c : c = [op |-> "draft", pc |-> "write", req |-> [root |-> r.root, id |-> r.id], meta |-> Nothing]
    OBVIOUS
  <2>3. c \in Import!Requests /\ c.op = "draft"
    BY <1>0, <2>2 DEF Import!Requests
  <2>4. call' = Nothing \/ call' = c
    BY <2>1, <2>2
  <2>5. UNCHANGED <<tree, rows, records, told, ids>>
    BY <1>5 DEF Import!Draft
  <2> QED
    BY <1>1, <2>3, <2>4, <2>5
<1>6. CASE Import!Abandon
  BY <1>1, <1>6 DEF Import!Abandon, Import!Return
<1>7. CASE Import!WriteDraft
  <2>1. /\ call # Nothing /\ call.op = "draft" /\ UNCHANGED <<rows, records, told, ids>>
    BY <1>7 DEF Import!WriteDraft, Import!Drafting
  <2>2. call \in [op : {"draft"}, pc : {"write", "update"}, req : [root : Roots, id : Nat], meta : {Nothing}]
    BY <1>0, <2>1 DEF Import!Requests
  <2>3. CASE tree' = tree /\ call' = Nothing
    BY <1>1, <2>1, <2>3
  <2>4. CASE tree' = [tree EXCEPT ![call.req.root].agents = "draft"] /\ Import!To("update")
    <3> PICK root : root = call.req.root
      OBVIOUS
    <3> PICK t : t = [tree[root] EXCEPT !.agents = "draft"]
      OBVIOUS
    <3> PICK c : c = [call EXCEPT !.pc = "update"]
      OBVIOUS
    <3>1. root \in Roots /\ tree[root] \in Tree
      BY <1>0, <2>2
    <3>2. /\ t \in Tree /\ t.dir = tree[root].dir /\ t.lock = tree[root].lock /\ t.beads = tree[root].beads
          /\ t.json = tree[root].json
      BY <3>1 DEF Tree
    <3>3. c \in Import!Requests /\ c.op = "draft" /\ call' = c
      BY <2>2, <2>4 DEF Import!Requests, Import!To
    <3>4. tree' = [tree EXCEPT ![root] = t]
      BY <2>4
    <3>5. tree'[root] = t /\ \A r \in Roots \ {root} : tree'[r] = tree[r]
      BY <1>0, <3>1, <3>4
    <3>6. ImportTypes'
      BY <1>0, <2>1, <3>1, <3>2, <3>3, <3>4 DEF ImportInv, ImportTypes
    <3>7. Import!RowsAreWhole'
      <4>1. \A s \in Roots : /\ tree'[s].dir = tree[s].dir /\ tree'[s].lock = tree[s].lock
                             /\ tree'[s].beads = tree[s].beads /\ tree'[s].json = tree[s].json
        BY <3>2, <3>5
      <4>2. rows' = rows /\ \A r \in rows : r.root \in Roots
        BY <1>0, <2>1
      <4> QED
        BY <4>1, <4>2 DEF ImportInv, Import!RowsAreWhole
    <3>8. Recorded'
      <4>1. Recorded /\ told' = told /\ records' = records
        BY <2>1 DEF ImportInv
      <4> QED
        BY <4>1, Zenon DEF Recorded
    <3> QED
      BY <3>3, <3>6, <3>7, <3>8 DEF ImportInv, Prepared
  <2> QED
    BY <1>7, <2>3, <2>4 DEF Import!WriteDraft, Import!Return
<1>8. CASE Import!UpdateRow
  <2>1. /\ call # Nothing /\ call' = Nothing /\ UNCHANGED <<tree, records, told, ids>>
        /\ rows' = {IF r.id = call.req.id THEN [r EXCEPT !.agents = tree[r.root].agents # "none"] ELSE r : r \in rows}
    BY <1>8 DEF Import!UpdateRow, Import!Drafting, Import!Return
  <2>2. \A n \in rows' : \E r \in rows, b \in BOOLEAN : n = r \/ n = [r EXCEPT !.agents = b]
    <3> SUFFICES ASSUME NEW n \in rows' PROVE \E r \in rows, b \in BOOLEAN : n = r \/ n = [r EXCEPT !.agents = b]
      OBVIOUS
    <3>1. PICK r \in rows : n = IF r.id = call.req.id THEN [r EXCEPT !.agents = tree[r.root].agents # "none"] ELSE r
      BY <2>1, Zenon
    <3>2. PICK b : b = (tree[r.root].agents # "none")
      OBVIOUS
    <3>3. b \in BOOLEAN
      BY <3>2, Zenon
    <3>4. n = r \/ n = [r EXCEPT !.agents = b]
      BY <3>1, <3>2, Zenon
    <3> QED
      BY <3>3, <3>4
  <2>3. \A n \in rows' : /\ n \in [id : Nat, slug : Import!Slugs, root : Roots, agents : BOOLEAN]
                         /\ \E r \in rows : n.id = r.id /\ n.root = r.root
    <3> SUFFICES ASSUME NEW n \in rows'
                 PROVE  /\ n \in [id : Nat, slug : Import!Slugs, root : Roots, agents : BOOLEAN]
                        /\ \E r \in rows : n.id = r.id /\ n.root = r.root
      OBVIOUS
    <3>1. PICK r \in rows, b \in BOOLEAN : n = r \/ n = [r EXCEPT !.agents = b]
      BY <2>2
    <3>2. r \in [id : Nat, slug : Import!Slugs, root : Roots, agents : BOOLEAN]
      BY <1>0
    <3> QED
      BY <3>1, <3>2
  <2>4. ImportTypes'
    BY <1>0, <2>1, <2>3 DEF ImportInv, ImportTypes
  <2>5. Import!RowsAreWhole'
    BY <2>1, <2>3 DEF ImportInv, Import!RowsAreWhole
  <2>6. Recorded'
    <3>1. Recorded
      BY DEF ImportInv
    <3> QED
      BY <2>1, <3>1, Zenon DEF Recorded
  <2> QED
    BY <2>1, <2>4, <2>5, <2>6 DEF ImportInv, Prepared
<1>9. CASE Import!Edit
  <2>0. UNCHANGED <<rows, records, call, told, ids>>
    BY <1>9 DEF Import!Edit
  \* A directory that is there keeps what it has, but for its manifest.
  <2>1. /\ tree' \in [Roots -> Tree]
        /\ \A s \in Roots : tree[s].dir => /\ tree'[s].dir /\ tree'[s].lock = tree[s].lock
                                           /\ tree'[s].beads = tree[s].beads /\ tree'[s].json = tree[s].json
    <3>1. PICK r \in Roots :
            \/ tree' = [tree EXCEPT ![r].agents = "user"]
            \/ \E s \in Roots \ {r} : ~tree[s].dir /\ tree' = [tree EXCEPT ![s] = [tree[r] EXCEPT !.head = tree[s].head]]
      BY <1>9 DEF Import!Edit
    <3>2. CASE tree' = [tree EXCEPT ![r].agents = "user"]
      <4> PICK t : t = [tree[r] EXCEPT !.agents = "user"]
        OBVIOUS
      <4>1. /\ t \in Tree /\ t.dir = tree[r].dir /\ t.lock = tree[r].lock /\ t.beads = tree[r].beads
            /\ t.json = tree[r].json
        BY <1>0 DEF Tree
      <4>2. tree' = [tree EXCEPT ![r] = t]
        BY <3>2
      <4> QED
        BY <1>0, <4>1, <4>2
    <3>3. ASSUME NEW s \in Roots \ {r}, ~tree[s].dir,
                 tree' = [tree EXCEPT ![s] = [tree[r] EXCEPT !.head = tree[s].head]]
          PROVE  <2>1
      <4> PICK t : t = [tree[r] EXCEPT !.head = tree[s].head]
        OBVIOUS
      <4>1. t \in Tree
        BY <1>0 DEF Tree
      <4>2. tree' = [tree EXCEPT ![s] = t]
        BY <3>3
      <4> QED
        BY <1>0, <3>3, <4>1, <4>2
    <3> QED
      BY <3>1, <3>2, <3>3
  <2>2. ImportTypes'
    BY <2>0, <2>1 DEF ImportInv, ImportTypes
  <2>3. Import!RowsAreWhole'
    BY <1>0, <2>0, <2>1 DEF ImportInv, Import!RowsAreWhole
  <2>4. Recorded'
    <3>1. Recorded
      BY DEF ImportInv
    <3> QED
      BY <2>0, <3>1, Zenon DEF Recorded
  <2>5. Prepared'
    <3> SUFFICES ASSUME call # Nothing, call.op = "import" PROVE Fits(call, tree'[call.req.root])
      BY <2>0 DEF Prepared
    <3>1. call.req.root \in Roots
      BY <1>0 DEF Import!Requests
    <3>2. Fits(call, tree[call.req.root])
      BY DEF ImportInv, Prepared
    <3> QED
      BY <2>1, <3>1, <3>2 DEF Fits
  <2> QED
    BY <2>2, <2>3, <2>4, <2>5 DEF ImportInv
<1>10. CASE UNCHANGED Import!vars
  <2>1. UNCHANGED <<tree, rows, records, call, told, ids>>
    BY <1>10 DEF Import!vars
  <2>2. ImportTypes' /\ Import!RowsAreWhole' /\ Prepared'
    BY <2>1 DEF ImportInv, ImportTypes, Import!RowsAreWhole, Prepared
  <2>3. Recorded'
    <3>1. Recorded
      BY DEF ImportInv
    <3> QED
      BY <2>1, <3>1, Zenon DEF Recorded
  <2> QED
    BY <2>2, <2>3 DEF ImportInv
<1> QED
  BY <1>2, <1>3, <1>4, <1>5, <1>6, <1>7, <1>8, <1>9, <1>10 DEF Import!Next

\* However often an import is cut short, repeated or overtaken by the user, a recorded project
\* is whole on disk, and a key has one answer (projects, store.go).
THEOREM ProjectsAreWhole ==
    ASSUME Import!ImportConstants PROVE Import!Spec => [](Import!RowsAreWhole /\ Import!KeyAnswersOnce)
<1>1. ImportInv => Import!RowsAreWhole /\ Import!KeyAnswersOnce
  <2> SUFFICES ASSUME ImportInv, NEW a \in told, NEW b \in told, a[1] = b[1] PROVE a = b
    BY DEF ImportInv, Import!KeyAnswersOnce
  <2>1. [hash |-> a[2], id |-> a[3]] = [hash |-> b[2], id |-> b[3]]
    BY DEF ImportInv, Recorded
  <2>2. a[2] = b[2] /\ a[3] = b[3]
    BY <2>1
  <2>3. a \in Keys \X Hash \X Nat /\ b \in Keys \X Hash \X Nat
    BY DEF ImportInv, ImportTypes
  <2> QED
    BY <2>2, <2>3
<1> QED
  BY <1>1, ImportInit, ImportStep, PTL DEF Import!Spec

\* No request replaces an AGENTS.md that the user wrote (initialization.go, writeFileIfAbsent).
THEOREM ManifestsAreKept ==
    ASSUME Import!ImportConstants PROVE Import!Spec => [][Import!UserManifestKept]_(Import!vars)
<1>1. ImportInv /\ edits \in Nat /\ [Import!Next]_(Import!vars) => [Import!UserManifestKept]_(Import!vars)
  <2> SUFFICES ASSUME ImportInv, edits \in Nat, Import!Next, edits' = edits, NEW r \in Roots, tree[r].agents = "user"
               PROVE  tree'[r].agents = "user"
    BY DEF Import!UserManifestKept
  <2>0. tree \in [Roots -> Tree] /\ tree[r] \in Tree
    BY DEF ImportInv, ImportTypes
  <2>1. CASE Import!MakeDir
    BY <2>0, <2>1 DEF Import!MakeDir, Tree
  <2>2. CASE Import!WriteProjectJSON
    <3> PICK m : m = IF tree[call.req.root].json # Nothing THEN tree[call.req.root].json
                     ELSE [id |-> ids + 1, slug |-> call.req.slug]
      OBVIOUS
    <3>1. tree' = [tree EXCEPT ![call.req.root].json = m]
      BY <2>2 DEF Import!WriteProjectJSON
    <3> QED
      BY <2>0, <3>1 DEF Tree
  <2>3. CASE Import!WriteDefaults \/ Import!InitBeads
    BY <2>0, <2>3 DEF Import!WriteDefaults, Import!InitBeads, Tree
  <2>4. CASE Import!WriteDraft
    BY <2>0, <2>4 DEF Import!WriteDraft, Tree
  <2>5. CASE Import!Import \/ Import!Create \/ Import!Draft \/ Import!UpdateRow
    <3>1. tree' = tree
      BY <2>5, Zenon DEF Import!Import, Import!Create, Import!Draft, Import!UpdateRow
    <3> QED
      BY <3>1
  <2>6. CASE Import!Abandon
    BY <2>6, Zenon DEF Import!Abandon
  <2>7. CASE Import!Edit
    <3>1. edits' = edits + 1 /\ edits \in Nat
      BY <2>7 DEF Import!Edit
    <3> QED
      BY <3>1
  <2> QED
    BY <2>1, <2>2, <2>3, <2>4, <2>5, <2>6, <2>7 DEF Import!Next
<1>2. Import!Init => edits \in Nat
  BY DEF Import!Init
<1>3. edits \in Nat /\ [Import!Next]_(Import!vars) => (edits \in Nat)'
  <2> SUFFICES ASSUME edits \in Nat, [Import!Next]_(Import!vars) PROVE edits' \in Nat
    OBVIOUS
  <2>1. CASE Import!MakeDir \/ Import!WriteProjectJSON \/ Import!WriteDefaults \/ Import!InitBeads
    BY <2>1, Zenon DEF Import!MakeDir, Import!WriteProjectJSON, Import!WriteDefaults, Import!InitBeads
  <2>2. CASE Import!Import \/ Import!Create \/ Import!Draft \/ Import!WriteDraft \/ Import!UpdateRow
    BY <2>2, Zenon DEF Import!Import, Import!Create, Import!Draft, Import!WriteDraft, Import!UpdateRow
  <2>3. CASE Import!Abandon \/ Import!Edit
    BY <2>3 DEF Import!Abandon, Import!Edit
  <2>4. CASE UNCHANGED Import!vars
    BY <2>4, Zenon DEF Import!vars
  <2> QED
    BY <2>1, <2>2, <2>3, <2>4 DEF Import!Next
<1> QED
  BY <1>1, <1>2, <1>3, ImportInit, ImportStep, PTL DEF Import!Spec
=============================================================================
