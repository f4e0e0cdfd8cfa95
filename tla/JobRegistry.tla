---------------------------- MODULE JobRegistry ----------------------------
(***************************************************************************)
(* jobs.FileRegistry: the durable registry of the daemon's jobs.           *)
(*                                                                         *)
(* Every operation holds the registry's mutex, changes the snapshot in     *)
(* memory and then saves it; an error of the save is returned after memory *)
(* has changed.  Save writes a temporary file and renames it, so that a    *)
(* failed save leaves the old file.  A job's log is a file of its own,     *)
(* which is read and appended without the mutex.                           *)
(*                                                                         *)
(* told, held and promised are histories of what callers were answered     *)
(* without an error; atEnd and undone say how long a log was when its job  *)
(* ended, and for which jobs that end was lost with the daemon's memory.   *)
(***************************************************************************)
EXTENDS Integers, FiniteSets

CONSTANTS
    Jobs,           \* identifiers of jobs
    Holders,        \* workers that lease jobs
    Keys,           \* idempotency keys
    Hashes,         \* digests of creation requests, without the identifier
    Nothing,        \* no key, no record, no job
    Readers,        \* clients that follow the log of a job
    DefaultLimit,   \* DefaultReadLimit
    MaxLimit,       \* MaxReadLimit
    MaxTime,        \* bound: the clock
    MaxFaults,      \* bound: failed saves
    MaxLog          \* bound: length of a log

VARIABLES
    mem,      \* FileRegistry.state
    disk,     \* the state file
    up,       \* whether the daemon runs
    now,      \* the clock
    faults,   \* saves that failed
    logs,     \* length of the log of each job
    reader,   \* per reader: what it follows and how far it has come
    told,     \* outcomes that were answered
    held,     \* until when a holder believes that it holds a job
    promised, \* jobs that were the answer to a creation with a key
    atEnd,    \* length of the log when the job ended
    undone    \* jobs whose end was only in the memory of a daemon that died

vars == <<mem, disk, up, now, faults, logs, reader, told, held, promised, atEnd, undone>>

Terminal == {"succeeded", "failed", "interrupted"}
Statuses == {"queued", "running", "waiting_approval", "canceling"} \cup Terminal
Nobody == "nobody"

Job == [status : Statuses \cup {"absent"}, holder : Holders \cup {Nobody},
        expires : Nat, process : {"none", "attached", "reattached"}]
NewJob == [status |-> "queued", holder |-> Nobody, expires |-> 0, process |-> "none"]
NoJob == [NewJob EXCEPT !.status = "absent"]

IdempotencyRecord == [hash : Hashes, job : Jobs]
Snapshot == [jobs : [Jobs -> Job], keys : [Keys -> IdempotencyRecord \cup {Nothing}]]
EmptySnapshot == [jobs |-> [j \in Jobs |-> NoJob], keys |-> [k \in Keys |-> Nothing]]

Reader == [job : Jobs \cup {Nothing}, offset : Nat, final : BOOLEAN,
           phase : {"status", "chunk", "done"}]
NotReading == [job |-> Nothing, offset |-> 0, final |-> FALSE, phase |-> "status"]

\* As a bug would have it: a lease is over one instant before its holder stops.
LeaseExpiredEarly(job) == job.expires <= now + 1

LeaseExpired(job) == job.expires <= now

\* What the constants are: an empty holder is refused, no identifier and no record is nothing,
\* and both limits are sizes.
RegistryConstants == /\ Nobody \notin Holders /\ Nothing \notin Jobs \cup IdempotencyRecord
                     /\ DefaultLimit \in Nat /\ MaxLimit \in Nat

-----------------------------------------------------------------------------
(* Saving.  histories of answers change only with a save that succeeds.    *)

answers == <<told, held, promised>>

Persist(s) == /\ mem' = s
              /\ disk' = s
              /\ UNCHANGED faults

PersistFails(s) == /\ faults < MaxFaults
                   /\ mem' = s
                   /\ faults' = faults + 1
                   /\ UNCHANGED <<disk, answers>>

\* updateJob: the new value of job j is stored and saved; answer says what the
\* caller learns from a save that succeeded.
Update(j, job, answer) ==
    LET s == [mem EXCEPT !.jobs[j] = job]
    IN /\ up
       /\ mem.jobs[j].status # "absent"
       /\ \/ Persist(s) /\ answer
          \/ PersistFails(s)
       /\ atEnd' = IF job.status \in Terminal /\ mem.jobs[j].status \notin Terminal
                   THEN [atEnd EXCEPT ![j] = logs[j]] ELSE atEnd
       /\ UNCHANGED <<up, now, logs, reader, undone>>

-----------------------------------------------------------------------------
(* Operations.                                                             *)

\* As a bug would have it: the record of a known key is overwritten.
CreateAnew(j, k, h) ==
    /\ up
    /\ mem.jobs[j].status = "absent"
    /\ LET s == [jobs |-> [mem.jobs EXCEPT ![j] = NewJob],
                 keys |-> IF k \in Keys
                          THEN [mem.keys EXCEPT ![k] = [hash |-> h, job |-> j]]
                          ELSE mem.keys]
       IN Persist(s) \/ PersistFails(s)
    /\ UNCHANGED <<up, now, logs, reader, answers, atEnd, undone>>

\* A new job, with or without an idempotency key.
CreateNew(j, k, h) ==
    /\ up
    /\ mem.jobs[j].status = "absent"
    /\ k \in Keys => mem.keys[k] = Nothing
    /\ LET s == [jobs |-> [mem.jobs EXCEPT ![j] = NewJob],
                 keys |-> IF k \in Keys
                          THEN [mem.keys EXCEPT ![k] = [hash |-> h, job |-> j]]
                          ELSE mem.keys]
       IN \/ /\ Persist(s)
             /\ promised' = IF k \in Keys THEN [promised EXCEPT ![k] = @ \cup {j}] ELSE promised
             /\ UNCHANGED <<told, held>>
          \/ PersistFails(s)
    /\ UNCHANGED <<up, now, logs, reader, atEnd, undone>>

\* The key is known: the job of its record is the answer, and nothing is saved.
CreateAgain(k, h) ==
    /\ up
    /\ mem.keys[k] # Nothing
    /\ mem.keys[k].hash = h
    /\ promised' = [promised EXCEPT ![k] = @ \cup {mem.keys[k].job}]
    /\ UNCHANGED <<mem, disk, up, now, faults, logs, reader, told, held, atEnd, undone>>

Lease(j, h, d) ==
    LET job == mem.jobs[j]
    IN /\ job.status \notin Terminal \cup {"canceling"}
       /\ job.holder \in {Nobody, h} \/ LeaseExpired(job)
       /\ Update(j, [job EXCEPT !.status = "running", !.holder = h, !.expires = now + d],
                 held' = [held EXCEPT ![j][h] = now + d] /\ UNCHANGED <<told, promised>>)

Heartbeat(j, h, d) ==
    LET job == mem.jobs[j]
    IN /\ job.status \in {"running", "waiting_approval"}
       /\ job.holder = h
       /\ Update(j, [job EXCEPT !.expires = now + d],
                 held' = [held EXCEPT ![j][h] = now + d] /\ UNCHANGED <<told, promised>>)

\* Complete, Fail and Interrupt.  by is the reporting holder, or Nobody: neither
\* an empty holder nor a job without one is tested.
MayReport(job, by) == by = Nobody \/ job.holder \in {Nobody, by}

\* As a bug would have it: a job that has ended may end again.
EndAgain(j, outcome, by) ==
    /\ outcome = "interrupted" \/ MayReport(mem.jobs[j], by)
    /\ Update(j, [mem.jobs[j] EXCEPT !.status = outcome, !.holder = Nobody, !.expires = 0],
              told' = [told EXCEPT ![j] = @ \cup {outcome}] /\ UNCHANGED <<held, promised>>)

End(j, outcome, by) ==
    LET job == mem.jobs[j]
    IN /\ \/ job.status = outcome
          \/ /\ job.status \notin Terminal
             /\ outcome = "interrupted" \/ MayReport(job, by)
       /\ Update(j, IF job.status = outcome THEN job
                    ELSE [job EXCEPT !.status = outcome, !.holder = Nobody, !.expires = 0],
                 told' = [told EXCEPT ![j] = @ \cup {outcome}] /\ UNCHANGED <<held, promised>>)

Cancel(j) ==
    LET job == mem.jobs[j]
    IN Update(j, IF job.status \in Terminal THEN job ELSE [job EXCEPT !.status = "canceling"],
              UNCHANGED answers)

AttachProcess(j) ==
    /\ mem.jobs[j].status \notin Terminal
    /\ Update(j, [mem.jobs[j] EXCEPT !.process = "attached"], UNCHANGED answers)

DetachProcess(j) == Update(j, [mem.jobs[j] EXCEPT !.process = "none"], UNCHANGED answers)

\* As a bug would have it: the lost job gets a status the registry does not know.
RecoveredLost(live) ==
    [j \in Jobs |->
        IF mem.jobs[j].status \in Terminal \cup {"queued", "absent"} THEN mem.jobs[j]
        ELSE [mem.jobs[j] EXCEPT !.status = "lost"]]

\* RecoverInterrupted: called with the processes that are alive.
Recovered(live) ==
    [j \in Jobs |->
        LET job == mem.jobs[j]
        IN IF job.status \in Terminal \cup {"queued", "absent"} THEN job
           ELSE IF j \in live THEN [job EXCEPT !.process = "reattached"]
           ELSE [status |-> "interrupted", holder |-> Nobody, expires |-> 0, process |-> "none"]]

RecoverInterrupted(live) ==
    /\ up
    /\ \E j \in Jobs : mem.jobs[j].status \notin Terminal \cup {"queued", "absent"}
    /\ LET s == [mem EXCEPT !.jobs = Recovered(live)]
       IN /\ \/ Persist(s) /\ UNCHANGED answers
             \/ PersistFails(s)
          /\ atEnd' = [j \in Jobs |-> IF s.jobs[j].status \in Terminal
                                         /\ mem.jobs[j].status \notin Terminal
                                      THEN logs[j] ELSE atEnd[j]]
    /\ UNCHANGED <<up, now, logs, reader, undone>>

-----------------------------------------------------------------------------
(* Logs.                                                                   *)

AppendLog(j) ==
    /\ up
    /\ mem.jobs[j].status # "absent"
    /\ logs[j] < MaxLog
    /\ logs' = [logs EXCEPT ![j] = @ + 1]
    /\ UNCHANGED <<mem, disk, up, now, faults, reader, answers, atEnd, undone>>

NormalizeLimit(limit) == IF limit <= 0 THEN DefaultLimit
                         ELSE IF limit > MaxLimit THEN MaxLimit ELSE limit

\* joblog.Store.Read of a log of length total.
Chunk(total, offset, limit) ==
    LET next == IF offset >= total THEN offset
                ELSE IF offset + NormalizeLimit(limit) > total THEN total
                ELSE offset + NormalizeLimit(limit)
    IN [next |-> next, eof |-> next >= total]

\* ReadLog asks for the status of the job first ...
ReadStatus(r, j) ==
    /\ up
    /\ mem.jobs[j].status # "absent"
    /\ reader[r].phase = "status"
    /\ reader[r].job \in {Nothing, j}
    /\ reader' = [reader EXCEPT ![r] = [@ EXCEPT !.job = j, !.phase = "chunk",
                                                 !.final = mem.jobs[j].status \in Terminal]]
    /\ UNCHANGED <<mem, disk, up, now, faults, logs, answers, atEnd, undone>>

\* ... and reads the chunk afterwards.  A client comes back at the next offset
\* until it is told that the chunk was the last one and the job has ended.
ReadChunk(r, limit) ==
    LET chunk == Chunk(logs[reader[r].job], reader[r].offset, limit)
    IN /\ up
       /\ reader[r].phase = "chunk"
       /\ reader' = [reader EXCEPT ![r] = [@ EXCEPT !.offset = chunk.next,
                        !.phase = IF reader[r].final /\ chunk.eof THEN "done" ELSE "status"]]
       /\ UNCHANGED <<mem, disk, up, now, faults, logs, answers, atEnd, undone>>

-----------------------------------------------------------------------------
(* Time, exit and restart.                                                 *)

Pass == /\ now < MaxTime
        /\ now' = now + 1
        /\ UNCHANGED <<mem, disk, up, faults, logs, reader, answers, atEnd, undone>>

Crash == /\ up
         /\ up' = FALSE
         /\ mem' = EmptySnapshot
         /\ reader' = [r \in Readers |-> IF reader[r].phase = "chunk"
                                         THEN [reader[r] EXCEPT !.phase = "status"]
                                         ELSE reader[r]]
         /\ undone' = undone \cup {j \in Jobs : /\ mem.jobs[j].status \in Terminal
                                            /\ disk.jobs[j].status \notin Terminal}
         /\ UNCHANGED <<disk, now, faults, logs, answers, atEnd>>

\* NewFileRegistry.
Restart == /\ ~up
           /\ up' = TRUE
           /\ mem' = disk
           /\ UNCHANGED <<disk, now, faults, logs, reader, answers, atEnd, undone>>

Init == /\ mem = EmptySnapshot
        /\ disk = EmptySnapshot
        /\ up = TRUE
        /\ now = 0
        /\ faults = 0
        /\ logs = [j \in Jobs |-> 0]
        /\ reader = [r \in Readers |-> NotReading]
        /\ told = [j \in Jobs |-> {}]
        /\ held = [j \in Jobs |-> [h \in Holders |-> 0]]
        /\ promised = [k \in Keys |-> {}]
        /\ undone = {}
        /\ atEnd = [j \in Jobs |-> 0]

Operation(j) ==
    \/ \E k \in Keys \cup {Nothing}, h \in Hashes : CreateNew(j, k, h)
    \/ \E h \in Holders : Lease(j, h, 1) \/ Heartbeat(j, h, 1)
    \/ \E o \in Terminal, h \in Holders \cup {Nobody} : End(j, o, h)
    \/ Cancel(j)
    \/ AttachProcess(j)
    \/ DetachProcess(j)
    \/ AppendLog(j)

Next == \/ \E j \in Jobs : Operation(j)
        \/ \E k \in Keys, h \in Hashes : CreateAgain(k, h)
        \/ \E live \in SUBSET Jobs : RecoverInterrupted(live)
        \/ \E r \in Readers, j \in Jobs : ReadStatus(r, j)
        \/ \E r \in Readers, limit \in 0 .. MaxLimit + 1 : ReadChunk(r, limit)
        \/ Pass
        \/ Crash
        \/ Restart

Spec == Init /\ [][Next]_vars

-----------------------------------------------------------------------------
(* Properties.                                                             *)

\* The snapshots, readers and histories have the values the code gives them, and
\* the memory of a daemon that is down is gone.
RegistryTypeOK ==
    /\ {mem, disk} \subseteq Snapshot
    /\ up \in BOOLEAN
    /\ up \/ mem = EmptySnapshot
    /\ now \in Nat /\ faults \in Nat
    /\ logs \in [Jobs -> Nat]
    /\ reader \in [Readers -> Reader]
    /\ told \in [Jobs -> SUBSET Terminal]
    /\ held \in [Jobs -> [Holders -> Nat]]
    /\ promised \in [Keys -> SUBSET Jobs]
    /\ atEnd \in [Jobs -> Nat]
    /\ undone \subseteq Jobs

\* Two workers never both believe that they hold a job: Lease refuses while another
\* holder's lease has not expired, whatever saves failed and restarts came between.
LeaseExclusive ==
    \A j \in Jobs : \A h, g \in Holders :
        held[j][h] > now /\ held[j][g] > now => h = g

\* Nobody is ever told of two outcomes of a job, and the outcome that was answered is
\* the one the file keeps: Complete, Fail and Interrupt answer only after a save.
OneOutcome ==
    \A j \in Jobs : told[j] # {} => told[j] = {disk.jobs[j].status}

\* An idempotency record that reached the file names the same job for good, and that
\* job is in the file with it.
KeysStay == \A k \in Keys : disk.keys[k] # Nothing =>
                /\ disk'.keys[k] = disk.keys[k]
                /\ disk'.jobs[disk.keys[k].job].status # "absent"
DurableKeyIsFinal == [][KeysStay]_vars

\* A client that was told of the last chunk has read everything that was written
\* before the job ended: ReadLog asks for the status before it reads the file.
FinalIsComplete ==
    \A r \in Readers : reader[r].phase = "done" =>
        \/ reader[r].offset >= atEnd[reader[r].job]
        \/ reader[r].job \in undone

\* docs/process-manager.md: "idempotent create returns the same job for the same key".  One
\* key is answered with a second job only for a save that failed: Create answers from memory a
\* job whose save has failed, and a restart forgets it.
KeyNamesOneJob == \A k \in Keys : Cardinality(promised[k]) <= 1 + faults
=============================================================================
